SPECIFICATION Spec
CONSTANTS
    Library <- OneStem
    Contents <- Written
    MaxWrites = 2
    MaxFailures = 1
    MaxClock = 2
    MaxRuns = 3
INVARIANTS
    PairsAreAsSaid
CHECK_DEADLOCK FALSE
