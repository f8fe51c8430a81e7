SPECIFICATION Spec
CONSTANTS
    Library <- Libraries
    Contents <- Written
    MaxWrites = 2
    MaxFailures = 1
    MaxClock = 2
    MaxRuns = 3
INVARIANTS
    StaleOnlyWithinASecond
    NothingDisappears
    PairsAreWholeAndOrdered
    SignsHaveAWitness
CHECK_DEADLOCK FALSE
