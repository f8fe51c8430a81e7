SPECIFICATION Spec
CONSTANTS
    Request <- Requests
    HoldCap = 100
    Changed <- ChangesOf
INVARIANTS
    StreamFollowsRule
    ConfirmedMeansUnchanged
    OneChangeOneFinding
    BoxesAccountedFor
    SourcesLeadToTracks
CHECK_DEADLOCK FALSE
