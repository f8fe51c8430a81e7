SPECIFICATION Spec
CONSTANTS
    i1 = i1
    i2 = i2
    i3 = i3
    i4 = i4
    i5 = i5
    i6 = i6
    e1 = e1
    e2 = e2
    f1 = f1
    Jobs = {f1}
    Names <- OverNames
    Inodes = {i1}
    Unit = {"configuration", "video"}
    Config = "configuration"
    MaxVersion = 1
    InitEntry <- OverEntry
    Older = {}
    Stuck = {}
    Requests <- OverRequests
    Exporters = {}
    Faults = {}
    NoFile = NoFile
    NotRead = NotRead
    Nobody = Nobody
INVARIANTS
    SourcesSurvive
CHECK_DEADLOCK FALSE
