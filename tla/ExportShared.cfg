SPECIFICATION Spec
CONSTANTS
    i1 = i1
    i2 = i2
    i3 = i3
    i4 = i4
    i5 = i5
    i6 = i6
    e1 = e1
    e2 = e2
    f1 = f1
    Jobs = {e1, e2}
    Names <- SharedNames
    Inodes = {i1, i2, i3, i4, i5}
    Unit = {"configuration", "video"}
    Config = "configuration"
    MaxVersion = 0
    InitEntry <- SharedEntry
    Older = {}
    Stuck = {}
    Requests <- SharedRequests
    Exporters = {e1, e2}
    Faults = {}
    NoFile = NoFile
    NotRead = NotRead
    Nobody = Nobody
INVARIANTS
    OutputIsFinished
CHECK_DEADLOCK FALSE
