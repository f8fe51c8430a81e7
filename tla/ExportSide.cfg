SPECIFICATION SideSpec
CONSTANTS
    i1 = i1
    i2 = i2
    i3 = i3
    i4 = i4
    i5 = i5
    i6 = i6
    e1 = e1
    e2 = e2
    f1 = f1
    Jobs = {e1, f1}
    Names <- SideNames
    Inodes = {i1, i2, i3, i4, i5, i6}
    Unit = {"configuration", "video"}
    Config = "configuration"
    MaxVersion = 1
    InitEntry <- SideEntry
    Older <- SideOlder
    Stuck <- SideStuck
    Requests <- SideRequests
    Exporters = {e1}
    Faults = {"read", "write", "create", "rename", "crash"}
    NoFile = NoFile
    NotRead = NotRead
    Nobody = Nobody
INVARIANTS
    TypeOK
    OutputIsFinished
    OutputIsASnapshot
    SourcesSurvive
    ManifestDescribesOutput
    NoPartialLeftBehind
PROPERTIES
    PublishedOnce
    ExportIsAtomic
    EveryJobEnds
    InterruptionIsHonoured
CHECK_DEADLOCK FALSE
