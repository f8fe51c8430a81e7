SPECIFICATION Spec
CONSTANTS
    Request <- ToTheEnd
    OffsetLimit = 5000
    NarrowLimit = 2903
    CopyBuffer = 10
    Streams <- Frames
    SparseGap = 3000
    VendorBoxSize = 40
INVARIANTS
    UnknownBoxesSurvive
CHECK_DEADLOCK FALSE
