SPECIFICATION Spec
CONSTANTS
    Request <- Requests
    OffsetLimit = 5000
    NarrowLimit = 2903
    CopyBuffer = 10
    Streams <- Frames
    SparseGap = 3000
    VendorBoxSize = 40
INVARIANTS
    SamplesSurvive
    AcceptedTablesAgree
    ReferencesResolve
    ReportMatchesOutput
    RemuxIsIdempotent
CHECK_DEADLOCK FALSE
