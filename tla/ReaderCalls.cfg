SPECIFICATION Spec
CONSTANTS
    Kind <- Kinds
    SteppedOver = {"mdat"}
    Opening = {"moov", "ftyp", "mdat"}
    Blank = {"nul"}
    Lengths = {2, 6, 24, 30}
    Bytes <- SomeBytes
    Counts <- SomeCounts
    MovieCap = 16
    FileTypeCap = 12
    HoldCap = 20
    MaxTopLevel = 3
INVARIANTS
    TypeOK
    RangesTile
    OnlyTheTailIsClipped
    OneMovieBox
    HoldsAreBoxes
    NeverStalls
    TopLevelIsCapped
PROPERTIES
    ErrorsChangeNothing
CHECK_DEADLOCK FALSE
