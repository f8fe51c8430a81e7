SPECIFICATION DriverSpec
CONSTANTS
    Kind <- Kinds
    SteppedOver = {"mdat"}
    Opening = {"moov", "ftyp", "mdat"}
    Blank = {"nul"}
    Lengths = {6, 14}
    Bytes <- SomeBytes
    Counts <- SomeCounts
    MovieCap = 16
    FileTypeCap = 12
    HoldCap = 20
    MaxTopLevel = 3
INVARIANTS
    FinishedWithAMovie
CHECK_DEADLOCK FALSE
