SPECIFICATION Spec
CONSTANTS
    Kind <- Kinds
    Descended = {"moov", "trak"}
    Visual = {"avc1"}
    Audio = {"mp4a"}
    Lengths = {5, 44}
    Bytes <- SomeBytes
    Versions = {0, 1, 9}
    VisualFixed = 20
    AudioFixed <- AudioLayouts
    MaxDepth = 3
    MaxChildren = 2
INVARIANTS
    TypeOK
    EveryByteInOneChild
    ClippedOnlyAtTheEnd
    CapsAreHonest
CHECK_DEADLOCK FALSE
