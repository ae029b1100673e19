SPECIFICATION Spec
CONSTANTS
    Unit = 2
    MaxUdp = 16
    Infinity = 100
    Packets = {"A", "B", "C"}
    Id <- SameId
    Length <- ThreeLength
    Fragments <- AllFragments
    NoPacket = "none"
    FirstFirst = TRUE
    LateCopies = FALSE
INVARIANT ReturnsWhole
