SPECIFICATION Spec
CONSTANTS
    Unit = 2
    MaxUdp = 16
    Infinity = 100
    Packets = {"A", "B", "C"}
    Id <- ThreeId
    Length <- ThreeLength
    Fragments <- LongPacket
    NoPacket = "none"
    FirstFirst = FALSE
    LateCopies = FALSE
INVARIANT ReturnsWhole
