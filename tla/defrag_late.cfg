SPECIFICATION Spec
CONSTANTS
    Unit = 2
    MaxUdp = 16
    Infinity = 100
    Packets = {"A", "B", "C"}
    Id <- ThreeId
    Length <- ThreeLength
    Fragments <- ShortPacket
    NoPacket = "none"
    FirstFirst = TRUE
    LateCopies = TRUE
INVARIANT NeverConfused
