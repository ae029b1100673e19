SPECIFICATION Spec
CONSTANTS
    EraseSize = 2
    NBlocks = 3
    Ranges <- SomeRanges
    Erasures <- SomeErasures
    MaxCommands = 3
    MaxFaults = 0
INVARIANT ReadableLater
