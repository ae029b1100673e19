SPECIFICATION Spec
CONSTANTS
    EraseSize = 2
    NBlocks = 3
    Ranges <- SomeRanges
    Erasures <- SomeErasures
    MaxCommands = 2
    MaxFaults = 0
PROPERTY BadBlocksSkipped
