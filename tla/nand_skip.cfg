SPECIFICATION FairSpec
CONSTANTS
    EraseSize = 2
    NBlocks = 3
    Ranges <- SomeRanges
    Erasures <- SomeErasures
    MaxCommands = 2
    MaxFaults = 1
INVARIANTS TypeOK Placed ReadsBack
PROPERTIES OnlyItsPages CommandEnds
