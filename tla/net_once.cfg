SPECIFICATION Spec
CONSTANTS
    N = 2
    Mac = {1, 2}
    InitOutcomes <- AllGood
    Protocols = {"TFTP"}
    NetretryValues = {"once"}
    NetretryNumber = 0
    Rotate = TRUE
    RetryConfig = 4
    ArpTicks = 1
    WaitTicks = 2
    MaxBlocks = 1
INVARIANT OnceTriesAll
