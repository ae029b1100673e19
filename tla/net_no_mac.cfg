SPECIFICATION Spec
CONSTANTS
    N = 1
    Mac = {}
    InitOutcomes <- AllGood
    Protocols = {"PING"}
    NetretryValues = {"unset"}
    NetretryNumber = 0
    Rotate = TRUE
    RetryConfig = 4
    ArpTicks = 1
    WaitTicks = 2
    MaxBlocks = 1
INVARIANT HaltedAfterAny
