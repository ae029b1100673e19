SPECIFICATION FairSpec
CONSTANTS
    N = 1
    Mac = {1}
    InitOutcomes <- AllGood
    Protocols = {"PING"}
    NetretryValues = {"unset"}
    NetretryNumber = 0
    Rotate = TRUE
    RetryConfig = 1
    ArpTicks = 1
    WaitTicks = 2
    MaxBlocks = 1
PROPERTY StartsAgain
