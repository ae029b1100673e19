SPECIFICATION FairSpec
CONSTANTS
    N = 2
    Mac = {2}
    InitOutcomes <- AnyGood
    Protocols = {"TFTP", "PING"}
    NetretryValues = {"unset", "number"}
    NetretryNumber = 3
    Rotate = TRUE
    RetryConfig = 3
    ArpTicks = 1
    WaitTicks = 1
    MaxBlocks = 1
INVARIANTS TypeOK OnlyCurrentActive HaltedAtPrompt OwnHandlers
PROPERTIES StartsAgain Returns
