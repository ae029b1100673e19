SPECIFICATION FiniteSpec
CONSTANTS
    FileLen = 5
    DefaultBlk = 2
    OptionBlk = 3
    SeqSize = 3
    UlongSize = 18
    MemSize = 5
    OurPorts <- Clients2
    ServerPorts <- Servers2
    WellKnown = 69
    Options = {TRUE, FALSE}
    RetryCount = 2
    TimeoutCount = 1
    FreshPorts = TRUE
    Keep = {TRUE}
    OutliveWrap = FALSE
INVARIANTS TypeOK FileIntact AckedStored
CHECK_DEADLOCK FALSE
PROPERTY Terminates
