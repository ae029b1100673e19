SPECIFICATION Spec
CONSTANTS
    FileLen = 4
    DefaultBlk = 1
    OptionBlk = 2
    SeqSize = 3
    UlongSize = 1000
    MemSize = 12
    OurPorts <- Clients1
    ServerPorts <- Servers1
    WellKnown = 69
    Options = {FALSE}
    RetryCount = 1
    TimeoutCount = 0
    FreshPorts = TRUE
    Keep = {TRUE, FALSE}
    OutliveWrap = FALSE
CONSTRAINT OneInFlight
INVARIANT FileIntact
CHECK_DEADLOCK FALSE
