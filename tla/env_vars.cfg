SPECIFICATION RamSpec
CONSTANTS
    Names <- AllNames
    Kind <- AllKind
    Vals <- TwoVals
    NoVal = "0"
    ValLen <- LongLen
    EnvLimit = 4
    Devices = {"a"}
    BaudrateTable = {"a"}
    DefaultEnv <- AllDefault
    NetNames <- Learned
    IpAddr = "ipaddr"
    LoadAddr = "loadaddr"
    BootFile = "bootfile"
INVARIANTS MirrorsFollow StaleCrcOnlyDrops AddressCurrent
