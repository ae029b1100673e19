SPECIFICATION Spec
CONSTANTS
    Names <- TwoNames
    Kind <- TwoKind
    Vals <- TwoVals
    NoVal = "0"
    ValLen <- LongLen
    EnvLimit = 2
    Devices = {}
    BaudrateTable = {}
    DefaultEnv <- TwoDefault
    IpAddr = "ipaddr"
    Redundant = FALSE
    EnvBlocks = 1
    RangeBlocks = 1
    FlagMod = 3
    FactoryBad = {}
    Faults = {}
INVARIANT SaveSticks
