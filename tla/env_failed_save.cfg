SPECIFICATION Spec
CONSTANTS
    Names <- OneName
    Kind <- OneKind
    Vals <- TwoVals
    NoVal = "0"
    ValLen <- TwoLen
    EnvLimit = 2
    Devices = {}
    BaudrateTable = {}
    DefaultEnv <- OneDefault
    IpAddr = "ipaddr"
    Redundant = TRUE
    EnvBlocks = 1
    RangeBlocks = 1
    FlagMod = 4
    FactoryBad = {}
    Faults = {"write"}
INVARIANT SaveSticks
