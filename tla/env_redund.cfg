SPECIFICATION Spec
CONSTANTS
    Names <- OneName
    Kind <- OneKind
    Vals <- TwoVals
    NoVal = "0"
    ValLen <- TwoLen
    EnvLimit = 2
    Devices = {}
    BaudrateTable = {}
    DefaultEnv <- OneDefault
    IpAddr = "ipaddr"
    Redundant = TRUE
    EnvBlocks = 2
    RangeBlocks = 3
    FlagMod = 3
    FactoryBad <- SomeBad
    Faults = {}
INVARIANTS TypeOK SaveSticks BackupSurvives
PROPERTY AtomicStore
