SPECIFICATION FairSpec
CONSTANTS
    Load = 4
    Periods = 8
    Kilo = 4
    UlongSize = 64
    Usecs = {1, 4, 6, 8}
    Deltas = {1, 2}
    Stamps <- StartOrWrap
    MaxGap = 4
    MaxWaits = 2
    MaxElapsed = 64
INVARIANTS TypeOK TimeTold DelayLongEnough TimeoutNotEarly
PROPERTIES WaitsEnd
