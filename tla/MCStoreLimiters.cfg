SPECIFICATION Spec
CONSTANTS
    narrow = narrow
    wide = wide
    other = other
    Keys <- MCKeys
    OtherKeys <- MCOtherKeys
    Quotas <- MCQuotas
    Requests = {r1, r2}
    StoreFails = TRUE
    Values = {2}
    Lifetimes = {2, 3}
    MaxCount = 3
    MaxClock = 4
    BurstLimit = 1
    BurstExtra = 1
    BurstWindow = 2
    BurstSecond = 2
    PriorityLimit = 1
    HighPercent = 200
    LowPercent = 50
    PriorityWindow = 2
    PriorityHeaders = {0, 1, 10}
SYMMETRY RequestSymmetry
INVARIANTS TypeOK QuotaExact BurstExact TiersRespected
PROPERTIES ImplementsStore
