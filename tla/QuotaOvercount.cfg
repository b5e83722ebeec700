SPECIFICATION QMSpec
CONSTANTS
    narrow = narrow
    wide = wide
    Keys <- MCKeys
    Quotas <- MCQuotas
    Requests = {r1, r2}
    StoreFails = FALSE
    Values = {}
    Lifetimes = {2, 3}
    MaxCount = 4
    MaxClock = 4
INVARIANT BlockedNotCounted
