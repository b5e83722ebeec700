SPECIFICATION Spec
CONSTANTS
    HedgeDelay = 1
    MaxHedges = 2
    MaxWrites = 2
    MaxElapsed = 3
    Timeouts = {0, 2}
    Codes = {200, 429, 503}
    MaxCalls = 3
    Sizes = {0, 1, 2, 3}
    ByteLimits = {0, 1, 2, 3}
    IncomingValues = {"", "blanks", " client "}
    Recorders = {m1, m2}
    MaxTotal = 3
    Askers = {a1, a2}
    AdaptiveConfigs <- MCAdaptiveConfigs
    Loads = {30, 55, 90}
    Callers = {c1, c2, c3}
    Threshold = 2
    ResetAfter = 2
    MaxFailures = 3
    Requests = {r1, r2, r3}
    Held = {r1, r2, r3}
    MaxConcurrent = 1
    QueueSize = 1
    QueueTimeout = 1
    MaxPauses = 2
INVARIANTS
    TypeOK OneAttemptOnWire DoneHasRoom
    StatusAgrees RewriteDelivers HeadersOnWire BodyIntact IDsEchoed MetricsAgree
    CountMatchesState SlotsAccounted NoLostWakeup
PROPERTIES
    EveryRequestReturns ShadowReports AdaptsToLoad
    OpenEnds ClosesOnRecovery EveryRequestLeaves
CHECK_DEADLOCK FALSE
