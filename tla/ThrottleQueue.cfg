SPECIFICATION THSpec
CONSTANTS
    Requests = {r1, r2, r3}
    MaxConcurrent = 1
    QueueSize = 1
    QueueTimeout = 1
INVARIANT RefusedOnlyWhenBusy
