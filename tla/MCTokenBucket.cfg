SPECIFICATION Spec
CONSTANTS
    Callers = {c1, c2}
    Limit = 2
    Window = 3
    Second = 1
    Burst = 3
    MaxDelay = 1
    MaxTime = 8
    Starts = {0, 1, 3}
SYMMETRY CallerSymmetry
INVARIANTS TBTypeOK RateBounded
PROPERTIES BlockedOnlyWhenSpent
