SPECIFICATION Spec
CONSTANTS
    Callers = {c1, c2}
    Limit = 2
    Window = 4
    Second = 2
    Milli = 2
    MaxDelay = 2
    MaxTime = 7
    MaxCount = 4
    Starts = {0,3}
    Strategies = {"fixed_window", "sliding_window", "leaky_bucket"}
SYMMETRY CallerSymmetry
INVARIANTS TypeOK FWWindowBounded FWNoOrphanKey SWWindowBounded LBRateBounded
PROPERTIES LBRejectsOnlyAfterFill FailsOpen
