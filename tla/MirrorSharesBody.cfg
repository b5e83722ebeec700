SPECIFICATION BOSpec
CONSTANTS
    Sizes = {0, 1, 2}
    ByteLimits = {0}
INVARIANT PrimaryUnaffected
CHECK_DEADLOCK FALSE
