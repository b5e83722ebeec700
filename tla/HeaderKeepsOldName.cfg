SPECIFICATION RPSpec
CONSTANTS
    Codes = {200, 429}
    MaxCalls = 2
INVARIANT OldNameAbsent
CHECK_DEADLOCK FALSE
