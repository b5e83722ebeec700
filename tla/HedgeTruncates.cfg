SPECIFICATION HESpec
CONSTANTS
    HedgeDelay = 1
    MaxHedges = 1
    MaxWrites = 2
    MaxElapsed = 2
INVARIANT FirstResponseUsed
CHECK_DEADLOCK FALSE
