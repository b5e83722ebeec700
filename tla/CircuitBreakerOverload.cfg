SPECIFICATION CBFairSpec
CONSTANTS
    Callers = {r1, r2, r3}
    Threshold = 2
    ResetAfter = 2
    MaxFailures = 3

PROPERTY TripsUnderOverload
