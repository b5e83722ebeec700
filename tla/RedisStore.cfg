SPECIFICATION Spec
CONSTANTS
    Keys = {k1}
    Values = {2}
    Lifetimes = {2}
    MaxClock = 4
    MaxCount = 3
PROPERTY ImplementsStore
