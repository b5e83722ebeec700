SPECIFICATION Spec
CONSTANTS
    Requests = {r1, r2, r3}
    Keys = {k1}
    MaxLag = 1
    DedupTTL = 2
    CacheTTL = 1
SYMMETRY RequestSymmetry
INVARIANTS TypeOK CallsAccounted EntriesSwept
PROPERTIES OncePerTTL HitsRecent
