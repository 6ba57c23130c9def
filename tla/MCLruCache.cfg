\* Four keys in a cache of three, two responses, a clock that outlives an entry.
SPECIFICATION Spec
CONSTANTS
    Keys = {k1, k2, k3, k4}
    Values = {v1, v2}
    Ids = {e1, e2, e3, e4}
    None = None
    MaxItems = 3
    Ttl = 2
    Jitter = 1
    MaxTime = 3
SYMMETRY MCSymmetry
INVARIANTS TypeOK ListIsMap OrderIsRecency WithinLimit
PROPERTIES EvictsLeastRecent KeepsContract
