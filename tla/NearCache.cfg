SPECIFICATION Spec
CONSTANTS
    Thread = {t1, t2}
    Key = {k1, k2}
    None = None
    MaxEntries = 1
    MaxVersion = 3
    MaxOps = 2
    MaxFailures = 1
SYMMETRY Symmetry
CHECK_DEADLOCK FALSE
INVARIANTS
    NearBounded
    EntriesAreEvictable
    Coherent
