SPECIFICATION Spec
CONSTANTS
    t1 = t1
    t2 = t2
    s1 = s1
    s2 = s2
    None = None
    Thread = {t1, t2}
    Cache = {"c1", "c2", ""}
    EmptyName = ""
    CacheOf <- MCOneCache
    Server = {s1, s2}
    Members <- MCMembers
    Hashed = {1, 2, 3}
    MaxFailures = 0
INVARIANTS
    IgnoredIsOutdated
CHECK_DEADLOCK FALSE
