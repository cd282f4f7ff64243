SPECIFICATION FairSpec
CONSTANTS
    t1 = t1
    t2 = t2
    s1 = s1
    s2 = s2
    None = None
    Thread = {t1, t2}
    Cache = {"c1", "c2", ""}
    EmptyName = ""
    CacheOf <- MCOwnCache
    Server = {s1, s2}
    Members <- MCMembers
    Hashed = {1, 2, 3}
    MaxFailures = 1
INVARIANTS
    RoutedIsPooled
    HashMatchesId
    

    
CHECK_DEADLOCK FALSE
