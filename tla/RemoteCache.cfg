SPECIFICATION Spec
CONSTANTS
    t1 = t1
    k1 = k1
    k2 = k2
    Thread = {t1}
    Cache = {t1}
    CacheOf <- MCOwnCache
    Key = {k1, k2}
    Value = {10}
    Owner <- MCOneServerPerKey
    Callbacks = {"get", "remove"}
    Duration <- MCDuration
    ForceReturnValue = FALSE
    MaxRetries = 2
    ErrorStatus = {130, 134}
    CompatOps <- MCCompatOps
    UInt32 = 100
    MaxCalls = 2
    MaxVersion = 3
    MaxFaults = 2
INVARIANTS
    
    AnswersTheCall
    VersionedTrueIsAppliedOnce
    
CHECK_DEADLOCK FALSE
