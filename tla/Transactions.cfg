SPECIFICATION Spec
CONSTANTS
    t1 = t1
    t2 = t2
    k1 = k1
    Thread = {t1, t2}
    Cache = {1, 2}
    Key = {k1}
    forceReturnValue <- MCForce
    CachesOf <- MCCachesOf
    Unreliable = {t1}
    MaxTx = 1
    MaxVersion <- MCMaxVersion
    MaxAccess <- MCMaxAccess
INVARIANTS
    
    AtomicUnlessFaulty
    
PROPERTIES
    NoLostUpdate
    CommitNeedsAllVotes
CHECK_DEADLOCK FALSE
