SPECIFICATION FairSpec
CONSTANTS
    Thread = {t1, t2, t3}
    Key = {k1}
    Id = {i1, i2, i3, i4}
    None = None
    MinIdle = 0
    MaxActive = 1
    MaxTotal <- Unlimited
    ExhaustedAction = "WAIT"
    TestOnBorrow = FALSE
    TestOnReturn = FALSE
    Ops = {}
    Faults = {}
    MaxOps = 2
PROPERTIES
    WaitersAreServed
