SPECIFICATION Spec
CONSTANTS
    Thread = {t1, t2}
    Key = {k1, k2}
    Id = {i1, i2, i3, i4}
    None = None
    MinIdle = 1
    MaxActive = 1
    MaxTotal = 1
    ExhaustedAction = "EXCEPTION"
    TestOnBorrow = TRUE
    TestOnReturn = TRUE
    Ops = {"invalidate", "clearKey", "close", "destroy"}
    Faults = {"connect", "ping", "otherServer"}
    MaxOps = 3
SYMMETRY Symmetry
CHECK_DEADLOCK FALSE
INVARIANTS
    NoSharing
    RightServer
    IdleIsLive
    ActiveIsExact
PROPERTIES
    HeldIsNotDestroyed
    ImplementsLoan
