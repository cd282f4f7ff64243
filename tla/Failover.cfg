SPECIFICATION FairSpec
CONSTANTS
    Thread = {t1, t2}
    A = A
    B = B
    Cluster = {A, B}
    s1 = s1
    s2 = s2
    Server = {s1, s2}
    ServersOf <- Overlapping
    First = A
    None = None
    MaxRetries = 2
    MaxCalls = 1
INVARIANTS
    AttemptsAreBounded
    BalancerFollowsTopology
    ClosedPoolIsReplaced
PROPERTIES
    EndsOrSwitches
