SPECIFICATION FairQueueSpec
CONSTANTS
    Thread = {t1, t2, t3}
    Value = {v1, v2, v3}
    Capacity = 2
INVARIANTS
    NoLostWakeup
    Fifo
PROPERTIES
    ValuesMeetWaiters
