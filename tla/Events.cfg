SPECIFICATION FairSpec
CONSTANTS
    Listener = {l1}
    Handle = {h1}
    Counter = {c1}
    DispatcherId = {d1, d2}
    Conn = {1, 2, 3, 4}
    Config <- MCConfig
    Immediate = {"created"}
    Later = {"modified"}
    ErrorOps <- MCErrorOps
    None = None
    MaxRetries = 2
    MaxCalls = 3
    MaxEvents = 2
    MaxFaults = 1
INVARIANTS
    LoansAreAccountedFor
    EventsInOrder
    CounterAnswersAreTrue
    
PROPERTIES
    RemovedIsSilent
    CallsReturn
CHECK_DEADLOCK FALSE
