--------------------------- MODULE ConnectionPool ---------------------------
(***************************************************************************)
(* The keyed connection pool of the Hot Rod client:                        *)
(* src/src/hotrod/impl/transport/tcp/ConnectionPool.{h,cpp}.               *)
(*                                                                         *)
(* Client threads borrow a TcpTransport for a server (the key), use it,    *)
(* and return or invalidate it; the topology code adds and clears keys;    *)
(* close() and TransportFactory::destroy() shut the pool down.  One mutex  *)
(* guards the pool, but borrowObject releases it around BlockingQueue::pop *)
(* and around the decrement of totalIdle that follows.  Every section that *)
(* runs under the mutex is one action, or several actions that keep `lock` *)
(* when an element may be popped by a waiter, or an exception may leave the*)
(* section, in the middle of it.                                           *)
(*                                                                         *)
(* The ping of validateObject is modelled by its verdict, or the exception *)
(* it throws.  Its answer may also bring a topology update that re-enters  *)
(* the pool through the recursive mutex; that is not modelled here.        *)
(*                                                                         *)
(* BlockingQueue::pop is modelled by its guard: it is enabled when the     *)
(* queue is not empty (module BlockingQueue shows that the condition       *)
(* variable implements this).  notifyAll() therefore changes no state: a   *)
(* woken waiter that finds its queue empty waits again.                    *)
(***************************************************************************)
EXTENDS Integers, Sequences, FiniteSets, Functions

CONSTANTS
    Thread,          \* client threads
    Key,             \* server addresses (InetSocketAddress)
    Id,              \* a transport is <<server, id>>; bounds the live ones per server
    None,            \* NULL, and "nobody" for the mutex
    MinIdle, MaxActive, MaxTotal,
    ExhaustedAction, \* "WAIT" or "EXCEPTION"
    TestOnBorrow, TestOnReturn,
    Ops,             \* optional operations the clients use
    Faults,          \* what the network does
    MaxOps           \* bound: borrow, clear and close calls of one thread

Transport == Key \X Id

ASSUME ConfigAssumption ==
    /\ MinIdle \in Nat
    /\ MaxActive \in Int
    /\ MaxTotal \in Int
    /\ ExhaustedAction \in {"WAIT", "EXCEPTION"}
    /\ TestOnBorrow \in BOOLEAN
    /\ TestOnReturn \in BOOLEAN
    /\ Ops \subseteq {"invalidate", "clearKey", "close", "destroy"}
    /\ Faults \subseteq {"connect", "ping", "otherServer"}
    /\ MaxOps \in Nat

ASSUME NoneAssumption == None \notin Thread \cup Key \cup Transport

ASSUME ThreadAssumption == IsFiniteSet(Thread)

VARIABLES
    \* members of ConnectionPool
    idle, busy,      \* maps key -> queue; the order of a busy list is never used
    allocationQueue, \* keys that wait for a connection of another key
    closed, totalIdle, totalActive,
    lock,            \* the thread that holds the mutex
    \* the factory
    live,            \* transports made and not yet destroyed
    \* loop variables of the section that holds the mutex
    grown,           \* connections ensureMinIdle still has to make
    drain,           \* keys whose idle queue clear() still has to empty
    \* locals of the calls in progress
    pc, job, key, obj,
    tmp,             \* the value of totalIdle read by the unlocked decrement
    linked,          \* which of the captured queues idleQ, busyQ the maps still hold
    dropped,         \* content of the busy queues clear() took out of the map
    ops              \* calls started, against MaxOps

poolVars == <<idle, busy, allocationQueue, closed, totalIdle, totalActive>>
loopVars == <<grown, drain, dropped>>
callVars == <<job, key, tmp, linked>>
vars == <<idle, busy, allocationQueue, closed, totalIdle, totalActive, lock, live,
          grown, drain, pc, job, key, obj, tmp, linked, dropped, ops>>

Empty == [k \in {} |-> <<>>]

Init ==
    /\ idle = Empty /\ busy = Empty /\ allocationQueue = <<>>
    /\ closed = FALSE /\ totalIdle = 0 /\ totalActive = 0
    /\ lock = None /\ live = {} /\ grown = 0 /\ drain = {}
    /\ pc = [t \in Thread |-> "ready"]
    /\ job = [t \in Thread |-> "none"]
    /\ key = [t \in Thread |-> None]
    /\ obj = [t \in Thread |-> None]
    /\ tmp = [t \in Thread |-> 0]
    /\ linked = [t \in Thread |-> {}]
    /\ dropped = [k \in Key |-> {}]
    /\ ops = [t \in Thread |-> 0]

-----------------------------------------------------------------------------
(* Helpers *)

IdleSet == UNION {Range(idle[k]) : k \in DOMAIN idle}
BusySet == UNION {busy[k] : k \in DOMAIN busy}

\* An address still stored somewhere: a new transport never gets it.
InUse == live \cup IdleSet \cup BusySet
              \cup (UNION {dropped[k] : k \in Key})
              \cup {obj[t] : t \in Thread}

\* Seeded bug: the connection goes to any server.
MakableAnywhere(k) == Transport \ InUse

\* The transports factory->makeObject(k) can return.
Makable(k) == {tr \in {k} \X Id : tr \notin InUse}

HasReachedMaxTotal == MaxTotal > 0 /\ MaxTotal <= totalActive + totalIdle

\* tryRemoveIdle: a queue longer than minIdle, otherwise a longest one.  The
\* order of the map decides between several; any address order is possible.
Victims ==
    LET over == {k \in DOMAIN idle : MinIdle > 0 /\ Len(idle[k]) > MinIdle}
    IN IF over # {} THEN over
       ELSE {k \in DOMAIN idle :
                /\ idle[k] # <<>>
                /\ \A j \in DOMAIN idle : Len(idle[j]) <= Len(idle[k])}

\* calculateMinIdleGrow for a queue that was just created.
CalculateMinIdleGrow ==
    LET room == MaxTotal - totalIdle - totalActive
        growLimit == IF room > 0 THEN room ELSE 0
    IN IF MaxTotal > 0 /\ growLimit < MinIdle THEN growLimit ELSE MinIdle

\* Seeded bug: front() without pop_front().
PollKeeps(k) == idle' = idle

\* BlockingQueue::poll, pop and popOrThrow take the front of the queue.
Poll(k) == idle' = [idle EXCEPT ![k] = Tail(@)]

\* BlockingQueue::push and offer; the queues of the pool have no capacity limit.
Push(k, tr) == idle' = [idle EXCEPT ![k] = Append(@, tr)]

\* factory->destroyObject deletes the transport.
DestroyObject(tr) == live' = live \ {tr}

\* The queues a borrower captured before its loop.
IdleQ(t) == IF "idle" \in linked[t] THEN idle[key[t]] ELSE <<>>
BusyQ(t) == IF "busy" \in linked[t] THEN busy[key[t]] ELSE dropped[key[t]]

CanCreate(t) ==
    /\ IdleQ(t) = <<>>
    /\ MaxActive < 0 \/ Cardinality(BusyQ(t)) < MaxActive

\* The while condition of borrowObject, once obj is not NULL.
Obtained == IF TestOnBorrow THEN "validate" ELSE "got"

\* TransportFactory::updateServers and destroy() run under the factory's mutex.
FactoryLockFree ==
    \A t \in Thread : job[t] \notin {"add", "clearKey", "destroy", "destroyClose"}

\* A call of thread t starts; the locals of a call that ends are forgotten.
Call(t) == pc[t] = "ready" /\ ops[t] < MaxOps /\ ops' = [ops EXCEPT ![t] = @ + 1]

EndCall(t) ==
    /\ pc' = [pc EXCEPT ![t] = "ready"]
    /\ job' = [job EXCEPT ![t] = "none"]
    /\ key' = [key EXCEPT ![t] = None]
    /\ obj' = [obj EXCEPT ![t] = None]
    /\ tmp' = [tmp EXCEPT ![t] = 0]
    /\ linked' = [linked EXCEPT ![t] = {}]

Goto(t, l) == pc' = [pc EXCEPT ![t] = l]

-----------------------------------------------------------------------------
(* borrowObject *)

\* "Pool is closed", "Pool has no idle or no busy transports."
BorrowRefused(t, k) ==
    /\ Call(t) /\ lock = None
    /\ closed \/ k \notin DOMAIN idle \/ k \notin DOMAIN busy
    /\ UNCHANGED <<poolVars, lock, live, loopVars, pc, callVars, obj>>

BorrowObject(t, k) ==
    /\ Call(t) /\ lock = None
    /\ ~closed /\ k \in DOMAIN idle /\ k \in DOMAIN busy
    /\ lock' = t
    /\ key' = [key EXCEPT ![t] = k]
    /\ linked' = [linked EXCEPT ![t] = {"idle", "busy"}]
    /\ IF idle[k] # <<>>
       THEN /\ obj' = [obj EXCEPT ![t] = Head(idle[k])]
            /\ Poll(k)
            /\ totalIdle' = totalIdle - 1
            /\ Goto(t, Obtained)
       ELSE /\ Goto(t, "loop")
            /\ UNCHANGED <<idle, totalIdle, obj>>
    /\ UNCHANGED <<busy, allocationQueue, closed, totalActive, live, loopVars, job, tmp>>

\* validateObject pings the server; when the answer is not SUCCESS the transport is
\* destroyed and the loop goes on.
ValidateObject(t) ==
    /\ pc[t] = "validate" /\ lock = t
    /\ \/ /\ Goto(t, "got")
          /\ UNCHANGED <<live, obj>>
       \/ /\ "ping" \in Faults
          /\ DestroyObject(obj[t])
          /\ obj' = [obj EXCEPT ![t] = None]
          /\ Goto(t, "loop")
    /\ UNCHANGED <<poolVars, lock, loopVars, callVars, ops>>

\* The ping fails in the socket: the exception leaves borrowObject, and the transport
\* is neither pooled nor destroyed.
ValidateThrows(t) ==
    /\ pc[t] = "validate" /\ lock = t
    /\ "ping" \in Faults
    /\ lock' = None
    /\ EndCall(t)
    /\ UNCHANGED <<poolVars, live, loopVars, ops>>

\* The loop decides to create, while maxTotal is not reached ...
LoopCreate(t) ==
    /\ pc[t] = "loop" /\ lock = t
    /\ CanCreate(t) /\ ~HasReachedMaxTotal
    /\ Goto(t, "make")
    /\ UNCHANGED <<poolVars, lock, live, loopVars, callVars, obj, ops>>

\* ... or after tryRemoveIdle destroyed an idle transport of some key ...
LoopSteal(t) ==
    /\ pc[t] = "loop" /\ lock = t
    /\ CanCreate(t) /\ HasReachedMaxTotal
    /\ \E v \in Victims : DestroyObject(Head(idle[v])) /\ Poll(v)
    /\ totalIdle' = totalIdle - 1
    /\ Goto(t, "make")
    /\ UNCHANGED <<busy, allocationQueue, closed, totalActive, lock, loopVars, callVars,
                   obj, ops>>

\* ... or asks for an allocation and waits ...
LoopAskAllocate(t) ==
    /\ pc[t] = "loop" /\ lock = t
    /\ CanCreate(t) /\ HasReachedMaxTotal /\ Victims = {}
    /\ allocationQueue' = Append(allocationQueue, key[t])
    /\ lock' = None
    /\ Goto(t, "pop")
    /\ UNCHANGED <<idle, busy, closed, totalIdle, totalActive, live, loopVars, callVars,
                   obj, ops>>

\* ... or just waits: the queue is not empty, or maxActive is reached.
LoopWait(t) ==
    /\ pc[t] = "loop" /\ lock = t
    /\ ~CanCreate(t)
    /\ lock' = None
    /\ Goto(t, "pop")
    /\ UNCHANGED <<poolVars, live, loopVars, callVars, obj, ops>>

MakeObject(t) ==
    /\ pc[t] = "make" /\ lock = t
    /\ \E tr \in Makable(key[t]) :
          /\ obj' = [obj EXCEPT ![t] = tr]
          /\ live' = live \cup {tr}
    /\ Goto(t, Obtained)
    /\ UNCHANGED <<poolVars, lock, loopVars, callVars, ops>>

\* The connection fails: notifyAll (nobody leaves pop), then rethrow.
MakeObjectThrows(t) ==
    /\ pc[t] = "make" /\ lock = t
    /\ "connect" \in Faults
    /\ lock' = None
    /\ EndCall(t)
    /\ UNCHANGED <<poolVars, live, loopVars, ops>>

\* idleQ->pop() and popOrThrow(), under the lock of the queue only.
Pop(t) ==
    /\ pc[t] = "pop"
    /\ IdleQ(t) # <<>>
    /\ obj' = [obj EXCEPT ![t] = Head(idle[key[t]])]
    /\ Poll(key[t])
    /\ Goto(t, "decRead")
    /\ UNCHANGED <<busy, allocationQueue, closed, totalIdle, totalActive, lock, live,
                   loopVars, callVars, ops>>

PopThrows(t) ==
    /\ pc[t] = "pop"
    /\ ExhaustedAction = "EXCEPTION" /\ IdleQ(t) = <<>>
    /\ Goto(t, "unwind")
    /\ UNCHANGED <<poolVars, lock, live, loopVars, callVars, obj, ops>>

\* ~ScopedUnlock takes the mutex again before ~ScopedLock releases it.
Unwind(t) ==
    /\ pc[t] = "unwind" /\ lock = None
    /\ EndCall(t)
    /\ UNCHANGED <<poolVars, lock, live, loopVars, ops>>

\* totalIdle-- without the mutex: a data race with every other write.
DecrementRead(t) ==
    /\ pc[t] = "decRead"
    /\ tmp' = [tmp EXCEPT ![t] = totalIdle]
    /\ Goto(t, "decWrite")
    /\ UNCHANGED <<poolVars, lock, live, loopVars, job, key, obj, linked, ops>>

\* If someone wrote totalIdle since the read, either write may be the lost one.
DecrementWrite(t) ==
    /\ pc[t] = "decWrite"
    /\ \/ totalIdle' = tmp[t] - 1
       \/ totalIdle # tmp[t] /\ UNCHANGED totalIdle
    /\ tmp' = [tmp EXCEPT ![t] = 0]
    /\ Goto(t, "relock")
    /\ UNCHANGED <<idle, busy, allocationQueue, closed, totalActive, lock, live,
                   loopVars, job, key, obj, linked, ops>>

Relock(t) ==
    /\ pc[t] = "relock" /\ lock = None
    /\ lock' = t
    /\ Goto(t, Obtained)
    /\ UNCHANGED <<poolVars, live, loopVars, callVars, obj, ops>>

\* busyQ->push(obj), totalActive++, return *obj.
Activate(t) ==
    /\ pc[t] = "got" /\ lock = t
    /\ IF "busy" \in linked[t]
       THEN /\ busy' = [busy EXCEPT ![key[t]] = @ \cup {obj[t]}]
            /\ UNCHANGED dropped
       ELSE /\ dropped' = [dropped EXCEPT ![key[t]] = @ \cup {obj[t]}]
            /\ UNCHANGED busy
    /\ totalActive' = totalActive + 1
    /\ linked' = [linked EXCEPT ![t] = {}]
    /\ lock' = None
    /\ Goto(t, "holding")
    /\ UNCHANGED <<idle, allocationQueue, closed, totalIdle, live, grown, drain, job,
                   key, obj, tmp, ops>>

-----------------------------------------------------------------------------
(* returnObject and invalidateObject *)

MustAllocate == HasReachedMaxTotal /\ allocationQueue # <<>>

\* Seeded bug: totalActive-- is missing.
RemoveBusyUncounted(k, tr) ==
    /\ busy' = [j \in DOMAIN busy |-> IF j = k THEN busy[j] \ {tr} ELSE busy[j]]
    /\ UNCHANGED totalActive

\* remove from the busy queue, totalActive--; returnObject tolerates a missing key.
RemoveBusy(k, tr) ==
    /\ busy' = [j \in DOMAIN busy |-> IF j = k THEN busy[j] \ {tr} ELSE busy[j]]
    /\ totalActive' = IF k \in DOMAIN busy THEN totalActive - 1 ELSE totalActive

\* Seeded bug: only a closed pool takes transports back.
AcceptsClosed(k, valid) == closed /\ valid /\ k \in DOMAIN idle

\* returnObject keeps the transport.
Accepts(k, valid) == ~closed /\ valid /\ k \in DOMAIN idle

ReturnObject(t) ==
    /\ pc[t] = "holding" /\ lock = None
    /\ ~MustAllocate
    /\ RemoveBusy(key[t], obj[t])
    /\ \E valid \in IF TestOnReturn /\ "ping" \in Faults THEN BOOLEAN ELSE {TRUE} :
          IF Accepts(key[t], valid)
          THEN /\ Push(key[t], obj[t])
               /\ totalIdle' = totalIdle + 1
               /\ UNCHANGED live
          ELSE /\ DestroyObject(obj[t])
               /\ UNCHANGED <<idle, totalIdle>>
    /\ EndCall(t)
    /\ UNCHANGED <<allocationQueue, closed, lock, loopVars, ops>>

\* testOnReturn: the ping throws out of returnObject before the transport is pooled,
\* destroyed or traded for another key.
ReturnThrows(t) ==
    /\ pc[t] = "holding" /\ lock = None
    /\ ~closed /\ TestOnReturn /\ "ping" \in Faults
    /\ RemoveBusy(key[t], obj[t])
    /\ EndCall(t)
    /\ UNCHANGED <<idle, allocationQueue, closed, totalIdle, lock, live, loopVars, ops>>

\* The connection goes to another key: continue in Allocate, holding the mutex.
ReturnToAllocate(t) ==
    /\ pc[t] = "holding" /\ lock = None
    /\ MustAllocate
    /\ RemoveBusy(key[t], obj[t])
    /\ lock' = t
    /\ job' = [job EXCEPT ![t] = "return"]
    /\ Goto(t, "allocate")
    /\ UNCHANGED <<idle, allocationQueue, closed, totalIdle, live, loopVars, key, obj,
                   tmp, linked, ops>>

\* The key is the server of the exception RetryOnFailureOperation caught, which
\* differs from the server of the transport when a topology update that came with
\* the response could not connect to a new server (addObject knows it by then).
InvalidKeys(t) == {key[t]} \cup (IF "otherServer" \in Faults THEN DOMAIN busy ELSE {})

\* "No busy queue for address!": the transport is neither removed nor destroyed.
InvalidateNoBusy(t, k) ==
    /\ pc[t] = "holding" /\ lock = None /\ "invalidate" \in Ops
    /\ k \in InvalidKeys(t) \ DOMAIN busy
    /\ EndCall(t)
    /\ UNCHANGED <<poolVars, lock, live, loopVars, ops>>

\* "No idle queue for address!", thrown before the transport is destroyed.
InvalidateNoIdle(t, k) ==
    /\ pc[t] = "holding" /\ lock = None /\ "invalidate" \in Ops
    /\ k \in InvalidKeys(t) \cap DOMAIN busy
    /\ busy[k] \subseteq {obj[t]} /\ k \notin DOMAIN idle
    /\ RemoveBusy(k, obj[t])
    /\ EndCall(t)
    /\ UNCHANGED <<idle, allocationQueue, closed, totalIdle, lock, live, loopVars, ops>>

InvalidateObject(t, k) ==
    /\ pc[t] = "holding" /\ lock = None /\ "invalidate" \in Ops
    /\ k \in InvalidKeys(t) \cap DOMAIN busy
    /\ ~(busy[k] \subseteq {obj[t]} /\ k \notin DOMAIN idle)
    /\ RemoveBusy(k, obj[t])
    /\ IF MustAllocate
       THEN /\ lock' = t
            /\ job' = [job EXCEPT ![t] = "invalidate"]
            /\ Goto(t, "allocate")
            /\ UNCHANGED <<live, key, obj, tmp, linked>>
       ELSE /\ DestroyObject(obj[t])
            /\ EndCall(t)
            /\ UNCHANGED lock
    /\ UNCHANGED <<idle, allocationQueue, closed, totalIdle, loopVars, ops>>

\* idle[keyToAllocate]->push(&factory->makeObject(keyToAllocate)), then the
\* released transport is destroyed.
Allocate(t) ==
    /\ pc[t] = "allocate" /\ lock = t
    /\ LET k == Head(allocationQueue) IN
          /\ k \in DOMAIN idle
          /\ job[t] = "return" => key[t] \in DOMAIN idle
          /\ \E tr \in Makable(k) :
                /\ Push(k, tr)
                /\ live' = (live \cup {tr}) \ {obj[t]}
    /\ allocationQueue' = Tail(allocationQueue)
    /\ totalIdle' = totalIdle + 1
    /\ lock' = None
    /\ EndCall(t)
    /\ UNCHANGED <<busy, closed, totalActive, loopVars, ops>>

\* makeObject throws: the released transport is neither pooled nor destroyed.
AllocateThrows(t) ==
    /\ pc[t] = "allocate" /\ lock = t
    /\ "connect" \in Faults /\ Head(allocationQueue) \in DOMAIN idle
    /\ allocationQueue' = Tail(allocationQueue)
    /\ lock' = None
    /\ EndCall(t)
    /\ UNCHANGED <<idle, busy, closed, totalIdle, totalActive, live, loopVars, ops>>

\* operator[] of a key that clear(key) erased yields a null queue: the key that asked
\* for the allocation, or (returnObject only) the key of the returned transport.  What
\* follows is undefined; the thread stops here, in possession of the mutex.
AllocateNull(t) ==
    /\ pc[t] = "allocate" /\ lock = t
    /\ \/ Head(allocationQueue) \notin DOMAIN idle
       \/ job[t] = "return" /\ key[t] \notin DOMAIN idle
    /\ Goto(t, "null")
    /\ UNCHANGED <<poolVars, lock, live, loopVars, callVars, obj, ops>>

-----------------------------------------------------------------------------
(* addObject; it returns at once when the key is known *)

AddObject(t, k) ==
    /\ pc[t] = "ready" /\ lock = None /\ FactoryLockFree
    /\ k \notin DOMAIN idle
    /\ idle' = [j \in DOMAIN idle \cup {k} |-> IF j = k THEN <<>> ELSE idle[j]]
    /\ busy' = [j \in DOMAIN busy \cup {k} |->
                   IF j \in DOMAIN busy THEN busy[j] ELSE {}]
    /\ grown' = CalculateMinIdleGrow
    /\ lock' = t
    /\ job' = [job EXCEPT ![t] = "add"]
    /\ key' = [key EXCEPT ![t] = k]
    /\ Goto(t, "grow")
    /\ UNCHANGED <<allocationQueue, closed, totalIdle, totalActive, live, drain, dropped,
                   obj, tmp, linked, ops>>

EnsureMinIdle(t) ==
    /\ pc[t] = "grow" /\ lock = t
    /\ grown > 0
    /\ \E tr \in Makable(key[t]) :
          /\ Push(key[t], tr)
          /\ live' = live \cup {tr}
    /\ grown' = grown - 1
    /\ totalIdle' = totalIdle + 1
    /\ UNCHANGED <<busy, allocationQueue, closed, totalActive, lock, drain, dropped, pc,
                   callVars, obj, ops>>

\* The loop is over, or makeObject throws out of it.
AddObjectEnd(t) ==
    /\ pc[t] = "grow" /\ lock = t
    /\ grown = 0 \/ "connect" \in Faults
    /\ grown' = 0
    /\ lock' = None
    /\ EndCall(t)
    /\ UNCHANGED <<poolVars, live, drain, dropped, ops>>

-----------------------------------------------------------------------------
(* clear(key), clear(), close() and TransportFactory::destroy() *)

\* updateServers clears servers it knows, and those were added.
ClearKey(t, k) ==
    /\ Call(t) /\ lock = None /\ FactoryLockFree /\ "clearKey" \in Ops
    /\ k \in DOMAIN idle
    /\ totalIdle' = totalIdle - Len(idle[k])
    /\ drain' = {k}
    /\ lock' = t
    /\ job' = [job EXCEPT ![t] = "clearKey"]
    /\ key' = [key EXCEPT ![t] = k]
    /\ Goto(t, "drain")
    /\ UNCHANGED <<idle, busy, allocationQueue, closed, totalActive, live, grown,
                   dropped, obj, tmp, linked>>

\* Seeded bug: closed is not set before the queues are cleared.
CloseLate(t) ==
    /\ Call(t) /\ "close" \in Ops
    /\ job' = [job EXCEPT ![t] = "close"]
    /\ Goto(t, "clear")
    /\ UNCHANGED <<poolVars, lock, live, loopVars, key, obj, tmp, linked>>

\* closed is set before the mutex is taken.
Close(t) ==
    /\ Call(t) /\ "close" \in Ops
    /\ closed' = TRUE
    /\ job' = [job EXCEPT ![t] = "close"]
    /\ Goto(t, "clear")
    /\ UNCHANGED <<idle, busy, allocationQueue, totalIdle, totalActive, lock, live,
                   loopVars, key, obj, tmp, linked>>

\* destroy() is clear(); close().
Destroy(t) ==
    /\ Call(t) /\ FactoryLockFree /\ "destroy" \in Ops
    /\ job' = [job EXCEPT ![t] = "destroy"]
    /\ Goto(t, "clear")
    /\ UNCHANGED <<poolVars, lock, live, loopVars, key, obj, tmp, linked>>

DestroyClose(t) ==
    /\ pc[t] = "cleared"
    /\ closed' = TRUE
    /\ job' = [job EXCEPT ![t] = "destroyClose"]
    /\ Goto(t, "clear")
    /\ UNCHANGED <<idle, busy, allocationQueue, totalIdle, totalActive, lock, live,
                   loopVars, key, obj, tmp, linked, ops>>

Clear(t) ==
    /\ pc[t] = "clear" /\ lock = None
    /\ drain' = DOMAIN idle
    /\ lock' = t
    /\ Goto(t, "drain")
    /\ UNCHANGED <<poolVars, live, grown, dropped, callVars, obj, ops>>

\* while (queue->size() > 0): the size is read, and the lock of the queue released.
DrainSize(t) ==
    /\ pc[t] = "drain" /\ lock = t
    /\ \E k \in drain :
          IF idle[k] = <<>>
          THEN /\ drain' = drain \ {k}
               /\ UNCHANGED <<pc, key>>
          ELSE /\ key' = [key EXCEPT ![t] = k]
               /\ Goto(t, "drainPop")
               /\ UNCHANGED drain
    /\ UNCHANGED <<poolVars, lock, live, grown, dropped, job, obj, tmp, linked, ops>>

\* queue->pop() blocks when a waiter took the last element in between.
DrainPop(t) ==
    /\ pc[t] = "drainPop" /\ lock = t
    /\ idle[key[t]] # <<>>
    /\ DestroyObject(Head(idle[key[t]]))
    /\ Poll(key[t])
    /\ Goto(t, "drain")
    /\ UNCHANGED <<busy, allocationQueue, closed, totalIdle, totalActive, lock, loopVars,
                   callVars, obj, ops>>

\* idle.erase(key): borrowers of the key keep a queue nobody else refers to.
ClearKeyEnd(t) ==
    /\ pc[t] = "drain" /\ lock = t /\ job[t] = "clearKey" /\ drain = {}
    /\ idle' = [j \in DOMAIN idle \ {key[t]} |-> idle[j]]
    /\ linked' = [u \in Thread |->
                     IF key[u] = key[t] THEN linked[u] \ {"idle"} ELSE linked[u]]
    /\ lock' = None
    /\ pc' = [pc EXCEPT ![t] = "ready"]
    /\ job' = [job EXCEPT ![t] = "none"]
    /\ key' = [key EXCEPT ![t] = None]
    /\ UNCHANGED <<busy, allocationQueue, closed, totalIdle, totalActive, live, loopVars,
                   obj, tmp, ops>>

\* clear() destroys the transports in use as well, and forgets every queue.
ClearEnd(t) ==
    /\ pc[t] = "drain" /\ lock = t /\ job[t] # "clearKey" /\ drain = {}
    /\ live' = live \ BusySet
    /\ idle' = Empty /\ busy' = Empty
    /\ totalIdle' = 0 /\ totalActive' = 0
    /\ linked' = [u \in Thread |-> {}]
    /\ lock' = None
    /\ key' = [key EXCEPT ![t] = None]
    /\ IF job[t] = "destroy"
       THEN /\ Goto(t, "cleared")
            /\ UNCHANGED job
       ELSE /\ Goto(t, "ready")
            /\ job' = [job EXCEPT ![t] = "none"]
    /\ UNCHANGED <<allocationQueue, closed, loopVars, obj, tmp, ops>>

-----------------------------------------------------------------------------
\* The steps a thread takes by itself once it has called the pool ...
Step(t) ==
    \/ ValidateObject(t) \/ ValidateThrows(t)
    \/ LoopCreate(t) \/ LoopSteal(t) \/ LoopAskAllocate(t) \/ LoopWait(t)
    \/ MakeObject(t) \/ MakeObjectThrows(t) \/ Pop(t) \/ PopThrows(t)
    \/ Unwind(t) \/ DecrementRead(t) \/ DecrementWrite(t) \/ Relock(t) \/ Activate(t)
    \/ Allocate(t) \/ AllocateThrows(t) \/ AllocateNull(t)
    \/ EnsureMinIdle(t) \/ AddObjectEnd(t)
    \/ DestroyClose(t) \/ Clear(t) \/ DrainSize(t) \/ DrainPop(t)
    \/ ClearKeyEnd(t) \/ ClearEnd(t)

\* ... the release of a transport it holds ...
Release(t) ==
    \/ ReturnObject(t) \/ ReturnThrows(t) \/ ReturnToAllocate(t)
    \/ \E k \in Key :
          InvalidateNoBusy(t, k) \/ InvalidateNoIdle(t, k) \/ InvalidateObject(t, k)

\* ... and the calls it may start.
Start(t) ==
    \/ \E k \in Key : \/ BorrowRefused(t, k) \/ BorrowObject(t, k)
                      \/ AddObject(t, k) \/ ClearKey(t, k)
    \/ Close(t) \/ Destroy(t)

\* Every call returned and no thread may start another.
Done ==
    /\ \A t \in Thread : pc[t] = "ready" /\ ops[t] = MaxOps
    /\ Key \subseteq DOMAIN idle
    /\ UNCHANGED vars

Next ==
    \/ \E t \in Thread : Step(t) \/ Release(t) \/ Start(t)
    \/ Done

Spec == Init /\ [][Next]_vars

\* A thread inside the pool is scheduled, and a holder releases its transport; a
\* transport that works is returned.
Fairness == \A t \in Thread : WF_vars(Step(t) \/ Release(t))

FairSpec == Spec /\ Fairness

-----------------------------------------------------------------------------
(* Properties *)

Labels == {"ready", "validate", "loop", "make", "pop", "unwind", "decRead", "decWrite",
           "relock", "got", "holding", "allocate", "grow", "clear", "drain", "drainPop",
           "cleared", "null"}
Jobs == {"none", "return", "invalidate", "add", "clearKey", "close", "destroy",
         "destroyClose"}

QueuesOK ==
    /\ DOMAIN idle \subseteq Key /\ \A k \in DOMAIN idle : idle[k] \in Seq(Transport)
    /\ DOMAIN busy \subseteq Key /\ \A k \in DOMAIN busy : busy[k] \subseteq Transport
    /\ allocationQueue \in Seq(Key)
    /\ live \subseteq Transport
    /\ drain \subseteq DOMAIN idle
    /\ dropped \in [Key -> SUBSET Transport]
CountersOK ==
    /\ closed \in BOOLEAN /\ totalIdle \in Int /\ totalActive \in Int /\ grown \in Nat
    /\ lock \in Thread \cup {None}
CallsOK ==
    /\ pc \in [Thread -> Labels] /\ job \in [Thread -> Jobs]
    /\ key \in [Thread -> Key \cup {None}]
    /\ obj \in [Thread -> Transport \cup {None}]
    /\ tmp \in [Thread -> Int]
    /\ linked \in [Thread -> SUBSET {"idle", "busy"}]
    /\ ops \in [Thread -> 0..MaxOps]

\* Every variable stays in its domain: in particular the queues hold transports,
\* ensureMinIdle never computes a negative number of connections to make, and clear()
\* only empties queues the map still has.
TypeOK == QueuesOK /\ CountersOK /\ CallsOK

\* Where a thread holds the mutex, has a transport, is in the middle of a loan.
Locked    == {"validate", "loop", "make", "got", "allocate", "grow", "drain", "drainPop",
              "null"}
Carrying  == {"validate", "decRead", "decWrite", "relock", "got", "holding", "allocate",
              "null"}
Borrowing == Carrying \cup {"loop", "make", "pop", "unwind"}

\* The locals of every thread agree with its place in the code and with the maps: the
\* mutex is held exactly in the locked sections, the captured queues that are still in
\* the maps are those of the key, and Allocate finds a request.
LocalsOK ==
    \A t \in Thread :
        /\ pc[t] \in Locked <=> lock = t
        /\ pc[t] \in Carrying <=> obj[t] # None
        /\ pc[t] \in Borrowing => key[t] \in Key
        /\ linked[t] # {} => pc[t] \in Borrowing \ {"holding"}
        /\ "idle" \in linked[t] => key[t] \in DOMAIN idle
        /\ "busy" \in linked[t] => key[t] \in DOMAIN busy
        /\ pc[t] \in {"grow", "drainPop"} => key[t] \in DOMAIN idle
        /\ pc[t] = "allocate" => allocationQueue # <<>>

Holders == {t \in Thread : pc[t] = "holding"}

\* Not shut down: neither close() nor the clear() of destroy() took effect.
Open == ~closed /\ \A t \in Thread : pc[t] # "cleared"

\* destroy() has emptied the maps when it comes to close(), nothing fills them before
\* closed is set, and only calls that clear are in the middle of clearing.
ShutdownOK ==
    \A t \in Thread :
        /\ pc[t] = "cleared" => job[t] = "destroy" /\ DOMAIN idle = {}
        /\ pc[t] \in {"clear", "drain", "drainPop"} =>
              job[t] \in {"clearKey", "close", "destroy", "destroyClose"}
        /\ job[t] \in {"close", "destroyClose"} => closed

\* Until the pool is shut down the transport of a thread exists, and the key it was
\* borrowed for has a busy queue.
LoansOK ==
    Open => \A t \in Thread :
                /\ obj[t] # None => obj[t] \in live
                /\ pc[t] \in Borrowing => key[t] \in DOMAIN busy

\* borrowObject never gives one transport to two threads, and a transport a thread
\* has is never idle at the same time: Head/Tail of the idle queues, the busy queues
\* and the locals of the borrowers never hold two copies of one pointer.
NoSharing ==
    /\ \A t, u \in Thread : obj[t] # None /\ obj[t] = obj[u] => t = u
    /\ \A t \in Thread : obj[t] \notin IdleSet
    /\ \A k \in DOMAIN idle : \A i, j \in DOMAIN idle[k] : idle[k][i] = idle[k][j] => i = j

\* A transport is pooled under, and lent for, the server it is connected to, also when
\* the connection of one key is destroyed to allocate one for another key.
RightServer ==
    /\ \A k \in DOMAIN idle : \A tr \in Range(idle[k]) : tr[1] = k
    /\ \A t \in Thread : obj[t] # None => obj[t][1] = key[t]

\* The idle queues only hold transports that exist: no pointer that destroyObject
\* deleted is offered back, not even by a thread that returns after close().
IdleIsLive == IdleSet \subseteq live

\* Until the pool is shut down totalActive is the number of transports lent: every path
\* of returnObject and invalidateObject, the ones that throw included, counts once.
ActiveIsExact == Open => totalActive = Cardinality(Holders)

\* A thread that holds a transport never sees it destroyed by another thread while the
\* pool is open, not even by clear(key) for the server of that transport.
HeldIsNotDestroyed ==
    [][Open' => \A t \in Holders :
                    obj[t] \in live /\ t \in Holders' => obj[t] \in live']_vars

\* What the threads see of the pool is the abstract loan of transports.
Loan == INSTANCE TransportLoan
          WITH exists <- live,
               lent <- [t \in Thread |-> IF pc[t] = "holding" THEN obj[t] ELSE None],
               open <- Open

\* The pool implements TransportLoan.
ImplementsLoan == Loan!LoanSpec

\* A borrower that waits for a transport gets one, or leaves borrowObject.
WaitersAreServed == \A t \in Thread : pc[t] = "pop" ~> pc[t] # "pop"

-----------------------------------------------------------------------------
(* What comments, documentation and tests say of the pool, and the code does not do *)

\* tryRemoveIdle: "in case of concurrent removal, avoid blocking"; a thread that empties
\* a queue under the mutex of the pool never blocks in pop().
DrainNeverBlocks == \A t \in Thread : pc[t] = "drainPop" => idle[key[t]] # <<>>

\* updateServers: the transports of servers that went down are returned and fail; their
\* return dereferences no queue that clear(key) erased.
NoNullQueue == \A t \in Thread : pc[t] # "null"

\* invalidateObject: "idleQ busyQ are empty, awake all waiting threads"; a borrower does
\* not wait forever for a server none of whose transports is left.
ExhaustedWaitersAwake ==
    \A t \in Thread :
        (pc[t] = "pop" /\ IdleQ(t) = <<>> /\ BusyQ(t) = {}) ~> pc[t] # "pop"

=============================================================================
