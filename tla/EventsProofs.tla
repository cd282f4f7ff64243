---------------------------- MODULE EventsProofs ----------------------------
(***************************************************************************)
(* Listeners and counters, for any listeners, connections and faults and   *)
(* any number of calls.  EventsInv: every borrowed connection is the       *)
(* running operation's or a dispatcher's, and a listener that was removed  *)
(* is not called.  CallsOK and DeliveryInv: what is on its way on each     *)
(* connection, so that events arrive in order and a thread that ends says  *)
(* so.  ValuesInv: what a counter's answer makes of what the server did.   *)
(***************************************************************************)
EXTENDS Events, WellFoundedInduction, SequenceTheorems, TLAPS

Ops == {"none", "addClientListener", "removeClientListener", "defineCounter", "getStrongCounter",
        "getWeakCounter", "getConfiguration", "removeCounter", "addAndGet", "compareAndSwap",
        "reset", "getValue", "remove", "addListener", "removeListener", "stop", "start"}

CallType ==
    [op : Ops, l : Listener \cup {None}, c : Counter \cup {None}, h : Handle \cup {None},
     x : Int, y : Int, cfg : Config \cup {None}, todo : SUBSET (Id \cup {None}),
     d : Id \cup {None}]

\* The listener map and the threads.
DispatchersOK ==
    /\ DOMAIN eventDispatchers \subseteq Id
    /\ \A d \in DOMAIN eventDispatchers : eventDispatchers[d] \in Conn
    /\ DOMAIN thread = Id
    /\ \A d \in Id : /\ "at" \in DOMAIN thread[d]
                     /\ thread[d].at \in {"none", "reading", "handling", "recovering", "exited"}

Types ==
    /\ started \in BOOLEAN
    /\ pc \in {"idle", "borrow", "send", "sent", "served", "join", "stopping"}
    /\ tries \in 0 .. MaxRetries
    /\ call \in CallType
    /\ conn \in Conn \cup {None}
    /\ pool \subseteq Conn /\ lent \subseteq Conn
    /\ socket \in [Conn -> {"unused", "open", "closed", "down"}]
    /\ counterDispatcher \in DispatcherId \cup {None}
    /\ DOMAIN listeners \subseteq Counter /\ DOMAIN counters \subseteq Counter
    /\ DOMAIN heard = Listener

\* Where the application thread has a connection, and which calls come there.
PlaceOK ==
    /\ pc = "idle" <=> call.op = "none"
    /\ ~started => pc = "idle"
    /\ pc \in {"send", "sent", "served"} => conn \in lent
    /\ pc \in {"idle", "borrow", "stopping"} => conn = None
    /\ pc = "join" => IF call.op = "removeClientListener" THEN conn \in lent ELSE conn = None
    /\ pc \in {"stopping", "join"} => call.op # "addClientListener"
    /\ pc = "stopping" => call.op # "removeClientListener"
    /\ call.op \in {"addClientListener", "removeClientListener"} =>
            call.l \in Listener /\ call.c = None

\* Every connection is in one place: in the pool, the operation's, a dispatcher's, or what
\* a failed registration of a counter listener kept.
OwnedOK ==
    /\ pool \cap lent = {}
    /\ leaked \subseteq lent /\ conn \notin leaked
    /\ lent \subseteq {conn} \cup {eventDispatchers[d] : d \in DOMAIN eventDispatchers} \cup leaked
    /\ \A d \in DOMAIN eventDispatchers : eventDispatchers[d] \in lent \ leaked
    /\ \A d, e \in DOMAIN eventDispatchers : d # e => eventDispatchers[d] # eventDispatchers[e]
    /\ \A n \in pool \cup lent : socket[n] # "unused"

\* The operation shares its connection only with the dispatcher that it registers, whose
\* thread is not started before the answer.
RegisteredOK ==
    /\ \A d \in DOMAIN eventDispatchers :
        conn = eventDispatchers[d] =>
            /\ call.op = "addClientListener" /\ pc \in {"sent", "served"}
            /\ d = call.l
    /\ call.op = "addClientListener" /\ pc \in {"borrow", "send"} =>
            call.l \notin DOMAIN eventDispatchers
    /\ call.op = "addClientListener" /\ pc \in {"sent", "served"} =>
            /\ call.l \in DOMAIN eventDispatchers
            /\ eventDispatchers[call.l] = conn
            /\ thread[call.l].at = "none"
    /\ call.op = "removeClientListener" => call.l \in DOMAIN eventDispatchers

\* A thread that may still call its listener is a registered dispatcher's.
RunningOK ==
    \A d \in Id : thread[d].at \in {"reading", "handling", "recovering"} =>
        d \in DOMAIN eventDispatchers

EventsInv ==
    /\ Types /\ DispatchersOK /\ PlaceOK /\ RunningOK
    /\ OwnedOK /\ RegisteredOK

-----------------------------------------------------------------------------
(* Steps that have something in common *)

\* NoCall is a call.
LEMMA NoCallType == NoCall \in CallType /\ NoCall.op = "none"
<1>1. 0 \in Int /\ {} \in SUBSET (Id \cup {None})
  OBVIOUS
<1>2. QED
  BY <1>1 DEF NoCall, CallType, Ops

\* The smallest of some connections is one of them.
LEMMA MinIsOne ==
    ASSUME NEW S, S \subseteq Conn, S # {}
    PROVE  Min(S) \in S
<1> DEFINE less == {nn \in Nat \X Nat : nn[1] < nn[2]}
<1>1. S \subseteq Nat
  BY EventsAssumption
<1>2. PICK m \in S : \A n \in S : <<n, m>> \notin less
  <2>1. IsWellFoundedOn(less, Nat)
    BY NatLessThanWellFounded DEF OpToRel
  <2>2. QED
    BY <1>1, <2>1, WFMin
<1>3. \A n \in S : ~ (n < m)
  BY <1>1, <1>2
<1>4. \A n \in S : m <= n
  BY <1>1, <1>3
<1>5. QED
  BY <1>4 DEF Min

\* A step of the server, the network or a dispatcher's thread: nobody's connection
\* changes hands, no thread is started and no running one appears.
Bystander ==
    /\ UNCHANGED <<started, pc, tries, call, conn, pool, lent, counterDispatcher, listeners,
                   counters, leaked, eventDispatchers>>
    /\ socket' \in [Conn -> {"unused", "open", "closed", "down"}]
    /\ \A n \in Conn : socket[n] # "unused" => socket'[n] # "unused"
    /\ DOMAIN heard' = DOMAIN heard

\* What a step may do to the threads.
ThreadsGoOn ==
    /\ DOMAIN thread' = Id
    /\ \A d \in Id : /\ "at" \in DOMAIN thread'[d]
                     /\ thread'[d].at \in {"none", "reading", "handling", "recovering", "exited"}
                     /\ thread[d].at = "none" => thread'[d].at = "none"
                     /\ thread'[d].at \in {"reading", "handling", "recovering"} =>
                            thread[d].at \in {"reading", "handling", "recovering"}

\* Such steps keep the invariant.
LEMMA BystanderKeeps ==
    ASSUME EventsInv, Bystander, ThreadsGoOn
    PROVE  EventsInv'
<1>1. Types'
  BY DEF EventsInv, Types, Bystander
<1>2. DispatchersOK'
  BY DEF EventsInv, DispatchersOK, Bystander, ThreadsGoOn
<1>3. PlaceOK'
  BY DEF EventsInv, PlaceOK, Bystander
<1>4. RunningOK'
  BY DEF EventsInv, RunningOK, Bystander, ThreadsGoOn
<1>5. OwnedOK'
  BY DEF EventsInv, OwnedOK, Bystander, Types
<1>6. RegisteredOK'
  <2>1. RegisteredOK
    BY DEF EventsInv
  <2>2. call.op = "addClientListener" => call.l \in Id
    BY DEF EventsInv, PlaceOK, Id
  <2>3. call' = call /\ pc' = pc /\ conn' = conn /\ eventDispatchers' = eventDispatchers
    BY DEF Bystander
  <2>4. call.op = "addClientListener" /\ thread[call.l].at = "none" => thread'[call.l].at = "none"
    BY <2>2 DEF ThreadsGoOn
  <2>5. QED
    BY <2>1, <2>3, <2>4 DEF RegisteredOK
<1>7. QED
  BY <1>1, <1>2, <1>3, <1>4, <1>5, <1>6 DEF EventsInv, Bystander

\* The end of an attempt, or of the call, without a connection.
LEMMA AttemptEnds ==
    ASSUME EventsInv, started, started', conn' = None, tries' \in 0 .. MaxRetries,
           \/ pc' = "idle" /\ call' = NoCall
           \/ /\ pc' = "borrow" /\ call' = call /\ pc # "idle"
              /\ call.op = "addClientListener" => call.l \notin DOMAIN eventDispatchers'
              /\ call.op = "removeClientListener" => call.l \in DOMAIN eventDispatchers',
           pool' \subseteq Conn, lent' \subseteq Conn,
           socket' \in [Conn -> {"unused", "open", "closed", "down"}],
           counterDispatcher' \in DispatcherId \cup {None},
           DOMAIN listeners' \subseteq Counter, DOMAIN counters' \subseteq Counter,
           DOMAIN heard' = Listener, DispatchersOK', RunningOK',
           pool' \cap lent' = {}, leaked' \subseteq lent',
           lent' \subseteq {eventDispatchers'[d] : d \in DOMAIN eventDispatchers'} \cup leaked',
           \A d \in DOMAIN eventDispatchers' : eventDispatchers'[d] \in lent' \ leaked',
           \A d, e \in DOMAIN eventDispatchers' :
                d # e => eventDispatchers'[d] # eventDispatchers'[e],
           \A n \in pool' \cup lent' : socket'[n] # "unused"
    PROVE  EventsInv'
<1>1. Types'
  BY NoCallType DEF EventsInv, Types
<1>2. PlaceOK'
  BY NoCallType DEF EventsInv, PlaceOK
<1>3. OwnedOK'
  <2>1. conn' \notin leaked'
    BY EventsAssumption
  <2>2. QED
    BY <2>1 DEF OwnedOK
<1>4. RegisteredOK'
  <2>1. \A d \in DOMAIN eventDispatchers' : conn' # eventDispatchers'[d]
    BY EventsAssumption DEF DispatchersOK
  <2>2. QED
    BY <2>1, NoCallType DEF RegisteredOK
<1>5. QED
  BY <1>1, <1>2, <1>3, <1>4 DEF EventsInv

-----------------------------------------------------------------------------
(* The dispatchers, the server and the network *)

\* The steps of a dispatcher's thread.
LEMMA DispatcherKeeps ==
    ASSUME EventsInv, NEW d \in Id, Dispatcher(d) \/ ReadTimesOut(d)
    PROVE  EventsInv'
<1>1. DOMAIN thread = Id /\ "at" \in DOMAIN thread[d] /\ DispatchersOK
  BY DEF EventsInv, DispatchersOK
<1>2. ASSUME NEW r, thread' = [thread EXCEPT ![d] = r], "at" \in DOMAIN r,
             r.at \in {"reading", "handling", "recovering", "exited"},
             thread[d].at \in {"reading", "handling", "recovering"}
      PROVE  ThreadsGoOn
  <2>1. DOMAIN thread' = Id /\ thread'[d] = r
    BY <1>1, <1>2
  <2>2. \A e \in Id : e # d => thread'[e] = thread[e]
    BY <1>1, <1>2
  <2>3. QED
    BY <1>1, <1>2, <2>1, <2>2 DEF ThreadsGoOn, DispatchersOK
<1>3. ASSUME NEW p \in {"recovering", "exited"}, thread' = [thread EXCEPT ![d].at = p],
             thread[d].at \in {"reading", "handling", "recovering"}
      PROVE  ThreadsGoOn
  <2>1. PICK r : r = [thread[d] EXCEPT !.at = p]
    OBVIOUS
  <2>2. "at" \in DOMAIN r /\ r.at = p
    BY <1>1, <2>1
  <2>3. thread' = [thread EXCEPT ![d] = r]
    BY <1>3, <2>1
  <2>4. QED
    BY <1>2, <1>3, <2>2, <2>3
<1>4. CASE ReadEvent(d)
  <2>1. Bystander
    BY <1>4 DEF ReadEvent, Bystander, EventsInv, Types, app, manager, history
  <2>2. PICK r : /\ thread' = [thread EXCEPT ![d] = r]
                 /\ \E m : \/ r = [at |-> "handling", event |-> m]
                           \/ r = [at |-> "exited", event |-> m]
    BY <1>4 DEF ReadEvent
  <2>3. "at" \in DOMAIN r /\ r.at \in {"handling", "exited"}
    BY <2>2
  <2>4. ThreadsGoOn
    BY <1>2, <1>4, <2>2, <2>3 DEF ReadEvent
  <2>5. QED
    BY <2>1, <2>4, BystanderKeeps
<1>5. CASE HandleEvent(d)
  <2>1. DOMAIN heard' = DOMAIN heard
    BY <1>5 DEF HandleEvent, processEvent
  <2>2. Bystander
    BY <1>5, <2>1 DEF HandleEvent, Bystander, EventsInv, Types, app, manager, links
  <2>3. PICK r : r = [at |-> "reading", event |-> None]
    OBVIOUS
  <2>4. "at" \in DOMAIN r /\ r.at = "reading" /\ thread' = [thread EXCEPT ![d] = r]
    BY <1>5, <2>3 DEF HandleEvent
  <2>5. ThreadsGoOn
    BY <1>2, <1>5, <2>4 DEF HandleEvent
  <2>6. QED
    BY <2>2, <2>5, BystanderKeeps
<1>6. CASE ReadThrows(d)
  <2>1. Bystander
    BY <1>6 DEF ReadThrows, Bystander, EventsInv, Types, app, manager, links, history
  <2>2. ThreadsGoOn
    BY <1>3, <1>6 DEF ReadThrows
  <2>3. QED
    BY <2>1, <2>2, BystanderKeeps
<1>7. CASE Recover(d)
  <2>1. Bystander
    BY <1>7 DEF Recover, Bystander, EventsInv, Types, app, manager, links
  <2>2. ThreadsGoOn
    BY <1>3, <1>7 DEF Recover
  <2>3. QED
    BY <2>1, <2>2, BystanderKeeps
<1>8. QED
  BY <1>4, <1>5, <1>6, <1>7 DEF Dispatcher, ReadFails, ReadTimesOut

\* Events of other clients, and lost connections.
LEMMA WorldKeeps ==
    ASSUME EventsInv,
           \/ \E n \in Conn : Drop(n)
           \/ \E l \in Listener : SendEvent(l)
           \/ \E c \in Counter : OtherClient(c)
    PROVE  EventsInv'
<1>1. ASSUME UNCHANGED thread PROVE ThreadsGoOn
  BY <1>1 DEF ThreadsGoOn, EventsInv, DispatchersOK
<1>2. ASSUME NEW n \in Conn, Drop(n) PROVE EventsInv'
  <2>1. Bystander
    BY <1>2 DEF Drop, Bystander, EventsInv, Types, app, manager, history
  <2>2. QED
    BY <1>1, <1>2, <2>1, BystanderKeeps DEF Drop
<1>3. ASSUME NEW l \in Listener, SendEvent(l) PROVE EventsInv'
  <2>1. Bystander
    BY <1>3 DEF SendEvent, Bystander, EventsInv, Types, app, manager
  <2>2. QED
    BY <1>1, <1>3, <2>1, BystanderKeeps DEF SendEvent
<1>4. ASSUME NEW c \in Counter, OtherClient(c) PROVE EventsInv'
  <2>1. Bystander
    BY <1>4 DEF OtherClient, Bystander, EventsInv, Types, app, manager
  <2>2. QED
    BY <1>1, <1>4, <2>1, BystanderKeeps DEF OtherClient
<1>5. QED
  BY <1>2, <1>3, <1>4

\* The server answers.
LEMMA ServeKeeps ==
    ASSUME EventsInv, Serve
    PROVE  EventsInv'
<1>1. /\ pc = "sent" /\ pc' = "served"
      /\ UNCHANGED <<started, call, tries, conn, pool, lent, socket, eventDispatchers,
                     thread, counterDispatcher, listeners, counters, leaked, heard>>
  BY DEF Serve, manager
<1>2. Types'
  BY <1>1 DEF EventsInv, Types
<1>3. DispatchersOK' /\ RunningOK'
  BY <1>1 DEF EventsInv, DispatchersOK, RunningOK
<1>4. PlaceOK'
  BY <1>1 DEF EventsInv, PlaceOK
<1>5. OwnedOK'
  BY <1>1 DEF EventsInv, OwnedOK
<1>6. RegisteredOK'
  BY <1>1 DEF EventsInv, RegisteredOK
<1>7. QED
  BY <1>1, <1>2, <1>3, <1>4, <1>5, <1>6 DEF EventsInv

-----------------------------------------------------------------------------
(* Calls *)

\* A call that needs a request.
LEMMA RemoteKeeps ==
    ASSUME EventsInv, NEW c \in CallType, Remote(c), c.op # "none",
           c.op \in {"addClientListener", "removeClientListener"} => c.c = None,
           c.op = "addClientListener" => c.l \in Listener \ DOMAIN eventDispatchers,
           c.op = "removeClientListener" => c.l \in Listener \cap DOMAIN eventDispatchers
    PROVE  EventsInv'
<1>1. /\ started /\ pc = "idle" /\ pc' = "borrow" /\ call' = c
      /\ UNCHANGED <<started, tries, conn, pool, lent, socket, eventDispatchers, thread,
                     counterDispatcher, listeners, counters, leaked, heard>>
  BY DEF Remote, Call, links, manager, history
<1>2. conn = None
  BY <1>1 DEF EventsInv, PlaceOK
<1>3. Types'
  BY <1>1 DEF EventsInv, Types
<1>4. DispatchersOK' /\ RunningOK'
  BY <1>1 DEF EventsInv, DispatchersOK, RunningOK
<1>5. PlaceOK'
  BY <1>1, <1>2 DEF PlaceOK
<1>6. OwnedOK'
  BY <1>1 DEF EventsInv, OwnedOK
<1>7. RegisteredOK'
  <2>1. \A d \in DOMAIN eventDispatchers : conn # eventDispatchers[d]
    BY <1>2, EventsAssumption DEF EventsInv, DispatchersOK
  <2>2. QED
    BY <1>1, <2>1 DEF RegisteredOK
<1>8. QED
  BY <1>3, <1>4, <1>5, <1>6, <1>7 DEF EventsInv

\* A call that ends at once, and changes the lists of listeners at most.
LEMMA LocalKeeps ==
    ASSUME EventsInv, NEW c, Call(c, "idle"), DOMAIN listeners' \subseteq Counter,
           UNCHANGED <<started, pool, lent, socket, eventDispatchers, thread,
                       counterDispatcher, counters, leaked, heard>>
    PROVE  EventsInv'
<1>1. /\ pc = "idle" /\ pc' = "idle" /\ call' = NoCall /\ UNCHANGED <<tries, conn>>
  BY DEF Call
<1>2. conn = None
  BY <1>1 DEF EventsInv, PlaceOK
<1>3. Types'
  BY <1>1, NoCallType DEF EventsInv, Types
<1>4. DispatchersOK' /\ RunningOK'
  BY DEF EventsInv, DispatchersOK, RunningOK
<1>5. PlaceOK'
  BY <1>1, <1>2, NoCallType DEF PlaceOK
<1>6. OwnedOK'
  BY <1>1 DEF EventsInv, OwnedOK
<1>7. RegisteredOK'
  <2>1. \A d \in DOMAIN eventDispatchers : conn # eventDispatchers[d]
    BY <1>2, EventsAssumption DEF EventsInv, DispatchersOK
  <2>2. QED
    BY <1>1, <2>1, NoCallType DEF RegisteredOK
<1>8. QED
  BY <1>3, <1>4, <1>5, <1>6, <1>7 DEF EventsInv

\* The calls that name a listener.
LEMMA ListenerCallKeeps ==
    ASSUME EventsInv, NEW l \in Listener, addClientListener(l) \/ removeClientListener(l)
    PROVE  EventsInv'
<1>1. CASE addClientListener(l)
  <2>1. PICK c : c = [NoCall EXCEPT !.op = "addClientListener", !.l = l]
    OBVIOUS
  <2>2. c \in CallType /\ c.op = "addClientListener" /\ c.l = l /\ c.c = None
    BY <2>1, NoCallType DEF CallType, Ops, NoCall
  <2>3. Remote(c) /\ l \notin DOMAIN eventDispatchers
    BY <1>1, <2>1 DEF addClientListener
  <2>4. QED
    BY <2>2, <2>3, RemoteKeeps
<1>2. CASE removeClientListener(l)
  <2>1. PICK c : c = [NoCall EXCEPT !.op = "removeClientListener", !.l = l]
    OBVIOUS
  <2>2. c \in CallType /\ c.op = "removeClientListener" /\ c.l = l /\ c.c = None
    BY <2>1, NoCallType DEF CallType, Ops, NoCall
  <2>3. Remote(c) /\ l \in DOMAIN eventDispatchers
    BY <1>2, <2>1 DEF removeClientListener
  <2>4. QED
    BY <2>2, <2>3, RemoteKeeps
<1>3. QED
  BY <1>1, <1>2

\* The calls of counters.
LEMMA CounterCallKeeps ==
    ASSUME EventsInv, NEW c \in Counter,
           \/ defineCounter(c) \/ getCounter(c, "getStrongCounter")
           \/ getCounter(c, "getWeakCounter") \/ getConfiguration(c) \/ removeCounter(c)
           \/ addAndGet(c) \/ compareAndSwap(c) \/ reset(c) \/ getValue(c)
           \/ BaseCounterImpl_remove(c)
    PROVE  EventsInv'
<1>1. ASSUME NEW op \in Ops \ {"none", "addClientListener", "removeClientListener"},
             Remote([NoCall EXCEPT !.op = op, !.c = c])
      PROVE  EventsInv'
  <2>1. PICK r : r = [NoCall EXCEPT !.op = op, !.c = c]
    OBVIOUS
  <2>2. r \in CallType /\ r.op = op
    BY <2>1, NoCallType DEF CallType
  <2>3. QED
    BY <1>1, <2>1, <2>2, RemoteKeeps
<1>2. ASSUME NEW op \in Ops \ {"none", "addClientListener", "removeClientListener"},
             NEW xs \in SUBSET Int, NEW ys \in SUBSET Int, CounterCall(c, op, xs, ys)
      PROVE  EventsInv'
  <2>1. PICK x \in xs, y \in ys : Remote([NoCall EXCEPT !.op = op, !.c = c, !.x = x, !.y = y])
    BY <1>2 DEF CounterCall
  <2>2. PICK r : r = [NoCall EXCEPT !.op = op, !.c = c, !.x = x, !.y = y]
    OBVIOUS
  <2>3. x \in Int /\ y \in Int
    OBVIOUS
  <2>4. r \in CallType /\ r.op = op
    BY <2>2, <2>3, NoCallType DEF CallType
  <2>5. QED
    BY <1>2, <2>1, <2>2, <2>4, RemoteKeeps
<1>3. CASE defineCounter(c)
  <2>1. PICK cfg \in Config : Remote([NoCall EXCEPT !.op = "defineCounter", !.c = c, !.cfg = cfg])
    BY <1>3 DEF defineCounter
  <2>2. PICK r : r = [NoCall EXCEPT !.op = "defineCounter", !.c = c, !.cfg = cfg]
    OBVIOUS
  <2>3. r \in CallType /\ r.op = "defineCounter"
    BY <2>2, NoCallType DEF CallType, Ops
  <2>4. QED
    BY <2>1, <2>2, <2>3, RemoteKeeps
<1>4. CASE \/ getCounter(c, "getStrongCounter") \/ getCounter(c, "getWeakCounter")
           \/ getConfiguration(c) \/ removeCounter(c)
  BY <1>1, <1>4 DEF getCounter, getConfiguration, removeCounter, Ops
<1>5. {-1, 1} \in SUBSET Int /\ {0} \in SUBSET Int /\ {-1, 1, 2} \in SUBSET Int
  OBVIOUS
<1>6. CASE \/ addAndGet(c) \/ compareAndSwap(c) \/ reset(c) \/ getValue(c)
           \/ BaseCounterImpl_remove(c)
  BY <1>2, <1>5, <1>6
     DEF addAndGet, compareAndSwap, reset, getValue, BaseCounterImpl_remove, Ops
<1>7. QED
  BY <1>3, <1>4, <1>6

\* The listeners of counters come and go.
LEMMA HandleCallKeeps ==
    ASSUME EventsInv, NEW c \in Counter, NEW h \in Handle,
           addListener(c, h) \/ removeListener(c, h)
    PROVE  EventsInv'
<1>1. ASSUME NEW op \in {"addListener", "removeListener"},
             Remote([NoCall EXCEPT !.op = op, !.c = c, !.h = h])
      PROVE  EventsInv'
  <2>1. PICK r : r = [NoCall EXCEPT !.op = op, !.c = c, !.h = h]
    OBVIOUS
  <2>2. r \in CallType /\ r.op = op
    BY <2>1, NoCallType DEF CallType, Ops
  <2>3. QED
    BY <1>1, <2>1, <2>2, RemoteKeeps
<1>2. CASE addListener(c, h)
  <2>1. PICK r : r = [NoCall EXCEPT !.op = "addListener", !.c = c, !.h = h]
    OBVIOUS
  <2>2. CASE Remote(r)
    BY <1>1, <2>1, <2>2
  <2>3. CASE ~Remote(r)
    <3>1. /\ Call(r, "idle") /\ listeners' = Listening(c, Append(getListeners(c), h))
          /\ UNCHANGED <<started, pool, lent, socket, eventDispatchers, thread,
                         counterDispatcher, counters, leaked, heard>>
      BY <1>2, <2>1, <2>3 DEF addListener, links
    <3>2. DOMAIN listeners' \subseteq Counter
      BY <3>1 DEF Listening, EventsInv, Types
    <3>3. QED
      BY <3>1, <3>2, LocalKeeps
  <2>4. QED
    BY <2>2, <2>3
<1>3. CASE removeListener(c, h)
  <2>1. PICK r : r = [NoCall EXCEPT !.op = "removeListener", !.c = c, !.h = h]
    OBVIOUS
  <2>2. CASE Remote(r)
    BY <1>1, <2>1, <2>2
  <2>3. CASE ~Remote(r)
    <3>1. /\ Call(r, "idle") /\ listeners' = listeners
          /\ UNCHANGED <<started, pool, lent, socket, eventDispatchers, thread,
                         counterDispatcher, counters, leaked, heard>>
      BY <1>3, <2>1, <2>3 DEF removeListener, links, manager
    <3>2. QED
      BY <3>1, LocalKeeps DEF EventsInv, Types
  <2>4. QED
    BY <2>2, <2>3
<1>4. QED
  BY <1>2, <1>3

\* The manager stops and starts.
LEMMA ManagerCallKeeps ==
    ASSUME EventsInv, stop \/ start
    PROVE  EventsInv'
<1>1. CASE stop
  <2>1. PICK c : c = [NoCall EXCEPT !.op = "stop", !.todo = DOMAIN eventDispatchers]
    OBVIOUS
  <2>2. DOMAIN eventDispatchers \in SUBSET (Id \cup {None})
    BY DEF EventsInv, DispatchersOK
  <2>3. c \in CallType /\ c.op = "stop"
    BY <2>1, <2>2, NoCallType DEF CallType, Ops
  <2>4. /\ started /\ pc = "idle" /\ pc' = "stopping" /\ call' = c
        /\ UNCHANGED <<started, tries, conn, pool, lent, socket, eventDispatchers, thread,
                       counterDispatcher, listeners, counters, leaked, heard>>
    BY <1>1, <2>1 DEF stop, Call, links, manager, history
  <2>5. conn = None
    BY <2>4 DEF EventsInv, PlaceOK
  <2>6. Types'
    BY <2>3, <2>4 DEF EventsInv, Types
  <2>7. DispatchersOK' /\ RunningOK'
    BY <2>4 DEF EventsInv, DispatchersOK, RunningOK
  <2>8. PlaceOK'
    BY <2>3, <2>4, <2>5 DEF PlaceOK
  <2>9. OwnedOK'
    BY <2>4 DEF EventsInv, OwnedOK
  <2>10. RegisteredOK'
    <3>1. \A d \in DOMAIN eventDispatchers : conn # eventDispatchers[d]
      BY <2>5, EventsAssumption DEF EventsInv, DispatchersOK
    <3>2. QED
      BY <2>3, <2>4, <3>1 DEF RegisteredOK
  <2>11. QED
    BY <2>6, <2>7, <2>8, <2>9, <2>10 DEF EventsInv
<1>2. CASE start
  <2>1. /\ ~started /\ started' = TRUE /\ pc = "idle" /\ pc' = "idle" /\ call' = NoCall
        /\ pool' = {} /\ lent' = {} /\ leaked' = {} /\ eventDispatchers' = <<>>
        /\ thread' = [d \in Id |-> NoThread]
        /\ socket' = [n \in Conn |-> IF n \in Conn THEN "unused" ELSE socket[n]]
        /\ UNCHANGED <<tries, conn, counterDispatcher, listeners, counters, heard>>
    BY <1>2 DEF start, Call, Destroyed, history
  <2>2. conn = None
    BY <2>1 DEF EventsInv, PlaceOK
  <2>3. DOMAIN eventDispatchers' = {}
    BY <2>1
  <2>4. Types'
    <3>1. socket' \in [Conn -> {"unused", "open", "closed", "down"}]
      BY <2>1
    <3>2. QED
      BY <2>1, <3>1, NoCallType DEF EventsInv, Types
  <2>5. DispatchersOK' /\ RunningOK'
    BY <2>1, <2>3 DEF DispatchersOK, RunningOK, NoThread
  <2>6. PlaceOK'
    BY <2>1, <2>2, NoCallType DEF PlaceOK
  <2>7. OwnedOK' /\ RegisteredOK'
    BY <2>1, <2>3, NoCallType DEF OwnedOK, RegisteredOK
  <2>8. QED
    BY <2>4, <2>5, <2>6, <2>7 DEF EventsInv
<1>3. QED
  BY <1>1, <1>2

-----------------------------------------------------------------------------
(* Requests *)

\* A return and a retry end the attempt.
LEMMA AttemptOver ==
    ASSUME EventsInv, Retry \/ (\E k, v : Return(k, v))
    PROVE  /\ conn' = None /\ tries' \in 0 .. MaxRetries
           /\ \/ pc' = "idle" /\ call' = NoCall
              \/ pc' = "borrow" /\ call' = call
<1>1. tries \in 0 .. MaxRetries /\ MaxRetries \in Nat
  BY EventsAssumption DEF EventsInv, Types
<1>2. CASE \E k, v : Return(k, v)
  BY <1>1, <1>2 DEF Return
<1>3. CASE Retry
  BY <1>1, <1>3 DEF Retry, Return
<1>4. QED
  BY <1>2, <1>3

\* A connection is borrowed.
LEMMA getTransportKeeps ==
    ASSUME EventsInv, getTransport
    PROVE  EventsInv'
<1>1. PICK fresh : fresh = {n \in Conn : socket[n] = "unused"}
  OBVIOUS
<1>2. PICK n : n = IF pool # {} THEN Min(pool) ELSE Min(fresh)
  OBVIOUS
<1>3. /\ pc = "borrow" /\ pool \cup fresh # {} /\ conn' = n /\ pc' = "send"
      /\ pool' = pool \ {n} /\ lent' = lent \cup {n}
      /\ socket' = IF n \in pool THEN socket ELSE [socket EXCEPT ![n] = "open"]
      /\ UNCHANGED <<started, call, tries, eventDispatchers, thread, counterDispatcher,
                     listeners, counters, leaked, heard>>
  BY <1>1, <1>2 DEF getTransport, manager, history
<1>4. started /\ OwnedOK /\ RegisteredOK /\ PlaceOK /\ Types
  BY <1>3 DEF EventsInv, PlaceOK
<1>5. n \in Conn /\ (n \in pool \/ socket[n] = "unused")
  <2>1. CASE pool # {}
    BY <1>2, <1>4, <2>1, MinIsOne DEF Types
  <2>2. CASE pool = {}
    <3>1. fresh # {} /\ fresh \subseteq Conn
      BY <1>1, <1>3, <2>2
    <3>2. n \in fresh
      BY <1>2, <2>2, <3>1, MinIsOne
    <3>3. QED
      BY <1>1, <3>2
  <2>3. QED
    BY <2>1, <2>2
<1>6. n \notin lent
  BY <1>4, <1>5 DEF OwnedOK
<1>7. conn = None
  BY <1>3, <1>4 DEF PlaceOK
<1>8. socket' \in [Conn -> {"unused", "open", "closed", "down"}]
  BY <1>3, <1>4, <1>5 DEF Types
<1>9. \A m \in Conn : socket[m] # "unused" => socket'[m] # "unused"
  BY <1>3, <1>4, <1>5 DEF Types
<1>10. socket'[n] # "unused"
  BY <1>3, <1>4, <1>5 DEF Types, OwnedOK
<1>11. Types'
  BY <1>3, <1>4, <1>5, <1>8 DEF Types
<1>12. DispatchersOK' /\ RunningOK'
  BY <1>3 DEF EventsInv, DispatchersOK, RunningOK
<1>13. PlaceOK'
  BY <1>3, <1>4 DEF PlaceOK
<1>14. OwnedOK'
  <2>1. \A m \in pool' \cup lent' : socket'[m] # "unused"
    BY <1>3, <1>4, <1>9, <1>10 DEF OwnedOK, Types
  <2>2. pool' \cap lent' = {}
    BY <1>3, <1>4 DEF OwnedOK
  <2>3. lent' \subseteq {conn'} \cup {eventDispatchers'[d] : d \in DOMAIN eventDispatchers'}
                       \cup leaked'
    <3>1. None \notin lent
      BY <1>4, EventsAssumption DEF Types
    <3>2. QED
      BY <1>3, <1>4, <1>7, <3>1 DEF OwnedOK
  <2>4. \A d \in DOMAIN eventDispatchers' : eventDispatchers'[d] \in lent' \ leaked'
    BY <1>3, <1>4 DEF OwnedOK
  <2>5. \A d, e \in DOMAIN eventDispatchers' :
            d # e => eventDispatchers'[d] # eventDispatchers'[e]
    BY <1>3, <1>4 DEF OwnedOK
  <2>6. leaked' \subseteq lent' /\ conn' \notin leaked'
    BY <1>3, <1>4, <1>6 DEF OwnedOK
  <2>7. QED
    BY <2>1, <2>2, <2>3, <2>4, <2>5, <2>6 DEF OwnedOK
<1>15. RegisteredOK'
  <2>1. \A d \in DOMAIN eventDispatchers : n # eventDispatchers[d]
    BY <1>4, <1>6 DEF OwnedOK
  <2>2. QED
    BY <1>3, <1>4, <2>1 DEF RegisteredOK
<1>16. QED
  BY <1>11, <1>12, <1>13, <1>14, <1>15 DEF EventsInv

\* There is no connection to borrow.
LEMMA getTransportFailsKeeps ==
    ASSUME EventsInv, getTransportFails
    PROVE  EventsInv'
<1>1. /\ pc = "borrow" /\ Retry
      /\ UNCHANGED <<started, pool, lent, socket, eventDispatchers, thread,
                     counterDispatcher, listeners, counters, leaked, heard>>
  BY DEF getTransportFails, links, manager, history
<1>2. started /\ OwnedOK /\ RegisteredOK /\ PlaceOK /\ Types /\ DispatchersOK /\ RunningOK
  BY <1>1 DEF EventsInv, PlaceOK
<1>3. DispatchersOK' /\ RunningOK'
  BY <1>1, <1>2 DEF DispatchersOK, RunningOK
<1>4. lent' \subseteq {eventDispatchers'[d] : d \in DOMAIN eventDispatchers'} \cup leaked'
  <2>1. conn \notin lent
    BY <1>1, <1>2, EventsAssumption DEF PlaceOK, Types
  <2>2. QED
    BY <1>1, <1>2, <2>1 DEF OwnedOK
<1>5. /\ pool' \cap lent' = {} /\ leaked' \subseteq lent'
      /\ \A d \in DOMAIN eventDispatchers' : eventDispatchers'[d] \in lent' \ leaked'
      /\ \A d, e \in DOMAIN eventDispatchers' :
            d # e => eventDispatchers'[d] # eventDispatchers'[e]
      /\ \A n \in pool' \cup lent' : socket'[n] # "unused"
  BY <1>1, <1>2 DEF OwnedOK
<1>6. /\ call.op = "addClientListener" => call.l \notin DOMAIN eventDispatchers'
      /\ call.op = "removeClientListener" => call.l \in DOMAIN eventDispatchers'
  BY <1>1, <1>2 DEF RegisteredOK
<1>7. /\ pool' \subseteq Conn /\ lent' \subseteq Conn
      /\ socket' \in [Conn -> {"unused", "open", "closed", "down"}]
      /\ counterDispatcher' \in DispatcherId \cup {None}
      /\ DOMAIN listeners' \subseteq Counter /\ DOMAIN counters' \subseteq Counter
      /\ DOMAIN heard' = Listener
  BY <1>1, <1>2 DEF Types
<1>8. /\ conn' = None /\ tries' \in 0 .. MaxRetries
      /\ \/ pc' = "idle" /\ call' = NoCall
         \/ pc' = "borrow" /\ call' = call
  BY <1>1, AttemptOver
<1>9. QED
  BY <1>1, <1>2, <1>3, <1>4, <1>5, <1>6, <1>7, <1>8, AttemptEnds

\* The request is written, and a client listener is registered.
LEMMA flushKeeps ==
    ASSUME EventsInv, flush
    PROVE  EventsInv'
<1>1. /\ pc = "send" /\ pc' = "sent"
      /\ UNCHANGED <<started, call, tries, conn, pool, lent, socket, counterDispatcher,
                     listeners, counters, leaked>>
  BY DEF flush, links, manager
<1>2. started /\ OwnedOK /\ RegisteredOK /\ PlaceOK /\ Types /\ DispatchersOK /\ RunningOK
  BY <1>1 DEF EventsInv, PlaceOK
<1>3. conn \in lent /\ conn \in Conn
  BY <1>1, <1>2 DEF PlaceOK, Types
<1>4. \A d \in DOMAIN eventDispatchers : conn # eventDispatchers[d]
  BY <1>1, <1>2 DEF RegisteredOK
<1>5. PlaceOK'
  BY <1>1, <1>2 DEF PlaceOK
<1>6. CASE call.op # "addClientListener"
  <2>1. UNCHANGED <<eventDispatchers, thread, heard>>
    BY <1>6 DEF flush
  <2>2. Types' /\ DispatchersOK' /\ RunningOK' /\ OwnedOK'
    BY <1>1, <1>2, <2>1 DEF Types, DispatchersOK, RunningOK, OwnedOK
  <2>3. RegisteredOK'
    BY <1>1, <1>2, <1>4, <1>6, <2>1 DEF RegisteredOK
  <2>4. QED
    BY <1>5, <2>2, <2>3 DEF EventsInv
<1>7. CASE call.op = "addClientListener"
  <2>1. PICK l : l = call.l
    OBVIOUS
  <2>2. l \in Listener /\ l \in Id /\ l \notin DOMAIN eventDispatchers
    BY <1>1, <1>2, <1>7, <2>1 DEF PlaceOK, RegisteredOK, Id
  <2>3. /\ eventDispatchers' = [k \in DOMAIN eventDispatchers \cup {l} |->
                                    IF k = l THEN conn ELSE eventDispatchers[k]]
        /\ thread' = [thread EXCEPT ![l] = NoThread]
        /\ heard' = [heard EXCEPT ![l] = <<>>]
    BY <1>7, <2>1, <2>2 DEF flush, addClientListener_Notifier, Inserted
  <2>4. /\ DOMAIN eventDispatchers' = DOMAIN eventDispatchers \cup {l}
        /\ eventDispatchers'[l] = conn
        /\ \A d \in DOMAIN eventDispatchers : eventDispatchers'[d] = eventDispatchers[d]
    BY <2>2, <2>3
  <2>5. /\ DOMAIN thread' = Id
        /\ thread'[l] = NoThread
        /\ \A d \in Id : d # l => thread'[d] = thread[d]
    BY <1>2, <2>2, <2>3 DEF DispatchersOK
  <2>6. "at" \in DOMAIN NoThread /\ NoThread.at = "none"
    BY DEF NoThread
  <2>7. Types'
    BY <1>1, <1>2, <2>3 DEF Types
  <2>8. DispatchersOK'
    BY <1>2, <1>3, <2>2, <2>4, <2>5, <2>6 DEF DispatchersOK
  <2>9. RunningOK'
    BY <1>2, <2>4, <2>5, <2>6 DEF RunningOK
  <2>10. OwnedOK'
    BY <1>1, <1>2, <1>3, <1>4, <2>2, <2>4 DEF OwnedOK
  <2>11. RegisteredOK'
    BY <1>1, <1>4, <1>7, <2>1, <2>4, <2>5, <2>6 DEF RegisteredOK
  <2>12. QED
    BY <1>5, <2>7, <2>8, <2>9, <2>10, <2>11 DEF EventsInv
<1>8. QED
  BY <1>6, <1>7

\* The attempt ends and its connection goes back to the pool or is destroyed; a listener
\* that it registered is erased.
LEMMA GivenBack ==
    ASSUME EventsInv, pc \in {"send", "sent", "served"}, UNCHANGED <<started, thread, leaked>>,
           conn' = None, tries' \in 0 .. MaxRetries,
           (pc' = "idle" /\ call' = NoCall) \/ (pc' = "borrow" /\ call' = call),
           pool' \in {pool, pool \cup {conn}}, lent' = lent \ {conn},
           socket' \in [Conn -> {"unused", "open", "closed", "down"}],
           \A n \in Conn \ {conn} : socket[n] # "unused" => socket'[n] # "unused",
           conn \in pool' => socket'[conn] # "unused",
           eventDispatchers' = IF call.op = "addClientListener" /\ pc # "send"
                               THEN Erased(call.l) ELSE eventDispatchers,
           counterDispatcher' \in DispatcherId \cup {None},
           DOMAIN listeners' \subseteq Counter, DOMAIN counters' \subseteq Counter,
           DOMAIN heard' = Listener
    PROVE  EventsInv'
<1>1. started /\ OwnedOK /\ RegisteredOK /\ PlaceOK /\ Types /\ DispatchersOK /\ RunningOK
  BY DEF EventsInv, PlaceOK
<1>2. conn \in lent /\ conn \in Conn /\ conn \notin pool
  BY <1>1 DEF PlaceOK, Types, OwnedOK
<1>3. /\ DOMAIN eventDispatchers' \subseteq DOMAIN eventDispatchers
      /\ \A d \in DOMAIN eventDispatchers' : eventDispatchers'[d] = eventDispatchers[d]
      /\ \A d \in DOMAIN eventDispatchers' : eventDispatchers[d] # conn
      /\ \A d \in DOMAIN eventDispatchers :
            eventDispatchers[d] # conn => d \in DOMAIN eventDispatchers'
      /\ call.op # "addClientListener" => DOMAIN eventDispatchers' = DOMAIN eventDispatchers
      /\ call.op = "addClientListener" => call.l \notin DOMAIN eventDispatchers'
  <2>1. CASE call.op = "addClientListener" /\ pc # "send"
    <3>1. /\ call.l \in DOMAIN eventDispatchers /\ eventDispatchers[call.l] = conn
          /\ \A d \in DOMAIN eventDispatchers : conn = eventDispatchers[d] => d = call.l
      BY <1>1, <2>1 DEF RegisteredOK
    <3>2. eventDispatchers' =
            [k \in DOMAIN eventDispatchers \ {call.l} |-> eventDispatchers[k]]
      BY <2>1 DEF Erased
    <3>3. /\ DOMAIN eventDispatchers' = DOMAIN eventDispatchers \ {call.l}
          /\ \A d \in DOMAIN eventDispatchers' : eventDispatchers'[d] = eventDispatchers[d]
      BY <3>2
    <3>4. QED
      BY <2>1, <3>1, <3>3
  <2>2. CASE ~(call.op = "addClientListener" /\ pc # "send")
    <3>1. eventDispatchers' = eventDispatchers
      BY <2>2
    <3>2. \A d \in DOMAIN eventDispatchers : eventDispatchers[d] # conn
      BY <1>1, <2>2 DEF RegisteredOK
    <3>3. call.op = "addClientListener" => call.l \notin DOMAIN eventDispatchers
      BY <1>1, <2>2 DEF RegisteredOK
    <3>4. QED
      BY <3>1, <3>2, <3>3
  <2>3. QED
    BY <2>1, <2>2
<1>4. DispatchersOK'
  BY <1>1, <1>3 DEF DispatchersOK
<1>5. RunningOK'
  <2>1. ASSUME NEW d \in Id, thread[d].at \in {"reading", "handling", "recovering"}
        PROVE  d \in DOMAIN eventDispatchers /\ eventDispatchers[d] # conn
    <3>1. d \in DOMAIN eventDispatchers
      BY <1>1, <2>1 DEF RunningOK
    <3>2. eventDispatchers[d] # conn
      BY <1>1, <2>1, <3>1 DEF RegisteredOK
    <3>3. QED
      BY <3>1, <3>2
  <2>2. QED
    BY <1>3, <2>1 DEF RunningOK
<1>6. /\ pool' \cap lent' = {} /\ pool' \subseteq Conn /\ lent' \subseteq Conn
      /\ leaked' \subseteq lent'
  BY <1>1, <1>2 DEF OwnedOK, Types
<1>7. lent' \subseteq {eventDispatchers'[d] : d \in DOMAIN eventDispatchers'} \cup leaked'
  <2>1. ASSUME NEW n \in lent' \ leaked'
        PROVE  \E d \in DOMAIN eventDispatchers' : n = eventDispatchers'[d]
    <3>1. n \in lent \ leaked /\ n # conn
      BY <2>1
    <3>2. PICK d \in DOMAIN eventDispatchers : n = eventDispatchers[d]
      BY <1>1, <3>1 DEF OwnedOK
    <3>3. QED
      BY <1>3, <3>1, <3>2
  <2>2. QED
    BY <2>1
<1>8. \A d \in DOMAIN eventDispatchers' : eventDispatchers'[d] \in lent' \ leaked'
  BY <1>1, <1>3 DEF OwnedOK
<1>9. \A d, e \in DOMAIN eventDispatchers' :
            d # e => eventDispatchers'[d] # eventDispatchers'[e]
  BY <1>1, <1>3 DEF OwnedOK
<1>10. \A n \in pool' \cup lent' : socket'[n] # "unused"
  BY <1>1, <1>6 DEF OwnedOK
<1>11. call.op = "removeClientListener" => call.l \in DOMAIN eventDispatchers'
  BY <1>1, <1>3 DEF RegisteredOK
<1>12. pc # "idle" /\ started'
  BY <1>1
<1>13. QED
  BY <1>1, <1>3, <1>4, <1>5, <1>6, <1>7, <1>8, <1>9, <1>10, <1>11, <1>12, AttemptEnds

\* The connection is lost, or no answer comes.
LEMMA transportExceptionKeeps ==
    ASSUME EventsInv, connectionLost \/ answerTimesOut
    PROVE  EventsInv'
<1>1. transportException /\ pc \in {"send", "sent", "served"}
  BY DEF connectionLost, answerTimesOut, Waiting
<1>2. /\ lent' = lent \ {conn} /\ Retry
      /\ socket' = [n \in Conn |-> IF n \in {conn} THEN "unused" ELSE socket[n]]
      /\ eventDispatchers' = IF call.op = "addClientListener" /\ pc # "send"
                             THEN Erased(call.l) ELSE eventDispatchers
      /\ UNCHANGED <<started, pool, thread, counterDispatcher, listeners, counters, leaked, heard>>
  BY <1>1 DEF transportException, Destroyed, manager, history
<1>3. started /\ OwnedOK /\ PlaceOK /\ Types
  BY <1>1 DEF EventsInv, PlaceOK
<1>4. conn \in Conn /\ conn \notin pool
  BY <1>1, <1>3 DEF PlaceOK, Types, OwnedOK
<1>5. socket' \in [Conn -> {"unused", "open", "closed", "down"}]
  BY <1>2, <1>3 DEF Types
<1>6. \A n \in Conn \ {conn} : socket[n] # "unused" => socket'[n] # "unused"
  BY <1>2
<1>7. /\ conn' = None /\ tries' \in 0 .. MaxRetries
      /\ \/ pc' = "idle" /\ call' = NoCall
         \/ pc' = "borrow" /\ call' = call
  BY <1>2, AttemptOver
<1>8. /\ counterDispatcher' \in DispatcherId \cup {None}
      /\ DOMAIN listeners' \subseteq Counter /\ DOMAIN counters' \subseteq Counter
      /\ DOMAIN heard' = Listener
  BY <1>2, <1>3 DEF Types
<1>9. QED
  BY <1>1, <1>2, <1>4, <1>5, <1>6, <1>7, <1>8, GivenBack

-----------------------------------------------------------------------------
(* Answers *)

\* The attempt ends and its connection goes back to the pool.
LEMMA ReleasedKeeps ==
    ASSUME EventsInv, Waiting, UNCHANGED <<started, thread, leaked>>, NEW m, Release(m),
           Retry \/ (\E k, v : Return(k, v)),
           eventDispatchers' = IF call.op = "addClientListener"
                               THEN Erased(call.l) ELSE eventDispatchers,
           counterDispatcher' \in DispatcherId \cup {None},
           DOMAIN listeners' \subseteq Counter, DOMAIN counters' \subseteq Counter,
           DOMAIN heard' = Listener
    PROVE  EventsInv'
<1>1. /\ pool' = pool \cup {conn} /\ lent' = lent \ {conn} /\ socket' = socket
  BY DEF Release
<1>2. pc \in {"sent", "served"}
  BY DEF Waiting
<1>3. started /\ OwnedOK /\ PlaceOK /\ Types
  BY <1>2 DEF EventsInv, PlaceOK
<1>4. conn \in lent /\ socket[conn] # "unused"
  BY <1>2, <1>3 DEF PlaceOK, OwnedOK
<1>5. socket' \in [Conn -> {"unused", "open", "closed", "down"}]
  BY <1>1, <1>3 DEF Types
<1>6. /\ conn' = None /\ tries' \in 0 .. MaxRetries
      /\ \/ pc' = "idle" /\ call' = NoCall
         \/ pc' = "borrow" /\ call' = call
  BY AttemptOver
<1>7. QED
  BY <1>1, <1>2, <1>4, <1>5, <1>6, GivenBack

\* The answer to the addition of a client listener: an event, the acceptance or another.
LEMMA answer_addClientListenerKeeps ==
    ASSUME EventsInv, Waiting, NEW m, answer_addClientListener(call.l, m), UNCHANGED started
    PROVE  EventsInv'
<1>1. PICK l : l = call.l
  OBVIOUS
<1>2. pc \in {"sent", "served"} /\ call.op = "addClientListener"
  BY DEF Waiting, answer_addClientListener
<1>3. started /\ OwnedOK /\ RegisteredOK /\ PlaceOK /\ Types /\ DispatchersOK /\ RunningOK
  BY <1>2 DEF EventsInv, PlaceOK
<1>4. /\ l \in Listener /\ l \in Id /\ l \in DOMAIN eventDispatchers
      /\ eventDispatchers[l] = conn /\ conn \in lent
  BY <1>1, <1>2, <1>3 DEF PlaceOK, RegisteredOK, Id
<1>5. UNCHANGED <<counterDispatcher, listeners, counters, leaked>>
  BY DEF answer_addClientListener, manager
<1>6. CASE isEvent(m)
  <2>1. /\ processImmediateEvent(l, m)
        /\ UNCHANGED <<pc, call, tries, conn, eventDispatchers, thread>>
    BY <1>1, <1>6 DEF answer_addClientListener, app
  <2>2. UNCHANGED <<pool, lent, socket>> /\ DOMAIN heard' = DOMAIN heard
    BY <2>1 DEF processImmediateEvent, processEvent, Keep
  <2>3. Bystander
    BY <1>3, <1>5, <2>1, <2>2 DEF Bystander, Types
  <2>4. ThreadsGoOn
    BY <1>3, <2>1 DEF ThreadsGoOn, DispatchersOK
  <2>5. QED
    BY <2>3, <2>4, BystanderKeeps
<1>7. CASE ~isEvent(m)
  <2>1. PICK accepted \in BOOLEAN : accepted <=> (m.k = "response" /\ isSuccess(m.x[1]))
    OBVIOUS
  <2>2. /\ IF m.k \in {"response", "error"}
           THEN releaseTransport_Listener(~accepted)
           ELSE Release(0)
        /\ thread' = IF accepted
                     THEN [thread EXCEPT ![l] = [at |-> "reading", event |-> None]]
                     ELSE thread
        /\ eventDispatchers' = IF accepted THEN eventDispatchers ELSE Erased(l)
        /\ IF m.k = "response" THEN Return("ret", 0) ELSE Retry
        /\ UNCHANGED heard
    BY <1>1, <1>7, <2>1 DEF answer_addClientListener
  <2>3. CASE ~accepted
    <3>1. Release(0) \/ Release(1)
      BY <2>2, <2>3 DEF releaseTransport_Listener
    <3>2. Retry \/ (\E k, v : Return(k, v))
      BY <2>2
    <3>3. DOMAIN heard' = Listener
      BY <1>3, <2>2 DEF Types
    <3>4. QED
      BY <1>1, <1>2, <1>3, <1>5, <2>2, <2>3, <3>1, <3>2, <3>3, ReleasedKeeps DEF Types
  <2>4. CASE accepted
    <3>1. /\ UNCHANGED <<pool, lent, socket, eventDispatchers, heard>>
          /\ Return("ret", 0)
      BY <2>1, <2>2, <2>4 DEF releaseTransport_Listener, Keep
    <3>2. PICK r : r = [at |-> "reading", event |-> None]
      OBVIOUS
    <3>3. /\ DOMAIN thread' = Id /\ thread'[l] = r
          /\ \A d \in Id : d # l => thread'[d] = thread[d]
      BY <1>3, <1>4, <2>2, <2>4, <3>2 DEF DispatchersOK
    <3>4. "at" \in DOMAIN r /\ r.at = "reading"
      BY <3>2
    <3>5. DispatchersOK'
      BY <1>3, <3>1, <3>3, <3>4 DEF DispatchersOK
    <3>6. RunningOK'
      BY <1>3, <1>4, <3>1, <3>3, <3>4 DEF RunningOK
    <3>7. conn' = None /\ tries' \in 0 .. MaxRetries /\ pc' = "idle" /\ call' = NoCall
      BY <3>1, EventsAssumption DEF Return
    <3>8. lent' \subseteq {eventDispatchers'[d] : d \in DOMAIN eventDispatchers'} \cup leaked'
      BY <1>3, <1>4, <1>5, <3>1 DEF OwnedOK
    <3>9. /\ pool' \cap lent' = {} /\ leaked' \subseteq lent'
          /\ \A d \in DOMAIN eventDispatchers' : eventDispatchers'[d] \in lent' \ leaked'
          /\ \A d, e \in DOMAIN eventDispatchers' :
                d # e => eventDispatchers'[d] # eventDispatchers'[e]
          /\ \A n \in pool' \cup lent' : socket'[n] # "unused"
      BY <1>3, <1>5, <3>1 DEF OwnedOK
    <3>10. /\ pool' \subseteq Conn /\ lent' \subseteq Conn
           /\ socket' \in [Conn -> {"unused", "open", "closed", "down"}]
           /\ counterDispatcher' \in DispatcherId \cup {None}
           /\ DOMAIN listeners' \subseteq Counter /\ DOMAIN counters' \subseteq Counter
           /\ DOMAIN heard' = Listener
      BY <1>3, <1>5, <3>1 DEF Types
    <3>11. QED
      BY <1>3, <3>5, <3>6, <3>7, <3>8, <3>9, <3>10, AttemptEnds
  <2>5. QED
    BY <2>3, <2>4
<1>8. QED
  BY <1>6, <1>7

\* The answer to the removal of a client listener.
LEMMA answer_removeClientListenerKeeps ==
    ASSUME EventsInv, Waiting, NEW m, answer_removeClientListener(call.l, m), UNCHANGED started
    PROVE  EventsInv'
<1>1. pc \in {"sent", "served"} /\ call.op = "removeClientListener"
  BY DEF Waiting, answer_removeClientListener
<1>2. started /\ OwnedOK /\ RegisteredOK /\ PlaceOK /\ Types /\ DispatchersOK /\ RunningOK
  BY <1>1 DEF EventsInv, PlaceOK
<1>3. UNCHANGED <<eventDispatchers, thread, counterDispatcher, listeners, counters, leaked, heard>>
  BY DEF answer_removeClientListener, manager
<1>4. CASE m.k = "response" /\ isSuccess(m.x[1])
  <2>1. PICK n : n = Transport(call.l)
    OBVIOUS
  <2>2. /\ pc' = "join" /\ UNCHANGED <<call, tries, conn, pool, lent>>
        /\ socket' = [socket EXCEPT ![n] = IF @ = "open" THEN "closed" ELSE @]
    BY <1>4, <2>1 DEF answer_removeClientListener
  <2>3. socket' \in [Conn -> {"unused", "open", "closed", "down"}]
    BY <1>2, <2>2 DEF Types
  <2>4. \A k \in Conn : socket[k] # "unused" => socket'[k] # "unused"
    BY <1>2, <2>2 DEF Types
  <2>5. Types'
    BY <1>2, <1>3, <2>2, <2>3 DEF Types
  <2>6. DispatchersOK' /\ RunningOK'
    BY <1>2, <1>3 DEF DispatchersOK, RunningOK
  <2>7. PlaceOK'
    BY <1>1, <1>2, <2>2 DEF PlaceOK
  <2>8. OwnedOK'
    BY <1>2, <1>3, <2>2, <2>4 DEF OwnedOK, Types
  <2>9. RegisteredOK'
    BY <1>1, <1>2, <1>3, <2>2 DEF RegisteredOK
  <2>10. QED
    BY <2>5, <2>6, <2>7, <2>8, <2>9 DEF EventsInv
<1>5. CASE ~(m.k = "response" /\ isSuccess(m.x[1]))
  <2>1. /\ Release(0) \/ Release(1)
        /\ Retry \/ (\E k, v : Return(k, v))
    BY <1>5 DEF answer_removeClientListener
  <2>2. QED
    BY <1>1, <1>2, <1>3, <2>1, ReleasedKeeps DEF Types
<1>6. QED
  BY <1>4, <1>5

\* The answer to a counter's operation.
LEMMA answer_counterKeeps ==
    ASSUME EventsInv, Waiting, call.c # None, NEW o, answer_counter(o),
           UNCHANGED <<started, heard>>
    PROVE  EventsInv'
<1>1. Types /\ PlaceOK
  BY DEF EventsInv
<1>2. call.op # "addClientListener" /\ call.c \in Counter
  BY <1>1 DEF PlaceOK, Types, CallType
<1>3. /\ Release(1) /\ (Retry \/ (\E k, v : Return(k, v)))
      /\ UNCHANGED <<eventDispatchers, thread, counterDispatcher, listeners, leaked>>
  BY DEF answer_counter
<1>4. DOMAIN counters' \subseteq Counter
  BY <1>1, <1>2 DEF answer_counter, Without, Types
<1>5. QED
  BY <1>1, <1>2, <1>3, <1>4, ReleasedKeeps DEF Types

\* An error is the answer to a counter's operation.
LEMMA answer_exceptionKeeps ==
    ASSUME EventsInv, Waiting, call.c # None, NEW m, answer_exception(m),
           UNCHANGED <<started, heard>>
    PROVE  EventsInv'
<1>1. Types /\ PlaceOK
  BY DEF EventsInv
<1>2. call.op # "addClientListener"
  BY <1>1 DEF PlaceOK
<1>3. Retry /\ UNCHANGED <<eventDispatchers, thread, counterDispatcher, listeners, counters>>
  BY DEF answer_exception
<1>4. CASE ~(call.op = "addListener" /\ counterDispatcher = None)
  <2>1. (Release(0) \/ Release(1)) /\ UNCHANGED leaked
    BY <1>4 DEF answer_exception
  <2>2. QED
    BY <1>1, <1>2, <1>3, <2>1, ReleasedKeeps DEF Types
<1>5. CASE call.op = "addListener" /\ counterDispatcher = None
  <2>1. UNCHANGED <<pool, lent, socket>> /\ leaked' = leaked \cup {conn}
    BY <1>5 DEF answer_exception, Keep
  <2>2. pc \in {"sent", "served"}
    BY DEF Waiting
  <2>3. started /\ OwnedOK /\ RegisteredOK /\ DispatchersOK /\ RunningOK /\ conn \in lent
    BY <1>1, <2>2 DEF EventsInv, PlaceOK
  <2>4. \A d \in DOMAIN eventDispatchers : conn # eventDispatchers[d]
    BY <1>5, <2>3 DEF RegisteredOK
  <2>5. DispatchersOK' /\ RunningOK'
    BY <1>3, <2>3 DEF DispatchersOK, RunningOK
  <2>6. lent' \subseteq {eventDispatchers'[d] : d \in DOMAIN eventDispatchers'} \cup leaked'
    BY <1>3, <2>1, <2>3 DEF OwnedOK
  <2>7. /\ pool' \cap lent' = {} /\ leaked' \subseteq lent'
        /\ \A d, e \in DOMAIN eventDispatchers' :
                d # e => eventDispatchers'[d] # eventDispatchers'[e]
        /\ \A n \in pool' \cup lent' : socket'[n] # "unused"
    BY <1>3, <2>1, <2>3 DEF OwnedOK
  <2>8. \A d \in DOMAIN eventDispatchers' : eventDispatchers'[d] \in lent' \ leaked'
    BY <1>3, <2>1, <2>3, <2>4 DEF OwnedOK
  <2>9. /\ conn' = None /\ tries' \in 0 .. MaxRetries
        /\ \/ pc' = "idle" /\ call' = NoCall
           \/ pc' = "borrow" /\ call' = call
    BY <1>3, AttemptOver
  <2>10. /\ pool' \subseteq Conn /\ lent' \subseteq Conn
         /\ socket' \in [Conn -> {"unused", "open", "closed", "down"}]
         /\ counterDispatcher' \in DispatcherId \cup {None}
         /\ DOMAIN listeners' \subseteq Counter /\ DOMAIN counters' \subseteq Counter
         /\ DOMAIN heard' = Listener
    BY <1>1, <1>3, <2>1 DEF Types
  <2>11. pc # "idle" /\ call.op \notin {"addClientListener", "removeClientListener"}
    BY <1>5, <2>2
  <2>12. QED
    BY <2>3, <2>5, <2>6, <2>7, <2>8, <2>9, <2>10, <2>11, AttemptEnds
<1>6. QED
  BY <1>4, <1>5

\* The answer to the addition of a counter's listener, which may start the dispatcher.
LEMMA answer_addListenerKeeps ==
    ASSUME EventsInv, Waiting, call.c # None, NEW o, answer_addListener(o),
           UNCHANGED <<started, heard>>
    PROVE  EventsInv'
<1>1. pc \in {"sent", "served"} /\ call.op = "addListener"
  BY DEF Waiting, answer_addListener
<1>2. started /\ OwnedOK /\ RegisteredOK /\ PlaceOK /\ Types /\ DispatchersOK /\ RunningOK
  BY <1>1 DEF EventsInv, PlaceOK
<1>3. call.c \in Counter /\ conn \in lent
  BY <1>1, <1>2 DEF Types, CallType, PlaceOK
<1>4. Return("ret", o.val) /\ UNCHANGED <<counters, leaked>>
  BY DEF answer_addListener
<1>5. DOMAIN listeners' \subseteq Counter
  BY <1>2, <1>3 DEF answer_addListener, Listening, Types
<1>6. CASE ~(o.val /\ counterDispatcher = None)
  <2>1. Release(1) /\ UNCHANGED <<eventDispatchers, thread, counterDispatcher>>
    BY <1>6 DEF answer_addListener
  <2>2. \E k, v : Return(k, v)
    BY <1>4
  <2>3. QED
    BY <1>1, <1>2, <1>4, <1>5, <2>1, <2>2, ReleasedKeeps DEF Types
<1>7. CASE o.val /\ counterDispatcher = None
  <2>1. PICK d : d = CHOOSE i \in DispatcherId \ DOMAIN eventDispatchers : TRUE
    OBVIOUS
  <2>2. DispatcherId \ DOMAIN eventDispatchers # {}
    BY <1>7 DEF answer_addListener
  <2>3. d \in DispatcherId /\ d \notin DOMAIN eventDispatchers /\ d \in Id
    BY <2>1, <2>2 DEF Id
  <2>4. PICK r : r = [at |-> "reading", event |-> None]
    OBVIOUS
  <2>5. "at" \in DOMAIN r /\ r.at = "reading"
    BY <2>4
  <2>6. /\ counterDispatcher' = d /\ eventDispatchers' = Inserted(d, conn)
        /\ thread' = [thread EXCEPT ![d] = r]
        /\ UNCHANGED <<pool, lent, socket>>
    BY <1>7, <2>1, <2>4 DEF answer_addListener, Keep
  <2>7. /\ DOMAIN eventDispatchers' = DOMAIN eventDispatchers \cup {d}
        /\ eventDispatchers'[d] = conn
        /\ \A e \in DOMAIN eventDispatchers : eventDispatchers'[e] = eventDispatchers[e]
    BY <2>3, <2>6 DEF Inserted
  <2>8. /\ DOMAIN thread' = Id /\ thread'[d] = r
        /\ \A e \in Id : e # d => thread'[e] = thread[e]
    BY <1>2, <2>3, <2>6 DEF DispatchersOK
  <2>9. DispatchersOK'
    BY <1>2, <1>3, <2>3, <2>5, <2>7, <2>8 DEF DispatchersOK, Types
  <2>10. RunningOK'
    BY <1>2, <2>5, <2>7, <2>8 DEF RunningOK
  <2>11. conn' = None /\ tries' \in 0 .. MaxRetries /\ pc' = "idle" /\ call' = NoCall
    BY <1>4, EventsAssumption DEF Return
  <2>12. \A e \in DOMAIN eventDispatchers : conn # eventDispatchers[e]
    BY <1>1, <1>2 DEF RegisteredOK
  <2>13. lent' \subseteq {eventDispatchers'[e] : e \in DOMAIN eventDispatchers'} \cup leaked'
    BY <1>2, <1>4, <2>6, <2>7 DEF OwnedOK
  <2>14. \A e \in DOMAIN eventDispatchers' : eventDispatchers'[e] \in lent' \ leaked'
    BY <1>2, <1>3, <1>4, <2>6, <2>7 DEF OwnedOK
  <2>15. \A e, f \in DOMAIN eventDispatchers' :
            e # f => eventDispatchers'[e] # eventDispatchers'[f]
    BY <1>2, <2>7, <2>12 DEF OwnedOK
  <2>16. /\ pool' \cap lent' = {} /\ leaked' \subseteq lent'
         /\ \A n \in pool' \cup lent' : socket'[n] # "unused"
    BY <1>2, <1>4, <2>6 DEF OwnedOK
  <2>17. /\ pool' \subseteq Conn /\ lent' \subseteq Conn
         /\ socket' \in [Conn -> {"unused", "open", "closed", "down"}]
         /\ counterDispatcher' \in DispatcherId \cup {None}
         /\ DOMAIN counters' \subseteq Counter /\ DOMAIN heard' = Listener
    BY <1>2, <1>4, <2>3, <2>6 DEF Types
  <2>18. QED
    BY <1>2, <1>5, <2>9, <2>10, <2>11, <2>13, <2>14, <2>15, <2>16, <2>17, AttemptEnds
<1>8. QED
  BY <1>6, <1>7

\* The answer to the removal of a counter's listener, which may stop the dispatcher.
LEMMA answer_removeListenerKeeps ==
    ASSUME EventsInv, Waiting, call.c # None, NEW o, answer_removeListener(o),
           UNCHANGED <<started, heard>>
    PROVE  EventsInv'
<1>1. pc \in {"sent", "served"} /\ call.op = "removeListener"
  BY DEF Waiting, answer_removeListener
<1>2. started /\ OwnedOK /\ RegisteredOK /\ PlaceOK /\ Types /\ DispatchersOK /\ RunningOK
  BY <1>1 DEF EventsInv, PlaceOK
<1>3. PICK left : left = IF o.val THEN Without(listeners, call.c) ELSE listeners
  OBVIOUS
<1>4. /\ listeners' = left /\ Release(1)
      /\ UNCHANGED <<counterDispatcher, counters, leaked, eventDispatchers, thread>>
  BY <1>3 DEF answer_removeListener
<1>5. DOMAIN listeners' \subseteq Counter
  BY <1>2, <1>3, <1>4 DEF Without, Types
<1>6. CASE DOMAIN left # {}
  <2>1. \E k, v : Return(k, v)
    BY <1>3, <1>6 DEF answer_removeListener
  <2>2. QED
    BY <1>1, <1>2, <1>4, <1>5, <2>1, ReleasedKeeps DEF Types
<1>7. CASE DOMAIN left = {}
  <2>1. PICK c : c = [call EXCEPT !.todo = {counterDispatcher}]
    OBVIOUS
  <2>2. /\ pc' = "stopping" /\ call' = c /\ conn' = None /\ UNCHANGED tries
    BY <1>3, <1>7, <2>1 DEF answer_removeListener
  <2>3. {counterDispatcher} \in SUBSET (Id \cup {None})
    BY <1>2 DEF Types, Id
  <2>4. c \in CallType /\ c.op = "removeListener"
    BY <1>1, <1>2, <2>1, <2>3 DEF Types, CallType
  <2>5. /\ pool' = pool \cup {conn} /\ lent' = lent \ {conn} /\ socket' = socket
    BY <1>4 DEF Release
  <2>6. conn \in lent /\ conn \in Conn
    BY <1>1, <1>2 DEF PlaceOK, Types
  <2>7. Types'
    BY <1>2, <1>4, <1>5, <2>2, <2>4, <2>5, <2>6 DEF Types
  <2>8. DispatchersOK' /\ RunningOK'
    BY <1>2, <1>4 DEF DispatchersOK, RunningOK
  <2>9. PlaceOK'
    BY <1>2, <2>2, <2>4 DEF PlaceOK
  <2>10. \A d \in DOMAIN eventDispatchers : conn # eventDispatchers[d]
    BY <1>1, <1>2 DEF RegisteredOK
  <2>11. OwnedOK'
    <3>1. None \notin leaked
      BY <1>2, EventsAssumption DEF OwnedOK, Types
    <3>2. QED
      BY <1>2, <1>4, <2>2, <2>5, <2>6, <2>10, <3>1 DEF OwnedOK
  <2>12. RegisteredOK'
    <3>1. \A d \in DOMAIN eventDispatchers : None # eventDispatchers[d]
      BY <1>2, EventsAssumption DEF DispatchersOK
    <3>2. QED
      BY <1>4, <2>2, <2>4, <3>1 DEF RegisteredOK
  <2>13. QED
    BY <2>7, <2>8, <2>9, <2>11, <2>12 DEF EventsInv
<1>8. QED
  BY <1>6, <1>7

\* An answer is read.
LEMMA readAnswerKeeps ==
    ASSUME EventsInv, readAnswer
    PROVE  EventsInv'
<1>1. Waiting /\ UNCHANGED started
  BY DEF readAnswer
<1>2. PICK m : m = Head(in[conn])
  OBVIOUS
<1>3. CASE answer_addClientListener(call.l, m)
  BY <1>1, <1>3, answer_addClientListenerKeeps
<1>4. CASE answer_removeClientListener(call.l, m)
  BY <1>1, <1>4, answer_removeClientListenerKeeps
<1>5. CASE /\ call.c # None /\ UNCHANGED heard
           /\ \E o : answer_counter(o) \/ answer_addListener(o) \/ answer_removeListener(o)
  BY <1>1, <1>5, answer_counterKeeps, answer_addListenerKeeps, answer_removeListenerKeeps
<1>6. CASE call.c # None /\ UNCHANGED heard /\ answer_exception(m)
  BY <1>1, <1>6, answer_exceptionKeeps
<1>7. QED
  BY <1>2, <1>3, <1>4, <1>5, <1>6 DEF readAnswer

-----------------------------------------------------------------------------
(* Stopping dispatchers *)

\* A dispatcher is asked to stop.
LEMMA stopDispatcherKeeps ==
    ASSUME EventsInv, stopDispatcher
    PROVE  EventsInv'
<1>1. PICK d \in call.todo :
        /\ pc = "stopping" /\ call' = [call EXCEPT !.d = d] /\ pc' = "join"
        /\ Close(Transport(d)) \/ UNCHANGED socket
        /\ UNCHANGED <<started, tries, conn, pool, lent, eventDispatchers, thread,
                       counterDispatcher, listeners, counters, leaked, heard>>
  BY DEF stopDispatcher, manager, history
<1>2. started /\ OwnedOK /\ RegisteredOK /\ PlaceOK /\ Types /\ DispatchersOK /\ RunningOK
  BY <1>1 DEF EventsInv, PlaceOK
<1>3. socket' \in [Conn -> {"unused", "open", "closed", "down"}]
  BY <1>1, <1>2 DEF Close, Types
<1>4. \A n \in Conn : socket[n] # "unused" => socket'[n] # "unused"
  BY <1>1, <1>2 DEF Close, Types
<1>5. d \in Id \cup {None}
  BY <1>2 DEF Types, CallType
<1>6. call' \in CallType /\ call'.op = call.op /\ call'.l = call.l
  BY <1>1, <1>2, <1>5 DEF Types, CallType
<1>7. conn = None /\ call.op # "none" /\
      call.op \notin {"addClientListener", "removeClientListener"}
  BY <1>1, <1>2 DEF PlaceOK
<1>8. Types'
  BY <1>1, <1>2, <1>3, <1>6 DEF Types
<1>9. DispatchersOK' /\ RunningOK'
  BY <1>1, <1>2 DEF DispatchersOK, RunningOK
<1>10. PlaceOK'
  BY <1>1, <1>2, <1>6, <1>7 DEF PlaceOK
<1>11. OwnedOK'
  BY <1>1, <1>2, <1>4 DEF OwnedOK, Types
<1>12. RegisteredOK'
  <2>1. \A e \in DOMAIN eventDispatchers : conn # eventDispatchers[e]
    BY <1>2, <1>7, EventsAssumption DEF DispatchersOK
  <2>2. QED
    BY <1>1, <1>6, <1>7, <2>1 DEF RegisteredOK
<1>13. QED
  BY <1>8, <1>9, <1>10, <1>11, <1>12 DEF EventsInv

\* The thread of a removed listener has ended.
LEMMA removeJoinedKeeps ==
    ASSUME EventsInv, removeJoined
    PROVE  EventsInv'
<1>1. PICK l, n : l = call.l /\ n = eventDispatchers[call.l]
  OBVIOUS
<1>2. /\ pc = "join" /\ call.op = "removeClientListener"
      /\ thread[l].at \in {"none", "exited"}
      /\ lent' = lent \ {conn, n} /\ pool' = pool \cup {conn}
      /\ socket' = [k \in Conn |-> IF k \in {n} THEN "unused" ELSE socket[k]]
      /\ eventDispatchers' = Erased(l) /\ Return("ret", 0)
      /\ UNCHANGED <<started, thread, counterDispatcher, listeners, counters, leaked, heard>>
  BY <1>1 DEF removeJoined, waitThreadExit, Transport, Destroyed, manager, history
<1>3. started /\ OwnedOK /\ RegisteredOK /\ PlaceOK /\ Types /\ DispatchersOK /\ RunningOK
  BY <1>2 DEF EventsInv, PlaceOK
<1>4. l \in DOMAIN eventDispatchers /\ n = eventDispatchers[l] /\ n \in lent /\ conn \in lent
  BY <1>1, <1>2, <1>3 DEF RegisteredOK, PlaceOK, OwnedOK
<1>5. \A d \in DOMAIN eventDispatchers : conn # eventDispatchers[d]
  BY <1>2, <1>3 DEF RegisteredOK
<1>6. /\ DOMAIN eventDispatchers' = DOMAIN eventDispatchers \ {l}
      /\ \A d \in DOMAIN eventDispatchers' : eventDispatchers'[d] = eventDispatchers[d]
  BY <1>2 DEF Erased
<1>7. conn' = None /\ tries' \in 0 .. MaxRetries /\ pc' = "idle" /\ call' = NoCall
  BY <1>2, EventsAssumption DEF Return
<1>8. DispatchersOK'
  BY <1>2, <1>3, <1>6 DEF DispatchersOK
<1>9. RunningOK'
  BY <1>2, <1>3, <1>6 DEF RunningOK
<1>10. lent' \subseteq {eventDispatchers'[d] : d \in DOMAIN eventDispatchers'} \cup leaked'
  <2>1. ASSUME NEW k \in lent' \ leaked'
        PROVE  \E d \in DOMAIN eventDispatchers' : k = eventDispatchers'[d]
    <3>1. k \in lent \ leaked /\ k # conn /\ k # n
      BY <1>2, <2>1
    <3>2. PICK d \in DOMAIN eventDispatchers : k = eventDispatchers[d]
      BY <1>3, <3>1 DEF OwnedOK
    <3>3. QED
      BY <1>4, <1>6, <3>1, <3>2
  <2>2. QED
    BY <2>1
<1>11. \A d \in DOMAIN eventDispatchers' : eventDispatchers'[d] \in lent' \ leaked'
  BY <1>2, <1>3, <1>4, <1>5, <1>6 DEF OwnedOK
<1>12. \A d, e \in DOMAIN eventDispatchers' :
            d # e => eventDispatchers'[d] # eventDispatchers'[e]
  BY <1>3, <1>6 DEF OwnedOK
<1>13. /\ pool' \cap lent' = {} /\ pool' \subseteq Conn /\ lent' \subseteq Conn
       /\ leaked' \subseteq lent'
  BY <1>2, <1>3, <1>4 DEF OwnedOK, Types
<1>14. \A k \in pool' \cup lent' : k # n /\ k \in pool \cup lent
  BY <1>2, <1>3, <1>4, <1>5 DEF OwnedOK
<1>15. \A k \in pool' \cup lent' : socket'[k] # "unused"
  BY <1>2, <1>3, <1>13, <1>14 DEF OwnedOK
<1>16. /\ socket' \in [Conn -> {"unused", "open", "closed", "down"}]
       /\ counterDispatcher' \in DispatcherId \cup {None}
       /\ DOMAIN listeners' \subseteq Counter /\ DOMAIN counters' \subseteq Counter
       /\ DOMAIN heard' = Listener
  BY <1>2, <1>3 DEF Types
<1>17. QED
  BY <1>2, <1>3, <1>7, <1>8, <1>9, <1>10, <1>11, <1>12, <1>13, <1>15, <1>16, AttemptEnds

\* The thread of the counters' dispatcher has ended.
LEMMA counterJoinedKeeps ==
    ASSUME EventsInv, counterJoined
    PROVE  EventsInv'
<1>1. /\ pc = "join" /\ call.op = "removeListener" /\ counterDispatcher' = None
      /\ listeners' = <<>> /\ Return("ret", 0)
      /\ UNCHANGED <<started, pool, lent, socket, eventDispatchers, thread, counters, leaked,
                     heard>>
  BY DEF counterJoined, links
<1>2. started /\ OwnedOK /\ PlaceOK /\ Types /\ DispatchersOK /\ RunningOK
  BY <1>1 DEF EventsInv, PlaceOK
<1>3. conn \notin lent
  BY <1>1, <1>2, EventsAssumption DEF PlaceOK, Types
<1>4. lent' \subseteq {eventDispatchers'[d] : d \in DOMAIN eventDispatchers'} \cup leaked'
  BY <1>1, <1>2, <1>3 DEF OwnedOK
<1>5. /\ pool' \cap lent' = {} /\ leaked' \subseteq lent'
      /\ \A d \in DOMAIN eventDispatchers' : eventDispatchers'[d] \in lent' \ leaked'
      /\ \A d, e \in DOMAIN eventDispatchers' :
            d # e => eventDispatchers'[d] # eventDispatchers'[e]
      /\ \A n \in pool' \cup lent' : socket'[n] # "unused"
  BY <1>1, <1>2 DEF OwnedOK
<1>6. DispatchersOK' /\ RunningOK'
  BY <1>1, <1>2 DEF DispatchersOK, RunningOK
<1>7. conn' = None /\ tries' \in 0 .. MaxRetries /\ pc' = "idle" /\ call' = NoCall
  BY <1>1, EventsAssumption DEF Return
<1>8. DOMAIN listeners' \subseteq Counter
  BY <1>1
<1>9. /\ pool' \subseteq Conn /\ lent' \subseteq Conn
      /\ socket' \in [Conn -> {"unused", "open", "closed", "down"}]
      /\ counterDispatcher' \in DispatcherId \cup {None}
      /\ DOMAIN counters' \subseteq Counter /\ DOMAIN heard' = Listener
  BY <1>1, <1>2 DEF Types
<1>10. QED
  BY <1>1, <1>2, <1>4, <1>5, <1>6, <1>7, <1>8, <1>9, AttemptEnds

\* The manager's stop goes on to the next dispatcher.
LEMMA stopJoinedKeeps ==
    ASSUME EventsInv, stopJoined
    PROVE  EventsInv'
<1>1. /\ pc = "join" /\ call.op = "stop" /\ pc' = "stopping"
      /\ call' = [call EXCEPT !.todo = @ \ {call.d}]
      /\ UNCHANGED <<started, tries, conn, pool, lent, socket, eventDispatchers, thread,
                     counterDispatcher, listeners, counters, leaked, heard>>
  BY DEF stopJoined, links, manager, history
<1>2. started /\ OwnedOK /\ RegisteredOK /\ PlaceOK /\ Types /\ DispatchersOK /\ RunningOK
  BY <1>1 DEF EventsInv, PlaceOK
<1>3. call' \in CallType /\ call'.op = "stop"
  BY <1>1, <1>2 DEF Types, CallType
<1>4. conn = None
  BY <1>1, <1>2 DEF PlaceOK
<1>5. Types'
  BY <1>1, <1>2, <1>3 DEF Types
<1>6. DispatchersOK' /\ RunningOK'
  BY <1>1, <1>2 DEF DispatchersOK, RunningOK
<1>7. PlaceOK'
  BY <1>1, <1>2, <1>3, <1>4 DEF PlaceOK
<1>8. OwnedOK'
  BY <1>1, <1>2 DEF OwnedOK
<1>9. RegisteredOK'
  <2>1. \A e \in DOMAIN eventDispatchers : conn # eventDispatchers[e]
    BY <1>2, <1>4, EventsAssumption DEF DispatchersOK
  <2>2. QED
    BY <1>1, <1>3, <2>1 DEF RegisteredOK
<1>10. QED
  BY <1>5, <1>6, <1>7, <1>8, <1>9 DEF EventsInv

\* The manager has stopped.
LEMMA stoppedKeeps ==
    ASSUME EventsInv, stopped
    PROVE  EventsInv'
<1>1. /\ started' = FALSE /\ pool' = {} /\ Return("ret", 0)
      /\ socket' = [n \in Conn |-> IF n \in pool THEN "unused" ELSE socket[n]]
      /\ UNCHANGED <<lent, eventDispatchers, thread, counterDispatcher, listeners, counters, leaked,
                     heard>>
  BY DEF stopped, Destroyed, manager, history
<1>2. conn' = None /\ tries' \in 0 .. MaxRetries /\ pc' = "idle" /\ call' = NoCall
  BY <1>1, EventsAssumption DEF Return
<1>3. Types'
  <2>1. socket' \in [Conn -> {"unused", "open", "closed", "down"}]
    BY <1>1 DEF EventsInv, Types
  <2>2. QED
    BY <1>1, <1>2, <2>1, NoCallType DEF EventsInv, Types
<1>4. DispatchersOK' /\ RunningOK'
  BY <1>1 DEF EventsInv, DispatchersOK, RunningOK
<1>5. PlaceOK'
  BY <1>1, <1>2, NoCallType DEF PlaceOK
<1>6. conn = None /\ conn' = None /\ OwnedOK /\ Types /\ DispatchersOK
  BY <1>2 DEF EventsInv, PlaceOK, stopped
<1>7. OwnedOK'
  <2>1. \A n \in lent : n \in Conn /\ n \notin pool /\ socket'[n] = socket[n]
    BY <1>1, <1>6 DEF OwnedOK, Types
  <2>2. QED
    BY <1>1, <1>6, <2>1 DEF OwnedOK
<1>8. RegisteredOK'
  BY <1>1, <1>2, <1>6, NoCallType, EventsAssumption DEF RegisteredOK, DispatchersOK
<1>9. QED
  BY <1>1, <1>3, <1>4, <1>5, <1>7, <1>8 DEF EventsInv

-----------------------------------------------------------------------------
(* The theorems *)

\* The invariant holds at first.
LEMMA InitEvents == Init => EventsInv
<1>1. SUFFICES ASSUME Init PROVE EventsInv
  OBVIOUS
<1>2. /\ started = TRUE /\ pc = "idle" /\ call = NoCall /\ tries = 0 /\ conn = None
      /\ pool = {} /\ lent = {} /\ socket = [n \in Conn |-> "unused"]
      /\ eventDispatchers = <<>> /\ thread = [d \in Id |-> NoThread]
      /\ counterDispatcher = None /\ listeners = <<>> /\ leaked = {}
      /\ heard = [l \in Listener |-> <<>>]
  BY <1>1 DEF Init
<1>3. DOMAIN eventDispatchers = {} /\ DOMAIN listeners = {}
  BY <1>2
<1>4. DOMAIN counters \subseteq Counter
  BY <1>1 DEF Init
<1>5. Types
  <2>1. socket \in [Conn -> {"unused", "open", "closed", "down"}]
    BY <1>2
  <2>2. tries \in 0 .. MaxRetries
    BY <1>2, EventsAssumption
  <2>3. QED
    BY <1>2, <1>3, <1>4, <2>1, <2>2, NoCallType DEF Types
<1>6. DispatchersOK /\ RunningOK
  BY <1>2, <1>3 DEF DispatchersOK, RunningOK, NoThread
<1>7. PlaceOK
  BY <1>2, NoCallType DEF PlaceOK
<1>8. OwnedOK /\ RegisteredOK
  BY <1>2, <1>3, NoCallType DEF OwnedOK, RegisteredOK
<1>9. QED
  BY <1>5, <1>6, <1>7, <1>8 DEF EventsInv

\* Every step keeps it.
LEMMA NextEvents == EventsInv /\ [Next]_vars => EventsInv'
<1>1. SUFFICES ASSUME EventsInv, [Next]_vars PROVE EventsInv'
  OBVIOUS
<1>2. CASE UNCHANGED vars
  <2>1. UNCHANGED <<started, pc, call, tries, conn, pool, lent, socket, eventDispatchers,
                    thread, counterDispatcher, listeners, counters, leaked, heard>>
    BY <1>2 DEF vars, app, links, manager, history
  <2>2. Types' /\ DispatchersOK' /\ PlaceOK' /\ RunningOK'
    BY <1>1, <2>1 DEF EventsInv, Types, DispatchersOK, PlaceOK, RunningOK
  <2>3. OwnedOK' /\ RegisteredOK'
    BY <1>1, <2>1 DEF EventsInv, OwnedOK, RegisteredOK
  <2>4. QED
    BY <2>2, <2>3 DEF EventsInv
<1>3. CASE Application
  BY <1>1, <1>3, getTransportKeeps, flushKeeps, transportExceptionKeeps, readAnswerKeeps,
     stopDispatcherKeeps, removeJoinedKeeps, counterJoinedKeeps, stopJoinedKeeps, stoppedKeeps
     DEF Application
<1>4. CASE \E d \in Id : Dispatcher(d) \/ ReadTimesOut(d)
  BY <1>1, <1>4, DispatcherKeeps
<1>5. CASE NewCall
  BY <1>1, <1>5, ListenerCallKeeps, CounterCallKeeps, HandleCallKeeps, ManagerCallKeeps
     DEF NewCall
<1>6. CASE Serve \/ getTransportFails \/ answerTimesOut
  BY <1>1, <1>6, ServeKeeps, getTransportFailsKeeps, transportExceptionKeeps
<1>7. CASE \/ \E n \in Conn : Drop(n)
           \/ \E l \in Listener : SendEvent(l)
           \/ \E c \in Counter : OtherClient(c)
  BY <1>1, <1>7, WorldKeeps
<1>8. QED
  BY <1>1, <1>2, <1>3, <1>4, <1>5, <1>6, <1>7 DEF Next

\* Connections, the notifier's map and the threads stay in agreement, whatever the
\* server answers, whichever connections are lost and however often the manager is
\* stopped and started.
THEOREM EventsInvariant == Spec => []EventsInv
BY InitEvents, NextEvents, PTL DEF Spec

\* Every variable keeps its type.
THEOREM EventsTypes == Spec => []TypeOK
<1>1. EventsInv => TypeOK
  BY DEF EventsInv, Types, DispatchersOK, PlaceOK, TypeOK
<1>2. QED
  BY <1>1, EventsInvariant, PTL

\* While the manager runs, no connection is lost and none has two readers: the
\* connection that AddClientListenerOperation and the first addListener keep is their
\* dispatcher's alone, and every other path gives it back or destroys it, but for the
\* exceptions of the first registration of a counter listener.
THEOREM LoansAreKept == Spec => []LoansAreAccountedFor
<1>1. EventsInv => LoansAreAccountedFor
  <2>1. SUFFICES ASSUME EventsInv, started PROVE LoansAreAccountedFor
    BY DEF LoansAreAccountedFor
  <2>2. OwnedOK /\ RegisteredOK
    BY <2>1 DEF EventsInv
  <2>3. Range(eventDispatchers) = {eventDispatchers[d] : d \in DOMAIN eventDispatchers}
    BY DEF Range
  <2>4. /\ pool \cap lent = {}
        /\ lent \subseteq {conn} \cup Range(eventDispatchers) \cup leaked
        /\ leaked \cap (pool \cup {conn} \cup Range(eventDispatchers)) = {}
    BY <2>2, <2>3 DEF OwnedOK
  <2>5. Range(eventDispatchers) \cap pool = {}
    BY <2>2, <2>3 DEF OwnedOK
  <2>6. \A d, e \in DOMAIN eventDispatchers : d # e => eventDispatchers[d] # eventDispatchers[e]
    BY <2>2 DEF OwnedOK
  <2>7. \A d \in DOMAIN eventDispatchers : conn = eventDispatchers[d] => thread[d].at = "none"
    BY <2>2 DEF RegisteredOK
  <2>8. QED
    BY <2>4, <2>5, <2>6, <2>7 DEF LoansAreAccountedFor
<1>2. QED
  BY <1>1, EventsInvariant, PTL

\* The condition of RemovedIsSilent on a step.
CalledWhileRegistered ==
    \A l \in Listener :
        heard'[l] # heard[l] /\ heard'[l] # << >> => l \in DOMAIN eventDispatchers

\* A step that calls a client listener is its dispatcher's, or reads an event that came
\* before the answer to its registration.
LEMMA HeardWhileRegistered == EventsInv /\ Next => CalledWhileRegistered
<1>1. SUFFICES ASSUME EventsInv, Next, heard' # heard PROVE CalledWhileRegistered
  BY DEF CalledWhileRegistered
<1>2. DOMAIN heard = Listener
  BY <1>1 DEF EventsInv, Types
<1>3. ASSUME NEW d \in Id, HandleEvent(d) PROVE CalledWhileRegistered
  <2>1. d \in DOMAIN eventDispatchers
    BY <1>1, <1>3 DEF EventsInv, RunningOK, HandleEvent
  <2>2. heard' = [heard EXCEPT ![d] = Append(@, thread[d].event)]
    BY <1>1, <1>3 DEF HandleEvent, processEvent
  <2>3. QED
    BY <1>2, <2>1, <2>2 DEF CalledWhileRegistered
<1>4. ASSUME flush PROVE CalledWhileRegistered
  <2>1. heard' = [heard EXCEPT ![call.l] = << >>]
    BY <1>1, <1>4 DEF flush, addClientListener_Notifier
  <2>2. QED
    BY <1>2, <2>1 DEF CalledWhileRegistered
<1>5. ASSUME readAnswer PROVE CalledWhileRegistered
  <2>1. PICK m : Waiting /\ answer_addClientListener(call.l, m)
    BY <1>1, <1>5 DEF readAnswer, answer_removeClientListener
  <2>2. call.op = "addClientListener" /\ pc \in {"sent", "served"}
    BY <2>1 DEF answer_addClientListener, Waiting
  <2>3. call.l \in DOMAIN eventDispatchers
    BY <1>1, <2>2 DEF EventsInv, PlaceOK, RegisteredOK
  <2>4. heard' = [heard EXCEPT ![call.l] = Append(@, m)]
    BY <1>1, <2>1 DEF answer_addClientListener, processImmediateEvent, processEvent
  <2>5. QED
    BY <1>2, <2>3, <2>4 DEF CalledWhileRegistered
<1>6. ASSUME NEW d \in Id, \/ ReadEvent(d) \/ ReadFails(d) \/ Recover(d) \/ ReadTimesOut(d)
      PROVE  FALSE
  BY <1>1, <1>6 DEF ReadEvent, ReadFails, ReadTimesOut, ReadThrows, Recover, history
<1>7. ~NewCall
  BY <1>1 DEF NewCall, addClientListener, removeClientListener, defineCounter, getCounter,
     getConfiguration, removeCounter, addAndGet, compareAndSwap, reset, getValue,
     BaseCounterImpl_remove, CounterCall, addListener, removeListener, stop, start, Remote,
     history
<1>8. ~ \/ getTransport \/ connectionLost \/ stopDispatcher \/ removeJoined
        \/ counterJoined \/ stopJoined \/ stopped \/ getTransportFails \/ answerTimesOut
  BY <1>1 DEF getTransport, connectionLost, transportException, stopDispatcher, removeJoined,
     counterJoined, stopJoined, stopped, getTransportFails, answerTimesOut, history
<1>9. ~ \/ Serve
        \/ \E n \in Conn : Drop(n)
        \/ \E l \in Listener : SendEvent(l)
        \/ \E c \in Counter : OtherClient(c)
  BY <1>1 DEF Serve, Drop, SendEvent, OtherClient, history
<1>10. QED
  BY <1>1, <1>3, <1>4, <1>5, <1>6, <1>7, <1>8, <1>9 DEF Next, Application, Dispatcher

\* A client listener is called only while it is registered, so not after
\* removeClientListener has returned, nor after a registration that failed.
THEOREM RemovedListenersAreSilent == Spec => RemovedIsSilent
<1>1. EventsInv /\ [Next]_vars => [CalledWhileRegistered]_vars
  BY HeardWhileRegistered
<1>2. QED
  BY <1>1, EventsInvariant, PTL DEF Spec, RemovedIsSilent, CalledWhileRegistered

-----------------------------------------------------------------------------
(* What is on its way on a connection *)

\* The events of client listeners.
EventMsg == [k : EventType, x : Seq(Nat)]

\* The response that accepts a registration.
Accept == Status(NO_ERROR_STATUS, <<>>)

\* 1 if there is a response among the messages, at p, and 0 if there is none.
Extra(p) == IF p = 0 THEN 0 ELSE 1

\* A listener that has handled h of what was sent to it, s, finds the rest, or the first
\* part of the rest, in q, with the response at p.
Stream(h, q, p, s) ==
    /\ h \in Seq(EventMsg) /\ s \in Seq(EventMsg) /\ q \in Seq(EventMsg \cup {Accept})
    /\ p \in 0 .. Len(q)
    /\ p # 0 => q[p] = Accept
    /\ \A i \in 1 .. Len(q) : i # p => q[i] \in EventMsg
    /\ \A i \in 1 .. Len(h) : h[i] = s[i]
    /\ \A i \in 1 .. Len(q) : (p = 0 \/ i < p) => q[i] = s[Len(h) + i]
    /\ \A i \in 1 .. Len(q) : p # 0 /\ i > p => q[i] = s[Len(h) + i - 1]
    /\ Len(h) + Len(q) <= Len(s) + Extra(p)

\* It finds all of the rest.
Complete(h, q, p, s) == Len(h) + Len(q) = Len(s) + Extra(p)

\* Events and responses are told apart.
LEMMA AcceptIsNoEvent ==
    /\ Accept.k = "response" /\ Accept.x = << NO_ERROR_STATUS, << >> >>
    /\ Accept \notin EventMsg
    /\ \A m \in EventMsg : isEvent(m) /\ m.k # "response" /\ m.k # "error" /\ m.k # "counter"
    /\ ~isEvent(Accept)
<1>1. Accept.k = "response" /\ Accept.x = << NO_ERROR_STATUS, << >> >>
  BY DEF Accept, Status, Msg
<1>2. \A m \in EventMsg : isEvent(m) /\ m.k # "response" /\ m.k # "error" /\ m.k # "counter"
  BY DEF EventMsg, isEvent, EventType
<1>3. QED
  BY <1>1, <1>2 DEF isEvent, EventType

\* An event is a message of the type.
LEMMA EventIs ==
    ASSUME NEW t \in EventType, NEW i \in Nat
    PROVE  Msg(t, <<i>>) \in EventMsg /\ Msg(t, <<i>>).k = t
<1>1. <<i>> \in Seq(Nat)
  OBVIOUS
<1>2. QED
  BY <1>1 DEF Msg, EventMsg

\* A lost connection keeps the first part of its messages.
LEMMA CutStream ==
    ASSUME NEW h, NEW q, NEW p, NEW s, Stream(h, q, p, s), NEW k \in 0 .. Len(q)
    PROVE  Stream(h, SubSeq(q, 1, k), IF p <= k THEN p ELSE 0, s)
<1>1. /\ q \in Seq(EventMsg \cup {Accept}) /\ Len(q) \in Nat /\ p \in 0 .. Len(q)
      /\ Len(h) \in Nat /\ Len(s) \in Nat
  BY DEF Stream
<1>2. PICK r : r = SubSeq(q, 1, k)
  OBVIOUS
<1>3. /\ r \in Seq(EventMsg \cup {Accept}) /\ Len(r) = k
      /\ \A i \in 1 .. k : r[i] = q[i]
  BY <1>1, <1>2, SubSeqProperties
<1>4. \A i \in 1 .. k : i \in 1 .. Len(q)
  BY <1>1
<1>5. ASSUME p <= k PROVE Stream(h, r, p, s)
  <2>1. Len(h) + k <= Len(s) + Extra(p)
    BY <1>1 DEF Stream, Extra
  <2>2. QED
    <3>1. p \in 0 .. Len(r) /\ (p # 0 => r[p] = Accept)
      BY <1>1, <1>3, <1>5 DEF Stream
    <3>2. \A i \in 1 .. Len(r) : i # p => r[i] \in EventMsg
      BY <1>3, <1>4 DEF Stream
    <3>3. \A i \in 1 .. Len(r) : /\ (p = 0 \/ i < p) => r[i] = s[Len(h) + i]
                                 /\ p # 0 /\ i > p => r[i] = s[Len(h) + i - 1]
      BY <1>3, <1>4 DEF Stream
    <3>4. QED
      BY <1>1, <1>3, <2>1, <3>1, <3>2, <3>3 DEF Stream
<1>6. ASSUME p > k PROVE Stream(h, r, 0, s)
  <2>1. Len(h) + k <= Len(s) + Extra(0) /\ p # 0
    BY <1>1, <1>6 DEF Stream, Extra
  <2>2. \A i \in 1 .. k : i < p /\ i # p
    BY <1>1, <1>6
  <2>3. \A i \in 1 .. k : r[i] \in EventMsg /\ r[i] = s[Len(h) + i]
    BY <1>3, <1>4, <2>2 DEF Stream
  <2>4. QED
    BY <1>1, <1>3, <2>1, <2>3 DEF Stream
<1>7. QED
  BY <1>1, <1>2, <1>5, <1>6

\* The server sends one more event.
LEMMA AppendStream ==
    ASSUME NEW h, NEW q, NEW p, NEW s, Stream(h, q, p, s), Complete(h, q, p, s),
           NEW e \in EventMsg
    PROVE  Stream(h, Append(q, e), p, Append(s, e)) /\ Complete(h, Append(q, e), p, Append(s, e))
<1>1. /\ q \in Seq(EventMsg \cup {Accept}) /\ Len(q) \in Nat /\ p \in 0 .. Len(q)
      /\ s \in Seq(EventMsg) /\ h \in Seq(EventMsg) /\ Len(h) \in Nat /\ Len(s) \in Nat
  BY DEF Stream
<1>2. PICK r, t : r = Append(q, e) /\ t = Append(s, e)
  OBVIOUS
<1>3. /\ r \in Seq(EventMsg \cup {Accept}) /\ Len(r) = Len(q) + 1
      /\ \A i \in 1 .. Len(q) : r[i] = q[i]
      /\ r[Len(q) + 1] = e
  BY <1>1, <1>2
<1>4. /\ t \in Seq(EventMsg) /\ Len(t) = Len(s) + 1
      /\ \A i \in 1 .. Len(s) : t[i] = s[i]
      /\ t[Len(s) + 1] = e
  BY <1>1, <1>2
<1>5. Complete(h, r, p, t)
  <2>1. Extra(p) \in {0, 1} /\ Len(h) + Len(q) = Len(s) + Extra(p)
    BY DEF Complete, Extra
  <2>2. Len(h) + (Len(q) + 1) = (Len(s) + 1) + Extra(p)
    BY <1>1, <2>1
  <2>3. QED
    BY <1>3, <1>4, <2>2 DEF Complete
<1>6. \A i \in 1 .. Len(h) : i \in 1 .. Len(s)
  BY <1>1 DEF Stream, Complete, Extra
<1>7. \A i \in 1 .. Len(q) : (p = 0 \/ i < p) => Len(h) + i \in 1 .. Len(s)
  BY <1>1 DEF Complete, Extra
<1>8. \A i \in 1 .. Len(q) : p # 0 /\ i > p => Len(h) + i - 1 \in 1 .. Len(s)
  BY <1>1 DEF Complete, Extra
<1>9. \A i \in 1 .. Len(r) : i = Len(q) + 1 \/ i \in 1 .. Len(q)
  BY <1>1, <1>3
<1>10. \A i \in 1 .. Len(r) : (p = 0 \/ i < p) => r[i] = t[Len(h) + i]
  <2>1. ASSUME NEW i \in 1 .. Len(q), p = 0 \/ i < p PROVE r[i] = t[Len(h) + i]
    BY <1>3, <1>4, <1>7, <2>1 DEF Stream
  <2>2. p = 0 => Len(h) + (Len(q) + 1) = Len(s) + 1
    BY <1>1 DEF Complete, Extra
  <2>3. ~(Len(q) + 1 < p)
    BY <1>1
  <2>4. QED
    BY <1>3, <1>4, <1>9, <2>1, <2>2, <2>3
<1>11. \A i \in 1 .. Len(r) : p # 0 /\ i > p => r[i] = t[Len(h) + i - 1]
  <2>1. ASSUME NEW i \in 1 .. Len(q), p # 0, i > p PROVE r[i] = t[Len(h) + i - 1]
    BY <1>1, <1>3, <1>4, <1>8, <2>1 DEF Stream
  <2>2. ASSUME p # 0 PROVE Len(h) + (Len(q) + 1) - 1 = Len(s) + 1
    BY <1>1, <2>2 DEF Complete, Extra
  <2>3. QED
    BY <1>1, <1>3, <1>4, <1>9, <2>1, <2>2
<1>12. \A i \in 1 .. Len(r) : i # p => r[i] \in EventMsg
  BY <1>1, <1>3, <1>9 DEF Stream
<1>13. (\A i \in 1 .. Len(h) : h[i] = t[i]) /\ (p # 0 => r[p] = Accept) /\ p \in 0 .. Len(r)
  BY <1>1, <1>3, <1>4, <1>6 DEF Stream
<1>14. Stream(h, r, p, t)
  BY <1>1, <1>3, <1>4, <1>5, <1>10, <1>11, <1>12, <1>13 DEF Stream, Complete
<1>15. QED
  BY <1>2, <1>5, <1>14

\* What is left of a sequence without its first element.
LEMMA TailIs ==
    ASSUME NEW S, NEW q \in Seq(S), q # <<>>
    PROVE  /\ SubSeq(q, 2, Len(q)) = Tail(q)
           /\ Tail(q) \in Seq(S) /\ Len(Tail(q)) = Len(q) - 1 /\ Len(q) \in Nat /\ Len(q) >= 1
           /\ \A i \in 1 .. Len(q) - 1 : Tail(q)[i] = q[i + 1]
           /\ Head(q) = q[1] /\ Head(q) \in S
<1>1. Len(q) \in Nat /\ Len(q) >= 1 /\ q[1] \in S /\ Head(q) = q[1]
  OBVIOUS
<1>2. /\ Tail(q) \in Seq(S) /\ Len(Tail(q)) = Len(q) - 1
      /\ \A i \in 1 .. Len(q) - 1 : Tail(q)[i] = q[i + 1]
  BY <1>1
<1>3. SubSeq(q, 2, Len(q)) = Tail(q)
  <2>1. PICK r : r = SubSeq(q, 2, Len(q))
    OBVIOUS
  <2>2. /\ r \in Seq(S) /\ Len(r) = Len(q) - 1
        /\ \A i \in 1 .. Len(q) - 1 : r[i] = q[i + 1]
    <3>1. /\ r \in Seq(S) /\ Len(r) = Len(q) - 2 + 1
          /\ \A i \in 1 .. Len(q) - 2 + 1 : r[i] = q[2 + i - 1]
      <4>1. Len(q) \in Int /\ 2 \in Int /\ \A i \in 2 .. Len(q) : q[i] \in S
        BY <1>1
      <4>2. /\ r \in Seq(S) /\ Len(r) = IF 2 <= Len(q) THEN Len(q) - 2 + 1 ELSE 0
            /\ \A i \in 1 .. Len(q) - 2 + 1 : r[i] = q[2 + i - 1]
        BY <2>1, <4>1, SubSeqProperties
      <4>3. CASE 2 <= Len(q)
        BY <4>2, <4>3
      <4>4. CASE Len(q) = 1
        BY <4>2, <4>4
      <4>5. \A n \in Nat : n >= 1 => n = 1 \/ 2 <= n
        OBVIOUS
      <4>6. Len(q) = 1 \/ 2 <= Len(q)
        BY <1>1, <4>5
      <4>7. QED
        BY <4>3, <4>4, <4>6, Zenon
    <3>2. Len(q) - 2 + 1 = Len(q) - 1 /\ \A i \in 1 .. Len(q) - 1 : 2 + i - 1 = i + 1
      BY <1>1
    <3>3. QED
      BY <3>1, <3>2
  <2>3. PICK t : t = Tail(q)
    OBVIOUS
  <2>4. Len(r) = Len(t) /\ \A i \in 1 .. Len(r) : r[i] = t[i]
    BY <1>2, <2>2, <2>3
  <2>5. r = t
    BY <1>2, <2>2, <2>3, <2>4, SeqEqual
  <2>6. QED
    BY <2>1, <2>3, <2>5
<1>4. QED
  BY <1>1, <1>2, <1>3

\* An event is taken to be handled.
LEMMA TakeStream ==
    ASSUME NEW h, NEW q, NEW p, NEW s, Stream(h, q, p, s), q # <<>>, p # 1
    PROVE  /\ Stream(Append(h, Head(q)), Tail(q), IF p = 0 THEN 0 ELSE p - 1, s)
           /\ Complete(h, q, p, s) =>
                Complete(Append(h, Head(q)), Tail(q), IF p = 0 THEN 0 ELSE p - 1, s)
           /\ Head(q) \in EventMsg
<1>1. /\ q \in Seq(EventMsg \cup {Accept}) /\ Len(q) \in Nat /\ p \in 0 .. Len(q)
      /\ s \in Seq(EventMsg) /\ h \in Seq(EventMsg) /\ Len(h) \in Nat /\ Len(s) \in Nat
  BY DEF Stream
<1>2. PICK r, g, e : r = Tail(q) /\ g = Append(h, Head(q)) /\ e = Head(q)
  OBVIOUS
<1>3. /\ r \in Seq(EventMsg \cup {Accept}) /\ Len(r) = Len(q) - 1 /\ Len(q) >= 1
      /\ \A i \in 1 .. Len(q) - 1 : r[i] = q[i + 1]
      /\ e = q[1]
  BY <1>1, <1>2, TailIs
<1>4. e \in EventMsg /\ e = s[Len(h) + 1]
  BY <1>1, <1>3 DEF Stream
<1>5. /\ g \in Seq(EventMsg) /\ Len(g) = Len(h) + 1
      /\ \A i \in 1 .. Len(h) : g[i] = h[i]
      /\ g[Len(h) + 1] = e
  BY <1>1, <1>2, <1>4
<1>6. PICK o : o = IF p = 0 THEN 0 ELSE p - 1
  OBVIOUS
<1>7. o \in 0 .. Len(r) /\ Extra(o) = Extra(p) /\ (o # 0 => p = o + 1) /\ (o = 0 => p = 0)
  BY <1>1, <1>3, <1>6 DEF Extra
<1>8. \A i \in 1 .. Len(g) : g[i] = s[i]
  BY <1>1, <1>4, <1>5 DEF Stream
<1>9. \A i \in 1 .. Len(r) : i + 1 \in 1 .. Len(q) /\ r[i] = q[i + 1]
  BY <1>1, <1>3
<1>10. \A i \in 1 .. Len(r) : (o = 0 \/ i < o) => r[i] = s[Len(g) + i]
  <2>1. ASSUME NEW i \in 1 .. Len(r), o = 0 \/ i < o PROVE r[i] = s[Len(g) + i]
    <3>1. p = 0 \/ i + 1 < p
      BY <1>1, <1>3, <1>7, <2>1
    <3>2. r[i] = s[Len(h) + (i + 1)]
      BY <1>9, <3>1 DEF Stream
    <3>3. QED
      BY <1>1, <1>3, <1>5, <3>2
  <2>2. QED
    BY <2>1
<1>11. \A i \in 1 .. Len(r) : o # 0 /\ i > o => r[i] = s[Len(g) + i - 1]
  <2>1. ASSUME NEW i \in 1 .. Len(r), o # 0, i > o PROVE r[i] = s[Len(g) + i - 1]
    <3>1. p # 0 /\ i + 1 > p
      BY <1>1, <1>3, <1>7, <2>1
    <3>2. r[i] = s[Len(h) + (i + 1) - 1]
      BY <1>9, <3>1 DEF Stream
    <3>3. QED
      BY <1>1, <1>3, <1>5, <3>2
  <2>2. QED
    BY <2>1
<1>12. \A i \in 1 .. Len(r) : i # o => r[i] \in EventMsg
  <2>1. ASSUME NEW i \in 1 .. Len(r), i # o PROVE r[i] \in EventMsg
    <3>1. i + 1 # p
      BY <1>1, <1>3, <1>7, <2>1
    <3>2. QED
      BY <1>9, <3>1 DEF Stream
  <2>2. QED
    BY <2>1
<1>13. (o # 0 => r[o] = Accept)
  BY <1>1, <1>3, <1>7 DEF Stream
<1>14. Stream(g, r, o, s)
  BY <1>1, <1>3, <1>5, <1>7, <1>8, <1>10, <1>11, <1>12, <1>13 DEF Stream
<1>15. Complete(h, q, p, s) => Complete(g, r, o, s)
  BY <1>1, <1>3, <1>5, <1>7 DEF Complete
<1>16. QED
  BY <1>2, <1>4, <1>6, <1>14, <1>15

\* The response is taken.
LEMMA AcceptStream ==
    ASSUME NEW h, NEW q, NEW s, Stream(h, q, 1, s)
    PROVE  /\ Stream(h, Tail(q), 0, s) /\ Tail(q) \in Seq(EventMsg)
           /\ Complete(h, q, 1, s) => Complete(h, Tail(q), 0, s)
<1>1. /\ q \in Seq(EventMsg \cup {Accept}) /\ Len(q) \in Nat /\ Len(q) >= 1
      /\ s \in Seq(EventMsg) /\ h \in Seq(EventMsg) /\ Len(h) \in Nat /\ Len(s) \in Nat
  BY DEF Stream
<1>2. PICK r : r = Tail(q)
  OBVIOUS
<1>3. /\ r \in Seq(EventMsg \cup {Accept}) /\ Len(r) = Len(q) - 1
      /\ \A i \in 1 .. Len(q) - 1 : r[i] = q[i + 1]
  <2>1. q # <<>>
    BY <1>1
  <2>2. QED
    BY <1>1, <1>2, <2>1, TailIs
<1>4. \A i \in 1 .. Len(r) : /\ r[i] = q[i + 1] /\ i + 1 \in 1 .. Len(q) /\ i + 1 > 1
                             /\ Len(h) + (i + 1) - 1 = Len(h) + i
  BY <1>1, <1>3
<1>5. \A i \in 1 .. Len(r) : r[i] \in EventMsg /\ r[i] = s[Len(h) + i]
  <2>1. \A j \in 1 .. Len(q) : j > 1 => q[j] \in EventMsg /\ q[j] = s[Len(h) + j - 1]
    BY <1>1 DEF Stream
  <2>2. QED
    BY <1>4, <2>1
<1>6. r \in Seq(EventMsg)
  BY <1>3, <1>5, SeqDef
<1>7. Stream(h, r, 0, s)
  BY <1>1, <1>3, <1>5, <1>6 DEF Stream, Extra
<1>8. Complete(h, q, 1, s) => Complete(h, r, 0, s)
  BY <1>1, <1>3 DEF Complete, Extra
<1>9. QED
  BY <1>2, <1>6, <1>7, <1>8

\* What a listener finds that is being registered: all of what was sent to it and the
\* response, if the connection is open, and nothing of which processImmediateEvent leaves
\* a part unread.
RegisteringIs(h, q, s, state) ==
    \E p \in 0 .. Len(q) :
        /\ Stream(h, q, p, s)
        /\ state = "open" => p # 0 /\ Complete(h, q, p, s)
        /\ \A i \in 1 .. Len(q) : p = 0 \/ i < p => q[i].k # "expired"

\* What a registered listener's thread finds on connection n; `own' is the connection that
\* the server knows as the listener's.
RegisteredIs(h, q, s, own, n, state) ==
    /\ q \in Seq(EventMsg)
    /\ own = n => Stream(h, q, 0, s) /\ (state = "open" => Complete(h, q, 0, s))

\* What the registration of a counter listener finds: events only behind the response.
AcceptingIs(q, state) ==
    /\ \E S : q \in Seq(S)
    /\ q # <<>> => q[1] = Accept
    /\ state = "open" => q # <<>>

Error == Msg("error", <<>>)

\* What other requests find: nothing yet, or one response; none that accepts a registration.
OneAnswer(op, q) ==
    \/ q = <<>>
    \/ \E m : /\ q = <<m>>
              /\ \/ m = Error
                 \/ /\ m.k = "response"
                    /\ op = "addClientListener" => ~isSuccess(m.x[1])
                    /\ op = "addListener" => m.x[1] # NO_ERROR_STATUS

\* The connection of a registration is lost.
LEMMA RegisteringCut ==
    ASSUME NEW h, NEW q, NEW s, NEW st, RegisteringIs(h, q, s, st), NEW k \in 0 .. Len(q),
           NEW to, to # "open"
    PROVE  RegisteringIs(h, SubSeq(q, 1, k), s, to)
<1>1. PICK p \in 0 .. Len(q) : /\ Stream(h, q, p, s)
                               /\ \A i \in 1 .. Len(q) : p = 0 \/ i < p => q[i].k # "expired"
  BY DEF RegisteringIs
<1>2. PICK r, j : r = SubSeq(q, 1, k) /\ j = IF p <= k THEN p ELSE 0
  OBVIOUS
<1>3. Stream(h, r, j, s)
  BY <1>1, <1>2, CutStream
<1>4. Len(r) = k /\ Len(q) \in Nat /\ k \in 0 .. Len(q) /\ \A i \in 1 .. k : r[i] = q[i]
  <2>1. q \in Seq(EventMsg \cup {Accept})
    BY <1>1 DEF Stream
  <2>2. QED
    BY <1>2, <2>1, SubSeqProperties
<1>5. \A i \in 1 .. Len(r) : j = 0 \/ i < j => i \in 1 .. Len(q) /\ (p = 0 \/ i < p)
  BY <1>1, <1>2, <1>4
<1>6. j \in 0 .. Len(r)
  BY <1>3 DEF Stream
<1>7. QED
  BY <1>1, <1>2, <1>3, <1>4, <1>5, <1>6 DEF RegisteringIs

\* One more event behind the response.
LEMMA RegisteringMore ==
    ASSUME NEW h, NEW q, NEW s, RegisteringIs(h, q, s, "open"), NEW e \in EventMsg
    PROVE  RegisteringIs(h, Append(q, e), Append(s, e), "open")
<1>1. PICK p \in 0 .. Len(q) : /\ Stream(h, q, p, s) /\ p # 0 /\ Complete(h, q, p, s)
                               /\ \A i \in 1 .. Len(q) : p = 0 \/ i < p => q[i].k # "expired"
  BY DEF RegisteringIs
<1>2. PICK r : r = Append(q, e)
  OBVIOUS
<1>3. Stream(h, r, p, Append(s, e)) /\ Complete(h, r, p, Append(s, e))
  BY <1>1, <1>2, AppendStream
<1>4. Len(r) = Len(q) + 1 /\ Len(q) \in Nat /\ \A i \in 1 .. Len(q) : r[i] = q[i]
  <2>1. q \in Seq(EventMsg \cup {Accept})
    BY <1>1 DEF Stream
  <2>2. QED
    BY <1>2, <2>1
<1>5. \A i \in 1 .. Len(r) : i < p => i \in 1 .. Len(q)
  BY <1>1, <1>4
<1>6. p \in 0 .. Len(r)
  BY <1>3 DEF Stream
<1>7. QED
  BY <1>1, <1>2, <1>3, <1>4, <1>5, <1>6 DEF RegisteringIs

\* The first message is an event to be handled, or the response, after which the thread
\* goes on.
LEMMA RegisteringTake ==
    ASSUME NEW h, NEW q, NEW s, NEW st, RegisteringIs(h, q, s, st), q # <<>>, NEW n
    PROVE  /\ SubSeq(q, 2, Len(q)) = Tail(q)
           /\ \/ /\ Head(q) \in EventMsg /\ Head(q).k # "expired"
                 /\ RegisteringIs(Append(h, Head(q)), Tail(q), s, st)
              \/ /\ Head(q) = Accept
                 /\ RegisteredIs(h, Tail(q), s, n, n, st)
<1>1. PICK p \in 0 .. Len(q) : /\ Stream(h, q, p, s)
                               /\ st = "open" => p # 0 /\ Complete(h, q, p, s)
                               /\ \A i \in 1 .. Len(q) : p = 0 \/ i < p => q[i].k # "expired"
  BY DEF RegisteringIs
<1>2. q \in Seq(EventMsg \cup {Accept})
  BY <1>1 DEF Stream
<1>3. /\ SubSeq(q, 2, Len(q)) = Tail(q) /\ Len(Tail(q)) = Len(q) - 1 /\ Len(q) \in Nat
      /\ Len(q) >= 1 /\ Head(q) = q[1]
      /\ \A i \in 1 .. Len(q) - 1 : Tail(q)[i] = q[i + 1]
  BY <1>2, TailIs
<1>4. CASE p = 1
  <2>1. Head(q) = Accept
    BY <1>1, <1>3, <1>4 DEF Stream
  <2>2. RegisteredIs(h, Tail(q), s, n, n, st)
    BY <1>1, <1>4, AcceptStream DEF RegisteredIs
  <2>3. QED
    BY <1>3, <2>1, <2>2
<1>5. CASE p # 1
  <2>1. PICK r, g, j : r = Tail(q) /\ g = Append(h, Head(q)) /\ j = IF p = 0 THEN 0 ELSE p - 1
    OBVIOUS
  <2>2. /\ Stream(g, r, j, s) /\ (Complete(h, q, p, s) => Complete(g, r, j, s))
        /\ Head(q) \in EventMsg
    BY <1>1, <1>5, <2>1, TakeStream
  <2>3. Head(q).k # "expired"
    BY <1>1, <1>3, <1>5
  <2>4. \A i \in 1 .. Len(r) : j = 0 \/ i < j =>
            r[i] = q[i + 1] /\ i + 1 \in 1 .. Len(q) /\ (p = 0 \/ i + 1 < p)
    BY <1>1, <1>3, <1>5, <2>1
  <2>5. j \in 0 .. Len(r) /\ (p # 0 => j # 0)
    BY <1>1, <1>5, <2>1, <2>2 DEF Stream
  <2>6. RegisteringIs(g, r, s, st)
    BY <1>1, <2>2, <2>4, <2>5 DEF RegisteringIs
  <2>7. QED
    BY <1>3, <2>1, <2>2, <2>3, <2>6
<1>6. QED
  BY <1>4, <1>5

\* The connection of a registered listener is lost or shut down.
LEMMA RegisteredCut ==
    ASSUME NEW h, NEW q, NEW s, NEW own, NEW n, NEW st, RegisteredIs(h, q, s, own, n, st),
           NEW k \in 0 .. Len(q), NEW to, to # "open"
    PROVE  RegisteredIs(h, SubSeq(q, 1, k), s, own, n, to)
<1>1. q \in Seq(EventMsg) /\ Len(q) \in Nat
  BY DEF RegisteredIs
<1>2. SubSeq(q, 1, k) \in Seq(EventMsg)
  BY <1>1, SubSeqProperties
<1>3. own = n => Stream(h, SubSeq(q, 1, k), 0, s)
  <2>1. (IF 0 <= k THEN 0 ELSE 0) = 0
    OBVIOUS
  <2>2. QED
    BY <1>1, <2>1, CutStream DEF RegisteredIs
<1>4. QED
  BY <1>2, <1>3 DEF RegisteredIs

\* One more event.
LEMMA RegisteredMore ==
    ASSUME NEW h, NEW q, NEW s, NEW n, RegisteredIs(h, q, s, n, n, "open"), NEW e \in EventMsg
    PROVE  RegisteredIs(h, Append(q, e), Append(s, e), n, n, "open")
<1>1. q \in Seq(EventMsg) /\ Append(q, e) \in Seq(EventMsg)
  BY DEF RegisteredIs
<1>2. QED
  BY <1>1, AppendStream DEF RegisteredIs

\* The thread takes an event.
LEMMA RegisteredTake ==
    ASSUME NEW h, NEW q, NEW s, NEW own, NEW n, NEW st, RegisteredIs(h, q, s, own, n, st),
           q # <<>>
    PROVE  Head(q) \in EventMsg /\ RegisteredIs(Append(h, Head(q)), Tail(q), s, own, n, st)
<1>1. q \in Seq(EventMsg) /\ Tail(q) \in Seq(EventMsg) /\ Head(q) \in EventMsg
  BY TailIs DEF RegisteredIs
<1>2. ASSUME own = n
      PROVE  /\ Stream(Append(h, Head(q)), Tail(q), 0, s)
             /\ st = "open" => Complete(Append(h, Head(q)), Tail(q), 0, s)
  BY <1>2, TakeStream DEF RegisteredIs
<1>3. QED
  BY <1>1, <1>2 DEF RegisteredIs

\* The connection of a counter listener's registration is lost.
LEMMA AcceptingCut ==
    ASSUME NEW q, NEW st, AcceptingIs(q, st), NEW k \in 0 .. Len(q), NEW to, to # "open"
    PROVE  AcceptingIs(SubSeq(q, 1, k), to)
<1>1. PICK S : q \in Seq(S)
  BY DEF AcceptingIs
<1>2. PICK r : r = SubSeq(q, 1, k)
  OBVIOUS
<1>3. r \in Seq(S) /\ Len(r) = k /\ Len(q) \in Nat /\ \A i \in 1 .. k : r[i] = q[i]
  BY <1>1, <1>2, SubSeqProperties
<1>4. ASSUME r # <<>> PROVE r[1] = Accept
  <2>1. k >= 1 /\ q # <<>>
    BY <1>1, <1>3, <1>4
  <2>2. QED
    BY <1>3, <2>1 DEF AcceptingIs
<1>5. QED
  BY <1>2, <1>3, <1>4 DEF AcceptingIs

\* A counter's event behind the response.
LEMMA AcceptingMore ==
    ASSUME NEW q, NEW st, AcceptingIs(q, st), st = "open", NEW e
    PROVE  AcceptingIs(q \o <<e>>, "open")
<1>1. PICK S : q \in Seq(S) /\ q[1] = Accept /\ q # <<>>
  BY DEF AcceptingIs
<1>2. PICK T : T = S \cup {e}
  OBVIOUS
<1>3. q \in Seq(T) /\ <<e>> \in Seq(T) /\ q[1] = Accept /\ Len(q) >= 1
  BY <1>1, <1>2
<1>4. q \o <<e>> \in Seq(T) /\ (q \o <<e>>)[1] = Accept /\ q \o <<e>> # <<>>
  BY <1>3
<1>5. QED
  BY <1>4 DEF AcceptingIs

\* The connection of another request is lost.
LEMMA OneAnswerCut ==
    ASSUME NEW op, NEW q, OneAnswer(op, q), NEW k \in 0 .. Len(q)
    PROVE  OneAnswer(op, SubSeq(q, 1, k))
<1>1. CASE k = 0
  <2>1. SubSeq(q, 1, k) = <<>>
    BY <1>1, SubSeqEmpty
  <2>2. QED
    BY <2>1 DEF OneAnswer
<1>2. CASE q = <<>>
  BY <1>1, <1>2
<1>3. CASE k # 0 /\ q # <<>>
  <2>1. PICK m : q = <<m>>
    BY <1>3 DEF OneAnswer
  <2>2. Len(q) = 1 /\ k = 1
    BY <1>3, <2>1
  <2>3. PICK T : T = {m}
    OBVIOUS
  <2>4. q \in Seq(T)
    BY <2>1, <2>3
  <2>5. PICK r : r = SubSeq(q, 1, 1)
    OBVIOUS
  <2>6. r \in Seq(T) /\ Len(r) = 1 /\ r[1] = q[1]
    BY <2>2, <2>4, <2>5, SubSeqProperties
  <2>7. r = q
    BY <2>2, <2>4, <2>6, SeqEqual
  <2>8. QED
    BY <2>2, <2>5, <2>7
<1>4. QED
  BY <1>1, <1>2, <1>3

\* It is taken, and nothing is left.
LEMMA OneAnswerTaken ==
    ASSUME NEW op, NEW q, OneAnswer(op, q), q # <<>>
    PROVE  /\ SubSeq(q, 1 + 1, Len(q)) = <<>> /\ Tail(q) = <<>>
           /\ \/ Head(q) = Error
              \/ /\ Head(q).k = "response"
                 /\ op = "addClientListener" => ~isSuccess(Head(q).x[1])
                 /\ op = "addListener" => Head(q).x[1] # NO_ERROR_STATUS
<1>1. PICK m : /\ q = <<m>>
               /\ \/ m = Error
                  \/ /\ m.k = "response"
                     /\ op = "addClientListener" => ~isSuccess(m.x[1])
                     /\ op = "addListener" => m.x[1] # NO_ERROR_STATUS
  BY DEF OneAnswer
<1>2. Len(q) = 1 /\ Head(q) = m
  BY <1>1
<1>3. Tail(q) = <<>>
  BY <1>1
<1>4. SubSeq(q, 1 + 1, Len(q)) = <<>>
  <2>1. 1 + 1 > Len(q) /\ 1 + 1 \in Int /\ Len(q) \in Int
    BY <1>2
  <2>2. QED
    BY <2>1, SubSeqEmpty
<1>5. QED
  BY <1>1, <1>2, <1>3, <1>4

-----------------------------------------------------------------------------
(* The calls and the lists of counter listeners *)

CounterOps ==
    {"defineCounter", "getStrongCounter", "getWeakCounter", "getConfiguration", "removeCounter",
     "addAndGet", "compareAndSwap", "reset", "getValue", "remove", "addListener",
     "removeListener"}

Requesting == {"borrow", "send", "sent", "served"}

\* Which calls make requests, and that a listener is announced only when there is no
\* dispatcher: one that is there has listeners, but while the last of them is removed.
CallsOK ==
    /\ pc \in Requesting => call.op \in CounterOps \cup {"addClientListener", "removeClientListener"}
    /\ call.op \in CounterOps => call.c \in Counter
    /\ call.op = "addListener" => counterDispatcher = None
    /\ \A c \in DOMAIN listeners : listeners[c] \in Seq(Handle \cup {None})
    /\ counterDispatcher # None =>
        \/ call.op = "removeListener" /\ pc \in {"stopping", "join"}
        \/ \A c \in Counter : c \in DOMAIN listeners /\ listeners[c] # <<>>

\* A step of a request that leaves the lists alone.
LEMMA RequestGoesOn ==
    ASSUME CallsOK, UNCHANGED <<counterDispatcher, listeners>>,
           \/ pc' = "idle" /\ call' = NoCall /\ call.op # "removeListener"
           \/ pc' = "idle" /\ call' = NoCall /\ pc \in Requesting \cup {"idle"}
           \/ call' = call /\ pc' \in Requesting /\ pc \in Requesting
           \/ UNCHANGED <<call, pc>>
    PROVE  CallsOK'
<1>1. NoCall.op = "none"
  BY DEF NoCall
<1>2. QED
  BY <1>1 DEF CallsOK, Requesting, CounterOps

\* The end of an attempt or of a call.
LEMMA AttemptEnded ==
    ASSUME Retry \/ (\E k, v : Return(k, v))
    PROVE  \/ pc' = "idle" /\ call' = NoCall
           \/ pc' = "borrow" /\ call' = call
BY DEF Retry, Return

\* The list of a counter's listeners.
LEMMA getListenersIs ==
    ASSUME CallsOK, NEW c, NEW h \in Handle \cup {None}
    PROVE  /\ getListeners(c) \in Seq(Handle \cup {None})
           /\ Append(getListeners(c), h) \in Seq(Handle \cup {None})
           /\ Append(getListeners(c), h) # <<>>
<1>1. getListeners(c) \in Seq(Handle \cup {None})
  BY DEF getListeners, CallsOK
<1>2. PICK q : q = getListeners(c)
  OBVIOUS
<1>3. Append(q, h) \in Seq(Handle \cup {None}) /\ Len(Append(q, h)) = Len(q) + 1 /\ Len(q) \in Nat
  BY <1>1, <1>2
<1>4. Append(q, h) # <<>>
  BY <1>3
<1>5. QED
  BY <1>1, <1>2, <1>3, <1>4

\* A call that makes a request.
RequestIs(r) ==
    /\ r.op \in CounterOps \cup {"addClientListener", "removeClientListener"}
    /\ r.op \in CounterOps => r.c \in Counter
    /\ r.op = "addListener" => counterDispatcher = None \/ getListeners(r.c) = <<>>
    /\ r.op = "defineCounter" => r.cfg \in Config
    /\ r.op = "compareAndSwap" => r.c \in DOMAIN counters

\* A call that makes none.
LocalIs ==
    /\ pc = "idle" /\ pc' = "idle" /\ call' = NoCall /\ report' = NoReport
    /\ \/ UNCHANGED listeners
       \/ \E c \in Counter, h \in Handle : listeners' = Listening(c, Append(getListeners(c), h))
    /\ UNCHANGED <<started, tries, conn, meant, events, pool, lent, socket, in, eventDispatchers,
                   thread, counterDispatcher, counters, leaked, subscribed, cell, sent, heard,
                   recovered>>

\* The calls are of these two kinds, or the manager's.
LEMMA NewCallIs ==
    ASSUME NewCall
    PROVE  (\E r : Remote(r) /\ RequestIs(r)) \/ LocalIs \/ stop \/ start
<1>1. ASSUME NEW op, NEW l, NEW c, NEW h, NEW cfg, NEW x, NEW y,
             NEW r, r \in {[NoCall EXCEPT !.op = op, !.c = c, !.cfg = cfg],
                           [NoCall EXCEPT !.op = op, !.c = c],
                           [NoCall EXCEPT !.op = op, !.c = c, !.x = x, !.y = y],
                           [NoCall EXCEPT !.op = op, !.c = c, !.h = h]}
      PROVE  r.op = op /\ r.c = c
  BY <1>1 DEF NoCall
<1>2. ASSUME NEW l \in Listener, addClientListener(l) \/ removeClientListener(l)
      PROVE  \E r : Remote(r) /\ RequestIs(r)
  <2>1. PICK op \in {"addClientListener", "removeClientListener"} :
            Remote([NoCall EXCEPT !.op = op, !.l = l])
    BY <1>2 DEF addClientListener, removeClientListener
  <2>2. PICK r : r = [NoCall EXCEPT !.op = op, !.l = l]
    OBVIOUS
  <2>3. r.op = op
    BY <2>2 DEF NoCall
  <2>4. QED
    BY <2>1, <2>2, <2>3 DEF RequestIs, CounterOps
<1>3. ASSUME NEW c \in Counter, defineCounter(c) PROVE \E r : Remote(r) /\ RequestIs(r)
  <2>1. PICK cfg \in Config : Remote([NoCall EXCEPT !.op = "defineCounter", !.c = c, !.cfg = cfg])
    BY <1>3 DEF defineCounter
  <2>2. PICK r : r = [NoCall EXCEPT !.op = "defineCounter", !.c = c, !.cfg = cfg]
    OBVIOUS
  <2>3. r.op = "defineCounter" /\ r.c = c /\ r.cfg = cfg
    BY <2>2 DEF NoCall
  <2>4. QED
    BY <2>1, <2>2, <2>3 DEF RequestIs, CounterOps
<1>4. ASSUME NEW c \in Counter, \/ getCounter(c, "getStrongCounter") \/ getCounter(c, "getWeakCounter")
                                \/ getConfiguration(c) \/ removeCounter(c)
      PROVE  \E r : Remote(r) /\ RequestIs(r)
  <2>1. PICK op \in {"getStrongCounter", "getWeakCounter", "getConfiguration", "removeCounter"} :
            Remote([NoCall EXCEPT !.op = op, !.c = c])
    BY <1>4 DEF getCounter, getConfiguration, removeCounter
  <2>2. PICK r : r = [NoCall EXCEPT !.op = op, !.c = c]
    OBVIOUS
  <2>3. r.op = op /\ r.c = c
    BY <2>2 DEF NoCall
  <2>4. QED
    BY <2>1, <2>2, <2>3 DEF RequestIs, CounterOps
<1>5. ASSUME NEW c \in Counter, \/ addAndGet(c) \/ compareAndSwap(c) \/ reset(c) \/ getValue(c)
                                \/ BaseCounterImpl_remove(c)
      PROVE  \E r : Remote(r) /\ RequestIs(r)
  <2>1. PICK op, xs, ys : /\ op \in {"addAndGet", "compareAndSwap", "reset", "getValue", "remove"}
                          /\ CounterCall(c, op, xs, ys)
    BY <1>5 DEF addAndGet, compareAndSwap, reset, getValue, BaseCounterImpl_remove
  <2>2. PICK x, y : /\ c \in DOMAIN counters
                    /\ Remote([NoCall EXCEPT !.op = op, !.c = c, !.x = x, !.y = y])
    BY <2>1 DEF CounterCall
  <2>3. PICK r : r = [NoCall EXCEPT !.op = op, !.c = c, !.x = x, !.y = y]
    OBVIOUS
  <2>4. r.op = op /\ r.c = c
    BY <2>3 DEF NoCall
  <2>5. QED
    BY <2>1, <2>2, <2>3, <2>4 DEF RequestIs, CounterOps
<1>6. ASSUME NEW c \in Counter, NEW h \in Handle, addListener(c, h) \/ removeListener(c, h)
      PROVE  (\E r : Remote(r) /\ RequestIs(r)) \/ LocalIs
  <2>1. PICK r : r = [NoCall EXCEPT !.op = "addListener", !.c = c, !.h = h]
    OBVIOUS
  <2>2. PICK e : e = [NoCall EXCEPT !.op = "removeListener", !.c = c, !.h = h]
    OBVIOUS
  <2>3. r.op = "addListener" /\ r.c = c /\ e.op = "removeListener" /\ e.c = c
    BY <2>1, <2>2 DEF NoCall
  <2>4. CASE addListener(c, h) /\ Remote(r)
    <3>1. counterDispatcher = None \/ getListeners(c) = <<>>
      BY <2>1, <2>3, <2>4 DEF addListener, Remote, Call
    <3>2. QED
      BY <2>3, <2>4, <3>1 DEF RequestIs, CounterOps
  <2>5. CASE addListener(c, h) /\ ~Remote(r)
    <3>1. /\ Call(r, "idle") /\ listeners' = Listening(c, Append(getListeners(c), h))
          /\ UNCHANGED <<started, links, eventDispatchers, thread, counterDispatcher,
                         counters, leaked, server, sent, heard, recovered>>
      BY <2>1, <2>5 DEF addListener
    <3>2. QED
      BY <3>1 DEF LocalIs, Call, links, server
  <2>6. CASE removeListener(c, h) /\ Remote(e)
    BY <2>3, <2>6 DEF RequestIs, CounterOps
  <2>7. CASE removeListener(c, h) /\ ~Remote(e)
    <3>1. /\ Call(e, "idle")
          /\ UNCHANGED <<started, links, eventDispatchers, thread, manager, server, sent, heard,
                         recovered>>
      BY <2>2, <2>7 DEF removeListener
    <3>2. QED
      BY <3>1 DEF LocalIs, Call, links, server, manager
  <2>8. QED
    BY <1>6, <2>4, <2>5, <2>6, <2>7
<1>7. QED
  BY <1>2, <1>3, <1>4, <1>5, <1>6 DEF NewCall

\* A new call.
LEMMA NewCallCalls ==
    ASSUME OneCounter, EventsInv, CallsOK, NewCall
    PROVE  CallsOK'
<1>1. pc = "idle" /\ call.op = "none"
  BY NewCallIs DEF EventsInv, PlaceOK, LocalIs, stop, start, Remote, Call
<1>2. /\ counterDispatcher # None =>
            \A c \in Counter : c \in DOMAIN listeners /\ listeners[c] # <<>>
      /\ \A c \in DOMAIN listeners : listeners[c] \in Seq(Handle \cup {None})
  BY <1>1 DEF CallsOK
<1>3. NoCall \in CallType /\ NoCall.op = "none"
  BY NoCallType
<1>4. ASSUME NEW r, Remote(r), RequestIs(r) PROVE CallsOK'
  <2>1. pc' = "borrow" /\ call' = r /\ UNCHANGED <<counterDispatcher, listeners>>
    BY <1>4 DEF Remote, Call, manager
  <2>2. r.op = "addListener" => counterDispatcher = None
    BY <1>2, <1>4 DEF RequestIs, getListeners, CounterOps
  <2>3. QED
    BY <1>2, <1>4, <2>1, <2>2 DEF CallsOK, RequestIs
<1>5. CASE LocalIs
  <2>1. pc' = "idle" /\ call' = NoCall /\ UNCHANGED counterDispatcher
    BY <1>5 DEF LocalIs
  <2>2. CASE UNCHANGED listeners
    BY <1>1, <2>1, <2>2, RequestGoesOn
  <2>3. CASE ~UNCHANGED listeners
    <3>1. PICK c \in Counter, h \in Handle : listeners' = Listening(c, Append(getListeners(c), h))
      BY <1>5, <2>3 DEF LocalIs
    <3>2. PICK q : q = Append(getListeners(c), h) /\ q \in Seq(Handle \cup {None}) /\ q # <<>>
      BY getListenersIs
    <3>3. /\ DOMAIN listeners' = DOMAIN listeners \cup {c}
          /\ \A k \in DOMAIN listeners' : listeners'[k] = IF k = c THEN q ELSE listeners[k]
      BY <3>1, <3>2 DEF Listening
    <3>4. \A k \in Counter : k \in DOMAIN listeners' /\ listeners'[k] # <<>>
      BY <3>2, <3>3 DEF OneCounter
    <3>5. \A k \in DOMAIN listeners' : listeners'[k] \in Seq(Handle \cup {None})
      BY <1>2, <3>2, <3>3
    <3>6. QED
      BY <1>3, <2>1, <3>4, <3>5 DEF CallsOK, Requesting, CounterOps
  <2>4. QED
    BY <2>2, <2>3
<1>6. CASE stop
  <2>1. PICK r : r = [NoCall EXCEPT !.op = "stop", !.todo = DOMAIN eventDispatchers]
    OBVIOUS
  <2>2. r.op = "stop" /\ pc' = "stopping" /\ call' = r /\ UNCHANGED <<counterDispatcher, listeners>>
    BY <1>6, <2>1 DEF stop, Call, NoCall, manager
  <2>3. QED
    BY <1>2, <2>2 DEF CallsOK, Requesting, CounterOps
<1>7. CASE start
  <2>1. pc' = "idle" /\ call' = NoCall /\ UNCHANGED <<counterDispatcher, listeners>>
    BY <1>7 DEF start, Call
  <2>2. QED
    BY <1>1, <2>1, RequestGoesOn
<1>8. QED
  BY <1>4, <1>5, <1>6, <1>7, NewCallIs

\* The answers.
LEMMA readAnswerCalls ==
    ASSUME OneCounter, EventsInv, CallsOK, readAnswer
    PROVE  CallsOK'
<1>1. Waiting /\ pc \in {"sent", "served"}
  BY DEF readAnswer, Waiting
<1>2. CASE /\ UNCHANGED <<counterDispatcher, listeners>>
           /\ Retry \/ (\E k, v : Return(k, v)) \/ UNCHANGED app
  BY <1>1, <1>2, AttemptEnded, RequestGoesOn DEF Requesting, app
<1>3. ASSUME NEW m, answer_addClientListener(call.l, m) PROVE CallsOK'
  BY <1>2, <1>3 DEF answer_addClientListener, manager
<1>4. ASSUME NEW m, answer_removeClientListener(call.l, m) PROVE CallsOK'
  <2>1. CASE pc' = "join" /\ UNCHANGED call
    <3>1. UNCHANGED <<counterDispatcher, listeners>> /\ call.op = "removeClientListener"
      BY <1>4 DEF answer_removeClientListener, manager
    <3>2. QED
      BY <1>1, <2>1, <3>1 DEF CallsOK, Requesting, CounterOps
  <2>2. CASE ~(pc' = "join" /\ UNCHANGED call)
    BY <1>2, <1>4, <2>2 DEF answer_removeClientListener, manager
  <2>3. QED
    BY <2>1, <2>2
<1>5. ASSUME NEW m, answer_exception(m) PROVE CallsOK'
  BY <1>2, <1>5 DEF answer_exception
<1>6. ASSUME NEW o, answer_counter(o) PROVE CallsOK'
  <2>1. (\E k, v : Return(k, v)) \/ Retry
    BY <1>6 DEF answer_counter
  <2>2. QED
    BY <1>2, <1>6, <2>1 DEF answer_counter
<1>7. ASSUME NEW o, answer_addListener(o) PROVE CallsOK'
  <2>1. call.op = "addListener" /\ Return("ret", o.val) /\ counterDispatcher = None /\ call.c \in Counter
    BY <1>7 DEF answer_addListener, CallsOK, CounterOps
  <2>2. pc' = "idle" /\ call' = NoCall /\ NoCall.op = "none"
    BY <2>1, NoCallType DEF Return
  <2>3. CASE o.val
    <3>1. listeners' = Listening(call.c, Append(getListeners(call.c), call.h))
      BY <1>7, <2>3 DEF answer_addListener
    <3>2. PICK q : /\ q = Append(getListeners(call.c), call.h)
                   /\ q \in Seq(Handle \cup {None}) /\ q # <<>>
      BY getListenersIs DEF EventsInv, Types, CallType
    <3>3. /\ DOMAIN listeners' = DOMAIN listeners \cup {call.c}
          /\ \A k \in DOMAIN listeners' : listeners'[k] = IF k = call.c THEN q ELSE listeners[k]
      BY <3>1, <3>2 DEF Listening
    <3>4. \A k \in Counter : k \in DOMAIN listeners' /\ listeners'[k] # <<>>
      BY <2>1, <3>2, <3>3 DEF OneCounter
    <3>5. \A k \in DOMAIN listeners' : listeners'[k] \in Seq(Handle \cup {None})
      BY <3>2, <3>3 DEF CallsOK
    <3>6. QED
      BY <2>2, <3>4, <3>5 DEF CallsOK, Requesting, CounterOps
  <2>4. CASE ~o.val
    <3>1. UNCHANGED <<listeners, counterDispatcher>>
      BY <1>7, <2>1, <2>4 DEF answer_addListener
    <3>2. QED
      BY <1>1, <2>2, <3>1, RequestGoesOn DEF Requesting
  <2>5. QED
    BY <2>3, <2>4
<1>8. ASSUME NEW o, answer_removeListener(o) PROVE CallsOK'
  <2>1. PICK left : /\ left = IF o.val THEN Without(listeners, call.c) ELSE listeners
                    /\ listeners' = left
    BY <1>8 DEF answer_removeListener
  <2>2. call.op = "removeListener" /\ UNCHANGED counterDispatcher /\ call.c \in Counter
    BY <1>8 DEF answer_removeListener, CallsOK, CounterOps
  <2>3. CASE DOMAIN left = {}
    <3>1. pc' = "stopping" /\ call' = [call EXCEPT !.todo = {counterDispatcher}]
      BY <1>8, <2>1, <2>3 DEF answer_removeListener
    <3>2. call'.op = "removeListener" /\ call'.c = call.c
      BY <2>2, <3>1 DEF EventsInv, Types, CallType
    <3>3. QED
      BY <2>1, <2>2, <2>3, <3>1, <3>2 DEF CallsOK, Requesting, CounterOps
  <2>4. CASE DOMAIN left # {}
    <3>1. Return("ret", 0)
      BY <1>8, <2>1, <2>4 DEF answer_removeListener
    <3>2. DOMAIN listeners \subseteq {call.c}
      BY <2>2 DEF OneCounter, EventsInv, Types
    <3>3. ~o.val
      BY <2>1, <2>4, <3>2 DEF Without
    <3>4. UNCHANGED listeners
      BY <2>1, <3>3
    <3>5. QED
      BY <1>2, <2>2, <3>1, <3>4
  <2>5. QED
    BY <2>3, <2>4
<1>9. QED
  <2>1. PICK m : \/ answer_addClientListener(call.l, m) \/ answer_removeClientListener(call.l, m)
                 \/ answer_exception(m)
                 \/ \E o : answer_counter(o) \/ answer_addListener(o) \/ answer_removeListener(o)
    BY DEF readAnswer
  <2>2. QED
    BY <1>3, <1>4, <1>5, <1>6, <1>7, <1>8, <2>1

\* Every step keeps the calls and lists in order.
LEMMA StepCalls ==
    ASSUME OneCounter, EventsInv, CallsOK, [Next]_vars
    PROVE  CallsOK'
<1>1. CASE UNCHANGED <<pc, call, counterDispatcher, listeners>>
  BY <1>1, RequestGoesOn
<1>2. CASE getTransport \/ flush \/ Serve
  <2>1. /\ call' = call /\ pc \in Requesting /\ pc' \in Requesting
        /\ UNCHANGED <<counterDispatcher, listeners>>
    BY <1>2 DEF getTransport, flush, Serve, manager, Requesting
  <2>2. QED
    BY <2>1, RequestGoesOn
<1>3. CASE connectionLost \/ answerTimesOut \/ getTransportFails
  <2>1. /\ Retry /\ pc \in Requesting /\ UNCHANGED <<counterDispatcher, listeners>>
    BY <1>3 DEF connectionLost, answerTimesOut, transportException, getTransportFails, manager,
       Requesting, Waiting
  <2>2. QED
    BY <2>1, AttemptEnded, RequestGoesOn DEF Requesting
<1>4. CASE stopDispatcher
  <2>1. PICK d : /\ call' = [call EXCEPT !.d = d] /\ pc = "stopping" /\ pc' = "join"
                 /\ UNCHANGED <<counterDispatcher, listeners>>
    BY <1>4 DEF stopDispatcher, manager
  <2>2. call'.op = call.op /\ call'.c = call.c
    BY <2>1 DEF EventsInv, Types, CallType
  <2>3. QED
    BY <2>1, <2>2 DEF CallsOK, Requesting
<1>5. CASE stopJoined
  <2>1. /\ call' = [call EXCEPT !.todo = @ \ {call.d}] /\ pc' = "stopping" /\ pc = "join"
        /\ call.op = "stop" /\ UNCHANGED <<counterDispatcher, listeners>>
    BY <1>5 DEF stopJoined, manager
  <2>2. call'.op = call.op /\ call'.c = call.c
    BY <2>1 DEF EventsInv, Types, CallType
  <2>3. QED
    BY <2>1, <2>2 DEF CallsOK, Requesting
<1>6. CASE removeJoined \/ stopped
  <2>1. /\ Return("ret", 0) /\ call.op # "removeListener"
        /\ UNCHANGED <<counterDispatcher, listeners>>
    BY <1>6 DEF removeJoined, stopped, manager
  <2>2. QED
    BY <2>1, RequestGoesOn DEF Return
<1>7. CASE counterJoined
  <2>1. Return("ret", 0) /\ counterDispatcher' = None /\ listeners' = <<>>
    BY <1>7 DEF counterJoined
  <2>2. pc' = "idle" /\ call' = NoCall /\ NoCall.op = "none" /\ DOMAIN listeners' = {}
    BY <2>1, NoCallType DEF Return
  <2>3. QED
    BY <2>1, <2>2 DEF CallsOK, Requesting, CounterOps
<1>8. ASSUME NEW d \in Id, Dispatcher(d) \/ ReadTimesOut(d) PROVE CallsOK'
  <2>1. UNCHANGED <<app, manager>>
    BY <1>8 DEF Dispatcher, ReadTimesOut, ReadEvent, HandleEvent, ReadFails, ReadThrows, Recover
  <2>2. QED
    BY <1>1, <2>1 DEF app, manager
<1>9. ASSUME \/ \E n \in Conn : Drop(n)
             \/ \E l \in Listener : SendEvent(l)
             \/ \E c \in Counter : OtherClient(c)
      PROVE  CallsOK'
  <2>1. UNCHANGED <<app, manager>>
    BY <1>9 DEF Drop, SendEvent, OtherClient
  <2>2. QED
    BY <1>1, <2>1 DEF app, manager
<1>10. CASE UNCHANGED vars
  BY <1>1, <1>10 DEF vars, app, manager
<1>11. QED
  BY <1>2, <1>3, <1>4, <1>5, <1>6, <1>7, <1>8, <1>9, <1>10, NewCallCalls, readAnswerCalls
     DEF Next, Application

-----------------------------------------------------------------------------
(* The invariant of the events' delivery *)

\* What a listener has been called with, and is about to.
Handled(l) ==
    IF thread[l].at = "handling" THEN Append(heard[l], thread[l].event) ELSE heard[l]

Sub == Listener \cup Counter

ShapesOK ==
    /\ DOMAIN in = Conn
    /\ subscribed \in [Sub -> Conn \cup {None}]
    /\ DOMAIN sent = Listener
    /\ events \in Nat

\* Whose events come on connection n.
Live(s) == subscribed[s] # None /\ socket[subscribed[s]] # "unused"

SubscribedOK ==
    /\ \A l \in Listener : Live(l) => l \in DOMAIN eventDispatchers /\ eventDispatchers[l] = subscribed[l]
    /\ \A c \in Counter : Live(c) =>
        \/ \E d \in DispatcherId \cap DOMAIN eventDispatchers : eventDispatchers[d] = subscribed[c]
        \/ subscribed[c] = conn /\ pc = "served" /\ call.op = "addListener"

\* Nothing comes on a connection that nobody uses.
QuietOK == \A n \in Conn : n \in pool \/ socket[n] = "unused" => in[n] = <<>>

\* What the operation finds on its connection.
ServedOK ==
    IF \E s \in Sub : subscribed[s] = conn
    THEN \/ /\ call.op = "addClientListener"
            /\ RegisteringIs(heard[call.l], in[conn], sent[call.l], socket[conn])
         \/ /\ call.op = "addListener"
            /\ AcceptingIs(in[conn], socket[conn])
    ELSE OneAnswer(call.op, in[conn])

RequestOK ==
    /\ pc \in {"send", "sent"} => in[conn] = <<>> /\ \A s \in Sub : subscribed[s] # conn
    /\ pc = "join" /\ call.op = "removeClientListener" => in[conn] = <<>>
    /\ pc = "sent" /\ call.op = "addClientListener" => heard[call.l] = <<>>
    /\ pc = "served" => ServedOK

\* What the thread of a registered listener finds.
ListenerOK(l) ==
    RegisteredIs(Handled(l), in[eventDispatchers[l]], sent[l], subscribed[l],
                 eventDispatchers[l], socket[eventDispatchers[l]])

ListenersOK ==
    \A l \in Listener \cap DOMAIN eventDispatchers : eventDispatchers[l] # conn => ListenerOK(l)

\* A thread that has ended has said so.
ExitedOK == \A l \in Listener : thread[l].at = "exited" => l \in recovered

DeliveryInv ==
    /\ ShapesOK /\ SubscribedOK /\ QuietOK /\ RequestOK /\ ListenersOK /\ ExitedOK

\* Events come only to their owners.
LEMMA OwnersAre ==
    ASSUME EventsInv, CallsOK, DeliveryInv
    PROVE  /\ \A s \in Sub : subscribed[s] \notin pool
           /\ \A s \in Sub : subscribed[s] = conn /\ conn # None =>
                /\ pc = "served"
                /\ \/ call.op = "addClientListener" /\ s = call.l
                   \/ call.op = "addListener" /\ s \in Counter
           /\ \A l \in Listener \cap DOMAIN eventDispatchers : \A s \in Sub :
                subscribed[s] = eventDispatchers[l] => s = l
<1>1. None \notin Conn /\ Listener \cap DispatcherId = {} /\ Listener \cap Counter = {}
  BY EventsAssumption
<1>2. OwnedOK /\ RegisteredOK /\ PlaceOK /\ DispatchersOK /\ Types
  BY DEF EventsInv
<1>3. SubscribedOK /\ RequestOK
  BY DEF DeliveryInv
<1>4. ASSUME NEW s \in Sub, subscribed[s] \in pool \cup lent
      PROVE  Live(s)
  BY <1>1, <1>2, <1>4 DEF Live, OwnedOK, Types
<1>5. ASSUME NEW s \in Sub, subscribed[s] \in pool \cup lent
      PROVE  \/ s \in Listener /\ s \in DOMAIN eventDispatchers /\ eventDispatchers[s] = subscribed[s]
             \/ /\ s \in Counter
                /\ \E d \in DispatcherId \cap DOMAIN eventDispatchers :
                        eventDispatchers[d] = subscribed[s]
             \/ s \in Counter /\ subscribed[s] = conn /\ pc = "served" /\ call.op = "addListener"
  BY <1>3, <1>4, <1>5 DEF SubscribedOK, Sub
<1>6. ASSUME NEW s \in Sub, subscribed[s] \in pool PROVE FALSE
  <2>1. subscribed[s] \notin lent
    BY <1>2, <1>6 DEF OwnedOK
  <2>2. subscribed[s] = conn /\ pc = "served"
    BY <1>2, <1>5, <1>6, <2>1 DEF OwnedOK
  <2>3. QED
    BY <1>2, <2>1, <2>2 DEF PlaceOK
<1>7. conn # None => conn \in lent /\ pc \in {"send", "sent", "served", "join"}
  BY <1>2 DEF PlaceOK, Types
<1>8. ASSUME NEW s \in Sub, subscribed[s] = conn, conn # None
      PROVE  /\ pc = "served"
             /\ \/ call.op = "addClientListener" /\ s = call.l
                \/ call.op = "addListener" /\ s \in Counter
  <2>1. pc \notin {"send", "sent"}
    BY <1>3, <1>8 DEF RequestOK
  <2>2. CASE s \in Counter /\ subscribed[s] = conn /\ pc = "served" /\ call.op = "addListener"
    BY <2>2
  <2>3. ASSUME NEW d \in DOMAIN eventDispatchers, eventDispatchers[d] = conn
        PROVE  call.op = "addClientListener" /\ d = call.l /\ d \in Listener /\ pc = "served"
    BY <1>2, <2>1, <2>3 DEF RegisteredOK, PlaceOK
  <2>4. CASE s \in Listener /\ s \in DOMAIN eventDispatchers /\ eventDispatchers[s] = subscribed[s]
    BY <1>8, <2>3, <2>4
  <2>5. CASE \E d \in DispatcherId \cap DOMAIN eventDispatchers : eventDispatchers[d] = subscribed[s]
    BY <1>1, <1>8, <2>3, <2>5
  <2>6. QED
    BY <1>5, <1>7, <1>8, <2>2, <2>4, <2>5
<1>9. ASSUME NEW l \in Listener \cap DOMAIN eventDispatchers, NEW s \in Sub,
             subscribed[s] = eventDispatchers[l]
      PROVE  s = l
  <2>1. subscribed[s] \in lent /\ \A d \in DOMAIN eventDispatchers :
            eventDispatchers[d] = subscribed[s] => d = l
    BY <1>2, <1>9 DEF OwnedOK
  <2>2. CASE s \in Listener /\ s \in DOMAIN eventDispatchers /\ eventDispatchers[s] = subscribed[s]
    BY <2>1, <2>2
  <2>3. CASE \E d \in DispatcherId \cap DOMAIN eventDispatchers : eventDispatchers[d] = subscribed[s]
    BY <1>1, <2>1, <2>3
  <2>4. CASE s \in Counter /\ subscribed[s] = conn /\ pc = "served" /\ call.op = "addListener"
    BY <1>2, <1>9, <2>4 DEF RegisteredOK
  <2>5. QED
    BY <1>5, <2>1, <2>2, <2>3, <2>4
<1>10. QED
  BY <1>6, <1>7, <1>8, <1>9

\* A step that does not change what a listener's thread finds, or loses its connection.
Untouched(l) ==
    LET n == eventDispatchers[l]
    IN  /\ l \in DOMAIN eventDispatchers /\ n # conn
        /\ eventDispatchers'[l] = n
        /\ in'[n] = in[n] /\ sent'[l] = sent[l]
        /\ heard'[l] = heard[l] /\ thread'[l] = thread[l]
        /\ subscribed'[l] = subscribed[l] \/ subscribed'[l] # n
        /\ socket'[n] = socket[n] \/ socket'[n] # "open"

LEMMA UntouchedKeeps ==
    ASSUME ListenersOK, NEW l \in Listener, Untouched(l)
    PROVE  ListenerOK(l)'
<1>1. Handled(l)' = Handled(l)
  BY DEF Handled, Untouched
<1>2. ListenerOK(l)
  BY DEF ListenersOK, Untouched
<1>3. PICK n : n = eventDispatchers[l]
  OBVIOUS
<1>4. RegisteredIs(Handled(l), in[n], sent[l], subscribed[l], n, socket[n])
  BY <1>2, <1>3 DEF ListenerOK
<1>5. RegisteredIs(Handled(l), in[n], sent[l], subscribed'[l], n, socket'[n])
  BY <1>3, <1>4 DEF RegisteredIs, Untouched
<1>6. QED
  BY <1>1, <1>3, <1>5 DEF ListenerOK, Untouched

\* Nothing that the operation finds changes.
LEMMA RequestStays ==
    ASSUME EventsInv, RequestOK, UNCHANGED <<pc, call, conn, subscribed>>,
           conn # None => in'[conn] = in[conn] /\ socket'[conn] = socket[conn],
           call.op = "addClientListener" /\ pc \in {"sent", "served"} =>
                heard'[call.l] = heard[call.l] /\ sent'[call.l] = sent[call.l]
    PROVE  RequestOK'
<1>1. pc \in {"send", "sent", "served"} => conn # None
  BY EventsAssumption DEF EventsInv, PlaceOK, Types
<1>2. pc = "join" /\ call.op = "removeClientListener" => conn # None
  BY EventsAssumption DEF EventsInv, PlaceOK, Types
<1>3. pc = "served" => ServedOK'
  BY <1>1 DEF RequestOK, ServedOK
<1>4. QED
  BY <1>1, <1>2, <1>3 DEF RequestOK

\* Nobody gets or loses a connection.
LEMMA SubscribedStays ==
    ASSUME ShapesOK, SubscribedOK, UNCHANGED <<subscribed, eventDispatchers, conn, call>>,
           pc' = pc \/ pc' = "served",
           \A n \in Conn : socket[n] = "unused" => socket'[n] = "unused"
    PROVE  SubscribedOK'
<1>1. \A s \in Sub : Live(s)' => Live(s)
  BY DEF Live, ShapesOK
<1>2. QED
  BY <1>1 DEF SubscribedOK, Sub

\* The listeners' threads.
LEMMA DispatcherDelivers ==
    ASSUME EventsInv, CallsOK, DeliveryInv, NEW d \in Id, Dispatcher(d) \/ ReadTimesOut(d)
    PROVE  DeliveryInv'
<1>1. /\ ShapesOK /\ SubscribedOK /\ QuietOK /\ RequestOK /\ ListenersOK /\ ExitedOK
      /\ RegisteredOK /\ DispatchersOK /\ OwnedOK /\ Types /\ PlaceOK /\ RunningOK
  BY DEF DeliveryInv, EventsInv
<1>2. /\ UNCHANGED <<pc, call, conn, subscribed, eventDispatchers, socket, pool, sent, events>>
      /\ thread[d].at \in {"reading", "handling", "recovering"}
      /\ \A e \in Id : e # d => thread'[e] = thread[e]
  BY <1>1 DEF Dispatcher, ReadTimesOut, ReadEvent, HandleEvent, ReadFails, ReadThrows, Recover, app,
     links, server, history, DispatchersOK
<1>3. d \in DOMAIN eventDispatchers /\ eventDispatchers[d] # conn /\ eventDispatchers[d] \in Conn
  <2>1. d \in DOMAIN eventDispatchers
    BY <1>1, <1>2 DEF RunningOK
  <2>2. QED
    BY <1>1, <1>2, <2>1 DEF RegisteredOK, DispatchersOK
<1>4. SubscribedOK'
  BY <1>1, <1>2, SubscribedStays
<1>5. PICK n : n = eventDispatchers[d]
  OBVIOUS
<1>6. \A e \in DOMAIN eventDispatchers : e # d => eventDispatchers[e] # n
  BY <1>1, <1>3, <1>5 DEF OwnedOK
<1>7. DOMAIN in' = Conn /\ \A m \in Conn : m # n => in'[m] = in[m]
  BY <1>1, <1>3, <1>5 DEF Dispatcher, ReadTimesOut, ReadEvent, HandleEvent, ReadFails, ReadThrows,
     Recover, links, ShapesOK, Transport
<1>8. \A l \in Listener : l # d => heard'[l] = heard[l]
  BY <1>1 DEF Dispatcher, ReadTimesOut, ReadEvent, HandleEvent, ReadFails, ReadThrows, Recover,
     history, processEvent, Types
<1>9. \A l \in Listener \cap DOMAIN eventDispatchers : l # d /\ eventDispatchers[l] # conn => Untouched(l)
  <2>1. \A l \in Listener : l \in Id
    BY DEF Id
  <2>2. QED
    BY <1>1, <1>2, <1>6, <1>7, <1>8, <2>1 DEF Untouched, DispatchersOK
<1>10. ShapesOK'
  BY <1>1, <1>2, <1>7 DEF ShapesOK
<1>11. RequestOK'
  <2>1. call.op = "addClientListener" /\ pc \in {"sent", "served"} =>
            call.l # d /\ call.l \in Listener
    BY <1>1, <1>2, <1>3 DEF RegisteredOK, PlaceOK
  <2>2. conn # None => conn \in Conn /\ conn # n
    BY <1>1, <1>3, <1>5 DEF Types
  <2>3. QED
    BY <1>1, <1>2, <1>7, <1>8, <2>1, <2>2, RequestStays
<1>12. QuietOK'
  <2>1. n \notin pool /\ socket[n] # "unused"
    BY <1>1, <1>3, <1>5 DEF OwnedOK
  <2>2. QED
    BY <1>1, <1>2, <1>7, <2>1 DEF QuietOK
<1>13. ASSUME d \in Listener => ListenerOK(d)',
              d \in Listener /\ thread'[d].at = "exited" => d \in recovered',
              recovered \subseteq recovered'
       PROVE  DeliveryInv'
  <2>1. ListenersOK'
    BY <1>1, <1>2, <1>9, <1>13, UntouchedKeeps DEF ListenersOK
  <2>2. ExitedOK'
    BY <1>1, <1>2, <1>13 DEF ExitedOK, Id
  <2>3. QED
    BY <1>4, <1>10, <1>11, <1>12, <2>1, <2>2 DEF DeliveryInv
<1>14. ASSUME d \in Listener
       PROVE  RegisteredIs(Handled(d), in[n], sent[d], subscribed[d], n, socket[n])
  BY <1>1, <1>3, <1>5, <1>14 DEF ListenersOK, ListenerOK
<1>15. CASE ReadEvent(d)
  <2>1. in[n] # <<>> /\ in'[n] = Tail(in[n]) /\ UNCHANGED <<heard, recovered>> /\ thread[d].at = "reading"
    BY <1>1, <1>3, <1>5, <1>15 DEF ReadEvent, Transport, history, ShapesOK
  <2>2. CASE d \in Listener
    <3>1. PICK m : m = Head(in[n])
      OBVIOUS
    <3>2. /\ m \in EventMsg
          /\ RegisteredIs(Append(Handled(d), m), in'[n], sent[d], subscribed[d], n, socket[n])
      BY <1>14, <2>1, <2>2, <3>1, RegisteredTake
    <3>3. thread' = [thread EXCEPT ![d] = [at |-> "handling", event |-> m]]
      BY <1>5, <1>15, <2>2, <3>1, <3>2, AcceptIsNoEvent DEF ReadEvent, Transport
    <3>4. thread'[d].at = "handling" /\ thread'[d].event = m
      BY <1>1, <3>3 DEF DispatchersOK
    <3>5. Handled(d)' = Append(Handled(d), m)
      BY <2>1, <3>4 DEF Handled
    <3>6. ListenerOK(d)'
      BY <1>2, <1>5, <3>2, <3>5 DEF ListenerOK
    <3>7. QED
      BY <1>13, <2>1, <3>4, <3>6
  <2>3. CASE d \notin Listener
    BY <1>13, <2>1, <2>3
  <2>4. QED
    BY <2>2, <2>3
<1>16. CASE HandleEvent(d)
  <2>1. UNCHANGED <<in, recovered>> /\ thread[d].at = "handling" /\ thread'[d].at = "reading"
    BY <1>1, <1>16 DEF HandleEvent, links, DispatchersOK
  <2>2. ASSUME d \in Listener PROVE ListenerOK(d)'
    <3>1. heard'[d] = Append(heard[d], thread[d].event)
      BY <1>1, <1>16, <2>2 DEF HandleEvent, processEvent, Types
    <3>2. Handled(d)' = Handled(d)
      BY <2>1, <3>1 DEF Handled
    <3>3. QED
      BY <1>2, <1>5, <1>14, <2>1, <2>2, <3>2 DEF ListenerOK
  <2>3. QED
    BY <1>13, <2>1, <2>2
<1>17. CASE ReadThrows(d)
  <2>1. /\ UNCHANGED <<in, recovered, heard>> /\ thread[d].at = "reading"
        /\ thread'[d].at = "recovering"
    BY <1>1, <1>17 DEF ReadThrows, links, history, DispatchersOK
  <2>2. Handled(d)' = Handled(d)
    BY <2>1 DEF Handled
  <2>3. QED
    BY <1>2, <1>5, <1>13, <1>14, <2>1, <2>2 DEF ListenerOK
<1>18. CASE Recover(d)
  <2>1. /\ UNCHANGED <<in, heard>> /\ thread[d].at = "recovering"
        /\ thread'[d].at = "exited" /\ (d \in Listener => d \in recovered')
        /\ recovered \subseteq recovered'
    BY <1>1, <1>18 DEF Recover, links, DispatchersOK
  <2>2. Handled(d)' = Handled(d)
    BY <2>1 DEF Handled
  <2>3. QED
    BY <1>2, <1>5, <1>13, <1>14, <2>1, <2>2 DEF ListenerOK
<1>19. QED
  BY <1>15, <1>16, <1>17, <1>18 DEF Dispatcher, ReadFails, ReadTimesOut

\* A connection is lost, or shut down by the application.
LEMMA ConnectionCut ==
    ASSUME EventsInv, CallsOK, DeliveryInv, NEW n \in Conn, NEW k \in 0 .. Len(in[n]), NEW to,
           in' = [in EXCEPT ![n] = SubSeq(@, 1, k)], socket' = [socket EXCEPT ![n] = to],
           socket[n] # "unused", to \notin {"open", "unused"},
           UNCHANGED <<conn, pool, eventDispatchers, thread, subscribed, sent, heard, recovered,
                       events>>,
           \/ UNCHANGED <<pc, call>>
           \/ conn = None /\ pc' = "join" /\ call'.op # "removeClientListener"
    PROVE  DeliveryInv'
<1>1. /\ ShapesOK /\ SubscribedOK /\ QuietOK /\ RequestOK /\ ListenersOK /\ ExitedOK
      /\ RegisteredOK /\ DispatchersOK /\ OwnedOK /\ Types /\ PlaceOK /\ RunningOK
  BY DEF DeliveryInv, EventsInv
<1>2. /\ DOMAIN in' = Conn /\ in'[n] = SubSeq(in[n], 1, k) /\ \A m \in Conn : m # n => in'[m] = in[m]
      /\ socket'[n] = to /\ \A m \in Conn : m # n => socket'[m] = socket[m]
  BY <1>1 DEF ShapesOK, Types
<1>3. in[n] = <<>> => in'[n] = <<>>
  <2>1. ASSUME in[n] = <<>> PROVE SubSeq(in[n], 1, k) = <<>>
    <3>1. k = 0
      BY <2>1
    <3>2. QED
      BY <3>1, SubSeqEmpty
  <2>2. QED
    BY <1>2, <2>1
<1>4. ShapesOK' /\ ExitedOK'
  BY <1>1, <1>2 DEF ShapesOK, ExitedOK
<1>5. QuietOK'
  BY <1>1, <1>2, <1>3 DEF QuietOK
<1>6. SubscribedOK'
  <2>1. \A s \in Sub : Live(s)' => Live(s)
    BY <1>1, <1>2 DEF Live, ShapesOK
  <2>2. CASE UNCHANGED <<pc, call>>
    BY <1>1, <2>1, <2>2 DEF SubscribedOK, Sub
  <2>3. CASE conn = None
    <3>1. \A s \in Sub : Live(s)' => subscribed[s] # conn
      BY <2>3 DEF Live
    <3>2. QED
      BY <1>1, <2>1, <3>1 DEF SubscribedOK, Sub
  <2>4. QED
    BY <2>2, <2>3
<1>7. ListenersOK'
  <2>1. ASSUME NEW l \in Listener \cap DOMAIN eventDispatchers, eventDispatchers[l] # conn
        PROVE  ListenerOK(l)'
    <3>1. CASE eventDispatchers[l] = n
      <4>1. RegisteredIs(Handled(l), in[n], sent[l], subscribed[l], n, socket[n])
        BY <1>1, <2>1, <3>1 DEF ListenersOK, ListenerOK
      <4>2. RegisteredIs(Handled(l), in'[n], sent[l], subscribed[l], n, to)
        BY <1>2, <4>1, RegisteredCut
      <4>3. Handled(l)' = Handled(l)
        BY DEF Handled
      <4>4. QED
        BY <1>2, <3>1, <4>2, <4>3 DEF ListenerOK
    <3>2. CASE eventDispatchers[l] # n
      <4>1. Untouched(l)
        BY <1>1, <1>2, <2>1, <3>2 DEF Untouched, DispatchersOK
      <4>2. QED
        BY <1>1, <4>1, UntouchedKeeps
    <3>3. QED
      BY <3>1, <3>2
  <2>2. QED
    BY <2>1 DEF ListenersOK
<1>8. RequestOK'
  <2>1. CASE UNCHANGED <<pc, call>> /\ conn # n
    <3>1. conn # None => conn \in Conn
      BY <1>1 DEF Types
    <3>2. QED
      BY <1>1, <1>2, <2>1, <3>1, RequestStays
  <2>2. CASE UNCHANGED <<pc, call>> /\ conn = n
    <3>1. ASSUME pc = "served" PROVE ServedOK'
      <4>1. ASSUME RegisteringIs(heard[call.l], in[conn], sent[call.l], socket[conn])
            PROVE  RegisteringIs(heard[call.l], in'[conn], sent[call.l], socket'[conn])
        BY <1>2, <2>2, <4>1, RegisteringCut
      <4>2. ASSUME AcceptingIs(in[conn], socket[conn])
            PROVE  AcceptingIs(in'[conn], socket'[conn])
        BY <1>2, <2>2, <4>2, AcceptingCut
      <4>3. ASSUME OneAnswer(call.op, in[conn]) PROVE OneAnswer(call.op, in'[conn])
        BY <1>2, <2>2, <4>3, OneAnswerCut
      <4>4. ServedOK
        BY <1>1, <3>1 DEF RequestOK
      <4>5. QED
        BY <2>2, <4>1, <4>2, <4>3, <4>4 DEF ServedOK
    <3>2. QED
      BY <1>1, <1>3, <2>2, <3>1 DEF RequestOK
  <2>3. CASE conn = None /\ pc' = "join" /\ call'.op # "removeClientListener"
    BY <2>3 DEF RequestOK
  <2>4. QED
    BY <2>1, <2>2, <2>3
<1>9. QED
  BY <1>4, <1>5, <1>6, <1>7, <1>8 DEF DeliveryInv

\* A client listener's event.
LEMMA SendEventDelivers ==
    ASSUME ServerEvents, EventsInv, CallsOK, DeliveryInv, NEW l \in Listener, SendEvent(l)
    PROVE  DeliveryInv'
<1>1. /\ ShapesOK /\ SubscribedOK /\ QuietOK /\ RequestOK /\ ListenersOK /\ ExitedOK
      /\ RegisteredOK /\ DispatchersOK /\ OwnedOK /\ Types /\ PlaceOK /\ RunningOK
  BY DEF DeliveryInv, EventsInv
<1>2. PICK t \in Later :
        /\ in' = [in EXCEPT ![subscribed[l]] = Append(@, Msg(t, <<events + 1>>))]
        /\ sent' = [sent EXCEPT ![l] = Append(@, Msg(t, <<events + 1>>))]
  BY DEF SendEvent
<1>3. PICK e : e = Msg(t, <<events + 1>>) /\ e \in EventMsg
  <2>1. events + 1 \in Nat /\ t \in EventType
    BY <1>1 DEF ShapesOK, ServerEvents
  <2>2. QED
    BY <2>1, EventIs
<1>4. PICK n : n = subscribed[l]
  OBVIOUS
<1>5. /\ n # None /\ socket[n] = "open" /\ events' = events + 1
      /\ UNCHANGED <<pc, call, conn, pool, socket, eventDispatchers, thread, subscribed, heard,
                     recovered>>
  BY <1>4 DEF SendEvent, app, server
<1>6. n \in Conn /\ Live(l) /\ l \in Sub
  BY <1>1, <1>4, <1>5 DEF ShapesOK, Live, Sub
<1>7. l \in DOMAIN eventDispatchers /\ eventDispatchers[l] = n
  BY <1>1, <1>4, <1>6 DEF SubscribedOK
<1>8. /\ DOMAIN in' = Conn /\ in'[n] = Append(in[n], e) /\ \A m \in Conn : m # n => in'[m] = in[m]
      /\ DOMAIN sent' = Listener /\ sent'[l] = Append(sent[l], e)
      /\ \A k \in Listener : k # l => sent'[k] = sent[k]
  BY <1>1, <1>2, <1>3, <1>4, <1>6 DEF ShapesOK
<1>9. ShapesOK' /\ ExitedOK'
  BY <1>1, <1>5, <1>8 DEF ShapesOK, ExitedOK
<1>10. QuietOK'
  <2>1. n \notin pool
    BY <1>4, <1>6, OwnersAre
  <2>2. QED
    BY <1>1, <1>5, <1>8, <2>1 DEF QuietOK
<1>11. SubscribedOK'
  BY <1>1, <1>5, SubscribedStays
<1>12. \A k \in Listener \cap DOMAIN eventDispatchers :
            k # l => eventDispatchers[k] # n /\ (eventDispatchers[k] # conn => Untouched(k))
  BY <1>1, <1>5, <1>7, <1>8 DEF OwnedOK, Untouched, DispatchersOK
<1>13. ASSUME eventDispatchers[l] # conn => ListenerOK(l)' PROVE ListenersOK'
  BY <1>1, <1>5, <1>12, <1>13, UntouchedKeeps DEF ListenersOK
<1>14. CASE n = conn
  <2>1. pc = "served" /\ call.op = "addClientListener" /\ l = call.l
    <3>1. Listener \cap Counter = {}
      BY EventsAssumption
    <3>2. QED
      BY <1>4, <1>5, <1>6, <1>14, <3>1, OwnersAre
  <2>2. RegisteringIs(heard[l], in[n], sent[l], socket[n])
    BY <1>1, <1>4, <1>6, <1>14, <2>1 DEF RequestOK, ServedOK
  <2>3. RegisteringIs(heard[l], in'[n], sent'[l], socket[n])
    BY <1>3, <1>5, <1>8, <2>2, RegisteringMore
  <2>4. ServedOK'
    BY <1>4, <1>5, <1>6, <1>14, <2>1, <2>3 DEF ServedOK
  <2>5. RequestOK'
    BY <1>5, <2>1, <2>4 DEF RequestOK
  <2>6. QED
    BY <1>7, <1>9, <1>10, <1>11, <1>13, <1>14, <2>5 DEF DeliveryInv
<1>15. CASE n # conn
  <2>1. RegisteredIs(Handled(l), in[n], sent[l], n, n, socket[n])
    BY <1>1, <1>4, <1>7, <1>15 DEF ListenersOK, ListenerOK
  <2>2. RegisteredIs(Handled(l), in'[n], sent'[l], n, n, socket[n])
    BY <1>3, <1>5, <1>8, <2>1, RegisteredMore
  <2>3. Handled(l)' = Handled(l)
    BY <1>5 DEF Handled
  <2>4. ListenerOK(l)'
    BY <1>4, <1>5, <1>7, <2>2, <2>3 DEF ListenerOK
  <2>5. call.op = "addClientListener" /\ pc \in {"sent", "served"} => call.l # l /\ call.l \in Listener
    BY <1>1, <1>7, <1>15 DEF RegisteredOK, PlaceOK
  <2>6. conn # None => conn \in Conn
    BY <1>1 DEF Types
  <2>7. RequestOK'
    BY <1>1, <1>5, <1>8, <1>15, <2>5, <2>6, RequestStays
  <2>8. QED
    BY <1>9, <1>10, <1>11, <1>13, <2>4, <2>7 DEF DeliveryInv
<1>16. QED
  BY <1>14, <1>15

\* Who finds what when a counter is set.
LEMMA SetValueIs ==
    ASSUME ShapesOK, NEW c, NEW v, NEW msgs, SetValue(c, v, msgs),
           msgs = <<>> \/ \E r : msgs = <<r>>
    PROVE  /\ DOMAIN in' = Conn /\ events' \in Nat /\ UNCHANGED <<subscribed, sent>>
           /\ \A m \in Conn : \A S :
                in[m] \in Seq(S) /\ (m # conn \/ msgs = <<>>)
                    /\ (m # subscribed[c] \/ socket[m] # "open") => in'[m] = in[m]
           /\ \A m \in Conn : \A S :
                in[m] \in Seq(S) /\ msgs = <<>> => in'[m] = in[m] \/ \E e : in'[m] = in[m] \o <<e>>
           /\ conn \in Conn /\ in[conn] = <<>> /\ subscribed[c] # conn => in'[conn] = msgs
<1>1. PICK told, e :
        /\ in' = [m \in Conn |-> in[m] \o (IF m = conn THEN msgs ELSE <<>>)
                                       \o (IF told /\ m = subscribed[c] THEN <<e>> ELSE <<>>)]
        /\ events' = IF told THEN events + 1 ELSE events
        /\ told => socket[subscribed[c]] = "open"
        /\ UNCHANGED <<subscribed, sent>>
  <2>1. PICK told, e :
            /\ told = (/\ subscribed[c] # None /\ v # cell[c].value
                       /\ socket[subscribed[c]] = "open" /\ events < MaxEvents)
            /\ e = CounterEvent(c, v)
    OBVIOUS
  <2>2. QED
    BY <2>1 DEF SetValue
<1>2. \A m \in Conn : in'[m] = in[m] \o (IF m = conn THEN msgs ELSE <<>>)
                                     \o (IF told /\ m = subscribed[c] THEN <<e>> ELSE <<>>)
  BY <1>1
<1>3. ASSUME NEW m \in Conn, NEW S, in[m] \in Seq(S), m # conn \/ msgs = <<>>
      PROVE  /\ m # subscribed[c] \/ socket[m] # "open" => in'[m] = in[m]
             /\ in'[m] = in[m] \/ in'[m] = in[m] \o <<e>>
  <2>1. in[m] \o <<>> = in[m]
    BY <1>3, ConcatEmptySeq
  <2>2. CASE told /\ m = subscribed[c]
    BY <1>1, <1>2, <1>3, <2>1, <2>2
  <2>3. CASE ~(told /\ m = subscribed[c])
    BY <1>2, <1>3, <2>1, <2>3
  <2>4. QED
    BY <2>2, <2>3
<1>4. ASSUME conn \in Conn, in[conn] = <<>>, subscribed[c] # conn PROVE in'[conn] = msgs
  <2>1. in'[conn] = <<>> \o msgs \o <<>>
    BY <1>2, <1>4
  <2>2. PICK T : msgs \in Seq(T)
    <3>1. CASE msgs = <<>>
      BY <3>1
    <3>2. CASE \E r : msgs = <<r>>
      <4>1. PICK r : msgs = <<r>>
        BY <3>2
      <4>2. msgs \in Seq({r})
        BY <4>1
      <4>3. QED
        BY <4>2
    <3>3. QED
      BY <3>1, <3>2
  <2>3. QED
    BY <2>1, <2>2, ConcatEmptySeq
<1>5. DOMAIN in' = Conn /\ events' \in Nat
  BY <1>1 DEF ShapesOK
<1>6. QED
  BY <1>1, <1>3, <1>4, <1>5

\* Another client changes a counter.
LEMMA OtherClientDelivers ==
    ASSUME EventsInv, CallsOK, DeliveryInv, NEW c \in Counter, OtherClient(c)
    PROVE  DeliveryInv'
<1>1. /\ ShapesOK /\ SubscribedOK /\ QuietOK /\ RequestOK /\ ListenersOK /\ ExitedOK
      /\ RegisteredOK /\ DispatchersOK /\ OwnedOK /\ Types /\ PlaceOK /\ RunningOK
  BY DEF DeliveryInv, EventsInv
<1>2. /\ UNCHANGED <<pc, call, conn, pool, socket, eventDispatchers, thread, heard, recovered>>
      /\ subscribed[c] # None /\ socket[subscribed[c]] = "open"
      /\ SetValue(c, cell[c].value + 1, <<>>)
  BY DEF OtherClient, app
<1>3. /\ DOMAIN in' = Conn /\ events' \in Nat /\ UNCHANGED <<subscribed, sent>>
      /\ \A m \in Conn : \A S : in[m] \in Seq(S) /\ m # subscribed[c] => in'[m] = in[m]
      /\ \A m \in Conn : \A S : in[m] \in Seq(S) => in'[m] = in[m] \/ \E e : in'[m] = in[m] \o <<e>>
  BY <1>1, <1>2, SetValueIs
<1>4. c \in Sub /\ c \notin Listener /\ subscribed[c] \in Conn /\ Live(c)
  BY <1>1, <1>2, EventsAssumption DEF Sub, ShapesOK, Live
<1>5. ShapesOK' /\ ExitedOK'
  BY <1>1, <1>2, <1>3 DEF ShapesOK, ExitedOK
<1>6. SubscribedOK'
  BY <1>1, <1>2, <1>3, SubscribedStays
<1>7. QuietOK'
  <2>1. ASSUME NEW n \in Conn, n \in pool \/ socket[n] = "unused" PROVE in'[n] = <<>>
    <3>1. n # subscribed[c]
      BY <1>2, <1>4, <2>1, OwnersAre
    <3>2. in[n] = <<>> /\ <<>> \in Seq({})
      BY <1>1, <2>1 DEF QuietOK
    <3>3. QED
      BY <1>3, <3>1, <3>2
  <2>2. QED
    BY <1>2, <2>1 DEF QuietOK
<1>8. ListenersOK'
  <2>1. ASSUME NEW l \in Listener \cap DOMAIN eventDispatchers, eventDispatchers[l] # conn
        PROVE  Untouched(l)
    <3>1. eventDispatchers[l] # subscribed[c]
      BY <1>4, OwnersAre
    <3>2. in[eventDispatchers[l]] \in Seq(EventMsg)
      BY <1>1, <2>1 DEF ListenersOK, ListenerOK, RegisteredIs
    <3>3. in'[eventDispatchers[l]] = in[eventDispatchers[l]]
      BY <1>1, <1>3, <3>1, <3>2 DEF DispatchersOK
    <3>4. QED
      BY <1>2, <1>3, <2>1, <3>3 DEF Untouched
  <2>2. QED
    BY <1>1, <1>2, <2>1, UntouchedKeeps DEF ListenersOK
<1>9. RequestOK'
  <2>1. CASE subscribed[c] = conn
    <3>1. pc = "served" /\ call.op = "addListener"
      BY <1>1, <1>2, <1>4, <2>1, OwnersAre DEF PlaceOK
    <3>2. AcceptingIs(in[conn], socket[conn])
      BY <1>1, <1>4, <2>1, <3>1 DEF RequestOK, ServedOK
    <3>3. PICK S : in[conn] \in Seq(S)
      BY <3>2 DEF AcceptingIs
    <3>4. in'[conn] = in[conn] \/ \E e : in'[conn] = in[conn] \o <<e>>
      BY <1>3, <1>4, <2>1, <3>3
    <3>5. AcceptingIs(in'[conn], socket[conn])
      BY <1>2, <2>1, <3>2, <3>4, AcceptingMore
    <3>6. QED
      BY <1>2, <1>3, <1>4, <2>1, <3>1, <3>5 DEF RequestOK, ServedOK
  <2>2. CASE subscribed[c] # conn
    <3>1. ASSUME conn # None, \E S : in[conn] \in Seq(S) PROVE in'[conn] = in[conn]
      BY <1>1, <1>3, <2>2, <3>1 DEF Types
    <3>2. CASE pc = "served"
      <4>1. ServedOK /\ conn # None
        BY <1>1, <3>2, EventsAssumption DEF RequestOK, PlaceOK, Types
      <4>2. \E S : in[conn] \in Seq(S)
        <5>1. CASE RegisteringIs(heard[call.l], in[conn], sent[call.l], socket[conn])
          BY <5>1 DEF RegisteringIs, Stream
        <5>2. CASE AcceptingIs(in[conn], socket[conn])
          BY <5>2 DEF AcceptingIs
        <5>3. CASE OneAnswer(call.op, in[conn])
          <6>1. PICK q : q = in[conn]
            OBVIOUS
          <6>2. q = <<>> \/ \E m : q = <<m>>
            BY <5>3, <6>1 DEF OneAnswer
          <6>3. PICK m : q = <<>> \/ q = <<m>>
            BY <6>2
          <6>4. q \in Seq({m})
            <7>1. <<>> \in Seq({m}) /\ <<m>> \in Seq({m})
              OBVIOUS
            <7>2. QED
              BY <6>3, <7>1
          <6>5. QED
            BY <6>1, <6>4
        <5>4. QED
          BY <4>1, <5>1, <5>2, <5>3 DEF ServedOK
      <4>3. QED
        BY <1>1, <1>2, <1>3, <3>1, <4>1, <4>2, RequestStays
    <3>3. CASE pc # "served"
      <4>1. in[conn] = <<>> /\ conn # None => in'[conn] = <<>>
        <5>1. <<>> \in Seq({})
          OBVIOUS
        <5>2. QED
          BY <3>1, <5>1
      <4>2. pc \in {"send", "sent"} => conn # None
        BY <1>1, EventsAssumption DEF PlaceOK, Types
      <4>3. pc = "join" /\ call.op = "removeClientListener" => conn # None
        BY <1>1, EventsAssumption DEF PlaceOK, Types
      <4>4. QED
        BY <1>1, <1>2, <1>3, <3>3, <4>1, <4>2, <4>3 DEF RequestOK
    <3>4. QED
      BY <3>2, <3>3
  <2>3. QED
    BY <2>1, <2>2
<1>10. QED
  BY <1>5, <1>6, <1>7, <1>8, <1>9 DEF DeliveryInv

\* The events of other clients, and lost connections.
LEMMA WorldDelivers ==
    ASSUME ServerEvents, EventsInv, CallsOK, DeliveryInv,
           \/ \E n \in Conn : Drop(n)
           \/ \E l \in Listener : SendEvent(l)
           \/ \E c \in Counter : OtherClient(c)
    PROVE  DeliveryInv'
<1>1. ASSUME NEW n \in Conn, Drop(n) PROVE DeliveryInv'
  <2>1. PICK k \in 0 .. Len(in[n]) : in' = [in EXCEPT ![n] = SubSeq(@, 1, k)]
    BY <1>1 DEF Drop
  <2>2. /\ socket' = [socket EXCEPT ![n] = "down"] /\ socket[n] = "open"
        /\ UNCHANGED <<conn, pc, call, pool, eventDispatchers, thread, subscribed, sent, heard,
                       recovered, events>>
    BY <1>1 DEF Drop, app, server, history
  <2>3. PICK to : to = "down"
    OBVIOUS
  <2>4. socket[n] # "unused" /\ to \notin {"open", "unused"} /\ socket' = [socket EXCEPT ![n] = to]
    BY <2>2, <2>3
  <2>5. QED
    BY <2>1, <2>2, <2>4, ConnectionCut
<1>2. QED
  BY <1>1, SendEventDelivers, OtherClientDelivers

\* The server's answer: nothing comes to those who wait for nothing.
LEMMA ServedDelivers ==
    ASSUME EventsInv, CallsOK, DeliveryInv, pc = "sent", pc' = "served",
           UNCHANGED <<call, conn, pool, socket, eventDispatchers, thread, heard, recovered>>,
           ShapesOK',
           \A n \in Conn : n # conn /\ (\/ n \in pool \/ socket[n] = "unused"
                                        \/ \E l \in Listener \cap DOMAIN eventDispatchers :
                                                eventDispatchers[l] = n)
                                => in'[n] = in[n],
           \A s \in Sub : \/ subscribed'[s] \in {subscribed[s], None}
                          \/ /\ subscribed'[s] = conn
                             /\ \/ call.op = "addClientListener" /\ s = call.l
                                \/ call.op = "addListener" /\ s \in Counter,
           \A l \in Listener : sent'[l] = sent[l] \/ (call.op = "addClientListener" /\ l = call.l),
           ServedOK'
    PROVE  DeliveryInv'
<1>1. /\ ShapesOK /\ SubscribedOK /\ QuietOK /\ RequestOK /\ ListenersOK /\ ExitedOK
      /\ RegisteredOK /\ DispatchersOK /\ OwnedOK /\ Types /\ PlaceOK /\ RunningOK
  BY DEF DeliveryInv, EventsInv
<1>2. /\ conn \in lent /\ conn \in Conn /\ conn \notin pool /\ socket[conn] # "unused"
      /\ None \notin Conn /\ Listener \cap Counter = {}
  BY <1>1, EventsAssumption DEF PlaceOK, OwnedOK, Types
<1>3. call.op = "addClientListener" => call.l \in DOMAIN eventDispatchers /\ eventDispatchers[call.l] = conn
  BY <1>1 DEF RegisteredOK
<1>4. SubscribedOK'
  <2>1. ASSUME NEW l \in Listener, Live(l)'
        PROVE  l \in DOMAIN eventDispatchers /\ eventDispatchers[l] = subscribed'[l]
    <3>1. \/ subscribed'[l] = conn /\ call.op = "addClientListener" /\ l = call.l
          \/ subscribed'[l] = subscribed[l] /\ Live(l)
      <4>1. l \in Sub /\ l \notin Counter /\ subscribed'[l] # None /\ socket[subscribed'[l]] # "unused"
        BY <1>2, <2>1 DEF Live, Sub
      <4>2. \/ subscribed'[l] = subscribed[l]
            \/ subscribed'[l] = conn /\ call.op = "addClientListener" /\ l = call.l
        BY <4>1
      <4>3. QED
        BY <4>1, <4>2 DEF Live
    <3>2. QED
      BY <1>1, <1>3, <3>1 DEF SubscribedOK
  <2>2. ASSUME NEW c \in Counter, Live(c)'
        PROVE  \/ \E d \in DispatcherId \cap DOMAIN eventDispatchers : eventDispatchers[d] = subscribed'[c]
               \/ subscribed'[c] = conn /\ call.op = "addListener"
    <3>1. \/ subscribed'[c] = conn /\ (call.op = "addListener" \/ (call.op = "addClientListener" /\ c = call.l))
          \/ subscribed'[c] = subscribed[c] /\ Live(c)
      <4>1. c \in Sub /\ subscribed'[c] # None /\ socket[subscribed'[c]] # "unused"
        BY <1>2, <2>2 DEF Live, Sub
      <4>2. \/ subscribed'[c] = subscribed[c]
            \/ /\ subscribed'[c] = conn
               /\ \/ call.op = "addListener"
                  \/ call.op = "addClientListener" /\ c = call.l
        BY <4>1
      <4>3. QED
        BY <4>1, <4>2 DEF Live
    <3>2. call.op = "addClientListener" => c # call.l
      BY <1>1, <1>2 DEF PlaceOK
    <3>3. QED
      BY <1>1, <3>1, <3>2 DEF SubscribedOK
  <2>3. QED
    BY <2>1, <2>2 DEF SubscribedOK
<1>5. QuietOK'
  BY <1>1, <1>2 DEF QuietOK
<1>6. ListenersOK'
  <2>1. ASSUME NEW l \in Listener \cap DOMAIN eventDispatchers, eventDispatchers[l] # conn
        PROVE  Untouched(l)
    <3>1. eventDispatchers[l] \in Conn /\ l \in Sub
      BY <1>1 DEF DispatchersOK, Sub
    <3>2. in'[eventDispatchers[l]] = in[eventDispatchers[l]] /\ sent'[l] = sent[l]
      BY <1>3, <2>1, <3>1
    <3>3. subscribed'[l] = subscribed[l] \/ subscribed'[l] # eventDispatchers[l]
      BY <1>2, <2>1, <3>1
    <3>4. QED
      BY <2>1, <3>2, <3>3 DEF Untouched
  <2>2. QED
    BY <1>1, <2>1, UntouchedKeeps DEF ListenersOK
<1>7. RequestOK'
  BY DEF RequestOK
<1>8. ExitedOK'
  BY <1>1 DEF ExitedOK
<1>9. QED
  BY <1>4, <1>5, <1>6, <1>7, <1>8 DEF DeliveryInv

\* What becomes of the messages.
LEMMA AnsweredIs ==
    ASSUME ShapesOK, conn \in Conn, in[conn] = <<>>, NEW S, NEW msgs \in Seq(S), Answer(msgs)
    PROVE  DOMAIN in' = Conn /\ in'[conn] = msgs /\ \A n \in Conn : n # conn => in'[n] = in[n]
<1>1. in'[conn] = <<>> \o msgs /\ DOMAIN in' = Conn /\ \A n \in Conn : n # conn => in'[n] = in[n]
  BY DEF Answer, ShapesOK
<1>2. QED
  BY <1>1, ConcatEmptySeq

\* What the server does for a counter.
LEMMA ServeCounterIs ==
    ASSUME NEW c, call.op \in CounterOps, ServeCounter(c)
    PROVE  \/ \E r : /\ r.k = "response" /\ (call.op = "addListener" => r.x[1] # NO_ERROR_STATUS)
                     /\ Answer(<<r>>) /\ UNCHANGED <<subscribed, sent, events>>
           \/ /\ call.op = "addListener" /\ Answer(<<Accept>>) /\ UNCHANGED <<sent, events>>
              /\ subscribed' = [subscribed EXCEPT ![c] =
                        IF counterDispatcher \in DOMAIN eventDispatchers
                           /\ socket[Transport(counterDispatcher)] = "open"
                        THEN Transport(counterDispatcher) ELSE conn]
           \/ /\ call.op = "removeListener" /\ Answer(<<Accept>>) /\ UNCHANGED <<sent, events>>
              /\ subscribed' = [subscribed EXCEPT ![c] = None]
           \/ call.op # "addListener" /\ \E v, r : r.k = "response" /\ SetValue(c, v, <<r>>)
<1>1. \A st, body : Status(st, body).k = "response" /\ Status(st, body).x[1] = st
  BY DEF Status, Msg
<1>2. ASSUME NEW st, NEW body, NEW o, Tell(st, body, o), call.op = "addListener" => st # NO_ERROR_STATUS
      PROVE  \E r : /\ r.k = "response" /\ (call.op = "addListener" => r.x[1] # NO_ERROR_STATUS)
                    /\ Answer(<<r>>) /\ UNCHANGED <<subscribed, sent, events>>
  BY <1>1, <1>2 DEF Tell
<1>3. ASSUME NEW v, NEW o, ServeUpdate(c, v, o), call.op # "addListener"
      PROVE  \/ \E r : /\ r.k = "response" /\ (call.op = "addListener" => r.x[1] # NO_ERROR_STATUS)
                       /\ Answer(<<r>>) /\ UNCHANGED <<subscribed, sent, events>>
             \/ \E u, r : r.k = "response" /\ SetValue(c, u, <<r>>)
  BY <1>1, <1>2, <1>3 DEF ServeUpdate
<1>4. NO_ERROR_STATUS = 0 /\ KEY_DOES_NOT_EXIST_STATUS = 2
  BY DEF NO_ERROR_STATUS, KEY_DOES_NOT_EXIST_STATUS
<1>5. CASE call.op = "defineCounter" /\ cell[c] = None
  <2>1. Answer(<<Status(NO_ERROR_STATUS, <<>>)>>) /\ UNCHANGED <<subscribed, sent, events>>
    BY <1>5 DEF ServeCounter
  <2>2. PICK r : r = Status(NO_ERROR_STATUS, <<>>)
    OBVIOUS
  <2>3. r.k = "response" /\ Answer(<<r>>) /\ call.op # "addListener"
    BY <1>1, <1>5, <2>1, <2>2
  <2>4. \E t : /\ t.k = "response" /\ (call.op = "addListener" => t.x[1] # NO_ERROR_STATUS)
               /\ Answer(<<t>>) /\ UNCHANGED <<subscribed, sent, events>>
    BY <2>1, <2>3
  <2>5. QED
    BY <2>4
<1>6. CASE call.op = "defineCounter" /\ cell[c] # None
  <2>1. Tell(NOT_PUT_REMOVED_REPLACED_STATUS, <<>>, Outcome("ret", FALSE))
    BY <1>6 DEF ServeCounter
  <2>2. QED
    BY <1>2, <1>6, <2>1
<1>7. CASE call.op # "defineCounter" /\ cell[c] = None
  <2>1. Tell(KEY_DOES_NOT_EXIST_STATUS, <<>>, Outcome("missing", 0))
    BY <1>7 DEF ServeCounter
  <2>2. KEY_DOES_NOT_EXIST_STATUS # NO_ERROR_STATUS
    BY <1>4
  <2>3. QED
    BY <1>2, <2>1, <2>2
<1>8. CASE /\ call.op \in {"getStrongCounter", "getWeakCounter", "getConfiguration"}
           /\ cell[c] # None
  <2>1. Tell(NO_ERROR_STATUS, writeConfiguration(cell[c].cfg), Outcome("ret", cell[c].cfg))
    BY <1>8 DEF ServeCounter
  <2>2. QED
    BY <1>2, <1>8, <2>1
<1>9. CASE call.op = "getValue" /\ cell[c] # None
  <2>1. Tell(NO_ERROR_STATUS, <<cell[c].value>>, Outcome("ret", cell[c].value))
    BY <1>9 DEF ServeCounter
  <2>2. QED
    BY <1>2, <1>9, <2>1
<1>10. CASE call.op = "addAndGet" /\ cell[c] # None
  <2>1. ServeUpdate(c, cell[c].value + call.x, cell[c].value + call.x)
    BY <1>10 DEF ServeCounter
  <2>2. QED
    BY <1>3, <1>10, <2>1
<1>11. CASE call.op = "compareAndSwap" /\ cell[c] # None
  <2>1. IF cell[c].value = call.x
        THEN ServeUpdate(c, call.y, cell[c].value)
        ELSE Tell(NO_ERROR_STATUS, <<cell[c].value>>, Outcome("ret", cell[c].value))
    BY <1>11 DEF ServeCounter
  <2>2. QED
    BY <1>2, <1>3, <1>11, <2>1
<1>12. CASE call.op = "reset" /\ cell[c] # None
  <2>1. SetValue(c, cell[c].cfg.initial, <<Status(NO_ERROR_STATUS, <<>>)>>)
    BY <1>12 DEF ServeCounter
  <2>2. PICK v, r : v = cell[c].cfg.initial /\ r = Status(NO_ERROR_STATUS, <<>>)
    OBVIOUS
  <2>3. r.k = "response" /\ SetValue(c, v, <<r>>)
    BY <1>1, <2>1, <2>2
  <2>4. \E w, t : t.k = "response" /\ SetValue(c, w, <<t>>)
    BY <2>3
  <2>5. QED
    BY <1>12, <2>4
<1>13. CASE call.op \in {"remove", "removeCounter"} /\ cell[c] # None
  <2>1. Answer(<<Status(NO_ERROR_STATUS, <<>>)>>) /\ UNCHANGED <<subscribed, sent, events>>
    BY <1>13 DEF ServeCounter
  <2>2. PICK r : r = Status(NO_ERROR_STATUS, <<>>)
    OBVIOUS
  <2>3. r.k = "response" /\ Answer(<<r>>) /\ call.op # "addListener"
    BY <1>1, <1>13, <2>1, <2>2
  <2>4. \E t : /\ t.k = "response" /\ (call.op = "addListener" => t.x[1] # NO_ERROR_STATUS)
               /\ Answer(<<t>>) /\ UNCHANGED <<subscribed, sent, events>>
    BY <2>1, <2>3
  <2>5. QED
    BY <2>4
<1>14. CASE call.op \in {"addListener", "removeListener"} /\ cell[c] # None
  BY <1>14 DEF ServeCounter, Accept
<1>15. QED
  BY <1>5, <1>6, <1>7, <1>8, <1>9, <1>10, <1>11, <1>12, <1>13, <1>14 DEF CounterOps

\* The events of the current state that the server may send.
Immediates == {<<>>} \cup {<<Msg(t, <<0>>)>> : t \in Immediate}

\* An accepted registration finds the events of the current state, then the response.
LEMMA RegisteringStarts ==
    ASSUME ServerEvents, NEW first \in Immediates
    PROVE  /\ RegisteringIs(<<>>, first \o <<Accept>>, first, "open")
           /\ first \in Seq(EventMsg) /\ first \o <<Accept>> \in Seq(EventMsg \cup {Accept})
<1>1. PICK h : h = <<>>
  OBVIOUS
<1>2. h \in Seq(EventMsg) /\ Len(h) = 0
  BY <1>1
<1>3. CASE first = <<>>
  <2>1. PICK q : q = first \o <<Accept>>
    OBVIOUS
  <2>2. q = <<Accept>> /\ Len(q) = 1 /\ q[1] = Accept /\ q \in Seq(EventMsg \cup {Accept})
    BY <1>3, <2>1
  <2>3. Stream(h, q, 1, first) /\ Complete(h, q, 1, first)
    BY <1>1, <1>2, <1>3, <2>2 DEF Stream, Complete, Extra
  <2>4. \A i \in 1 .. Len(q) : 1 = 0 \/ i < 1 => q[i].k # "expired"
    BY <2>2
  <2>5. RegisteringIs(h, q, first, "open")
    BY <2>2, <2>3, <2>4 DEF RegisteringIs
  <2>6. QED
    BY <1>1, <1>3, <2>1, <2>2, <2>5
<1>4. CASE first # <<>>
  <2>1. PICK t \in Immediate : first = <<Msg(t, <<0>>)>>
    BY <1>4 DEF Immediates
  <2>2. PICK e : e = Msg(t, <<0>>) /\ e \in EventMsg /\ e.k = t /\ t # "expired"
    BY EventIs DEF ServerEvents
  <2>3. PICK q : q = first \o <<Accept>>
    OBVIOUS
  <2>4. first \in Seq(EventMsg) /\ Len(first) = 1 /\ first[1] = e
    BY <2>1, <2>2
  <2>5. /\ Len(q) = 2 /\ q[1] = e /\ q[2] = Accept
        /\ q \in Seq(EventMsg \cup {Accept})
    <3>1. PICK a, S : a = <<Accept>> /\ S = EventMsg \cup {Accept}
      OBVIOUS
    <3>2. a \in Seq(S) /\ Len(a) = 1 /\ a[1] = Accept /\ first \in Seq(S) /\ q = first \o a
      BY <2>2, <2>3, <2>4, <3>1
    <3>3. /\ Len(q) = Len(first) + Len(a) /\ q \in Seq(S)
          /\ \A i \in 1 .. Len(first) + Len(a) :
                q[i] = IF i <= Len(first) THEN first[i] ELSE a[i - Len(first)]
      BY <3>2, ConcatProperties
    <3>4. Len(q) = 2 /\ q[1] = first[1] /\ q[2] = a[1]
      BY <2>4, <3>2, <3>3
    <3>5. QED
      BY <2>4, <3>1, <3>2, <3>3, <3>4
  <2>6. \A i \in 1 .. Len(q) : i = 1 \/ i = 2
    BY <2>5
  <2>7. Stream(h, q, 2, first) /\ Complete(h, q, 2, first)
    BY <1>2, <2>2, <2>4, <2>5, <2>6 DEF Stream, Complete, Extra
  <2>8. \A i \in 1 .. Len(q) : 2 = 0 \/ i < 2 => q[i].k # "expired"
    BY <2>2, <2>5, <2>6
  <2>9. RegisteringIs(h, q, first, "open")
    BY <2>5, <2>7, <2>8 DEF RegisteringIs
  <2>10. QED
    BY <1>1, <2>3, <2>4, <2>5, <2>9
<1>5. QED
  BY <1>3, <1>4

\* The server serves the request.
LEMMA ServeDelivers ==
    ASSUME ServerEvents, EventsInv, CallsOK, DeliveryInv, Serve
    PROVE  DeliveryInv'
<1>1. /\ ShapesOK /\ SubscribedOK /\ QuietOK /\ RequestOK /\ ListenersOK /\ ExitedOK
      /\ RegisteredOK /\ DispatchersOK /\ OwnedOK /\ Types /\ PlaceOK /\ RunningOK
  BY DEF DeliveryInv, EventsInv
<1>2. /\ pc = "sent" /\ pc' = "served" /\ socket[conn] = "open"
      /\ UNCHANGED <<call, conn, pool, socket, eventDispatchers, thread, heard, recovered>>
  BY DEF Serve
<1>3. /\ conn \in Conn /\ conn # None /\ in[conn] = <<>> /\ \A s \in Sub : subscribed[s] # conn
      /\ Listener \cap Counter = {} /\ None \notin Counter \cup Id
  BY <1>1, <1>2, EventsAssumption DEF PlaceOK, Types, RequestOK, Id
<1>4. ASSUME NEW r, Answer(<<r>>)
      PROVE  DOMAIN in' = Conn /\ in'[conn] = <<r>> /\ \A n \in Conn : n # conn => in'[n] = in[n]
  <2>1. <<r>> \in Seq({r})
    OBVIOUS
  <2>2. QED
    BY <1>1, <1>3, <1>4, <2>1, AnsweredIs
<1>5. ASSUME NEW r, Answer(<<r>>), UNCHANGED <<sent, events>>,
             subscribed' \in [Sub -> Conn \cup {None}],
             \A s \in Sub : subscribed'[s] \in {subscribed[s], None},
             \/ r = Error
             \/ /\ r.k = "response"
                /\ call.op = "addClientListener" => ~isSuccess(r.x[1])
                /\ call.op = "addListener" => r.x[1] # NO_ERROR_STATUS
      PROVE  DeliveryInv'
  <2>1. ~ \E s \in Sub : subscribed'[s] = conn
    BY <1>3, <1>5
  <2>2. OneAnswer(call.op, in'[conn])
    BY <1>4, <1>5 DEF OneAnswer
  <2>3. ServedOK'
    BY <1>2, <2>1, <2>2 DEF ServedOK
  <2>4. ShapesOK'
    BY <1>1, <1>4, <1>5 DEF ShapesOK
  <2>5. QED
    BY <1>2, <1>4, <1>5, <2>3, <2>4, ServedDelivers
<1>6. subscribed \in [Sub -> Conn \cup {None}] /\ \A s : [subscribed EXCEPT ![s] = None] \in [Sub -> Conn \cup {None}]
  BY <1>1 DEF ShapesOK
<1>7. \A st, body : Status(st, body).k = "response" /\ Status(st, body).x[1] = st
  BY DEF Status, Msg
<1>8. CASE call.l # None /\ ServeListener(call.l)
  <2>1. call.op = "addClientListener" /\ UNCHANGED events /\ call.l \in Listener
    BY <1>1, <1>8 DEF ServeListener, PlaceOK
  <2>2. PICK l : l = call.l /\ l \in Listener /\ l \in Sub
    BY <2>1 DEF Sub
  <2>3. CASE /\ Answer(<<Status(NOT_PUT_REMOVED_REPLACED_STATUS, <<>>)>>)
             /\ UNCHANGED <<subscribed, sent>>
    <3>1. ~isSuccess(NOT_PUT_REMOVED_REPLACED_STATUS)
      BY DEF isSuccess, NOT_PUT_REMOVED_REPLACED_STATUS, NO_ERROR_STATUS, NO_ERROR_STATUS_COMPAT,
         SUCCESS_WITH_PREVIOUS, SUCCESS_WITH_PREVIOUS_COMPAT
    <3>2. PICK r : r = Status(NOT_PUT_REMOVED_REPLACED_STATUS, <<>>)
      OBVIOUS
    <3>3. r.k = "response" /\ ~isSuccess(r.x[1]) /\ Answer(<<r>>)
      BY <1>7, <2>3, <3>1, <3>2
    <3>4. QED
      BY <1>5, <1>6, <2>1, <2>3, <3>3
  <2>4. ASSUME NEW first \in Immediates,
               Answer(first \o <<Status(NO_ERROR_STATUS, <<>>)>>),
               subscribed' = [subscribed EXCEPT ![call.l] = conn],
               sent' = [sent EXCEPT ![call.l] = first]
        PROVE  DeliveryInv'
    <3>1. PICK q : q = first \o <<Accept>> /\ q \in Seq(EventMsg \cup {Accept})
      BY RegisteringStarts
    <3>2. RegisteringIs(<<>>, q, first, "open") /\ first \in Seq(EventMsg)
      BY <3>1, RegisteringStarts
    <3>3. DOMAIN in' = Conn /\ in'[conn] = q /\ \A n \in Conn : n # conn => in'[n] = in[n]
      BY <1>1, <1>3, <2>4, <3>1, AnsweredIs DEF Accept
    <3>4. /\ subscribed' \in [Sub -> Conn \cup {None}] /\ subscribed'[l] = conn
          /\ \A s \in Sub : s # l => subscribed'[s] = subscribed[s]
          /\ DOMAIN sent' = Listener /\ sent'[l] = first
          /\ \A k \in Listener : k # l => sent'[k] = sent[k]
      BY <1>1, <1>3, <1>6, <2>2, <2>4 DEF ShapesOK
    <3>5. heard[l] = <<>>
      BY <1>1, <1>2, <2>1, <2>2 DEF RequestOK
    <3>6. ServedOK'
      BY <1>2, <2>1, <2>2, <3>2, <3>3, <3>4, <3>5 DEF ServedOK
    <3>7. ShapesOK'
      BY <1>1, <2>1, <3>3, <3>4 DEF ShapesOK
    <3>8. QED
      BY <1>2, <2>1, <2>2, <3>3, <3>4, <3>6, <3>7, ServedDelivers
  <2>5. QED
    BY <1>8, <2>3, <2>4 DEF ServeListener, Immediates
<1>9. CASE call.l # None /\ ServeRemoval(call.l)
  <2>1. call.op = "removeClientListener" /\ UNCHANGED <<sent, events>>
    BY <1>9 DEF ServeRemoval
  <2>2. PICK r : r.k = "response" /\ Answer(<<r>>)
    <3>1. PICK st \in {NO_ERROR_STATUS, NOT_PUT_REMOVED_REPLACED_STATUS} :
            Answer(<<Status(st, <<>>)>>)
      BY <1>9 DEF ServeRemoval
    <3>2. PICK m : m = Status(st, <<>>)
      OBVIOUS
    <3>3. m.k = "response" /\ Answer(<<m>>)
      BY <1>7, <3>1, <3>2
    <3>4. QED
      BY <3>3
  <2>3. subscribed' = subscribed \/ subscribed' = [subscribed EXCEPT ![call.l] = None]
    BY <1>9 DEF ServeRemoval
  <2>4. subscribed' \in [Sub -> Conn \cup {None}] /\ \A s \in Sub : subscribed'[s] \in {subscribed[s], None}
    BY <1>6, <2>3
  <2>5. QED
    BY <1>5, <2>1, <2>2, <2>4
<1>10. CASE ServeError
  <2>1. Answer(<<Error>>) /\ UNCHANGED <<subscribed, sent, events>>
    BY <1>10 DEF ServeError, Error
  <2>2. QED
    BY <1>5, <1>6, <2>1
<1>11. CASE call.c # None /\ ServeCounter(call.c)
  <2>1. call.op \in CounterOps /\ call.c \in Counter /\ call.op # "addClientListener"
    BY <1>1, <1>2, <1>11 DEF CallsOK, Requesting, PlaceOK, CounterOps
  <2>2. PICK c : c = call.c /\ c \in Counter /\ c \in Sub
    BY <2>1 DEF Sub
  <2>3. ASSUME NEW r, r.k = "response", call.op = "addListener" => r.x[1] # NO_ERROR_STATUS,
               Answer(<<r>>), UNCHANGED <<subscribed, sent, events>>
        PROVE  DeliveryInv'
    BY <1>5, <1>6, <2>1, <2>3
  <2>4. ASSUME call.op = "removeListener", Answer(<<Accept>>), UNCHANGED <<sent, events>>,
               subscribed' = [subscribed EXCEPT ![c] = None]
        PROVE  DeliveryInv'
    <3>1. subscribed' \in [Sub -> Conn \cup {None}] /\ \A s \in Sub : subscribed'[s] \in {subscribed[s], None}
      BY <1>6, <2>4
    <3>2. QED
      BY <1>5, <2>4, <3>1, AcceptIsNoEvent
  <2>5. ASSUME call.op = "addListener", Answer(<<Accept>>), UNCHANGED <<sent, events>>,
               subscribed' = [subscribed EXCEPT ![c] =
                        IF counterDispatcher \in DOMAIN eventDispatchers
                           /\ socket[Transport(counterDispatcher)] = "open"
                        THEN Transport(counterDispatcher) ELSE conn]
        PROVE  DeliveryInv'
    <3>1. counterDispatcher \notin DOMAIN eventDispatchers
      BY <1>1, <1>3, <2>5 DEF CallsOK, DispatchersOK
    <3>2. /\ subscribed' \in [Sub -> Conn \cup {None}] /\ subscribed'[c] = conn
          /\ \A s \in Sub : s # c => subscribed'[s] = subscribed[s]
      BY <1>3, <1>6, <2>2, <2>5, <3>1
    <3>3. /\ DOMAIN in' = Conn /\ in'[conn] = <<Accept>>
          /\ \A n \in Conn : n # conn => in'[n] = in[n]
      BY <1>4, <2>5
    <3>4. AcceptingIs(in'[conn], socket[conn])
      <4>1. PICK q : q = <<Accept>>
        OBVIOUS
      <4>2. q \in Seq({Accept}) /\ q # <<>> /\ q[1] = Accept
        BY <4>1
      <4>3. QED
        BY <3>3, <4>1, <4>2 DEF AcceptingIs
    <3>5. ServedOK'
      BY <1>2, <2>2, <2>5, <3>2, <3>4 DEF ServedOK
    <3>6. ShapesOK'
      BY <1>1, <2>5, <3>2, <3>3 DEF ShapesOK
    <3>7. QED
      BY <1>2, <2>2, <2>5, <3>2, <3>3, <3>5, <3>6, ServedDelivers
  <2>6. ASSUME call.op # "addListener", NEW v, NEW r, r.k = "response", SetValue(c, v, <<r>>)
        PROVE  DeliveryInv'
    <3>1. /\ DOMAIN in' = Conn /\ events' \in Nat /\ UNCHANGED <<subscribed, sent>>
          /\ \A m \in Conn : \A S :
                in[m] \in Seq(S) /\ m # conn
                    /\ (m # subscribed[c] \/ socket[m] # "open") => in'[m] = in[m]
      BY <1>1, <2>6, SetValueIs
    <3>2. in'[conn] = <<r>>
      BY <1>1, <1>3, <2>2, <2>6, SetValueIs
    <3>3. ASSUME NEW n \in Conn, n # conn, n \in pool \/ socket[n] = "unused"
          PROVE  in'[n] = in[n]
      <4>1. in[n] = <<>> /\ <<>> \in Seq({})
        BY <1>1, <3>3 DEF QuietOK
      <4>2. n # subscribed[c] \/ socket[n] # "open"
        BY <2>2, <3>3, OwnersAre
      <4>3. QED
        BY <3>1, <3>3, <4>1, <4>2
    <3>4. ASSUME NEW l \in Listener \cap DOMAIN eventDispatchers, eventDispatchers[l] # conn
          PROVE  in'[eventDispatchers[l]] = in[eventDispatchers[l]]
      <4>1. in[eventDispatchers[l]] \in Seq(EventMsg) /\ eventDispatchers[l] \in Conn
        BY <1>1, <3>4 DEF ListenersOK, ListenerOK, RegisteredIs, DispatchersOK
      <4>2. eventDispatchers[l] # subscribed[c]
        BY <1>3, <2>2, OwnersAre
      <4>3. QED
        BY <3>1, <3>4, <4>1, <4>2
    <3>5. OneAnswer(call.op, in'[conn])
      BY <2>1, <2>6, <3>2 DEF OneAnswer
    <3>6. ServedOK'
      BY <1>2, <1>3, <3>1, <3>5 DEF ServedOK
    <3>7. ShapesOK'
      BY <1>1, <3>1 DEF ShapesOK
    <3>8. QED
      BY <1>2, <3>1, <3>3, <3>4, <3>6, <3>7, ServedDelivers
  <2>7. QED
    BY <1>11, <2>1, <2>2, <2>3, <2>4, <2>5, <2>6, ServeCounterIs
<1>12. QED
  BY <1>8, <1>9, <1>10, <1>11 DEF Serve

\* The application thread has no connection any more.
Parted ==
    /\ conn' = None
    /\ \/ pc' \in {"idle", "borrow", "stopping"}
       \/ pc' = "join" /\ call'.op # "removeClientListener"

\* It leaves every dispatcher whose connection is not destroyed as it was, but perhaps the
\* one on its own connection.
LEMMA PartedDelivers ==
    ASSUME EventsInv, CallsOK, DeliveryInv, ShapesOK', QuietOK', ExitedOK', Parted,
           UNCHANGED <<subscribed, sent, heard>>,
           \A n \in Conn : socket'[n] \in {socket[n], "unused"},
           \A d \in DOMAIN eventDispatchers :
                eventDispatchers[d] # conn /\ socket'[eventDispatchers[d]] # "unused" =>
                    /\ d \in DOMAIN eventDispatchers' /\ eventDispatchers'[d] = eventDispatchers[d]
                    /\ in'[eventDispatchers[d]] = in[eventDispatchers[d]]
                    /\ thread'[d] = thread[d],
           \A s \in Sub : subscribed[s] = conn /\ conn # None /\ socket'[conn] # "unused" =>
                \E d \in DOMAIN eventDispatchers' :
                    /\ eventDispatchers'[d] = conn
                    /\ IF s \in Listener THEN s = d ELSE d \in DispatcherId,
           \A l \in Listener \cap DOMAIN eventDispatchers' :
                \/ l \notin DOMAIN eventDispatchers
                \/ eventDispatchers[l] = conn
                \/ socket'[eventDispatchers[l]] = "unused"
                => ListenerOK(l)'
    PROVE  DeliveryInv'
<1>1. /\ ShapesOK /\ SubscribedOK /\ QuietOK /\ RequestOK /\ ListenersOK /\ ExitedOK
      /\ RegisteredOK /\ DispatchersOK /\ OwnedOK /\ Types /\ PlaceOK /\ RunningOK
  BY DEF DeliveryInv, EventsInv
<1>2. None \notin Conn /\ Listener \cap Counter = {} /\ Listener \cap DispatcherId = {}
  BY EventsAssumption
<1>3. RequestOK'
  BY DEF RequestOK, Parted
<1>4. ASSUME NEW s \in Sub, Live(s)'
      PROVE  Live(s) /\ subscribed'[s] = subscribed[s] /\ socket'[subscribed[s]] # "unused"
  BY <1>1, <1>4 DEF Live, ShapesOK
<1>5. SubscribedOK'
  <2>1. ASSUME NEW l \in Listener, Live(l)'
        PROVE  l \in DOMAIN eventDispatchers' /\ eventDispatchers'[l] = subscribed[l]
    <3>1. l \in Sub /\ Live(l) /\ socket'[subscribed[l]] # "unused" /\ subscribed[l] # None
      BY <1>4, <2>1 DEF Sub, Live
    <3>2. l \in DOMAIN eventDispatchers /\ eventDispatchers[l] = subscribed[l]
      BY <1>1, <3>1 DEF SubscribedOK
    <3>3. CASE subscribed[l] = conn
      <4>1. PICK d \in DOMAIN eventDispatchers' : eventDispatchers'[d] = conn /\ l = d
        BY <3>1, <3>3
      <4>2. QED
        BY <3>3, <4>1
    <3>4. CASE subscribed[l] # conn
      BY <3>1, <3>2, <3>4
    <3>5. QED
      BY <3>3, <3>4
  <2>2. ASSUME NEW c \in Counter, Live(c)'
        PROVE  \E d \in DispatcherId \cap DOMAIN eventDispatchers' : eventDispatchers'[d] = subscribed[c]
    <3>1. c \in Sub /\ Live(c) /\ socket'[subscribed[c]] # "unused" /\ subscribed[c] # None
      BY <1>4, <2>2 DEF Sub, Live
    <3>2. CASE subscribed[c] = conn
      <4>1. PICK d \in DOMAIN eventDispatchers' : eventDispatchers'[d] = conn /\ d \in DispatcherId
        BY <1>2, <3>1, <3>2
      <4>2. QED
        BY <3>2, <4>1
    <3>3. CASE subscribed[c] # conn
      <4>1. PICK d \in DispatcherId \cap DOMAIN eventDispatchers : eventDispatchers[d] = subscribed[c]
        BY <1>1, <3>1, <3>3 DEF SubscribedOK
      <4>2. QED
        BY <3>1, <3>3, <4>1
    <3>4. QED
      BY <3>2, <3>3
  <2>3. QED
    BY <2>1, <2>2 DEF SubscribedOK
<1>6. ListenersOK'
  <2>1. ASSUME NEW l \in Listener \cap DOMAIN eventDispatchers' PROVE ListenerOK(l)'
    <3>1. CASE \/ l \notin DOMAIN eventDispatchers \/ eventDispatchers[l] = conn
               \/ socket'[eventDispatchers[l]] = "unused"
      BY <3>1
    <3>2. CASE /\ l \in DOMAIN eventDispatchers /\ eventDispatchers[l] # conn
               /\ socket'[eventDispatchers[l]] # "unused"
      <4>1. Untouched(l)
        BY <1>1, <3>2 DEF Untouched, DispatchersOK
      <4>2. QED
        BY <1>1, <4>1, UntouchedKeeps
    <3>3. QED
      BY <3>1, <3>2
  <2>2. QED
    BY <2>1 DEF ListenersOK
<1>7. QED
  BY <1>3, <1>5, <1>6 DEF DeliveryInv

\* Steps that touch no connection and no dispatcher.
LEMMA QuietStepDelivers ==
    ASSUME EventsInv, CallsOK, DeliveryInv, Parted, conn = None,
           UNCHANGED <<subscribed, sent, heard, socket, in, pool, eventDispatchers, thread,
                       recovered, events>>
    PROVE  DeliveryInv'
<1>1. ShapesOK' /\ QuietOK' /\ ExitedOK'
  BY DEF DeliveryInv, ShapesOK, QuietOK, ExitedOK
<1>2. \A d \in DOMAIN eventDispatchers :
        eventDispatchers[d] # conn /\ socket[eventDispatchers[d]] # "unused"
  BY EventsAssumption DEF EventsInv, DispatchersOK, OwnedOK
<1>3. QED
  BY <1>1, <1>2, PartedDelivers

\* Calls.
LEMMA NewCallDelivers ==
    ASSUME EventsInv, CallsOK, DeliveryInv, NewCall
    PROVE  DeliveryInv'
<1>1. ShapesOK /\ ExitedOK /\ Types /\ PlaceOK /\ DispatchersOK
  BY DEF DeliveryInv, EventsInv
<1>2. pc = "idle"
  BY NewCallIs DEF LocalIs, stop, start, Remote, Call
<1>3. conn = None
  BY <1>1, <1>2 DEF PlaceOK
<1>4. ASSUME NEW r, Remote(r) PROVE DeliveryInv'
  <2>1. /\ pc' = "borrow" /\ conn' = conn
        /\ UNCHANGED <<subscribed, sent, heard, socket, in, pool, eventDispatchers, thread,
                       recovered, events>>
    BY <1>4 DEF Remote, Call, links, server, history
  <2>2. QED
    BY <1>3, <2>1, QuietStepDelivers DEF Parted
<1>5. CASE LocalIs
  BY <1>3, <1>5, QuietStepDelivers DEF LocalIs, Parted
<1>6. CASE stop
  <2>1. /\ pc' = "stopping" /\ conn' = conn
        /\ UNCHANGED <<subscribed, sent, heard, socket, in, pool, eventDispatchers, thread,
                       recovered, events>>
    BY <1>6 DEF stop, Call, links, server, history
  <2>2. QED
    BY <1>3, <2>1, QuietStepDelivers DEF Parted
<1>7. CASE start
  <2>1. /\ pc' = "idle" /\ conn' = conn /\ eventDispatchers' = <<>> /\ thread' = [d \in Id |-> NoThread]
        /\ pool' = {} /\ Destroyed(Conn) /\ UNCHANGED <<subscribed, sent, heard, recovered, events>>
    BY <1>7 DEF start, Call, server, history
  <2>2. /\ DOMAIN eventDispatchers' = {} /\ DOMAIN in' = Conn
        /\ \A n \in Conn : socket'[n] = "unused" /\ in'[n] = <<>>
    BY <2>1 DEF Destroyed
  <2>3. ShapesOK' /\ QuietOK'
    BY <1>1, <2>1, <2>2 DEF ShapesOK, QuietOK
  <2>4. ExitedOK'
    BY <2>1 DEF ExitedOK, NoThread, Id
  <2>5. Parted
    BY <1>3, <2>1 DEF Parted
  <2>6. \A d \in DOMAIN eventDispatchers : socket'[eventDispatchers[d]] = "unused"
    BY <1>1, <2>2 DEF DispatchersOK
  <2>7. QED
    BY <1>3, <2>1, <2>2, <2>3, <2>4, <2>5, <2>6, PartedDelivers
<1>8. QED
  BY <1>4, <1>5, <1>6, <1>7, NewCallIs

\* The operation's connection is lost, or there is none.
LEMMA FailureDelivers ==
    ASSUME EventsInv, CallsOK, DeliveryInv,
           connectionLost \/ answerTimesOut \/ getTransportFails
    PROVE  DeliveryInv'
<1>1. /\ ShapesOK /\ SubscribedOK /\ QuietOK /\ RequestOK /\ ListenersOK /\ ExitedOK
      /\ RegisteredOK /\ DispatchersOK /\ OwnedOK /\ Types /\ PlaceOK /\ RunningOK
  BY DEF DeliveryInv, EventsInv
<1>2. CASE getTransportFails
  <2>1. /\ Retry /\ pc = "borrow"
        /\ UNCHANGED <<subscribed, sent, heard, socket, in, pool, eventDispatchers, thread,
                       recovered, events>>
    BY <1>2 DEF getTransportFails, links, server, history
  <2>2. Parted /\ conn = None
    BY <1>1, <2>1 DEF Retry, Return, Parted, PlaceOK
  <2>3. QED
    BY <2>1, <2>2, QuietStepDelivers
<1>3. CASE transportException /\ pc \in {"send", "sent", "served"}
  <2>1. /\ Destroyed({conn}) /\ Retry
        /\ eventDispatchers' = (IF call.op = "addClientListener" /\ pc # "send"
                                THEN Erased(call.l) ELSE eventDispatchers)
        /\ UNCHANGED <<pool, thread, subscribed, sent, heard, recovered, events>>
    BY <1>3 DEF transportException, server, history
  <2>2. Parted
    BY <2>1 DEF Retry, Return, Parted
  <2>3. conn \in Conn /\ conn \in lent
    BY <1>1, <1>3 DEF PlaceOK, Types
  <2>4. /\ DOMAIN in' = Conn /\ socket'[conn] = "unused" /\ in'[conn] = <<>>
        /\ \A n \in Conn : n # conn => socket'[n] = socket[n] /\ in'[n] = in[n]
    BY <2>1, <2>3 DEF Destroyed
  <2>5. ShapesOK' /\ QuietOK' /\ ExitedOK'
    BY <1>1, <2>1, <2>4 DEF ShapesOK, QuietOK, ExitedOK
  <2>6. /\ DOMAIN eventDispatchers' \subseteq DOMAIN eventDispatchers
        /\ \A d \in DOMAIN eventDispatchers : eventDispatchers[d] # conn =>
                d \in DOMAIN eventDispatchers' /\ eventDispatchers'[d] = eventDispatchers[d]
        /\ \A d \in DOMAIN eventDispatchers' : eventDispatchers[d] # conn
    <3>1. CASE call.op = "addClientListener" /\ pc # "send"
      <4>1. eventDispatchers' = Erased(call.l) /\ eventDispatchers[call.l] = conn
        BY <1>1, <1>3, <2>1, <3>1 DEF RegisteredOK
      <4>2. \A d \in DOMAIN eventDispatchers : eventDispatchers[d] = conn => d = call.l
        BY <1>1 DEF RegisteredOK
      <4>3. QED
        BY <4>1, <4>2 DEF Erased
    <3>2. CASE ~(call.op = "addClientListener" /\ pc # "send")
      <4>1. \A d \in DOMAIN eventDispatchers : eventDispatchers[d] # conn
        BY <1>1, <1>3, <3>2 DEF RegisteredOK
      <4>2. QED
        BY <2>1, <3>2, <4>1
    <3>3. QED
      BY <3>1, <3>2
  <2>7. \A d \in DOMAIN eventDispatchers : eventDispatchers[d] # conn =>
            /\ d \in DOMAIN eventDispatchers' /\ eventDispatchers'[d] = eventDispatchers[d]
            /\ in'[eventDispatchers[d]] = in[eventDispatchers[d]]
            /\ thread'[d] = thread[d]
    BY <1>1, <2>1, <2>4, <2>6 DEF DispatchersOK
  <2>8. \A l \in Listener \cap DOMAIN eventDispatchers' :
            /\ l \in DOMAIN eventDispatchers /\ eventDispatchers[l] # conn
            /\ socket'[eventDispatchers[l]] # "unused"
    BY <1>1, <2>4, <2>6 DEF OwnedOK, DispatchersOK
  <2>9. \A n \in Conn : socket'[n] \in {socket[n], "unused"}
    BY <2>4
  <2>10. QED
    BY <2>1, <2>2, <2>4, <2>5, <2>7, <2>8, <2>9, PartedDelivers
<1>4. QED
  BY <1>2, <1>3 DEF connectionLost, answerTimesOut, Waiting

\* The steps that wait for dispatchers.
LEMMA JoinDelivers ==
    ASSUME EventsInv, CallsOK, DeliveryInv,
           stopDispatcher \/ removeJoined \/ counterJoined \/ stopJoined \/ stopped
    PROVE  DeliveryInv'
<1>1. /\ ShapesOK /\ SubscribedOK /\ QuietOK /\ RequestOK /\ ListenersOK /\ ExitedOK
      /\ RegisteredOK /\ DispatchersOK /\ OwnedOK /\ Types /\ PlaceOK /\ RunningOK
  BY DEF DeliveryInv, EventsInv
<1>2. CASE stopDispatcher
  <2>1. PICK d \in call.todo :
            /\ call' = [call EXCEPT !.d = d]
            /\ IF d \in DOMAIN eventDispatchers THEN Close(Transport(d)) ELSE UNCHANGED <<socket, in>>
    BY <1>2 DEF stopDispatcher
  <2>2. /\ pc = "stopping" /\ pc' = "join"
        /\ UNCHANGED <<conn, pool, eventDispatchers, thread, subscribed, sent, heard, recovered,
                       events>>
    BY <1>2 DEF stopDispatcher, server, history
  <2>3. conn = None /\ call'.op # "removeClientListener"
    BY <1>1, <2>1, <2>2 DEF PlaceOK, Types, CallType
  <2>4. CASE d \in DOMAIN eventDispatchers
    <3>1. PICK n : n = eventDispatchers[d] /\ n \in Conn /\ socket[n] # "unused"
      BY <1>1, <2>4 DEF DispatchersOK, OwnedOK
    <3>2. PICK k \in 0 .. Len(in[n]) : in' = [in EXCEPT ![n] = SubSeq(@, 1, k)]
      BY <2>1, <2>4, <3>1 DEF Close, Transport
    <3>3. PICK to : to = IF socket[n] = "open" THEN "closed" ELSE socket[n]
      OBVIOUS
    <3>4. socket' = [socket EXCEPT ![n] = to] /\ to \notin {"open", "unused"}
      BY <2>1, <2>4, <3>1, <3>3 DEF Close, Transport
    <3>5. QED
      BY <2>2, <2>3, <3>1, <3>2, <3>4, ConnectionCut
  <2>5. CASE d \notin DOMAIN eventDispatchers
    <3>1. Parted
      BY <2>2, <2>3 DEF Parted
    <3>2. QED
      BY <2>1, <2>2, <2>3, <2>5, <3>1, QuietStepDelivers
  <2>6. QED
    BY <2>4, <2>5
<1>3. CASE counterJoined
  <2>1. /\ pc = "join" /\ call.op = "removeListener" /\ Return("ret", 0)
        /\ UNCHANGED <<subscribed, sent, heard, socket, in, pool, eventDispatchers, thread,
                       recovered, events>>
    BY <1>3 DEF counterJoined, links, server
  <2>2. Parted /\ conn = None
    BY <1>1, <2>1 DEF Return, Parted, PlaceOK
  <2>3. QED
    BY <2>1, <2>2, QuietStepDelivers
<1>4. CASE stopJoined
  <2>1. /\ pc = "join" /\ pc' = "stopping" /\ call.op = "stop" /\ conn' = conn
        /\ UNCHANGED <<subscribed, sent, heard, socket, in, pool, eventDispatchers, thread,
                       recovered, events>>
    BY <1>4 DEF stopJoined, links, server, history
  <2>2. Parted /\ conn = None
    BY <1>1, <2>1 DEF Parted, PlaceOK
  <2>3. QED
    BY <2>1, <2>2, QuietStepDelivers
<1>5. CASE stopped
  <2>1. /\ pc = "stopping" /\ Return("ret", 0) /\ pool' = {} /\ Destroyed(pool)
        /\ UNCHANGED <<subscribed, sent, heard, eventDispatchers, thread, recovered, events>>
    BY <1>5 DEF stopped, server, history
  <2>2. Parted /\ conn = None
    BY <1>1, <2>1 DEF Return, Parted, PlaceOK
  <2>3. /\ DOMAIN in' = Conn
        /\ \A n \in pool : socket'[n] = "unused" /\ in'[n] = <<>>
        /\ \A n \in Conn \ pool : socket'[n] = socket[n] /\ in'[n] = in[n]
    BY <1>1, <2>1 DEF Destroyed, Types
  <2>4. ShapesOK' /\ QuietOK' /\ ExitedOK'
    BY <1>1, <2>1, <2>3 DEF ShapesOK, QuietOK, ExitedOK
  <2>5. \A d \in DOMAIN eventDispatchers : /\ eventDispatchers[d] \in Conn \ pool
                                           /\ socket[eventDispatchers[d]] # "unused"
                                           /\ eventDispatchers[d] # conn
    BY <1>1, <2>2, EventsAssumption DEF OwnedOK, DispatchersOK
  <2>6. \A n \in Conn : socket'[n] \in {socket[n], "unused"}
    BY <2>3
  <2>7. QED
    BY <2>1, <2>2, <2>3, <2>4, <2>5, <2>6, PartedDelivers
<1>6. CASE removeJoined
  <2>1. PICK l, n : l = call.l /\ n = eventDispatchers[l]
    OBVIOUS
  <2>2. /\ pc = "join" /\ call.op = "removeClientListener" /\ Return("ret", 0)
        /\ pool' = pool \cup {conn} /\ Destroyed({n}) /\ eventDispatchers' = Erased(l)
        /\ UNCHANGED <<subscribed, sent, heard, thread, recovered, events>>
    BY <1>6, <2>1 DEF removeJoined, server, history, Transport
  <2>3. /\ l \in DOMAIN eventDispatchers /\ n \in Conn /\ n # conn /\ conn \in lent /\ n \notin pool
        /\ in[conn] = <<>> /\ conn \in Conn /\ socket[n] # "unused"
    BY <1>1, <2>1, <2>2 DEF RegisteredOK, DispatchersOK, PlaceOK, RequestOK, OwnedOK, Types
  <2>4. /\ DOMAIN in' = Conn /\ socket'[n] = "unused" /\ in'[n] = <<>>
        /\ \A m \in Conn : m # n => socket'[m] = socket[m] /\ in'[m] = in[m]
    BY <2>2, <2>3 DEF Destroyed
  <2>5. ShapesOK' /\ QuietOK' /\ ExitedOK'
    BY <1>1, <2>2, <2>3, <2>4 DEF ShapesOK, QuietOK, ExitedOK
  <2>6. Parted
    BY <2>2 DEF Return, Parted
  <2>7. /\ DOMAIN eventDispatchers' = DOMAIN eventDispatchers \ {l}
        /\ \A d \in DOMAIN eventDispatchers' : /\ eventDispatchers'[d] = eventDispatchers[d]
                                               /\ eventDispatchers[d] # n
                                               /\ eventDispatchers[d] # conn
                                               /\ socket[eventDispatchers[d]] # "unused"
                                               /\ eventDispatchers[d] \in Conn
    BY <1>1, <2>1, <2>2, <2>3 DEF Erased, OwnedOK, RegisteredOK, DispatchersOK
  <2>8. \A d \in DOMAIN eventDispatchers : socket'[eventDispatchers[d]] # "unused" => d \in DOMAIN eventDispatchers'
    BY <2>1, <2>4, <2>7
  <2>9. \A s \in Sub : subscribed[s] # conn
    BY <1>1, <2>2, <2>3, EventsAssumption, OwnersAre DEF Types
  <2>10. \A m \in Conn : socket'[m] \in {socket[m], "unused"}
    BY <2>4
  <2>11. QED
    BY <2>2, <2>4, <2>5, <2>6, <2>7, <2>8, <2>9, <2>10, PartedDelivers
<1>7. QED
  BY <1>2, <1>3, <1>4, <1>5, <1>6

\* A connection is borrowed.
LEMMA getTransportDelivers ==
    ASSUME EventsInv, CallsOK, DeliveryInv, getTransport
    PROVE  DeliveryInv'
<1>1. /\ ShapesOK /\ SubscribedOK /\ QuietOK /\ RequestOK /\ ListenersOK /\ ExitedOK
      /\ RegisteredOK /\ DispatchersOK /\ OwnedOK /\ Types /\ PlaceOK /\ RunningOK
  BY DEF DeliveryInv, EventsInv
<1>2. PICK fresh, n : /\ fresh = {m \in Conn : socket[m] = "unused"}
                      /\ n = IF pool # {} THEN Min(pool) ELSE Min(fresh)
  OBVIOUS
<1>3. /\ pc = "borrow" /\ pool \cup fresh # {} /\ conn' = n /\ pc' = "send" /\ pool' = pool \ {n}
      /\ socket' = IF n \in pool THEN socket ELSE [socket EXCEPT ![n] = "open"]
      /\ subscribed' = [s \in DOMAIN subscribed |->
                            IF n \notin pool /\ subscribed[s] = n THEN None ELSE subscribed[s]]
      /\ UNCHANGED <<call, in, eventDispatchers, thread, sent, heard, recovered, events>>
  BY <1>2 DEF getTransport, history
<1>4. n \in pool \/ (n \notin pool /\ n \in fresh)
  <2>1. pool \subseteq Conn /\ fresh \subseteq Conn
    BY <1>1, <1>2 DEF Types
  <2>2. CASE pool # {}
    BY <1>2, <2>1, <2>2, MinIsOne
  <2>3. CASE pool = {}
    BY <1>2, <1>3, <2>1, <2>3, MinIsOne
  <2>4. QED
    BY <2>2, <2>3
<1>5. n \in Conn /\ in[n] = <<>> /\ conn = None /\ None \notin Conn
  BY <1>1, <1>2, <1>3, <1>4, EventsAssumption DEF Types, QuietOK, PlaceOK
<1>6. /\ subscribed' \in [Sub -> Conn \cup {None}]
      /\ \A s \in Sub : subscribed'[s] # n /\ subscribed'[s] \in {subscribed[s], None}
  <2>1. \A s \in Sub : n \in pool => subscribed[s] # n
    BY OwnersAre
  <2>2. QED
    BY <1>1, <1>3, <1>5, <2>1 DEF ShapesOK
<1>7. \A m \in Conn : m # n => socket'[m] = socket[m]
  BY <1>1, <1>3 DEF Types
<1>8. n \in pool => socket' = socket
  BY <1>3
<1>9. n \notin pool => socket'[n] = "open"
  BY <1>1, <1>3, <1>5 DEF Types
<1>10. ShapesOK' /\ ExitedOK'
  BY <1>1, <1>3, <1>6 DEF ShapesOK, ExitedOK
<1>11. QuietOK'
  <2>1. n \in pool => socket[n] # "unused"
    BY <1>1 DEF OwnedOK
  <2>2. QED
    BY <1>1, <1>3, <1>7, <1>8, <1>9, <2>1 DEF QuietOK
<1>12. RequestOK'
  BY <1>3, <1>5, <1>6 DEF RequestOK
<1>13. SubscribedOK'
  <2>1. ASSUME NEW s \in Sub, Live(s)' PROVE Live(s) /\ subscribed'[s] = subscribed[s]
    <3>1. subscribed'[s] = subscribed[s] /\ subscribed[s] # n /\ subscribed[s] # None
      BY <1>6, <2>1 DEF Live
    <3>2. subscribed[s] \in Conn
      BY <1>1, <3>1 DEF ShapesOK
    <3>3. QED
      BY <1>7, <2>1, <3>1, <3>2 DEF Live
  <2>2. QED
    BY <1>1, <1>3, <2>1 DEF SubscribedOK, Sub
<1>14. ListenersOK'
  <2>1. ASSUME NEW l \in Listener \cap DOMAIN eventDispatchers PROVE Untouched(l)
    <3>1. eventDispatchers[l] # n /\ eventDispatchers[l] \in Conn
      BY <1>1, <1>2, <1>4 DEF OwnedOK, DispatchersOK
    <3>2. subscribed'[l] = subscribed[l] \/ subscribed'[l] # eventDispatchers[l]
      BY <1>5, <1>6, <3>1 DEF Sub
    <3>3. QED
      BY <1>3, <1>5, <1>7, <3>1, <3>2 DEF Untouched
  <2>2. QED
    BY <1>1, <1>3, <2>1, UntouchedKeeps DEF ListenersOK
<1>15. QED
  BY <1>10, <1>11, <1>12, <1>13, <1>14 DEF DeliveryInv

\* The request is written.
LEMMA flushDelivers ==
    ASSUME EventsInv, CallsOK, DeliveryInv, flush
    PROVE  DeliveryInv'
<1>1. /\ ShapesOK /\ SubscribedOK /\ QuietOK /\ RequestOK /\ ListenersOK /\ ExitedOK
      /\ RegisteredOK /\ DispatchersOK /\ OwnedOK /\ Types /\ PlaceOK /\ RunningOK
  BY DEF DeliveryInv, EventsInv
<1>2. /\ pc = "send" /\ pc' = "sent"
      /\ UNCHANGED <<call, conn, pool, socket, in, subscribed, events>>
  BY DEF flush, links, server
<1>3. in[conn] = <<>> /\ \A s \in Sub : subscribed[s] # conn
  BY <1>1, <1>2 DEF RequestOK
<1>4. QuietOK'
  BY <1>1, <1>2 DEF QuietOK
<1>5. ASSUME \A d \in DOMAIN eventDispatchers :
                d \in DOMAIN eventDispatchers' /\ eventDispatchers'[d] = eventDispatchers[d]
      PROVE  SubscribedOK'
  <2>1. \A s \in Sub : Live(s)' => Live(s) /\ subscribed'[s] = subscribed[s] /\ subscribed[s] # conn
    BY <1>2, <1>3 DEF Live
  <2>2. QED
    BY <1>1, <1>2, <1>5, <2>1 DEF SubscribedOK, Sub
<1>6. CASE call.op # "addClientListener"
  <2>1. UNCHANGED <<eventDispatchers, thread, sent, heard, recovered>>
    BY <1>6 DEF flush
  <2>2. ShapesOK' /\ ExitedOK'
    BY <1>1, <1>2, <2>1 DEF ShapesOK, ExitedOK
  <2>3. RequestOK'
    BY <1>2, <1>3, <1>6 DEF RequestOK
  <2>4. \A l \in Listener \cap DOMAIN eventDispatchers : eventDispatchers[l] # conn => Untouched(l)
    BY <1>2, <2>1 DEF Untouched
  <2>5. ListenersOK'
    BY <1>1, <1>2, <2>1, <2>4, UntouchedKeeps DEF ListenersOK
  <2>6. QED
    BY <1>4, <1>5, <2>1, <2>2, <2>3, <2>5 DEF DeliveryInv
<1>7. CASE call.op = "addClientListener"
  <2>1. PICK l : l = call.l /\ l \in Listener /\ l \in Id /\ l \notin DOMAIN eventDispatchers
    BY <1>1, <1>2, <1>7 DEF PlaceOK, RegisteredOK, Id
  <2>2. /\ eventDispatchers' = Inserted(l, conn) /\ thread' = [thread EXCEPT ![l] = NoThread]
        /\ sent' = [sent EXCEPT ![l] = <<>>] /\ heard' = [heard EXCEPT ![l] = <<>>]
        /\ recovered' = recovered \ {l}
    BY <1>7, <2>1 DEF flush, addClientListener_Notifier
  <2>3. /\ DOMAIN eventDispatchers' = DOMAIN eventDispatchers \cup {l} /\ eventDispatchers'[l] = conn
        /\ \A d \in DOMAIN eventDispatchers : eventDispatchers'[d] = eventDispatchers[d]
    BY <2>1, <2>2 DEF Inserted
  <2>4. /\ thread'[l].at = "none" /\ heard'[l] = <<>> /\ DOMAIN sent' = Listener
        /\ \A k \in Listener : k # l =>
                thread'[k] = thread[k] /\ heard'[k] = heard[k] /\ sent'[k] = sent[k]
    BY <1>1, <2>1, <2>2 DEF DispatchersOK, Types, ShapesOK, NoThread, Id
  <2>5. ShapesOK'
    BY <1>1, <1>2, <2>4 DEF ShapesOK
  <2>6. ExitedOK'
    BY <1>1, <2>2, <2>4 DEF ExitedOK
  <2>7. RequestOK'
    BY <1>2, <1>3, <2>1, <2>4 DEF RequestOK
  <2>8. \A k \in Listener \cap DOMAIN eventDispatchers : eventDispatchers[k] # conn => Untouched(k)
    BY <1>2, <2>1, <2>3, <2>4 DEF Untouched
  <2>9. ListenersOK'
    <3>1. ASSUME NEW k \in Listener \cap DOMAIN eventDispatchers', eventDispatchers'[k] # conn'
          PROVE  k \in DOMAIN eventDispatchers /\ eventDispatchers[k] # conn
      BY <1>2, <2>3, <3>1
    <3>2. QED
      BY <1>1, <2>8, <3>1, UntouchedKeeps DEF ListenersOK
  <2>10. QED
    BY <1>4, <1>5, <2>3, <2>5, <2>6, <2>7, <2>9 DEF DeliveryInv
<1>8. QED
  BY <1>6, <1>7

\* The answer is the only message; nobody listens on the connection.
LEMMA AnswerTakenDelivers ==
    ASSUME EventsInv, CallsOK, DeliveryInv, pc = "served", Parted,
           \A s \in Sub : subscribed[s] # conn,
           pool' \subseteq pool \cup {conn},
           in' = [in EXCEPT ![conn] = <<>>],
           UNCHANGED <<socket, subscribed, sent, heard, thread, recovered, events>>,
           \/ eventDispatchers' = eventDispatchers /\ call.op # "addClientListener"
           \/ eventDispatchers' = Erased(call.l) /\ call.op = "addClientListener"
    PROVE  DeliveryInv'
<1>1. /\ ShapesOK /\ SubscribedOK /\ QuietOK /\ RequestOK /\ ListenersOK /\ ExitedOK
      /\ RegisteredOK /\ DispatchersOK /\ OwnedOK /\ Types /\ PlaceOK /\ RunningOK
  BY DEF DeliveryInv, EventsInv
<1>2. conn \in Conn
  BY <1>1 DEF PlaceOK, Types
<1>3. DOMAIN in' = Conn /\ in'[conn] = <<>> /\ \A n \in Conn : n # conn => in'[n] = in[n]
  BY <1>1, <1>2 DEF ShapesOK
<1>4. ShapesOK' /\ QuietOK' /\ ExitedOK'
  BY <1>1, <1>3 DEF ShapesOK, QuietOK, ExitedOK
<1>5. /\ DOMAIN eventDispatchers' \subseteq DOMAIN eventDispatchers
      /\ \A d \in DOMAIN eventDispatchers : eventDispatchers[d] # conn =>
                d \in DOMAIN eventDispatchers' /\ eventDispatchers'[d] = eventDispatchers[d]
      /\ \A d \in DOMAIN eventDispatchers' : eventDispatchers[d] # conn
  <2>1. \A d \in DOMAIN eventDispatchers : eventDispatchers[d] = conn => d = call.l /\ call.op = "addClientListener"
    BY <1>1 DEF RegisteredOK
  <2>2. CASE eventDispatchers' = eventDispatchers /\ call.op # "addClientListener"
    BY <2>1, <2>2
  <2>3. CASE eventDispatchers' = Erased(call.l) /\ call.op = "addClientListener"
    <3>1. eventDispatchers[call.l] = conn
      BY <1>1, <2>3 DEF RegisteredOK
    <3>2. QED
      BY <2>1, <2>3, <3>1 DEF Erased
  <2>4. QED
    BY <2>2, <2>3
<1>6. \A d \in DOMAIN eventDispatchers : eventDispatchers[d] # conn =>
            /\ d \in DOMAIN eventDispatchers' /\ eventDispatchers'[d] = eventDispatchers[d]
            /\ in'[eventDispatchers[d]] = in[eventDispatchers[d]]
            /\ thread'[d] = thread[d]
  BY <1>1, <1>3, <1>5 DEF DispatchersOK
<1>7. \A l \in Listener \cap DOMAIN eventDispatchers' :
            /\ l \in DOMAIN eventDispatchers /\ eventDispatchers[l] # conn
            /\ socket'[eventDispatchers[l]] # "unused"
  BY <1>1, <1>5 DEF OwnedOK
<1>8. QED
  BY <1>4, <1>6, <1>7, PartedDelivers

\* What the operation reads.
LEMMA readAnswerIs ==
    ASSUME EventsInv, CallsOK, DeliveryInv, readAnswer
    PROVE  /\ pc = "served" /\ conn \in Conn /\ conn # None
           /\ \/ /\ \E s \in Sub : subscribed[s] = conn
                 /\ call.op = "addClientListener" /\ subscribed[call.l] = conn
                 /\ RegisteringIs(heard[call.l], in[conn], sent[call.l], socket[conn])
              \/ /\ \E s \in Sub : subscribed[s] = conn
                 /\ call.op = "addListener" /\ AcceptingIs(in[conn], socket[conn])
                 /\ Head(in[conn]) = Accept
              \/ /\ \A s \in Sub : subscribed[s] # conn
                 /\ SubSeq(in[conn], 1 + 1, Len(in[conn])) = <<>> /\ Tail(in[conn]) = <<>>
                 /\ \/ Head(in[conn]) = Error
                    \/ /\ Head(in[conn]).k = "response"
                       /\ call.op = "addClientListener" => ~isSuccess(Head(in[conn]).x[1])
                       /\ call.op = "addListener" => Head(in[conn]).x[1] # NO_ERROR_STATUS
<1>1. ShapesOK /\ RequestOK /\ PlaceOK /\ Types
  BY DEF DeliveryInv, EventsInv
<1>2. in[conn] # <<>> /\ pc \in {"sent", "served"}
  BY DEF readAnswer, Waiting
<1>3. pc = "served"
  BY <1>1, <1>2 DEF RequestOK
<1>4. conn \in Conn /\ conn # None /\ ServedOK
  BY <1>1, <1>3, EventsAssumption DEF PlaceOK, Types, RequestOK
<1>5. CASE \A s \in Sub : subscribed[s] # conn
  <2>1. OneAnswer(call.op, in[conn])
    BY <1>4, <1>5 DEF ServedOK
  <2>2. QED
    BY <1>2, <1>3, <1>4, <1>5, <2>1, OneAnswerTaken
<1>6. CASE \E s \in Sub : subscribed[s] = conn
  <2>1. PICK s \in Sub : subscribed[s] = conn
    BY <1>6
  <2>2. CASE /\ call.op = "addClientListener"
             /\ RegisteringIs(heard[call.l], in[conn], sent[call.l], socket[conn])
    <3>1. s = call.l
      BY <1>4, <2>1, <2>2, OwnersAre
    <3>2. QED
      BY <1>3, <1>4, <1>6, <2>1, <2>2, <3>1
  <2>3. CASE call.op = "addListener" /\ AcceptingIs(in[conn], socket[conn])
    <3>1. Head(in[conn]) = in[conn][1]
      BY <2>3 DEF AcceptingIs
    <3>2. QED
      BY <1>2, <1>3, <1>4, <1>6, <2>3, <3>1 DEF AcceptingIs
  <2>4. QED
    BY <1>4, <1>6, <2>2, <2>3 DEF ServedOK
<1>7. QED
  BY <1>5, <1>6

\* The answers of client listeners' registrations.
LEMMA answer_addClientListenerDelivers ==
    ASSUME EventsInv, CallsOK, DeliveryInv, readAnswer, UNCHANGED <<subscribed, sent, recovered, events>>,
           answer_addClientListener(call.l, Head(in[conn]))
    PROVE  DeliveryInv'
<1>1. /\ ShapesOK /\ SubscribedOK /\ QuietOK /\ RequestOK /\ ListenersOK /\ ExitedOK
      /\ RegisteredOK /\ DispatchersOK /\ OwnedOK /\ Types /\ PlaceOK /\ RunningOK
  BY DEF DeliveryInv, EventsInv
<1>2. /\ call.op = "addClientListener" /\ pc = "served" /\ conn \in Conn /\ conn # None /\ conn \in lent
      /\ in[conn] # <<>>
  BY <1>1, readAnswerIs DEF answer_addClientListener, readAnswer, PlaceOK
<1>3. PICK l, m, q : l = call.l /\ m = Head(q) /\ q = in[conn]
  OBVIOUS
<1>4. /\ l \in Listener /\ l \in Id /\ l \in DOMAIN eventDispatchers /\ eventDispatchers[l] = conn
      /\ thread[l].at = "none" /\ l \in Sub
  BY <1>1, <1>2, <1>3 DEF PlaceOK, RegisteredOK, Id, Sub
<1>5. PICK accepted : accepted = (m.k = "response" /\ isSuccess(m.x[1]))
  OBVIOUS
<1>6. IF isEvent(m)
      THEN processImmediateEvent(l, m) /\ UNCHANGED <<app, eventDispatchers, thread>>
      ELSE /\ IF m.k \in {"response", "error"}
              THEN releaseTransport_Listener(~accepted)
              ELSE Release(0)
           /\ thread' = IF accepted
                        THEN [thread EXCEPT ![l] = [at |-> "reading", event |-> None]]
                        ELSE thread
           /\ eventDispatchers' = IF accepted THEN eventDispatchers ELSE Erased(l)
           /\ IF m.k = "response" THEN Return("ret", 0) ELSE Retry
           /\ UNCHANGED heard
  BY <1>3, <1>5 DEF answer_addClientListener
<1>7. \A d \in DOMAIN eventDispatchers : d # l => eventDispatchers[d] # conn /\ eventDispatchers[d] \in Conn
  BY <1>1, <1>4 DEF OwnedOK, DispatchersOK
<1>8. CASE \A s \in Sub : subscribed[s] # conn
  <2>1. /\ SubSeq(q, 1 + 1, Len(q)) = <<>>
        /\ m = Error \/ (m.k = "response" /\ ~isSuccess(m.x[1]))
    BY <1>2, <1>3, <1>8, readAnswerIs
  <2>2. ~accepted /\ ~isEvent(m) /\ m.k \in {"response", "error"}
    <3>1. m = Error => m.k = "error"
      BY DEF Error, Msg
    <3>2. m.k \in {"response", "error"} /\ ~(m.k = "response" /\ isSuccess(m.x[1]))
      BY <2>1, <3>1
    <3>3. QED
      BY <1>5, <3>2 DEF isEvent, EventType
  <2>3. Release(1) /\ thread' = thread /\ eventDispatchers' = Erased(l) /\ UNCHANGED heard
    BY <1>6, <2>2 DEF releaseTransport_Listener
  <2>4. Parted
    BY <1>6, <2>2 DEF Parted, Return, Retry
  <2>5. pool' = pool \cup {conn} /\ in' = [in EXCEPT ![conn] = <<>>] /\ UNCHANGED socket
    BY <1>3, <2>1, <2>3 DEF Release
  <2>6. QED
    BY <1>2, <1>3, <1>8, <2>3, <2>4, <2>5, AnswerTakenDelivers
<1>9. CASE subscribed[l] = conn /\ RegisteringIs(heard[l], q, sent[l], socket[conn])
  <2>1. /\ SubSeq(q, 2, Len(q)) = Tail(q)
        /\ \/ /\ m \in EventMsg /\ m.k # "expired"
              /\ RegisteringIs(Append(heard[l], m), Tail(q), sent[l], socket[conn])
           \/ m = Accept /\ RegisteredIs(heard[l], Tail(q), sent[l], conn, conn, socket[conn])
    BY <1>2, <1>3, <1>9, RegisteringTake
  <2>2. ASSUME Keep(1)
        PROVE  /\ DOMAIN in' = Conn /\ in'[conn] = Tail(q) /\ UNCHANGED <<pool, socket>>
               /\ \A n \in Conn : n # conn => in'[n] = in[n]
    <3>1. 1 + 1 = 2
      OBVIOUS
    <3>2. in' = [in EXCEPT ![conn] = Tail(q)] /\ UNCHANGED <<pool, socket>>
      BY <1>3, <2>1, <2>2, <3>1 DEF Keep
    <3>3. QED
      BY <1>1, <1>2, <3>2 DEF ShapesOK
  <2>3. CASE m \in EventMsg /\ m.k # "expired" /\ RegisteringIs(Append(heard[l], m), Tail(q), sent[l], socket[conn])
    <3>1. isEvent(m)
      BY <2>3, AcceptIsNoEvent
    <3>2. Keep(1) /\ heard' = [heard EXCEPT ![l] = Append(@, m)] /\ UNCHANGED <<app, eventDispatchers, thread>>
      BY <1>6, <2>3, <3>1 DEF processImmediateEvent, processEvent
    <3>3. /\ UNCHANGED <<pc, call, conn>> /\ heard'[l] = Append(heard[l], m)
          /\ \A k \in Listener : k # l => heard'[k] = heard[k]
      BY <1>1, <1>4, <3>2 DEF app, Types
    <3>4. ShapesOK' /\ ExitedOK'
      BY <1>1, <2>2, <3>2 DEF ShapesOK, ExitedOK
    <3>5. QuietOK'
      BY <1>1, <1>2, <2>2, <3>2 DEF QuietOK, OwnedOK
    <3>6. SubscribedOK'
      BY <1>1, <2>2, <3>2, <3>3, SubscribedStays
    <3>7. ServedOK'
      BY <1>2, <1>3, <1>4, <1>9, <2>2, <2>3, <3>2, <3>3 DEF ServedOK
    <3>8. RequestOK'
      BY <1>2, <3>3, <3>7 DEF RequestOK
    <3>9. \A k \in Listener \cap DOMAIN eventDispatchers : eventDispatchers[k] # conn => Untouched(k)
      BY <1>4, <1>7, <2>2, <3>2, <3>3 DEF Untouched
    <3>10. ListenersOK'
      BY <1>1, <3>2, <3>3, <3>9, UntouchedKeeps DEF ListenersOK
    <3>11. QED
      BY <3>4, <3>5, <3>6, <3>8, <3>10 DEF DeliveryInv
  <2>4. CASE m = Accept /\ RegisteredIs(heard[l], Tail(q), sent[l], conn, conn, socket[conn])
    <3>1. m.k = "response" /\ m.x[1] = NO_ERROR_STATUS /\ ~isEvent(m)
      BY <2>4, AcceptIsNoEvent
    <3>2. accepted
      BY <1>5, <3>1 DEF isSuccess
    <3>3. /\ Keep(1) /\ thread' = [thread EXCEPT ![l] = [at |-> "reading", event |-> None]]
          /\ UNCHANGED <<eventDispatchers, heard>> /\ Return("ret", 0)
      BY <1>6, <3>1, <3>2 DEF releaseTransport_Listener
    <3>4. thread'[l].at = "reading" /\ \A d \in Id : d # l => thread'[d] = thread[d]
      BY <1>1, <1>4, <3>3 DEF DispatchersOK
    <3>5. Parted
      BY <3>3 DEF Parted, Return
    <3>6. ShapesOK' /\ QuietOK'
      BY <1>1, <1>2, <2>2, <3>3 DEF ShapesOK, QuietOK, OwnedOK
    <3>7. ExitedOK'
      BY <1>1, <3>4 DEF ExitedOK, Id
    <3>8. Handled(l)' = heard[l]
      BY <3>3, <3>4 DEF Handled
    <3>9. ListenerOK(l)'
      BY <1>4, <1>9, <2>2, <2>4, <3>3, <3>8 DEF ListenerOK
    <3>10. \A d \in DOMAIN eventDispatchers : eventDispatchers[d] # conn =>
                in'[eventDispatchers[d]] = in[eventDispatchers[d]] /\ thread'[d] = thread[d]
      BY <1>1, <1>4, <1>7, <2>2, <3>3, <3>4 DEF DispatchersOK
    <3>11. \A s \in Sub : subscribed[s] = conn => s = l
      BY <1>2, <1>3, OwnersAre
    <3>12. \A k \in Listener \cap DOMAIN eventDispatchers :
                \/ k = l \/ (eventDispatchers[k] # conn /\ socket[eventDispatchers[k]] # "unused")
      BY <1>1, <1>7 DEF OwnedOK
    <3>13. \A s \in Sub : subscribed[s] = conn =>
                \E d \in DOMAIN eventDispatchers :
                    /\ eventDispatchers[d] = conn
                    /\ IF s \in Listener THEN s = d ELSE d \in DispatcherId
      BY <1>4, <3>11
    <3>14. QED
      BY <2>2, <3>3, <3>5, <3>6, <3>7, <3>9, <3>10, <3>12, <3>13, PartedDelivers
  <2>5. QED
    BY <2>1, <2>3, <2>4
<1>10. QED
  BY <1>2, <1>3, <1>8, <1>9, readAnswerIs

\* The answers of client listeners' removals.
LEMMA answer_removeClientListenerDelivers ==
    ASSUME EventsInv, CallsOK, DeliveryInv, readAnswer, UNCHANGED <<subscribed, sent, recovered, events>>,
           answer_removeClientListener(call.l, Head(in[conn]))
    PROVE  DeliveryInv'
<1>1. /\ ShapesOK /\ SubscribedOK /\ QuietOK /\ RequestOK /\ ListenersOK /\ ExitedOK
      /\ RegisteredOK /\ DispatchersOK /\ OwnedOK /\ Types /\ PlaceOK /\ RunningOK
  BY DEF DeliveryInv, EventsInv
<1>2. /\ call.op = "removeClientListener" /\ pc = "served" /\ conn \in Conn /\ conn \in lent
      /\ UNCHANGED <<eventDispatchers, thread, heard>>
  BY <1>1, readAnswerIs DEF answer_removeClientListener, PlaceOK
<1>3. PICK l, m, q : l = call.l /\ m = Head(q) /\ q = in[conn]
  OBVIOUS
<1>4. /\ SubSeq(q, 1 + 1, Len(q)) = <<>> /\ Tail(q) = <<>> /\ \A s \in Sub : subscribed[s] # conn
      /\ m = Error \/ m.k = "response"
  BY <1>2, <1>3, readAnswerIs
<1>5. m.k \in {"response", "error"}
  BY <1>4 DEF Error, Msg
<1>6. CASE m.k = "response" /\ isSuccess(m.x[1])
  <2>1. PICK n : n = eventDispatchers[l] /\ n \in Conn /\ n # conn /\ socket[n] # "unused"
    BY <1>1, <1>2, <1>3 DEF RegisteredOK, DispatchersOK, OwnedOK
  <2>2. PICK k \in 0 .. Len(in[n]) : in' = [in EXCEPT ![n] = SubSeq(@, 1, k), ![conn] = Tail(@)]
    BY <1>3, <1>6, <2>1 DEF answer_removeClientListener, Transport
  <2>3. PICK to : to = IF socket[n] = "open" THEN "closed" ELSE socket[n]
    OBVIOUS
  <2>4. /\ socket' = [socket EXCEPT ![n] = to] /\ to \notin {"open", "unused"}
        /\ pc' = "join" /\ UNCHANGED <<call, conn, pool>>
    BY <1>3, <1>6, <2>1, <2>3 DEF answer_removeClientListener, Transport
  <2>5. /\ DOMAIN in' = Conn /\ in'[conn] = <<>> /\ in'[n] = SubSeq(in[n], 1, k)
        /\ \A j \in Conn : j # n /\ j # conn => in'[j] = in[j]
        /\ socket'[n] = to /\ \A j \in Conn : j # n => socket'[j] = socket[j]
    BY <1>1, <1>2, <1>3, <1>4, <2>1, <2>2, <2>4 DEF ShapesOK, Types
  <2>6. ShapesOK' /\ ExitedOK'
    BY <1>1, <1>2, <2>5 DEF ShapesOK, ExitedOK
  <2>7. QuietOK'
    BY <1>1, <2>1, <2>4, <2>5 DEF QuietOK, OwnedOK, RegisteredOK
  <2>8. RequestOK'
    BY <2>4, <2>5 DEF RequestOK
  <2>9. SubscribedOK'
    <3>1. \A s \in Sub : Live(s)' => Live(s) /\ subscribed[s] # conn
      BY <1>1, <1>4, <2>1, <2>5 DEF Live, ShapesOK
    <3>2. QED
      BY <1>1, <1>2, <2>4, <3>1 DEF SubscribedOK, Sub
  <2>10. ListenersOK'
    <3>1. ASSUME NEW j \in Listener \cap DOMAIN eventDispatchers, eventDispatchers[j] # conn
          PROVE  ListenerOK(j)'
      <4>1. CASE eventDispatchers[j] = n
        <5>1. RegisteredIs(Handled(j), in[n], sent[j], subscribed[j], n, socket[n])
          BY <1>1, <3>1, <4>1 DEF ListenersOK, ListenerOK
        <5>2. RegisteredIs(Handled(j), in'[n], sent[j], subscribed[j], n, to)
          BY <2>4, <2>5, <5>1, RegisteredCut
        <5>3. Handled(j)' = Handled(j)
          BY <1>2 DEF Handled
        <5>4. QED
          BY <1>2, <2>5, <4>1, <5>2, <5>3 DEF ListenerOK
      <4>2. CASE eventDispatchers[j] # n
        <5>1. Untouched(j)
          BY <1>1, <1>2, <2>5, <3>1, <4>2 DEF Untouched, DispatchersOK
        <5>2. QED
          BY <1>1, <5>1, UntouchedKeeps
      <4>3. QED
        BY <4>1, <4>2
    <3>2. QED
      BY <1>2, <2>4, <3>1 DEF ListenersOK
  <2>11. QED
    BY <2>6, <2>7, <2>8, <2>9, <2>10 DEF DeliveryInv
<1>7. CASE ~(m.k = "response" /\ isSuccess(m.x[1]))
  <2>1. Release(1) /\ (Retry \/ Return("ret", 0))
    BY <1>3, <1>5, <1>7 DEF answer_removeClientListener
  <2>2. Parted
    BY <2>1 DEF Parted, Return, Retry
  <2>3. pool' = pool \cup {conn} /\ in' = [in EXCEPT ![conn] = <<>>] /\ UNCHANGED socket
    BY <1>3, <1>4, <2>1 DEF Release
  <2>4. QED
    BY <1>2, <1>4, <2>2, <2>3, AnswerTakenDelivers
<1>8. QED
  BY <1>6, <1>7

\* The answers of counters' operations.
LEMMA CounterAnswerDelivers ==
    ASSUME EventsInv, CallsOK, DeliveryInv, readAnswer,
           UNCHANGED <<subscribed, sent, recovered, events, heard>>, call.c # None,
           LET m == Head(in[conn])
           IN  IF m.k = "response"
               THEN LET o == CounterOutcome(m.x[1], m.x[2])
                    IN  answer_counter(o) \/ answer_addListener(o) \/ answer_removeListener(o)
               ELSE answer_exception(m)
    PROVE  DeliveryInv'
<1>1. /\ ShapesOK /\ SubscribedOK /\ QuietOK /\ RequestOK /\ ListenersOK /\ ExitedOK
      /\ RegisteredOK /\ DispatchersOK /\ OwnedOK /\ Types /\ PlaceOK /\ RunningOK
  BY DEF DeliveryInv, EventsInv
<1>2. /\ pc = "served" /\ conn \in Conn /\ conn \in lent /\ conn # None
      /\ call.op # "addClientListener"
  BY <1>1, readAnswerIs DEF PlaceOK
<1>3. PICK m, q : m = Head(q) /\ q = in[conn]
  OBVIOUS
<1>4. PICK o : o = CounterOutcome(m.x[1], m.x[2])
  OBVIOUS
<1>5. IF m.k = "response"
      THEN answer_counter(o) \/ answer_addListener(o) \/ answer_removeListener(o)
      ELSE answer_exception(m)
  BY <1>3, <1>4
<1>6. call.op = "addListener" => o.val = (m.x[1] = NO_ERROR_STATUS) /\ counterDispatcher = None
  BY <1>4 DEF CounterOutcome, AddCounterListenerOperation, Outcome, CallsOK
<1>7. CASE \A s \in Sub : subscribed[s] # conn
  <2>1. /\ SubSeq(q, 1 + 1, Len(q)) = <<>>
        /\ m = Error \/ (m.k = "response" /\ (call.op = "addListener" => m.x[1] # NO_ERROR_STATUS))
    BY <1>3, <1>7, readAnswerIs
  <2>2. ASSUME Release(1) \/ Keep(1), Parted, UNCHANGED <<eventDispatchers, thread>>
        PROVE  DeliveryInv'
    <3>1. pool' \subseteq pool \cup {conn} /\ in' = [in EXCEPT ![conn] = <<>>] /\ UNCHANGED socket
      BY <1>3, <2>1, <2>2 DEF Release, Keep
    <3>2. QED
      BY <1>2, <1>7, <2>2, <3>1, AnswerTakenDelivers
  <2>3. CASE answer_exception(m) /\ m.k # "response"
    <3>1. m.k = "error"
      BY <2>1, <2>3 DEF Error, Msg
    <3>2. (Release(1) \/ Keep(1)) /\ Retry /\ UNCHANGED <<eventDispatchers, thread>>
      BY <2>3, <3>1 DEF answer_exception
    <3>3. Parted
      BY <3>2 DEF Parted, Retry, Return
    <3>4. QED
      BY <2>2, <3>2, <3>3
  <2>4. CASE answer_counter(o)
    <3>1. /\ Release(1) /\ UNCHANGED <<eventDispatchers, thread>>
          /\ Retry \/ \E kind, val : Return(kind, val)
      BY <2>4 DEF answer_counter
    <3>2. Parted
      BY <3>1 DEF Parted, Retry, Return
    <3>3. QED
      BY <2>2, <3>1, <3>2
  <2>5. CASE answer_removeListener(o)
    <3>1. /\ Release(1) /\ UNCHANGED <<eventDispatchers, thread>>
          /\ Return("ret", 0) \/ (pc' = "stopping" /\ conn' = None)
      BY <2>5 DEF answer_removeListener
    <3>2. Parted
      BY <3>1 DEF Parted, Return
    <3>3. QED
      BY <2>2, <3>1, <3>2
  <2>6. CASE answer_addListener(o) /\ m.k = "response"
    <3>1. call.op = "addListener" /\ ~o.val
      <4>1. call.op = "addListener"
        BY <2>6 DEF answer_addListener
      <4>2. m.x[1] # NO_ERROR_STATUS
        BY <2>1, <2>6, <4>1 DEF Error, Msg
      <4>3. QED
        BY <1>6, <4>1, <4>2
    <3>2. Release(1) /\ UNCHANGED <<eventDispatchers, thread>> /\ Return("ret", o.val)
      BY <2>6, <3>1 DEF answer_addListener
    <3>3. Parted
      BY <3>2 DEF Parted, Return
    <3>4. QED
      BY <2>2, <3>2, <3>3
  <2>7. QED
    BY <1>5, <2>3, <2>4, <2>5, <2>6
<1>8. CASE call.op = "addListener" /\ m = Accept /\ \E s \in Sub : subscribed[s] = conn
  <2>1. m.k = "response" /\ m.x[1] = NO_ERROR_STATUS
    BY <1>8, AcceptIsNoEvent
  <2>2. answer_addListener(o) /\ o.val /\ counterDispatcher = None
    BY <1>5, <1>6, <1>8, <2>1 DEF answer_counter, answer_removeListener
  <2>3. PICK d : d = CHOOSE i \in DispatcherId \ DOMAIN eventDispatchers : TRUE
    OBVIOUS
  <2>4. /\ Keep(1) /\ Return("ret", o.val) /\ DispatcherId \ DOMAIN eventDispatchers # {}
        /\ eventDispatchers' = Inserted(d, conn)
        /\ thread' = [thread EXCEPT ![d] = [at |-> "reading", event |-> None]]
    BY <2>2, <2>3 DEF answer_addListener
  <2>5. d \in DispatcherId /\ d \notin DOMAIN eventDispatchers /\ d \in Id /\ d \notin Listener
    BY <2>3, <2>4, EventsAssumption DEF Id
  <2>6. /\ DOMAIN eventDispatchers' = DOMAIN eventDispatchers \cup {d} /\ eventDispatchers'[d] = conn
        /\ \A e \in DOMAIN eventDispatchers : eventDispatchers'[e] = eventDispatchers[e]
    BY <2>4, <2>5 DEF Inserted
  <2>7. \A e \in Id : e # d => thread'[e] = thread[e]
    BY <1>1, <2>4 DEF DispatchersOK
  <2>8. /\ DOMAIN in' = Conn /\ UNCHANGED <<pool, socket>>
        /\ \A n \in Conn : n # conn => in'[n] = in[n]
    BY <1>1, <2>4 DEF Keep, ShapesOK
  <2>9. Parted
    BY <2>4 DEF Parted, Return
  <2>10. ShapesOK'
    BY <1>1, <2>8 DEF ShapesOK
  <2>11. QuietOK'
    BY <1>1, <1>2, <2>8 DEF QuietOK, OwnedOK
  <2>12. ExitedOK'
    BY <1>1, <2>5, <2>7 DEF ExitedOK, Id
  <2>13. \A e \in DOMAIN eventDispatchers : /\ eventDispatchers[e] # conn
                                            /\ eventDispatchers[e] \in Conn
                                            /\ socket[eventDispatchers[e]] # "unused"
                                            /\ thread'[e] = thread[e]
    BY <1>1, <1>8, <2>5, <2>7 DEF RegisteredOK, DispatchersOK, OwnedOK
  <2>14. \A s \in Sub : subscribed[s] = conn =>
                \E e \in DOMAIN eventDispatchers' :
                    /\ eventDispatchers'[e] = conn
                    /\ IF s \in Listener THEN s = e ELSE e \in DispatcherId
    <3>1. \A s \in Sub : subscribed[s] = conn => s \in Counter /\ s \notin Listener
      BY <1>2, <1>8, OwnersAre, EventsAssumption
    <3>2. QED
      BY <2>5, <2>6, <3>1
  <2>15. QED
    BY <2>5, <2>6, <2>8, <2>9, <2>10, <2>11, <2>12, <2>13, <2>14, PartedDelivers
<1>9. QED
  BY <1>2, <1>3, <1>7, <1>8, readAnswerIs

\* An answer.
LEMMA readAnswerDelivers ==
    ASSUME EventsInv, CallsOK, DeliveryInv, readAnswer
    PROVE  DeliveryInv'
<1>1. UNCHANGED <<subscribed, sent, recovered, events>>
  BY DEF readAnswer, server
<1>2. CASE call.l # None /\ answer_addClientListener(call.l, Head(in[conn]))
  BY <1>1, <1>2, answer_addClientListenerDelivers
<1>3. CASE call.l # None /\ answer_removeClientListener(call.l, Head(in[conn]))
  BY <1>1, <1>3, answer_removeClientListenerDelivers
<1>4. CASE /\ call.c # None
           /\ LET m == Head(in[conn])
              IN  IF m.k = "response"
                  THEN LET o == CounterOutcome(m.x[1], m.x[2])
                       IN  answer_counter(o) \/ answer_addListener(o) \/ answer_removeListener(o)
                  ELSE answer_exception(m)
           /\ UNCHANGED heard
  BY <1>1, <1>4, CounterAnswerDelivers
<1>5. QED
  BY <1>2, <1>3, <1>4 DEF readAnswer

-----------------------------------------------------------------------------
(* The events' theorems *)

\* The invariant holds at the start.
LEMMA InitDelivery == Init => CallsOK /\ DeliveryInv
<1>1. SUFFICES ASSUME Init PROVE CallsOK /\ DeliveryInv
  OBVIOUS
<1>2. NoCall.op = "none" /\ NoThread.at = "none"
  BY DEF NoCall, NoThread
<1>3. DOMAIN eventDispatchers = {} /\ DOMAIN listeners = {}
  BY <1>1 DEF Init
<1>4. CallsOK
  BY <1>1, <1>2, <1>3 DEF Init, CallsOK, Requesting, CounterOps
<1>5. ShapesOK
  BY <1>1 DEF Init, ShapesOK, Sub
<1>6. SubscribedOK
  BY <1>1 DEF Init, SubscribedOK, Live, Sub
<1>7. QuietOK /\ RequestOK
  BY <1>1 DEF Init, QuietOK, RequestOK
<1>8. ListenersOK
  BY <1>3 DEF ListenersOK
<1>9. ExitedOK
  BY <1>1, <1>2 DEF Init, ExitedOK, Id
<1>10. QED
  BY <1>4, <1>5, <1>6, <1>7, <1>8, <1>9 DEF DeliveryInv

\* Every step keeps it.
LEMMA NextDelivery ==
    ASSUME ServerEvents, EventsInv, CallsOK, DeliveryInv, [Next]_vars
    PROVE  DeliveryInv'
<1>1. CASE Application
  BY <1>1, getTransportDelivers, flushDelivers, FailureDelivers, readAnswerDelivers, JoinDelivers
     DEF Application
<1>2. CASE \E d \in Id : Dispatcher(d) \/ ReadTimesOut(d)
  BY <1>2, DispatcherDelivers
<1>3. CASE NewCall \/ Serve
  BY <1>3, NewCallDelivers, ServeDelivers
<1>4. CASE getTransportFails \/ answerTimesOut
  BY <1>4, FailureDelivers
<1>5. CASE \/ \E n \in Conn : Drop(n)
           \/ \E l \in Listener : SendEvent(l)
           \/ \E c \in Counter : OtherClient(c)
  BY <1>5, WorldDelivers
<1>6. CASE UNCHANGED vars
  <2>1. UNCHANGED <<pc, call, conn, pool, socket, in, eventDispatchers, thread, subscribed, sent,
                    heard, recovered, events>>
    BY <1>6 DEF vars, app, links, server, history
  <2>2. ShapesOK' /\ SubscribedOK' /\ QuietOK' /\ ExitedOK'
    BY <2>1 DEF DeliveryInv, ShapesOK, SubscribedOK, QuietOK, ExitedOK, Live
  <2>3. RequestOK'
    BY <2>1, RequestStays DEF DeliveryInv
  <2>4. \A l \in Listener \cap DOMAIN eventDispatchers : eventDispatchers[l] # conn => Untouched(l)
    BY <2>1 DEF Untouched
  <2>5. ListenersOK'
    BY <2>1, <2>4, UntouchedKeeps DEF ListenersOK, DeliveryInv
  <2>6. QED
    BY <2>2, <2>3, <2>5 DEF DeliveryInv
<1>7. QED
  BY <1>1, <1>2, <1>3, <1>4, <1>5, <1>6 DEF Next

\* What is on its way of a stream: the events, without the response.
LEMMA ComingIs ==
    ASSUME NEW h, NEW q, NEW p, NEW s, Stream(h, q, p, s)
    PROVE  /\ Coming(q) \in Seq(EventMsg)
           /\ Len(Coming(q)) = Len(q) - Extra(p)
           /\ \A i \in 1 .. Len(Coming(q)) : Coming(q)[i] = s[Len(h) + i]
<1>1. /\ q \in Seq(EventMsg \cup {Accept}) /\ Len(q) \in Nat /\ DOMAIN q = 1 .. Len(q)
      /\ p \in 0 .. Len(q) /\ Len(h) \in Nat
      /\ \A i \in 1 .. Len(q) : i # p => q[i] \in EventMsg
  BY DEF Stream
<1>2. \A i \in 1 .. Len(q) : i # p => isEvent(q[i])
  BY <1>1, AcceptIsNoEvent
<1>3. CASE p = 0
  <2>1. \A i \in 1 .. Len(q) : i # p
    BY <1>1, <1>3
  <2>2. Coming(q) = q
    BY <1>1, <1>2, <2>1 DEF Coming
  <2>3. q \in Seq(EventMsg)
    BY <1>1, <2>1, SeqDef
  <2>4. QED
    BY <1>1, <1>3, <2>2, <2>3 DEF Stream, Extra
<1>4. CASE p # 0
  <2>1. p \in 1 .. Len(q) /\ ~isEvent(q[p])
    BY <1>1, <1>4, AcceptIsNoEvent DEF Stream
  <2>2. (CHOOSE i \in DOMAIN q : ~isEvent(q[i])) = p
    BY <1>1, <1>2, <2>1
  <2>3. Coming(q) = SubSeq(q, 1, p - 1) \o SubSeq(q, p + 1, Len(q))
    BY <1>1, <2>1, <2>2 DEF Coming, RemoveAt
  <2>4. PICK a, b : a = SubSeq(q, 1, p - 1) /\ b = SubSeq(q, p + 1, Len(q))
    OBVIOUS
  <2>5. a \in Seq(EventMsg) /\ Len(a) = p - 1 /\ \A i \in 1 .. p - 1 : a[i] = q[i]
    <3>1. \A i \in 1 .. p - 1 : q[i] \in EventMsg
      BY <1>1
    <3>2. p - 1 \in Int /\ 1 \in Int /\ (p - 1) - 1 + 1 = p - 1 /\ (1 > p - 1 => p - 1 = 0)
      BY <1>1, <2>1
    <3>3. QED
      BY <2>1, <2>4, <3>1, <3>2, SubSeqProperties
  <2>6. /\ b \in Seq(EventMsg) /\ Len(b) = Len(q) - p
        /\ \A i \in 1 .. Len(q) - p : b[i] = q[p + i]
    <3>1. \A i \in p + 1 .. Len(q) : q[i] \in EventMsg
      BY <1>1
    <3>2. /\ p + 1 \in Int /\ Len(q) \in Int /\ Len(q) - (p + 1) + 1 = Len(q) - p
          /\ p + 1 <= Len(q) \/ Len(q) - p = 0
      <4>1. PICK n \in Nat : n = Len(q)
        BY <1>1
      <4>2. p \in 1 .. n
        BY <2>1, <4>1
      <4>3. /\ p + 1 \in Int /\ n \in Int /\ n - (p + 1) + 1 = n - p
            /\ p + 1 <= n \/ n - p = 0
        BY <4>2
      <4>4. QED
        BY <4>1, <4>3
    <3>3. \A i \in 1 .. Len(q) - p : p + 1 + i - 1 = p + i
      BY <1>1
    <3>4. QED
      BY <2>4, <3>1, <3>2, <3>3, SubSeqProperties
  <2>7. PICK r : r = a \o b
    OBVIOUS
  <2>8. /\ r \in Seq(EventMsg) /\ Len(r) = Len(a) + Len(b)
        /\ \A i \in 1 .. Len(a) + Len(b) : r[i] = IF i <= Len(a) THEN a[i] ELSE b[i - Len(a)]
    BY <2>5, <2>6, <2>7, ConcatProperties
  <2>9. Len(r) = Len(q) - Extra(p)
    BY <1>1, <1>4, <2>5, <2>6, <2>8 DEF Extra
  <2>10. ASSUME NEW i \in 1 .. Len(r), i <= p - 1 PROVE r[i] = s[Len(h) + i]
    <3>1. i \in 1 .. Len(a) + Len(b) /\ i <= Len(a) /\ i \in 1 .. p - 1
      BY <1>1, <2>1, <2>5, <2>8, <2>10
    <3>2. r[i] = q[i]
      <4>1. r[i] = a[i]
        BY <2>8, <3>1
      <4>2. QED
        BY <2>5, <3>1, <4>1
    <3>3. i \in 1 .. Len(q) /\ i < p
      BY <1>1, <3>1
    <3>4. QED
      BY <3>2, <3>3 DEF Stream
  <2>11. ASSUME NEW i \in 1 .. Len(r), i > p - 1 PROVE r[i] = s[Len(h) + i]
    <3>1. Len(r) = Len(q) - 1 /\ i - (p - 1) \in 1 .. Len(q) - p /\ p + (i - (p - 1)) = i + 1
      BY <1>1, <1>4, <2>9, <2>11 DEF Extra
    <3>2. i \in 1 .. Len(a) + Len(b) /\ ~(i <= Len(a))
      BY <1>1, <2>1, <2>5, <2>8, <2>11
    <3>3. r[i] = q[i + 1]
      <4>1. r[i] = b[i - Len(a)]
        BY <2>8, <3>2
      <4>2. QED
        BY <2>5, <2>6, <3>1, <4>1
    <3>4. i + 1 \in 1 .. Len(q) /\ i + 1 > p /\ Len(h) + (i + 1) - 1 = Len(h) + i
      BY <1>1, <2>11, <3>1
    <3>5. QED
      BY <1>4, <3>3, <3>4 DEF Stream
  <2>12. r = Coming(q)
    BY <2>3, <2>4, <2>7
  <2>13. \A i \in 1 .. Len(r) : i <= p - 1 \/ i > p - 1
    BY <1>1
  <2>14. QED
    BY <2>8, <2>9, <2>10, <2>11, <2>12, <2>13
<1>5. QED
  BY <1>3, <1>4

\* What was handled is the first part of what was sent, and if nothing is lost the rest is
\* on its way.
LEMMA StreamInOrder ==
    ASSUME NEW h, NEW q, NEW p, NEW s, Stream(h, q, p, s)
    PROVE  IsPrefix(h, s) /\ (Complete(h, q, p, s) => h \o Coming(q) = s)
<1>1. /\ h \in Seq(EventMsg) /\ s \in Seq(EventMsg) /\ Len(h) \in Nat /\ Len(s) \in Nat
      /\ Len(q) \in Nat /\ p \in 0 .. Len(q) /\ \A i \in 1 .. Len(h) : h[i] = s[i]
      /\ Len(h) + Len(q) <= Len(s) + Extra(p)
  BY DEF Stream
<1>2. Len(h) <= Len(s) /\ Len(q) - Extra(p) \in Nat
  BY <1>1 DEF Extra
<1>3. PICK a, b : a = SubSeq(h, 1, Len(h)) /\ b = SubSeq(s, 1, Len(h))
  OBVIOUS
<1>4. \A i \in 1 .. Len(h) : h[i] \in EventMsg /\ s[i] \in EventMsg
  BY <1>1, <1>2
<1>5. a \in Seq(EventMsg) /\ Len(a) = Len(h) /\ \A i \in 1 .. Len(h) : a[i] = h[i]
  BY <1>1, <1>3, <1>4, SubSeqProperties
<1>6. b \in Seq(EventMsg) /\ Len(b) = Len(h) /\ \A i \in 1 .. Len(h) : b[i] = s[i]
  BY <1>1, <1>3, <1>4, SubSeqProperties
<1>7. a = b
  <2>1. \A i \in 1 .. Len(a) : a[i] = b[i]
    BY <1>1, <1>5, <1>6
  <2>2. QED
    BY <1>5, <1>6, <2>1, SeqEqual
<1>8. IsPrefix(h, s)
  BY <1>2, <1>3, <1>7 DEF IsPrefix
<1>9. ASSUME Complete(h, q, p, s) PROVE h \o Coming(q) = s
  <2>1. PICK c : c = Coming(q)
    OBVIOUS
  <2>2. /\ c \in Seq(EventMsg) /\ Len(c) = Len(q) - Extra(p)
        /\ \A i \in 1 .. Len(c) : c[i] = s[Len(h) + i]
    BY <2>1, ComingIs
  <2>3. PICK r : r = h \o c
    OBVIOUS
  <2>4. /\ r \in Seq(EventMsg) /\ Len(r) = Len(h) + Len(c)
        /\ \A i \in 1 .. Len(h) + Len(c) : r[i] = IF i <= Len(h) THEN h[i] ELSE c[i - Len(h)]
    BY <1>1, <2>2, <2>3, ConcatProperties
  <2>5. Len(r) = Len(s)
    BY <1>1, <1>9, <2>2, <2>4 DEF Complete, Extra
  <2>6. ASSUME NEW i \in 1 .. Len(r), i > Len(h) PROVE r[i] = s[i]
    <3>1. i - Len(h) \in 1 .. Len(c) /\ Len(h) + (i - Len(h)) = i
      BY <1>1, <1>2, <2>2, <2>4, <2>6
    <3>2. i \in 1 .. Len(h) + Len(c) /\ ~(i <= Len(h))
      BY <1>1, <2>4, <2>6
    <3>3. r[i] = c[i - Len(h)]
      BY <2>4, <3>2
    <3>4. QED
      BY <2>2, <3>1, <3>3
  <2>7. ASSUME NEW i \in 1 .. Len(r), i <= Len(h) PROVE r[i] = s[i]
    BY <1>1, <2>4, <2>7
  <2>8. \A i \in 1 .. Len(r) : r[i] = s[i]
    BY <1>1, <2>4, <2>6, <2>7
  <2>9. QED
    BY <1>1, <2>1, <2>3, <2>4, <2>5, <2>8, SeqEqual
<1>10. QED
  BY <1>8, <1>9

\* The property is a part of the invariant.
LEMMA DeliveredInOrder == EventsInv /\ CallsOK /\ DeliveryInv => EventsInOrder
<1>1. SUFFICES ASSUME EventsInv, CallsOK, DeliveryInv,
                      NEW l \in DOMAIN eventDispatchers \cap Listener,
                      subscribed[l] = Transport(l)
               PROVE  /\ IsPrefix(Handled(l), sent[l])
                      /\ socket[Transport(l)] = "open" =>
                            Handled(l) \o Coming(in[Transport(l)]) = sent[l]
  BY DEF EventsInOrder, Handled
<1>2. PICK n : n = eventDispatchers[l]
  OBVIOUS
<1>3. \E p : /\ Stream(Handled(l), in[n], p, sent[l])
             /\ socket[n] = "open" => Complete(Handled(l), in[n], p, sent[l])
  <2>1. CASE n # conn
    <3>1. ListenerOK(l)
      BY <1>1, <1>2, <2>1 DEF DeliveryInv, ListenersOK
    <3>2. QED
      BY <1>1, <1>2, <3>1 DEF ListenerOK, RegisteredIs, Transport
  <2>2. CASE n = conn
    <3>1. call.op = "addClientListener" /\ l = call.l /\ thread[l].at = "none"
      BY <1>1, <1>2, <2>2 DEF EventsInv, RegisteredOK
    <3>2. conn \in Conn /\ conn # None /\ l \in Sub
      BY <1>1, <1>2, <2>2, EventsAssumption DEF EventsInv, DispatchersOK, Sub
    <3>3. pc = "served" /\ subscribed[l] = conn
      BY <1>1, <1>2, <2>2, <3>2, OwnersAre DEF Transport
    <3>4. ServedOK
      BY <1>1, <3>3 DEF DeliveryInv, RequestOK
    <3>5. RegisteringIs(heard[l], in[n], sent[l], socket[n])
      BY <2>2, <3>1, <3>2, <3>3, <3>4 DEF ServedOK
    <3>6. Handled(l) = heard[l]
      BY <3>1 DEF Handled
    <3>7. QED
      BY <3>5, <3>6 DEF RegisteringIs
  <2>3. QED
    BY <2>1, <2>2
<1>4. QED
  BY <1>2, <1>3, StreamInOrder DEF Transport

\* So is the report of the end of a thread.
LEMMA EndsSaid == DeliveryInv => EndIsReported
BY DEF DeliveryInv, ExitedOK, EndIsReported

\* The three invariants hold of every behaviour.
LEMMA DeliveryInvariant ==
    ASSUME OneCounter, ServerEvents
    PROVE  Spec => [](EventsInv /\ CallsOK /\ DeliveryInv)
<1>1. Init => EventsInv /\ CallsOK /\ DeliveryInv
  BY InitEvents, InitDelivery
<1>2. EventsInv /\ CallsOK /\ DeliveryInv /\ [Next]_vars => (EventsInv /\ CallsOK /\ DeliveryInv)'
  BY NextEvents, StepCalls, NextDelivery
<1>3. QED
  BY <1>1, <1>2, PTL DEF Spec

\* A client listener gets the events that the server sent it, those that
\* AddClientListenerOperation::executeOperation reads before the response and those that
\* EventDispatcher::run reads after it, once each and in their order, and while its
\* connection is open none is missing: whatever calls, losses and timeouts come between.
THEOREM EventsArriveInOrder ==
    ASSUME OneCounter, ServerEvents
    PROVE  Spec => []EventsInOrder
BY DeliveryInvariant, DeliveredInOrder, PTL

\* A registered client listener whose thread has ended has had its recoveryCallback:
\* EventDispatcher::run finds no message that is no event, so that it ends by the
\* TransportException alone.
THEOREM EndsAreReported ==
    ASSUME OneCounter, ServerEvents
    PROVE  Spec => []EndIsReported
BY DeliveryInvariant, EndsSaid, PTL


-----------------------------------------------------------------------------
(* The invariant of the counters' values *)

Bounded(it) ==
    it.cfg.type = "BOUNDED_STRONG" => it.cfg.lower <= it.value /\ it.value <= it.cfg.upper

CellOK ==
    /\ DOMAIN cell = Counter
    /\ \A c \in Counter : cell[c] # None => cell[c] \in [cfg : Config, value : Int] /\ Bounded(cell[c])

\* The object of a counter has what was read of a configuration.
Readable == {readConfiguration(writeConfiguration(a)) : a \in Config}

CountersOK == \A c \in DOMAIN counters : counters[c] \in Readable

AskedOK ==
    /\ call.op = "defineCounter" => call.cfg \in Config
    /\ call.op = "compareAndSwap" => call.c \in DOMAIN counters

Getting == {"getStrongCounter", "getWeakCounter"}

\* What the operation makes of the response is what the server did.
Fits(status, body, did) ==
    LET o == CounterOutcome(status, body)
    IN  /\ call.op \in Reporting => o.kind = "throws" \/ o = did
        /\ call.op \in Getting => o.kind = "throws" \/ o.val \in Readable

FitsOK ==
    pc = "served" /\ call.op \in Reporting \cup Getting /\ in[conn] # <<>>
        /\ Head(in[conn]).k = "response"
    => Fits(Head(in[conn]).x[1], Head(in[conn]).x[2], meant)

ValuesInv == CellOK /\ CountersOK /\ AskedOK /\ FitsOK /\ CounterAnswersAreTrue

\* The upper bound comes back from the wire.
LEMMA UpperIsRead ==
    ASSUME NEW a, a.type \in {"WEAK", "BOUNDED_STRONG", "UNBOUNDED_STRONG"}
    PROVE  readConfiguration(writeConfiguration(a)).upper = UpperRead(a)
<1>1. PICK w : w = writeConfiguration(a)
  OBVIOUS
<1>2. PICK fl : fl = (CASE a.type = "WEAK" -> 1
                        [] a.type = "BOUNDED_STRONG" -> 2
                        [] a.type = "UNBOUNDED_STRONG" -> 0)
                     + (IF a.storage = "PERSISTENT" THEN 4 ELSE 0)
  OBVIOUS
<1>3. PICK S : S = {fl, a.level, a.lower, a.upper, a.initial}
  OBVIOUS
<1>4. ASSUME NEW u \in Seq(S), NEW t \in Seq(S)
      PROVE  w = <<fl>> \o u \o t \o <<a.initial>> =>
                /\ w[1] = fl
                /\ u = <<>> /\ t = <<a.lower, a.upper>> => w[3] = a.upper
  <2>1. <<fl>> \in Seq(S) /\ Len(<<fl>>) = 1 /\ <<fl>>[1] = fl
        /\ <<a.initial>> \in Seq(S) /\ Len(<<a.initial>>) = 1
    BY <1>3
  <2>2. PICK f, e : f = <<fl>> /\ e = <<a.initial>>
    OBVIOUS
  <2>3. PICK b : b = f \o u
    OBVIOUS
  <2>4. /\ b \in Seq(S) /\ Len(b) = Len(u) + 1 /\ b[1] = fl /\ Len(u) \in Nat
        /\ u = <<>> => Len(b) = 1
    <3>1. /\ b \in Seq(S) /\ Len(b) = Len(f) + Len(u)
          /\ \A i \in 1 .. Len(f) + Len(u) : b[i] = IF i <= Len(f) THEN f[i] ELSE u[i - Len(f)]
      BY <2>1, <2>2, <2>3, ConcatProperties
    <3>2. Len(f) = 1 /\ f[1] = fl /\ Len(u) \in Nat /\ 1 \in 1 .. Len(f) + Len(u)
      BY <2>1, <2>2
    <3>3. QED
      BY <3>1, <3>2
  <2>5. PICK g : g = b \o t
    OBVIOUS
  <2>6. /\ g \in Seq(S) /\ Len(g) = Len(b) + Len(t) /\ g[1] = fl /\ Len(t) \in Nat
        /\ u = <<>> /\ t = <<a.lower, a.upper>> => g[3] = a.upper /\ Len(g) = 3
    <3>1. /\ g \in Seq(S) /\ Len(g) = Len(b) + Len(t)
          /\ \A i \in 1 .. Len(b) + Len(t) : g[i] = IF i <= Len(b) THEN b[i] ELSE t[i - Len(b)]
      BY <2>4, <2>5, ConcatProperties
    <3>2. Len(t) \in Nat /\ 1 \in 1 .. Len(b) + Len(t) /\ 1 <= Len(b)
      BY <2>4
    <3>3. ASSUME u = <<>>, t = <<a.lower, a.upper>> PROVE g[3] = a.upper /\ Len(g) = 3
      <4>1. Len(b) = 1 /\ Len(t) = 2 /\ t[2] = a.upper
        BY <2>4, <3>3
      <4>2. g[3] = t[3 - Len(b)]
        BY <3>1, <4>1
      <4>3. QED
        BY <3>1, <4>1, <4>2
    <3>4. QED
      BY <2>4, <3>1, <3>2, <3>3
  <2>7. PICK z : z = g \o e
    OBVIOUS
  <2>8. /\ z[1] = fl
        /\ u = <<>> /\ t = <<a.lower, a.upper>> => z[3] = a.upper
    <3>1. \A i \in 1 .. Len(g) + Len(e) : z[i] = IF i <= Len(g) THEN g[i] ELSE e[i - Len(g)]
      BY <2>1, <2>2, <2>6, <2>7, ConcatProperties
    <3>2. Len(e) = 1 /\ Len(g) \in Nat /\ 1 <= Len(g) /\ \A i \in 1 .. Len(g) : i \in 1 .. Len(g) + Len(e)
      BY <2>1, <2>2, <2>4, <2>6
    <3>3. \A i \in 1 .. Len(g) : z[i] = g[i]
      BY <3>1, <3>2
    <3>4. QED
      BY <2>6, <3>2, <3>3
  <2>9. QED
    BY <2>2, <2>3, <2>5, <2>7, <2>8
<1>5. PICK u, t : /\ u = IF a.type = "WEAK" THEN <<a.level>> ELSE <<>>
                  /\ t = IF a.type = "BOUNDED_STRONG" THEN <<a.lower, a.upper>> ELSE <<>>
  OBVIOUS
<1>6. u \in Seq(S) /\ t \in Seq(S)
  <2>1. a.level \in S /\ a.lower \in S /\ a.upper \in S
    BY <1>3
  <2>2. <<>> \in Seq(S) /\ <<a.level>> \in Seq(S) /\ <<a.lower, a.upper>> \in Seq(S)
    BY <2>1
  <2>3. QED
    BY <1>5, <2>2
<1>7. w = <<fl>> \o u \o t \o <<a.initial>>
  BY <1>1, <1>2, <1>5 DEF writeConfiguration
<1>8. w[1] = fl /\ (a.type = "BOUNDED_STRONG" => w[3] = a.upper)
  BY <1>4, <1>5, <1>6, <1>7
<1>9. (fl % 4 = 2) <=> a.type = "BOUNDED_STRONG"
  BY <1>2
<1>10. readConfiguration(w).upper = IF w[1] % 4 = 2 THEN w[3] ELSE 0
  BY DEF readConfiguration, CounterConfiguration
<1>11. QED
  BY <1>1, <1>8, <1>9, <1>10 DEF UpperRead

\* A counter gets a value within its bounds.
LEMMA SetWithin ==
    ASSUME CellOK, NEW c \in Counter, cell[c] # None, NEW v \in Int, NEW msgs,
           SetValue(c, v, msgs),
           cell[c].cfg.type = "BOUNDED_STRONG" => cell[c].cfg.lower <= v /\ v <= cell[c].cfg.upper
    PROVE  CellOK'
<1>1. PICK it : it = cell[c]
  OBVIOUS
<1>2. it \in [cfg : Config, value : Int]
  BY <1>1 DEF CellOK
<1>3. cell' = [cell EXCEPT ![c] = [it EXCEPT !.value = v]]
  BY <1>1 DEF SetValue
<1>4. PICK new : new = [it EXCEPT !.value = v]
  OBVIOUS
<1>5. new \in [cfg : Config, value : Int] /\ new.cfg = it.cfg /\ new.value = v
  BY <1>2, <1>4
<1>6. Bounded(new)
  BY <1>1, <1>5 DEF Bounded
<1>7. DOMAIN cell' = Counter /\ cell'[c] = new /\ \A d \in Counter : d # c => cell'[d] = cell[d]
  BY <1>3, <1>4 DEF CellOK
<1>8. QED
  BY <1>5, <1>6, <1>7 DEF CellOK

\* A value that is not refused is within the bounds; one that is refused is beyond one.
LEMMA RefusedIs ==
    ASSUME CellOK, ConfigsAgree, NEW c \in Counter, cell[c] # None, NEW v \in Int
    PROVE  /\ Refused(c, v) = "no" =>
                (cell[c].cfg.type = "BOUNDED_STRONG" =>
                    cell[c].cfg.lower <= v /\ v <= cell[c].cfg.upper)
           /\ Refused(c, v) # "no" =>
                /\ cell[c].cfg.type = "BOUNDED_STRONG"
                /\ \/ Refused(c, v) = "upper" /\ v > cell[c].cfg.upper
                   \/ Refused(c, v) = "lower" /\ v < cell[c].cfg.lower
<1>1. PICK b : b = cell[c].cfg
  OBVIOUS
<1>2. b.lower \in Int /\ b.upper \in Int
  BY <1>1 DEF CellOK, ConfigsAgree
<1>3. Refused(c, v) = IF b.type # "BOUNDED_STRONG" THEN "no"
                      ELSE IF v > b.upper THEN "upper"
                      ELSE IF v < b.lower THEN "lower"
                      ELSE "no"
  BY <1>1 DEF Refused
<1>4. QED
  BY <1>1, <1>2, <1>3

\* What the statuses mean.
LEMMA StatusIs ==
    /\ isSuccess(NO_ERROR_STATUS) = TRUE /\ isSuccess(NOT_PUT_REMOVED_REPLACED_STATUS) = FALSE
    /\ ~isSuccess(KEY_DOES_NOT_EXIST_STATUS) /\ ~isSuccess(NOT_EXECUTED_WITH_PREVIOUS)
    /\ KEY_DOES_NOT_EXIST_STATUS # NOT_EXECUTED_WITH_PREVIOUS
    /\ NO_ERROR_STATUS # NOT_EXECUTED_WITH_PREVIOUS /\ NO_ERROR_STATUS # KEY_DOES_NOT_EXIST_STATUS
BY DEF isSuccess, NOT_PUT_REMOVED_REPLACED_STATUS, NO_ERROR_STATUS, NO_ERROR_STATUS_COMPAT,
   SUCCESS_WITH_PREVIOUS, SUCCESS_WITH_PREVIOUS_COMPAT, KEY_DOES_NOT_EXIST_STATUS,
   NOT_EXECUTED_WITH_PREVIOUS

\* An outcome is made of its parts.
LEMMA OutcomeIs ==
    ASSUME NEW k, NEW v
    PROVE  Outcome(k, v).kind = k /\ Outcome(k, v).val = v
BY DEF Outcome

\* A counter that is not there.
LEMMA MissingFits ==
    ASSUME call.op \in Reporting \cup Getting, call.op # "defineCounter", NEW did
    PROVE  Fits(KEY_DOES_NOT_EXIST_STATUS, <<>>, did)
<1>1. CounterOutcome(KEY_DOES_NOT_EXIST_STATUS, <<>>) = Outcome("throws", 0)
  <2>1. CASE call.op \in Getting
    BY <2>1, StatusIs DEF CounterOutcome, Getting, GetCounterConfigurationOperation
  <2>2. CASE call.op = "getValue"
    BY <2>2, StatusIs DEF CounterOutcome, GetCounterValueOperation
  <2>3. CASE call.op = "addAndGet"
    BY <2>3, StatusIs DEF CounterOutcome, AddAndGetCounterValueOperation
  <2>4. CASE call.op = "compareAndSwap"
    BY <2>4, StatusIs DEF CounterOutcome, CompareAndSwapCounterValueOperation
  <2>5. QED
    BY <2>1, <2>2, <2>3, <2>4 DEF Reporting
<1>2. QED
  BY <1>1, OutcomeIs DEF Fits

\* An update of a counter, and what the client makes of it.
LEMMA UpdateFits ==
    ASSUME CellOK, ConfigsAgree, CountersOK, AskedOK, call \in CallType,
           NEW c \in Counter, c = call.c, cell[c] # None, NEW v \in Int, NEW result,
           \/ call.op = "addAndGet" /\ v = cell[c].value + call.x
           \/ call.op = "compareAndSwap" /\ v = call.y,
           ServeUpdate(c, v, result)
    PROVE  /\ CellOK'
           /\ \E st, body : /\ Fits(st, body, meant')
                            /\ \/ Answer(<<Status(st, body)>>)
                               \/ \E w : SetValue(c, w, <<Status(st, body)>>)
<1>1. PICK b : b = cell[c].cfg /\ b \in Config
  BY DEF CellOK
<1>2. b.lower \in Int /\ b.upper \in Int /\ cell[c].value \in Int /\ call.x \in Int /\ call.y \in Int
  BY <1>1 DEF CellOK, ConfigsAgree, CallType
<1>3. call.op \in Reporting /\ call.op \notin Getting
  BY DEF Reporting, Getting
<1>4. CASE Refused(c, v) = "no"
  <2>1. SetValue(c, v, <<Status(NO_ERROR_STATUS, <<result>>)>>) /\ meant' = Outcome("ret", result)
    BY <1>4 DEF ServeUpdate
  <2>2. CellOK'
    BY <1>4, <2>1, RefusedIs, SetWithin
  <2>3. CounterOutcome(NO_ERROR_STATUS, <<result>>) = Outcome("ret", result)
    <3>1. <<result>>[1] = result
      OBVIOUS
    <3>2. CASE call.op = "addAndGet"
      BY <3>1, <3>2, StatusIs DEF CounterOutcome, AddAndGetCounterValueOperation
    <3>3. CASE call.op = "compareAndSwap"
      BY <3>1, <3>3, StatusIs DEF CounterOutcome, CompareAndSwapCounterValueOperation
    <3>4. QED
      BY <3>2, <3>3
  <2>4. Fits(NO_ERROR_STATUS, <<result>>, meant')
    BY <1>3, <2>1, <2>3 DEF Fits
  <2>5. QED
    BY <2>1, <2>2, <2>4
<1>5. CASE Refused(c, v) # "no"
  <2>1. Tell(NOT_EXECUTED_WITH_PREVIOUS, <<>>, Outcome(Refused(c, v), 0))
    BY <1>5 DEF ServeUpdate
  <2>2. meant' = Outcome(Refused(c, v), 0) /\ Answer(<<Status(NOT_EXECUTED_WITH_PREVIOUS, <<>>)>>)
        /\ UNCHANGED cell
    BY <2>1 DEF Tell
  <2>3. /\ b.type = "BOUNDED_STRONG"
        /\ \/ Refused(c, v) = "upper" /\ v > b.upper
           \/ Refused(c, v) = "lower" /\ v < b.lower
    BY <1>1, <1>5, RefusedIs
  <2>4. CounterOutcome(NOT_EXECUTED_WITH_PREVIOUS, <<>>) = Outcome(Refused(c, v), 0)
    <3>1. CASE call.op = "addAndGet"
      <4>1. b.lower <= cell[c].value /\ cell[c].value <= b.upper
        BY <1>1, <2>3 DEF CellOK, Bounded
      <4>2. v = cell[c].value + call.x
        BY <3>1
      <4>3. Refused(c, v) = IF call.x > 0 THEN "upper" ELSE "lower"
        BY <1>2, <2>3, <4>1, <4>2
      <4>4. QED
        BY <3>1, <4>3, StatusIs DEF CounterOutcome, AddAndGetCounterValueOperation
    <3>2. CASE call.op = "compareAndSwap"
      <4>1. PICK a \in Config : counters[call.c] = readConfiguration(writeConfiguration(a))
        BY <3>2 DEF AskedOK, CountersOK, Readable
      <4>2. counters[call.c].upper = UpperRead(a) /\ UpperRead(a) \in Int
        BY <4>1, UpperIsRead DEF ConfigsAgree, UpperRead
      <4>3. b.lower <= UpperRead(a) /\ UpperRead(a) <= b.upper + 1
        BY <1>1, <2>3 DEF ConfigsAgree
      <4>4. v = call.y
        BY <3>2
      <4>5. Refused(c, v) = IF call.y >= counters[call.c].upper THEN "upper" ELSE "lower"
        BY <1>2, <2>3, <4>2, <4>3, <4>4
      <4>6. QED
        BY <3>2, <4>5, StatusIs DEF CounterOutcome, CompareAndSwapCounterValueOperation
    <3>3. QED
      BY <3>1, <3>2
  <2>5. Fits(NOT_EXECUTED_WITH_PREVIOUS, <<>>, meant')
    BY <1>3, <2>2, <2>4 DEF Fits
  <2>6. CellOK'
    BY <2>2 DEF CellOK
  <2>7. QED
    BY <2>2, <2>5, <2>6
<1>6. QED
  BY <1>4, <1>5

\* A step that leaves the counters alone and ends, or goes on with, a call.
LEMMA ValuesStay ==
    ASSUME ValuesInv, UNCHANGED <<cell, counters>>,
           \/ call' = call
           \/ call'.op \notin {"defineCounter", "compareAndSwap"},
           pc' = "served" => call'.op \notin Reporting \cup Getting,
           \/ report' \in {report, NoReport}
           \/ report'.said.kind = "throws"
    PROVE  ValuesInv'
<1>1. CellOK' /\ CountersOK' /\ AskedOK'
  BY DEF ValuesInv, CellOK, CountersOK, AskedOK
<1>2. FitsOK'
  BY DEF FitsOK
<1>3. NoReport.said = NoReport.did
  BY DEF NoReport
<1>4. CounterAnswersAreTrue'
  BY <1>3 DEF ValuesInv, CounterAnswersAreTrue
<1>5. QED
  BY <1>1, <1>2, <1>4 DEF ValuesInv

\* The end of an attempt, or of a call whose outcome is not the server's.
LEMMA EndIsTrue ==
    ASSUME Retry \/ \E k, v : Return(k, v) /\ (call.op \notin Reporting \/ k = "throws")
    PROVE  /\ call' = call \/ call'.op \notin {"defineCounter", "compareAndSwap"}
           /\ pc' # "served"
           /\ report' \in {report, NoReport} \/ report'.said.kind = "throws"
<1>1. NoCall.op = "none"
  BY DEF NoCall
<1>2. ASSUME NEW k, NEW v, Return(k, v), call.op \notin Reporting \/ k = "throws"
      PROVE  /\ call'.op = "none" /\ pc' = "idle"
             /\ report' = NoReport \/ report'.said.kind = "throws"
  BY <1>1, <1>2, OutcomeIs DEF Return
<1>3. CASE Retry
  <2>1. CASE tries >= MaxRetries - 1
    BY <1>2, <1>3, <2>1 DEF Retry
  <2>2. CASE ~(tries >= MaxRetries - 1)
    BY <1>3, <2>2 DEF Retry
  <2>3. QED
    BY <2>1, <2>2
<1>4. QED
  BY <1>2, <1>3

\* What the server does for a counter fits what the client makes of it.
LEMMA ServeCounterFits ==
    ASSUME ConfigsAgree, ValuesInv, call \in CallType, call.op \in CounterOps,
           NEW c \in Counter, c = call.c, ServeCounter(c)
    PROVE  /\ CellOK'
           /\ call.op \in Reporting \cup Getting =>
                \E st, body : /\ Fits(st, body, meant')
                              /\ \/ Answer(<<Status(st, body)>>)
                                 \/ \E w : SetValue(c, w, <<Status(st, body)>>)
<1>1. CellOK /\ CountersOK /\ AskedOK
  BY DEF ValuesInv
<1>2. ASSUME NEW st, NEW body, NEW o, Tell(st, body, o)
      PROVE  CellOK' /\ meant' = o /\ Answer(<<Status(st, body)>>)
  BY <1>1, <1>2 DEF Tell, CellOK
<1>3. CASE call.op = "defineCounter" /\ cell[c] = None
  <2>1. /\ Answer(<<Status(NO_ERROR_STATUS, <<>>)>>) /\ meant' = Outcome("ret", TRUE)
        /\ cell' = [cell EXCEPT ![c] = [cfg |-> call.cfg, value |-> call.cfg.initial]]
    BY <1>3 DEF ServeCounter
  <2>2. PICK new : new = [cfg |-> call.cfg, value |-> call.cfg.initial]
    OBVIOUS
  <2>3. call.cfg \in Config
    BY <1>1, <1>3 DEF AskedOK
  <2>4. new \in [cfg : Config, value : Int] /\ Bounded(new)
    BY <2>2, <2>3 DEF ConfigsAgree, Bounded
  <2>5. DOMAIN cell' = Counter /\ cell'[c] = new /\ \A d \in Counter : d # c => cell'[d] = cell[d]
    BY <1>1, <2>1, <2>2 DEF CellOK
  <2>6. CellOK'
    BY <1>1, <2>4, <2>5 DEF CellOK
  <2>7. CounterOutcome(NO_ERROR_STATUS, <<>>) = Outcome("ret", TRUE)
    BY <1>3, StatusIs DEF CounterOutcome, DefineCounterOperation
  <2>8. Fits(NO_ERROR_STATUS, <<>>, meant')
    BY <1>3, <2>1, <2>7 DEF Fits, Getting
  <2>9. QED
    BY <2>1, <2>6, <2>8
<1>4. CASE call.op = "defineCounter" /\ cell[c] # None
  <2>1. Tell(NOT_PUT_REMOVED_REPLACED_STATUS, <<>>, Outcome("ret", FALSE))
    BY <1>4 DEF ServeCounter
  <2>2. CounterOutcome(NOT_PUT_REMOVED_REPLACED_STATUS, <<>>) = Outcome("ret", FALSE)
    BY <1>4, StatusIs DEF CounterOutcome, DefineCounterOperation
  <2>3. Fits(NOT_PUT_REMOVED_REPLACED_STATUS, <<>>, meant')
    BY <1>2, <1>4, <2>1, <2>2 DEF Fits, Getting
  <2>4. QED
    BY <1>2, <2>1, <2>3
<1>5. CASE call.op # "defineCounter" /\ cell[c] = None
  <2>1. Tell(KEY_DOES_NOT_EXIST_STATUS, <<>>, Outcome("missing", 0))
    BY <1>5 DEF ServeCounter
  <2>2. call.op \in Reporting \cup Getting => Fits(KEY_DOES_NOT_EXIST_STATUS, <<>>, meant')
    BY <1>5, MissingFits
  <2>3. QED
    BY <1>2, <2>1, <2>2
<1>6. CASE /\ call.op \in {"getStrongCounter", "getWeakCounter", "getConfiguration"}
           /\ cell[c] # None
  <2>1. PICK body : /\ body = writeConfiguration(cell[c].cfg)
                    /\ Tell(NO_ERROR_STATUS, body, Outcome("ret", cell[c].cfg))
    BY <1>6 DEF ServeCounter
  <2>2. cell[c].cfg \in Config /\ call.op \notin Reporting
    BY <1>1, <1>6 DEF CellOK, Reporting
  <2>3. CounterOutcome(NO_ERROR_STATUS, body) = Outcome("ret", readConfiguration(body))
    BY <1>6, StatusIs DEF CounterOutcome, GetCounterConfigurationOperation
  <2>4. readConfiguration(body) \in Readable
    BY <2>1, <2>2 DEF Readable
  <2>5. Fits(NO_ERROR_STATUS, body, meant')
    BY <2>2, <2>3, <2>4, OutcomeIs DEF Fits
  <2>6. QED
    BY <1>2, <2>1, <2>5
<1>7. CASE call.op = "getValue" /\ cell[c] # None
  <2>1. PICK v : v = cell[c].value /\ Tell(NO_ERROR_STATUS, <<v>>, Outcome("ret", v))
    BY <1>7 DEF ServeCounter
  <2>2. <<v>>[1] = v
    OBVIOUS
  <2>3. CounterOutcome(NO_ERROR_STATUS, <<v>>) = Outcome("ret", v)
    BY <1>7, <2>2, StatusIs DEF CounterOutcome, GetCounterValueOperation
  <2>4. Fits(NO_ERROR_STATUS, <<v>>, meant')
    BY <1>2, <1>7, <2>1, <2>3 DEF Fits, Getting
  <2>5. QED
    BY <1>2, <2>1, <2>4
<1>8. CASE call.op = "addAndGet" /\ cell[c] # None
  <2>1. PICK v : v = cell[c].value + call.x /\ ServeUpdate(c, v, v)
    BY <1>8 DEF ServeCounter
  <2>2. v \in Int
    BY <1>1, <1>8, <2>1 DEF CellOK, CallType
  <2>3. QED
    BY <1>1, <1>8, <2>1, <2>2, UpdateFits
<1>9. CASE call.op = "compareAndSwap" /\ cell[c] # None
  <2>1. PICK v : /\ v = cell[c].value
                 /\ IF v = call.x THEN ServeUpdate(c, call.y, v)
                    ELSE Tell(NO_ERROR_STATUS, <<v>>, Outcome("ret", v))
    BY <1>9 DEF ServeCounter
  <2>2. CASE ServeUpdate(c, call.y, v)
    <3>1. call.y \in Int
      BY DEF CallType
    <3>2. QED
      BY <1>1, <1>9, <2>2, <3>1, UpdateFits
  <2>3. CASE Tell(NO_ERROR_STATUS, <<v>>, Outcome("ret", v))
    <3>1. <<v>>[1] = v
      OBVIOUS
    <3>2. CounterOutcome(NO_ERROR_STATUS, <<v>>) = Outcome("ret", v)
      BY <1>9, <3>1, StatusIs DEF CounterOutcome, CompareAndSwapCounterValueOperation
    <3>3. Fits(NO_ERROR_STATUS, <<v>>, meant')
      BY <1>2, <1>9, <2>3, <3>2 DEF Fits, Getting
    <3>4. QED
      BY <1>2, <2>3, <3>3
  <2>4. QED
    BY <2>1, <2>2, <2>3
<1>10. CASE call.op = "reset" /\ cell[c] # None
  <2>1. SetValue(c, cell[c].cfg.initial, <<Status(NO_ERROR_STATUS, <<>>)>>)
    BY <1>10 DEF ServeCounter
  <2>2. cell[c].cfg \in Config
    BY <1>1, <1>10 DEF CellOK
  <2>3. CellOK'
    BY <1>1, <1>10, <2>1, <2>2, SetWithin DEF ConfigsAgree
  <2>4. QED
    BY <1>10, <2>3 DEF Reporting, Getting
<1>11. CASE call.op \in {"remove", "removeCounter"} /\ cell[c] # None
  <2>1. cell' = [cell EXCEPT ![c] = None]
    BY <1>11 DEF ServeCounter
  <2>2. CellOK'
    BY <1>1, <2>1 DEF CellOK
  <2>3. QED
    BY <1>11, <2>2 DEF Reporting, Getting
<1>12. CASE call.op \in {"addListener", "removeListener"} /\ cell[c] # None
  <2>1. UNCHANGED cell
    BY <1>12 DEF ServeCounter
  <2>2. CellOK'
    BY <1>1, <2>1 DEF CellOK
  <2>3. QED
    BY <1>12, <2>2 DEF Reporting, Getting
<1>13. QED
  BY <1>3, <1>4, <1>5, <1>6, <1>7, <1>8, <1>9, <1>10, <1>11, <1>12 DEF CounterOps

\* Neither call nor configurations change: nor does what the operation makes of a response.
LEMMA FitsStays ==
    ASSUME UNCHANGED <<call, counters, conn>>,
           in'[conn] # <<>> /\ Head(in'[conn]).k = "response" =>
                Fits(Head(in'[conn]).x[1], Head(in'[conn]).x[2], meant')
    PROVE  FitsOK'
<1>1. \A st, body : CounterOutcome(st, body)' = CounterOutcome(st, body)
  BY DEF CounterOutcome
<1>2. QED
  BY <1>1 DEF FitsOK, Fits

\* The server serves the request.
LEMMA ServeValues ==
    ASSUME ConfigsAgree, EventsInv, CallsOK, DeliveryInv, ValuesInv, Serve
    PROVE  ValuesInv'
<1>1. ShapesOK /\ RequestOK /\ PlaceOK /\ Types
  BY DEF DeliveryInv, EventsInv
<1>2. /\ pc = "sent" /\ UNCHANGED <<call, counters, conn, report>>
      /\ call \in CallType /\ conn \in Conn /\ in[conn] = <<>> /\ \A s \in Sub : subscribed[s] # conn
  BY <1>1 DEF Serve, manager, PlaceOK, Types, RequestOK
<1>3. CountersOK' /\ AskedOK' /\ CounterAnswersAreTrue'
  BY <1>2 DEF ValuesInv, CountersOK, AskedOK, CounterAnswersAreTrue
<1>4. CASE call.l # None /\ (ServeListener(call.l) \/ ServeRemoval(call.l))
  <2>1. UNCHANGED cell /\ call.op \notin Reporting \cup Getting
    BY <1>4 DEF ServeListener, ServeRemoval, Reporting, Getting
  <2>2. CellOK' /\ FitsOK'
    BY <1>2, <2>1 DEF ValuesInv, CellOK, FitsOK
  <2>3. QED
    BY <1>3, <2>2 DEF ValuesInv
<1>5. CASE ServeError
  <2>1. UNCHANGED cell /\ Answer(<<Error>>)
    BY <1>5 DEF ServeError, Error
  <2>2. <<Error>> \in Seq({Error})
    OBVIOUS
  <2>3. in'[conn] = <<Error>>
    BY <1>1, <1>2, <2>1, <2>2, AnsweredIs
  <2>4. Head(in'[conn]).k # "response"
    BY <2>3 DEF Error, Msg
  <2>5. CellOK' /\ FitsOK'
    BY <1>2, <2>1, <2>4, FitsStays DEF ValuesInv, CellOK
  <2>6. QED
    BY <1>3, <2>5 DEF ValuesInv
<1>6. CASE call.c # None /\ ServeCounter(call.c)
  <2>1. PICK c : c = call.c /\ c \in Counter /\ c \in Sub /\ call.op \in CounterOps
    BY <1>1, <1>2, <1>6 DEF CallsOK, Requesting, PlaceOK, CounterOps, Sub
  <2>2. CellOK'
    BY <1>2, <1>6, <2>1, ServeCounterFits
  <2>3. CASE call.op \notin Reporting \cup Getting
    <3>1. FitsOK'
      BY <1>2, <2>3 DEF FitsOK
    <3>2. QED
      BY <1>3, <2>2, <3>1 DEF ValuesInv
  <2>4. CASE call.op \in Reporting \cup Getting
    <3>1. PICK st, body : /\ Fits(st, body, meant')
                          /\ \/ Answer(<<Status(st, body)>>)
                             \/ \E w : SetValue(c, w, <<Status(st, body)>>)
      BY <1>2, <1>6, <2>1, <2>4, ServeCounterFits
    <3>2. PICK r : r = Status(st, body)
      OBVIOUS
    <3>3. in'[conn] = <<r>>
      <4>1. CASE Answer(<<r>>)
        <5>1. <<r>> \in Seq({r})
          OBVIOUS
        <5>2. QED
          BY <1>1, <1>2, <4>1, <5>1, AnsweredIs
      <4>2. ASSUME NEW w, SetValue(c, w, <<r>>) PROVE in'[conn] = <<r>>
        BY <1>1, <1>2, <2>1, <4>2, SetValueIs
      <4>3. QED
        BY <3>1, <3>2, <4>1, <4>2
    <3>4. Head(in'[conn]) = r /\ r.x[1] = st /\ r.x[2] = body
      BY <3>2, <3>3 DEF Status, Msg
    <3>5. FitsOK'
      BY <1>2, <3>1, <3>4, FitsStays
    <3>6. QED
      BY <1>3, <2>2, <3>5 DEF ValuesInv
  <2>5. QED
    BY <2>3, <2>4
<1>7. QED
  BY <1>4, <1>5, <1>6 DEF Serve

\* What a reporting operation makes of a response is an outcome.
LEMMA CounterOutcomeIs ==
    ASSUME call.op \in Reporting, NEW st, NEW body
    PROVE  Outcome(CounterOutcome(st, body).kind, CounterOutcome(st, body).val)
                = CounterOutcome(st, body)
<1>1. \E k, v : CounterOutcome(st, body) = Outcome(k, v)
  <2>1. CASE call.op = "defineCounter"
    <3>1. CounterOutcome(st, body) = Outcome("ret", isSuccess(st))
      BY <2>1 DEF CounterOutcome, DefineCounterOperation
    <3>2. QED
      BY <3>1
  <2>2. CASE call.op = "getValue"
    <3>1. CounterOutcome(st, body) = Outcome("ret", body[1]) \/ CounterOutcome(st, body) = Outcome("throws", 0)
      BY <2>2 DEF CounterOutcome, GetCounterValueOperation
    <3>2. QED
      BY <3>1
  <2>3. CASE call.op = "addAndGet"
    <3>1. \/ CounterOutcome(st, body) = Outcome(IF call.x > 0 THEN "upper" ELSE "lower", 0)
          \/ CounterOutcome(st, body) = Outcome("ret", body[1])
          \/ CounterOutcome(st, body) = Outcome("throws", 0)
      BY <2>3 DEF CounterOutcome, AddAndGetCounterValueOperation
    <3>2. QED
      BY <3>1
  <2>4. CASE call.op = "compareAndSwap"
    <3>1. \/ CounterOutcome(st, body)
                = Outcome(IF call.y >= counters[call.c].upper THEN "upper" ELSE "lower", 0)
          \/ CounterOutcome(st, body) = Outcome("ret", body[1])
          \/ CounterOutcome(st, body) = Outcome("throws", 0)
      BY <2>4 DEF CounterOutcome, CompareAndSwapCounterValueOperation
    <3>2. QED
      BY <3>1
  <2>5. QED
    BY <2>1, <2>2, <2>3, <2>4 DEF Reporting
<1>2. QED
  BY <1>1, OutcomeIs

\* The answer to a counter's call.
LEMMA answer_counterValues ==
    ASSUME ValuesInv, NEW st, NEW body, call.op \in Reporting \cup Getting => Fits(st, body, meant),
           answer_counter(CounterOutcome(st, body)), UNCHANGED cell
    PROVE  ValuesInv'
<1>1. PICK o : o = CounterOutcome(st, body)
  OBVIOUS
<1>2. CellOK'
  BY DEF ValuesInv, CellOK
<1>3. /\ call.op = "compareAndSwap" => UNCHANGED counters
      /\ CountersOK'
  <2>1. CASE o.kind = "ret" /\ call.op \in Getting /\ ~WrongType(o.val)
    <3>1. counters' = [k \in DOMAIN counters \cup {call.c} |-> IF k = call.c THEN o.val ELSE counters[k]]
      BY <1>1, <2>1 DEF answer_counter, Getting
    <3>2. o.val \in Readable
      BY <1>1, <2>1 DEF Fits
    <3>3. QED
      BY <2>1, <3>1, <3>2 DEF ValuesInv, CountersOK, Getting
  <2>2. CASE o.kind = "ret" /\ call.op = "removeCounter"
    <3>1. counters' = [k \in DOMAIN counters \ {call.c} |-> counters[k]]
      BY <1>1, <2>2 DEF answer_counter, Without
    <3>2. QED
      BY <2>2, <3>1 DEF ValuesInv, CountersOK
  <2>3. CASE /\ ~(o.kind = "ret" /\ call.op \in Getting /\ ~WrongType(o.val))
             /\ ~(o.kind = "ret" /\ call.op = "removeCounter")
    <3>1. UNCHANGED counters
      BY <1>1, <2>3 DEF answer_counter, Getting
    <3>2. QED
      BY <3>1 DEF ValuesInv, CountersOK
  <2>4. QED
    BY <2>1, <2>2, <2>3
<1>4. IF o.kind = "throws" THEN Retry
      ELSE IF call.op \in Getting /\ WrongType(o.val) THEN Return("throws", 0)
      ELSE Return(o.kind, o.val)
  BY <1>1 DEF answer_counter, Getting
<1>5. NoCall.op = "none" /\ Reporting \cap Getting = {} /\ NoReport.said = NoReport.did
  BY DEF NoCall, Reporting, Getting, NoReport
<1>6. pc' # "served" /\ (call' = call \/ call' = NoCall)
  BY <1>4 DEF Retry, Return
<1>7. CounterAnswersAreTrue'
  <2>1. CASE o.kind = "throws" \/ call.op \notin Reporting
    <3>1. Retry \/ \E k, v : Return(k, v) /\ (call.op \notin Reporting \/ k = "throws")
      BY <1>4, <2>1
    <3>2. report' \in {report, NoReport} \/ report'.said.kind = "throws"
      BY <3>1, EndIsTrue
    <3>3. QED
      BY <1>5, <3>2 DEF ValuesInv, CounterAnswersAreTrue
  <2>2. CASE o.kind # "throws" /\ call.op \in Reporting
    <3>1. Return(o.kind, o.val)
      BY <1>4, <1>5, <2>2
    <3>2. report'.said = Outcome(o.kind, o.val) /\ report'.did = meant
      BY <2>2, <3>1 DEF Return
    <3>3. Outcome(o.kind, o.val) = o
      BY <1>1, <2>2, CounterOutcomeIs
    <3>4. o = meant
      BY <1>1, <2>2 DEF Fits
    <3>5. QED
      BY <3>2, <3>3, <3>4 DEF CounterAnswersAreTrue
  <2>3. QED
    BY <2>1, <2>2
<1>8. AskedOK'
  BY <1>3, <1>5, <1>6 DEF ValuesInv, AskedOK
<1>9. FitsOK'
  BY <1>6 DEF FitsOK
<1>10. QED
  BY <1>2, <1>3, <1>7, <1>8, <1>9 DEF ValuesInv

\* The operation reads an answer.
LEMMA readAnswerValues ==
    ASSUME EventsInv, CallsOK, DeliveryInv, ValuesInv, readAnswer
    PROVE  ValuesInv'
<1>1. pc = "served" /\ conn \in Conn /\ in[conn] # <<>> /\ UNCHANGED cell
  BY readAnswerIs DEF readAnswer, server
<1>2. PICK m : m = Head(in[conn])
  OBVIOUS
<1>3. CASE answer_addClientListener(call.l, m)
  <2>1. call.op = "addClientListener" /\ UNCHANGED counters
    BY <1>3 DEF answer_addClientListener, manager
  <2>2. \/ UNCHANGED app
        \/ Return("ret", 0)
        \/ Retry
    BY <1>3 DEF answer_addClientListener
  <2>3. call.op \notin Reporting \cup Getting
    BY <2>1 DEF Reporting, Getting
  <2>4. CASE UNCHANGED app
    <3>1. UNCHANGED <<call, report>>
      BY <2>4 DEF app
    <3>2. QED
      BY <1>1, <2>1, <2>3, <3>1, ValuesStay
  <2>5. CASE Return("ret", 0) \/ Retry
    <3>1. Retry \/ \E k, v : Return(k, v) /\ (call.op \notin Reporting \/ k = "throws")
      BY <2>3, <2>5
    <3>2. QED
      BY <1>1, <2>1, <3>1, EndIsTrue, ValuesStay
  <2>6. QED
    BY <2>2, <2>4, <2>5
<1>4. CASE answer_removeClientListener(call.l, m)
  <2>1. call.op = "removeClientListener" /\ UNCHANGED counters
    BY <1>4 DEF answer_removeClientListener, manager
  <2>2. \/ pc' = "join" /\ UNCHANGED <<call, report>>
        \/ Return("ret", 0)
        \/ Retry
    BY <1>4 DEF answer_removeClientListener
  <2>3. call.op \notin Reporting \cup Getting
    BY <2>1 DEF Reporting, Getting
  <2>4. CASE pc' = "join" /\ UNCHANGED <<call, report>>
    BY <1>1, <2>1, <2>4, ValuesStay
  <2>5. CASE Return("ret", 0) \/ Retry
    <3>1. Retry \/ \E k, v : Return(k, v) /\ (call.op \notin Reporting \/ k = "throws")
      BY <2>3, <2>5
    <3>2. QED
      BY <1>1, <2>1, <3>1, EndIsTrue, ValuesStay
  <2>6. QED
    BY <2>2, <2>4, <2>5
<1>5. CASE m.k # "response" /\ answer_exception(m)
  <2>1. Retry /\ UNCHANGED counters
    BY <1>5 DEF answer_exception
  <2>2. QED
    BY <1>1, <2>1, EndIsTrue, ValuesStay
<1>6. ASSUME m.k = "response", NEW o, answer_addListener(o) \/ answer_removeListener(o)
      PROVE  ValuesInv'
  <2>1. UNCHANGED counters /\ call.op \in {"addListener", "removeListener"}
    BY <1>6 DEF answer_addListener, answer_removeListener
  <2>2. call.op \notin Reporting
    BY <2>1 DEF Reporting
  <2>3. \/ \E v : Return("ret", v)
        \/ /\ pc' = "stopping" /\ UNCHANGED report
           /\ call' = [call EXCEPT !.todo = {counterDispatcher}]
    BY <1>6 DEF answer_addListener, answer_removeListener
  <2>4. CASE \E v : Return("ret", v)
    <3>1. \E k, v : Return(k, v) /\ (call.op \notin Reporting \/ k = "throws")
      BY <2>2, <2>4
    <3>2. QED
      BY <1>1, <2>1, <3>1, EndIsTrue, ValuesStay
  <2>5. CASE /\ pc' = "stopping" /\ UNCHANGED report
             /\ call' = [call EXCEPT !.todo = {counterDispatcher}]
    <3>1. call \in CallType
      BY DEF EventsInv, Types
    <3>2. call'.op = call.op
      BY <2>5, <3>1 DEF CallType
    <3>3. QED
      BY <1>1, <2>1, <2>5, <3>2, ValuesStay
  <2>6. QED
    BY <2>3, <2>4, <2>5
<1>7. CASE m.k = "response" /\ answer_counter(CounterOutcome(m.x[1], m.x[2]))
  <2>1. call.op \in Reporting \cup Getting => Fits(m.x[1], m.x[2], meant)
    BY <1>1, <1>2, <1>7 DEF ValuesInv, FitsOK
  <2>2. QED
    BY <1>1, <1>7, <2>1, answer_counterValues
<1>8. QED
  BY <1>2, <1>3, <1>4, <1>5, <1>6, <1>7 DEF readAnswer

\* While a reporting operation waits, nobody else's messages come on its connection.
LEMMA AnswerAlone ==
    ASSUME EventsInv, CallsOK, DeliveryInv, pc = "served", call.op \in Reporting \cup Getting
    PROVE  /\ conn \in Conn /\ conn # None /\ \A s \in Sub : subscribed[s] # conn
           /\ in[conn] = <<>> \/ \E m : in[conn] = <<m>>
<1>1. conn \in Conn /\ conn # None
  BY EventsAssumption DEF EventsInv, PlaceOK, Types
<1>2. call.op \notin {"addClientListener", "addListener"}
  BY DEF Reporting, Getting
<1>3. \A s \in Sub : subscribed[s] # conn
  BY <1>1, <1>2, OwnersAre
<1>4. OneAnswer(call.op, in[conn])
  BY <1>3 DEF DeliveryInv, RequestOK, ServedOK
<1>5. QED
  BY <1>1, <1>3, <1>4 DEF OneAnswer

\* A step of others.
LEMMA OthersKeepValues ==
    ASSUME ValuesInv, CellOK', UNCHANGED <<pc, call, conn, report, meant, counters>>,
           pc = "served" /\ call.op \in Reporting \cup Getting =>
                \/ in'[conn] = <<>>
                \/ in[conn] # <<>> /\ Head(in'[conn]) = Head(in[conn])
    PROVE  ValuesInv'
<1>1. CountersOK' /\ AskedOK' /\ CounterAnswersAreTrue'
  BY DEF ValuesInv, CountersOK, AskedOK, CounterAnswersAreTrue
<1>2. CASE pc = "served" /\ call.op \in Reporting \cup Getting
  <2>1. in'[conn] # <<>> /\ Head(in'[conn]).k = "response" =>
            Fits(Head(in'[conn]).x[1], Head(in'[conn]).x[2], meant')
    BY <1>2 DEF ValuesInv, FitsOK
  <2>2. FitsOK'
    BY <2>1, FitsStays
  <2>3. QED
    BY <1>1, <2>2 DEF ValuesInv
<1>3. CASE ~(pc = "served" /\ call.op \in Reporting \cup Getting)
  <2>1. FitsOK'
    BY <1>3 DEF FitsOK
  <2>2. QED
    BY <1>1, <2>1 DEF ValuesInv
<1>4. QED
  BY <1>2, <1>3

\* The dispatchers' threads, the network and the other clients.
LEMMA OthersValues ==
    ASSUME ConfigsAgree, EventsInv, CallsOK, DeliveryInv, ValuesInv,
           \/ \E d \in Id : Dispatcher(d) \/ ReadTimesOut(d)
           \/ \E n \in Conn : Drop(n)
           \/ \E l \in Listener : SendEvent(l)
           \/ \E c \in Counter : OtherClient(c)
    PROVE  ValuesInv'
<1>1. /\ ShapesOK /\ RunningOK /\ RegisteredOK /\ DispatchersOK
  BY DEF DeliveryInv, EventsInv
<1>2. UNCHANGED cell => CellOK'
  BY DEF ValuesInv, CellOK
<1>3. ASSUME NEW d \in Id, Dispatcher(d) \/ ReadTimesOut(d) PROVE ValuesInv'
  <2>1. UNCHANGED <<pc, call, conn, report, meant, counters, cell>>
    BY <1>3 DEF Dispatcher, ReadTimesOut, ReadEvent, HandleEvent, ReadFails, ReadThrows, Recover, app,
       manager, server
  <2>2. conn \in Conn => in'[conn] = in[conn]
    <3>1. CASE ReadEvent(d)
      <4>1. d \in DOMAIN eventDispatchers /\ eventDispatchers[d] # conn
        BY <1>1, <3>1 DEF ReadEvent, RegisteredOK
      <4>2. QED
        BY <1>1, <3>1, <4>1 DEF ReadEvent, Transport, ShapesOK
    <3>2. CASE ~ReadEvent(d)
      BY <1>3, <3>2 DEF Dispatcher, ReadTimesOut, HandleEvent, ReadFails, ReadThrows, Recover, links
    <3>3. QED
      BY <3>1, <3>2
  <2>3. QED
    BY <1>2, <2>1, <2>2, AnswerAlone, OthersKeepValues
<1>4. ASSUME NEW n \in Conn, Drop(n) PROVE ValuesInv'
  <2>1. UNCHANGED <<pc, call, conn, report, meant, counters, cell>>
    BY <1>4 DEF Drop, app, manager, server
  <2>2. PICK k \in 0 .. Len(in[n]) : in' = [in EXCEPT ![n] = SubSeq(@, 1, k)]
    BY <1>4 DEF Drop
  <2>3. ASSUME pc = "served", call.op \in Reporting \cup Getting
        PROVE  in'[conn] = <<>> \/ (in[conn] # <<>> /\ Head(in'[conn]) = Head(in[conn]))
    <3>1. conn \in Conn /\ (in[conn] = <<>> \/ \E m : in[conn] = <<m>>)
      BY <2>3, AnswerAlone
    <3>2. CASE n # conn
      BY <1>1, <2>2, <3>1, <3>2 DEF ShapesOK
    <3>3. CASE n = conn
      <4>1. in'[conn] = SubSeq(in[conn], 1, k) /\ k \in 0 .. Len(in[conn])
        BY <1>1, <2>2, <3>1, <3>3 DEF ShapesOK
      <4>2. CASE k = 0
        BY <4>1, <4>2, SubSeqEmpty
      <4>3. CASE k # 0
        <5>1. PICK m : in[conn] = <<m>>
          BY <3>1, <4>1, <4>3
        <5>2. PICK q : q = <<m>>
          OBVIOUS
        <5>3. Len(q) = 1 /\ q[1] = m /\ Head(q) = m /\ q # <<>> /\ k = 1
          BY <4>1, <4>3, <5>1, <5>2
        <5>4. PICK r : r = SubSeq(q, 1, 1)
          OBVIOUS
        <5>5. r \in Seq({m}) /\ Len(r) = 1 /\ r[1] = q[1]
          BY <5>3, <5>4, SubSeqProperties
        <5>6. Head(r) = m
          BY <5>3, <5>5
        <5>7. QED
          BY <4>1, <5>1, <5>2, <5>3, <5>4, <5>6
      <4>4. QED
        BY <4>2, <4>3
    <3>4. QED
      BY <3>2, <3>3
  <2>4. QED
    BY <1>2, <2>1, <2>3, OthersKeepValues
<1>5. ASSUME NEW l \in Listener, SendEvent(l) PROVE ValuesInv'
  <2>1. UNCHANGED <<pc, call, conn, report, meant, counters, cell>>
    BY <1>5 DEF SendEvent, app, manager, server
  <2>2. conn \in Conn /\ subscribed[l] # conn => in'[conn] = in[conn]
    BY <1>1, <1>5 DEF SendEvent, ShapesOK
  <2>3. l \in Sub
    BY DEF Sub
  <2>4. QED
    BY <1>2, <2>1, <2>2, <2>3, AnswerAlone, OthersKeepValues
<1>6. ASSUME NEW c \in Counter, OtherClient(c) PROVE ValuesInv'
  <2>1. /\ UNCHANGED <<pc, call, conn, report, meant, counters>>
        /\ cell[c] # None /\ Refused(c, cell[c].value + 1) = "no"
        /\ SetValue(c, cell[c].value + 1, <<>>)
    BY <1>6 DEF OtherClient, app, manager
  <2>2. PICK v : v = cell[c].value + 1 /\ v \in Int
    BY <2>1 DEF ValuesInv, CellOK
  <2>3. CellOK'
    BY <2>1, <2>2, RefusedIs, SetWithin DEF ValuesInv
  <2>4. ASSUME pc = "served", call.op \in Reporting \cup Getting
        PROVE  in'[conn] = <<>> \/ (in[conn] # <<>> /\ Head(in'[conn]) = Head(in[conn]))
    <3>1. /\ conn \in Conn /\ subscribed[c] # conn
          /\ in[conn] = <<>> \/ \E m : in[conn] = <<m>>
      BY <2>4, AnswerAlone DEF Sub
    <3>2. \E S : in[conn] \in Seq(S)
      <4>1. CASE in[conn] = <<>>
        BY <4>1
      <4>2. ASSUME NEW m, in[conn] = <<m>> PROVE \E S : in[conn] \in Seq(S)
        <5>1. in[conn] \in Seq({m})
          BY <4>2
        <5>2. QED
          BY <5>1
      <4>3. QED
        BY <3>1, <4>1, <4>2
    <3>3. in'[conn] = in[conn]
      BY <1>1, <2>1, <3>1, <3>2, SetValueIs
    <3>4. QED
      BY <3>3
  <2>5. QED
    BY <2>1, <2>3, <2>4, OthersKeepValues
<1>7. QED
  BY <1>3, <1>4, <1>5, <1>6

\* A new call.
LEMMA NewCallValues ==
    ASSUME ValuesInv, NewCall
    PROVE  ValuesInv'
<1>1. NoReport.said = NoReport.did /\ NoCall.op = "none"
  BY DEF NoReport, NoCall
<1>2. ASSUME NEW r, Remote(r), RequestIs(r) PROVE ValuesInv'
  <2>1. /\ UNCHANGED <<cell, counters>> /\ pc' = "borrow" /\ report' = NoReport /\ call' = r
    BY <1>2 DEF Remote, Call, manager, server
  <2>2. CellOK' /\ CountersOK' /\ AskedOK' /\ FitsOK' /\ CounterAnswersAreTrue'
    BY <1>1, <1>2, <2>1 DEF ValuesInv, CellOK, CountersOK, AskedOK, FitsOK, RequestIs,
       CounterAnswersAreTrue
  <2>3. QED
    BY <2>2 DEF ValuesInv
<1>3. CASE LocalIs
  <2>1. UNCHANGED <<cell, counters>> /\ pc' = "idle" /\ report' = NoReport /\ call' = NoCall
    BY <1>3 DEF LocalIs
  <2>2. QED
    BY <1>1, <2>1, ValuesStay
<1>4. CASE stop
  <2>1. /\ UNCHANGED <<cell, counters>> /\ pc' = "stopping" /\ report' = NoReport
        /\ call' = [NoCall EXCEPT !.op = "stop", !.todo = DOMAIN eventDispatchers]
    BY <1>4 DEF stop, Call, manager, server
  <2>2. call'.op = "stop"
    BY <2>1 DEF NoCall
  <2>3. QED
    BY <2>1, <2>2, ValuesStay
<1>5. CASE start
  <2>1. UNCHANGED <<cell, counters>> /\ pc' = "idle" /\ report' = NoReport /\ call' = NoCall
    BY <1>5 DEF start, Call, server
  <2>2. QED
    BY <1>1, <2>1, ValuesStay
<1>6. QED
  BY <1>2, <1>3, <1>4, <1>5, NewCallIs

\* The other steps of the application.
LEMMA ApplicationValues ==
    ASSUME EventsInv, ValuesInv,
           \/ getTransport \/ flush \/ connectionLost \/ getTransportFails \/ answerTimesOut
           \/ stopDispatcher \/ removeJoined \/ counterJoined \/ stopJoined \/ stopped
    PROVE  ValuesInv'
<1>1. UNCHANGED <<cell, counters>>
  BY DEF getTransport, flush, connectionLost, getTransportFails, answerTimesOut, transportException,
     stopDispatcher, removeJoined, counterJoined, stopJoined, stopped, manager, server
<1>2. CASE getTransport \/ flush
  <2>1. UNCHANGED <<call, report>> /\ pc' # "served"
    BY <1>2 DEF getTransport, flush
  <2>2. QED
    BY <1>1, <2>1, ValuesStay
<1>3. CASE connectionLost \/ getTransportFails \/ answerTimesOut
  <2>1. Retry
    BY <1>3 DEF connectionLost, getTransportFails, answerTimesOut, transportException
  <2>2. QED
    BY <1>1, <2>1, EndIsTrue, ValuesStay
<1>4. CASE removeJoined \/ counterJoined \/ stopped
  <2>1. Return("ret", 0) /\ call.op \in {"removeClientListener", "removeListener", "stop"}
    BY <1>4 DEF removeJoined, counterJoined, stopped
  <2>2. \E k, v : Return(k, v) /\ (call.op \notin Reporting \/ k = "throws")
    BY <2>1 DEF Reporting
  <2>3. QED
    BY <1>1, <2>2, EndIsTrue, ValuesStay
<1>5. CASE stopDispatcher \/ stopJoined
  <2>1. call \in CallType
    BY DEF EventsInv, Types
  <2>2. /\ UNCHANGED report /\ pc' # "served"
        /\ (\E d : call' = [call EXCEPT !.d = d]) \/ (\E t : call' = [call EXCEPT !.todo = t])
    BY <1>5 DEF stopDispatcher, stopJoined
  <2>3. call'.op = call.op /\ call'.cfg = call.cfg /\ call'.c = call.c
    BY <2>1, <2>2 DEF CallType
  <2>4. CellOK' /\ CountersOK' /\ AskedOK' /\ FitsOK' /\ CounterAnswersAreTrue'
    BY <1>1, <2>2, <2>3 DEF ValuesInv, CellOK, CountersOK, AskedOK, FitsOK, CounterAnswersAreTrue
  <2>5. QED
    BY <2>4 DEF ValuesInv
<1>6. QED
  BY <1>2, <1>3, <1>4, <1>5

\* The invariant holds at the start.
LEMMA InitValues ==
    ASSUME ConfigsAgree
    PROVE  Init => ValuesInv
<1>1. SUFFICES ASSUME Init PROVE ValuesInv
  OBVIOUS
<1>2. NoCall.op = "none" /\ NoReport.said = NoReport.did
  BY DEF NoCall, NoReport
<1>3. AskedOK /\ FitsOK /\ CounterAnswersAreTrue
  BY <1>1, <1>2 DEF Init, AskedOK, FitsOK, CounterAnswersAreTrue
<1>4. CASE cell = [c \in Counter |-> None] /\ counters = <<>>
  <2>1. CellOK /\ CountersOK
    BY <1>4 DEF CellOK, CountersOK
  <2>2. QED
    BY <1>3, <2>1 DEF ValuesInv
<1>5. ASSUME NEW cfg \in Config,
             cell = [c \in Counter |-> [cfg |-> cfg, value |-> cfg.initial]],
             counters = [c \in Counter |-> readConfiguration(writeConfiguration(cfg))]
      PROVE  ValuesInv
  <2>1. PICK it : it = [cfg |-> cfg, value |-> cfg.initial]
    OBVIOUS
  <2>2. it \in [cfg : Config, value : Int] /\ Bounded(it)
    BY <2>1 DEF ConfigsAgree, Bounded
  <2>3. CellOK
    BY <1>5, <2>1, <2>2 DEF CellOK
  <2>4. CountersOK
    BY <1>5 DEF CountersOK, Readable
  <2>5. QED
    BY <1>3, <2>3, <2>4 DEF ValuesInv
<1>6. QED
  BY <1>1, <1>4, <1>5 DEF Init

\* Every step keeps it.
LEMMA NextValues ==
    ASSUME ConfigsAgree, EventsInv, CallsOK, DeliveryInv, ValuesInv, [Next]_vars
    PROVE  ValuesInv'
<1>1. CASE Application \/ getTransportFails \/ answerTimesOut
  BY <1>1, ApplicationValues, readAnswerValues DEF Application
<1>2. CASE \E d \in Id : Dispatcher(d) \/ ReadTimesOut(d)
  BY <1>2, OthersValues
<1>3. CASE NewCall \/ Serve
  BY <1>3, NewCallValues, ServeValues
<1>4. CASE \/ \E n \in Conn : Drop(n)
           \/ \E l \in Listener : SendEvent(l)
           \/ \E c \in Counter : OtherClient(c)
  BY <1>4, OthersValues
<1>5. CASE UNCHANGED vars
  <2>1. UNCHANGED <<pc, call, conn, report, meant, counters, cell, in>>
    BY <1>5 DEF vars, app, links, manager, server
  <2>2. CellOK'
    BY <2>1 DEF ValuesInv, CellOK
  <2>3. in'[conn] = <<>> \/ (in[conn] # <<>> /\ Head(in'[conn]) = Head(in[conn]))
    BY <2>1
  <2>4. QED
    BY <2>1, <2>2, <2>3, OthersKeepValues
<1>6. QED
  BY <1>1, <1>2, <1>3, <1>4, <1>5 DEF Next

\* What addAndGet, compareAndSwap, getValue and defineCounter return or throw is what the
\* server did for the last request, the bound it refused an update for too
\* (CompareAndSwapCounterValueOperation::assertBoundaries with the configuration that the
\* object was made with).
THEOREM CounterAnswersHold ==
    ASSUME OneCounter, ServerEvents, ConfigsAgree
    PROVE  Spec => []CounterAnswersAreTrue
<1>1. Init => ValuesInv
  BY InitValues
<1>2. EventsInv /\ CallsOK /\ DeliveryInv /\ ValuesInv /\ [Next]_vars => ValuesInv'
  BY NextValues
<1>3. ValuesInv => CounterAnswersAreTrue
  BY DEF ValuesInv
<1>4. QED
  BY <1>1, <1>2, <1>3, DeliveryInvariant, PTL DEF Spec

=============================================================================
