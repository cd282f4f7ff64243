------------------------------- MODULE Events -------------------------------
(***************************************************************************)
(* Events: client listeners (ClientListenerNotifier, EventDispatcher,      *)
(* Add/RemoveClientListenerOperation) and counters with their listeners    *)
(* (RemoteCounterManagerImpl, CountersImpl, CounterDispatcher), and the    *)
(* start and stop of the manager that owns both.                           *)
(*                                                                         *)
(* One application thread calls the API: the notifier's map, the           *)
(* dispatchers' lists and the counter manager have no lock.  Every         *)
(* dispatcher has a thread of its own that reads a connection which the    *)
(* adding operation borrowed and did not release.  A message is one        *)
(* element of the connection's input.  The pool is reduced to its idle     *)
(* connections and its loans (see module ConnectionPool).  The server and  *)
(* the network are external.                                               *)
(***************************************************************************)
EXTENDS CounterProtocol, SequencesExt

CONSTANTS
    Listener,       \* client listeners
    Handle,         \* counter listeners
    Counter,        \* names of counters
    DispatcherId,   \* bound: listener ids that addListener generates for counter dispatchers
    Conn,           \* bound: connections, 1 .. N
    Config,         \* configurations that counters are defined with
    Immediate,      \* the types of the events that the server sends before its response
    Later,          \* the types of those it sends after it
    ErrorOps,       \* the operations that it may answer with an error
    None,
    MaxRetries, MaxCalls, MaxEvents, MaxFaults   \* bounds, but for MaxRetries

ASSUME EventsAssumption ==
    /\ MaxRetries \in Nat
    /\ Conn \subseteq Nat
    /\ None \notin Conn \cup Counter \cup Listener \cup DispatcherId
    /\ Listener \cap (Counter \cup DispatcherId) = {}

VARIABLES
    started,            \* RemoteCacheManagerImpl::started
    pc, call, tries,    \* the application thread: where, the call, retryCount
    conn,               \* the connection its operation borrowed
    report,             \* what the last call ended with
    pool, lent,         \* idle and borrowed connections
    socket, in,         \* of each connection
    eventDispatchers,   \* of the notifier: listener id -> connection of the dispatcher
    thread,             \* of each dispatcher, with the event it handles
    counterDispatcher,  \* of the counter manager
    listeners,          \* of the counter dispatcher: counter -> sequence of listeners
    counters,           \* of the counter manager: counter -> configuration of the object
    leaked,             \* history: connections that its failed registrations kept
    subscribed,         \* (external) the connection for the events of a listener or counter
    cell,               \* (external) the counters
    sent, heard,        \* history: of each client listener, since it was registered
    called,             \* history: the last event that each counter listener got
    removed,            \* history: counter listeners whose removal returned
    recovered,          \* history: dispatchers whose recoveryCallback was called
    meant,              \* history: what the server did for the last request
    calls, events, faults

app == <<pc, call, tries, conn, report, meant>>
links == <<pool, lent, socket, in>>
manager == <<counterDispatcher, listeners, counters, leaked>>
server == <<subscribed, cell>>
history == <<sent, heard, called, removed, recovered>>
vars == <<started, app, links, eventDispatchers, thread, manager, server, history,
          calls, events, faults>>

Id == Listener \cup DispatcherId
NoThread == [at |-> "none", event |-> None]
NoCall == [op |-> "none", l |-> None, c |-> None, h |-> None, x |-> 0, y |-> 0, cfg |-> None,
           todo |-> {}, d |-> None]
NoReport == [said |-> Outcome("none", 0), did |-> Outcome("none", 0)]

\* The calls whose outcome is the server's.
Reporting == {"addAndGet", "compareAndSwap", "getValue", "defineCounter"}

\* A message: what it is and what it carries.
Msg(k, x) == [k |-> k, x |-> x]

EventType == {"created", "modified", "removed", "expired", "custom"}
isEvent(m) == m.k \in EventType
isCounterEvent(m) == m.k = "counter"

\* The counters may have been defined, and their objects made, before.
Init ==
    /\ started = TRUE
    /\ pc = "idle" /\ call = NoCall /\ tries = 0 /\ conn = None /\ report = NoReport
    /\ pool = {} /\ lent = {}
    /\ socket = [n \in Conn |-> "unused"]
    /\ in = [n \in Conn |-> <<>>]
    /\ eventDispatchers = <<>>
    /\ thread = [d \in Id |-> NoThread]
    /\ counterDispatcher = None
    /\ listeners = <<>>
    /\ leaked = {}
    /\ subscribed = [s \in Listener \cup Counter |-> None]
    /\ \/ cell = [c \in Counter |-> None] /\ counters = <<>>
       \/ \E cfg \in Config :
            /\ cell = [c \in Counter |-> [cfg |-> cfg, value |-> cfg.initial]]
            /\ counters = [c \in Counter |-> readConfiguration(writeConfiguration(cfg))]
    /\ meant = Outcome("none", 0)
    /\ sent = [l \in Listener |-> <<>>]
    /\ heard = [l \in Listener |-> <<>>]
    /\ called = [h \in Handle |-> None]
    /\ removed = {}
    /\ recovered = {}
    /\ calls = 0 /\ events = 0 /\ faults = 0

-----------------------------------------------------------------------------
(* Connections *)

\* Transport::release: the socket is shut down; its reader may still find in the
\* stream's buffer what had arrived.
Close(n) ==
    /\ socket' = [socket EXCEPT ![n] = IF @ = "open" THEN "closed" ELSE @]
    /\ \E k \in 0 .. Len(in[n]) : in' = [in EXCEPT ![n] = SubSeq(@, 1, k)]

\* invalidateTransport and the pool's destroy: the connections ns, and no others.
Destroyed(ns) ==
    /\ socket' = [n \in Conn |-> IF n \in ns THEN "unused" ELSE socket[n]]
    /\ in' = [n \in Conn |-> IF n \in ns THEN <<>> ELSE in[n]]

\* TransportFactory::releaseTransport of the operation's connection, of which it has
\* read m messages.
Release(m) ==
    /\ pool' = pool \cup {conn}
    /\ lent' = lent \ {conn}
    /\ in' = [in EXCEPT ![conn] = SubSeq(@, m + 1, Len(@))]
    /\ UNCHANGED socket

\* The operation keeps its connection.
Keep(m) ==
    /\ in' = [in EXCEPT ![conn] = SubSeq(@, m + 1, Len(@))]
    /\ UNCHANGED <<pool, lent, socket>>

\* (External) a connection is lost, with a part of what was on its way.
Drop(n) ==
    /\ faults < MaxFaults
    /\ faults' = faults + 1
    /\ socket[n] = "open"
    /\ socket' = [socket EXCEPT ![n] = "down"]
    /\ \E k \in 0 .. Len(in[n]) : in' = [in EXCEPT ![n] = SubSeq(@, 1, k)]
    /\ UNCHANGED <<started, app, pool, lent, eventDispatchers, thread, manager, server,
                   history, calls, events>>

-----------------------------------------------------------------------------
(* Dispatcher threads *)

\* CacheClientListener::processEvent: the callbacks for the type of the event.
processEvent(l, m) == heard' = [heard EXCEPT ![l] = Append(@, m)]

\* CounterDispatcher::run calls every listener of the counter, in their order.
onUpdate(m) ==
    LET c == m.x[1]
        ev == <<c, m.x[2], encoded2OldState(m.x[4]), m.x[3], encoded2NewState(m.x[4])>>
    IN  called' = [h \in Handle |->
                    IF c \in DOMAIN listeners /\ h \in Range(listeners[c])
                    THEN ev
                    ELSE called[h]]

\* The connection that dispatcher d was made with.
Transport(d) == eventDispatchers[d]

\* A message that is no event ends the thread.
ReadEvent(d) ==
    /\ d \in DOMAIN eventDispatchers
    /\ thread[d].at = "reading"
    /\ in[Transport(d)] # <<>>
    /\ LET m == Head(in[Transport(d)])
           expected == IF d \in Listener THEN isEvent(m) ELSE isCounterEvent(m)
       IN  thread' = [thread EXCEPT ![d] =
                        IF expected THEN [at |-> "handling", event |-> m]
                        ELSE [at |-> "exited", event |-> None]]
    /\ in' = [in EXCEPT ![Transport(d)] = Tail(@)]
    /\ UNCHANGED <<started, app, pool, lent, socket, eventDispatchers, manager, server,
                   history, calls, events, faults>>

HandleEvent(d) ==
    /\ thread[d].at = "handling"
    /\ IF d \in Listener
       THEN processEvent(d, thread[d].event) /\ UNCHANGED called
       ELSE onUpdate(thread[d].event) /\ UNCHANGED heard
    /\ thread' = [thread EXCEPT ![d] = [at |-> "reading", event |-> None]]
    /\ UNCHANGED <<started, app, links, eventDispatchers, manager, server, sent, removed,
                   recovered, calls, events, faults>>

\* The read of an event throws a TransportException.
ReadThrows(d) ==
    /\ d \in DOMAIN eventDispatchers
    /\ thread[d].at = "reading"
    /\ in[Transport(d)] = <<>>
    /\ thread' = [thread EXCEPT ![d].at = "recovering"]
    /\ UNCHANGED <<started, app, links, eventDispatchers, manager, server, history,
                   calls, events>>

\* The socket is shut down or lost.
ReadFails(d) ==
    /\ ReadThrows(d)
    /\ socket[Transport(d)] # "open"
    /\ UNCHANGED faults

\* No event came for the socket timeout.
ReadTimesOut(d) ==
    /\ ReadThrows(d)
    /\ socket[Transport(d)] = "open"
    /\ faults < MaxFaults
    /\ faults' = faults + 1

\* Mutant of Recover: the thread ends without the callback.
RecoverSilently(d) ==
    /\ thread[d].at = "recovering"
    /\ thread' = [thread EXCEPT ![d].at = "exited"]
    /\ UNCHANGED <<started, app, links, eventDispatchers, manager, server, history,
                   calls, events, faults>>

\* Counter dispatchers are made with an empty callback.
Recover(d) ==
    /\ thread[d].at = "recovering"
    /\ recovered' = IF d \in Listener THEN recovered \cup {d} ELSE recovered
    /\ thread' = [thread EXCEPT ![d].at = "exited"]
    /\ UNCHANGED <<started, app, links, eventDispatchers, manager, server, sent, heard,
                   called, removed, calls, events, faults>>

-----------------------------------------------------------------------------
(* Calls *)

Call(c, to) ==
    /\ pc = "idle"
    /\ calls < MaxCalls
    /\ calls' = calls + 1
    /\ pc' = to
    /\ call' = IF to = "idle" THEN NoCall ELSE c
    /\ report' = NoReport
    /\ UNCHANGED <<tries, conn, meant, events, faults>>

\* A call that needs a request.
Remote(c) ==
    /\ started
    /\ Call(c, "borrow")
    /\ UNCHANGED <<started, links, eventDispatchers, thread, manager, server, history>>

Return(kind, val) ==
    /\ pc' = "idle"
    /\ call' = NoCall
    /\ tries' = 0
    /\ conn' = None
    /\ report' = IF call.op \in Reporting
                 THEN [said |-> Outcome(kind, val), did |-> meant]
                 ELSE NoReport
    /\ meant' = NoReport.did

\* logErrorAndThrowExceptionIfNeeded, without another cluster, and the next attempt.
Retry ==
    IF tries >= MaxRetries - 1
    THEN Return("throws", 0)
    ELSE /\ tries' = tries + 1
         /\ pc' = "borrow"
         /\ conn' = None
         /\ UNCHANGED <<call, report, meant>>

addClientListener(l) ==
    /\ l \notin DOMAIN eventDispatchers
    /\ Remote([NoCall EXCEPT !.op = "addClientListener", !.l = l])

\* findClientListenerTransport throws for a listener that is not registered.
removeClientListener(l) ==
    /\ l \in DOMAIN eventDispatchers
    /\ Remote([NoCall EXCEPT !.op = "removeClientListener", !.l = l])

defineCounter(c) ==
    \E cfg \in Config : Remote([NoCall EXCEPT !.op = "defineCounter", !.c = c, !.cfg = cfg])

\* getStrongCounter and getWeakCounter; a counter that was got before needs no request.
getCounter(c, op) ==
    /\ c \notin DOMAIN counters
    /\ Remote([NoCall EXCEPT !.op = op, !.c = c])

getConfiguration(c) == Remote([NoCall EXCEPT !.op = "getConfiguration", !.c = c])

\* RemoteCounterManagerImpl::remove.
removeCounter(c) == Remote([NoCall EXCEPT !.op = "removeCounter", !.c = c])

\* The methods of a counter object.
CounterCall(c, op, xs, ys) ==
    /\ c \in DOMAIN counters
    /\ \E x \in xs, y \in ys : Remote([NoCall EXCEPT !.op = op, !.c = c, !.x = x, !.y = y])

addAndGet(c) == CounterCall(c, "addAndGet", {-1, 1}, {0})
compareAndSwap(c) == CounterCall(c, "compareAndSwap", {0}, {-1, 1, 2})
reset(c) == CounterCall(c, "reset", {0}, {0})
getValue(c) == CounterCall(c, "getValue", {0}, {0})
BaseCounterImpl_remove(c) == CounterCall(c, "remove", {0}, {0})

\* getListeners inserts an empty list.
getListeners(c) == IF c \in DOMAIN listeners THEN listeners[c] ELSE <<>>
Listening(c, hs) == [k \in DOMAIN listeners \cup {c} |-> IF k = c THEN hs ELSE listeners[k]]

\* Only the first listener of a counter is announced to the server.
addListener(c, h) ==
    LET named == [NoCall EXCEPT !.op = "addListener", !.c = c, !.h = h]
    IN  /\ c \in DOMAIN counters
        /\ \A k \in DOMAIN listeners : h \notin Range(listeners[k])
        /\ IF counterDispatcher # None /\ getListeners(c) # <<>>
           THEN /\ started
                /\ Call(named, "idle")
                /\ listeners' = Listening(c, Append(getListeners(c), h))
                /\ called' = [called EXCEPT ![h] = None]
                /\ removed' = removed \ {h}
                /\ UNCHANGED <<started, links, eventDispatchers, thread, counterDispatcher,
                               counters, leaked, server, sent, heard, recovered>>
           ELSE Remote(named)

\* The list is copied, and the handle is removed from the copy.
removeListener(c, h) ==
    LET copy == SelectSeq(getListeners(c), LAMBDA k : k # h)
        named == [NoCall EXCEPT !.op = "removeListener", !.c = c, !.h = h]
    IN  /\ c \in DOMAIN counters
        /\ counterDispatcher # None
        /\ h \in Range(getListeners(c))
        /\ IF copy = <<>>
           THEN Remote(named)
           ELSE /\ started
                /\ Call(named, "idle")
                /\ removed' = removed \cup {h}
                /\ UNCHANGED <<started, links, eventDispatchers, thread, manager, server,
                               sent, heard, called, recovered>>

\* RemoteCacheManagerImpl::stop; the dispatchers are stopped one after the other.
stop ==
    /\ started
    /\ Call([NoCall EXCEPT !.op = "stop", !.todo = DOMAIN eventDispatchers], "stopping")
    /\ UNCHANGED <<started, links, eventDispatchers, thread, manager, server, history>>

\* RemoteCacheManagerImpl::start: a new pool and a new notifier.  The counter manager
\* keeps its dispatcher.
start ==
    /\ ~started
    /\ Call([NoCall EXCEPT !.op = "start"], "idle")
    /\ started' = TRUE
    /\ pool' = {} /\ lent' = {} /\ leaked' = {}
    /\ Destroyed(Conn)
    /\ eventDispatchers' = <<>>
    /\ thread' = [d \in Id |-> NoThread]
    /\ UNCHANGED <<counterDispatcher, listeners, counters, server, history>>

-----------------------------------------------------------------------------
(* Requests *)

\* An idle connection, or a new one, of which the server knows nothing.
getTransport ==
    LET fresh == {n \in Conn : socket[n] = "unused"}
        n == IF pool # {} THEN Min(pool) ELSE Min(fresh)
    IN  /\ pc = "borrow"
        /\ pool \cup fresh # {}
        /\ conn' = n
        /\ pc' = "send"
        /\ pool' = pool \ {n}
        /\ lent' = lent \cup {n}
        /\ socket' = IF n \in pool THEN socket ELSE [socket EXCEPT ![n] = "open"]
        /\ subscribed' = [s \in DOMAIN subscribed |->
                            IF n \notin pool /\ subscribed[s] = n THEN None ELSE subscribed[s]]
        /\ UNCHANGED <<started, call, tries, report, in, eventDispatchers, thread, manager,
                       cell, meant, history, calls, events, faults>>

\* The server cannot be reached: there is no transport to invalidate.
getTransportFails ==
    /\ pc = "borrow"
    /\ pool = {}
    /\ faults < MaxFaults
    /\ faults' = faults + 1
    /\ Retry
    /\ UNCHANGED <<started, links, eventDispatchers, thread, manager, server, history,
                   calls, events>>

\* A map's insert: a listener id that is there stays as it is.
Inserted(d, n) ==
    IF d \in DOMAIN eventDispatchers THEN eventDispatchers
    ELSE [k \in DOMAIN eventDispatchers \cup {d} |->
            IF k = d THEN n ELSE eventDispatchers[k]]

Erased(d) == [k \in DOMAIN eventDispatchers \ {d} |-> eventDispatchers[k]]

\* ClientListenerNotifier::addClientListener: a dispatcher, whose thread is not started.
addClientListener_Notifier(l) ==
    /\ eventDispatchers' = Inserted(l, conn)
    /\ thread' = [thread EXCEPT ![l] = NoThread]
    /\ sent' = [sent EXCEPT ![l] = <<>>]
    /\ heard' = [heard EXCEPT ![l] = <<>>]
    /\ recovered' = recovered \ {l}

\* The request is written; a client listener is registered before the answer is read.
flush ==
    /\ pc = "send"
    /\ socket[conn] = "open"
    /\ pc' = "sent"
    /\ IF call.op = "addClientListener"
       THEN addClientListener_Notifier(call.l)
       ELSE UNCHANGED <<eventDispatchers, thread, sent, heard, recovered>>
    /\ UNCHANGED <<started, call, tries, conn, report, meant, links, manager, server,
                   called, removed, calls, events, faults>>

\* The thread reads the answer.
Waiting == pc \in {"sent", "served"}

\* A TransportException: the connection is destroyed, and a client listener that was
\* registered is removed.
transportException ==
    /\ lent' = lent \ {conn}
    /\ Destroyed({conn})
    /\ eventDispatchers' = IF call.op = "addClientListener" /\ pc # "send"
                           THEN Erased(call.l)
                           ELSE eventDispatchers
    /\ Retry
    /\ UNCHANGED <<started, pool, thread, manager, server, history, calls, events>>

\* A write or a read finds the connection lost.
connectionLost ==
    /\ \/ pc = "send"
       \/ Waiting /\ in[conn] = <<>>
    /\ socket[conn] # "open"
    /\ transportException
    /\ UNCHANGED faults

\* No answer comes before the socket timeout.
answerTimesOut ==
    /\ Waiting
    /\ in[conn] = <<>>
    /\ socket[conn] = "open"
    /\ faults < MaxFaults
    /\ faults' = faults + 1
    /\ transportException

-----------------------------------------------------------------------------
(* The server (external) *)

Answer(msgs) == in' = [in EXCEPT ![conn] = @ \o msgs]
Status(status, body) == Msg("response", <<status, body>>)

\* The state of a value: of a bounded counter at one of its bounds.
Bits(cfg, v) ==
    IF cfg.type # "BOUNDED_STRONG" THEN 0
    ELSE IF v = cfg.upper THEN 2
    ELSE IF v = cfg.lower THEN 1
    ELSE 0

CounterEvent(c, new) ==
    Msg("counter", <<c, cell[c].value, new,
                     Bits(cell[c].cfg, cell[c].value) + 4 * Bits(cell[c].cfg, new)>>)

Refused(c, v) ==
    IF cell[c].cfg.type # "BOUNDED_STRONG" THEN "no"
    ELSE IF v > cell[c].cfg.upper THEN "upper"
    ELSE IF v < cell[c].cfg.lower THEN "lower"
    ELSE "no"

\* The counter gets a value, the caller an answer, the counter's listener an event.
SetValue(c, v, msgs) ==
    LET n == subscribed[c]
        told == n # None /\ v # cell[c].value /\ socket[n] = "open" /\ events < MaxEvents
    IN  /\ cell' = [cell EXCEPT ![c].value = v]
        /\ in' = [m \in Conn |-> in[m] \o (IF m = conn THEN msgs ELSE <<>>)
                                       \o (IF told /\ m = n THEN <<CounterEvent(c, v)>> ELSE <<>>)]
        /\ events' = IF told THEN events + 1 ELSE events
        /\ UNCHANGED <<subscribed, sent>>

\* A request of which only an answer comes.
Tell(status, body, outcome) ==
    /\ Answer(<<Status(status, body)>>)
    /\ meant' = outcome
    /\ UNCHANGED <<subscribed, cell, sent, events>>

ServeUpdate(c, v, result) ==
    IF Refused(c, v) # "no"
    THEN Tell(NOT_EXECUTED_WITH_PREVIOUS, <<>>, Outcome(Refused(c, v), 0))
    ELSE /\ SetValue(c, v, <<Status(NO_ERROR_STATUS, <<result>>)>>)
         /\ meant' = Outcome("ret", result)

ServeCounter(c) ==
    LET it == cell[c]
        missing == Tell(KEY_DOES_NOT_EXIST_STATUS, <<>>, Outcome("missing", 0))
    IN  CASE call.op = "defineCounter" /\ it = None ->
                /\ Answer(<<Status(NO_ERROR_STATUS, <<>>)>>)
                /\ cell' = [cell EXCEPT ![c] = [cfg |-> call.cfg, value |-> call.cfg.initial]]
                /\ meant' = Outcome("ret", TRUE)
                /\ UNCHANGED <<subscribed, sent, events>>
          [] call.op = "defineCounter" /\ it # None ->
                Tell(NOT_PUT_REMOVED_REPLACED_STATUS, <<>>, Outcome("ret", FALSE))
          [] call.op # "defineCounter" /\ it = None -> missing
          [] call.op \in {"getStrongCounter", "getWeakCounter", "getConfiguration"}
             /\ it # None ->
                Tell(NO_ERROR_STATUS, writeConfiguration(it.cfg), Outcome("ret", it.cfg))
          [] call.op = "getValue" /\ it # None ->
                Tell(NO_ERROR_STATUS, <<it.value>>, Outcome("ret", it.value))
          [] call.op = "addAndGet" /\ it # None ->
                ServeUpdate(c, it.value + call.x, it.value + call.x)
          [] call.op = "compareAndSwap" /\ it # None ->
                IF it.value = call.x
                THEN ServeUpdate(c, call.y, it.value)
                ELSE Tell(NO_ERROR_STATUS, <<it.value>>, Outcome("ret", it.value))
          [] call.op = "reset" /\ it # None ->
                /\ SetValue(c, it.cfg.initial, <<Status(NO_ERROR_STATUS, <<>>)>>)
                /\ meant' = Outcome("ret", 0)
          [] call.op \in {"remove", "removeCounter"} /\ it # None ->
                /\ Answer(<<Status(NO_ERROR_STATUS, <<>>)>>)
                /\ cell' = [cell EXCEPT ![c] = None]
                /\ meant' = Outcome("ret", 0)
                /\ UNCHANGED <<subscribed, sent, events>>
          [] call.op = "addListener" /\ it # None ->
                /\ Answer(<<Status(NO_ERROR_STATUS, <<>>)>>)
                /\ subscribed' = [subscribed EXCEPT ![c] =
                        IF counterDispatcher \in DOMAIN eventDispatchers
                           /\ socket[Transport(counterDispatcher)] = "open"
                        THEN Transport(counterDispatcher) ELSE conn]
                /\ meant' = Outcome("ret", TRUE)
                /\ UNCHANGED <<cell, sent, events>>
          [] call.op = "removeListener" /\ it # None ->
                /\ Answer(<<Status(NO_ERROR_STATUS, <<>>)>>)
                /\ subscribed' = [subscribed EXCEPT ![c] = None]
                /\ meant' = Outcome("ret", TRUE)
                /\ UNCHANGED <<cell, sent, events>>

\* Events of the current state may come before the response.
ServeListener(l) ==
    /\ call.op = "addClientListener"
    /\ \/ \E first \in {<<>>} \cup {<<Msg(t, <<0>>)>> : t \in Immediate} :
            /\ Answer(first \o <<Status(NO_ERROR_STATUS, <<>>)>>)
            /\ subscribed' = [subscribed EXCEPT ![l] = conn]
            /\ sent' = [sent EXCEPT ![l] = first]
       \/ /\ Answer(<<Status(NOT_PUT_REMOVED_REPLACED_STATUS, <<>>)>>)
          /\ UNCHANGED <<subscribed, sent>>
    /\ UNCHANGED <<cell, meant, events>>

\* A listener whose connection the server has lost is not known to it.
ServeRemoval(l) ==
    /\ call.op = "removeClientListener"
    /\ IF subscribed[l] # None /\ socket[subscribed[l]] = "open"
       THEN /\ Answer(<<Status(NO_ERROR_STATUS, <<>>)>>)
            /\ subscribed' = [subscribed EXCEPT ![l] = None]
       ELSE /\ Answer(<<Status(NOT_PUT_REMOVED_REPLACED_STATUS, <<>>)>>)
            /\ UNCHANGED subscribed
    /\ UNCHANGED <<cell, meant, sent, events>>

ServeError ==
    /\ call.op \in ErrorOps
    /\ faults < MaxFaults
    /\ faults' = faults + 1
    /\ Answer(<<Msg("error", <<>>)>>)
    /\ UNCHANGED <<subscribed, cell, meant, sent, events>>

Serve ==
    /\ pc = "sent"
    /\ socket[conn] = "open"
    /\ pc' = "served"
    /\ \/ call.l # None /\ (ServeListener(call.l) \/ ServeRemoval(call.l)) /\ UNCHANGED faults
       \/ call.c # None /\ ServeCounter(call.c) /\ UNCHANGED faults
       \/ ServeError
    /\ UNCHANGED <<started, call, tries, conn, report, pool, lent, socket, eventDispatchers,
                   thread, manager, heard, called, removed, recovered, calls>>

\* An entry changes that the listener is interested in.
SendEvent(l) ==
    LET n == subscribed[l]
    IN  /\ events < MaxEvents
        /\ events' = events + 1
        /\ n # None
        /\ socket[n] = "open"
        /\ \E t \in Later :
            /\ in' = [in EXCEPT ![n] = Append(@, Msg(t, <<events + 1>>))]
            /\ sent' = [sent EXCEPT ![l] = Append(@, Msg(t, <<events + 1>>))]
        /\ UNCHANGED <<started, app, pool, lent, socket, eventDispatchers, thread, manager,
                       server, heard, called, removed, recovered, calls, faults>>

\* Another client adds to a counter.
OtherClient(c) ==
    /\ events < MaxEvents
    /\ cell[c] # None
    /\ subscribed[c] # None
    /\ socket[subscribed[c]] = "open"
    /\ Refused(c, cell[c].value + 1) = "no"
    /\ SetValue(c, cell[c].value + 1, <<>>)
    /\ UNCHANGED <<started, app, pool, lent, socket, eventDispatchers, thread, manager,
                   heard, called, removed, recovered, calls, faults>>

-----------------------------------------------------------------------------
(* Answers *)

\* Mutant of processImmediateEvent: the event is read and not passed on.
processImmediateEventUnheard(l, m) == Keep(1) /\ UNCHANGED heard

\* processImmediateEvent; of an expired entry the event is left unread.
processImmediateEvent(l, m) ==
    IF m.k = "expired"
    THEN /\ in' = [in EXCEPT ![conn] = <<Msg("body", <<>>)>> \o Tail(@)]
         /\ UNCHANGED <<heard, pool, lent, socket>>
    ELSE processEvent(l, m) /\ Keep(1)

\* Mutant of releaseTransport_Listener: the connection always goes back to the pool.
releaseTransportAlways(failed) == Release(1)

\* AddClientListenerOperation::releaseTransport.
releaseTransport_Listener(failed) == IF failed THEN Release(1) ELSE Keep(1)

\* A registered listener is started by the response that accepts it, and removed by any
\* other; an exception is retried.
answer_addClientListener(l, m) ==
    LET accepted == m.k = "response" /\ isSuccess(m.x[1])
    IN  /\ call.op = "addClientListener"
        /\ IF isEvent(m)
           THEN /\ processImmediateEvent(l, m)
                /\ UNCHANGED <<app, eventDispatchers, thread>>
           ELSE /\ IF m.k \in {"response", "error"}
                   THEN releaseTransport_Listener(~accepted)
                   ELSE Release(0)
                /\ thread' = IF accepted
                             THEN [thread EXCEPT ![l] = [at |-> "reading", event |-> None]]
                             ELSE thread
                /\ eventDispatchers' = IF accepted THEN eventDispatchers ELSE Erased(l)
                /\ IF m.k = "response" THEN Return("ret", 0) ELSE Retry
                /\ UNCHANGED heard
        /\ UNCHANGED <<manager, called, removed>>

\* The listener's connection is shut down, which ends its thread.
answer_removeClientListener(l, m) ==
    /\ call.op = "removeClientListener"
    /\ IF m.k = "response" /\ isSuccess(m.x[1])
       THEN /\ pc' = "join"
            /\ socket' = [socket EXCEPT ![Transport(l)] = IF @ = "open" THEN "closed" ELSE @]
            /\ \E k \in 0 .. Len(in[Transport(l)]) :
                in' = [in EXCEPT ![Transport(l)] = SubSeq(@, 1, k), ![conn] = Tail(@)]
            /\ UNCHANGED <<call, tries, conn, report, meant, pool, lent>>
       ELSE /\ Release(IF m.k \in {"response", "error"} THEN 1 ELSE 0)
            /\ IF m.k = "response" THEN Return("ret", 0) ELSE Retry
    /\ UNCHANGED <<eventDispatchers, thread, manager, heard, called, removed>>

\* What the operation makes of the response.
CounterOutcome(status, body) ==
    CASE call.op = "defineCounter" -> DefineCounterOperation(status)
      [] call.op \in {"getStrongCounter", "getWeakCounter", "getConfiguration"} ->
            GetCounterConfigurationOperation(status, body)
      [] call.op = "reset" -> ResetCounterOperation(status)
      [] call.op \in {"remove", "removeCounter"} -> RemoveCounterOperation(status)
      [] call.op = "getValue" -> GetCounterValueOperation(status, body)
      [] call.op = "addAndGet" -> AddAndGetCounterValueOperation(status, body, call.x)
      [] call.op = "compareAndSwap" ->
            CompareAndSwapCounterValueOperation(status, body, call.y, counters[call.c])
      [] call.op = "addListener" -> AddCounterListenerOperation(status)
      [] call.op = "removeListener" -> RemoveCounterListenerOperation(status)

Without(f, c) == [k \in DOMAIN f \ {c} |-> f[k]]

\* getStrongCounter refuses a weak counter, getWeakCounter a strong one.
WrongType(cfg) == (call.op = "getStrongCounter") = (cfg.type = "WEAK")

\* The object of a counter is made when its configuration is known, and forgotten when
\* the manager removes it.
answer_counter(o) ==
    /\ call.op \notin {"addListener", "removeListener"}
    /\ Release(1)
    /\ counters' = CASE o.kind = "ret" /\ call.op \in {"getStrongCounter", "getWeakCounter"}
                       /\ ~WrongType(o.val) ->
                            [k \in DOMAIN counters \cup {call.c} |->
                                IF k = call.c THEN o.val ELSE counters[k]]
                     [] o.kind = "ret" /\ call.op = "removeCounter" -> Without(counters, call.c)
                     [] OTHER -> counters
    /\ IF o.kind = "throws" THEN Retry
       ELSE IF call.op \in {"getStrongCounter", "getWeakCounter"} /\ WrongType(o.val)
            THEN Return("throws", 0)
            ELSE Return(o.kind, o.val)
    /\ UNCHANGED <<eventDispatchers, thread, counterDispatcher, listeners, leaked, called,
                   removed>>

\* The first listener's connection is kept and gets a dispatcher; other counters are
\* announced on any connection.
answer_addListener(o) ==
    /\ call.op = "addListener"
    /\ IF o.val /\ counterDispatcher = None THEN Keep(1) ELSE Release(1)
    /\ IF o.val
       THEN /\ listeners' = Listening(call.c, Append(getListeners(call.c), call.h))
            /\ called' = [called EXCEPT ![call.h] = None]
            /\ removed' = removed \ {call.h}
            /\ IF counterDispatcher = None
               THEN LET new == DispatcherId \ DOMAIN eventDispatchers
                        d == CHOOSE i \in new : TRUE
                    IN  /\ new # {}
                        /\ counterDispatcher' = d
                        /\ eventDispatchers' = Inserted(d, conn)
                        /\ thread' = [thread EXCEPT ![d] = [at |-> "reading", event |-> None]]
               ELSE UNCHANGED <<counterDispatcher, eventDispatchers, thread>>
       ELSE /\ listeners' = IF counterDispatcher # None
                            THEN Listening(call.c, getListeners(call.c)) ELSE listeners
            /\ UNCHANGED <<called, removed, counterDispatcher, eventDispatchers, thread>>
    /\ Return("ret", o.val)
    /\ UNCHANGED <<counters, leaked>>

\* The last listener takes the dispatcher with it.
answer_removeListener(o) ==
    LET left == IF o.val THEN Without(listeners, call.c) ELSE listeners
    IN  /\ call.op = "removeListener"
        /\ listeners' = left
        /\ Release(1)
        /\ IF DOMAIN left = {}
           THEN /\ pc' = "stopping"
                /\ call' = [call EXCEPT !.todo = {counterDispatcher}]
                /\ conn' = None
                /\ UNCHANGED <<tries, report, meant, removed>>
           ELSE /\ removed' = IF o.val THEN removed \cup {call.h} ELSE removed
                /\ Return("ret", 0)
        /\ UNCHANGED <<counterDispatcher, counters, leaked, eventDispatchers, thread, called>>

\* An error or a message that is no response is an exception, and retried.  The first
\* registration of a counter listener does not release its connection: `failed' is not set.
answer_exception(m) ==
    LET kept == call.op = "addListener" /\ counterDispatcher = None
        read == IF m.k = "error" THEN 1 ELSE 0
    IN  /\ IF kept THEN Keep(read) ELSE Release(read)
        /\ leaked' = IF kept THEN leaked \cup {conn} ELSE leaked
        /\ Retry
        /\ UNCHANGED <<eventDispatchers, thread, counterDispatcher, listeners, counters,
                       called, removed>>

readAnswer ==
    /\ Waiting
    /\ in[conn] # <<>>
    /\ LET m == Head(in[conn])
       IN  \/ call.l # None /\ answer_addClientListener(call.l, m)
           \/ call.l # None /\ answer_removeClientListener(call.l, m)
           \/ /\ call.c # None
              /\ IF m.k = "response"
                 THEN LET o == CounterOutcome(m.x[1], m.x[2])
                      IN  answer_counter(o) \/ answer_addListener(o) \/ answer_removeListener(o)
                 ELSE answer_exception(m)
              /\ UNCHANGED heard
    /\ UNCHANGED <<started, server, sent, recovered, calls, events, faults>>

-----------------------------------------------------------------------------
(* Stopping dispatchers *)

\* Mutant of stopDispatcher: the thread is waited for, its socket left open.
stopDispatcherOpen ==
    /\ pc = "stopping"
    /\ \E d \in call.todo :
        /\ call' = [call EXCEPT !.d = d]
        /\ pc' = "join"
    /\ UNCHANGED <<started, tries, conn, report, meant, links, eventDispatchers, thread, manager,
                   server, history, calls, events, faults>>

\* GenericDispatcher::stop: the socket is shut down, then the thread is waited for.
stopDispatcher ==
    /\ pc = "stopping"
    /\ \E d \in call.todo :
        /\ call' = [call EXCEPT !.d = d]
        /\ pc' = "join"
        /\ IF d \in DOMAIN eventDispatchers
           THEN Close(Transport(d))
           ELSE UNCHANGED <<socket, in>>
    /\ UNCHANGED <<started, tries, conn, report, meant, pool, lent, eventDispatchers, thread, manager,
                   server, history, calls, events, faults>>

\* Mutant of waitThreadExit: the thread is not waited for.
waitThreadExitNot(d) == TRUE

waitThreadExit(d) == thread[d].at \in {"none", "exited"}

\* removeClientListener: the listener's connection is destroyed, the dispatcher erased.
removeJoined ==
    /\ pc = "join"
    /\ call.op = "removeClientListener"
    /\ waitThreadExit(call.l)
    /\ lent' = lent \ {conn, Transport(call.l)}
    /\ pool' = pool \cup {conn}
    /\ Destroyed({Transport(call.l)})
    /\ eventDispatchers' = Erased(call.l)
    /\ Return("ret", 0)
    /\ UNCHANGED <<started, thread, manager, server, history, calls, events, faults>>

\* removeListener: the counter manager drops its dispatcher; the notifier does not.
counterJoined ==
    /\ pc = "join"
    /\ call.op = "removeListener"
    /\ waitThreadExit(call.d)
    /\ counterDispatcher' = None
    /\ listeners' = <<>>
    /\ removed' = removed \cup {call.h}
    /\ Return("ret", 0)
    /\ UNCHANGED <<started, links, eventDispatchers, thread, counters, leaked, server, sent,
                   heard, called, recovered, calls, events, faults>>

\* stop: the next dispatcher, or the end of the pool.
stopJoined ==
    /\ pc = "join"
    /\ call.op = "stop"
    /\ waitThreadExit(call.d)
    /\ pc' = "stopping"
    /\ call' = [call EXCEPT !.todo = @ \ {call.d}]
    /\ UNCHANGED <<started, tries, conn, report, meant, links, eventDispatchers, thread, manager,
                   server, history, calls, events, faults>>

stopped ==
    /\ pc = "stopping"
    /\ call.op = "stop"
    /\ call.todo = {}
    /\ started' = FALSE
    /\ pool' = {}
    /\ Destroyed(pool)
    /\ Return("ret", 0)
    /\ UNCHANGED <<lent, eventDispatchers, thread, manager, server, history, calls, events,
                   faults>>

-----------------------------------------------------------------------------
Application ==
    \/ getTransport \/ flush \/ connectionLost \/ readAnswer
    \/ stopDispatcher \/ removeJoined \/ counterJoined \/ stopJoined \/ stopped

Dispatcher(d) == ReadEvent(d) \/ HandleEvent(d) \/ ReadFails(d) \/ Recover(d)

NewCall ==
    \/ \E l \in Listener : addClientListener(l) \/ removeClientListener(l)
    \/ \E c \in Counter :
        \/ defineCounter(c) \/ getCounter(c, "getStrongCounter") \/ getCounter(c, "getWeakCounter")
        \/ getConfiguration(c) \/ removeCounter(c) \/ addAndGet(c) \/ compareAndSwap(c)
        \/ reset(c) \/ getValue(c) \/ BaseCounterImpl_remove(c)
        \/ \E h \in Handle : addListener(c, h) \/ removeListener(c, h)
    \/ stop \/ start

Next ==
    \/ Application
    \/ \E d \in Id : Dispatcher(d)
    \/ NewCall
    \/ Serve
    \/ getTransportFails
    \/ answerTimesOut
    \/ \E d \in Id : ReadTimesOut(d)
    \/ \E n \in Conn : Drop(n)
    \/ \E l \in Listener : SendEvent(l)
    \/ \E c \in Counter : OtherClient(c)

Spec == Init /\ [][Next]_vars

\* Threads that can run do run, and the server answers.
FairSpec ==
    /\ Spec
    /\ WF_vars(Application)
    /\ WF_vars(Serve)
    /\ \A d \in Id : WF_vars(Dispatcher(d))

-----------------------------------------------------------------------------
(* What the theorems about events and values assume of the constants *)

\* With more counters than one the listener of a second one may be announced on a
\* connection that goes back to the pool.
OneCounter == \A c, d \in Counter : c = d

\* What the server sends are events, and those of the current state are not of entries that
\* expired, which processImmediateEvent leaves unread.
ServerEvents ==
    /\ Immediate \subseteq EventType \ {"expired"}
    /\ Later \subseteq EventType

\* The upper bound that the object of a counter has of configuration a.
UpperRead(a) == IF a.type = "BOUNDED_STRONG" THEN a.upper ELSE 0

\* A bounded counter starts within its bounds.  One that is removed and defined again while
\* a client keeps the object of the old one has, with the bounds of the new, the upper bound
\* of the old between or next to them: compareAndSwap tells from the old one which of the
\* new ones it met.
ConfigsAgree ==
    /\ \A a \in Config :
        /\ a.initial \in Int /\ a.lower \in Int /\ a.upper \in Int
        /\ a.type \in {"WEAK", "BOUNDED_STRONG", "UNBOUNDED_STRONG"}
        /\ a.type = "BOUNDED_STRONG" => a.lower <= a.initial /\ a.initial <= a.upper
    /\ \A a, b \in Config :
        b.type = "BOUNDED_STRONG" => b.lower <= UpperRead(a) /\ UpperRead(a) <= b.upper + 1

-----------------------------------------------------------------------------
(* Properties *)

\* Every variable has values of its type, and connections, dispatchers and requests are
\* in states that belong together.
TypeOK ==
    /\ started \in BOOLEAN
    /\ pc \in {"idle", "borrow", "send", "sent", "served", "join", "stopping"}
    /\ tries \in 0 .. MaxRetries
    /\ conn \in Conn \cup {None}
    /\ pc \in {"send", "sent", "served"} => conn \in lent
    /\ pool \subseteq Conn /\ lent \subseteq Conn
    /\ socket \in [Conn -> {"unused", "open", "closed", "down"}]
    /\ DOMAIN eventDispatchers \subseteq Id
    /\ \A d \in DOMAIN eventDispatchers : eventDispatchers[d] \in Conn
    /\ \A d \in Id : thread[d].at \in {"none", "reading", "handling", "recovering", "exited"}
    /\ counterDispatcher \in DispatcherId \cup {None}
    /\ DOMAIN listeners \subseteq Counter /\ DOMAIN counters \subseteq Counter

\* Every borrowed connection is the running operation's or a registered dispatcher's,
\* none of them is in the pool, and a listener's connection is nobody else's: events and
\* answers are never read by the wrong thread, and no connection is lost but those of
\* AddCounterListenerOperation's exceptions (AddClientListenerOperation::releaseTransport
\* and its `failed').
LoansAreAccountedFor ==
    started =>
        /\ pool \cap lent = {}
        /\ lent \subseteq {conn} \cup Range(eventDispatchers) \cup leaked
        /\ leaked \cap (pool \cup {conn} \cup Range(eventDispatchers)) = {}
        /\ Range(eventDispatchers) \cap pool = {}
        /\ \A d, e \in DOMAIN eventDispatchers :
            d # e => eventDispatchers[d] # eventDispatchers[e]
        /\ \A d \in DOMAIN eventDispatchers :
            conn = eventDispatchers[d] => thread[d].at = "none"

\* The events on their way to a client listener: all that its connection has but, while it
\* is being registered, the response.
Coming(q) ==
    IF \A i \in DOMAIN q : isEvent(q[i]) THEN q
    ELSE RemoveAt(q, CHOOSE i \in DOMAIN q : ~isEvent(q[i]))

\* A client listener gets the events that the server sent it, those before the response
\* too, once each and in their order; while its connection is open none is missing
\* (AddClientListenerOperation::executeOperation, EventDispatcher::run).
EventsInOrder ==
    \A l \in DOMAIN eventDispatchers \cap Listener :
        LET handled == IF thread[l].at = "handling" THEN Append(heard[l], thread[l].event)
                       ELSE heard[l]
        IN  subscribed[l] = Transport(l) =>
                /\ IsPrefix(handled, sent[l])
                /\ socket[Transport(l)] = "open" => handled \o Coming(in[Transport(l)]) = sent[l]

\* A client listener is called only while it is registered: after removeClientListener
\* has returned there is no further call (ClientListenerNotifier::releaseTransport).
RemovedIsSilent ==
    [][\A l \in Listener :
        heard'[l] # heard[l] /\ heard'[l] # <<>> => l \in DOMAIN eventDispatchers]_vars

\* What a counter's method reports is what the server did for the last request: the
\* value it returned, and which bound it refused the update for
\* (CompareAndSwapCounterValueOperation::assertBoundaries, with the configuration that
\* readConfiguration made of what writeConfiguration wrote).
CounterAnswersAreTrue == report.said.kind # "throws" => report.said = report.did

\* A listener that is registered and whose thread has ended, after which it gets no event
\* any more, has had its recoveryCallback (RemoteCache::addClientListener: "function to
\* be called if transport goes down").
EndIsReported ==
    \A l \in Listener \cap DOMAIN eventDispatchers :
        thread[l].at = "exited" => l \in recovered

\* Every call of the API returns, those that wait for a dispatcher's thread too.
CallsReturn == pc # "idle" ~> pc = "idle"

\* A counter listener is not called after removeListener has returned.
RemovedCounterListenerIsSilent ==
    [][\A h \in removed : called'[h] \in {called[h], None}]_vars

=============================================================================
