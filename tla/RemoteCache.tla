---------------------------- MODULE RemoteCache -----------------------------
(***************************************************************************)
(* The operations of a remote cache, from the call of the API              *)
(* (include/infinispan/hotrod/RemoteCache.h) through RemoteCacheBase,      *)
(* RemoteCacheImpl and OperationsFactory to the request on a connection,   *)
(* the response (module HotRodProtocol), the retries                       *)
(* (RetryOnFailureOperation.h) and the value or exception that the caller, *)
(* or its callback, gets.  Outside transactions (module Transactions) and  *)
(* without a near cache (module NearCache).                                *)
(*                                                                         *)
(* Marshalled keys and values are the keys and values themselves.  A       *)
(* caller uses one connection; what a release leaves in it, its next       *)
(* attempt finds there.  The server is external: it executes a request in  *)
(* one step and answers as the protocol says, with an error, or not at     *)
(* all.                                                                    *)
(***************************************************************************)
EXTENDS HotRodProtocol, SequencesExt, FiniteSets

CONSTANTS
    Thread, Cache,
    CacheOf,          \* the cache that each thread uses
    Key, Value,
    Owner,            \* the server that getAll finds for each key
    Callbacks,        \* bound: the operations that are also called with callbacks
    Duration,         \* the times that callers ask for: <<time, unit>>; <<0, "SECONDS">> is one
    ForceReturnValue, \* of the cache
    MaxRetries,       \* TransportFactory::getMaxRetries; there is no other cluster
    ErrorStatus,      \* the error statuses that the server sends
    CompatOps,        \* the operations it may answer with the statuses of compatibility mode
    UInt32,           \* bound: 2^32, scaled down
    MaxCalls,         \* bound: calls of the API
    MaxVersion,       \* bound: versions that other clients create
    MaxFaults         \* bound: lost messages and error responses

\* TimeUnit.h
PerSecond == [NANOSECONDS |-> 1000000000, MICROSECONDS |-> 1000000, MILLISECONDS |-> 1000]
Seconds == [SECONDS |-> 1, MINUTES |-> 60, HOURS |-> 3600, DAYS |-> 86400]
TimeUnit == [SECONDS |-> 0, MILLISECONDS |-> 1, NANOSECONDS |-> 2, MICROSECONDS |-> 3,
             MINUTES |-> 4, HOURS |-> 5, DAYS |-> 6]

ASSUME CallersAssumption ==
    /\ CacheOf \in [Thread -> Cache]
    /\ ForceReturnValue \in BOOLEAN
    /\ MaxRetries \in Nat
    /\ ErrorStatus \subseteq INVALID_MAGIC_OR_MESSAGE_ID_STATUS .. ILLEGAL_LIFECYCLE_STATE
    /\ UInt32 \in Nat \ {0}
    /\ IsFiniteSet(Key) /\ Key # {} /\ Value # {}
    /\ \A d \in Duration : d \in Nat \X DOMAIN TimeUnit

VARIABLES
    started,   \* RemoteCacheManagerImpl::started
    flags,     \* OperationsFactory::flags of each cache
    pc,
    call,      \* the call of each thread: arguments and the operation made for it
    tries,     \* retryCount
    unread,    \* the tokens in each thread's connection
    msgId,     \* Codec20's message counter
    report,    \* what the last call ended with
    store,     \* (external) the entries of the server
    nextVersion,
    wanted,    \* history: flags that withFlags set since the cache's last operation
    meant,     \* history: the outcome of the server's last execution for the call
    applied,   \* history: how often the server applied the call
    calls, faults

vars == <<started, flags, pc, call, tries, unread, msgId, report, store, nextVersion,
          wanted, meant, applied, calls, faults>>
server == <<store, nextVersion, meant, applied>>
client == <<started, flags, wanted>>

Flag == {"FORCE_RETURN_VALUE", "DEFAULT_LIFESPAN", "DEFAULT_MAXIDLE"}
Zero == <<0, "SECONDS">>

NoCall ==
    [op |-> "get", key |-> CHOOSE k \in Key : TRUE, val |-> 0, version |-> 0, life |-> 0,
     idle |-> 0, rest |-> {}, flags |-> {}, id |-> 0, got |-> <<>>, callback |-> FALSE,
     asked |-> Zero, unitOnly |-> FALSE, wanted |-> {}]

NoReport ==
    [op |-> "get", ok |-> FALSE, ret |-> <<>>, callback |-> "none", meant |-> <<>>,
     served |-> FALSE, applied |-> 0]

\* One key may have been stored before, and the cache may have been configured before
\* the manager is started.
Init ==
    /\ started \in BOOLEAN
    /\ flags = [c \in Cache |-> {}]
    /\ pc = [t \in Thread |-> "idle"]
    /\ call = [t \in Thread |-> NoCall]
    /\ tries = [t \in Thread |-> 0]
    /\ unread = [t \in Thread |-> <<>>]
    /\ msgId = 0
    /\ report = [t \in Thread |-> NoReport]
    /\ store \in {[k \in Key |-> <<>>],
                  [k \in Key |-> IF k = NoCall.key
                                 THEN <<[val |-> CHOOSE v \in Value : TRUE, version |-> 1,
                                         life |-> 0, idle |-> 0]>>
                                 ELSE <<>>]}
    /\ nextVersion = 2
    /\ wanted = [c \in Cache |-> {}]
    /\ meant = [t \in Thread |-> <<>>]
    /\ applied = [t \in Thread |-> 0]
    /\ calls = 0
    /\ faults = 0

-----------------------------------------------------------------------------
(* RemoteCache.h *)

\* Fractions of a second are rounded up.
toSeconds(duration) ==
    LET time == duration[1]
        unit == duration[2]
    IN  IF unit \in DOMAIN PerSecond
        THEN time \div PerSecond[unit] + (IF time % PerSecond[unit] = 0 THEN 0 ELSE 1)
        ELSE time * Seconds[unit]

\* The call of an API method.  The asynchronous methods run it in another thread, from
\* which the callback is called.
Call(t, c) ==
    /\ pc[t] = "idle"
    /\ calls < MaxCalls
    /\ calls' = calls + 1
    /\ pc' = [pc EXCEPT ![t] = "called"]
    /\ call' = [call EXCEPT ![t] = c]
    /\ tries' = [tries EXCEPT ![t] = 0]
    /\ report' = [report EXCEPT ![t] = NoReport]
    /\ UNCHANGED <<client, unread, msgId, server, faults>>

\* The asynchronous methods take a callback for success, and one for failure, or none.
WithCallback(op) == IF op \in Callbacks THEN BOOLEAN ELSE {FALSE}

KeyCall(t, op) ==
    \E k \in Key, cb \in WithCallback(op) :
        Call(t, [NoCall EXCEPT !.op = op, !.key = k, !.callback = cb])

CacheCall(t, op) == Call(t, [NoCall EXCEPT !.op = op])

\* The overloads with a unit convert both times, those without one take seconds.
ValueCall(t, op, versions) ==
    \E k \in Key, v \in Value, n \in versions, d \in Duration, cb \in WithCallback(op) :
        \E idle \in {Zero, d} :
            Call(t, [NoCall EXCEPT !.op = op, !.key = k, !.val = v, !.version = n,
                                   !.life = toSeconds(d), !.idle = toSeconds(idle),
                                   !.callback = cb, !.asked = d])

get(t) == KeyCall(t, "get")

getAll(t) ==
    \E ks \in SUBSET Key : Call(t, [NoCall EXCEPT !.op = "getAll", !.rest = ks])

put(t) == ValueCall(t, "put", {0})

\* putAsync(key, val, lifespan, lifespanUnit): base_put gets the unit as its maxIdle.
putAsyncWithUnit(t) ==
    \E k \in Key, v \in Value, d \in Duration, cb \in WithCallback("put") :
        Call(t, [NoCall EXCEPT !.op = "put", !.key = k, !.val = v, !.life = d[1],
                               !.idle = TimeUnit[d[2]], !.callback = cb, !.asked = d,
                               !.unitOnly = TRUE])

putIfAbsent(t) == ValueCall(t, "putIfAbsent", {0})

putAll(t) ==
    \E ks \in (SUBSET Key) \ {{}}, v \in Value, d \in Duration :
        Call(t, [NoCall EXCEPT !.op = "putAll", !.key = CHOOSE k \in ks : TRUE, !.val = v,
                               !.rest = ks \ {CHOOSE k \in ks : TRUE},
                               !.life = toSeconds(d), !.asked = d])

replace(t) == ValueCall(t, "replace", {0})

remove(t) == KeyCall(t, "remove")

containsKey(t) == KeyCall(t, "containsKey")

\* The version is one that an entry has or had.
replaceWithVersion(t) == ValueCall(t, "replaceWithVersion", 1 .. nextVersion - 1)

removeWithVersion(t) ==
    \E k \in Key, n \in 1 .. nextVersion - 1, cb \in WithCallback("removeWithVersion") :
        Call(t, [NoCall EXCEPT !.op = "removeWithVersion", !.key = k, !.version = n,
                               !.callback = cb])

getWithVersion(t) == KeyCall(t, "getWithVersion")

getWithMetadata(t) == KeyCall(t, "getWithMetadata")

getBulk(t) == CacheCall(t, "getBulk")

execute(t) == CacheCall(t, "execute")

query(t) == started /\ CacheCall(t, "query")

keySet(t) == CacheCall(t, "keySet")

size(t) == CacheCall(t, "size")

stats(t) == CacheCall(t, "stats")

clear(t) == CacheCall(t, "clear")

ping(t) == started /\ CacheCall(t, "ping")

\* goAsync for a function without a value (putAllAsync, clearAsync): with a success
\* callback the callback is run in place of the function.
goAsync(t) ==
    /\ pc[t] = "idle"
    /\ calls < MaxCalls
    /\ calls' = calls + 1
    /\ report' = [report EXCEPT ![t] = [NoReport EXCEPT !.op = "clear", !.ok = TRUE,
                                                       !.callback = "success"]]
    /\ UNCHANGED <<client, pc, call, tries, unread, msgId, server, faults>>

\* OperationsFactory::setFlags replaces the flags of the cache.
withFlags(t) ==
    /\ pc[t] = "idle"
    /\ calls < MaxCalls
    /\ \E f \in Flag \ flags[CacheOf[t]] :
        /\ flags' = [flags EXCEPT ![CacheOf[t]] = {f}]
        /\ wanted' = [wanted EXCEPT ![CacheOf[t]] = {f}]
    /\ UNCHANGED <<started, pc, call, tries, unread, msgId, report, server, calls, faults>>

API(t) ==
    \/ get(t) \/ getAll(t) \/ put(t) \/ putAsyncWithUnit(t) \/ putIfAbsent(t) \/ putAll(t)
    \/ replace(t) \/ remove(t) \/ containsKey(t) \/ replaceWithVersion(t)
    \/ removeWithVersion(t) \/ getWithVersion(t) \/ getWithMetadata(t) \/ getBulk(t)
    \/ execute(t) \/ query(t) \/ keySet(t) \/ size(t) \/ stats(t) \/ clear(t) \/ ping(t)
    \/ goAsync(t) \/ withFlags(t)

\* RemoteCacheManagerImpl::start gives every cache a new OperationsFactory.
start ==
    /\ ~started
    /\ started' = TRUE
    /\ flags' = [c \in Cache |-> {}]
    /\ wanted' = [c \in Cache |-> {}]
    /\ UNCHANGED <<pc, call, tries, unread, msgId, report, server, calls, faults>>

-----------------------------------------------------------------------------
(* RemoteCacheImpl, OperationsFactory *)

\* The end of a call; goAsync catches the exception and calls a callback.
Return(t, ok, ret) ==
    /\ pc' = [pc EXCEPT ![t] = "idle"]
    /\ call' = [call EXCEPT ![t] = NoCall]
    /\ tries' = [tries EXCEPT ![t] = 0]
    /\ meant' = [meant EXCEPT ![t] = <<>>]
    /\ applied' = [applied EXCEPT ![t] = 0]
    /\ UNCHANGED <<store, nextVersion>>
    /\ report' = [report EXCEPT ![t] =
                     [op |-> call[t].op, ok |-> ok, ret |-> ret, meant |-> meant[t],
                      served |-> call[t].id > 0, applied |-> applied[t],
                      callback |-> CASE ~call[t].callback -> "none"
                                     [] call[t].callback /\ ok -> "success"
                                     [] OTHER -> "fail"]]

PutFamily == {"put", "putAll", "putIfAbsent", "replace"}

\* ping and query do not ask.
assertRemoteCacheManagerIsStarted(t) == started \/ call[t].op \in {"ping", "query"}

NotStarted(t) ==
    /\ pc[t] = "called"
    /\ ~assertRemoteCacheManagerIsStarted(t)
    /\ Return(t, FALSE, <<>>)
    /\ UNCHANGED <<client, unread, msgId, calls, faults>>

\* A time of 0 asks for the default of the server.
applyDefaultExpirationFlags(c) ==
    IF c.op \in PutFamily
    THEN {f \in {"DEFAULT_LIFESPAN"} : c.life = 0} \cup {f \in {"DEFAULT_MAXIDLE"} : c.idle = 0}
    ELSE {}

\* The methods of RemoteCacheImpl, up to the making of the operation.
marshall(t) ==
    /\ pc[t] = "called"
    /\ assertRemoteCacheManagerIsStarted(t)
    /\ flags' = [flags EXCEPT ![CacheOf[t]] = @ \cup applyDefaultExpirationFlags(call[t])]
    /\ IF call[t].op = "getAll" /\ call[t].rest = {}
       THEN Return(t, TRUE, <<>>)
       ELSE pc' = [pc EXCEPT ![t] = "marshalled"] /\ UNCHANGED <<call, tries, report, server>>
    /\ UNCHANGED <<started, wanted, unread, msgId, calls, faults>>

\* Mutant of getFlags: the flags stay for the next operation.
getFlagsKept(c) == flags' = flags

\* The flags of an operation are for this operation only.
getFlags(c) == flags' = [flags EXCEPT ![c] = {}]

\* The keys that the next GetAllOperation asks for: those of one server.
GetAllKeys(rest) == {k \in rest : Owner[k] = Owner[CHOOSE j \in rest : TRUE]}

\* OperationsFactory::new...Operation: the times are passed as uint32_t.  A ping is sent
\* without the flags it takes.
newOperation(t) ==
    LET c == CacheOf[t]
        fs == flags[c] \cup {f \in {"FORCE_RETURN_VALUE"} : ForceReturnValue}
    IN  /\ pc[t] = "marshalled"
        /\ pc' = [pc EXCEPT ![t] = "ready"]
        /\ call' = [call EXCEPT ![t] =
                       [call[t] EXCEPT !.flags = IF call[t].op = "ping" THEN {} ELSE fs,
                                       !.life = @ % UInt32, !.idle = @ % UInt32,
                                       !.wanted = wanted[c]]]
        /\ tries' = [tries EXCEPT ![t] = 0]
        /\ getFlags(c)
        /\ wanted' = [wanted EXCEPT ![c] = {}]
        /\ UNCHANGED <<started, unread, msgId, report, server, calls, faults>>

-----------------------------------------------------------------------------
(* The server (external) *)

\* putAll sends put requests.
Wire(op) == IF op = "putAll" THEN "put" ELSE op

Entries == {k \in Key : store[k] # <<>>}
Ordered(ks) == SetToSeq(ks)

\* The server's answer: a status, a body, and what they mean to the caller.
Answer(status, body, means) == [status |-> status, body |-> body, means |-> means]

\* The answer of an operation that may return the previous value.
Conditional(c, done) ==
    LET prev == IF "FORCE_RETURN_VALUE" \in c.flags /\ store[c.key] # <<>>
                THEN <<store[c.key][1].val>> ELSE <<>>
    IN  Answer(CASE done /\ prev = <<>> -> NO_ERROR_STATUS
                 [] done /\ prev # <<>> -> SUCCESS_WITH_PREVIOUS
                 [] ~done /\ prev = <<>> -> NOT_PUT_REMOVED_REPLACED_STATUS
                 [] OTHER -> NOT_EXECUTED_WITH_PREVIOUS,
               prev, prev)

\* Whether the server changes the entry.
Done(c) ==
    CASE Wire(c.op) = "put" -> TRUE
      [] c.op = "putIfAbsent" -> store[c.key] = <<>>
      [] c.op \in {"replace", "remove"} -> store[c.key] # <<>>
      [] c.op \in {"replaceWithVersion", "removeWithVersion"} ->
            store[c.key] # <<>> /\ store[c.key][1].version = c.version
      [] c.op = "clear" -> TRUE
      [] OTHER -> FALSE

Found(c) ==
    LET e == store[c.key][1]
        times == (IF e.life = 0 THEN <<>> ELSE <<0, e.life>>)
                 \o (IF e.idle = 0 THEN <<>> ELSE <<0, e.idle>>)
        infinite == (IF e.life = 0 THEN 1 ELSE 0) + (IF e.idle = 0 THEN 2 ELSE 0)
    IN  CASE c.op = "get" -> Answer(NO_ERROR_STATUS, <<e.val>>, <<e.val>>)
          [] c.op = "containsKey" -> Answer(NO_ERROR_STATUS, <<>>, <<1>>)
          [] c.op = "getWithVersion" ->
                Answer(NO_ERROR_STATUS, <<e.version, e.val>>, <<e.version, e.val>>)
          [] c.op = "getWithMetadata" ->
                Answer(NO_ERROR_STATUS, <<infinite>> \o times \o <<e.version, e.val>>,
                       <<e.version, e.val, IF e.life = 0 THEN -1 ELSE e.life,
                         IF e.idle = 0 THEN -1 ELSE e.idle>>)

Listing(ks, width) ==
    LET seq == Ordered(ks)
    IN  [i \in 1 .. Len(seq) * width |->
            LET k == seq[((i - 1) \div width) + 1]
            IN  IF (i - 1) % width = width - 1 /\ width > 1 THEN store[k][1].val ELSE k]

\* The entries of a listing, each after a byte 1.
Marked(listing, width) ==
    LET end == (Len(listing) \div width) * (width + 1) + 1
    IN  [i \in 1 .. end |->
            CASE i = end -> 0
              [] i # end /\ (i - 1) % (width + 1) = 0 -> 1
              [] OTHER -> listing[(i - 1) - (i - 1) \div (width + 1)]]

Missing == Answer(KEY_DOES_NOT_EXIST_STATUS, <<>>, <<>>)

Execute(c) ==
    CASE c.op \in {"put", "putAll", "putIfAbsent", "replace"} -> Conditional(c, Done(c))
      [] c.op = "remove" -> IF Done(c) THEN Conditional(c, TRUE) ELSE Missing
      [] c.op \in {"replaceWithVersion", "removeWithVersion"} ->
            IF store[c.key] = <<>> THEN [Missing EXCEPT !.means = <<0>>]
            ELSE [Conditional(c, Done(c)) EXCEPT !.means = <<IF Done(c) THEN 1 ELSE 0>>]
      [] c.op \in {"get", "containsKey", "getWithVersion", "getWithMetadata"} ->
            IF store[c.key] # <<>> THEN Found(c)
            ELSE [Missing EXCEPT !.means = IF c.op = "containsKey" THEN <<0>> ELSE <<>>]
      [] c.op = "getBulk" -> Answer(NO_ERROR_STATUS, Marked(Listing(Entries, 2), 2),
                                    Listing(Entries, 2))
      [] c.op = "keySet" -> Answer(NO_ERROR_STATUS, Marked(Listing(Entries, 1), 1),
                                   Listing(Entries, 1))
      [] c.op = "getAll" ->
            LET found == GetAllKeys(c.rest) \cap Entries
            IN  Answer(NO_ERROR_STATUS, <<Cardinality(found)>> \o Listing(found, 2),
                       Listing(found, 2))
      [] c.op = "stats" -> Answer(NO_ERROR_STATUS, <<1, 0, 0>>, <<0, 0>>)
      [] c.op = "size" ->
            Answer(NO_ERROR_STATUS, <<Cardinality(Entries)>>, <<Cardinality(Entries)>>)
      [] c.op \in {"execute", "query"} -> Answer(NO_ERROR_STATUS, <<0>>, <<0>>)
      [] c.op = "clear" -> Answer(NO_ERROR_STATUS, <<>>, <<>>)
      [] c.op = "ping" -> Answer(NO_ERROR_STATUS, <<>>, <<1>>)

\* The entries after an operation.
Effect(c) ==
    CASE Done(c) /\ c.op = "clear" -> [k \in Key |-> <<>>]
      [] Done(c) /\ c.op \in {"remove", "removeWithVersion"} -> [store EXCEPT ![c.key] = <<>>]
      [] Done(c) /\ c.op \in PutFamily \cup {"replaceWithVersion"} ->
            [store EXCEPT ![c.key] =
                <<[val |-> c.val, version |-> nextVersion,
                   life |-> IF "DEFAULT_LIFESPAN" \in c.flags THEN 0 ELSE c.life,
                   idle |-> IF "DEFAULT_MAXIDLE" \in c.flags THEN 0 ELSE c.idle]>>]
      [] OTHER -> store

\* The same statuses in compatibility mode.
Compat(status) ==
    CASE status = NO_ERROR_STATUS -> NO_ERROR_STATUS_COMPAT
      [] status = SUCCESS_WITH_PREVIOUS -> SUCCESS_WITH_PREVIOUS_COMPAT
      [] status = NOT_EXECUTED_WITH_PREVIOUS -> NOT_EXECUTED_WITH_PREVIOUS_COMPAT
      [] OTHER -> status

\* Another client stores or removes an entry.
OtherClient(k) ==
    /\ \/ /\ nextVersion < MaxVersion
          /\ nextVersion' = nextVersion + 1
          /\ store' = [store EXCEPT ![k] = <<[val |-> 0, version |-> nextVersion,
                                             life |-> 0, idle |-> 0]>>]
       \/ /\ store[k] # <<>>
          /\ store' = [store EXCEPT ![k] = <<>>]
          /\ UNCHANGED nextVersion
    /\ UNCHANGED <<client, pc, call, tries, unread, msgId, report, meant, applied, calls, faults>>

-----------------------------------------------------------------------------
(* RetryOnFailureOperation *)

Response(id, code, status, body) == <<RESPONSE_MAGIC, id, code, status, 0>> \o body
Message == 0

Sends(t, tokens) == unread' = [unread EXCEPT ![t] = @ \o tokens]

\* The server executes the request of t.
Executes(t, c) ==
    /\ store' = Effect(c)
    /\ nextVersion' = IF store' # store /\ Done(c) THEN nextVersion + 1 ELSE nextVersion
    /\ applied' = [applied EXCEPT ![t] = @ + (IF Done(c) THEN 1 ELSE 0)]

Serve(t, c) ==
    LET a == Execute(c)
        code == toOpRespCode(OpCode[Wire(c.op)])
    IN  \E compat \in {FALSE, c.op \in CompatOps} :
            /\ Executes(t, c)
            /\ Sends(t, Response(c.id, code,
                                IF compat THEN Compat(a.status) ELSE a.status, a.body))
            /\ meant' = [meant EXCEPT ![t] =
                            c.got \o (IF compat /\ c.op = "ping" THEN <<2>> ELSE a.means)]
            /\ UNCHANGED faults

\* An error response; after a timeout the operation may have been executed.
ServeError(t, c) ==
    /\ faults < MaxFaults
    /\ faults' = faults + 1
    /\ \E status \in ErrorStatus :
        /\ Sends(t, Response(c.id, ERROR_RESPONSE, status, <<Message>>))
        /\ \/ UNCHANGED <<store, nextVersion, applied>>
           \/ status = COMMAND_TIMEOUT_STATUS /\ Done(c) /\ Executes(t, c)
    /\ UNCHANGED meant

\* The request is lost.
Lose(t) ==
    /\ faults < MaxFaults
    /\ faults' = faults + 1
    /\ UNCHANGED <<unread, server>>

\* executeOperation, up to the flush: the header has the next message id.
writeRequest(t) ==
    LET c == [call[t] EXCEPT !.id = msgId + 1]
    IN  /\ pc[t] = "ready"
        /\ pc' = [pc EXCEPT ![t] = "sent"]
        /\ msgId' = msgId + 1
        /\ call' = [call EXCEPT ![t] = c]
        /\ Serve(t, c) \/ ServeError(t, c) \/ Lose(t)
        /\ UNCHANGED <<client, tries, report, calls>>

\* Without another cluster to switch to, the last attempt throws.
logErrorAndThrowExceptionIfNeeded(t) ==
    IF tries[t] >= MaxRetries - 1
    THEN Return(t, FALSE, <<>>)
    ELSE /\ tries' = [tries EXCEPT ![t] = @ + 1]
         /\ pc' = [pc EXCEPT ![t] = "ready"]
         /\ UNCHANGED <<call, report, server>>

\* Mutant of invalidateTransport: the connection is used again.
invalidateTransportKept(t) == UNCHANGED unread

\* The connection is destroyed, with what the server may still send.
invalidateTransport(t) == unread' = [unread EXCEPT ![t] = <<>>]

\* The pool gets the connection back, unless it was marked invalid.
releaseTransport(t, reads, valid) ==
    unread' = [unread EXCEPT ![t] = IF valid THEN SubSeq(@, reads + 1, Len(@)) ELSE <<>>]

\* The rest of putAll's or getAll's loop, or the end of the call.
Continue(t, ret) ==
    LET c == call[t]
        rest == IF c.op = "getAll" THEN c.rest \ GetAllKeys(c.rest) ELSE c.rest
        next == CHOOSE k \in rest : TRUE
        got == IF c.op = "getAll" THEN c.got \o ret ELSE <<>>
    IN  IF rest = {}
        THEN Return(t, TRUE, CASE c.op = "putAll" -> <<>>
                               [] c.op = "getAll" -> got
                               [] OTHER -> ret)
        ELSE /\ pc' = [pc EXCEPT ![t] = IF c.op = "getAll" THEN "marshalled" ELSE "called"]
             /\ call' = [call EXCEPT ![t] =
                           IF c.op = "getAll" THEN [c EXCEPT !.rest = rest, !.got = got]
                           ELSE [c EXCEPT !.rest = rest \ {next}, !.key = next,
                                          !.life = toSeconds(c.asked)]]
             /\ UNCHANGED <<tries, report, server>>

\* The response is read: the operation returns or throws.
readAnswer(t) ==
    LET r == readResponse(Wire(call[t].op), unread[t], call[t].id)
    IN  /\ pc[t] = "sent"
        /\ unread[t] # <<>>
        /\ r.reads <= Len(unread[t])
        /\ releaseTransport(t, r.reads, ~(r.throws /\ invalidates(At(unread[t], 4))))
        /\ IF r.throws THEN logErrorAndThrowExceptionIfNeeded(t) ELSE Continue(t, r.ret)
        /\ UNCHANGED <<client, msgId, calls, faults>>

\* No response within the socket's timeout: a TransportException.  The response may be
\* late only.
transportException(t) ==
    /\ pc[t] = "sent"
    /\ LET late == readResponse(Wire(call[t].op), unread[t], call[t].id).reads <= Len(unread[t])
       IN  /\ late => faults < MaxFaults
           /\ faults' = IF late THEN faults + 1 ELSE faults
    /\ invalidateTransport(t)
    /\ logErrorAndThrowExceptionIfNeeded(t)
    /\ UNCHANGED <<client, msgId, calls>>

Next ==
    \/ start
    \/ \E k \in Key : OtherClient(k)
    \/ \E t \in Thread :
        \/ API(t) \/ NotStarted(t) \/ marshall(t) \/ newOperation(t) \/ writeRequest(t)
        \/ readAnswer(t) \/ transportException(t)

Spec == Init /\ [][Next]_vars

-----------------------------------------------------------------------------
(* Properties *)

TypeOK ==
    /\ started \in BOOLEAN
    /\ flags \in [Cache -> SUBSET Flag]
    /\ pc \in [Thread -> {"idle", "called", "marshalled", "ready", "sent"}]
    /\ \A t \in Thread : tries[t] \in Nat /\ (tries[t] > 0 => tries[t] < MaxRetries)
    /\ \A t \in Thread : call[t].life \in Nat /\ call[t].idle \in Nat /\ call[t].flags \subseteq Flag
    /\ \A t \in Thread : pc[t] \in {"ready", "sent"} => call[t].life < UInt32

\* Between operations a connection holds no tokens: the next operation on it starts
\* reading at its own response (Codec20::readHeader reads all of an error response
\* so that the socket does not keep "data from previous request responses").
InSync == \A t \in Thread : pc[t] # "sent" => unread[t] = <<>>

\* A call that returns, returns what the server's last execution of it came to,
\* whatever was lost, retried or late (RetryOnFailureOperation::execute with
\* executeOperation of every operation).
AnswersTheCall ==
    \A t \in Thread : report[t].ok /\ report[t].op # "putAll" => report[t].ret = report[t].meant

\* replaceWithVersion and removeWithVersion return true only if the server made the
\* change, and made it once, although the client repeats requests that it got no
\* response to.
VersionedTrueIsAppliedOnce ==
    \A t \in Thread :
        /\ report[t].op \in {"replaceWithVersion", "removeWithVersion"}
        /\ report[t].ok
        /\ report[t].ret = <<1>>
        => report[t].applied = 1

\* The duration is at most n seconds.
AtMost(d, n) ==
    IF d[2] \in DOMAIN PerSecond THEN d[1] <= n * PerSecond[d[2]] ELSE d[1] * Seconds[d[2]] <= n

\* The server is told the lifespan that the caller asked for, in seconds, rounded up;
\* and to use its default if that was 0 or if withFlags said so, never because of
\* another call (toSeconds, applyDefaultExpirationFlags, getFlags).  putAsync with one
\* unit does not convert, and 2^32 seconds are cut: these are left out.
LifespanIsHonoured ==
    \A t \in Thread :
        LET c == call[t]
        IN  /\ pc[t] \in {"ready", "sent"} /\ c.op \in PutFamily /\ ~c.unitOnly
            /\ AtMost(c.asked, UInt32 - 1)
            => /\ AtMost(c.asked, c.life)
               /\ c.life > 0 => ~AtMost(c.asked, c.life - 1)
               /\ "DEFAULT_LIFESPAN" \in c.flags
                     <=> c.asked[1] = 0 \/ "DEFAULT_LIFESPAN" \in c.wanted

\* The success callback of an asynchronous call, the "function to be executed on
\* success", runs only after a server executed the call (goAsync).
CallbackAfterExecution ==
    \A t \in Thread : report[t].callback = "success" => report[t].served

=============================================================================
