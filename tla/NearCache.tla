----------------------------- MODULE NearCache -----------------------------
(***************************************************************************)
(* The near cache of a RemoteCache in mode INVALIDATED:                    *)
(* src/src/hotrod/impl/NearRemoteCacheImpl.h.                              *)
(*                                                                         *)
(* Reads fill a map on the client; a listener on the server reports every  *)
(* change of the cache, and each report takes the key out of the map.  The *)
(* mutex _nearMutex guards the map and its FIFO, and is released while a   *)
(* read or a write is at the server.  Every section under the mutex, and   *)
(* every request to the server, is one action; the event dispatcher is a   *)
(* thread of its own.                                                      *)
(*                                                                         *)
(* A value is identified with its version.  The counters `hits` and        *)
(* `removed` (statistics) and stop() are left out.                         *)
(***************************************************************************)
EXTENDS Integers, Sequences, FiniteSets, SequencesExt

CONSTANTS
    Thread,        \* client threads that use this cache
    Key,
    None,
    MaxEntries,    \* 0: no limit
    MaxVersion,    \* bound: changes of the server's cache
    MaxOps,        \* bound: calls of one thread
    MaxFailures    \* bound: failures of the listener's connection

ASSUME BoundsAssumption ==
    /\ MaxEntries \in Nat /\ MaxVersion \in Nat
    /\ MaxOps \in Nat /\ MaxFailures \in Nat
ASSUME NoneAssumption == None \notin Key
ASSUME KeyAssumption == IsFiniteSet(Key)

VARIABLES
    nearMap, nearFifo,  \* _nearMap, _nearFifo
    pc, key, val,       \* per thread: place, key and fetched version
    ops,                \* calls started, against MaxOps
    dispatcher,         \* "run", "register" (in the failover handler), "dead"
    handling, left,     \* the event in processEvent, its callbacks still to run
    callbacks,          \* startListener adds a callback per event at every start
    failures,           \* against MaxFailures
    \* the server
    server, version,    \* the version of each key (0: absent), the last one given out
    registered,         \* the listener is known to the server
    events,             \* keys reported and not yet read by the dispatcher
    \* history
    late                \* entries stored after they changed, or without a listener

nearVars   == <<nearMap, nearFifo, late>>
callVars   == <<pc, key, val>>
eventVars  == <<dispatcher, handling, left, callbacks, failures>>
serverVars == <<server, version, registered, events>>
vars == <<nearMap, nearFifo, pc, key, val, ops, dispatcher, handling, left, callbacks,
          failures, server, version, registered, events, late>>

NoEntries == [k \in {} |-> 0]

\* init(): the listener is registered before the cache is handed out.
Init ==
    /\ nearMap = NoEntries /\ nearFifo = <<>>
    /\ pc = [t \in Thread |-> "ready"]
    /\ key = [t \in Thread |-> None]
    /\ val = [t \in Thread |-> 0]
    /\ ops = [t \in Thread |-> 0]
    /\ dispatcher = "run" /\ handling = None /\ left = 0 /\ callbacks = 1
    /\ failures = 0
    /\ server = [k \in Key |-> 0] /\ version = 0
    /\ registered = TRUE /\ events = <<>>
    /\ late = {}

-----------------------------------------------------------------------------
(* The map and its FIFO *)

Without(S) == [k \in DOMAIN nearMap \ S |-> nearMap[k]]

\* The first index of s whose element is in S.
FirstIn(s, S) == CHOOSE i \in DOMAIN s : s[i] \in S /\ \A j \in 1..(i - 1) : s[j] \notin S

SomeIn(s, S) == \E i \in DOMAIN s : s[i] \in S

\* removeElementFromMap
RemoveElement(k) ==
    /\ nearFifo' = IF MaxEntries > 0 /\ SomeIn(nearFifo, {k})
                   THEN RemoveAt(nearFifo, FirstIn(nearFifo, {k})) ELSE nearFifo
    /\ nearMap' = Without({k})
    /\ late' = late \ {k}

\* Seeded bug: the front of the FIFO is popped whether or not the map has it.
EvictFront(fifo) == [out |-> {Head(fifo)}, fifo |-> Tail(fifo)]

\* The oldest element leaves; FIFO elements the map does not have are skipped.
Evict(fifo) ==
    LET i == FirstIn(fifo, DOMAIN nearMap)
    IN IF SomeIn(fifo, DOMAIN nearMap)
       THEN [out |-> {fifo[i]}, fifo |-> SubSeq(fifo, i + 1, Len(fifo))]
       ELSE [out |-> {}, fifo |-> <<>>]

\* addElementToMap
AddElement(k, v) ==
    LET fifo == Append(nearFifo, k)
        kept == CASE MaxEntries = 0 -> [out |-> {}, fifo |-> nearFifo]
                  [] MaxEntries > 0 /\ Cardinality(DOMAIN nearMap) < MaxEntries ->
                        [out |-> {}, fifo |-> fifo]
                  [] OTHER -> Evict(fifo)
    IN /\ nearFifo' = kept.fifo
       /\ nearMap' = [j \in (DOMAIN nearMap \ kept.out) \cup {k} |->
                         IF j = k THEN v ELSE nearMap[j]]
       /\ late' = (late \ (kept.out \cup {k}))
                      \cup (IF v # server[k] \/ ~registered THEN {k} ELSE {})

\* Seeded bug: the FIFO is cleared instead of the map.
InvalidateCacheFifo ==
    /\ nearFifo' = <<>>
    /\ UNCHANGED <<nearMap, late>>

\* Seeded bug: the failover handler only registers again.
InvalidateCacheSkipped == UNCHANGED nearVars

\* invalidateCache leaves the FIFO as it is.
InvalidateCache ==
    /\ nearMap' = NoEntries
    /\ late' = {}
    /\ UNCHANGED nearFifo

ClearMap ==
    /\ nearMap' = NoEntries /\ nearFifo' = <<>>
    /\ late' = {}

-----------------------------------------------------------------------------
(* The server: a change gets a new version and is reported to the listener *)

Report(ks) == events' = IF registered THEN events \o ks ELSE events

Store(k) ==
    /\ version < MaxVersion
    /\ version' = version + 1
    /\ server' = [server EXCEPT ![k] = version + 1]
    /\ Report(<<k>>)
    /\ UNCHANGED registered

Delete(k) ==
    /\ server[k] # 0
    /\ server' = [server EXCEPT ![k] = 0]
    /\ Report(<<k>>)
    /\ UNCHANGED <<version, registered>>

\* Other clients, expiration, and the writes of this client that NearRemoteCacheImpl
\* does not override (putIfAbsent, putAll): the near cache only hears of them.
OtherClient ==
    /\ \E k \in Key : Store(k) \/ Delete(k)
    /\ UNCHANGED <<nearVars, callVars, ops, eventVars>>

-----------------------------------------------------------------------------
(* get and getWithVersion *)

Call(t) == pc[t] = "ready" /\ ops[t] < MaxOps /\ ops' = [ops EXCEPT ![t] = @ + 1]

Goto(t, l) == pc' = [pc EXCEPT ![t] = l]

Return(t) ==
    /\ Goto(t, "ready")
    /\ key' = [key EXCEPT ![t] = None]
    /\ val' = [val EXCEPT ![t] = 0]

\* A read of a key in the map returns its entry.
GetNear(t, k) ==
    /\ Call(t) /\ k \in DOMAIN nearMap
    /\ UNCHANGED <<nearVars, callVars, eventVars, serverVars>>

\* Otherwise the mutex is released ...
GetMiss(t, k) ==
    /\ Call(t) /\ k \notin DOMAIN nearMap
    /\ Goto(t, "fetch")
    /\ key' = [key EXCEPT ![t] = k]
    /\ UNCHANGED <<nearVars, val, eventVars, serverVars>>

\* ... the value is read at the server, or the request fails or finds nothing ...
GetRemote(t) ==
    /\ pc[t] = "fetch"
    /\ \/ /\ server[key[t]] # 0
          /\ val' = [val EXCEPT ![t] = server[key[t]]]
          /\ Goto(t, "store")
          /\ UNCHANGED key
       \/ Return(t)
    /\ UNCHANGED <<nearVars, ops, eventVars, serverVars>>

\* ... and stored.
GetStore(t) ==
    /\ pc[t] = "store"
    /\ AddElement(key[t], val[t])
    /\ Return(t)
    /\ UNCHANGED <<ops, eventVars, serverVars>>

-----------------------------------------------------------------------------
(* Writes *)

\* put, replace and remove take the key out of the map before the request.
Write(t, k, op) ==
    /\ Call(t)
    /\ RemoveElement(k)
    /\ Goto(t, op)
    /\ key' = [key EXCEPT ![t] = k]
    /\ UNCHANGED <<val, eventVars, serverVars>>

\* The request changes the cache of the server, or not: it fails, or there is no such key.
WriteRemote(t) ==
    /\ pc[t] \in {"put", "replace", "remove"}
    /\ \/ pc[t] = "put" /\ Store(key[t])
       \/ pc[t] = "replace" /\ server[key[t]] # 0 /\ Store(key[t])
       \/ pc[t] = "remove" /\ Delete(key[t])
       \/ UNCHANGED serverVars
    /\ Return(t)
    /\ UNCHANGED <<nearVars, ops, eventVars>>

\* replaceWithVersion and removeWithVersion go to the server first ...
WriteVersion(t, k) ==
    /\ Call(t)
    /\ server[k] # 0
    /\ Store(k) \/ Delete(k)
    /\ \/ /\ Goto(t, "forget")
          /\ key' = [key EXCEPT ![t] = k]
       \/ UNCHANGED <<pc, key>>   \* the answer is lost: an exception
    /\ UNCHANGED <<nearVars, val, eventVars>>

\* ... and take the key out of the map when the server did it.
WriteForget(t) ==
    /\ pc[t] = "forget"
    /\ RemoveElement(key[t])
    /\ Return(t)
    /\ UNCHANGED <<ops, eventVars, serverVars>>

\* clear(): the server, which reports every entry, then the map and the FIFO.
Clear(t) ==
    /\ Call(t)
    /\ server' = [k \in Key |-> 0]
    /\ \E ks \in SetToSeqs({k \in Key : server[k] # 0}) : Report(ks)
    /\ Goto(t, "clear") \/ UNCHANGED pc   \* the answer is lost: an exception
    /\ UNCHANGED <<nearVars, key, val, eventVars, version, registered>>

ClearNear(t) ==
    /\ pc[t] = "clear"
    /\ ClearMap
    /\ Return(t)
    /\ UNCHANGED <<ops, eventVars, serverVars>>

-----------------------------------------------------------------------------
(* The event dispatcher *)

\* processEvent runs all callbacks; each one is removeElementFromMap.
ReadEvent ==
    /\ dispatcher = "run" /\ left = 0 /\ events # <<>>
    /\ handling' = Head(events) /\ left' = callbacks
    /\ events' = Tail(events)
    /\ UNCHANGED <<nearVars, callVars, ops, dispatcher, callbacks, failures, server,
                   version, registered>>

Callback ==
    /\ dispatcher = "run" /\ left > 0
    /\ RemoveElement(handling)
    /\ left' = left - 1
    /\ handling' = IF left = 1 THEN None ELSE handling
    /\ UNCHANGED <<callVars, ops, dispatcher, callbacks, failures, serverVars>>

\* The listener's connection breaks; a part of the events on it may still be read.
ConnectionLost ==
    /\ registered /\ failures < MaxFailures
    /\ failures' = failures + 1
    /\ registered' = FALSE
    /\ \E n \in 0..Len(events) : events' = SubSeq(events, 1, n)
    /\ UNCHANGED <<nearVars, callVars, ops, dispatcher, handling, left, callbacks,
                   server, version>>

\* The TransportException runs the failover handler: invalidateCache ...
FailOver ==
    /\ dispatcher = "run" /\ left = 0 /\ ~registered /\ events = <<>>
    /\ InvalidateCache
    /\ dispatcher' = "register"
    /\ UNCHANGED <<callVars, ops, handling, left, callbacks, failures, serverVars>>

\* ... then startListener, which adds the callbacks once more and registers at another
\* server; when that fails the exception is swallowed and no dispatcher is left.
StartListener ==
    /\ dispatcher = "register"
    /\ callbacks' = callbacks + 1
    /\ \/ registered' = TRUE /\ dispatcher' = "run"
       \/ UNCHANGED registered /\ dispatcher' = "dead"
    /\ UNCHANGED <<nearVars, callVars, ops, handling, left, failures, server, version,
                   events>>

-----------------------------------------------------------------------------
Client(t) ==
    \/ GetRemote(t) \/ GetStore(t) \/ WriteRemote(t) \/ WriteForget(t) \/ ClearNear(t)

Start(t) ==
    \/ Clear(t)
    \/ \E k \in Key : GetNear(t, k) \/ GetMiss(t, k) \/ WriteVersion(t, k)
    \/ \E k \in Key, op \in {"put", "replace", "remove"} : Write(t, k, op)

Dispatcher == ReadEvent \/ Callback \/ FailOver \/ StartListener

Next ==
    \/ \E t \in Thread : Client(t) \/ Start(t)
    \/ Dispatcher \/ OtherClient \/ ConnectionLost

Spec == Init /\ [][Next]_vars

\* Calls end and the dispatcher's thread runs; nothing is assumed of other clients.
Fairness == WF_vars(Dispatcher) /\ \A t \in Thread : WF_vars(Client(t))

FairSpec == Spec /\ Fairness

-----------------------------------------------------------------------------
(* Properties *)

NearOK ==
    /\ DOMAIN nearMap \subseteq Key /\ \A k \in DOMAIN nearMap : nearMap[k] \in 1..version
    /\ nearFifo \in Seq(Key)
    /\ late \subseteq DOMAIN nearMap
CallsOK ==
    /\ pc \in [Thread -> {"ready", "fetch", "store", "put", "replace", "remove", "forget",
                          "clear"}]
    /\ key \in [Thread -> Key \cup {None}] /\ val \in [Thread -> 0..version]
    /\ ops \in [Thread -> 0..MaxOps]
EventsOK ==
    /\ dispatcher \in {"run", "register", "dead"}
    /\ left \in Nat /\ callbacks \in Nat \ {0}
    /\ handling \in Key \cup {None} /\ (left > 0 <=> handling # None)
    /\ failures \in 0..MaxFailures
ServerOK ==
    /\ version \in 0..MaxVersion /\ server \in [Key -> 0..version]
    /\ registered \in BOOLEAN /\ events \in Seq(Key)

\* Every variable stays in its domain: in particular an entry is never an absent value,
\* and a callback runs exactly for an event that was read.
TypeOK == NearOK /\ CallsOK /\ EventsOK /\ ServerOK

\* A thread has a key while it is at the server or about to change the map, and the
\* version it is about to store is one the server gave out.
LocalsOK ==
    \A t \in Thread :
        /\ pc[t] \notin {"ready", "clear"} => key[t] \in Key
        /\ pc[t] = "store" => val[t] > 0

\* The map never has more entries than maxEntries, although the FIFO that chooses what to
\* evict holds keys twice, and keys that left the map.
NearBounded == MaxEntries > 0 => Cardinality(DOMAIN nearMap) <= MaxEntries

\* Every entry can be evicted: removals, evictions and failovers never take the last
\* occurrence of a key out of the FIFO while the map has the key.
EntriesAreEvictable == MaxEntries > 0 => DOMAIN nearMap \subseteq Range(nearFifo)

\* An entry that was current when it was stored under a registered listener is current,
\* or the report of its change is on its way: no read, write, eviction or failover in
\* between loses an invalidation.
Coherent ==
    registered => \A k \in DOMAIN nearMap \ late :
                      nearMap[k] = server[k] \/ k \in Range(events) \cup {handling}

\* Until the failover handler has registered a listener everything in the map is late.
ListenerOK ==
    /\ dispatcher # "run" => ~registered
    /\ dispatcher = "register" => DOMAIN nearMap \subseteq late

\* NearCacheConfiguration: an entry "is removed from the near cache if it's value changes
\* on the server"; a value that is no longer the server's does not stay.
StaleEntriesLeave ==
    \A k \in Key :
        (k \in DOMAIN nearMap /\ nearMap[k] # server[k])
            ~> (k \notin DOMAIN nearMap \/ nearMap[k] = server[k])

=============================================================================
