------------------------------ MODULE Topology ------------------------------
(***************************************************************************)
(* How the client follows the topology of the cluster.  A response may     *)
(* carry a topology: its id, its members and the owners of its segments    *)
(* (protocol/Codec20.cpp).  The thread that reads it compares the id with  *)
(* the one recorded for the cache, then updates the servers (pool,         *)
(* balancer, list) and after that, in a second critical section, the       *)
(* consistent hash and the recorded id (transport/TransportFactory.cpp,    *)
(* TopologyInfo.cpp).  The id that requests announce to the server is the  *)
(* Topology object of the cache's OperationsFactory, which all threads     *)
(* that use the cache share and write without a lock.                      *)
(*                                                                         *)
(* The order of the server list is of no interest here (module Failover):  *)
(* lists are sets.  A consistent hash is the number of the topology whose  *)
(* owners it was built from.  The cluster is external: every server        *)
(* answers with the topology that it knows, and learns newer ones later.   *)
(***************************************************************************)
EXTENDS Integers, Sequences, FiniteSets

CONSTANTS
    Thread,
    Cache,         \* the names of the caches; EmptyName is one that has no users here
    EmptyName,     \* the cache name of a ping
    CacheOf,       \* the cache that each thread uses
    Server,        \* server addresses
    Members,       \* the cluster's topologies in order: the members of each
    Hashed,        \* the topologies with a hash function version above 0
    None,          \* "nobody", for a mutex
    MaxFailures    \* bound: connections that cannot be opened

Topologies == 1 .. Len(Members)

ASSUME MembersAssumption ==
    /\ Members \in Seq((SUBSET Server) \ {{}})
    /\ Members # <<>>
    /\ Hashed \subseteq Topologies
ASSUME ClientsAssumption ==
    /\ CacheOf \in [Thread -> Cache]
    /\ EmptyName \in Cache
    /\ None \notin Thread
    /\ Thread \cap Cache = {}
    /\ MaxFailures \in Nat

DEFAULT_CACHE_TOPOLOGY == -1
NoHash == 0

VARIABLES
    testOnBorrow,              \* of the pool's configuration
    lock,                      \* TransportFactory::lock
    poolLock,                  \* ConnectionPool::lock
    servers,                   \* TopologyInfo::servers
    balancer,                  \* the servers that the balancer hands out
    pooled,                    \* the addresses for which the pool has queues
    topologyId,                \* the Topology objects: one per cache, one per thread's ping
    topologyIdsByCache,        \* TopologyInfo
    consistentHashByCacheName, \* TopologyInfo
    pc,
    params,                    \* HeaderParams: the cache, and whose Topology object
    new,                       \* the topology that each thread read
    todo,                      \* servers that updateServers still has to add
    known,                     \* (external) the topology that each server knows
    up,                        \* the process has not crashed
    failures,
    applied                    \* history: the topologies whose servers were installed

vars == <<testOnBorrow, lock, poolLock, servers, balancer, pooled, topologyId,
          topologyIdsByCache, consistentHashByCacheName, pc, params, new, todo, known, up,
          failures, applied>>
listVars == <<servers, balancer, applied>>
hashVars == <<topologyIdsByCache, consistentHashByCacheName>>
stable == <<testOnBorrow, known>>

\* The configured servers are those of the first topology; the OperationsFactory of
\* every cache has called createTopologyId.
Init ==
    /\ testOnBorrow \in BOOLEAN
    /\ lock = None
    /\ poolLock = None
    /\ servers = Members[1]
    /\ balancer = Members[1]
    /\ pooled = Members[1]
    /\ topologyId = [o \in Cache \cup Thread |-> DEFAULT_CACHE_TOPOLOGY]
    /\ topologyIdsByCache = [c \in Cache |-> DEFAULT_CACHE_TOPOLOGY]
    /\ consistentHashByCacheName = [c \in Cache |-> NoHash]
    /\ pc = [t \in Thread |-> "ready"]
    /\ params = [t \in Thread |-> [cacheName |-> CacheOf[t], topologyId |-> CacheOf[t]]]
    /\ new = [t \in Thread |-> 1]
    /\ todo = [t \in Thread |-> {}]
    /\ known = [s \in Server |-> 1]
    /\ up = TRUE
    /\ failures = 0
    /\ applied = {}

Goto(t, l) == pc' = [pc EXCEPT ![t] = l]

\* The mutexes are recursive.
Free(mutex, t) == mutex \in {None, t}

-----------------------------------------------------------------------------
(* Choosing a server; requests and pings *)

\* The owner is asked only when the map holds a null pointer for the cache, which
\* updateTopology never stores: no key is routed by its hash.
getHashAwareServer(c) == None

getTransport(c) == IF getHashAwareServer(c) = None THEN balancer ELSE {getHashAwareServer(c)}

\* A response to t, over a pooled connection, carries a topology: the server knows
\* another one than the request announced.  The reader stores its id at once.
readNewTopologyIfPresent(t, cache, object, announced) ==
    /\ pc[t] = "ready"
    /\ poolLock = None
    /\ \E s \in getTransport(CacheOf[t]) \cap pooled :
        /\ known[s] # announced
        /\ new' = [new EXCEPT ![t] = known[s]]
        /\ topologyId' = [topologyId EXCEPT ![object] = known[s]]
    /\ params' = [params EXCEPT ![t] = [cacheName |-> cache, topologyId |-> object]]
    /\ Goto(t, "decide")
    /\ UNCHANGED <<lock, listVars, pooled, hashVars, todo, stable, up, failures>>

\* Mutant of readHeader: the connection is still being borrowed.
readHeaderInPool(t) ==
    /\ readNewTopologyIfPresent(t, CacheOf[t], CacheOf[t], topologyId[CacheOf[t]])
    /\ poolLock' = t

readHeader(t) ==
    /\ readNewTopologyIfPresent(t, CacheOf[t], CacheOf[t], topologyId[CacheOf[t]])
    /\ UNCHANGED poolLock

\* validateObject: with testOnBorrow a pooled connection is pinged under the pool's
\* mutex.  A ping announces DEFAULT_CACHE_TOPOLOGY in a Topology object of its own.
ping(t) ==
    /\ testOnBorrow
    /\ readNewTopologyIfPresent(t, EmptyName, t, DEFAULT_CACHE_TOPOLOGY)
    /\ poolLock' = t

-----------------------------------------------------------------------------
(* readNewTopologyAndHash *)

\* The thread leaves the response, and the pool if it was a ping (whose Topology object
\* is gone then).
Leave(t) ==
    /\ Goto(t, "ready")
    /\ poolLock' = IF poolLock = t THEN None ELSE poolLock
    /\ params' = [params EXCEPT ![t] = [cacheName |-> CacheOf[t], topologyId |-> CacheOf[t]]]
    /\ new' = [new EXCEPT ![t] = 1]
    /\ topologyId' = [topologyId EXCEPT ![t] = DEFAULT_CACHE_TOPOLOGY]

\* Mutant of readNewTopologyAndHash: compares with the id that it has just stored.
readNewTopologyAndHashOwn(t) ==
    /\ pc[t] = "decide"
    /\ IF topologyId[params[t].topologyId] # new[t]
       THEN Goto(t, "update") /\ UNCHANGED <<poolLock, params, new, topologyId>>
       ELSE Leave(t)
    /\ UNCHANGED <<lock, listVars, pooled, hashVars, todo, stable, up, failures>>

\* topologyAge is 0 on both sides of the comparison, always.
readNewTopologyAndHash(t) ==
    /\ pc[t] = "decide"
    /\ IF topologyIdsByCache[params[t].cacheName] # new[t]
       THEN /\ topologyId' = [topologyId EXCEPT ![params[t].topologyId] = new[t]]
            /\ Goto(t, "update")
            /\ UNCHANGED <<poolLock, params, new>>
       ELSE Leave(t)
    /\ UNCHANGED <<lock, listVars, pooled, hashVars, todo, stable, up, failures>>

\* updateServers: the mutex, and what is to be done.  (Its early return, when there are
\* neither new nor failed servers, leaves the state as the rest of the method would.)
updateServers(t) ==
    /\ pc[t] = "update"
    /\ Free(lock, t)
    /\ lock' = t
    /\ todo' = [todo EXCEPT ![t] = Members[new[t]] \ servers]
    /\ Goto(t, "add")
    /\ UNCHANGED <<poolLock, listVars, pooled, topologyId, hashVars, params, new, stable, up,
                   failures>>

\* addObject makes the queues of the address, then opens connections.
addObject(t, s) ==
    /\ pc[t] = "add"
    /\ Free(poolLock, t)
    /\ s \in todo[t]
    /\ pooled' = pooled \cup {s}
    /\ todo' = [todo EXCEPT ![t] = @ \ {s}]
    /\ UNCHANGED <<lock, poolLock, listVars, topologyId, hashVars, pc, params, new, stable, up,
                   failures>>

\* The connection is refused: the exception leaves updateServers and the response.
addObjectThrows(t, s) ==
    /\ pc[t] = "add"
    /\ Free(poolLock, t)
    /\ s \in todo[t]
    /\ failures < MaxFailures
    /\ failures' = failures + 1
    /\ pooled' = pooled \cup {s}
    /\ todo' = [todo EXCEPT ![t] = {}]
    /\ lock' = None
    /\ Leave(t)
    /\ UNCHANGED <<listVars, hashVars, stable, up>>

\* Mutant of setServers: the balancer learns of the servers before the pool does.
setServersFirst(t) ==
    /\ pc[t] = "add"
    /\ balancer' = Members[new[t]]
    /\ Goto(t, IF todo[t] = {} THEN "clear" ELSE "add")
    /\ UNCHANGED <<lock, poolLock, servers, pooled, topologyId, hashVars, params, new, todo,
                   stable, up, failures, applied>>

setServers(t) ==
    /\ pc[t] = "add"
    /\ todo[t] = {}
    /\ balancer' = Members[new[t]]
    /\ Goto(t, "clear")
    /\ UNCHANGED <<lock, poolLock, servers, pooled, topologyId, hashVars, params, new, todo,
                   stable, up, failures, applied>>

\* The failed servers leave the pool, then the new list is stored and the mutex released.
clearFailed(t) ==
    /\ pc[t] = "clear"
    /\ Free(poolLock, t) \/ servers \subseteq Members[new[t]]
    /\ pooled' = pooled \ (servers \ Members[new[t]])
    /\ servers' = Members[new[t]]
    /\ applied' = applied \cup {new[t]}
    /\ lock' = None
    /\ Goto(t, "hash")
    /\ UNCHANGED <<poolLock, balancer, topologyId, hashVars, params, new, todo, stable, up,
                   failures>>

\* Mutant of updateTopology: the id is not recorded.
updateTopologyKeepsId(t) ==
    /\ consistentHashByCacheName' =
        [consistentHashByCacheName EXCEPT ![params[t].cacheName] = new[t]]
    /\ UNCHANGED topologyIdsByCache

\* The id is read again from the Topology object that threads share.
updateTopology(t) ==
    /\ consistentHashByCacheName' =
        [consistentHashByCacheName EXCEPT ![params[t].cacheName] = new[t]]
    /\ topologyIdsByCache' =
        [topologyIdsByCache EXCEPT ![params[t].cacheName] = topologyId[params[t].topologyId]]

\* updateHashFunction.  A topology without a hash function has no segments, and
\* getSegmentSize divides by their number.
updateHashFunction(t) ==
    /\ pc[t] = "hash"
    /\ Free(lock, t)
    /\ IF new[t] \in Hashed
       THEN updateTopology(t) /\ Leave(t) /\ UNCHANGED up
       ELSE up' = FALSE /\ UNCHANGED <<hashVars, poolLock, topologyId, pc, params, new>>
    /\ UNCHANGED <<lock, listVars, pooled, todo, stable, failures>>

\* (external) A server learns of a newer topology; one that is no member stays behind
\* until the cluster tells it that it has left.
Learn(s) ==
    /\ known[s] < Len(Members)
    /\ known' = [known EXCEPT ![s] = @ + 1]
    /\ UNCHANGED <<testOnBorrow, lock, poolLock, listVars, pooled, topologyId, hashVars, pc,
                   params, new, todo, up, failures>>

Read(t) ==
    \/ readHeader(t) \/ readNewTopologyAndHash(t) \/ updateServers(t)
    \/ \E s \in Server : addObject(t, s) \/ addObjectThrows(t, s)
    \/ setServers(t) \/ clearFailed(t) \/ updateHashFunction(t)

Next ==
    /\ up
    /\ \/ \E t \in Thread : Read(t) \/ ping(t)
       \/ \E s \in Server : Learn(s)

Spec == Init /\ [][Next]_vars

\* Threads are scheduled and keep using their caches; the mutexes are handed over in
\* some fair order; every server hears of the last topology.
FairSpec ==
    /\ Spec
    /\ \A t \in Thread : /\ WF_vars(up /\ (readHeader(t) \/ readNewTopologyAndHash(t) \/
                                           setServers(t) \/ \E s \in Server : addObject(t, s)))
                         /\ SF_vars(up /\ (updateServers(t) \/ updateHashFunction(t)))
                         /\ SF_vars(up /\ clearFailed(t))
    /\ \A s \in Server : WF_vars(up /\ Learn(s))

-----------------------------------------------------------------------------
(* Properties *)

Ids == Topologies \cup {DEFAULT_CACHE_TOPOLOGY}

\* The type of the state.
TypeOK ==
    /\ testOnBorrow \in BOOLEAN
    /\ lock \in Thread \cup {None} /\ poolLock \in Thread \cup {None}
    /\ servers \subseteq Server /\ balancer \subseteq Server /\ pooled \subseteq Server
    /\ topologyId \in [Cache \cup Thread -> Ids]
    /\ topologyIdsByCache \in [Cache -> Ids]
    /\ consistentHashByCacheName \in [Cache -> Topologies \cup {NoHash}]
    /\ pc \in [Thread -> {"ready", "decide", "update", "add", "clear", "hash"}]
    /\ params \in [Thread -> [cacheName : Cache, topologyId : Cache \cup Thread]]
    /\ new \in [Thread -> Topologies]
    /\ todo \in [Thread -> SUBSET Server]
    /\ known \in [Server -> Topologies]
    /\ up \in BOOLEAN
    /\ failures \in 0 .. MaxFailures
    /\ applied \subseteq Topologies

\* Whatever server the balancer hands out, the pool has queues for it: updateServers adds
\* the new servers to the pool before the balancer knows them, removes the failed ones
\* after it has forgotten them, and a connection that cannot be opened half way, or
\* another thread's topology, changes nothing about that.
RoutedIsPooled == balancer \subseteq pooled

\* The consistent hash of a cache and the id recorded for it come from one topology, as
\* long as no two threads read topologies for the same cache.
HashMatchesId ==
    (\A t, u \in Thread : CacheOf[t] = CacheOf[u] => t = u) =>
        \A c \in {CacheOf[t] : t \in Thread} :
            consistentHashByCacheName[c] # NoHash =>
                consistentHashByCacheName[c] = topologyIdsByCache[c]

\* No thread waits for the factory's mutex while it holds the pool's, unless connections
\* are tested on loan: then updateServers, which takes them in the other order, and a
\* ping that brings a topology wait for each other.
LocksAreOrdered ==
    testOnBorrow \/ \A t \in Thread : pc[t] \in {"update", "hash"} => poolLock # t

\* Once the cluster has settled, the client's list of servers becomes that of the last
\* topology and stays so, whatever order the answers of lagging servers came in.
\* Exceptions: a connection that could not be opened (the id was announced already, so
\* no server sends the topology again), and connections that are tested on loan.
Converges ==
    testOnBorrow \/ <>(failures > 0) \/ <>[](servers = Members[Len(Members)])

\* A topology that a thread dismisses is outdated: the client has installed it before.
IgnoredIsOutdated ==
    \A t \in Thread :
        pc[t] = "decide" /\ topologyIdsByCache[params[t].cacheName] = new[t] => new[t] \in applied

=============================================================================
