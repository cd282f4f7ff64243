------------------------------ MODULE Failover ------------------------------
(***************************************************************************)
(* A request and its retries (impl/operations/RetryOnFailureOperation.h),  *)
(* and the transport factory it fails over with                            *)
(* (impl/transport/TransportFactory.cpp): the balancer's servers, the      *)
(* servers of the topology, the switch to another cluster and the          *)
(* topologies that responses bring.                                        *)
(*                                                                         *)
(* The mutex of the factory is taken by clusterSwitch and updateServers    *)
(* only: requests read the balancer and the pool without it, so the switch *)
(* is split at every change they can see.  Connections, pings and answers  *)
(* succeed or fail in any way.  The pool is one bit here, closed or not    *)
(* (ConnectionPool models it), and the balancer returns any of its servers *)
(* that the request does not exclude: a configuration may bring its own    *)
(* strategy.                                                               *)
(***************************************************************************)
EXTENDS Integers, FiniteSets

CONSTANTS
    Thread,
    Cluster,      \* the clusters of the configuration
    Server,
    ServersOf,    \* the configured servers of each cluster
    First,        \* the cluster start() uses
    None,
    MaxRetries,
    MaxCalls      \* bound: calls of one thread

ASSUME ServersAssumption ==
    /\ ServersOf \in [Cluster -> SUBSET Server \ {{}}]
    /\ First \in Cluster
ASSUME BoundsAssumption == MaxRetries \in Nat /\ MaxCalls \in Nat
ASSUME NoneAssumption == None \notin Thread \cup Server \cup Cluster

VARIABLES
    \* TransportFactory
    currCluster,
    known,          \* initialServers, which TopologyInfo::servers is a reference to
    balancer,       \* the servers of the balancer
    failedServers,  \* failures met by operations without a result
    closed,         \* of the present connection pool
    lock,
    \* calls
    pc,
    req,            \* the locals of each thread's call
    dangling,       \* threads whose reference to a server is into a replaced list
    calls           \* against MaxCalls

factoryVars == <<currCluster, known, balancer, failedServers, closed, lock>>
vars == <<currCluster, known, balancer, failedServers, closed, lock, pc, req, dangling,
          calls>>

\* kind: "value", "void" (a RetryOnFailureOperation<void>) or "switch";
\* failed: the local failedServers;  view: the servers of a topology in the answer;
\* visited: the clusters a switch has looked at;  target: the one to switch to;
\* attempts: (history) since the request began or switched cluster.
Request(k, c) ==
    [kind |-> k, retryCount |-> 0, failed |-> {}, server |-> None, target |-> c,
     view |-> {}, visited |-> {}, attempts |-> 0]

NoRequest == Request("none", None)

\* start(): the configured servers, or those of a topology that its pings brought.
Init ==
    /\ currCluster = First
    /\ known \in SUBSET ServersOf[First] \ {{}} /\ balancer = known
    /\ failedServers = {} /\ closed = FALSE /\ lock = None
    /\ pc = [t \in Thread |-> "ready"]
    /\ req = [t \in Thread |-> NoRequest]
    /\ dangling = {}
    /\ calls = [t \in Thread |-> 0]

-----------------------------------------------------------------------------
Goto(t, l) == pc' = [pc EXCEPT ![t] = l]

Call(t, k, c) ==
    /\ pc[t] = "ready" /\ calls[t] < MaxCalls
    /\ calls' = [calls EXCEPT ![t] = @ + 1]
    /\ req' = [req EXCEPT ![t] = Request(k, c)]

Return(t) == Goto(t, "ready") /\ req' = [req EXCEPT ![t] = NoRequest]

\* setServers, or a new balancer: references into the old list dangle.
SetServers(S) ==
    /\ balancer' = S
    /\ dangling' = dangling \cup {t \in Thread : pc[t] = "borrow"}

\* The handler of a TransportException notes the server that the exception names: in the
\* factory for an operation without a result ...
NoteFailed(t, s) ==
    failedServers' = IF req[t].kind = "void" THEN failedServers \cup {s} ELSE failedServers

\* ... and else in the request; then the loop goes on.
Retry(t, s) ==
    /\ req' = [req EXCEPT ![t].failed = IF req[t].kind = "void" THEN @ ELSE @ \cup {s},
                          ![t].view = {}, ![t].server = None]
    /\ Goto(t, "error")

\* invalidateTransport in the handler may throw out of execute().
Handle(t, s) == NoteFailed(t, s) /\ (Retry(t, s) \/ Return(t))

-----------------------------------------------------------------------------
(* A request *)

Execute(t, k) ==
    /\ Call(t, k, None)
    /\ Goto(t, "next")
    /\ UNCHANGED <<factoryVars, dangling>>

\* getTransport: the balancer's next server, or "No more server available".
NextServer(t) ==
    /\ pc[t] = "next"
    /\ LET failed == IF req[t].kind = "void" THEN failedServers ELSE req[t].failed
       IN \/ \E s \in balancer \ failed :
                 /\ req' = [req EXCEPT ![t].server = s, ![t].attempts = @ + 1]
                 /\ Goto(t, "borrow")
          \/ /\ balancer \subseteq failed
             /\ req' = [req EXCEPT ![t].attempts = @ + 1]
             /\ Goto(t, "error")
    /\ UNCHANGED <<factoryVars, dangling, calls>>

\* borrowObject of the server the reference yields; a closed pool refuses, and the
\* connection may fail.
Borrow(t) ==
    /\ pc[t] = "borrow"
    /\ \E s \in (IF t \in dangling THEN Server ELSE {req[t].server}) :
        \/ /\ closed /\ Goto(t, "error")
           /\ req' = [req EXCEPT ![t].server = None]
           /\ UNCHANGED failedServers
        \/ /\ ~closed /\ Goto(t, "execute")
           /\ req' = [req EXCEPT ![t].server = s]
           /\ UNCHANGED failedServers
        \/ ~closed /\ NoteFailed(t, s) /\ Retry(t, s)
    /\ dangling' = dangling \ {t}
    /\ UNCHANGED <<currCluster, known, balancer, closed, lock, calls>>

\* executeOperation until the header of the answer is read: the connection breaks, or the
\* header has a topology of the server's cluster, or it has none.
ReadHeader(t) ==
    /\ pc[t] = "execute"
    /\ \/ Handle(t, req[t].server)
       \/ /\ \E c \in Cluster, S \in SUBSET Server \ {{}} :
                /\ req[t].server \in ServersOf[c] /\ S \subseteq ServersOf[c]
                /\ req' = [req EXCEPT ![t].view = S]
          /\ Goto(t, "topology")
          /\ UNCHANGED failedServers
       \/ Goto(t, "answer") /\ UNCHANGED <<req, failedServers>>
    /\ UNCHANGED <<currCluster, known, balancer, closed, lock, dangling, calls>>

\* updateServers: new servers are added to the pool, then the lists are replaced.
UpdateServers(t) ==
    /\ pc[t] = "topology" /\ lock = None
    /\ SetServers(req[t].view)
    /\ known' = req[t].view
    /\ Goto(t, "answer")
    /\ req' = [req EXCEPT ![t].view = {}]
    /\ UNCHANGED <<currCluster, failedServers, closed, lock, calls>>

\* The connection to a new server fails: nothing was replaced, and the exception names
\* that server.
UpdateServersThrows(t) ==
    /\ pc[t] = "topology" /\ lock = None
    /\ \E s \in req[t].view \ known : Handle(t, s)
    /\ UNCHANGED <<currCluster, known, balancer, closed, lock, dangling, calls>>

\* The rest of the answer.
Answer(t) ==
    /\ pc[t] = "answer"
    /\ \/ /\ Return(t)                   \* a result, or the bound of a counter
          /\ UNCHANGED failedServers
       \/ Handle(t, req[t].server)       \* the connection breaks, here or in releaseTransport
       \/ /\ Goto(t, "error")            \* RemoteNodeSuspect- or HotRodClientException
          /\ req' = [req EXCEPT ![t].server = None]
          /\ UNCHANGED failedServers
    /\ UNCHANGED <<currCluster, known, balancer, closed, lock, dangling, calls>>

\* Seeded bug: the attempt is not counted (nor in the history, to keep the states finite).
LogErrorUncounted(t) ==
    /\ pc[t] = "error"
    /\ IF req[t].retryCount >= MaxRetries - 1 THEN Goto(t, "switch") ELSE Goto(t, "next")
    /\ req' = [req EXCEPT ![t].attempts = 0]
    /\ UNCHANGED <<factoryVars, dangling, calls>>

\* Seeded bug: one attempt too many.
LogErrorLate(t) ==
    /\ pc[t] = "error"
    /\ IF req[t].retryCount >= MaxRetries
       THEN Goto(t, "switch") /\ UNCHANGED req
       ELSE Goto(t, "next") /\ req' = [req EXCEPT ![t].retryCount = @ + 1]
    /\ UNCHANGED <<factoryVars, dangling, calls>>

\* logErrorAndThrowExceptionIfNeeded and ++retryCount
LogError(t) ==
    /\ pc[t] = "error"
    /\ IF req[t].retryCount >= MaxRetries - 1
       THEN Goto(t, "switch") /\ UNCHANGED req
       ELSE Goto(t, "next") /\ req' = [req EXCEPT ![t].retryCount = @ + 1]
    /\ UNCHANGED <<factoryVars, dangling, calls>>

-----------------------------------------------------------------------------
(* The cluster switch *)

\* clusterSwitch(clusterName), called by the application: no ping, no close() of the pool,
\* and currCluster stays.
ClusterSwitchTo(t, c) ==
    /\ Call(t, "switch", c)
    /\ Goto(t, "reset")
    /\ UNCHANGED <<factoryVars, dangling>>

\* getNextWorkingServersConfiguration looks at the clusters other than the current one,
\* outside the mutex ...
NextCluster(t) ==
    /\ pc[t] = "switch"
    /\ \E c \in Cluster \ req[t].visited :
        \/ /\ c = currCluster
           /\ req' = [req EXCEPT ![t].visited = @ \cup {c}]
           /\ UNCHANGED pc
        \/ /\ c # currCluster
           /\ req' = [req EXCEPT ![t].visited = @ \cup {c}, ![t].target = c]
           /\ Goto(t, "external")
    /\ UNCHANGED <<factoryVars, dangling, calls>>

\* ... for one with a server that answers a ping.  The answers bring topologies of that
\* cluster, which are applied at once, also if none of the pings succeeds in the end.
PingExternalServer(t) ==
    /\ pc[t] = "external"
    /\ \/ UNCHANGED <<known, balancer, dangling>>
       \/ /\ lock = None
          /\ \E S \in SUBSET ServersOf[req[t].target] \ {{}} : known' = S /\ SetServers(S)
    /\ \/ /\ currCluster' = req[t].target
          /\ req' = [req EXCEPT ![t].visited = {}]
          /\ Goto(t, "close")
       \/ /\ req' = [req EXCEPT ![t].target = None]
          /\ Goto(t, "switch")
          /\ UNCHANGED currCluster
    /\ UNCHANGED <<failedServers, closed, lock, calls>>

\* No other cluster answers: the exception is thrown again.
NoNextCluster(t) ==
    /\ pc[t] = "switch" /\ req[t].visited = Cluster
    /\ Return(t)
    /\ UNCHANGED <<factoryVars, dangling, calls>>

\* The pool is closed before the mutex is taken.
Close(t) ==
    /\ pc[t] = "close"
    /\ closed' = TRUE
    /\ Goto(t, "reset")
    /\ UNCHANGED <<currCluster, known, balancer, failedServers, lock, req, dangling, calls>>

\* Seeded bug: the mutex is taken too late.
ResetUnlocked(t) ==
    /\ pc[t] = "reset"
    /\ known' = ServersOf[req[t].target]
    /\ failedServers' = {}
    /\ Goto(t, "rebalance")
    /\ UNCHANGED <<currCluster, balancer, closed, lock, req, dangling, calls>>

\* Under the mutex: initialServers and failedServers ...
Reset(t) ==
    /\ pc[t] = "reset" /\ lock = None
    /\ lock' = t
    /\ known' = ServersOf[req[t].target]
    /\ failedServers' = {}
    /\ Goto(t, "rebalance")
    /\ UNCHANGED <<currCluster, balancer, closed, req, dangling, calls>>

\* ... and a new balancer, without servers.
NewBalancer(t) ==
    /\ pc[t] = "rebalance"
    /\ SetServers({})
    /\ Goto(t, "prepare")
    /\ UNCHANGED <<currCluster, known, failedServers, closed, lock, req, calls>>

\* Seeded bug: the new pool is put in place only when it was prepared.
PreparePoolLate(t) ==
    /\ pc[t] = "prepare"
    /\ \/ Goto(t, "install") /\ closed' = FALSE /\ UNCHANGED <<lock, req>>
       \/ Return(t) /\ lock' = None /\ UNCHANGED closed
    /\ UNCHANGED <<currCluster, known, balancer, failedServers, dangling, calls>>

\* createAndPreparePool: a new pool; the connections for minIdle may fail, and the
\* exception leaves a balancer without servers.
PreparePool(t) ==
    /\ pc[t] = "prepare"
    /\ closed' = FALSE
    /\ \/ Goto(t, "install") /\ UNCHANGED <<lock, req>>
       \/ Return(t) /\ lock' = None
    /\ UNCHANGED <<currCluster, known, balancer, failedServers, dangling, calls>>

Install(t) ==
    /\ pc[t] = "install"
    /\ SetServers(known)
    /\ Goto(t, "ping")
    /\ UNCHANGED <<currCluster, known, failedServers, closed, lock, req, calls>>

\* pingServers, whose answers may bring a topology; clusterSwitch returns, or giving back
\* the connection of a ping throws.  The counter of the request is reset, then counted, and
\* tested by the loop, which ends with InternalException("We should not reach here!") when
\* maxRetries is 0.
PingServers(t) ==
    /\ pc[t] = "ping"
    /\ lock' = None
    /\ \/ UNCHANGED <<known, balancer, dangling>>
       \/ \E S \in SUBSET ServersOf[req[t].target] \ {{}} : known' = S /\ SetServers(S)
    /\ \/ /\ req[t].kind # "switch" /\ 1 <= MaxRetries
          /\ req' = [req EXCEPT ![t].retryCount = 1, ![t].attempts = 0, ![t].target = None]
          /\ Goto(t, "next")
       \/ Return(t)
    /\ UNCHANGED <<currCluster, failedServers, closed, calls>>

-----------------------------------------------------------------------------
Step(t) ==
    \/ NextServer(t) \/ Borrow(t) \/ ReadHeader(t)
    \/ UpdateServers(t) \/ UpdateServersThrows(t) \/ Answer(t) \/ LogError(t)
    \/ NextCluster(t) \/ PingExternalServer(t) \/ NoNextCluster(t)
    \/ Close(t) \/ Reset(t) \/ NewBalancer(t)
    \/ PreparePool(t) \/ Install(t) \/ PingServers(t)

Start(t) ==
    \/ \E k \in {"value", "void"} : Execute(t, k)
    \/ \E c \in Cluster : ClusterSwitchTo(t, c)

\* The application makes no more calls.
Done == (\A t \in Thread : pc[t] = "ready") /\ UNCHANGED vars

Next == (\E t \in Thread : Step(t) \/ Start(t)) \/ Done

Spec == Init /\ [][Next]_vars

\* Threads run; nothing is assumed of the servers, and no thread has to make a call.
FairSpec == Spec /\ \A t \in Thread : WF_vars(Step(t))

-----------------------------------------------------------------------------
(* Properties *)

FactoryOK ==
    /\ currCluster \in Cluster
    /\ known \subseteq Server /\ balancer \subseteq Server /\ failedServers \subseteq Server
    /\ closed \in BOOLEAN /\ lock \in Thread \cup {None}

Requests ==
    [kind : {"none", "value", "void", "switch"}, retryCount : 0 .. MaxRetries,
     failed : SUBSET Server, server : Server \cup {None}, target : Cluster \cup {None},
     view : SUBSET Server, visited : SUBSET Cluster, attempts : Nat]

CallsOK ==
    /\ pc \in [Thread -> {"ready", "next", "borrow", "execute", "topology", "answer",
                          "error", "switch", "external", "close", "reset", "rebalance",
                          "prepare", "install", "ping"}]
    /\ req \in [Thread -> Requests]
    /\ dangling \subseteq Thread
    /\ calls \in [Thread -> 0..MaxCalls]

\* Every variable stays in its domain; in particular retryCount <= maxRetries.
TypeOK == FactoryOK /\ CallsOK

\* A request is attempted at most maxRetries times (once, if maxRetries is 0) before it
\* fails or goes to another cluster, whatever other threads switch in the meantime.
AttemptsAreBounded ==
    \A t \in Thread : req[t].attempts <= (IF MaxRetries = 0 THEN 1 ELSE MaxRetries)

\* Outside clusterSwitch the balancer hands out the servers of the topology, or none at
\* all after a switch that failed: concurrent switches and topologies never mix.
BalancerFollowsTopology == lock = None => balancer \in {known, {}}

\* The pool is closed only while a switch is going to replace it: no failure in the
\* switch leaves the requests with a closed pool.
ClosedPoolIsReplaced == closed => \E t \in Thread : pc[t] \in {"reset", "rebalance", "prepare"}

\* A request does not try forever on one cluster: it ends, comes to a switch or waits for
\* the mutex.
EndsOrSwitches ==
    \A t \in Thread : []<>(pc[t] \in {"ready", "switch", "topology", "reset"})

\* maxRetries is "the maximum number of retries for each request": every request ends.
RequestsEnd == \A t \in Thread : pc[t] = "next" ~> pc[t] = "ready"

=============================================================================
