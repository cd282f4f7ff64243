--------------------------- MODULE FailoverProofs ---------------------------
(***************************************************************************)
(* Proofs about Failover, for any clusters, threads and maxRetries.        *)
(***************************************************************************)
EXTENDS Failover, TLAPS

\* The counter bounds the attempts: at the top of the loop it has counted all of them, and
\* the loop goes on only below the limit.
CountedOK ==
    \A t \in Thread :
        /\ pc[t] = "next" => /\ req[t].attempts <= req[t].retryCount
                             /\ req[t].attempts < (IF MaxRetries = 0 THEN 1 ELSE MaxRetries)
        /\ pc[t] # "next" => req[t].attempts <= req[t].retryCount + 1

\* Where a call is: the server it uses, the cluster it switches to, who holds the mutex.
LocalsOK ==
    \A t \in Thread :
        /\ pc[t] \in {"borrow", "execute", "topology", "answer"} => req[t].server \in Server
        /\ pc[t] \in {"external", "close", "reset", "rebalance", "prepare", "install", "ping"} =>
               req[t].target \in Cluster
        /\ pc[t] \in {"rebalance", "prepare", "install", "ping"} <=> lock = t

\* Only between Reset and NewBalancer the balancer has the servers of an older topology.
SwitchOK == balancer \in {known, {}} \/ \E t \in Thread : pc[t] = "rebalance"

IInv == TypeOK /\ CountedOK /\ AttemptsAreBounded /\ LocalsOK /\ SwitchOK /\ ClosedPoolIsReplaced

-----------------------------------------------------------------------------
\* The configuration.
USE ServersAssumption, BoundsAssumption, NoneAssumption

LEMMA Initially == Init => IInv
<1> SUFFICES ASSUME Init PROVE IInv
  OBVIOUS
<1> USE DEF Init
<1>1. FactoryOK
  BY DEF FactoryOK
<1>2. NoRequest \in Requests
  BY DEF NoRequest, Request, Requests
<1>3. CallsOK
  BY <1>2 DEF CallsOK
<1>4. CountedOK /\ AttemptsAreBounded
  BY DEF CountedOK, AttemptsAreBounded, NoRequest, Request
<1>5. LocalsOK
  BY DEF LocalsOK
<1>6. SwitchOK /\ ClosedPoolIsReplaced
  BY DEF SwitchOK, ClosedPoolIsReplaced
<1> QED
  BY <1>1, <1>3, <1>4, <1>5, <1>6 DEF IInv, TypeOK

\* The changes an action makes to the locals of a call keep their type.
LEMMA RequestUpdates ==
    ASSUME NEW r \in Requests
    PROVE  /\ \A x \in Server \cup {None} : [r EXCEPT !.server = x] \in Requests
           /\ \A S \in SUBSET Server : [r EXCEPT !.view = S] \in Requests
           /\ \A c \in Cluster : [r EXCEPT !.target = c] \in Requests
           /\ \A S \in SUBSET Server :
                 [r EXCEPT !.failed = S, !.view = {}, !.server = None] \in Requests
           /\ 1 <= MaxRetries =>
                 [r EXCEPT !.retryCount = 1, !.attempts = 0, !.target = None] \in Requests
<1>1. \A x \in Server \cup {None} : [r EXCEPT !.server = x] \in Requests
  BY DEF Requests
<1>2. \A S \in SUBSET Server : [r EXCEPT !.view = S] \in Requests
  BY DEF Requests
<1>3. \A c \in Cluster : [r EXCEPT !.target = c] \in Requests
  BY DEF Requests
<1>4. \A S \in SUBSET Server :
         [r EXCEPT !.failed = S, !.view = {}, !.server = None] \in Requests
  BY DEF Requests
<1>5. ASSUME 1 <= MaxRetries
      PROVE  [r EXCEPT !.retryCount = 1, !.attempts = 0, !.target = None] \in Requests
  <2>1. 1 \in 0 .. MaxRetries /\ 0 \in Nat
    BY <1>5
  <2> HIDE BoundsAssumption
  <2>2. \A n \in 0 .. MaxRetries : [r EXCEPT !.retryCount = n] \in Requests
    BY DEF Requests
  <2>3. \A q \in Requests : [q EXCEPT !.attempts = 0] \in Requests
    BY DEF Requests
  <2>4. \A q \in Requests : [q EXCEPT !.target = None] \in Requests
    BY DEF Requests
  <2>5. [r EXCEPT !.retryCount = 1, !.attempts = 0, !.target = None]
            = [[[r EXCEPT !.retryCount = 1] EXCEPT !.attempts = 0] EXCEPT !.target = None]
    BY DEF Requests
  <2> QED
    BY <2>1, <2>2, <2>3, <2>4, <2>5
<1> QED
  BY <1>1, <1>2, <1>3, <1>4, <1>5

LEMMA NoRequestTyped == NoRequest \in Requests
BY DEF NoRequest, Request, Requests

\* The handler of a TransportException.
LEMMA HandlerTypes ==
    ASSUME CallsOK, NEW t \in Thread, NEW x \in Server, Retry(t, x) \/ Return(t),
           dangling' \subseteq Thread, UNCHANGED calls
    PROVE  CallsOK'
<1>1. req[t] \in Requests
  BY DEF CallsOK
<1>2. CASE Return(t)
  BY <1>2, NoRequestTyped DEF Return, CallsOK, Goto
<1>3. CASE Retry(t, x)
  <2> DEFINE S == IF req[t].kind = "void" THEN req[t].failed ELSE req[t].failed \cup {x}
             r == [req[t] EXCEPT !.failed = S, !.view = {}, !.server = None]
  <2>1. S \in SUBSET Server
    BY <1>1 DEF Requests
  <2>2. req' = [req EXCEPT ![t] = r]
    BY <1>3 DEF Retry, CallsOK
  <2>3. r \in Requests
    BY <1>1, <2>1, RequestUpdates
  <2> QED
    BY <1>3, <2>2, <2>3 DEF Retry, CallsOK, Goto
<1> QED
  BY <1>2, <1>3

LEMMA HandlerCounts ==
    ASSUME CallsOK, CountedOK, AttemptsAreBounded, NEW t \in Thread, pc[t] # "next",
           NEW x \in Server, Retry(t, x) \/ Return(t)
    PROVE  CountedOK' /\ AttemptsAreBounded'
<1>1. req[t] \in Requests
  BY DEF CallsOK
<1>2. \A u \in Thread \ {t} : req'[u] = req[u] /\ pc'[u] = pc[u]
  BY DEF CallsOK, Retry, Return, Goto
<1>3. CASE Return(t)
  <2>1. pc'[t] = "ready" /\ req'[t].attempts = 0 /\ req'[t].retryCount = 0
    BY <1>3 DEF Return, Goto, CallsOK, NoRequest, Request
  <2> QED
    BY <1>2, <2>1 DEF CountedOK, AttemptsAreBounded
<1>4. CASE Retry(t, x)
  <2>1. /\ pc'[t] = "error"
        /\ req'[t].attempts = req[t].attempts /\ req'[t].retryCount = req[t].retryCount
    BY <1>1, <1>4 DEF Retry, Goto, CallsOK, Requests
  <2> QED
    BY <1>2, <2>1 DEF CountedOK, AttemptsAreBounded
<1> QED
  BY <1>3, <1>4

\* A step of the request between NextServer and LogError.
LEMMA SameCounts ==
    ASSUME CallsOK, CountedOK, AttemptsAreBounded, NEW t \in Thread, pc[t] # "next",
           NEW l, l # "next", Goto(t, l), NEW r, req' = [req EXCEPT ![t] = r],
           r.attempts = req[t].attempts, r.retryCount = req[t].retryCount
    PROVE  CountedOK' /\ AttemptsAreBounded'
BY DEF CallsOK, CountedOK, AttemptsAreBounded, Goto

LEMMA SameFields ==
    ASSUME NEW r \in Requests
    PROVE  /\ \A x : /\ [r EXCEPT !.server = x].attempts = r.attempts
                     /\ [r EXCEPT !.server = x].retryCount = r.retryCount
           /\ \A x : /\ [r EXCEPT !.view = x].attempts = r.attempts
                     /\ [r EXCEPT !.view = x].retryCount = r.retryCount
BY DEF Requests

LEMMA NextServerKeeps ==
    ASSUME IInv, NEW t \in Thread, NextServer(t)
    PROVE  IInv'
<1> USE DEF IInv, TypeOK
<1>1. /\ pc[t] = "next" /\ UNCHANGED <<factoryVars, dangling, calls>>
      /\ req[t] \in Requests
  BY DEF NextServer, CallsOK
<1>2. PICK l \in {"borrow", "error"}, r \in Requests :
         /\ Goto(t, l) /\ req' = [req EXCEPT ![t] = r]
         /\ l = "borrow" => r.server \in Server
         /\ r.attempts = req[t].attempts + 1 /\ r.retryCount = req[t].retryCount
  <2> DEFINE failed == IF req[t].kind = "void" THEN failedServers ELSE req[t].failed
             R(s) == [req[t] EXCEPT !.server = s, !.attempts = @ + 1]
             Q == [req[t] EXCEPT !.attempts = @ + 1]
  <2>1. ASSUME NEW s \in balancer \ failed,
               req' = [req EXCEPT ![t].server = s, ![t].attempts = @ + 1]
        PROVE  /\ R(s) \in Requests /\ req' = [req EXCEPT ![t] = R(s)]
               /\ R(s).server \in Server /\ R(s).attempts = req[t].attempts + 1
               /\ R(s).retryCount = req[t].retryCount
    BY <1>1, <2>1 DEF CallsOK, FactoryOK, Requests
  <2>2. ASSUME req' = [req EXCEPT ![t].attempts = @ + 1]
        PROVE  /\ Q \in Requests /\ req' = [req EXCEPT ![t] = Q]
               /\ Q.attempts = req[t].attempts + 1 /\ Q.retryCount = req[t].retryCount
    BY <1>1, <2>2, SMTT(30) DEF CallsOK, Requests
  <2>3. CASE \E s \in balancer \ failed :
                 /\ req' = [req EXCEPT ![t].server = s, ![t].attempts = @ + 1]
                 /\ Goto(t, "borrow")
    BY <2>1, <2>3
  <2>4. CASE Goto(t, "error") /\ req' = [req EXCEPT ![t].attempts = @ + 1]
    BY <2>2, <2>4
  <2> QED
    BY <2>3, <2>4 DEF NextServer
<1>3. FactoryOK' /\ SwitchOK'
  BY <1>1, <1>2 DEF FactoryOK, SwitchOK, CallsOK, Goto, factoryVars
<1>4. CallsOK'
  BY <1>1, <1>2 DEF CallsOK, Goto
<1>5. CountedOK' /\ AttemptsAreBounded'
  BY <1>1, <1>2 DEF CallsOK, Requests, CountedOK, AttemptsAreBounded, Goto
<1>6. LocalsOK'
  BY <1>1, <1>2 DEF CallsOK, Requests, LocalsOK, Goto, factoryVars
<1>7. ClosedPoolIsReplaced'
  BY <1>1, <1>2 DEF CallsOK, ClosedPoolIsReplaced, Goto, factoryVars
<1> QED
  BY <1>3, <1>4, <1>5, <1>6, <1>7

LEMMA BorrowKeeps ==
    ASSUME IInv, NEW t \in Thread, Borrow(t)
    PROVE  IInv'
<1> USE DEF IInv, TypeOK, Borrow, Goto, factoryVars
<1>1. FactoryOK'
  BY DEF FactoryOK, CallsOK, LocalsOK, SetServers, NoteFailed, Handle
<1>2. CallsOK'
  <2>0. req[t] \in Requests
    BY DEF CallsOK
  <2>1. PICK x \in (IF t \in dangling THEN Server ELSE {req[t].server}) :
           \/ Goto(t, "error") /\ req' = [req EXCEPT ![t].server = None]
           \/ Goto(t, "execute") /\ req' = [req EXCEPT ![t].server = x]
           \/ Retry(t, x)
    OBVIOUS
  <2>2. x \in Server
    BY DEF LocalsOK
  <2>3. CASE Retry(t, x)
    BY <2>2, <2>3, HandlerTypes DEF CallsOK
  <2>4. CASE Goto(t, "error") /\ req' = [req EXCEPT ![t].server = None]
    BY <2>0, <2>4, RequestUpdates DEF CallsOK
  <2>5. CASE Goto(t, "execute") /\ req' = [req EXCEPT ![t].server = x]
    BY <2>0, <2>2, <2>5, RequestUpdates DEF CallsOK
  <2> QED
    BY <2>1, <2>3, <2>4, <2>5
<1>3. CountedOK' /\ AttemptsAreBounded'
  <2>0. req[t] \in Requests
    BY DEF CallsOK
  <2>1. PICK x \in (IF t \in dangling THEN Server ELSE {req[t].server}) :
           \/ Goto(t, "error") /\ req' = [req EXCEPT ![t].server = None]
           \/ Goto(t, "execute") /\ req' = [req EXCEPT ![t].server = x]
           \/ Retry(t, x)
    OBVIOUS
  <2>2. x \in Server
    BY DEF LocalsOK
  <2>3. CASE Retry(t, x)
    BY <2>2, <2>3, HandlerCounts
  <2>4. CASE Goto(t, "error") /\ req' = [req EXCEPT ![t].server = None]
    BY <2>0, <2>4, SameCounts, SameFields
  <2>5. CASE Goto(t, "execute") /\ req' = [req EXCEPT ![t].server = x]
    BY <2>0, <2>5, SameCounts, SameFields
  <2> QED
    BY <2>1, <2>3, <2>4, <2>5
<1>4. LocalsOK'
  BY DEF FactoryOK, CallsOK, Requests, LocalsOK, Handle, Retry, Return, NoRequest, Request
<1>5. SwitchOK' /\ ClosedPoolIsReplaced'
  BY DEF FactoryOK, CallsOK, LocalsOK, SwitchOK, ClosedPoolIsReplaced, SetServers, Handle, Retry, Return
<1> QED
  BY <1>1, <1>2, <1>3, <1>4, <1>5

LEMMA ReadHeaderKeeps ==
    ASSUME IInv, NEW t \in Thread, ReadHeader(t)
    PROVE  IInv'
<1> USE DEF IInv, TypeOK, ReadHeader, Goto, factoryVars
<1>1. FactoryOK'
  BY DEF FactoryOK, CallsOK, LocalsOK, SetServers, NoteFailed, Handle
<1>2. CallsOK'
  <2>0. req[t] \in Requests
    BY DEF CallsOK
  <2>1. req[t].server \in Server
    BY DEF LocalsOK
  <2>2. CASE Retry(t, req[t].server) \/ Return(t)
    BY <2>1, <2>2, HandlerTypes DEF CallsOK
  <2>3. ASSUME NEW S \in SUBSET Server, req' = [req EXCEPT ![t].view = S], Goto(t, "topology")
        PROVE  CallsOK'
    BY <2>0, <2>3, RequestUpdates DEF CallsOK
  <2>4. CASE Goto(t, "answer") /\ UNCHANGED req
    BY <2>4 DEF CallsOK
  <2> QED
    BY <2>2, <2>3, <2>4 DEF Handle
<1>3. CountedOK' /\ AttemptsAreBounded'
  <2>0. req[t] \in Requests
    BY DEF CallsOK
  <2>1. req[t].server \in Server
    BY DEF LocalsOK
  <2>2. CASE Retry(t, req[t].server) \/ Return(t)
    BY <2>1, <2>2, HandlerCounts
  <2>3. ASSUME NEW S, req' = [req EXCEPT ![t].view = S], Goto(t, "topology")
        PROVE  CountedOK' /\ AttemptsAreBounded'
    BY <2>0, <2>3, SameCounts, SameFields
  <2>4. CASE Goto(t, "answer") /\ UNCHANGED req
    BY <2>4 DEF CallsOK, CountedOK, AttemptsAreBounded
  <2> QED
    BY <2>2, <2>3, <2>4 DEF Handle
<1>4. LocalsOK'
  BY DEF FactoryOK, CallsOK, Requests, LocalsOK, Handle, Retry, Return, NoRequest, Request
<1>5. SwitchOK' /\ ClosedPoolIsReplaced'
  BY DEF FactoryOK, CallsOK, LocalsOK, SwitchOK, ClosedPoolIsReplaced, SetServers, Handle, Retry, Return
<1> QED
  BY <1>1, <1>2, <1>3, <1>4, <1>5

LEMMA UpdateServersKeeps ==
    ASSUME IInv, NEW t \in Thread, UpdateServers(t)
    PROVE  IInv'
<1> USE DEF IInv, TypeOK, UpdateServers, Goto, factoryVars
<1>1. FactoryOK'
  BY DEF FactoryOK, CallsOK, Requests, SetServers
<1>2. CallsOK'
  <2>0. req[t] \in Requests
    BY DEF CallsOK
  <2> QED
    BY <2>0, RequestUpdates DEF CallsOK, SetServers
<1>3. CountedOK' /\ AttemptsAreBounded'
  <2>0. req[t] \in Requests
    BY DEF CallsOK
  <2> QED
    BY <2>0, SameCounts, SameFields
<1>4. LocalsOK'
  BY DEF FactoryOK, CallsOK, Requests, LocalsOK, Handle, Retry, Return, NoRequest, Request
<1>5. SwitchOK' /\ ClosedPoolIsReplaced'
  BY DEF FactoryOK, CallsOK, LocalsOK, SwitchOK, ClosedPoolIsReplaced, SetServers, Handle, Retry, Return
<1> QED
  BY <1>1, <1>2, <1>3, <1>4, <1>5

LEMMA UpdateServersThrowsKeeps ==
    ASSUME IInv, NEW t \in Thread, UpdateServersThrows(t)
    PROVE  IInv'
<1> USE DEF IInv, TypeOK, UpdateServersThrows, Goto, factoryVars
<1>1. FactoryOK'
  BY DEF FactoryOK, CallsOK, Requests, NoteFailed, Handle
<1>2. CallsOK'
  <2>0. req[t] \in Requests
    BY DEF CallsOK
  <2>1. PICK x \in req[t].view : Handle(t, x)
    OBVIOUS
  <2>2. x \in Server
    BY <2>0 DEF Requests
  <2> QED
    BY <2>1, <2>2, HandlerTypes DEF Handle, CallsOK
<1>3. CountedOK' /\ AttemptsAreBounded'
  <2>0. req[t] \in Requests
    BY DEF CallsOK
  <2>1. PICK x \in req[t].view : Handle(t, x)
    OBVIOUS
  <2>2. x \in Server
    BY <2>0 DEF Requests
  <2> QED
    BY <2>1, <2>2, HandlerCounts DEF Handle
<1>4. LocalsOK'
  BY DEF FactoryOK, CallsOK, Requests, LocalsOK, Handle, Retry, Return, NoRequest, Request
<1>5. SwitchOK' /\ ClosedPoolIsReplaced'
  BY DEF FactoryOK, CallsOK, LocalsOK, SwitchOK, ClosedPoolIsReplaced, SetServers, Handle, Retry, Return
<1> QED
  BY <1>1, <1>2, <1>3, <1>4, <1>5

LEMMA AnswerKeeps ==
    ASSUME IInv, NEW t \in Thread, Answer(t)
    PROVE  IInv'
<1> USE DEF IInv, TypeOK, Answer, Goto, factoryVars
<1>1. FactoryOK'
  BY DEF FactoryOK, CallsOK, LocalsOK, SetServers, NoteFailed, Handle
<1>2. CallsOK'
  <2>0. req[t] \in Requests
    BY DEF CallsOK
  <2>1. req[t].server \in Server
    BY DEF LocalsOK
  <2>2. CASE Retry(t, req[t].server) \/ Return(t)
    BY <2>1, <2>2, HandlerTypes DEF CallsOK
  <2>3. CASE Goto(t, "error") /\ req' = [req EXCEPT ![t].server = None]
    BY <2>0, <2>3, RequestUpdates DEF CallsOK
  <2> QED
    BY <2>2, <2>3 DEF Handle
<1>3. CountedOK' /\ AttemptsAreBounded'
  <2>0. req[t] \in Requests
    BY DEF CallsOK
  <2>1. req[t].server \in Server
    BY DEF LocalsOK
  <2>2. CASE Retry(t, req[t].server) \/ Return(t)
    BY <2>1, <2>2, HandlerCounts
  <2>3. CASE Goto(t, "error") /\ req' = [req EXCEPT ![t].server = None]
    BY <2>0, <2>3, SameCounts, SameFields
  <2> QED
    BY <2>2, <2>3 DEF Handle
<1>4. LocalsOK'
  BY DEF FactoryOK, CallsOK, Requests, LocalsOK, Handle, Retry, Return, NoRequest, Request
<1>5. SwitchOK' /\ ClosedPoolIsReplaced'
  BY DEF FactoryOK, CallsOK, LocalsOK, SwitchOK, ClosedPoolIsReplaced, SetServers, Handle, Retry, Return
<1> QED
  BY <1>1, <1>2, <1>3, <1>4, <1>5

LEMMA LogErrorKeeps ==
    ASSUME IInv, NEW t \in Thread, LogError(t)
    PROVE  IInv'
<1> USE DEF IInv, TypeOK
<1>1. /\ pc[t] = "error" /\ UNCHANGED <<factoryVars, dangling, calls>>
      /\ req[t] \in Requests
  BY DEF LogError, CallsOK
<1>2. PICK l \in {"switch", "next"}, r \in Requests :
         /\ Goto(t, l) /\ req' = [req EXCEPT ![t] = r]
         /\ r.attempts = req[t].attempts
         /\ l = "switch" => r.retryCount = req[t].retryCount
         /\ l = "next" => /\ r.retryCount = req[t].retryCount + 1
                          /\ r.retryCount < MaxRetries
  <2>1. CASE req[t].retryCount >= MaxRetries - 1
    <3>1. Goto(t, "switch") /\ req' = [req EXCEPT ![t] = req[t]]
      BY <1>1, <2>1 DEF LogError, CallsOK
    <3> QED
      BY <1>1, <3>1
  <2>2. CASE ~(req[t].retryCount >= MaxRetries - 1)
    <3> DEFINE r == [req[t] EXCEPT !.retryCount = @ + 1]
    <3>1. Goto(t, "next") /\ req' = [req EXCEPT ![t] = r]
      BY <1>1, <2>2 DEF LogError, CallsOK
    <3>2. /\ r \in Requests /\ r.attempts = req[t].attempts
          /\ r.retryCount = req[t].retryCount + 1 /\ r.retryCount < MaxRetries
      BY <1>1, <2>2 DEF Requests
    <3> QED
      BY <3>1, <3>2
  <2> QED
    BY <2>1, <2>2
<1>3. FactoryOK' /\ SwitchOK'
  BY <1>1, <1>2 DEF FactoryOK, SwitchOK, CallsOK, Goto, factoryVars
<1>4. CallsOK'
  BY <1>1, <1>2 DEF CallsOK, Goto
<1>5. CountedOK' /\ AttemptsAreBounded'
  BY <1>1, <1>2 DEF CallsOK, Requests, CountedOK, AttemptsAreBounded, Goto
<1>6. LocalsOK'
  BY <1>1, <1>2 DEF CallsOK, LocalsOK, Goto, factoryVars
<1>7. ClosedPoolIsReplaced'
  BY <1>1, <1>2 DEF CallsOK, ClosedPoolIsReplaced, Goto, factoryVars
<1> QED
  BY <1>3, <1>4, <1>5, <1>6, <1>7

LEMMA NextClusterKeeps ==
    ASSUME IInv, NEW t \in Thread, NextCluster(t)
    PROVE  IInv'
<1> USE DEF IInv, TypeOK
<1>1. /\ pc[t] = "switch" /\ UNCHANGED <<factoryVars, dangling, calls>>
      /\ req[t] \in Requests
  BY DEF NextCluster, CallsOK
<1>2. PICK l \in {"switch", "external"}, r \in Requests :
         /\ Goto(t, l) /\ req' = [req EXCEPT ![t] = r]
         /\ r.attempts = req[t].attempts /\ r.retryCount = req[t].retryCount
         /\ l = "external" => r.target \in Cluster
  <2>1. PICK c \in Cluster :
           \/ UNCHANGED pc /\ req' = [req EXCEPT ![t].visited = @ \cup {c}]
           \/ /\ req' = [req EXCEPT ![t].visited = @ \cup {c}, ![t].target = c]
              /\ Goto(t, "external")
    BY DEF NextCluster
  <2> DEFINE V == req[t].visited \cup {c}
             Q == [req[t] EXCEPT !.visited = V]
             R == [req[t] EXCEPT !.visited = V, !.target = c]
  <2>2. V \in SUBSET Cluster
    BY <1>1 DEF Requests
  <2>3. /\ Q \in Requests /\ Q.attempts = req[t].attempts
        /\ Q.retryCount = req[t].retryCount
    BY <1>1, <2>2 DEF Requests
  <2>4. /\ R \in Requests /\ R.attempts = req[t].attempts
        /\ R.retryCount = req[t].retryCount /\ R.target = c
    BY <1>1, <2>2 DEF Requests
  <2>5. CASE UNCHANGED pc /\ req' = [req EXCEPT ![t].visited = @ \cup {c}]
    <3>1. Goto(t, "switch") /\ req' = [req EXCEPT ![t] = Q]
      BY <1>1, <2>5 DEF Goto, CallsOK
    <3> QED
      BY <2>3, <3>1
  <2>6. CASE /\ req' = [req EXCEPT ![t].visited = @ \cup {c}, ![t].target = c]
             /\ Goto(t, "external")
    <3>1. req' = [req EXCEPT ![t] = R]
      BY <1>1, <2>6 DEF CallsOK
    <3> QED
      BY <2>4, <2>6, <3>1
  <2> QED
    BY <2>1, <2>5, <2>6
<1>3. FactoryOK' /\ SwitchOK'
  BY <1>1, <1>2 DEF FactoryOK, SwitchOK, CallsOK, Goto, factoryVars
<1>4. CallsOK'
  BY <1>1, <1>2 DEF CallsOK, Goto
<1>5. CountedOK' /\ AttemptsAreBounded'
  BY <1>1, <1>2, SameCounts
<1>6. LocalsOK'
  BY <1>1, <1>2 DEF CallsOK, LocalsOK, Goto, factoryVars
<1>7. ClosedPoolIsReplaced'
  BY <1>1, <1>2 DEF CallsOK, ClosedPoolIsReplaced, Goto, factoryVars
<1> QED
  BY <1>3, <1>4, <1>5, <1>6, <1>7

LEMMA PingExternalServerKeeps ==
    ASSUME IInv, NEW t \in Thread, PingExternalServer(t)
    PROVE  IInv'
<1> USE DEF IInv, TypeOK
<1>1. /\ pc[t] = "external" /\ UNCHANGED <<failedServers, closed, lock, calls>>
      /\ req[t] \in Requests /\ req[t].target \in Cluster
  BY DEF PingExternalServer, CallsOK, LocalsOK
<1>2. /\ known' \subseteq Server /\ balancer' \subseteq Server
      /\ dangling' \subseteq Thread
      /\ UNCHANGED <<known, balancer>> \/ balancer' = known'
  BY <1>1 DEF PingExternalServer, SetServers, FactoryOK, CallsOK
<1>3. PICK l \in {"switch", "close"}, r \in Requests :
         /\ Goto(t, l) /\ req' = [req EXCEPT ![t] = r]
         /\ r.attempts = req[t].attempts /\ r.retryCount = req[t].retryCount
         /\ l = "close" => r.target \in Cluster /\ currCluster' = r.target
         /\ l = "switch" => currCluster' = currCluster
  <2> DEFINE Q == [req[t] EXCEPT !.visited = {}]
             R == [req[t] EXCEPT !.target = None]
  <2>1. /\ Q \in Requests /\ Q.attempts = req[t].attempts
        /\ Q.retryCount = req[t].retryCount /\ Q.target = req[t].target
    BY <1>1 DEF Requests
  <2>2. /\ R \in Requests /\ R.attempts = req[t].attempts
        /\ R.retryCount = req[t].retryCount
    BY <1>1 DEF Requests
  <2>3. CASE /\ currCluster' = req[t].target /\ Goto(t, "close")
             /\ req' = [req EXCEPT ![t].visited = {}]
    <3>1. req' = [req EXCEPT ![t] = Q]
      BY <2>3 DEF CallsOK
    <3> QED
      BY <1>1, <2>1, <2>3, <3>1
  <2>4. CASE /\ currCluster' = currCluster /\ Goto(t, "switch")
             /\ req' = [req EXCEPT ![t].target = None]
    <3>1. req' = [req EXCEPT ![t] = R]
      BY <2>4 DEF CallsOK
    <3> QED
      BY <2>2, <2>4, <3>1
  <2> QED
    BY <2>3, <2>4 DEF PingExternalServer
<1>4. FactoryOK'
  BY <1>1, <1>2, <1>3 DEF FactoryOK
<1>5. CallsOK'
  BY <1>1, <1>2, <1>3 DEF CallsOK, Goto
<1>6. CountedOK' /\ AttemptsAreBounded'
  BY <1>1, <1>3, SameCounts
<1>7. LocalsOK'
  BY <1>1, <1>3 DEF CallsOK, LocalsOK, Goto
<1>8. SwitchOK'
  BY <1>1, <1>2, <1>3 DEF SwitchOK, CallsOK, Goto
<1>9. ClosedPoolIsReplaced'
  BY <1>1, <1>3 DEF CallsOK, ClosedPoolIsReplaced, Goto
<1> QED
  BY <1>4, <1>5, <1>6, <1>7, <1>8, <1>9

LEMMA NoNextClusterKeeps ==
    ASSUME IInv, NEW t \in Thread, NoNextCluster(t)
    PROVE  IInv'
<1> USE DEF IInv, TypeOK, NoNextCluster, Goto, factoryVars
<1>1. FactoryOK'
  BY DEF FactoryOK
<1>2. CallsOK'
  BY NoRequestTyped DEF Return, CallsOK
<1>3. CountedOK' /\ AttemptsAreBounded'
  BY DEF CallsOK, CountedOK, AttemptsAreBounded, Return, NoRequest, Request
<1>4. LocalsOK'
  BY DEF FactoryOK, CallsOK, Requests, LocalsOK, Return, NoRequest, Request
<1>5. SwitchOK' /\ ClosedPoolIsReplaced'
  BY DEF FactoryOK, CallsOK, LocalsOK, SwitchOK, ClosedPoolIsReplaced, SetServers, Return
<1> QED
  BY <1>1, <1>2, <1>3, <1>4, <1>5

LEMMA CloseKeeps ==
    ASSUME IInv, NEW t \in Thread, Close(t)
    PROVE  IInv'
<1> USE DEF IInv, TypeOK, Close, Goto, factoryVars
<1>1. FactoryOK'
  BY DEF FactoryOK, CallsOK, LocalsOK, SetServers, NoteFailed, Handle
<1>2. CallsOK'
  BY DEF CallsOK, SetServers
<1>3. CountedOK' /\ AttemptsAreBounded'
  BY DEF CallsOK, CountedOK, AttemptsAreBounded
<1>4. LocalsOK'
  BY DEF FactoryOK, CallsOK, Requests, LocalsOK, Handle, Retry, Return, NoRequest, Request
<1>5. SwitchOK' /\ ClosedPoolIsReplaced'
  BY DEF FactoryOK, CallsOK, LocalsOK, SwitchOK, ClosedPoolIsReplaced, SetServers, Handle, Retry, Return
<1> QED
  BY <1>1, <1>2, <1>3, <1>4, <1>5

LEMMA ResetKeeps ==
    ASSUME IInv, NEW t \in Thread, Reset(t)
    PROVE  IInv'
<1> USE DEF IInv, TypeOK, Reset, Goto, factoryVars
<1>1. FactoryOK'
  BY DEF FactoryOK, CallsOK, LocalsOK, SetServers, NoteFailed, Handle
<1>2. CallsOK'
  BY DEF CallsOK, SetServers
<1>3. CountedOK' /\ AttemptsAreBounded'
  BY DEF CallsOK, CountedOK, AttemptsAreBounded
<1>4. LocalsOK'
  BY DEF FactoryOK, CallsOK, Requests, LocalsOK, Handle, Retry, Return, NoRequest, Request
<1>5. SwitchOK' /\ ClosedPoolIsReplaced'
  BY DEF FactoryOK, CallsOK, LocalsOK, SwitchOK, ClosedPoolIsReplaced, SetServers, Handle, Retry, Return
<1> QED
  BY <1>1, <1>2, <1>3, <1>4, <1>5

LEMMA NewBalancerKeeps ==
    ASSUME IInv, NEW t \in Thread, NewBalancer(t)
    PROVE  IInv'
<1> USE DEF IInv, TypeOK, NewBalancer, Goto, factoryVars
<1>1. FactoryOK'
  BY DEF FactoryOK, CallsOK, LocalsOK, SetServers, NoteFailed, Handle
<1>2. CallsOK'
  BY DEF CallsOK, SetServers
<1>3. CountedOK' /\ AttemptsAreBounded'
  BY DEF CallsOK, CountedOK, AttemptsAreBounded
<1>4. LocalsOK'
  BY DEF FactoryOK, CallsOK, Requests, LocalsOK, Handle, Retry, Return, NoRequest, Request
<1>5. SwitchOK' /\ ClosedPoolIsReplaced'
  BY DEF FactoryOK, CallsOK, LocalsOK, SwitchOK, ClosedPoolIsReplaced, SetServers, Handle, Retry, Return
<1> QED
  BY <1>1, <1>2, <1>3, <1>4, <1>5

LEMMA PreparePoolKeeps ==
    ASSUME IInv, NEW t \in Thread, PreparePool(t)
    PROVE  IInv'
<1> USE DEF IInv, TypeOK, PreparePool, Goto, factoryVars
<1>1. FactoryOK'
  BY DEF FactoryOK, CallsOK, LocalsOK, SetServers, NoteFailed, Handle
<1>2. CallsOK'
  BY NoRequestTyped DEF Return, CallsOK
<1>3. CountedOK' /\ AttemptsAreBounded'
  BY DEF CallsOK, CountedOK, AttemptsAreBounded, Return, NoRequest, Request
<1>4. LocalsOK'
  BY DEF FactoryOK, CallsOK, Requests, LocalsOK, Handle, Retry, Return, NoRequest, Request
<1>5. SwitchOK' /\ ClosedPoolIsReplaced'
  BY DEF FactoryOK, CallsOK, LocalsOK, SwitchOK, ClosedPoolIsReplaced, SetServers, Handle, Retry, Return
<1> QED
  BY <1>1, <1>2, <1>3, <1>4, <1>5

LEMMA InstallKeeps ==
    ASSUME IInv, NEW t \in Thread, Install(t)
    PROVE  IInv'
<1> USE DEF IInv, TypeOK, Install, Goto, factoryVars
<1>1. FactoryOK'
  BY DEF FactoryOK, CallsOK, LocalsOK, SetServers, NoteFailed, Handle
<1>2. CallsOK'
  BY DEF CallsOK, SetServers
<1>3. CountedOK' /\ AttemptsAreBounded'
  BY DEF CallsOK, CountedOK, AttemptsAreBounded
<1>4. LocalsOK'
  BY DEF FactoryOK, CallsOK, Requests, LocalsOK, Handle, Retry, Return, NoRequest, Request
<1>5. SwitchOK' /\ ClosedPoolIsReplaced'
  BY DEF FactoryOK, CallsOK, LocalsOK, SwitchOK, ClosedPoolIsReplaced, SetServers, Handle, Retry, Return
<1> QED
  BY <1>1, <1>2, <1>3, <1>4, <1>5

LEMMA PingServersKeeps ==
    ASSUME IInv, NEW t \in Thread, PingServers(t)
    PROVE  IInv'
<1> USE DEF IInv, TypeOK, PingServers, Goto, factoryVars
<1>1. FactoryOK'
  BY DEF FactoryOK, CallsOK, LocalsOK, SetServers, NoteFailed, Handle
<1>2. CallsOK'
  <2>0. req[t] \in Requests
    BY DEF CallsOK
  <2>1. CASE Return(t)
    BY <2>1, NoRequestTyped DEF Return, CallsOK, SetServers
  <2>2. CASE /\ req' = [req EXCEPT ![t].retryCount = 1, ![t].attempts = 0, ![t].target = None]
             /\ Goto(t, "next") /\ 1 <= MaxRetries
    BY <2>0, <2>2, RequestUpdates DEF CallsOK, SetServers
  <2> QED
    BY <2>1, <2>2
<1>3. CountedOK' /\ AttemptsAreBounded'
  <2>1. CASE Return(t)
    BY <2>1 DEF CallsOK, CountedOK, AttemptsAreBounded, Return, NoRequest, Request
  <2>2. CASE /\ req' = [req EXCEPT ![t].retryCount = 1, ![t].attempts = 0, ![t].target = None]
             /\ Goto(t, "next") /\ 1 <= MaxRetries
    <3>1. /\ req'[t].attempts = 0 /\ req'[t].retryCount = 1
          /\ \A u \in Thread \ {t} : req'[u] = req[u]
      BY <2>2 DEF CallsOK, Requests
    <3> QED
      BY <2>2, <3>1 DEF CallsOK, CountedOK, AttemptsAreBounded
  <2> QED
    BY <2>1, <2>2
<1>4. LocalsOK'
  BY DEF FactoryOK, CallsOK, Requests, LocalsOK, Handle, Retry, Return, NoRequest, Request
<1>5. SwitchOK' /\ ClosedPoolIsReplaced'
  BY DEF FactoryOK, CallsOK, LocalsOK, SwitchOK, ClosedPoolIsReplaced, SetServers, Handle, Retry, Return
<1> QED
  BY <1>1, <1>2, <1>3, <1>4, <1>5

LEMMA CallKeeps ==
    ASSUME IInv, NEW t \in Thread, NEW k \in {"value", "void", "switch"},
           NEW c \in Cluster \cup {None}, Call(t, k, c), UNCHANGED <<factoryVars, dangling>>,
           Goto(t, "next") \/ (c \in Cluster /\ Goto(t, "reset"))
    PROVE  IInv'
<1> USE DEF IInv, TypeOK, Call, Goto
<1>1. Request(k, c) \in Requests
  BY DEF Request, Requests
<1>2. /\ Request(k, c).attempts = 0 /\ Request(k, c).retryCount = 0
      /\ Request(k, c).target = c
  BY DEF Request
<1>3. FactoryOK' /\ SwitchOK'
  BY DEF FactoryOK, SwitchOK, CallsOK, factoryVars
<1>4. CallsOK'
  BY <1>1 DEF CallsOK
<1>5. CountedOK' /\ AttemptsAreBounded'
  BY <1>2 DEF CallsOK, CountedOK, AttemptsAreBounded
<1>6. LocalsOK'
  BY <1>2 DEF CallsOK, LocalsOK, factoryVars
<1>7. ClosedPoolIsReplaced'
  BY DEF CallsOK, ClosedPoolIsReplaced, factoryVars
<1> QED
  BY <1>3, <1>4, <1>5, <1>6, <1>7

LEMMA StutterKeeps == IInv /\ UNCHANGED vars => IInv'
BY DEF IInv, TypeOK, FactoryOK, CallsOK, CountedOK, AttemptsAreBounded, LocalsOK, SwitchOK,
       ClosedPoolIsReplaced, vars

LEMMA NextKeeps == IInv /\ [Next]_vars => IInv'
<1> SUFFICES ASSUME IInv, [Next]_vars PROVE IInv'
  OBVIOUS
<1>1. ASSUME NEW t \in Thread, Step(t) PROVE IInv'
  BY <1>1, NextServerKeeps, BorrowKeeps, ReadHeaderKeeps, UpdateServersKeeps,
     UpdateServersThrowsKeeps, AnswerKeeps, LogErrorKeeps, NextClusterKeeps, PingExternalServerKeeps,
     NoNextClusterKeeps, CloseKeeps, ResetKeeps, NewBalancerKeeps, PreparePoolKeeps, InstallKeeps,
     PingServersKeeps DEF Step
<1>2. ASSUME NEW t \in Thread, Start(t) PROVE IInv'
  <2>1. ASSUME NEW k \in {"value", "void"}, Execute(t, k) PROVE IInv'
    <3>1. Call(t, k, None) /\ Goto(t, "next") /\ UNCHANGED <<factoryVars, dangling>>
      BY <2>1 DEF Execute
    <3>2. k \in {"value", "void", "switch"} /\ None \in Cluster \cup {None}
      OBVIOUS
    <3>3. Goto(t, "next") \/ (None \in Cluster /\ Goto(t, "reset"))
      BY <3>1
    <3> QED
      BY <3>1, <3>2, <3>3, CallKeeps, Zenon
  <2>2. ASSUME NEW c \in Cluster, ClusterSwitchTo(t, c) PROVE IInv'
    BY <2>2, CallKeeps DEF ClusterSwitchTo
  <2> QED
    BY <1>2, <2>1, <2>2 DEF Start
<1> QED
  BY <1>1, <1>2, StutterKeeps DEF Next, Done

-----------------------------------------------------------------------------
\* The inductive invariant of the factory and its requests.
THEOREM FailoverInvariant == Spec => []IInv
BY Initially, NextKeeps, PTL DEF Spec

\* RetryOnFailureOperation::execute makes at most maxRetries attempts on one cluster, and
\* retryCount stays below the limit the loop tests.
THEOREM AttemptsBounded == Spec => [](TypeOK /\ AttemptsAreBounded)
<1>1. IInv => TypeOK /\ AttemptsAreBounded
  BY DEF IInv
<1> QED
  BY <1>1, FailoverInvariant, PTL

\* clusterSwitch and updateServers keep the balancer's servers and the topology's together.
THEOREM BalancerAgrees == Spec => []BalancerFollowsTopology
<1>1. IInv => BalancerFollowsTopology
  BY DEF IInv, SwitchOK, LocalsOK, BalancerFollowsTopology
<1> QED
  BY <1>1, FailoverInvariant, PTL

\* A pool that clusterSwitch closed is replaced, however many threads switch.
THEOREM PoolsAreReplaced == Spec => []ClosedPoolIsReplaced
<1>1. IInv => ClosedPoolIsReplaced
  BY DEF IInv
<1> QED
  BY <1>1, FailoverInvariant, PTL

=============================================================================
