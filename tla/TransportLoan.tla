---------------------------- MODULE TransportLoan ----------------------------
(***************************************************************************)
(* What a connection pool promises to the threads that use it, whatever    *)
(* its queues, counters and limits: a transport is lent to one thread at a *)
(* time, only existing transports are lent, and nobody else destroys a     *)
(* transport that is lent while the pool is open.                          *)
(***************************************************************************)
CONSTANTS Thread, Transport, None

VARIABLES
    exists,   \* transports made and not destroyed
    lent,     \* what each thread holds
    open      \* the pool has not been shut down

loanVars == <<exists, lent, open>>

Lent == {lent[t] : t \in Thread} \ {None}

LoanInit == exists = {} /\ lent = [t \in Thread |-> None] /\ open = TRUE

\* Transports are made and destroyed; the lent ones survive while the pool is open.
Churn ==
    /\ exists' \subseteq Transport
    /\ (exists' \ exists) \cap Lent = {}
    /\ open' => Lent \cap exists \subseteq exists'
    /\ open' => open
    /\ UNCHANGED lent

\* While the pool is open only existing transports are lent, each to one thread.
Lend(t, tr) ==
    /\ lent[t] = None
    /\ tr \notin Lent
    /\ open => tr \in exists
    /\ lent' = [lent EXCEPT ![t] = tr]
    /\ UNCHANGED <<exists, open>>

\* A thread gives its transport up; at most that transport is destroyed.
TakeBack(t) ==
    /\ lent[t] # None
    /\ lent' = [lent EXCEPT ![t] = None]
    /\ exists' \in {exists, exists \ {lent[t]}}
    /\ UNCHANGED open

LoanNext ==
    \/ Churn
    \/ \E t \in Thread : TakeBack(t) \/ \E tr \in Transport : Lend(t, tr)

LoanSpec == LoanInit /\ [][LoanNext]_loanVars

==============================================================================
