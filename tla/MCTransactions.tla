-------------------------- MODULE MCTransactions --------------------------
(* Transactions on small instances. *)
EXTENDS Transactions

CONSTANTS t1, t2

\* One cache returns previous values, the other does not.
MCForce == [c \in Cache |-> c = 1]

\* One thread's transactions span both caches, the other's compete for the first.
MCCachesOf == [t \in Thread |-> IF t = t1 THEN Cache ELSE {1}]
\* Writers outside transactions change the second cache, the other thread the first.
MCMaxVersion == [c \in Cache |-> c]
MCMaxAccess == [t \in Thread |-> IF t = t1 THEN 2 ELSE 1]

=============================================================================
