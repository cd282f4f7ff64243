-------------------------- MODULE MCConnectionPool --------------------------
(* Instances of ConnectionPool for TLC. *)
EXTENDS ConnectionPool, TLC

\* A limit that is switched off.
Unlimited == -1

Symmetry == Permutations(Thread) \cup Permutations(Key) \cup Permutations(Id)

=============================================================================
