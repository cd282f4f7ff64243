----------------------------- MODULE MCTopology -----------------------------
(* Topology on small instances. *)
EXTENDS Topology

CONSTANTS t1, t2, s1, s2

\* A server joins, then the first one leaves.
MCMembers == <<{s1}, {s1, s2}, {s2}>>

\* Each thread has its own cache, or both use one.
MCOwnCache == [t \in Thread |-> IF t = t1 THEN "c1" ELSE "c2"]
MCOneCache == [t \in Thread |-> "c1"]

=============================================================================
