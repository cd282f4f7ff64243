----------------------------- MODULE MCFailover -----------------------------
(* The instance of Failover for TLC: a cluster of two servers, and one of  *)
(* a single server that the two have in common.                            *)
EXTENDS Failover, TLC

CONSTANTS A, B, s1, s2

Overlapping == (A :> {s1, s2}) @@ (B :> {s2})

=============================================================================
