---------------------------- MODULE MCNearCache ----------------------------
(* Instances of NearCache for TLC. *)
EXTENDS NearCache, TLC

Symmetry == Permutations(Thread) \cup Permutations(Key)

=============================================================================
