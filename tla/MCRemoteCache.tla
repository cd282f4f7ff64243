--------------------------- MODULE MCRemoteCache ----------------------------
(* RemoteCache on small instances. *)
EXTENDS RemoteCache

CONSTANTS t1, k1, k2

MCOwnCache == [t \in Thread |-> t]
MCOneServerPerKey == [k \in Key |-> k]
MCDuration == {<<0, "SECONDS">>, <<1001, "MILLISECONDS">>}
MCCompatOps == DOMAIN OpCode \ {"getAll"}

=============================================================================
