------------------------ MODULE MCRemoteCacheManager ------------------------
(* RemoteCacheManager on a small instance. *)
EXTENDS RemoteCacheManager

MCClusters == <<"A", "Z">>
MCServerLists == {<<[host |-> "a", port |-> 1], [host |-> "b", port |-> NoPort]>>,
                  <<[host |-> "b", port |-> NoPort], [host |-> "a", port |-> 2]>>}

=============================================================================
