------------------------------ MODULE MCEvents ------------------------------
(* Events on a small instance: one client listener, one counter with a     *)
(* listener, and a bounded and a weak configuration.                       *)
EXTENDS Events

MCConfig ==
    {CounterConfiguration(0, 0, 1, 0, "BOUNDED_STRONG", "VOLATILE"),
     CounterConfiguration(1, 0, 0, 8, "WEAK", "PERSISTENT")}

MCErrorOps ==
    {"addClientListener", "removeClientListener", "addListener", "removeListener",
     "addAndGet", "compareAndSwap"}

\* The hypotheses of EventsProofs about what the server sends and the counters.
ASSUME HypothesesHold == OneCounter /\ ServerEvents /\ ConfigsAgree

=============================================================================
