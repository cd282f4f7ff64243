--------------------------- MODULE MCBlockingQueue ---------------------------
(* The instance of BlockingQueue TLC checks; its values are in BlockingQueue.cfg. *)
EXTENDS BlockingQueue

==============================================================================
