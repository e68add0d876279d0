------------------------- MODULE MCConcurrentQueue --------------------------
(* Instances of ConcurrentQueue for TLC. *)
EXTENDS ConcurrentQueue
=============================================================================
