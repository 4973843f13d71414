---------------------------- MODULE MCScheduler ----------------------------
(* Requests are interchangeable in the safety runs; no action orders them. *)
EXTENDS Scheduler
LOCAL INSTANCE TLC

Symmetry == Permutations(Requests)
=============================================================================
