----------------------------- MODULE MCKvMemory -----------------------------
(* KvMemory on a small instance; requests are interchangeable. *)
EXTENDS KvMemory, TLC

Symmetry == Permutations(Requests)
=============================================================================
