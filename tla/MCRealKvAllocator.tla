------------------------- MODULE MCRealKvAllocator -------------------------
(* RealKvAllocator on a small instance; requests are interchangeable. *)
EXTENDS RealKvAllocator, TLC

Symmetry == Permutations(Requests)
=============================================================================
