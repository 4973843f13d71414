----------------------------- MODULE MCKernels -----------------------------
(* Kernels with small tiles: the products of a model of width 4 with a hidden *)
(* width of 8 and 5 words.                                                    *)
EXTENDS Kernels

DecodeKernel == [BM |-> 1, BN |-> 3, BK |-> 3, TM |-> 1, TN |-> 1, VEC |-> 1]
GeneralKernel == [BM |-> 4, BN |-> 4, BK |-> 4, TM |-> 2, TN |-> 2, VEC |-> 4]

ModelShapes == {<<4, 12>>, <<4, 4>>, <<4, 8>>, <<8, 4>>}

\* qkv, the logits and fc2 for one row and more.
ModelLaunches == {<<m, 12, 4>> : m \in {1, 4}} \cup {<<m, 5, 4>> : m \in {1, 3}}
                 \cup {<<m, 4, 8>> : m \in {1, 2, 4, 5}}
=============================================================================
