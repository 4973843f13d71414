------------------------------- MODULE Sizes -------------------------------
(***************************************************************************)
(* The sizes of the model and of the KV pool, which the allocator, the     *)
(* model and the tests share (include/constants.h).                        *)
(***************************************************************************)
EXTENDS Integers

CONSTANTS GPT2_N_LAYERS, DEFAULT_KV_BLOCK_SIZE, DEFAULT_TOTAL_KV_BLOCKS

ASSUME SizesAssumption ==
    /\ {GPT2_N_LAYERS, DEFAULT_KV_BLOCK_SIZE} \subseteq Nat \ {0}
    /\ DEFAULT_TOTAL_KV_BLOCKS \in Nat

Layers == 1..GPT2_N_LAYERS

CeilDiv(a, b) == (a + b - 1) \div b
=============================================================================
