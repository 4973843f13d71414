------------------------------ MODULE Kernels ------------------------------
(***************************************************************************)
(* The kernels whose threads work together, one of them at a time: the     *)
(* program launches all of them into one stream.                           *)
(***************************************************************************)
EXTENDS BlockReduce, Argmax, Gemm

ReduceIdle ==
    /\ kernel = "none" /\ shared = <<>> /\ pc = [w \in Warps |-> "done"]
    /\ call = [w \in Warps |-> 0] /\ loaded = <<>> /\ result = <<>> /\ scores = <<>>

ArgmaxIdle ==
    /\ logits = <<>> /\ col = <<>> /\ s = <<>> /\ argmax_pc = [t \in Threads |-> "done"]
    /\ stride = 0 /\ output = NoOutput

GemmIdle ==
    /\ launch = <<>> /\ block = 0 /\ sA = <<>> /\ sB = <<>>
    /\ gemm_pc = <<>> /\ bkIdx = <<>> /\ acc = <<>> /\ C = <<>>

Init ==
    \/ ReduceInit /\ ArgmaxIdle /\ GemmIdle
    \/ ArgmaxInit /\ ReduceIdle /\ GemmIdle
    \/ GemmInit /\ ReduceIdle /\ ArgmaxIdle

Next ==
    \/ kernel # "none" /\ ReduceNext /\ UNCHANGED <<argmax_vars, gemm_vars>>
    \/ logits # <<>> /\ ArgmaxNext /\ UNCHANGED <<reduce_vars, gemm_vars>>
    \/ launch # <<>> /\ GemmNext /\ UNCHANGED <<reduce_vars, argmax_vars>>

vars == <<reduce_vars, argmax_vars, gemm_vars>>

Spec == Init /\ [][Next]_vars
=============================================================================
