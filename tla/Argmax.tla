------------------------------- MODULE Argmax -------------------------------
(***************************************************************************)
(* argmax_rows_kernel on one row of logits: every thread scans its columns, *)
(* then a tree reduction over shared memory, one barrier per level.  The   *)
(* threads of a level run in any order.  Logits are small integers, with   *)
(* -infinity and NaN, which compares false with everything.                *)
(***************************************************************************)
EXTENDS Integers, FiniteSetsExt

CONSTANTS ARGMAX_THREADS,   \* a power of two, at most the threads a block can have
          COLS,             \* columns of the row
          MAX_LOGIT         \* bound: the largest logit

ASSUME ArgmaxAssumption ==
    /\ ARGMAX_THREADS \in {1, 2, 4, 8, 16, 32, 64, 128, 256, 512, 1024}
    /\ {COLS, MAX_LOGIT} \subseteq Nat \ {0}

VARIABLES logits,   \* row_ptr
          col,      \* col[t]: the next column of thread t's scan
          s,        \* s[t]: best_val and best_idx of thread t, then s_val and s_idx
          argmax_pc,       \* argmax_pc[t]
          stride,   \* the stride of the level that runs
          output    \* output_tokens[row]

argmax_vars == <<logits, col, s, argmax_pc, stride, output>>

Threads == 0..(ARGMAX_THREADS - 1)
Columns == 0..(COLS - 1)
NegInf == -1
NaN == -2
NoOutput == -1

ArgmaxInit ==
    /\ logits \in [Columns -> {NegInf, NaN} \cup 0..MAX_LOGIT]
    /\ col = [t \in Threads |-> t]
    /\ s = [t \in Threads |-> [val |-> NegInf, idx |-> 0]]
    /\ argmax_pc = [t \in Threads |-> "scan"]
    /\ stride = ARGMAX_THREADS
    /\ output = NoOutput
-----------------------------------------------------------------------------
GreaterFloat(x, y) == x # NaN /\ y # NaN /\ x > y
EqualFloat(x, y) == x # NaN /\ y # NaN /\ x = y

better_value(new, old) ==  \* fault: no tie-break by index
    GreaterFloat(new.val, old.val)

better_pair(new, old) ==
    \/ GreaterFloat(new.val, old.val)
    \/ EqualFloat(new.val, old.val) /\ new.idx < old.idx

Better(new, old) == IF better_pair(new, old) THEN new ELSE old

\* One turn of the loop over the thread's columns: tid, tid + blockDim.x, ...
Scan(t) ==
    /\ argmax_pc[t] = "scan" /\ col[t] < COLS
    /\ s' = [s EXCEPT ![t] = Better([val |-> logits[col[t]], idx |-> col[t]], s[t])]
    /\ col' = [col EXCEPT ![t] = @ + ARGMAX_THREADS]
    /\ UNCHANGED <<logits, argmax_pc, stride, output>>

\* The end of the loop: what it found is in shared memory.
EndScan(t) ==
    /\ argmax_pc[t] = "scan" /\ col[t] >= COLS
    /\ argmax_pc' = [argmax_pc EXCEPT ![t] = "sync"]
    /\ UNCHANGED <<logits, col, s, stride, output>>

\* One level: the lower half takes what is better in the upper half.
TreeStep(t) ==
    /\ argmax_pc[t] = "step"
    /\ s' = IF t < stride THEN [s EXCEPT ![t] = Better(s[t + stride], s[t])] ELSE s
    /\ argmax_pc' = [argmax_pc EXCEPT ![t] = "sync"]
    /\ UNCHANGED <<logits, col, stride, output>>

\* __syncthreads(), then stride >>= 1 or the end of the loop.
TreeSync ==
    /\ \A t \in Threads : argmax_pc[t] = "sync"
    /\ stride' = stride \div 2
    /\ argmax_pc' = [t \in Threads |-> IF stride > 1 THEN "step" ELSE "out"]
    /\ UNCHANGED <<logits, col, s, output>>

\* Thread 0 stores the result.
Output ==
    /\ argmax_pc[0] = "out"
    /\ output' = s[0].idx
    /\ argmax_pc' = [argmax_pc EXCEPT ![0] = "done"]
    /\ UNCHANGED <<logits, col, s, stride>>

ArgmaxNext == TreeSync \/ Output \/ \E t \in Threads : Scan(t) \/ EndScan(t) \/ TreeStep(t)
-----------------------------------------------------------------------------
(* Properties *)

\* Columns that are a candidate: neither NaN nor -infinity.
Candidates == {c \in Columns : logits[c] >= 0}

\* The greedy token: the least column with the greatest logit, as a sequential
\* scan gives, whatever the number of threads and their order; 0 when no logit
\* is a candidate.
FirstMaximum ==
    IF Candidates = {} THEN 0
    ELSE Min({c \in Candidates : \A d \in Candidates : logits[d] <= logits[c]})

\* The tree reduction returns that token.
OutputIsFirstMaximum == output # NoOutput => output = FirstMaximum

=============================================================================
