---------------------------- MODULE BlockReduce ----------------------------
(***************************************************************************)
(* The reductions over a thread block as its warps run them, in the three  *)
(* kernels that have them:                                                 *)
(*   layernorm        block_reduce_sum twice, one call after the other     *)
(*   paged_attention  block_reduce_max, then block_reduce_sum              *)
(*   flashattention   reduce_dhead64_sum for each key of a tile, for one   *)
(*                    row of the tile: its 64 threads are two warps (rows  *)
(*                    have entries of their own and meet only at barriers) *)
(* Each function has one static __shared__ array, so the calls of one      *)
(* function work on the same array.                                        *)
(*                                                                         *)
(* The lanes of a warp move together; warps are only held together by      *)
(* __syncthreads().  What a reduction returns is the sequence of the       *)
(* values it was made from, one of each warp when it is right.  Accesses   *)
(* of two warps to shared[0] without a barrier between them (undefined in  *)
(* CUDA) come in any order.                                                *)
(***************************************************************************)
EXTENDS Integers, SequencesExt

CONSTANTS ReduceKernels, \* the kernels to look at
          NUM_WARPS,   \* (blockDim.x + 31) >> 5, for the first two
          Bc           \* keys of a tile, for the third

ASSUME BlockReduceAssumption ==
    /\ ReduceKernels \subseteq {"layernorm", "paged_attention", "flashattention"}
    /\ {NUM_WARPS, Bc} \subseteq Nat \ {0}

VARIABLES kernel,   \* the one that runs
          shared,   \* shared[a][i]: the static arrays
          pc,       \* pc[w]: where warp w is
          call,     \* call[w]: which reduction it is in
          loaded,   \* loaded[w]: the sum it has computed and not stored
          result,   \* result[c][w]: what call c returned in warp w
          scores    \* scores[w]: the call for which w last wrote its scores

reduce_vars == <<kernel, shared, pc, call, loaded, result, scores>>

Flash == kernel = "flashattention"
NumWarps == IF Flash THEN 2 ELSE NUM_WARPS
Warps == 0..(NumWarps - 1)
Calls == 1..(IF Flash THEN Bc ELSE 2)

\* The warps whose first lane adds up the entries: with threadIdx.x == 0 one,
\* with lane == 0 all.
Adders == IF Flash THEN Warps ELSE {0}

\* The static array that a call of the kernel works on.
ArrayOf(c) == IF kernel = "paged_attention" THEN c ELSE 1

ReduceInit ==
    /\ kernel \in ReduceKernels
    /\ shared = [a \in 1..2 |-> [w \in Warps |-> <<>>]]
    /\ pc = [w \in Warps |-> "put"]
    /\ call = [w \in Warps |-> 1]
    /\ loaded = [w \in Warps |-> <<>>]
    /\ result = [c \in Calls |-> [w \in Warps |-> <<>>]]
    /\ scores = [w \in Warps |-> 0]
-----------------------------------------------------------------------------
\* The value of warp w for call c.  The second call of layernorm and of paged
\* attention is about terms made with what the first returned in that warp:
\* (x - mean)^2 and exp(score - max).
Value(c, w, first) == IF c = 1 \/ Flash THEN <<c, w>> ELSE <<c, w, first>>

\* In paged attention the warp's share of the scores (QK, then exp) goes to
\* scores[]; lane 0 puts the warp's value into shared[warp_id].
Put(w) ==
    /\ pc[w] = "put"
    /\ shared' = [shared EXCEPT ![ArrayOf(call[w])][w] = <<Value(call[w], w, result[1][w])>>]
    /\ scores' = [scores EXCEPT ![w] = call[w]]
    /\ pc' = [pc EXCEPT ![w] = "sync_1"]
    /\ UNCHANGED <<kernel, call, loaded, result>>

NoSync(from, to) ==  \* fault: __syncthreads is missing
    \E w \in Warps :
        /\ pc[w] = from
        /\ pc' = [pc EXCEPT ![w] = to]
        /\ UNCHANGED <<kernel, shared, call, loaded, result, scores>>

\* __syncthreads(): everybody is there, everybody goes on.
Sync(from, to) ==
    /\ \A w \in Warps : pc[w] = from
    /\ pc' = [w \in Warps |-> to]
    /\ UNCHANGED <<kernel, shared, call, loaded, result, scores>>

\* The total of what the warps put, by the threads that add it up...
Load(w) ==
    /\ pc[w] = "load" /\ w \in Adders
    /\ loaded' = [loaded EXCEPT ![w] =
          FlattenSeq([i \in 1..NumWarps |-> shared[ArrayOf(call[w])][i - 1]])]
    /\ pc' = [pc EXCEPT ![w] = "store"]
    /\ UNCHANGED <<kernel, shared, call, result, scores>>

\* ... goes to shared[0].
Store(w) ==
    /\ pc[w] = "store"
    /\ shared' = [shared EXCEPT ![ArrayOf(call[w])][0] = loaded[w]]
    /\ pc' = [pc EXCEPT ![w] = "sync_2"]
    /\ UNCHANGED <<kernel, call, loaded, result, scores>>

\* The other warps have nothing to do there.
Skip(w) ==
    /\ pc[w] = "load" /\ w \notin Adders
    /\ pc' = [pc EXCEPT ![w] = "sync_2"]
    /\ UNCHANGED <<kernel, shared, call, loaded, result, scores>>

NoSync2 == NoSync("sync_2", "return")  \* fault: the second __syncthreads is missing

Sync2 == Sync("sync_2", "return")

\* The place and the call of a warp that has its result of call c: the next
\* call, at once or behind the barrier that ends the loop over the keys.
AfterReturn(c) == IF Flash THEN "sync_3" ELSE IF c < 2 THEN "put" ELSE "done"

\* return shared[0].
Return(w) ==
    /\ pc[w] = "return"
    /\ result' = [result EXCEPT ![call[w]][w] = shared[ArrayOf(call[w])][0]]
    /\ pc' = [pc EXCEPT ![w] = AfterReturn(call[w])]
    /\ call' = [call EXCEPT ![w] = IF AfterReturn(@) = "put" THEN @ + 1 ELSE @]
    /\ UNCHANGED <<kernel, shared, loaded, scores>>

\* The next key of the tile, or the end of the tile.
Advance(w) ==
    IF call[w] < Bc THEN [pc |-> "put", call |-> call[w] + 1]
                    ELSE [pc |-> "done", call |-> call[w]]

NextKeyUnsynced ==  \* fault: the barrier at the end of the loop is missing
    \E w \in Warps :
        /\ pc[w] = "sync_3"
        /\ pc' = [pc EXCEPT ![w] = Advance(w).pc]
        /\ call' = [call EXCEPT ![w] = Advance(w).call]
        /\ UNCHANGED <<kernel, shared, loaded, result, scores>>

\* The barrier at the end of the loop over the keys of the tile.
NextKey ==
    /\ \A w \in Warps : pc[w] = "sync_3"
    /\ pc' = [w \in Warps |-> Advance(w).pc]
    /\ call' = [w \in Warps |-> Advance(w).call]
    /\ UNCHANGED <<kernel, shared, loaded, result, scores>>

ReduceNext ==
    \/ Sync("sync_1", "load") \/ Sync2 \/ NextKey
    \/ \E w \in Warps : Put(w) \/ Load(w) \/ Store(w) \/ Skip(w) \/ Return(w)

ReduceSpec == ReduceInit /\ [][ReduceNext]_reduce_vars
-----------------------------------------------------------------------------
(* Properties *)

Returned(c, w) == call[w] > c \/ (call[w] = c /\ pc[w] \in {"sync_3", "done"})

\* The values of all warps for call c, each once, and in the second call each
\* made with the right result of the first.
Whole(c) ==
    LET first == [i \in 1..NumWarps |-> <<1, i - 1>>]
    IN  [i \in 1..NumWarps |-> Value(c, i - 1, first)]

\* Every thread of the block gets the reduction over all warps of its own call,
\* each warp's value once and none of another call: mean and variance in
\* layernorm, maximum and denominator in paged attention, q.k in flashattention.
ReductionIsRight == \A c \in Calls, w \in Warps : Returned(c, w) => result[c][w] = Whole(c)

\* Paged attention's two reductions have arrays of their own and a barrier on
\* each side of the thread that adds up: they are right in every interleaving.
PagedReductionIsRight == kernel = "paged_attention" => ReductionIsRight

\* Layernorm's two calls share an array, with no barrier between the return of
\* the first and the Put of the second: a slow warp may read the first warp's
\* share of the second sum as the first sum.  What can be wrong is bounded: the
\* first warp's mean is right, and another warp's is right or that one share;
\* and the second sum has every warp's term once, made with the mean that warp
\* has, and is the same in all warps.  So a row whose warps all have the right
\* mean is right, and one late warp spoils the variance of every warp.
LayerNormRaceIsConfined ==
    \A w \in Warps : kernel = "layernorm" =>
        /\ Returned(1, w) =>
              \/ result[1][w] = Whole(1)
              \/ w # 0 /\ result[1][w] = <<Value(2, 0, Whole(1))>>
        /\ Returned(2, w) =>
              result[2][w] = [i \in 1..NumWarps |-> Value(2, i - 1, result[1][i - 1])]

\* Paged attention's reductions are also the only barriers between the writes of scores[] and
\* the reads of other warps' entries: when a warp has the denominator, all
\* entries hold exp(score - max).
ScoresComplete ==
    \A w \in Warps : (kernel = "paged_attention" /\ pc[w] = "done") =>
        \A v \in Warps : scores[v] = 2

\* In flashattention the two warps race for shared[0].  However the race ends,
\* they go on with the same score, and that score has every component of this
\* key and none of another: the barriers keep the calls for different keys apart.
ScoreOfThisKey ==
    \A c \in Calls, w \in Warps : (Flash /\ Returned(c, w)) =>
        /\ Head(result[c][w]) = Whole(c)[1]
        /\ \A i \in 2..Len(result[c][w]) : result[c][w][i] = Whole(c)[2]
        /\ \A v \in Warps : Returned(c, v) => result[c][v] = result[c][w]
=============================================================================
