----------------------------- MODULE KvMemory -----------------------------
(***************************************************************************)
(* RealKvAllocator's operations together with what the KV pools hold and   *)
(* the calls of the model that read and write them.  A row is the K or the *)
(* V of one token in one layer (D floats), a term of GPT2Model.  Two parts *)
(* of the code address the GPU pool:                                       *)
(*   - the kernels see a K pool followed by a V pool (KRow and VRow of     *)
(*     GPT2Model);                                                         *)
(*   - Pool::block_ptr, move_data and the scatter kernel see slots of 2*S  *)
(*     rows: block b is the rows from 2*b*S on.                            *)
(* A call of the model is for a batch of requests in some order; the       *)
(* scheduler then goes through the answers one request after the other     *)
(* before it does anything else.  Token i of request r is <<r, i>>.        *)
(***************************************************************************)
EXTENDS RealKvAllocator, GPT2Model

CONSTANT MAX_SWAPS  \* bound: swap-ins in a behaviour

ASSUME KvMemoryAssumption == MAX_SWAPS \in Nat

VARIABLES gmem,   \* rows of the GPU pool
          cmem,   \* rows of the CPU pool
          answer, \* the logits of each request the scheduler has yet to look at
          saved,  \* history: the slots of each swapped request at swap_out
          swaps   \* history: the swap-ins, which write slots into the GPU pool

mem == <<gmem, cmem, answer, saved, swaps>>

\* The rows of slot b, for block_ptr.
SlotRows(b) == (2 * b * S)..(2 * b * S + 2 * S - 1)
SlotOf(m, b) == [i \in 0..(2 * S - 1) |-> m[2 * b * S + i]]

\* The blocks of a request in the order of the loops in swap_out.
TableBlocks(kv) == FlattenSeq([l \in Layers |-> kv[l].blocks])

MemInit ==
    /\ Init
    /\ gmem = EmptyPool
    /\ cmem = [a \in 0..(2 * DEFAULT_TOTAL_CPU_BLOCKS * S - 1) |-> <<>>]
    /\ answer = <<>> /\ saved = <<>> /\ swaps = 0
-----------------------------------------------------------------------------
\* Request.tokens: the prompt and what was generated.
Tokens(r) == [i \in 1..(prompts_len[r] + generated[r]) |-> <<r, i>>]

Request(r) == [tokens |-> Tokens(r), prompts_len |-> prompts_len[r], layer_kv |-> layer_kv[r]]

\* The scheduler has gone through the answers of the last call.
NoAnswers == answer = <<>>

\* The batches of requests of `from': any order, each of them or some.
Batches(from) ==
    {batch \in SeqOf({r \in Requests : stage[r] = from}, Cardinality(Requests)) :
        batch # <<>> /\ IsInjective(batch)}

RequestsOf(batch) == [i \in DOMAIN batch |-> Request(batch[i])]

\* A call for the batch that ends so: rows of the pool are changed, and there are
\* logits.
Answered(batch, end) ==
    /\ gmem' = [a \in DOMAIN gmem |-> end.pool[a]]
    /\ answer' = [r \in ToSet(batch) |-> end.logits[CHOOSE i \in DOMAIN batch : batch[i] = r]]
    /\ UNCHANGED <<vars, cmem, saved, swaps>>

CallPrefill ==
    /\ NoAnswers
    /\ \E batch \in Batches("admitted") : Answered(batch, Prefill(RequestsOf(batch), gmem))

CallDecode ==
    /\ NoAnswers
    /\ \E batch \in Batches("granted") : Answered(batch, Decode(RequestsOf(batch), gmem))

\* run_prefill_batch and run_decode_batch go through the answers.
MemRun(r) ==
    /\ r \in DOMAIN answer
    /\ RunPrefill(r) \/ RunDecode(r)
    /\ answer' = [q \in DOMAIN answer \ {r} |-> answer[q]]
    /\ UNCHANGED <<gmem, cmem, saved, swaps>>

\* move_data for each block: one slot of the GPU pool to one of the CPU pool.
MemSwapOut(r) ==
    /\ NoAnswers
    /\ SwapOut(r)
    /\ LET from == TableBlocks(layer_kv[r])
           to   == CpuIds(swapped_requests'[r])
       IN  /\ cmem' = [a \in DOMAIN cmem |->
                 IF \E i \in DOMAIN to : a \in SlotRows(to[i])
                 THEN LET i == CHOOSE i \in DOMAIN to : a \in SlotRows(to[i])
                      IN  gmem[2 * from[i] * S + (a - 2 * to[i] * S)]
                 ELSE cmem[a]]
           /\ saved' = [q \in DOMAIN saved \cup {r} |->
                 IF q = r THEN [i \in DOMAIN from |-> SlotOf(gmem, from[i])] ELSE saved[q]]
    /\ UNCHANGED <<gmem, answer, swaps>>

DstInRecordOrder(rec, ids) ==  \* fault: the order of the record instead of the offset
    [j \in 0..(Len(rec.cpu_blocks) - 1) |-> ids[j + 1]]

\* dst_block_by_cpu_offset: entry j (from 0) is the GPU block for the CPU block
\* cpu_start + j.  An offset outside the vector is written to memory that is
\* not the vector's, and an entry nobody wrote stays -1.
DstByOffset(rec, ids) ==
    LET cpu_start == Min(ToSet(CpuIds(rec)))
    IN  [j \in 0..(Len(rec.cpu_blocks) - 1) |->
            IF \E i \in DOMAIN rec.cpu_blocks : CpuIds(rec)[i] - cpu_start = j
            THEN ids[CHOOSE i \in DOMAIN rec.cpu_blocks : CpuIds(rec)[i] - cpu_start = j]
            ELSE NoBlock]

\* The staging copy takes the CPU blocks from cpu_start on, in order, and the
\* scatter kernel writes each to the slot of its destination block.
MemSwapIn(r) ==
    /\ NoAnswers
    /\ swaps < MAX_SWAPS
    /\ SwapIn(r)
    /\ LET rec       == swapped_requests[r]
           cpu_start == Min(ToSet(CpuIds(rec)))
           dst       == DstByOffset(rec, Taken(gpu, Len(rec.cpu_blocks)))
       IN  gmem' = [a \in DOMAIN gmem |->
              IF \E j \in DOMAIN dst : a \in SlotRows(dst[j])
              THEN LET j == CHOOSE j \in DOMAIN dst : a \in SlotRows(dst[j])
                   IN  cmem[2 * (cpu_start + j) * S + (a - 2 * dst[j] * S)]
              ELSE gmem[a]]
    /\ saved' = [q \in DOMAIN saved \ {r} |-> saved[q]]
    /\ swaps' = swaps + 1
    /\ UNCHANGED <<cmem, answer>>

\* The operations that only move block ids.  free_request of a request that has
\* finished comes while the answers are gone through; here it may come later too.
MemAllocate(r) ==
    /\ NoAnswers
    /\ AllocatePrefill(r) \/ AllocateDecode(r)
    /\ UNCHANGED mem

MemFreeRequest(r) == FreeRequest(r) /\ UNCHANGED mem

MemNext ==
    \/ CallPrefill \/ CallDecode
    \/ \E r \in Requests :
        \/ MemAllocate(r) \/ MemFreeRequest(r) \/ MemRun(r)
        \/ MemSwapOut(r) \/ MemSwapIn(r)

MemSpec == MemInit /\ [][MemNext]_<<vars, mem>>
-----------------------------------------------------------------------------
(* Properties *)

\* The logits that answer a request are those of the whole text so far,
\* recomputed without any cache, whatever requests were in the batch with it and
\* whatever admissions, calls, frees and swap-outs of other requests came in
\* between.  (Not after a swap-in: SwapRestoresKv.)
AnswersAreFullRecompute ==
    swaps = 0 => \A r \in DOMAIN answer : answer[r] = FullLogits(Tokens(r))

\* The comment above swap_in: the CPU blocks of a request lie side by side.  It
\* is so as long as all swapped requests have the same number of blocks; what
\* the free list hands out after that may have gaps.
CpuBlocksContiguous(r) ==
    LET ids == CpuOwned(r)
    IN  Max(ids) - Min(ids) + 1 = Cardinality(ids)

\* swap_in brings back every slot that swap_out saved, whatever happened to the
\* pools in between: the statement test_real_kv_swap.cu tests for one request.
\* It relies on the blocks lying side by side.
SwapRestoresSlots ==
    [][\A r \in Requests :
          (stage[r] = "swapped" /\ stage'[r] = "ready" /\ CpuBlocksContiguous(r)) =>
          LET to == TableBlocks(layer_kv'[r])
          IN  \A i \in DOMAIN to : SlotOf(gmem', to[i]) = saved[r][i]]_<<vars, mem>>

\* What the attention kernel finds for the cached tokens of r, layer by layer.
KernelView(kv, m) ==
    [l \in Layers |-> PagedKv(m, kv[l].blocks, 0, kv[l].tokens)]

\* A swap restores the KV data of the request where the kernels look for it:
\* they find the keys and values of its own tokens, layer by layer.
SwapRestoresKv ==
    [][\A r \in Requests : (stage[r] = "swapped" /\ stage'[r] = "ready") =>
          \A l \in Layers :
              KernelView(layer_kv'[r], gmem')[l] = FullKv(Tokens(r), l, layer_kv'[r][l].tokens)]_<<vars, mem>>
=============================================================================
