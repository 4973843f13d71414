-------------------------- MODULE RealKvAllocator --------------------------
(***************************************************************************)
(* RealKvAllocator over the two free lists, with its caller reduced to the *)
(* order in which the scheduler may call it for one request:               *)
(*                                                                         *)
(*   new -allocate_prefill-> admitted -prefill-> ran                       *)
(*   ran, ready -allocate_decode-> granted -decode-> ran                   *)
(*   ran, ready -swap_out-> swapped -swap_in-> ready                       *)
(*   ran -free_request-> done                                              *)
(*                                                                         *)
(* Calls for different requests come in any order.  A call that returns    *)
(* false before it has changed anything is not a step.  A CUDA call may    *)
(* fail, at most MAX_FAULTS times.                                         *)
(***************************************************************************)
EXTENDS FreeList, Sizes, FiniteSets, Functions

CONSTANTS Requests,
          PromptLens,               \* the prompt lengths the clients send
          DEFAULT_TOTAL_CPU_BLOCKS,
          MAX_SEQ,
          MAX_NEW_TOKENS,           \* Request.max_new_tokens
          MAX_FAULTS                \* bound: CUDA calls that fail

ASSUME RealKvAllocatorAssumption ==
    /\ MAX_NEW_TOKENS \in Nat \ {0}
    /\ {DEFAULT_TOTAL_CPU_BLOCKS, MAX_SEQ, MAX_FAULTS} \subseteq Nat
    /\ PromptLens \subseteq Nat \ {0}

VARIABLES gpu, cpu,          \* the free lists
          prompts_len,       \* of each request, fixed when it is created
          layer_kv,          \* layer_kv[r][l]: block table and cached tokens
          kv_residency,      \* None, Gpu, Cpu
          generated,         \* generated_tokens() of each request
          stage,             \* where the caller is with the request
          swapped_requests,  \* the swap record of each swapped request
          capacity,          \* swap_in_capacity_blocks_
          faults             \* CUDA failures so far

pools == <<gpu, cpu>>
vars == <<gpu, cpu, prompts_len, layer_kv, kv_residency, generated, stage,
          swapped_requests, capacity, faults>>

GpuBlocks == 0..(DEFAULT_TOTAL_KV_BLOCKS - 1)
CpuBlocks == 0..(DEFAULT_TOTAL_CPU_BLOCKS - 1)

Lesser(a, b) == IF a < b THEN a ELSE b
Greater(a, b) == IF a < b THEN b ELSE a

EmptyKv == [l \in Layers |-> [blocks |-> <<>>, tokens |-> 0]]

StagingForOneLayer == CeilDiv(MAX_SEQ, DEFAULT_KV_BLOCK_SIZE)  \* fault: * layers is missing

\* init_swap_in_buffers: room for one request of MAX_SEQ tokens.
StagingBlocks == CeilDiv(MAX_SEQ, DEFAULT_KV_BLOCK_SIZE) * GPT2_N_LAYERS

\* A failed cudaMalloc leaves capacity 0; the constructor ignores it.
Init ==
    /\ gpu = NewPool(DEFAULT_TOTAL_KV_BLOCKS)
    /\ cpu = NewPool(DEFAULT_TOTAL_CPU_BLOCKS)
    /\ prompts_len \in [Requests -> PromptLens]
    /\ layer_kv = [r \in Requests |-> EmptyKv]
    /\ kv_residency = [r \in Requests |-> "None"]
    /\ generated = [r \in Requests |-> 0]
    /\ stage = [r \in Requests |-> "new"]
    /\ swapped_requests = <<>>
    /\ \/ capacity = StagingBlocks /\ faults = 0
       \/ capacity = 0 /\ faults = 1 /\ MAX_FAULTS > 0
-----------------------------------------------------------------------------
\* A request the scheduler still decodes.
Unfinished(r) == stage[r] \in {"ran", "ready"} /\ generated[r] < MAX_NEW_TOKENS

DealFromTheStart(kv, bs, need) ==  \* fault: every layer gets the first blocks
    [l \in Layers |-> [kv[l] EXCEPT !.blocks = @ \o SubSeq(bs, 1, Lesser(need, Len(bs)))]]

\* `need' more blocks for every layer, layer by layer, from the blocks bs; the
\* last layers go short when bs is.
Deal(kv, bs, need) ==
    [l \in Layers |->
        [kv[l] EXCEPT !.blocks =
            @ \o SubSeq(bs, (l - 1) * need + 1, Lesser(l * need, Len(bs)))]]

NumBlocks(kv) == Len(kv[1].blocks)

TakeBlocksUnchecked(r, need, next) ==  \* fault: can_allocate is not asked
    LET total == need * GPT2_N_LAYERS
        got   == Lesser(total, Len(gpu.ids))
    IN  /\ gpu' = AfterTaking(gpu, got)
        /\ layer_kv' = [layer_kv EXCEPT ![r] = Deal(@, Taken(gpu, got), need)]
        /\ IF got = total
           THEN /\ kv_residency' = [kv_residency EXCEPT ![r] = "Gpu"]
                /\ stage' = [stage EXCEPT ![r] = next]
           ELSE UNCHANGED <<kv_residency, stage>>
        /\ UNCHANGED <<cpu, prompts_len, generated, swapped_requests, capacity, faults>>

\* The loops shared by the two admissions.  They stop at the first -1, without
\* giving back what they took.
TakeBlocks(r, need, next) ==
    LET total == need * GPT2_N_LAYERS
        got   == Lesser(total, Len(gpu.ids))
    IN  /\ CanAllocate(gpu, total)
        /\ gpu' = AfterTaking(gpu, got)
        /\ layer_kv' = [layer_kv EXCEPT ![r] = Deal(@, Taken(gpu, got), need)]
        /\ IF got = total
           THEN /\ kv_residency' = [kv_residency EXCEPT ![r] = "Gpu"]
                /\ stage' = [stage EXCEPT ![r] = next]
           ELSE UNCHANGED <<kv_residency, stage>>
        /\ UNCHANGED <<cpu, prompts_len, generated, swapped_requests, capacity, faults>>

AllocatePrefill(r) ==
    /\ stage[r] = "new"
    /\ TakeBlocks(r, CeilDiv(prompts_len[r], DEFAULT_KV_BLOCK_SIZE), "admitted")

DecodeNeedOneLate(kv) ==  \* fault: asks for the block one token too late
    IF kv[1].tokens % DEFAULT_KV_BLOCK_SIZE = 1 THEN 1 ELSE 0

DecodeNeed(kv) == IF kv[1].tokens % DEFAULT_KV_BLOCK_SIZE = 0 THEN 1 ELSE 0

AllocateDecode(r) ==
    /\ Unfinished(r)
    /\ TakeBlocks(r, DecodeNeed(layer_kv[r]), "granted")

\* The scheduler's bookkeeping after backend_.prefill and backend_.decode.
RunPrefill(r) ==
    /\ stage[r] = "admitted"
    /\ layer_kv' = [layer_kv EXCEPT ![r] =
                       [l \in Layers |-> [@[l] EXCEPT !.tokens = prompts_len[r]]]]
    /\ generated' = [generated EXCEPT ![r] = 1]
    /\ stage' = [stage EXCEPT ![r] = "ran"]
    /\ UNCHANGED <<pools, prompts_len, kv_residency, swapped_requests, capacity, faults>>

RunDecode(r) ==
    /\ stage[r] = "granted"
    /\ layer_kv' = [layer_kv EXCEPT ![r] =
                       [l \in Layers |-> [@[l] EXCEPT !.tokens = layer_kv[r][l].tokens + 1]]]
    /\ generated' = [generated EXCEPT ![r] = @ + 1]
    /\ stage' = [stage EXCEPT ![r] = "ran"]
    /\ UNCHANGED <<pools, prompts_len, kv_residency, swapped_requests, capacity, faults>>

\* The loop of free_request: the table of each layer is given back.
FreeTables(p, kv) ==
    LET after[l \in 0..GPT2_N_LAYERS] ==
            IF l = 0 THEN p ELSE FreeAll(after[l - 1], kv[l].blocks)
    IN  after[GPT2_N_LAYERS]

FreeRequest(r) ==
    /\ stage[r] = "ran"
    /\ gpu' = FreeTables(gpu, layer_kv[r])
    /\ layer_kv' = [layer_kv EXCEPT ![r] = EmptyKv]
    /\ kv_residency' = [kv_residency EXCEPT ![r] = "None"]
    /\ stage' = [stage EXCEPT ![r] = "done"]
    /\ UNCHANGED <<cpu, prompts_len, generated, swapped_requests, capacity, faults>>
-----------------------------------------------------------------------------
ValidTokensAlwaysFull(n, b) == DEFAULT_KV_BLOCK_SIZE  \* fault: the last block counts as full

\* Tokens that block number b (from 0) of a table holds, of n cached tokens.
ValidTokens(n, b) ==
    Greater(0, Lesser(n - b * DEFAULT_KV_BLOCK_SIZE, DEFAULT_KV_BLOCK_SIZE))

\* The record swap_out builds: layer-major, one entry per block.
SwapRecord(kv, ids) ==
    LET per == NumBlocks(kv)
    IN  [blocks_per_layer |-> per,
         cpu_blocks |-> [i \in 1..(per * GPT2_N_LAYERS) |->
             [cpu_block_id |-> ids[i],
              valid_tokens |-> ValidTokens(kv[(i - 1) \div per + 1].tokens, (i - 1) % per)]]]

\* swap_out up to the copies: enough CPU blocks for all layers are reserved.
CanSwapOut(r) ==
    LET needed == NumBlocks(layer_kv[r]) * GPT2_N_LAYERS
    IN  /\ Unfinished(r)
        /\ kv_residency[r] = "Gpu"
        /\ r \notin DOMAIN swapped_requests
        /\ needed > 0
        /\ needed <= cpu.count
        /\ needed <= Len(cpu.ids)

SwapOut(r) ==
    LET kv     == layer_kv[r]
        needed == NumBlocks(kv) * GPT2_N_LAYERS
    IN  /\ CanSwapOut(r)
        /\ \A l \in Layers : Len(kv[l].blocks) = NumBlocks(kv)
        /\ cpu' = AfterTaking(cpu, needed)
        /\ swapped_requests' = [q \in DOMAIN swapped_requests \cup {r} |->
               IF q = r THEN SwapRecord(kv, Taken(cpu, needed)) ELSE swapped_requests[q]]
        /\ gpu' = FreeTables(gpu, kv)
        /\ layer_kv' = [layer_kv EXCEPT ![r] = EmptyKv]
        /\ kv_residency' = [kv_residency EXCEPT ![r] = "Cpu"]
        /\ stage' = [stage EXCEPT ![r] = "swapped"]
        /\ UNCHANGED <<prompts_len, generated, capacity, faults>>

\* A copy fails, or a layer has another number of blocks than the first: the
\* CPU blocks go back (in the order they came, which reverses them on the
\* stack) and swap_out returns false.
SwapOutFails(r) ==
    LET needed == NumBlocks(layer_kv[r]) * GPT2_N_LAYERS
        uneven == \E l \in Layers : Len(layer_kv[r][l].blocks) # NumBlocks(layer_kv[r])
    IN  /\ CanSwapOut(r)
        /\ \/ uneven /\ UNCHANGED faults
           \/ faults < MAX_FAULTS /\ faults' = faults + 1
        /\ cpu' = FreeAll(AfterTaking(cpu, needed), Taken(cpu, needed))
        /\ UNCHANGED <<gpu, prompts_len, layer_kv, kv_residency, generated, stage,
                       swapped_requests, capacity>>

CpuIds(rec) == [i \in DOMAIN rec.cpu_blocks |-> rec.cpu_blocks[i].cpu_block_id]

\* restored_num_tokens: what the entries of the first layer hold.
RestoredTokens(rec) ==
    LET upto[b \in 0..rec.blocks_per_layer] ==
            IF b = 0 THEN 0 ELSE upto[b - 1] + rec.cpu_blocks[b].valid_tokens
    IN  upto[rec.blocks_per_layer]

\* swap_in up to the allocation of GPU blocks.
CanSwapIn(r) ==
    /\ r \in DOMAIN swapped_requests
    /\ LET rec      == swapped_requests[r]
           expected == rec.blocks_per_layer * GPT2_N_LAYERS
       IN  /\ expected > 0
           /\ Len(rec.cpu_blocks) = expected
           /\ CanAllocate(gpu, expected)
           /\ expected <= Len(gpu.ids)
           /\ capacity > 0
           /\ expected <= capacity

RestoredKv(rec, ids) ==
    [l \in Layers |->
        [blocks |-> Deal(EmptyKv, ids, rec.blocks_per_layer)[l].blocks,
         tokens |-> RestoredTokens(rec)]]

SwapIn(r) ==
    LET rec      == swapped_requests[r]
        expected == rec.blocks_per_layer * GPT2_N_LAYERS
    IN  /\ CanSwapIn(r)
        /\ gpu' = AfterTaking(gpu, expected)
        /\ layer_kv' = [layer_kv EXCEPT ![r] = RestoredKv(rec, Taken(gpu, expected))]
        /\ cpu' = FreeAll(cpu, CpuIds(rec))
        /\ swapped_requests' = [q \in DOMAIN swapped_requests \ {r} |-> swapped_requests[q]]
        /\ kv_residency' = [kv_residency EXCEPT ![r] = "Gpu"]
        /\ stage' = [stage EXCEPT ![r] = "ready"]
        /\ UNCHANGED <<prompts_len, generated, capacity, faults>>

SwapInFailsKeepingBlocks(r) ==  \* fault: the GPU blocks are not given back
    LET expected == swapped_requests[r].blocks_per_layer * GPT2_N_LAYERS
    IN  /\ CanSwapIn(r)
        /\ faults < MAX_FAULTS
        /\ faults' = faults + 1
        /\ gpu' = AfterTaking(gpu, expected)
        /\ layer_kv' = [layer_kv EXCEPT ![r] = EmptyKv]
        /\ UNCHANGED <<cpu, prompts_len, kv_residency, generated, stage,
                       swapped_requests, capacity>>

SwapInFailsKeepingTables(r) ==  \* fault: the tables are not reset
    LET expected == swapped_requests[r].blocks_per_layer * GPT2_N_LAYERS
    IN  /\ CanSwapIn(r)
        /\ faults < MAX_FAULTS
        /\ faults' = faults + 1
        /\ gpu' = FreeAll(AfterTaking(gpu, expected), Taken(gpu, expected))
        /\ layer_kv' = [layer_kv EXCEPT
               ![r] = RestoredKv(swapped_requests[r], Taken(gpu, expected))]
        /\ UNCHANGED <<cpu, prompts_len, kv_residency, generated, stage,
                       swapped_requests, capacity>>

\* One of the copies or the scatter kernel fails: rollback_gpu_allocations.
SwapInFails(r) ==
    LET expected == swapped_requests[r].blocks_per_layer * GPT2_N_LAYERS
    IN  /\ CanSwapIn(r)
        /\ faults < MAX_FAULTS
        /\ faults' = faults + 1
        /\ gpu' = FreeAll(AfterTaking(gpu, expected), Taken(gpu, expected))
        /\ layer_kv' = [layer_kv EXCEPT ![r] = EmptyKv]
        /\ UNCHANGED <<cpu, prompts_len, kv_residency, generated, stage,
                       swapped_requests, capacity>>
-----------------------------------------------------------------------------
Next ==
    \E r \in Requests :
        \/ AllocatePrefill(r) \/ RunPrefill(r)
        \/ AllocateDecode(r) \/ RunDecode(r)
        \/ FreeRequest(r)
        \/ SwapOut(r) \/ SwapOutFails(r)
        \/ SwapIn(r) \/ SwapInFails(r)

Spec == Init /\ [][Next]_vars
-----------------------------------------------------------------------------
(* Properties *)

KvType == [blocks : Seq(GpuBlocks), tokens : Nat]
RecordType == [blocks_per_layer : Nat,
               cpu_blocks : Seq([cpu_block_id : CpuBlocks, valid_tokens : Nat])]

\* Every variable has its type.
TypeOK ==
    /\ gpu \in [ids : Seq(GpuBlocks), isFree : [GpuBlocks -> BOOLEAN], count : Int]
    /\ cpu \in [ids : Seq(CpuBlocks), isFree : [CpuBlocks -> BOOLEAN], count : Int]
    /\ layer_kv \in [Requests -> [Layers -> KvType]]
    /\ kv_residency \in [Requests -> {"None", "Gpu", "Cpu"}]
    /\ generated \in [Requests -> 0..MAX_NEW_TOKENS]
    /\ stage \in [Requests -> {"new", "admitted", "ran", "ready", "granted", "swapped", "done"}]
    /\ DOMAIN swapped_requests \subseteq Requests
    /\ \A r \in DOMAIN swapped_requests : swapped_requests[r] \in RecordType
    /\ capacity \in {0, StagingBlocks}
    /\ faults \in 0..MAX_FAULTS

GpuOwned(r) == UNION {Range(layer_kv[r][l].blocks) : l \in Layers}
CpuOwned(r) == IF r \in DOMAIN swapped_requests THEN Range(CpuIds(swapped_requests[r])) ELSE {}

\* A physical block is the KV memory of one layer, one position and one request
\* only: two entries of block tables never name the same block, so no decode
\* overwrites the keys of another request.
TablesDoNotAlias ==
    \A r, s \in Requests, k, l \in Layers :
        \A i \in DOMAIN layer_kv[r][k].blocks, j \in DOMAIN layer_kv[s][l].blocks :
            layer_kv[r][k].blocks[i] = layer_kv[s][l].blocks[j] => <<r, k, i>> = <<s, l, j>>

\* Through admissions, frees, swaps and their rollbacks no block of either pool
\* is lost or free while in use, and the counters can_allocate reads are exact.
NoBlockLeaked ==
    /\ \A b \in GpuBlocks : gpu.isFree[b] <=> \A r \in Requests : b \notin GpuOwned(r)
    /\ \A b \in CpuBlocks : cpu.isFree[b] <=> \A r \in Requests : b \notin CpuOwned(r)
    /\ gpu.count = Cardinality({b \in GpuBlocks : gpu.isFree[b]}) /\ gpu.count = Len(gpu.ids)
    /\ cpu.count = Cardinality({b \in CpuBlocks : cpu.isFree[b]}) /\ cpu.count = Len(cpu.ids)

\* Blocks per layer a request needs while it is on the GPU: for its prompt
\* before the prefill, for the cached tokens after a run, and for one token
\* more once a decode was granted.
TokensToHold(r) ==
    CASE stage[r] = "admitted" -> prompts_len[r]
      [] stage[r] = "granted"  -> layer_kv[r][1].tokens + 1
      [] OTHER                 -> layer_kv[r][1].tokens

\* Every layer of a request on the GPU has exactly the blocks its tokens need:
\* the attention kernels index the table without a bound check, and a block
\* more than needed would be memory nobody can use.
TablesFitTokens ==
    \A r \in Requests, l \in Layers : kv_residency[r] = "Gpu" =>
        /\ Len(layer_kv[r][l].blocks) = CeilDiv(TokensToHold(r), DEFAULT_KV_BLOCK_SIZE)
        /\ layer_kv[r][l].tokens = layer_kv[r][1].tokens

\* The cache holds every token of the request but the newest one, also while it
\* is on the CPU and after it came back: the position a decode uses
\* (num_tokens_) is that of the token it decodes.
CacheHoldsAllButTheLastToken ==
    \A r \in Requests :
        LET cached == prompts_len[r] + generated[r] - 1
        IN  /\ stage[r] \in {"ran", "ready", "granted"} => layer_kv[r][1].tokens = cached
            /\ r \in DOMAIN swapped_requests => RestoredTokens(swapped_requests[r]) = cached

\* A request has a swap record exactly while its caller has it in the swap-out
\* queue, and then holds nothing on the GPU, also after a swap-in that failed.
SwapRecordsMatchResidency ==
    \A r \in Requests :
        /\ (r \in DOMAIN swapped_requests) <=> stage[r] = "swapped"
        /\ stage[r] = "swapped" => kv_residency[r] = "Cpu" /\ GpuOwned(r) = {}

\* A prompt that leaves room for its answer within MAX_SEQ is never swapped out
\* for good: the staging buffer, when there is one, takes all its blocks.
SwappedRequestsFitStaging ==
    \A r \in DOMAIN swapped_requests :
        (capacity > 0 /\ prompts_len[r] + MAX_NEW_TOKENS <= MAX_SEQ) =>
            Len(swapped_requests[r].cpu_blocks) <= capacity

\* RealKvAllocator implements the abstract allocator.
Abstract == INSTANCE KvAllocator
    WITH place  <- kv_residency,
         own    <- [r \in Requests |-> GpuOwned(r)],
         cpuOwn <- [r \in Requests |-> CpuOwned(r)]

\* Every call is one of the abstract allocator's steps or changes nothing it
\* can see; a failed or rolled back call is invisible.
ImplementsKvAllocator == Abstract!Spec
=============================================================================
