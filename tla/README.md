# mini-llm in TLA+

A verification development for mini-llm, a GPT-2 serving engine: a libuv TCP
server, a scheduler thread with continuous batching and swapping, a paged KV
cache, CUDA kernels, and the Python scripts that export its weights and its
reference logits. It holds TLA+ models of the parts that keep state or run
concurrently, TLC runs on small instances, and proofs checked by TLAPS.
Source paths below are relative to `src/`.

To run it: `tlc -workers 2 -config X.cfg M` for the module and configuration in
the table of runs, `tlapm M.tla` for the modules whose names end in `Proofs`.

## 1. The system

Three threads of control meet in the program.

- The **event loop** (libuv, `src/runtime/server.cpp`) accepts connections,
  reads lines of token ids, makes a `Request` of each and pushes it to
  `request_queue_`. When a `uv_async_t` fires it takes responses from
  `response_queue_` and writes them to the clients.
- The **worker** (`src/runtime/scheduler.cpp`) owns every request it has taken.
  One turn of its loop: take new requests, swap in, decode what has room,
  admit and prefill prompts, and, if nothing moved, swap a victim out. It is
  the only caller of the KV allocator and of the model.
- Whoever calls **stop()** closes the request queue and joins the worker.

The worker's calls run CUDA kernels, whose warps are concurrent once more.
Before all that, and beside it, **scripts** write the files that the model loads
its weights from and that the golden tests compare it with.

| component | state it keeps | operations | what makes it correct |
|---|---|---|---|
| `BlockManager` | for the GPU pool and the CPU pool: a stack of free ids, a flag per id, a counter | allocate, free, allocate_one, free_one, can_allocate, the same for the CPU, reserve_tokens | the three records agree; no block is handed out twice or lost; double frees are harmless |
| `Pool`, `CpuPool` | the memory behind the blocks | block_ptr | everybody who addresses a block means the same rows |
| `RealKvAllocator` | block tables and residency of each request, swap records, a staging buffer | allocate_prefill, allocate_decode, free_request, swap_out, swap_in | tables never alias and fit the tokens; a failed swap changes nothing; a swap restores tables, counts and contents |
| `Scheduler` | seven queues, the pause flag, progress flags | the worker's loop, stop | a request is in one queue, in the state that queue means; blocks are conserved; each token is answered once; a request that fits the pool is answered to the end unless swaps go on for ever; stop returns |
| `MutexQueue` | a deque, `closed_` | push, try_pop, wait_pop, close | wait_pop ends after close |
| `ServerContext` | client objects, read buffers, write queues, `req_to_client_`, the next id | the libuv callbacks | one write at a time, streams in order and to the right client, every answer written in the end, no entry left behind |
| `Request`, `Response` | tokens, state, residency, block tables | isfinish, append | counts in step with the cache |
| `InferenceBackend`, `GPT2Model` | weights and buffers | load_weights, prefill, decode | the logits of a request do not depend on its batch, and are those of its whole text without a cache |
| append and attention kernels | K and V pools | append_prefill_kv, paged_decode_attention | the row written is the row read |
| reductions in layernorm, paged and flash attention | shared memory | block_reduce_sum, block_reduce_max, reduce_dhead64_sum | every thread gets the reduction of its own call |
| argmax | shared memory | argmax_rows_kernel | the first greatest logit, in every order of the threads |
| GEMM kernels | tiles in shared memory | launch_custom_gemm and three kernels | every element of C is its sum, for shapes the tiles divide and others |
| embedding, residual, gelu kernels | none | | floating-point results |
| scripts (`src/scripts`) | files | export_weights, dump_gpt2_golden, dump_gpt2_batch_prefill_golden, dump_gpt2_batch_decode_golden | what is in a file is what its reader takes it for |
| golden tests (`src/tests/cpp/test_gpt2_*`) | what they have read | four programs | a test passes only when the model's rows are right |

Hard to test, and therefore what the properties are for: blocks at the limit
of the pool, a CUDA call that fails half-way through a swap, the order of the
retries in the loop, responses that race the callback reading them, stop at any
moment, clients that leave while their requests run, warps that run ahead
of each other, offsets into a flattened batch of unequal requests, and files of
two runs side by side. `PROJECT.json` lists them with the lines where they bite.

## 2. The modules

| module | models | builds on |
|---|---|---|
| `Sizes` | the sizes that the allocator, the model and the tests share | |
| `FreeList` | one free list: stack, flags, counter, as pure operators | |
| `BlockManager` | both free lists with several callers | `FreeList` |
| `BlockManagerProofs` | its theorems | `BlockManager`, `OperatorProofs` |
| `KvAllocator` | the abstract allocator: who owns which blocks, and where the cache of a request is | |
| `KvAllocatorProofs` | its theorems | `KvAllocator` |
| `RealKvAllocator` | the allocator the program uses; its last definitions are the refinement mapping to `KvAllocator` | `FreeList`, `Sizes` |
| `GPT2Model` | prefill and decode of a batch on the KV pool, and the logits without a cache, as operators | `Sizes` |
| `OperatorProofs` | lemmas about the operators of `FreeList` and `GPT2Model`, their loops included | `FreeList`, `GPT2Model` |
| `KvMemory` | the contents of the two pools under the allocator's operations and the model's calls | `RealKvAllocator`, `GPT2Model` |
| `RealKvAllocatorProofs` | the theorems of `RealKvAllocator`, the refinement among them, and those of `KvMemory` about swaps and about the model's answers | `KvMemory`, `OperatorProofs` |
| `ModelFiles` | the scripts and the programs that read their files | `GPT2Model` |
| `ModelFilesProofs` | its theorems | `ModelFiles`, `OperatorProofs` |
| `Answers` | the contract between event loop and worker: what each promises over the two queues and the handle | |
| `Scheduler` | worker, event loop and stop() | `Answers` |
| `SchedulerProofs` | its theorems | `Scheduler` |
| `Server` | connections and streams, with the scheduler by its contract | `Answers` |
| `ServerProofs` | its theorems | `Server` |
| `BlockReduce` | three kernels' reductions, warp by warp | |
| `Argmax` | the argmax kernel, thread by thread | |
| `Gemm` | the matrix products, thread by thread | |
| `Kernels` | the last three in one specification, since the program launches them into one stream | `BlockReduce`, `Argmax`, `Gemm` |
| `KernelProofs` | the theorems about the three | `Kernels` |
| `MCRealKvAllocator`, `MCKvMemory`, `MCScheduler` | symmetry sets for TLC | |
| `MCModelFiles`, `MCKernels` | cases and prompts; tiles and shapes | |

Definitions marked `fault:` are variants of the definition beside them with a
plausible mistake. No specification uses them. Each shows, when it replaces the
definition, that a property notices the mistake.

### BlockManager, RealKvAllocator, KvMemory

`FreeList` is the vector of free ids (its last element is the top), `is_free_`
and the counter. All three are kept because the code reads them in different
places: `can_allocate` the counter, `allocate_one` the stack, `free_one` the
flags. `BlockManager` has callers that allocate, free, free twice and free ids
outside the pool. The one thing a caller does not do is free a block in another
one's hands; the class cannot know whose a block is.

`RealKvAllocator` follows `allocate_prefill`, `allocate_decode`, `free_request`,
`swap_out` and `swap_in` through their early returns. `stage` is the scheduler's
side: which call may come next. A `cudaMemcpy` or the scatter kernel failing is
a choice bounded by `MAX_FAULTS`; the rollback is in the same action, as in the
code. The staging buffer whose allocation failed in the constructor (the result
is ignored there) is a second initial state.

`KvMemory` adds what each row of the pools holds and the calls of the model that
read and write them. The kernels address the GPU pool as a K pool followed by a
V pool; `block_ptr`, `move_data` and the scatter kernel address it as slots of
K and V side by side. Both addressings are in the modules as the code computes
them. The scheduler calls the model for a batch, some requests in some order, and
then goes through the answers one request after the other: `answer` holds those
it has yet to look at. `swaps` counts the swap-ins, after the first of which the
kernels no longer find what they wrote (finding 2).

### GPT2Model

The arithmetic is symbolic. An embedding, a key, a value, the output of a layer
is the term of what it was made from, so two results are equal exactly when they
come from the same inputs at the same places and in the same order. The places
are the code's: the flattened batch and its offsets, the token-to-block table,
the rows of the K and V pools, the flattened block table of decode, the last row
of each request, and the tiles of flash attention with their masks. `FullLogits`
is the reference: the model without a cache on one text, which is what the golden
scripts ask of the transformers library.

### ModelFiles

A script and a program of its files are two processes. The script writes its
files in place, one after the other. It may be interrupted before any step and
run again with other cases, so a program may find files of two runs, or one that
is cut short. Of a file cut short the model has two forms, empty and all but the
last element; `read_bin` and `load_bin` notice both in the same way. A program
reads each file in one step. A row of logits is one element, and the tests'
tolerances are the equality of terms. What the tests then do, building requests
and block tables, calling the model and comparing row after row, is in the
definitions around `Compare`. The golden tests
also load the weights; there they are taken to be right, and
`LoadedWeightsAreTheModels` is about the script that writes them.
`PROMPT_LEN` of test_gpt2_decode_logits.cu is taken to be the length of the
script's prompt, as it is now; and the script's cases to fit the tests
(`CasesFit`): no more of them than `MAX_BATCH_NUM`, and blocks for all of them in
the pool, which the tests number on their own. `meta.json`, which no program reads, is the list
of cases.

### Scheduler

One action is one turn of a loop in the worker, or straight code between two
accesses to what other threads touch. Each C++ queue and local container is a
sequence in `queues`, so a `std::move` that duplicates or drops a request would
show. Requests are records of counters; block ids are in `RealKvAllocator`.
`left` is the loop bound the code computes before a loop (`n`). `reader` and
`async` are the handshake with libuv: the loop clears the pending mark before it
calls `on_response_async`, and sends in between are merged. `stop()` has four
steps, since another thread can be anywhere in between. In the code the server's
destructor calls it; the model allows it at any time.

### Server

Each libuv callback is an action; a callback with a loop of its own (`on_read`
over lines, `on_response_async` over responses) is a step per turn, during which
no other callback runs but the scheduler thread does. A client is an object at
an address and `req_to_client_` holds addresses, as in the code: deleting an
object frees its address and a new connection may get it. Reading a deleted
object is undefined; the model lets it read the old value or end the program.
The bytes are "some token text" and "newline", which is what splitting into
lines tells apart; a line without a token is refused.

### Answers

`Scheduler` has the event loop reduced to a callback that empties the response
queue, `Server` has the scheduler reduced to `Respond`, which answers any
unanswered request. `Answers` is what makes the two fit. It has the requests
handed over, how often each was answered, which had their last response,
whether a response is unread, and whether the loop is reading or bound to be
woken. `Ask` is the event loop's step, `Answer` the worker's, `Read` the
callback's. Both modules implement it (`ImplementsAnswers` in each), with
different mappings: in `Scheduler` the loop is bound to read when the handle is
marked, when the worker is still to send (`has_resp`), or when the callback
runs; in `Server` push and send are one step, so the handle and the callback are
enough. The step a push takes in `Server` may end a request at any token and
must end it at the last, as `Answer` does. So what the server's properties take
for granted of the worker (no answer to what was not asked, none after the last,
never too many, a reading after each) is what the worker is checked and proved
to do. That every request is answered at some time is not in the contract, and
`Server` does not assume it.

### BlockReduce, Argmax, Gemm

A step is one warp (or thread) between two accesses to shared memory;
`__syncthreads` lets nobody pass until all are there. Values are the sequences
of contributions they were made from, so a wrong sum is visible whatever the
numbers; and what a warp gives to the second reduction of layernorm or paged
attention carries the result of the first that the warp has read (`Value`), since
the code computes it from that. Races are undefined in CUDA; the model has the orders in which the two
accesses can take effect. In `Argmax` a step of the scan is one column of one
thread, a step of the tree one thread's comparison with its partner.

`Gemm` has `launch_custom_gemm`'s choice between the decode kernel, the general
kernel and the vectorized one, which looks at no bounds, and the kernels: each
thread's loads into the tiles, the barriers, the products it adds, its stores,
with bias and residual. Blocks touch different elements of C and run one after
the other. Shared memory is undefined before the loads, and the zeros a thread
pads a tile with are terms of the sum like others, so that one too many shows.
What lies outside a matrix is a value of its own, so a load that the
bounds should have prevented ends up in a sum.

## 3. What the runs show

| run | bounds | what it checks |
|---|---|---|
| `block_manager` | pools of 3 and 2, two callers | `FreeListsConsistent`, `NoBlockSharedByCallers`, `NoBlockLeaked`. Three blocks are enough for every order of the stack to differ from every other |
| `real_kv_allocator` | two requests, prompts of 3 and 4 tokens, block size 3, two layers, 6 + 6 blocks, three tokens, one fault | `TablesDoNotAlias`, `NoBlockLeaked`, `TablesFitTokens`, `CacheHoldsAllButTheLastToken`, `SwapRecordsMatchResidency`, `SwappedRequestsFitStaging`, and `ImplementsKvAllocator` (the abstract specification as a property). A prompt of 4 and a grown one of 3 take two blocks per layer and together exceed the pool, so refusals happen; the block boundary is before the first decode of one and at that of the other. With `MAX_SEQ` 6 a swap of a grown request takes all four blocks of the staging buffer |
| `kv_memory` | two requests, prompts of 1 to 3 tokens, block size 2, two layers, 6 + 6 blocks, three tokens, tiles of 2, two swap-ins | `AnswersAreFullRecompute`, `SwapRestoresSlots`. Unequal prompts in one batch tell the offsets apart; a decode crosses a block boundary; two sizes let swaps leave gaps in the CPU pool |
| `kv_swap_layout` | prompts of 3 and 4, two layers, 8 + 8 blocks | violates `SwapRestoresKv` (finding 2) |
| `scheduler_pressure` | three requests, prompts of 1 and 3, 6 + 4 blocks, batches of 2, three tokens, one fault | the safety properties of the scheduler and, as a property, the contract (`ImplementsAnswers`). The pool runs out for prefills and for decodes; a second swap may find no CPU blocks |
| `scheduler_stop` | two requests, prompts of 1, 2 and 4 (4 never fits), block size 1, three blocks per layer, three tokens, a stop at any time | `StopTerminates`, `ResponsesAreRead`, `FittingRequestsFinish`, under fairness. Every decode needs a block: beside another request it is granted, or deferred and granted when the other has finished, or both are refused, which leads to the swaps; a second prompt of 2 is deferred until the first has gone; a text of 2 outgrows the pool. A stop comes in the middle of all this |
| `scheduler_livelock` | two requests that fill the pool | violates `EveryRequestFinishes` (finding 1) |
| `kernels` | 4 warps, 6 keys; 4 threads and 5 columns; tiles of 1 x 3 x 3 and 4 x 4 x 4 | paged attention's reductions are right (`PagedReductionIsRight`, `ScoresComplete`); what the races of layernorm and flash attention can do is bounded (`LayerNormRaceIsConfined`, `ScoreOfThisKey`); `OutputIsFirstMaximum`, with ties, -infinity and NaN in every column, one thread scanning two; `GemmIsTheProduct`, for shapes with and without remainders in each dimension |
| `flash_reduce` | 6 keys | violates `ReductionIsRight` (finding 3) |
| `server` | two addresses, two connections, two requests, two tokens, one failing write | `OneWriteAtATime`, `MapHoldsTheUnanswered`, `StreamInOrder`, `ImplementsAnswers`, and `ResponsesAreSent` under fairness |
| `server_delivery` | the same | violates `ResponsesGoToTheAsker` (finding 4) |
| `model_files` | two runs of a script, two lists of cases and two prompts, two layers, block size 2 | `PassMeansEveryRowIsRight`, `FreshGoldenFilesPass`, `LoadedWeightsAreTheModels`. Two runs are what it takes to mix files; a behaviour is followed until the program has its verdict |

Deadlock checking is off where the system may really stop: a server without
requests, a kernel that has ended, a scheduler after stop.

Some of the properties, in words:

- `SwapOnlyOnGlobalStall`: when the worker looks for a victim, every deferred
  request has been refused with the blocks that are free now. That holds
  because nothing frees blocks between the retries and the search without
  setting a progress flag.
- `NoOvertakingByEqualOrLarger`: README.md:281 promises FCFS admission. The
  code keeps less: a request deferred for lack of blocks is overtaken by later
  ones that need fewer. Never by one that needs as many.
- `AtMostOneSwapped`: the comment in `swap_in` (real_kv_allocator.cu:259) relies
  on it for the CPU blocks of a request lying side by side. It holds as long as
  no CUDA call fails and no text is longer than `MAX_SEQ`, because the swap-in at
  the head of the loop always finds the blocks the swap-out has just freed.
- `SwapRestoresSlots` has that side-by-side layout as its condition. The
  allocator on its own does not keep it: with two requests of different sizes
  swapped in turn the ids get gaps, and `swap_in` would copy blocks of another
  request and index `dst_block_by_cpu_offset` outside its bounds. The
  scheduler's present choice of victims keeps the program from getting there.
- `AnswersAreFullRecompute`: every answer of prefill and of decode, for every
  request of every batch, is what the model gives for the whole text without a
  cache. It takes the tables, the appended rows, the offsets of the batch and the
  masks of the tiles to be right together, over several calls and across frees of
  other requests' blocks. It ends with the first swap-in (finding 2).
- `PassMeansEveryRowIsRight`: whatever the interruptions and the order of script
  and test, a batch test that passes has compared each row with the logits of
  the very text it gave the model. It fails rather than passes on files of two
  runs, unless they agree.
- `GemmIsTheProduct`: each element of C is the sum over k in order, once each,
  with its bias and its old value, and nothing beside C is written.
- `StreamInOrder`: on the way to a client the responses to a request of its own
  are in order and none is there twice; while no write has failed none is
  missing. A failed write leaves a gap and never changes the order.
- `FittingRequestsFinish`: a request whose prompt fits the pool is finished, though
  its decodes may be refused blocks, its prompt be deferred, and prompts that never
  fit stay in the same queues, unless swapping goes on for ever. A request that
  fits does so for ever, so what stands after `~>` must come up again and again
  until it is finished: one swap that is over is no excuse. So the
  livelock of finding 1 is the only way such a request starves, the pause of
  admission included. It takes a CPU pool with room for the victim (both
  pools of the program have 4096 blocks) and no CUDA failure.
- `LayerNormRaceIsConfined`: the first warp's mean is right, another's is right or
  the first warp's share of the second sum. The second sum is one and the same in
  all warps and has each warp's term once, made with the mean that warp has. So
  the row is right when no warp was late; when one was, the variance of every warp
  is wrong (below).
- `ResponsesAreSent`: what the scheduler has answered is written to the client in
  the end, if the client stays and no write fails, whatever other clients do. It
  asks nothing of the scheduler.
- `MapHoldsTheUnanswered`: entries of clients that left are kept until the last
  response, then erased; nothing accumulates.

### Findings

1. **The swap livelock.** Two requests fill the pool and each needs one more
   block. One is swapped out; at the head of the next turn
   `retry_swap_in_requests` (scheduler.cpp:329) takes the freed blocks for it
   again before `retry_deferred_decode` runs; nobody can decode, the same
   victim goes out, and so on for ever. README.md:132 presents swapping as the
   way out of that situation. Because admission stays paused while any work is
   left, no later request is admitted either.
2. **Two layouts of one pool.** Swaps move slots of 2 * BLOCK_SIZE rows from
   2 * b * BLOCK_SIZE on; the kernels keep K and V in separate halves. The slots
   are restored exactly (`SwapRestoresSlots`), which is what
   test_real_kv_swap.cu tests with data it wrote through `block_ptr`, but they
   are not where the kernels put the request's keys and values.
3. **The race in `reduce_dhead64_sum`.** The first lanes of the two warps of a
   row both execute `warp_sums[r][0] += warp_sums[r][1]`. If one stores before
   the other loads, the second half of the dot product counts twice. Both warps
   go on with the same value (`ScoreOfThisKey`), so nothing else diverges.
4. **Responses after a client has left.** The map keeps the address of a deleted
   `ClientConnection`. If a new connection's object gets that address, it
   receives the remaining tokens of the old request.

Seen while modelling and without a run of its own: the race in layernorm; a read of zero bytes closes
the connection (server.cpp:317) although libuv uses it for "nothing to read";
a server without a staging buffer swaps requests out and never in; a prompt beyond
MAX_SEQ or the pool is accepted, and a prompt that never fits is deferred for
ever; the server's 64-bit request ids
pass through an `int`; requests still running at stop() get no last response; a push to a closed
queue is accepted and not served; the comment in can_use_decode_gemm speaks of
M = 1, 2, 4 where the code sends M = 4 to the general kernel;
`launch_gemm_bias_residual` does not look at MINI_LLM_USE_CUBLAS, nor at an M
that is not positive, as the other two entries do.

The race in layernorm: `block_reduce_sum` is called twice with one `shared` array,
and nothing orders a warp's `return shared[0]` in the first call before the first
warp's `shared[warp_id] = val` in the second (warp_reduction.cuh:43 and 25). A
warp that is late takes the first warp's share of the variance for the sum, and
its mean is wrong; the squares it adds to the second sum are taken from that mean
(layernorm.cu:34-42), so the variance is wrong in every warp and the whole row
with it. `LayerNormRaceIsConfined` says exactly which results there can be.
FlashReduce.cfg with `ReduceKernels = {"layernorm"}` violates `ReductionIsRight`
in this way.

### Fairness

`Scheduler`: weak fairness of the worker as a whole (the operating system
schedules the thread), of the event loop's callback (libuv serves a pending
handle) and of a stop() that has begun. Nobody has to submit or to stop. A
`wait_pop` with nothing to do is not enabled, so fairness asks nothing of it.
`Server`: weak fairness of the event loop; writes being called back means that
the clients read. The scheduler does not have to answer there: a prompt that never
fits and finding 1 keep it from answering some requests, so no property of
`Server` may depend on it.

## 4. What is proved

For every value of the constants, every set of callers and requests and every
sequence of calls. The assumptions are those the modules name: pool sizes are
natural numbers; block size, layers, prompts and the tiles of flash attention are
positive; and of the files, what section 2 says of `PROMPT_LEN` and the cases.

**`OperatorProofs`** is what the other proofs have in common. `FreeList` has one
lemma per operator. They say what it
does to a well-formed list (`FreeListOK`: the counter is the length of the stack,
the stack repeats nothing, a flag is set exactly for the ids on it).
`NewPoolOK`, `AllocateOneOK` and `FreeOneOK` are single steps. `TakingOK` is
`allocate`'s loop, and `FreeAllOK` is the loop of `free` for any list of ids,
repeated and wrong ones included. The library's induction theorems have a
predicate as a parameter, which the provers here cannot instantiate. Where an
induction is needed it goes by the least element of a set of natural numbers:
`Induction` has a set in the place of the predicate, and `LoopExists` gives the
function a loop defines. The recursions of `GPT2Model` over layers, rows and keys
are functions, whose values are had from these two.

For `GPT2Model` the results are `PrefillIs` and `DecodeIs`: what a call leaves in
the pool, that it changes no block but those of its batch, and that each row it
answers is the recompute's of the whole text, if the tables of the batch have no
block in common and, for decode, the cache of each request is right. The argument,
in the order of the module:
a hidden row depends only on the text up to its token (`HiddenOfStart`), so
rows cached for a shorter text stay right when it grows; the tiles and masks of
flash attention select exactly the keys up to the query, for every pair of tile
sizes (`FlashKeysAre`), so a layer of prefill is a layer of the recompute
(`PrefillRowsAre`); the flattened batch and the flattened block table, read from
a request's offset on, are that request's (`FlattenParts`, `PartOfBatch`,
`PagedKvIs`); rows written to different places do not disturb each other, in
neither half of the pool (`CellsApart`, `AppendKvIs`), and the tokens of a batch
have different places (`PlacesApart`). `KvMemory` uses them for the program's
allocator, `ModelFiles` for the tables the tests make.

**`BlockManagerProofs`.** The invariant `Inv` is, for each pool, that the free
list is well formed, that what callers hold is disjoint, and that a block is free
exactly when nobody holds it. The parts need each other: that `free_one` does not
push an id twice rests on the flags, and that `allocate` hands out unheld blocks
rests on the stack's ids being those of free blocks. `GrantOK` and `ReturnOK`
say what taking and giving back do to ownership. The two pools do not touch each
other's variables, so the invariant is preserved half by half
(`GpuStepsKeepGpuInv`, `CpuStepsKeepCpuInv`). `FreeListsAlwaysConsistent` and
`BlocksAlwaysAccountedFor` state the properties of the run; `BlocksNeverShared` is that no block is in two callers' hands,
`CanAllocateIsKept` draws the consequence the allocator relies on: after a positive
`can_allocate(n)`, n blocks are there.

**`KvAllocatorProofs`.** The abstract allocator keeps its types, never shares a
block between requests and never splits a cache between the pools
(`AllocatorInvariant`, `BlocksNeverShared`, `CacheNeverSplit`), by one step per
operation and the lemma that adding unheld blocks to one owner keeps owners
disjoint.

**`RealKvAllocatorProofs`** proves every property of the run `real_kv_allocator`.
None of them is inductive as it stands. The proof has two invariants.

- `IInv` is about ownership. The block tables of a request, layer after layer,
  are one list of table entries; `GpuAccountedFor` says that the free list is
  well formed, that no block occurs twice in all those lists together, and that a
  block is free exactly when it occurs in none. `CpuAccountedFor` says the same
  of the swap records. `StageOK` ties the request's stage to where its cache is.
  It is needed because a call's effect depends on all of them: `swap_in` empties
  nothing, so that its request had no GPU blocks must come from `StageOK`; that
  its rollback gives back what it took rests on the taken blocks being in no
  table. The lemmas `PoolGives`, `PoolTakesBack` and `PoolRollsBack` are about
  one pool and any list of blocks; `DealOK` and `DealGrows` say that handing the
  blocks of one `allocate` to the layers in turn puts each in one table;
  `FreeTablesOK` is the loop of `free_request` over the layers. Each call then
  has its lemma (`TakeBlocksKeeps`, `RunKeeps`, `FreeRequestKeeps`,
  `SwapOutKeeps`, `SwapOutFailsKeeps`, `SwapInKeeps`, `SwapInFailsKeeps`), joined
  in `NextKeeps`. `TypeAlwaysOK`, `TablesNeverAlias`, `NoBlockEverLeaked` and
  `SwapRecordsAlwaysMatch` follow from `PoolsAlwaysAccountedFor`.
- `FInv` adds the numbers (`FitOK`): the blocks per layer are those of the tokens
  to hold, the cached tokens are all but the newest, and the record of a swapped
  request has the entries from which `swap_in` rebuilds that count. The
  arithmetic is in `CeilDivIs`, `CeilDivUnique` and `CeilDivNext` (one token more
  needs one block more exactly at a block boundary) and in `TokensRestored` (the
  sum over the entries of the first layer is the count that was swapped out,
  whether the last block was full or not). `TablesAlwaysFit`, `CacheAlwaysHolds`
  and `SwappedAlwaysFitStaging` follow from `RequestsAlwaysFit`.
- `ImplementsAbstract` is the refinement: with `own` the blocks in a request's
  tables, `cpuOwn` those in its swap record and `place` its residency, the
  initial states are the abstract ones and each step is an abstract one or
  changes nothing of the three; calls that fail and are rolled back are among the
  latter. It uses `IInv` for the one thing the abstract steps ask: that the
  blocks taken belonged to nobody, and are as many as were asked for. So what
  `KvAllocatorProofs` says holds of the program's allocator, for every size.
- `MemInv` is for `KvMemory`: `IInv`, and for every swapped request each slot the
  record names in the CPU pool still has what `swap_out` saved. The contents depend
  on the tables: `swap_out` of another request writes to CPU slots that were
  free, so they are not the record's (`TakenIsNew`, from `IInv`, and `SlotsApart`).
  `TableBlocksAre` and `FlattenEqual` find an entry of a table in the flattened
  list of the request's blocks, which the copies go through; `CopiedOut` says what
  the copies of `swap_out` leave. For `swap_in`, `OffsetsInside` is where the blocks
  lying side by side are used: then the offsets from the least id are all
  indices of `dst_block_by_cpu_offset`, and each is hit by one block. So the
  scatter kernel writes each saved slot to the block taken for it and to no
  other (`CopiedBack`), and those are the blocks of the new tables
  (`RestoredBlocksAre`). `ReadyBySwapIn` says that nothing but `swap_in` brings a
  swapped request back. `SwapAlwaysRestoresSlots` is the result.
- `KvInv` is for the answers of the model, also of `KvMemory`. `CachesOK` says what
  the rows in the pool are: for every request, layer and cached token, the place
  its table names has the key and the value that a recompute of the whole text
  without a cache has for that token. It holds until the first swap-in (finding 2),
  hence `swaps = 0`; `CallsOK` adds `FInv`, from which come the room in the tables
  and the tables' being apart (`BatchTablesApart`, from `IInv`); so `PrefillIs` and
  `DecodeIs` apply to every call. Then each operation of the allocator leaves
  the caches as they are (`MemAllocateStays` to `MemRunStays`), a call keeps the
  caches of the requests outside its batch (`CallKeepsCaches`), and
  `AnswersAlwaysFullRecompute` is the result.

**`KernelProofs`** has the six properties of the run `kernels`, for any number of
warps, any power of two of threads up to 1024, tiles of any size that the kernel
can divide and matrices of any shape. Nothing is assumed of the order in which
warps and threads run.

- `ReduceInv`, for paged attention, layernorm and flash attention. `PhaseInv` says
  how the barriers hold the warps together: warps of the same call are between
  the same two barriers, a warp that has gone on to the next call is at most
  before its first barrier, and until then the others have only to return.
  `DataInv` says what is in shared memory: a warp's entry is what it has put there
  for the call (`HasPut`), and the first is the whole once warp 0 has stored it
  (`Stored`), in layernorm only until the next call's value replaces it. The value
  for the second call is made with what the warp has of the first (`Mine`), so it
  changes with the warp's return; the phases say that this is before it puts the
  value anywhere. Without the phases a step of one warp would say nothing of what the others read.
  `PagedReductionAlwaysRight` and `ScoresAlwaysComplete` follow for paged
  attention, whose two calls have arrays of their own. `LayerNormRaceAlwaysConfined`
  follows from `ResultInv`, which has the two values a slow warp can find, and the
  second sum as the terms made with them (`Total`). For paged attention all those
  are right, and the sum is the one that `Whole` describes. In flash
  attention both warps store; `IsScore` is what the outcomes of their race have in
  common, and the third barrier keeps the keys apart (`ScoreAlwaysOfThisKey`).
- `ArgmaxInv`: a thread's pair is the best of the candidates it has seen (`Seen`):
  in the scan the columns of its residue below the one it is at, in the tree the
  columns whose residue modulo the present stride is the thread's. A level of
  the tree joins two residues into one of half the modulus (`ClassHalves`), and
  the best of a union is the better of the two bests (`BestOfBoth`), whatever
  ties, infinities and NaN there are. `InUse` says whose pairs are still looked at. At stride one there is a single
  residue, and that is `ArgmaxIsFirstMaximum`.
- `GemmInv`: the threads are between the same two barriers (`GemmTogether`); a
  place of a tile holds its element, or zero outside the matrix, as soon as the
  threads that load it have (`TilesInv`); a thread's sums are the products up to
  the present tile, in order of k, once each (`AccInv`); and C has the result
  where its owner has stored and is untouched elsewhere (`StoredInv`). The part a
  test would hardly reach is the indexing: `Cut` and `CutOnce` say that quotients
  and remainders cut a range into pieces without gap or overlap, `OwnerIs` and
  `HasOwner` that each place of C belongs to exactly one thread of one block, and
  `ShareCovers` that the strided loads fill the tiles. For the vectorized kernel,
  which checks no bounds, `TileEnds` and `OwnedInside` use what
  `launch_custom_gemm` asks before it chooses that kernel.
  `GemmAlwaysTheProduct` is the result.

**`SchedulerProofs`.** For any finite number of requests: `Requests` is finite,
because the sums of the blocks they hold have to exist. All nine properties of
`scheduler_pressure` are proved.

- `RequestInv` ties three things together: every request is in one queue; its
  state is one the queue allows (`Expected`); what it holds on either pool is what
  its state and its token count ask for (`RecOK`). None of them is inductive
  alone. That a step takes the request it means depends on the queues being
  disjoint, and that a batch has room for the next token depends on what the
  request had when it was deferred, swapped or answered before. `RemoveAtOK`,
  `AppendOK`, `MoveAtOK`, `RotateOK` and their like say what the operators on
  queues do; `MovedKeeps` says that requests changing queue and state together
  keep the invariant. `FitsNext` is the arithmetic of block boundaries.
- `ControlInv` is about the worker's loops: `left`, the turns a loop still has,
  is never more than its queue has requests, though every turn moves one of
  them; the containers local to a function are empty outside it.
  `EachRequestInOneQueue`, `QueueTellsState`, `RoomForTheNextToken` and
  `OneFinalResponse` follow from the two (`InvariantHolds`).
- `PoolInv`: free blocks and the sum over all requests are the pool.
  `MapThenSumSet` is defined by a choice of an order, so `IsSum` says what a sum
  is without one, `SumExists` that there is one, by induction over the least
  cardinality, and `SumChange` what a sum does when one request's share changes.
  With them each step is checked by its own request alone
  (`BlocksAlwaysConserved`).
- `StallInv` is about one turn of the loop: as long as it made no progress, free
  blocks have only become fewer, so whoever was refused is still refused. In
  `retry_prefill` those are the last requests of a queue that is being rotated,
  and when the loop ends they are all of it (`SwapsOnlyWhenStalled`).
- `NoLostWakeup` (`WakeupNeverLost`) needs no other invariant: each step of the
  worker, of the event loop and of stop() keeps it. The runs check it as part of
  the contract.
- `KeepsTheContract`: under the mapping of `Answers` each step is an `Ask`, an
  `Answer`, a `Read` or changes nothing of the contract. It rests on `RequestInv`
  (a request in a batch has not had its last response) and on `Placed`, that who
  is in no queue has had no response. What a step does to the set of requests
  handed over follows from `NoneNew`: only `Submit` brings a request into the
  queues, and none leaves them. `Pushes` gathers what decode and prefill have in
  common when they push a response.

The last part of the module has the two properties that are about several turns
of the loop.

- `NeverTwoSwapped`: the request swapped out last is back before another victim is
  looked for. `AloneInv` says that while no CUDA call has failed a swapped request
  is the only one, that after the swap-out the worker can only be at the end of
  the turn or at the head of the next, and that the request fits the free GPU
  blocks and the staging buffer, so the first `retry_swap_in_requests` takes it
  back. For the last part `CachedInv` bounds the tokens in the cache by the
  prompt and what has been generated. The theorem assumes `TextsFit`: prompt and
  answer are within `MAX_SEQ`. A longer text would need more blocks than the
  staging buffer has and would stay swapped out.
- `NoOvertaking`: the condition `OvertakeInv` says the same of the queues. It needs
  `OrderInv`, the order of arrival: within `request_queue_`, the waiting and the
  deferred queue, and from one to the next. Deferred requests that are refused
  go to the back, so during `retry_deferred_prefill` the queue is a rotation of
  the order (`InOrder` with `Untried`), and the order is back when the loop ends
  (`TurnInOrder`). `RefusedInv` says that whoever was refused in this turn is
  refused still, since only admissions change the free blocks between the first
  retry and the last admission. When a request is admitted, an earlier one that
  waits is then among the refused, and needs more than was free.

**`ServerProofs`**, for any sets of connections, addresses and requests. `Inv`
is `ClientInv`, about each client's writes, and `RequestInv`, about the requests;
`ContractInv` adds the bytes and `TypeInv` the history.

- `WriteInv`: the three flags and the two queues of a client belong together
  (`HandleOK`, `QueueServed`), `closing` included, which says whose callbacks may
  still come. `AtInv` is needed with it: `on_read` goes on with the object it was
  called with, which must not have been deleted in between. `EnqueueWriteOK` is
  `enqueue_write` with `start_write`, in one lemma for every caller
  (`WritesOneAtATime`).
- `RequestInv`: the map has the requests whose last response is not processed,
  and a last response in the queue is the only one of its request (`OneLast`);
  without that, processing one would erase an entry another one still needs
  (`MapAlwaysHoldsTheUnanswered`). `AnsweredInv` adds that whoever may still be
  answered has tokens left.
- `BytesInv` bounds the request ids. A request's line takes two bytes, and a byte
  received is in the buffer of one client or spent on the line of one request.
  `Room` says so without a sum over the clients: every byte has a place of its
  own among those received, and the spent ones are a set of twice as many as
  there are requests. Reading, cutting off a line and closing a client rearrange
  the places (`RoomGrows`, `RoomSpends`, `RoomShrinks`). With `Inv` it is
  `ContractInv`, and `NeverTooManyRequests` is its theorem.
- `ServerKeepsTheContract`: under the mapping of `Answers` each callback and each
  step of the scheduler's stand-in is a step of the contract or changes nothing of
  it. With `KeepsTheContract` of `SchedulerProofs` both sides are proved.
- `TypeAlwaysOK` follows, with `HistoryInv` for the variables that only record.
- `StreamsStayInOrder`: on its way to a client a response is in one of four
  sequences: sent, `pending`, `write_queue`, `response_queue`. `Flow` says of one
  request what its tokens in the four are: each sequence sorted, each below the
  next, and, while no write has failed, all those answered. Each thing that can
  happen to a text has its lemma: it is answered, read, queued, handed to a
  write, sent, or lost with a failed write (`AnswerKeeps`, `ReadKeeps`,
  `HandOverKeeps`, `SentKeeps`, `DropKeeps`, `WriteLostKeeps`); `OneStream` joins
  the four into the one sequence the property speaks of. `StreamInv` is `Flow` for the
  requests of every open client, and is not inductive alone. That a response
  read goes to the client that asked is `RouteInv`: objects alive at one time
  have different connections, and the entry of a request is the address of its
  asker's object for as long as that object is there. That the entry is there
  when the response is read is `QueueInv`: the last response of a request is behind
  its others. And `IdsInv` has no text and no answer of a request that is still to
  come, so that a new one starts with nothing under way. Finding 4 does not
  contradict this: a new client may receive another one's tokens, but its own
  are in order between them.

**`ModelFilesProofs`** has the three properties of the run `model_files`, for every
size of the model and of the pool, every prompt and every list of cases that fits,
and any number of runs of the script.

- `LoadedWeightsAlwaysTheModels`. `ExportInv` says that each file on the
  disk is the start of the tensor it is named after, in whatever run of the export it
  was opened, closed or cut short: a name belongs to one tensor (`SavedAre`,
  `OfLayersAre`), and a start of the tensor is all that any step leaves
  (`RowMajorStarts`, `WriteKeeps`). `LoadInv` adds that what `load_weights` has got past
  are whole tensors, by their number of elements, which is all it looks at
  (`ReadFileKeeps`). `WeightsInv` joins the two. Neither would do alone: with
  the length the only thing checked, that the elements are those of the tensor
  must come from the files.
- `PassAlwaysMeansEveryRowIsRight`. One would expect an invariant that ties the
  files of a run to each other, and there is none to find: any mixture of two runs
  can be on the disk. `GoldenInv` says only that a file may be the start of some
  output (`MayBeIn`) and that a program with the verdict "pass" has it on what it has
  read. The property follows because the verdict itself is that strict, for any
  such files at all: it is "pass" exactly when the rows the test goes on with are
  those of the recompute of the text it gave the model (`PrefillVerdictIs`,
  `DecodeVerdictIs`, `BatchPrefillVerdictIs`, `BatchDecodeVerdictIs`). These take the
  tables the batch tests number one after the other to be tables of a batch with no
  block in common (`TablesAre`), then `PrefillIs` and `DecodeIs`.
- `FreshGoldenFilesAlwaysPass` is the other direction, and needs the files.
  `WrittenInv`: the outputs before the present one are in their files, and after a
  whole run all are. Two outputs to one file would not keep that up unless they
  were the same (`SameFileSameElements`). `FreshInv`: a program that began after a
  whole run has read of each file what the run wrote, and its verdict is neither
  "exit" nor "fail". The step to the verdict is that the prompts the script flattens
  are cut apart again by the lengths it wrote beside them (`FlatIs`), that the
  cases fit the checks the tests make (`CasesPass`, the one use of `CasesFit`), and
  that the rows are the recompute's, by the verdict lemmas. For the weights it is
  that the loader's list of tensors has the sizes of the files (`LoadedAreSaved`).
  `FreshProgram` joins the five programs.

Only model-checked: the liveness of the scheduler and of the server
(`StopTerminates`, `ResponsesAreRead`, `FittingRequestsFinish`, `ResponsesAreSent`),
since the proof system treats neither fairness nor ENABLED.

The four runs that expect a violation are TLC's as well.

## 5. What is not modelled

- Floating-point arithmetic, and with it the numbers that embedding, gelu,
  residual and softmax compute: in `GPT2Model` they are terms. Embedding,
  residual and gelu have no shared state. `torch.argmax`, `numpy` and the argmax
  kernel are taken to break ties alike in `ModelFiles`; `Argmax` has the
  kernel's own tie-break.
- The cuBLAS path of the products, `alpha`, the fused gelu.
- `wte_t`, the transposed embedding the model makes for itself when it loads; the
  device buffers, whose sizes are constants.
- Allocating memory at start-up, command line and profiling.
- Token values: which token ends a text is a free choice.
- `MockKvAllocator` and `MockBackend`, test doubles.

## 6. Plan

Built in this order: free lists and block manager; abstract and real allocator;
pool contents; scheduler; kernels' reductions and argmax; server; the model on
its pools; the files of the scripts; the matrix products. Next:

1. `Server` and `Scheduler` in one run on a tiny instance, instead of each against
   `Answers`; it would also join the liveness of the two.
2. Proofs: every safety property, action property and refinement that a passing
   run checks is proved. What is left is the liveness named at the end of section 4.
