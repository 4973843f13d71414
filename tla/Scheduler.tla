----------------------------- MODULE Scheduler -----------------------------
(***************************************************************************)
(* The scheduler thread (worker_loop and the functions it calls), the event *)
(* loop that submits requests and reads responses, and the thread that     *)
(* calls stop().  The worker is the only one to touch the internal queues  *)
(* and the KV blocks; it shares request_queue_, response_queue_, running_  *)
(* and the uv_async handle with the others.  A step of the worker is one   *)
(* iteration of a loop or one straight piece of code between two accesses  *)
(* to what is shared; `left' is the local counter of the loop it is in.    *)
(*                                                                         *)
(* Every queue that can own a request is a component of `queues', the      *)
(* local containers batch and next_decode_queue included: the code moves   *)
(* a unique_ptr from one to another.  RealKvAllocator is taken by what it  *)
(* counts: blocks per layer of each request and free blocks of each pool   *)
(* (module RealKvAllocator shows that these counts are exact).             *)
(* The responses themselves are left out but for how many were pushed for  *)
(* each request and whether the queue holds any.                           *)
(***************************************************************************)
EXTENDS Integers, Sequences, FiniteSets, SequencesExt, FiniteSetsExt

CONSTANTS Requests,                 \* bound: the requests ever submitted
          PromptLens,               \* the prompt lengths the clients send
          DEFAULT_KV_BLOCK_SIZE,
          GPT2_N_LAYERS,
          DEFAULT_TOTAL_KV_BLOCKS,
          DEFAULT_TOTAL_CPU_BLOCKS,
          MAX_SEQ,
          MAX_BATCH_NUM,
          MAX_NEW_TOKENS,           \* Request.max_new_tokens
          MAX_FAULTS,               \* bound: CUDA calls that fail
          MAY_STOP                  \* whether somebody calls stop()

ASSUME SchedulerAssumption ==
    /\ {DEFAULT_KV_BLOCK_SIZE, GPT2_N_LAYERS, MAX_BATCH_NUM, MAX_NEW_TOKENS} \subseteq Nat \ {0}
    /\ {DEFAULT_TOTAL_KV_BLOCKS, DEFAULT_TOTAL_CPU_BLOCKS, MAX_SEQ, MAX_FAULTS} \subseteq Nat
    /\ PromptLens \subseteq Nat \ {0}
    /\ MAY_STOP \in BOOLEAN
    /\ IsFiniteSet(Requests)

VARIABLES queues,            \* every container of requests
          req,               \* the fields of each request
          prompts_len,       \* of each request, fixed when it is created
          gpu_free, cpu_free,\* free blocks of the two pools
          capacity,          \* swap_in_capacity_blocks_
          faults,            \* CUDA failures so far
          admission_paused_,
          running_,
          closed,            \* request_queue_.closed_
          pc,                \* where the worker is
          left,              \* iterations left of the worker's loop
          is_progress,
          has_resp,
          unread,            \* response_queue_ is not empty
          async,             \* a uv_async_send the event loop has not served
          reader,            \* the event loop: idle, in on_response_async, leaving it
          stopper            \* where stop() is

kv == <<gpu_free, cpu_free, capacity, faults>>
shared == <<running_, closed, unread, async, reader, stopper>>
internal == <<req, prompts_len, kv, admission_paused_, pc, left, is_progress, has_resp>>
vars == <<queues, internal, shared>>

InternalQueues == {"waiting_prefill", "prefill", "decode", "deferred_prefill",
                   "deferred_decode", "swap_out"}
QueueNames == InternalQueues \cup {"request", "finish", "batch", "next_decode"}

\* A request as the server creates it.
NewRequest == [state |-> "WaitingPrefill", kv_residency |-> "None",
               blocks |-> 0,        \* blocks per layer on the GPU
               cpu_blocks |-> 0,    \* blocks per layer in its swap record
               tokens |-> 0,        \* num_tokens_, or what the record restores
               generated |-> 0,     \* generated_tokens()
               arrival |-> 0,       \* history: its place among the submitted
               responses |-> 0, finals |-> 0]  \* history: pushed for it

CeilDiv(a, b) == (a + b - 1) \div b
Lesser(a, b) == IF a < b THEN a ELSE b

StagingBlocks == CeilDiv(MAX_SEQ, DEFAULT_KV_BLOCK_SIZE) * GPT2_N_LAYERS

\* The worker has been started and is about to enter its loop.
Init ==
    /\ queues = [q \in QueueNames |-> <<>>]
    /\ req = [r \in Requests |-> NewRequest]
    /\ prompts_len \in [Requests -> PromptLens]
    /\ gpu_free = DEFAULT_TOTAL_KV_BLOCKS
    /\ cpu_free = DEFAULT_TOTAL_CPU_BLOCKS
    /\ \/ capacity = StagingBlocks /\ faults = 0
       \/ capacity = 0 /\ faults = 1 /\ MAX_FAULTS > 0
    /\ admission_paused_ = FALSE
    /\ running_ = TRUE /\ closed = FALSE
    /\ pc = "loop" /\ left = 0 /\ is_progress = FALSE /\ has_resp = FALSE
    /\ unread = FALSE /\ async = FALSE /\ reader = "idle" /\ stopper = "idle"
-----------------------------------------------------------------------------
(* Moving requests between queues *)

MoveAtKeeping(qs, i, from, to) ==  \* fault: erase is missing
    [qs EXCEPT ![to] = Append(@, qs[from][i])]

\* The i-th request of one queue goes to the back of another, or of the same.
MoveAt(qs, i, from, to) ==
    LET without == [qs EXCEPT ![from] = RemoveAt(@, i)]
    IN  [without EXCEPT ![to] = Append(@, qs[from][i])]

MoveFront(qs, from, to) == MoveAt(qs, 1, from, to)

\* The same for the first n.
MoveFirst(qs, n, from, to) ==
    [qs EXCEPT ![from] = SubSeq(@, n + 1, Len(@)), ![to] = @ \o SubSeq(qs[from], 1, n)]

WorkForgotten ==  \* fault: deferred_prefill_queue_ is not asked
    \A q \in InternalQueues \ {"deferred_prefill"} : queues[q] = <<>>

no_internal_work == \A q \in InternalQueues : queues[q] = <<>>

\* The worker goes on at `next', with a loop over what is in queue q now.
GoToLoop(next, qs, q) == pc' = next /\ left' = Len(qs[q])
GoTo(next) == pc' = next /\ left' = 0
Iterate == pc' = pc /\ left' = left - 1
-----------------------------------------------------------------------------
(* The worker: the head of the loop and the entry of new requests *)

LoopHead ==
    /\ pc = "loop"
    /\ GoTo(IF running_ THEN "drain" ELSE "exited")
    /\ is_progress' = FALSE
    /\ UNCHANGED <<queues, req, prompts_len, kv, admission_paused_, has_resp, shared>>

drain_new_requests ==
    MoveFirst(queues, IF admission_paused_ THEN 0 ELSE Lesser(MAX_BATCH_NUM, Len(queues["request"])),
              "request", "waiting_prefill")

DrainNewRequests ==
    /\ pc = "drain"
    /\ queues' = drain_new_requests
    /\ GoToLoop("swap_in_1", queues, "swap_out")
    /\ UNCHANGED <<req, prompts_len, kv, admission_paused_, is_progress, has_resp, shared>>

(* retry_swap_in_requests, called three times per loop *)

AfterSwapIn == [swap_in_1 |-> "retry_decode", swap_in_2 |-> "retry_prefill",
                swap_in_3 |-> "victim"]

\* swap_in succeeds: enough GPU blocks, and a staging buffer that is big enough.
CanSwapIn(r) ==
    LET expected == req[r].cpu_blocks * GPT2_N_LAYERS
    IN  gpu_free >= expected /\ expected <= capacity

SwapInOne ==
    /\ pc \in DOMAIN AfterSwapIn /\ left > 0
    /\ LET r        == Head(queues["swap_out"])
           expected == req[r].cpu_blocks * GPT2_N_LAYERS
       IN  \/ /\ CanSwapIn(r)
              /\ queues' = MoveFront(queues, "swap_out", "decode")
              /\ req' = [req EXCEPT ![r].state = "DecodeReady", ![r].kv_residency = "Gpu",
                                    ![r].blocks = req[r].cpu_blocks, ![r].cpu_blocks = 0]
              /\ gpu_free' = gpu_free - expected
              /\ cpu_free' = cpu_free + expected
              /\ is_progress' = TRUE
              /\ UNCHANGED faults
           \/ \* no room, or a copy fails and is rolled back
              /\ CanSwapIn(r) => faults < MAX_FAULTS
              /\ faults' = IF CanSwapIn(r) THEN faults + 1 ELSE faults
              /\ queues' = MoveFront(queues, "swap_out", "swap_out")
              /\ UNCHANGED <<req, gpu_free, cpu_free, is_progress>>
    /\ Iterate
    /\ UNCHANGED <<prompts_len, capacity, admission_paused_, has_resp, shared>>

SwapInDoneSkippingDeferred ==  \* fault: retry_deferred_prefill is missing
    /\ pc \in DOMAIN AfterSwapIn /\ left = 0
    /\ IF pc = "swap_in_2" THEN GoToLoop("admit", queues, "waiting_prefill")
       ELSE GoTo(AfterSwapIn[pc])
    /\ UNCHANGED <<queues, req, prompts_len, kv, admission_paused_, is_progress, has_resp, shared>>

SwapInDone ==
    /\ pc \in DOMAIN AfterSwapIn /\ left = 0
    /\ IF pc = "swap_in_2" THEN GoToLoop("retry_prefill", queues, "deferred_prefill")
       ELSE GoTo(AfterSwapIn[pc])
    /\ UNCHANGED <<queues, req, prompts_len, kv, admission_paused_, is_progress, has_resp, shared>>

(* retry_deferred_decode and run_decode_batch *)

RetryDeferredDecode ==
    /\ pc = "retry_decode"
    /\ queues' = MoveFirst(queues, Len(queues["deferred_decode"]), "deferred_decode", "decode")
    /\ req' = [r \in Requests |->
                  IF Contains(queues["deferred_decode"], r)
                  THEN [req[r] EXCEPT !.state = "DecodeReady"] ELSE req[r]]
    /\ GoToLoop("decode", queues', "decode")
    /\ UNCHANGED <<prompts_len, kv, admission_paused_, is_progress, has_resp, shared>>

DecodeNeedOneLate(r) ==  \* fault: asks for the block one token too late
    IF req[r].tokens % DEFAULT_KV_BLOCK_SIZE = 1 THEN 1 ELSE 0

DecodeNeed(r) == IF req[r].tokens % DEFAULT_KV_BLOCK_SIZE = 0 THEN 1 ELSE 0

\* try_admit_decode for the request at the front.
AdmitDecode ==
    /\ pc = "decode" /\ left > 0 /\ Len(queues["batch"]) < MAX_BATCH_NUM
    /\ LET r     == Head(queues["decode"])
           total == DecodeNeed(r) * GPT2_N_LAYERS
       IN  IF gpu_free >= total
           THEN /\ queues' = MoveFront(queues, "decode", "batch")
                /\ req' = [req EXCEPT ![r].state = "DecodeRunning", ![r].kv_residency = "Gpu",
                                      ![r].blocks = @ + DecodeNeed(r)]
                /\ gpu_free' = gpu_free - total
           ELSE /\ queues' = MoveFront(queues, "decode", "deferred_decode")
                /\ req' = [req EXCEPT ![r].state = "DeferredDecodeKV"]
                /\ UNCHANGED gpu_free
    /\ Iterate
    /\ UNCHANGED <<prompts_len, cpu_free, capacity, faults, admission_paused_, is_progress,
                   has_resp, shared>>

RunDecodeUnnoticed ==  \* fault: progress is not set
    /\ pc = "decode" /\ queues["batch"] # <<>>
    /\ left = 0 \/ Len(queues["batch"]) = MAX_BATCH_NUM
    /\ pc' = "decode_out"
    /\ UNCHANGED <<queues, req, prompts_len, kv, admission_paused_, left, is_progress,
                   has_resp, shared>>

\* backend_.decode on a full batch, or on what is left.
RunDecode ==
    /\ pc = "decode" /\ queues["batch"] # <<>>
    /\ left = 0 \/ Len(queues["batch"]) = MAX_BATCH_NUM
    /\ pc' = "decode_out" /\ left' = left
    /\ is_progress' = TRUE
    /\ UNCHANGED <<queues, req, prompts_len, kv, admission_paused_, has_resp, shared>>

IsFinishOneLate(r) ==  \* fault: > in isfinish
    req[r].generated + 1 > MAX_NEW_TOKENS

\* isfinish() once the token of this response has been appended.
IsFinish(r) == req[r].generated + 1 >= MAX_NEW_TOKENS

\* The counters of a request that has got a response.
Counted(rec, done) ==
    [rec EXCEPT !.generated = @ + 1, !.responses = @ + 1, !.finals = IF done THEN @ + 1 ELSE @]

FinishedResident(rec) ==  \* fault: free_request leaves kv_residency alone
    [rec EXCEPT !.state = "Finished", !.blocks = 0, !.tokens = 0]

\* The request after free_request.
Finished(rec) ==
    [rec EXCEPT !.state = "Finished", !.kv_residency = "None", !.blocks = 0, !.tokens = 0]

FreedOfOneLayer(r) ==  \* fault: only one layer is freed
    gpu_free + req[r].blocks

\* The free blocks after free_request.
Freed(r) == gpu_free + req[r].blocks * GPT2_N_LAYERS

\* The response of the backend for r: `eos' when the token ends the text, or
\* when the backend returned too few responses (token -1, finished).
Respond(r, eos, cached, continue) ==
    LET done == eos \/ IsFinish(r)
        rec  == Counted(req[r], done)
    IN  /\ req' = [req EXCEPT ![r] =
               IF done THEN Finished(rec) ELSE [rec EXCEPT !.state = "DecodeReady", !.tokens = cached]]
        /\ gpu_free' = IF done THEN Freed(r) ELSE gpu_free
        /\ queues' = MoveFront(queues, "batch", IF done THEN "finish" ELSE continue)
        /\ unread' = TRUE
        /\ has_resp' = TRUE

AnnounceUnlessReading ==  \* fault: no uv_async_send while the callback runs
    /\ async' = (async \/ (has_resp /\ reader = "idle"))
    /\ has_resp' = FALSE

\* One uv_async_send for all the responses of a call.
Announce ==
    /\ async' = (async \/ has_resp)
    /\ has_resp' = FALSE

DecodeOut ==
    /\ pc = "decode_out"
    /\ IF queues["batch"] = <<>>
       THEN pc' = "decode" /\ UNCHANGED <<queues, req, gpu_free, unread, has_resp>>
       ELSE /\ \E eos \in BOOLEAN :
                 LET r == Head(queues["batch"])
                 IN  Respond(r, eos, req[r].tokens + 1, "next_decode")
            /\ pc' = pc
    /\ UNCHANGED <<prompts_len, cpu_free, capacity, faults, admission_paused_, left,
                   is_progress, running_, closed, async, reader, stopper>>

\* The end of run_decode_batch: the survivors are ready again.
DecodeDone ==
    /\ pc = "decode" /\ left = 0 /\ queues["batch"] = <<>>
    /\ queues' = MoveFirst(queues, Len(queues["next_decode"]), "next_decode", "decode")
    /\ Announce
    /\ GoToLoop("swap_in_2", queues, "swap_out")
    /\ UNCHANGED <<req, prompts_len, kv, admission_paused_, is_progress, running_, closed,
                   unread, reader, stopper>>

(* retry_deferred_prefill, admit_waiting_prefill and run_prefill_batch *)

PrefillTotal(r) == CeilDiv(prompts_len[r], DEFAULT_KV_BLOCK_SIZE) * GPT2_N_LAYERS

\* allocate_prefill succeeds.
PrefillAdmitted(r) ==
    /\ gpu_free >= PrefillTotal(r)
    /\ gpu_free' = gpu_free - PrefillTotal(r)
    /\ req' = [req EXCEPT ![r].state = "PrefillRunning", ![r].kv_residency = "Gpu",
                          ![r].blocks = CeilDiv(prompts_len[r], DEFAULT_KV_BLOCK_SIZE)]
    /\ is_progress' = TRUE

\* Each deferred request is tried once, in order; an admitted one goes to the
\* front of the prefill queue.
RetryDeferredPrefill ==
    /\ pc = "retry_prefill" /\ left > 0
    /\ LET r == Head(queues["deferred_prefill"])
       IN  \/ /\ PrefillAdmitted(r)
              /\ queues' = [queues EXCEPT !["deferred_prefill"] = Tail(@),
                                          !["prefill"] = <<r>> \o @]
           \/ /\ gpu_free < PrefillTotal(r)
              /\ queues' = MoveFront(queues, "deferred_prefill", "deferred_prefill")
              /\ UNCHANGED <<gpu_free, req, is_progress>>
    /\ Iterate
    /\ UNCHANGED <<prompts_len, cpu_free, capacity, faults, admission_paused_, has_resp, shared>>

RetryPrefillDone ==
    /\ pc = "retry_prefill" /\ left = 0
    /\ GoToLoop("admit", queues, "waiting_prefill")
    /\ UNCHANGED <<queues, req, prompts_len, kv, admission_paused_, is_progress, has_resp, shared>>

\* The first request that does not fit is deferred and ends the loop.
AdmitWaitingPrefill ==
    /\ pc = "admit" /\ left > 0
    /\ LET r == Head(queues["waiting_prefill"])
       IN  \/ /\ PrefillAdmitted(r)
              /\ queues' = MoveFront(queues, "waiting_prefill", "prefill")
              /\ Iterate
           \/ /\ gpu_free < PrefillTotal(r)
              /\ queues' = MoveFront(queues, "waiting_prefill", "deferred_prefill")
              /\ req' = [req EXCEPT ![r].state = "DeferredPrefillKV"]
              /\ GoTo("prefill")
              /\ UNCHANGED <<gpu_free, is_progress>>
    /\ UNCHANGED <<prompts_len, cpu_free, capacity, faults, admission_paused_, has_resp, shared>>

AdmitDone ==
    /\ pc = "admit" /\ left = 0
    /\ GoTo("prefill")
    /\ UNCHANGED <<queues, req, prompts_len, kv, admission_paused_, is_progress, has_resp, shared>>

\* backend_.prefill on the next batch.
RunPrefill ==
    /\ pc = "prefill" /\ queues["prefill"] # <<>>
    /\ queues' = MoveFirst(queues, Lesser(MAX_BATCH_NUM, Len(queues["prefill"])),
                           "prefill", "batch")
    /\ GoTo("prefill_out")
    /\ is_progress' = TRUE
    /\ UNCHANGED <<req, prompts_len, kv, admission_paused_, has_resp, shared>>

PrefillOut ==
    /\ pc = "prefill_out"
    /\ IF queues["batch"] = <<>>
       THEN pc' = "prefill" /\ UNCHANGED <<queues, req, gpu_free, unread, has_resp>>
       ELSE /\ \E eos \in BOOLEAN :
                 LET r == Head(queues["batch"])
                 IN  Respond(r, eos, prompts_len[r], "decode")
            /\ pc' = pc
    /\ UNCHANGED <<prompts_len, cpu_free, capacity, faults, admission_paused_, left,
                   is_progress, running_, closed, async, reader, stopper>>

PrefillDone ==
    /\ pc = "prefill" /\ queues["prefill"] = <<>>
    /\ Announce
    /\ GoToLoop("swap_in_3", queues, "swap_out")
    /\ UNCHANGED <<queues, req, prompts_len, kv, admission_paused_, is_progress, running_,
                   closed, unread, reader, stopper>>

(* try_swap_out_victim, when the loop has made no progress *)

\* The first request of queue q that is on the GPU.
Victims(q) == {i \in DOMAIN queues[q] : req[queues[q][i]].kv_residency = "Gpu"}

VictimQueue == [victim |-> "deferred_decode", victim_2 |-> "decode"]

KeepSwappingOut ==  \* fault: no return after a swap-out
    UNCHANGED <<pc, left, is_progress>>

\* The search returns true at the first victim swapped out.
OneVictimIsEnough == is_progress' = TRUE /\ GoTo("end")

SwapOutVictim ==
    /\ pc \in DOMAIN VictimQueue /\ ~is_progress /\ ~no_internal_work
    /\ LET q      == VictimQueue[pc]
           i      == Min(Victims(q))
           r      == queues[q][i]
           needed == req[r].blocks * GPT2_N_LAYERS
           fits   == 0 < needed /\ needed <= cpu_free
       IN  /\ Victims(q) # {}
           /\ \/ /\ fits
                 /\ queues' = MoveAt(queues, i, q, "swap_out")
                 /\ req' = [req EXCEPT ![r].state = "SwappedOut", ![r].kv_residency = "Cpu",
                                       ![r].cpu_blocks = req[r].blocks, ![r].blocks = 0]
                 /\ gpu_free' = gpu_free + needed
                 /\ cpu_free' = cpu_free - needed
                 /\ admission_paused_' = TRUE
                 /\ OneVictimIsEnough
                 /\ UNCHANGED faults
              \/ \* too few CPU blocks, or a copy fails: to the back of its queue
                 /\ fits => faults < MAX_FAULTS
                 /\ faults' = IF fits THEN faults + 1 ELSE faults
                 /\ queues' = MoveAt(queues, i, q, q)
                 /\ GoTo(IF pc = "victim" THEN "victim_2" ELSE "end")
                 /\ UNCHANGED <<req, gpu_free, cpu_free, admission_paused_, is_progress>>
    /\ UNCHANGED <<prompts_len, capacity, has_resp, shared>>

NoVictim ==
    /\ pc \in DOMAIN VictimQueue
    /\ \/ /\ is_progress \/ no_internal_work
          /\ GoTo("end")
       \/ /\ ~is_progress /\ ~no_internal_work /\ Victims(VictimQueue[pc]) = {}
          /\ GoTo(IF pc = "victim" THEN "victim_2" ELSE "end")
    /\ UNCHANGED <<queues, req, prompts_len, kv, admission_paused_, is_progress, has_resp, shared>>

(* The end of the loop *)

LoopEnd ==
    /\ pc = "end"
    /\ admission_paused_' = (admission_paused_ /\ ~no_internal_work)
    /\ GoTo(IF no_internal_work THEN "wait" ELSE "loop")
    /\ UNCHANGED <<queues, req, prompts_len, kv, is_progress, has_resp, shared>>

\* wait_pop returns a request, or nothing once the queue is closed and empty.
WaitAndEnqueueOneRequest ==
    /\ pc = "wait"
    /\ \/ /\ queues["request"] # <<>>
          /\ queues' = MoveFront(queues, "request", "waiting_prefill")
          /\ UNCHANGED running_
       \/ /\ queues["request"] = <<>> /\ closed
          /\ running_' = FALSE
          /\ UNCHANGED queues
    /\ GoTo("loop")
    /\ UNCHANGED <<req, prompts_len, kv, admission_paused_, is_progress, has_resp, closed,
                   unread, async, reader, stopper>>

Worker ==
    \/ LoopHead \/ DrainNewRequests \/ SwapInOne \/ SwapInDone
    \/ RetryDeferredDecode \/ AdmitDecode \/ RunDecode \/ DecodeOut \/ DecodeDone
    \/ RetryDeferredPrefill \/ RetryPrefillDone \/ AdmitWaitingPrefill \/ AdmitDone
    \/ RunPrefill \/ PrefillOut \/ PrefillDone
    \/ SwapOutVictim \/ NoVictim \/ LoopEnd \/ WaitAndEnqueueOneRequest
-----------------------------------------------------------------------------
(* The other threads *)

Submitted == {r \in Requests : \E q \in QueueNames : Contains(queues[q], r)}

\* Server::submit_request, on the event loop.  A closed queue still takes it.
Submit(r) ==
    /\ r \notin Submitted
    /\ queues' = [queues EXCEPT !["request"] = Append(@, r)]
    /\ req' = [req EXCEPT ![r].arrival = Cardinality(Submitted) + 1]
    /\ UNCHANGED <<prompts_len, kv, admission_paused_, pc, left, is_progress, has_resp, shared>>

\* libuv clears the pending flag, calls on_response_async, and that takes
\* responses until the queue is empty.
ServeAsync ==
    /\ async /\ reader = "idle"
    /\ async' = FALSE /\ reader' = "reading"
    /\ UNCHANGED <<queues, internal, running_, closed, unread, stopper>>

ReadResponses ==
    /\ reader = "reading"
    /\ reader' = "leaving" /\ unread' = FALSE
    /\ UNCHANGED <<queues, internal, running_, closed, async, stopper>>

LeaveCallback ==
    /\ reader = "leaving"
    /\ reader' = "idle"
    /\ UNCHANGED <<queues, internal, running_, closed, unread, async, stopper>>

\* ServerContext::stop closes the queue before it calls Scheduler::stop.
ServerClose ==
    /\ MAY_STOP /\ stopper = "idle"
    /\ closed' = TRUE /\ stopper' = "server"
    /\ UNCHANGED <<queues, internal, running_, unread, async, reader>>

\* Scheduler::stop: running_.store(false), close(), join().
StopRunning ==
    /\ MAY_STOP /\ stopper \in {"idle", "server"}
    /\ running_' = FALSE /\ stopper' = "stored"
    /\ UNCHANGED <<queues, internal, closed, unread, async, reader>>

CloseSilently ==  \* fault: closed_ is not set
    /\ stopper = "stored"
    /\ stopper' = "closed"
    /\ UNCHANGED <<queues, internal, running_, closed, unread, async, reader>>

CloseQueue ==
    /\ stopper = "stored"
    /\ closed' = TRUE /\ stopper' = "closed"
    /\ UNCHANGED <<queues, internal, running_, unread, async, reader>>

Join ==
    /\ stopper = "closed" /\ pc = "exited"
    /\ stopper' = "joined"
    /\ UNCHANGED <<queues, internal, running_, closed, unread, async, reader>>

Next ==
    \/ Worker
    \/ \E r \in Requests : Submit(r)
    \/ ServeAsync \/ ReadResponses \/ LeaveCallback
    \/ ServerClose \/ StopRunning \/ CloseQueue \/ Join

Spec == Init /\ [][Next]_vars

\* The worker thread is scheduled, the event loop serves a pending uv_async, and
\* a Scheduler::stop that has begun goes on.  Nobody has to submit a request or
\* to stop.
Fairness == WF_vars(Worker) /\ WF_vars(CloseQueue \/ Join)
            /\ WF_vars(ServeAsync \/ ReadResponses \/ LeaveCallback)
FairSpec == Spec /\ Fairness
-----------------------------------------------------------------------------
\* A request is owned by one container at a time and by none twice: none of the
\* dozen moves between queues duplicates or drops one (the unique_ptr discipline).
OneQueuePerRequest ==
    /\ \A q \in QueueNames : IsInjective(queues[q])
    /\ \A q1, q2 \in QueueNames : q1 # q2 => ToSet(queues[q1]) \cap ToSet(queues[q2]) = {}
    /\ \A r \in Requests : req[r].arrival > 0 => r \in Submitted

\* Where the request of each container stands: its state, where its KV cache
\* is, and whether that is in step with its token count.
Expected == [request          |-> [state |-> {"WaitingPrefill"},    kv |-> "None"],
             waiting_prefill  |-> [state |-> {"WaitingPrefill"},    kv |-> "None"],
             deferred_prefill |-> [state |-> {"DeferredPrefillKV"}, kv |-> "None"],
             prefill          |-> [state |-> {"PrefillRunning"},    kv |-> "Gpu"],
             batch            |-> [state |-> {"PrefillRunning", "DecodeRunning"}, kv |-> "Gpu"],
             decode           |-> [state |-> {"DecodeReady"},       kv |-> "Gpu"],
             next_decode      |-> [state |-> {"DecodeReady"},       kv |-> "Gpu"],
             deferred_decode  |-> [state |-> {"DeferredDecodeKV"},  kv |-> "Gpu"],
             swap_out         |-> [state |-> {"SwappedOut"},        kv |-> "Cpu"],
             finish           |-> [state |-> {"Finished"},          kv |-> "None"]]

\* The state and the KV residency of a request agree with the queue it is in,
\* so no handler meets a request in a state it does not expect.
StateMatchesQueue ==
    \A q \in QueueNames : \A r \in ToSet(queues[q]) :
        /\ req[r].state \in Expected[q].state
        /\ req[r].kv_residency = Expected[q].kv
        /\ req[r].blocks > 0 <=> req[r].kv_residency = "Gpu"
        /\ req[r].cpu_blocks > 0 <=> req[r].kv_residency = "Cpu"

Held(r) == req[r].blocks * GPT2_N_LAYERS
HeldOnCpu(r) == req[r].cpu_blocks * GPT2_N_LAYERS

\* No path through the queues (deferral, finish, swap, rolled-back swap) loses
\* or invents a KV block: the free ones and those of the requests are all.
BlocksConserved ==
    /\ gpu_free + MapThenSumSet(Held, Requests) = DEFAULT_TOTAL_KV_BLOCKS
    /\ cpu_free + MapThenSumSet(HeldOnCpu, Requests) = DEFAULT_TOTAL_CPU_BLOCKS

\* When a request runs, its table has a row for the token the kernels append;
\* when it does not, it holds no block more than its tokens fill.
RunningRequestsHaveRoom ==
    \A r \in Requests :
        LET capacity_of == (req[r].blocks + req[r].cpu_blocks) * DEFAULT_KV_BLOCK_SIZE
            used == CASE req[r].state = "PrefillRunning" -> prompts_len[r]
                      [] req[r].state = "DecodeRunning"  -> req[r].tokens + 1
                      [] OTHER                           -> req[r].tokens
        IN  used <= capacity_of /\ capacity_of < used + DEFAULT_KV_BLOCK_SIZE

\* A client gets one response per generated token, never more than it may, and
\* a response marked finished exactly once, as the last.
ResponsesWellFormed ==
    \A r \in Requests :
        /\ req[r].responses = req[r].generated
        /\ req[r].generated <= MAX_NEW_TOKENS
        /\ req[r].finals = IF Contains(queues["finish"], r) THEN 1 ELSE 0

\* A victim is looked for only when nobody can run: every deferred request has
\* been refused and nothing has been freed since (test: "scheduler swaps on
\* global stall").
SwapOnlyOnGlobalStall ==
    pc = "victim" /\ ~is_progress =>
        /\ \A q \in {"prefill", "decode", "batch", "next_decode"} : queues[q] = <<>>
        /\ \A r \in ToSet(queues["deferred_decode"]) : gpu_free < DecodeNeed(r) * GPT2_N_LAYERS
        /\ \A r \in ToSet(queues["deferred_prefill"]) : gpu_free < PrefillTotal(r)

\* While no CUDA call fails, at most one request is swapped out: the assumption
\* the comment in swap_in makes about the CPU pool (real_kv_allocator.cu).
AtMostOneSwapped == faults = 0 => Len(queues["swap_out"]) <= 1

\* A response that nobody has read is going to be: the event loop is in the
\* middle of reading, a uv_async_send is pending, or the worker is still to send one.
NoLostWakeup == unread => async \/ reader = "reading" \/ has_resp

Waiting(r) == req[r].state \in {"WaitingPrefill", "DeferredPrefillKV"}

\* What is left of "first come, first served" with deferral and swapping: who is
\* admitted before an earlier request needs fewer blocks than that one.
NoOvertakingByEqualOrLarger ==
    \A r, s \in Submitted :
        req[r].arrival < req[s].arrival /\ Waiting(r) /\ ~Waiting(s)
        => PrefillTotal(s) < PrefillTotal(r)

Done(r) == Contains(queues["finish"], r)

\* Every submitted request is finished.
EveryRequestFinishes == \A r \in Requests : r \in Submitted ~> Done(r)

FittingSubmitted(r) == r \in Submitted /\ PrefillTotal(r) <= DEFAULT_TOTAL_KV_BLOCKS

\* A submitted request whose prompt fits the pool is finished, however often it
\* is deferred for a block and whatever prompts that never fit are ahead of it,
\* unless somebody stops the server or requests are swapped out again and again
\* (a request that fits once fits for ever, so what follows ~> comes up for ever
\* when it is not finished): the livelock EveryRequestFinishes meets is the only
\* way it can starve.  For a CPU pool that can take a victim, and no CUDA failure.
FittingRequestsFinish ==
    \A r \in Requests :
        FittingSubmitted(r) ~> (Done(r) \/ stopper # "idle" \/ queues["swap_out"] # <<>>)

\* Every response that has been pushed is read.
ResponsesAreRead == unread ~> ~unread

\* stop() returns, wherever the worker is when it is called.
StopTerminates == stopper = "stored" ~> stopper = "joined"

\* The event loop sees the scheduler through these.
Contract == INSTANCE Answers
    WITH asked    <- Submitted,
         answered <- [r \in Requests |-> req[r].responses],
         finals   <- {r \in Requests : req[r].finals > 0},
         woken    <- async \/ has_resp \/ reader = "reading"

\* Whatever is deferred, swapped or batched, the scheduler answers what it was
\* asked, at most MAX_NEW_TOKENS times and never after the last response, and
\* leaves no response without a wakeup: all that module Server takes from it.
ImplementsAnswers == Contract!Spec
=============================================================================
