---------------------------- MODULE KvAllocator ----------------------------
(***************************************************************************)
(* What the KvAllocator interface promises, whatever implements it: every  *)
(* block of the GPU pool and of the CPU pool belongs to at most one        *)
(* request, and the KV cache of a request is nowhere, all on the GPU or    *)
(* all on the CPU.  Which free blocks a request is given is left open.     *)
(***************************************************************************)
EXTENDS FiniteSets

CONSTANTS Requests, GpuBlocks, CpuBlocks

VARIABLES place,   \* place[r]: None, Gpu or Cpu
          own,     \* own[r]: the GPU blocks of r
          cpuOwn   \* cpuOwn[r]: the CPU blocks of r

vars == <<place, own, cpuOwn>>

Free(blocks, h) == blocks \ UNION {h[r] : r \in Requests}

Init ==
    /\ place = [r \in Requests |-> "None"]
    /\ own = [r \in Requests |-> {}]
    /\ cpuOwn = [r \in Requests |-> {}]

\* allocate_prefill and allocate_decode: free blocks for a request that is not
\* swapped out.
Allocate(r) ==
    /\ place[r] # "Cpu"
    /\ place' = [place EXCEPT ![r] = "Gpu"]
    /\ UNCHANGED cpuOwn
    /\ \E S \in SUBSET Free(GpuBlocks, own) :
          /\ S # {}
          /\ own' = [own EXCEPT ![r] = @ \cup S]

FreeRequest(r) ==
    /\ place[r] = "Gpu"
    /\ place' = [place EXCEPT ![r] = "None"]
    /\ own' = [own EXCEPT ![r] = {}]
    /\ UNCHANGED cpuOwn

\* One CPU block for each GPU block, and back.
SwapOut(r) ==
    /\ place[r] = "Gpu"
    /\ place' = [place EXCEPT ![r] = "Cpu"]
    /\ own' = [own EXCEPT ![r] = {}]
    /\ \E S \in SUBSET Free(CpuBlocks, cpuOwn) :
          /\ Cardinality(S) = Cardinality(own[r])
          /\ cpuOwn' = [cpuOwn EXCEPT ![r] = S]

SwapIn(r) ==
    /\ place[r] = "Cpu"
    /\ place' = [place EXCEPT ![r] = "Gpu"]
    /\ cpuOwn' = [cpuOwn EXCEPT ![r] = {}]
    /\ \E S \in SUBSET Free(GpuBlocks, own) :
          /\ Cardinality(S) = Cardinality(cpuOwn[r])
          /\ own' = [own EXCEPT ![r] = S]

Next == \E r \in Requests : Allocate(r) \/ FreeRequest(r) \/ SwapOut(r) \/ SwapIn(r)

Spec == Init /\ [][Next]_vars
-----------------------------------------------------------------------------
(* Properties *)

\* Every variable has its type.
TypeOK ==
    /\ place \in [Requests -> {"None", "Gpu", "Cpu"}]
    /\ own \in [Requests -> SUBSET GpuBlocks]
    /\ cpuOwn \in [Requests -> SUBSET CpuBlocks]

\* No sequence of admissions, frees and swaps puts a block of either pool into
\* the KV caches of two requests.
NoBlockSharedByRequests ==
    \A r, s \in Requests :
        r # s => own[r] \cap own[s] = {} /\ cpuOwn[r] \cap cpuOwn[s] = {}

\* The KV cache of a request is in one place: no request holds blocks of both
\* pools (RequestState.kv_residency Mixed never arises), and one that is
\* nowhere holds none.
KvInOnePlace ==
    \A r \in Requests :
        /\ own[r] # {} => place[r] = "Gpu"
        /\ cpuOwn[r] # {} => place[r] = "Cpu"
=============================================================================
