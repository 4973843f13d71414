------------------------- MODULE KvAllocatorProofs -------------------------
(***************************************************************************)
(* The abstract allocator keeps the pools apart for every set of requests  *)
(* and blocks.  RealKvAllocator is checked to implement it, so what holds  *)
(* of every behaviour here is what the scheduler may rely on.              *)
(***************************************************************************)
EXTENDS KvAllocator, TLAPS

\* Type correctness is inductive together with the two ownership properties:
\* the free blocks are those nobody holds, and a swap empties one side only
\* because the cache is on the other.
Inv == TypeOK /\ NoBlockSharedByRequests /\ KvInOnePlace

Disjoint(h) == \A p, q \in Requests : p # q => h[p] \cap h[q] = {}

\* Holdings stay disjoint when r comes to hold blocks that no other request
\* holds: free ones with or without those it had, or none.
LEMMA HoldingKeepsDisjoint ==
    ASSUME NEW blocks, NEW h \in [Requests -> SUBSET blocks], Disjoint(h),
           NEW r \in Requests, NEW T \in SUBSET blocks,
           \A q \in Requests : q # r => T \cap h[q] = {}
    PROVE  /\ [h EXCEPT ![r] = T] \in [Requests -> SUBSET blocks]
           /\ Disjoint([h EXCEPT ![r] = T])
BY DEF Disjoint

\* What is free is held by nobody.
LEMMA FreeIsUnheld ==
    ASSUME NEW blocks, NEW h, NEW S \in SUBSET Free(blocks, h)
    PROVE  S \in SUBSET blocks /\ \A q \in Requests : S \cap h[q] = {}
BY DEF Free

\* The initial state satisfies the invariant: nobody holds anything.
LEMMA InitInv == Init => Inv
BY DEF Init, Inv, TypeOK, NoBlockSharedByRequests, KvInOnePlace

\* Every operation keeps the invariant.
LEMMA StepInv == Inv /\ [Next]_vars => Inv'
<1> SUFFICES ASSUME Inv, [Next]_vars PROVE Inv'
    OBVIOUS
<1>0. /\ own \in [Requests -> SUBSET GpuBlocks] /\ Disjoint(own)
      /\ cpuOwn \in [Requests -> SUBSET CpuBlocks] /\ Disjoint(cpuOwn)
      /\ place \in [Requests -> {"None", "Gpu", "Cpu"}] /\ KvInOnePlace
    BY DEF Inv, TypeOK, NoBlockSharedByRequests, Disjoint
\* It is enough that both holdings stay disjoint and in one place.
<1>a. ASSUME own' \in [Requests -> SUBSET GpuBlocks], Disjoint(own'),
             cpuOwn' \in [Requests -> SUBSET CpuBlocks], Disjoint(cpuOwn'),
             place' \in [Requests -> {"None", "Gpu", "Cpu"}], KvInOnePlace'
      PROVE  Inv'
    BY <1>a DEF Inv, TypeOK, NoBlockSharedByRequests, Disjoint
\* A request that gives up its blocks holds the empty set.
<1>b. ASSUME NEW r \in Requests
      PROVE  /\ [own EXCEPT ![r] = {}] \in [Requests -> SUBSET GpuBlocks]
             /\ Disjoint([own EXCEPT ![r] = {}])
             /\ [cpuOwn EXCEPT ![r] = {}] \in [Requests -> SUBSET CpuBlocks]
             /\ Disjoint([cpuOwn EXCEPT ![r] = {}])
    BY <1>0, HoldingKeepsDisjoint
<1>1. ASSUME NEW r \in Requests, Allocate(r) PROVE Inv'
    <2>1. PICK S \in SUBSET Free(GpuBlocks, own) : own' = [own EXCEPT ![r] = own[r] \cup S]
        BY <1>1 DEF Allocate
    <2>2. cpuOwn' = cpuOwn
        BY <1>1 DEF Allocate
    <2>3. /\ own[r] \cup S \in SUBSET GpuBlocks
          /\ \A q \in Requests : q # r => (own[r] \cup S) \cap own[q] = {}
        BY <1>0, <2>1, FreeIsUnheld DEF Disjoint
    <2>4. own' \in [Requests -> SUBSET GpuBlocks] /\ Disjoint(own')
        BY <1>0, <2>1, <2>3, HoldingKeepsDisjoint
    <2>5. place' \in [Requests -> {"None", "Gpu", "Cpu"}] /\ KvInOnePlace'
        BY <1>0, <1>1, <2>1, <2>2 DEF Allocate, KvInOnePlace
    <2> QED
        BY <1>0, <1>a, <2>2, <2>4, <2>5
<1>2. ASSUME NEW r \in Requests, FreeRequest(r) PROVE Inv'
    <2>1. own' = [own EXCEPT ![r] = {}] /\ cpuOwn' = cpuOwn
        BY <1>2 DEF FreeRequest
    <2>2. place' \in [Requests -> {"None", "Gpu", "Cpu"}] /\ KvInOnePlace'
        BY <1>0, <1>2, <2>1 DEF FreeRequest, KvInOnePlace
    <2> QED
        BY <1>0, <1>a, <1>b, <2>1, <2>2
<1>3. ASSUME NEW r \in Requests, SwapOut(r) PROVE Inv'
    <2>1. PICK S \in SUBSET Free(CpuBlocks, cpuOwn) : cpuOwn' = [cpuOwn EXCEPT ![r] = S]
        BY <1>3 DEF SwapOut
    <2>2. own' = [own EXCEPT ![r] = {}]
        BY <1>3 DEF SwapOut
    <2>3. cpuOwn' \in [Requests -> SUBSET CpuBlocks] /\ Disjoint(cpuOwn')
        BY <1>0, <2>1, FreeIsUnheld, HoldingKeepsDisjoint
    <2>4. place' \in [Requests -> {"None", "Gpu", "Cpu"}] /\ KvInOnePlace'
        BY <1>0, <1>3, <2>1, <2>2 DEF SwapOut, KvInOnePlace
    <2> QED
        BY <1>a, <1>b, <2>2, <2>3, <2>4
<1>4. ASSUME NEW r \in Requests, SwapIn(r) PROVE Inv'
    <2>1. PICK S \in SUBSET Free(GpuBlocks, own) : own' = [own EXCEPT ![r] = S]
        BY <1>4 DEF SwapIn
    <2>2. cpuOwn' = [cpuOwn EXCEPT ![r] = {}]
        BY <1>4 DEF SwapIn
    <2>3. own' \in [Requests -> SUBSET GpuBlocks] /\ Disjoint(own')
        BY <1>0, <2>1, FreeIsUnheld, HoldingKeepsDisjoint
    <2>4. place' \in [Requests -> {"None", "Gpu", "Cpu"}] /\ KvInOnePlace'
        BY <1>0, <1>4, <2>1, <2>2 DEF SwapIn, KvInOnePlace
    <2> QED
        BY <1>a, <1>b, <2>2, <2>3, <2>4
<1>5. CASE UNCHANGED vars
    BY <1>5 DEF vars, Inv, TypeOK, NoBlockSharedByRequests, KvInOnePlace
<1> QED
    BY <1>1, <1>2, <1>3, <1>4, <1>5 DEF Next

\* In every behaviour of the abstract allocator the types are kept, no block
\* belongs to two requests and no cache is in two places.
THEOREM AllocatorInvariant == Spec => []Inv
BY InitInv, StepInv, PTL DEF Spec

\* No two requests ever share a block of either pool (KvAllocator's operations,
\* for any number of requests and blocks).
THEOREM BlocksNeverShared == Spec => []NoBlockSharedByRequests
<1>1. Inv => NoBlockSharedByRequests
    BY DEF Inv
<1> QED
    BY <1>1, AllocatorInvariant, PTL

\* The KV cache of a request is never split between the pools.
THEOREM CacheNeverSplit == Spec => []KvInOnePlace
<1>1. Inv => KvInOnePlace
    BY DEF Inv
<1> QED
    BY <1>1, AllocatorInvariant, PTL
=============================================================================
