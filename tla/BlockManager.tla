---------------------------- MODULE BlockManager ----------------------------
(***************************************************************************)
(* BlockManager as a class: any number of callers allocate and free blocks *)
(* of the two pools through its public operations.  A caller may pass to   *)
(* free_one a block it holds, a block that is free already (a double free) *)
(* or an id outside the pool; it does not pass a block somebody else holds.*)
(***************************************************************************)
EXTENDS FreeList, FiniteSets

CONSTANTS TOTAL_BLOCKS,      \* pool.total_blocks()
          TOTAL_CPU_BLOCKS,  \* cpu_pool.total_blocks()
          Callers,           \* the requests on whose behalf blocks are taken
          MAX_N,             \* bound: the largest n passed to allocate(n)
          MAX_FILL           \* bound: the largest filled_ a caller reserves

ASSUME BlockManagerAssumption ==
    /\ TOTAL_BLOCKS \in Nat /\ TOTAL_CPU_BLOCKS \in Nat
    /\ MAX_N \in Nat /\ MAX_FILL \in Nat

VARIABLES gpu,      \* GPU free list
          cpu,      \* CPU free list
          filled,   \* PhysicalBlock.filled_ of each GPU block
          held,     \* held[c]: GPU blocks returned to c and not freed by c
          cpuHeld   \* the same for CPU blocks

vars == <<gpu, cpu, filled, held, cpuHeld>>

GpuBlocks == 0..(TOTAL_BLOCKS - 1)
CpuBlocks == 0..(TOTAL_CPU_BLOCKS - 1)

\* Every variable has its type.
TypeOK ==
    /\ gpu \in [ids : Seq(GpuBlocks), isFree : [GpuBlocks -> BOOLEAN], count : Int]
    /\ cpu \in [ids : Seq(CpuBlocks), isFree : [CpuBlocks -> BOOLEAN], count : Int]
    /\ filled \in [GpuBlocks -> Nat]
    /\ held \in [Callers -> SUBSET GpuBlocks]
    /\ cpuHeld \in [Callers -> SUBSET CpuBlocks]

Init ==
    /\ gpu = NewPool(TOTAL_BLOCKS)
    /\ cpu = NewPool(TOTAL_CPU_BLOCKS)
    /\ filled = [b \in GpuBlocks |-> 0]
    /\ held = [c \in Callers |-> {}]
    /\ cpuHeld = [c \in Callers |-> {}]
-----------------------------------------------------------------------------
\* An empty pool answers -1 and nothing changes, so only a success is a step.
AllocateOne(c) ==
    /\ gpu.ids # <<>>
    /\ gpu' = AfterAllocateOne(gpu)
    /\ filled' = [filled EXCEPT ![AllocatedOne(gpu)] = 0]
    /\ held' = [held EXCEPT ![c] = @ \cup {AllocatedOne(gpu)}]
    /\ UNCHANGED <<cpu, cpuHeld>>

\* allocate(n): an empty vector unless can_allocate(n), else n allocate_one.
Allocate(c, n) ==
    /\ CanAllocate(gpu, n)
    /\ LET got == {Taken(gpu, n)[i] : i \in 1..n}
       IN  /\ gpu' = AfterTaking(gpu, n)
           /\ filled' = [b \in GpuBlocks |-> IF b \in got THEN 0 ELSE filled[b]]
           /\ held' = [held EXCEPT ![c] = @ \cup got]
    /\ UNCHANGED <<cpu, cpuHeld>>

\* The guard of free_one: only a block in use is put back.
Freed(p, b) == b \in BlocksOf(p) /\ ~p.isFree[b]

\* One free_one call; free(vector) is a sequence of them.
FreeGpu(c, b) ==
    /\ Freed(gpu, b) => b \in held[c]
    /\ gpu' = FreeOne(gpu, b)
    /\ filled' = IF Freed(gpu, b) THEN [filled EXCEPT ![b] = 0] ELSE filled
    /\ held' = [held EXCEPT ![c] = @ \ {b}]
    /\ UNCHANGED <<cpu, cpuHeld>>

\* block(b).reserve_tokens(n) by the holder of b.
ReserveTokens(c, b, n) ==
    /\ b \in held[c]
    /\ filled[b] + n <= MAX_FILL
    /\ filled' = [filled EXCEPT ![b] = @ + n]
    /\ UNCHANGED <<gpu, cpu, held, cpuHeld>>

AllocateCpuOne(c) ==
    /\ cpu.ids # <<>>
    /\ cpu' = AfterAllocateOne(cpu)
    /\ cpuHeld' = [cpuHeld EXCEPT ![c] = @ \cup {AllocatedOne(cpu)}]
    /\ UNCHANGED <<gpu, filled, held>>

\* allocate_cpu(n) tests the counter, then pops; should the stack run out
\* before n pops it puts back what it took and returns nothing.
AllocateCpu(c, n) ==
    /\ CanAllocate(cpu, n)
    /\ IF n <= Len(cpu.ids)
       THEN /\ cpu' = AfterTaking(cpu, n)
            /\ cpuHeld' = [cpuHeld EXCEPT ![c] = @ \cup {Taken(cpu, n)[i] : i \in 1..n}]
       ELSE /\ cpu' = FreeAll(AfterTaking(cpu, Len(cpu.ids)), Taken(cpu, Len(cpu.ids)))
            /\ UNCHANGED cpuHeld
    /\ UNCHANGED <<gpu, filled, held>>

FreeCpu(c, b) ==
    /\ Freed(cpu, b) => b \in cpuHeld[c]
    /\ cpu' = FreeOne(cpu, b)
    /\ cpuHeld' = [cpuHeld EXCEPT ![c] = @ \ {b}]
    /\ UNCHANGED <<gpu, filled, held>>

\* The ids a caller may pass: the pool's and one on either side.
Next ==
    \E c \in Callers :
        \/ AllocateOne(c)
        \/ AllocateCpuOne(c)
        \/ \E n \in 1..MAX_N : Allocate(c, n) \/ AllocateCpu(c, n)
        \/ \E b \in -1..TOTAL_BLOCKS : FreeGpu(c, b)
        \/ \E b \in -1..TOTAL_CPU_BLOCKS : FreeCpu(c, b)
        \/ \E b \in GpuBlocks, n \in 1..MAX_FILL : ReserveTokens(c, b, n)

Spec == Init /\ [][Next]_vars
-----------------------------------------------------------------------------
(* Properties *)

\* Stack, flags and counter of both pools agree after every legal or ignored
\* call, so a positive can_allocate(n) means that n calls of allocate_one
\* succeed (the assert in allocate(), and the branches of the allocator that
\* would leave a request half allocated).
FreeListsConsistent == FreeListOK(gpu) /\ FreeListOK(cpu)

Exclusive(h) == \A c, d \in Callers : c # d => h[c] \cap h[d] = {}

\* No block of either pool is in the hands of two callers: the stack never
\* hands out a block that was not given back, whatever is freed twice.
NoBlockSharedByCallers == Exclusive(held) /\ Exclusive(cpuHeld)

\* A block in nobody's hands is free and one in somebody's hands is not: no
\* sequence of calls leaks a block or frees one under its holder.
NoBlockLeaked ==
    /\ \A b \in GpuBlocks : gpu.isFree[b] <=> \A c \in Callers : b \notin held[c]
    /\ \A b \in CpuBlocks : cpu.isFree[b] <=> \A c \in Callers : b \notin cpuHeld[c]

\* A block on the free list carries no count of tokens of its last holder.
FreeBlocksAreEmpty == \A b \in GpuBlocks : gpu.isFree[b] => filled[b] = 0
=============================================================================
