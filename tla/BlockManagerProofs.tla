------------------------- MODULE BlockManagerProofs -------------------------
(***************************************************************************)
(* Proofs about BlockManager for every pool size and any set of callers.   *)
(***************************************************************************)
EXTENDS BlockManager, OperatorProofs

-----------------------------------------------------------------------------
\* What NoBlockLeaked says of one pool with blocks B, flags f and holders h.
Accounted(B, f, h) == \A b \in B : f[b] <=> \A c \in Callers : b \notin h[c]

\* Handing free blocks to one caller keeps the holders apart and accounted for.
LEMMA GrantOK ==
    ASSUME NEW B, NEW f, NEW g, NEW h \in [Callers -> SUBSET B], NEW got \in SUBSET B,
           NEW c \in Callers, Exclusive(h), Accounted(B, f, h),
           \A b \in got : f[b],
           \A b \in B : g[b] <=> (f[b] /\ b \notin got)
    PROVE  LET k == [h EXCEPT ![c] = @ \cup got]
           IN  k \in [Callers -> SUBSET B] /\ Exclusive(k) /\ Accounted(B, g, k)
<1> DEFINE k == [h EXCEPT ![c] = @ \cup got]
<1>1. k \in [Callers -> SUBSET B]
    OBVIOUS
<1>2. \A d \in Callers : k[d] = IF d = c THEN h[c] \cup got ELSE h[d]
    OBVIOUS
<1>3. \A d \in Callers : h[d] \cap got = {}
    BY DEF Accounted
<1>4. Exclusive(k)
    BY <1>2, <1>3 DEF Exclusive
<1>5. Accounted(B, g, k)
    BY <1>2 DEF Accounted
<1> QED BY <1>1, <1>4, <1>5

\* Taking back a block from the caller who holds it, or one nobody holds.
LEMMA ReturnOK ==
    ASSUME NEW B, NEW f, NEW g, NEW h \in [Callers -> SUBSET B], NEW b,
           NEW c \in Callers, Exclusive(h), Accounted(B, f, h),
           (b \in B /\ ~f[b]) => b \in h[c],
           \A a \in B : g[a] <=> (f[a] \/ a = b)
    PROVE  LET k == [h EXCEPT ![c] = @ \ {b}]
           IN  k \in [Callers -> SUBSET B] /\ Exclusive(k) /\ Accounted(B, g, k)
<1> DEFINE k == [h EXCEPT ![c] = @ \ {b}]
<1>1. k \in [Callers -> SUBSET B]
    OBVIOUS
<1>2. \A d \in Callers : k[d] = IF d = c THEN h[c] \ {b} ELSE h[d]
    OBVIOUS
<1>3. Exclusive(k)
    BY <1>2 DEF Exclusive
<1>4. ASSUME NEW a \in B PROVE g[a] <=> \A d \in Callers : a \notin k[d]
    <2>1. CASE a # b
        BY <2>1, <1>2 DEF Accounted
    <2>2. CASE a = b
        <3>1. g[a]
            BY <2>2
        <3>2. \A d \in Callers : a \notin k[d]
            BY <2>2, <1>2 DEF Accounted, Exclusive
        <3> QED BY <3>1, <3>2
    <2> QED BY <2>1, <2>2
<1> QED BY <1>1, <1>3, <1>4 DEF Accounted

Inv ==
    /\ TypeOK
    /\ FreeListsConsistent
    /\ NoBlockSharedByCallers
    /\ NoBlockLeaked
    /\ FreeBlocksAreEmpty

\* The half of Inv about the GPU pool, and the half about the CPU pool.
GpuInv ==
    /\ gpu \in PoolType(TOTAL_BLOCKS) /\ FreeListOK(gpu)
    /\ held \in [Callers -> SUBSET GpuBlocks] /\ Exclusive(held)
    /\ Accounted(GpuBlocks, gpu.isFree, held)
    /\ filled \in [GpuBlocks -> Nat]
    /\ FreeBlocksAreEmpty

CpuInv ==
    /\ cpu \in PoolType(TOTAL_CPU_BLOCKS) /\ FreeListOK(cpu)
    /\ cpuHeld \in [Callers -> SUBSET CpuBlocks] /\ Exclusive(cpuHeld)
    /\ Accounted(CpuBlocks, cpu.isFree, cpuHeld)

LEMMA InvIsBothHalves == Inv <=> GpuInv /\ CpuInv
BY DEF Inv, GpuInv, CpuInv, TypeOK, FreeListsConsistent, NoBlockSharedByCallers,
       NoBlockLeaked, Accounted, PoolType, GpuBlocks, CpuBlocks

LEMMA InitEstablishesInv == Init => Inv
<1> SUFFICES ASSUME Init PROVE GpuInv /\ CpuInv
    BY InvIsBothHalves
<1> USE BlockManagerAssumption
<1>1. gpu \in PoolType(TOTAL_BLOCKS) /\ FreeListOK(gpu) /\ \A b \in GpuBlocks : gpu.isFree[b]
    BY NewPoolOK DEF Init, GpuBlocks
<1>2. cpu \in PoolType(TOTAL_CPU_BLOCKS) /\ FreeListOK(cpu) /\ \A b \in CpuBlocks : cpu.isFree[b]
    BY NewPoolOK DEF Init, CpuBlocks
<1>3. GpuInv
    BY <1>1 DEF Init, GpuInv, Exclusive, Accounted, FreeBlocksAreEmpty
<1>4. CpuInv
    BY <1>2 DEF Init, CpuInv, Exclusive, Accounted
<1> QED BY <1>3, <1>4

LEMMA GpuStepsKeepGpuInv ==
    ASSUME GpuInv, NEW c \in Callers
    PROVE  /\ AllocateOne(c) => GpuInv'
           /\ \A n \in Nat : Allocate(c, n) => GpuInv'
           /\ \A b \in Int : FreeGpu(c, b) => GpuInv'
           /\ \A b \in GpuBlocks, n \in Nat : ReserveTokens(c, b, n) => GpuInv'
<1> USE BlockManagerAssumption
<1>1. gpu \in PoolType(TOTAL_BLOCKS) /\ FreeListOK(gpu) /\ TOTAL_BLOCKS \in Nat
    BY DEF GpuInv
<1>2. held \in [Callers -> SUBSET GpuBlocks] /\ Exclusive(held)
      /\ Accounted(GpuBlocks, gpu.isFree, held)
    BY DEF GpuInv
<1>3. filled \in [GpuBlocks -> Nat] /\ \A b \in GpuBlocks : gpu.isFree[b] => filled[b] = 0
    BY DEF GpuInv, FreeBlocksAreEmpty
<1>4. ASSUME AllocateOne(c) PROVE GpuInv'
    <2> DEFINE a == AllocatedOne(gpu)
    <2>1. /\ a \in GpuBlocks /\ gpu.isFree[a]
          /\ gpu' \in PoolType(TOTAL_BLOCKS) /\ FreeListOK(gpu')
          /\ gpu'.isFree = [gpu.isFree EXCEPT ![a] = FALSE]
        BY <1>1, <1>4, AllocateOneOK DEF AllocateOne, GpuBlocks
    <2>2. gpu.isFree \in [GpuBlocks -> BOOLEAN]
        BY <1>1 DEF PoolType, GpuBlocks
    <2>3. \A b \in GpuBlocks : gpu'.isFree[b] <=> (gpu.isFree[b] /\ b \notin {a})
        BY <2>1, <2>2
    <2>4. held' = [held EXCEPT ![c] = @ \cup {a}] /\ filled' = [filled EXCEPT ![a] = 0]
        BY <1>4 DEF AllocateOne
    <2>5. /\ held' \in [Callers -> SUBSET GpuBlocks] /\ Exclusive(held')
          /\ Accounted(GpuBlocks, gpu'.isFree, held')
        <3> HIDE DEF a
        <3>1. {a} \in SUBSET GpuBlocks /\ \A b \in {a} : gpu.isFree[b]
            BY <2>1
        <3> QED BY <3>1, <1>2, <2>3, <2>4, GrantOK
    <2>6. filled' \in [GpuBlocks -> Nat] /\ FreeBlocksAreEmpty'
        BY <1>3, <2>1, <2>3, <2>4 DEF FreeBlocksAreEmpty
    <2> QED BY <2>1, <2>5, <2>6 DEF GpuInv, Exclusive, Accounted
<1>5. ASSUME NEW n \in Nat, Allocate(c, n) PROVE GpuInv'
    <2> DEFINE got == {Taken(gpu, n)[i] : i \in 1..n}
    <2>1. /\ \A i \in 1..n : Taken(gpu, n)[i] \in GpuBlocks /\ gpu.isFree[Taken(gpu, n)[i]]
          /\ gpu' \in PoolType(TOTAL_BLOCKS) /\ FreeListOK(gpu')
          /\ \A b \in GpuBlocks : gpu'.isFree[b] <=>
                (gpu.isFree[b] /\ \A i \in 1..n : Taken(gpu, n)[i] # b)
        BY <1>1, <1>5, TakingOK DEF Allocate, GpuBlocks
    <2>2. got \in SUBSET GpuBlocks /\ \A b \in got : gpu.isFree[b]
        BY <2>1
    <2>3. \A b \in GpuBlocks : gpu'.isFree[b] <=> (gpu.isFree[b] /\ b \notin got)
        BY <2>1
    <2>4. /\ held' = [held EXCEPT ![c] = @ \cup got]
          /\ filled' = [b \in GpuBlocks |-> IF b \in got THEN 0 ELSE filled[b]]
        BY <1>5 DEF Allocate
    <2> HIDE DEF got
    <2>5. /\ held' \in [Callers -> SUBSET GpuBlocks] /\ Exclusive(held')
          /\ Accounted(GpuBlocks, gpu'.isFree, held')
        BY <1>2, <2>2, <2>3, <2>4, GrantOK
    <2>6. filled' \in [GpuBlocks -> Nat] /\ FreeBlocksAreEmpty'
        BY <1>3, <2>3, <2>4 DEF FreeBlocksAreEmpty
    <2> QED BY <2>1, <2>5, <2>6 DEF GpuInv, Exclusive, Accounted
<1>6. ASSUME NEW b \in Int, FreeGpu(c, b) PROVE GpuInv'
    <2>1. /\ gpu' \in PoolType(TOTAL_BLOCKS) /\ FreeListOK(gpu')
          /\ \A a \in GpuBlocks : gpu'.isFree[a] <=> (gpu.isFree[a] \/ a = b)
        BY <1>1, <1>6, FreeOneOK DEF FreeGpu, GpuBlocks
    <2>2. BlocksOf(gpu) = GpuBlocks
        BY <1>1 DEF PoolType, BlocksOf, GpuBlocks
    <2>3. /\ (b \in GpuBlocks /\ ~gpu.isFree[b]) => b \in held[c]
          /\ held' = [held EXCEPT ![c] = @ \ {b}]
          /\ filled' = IF b \in GpuBlocks /\ ~gpu.isFree[b]
                       THEN [filled EXCEPT ![b] = 0] ELSE filled
        BY <1>6, <2>2 DEF FreeGpu, Freed
    <2>4. /\ held' \in [Callers -> SUBSET GpuBlocks] /\ Exclusive(held')
          /\ Accounted(GpuBlocks, gpu'.isFree, held')
        <3>1. \A a \in GpuBlocks : gpu'.isFree[a] <=> (gpu.isFree[a] \/ a = b)
            BY <2>1
        <3>2. (b \in GpuBlocks /\ ~gpu.isFree[b]) => b \in held[c]
            BY <2>3
        <3>3. LET k == [held EXCEPT ![c] = @ \ {b}]
              IN  /\ k \in [Callers -> SUBSET GpuBlocks] /\ Exclusive(k)
                  /\ Accounted(GpuBlocks, gpu'.isFree, k)
            BY <1>2, <3>1, <3>2, ReturnOK, Zenon
        <3> QED BY <3>3, <2>3
    <2>5. filled' \in [GpuBlocks -> Nat] /\ FreeBlocksAreEmpty'
        BY <1>3, <2>1, <2>3 DEF FreeBlocksAreEmpty
    <2> QED BY <2>1, <2>4, <2>5 DEF GpuInv, Exclusive, Accounted
<1>7. ASSUME NEW b \in GpuBlocks, NEW n \in Nat, ReserveTokens(c, b, n) PROVE GpuInv'
    <2>1. ~gpu.isFree[b]
        BY <1>2, <1>7 DEF ReserveTokens, Accounted
    <2>2. filled' \in [GpuBlocks -> Nat] /\ FreeBlocksAreEmpty'
        BY <2>1, <1>3, <1>7 DEF ReserveTokens, FreeBlocksAreEmpty
    <2> QED BY <2>2, <1>1, <1>2, <1>7 DEF ReserveTokens, GpuInv, Exclusive, Accounted
<1> QED BY <1>4, <1>5, <1>6, <1>7

LEMMA CpuStepsKeepCpuInv ==
    ASSUME CpuInv, NEW c \in Callers
    PROVE  /\ AllocateCpuOne(c) => CpuInv'
           /\ \A n \in Nat : AllocateCpu(c, n) => CpuInv'
           /\ \A b \in Int : FreeCpu(c, b) => CpuInv'
<1> USE BlockManagerAssumption
<1>1. cpu \in PoolType(TOTAL_CPU_BLOCKS) /\ FreeListOK(cpu) /\ TOTAL_CPU_BLOCKS \in Nat
    BY DEF CpuInv
<1>2. cpuHeld \in [Callers -> SUBSET CpuBlocks] /\ Exclusive(cpuHeld)
      /\ Accounted(CpuBlocks, cpu.isFree, cpuHeld)
    BY DEF CpuInv
<1>3. ASSUME AllocateCpuOne(c) PROVE CpuInv'
    <2> DEFINE a == AllocatedOne(cpu)
    <2>1. /\ a \in CpuBlocks /\ cpu.isFree[a]
          /\ cpu' \in PoolType(TOTAL_CPU_BLOCKS) /\ FreeListOK(cpu')
          /\ cpu'.isFree = [cpu.isFree EXCEPT ![a] = FALSE]
        BY <1>1, <1>3, AllocateOneOK DEF AllocateCpuOne, CpuBlocks
    <2>2. cpu.isFree \in [CpuBlocks -> BOOLEAN]
        BY <1>1 DEF PoolType, CpuBlocks
    <2>3. \A b \in CpuBlocks : cpu'.isFree[b] <=> (cpu.isFree[b] /\ b \notin {a})
        BY <2>1, <2>2
    <2>4. cpuHeld' = [cpuHeld EXCEPT ![c] = @ \cup {a}]
        BY <1>3 DEF AllocateCpuOne
    <2>5. {a} \in SUBSET CpuBlocks /\ \A b \in {a} : cpu.isFree[b]
        BY <2>1
    <2> HIDE DEF a
    <2>6. /\ cpuHeld' \in [Callers -> SUBSET CpuBlocks] /\ Exclusive(cpuHeld')
          /\ Accounted(CpuBlocks, cpu'.isFree, cpuHeld')
        BY <2>5, <1>2, <2>3, <2>4, GrantOK
    <2> QED BY <2>1, <2>6 DEF CpuInv, Exclusive, Accounted
<1>4. ASSUME NEW n \in Nat, AllocateCpu(c, n) PROVE CpuInv'
    <2> DEFINE got == {Taken(cpu, n)[i] : i \in 1..n}
    <2>1. CanAllocate(cpu, n)
        BY <1>4 DEF AllocateCpu
    <2>2. /\ n <= Len(cpu.ids)
          /\ \A i \in 1..n : Taken(cpu, n)[i] \in CpuBlocks /\ cpu.isFree[Taken(cpu, n)[i]]
          /\ AfterTaking(cpu, n) \in PoolType(TOTAL_CPU_BLOCKS)
          /\ FreeListOK(AfterTaking(cpu, n))
          /\ \A b \in CpuBlocks : AfterTaking(cpu, n).isFree[b] <=>
                (cpu.isFree[b] /\ \A i \in 1..n : Taken(cpu, n)[i] # b)
        BY <1>1, <2>1, TakingOK DEF CpuBlocks
    <2>3. cpu' = AfterTaking(cpu, n) /\ cpuHeld' = [cpuHeld EXCEPT ![c] = @ \cup got]
        BY <1>4, <2>2 DEF AllocateCpu
    <2>4. got \in SUBSET CpuBlocks /\ \A b \in got : cpu.isFree[b]
        BY <2>2
    <2>5. \A b \in CpuBlocks : cpu'.isFree[b] <=> (cpu.isFree[b] /\ b \notin got)
        BY <2>2, <2>3
    <2> HIDE DEF got
    <2>6. /\ cpuHeld' \in [Callers -> SUBSET CpuBlocks] /\ Exclusive(cpuHeld')
          /\ Accounted(CpuBlocks, cpu'.isFree, cpuHeld')
        BY <1>2, <2>3, <2>4, <2>5, GrantOK
    <2> QED BY <2>2, <2>3, <2>6 DEF CpuInv, Exclusive, Accounted
<1>5. ASSUME NEW b \in Int, FreeCpu(c, b) PROVE CpuInv'
    <2>1. /\ cpu' \in PoolType(TOTAL_CPU_BLOCKS) /\ FreeListOK(cpu')
          /\ \A a \in CpuBlocks : cpu'.isFree[a] <=> (cpu.isFree[a] \/ a = b)
        BY <1>1, <1>5, FreeOneOK DEF FreeCpu, CpuBlocks
    <2>2. BlocksOf(cpu) = CpuBlocks
        BY <1>1 DEF PoolType, BlocksOf, CpuBlocks
    <2>3. /\ (b \in CpuBlocks /\ ~cpu.isFree[b]) => b \in cpuHeld[c]
          /\ cpuHeld' = [cpuHeld EXCEPT ![c] = @ \ {b}]
        BY <1>5, <2>2 DEF FreeCpu, Freed
    <2>4. /\ cpuHeld' \in [Callers -> SUBSET CpuBlocks] /\ Exclusive(cpuHeld')
          /\ Accounted(CpuBlocks, cpu'.isFree, cpuHeld')
        <3>1. \A a \in CpuBlocks : cpu'.isFree[a] <=> (cpu.isFree[a] \/ a = b)
            BY <2>1
        <3>2. (b \in CpuBlocks /\ ~cpu.isFree[b]) => b \in cpuHeld[c]
            BY <2>3
        <3>3. LET k == [cpuHeld EXCEPT ![c] = @ \ {b}]
              IN  /\ k \in [Callers -> SUBSET CpuBlocks] /\ Exclusive(k)
                  /\ Accounted(CpuBlocks, cpu'.isFree, k)
            BY <1>2, <3>1, <3>2, ReturnOK, Zenon
        <3> QED BY <3>3, <2>3
    <2> QED BY <2>1, <2>4 DEF CpuInv, Exclusive, Accounted
<1> QED BY <1>3, <1>4, <1>5

LEMMA NextKeepsInv == Inv /\ [Next]_vars => Inv'
<1> SUFFICES ASSUME GpuInv, CpuInv, [Next]_vars PROVE GpuInv' /\ CpuInv'
    BY InvIsBothHalves, PTL
<1> USE BlockManagerAssumption
<1>1. ASSUME UNCHANGED <<gpu, filled, held>> PROVE GpuInv'
    BY <1>1 DEF GpuInv, FreeBlocksAreEmpty, Exclusive, Accounted
<1>2. ASSUME UNCHANGED <<cpu, cpuHeld>> PROVE CpuInv'
    BY <1>2 DEF CpuInv, Exclusive, Accounted
<1>3. CASE UNCHANGED vars
    BY <1>1, <1>2, <1>3 DEF vars
<1>4. ASSUME NEW c \in Callers, AllocateOne(c) PROVE GpuInv' /\ CpuInv'
    BY <1>2, <1>4, GpuStepsKeepGpuInv DEF AllocateOne
<1>5. ASSUME NEW c \in Callers, NEW n \in 1..MAX_N, Allocate(c, n) PROVE GpuInv' /\ CpuInv'
    BY <1>2, <1>5, GpuStepsKeepGpuInv DEF Allocate
<1>6. ASSUME NEW c \in Callers, NEW b \in -1..TOTAL_BLOCKS, FreeGpu(c, b)
      PROVE  GpuInv' /\ CpuInv'
    <2>1. b \in Int
        OBVIOUS
    <2>2. GpuInv'
        BY <2>1, <1>6, GpuStepsKeepGpuInv
    <2> QED BY <2>2, <1>2, <1>6 DEF FreeGpu
<1>7. ASSUME NEW c \in Callers, NEW b \in GpuBlocks, NEW n \in 1..MAX_FILL, ReserveTokens(c, b, n)
      PROVE  GpuInv' /\ CpuInv'
    <2>1. n \in Nat
        OBVIOUS
    <2>2. GpuInv'
        BY <2>1, <1>7, GpuStepsKeepGpuInv
    <2> QED BY <2>2, <1>2, <1>7 DEF ReserveTokens
<1>8. ASSUME NEW c \in Callers, AllocateCpuOne(c) PROVE GpuInv' /\ CpuInv'
    BY <1>1, <1>8, CpuStepsKeepCpuInv DEF AllocateCpuOne
<1>9. ASSUME NEW c \in Callers, NEW n \in 1..MAX_N, AllocateCpu(c, n) PROVE GpuInv' /\ CpuInv'
    BY <1>1, <1>9, CpuStepsKeepCpuInv DEF AllocateCpu
<1>10. ASSUME NEW c \in Callers, NEW b \in -1..TOTAL_CPU_BLOCKS, FreeCpu(c, b)
       PROVE  GpuInv' /\ CpuInv'
    <2>1. b \in Int
        OBVIOUS
    <2>2. CpuInv'
        BY <2>1, <1>10, CpuStepsKeepCpuInv
    <2> QED BY <2>2, <1>1, <1>10 DEF FreeCpu
<1> QED BY <1>3, <1>4, <1>5, <1>6, <1>7, <1>8, <1>9, <1>10 DEF Next

\* Inv is an invariant of the block manager: the type invariant and the four
\* safety invariants of the TLC run hold for pools of any size, any number of
\* callers and requests of any size.
THEOREM BlockManagerInvariant == Spec => []Inv
BY InitEstablishesInv, NextKeepsInv, PTL DEF Spec

\* The stack, the flags and the counter of both pools always agree.
THEOREM FreeListsAlwaysConsistent == Spec => []FreeListsConsistent
<1>1. Inv => FreeListsConsistent
    BY DEF Inv
<1> QED BY <1>1, BlockManagerInvariant, PTL

\* No block of either pool is ever held by two callers (allocate_one and
\* allocate_cpu_one hand out what no one has).
THEOREM BlocksNeverShared == Spec => []NoBlockSharedByCallers
<1>1. Inv => NoBlockSharedByCallers
    BY DEF Inv
<1> QED BY <1>1, BlockManagerInvariant, PTL

\* No block is ever lost: it is free exactly when no caller holds it.
THEOREM BlocksAlwaysAccountedFor == Spec => []NoBlockLeaked
<1>1. Inv => NoBlockLeaked
    BY DEF Inv
<1> QED BY <1>1, BlockManagerInvariant, PTL

\* A positive answer of can_allocate(n) is kept: n calls of allocate_one in a
\* row all return a block.  RealKvAllocator relies on it: after the test its
\* loops have no way to roll back.
THEOREM CanAllocateIsKept ==
    Spec => [](\A n \in Nat : CanAllocate(gpu, n) => n <= Len(gpu.ids))
<1>1. Inv => \A n \in Nat : CanAllocate(gpu, n) => n <= Len(gpu.ids)
    BY DEF Inv, FreeListsConsistent, FreeListOK, CanAllocate
<1> QED BY <1>1, BlockManagerInvariant, PTL
=============================================================================
