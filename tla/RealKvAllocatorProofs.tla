----------------------- MODULE RealKvAllocatorProofs -----------------------
(***************************************************************************)
(* Proofs about RealKvAllocator for every number of requests, layers and   *)
(* blocks, every block size and every sequence of calls and failures; and, *)
(* after them, about what KvMemory adds to it: swapping brings back the    *)
(* slots it saved, and until the first swap-in the model answers as if it  *)
(* recomputed every text without a cache.                                  *)
(***************************************************************************)
EXTENDS KvMemory, OperatorProofs, FiniteSetTheorems

LEMMA ConstantTypes ==
    /\ K \in Nat /\ K >= 1
    /\ DEFAULT_KV_BLOCK_SIZE \in Nat /\ DEFAULT_KV_BLOCK_SIZE >= 1
    /\ MAX_NEW_TOKENS \in Nat /\ MAX_NEW_TOKENS >= 1
    /\ DEFAULT_TOTAL_KV_BLOCKS \in Nat /\ DEFAULT_TOTAL_CPU_BLOCKS \in Nat
    /\ MAX_SEQ \in Nat /\ MAX_FAULTS \in Nat
    /\ \A n \in PromptLens : n \in Nat /\ n >= 1
    /\ 1 \in Layers
BY RealKvAllocatorAssumption, SizesAssumption DEF K, Layers

LEMMA SlicesCover ==
    ASSUME NEW need \in Nat, NEW i \in 1..(need * K)
    PROVE  \E l \in Layers, j \in 1..need : i = (l - 1) * need + j
<1>1. K \in Nat /\ need * K \in Nat /\ K >= 1
    BY ConstantTypes
<1> DEFINE T == {l \in Layers : i <= l * need}
<1>2. K \in T /\ T \in SUBSET Nat
    BY <1>1 DEF Layers, K
<1>3. PICK l \in T : \A m \in T : l <= m
    <2> HIDE DEF T
    <2> QED BY <1>2, LeastElement
<1>4. l \in Nat /\ l >= 1 /\ l <= K /\ i <= l * need
    BY <1>1, <1>3 DEF Layers, K
<1>5. i > (l - 1) * need
    <2>1. (l - 1) * need \in Int
        BY <1>4
    <2>2. CASE l = 1
        <3>1. 0 * need = 0 /\ i >= 1
            BY <1>1
        <3> QED BY <2>2, <3>1
    <2>3. CASE l # 1
        <3>1. l - 1 \in Layers
            <4> HIDE DEF T
            <4> QED BY <1>1, <1>4, <2>3 DEF Layers, K
        <3>2. l - 1 \notin T
            <4> HIDE DEF T
            <4> QED BY <1>3, <1>4
        <3> QED BY <2>1, <3>1, <3>2
    <2> QED BY <2>2, <2>3
<1>6. l * need = (l - 1) * need + need /\ (l - 1) * need \in Int
    BY <1>4
<1>7. i - (l - 1) * need \in 1..need
    BY <1>4, <1>5, <1>6
<1>8. i = (l - 1) * need + (i - (l - 1) * need)
    BY <1>6
<1> QED BY <1>3, <1>7, <1>8
-----------------------------------------------------------------------------
(* Who holds what, for either pool: H[r] gives the block at each position of r. *)

Apart(H) ==
    \A r, s \in Requests : \A x \in DOMAIN H[r], y \in DOMAIN H[s] :
        H[r][x] = H[s][y] => r = s /\ x = y

IsHeld(H, b) == \E r \in Requests : \E x \in DOMAIN H[r] : H[r][x] = b

AccountedFor(B, f, H) == \A b \in B : f[b] <=> ~IsHeld(H, b)

\* r comes to hold h: what it had, and at other positions blocks that were free.
LEMMA GiveKeeps ==
    ASSUME NEW B, NEW f, NEW g, NEW H, NEW r \in Requests, NEW h, NEW G,
           Apart(H), AccountedFor(B, f, H),
           \A q \in Requests : G[q] = IF q = r THEN h ELSE H[q],
           \A x \in DOMAIN H[r] : x \in DOMAIN h /\ h[x] = H[r][x],
           \A x \in DOMAIN h : x \notin DOMAIN H[r] => h[x] \in B /\ f[h[x]],
           \A x, y \in DOMAIN h :
               x \notin DOMAIN H[r] /\ y \notin DOMAIN H[r] /\ h[x] = h[y] => x = y,
           \A b \in B : g[b] <=> (f[b] /\ ~\E x \in DOMAIN h : x \notin DOMAIN H[r] /\ h[x] = b)
    PROVE  Apart(G) /\ AccountedFor(B, g, G)
<1>1. \A x \in DOMAIN h : x \notin DOMAIN H[r] => ~IsHeld(H, h[x])
    BY DEF AccountedFor
<1>2. \A x, y \in DOMAIN h : h[x] = h[y] => x = y
    BY <1>1 DEF Apart, IsHeld
<1>3. ASSUME NEW x \in DOMAIN h, NEW q \in Requests, q # r, NEW y \in DOMAIN H[q]
      PROVE  h[x] # H[q][y]
    BY <1>1, <1>3 DEF Apart, IsHeld
<1>4. Apart(G)
    <2> SUFFICES ASSUME NEW q \in Requests, NEW s \in Requests,
                        NEW x \in DOMAIN G[q], NEW y \in DOMAIN G[s], G[q][x] = G[s][y]
                 PROVE  q = s /\ x = y
        BY DEF Apart
    <2>1. CASE q = r /\ s = r
        BY <1>2, <2>1
    <2>2. CASE q = r /\ s # r
        BY <1>3, <2>2
    <2>3. CASE q # r /\ s = r
        BY <1>3, <2>3
    <2>4. CASE q # r /\ s # r
        BY <2>4 DEF Apart
    <2> QED BY <2>1, <2>2, <2>3, <2>4
<1>5. ASSUME NEW b \in B
      PROVE  IsHeld(G, b) <=> (IsHeld(H, b) \/ \E x \in DOMAIN h : x \notin DOMAIN H[r] /\ h[x] = b)
    <2>1. ASSUME IsHeld(G, b)
          PROVE  IsHeld(H, b) \/ \E x \in DOMAIN h : x \notin DOMAIN H[r] /\ h[x] = b
        <3>1. PICK q \in Requests : \E x \in DOMAIN G[q] : G[q][x] = b
            BY <2>1 DEF IsHeld
        <3>2. PICK x \in DOMAIN G[q] : G[q][x] = b
            BY <3>1
        <3> QED BY <3>2 DEF IsHeld
    <2>2. ASSUME IsHeld(H, b) PROVE IsHeld(G, b)
        <3>1. PICK q \in Requests : \E x \in DOMAIN H[q] : H[q][x] = b
            BY <2>2 DEF IsHeld
        <3>2. PICK x \in DOMAIN H[q] : H[q][x] = b
            BY <3>1
        <3>3. x \in DOMAIN G[q] /\ G[q][x] = b
            BY <3>2
        <3> QED BY <3>3 DEF IsHeld
    <2>3. ASSUME NEW x \in DOMAIN h, h[x] = b PROVE IsHeld(G, b)
        BY <2>3 DEF IsHeld
    <2> QED BY <2>1, <2>2, <2>3
<1>6. AccountedFor(B, g, G)
    BY <1>5 DEF AccountedFor
<1> QED BY <1>4, <1>6

\* G is H after r gave back all it has, and g are the flags then.
Returned(B, f, g, H, r, G) ==
    /\ \A q \in Requests : q # r => G[q] = H[q]
    /\ DOMAIN G[r] = {}
    /\ \A b \in B : g[b] <=> (f[b] \/ \E x \in DOMAIN H[r] : H[r][x] = b)

LEMMA ReturnKeeps ==
    ASSUME NEW B, NEW f, NEW g, NEW H, NEW r \in Requests, NEW G,
           Apart(H), AccountedFor(B, f, H), Returned(B, f, g, H, r, G)
    PROVE  Apart(G) /\ AccountedFor(B, g, G)
<1> USE DEF Returned
<1>1. Apart(G)
    <2> SUFFICES ASSUME NEW q \in Requests, NEW s \in Requests,
                        NEW x \in DOMAIN G[q], NEW y \in DOMAIN G[s], G[q][x] = G[s][y]
                 PROVE  q = s /\ x = y
        BY DEF Apart
    <2>1. q # r /\ s # r
        OBVIOUS
    <2> QED BY <2>1 DEF Apart
<1>2. ASSUME NEW b \in B
      PROVE  IsHeld(G, b) <=> (IsHeld(H, b) /\ ~\E x \in DOMAIN H[r] : H[r][x] = b)
    <2>1. ASSUME IsHeld(G, b)
          PROVE  IsHeld(H, b) /\ ~\E x \in DOMAIN H[r] : H[r][x] = b
        <3>1. PICK q \in Requests : \E x \in DOMAIN G[q] : G[q][x] = b
            BY <2>1 DEF IsHeld
        <3>2. PICK x \in DOMAIN G[q] : G[q][x] = b
            BY <3>1
        <3>3. q # r /\ x \in DOMAIN H[q] /\ H[q][x] = b
            BY <3>2
        <3> QED BY <3>3 DEF IsHeld, Apart
    <2>2. ASSUME IsHeld(H, b), ~\E x \in DOMAIN H[r] : H[r][x] = b PROVE IsHeld(G, b)
        <3>1. PICK q \in Requests : \E x \in DOMAIN H[q] : H[q][x] = b
            BY <2>2 DEF IsHeld
        <3>2. q # r
            BY <2>2, <3>1
        <3> QED BY <3>1, <3>2 DEF IsHeld
    <2> QED BY <2>1, <2>2
<1>3. AccountedFor(B, g, G)
    BY <1>2 DEF AccountedFor
<1> QED BY <1>1, <1>3
-----------------------------------------------------------------------------
(* A pool of N blocks and who holds them. *)

PoolHolds(N, p, H) ==
    /\ p \in PoolType(N)
    /\ FreeListOK(p)
    /\ Apart(H)
    /\ AccountedFor(0..(N - 1), p.isFree, H)

\* What r holds grows from H[r] to h: block num[x] of the n taken is at the new
\* position x.
Grows(p, n, H, r, h, num) ==
    /\ \A x \in DOMAIN H[r] : x \in DOMAIN h /\ h[x] = H[r][x]
    /\ \A x \in DOMAIN h \ DOMAIN H[r] : num[x] \in 1..n /\ h[x] = Taken(p, n)[num[x]]
    /\ \A x, y \in DOMAIN h \ DOMAIN H[r] : num[x] = num[y] => x = y
    /\ \A i \in 1..n : \E x \in DOMAIN h \ DOMAIN H[r] : num[x] = i

LEMMA PoolGives ==
    ASSUME NEW N \in Nat, NEW p, NEW H, PoolHolds(N, p, H), NEW n \in Nat, CanAllocate(p, n),
           NEW r \in Requests, NEW h, NEW num, Grows(p, n, H, r, h, num),
           NEW G, \A q \in Requests : G[q] = IF q = r THEN h ELSE H[q]
    PROVE  PoolHolds(N, AfterTaking(p, n), G)
<1> DEFINE B == 0..(N - 1)
           g == AfterTaking(p, n).isFree
           t == Taken(p, n)
<1>1. p \in PoolType(N) /\ FreeListOK(p) /\ Apart(H) /\ AccountedFor(B, p.isFree, H)
    BY DEF PoolHolds
<1>2. /\ \A i \in 1..n : t[i] \in B /\ p.isFree[t[i]]
      /\ AfterTaking(p, n) \in PoolType(N)
      /\ FreeListOK(AfterTaking(p, n))
      /\ \A b \in B : g[b] <=> (p.isFree[b] /\ \A i \in 1..n : t[i] # b)
    BY <1>1, TakingOK
<1>3. \A i, j \in 1..n : t[i] = t[j] => i = j
    BY <1>1, TakenDistinct
<1> HIDE DEF B, g, t
<1>4. /\ \A x \in DOMAIN H[r] : x \in DOMAIN h /\ h[x] = H[r][x]
      /\ \A x \in DOMAIN h : x \notin DOMAIN H[r] => num[x] \in 1..n /\ h[x] = t[num[x]]
      /\ \A x, y \in DOMAIN h : x \notin DOMAIN H[r] /\ y \notin DOMAIN H[r]
                                   /\ num[x] = num[y] => x = y
      /\ \A i \in 1..n : \E x \in DOMAIN h : x \notin DOMAIN H[r] /\ num[x] = i
    BY DEF Grows, t
<1>5. \A x \in DOMAIN h : x \notin DOMAIN H[r] => h[x] \in B /\ p.isFree[h[x]]
    BY <1>2, <1>4
<1>6. \A x, y \in DOMAIN h :
          x \notin DOMAIN H[r] /\ y \notin DOMAIN H[r] /\ h[x] = h[y] => x = y
    BY <1>3, <1>4
<1>7. \A b \in B : (\E x \in DOMAIN h : x \notin DOMAIN H[r] /\ h[x] = b)
                      <=> \E i \in 1..n : t[i] = b
    BY <1>4
<1>8. \A b \in B : g[b] <=>
          (p.isFree[b] /\ ~\E x \in DOMAIN h : x \notin DOMAIN H[r] /\ h[x] = b)
    BY <1>2, <1>7
<1>9. Apart(G) /\ AccountedFor(B, g, G)
    BY <1>1, <1>4, <1>5, <1>6, <1>8, GiveKeeps
<1> QED BY <1>2, <1>9 DEF PoolHolds, B, g

\* q is p after r gave back all it holds.
LEMMA PoolTakesBack ==
    ASSUME NEW N \in Nat, NEW p, NEW H, PoolHolds(N, p, H), NEW r \in Requests,
           NEW q, q \in PoolType(N), FreeListOK(q),
           NEW G, Returned(0..(N - 1), p.isFree, q.isFree, H, r, G)
    PROVE  PoolHolds(N, q, G)
<1>1. Apart(H) /\ AccountedFor(0..(N - 1), p.isFree, H)
    BY DEF PoolHolds
<1>2. Apart(G) /\ AccountedFor(0..(N - 1), q.isFree, G)
    BY <1>1, ReturnKeeps
<1> QED BY <1>2 DEF PoolHolds

\* The blocks taken go back at once.
LEMMA PoolRollsBack ==
    ASSUME NEW N \in Nat, NEW p, NEW H, PoolHolds(N, p, H), NEW n \in Nat, CanAllocate(p, n)
    PROVE  PoolHolds(N, FreeAll(AfterTaking(p, n), Taken(p, n)), H)
<1> DEFINE a == AfterTaking(p, n)
           t == Taken(p, n)
           q == FreeAll(a, t)
<1>1. p \in PoolType(N) /\ FreeListOK(p) /\ Apart(H) /\ AccountedFor(0..(N - 1), p.isFree, H)
    BY DEF PoolHolds
<1>2. /\ \A i \in 1..n : t[i] \in 0..(N - 1) /\ p.isFree[t[i]]
      /\ a \in PoolType(N)
      /\ FreeListOK(a)
      /\ \A b \in 0..(N - 1) : a.isFree[b] <=> (p.isFree[b] /\ \A i \in 1..n : t[i] # b)
    BY <1>1, TakingOK
<1>3. Len(t) = n
    BY DEF Taken
<1>4. IsIdList(t)
    <2> HIDE DEF t
    <2> QED BY <1>2, <1>3 DEF IsIdList
<1>5. HasFreed(N, a, t, q)
    <2> HIDE DEF a, t
    <2> QED BY <1>2, <1>4, FreeAllOK DEF q
<1> HIDE DEF a, t, q
<1>6. \A b \in 0..(N - 1) : q.isFree[b] <=> p.isFree[b]
    BY <1>2, <1>3, <1>5 DEF HasFreed
<1>7. q \in PoolType(N) /\ FreeListOK(q) /\ AccountedFor(0..(N - 1), q.isFree, H)
    BY <1>1, <1>5, <1>6 DEF HasFreed, AccountedFor
<1> QED BY <1>1, <1>7 DEF PoolHolds, q, a, t
-----------------------------------------------------------------------------
(* The tables. *)

Tables == [Layers -> KvType]

\* Position <<l, i>> of a request is entry i of the table of layer l.
Positions(kv) == {x \in Layers \X Nat : x[2] \in 1..Len(kv[x[1]].blocks)}
Entries(kv) == [x \in Positions(kv) |-> kv[x[1]].blocks[x[2]]]

LEMMA EntriesOfTables ==
    ASSUME NEW kv \in Tables
    PROVE  /\ DOMAIN Entries(kv) = Positions(kv)
           /\ \A l \in Layers : \A i \in 1..Len(kv[l].blocks) :
                 /\ <<l, i>> \in Positions(kv)
                 /\ Entries(kv)[<<l, i>>] = kv[l].blocks[i]
                 /\ kv[l].blocks[i] \in GpuBlocks
           /\ \A x \in Positions(kv) : \E l \in Layers : \E i \in 1..Len(kv[l].blocks) :
                 x = <<l, i>>
<1>1. ASSUME NEW l \in Layers
      PROVE  kv[l].blocks \in Seq(GpuBlocks) /\ Len(kv[l].blocks) \in Nat
    BY DEF Tables, KvType
<1>2. ASSUME NEW l \in Layers, NEW i \in 1..Len(kv[l].blocks)
      PROVE  /\ <<l, i>> \in Positions(kv)
             /\ Entries(kv)[<<l, i>>] = kv[l].blocks[i]
             /\ kv[l].blocks[i] \in GpuBlocks
    BY <1>1, <1>2 DEF Positions, Entries
<1>3. ASSUME NEW x \in Positions(kv)
      PROVE  \E l \in Layers : \E i \in 1..Len(kv[l].blocks) : x = <<l, i>>
    BY <1>3 DEF Positions
<1> QED BY <1>2, <1>3 DEF Entries

LEMMA EmptyTables ==
    /\ EmptyKv \in Tables
    /\ \A l \in Layers : EmptyKv[l].blocks = <<>> /\ EmptyKv[l].tokens = 0
    /\ Positions(EmptyKv) = {}
<1>1. \A l \in Layers : EmptyKv[l].blocks = <<>> /\ EmptyKv[l].tokens = 0
    BY DEF EmptyKv
<1>2. EmptyKv \in Tables
    BY DEF EmptyKv, Tables, KvType
<1> QED BY <1>1, <1>2 DEF Positions

\* What Deal appends to the tables.
LEMMA DealOK ==
    ASSUME NEW kv \in Tables, NEW need \in Nat, NEW bs \in [1..(need * K) -> GpuBlocks]
    PROVE  /\ Deal(kv, bs, need) \in Tables
           /\ \A l \in Layers :
                 /\ Deal(kv, bs, need)[l].tokens = kv[l].tokens
                 /\ Len(Deal(kv, bs, need)[l].blocks) = Len(kv[l].blocks) + need
                 /\ \A i \in 1..Len(kv[l].blocks) :
                       Deal(kv, bs, need)[l].blocks[i] = kv[l].blocks[i]
                 /\ \A j \in 1..need :
                       Deal(kv, bs, need)[l].blocks[Len(kv[l].blocks) + j] = bs[(l - 1) * need + j]
<1> DEFINE D == Deal(kv, bs, need)
<1>1. need * K \in Nat /\ bs \in Seq(GpuBlocks) /\ Len(bs) = need * K
    <2>1. need * K \in Nat
        BY ConstantTypes
    <2> HIDE DEF K
    <2> QED BY <2>1
<1>2. ASSUME NEW l \in Layers
      PROVE  /\ D[l] \in KvType
             /\ D[l].tokens = kv[l].tokens
             /\ Len(D[l].blocks) = Len(kv[l].blocks) + need
             /\ \A i \in 1..Len(kv[l].blocks) : D[l].blocks[i] = kv[l].blocks[i]
             /\ \A j \in 1..need :
                   D[l].blocks[Len(kv[l].blocks) + j] = bs[(l - 1) * need + j]
    <2> DEFINE old == kv[l].blocks
               a == (l - 1) * need
               new == SubSeq(bs, a + 1, l * need)
    <2>1. kv[l] \in KvType /\ old \in Seq(GpuBlocks) /\ Len(old) \in Nat
        BY DEF Tables, KvType
    <2>2. l \in Nat /\ l >= 1 /\ l <= K /\ a \in Nat /\ l * need = a + need
        <3>1. l \in Nat /\ l >= 1 /\ l <= K
            BY ConstantTypes DEF Layers, K
        <3> QED BY <3>1
    <2>3. l * need <= need * K
        <3>1. K \in Nat /\ (K - l) * need \in Nat /\ need * K = l * need + (K - l) * need
            BY <2>2, ConstantTypes
        <3> QED BY <2>2, <3>1
    <2>4. D[l] = [kv[l] EXCEPT !.blocks = old \o new]
        <3>1. Lesser(l * need, Len(bs)) = l * need
            BY <1>1, <2>2, <2>3 DEF Lesser
        <3> QED BY <3>1 DEF Deal
    <2>5. /\ new \in Seq(GpuBlocks) /\ Len(new) = need
          /\ \A j \in 1..need : new[j] = bs[a + j]
        <3>1. \A i \in (a + 1)..(a + need) : bs[i] \in GpuBlocks
            BY <1>1, <2>2, <2>3
        <3> HIDE DEF a
        <3>2. /\ SubSeq(bs, a + 1, a + need) \in Seq(GpuBlocks)
              /\ Len(SubSeq(bs, a + 1, a + need)) = need
              /\ \A j \in 1..need : SubSeq(bs, a + 1, a + need)[j] = bs[a + j]
            BY <2>2, <3>1, SubSeqProperties
        <3> QED BY <2>2, <3>2
    <2> HIDE DEF new, a
    <2>6. /\ old \o new \in Seq(GpuBlocks)
          /\ Len(old \o new) = Len(old) + need
          /\ \A i \in 1..Len(old) : (old \o new)[i] = old[i]
          /\ \A j \in 1..need : (old \o new)[Len(old) + j] = new[j]
        <3> HIDE DEF old, D
        <3>1. old \o new \in Seq(GpuBlocks) /\ IsConcat(old \o new, old, new)
            BY <2>1, <2>5, ConcatIsBoth, Zenon
        <3> QED BY <2>5, <3>1, Zenon DEF IsConcat
    <2>7. D[l].blocks = old \o new /\ D[l].tokens = kv[l].tokens /\ D[l] \in KvType
        <3> HIDE DEF old, D
        <3> QED BY <2>1, <2>4, <2>6 DEF KvType
    <2> HIDE DEF D
    <2> QED BY <2>5, <2>6, <2>7 DEF a
<1>3. D \in Tables
    <2>1. D = [l \in Layers |-> D[l]]
        BY DEF Deal
    <2> HIDE DEF D
    <2> QED BY <1>2, <2>1 DEF Tables
<1> QED BY <1>2, <1>3

\* The loop of free_request: every block the tables name is free afterwards.
LEMMA FreeTablesOK ==
    ASSUME NEW N \in Nat, NEW p \in PoolType(N), FreeListOK(p), NEW kv \in Tables
    PROVE  /\ FreeTables(p, kv) \in PoolType(N)
           /\ FreeListOK(FreeTables(p, kv))
           /\ \A c \in 0..(N - 1) :
                 FreeTables(p, kv).isFree[c]
                    <=> (p.isFree[c] \/ \E x \in DOMAIN Entries(kv) : Entries(kv)[x] = c)
<1> DEFINE n == GPT2_N_LAYERS
           X == {q \in PoolType(N) : FreeListOK(q)}
           step == [l \in 1..n |-> [q \in X |-> FreeAll(q, kv[l].blocks)]]
           IsAfter(f) == f = [l \in 0..n |-> IF l = 0 THEN p ELSE FreeAll(f[l - 1], kv[l].blocks)]
           after == CHOOSE f : IsAfter(f)
           Named(l, c) == \E i \in 1..Len(kv[l].blocks) : kv[l].blocks[i] = c
<1>1. FreeTables(p, kv) = after[n]
    BY DEF FreeTables
<1>2. n \in Nat /\ Layers = 1..n
    BY ConstantTypes DEF K, Layers
<1>3. ASSUME NEW l \in 1..n
      PROVE  Len(kv[l].blocks) \in Nat /\ \A i \in 1..Len(kv[l].blocks) : kv[l].blocks[i] \in Int
    <2>1. l \in Layers
        BY <1>2
    <2>2. kv[l].blocks \in Seq(GpuBlocks)
        BY <2>1 DEF Tables, KvType
    <2>3. \A b \in GpuBlocks : b \in Int
        BY ConstantTypes DEF GpuBlocks
    <2> DEFINE bs == kv[l].blocks
    <2> HIDE DEF bs
    <2>4. Len(bs) \in Nat /\ \A i \in 1..Len(bs) : bs[i] \in Int
        BY <2>2, <2>3 DEF bs
    <2> QED BY <2>4 DEF bs
<1>4. ASSUME NEW q \in X, NEW l \in 1..n
      PROVE  /\ FreeAll(q, kv[l].blocks) \in X
             /\ \A c \in 0..(N - 1) :
                   FreeAll(q, kv[l].blocks).isFree[c] <=> (q.isFree[c] \/ Named(l, c))
    <2>1. q \in PoolType(N) /\ FreeListOK(q)
        OBVIOUS
    <2> DEFINE bs == kv[l].blocks
    <2>2. IsIdList(bs)
        BY <1>3 DEF IsIdList
    <2> HIDE DEF bs, X, n
    <2>3. HasFreed(N, q, bs, FreeAll(q, bs))
        BY <2>1, <2>2, FreeAllOK
    <2> QED BY <2>3 DEF bs, X, HasFreed
<1>5. p \in X /\ step \in [1..n -> [X -> X]]
    BY <1>4
<1>6. PICK f : IsLoop(f, n, X, p, step)
    <2> HIDE DEF X, step, n
    <2> QED BY <1>2, <1>5, LoopExists, Zenon
<1>7. \A l \in 1..n : f[l - 1] \in X /\ f[l] = FreeAll(f[l - 1], kv[l].blocks)
    <2> TAKE l \in 1..n
    <2>1. f[l - 1] \in X
        BY <1>2, <1>6 DEF IsLoop
    <2>2. step[l][f[l - 1]] = FreeAll(f[l - 1], kv[l].blocks)
        <3> HIDE DEF X, n
        <3> QED BY <2>1
    <2>3. f[l] = step[l][f[l - 1]]
        BY <1>6 DEF IsLoop
    <2> QED BY <2>1, <2>2, <2>3
<1>8. IsAfter(f)
    BY <1>2, <1>6, <1>7 DEF IsLoop
<1>9. IsAfter(after)
    BY <1>8
<1>10. after[0] = p /\ \A l \in 1..n : after[l] = FreeAll(after[l - 1], kv[l].blocks)
    <2> HIDE DEF after, n
    <2> QED BY <1>2, <1>9
<1> HIDE DEF after, Named
\* After l layers.
<1> DEFINE T == {l \in 0..n :
                    /\ after[l] \in X
                    /\ \A c \in 0..(N - 1) :
                          after[l].isFree[c] <=> (p.isFree[c] \/ \E k \in 1..l : Named(k, c))}
<1>11. 0 \in T
    BY <1>2, <1>5, <1>10
<1>12. ASSUME NEW l \in 1..n, l - 1 \in T PROVE l \in T
    <2>1. after[l - 1] \in X /\ after[l] = FreeAll(after[l - 1], kv[l].blocks)
        BY <1>10, <1>12
    <2>2. /\ after[l] \in X
          /\ \A c \in 0..(N - 1) : after[l].isFree[c] <=> (after[l - 1].isFree[c] \/ Named(l, c))
        <3> HIDE DEF X, n
        <3> QED BY <1>4, <2>1
    <2>3. \A c \in 0..(N - 1) :
              after[l - 1].isFree[c] <=> (p.isFree[c] \/ \E k \in 1..(l - 1) : Named(k, c))
        BY <1>12
    <2>4. \A c : (\E k \in 1..l : Named(k, c)) <=> (Named(l, c) \/ \E k \in 1..(l - 1) : Named(k, c))
        <3> HIDE DEF X, n
        <3> QED BY <1>2
    <2>5. l \in 0..n
        BY <1>2
    <2> HIDE DEF X, n
    <2> QED BY <2>2, <2>3, <2>4, <2>5
<1>13. n \in T
    <2> HIDE DEF T, n
    <2>1. \A l \in 0..n : l \in T
        BY <1>2, <1>11, <1>12, Induction
    <2> QED BY <1>2, <2>1
<1>14. \A c : (\E k \in 1..n : Named(k, c)) <=> \E x \in DOMAIN Entries(kv) : Entries(kv)[x] = c
    <2> SUFFICES ASSUME NEW c
                 PROVE  (\E k \in 1..n : Named(k, c))
                           <=> \E x \in DOMAIN Entries(kv) : Entries(kv)[x] = c
        OBVIOUS
    <2> HIDE DEF n
    <2>1. ASSUME NEW k \in 1..n, Named(k, c)
          PROVE  \E x \in DOMAIN Entries(kv) : Entries(kv)[x] = c
        <3>1. PICK i \in 1..Len(kv[k].blocks) : kv[k].blocks[i] = c
            BY <2>1 DEF Named
        <3>2. <<k, i>> \in DOMAIN Entries(kv) /\ Entries(kv)[<<k, i>>] = c
            BY <1>2, <3>1, EntriesOfTables
        <3> QED BY <3>2
    <2>2. ASSUME NEW x \in DOMAIN Entries(kv), Entries(kv)[x] = c
          PROVE  \E k \in 1..n : Named(k, c)
        <3>0. PICK l \in Layers : \E i \in 1..Len(kv[l].blocks) : x = <<l, i>>
            BY EntriesOfTables
        <3>1. PICK i \in 1..Len(kv[l].blocks) : x = <<l, i>>
            BY <3>0
        <3>2. kv[l].blocks[i] = c
            BY <2>2, <3>1, EntriesOfTables
        <3> QED BY <1>2, <3>2 DEF Named
    <2> QED BY <2>1, <2>2
<1> QED BY <1>1, <1>13, <1>14

\* The positions depend on the blocks only, not on the token counts.
LEMMA SameBlocksSameEntries ==
    ASSUME NEW kv, NEW kw, \A l \in Layers : kv[l].blocks = kw[l].blocks
    PROVE  Entries(kv) = Entries(kw)
<1>1. Positions(kv) = Positions(kw)
    BY DEF Positions
<1>2. \A x \in Positions(kv) : kv[x[1]].blocks = kw[x[1]].blocks
    BY DEF Positions
<1> QED BY <1>1, <1>2 DEF Entries

\* The blocks Deal appends are those of a growing holding.
LEMMA DealGrows ==
    ASSUME NEW p \in PoolType(DEFAULT_TOTAL_KV_BLOCKS), FreeListOK(p),
           NEW kv \in Tables, NEW need \in Nat, CanAllocate(p, need * K),
           NEW H, NEW r \in Requests, H[r] = Entries(kv)
    PROVE  /\ Deal(kv, Taken(p, need * K), need) \in Tables
           /\ \E num : Grows(p, need * K, H, r, Entries(Deal(kv, Taken(p, need * K), need)), num)
<1> DEFINE n == need * K
           t == Taken(p, n)
           D == Deal(kv, t, need)
           num == [x \in Positions(D) |-> (x[1] - 1) * need + (x[2] - Len(kv[x[1]].blocks))]
<1>1. n \in Nat /\ DEFAULT_TOTAL_KV_BLOCKS \in Nat
    BY ConstantTypes
<1>2. t \in [1..n -> GpuBlocks]
    <2> HIDE DEF n
    <2> QED BY <1>1, TakenDistinct DEF n, GpuBlocks
<1>3. /\ D \in Tables
      /\ \A l \in Layers :
            /\ Len(D[l].blocks) = Len(kv[l].blocks) + need
            /\ \A i \in 1..Len(kv[l].blocks) : D[l].blocks[i] = kv[l].blocks[i]
            /\ \A j \in 1..need : D[l].blocks[Len(kv[l].blocks) + j] = t[(l - 1) * need + j]
    <2> HIDE DEF t
    <2> QED BY <1>2, DealOK
<1> HIDE DEF t, D
<1>4. /\ \A l \in Layers : Len(kv[l].blocks) \in Nat
      /\ \A l \in Layers : l \in Nat
    BY ConstantTypes DEF Tables, KvType, Layers, K
<1>5. ASSUME NEW x \in DOMAIN Entries(kv)
      PROVE  x \in DOMAIN Entries(D) /\ Entries(D)[x] = Entries(kv)[x]
    <2>1. PICK l \in Layers : \E i \in 1..Len(kv[l].blocks) : x = <<l, i>>
        BY EntriesOfTables
    <2>2. PICK i \in 1..Len(kv[l].blocks) : x = <<l, i>>
        BY <2>1
    <2>3. i \in 1..Len(D[l].blocks) /\ D[l].blocks[i] = kv[l].blocks[i]
        BY <1>3, <1>4
    <2>4. Entries(kv)[x] = kv[l].blocks[i]
        BY <2>2, EntriesOfTables
    <2>5. x \in DOMAIN Entries(D) /\ Entries(D)[x] = D[l].blocks[i]
        BY <1>3, <2>2, <2>3, EntriesOfTables
    <2> QED BY <2>3, <2>4, <2>5
\* A new position is entry j of what layer l got.
<1>6. ASSUME NEW x \in DOMAIN Entries(D) \ DOMAIN Entries(kv)
      PROVE  \E l \in Layers : \E j \in 1..need :
                /\ x = <<l, Len(kv[l].blocks) + j>>
                /\ num[x] = (l - 1) * need + j
                /\ Entries(D)[x] = t[(l - 1) * need + j]
    <2>1. PICK l \in Layers : \E i \in 1..Len(D[l].blocks) : x = <<l, i>>
        BY <1>3, EntriesOfTables
    <2>2. PICK i \in 1..Len(D[l].blocks) : x = <<l, i>>
        BY <2>1
    <2>3. i \notin 1..Len(kv[l].blocks)
        BY <2>2, EntriesOfTables
    <2>4. i - Len(kv[l].blocks) \in 1..need
        BY <1>3, <1>4, <2>3
    <2>5. PICK j \in 1..need : i = Len(kv[l].blocks) + j
        <3>1. i = Len(kv[l].blocks) + (i - Len(kv[l].blocks))
            BY <1>4
        <3> QED BY <2>4, <3>1
    <2>6. Entries(D)[x] = D[l].blocks[i]
        BY <1>3, <2>2, EntriesOfTables
    <2>7. num[x] = (l - 1) * need + j
        <3>1. x \in Positions(D) /\ x[1] = l /\ x[2] = i
            BY <1>3, <2>2, EntriesOfTables
        <3>2. num[x] = (l - 1) * need + (i - Len(kv[l].blocks))
            BY <3>1
        <3>3. i - Len(kv[l].blocks) = j
            BY <1>4, <2>5
        <3> QED BY <3>2, <3>3
    <2> QED BY <1>3, <2>2, <2>5, <2>6, <2>7
<1> HIDE DEF num
<1>7. ASSUME NEW x \in DOMAIN Entries(D) \ DOMAIN Entries(kv)
      PROVE  num[x] \in 1..n /\ Entries(D)[x] = t[num[x]]
    <2>1. PICK l \in Layers, j \in 1..need :
              num[x] = (l - 1) * need + j /\ Entries(D)[x] = t[(l - 1) * need + j]
        BY <1>6
    <2>2. (l - 1) * need + j \in 1..n
        BY SliceInside
    <2> HIDE DEF n
    <2> QED BY <2>1, <2>2
<1>8. ASSUME NEW x \in DOMAIN Entries(D) \ DOMAIN Entries(kv),
             NEW y \in DOMAIN Entries(D) \ DOMAIN Entries(kv), num[x] = num[y]
      PROVE  x = y
    <2>1. PICK k \in Layers, i \in 1..need :
              x = <<k, Len(kv[k].blocks) + i>> /\ num[x] = (k - 1) * need + i
        BY <1>6
    <2>2. PICK l \in Layers, j \in 1..need :
              y = <<l, Len(kv[l].blocks) + j>> /\ num[y] = (l - 1) * need + j
        BY <1>6
    <2>3. k = l /\ i = j
        <3>1. (k - 1) * need + i = (l - 1) * need + j
            BY <1>8, <2>1, <2>2
        <3> QED BY <3>1, SlicesApart
    <2> QED BY <2>1, <2>2, <2>3
<1>9. ASSUME NEW i \in 1..n PROVE \E x \in DOMAIN Entries(D) \ DOMAIN Entries(kv) : num[x] = i
    <2>1. PICK l \in Layers, j \in 1..need : i = (l - 1) * need + j
        BY SlicesCover
    <2> DEFINE x == <<l, Len(kv[l].blocks) + j>>
    <2>2. Len(kv[l].blocks) + j \in 1..Len(D[l].blocks)
        BY <1>3, <1>4
    <2>3. x \in DOMAIN Entries(D)
        BY <1>3, <2>2, EntriesOfTables
    <2>4. x \notin DOMAIN Entries(kv)
        <3>1. ~(Len(kv[l].blocks) + j <= Len(kv[l].blocks))
            BY <1>4
        <3> QED BY <3>1 DEF Entries, Positions
    <2>5. PICK k \in Layers, m \in 1..need :
              x = <<k, Len(kv[k].blocks) + m>> /\ num[x] = (k - 1) * need + m
        BY <1>6, <2>3, <2>4
    <2>6. k = l /\ m = j
        BY <1>4, <2>5
    <2> QED BY <2>1, <2>3, <2>4, <2>5, <2>6
<1>10. Grows(p, n, H, r, Entries(D), num)
    BY <1>5, <1>7, <1>8, <1>9 DEF Grows, t
<1> QED BY <1>3, <1>10 DEF D, t
-----------------------------------------------------------------------------
(* Swap records. *)

LEMMA DivMod ==
    ASSUME NEW per \in Nat, NEW l \in Layers, NEW j \in 1..per,
           NEW i, i = (l - 1) * per + j
    PROVE  (i - 1) \div per = l - 1 /\ (i - 1) % per = j - 1
<1>1. l - 1 \in Nat /\ per \in Nat \ {0} /\ j - 1 \in 0..(per - 1)
    BY ConstantTypes DEF Layers, K
<1>2. ASSUME NEW a \in Nat, NEW c \in 0..(per - 1)
      PROVE  (a * per + c) \div per = a /\ (a * per + c) % per = c
    BY <1>1
<1>3. i - 1 = (l - 1) * per + (j - 1)
    <2>1. (l - 1) * per \in Int
        BY <1>1
    <2> QED BY <2>1
<1> QED BY <1>1, <1>2, <1>3

\* Entry number i of a record is block j of layer l.
LEMMA SwapRecordOK ==
    ASSUME NEW kv \in Tables, NEW ids \in [1..(NumBlocks(kv) * K) -> CpuBlocks]
    PROVE  /\ SwapRecord(kv, ids) \in RecordType
           /\ SwapRecord(kv, ids).blocks_per_layer = NumBlocks(kv)
           /\ Len(SwapRecord(kv, ids).cpu_blocks) = NumBlocks(kv) * K
           /\ \A l \in Layers : \A j \in 1..NumBlocks(kv) :
                 SwapRecord(kv, ids).cpu_blocks[(l - 1) * NumBlocks(kv) + j].valid_tokens
                    = ValidTokens(kv[l].tokens, j - 1)
           /\ CpuIds(SwapRecord(kv, ids)) = ids
<1> DEFINE per == NumBlocks(kv)
           n == per * K
           valid(i) == ValidTokens(kv[(i - 1) \div per + 1].tokens, (i - 1) % per)
           es == [i \in 1..n |-> [cpu_block_id |-> ids[i], valid_tokens |-> valid(i)]]
           rec == SwapRecord(kv, ids)
<1>1. per \in Nat
    BY ConstantTypes DEF NumBlocks, Tables, KvType
<1>2. n \in Nat
    <2> HIDE DEF per
    <2> QED BY <1>1, ConstantTypes
<1>3. rec = [blocks_per_layer |-> per, cpu_blocks |-> es]
    BY DEF SwapRecord, K
<1> HIDE DEF per
<1>4. \A l \in Layers : \A j \in 1..per :
          /\ (l - 1) * per + j \in 1..n
          /\ valid((l - 1) * per + j) = ValidTokens(kv[l].tokens, j - 1)
    <2> TAKE l \in Layers
    <2> TAKE j \in 1..per
    <2>1. (l - 1) * per + j \in 1..n
        BY <1>1, SliceInside
    <2>3. l - 1 + 1 = l
        BY ConstantTypes DEF Layers, K
    <2> DEFINE i == (l - 1) * per + j
    <2>4. i = (l - 1) * per + j /\ i \in 1..n
        BY <2>1
    <2> HIDE DEF i, n
    <2>2. (i - 1) \div per = l - 1 /\ (i - 1) % per = j - 1
        BY <1>1, <2>4, DivMod
    <2>6. valid(i) = ValidTokens(kv[l].tokens, j - 1)
        BY <2>2, <2>3
    <2> QED BY <2>4, <2>6 DEF i
<1>5. \A l \in Layers, b \in Int : ValidTokens(kv[l].tokens, b) \in Nat
    <2> TAKE l \in Layers, b \in Int
    <2>1. kv[l].tokens \in Nat
        BY DEF Tables, KvType
    <2> HIDE DEF per
    <2> DEFINE m == kv[l].tokens
    <2> HIDE DEF m
    <2>2. m - b * DEFAULT_KV_BLOCK_SIZE \in Int
        BY <2>1, ConstantTypes DEF m
    <2>3. ValidTokens(m, b) \in Nat
        BY <2>1, <2>2, ConstantTypes DEF ValidTokens, Lesser, Greater
    <2> QED BY <2>3 DEF m
<1>6. \A i \in 1..n : valid(i) \in Nat
    <2> TAKE i \in 1..n
    <2>1. PICK l \in Layers, j \in 1..per : i = (l - 1) * per + j
        BY <1>1, SlicesCover
    <2>2. valid(i) = ValidTokens(kv[l].tokens, j - 1)
        BY <1>4, <2>1
    <2>3. j - 1 \in Int
        BY <1>1
    <2> HIDE DEF valid
    <2> QED BY <1>5, <2>2, <2>3
<1> HIDE DEF valid, n
<1>7. \A i \in 1..n : ids[i] \in CpuBlocks
    BY DEF n, per
<1>8. es \in [1..n -> [cpu_block_id : CpuBlocks, valid_tokens : Nat]]
    BY <1>6, <1>7
<1>9. es \in Seq([cpu_block_id : CpuBlocks, valid_tokens : Nat]) /\ Len(es) = n
    BY <1>2, <1>8
<1>10. rec \in RecordType
    <2> HIDE DEF es, rec
    <2> QED BY <1>1, <1>3, <1>9 DEF RecordType
<1>11. CpuIds(rec) = ids
    <2>1. DOMAIN es = 1..n /\ \A i \in 1..n : es[i].cpu_block_id = ids[i]
        OBVIOUS
    <2>2. CpuIds(rec) = [i \in 1..n |-> ids[i]]
        <3> HIDE DEF es, rec
        <3> QED BY <1>3, <2>1 DEF CpuIds
    <2>3. ids \in [1..n -> CpuBlocks]
        BY DEF n, per
    <2> QED BY <2>2, <2>3
<1>12. \A l \in Layers : \A j \in 1..per :
           es[(l - 1) * per + j].valid_tokens = ValidTokens(kv[l].tokens, j - 1)
    BY <1>4
<1> HIDE DEF es, rec
<1> QED BY <1>3, <1>9, <1>10, <1>11, <1>12 DEF per, n, rec
-----------------------------------------------------------------------------
(* The inductive invariant: each pool is accounted for by who holds it, and *)
(* what a request holds where follows from where its caller is with it.     *)

HeldBy(kvs) == [r \in Requests |-> Entries(kvs[r])]
HeldOnCpu(recs) ==
    [r \in Requests |-> IF r \in DOMAIN recs THEN CpuIds(recs[r]) ELSE <<>>]

GpuAccountedFor == PoolHolds(DEFAULT_TOTAL_KV_BLOCKS, gpu, HeldBy(layer_kv))
CpuAccountedFor == PoolHolds(DEFAULT_TOTAL_CPU_BLOCKS, cpu, HeldOnCpu(swapped_requests))

RequestTypes ==
    /\ prompts_len \in [Requests -> PromptLens]
    /\ layer_kv \in [Requests -> Tables]
    /\ kv_residency \in [Requests -> {"None", "Gpu", "Cpu"}]
    /\ generated \in [Requests -> 0..MAX_NEW_TOKENS]
    /\ stage \in [Requests -> {"new", "admitted", "ran", "ready", "granted", "swapped", "done"}]
    /\ DOMAIN swapped_requests \subseteq Requests
    /\ \A r \in DOMAIN swapped_requests : swapped_requests[r] \in RecordType
    /\ capacity \in {0, StagingBlocks}
    /\ faults \in 0..MAX_FAULTS

StageOK(r) ==
    /\ r \in DOMAIN swapped_requests <=> stage[r] = "swapped"
    /\ stage[r] \in {"new", "swapped", "done"} => layer_kv[r] = EmptyKv
    /\ stage[r] \in {"new", "done"} => kv_residency[r] = "None"
    /\ stage[r] = "swapped" => kv_residency[r] = "Cpu"
    /\ stage[r] \in {"admitted", "ran", "ready", "granted"} => kv_residency[r] = "Gpu"
    /\ stage[r] = "granted" => generated[r] < MAX_NEW_TOKENS

IInv ==
    /\ RequestTypes
    /\ GpuAccountedFor
    /\ CpuAccountedFor
    /\ \A r \in Requests : StageOK(r)

LEMMA PoolsTyped ==
    ASSUME IInv
    PROVE  /\ gpu \in PoolType(DEFAULT_TOTAL_KV_BLOCKS) /\ FreeListOK(gpu)
           /\ cpu \in PoolType(DEFAULT_TOTAL_CPU_BLOCKS) /\ FreeListOK(cpu)
BY DEF IInv, GpuAccountedFor, CpuAccountedFor, PoolHolds

LEMMA InitEstablishes == Init => IInv
<1> SUFFICES ASSUME Init PROVE IInv
    OBVIOUS
<1>1. RequestTypes
    <2>1. swapped_requests = <<>> /\ DOMAIN swapped_requests = {}
        BY DEF Init
    <2>2. capacity \in {0, StagingBlocks} /\ faults \in 0..MAX_FAULTS
        BY ConstantTypes DEF Init
    <2>3. generated \in [Requests -> 0..MAX_NEW_TOKENS]
        BY ConstantTypes DEF Init
    <2>4. layer_kv \in [Requests -> Tables]
        BY EmptyTables DEF Init
    <2> QED BY <2>1, <2>2, <2>3, <2>4 DEF Init, RequestTypes
<1>2. GpuAccountedFor
    <2> DEFINE N == DEFAULT_TOTAL_KV_BLOCKS
               H == HeldBy(layer_kv)
    <2>1. gpu \in PoolType(N) /\ FreeListOK(gpu) /\ \A b \in 0..(N - 1) : gpu.isFree[b]
        BY ConstantTypes, NewPoolOK DEF Init
    <2>2. \A r \in Requests : DOMAIN H[r] = {}
        BY EmptyTables DEF Init, HeldBy, Entries
    <2> HIDE DEF N, H
    <2>3. Apart(H) /\ AccountedFor(0..(N - 1), gpu.isFree, H)
        BY <2>1, <2>2 DEF Apart, AccountedFor, IsHeld
    <2> QED BY <2>1, <2>3 DEF GpuAccountedFor, PoolHolds, N, H
<1>3. CpuAccountedFor
    <2> DEFINE N == DEFAULT_TOTAL_CPU_BLOCKS
               H == HeldOnCpu(swapped_requests)
    <2>1. cpu \in PoolType(N) /\ FreeListOK(cpu) /\ \A b \in 0..(N - 1) : cpu.isFree[b]
        BY ConstantTypes, NewPoolOK DEF Init
    <2>2. \A r \in Requests : DOMAIN H[r] = {}
        BY DEF Init, HeldOnCpu
    <2> HIDE DEF N, H
    <2>3. Apart(H) /\ AccountedFor(0..(N - 1), cpu.isFree, H)
        BY <2>1, <2>2 DEF Apart, AccountedFor, IsHeld
    <2> QED BY <2>1, <2>3 DEF CpuAccountedFor, PoolHolds, N, H
<1>4. ASSUME NEW r \in Requests PROVE StageOK(r)
    BY DEF Init, StageOK
<1> QED BY <1>1, <1>2, <1>3, <1>4 DEF IInv

\* With consistent records can_allocate keeps its promise, and the loops never
\* stop early.
LEMMA TakeBlocksEffect ==
    ASSUME IInv, NEW r \in Requests, NEW need \in Nat, NEW next, TakeBlocks(r, need, next)
    PROVE  /\ CanAllocate(gpu, need * K)
           /\ gpu' = AfterTaking(gpu, need * K)
           /\ layer_kv' = [layer_kv EXCEPT ![r] =
                               Deal(layer_kv[r], Taken(gpu, need * K), need)]
           /\ kv_residency' = [kv_residency EXCEPT ![r] = "Gpu"]
           /\ stage' = [stage EXCEPT ![r] = next]
           /\ UNCHANGED <<cpu, prompts_len, generated, swapped_requests, capacity, faults>>
<1> DEFINE n == need * K
<1>1. n \in Nat /\ DEFAULT_TOTAL_KV_BLOCKS \in Nat
    BY ConstantTypes
<1>2. CanAllocate(gpu, n)
    BY DEF TakeBlocks, K
<1> HIDE DEF n
<1>3. n <= Len(gpu.ids) /\ Len(gpu.ids) \in Nat
    <2>1. Len(gpu.ids) \in Nat
        BY PoolsTyped DEF PoolType
    <2> QED BY <1>1, <1>2, <2>1, PoolsTyped, TakingOK
<1>4. Lesser(n, Len(gpu.ids)) = n
    BY <1>1, <1>3 DEF Lesser
<1> QED BY <1>2, <1>4 DEF TakeBlocks, n, K

LEMMA TakeBlocksKeeps ==
    ASSUME IInv, NEW r \in Requests, NEW need \in Nat, NEW next \in {"admitted", "granted"},
           TakeBlocks(r, need, next), stage[r] \in {"new", "ran", "ready"},
           next = "granted" => generated[r] < MAX_NEW_TOKENS
    PROVE  IInv'
<1> DEFINE n == need * K
           kv == Deal(layer_kv[r], Taken(gpu, n), need)
<1>1. n \in Nat /\ DEFAULT_TOTAL_KV_BLOCKS \in Nat
    BY ConstantTypes
<1>2. CanAllocate(gpu, n)
    BY TakeBlocksEffect
<1>3. /\ gpu' = AfterTaking(gpu, n)
      /\ layer_kv' = [layer_kv EXCEPT ![r] = kv]
      /\ kv_residency' = [kv_residency EXCEPT ![r] = "Gpu"]
      /\ stage' = [stage EXCEPT ![r] = next]
      /\ UNCHANGED <<cpu, prompts_len, generated, swapped_requests, capacity, faults>>
    BY TakeBlocksEffect
<1> HIDE DEF n
<1>4. layer_kv \in [Requests -> Tables] /\ layer_kv[r] \in Tables
    BY DEF IInv, RequestTypes
<1> DEFINE H == HeldBy(layer_kv)
<1>5. H[r] = Entries(layer_kv[r])
    BY DEF HeldBy
<1>6. kv \in Tables /\ \E num : Grows(gpu, n, H, r, Entries(kv), num)
    <2> HIDE DEF H
    <2> QED BY <1>2, <1>4, <1>5, PoolsTyped, DealGrows DEF n
<1> HIDE DEF kv
<1>7. GpuAccountedFor'
    <2> DEFINE G == HeldBy(layer_kv')
               h == Entries(kv)
    <2>1. \A q \in Requests : G[q] = IF q = r THEN h ELSE H[q]
        BY <1>3, <1>4 DEF HeldBy
    <2>2. PICK num : Grows(gpu, n, H, r, h, num)
        BY <1>6
    <2>3. PoolHolds(DEFAULT_TOTAL_KV_BLOCKS, gpu, H)
        BY DEF IInv, GpuAccountedFor
    <2> HIDE DEF G, h, H
    <2>4. PoolHolds(DEFAULT_TOTAL_KV_BLOCKS, AfterTaking(gpu, n), G)
        BY <1>1, <1>2, <2>1, <2>2, <2>3, PoolGives
    <2> QED BY <1>3, <2>4 DEF GpuAccountedFor, G
<1>8. CpuAccountedFor'
    BY <1>3 DEF IInv, CpuAccountedFor
<1>9. RequestTypes'
    BY <1>3, <1>6 DEF IInv, RequestTypes
<1>10. ASSUME NEW q \in Requests PROVE StageOK(q)'
    <2>1. StageOK(q) /\ StageOK(r)
        BY DEF IInv
    <2> QED BY <1>3, <2>1 DEF IInv, RequestTypes, StageOK
<1> QED BY <1>7, <1>8, <1>9, <1>10 DEF IInv

\* A run changes token counts, no blocks.
LEMMA RunKeeps ==
    ASSUME IInv, NEW r \in Requests, stage[r] \in {"admitted", "granted"},
           NEW count \in [Layers -> Nat], NEW m \in 0..MAX_NEW_TOKENS,
           layer_kv' = [layer_kv EXCEPT ![r] =
                           [l \in Layers |-> [layer_kv[r][l] EXCEPT !.tokens = count[l]]]],
           generated' = [generated EXCEPT ![r] = m],
           stage' = [stage EXCEPT ![r] = "ran"],
           UNCHANGED <<pools, prompts_len, kv_residency, swapped_requests, capacity, faults>>
    PROVE  IInv'
<1> DEFINE kv == [l \in Layers |-> [layer_kv[r][l] EXCEPT !.tokens = count[l]]]
<1>1. layer_kv \in [Requests -> Tables] /\ layer_kv[r] \in Tables
    BY DEF IInv, RequestTypes
<1>2. \A l \in Layers : kv[l] \in KvType /\ kv[l].blocks = layer_kv[r][l].blocks
    BY <1>1 DEF Tables, KvType
<1>3. kv \in Tables
    <2>1. kv = [l \in Layers |-> kv[l]]
        OBVIOUS
    <2> HIDE DEF kv
    <2> QED BY <1>2, <2>1 DEF Tables
<1>4. layer_kv' = [layer_kv EXCEPT ![r] = kv]
    OBVIOUS
<1> HIDE DEF kv
<1>5. Entries(kv) = Entries(layer_kv[r])
    BY <1>2, SameBlocksSameEntries
<1>6. HeldBy(layer_kv') = HeldBy(layer_kv)
    BY <1>1, <1>4, <1>5 DEF HeldBy
<1>7. GpuAccountedFor' /\ CpuAccountedFor'
    BY <1>6 DEF IInv, GpuAccountedFor, CpuAccountedFor, pools
<1>8. RequestTypes'
    BY <1>3, <1>4 DEF IInv, RequestTypes
<1>9. ASSUME NEW q \in Requests PROVE StageOK(q)'
    <2>1. StageOK(q) /\ StageOK(r)
        BY DEF IInv
    <2> QED BY <1>4, <2>1 DEF IInv, RequestTypes, StageOK
<1> QED BY <1>7, <1>8, <1>9 DEF IInv

\* The tables of r go back to the GPU pool.
LEMMA FreeTablesKeeps ==
    ASSUME IInv, NEW r \in Requests,
           gpu' = FreeTables(gpu, layer_kv[r]),
           layer_kv' = [layer_kv EXCEPT ![r] = EmptyKv]
    PROVE  GpuAccountedFor'
<1> DEFINE N == DEFAULT_TOTAL_KV_BLOCKS
           H == HeldBy(layer_kv)
           G == HeldBy(layer_kv')
<1>1. layer_kv \in [Requests -> Tables] /\ layer_kv[r] \in Tables
    BY DEF IInv, RequestTypes
<1>2. N \in Nat
    BY ConstantTypes
<1>3. /\ gpu' \in PoolType(N) /\ FreeListOK(gpu')
      /\ \A c \in 0..(N - 1) : gpu'.isFree[c] <=>
            (gpu.isFree[c] \/ \E x \in DOMAIN Entries(layer_kv[r]) : Entries(layer_kv[r])[x] = c)
    <2> HIDE DEF N
    <2> QED BY <1>1, <1>2, PoolsTyped, FreeTablesOK DEF N
<1>4. H[r] = Entries(layer_kv[r])
    BY DEF HeldBy
<1>5. DOMAIN G[r] = {}
    BY <1>1, EmptyTables DEF HeldBy, Entries
<1>6. \A q \in Requests : q # r => G[q] = H[q]
    BY <1>1 DEF HeldBy
<1>7. PoolHolds(N, gpu, H)
    BY DEF IInv, GpuAccountedFor
<1> HIDE DEF G, H, N
<1>8. Returned(0..(N - 1), gpu.isFree, gpu'.isFree, H, r, G)
    BY <1>3, <1>4, <1>5, <1>6 DEF Returned
<1>9. PoolHolds(N, gpu', G)
    BY <1>2, <1>3, <1>7, <1>8, PoolTakesBack
<1> QED BY <1>9 DEF GpuAccountedFor, G, N

LEMMA FreeRequestKeeps ==
    ASSUME IInv, NEW r \in Requests, FreeRequest(r)
    PROVE  IInv'
<1>1. GpuAccountedFor'
    BY FreeTablesKeeps DEF FreeRequest
<1>2. CpuAccountedFor'
    BY DEF FreeRequest, IInv, CpuAccountedFor
<1>3. RequestTypes'
    BY EmptyTables DEF FreeRequest, IInv, RequestTypes
<1>4. ASSUME NEW q \in Requests PROVE StageOK(q)'
    <2>1. StageOK(q) /\ StageOK(r)
        BY DEF IInv
    <2> QED BY <2>1 DEF FreeRequest, IInv, RequestTypes, StageOK
<1> QED BY <1>1, <1>2, <1>3, <1>4 DEF IInv

LEMMA SwapOutKeeps ==
    ASSUME IInv, NEW r \in Requests, SwapOut(r)
    PROVE  IInv'
<1> DEFINE N == DEFAULT_TOTAL_CPU_BLOCKS
           n == NumBlocks(layer_kv[r]) * K
           t == Taken(cpu, n)
           rec == SwapRecord(layer_kv[r], t)
           H == HeldOnCpu(swapped_requests)
           G == HeldOnCpu(swapped_requests')
<1>1. layer_kv[r] \in Tables /\ NumBlocks(layer_kv[r]) \in Nat
    BY ConstantTypes DEF IInv, RequestTypes, Tables, KvType, NumBlocks
<1>2. n \in Nat /\ N \in Nat
    BY <1>1, ConstantTypes
<1>3. /\ CanSwapOut(r)
      /\ cpu' = AfterTaking(cpu, n)
      /\ swapped_requests' = [q \in DOMAIN swapped_requests \cup {r} |->
                                 IF q = r THEN rec ELSE swapped_requests[q]]
      /\ gpu' = FreeTables(gpu, layer_kv[r])
      /\ layer_kv' = [layer_kv EXCEPT ![r] = EmptyKv]
      /\ kv_residency' = [kv_residency EXCEPT ![r] = "Cpu"]
      /\ stage' = [stage EXCEPT ![r] = "swapped"]
      /\ UNCHANGED <<prompts_len, generated, capacity, faults>>
    BY DEF SwapOut, K
<1>4. r \notin DOMAIN swapped_requests /\ n <= cpu.count
    BY <1>3 DEF CanSwapOut, K
<1>5. CanAllocate(cpu, n)
    <2> HIDE DEF n
    <2>1. cpu.count \in Int
        BY PoolsTyped DEF PoolType
    <2> QED BY <1>2, <1>4, <2>1 DEF CanAllocate
<1>6. t \in [1..n -> CpuBlocks]
    <2> HIDE DEF n
    <2> QED BY <1>2, <1>5, PoolsTyped, TakenDistinct DEF CpuBlocks
<1>7. rec \in RecordType /\ CpuIds(rec) = t
    <2> HIDE DEF t
    <2> QED BY <1>1, <1>6, SwapRecordOK
<1> HIDE DEF rec, n
<1>8. CpuAccountedFor'
    <2> DEFINE num == [i \in 1..n |-> i]
    <2>1. \A q \in Requests : G[q] = IF q = r THEN t ELSE H[q]
        <3>1. \A q \in Requests : G[q] = IF q = r THEN CpuIds(rec) ELSE H[q]
            BY <1>3 DEF HeldOnCpu
        <3> QED BY <1>7, <3>1
    <2>2. DOMAIN H[r] = {}
        BY <1>4 DEF HeldOnCpu
    <2>3. DOMAIN t = 1..n
        BY DEF Taken
    <2>4. PoolHolds(N, cpu, H)
        BY DEF IInv, CpuAccountedFor
    <2> HIDE DEF G, H
    <2>5. Grows(cpu, n, H, r, t, num)
        BY <2>2, <2>3 DEF Grows
    <2> HIDE DEF num, t, N
    <2>6. PoolHolds(N, AfterTaking(cpu, n), G)
        BY <1>2, <1>5, <2>1, <2>4, <2>5, PoolGives
    <2> QED BY <1>3, <2>6 DEF CpuAccountedFor, G, N
<1>9. GpuAccountedFor'
    BY <1>3, FreeTablesKeeps
<1>10. RequestTypes'
    <2>1. DOMAIN swapped_requests' = DOMAIN swapped_requests \cup {r}
        BY <1>3
    <2>2. \A q \in DOMAIN swapped_requests' : swapped_requests'[q] \in RecordType
        BY <1>3, <1>7 DEF IInv, RequestTypes
    <2> QED BY <1>3, <2>1, <2>2, EmptyTables DEF IInv, RequestTypes
<1>11. ASSUME NEW q \in Requests PROVE StageOK(q)'
    <2>1. StageOK(q) /\ StageOK(r)
        BY DEF IInv
    <2>2. DOMAIN swapped_requests' = DOMAIN swapped_requests \cup {r}
        BY <1>3
    <2> QED BY <1>3, <2>1, <2>2 DEF IInv, RequestTypes, StageOK
<1> QED BY <1>8, <1>9, <1>10, <1>11 DEF IInv

LEMMA SwapOutFailsKeeps ==
    ASSUME IInv, NEW r \in Requests, SwapOutFails(r)
    PROVE  IInv'
<1> DEFINE N == DEFAULT_TOTAL_CPU_BLOCKS
           n == NumBlocks(layer_kv[r]) * K
           H == HeldOnCpu(swapped_requests)
<1>1. layer_kv[r] \in Tables /\ NumBlocks(layer_kv[r]) \in Nat
    BY ConstantTypes DEF IInv, RequestTypes, Tables, KvType, NumBlocks
<1>2. n \in Nat /\ N \in Nat
    BY <1>1, ConstantTypes
<1>3. /\ n <= cpu.count
      /\ cpu' = FreeAll(AfterTaking(cpu, n), Taken(cpu, n))
      /\ faults' = faults \/ (faults < MAX_FAULTS /\ faults' = faults + 1)
      /\ UNCHANGED <<gpu, prompts_len, layer_kv, kv_residency, generated, stage,
                     swapped_requests, capacity>>
    BY DEF SwapOutFails, CanSwapOut, K
<1> HIDE DEF n
<1>4. CanAllocate(cpu, n)
    BY <1>2, <1>3, PoolsTyped DEF CanAllocate, PoolType
<1>5. PoolHolds(N, cpu', H)
    <2>1. PoolHolds(N, cpu, H)
        BY DEF IInv, CpuAccountedFor
    <2> HIDE DEF N, H
    <2> QED BY <1>2, <1>3, <1>4, <2>1, PoolRollsBack
<1>6. CpuAccountedFor' /\ GpuAccountedFor'
    BY <1>3, <1>5 DEF IInv, CpuAccountedFor, GpuAccountedFor
<1>7. RequestTypes'
    <2>1. faults' \in 0..MAX_FAULTS
        BY <1>3, ConstantTypes DEF IInv, RequestTypes
    <2> QED BY <1>3, <2>1 DEF IInv, RequestTypes
<1>8. ASSUME NEW q \in Requests PROVE StageOK(q)'
    BY <1>3 DEF IInv, StageOK
<1> QED BY <1>6, <1>7, <1>8 DEF IInv

\* swap_in up to its copies, successful or not.
LEMMA SwapInTakes ==
    ASSUME IInv, NEW r \in Requests, CanSwapIn(r)
    PROVE  /\ swapped_requests[r] \in RecordType
           /\ swapped_requests[r].blocks_per_layer \in Nat
           /\ Len(swapped_requests[r].cpu_blocks) = swapped_requests[r].blocks_per_layer * K
           /\ CanAllocate(gpu, swapped_requests[r].blocks_per_layer * K)
BY DEF CanSwapIn, IInv, RequestTypes, RecordType, K

LEMMA SwapInFailsKeeps ==
    ASSUME IInv, NEW r \in Requests, SwapInFails(r)
    PROVE  IInv'
<1> DEFINE N == DEFAULT_TOTAL_KV_BLOCKS
           n == swapped_requests[r].blocks_per_layer * K
           H == HeldBy(layer_kv)
<1>1. /\ CanSwapIn(r)
      /\ faults < MAX_FAULTS /\ faults' = faults + 1
      /\ gpu' = FreeAll(AfterTaking(gpu, n), Taken(gpu, n))
      /\ layer_kv' = [layer_kv EXCEPT ![r] = EmptyKv]
      /\ UNCHANGED <<cpu, prompts_len, kv_residency, generated, stage,
                     swapped_requests, capacity>>
    BY DEF SwapInFails, K
<1>2. n \in Nat /\ N \in Nat
    BY <1>1, ConstantTypes, SwapInTakes
<1>3. CanAllocate(gpu, n)
    BY <1>1, SwapInTakes
<1> HIDE DEF n
<1>4. PoolHolds(N, gpu', H)
    <2>1. PoolHolds(N, gpu, H)
        BY DEF IInv, GpuAccountedFor
    <2> HIDE DEF N, H
    <2> QED BY <1>1, <1>2, <1>3, <2>1, PoolRollsBack
\* The tables were empty already.
<1>5. layer_kv' = layer_kv
    <2>1. stage[r] = "swapped" /\ layer_kv[r] = EmptyKv
        BY <1>1 DEF IInv, StageOK, CanSwapIn
    <2> QED BY <1>1, <2>1 DEF IInv, RequestTypes
<1>6. CpuAccountedFor' /\ GpuAccountedFor'
    BY <1>1, <1>4, <1>5 DEF IInv, CpuAccountedFor, GpuAccountedFor
<1>7. RequestTypes'
    <2>1. faults' \in 0..MAX_FAULTS
        BY <1>1, ConstantTypes DEF IInv, RequestTypes
    <2> QED BY <1>1, <1>5, <2>1 DEF IInv, RequestTypes
<1>8. ASSUME NEW q \in Requests PROVE StageOK(q)'
    BY <1>1, <1>5 DEF IInv, StageOK
<1> QED BY <1>6, <1>7, <1>8 DEF IInv

LEMMA RecordEntries ==
    ASSUME NEW rec \in RecordType
    PROVE  /\ rec.blocks_per_layer \in Nat
           /\ Len(rec.cpu_blocks) \in Nat
           /\ DOMAIN rec.cpu_blocks = 1..Len(rec.cpu_blocks)
           /\ \A i \in 1..Len(rec.cpu_blocks) :
                 /\ rec.cpu_blocks[i].cpu_block_id \in CpuBlocks
                 /\ rec.cpu_blocks[i].valid_tokens \in Nat
<1> DEFINE E == [cpu_block_id : CpuBlocks, valid_tokens : Nat]
           es == rec.cpu_blocks
<1>1. rec.blocks_per_layer \in Nat /\ es \in Seq(E)
    BY DEF RecordType
<1> HIDE DEF E, es
<1>2. Len(es) \in Nat /\ DOMAIN es = 1..Len(es) /\ \A i \in 1..Len(es) : es[i] \in E
    BY <1>1
<1>3. \A e \in E : e.cpu_block_id \in CpuBlocks /\ e.valid_tokens \in Nat
    BY DEF E
<1> QED BY <1>1, <1>2, <1>3 DEF es

\* The entries of a record name blocks of the CPU pool.
LEMMA CpuIdsOK ==
    ASSUME NEW rec \in RecordType
    PROVE  /\ IsIdList(CpuIds(rec))
           /\ DOMAIN CpuIds(rec) = 1..Len(CpuIds(rec))
           /\ Len(CpuIds(rec)) = Len(rec.cpu_blocks)
<1> DEFINE es == rec.cpu_blocks
<1>2. /\ Len(es) \in Nat /\ DOMAIN es = 1..Len(es)
      /\ \A i \in 1..Len(es) : es[i].cpu_block_id \in CpuBlocks
    BY RecordEntries
<1> HIDE DEF es
<1>3. CpuIds(rec) = [i \in 1..Len(es) |-> es[i].cpu_block_id]
    BY <1>2 DEF CpuIds, es
<1>4. CpuIds(rec) \in Seq(CpuBlocks) /\ Len(CpuIds(rec)) = Len(es)
    BY <1>2, <1>3
<1>5. \A b \in CpuBlocks : b \in Int
    BY ConstantTypes DEF CpuBlocks
<1> QED BY <1>2, <1>3, <1>4, <1>5 DEF IsIdList, es

LEMMA RestoredOK ==
    ASSUME NEW rec \in RecordType, NEW ids,
           Deal(EmptyKv, ids, rec.blocks_per_layer) \in Tables, RestoredTokens(rec) \in Nat
    PROVE  /\ RestoredKv(rec, ids) \in Tables
           /\ Entries(RestoredKv(rec, ids)) = Entries(Deal(EmptyKv, ids, rec.blocks_per_layer))
<1> DEFINE D == Deal(EmptyKv, ids, rec.blocks_per_layer)
           R == RestoredKv(rec, ids)
<1> HIDE DEF D
<1>1. R = [l \in Layers |-> [blocks |-> D[l].blocks, tokens |-> RestoredTokens(rec)]]
    BY DEF RestoredKv, D
<1>2. \A l \in Layers : D[l].blocks \in Seq(GpuBlocks)
    BY DEF D, Tables, KvType
<1>3. \A l \in Layers : R[l].blocks = D[l].blocks
    BY <1>1
<1>4. R \in Tables
    BY <1>1, <1>2 DEF Tables, KvType
<1> HIDE DEF R
<1>5. Entries(R) = Entries(D)
    BY <1>3, SameBlocksSameEntries
<1> QED BY <1>4, <1>5 DEF R, D

\* The recursive sum of restored_num_tokens, turn by turn.
IsTokenSum(f, rec) ==
    /\ f[0] = 0
    /\ \A b \in 1..rec.blocks_per_layer :
          f[b - 1] \in Nat /\ f[b] = f[b - 1] + rec.cpu_blocks[b].valid_tokens
    /\ f[rec.blocks_per_layer] \in Nat
    /\ f[rec.blocks_per_layer] = RestoredTokens(rec)

LEMMA TokenSumExists ==
    ASSUME NEW rec \in RecordType, rec.blocks_per_layer <= Len(rec.cpu_blocks)
    PROVE  \E f : IsTokenSum(f, rec)
<1> DEFINE n == rec.blocks_per_layer
           step == [b \in 1..n |-> [t \in Nat |-> t + rec.cpu_blocks[b].valid_tokens]]
           IsUpto(f) == f = [b \in 0..n |-> IF b = 0 THEN 0
                                            ELSE f[b - 1] + rec.cpu_blocks[b].valid_tokens]
           upto == CHOOSE f : IsUpto(f)
<1>1. RestoredTokens(rec) = upto[n]
    BY DEF RestoredTokens
<1>2. n \in Nat /\ \A b \in 1..n : rec.cpu_blocks[b].valid_tokens \in Nat
    <2>1. \A b \in 1..n : b \in 1..Len(rec.cpu_blocks)
        BY RecordEntries
    <2> QED BY <2>1, RecordEntries
<1>3. step \in [1..n -> [Nat -> Nat]]
    BY <1>2
<1>4. PICK f : IsLoop(f, n, Nat, 0, step)
    <2>1. 0 \in Nat
        OBVIOUS
    <2> HIDE DEF step, n
    <2> QED BY <1>2, <1>3, <2>1, LoopExists, Zenon
<1>5. \A b \in 1..n : f[b - 1] \in Nat /\ f[b] = f[b - 1] + rec.cpu_blocks[b].valid_tokens
    <2> TAKE b \in 1..n
    <2>1. f[b - 1] \in Nat /\ f[b] = step[b][f[b - 1]]
        <3>1. b - 1 \in 0..n
            BY <1>2
        <3> HIDE DEF step, n
        <3> QED BY <1>4, <3>1 DEF IsLoop
    <2>2. step[b][f[b - 1]] = f[b - 1] + rec.cpu_blocks[b].valid_tokens
        BY <2>1
    <2> QED BY <2>1, <2>2
<1>6. f[0] = 0 /\ f[n] \in Nat
    BY <1>2, <1>4 DEF IsLoop
<1>7. IsUpto(f)
    BY <1>2, <1>4, <1>5 DEF IsLoop
<1>8. IsUpto(upto)
    BY <1>7
<1>9. \A b \in 0..n : upto[b] = IF b = 0 THEN 0 ELSE upto[b - 1] + rec.cpu_blocks[b].valid_tokens
    <2> HIDE DEF upto, n
    <2> QED BY <1>8
<1> HIDE DEF upto
<1> DEFINE T == {b \in 0..n : upto[b] \in Nat}
<1>10. 0 \in T
    BY <1>2, <1>9
<1>11. ASSUME NEW b \in 1..n, b - 1 \in T PROVE b \in T
    BY <1>2, <1>9, <1>11
<1>12. \A b \in 0..n : b \in T
    <2> HIDE DEF T, n
    <2> QED BY <1>2, <1>10, <1>11, Induction
<1>13. IsTokenSum(upto, rec)
    BY <1>1, <1>2, <1>9, <1>12 DEF IsTokenSum
<1> QED BY <1>13

LEMMA SwapInKeeps ==
    ASSUME IInv, NEW r \in Requests, SwapIn(r)
    PROVE  IInv'
<1> DEFINE N == DEFAULT_TOTAL_KV_BLOCKS
           M == DEFAULT_TOTAL_CPU_BLOCKS
           rec == swapped_requests[r]
           per == rec.blocks_per_layer
           n == per * K
           t == Taken(gpu, n)
           D == Deal(EmptyKv, t, per)
           kv == RestoredKv(rec, t)
           ids == CpuIds(rec)
           H == HeldBy(layer_kv)
           G == HeldBy(layer_kv')
           I == HeldOnCpu(swapped_requests)
           J == HeldOnCpu(swapped_requests')
<1>1. /\ CanSwapIn(r)
      /\ gpu' = AfterTaking(gpu, n)
      /\ layer_kv' = [layer_kv EXCEPT ![r] = kv]
      /\ cpu' = FreeAll(cpu, ids)
      /\ swapped_requests' = [q \in DOMAIN swapped_requests \ {r} |-> swapped_requests[q]]
      /\ kv_residency' = [kv_residency EXCEPT ![r] = "Gpu"]
      /\ stage' = [stage EXCEPT ![r] = "ready"]
      /\ UNCHANGED <<prompts_len, generated, capacity, faults>>
    BY DEF SwapIn, K
<1>2. r \in DOMAIN swapped_requests /\ stage[r] = "swapped" /\ layer_kv[r] = EmptyKv
    BY <1>1 DEF CanSwapIn, IInv, StageOK
<1>3. rec \in RecordType /\ per \in Nat /\ Len(rec.cpu_blocks) = n /\ CanAllocate(gpu, n)
    BY <1>1, SwapInTakes
<1>4. n \in Nat /\ N \in Nat /\ M \in Nat
    <2> HIDE DEF per
    <2> QED BY <1>3, ConstantTypes
<1>5. layer_kv \in [Requests -> Tables]
    BY DEF IInv, RequestTypes
<1>6. RestoredTokens(rec) \in Nat
    <2>1. per <= Len(rec.cpu_blocks)
        <3> HIDE DEF per, rec
        <3>1. K \in Nat /\ K >= 1 /\ per * K = per + per * (K - 1) /\ per * (K - 1) \in Nat
            BY <1>3, ConstantTypes
        <3> QED BY <1>3, <3>1
    <2> HIDE DEF rec
    <2> QED BY <1>3, <2>1, TokenSumExists DEF IsTokenSum
<1> HIDE DEF rec
<1>7. H[r] = Entries(EmptyKv)
    BY <1>2 DEF HeldBy
<1>8. D \in Tables /\ \E num : Grows(gpu, n, H, r, Entries(D), num)
    <2> HIDE DEF H, per
    <2> QED BY <1>3, <1>7, EmptyTables, PoolsTyped, DealGrows
<1>9. kv \in Tables /\ Entries(kv) = Entries(D)
    <2> HIDE DEF t
    <2> QED BY <1>3, <1>6, <1>8, RestoredOK
<1> HIDE DEF D, kv
<1>10. GpuAccountedFor'
    <2> DEFINE h == Entries(D)
    <2>1. \A q \in Requests : G[q] = IF q = r THEN h ELSE H[q]
        BY <1>1, <1>5, <1>9 DEF HeldBy
    <2>2. PICK num : Grows(gpu, n, H, r, h, num)
        BY <1>8
    <2>3. PoolHolds(N, gpu, H)
        BY DEF IInv, GpuAccountedFor
    <2> HIDE DEF G, H, h, N, n
    <2>4. PoolHolds(N, AfterTaking(gpu, n), G)
        BY <1>3, <1>4, <2>1, <2>2, <2>3, PoolGives
    <2> QED BY <1>1, <2>4 DEF GpuAccountedFor, G, N
<1>11. CpuAccountedFor'
    <2>1. IsIdList(ids) /\ DOMAIN ids = 1..Len(ids)
        BY <1>3, CpuIdsOK
    <2>2. I[r] = ids
        BY <1>2 DEF HeldOnCpu, rec
    <2>3. DOMAIN J[r] = {} /\ \A q \in Requests : q # r => J[q] = I[q]
        BY <1>1 DEF HeldOnCpu
    <2>4. PoolHolds(M, cpu, I)
        BY DEF IInv, CpuAccountedFor
    <2> HIDE DEF I, J, M, ids
    <2>5. HasFreed(M, cpu, ids, cpu')
        BY <1>1, <1>4, <2>1, <2>4, FreeAllOK DEF PoolHolds
    <2>6. Returned(0..(M - 1), cpu.isFree, cpu'.isFree, I, r, J)
        BY <2>1, <2>2, <2>3, <2>5 DEF HasFreed, Returned
    <2>7. PoolHolds(M, cpu', J)
        BY <1>4, <2>4, <2>5, <2>6, PoolTakesBack DEF HasFreed
    <2> QED BY <2>7 DEF CpuAccountedFor, J, M
<1>12. RequestTypes'
    <2>1. DOMAIN swapped_requests' = DOMAIN swapped_requests \ {r}
        BY <1>1
    <2>2. \A q \in DOMAIN swapped_requests' : swapped_requests'[q] \in RecordType
        BY <1>1, <2>1 DEF IInv, RequestTypes
    <2> QED BY <1>1, <1>9, <2>1, <2>2 DEF IInv, RequestTypes
<1>13. ASSUME NEW q \in Requests PROVE StageOK(q)'
    <2>1. StageOK(q) /\ StageOK(r)
        BY DEF IInv
    <2>2. DOMAIN swapped_requests' = DOMAIN swapped_requests \ {r}
        BY <1>1
    <2> QED BY <1>1, <2>1, <2>2 DEF IInv, RequestTypes, StageOK
<1> QED BY <1>10, <1>11, <1>12, <1>13 DEF IInv

LEMMA NextKeeps == IInv /\ [Next]_vars => IInv'
<1> SUFFICES ASSUME IInv, [Next]_vars PROVE IInv'
    OBVIOUS
<1>1. CASE UNCHANGED vars
    BY <1>1 DEF vars, IInv, RequestTypes, GpuAccountedFor, CpuAccountedFor, StageOK
<1>2. CASE Next
    <2> SUFFICES ASSUME NEW r \in Requests,
                        \/ AllocatePrefill(r) \/ RunPrefill(r)
                        \/ AllocateDecode(r) \/ RunDecode(r)
                        \/ FreeRequest(r)
                        \/ SwapOut(r) \/ SwapOutFails(r)
                        \/ SwapIn(r) \/ SwapInFails(r)
                 PROVE  IInv'
        BY <1>2 DEF Next
    <2>1. CASE AllocatePrefill(r)
        <3>1. prompts_len[r] \in PromptLens
            BY DEF IInv, RequestTypes
        <3>2. CeilDiv(prompts_len[r], DEFAULT_KV_BLOCK_SIZE) \in Nat
            BY <3>1, ConstantTypes DEF CeilDiv
        <3> QED BY <2>1, <3>2, TakeBlocksKeeps DEF AllocatePrefill
    <2>2. CASE RunPrefill(r)
        <3> DEFINE count == [l \in Layers |-> prompts_len[r]]
        <3>1. prompts_len[r] \in Nat
            BY ConstantTypes DEF IInv, RequestTypes
        <3>2. count \in [Layers -> Nat] /\ 1 \in 0..MAX_NEW_TOKENS
            BY <3>1, ConstantTypes
        <3>3. [l \in Layers |-> [layer_kv[r][l] EXCEPT !.tokens = prompts_len[r]]]
                 = [l \in Layers |-> [layer_kv[r][l] EXCEPT !.tokens = count[l]]]
            OBVIOUS
        <3> HIDE DEF count
        <3>4. layer_kv' = [layer_kv EXCEPT ![r] =
                              [l \in Layers |-> [layer_kv[r][l] EXCEPT !.tokens = count[l]]]]
            BY <2>2, <3>3 DEF RunPrefill
        <3> QED BY <2>2, <3>2, <3>4, RunKeeps DEF RunPrefill
    <2>3. CASE AllocateDecode(r)
        <3>1. DecodeNeed(layer_kv[r]) \in Nat
            BY DEF DecodeNeed
        <3> QED BY <2>3, <3>1, TakeBlocksKeeps DEF AllocateDecode, Unfinished
    <2>4. CASE RunDecode(r)
        <3> DEFINE count == [l \in Layers |-> layer_kv[r][l].tokens + 1]
                   m == generated[r] + 1
        <3>1. \A l \in Layers : layer_kv[r][l].tokens \in Nat
            BY DEF IInv, RequestTypes, Tables, KvType
        <3>2. count \in [Layers -> Nat]
            BY <3>1
        <3>3. m \in 0..MAX_NEW_TOKENS
            BY <2>4, ConstantTypes DEF RunDecode, IInv, RequestTypes, StageOK
        <3>4. [l \in Layers |-> [layer_kv[r][l] EXCEPT !.tokens = layer_kv[r][l].tokens + 1]]
                 = [l \in Layers |-> [layer_kv[r][l] EXCEPT !.tokens = count[l]]]
            OBVIOUS
        <3>5. generated' = [generated EXCEPT ![r] = m]
            BY <2>4 DEF RunDecode, IInv, RequestTypes
        <3> HIDE DEF count, m
        <3>6. layer_kv' = [layer_kv EXCEPT ![r] =
                              [l \in Layers |-> [layer_kv[r][l] EXCEPT !.tokens = count[l]]]]
            BY <2>4, <3>4 DEF RunDecode
        <3> QED BY <2>4, <3>2, <3>3, <3>5, <3>6, RunKeeps DEF RunDecode
    <2>5. CASE FreeRequest(r)
        BY <2>5, FreeRequestKeeps
    <2>6. CASE SwapOut(r)
        BY <2>6, SwapOutKeeps
    <2>7. CASE SwapOutFails(r)
        BY <2>7, SwapOutFailsKeeps
    <2>8. CASE SwapIn(r)
        BY <2>8, SwapInKeeps
    <2>9. CASE SwapInFails(r)
        BY <2>9, SwapInFailsKeeps
    <2> QED BY <2>1, <2>2, <2>3, <2>4, <2>5, <2>6, <2>7, <2>8, <2>9
<1> QED BY <1>1, <1>2

\* IInv is an invariant.
THEOREM PoolsAlwaysAccountedFor == Spec => []IInv
<1>1. Init => IInv
    BY InitEstablishes
<1>2. IInv /\ [Next]_vars => IInv'
    BY NextKeeps
<1> QED BY <1>1, <1>2, PTL DEF Spec
-----------------------------------------------------------------------------
(* What follows from the invariant. *)

\* The counter of a consistent pool is the number of its free blocks.
LEMMA CountIsCardinality ==
    ASSUME NEW N \in Nat, NEW p \in PoolType(N), FreeListOK(p)
    PROVE  /\ p.count = Cardinality({b \in 0..(N - 1) : p.isFree[b]})
           /\ p.count = Len(p.ids)
<1> DEFINE F == {b \in 0..(N - 1) : p.isFree[b]}
           ids == p.ids
           n == Len(ids)
<1>1. ids \in Seq(0..(N - 1)) /\ n \in Nat
    BY DEF PoolType
<1>2. p.count = n /\ Distinct(ids)
    BY DEF FreeListOK
<1>3. \A b \in 0..(N - 1) : p.isFree[b] <=> \E i \in 1..n : ids[i] = b
    BY DEF FreeListOK, PoolType, BlocksOf
<1>4. ids \in [1..n -> 0..(N - 1)]
    <2> HIDE DEF ids
    <2> QED BY <1>1
<1> HIDE DEF ids
<1>5. ids \in [1..n -> F]
    <2>1. \A i \in 1..n : ids[i] \in F
        BY <1>3, <1>4
    <2> HIDE DEF F
    <2> QED BY <1>4, <2>1
<1>6. \A b \in F : \E i \in 1..n : ids[i] = b
    BY <1>3
<1>7. \A i, j \in DOMAIN ids : ids[i] = ids[j] => i = j
    BY <1>2, <1>4 DEF Distinct
<1> HIDE DEF F, n
<1>8. ids \in Bijection(1..n, F)
    BY <1>5, <1>6, <1>7 DEF Bijection, Injection, Surjection, IsInjective
<1>9. ExistsBijection(1..n, F)
    BY <1>8 DEF ExistsBijection
<1>10. Cardinality(F) = n
    <2>1. n \in Nat
        BY <1>1 DEF n
    <2> QED BY <1>9, <2>1, FS_CountingElements
<1> QED BY <1>2, <1>10 DEF F, n, ids

LEMMA GpuOwnedIsHeld ==
    ASSUME IInv, NEW r \in Requests, NEW b
    PROVE  b \in GpuOwned(r) <=> \E x \in DOMAIN HeldBy(layer_kv)[r] : HeldBy(layer_kv)[r][x] = b
<1>1. layer_kv[r] \in Tables
    BY DEF IInv, RequestTypes
<1>2. HeldBy(layer_kv)[r] = Entries(layer_kv[r])
    BY DEF HeldBy
<1>3. \A l \in Layers : DOMAIN layer_kv[r][l].blocks = 1..Len(layer_kv[r][l].blocks)
    <2> TAKE l \in Layers
    <2>1. layer_kv[r][l].blocks \in Seq(GpuBlocks)
        BY <1>1 DEF Tables, KvType
    <2> QED BY <2>1
<1>4. ASSUME b \in GpuOwned(r)
      PROVE  \E x \in DOMAIN Entries(layer_kv[r]) : Entries(layer_kv[r])[x] = b
    <2>1. PICK l \in Layers : b \in Range(layer_kv[r][l].blocks)
        BY <1>4 DEF GpuOwned
    <2>2. PICK i \in 1..Len(layer_kv[r][l].blocks) : layer_kv[r][l].blocks[i] = b
        BY <1>3, <2>1 DEF Range
    <2>3. <<l, i>> \in DOMAIN Entries(layer_kv[r]) /\ Entries(layer_kv[r])[<<l, i>>] = b
        BY <1>1, <2>2, EntriesOfTables
    <2> QED BY <2>3
<1>5. ASSUME NEW x \in DOMAIN Entries(layer_kv[r]), Entries(layer_kv[r])[x] = b
      PROVE  b \in GpuOwned(r)
    <2>1. PICK l \in Layers : \E i \in 1..Len(layer_kv[r][l].blocks) : x = <<l, i>>
        BY <1>1, EntriesOfTables
    <2>2. PICK i \in 1..Len(layer_kv[r][l].blocks) : x = <<l, i>>
        BY <2>1
    <2>3. layer_kv[r][l].blocks[i] = b
        BY <1>1, <1>5, <2>2, EntriesOfTables
    <2>4. b \in Range(layer_kv[r][l].blocks)
        BY <1>3, <2>3 DEF Range
    <2> QED BY <2>4 DEF GpuOwned
<1> QED BY <1>2, <1>4, <1>5

LEMMA CpuOwnedIsHeld ==
    ASSUME NEW r \in Requests, NEW b
    PROVE  b \in CpuOwned(r) <=> \E x \in DOMAIN HeldOnCpu(swapped_requests)[r] :
                                    HeldOnCpu(swapped_requests)[r][x] = b
BY DEF CpuOwned, HeldOnCpu, Range

\* Every variable always has its type.
THEOREM TypeAlwaysOK == Spec => []TypeOK
<1>1. IInv => TypeOK
    <2> SUFFICES ASSUME IInv PROVE TypeOK
        OBVIOUS
    <2>1. /\ gpu \in [ids : Seq(GpuBlocks), isFree : [GpuBlocks -> BOOLEAN], count : Int]
          /\ cpu \in [ids : Seq(CpuBlocks), isFree : [CpuBlocks -> BOOLEAN], count : Int]
        BY PoolsTyped DEF PoolType, GpuBlocks, CpuBlocks
    <2> QED BY <2>1 DEF TypeOK, IInv, RequestTypes, Tables
<1> QED BY <1>1, PoolsAlwaysAccountedFor, PTL

\* No sequence of admissions, runs, swaps, frees and failed copies ever gives
\* one physical block to two entries of block tables.
THEOREM TablesNeverAlias == Spec => []TablesDoNotAlias
<1>1. IInv => TablesDoNotAlias
    <2> SUFFICES ASSUME IInv, NEW r \in Requests, NEW s \in Requests,
                        NEW k \in Layers, NEW l \in Layers,
                        NEW i \in DOMAIN layer_kv[r][k].blocks,
                        NEW j \in DOMAIN layer_kv[s][l].blocks,
                        layer_kv[r][k].blocks[i] = layer_kv[s][l].blocks[j]
                 PROVE  <<r, k, i>> = <<s, l, j>>
        BY DEF TablesDoNotAlias
    <2> DEFINE H == HeldBy(layer_kv)
    <2>1. layer_kv[r] \in Tables /\ layer_kv[s] \in Tables
        BY DEF IInv, RequestTypes
    <2>2. i \in 1..Len(layer_kv[r][k].blocks) /\ j \in 1..Len(layer_kv[s][l].blocks)
        <3>1. layer_kv[r][k].blocks \in Seq(GpuBlocks) /\ layer_kv[s][l].blocks \in Seq(GpuBlocks)
            BY <2>1 DEF Tables, KvType
        <3> QED BY <3>1
    <2>3. H[r] = Entries(layer_kv[r]) /\ H[s] = Entries(layer_kv[s])
        BY DEF HeldBy
    <2>4. /\ <<k, i>> \in DOMAIN H[r] /\ H[r][<<k, i>>] = layer_kv[r][k].blocks[i]
          /\ <<l, j>> \in DOMAIN H[s] /\ H[s][<<l, j>>] = layer_kv[s][l].blocks[j]
        BY <2>1, <2>2, <2>3, EntriesOfTables
    <2>5. Apart(H)
        BY DEF IInv, GpuAccountedFor, PoolHolds
    <2> HIDE DEF H
    <2>6. r = s /\ <<k, i>> = <<l, j>>
        BY <2>4, <2>5 DEF Apart
    <2> QED BY <2>6
<1> QED BY <1>1, PoolsAlwaysAccountedFor, PTL

\* No block of either pool is ever lost, or free while a request holds it, and
\* the counter can_allocate reads is the number of free blocks.
THEOREM NoBlockEverLeaked == Spec => []NoBlockLeaked
<1>1. IInv => NoBlockLeaked
    <2> SUFFICES ASSUME IInv PROVE NoBlockLeaked
        OBVIOUS
    <2>1. ASSUME NEW b \in GpuBlocks
          PROVE  gpu.isFree[b] <=> \A r \in Requests : b \notin GpuOwned(r)
        <3>1. gpu.isFree[b] <=> ~IsHeld(HeldBy(layer_kv), b)
            BY DEF IInv, GpuAccountedFor, PoolHolds, AccountedFor, GpuBlocks
        <3> QED BY <3>1, GpuOwnedIsHeld DEF IsHeld
    <2>2. ASSUME NEW b \in CpuBlocks
          PROVE  cpu.isFree[b] <=> \A r \in Requests : b \notin CpuOwned(r)
        <3>1. cpu.isFree[b] <=> ~IsHeld(HeldOnCpu(swapped_requests), b)
            BY DEF IInv, CpuAccountedFor, PoolHolds, AccountedFor, CpuBlocks
        <3> QED BY <3>1, CpuOwnedIsHeld DEF IsHeld
    <2>3. /\ gpu.count = Cardinality({b \in GpuBlocks : gpu.isFree[b]}) /\ gpu.count = Len(gpu.ids)
          /\ cpu.count = Cardinality({b \in CpuBlocks : cpu.isFree[b]}) /\ cpu.count = Len(cpu.ids)
        BY ConstantTypes, PoolsTyped, CountIsCardinality DEF GpuBlocks, CpuBlocks
    <2> QED BY <2>1, <2>2, <2>3 DEF NoBlockLeaked
<1> QED BY <1>1, PoolsAlwaysAccountedFor, PTL

\* A request has a swap record exactly while its caller has it swapped out, and
\* then it holds nothing on the GPU.
THEOREM SwapRecordsAlwaysMatch == Spec => []SwapRecordsMatchResidency
<1>1. IInv => SwapRecordsMatchResidency
    <2> SUFFICES ASSUME IInv, NEW r \in Requests
                 PROVE  /\ (r \in DOMAIN swapped_requests) <=> stage[r] = "swapped"
                        /\ stage[r] = "swapped" => kv_residency[r] = "Cpu" /\ GpuOwned(r) = {}
        BY DEF SwapRecordsMatchResidency
    <2>1. StageOK(r)
        BY DEF IInv
    <2>2. ASSUME stage[r] = "swapped" PROVE GpuOwned(r) = {}
        <3>1. layer_kv[r] = EmptyKv
            BY <2>1, <2>2 DEF StageOK
        <3>2. \A l \in Layers : Range(layer_kv[r][l].blocks) = {}
            BY <3>1, EmptyTables DEF Range
        <3> QED BY <3>2 DEF GpuOwned
    <2> QED BY <2>1, <2>2 DEF StageOK
<1> QED BY <1>1, PoolsAlwaysAccountedFor, PTL

\* What swap_in adds up is what swap_out spread over the blocks.
LEMMA TokensRestored ==
    ASSUME NEW rec \in RecordType, NEW n \in Nat,
           rec.blocks_per_layer = CeilDiv(n, DEFAULT_KV_BLOCK_SIZE),
           rec.blocks_per_layer <= Len(rec.cpu_blocks),
           \A b \in 1..rec.blocks_per_layer :
              rec.cpu_blocks[b].valid_tokens = ValidTokens(n, b - 1)
    PROVE  RestoredTokens(rec) = n
<1> DEFINE per == rec.blocks_per_layer
           B == DEFAULT_KV_BLOCK_SIZE
<1>1. per \in Nat /\ n <= per * B /\ B \in Nat /\ B >= 1
    BY ConstantTypes, CeilDivIs
<1>2. PICK f : IsTokenSum(f, rec)
    BY TokenSumExists
<1>3. f[0] = 0 /\ f[per] = RestoredTokens(rec)
    BY <1>2 DEF IsTokenSum
<1>4. \A b \in 1..per : f[b] = f[b - 1] + ValidTokens(n, b - 1)
    BY <1>2 DEF IsTokenSum
<1> HIDE DEF per, B
<1> DEFINE T == {b \in 0..per : f[b] = Lesser(n, b * B)}
<1>5. 0 \in T
    <2>1. 0 * B = 0
        BY <1>1
    <2> QED BY <1>1, <1>3, <2>1 DEF Lesser
<1>6. ASSUME NEW b \in 1..per, b - 1 \in T PROVE b \in T
    <2> DEFINE a == (b - 1) * B
    <2>1. a \in Nat /\ b * B = a + B
        BY <1>1
    <2>2. f[b - 1] = Lesser(n, a)
        BY <1>6
    <2>3. ValidTokens(n, b - 1) = Greater(0, Lesser(n - a, B))
        BY DEF ValidTokens, B
    <2> HIDE DEF a, T
    <2>4. f[b] = Lesser(n, a + B)
        BY <1>1, <1>4, <2>1, <2>2, <2>3 DEF Lesser, Greater
    <2> QED BY <1>1, <2>1, <2>4 DEF T
<1>7. per \in T
    <2> HIDE DEF T
    <2>1. \A b \in 0..per : b \in T
        BY <1>1, <1>5, <1>6, Induction
    <2> QED BY <1>1, <2>1
<1>8. per * B \in Nat
    BY <1>1
<1> QED BY <1>1, <1>3, <1>7, <1>8 DEF Lesser
-----------------------------------------------------------------------------
(* Tables, token counts and swap records fit each other.  All but the newest *)
(* token of a request is in the cache, and the tables have the blocks for it. *)

Cached(r) == prompts_len[r] + generated[r] - 1

FitOK(r) ==
    /\ stage[r] \in {"admitted", "ran", "ready", "granted"} => \A l \in Layers :
          /\ Len(layer_kv[r][l].blocks) = CeilDiv(TokensToHold(r), DEFAULT_KV_BLOCK_SIZE)
          /\ layer_kv[r][l].tokens = layer_kv[r][1].tokens
    /\ stage[r] \in {"ran", "ready", "granted"} =>
          generated[r] >= 1 /\ layer_kv[r][1].tokens = Cached(r)
    /\ stage[r] = "swapped" =>
          /\ generated[r] >= 1 /\ generated[r] < MAX_NEW_TOKENS
          /\ RestoredTokens(swapped_requests[r]) = Cached(r)
          /\ swapped_requests[r].blocks_per_layer = CeilDiv(Cached(r), DEFAULT_KV_BLOCK_SIZE)
          /\ Len(swapped_requests[r].cpu_blocks) = swapped_requests[r].blocks_per_layer * K

FInv == IInv /\ \A r \in Requests : FitOK(r)

LEMMA InitFits == Init => FInv
<1> SUFFICES ASSUME Init, NEW r \in Requests PROVE FitOK(r)
    BY InitEstablishes DEF FInv
<1> QED BY DEF Init, FitOK

\* Nothing changes for a request the step is not about.
LEMMA OthersFit ==
    ASSUME FInv, NEW q \in Requests,
           prompts_len' = prompts_len,
           layer_kv'[q] = layer_kv[q], stage'[q] = stage[q], generated'[q] = generated[q],
           q \in DOMAIN swapped_requests => swapped_requests'[q] = swapped_requests[q]
    PROVE  FitOK(q)'
<1>1. FitOK(q) /\ StageOK(q)
    BY DEF FInv, IInv
<1>2. Cached(q)' = Cached(q) /\ TokensToHold(q)' = TokensToHold(q)
    BY DEF Cached, TokensToHold
<1>3. CASE stage[q] = "swapped"
    <2>1. swapped_requests'[q] = swapped_requests[q]
        BY <1>1, <1>3 DEF StageOK
    <2> QED BY <1>1, <1>2, <1>3, <2>1 DEF FitOK
<1>4. CASE stage[q] # "swapped"
    BY <1>1, <1>2, <1>4 DEF FitOK
<1> QED BY <1>3, <1>4

LEMMA CachedType ==
    ASSUME FInv, NEW r \in Requests
    PROVE  /\ prompts_len[r] \in Nat /\ prompts_len[r] >= 1
           /\ generated[r] \in Nat
           /\ generated[r] >= 1 => Cached(r) \in Nat /\ Cached(r) >= 1
           /\ layer_kv[r] \in Tables
           /\ \A l \in Layers : layer_kv[r][l].tokens \in Nat /\ Len(layer_kv[r][l].blocks) \in Nat
<1>1. prompts_len[r] \in PromptLens /\ generated[r] \in 0..MAX_NEW_TOKENS /\ layer_kv[r] \in Tables
    BY DEF FInv, IInv, RequestTypes
<1>2. prompts_len[r] \in Nat /\ prompts_len[r] >= 1 /\ generated[r] \in Nat
    BY <1>1, ConstantTypes
<1>3. \A l \in Layers : layer_kv[r][l].tokens \in Nat /\ Len(layer_kv[r][l].blocks) \in Nat
    <2> TAKE l \in Layers
    <2>1. layer_kv[r][l].tokens \in Nat /\ layer_kv[r][l].blocks \in Seq(GpuBlocks)
        BY <1>1 DEF Tables, KvType
    <2> QED BY <2>1
<1> QED BY <1>1, <1>2, <1>3 DEF Cached

\* What an admission appends.
LEMMA TakeBlocksLengths ==
    ASSUME FInv, NEW r \in Requests, NEW need \in Nat, NEW next, TakeBlocks(r, need, next)
    PROVE  \A l \in Layers :
              /\ Len(layer_kv'[r][l].blocks) = Len(layer_kv[r][l].blocks) + need
              /\ layer_kv'[r][l].tokens = layer_kv[r][l].tokens
<1> DEFINE n == need * K
           t == Taken(gpu, n)
<1>1. n \in Nat /\ DEFAULT_TOTAL_KV_BLOCKS \in Nat
    BY ConstantTypes
<1>2. IInv
    BY DEF FInv
<1>3. CanAllocate(gpu, n) /\ layer_kv' = [layer_kv EXCEPT ![r] = Deal(layer_kv[r], t, need)]
    BY <1>2, TakeBlocksEffect
<1>4. t \in [1..n -> GpuBlocks]
    <2> HIDE DEF n
    <2> QED BY <1>1, <1>2, <1>3, PoolsTyped, TakenDistinct DEF GpuBlocks
<1>5. layer_kv \in [Requests -> Tables] /\ layer_kv[r] \in Tables
    BY <1>2 DEF IInv, RequestTypes
<1>6. \A l \in Layers :
          /\ Deal(layer_kv[r], t, need)[l].tokens = layer_kv[r][l].tokens
          /\ Len(Deal(layer_kv[r], t, need)[l].blocks) = Len(layer_kv[r][l].blocks) + need
    <2> HIDE DEF t
    <2> QED BY <1>4, <1>5, DealOK
<1>7. layer_kv'[r] = Deal(layer_kv[r], t, need)
    BY <1>3, <1>5
<1> HIDE DEF t
<1> QED BY <1>6, <1>7

LEMMA AllocatePrefillFits ==
    ASSUME FInv, NEW r \in Requests, AllocatePrefill(r)
    PROVE  \A q \in Requests : FitOK(q)'
<1> DEFINE need == CeilDiv(prompts_len[r], DEFAULT_KV_BLOCK_SIZE)
<1>1. need \in Nat
    BY CachedType, ConstantTypes, CeilDivIs
<1>2. stage[r] = "new" /\ TakeBlocks(r, need, "admitted") /\ IInv
    BY DEF AllocatePrefill, FInv
<1>3. layer_kv[r] = EmptyKv
    BY <1>2 DEF IInv, StageOK
<1>4. \A l \in Layers : Len(layer_kv'[r][l].blocks) = need /\ layer_kv'[r][l].tokens = 0
    <2>1. \A l \in Layers : Len(layer_kv[r][l].blocks) = 0 /\ layer_kv[r][l].tokens = 0
        BY <1>3, EmptyTables
    <2> HIDE DEF need
    <2> QED BY <1>1, <1>2, <2>1, TakeBlocksLengths
<1>5. /\ layer_kv' = [layer_kv EXCEPT ![r] = Deal(layer_kv[r], Taken(gpu, need * K), need)]
      /\ stage' = [stage EXCEPT ![r] = "admitted"]
      /\ UNCHANGED <<prompts_len, generated, swapped_requests>>
    BY <1>1, <1>2, TakeBlocksEffect
<1>6. stage'[r] = "admitted" /\ TokensToHold(r)' = prompts_len[r]
    BY <1>2, <1>5 DEF TokensToHold, IInv, RequestTypes
<1>7. FitOK(r)'
    BY <1>4, <1>6, ConstantTypes DEF FitOK
<1>8. ASSUME NEW q \in Requests, q # r PROVE FitOK(q)'
    <2>1. layer_kv'[q] = layer_kv[q] /\ stage'[q] = stage[q]
        BY <1>2, <1>5, <1>8 DEF IInv, RequestTypes
    <2> QED BY <1>5, <2>1, OthersFit
<1> QED BY <1>7, <1>8

LEMMA AllocateDecodeFits ==
    ASSUME FInv, NEW r \in Requests, AllocateDecode(r)
    PROVE  \A q \in Requests : FitOK(q)'
<1> DEFINE need == DecodeNeed(layer_kv[r])
           n == layer_kv[r][1].tokens
           B == DEFAULT_KV_BLOCK_SIZE
<1>1. need \in Nat /\ need = IF n % B = 0 THEN 1 ELSE 0
    BY DEF DecodeNeed
<1>2. stage[r] \in {"ran", "ready"} /\ TakeBlocks(r, need, "granted") /\ IInv
    BY DEF AllocateDecode, Unfinished, FInv
<1>3. n \in Nat /\ B \in Nat /\ B >= 1
    BY CachedType, ConstantTypes
<1>4. /\ \A l \in Layers : Len(layer_kv[r][l].blocks) = CeilDiv(n, B) /\ layer_kv[r][l].tokens = n
      /\ generated[r] >= 1 /\ n = Cached(r)
    BY <1>2 DEF FInv, FitOK, TokensToHold
<1>5. /\ layer_kv' = [layer_kv EXCEPT ![r] = Deal(layer_kv[r], Taken(gpu, need * K), need)]
      /\ stage' = [stage EXCEPT ![r] = "granted"]
      /\ UNCHANGED <<prompts_len, generated, swapped_requests>>
    BY <1>1, <1>2, TakeBlocksEffect
<1>6. \A l \in Layers : Len(layer_kv'[r][l].blocks) = CeilDiv(n, B) + need /\ layer_kv'[r][l].tokens = n
    <2> HIDE DEF need
    <2>1. \A l \in Layers :
              /\ Len(layer_kv'[r][l].blocks) = Len(layer_kv[r][l].blocks) + need
              /\ layer_kv'[r][l].tokens = layer_kv[r][l].tokens
        BY <1>1, <1>2, TakeBlocksLengths
    <2> QED BY <1>4, <2>1
<1> HIDE DEF need, n, B
<1>7. \A l \in Layers : Len(layer_kv'[r][l].blocks) = CeilDiv(n + 1, B)
    BY <1>1, <1>3, <1>6, CeilDivNext
<1>8. /\ stage'[r] = "granted" /\ layer_kv'[r][1].tokens = n /\ Cached(r)' = n
      /\ generated'[r] >= 1
    BY <1>2, <1>4, <1>5, <1>6, ConstantTypes DEF Cached, IInv, RequestTypes
<1>9. TokensToHold(r)' = n + 1
    BY <1>8 DEF TokensToHold
<1>10. FitOK(r)'
    BY <1>6, <1>7, <1>8, <1>9 DEF FitOK, B
<1>11. ASSUME NEW q \in Requests, q # r PROVE FitOK(q)'
    <2>1. layer_kv'[q] = layer_kv[q] /\ stage'[q] = stage[q]
        BY <1>2, <1>5, <1>11 DEF IInv, RequestTypes
    <2> QED BY <1>5, <2>1, OthersFit
<1> QED BY <1>10, <1>11

LEMMA RunPrefillFits ==
    ASSUME FInv, NEW r \in Requests, RunPrefill(r)
    PROVE  \A q \in Requests : FitOK(q)'
<1>1. /\ stage[r] = "admitted" /\ IInv
      /\ layer_kv' = [layer_kv EXCEPT ![r] =
                         [l \in Layers |-> [layer_kv[r][l] EXCEPT !.tokens = prompts_len[r]]]]
      /\ generated' = [generated EXCEPT ![r] = 1]
      /\ stage' = [stage EXCEPT ![r] = "ran"]
      /\ prompts_len' = prompts_len /\ swapped_requests' = swapped_requests
    BY DEF RunPrefill, FInv
<1>2. /\ layer_kv \in [Requests -> Tables] /\ generated \in [Requests -> 0..MAX_NEW_TOKENS]
      /\ DOMAIN stage = Requests
    BY <1>1 DEF IInv, RequestTypes
<1>3. \A l \in Layers : Len(layer_kv[r][l].blocks) = CeilDiv(prompts_len[r], DEFAULT_KV_BLOCK_SIZE)
    BY <1>1 DEF FInv, FitOK, TokensToHold
<1>4. \A l \in Layers :
          /\ layer_kv'[r][l].blocks = layer_kv[r][l].blocks
          /\ layer_kv'[r][l].tokens = prompts_len[r]
    <2> TAKE l \in Layers
    <2>1. layer_kv'[r][l] = [layer_kv[r][l] EXCEPT !.tokens = prompts_len[r]]
        BY <1>1, <1>2
    <2>2. layer_kv[r][l] \in KvType
        BY <1>2 DEF Tables
    <2> QED BY <2>1, <2>2 DEF KvType
<1>5. stage'[r] = "ran" /\ generated'[r] = 1 /\ TokensToHold(r)' = prompts_len[r]
    BY <1>1, <1>2, <1>4, ConstantTypes DEF TokensToHold
<1>6. Cached(r)' = prompts_len[r]
    BY <1>1, <1>5, CachedType DEF Cached
<1>7. FitOK(r)'
    BY <1>3, <1>4, <1>5, <1>6, ConstantTypes DEF FitOK
<1>8. ASSUME NEW q \in Requests, q # r PROVE FitOK(q)'
    <2>1. layer_kv'[q] = layer_kv[q] /\ stage'[q] = stage[q] /\ generated'[q] = generated[q]
        BY <1>1, <1>2, <1>8
    <2> QED BY <1>1, <2>1, OthersFit
<1> QED BY <1>7, <1>8

LEMMA RunDecodeFits ==
    ASSUME FInv, NEW r \in Requests, RunDecode(r)
    PROVE  \A q \in Requests : FitOK(q)'
<1>1. /\ stage[r] = "granted" /\ IInv
      /\ layer_kv' = [layer_kv EXCEPT ![r] =
             [l \in Layers |-> [layer_kv[r][l] EXCEPT !.tokens = layer_kv[r][l].tokens + 1]]]
      /\ generated' = [generated EXCEPT ![r] = generated[r] + 1]
      /\ stage' = [stage EXCEPT ![r] = "ran"]
      /\ prompts_len' = prompts_len /\ swapped_requests' = swapped_requests
    BY DEF RunDecode, FInv
<1>2. /\ layer_kv \in [Requests -> Tables] /\ generated \in [Requests -> 0..MAX_NEW_TOKENS]
      /\ DOMAIN stage = Requests
    BY <1>1 DEF IInv, RequestTypes
<1> DEFINE n == layer_kv[r][1].tokens
<1>3. /\ \A l \in Layers : Len(layer_kv[r][l].blocks) = CeilDiv(n + 1, DEFAULT_KV_BLOCK_SIZE)
      /\ \A l \in Layers : layer_kv[r][l].tokens = n
      /\ generated[r] >= 1 /\ n = Cached(r)
    BY <1>1 DEF FInv, FitOK, TokensToHold
<1>4. \A l \in Layers :
          /\ layer_kv'[r][l].blocks = layer_kv[r][l].blocks
          /\ layer_kv'[r][l].tokens = n + 1
    <2> TAKE l \in Layers
    <2>1. layer_kv'[r][l] = [layer_kv[r][l] EXCEPT !.tokens = layer_kv[r][l].tokens + 1]
        BY <1>1, <1>2
    <2>2. layer_kv[r][l] \in KvType
        BY <1>2 DEF Tables
    <2>3. layer_kv'[r][l].blocks = layer_kv[r][l].blocks
        BY <2>1, <2>2 DEF KvType
    <2>4. layer_kv'[r][l].tokens = layer_kv[r][l].tokens + 1
        BY <2>1, <2>2 DEF KvType
    <2> HIDE DEF n
    <2> QED BY <1>3, <2>3, <2>4
<1> HIDE DEF n
<1>5. stage'[r] = "ran" /\ generated'[r] = generated[r] + 1 /\ TokensToHold(r)' = n + 1
    BY <1>1, <1>2, <1>4, ConstantTypes DEF TokensToHold
<1>6. Cached(r)' = n + 1 /\ generated'[r] >= 1
    BY <1>1, <1>3, <1>5, CachedType DEF Cached
<1>7. FitOK(r)'
    BY <1>3, <1>4, <1>5, <1>6, ConstantTypes DEF FitOK
<1>8. ASSUME NEW q \in Requests, q # r PROVE FitOK(q)'
    <2>1. layer_kv'[q] = layer_kv[q] /\ stage'[q] = stage[q] /\ generated'[q] = generated[q]
        BY <1>1, <1>2, <1>8
    <2> QED BY <1>1, <2>1, OthersFit
<1> QED BY <1>7, <1>8

LEMMA FreeRequestFits ==
    ASSUME FInv, NEW r \in Requests, FreeRequest(r)
    PROVE  \A q \in Requests : FitOK(q)'
<1>1. /\ layer_kv' = [layer_kv EXCEPT ![r] = EmptyKv]
      /\ stage' = [stage EXCEPT ![r] = "done"]
      /\ UNCHANGED <<prompts_len, generated, swapped_requests>>
    BY DEF FreeRequest
<1>2. layer_kv \in [Requests -> Tables] /\ DOMAIN stage = Requests
    BY DEF FInv, IInv, RequestTypes
<1>3. stage'[r] = "done"
    BY <1>1, <1>2
<1>4. FitOK(r)'
    BY <1>3 DEF FitOK
<1>5. ASSUME NEW q \in Requests, q # r PROVE FitOK(q)'
    <2>1. layer_kv'[q] = layer_kv[q] /\ stage'[q] = stage[q]
        BY <1>1, <1>2, <1>5
    <2> QED BY <1>1, <2>1, OthersFit
<1> QED BY <1>4, <1>5

LEMMA SwapOutFits ==
    ASSUME FInv, NEW r \in Requests, SwapOut(r)
    PROVE  \A q \in Requests : FitOK(q)'
<1> DEFINE n == NumBlocks(layer_kv[r]) * K
           t == Taken(cpu, n)
           rec == SwapRecord(layer_kv[r], t)
           B == DEFAULT_KV_BLOCK_SIZE
<1>1. /\ CanSwapOut(r)
      /\ swapped_requests' = [q \in DOMAIN swapped_requests \cup {r} |->
                                 IF q = r THEN rec ELSE swapped_requests[q]]
      /\ layer_kv' = [layer_kv EXCEPT ![r] = EmptyKv]
      /\ stage' = [stage EXCEPT ![r] = "swapped"]
      /\ UNCHANGED <<prompts_len, generated>>
    BY DEF SwapOut, K
<1>2. /\ layer_kv \in [Requests -> Tables] /\ layer_kv[r] \in Tables
      /\ DOMAIN stage = Requests /\ IInv
    BY DEF FInv, IInv, RequestTypes
<1>3. /\ stage[r] \in {"ran", "ready"} /\ generated[r] < MAX_NEW_TOKENS
      /\ r \notin DOMAIN swapped_requests /\ n <= cpu.count
    BY <1>1 DEF CanSwapOut, Unfinished, K
<1>4. NumBlocks(layer_kv[r]) \in Nat
    BY <1>2, ConstantTypes DEF Tables, KvType, NumBlocks
<1>5. n \in Nat /\ DEFAULT_TOTAL_CPU_BLOCKS \in Nat
    BY <1>4, ConstantTypes
<1>6. t \in [1..n -> CpuBlocks]
    <2> HIDE DEF n
    <2>1. cpu.count \in Int
        BY <1>2, PoolsTyped DEF PoolType
    <2>2. CanAllocate(cpu, n)
        BY <1>3, <1>5, <2>1 DEF CanAllocate
    <2> QED BY <1>2, <1>5, <2>2, PoolsTyped, TakenDistinct DEF CpuBlocks
\* Before, the request had the blocks of its cached tokens.
<1> DEFINE c == layer_kv[r][1].tokens
<1>7. /\ NumBlocks(layer_kv[r]) = CeilDiv(c, B)
      /\ generated[r] >= 1 /\ c = Cached(r)
    BY <1>3, ConstantTypes DEF FInv, FitOK, TokensToHold, NumBlocks
<1>8. c \in Nat
    BY CachedType, ConstantTypes
<1>9. /\ rec \in RecordType
      /\ rec.blocks_per_layer = NumBlocks(layer_kv[r])
      /\ Len(rec.cpu_blocks) = n
      /\ \A j \in 1..NumBlocks(layer_kv[r]) :
            rec.cpu_blocks[(1 - 1) * NumBlocks(layer_kv[r]) + j].valid_tokens
               = ValidTokens(c, j - 1)
    <2> HIDE DEF t
    <2> QED BY <1>2, <1>6, SwapRecordOK, ConstantTypes
<1> HIDE DEF rec, c
<1>10. \A j \in 1..rec.blocks_per_layer : rec.cpu_blocks[j].valid_tokens = ValidTokens(c, j - 1)
    <2> TAKE j \in 1..rec.blocks_per_layer
    <2>1. (1 - 1) * NumBlocks(layer_kv[r]) + j = j
        BY <1>4, <1>9
    <2> QED BY <1>9, <2>1
<1>11. rec.blocks_per_layer <= Len(rec.cpu_blocks)
    <2> DEFINE per == NumBlocks(layer_kv[r])
    <2>1. per \in Nat
        BY <1>4
    <2> HIDE DEF per
    <2>2. per * K = per + per * (K - 1) /\ per * (K - 1) \in Nat
        BY <2>1, ConstantTypes
    <2>3. per <= per * K
        BY <2>1, <2>2
    <2> QED BY <1>9, <2>3 DEF per
<1>12. RestoredTokens(rec) = c
    BY <1>7, <1>8, <1>9, <1>10, <1>11, TokensRestored
<1>13. swapped_requests'[r] = rec /\ stage'[r] = "swapped" /\ Cached(r)' = c
    BY <1>1, <1>2, <1>7 DEF Cached
<1>14. FitOK(r)'
    <2> HIDE DEF B
    <2>1. rec.blocks_per_layer = CeilDiv(c, B) /\ Len(rec.cpu_blocks) = rec.blocks_per_layer * K
        BY <1>7, <1>9
    <2> QED BY <1>1, <1>3, <1>7, <1>12, <1>13, <2>1 DEF FitOK, B
<1>15. ASSUME NEW q \in Requests, q # r PROVE FitOK(q)'
    <2>1. layer_kv'[q] = layer_kv[q] /\ stage'[q] = stage[q]
        BY <1>1, <1>2, <1>15
    <2>2. q \in DOMAIN swapped_requests => swapped_requests'[q] = swapped_requests[q]
        BY <1>1, <1>15
    <2> QED BY <1>1, <2>1, <2>2, OthersFit
<1> QED BY <1>14, <1>15

LEMMA SwapInFits ==
    ASSUME FInv, NEW r \in Requests, SwapIn(r)
    PROVE  \A q \in Requests : FitOK(q)'
<1> DEFINE rec == swapped_requests[r]
           per == rec.blocks_per_layer
           n == per * K
           t == Taken(gpu, n)
           B == DEFAULT_KV_BLOCK_SIZE
<1>1. /\ CanSwapIn(r)
      /\ layer_kv' = [layer_kv EXCEPT ![r] = RestoredKv(rec, t)]
      /\ swapped_requests' = [q \in DOMAIN swapped_requests \ {r} |-> swapped_requests[q]]
      /\ stage' = [stage EXCEPT ![r] = "ready"]
      /\ UNCHANGED <<prompts_len, generated>>
    BY DEF SwapIn, K
<1>2. layer_kv \in [Requests -> Tables] /\ DOMAIN stage = Requests /\ IInv
    BY DEF FInv, IInv, RequestTypes
<1>3. stage[r] = "swapped"
    BY <1>1, <1>2 DEF CanSwapIn, IInv, StageOK
<1>4. /\ generated[r] >= 1
      /\ RestoredTokens(rec) = Cached(r)
      /\ per = CeilDiv(Cached(r), B)
    BY <1>3 DEF FInv, FitOK
<1>5. per \in Nat /\ CanAllocate(gpu, n)
    BY <1>1, <1>2, SwapInTakes
<1>6. n \in Nat /\ DEFAULT_TOTAL_KV_BLOCKS \in Nat
    <2> HIDE DEF per
    <2> QED BY <1>5, ConstantTypes
<1>7. t \in [1..n -> GpuBlocks]
    <2> HIDE DEF n
    <2> QED BY <1>2, <1>5, <1>6, PoolsTyped, TakenDistinct DEF GpuBlocks
<1>8. \A l \in Layers : Len(Deal(EmptyKv, t, per)[l].blocks) = per
    <2> HIDE DEF t, per
    <2>1. \A l \in Layers : Len(Deal(EmptyKv, t, per)[l].blocks) = Len(EmptyKv[l].blocks) + per
        BY <1>5, <1>7, EmptyTables, DealOK
    <2>2. \A l \in Layers : Len(EmptyKv[l].blocks) = 0
        BY EmptyTables
    <2> QED BY <1>5, <2>1, <2>2
<1>9. \A l \in Layers :
          /\ Len(layer_kv'[r][l].blocks) = per
          /\ layer_kv'[r][l].tokens = Cached(r)
    <2> TAKE l \in Layers
    <2>1. layer_kv'[r] = RestoredKv(rec, t)
        BY <1>1, <1>2
    <2> HIDE DEF rec, t
    <2>2. layer_kv'[r][l] = [blocks |-> Deal(EmptyKv, t, per)[l].blocks,
                             tokens |-> RestoredTokens(rec)]
        BY <2>1 DEF RestoredKv
    <2> QED BY <1>4, <1>8, <2>2
<1> HIDE DEF per, rec
<1>10. /\ stage'[r] = "ready" /\ generated'[r] >= 1 /\ Cached(r)' = Cached(r)
       /\ TokensToHold(r)' = Cached(r)
    BY <1>1, <1>2, <1>4, <1>9, ConstantTypes DEF Cached, TokensToHold
<1>11. FitOK(r)'
    BY <1>4, <1>9, <1>10, ConstantTypes DEF FitOK
<1>12. ASSUME NEW q \in Requests, q # r PROVE FitOK(q)'
    <2>1. layer_kv'[q] = layer_kv[q] /\ stage'[q] = stage[q]
        BY <1>1, <1>2, <1>12
    <2>2. q \in DOMAIN swapped_requests => swapped_requests'[q] = swapped_requests[q]
        BY <1>1, <1>12
    <2> QED BY <1>1, <2>1, <2>2, OthersFit
<1> QED BY <1>11, <1>12

LEMMA SwapInFailsFits ==
    ASSUME FInv, NEW r \in Requests, SwapInFails(r)
    PROVE  \A q \in Requests : FitOK(q)'
<1>1. /\ CanSwapIn(r)
      /\ layer_kv' = [layer_kv EXCEPT ![r] = EmptyKv]
      /\ UNCHANGED <<prompts_len, generated, stage, swapped_requests>>
    BY DEF SwapInFails
<1>2. layer_kv[r] = EmptyKv /\ layer_kv \in [Requests -> Tables]
    BY <1>1 DEF CanSwapIn, FInv, IInv, RequestTypes, StageOK
<1>3. layer_kv' = layer_kv
    BY <1>1, <1>2
<1> QED BY <1>1, <1>3, OthersFit

LEMMA NextFits == FInv /\ [Next]_vars => FInv'
<1> SUFFICES ASSUME FInv, [Next]_vars PROVE \A q \in Requests : FitOK(q)'
    BY NextKeeps DEF FInv
<1>1. CASE UNCHANGED vars
    BY <1>1, OthersFit DEF vars
<1>2. CASE Next
    <2> SUFFICES ASSUME NEW r \in Requests,
                        \/ AllocatePrefill(r) \/ RunPrefill(r)
                        \/ AllocateDecode(r) \/ RunDecode(r)
                        \/ FreeRequest(r)
                        \/ SwapOut(r) \/ SwapOutFails(r)
                        \/ SwapIn(r) \/ SwapInFails(r)
                 PROVE  \A q \in Requests : FitOK(q)'
        BY <1>2 DEF Next
    <2>1. CASE SwapOutFails(r)
        BY <2>1, OthersFit DEF SwapOutFails
    <2> QED BY <2>1, AllocatePrefillFits, RunPrefillFits, AllocateDecodeFits, RunDecodeFits,
               FreeRequestFits, SwapOutFits, SwapInFits, SwapInFailsFits
<1> QED BY <1>1, <1>2

\* FInv is an invariant.
THEOREM RequestsAlwaysFit == Spec => []FInv
<1>1. Init => FInv
    BY InitFits
<1>2. FInv /\ [Next]_vars => FInv'
    BY NextFits
<1> QED BY <1>1, <1>2, PTL DEF Spec

\* Every layer of a request on the GPU always has exactly the blocks its tokens
\* need.
THEOREM TablesAlwaysFit == Spec => []TablesFitTokens
<1>1. FInv => TablesFitTokens
    <2> SUFFICES ASSUME FInv, NEW r \in Requests, kv_residency[r] = "Gpu"
                 PROVE  \A l \in Layers :
                    /\ Len(layer_kv[r][l].blocks) = CeilDiv(TokensToHold(r), DEFAULT_KV_BLOCK_SIZE)
                    /\ layer_kv[r][l].tokens = layer_kv[r][1].tokens
        BY DEF TablesFitTokens
    <2>1. stage[r] \in {"new", "admitted", "ran", "ready", "granted", "swapped", "done"}
        BY DEF FInv, IInv, RequestTypes
    <2>2. stage[r] \in {"admitted", "ran", "ready", "granted"}
        BY <2>1 DEF FInv, IInv, StageOK
    <2> QED BY <2>2 DEF FInv, FitOK
<1> QED BY <1>1, RequestsAlwaysFit, PTL

\* The cache always holds all tokens of a request but the newest one, through
\* any number of swaps.
THEOREM CacheAlwaysHolds == Spec => []CacheHoldsAllButTheLastToken
<1>1. FInv => CacheHoldsAllButTheLastToken
    <2> SUFFICES ASSUME FInv, NEW r \in Requests
                 PROVE  /\ stage[r] \in {"ran", "ready", "granted"} =>
                              layer_kv[r][1].tokens = prompts_len[r] + generated[r] - 1
                        /\ r \in DOMAIN swapped_requests =>
                              RestoredTokens(swapped_requests[r]) = prompts_len[r] + generated[r] - 1
        BY DEF CacheHoldsAllButTheLastToken
    <2>1. FitOK(r) /\ StageOK(r)
        BY DEF FInv, IInv
    <2> QED BY <2>1 DEF FitOK, StageOK, Cached
<1> QED BY <1>1, RequestsAlwaysFit, PTL

\* A request whose prompt leaves room for its answer is never swapped out with
\* more blocks than the staging buffer takes.
THEOREM SwappedAlwaysFitStaging == Spec => []SwappedRequestsFitStaging
<1>1. FInv => SwappedRequestsFitStaging
    <2> SUFFICES ASSUME FInv, NEW r \in DOMAIN swapped_requests, capacity > 0,
                        prompts_len[r] + MAX_NEW_TOKENS <= MAX_SEQ
                 PROVE  Len(swapped_requests[r].cpu_blocks) <= capacity
        BY DEF SwappedRequestsFitStaging
    <2> DEFINE per == swapped_requests[r].blocks_per_layer
               B == DEFAULT_KV_BLOCK_SIZE
               most == CeilDiv(MAX_SEQ, B)
    <2>1. r \in Requests
        BY DEF FInv, IInv, RequestTypes
    <2>2. stage[r] = "swapped"
        BY <2>1 DEF FInv, IInv, StageOK
    <2>3. /\ generated[r] >= 1 /\ generated[r] < MAX_NEW_TOKENS
          /\ per = CeilDiv(Cached(r), B)
          /\ Len(swapped_requests[r].cpu_blocks) = per * K
        BY <2>1, <2>2 DEF FInv, FitOK
    <2>4. Cached(r) \in Nat /\ Cached(r) <= MAX_SEQ
        BY <2>1, <2>3, CachedType, ConstantTypes DEF Cached
    <2>5. per <= most /\ per \in Nat /\ most \in Nat
        <3>1. MAX_SEQ \in Nat /\ B \in Nat /\ B >= 1
            BY ConstantTypes
        <3>2. CeilDiv(Cached(r), B) \in Nat /\ most \in Nat
            BY <2>4, <3>1, CeilDivIs
        <3>3. CeilDiv(Cached(r), B) <= most
            <4> HIDE DEF B
            <4> QED BY <2>4, <3>1, CeilDivMonotone
        <3> HIDE DEF per, B, most
        <3> QED BY <2>3, <3>2, <3>3
    <2>6. capacity = most * K
        <3>1. capacity \in {0, StagingBlocks}
            BY DEF FInv, IInv, RequestTypes
        <3> QED BY <3>1 DEF StagingBlocks, K
    <2> HIDE DEF per, most
    <2>7. (most - per) * K \in Nat /\ most * K = per * K + (most - per) * K /\ per * K \in Nat
        BY <2>5, ConstantTypes
    <2> QED BY <2>3, <2>6, <2>7
<1> QED BY <1>1, RequestsAlwaysFit, PTL
-----------------------------------------------------------------------------
(* RealKvAllocator implements the abstract allocator. *)

Blocks(kv) == UNION {Range(kv[l].blocks) : l \in Layers}

LEMMA BlocksAreEntries ==
    ASSUME NEW kv \in Tables, NEW b
    PROVE  b \in Blocks(kv) <=> \E x \in DOMAIN Entries(kv) : Entries(kv)[x] = b
<1>1. \A l \in Layers : DOMAIN kv[l].blocks = 1..Len(kv[l].blocks)
    <2> TAKE l \in Layers
    <2>1. kv[l].blocks \in Seq(GpuBlocks)
        BY DEF Tables, KvType
    <2> QED BY <2>1
<1>2. ASSUME b \in Blocks(kv) PROVE \E x \in DOMAIN Entries(kv) : Entries(kv)[x] = b
    <2>1. PICK l \in Layers : b \in Range(kv[l].blocks)
        BY <1>2 DEF Blocks
    <2>2. PICK i \in 1..Len(kv[l].blocks) : kv[l].blocks[i] = b
        BY <1>1, <2>1 DEF Range
    <2>3. <<l, i>> \in DOMAIN Entries(kv) /\ Entries(kv)[<<l, i>>] = b
        BY <2>2, EntriesOfTables
    <2> QED BY <2>3
<1>3. ASSUME NEW x \in DOMAIN Entries(kv), Entries(kv)[x] = b PROVE b \in Blocks(kv)
    <2>1. PICK l \in Layers : \E i \in 1..Len(kv[l].blocks) : x = <<l, i>>
        BY EntriesOfTables
    <2>2. PICK i \in 1..Len(kv[l].blocks) : x = <<l, i>>
        BY <2>1
    <2>3. kv[l].blocks[i] = b
        BY <1>3, <2>2, EntriesOfTables
    <2>4. b \in Range(kv[l].blocks)
        BY <1>1, <2>3 DEF Range
    <2> QED BY <2>4 DEF Blocks
<1> QED BY <1>2, <1>3

LEMMA DealBlocks ==
    ASSUME NEW p \in PoolType(DEFAULT_TOTAL_KV_BLOCKS), FreeListOK(p),
           NEW kv \in Tables, NEW need \in Nat, CanAllocate(p, need * K),
           NEW H, NEW r \in Requests, H[r] = Entries(kv)
    PROVE  Blocks(Deal(kv, Taken(p, need * K), need)) = Blocks(kv) \cup Range(Taken(p, need * K))
<1> DEFINE n == need * K
           t == Taken(p, n)
           D == Deal(kv, t, need)
           h == Entries(D)
<1>1. D \in Tables /\ \E num : Grows(p, n, H, r, h, num)
    BY DealGrows
<1>2. PICK num : Grows(p, n, H, r, h, num)
    BY <1>1
<1>3. DOMAIN t = 1..n
    BY DEF Taken
<1> HIDE DEF D, h, t, n
<1>4. /\ \A x \in DOMAIN Entries(kv) : x \in DOMAIN h /\ h[x] = Entries(kv)[x]
      /\ \A x \in DOMAIN h \ DOMAIN Entries(kv) : num[x] \in 1..n /\ h[x] = t[num[x]]
      /\ \A i \in 1..n : \E x \in DOMAIN h \ DOMAIN Entries(kv) : num[x] = i
    BY <1>2 DEF Grows, t
<1>5. ASSUME NEW b
      PROVE  (\E x \in DOMAIN h : h[x] = b) <=>
                ((\E x \in DOMAIN Entries(kv) : Entries(kv)[x] = b) \/ \E i \in 1..n : t[i] = b)
    BY <1>4
<1>6. ASSUME NEW b PROVE b \in Blocks(D) <=> (b \in Blocks(kv) \/ b \in Range(t))
    <2>1. b \in Blocks(D) <=> \E x \in DOMAIN h : h[x] = b
        BY <1>1, BlocksAreEntries DEF h
    <2>2. b \in Blocks(kv) <=> \E x \in DOMAIN Entries(kv) : Entries(kv)[x] = b
        BY BlocksAreEntries
    <2>3. b \in Range(t) <=> \E i \in 1..n : t[i] = b
        BY <1>3 DEF Range
    <2> QED BY <1>5, <2>1, <2>2, <2>3
<1>7. Blocks(D) = Blocks(kv) \cup Range(t)
    BY <1>6
<1> QED BY <1>7 DEF D, t, n

LEMMA RangeCardinality ==
    ASSUME NEW n \in Nat, NEW Y, NEW f \in [1..n -> Y],
           \A i, j \in 1..n : f[i] = f[j] => i = j
    PROVE  Cardinality(Range(f)) = n
<1>1. f \in [1..n -> Range(f)] /\ \A b \in Range(f) : \E i \in 1..n : f[i] = b
    BY DEF Range
<1>2. f \in Bijection(1..n, Range(f))
    BY <1>1 DEF Bijection, Injection, Surjection, IsInjective
<1> QED BY <1>2, FS_CountingElements DEF ExistsBijection

\* The cache of a request has as many blocks as its tables have entries.
LEMMA BlocksCardinality ==
    ASSUME NEW kv \in Tables, NEW per \in Nat, \A l \in Layers : Len(kv[l].blocks) = per,
           \A x, y \in DOMAIN Entries(kv) : Entries(kv)[x] = Entries(kv)[y] => x = y
    PROVE  Cardinality(Blocks(kv)) = per * K
<1> DEFINE n == per * K
           layer(i) == (i - 1) \div per + 1
           entry(i) == ((i - 1) % per) + 1
           f == [i \in 1..n |-> kv[layer(i)].blocks[entry(i)]]
<1>1. n \in Nat
    BY ConstantTypes
<1>2. \A l \in Layers, j \in 1..per, i \in 1..n :
          i = (l - 1) * per + j => layer(i) = l /\ entry(i) = j
    <2> TAKE l \in Layers, j \in 1..per, i \in 1..n
    <2> SUFFICES ASSUME i = (l - 1) * per + j PROVE layer(i) = l /\ entry(i) = j
        OBVIOUS
    <2>1. (i - 1) \div per = l - 1 /\ (i - 1) % per = j - 1
        BY DivMod
    <2>2. l - 1 + 1 = l /\ j - 1 + 1 = j
        BY ConstantTypes DEF Layers, K
    <2> HIDE DEF n
    <2> QED BY <2>1, <2>2
<1> HIDE DEF layer, entry
<1>3. \A i \in 1..n : \E l \in Layers, j \in 1..per : i = (l - 1) * per + j
    BY SlicesCover
<1>4. \A l \in Layers, j \in 1..per : (l - 1) * per + j \in 1..n
    BY SliceInside
<1> HIDE DEF n
<1>5. \A i \in 1..n : /\ layer(i) \in Layers /\ entry(i) \in 1..per
                      /\ i = (layer(i) - 1) * per + entry(i)
    BY <1>2, <1>3
<1>6. \A l \in Layers : \A j \in 1..per :
          /\ <<l, j>> \in DOMAIN Entries(kv)
          /\ Entries(kv)[<<l, j>>] = kv[l].blocks[j]
          /\ kv[l].blocks[j] \in GpuBlocks
    <2> TAKE l \in Layers
    <2> TAKE j \in 1..per
    <2>1. j \in 1..Len(kv[l].blocks)
        OBVIOUS
    <2>2. \A i \in 1..Len(kv[l].blocks) :
             /\ <<l, i>> \in Positions(kv)
             /\ Entries(kv)[<<l, i>>] = kv[l].blocks[i]
             /\ kv[l].blocks[i] \in GpuBlocks
        BY EntriesOfTables
    <2>3. DOMAIN Entries(kv) = Positions(kv)
        BY EntriesOfTables
    <2> QED BY <2>1, <2>2, <2>3
<1>7. f \in [1..n -> GpuBlocks] /\ \A i \in 1..n : f[i] = kv[layer(i)].blocks[entry(i)]
    BY <1>5, <1>6
<1> HIDE DEF f
<1>8. \A i, j \in 1..n : f[i] = f[j] => i = j
    <2> TAKE i \in 1..n, j \in 1..n
    <2> SUFFICES ASSUME f[i] = f[j] PROVE i = j
        OBVIOUS
    <2>1. Entries(kv)[<<layer(i), entry(i)>>] = Entries(kv)[<<layer(j), entry(j)>>]
        BY <1>5, <1>6, <1>7
    <2>2. <<layer(i), entry(i)>> = <<layer(j), entry(j)>>
        BY <1>5, <1>6, <2>1
    <2>3. layer(i) = layer(j) /\ entry(i) = entry(j)
        BY <2>2
    <2> QED BY <1>5, <2>3
<1>9. ASSUME NEW b PROVE b \in Blocks(kv) <=> b \in Range(f)
    <2>1. b \in Range(f) <=> \E i \in 1..n : f[i] = b
        BY <1>7 DEF Range
    <2>2. ASSUME NEW i \in 1..n, f[i] = b PROVE b \in Blocks(kv)
        <3>1. Entries(kv)[<<layer(i), entry(i)>>] = b /\ <<layer(i), entry(i)>> \in DOMAIN Entries(kv)
            BY <1>5, <1>6, <1>7, <2>2
        <3> QED BY <3>1, BlocksAreEntries
    <2>3. ASSUME b \in Blocks(kv) PROVE \E i \in 1..n : f[i] = b
        <3>1. PICK x \in DOMAIN Entries(kv) : Entries(kv)[x] = b
            BY <2>3, BlocksAreEntries
        <3>2. PICK l \in Layers : \E j \in 1..Len(kv[l].blocks) : x = <<l, j>>
            BY EntriesOfTables
        <3>3. PICK j \in 1..per : x = <<l, j>>
            BY <3>2
        <3> DEFINE i == (l - 1) * per + j
        <3>4. i \in 1..n
            BY <1>4
        <3>5. layer(i) = l /\ entry(i) = j
            BY <1>2, <3>4
        <3> HIDE DEF i
        <3>6. f[i] = b
            BY <1>6, <1>7, <3>1, <3>3, <3>4, <3>5
        <3> QED BY <3>4, <3>6
    <2> QED BY <2>1, <2>2, <2>3
<1>10. Blocks(kv) = Range(f)
    BY <1>9
<1>11. Cardinality(Range(f)) = n
    BY <1>1, <1>7, <1>8, RangeCardinality DEF n
<1> QED BY <1>10, <1>11 DEF n

LEMMA SameCardinality == \A Y : Abstract!Cardinality(Y) = Cardinality(Y)
BY DEF Abstract!Cardinality, Cardinality

GpuSets == [r \in Requests |-> GpuOwned(r)]
CpuSets == [r \in Requests |-> CpuOwned(r)]

LEMMA GpuSetsAre ==
    /\ \A r \in Requests : GpuSets[r] = Blocks(layer_kv[r])
    /\ \A r \in Requests : GpuSets'[r] = Blocks(layer_kv'[r])
BY DEF GpuSets, GpuOwned, Blocks

\* What can be taken from the GPU pool belongs to nobody.
LEMMA TakenFromGpuIsFree ==
    ASSUME IInv, NEW n \in Nat, CanAllocate(gpu, n)
    PROVE  /\ Range(Taken(gpu, n)) \in SUBSET Abstract!Free(GpuBlocks, GpuSets)
           /\ Cardinality(Range(Taken(gpu, n))) = n
<1> DEFINE t == Taken(gpu, n)
<1>1. DEFAULT_TOTAL_KV_BLOCKS \in Nat
    BY ConstantTypes
<1>2. \A i \in 1..n : t[i] \in GpuBlocks /\ gpu.isFree[t[i]]
    BY <1>1, PoolsTyped, TakingOK DEF GpuBlocks
<1>3. t \in [1..n -> GpuBlocks] /\ \A i, j \in 1..n : t[i] = t[j] => i = j
    BY <1>1, PoolsTyped, TakenDistinct DEF GpuBlocks
<1> HIDE DEF t
<1>4. ASSUME NEW i \in 1..n, NEW r \in Requests PROVE t[i] \notin GpuSets[r]
    <2>1. ~IsHeld(HeldBy(layer_kv), t[i])
        BY <1>2 DEF IInv, GpuAccountedFor, PoolHolds, AccountedFor, GpuBlocks
    <2>2. layer_kv[r] \in Tables /\ HeldBy(layer_kv)[r] = Entries(layer_kv[r])
        BY DEF IInv, RequestTypes, HeldBy
    <2>3. ~\E x \in DOMAIN Entries(layer_kv[r]) : Entries(layer_kv[r])[x] = t[i]
        BY <2>1, <2>2 DEF IsHeld
    <2> QED BY <2>2, <2>3, BlocksAreEntries, GpuSetsAre
<1>5. Range(t) \in SUBSET Abstract!Free(GpuBlocks, GpuSets)
    BY <1>3, <1>4 DEF Abstract!Free, Range
<1>6. Cardinality(Range(t)) = n
    BY <1>3, RangeCardinality
<1> QED BY <1>5, <1>6 DEF t

LEMMA TakenFromCpuIsFree ==
    ASSUME IInv, NEW n \in Nat, CanAllocate(cpu, n)
    PROVE  /\ Range(Taken(cpu, n)) \in SUBSET Abstract!Free(CpuBlocks, CpuSets)
           /\ Cardinality(Range(Taken(cpu, n))) = n
<1> DEFINE t == Taken(cpu, n)
<1>1. DEFAULT_TOTAL_CPU_BLOCKS \in Nat
    BY ConstantTypes
<1>2. \A i \in 1..n : t[i] \in CpuBlocks /\ cpu.isFree[t[i]]
    BY <1>1, PoolsTyped, TakingOK DEF CpuBlocks
<1>3. t \in [1..n -> CpuBlocks] /\ \A i, j \in 1..n : t[i] = t[j] => i = j
    BY <1>1, PoolsTyped, TakenDistinct DEF CpuBlocks
<1> HIDE DEF t
<1>4. ASSUME NEW i \in 1..n, NEW r \in Requests PROVE t[i] \notin CpuSets[r]
    <2>1. ~IsHeld(HeldOnCpu(swapped_requests), t[i])
        BY <1>2 DEF IInv, CpuAccountedFor, PoolHolds, AccountedFor, CpuBlocks
    <2> QED BY <2>1, CpuOwnedIsHeld DEF IsHeld, CpuSets
<1>5. Range(t) \in SUBSET Abstract!Free(CpuBlocks, CpuSets)
    BY <1>3, <1>4 DEF Abstract!Free, Range
<1>6. Cardinality(Range(t)) = n
    BY <1>3, RangeCardinality
<1> QED BY <1>5, <1>6 DEF t

LEMMA InitImplements == Init => Abstract!Init
<1> SUFFICES ASSUME Init PROVE Abstract!Init
    OBVIOUS
<1>1. \A r \in Requests : GpuOwned(r) = {}
    <2>1. \A l \in Layers : Range(EmptyKv[l].blocks) = {}
        BY EmptyTables DEF Range
    <2> QED BY <2>1 DEF Init, GpuOwned
<1>2. \A r \in Requests : CpuOwned(r) = {}
    BY DEF Init, CpuOwned
<1> QED BY <1>1, <1>2 DEF Init, Abstract!Init

\* An admission is an Allocate, or nothing when the last block has room left.
LEMMA TakeBlocksImplements ==
    ASSUME IInv, NEW r \in Requests, NEW need \in Nat, NEW next, TakeBlocks(r, need, next),
           kv_residency[r] # "Cpu", need = 0 => kv_residency[r] = "Gpu"
    PROVE  Abstract!Allocate(r) \/ UNCHANGED Abstract!vars
<1> DEFINE n == need * K
           Y == Range(Taken(gpu, n))
<1>1. /\ CanAllocate(gpu, n)
      /\ layer_kv' = [layer_kv EXCEPT ![r] = Deal(layer_kv[r], Taken(gpu, n), need)]
      /\ kv_residency' = [kv_residency EXCEPT ![r] = "Gpu"]
      /\ UNCHANGED swapped_requests
    BY TakeBlocksEffect
<1>2. n \in Nat
    BY ConstantTypes
<1>3. layer_kv \in [Requests -> Tables] /\ kv_residency \in [Requests -> {"None", "Gpu", "Cpu"}]
    BY DEF IInv, RequestTypes
<1>4. Blocks(layer_kv'[r]) = Blocks(layer_kv[r]) \cup Y
    <2> DEFINE H == HeldBy(layer_kv)
    <2>1. H[r] = Entries(layer_kv[r])
        BY DEF HeldBy
    <2> HIDE DEF H
    <2>2. Blocks(Deal(layer_kv[r], Taken(gpu, n), need)) = Blocks(layer_kv[r]) \cup Y
        BY <1>1, <1>3, <2>1, PoolsTyped, DealBlocks
    <2> QED BY <1>1, <1>3, <2>2
<1>5. Y \in SUBSET Abstract!Free(GpuBlocks, GpuSets) /\ Cardinality(Y) = n
    <2> HIDE DEF n
    <2> QED BY <1>1, <1>2, TakenFromGpuIsFree
<1>6. \A q \in Requests : q # r => layer_kv'[q] = layer_kv[q]
    BY <1>1, <1>3
<1>7. GpuSets' = [GpuSets EXCEPT ![r] = @ \cup Y]
    <2> HIDE DEF Y, n
    <2>1. \A q \in Requests : GpuSets'[q] = [GpuSets EXCEPT ![r] = @ \cup Y][q]
        BY <1>4, <1>6, GpuSetsAre DEF GpuSets
    <2> QED BY <2>1 DEF GpuSets
<1>8. CpuSets' = CpuSets
    BY <1>1 DEF CpuSets, CpuOwned
<1> HIDE DEF Y, n
<1>9. CASE Y # {}
    <2>1. Abstract!Allocate(r)
        BY <1>1, <1>5, <1>7, <1>8, <1>9 DEF Abstract!Allocate, GpuSets, CpuSets
    <2> QED BY <2>1
<1>10. CASE Y = {}
    <2>1. n = 0
        BY <1>5, <1>10, FS_EmptySet
    <2>2. need = 0
        <3>1. need * K = need + need * (K - 1) /\ need * (K - 1) \in Nat
            BY ConstantTypes
        <3> QED BY <2>1, <3>1 DEF n
    <2>3. kv_residency' = kv_residency
        BY <1>1, <1>3, <2>2
    <2>4. GpuSets' = GpuSets
        BY <1>7, <1>10 DEF GpuSets
    <2> QED BY <1>8, <2>3, <2>4 DEF Abstract!vars, GpuSets, CpuSets
<1> QED BY <1>9, <1>10

\* The tables of r are emptied and those of the others kept.
LEMMA EmptiedSets ==
    ASSUME IInv, NEW r \in Requests, layer_kv' = [layer_kv EXCEPT ![r] = EmptyKv]
    PROVE  GpuSets' = [GpuSets EXCEPT ![r] = {}]
<1>1. layer_kv \in [Requests -> Tables]
    BY DEF IInv, RequestTypes
<1>2. Blocks(EmptyKv) = {}
    <2>1. \A l \in Layers : Range(EmptyKv[l].blocks) = {}
        BY EmptyTables DEF Range
    <2> QED BY <2>1 DEF Blocks
<1>3. \A q \in Requests : GpuSets'[q] = [GpuSets EXCEPT ![r] = {}][q]
    BY <1>1, <1>2, GpuSetsAre DEF GpuSets
<1> QED BY <1>3 DEF GpuSets

LEMMA FreeRequestImplements ==
    ASSUME IInv, NEW r \in Requests, FreeRequest(r)
    PROVE  Abstract!FreeRequest(r)
<1>1. /\ stage[r] = "ran"
      /\ layer_kv' = [layer_kv EXCEPT ![r] = EmptyKv]
      /\ kv_residency' = [kv_residency EXCEPT ![r] = "None"]
      /\ swapped_requests' = swapped_requests
    BY DEF FreeRequest
<1>2. kv_residency[r] = "Gpu"
    BY <1>1 DEF IInv, StageOK
<1>3. GpuSets' = [GpuSets EXCEPT ![r] = {}]
    BY <1>1, EmptiedSets
<1>4. CpuSets' = CpuSets
    BY <1>1 DEF CpuSets, CpuOwned
<1> QED BY <1>1, <1>2, <1>3, <1>4 DEF Abstract!FreeRequest, GpuSets, CpuSets

LEMMA SwapOutImplements ==
    ASSUME IInv, NEW r \in Requests, SwapOut(r)
    PROVE  Abstract!SwapOut(r)
<1> DEFINE per == NumBlocks(layer_kv[r])
           n == per * K
           t == Taken(cpu, n)
           rec == SwapRecord(layer_kv[r], t)
           Y == Range(t)
<1>1. /\ CanSwapOut(r)
      /\ \A l \in Layers : Len(layer_kv[r][l].blocks) = per
      /\ swapped_requests' = [q \in DOMAIN swapped_requests \cup {r} |->
                                 IF q = r THEN rec ELSE swapped_requests[q]]
      /\ layer_kv' = [layer_kv EXCEPT ![r] = EmptyKv]
      /\ kv_residency' = [kv_residency EXCEPT ![r] = "Cpu"]
    BY DEF SwapOut, K
<1>2. kv_residency[r] = "Gpu" /\ n <= cpu.count
    BY <1>1 DEF CanSwapOut, K
<1>3. layer_kv[r] \in Tables /\ per \in Nat
    BY ConstantTypes DEF IInv, RequestTypes, Tables, KvType, NumBlocks
<1>4. n \in Nat /\ DEFAULT_TOTAL_CPU_BLOCKS \in Nat
    <2> HIDE DEF per
    <2> QED BY <1>3, ConstantTypes
<1>5. CanAllocate(cpu, n)
    <2> HIDE DEF n
    <2> QED BY <1>2, <1>4, PoolsTyped DEF CanAllocate, PoolType
<1>6. Y \in SUBSET Abstract!Free(CpuBlocks, CpuSets) /\ Cardinality(Y) = n
    <2> HIDE DEF n
    <2> QED BY <1>4, <1>5, TakenFromCpuIsFree
<1>7. t \in [1..n -> CpuBlocks]
    <2> HIDE DEF n
    <2> QED BY <1>4, <1>5, PoolsTyped, TakenDistinct DEF CpuBlocks
<1>8. CpuIds(rec) = t
    <2> HIDE DEF t
    <2> QED BY <1>3, <1>7, SwapRecordOK
<1>9. Cardinality(GpuSets[r]) = n
    <2>1. \A x, y \in DOMAIN Entries(layer_kv[r]) :
              Entries(layer_kv[r])[x] = Entries(layer_kv[r])[y] => x = y
        <3>1. Apart(HeldBy(layer_kv)) /\ HeldBy(layer_kv)[r] = Entries(layer_kv[r])
            BY DEF IInv, GpuAccountedFor, PoolHolds, HeldBy
        <3> QED BY <3>1 DEF Apart
    <2> HIDE DEF per
    <2>2. Cardinality(Blocks(layer_kv[r])) = n
        BY <1>1, <1>3, <2>1, BlocksCardinality
    <2> QED BY <2>2, GpuSetsAre
<1> HIDE DEF n, t, rec
<1>10. CpuSets' = [CpuSets EXCEPT ![r] = Y]
    <2>1. \A q \in Requests : CpuSets'[q] = [CpuSets EXCEPT ![r] = Y][q]
        BY <1>1, <1>8 DEF CpuSets, CpuOwned
    <2> QED BY <2>1 DEF CpuSets
<1>11. GpuSets' = [GpuSets EXCEPT ![r] = {}]
    BY <1>1, EmptiedSets
<1> HIDE DEF Y
<1> QED BY <1>1, <1>2, <1>6, <1>9, <1>10, <1>11, SameCardinality
       DEF Abstract!SwapOut, GpuSets, CpuSets

LEMMA SwapInImplements ==
    ASSUME IInv, NEW r \in Requests, SwapIn(r)
    PROVE  Abstract!SwapIn(r)
<1> DEFINE rec == swapped_requests[r]
           per == rec.blocks_per_layer
           n == per * K
           t == Taken(gpu, n)
           D == Deal(EmptyKv, t, per)
           Y == Range(t)
           ids == CpuIds(rec)
<1>1. /\ CanSwapIn(r)
      /\ layer_kv' = [layer_kv EXCEPT ![r] = RestoredKv(rec, t)]
      /\ swapped_requests' = [q \in DOMAIN swapped_requests \ {r} |-> swapped_requests[q]]
      /\ kv_residency' = [kv_residency EXCEPT ![r] = "Gpu"]
    BY DEF SwapIn, K
<1>2. layer_kv \in [Requests -> Tables] /\ r \in DOMAIN swapped_requests
    BY <1>1 DEF CanSwapIn, IInv, RequestTypes
<1>3. kv_residency[r] = "Cpu" /\ layer_kv[r] = EmptyKv
    BY <1>2 DEF IInv, StageOK
<1>4. rec \in RecordType /\ per \in Nat /\ Len(rec.cpu_blocks) = n /\ CanAllocate(gpu, n)
    BY <1>1, SwapInTakes
<1>5. n \in Nat
    <2> HIDE DEF per
    <2> QED BY <1>4, ConstantTypes
<1>6. Y \in SUBSET Abstract!Free(GpuBlocks, GpuSets) /\ Cardinality(Y) = n
    <2> HIDE DEF n
    <2> QED BY <1>4, <1>5, TakenFromGpuIsFree
\* The CPU blocks that come free are as many.
<1>7. Cardinality(CpuSets[r]) = n
    <2>1. IsIdList(ids) /\ DOMAIN ids = 1..Len(ids) /\ Len(ids) = n
        BY <1>4, CpuIdsOK
    <2>2. HeldOnCpu(swapped_requests)[r] = ids /\ CpuSets[r] = Range(ids)
        BY <1>2 DEF HeldOnCpu, CpuSets, CpuOwned
    <2>3. Apart(HeldOnCpu(swapped_requests))
        BY DEF IInv, CpuAccountedFor, PoolHolds
    <2> HIDE DEF n
    <2>4. \A i, j \in 1..n : ids[i] = ids[j] => i = j
        BY <2>1, <2>2, <2>3 DEF Apart
    <2>5. ids \in [1..n -> Int]
        <3>1. ids = [i \in 1..Len(rec.cpu_blocks) |-> rec.cpu_blocks[i].cpu_block_id]
            BY <1>4, RecordEntries DEF CpuIds
        <3> HIDE DEF ids
        <3> QED BY <2>1, <3>1 DEF IsIdList
    <2> HIDE DEF ids
    <2>6. Cardinality(Range(ids)) = n
        BY <1>5, <2>4, <2>5, RangeCardinality
    <2> QED BY <2>2, <2>6
<1>8. Blocks(layer_kv'[r]) = Y
    <2> DEFINE H == HeldBy(layer_kv)
    <2>1. H[r] = Entries(EmptyKv)
        BY <1>3 DEF HeldBy
    <2> HIDE DEF H, per
    <2>2. Blocks(D) = Blocks(EmptyKv) \cup Y
        BY <1>4, <2>1, EmptyTables, PoolsTyped, DealBlocks
    <2>3. Blocks(EmptyKv) = {}
        <3>1. \A l \in Layers : Range(EmptyKv[l].blocks) = {}
            BY EmptyTables DEF Range
        <3> QED BY <3>1 DEF Blocks
    <2>4. Blocks(RestoredKv(rec, t)) = Blocks(D)
        <3> HIDE DEF t, rec
        <3> QED BY DEF Blocks, RestoredKv, per
    <2>5. layer_kv'[r] = RestoredKv(rec, t)
        BY <1>1, <1>2
    <2> QED BY <2>2, <2>3, <2>4, <2>5
<1> HIDE DEF n, t, rec, Y
<1>9. GpuSets' = [GpuSets EXCEPT ![r] = Y]
    <2>1. \A q \in Requests : GpuSets'[q] = [GpuSets EXCEPT ![r] = Y][q]
        BY <1>1, <1>2, <1>8, GpuSetsAre DEF GpuSets
    <2> QED BY <2>1 DEF GpuSets
<1>10. CpuSets' = [CpuSets EXCEPT ![r] = {}]
    <2>1. \A q \in Requests : CpuSets'[q] = [CpuSets EXCEPT ![r] = {}][q]
        BY <1>1 DEF CpuSets, CpuOwned
    <2> QED BY <2>1 DEF CpuSets
<1> QED BY <1>1, <1>3, <1>6, <1>7, <1>9, <1>10, SameCardinality
       DEF Abstract!SwapIn, GpuSets, CpuSets

\* Runs, and swaps that fail, change nothing the abstract allocator has.
LEMMA SameBlocksImplements ==
    ASSUME UNCHANGED <<kv_residency, swapped_requests>>,
           \A r \in Requests : Blocks(layer_kv'[r]) = Blocks(layer_kv[r])
    PROVE  UNCHANGED Abstract!vars
<1>1. GpuSets' = GpuSets
    <2>1. \A r \in Requests : GpuSets'[r] = GpuSets[r]
        BY GpuSetsAre
    <2> QED BY <2>1 DEF GpuSets
<1>2. CpuSets' = CpuSets
    BY DEF CpuSets, CpuOwned
<1> QED BY <1>1, <1>2 DEF Abstract!vars, GpuSets, CpuSets

LEMMA RunImplements ==
    ASSUME IInv, NEW r \in Requests, RunPrefill(r) \/ RunDecode(r)
    PROVE  UNCHANGED Abstract!vars
<1>1. layer_kv \in [Requests -> Tables]
    BY DEF IInv, RequestTypes
<1>2. \A q \in Requests : \A l \in Layers : layer_kv'[q][l].blocks = layer_kv[q][l].blocks
    <2> TAKE q \in Requests
    <2> TAKE l \in Layers
    <2>1. CASE q # r
        BY <1>1, <2>1 DEF RunPrefill, RunDecode
    <2>2. CASE q = r
        <3>1. PICK m : layer_kv'[r][l] = [layer_kv[r][l] EXCEPT !.tokens = m]
            <4>1. CASE RunPrefill(r)
                <5>1. layer_kv'[r][l] = [layer_kv[r][l] EXCEPT !.tokens = prompts_len[r]]
                    BY <1>1, <4>1 DEF RunPrefill
                <5> QED BY <5>1
            <4>2. CASE RunDecode(r)
                <5>1. layer_kv'[r][l] =
                         [layer_kv[r][l] EXCEPT !.tokens = layer_kv[r][l].tokens + 1]
                    BY <1>1, <4>2 DEF RunDecode
                <5> QED BY <5>1
            <4> QED BY <4>1, <4>2
        <3>2. layer_kv[r][l] \in KvType
            BY <1>1 DEF Tables
        <3> QED BY <2>2, <3>1, <3>2 DEF KvType
    <2> QED BY <2>1, <2>2
<1>3. \A q \in Requests : Blocks(layer_kv'[q]) = Blocks(layer_kv[q])
    BY <1>2 DEF Blocks
<1>4. UNCHANGED <<kv_residency, swapped_requests>>
    BY DEF RunPrefill, RunDecode
<1> QED BY <1>3, <1>4, SameBlocksImplements

LEMMA NextImplements == IInv /\ [Next]_vars => [Abstract!Next]_(Abstract!vars)
<1> SUFFICES ASSUME IInv, [Next]_vars PROVE [Abstract!Next]_(Abstract!vars)
    OBVIOUS
<1>1. CASE UNCHANGED vars
    BY <1>1, SameBlocksImplements DEF vars
<1>2. CASE Next
    <2> SUFFICES ASSUME NEW r \in Requests,
                        \/ AllocatePrefill(r) \/ RunPrefill(r)
                        \/ AllocateDecode(r) \/ RunDecode(r)
                        \/ FreeRequest(r)
                        \/ SwapOut(r) \/ SwapOutFails(r)
                        \/ SwapIn(r) \/ SwapInFails(r)
                 PROVE  [Abstract!Next]_(Abstract!vars)
        BY <1>2 DEF Next
    <2>1. CASE AllocatePrefill(r)
        <3> DEFINE need == CeilDiv(prompts_len[r], DEFAULT_KV_BLOCK_SIZE)
        <3>1. prompts_len[r] \in Nat /\ prompts_len[r] >= 1
            BY ConstantTypes DEF IInv, RequestTypes
        <3>2. need \in Nat /\ need # 0
            <4>1. need \in Nat /\ prompts_len[r] <= need * DEFAULT_KV_BLOCK_SIZE
                BY <3>1, ConstantTypes, CeilDivIs
            <4>2. 0 * DEFAULT_KV_BLOCK_SIZE = 0
                BY ConstantTypes
            <4> HIDE DEF need
            <4> QED BY <3>1, <4>1, <4>2
        <3>3. TakeBlocks(r, need, "admitted") /\ kv_residency[r] # "Cpu"
            BY <2>1 DEF AllocatePrefill, IInv, StageOK
        <3> HIDE DEF need
        <3>4. Abstract!Allocate(r) \/ UNCHANGED Abstract!vars
            BY <3>2, <3>3, TakeBlocksImplements
        <3> QED BY <3>4 DEF Abstract!Next
    <2>2. CASE RunPrefill(r) \/ RunDecode(r)
        BY <2>2, RunImplements
    <2>3. CASE AllocateDecode(r)
        <3> DEFINE need == DecodeNeed(layer_kv[r])
        <3>1. need \in Nat
            BY DEF DecodeNeed
        <3>2. TakeBlocks(r, need, "granted") /\ stage[r] \in {"ran", "ready"}
            BY <2>3 DEF AllocateDecode, Unfinished
        <3>3. kv_residency[r] = "Gpu"
            BY <3>2 DEF IInv, StageOK
        <3> HIDE DEF need
        <3>4. Abstract!Allocate(r) \/ UNCHANGED Abstract!vars
            BY <3>1, <3>2, <3>3, TakeBlocksImplements
        <3> QED BY <3>4 DEF Abstract!Next
    <2>4. CASE FreeRequest(r)
        BY <2>4, FreeRequestImplements DEF Abstract!Next
    <2>5. CASE SwapOut(r)
        BY <2>5, SwapOutImplements DEF Abstract!Next
    <2>6. CASE SwapOutFails(r)
        BY <2>6, SameBlocksImplements DEF SwapOutFails
    <2>7. CASE SwapIn(r)
        BY <2>7, SwapInImplements DEF Abstract!Next
    <2>8. CASE SwapInFails(r)
        <3>1. layer_kv[r] = EmptyKv /\ layer_kv \in [Requests -> Tables]
            BY <2>8 DEF SwapInFails, CanSwapIn, IInv, RequestTypes, StageOK
        <3>2. layer_kv' = layer_kv /\ UNCHANGED <<kv_residency, swapped_requests>>
            BY <2>8, <3>1 DEF SwapInFails
        <3> QED BY <3>2, SameBlocksImplements
    <2> QED BY <2>1, <2>2, <2>3, <2>4, <2>5, <2>6, <2>7, <2>8
<1> QED BY <1>1, <1>2

\* RealKvAllocator implements the abstract allocator: every call is one of its
\* steps, or changes nothing it can see.
THEOREM ImplementsAbstract == Spec => ImplementsKvAllocator
<1>1. Init => Abstract!Init
    BY InitImplements
<1>2. IInv /\ [Next]_vars => [Abstract!Next]_(Abstract!vars)
    BY NextImplements
<1> QED BY <1>1, <1>2, PoolsAlwaysAccountedFor, PTL DEF Spec, ImplementsKvAllocator, Abstract!Spec
-----------------------------------------------------------------------------
(* KvMemory: what the slots hold. *)

M == DEFAULT_TOTAL_CPU_BLOCKS

\* The pools keep their rows, and the CPU pool has what was saved of each
\* swapped request.
SavedInv ==
    /\ DOMAIN gmem = 0..(2 * TOTAL * S - 1) /\ DOMAIN cmem = 0..(2 * M * S - 1)
    /\ DOMAIN swapped_requests \subseteq DOMAIN saved
    /\ \A r \in DOMAIN swapped_requests :
          \A i \in DOMAIN CpuIds(swapped_requests[r]) :
              SlotOf(cmem, CpuIds(swapped_requests[r])[i]) = saved[r][i]

MemInv == IInv /\ SavedInv
-----------------------------------------------------------------------------
(* Slots. *)

LEMMA PoolSizes == S \in Nat /\ S >= 1 /\ TOTAL \in Nat /\ M \in Nat
BY ConstantTypes DEF S, TOTAL, M

\* The blocks are those the lemmas about the model speak of.
LEMMA SameBlocks == GpuBlocks = KvBlocks
BY DEF GpuBlocks, KvBlocks, TOTAL

\* A slot lies in its pool.
LEMMA SlotInside ==
    ASSUME NEW n \in Nat, NEW b \in 0..(n - 1), NEW k \in 0..(2 * S - 1)
    PROVE  /\ 2 * b * S + k \in 0..(2 * n * S - 1) /\ 2 * b * S + k \in SlotRows(b)
           /\ 2 * b * S \in Int /\ (2 * b * S + k) - 2 * b * S = k
<1>1. S \in Nat /\ S >= 1 /\ b \in Nat /\ n - 1 - b \in Nat
    BY PoolSizes
<1>2. b * S \in Nat /\ (n - 1 - b) * S \in Nat
    BY <1>1
<1>3. 2 * b * S = 2 * (b * S)
    BY <1>1
<1>4. 2 * n * S = 2 * (b * S) + 2 * S + 2 * ((n - 1 - b) * S)
    BY <1>1
<1>5. 2 * b * S + k \in 0..(2 * n * S - 1)
    BY <1>1, <1>2, <1>3, <1>4
<1>6. 2 * b * S + k \in SlotRows(b)
    BY <1>1, <1>2, <1>3 DEF SlotRows
<1> QED BY <1>2, <1>3, <1>5, <1>6

\* Two slots have no row in common.
LEMMA SlotsApart ==
    ASSUME NEW b \in Nat, NEW c \in Nat, NEW a \in SlotRows(b), a \in SlotRows(c)
    PROVE  b = c
<1>1. S \in Nat /\ S >= 1
    BY PoolSizes
<1>2. ASSUME NEW x \in Nat, NEW y \in Nat, x < y PROVE 2 * x * S + 2 * S <= 2 * y * S
    <2>1. (y - x - 1) * S \in Nat /\ x * S \in Nat
        BY <1>1, <1>2
    <2>2. 2 * y * S = 2 * (x * S) + 2 * S + 2 * ((y - x - 1) * S)
        BY <1>1, <1>2
    <2>3. 2 * x * S = 2 * (x * S)
        BY <1>1
    <2> QED BY <1>1, <2>1, <2>2, <2>3
<1>3. b * S \in Nat /\ c * S \in Nat /\ 2 * b * S = 2 * (b * S) /\ 2 * c * S = 2 * (c * S)
    BY <1>1
<1>4. /\ a \in Int /\ 2 * b * S <= a /\ a <= 2 * b * S + 2 * S - 1
      /\ 2 * c * S <= a /\ a <= 2 * c * S + 2 * S - 1
    BY <1>1, <1>3 DEF SlotRows
<1>5. CASE b < c
    <2>1. 2 * b * S + 2 * S <= 2 * c * S
        BY <1>2, <1>5
    <2> QED BY <1>1, <1>3, <1>4, <2>1
<1>6. CASE c < b
    <2>1. 2 * c * S + 2 * S <= 2 * b * S
        BY <1>2, <1>6
    <2> QED BY <1>1, <1>3, <1>4, <2>1
<1> QED BY <1>5, <1>6
-----------------------------------------------------------------------------
(* The blocks of the tables one behind the other. *)

\* n lists of elements of X, each of length per.
AreLists(n, per, X, seqs) ==
    /\ n \in Nat /\ n >= 1 /\ per \in Nat
    /\ seqs \in [1..n -> Seq(X)] /\ \A l \in 1..n : Len(seqs[l]) = per

\* u is these lists one behind the other.
IsFlat(n, per, X, seqs, u) ==
    /\ u \in Seq(X) /\ Len(u) = n * per
    /\ \A l \in 1..n : \A j \in 1..per : u[(l - 1) * per + j] = seqs[l][j]

LEMMA FlattenEqual ==
    ASSUME NEW n, NEW per, NEW X, NEW seqs, AreLists(n, per, X, seqs)
    PROVE  IsFlat(n, per, X, seqs, FlattenSeq(seqs))
<1> USE DEF AreLists
<1> DEFINE IsTotal(f) == f = [i \in 1..n |-> IF i = 1 THEN seqs[i] ELSE f[i - 1] \o seqs[i]]
           total == CHOOSE f : IsTotal(f)
           IsPart(t, i) == /\ t \in Seq(X) /\ Len(t) = i * per
                           /\ \A l \in 1..i : \A j \in 1..per : t[(l - 1) * per + j] = seqs[l][j]
<1>1. Len(seqs) = n
    OBVIOUS
<1>2. FlattenSeq(seqs) = total[n]
    BY <1>1 DEF FlattenSeq
<1>3. \E f : IsTotal(f)
    <2> DEFINE step == [i \in 1..n |-> [t \in Seq(X) |-> IF i = 1 THEN seqs[1] ELSE t \o seqs[i]]]
    <2>1. step \in [1..n -> [Seq(X) -> Seq(X)]] /\ <<>> \in Seq(X)
        OBVIOUS
    <2>2. PICK g : IsLoop(g, n, Seq(X), <<>>, step)
        <3> HIDE DEF step
        <3> QED BY <2>1, LoopExists
    <2> DEFINE f == [i \in 1..n |-> g[i]]
    <2>3. ASSUME NEW i \in 1..n
          PROVE  g[i] = IF i = 1 THEN seqs[i] ELSE g[i - 1] \o seqs[i]
        <3>1. g[i - 1] \in Seq(X) /\ g[i] = step[i][g[i - 1]]
            <4> HIDE DEF step
            <4> QED BY <2>2 DEF IsLoop
        <3>2. step[i] = [t \in Seq(X) |-> IF i = 1 THEN seqs[1] ELSE t \o seqs[i]]
            OBVIOUS
        <3> HIDE DEF step
        <3> QED BY <3>1, <3>2
    <2>4. ASSUME NEW i \in 1..n
          PROVE  f[i] = IF i = 1 THEN seqs[i] ELSE f[i - 1] \o seqs[i]
        <3>1. i # 1 => i - 1 \in 1..n
            OBVIOUS
        <3> QED BY <2>3, <3>1
    <2>5. f = [i \in 1..n |-> IF i = 1 THEN seqs[i] ELSE f[i - 1] \o seqs[i]]
        <3>1. f = [i \in 1..n |-> f[i]]
            OBVIOUS
        <3>2. [i \in 1..n |-> f[i]] = [i \in 1..n |-> IF i = 1 THEN seqs[i] ELSE f[i - 1] \o seqs[i]]
            <4> HIDE DEF f
            <4> QED BY <2>4, Zenon
        <3> HIDE DEF f
        <3> QED BY <3>1, <3>2
    <2> QED BY <2>5
<1>4. IsTotal(total)
    <2> HIDE DEF IsTotal
    <2> QED BY <1>3
<1> HIDE DEF total
<1>5. \A i \in 1..n : total[i] = IF i = 1 THEN seqs[i] ELSE total[i - 1] \o seqs[i]
    BY <1>4
<1> DEFINE T == {i \in 0..n : i > 0 => IsPart(total[i], i)}
<1>6. 0 \in T
    OBVIOUS
<1>7. ASSUME NEW i \in 1..n, i - 1 \in T PROVE i \in T
    <2>1. CASE i = 1
        <3>1. total[1] = seqs[1] /\ 1 * per = per /\ 0 * per = 0
            BY <2>1, <1>5
        <3>2. IsPart(total[1], 1)
            BY <3>1
        <3> QED BY <2>1, <3>2
    <2>2. CASE i # 1
        <3>1. IsPart(total[i - 1], i - 1) /\ i - 1 \in 1..n
            BY <2>2, <1>7
        <3>2. total[i] = total[i - 1] \o seqs[i]
            BY <2>2, <1>5
        <3>3. total[i] \in Seq(X) /\ IsConcat(total[i], total[i - 1], seqs[i])
            <4>1. total[i - 1] \in Seq(X) /\ seqs[i] \in Seq(X)
                BY <3>1
            <4> QED BY <3>2, <4>1, ConcatIsBoth
        <3>4. Len(total[i - 1]) = (i - 1) * per /\ (i - 1) * per + per = i * per /\ (i - 1) * per \in Nat
            BY <3>1
        <3>5. Len(total[i]) = i * per
            BY <3>3, <3>4 DEF IsConcat
        <3>6. ASSUME NEW l \in 1..i, NEW j \in 1..per
              PROVE  total[i][(l - 1) * per + j] = seqs[l][j]
            <4>1. CASE l = i
                BY <4>1, <3>3, <3>4 DEF IsConcat
            <4>2. CASE l # i
                <5>1. l \in 1..(i - 1)
                    BY <4>2
                <5>2. (l - 1) * per + j \in 1..((i - 1) * per)
                    <6>1. (l - 1) * per \in Nat /\ (i - 1 - l) * per \in Nat
                        BY <5>1
                    <6>2. (i - 1) * per = (l - 1) * per + per + (i - 1 - l) * per
                        BY <5>1
                    <6>3. ASSUME NEW x \in Nat, NEW y \in Nat, NEW z, z = x + per + y
                          PROVE  x + j <= z /\ x + j >= 1
                        BY <6>3
                    <6>4. (l - 1) * per + j <= (i - 1) * per /\ (l - 1) * per + j >= 1
                        BY ONLY <6>1, <6>2, <6>3
                    <6> QED BY <6>1, <6>4, <3>4
                <5> QED BY <5>1, <5>2, <3>1, <3>3, <3>4 DEF IsConcat
            <4> QED BY <4>1, <4>2
        <3> QED BY <3>3, <3>5, <3>6
    <2> QED BY <2>1, <2>2
<1>8. \A i \in 0..n : i \in T
    <2> HIDE DEF T
    <2> QED BY <1>6, <1>7, Induction
<1>9. IsPart(total[n], n)
    <2>1. n \in T
        <3> HIDE DEF T
        <3> QED BY <1>8
    <2> HIDE DEF IsPart
    <2> QED BY <2>1
<1> QED BY ONLY <1>2, <1>9 DEF IsFlat

\* So block j of layer l is number (l - 1) * per + j.
LEMMA TableBlocksAre ==
    ASSUME NEW kv \in Tables, NEW per \in Nat, \A l \in Layers : Len(kv[l].blocks) = per
    PROVE  /\ TableBlocks(kv) \in Seq(GpuBlocks) /\ Len(TableBlocks(kv)) = per * K
           /\ \A l \in Layers : \A j \in 1..per :
                 TableBlocks(kv)[(l - 1) * per + j] = kv[l].blocks[j]
<1> DEFINE seqs == [l \in Layers |-> kv[l].blocks]
<1>1. K \in Nat /\ K >= 1 /\ Layers = 1..K
    BY ConstantTypes DEF Layers, K
<1>2. seqs \in [1..K -> Seq(GpuBlocks)] /\ \A l \in 1..K : Len(seqs[l]) = per
    BY <1>1 DEF Tables, KvType
<1>3. /\ FlattenSeq(seqs) \in Seq(GpuBlocks) /\ Len(FlattenSeq(seqs)) = K * per
      /\ \A l \in 1..K : \A j \in 1..per : FlattenSeq(seqs)[(l - 1) * per + j] = seqs[l][j]
    <2> HIDE DEF seqs, K
    <2>1. AreLists(K, per, GpuBlocks, seqs)
        BY <1>1, <1>2 DEF AreLists
    <2>2. IsFlat(K, per, GpuBlocks, seqs, FlattenSeq(seqs))
        BY ONLY <2>1, FlattenEqual
    <2> QED BY <2>2 DEF IsFlat
<1>4. K * per = per * K
    <2> HIDE DEF K
    <2> QED BY <1>1
<1>5. TableBlocks(kv) = FlattenSeq(seqs)
    BY DEF TableBlocks
<1> QED BY <1>1, <1>3, <1>4, <1>5
-----------------------------------------------------------------------------
(* What the copies do. *)

\* move_data for each block, and the scatter kernel, as MemSwapOut and MemSwapIn
\* have them.
CopyOut(from, to) ==
    [a \in DOMAIN cmem |->
        IF \E i \in DOMAIN to : a \in SlotRows(to[i])
        THEN LET i == CHOOSE i \in DOMAIN to : a \in SlotRows(to[i])
             IN  gmem[2 * from[i] * S + (a - 2 * to[i] * S)]
        ELSE cmem[a]]

CopyIn(start, dst) ==
    [a \in DOMAIN gmem |->
        IF \E j \in DOMAIN dst : a \in SlotRows(dst[j])
        THEN LET j == CHOOSE j \in DOMAIN dst : a \in SlotRows(dst[j])
             IN  cmem[2 * (start + j) * S + (a - 2 * dst[j] * S)]
        ELSE gmem[a]]

\* The blocks a swap_out takes from the CPU pool are in no record.
LEMMA TakenIsNew ==
    ASSUME IInv, NEW n \in Nat, CanAllocate(cpu, n)
    PROVE  /\ Taken(cpu, n) \in [1..n -> CpuBlocks]
           /\ \A i, j \in 1..n : Taken(cpu, n)[i] = Taken(cpu, n)[j] => i = j
           /\ \A q \in DOMAIN swapped_requests : \A j \in DOMAIN CpuIds(swapped_requests[q]) :
                 \A i \in 1..n : CpuIds(swapped_requests[q])[j] # Taken(cpu, n)[i]
<1> DEFINE t == Taken(cpu, n)
<1>1. cpu \in PoolType(M) /\ FreeListOK(cpu) /\ M \in Nat
    BY PoolsTyped, PoolSizes DEF M
<1>2. /\ t \in [1..n -> 0..(M - 1)] /\ \A i, j \in 1..n : t[i] = t[j] => i = j
      /\ \A i \in 1..n : cpu.isFree[t[i]]
    <2>1. t \in [1..n -> 0..(M - 1)] /\ \A i, j \in 1..n : t[i] = t[j] => i = j
        BY <1>1, TakenDistinct
    <2>2. \A i \in 1..n : cpu.isFree[t[i]]
        BY <1>1, TakingOK
    <2> QED BY <2>1, <2>2
<1>3. CpuBlocks = 0..(M - 1)
    BY DEF CpuBlocks, M
<1>4. \A q \in DOMAIN swapped_requests : q \in Requests /\ HeldOnCpu(swapped_requests)[q] = CpuIds(swapped_requests[q])
    BY DEF IInv, RequestTypes, HeldOnCpu
<1>5. AccountedFor(0..(M - 1), cpu.isFree, HeldOnCpu(swapped_requests))
    BY DEF IInv, CpuAccountedFor, PoolHolds, M
<1> HIDE DEF t
<1>6. ASSUME NEW q \in DOMAIN swapped_requests, NEW j \in DOMAIN CpuIds(swapped_requests[q]),
             NEW i \in 1..n, CpuIds(swapped_requests[q])[j] = t[i]
      PROVE  FALSE
    <2>1. IsHeld(HeldOnCpu(swapped_requests), t[i])
        BY <1>4, <1>6 DEF IsHeld
    <2> QED BY <1>2, <1>5, <2>1 DEF AccountedFor
<1> QED BY <1>2, <1>3, <1>6 DEF t

\* The blocks in a record are blocks of the CPU pool, and no two entries are the
\* same.
LEMMA RecordBlocks ==
    ASSUME IInv, NEW r \in DOMAIN swapped_requests
    PROVE  LET ids == CpuIds(swapped_requests[r])
               n   == Len(swapped_requests[r].cpu_blocks)
           IN  /\ n \in Nat /\ ids \in [1..n -> CpuBlocks]
               /\ DOMAIN swapped_requests[r].cpu_blocks = 1..n
               /\ \A i, j \in 1..n : ids[i] = ids[j] => i = j
<1> DEFINE rec == swapped_requests[r]
           ids == CpuIds(rec)
           n == Len(rec.cpu_blocks)
<1>1. r \in Requests /\ rec \in RecordType
    BY DEF IInv, RequestTypes
<1>2. n \in Nat /\ DOMAIN rec.cpu_blocks = 1..n
      /\ \A i \in 1..n : rec.cpu_blocks[i].cpu_block_id \in CpuBlocks
    BY <1>1, RecordEntries
<1>3. ids \in [1..n -> CpuBlocks]
    <2> HIDE DEF n, rec
    <2>1. ids = [i \in 1..n |-> rec.cpu_blocks[i].cpu_block_id]
        BY <1>2 DEF CpuIds
    <2> QED BY <1>2, <2>1
<1>4. HeldOnCpu(swapped_requests)[r] = ids
    BY <1>1 DEF HeldOnCpu
<1>5. Apart(HeldOnCpu(swapped_requests))
    BY DEF IInv, CpuAccountedFor, PoolHolds
<1>6. \A i, j \in 1..n : ids[i] = ids[j] => i = j
    <2> HIDE DEF ids, n
    <2>1. DOMAIN HeldOnCpu(swapped_requests)[r] = 1..n
        BY <1>3, <1>4
    <2>2. \A x, y \in 1..n : HeldOnCpu(swapped_requests)[r][x] = HeldOnCpu(swapped_requests)[r][y] => x = y
        BY <1>1, <1>5, <2>1, Zenon DEF Apart
    <2> QED BY <1>4, <2>2
<1> QED BY <1>2, <1>3, <1>6

\* move_data, block after block: the slots of `from' are in the slots `to'.
LEMMA CopiedOut ==
    ASSUME NEW n \in Nat, NEW from, NEW to \in [1..n -> CpuBlocks],
           \A i, j \in 1..n : to[i] = to[j] => i = j,
           DOMAIN cmem = 0..(2 * M * S - 1), NEW new,
           new = CopyOut(from, to)
    PROVE  /\ \A i \in 1..n : SlotOf(new, to[i]) = SlotOf(gmem, from[i])
           /\ \A b \in CpuBlocks : (\A i \in 1..n : b # to[i]) => SlotOf(new, b) = SlotOf(cmem, b)
<1>1. M \in Nat /\ CpuBlocks = 0..(M - 1) /\ \A b \in CpuBlocks : b \in Nat
    BY PoolSizes DEF CpuBlocks, M
<1>2. ASSUME NEW a \in DOMAIN cmem, NEW i \in 1..n, a \in SlotRows(to[i])
      PROVE  new[a] = gmem[2 * from[i] * S + (a - 2 * to[i] * S)]
    <2>1. \A j \in DOMAIN to : a \in SlotRows(to[j]) <=> j = i
        <3>1. ASSUME NEW j \in 1..n, a \in SlotRows(to[j]) PROVE j = i
            <4>1. to[i] \in Nat /\ to[j] \in Nat
                BY <1>1
            <4>2. to[i] = to[j]
                BY <1>2, <3>1, <4>1, SlotsApart
            <4> QED BY <4>2
        <3> QED BY <1>2, <3>1
    <2>2. (CHOOSE j \in DOMAIN to : a \in SlotRows(to[j])) = i
        BY <2>1
    <2> QED BY <2>1, <2>2 DEF CopyOut
<1>3. ASSUME NEW a \in DOMAIN cmem, \A i \in 1..n : a \notin SlotRows(to[i])
      PROVE  new[a] = cmem[a]
    BY <1>3 DEF CopyOut
<1>4. ASSUME NEW i \in 1..n PROVE SlotOf(new, to[i]) = SlotOf(gmem, from[i])
    <2>1. ASSUME NEW k \in 0..(2 * S - 1)
          PROVE  new[2 * to[i] * S + k] = gmem[2 * from[i] * S + k]
        <3>1. to[i] \in 0..(M - 1)
            BY <1>1
        <3>2. /\ 2 * to[i] * S + k \in DOMAIN cmem /\ 2 * to[i] * S + k \in SlotRows(to[i])
              /\ (2 * to[i] * S + k) - 2 * to[i] * S = k
            BY <1>1, <3>1, SlotInside
        <3> DEFINE a == 2 * to[i] * S + k
        <3>3. a \in DOMAIN cmem /\ a \in SlotRows(to[i]) /\ a - 2 * to[i] * S = k
            BY ONLY <3>2, Zenon
        <3> HIDE DEF a
        <3>4. new[a] = gmem[2 * from[i] * S + (a - 2 * to[i] * S)]
            BY ONLY <1>2, <3>3
        <3>5. new[a] = gmem[2 * from[i] * S + k]
            BY ONLY <3>3, <3>4
        <3> QED BY <3>5 DEF a
    <2> QED BY ONLY <2>1 DEF SlotOf
<1>5. ASSUME NEW b \in CpuBlocks, \A i \in 1..n : b # to[i] PROVE SlotOf(new, b) = SlotOf(cmem, b)
    <2>1. ASSUME NEW k \in 0..(2 * S - 1) PROVE new[2 * b * S + k] = cmem[2 * b * S + k]
        <3>1. b \in 0..(M - 1)
            BY <1>1
        <3>2. 2 * b * S + k \in DOMAIN cmem /\ 2 * b * S + k \in SlotRows(b)
            BY <1>1, <3>1, SlotInside
        <3>3. ASSUME NEW i \in 1..n, 2 * b * S + k \in SlotRows(to[i]) PROVE FALSE
            <4>1. b \in Nat /\ to[i] \in Nat
                BY <1>1
            <4>2. b = to[i]
                BY <3>2, <3>3, <4>1, SlotsApart
            <4> QED BY <4>2, <1>5
        <3> QED BY <1>3, <3>2, <3>3, Zenon
    <2> QED BY ONLY <2>1 DEF SlotOf
<1> QED BY <1>4, <1>5

\* CPU blocks side by side have the offsets 0 to n - 1 from the first.
LEMMA OffsetsInside ==
    ASSUME NEW n \in Nat, n >= 1, NEW ids \in [1..n -> CpuBlocks],
           \A i, j \in 1..n : ids[i] = ids[j] => i = j,
           Max(ToSet(ids)) - Min(ToSet(ids)) + 1 = Cardinality(ToSet(ids))
    PROVE  /\ Min(ToSet(ids)) \in Int
           /\ \A i \in 1..n : ids[i] - Min(ToSet(ids)) \in 0..(n - 1)
<1> DEFINE T == ToSet(ids)
<1>1. M \in Nat /\ CpuBlocks = 0..(M - 1)
    BY PoolSizes DEF CpuBlocks, M
<1>2. ids[1] \in T /\ \A i \in 1..n : ids[i] \in T
    BY DEF ToSet
<1>3. T \in SUBSET CpuBlocks
    BY DEF ToSet
<1>4. Cardinality(T) = n
    <2>1. T = Range(ids)
        BY DEF ToSet, Range
    <2> HIDE DEF T
    <2> QED BY <2>1, RangeCardinality
<1> HIDE DEF T
<1>5. Min(T) \in T /\ \A y \in T : Min(T) <= y
    <2>1. T \in SUBSET Nat /\ T # {}
        BY <1>1, <1>2, <1>3
    <2>2. \E x \in T : \A y \in T : x <= y
        BY ONLY <2>1, LeastElement
    <2> QED BY <2>2 DEF Min
<1>6. Max(T) \in T /\ \A y \in T : Max(T) >= y
    <2> DEFINE U == {x \in 0..M : M - x \in T}
    <2>1. M - ids[1] \in U /\ U \in SUBSET Nat
        BY <1>1, <1>2, <1>3
    <2>2. PICK x \in U : \A y \in U : x <= y
        <3> HIDE DEF U
        <3> QED BY <2>1, LeastElement
    <2>3. M - x \in T /\ x \in 0..M
        BY <2>2
    <2>4. ASSUME NEW y \in T PROVE M - x >= y
        <3>1. y \in 0..(M - 1)
            BY <1>1, <1>3
        <3>2. M - y \in U
            BY <1>1, <3>1
        <3>3. x <= M - y
            BY <2>2, <3>2
        <3> QED BY <1>1, <2>3, <3>1, <3>3
    <2>5. \E z \in T : \A y \in T : z >= y
        BY <2>3, <2>4
    <2> QED BY <2>5 DEF Max
<1>7. Max(T) - Min(T) + 1 = n
    BY <1>4 DEF T
<1>8. Min(T) \in Int /\ Max(T) \in Int
    <2>1. \A x \in T : x \in Int
        BY <1>1, <1>3
    <2> QED BY <1>5, <1>6, <2>1, Zenon
<1>9. ASSUME NEW i \in 1..n PROVE ids[i] - Min(T) \in 0..(n - 1)
    <2>1. ids[i] \in Int /\ Min(T) <= ids[i] /\ ids[i] <= Max(T)
        BY <1>1, <1>2, <1>5, <1>6, <1>8
    <2> DEFINE x == ids[i]
               y == Min(T)
               z == Max(T)
    <2>2. x \in Int /\ y \in Int /\ z \in Int /\ y <= x /\ x <= z /\ z - y + 1 = n
        BY <1>7, <1>8, <2>1
    <2> HIDE DEF x, y, z
    <2>3. x - y \in 0..(n - 1)
        BY <2>2
    <2> QED BY <2>3 DEF x, y
<1> QED BY <1>8, <1>9 DEF T

\* swap_in of record rec into the blocks t: the n CPU blocks ids of the record are
\* distinct and lie side by side from start on, and t has n blocks, all distinct.
SwapsInto(n, rec, ids, start, t) ==
    /\ n \in Nat /\ DOMAIN rec.cpu_blocks = 1..n /\ Len(rec.cpu_blocks) = n
    /\ ids \in [1..n -> CpuBlocks] /\ CpuIds(rec) = ids
    /\ \A i, j \in 1..n : ids[i] = ids[j] => i = j
    /\ start \in Int /\ Min(ToSet(ids)) = start
    /\ \A i \in 1..n : ids[i] - start \in 0..(n - 1)
    /\ t \in [1..n -> GpuBlocks] /\ \A i, j \in 1..n : t[i] = t[j] => i = j

\* The staging copy and the scatter kernel: the CPU slots ids are in the GPU
\* slots t.
LEMMA CopiedBack ==
    ASSUME NEW n, NEW rec, NEW ids, NEW start, NEW t, SwapsInto(n, rec, ids, start, t),
           DOMAIN gmem = 0..(2 * TOTAL * S - 1),
           NEW dst, dst = DstByOffset(rec, t), NEW new, new = CopyIn(start, dst)
    PROVE  \A i \in 1..n : SlotOf(new, t[i]) = SlotOf(cmem, ids[i])
<1> USE DEF SwapsInto
<1>1. TOTAL \in Nat /\ S \in Nat /\ S >= 1 /\ GpuBlocks = 0..(TOTAL - 1)
    BY PoolSizes DEF GpuBlocks, TOTAL
<1>2. dst = [j \in 0..(n - 1) |->
                IF \E i \in 1..n : ids[i] - start = j
                THEN t[CHOOSE i \in 1..n : ids[i] - start = j]
                ELSE NoBlock]
    BY DEF DstByOffset
<1>3. DOMAIN dst = 0..(n - 1)
    BY <1>2
<1>4. \A i \in 1..n : ids[i] \in Int
    BY DEF CpuBlocks
<1>5. ASSUME NEW i \in 1..n PROVE dst[ids[i] - start] = t[i]
    <2> DEFINE j == ids[i] - start
    <2>1. j \in 0..(n - 1)
        OBVIOUS
    <2>2. ASSUME NEW k \in 1..n PROVE ids[k] - start = j <=> k = i
        <3>1. ids[k] = ids[i] <=> k = i
            OBVIOUS
        <3>2. ids[k] \in Int /\ ids[i] \in Int
            BY <1>4
        <3> QED BY ONLY <3>1, <3>2, start \in Int
    <2> HIDE DEF j
    <2>3. (CHOOSE k \in 1..n : ids[k] - start = j) = i
        BY <2>2
    <2>4. dst[j] = t[i]
        BY <1>2, <2>1, <2>2, <2>3
    <2> QED BY <2>4 DEF j
<1>6. ASSUME NEW j \in 0..(n - 1)
      PROVE  dst[j] = NoBlock \/ \E i \in 1..n : j = ids[i] - start /\ dst[j] = t[i]
    <2>1. CASE \E i \in 1..n : ids[i] - start = j
        BY <2>1, <1>5
    <2>2. CASE ~\E i \in 1..n : ids[i] - start = j
        BY <2>2, <1>2
    <2> QED BY <2>1, <2>2
<1>7. ASSUME NEW i \in 1..n, NEW a \in DOMAIN gmem, a \in SlotRows(t[i])
      PROVE  new[a] = cmem[2 * ids[i] * S + (a - 2 * t[i] * S)]
    <2> DEFINE j == ids[i] - start
    <2>1. j \in DOMAIN dst /\ dst[j] = t[i] /\ start + j = ids[i]
        BY <1>3, <1>4, <1>5
    <2>2. ASSUME NEW k \in DOMAIN dst, a \in SlotRows(dst[k]) PROVE k = j
        <3>1. dst[k] # NoBlock
            <4>1. ASSUME dst[k] = NoBlock PROVE FALSE
                <5>1. a \in SlotRows(-1)
                    BY <2>2, <4>1 DEF NoBlock
                <5>2. 2 * (-1) * S + 2 * S - 1 < 0
                    BY <1>1
                <5>3. a >= 0
                    BY <1>1
                <5> QED BY <5>1, <5>2, <5>3, <1>1 DEF SlotRows
            <4> QED BY <4>1
        <3>2. PICK m \in 1..n : k = ids[m] - start /\ dst[k] = t[m]
            BY <1>3, <1>6, <3>1
        <3>3. t[m] \in Nat /\ t[i] \in Nat
            BY <1>1
        <3>4. t[m] = t[i]
            BY <1>7, <2>2, <3>2, <3>3, SlotsApart
        <3>5. m = i
            BY <3>4
        <3> QED BY <3>2, <3>5
    <2> HIDE DEF j
    <2>3. (CHOOSE k \in DOMAIN dst : a \in SlotRows(dst[k])) = j
        BY <1>7, <2>1, <2>2
    <2>4. \E k \in DOMAIN dst : a \in SlotRows(dst[k])
        BY <1>7, <2>1
    <2>5. new[a] = cmem[2 * (start + j) * S + (a - 2 * dst[j] * S)]
        BY ONLY <2>3, <2>4, a \in DOMAIN gmem, new = CopyIn(start, dst) DEF CopyIn
    <2> QED BY ONLY <2>1, <2>5
<1>8. ASSUME NEW i \in 1..n PROVE SlotOf(new, t[i]) = SlotOf(cmem, ids[i])
    <2>1. ASSUME NEW k \in 0..(2 * S - 1)
          PROVE  new[2 * t[i] * S + k] = cmem[2 * ids[i] * S + k]
        <3>1. t[i] \in 0..(TOTAL - 1)
            BY <1>1
        <3>2. /\ 2 * t[i] * S + k \in DOMAIN gmem /\ 2 * t[i] * S + k \in SlotRows(t[i])
              /\ (2 * t[i] * S + k) - 2 * t[i] * S = k
            BY <1>1, <3>1, SlotInside
        <3> DEFINE a == 2 * t[i] * S + k
        <3>3. a \in DOMAIN gmem /\ a \in SlotRows(t[i]) /\ a - 2 * t[i] * S = k
            BY ONLY <3>2, Zenon
        <3> HIDE DEF a
        <3>4. new[a] = cmem[2 * ids[i] * S + (a - 2 * t[i] * S)]
            BY ONLY <1>7, <3>3, i \in 1..n
        <3>5. new[a] = cmem[2 * ids[i] * S + k]
            BY ONLY <3>3, <3>4
        <3> QED BY <3>5 DEF a
    <2> QED BY ONLY <2>1 DEF SlotOf
<1> QED BY <1>8

\* The tables swap_in builds have the blocks it took, in the order it took them.
LEMMA RestoredBlocksAre ==
    ASSUME NEW rec, NEW per \in Nat, rec.blocks_per_layer = per,
           NEW t \in [1..(per * K) -> GpuBlocks], RestoredKv(rec, t) \in Tables
    PROVE  /\ DOMAIN TableBlocks(RestoredKv(rec, t)) = 1..(per * K)
           /\ \A i \in 1..(per * K) : TableBlocks(RestoredKv(rec, t))[i] = t[i]
<1> DEFINE kv == RestoredKv(rec, t)
           D == Deal(EmptyKv, t, per)
<1>1. \A l \in Layers : /\ Len(D[l].blocks) = Len(EmptyKv[l].blocks) + per
                        /\ \A j \in 1..per : D[l].blocks[Len(EmptyKv[l].blocks) + j] = t[(l - 1) * per + j]
    <2>1. EmptyKv \in Tables
        BY EmptyTables
    <2> QED BY ONLY <2>1, per \in Nat, t \in [1..(per * K) -> GpuBlocks], DealOK, Zenon
<1>2. \A l \in Layers : kv[l].blocks = D[l].blocks
    BY DEF RestoredKv
<1> HIDE DEF kv, D
<1>3. \A l \in Layers : Len(EmptyKv[l].blocks) = 0
    BY EmptyTables
<1>4. ASSUME NEW l \in Layers
      PROVE  Len(kv[l].blocks) = per /\ \A j \in 1..per : kv[l].blocks[j] = t[(l - 1) * per + j]
    <2>1. Len(kv[l].blocks) = 0 + per /\ \A j \in 1..per : kv[l].blocks[0 + j] = t[(l - 1) * per + j]
        BY <1>1, <1>2, <1>3
    <2>2. 0 + per = per /\ \A j \in 1..per : 0 + j = j
        OBVIOUS
    <2> QED BY <2>1, <2>2
<1>5. kv \in Tables
    BY DEF kv
<1>6. /\ TableBlocks(kv) \in Seq(GpuBlocks) /\ Len(TableBlocks(kv)) = per * K
      /\ \A l \in Layers : \A j \in 1..per : TableBlocks(kv)[(l - 1) * per + j] = kv[l].blocks[j]
    BY <1>4, <1>5, TableBlocksAre
<1>7. ASSUME NEW i \in 1..(per * K) PROVE TableBlocks(kv)[i] = t[i]
    <2>1. PICK l \in Layers, j \in 1..per : i = (l - 1) * per + j
        BY SlicesCover
    <2> QED BY <1>4, <1>6, <2>1, Zenon
<1>8. DOMAIN TableBlocks(kv) = 1..(per * K)
    BY <1>6
<1> QED BY <1>7, <1>8 DEF kv
-----------------------------------------------------------------------------
(* The invariant. *)

LEMMA SavedKept ==
    ASSUME SavedInv, DOMAIN gmem' = DOMAIN gmem, UNCHANGED <<cmem, saved, swapped_requests>>
    PROVE  SavedInv'
BY DEF SavedInv

\* A swap_out adds a record, and what it copies there is what it saves.
LEMMA SwapOutSaves ==
    ASSUME IInv, SavedInv, NEW r \in Requests, MemSwapOut(r)
    PROVE  SavedInv'
<1> DEFINE kv == layer_kv[r]
           per == NumBlocks(kv)
           n == per * K
           t == Taken(cpu, n)
           rec == SwapRecord(kv, t)
           from == TableBlocks(kv)
           to == CpuIds(rec)
<1>1. /\ CanSwapOut(r) /\ \A l \in Layers : Len(kv[l].blocks) = per
      /\ swapped_requests' = [q \in DOMAIN swapped_requests \cup {r} |->
              IF q = r THEN rec ELSE swapped_requests[q]]
    BY DEF MemSwapOut, SwapOut, K
<1>2. kv \in Tables /\ per \in Nat
    BY ConstantTypes DEF IInv, RequestTypes, Tables, KvType, NumBlocks
<1>3. n \in Nat /\ CanAllocate(cpu, n)
    <2>1. n \in Nat
        <3> HIDE DEF per
        <3> QED BY <1>2, ConstantTypes
    <2>2. n <= cpu.count
        BY <1>1 DEF CanSwapOut, K
    <2> QED BY <2>1, <2>2 DEF CanAllocate
<1>4. r \notin DOMAIN swapped_requests
    BY <1>1 DEF CanSwapOut
<1> HIDE DEF n
<1>5. /\ t \in [1..n -> CpuBlocks]
      /\ \A i, j \in 1..n : t[i] = t[j] => i = j
      /\ \A q \in DOMAIN swapped_requests : \A j \in DOMAIN CpuIds(swapped_requests[q]) :
            \A i \in 1..n : CpuIds(swapped_requests[q])[j] # t[i]
    BY <1>3, TakenIsNew
<1>6. to = t
    <2>1. t \in [1..(NumBlocks(kv) * K) -> CpuBlocks]
        BY <1>5 DEF n
    <2> HIDE DEF t, kv
    <2> QED BY <1>2, <2>1, SwapRecordOK
<1> HIDE DEF rec
<1>7. DOMAIN from = 1..n
    <2>1. from \in Seq(GpuBlocks) /\ Len(from) = n
        <3> HIDE DEF per, kv, from
        <3> QED BY <1>1, <1>2, TableBlocksAre DEF from, n
    <2> HIDE DEF from
    <2> QED BY <2>1
<1>8. swapped_requests'[r] = rec
    BY <1>1
<1>9. /\ cmem' = CopyOut(from, to)
      /\ saved' = [q \in DOMAIN saved \cup {r} |->
              IF q = r THEN [i \in DOMAIN from |-> SlotOf(gmem, from[i])] ELSE saved[q]]
      /\ gmem' = gmem
    <2> HIDE DEF from, rec, kv
    <2> QED BY <1>8 DEF MemSwapOut, CopyOut, from, kv
<1> HIDE DEF to, from, t, kv
<1>10. DOMAIN cmem = 0..(2 * M * S - 1)
    BY DEF SavedInv
<1>11. /\ \A i \in 1..n : SlotOf(cmem', t[i]) = SlotOf(gmem, from[i])
       /\ \A b \in CpuBlocks : (\A i \in 1..n : b # t[i]) => SlotOf(cmem', b) = SlotOf(cmem, b)
    BY <1>3, <1>5, <1>6, <1>9, <1>10, CopiedOut
<1>12. ASSUME NEW q \in DOMAIN swapped_requests', NEW i \in DOMAIN CpuIds(swapped_requests'[q])
       PROVE  SlotOf(cmem', CpuIds(swapped_requests'[q])[i]) = saved'[q][i]
    <2>1. CASE q = r
        <3>1. CpuIds(swapped_requests'[q]) = t
            BY <1>6, <1>8, <2>1 DEF to
        <3>2. i \in 1..n
            BY <1>5, <1>12, <3>1
        <3>3. saved'[q] = [x \in DOMAIN from |-> SlotOf(gmem, from[x])]
            BY <1>9, <2>1
        <3>4. saved'[q][i] = SlotOf(gmem, from[i])
            BY <1>7, <3>2, <3>3
        <3> QED BY <1>11, <3>1, <3>2, <3>4
    <2>2. CASE q # r
        <3>1. q \in DOMAIN swapped_requests /\ swapped_requests'[q] = swapped_requests[q]
            BY <1>1, <1>12, <2>2
        <3>2. q \in DOMAIN saved
            BY <3>1 DEF SavedInv
        <3>3. saved'[q] = saved[q]
            BY <1>9, <2>2, <3>2
        <3> DEFINE b == CpuIds(swapped_requests[q])[i]
        <3>4. i \in DOMAIN CpuIds(swapped_requests[q])
            BY <1>12, <3>1
        <3>5. b \in CpuBlocks
            BY <3>1, <3>4, RecordBlocks
        <3>6. \A x \in 1..n : b # t[x]
            BY <1>5, <3>1, <3>4
        <3>7. SlotOf(cmem', b) = SlotOf(cmem, b)
            BY <1>11, <3>5, <3>6
        <3>8. SlotOf(cmem, b) = saved[q][i]
            BY <3>1, <3>4 DEF SavedInv
        <3> QED BY <3>1, <3>3, <3>7, <3>8
    <2> QED BY <2>1, <2>2
<1>13. DOMAIN swapped_requests' \subseteq DOMAIN saved'
    <2>1. DOMAIN swapped_requests' = DOMAIN swapped_requests \cup {r}
        BY <1>1
    <2>2. DOMAIN saved' = DOMAIN saved \cup {r}
        BY <1>9
    <2> QED BY <2>1, <2>2 DEF SavedInv
<1>14. DOMAIN gmem' = 0..(2 * TOTAL * S - 1) /\ DOMAIN cmem' = 0..(2 * M * S - 1)
    <2>1. DOMAIN cmem' = DOMAIN cmem
        BY <1>9 DEF CopyOut
    <2> QED BY <1>9, <1>10, <2>1, Zenon DEF SavedInv
<1> QED BY <1>12, <1>13, <1>14 DEF SavedInv

\* A swap_in removes a record and leaves the CPU pool alone.
LEMMA SwapInKeepsSaved ==
    ASSUME IInv, SavedInv, NEW r \in Requests, MemSwapIn(r)
    PROVE  SavedInv'
<1>1. /\ swapped_requests' = [q \in DOMAIN swapped_requests \ {r} |-> swapped_requests[q]]
      /\ saved' = [q \in DOMAIN saved \ {r} |-> saved[q]]
      /\ cmem' = cmem /\ DOMAIN gmem' = DOMAIN gmem
    BY DEF MemSwapIn, SwapIn
<1>2. DOMAIN swapped_requests' = DOMAIN swapped_requests \ {r} /\ DOMAIN saved' = DOMAIN saved \ {r}
    BY <1>1
<1>3. ASSUME NEW q \in DOMAIN swapped_requests'
      PROVE  /\ q \in DOMAIN swapped_requests /\ q \in DOMAIN saved'
             /\ swapped_requests'[q] = swapped_requests[q] /\ saved'[q] = saved[q]
    BY <1>1, <1>2, <1>3 DEF SavedInv
<1>4. ASSUME NEW q \in DOMAIN swapped_requests', NEW i \in DOMAIN CpuIds(swapped_requests'[q])
      PROVE  SlotOf(cmem', CpuIds(swapped_requests'[q])[i]) = saved'[q][i]
    <2>1. i \in DOMAIN CpuIds(swapped_requests[q])
        BY <1>3, <1>4
    <2> QED BY <1>1, <1>3, <2>1 DEF SavedInv
<1>5. DOMAIN gmem' = 0..(2 * TOTAL * S - 1) /\ DOMAIN cmem' = 0..(2 * M * S - 1)
    BY <1>1 DEF SavedInv
<1> QED BY <1>3, <1>4, <1>5 DEF SavedInv

\* A swap_in of blocks that lie side by side restores what was saved.
LEMMA SwapInRestores ==
    ASSUME IInv, SavedInv, NEW r \in Requests, MemSwapIn(r), CpuBlocksContiguous(r),
           NEW to, to = TableBlocks(layer_kv'[r])
    PROVE  \A i \in DOMAIN to : SlotOf(gmem', to[i]) = saved[r][i]
<1> DEFINE rec == swapped_requests[r]
           per == rec.blocks_per_layer
           n == Len(rec.cpu_blocks)
           t == Taken(gpu, n)
           ids == CpuIds(rec)
           start == Min(ToSet(ids))
           dst == DstByOffset(rec, t)
<1>1. /\ CanSwapIn(r) /\ r \in DOMAIN swapped_requests
      /\ n = per * K
      /\ layer_kv' = [layer_kv EXCEPT ![r] = RestoredKv(rec, Taken(gpu, per * K))]
      /\ gmem' = CopyIn(start, dst)
      /\ per * K > 0
    BY DEF MemSwapIn, SwapIn, CanSwapIn, CopyIn, K
<1>2. rec \in RecordType /\ per \in Nat /\ CanAllocate(gpu, n)
    BY <1>1, SwapInTakes
<1>3. layer_kv \in [Requests -> Tables] /\ layer_kv' \in [Requests -> Tables]
    <2>1. IInv'
        BY SwapInKeeps DEF MemSwapIn
    <2> QED BY <2>1 DEF IInv, RequestTypes
<1>4. layer_kv'[r] = RestoredKv(rec, t)
    BY <1>1, <1>3
<1>5. /\ n \in Nat /\ ids \in [1..n -> CpuBlocks] /\ DOMAIN rec.cpu_blocks = 1..n
      /\ \A i, j \in 1..n : ids[i] = ids[j] => i = j
    BY <1>1, RecordBlocks
<1>6. n >= 1
    <2> HIDE DEF n, per
    <2> QED BY <1>1, <1>5
<1>7. t \in [1..n -> GpuBlocks] /\ \A i, j \in 1..n : t[i] = t[j] => i = j
    <2>1. gpu \in PoolType(TOTAL) /\ FreeListOK(gpu) /\ TOTAL \in Nat /\ GpuBlocks = 0..(TOTAL - 1)
        BY PoolsTyped, PoolSizes DEF TOTAL, GpuBlocks
    <2> HIDE DEF n
    <2> QED BY <1>2, <1>5, <2>1, TakenDistinct
<1>8. start \in Int /\ \A i \in 1..n : ids[i] - start \in 0..(n - 1)
    <2>1. CpuOwned(r) = ToSet(ids)
        BY <1>1 DEF CpuOwned, Range, ToSet
    <2>2. Max(ToSet(ids)) - Min(ToSet(ids)) + 1 = Cardinality(ToSet(ids))
        BY <2>1, Zenon DEF CpuBlocksContiguous
    <2> HIDE DEF ids, n
    <2> QED BY <1>5, <1>6, <2>2, OffsetsInside
<1>9. DOMAIN gmem = 0..(2 * TOTAL * S - 1)
    BY DEF SavedInv
<1>10. \A i \in 1..n : SlotOf(gmem', t[i]) = SlotOf(cmem, ids[i])
    <2> DEFINE new == gmem'
    <2>1. new = CopyIn(start, dst) /\ CpuIds(rec) = ids /\ Min(ToSet(ids)) = start
          /\ dst = DstByOffset(rec, t) /\ Len(rec.cpu_blocks) = n
        BY <1>1
    <2> HIDE DEF ids, n, t, start, dst, rec, new
    <2>2. SwapsInto(n, rec, ids, start, t)
        BY <1>5, <1>7, <1>8, <2>1 DEF SwapsInto
    <2>3. \A i \in 1..n : SlotOf(new, t[i]) = SlotOf(cmem, ids[i])
        BY <1>9, <2>1, <2>2, CopiedBack
    <2> QED BY <2>3 DEF new
<1>11. DOMAIN to = 1..n /\ \A i \in 1..n : to[i] = t[i]
    <2>1. RestoredKv(rec, t) \in Tables
        BY <1>3, <1>4
    <2>2. t \in [1..(per * K) -> GpuBlocks]
        BY <1>1, <1>7
    <2> HIDE DEF t
    <2>3. /\ DOMAIN TableBlocks(RestoredKv(rec, t)) = 1..(per * K)
          /\ \A i \in 1..(per * K) : TableBlocks(RestoredKv(rec, t))[i] = t[i]
        <3> HIDE DEF rec
        <3>1. rec.blocks_per_layer = per
            BY DEF rec
        <3> HIDE DEF per
        <3> QED BY <1>2, <2>1, <2>2, <3>1, RestoredBlocksAre
    <2> QED BY <1>1, <1>4, <2>3
<1>12. \A i \in 1..n : SlotOf(cmem, ids[i]) = saved[r][i]
    BY <1>1, <1>5 DEF SavedInv
<1> HIDE DEF t, ids, n
<1> QED BY <1>10, <1>11, <1>12

LEMMA MemInitEstablishes == MemInit => MemInv
<1> SUFFICES ASSUME MemInit PROVE MemInv
    OBVIOUS
<1>1. IInv
    BY InitEstablishes DEF MemInit
<1>2. DOMAIN gmem = 0..(2 * TOTAL * S - 1)
    BY DEF MemInit, EmptyPool, TOTAL, S
<1>3. DOMAIN cmem = 0..(2 * M * S - 1)
    BY DEF MemInit, M
<1>4. DOMAIN swapped_requests = {}
    BY DEF MemInit, Init
<1> QED BY <1>1, <1>2, <1>3, <1>4 DEF MemInv, SavedInv

LEMMA MemNextKeeps == MemInv /\ [MemNext]_<<vars, mem>> => MemInv'
<1> SUFFICES ASSUME MemInv, [MemNext]_<<vars, mem>> PROVE MemInv'
    OBVIOUS
<1> USE DEF MemInv
<1>1. CASE UNCHANGED <<vars, mem>>
    <2>1. IInv'
        BY <1>1, NextKeeps
    <2> QED BY <1>1, <2>1, SavedKept DEF vars, mem
<1>2. CASE CallPrefill \/ CallDecode
    <2>1. PICK batch, end : Answered(batch, end)
        BY <1>2 DEF CallPrefill, CallDecode
    <2>2. UNCHANGED vars /\ DOMAIN gmem' = DOMAIN gmem /\ UNCHANGED <<cmem, saved>>
        BY <2>1 DEF Answered
    <2>3. IInv'
        BY <2>2, NextKeeps
    <2> QED BY <2>2, <2>3, SavedKept DEF vars
<1>3. CASE \E r \in Requests : MemAllocate(r) \/ MemFreeRequest(r) \/ MemRun(r)
    <2>1. PICK r \in Requests : MemAllocate(r) \/ MemFreeRequest(r) \/ MemRun(r)
        BY <1>3
    <2>2. \/ AllocatePrefill(r) \/ AllocateDecode(r) \/ FreeRequest(r)
          \/ RunPrefill(r) \/ RunDecode(r)
        BY <2>1 DEF MemAllocate, MemFreeRequest, MemRun
    <2>3. IInv'
        BY <2>2, NextKeeps DEF Next
    <2>4. UNCHANGED <<gmem, cmem, saved>>
        BY <2>1 DEF MemAllocate, MemFreeRequest, MemRun, mem
    <2>5. swapped_requests' = swapped_requests
        BY <2>2 DEF AllocatePrefill, AllocateDecode, TakeBlocks, FreeRequest, RunPrefill, RunDecode
    <2> QED BY <2>3, <2>4, <2>5, SavedKept
<1>4. CASE \E r \in Requests : MemSwapOut(r)
    <2>1. PICK r \in Requests : MemSwapOut(r)
        BY <1>4
    <2>2. IInv'
        BY <2>1, SwapOutKeeps DEF MemSwapOut
    <2> QED BY <2>1, <2>2, SwapOutSaves
<1>5. CASE \E r \in Requests : MemSwapIn(r)
    <2>1. PICK r \in Requests : MemSwapIn(r)
        BY <1>5
    <2>2. IInv'
        BY <2>1, SwapInKeeps DEF MemSwapIn
    <2> QED BY <2>1, <2>2, SwapInKeepsSaved
<1> QED BY <1>1, <1>2, <1>3, <1>4, <1>5 DEF MemNext

\* Only swap_in makes a swapped request ready.
LEMMA ReadyBySwapIn ==
    ASSUME IInv, [MemNext]_<<vars, mem>>, NEW r \in Requests,
           stage[r] = "swapped", stage'[r] = "ready"
    PROVE  MemSwapIn(r)
<1>1. stage \in [Requests -> {"new", "admitted", "ran", "ready", "granted", "swapped", "done"}]
    BY DEF IInv, RequestTypes
<1>2. stage' # stage
    OBVIOUS
<1>3. ~CallPrefill /\ ~CallDecode /\ ~UNCHANGED <<vars, mem>>
    BY <1>2 DEF CallPrefill, CallDecode, Answered, vars
<1>4. PICK q \in Requests : MemAllocate(q) \/ MemFreeRequest(q) \/ MemRun(q) \/ MemSwapOut(q) \/ MemSwapIn(q)
    BY <1>3 DEF MemNext
<1>5. ASSUME NEW next, next # "ready", stage' = [stage EXCEPT ![q] = next] PROVE FALSE
    BY <1>1, <1>5
<1>6. CASE MemAllocate(q)
    BY <1>2, <1>5, <1>6 DEF MemAllocate, AllocatePrefill, AllocateDecode, TakeBlocks
<1>7. CASE MemFreeRequest(q)
    BY <1>5, <1>7 DEF MemFreeRequest, FreeRequest
<1>8. CASE MemRun(q)
    BY <1>5, <1>8 DEF MemRun, RunPrefill, RunDecode
<1>9. CASE MemSwapOut(q)
    BY <1>5, <1>9 DEF MemSwapOut, SwapOut
<1>10. CASE MemSwapIn(q)
    <2>1. stage' = [stage EXCEPT ![q] = "ready"]
        BY <1>10 DEF MemSwapIn, SwapIn
    <2>2. q = r
        BY <1>1, <2>1
    <2> QED BY <1>10, <2>2
<1> QED BY <1>4, <1>6, <1>7, <1>8, <1>9, <1>10

\* What swap_out saved of a request is in the slots its tables name when
\* swap_in has brought it back, as long as the CPU blocks lay side by side,
\* whatever was admitted, run, freed and swapped in between.
THEOREM SwapAlwaysRestoresSlots == MemSpec => SwapRestoresSlots
<1>1. MemInit => MemInv
    BY MemInitEstablishes
<1>2. MemInv /\ [MemNext]_<<vars, mem>> => MemInv'
    BY MemNextKeeps
<1>3. MemInv /\ [MemNext]_<<vars, mem>> =>
          [\A r \in Requests :
              (stage[r] = "swapped" /\ stage'[r] = "ready" /\ CpuBlocksContiguous(r)) =>
              LET to == TableBlocks(layer_kv'[r])
              IN  \A i \in DOMAIN to : SlotOf(gmem', to[i]) = saved[r][i]]_<<vars, mem>>
    <2> SUFFICES ASSUME MemInv, [MemNext]_<<vars, mem>>, NEW r \in Requests,
                        stage[r] = "swapped", stage'[r] = "ready", CpuBlocksContiguous(r),
                        NEW to, to = TableBlocks(layer_kv'[r])
                 PROVE  \A i \in DOMAIN to : SlotOf(gmem', to[i]) = saved[r][i]
        OBVIOUS
    <2>1. MemSwapIn(r)
        BY ReadyBySwapIn DEF MemInv
    <2> QED BY <2>1, SwapInRestores DEF MemInv
<1> QED BY <1>1, <1>2, <1>3, PTL DEF MemSpec, SwapRestoresSlots

-----------------------------------------------------------------------------
(* Calls of the model between the allocator's operations: what the cache of *)
(* each request holds, as long as nothing was swapped in.                    *)

\* How many tokens of r the cache holds.  Those of a call are there before the
\* scheduler has gone through its answers.
InCache(r) ==
    IF r \in DOMAIN answer THEN Len(Tokens(r))
    ELSE IF stage[r] \in {"ran", "ready", "granted"} THEN Cached(r) ELSE 0

\* Without a swap-in: each request finds its keys and values, and answers are right.
CachesOK ==
    /\ \A r \in Requests, l \in Layers : CacheHas(gmem, Tokens(r), layer_kv[r], l, InCache(r))
    /\ \A r \in DOMAIN answer : answer[r] = FullLogits(Tokens(r))

CallsOK ==
    /\ FInv
    /\ IsPool(gmem) /\ swaps \in Nat
    /\ \A r \in Requests : stage[r] \in {"new", "admitted"} => generated[r] = 0
    /\ DOMAIN answer \subseteq {r \in Requests : stage[r] \in {"admitted", "granted"}}

KvInv == CallsOK /\ (swaps = 0 => CachesOK)

LEMMA TextOf ==
    ASSUME FInv, NEW r \in Requests
    PROVE  /\ Len(Tokens(r)) = prompts_len[r] + generated[r]
           /\ Len(Tokens(r)) \in Nat \ {0} /\ DOMAIN Tokens(r) = 1..Len(Tokens(r))
           /\ \A i \in 1..Len(Tokens(r)) : Tokens(r)[i] = <<r, i>>
<1> DEFINE n == prompts_len[r] + generated[r]
<1>1. n \in Nat \ {0}
    BY CachedType
<1>2. Tokens(r) = [i \in 1..n |-> <<r, i>>]
    BY DEF Tokens
<1> HIDE DEF n
<1>3. Len(Tokens(r)) = n
    BY <1>1, <1>2
<1> QED BY <1>1, <1>2, <1>3 DEF n

\* The tables have room for what is in the cache, and for the whole text before a
\* call of the model.
LEMMA HasRoom ==
    ASSUME CallsOK, NEW r \in Requests, NEW l \in Layers
    PROVE  /\ Len(layer_kv[r][l].blocks) * S \in Nat
           /\ InCache(r) \in Nat /\ InCache(r) <= Len(Tokens(r))
           /\ InCache(r) <= Len(layer_kv[r][l].blocks) * S
           /\ stage[r] \in {"admitted", "granted"} => Len(Tokens(r)) <= Len(layer_kv[r][l].blocks) * S
           /\ stage[r] = "granted" => layer_kv[r][l].tokens = Len(Tokens(r)) - 1
<1> DEFINE blocks == Len(layer_kv[r][l].blocks)
           len == Len(Tokens(r))
<1>1. FInv /\ FitOK(r)
    BY DEF CallsOK, FInv
<1>2. /\ prompts_len[r] \in Nat /\ prompts_len[r] >= 1 /\ generated[r] \in Nat
      /\ (generated[r] >= 1 => Cached(r) \in Nat /\ Cached(r) >= 1)
      /\ blocks \in Nat /\ Cached(r) = prompts_len[r] + generated[r] - 1
    BY <1>1, CachedType DEF Cached
<1>3. len = prompts_len[r] + generated[r] /\ len \in Nat /\ len >= 1
    BY <1>1, TextOf
<1>4. S \in Nat /\ S >= 1 /\ DEFAULT_KV_BLOCK_SIZE = S
    BY PoolSizes DEF S
<1>5. stage[r] = "admitted" => generated[r] = 0 /\ blocks = CeilDiv(len, S)
    <2>1. stage[r] = "admitted" => generated[r] = 0
        BY DEF CallsOK
    <2> QED BY <1>1, <1>2, <1>3, <2>1 DEF FitOK, TokensToHold, S
<1>6. stage[r] = "granted" =>
         /\ generated[r] >= 1 /\ layer_kv[r][l].tokens = Cached(r)
         /\ blocks = CeilDiv(len, S)
    <2> SUFFICES ASSUME stage[r] = "granted"
                 PROVE  /\ generated[r] >= 1 /\ layer_kv[r][l].tokens = Cached(r)
                        /\ blocks = CeilDiv(len, S)
        OBVIOUS
    <2>1. generated[r] >= 1 /\ layer_kv[r][1].tokens = Cached(r) /\ layer_kv[r][l].tokens = Cached(r)
        BY <1>1 DEF FitOK
    <2>2. TokensToHold(r) = Cached(r) + 1
        BY <2>1 DEF TokensToHold
    <2>3. Cached(r) + 1 = len
        BY <1>2, <1>3
    <2> QED BY <1>1, <2>1, <2>2, <2>3 DEF FitOK, S
<1>7. stage[r] \in {"ran", "ready"} => generated[r] >= 1 /\ blocks = CeilDiv(Cached(r), S)
    BY <1>1 DEF FitOK, TokensToHold, S
<1>8. r \in DOMAIN answer => stage[r] \in {"admitted", "granted"}
    BY DEF CallsOK
<1> HIDE DEF len, blocks
<1>9. blocks * S \in Nat
    BY <1>2, <1>4
<1>10. stage[r] \in {"admitted", "granted"} => len <= blocks * S
    BY <1>3, <1>4, <1>5, <1>6, CeilDivIs
<1>11. stage[r] \in {"ran", "ready"} => Cached(r) \in Nat /\ Cached(r) <= blocks * S
    BY <1>2, <1>4, <1>7, CeilDivIs
<1>12. stage[r] \in {"ran", "ready", "granted"} => Cached(r) \in Nat /\ Cached(r) < len
    BY <1>2, <1>3, <1>6, <1>7
<1>13. InCache(r) = IF r \in DOMAIN answer THEN len
                    ELSE IF stage[r] \in {"ran", "ready", "granted"} THEN Cached(r) ELSE 0
    BY DEF InCache, len
<1>14. InCache(r) \in Nat /\ InCache(r) <= len
    BY <1>3, <1>12, <1>13
<1>15. InCache(r) <= blocks * S
    <2>1. CASE stage[r] \in {"admitted", "granted"}
        BY <1>9, <1>10, <1>14, <1>3, <2>1
    <2>2. CASE stage[r] \in {"ran", "ready"}
        BY <1>8, <1>11, <1>13, <2>2
    <2>3. CASE stage[r] \notin {"admitted", "granted", "ran", "ready"}
        BY <1>8, <1>9, <1>13, <2>3
    <2> QED BY <2>1, <2>2, <2>3
<1>16. stage[r] = "granted" => layer_kv[r][l].tokens = len - 1
    BY <1>2, <1>3, <1>6
<1> QED BY <1>9, <1>10, <1>14, <1>15, <1>16 DEF len, blocks

\* What the tables of a request name.
LEMMA TokenInTables ==
    ASSUME IInv, NEW r \in Requests, NEW l \in Layers, NEW t \in Nat \ {0},
           t <= Len(layer_kv[r][l].blocks) * S
    PROVE  /\ (t - 1) \div S + 1 \in 1..Len(layer_kv[r][l].blocks)
           /\ BlockOf(layer_kv[r], l, t) \in GpuBlocks /\ OffsetOf(t) \in 0..(S - 1)
<1> DEFINE c == Len(layer_kv[r][l].blocks)
<1>1. layer_kv[r][l].blocks \in Seq(GpuBlocks)
    BY DEF IInv, RequestTypes, Tables, KvType
<1>2. c \in Nat /\ S \in Nat
    BY <1>1, PoolSizes
<1> HIDE DEF c
<1>3. t - 1 \in 0..(c * S - 1)
    <2>1. c * S \in Nat
        BY <1>2
    <2> QED BY <2>1 DEF c
<1>4. (t - 1) \div S + 1 \in 1..c /\ (t - 1) % S \in 0..(S - 1)
    BY <1>2, <1>3, PlaceIs
<1> QED BY <1>1, <1>4 DEF BlockOf, OffsetOf, c

\* Calls other than those of the model leave the tokens of q where they are, and
\* its answer.
StaysFor(q) ==
    /\ prompts_len'[q] = prompts_len[q] /\ generated'[q] >= generated[q]
    /\ InCache(q)' \in {0, InCache(q)}
    /\ InCache(q)' # 0 => \A l \in Layers : \A j \in 1..Len(layer_kv[q][l].blocks) :
          layer_kv'[q][l].blocks[j] = layer_kv[q][l].blocks[j]
    /\ q \in DOMAIN answer' =>
          q \in DOMAIN answer /\ answer'[q] = answer[q] /\ generated'[q] = generated[q]

LEMMA TextGrows ==
    ASSUME FInv, NEW q \in Requests, prompts_len'[q] = prompts_len[q],
           generated'[q] \in Nat, generated'[q] >= generated[q],
           NEW c \in Nat, c <= Len(Tokens(q))
    PROVE  BeginAlike(Tokens(q), Tokens(q)', c)
<1> DEFINE n == prompts_len[q] + generated[q]
           n2 == prompts_len[q] + generated'[q]
<1>1. n \in Nat /\ n2 \in Nat /\ n <= n2
    BY CachedType
<1>2. Tokens(q) = [i \in 1..n |-> <<q, i>>] /\ Tokens(q)' = [i \in 1..n2 |-> <<q, i>>]
    BY DEF Tokens
<1> HIDE DEF n, n2
<1>3. c <= n /\ c <= n2
    <2>1. Len(Tokens(q)) = n
        BY <1>1, <1>2
    <2> QED BY <1>1, <2>1
<1>4. \A t \in 1..c : Tokens(q)'[t] = Tokens(q)[t]
    BY <1>1, <1>2, <1>3
<1>5. DOMAIN Tokens(q) = 1..n /\ DOMAIN Tokens(q)' = 1..n2
    BY <1>2
<1> QED BY <1>1, <1>3, <1>4, <1>5 DEF BeginAlike

LEMMA StaysOK ==
    ASSUME CallsOK, CachesOK, FInv', gmem' = gmem,
           DOMAIN answer \subseteq Requests, DOMAIN answer' \subseteq Requests,
           \A q \in Requests : StaysFor(q)
    PROVE  CachesOK'
<1>0. FInv /\ IInv
    BY DEF CallsOK, FInv
<1>1. ASSUME NEW r \in Requests, NEW l \in Layers
      PROVE  CacheHas(gmem', Tokens(r)', layer_kv'[r], l, InCache(r)')
    <2>1. StaysFor(r)
        OBVIOUS
    <2>2. CASE InCache(r)' = 0
        BY <2>2 DEF CacheHas
    <2>3. CASE InCache(r)' # 0
        <3> DEFINE c == InCache(r)
        <3>1. /\ InCache(r)' = c
              /\ \A j \in 1..Len(layer_kv[r][l].blocks) :
                    layer_kv'[r][l].blocks[j] = layer_kv[r][l].blocks[j]
            BY <2>1, <2>3 DEF StaysFor
        <3>2. c \in Nat /\ c <= Len(Tokens(r)) /\ c <= Len(layer_kv[r][l].blocks) * S
              /\ Len(layer_kv[r][l].blocks) * S \in Nat
            BY HasRoom
        <3>3. BeginAlike(Tokens(r), Tokens(r)', c)
            <4>1. generated'[r] \in Nat
                <5>1. generated' \in [Requests -> 0..MAX_NEW_TOKENS]
                    BY DEF FInv, IInv, RequestTypes
                <5> QED BY <5>1, ConstantTypes
            <4>2. prompts_len'[r] = prompts_len[r] /\ generated'[r] >= generated[r]
                BY <2>1 DEF StaysFor
            <4> HIDE DEF c
            <4> QED BY <1>0, <3>2, <4>1, <4>2, TextGrows
        <3>4. CacheHas(gmem, Tokens(r), layer_kv[r], l, c)
            BY DEF CachesOK
        <3> HIDE DEF c
        <3>5. ASSUME NEW t \in 1..c
              PROVE  At(gmem', layer_kv'[r], l, t) = Entry(l, FullHidden(Tokens(r)', l - 1)[t])
            <4>1. At(gmem', layer_kv'[r], l, t) = At(gmem, layer_kv[r], l, t)
                <5>1. t \in Nat \ {0} /\ t <= Len(layer_kv[r][l].blocks) * S
                    BY <3>2
                <5>2. (t - 1) \div S + 1 \in 1..Len(layer_kv[r][l].blocks)
                    BY <1>0, <5>1, TokenInTables
                <5>3. BlockOf(layer_kv'[r], l, t) = BlockOf(layer_kv[r], l, t)
                    BY <3>1, <5>2 DEF BlockOf
                <5> QED BY <5>3 DEF At
            <4>2. FullHidden(Tokens(r)', l - 1)[t] = FullHidden(Tokens(r), l - 1)[t]
                <5>1. l - 1 \in Nat
                    BY DEF Layers
                <5> QED BY <3>3, <5>1, HiddenOfStart
            <4> QED BY <3>4, <4>1, <4>2 DEF CacheHas
        <3> QED BY <3>1, <3>5 DEF CacheHas
    <2> QED BY <2>2, <2>3
<1>2. ASSUME NEW r \in DOMAIN answer' PROVE answer'[r] = FullLogits(Tokens(r)')
    <2>1. r \in Requests /\ StaysFor(r)
        OBVIOUS
    <2>2. r \in DOMAIN answer /\ answer'[r] = answer[r]
          /\ prompts_len'[r] = prompts_len[r] /\ generated'[r] = generated[r]
        BY <2>1 DEF StaysFor
    <2>3. Tokens(r)' = Tokens(r)
        BY <2>2 DEF Tokens
    <2> QED BY <2>2, <2>3 DEF CachesOK
<1> QED BY <1>1, <1>2 DEF CachesOK

LEMMA RequestVars ==
    ASSUME FInv
    PROVE  /\ stage \in [Requests -> {"new", "admitted", "ran", "ready", "granted", "swapped", "done"}]
           /\ layer_kv \in [Requests -> Tables] /\ generated \in [Requests -> 0..MAX_NEW_TOKENS]
           /\ 0..MAX_NEW_TOKENS \subseteq Nat /\ IInv
BY ConstantTypes DEF FInv, IInv, RequestTypes

\* Nothing changes for a request a step is not about.
LEMMA OthersStay ==
    ASSUME CallsOK, NEW q \in Requests,
           prompts_len' = prompts_len, layer_kv'[q] = layer_kv[q], stage'[q] = stage[q],
           generated'[q] = generated[q],
           q \in DOMAIN answer' <=> q \in DOMAIN answer,
           q \in DOMAIN answer => answer'[q] = answer[q]
    PROVE  StaysFor(q)
<1>1. generated[q] \in Nat
    BY RequestVars DEF CallsOK
<1>2. Tokens(q)' = Tokens(q) /\ Cached(q)' = Cached(q)
    BY DEF Tokens, Cached
<1>3. InCache(q)' = InCache(q)
    BY <1>2 DEF InCache
<1> QED BY <1>1, <1>3 DEF StaysFor

LEMMA MemAllocateStays ==
    ASSUME CallsOK, NEW r \in Requests, MemAllocate(r)
    PROVE  CallsOK' /\ \A q \in Requests : StaysFor(q)
<1>1. FInv /\ IInv
    BY DEF CallsOK, FInv
<1>2. /\ answer = <<>> /\ UNCHANGED mem /\ (AllocatePrefill(r) \/ AllocateDecode(r))
    BY DEF MemAllocate, NoAnswers
<1>3. FInv'
    BY <1>1, <1>2, NextFits DEF Next
<1>4. PICK need \in Nat, next \in {"admitted", "granted"} :
         /\ TakeBlocks(r, need, next)
         /\ next = "admitted" => stage[r] = "new"
         /\ next = "granted" => stage[r] \in {"ran", "ready"}
    <2>1. CASE AllocatePrefill(r)
        <3>1. CeilDiv(prompts_len[r], DEFAULT_KV_BLOCK_SIZE) \in Nat
            BY <1>1, CachedType, ConstantTypes, CeilDivIs
        <3> QED BY <2>1, <3>1 DEF AllocatePrefill
    <2>2. CASE AllocateDecode(r)
        BY <2>2 DEF AllocateDecode, DecodeNeed, Unfinished
    <2> QED BY <1>2, <2>1, <2>2
<1> DEFINE t == Taken(gpu, need * K)
<1>5. /\ CanAllocate(gpu, need * K)
      /\ layer_kv' = [layer_kv EXCEPT ![r] = Deal(layer_kv[r], t, need)]
      /\ stage' = [stage EXCEPT ![r] = next]
      /\ UNCHANGED <<prompts_len, generated>>
    BY <1>1, <1>4, TakeBlocksEffect
<1>6. /\ layer_kv'[r] = Deal(layer_kv[r], t, need) /\ stage'[r] = next
      /\ \A q \in Requests : q # r => layer_kv'[q] = layer_kv[q] /\ stage'[q] = stage[q]
    BY <1>1, <1>5, RequestVars
<1>7. \A l \in Layers : \A j \in 1..Len(layer_kv[r][l].blocks) :
         layer_kv'[r][l].blocks[j] = layer_kv[r][l].blocks[j]
    <2>1. layer_kv[r] \in Tables
        BY <1>1, RequestVars
    <2>2. t \in [1..(need * K) -> GpuBlocks]
        <3> DEFINE n == need * K
        <3>1. n \in Nat /\ DEFAULT_TOTAL_KV_BLOCKS \in Nat /\ CanAllocate(gpu, n)
            BY <1>5, ConstantTypes
        <3> HIDE DEF n
        <3>2. Taken(gpu, n) \in [1..n -> GpuBlocks]
            BY <1>1, <3>1, PoolsTyped, TakenDistinct DEF GpuBlocks
        <3> QED BY <3>2 DEF n
    <2> DEFINE old == layer_kv[r]
    <2> HIDE DEF t, old
    <2>3. \A l \in Layers : \A j \in 1..Len(old[l].blocks) :
             Deal(old, t, need)[l].blocks[j] = old[l].blocks[j]
        <3>1. old \in Tables
            BY <2>1 DEF old
        <3> QED BY <2>2, <3>1, DealOK
    <2> QED BY <1>6, <2>3 DEF old
<1> HIDE DEF t
<1>8. DOMAIN answer = {} /\ answer' = answer /\ gmem' = gmem /\ swaps' = swaps
    BY <1>2 DEF mem
<1>9. CallsOK'
    <2>1. \A q \in Requests : stage'[q] \in {"new", "admitted"} => generated'[q] = 0
        BY <1>4, <1>5, <1>6 DEF CallsOK
    <2> QED BY <1>3, <1>8, <2>1 DEF CallsOK, IsPool
<1>10. StaysFor(r)
    <2>1. generated[r] \in Nat
        BY <1>1, RequestVars
    <2>2. Cached(r)' = Cached(r)
        BY <1>5 DEF Cached
    <2>3. InCache(r)' \in {0, InCache(r)}
        BY <1>4, <1>6, <1>8, <2>2 DEF InCache
    <2> QED BY <1>5, <1>7, <1>8, <2>1, <2>3 DEF StaysFor
<1>11. ASSUME NEW q \in Requests, q # r PROVE StaysFor(q)
    BY <1>5, <1>6, <1>8, <1>11, OthersStay
<1> QED BY <1>9, <1>10, <1>11

LEMMA MemFreeRequestStays ==
    ASSUME CallsOK, NEW r \in Requests, MemFreeRequest(r)
    PROVE  CallsOK' /\ \A q \in Requests : StaysFor(q)
<1>1. FInv /\ IInv
    BY DEF CallsOK, FInv
<1>2. /\ stage[r] = "ran"
      /\ layer_kv' = [layer_kv EXCEPT ![r] = EmptyKv]
      /\ stage' = [stage EXCEPT ![r] = "done"]
      /\ UNCHANGED <<prompts_len, generated>> /\ UNCHANGED mem
    BY DEF MemFreeRequest, FreeRequest
<1>3. FInv'
    BY <1>1, NextFits DEF Next, MemFreeRequest
<1>4. /\ stage'[r] = "done"
      /\ \A q \in Requests : q # r => layer_kv'[q] = layer_kv[q] /\ stage'[q] = stage[q]
    BY <1>1, <1>2, RequestVars
<1>5. answer' = answer /\ gmem' = gmem /\ swaps' = swaps
    BY <1>2 DEF mem
<1>6. r \notin DOMAIN answer
    BY <1>2 DEF CallsOK
<1>7. CallsOK'
    <2>1. \A q \in Requests : stage'[q] \in {"new", "admitted"} => generated'[q] = 0
        BY <1>2, <1>4 DEF CallsOK
    <2>2. DOMAIN answer' \subseteq {q \in Requests : stage'[q] \in {"admitted", "granted"}}
        BY <1>4, <1>5, <1>6 DEF CallsOK
    <2> QED BY <1>3, <1>5, <2>1, <2>2 DEF CallsOK, IsPool
<1>8. StaysFor(r)
    <2>1. generated[r] \in Nat
        BY <1>1, RequestVars
    <2>2. InCache(r)' = 0
        BY <1>4, <1>5, <1>6 DEF InCache
    <2> QED BY <1>2, <1>5, <1>6, <2>1, <2>2 DEF StaysFor
<1>9. ASSUME NEW q \in Requests, q # r PROVE StaysFor(q)
    BY <1>2, <1>4, <1>5, <1>9, OthersStay
<1> QED BY <1>7, <1>8, <1>9

LEMMA MemSwapOutStays ==
    ASSUME CallsOK, NEW r \in Requests, MemSwapOut(r)
    PROVE  CallsOK' /\ \A q \in Requests : StaysFor(q)
<1>1. FInv /\ IInv
    BY DEF CallsOK, FInv
<1>2. /\ answer = <<>> /\ SwapOut(r) /\ UNCHANGED <<gmem, answer, swaps>>
    BY DEF MemSwapOut, NoAnswers
<1>3. /\ layer_kv' = [layer_kv EXCEPT ![r] = EmptyKv]
      /\ stage' = [stage EXCEPT ![r] = "swapped"]
      /\ UNCHANGED <<prompts_len, generated>>
    BY <1>2 DEF SwapOut
<1>4. FInv'
    BY <1>1, <1>2, NextFits DEF Next
<1>5. /\ stage'[r] = "swapped"
      /\ \A q \in Requests : q # r => layer_kv'[q] = layer_kv[q] /\ stage'[q] = stage[q]
    BY <1>1, <1>3, RequestVars
<1>6. DOMAIN answer = {} /\ answer' = answer
    BY <1>2
<1>7. CallsOK'
    <2>1. \A q \in Requests : stage'[q] \in {"new", "admitted"} => generated'[q] = 0
        BY <1>3, <1>5 DEF CallsOK
    <2> QED BY <1>2, <1>4, <1>6, <2>1 DEF CallsOK, IsPool
<1>8. StaysFor(r)
    <2>1. generated[r] \in Nat
        BY <1>1, RequestVars
    <2>2. InCache(r)' = 0
        BY <1>5, <1>6 DEF InCache
    <2> QED BY <1>3, <1>6, <2>1, <2>2 DEF StaysFor
<1>9. ASSUME NEW q \in Requests, q # r PROVE StaysFor(q)
    BY <1>3, <1>5, <1>6, <1>9, OthersStay
<1> QED BY <1>7, <1>8, <1>9

LEMMA MemRunStays ==
    ASSUME CallsOK, NEW r \in Requests, MemRun(r)
    PROVE  CallsOK' /\ \A q \in Requests : StaysFor(q)
<1>1. FInv /\ IInv
    BY DEF CallsOK, FInv
<1>2. /\ r \in DOMAIN answer /\ (RunPrefill(r) \/ RunDecode(r))
      /\ answer' = [q \in DOMAIN answer \ {r} |-> answer[q]]
      /\ UNCHANGED <<gmem, swaps>>
    BY DEF MemRun
<1>3. FInv'
    BY <1>1, <1>2, NextFits DEF Next
<1>4. /\ stage[r] \in {"admitted", "granted"} /\ stage' = [stage EXCEPT ![r] = "ran"]
      /\ generated' = [generated EXCEPT ![r] = generated[r] + 1]
      /\ prompts_len' = prompts_len
    <2>1. CASE RunPrefill(r)
        <3>1. stage[r] = "admitted" /\ generated[r] = 0
            BY <2>1 DEF RunPrefill, CallsOK
        <3> QED BY <2>1, <3>1 DEF RunPrefill
    <2>2. CASE RunDecode(r)
        BY <2>2 DEF RunDecode
    <2> QED BY <1>2, <2>1, <2>2
<1>5. PICK num \in [Layers -> Nat] : layer_kv' = [layer_kv EXCEPT ![r] =
          [l \in Layers |-> [layer_kv[r][l] EXCEPT !.tokens = num[l]]]]
    <2>1. \A l \in Layers : prompts_len[r] \in Nat /\ layer_kv[r][l].tokens + 1 \in Nat
        BY <1>1, CachedType
    <2>2. CASE RunPrefill(r)
        <3> DEFINE num == [l \in Layers |-> prompts_len[r]]
        <3>1. num \in [Layers -> Nat]
            BY <2>1
        <3>2. layer_kv' = [layer_kv EXCEPT ![r] =
                  [l \in Layers |-> [layer_kv[r][l] EXCEPT !.tokens = num[l]]]]
            BY <2>2 DEF RunPrefill
        <3> HIDE DEF num
        <3> QED BY <3>1, <3>2
    <2>3. CASE RunDecode(r)
        <3> DEFINE num == [l \in Layers |-> layer_kv[r][l].tokens + 1]
        <3>1. num \in [Layers -> Nat]
            BY <2>1
        <3>2. layer_kv' = [layer_kv EXCEPT ![r] =
                  [l \in Layers |-> [layer_kv[r][l] EXCEPT !.tokens = num[l]]]]
            BY <2>3 DEF RunDecode
        <3> HIDE DEF num
        <3> QED BY <3>1, <3>2
    <2> QED BY <1>2, <2>2, <2>3
<1>6. /\ stage'[r] = "ran" /\ generated'[r] = generated[r] + 1 /\ generated[r] \in Nat
      /\ \A q \in Requests : q # r => /\ layer_kv'[q] = layer_kv[q] /\ stage'[q] = stage[q]
                                      /\ generated'[q] = generated[q]
    BY <1>1, <1>4, <1>5, RequestVars
<1>7. \A l \in Layers : layer_kv'[r][l].blocks = layer_kv[r][l].blocks
    <2> TAKE l \in Layers
    <2>1. layer_kv \in [Requests -> Tables]
        BY <1>1, RequestVars
    <2>2. layer_kv'[r][l] = [layer_kv[r][l] EXCEPT !.tokens = num[l]]
        BY <1>5, <2>1
    <2>3. layer_kv[r][l] \in KvType
        BY <2>1 DEF Tables
    <2> QED BY <2>2, <2>3 DEF KvType
<1>8. DOMAIN answer' = DOMAIN answer \ {r} /\ \A q \in DOMAIN answer' : answer'[q] = answer[q]
    BY <1>2
<1>9. CallsOK'
    <2>1. \A q \in Requests : stage'[q] \in {"new", "admitted"} => generated'[q] = 0
        BY <1>6 DEF CallsOK
    <2>2. DOMAIN answer' \subseteq {q \in Requests : stage'[q] \in {"admitted", "granted"}}
        BY <1>6, <1>8 DEF CallsOK
    <2> QED BY <1>2, <1>3, <2>1, <2>2 DEF CallsOK, IsPool
<1>10. StaysFor(r)
    <2>1. InCache(r) = prompts_len[r] + generated[r]
        BY <1>1, <1>2, TextOf DEF InCache
    <2>2. InCache(r)' = prompts_len[r] + (generated[r] + 1) - 1
        BY <1>4, <1>6, <1>8 DEF InCache, Cached
    <2>3. InCache(r)' = InCache(r)
        BY <1>1, <1>6, <2>1, <2>2, CachedType
    <2> QED BY <1>4, <1>6, <1>7, <1>8, <2>3 DEF StaysFor
<1>11. ASSUME NEW q \in Requests, q # r PROVE StaysFor(q)
    BY <1>4, <1>6, <1>8, <1>11, OthersStay
<1> QED BY <1>9, <1>10, <1>11

\* After a swap-in nothing more is said of the caches.
LEMMA MemSwapInCounts ==
    ASSUME CallsOK, NEW r \in Requests, MemSwapIn(r)
    PROVE  CallsOK' /\ swaps' # 0
<1>1. FInv /\ IInv
    BY DEF CallsOK, FInv
<1>2. /\ answer = <<>> /\ SwapIn(r) /\ answer' = answer /\ swaps' = swaps + 1
      /\ gmem' = [a \in DOMAIN gmem |-> gmem'[a]]
    BY DEF MemSwapIn, NoAnswers
<1>3. stage' = [stage EXCEPT ![r] = "ready"] /\ UNCHANGED generated
    BY <1>2 DEF SwapIn
<1>4. FInv'
    BY <1>1, <1>2, NextFits DEF Next
<1>5. \A q \in Requests : stage'[q] \in {"new", "admitted"} => generated'[q] = 0
    BY <1>1, <1>3, RequestVars DEF CallsOK
<1>6. IsPool(gmem')
    <2>1. DOMAIN gmem = 0..(2 * TOTAL * S - 1)
        BY DEF CallsOK, IsPool
    <2> QED BY <1>2, <2>1 DEF IsPool
<1>7. swaps' \in Nat /\ swaps' # 0
    BY <1>2 DEF CallsOK
<1>8. DOMAIN answer' = {}
    BY <1>2
<1> QED BY <1>4, <1>5, <1>6, <1>7, <1>8 DEF CallsOK, IsPool

\* The requests of a call: each once, and their tables have no block in common.
IsCallOf(batch, n, from) ==
    /\ n \in Nat \ {0} /\ batch \in [1..n -> Requests]
    /\ \A i \in 1..n : stage[batch[i]] = from
    /\ \A i, j \in 1..n : batch[i] = batch[j] => i = j

LEMMA BatchIs ==
    ASSUME NEW from, NEW batch \in Batches(from)
    PROVE  IsCallOf(batch, Len(batch), from) /\ ToSet(batch) = {batch[i] : i \in 1..Len(batch)}
<1> DEFINE R == {r \in Requests : stage[r] = from}
           max == Cardinality(Requests)
<1>1. batch \in UNION {[1..m -> R] : m \in 0..max} /\ batch # <<>> /\ IsInjective(batch)
    BY DEF Batches, SeqOf
<1> HIDE DEF max
<1>2. PICK m \in 0..max : batch \in [1..m -> R]
    BY <1>1
<1>3. m \in Nat /\ Len(batch) = m
    BY <1>2
<1>4. m # 0
    <2>1. SUFFICES ASSUME m = 0 PROVE FALSE
        OBVIOUS
    <2>2. batch = <<>>
        BY <1>2, <2>1
    <2> QED BY <1>1, <2>2
<1>5. \A i, j \in 1..m : batch[i] = batch[j] => i = j
    BY <1>1, <1>2 DEF IsInjective
<1>6. \A i \in 1..m : stage[batch[i]] = from /\ batch[i] \in Requests
    BY <1>2
<1>7. batch \in [1..m -> Requests]
    BY <1>2
<1>8. ToSet(batch) = {batch[i] : i \in 1..m}
    BY <1>2 DEF ToSet
<1> QED BY <1>3, <1>4, <1>5, <1>6, <1>7, <1>8 DEF IsCallOf

LEMMA BatchTablesApart ==
    ASSUME IInv, NEW from, NEW n, NEW batch, IsCallOf(batch, n, from)
    PROVE  /\ BatchOK(RequestsOf(batch), n)
           /\ \A i \in 1..n : RequestsOf(batch)[i] = Request(batch[i])
           /\ \A r \in Requests : \A i \in 1..n : batch[i] # r =>
                 \A k, l \in Layers : \A x \in 1..Len(layer_kv[r][k].blocks),
                                         y \in 1..Len(layer_kv[batch[i]][l].blocks) :
                    layer_kv[r][k].blocks[x] # layer_kv[batch[i]][l].blocks[y]
<1> DEFINE reqs == RequestsOf(batch)
<1>1. n \in Nat \ {0} /\ batch \in [1..n -> Requests] /\ \A i, j \in 1..n : batch[i] = batch[j] => i = j
    BY DEF IsCallOf
<1>2. reqs = [i \in 1..n |-> Request(batch[i])]
    BY <1>1 DEF RequestsOf
<1>3. \A i \in 1..n : reqs[i].layer_kv = layer_kv[batch[i]]
    BY <1>2 DEF Request
<1>4. \A r \in Requests, l \in Layers : layer_kv[r][l].blocks \in Seq(GpuBlocks)
    BY DEF IInv, RequestTypes, Tables, KvType
<1>5. ASSUME NEW r \in Requests, NEW s \in Requests, NEW k \in Layers, NEW l \in Layers,
             NEW x \in 1..Len(layer_kv[r][k].blocks), NEW y \in 1..Len(layer_kv[s][l].blocks),
             layer_kv[r][k].blocks[x] = layer_kv[s][l].blocks[y]
      PROVE  r = s /\ k = l /\ x = y
    <2> DEFINE H == HeldBy(layer_kv)
    <2>1. layer_kv[r] \in Tables /\ layer_kv[s] \in Tables
        BY DEF IInv, RequestTypes
    <2>2. H[r] = Entries(layer_kv[r]) /\ H[s] = Entries(layer_kv[s])
        BY DEF HeldBy
    <2>3. /\ <<k, x>> \in DOMAIN H[r] /\ H[r][<<k, x>>] = layer_kv[r][k].blocks[x]
          /\ <<l, y>> \in DOMAIN H[s] /\ H[s][<<l, y>>] = layer_kv[s][l].blocks[y]
        BY <2>1, <2>2, EntriesOfTables
    <2>4. Apart(H)
        BY DEF IInv, GpuAccountedFor, PoolHolds
    <2> HIDE DEF H
    <2>5. r = s /\ <<k, x>> = <<l, y>>
        BY <1>5, <2>3, <2>4 DEF Apart
    <2> QED BY <2>5
<1>6. BatchOK(reqs, n)
    <2>1. reqs = [i \in 1..n |-> reqs[i]]
        BY <1>2
    <2>2. \A i \in 1..n, l \in Layers : reqs[i].layer_kv[l].blocks \in Seq(GpuBlocks)
        BY <1>1, <1>3, <1>4
    <2> HIDE DEF reqs
    <2>3. ASSUME NEW i \in 1..n, NEW i2 \in 1..n, NEW l \in Layers, NEW l2 \in Layers,
                 NEW j \in 1..Len(reqs[i].layer_kv[l].blocks),
                 NEW j2 \in 1..Len(reqs[i2].layer_kv[l2].blocks),
                 reqs[i].layer_kv[l].blocks[j] = reqs[i2].layer_kv[l2].blocks[j2]
          PROVE  i = i2 /\ l = l2 /\ j = j2
        <3>1. batch[i] \in Requests /\ batch[i2] \in Requests
            BY <1>1
        <3>2. reqs[i].layer_kv = layer_kv[batch[i]] /\ reqs[i2].layer_kv = layer_kv[batch[i2]]
            BY <1>3
        <3>3. /\ j \in 1..Len(layer_kv[batch[i]][l].blocks)
              /\ j2 \in 1..Len(layer_kv[batch[i2]][l2].blocks)
              /\ layer_kv[batch[i]][l].blocks[j] = layer_kv[batch[i2]][l2].blocks[j2]
            BY <2>3, <3>2
        <3> DEFINE r == batch[i]
                   s == batch[i2]
        <3>4. r = s /\ l = l2 /\ j = j2
            <4>1. r \in Requests /\ s \in Requests
                BY <3>1
            <4>2. /\ j \in 1..Len(layer_kv[r][l].blocks) /\ j2 \in 1..Len(layer_kv[s][l2].blocks)
                  /\ layer_kv[r][l].blocks[j] = layer_kv[s][l2].blocks[j2]
                BY <3>3
            <4> HIDE DEF r, s
            <4> QED BY <1>5, <4>1, <4>2
        <3> QED BY <1>1, <3>4
    <2> QED BY <1>1, <2>1, <2>2, <2>3, SameBlocks DEF BatchOK
<1>7. ASSUME NEW r \in Requests, NEW i \in 1..n, batch[i] # r, NEW k \in Layers, NEW l \in Layers,
             NEW x \in 1..Len(layer_kv[r][k].blocks), NEW y \in 1..Len(layer_kv[batch[i]][l].blocks)
      PROVE  layer_kv[r][k].blocks[x] # layer_kv[batch[i]][l].blocks[y]
    BY <1>1, <1>5, <1>7
<1> QED BY <1>2, <1>6, <1>7

\* A call that did what it should for its batch.
CallDone(batch, n, end) ==
    /\ IsPool(end.pool) /\ OnlyOwnBlocks(RequestsOf(batch), n, gmem, end.pool)
    /\ \A i \in 1..n :
          /\ \A l \in Layers :
                CacheHas(end.pool, Tokens(batch[i]), layer_kv[batch[i]], l, Len(Tokens(batch[i])))
          /\ end.logits[i] = FullLogits(Tokens(batch[i]))

LEMMA CallKeepsCaches ==
    ASSUME CallsOK, CachesOK, answer = <<>>, NEW from, NEW batch \in Batches(from),
           NEW end, CallDone(batch, Len(batch), end), Answered(batch, end)
    PROVE  CachesOK'
<1> DEFINE n == Len(batch)
           reqs == RequestsOf(batch)
<1>1. IsCallOf(batch, n, from) /\ ToSet(batch) = {batch[i] : i \in 1..n}
    BY BatchIs
<1>2. n \in Nat \ {0} /\ batch \in [1..n -> Requests] /\ \A i, j \in 1..n : batch[i] = batch[j] => i = j
    BY <1>1 DEF IsCallOf
<1>3. IInv /\ FInv
    BY DEF CallsOK, FInv
<1> HIDE DEF n
<1>4. /\ UNCHANGED <<vars>>
      /\ answer' = [r \in ToSet(batch) |-> end.logits[CHOOSE i \in DOMAIN batch : batch[i] = r]]
      /\ gmem' = [a \in DOMAIN gmem |-> end.pool[a]]
    BY DEF Answered
<1>5. gmem' = end.pool
    <2>1. DOMAIN gmem = 0..(2 * TOTAL * S - 1)
        BY DEF CallsOK, IsPool
    <2> QED BY <1>4, <2>1 DEF CallDone, IsPool
<1>6. \A i \in 1..n : /\ batch[i] \in DOMAIN answer' /\ answer'[batch[i]] = end.logits[i]
    <2> TAKE i \in 1..n
    <2>1. (CHOOSE j \in DOMAIN batch : batch[j] = batch[i]) = i
        BY <1>2
    <2>2. batch[i] \in ToSet(batch)
        BY <1>1
    <2> QED BY <1>4, <2>1, <2>2
<1>7. \A r \in DOMAIN answer' : \E i \in 1..n : r = batch[i]
    BY <1>1, <1>4
<1>8. \A r : Tokens(r)' = Tokens(r) /\ layer_kv'[r] = layer_kv[r] /\ stage'[r] = stage[r] /\ Cached(r)' = Cached(r)
    BY <1>4 DEF vars, Tokens, Cached
<1>9. ASSUME NEW r \in Requests, NEW l \in Layers
      PROVE  CacheHas(gmem', Tokens(r), layer_kv[r], l, InCache(r)')
    <2>1. CASE r \in DOMAIN answer'
        <3>1. PICK i \in 1..n : r = batch[i]
            BY <1>7, <2>1
        <3>2. InCache(r)' = Len(Tokens(r))
            BY <1>8, <2>1 DEF InCache
        <3>3. CacheHas(end.pool, Tokens(r), layer_kv[r], l, Len(Tokens(r)))
            BY <3>1 DEF CallDone, n
        <3> QED BY <1>5, <3>2, <3>3
    <2>2. CASE r \notin DOMAIN answer'
        <3> DEFINE c == InCache(r)
        <3>1. InCache(r)' = c
            <4>1. r \notin DOMAIN answer
                OBVIOUS
            <4> QED BY <1>8, <2>2, <4>1 DEF InCache
        <3>2. CacheHas(gmem, Tokens(r), layer_kv[r], l, c)
            BY DEF CachesOK
        <3>3. c \in Nat /\ c <= Len(layer_kv[r][l].blocks) * S /\ Len(layer_kv[r][l].blocks) * S \in Nat
            BY HasRoom
        <3> HIDE DEF c
        <3>4. ASSUME NEW t \in 1..c PROVE At(end.pool, layer_kv[r], l, t) = At(gmem, layer_kv[r], l, t)
            <4> DEFINE b == BlockOf(layer_kv[r], l, t)
                       o == OffsetOf(t)
            <4>1. t \in Nat \ {0} /\ t <= Len(layer_kv[r][l].blocks) * S
                BY <3>3
            <4>2. (t - 1) \div S + 1 \in 1..Len(layer_kv[r][l].blocks) /\ b \in GpuBlocks /\ o \in 0..(S - 1)
                BY <1>3, <4>1, TokenInTables
            <4>3. b = layer_kv[r][l].blocks[(t - 1) \div S + 1]
                BY DEF BlockOf
            <4>4. /\ \A i \in 1..n : reqs[i] = Request(batch[i])
                  /\ \A i \in 1..n : batch[i] # r =>
                        \A k, h \in Layers : \A x \in 1..Len(layer_kv[r][k].blocks),
                                                y \in 1..Len(layer_kv[batch[i]][h].blocks) :
                           layer_kv[r][k].blocks[x] # layer_kv[batch[i]][h].blocks[y]
                <5>1. IsCallOf(batch, n, from) /\ IInv
                    BY <1>1, <1>3
                <5> HIDE DEF reqs
                <5> QED BY <5>1, BatchTablesApart DEF reqs
            <4> HIDE DEF b, o
            <4>5. ASSUME NEW i \in 1..n, NEW h \in Layers, NEW j \in 1..Len(reqs[i].layer_kv[h].blocks)
                  PROVE  reqs[i].layer_kv[h].blocks[j] # b
                <5>1. reqs[i].layer_kv = layer_kv[batch[i]]
                    <6>1. reqs[i] = Request(batch[i])
                        BY <4>4
                    <6> HIDE DEF reqs
                    <6> QED BY <6>1 DEF Request
                <5>2. batch[i] # r
                    BY <1>6, <2>2
                <5>3. j \in 1..Len(layer_kv[batch[i]][h].blocks)
                    BY <5>1
                <5>4. layer_kv[r][l].blocks[(t - 1) \div S + 1] # layer_kv[batch[i]][h].blocks[j]
                    <6> DEFINE x == (t - 1) \div S + 1
                    <6>1. x \in 1..Len(layer_kv[r][l].blocks)
                        BY <4>2
                    <6> HIDE DEF x
                    <6>2. layer_kv[r][l].blocks[x] # layer_kv[batch[i]][h].blocks[j]
                        BY <4>4, <5>2, <5>3, <6>1
                    <6> QED BY <6>2 DEF x
                <5> QED BY <4>3, <5>1, <5>4
            <4>6. Cell(end.pool, b, o) = Cell(gmem, b, o)
                BY <4>2, <4>5, SameBlocks DEF CallDone, OnlyOwnBlocks, n
            <4> QED BY <4>6 DEF At, b, o
        <3> QED BY <1>5, <3>1, <3>2, <3>4 DEF CacheHas
    <2> QED BY <2>1, <2>2
<1>10. ASSUME NEW r \in DOMAIN answer' PROVE answer'[r] = FullLogits(Tokens(r))
    <2>1. PICK i \in 1..n : r = batch[i]
        BY <1>7
    <2>2. end.logits[i] = FullLogits(Tokens(batch[i]))
        BY DEF CallDone, n
    <2> QED BY <1>6, <2>1, <2>2
<1>11. \A r \in Requests, l \in Layers : CacheHas(gmem', Tokens(r)', layer_kv'[r], l, InCache(r)')
    BY <1>8, <1>9
<1>12. \A r \in DOMAIN answer' : answer'[r] = FullLogits(Tokens(r)')
    BY <1>8, <1>10
<1> QED BY <1>11, <1>12 DEF CachesOK

LEMMA PrefillAnswers ==
    ASSUME CallsOK, NEW batch \in Batches("admitted")
    PROVE  CallDone(batch, Len(batch), Prefill(RequestsOf(batch), gmem))
<1> DEFINE n == Len(batch)
           reqs == RequestsOf(batch)
           end == Prefill(reqs, gmem)
<1>1. IsCallOf(batch, n, "admitted")
    BY BatchIs
<1> HIDE DEF n
<1>2. FInv /\ IInv
    BY DEF CallsOK, FInv
<1>3. BatchOK(reqs, n) /\ \A i \in 1..n : reqs[i] = Request(batch[i])
    <2>1. IsCallOf(batch, n, "admitted") /\ IInv
        BY <1>1, <1>2
    <2> HIDE DEF reqs
    <2> QED BY <2>1, BatchTablesApart DEF reqs
<1> HIDE DEF reqs, end
<1>4. ASSUME NEW i \in 1..n
      PROVE  /\ reqs[i].prompts_len = prompts_len[batch[i]] /\ reqs[i].layer_kv = layer_kv[batch[i]]
             /\ reqs[i].prompts_len \in Nat \ {0}
             /\ \A l \in Layers : reqs[i].prompts_len <= Room(reqs, i, l)
             /\ Prompt(reqs, i) = Tokens(batch[i]) /\ reqs[i].prompts_len = Len(Tokens(batch[i]))
    <2> DEFINE r == batch[i]
    <2>1. /\ reqs[i].prompts_len = prompts_len[r] /\ reqs[i].layer_kv = layer_kv[r]
          /\ reqs[i].tokens = Tokens(r)
        <3>1. reqs[i] = Request(r)
            BY <1>3
        <3> QED BY <3>1 DEF Request
    <2>2. r \in Requests /\ stage[r] = "admitted" /\ generated[r] = 0
        BY <1>1 DEF IsCallOf, CallsOK
    <2> HIDE DEF r
    <2>3. prompts_len[r] \in Nat \ {0} /\ Len(Tokens(r)) = prompts_len[r]
        BY <1>2, <2>2, CachedType, TextOf
    <2>4. \A l \in Layers : Len(Tokens(r)) <= Len(layer_kv[r][l].blocks) * S
        BY <2>2, HasRoom
    <2>5. Prompt(reqs, i) = Tokens(r)
        <3>1. Tokens(r) = [t \in 1..prompts_len[r] |-> <<r, t>>]
            BY <2>2, <2>3 DEF Tokens
        <3> QED BY <2>1, <3>1 DEF Prompt
    <2> QED BY <2>1, <2>3, <2>4, <2>5 DEF Room, r
<1>5. PrefillOK(reqs, n)
    BY <1>3, <1>4 DEF PrefillOK
<1>6. IsPool(gmem)
    BY DEF CallsOK
<1>7. PrefillDone(reqs, n, gmem, end)
    BY <1>5, <1>6, PrefillIs DEF end
<1>8. ASSUME NEW i \in 1..n
      PROVE  /\ \A l \in Layers :
                    CacheHas(end.pool, Tokens(batch[i]), layer_kv[batch[i]], l, Len(Tokens(batch[i])))
             /\ end.logits[i] = FullLogits(Tokens(batch[i]))
    <2>1. /\ \A l \in Layers :
                CacheHas(end.pool, Prompt(reqs, i), reqs[i].layer_kv, l, reqs[i].prompts_len)
          /\ end.logits[i] = FullLogits(Prompt(reqs, i))
        BY <1>7 DEF PrefillDone
    <2> QED BY <1>4, <2>1
<1>9. IsPool(end.pool) /\ OnlyOwnBlocks(reqs, n, gmem, end.pool)
    BY <1>7 DEF PrefillDone
<1>10. CallDone(batch, n, end)
    BY <1>8, <1>9 DEF CallDone, reqs
<1> QED BY <1>10 DEF n, reqs, end

LEMMA DecodeAnswers ==
    ASSUME CallsOK, CachesOK, answer = <<>>, NEW batch \in Batches("granted")
    PROVE  CallDone(batch, Len(batch), Decode(RequestsOf(batch), gmem))
<1> DEFINE n == Len(batch)
           reqs == RequestsOf(batch)
           end == Decode(reqs, gmem)
<1>1. IsCallOf(batch, n, "granted")
    BY BatchIs
<1> HIDE DEF n
<1>2. FInv /\ IInv
    BY DEF CallsOK, FInv
<1>3. BatchOK(reqs, n) /\ \A i \in 1..n : reqs[i] = Request(batch[i])
    <2>1. IsCallOf(batch, n, "granted") /\ IInv
        BY <1>1, <1>2
    <2> HIDE DEF reqs
    <2> QED BY <2>1, BatchTablesApart DEF reqs
<1> HIDE DEF reqs, end
<1>4. ASSUME NEW i \in 1..n
      PROVE  /\ reqs[i].tokens = Tokens(batch[i]) /\ reqs[i].layer_kv = layer_kv[batch[i]]
             /\ Len(reqs[i].tokens) \in Nat \ {0} /\ DOMAIN reqs[i].tokens = 1..Len(reqs[i].tokens)
             /\ \A l \in Layers :
                   /\ reqs[i].layer_kv[l].tokens = Len(reqs[i].tokens) - 1
                   /\ Len(reqs[i].tokens) <= Room(reqs, i, l)
                   /\ CacheHas(gmem, reqs[i].tokens, reqs[i].layer_kv, l, Len(reqs[i].tokens) - 1)
    <2> DEFINE r == batch[i]
    <2>1. reqs[i].tokens = Tokens(r) /\ reqs[i].layer_kv = layer_kv[r]
        <3>1. reqs[i] = Request(r)
            BY <1>3
        <3> QED BY <3>1 DEF Request
    <2>2. r \in Requests /\ stage[r] = "granted"
        BY <1>1 DEF IsCallOf
    <2> HIDE DEF r
    <2>3. Len(Tokens(r)) \in Nat \ {0} /\ DOMAIN Tokens(r) = 1..Len(Tokens(r))
        BY <1>2, <2>2, TextOf
    <2>4. \A l \in Layers : /\ layer_kv[r][l].tokens = Len(Tokens(r)) - 1
                            /\ Len(Tokens(r)) <= Len(layer_kv[r][l].blocks) * S
        BY <2>2, HasRoom
    <2>5. InCache(r) = Len(Tokens(r)) - 1
        <3>1. InCache(r) = Cached(r)
            BY <2>2 DEF InCache
        <3>2. Len(Tokens(r)) = prompts_len[r] + generated[r]
            BY <1>2, <2>2, TextOf
        <3> QED BY <1>2, <2>2, <3>1, <3>2, CachedType DEF Cached
    <2>6. \A l \in Layers : CacheHas(gmem, Tokens(r), layer_kv[r], l, Len(Tokens(r)) - 1)
        BY <2>2, <2>5 DEF CachesOK
    <2> QED BY <2>1, <2>3, <2>4, <2>6 DEF Room, r
<1>5. DecodeOK(reqs, n)
    BY <1>3, <1>4 DEF DecodeOK
<1>6. IsPool(gmem) /\ DecodeReady(reqs, n, gmem)
    BY <1>4 DEF CallsOK, DecodeReady, HasAllButLast
<1>7. DecodeDone(reqs, n, gmem, end)
    BY <1>5, <1>6, DecodeIs DEF end
<1>8. ASSUME NEW i \in 1..n
      PROVE  /\ \A l \in Layers :
                    CacheHas(end.pool, Tokens(batch[i]), layer_kv[batch[i]], l, Len(Tokens(batch[i])))
             /\ end.logits[i] = FullLogits(Tokens(batch[i]))
    <2>1. /\ \A l \in Layers :
                CacheHas(end.pool, reqs[i].tokens, reqs[i].layer_kv, l, Len(reqs[i].tokens))
          /\ end.logits[i] = FullLogits(reqs[i].tokens)
        BY <1>7 DEF DecodeDone
    <2> QED BY <1>4, <2>1
<1>9. IsPool(end.pool) /\ OnlyOwnBlocks(reqs, n, gmem, end.pool)
    BY <1>7 DEF DecodeDone
<1>10. CallDone(batch, n, end)
    BY <1>8, <1>9 DEF CallDone, reqs
<1> QED BY <1>10 DEF n, reqs, end

LEMMA CallsStayOK ==
    ASSUME CallsOK, answer = <<>>, NEW from \in {"admitted", "granted"}, NEW batch \in Batches(from),
           NEW end, Answered(batch, end)
    PROVE  CallsOK'
<1>1. IsCallOf(batch, Len(batch), from) /\ ToSet(batch) = {batch[i] : i \in 1..Len(batch)}
    BY BatchIs
<1>2. /\ UNCHANGED vars /\ swaps' = swaps
      /\ DOMAIN answer' = ToSet(batch) /\ gmem' = [a \in DOMAIN gmem |-> gmem'[a]]
    BY DEF Answered
<1>3. FInv'
    BY <1>2, NextFits DEF CallsOK
<1>4. ToSet(batch) \subseteq {r \in Requests : stage[r] \in {"admitted", "granted"}}
    BY <1>1 DEF IsCallOf
<1>5. IsPool(gmem')
    <2>1. DOMAIN gmem = 0..(2 * TOTAL * S - 1)
        BY DEF CallsOK, IsPool
    <2> QED BY <1>2, <2>1 DEF IsPool
<1>6. stage' = stage /\ generated' = generated
    BY <1>2 DEF vars
<1> QED BY <1>2, <1>3, <1>4, <1>5, <1>6 DEF CallsOK, IsPool

LEMMA MemInitCaches == MemInit => KvInv
<1> SUFFICES ASSUME MemInit PROVE KvInv
    OBVIOUS
<1>1. FInv
    BY InitFits DEF MemInit
<1>2. IsPool(gmem)
    BY DEF MemInit, EmptyPool, TOTAL, S, IsPool
<1>3. DOMAIN answer = {} /\ swaps = 0
    BY DEF MemInit
<1>4. \A r \in Requests : stage[r] = "new" /\ generated[r] = 0
    BY DEF MemInit, Init
<1>5. CallsOK
    BY <1>1, <1>2, <1>3, <1>4 DEF CallsOK
<1>6. \A r \in Requests, l \in Layers : CacheHas(gmem, Tokens(r), layer_kv[r], l, InCache(r))
    <2>1. \A r \in Requests : InCache(r) = 0
        BY <1>3, <1>4 DEF InCache
    <2> QED BY <2>1 DEF CacheHas
<1> QED BY <1>3, <1>5, <1>6 DEF KvInv, CachesOK

LEMMA MemNextCaches == KvInv /\ [MemNext]_<<vars, mem>> => KvInv'
<1> SUFFICES ASSUME KvInv, [MemNext]_<<vars, mem>> PROVE KvInv'
    OBVIOUS
<1>1. CallsOK /\ FInv /\ (swaps = 0 => CachesOK)
    BY DEF KvInv, CallsOK
<1>2. DOMAIN answer \subseteq Requests
    BY <1>1 DEF CallsOK
<1>3. ASSUME CallsOK', \A q \in Requests : StaysFor(q), gmem' = gmem, swaps' = swaps PROVE KvInv'
    <2>1. DOMAIN answer' \subseteq Requests /\ FInv'
        BY <1>3 DEF CallsOK
    <2>2. CASE swaps = 0
        <3>1. CachesOK'
            BY <1>1, <1>2, <1>3, <2>1, <2>2, StaysOK
        <3> QED BY <1>3, <3>1 DEF KvInv
    <2>3. CASE swaps # 0
        BY <1>3, <2>3 DEF KvInv
    <2> QED BY <2>2, <2>3
<1>4. CASE UNCHANGED <<vars, mem>>
    <2>1. /\ UNCHANGED <<prompts_len, layer_kv, stage, generated>>
          /\ UNCHANGED <<gmem, answer, swaps>> /\ UNCHANGED vars
        BY <1>4 DEF vars, mem
    <2>2. FInv'
        BY <1>1, <2>1, NextFits
    <2>3. CallsOK'
        BY <1>1, <2>1, <2>2 DEF CallsOK, IsPool
    <2>4. \A q \in Requests : StaysFor(q)
        BY <1>1, <2>1, OthersStay
    <2> QED BY <1>3, <2>1, <2>3, <2>4
<1>5. CASE CallPrefill
    <2>1. PICK batch \in Batches("admitted") : Answered(batch, Prefill(RequestsOf(batch), gmem))
        BY <1>5 DEF CallPrefill
    <2> DEFINE end == Prefill(RequestsOf(batch), gmem)
    <2>2. answer = <<>> /\ Answered(batch, end) /\ swaps' = swaps
        BY <1>5, <2>1 DEF CallPrefill, NoAnswers, Answered
    <2>3. CallDone(batch, Len(batch), end)
        BY <1>1, PrefillAnswers
    <2> HIDE DEF end
    <2>4. CallsOK'
        BY <1>1, <2>2, CallsStayOK
    <2>5. CASE swaps = 0
        <3>1. CachesOK'
            BY <1>1, <2>2, <2>3, <2>5, CallKeepsCaches
        <3> QED BY <2>4, <3>1 DEF KvInv
    <2>6. CASE swaps # 0
        BY <2>2, <2>4, <2>6 DEF KvInv
    <2> QED BY <2>5, <2>6
<1>6. CASE CallDecode
    <2>1. PICK batch \in Batches("granted") : Answered(batch, Decode(RequestsOf(batch), gmem))
        BY <1>6 DEF CallDecode
    <2> DEFINE end == Decode(RequestsOf(batch), gmem)
    <2>2. answer = <<>> /\ Answered(batch, end) /\ swaps' = swaps
        BY <1>6, <2>1 DEF CallDecode, NoAnswers, Answered
    <2>3. CASE swaps = 0
        <3>1. CallDone(batch, Len(batch), end)
            BY <1>1, <2>2, <2>3, DecodeAnswers
        <3> HIDE DEF end
        <3>2. CallsOK'
            BY <1>1, <2>2, CallsStayOK
        <3>3. CachesOK'
            BY <1>1, <2>2, <2>3, <3>1, CallKeepsCaches
        <3> QED BY <3>2, <3>3 DEF KvInv
    <2>4. CASE swaps # 0
        <3> HIDE DEF end
        <3>1. CallsOK'
            BY <1>1, <2>2, CallsStayOK
        <3> QED BY <2>2, <2>4, <3>1 DEF KvInv
    <2> QED BY <2>3, <2>4
<1>7. ASSUME NEW r \in Requests, MemAllocate(r) \/ MemFreeRequest(r) \/ MemRun(r) \/ MemSwapOut(r)
      PROVE  KvInv'
    <2>1. CallsOK' /\ \A q \in Requests : StaysFor(q)
        BY <1>1, <1>7, MemAllocateStays, MemFreeRequestStays, MemRunStays, MemSwapOutStays
    <2>2. gmem' = gmem /\ swaps' = swaps
        BY <1>7 DEF MemAllocate, MemFreeRequest, MemRun, MemSwapOut, mem
    <2> QED BY <1>3, <2>1, <2>2
<1>8. ASSUME NEW r \in Requests, MemSwapIn(r) PROVE KvInv'
    BY <1>1, <1>8, MemSwapInCounts DEF KvInv
<1> QED BY <1>4, <1>5, <1>6, <1>7, <1>8 DEF MemNext

\* As long as nothing was swapped in, every answer of the model is that of the whole
\* text recomputed without a cache, in every batch and in every order of calls.
THEOREM AnswersAlwaysFullRecompute == MemSpec => []AnswersAreFullRecompute
<1>1. MemInit => KvInv
    BY MemInitCaches
<1>2. KvInv /\ [MemNext]_<<vars, mem>> => KvInv'
    BY MemNextCaches
<1>3. KvInv => AnswersAreFullRecompute
    BY DEF KvInv, CachesOK, AnswersAreFullRecompute
<1> QED BY <1>1, <1>2, <1>3, PTL DEF MemSpec
=============================================================================
