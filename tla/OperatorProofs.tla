--------------------------- MODULE OperatorProofs ---------------------------
(***************************************************************************)
(* Lemmas about the operators the state machines are built from: what the  *)
(* operators of FreeList do to a pool whose records agree, and what the    *)
(* calls of GPT2Model leave in the KV pool and answer, for all sizes.  The *)
(* proofs about BlockManager, RealKvAllocator, KvMemory and ModelFiles     *)
(* rest on them.                                                           *)
(***************************************************************************)
EXTENDS FreeList, GPT2Model, SequenceTheorems, WellFoundedInduction, TLAPS

PoolType(N) == [ids : Seq(0..(N - 1)), isFree : [0..(N - 1) -> BOOLEAN], count : Int]

\* The first k elements of a sequence.
LEMMA PrefixProperties ==
    ASSUME NEW X, NEW s \in Seq(X), NEW k \in 0..Len(s)
    PROVE  /\ SubSeq(s, 1, k) \in Seq(X)
           /\ Len(SubSeq(s, 1, k)) = k
           /\ \A i \in 1..k : SubSeq(s, 1, k)[i] = s[i]
<1>1. k \in Int /\ \A i \in 1..k : s[i] \in X
    OBVIOUS
<1> QED BY <1>1, SubSeqProperties

\* Popping from a stack of distinct ids leaves distinct ids ...
LEMMA DistinctPrefix ==
    ASSUME NEW s, NEW t, Len(s) \in Nat, Len(t) \in Nat, Len(t) <= Len(s),
           \A i \in 1..Len(t) : t[i] = s[i], Distinct(s)
    PROVE  Distinct(t)
<1> SUFFICES ASSUME NEW i \in 1..Len(t), NEW j \in 1..Len(t), t[i] = t[j]
             PROVE  i = j
    BY DEF Distinct
<1>1. i \in 1..Len(s) /\ j \in 1..Len(s) /\ s[i] = s[j]
    OBVIOUS
<1> QED BY <1>1 DEF Distinct

\* ... and so does pushing an id that is not on it.
LEMMA DistinctPush ==
    ASSUME NEW s, NEW t, Len(s) \in Nat, Len(t) = Len(s) + 1,
           \A i \in 1..Len(s) : t[i] = s[i] /\ s[i] # t[Len(s) + 1], Distinct(s)
    PROVE  Distinct(t)
<1> SUFFICES ASSUME NEW i \in 1..Len(t), NEW j \in 1..Len(t), t[i] = t[j]
             PROVE  i = j
    BY DEF Distinct
<1>1. CASE i \in 1..Len(s) /\ j \in 1..Len(s)
    BY <1>1 DEF Distinct
<1>2. CASE i = Len(s) + 1 /\ j = Len(s) + 1
    BY <1>2
<1>3. (i \in 1..Len(s) \/ i = Len(s) + 1) /\ (j \in 1..Len(s) \/ j = Len(s) + 1)
    OBVIOUS
<1> QED BY <1>1, <1>2, <1>3

\* A new pool has consistent records.
LEMMA NewPoolOK ==
    ASSUME NEW N \in Nat
    PROVE  /\ NewPool(N) \in PoolType(N)
           /\ FreeListOK(NewPool(N))
           /\ \A b \in 0..(N - 1) : NewPool(N).isFree[b]
<1> DEFINE p == NewPool(N)
<1>1. p.ids \in Seq(0..(N - 1)) /\ Len(p.ids) = N /\ \A i \in 1..N : p.ids[i] = i - 1
    BY DEF NewPool
<1>2. p.isFree = [b \in 0..(N - 1) |-> TRUE] /\ p.count = N
    BY DEF NewPool
<1>3. p \in PoolType(N)
    BY <1>1, <1>2 DEF PoolType, NewPool
<1>4. Distinct(p.ids)
    BY <1>1 DEF Distinct
<1>5. \A b \in 0..(N - 1) : \E i \in 1..Len(p.ids) : p.ids[i] = b
    <2> TAKE b \in 0..(N - 1)
    <2>1. b + 1 \in 1..Len(p.ids) /\ p.ids[b + 1] = b
        BY <1>1
    <2> QED BY <2>1
<1> QED BY <1>1, <1>2, <1>3, <1>4, <1>5 DEF FreeListOK, BlocksOf

\* allocate_one on a consistent pool that is not empty hands out a free block
\* and leaves a consistent pool in which only that block's flag has changed.
LEMMA AllocateOneOK ==
    ASSUME NEW N \in Nat, NEW p \in PoolType(N), FreeListOK(p), p.ids # <<>>
    PROVE  /\ AllocatedOne(p) \in 0..(N - 1)
           /\ p.isFree[AllocatedOne(p)]
           /\ AfterAllocateOne(p) \in PoolType(N)
           /\ FreeListOK(AfterAllocateOne(p))
           /\ AfterAllocateOne(p).isFree = [p.isFree EXCEPT ![AllocatedOne(p)] = FALSE]
<1> DEFINE b == AllocatedOne(p)
           q == AfterAllocateOne(p)
           n == Len(p.ids)
<1>1. p.ids \in Seq(0..(N - 1)) /\ p.isFree \in [0..(N - 1) -> BOOLEAN] /\ p.count \in Int
    BY DEF PoolType
<1>2. n \in Nat /\ n >= 1 /\ b = p.ids[n] /\ b \in 0..(N - 1)
    BY <1>1 DEF AllocatedOne
<1>3. p.isFree[b]
    BY <1>1, <1>2 DEF FreeListOK, BlocksOf
<1>4. /\ q.ids = SubSeq(p.ids, 1, n - 1)
      /\ q.isFree = [p.isFree EXCEPT ![b] = FALSE]
      /\ q.count = p.count - 1
    BY DEF AfterAllocateOne
<1>5. /\ q.ids \in Seq(0..(N - 1))
      /\ Len(q.ids) = n - 1
      /\ \A i \in 1..(n - 1) : q.ids[i] = p.ids[i]
    <2>1. n - 1 \in 0..n
        BY <1>2
    <2>2. /\ SubSeq(p.ids, 1, n - 1) \in Seq(0..(N - 1))
          /\ Len(SubSeq(p.ids, 1, n - 1)) = n - 1
          /\ \A i \in 1..(n - 1) : SubSeq(p.ids, 1, n - 1)[i] = p.ids[i]
        <3> HIDE DEF q
        <3> QED BY <2>1, <1>1, PrefixProperties DEF n
    <2> QED BY <2>2, <1>4
<1>6. q \in PoolType(N)
    BY <1>1, <1>2, <1>4, <1>5 DEF PoolType, AfterAllocateOne
<1>7. Distinct(q.ids)
    <2>1. /\ Len(p.ids) \in Nat /\ Len(q.ids) \in Nat /\ Len(q.ids) <= Len(p.ids)
          /\ \A i \in 1..Len(q.ids) : q.ids[i] = p.ids[i]
        BY <1>2, <1>5
    <2>2. Distinct(p.ids)
        BY DEF FreeListOK
    <2> HIDE DEF q
    <2> QED BY <2>1, <2>2, DistinctPrefix, Zenon
<1>8. \A c \in 0..(N - 1) : q.isFree[c] <=> \E i \in 1..Len(q.ids) : q.ids[i] = c
    <2> TAKE c \in 0..(N - 1)
    <2>1. CASE c = b
        <3>1. \A i \in 1..(n - 1) : p.ids[i] # b
            <4>1. Distinct(p.ids)
                BY DEF FreeListOK
            <4>2. \A i \in 1..(n - 1) : i \in 1..n /\ n \in 1..n /\ i # n
                BY <1>2
            <4> QED BY <4>1, <4>2, <1>2, Zenon DEF Distinct
        <3> QED BY <2>1, <3>1, <1>1, <1>2, <1>4, <1>5
    <2>2. CASE c # b
        <3>1. q.isFree[c] = p.isFree[c]
            BY <2>2, <1>1, <1>4
        <3>2. p.isFree[c] <=> \E i \in 1..n : p.ids[i] = c
            BY <1>1 DEF FreeListOK, BlocksOf
        <3>3. (\E i \in 1..n : p.ids[i] = c) <=> \E i \in 1..(n - 1) : p.ids[i] = c
            BY <2>2, <1>2
        <3> QED BY <3>1, <3>2, <3>3, <1>5
    <2> QED BY <2>1, <2>2
<1>9. BlocksOf(q) = 0..(N - 1)
    BY <1>1, <1>4 DEF BlocksOf
<1>10. q.count = Len(q.ids)
    BY <1>1, <1>2, <1>4, <1>5 DEF FreeListOK
<1>11. FreeListOK(q)
    BY <1>7, <1>8, <1>9, <1>10 DEF FreeListOK
<1> QED BY <1>2, <1>3, <1>4, <1>6, <1>11

\* n calls of allocate_one in a row, when can_allocate(n): all of them succeed,
\* with blocks that were free, and the pool left is consistent.
LEMMA TakingOK ==
    ASSUME NEW N \in Nat, NEW p \in PoolType(N), FreeListOK(p),
           NEW n \in Nat, CanAllocate(p, n)
    PROVE  /\ n <= Len(p.ids)
           /\ \A i \in 1..n : Taken(p, n)[i] \in 0..(N - 1) /\ p.isFree[Taken(p, n)[i]]
           /\ AfterTaking(p, n) \in PoolType(N)
           /\ FreeListOK(AfterTaking(p, n))
           /\ \A b \in 0..(N - 1) : AfterTaking(p, n).isFree[b] <=>
                 (p.isFree[b] /\ \A i \in 1..n : Taken(p, n)[i] # b)
<1> DEFINE t == Taken(p, n)
           q == AfterTaking(p, n)
           m == Len(p.ids)
<1>1. p.ids \in Seq(0..(N - 1)) /\ p.isFree \in [0..(N - 1) -> BOOLEAN] /\ p.count \in Int
    BY DEF PoolType
<1>2. m \in Nat /\ n <= m
    BY <1>1 DEF CanAllocate, FreeListOK
<1>3. \A i \in 1..n : t[i] = p.ids[m - i + 1] /\ (m - i + 1) \in 1..m
    BY <1>2 DEF Taken
<1>4. \A i \in 1..n : t[i] \in 0..(N - 1) /\ p.isFree[t[i]]
    <2> TAKE i \in 1..n
    <2>1. PICK k \in 1..m : t[i] = p.ids[k]
        BY <1>3
    <2>2. p.ids[k] \in 0..(N - 1)
        BY <1>1
    <2>3. p.isFree[p.ids[k]]
        BY <1>1, <2>2 DEF FreeListOK, BlocksOf
    <2> QED BY <2>1, <2>2, <2>3
<1>5. /\ q.ids = SubSeq(p.ids, 1, m - n)
      /\ q.isFree = [b \in 0..(N - 1) |-> p.isFree[b] /\ \A i \in 1..n : t[i] # b]
      /\ q.count = p.count - n
    BY <1>1 DEF AfterTaking, BlocksOf
<1>6. /\ q.ids \in Seq(0..(N - 1))
      /\ Len(q.ids) = m - n
      /\ \A i \in 1..(m - n) : q.ids[i] = p.ids[i]
    <2>1. m - n \in 0..m
        BY <1>2
    <2>2. /\ SubSeq(p.ids, 1, m - n) \in Seq(0..(N - 1))
          /\ Len(SubSeq(p.ids, 1, m - n)) = m - n
          /\ \A i \in 1..(m - n) : SubSeq(p.ids, 1, m - n)[i] = p.ids[i]
        <3> HIDE DEF q
        <3> QED BY <2>1, <1>1, PrefixProperties DEF m
    <2> QED BY <2>2, <1>5
<1>7. q.isFree \in [0..(N - 1) -> BOOLEAN]
    BY <1>1, <1>5
<1>8. q \in PoolType(N)
    BY <1>1, <1>2, <1>5, <1>6, <1>7 DEF PoolType, AfterTaking
<1>9. Distinct(q.ids)
    <2>1. /\ Len(p.ids) \in Nat /\ Len(q.ids) \in Nat /\ Len(q.ids) <= Len(p.ids)
          /\ \A i \in 1..Len(q.ids) : q.ids[i] = p.ids[i]
        <3> HIDE DEF q
        <3> QED BY <1>2, <1>6
    <2>2. Distinct(p.ids)
        BY DEF FreeListOK
    <2> HIDE DEF q
    <2> QED BY <2>1, <2>2, DistinctPrefix, Zenon
<1>10. \A c \in 0..(N - 1) : q.isFree[c] <=> \E i \in 1..Len(q.ids) : q.ids[i] = c
    <2> TAKE c \in 0..(N - 1)
    <2>1. p.isFree[c] <=> \E k \in 1..m : p.ids[k] = c
        BY <1>1 DEF FreeListOK, BlocksOf
    <2>2. ASSUME q.isFree[c] PROVE \E i \in 1..Len(q.ids) : q.ids[i] = c
        <3>1. p.isFree[c] /\ \A i \in 1..n : t[i] # c
            BY <2>2, <1>5
        <3>2. PICK k \in 1..m : p.ids[k] = c
            BY <3>1, <2>1
        <3>3. k <= m - n
            <4> SUFFICES ASSUME k > m - n PROVE FALSE
                BY <1>2
            <4>1. m - k + 1 \in 1..n /\ m - (m - k + 1) + 1 = k
                BY <1>2
            <4>2. t[m - k + 1] = p.ids[k]
                BY <4>1, <1>3
            <4> QED BY <4>1, <4>2, <3>1, <3>2
        <3>4. k \in 1..Len(q.ids) /\ q.ids[k] = c
            <4>1. k \in 1..(m - n)
                BY <3>3, <1>2
            <4>2. Len(q.ids) = m - n /\ q.ids[k] = p.ids[k]
                BY <4>1, <1>6
            <4> HIDE DEF q
            <4> QED BY <4>1, <4>2, <3>2
        <3> QED BY <3>4
    <2>3. ASSUME NEW j \in 1..Len(q.ids), q.ids[j] = c PROVE q.isFree[c]
        <3>1. j \in 1..m /\ j <= m - n /\ p.ids[j] = c
            <4>1. j \in 1..(m - n)
                BY <1>6
            <4>2. q.ids[j] = p.ids[j]
                BY <4>1, <1>6
            <4> QED BY <4>1, <4>2, <2>3, <1>2
        <3>2. \A i \in 1..n : t[i] # c
            <4> TAKE i \in 1..n
            <4>1. t[i] = p.ids[m - i + 1] /\ (m - i + 1) \in 1..m /\ m - i + 1 # j
                BY <3>1, <1>2, <1>3
            <4> QED BY <4>1, <3>1 DEF FreeListOK, Distinct
        <3>3. p.isFree[c]
            BY <3>1, <2>1
        <3> QED BY <3>2, <3>3, <1>5
    <2> QED BY <2>2, <2>3
<1>11. BlocksOf(q) = 0..(N - 1)
    BY <1>5 DEF BlocksOf
<1>12. q.count = Len(q.ids)
    BY <1>1, <1>2, <1>5, <1>6 DEF FreeListOK
<1>13. FreeListOK(q)
    BY <1>9, <1>10, <1>11, <1>12 DEF FreeListOK
<1> QED BY <1>2, <1>4, <1>5, <1>8, <1>13

\* ... and no block is handed out twice.
LEMMA TakenDistinct ==
    ASSUME NEW N \in Nat, NEW p \in PoolType(N), FreeListOK(p),
           NEW n \in Nat, CanAllocate(p, n)
    PROVE  /\ Taken(p, n) \in [1..n -> 0..(N - 1)]
           /\ \A i, j \in 1..n : Taken(p, n)[i] = Taken(p, n)[j] => i = j
<1>1. Taken(p, n) \in [1..n -> 0..(N - 1)]
    <2>1. \A i \in 1..n : Taken(p, n)[i] \in 0..(N - 1)
        BY TakingOK
    <2>2. Taken(p, n) = [i \in 1..n |-> Taken(p, n)[i]]
        BY DEF Taken
    <2> DEFINE t == Taken(p, n)
    <2> HIDE DEF t
    <2> QED BY <2>1, <2>2 DEF t
<1>2. ASSUME NEW i \in 1..n, NEW j \in 1..n, Taken(p, n)[i] = Taken(p, n)[j]
      PROVE  i = j
    <2> DEFINE m == Len(p.ids)
    <2>1. m \in Nat /\ n <= m
        BY DEF PoolType, CanAllocate, FreeListOK
    <2>2. m - i + 1 \in 1..m /\ m - j + 1 \in 1..m
        BY <2>1
    <2>3. p.ids[m - i + 1] = p.ids[m - j + 1]
        BY <1>2 DEF Taken
    <2>4. m - i + 1 = m - j + 1
        <3>1. Distinct(p.ids)
            BY DEF FreeListOK
        <3> QED BY <2>2, <2>3, <3>1, Zenon DEF Distinct, m
    <2> QED BY <2>1, <2>4
<1> QED BY <1>1, <1>2

\* free_one keeps the records consistent whatever id it is given; the flag it
\* sets is that of a block in use, if any.
LEMMA FreeOneOK ==
    ASSUME NEW N \in Nat, NEW p \in PoolType(N), FreeListOK(p), NEW b \in Int
    PROVE  /\ FreeOne(p, b) \in PoolType(N)
           /\ FreeListOK(FreeOne(p, b))
           /\ \A c \in 0..(N - 1) : FreeOne(p, b).isFree[c] <=> (p.isFree[c] \/ c = b)
<1> DEFINE q == FreeOne(p, b)
           m == Len(p.ids)
<1>1. p.ids \in Seq(0..(N - 1)) /\ p.isFree \in [0..(N - 1) -> BOOLEAN] /\ p.count \in Int
    BY DEF PoolType
<1>2. BlocksOf(p) = 0..(N - 1)
    BY <1>1 DEF BlocksOf
<1>3. CASE ~(b \in 0..(N - 1) /\ ~p.isFree[b])
    <2>1. q = p
        BY <1>2, <1>3 DEF FreeOne
    <2> QED BY <2>1, <1>1, <1>2, <1>3
<1>4. CASE b \in 0..(N - 1) /\ ~p.isFree[b]
    <2>1. /\ q.ids = Append(p.ids, b)
          /\ q.isFree = [p.isFree EXCEPT ![b] = TRUE]
          /\ q.count = p.count + 1
        BY <1>2, <1>4 DEF FreeOne
    <2>2. /\ q.ids \in Seq(0..(N - 1)) /\ Len(q.ids) = m + 1 /\ m \in Nat
          /\ q.ids[m + 1] = b
          /\ \A i \in 1..m : q.ids[i] = p.ids[i]
        BY <1>1, <1>4, <2>1
    <2>3. q \in PoolType(N)
        BY <1>1, <1>2, <1>4, <2>1, <2>2 DEF PoolType, FreeOne
    <2>4. \A i \in 1..m : p.ids[i] # b
        BY <1>2, <1>4 DEF FreeListOK
    <2>5. Distinct(q.ids)
        <3>1. /\ Len(p.ids) \in Nat /\ Len(q.ids) = Len(p.ids) + 1
              /\ \A i \in 1..Len(p.ids) :
                    q.ids[i] = p.ids[i] /\ p.ids[i] # q.ids[Len(p.ids) + 1]
            BY <2>2, <2>4
        <3>2. Distinct(p.ids)
            BY DEF FreeListOK
        <3> HIDE DEF q
        <3> QED BY <3>1, <3>2, DistinctPush, Zenon
    <2>6. \A c \in 0..(N - 1) : q.isFree[c] <=> \E i \in 1..Len(q.ids) : q.ids[i] = c
        <3> TAKE c \in 0..(N - 1)
        <3>1. CASE c = b
            <4>1. q.isFree[c]
                BY <3>1, <1>1, <2>1
            <4>2. m + 1 \in 1..Len(q.ids) /\ q.ids[m + 1] = c
                BY <3>1, <2>2
            <4> QED BY <4>1, <4>2
        <3>2. CASE c # b
            <4>1. q.isFree[c] <=> \E i \in 1..m : p.ids[i] = c
                BY <3>2, <1>1, <1>2, <2>1 DEF FreeListOK
            <4>2. (\E i \in 1..m : p.ids[i] = c) => \E i \in 1..(m + 1) : q.ids[i] = c
                <5> SUFFICES ASSUME NEW i \in 1..m, p.ids[i] = c
                             PROVE  \E k \in 1..(m + 1) : q.ids[k] = c
                    OBVIOUS
                <5> HIDE DEF q
                <5>1. i \in 1..(m + 1)
                    OBVIOUS
                <5>2. q.ids[i] = p.ids[i]
                    BY <2>2
                <5> QED BY <5>1, <5>2
            <4>3. (\E i \in 1..(m + 1) : q.ids[i] = c) => \E i \in 1..m : p.ids[i] = c
                <5> SUFFICES ASSUME NEW i \in 1..(m + 1), q.ids[i] = c
                             PROVE  \E k \in 1..m : p.ids[k] = c
                    OBVIOUS
                <5>1. i # m + 1
                    BY <3>2, <2>2
                <5>2. i \in 1..m
                    BY <5>1, <2>2
                <5> QED BY <5>2, <2>2
            <4> QED BY <4>1, <4>2, <4>3, <2>2
        <3> QED BY <3>1, <3>2
    <2>7. BlocksOf(q) = 0..(N - 1) /\ q.count = Len(q.ids)
        BY <1>1, <2>1, <2>2 DEF BlocksOf, FreeListOK
    <2>8. FreeListOK(q)
        BY <2>5, <2>6, <2>7 DEF FreeListOK
    <2>9. \A c \in 0..(N - 1) : q.isFree[c] <=> (p.isFree[c] \/ c = b)
        BY <1>1, <2>1
    <2> QED BY <2>3, <2>8, <2>9
<1> QED BY <1>3, <1>4
-----------------------------------------------------------------------------
(* Loops.  The provers have no induction; a set of numbers stands for the *)
(* predicate.                                                             *)

LEMMA LeastElement ==
    ASSUME NEW T \in SUBSET Nat, T # {}
    PROVE  \E m \in T : \A n \in T : m <= n
<1>1. PICK m \in T : \A n \in T : <<n, m>> \notin OpToRel(<, Nat)
    BY NatLessThanWellFounded, WFMin
<1>2. \A n \in T : ~(n < m)
    BY <1>1 DEF OpToRel
<1> QED BY <1>2

\* What holds at 0 and is kept by every turn holds after n turns.
LEMMA Induction ==
    ASSUME NEW n \in Nat, NEW T, 0 \in T,
           \A i \in 1..n : i - 1 \in T => i \in T
    PROVE  \A i \in 0..n : i \in T
<1> DEFINE U == {i \in 0..n : i \notin T}
<1> SUFFICES ASSUME U # {} PROVE FALSE
    OBVIOUS
<1>1. U \in SUBSET Nat
    OBVIOUS
<1>2. PICK m \in U : \A i \in U : m <= i
    <2> HIDE DEF U
    <2> QED BY <1>1, LeastElement
<1>3. m \in 1..n /\ m - 1 \in 0..n
    OBVIOUS
<1>4. m - 1 \in T
    BY <1>2, <1>3
<1> QED BY <1>3, <1>4

\* A loop that starts with x and goes from y to step[i][y] in turn i: f is the
\* function of what it has after each of n turns, and there is one.
IsLoop(f, n, X, x, step) ==
    f \in [0..n -> X] /\ f[0] = x /\ \A i \in 1..n : f[i] = step[i][f[i - 1]]

LEMMA LoopExists ==
    ASSUME NEW X, NEW x \in X, NEW n \in Nat, NEW step \in [1..n -> [X -> X]]
    PROVE  \E f : IsLoop(f, n, X, x, step)
<1> DEFINE T == {m \in 0..n : \E f : IsLoop(f, m, X, x, step)}
<1>1. 0 \in T
    <2>1. IsLoop([i \in 0..0 |-> x], 0, X, x, step)
        BY DEF IsLoop
    <2> QED BY <2>1
<1>2. ASSUME NEW m \in 1..n, m - 1 \in T PROVE m \in T
    <2>1. PICK f : IsLoop(f, m - 1, X, x, step)
        BY <1>2
    <2> DEFINE g == [i \in 0..m |-> IF i = m THEN step[m][f[m - 1]] ELSE f[i]]
    <2>2. f[m - 1] \in X /\ step[m] \in [X -> X]
        BY <2>1 DEF IsLoop
    <2>3. g \in [0..m -> X]
        BY <2>1, <2>2 DEF IsLoop
    <2>4. g[0] = x
        BY <2>1 DEF IsLoop
    <2>5. ASSUME NEW i \in 1..m PROVE g[i] = step[i][g[i - 1]]
        <3>1. g[i - 1] = f[i - 1] /\ i - 1 \in 0..(m - 1)
            OBVIOUS
        <3>2. CASE i = m
            BY <3>1, <3>2
        <3>3. CASE i # m
            <4>1. i \in 1..(m - 1)
                BY <3>3
            <4>2. f[i] = step[i][f[i - 1]]
                BY <4>1, <2>1 DEF IsLoop
            <4> QED BY <3>1, <4>1, <4>2
        <3> QED BY <3>2, <3>3
    <2>6. IsLoop(g, m, X, x, step)
        BY <2>3, <2>4, <2>5 DEF IsLoop
    <2> HIDE DEF g
    <2> QED BY <2>6
<1>3. \A i \in 0..n : i \in T
    <2> HIDE DEF T
    <2> QED BY <1>1, <1>2, Induction
<1> QED BY <1>3

IsIdList(bs) == Len(bs) \in Nat /\ \A i \in 1..Len(bs) : bs[i] \in Int

\* q is p after the blocks bs came back to it.
HasFreed(N, p, bs, q) ==
    /\ q \in PoolType(N)
    /\ FreeListOK(q)
    /\ \A c \in 0..(N - 1) :
          q.isFree[c] <=> (p.isFree[c] \/ \E i \in 1..Len(bs) : bs[i] = c)

\* free(vector), whatever the ids: the blocks it names are free afterwards, and
\* no others that were not.
LEMMA FreeAllOK ==
    ASSUME NEW N \in Nat, NEW p \in PoolType(N), FreeListOK(p), NEW bs, IsIdList(bs)
    PROVE  HasFreed(N, p, bs, FreeAll(p, bs))
<1> USE DEF IsIdList
<1> DEFINE n == Len(bs)
           X == {q \in PoolType(N) : FreeListOK(q)}
           step == [i \in 1..n |-> [q \in X |-> FreeOne(q, bs[i])]]
           IsAfter(f) == f = [i \in 0..n |-> IF i = 0 THEN p ELSE FreeOne(f[i - 1], bs[i])]
           after == CHOOSE f : IsAfter(f)
<1>1. FreeAll(p, bs) = after[n]
    BY DEF FreeAll
<1>2. ASSUME NEW q \in X, NEW i \in 1..n PROVE FreeOne(q, bs[i]) \in X
    BY FreeOneOK
<1>3. p \in X /\ step \in [1..n -> [X -> X]]
    BY <1>2
<1>4. PICK f : IsLoop(f, n, X, p, step)
    <2>1. n \in Nat
        OBVIOUS
    <2> HIDE DEF X, step, n
    <2> QED BY <1>3, <2>1, LoopExists, Zenon
<1>5. \A i \in 1..n : f[i - 1] \in X /\ f[i] = FreeOne(f[i - 1], bs[i])
    <2> TAKE i \in 1..n
    <2>1. f[i - 1] \in X
        <3>1. i - 1 \in 0..n
            OBVIOUS
        <3> HIDE DEF X, n, step
        <3> QED BY <1>4, <3>1 DEF IsLoop
    <2>2. step[i][f[i - 1]] = FreeOne(f[i - 1], bs[i])
        <3> HIDE DEF X, n
        <3> QED BY <2>1
    <2>3. f[i] = step[i][f[i - 1]]
        BY <1>4 DEF IsLoop
    <2> QED BY <2>1, <2>2, <2>3
<1>6. IsAfter(f)
    BY <1>4, <1>5 DEF IsLoop
<1>7. IsAfter(after)
    BY <1>6
<1>8. after[0] = p /\ \A i \in 1..n : after[i] = FreeOne(after[i - 1], bs[i])
    <2>1. n \in Nat
        OBVIOUS
    <2> HIDE DEF after, n
    <2> QED BY <1>7, <2>1
<1> HIDE DEF after
\* After i turns.
<1> DEFINE T == {i \in 0..n :
                    /\ after[i] \in X
                    /\ \A c \in 0..(N - 1) :
                          after[i].isFree[c] <=> (p.isFree[c] \/ \E j \in 1..i : bs[j] = c)}
<1>9. 0 \in T
    BY <1>3, <1>8
<1>10. ASSUME NEW i \in 1..n, i - 1 \in T PROVE i \in T
    <2>1. after[i - 1] \in X /\ after[i] = FreeOne(after[i - 1], bs[i])
        BY <1>8, <1>10
    <2>2. after[i] \in X
        BY <1>2, <2>1
    <2>3. ASSUME NEW c \in 0..(N - 1)
          PROVE  after[i].isFree[c] <=> (p.isFree[c] \/ \E j \in 1..i : bs[j] = c)
        <3>1. after[i].isFree[c] <=> (after[i - 1].isFree[c] \/ c = bs[i])
            <4>1. after[i - 1] \in PoolType(N) /\ FreeListOK(after[i - 1]) /\ bs[i] \in Int
                BY <2>1
            <4>2. FreeOne(after[i - 1], bs[i]).isFree[c]
                     <=> (after[i - 1].isFree[c] \/ c = bs[i])
                <5> HIDE DEF T, X, n
                <5> QED BY <4>1, FreeOneOK, Zenon
            <4> QED BY <2>1, <4>2
        <3>2. after[i - 1].isFree[c] <=> (p.isFree[c] \/ \E j \in 1..(i - 1) : bs[j] = c)
            BY <1>10
        <3>3. (\E j \in 1..i : bs[j] = c) <=> (bs[i] = c \/ \E j \in 1..(i - 1) : bs[j] = c)
            OBVIOUS
        <3> QED BY <3>1, <3>2, <3>3
    <2> QED BY <2>2, <2>3
<1>11. n \in T
    <2> HIDE DEF T, n
    <2>1. \A i \in 0..n : i \in T
        BY <1>9, <1>10, Induction DEF n
    <2> QED BY <2>1 DEF n
<1> QED BY <1>1, <1>11 DEF HasFreed
-----------------------------------------------------------------------------
(* How many blocks hold how many tokens. *)

LEMMA CeilDivIs ==
    ASSUME NEW n \in Nat, NEW b \in Nat, b >= 1
    PROVE  /\ CeilDiv(n, b) \in Nat
           /\ n <= CeilDiv(n, b) * b
           /\ CeilDiv(n, b) * b < n + b
<1> DEFINE m == n + b - 1
<1>1. m \in Nat
    OBVIOUS
<1> HIDE DEF m
<1>2. m \div b \in Nat /\ m % b \in 0..(b - 1) /\ m = (m \div b) * b + (m % b)
    <2>1. m \div b \in Nat
        BY <1>1
    <2>2. m % b \in 0..(b - 1)
        BY <1>1
    <2>3. m = b * (m \div b) + (m % b)
        BY <1>1
    <2> QED BY <2>1, <2>2, <2>3
<1>3. (m \div b) * b \in Int
    BY <1>2
<1>4. n <= (m \div b) * b /\ (m \div b) * b < n + b
    <2> DEFINE a == (m \div b) * b
               c == m % b
    <2>1. a \in Int /\ c \in 0..(b - 1) /\ m = a + c
        BY <1>2, <1>3
    <2> HIDE DEF a, c
    <2>2. n <= a /\ a < n + b
        BY <2>1 DEF m
    <2> QED BY <2>2 DEF a
<1> QED BY <1>2, <1>4 DEF CeilDiv, m

LEMMA CeilDivUnique ==
    ASSUME NEW n \in Nat, NEW b \in Nat, b >= 1, NEW q \in Nat, n <= q * b, q * b < n + b
    PROVE  q = CeilDiv(n, b)
<1> DEFINE c == CeilDiv(n, b)
<1>1. c \in Nat /\ n <= c * b /\ c * b < n + b
    BY CeilDivIs
<1> HIDE DEF c
<1>2. c * b \in Nat /\ q * b \in Nat
    BY <1>1
<1>3. ASSUME NEW x \in Nat, NEW y \in Nat, x < y PROVE x * b + b <= y * b
    <2>1. (y - x - 1) * b \in Nat /\ x * b \in Nat
        BY <1>3
    <2>2. y * b = x * b + b + (y - x - 1) * b
        BY <1>3
    <2> QED BY <2>1, <2>2
<1>4. ~(q < c)
    BY <1>1, <1>2, <1>3
<1>5. ~(c < q)
    BY <1>1, <1>2, <1>3
<1> QED BY <1>1, <1>4, <1>5 DEF c

LEMMA CeilDivMonotone ==
    ASSUME NEW m \in Nat, NEW n \in Nat, m <= n, NEW b \in Nat, b >= 1
    PROVE  CeilDiv(m, b) <= CeilDiv(n, b)
<1> DEFINE c == CeilDiv(m, b)
           d == CeilDiv(n, b)
<1>1. c \in Nat /\ c * b < m + b /\ d \in Nat /\ n <= d * b
    BY CeilDivIs
<1> HIDE DEF c, d
<1>2. ASSUME d < c PROVE FALSE
    <2>1. (c - d - 1) * b \in Nat /\ d * b \in Nat
        BY <1>1, <1>2
    <2>2. c * b = d * b + b + (c - d - 1) * b
        BY <1>1
    <2> QED BY <1>1, <2>1, <2>2
<1> QED BY <1>1, <1>2 DEF c, d

\* One token more needs one block more exactly when the last block is full.
LEMMA CeilDivNext ==
    ASSUME NEW n \in Nat, NEW b \in Nat, b >= 1
    PROVE  CeilDiv(n + 1, b) = CeilDiv(n, b) + IF n % b = 0 THEN 1 ELSE 0
<1> DEFINE q == n \div b
           m == n % b
<1>1. q \in Nat /\ m \in 0..(b - 1) /\ n = q * b + m
    <2>1. q \in Nat
        OBVIOUS
    <2>2. m \in 0..(b - 1)
        OBVIOUS
    <2>3. n = b * q + m
        OBVIOUS
    <2> QED BY <2>1, <2>2, <2>3
<1> HIDE DEF q, m
<1>2. q * b \in Nat /\ (q + 1) * b = q * b + b
    BY <1>1
<1>3. CASE m = 0
    <2>1. q = CeilDiv(n, b)
        BY <1>1, <1>2, <1>3, CeilDivUnique
    <2>2. q + 1 = CeilDiv(n + 1, b)
        <3>1. n + 1 \in Nat /\ q + 1 \in Nat /\ n + 1 <= (q + 1) * b /\ (q + 1) * b < (n + 1) + b
            BY <1>1, <1>2, <1>3
        <3> QED BY <3>1, CeilDivUnique
    <2> QED BY <1>3, <2>1, <2>2 DEF m
<1>4. CASE m # 0
    <2>1. /\ n + 1 \in Nat /\ q + 1 \in Nat
          /\ n <= (q + 1) * b /\ (q + 1) * b < n + b
          /\ n + 1 <= (q + 1) * b /\ (q + 1) * b < (n + 1) + b
        BY <1>1, <1>2, <1>4
    <2>2. q + 1 = CeilDiv(n, b)
        BY <2>1, CeilDivUnique
    <2>3. q + 1 = CeilDiv(n + 1, b)
        BY <2>1, CeilDivUnique
    <2> QED BY <1>1, <1>4, <2>2, <2>3 DEF m
<1> QED BY <1>3, <1>4
-----------------------------------------------------------------------------
(* The calls of the model, for every batch, every block and every tile size. *)

K == GPT2_N_LAYERS
KvBlocks == 0..(TOTAL - 1)

LEMMA SlotTypes == S \in Nat /\ S >= 1 /\ TOTAL \in Nat /\ K \in Nat /\ K >= 1
BY SizesAssumption DEF S, TOTAL, K

(* Layer l gets the slice (l - 1) * need + 1 .. l * need of the blocks. *)

LEMMA SliceInside ==
    ASSUME NEW need \in Nat, NEW l \in Layers, NEW j \in 1..need
    PROVE  (l - 1) * need + j \in 1..(need * K)
<1>1. l \in Nat /\ l >= 1 /\ l <= K /\ K \in Nat
    BY SlotTypes DEF Layers, K
<1>2. (l - 1) * need \in Nat /\ (K - l) * need \in Nat
    BY <1>1
<1>3. need * K = (l - 1) * need + need + (K - l) * need
    BY <1>1
<1> QED BY <1>2, <1>3

LEMMA SlicesApart ==
    ASSUME NEW need \in Nat, NEW k \in Layers, NEW l \in Layers,
           NEW i \in 1..need, NEW j \in 1..need,
           (k - 1) * need + i = (l - 1) * need + j
    PROVE  k = l /\ i = j
<1>1. k \in Nat /\ l \in Nat /\ k >= 1 /\ l >= 1
    BY SlotTypes DEF Layers, K
<1>2. ASSUME NEW a \in Nat, NEW b \in Nat, a < b PROVE a * need + need <= b * need
    <2>1. (b - a - 1) * need \in Nat
        BY <1>2
    <2>2. b * need = a * need + need + (b - a - 1) * need
        BY <1>2
    <2>3. a * need \in Nat /\ b * need \in Nat
        OBVIOUS
    <2> QED BY <2>1, <2>2, <2>3
<1>3. (k - 1) * need \in Int /\ (l - 1) * need \in Int
    BY <1>1
<1>4. CASE k < l
    BY <1>1, <1>2, <1>3, <1>4
<1>5. CASE l < k
    BY <1>1, <1>2, <1>3, <1>5
<1>6. CASE k = l
    BY <1>1, <1>3, <1>6
<1> QED BY <1>1, <1>4, <1>5, <1>6

\* u is s with t behind it.
IsConcat(u, s, t) ==
    /\ Len(u) = Len(s) + Len(t)
    /\ \A i \in 1..Len(s) : u[i] = s[i]
    /\ \A j \in 1..Len(t) : u[Len(s) + j] = t[j]

LEMMA ConcatIsBoth ==
    ASSUME NEW Y, NEW s \in Seq(Y), NEW t \in Seq(Y)
    PROVE  s \o t \in Seq(Y) /\ IsConcat(s \o t, s, t)
<1>1. /\ s \o t \in Seq(Y)
      /\ Len(s \o t) = Len(s) + Len(t)
      /\ \A i \in 1..(Len(s) + Len(t)) :
            (s \o t)[i] = IF i <= Len(s) THEN s[i] ELSE t[i - Len(s)]
    BY ConcatProperties
<1>2. Len(s) \in Nat /\ Len(t) \in Nat
    OBVIOUS
<1>3. ASSUME NEW j \in 1..Len(t) PROVE (s \o t)[Len(s) + j] = t[j]
    <2>1. Len(s) + j \in 1..(Len(s) + Len(t)) /\ ~(Len(s) + j <= Len(s)) /\ Len(s) + j - Len(s) = j
        BY <1>2
    <2> QED BY <1>1, <2>1
<1> QED BY <1>1, <1>2, <1>3 DEF IsConcat

-----------------------------------------------------------------------------
(* GPT2Model's operators: the hidden rows of a text, the keys flashattention sees. *)

\* The rows of a text after each layer, without a cache.
LEMMA FullHiddenIs ==
    ASSUME NEW ids, NEW n \in Nat
    PROVE  /\ FullHidden(ids, 0) = [t \in DOMAIN ids |-> Embedding(ids[t], t - 1)]
           /\ n > 0 => FullHidden(ids, n) = FullLayer(FullHidden(ids, n - 1), n)
<1> DEFINE emb == [t \in DOMAIN ids |-> Embedding(ids[t], t - 1)]
           Step(x, l) == FullLayer(x, l)
           Is(f, m) == f = [l \in 0..m |-> IF l = 0 THEN emb ELSE Step(f[l - 1], l)]
           Layers_(m) == CHOOSE f : Is(f, m)
<1>1. \A m : FullHidden(ids, m) = Layers_(m)[m]
    BY DEF FullHidden
<1> HIDE DEF emb, Step
<1>2. ASSUME NEW m \in Nat PROVE Is(Layers_(m), m)
    <2> DEFINE T == {k \in 0..m : \E f : Is(f, k)}
    <2>1. 0 \in T
        <3>1. Is([l \in 0..0 |-> emb], 0)
            OBVIOUS
        <3>2. \E f : Is(f, 0)
            <4> HIDE DEF Is
            <4> QED BY <3>1
        <3> HIDE DEF Is
        <3> QED BY <3>2
    <2>2. ASSUME NEW k \in 1..m, k - 1 \in T PROVE k \in T
        <3>1. PICK f : Is(f, k - 1)
            <4> HIDE DEF Is
            <4> QED BY <2>2
        <3> DEFINE g == [l \in 0..k |-> IF l = k THEN Step(f[k - 1], k) ELSE f[l]]
        <3>2. ASSUME NEW l \in 0..k PROVE g[l] = IF l = 0 THEN emb ELSE Step(g[l - 1], l)
            BY <3>1
        <3>3. Is(g, k)
            BY <3>2
        <3> HIDE DEF Is, g
        <3> QED BY <3>3
    <2>3. m \in T
        <3> HIDE DEF T
        <3> QED BY <2>1, <2>2, Induction
    <2> HIDE DEF Is
    <2> QED BY <2>3
<1>3. ASSUME NEW m \in Nat, m > 0 PROVE Layers_(m)[m - 1] = Layers_(m - 1)[m - 1]
    <2> DEFINE f == Layers_(m)
               g == Layers_(m - 1)
               T == {k \in 0..(m - 1) : f[k] = g[k]}
    <2>1. Is(f, m) /\ Is(g, m - 1)
        <3>1. m - 1 \in Nat
            BY <1>3
        <3> HIDE DEF Is, Layers_
        <3> QED BY <1>2, <3>1
    <2> HIDE DEF f, g
    <2>2. 0 \in T
        BY <2>1, <1>3
    <2>3. ASSUME NEW k \in 1..(m - 1), k - 1 \in T PROVE k \in T
        BY <2>1, <2>3
    <2>4. m - 1 \in T
        <3> HIDE DEF T
        <3> QED BY <1>3, <2>2, <2>3, Induction
    <2> QED BY <2>4 DEF f, g
<1>4. FullHidden(ids, 0) = emb
    <2> HIDE DEF Layers_
    <2> QED BY <1>1, <1>2
<1>5. ASSUME n > 0 PROVE FullHidden(ids, n) = Step(FullHidden(ids, n - 1), n)
    <2>1. Is(Layers_(n), n) /\ Layers_(n)[n - 1] = Layers_(n - 1)[n - 1]
        <3> HIDE DEF Is, Layers_
        <3> QED BY <1>2, <1>3, <1>5
    <2> HIDE DEF Layers_
    <2> QED BY <1>1, <1>5, <2>1
<1> QED BY <1>4, <1>5 DEF emb, Step

\* Two texts that begin with the same c tokens.
BeginAlike(ids, ids2, c) ==
    /\ \E n, n2 \in Nat : DOMAIN ids = 1..n /\ DOMAIN ids2 = 1..n2 /\ c <= n /\ c <= n2
    /\ c \in Nat /\ \A t \in 1..c : ids2[t] = ids[t]

\* The rows of a text do not depend on what comes after them.
LEMMA HiddenOfStart ==
    ASSUME NEW ids, NEW ids2, NEW c, BeginAlike(ids, ids2, c), NEW L \in Nat
    PROVE  /\ DOMAIN FullHidden(ids, L) = DOMAIN ids
           /\ \A t \in 1..c : FullHidden(ids2, L)[t] = FullHidden(ids, L)[t]
<1>0. PICK n \in Nat, m \in Nat : DOMAIN ids = 1..n /\ DOMAIN ids2 = 1..m /\ c <= n /\ c <= m
    BY DEF BeginAlike
<1>c. c \in Nat /\ \A t \in 1..c : ids2[t] = ids[t]
    BY DEF BeginAlike
<1> DEFINE T == {l \in 0..L :
              /\ DOMAIN FullHidden(ids, l) = 1..n
              /\ DOMAIN FullHidden(ids2, l) = 1..m
              /\ \A t \in 1..c : FullHidden(ids2, l)[t] = FullHidden(ids, l)[t]}
<1>1. 0 \in T
    <2>1. /\ FullHidden(ids, 0) = [t \in DOMAIN ids |-> Embedding(ids[t], t - 1)]
          /\ FullHidden(ids2, 0) = [t \in DOMAIN ids2 |-> Embedding(ids2[t], t - 1)]
        BY FullHiddenIs
    <2> QED BY <1>0, <1>c, <2>1
<1>2. ASSUME NEW l \in 1..L, l - 1 \in T PROVE l \in T
    <2> DEFINE x == FullHidden(ids, l - 1)
               y == FullHidden(ids2, l - 1)
    <2>1. /\ FullHidden(ids, l) = FullLayer(x, l)
          /\ FullHidden(ids2, l) = FullLayer(y, l)
        BY FullHiddenIs
    <2>2. DOMAIN x = 1..n /\ DOMAIN y = 1..m /\ \A t \in 1..c : y[t] = x[t]
        BY <1>2
    <2> HIDE DEF x, y
    <2>3. DOMAIN FullLayer(x, l) = 1..n /\ DOMAIN FullLayer(y, l) = 1..m
        BY <2>2 DEF FullLayer
    <2>4. ASSUME NEW t \in 1..c PROVE FullLayer(y, l)[t] = FullLayer(x, l)[t]
        <3>1. [u \in 1..t |-> <<Key(l, y[u]), Value(l, y[u])>>]
                 = [u \in 1..t |-> <<Key(l, x[u]), Value(l, x[u])>>]
            BY <1>c, <2>2
        <3>2. t \in 1..n /\ t \in 1..m /\ y[t] = x[t]
            BY <1>0, <1>c, <2>2
        <3> QED BY <2>2, <3>1, <3>2 DEF FullLayer
    <2> QED BY <2>1, <2>3, <2>4
<1>3. \A l \in 0..L : l \in T
    <2> HIDE DEF T
    <2> QED BY <1>1, <1>2, Induction
<1>4. L \in T
    <2> HIDE DEF T
    <2> QED BY <1>3
<1> QED BY <1>0, <1>4

\* A key is visible to a query of the tiles exactly up to the query itself.
LEMMA FlashKeysAre ==
    ASSUME NEW n \in Nat, NEW q \in 0..(n - 1), Br \in Nat \ {0}, Bc \in Nat \ {0}
    PROVE  FlashKeys(q, n) = [j \in 1..(q + 1) |-> j - 1]
<1> DEFINE Smaller(a, b) == IF a < b THEN a ELSE b
           q_start == (q \div Br) * Br
           q_tile_last == Smaller(q_start + Br - 1, n - 1)
           Visible(k) == LET k_start == (k \div Bc) * Bc
                             k_tile_last == Smaller(k_start + Bc - 1, n - 1)
                         IN  /\ k_start <= q_tile_last
                             /\ k < n
                             /\ k_tile_last <= q_start \/ k <= q
           all == ((n - 1) \div Bc + 1) * Bc
           Is(f) == f = [k \in 0..all |->
                      IF k = 0 THEN <<>> ELSE f[k - 1] \o (IF Visible(k - 1) THEN <<k - 1>> ELSE <<>>)]
           After == CHOOSE f : Is(f)
<1>1. FlashKeys(q, n) = After[all]
    BY DEF FlashKeys, Selected
<1>2. q_start \in Nat /\ q_start <= q /\ q <= q_start + Br - 1
    BY SMT
<1>3. all \in Nat /\ all >= n
    BY SMT
<1>4. ASSUME NEW k \in 0..(all - 1) PROVE Visible(k) <=> k <= q
    <2>1. k \in Nat
        BY <1>3
    <2>2. (k \div Bc) * Bc \in Nat /\ (k \div Bc) * Bc <= k /\ k <= (k \div Bc) * Bc + Bc - 1
        BY <2>1, SMT
    <2> HIDE DEF q_start, all
    <2> QED BY <1>2, <2>1, <2>2
<1> HIDE DEF Visible, all
<1> DEFINE Upto(k) == IF k <= q THEN [j \in 1..k |-> j - 1] ELSE [j \in 1..(q + 1) |-> j - 1]
           G == [k \in 0..all |-> Upto(k)]
<1>5. Upto(0) = <<>>
    OBVIOUS
<1>6. ASSUME NEW k \in 1..all PROVE Upto(k) = Upto(k - 1) \o (IF Visible(k - 1) THEN <<k - 1>> ELSE <<>>)
    <2>1. k \in Nat /\ k - 1 \in 0..(all - 1)
        BY <1>3
    <2>2. CASE k - 1 <= q
        <3>1. Upto(k) = [j \in 1..k |-> j - 1] /\ Upto(k - 1) = [j \in 1..(k - 1) |-> j - 1]
            BY <2>1, <2>2
        <3>2. [j \in 1..k |-> j - 1] = [j \in 1..(k - 1) |-> j - 1] \o <<k - 1>>
            BY <2>1
        <3> QED BY <2>1, <2>2, <3>1, <3>2, <1>4
    <2>3. CASE k - 1 > q
        <3>1. Upto(k) = [j \in 1..(q + 1) |-> j - 1] /\ Upto(k - 1) = [j \in 1..(q + 1) |-> j - 1]
            BY <2>1, <2>3
        <3>2. [j \in 1..(q + 1) |-> j - 1] = [j \in 1..(q + 1) |-> j - 1] \o <<>>
            OBVIOUS
        <3> QED BY <2>1, <2>3, <3>1, <3>2, <1>4
    <2> QED BY <2>1, <2>2, <2>3
<1> HIDE DEF Upto
<1>7. Is(G)
    <2>1. ASSUME NEW k \in 0..all
          PROVE G[k] = IF k = 0 THEN <<>> ELSE G[k - 1] \o (IF Visible(k - 1) THEN <<k - 1>> ELSE <<>>)
        <3>1. k = 0 \/ k \in 1..all
            BY <1>3
        <3>2. k # 0 => k - 1 \in 0..all
            BY <1>3
        <3> QED BY <1>5, <1>6, <3>1, <3>2
    <2> QED BY <2>1
<1>8. Is(After)
    <2>1. \E f : Is(f)
        <3> HIDE DEF G, Is
        <3> QED BY <1>7
    <2> HIDE DEF Is
    <2> QED BY <2>1
<1> HIDE DEF After
\* What a loop leaves is determined by its turns.
<1> DEFINE T == {k \in 0..all : After[k] = Upto(k)}
<1>9. 0 \in T
    BY <1>3, <1>5, <1>8
<1>10. ASSUME NEW k \in 1..all, k - 1 \in T PROVE k \in T
    <2>1. k \in 0..all /\ k # 0 /\ After[k - 1] = Upto(k - 1)
        BY <1>3, <1>10
    <2>2. After[k] = After[k - 1] \o (IF Visible(k - 1) THEN <<k - 1>> ELSE <<>>)
        BY <1>8, <2>1
    <2>3. After[k] = Upto(k)
        BY <1>6, <2>1, <2>2
    <2> QED BY <2>1, <2>3
<1>11. all \in T
    <2> HIDE DEF T
    <2> QED BY <1>3, <1>9, <1>10, Induction
<1>12. After[all] = Upto(all)
    BY <1>11
<1>13. Upto(all) = [j \in 1..(q + 1) |-> j - 1]
    <2>1. all >= q + 1
        BY <1>3
    <2>2. all = q + 1 \/ all > q + 1
        BY <2>1, <1>3
    <2> QED BY <2>2, <1>3 DEF Upto
<1> QED BY <1>1, <1>12, <1>13

-----------------------------------------------------------------------------
(* The requests of a batch, one behind the other. *)

\* The parts of a flattened batch: where the i-th begins.
LEMMA BeforeIs ==
    ASSUME NEW n \in Nat, NEW lens \in [1..n -> Nat]
    PROVE  /\ Before(lens, 1) = 0
           /\ \A i \in 1..n : Before(lens, i + 1) = Before(lens, i) + lens[i]
           /\ \A i \in 1..(n + 1) : Before(lens, i) \in Nat
<1> DEFINE Is(f) == f = [j \in 1..(n + 1) |-> IF j = 1 THEN 0 ELSE f[j - 1] + lens[j - 1]]
           Sum == CHOOSE f : Is(f)
<1>1. \A i : Before(lens, i) = Sum[i]
    <2>1. Len(lens) = n
        OBVIOUS
    <2> QED BY <2>1 DEF Before
<1>2. \E f : Is(f)
    <2> DEFINE step == [i \in 1..n |-> [m \in Nat |-> m + lens[i]]]
    <2>1. step \in [1..n -> [Nat -> Nat]]
        OBVIOUS
    <2>2. PICK g : IsLoop(g, n, Nat, 0, step)
        <3> HIDE DEF step
        <3> QED BY <2>1, LoopExists
    <2>3. g[0] = 0 /\ \A i \in 1..n : g[i] = g[i - 1] + lens[i]
        <3>1. g[0] = 0 /\ \A i \in 1..n : g[i] = step[i][g[i - 1]] /\ g[i - 1] \in Nat
            <4> HIDE DEF step
            <4> QED BY <2>2 DEF IsLoop
        <3> QED BY <3>1
    <2> DEFINE f == [j \in 1..(n + 1) |-> g[j - 1]]
    <2>4. ASSUME NEW j \in 1..(n + 1) PROVE g[j - 1] = IF j = 1 THEN 0 ELSE f[j - 1] + lens[j - 1]
        BY <2>3
    <2>5. Is(f)
        <3> HIDE DEF f
        <3>1. f = [j \in 1..(n + 1) |-> g[j - 1]]
            BY DEF f
        <3> QED BY <3>1, <2>4
    <2> HIDE DEF Is, f
    <2> QED BY <2>5
<1>3. Is(Sum)
    <2> HIDE DEF Is
    <2> QED BY <1>2
<1> HIDE DEF Sum
<1>4. Sum[1] = 0 /\ \A i \in 1..n : Sum[i + 1] = Sum[i] + lens[i]
    BY <1>3
<1> DEFINE T == {i \in 0..n : Sum[i + 1] \in Nat}
<1>5. 0 \in T
    BY <1>4
<1>6. ASSUME NEW i \in 1..n, i - 1 \in T PROVE i \in T
    BY <1>4, <1>6
<1>7. \A i \in 0..n : i \in T
    <2> HIDE DEF T
    <2> QED BY <1>5, <1>6, Induction
<1>8. ASSUME NEW i \in 1..(n + 1) PROVE Sum[i] \in Nat
    <2>1. i - 1 \in T
        <3> HIDE DEF T
        <3> QED BY <1>7
    <2> QED BY <2>1
<1> QED BY <1>1, <1>4, <1>8

\* Every place of the batch is in one of its parts.
LEMMA EveryPlaceIsInAPart ==
    ASSUME NEW n \in Nat, NEW lens \in [1..n -> Nat], NEW k \in 1..Before(lens, n + 1)
    PROVE  \E i \in 1..n : \E j \in 1..lens[i] : k = Before(lens, i) + j
<1> DEFINE B(i) == Before(lens, i)
           T == {m \in 0..n : k <= B(m + 1) => \E i \in 1..n : \E j \in 1..lens[i] : k = B(i) + j}
<1>1. B(1) = 0 /\ (\A i \in 1..n : B(i + 1) = B(i) + lens[i]) /\ (\A i \in 1..(n + 1) : B(i) \in Nat)
    BY BeforeIs
<1> HIDE DEF B
<1>2. k \in Nat /\ k >= 1 /\ k <= B(n + 1)
    BY <1>1 DEF B
<1>3. 0 \in T
    BY <1>1, <1>2
<1>4. ASSUME NEW m \in 1..n, m - 1 \in T PROVE m \in T
    <2>1. B(m) \in Nat /\ B(m + 1) = B(m) + lens[m] /\ lens[m] \in Nat
        BY <1>1
    <2>2. CASE k <= B(m)
        <3>1. (m - 1) + 1 = m
            OBVIOUS
        <3> QED BY <1>4, <2>2, <3>1
    <2>3. CASE k > B(m) /\ k <= B(m + 1)
        <3>1. k - B(m) \in 1..lens[m] /\ k = B(m) + (k - B(m))
            BY <1>2, <2>1, <2>3
        <3>2. \E i \in 1..n : \E j \in 1..lens[i] : k = B(i) + j
            <4> WITNESS m \in 1..n
            <4> QED BY <3>1
        <3> QED BY <3>2
    <2> QED BY <1>2, <2>1, <2>2, <2>3
<1>5. \A m \in 0..n : m \in T
    <2> HIDE DEF T
    <2> QED BY <1>3, <1>4, Induction
<1>6. n \in T
    <2> HIDE DEF T
    <2> QED BY <1>5
<1> QED BY <1>2, <1>6 DEF B

\* Lists of these lengths, and what they are one after the other.
ArePartsOf(n, lens, X, ss) ==
    /\ n \in Nat \ {0} /\ lens \in [1..n -> Nat]
    /\ ss \in [1..n -> Seq(X)] /\ \A i \in 1..n : Len(ss[i]) = lens[i]

IsBatch(n, lens, X, ss, u) ==
    /\ u \in Seq(X) /\ Len(u) = Before(lens, n + 1)
    /\ \A i \in 1..n : \A j \in 1..lens[i] :
          /\ Before(lens, i) + j \in 1..Len(u)
          /\ u[Before(lens, i) + j] = ss[i][j]

LEMMA FlattenParts ==
    ASSUME NEW n, NEW lens, NEW X, NEW ss, ArePartsOf(n, lens, X, ss)
    PROVE  IsBatch(n, lens, X, ss, FlattenSeq(ss))
<1> USE DEF ArePartsOf
<1> DEFINE B(i) == Before(lens, i)
           IsTotal(f) == f = [i \in 1..n |-> IF i = 1 THEN ss[i] ELSE f[i - 1] \o ss[i]]
           total == CHOOSE f : IsTotal(f)
           IsPart(t, i) == /\ t \in Seq(X) /\ Len(t) = B(i + 1)
                           /\ \A l \in 1..i : \A j \in 1..lens[l] :
                                 B(l) + j \in 1..Len(t) /\ t[B(l) + j] = ss[l][j]
<1>1. Len(ss) = n
    OBVIOUS
<1>2. FlattenSeq(ss) = total[n]
    BY <1>1 DEF FlattenSeq
<1>b. B(1) = 0 /\ (\A i \in 1..n : B(i + 1) = B(i) + lens[i]) /\ (\A i \in 1..(n + 1) : B(i) \in Nat)
    BY BeforeIs
<1> HIDE DEF B
<1>3. \E f : IsTotal(f)
    <2> DEFINE step == [i \in 1..n |-> [t \in Seq(X) |-> IF i = 1 THEN ss[1] ELSE t \o ss[i]]]
    <2>1. step \in [1..n -> [Seq(X) -> Seq(X)]] /\ <<>> \in Seq(X)
        OBVIOUS
    <2>2. PICK g : IsLoop(g, n, Seq(X), <<>>, step)
        <3> HIDE DEF step
        <3> QED BY <2>1, LoopExists
    <2> DEFINE f == [i \in 1..n |-> g[i]]
    <2>3. ASSUME NEW i \in 1..n
          PROVE  g[i] = IF i = 1 THEN ss[i] ELSE g[i - 1] \o ss[i]
        <3>1. g[i - 1] \in Seq(X) /\ g[i] = step[i][g[i - 1]]
            <4>1. i \in 1..n /\ i - 1 \in 0..n
                OBVIOUS
            <4> HIDE DEF step
            <4> QED BY <4>1, <2>2 DEF IsLoop
        <3>2. step[i] = [t \in Seq(X) |-> IF i = 1 THEN ss[1] ELSE t \o ss[i]]
            OBVIOUS
        <3> HIDE DEF step
        <3> QED BY <3>1, <3>2
    <2>4. ASSUME NEW i \in 1..n
          PROVE  f[i] = IF i = 1 THEN ss[i] ELSE f[i - 1] \o ss[i]
        <3>1. i # 1 => i - 1 \in 1..n
            OBVIOUS
        <3> QED BY <2>3, <3>1
    <2>5. f = [i \in 1..n |-> IF i = 1 THEN ss[i] ELSE f[i - 1] \o ss[i]]
        <3>1. f = [i \in 1..n |-> f[i]]
            OBVIOUS
        <3>2. [i \in 1..n |-> f[i]] = [i \in 1..n |-> IF i = 1 THEN ss[i] ELSE f[i - 1] \o ss[i]]
            <4> HIDE DEF f
            <4> QED BY <2>4, Zenon
        <3> HIDE DEF f
        <3> QED BY <3>1, <3>2
    <2> QED BY <2>5
<1>4. IsTotal(total)
    <2> HIDE DEF IsTotal
    <2> QED BY <1>3
<1> HIDE DEF total
<1>5. \A i \in 1..n : total[i] = IF i = 1 THEN ss[i] ELSE total[i - 1] \o ss[i]
    BY <1>4
<1> DEFINE T == {i \in 0..n : i > 0 => IsPart(total[i], i)}
<1>6. 0 \in T
    OBVIOUS
<1>7. ASSUME NEW i \in 1..n, i - 1 \in T PROVE i \in T
    <2>1. CASE i = 1
        <3>1. total[1] = ss[1] /\ B(1) = 0 /\ B(2) = lens[1] /\ lens[1] \in Nat
            BY <2>1, <1>5, <1>b
        <3>2. IsPart(total[1], 1)
            BY <3>1
        <3> QED BY <2>1, <3>2
    <2>2. CASE i # 1
        <3>1. IsPart(total[i - 1], i - 1) /\ i - 1 \in 1..n
            BY <2>2, <1>7
        <3>2. total[i] = total[i - 1] \o ss[i]
            BY <2>2, <1>5
        <3>3. total[i] \in Seq(X) /\ IsConcat(total[i], total[i - 1], ss[i])
            <4>1. total[i - 1] \in Seq(X) /\ ss[i] \in Seq(X)
                BY <3>1
            <4> QED BY <3>2, <4>1, ConcatIsBoth
        <3>4. Len(total[i - 1]) = B(i) /\ B(i + 1) = B(i) + lens[i] /\ B(i) \in Nat /\ lens[i] \in Nat
            <4>1. (i - 1) + 1 = i
                OBVIOUS
            <4> QED BY <3>1, <4>1, <1>b
        <3>5. Len(total[i]) = B(i + 1)
            BY <3>3, <3>4 DEF IsConcat
        <3>6. ASSUME NEW l \in 1..i, NEW j \in 1..lens[l]
              PROVE  B(l) + j \in 1..Len(total[i]) /\ total[i][B(l) + j] = ss[l][j]
            <4>1. CASE l = i
                <5>1. /\ Len(ss[i]) = lens[i] /\ j \in 1..Len(ss[i])
                      /\ total[i][Len(total[i - 1]) + j] = ss[i][j]
                    BY <4>1, <3>3, <3>4 DEF IsConcat
                <5>2. B(l) + j \in 1..B(i + 1)
                    BY <4>1, <3>4
                <5> QED BY ONLY <4>1, <5>1, <5>2, <3>4, <3>5
            <4>2. CASE l # i
                <5>1. l \in 1..(i - 1)
                    BY <4>2
                <5>2. B(l) + j \in 1..Len(total[i - 1]) /\ total[i - 1][B(l) + j] = ss[l][j]
                    BY <5>1, <3>1
                <5>3. total[i][B(l) + j] = total[i - 1][B(l) + j]
                    BY <5>2, <3>3 DEF IsConcat
                <5> QED BY <5>2, <5>3, <3>4, <3>5
            <4> QED BY <4>1, <4>2
        <3> QED BY <3>3, <3>5, <3>6
    <2> QED BY <2>1, <2>2
<1>8. \A i \in 0..n : i \in T
    <2> HIDE DEF T
    <2> QED BY <1>6, <1>7, Induction
<1>9. IsPart(total[n], n)
    <2>1. n \in T
        <3> HIDE DEF T
        <3> QED BY <1>8
    <2> HIDE DEF IsPart
    <2> QED BY <2>1
<1> QED BY ONLY <1>2, <1>9 DEF IsBatch, B

-----------------------------------------------------------------------------
(* Writing keys and values into the pool. *)

\* What the kernels take for the key and the value at offset o of block b.
Cell(m, b, o) == <<m[KRow(b, o)], m[VRow(b, o)]>>
Entry(l, x) == <<Key(l, x), Value(l, x)>>

IsPool(m) == m = [a \in 0..(2 * TOTAL * S - 1) |-> m[a]]

LEMMA CellsApart ==
    ASSUME NEW b \in KvBlocks, NEW c \in KvBlocks, NEW o \in 0..(S - 1), NEW p \in 0..(S - 1)
    PROVE  /\ KRow(b, o) \in 0..(2 * TOTAL * S - 1) /\ VRow(b, o) \in 0..(2 * TOTAL * S - 1)
           /\ KRow(b, o) # VRow(c, p)
           /\ (b # c \/ o # p) => /\ KRow(b, o) # KRow(c, p)
                                  /\ VRow(b, o) # VRow(c, p)
<1>1. /\ S \in Nat /\ S >= 1 /\ TOTAL \in Nat
      /\ b \in Nat /\ c \in Nat /\ TOTAL - 1 - b \in Nat /\ TOTAL - 1 - c \in Nat
    BY SlotTypes DEF KvBlocks, TOTAL
<1>2. /\ b * S \in Nat /\ c * S \in Nat /\ (TOTAL - 1 - b) * S \in Nat /\ (TOTAL - 1 - c) * S \in Nat
      /\ TOTAL * S \in Nat
    BY <1>1
<1>3. /\ TOTAL * S = b * S + S + (TOTAL - 1 - b) * S /\ TOTAL * S = c * S + S + (TOTAL - 1 - c) * S
      /\ 2 * TOTAL * S = 2 * (TOTAL * S)
    BY <1>1
<1>4. /\ KRow(b, o) = b * S + o /\ VRow(b, o) = TOTAL * S + b * S + o
      /\ KRow(c, p) = c * S + p /\ VRow(c, p) = TOTAL * S + c * S + p
    BY DEF KRow, VRow
<1>5. b < c => b * S + S <= c * S
    <2>1. SUFFICES ASSUME b < c PROVE b * S + S <= c * S
        OBVIOUS
    <2>2. (c - 1 - b) * S \in Nat
        BY <1>1, <2>1
    <2>3. c * S = b * S + S + (c - 1 - b) * S
        BY <1>1
    <2> QED BY <1>2, <1>1, <2>2, <2>3
<1>6. c < b => c * S + S <= b * S
    <2>1. SUFFICES ASSUME c < b PROVE c * S + S <= b * S
        OBVIOUS
    <2>2. (b - 1 - c) * S \in Nat
        BY <1>1, <2>1
    <2>3. b * S = c * S + S + (b - 1 - c) * S
        BY <1>1
    <2> QED BY <1>2, <1>1, <2>2, <2>3
<1>7. KRow(b, o) \in 0..(2 * TOTAL * S - 1) /\ VRow(b, o) \in 0..(2 * TOTAL * S - 1)
    BY <1>1, <1>2, <1>3, <1>4
<1>8. KRow(b, o) # VRow(c, p)
    BY <1>1, <1>2, <1>3, <1>4
<1>9. ASSUME b # c \/ o # p PROVE b * S + o # c * S + p
    <2>1. CASE b < c
        BY <1>1, <1>2, <1>5, <2>1
    <2>2. CASE c < b
        BY <1>1, <1>2, <1>6, <2>2
    <2>3. CASE b = c
        BY <1>9, <1>2, <2>3
    <2> QED BY <1>1, <2>1, <2>2, <2>3
<1> QED BY <1>2, <1>4, <1>7, <1>8, <1>9

\* Different places for n rows.
AreApart(n, to) ==
    /\ \A i \in 1..n : to[i][1] \in KvBlocks /\ to[i][2] \in 0..(S - 1)
    /\ \A i, j \in 1..n : i # j => to[i][1] # to[j][1] \/ to[i][2] # to[j][2]

\* end is m with the rows x of layer l at these places, and otherwise as it was.
Wrote(m, l, n, x, to, end) ==
    /\ IsPool(end)
    /\ \A i \in 1..n : Cell(end, to[i][1], to[i][2]) = Entry(l, x[i])
    /\ \A b \in KvBlocks, o \in 0..(S - 1) :
          (\A i \in 1..n : to[i][1] # b \/ to[i][2] # o) => Cell(end, b, o) = Cell(m, b, o)

\* append_prefill_kv: each row of the batch is where it was sent, and nothing
\* else is changed.
LEMMA AppendKvIs ==
    ASSUME NEW m, IsPool(m), NEW l, NEW n \in Nat, NEW x, Len(x) = n, NEW to, AreApart(n, to)
    PROVE  Wrote(m, l, n, x, to, AppendKv(m, l, x, to))
<1> USE DEF AreApart
<1> DEFINE Put(p, i) == [p EXCEPT ![KRow(to[i][1], to[i][2])] = Key(l, x[i]),
                                  ![VRow(to[i][1], to[i][2])] = Value(l, x[i])]
           Is(f, k) == f = [i \in 0..k |-> IF i = 0 THEN m ELSE Put(f[i - 1], i)]
           After == CHOOSE f : Is(f, n)
<1>1. AppendKv(m, l, x, to) = After[n]
    BY DEF AppendKv
<1>p. ASSUME NEW p, IsPool(p), NEW i \in 1..n
      PROVE  /\ IsPool(Put(p, i))
             /\ Cell(Put(p, i), to[i][1], to[i][2]) = Entry(l, x[i])
             /\ \A b \in KvBlocks, o \in 0..(S - 1) :
                   to[i][1] # b \/ to[i][2] # o => Cell(Put(p, i), b, o) = Cell(p, b, o)
    <2> DEFINE k == KRow(to[i][1], to[i][2])
               v == VRow(to[i][1], to[i][2])
    <2>1. k \in 0..(2 * TOTAL * S - 1) /\ v \in 0..(2 * TOTAL * S - 1) /\ k # v
        BY CellsApart
    <2>2. DOMAIN p = 0..(2 * TOTAL * S - 1)
        BY <1>p DEF IsPool
    <2>3. IsPool(Put(p, i))
        BY <2>1, <2>2 DEF IsPool
    <2>4. Put(p, i)[k] = Key(l, x[i]) /\ Put(p, i)[v] = Value(l, x[i])
        BY <2>1, <2>2
    <2>5. ASSUME NEW b \in KvBlocks, NEW o \in 0..(S - 1), to[i][1] # b \/ to[i][2] # o
          PROVE  Cell(Put(p, i), b, o) = Cell(p, b, o)
        <3>1. /\ KRow(b, o) \in DOMAIN p /\ VRow(b, o) \in DOMAIN p
              /\ KRow(b, o) # k /\ KRow(b, o) # v
              /\ VRow(b, o) # k /\ VRow(b, o) # v
            BY <2>2, <2>5, CellsApart
        <3> HIDE DEF k, v
        <3>2. Put(p, i) = [p EXCEPT ![k] = Key(l, x[i]), ![v] = Value(l, x[i])]
            BY DEF k, v
        <3> HIDE DEF Put
        <3> QED BY <3>1, <3>2 DEF Cell
    <2> QED BY <2>3, <2>4, <2>5 DEF Cell, Entry
<1> HIDE DEF Put
<1>2. \E f : Is(f, n)
    <2> DEFINE T == {k \in 0..n : \E f : Is(f, k)}
    <2>1. 0 \in T
        <3>1. Is([i \in 0..0 |-> m], 0)
            OBVIOUS
        <3>2. \E f : Is(f, 0)
            <4> HIDE DEF Is
            <4> QED BY <3>1
        <3> HIDE DEF Is
        <3> QED BY <3>2
    <2>2. ASSUME NEW k \in 1..n, k - 1 \in T PROVE k \in T
        <3>1. PICK f : Is(f, k - 1)
            <4> HIDE DEF Is
            <4> QED BY <2>2
        <3> DEFINE g == [i \in 0..k |-> IF i = k THEN Put(f[k - 1], k) ELSE f[i]]
        <3>2. ASSUME NEW i \in 0..k PROVE g[i] = IF i = 0 THEN m ELSE Put(g[i - 1], i)
            BY <3>1
        <3>3. Is(g, k)
            BY <3>2
        <3> HIDE DEF Is, g
        <3> QED BY <3>3
    <2>3. \A k \in 0..n : k \in T
        <3> HIDE DEF T
        <3> QED BY <2>1, <2>2, Induction
    <2> HIDE DEF Is
    <2> QED BY <2>3
<1>3. Is(After, n)
    <2> HIDE DEF Is
    <2> QED BY <1>2
<1> HIDE DEF After
<1>4. After[0] = m /\ \A i \in 1..n : After[i] = Put(After[i - 1], i)
    BY <1>3
\* After k turns.
<1> DEFINE Inv(k) ==
        /\ IsPool(After[k])
        /\ \A i \in 1..k : Cell(After[k], to[i][1], to[i][2]) = Entry(l, x[i])
        /\ \A b \in KvBlocks, o \in 0..(S - 1) :
              (\A i \in 1..k : to[i][1] # b \/ to[i][2] # o) => Cell(After[k], b, o) = Cell(m, b, o)
           T == {k \in 0..n : Inv(k)}
<1>5. 0 \in T
    BY <1>4
<1>6. ASSUME NEW k \in 1..n, k - 1 \in T PROVE k \in T
    <2>1. Inv(k - 1) /\ After[k] = Put(After[k - 1], k)
        BY <1>4, <1>6
    <2>2. /\ IsPool(After[k])
          /\ Cell(After[k], to[k][1], to[k][2]) = Entry(l, x[k])
          /\ \A b \in KvBlocks, o \in 0..(S - 1) :
                to[k][1] # b \/ to[k][2] # o => Cell(After[k], b, o) = Cell(After[k - 1], b, o)
        BY <1>p, <2>1
    <2>3. ASSUME NEW i \in 1..k PROVE Cell(After[k], to[i][1], to[i][2]) = Entry(l, x[i])
        <3>1. CASE i = k
            BY <2>2, <3>1
        <3>2. CASE i # k
            <4>1. i \in 1..(k - 1) /\ i \in 1..n
                BY <3>2
            <4>2. to[k][1] # to[i][1] \/ to[k][2] # to[i][2]
                BY <3>2, <4>1
            <4> QED BY <2>1, <2>2, <4>1, <4>2
        <3> QED BY <3>1, <3>2
    <2>4. ASSUME NEW b \in KvBlocks, NEW o \in 0..(S - 1),
                 \A i \in 1..k : to[i][1] # b \/ to[i][2] # o
          PROVE  Cell(After[k], b, o) = Cell(m, b, o)
        <3>1. \A i \in 1..(k - 1) : to[i][1] # b \/ to[i][2] # o
            BY <2>4
        <3>2. Cell(After[k - 1], b, o) = Cell(m, b, o)
            BY <2>1, <3>1
        <3>3. to[k][1] # b \/ to[k][2] # o
            BY <2>4
        <3> QED BY <2>2, <3>2, <3>3
    <2> QED BY <2>2, <2>3, <2>4
<1>7. \A k \in 0..n : k \in T
    <2> HIDE DEF T
    <2> QED BY <1>5, <1>6, Induction
<1>8. Inv(n)
    <2>1. n \in T
        <3> HIDE DEF T
        <3> QED BY <1>7
    <2> HIDE DEF Inv
    <2> QED BY <2>1
<1> QED BY <1>1, <1>8 DEF Wrote

LEMMA HiddenRows ==
    ASSUME NEW ids, NEW n \in Nat, DOMAIN ids = 1..n, NEW l \in Nat
    PROVE  FullHidden(ids, l) = [t \in 1..n |-> FullHidden(ids, l)[t]]
<1> DEFINE f == FullHidden(ids, l)
<1>1. DOMAIN f = 1..n
    <2>1. BeginAlike(ids, ids, 0)
        BY DEF BeginAlike
    <2> QED BY <2>1, HiddenOfStart
<1>2. f = [t \in DOMAIN f |-> f[t]]
    <2>1. CASE l = 0
        <3>1. f = [t \in DOMAIN ids |-> Embedding(ids[t], t - 1)]
            BY <2>1, FullHiddenIs
        <3> QED BY <3>1
    <2>2. CASE l > 0
        <3>1. f = FullLayer(FullHidden(ids, l - 1), l)
            BY <2>2, FullHiddenIs
        <3> QED BY <3>1 DEF FullLayer
    <2> QED BY <2>1, <2>2
<1> QED BY <1>1, <1>2

LEMMA PrefillRowsAre ==
    ASSUME NEW n \in Nat, NEW x, x = [t \in 1..n |-> x[t]], NEW l
    PROVE  PrefillRows(l, x) = FullLayer(x, l)
<1>1. DOMAIN x = 1..n /\ Len(x) = n
    OBVIOUS
<1> DEFINE keys(q) == FlashKeys(q - 1, n)
           one(q) == Block(l, x[q], [j \in DOMAIN keys(q) |->
                        <<Key(l, x[keys(q)[j] + 1]), Value(l, x[keys(q)[j] + 1])>>])
           two(q) == Block(l, x[q], [u \in 1..q |-> <<Key(l, x[u]), Value(l, x[u])>>])
<1>2. ASSUME NEW q \in 1..n PROVE one(q) = two(q)
    <2>1. keys(q) = [j \in 1..q |-> j - 1]
        <3>1. q - 1 \in 0..(n - 1) /\ (q - 1) + 1 = q
            OBVIOUS
        <3>2. Br \in Nat \ {0} /\ Bc \in Nat \ {0}
            BY GPT2ModelAssumption
        <3> QED BY <3>1, <3>2, FlashKeysAre
    <2>2. ASSUME NEW j \in 1..q PROVE keys(q)[j] + 1 = j
        BY <2>1
    <2>3. DOMAIN keys(q) = 1..q
        BY <2>1
    <2> HIDE DEF keys
    <2>4. [j \in DOMAIN keys(q) |-> <<Key(l, x[keys(q)[j] + 1]), Value(l, x[keys(q)[j] + 1])>>]
             = [u \in 1..q |-> <<Key(l, x[u]), Value(l, x[u])>>]
        BY <2>2, <2>3
    <2> QED BY <2>4
<1>3. PrefillRows(l, x) = [q \in 1..n |-> one(q)]
    BY <1>1 DEF PrefillRows
<1>4. FullLayer(x, l) = [q \in 1..n |-> two(q)]
    BY <1>1 DEF FullLayer
<1> HIDE DEF one, two
<1> QED BY <1>2, <1>3, <1>4

\* Token t of a table of c blocks has a place in it, and no other has the same.
LEMMA PlaceIs ==
    ASSUME NEW c \in Nat, NEW t \in 0..(c * S - 1)
    PROVE  t \div S + 1 \in 1..c /\ t % S \in 0..(S - 1) /\ t = S * (t \div S) + (t % S)
<1>1. S \in Nat /\ S >= 1 /\ t \in Nat /\ c * S \in Nat /\ t < c * S
    BY SlotTypes
<1>2. t \div S \in Nat /\ t % S \in 0..(S - 1) /\ t = S * (t \div S) + (t % S)
    <2>1. t \div S \in Nat
        BY <1>1
    <2>2. t % S \in 0..(S - 1)
        BY <1>1
    <2>3. t = S * (t \div S) + (t % S)
        BY <1>1
    <2> QED BY <2>1, <2>2, <2>3
<1>3. t \div S < c
    <2> DEFINE q == t \div S
    <2>1. SUFFICES ASSUME q >= c PROVE FALSE
        BY <1>2
    <2> HIDE DEF q
    <2>2. q \in Nat /\ q - c \in Nat
        BY <1>2, <2>1 DEF q
    <2>3. (q - c) * S \in Nat
        BY <1>1, <2>2
    <2>5. S * q = c * S + (q - c) * S
        BY <1>1, <2>2
    <2>4. t >= S * q
        <3>1. t = S * q + (t % S) /\ t % S >= 0 /\ t % S \in Int
            BY <1>2 DEF q
        <3>2. S * q \in Int
            BY <1>1, <2>2
        <3> QED BY ONLY <3>1, <3>2
    <2> QED BY <1>1, <2>3, <2>4, <2>5
<1> QED BY <1>2, <1>3

-----------------------------------------------------------------------------
(* Where the tokens of a request are. *)

\* Where token t of a request is in layer l.
BlockOf(kv, l, t) == kv[l].blocks[(t - 1) \div S + 1]
OffsetOf(t) == (t - 1) % S
At(m, kv, l, t) == Cell(m, BlockOf(kv, l, t), OffsetOf(t))

\* A batch whose requests have no block in common, nor two layers of one.
BatchOK(reqs, n) ==
    /\ n \in Nat \ {0} /\ reqs = [i \in 1..n |-> reqs[i]]
    /\ \A i \in 1..n, l \in Layers : reqs[i].layer_kv[l].blocks \in Seq(KvBlocks)
    /\ \A i, i2 \in 1..n, l, l2 \in Layers :
          \A j \in 1..Len(reqs[i].layer_kv[l].blocks), j2 \in 1..Len(reqs[i2].layer_kv[l2].blocks) :
             reqs[i].layer_kv[l].blocks[j] = reqs[i2].layer_kv[l2].blocks[j2]
                => i = i2 /\ l = l2 /\ j = j2

Room(reqs, i, l) == Len(reqs[i].layer_kv[l].blocks) * S

LEMMA TableIs ==
    ASSUME NEW reqs, NEW n, BatchOK(reqs, n), NEW i \in 1..n, NEW l \in Layers
    PROVE  /\ reqs[i].layer_kv[l].blocks \in Seq(KvBlocks)
           /\ Len(reqs[i].layer_kv[l].blocks) \in Nat
<1>1. reqs[i].layer_kv[l].blocks \in Seq(KvBlocks)
    BY DEF BatchOK
<1> QED BY <1>1, LenProperties, Zenon

LEMMA RoomIs ==
    ASSUME NEW reqs, NEW n, BatchOK(reqs, n), NEW i \in 1..n, NEW l \in Layers
    PROVE  Room(reqs, i, l) \in Nat
<1> DEFINE c == Len(reqs[i].layer_kv[l].blocks)
<1>1. c \in Nat
    BY TableIs
<1> HIDE DEF c
<1>2. S \in Nat
    BY SlotTypes
<1>3. c * S \in Nat
    BY ONLY <1>1, <1>2
<1> QED BY <1>3 DEF Room, c

\* A token the table has room for has a place in one of its blocks.
LEMMA PlaceOfToken ==
    ASSUME NEW reqs, NEW n, BatchOK(reqs, n), NEW i \in 1..n, NEW l \in Layers,
           NEW t \in 1..Room(reqs, i, l)
    PROVE  /\ Place(reqs[i].layer_kv[l], t - 1) = <<BlockOf(reqs[i].layer_kv, l, t), OffsetOf(t)>>
           /\ (t - 1) \div S + 1 \in 1..Len(reqs[i].layer_kv[l].blocks)
           /\ BlockOf(reqs[i].layer_kv, l, t) \in KvBlocks
           /\ OffsetOf(t) \in 0..(S - 1) /\ t - 1 = S * ((t - 1) \div S) + OffsetOf(t)
<1> DEFINE c == Len(reqs[i].layer_kv[l].blocks)
<1>1. reqs[i].layer_kv[l].blocks \in Seq(KvBlocks)
    BY TableIs
<1>2. c \in Nat /\ S \in Nat /\ c * S \in Nat
    <2>1. c \in Nat
        BY TableIs
    <2> HIDE DEF c
    <2>2. S \in Nat
        BY SlotTypes
    <2> QED BY ONLY <2>1, <2>2
<1>3. t - 1 \in 0..(c * S - 1)
    BY <1>2, RoomIs DEF Room
<1>4. /\ (t - 1) \div S + 1 \in 1..c /\ (t - 1) % S \in 0..(S - 1)
      /\ t - 1 = S * ((t - 1) \div S) + ((t - 1) % S)
    <2> HIDE DEF c
    <2> QED BY <1>2, <1>3, PlaceIs
<1>5. Place(reqs[i].layer_kv[l], t - 1) = <<BlockOf(reqs[i].layer_kv, l, t), OffsetOf(t)>>
    BY DEF Place, BlockOf, OffsetOf
<1>6. BlockOf(reqs[i].layer_kv, l, t) \in KvBlocks
    <2>1. (t - 1) \div S + 1 \in DOMAIN reqs[i].layer_kv[l].blocks
        BY <1>1, <1>4
    <2> QED BY ONLY <1>1, <2>1 DEF BlockOf
<1> HIDE DEF c
<1>7. OffsetOf(t) \in 0..(S - 1) /\ t - 1 = S * ((t - 1) \div S) + OffsetOf(t)
    BY ONLY <1>4 DEF OffsetOf
<1> QED BY <1>4, <1>5, <1>6, <1>7 DEF c

\* No two tokens have the same place.
LEMMA PlacesApart ==
    ASSUME NEW reqs, NEW n, BatchOK(reqs, n),
           NEW i \in 1..n, NEW l \in Layers, NEW t \in 1..Room(reqs, i, l),
           NEW i2 \in 1..n, NEW l2 \in Layers, NEW t2 \in 1..Room(reqs, i2, l2),
           BlockOf(reqs[i].layer_kv, l, t) = BlockOf(reqs[i2].layer_kv, l2, t2),
           OffsetOf(t) = OffsetOf(t2)
    PROVE  i = i2 /\ l = l2 /\ t = t2
<1>1. /\ (t - 1) \div S + 1 \in 1..Len(reqs[i].layer_kv[l].blocks)
      /\ (t2 - 1) \div S + 1 \in 1..Len(reqs[i2].layer_kv[l2].blocks)
      /\ t - 1 = S * ((t - 1) \div S) + OffsetOf(t)
      /\ t2 - 1 = S * ((t2 - 1) \div S) + OffsetOf(t2)
    BY PlaceOfToken
<1>2. i = i2 /\ l = l2 /\ (t - 1) \div S + 1 = (t2 - 1) \div S + 1
    <2> DEFINE j == (t - 1) \div S + 1
               j2 == (t2 - 1) \div S + 1
    <2>1. /\ j \in 1..Len(reqs[i].layer_kv[l].blocks)
          /\ j2 \in 1..Len(reqs[i2].layer_kv[l2].blocks)
          /\ reqs[i].layer_kv[l].blocks[j] = reqs[i2].layer_kv[l2].blocks[j2]
        BY <1>1 DEF BlockOf
    <2> HIDE DEF j, j2
    <2> DEFINE bs(x, y) == reqs[x].layer_kv[y].blocks
    <2>2. \A x, x2 \in 1..n, y, y2 \in Layers : \A z \in 1..Len(bs(x, y)), z2 \in 1..Len(bs(x2, y2)) :
             bs(x, y)[z] = bs(x2, y2)[z2] => x = x2 /\ y = y2 /\ z = z2
        BY DEF BatchOK
    <2>3. i = i2 /\ l = l2 /\ j = j2
        <3> HIDE DEF bs
        <3>1. j \in 1..Len(bs(i, l)) /\ j2 \in 1..Len(bs(i2, l2)) /\ bs(i, l)[j] = bs(i2, l2)[j2]
            BY <2>1 DEF bs
        <3> QED BY <2>2, <3>1
    <2> QED BY <2>3 DEF j, j2
<1>3. Room(reqs, i, l) \in Nat /\ t \in Nat /\ t2 \in Nat
    BY <1>2, RoomIs
<1>4. (t - 1) \div S = (t2 - 1) \div S
    <2> DEFINE a == (t - 1) \div S
               b == (t2 - 1) \div S
    <2>1. a + 1 = b + 1 /\ a + 1 \in Nat /\ b + 1 \in Nat /\ a \in Int /\ b \in Int
        BY <1>1, <1>2, <1>3, SlotTypes
    <2> HIDE DEF a, b
    <2>2. a = b
        BY <2>1
    <2> QED BY <2>2 DEF a, b
<1>5. t - 1 = t2 - 1
    BY <1>1, <1>4
<1> QED BY <1>2, <1>3, <1>5

-----------------------------------------------------------------------------
(* A prefill. *)

\* The batch of a prefill, with room for the prompts.
PrefillOK(reqs, n) ==
    /\ BatchOK(reqs, n)
    /\ \A i \in 1..n : reqs[i].prompts_len \in Nat \ {0}
    /\ \A i \in 1..n, l \in Layers : reqs[i].prompts_len <= Room(reqs, i, l)

Prompt(reqs, i) == [t \in 1..reqs[i].prompts_len |-> reqs[i].tokens[t]]
PromptRows(reqs, n, l) == [i \in 1..n |-> FullHidden(Prompt(reqs, i), l)]
Terms(rows, n) == {rows[i][t] : i \in 1..n, t \in Nat}

\* st has, one behind the other, the rows of the prompts after l layers.
HasPromptRows(reqs, n, l, st) ==
    /\ IsPool(st.pool)
    /\ IsBatch(n, Lens(reqs), Terms(PromptRows(reqs, n, l), n), PromptRows(reqs, n, l), st.x)

LEMMA PromptParts ==
    ASSUME NEW reqs, NEW n, PrefillOK(reqs, n), NEW l \in Nat
    PROVE  /\ ArePartsOf(n, Lens(reqs), Terms(PromptRows(reqs, n, l), n), PromptRows(reqs, n, l))
           /\ DOMAIN reqs = 1..n /\ Len(reqs) = n
           /\ \A i \in 1..n : /\ Lens(reqs)[i] = reqs[i].prompts_len
                              /\ PromptRows(reqs, n, l)[i] =
                                    [t \in 1..reqs[i].prompts_len |-> PromptRows(reqs, n, l)[i][t]]
<1>1. n \in Nat \ {0} /\ reqs = [i \in 1..n |-> reqs[i]] /\ \A i \in 1..n : reqs[i].prompts_len \in Nat
    BY DEF PrefillOK, BatchOK
<1>2. DOMAIN reqs = 1..n /\ Len(reqs) = n
    BY <1>1
<1>3. Lens(reqs) = [i \in 1..n |-> reqs[i].prompts_len]
    BY <1>2 DEF Lens
<1> DEFINE rows == PromptRows(reqs, n, l)
<1>4. ASSUME NEW i \in 1..n
      PROVE  rows[i] = [t \in 1..reqs[i].prompts_len |-> rows[i][t]]
    <2>1. rows[i] = FullHidden(Prompt(reqs, i), l)
        BY DEF PromptRows
    <2>2. DOMAIN Prompt(reqs, i) = 1..reqs[i].prompts_len
        BY DEF Prompt
    <2> HIDE DEF rows
    <2>3. reqs[i].prompts_len \in Nat
        BY <1>1
    <2>4. FullHidden(Prompt(reqs, i), l)
             = [t \in 1..reqs[i].prompts_len |-> FullHidden(Prompt(reqs, i), l)[t]]
        BY <2>2, <2>3, HiddenRows
    <2> QED BY <2>1, <2>4
<1>5. rows = [i \in 1..n |-> rows[i]]
    BY DEF PromptRows
<1> HIDE DEF rows
<1>6. ASSUME NEW i \in 1..n PROVE rows[i] \in Seq(Terms(rows, n)) /\ Len(rows[i]) = reqs[i].prompts_len
    <2> DEFINE c == reqs[i].prompts_len
    <2>1. c \in Nat /\ rows[i] = [t \in 1..c |-> rows[i][t]]
        BY <1>1, <1>4
    <2>2. \A t \in 1..c : rows[i][t] \in Terms(rows, n)
        BY <2>1 DEF Terms
    <2> DEFINE f == rows[i]
               X == Terms(rows, n)
    <2>3. f = [t \in 1..c |-> f[t]] /\ \A t \in 1..c : f[t] \in X
        BY <2>1, <2>2
    <2> HIDE DEF f, X, c
    <2>4. f \in Seq(X) /\ Len(f) = c
        BY <2>1, <2>3
    <2> QED BY <2>4 DEF f, X, c
<1>7. ArePartsOf(n, Lens(reqs), Terms(rows, n), rows)
    BY <1>1, <1>3, <1>5, <1>6 DEF ArePartsOf
<1> QED BY <1>2, <1>3, <1>4, <1>7 DEF rows

\* append_prefill_kv gets for each row the place of its token.
LEMMA TablesOfPrompts ==
    ASSUME NEW reqs, NEW n, PrefillOK(reqs, n), NEW l \in Layers
    PROVE  LET to == make_tables(reqs, l)
               B(i) == Before(Lens(reqs), i)
           IN  \A i \in 1..n : \A t \in 1..reqs[i].prompts_len :
                  to[B(i) + t] = <<BlockOf(reqs[i].layer_kv, l, t), OffsetOf(t)>>
<1> DEFINE X == KvBlocks \X (0..(S - 1))
           ss == [i \in 1..n |->
                    [t \in 1..reqs[i].prompts_len |-> Place(reqs[i].layer_kv[l], t - 1)]]
<1>1. /\ n \in Nat \ {0} /\ DOMAIN reqs = 1..n /\ BatchOK(reqs, n)
      /\ Lens(reqs) \in [1..n -> Nat]
      /\ \A i \in 1..n : Lens(reqs)[i] = reqs[i].prompts_len
    <2>1. 0 \in Nat
        OBVIOUS
    <2>2. /\ ArePartsOf(n, Lens(reqs), Terms(PromptRows(reqs, n, 0), n), PromptRows(reqs, n, 0))
          /\ DOMAIN reqs = 1..n
          /\ \A i \in 1..n : Lens(reqs)[i] = reqs[i].prompts_len
        BY <2>1, PromptParts
    <2> QED BY <2>2 DEF ArePartsOf, PrefillOK
<1>2. make_tables(reqs, l) = FlattenSeq(ss)
    BY <1>1 DEF make_tables
<1>3. ASSUME NEW i \in 1..n, NEW t \in 1..reqs[i].prompts_len
      PROVE  /\ Place(reqs[i].layer_kv[l], t - 1) = <<BlockOf(reqs[i].layer_kv, l, t), OffsetOf(t)>>
             /\ Place(reqs[i].layer_kv[l], t - 1) \in X
    <2>1. t \in 1..Room(reqs, i, l)
        <3>1. Room(reqs, i, l) \in Nat
            BY <1>1, RoomIs
        <3>2. reqs[i].prompts_len \in Nat /\ reqs[i].prompts_len <= Room(reqs, i, l)
            BY DEF PrefillOK
        <3> QED BY <3>1, <3>2
    <2>2. /\ Place(reqs[i].layer_kv[l], t - 1) = <<BlockOf(reqs[i].layer_kv, l, t), OffsetOf(t)>>
          /\ BlockOf(reqs[i].layer_kv, l, t) \in KvBlocks /\ OffsetOf(t) \in 0..(S - 1)
        <3>1. BatchOK(reqs, n)
            BY <1>1
        <3> QED BY <2>1, <3>1, PlaceOfToken
    <2> QED BY <2>2
<1>4. ASSUME NEW i \in 1..n PROVE ss[i] \in Seq(X) /\ Len(ss[i]) = Lens(reqs)[i]
    <2> DEFINE c == reqs[i].prompts_len
               f == [t \in 1..c |-> Place(reqs[i].layer_kv[l], t - 1)]
    <2>1. c \in Nat /\ c = Lens(reqs)[i]
        BY <1>1 DEF PrefillOK
    <2>2. f \in [1..c -> X]
        BY <1>3
    <2>3. f \in Seq(X) /\ Len(f) = c
        <3> HIDE DEF X, c, f
        <3> QED BY <2>1, <2>2
    <2>4. ss[i] = f
        OBVIOUS
    <2> HIDE DEF ss, f, X, c
    <2> QED BY <2>1, <2>3, <2>4
<1>5. ArePartsOf(n, Lens(reqs), X, ss)
    <2>1. ss = [i \in 1..n |-> ss[i]]
        OBVIOUS
    <2> HIDE DEF X, ss
    <2> QED BY <1>1, <1>4, <2>1 DEF ArePartsOf
<1>6. IsBatch(n, Lens(reqs), X, ss, FlattenSeq(ss))
    <2> HIDE DEF X, ss
    <2> QED BY <1>5, FlattenParts
<1>7. ASSUME NEW i \in 1..n, NEW t \in 1..reqs[i].prompts_len
      PROVE  FlattenSeq(ss)[Before(Lens(reqs), i) + t] = ss[i][t]
    <2> HIDE DEF X, ss
    <2> QED BY <1>1, <1>6 DEF IsBatch
<1> QED BY <1>2, <1>3, <1>7

\* A part of a batch is the rows it was made from.
LEMMA PartOfBatch ==
    ASSUME NEW n, NEW lens, NEW X, NEW ss, ArePartsOf(n, lens, X, ss),
           NEW u, IsBatch(n, lens, X, ss, u), NEW i \in 1..n
    PROVE  SubSeq(u, Before(lens, i) + 1, Before(lens, i) + lens[i]) = ss[i]
<1> DEFINE from == Before(lens, i)
           c == lens[i]
           v == SubSeq(u, from + 1, from + c)
<1>1. c \in Nat /\ from \in Nat /\ u \in Seq(X)
    <2>1. n \in Nat /\ lens \in [1..n -> Nat] /\ i \in 1..(n + 1)
        BY DEF ArePartsOf
    <2>2. from \in Nat
        BY <2>1, BeforeIs
    <2> QED BY <2>1, <2>2 DEF IsBatch
<1>2. \A t \in 1..c : from + t \in 1..Len(u) /\ u[from + t] = ss[i][t]
    BY DEF IsBatch
<1>3. ss[i] = [t \in 1..c |-> ss[i][t]]
    <2>1. ss[i] \in Seq(X) /\ Len(ss[i]) = c
        BY DEF ArePartsOf
    <2> QED BY <2>1
<1> HIDE DEF c, from
<1>4. CASE c = 0
    <2>1. v = <<>>
        BY <1>1, <1>4
    <2>2. ss[i] = <<>>
        BY <1>3, <1>4
    <2> QED BY <2>1, <2>2 DEF c, from
<1>5. CASE c > 0
    <2>1. from + c \in 1..Len(u) /\ from + 1 \in 1..Len(u)
        <3>1. 1 \in 1..c /\ c \in 1..c
            BY <1>1, <1>5
        <3> QED BY <1>2, <3>1
    <2>2. v = [t \in 1..c |-> u[from + t]]
        <3>0. Len(u) \in Nat /\ from + c <= Len(u) /\ (from + c) - (from + 1) + 1 = c
            BY <1>1, <2>1
        <3>1. v \in Seq(X) /\ Len(v) = c
            BY <1>1, <1>5, <3>0
        <3>2. \A t \in 1..c : v[t] = u[from + t]
            BY <1>1, <1>5, <3>0
        <3> HIDE DEF v
        <3> QED BY <3>1, <3>2
    <2> HIDE DEF v
    <2>3. v = ss[i]
        BY <1>2, <1>3, <2>2
    <2> QED BY <2>3 DEF v, c, from
<1> QED BY <1>1, <1>4, <1>5

\* One layer of a prefill.
LEMMA BlockPrefillIs ==
    ASSUME NEW reqs, NEW n, PrefillOK(reqs, n), NEW l \in Layers,
           NEW st, HasPromptRows(reqs, n, l - 1, st)
    PROVE  LET end == block_prefill(reqs, st, l)
           IN  /\ HasPromptRows(reqs, n, l, end)
               /\ \A i \in 1..n : \A t \in 1..reqs[i].prompts_len :
                     At(end.pool, reqs[i].layer_kv, l, t) = Entry(l, PromptRows(reqs, n, l - 1)[i][t])
               /\ \A b \in KvBlocks, o \in 0..(S - 1) :
                     (\A i \in 1..n : \A t \in 1..reqs[i].prompts_len :
                         BlockOf(reqs[i].layer_kv, l, t) # b \/ OffsetOf(t) # o)
                     => Cell(end.pool, b, o) = Cell(st.pool, b, o)
<1> DEFINE lens == Lens(reqs)
           B(i) == Before(lens, i)
           rows == PromptRows(reqs, n, l - 1)
           next == PromptRows(reqs, n, l)
           to == make_tables(reqs, l)
           end == block_prefill(reqs, st, l)
           total == B(n + 1)
<1>1. l \in Nat /\ l - 1 \in Nat /\ l >= 1
    BY DEF Layers
<1>2. /\ ArePartsOf(n, lens, Terms(rows, n), rows) /\ ArePartsOf(n, lens, Terms(next, n), next)
      /\ DOMAIN reqs = 1..n /\ Len(reqs) = n
      /\ \A i \in 1..n : lens[i] = reqs[i].prompts_len /\ rows[i] = [t \in 1..lens[i] |-> rows[i][t]]
    <2>1. /\ ArePartsOf(n, lens, Terms(rows, n), rows) /\ DOMAIN reqs = 1..n /\ Len(reqs) = n
          /\ \A i \in 1..n : /\ lens[i] = reqs[i].prompts_len
                             /\ rows[i] = [t \in 1..reqs[i].prompts_len |-> rows[i][t]]
        BY <1>1, PromptParts
    <2>2. ArePartsOf(n, lens, Terms(next, n), next)
        BY <1>1, PromptParts
    <2> HIDE DEF lens, rows, next
    <2> QED BY <2>1, <2>2
<1>3. n \in Nat \ {0} /\ lens \in [1..n -> Nat]
    BY <1>2 DEF ArePartsOf
<1>4. IsPool(st.pool) /\ IsBatch(n, lens, Terms(rows, n), rows, st.x)
    BY DEF HasPromptRows
<1>5. total \in Nat /\ Len(st.x) = total
    <2>1. total \in Nat
        BY <1>3, BeforeIs
    <2> QED BY <1>4, <2>1 DEF IsBatch
<1>6. /\ end.pool = AppendKv(st.pool, l, st.x, to)
      /\ end.x = FlattenSeq([i \in 1..n |->
                    PrefillRows(l, SubSeq(st.x, B(i) + 1, B(i) + lens[i]))])
    BY <1>2 DEF block_prefill
<1> HIDE DEF lens, rows, next, to, end, total
\* The rows.
<1>7. ASSUME NEW i \in 1..n
      PROVE  PrefillRows(l, SubSeq(st.x, B(i) + 1, B(i) + lens[i])) = next[i]
    <2>1. SubSeq(st.x, B(i) + 1, B(i) + lens[i]) = rows[i]
        BY <1>2, <1>4, PartOfBatch
    <2>2. PrefillRows(l, rows[i]) = FullLayer(rows[i], l)
        <3>1. lens[i] \in Nat
            BY <1>3
        <3> QED BY <1>2, <3>1, PrefillRowsAre
    <2>3. FullLayer(rows[i], l) = next[i]
        BY <1>1, FullHiddenIs DEF rows, next, PromptRows
    <2> QED BY <2>1, <2>2, <2>3
<1>8. IsBatch(n, lens, Terms(next, n), next, end.x)
    <2>1. next = [i \in 1..n |-> next[i]]
        BY DEF next, PromptRows
    <2>2. end.x = FlattenSeq(next)
        BY <1>6, <1>7, <2>1
    <2> QED BY <1>2, <2>2, FlattenParts
\* The pool.
<1>9. \A i \in 1..n : \A t \in 1..lens[i] :
         to[B(i) + t] = <<BlockOf(reqs[i].layer_kv, l, t), OffsetOf(t)>>
    <2>1. \A i \in 1..n : \A t \in 1..reqs[i].prompts_len :
             to[B(i) + t] = <<BlockOf(reqs[i].layer_kv, l, t), OffsetOf(t)>>
        BY TablesOfPrompts DEF to, lens
    <2> QED BY <1>2, <2>1
<1>10. ASSUME NEW k \in 1..total
       PROVE  \E i \in 1..n : \E t \in 1..lens[i] : k = B(i) + t
    <2>1. n \in Nat
        BY <1>3
    <2>2. k \in 1..Before(lens, n + 1)
        BY DEF total
    <2> QED BY ONLY <1>3, <2>1, <2>2, EveryPlaceIsInAPart
<1>11. ASSUME NEW i \in 1..n, NEW t \in 1..lens[i]
       PROVE  /\ t \in 1..Room(reqs, i, l)
              /\ BlockOf(reqs[i].layer_kv, l, t) \in KvBlocks /\ OffsetOf(t) \in 0..(S - 1)
    <2>1. BatchOK(reqs, n) /\ lens[i] \in Nat /\ lens[i] <= Room(reqs, i, l)
        BY <1>2, <1>3 DEF PrefillOK
    <2>2. Room(reqs, i, l) \in Nat
        BY <2>1, RoomIs
    <2>3. t \in 1..Room(reqs, i, l)
        BY <2>1, <2>2
    <2> QED BY <2>1, <2>3, PlaceOfToken
<1>12. ASSUME NEW k \in 1..total PROVE to[k][1] \in KvBlocks /\ to[k][2] \in 0..(S - 1)
    <2>1. PICK i \in 1..n : \E t \in 1..lens[i] : k = B(i) + t
        BY <1>10
    <2>2. PICK t \in 1..lens[i] : k = B(i) + t
        BY <2>1
    <2>3. to[k] = <<BlockOf(reqs[i].layer_kv, l, t), OffsetOf(t)>>
        BY <1>9, <2>2
    <2> QED BY <1>11, <2>3
<1>13. ASSUME NEW k \in 1..total, NEW h \in 1..total, k # h
       PROVE  to[k][1] # to[h][1] \/ to[k][2] # to[h][2]
    <2>1. PICK i \in 1..n : \E t \in 1..lens[i] : k = B(i) + t
        BY <1>10
    <2>2. PICK t \in 1..lens[i] : k = B(i) + t
        BY <2>1
    <2>3. PICK j \in 1..n : \E t2 \in 1..lens[j] : h = B(j) + t2
        BY <1>10
    <2>4. PICK t2 \in 1..lens[j] : h = B(j) + t2
        BY <2>3
    <2>5. SUFFICES ASSUME to[k][1] = to[h][1], to[k][2] = to[h][2] PROVE FALSE
        OBVIOUS
    <2>6. /\ BlockOf(reqs[i].layer_kv, l, t) = BlockOf(reqs[j].layer_kv, l, t2)
          /\ OffsetOf(t) = OffsetOf(t2)
        BY <1>9, <2>2, <2>4, <2>5
    <2>7. t \in 1..Room(reqs, i, l) /\ t2 \in 1..Room(reqs, j, l) /\ BatchOK(reqs, n)
        BY <1>11 DEF PrefillOK
    <2>8. i = j /\ t = t2
        BY <2>6, <2>7, PlacesApart
    <2> QED BY <1>13, <2>2, <2>4, <2>8
<1>14. /\ IsPool(end.pool)
       /\ \A k \in 1..total : Cell(end.pool, to[k][1], to[k][2]) = Entry(l, st.x[k])
       /\ \A b \in KvBlocks, o \in 0..(S - 1) :
             (\A k \in 1..total : to[k][1] # b \/ to[k][2] # o) => Cell(end.pool, b, o) = Cell(st.pool, b, o)
    <2> DEFINE m == st.pool
               x == st.x
               out == AppendKv(m, l, x, to)
    <2> HIDE DEF m, x
    <2>1. IsPool(m) /\ Len(x) = total
        BY <1>4, <1>5 DEF m, x
    <2>4. AreApart(total, to)
        BY <1>12, <1>13 DEF AreApart
    <2>2. Wrote(m, l, total, x, to, out)
        BY <1>5, <2>1, <2>4, AppendKvIs
    <2>3. end.pool = out
        BY <1>6 DEF m, x
    <2> HIDE DEF out
    <2> QED BY <2>2, <2>3 DEF m, x, Wrote
<1>15. ASSUME NEW i \in 1..n, NEW t \in 1..lens[i]
       PROVE  At(end.pool, reqs[i].layer_kv, l, t) = Entry(l, rows[i][t])
    <2>1. B(i) + t \in 1..total /\ st.x[B(i) + t] = rows[i][t]
        BY <1>4, <1>5 DEF IsBatch
    <2>2. to[B(i) + t] = <<BlockOf(reqs[i].layer_kv, l, t), OffsetOf(t)>>
        BY <1>9
    <2> QED BY <1>14, <2>1, <2>2 DEF At
<1>16. ASSUME NEW b \in KvBlocks, NEW o \in 0..(S - 1),
              \A i \in 1..n : \A t \in 1..lens[i] : BlockOf(reqs[i].layer_kv, l, t) # b \/ OffsetOf(t) # o
       PROVE  Cell(end.pool, b, o) = Cell(st.pool, b, o)
    <2>1. ASSUME NEW k \in 1..total PROVE to[k][1] # b \/ to[k][2] # o
        <3>1. PICK i \in 1..n : \E t \in 1..lens[i] : k = B(i) + t
            BY <1>10
        <3>2. PICK t \in 1..lens[i] : k = B(i) + t
            BY <3>1
        <3>3. to[k] = <<BlockOf(reqs[i].layer_kv, l, t), OffsetOf(t)>>
            BY <1>9, <3>2
        <3> QED BY <1>16, <3>3
    <2> QED BY <1>14, <2>1
<1>17. HasPromptRows(reqs, n, l, end)
    BY <1>8, <1>14 DEF HasPromptRows, next, lens
<1>18. \A i \in 1..n : lens[i] = reqs[i].prompts_len
    BY <1>2
<1>19. \A i \in 1..n : \A t \in 1..reqs[i].prompts_len :
          At(end.pool, reqs[i].layer_kv, l, t) = Entry(l, rows[i][t])
    BY <1>15, <1>18
<1>20. \A b \in KvBlocks, o \in 0..(S - 1) :
          (\A i \in 1..n : \A t \in 1..reqs[i].prompts_len :
              BlockOf(reqs[i].layer_kv, l, t) # b \/ OffsetOf(t) # o)
          => Cell(end.pool, b, o) = Cell(st.pool, b, o)
    BY <1>16, <1>18
<1> QED BY <1>17, <1>19, <1>20 DEF end, rows

\* The keys and values of the first c tokens of a text are where its table of layer
\* l says.
CacheHas(m, ids, kv, l, c) ==
    \A t \in 1..c : At(m, kv, l, t) = Entry(l, FullHidden(ids, l - 1)[t])

\* end differs from m in blocks of the batch only.
OnlyOwnBlocks(reqs, n, m, end) ==
    \A b \in KvBlocks, o \in 0..(S - 1) :
       (\A i \in 1..n, l \in Layers : \A j \in 1..Len(reqs[i].layer_kv[l].blocks) :
           reqs[i].layer_kv[l].blocks[j] # b)
       => Cell(end, b, o) = Cell(m, b, o)

\* A prefill leaves in the pool the keys and values of each prompt, and answers
\* with the logits of the prompts without a cache.
PrefillDone(reqs, n, m, end) ==
    /\ IsPool(end.pool) /\ OnlyOwnBlocks(reqs, n, m, end.pool)
    /\ \A i \in 1..n :
          /\ \A l \in Layers :
                CacheHas(end.pool, Prompt(reqs, i), reqs[i].layer_kv, l, reqs[i].prompts_len)
          /\ end.logits[i] = FullLogits(Prompt(reqs, i))

LEMMA PrefillIs ==
    ASSUME NEW reqs, NEW n, PrefillOK(reqs, n), NEW m, IsPool(m)
    PROVE  PrefillDone(reqs, n, m, Prefill(reqs, m))
<1> DEFINE lens == Lens(reqs)
           first == FlattenSeq([i \in DOMAIN reqs |->
                       [t \in 1..reqs[i].prompts_len |-> Embedding(reqs[i].tokens[t], t - 1)]])
           start == [pool |-> m, x |-> first]
           Step(st, l) == block_prefill(reqs, st, l)
           Is(f, k) == f = [l \in 0..k |-> IF l = 0 THEN start ELSE Step(f[l - 1], l)]
           After == CHOOSE f : Is(f, K)
           last == gather_last_tokens(reqs, After[K].x)
<1>1. Prefill(reqs, m) =
         [pool |-> After[K].pool, logits |-> [i \in DOMAIN reqs |-> Logits(last[i])]]
    BY DEF Prefill, K
<1>2. K \in Nat /\ K >= 1 /\ Layers = 1..K
    BY SlotTypes DEF Layers, K
<1>3. DOMAIN reqs = 1..n /\ \A i \in 1..n : lens[i] = reqs[i].prompts_len /\ lens[i] \in Nat \ {0}
    <2>1. 0 \in Nat
        OBVIOUS
    <2>2. /\ ArePartsOf(n, Lens(reqs), Terms(PromptRows(reqs, n, 0), n), PromptRows(reqs, n, 0))
          /\ DOMAIN reqs = 1..n
          /\ \A i \in 1..n : Lens(reqs)[i] = reqs[i].prompts_len
        BY <2>1, PromptParts
    <2> QED BY <2>2 DEF PrefillOK
<1>4. BatchOK(reqs, n) /\ n \in Nat \ {0}
    BY DEF PrefillOK, BatchOK
<1>5. HasPromptRows(reqs, n, 0, start)
    <2> DEFINE rows == PromptRows(reqs, n, 0)
    <2>1. ASSUME NEW i \in 1..n
          PROVE  [t \in 1..reqs[i].prompts_len |-> Embedding(reqs[i].tokens[t], t - 1)] = rows[i]
        <3>1. rows[i] = [t \in DOMAIN Prompt(reqs, i) |-> Embedding(Prompt(reqs, i)[t], t - 1)]
            BY FullHiddenIs DEF PromptRows
        <3>2. DOMAIN Prompt(reqs, i) = 1..reqs[i].prompts_len
            BY DEF Prompt
        <3>3. \A t \in 1..reqs[i].prompts_len : Prompt(reqs, i)[t] = reqs[i].tokens[t]
            BY DEF Prompt
        <3> QED BY <3>1, <3>2, <3>3
    <2>2. rows = [i \in 1..n |-> rows[i]]
        BY DEF PromptRows
    <2> HIDE DEF rows
    <2>3. first = FlattenSeq(rows)
        BY <1>3, <2>1, <2>2
    <2>4. ArePartsOf(n, lens, Terms(rows, n), rows)
        <3>1. 0 \in Nat
            OBVIOUS
        <3> QED BY <3>1, PromptParts DEF rows
    <2>5. IsBatch(n, lens, Terms(rows, n), rows, first)
        BY <2>3, <2>4, FlattenParts
    <2> QED BY <2>5 DEF HasPromptRows, rows
<1> HIDE DEF first, start, Step
<1>6. \E f : Is(f, K)
    <2> DEFINE T == {k \in 0..K : \E f : Is(f, k)}
    <2>1. 0 \in T
        <3>1. Is([l \in 0..0 |-> start], 0)
            OBVIOUS
        <3>2. \E f : Is(f, 0)
            <4> HIDE DEF Is
            <4> QED BY <3>1
        <3> HIDE DEF Is
        <3> QED BY <1>2, <3>2
    <2>2. ASSUME NEW k \in 1..K, k - 1 \in T PROVE k \in T
        <3>1. PICK f : Is(f, k - 1)
            <4> HIDE DEF Is
            <4> QED BY <2>2
        <3> DEFINE g == [l \in 0..k |-> IF l = k THEN Step(f[k - 1], k) ELSE f[l]]
        <3>2. ASSUME NEW l \in 0..k PROVE g[l] = IF l = 0 THEN start ELSE Step(g[l - 1], l)
            BY <3>1
        <3>3. Is(g, k)
            BY <3>2
        <3> HIDE DEF Is, g
        <3> QED BY <3>3
    <2>3. \A k \in 0..K : k \in T
        <3> HIDE DEF T
        <3> QED BY <1>2, <2>1, <2>2, Induction
    <2> HIDE DEF Is
    <2> QED BY <1>2, <2>3
<1>7. Is(After, K)
    <2> HIDE DEF Is
    <2> QED BY <1>6
<1> HIDE DEF After
<1>8. After[0] = start /\ \A l \in 1..K : After[l] = Step(After[l - 1], l)
    BY <1>2, <1>7
\* After l layers.
<1> DEFINE Stored(l, h) == \A i \in 1..n : \A t \in 1..reqs[i].prompts_len :
               At(After[l].pool, reqs[i].layer_kv, h, t) = Entry(h, PromptRows(reqs, n, h - 1)[i][t])
           Inv(l) == /\ HasPromptRows(reqs, n, l, After[l])
                     /\ \A h \in 1..l : Stored(l, h)
                     /\ OnlyOwnBlocks(reqs, n, m, After[l].pool)
           T == {l \in 0..K : Inv(l)}
<1>9. 0 \in T
    <2>1. After[0].pool = m
        BY <1>8 DEF start
    <2>2. OnlyOwnBlocks(reqs, n, m, m)
        BY DEF OnlyOwnBlocks
    <2> QED BY <1>2, <1>5, <1>8, <2>1, <2>2
<1>10. ASSUME NEW l \in 1..K, l - 1 \in T PROVE l \in T
    <2> DEFINE st == After[l - 1]
               end == After[l]
    <2>1. Inv(l - 1) /\ end = Step(st, l)
        BY <1>8, <1>10
    <2>2. l \in Layers /\ HasPromptRows(reqs, n, l - 1, st)
        BY <1>2, <2>1
    <2> HIDE DEF st
    <2>3. /\ HasPromptRows(reqs, n, l, end) /\ Stored(l, l)
          /\ \A b \in KvBlocks, o \in 0..(S - 1) :
                (\A i \in 1..n : \A t \in 1..reqs[i].prompts_len :
                    BlockOf(reqs[i].layer_kv, l, t) # b \/ OffsetOf(t) # o)
                => Cell(end.pool, b, o) = Cell(st.pool, b, o)
        BY <2>1, <2>2, BlockPrefillIs DEF Step
    <2>4. ASSUME NEW i \in 1..n, NEW h \in Layers, NEW t \in 1..reqs[i].prompts_len
          PROVE  t \in 1..Room(reqs, i, h)
        <3>1. Room(reqs, i, h) \in Nat /\ reqs[i].prompts_len \in Nat
            BY <1>4, RoomIs DEF PrefillOK
        <3> QED BY <3>1 DEF PrefillOK
    <2>5. ASSUME NEW h \in 1..(l - 1), NEW i \in 1..n, NEW t \in 1..reqs[i].prompts_len
          PROVE  At(end.pool, reqs[i].layer_kv, h, t) = At(st.pool, reqs[i].layer_kv, h, t)
        <3>1. h \in Layers /\ h # l
            BY <1>2
        <3>2. t \in 1..Room(reqs, i, h)
            BY <2>4, <3>1
        <3> DEFINE b == BlockOf(reqs[i].layer_kv, h, t)
                   o == OffsetOf(t)
        <3>3. b \in KvBlocks /\ o \in 0..(S - 1)
            BY <1>4, <3>1, <3>2, PlaceOfToken
        <3>4. ASSUME NEW i2 \in 1..n, NEW t2 \in 1..reqs[i2].prompts_len
              PROVE  BlockOf(reqs[i2].layer_kv, l, t2) # b \/ OffsetOf(t2) # o
            <4>1. t2 \in 1..Room(reqs, i2, l)
                BY <2>2, <2>4
            <4> QED BY <1>4, <2>2, <3>1, <3>2, <4>1, PlacesApart
        <3> HIDE DEF b, o
        <3>5. Cell(end.pool, b, o) = Cell(st.pool, b, o)
            BY <2>3, <3>3, <3>4
        <3> QED BY <3>5 DEF At, b, o
    <2>6. ASSUME NEW h \in 1..l PROVE Stored(l, h)
        <3>1. CASE h = l
            BY <2>3, <3>1
        <3>2. CASE h # l
            <4>1. h \in 1..(l - 1)
                BY <3>2
            <4>2. Stored(l - 1, h)
                BY <2>1, <4>1
            <4> QED BY <2>5, <4>1, <4>2 DEF st
        <3> QED BY <3>1, <3>2
    <2>7. OnlyOwnBlocks(reqs, n, m, end.pool)
        <3>1. ASSUME NEW b \in KvBlocks, NEW o \in 0..(S - 1),
                     \A i \in 1..n, h \in Layers : \A j \in 1..Len(reqs[i].layer_kv[h].blocks) :
                        reqs[i].layer_kv[h].blocks[j] # b
              PROVE  Cell(end.pool, b, o) = Cell(m, b, o)
            <4>1. Cell(st.pool, b, o) = Cell(m, b, o)
                BY <2>1, <3>1 DEF OnlyOwnBlocks, st
            <4>2. ASSUME NEW i \in 1..n, NEW t \in 1..reqs[i].prompts_len
                  PROVE  BlockOf(reqs[i].layer_kv, l, t) # b
                <5>1. t \in 1..Room(reqs, i, l)
                    BY <2>2, <2>4
                <5>2. (t - 1) \div S + 1 \in 1..Len(reqs[i].layer_kv[l].blocks)
                    BY <1>4, <2>2, <5>1, PlaceOfToken
                <5> QED BY <2>2, <3>1, <5>2 DEF BlockOf
            <4> QED BY <2>3, <4>1, <4>2
        <3> QED BY <3>1 DEF OnlyOwnBlocks
    <2> QED BY <2>3, <2>6, <2>7
<1>11. \A l \in 0..K : l \in T
    <2> HIDE DEF T
    <2> QED BY <1>2, <1>9, <1>10, Induction
<1>12. Inv(K)
    <2>1. K \in T
        <3> HIDE DEF T
        <3> QED BY <1>2, <1>11
    <2> HIDE DEF Inv
    <2> QED BY <2>1
<1> DEFINE end == Prefill(reqs, m)
<1>13. end.pool = After[K].pool /\ \A i \in 1..n : end.logits[i] = Logits(last[i])
    BY <1>1, <1>3
<1>14. ASSUME NEW i \in 1..n PROVE last[i] = FullHidden(Prompt(reqs, i), K)[reqs[i].prompts_len]
    <2>1. last[i] = After[K].x[Before(lens, i) + lens[i]]
        BY <1>3 DEF gather_last_tokens
    <2>2. After[K].x[Before(lens, i) + lens[i]] = PromptRows(reqs, n, K)[i][lens[i]]
        <3>1. lens[i] \in 1..lens[i]
            BY <1>3
        <3> QED BY <1>12, <3>1 DEF HasPromptRows, IsBatch
    <2> QED BY <1>3, <2>1, <2>2 DEF PromptRows
<1> HIDE DEF end, last
<1>15. ASSUME NEW i \in 1..n PROVE end.logits[i] = FullLogits(Prompt(reqs, i))
    <2>1. Len(Prompt(reqs, i)) = reqs[i].prompts_len
        BY <1>3 DEF Prompt
    <2> QED BY <1>13, <1>14, <2>1 DEF FullLogits, K
<1>16. ASSUME NEW i \in 1..n, NEW l \in Layers
       PROVE  CacheHas(end.pool, Prompt(reqs, i), reqs[i].layer_kv, l, reqs[i].prompts_len)
    <2>1. Stored(K, l)
        BY <1>2, <1>12
    <2>2. PromptRows(reqs, n, l - 1)[i] = FullHidden(Prompt(reqs, i), l - 1)
        BY DEF PromptRows
    <2> QED BY <1>13, <2>1, <2>2 DEF CacheHas
<1>17. IsPool(end.pool) /\ OnlyOwnBlocks(reqs, n, m, end.pool)
    BY <1>12, <1>13 DEF HasPromptRows
<1> QED BY <1>15, <1>16, <1>17 DEF PrefillDone, end

-----------------------------------------------------------------------------
(* A decode. *)

\* The batch of a decode: one token after those in the cache, with room for it.
DecodeOK(reqs, n) ==
    /\ BatchOK(reqs, n)
    /\ \A i \in 1..n : Len(reqs[i].tokens) \in Nat \ {0} /\ DOMAIN reqs[i].tokens = 1..Len(reqs[i].tokens)
    /\ \A i \in 1..n, l \in Layers :
          /\ reqs[i].layer_kv[l].tokens = Len(reqs[i].tokens) - 1
          /\ Len(reqs[i].tokens) <= Room(reqs, i, l)

\* Row i of st is that of the last token of request i after l layers.
NewRow(reqs, i, l) == FullHidden(reqs[i].tokens, l)[Len(reqs[i].tokens)]
HasNewRows(reqs, n, l, st) == IsPool(st.pool) /\ st.x = [i \in 1..n |-> NewRow(reqs, i, l)]

\* The flattened block table leads the kernel to the tokens of request i.
LEMMA PagedKvIs ==
    ASSUME NEW reqs, NEW n, BatchOK(reqs, n), NEW l \in Layers, NEW i \in 1..n, NEW pool,
           NEW c \in Nat, c <= Room(reqs, i, l)
    PROVE  LET tables == [j \in 1..n |-> reqs[j].layer_kv[l].blocks]
               sizes  == [j \in 1..n |-> Len(tables[j])]
           IN  PagedKv(pool, FlattenSeq(tables), Before(sizes, i), c)
                  = [t \in 1..c |-> At(pool, reqs[i].layer_kv, l, t)]
<1> DEFINE tables == [j \in 1..n |-> reqs[j].layer_kv[l].blocks]
           sizes == [j \in 1..n |-> Len(tables[j])]
           flat == FlattenSeq(tables)
           from == Before(sizes, i)
<1>1. n \in Nat \ {0} /\ \A j \in 1..n : tables[j] \in Seq(KvBlocks)
    BY DEF BatchOK
<1>2. sizes \in [1..n -> Nat] /\ tables \in [1..n -> Seq(KvBlocks)]
    <2>1. \A j \in 1..n : Len(tables[j]) \in Nat
        <3> HIDE DEF tables
        <3> QED BY <1>1
    <2>2. tables = [j \in 1..n |-> tables[j]]
        OBVIOUS
    <2> HIDE DEF tables
    <2> QED BY <1>1, <2>1, <2>2
<1>3. \A j \in 1..n : Len(tables[j]) = sizes[j]
    OBVIOUS
<1>4. sizes[i] = Len(reqs[i].layer_kv[l].blocks) /\ tables[i] = reqs[i].layer_kv[l].blocks
    OBVIOUS
<1> HIDE DEF tables, sizes
<1>5. ArePartsOf(n, sizes, KvBlocks, tables)
    BY <1>1, <1>2, <1>3 DEF ArePartsOf
<1>6. IsBatch(n, sizes, KvBlocks, tables, flat)
    BY <1>5, FlattenParts
<1>7. from \in Nat
    <2>1. n \in Nat /\ i \in 1..(n + 1)
        BY <1>1
    <2> QED BY <1>2, <2>1, BeforeIs
<1> HIDE DEF flat, from
<1>8. ASSUME NEW t \in 1..c
      PROVE  LET physical_block == flat[from + (t - 1) \div S + 1]
                 offset         == (t - 1) % S
             IN  <<pool[KRow(physical_block, offset)], pool[VRow(physical_block, offset)]>>
                    = At(pool, reqs[i].layer_kv, l, t)
    <2> DEFINE q == (t - 1) \div S
    <2>1. t \in 1..Room(reqs, i, l)
        <3>1. Room(reqs, i, l) \in Nat
            BY RoomIs
        <3> QED BY <3>1
    <2>2. q + 1 \in 1..sizes[i]
        BY <2>1, <1>4, PlaceOfToken
    <2>3. q \in Int
        BY SlotTypes
    <2>4. flat[from + (q + 1)] = tables[i][q + 1]
        <3> HIDE DEF q
        <3> QED BY <1>6, <2>2 DEF IsBatch, from, flat
    <2>5. from + q + 1 = from + (q + 1)
        <3> HIDE DEF q
        <3> QED BY <1>7, <2>3
    <2> QED BY <2>4, <2>5, <1>4 DEF At, Cell, BlockOf, OffsetOf
<1>9. PagedKv(pool, flat, from, c) = [t \in 1..c |-> At(pool, reqs[i].layer_kv, l, t)]
    BY <1>8 DEF PagedKv
<1> QED BY <1>9 DEF flat, from, tables, sizes

\* The batch of a decode has in the cache all but the last token of each text.
HasAllButLast(reqs, n, m, l) ==
    \A i \in 1..n : CacheHas(m, reqs[i].tokens, reqs[i].layer_kv, l, Len(reqs[i].tokens) - 1)

\* A text with its last token in place is in the cache as a whole.
LEMMA LastMakesWhole ==
    ASSUME NEW m, NEW ids, NEW kv, NEW l, NEW c \in Nat, c >= 1,
           CacheHas(m, ids, kv, l, c - 1),
           At(m, kv, l, c) = Entry(l, FullHidden(ids, l - 1)[c])
    PROVE  CacheHas(m, ids, kv, l, c)
<1>1. ASSUME NEW t \in 1..c PROVE At(m, kv, l, t) = Entry(l, FullHidden(ids, l - 1)[t])
    <2>1. t = c \/ t \in 1..(c - 1)
        OBVIOUS
    <2> QED BY <2>1 DEF CacheHas
<1> QED BY <1>1 DEF CacheHas

\* What attention makes of the whole text in the cache is its last row.
LEMMA LastRowIs ==
    ASSUME NEW ids, NEW c \in Nat, c >= 1, DOMAIN ids = 1..c, NEW l \in Nat, l >= 1,
           NEW m, NEW kv, CacheHas(m, ids, kv, l, c)
    PROVE  Block(l, FullHidden(ids, l - 1)[c], [t \in 1..c |-> At(m, kv, l, t)])
              = FullHidden(ids, l)[c]
<1> DEFINE x == FullHidden(ids, l - 1)
<1>1. FullHidden(ids, l) = FullLayer(x, l)
    BY FullHiddenIs
<1>2. DOMAIN x = 1..c
    <2>1. l - 1 \in Nat
        OBVIOUS
    <2>2. x = [t \in 1..c |-> x[t]]
        BY <2>1, HiddenRows
    <2> HIDE DEF x
    <2> QED BY <2>2
<1> HIDE DEF x
<1>3. \A t \in 1..c : At(m, kv, l, t) = <<Key(l, x[t]), Value(l, x[t])>>
    BY DEF CacheHas, Entry, x
<1>4. FullLayer(x, l)[c] =
         Block(l, x[c], [u \in 1..c |-> <<Key(l, x[u]), Value(l, x[u])>>])
    BY <1>2 DEF FullLayer
<1>5. [t \in 1..c |-> At(m, kv, l, t)] = [u \in 1..c |-> <<Key(l, x[u]), Value(l, x[u])>>]
    BY <1>3
<1> QED BY <1>1, <1>4, <1>5 DEF x

\* There is room for token at[i] of each request, and end differs from m at most
\* where these tokens are.
HaveRoom(reqs, n, l, at) == \A i \in 1..n : at[i] \in 1..Room(reqs, i, l)
OnlyThere(reqs, n, l, at, m, end) ==
    \A b \in KvBlocks, o \in 0..(S - 1) :
       (\A i \in 1..n : BlockOf(reqs[i].layer_kv, l, at[i]) # b \/ OffsetOf(at[i]) # o)
       => Cell(end, b, o) = Cell(m, b, o)

LEMMA OtherTokensStay ==
    ASSUME NEW reqs, NEW n, BatchOK(reqs, n), NEW l \in Layers,
           NEW at, HaveRoom(reqs, n, l, at),
           NEW m, NEW end, OnlyThere(reqs, n, l, at, m, end),
           NEW i \in 1..n, NEW h \in Layers, NEW t \in 1..Room(reqs, i, h),
           h # l \/ t # at[i]
    PROVE  At(end, reqs[i].layer_kv, h, t) = At(m, reqs[i].layer_kv, h, t)
<1> DEFINE b == BlockOf(reqs[i].layer_kv, h, t)
           o == OffsetOf(t)
<1>1. b \in KvBlocks /\ o \in 0..(S - 1)
    BY PlaceOfToken
<1>2. ASSUME NEW j \in 1..n PROVE BlockOf(reqs[j].layer_kv, l, at[j]) # b \/ OffsetOf(at[j]) # o
    <2>1. at[j] \in 1..Room(reqs, j, l)
        BY DEF HaveRoom
    <2> QED BY <2>1, PlacesApart
<1> HIDE DEF b, o
<1>3. Cell(end, b, o) = Cell(m, b, o)
    BY <1>1, <1>2 DEF OnlyThere
<1> QED BY <1>3 DEF At, b, o

\* One layer of a decode.
LEMMA BlockDecodeIs ==
    ASSUME NEW reqs, NEW n, DecodeOK(reqs, n), NEW l \in Layers,
           NEW st, HasNewRows(reqs, n, l - 1, st), HasAllButLast(reqs, n, st.pool, l)
    PROVE  LET end == block_decode(reqs, st, l)
           IN  /\ HasNewRows(reqs, n, l, end)
               /\ \A i \in 1..n :
                     CacheHas(end.pool, reqs[i].tokens, reqs[i].layer_kv, l, Len(reqs[i].tokens))
               /\ \A b \in KvBlocks, o \in 0..(S - 1) :
                     (\A i \in 1..n : \/ BlockOf(reqs[i].layer_kv, l, Len(reqs[i].tokens)) # b
                                      \/ OffsetOf(Len(reqs[i].tokens)) # o)
                     => Cell(end.pool, b, o) = Cell(st.pool, b, o)
<1> DEFINE m == st.pool
           x == st.x
           at == [i \in 1..n |-> Len(reqs[i].tokens)]
           kv == [i \in 1..n |-> reqs[i].layer_kv[l]]
           to == [i \in 1..n |-> Place(kv[i], kv[i].tokens)]
           out == AppendKv(m, l, x, to)
           tables == [i \in 1..n |-> kv[i].blocks]
           sizes == [i \in 1..n |-> Len(tables[i])]
           end == block_decode(reqs, st, l)
<1>1. l \in Nat /\ l - 1 \in Nat /\ l >= 1
    BY DEF Layers
<1>2. BatchOK(reqs, n)
    BY DEF DecodeOK
<1>3. n \in Nat \ {0} /\ DOMAIN reqs = 1..n
    BY <1>2 DEF BatchOK
<1>4. /\ end.pool = out
      /\ end.x = [i \in 1..n |-> Block(l, x[i],
                    PagedKv(out, FlattenSeq(tables), Before(sizes, i), kv[i].tokens + 1))]
    BY <1>3 DEF block_decode
<1> HIDE DEF m, x, at
<1>5. IsPool(m) /\ x = [i \in 1..n |-> NewRow(reqs, i, l - 1)]
    BY DEF HasNewRows, m, x
<1>6. Len(x) = n
    BY <1>3, <1>5
<1>7. ASSUME NEW i \in 1..n
      PROVE  /\ at[i] = Len(reqs[i].tokens) /\ at[i] \in Nat /\ at[i] >= 1
             /\ DOMAIN reqs[i].tokens = 1..at[i]
             /\ kv[i].tokens = at[i] - 1 /\ at[i] <= Room(reqs, i, l) /\ at[i] \in 1..Room(reqs, i, l)
    <2>1. at[i] = Len(reqs[i].tokens)
        BY DEF at
    <2>2. /\ at[i] \in Nat /\ at[i] >= 1 /\ DOMAIN reqs[i].tokens = 1..at[i]
          /\ kv[i].tokens = at[i] - 1 /\ at[i] <= Room(reqs, i, l)
        BY <2>1 DEF DecodeOK
    <2>3. Room(reqs, i, l) \in Nat
        BY <1>2, RoomIs
    <2> QED BY <2>1, <2>2, <2>3
<1>8. HaveRoom(reqs, n, l, at)
    BY <1>7 DEF HaveRoom
<1>9. ASSUME NEW i \in 1..n
      PROVE  /\ to[i] = <<BlockOf(reqs[i].layer_kv, l, at[i]), OffsetOf(at[i])>>
             /\ to[i][1] \in KvBlocks /\ to[i][2] \in 0..(S - 1)
    <2>1. to[i] = Place(reqs[i].layer_kv[l], at[i] - 1)
        BY <1>7
    <2> HIDE DEF to
    <2> QED BY <1>2, <1>7, <2>1, PlaceOfToken
<1> HIDE DEF to
<1>10. AreApart(n, to)
    <2>1. ASSUME NEW i \in 1..n, NEW j \in 1..n, i # j PROVE to[i][1] # to[j][1] \/ to[i][2] # to[j][2]
        BY <1>2, <1>7, <1>9, <2>1, PlacesApart
    <2> QED BY <1>9, <2>1 DEF AreApart
<1>11. Wrote(m, l, n, x, to, out)
    <2>1. n \in Nat
        BY <1>3
    <2> QED BY <1>5, <1>6, <1>10, <2>1, AppendKvIs
<1> HIDE DEF out
<1>12. OnlyThere(reqs, n, l, at, m, out)
    BY <1>9, <1>11 DEF Wrote, OnlyThere
<1>13. ASSUME NEW i \in 1..n PROVE CacheHas(out, reqs[i].tokens, reqs[i].layer_kv, l, at[i])
    <2> DEFINE ids == reqs[i].tokens
               table == reqs[i].layer_kv
               c == at[i]
    <2>1. CacheHas(m, ids, table, l, c - 1)
        BY <1>7 DEF HasAllButLast, m
    <2>2. ASSUME NEW t \in 1..(c - 1) PROVE At(out, table, l, t) = At(m, table, l, t)
        <3>1. t \in 1..Room(reqs, i, l) /\ t # at[i]
            <4>1. Room(reqs, i, l) \in Nat
                BY <1>2, RoomIs
            <4>2. at[i] \in Nat /\ at[i] <= Room(reqs, i, l)
                BY <1>7
            <4> QED BY <4>1, <4>2
        <3> QED BY <1>2, <1>8, <1>12, <3>1, OtherTokensStay
    <2>3. CacheHas(out, ids, table, l, c - 1)
        BY <2>1, <2>2 DEF CacheHas
    <2>4. At(out, table, l, c) = Entry(l, FullHidden(ids, l - 1)[c])
        <3>1. x[i] = FullHidden(ids, l - 1)[c]
            BY <1>5, <1>7 DEF NewRow
        <3>2. Cell(out, to[i][1], to[i][2]) = Entry(l, x[i])
            BY <1>11 DEF Wrote
        <3> QED BY <1>9, <3>1, <3>2 DEF At
    <2>5. c \in Nat /\ c >= 1
        BY <1>7
    <2> HIDE DEF ids, table, c
    <2>6. CacheHas(out, ids, table, l, c)
        BY <2>3, <2>4, <2>5, LastMakesWhole
    <2> QED BY <2>6 DEF ids, table, c
<1>14. ASSUME NEW i \in 1..n
       PROVE  Block(l, x[i],
                  PagedKv(out, FlattenSeq(tables), Before(sizes, i), kv[i].tokens + 1))
                 = NewRow(reqs, i, l)
    <2>1. kv[i].tokens + 1 = at[i]
        BY <1>7
    <2>2. tables = [j \in 1..n |-> reqs[j].layer_kv[l].blocks]
        OBVIOUS
    <2> HIDE DEF tables, kv
    <2>3. PagedKv(out, FlattenSeq(tables), Before(sizes, i), at[i])
             = [t \in 1..at[i] |-> At(out, reqs[i].layer_kv, l, t)]
        BY <1>2, <1>7, <2>2, PagedKvIs
    <2> HIDE DEF sizes
    <2>4. x[i] = FullHidden(reqs[i].tokens, l - 1)[at[i]]
        BY <1>5, <1>7 DEF NewRow
    <2>5. Block(l, x[i], [t \in 1..at[i] |-> At(out, reqs[i].layer_kv, l, t)])
             = FullHidden(reqs[i].tokens, l)[at[i]]
        <3>1. /\ at[i] \in Nat /\ at[i] >= 1 /\ DOMAIN reqs[i].tokens = 1..at[i]
              /\ l \in Nat /\ l >= 1
            BY <1>1, <1>7
        <3>2. CacheHas(out, reqs[i].tokens, reqs[i].layer_kv, l, at[i])
            BY <1>13
        <3>3. Block(l, FullHidden(reqs[i].tokens, l - 1)[at[i]],
                    [t \in 1..at[i] |-> At(out, reqs[i].layer_kv, l, t)])
                 = FullHidden(reqs[i].tokens, l)[at[i]]
            BY ONLY <3>1, <3>2, LastRowIs
        <3> QED BY ONLY <2>4, <3>3
    <2> QED BY <1>7, <2>1, <2>3, <2>5 DEF NewRow
<1>15. HasNewRows(reqs, n, l, end)
    <2>1. end.x = [i \in 1..n |-> NewRow(reqs, i, l)]
        <3> HIDE DEF end, tables, sizes, kv
        <3> QED BY <1>4, <1>14
    <2>2. IsPool(end.pool)
        BY <1>4, <1>11 DEF Wrote
    <2> QED BY <2>1, <2>2 DEF HasNewRows
<1> HIDE DEF end
<1>16. \A i \in 1..n : CacheHas(end.pool, reqs[i].tokens, reqs[i].layer_kv, l, Len(reqs[i].tokens))
    BY <1>4, <1>7, <1>13
<1>17. \A b \in KvBlocks, o \in 0..(S - 1) :
          (\A i \in 1..n : \/ BlockOf(reqs[i].layer_kv, l, Len(reqs[i].tokens)) # b
                           \/ OffsetOf(Len(reqs[i].tokens)) # o)
          => Cell(end.pool, b, o) = Cell(st.pool, b, o)
    BY <1>4, <1>7, <1>12 DEF m, OnlyThere
<1> QED BY <1>15, <1>16, <1>17 DEF end

DecodeReady(reqs, n, m) == \A l \in Layers : HasAllButLast(reqs, n, m, l)

\* A decode leaves in the pool the keys and values of each text with its last token,
\* and answers with the logits of the texts without a cache.
DecodeDone(reqs, n, m, end) ==
    /\ IsPool(end.pool) /\ OnlyOwnBlocks(reqs, n, m, end.pool)
    /\ \A i \in 1..n :
          /\ \A l \in Layers :
                CacheHas(end.pool, reqs[i].tokens, reqs[i].layer_kv, l, Len(reqs[i].tokens))
          /\ end.logits[i] = FullLogits(reqs[i].tokens)

\* What layer l writes leaves the other layers as they were, and the blocks of
\* requests outside of the batch.
LEMMA OtherLayersStay ==
    ASSUME NEW reqs, NEW n, BatchOK(reqs, n), NEW l \in Layers,
           NEW at, HaveRoom(reqs, n, l, at),
           NEW m, NEW end, OnlyThere(reqs, n, l, at, m, end)
    PROVE  /\ \A h \in Layers \ {l} : \A i \in 1..n : \A ids : \A c \in Nat :
                 c <= Room(reqs, i, h) /\ CacheHas(m, ids, reqs[i].layer_kv, h, c)
                 => CacheHas(end, ids, reqs[i].layer_kv, h, c)
           /\ OnlyOwnBlocks(reqs, n, m, end)
<1>1. ASSUME NEW h \in Layers \ {l}, NEW i \in 1..n, NEW ids, NEW c \in Nat,
             c <= Room(reqs, i, h), CacheHas(m, ids, reqs[i].layer_kv, h, c)
      PROVE  CacheHas(end, ids, reqs[i].layer_kv, h, c)
    <2>1. ASSUME NEW t \in 1..c
          PROVE  At(end, reqs[i].layer_kv, h, t) = At(m, reqs[i].layer_kv, h, t)
        <3>1. h \in Layers /\ h # l
            OBVIOUS
        <3>2. t \in 1..Room(reqs, i, h)
            <4>1. Room(reqs, i, h) \in Nat
                BY <3>1, RoomIs
            <4> QED BY <1>1, <4>1
        <3> QED BY <3>1, <3>2, OtherTokensStay
    <2> QED BY <1>1, <2>1 DEF CacheHas
<1>2. ASSUME NEW b \in KvBlocks, NEW o \in 0..(S - 1),
             \A i \in 1..n, h \in Layers : \A j \in 1..Len(reqs[i].layer_kv[h].blocks) :
                reqs[i].layer_kv[h].blocks[j] # b
      PROVE  Cell(end, b, o) = Cell(m, b, o)
    <2>1. ASSUME NEW i \in 1..n PROVE BlockOf(reqs[i].layer_kv, l, at[i]) # b
        <3>1. at[i] \in 1..Room(reqs, i, l)
            BY DEF HaveRoom
        <3>2. (at[i] - 1) \div S + 1 \in 1..Len(reqs[i].layer_kv[l].blocks)
            BY <3>1, PlaceOfToken
        <3> QED BY <1>2, <3>2 DEF BlockOf
    <2> QED BY <2>1 DEF OnlyThere
<1> QED BY <1>1, <1>2 DEF OnlyOwnBlocks

LEMMA DecodeIs ==
    ASSUME NEW reqs, NEW n, DecodeOK(reqs, n), NEW m, IsPool(m), DecodeReady(reqs, n, m)
    PROVE  DecodeDone(reqs, n, m, Decode(reqs, m))
<1> DEFINE first == [i \in DOMAIN reqs |->
                       Embedding(Last(reqs[i].tokens), Len(reqs[i].tokens) - 1)]
           start == [pool |-> m, x |-> first]
           Step(st, l) == block_decode(reqs, st, l)
           Is(f, k) == f = [l \in 0..k |-> IF l = 0 THEN start ELSE Step(f[l - 1], l)]
           After == CHOOSE f : Is(f, K)
           at == [i \in 1..n |-> Len(reqs[i].tokens)]
<1>1. Decode(reqs, m) =
         [pool |-> After[K].pool, logits |-> [i \in DOMAIN reqs |-> Logits(After[K].x[i])]]
    BY DEF Decode, K
<1>2. K \in Nat /\ K >= 1 /\ Layers = 1..K
    BY SlotTypes DEF Layers, K
<1>3. BatchOK(reqs, n)
    BY DEF DecodeOK
<1>4. DOMAIN reqs = 1..n /\ n \in Nat \ {0}
    BY <1>3 DEF BatchOK
<1>5. HasNewRows(reqs, n, 0, start)
    <2>1. ASSUME NEW i \in 1..n
          PROVE  Embedding(Last(reqs[i].tokens), Len(reqs[i].tokens) - 1) = NewRow(reqs, i, 0)
        <3> DEFINE ids == reqs[i].tokens
                   c == Len(ids)
        <3>1. c \in Nat /\ c >= 1 /\ DOMAIN ids = 1..c
            BY DEF DecodeOK
        <3>2. FullHidden(ids, 0) = [t \in DOMAIN ids |-> Embedding(ids[t], t - 1)]
            BY FullHiddenIs
        <3>3. Last(ids) = ids[c]
            BY DEF Last
        <3> HIDE DEF ids, c
        <3>4. FullHidden(ids, 0)[c] = Embedding(ids[c], c - 1)
            BY <3>1, <3>2
        <3> QED BY <3>3, <3>4 DEF NewRow, ids, c
    <2>2. first = [i \in 1..n |-> NewRow(reqs, i, 0)]
        BY <1>4, <2>1
    <2> QED BY <2>2 DEF HasNewRows
<1> HIDE DEF first, start, Step
<1>6. \E f : Is(f, K)
    <2> DEFINE T == {k \in 0..K : \E f : Is(f, k)}
    <2>1. 0 \in T
        <3>1. Is([l \in 0..0 |-> start], 0)
            OBVIOUS
        <3>2. \E f : Is(f, 0)
            <4> HIDE DEF Is
            <4> QED BY <3>1
        <3> HIDE DEF Is
        <3> QED BY <1>2, <3>2
    <2>2. ASSUME NEW k \in 1..K, k - 1 \in T PROVE k \in T
        <3>1. PICK f : Is(f, k - 1)
            <4> HIDE DEF Is
            <4> QED BY <2>2
        <3> DEFINE g == [l \in 0..k |-> IF l = k THEN Step(f[k - 1], k) ELSE f[l]]
        <3>2. ASSUME NEW l \in 0..k PROVE g[l] = IF l = 0 THEN start ELSE Step(g[l - 1], l)
            BY <3>1
        <3>3. Is(g, k)
            BY <3>2
        <3> HIDE DEF Is, g
        <3> QED BY <3>3
    <2>3. \A k \in 0..K : k \in T
        <3> HIDE DEF T
        <3> QED BY <1>2, <2>1, <2>2, Induction
    <2> HIDE DEF Is
    <2> QED BY <1>2, <2>3
<1>7. Is(After, K)
    <2> HIDE DEF Is
    <2> QED BY <1>6
<1> HIDE DEF After
<1>8. After[0] = start /\ \A l \in 1..K : After[l] = Step(After[l - 1], l)
    BY <1>2, <1>7
<1>a. ASSUME NEW i \in 1..n, NEW l \in Layers
      PROVE  /\ at[i] = Len(reqs[i].tokens) /\ at[i] \in Nat /\ at[i] >= 1
             /\ at[i] <= Room(reqs, i, l) /\ at[i] \in 1..Room(reqs, i, l)
    <2>1. Room(reqs, i, l) \in Nat
        BY <1>3, RoomIs
    <2>2. at[i] = Len(reqs[i].tokens)
        OBVIOUS
    <2> HIDE DEF at
    <2>3. at[i] \in Nat /\ at[i] >= 1 /\ at[i] <= Room(reqs, i, l)
        BY <2>2 DEF DecodeOK
    <2> QED BY <2>1, <2>2, <2>3
<1>b. at = [i \in 1..n |-> Len(reqs[i].tokens)]
    OBVIOUS
<1> HIDE DEF at
\* After l layers.
<1> DEFINE Whole(l, h) == \A i \in 1..n :
               CacheHas(After[l].pool, reqs[i].tokens, reqs[i].layer_kv, h, at[i])
           Inv(l) == /\ HasNewRows(reqs, n, l, After[l])
                     /\ \A h \in Layers : IF h <= l THEN Whole(l, h)
                                          ELSE HasAllButLast(reqs, n, After[l].pool, h)
                     /\ OnlyOwnBlocks(reqs, n, m, After[l].pool)
           T == {l \in 0..K : Inv(l)}
<1>9. 0 \in T
    <2>1. After[0].pool = m
        BY <1>8 DEF start
    <2>2. OnlyOwnBlocks(reqs, n, m, m)
        BY DEF OnlyOwnBlocks
    <2>3. \A h \in Layers : ~(h <= 0)
        BY <1>2
    <2> QED BY <1>2, <1>5, <1>8, <2>1, <2>2, <2>3 DEF DecodeReady
<1>10. ASSUME NEW l \in 1..K, l - 1 \in T PROVE l \in T
    <2> DEFINE st == After[l - 1]
               end == After[l]
    <2>1. Inv(l - 1) /\ end = Step(st, l)
        BY <1>8, <1>10
    <2>2. l \in Layers /\ HasNewRows(reqs, n, l - 1, st) /\ HasAllButLast(reqs, n, st.pool, l)
        <3>1. l \in Layers /\ ~(l <= l - 1)
            BY <1>2
        <3> QED BY <2>1, <3>1
    <2>3. /\ HasNewRows(reqs, n, l, end) /\ Whole(l, l)
          /\ OnlyThere(reqs, n, l, at, st.pool, end.pool)
        <3> HIDE DEF st
        <3>1. /\ HasNewRows(reqs, n, l, Step(st, l))
              /\ \A i \in 1..n :
                    CacheHas(Step(st, l).pool, reqs[i].tokens, reqs[i].layer_kv, l, Len(reqs[i].tokens))
              /\ \A b \in KvBlocks, o \in 0..(S - 1) :
                    (\A i \in 1..n : \/ BlockOf(reqs[i].layer_kv, l, Len(reqs[i].tokens)) # b
                                     \/ OffsetOf(Len(reqs[i].tokens)) # o)
                    => Cell(Step(st, l).pool, b, o) = Cell(st.pool, b, o)
            BY <2>2, BlockDecodeIs DEF Step
        <3>2. \A i \in 1..n : at[i] = Len(reqs[i].tokens)
            BY <1>b
        <3> QED BY <2>1, <3>1, <3>2 DEF OnlyThere
    <2>4. HaveRoom(reqs, n, l, at)
        BY <1>a, <2>2 DEF HaveRoom
    <2>5. /\ \A h \in Layers \ {l} : \A i \in 1..n : \A ids : \A c \in Nat :
                c <= Room(reqs, i, h) /\ CacheHas(st.pool, ids, reqs[i].layer_kv, h, c)
                => CacheHas(end.pool, ids, reqs[i].layer_kv, h, c)
          /\ OnlyOwnBlocks(reqs, n, st.pool, end.pool)
        <3> DEFINE p == st.pool
                   q == end.pool
        <3>1. OnlyThere(reqs, n, l, at, p, q)
            BY <2>3
        <3> HIDE DEF p, q
        <3>2. /\ \A h \in Layers \ {l} : \A i \in 1..n : \A ids : \A c \in Nat :
                    c <= Room(reqs, i, h) /\ CacheHas(p, ids, reqs[i].layer_kv, h, c)
                    => CacheHas(q, ids, reqs[i].layer_kv, h, c)
              /\ OnlyOwnBlocks(reqs, n, p, q)
            BY <1>3, <2>2, <2>4, <3>1, OtherLayersStay
        <3> QED BY <3>2 DEF p, q
    <2>6. ASSUME NEW h \in Layers
          PROVE  IF h <= l THEN Whole(l, h) ELSE HasAllButLast(reqs, n, end.pool, h)
        <3>1. CASE h = l
            BY <2>3, <3>1
        <3>2. CASE h # l
            <4>1. h <= l <=> h <= l - 1
                BY <1>2, <3>2
            <4>2. IF h <= l THEN Whole(l - 1, h) ELSE HasAllButLast(reqs, n, st.pool, h)
                <5> HIDE DEF Whole
                <5> QED BY <2>1, <4>1
            <4>3. CASE h <= l
                <5>1. ASSUME NEW i \in 1..n
                      PROVE  CacheHas(end.pool, reqs[i].tokens, reqs[i].layer_kv, h, at[i])
                    <6>1. CacheHas(st.pool, reqs[i].tokens, reqs[i].layer_kv, h, at[i])
                        BY <4>2, <4>3
                    <6> QED BY <1>a, <2>5, <3>2, <6>1
                <5> QED BY <4>3, <5>1
            <4>4. CASE ~(h <= l)
                <5>1. ASSUME NEW i \in 1..n
                      PROVE  CacheHas(end.pool, reqs[i].tokens, reqs[i].layer_kv, h, at[i] - 1)
                    <6>1. CacheHas(st.pool, reqs[i].tokens, reqs[i].layer_kv, h, at[i] - 1)
                        BY <4>2, <4>4, <1>a DEF HasAllButLast
                    <6>2. at[i] - 1 \in Nat /\ at[i] - 1 <= Room(reqs, i, h)
                        <7>1. Room(reqs, i, h) \in Nat
                            BY <1>3, RoomIs
                        <7>2. at[i] \in Nat /\ at[i] >= 1 /\ at[i] <= Room(reqs, i, h)
                            BY <1>a
                        <7> QED BY ONLY <7>1, <7>2
                    <6> QED BY <2>5, <3>2, <6>1, <6>2
                <5> QED BY <4>4, <5>1, <1>b DEF HasAllButLast
            <4> QED BY <4>3, <4>4
        <3> QED BY <3>1, <3>2
    <2>7. OnlyOwnBlocks(reqs, n, m, end.pool)
        BY <2>1, <2>5 DEF OnlyOwnBlocks
    <2> QED BY <2>3, <2>6, <2>7
<1>11. \A l \in 0..K : l \in T
    <2> HIDE DEF T
    <2> QED BY <1>2, <1>9, <1>10, Induction
<1>12. Inv(K)
    <2>1. K \in T
        <3> HIDE DEF T
        <3> QED BY <1>2, <1>11
    <2> HIDE DEF Inv
    <2> QED BY <2>1
<1> DEFINE end == Decode(reqs, m)
<1>13. end.pool = After[K].pool /\ \A i \in 1..n : end.logits[i] = Logits(After[K].x[i])
    BY <1>1, <1>4
<1> HIDE DEF end
<1>14. ASSUME NEW i \in 1..n PROVE end.logits[i] = FullLogits(reqs[i].tokens)
    <2>1. After[K].x[i] = NewRow(reqs, i, K)
        BY <1>12 DEF HasNewRows
    <2> QED BY <1>13, <2>1 DEF NewRow, FullLogits, K
<1>15. ASSUME NEW i \in 1..n, NEW l \in Layers
       PROVE  CacheHas(end.pool, reqs[i].tokens, reqs[i].layer_kv, l, Len(reqs[i].tokens))
    <2>1. l <= K
        BY <1>2
    <2>2. Whole(K, l)
        <3> HIDE DEF Whole
        <3> QED BY <1>12, <2>1
    <2> QED BY <1>13, <1>b, <2>2
<1>16. IsPool(end.pool) /\ OnlyOwnBlocks(reqs, n, m, end.pool)
    BY <1>12, <1>13 DEF HasNewRows
<1> QED BY <1>14, <1>15, <1>16 DEF DecodeDone, end
=============================================================================
