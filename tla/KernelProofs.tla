---------------------------- MODULE KernelProofs ----------------------------
(***************************************************************************)
(* Proofs about the kernels for blocks of any size, tiles of any size and  *)
(* matrices of any shape, whatever order the threads run in.  The form is  *)
(* the same for the three: the barriers hold the threads together, up to   *)
(* the one that is just being passed (the ...Phase invariants, and         *)
(* GemmTogether); so what a thread finds in shared memory was written in   *)
(* its own phase or before it, and by whom is what the data invariants     *)
(* say.                                                                    *)
(***************************************************************************)
EXTENDS Kernels, SequenceTheorems, WellFoundedInduction, TLAPS

\* A set of numbers up to n with 0 and the successor of each has them all.
LEMMA UpTo ==
    ASSUME NEW n \in Nat, NEW T, 0 \in T,
           \A i \in 1..n : i - 1 \in T => i \in T
    PROVE  \A i \in 0..n : i \in T
<1> DEFINE U == {i \in 0..n : i \notin T}
<1> SUFFICES ASSUME U # {} PROVE FALSE
    OBVIOUS
<1>1. U \in SUBSET Nat
    OBVIOUS
<1>2. PICK m \in U : \A i \in U : <<i, m>> \notin OpToRel(<, Nat)
    <2> HIDE DEF U
    <2> QED BY <1>1, NatLessThanWellFounded, WFMin
<1>3. \A i \in U : ~(i < m)
    BY <1>1, <1>2 DEF OpToRel
<1>4. m \in 1..n /\ m - 1 \in 0..n
    OBVIOUS
<1>5. m - 1 \in T
    BY <1>3, <1>4
<1> QED BY <1>4, <1>5

-----------------------------------------------------------------------------
(* argmax_rows_kernel. *)

Powers == {1, 2, 4, 8, 16, 32, 64, 128, 256, 512, 1024}

Pairs == [val : Int, idx : Int]

\* The columns that are t modulo k.
Class(k, t) == {c \in Columns : c % k = t}
ClassBelow(k, t, m) == {c \in Class(k, t) : c < m}

\* What a thread has that looked at the columns of S: its start value, or the
\* first of the greatest among the candidates.
BestOf(S, p) ==
    IF S \cap Candidates = {} THEN p = [val |-> NegInf, idx |-> 0]
    ELSE /\ p.idx \in S \cap Candidates /\ p.val = logits[p.idx]
         /\ \A c \in S \cap Candidates : \/ logits[c] < p.val
                                         \/ logits[c] = p.val /\ p.idx <= c

\* The columns that are accounted for in a thread's pair; the upper half of a
\* level is not looked at any more.
Seen(t) ==
    CASE argmax_pc[t] = "scan" -> ClassBelow(ARGMAX_THREADS, t, col[t])
      [] argmax_pc[t] \in {"sync", "step"} ->
            IF argmax_pc[t] = "sync" /\ t < stride THEN Class(stride, t) ELSE Class(2 * stride, t)
      [] OTHER -> Columns

InUse(t) == argmax_pc[t] = "scan" \/ t < 2 * stride \/ t = 0

ArgmaxType ==
    /\ logits \in [Columns -> Int] /\ \A c \in Columns : logits[c] >= NaN
    /\ s \in [Threads -> Pairs]
    /\ col \in [Threads -> Nat] /\ \A t \in Threads : col[t] % ARGMAX_THREADS = t
    /\ argmax_pc \in [Threads -> {"scan", "sync", "step", "out", "done"}]
    /\ stride \in Powers \cup {0}

\* Which places the threads are at tells how far the tree is.
ArgmaxPhase ==
    /\ stride = ARGMAX_THREADS => \A t \in Threads : argmax_pc[t] \in {"scan", "sync"}
    /\ stride \in Powers \ {ARGMAX_THREADS} =>
          2 * stride <= ARGMAX_THREADS /\ \A t \in Threads : argmax_pc[t] \in {"step", "sync"}
    /\ stride = 0 => \A t \in Threads : argmax_pc[t] \in {"out", "done"}

ArgmaxInv ==
    /\ logits # <<>> => /\ ArgmaxType /\ ArgmaxPhase
                        /\ \A t \in Threads : InUse(t) => BestOf(Seen(t), s[t])
    /\ OutputIsFirstMaximum

\* Two pairs together.
LEMMA BestOfBoth ==
    ASSUME logits \in [Columns -> Int], \A c \in Columns : logits[c] >= NaN,
           NEW S, NEW T, NEW p \in Pairs, NEW q \in Pairs, BestOf(S, p), BestOf(T, q)
    PROVE  BestOf(S \cup T, Better(q, p)) /\ Better(q, p) \in Pairs
<1> DEFINE U == S \cup T
<1>1. \A c \in Candidates : c \in Nat /\ logits[c] \in Nat
    BY DEF Candidates, Columns
<1>2. CASE S \cap Candidates = {} /\ T \cap Candidates = {}
    BY <1>2 DEF BestOf, Better, better_pair, GreaterFloat, EqualFloat, Pairs, NegInf
<1>3. CASE S \cap Candidates = {} /\ T \cap Candidates # {}
    <2>1. p.val = -1 /\ q.val \in Nat
        BY <1>1, <1>3 DEF BestOf, NegInf
    <2>2. Better(q, p) = q
        BY <2>1 DEF Better, better_pair, GreaterFloat, NaN
    <2>3. U \cap Candidates = T \cap Candidates
        BY <1>3
    <2> QED BY <2>2, <2>3 DEF BestOf
<1>4. CASE S \cap Candidates # {} /\ T \cap Candidates = {}
    <2>1. q.val = -1 /\ p.val \in Nat
        BY <1>1, <1>4 DEF BestOf, NegInf
    <2>2. Better(q, p) = p
        BY <2>1 DEF Better, better_pair, GreaterFloat, EqualFloat, NaN
    <2>3. U \cap Candidates = S \cap Candidates
        BY <1>4
    <2> QED BY <2>2, <2>3 DEF BestOf
<1>5. CASE S \cap Candidates # {} /\ T \cap Candidates # {}
    <2>1. /\ p.idx \in S \cap Candidates /\ p.val = logits[p.idx] /\ p.val \in Nat /\ p.idx \in Nat
          /\ \A c \in S \cap Candidates : logits[c] < p.val \/ (logits[c] = p.val /\ p.idx <= c)
        BY <1>1, <1>5 DEF BestOf
    <2>2. /\ q.idx \in T \cap Candidates /\ q.val = logits[q.idx] /\ q.val \in Nat /\ q.idx \in Nat
          /\ \A c \in T \cap Candidates : logits[c] < q.val \/ (logits[c] = q.val /\ q.idx <= c)
        BY <1>1, <1>5 DEF BestOf
    <2>3. better_pair(q, p) <=> (q.val > p.val \/ (q.val = p.val /\ q.idx < p.idx))
        BY <2>1, <2>2 DEF better_pair, GreaterFloat, EqualFloat, NaN
    <2>4. U \cap Candidates # {} /\ \A c \in U \cap Candidates : c \in S \cap Candidates \/ c \in T \cap Candidates
        BY <1>5
    <2>5. CASE better_pair(q, p)
        <3>1. Better(q, p) = q
            BY <2>5 DEF Better
        <3>2. \A c \in U \cap Candidates : logits[c] < q.val \/ (logits[c] = q.val /\ q.idx <= c)
            BY <1>1, <2>1, <2>2, <2>3, <2>4, <2>5
        <3> QED BY <2>2, <2>4, <3>1, <3>2 DEF BestOf
    <2>6. CASE ~better_pair(q, p)
        <3>1. Better(q, p) = p
            BY <2>6 DEF Better
        <3>2. \A c \in U \cap Candidates : logits[c] < p.val \/ (logits[c] = p.val /\ p.idx <= c)
            BY <1>1, <2>1, <2>2, <2>3, <2>4, <2>6
        <3> QED BY <2>1, <2>4, <3>1, <3>2 DEF BestOf
    <2> QED BY <2>5, <2>6
<1> QED BY <1>2, <1>3, <1>4, <1>5

\* One column more.
LEMMA BestOfOneMore ==
    ASSUME logits \in [Columns -> Int], \A c \in Columns : logits[c] >= NaN,
           NEW S, NEW p \in Pairs, BestOf(S, p), NEW c \in Columns
    PROVE  LET q == Better([val |-> logits[c], idx |-> c], p)
           IN  BestOf(S \cup {c}, q) /\ q \in Pairs
<1> DEFINE q == [val |-> logits[c], idx |-> c]
<1>0. q \in Pairs /\ c \in Nat /\ logits[c] \in Int /\ logits[c] >= -2
    BY DEF Pairs, Columns, NaN
<1>1. CASE c \in Candidates
    <2>1. BestOf({c}, q)
        BY <1>1, <1>0 DEF BestOf
    <2> HIDE DEF q
    <2> QED BY <1>0, <2>1, BestOfBoth DEF q
<1>2. CASE c \notin Candidates
    <2>1. logits[c] \in {-1, -2}
        BY <1>0, <1>2 DEF Candidates
    <2>2. p.val \in Int /\ p.val >= -1 /\ (p.val = -1 => p.idx = 0)
        <3>1. CASE S \cap Candidates = {}
            BY <3>1 DEF BestOf, NegInf
        <3>2. CASE S \cap Candidates # {}
            BY <3>2 DEF BestOf, Candidates, Columns
        <3> QED BY <3>1, <3>2
    <2>3. ~better_pair(q, p)
        BY <1>0, <2>1, <2>2 DEF better_pair, GreaterFloat, EqualFloat, NaN
    <2>4. Better(q, p) = p
        BY <2>3 DEF Better
    <2>5. (S \cup {c}) \cap Candidates = S \cap Candidates
        BY <1>2
    <2> QED BY <2>4, <2>5 DEF BestOf
<1> QED BY <1>1, <1>2

\* Halving a power of two.
LEMMA Halves ==
    ASSUME NEW k \in Powers
    PROVE  /\ k > 1 => k \div 2 \in Powers /\ 2 * (k \div 2) = k
           /\ k = 1 => k \div 2 = 0
           /\ k \in Nat /\ k > 0 /\ k \div 2 < k
<1> QED BY DEF Powers

\* The two halves of a class.
LEMMA ClassHalves ==
    ASSUME NEW k \in Powers, NEW t \in 0..(k - 1)
    PROVE  Class(k, t) = Class(2 * k, t) \cup Class(2 * k, t + k)
<1> SUFFICES ASSUME NEW c \in Nat
             PROVE  c % k = t <=> (c % (2 * k) = t \/ c % (2 * k) = t + k)
    BY DEF Class, Columns
<1> QED BY DEF Powers

\* A turn of the scan looks at the next column of the class.
LEMMA ClassNext ==
    ASSUME NEW k \in Powers, NEW t \in 0..(k - 1), NEW m \in Nat, m % k = t, m < COLS
    PROVE  /\ ClassBelow(k, t, m + k) = ClassBelow(k, t, m) \cup {m}
           /\ m \in Columns /\ (m + k) % k = t
<1>1. (m + k) % k = t
    BY DEF Powers
<1>2. \A c \in Nat : c % k = t /\ c < m + k => c <= m
    BY DEF Powers
<1>3. m \in Class(k, t) /\ m \in Columns /\ m < m + k /\ COLS \in Nat
    BY ArgmaxAssumption DEF Class, Columns, Powers
<1> QED BY <1>1, <1>2, <1>3 DEF ClassBelow, Class, Columns, Powers

LEMMA ArgmaxConstants ==
    /\ ARGMAX_THREADS \in Powers /\ ARGMAX_THREADS \in Nat /\ ARGMAX_THREADS > 0
    /\ COLS \in Nat /\ COLS > 0 /\ 0 \in Threads /\ Threads \subseteq Nat
<1> QED BY ArgmaxAssumption DEF Powers, Threads

LEMMA ArgmaxInitOK == ArgmaxInit => ArgmaxInv
<1> SUFFICES ASSUME ArgmaxInit PROVE ArgmaxInv
    OBVIOUS
<1> USE ArgmaxConstants
<1>1. ArgmaxType
    <2>1. \A t \in Threads : t % ARGMAX_THREADS = t
        BY DEF Threads, Powers
    <2>2. \A c \in Columns : logits[c] \in Int /\ logits[c] >= NaN
        BY ArgmaxAssumption DEF ArgmaxInit, NaN, NegInf
    <2>3. logits \in [Columns -> Int]
        BY <2>2 DEF ArgmaxInit
    <2> QED BY <2>1, <2>2, <2>3 DEF ArgmaxInit, ArgmaxType, Pairs, NegInf
<1>2. ArgmaxPhase
    BY DEF ArgmaxInit, ArgmaxPhase
<1>3. ASSUME NEW t \in Threads PROVE BestOf(Seen(t), s[t])
    <2>1. Seen(t) = {c \in Class(ARGMAX_THREADS, t) : c < t}
        BY DEF ArgmaxInit, Seen, ClassBelow
    <2>2. \A c \in Class(ARGMAX_THREADS, t) : c >= t
        BY DEF Class, Columns, Powers, Threads
    <2>3. Seen(t) = {}
        BY <2>1, <2>2 DEF Class, Columns
    <2> QED BY <2>3 DEF BestOf, ArgmaxInit
<1>4. OutputIsFirstMaximum
    BY DEF ArgmaxInit, OutputIsFirstMaximum
<1> QED BY <1>1, <1>2, <1>3, <1>4 DEF ArgmaxInv

\* A step that changes the pair of at most one thread: the others have seen
\* what they had seen.
LEMMA ScanKeeps ==
    ASSUME ArgmaxInv, logits # <<>>, NEW t \in Threads, Scan(t) \/ EndScan(t)
    PROVE  ArgmaxInv'
<1> USE ArgmaxConstants
<1>1. ArgmaxType /\ ArgmaxPhase /\ argmax_pc[t] = "scan"
    BY DEF ArgmaxInv, Scan, EndScan
<1>2. stride = ARGMAX_THREADS
    BY <1>1 DEF ArgmaxType, ArgmaxPhase
<1>3. UNCHANGED <<logits, stride, output>> /\ Candidates' = Candidates
    BY DEF Scan, EndScan, Candidates
<1>4. OutputIsFirstMaximum'
    BY <1>3 DEF ArgmaxInv, OutputIsFirstMaximum, FirstMaximum, Candidates
<1>5. t \in 0..(ARGMAX_THREADS - 1) /\ BestOf(Seen(t), s[t]) /\ s[t] \in Pairs
      /\ Seen(t) = ClassBelow(ARGMAX_THREADS, t, col[t])
      /\ col[t] \in Nat /\ col[t] % ARGMAX_THREADS = t
    BY <1>1 DEF ArgmaxInv, ArgmaxType, InUse, Seen, Threads
<1>6. CASE Scan(t)
    <2> DEFINE q == Better([val |-> logits[col[t]], idx |-> col[t]], s[t])
               m == col[t]
    <2>1. /\ ClassBelow(ARGMAX_THREADS, t, m + ARGMAX_THREADS) = Seen(t) \cup {m}
          /\ m \in Columns /\ (m + ARGMAX_THREADS) % ARGMAX_THREADS = t
        <3>1. m \in Nat /\ m % ARGMAX_THREADS = t /\ m < COLS
            BY <1>5, <1>6 DEF Scan
        <3> HIDE DEF m
        <3>2. /\ ClassBelow(ARGMAX_THREADS, t, m + ARGMAX_THREADS)
                   = ClassBelow(ARGMAX_THREADS, t, m) \cup {m}
              /\ m \in Columns /\ (m + ARGMAX_THREADS) % ARGMAX_THREADS = t
            BY <1>5, <3>1, ClassNext
        <3> QED BY <1>5, <3>2 DEF m
    <2>2. BestOf(Seen(t) \cup {m}, q) /\ q \in Pairs
        <3>1. logits \in [Columns -> Int] /\ \A c \in Columns : logits[c] >= NaN
            BY <1>1 DEF ArgmaxType
        <3> QED BY <3>1, <1>5, <2>1, BestOfOneMore
    <2>3. /\ s' = [s EXCEPT ![t] = q] /\ col' = [col EXCEPT ![t] = m + ARGMAX_THREADS]
          /\ argmax_pc' = argmax_pc
        BY <1>6 DEF Scan
    <2> HIDE DEF q, m
    <2>4. ArgmaxType'
        <3>1. s' \in [Threads -> Pairs]
            BY <1>1, <2>2, <2>3 DEF ArgmaxType
        <3>2. col[t] + ARGMAX_THREADS \in Nat /\ (col[t] + ARGMAX_THREADS) % ARGMAX_THREADS = t
            BY <1>5, <2>1 DEF m
        <3> DEFINE n == col[t] + ARGMAX_THREADS
        <3>3. col' = [col EXCEPT ![t] = n] /\ n \in Nat /\ n % ARGMAX_THREADS = t
            BY <2>3, <3>2 DEF m
        <3> HIDE DEF n
        <3>4. col' \in [Threads -> Nat] /\ \A u \in Threads : col'[u] % ARGMAX_THREADS = u
            BY <1>1, <3>3 DEF ArgmaxType
        <3> QED BY ONLY <1>1, <1>3, <2>3, <3>1, <3>4 DEF ArgmaxType
    <2>5. ArgmaxPhase'
        BY <1>1, <1>3, <2>3 DEF ArgmaxPhase
    <2>6. ASSUME NEW u \in Threads, InUse(u)' PROVE BestOf(Seen(u), s[u])'
        <3>1. CASE u = t
            <4>1. Seen(u)' = Seen(t) \cup {m} /\ s'[u] = q
                BY <3>1, <1>1, <1>5, <2>1, <2>3 DEF Seen, ArgmaxType, Class, ClassBelow, m
            <4> QED BY <4>1, <2>2, <1>3 DEF BestOf
        <3>2. CASE u # t
            <4>1. Seen(u)' = Seen(u) /\ s'[u] = s[u] /\ InUse(u)
                BY <3>2, <2>6, <1>1, <1>3, <2>3 DEF Seen, ArgmaxType, Class, ClassBelow, InUse
            <4> QED BY <4>1, <1>3 DEF BestOf, ArgmaxInv
        <3> QED BY <3>1, <3>2
    <2> QED BY <2>4, <2>5, <2>6, <1>4 DEF ArgmaxInv
<1>7. CASE EndScan(t)
    <2>3. s' = s /\ col' = col /\ argmax_pc' = [argmax_pc EXCEPT ![t] = "sync"] /\ col[t] >= COLS
        BY <1>7 DEF EndScan
    <2>4. ArgmaxType'
        BY <1>1, <1>3, <2>3 DEF ArgmaxType
    <2>5. ArgmaxPhase'
        BY <1>1, <1>2, <1>3, <2>3 DEF ArgmaxPhase, ArgmaxType, Powers
    <2>6. ASSUME NEW u \in Threads, InUse(u)' PROVE BestOf(Seen(u), s[u])'
        <3>1. CASE u = t
            <4>1. Seen(t) = Class(ARGMAX_THREADS, t)
                BY <1>5, <2>3 DEF Class, ClassBelow, Columns
            <4>2. Seen(u)' = Class(ARGMAX_THREADS, t)
                BY <3>1, <1>1, <1>2, <1>3, <2>3 DEF Seen, ArgmaxType, Class, ClassBelow, Threads
            <4> QED BY <3>1, <4>1, <4>2, <1>3, <1>5, <2>3 DEF BestOf
        <3>2. CASE u # t
            <4>1. Seen(u)' = Seen(u) /\ s'[u] = s[u] /\ InUse(u)
                BY <3>2, <2>6, <1>1, <1>3, <2>3 DEF Seen, ArgmaxType, Class, ClassBelow, InUse
            <4> QED BY <4>1, <1>3 DEF BestOf, ArgmaxInv
        <3> QED BY <3>1, <3>2
    <2> QED BY <2>4, <2>5, <2>6, <1>4 DEF ArgmaxInv
<1> QED BY <1>6, <1>7

LEMMA TreeStepKeeps ==
    ASSUME ArgmaxInv, logits # <<>>, NEW t \in Threads, TreeStep(t)
    PROVE  ArgmaxInv'
<1> USE ArgmaxConstants
<1>1. ArgmaxType /\ ArgmaxPhase /\ argmax_pc[t] = "step"
    BY DEF ArgmaxInv, TreeStep
<1>2. stride \in Powers /\ stride \in Nat /\ stride > 0 /\ stride # ARGMAX_THREADS /\ 2 * stride <= ARGMAX_THREADS
    BY <1>1 DEF ArgmaxType, ArgmaxPhase, Powers
<1>3. UNCHANGED <<logits, stride, output, col>> /\ argmax_pc' = [argmax_pc EXCEPT ![t] = "sync"]
    BY DEF TreeStep
<1>4. OutputIsFirstMaximum'
    BY <1>3 DEF ArgmaxInv, OutputIsFirstMaximum, FirstMaximum, Candidates
<1>5. \A u \in Threads : u \in Nat /\ argmax_pc[u] \in {"step", "sync"}
    BY <1>1, <1>2 DEF ArgmaxPhase
<1>6. \A u \in Threads : u # t => Seen(u)' = Seen(u) /\ InUse(u)' = InUse(u)
    BY <1>1, <1>3 DEF Seen, InUse, ArgmaxType, Class, ClassBelow
<1>7. CASE t < stride
    <2> DEFINE v == t + stride
               q == Better(s[v], s[t])
    <2>1. v \in Threads /\ v < 2 * stride /\ v >= stride /\ t < 2 * stride
        BY <1>2, <1>5, <1>7 DEF Threads
    <2>2. Seen(t) = Class(2 * stride, t) /\ InUse(t)
        BY <1>1, <1>7, <2>1 DEF Seen, InUse
    <2>3. Seen(v) = Class(2 * stride, v) /\ InUse(v)
        BY <1>2, <1>5, <2>1 DEF Seen, InUse
    <2>4. BestOf(Seen(t), s[t]) /\ BestOf(Seen(v), s[v]) /\ s[t] \in Pairs /\ s[v] \in Pairs
        BY <1>1, <2>1, <2>2, <2>3 DEF ArgmaxInv, ArgmaxType
    <2>5. Seen(t) \cup Seen(v) = Class(stride, t)
        BY <1>2, <1>5, <1>7, <2>2, <2>3, ClassHalves
    <2>6. BestOf(Class(stride, t), q) /\ q \in Pairs
        <3>1. logits \in [Columns -> Int] /\ \A c \in Columns : logits[c] >= NaN
            BY <1>1 DEF ArgmaxType
        <3> QED BY <3>1, <2>4, <2>5, BestOfBoth
    <2>7. s' = [s EXCEPT ![t] = q]
        BY <1>7 DEF TreeStep
    <2> HIDE DEF q, v
    <2>8. ArgmaxType'
        BY <1>1, <1>3, <2>6, <2>7 DEF ArgmaxType
    <2>9. ArgmaxPhase'
        BY <1>1, <1>2, <1>3 DEF ArgmaxPhase, ArgmaxType, Powers
    <2>10. ASSUME NEW u \in Threads, InUse(u)' PROVE BestOf(Seen(u), s[u])'
        <3>1. CASE u = t
            <4>1. Seen(u)' = Class(stride, t) /\ s'[u] = q
                BY <3>1, <1>1, <1>2, <1>3, <1>5, <1>7, <2>7 DEF Seen, ArgmaxType, Class
            <4> QED BY <4>1, <2>6, <1>3 DEF BestOf, Candidates
        <3>2. CASE u # t
            <4>1. Seen(u)' = Seen(u) /\ s'[u] = s[u] /\ InUse(u)
                BY <3>2, <2>10, <1>1, <1>6, <2>7 DEF ArgmaxType
            <4> QED BY <4>1, <1>3 DEF BestOf, ArgmaxInv, Candidates
        <3> QED BY <3>1, <3>2
    <2> QED BY <2>8, <2>9, <2>10, <1>4 DEF ArgmaxInv
<1>8. CASE ~(t < stride)
    <2>1. s' = s
        BY <1>8 DEF TreeStep
    <2>2. Seen(t)' = Seen(t) /\ InUse(t)' = InUse(t)
        BY <1>1, <1>2, <1>3, <1>5, <1>8 DEF Seen, InUse, ArgmaxType, Class, ClassBelow
    <2>3. ArgmaxType'
        BY <1>1, <1>3, <2>1 DEF ArgmaxType
    <2>4. ArgmaxPhase'
        BY <1>1, <1>2, <1>3 DEF ArgmaxPhase, ArgmaxType, Powers
    <2>5. ASSUME NEW u \in Threads, InUse(u)' PROVE BestOf(Seen(u), s[u])'
        <3>1. Seen(u)' = Seen(u) /\ InUse(u)
            BY <2>2, <2>5, <1>6
        <3> QED BY <3>1, <2>1, <1>3 DEF BestOf, ArgmaxInv, Candidates
    <2> QED BY <2>3, <2>4, <2>5, <1>4 DEF ArgmaxInv
<1> QED BY <1>7, <1>8

LEMMA TreeSyncKeeps == ASSUME ArgmaxInv, logits # <<>>, TreeSync PROVE ArgmaxInv'
<1> USE ArgmaxConstants
<1>1. ArgmaxType /\ ArgmaxPhase /\ \A t \in Threads : argmax_pc[t] = "sync"
    BY DEF ArgmaxInv, TreeSync
<1>2. stride \in Powers /\ (stride = ARGMAX_THREADS \/ 2 * stride <= ARGMAX_THREADS)
    BY <1>1 DEF ArgmaxType, ArgmaxPhase
<1>3. /\ UNCHANGED <<logits, output, col, s>>
      /\ stride' = stride \div 2
      /\ argmax_pc' = [t \in Threads |-> IF stride > 1 THEN "step" ELSE "out"]
    BY DEF TreeSync
<1>4. OutputIsFirstMaximum'
    BY <1>3 DEF ArgmaxInv, OutputIsFirstMaximum, FirstMaximum, Candidates
<1>5. \A t \in Threads : t < stride => Seen(t) = Class(stride, t) /\ BestOf(Class(stride, t), s[t])
    <2> TAKE t \in Threads
    <2> HAVE t < stride
    <2>1. Seen(t) = Class(stride, t)
        BY <1>1 DEF Seen
    <2>2. t < 2 * stride
        <3>1. t \in Nat
            BY DEF Threads
        <3>2. stride \in Nat
            BY <1>2 DEF Powers
        <3> QED BY <3>1, <3>2
    <2> QED BY <2>1, <2>2 DEF ArgmaxInv, InUse
<1>6. CASE stride > 1
    <2>1. stride' \in Powers /\ 2 * stride' = stride /\ stride' < stride /\ stride \in Nat
        <3>1. /\ stride \div 2 \in Powers /\ 2 * (stride \div 2) = stride
              /\ stride \div 2 < stride /\ stride \in Nat
            BY <1>2, <1>6, Halves, Zenon
        <3> DEFINE half == stride \div 2
        <3>2. half \in Powers /\ 2 * half = stride /\ half < stride /\ stride' = half
            BY <3>1, <1>3
        <3> QED
            <4> HIDE DEF half
            <4> QED BY <3>1, <3>2
    <2>2. argmax_pc' = [t \in Threads |-> "step"]
        BY <1>3, <1>6
    <2>3. ArgmaxType' /\ ArgmaxPhase'
        BY <1>1, <1>2, <1>3, <2>1, <2>2 DEF ArgmaxType, ArgmaxPhase, Powers
    <2>4. ASSUME NEW t \in Threads, InUse(t)' PROVE BestOf(Seen(t), s[t])'
        <3>1. t < stride
            BY <1>6, <2>1, <2>2, <2>4 DEF InUse
        <3>2. Seen(t)' = Class(2 * stride', t)
            BY <2>1, <2>2 DEF Seen, Class, ClassBelow, Powers
        <3> QED BY <3>1, <3>2, <1>3, <1>5, <2>1 DEF BestOf, Candidates
    <2> QED BY <2>3, <2>4, <1>4 DEF ArgmaxInv
<1>7. CASE ~(stride > 1)
    <2>1. stride = 1 /\ stride' = 0
        BY <1>2, <1>3, <1>7 DEF Powers
    <2>2. argmax_pc' = [t \in Threads |-> "out"]
        BY <1>3, <1>7
    <2>3. ArgmaxType' /\ ArgmaxPhase'
        BY <1>1, <1>2, <1>3, <2>1, <2>2 DEF ArgmaxType, ArgmaxPhase, Powers
    <2>4. ASSUME NEW t \in Threads, InUse(t)' PROVE BestOf(Seen(t), s[t])'
        <3>1. t = 0
            BY <2>1, <2>2, <2>4 DEF InUse
        <3>2. Class(1, 0) = Columns
            BY DEF Class, ClassBelow, Columns
        <3>3. Seen(t)' = Columns
            BY <2>2, <3>1 DEF Seen, Columns
        <3> QED BY <3>1, <3>2, <3>3, <1>3, <1>5, <2>1 DEF BestOf, Candidates
    <2> QED BY <2>3, <2>4, <1>4 DEF ArgmaxInv
<1> QED BY <1>6, <1>7

LEMMA OutputKeeps == ASSUME ArgmaxInv, logits # <<>>, Output PROVE ArgmaxInv'
<1> USE ArgmaxConstants
<1>1. ArgmaxType /\ ArgmaxPhase /\ argmax_pc[0] = "out"
    BY DEF ArgmaxInv, Output
<1>2. stride = 0
    BY <1>1 DEF ArgmaxType, ArgmaxPhase
<1>3. /\ UNCHANGED <<logits, stride, col, s>> /\ output' = s[0].idx
      /\ argmax_pc' = [argmax_pc EXCEPT ![0] = "done"]
    BY DEF Output
<1>4. BestOf(Columns, s[0])
    BY <1>1, <1>2 DEF ArgmaxInv, InUse, Seen
<1>5. ArgmaxType' /\ ArgmaxPhase'
    BY <1>1, <1>2, <1>3 DEF ArgmaxType, ArgmaxPhase, Powers
<1>6. ASSUME NEW t \in Threads, InUse(t)' PROVE BestOf(Seen(t), s[t])'
    <2>1. t = 0
        BY <1>1, <1>2, <1>3, <1>6, <1>5 DEF InUse, ArgmaxPhase
    <2>2. Seen(t)' = Columns
        BY <1>1, <1>3, <2>1 DEF Seen, Columns, ArgmaxType
    <2> QED BY <1>3, <1>4, <2>1, <2>2 DEF BestOf, Candidates
<1>7. s[0].idx = FirstMaximum
    <2>1. CASE Candidates = {}
        BY <2>1, <1>4 DEF BestOf, FirstMaximum
    <2>2. CASE Candidates # {}
        <3> DEFINE M == {c \in Candidates : \A d \in Candidates : logits[d] <= logits[c]}
        <3>1. /\ Columns \cap Candidates = Candidates
              /\ \A c \in Candidates : c \in Nat /\ logits[c] \in Int
            BY <1>1 DEF Candidates, Columns, ArgmaxType
        <3>2. /\ s[0].idx \in Candidates /\ s[0].val = logits[s[0].idx]
              /\ \A c \in Candidates : \/ logits[c] < s[0].val
                                       \/ logits[c] = s[0].val /\ s[0].idx <= c
            BY <1>4, <2>2, <3>1 DEF BestOf
        <3>3. s[0].idx \in M /\ \A c \in M : s[0].idx <= c
            BY <3>1, <3>2
        <3>4. \A c \in M : c \in Nat
            BY <3>1
        <3> HIDE DEF M
        <3>5. Min(M) = s[0].idx
            BY <3>3, <3>4 DEF Min
        <3> QED BY <2>2, <3>5 DEF FirstMaximum, M
    <2> QED BY <2>1, <2>2
<1>8. OutputIsFirstMaximum'
    BY <1>3, <1>7 DEF OutputIsFirstMaximum, FirstMaximum, Candidates
<1> QED BY <1>5, <1>6, <1>8 DEF ArgmaxInv

LEMMA ArgmaxKeeps == ASSUME ArgmaxInv, [Next]_vars PROVE ArgmaxInv'
<1>1. CASE UNCHANGED argmax_vars
    BY <1>1 DEF argmax_vars, ArgmaxInv, ArgmaxType, ArgmaxPhase, InUse, Seen, BestOf, Candidates,
                OutputIsFirstMaximum, FirstMaximum, Class, ClassBelow
<1>2. CASE logits # <<>> /\ ArgmaxNext
    BY <1>2, ScanKeeps, TreeStepKeeps, TreeSyncKeeps, OutputKeeps DEF ArgmaxNext
<1> QED BY <1>1, <1>2 DEF Next, vars

\* Whatever the logits, the number of columns and the number of threads (a power
\* of two), and however the threads of a level run: argmax_rows_kernel returns
\* the least column with the greatest logit (argmax.cu:12-75), so greedy
\* decoding picks the same token as a scan from the left would.
THEOREM ArgmaxIsFirstMaximum == Spec => []OutputIsFirstMaximum
<1>1. Init => ArgmaxInv
    <2>1. ArgmaxIdle => ArgmaxInv
        BY DEF ArgmaxIdle, ArgmaxInv, OutputIsFirstMaximum
    <2> QED BY <2>1, ArgmaxInitOK DEF Init
<1>2. ArgmaxInv => OutputIsFirstMaximum
    BY DEF ArgmaxInv
<1> QED BY <1>1, <1>2, ArgmaxKeeps, PTL DEF Spec
-----------------------------------------------------------------------------
(* The reductions over a thread block. *)

BehindSecond == {"return", "sync_3", "done"}
BehindFirst == {"load", "store", "sync_2"} \cup BehindSecond
Places == {"put", "sync_1"} \cup BehindFirst

LastCall == IF Flash THEN Bc ELSE 2

ReduceType ==
    /\ kernel \in {"layernorm", "paged_attention", "flashattention"}
    /\ pc \in [Warps -> Places] /\ call \in [Warps -> Calls] /\ scores \in [Warps -> Int]
    /\ DOMAIN shared = 1..2 /\ \A a \in 1..2 : DOMAIN shared[a] = Warps
    /\ DOMAIN loaded = Warps
    /\ DOMAIN result = Calls /\ \A c \in Calls : DOMAIN result[c] = Warps

\* Only the adders store, and only flashattention has a third barrier.
PlacesOfTheirOwn ==
    \A w \in Warps : /\ pc[w] = "store" => w \in Adders
                     /\ pc[w] = "sync_3" => Flash

\* A warp has written its scores for its call when it comes to the first barrier.
ScoresOfTheCall ==
    \A w \in Warps : scores[w] = IF pc[w] = "put" THEN call[w] - 1 ELSE call[w]

\* A warp is done only with the last call.
DoneIsLast == \A w \in Warps : pc[w] = "done" => call[w] = LastCall

\* The barriers hold the warps of one call together...
TogetherAtFirst ==
    \A v, w \in Warps : call[v] = call[w] /\ pc[w] \in BehindFirst => pc[v] \in BehindFirst
TogetherAtSecond ==
    \A v, w \in Warps : call[v] = call[w] /\ pc[w] \in BehindSecond => pc[v] \in BehindSecond

\* ... and keep the calls apart: with a third barrier all warps are in the same call.
CallsApart ==
    \A v, w \in Warps : call[v] < call[w] =>
        ~Flash /\ pc[v] = "return" /\ pc[w] \in {"put", "sync_1"}

PhaseInv ==
    /\ ReduceType /\ PlacesOfTheirOwn /\ ScoresOfTheCall /\ DoneIsLast
    /\ TogetherAtFirst /\ TogetherAtSecond /\ CallsApart

LEMMA ReduceConstants ==
    /\ NUM_WARPS \in Nat /\ NUM_WARPS > 0 /\ Bc \in Nat /\ Bc > 0
    /\ NumWarps \in Nat /\ NumWarps > 0 /\ 0 \in Warps /\ LastCall \in Nat /\ LastCall > 0
    /\ Calls = 1..LastCall /\ Warps = 0..(NumWarps - 1)
    /\ Flash => NumWarps = 2
<1> QED BY BlockReduceAssumption DEF NumWarps, Warps, LastCall, Flash, Calls

LEMMA ReduceInitPhase == ReduceInit => PhaseInv
<1> USE ReduceConstants
<1> SUFFICES ASSUME ReduceInit PROVE PhaseInv
    OBVIOUS
<1>1. ReduceType
    BY BlockReduceAssumption DEF ReduceInit, ReduceType, Places
<1>2. PlacesOfTheirOwn /\ ScoresOfTheCall /\ DoneIsLast
    BY DEF ReduceInit, PlacesOfTheirOwn, ScoresOfTheCall, DoneIsLast
<1>3. TogetherAtFirst /\ TogetherAtSecond /\ CallsApart
    BY DEF ReduceInit, TogetherAtFirst, TogetherAtSecond, CallsApart, BehindFirst, BehindSecond
<1> QED BY <1>1, <1>2, <1>3 DEF PhaseInv

\* What only depends on the kernel.
LEMMA SameKernel ==
    ASSUME kernel' = kernel
    PROVE  /\ Flash' = Flash /\ Warps' = Warps /\ Calls' = Calls /\ LastCall' = LastCall
           /\ Adders' = Adders /\ NumWarps' = NumWarps
           /\ \A c : ArrayOf(c)' = ArrayOf(c)
<1> QED BY DEF Flash, Warps, Calls, LastCall, NumWarps, Adders, ArrayOf

\* A barrier is passed by all warps at once, from one place to the next; they are
\* in the same call then.
LEMMA SyncKeepsPhase ==
    ASSUME PhaseInv, NEW from, NEW to, Sync(from, to),
           <<from, to>> \in {<<"sync_1", "load">>, <<"sync_2", "return">>}
    PROVE  PhaseInv'
<1> USE ReduceConstants
<1>1. \A w \in Warps : pc[w] = from /\ pc[w] # "return" /\ pc'[w] = to
    BY DEF Sync
<1>2. \A v, w \in Warps : call[v] = call[w]
    BY <1>1 DEF PhaseInv, CallsApart, ReduceType
<1>3. UNCHANGED <<kernel, shared, call, loaded, result, scores>>
    BY DEF Sync
<1>4. Warps' = Warps /\ Calls' = Calls /\ LastCall' = LastCall /\ Adders' = Adders /\ Flash' = Flash
    BY <1>3, SameKernel
<1>5. ReduceType'
    BY <1>3, <1>4 DEF PhaseInv, ReduceType, Sync, Places, BehindFirst, BehindSecond
<1>6. PlacesOfTheirOwn' /\ ScoresOfTheCall' /\ DoneIsLast'
    BY <1>1, <1>3, <1>4 DEF PhaseInv, PlacesOfTheirOwn, ScoresOfTheCall, DoneIsLast
<1>7. TogetherAtFirst' /\ TogetherAtSecond'
    BY <1>1, <1>4 DEF TogetherAtFirst, TogetherAtSecond
<1>8. CallsApart'
    BY <1>2, <1>3, <1>4 DEF PhaseInv, ReduceType, CallsApart
<1> QED BY <1>5, <1>6, <1>7, <1>8 DEF PhaseInv

LEMMA NextKeyKeepsPhase == ASSUME PhaseInv, NextKey PROVE PhaseInv'
<1> USE ReduceConstants
<1>1. \A w \in Warps : pc[w] = "sync_3"
    BY DEF NextKey
<1>2. Flash /\ \A v, w \in Warps : call[v] = call[w]
    BY <1>1 DEF PhaseInv, PlacesOfTheirOwn, CallsApart, ReduceType
<1>3. UNCHANGED <<kernel, shared, loaded, result, scores>>
    BY DEF NextKey
<1>4. Warps' = Warps /\ Calls' = Calls /\ LastCall' = LastCall /\ Adders' = Adders /\ Flash' = Flash
    BY <1>3, SameKernel
<1>5. PICK c \in 1..Bc : \A w \in Warps : call[w] = c
    BY <1>2 DEF PhaseInv, ReduceType, LastCall
<1>6. \A w \in Warps : /\ pc'[w] = IF c < Bc THEN "put" ELSE "done"
                       /\ call'[w] = IF c < Bc THEN c + 1 ELSE c
    BY <1>5 DEF NextKey, Advance
<1>7. ReduceType'
    <2>1. \A w \in Warps : pc'[w] \in Places /\ call'[w] \in Calls
        BY <1>2, <1>6 DEF Places, BehindFirst, BehindSecond, LastCall
    <2>2. pc' \in [Warps -> Places] /\ call' \in [Warps -> Calls]
        BY <2>1 DEF NextKey
    <2> QED BY <2>2, <1>3, <1>4 DEF PhaseInv, ReduceType
<1>8. PlacesOfTheirOwn' /\ DoneIsLast'
    BY <1>2, <1>4, <1>6 DEF PlacesOfTheirOwn, DoneIsLast, LastCall
<1>9. ScoresOfTheCall'
    <2>1. \A w \in Warps : scores[w] = c
        BY <1>1, <1>5 DEF PhaseInv, ScoresOfTheCall
    <2> QED BY <2>1, <1>3, <1>4, <1>6 DEF ScoresOfTheCall
<1>10. TogetherAtFirst' /\ TogetherAtSecond' /\ CallsApart'
    BY <1>4, <1>6 DEF TogetherAtFirst, TogetherAtSecond, CallsApart
<1> QED BY <1>7, <1>8, <1>9, <1>10 DEF PhaseInv

\* Every other step is one warp's.
LEMMA WarpKeepsPhase ==
    ASSUME PhaseInv, NEW x \in Warps, Put(x) \/ Load(x) \/ Store(x) \/ Skip(x) \/ Return(x)
    PROVE  PhaseInv'
<1> USE ReduceConstants
<1>1. kernel' = kernel /\ pc[x] \in Places /\ call[x] \in Calls
    BY DEF Put, Load, Store, Skip, Return, PhaseInv, ReduceType
<1>2. Warps' = Warps /\ Calls' = Calls /\ LastCall' = LastCall /\ Adders' = Adders /\ Flash' = Flash
    BY <1>1, SameKernel
<1>3. /\ DOMAIN shared' = 1..2 /\ \A a \in 1..2 : DOMAIN shared'[a] = Warps
      /\ DOMAIN loaded' = Warps
      /\ DOMAIN result' = Calls /\ \A c \in Calls : DOMAIN result'[c] = Warps
    BY <1>1 DEF Put, Load, Store, Skip, Return, PhaseInv, ReduceType
<1> DEFINE Moves(to) == pc' = [pc EXCEPT ![x] = to]
<1>4. CASE Put(x)
    <2>1. pc[x] = "put" /\ Moves("sync_1") /\ call' = call /\ scores' = [scores EXCEPT ![x] = call[x]]
        BY <1>4 DEF Put
    <2>2. ReduceType'
        BY <1>1, <1>2, <1>3, <2>1 DEF PhaseInv, ReduceType, Places
    <2> QED
        BY <1>2, <2>1, <2>2 DEF PhaseInv, ReduceType, PlacesOfTheirOwn, ScoresOfTheCall, DoneIsLast,
                         TogetherAtFirst, TogetherAtSecond, CallsApart, BehindFirst, BehindSecond
<1>5. CASE Load(x) \/ Store(x) \/ Skip(x)
    <2>1. PICK to \in {"store", "sync_2"} :
             /\ pc[x] \in {"load", "store"} /\ Moves(to) /\ call' = call /\ scores' = scores
             /\ to = "store" => x \in Adders
        BY <1>5 DEF Load, Store, Skip
    <2>2. ReduceType'
        BY <1>1, <1>2, <1>3, <2>1 DEF PhaseInv, ReduceType, Places, BehindFirst
    <2> QED
        BY <1>2, <2>1, <2>2 DEF PhaseInv, ReduceType, PlacesOfTheirOwn, ScoresOfTheCall, DoneIsLast,
                         TogetherAtFirst, TogetherAtSecond, CallsApart, BehindFirst, BehindSecond
<1>6. CASE Return(x)
    <2> DEFINE to == AfterReturn(call[x])
               next == IF to = "put" THEN call[x] + 1 ELSE call[x]
    <2>1. pc[x] = "return" /\ Moves(to) /\ scores' = scores /\ call' = [call EXCEPT ![x] = next]
        BY <1>1, <1>6 DEF Return, PhaseInv, ReduceType
    <2>2. \/ Flash /\ to = "sync_3" /\ next = call[x]
          \/ ~Flash /\ call[x] = 1 /\ to = "put" /\ next = 2
          \/ ~Flash /\ call[x] = 2 /\ to = "done" /\ next = call[x]
        BY <1>1 DEF AfterReturn, LastCall
    <2>3. ~Flash => \A w \in Warps : call[w] \in 1..2
        BY DEF PhaseInv, ReduceType, LastCall
    <2> HIDE DEF to, next
    <2>4. to \in Places /\ next \in Calls
        BY <1>1, <2>2 DEF Places, BehindFirst, BehindSecond, LastCall
    <2>5. ReduceType'
        BY <1>1, <1>2, <1>3, <2>1, <2>4 DEF PhaseInv, ReduceType
    <2>6. CASE Flash /\ to = "sync_3" /\ next = call[x]
        BY <1>2, <2>1, <2>5, <2>6 DEF PhaseInv, ReduceType, PlacesOfTheirOwn, ScoresOfTheCall, DoneIsLast,
                         TogetherAtFirst, TogetherAtSecond, CallsApart, BehindFirst, BehindSecond
    <2>7. CASE ~Flash /\ call[x] = 1 /\ to = "put" /\ next = 2
        <3>1. \A v \in Warps : call[v] = 1 => pc[v] = "return"
            BY <2>1, <2>7 DEF PhaseInv, ReduceType, PlacesOfTheirOwn, DoneIsLast, LastCall,
                              TogetherAtSecond, BehindSecond
        <3>2. /\ \A w \in Warps : pc'[w] = IF w = x THEN "put" ELSE pc[w]
              /\ \A w \in Warps : call'[w] = IF w = x THEN 2 ELSE call[w]
            BY <2>1, <2>7 DEF PhaseInv, ReduceType
        <3>3. PlacesOfTheirOwn' /\ ScoresOfTheCall' /\ DoneIsLast'
            BY <1>2, <2>1, <2>7, <3>2 DEF PhaseInv, ReduceType, PlacesOfTheirOwn, ScoresOfTheCall, DoneIsLast
        <3>4. \A v \in Warps : call[v] = 2 => pc[v] \in {"put", "sync_1"}
            BY <2>1, <2>7 DEF PhaseInv, CallsApart
        <3>5. TogetherAtFirst' /\ TogetherAtSecond' /\ CallsApart'
            BY <1>2, <2>3, <2>7, <3>1, <3>2, <3>4
               DEF TogetherAtFirst, TogetherAtSecond, CallsApart, BehindFirst, BehindSecond
        <3> QED BY <2>5, <3>3, <3>5 DEF PhaseInv
    <2>8. CASE ~Flash /\ call[x] = 2 /\ to = "done" /\ next = call[x]
        BY <1>2, <2>1, <2>3, <2>5, <2>8
           DEF PhaseInv, ReduceType, PlacesOfTheirOwn, ScoresOfTheCall, DoneIsLast, LastCall,
               TogetherAtFirst, TogetherAtSecond, CallsApart, BehindFirst, BehindSecond
    <2> QED BY <2>2, <2>6, <2>7, <2>8
<1> QED BY <1>4, <1>5, <1>6

\* The total of entries that are one value each...
LEMMA FlattenOnes ==
    ASSUME NEW n \in Nat, n > 0, NEW x, NEW seqs,
           seqs = [i \in 1..n |-> <<x[i]>>]
    PROVE  FlattenSeq(seqs) = [i \in 1..n |-> x[i]]
<1> DEFINE IsTotal(f) == f = [i \in 1..n |-> IF i = 1 THEN seqs[i] ELSE f[i - 1] \o seqs[i]]
           total == CHOOSE f : IsTotal(f)
           g == [i \in 1..n |-> [j \in 1..i |-> x[j]]]
<1>1. FlattenSeq(seqs) = total[n]
    BY DEF FlattenSeq
<1>2. ASSUME NEW i \in 2..n PROVE [j \in 1..i |-> x[j]] = [j \in 1..(i - 1) |-> x[j]] \o <<x[i]>>
    OBVIOUS
<1>3. [j \in 1..1 |-> x[j]] = <<x[1]>>
    OBVIOUS
<1>4. \A i \in 1..n : seqs[i] = <<x[i]>>
    OBVIOUS
<1>5. IsTotal(g)
    <2>1. ASSUME NEW i \in 1..n PROVE g[i] = IF i = 1 THEN seqs[i] ELSE g[i - 1] \o seqs[i]
        <3>1. CASE i = 1
            BY <3>1, <1>3, <1>4
        <3>2. CASE i # 1
            <4>1. i \in 2..n /\ i - 1 \in 1..n
                BY <3>2
            <4>2. g[i] = [j \in 1..i |-> x[j]] /\ g[i - 1] = [j \in 1..(i - 1) |-> x[j]]
                BY <4>1
            <4>3. g[i] = g[i - 1] \o <<x[i]>>
                BY <4>1, <4>2, <1>2, Zenon
            <4> HIDE DEF g
            <4> QED BY <3>2, <4>3, <1>4
        <3> QED BY <3>1, <3>2
    <2> QED BY <2>1
<1>6. IsTotal(total)
    BY <1>5
<1> HIDE DEF total
<1>7. \A i \in 1..n : total[i] = IF i = 1 THEN seqs[i] ELSE total[i - 1] \o seqs[i]
    BY <1>6
<1> DEFINE T == {i \in 0..n : i > 0 => total[i] = [j \in 1..i |-> x[j]]}
<1>8. 0 \in T
    OBVIOUS
<1>9. ASSUME NEW i \in 1..n, i - 1 \in T PROVE i \in T
    <2>1. CASE i = 1
        BY <2>1, <1>3, <1>4, <1>7
    <2>2. CASE i # 1
        <3>1. i \in 2..n /\ total[i - 1] = [j \in 1..(i - 1) |-> x[j]]
            BY <2>2, <1>9
        <3>2. total[i] = total[i - 1] \o <<x[i]>>
            BY <2>2, <1>4, <1>7
        <3>3. total[i] = [j \in 1..i |-> x[j]]
            BY <3>1, <3>2, <1>2, Zenon
        <3> QED BY <3>3
    <2> QED BY <2>1, <2>2
<1>10. \A i \in 0..n : i \in T
    <2> HIDE DEF T
    <2> QED BY <1>8, <1>9, UpTo
<1> QED BY <1>1, <1>10

HasPut(c, w) == call[w] > c \/ (call[w] = c /\ pc[w] # "put")
Stored(c) == call[0] > c \/ (call[0] = c /\ pc[0] \in {"sync_2"} \cup BehindSecond)

\* The value of the warp for call c, with the mean or maximum it has, and the
\* values of all warps.
Mine(c, w) == Value(c, w, result[1][w])

Total(c) == [i \in 1..NumWarps |-> Mine(c, i - 1)]

\* The first warp's share of the second reduction.
FirstShare == <<Value(2, 0, Whole(1))>>

\* Without a third barrier, a warp's entry of the array of call c has the
\* warp's value for it, and the first entry the total once that is stored; in
\* layernorm until the warp puts its value for the second call there.
SharedInv ==
    \A c \in 1..2, w \in Warps :
        HasPut(c, w) /\ (kernel = "layernorm" => ~HasPut(c + 1, w)) =>
            shared[ArrayOf(c)][w] = IF w = 0 /\ Stored(c) THEN Total(c) ELSE <<Mine(c, w)>>

LoadedInv == pc[0] = "store" => loaded[0] = Total(call[0])

ResultInv ==
    \A w \in Warps :
        /\ Returned(1, w) =>
              \/ result[1][w] = Whole(1)
              \/ kernel = "layernorm" /\ w # 0 /\ result[1][w] = FirstShare
        /\ Returned(2, w) => result[2][w] = Total(2)

\* In flashattention the first entry is a score of the key from the first put on.
IsScore(c, q) ==
    /\ q \in Seq({<<c, 0>>, <<c, 1>>}) /\ q # <<>> /\ q[1] = <<c, 0>>
    /\ \A i \in 2..Len(q) : q[i] = <<c, 1>>

FlashSharedInv ==
    /\ pc[0] # "put" => IsScore(call[0], shared[1][0])
    /\ pc[1] # "put" => shared[1][1] = << <<call[1], 1>> >>
    /\ \A w \in Warps : pc[w] = "store" => IsScore(call[w], loaded[w])

FlashResultInv ==
    /\ \A w \in Warps : pc[w] \in {"sync_3", "done"} => result[call[w]][w] = shared[1][0]
    /\ \A c \in Calls, w \in Warps : Returned(c, w) =>
          IsScore(c, result[c][w]) /\ \A v \in Warps : Returned(c, v) => result[c][v] = result[c][w]

DataInv ==
    /\ ~Flash => SharedInv /\ LoadedInv /\ ResultInv
    /\ Flash => FlashSharedInv /\ FlashResultInv

ReduceInv == kernel # "none" => PhaseInv /\ DataInv

LEMMA WithoutThirdBarrier ==
    ASSUME PhaseInv, ~Flash
    PROVE  /\ Calls = 1..2 /\ Adders = {0} /\ NumWarps = NUM_WARPS
           /\ kernel \in {"layernorm", "paged_attention"}
           /\ \A w \in Warps : /\ call[w] \in 1..2 /\ pc[w] \in Places \ {"sync_3"}
                               /\ pc[w] = "done" => call[w] = 2
                               /\ pc[w] = "store" => w = 0
           /\ \A c \in 1..2 : ArrayOf(c) \in 1..2
           /\ kernel = "paged_attention" => ArrayOf(1) = 1 /\ ArrayOf(2) = 2
           /\ kernel = "layernorm" => ArrayOf(1) = 1 /\ ArrayOf(2) = 1
<1> USE ReduceConstants
<1>1. Calls = 1..2 /\ Adders = {0} /\ NumWarps = NUM_WARPS
    BY DEF LastCall, Adders, NumWarps
<1>2. kernel \in {"layernorm", "paged_attention"}
    BY DEF PhaseInv, ReduceType, Flash
<1>3. \A w \in Warps : /\ call[w] \in 1..2 /\ pc[w] \in Places \ {"sync_3"}
                       /\ pc[w] = "done" => call[w] = 2
                       /\ pc[w] = "store" => w = 0
    BY <1>1 DEF PhaseInv, ReduceType, PlacesOfTheirOwn, DoneIsLast, LastCall
<1> QED BY <1>1, <1>2, <1>3 DEF ArrayOf

\* The first call has nothing read before it.
LEMMA FirstTotal == ASSUME ~Flash PROVE Total(1) = Whole(1) /\ \A w : Mine(1, w) = <<1, w>>
<1>1. \A w : Mine(1, w) = <<1, w>>
    BY DEF Mine, Value
<1>2. Whole(1) = [i \in 1..NumWarps |-> <<1, i - 1>>]
    BY DEF Whole, Value
<1>3. Total(1) = [i \in 1..NumWarps |-> <<1, i - 1>>]
    BY <1>1 DEF Total
<1> QED BY <1>1, <1>2, <1>3

LEMMA SameResults ==
    ASSUME kernel' = kernel
    PROVE  /\ Warps' = Warps /\ NumWarps' = NumWarps /\ Flash' = Flash
           /\ \A c : ArrayOf(c)' = ArrayOf(c) /\ Whole(c)' = Whole(c)
           /\ FirstShare' = FirstShare
           /\ result' = result => \A c : Total(c)' = Total(c) /\ \A w : Mine(c, w)' = Mine(c, w)
<1>1. /\ Warps' = Warps /\ NumWarps' = NumWarps /\ Flash' = Flash
      /\ \A c : ArrayOf(c)' = ArrayOf(c)
    BY SameKernel
<1>2. \A c, w, first : Value(c, w, first)' = Value(c, w, first)
    BY <1>1 DEF Value
<1>3. \A c : Whole(c)' = Whole(c)
    BY <1>1, <1>2 DEF Whole
<1>4. FirstShare' = FirstShare
    BY <1>2, <1>3 DEF FirstShare
<1>5. ASSUME result' = result PROVE \A c : Total(c)' = Total(c) /\ \A w : Mine(c, w)' = Mine(c, w)
    <2>1. \A c, w : Mine(c, w)' = Mine(c, w)
        BY <1>2, <1>5 DEF Mine
    <2> QED BY <1>1, <2>1 DEF Total
<1> QED BY <1>1, <1>3, <1>4, <1>5

\* The total has every warp's value for the call.
LEMMA LoadIsTotal ==
    ASSUME PhaseInv, ~Flash, SharedInv, pc[0] = "load"
    PROVE  FlattenSeq([i \in 1..NumWarps |-> shared[ArrayOf(call[0])][i - 1]]) = Total(call[0])
<1> USE ReduceConstants, WithoutThirdBarrier
<1> DEFINE c == call[0]
<1>1. \A w \in Warps : call[w] = c /\ pc[w] \in BehindFirst
    BY DEF PhaseInv, CallsApart, TogetherAtFirst, BehindFirst, Places
<1>2. \A w \in Warps : shared[ArrayOf(c)][w] = <<Mine(c, w)>>
    <2> TAKE w \in Warps
    <2>1. c \in 1..2 /\ HasPut(c, w) /\ ~HasPut(c + 1, w) /\ ~Stored(c)
        BY <1>1 DEF HasPut, Stored, BehindFirst, BehindSecond
    <2> QED BY <2>1 DEF SharedInv
<1> HIDE DEF c
<1> DEFINE x == [i \in 1..NumWarps |-> Mine(c, i - 1)]
<1>3. [i \in 1..NumWarps |-> shared[ArrayOf(c)][i - 1]] = [i \in 1..NumWarps |-> <<x[i]>>]
    <2>1. ASSUME NEW i \in 1..NumWarps PROVE shared[ArrayOf(c)][i - 1] = <<x[i]>>
        <3>1. i - 1 \in Warps /\ x[i] = Mine(c, i - 1)
            OBVIOUS
        <3> HIDE DEF x
        <3>2. shared[ArrayOf(c)][i - 1] = <<Mine(c, i - 1)>>
            BY <3>1, <1>2, Zenon
        <3> QED BY <3>1, <3>2
    <2> HIDE DEF x
    <2> QED BY <2>1
<1>4. FlattenSeq([i \in 1..NumWarps |-> shared[ArrayOf(c)][i - 1]]) = [i \in 1..NumWarps |-> x[i]]
    <2> DEFINE seqs == [i \in 1..NumWarps |-> shared[ArrayOf(c)][i - 1]]
               n == NumWarps
    <2>1. n \in Nat /\ n > 0 /\ seqs = [i \in 1..n |-> <<x[i]>>]
        BY <1>3
    <2> HIDE DEF x, seqs, n
    <2>2. FlattenSeq(seqs) = [i \in 1..n |-> x[i]]
        BY ONLY <2>1, FlattenOnes, Zenon
    <2> QED BY <2>2 DEF seqs, n
<1>5. [i \in 1..NumWarps |-> x[i]] = Total(c)
    BY DEF Total
<1> QED BY <1>4, <1>5 DEF c

\* What a warp that returns reads.
LEMMA ReturnReads ==
    ASSUME PhaseInv, ~Flash, SharedInv, ResultInv, NEW w \in Warps, pc[w] = "return"
    PROVE  \/ shared[ArrayOf(call[w])][0] = Total(call[w])
           \/ /\ kernel = "layernorm" /\ call[w] = 1 /\ w # 0
              /\ shared[1][0] = FirstShare
<1> USE ReduceConstants, WithoutThirdBarrier
<1> DEFINE c == call[w]
<1>1. /\ call[0] = c => pc[0] \in BehindSecond
      /\ call[0] # c => c = 1 /\ call[0] = 2 /\ pc[0] \in {"put", "sync_1"}
    BY DEF PhaseInv, CallsApart, TogetherAtSecond, BehindSecond
<1>2. c \in 1..2 /\ HasPut(c, 0) /\ Stored(c)
    BY <1>1 DEF HasPut, Stored, BehindSecond
<1>3. CASE kernel = "layernorm" => ~HasPut(c + 1, 0)
    BY <1>2, <1>3 DEF SharedInv
<1>4. CASE kernel = "layernorm" /\ HasPut(c + 1, 0)
    <2>1. c = 1 /\ call[0] = 2 /\ w # 0 /\ HasPut(2, 0) /\ ~HasPut(3, 0) /\ ~Stored(2)
        BY <1>1, <1>4 DEF HasPut, Stored, BehindSecond
    <2>2. shared[1][0] = <<Mine(2, 0)>>
        BY <1>4, <2>1 DEF SharedInv
    <2>3. result[1][0] = Whole(1)
        BY <2>1 DEF ResultInv, Returned
    <2> QED BY <1>4, <2>1, <2>2, <2>3 DEF Mine, FirstShare
<1> QED BY <1>3, <1>4

\* A step that leaves the array and the results alone, and moves nobody past the
\* point where it has put or stored, keeps them right.
LEMMA SyncKeepsData ==
    ASSUME PhaseInv, DataInv, NEW from, NEW to, Sync(from, to),
           <<from, to>> \in {<<"sync_1", "load">>, <<"sync_2", "return">>}
    PROVE  DataInv'
<1> USE ReduceConstants
<1>1. /\ UNCHANGED <<kernel, shared, call, loaded, result>>
      /\ \A w \in Warps : pc[w] = from /\ pc'[w] = to
    BY DEF Sync
<1>2. /\ Warps' = Warps /\ Calls' = Calls /\ Flash' = Flash /\ NumWarps' = NumWarps
      /\ \A c : ArrayOf(c)' = ArrayOf(c)
    BY <1>1, SameKernel
<1>3. /\ \A c : Whole(c)' = Whole(c) /\ Total(c)' = Total(c) /\ \A w : Mine(c, w)' = Mine(c, w)
      /\ FirstShare' = FirstShare
    BY <1>1, SameResults
<1>4. \A c, w : IsScore(c, w)' = IsScore(c, w)
    BY DEF IsScore
<1>5. CASE ~Flash
    <2>1. SharedInv /\ LoadedInv /\ ResultInv
        BY <1>5 DEF DataInv
    <2>2. \A c \in 1..2, w \in Warps : HasPut(c, w)' = HasPut(c, w) /\ Stored(c)' = Stored(c)
        BY <1>1 DEF HasPut, Stored, BehindSecond
    <2>3. \A w \in Warps : HasPut(3, w)' = HasPut(3, w)
        BY <1>1 DEF HasPut
    <2>4. SharedInv'
        BY <2>1, <2>2, <2>3, <1>1, <1>2, <1>3 DEF SharedInv
    <2>5. LoadedInv' /\ ResultInv'
        BY <2>1, <1>1, <1>2, <1>3 DEF LoadedInv, ResultInv, Returned
    <2> QED BY <1>2, <1>5, <2>4, <2>5 DEF DataInv
<1>6. CASE Flash
    <2>1. FlashSharedInv /\ FlashResultInv /\ 1 \in Warps
        BY <1>6 DEF DataInv
    <2>2. FlashSharedInv'
        BY <2>1, <1>1, <1>2, <1>4 DEF FlashSharedInv
    <2>3. \A c \in Calls, w \in Warps : Returned(c, w)' = Returned(c, w)
        BY <1>1 DEF Returned
    <2>4. FlashResultInv'
        BY <2>1, <2>3, <1>1, <1>2, <1>4 DEF FlashResultInv
    <2> QED BY <1>2, <1>6, <2>2, <2>4 DEF DataInv
<1> QED BY <1>5, <1>6

LEMMA PutKeepsData ==
    ASSUME PhaseInv, PhaseInv', DataInv, ~Flash, NEW x \in Warps, Put(x)
    PROVE  SharedInv' /\ LoadedInv' /\ ResultInv'
<1> USE ReduceConstants, WithoutThirdBarrier
<1> DEFINE c0 == call[x]
<1>1. /\ UNCHANGED <<kernel, call, loaded, result>> /\ pc[x] = "put"
      /\ \A w \in Warps : pc'[w] = IF w = x THEN "sync_1" ELSE pc[w]
      /\ c0 \in 1..2
    BY DEF Put, PhaseInv, ReduceType
<1>2. /\ Warps' = Warps /\ NumWarps' = NumWarps /\ FirstShare' = FirstShare
      /\ \A c : ArrayOf(c)' = ArrayOf(c) /\ Whole(c)' = Whole(c) /\ Total(c)' = Total(c)
      /\ \A c, w : Mine(c, w)' = Mine(c, w)
    BY <1>1, SameResults
<1>3. \A a \in 1..2, w \in Warps :
         shared'[a][w] = IF a = ArrayOf(c0) /\ w = x THEN <<Mine(c0, x)>> ELSE shared[a][w]
    BY <1>1 DEF Put, PhaseInv, ReduceType, Mine
<1>4. SharedInv /\ LoadedInv /\ ResultInv
    BY DEF DataInv
<1>5. \A c \in 1..3, w \in Warps : HasPut(c, w)' <=> (HasPut(c, w) \/ (c = c0 /\ w = x))
    BY <1>1 DEF HasPut
<1>6. \A c \in 1..2 : Stored(c)' = Stored(c) /\ (x = 0 => ~Stored(c0))
    BY <1>1 DEF Stored, BehindSecond
<1>7. SharedInv'
    <2> SUFFICES ASSUME NEW c \in 1..2, NEW w \in Warps, HasPut(c, w)',
                        kernel = "layernorm" => ~HasPut(c + 1, w)'
                 PROVE  shared'[ArrayOf(c)][w] = IF w = 0 /\ Stored(c) THEN Total(c) ELSE <<Mine(c, w)>>
        BY <1>1, <1>2, <1>6 DEF SharedInv
    <2>1. CASE c = c0 /\ w = x
        BY <2>1, <1>3, <1>6
    <2>2. CASE ~(c = c0 /\ w = x)
        <3>1. HasPut(c, w) /\ (kernel = "layernorm" => ~HasPut(c + 1, w))
            BY <2>2, <1>5
        <3>2. ~(ArrayOf(c) = ArrayOf(c0) /\ w = x)
            <4>1. CASE kernel = "paged_attention"
                BY <4>1, <2>2, <1>1
            <4>2. CASE kernel = "layernorm" /\ w = x
                <5>1. c + 1 # c0
                    BY <4>2, <1>5, <1>1
                <5>2. c = 2 /\ c0 = 1
                    BY <5>1, <4>2, <2>2, <1>1
                <5> QED BY <5>2, <3>1, <4>2 DEF HasPut
            <4> QED BY <4>1, <4>2
        <3> QED BY <3>1, <3>2, <1>3, <1>4 DEF SharedInv
    <2> QED BY <2>1, <2>2
<1>8. LoadedInv'
    BY <1>1, <1>2, <1>4 DEF LoadedInv
<1>9. \A c \in 1..2, w \in Warps : Returned(c, w)' = Returned(c, w)
    BY <1>1 DEF Returned
<1>10. ResultInv'
    BY <1>1, <1>2, <1>4, <1>9 DEF ResultInv
<1> QED BY <1>7, <1>8, <1>10

LEMMA LoadKeepsData ==
    ASSUME PhaseInv, PhaseInv', DataInv, ~Flash, NEW x \in Warps, Load(x) \/ Skip(x)
    PROVE  SharedInv' /\ LoadedInv' /\ ResultInv'
<1> USE ReduceConstants, WithoutThirdBarrier
<1>1. /\ UNCHANGED <<kernel, call, shared, result>> /\ pc[x] = "load"
      /\ \A w \in Warps : pc'[w] = IF w # x THEN pc[w] ELSE IF x = 0 THEN "store" ELSE "sync_2"
      /\ DOMAIN loaded = Warps
    <2>1. x \in Adders <=> x = 0
        OBVIOUS
    <2> QED BY ONLY <2>1, PhaseInv, Load(x) \/ Skip(x) DEF Load, Skip, PhaseInv, ReduceType
<1>2. /\ Warps' = Warps /\ NumWarps' = NumWarps /\ FirstShare' = FirstShare
      /\ \A c : ArrayOf(c)' = ArrayOf(c) /\ Whole(c)' = Whole(c) /\ Total(c)' = Total(c)
      /\ \A c, w : Mine(c, w)' = Mine(c, w)
    BY <1>1, SameResults
<1>3. SharedInv /\ LoadedInv /\ ResultInv
    BY DEF DataInv
<1>4. \A c \in 1..3, w \in Warps : HasPut(c, w)' = HasPut(c, w)
    BY <1>1 DEF HasPut
<1>5. \A c \in 1..2 : Stored(c)' = Stored(c)
    BY <1>1 DEF Stored, BehindSecond
<1>6. SharedInv'
    BY <1>1, <1>2, <1>3, <1>4, <1>5 DEF SharedInv
<1>7. ResultInv'
    BY <1>1, <1>2, <1>3 DEF ResultInv, Returned
<1>8. LoadedInv'
    <2>1. CASE x = 0
        <3>1. loaded'[0] = Total(call[0])
            BY <2>1, <1>1, <1>3, LoadIsTotal DEF Load, Skip
        <3> QED BY <3>1, <1>1, <1>2 DEF LoadedInv
    <2>2. CASE x # 0
        <3>1. loaded'[0] = loaded[0]
            BY <2>2, <1>1 DEF Load, Skip
        <3> QED BY <3>1, <2>2, <1>1, <1>2, <1>3 DEF LoadedInv
    <2> QED BY <2>1, <2>2
<1> QED BY <1>6, <1>7, <1>8

LEMMA StoreKeepsData ==
    ASSUME PhaseInv, PhaseInv', DataInv, ~Flash, NEW x \in Warps, Store(x)
    PROVE  SharedInv' /\ LoadedInv' /\ ResultInv'
<1> USE ReduceConstants, WithoutThirdBarrier
<1> DEFINE c0 == call[0]
<1>1. /\ UNCHANGED <<kernel, call, loaded, result>> /\ pc[0] = "store" /\ x = 0
      /\ \A w \in Warps : pc'[w] = IF w = 0 THEN "sync_2" ELSE pc[w]
      /\ c0 \in 1..2
    BY DEF Store, PhaseInv, ReduceType
<1>2. /\ Warps' = Warps /\ NumWarps' = NumWarps /\ FirstShare' = FirstShare
      /\ \A c : ArrayOf(c)' = ArrayOf(c) /\ Whole(c)' = Whole(c) /\ Total(c)' = Total(c)
      /\ \A c, w : Mine(c, w)' = Mine(c, w)
    BY <1>1, SameResults
<1>3. SharedInv /\ LoadedInv /\ ResultInv
    BY DEF DataInv
<1>4. \A a \in 1..2, w \in Warps :
         shared'[a][w] = IF a = ArrayOf(c0) /\ w = 0 THEN Total(c0) ELSE shared[a][w]
    BY <1>1, <1>3 DEF Store, PhaseInv, ReduceType, LoadedInv
<1>5. \A c \in 1..3, w \in Warps : HasPut(c, w)' = HasPut(c, w)
    BY <1>1 DEF HasPut
<1>6. \A c \in 1..2 : Stored(c)' <=> (Stored(c) \/ c = c0)
    BY <1>1 DEF Stored, BehindSecond
<1>7. SharedInv'
    <2> SUFFICES ASSUME NEW c \in 1..2, NEW w \in Warps, HasPut(c, w),
                        kernel = "layernorm" => ~HasPut(c + 1, w)
                 PROVE  shared'[ArrayOf(c)][w] = IF w = 0 /\ Stored(c)' THEN Total(c) ELSE <<Mine(c, w)>>
        BY <1>1, <1>2, <1>5 DEF SharedInv
    <2>1. CASE c = c0 /\ w = 0
        BY <2>1, <1>4, <1>6
    <2>2. CASE ~(c = c0 /\ w = 0)
        <3>1. ~(ArrayOf(c) = ArrayOf(c0) /\ w = 0)
            <4>1. CASE kernel = "paged_attention"
                BY <4>1, <2>2, <1>1
            <4>2. CASE kernel = "layernorm" /\ w = 0
                BY <4>2, <2>2, <1>1 DEF HasPut
            <4> QED BY <4>1, <4>2
        <3> QED BY <2>2, <3>1, <1>3, <1>4, <1>6 DEF SharedInv
    <2> QED BY <2>1, <2>2
<1>8. LoadedInv' /\ ResultInv'
    BY <1>1, <1>2, <1>3 DEF LoadedInv, ResultInv, Returned
<1> QED BY <1>7, <1>8

LEMMA ReturnKeepsData ==
    ASSUME PhaseInv, PhaseInv', DataInv, ~Flash, NEW x \in Warps, Return(x)
    PROVE  SharedInv' /\ LoadedInv' /\ ResultInv'
<1> USE ReduceConstants, WithoutThirdBarrier
<1> DEFINE c0 == call[x]
<1>1. /\ UNCHANGED <<kernel, shared, loaded>> /\ pc[x] = "return" /\ c0 \in 1..2
      /\ \A w \in Warps : /\ pc'[w] = IF w # x THEN pc[w] ELSE IF c0 = 1 THEN "put" ELSE "done"
                          /\ call'[w] = IF w = x THEN 2 ELSE call[w]
    <2>1. AfterReturn(c0) = IF c0 = 1 THEN "put" ELSE "done"
        BY DEF AfterReturn
    <2> QED BY <2>1 DEF Return, PhaseInv, ReduceType
<1>2. /\ Warps' = Warps /\ NumWarps' = NumWarps /\ FirstShare' = FirstShare
      /\ \A c : ArrayOf(c)' = ArrayOf(c) /\ Whole(c)' = Whole(c)
      /\ \A c, w, first : Value(c, w, first)' = Value(c, w, first)
    BY <1>1, SameResults DEF Value
<1>3. SharedInv /\ LoadedInv /\ ResultInv
    BY DEF DataInv
<1>4. \A c \in 1..3, w \in Warps : HasPut(c, w)' = HasPut(c, w)
    BY <1>1 DEF HasPut
<1>5. \A c \in 1..2 : Stored(c)' = Stored(c)
    BY <1>1 DEF Stored, BehindSecond
<1>6. \A c \in 1..2, w \in Warps :
         result'[c][w] = IF c = c0 /\ w = x THEN shared[ArrayOf(c0)][0] ELSE result[c][w]
    BY <1>1 DEF Return, PhaseInv, ReduceType
<1>7. \A c \in 1..2, w \in Warps : Returned(c, w)' => Returned(c, w) \/ (c = c0 /\ w = x)
    BY <1>1 DEF Returned
<1>8. \A w \in Warps : /\ Mine(1, w)' = Mine(1, w)
                       /\ ~(c0 = 1 /\ w = x) => Mine(2, w)' = Mine(2, w)
    <2> TAKE w \in Warps
    <2>1. Mine(1, w)' = Mine(1, w)
        BY <1>2 DEF Mine, Value
    <2>2. ASSUME ~(c0 = 1 /\ w = x) PROVE result'[1][w] = result[1][w]
        BY <2>2, <1>6
    <2> QED BY <1>2, <2>1, <2>2 DEF Mine
<1>9. /\ Total(1)' = Total(1)
      /\ c0 = 2 => Total(2)' = Total(2)
    <2>1. \A i \in 1..NumWarps : i - 1 \in Warps
        OBVIOUS
    <2> QED BY <1>2, <1>8, <2>1 DEF Total
\* A warp that is in the first call has not put its value for the second, and
\* nobody is behind the barriers of the second.
<1>10. ASSUME c0 = 1
       PROVE  ~HasPut(2, x) /\ ~Stored(2) /\ \A w \in Warps : ~Returned(2, w)
    <2>1. \A w \in Warps : call[w] = 2 => pc[w] \in {"put", "sync_1"}
        BY <1>1, <1>10 DEF PhaseInv, CallsApart
    <2> QED BY <1>1, <1>10, <2>1 DEF HasPut, Stored, Returned, BehindSecond
<1>11. SharedInv'
    <2> SUFFICES ASSUME NEW c \in 1..2, NEW w \in Warps, HasPut(c, w),
                        kernel = "layernorm" => ~HasPut(c + 1, w)
                 PROVE  shared[ArrayOf(c)][w] = IF w = 0 /\ Stored(c) THEN Total(c)' ELSE <<Mine(c, w)'>>
        BY <1>1, <1>2, <1>4, <1>5 DEF SharedInv
    <2>1. Mine(c, w)' = Mine(c, w)
        BY <1>8, <1>10
    <2>2. Stored(c) => Total(c)' = Total(c)
        BY <1>1, <1>9, <1>10
    <2> QED BY <1>3, <2>1, <2>2 DEF SharedInv
<1>12. LoadedInv'
    <2> SUFFICES ASSUME pc'[0] = "store" PROVE loaded'[0] = (Total(call[0]))'
        BY DEF LoadedInv
    <2>1. x # 0 /\ pc[0] = "store" /\ call'[0] = call[0] /\ call[0] \in 1..2
        BY <1>1
    <2>2. call[0] = 2 => c0 = 2
        BY <2>1, <1>1 DEF PhaseInv, CallsApart
    <2>3. (Total(call[0]))' = Total(call[0])
        <3>1. CASE call[0] = 1
            BY <3>1, <2>1, <1>9
        <3>2. CASE call[0] = 2
            BY <3>2, <2>1, <2>2, <1>9
        <3> QED BY <2>1, <3>1, <3>2
    <2> QED BY <1>1, <1>3, <2>1, <2>3 DEF LoadedInv
<1>13. ResultInv'
    <2>1. ASSUME NEW w \in Warps, Returned(1, w)'
          PROVE  \/ result'[1][w] = Whole(1)
                 \/ kernel = "layernorm" /\ w # 0 /\ result'[1][w] = FirstShare
        <3>1. CASE c0 = 1 /\ w = x
            BY <3>1, <1>1, <1>3, <1>6, ReturnReads, FirstTotal
        <3>2. CASE ~(c0 = 1 /\ w = x)
            BY <3>2, <2>1, <1>3, <1>6, <1>7 DEF ResultInv
        <3> QED BY <3>1, <3>2
    <2>2. ASSUME NEW w \in Warps, Returned(2, w)' PROVE result'[2][w] = (Total(2))'
        <3>1. c0 = 2
            BY <2>2, <1>1, <1>7, <1>10
        <3>2. CASE w = x
            <4>1. shared[ArrayOf(c0)][0] = Total(c0)
                BY <3>1, <1>1, <1>3, ReturnReads
            <4> QED BY <3>1, <3>2, <4>1, <1>6, <1>9
        <3>3. CASE w # x
            BY <3>1, <3>3, <2>2, <1>3, <1>6, <1>7, <1>9 DEF ResultInv
        <3> QED BY <3>2, <3>3
    <2> QED BY <1>1, <1>2, <2>1, <2>2 DEF ResultInv
<1> QED BY <1>11, <1>12, <1>13

\* In flashattention all warps are in the same call, and the two entries are
\* those of its two warps.
LEMMA FlashFacts ==
    ASSUME PhaseInv, Flash
    PROVE  /\ Warps = {0, 1} /\ NumWarps = 2 /\ Adders = Warps /\ Calls = 1..Bc
           /\ \A c : ArrayOf(c) = 1 /\ Whole(c) = << <<c, 0>>, <<c, 1>> >>
           /\ \A v, w \in Warps : call[v] = call[w]
           /\ \A w \in Warps : /\ call[w] \in 1..Bc /\ pc[w] \in Places
                               /\ pc[w] = "done" => call[w] = Bc
<1> USE ReduceConstants
<1>1. Warps = {0, 1} /\ NumWarps = 2 /\ Adders = Warps /\ Calls = 1..Bc
    BY DEF LastCall, Adders
<1>2. \A c : ArrayOf(c) = 1 /\ Whole(c) = << <<c, 0>>, <<c, 1>> >>
    <2> TAKE c
    <2>1. ArrayOf(c) = 1
        BY DEF ArrayOf, Flash
    <2>2. Whole(c) = [i \in 1..2 |-> <<c, i - 1>>]
        BY <1>1 DEF Whole, Value
    <2>3. [i \in 1..2 |-> <<c, i - 1>>] = << <<c, 0>>, <<c, 1>> >>
        OBVIOUS
    <2> QED BY <2>1, <2>2, <2>3
<1>3. \A w \in Warps : /\ call[w] \in 1..Bc /\ pc[w] \in Places
                       /\ pc[w] = "done" => call[w] = Bc
    BY <1>1 DEF PhaseInv, ReduceType, DoneIsLast, LastCall
<1>4. \A v, w \in Warps : call[v] = call[w]
    BY <1>3 DEF PhaseInv, CallsApart
<1> QED BY <1>1, <1>2, <1>3, <1>4

\* What an adder of flashattention adds up is a score when the entries are.
LEMMA ScoreLoaded ==
    ASSUME NEW c \in Nat, NEW entries, IsScore(c, entries[0]), entries[1] = << <<c, 1>> >>
    PROVE  IsScore(c, FlattenSeq([i \in 1..2 |-> entries[i - 1]]))
<1> DEFINE seqs == [i \in 1..2 |-> entries[i - 1]]
           IsTotal(f) == f = [i \in 1..2 |-> IF i = 1 THEN seqs[i] ELSE f[i - 1] \o seqs[i]]
           total == CHOOSE f : IsTotal(f)
           q == entries[0]
           g == [i \in 1..2 |-> IF i = 1 THEN q ELSE q \o << <<c, 1>> >>]
<1>1. seqs[1] = q /\ seqs[2] = << <<c, 1>> >> /\ Len(seqs) = 2
    OBVIOUS
<1>2. IsTotal(g)
    <2>1. ASSUME NEW i \in 1..2 PROVE g[i] = IF i = 1 THEN seqs[i] ELSE g[i - 1] \o seqs[i]
        <3>1. g[1] = q /\ g[2] = q \o << <<c, 1>> >>
            OBVIOUS
        <3> HIDE DEF g, seqs, q
        <3>2. CASE i = 1
            BY <1>1, <3>1, <3>2
        <3>3. CASE i = 2
            <4>1. i - 1 = 1 /\ i # 1
                BY <3>3
            <4> QED BY <1>1, <3>1, <3>3, <4>1, Zenon
        <3> QED BY <3>2, <3>3
    <2> HIDE DEF seqs
    <2> QED BY <2>1
<1>3. IsTotal(total)
    BY <1>2
<1>4. FlattenSeq(seqs) = total[2]
    <2>1. FlattenSeq(seqs) = total[Len(seqs)]
        BY <1>1 DEF FlattenSeq
    <2> QED BY <1>1, <2>1
<1> HIDE DEF total, seqs
<1>5. total[2] = total[1] \o seqs[2] /\ total[1] = seqs[1]
    <2>1. \A i \in 1..2 : total[i] = IF i = 1 THEN seqs[i] ELSE total[i - 1] \o seqs[i]
        BY <1>3
    <2>2. 2 - 1 = 1 /\ 2 \in 1..2 /\ 1 \in 1..2 /\ 2 # 1
        OBVIOUS
    <2>3. total[2] = total[2 - 1] \o seqs[2] /\ total[1] = seqs[1]
        BY <2>1, <2>2, Zenon
    <2> QED BY <2>2, <2>3
<1>6. FlattenSeq(seqs) = q \o << <<c, 1>> >>
    BY <1>1, <1>4, <1>5
<1> HIDE DEF q
<1>7. IsScore(c, q \o << <<c, 1>> >>)
    <2> DEFINE r == q \o << <<c, 1>> >>
               n == Len(q)
    <2>1. q \in Seq({<<c, 0>>, <<c, 1>>}) /\ q # <<>> /\ q[1] = <<c, 0>> /\ \A i \in 2..n : q[i] = <<c, 1>>
        BY DEF q, IsScore
    <2>2. n \in Nat /\ n > 0 /\ Len(r) = n + 1 /\ r \in Seq({<<c, 0>>, <<c, 1>>})
        BY <2>1
    <2>3. \A i \in 1..n : r[i] = q[i]
        BY <2>1
    <2>4. r[n + 1] = <<c, 1>>
        BY <2>1
    <2> HIDE DEF r, n
    <2>5. r # <<>> /\ r[1] = <<c, 0>>
        BY <2>1, <2>2, <2>3
    <2>6. ASSUME NEW i \in 2..Len(r) PROVE r[i] = <<c, 1>>
        <3>1. i \in 2..n \/ i = n + 1
            BY <2>2
        <3> QED BY <3>1, <2>1, <2>2, <2>3, <2>4
    <2> QED BY <2>2, <2>5, <2>6 DEF IsScore, r
<1> QED BY <1>6, <1>7 DEF seqs

LEMMA FlashWarpKeepsData ==
    ASSUME PhaseInv, PhaseInv', DataInv, Flash, NEW x \in Warps,
           Put(x) \/ Load(x) \/ Store(x) \/ Skip(x) \/ Return(x)
    PROVE  FlashSharedInv' /\ FlashResultInv'
<1> USE FlashFacts
<1> DEFINE c == call[x]
<1>1. kernel' = kernel /\ call' = call /\ c \in 1..Bc
    <2>1. kernel' = kernel /\ (call' = call \/ Return(x))
        BY DEF Put, Load, Store, Skip, Return
    <2>2. Return(x) => call' = [call EXCEPT ![x] = call[x]]
        BY DEF Return, AfterReturn, PhaseInv, ReduceType
    <2>3. call \in [Warps -> Calls]
        BY DEF PhaseInv, ReduceType
    <2> QED BY <2>1, <2>2, <2>3
<1>2. Warps' = Warps /\ Calls' = Calls /\ \A d, q : IsScore(d, q)' = IsScore(d, q)
    BY <1>1, SameKernel DEF IsScore
<1>3. FlashSharedInv /\ FlashResultInv
    BY DEF DataInv
<1>4. \A w \in Warps : call[w] = c /\ w \in {0, 1}
    OBVIOUS
<1>5. /\ DOMAIN shared = 1..2 /\ DOMAIN shared[1] = Warps /\ DOMAIN loaded = Warps
      /\ DOMAIN result = Calls /\ DOMAIN result[c] = Warps /\ pc \in [Warps -> Places]
    BY DEF PhaseInv, ReduceType
<1>6. /\ \A w \in Warps : pc[w] \in BehindFirst => \A v \in Warps : pc[v] \in BehindFirst
      /\ \A w \in Warps : pc[w] \in BehindSecond => \A v \in Warps : pc[v] \in BehindSecond
    BY <1>4 DEF PhaseInv, TogetherAtFirst, TogetherAtSecond
<1>7. CASE Put(x)
    <2>1. /\ pc[x] = "put" /\ loaded' = loaded /\ result' = result
          /\ \A w \in Warps : pc'[w] = IF w = x THEN "sync_1" ELSE pc[w]
          /\ \A w \in Warps : shared'[1][w] = IF w = x THEN << <<c, x>> >> ELSE shared[1][w]
        BY <1>5, <1>7 DEF Put, Value
    <2>2. \A w \in Warps : pc[w] \notin BehindFirst
        BY <1>6, <2>1 DEF BehindFirst, BehindSecond
    <2>3. IsScore(c, << <<c, 0>> >>)
        BY <1>1 DEF IsScore
    <2>4. FlashSharedInv'
        BY <1>1, <1>2, <1>3, <1>4, <2>1, <2>2, <2>3 DEF FlashSharedInv, BehindFirst
    <2>5. \A d \in Calls, w \in Warps : Returned(d, w)' = Returned(d, w)
        BY <1>1, <2>1 DEF Returned
    <2>6. FlashResultInv'
        BY <1>1, <1>2, <1>3, <1>4, <2>1, <2>2, <2>5 DEF FlashResultInv, BehindFirst, BehindSecond
    <2> QED BY <2>4, <2>6
<1>8. CASE Load(x)
    <2>1. /\ pc[x] = "load" /\ shared' = shared /\ result' = result
          /\ \A w \in Warps : pc'[w] = IF w = x THEN "store" ELSE pc[w]
          /\ \A w \in Warps : loaded'[w] =
                IF w = x THEN FlattenSeq([i \in 1..2 |-> shared[1][i - 1]]) ELSE loaded[w]
        BY <1>5, <1>8 DEF Load
    <2>2. \A w \in Warps : pc[w] \in BehindFirst /\ pc[w] # "put"
        BY <1>6, <2>1 DEF BehindFirst, BehindSecond
    <2>3. IsScore(c, FlattenSeq([i \in 1..2 |-> shared[1][i - 1]]))
        <3>1. c \in Nat /\ IsScore(c, shared[1][0]) /\ shared[1][1] = << <<c, 1>> >>
            BY <1>1, <1>3, <1>4, <2>2 DEF FlashSharedInv
        <3> QED BY <3>1, ScoreLoaded
    <2>4. FlashSharedInv'
        BY <1>1, <1>2, <1>3, <1>4, <2>1, <2>2, <2>3 DEF FlashSharedInv
    <2>5. \A d \in Calls, w \in Warps : Returned(d, w)' = Returned(d, w)
        BY <1>1, <2>1 DEF Returned
    <2>6. FlashResultInv'
        BY <1>1, <1>2, <1>3, <1>4, <2>1, <2>5 DEF FlashResultInv
    <2> QED BY <2>4, <2>6
<1>9. CASE Store(x)
    <2>1. /\ pc[x] = "store" /\ loaded' = loaded /\ result' = result
          /\ \A w \in Warps : pc'[w] = IF w = x THEN "sync_2" ELSE pc[w]
          /\ \A w \in Warps : shared'[1][w] = IF w = 0 THEN loaded[x] ELSE shared[1][w]
        BY <1>5, <1>9 DEF Store
    <2>2. \A w \in Warps : pc[w] \notin {"sync_3", "done"}
        BY <1>6, <2>1 DEF BehindSecond
    <2>3. IsScore(c, loaded[x])
        BY <1>3, <2>1 DEF FlashSharedInv
    <2>4. FlashSharedInv'
        BY <1>1, <1>2, <1>3, <1>4, <2>1, <2>3 DEF FlashSharedInv
    <2>5. \A d \in Calls, w \in Warps : Returned(d, w)' = Returned(d, w)
        BY <1>1, <2>1 DEF Returned
    <2>6. FlashResultInv'
        BY <1>1, <1>2, <1>3, <1>4, <2>1, <2>2, <2>5 DEF FlashResultInv
    <2> QED BY <2>4, <2>6
<1>10. CASE Return(x)
    <2>1. /\ pc[x] = "return" /\ loaded' = loaded /\ shared' = shared
          /\ \A w \in Warps : pc'[w] = IF w = x THEN "sync_3" ELSE pc[w]
          /\ \A d \in Calls, w \in Warps :
                result'[d][w] = IF d = c /\ w = x THEN shared[1][0] ELSE result[d][w]
        BY <1>5, <1>10 DEF Return, AfterReturn, PhaseInv, ReduceType
    <2>2. \A w \in Warps : pc[w] \in BehindSecond
        BY <1>6, <2>1 DEF BehindSecond
    <2>3. IsScore(c, shared[1][0])
        BY <1>3, <1>4, <2>2 DEF FlashSharedInv, BehindSecond
    <2>4. FlashSharedInv'
        BY <1>1, <1>2, <1>3, <1>4, <2>1, <2>2 DEF FlashSharedInv, BehindSecond
    <2>5. \A d \in Calls, w \in Warps : Returned(d, w)' <=> (Returned(d, w) \/ (d = c /\ w = x))
        BY <1>1, <1>4, <2>1 DEF Returned
    <2>6. \A w \in Warps : pc'[w] \in {"sync_3", "done"} => result'[call'[w]][w] = shared'[1][0]
        BY <1>1, <1>3, <1>4, <2>1 DEF FlashResultInv
    <2>7. \A w \in Warps : Returned(c, w) => result[c][w] = shared[1][0]
        BY <1>1, <1>3, <1>4 DEF FlashResultInv, Returned
    <2>8. ASSUME NEW d \in Calls, NEW w \in Warps, Returned(d, w)'
          PROVE  /\ IsScore(d, result'[d][w])
                 /\ \A v \in Warps : Returned(d, v)' => result'[d][v] = result'[d][w]
        <3>1. CASE d = c
            BY <3>1, <2>1, <2>3, <2>5, <2>7, <2>8
        <3>2. CASE d # c
            BY <3>2, <1>3, <2>1, <2>5, <2>8 DEF FlashResultInv
        <3> QED BY <3>1, <3>2
    <2>9. FlashResultInv'
        BY <1>2, <2>6, <2>8 DEF FlashResultInv
    <2> QED BY <2>4, <2>9
<1>11. ~Skip(x)
    BY DEF Skip
<1> QED BY <1>7, <1>8, <1>9, <1>10, <1>11

LEMMA NextKeyKeepsData ==
    ASSUME PhaseInv, DataInv, NextKey PROVE DataInv'
<1> USE ReduceConstants
<1>1. \A w \in Warps : pc[w] = "sync_3"
    BY DEF NextKey
<1>2. Flash
    BY <1>1 DEF PhaseInv, PlacesOfTheirOwn
<1> USE FlashFacts
<1>3. UNCHANGED <<kernel, shared, loaded, result>>
    BY DEF NextKey
<1>4. Warps' = Warps /\ Calls' = Calls /\ Flash' /\ \A d, q : IsScore(d, q)' = IsScore(d, q)
    BY <1>2, <1>3, SameKernel DEF IsScore
<1>5. FlashSharedInv /\ FlashResultInv
    BY <1>2 DEF DataInv
<1> DEFINE c == call[0]
<1>6. c \in 1..Bc /\ \A w \in Warps : call[w] = c
    BY <1>2
<1>7. \A w \in Warps : /\ pc'[w] = IF c < Bc THEN "put" ELSE "done"
                       /\ call'[w] = IF c < Bc THEN c + 1 ELSE c
    BY <1>6 DEF NextKey, Advance
<1>8. 0 \in Warps /\ 1 \in Warps
    BY <1>2
<1>9. \A d \in Calls, w \in Warps : Returned(d, w)' <=> Returned(d, w)
    BY <1>1, <1>2, <1>6, <1>7 DEF Returned
<1>10. FlashSharedInv'
    <2>1. CASE c < Bc
        BY <2>1, <1>4, <1>7, <1>8 DEF FlashSharedInv
    <2>2. CASE ~(c < Bc)
        BY <2>2, <1>1, <1>3, <1>4, <1>5, <1>6, <1>7, <1>8 DEF FlashSharedInv
    <2> QED BY <2>1, <2>2
<1>11. FlashResultInv'
    <2>1. \A w \in Warps : pc'[w] \in {"sync_3", "done"} => result'[call'[w]][w] = shared'[1][0]
        BY <1>1, <1>3, <1>5, <1>6, <1>7 DEF FlashResultInv
    <2>2. \A d \in Calls, w \in Warps : Returned(d, w)' =>
             IsScore(d, result'[d][w]) /\ \A v \in Warps : Returned(d, v)' => result'[d][v] = result'[d][w]
        BY <1>3, <1>5, <1>9 DEF FlashResultInv
    <2> QED BY <1>4, <2>1, <2>2 DEF FlashResultInv
<1> QED BY <1>4, <1>10, <1>11 DEF DataInv

LEMMA ReduceInitData == ReduceInit => DataInv
<1> USE ReduceConstants
<1> SUFFICES ASSUME ReduceInit PROVE DataInv
    OBVIOUS
<1>1. \A w \in Warps : pc[w] = "put" /\ call[w] = 1
    BY DEF ReduceInit
<1>2. \A c \in Calls, w \in Warps : ~HasPut(c, w) /\ ~Returned(c, w)
    BY <1>1 DEF HasPut, Returned
<1>3. CASE ~Flash
    BY <1>1, <1>2, <1>3 DEF DataInv, SharedInv, LoadedInv, ResultInv, LastCall
<1>4. CASE Flash
    BY <1>1, <1>2, <1>4 DEF DataInv, FlashSharedInv, FlashResultInv
<1> QED BY <1>3, <1>4

LEMMA ReduceKeeps == ASSUME ReduceInv, [Next]_vars PROVE ReduceInv'
<1> SUFFICES ASSUME kernel' # "none" PROVE PhaseInv' /\ DataInv'
    BY DEF ReduceInv
<1>1. CASE UNCHANGED reduce_vars
    <2>1. PhaseInv /\ DataInv
        BY <1>1 DEF ReduceInv, reduce_vars
    <2>2. PhaseInv'
        BY <1>1, <2>1 DEF reduce_vars, PhaseInv, ReduceType, PlacesOfTheirOwn, ScoresOfTheCall, DoneIsLast,
                          TogetherAtFirst, TogetherAtSecond, CallsApart,
                          Warps, NumWarps, Flash, Calls, Adders, LastCall
    <2>3. DataInv'
        <3>1. UNCHANGED <<kernel, shared, pc, call, loaded, result>>
            BY <1>1 DEF reduce_vars
        <3>2. /\ Warps' = Warps /\ Calls' = Calls /\ Flash' = Flash /\ NumWarps' = NumWarps
              /\ \A c : ArrayOf(c)' = ArrayOf(c)
            BY <3>1, SameKernel
        <3>3. /\ \A c : /\ Whole(c)' = Whole(c) /\ Total(c)' = Total(c) /\ Stored(c)' = Stored(c)
                       /\ \A w : Mine(c, w)' = Mine(c, w)
              /\ FirstShare' = FirstShare
            BY <3>1, SameResults DEF Stored
        <3>4. \A c, w : /\ HasPut(c, w)' = HasPut(c, w) /\ Returned(c, w)' = Returned(c, w)
                        /\ IsScore(c, w)' = IsScore(c, w)
            BY <3>1 DEF HasPut, Returned, IsScore
        <3>5. /\ SharedInv' = SharedInv /\ LoadedInv' = LoadedInv /\ ResultInv' = ResultInv
              /\ FlashSharedInv' = FlashSharedInv /\ FlashResultInv' = FlashResultInv
            BY <3>1, <3>2, <3>3, <3>4 DEF SharedInv, LoadedInv, ResultInv, FlashSharedInv, FlashResultInv
        <3> QED BY <2>1, <3>2, <3>5 DEF DataInv
    <2> QED BY <2>2, <2>3
<1>2. CASE kernel # "none" /\ ReduceNext
    <2>1. PhaseInv /\ DataInv
        BY <1>2 DEF ReduceInv
    <2>2. CASE Sync("sync_1", "load") \/ Sync2
        BY <2>1, <2>2, SyncKeepsPhase, SyncKeepsData DEF Sync2
    <2>3. CASE NextKey
        BY <2>1, <2>3, NextKeyKeepsPhase, NextKeyKeepsData
    <2>4. CASE \E w \in Warps : Put(w) \/ Load(w) \/ Store(w) \/ Skip(w) \/ Return(w)
        <3>1. PICK w \in Warps : Put(w) \/ Load(w) \/ Store(w) \/ Skip(w) \/ Return(w)
            BY <2>4
        <3>2. PhaseInv'
            BY <2>1, <3>1, WarpKeepsPhase
        <3>3. Flash' = Flash
            BY <3>1, SameKernel DEF Put, Load, Store, Skip, Return
        <3>4. CASE ~Flash
            <4>1. SharedInv' /\ LoadedInv' /\ ResultInv'
                BY <2>1, <3>1, <3>2, <3>4, PutKeepsData, LoadKeepsData, StoreKeepsData, ReturnKeepsData
            <4> QED BY <3>2, <3>3, <3>4, <4>1 DEF DataInv
        <3>5. CASE Flash
            <4>1. FlashSharedInv' /\ FlashResultInv'
                BY <2>1, <3>1, <3>2, <3>5, FlashWarpKeepsData
            <4> QED BY <3>2, <3>3, <3>5, <4>1 DEF DataInv
        <3> QED BY <3>4, <3>5
    <2> QED BY <1>2, <2>2, <2>3, <2>4 DEF ReduceNext
<1> QED BY <1>1, <1>2 DEF Next, vars

LEMMA ReduceInvHolds == Spec => []ReduceInv
<1>1. Init => ReduceInv
    <2>1. ReduceIdle => ReduceInv
        BY DEF ReduceIdle, ReduceInv
    <2> QED BY <2>1, ReduceInitPhase, ReduceInitData DEF Init, ReduceInv
<1> QED BY <1>1, ReduceKeeps, PTL DEF Spec

\* Behind the second call everybody has returned from the first.
LEMMA AllReturnedFirst ==
    ASSUME PhaseInv, ~Flash, NEW w \in Warps, Returned(2, w)
    PROVE  \A v \in Warps : Returned(1, v)
<1> USE WithoutThirdBarrier
<1>1. call[w] = 2 /\ pc[w] = "done"
    BY DEF Returned
<1>2. \A v \in Warps : call[v] = 2
    BY <1>1 DEF PhaseInv, CallsApart
<1> QED BY <1>2 DEF Returned

\* However many warps the block has and in whatever order they run, both
\* reductions of paged attention give every warp the reduction of all warps'
\* values of its own call (paged_attention.cu:8-72, 97-118).
THEOREM PagedReductionAlwaysRight == Spec => []PagedReductionIsRight
<1>1. ReduceInv => PagedReductionIsRight
    <2> SUFFICES ASSUME ReduceInv, kernel = "paged_attention" PROVE ReductionIsRight
        BY DEF PagedReductionIsRight
    <2>1. PhaseInv /\ ~Flash
        BY DEF ReduceInv, Flash
    <2>2. Calls = 1..2 /\ ResultInv /\ \A i \in 1..NumWarps : i - 1 \in Warps
        BY <2>1, WithoutThirdBarrier, ReduceConstants DEF ReduceInv, DataInv
    <2>3. \A w \in Warps : Returned(1, w) => result[1][w] = Whole(1)
        BY <2>2 DEF ResultInv
    <2>4. ASSUME NEW w \in Warps, Returned(2, w) PROVE result[2][w] = Whole(2)
        <3>1. \A v \in Warps : result[1][v] = Whole(1)
            BY <2>1, <2>3, <2>4, AllReturnedFirst
        <3>2. \A i \in 1..NumWarps : Mine(2, i - 1) = Value(2, i - 1, Whole(1))
            BY <2>2, <3>1 DEF Mine
        <3>3. Whole(1) = [i \in 1..NumWarps |-> <<1, i - 1>>]
            BY DEF Whole, Value
        <3>4. Total(2) = Whole(2)
            BY <3>2, <3>3 DEF Total, Whole
        <3> QED BY <2>2, <2>4, <3>4 DEF ResultInv
    <2> QED BY <2>2, <2>3, <2>4 DEF ReductionIsRight
<1> QED BY <1>1, ReduceInvHolds, PTL

\* Layernorm's second call may overtake a slow warp's return of the first.  With
\* any number of warps the first warp's mean is right and another's is right or
\* the first warp's share of the second sum; the second sum is the same in all
\* warps and has the term of each once, made with the mean that warp has: it is
\* the variance exactly as far as those means are right (layernorm.cu:32-44).
THEOREM LayerNormRaceAlwaysConfined == Spec => []LayerNormRaceIsConfined
<1>1. ReduceInv => LayerNormRaceIsConfined
    <2> SUFFICES ASSUME ReduceInv, NEW w \in Warps, kernel = "layernorm"
                 PROVE  /\ Returned(1, w) =>
                              \/ result[1][w] = Whole(1)
                              \/ w # 0 /\ result[1][w] = <<Value(2, 0, Whole(1))>>
                        /\ Returned(2, w) =>
                              result[2][w] = [i \in 1..NumWarps |-> Value(2, i - 1, result[1][i - 1])]
        BY DEF LayerNormRaceIsConfined
    <2>1. PhaseInv /\ ~Flash
        BY DEF ReduceInv, Flash
    <2>2. ResultInv
        BY <2>1 DEF ReduceInv, DataInv
    <2> QED BY <2>2 DEF ResultInv, FirstShare, Total, Mine
<1> QED BY <1>1, ReduceInvHolds, PTL

\* Whatever the number of warps and whatever order they run in, no warp of paged
\* attention gets past the two reductions before all warps have written
\* exp(score - max): what is then read of scores[] (paged_attention.cu:97-118) is
\* complete.
THEOREM ScoresAlwaysComplete == Spec => []ScoresComplete
<1>1. ReduceInv => ScoresComplete
    <2> SUFFICES ASSUME ReduceInv, kernel = "paged_attention",
                        NEW w \in Warps, pc[w] = "done", NEW v \in Warps
                 PROVE  scores[v] = 2
        BY DEF ScoresComplete
    <2>1. PhaseInv /\ ~Flash
        BY DEF ReduceInv, Flash
    <2>2. call[w] = 2 /\ call[v] \in 1..2
        BY <2>1, WithoutThirdBarrier
    <2>3. call[v] = 2
        BY <2>1, <2>2 DEF PhaseInv, CallsApart
    <2>4. pc[v] \in BehindSecond
        BY <2>1, <2>2, <2>3 DEF PhaseInv, TogetherAtSecond, BehindSecond
    <2> QED BY <2>1, <2>3, <2>4 DEF PhaseInv, ScoresOfTheCall, BehindSecond
<1> QED BY <1>1, ReduceInvHolds, PTL

\* However the race of flashattention's two warps ends, for every key of a tile
\* of any width they go on with the same score, made of this key's components
\* (flashattention.cu:21-45, 90-120).
THEOREM ScoreAlwaysOfThisKey == Spec => []ScoreOfThisKey
<1>1. ReduceInv => ScoreOfThisKey
    <2> SUFFICES ASSUME ReduceInv, NEW c \in Calls, NEW w \in Warps, Flash, Returned(c, w)
                 PROVE  /\ Head(result[c][w]) = Whole(c)[1]
                        /\ \A i \in 2..Len(result[c][w]) : result[c][w][i] = Whole(c)[2]
                        /\ \A v \in Warps : Returned(c, v) => result[c][v] = result[c][w]
        BY DEF ScoreOfThisKey
    <2>1. PhaseInv /\ FlashResultInv
        BY DEF ReduceInv, DataInv, Flash
    <2>2. IsScore(c, result[c][w]) /\ \A v \in Warps : Returned(c, v) => result[c][v] = result[c][w]
        BY <2>1 DEF FlashResultInv
    <2>3. Whole(c) = << <<c, 0>>, <<c, 1>> >>
        BY <2>1, FlashFacts
    <2>4. Head(result[c][w]) = <<c, 0>>
        BY <2>2 DEF IsScore
    <2> QED BY <2>2, <2>3, <2>4 DEF IsScore
<1> QED BY <1>1, ReduceInvHolds, PTL
-----------------------------------------------------------------------------
(* The matrix products. *)

\* The next multiple.
LEMMA StepUp == 
    ASSUME NEW a \in Nat, NEW b \in Nat, NEW m \in Nat, a < b
    PROVE  a * m + m <= b * m
<1>1. b >= a + 1
    OBVIOUS
<1>2. b * m >= (a + 1) * m
    BY <1>1
<1>3. (a + 1) * m = a * m + m
    OBVIOUS
<1> QED BY <1>2, <1>3

\* Quotient and remainder...
LEMMA DivMod ==
    ASSUME NEW a \in Nat, NEW m \in Nat \ {0}
    PROVE  a = (a \div m) * m + (a % m) /\ a \div m \in Nat /\ a % m \in 0..(m - 1)
OBVIOUS

\* ... are the only ones.
LEMMA Digits ==
    ASSUME NEW m \in Nat \ {0}, NEW q \in Nat, NEW x \in 0..(m - 1)
    PROVE  (q * m + x) \div m = q /\ (q * m + x) % m = x /\ q * m \in Nat
<1> DEFINE a == q * m + x
           b == a \div m
           y == a % m
<1>1. q * m \in Nat /\ a \in Nat
    OBVIOUS
<1>2. a = b * m + y /\ b \in Nat /\ y \in 0..(m - 1) /\ b * m \in Nat
    <2> HIDE DEF a
    <2>1. a = (a \div m) * m + (a % m) /\ a \div m \in Nat /\ a % m \in 0..(m - 1)
        BY <1>1, DivMod
    <2>2. (a \div m) * m \in Nat
        BY <2>1
    <2> QED BY <2>1, <2>2
<1>3. ~(b < q)
    <2> SUFFICES ASSUME b < q PROVE FALSE
        OBVIOUS
    <2>1. b * m + m <= q * m
        <3> HIDE DEF b
        <3> QED BY <1>2, StepUp
    <2> HIDE DEF b, y
    <2> QED BY <2>1, <1>1, <1>2
<1>4. ~(q < b)
    <2> SUFFICES ASSUME q < b PROVE FALSE
        OBVIOUS
    <2>1. q * m + m <= b * m
        <3> HIDE DEF b
        <3> QED BY <1>2, StepUp
    <2> HIDE DEF b, y
    <2> QED BY <2>1, <1>1, <1>2
<1>5. b = q
    <2> HIDE DEF b
    <2> QED BY <1>2, <1>3, <1>4
<1>6. y = x
    <2> HIDE DEF b, y
    <2> QED BY <1>1, <1>2, <1>5
<1> QED BY <1>1, <1>5, <1>6

\* A number below g * m has a quotient below g.
LEMMA QuotientBelow ==
    ASSUME NEW m \in Nat \ {0}, NEW g \in Nat, NEW a \in Nat, a < g * m
    PROVE  a \div m < g
<1> DEFINE q == a \div m
           y == a % m
<1>1. a = q * m + y /\ q \in Nat /\ y \in 0..(m - 1)
    BY DivMod
<1> HIDE DEF q, y
<1>2. CASE q > g
    <2>1. g * m + m <= q * m /\ g * m \in Nat /\ q * m \in Nat
        BY <1>1, <1>2, StepUp
    <2> QED BY <1>1, <2>1
<1>3. CASE q = g
    <2>1. g * m \in Nat
        OBVIOUS
    <2> QED BY <1>1, <1>3, <2>1
<1>4. CASE q < g
    BY <1>4 DEF q
<1> QED BY <1>1, <1>2, <1>3, <1>4

\* Rounding up.
LEMMA RoundUp ==
    ASSUME NEW m \in Nat \ {0}, NEW n \in Nat, NEW a \in Nat, a < n
    PROVE  /\ (n + m - 1) \div m \in Nat
           /\ a \div m < (n + m - 1) \div m
<1> DEFINE g == (n + m - 1) \div m
           z == (n + m - 1) % m
<1>1. n + m - 1 = g * m + z /\ g \in Nat /\ z \in 0..(m - 1)
    <2>1. n + m - 1 \in Nat
        OBVIOUS
    <2> QED BY <2>1, DivMod
<1> HIDE DEF g, z
<1>2. a < g * m
    <2>1. g * m \in Nat
        BY <1>1
    <2> QED BY <1>1, <2>1
<1>3. a \div m < g
    BY <1>1, <1>2, QuotientBelow
<1> QED BY <1>1, <1>3 DEF g

\* A whole number of tiles.
LEMMA WholeTiles ==
    ASSUME NEW m \in Nat \ {0}, NEW n \in Nat, n % m = 0
    PROVE  n = (n \div m) * m /\ n \div m \in Nat /\ (n + m - 1) \div m = n \div m
<1>1. n = (n \div m) * m + (n % m) /\ n \div m \in Nat
    BY DivMod
<1> DEFINE q == n \div m
<1>2. n = q * m /\ q \in Nat
    BY <1>1
<1>3. (q * m + (m - 1)) \div m = q
    <2>1. m - 1 \in 0..(m - 1)
        OBVIOUS
    <2> HIDE DEF q
    <2> QED BY <1>2, <2>1, Digits
<1>4. n + m - 1 = q * m + (m - 1)
    <2> HIDE DEF q
    <2>1. q * m \in Nat
        BY <1>2
    <2> QED BY <1>2, <2>1
<1> QED BY <1>2, <1>3, <1>4

\* A row of a matrix cut into tiles of m = g * k rows, k for a thread.
IsCut(x, m, k, g, a, b, i) ==
    a \in Nat /\ b \in 0..(g - 1) /\ i \in 0..(k - 1) /\ x = a * m + b * k + i

LEMMA Cut ==
    ASSUME NEW m \in Nat \ {0}, NEW k \in Nat \ {0}, NEW g \in Nat, m = g * k, NEW x \in Nat,
           NEW a, NEW b, NEW i, a = x \div m, b = (x % m) \div k, i = (x % m) % k
    PROVE  IsCut(x, m, k, g, a, b, i)
<1> DEFINE y == x % m
<1>1. x = a * m + y /\ a \in Nat /\ y \in 0..(m - 1)
    BY DivMod
<1>2. y \in Nat /\ y < g * k /\ a * m \in Nat
    <2>1. m \in Nat
        OBVIOUS
    <2> QED BY <1>1, <2>1
<1>3. b = y \div k /\ i = y % k
    OBVIOUS
<1> HIDE DEF y
<1>4. y = b * k + i /\ b \in Nat /\ i \in 0..(k - 1)
    <2>1. y = (y \div k) * k + (y % k) /\ y \div k \in Nat /\ y % k \in 0..(k - 1)
        BY <1>2, DivMod
    <2> QED BY <1>3, <2>1
<1>5. b < g
    BY <1>2, <1>3, QuotientBelow
<1>6. b \in 0..(g - 1) /\ b * k \in Nat
    BY <1>4, <1>5
<1>7. x = a * m + b * k + i
    BY <1>1, <1>2, <1>4, <1>6
<1> QED BY <1>1, <1>4, <1>6, <1>7 DEF IsCut

\* The tile and the thread of a row are the only ones.
LEMMA CutOnce ==
    ASSUME NEW m \in Nat \ {0}, NEW k \in Nat \ {0}, NEW g \in Nat, m = g * k,
           NEW a \in Nat, NEW b \in 0..(g - 1), NEW i \in 0..(k - 1),
           NEW x, x = a * m + b * k + i
    PROVE  x \in Nat /\ x \div m = a /\ (x % m) \div k = b /\ x - a * m \in 0..(m - 1)
<1> DEFINE y == b * k + i
<1>1. a * m \in Nat /\ b * k \in Nat
    OBVIOUS
<1>2. y \in 0..(m - 1)
    <2>1. b * k + k <= g * k
        BY StepUp
    <2> DEFINE u == b * k
    <2>2. u \in Nat /\ u + k <= m
        BY <1>1, <2>1
    <2> HIDE DEF u
    <2>3. u + i \in 0..(m - 1)
        BY <2>2
    <2> QED BY <2>3 DEF u
<1>3. x = a * m + y
    BY <1>1
<1> HIDE DEF y
<1>4. (a * m + y) \div m = a /\ (a * m + y) % m = y
    BY <1>2, Digits
<1>5. y \div k = b
    BY Digits DEF y
<1>6. x \in Nat /\ x - a * m = y
    BY <1>1, <1>2, <1>3
<1>7. x \div m = a /\ (x % m) \div k = b /\ x \in Nat /\ x - a * m \in 0..(m - 1)
    BY <1>2, <1>3, <1>4, <1>5, <1>6
<1> QED BY <1>7

GemmPlaces == {"load", "loaded", "multiply", "multiplied", "store", "stored"}

LaunchOK ==
    \E m \in Launches, aligned \in BOOLEAN, beta \in {0, 1} :
        launch = [M |-> m[1], N |-> m[2], K |-> m[3], beta |-> beta,
                  kernel |-> launch_custom_gemm(m[1], m[2], m[3], aligned)]

GemmType ==
    /\ LaunchOK /\ block \in 0..(Blocks - 1)
    /\ DOMAIN sA = Places2D(Tile.BM, Tile.BK) /\ DOMAIN sB = Places2D(Tile.BK, Tile.BN)
    /\ gemm_pc \in [GemmThreads -> GemmPlaces] /\ bkIdx \in [GemmThreads -> Nat]
    /\ DOMAIN acc = GemmThreads /\ DOMAIN C = Places2D(launch.M, launch.N)

\* The barriers hold the threads together: at one tile of k, loading,
\* multiplying or storing.
Stage(t) == CASE gemm_pc[t] \in {"load", "loaded"} -> 1
              [] gemm_pc[t] \in {"multiply", "multiplied"} -> 2
              [] OTHER -> 3

GemmTogether ==
    /\ \A t, u \in GemmThreads : bkIdx[t] = bkIdx[u] /\ Stage(t) = Stage(u)
    /\ \A t \in GemmThreads : /\ bkIdx[t] % Tile.BK = 0
                              /\ Stage(t) = 3 <=> bkIdx[t] >= launch.K

ElementOfA(p, k) == Element("A", blockRow + p[1], k + p[2], launch.M, launch.K)
ElementOfB(p, k) == Element("B", k + p[1], blockCol + p[2], launch.K, launch.N)

\* The tiles are there when they are used.
TilesInv ==
    \A t \in GemmThreads :
        /\ gemm_pc[t] = "loaded" =>
              /\ \A p \in Share(t, Tile.BM, Tile.BK) : sA[p] = ElementOfA(p, bkIdx[t])
              /\ \A p \in Share(t, Tile.BK, Tile.BN) : sB[p] = ElementOfB(p, bkIdx[t])
        /\ Stage(t) = 2 => /\ \A p \in DOMAIN sA : sA[p] = ElementOfA(p, bkIdx[t])
                           /\ \A p \in DOMAIN sB : sB[p] = ElementOfB(p, bkIdx[t])

\* A thread's registers have the products up to here.
Added(t) == IF gemm_pc[t] = "multiplied" THEN bkIdx[t] + Tile.BK ELSE bkIdx[t]

IsPartialSum(sum, n, r, c) ==
    /\ Len(sum) = n /\ sum = [k \in 1..n |-> sum[k]]
    /\ \A k \in 1..n : IF k <= launch.K THEN sum[k] = << <<"A", r, k - 1>>, <<"B", k - 1, c>> >>
                                        ELSE Zero \in {sum[k][1], sum[k][2]}

AccInv ==
    \A t \in GemmThreads : \A p \in OwnElements(t) \cap DOMAIN C :
        Added(t) > 0 => p \in DOMAIN acc[t] /\ IsPartialSum(acc[t][p], Added(t), p[1], p[2])

\* The block and the thread that store an element of C.
BlockOf(p) == (p[1] \div Tile.BM) * GridColumns + p[2] \div Tile.BN
ThreadOf(p) == ((p[1] % Tile.BM) \div Tile.TM) * (Tile.BN \div Tile.TN) + (p[2] % Tile.BN) \div Tile.TN

IsStored(p) == BlockOf(p) < block \/ (BlockOf(p) = block /\ gemm_pc[ThreadOf(p)] = "stored")

StoredInv ==
    \A p \in DOMAIN C : IF IsStored(p) THEN IsProduct(C[p], p[1], p[2]) ELSE C[p] = Old

GemmOK == GemmType /\ GemmTogether /\ TilesInv /\ AccInv /\ StoredInv

GemmInv == launch # <<>> => GemmOK

\* Rows and columns of threads in a block, rows of blocks in the grid.
ThreadRows == Tile.BM \div Tile.TM
ThreadColumns == Tile.BN \div Tile.TN
GridRows == CeilDivide(launch.M, Tile.BM)

\* What the launch settles.
LEMMA LaunchFacts ==
    ASSUME LaunchOK
    PROVE  /\ launch.M \in Nat \ {0} /\ launch.N \in Nat \ {0} /\ launch.K \in Nat \ {0}
           /\ Tile \in {DecodeTile, GeneralTile}
           /\ ~launch.kernel.guarded =>
                 launch.M % Tile.BM = 0 /\ launch.N % Tile.BN = 0 /\ launch.K % Tile.BK = 0
<1>1. PICK m \in Launches, aligned \in BOOLEAN, beta \in {0, 1} :
          launch = [M |-> m[1], N |-> m[2], K |-> m[3], beta |-> beta,
                    kernel |-> launch_custom_gemm(m[1], m[2], m[3], aligned)]
    BY DEF LaunchOK
<1>2. m[1] \in Nat \ {0} /\ m[2] \in Nat \ {0} /\ m[3] \in Nat \ {0}
    BY GemmAssumption
<1>3. /\ launch.M = m[1] /\ launch.N = m[2] /\ launch.K = m[3]
      /\ launch.kernel = launch_custom_gemm(m[1], m[2], m[3], aligned)
    BY <1>1
<1>4. CASE can_use_decode_gemm(m[1], m[2], m[3])
    <2>1. launch.kernel = [tile |-> DecodeTile, guarded |-> TRUE]
        BY <1>3, <1>4 DEF launch_custom_gemm
    <2> QED BY <1>2, <1>3, <2>1 DEF Tile
<1>5. CASE ~can_use_decode_gemm(m[1], m[2], m[3])
    <2>1. launch.kernel = [tile    |-> GeneralTile,
                           guarded |-> ~can_use_vectorized_bank_gemm(m[1], m[2], m[3], aligned)]
        BY <1>3, <1>5 DEF launch_custom_gemm
    <2>2. Tile = GeneralTile
        BY <2>1 DEF Tile
    <2>3. CASE can_use_vectorized_bank_gemm(m[1], m[2], m[3], aligned)
        BY <1>2, <1>3, <2>2, <2>3 DEF can_use_vectorized_bank_gemm
    <2>4. CASE ~can_use_vectorized_bank_gemm(m[1], m[2], m[3], aligned)
        <3>1. (~can_use_vectorized_bank_gemm(m[1], m[2], m[3], aligned)) = TRUE
            BY <2>4
        <3>2. launch.kernel = [tile |-> GeneralTile, guarded |-> TRUE]
            BY <2>1, <3>1, Zenon
        <3>3. launch.kernel.guarded
            BY <3>2
        <3> QED BY <1>2, <1>3, <2>2, <3>3
    <2> QED BY <2>3, <2>4
<1> QED BY <1>4, <1>5

\* The tile is a whole number of what a thread has, in rows and in columns.
LEMMA TileFacts ==
    ASSUME LaunchOK
    PROVE  /\ Tile.BM \in Nat \ {0} /\ Tile.BN \in Nat \ {0} /\ Tile.BK \in Nat \ {0}
           /\ Tile.TM \in Nat \ {0} /\ Tile.TN \in Nat \ {0} /\ Tile.VEC \in Nat \ {0}
           /\ ThreadRows \in Nat \ {0} /\ Tile.BM = ThreadRows * Tile.TM
           /\ ThreadColumns \in Nat \ {0} /\ Tile.BN = ThreadColumns * Tile.TN
           /\ NumThreads(Tile) = ThreadRows * ThreadColumns /\ NumThreads(Tile) \in Nat \ {0}
           /\ GemmThreads = 0..(ThreadRows * ThreadColumns - 1)
<1>1. Tile \in {DecodeTile, GeneralTile}
    BY LaunchFacts
<1>2. /\ Tile.BM \in Nat \ {0} /\ Tile.BN \in Nat \ {0} /\ Tile.BK \in Nat \ {0}
      /\ Tile.TM \in Nat \ {0} /\ Tile.TN \in Nat \ {0} /\ Tile.VEC \in Nat \ {0}
      /\ Tile.BM % Tile.TM = 0 /\ Tile.BN % Tile.TN = 0
    BY <1>1, GemmAssumption
<1>3. Tile.BM = ThreadRows * Tile.TM /\ ThreadRows \in Nat
    BY <1>2, WholeTiles DEF ThreadRows
<1>4. Tile.BN = ThreadColumns * Tile.TN /\ ThreadColumns \in Nat
    BY <1>2, WholeTiles DEF ThreadColumns
<1>5. ThreadRows # 0 /\ ThreadColumns # 0
    BY <1>2, <1>3, <1>4
<1>6. ThreadRows * ThreadColumns \in Nat \ {0}
    <2> HIDE DEF ThreadRows, ThreadColumns
    <2>1. \A a, b \in Nat \ {0} : a * b \in Nat \ {0}
        OBVIOUS
    <2> QED BY <1>3, <1>4, <1>5, <2>1
<1>7. NumThreads(Tile) = ThreadRows * ThreadColumns
    BY DEF NumThreads, ThreadRows, ThreadColumns
<1> QED BY <1>2, <1>3, <1>4, <1>5, <1>6, <1>7 DEF GemmThreads

\* The grid has a block for every tile of C.
LEMMA GridFacts ==
    ASSUME LaunchOK
    PROVE  /\ GridRows \in Nat /\ GridColumns \in Nat \ {0} /\ Blocks = GridRows * GridColumns
           /\ \A r \in 0..(launch.M - 1) : r \div Tile.BM < GridRows
           /\ \A c \in 0..(launch.N - 1) : c \div Tile.BN < GridColumns
<1>1. launch.M \in Nat \ {0} /\ launch.N \in Nat \ {0} /\ Tile.BM \in Nat \ {0} /\ Tile.BN \in Nat \ {0}
    BY LaunchFacts, TileFacts
<1>2. \A r \in 0..(launch.M - 1) : r \div Tile.BM < GridRows /\ GridRows \in Nat
    <2> SUFFICES ASSUME NEW r \in 0..(launch.M - 1) PROVE r \div Tile.BM < GridRows /\ GridRows \in Nat
        OBVIOUS
    <2>1. r \in Nat /\ r < launch.M
        BY <1>1
    <2>2. /\ (launch.M + Tile.BM - 1) \div Tile.BM \in Nat
          /\ r \div Tile.BM < (launch.M + Tile.BM - 1) \div Tile.BM
        BY ONLY <1>1, <2>1, RoundUp, Zenon
    <2> QED BY <2>2 DEF GridRows, CeilDivide
<1>3. \A c \in 0..(launch.N - 1) : c \div Tile.BN < GridColumns /\ GridColumns \in Nat
    <2> SUFFICES ASSUME NEW c \in 0..(launch.N - 1) PROVE c \div Tile.BN < GridColumns /\ GridColumns \in Nat
        OBVIOUS
    <2>1. c \in Nat /\ c < launch.N
        BY <1>1
    <2>2. /\ (launch.N + Tile.BN - 1) \div Tile.BN \in Nat
          /\ c \div Tile.BN < (launch.N + Tile.BN - 1) \div Tile.BN
        BY ONLY <1>1, <2>1, RoundUp, Zenon
    <2> QED BY <2>2 DEF GridColumns, CeilDivide
<1>4. GridRows \in Nat /\ GridColumns \in Nat \ {0}
    <2>1. 0 \in 0..(launch.M - 1) /\ 0 \in 0..(launch.N - 1)
        BY <1>1
    <2>2. 0 \div Tile.BN \in Nat
        BY <1>1, DivMod
    <2>3. 0 \div Tile.BN < GridColumns
        BY <1>3, <2>1
    <2> QED BY <1>2, <1>3, <2>1, <2>2, <2>3
<1>5. Blocks = GridRows * GridColumns
    <2>1. Blocks = GridColumns * GridRows
        BY DEF Blocks, GridRows
    <2> HIDE DEF GridRows, GridColumns
    <2> QED BY <1>4, <2>1
<1> QED BY <1>2, <1>3, <1>4, <1>5

\* The tile row and column of the block, and of the thread in it.
LEMMA BlockPlace ==
    ASSUME LaunchOK, block \in 0..(Blocks - 1)
    PROVE  /\ block \div GridColumns \in 0..(GridRows - 1)
           /\ block % GridColumns \in 0..(GridColumns - 1)
           /\ block = (block \div GridColumns) * GridColumns + (block % GridColumns)
           /\ blockRow \in Nat /\ blockCol \in Nat
<1>1. /\ GridRows \in Nat /\ GridColumns \in Nat \ {0} /\ Blocks = GridRows * GridColumns
      /\ Tile.BM \in Nat /\ Tile.BN \in Nat
    BY GridFacts, TileFacts
<1>2. block \in Nat /\ block < GridRows * GridColumns
    <2>1. GridRows * GridColumns \in Nat
        BY <1>1
    <2> QED BY <1>1, <2>1
<1>3. /\ block = (block \div GridColumns) * GridColumns + (block % GridColumns)
      /\ block \div GridColumns \in Nat /\ block % GridColumns \in 0..(GridColumns - 1)
    BY ONLY <1>1, <1>2, DivMod, Zenon
<1>4. block \div GridColumns < GridRows
    BY ONLY <1>1, <1>2, QuotientBelow, Zenon
<1> DEFINE q == block \div GridColumns
           r == block % GridColumns
<1>5. q \in 0..(GridRows - 1) /\ r \in Nat
    <2> HIDE DEF q, r
    <2>1. q \in Nat /\ q < GridRows /\ r \in 0..(GridColumns - 1)
        BY <1>3, <1>4 DEF q, r
    <2> QED BY <1>1, <2>1
<1>6. q * Tile.BM \in Nat /\ r * Tile.BN \in Nat
    <2> HIDE DEF q, r
    <2>1. q \in Nat
        BY <1>5
    <2> QED BY <1>1, <1>5, <2>1
<1> QED BY <1>3, <1>5, <1>6 DEF blockRow, blockCol

LEMMA ThreadPlace ==
    ASSUME LaunchOK, NEW t \in GemmThreads
    PROVE  /\ t \div ThreadColumns \in 0..(ThreadRows - 1)
           /\ t % ThreadColumns \in 0..(ThreadColumns - 1)
           /\ t = (t \div ThreadColumns) * ThreadColumns + (t % ThreadColumns)
<1>1. /\ ThreadRows \in Nat /\ ThreadColumns \in Nat \ {0}
      /\ GemmThreads = 0..(ThreadRows * ThreadColumns - 1)
    BY TileFacts
<1>2. t \in Nat /\ t < ThreadRows * ThreadColumns
    <2>1. ThreadRows * ThreadColumns \in Nat
        BY <1>1
    <2> QED BY <1>1, <2>1
<1>3. /\ t = (t \div ThreadColumns) * ThreadColumns + (t % ThreadColumns)
      /\ t \div ThreadColumns \in Nat /\ t % ThreadColumns \in 0..(ThreadColumns - 1)
    BY ONLY <1>1, <1>2, DivMod, Zenon
<1>4. t \div ThreadColumns < ThreadRows
    BY ONLY <1>1, <1>2, QuotientBelow, Zenon
<1>5. t \div ThreadColumns \in 0..(ThreadRows - 1)
    <2> DEFINE q == t \div ThreadColumns
    <2> HIDE DEF q
    <2>1. q \in Nat /\ q < ThreadRows
        BY <1>3, <1>4 DEF q
    <2>2. q \in 0..(ThreadRows - 1)
        BY <1>1, <2>1
    <2> QED BY <2>2 DEF q
<1> QED BY <1>3, <1>5

\* A place of C is its owner's: the block and the thread are the ones it is
\* divided down to.
LEMMA OwnerIs ==
    ASSUME LaunchOK, block \in 0..(Blocks - 1), NEW t \in GemmThreads, NEW p \in OwnElements(t)
    PROVE  /\ BlockOf(p) = block /\ ThreadOf(p) = t
           /\ p[1] \in Nat /\ p[2] \in Nat /\ p = <<p[1], p[2]>>
           /\ p[1] - blockRow \in 0..(Tile.BM - 1) /\ p[2] - blockCol \in 0..(Tile.BN - 1)
<1> DEFINE a == block \div GridColumns
           c == block % GridColumns
           u == t \div ThreadColumns
           v == t % ThreadColumns
<1>1. PICK i \in 0..(Tile.TM - 1), j \in 0..(Tile.TN - 1) :
          p = <<blockRow + u * Tile.TM + i, blockCol + v * Tile.TN + j>>
    BY DEF OwnElements, ThreadColumns
<1>2. /\ a \in Nat /\ c \in Nat /\ u \in 0..(ThreadRows - 1) /\ v \in 0..(ThreadColumns - 1)
      /\ block = a * GridColumns + c /\ t = u * ThreadColumns + v
    <2>1. a \in 0..(GridRows - 1) /\ c \in 0..(GridColumns - 1) /\ block = a * GridColumns + c
        BY BlockPlace
    <2>2. u \in 0..(ThreadRows - 1) /\ v \in 0..(ThreadColumns - 1) /\ t = u * ThreadColumns + v
        BY ThreadPlace
    <2> HIDE DEF a, c, u, v
    <2> QED BY <2>1, <2>2
<1>3. p[1] = a * Tile.BM + u * Tile.TM + i /\ p[2] = c * Tile.BN + v * Tile.TN + j /\ p = <<p[1], p[2]>>
    BY <1>1 DEF blockRow, blockCol
<1>4. blockRow = a * Tile.BM /\ blockCol = c * Tile.BN
    BY DEF blockRow, blockCol
<1> HIDE DEF a, c, u, v
<1>5. /\ Tile.BM \in Nat \ {0} /\ Tile.BN \in Nat \ {0} /\ Tile.TM \in Nat \ {0} /\ Tile.TN \in Nat \ {0}
      /\ ThreadRows \in Nat /\ ThreadColumns \in Nat
      /\ Tile.BM = ThreadRows * Tile.TM /\ Tile.BN = ThreadColumns * Tile.TN
    BY TileFacts
<1>6. /\ p[1] \in Nat /\ p[1] \div Tile.BM = a /\ (p[1] % Tile.BM) \div Tile.TM = u
      /\ p[1] - a * Tile.BM \in 0..(Tile.BM - 1)
    BY ONLY <1>1, <1>2, <1>3, <1>5, CutOnce, Zenon
<1>7. /\ p[2] \in Nat /\ p[2] \div Tile.BN = c /\ (p[2] % Tile.BN) \div Tile.TN = v
      /\ p[2] - c * Tile.BN \in 0..(Tile.BN - 1)
    BY ONLY <1>1, <1>2, <1>3, <1>5, CutOnce, Zenon
<1>8. BlockOf(p) = block /\ ThreadOf(p) = t
    BY <1>2, <1>6, <1>7 DEF BlockOf, ThreadOf, ThreadColumns
<1> QED BY <1>3, <1>4, <1>6, <1>7, <1>8

LEMMA IsOwner ==
    ASSUME LaunchOK, block \in 0..(Blocks - 1), NEW t \in GemmThreads,
           NEW p \in Places2D(launch.M, launch.N), BlockOf(p) = block, ThreadOf(p) = t
    PROVE  p \in OwnElements(t)
<1> DEFINE a == p[1] \div Tile.BM
           c == p[2] \div Tile.BN
           u == (p[1] % Tile.BM) \div Tile.TM
           v == (p[2] % Tile.BN) \div Tile.TN
           i == (p[1] % Tile.BM) % Tile.TM
           j == (p[2] % Tile.BN) % Tile.TN
<1>1. p[1] \in 0..(launch.M - 1) /\ p[2] \in 0..(launch.N - 1) /\ p = <<p[1], p[2]>>
    BY DEF Places2D
<1>2. p[1] \in Nat /\ p[2] \in Nat
    BY <1>1
<1>3. /\ Tile.BM \in Nat \ {0} /\ Tile.BN \in Nat \ {0} /\ Tile.TM \in Nat \ {0} /\ Tile.TN \in Nat \ {0}
      /\ ThreadRows \in Nat /\ ThreadColumns \in Nat \ {0} /\ GridColumns \in Nat \ {0}
      /\ Tile.BM = ThreadRows * Tile.TM /\ Tile.BN = ThreadColumns * Tile.TN
    BY TileFacts, GridFacts
<1>4. /\ a \in Nat /\ u \in 0..(ThreadRows - 1) /\ i \in 0..(Tile.TM - 1)
      /\ p[1] = a * Tile.BM + u * Tile.TM + i
    <2>1. /\ Tile.BM \in Nat \ {0} /\ Tile.TM \in Nat \ {0} /\ ThreadRows \in Nat
          /\ Tile.BM = ThreadRows * Tile.TM /\ p[1] \in Nat
        BY <1>2, <1>3
    <2>2. /\ a = p[1] \div Tile.BM /\ u = (p[1] % Tile.BM) \div Tile.TM
          /\ i = (p[1] % Tile.BM) % Tile.TM
        OBVIOUS
    <2> HIDE DEF a, u, i
    <2>3. IsCut(p[1], Tile.BM, Tile.TM, ThreadRows, a, u, i)
        BY ONLY <2>1, <2>2, Cut, Zenon
    <2> QED BY <2>3 DEF IsCut
<1>5. /\ c \in Nat /\ v \in 0..(ThreadColumns - 1) /\ j \in 0..(Tile.TN - 1)
      /\ p[2] = c * Tile.BN + v * Tile.TN + j
    <2>1. /\ Tile.BN \in Nat \ {0} /\ Tile.TN \in Nat \ {0} /\ ThreadColumns \in Nat
          /\ Tile.BN = ThreadColumns * Tile.TN /\ p[2] \in Nat
        BY <1>2, <1>3
    <2>2. /\ c = p[2] \div Tile.BN /\ v = (p[2] % Tile.BN) \div Tile.TN
          /\ j = (p[2] % Tile.BN) % Tile.TN
        OBVIOUS
    <2> HIDE DEF c, v, j
    <2>3. IsCut(p[2], Tile.BN, Tile.TN, ThreadColumns, c, v, j)
        BY ONLY <2>1, <2>2, Cut, Zenon
    <2> QED BY <2>3 DEF IsCut
<1>6. c < GridColumns
    BY <1>1, GridFacts
<1>7. block = a * GridColumns + c /\ t = u * ThreadColumns + v
    BY DEF BlockOf, ThreadOf, ThreadColumns
<1> HIDE DEF a, c, u, v, i, j
<1>8. c \in 0..(GridColumns - 1) /\ u \in Nat
    BY <1>3, <1>4, <1>5, <1>6
<1>9. block \div GridColumns = a /\ block % GridColumns = c
    BY ONLY <1>3, <1>4, <1>7, <1>8, Digits
<1>10. t \div ThreadColumns = u /\ t % ThreadColumns = v
    BY ONLY <1>3, <1>5, <1>7, <1>8, Digits
<1>11. p = <<blockRow + (t \div ThreadColumns) * Tile.TM + i, blockCol + (t % ThreadColumns) * Tile.TN + j>>
    BY <1>1, <1>4, <1>5, <1>9, <1>10 DEF blockRow, blockCol
<1> QED BY <1>4, <1>5, <1>11 DEF OwnElements, ThreadColumns

\* Every place of C has an owner.
LEMMA HasOwner ==
    ASSUME LaunchOK, NEW p \in Places2D(launch.M, launch.N)
    PROVE  BlockOf(p) \in 0..(Blocks - 1) /\ ThreadOf(p) \in GemmThreads
<1> DEFINE a == p[1] \div Tile.BM
           c == p[2] \div Tile.BN
           u == (p[1] % Tile.BM) \div Tile.TM
           v == (p[2] % Tile.BN) \div Tile.TN
<1>1. p[1] \in 0..(launch.M - 1) /\ p[2] \in 0..(launch.N - 1)
    BY DEF Places2D
<1>2. p[1] \in Nat /\ p[2] \in Nat
    BY <1>1
<1>3. /\ Tile.BM \in Nat \ {0} /\ Tile.BN \in Nat \ {0} /\ Tile.TM \in Nat \ {0} /\ Tile.TN \in Nat \ {0}
      /\ ThreadRows \in Nat /\ ThreadColumns \in Nat \ {0} /\ GridRows \in Nat /\ GridColumns \in Nat \ {0}
      /\ Tile.BM = ThreadRows * Tile.TM /\ Tile.BN = ThreadColumns * Tile.TN
    BY TileFacts, GridFacts
<1>4. a \in Nat /\ u \in 0..(ThreadRows - 1)
    <2> DEFINE i == (p[1] % Tile.BM) % Tile.TM
    <2>1. /\ Tile.BM \in Nat \ {0} /\ Tile.TM \in Nat \ {0} /\ ThreadRows \in Nat
          /\ Tile.BM = ThreadRows * Tile.TM /\ p[1] \in Nat
        BY <1>2, <1>3
    <2>2. /\ a = p[1] \div Tile.BM /\ u = (p[1] % Tile.BM) \div Tile.TM
          /\ i = (p[1] % Tile.BM) % Tile.TM
        OBVIOUS
    <2> HIDE DEF a, u, i
    <2>3. IsCut(p[1], Tile.BM, Tile.TM, ThreadRows, a, u, i)
        BY ONLY <2>1, <2>2, Cut, Zenon
    <2> QED BY <2>3 DEF IsCut
<1>5. c \in Nat /\ v \in 0..(ThreadColumns - 1)
    <2> DEFINE i == (p[2] % Tile.BN) % Tile.TN
    <2>1. /\ Tile.BN \in Nat \ {0} /\ Tile.TN \in Nat \ {0} /\ ThreadColumns \in Nat
          /\ Tile.BN = ThreadColumns * Tile.TN /\ p[2] \in Nat
        BY <1>2, <1>3
    <2>2. /\ c = p[2] \div Tile.BN /\ v = (p[2] % Tile.BN) \div Tile.TN
          /\ i = (p[2] % Tile.BN) % Tile.TN
        OBVIOUS
    <2> HIDE DEF c, v, i
    <2>3. IsCut(p[2], Tile.BN, Tile.TN, ThreadColumns, c, v, i)
        BY ONLY <2>1, <2>2, Cut, Zenon
    <2> QED BY <2>3 DEF IsCut
<1>6. a < GridRows /\ c < GridColumns
    BY <1>1, GridFacts
<1>7. BlockOf(p) = a * GridColumns + c /\ ThreadOf(p) = u * ThreadColumns + v
    BY DEF BlockOf, ThreadOf, ThreadColumns
<1>8. \A m, g \in Nat : \A x \in 0..(g - 1), y \in 0..(m - 1) : x * m + y \in 0..(g * m - 1)
    <2> SUFFICES ASSUME NEW m \in Nat, NEW g \in Nat, NEW x \in 0..(g - 1), NEW y \in 0..(m - 1)
                 PROVE  x * m + y \in 0..(g * m - 1)
        OBVIOUS
    <2>1. x * m + m <= g * m
        BY StepUp
    <2>2. x * m \in Nat /\ g * m \in Nat
        OBVIOUS
    <2> QED BY <2>1, <2>2
<1> HIDE DEF a, c, u, v
<1>9. a \in 0..(GridRows - 1) /\ c \in 0..(GridColumns - 1)
    BY <1>3, <1>4, <1>5, <1>6
<1>10. BlockOf(p) \in 0..(GridRows * GridColumns - 1)
    BY ONLY <1>3, <1>7, <1>8, <1>9
<1>11. ThreadOf(p) \in 0..(ThreadRows * ThreadColumns - 1)
    BY ONLY <1>3, <1>4, <1>5, <1>7, <1>8
<1> QED BY <1>10, <1>11, TileFacts, GridFacts

\* The kernel that does not look at the bounds stays within them.
LEMMA OwnedInside ==
    ASSUME LaunchOK, block \in 0..(Blocks - 1), ~launch.kernel.guarded, NEW t \in GemmThreads
    PROVE  OwnElements(t) \subseteq Places2D(launch.M, launch.N)
<1> SUFFICES ASSUME NEW p \in OwnElements(t) PROVE p \in Places2D(launch.M, launch.N)
    OBVIOUS
<1>1. /\ launch.M \in Nat /\ launch.N \in Nat /\ Tile.BM \in Nat \ {0} /\ Tile.BN \in Nat \ {0}
      /\ launch.M % Tile.BM = 0 /\ launch.N % Tile.BN = 0
    BY LaunchFacts, TileFacts
<1>2. launch.M = GridRows * Tile.BM /\ launch.N = GridColumns * Tile.BN
    BY <1>1, WholeTiles DEF GridRows, GridColumns, CeilDivide
<1> DEFINE a == block \div GridColumns
           c == block % GridColumns
<1>3. /\ a \in 0..(GridRows - 1) /\ c \in 0..(GridColumns - 1)
      /\ GridRows \in Nat /\ GridColumns \in Nat
    BY BlockPlace, GridFacts
<1>4. blockRow = a * Tile.BM /\ blockCol = c * Tile.BN
    BY DEF blockRow, blockCol
<1> HIDE DEF a, c
<1>5. blockRow \in Nat /\ blockRow + Tile.BM <= launch.M
    <2>1. a \in Nat /\ a < GridRows /\ Tile.BM \in Nat
        BY <1>1, <1>3
    <2>2. a * Tile.BM + Tile.BM <= GridRows * Tile.BM
        BY ONLY <1>3, <2>1, StepUp, Zenon
    <2>3. a * Tile.BM \in Nat
        BY <2>1
    <2> QED BY <1>2, <1>4, <2>2, <2>3
<1>6. blockCol \in Nat /\ blockCol + Tile.BN <= launch.N
    <2>1. c \in Nat /\ c < GridColumns /\ Tile.BN \in Nat
        BY <1>1, <1>3
    <2>2. c * Tile.BN + Tile.BN <= GridColumns * Tile.BN
        BY ONLY <1>3, <2>1, StepUp, Zenon
    <2>3. c * Tile.BN \in Nat
        BY <2>1
    <2> QED BY <1>2, <1>4, <2>2, <2>3
<1>7. /\ p[1] \in Nat /\ p[2] \in Nat /\ p = <<p[1], p[2]>>
      /\ p[1] - blockRow \in 0..(Tile.BM - 1) /\ p[2] - blockCol \in 0..(Tile.BN - 1)
    BY OwnerIs
<1>8. p[1] \in 0..(launch.M - 1) /\ p[2] \in 0..(launch.N - 1)
    BY <1>1, <1>5, <1>6, <1>7
<1> QED BY <1>7, <1>8 DEF Places2D

\* The threads' shares are the whole tile.
LEMMA ShareCovers ==
    ASSUME LaunchOK, NEW rows \in Nat, NEW cols \in Nat, NEW p \in Places2D(rows, cols)
    PROVE  \E t \in GemmThreads : p \in Share(t, rows, cols)
<1>1. p[1] \in Nat /\ p[2] \in Nat /\ Tile.VEC \in Nat \ {0} /\ NumThreads(Tile) \in Nat \ {0}
    BY TileFacts DEF Places2D
<1>2. p[1] * cols + p[2] \in Nat
    BY <1>1
<1> DEFINE e == p[1] * cols + p[2]
           w == e \div Tile.VEC
           t == w % NumThreads(Tile)
<1>3. w \in Nat
    <2> HIDE DEF e
    <2>1. e \in Nat
        BY <1>2 DEF e
    <2> QED BY <1>1, <2>1, DivMod
<1>4. t \in 0..(NumThreads(Tile) - 1)
    <2> HIDE DEF w
    <2> QED BY <1>1, <1>3, DivMod
<1>5. t \in GemmThreads
    BY <1>4 DEF GemmThreads
<1> QED BY <1>5 DEF Share

LEMMA ZeroLeaves == ASSUME NEW m \in Nat \ {0} PROVE 0 % m = 0
<1>1. 0 \in Nat /\ 0 \in 0..(m - 1)
    OBVIOUS
<1>2. (0 * m + 0) % m = 0
    BY ONLY <1>1, Digits, m \in Nat \ {0}, Zenon
<1>3. 0 * m + 0 = 0
    OBVIOUS
<1> QED BY <1>2, <1>3

\* The vectorized kernel's last tile ends with the matrices.
LEMMA TileEnds ==
    ASSUME NEW m \in Nat \ {0}, NEW n \in Nat, NEW x \in Nat, x % m = 0
    PROVE  /\ (x + m) % m = 0
           /\ n % m = 0 /\ x < n => x + m <= n
<1> DEFINE q == x \div m
           r == n \div m
<1>1. x = q * m /\ q \in Nat
    BY WholeTiles
<1>2. (x + m) % m = 0
    <2> HIDE DEF q
    <2>1. q + 1 \in Nat /\ 0 \in 0..(m - 1)
        BY <1>1
    <2>2. ((q + 1) * m + 0) % m = 0
        BY ONLY <2>1, Digits, m \in Nat \ {0}, Zenon
    <2>3. (q + 1) * m + 0 = x + m
        BY <1>1
    <2> QED BY <2>2, <2>3
<1>3. ASSUME n % m = 0, x < n PROVE x + m <= n
    <2>1. n = r * m /\ r \in Nat
        BY <1>3, WholeTiles
    <2> HIDE DEF q, r
    <2>2. q < r
        <3> SUFFICES ASSUME ~(q < r) PROVE FALSE
            OBVIOUS
        <3>1. CASE q = r
            BY <1>1, <1>3, <2>1, <3>1
        <3>2. CASE r < q
            <4>1. r * m + m <= q * m
                BY <1>1, <2>1, <3>2, StepUp
            <4> QED BY <1>1, <1>3, <2>1, <4>1
        <3> QED BY <1>1, <2>1, <3>1, <3>2
    <2>3. q * m + m <= r * m
        BY <1>1, <2>1, <2>2, StepUp
    <2> QED BY <1>1, <2>1, <2>3
<1> QED BY <1>2, <1>3

\* What only the launch decides.
LEMMA SameLaunch ==
    ASSUME launch' = launch
    PROVE  /\ Tile' = Tile /\ GemmThreads' = GemmThreads /\ Blocks' = Blocks
           /\ GridColumns' = GridColumns /\ GridRows' = GridRows /\ (LaunchOK' <=> LaunchOK)
           /\ \A t, rows, cols : Share(t, rows, cols)' = Share(t, rows, cols)
           /\ \A p : BlockOf(p)' = BlockOf(p) /\ ThreadOf(p)' = ThreadOf(p)
           /\ \A sum, n, r, c : IsPartialSum(sum, n, r, c)' <=> IsPartialSum(sum, n, r, c)
           /\ \A e, r, c : IsProduct(e, r, c)' <=> IsProduct(e, r, c)
<1>1. Tile' = Tile /\ (LaunchOK' <=> LaunchOK)
    BY DEF Tile, LaunchOK
<1>2. GemmThreads' = GemmThreads /\ GridColumns' = GridColumns /\ GridRows' = GridRows
    BY <1>1 DEF GemmThreads, GridColumns, GridRows
<1>3. Blocks' = Blocks
    BY <1>1, <1>2 DEF Blocks
<1>4. \A t, rows, cols : Share(t, rows, cols)' = Share(t, rows, cols)
    BY <1>1 DEF Share
<1>5. \A p : BlockOf(p)' = BlockOf(p) /\ ThreadOf(p)' = ThreadOf(p)
    BY <1>1, <1>2 DEF BlockOf, ThreadOf
<1>6. \A sum, n, r, c : IsPartialSum(sum, n, r, c)' <=> IsPartialSum(sum, n, r, c)
    BY DEF IsPartialSum
<1>7. \A e, r, c : IsProduct(e, r, c)' <=> IsProduct(e, r, c)
    BY DEF IsProduct, IsSum
<1> QED BY <1>1, <1>2, <1>3, <1>4, <1>5, <1>6, <1>7

LEMMA SameBlock ==
    ASSUME launch' = launch, block' = block
    PROVE  /\ blockRow' = blockRow /\ blockCol' = blockCol
           /\ \A t : OwnElements(t)' = OwnElements(t)
           /\ \A p, k : ElementOfA(p, k)' = ElementOfA(p, k) /\ ElementOfB(p, k)' = ElementOfB(p, k)
<1>1. Tile' = Tile /\ GridColumns' = GridColumns
    BY SameLaunch
<1>2. blockRow' = blockRow /\ blockCol' = blockCol
    BY <1>1 DEF blockRow, blockCol
<1>3. \A t : OwnElements(t)' = OwnElements(t)
    BY <1>1, <1>2 DEF OwnElements
<1>4. \A p, k : ElementOfA(p, k)' = ElementOfA(p, k) /\ ElementOfB(p, k)' = ElementOfB(p, k)
    BY <1>2 DEF ElementOfA, ElementOfB, Element
<1> QED BY <1>2, <1>3, <1>4

LEMMA Concat ==
    ASSUME NEW n \in Nat, NEW m \in Nat, NEW a, NEW b,
           a = [k \in 1..n |-> a[k]], b = [k \in 1..m |-> b[k]]
    PROVE  /\ a \o b = [k \in 1..(n + m) |-> IF k <= n THEN a[k] ELSE b[k - n]]
           /\ Len(a \o b) = n + m
<1> DEFINE S == {a[k] : k \in 1..n} \cup {b[k] : k \in 1..m}
<1>1. a \in Seq(S) /\ b \in Seq(S)
    <2>1. (\A k \in 1..n : a[k] \in S) /\ (\A k \in 1..m : b[k] \in S)
        OBVIOUS
    <2> HIDE DEF S
    <2>2. a \in [1..n -> S] /\ b \in [1..m -> S]
        BY <2>1
    <2> QED BY <2>2
<1>2. a \in Seq(S) /\ b \in Seq(S) /\ DOMAIN a = 1..n /\ DOMAIN b = 1..m
    BY <1>1
<1> HIDE DEF S
<1>3. Len(a) = n /\ Len(b) = m
    BY <1>2
<1>4. /\ a \o b \in Seq(S) /\ Len(a \o b) = Len(a) + Len(b)
      /\ \A k \in 1..(Len(a) + Len(b)) :
            (a \o b)[k] = IF k <= Len(a) THEN a[k] ELSE b[k - Len(a)]
    BY ONLY <1>2, ConcatProperties, Zenon
<1> DEFINE s2 == a \o b
<1>5. /\ s2 \in Seq(S) /\ Len(s2) = n + m
      /\ \A k \in 1..(n + m) : s2[k] = IF k <= n THEN a[k] ELSE b[k - n]
    BY <1>3, <1>4
<1> HIDE DEF s2
<1>6. s2 = [k \in 1..Len(s2) |-> s2[k]]
    BY <1>5
<1>7. s2 = [k \in 1..(n + m) |-> IF k <= n THEN a[k] ELSE b[k - n]]
    BY <1>5, <1>6
<1> QED BY <1>5, <1>7 DEF s2

\* A sum of the products up to n, and the next ones.
LEMMA SumGrows ==
    ASSUME NEW n \in Nat, NEW m \in Nat, NEW a, NEW b, NEW r, NEW c, IsPartialSum(a, n, r, c),
           b = [d \in 1..m |-> b[d]],
           \A d \in 1..m : IF n + d <= launch.K
                           THEN b[d] = << <<"A", r, n + d - 1>>, <<"B", n + d - 1, c>> >>
                           ELSE Zero \in {b[d][1], b[d][2]}
    PROVE  IsPartialSum(a \o b, n + m, r, c)
<1> DEFINE s2 == a \o b
<1>1. a = [k \in 1..n |-> a[k]]
    BY DEF IsPartialSum
<1>2. /\ s2 = [k \in 1..(n + m) |-> IF k <= n THEN a[k] ELSE b[k - n]]
      /\ Len(s2) = n + m
    BY <1>1, Concat
<1> HIDE DEF s2
<1>3. s2 = [k \in 1..(n + m) |-> s2[k]]
    BY <1>2
<1>4. ASSUME NEW k \in 1..(n + m)
      PROVE  IF k <= launch.K THEN s2[k] = << <<"A", r, k - 1>>, <<"B", k - 1, c>> >>
                              ELSE Zero \in {s2[k][1], s2[k][2]}
    <2>1. CASE k <= n
        <3>1. k \in 1..n /\ s2[k] = a[k]
            BY <1>2, <2>1
        <3> QED BY <3>1 DEF IsPartialSum
    <2>2. CASE ~(k <= n)
        <3>1. k - n \in 1..m /\ s2[k] = b[k - n] /\ n + (k - n) = k /\ n + (k - n) - 1 = k - 1
            BY <1>2, <2>2
        <3> QED BY <3>1
    <2> QED BY <2>1, <2>2
<1>5. IsPartialSum(s2, n + m, r, c)
    BY <1>2, <1>3, <1>4 DEF IsPartialSum
<1> QED BY <1>5 DEF s2

LEMMA GemmInitOK == GemmInit => GemmInv
<1> SUFFICES ASSUME GemmInit PROVE GemmOK
    BY DEF GemmInv
<1>1. LaunchOK
    BY DEF GemmInit, LaunchOK
<1>2. GemmType
    <2>1. GridRows \in Nat /\ GridColumns \in Nat \ {0} /\ Blocks = GridRows * GridColumns
        BY <1>1, GridFacts
    <2>2. GridRows # 0
        <3>1. 0 \in 0..(launch.M - 1) /\ 0 \div Tile.BM \in Nat
            <4>1. launch.M \in Nat \ {0} /\ Tile.BM \in Nat \ {0}
                BY <1>1, LaunchFacts, TileFacts
            <4> QED BY <4>1, DivMod
        <3>2. 0 \div Tile.BM < GridRows
            BY <1>1, <3>1, GridFacts
        <3> QED BY <2>1, <3>1, <3>2
    <2>3. \A a, b \in Nat \ {0} : a * b \in Nat \ {0}
        OBVIOUS
    <2>4. 0 \in 0..(Blocks - 1)
        <3>1. Blocks \in Nat \ {0}
            BY <2>1, <2>2, <2>3
        <3> QED BY <3>1
    <2>5. \A t \in GemmThreads : gemm_pc[t] \in GemmPlaces
        BY DEF GemmInit, GemmPlaces
    <2> QED BY <1>1, <2>4, <2>5 DEF GemmType, GemmInit
<1>3. \A t \in GemmThreads : gemm_pc[t] = "load" /\ bkIdx[t] = 0 /\ Stage(t) = 1 /\ Added(t) = 0
    BY DEF GemmInit, Stage, Added
<1>4. GemmTogether
    <2>1. launch.K \in Nat \ {0} /\ Tile.BK \in Nat \ {0}
        BY <1>1, LaunchFacts, TileFacts
    <2>2. 0 % Tile.BK = 0
        BY <2>1, ZeroLeaves
    <2> QED BY <1>3, <2>1, <2>2 DEF GemmTogether
<1>5. TilesInv /\ AccInv
    BY <1>3 DEF TilesInv, AccInv
<1>6. StoredInv
    <2> SUFFICES ASSUME NEW p \in DOMAIN C PROVE ~IsStored(p) /\ C[p] = Old
        BY DEF StoredInv
    <2>1. p \in Places2D(launch.M, launch.N) /\ C[p] = Old
        BY DEF GemmInit
    <2>2. BlockOf(p) \in 0..(Blocks - 1) /\ ThreadOf(p) \in GemmThreads
        BY <1>1, <2>1, HasOwner
    <2>3. block = 0
        BY DEF GemmInit
    <2> QED BY <1>3, <2>1, <2>2, <2>3 DEF IsStored
<1> QED BY <1>2, <1>4, <1>5, <1>6 DEF GemmOK

\* A step of threads at their places that stores nothing in C keeps what is stored.
LEMMA StoredKept ==
    ASSUME GemmOK, UNCHANGED <<launch, block, C>>,
           \A t \in GemmThreads : gemm_pc'[t] = "stored" <=> gemm_pc[t] = "stored"
    PROVE  StoredInv'
<1> SUFFICES ASSUME NEW p \in DOMAIN C PROVE (IF IsStored(p) THEN IsProduct(C[p], p[1], p[2]) ELSE C[p] = Old)'
    BY DEF StoredInv
<1>1. ThreadOf(p) \in GemmThreads
    BY HasOwner DEF GemmOK, GemmType
<1>2. IsStored(p)' <=> IsStored(p)
    BY <1>1, SameLaunch DEF IsStored
<1>3. IsProduct(C[p], p[1], p[2])' <=> IsProduct(C[p], p[1], p[2])
    BY SameLaunch
<1> QED BY <1>2, <1>3 DEF GemmOK, StoredInv

LEMMA LoadTilesKeeps ==
    ASSUME GemmOK, NEW t \in GemmThreads, LoadTiles(t)
    PROVE  GemmOK'
<1>1. /\ UNCHANGED <<launch, block, bkIdx, acc, C>> /\ gemm_pc[t] = "load"
      /\ gemm_pc' = [gemm_pc EXCEPT ![t] = "loaded"]
    BY DEF LoadTiles
<1>2. GemmType /\ GemmTogether /\ TilesInv /\ AccInv
    BY DEF GemmOK
<1>3. /\ Tile' = Tile /\ GemmThreads' = GemmThreads /\ Blocks' = Blocks /\ (LaunchOK' <=> LaunchOK)
      /\ \A u, rows, cols : Share(u, rows, cols)' = Share(u, rows, cols)
      /\ \A u : OwnElements(u)' = OwnElements(u)
      /\ \A p, k : ElementOfA(p, k)' = ElementOfA(p, k) /\ ElementOfB(p, k)' = ElementOfB(p, k)
      /\ \A sum, n, r, c : IsPartialSum(sum, n, r, c)' <=> IsPartialSum(sum, n, r, c)
    BY <1>1, SameLaunch, SameBlock
<1>4. \A u \in GemmThreads : gemm_pc'[u] = IF u = t THEN "loaded" ELSE gemm_pc[u]
    BY <1>1, <1>2 DEF GemmType
<1>5. \A u \in GemmThreads : Stage(u)' = Stage(u) /\ Added(u)' = Added(u)
    BY <1>1, <1>3, <1>4 DEF Stage, Added
<1>6. GemmType'
    BY <1>1, <1>2, <1>3 DEF GemmType, GemmPlaces, LoadTiles
<1>7. GemmTogether'
    BY <1>1, <1>2, <1>3, <1>5 DEF GemmTogether
<1>8. /\ \A p \in DOMAIN sA : sA'[p] = IF p \in Share(t, Tile.BM, Tile.BK) THEN ElementOfA(p, bkIdx[t]) ELSE sA[p]
      /\ \A p \in DOMAIN sB : sB'[p] = IF p \in Share(t, Tile.BK, Tile.BN) THEN ElementOfB(p, bkIdx[t]) ELSE sB[p]
    BY DEF LoadTiles, ElementOfA, ElementOfB
<1>9. TilesInv'
    <2> SUFFICES ASSUME NEW u \in GemmThreads
                 PROVE  /\ gemm_pc'[u] = "loaded" =>
                              /\ \A p \in Share(u, Tile.BM, Tile.BK) : sA'[p] = ElementOfA(p, bkIdx[u])
                              /\ \A p \in Share(u, Tile.BK, Tile.BN) : sB'[p] = ElementOfB(p, bkIdx[u])
                        /\ Stage(u)' # 2
        BY <1>1, <1>3 DEF TilesInv
    <2>1. Stage(u)' = 1 /\ bkIdx[u] = bkIdx[t]
        <3>1. Stage(t) = 1
            BY <1>1 DEF Stage
        <3> QED BY <1>2, <1>5, <3>1 DEF GemmTogether
    <2>2. /\ \A p \in Share(u, Tile.BM, Tile.BK) : p \in DOMAIN sA
          /\ \A p \in Share(u, Tile.BK, Tile.BN) : p \in DOMAIN sB
        BY <1>2 DEF GemmType, Share
    <2>3. gemm_pc'[u] = "loaded" => u = t \/ gemm_pc[u] = "loaded"
        BY <1>4
    <2>4. CASE u = t
        BY <1>8, <2>1, <2>2, <2>4
    <2>5. CASE u # t
        BY <1>2, <1>8, <2>1, <2>2, <2>3, <2>5 DEF TilesInv
    <2> QED BY <2>4, <2>5
<1>10. AccInv'
    BY <1>1, <1>2, <1>3, <1>5 DEF AccInv
<1>11. StoredInv'
    BY <1>1, <1>4, StoredKept
<1> QED BY <1>6, <1>7, <1>9, <1>10, <1>11 DEF GemmOK

LEMMA TilesLoadedKeeps == ASSUME GemmOK, TilesLoaded PROVE GemmOK'
<1>1. /\ UNCHANGED <<launch, block, sA, sB, bkIdx, acc, C>>
      /\ \A t \in GemmThreads : gemm_pc[t] = "loaded" /\ gemm_pc'[t] = "multiply"
    BY DEF TilesLoaded
<1>2. GemmType /\ GemmTogether /\ TilesInv /\ AccInv
    BY DEF GemmOK
<1>3. /\ Tile' = Tile /\ GemmThreads' = GemmThreads /\ Blocks' = Blocks /\ (LaunchOK' <=> LaunchOK)
      /\ \A u : OwnElements(u)' = OwnElements(u)
      /\ \A p, k : ElementOfA(p, k)' = ElementOfA(p, k) /\ ElementOfB(p, k)' = ElementOfB(p, k)
      /\ \A sum, n, r, c : IsPartialSum(sum, n, r, c)' <=> IsPartialSum(sum, n, r, c)
    BY <1>1, SameLaunch, SameBlock
<1>4. \A u \in GemmThreads : Stage(u) = 1 /\ Stage(u)' = 2 /\ Added(u)' = Added(u)
    BY <1>1, <1>3 DEF Stage, Added
<1>5. GemmType'
    BY <1>1, <1>2, <1>3 DEF GemmType, GemmPlaces, TilesLoaded
<1>6. GemmTogether'
    BY <1>1, <1>2, <1>3, <1>4 DEF GemmTogether
<1>7. TilesInv'
    <2> SUFFICES ASSUME NEW t \in GemmThreads
                 PROVE  /\ \A p \in DOMAIN sA : sA[p] = ElementOfA(p, bkIdx[t])
                        /\ \A p \in DOMAIN sB : sB[p] = ElementOfB(p, bkIdx[t])
        BY <1>1, <1>3, <1>4 DEF TilesInv
    <2>1. LaunchOK /\ Tile.BM \in Nat /\ Tile.BN \in Nat /\ Tile.BK \in Nat
        BY <1>2, TileFacts DEF GemmType
    <2>2. \A u \in GemmThreads :
              /\ bkIdx[u] = bkIdx[t]
              /\ \A p \in Share(u, Tile.BM, Tile.BK) : sA[p] = ElementOfA(p, bkIdx[u])
              /\ \A p \in Share(u, Tile.BK, Tile.BN) : sB[p] = ElementOfB(p, bkIdx[u])
        BY <1>1, <1>2 DEF GemmTogether, TilesInv
    <2>3. ASSUME NEW p \in DOMAIN sA PROVE sA[p] = ElementOfA(p, bkIdx[t])
        <3>1. PICK u \in GemmThreads : p \in Share(u, Tile.BM, Tile.BK)
            BY <1>2, <2>1, ShareCovers DEF GemmType
        <3> QED BY <2>2, <3>1
    <2>4. ASSUME NEW p \in DOMAIN sB PROVE sB[p] = ElementOfB(p, bkIdx[t])
        <3>1. PICK u \in GemmThreads : p \in Share(u, Tile.BK, Tile.BN)
            BY <1>2, <2>1, ShareCovers DEF GemmType
        <3> QED BY <2>2, <3>1
    <2> QED BY <2>3, <2>4
<1>8. AccInv'
    BY <1>1, <1>2, <1>3, <1>4 DEF AccInv
<1>9. StoredInv'
    BY <1>1, StoredKept
<1> QED BY <1>5, <1>6, <1>7, <1>8, <1>9 DEF GemmOK

\* From the tiles come the products that follow those there are.
LEMMA ProductsAre ==
    ASSUME GemmOK, NEW t \in GemmThreads, Stage(t) = 2, NEW p \in OwnElements(t) \cap DOMAIN C
    PROVE  /\ Products(p) = [d \in 1..Tile.BK |-> Products(p)[d]]
           /\ \A d \in 1..Tile.BK :
                 IF bkIdx[t] + d <= launch.K
                 THEN Products(p)[d] = << <<"A", p[1], bkIdx[t] + d - 1>>, <<"B", bkIdx[t] + d - 1, p[2]>> >>
                 ELSE Zero \in {Products(p)[d][1], Products(p)[d][2]}
<1>1. GemmType /\ GemmTogether /\ TilesInv /\ LaunchOK /\ block \in 0..(Blocks - 1)
    BY DEF GemmOK, GemmType
<1>2. /\ p[1] \in Nat /\ p[2] \in Nat
      /\ p[1] - blockRow \in 0..(Tile.BM - 1) /\ p[2] - blockCol \in 0..(Tile.BN - 1)
    BY <1>1, OwnerIs
<1>3. p[1] < launch.M /\ p[2] < launch.N
    <2>1. launch.M \in Nat /\ launch.N \in Nat /\ p \in Places2D(launch.M, launch.N)
        BY <1>1, LaunchFacts DEF GemmType
    <2>2. p[1] \in 0..(launch.M - 1) /\ p[2] \in 0..(launch.N - 1)
        BY <2>1 DEF Places2D
    <2> QED BY <2>1, <2>2
<1>4. /\ launch.K \in Nat /\ Tile.BK \in Nat \ {0} /\ bkIdx[t] \in Nat /\ bkIdx[t] % Tile.BK = 0
      /\ bkIdx[t] < launch.K /\ blockRow \in Nat /\ blockCol \in Nat
    <2>1. launch.K \in Nat /\ Tile.BK \in Nat \ {0} /\ blockRow \in Nat /\ blockCol \in Nat
        BY <1>1, LaunchFacts, TileFacts, BlockPlace
    <2>2. bkIdx[t] \in Nat /\ bkIdx[t] % Tile.BK = 0 /\ ~(bkIdx[t] >= launch.K)
        BY <1>1 DEF GemmType, GemmTogether
    <2> QED BY <2>1, <2>2
<1>5. ~launch.kernel.guarded => bkIdx[t] + Tile.BK <= launch.K
    <2>1. ~launch.kernel.guarded => launch.K % Tile.BK = 0
        BY <1>1, LaunchFacts
    <2>2. launch.K % Tile.BK = 0 /\ bkIdx[t] < launch.K => bkIdx[t] + Tile.BK <= launch.K
        BY ONLY <1>4, TileEnds, Zenon
    <2> QED BY <1>4, <2>1, <2>2
<1>6. ASSUME NEW d \in 1..Tile.BK
      PROVE  /\ sA[<<p[1] - blockRow, d - 1>>] =
                    IF bkIdx[t] + d <= launch.K THEN <<"A", p[1], bkIdx[t] + d - 1>> ELSE Zero
             /\ sB[<<d - 1, p[2] - blockCol>>] =
                    IF bkIdx[t] + d <= launch.K THEN <<"B", bkIdx[t] + d - 1, p[2]>> ELSE Zero
    <2> DEFINE a == <<p[1] - blockRow, d - 1>>
               b == <<d - 1, p[2] - blockCol>>
    <2>1. d \in Nat /\ d - 1 \in 0..(Tile.BK - 1)
        BY <1>4
    <2>2. a \in DOMAIN sA /\ b \in DOMAIN sB
        BY <1>1, <1>2, <2>1 DEF GemmType, Places2D
    <2>3. sA[a] = ElementOfA(a, bkIdx[t]) /\ sB[b] = ElementOfB(b, bkIdx[t])
        BY <1>1, <2>2 DEF TilesInv
    <2>4. /\ blockRow + a[1] = p[1] /\ a[2] = d - 1 /\ b[1] = d - 1 /\ blockCol + b[2] = p[2]
          /\ bkIdx[t] + (d - 1) = bkIdx[t] + d - 1
          /\ bkIdx[t] + (d - 1) < launch.K <=> bkIdx[t] + d <= launch.K
        BY <1>2, <1>4, <2>1
    <2>5. bkIdx[t] + d <= launch.K \/ launch.kernel.guarded
        BY <1>4, <1>5, <2>1
    <2> HIDE DEF a, b
    <2>6. sA[a] = IF bkIdx[t] + d <= launch.K THEN <<"A", p[1], bkIdx[t] + d - 1>> ELSE Zero
        BY <1>3, <2>3, <2>4, <2>5 DEF ElementOfA, Element
    <2>7. sB[b] = IF bkIdx[t] + d <= launch.K THEN <<"B", bkIdx[t] + d - 1, p[2]>> ELSE Zero
        BY <1>3, <2>3, <2>4, <2>5 DEF ElementOfB, Element
    <2> QED BY <2>6, <2>7 DEF a, b
<1>7. \A d \in 1..Tile.BK : Products(p)[d] = <<sA[<<p[1] - blockRow, d - 1>>], sB[<<d - 1, p[2] - blockCol>>]>>
    BY DEF Products
<1>8. Products(p) = [d \in 1..Tile.BK |-> Products(p)[d]]
    BY DEF Products
<1>9. ASSUME NEW d \in 1..Tile.BK
      PROVE  IF bkIdx[t] + d <= launch.K
             THEN Products(p)[d] = << <<"A", p[1], bkIdx[t] + d - 1>>, <<"B", bkIdx[t] + d - 1, p[2]>> >>
             ELSE Zero \in {Products(p)[d][1], Products(p)[d][2]}
    <2> DEFINE x == Products(p)[d]
               a == sA[<<p[1] - blockRow, d - 1>>]
               b == sB[<<d - 1, p[2] - blockCol>>]
    <2>1. x = <<a, b>>
        BY <1>7
    <2>2. /\ bkIdx[t] + d <= launch.K =>
                a = <<"A", p[1], bkIdx[t] + d - 1>> /\ b = <<"B", bkIdx[t] + d - 1, p[2]>>
          /\ ~(bkIdx[t] + d <= launch.K) => a = Zero
        BY <1>6
    <2> HIDE DEF x, a, b
    <2>3. x[1] = a
        BY <2>1
    <2>4. IF bkIdx[t] + d <= launch.K
          THEN x = << <<"A", p[1], bkIdx[t] + d - 1>>, <<"B", bkIdx[t] + d - 1, p[2]>> >>
          ELSE Zero \in {x[1], x[2]}
        BY <2>1, <2>2, <2>3
    <2> QED BY <2>4 DEF x
<1> QED BY <1>8, <1>9

LEMMA MultiplyKeeps ==
    ASSUME GemmOK, NEW t \in GemmThreads, Multiply(t)
    PROVE  GemmOK'
<1>1. /\ UNCHANGED <<launch, block, sA, sB, bkIdx, C>> /\ gemm_pc[t] = "multiply"
      /\ gemm_pc' = [gemm_pc EXCEPT ![t] = "multiplied"]
    BY DEF Multiply
<1>2. GemmType /\ GemmTogether /\ TilesInv /\ AccInv
    BY DEF GemmOK
<1>3. /\ Tile' = Tile /\ GemmThreads' = GemmThreads /\ Blocks' = Blocks /\ (LaunchOK' <=> LaunchOK)
      /\ \A u, rows, cols : Share(u, rows, cols)' = Share(u, rows, cols)
      /\ \A u : OwnElements(u)' = OwnElements(u)
      /\ \A p, k : ElementOfA(p, k)' = ElementOfA(p, k) /\ ElementOfB(p, k)' = ElementOfB(p, k)
      /\ \A sum, n, r, c : IsPartialSum(sum, n, r, c)' <=> IsPartialSum(sum, n, r, c)
    BY <1>1, SameLaunch, SameBlock
<1>4. \A u \in GemmThreads : gemm_pc'[u] = IF u = t THEN "multiplied" ELSE gemm_pc[u]
    BY <1>1, <1>2 DEF GemmType
<1>5. \A u \in GemmThreads : Stage(u)' = Stage(u)
    BY <1>1, <1>4 DEF Stage
<1>6. \A u \in GemmThreads : u # t => Added(u)' = Added(u) /\ acc'[u] = acc[u]
    BY <1>1, <1>2, <1>3, <1>4 DEF Added, Multiply, GemmType
<1>7. GemmType'
    BY <1>1, <1>2, <1>3 DEF GemmType, GemmPlaces, Multiply
<1>8. GemmTogether'
    BY <1>1, <1>2, <1>3, <1>5 DEF GemmTogether
<1>9. TilesInv'
    BY <1>1, <1>2, <1>3, <1>4, <1>5 DEF TilesInv
<1>10. ASSUME NEW p \in OwnElements(t) \cap DOMAIN C
       PROVE  p \in DOMAIN acc'[t] /\ IsPartialSum(acc'[t][p], Added(t)', p[1], p[2])
    <2> DEFINE before == IF bkIdx[t] = 0 THEN <<>> ELSE acc[t][p]
    <2>1. acc'[t][p] = before \o Products(p) /\ p \in DOMAIN acc'[t]
        BY <1>2 DEF Multiply, GemmType
    <2>2. bkIdx[t] \in Nat /\ Tile.BK \in Nat /\ Added(t) = bkIdx[t] /\ Added(t)' = bkIdx[t] + Tile.BK
        BY <1>1, <1>2, <1>3, <1>4, TileFacts DEF GemmType, Added
    <2>3. IsPartialSum(before, bkIdx[t], p[1], p[2])
        <3>1. CASE bkIdx[t] = 0
            <4>1. Len(<<>>) = 0 /\ <<>> = [k \in 1..0 |-> <<>>[k]]
                OBVIOUS
            <4> QED BY <3>1, <4>1 DEF IsPartialSum
        <3>2. CASE bkIdx[t] # 0
            BY <1>2, <2>2, <3>2 DEF AccInv
        <3> QED BY <3>1, <3>2
    <2>4. Stage(t) = 2
        BY <1>1 DEF Stage
    <2> HIDE DEF before
    <2>5. IsPartialSum(before \o Products(p), bkIdx[t] + Tile.BK, p[1], p[2])
        BY <2>2, <2>3, <2>4, ProductsAre, SumGrows
    <2> QED BY <2>1, <2>2, <2>5
<1>11. AccInv'
    BY <1>1, <1>2, <1>3, <1>6, <1>10 DEF AccInv
<1>12. StoredInv'
    BY <1>1, <1>4, StoredKept
<1> QED BY <1>7, <1>8, <1>9, <1>11, <1>12 DEF GemmOK

LEMMA NextTilesKeeps == ASSUME GemmOK, NextTiles PROVE GemmOK'
<1>1. /\ UNCHANGED <<launch, block, sA, sB, acc, C>>
      /\ gemm_pc' = [t \in GemmThreads |-> After(t)]
      /\ bkIdx' = [t \in GemmThreads |-> bkIdx[t] + Tile.BK]
      /\ \A t \in GemmThreads : gemm_pc[t] = "multiplied"
    BY DEF NextTiles
<1>2. GemmType /\ GemmTogether /\ AccInv
    BY DEF GemmOK
<1>3. /\ Tile' = Tile /\ GemmThreads' = GemmThreads /\ Blocks' = Blocks /\ (LaunchOK' <=> LaunchOK)
      /\ \A u : OwnElements(u)' = OwnElements(u)
      /\ \A sum, n, r, c : IsPartialSum(sum, n, r, c)' <=> IsPartialSum(sum, n, r, c)
    BY <1>1, SameLaunch, SameBlock
<1>4. launch.K \in Nat /\ Tile.BK \in Nat \ {0} /\ LaunchOK
    BY <1>2, LaunchFacts, TileFacts DEF GemmType
<1>5. \A t \in GemmThreads :
          /\ gemm_pc'[t] = IF bkIdx'[t] < launch.K THEN "load" ELSE "store"
          /\ bkIdx'[t] = bkIdx[t] + Tile.BK /\ bkIdx[t] \in Nat /\ bkIdx'[t] \in Nat
    BY <1>1, <1>2, <1>4 DEF GemmType, After
<1>6. \A t \in GemmThreads : /\ Stage(t)' = IF bkIdx'[t] < launch.K THEN 1 ELSE 3
                             /\ Added(t)' = Added(t)
    BY <1>1, <1>3, <1>5 DEF Stage, Added
<1>7. GemmType'
    <2>1. gemm_pc' \in [GemmThreads -> GemmPlaces] /\ bkIdx' \in [GemmThreads -> Nat]
        BY <1>1, <1>5 DEF GemmPlaces
    <2> QED BY <1>1, <1>2, <1>3, <2>1 DEF GemmType
<1>8. GemmTogether'
    <2>1. \A t, u \in GemmThreads : bkIdx'[t] = bkIdx'[u]
        BY <1>2, <1>5 DEF GemmTogether
    <2>2. \A t \in GemmThreads : bkIdx'[t] % Tile.BK = 0
        <3> SUFFICES ASSUME NEW t \in GemmThreads PROVE bkIdx'[t] % Tile.BK = 0
            OBVIOUS
        <3>1. bkIdx[t] \in Nat /\ bkIdx[t] % Tile.BK = 0
            BY <1>2, <1>5 DEF GemmTogether
        <3>2. (bkIdx[t] + Tile.BK) % Tile.BK = 0
            BY ONLY <1>4, <3>1, TileEnds, Zenon
        <3> QED BY <1>5, <3>2
    <2>3. \A t \in GemmThreads : Stage(t)' = 3 <=> bkIdx'[t] >= launch.K
        BY <1>4, <1>5, <1>6
    <2> QED BY <1>1, <1>3, <1>6, <2>1, <2>2, <2>3 DEF GemmTogether
<1>9. TilesInv'
    BY <1>3, <1>5, <1>6 DEF TilesInv
<1>10. AccInv'
    BY <1>1, <1>2, <1>3, <1>6 DEF AccInv
<1>11. StoredInv'
    BY <1>1, <1>5, StoredKept
<1> QED BY <1>7, <1>8, <1>9, <1>10, <1>11 DEF GemmOK

LEMMA StoreTileKeeps ==
    ASSUME GemmOK, NEW t \in GemmThreads, StoreTile(t)
    PROVE  GemmOK'
<1> DEFINE mine == OwnElements(t) \cap DOMAIN C
<1>1. /\ UNCHANGED <<launch, block, sA, sB, bkIdx, acc>> /\ gemm_pc[t] = "store"
      /\ gemm_pc' = [gemm_pc EXCEPT ![t] = "stored"]
    BY DEF StoreTile
<1>2. GemmType /\ GemmTogether /\ TilesInv /\ AccInv /\ StoredInv
    BY DEF GemmOK
<1>3. /\ Tile' = Tile /\ GemmThreads' = GemmThreads /\ Blocks' = Blocks /\ (LaunchOK' <=> LaunchOK)
      /\ \A u, rows, cols : Share(u, rows, cols)' = Share(u, rows, cols)
      /\ \A u : OwnElements(u)' = OwnElements(u)
      /\ \A p, k : ElementOfA(p, k)' = ElementOfA(p, k) /\ ElementOfB(p, k)' = ElementOfB(p, k)
      /\ \A sum, n, r, c : IsPartialSum(sum, n, r, c)' <=> IsPartialSum(sum, n, r, c)
      /\ \A e, r, c : IsProduct(e, r, c)' <=> IsProduct(e, r, c)
      /\ \A p : BlockOf(p)' = BlockOf(p) /\ ThreadOf(p)' = ThreadOf(p)
    BY <1>1, SameLaunch, SameBlock
<1>4. \A u \in GemmThreads : gemm_pc'[u] = IF u = t THEN "stored" ELSE gemm_pc[u]
    BY <1>1, <1>2 DEF GemmType
<1>5. \A u \in GemmThreads : Stage(u)' = Stage(u) /\ Added(u)' = Added(u)
    BY <1>1, <1>3, <1>4 DEF Stage, Added
<1>6. LaunchOK /\ block \in 0..(Blocks - 1) /\ DOMAIN C = Places2D(launch.M, launch.N)
    BY <1>2 DEF GemmType
<1>7. C' = [p \in DOMAIN C |->
               IF p \in mine THEN [sum |-> acc[t][p], bias |-> p[2],
                                   old |-> IF launch.beta = 0 THEN <<>> ELSE <<C[p]>>]
                             ELSE C[p]]
    <2>1. ~launch.kernel.guarded => OwnElements(t) \subseteq DOMAIN C
        BY <1>6, OwnedInside
    <2>2. (IF launch.kernel.guarded THEN OwnElements(t) \cap DOMAIN C ELSE OwnElements(t)) = mine
        BY <2>1
    <2>3. mine \cup DOMAIN C = DOMAIN C
        OBVIOUS
    <2> HIDE DEF mine
    <2> QED BY <2>2, <2>3 DEF StoreTile
<1>8. GemmType'
    BY <1>1, <1>2, <1>3, <1>7 DEF GemmType, GemmPlaces
<1>9. GemmTogether'
    BY <1>1, <1>2, <1>3, <1>5 DEF GemmTogether
<1>10. TilesInv'
    BY <1>1, <1>2, <1>3, <1>4, <1>5 DEF TilesInv
<1>11. AccInv'
    <2>1. DOMAIN C' = DOMAIN C
        BY <1>7
    <2> QED BY <1>1, <1>2, <1>3, <1>5, <2>1 DEF AccInv
<1>12. StoredInv'
    <2> SUFFICES ASSUME NEW p \in DOMAIN C
                 PROVE  IF IsStored(p)' THEN IsProduct(C'[p], p[1], p[2]) ELSE C'[p] = Old
        BY <1>3, <1>7 DEF StoredInv
    <2>1. BlockOf(p) \in 0..(Blocks - 1) /\ ThreadOf(p) \in GemmThreads
        BY <1>6, HasOwner
    <2>2. CASE p \in mine
        <3>1. BlockOf(p) = block /\ ThreadOf(p) = t
            BY <1>6, <2>2, OwnerIs
        <3>2. IsStored(p)'
            BY <1>1, <1>3, <1>4, <3>1 DEF IsStored
        <3>3. ~IsStored(p)
            BY <1>1, <1>6, <3>1 DEF IsStored
        <3>4. C[p] = Old
            BY <1>2, <3>3 DEF StoredInv
        <3>5. launch.K \in Nat \ {0} /\ bkIdx[t] \in Nat /\ bkIdx[t] >= launch.K /\ Added(t) = bkIdx[t]
            <4>1. Stage(t) = 3 /\ Added(t) = bkIdx[t]
                BY <1>1 DEF Stage, Added
            <4> QED BY <1>2, <1>6, <4>1, LaunchFacts DEF GemmTogether, GemmType
        <3>6. IsPartialSum(acc[t][p], bkIdx[t], p[1], p[2])
            BY <1>2, <2>2, <3>5 DEF AccInv
        <3>7. IsSum(acc[t][p], p[1], p[2])
            BY <3>5, <3>6 DEF IsPartialSum, IsSum
        <3>8. /\ C'[p].sum = acc[t][p] /\ C'[p].bias = p[2]
              /\ C'[p].old = IF launch.beta = 0 THEN <<>> ELSE <<Old>>
            BY <1>7, <2>2, <3>4
        <3> QED BY <3>2, <3>7, <3>8 DEF IsProduct
    <2>3. CASE p \notin mine
        <3>1. C'[p] = C[p]
            BY <1>7, <2>3
        <3>2. ~(BlockOf(p) = block /\ ThreadOf(p) = t)
            BY <1>6, <2>3, IsOwner
        <3>3. IsStored(p)' <=> IsStored(p)
            BY <1>1, <1>3, <1>4, <2>1, <3>2 DEF IsStored
        <3> QED BY <1>2, <3>1, <3>3 DEF StoredInv
    <2> QED BY <2>2, <2>3
<1> QED BY <1>8, <1>9, <1>10, <1>11, <1>12 DEF GemmOK

LEMMA NextBlockKeeps == ASSUME GemmOK, NextBlock PROVE GemmOK'
<1>1. /\ UNCHANGED <<launch, C>> /\ block' = block + 1 /\ block + 1 < Blocks
      /\ \A t \in GemmThreads : gemm_pc[t] = "stored"
      /\ gemm_pc' = [t \in GemmThreads |-> "load"] /\ bkIdx' = [t \in GemmThreads |-> 0]
    BY DEF NextBlock
<1>2. GemmType /\ StoredInv
    BY DEF GemmOK
<1>3. /\ Tile' = Tile /\ GemmThreads' = GemmThreads /\ Blocks' = Blocks /\ (LaunchOK' <=> LaunchOK)
      /\ \A e, r, c : IsProduct(e, r, c)' <=> IsProduct(e, r, c)
      /\ \A p : BlockOf(p)' = BlockOf(p) /\ ThreadOf(p)' = ThreadOf(p)
    BY <1>1, SameLaunch
<1>4. LaunchOK /\ block \in Nat /\ Blocks \in Nat
    <2>1. GridRows \in Nat /\ GridColumns \in Nat /\ Blocks = GridRows * GridColumns
        BY <1>2, GridFacts DEF GemmType
    <2>2. \A a, b \in Nat : a * b \in Nat
        OBVIOUS
    <2> QED BY <1>2, <2>1, <2>2 DEF GemmType
<1>5. \A t \in GemmThreads : /\ gemm_pc'[t] = "load" /\ bkIdx'[t] = 0
                             /\ Stage(t)' = 1 /\ Added(t)' = 0
    BY <1>1, <1>3 DEF Stage, Added
<1>6. GemmType'
    <2>1. block' \in 0..(Blocks - 1)
        BY <1>1, <1>4
    <2>2. gemm_pc' \in [GemmThreads -> GemmPlaces] /\ bkIdx' \in [GemmThreads -> Nat]
        BY <1>1 DEF GemmPlaces
    <2>3. DOMAIN sA' = DOMAIN sA /\ DOMAIN sB' = DOMAIN sB /\ DOMAIN acc' = GemmThreads
        BY DEF NextBlock
    <2> QED BY <1>1, <1>2, <1>3, <2>1, <2>2, <2>3 DEF GemmType
<1>7. GemmTogether'
    <2>1. launch.K \in Nat \ {0} /\ Tile.BK \in Nat \ {0}
        BY <1>4, LaunchFacts, TileFacts
    <2>2. 0 % Tile.BK = 0
        BY <2>1, ZeroLeaves
    <2> QED BY <1>1, <1>3, <1>5, <2>1, <2>2 DEF GemmTogether
<1>8. TilesInv' /\ AccInv'
    BY <1>3, <1>5 DEF TilesInv, AccInv
<1>9. StoredInv'
    <2> SUFFICES ASSUME NEW p \in DOMAIN C
                 PROVE  IF IsStored(p)' THEN IsProduct(C[p], p[1], p[2]) ELSE C[p] = Old
        BY <1>1, <1>3 DEF StoredInv
    <2>1. BlockOf(p) \in 0..(Blocks - 1) /\ ThreadOf(p) \in GemmThreads
        BY <1>2, HasOwner DEF GemmType
    <2>2. IsStored(p)' <=> BlockOf(p) < block + 1
        BY <1>1, <1>3, <1>5, <2>1 DEF IsStored
    <2>3. IsStored(p) <=> BlockOf(p) < block \/ BlockOf(p) = block
        BY <1>1, <2>1 DEF IsStored
    <2>4. IsStored(p)' <=> IsStored(p)
        BY <1>4, <2>1, <2>2, <2>3
    <2> QED BY <1>2, <2>4 DEF StoredInv
<1> QED BY <1>6, <1>7, <1>8, <1>9 DEF GemmOK

LEMMA GemmKeeps == ASSUME GemmInv, [Next]_vars PROVE GemmInv'
<1> SUFFICES ASSUME launch' # <<>> PROVE GemmOK'
    BY DEF GemmInv
<1>1. CASE UNCHANGED gemm_vars
    <2>1. UNCHANGED <<launch, block, sA, sB, gemm_pc, bkIdx, acc, C>> /\ GemmOK
        BY <1>1 DEF GemmInv, gemm_vars
    <2>2. /\ Tile' = Tile /\ GemmThreads' = GemmThreads /\ Blocks' = Blocks /\ (LaunchOK' <=> LaunchOK)
          /\ \A u, rows, cols : Share(u, rows, cols)' = Share(u, rows, cols)
          /\ \A u : OwnElements(u)' = OwnElements(u)
          /\ \A p, k : ElementOfA(p, k)' = ElementOfA(p, k) /\ ElementOfB(p, k)' = ElementOfB(p, k)
          /\ \A sum, n, r, c : IsPartialSum(sum, n, r, c)' <=> IsPartialSum(sum, n, r, c)
        BY <2>1, SameLaunch, SameBlock
    <2>3. \A u : Stage(u)' = Stage(u) /\ Added(u)' = Added(u)
        BY <2>1, <2>2 DEF Stage, Added
    <2>4. GemmType' /\ GemmTogether'
        BY <2>1, <2>2, <2>3 DEF GemmOK, GemmType, GemmTogether
    <2>5. TilesInv' /\ AccInv'
        BY <2>1, <2>2, <2>3 DEF GemmOK, TilesInv, AccInv
    <2>6. StoredInv'
        BY <2>1, StoredKept
    <2> QED BY <2>4, <2>5, <2>6 DEF GemmOK
<1>2. CASE launch # <<>> /\ GemmNext
    <2>1. GemmOK
        BY <1>2 DEF GemmInv
    <2>2. CASE TilesLoaded \/ NextTiles \/ NextBlock
        BY <2>1, <2>2, TilesLoadedKeeps, NextTilesKeeps, NextBlockKeeps
    <2>3. CASE \E t \in GemmThreads : LoadTiles(t) \/ Multiply(t) \/ StoreTile(t)
        BY <2>1, <2>3, LoadTilesKeeps, MultiplyKeeps, StoreTileKeeps
    <2> QED BY <1>2, <2>2, <2>3 DEF GemmNext
<1> QED BY <1>1, <1>2 DEF Next, vars

\* Whatever the tiles and the shape of the matrices, whichever kernel is launched,
\* with sums of any length and in every order of the threads: what is stored in C
\* is every product of its row and column once and in order, no element is stored
\* twice and none outside C, and at the end all of C is stored (gemm.cu).
THEOREM GemmAlwaysTheProduct == Spec => []GemmIsTheProduct
<1>1. Init => GemmInv
    <2>1. GemmIdle => GemmInv
        BY DEF GemmIdle, GemmInv
    <2> QED BY <2>1, GemmInitOK DEF Init
<1>2. GemmInv => GemmIsTheProduct
    <2> SUFFICES ASSUME GemmOK
                 PROVE  /\ DOMAIN C = Places2D(launch.M, launch.N)
                        /\ \A p \in DOMAIN C : IsProduct(C[p], p[1], p[2]) \/ (C[p] = Old /\ ~GemmDone)
        BY DEF GemmInv, GemmIsTheProduct
    <2>1. GemmType /\ StoredInv
        BY DEF GemmOK
    <2> SUFFICES ASSUME NEW p \in DOMAIN C, ~IsStored(p) PROVE ~GemmDone
        BY <2>1 DEF GemmType, StoredInv
    <2>2. BlockOf(p) \in 0..(Blocks - 1) /\ ThreadOf(p) \in GemmThreads /\ block \in 0..(Blocks - 1)
        BY <2>1, HasOwner DEF GemmType
    <2>3. CASE BlockOf(p) = block
        BY <2>2, <2>3 DEF IsStored, GemmDone
    <2>4. CASE BlockOf(p) > block
        <3>1. block + 1 # Blocks
            BY <2>2, <2>4
        <3> QED BY <3>1 DEF GemmDone
    <2> QED BY <2>2, <2>3, <2>4 DEF IsStored
<1> QED BY <1>1, <1>2, GemmKeeps, PTL DEF Spec
=============================================================================
