-------------------------- MODULE SchedulerProofs --------------------------
(***************************************************************************)
(* Proofs about Scheduler for any finite number of requests, all prompt    *)
(* lengths, pool, block and batch sizes, and every interleaving with the   *)
(* event loop and stop().                                                  *)
(***************************************************************************)
EXTENDS Scheduler, SequenceTheorems, FiniteSetTheorems, TLAPS

(* Moving requests between queues: no request twice, and none lost. *)

QueuesOK(qs) ==
    /\ qs \in [QueueNames -> Seq(Requests)]
    /\ \A q \in QueueNames : IsInjective(qs[q])
    /\ \A q1, q2 \in QueueNames : q1 # q2 => ToSet(qs[q1]) \cap ToSet(qs[q2]) = {}

\* A sequence without its i-th element.
LEMMA RemoveAtOK ==
    ASSUME NEW S, NEW s \in Seq(S), IsInjective(s), NEW i \in 1..Len(s)
    PROVE  /\ RemoveAt(s, i) \in Seq(S)
           /\ Len(RemoveAt(s, i)) = Len(s) - 1
           /\ \A j \in 1..(Len(s) - 1) : RemoveAt(s, i)[j] = IF j < i THEN s[j] ELSE s[j + 1]
           /\ IsInjective(RemoveAt(s, i))
           /\ ToSet(RemoveAt(s, i)) = ToSet(s) \ {s[i]}
<1> DEFINE n == Len(s)
           a == SubSeq(s, 1, i - 1)
           b == SubSeq(s, i + 1, n)
           t == RemoveAt(s, i)
<1>1. n \in Nat /\ DOMAIN s = 1..n /\ \A j \in 1..n : s[j] \in S
    OBVIOUS
<1>2. a \in Seq(S) /\ Len(a) = i - 1 /\ \A j \in 1..(i - 1) : a[j] = s[j]
    <2>1. \A j \in 1..(i - 1) : s[j] \in S
        BY <1>1
    <2> HIDE DEF n
    <2> QED BY <1>1, <2>1, SubSeqProperties
<1>3. b \in Seq(S) /\ Len(b) = n - i /\ \A j \in 1..(n - i) : b[j] = s[j + i]
    <2>1. \A j \in (i + 1)..n : s[j] \in S
        BY <1>1
    <2> HIDE DEF n
    <2> QED BY <1>1, <2>1, SubSeqProperties
<1>4. t = a \o b
    BY DEF RemoveAt
<1> HIDE DEF a, b, n, t
<1>5. t \in Seq(S) /\ Len(t) = n - 1
    <2>1. t \in Seq(S) /\ Len(t) = Len(a) + Len(b)
        BY <1>2, <1>3, <1>4, ConcatProperties
    <2>2. (i - 1) + (n - i) = n - 1
        BY <1>1 DEF n
    <2> QED BY <1>2, <1>3, <2>1, <2>2
<1>6. \A j \in 1..(n - 1) : t[j] = IF j < i THEN s[j] ELSE s[j + 1]
    <2> TAKE j \in 1..(n - 1)
    <2>1. t[j] = IF j <= i - 1 THEN a[j] ELSE b[j - (i - 1)]
        BY <1>1, <1>2, <1>3, <1>4, ConcatProperties DEF n
    <2>2. CASE j < i
        BY <1>1, <1>2, <2>1, <2>2 DEF n
    <2>3. CASE j >= i
        <3>1. j - (i - 1) \in 1..(n - i) /\ j - (i - 1) + i = j + 1
            BY <1>1, <2>3 DEF n
        <3>2. t[j] = b[j - (i - 1)]
            BY <1>1, <2>1, <2>3 DEF n
        <3> QED BY <1>1, <1>3, <2>3, <3>1, <3>2 DEF n
    <2> QED BY <1>1, <2>2, <2>3 DEF n
<1>7. DOMAIN t = 1..(n - 1)
    BY <1>1, <1>5
<1>8. \A j, k \in 1..n : s[j] = s[k] => j = k
    BY <1>1 DEF IsInjective
<1>9. IsInjective(t)
    <2> SUFFICES ASSUME NEW j \in 1..(n - 1), NEW k \in 1..(n - 1), t[j] = t[k] PROVE j = k
        BY <1>7 DEF IsInjective
    <2> QED BY <1>1, <1>6, <1>8 DEF n
<1>10. ToSet(t) = ToSet(s) \ {s[i]}
    <2>1. ASSUME NEW x \in ToSet(t) PROVE x \in ToSet(s) \ {s[i]}
        <3>1. PICK j \in 1..(n - 1) : x = t[j]
            BY <1>7 DEF ToSet
        <3>2. CASE j < i
            BY <1>1, <1>6, <1>8, <3>1, <3>2 DEF ToSet, n
        <3>3. CASE j >= i
            <4>1. j + 1 \in 1..n /\ j + 1 # i /\ x = s[j + 1]
                BY <1>1, <1>6, <3>1, <3>3 DEF n
            <4> QED BY <1>1, <1>8, <4>1 DEF ToSet, n
        <3> QED BY <1>1, <3>2, <3>3 DEF n
    <2>2. ASSUME NEW x \in ToSet(s), x # s[i] PROVE x \in ToSet(t)
        <3>1. PICK j \in 1..n : x = s[j]
            BY <1>1 DEF ToSet
        <3>2. CASE j < i
            BY <1>1, <1>6, <1>7, <3>1, <3>2 DEF ToSet, n
        <3>3. CASE j > i
            <4>1. j - 1 \in 1..(n - 1) /\ t[j - 1] = s[j]
                BY <1>1, <1>6, <3>3 DEF n
            <4> QED BY <1>7, <3>1, <4>1 DEF ToSet
        <3> QED BY <1>1, <2>2, <3>1, <3>2, <3>3 DEF n
    <2> QED BY <2>1, <2>2
<1> QED BY <1>5, <1>6, <1>9, <1>10 DEF n, t

LEMMA AppendOK ==
    ASSUME NEW S, NEW s \in Seq(S), IsInjective(s), NEW x \in S, x \notin ToSet(s)
    PROVE  /\ Append(s, x) \in Seq(S) /\ Len(Append(s, x)) = Len(s) + 1
           /\ IsInjective(Append(s, x))
           /\ ToSet(Append(s, x)) = ToSet(s) \cup {x}
<1> DEFINE t == Append(s, x)
<1>1. DOMAIN s = 1..Len(s) /\ DOMAIN t = 1..(Len(s) + 1) /\ Len(s) \in Nat
    BY AppendProperties
<1>2. t[Len(s) + 1] = x /\ \A i \in 1..Len(s) : t[i] = s[i] /\ t[i] \in ToSet(s)
    BY <1>1, AppendProperties DEF ToSet
<1>3. \A i, j \in DOMAIN t : t[i] = t[j] => i = j
    <2> SUFFICES ASSUME NEW i \in 1..(Len(s) + 1), NEW j \in 1..(Len(s) + 1), t[i] = t[j] PROVE i = j
        BY <1>1
    <2> HIDE DEF t
    <2> QED BY <1>1, <1>2 DEF IsInjective
<1>4. ToSet(t) = ToSet(s) \cup {x}
    <2> HIDE DEF t
    <2>1. \A y \in ToSet(t) : y \in ToSet(s) \cup {x}
        BY <1>1, <1>2 DEF ToSet
    <2>2. \A y \in ToSet(s) \cup {x} : y \in ToSet(t)
        <3>1. x \in ToSet(t)
            BY <1>1, <1>2 DEF ToSet
        <3> QED BY <1>1, <1>2, <3>1 DEF ToSet
    <2> QED BY <2>1, <2>2
<1> QED BY <1>3, <1>4, AppendProperties DEF IsInjective

LEMMA ConcatOK ==
    ASSUME NEW S, NEW s \in Seq(S), IsInjective(s), NEW t \in Seq(S), IsInjective(t),
           ToSet(s) \cap ToSet(t) = {}
    PROVE  /\ s \o t \in Seq(S) /\ Len(s \o t) = Len(s) + Len(t)
           /\ IsInjective(s \o t)
           /\ ToSet(s \o t) = ToSet(s) \cup ToSet(t)
<1> DEFINE u == s \o t
<1>1. /\ u \in Seq(S) /\ Len(u) = Len(s) + Len(t)
      /\ Len(s) \in Nat /\ Len(t) \in Nat
      /\ DOMAIN s = 1..Len(s) /\ DOMAIN t = 1..Len(t) /\ DOMAIN u = 1..(Len(s) + Len(t))
    BY ConcatProperties
<1>2. \A i \in 1..Len(s) : u[i] = s[i] /\ u[i] \in ToSet(s)
    BY <1>1, ConcatProperties DEF ToSet
<1>3. \A i \in 1..Len(t) : u[i + Len(s)] = t[i] /\ u[i + Len(s)] \in ToSet(t)
    <2> TAKE i \in 1..Len(t)
    <2>1. i + Len(s) \in 1..(Len(s) + Len(t)) /\ ~(i + Len(s) <= Len(s)) /\ i + Len(s) - Len(s) = i
        BY <1>1
    <2>2. u[i + Len(s)] = t[i + Len(s) - Len(s)]
        BY <2>1, ConcatProperties
    <2> QED BY <1>1, <2>1, <2>2 DEF ToSet
<1>4. \A i \in 1..(Len(s) + Len(t)) :
          i \in 1..Len(s) \/ \E j \in 1..Len(t) : i = j + Len(s)
    <2> SUFFICES ASSUME NEW i \in 1..(Len(s) + Len(t)), i > Len(s)
                 PROVE  \E j \in 1..Len(t) : i = j + Len(s)
        BY <1>1
    <2>1. i - Len(s) \in 1..Len(t) /\ i = (i - Len(s)) + Len(s)
        BY <1>1
    <2> QED BY <2>1
<1> HIDE DEF u
<1>5. IsInjective(u)
    <2> SUFFICES ASSUME NEW i \in DOMAIN u, NEW j \in DOMAIN u, u[i] = u[j] PROVE i = j
        BY DEF IsInjective
    <2>1. CASE i \in 1..Len(s) /\ j \in 1..Len(s)
        BY <1>1, <1>2, <2>1 DEF IsInjective
    <2>2. CASE i \in 1..Len(s) /\ j \notin 1..Len(s)
        BY <1>1, <1>2, <1>3, <1>4, <2>2
    <2>3. CASE i \notin 1..Len(s) /\ j \in 1..Len(s)
        BY <1>1, <1>2, <1>3, <1>4, <2>3
    <2>4. CASE i \notin 1..Len(s) /\ j \notin 1..Len(s)
        <3>1. PICK k \in 1..Len(t), l \in 1..Len(t) : i = k + Len(s) /\ j = l + Len(s)
            BY <1>1, <1>4, <2>4
        <3>2. k = l
            BY <1>1, <1>3, <3>1 DEF IsInjective
        <3> QED BY <3>1, <3>2
    <2> QED BY <2>1, <2>2, <2>3, <2>4
<1>6. ToSet(u) = ToSet(s) \cup ToSet(t)
    <2>1. ASSUME NEW x \in ToSet(u) PROVE x \in ToSet(s) \cup ToSet(t)
        <3>1. PICK i \in 1..(Len(s) + Len(t)) : x = u[i]
            BY <1>1 DEF ToSet
        <3> QED BY <1>2, <1>3, <1>4, <3>1
    <2>2. ASSUME NEW x \in ToSet(s) PROVE x \in ToSet(u)
        <3>1. PICK i \in 1..Len(s) : x = s[i]
            BY <1>1 DEF ToSet
        <3>2. i \in DOMAIN u
            BY <1>1
        <3> QED BY <1>2, <3>1, <3>2 DEF ToSet
    <2>3. ASSUME NEW x \in ToSet(t) PROVE x \in ToSet(u)
        <3>1. PICK i \in 1..Len(t) : x = t[i]
            BY <1>1 DEF ToSet
        <3>2. i + Len(s) \in DOMAIN u
            BY <1>1
        <3> QED BY <1>3, <3>1, <3>2 DEF ToSet
    <2> QED BY <2>1, <2>2, <2>3
<1> QED BY <1>1, <1>5, <1>6 DEF u

LEMMA SplitOK ==
    ASSUME NEW S, NEW s \in Seq(S), IsInjective(s), NEW n \in 0..Len(s)
    PROVE  LET a == SubSeq(s, 1, n)
               b == SubSeq(s, n + 1, Len(s))
           IN  /\ a \in Seq(S) /\ Len(a) = n /\ IsInjective(a)
               /\ b \in Seq(S) /\ Len(b) = Len(s) - n /\ IsInjective(b)
               /\ \A i \in 1..(Len(s) - n) : b[i] = s[i + n]
               /\ ToSet(a) \subseteq ToSet(s)
               /\ ToSet(b) = ToSet(s) \ ToSet(a)
<1> DEFINE m == Len(s)
           a == SubSeq(s, 1, n)
           b == SubSeq(s, n + 1, m)
<1>1. m \in Nat /\ DOMAIN s = 1..m /\ \A i \in 1..m : s[i] \in S
    OBVIOUS
<1>2. \A i, j \in 1..m : s[i] = s[j] => i = j
    BY <1>1 DEF IsInjective
<1> HIDE DEF m
<1>3. n \in Nat /\ n <= m
    BY <1>1 DEF m
<1>4. a \in Seq(S) /\ Len(a) = n /\ \A i \in 1..n : a[i] = s[i]
    <2>1. \A i \in 1..n : s[i] \in S
        BY <1>1, <1>3
    <2> QED BY <1>3, <2>1, SubSeqProperties
<1>5. b \in Seq(S) /\ Len(b) = m - n /\ \A i \in 1..(m - n) : b[i] = s[i + n]
    <2>1. \A i \in (n + 1)..m : s[i] \in S
        BY <1>1, <1>3
    <2> QED BY <1>1, <1>3, <2>1, SubSeqProperties
<1> HIDE DEF a, b
<1>6. DOMAIN a = 1..n /\ DOMAIN b = 1..(m - n)
    BY <1>4, <1>5
<1>7. IsInjective(a)
    BY <1>2, <1>3, <1>4, <1>6 DEF IsInjective
<1>8. \A i \in 1..(m - n) : i + n \in 1..m /\ i + n \notin 1..n
    BY <1>1, <1>3
<1>9. IsInjective(b)
    <2> SUFFICES ASSUME NEW i \in 1..(m - n), NEW j \in 1..(m - n), b[i] = b[j] PROVE i = j
        BY <1>6 DEF IsInjective
    <2>1. i + n = j + n
        BY <1>2, <1>5, <1>8
    <2> QED BY <1>3, <2>1
<1>10. ToSet(a) \subseteq ToSet(s)
    BY <1>1, <1>3, <1>4, <1>6 DEF ToSet
<1>11. ASSUME NEW x \in ToSet(b) PROVE x \in ToSet(s) \ ToSet(a)
    <2>1. PICK i \in 1..(m - n) : x = s[i + n]
        BY <1>5, <1>6 DEF ToSet
    <2>2. x \in ToSet(s)
        BY <1>1, <1>8, <2>1 DEF ToSet
    <2>3. \A j \in 1..n : a[j] # x
        BY <1>1, <1>2, <1>3, <1>4, <1>8, <2>1
    <2> QED BY <1>6, <2>2, <2>3 DEF ToSet
<1>12. ASSUME NEW x \in ToSet(s), x \notin ToSet(a) PROVE x \in ToSet(b)
    <2>1. PICK i \in 1..m : x = s[i]
        BY <1>1 DEF ToSet
    <2>2. i \notin 1..n
        BY <1>4, <1>6, <1>12, <2>1 DEF ToSet
    <2>3. i - n \in 1..(m - n) /\ (i - n) + n = i
        BY <1>1, <1>3, <2>2
    <2> QED BY <1>5, <1>6, <2>1, <2>3 DEF ToSet
<1> QED BY <1>4, <1>5, <1>7, <1>9, <1>10, <1>11, <1>12 DEF a, b, m

\* The requests X have gone from one queue to another.
Moved(qs, new, X, from, to) ==
    /\ QueuesOK(new)
    /\ X \subseteq ToSet(qs[from])
    /\ ToSet(new[from]) = ToSet(qs[from]) \ X
    /\ ToSet(new[to]) = ToSet(qs[to]) \cup X
    /\ \A q \in QueueNames \ {from, to} : new[q] = qs[q]

LEMMA MovedOK ==
    ASSUME NEW qs, QueuesOK(qs), NEW from \in QueueNames, NEW to \in QueueNames, from # to,
           NEW X \in SUBSET ToSet(qs[from]),
           NEW f \in Seq(Requests), IsInjective(f), ToSet(f) = ToSet(qs[from]) \ X,
           NEW t \in Seq(Requests), IsInjective(t), ToSet(t) = ToSet(qs[to]) \cup X
    PROVE  Moved(qs, [qs EXCEPT ![from] = f, ![to] = t], X, from, to)
<1> DEFINE new == [qs EXCEPT ![from] = f, ![to] = t]
<1>1. new \in [QueueNames -> Seq(Requests)]
    BY DEF QueuesOK
<1>2. new[from] = f /\ new[to] = t /\ \A q \in QueueNames \ {from, to} : new[q] = qs[q]
    BY DEF QueuesOK
<1> HIDE DEF new
<1>3. \A q \in QueueNames : IsInjective(new[q])
    BY <1>2 DEF QueuesOK
<1>4. \A q1, q2 \in QueueNames : q1 # q2 => ToSet(new[q1]) \cap ToSet(new[q2]) = {}
    <2> TAKE q1, q2 \in QueueNames
    <2> HAVE q1 # q2
    <2>1. \A p1, p2 \in QueueNames : p1 # p2 => ToSet(qs[p1]) \cap ToSet(qs[p2]) = {}
        BY DEF QueuesOK
    <2> QED BY <1>2, <2>1
<1> QED BY <1>1, <1>2, <1>3, <1>4 DEF Moved, QueuesOK, new

\* MoveAt between two queues, and to the back of the same.
LEMMA MoveAtOK ==
    ASSUME NEW qs, QueuesOK(qs), NEW from \in QueueNames, NEW to \in QueueNames, from # to,
           NEW i \in 1..Len(qs[from])
    PROVE  LET new == MoveAt(qs, i, from, to)
           IN  /\ Moved(qs, new, {qs[from][i]}, from, to)
               /\ qs[from][i] \in Requests
               /\ Len(new[from]) = Len(qs[from]) - 1
               /\ Len(new[to]) = Len(qs[to]) + 1
<1> DEFINE x == qs[from][i]
           f == RemoveAt(qs[from], i)
           t == Append(qs[to], x)
           new == MoveAt(qs, i, from, to)
<1>1. /\ qs \in [QueueNames -> Seq(Requests)]
      /\ qs[from] \in Seq(Requests) /\ IsInjective(qs[from])
      /\ qs[to] \in Seq(Requests) /\ IsInjective(qs[to])
      /\ ToSet(qs[from]) \cap ToSet(qs[to]) = {}
    BY DEF QueuesOK
<1>2. x \in Requests /\ x \in ToSet(qs[from])
    BY <1>1 DEF ToSet
<1>3. f \in Seq(Requests) /\ IsInjective(f) /\ ToSet(f) = ToSet(qs[from]) \ {x}
      /\ Len(f) = Len(qs[from]) - 1
    BY <1>1, RemoveAtOK
<1>4. t \in Seq(Requests) /\ IsInjective(t) /\ ToSet(t) = ToSet(qs[to]) \cup {x}
      /\ Len(t) = Len(qs[to]) + 1
    <2>1. x \notin ToSet(qs[to])
        BY <1>1, <1>2
    <2> HIDE DEF x
    <2> QED BY <1>1, <1>2, <2>1, AppendOK
<1>5. new = [qs EXCEPT ![from] = f, ![to] = t]
    BY <1>1 DEF MoveAt
<1>6. new[from] = f /\ new[to] = t
    BY <1>1, <1>5
<1> HIDE DEF x, f, t, new
<1>7. Moved(qs, new, {x}, from, to)
    BY <1>2, <1>3, <1>4, <1>5, MovedOK
<1> QED BY <1>2, <1>3, <1>4, <1>6, <1>7 DEF x, new

LEMMA RotateOK ==
    ASSUME NEW qs, QueuesOK(qs), NEW q \in QueueNames, NEW i \in 1..Len(qs[q])
    PROVE  LET new == MoveAt(qs, i, q, q)
           IN  /\ QueuesOK(new)
               /\ qs[q][i] \in ToSet(qs[q])
               /\ ToSet(new[q]) = ToSet(qs[q])
               /\ Len(new[q]) = Len(qs[q])
               /\ \A j \in 1..(Len(qs[q]) - 1) :
                      new[q][j] = IF j < i THEN qs[q][j] ELSE qs[q][j + 1]
               /\ new[q][Len(qs[q])] = qs[q][i]
               /\ \A p \in QueueNames \ {q} : new[p] = qs[p]
<1> DEFINE x == qs[q][i]
           f == RemoveAt(qs[q], i)
           t == Append(f, x)
           new == MoveAt(qs, i, q, q)
<1>1. /\ qs \in [QueueNames -> Seq(Requests)]
      /\ qs[q] \in Seq(Requests) /\ IsInjective(qs[q]) /\ Len(qs[q]) \in Nat
    BY DEF QueuesOK
<1>2. x \in Requests /\ x \in ToSet(qs[q])
    BY <1>1 DEF ToSet
<1>3. /\ f \in Seq(Requests) /\ IsInjective(f) /\ ToSet(f) = ToSet(qs[q]) \ {x}
      /\ Len(f) = Len(qs[q]) - 1
      /\ \A j \in 1..(Len(qs[q]) - 1) : f[j] = IF j < i THEN qs[q][j] ELSE qs[q][j + 1]
    BY <1>1, RemoveAtOK
<1>4. new = [qs EXCEPT ![q] = t]
    BY <1>1 DEF MoveAt
<1>5. new[q] = t /\ \A p \in QueueNames \ {q} : new[p] = qs[p]
    BY <1>1, <1>4
<1> HIDE DEF x, f, new
<1>6. t \in Seq(Requests) /\ IsInjective(t) /\ ToSet(t) = ToSet(qs[q]) /\ Len(t) = Len(qs[q])
    <2>1. x \notin ToSet(f)
        BY <1>3
    <2>2. t \in Seq(Requests) /\ IsInjective(t) /\ ToSet(t) = ToSet(f) \cup {x}
          /\ Len(t) = Len(f) + 1
        BY <1>2, <1>3, <2>1, AppendOK
    <2> QED BY <1>1, <1>2, <1>3, <2>2
<1>7. t[Len(qs[q])] = x /\ \A j \in 1..(Len(qs[q]) - 1) : t[j] = f[j]
    BY <1>1, <1>2, <1>3, AppendProperties
<1>8. QueuesOK(new)
    <2>1. new \in [QueueNames -> Seq(Requests)]
        BY <1>1, <1>4, <1>6
    <2> HIDE DEF t
    <2>2. \A p \in QueueNames : IsInjective(new[p]) /\ ToSet(new[p]) = ToSet(qs[p])
        BY <1>5, <1>6 DEF QueuesOK
    <2> QED BY <2>1, <2>2 DEF QueuesOK
<1> QED BY <1>2, <1>3, <1>5, <1>6, <1>7, <1>8 DEF x, new

LEMMA MoveFirstOK ==
    ASSUME NEW qs, QueuesOK(qs), NEW from \in QueueNames, NEW to \in QueueNames, from # to,
           NEW n \in 0..Len(qs[from])
    PROVE  LET new == MoveFirst(qs, n, from, to)
               X == ToSet(SubSeq(qs[from], 1, n))
           IN  /\ Moved(qs, new, X, from, to)
               /\ Len(new[from]) = Len(qs[from]) - n
               /\ Len(new[to]) = Len(qs[to]) + n
<1> DEFINE a == SubSeq(qs[from], 1, n)
           f == SubSeq(qs[from], n + 1, Len(qs[from]))
           t == qs[to] \o a
           X == ToSet(a)
           new == MoveFirst(qs, n, from, to)
<1>1. /\ qs \in [QueueNames -> Seq(Requests)]
      /\ qs[from] \in Seq(Requests) /\ IsInjective(qs[from])
      /\ qs[to] \in Seq(Requests) /\ IsInjective(qs[to])
      /\ ToSet(qs[from]) \cap ToSet(qs[to]) = {}
    BY DEF QueuesOK
<1>2. /\ a \in Seq(Requests) /\ IsInjective(a) /\ Len(a) = n /\ X \subseteq ToSet(qs[from])
      /\ f \in Seq(Requests) /\ IsInjective(f) /\ Len(f) = Len(qs[from]) - n
      /\ ToSet(f) = ToSet(qs[from]) \ X
    BY <1>1, SplitOK
<1>3. new = [qs EXCEPT ![from] = f, ![to] = t]
    BY <1>1 DEF MoveFirst
<1>4. new[from] = f /\ new[to] = t
    BY <1>1, <1>3
<1> HIDE DEF a, f, new
<1>5. t \in Seq(Requests) /\ IsInjective(t) /\ ToSet(t) = ToSet(qs[to]) \cup X
      /\ Len(t) = Len(qs[to]) + n
    <2> DEFINE old == qs[to]
    <2>1. old \in Seq(Requests) /\ IsInjective(old)
        BY <1>1
    <2>2. a \in Seq(Requests) /\ IsInjective(a)
        BY <1>2
    <2>3. ToSet(old) \cap ToSet(a) = {}
        BY <1>1, <1>2
    <2> HIDE DEF old
    <2>4. /\ old \o a \in Seq(Requests) /\ IsInjective(old \o a)
          /\ ToSet(old \o a) = ToSet(old) \cup ToSet(a) /\ Len(old \o a) = Len(old) + Len(a)
        BY <2>1, <2>2, <2>3, ConcatOK
    <2> QED BY <1>2, <2>4 DEF old
<1> HIDE DEF t, X
<1>6. Moved(qs, new, X, from, to)
    BY <1>2, <1>3, <1>5, MovedOK
<1>7. Moved(qs, new, X, from, to) /\ Len(new[from]) = Len(qs[from]) - n
      /\ Len(new[to]) = Len(qs[to]) + n
    BY <1>2, <1>4, <1>5, <1>6
<1> QED BY <1>7 DEF a, X, new

\* A deferred prompt goes to the front of the prefill queue.
MoveToFront(qs, from, to) ==
    [qs EXCEPT ![from] = Tail(qs[from]), ![to] = <<Head(qs[from])>> \o qs[to]]

LEMMA MoveToFrontOK ==
    ASSUME NEW qs, QueuesOK(qs), NEW from \in QueueNames, NEW to \in QueueNames, from # to,
           qs[from] # <<>>
    PROVE  LET new == MoveToFront(qs, from, to)
           IN  /\ Moved(qs, new, {Head(qs[from])}, from, to)
               /\ Len(new[from]) = Len(qs[from]) - 1
               /\ Len(new[to]) = Len(qs[to]) + 1
               /\ \A j \in 1..(Len(qs[from]) - 1) : new[from][j] = qs[from][j + 1]
<1> DEFINE x == Head(qs[from])
           f == Tail(qs[from])
           u == <<x>>
           t == u \o qs[to]
           new == [qs EXCEPT ![from] = f, ![to] = t]
<1>1. /\ qs \in [QueueNames -> Seq(Requests)]
      /\ qs[from] \in Seq(Requests) /\ IsInjective(qs[from])
      /\ qs[to] \in Seq(Requests) /\ IsInjective(qs[to])
      /\ ToSet(qs[from]) \cap ToSet(qs[to]) = {}
    BY DEF QueuesOK
<1>2. Len(qs[from]) \in Nat \ {0} /\ x = qs[from][1] /\ x \in Requests /\ x \in ToSet(qs[from])
    BY <1>1 DEF ToSet
<1>3. f = SubSeq(qs[from], 1 + 1, Len(qs[from]))
    BY <1>1, TailIsSubSeq
<1>4. ToSet(SubSeq(qs[from], 1, 1)) = {x}
    <2> DEFINE v == SubSeq(qs[from], 1, 1)
    <2>1. \A i \in 1..1 : qs[from][i] \in Requests
        BY <1>1, <1>2
    <2>2. v \in Seq(Requests) /\ Len(v) = 1 /\ v[1] = qs[from][1]
        BY <2>1, SubSeqProperties
    <2>3. DOMAIN v = 1..1
        BY <2>2
    <2> HIDE DEF v
    <2>4. ToSet(v) = {x}
        BY <1>2, <2>2, <2>3 DEF ToSet
    <2> QED BY <2>4 DEF v
<1>5. u \in Seq(Requests) /\ Len(u) = 1 /\ u[1] = x /\ DOMAIN u = 1..1
    BY <1>2
<1> HIDE DEF x, f, u
<1>6. ToSet(u) = {x} /\ IsInjective(u)
    BY <1>5 DEF ToSet, IsInjective
<1>7. /\ f \in Seq(Requests) /\ IsInjective(f) /\ Len(f) = Len(qs[from]) - 1
      /\ \A j \in 1..(Len(qs[from]) - 1) : f[j] = qs[from][j + 1]
      /\ ToSet(f) = ToSet(qs[from]) \ {x}
    <2>1. 1 \in 0..Len(qs[from])
        BY <1>2
    <2>2. /\ f \in Seq(Requests) /\ IsInjective(f) /\ Len(f) = Len(qs[from]) - 1
          /\ \A j \in 1..(Len(qs[from]) - 1) : f[j] = qs[from][j + 1]
          /\ ToSet(f) = ToSet(qs[from]) \ ToSet(SubSeq(qs[from], 1, 1))
        <3> DEFINE old == qs[from]
                   k == 1
                   g == SubSeq(old, k + 1, Len(old))
                   v == SubSeq(old, 1, k)
        <3>1. old \in Seq(Requests) /\ IsInjective(old) /\ k \in 0..Len(old)
            BY <1>1, <2>1
        <3>2. f = g /\ v = SubSeq(old, 1, 1)
            BY <1>3
        <3> HIDE DEF old, k
        <3>3. /\ g \in Seq(Requests) /\ IsInjective(g) /\ Len(g) = Len(old) - k
              /\ \A j \in 1..(Len(old) - k) : g[j] = old[j + k]
              /\ ToSet(g) = ToSet(old) \ ToSet(v)
            BY <3>1, SplitOK
        <3> HIDE DEF g, v
        <3> QED BY <3>2, <3>3 DEF old, k
    <2> QED BY <1>4, <2>2
<1>8. t \in Seq(Requests) /\ IsInjective(t) /\ ToSet(t) = ToSet(qs[to]) \cup {x}
      /\ Len(t) = Len(qs[to]) + 1
    <2> DEFINE old == qs[to]
    <2>1. old \in Seq(Requests) /\ IsInjective(old) /\ Len(old) \in Nat
        BY <1>1
    <2>2. u \in Seq(Requests) /\ IsInjective(u)
        BY <1>5, <1>6
    <2>3. ToSet(u) \cap ToSet(old) = {}
        BY <1>1, <1>2, <1>6
    <2> HIDE DEF old
    <2>4. /\ u \o old \in Seq(Requests) /\ IsInjective(u \o old)
          /\ ToSet(u \o old) = ToSet(u) \cup ToSet(old) /\ Len(u \o old) = Len(u) + Len(old)
        BY <2>1, <2>2, <2>3, ConcatOK
    <2>5. ToSet(u \o old) = ToSet(old) \cup {x} /\ Len(u \o old) = Len(old) + 1
        BY <1>5, <1>6, <2>1, <2>4
    <2> QED BY <2>4, <2>5 DEF old
<1> HIDE DEF t
<1>9. new[from] = f /\ new[to] = t
    BY <1>1
<1>10. Moved(qs, new, {x}, from, to)
    BY <1>2, <1>7, <1>8, MovedOK
<1>11. new = MoveToFront(qs, from, to)
    BY DEF MoveToFront, x, f, t, u
<1> HIDE DEF new
<1> QED BY <1>7, <1>8, <1>9, <1>10, <1>11 DEF x
-----------------------------------------------------------------------------
(* The requests.  What a request holds follows from its state, and its state *)
(* from the queue it is in.                                                  *)

B == DEFAULT_KV_BLOCK_SIZE

\* b blocks are what n tokens need.
Fits(n, b) == n <= b * B /\ b * B < n + B

States == {"WaitingPrefill", "DeferredPrefillKV", "PrefillRunning", "DecodeReady",
           "DecodeRunning", "DeferredDecodeKV", "SwappedOut", "Finished"}

ReqType == [state : States, kv_residency : {"None", "Gpu", "Cpu"},
            blocks : Nat, cpu_blocks : Nat, tokens : Nat, generated : Nat, arrival : Nat,
            responses : Nat, finals : Nat]

HoldsNothing(rec) ==
    rec.kv_residency = "None" /\ rec.blocks = 0 /\ rec.cpu_blocks = 0 /\ rec.tokens = 0

OnGpu(rec, n) ==
    rec.kv_residency = "Gpu" /\ rec.cpu_blocks = 0 /\ n >= 1 /\ Fits(n, rec.blocks)

OnCpu(rec) ==
    rec.kv_residency = "Cpu" /\ rec.blocks = 0 /\ rec.tokens >= 1
    /\ Fits(rec.tokens, rec.cpu_blocks)

\* A request with a prompt of p tokens.
RecOK(rec, p) ==
    /\ rec.responses = rec.generated
    /\ rec.generated <= MAX_NEW_TOKENS
    /\ rec.state # "Finished" => rec.generated < MAX_NEW_TOKENS
    /\ rec.finals = IF rec.state = "Finished" THEN 1 ELSE 0
    /\ rec.state \in {"WaitingPrefill", "DeferredPrefillKV", "Finished"} => HoldsNothing(rec)
    /\ rec.state = "PrefillRunning" => rec.tokens = 0 /\ OnGpu(rec, p)
    /\ rec.state \in {"DecodeReady", "DeferredDecodeKV"} => OnGpu(rec, rec.tokens)
    /\ rec.state = "DecodeRunning" => rec.tokens >= 1 /\ OnGpu(rec, rec.tokens + 1)
    /\ rec.state = "SwappedOut" => OnCpu(rec)

InSomeQueue(r) == \E q \in QueueNames : r \in ToSet(queues[q])

RequestInv ==
    /\ QueuesOK(queues)
    /\ req \in [Requests -> ReqType]
    /\ prompts_len \in [Requests -> PromptLens]
    /\ \A r \in Requests : RecOK(req[r], prompts_len[r])
    /\ \A q \in QueueNames : \A r \in ToSet(queues[q]) : req[r].state \in Expected[q].state
    /\ \A r \in Requests : ~InSomeQueue(r) => req[r] = NewRequest

LEMMA ConstantTypes ==
    /\ B \in Nat \ {0} /\ GPT2_N_LAYERS \in Nat \ {0} /\ MAX_BATCH_NUM \in Nat \ {0}
    /\ MAX_NEW_TOKENS \in Nat \ {0}
    /\ DEFAULT_TOTAL_KV_BLOCKS \in Nat /\ DEFAULT_TOTAL_CPU_BLOCKS \in Nat
    /\ \A p \in PromptLens : p \in Nat \ {0}
    /\ IsFiniteSet(Requests)
BY SchedulerAssumption DEF B

LEMMA Names ==
    /\ \A q \in {"request", "waiting_prefill", "deferred_prefill", "prefill", "batch", "decode",
                 "next_decode", "deferred_decode", "swap_out", "finish"} : q \in QueueNames
    /\ InternalQueues \subseteq QueueNames
BY DEF QueueNames, InternalQueues

LEMMA ExpectedStates ==
    /\ Expected["request"].state = {"WaitingPrefill"}
    /\ Expected["waiting_prefill"].state = {"WaitingPrefill"}
    /\ Expected["deferred_prefill"].state = {"DeferredPrefillKV"}
    /\ Expected["prefill"].state = {"PrefillRunning"}
    /\ Expected["batch"].state = {"PrefillRunning", "DecodeRunning"}
    /\ Expected["decode"].state = {"DecodeReady"}
    /\ Expected["next_decode"].state = {"DecodeReady"}
    /\ Expected["deferred_decode"].state = {"DeferredDecodeKV"}
    /\ Expected["swap_out"].state = {"SwappedOut"}
    /\ Expected["finish"].state = {"Finished"}
BY DEF Expected

\* Requests that change queue and state together.
LEMMA MovedKeeps ==
    ASSUME RequestInv, prompts_len' = prompts_len,
           NEW from \in QueueNames, NEW to \in QueueNames, from # to,
           NEW X, Moved(queues, queues', X, from, to),
           req' \in [Requests -> ReqType],
           \A r \in Requests \ X : req'[r] = req[r],
           \A r \in X : RecOK(req'[r], prompts_len[r]) /\ req'[r].state \in Expected[to].state
    PROVE  RequestInv'
<1>1. /\ QueuesOK(queues) /\ QueuesOK(queues')
      /\ X \subseteq ToSet(queues[from])
      /\ ToSet(queues'[from]) = ToSet(queues[from]) \ X
      /\ ToSet(queues'[to]) = ToSet(queues[to]) \cup X
      /\ \A q \in QueueNames \ {from, to} : queues'[q] = queues[q]
    BY DEF RequestInv, Moved
<1>2. \A q \in QueueNames : ToSet(queues[q]) \subseteq Requests
    BY <1>1 DEF QueuesOK, ToSet
<1>3. \A q \in QueueNames \ {from} : ToSet(queues[q]) \cap X = {}
    BY <1>1 DEF QueuesOK
<1>4. \A r \in Requests : RecOK(req'[r], prompts_len'[r])
    BY DEF RequestInv
<1>5. ASSUME NEW q \in QueueNames, NEW r \in ToSet(queues'[q])
      PROVE  req'[r].state \in Expected[q].state
    <2>1. CASE q = to /\ r \in X
        BY <2>1
    <2>2. CASE ~(q = to /\ r \in X)
        <3>1. r \in ToSet(queues[q]) /\ r \notin X
            BY <1>1, <1>3, <1>5, <2>2
        <3>2. req'[r] = req[r]
            BY <1>2, <3>1
        <3> QED BY <3>1, <3>2 DEF RequestInv
    <2> QED BY <2>1, <2>2
<1>6. ASSUME NEW r \in Requests, ~InSomeQueue(r)' PROVE req'[r] = NewRequest
    <2>1. r \notin X /\ \A q \in QueueNames : r \notin ToSet(queues[q])
        BY <1>1, <1>6 DEF InSomeQueue
    <2> QED BY <2>1 DEF RequestInv, InSomeQueue
<1> QED BY <1>1, <1>4, <1>5, <1>6 DEF RequestInv

\* The i-th of a queue changes its state and goes to the back of another.
LEMMA OneMovedKeeps ==
    ASSUME RequestInv, prompts_len' = prompts_len,
           NEW from \in QueueNames, NEW to \in QueueNames, from # to,
           NEW i \in 1..Len(queues[from]), NEW r, r = queues[from][i],
           queues' = MoveAt(queues, i, from, to),
           req' \in [Requests -> ReqType],
           \A s \in Requests \ {r} : req'[s] = req[s],
           RecOK(req'[r], prompts_len[r]), req'[r].state \in Expected[to].state
    PROVE  RequestInv'
<1>1. Moved(queues, queues', {r}, from, to)
    BY MoveAtOK DEF RequestInv
<1> QED BY <1>1, MovedKeeps

\* Requests that change queue and keep their state.
LEMMA OnlyMovedKeeps ==
    ASSUME RequestInv, prompts_len' = prompts_len, req' = req,
           NEW from \in QueueNames, NEW to \in QueueNames, from # to,
           Expected[from].state \subseteq Expected[to].state,
           NEW X, Moved(queues, queues', X, from, to)
    PROVE  RequestInv'
<1>1. X \subseteq ToSet(queues[from]) /\ X \subseteq Requests
    BY DEF RequestInv, Moved, QueuesOK, ToSet
<1>2. \A r \in X : RecOK(req'[r], prompts_len[r]) /\ req'[r].state \in Expected[to].state
    BY <1>1 DEF RequestInv
<1>3. req' \in [Requests -> ReqType] /\ \A r \in Requests \ X : req'[r] = req[r]
    BY DEF RequestInv
<1> QED BY <1>2, <1>3, MovedKeeps

\* A request that goes to the back of its queue.
LEMMA RotatedKeeps ==
    ASSUME RequestInv, prompts_len' = prompts_len, req' = req,
           NEW q \in QueueNames, NEW i \in 1..Len(queues[q]),
           queues' = MoveAt(queues, i, q, q)
    PROVE  RequestInv'
<1>1. QueuesOK(queues') /\ \A p \in QueueNames : ToSet(queues'[p]) = ToSet(queues[p])
    BY RotateOK DEF RequestInv
<1> QED BY <1>1 DEF RequestInv, InSomeQueue
-----------------------------------------------------------------------------
(* The worker's loops. *)

Places == {"loop", "drain", "swap_in_1", "swap_in_2", "swap_in_3", "retry_decode", "decode",
           "decode_out", "retry_prefill", "admit", "prefill", "prefill_out", "victim",
           "victim_2", "end", "wait", "exited"}

\* A loop never asks for more than its queue has, and what is local to a
\* function is empty outside it.
ControlInv ==
    /\ pc \in Places
    /\ left \in Nat
    /\ pc \in DOMAIN AfterSwapIn => left <= Len(queues["swap_out"])
    /\ pc \in {"decode", "decode_out"} => left = Len(queues["decode"])
    /\ pc = "retry_prefill" => left <= Len(queues["deferred_prefill"])
    /\ pc = "admit" => left <= Len(queues["waiting_prefill"])
    /\ queues["batch"] # <<>> => pc \in {"decode", "decode_out", "prefill_out"}
    /\ queues["next_decode"] # <<>> => pc \in {"decode", "decode_out"}
    /\ queues["prefill"] # <<>> => pc \in {"retry_prefill", "admit", "prefill", "prefill_out"}
    /\ \A r \in ToSet(queues["batch"]) :
          req[r].state = IF pc = "prefill_out" THEN "PrefillRunning" ELSE "DecodeRunning"

IInv == RequestInv /\ ControlInv

LEMMA AfterSwapInPlaces == DOMAIN AfterSwapIn = {"swap_in_1", "swap_in_2", "swap_in_3"}
BY DEF AfterSwapIn

LEMMA Lengths ==
    ASSUME RequestInv, NEW q \in QueueNames
    PROVE  /\ queues[q] \in Seq(Requests) /\ Len(queues[q]) \in Nat
           /\ queues[q] = <<>> <=> Len(queues[q]) = 0
           /\ ToSet(queues[q]) \subseteq Requests
           /\ queues[q] # <<>> => /\ Head(queues[q]) = queues[q][1] /\ 1 \in 1..Len(queues[q])
                                  /\ Head(queues[q]) \in Requests
                                  /\ Head(queues[q]) \in ToSet(queues[q])
<1>1. queues[q] \in Seq(Requests)
    BY DEF RequestInv, QueuesOK
<1> DEFINE s == queues[q]
<1>2. s \in Seq(Requests) /\ DOMAIN s = 1..Len(s) /\ Len(s) \in Nat
    BY <1>1
<1> HIDE DEF s
<1>3. \A i \in 1..Len(s) : s[i] \in Requests
    BY <1>2
<1>4. s # <<>> => Len(s) # 0 /\ Head(s) = s[1]
    BY <1>2
<1> QED BY <1>2, <1>3, <1>4 DEF ToSet, s

LEMMA FitsCeil ==
    ASSUME NEW n \in Nat \ {0}
    PROVE  CeilDiv(n, B) \in Nat /\ Fits(n, CeilDiv(n, B))
<1> DEFINE b == B
           m == n + b - 1
           k == m \div b
<1>1. b \in Nat \ {0} /\ m \in Nat
    BY ConstantTypes
<1> HIDE DEF b, m
<1>2. k \in Nat /\ m % b \in 0..(b - 1) /\ m = b * k + (m % b)
    BY <1>1
<1> HIDE DEF k
<1>3. b * k = k * b
    BY <1>1, <1>2
<1>4. k * b \in Nat /\ n <= k * b /\ k * b < n + b
    BY <1>1, <1>2, <1>3 DEF m
<1>5. k = CeilDiv(n, B)
    BY DEF k, m, b, CeilDiv
<1> QED BY <1>2, <1>4, <1>5 DEF Fits, b

LEMMA FitsNext ==
    ASSUME NEW n \in Nat \ {0}, NEW b \in Nat, Fits(n, b)
    PROVE  Fits(n + 1, b + IF n % B = 0 THEN 1 ELSE 0)
<1> DEFINE d == B
<1>1. d \in Nat \ {0} /\ n <= b * d /\ b * d < n + d
    BY ConstantTypes DEF Fits
<1> HIDE DEF d
<1>2. b * d \in Nat /\ (b + 1) * d = b * d + d
    BY <1>1
<1>3. CASE n % d = 0
    <2> DEFINE k == n \div d
    <2>1. k \in Nat /\ n = d * k
        BY <1>1, <1>3
    <2> HIDE DEF k
    <2>2. b = k
        <3>1. d * k = k * d /\ (k + 1) * d = k * d + d
            BY <1>1, <2>1
        <3>2. CASE b < k
            <4>1. b * d <= k * d - d
                <5>1. (k - 1 - b) \in Nat /\ (k - 1 - b) * d \in Nat
                    BY <1>1, <2>1, <3>2
                <5>2. (k - 1 - b) * d = k * d - d - b * d
                    BY <1>1, <2>1
                <5> QED BY <1>1, <1>2, <2>1, <3>1, <5>1, <5>2
            <4> QED BY <1>1, <1>2, <2>1, <3>1, <4>1
        <3>3. CASE b > k
            <4>1. b * d >= k * d + d
                <5>1. (b - k - 1) \in Nat /\ (b - k - 1) * d \in Nat
                    BY <1>1, <2>1, <3>3
                <5>2. (b - k - 1) * d = b * d - k * d - d
                    BY <1>1, <2>1
                <5> QED BY <1>1, <1>2, <2>1, <3>1, <5>1, <5>2
            <4> QED BY <1>1, <1>2, <2>1, <3>1, <4>1
        <3> QED BY <2>1, <3>2, <3>3
    <2>3. b * d = n
        BY <1>1, <2>1, <2>2
    <2>4. n + 1 <= (b + 1) * d /\ (b + 1) * d < n + 1 + d
        BY <1>1, <1>2, <2>3
    <2> QED BY <1>3, <2>4 DEF Fits, d
<1>4. CASE n % d # 0
    <2>1. b * d # n
        <3>1. (b * d) % d = 0
            BY <1>1
        <3> QED BY <1>4, <3>1
    <2>2. n + 1 <= b * d /\ b * d < n + 1 + d
        BY <1>1, <1>2, <2>1
    <2>3. b + 0 = b
        OBVIOUS
    <2> QED BY <1>4, <2>2, <2>3 DEF Fits, d
<1> QED BY <1>3, <1>4

LEMMA FitsSome ==
    ASSUME NEW n \in Nat \ {0}, NEW b \in Nat, Fits(n, b)
    PROVE  b > 0
<1>1. b = 0 => b * B = 0
    BY ConstantTypes
<1> QED BY <1>1, ConstantTypes DEF Fits
-----------------------------------------------------------------------------
(* Each action keeps the invariant. *)

LEMMA InitOK == Init => IInv
<1> SUFFICES ASSUME Init PROVE IInv
    OBVIOUS
<1>1. \A q \in QueueNames : queues[q] = <<>> /\ ToSet(queues[q]) = {}
    <2>1. ToSet(<<>>) = {}
        BY DEF ToSet
    <2> QED BY <2>1 DEF Init
<1>2. QueuesOK(queues)
    BY <1>1 DEF Init, QueuesOK, IsInjective
<1>3. NewRequest \in ReqType
    BY DEF NewRequest, ReqType, States
<1>4. \A n \in Nat \ {0} : RecOK(NewRequest, n)
    BY ConstantTypes DEF RecOK, NewRequest, HoldsNothing
<1>5. RequestInv
    BY <1>1, <1>2, <1>3, <1>4, ConstantTypes DEF Init, RequestInv
<1>6. ControlInv
    BY <1>1, Names, AfterSwapInPlaces DEF Init, ControlInv, Places
<1> QED BY <1>5, <1>6 DEF IInv

\* The steps that move no request.
Quiet == UNCHANGED <<queues, req, prompts_len>>

LEMMA QuietKeeps ==
    ASSUME RequestInv, Quiet
    PROVE  RequestInv'
BY DEF RequestInv, Quiet, InSomeQueue

LEMMA QuietWorkerKeeps ==
    ASSUME IInv,
           \/ LoopHead \/ SwapInDone \/ RunDecode \/ RetryPrefillDone \/ AdmitDone
           \/ PrefillDone \/ NoVictim \/ LoopEnd
    PROVE  IInv'
<1>1. Quiet
    BY DEF LoopHead, SwapInDone, RunDecode, RetryPrefillDone, AdmitDone, PrefillDone, NoVictim,
           LoopEnd, Quiet
<1>2. RequestInv'
    BY <1>1, QuietKeeps DEF IInv
<1>3. Len(queues["swap_out"]) \in Nat /\ Len(queues["deferred_prefill"]) \in Nat
      /\ Len(queues["waiting_prefill"]) \in Nat
    BY Lengths, Names DEF IInv
<1>4. ControlInv
    BY DEF IInv
<1>5. ControlInv'
    <2>1. CASE LoopHead
        BY <1>4, <2>1, AfterSwapInPlaces DEF LoopHead, ControlInv, GoTo, Places
    <2>2. CASE SwapInDone
        BY <1>3, <1>4, <2>2, AfterSwapInPlaces
           DEF SwapInDone, ControlInv, GoTo, GoToLoop, Places, AfterSwapIn
    <2>3. CASE RunDecode
        BY <1>4, <2>3, AfterSwapInPlaces DEF RunDecode, ControlInv, Places
    <2>4. CASE RetryPrefillDone
        BY <1>3, <1>4, <2>4, AfterSwapInPlaces DEF RetryPrefillDone, ControlInv, GoToLoop, Places
    <2>5. CASE AdmitDone
        BY <1>4, <2>5, AfterSwapInPlaces DEF AdmitDone, ControlInv, GoTo, Places
    <2>6. CASE PrefillDone
        BY <1>3, <1>4, <2>6, AfterSwapInPlaces DEF PrefillDone, ControlInv, GoToLoop, Places
    <2>7. CASE NoVictim
        BY <1>4, <2>7, AfterSwapInPlaces DEF NoVictim, ControlInv, GoTo, Places, VictimQueue
    <2>8. CASE LoopEnd
        BY <1>4, <2>8, AfterSwapInPlaces DEF LoopEnd, ControlInv, GoTo, Places
    <2> QED BY <2>1, <2>2, <2>3, <2>4, <2>5, <2>6, <2>7, <2>8
<1> QED BY <1>2, <1>5 DEF IInv

LEMMA DrainKeeps == ASSUME IInv, DrainNewRequests PROVE IInv'
<1> DEFINE n == IF admission_paused_ THEN 0 ELSE Lesser(MAX_BATCH_NUM, Len(queues["request"]))
<1>1. RequestInv /\ ControlInv
    BY DEF IInv
<1>2. n \in 0..Len(queues["request"])
    BY <1>1, Lengths, Names, ConstantTypes DEF Lesser
<1>3. queues' = MoveFirst(queues, n, "request", "waiting_prefill")
    BY DEF DrainNewRequests, drain_new_requests
<1> HIDE DEF n
<1>4. PICK X : Moved(queues, queues', X, "request", "waiting_prefill")
    BY <1>1, <1>2, <1>3, MoveFirstOK, Names DEF RequestInv
<1>5. RequestInv'
    BY <1>1, <1>4, OnlyMovedKeeps, Names, ExpectedStates DEF DrainNewRequests
<1>6. /\ queues'["swap_out"] = queues["swap_out"] /\ queues'["batch"] = queues["batch"]
      /\ queues'["next_decode"] = queues["next_decode"] /\ queues'["prefill"] = queues["prefill"]
    BY <1>4, Names DEF Moved
<1>7. Len(queues["swap_out"]) \in Nat
    BY <1>1, Lengths, Names
<1>8. ControlInv'
    BY <1>1, <1>6, <1>7, AfterSwapInPlaces DEF DrainNewRequests, ControlInv, GoToLoop, Places
<1> QED BY <1>5, <1>8 DEF IInv

LEMMA WaitKeeps == ASSUME IInv, WaitAndEnqueueOneRequest PROVE IInv'
<1>1. RequestInv /\ ControlInv
    BY DEF IInv
<1>2. CASE queues' = queues
    <2>1. RequestInv'
        BY <1>1, <1>2, QuietKeeps DEF WaitAndEnqueueOneRequest, Quiet
    <2>2. ControlInv'
        BY <1>1, <1>2, AfterSwapInPlaces DEF WaitAndEnqueueOneRequest, ControlInv, GoTo, Places
    <2> QED BY <2>1, <2>2 DEF IInv
<1>3. CASE queues["request"] # <<>> /\ queues' = MoveFront(queues, "request", "waiting_prefill")
    <2>1. PICK X : Moved(queues, queues', X, "request", "waiting_prefill")
        <3>1. 1 \in 1..Len(queues["request"])
            BY <1>1, <1>3, Lengths, Names
        <3> QED BY <1>1, <1>3, <3>1, MoveAtOK, Names DEF RequestInv, MoveFront
    <2>2. RequestInv'
        BY <1>1, <2>1, OnlyMovedKeeps, Names, ExpectedStates DEF WaitAndEnqueueOneRequest
    <2>3. /\ queues'["batch"] = queues["batch"]
          /\ queues'["next_decode"] = queues["next_decode"]
          /\ queues'["prefill"] = queues["prefill"]
        BY <2>1, Names DEF Moved
    <2>4. ControlInv'
        BY <1>1, <2>3, AfterSwapInPlaces DEF WaitAndEnqueueOneRequest, ControlInv, GoTo, Places
    <2> QED BY <2>2, <2>4 DEF IInv
<1> QED BY <1>2, <1>3 DEF WaitAndEnqueueOneRequest

LEMMA SwapInKeeps == ASSUME IInv, SwapInOne PROVE IInv'
<1> DEFINE r == Head(queues["swap_out"])
<1>1. RequestInv /\ ControlInv
    BY DEF IInv
<1>2. /\ queues["swap_out"] # <<>> /\ 1 \in 1..Len(queues["swap_out"])
      /\ r = queues["swap_out"][1] /\ r \in Requests /\ r \in ToSet(queues["swap_out"])
      /\ Len(queues["swap_out"]) \in Nat /\ left \in Nat /\ left > 0
      /\ left <= Len(queues["swap_out"])
      /\ pc \in DOMAIN AfterSwapIn
    <2>1. /\ pc \in DOMAIN AfterSwapIn /\ left > 0 /\ left \in Nat
          /\ left <= Len(queues["swap_out"])
        BY <1>1 DEF SwapInOne, ControlInv
    <2>2. Len(queues["swap_out"]) \in Nat /\ (queues["swap_out"] = <<>> <=> Len(queues["swap_out"]) = 0)
        BY <1>1, Lengths, Names
    <2> QED BY <1>1, <2>1, <2>2, Lengths, Names
<1>3. req[r] \in ReqType /\ RecOK(req[r], prompts_len[r]) /\ req[r].state = "SwappedOut"
    BY <1>1, <1>2, Names, ExpectedStates DEF RequestInv
<1>4. pc' = pc /\ left' = left - 1 /\ prompts_len' = prompts_len
    BY DEF SwapInOne, Iterate
<1>5. CASE /\ queues' = MoveFront(queues, "swap_out", "decode")
           /\ req' = [req EXCEPT ![r].state = "DecodeReady", ![r].kv_residency = "Gpu",
                                 ![r].blocks = req[r].cpu_blocks, ![r].cpu_blocks = 0]
    <2> DEFINE rec == [req[r] EXCEPT !.state = "DecodeReady", !.kv_residency = "Gpu",
                                     !.blocks = req[r].cpu_blocks, !.cpu_blocks = 0]
    <2>1. req' = [req EXCEPT ![r] = rec]
        BY <1>1, <1>2, <1>5 DEF RequestInv
    <2>2. rec \in ReqType /\ RecOK(rec, prompts_len[r]) /\ rec.state = "DecodeReady"
        BY <1>3, ConstantTypes DEF ReqType, RecOK, OnGpu, OnCpu, States
    <2> HIDE DEF rec
    <2>3. /\ req' \in [Requests -> ReqType] /\ req'[r] = rec
          /\ \A s \in Requests \ {r} : req'[s] = req[s]
        BY <1>1, <1>2, <2>1, <2>2 DEF RequestInv
    <2> HIDE DEF r
    <2>4. queues' = MoveAt(queues, 1, "swap_out", "decode")
        BY <1>5 DEF MoveFront
    <2>5. RequestInv'
        BY <1>1, <1>2, <1>4, <2>2, <2>3, <2>4, OneMovedKeeps, Names, ExpectedStates
    <2>6. /\ Len(queues'["swap_out"]) = Len(queues["swap_out"]) - 1
          /\ queues'["batch"] = queues["batch"]
          /\ queues'["next_decode"] = queues["next_decode"]
          /\ queues'["prefill"] = queues["prefill"]
        BY <1>1, <1>2, <2>4, MoveAtOK, Names DEF RequestInv, Moved
    <2>7. queues["batch"] = <<>>
        BY <1>1, <1>2, AfterSwapInPlaces DEF ControlInv
    <2>8. ControlInv'
        BY <1>1, <1>2, <1>4, <2>6, <2>7, AfterSwapInPlaces DEF ControlInv, Places, ToSet
    <2> QED BY <2>5, <2>8 DEF IInv
<1>6. CASE queues' = MoveFront(queues, "swap_out", "swap_out") /\ req' = req
    <2>1. queues' = MoveAt(queues, 1, "swap_out", "swap_out")
        BY <1>6 DEF MoveFront
    <2>2. RequestInv'
        BY <1>1, <1>2, <1>4, <1>6, <2>1, RotatedKeeps, Names
    <2>3. /\ Len(queues'["swap_out"]) = Len(queues["swap_out"])
          /\ \A q \in QueueNames \ {"swap_out"} : queues'[q] = queues[q]
        BY <1>1, <1>2, <2>1, RotateOK, Names DEF RequestInv
    <2>4. ControlInv'
        BY <1>1, <1>2, <1>4, <1>6, <2>3, Names, AfterSwapInPlaces DEF ControlInv, Places
    <2> QED BY <2>2, <2>4 DEF IInv
<1> QED BY <1>5, <1>6 DEF SwapInOne

LEMMA RetryDeferredDecodeKeeps == ASSUME IInv, RetryDeferredDecode PROVE IInv'
<1> DEFINE n == Len(queues["deferred_decode"])
           X == ToSet(SubSeq(queues["deferred_decode"], 1, n))
<1>1. RequestInv /\ ControlInv
    BY DEF IInv
<1>2. n \in 0..n /\ queues["deferred_decode"] \in Seq(Requests)
    BY <1>1, Lengths, Names
<1>3. X = ToSet(queues["deferred_decode"]) /\ X \subseteq Requests
    BY <1>1, <1>2, SubSeqFull, Lengths, Names
<1>4. queues' = MoveFirst(queues, n, "deferred_decode", "decode")
    BY DEF RetryDeferredDecode
<1> HIDE DEF X
<1>5. Moved(queues, queues', X, "deferred_decode", "decode")
    BY <1>1, <1>2, <1>4, MoveFirstOK, Names DEF RequestInv, X
<1>6. \A r : Contains(queues["deferred_decode"], r) <=> r \in X
    BY <1>2, <1>3 DEF Contains, ToSet
<1> DEFINE ready(r) == [req[r] EXCEPT !.state = "DecodeReady"]
<1>7. \A r \in Requests : req'[r] = IF r \in X THEN ready(r) ELSE req[r]
    BY <1>6 DEF RetryDeferredDecode
<1>8. ASSUME NEW r \in X
      PROVE  /\ ready(r) \in ReqType /\ RecOK(ready(r), prompts_len[r])
             /\ ready(r).state = "DecodeReady"
    <2>1. req[r] \in ReqType /\ RecOK(req[r], prompts_len[r]) /\ req[r].state = "DeferredDecodeKV"
        BY <1>1, <1>3, Names, ExpectedStates DEF RequestInv
    <2> QED BY <2>1, ConstantTypes DEF ReqType, RecOK, OnGpu, States
<1> HIDE DEF ready
<1>9. req' \in [Requests -> ReqType]
    <2>1. req' = [r \in Requests |-> req'[r]]
        BY DEF RetryDeferredDecode
    <2>2. \A r \in Requests : req'[r] \in ReqType
        BY <1>1, <1>7, <1>8 DEF RequestInv
    <2> QED BY <2>1, <2>2
<1>10. RequestInv'
    <2>1. prompts_len' = prompts_len
        BY DEF RetryDeferredDecode
    <2>2. \A r \in Requests \ X : req'[r] = req[r]
        BY <1>7
    <2>3. \A r \in X : RecOK(req'[r], prompts_len[r]) /\ req'[r].state \in Expected["decode"].state
        BY <1>3, <1>7, <1>8, ExpectedStates
    <2> QED BY <1>1, <1>5, <1>9, <2>1, <2>2, <2>3, MovedKeeps, Names
<1>11. ControlInv'
    <2>1. queues'["batch"] = <<>> /\ queues'["next_decode"] = <<>> /\ queues'["prefill"] = <<>>
        BY <1>1, <1>5, Names DEF Moved, ControlInv, RetryDeferredDecode
    <2>2. Len(queues'["decode"]) \in Nat
        BY <1>5, Names DEF Moved, QueuesOK
    <2> QED BY <2>1, <2>2, AfterSwapInPlaces DEF ControlInv, Places, RetryDeferredDecode, GoToLoop, ToSet
<1> QED BY <1>10, <1>11 DEF IInv

LEMMA AdmitDecodeKeeps == ASSUME IInv, AdmitDecode PROVE IInv'
<1> DEFINE r == Head(queues["decode"])
<1>1. RequestInv /\ ControlInv
    BY DEF IInv
<1>2. /\ pc = "decode" /\ pc' = "decode" /\ left' = left - 1 /\ left \in Nat /\ left > 0
      /\ left = Len(queues["decode"]) /\ prompts_len' = prompts_len
    BY <1>1 DEF AdmitDecode, Iterate, ControlInv
<1>3. /\ 1 \in 1..Len(queues["decode"]) /\ r = queues["decode"][1]
      /\ r \in Requests /\ r \in ToSet(queues["decode"])
    BY <1>1, <1>2, Lengths, Names
<1>4. req[r] \in ReqType /\ RecOK(req[r], prompts_len[r]) /\ req[r].state = "DecodeReady"
    BY <1>1, <1>3, Names, ExpectedStates DEF RequestInv
<1>5. ASSUME NEW to \in {"batch", "deferred_decode"}, NEW rec \in ReqType,
             queues' = MoveFront(queues, "decode", to), req' = [req EXCEPT ![r] = rec],
             RecOK(rec, prompts_len[r]), rec.state \in Expected[to].state,
             to = "batch" => rec.state = "DecodeRunning"
      PROVE  IInv'
    <2>1. /\ req' \in [Requests -> ReqType] /\ req'[r] = rec
          /\ \A s \in Requests \ {r} : req'[s] = req[s]
        BY <1>1, <1>3, <1>5 DEF RequestInv
    <2> HIDE DEF r
    <2>2. queues' = MoveAt(queues, 1, "decode", to) /\ to \in QueueNames /\ to # "decode"
        BY <1>5, Names DEF MoveFront
    <2>3. RequestInv'
        BY <1>1, <1>2, <1>3, <1>5, <2>1, <2>2, OneMovedKeeps, Names
    <2>4. /\ Len(queues'["decode"]) = Len(queues["decode"]) - 1
          /\ Moved(queues, queues', {r}, "decode", to)
        <3>1. QueuesOK(queues) /\ "decode" \in QueueNames
            BY <1>1, Names DEF RequestInv
        <3>2. /\ Moved(queues, MoveAt(queues, 1, "decode", to), {queues["decode"][1]}, "decode", to)
              /\ Len(MoveAt(queues, 1, "decode", to)["decode"]) = Len(queues["decode"]) - 1
            BY <1>3, <2>2, <3>1, MoveAtOK
        <3> QED BY <1>3, <2>2, <3>2
    <2>5. /\ queues'["next_decode"] = queues["next_decode"]
          /\ queues'["prefill"] = queues["prefill"]
          /\ \A s \in ToSet(queues'["batch"]) : s \in ToSet(queues["batch"]) \/ (s = r /\ to = "batch")
        <3>1. CASE to = "batch"
            BY <2>4, <3>1, Names DEF Moved
        <3>2. CASE to = "deferred_decode"
            BY <2>4, <3>2, Names DEF Moved
        <3> QED BY <3>1, <3>2
    <2>6. \A s \in ToSet(queues'["batch"]) : req'[s].state = "DecodeRunning"
        <3> TAKE s \in ToSet(queues'["batch"])
        <3>1. CASE s = r /\ to = "batch"
            BY <1>5, <2>1, <3>1
        <3>2. CASE s \in ToSet(queues["batch"])
            <4>1. s \in Requests /\ req[s].state = "DecodeRunning"
                BY <1>1, <1>2, <3>2, Lengths, Names DEF ControlInv
            <4>2. s # r
                BY <1>4, <4>1
            <4> QED BY <2>1, <4>1, <4>2
        <3> QED BY <2>5, <3>1, <3>2
    <2>7. ControlInv'
        BY <1>1, <1>2, <2>4, <2>5, <2>6, AfterSwapInPlaces DEF ControlInv, Places
    <2> QED BY <2>3, <2>7 DEF IInv
<1>6. CASE /\ queues' = MoveFront(queues, "decode", "batch")
           /\ req' = [req EXCEPT ![r].state = "DecodeRunning", ![r].kv_residency = "Gpu",
                                 ![r].blocks = @ + DecodeNeed(r)]
    <2> DEFINE rec == [req[r] EXCEPT !.state = "DecodeRunning", !.kv_residency = "Gpu",
                                     !.blocks = req[r].blocks + DecodeNeed(r)]
    <2>1. req' = [req EXCEPT ![r] = rec]
        BY <1>1, <1>3, <1>6 DEF RequestInv
    <2>2. /\ req[r].tokens \in Nat \ {0} /\ req[r].blocks \in Nat
          /\ Fits(req[r].tokens, req[r].blocks)
        BY <1>4 DEF ReqType, RecOK, OnGpu
    <2>3. DecodeNeed(r) = IF req[r].tokens % B = 0 THEN 1 ELSE 0
        BY DEF DecodeNeed, B
    <2>4. req[r].blocks + DecodeNeed(r) \in Nat
          /\ Fits(req[r].tokens + 1, req[r].blocks + DecodeNeed(r))
        BY <2>2, <2>3, FitsNext
    <2>5. rec \in ReqType /\ rec.state = "DecodeRunning"
        BY <1>4, <2>4 DEF ReqType, States
    <2> HIDE DEF r
    <2>6. /\ rec.kv_residency = "Gpu" /\ rec.blocks = req[r].blocks + DecodeNeed(r)
          /\ rec.cpu_blocks = req[r].cpu_blocks /\ rec.tokens = req[r].tokens
          /\ rec.generated = req[r].generated /\ rec.responses = req[r].responses
          /\ rec.finals = req[r].finals
        BY <1>4 DEF ReqType
    <2> HIDE DEF rec
    <2>7. RecOK(rec, prompts_len[r])
        <3>1. rec.responses = rec.generated /\ rec.generated < MAX_NEW_TOKENS /\ rec.finals = 0
            BY <1>4, <2>6 DEF RecOK
        <3>2. rec.cpu_blocks = 0 /\ rec.tokens \in Nat \ {0} /\ rec.tokens + 1 >= 1
            BY <1>4, <2>2, <2>6 DEF RecOK, OnGpu
        <3>3. Fits(rec.tokens + 1, rec.blocks)
            BY <2>4, <2>6
        <3>4. rec.generated \in Nat
            BY <2>5 DEF ReqType
        <3> QED BY <2>5, <2>6, <3>1, <3>2, <3>3, <3>4, ConstantTypes DEF RecOK, OnGpu
    <2> QED BY <1>5, <1>6, <2>1, <2>5, <2>7, ExpectedStates
<1>7. CASE /\ queues' = MoveFront(queues, "decode", "deferred_decode")
           /\ req' = [req EXCEPT ![r].state = "DeferredDecodeKV"]
    <2> DEFINE rec == [req[r] EXCEPT !.state = "DeferredDecodeKV"]
    <2>1. req' = [req EXCEPT ![r] = rec]
        BY <1>1, <1>3, <1>7 DEF RequestInv
    <2>2. rec \in ReqType /\ RecOK(rec, prompts_len[r]) /\ rec.state = "DeferredDecodeKV"
        BY <1>4, ConstantTypes DEF ReqType, RecOK, OnGpu, States
    <2> HIDE DEF rec, r
    <2> QED BY <1>5, <1>7, <2>1, <2>2, ExpectedStates
<1> QED BY <1>6, <1>7 DEF AdmitDecode

\* A response: the request in front of the batch, with `cached' tokens in its
\* blocks now, goes to `continue' or is finished.
LEMMA RespondKeeps ==
    ASSUME RequestInv, prompts_len' = prompts_len, queues["batch"] # <<>>,
           NEW r, r = Head(queues["batch"]), NEW eos \in BOOLEAN,
           NEW cached \in Nat \ {0}, NEW continue \in {"decode", "next_decode"},
           Fits(cached, req[r].blocks), Respond(r, eos, cached, continue)
    PROVE  /\ RequestInv'
           /\ \E to \in {"finish", continue} : Moved(queues, queues', {r}, "batch", to)
           /\ \A s \in Requests \ {r} : req'[s] = req[s]
<1> DEFINE done == eos \/ IsFinish(r)
           rec == Counted(req[r], done)
           new == IF done THEN Finished(rec)
                  ELSE [rec EXCEPT !.state = "DecodeReady", !.tokens = cached]
           to == IF done THEN "finish" ELSE continue
<1>1. /\ r \in Requests /\ r \in ToSet(queues["batch"])
      /\ 1 \in 1..Len(queues["batch"]) /\ r = queues["batch"][1]
    BY Lengths, Names
<1>2. /\ req[r] \in ReqType /\ RecOK(req[r], prompts_len[r])
      /\ req[r].state \in {"PrefillRunning", "DecodeRunning"}
    BY <1>1, Names, ExpectedStates DEF RequestInv
<1>3. /\ req[r].generated \in Nat /\ req[r].generated < MAX_NEW_TOKENS
      /\ req[r].responses = req[r].generated /\ req[r].finals = 0
      /\ req[r].kv_residency = "Gpu" /\ req[r].cpu_blocks = 0
    BY <1>2 DEF ReqType, RecOK, OnGpu
<1>4. done \in BOOLEAN /\ (~done => req[r].generated + 1 < MAX_NEW_TOKENS)
    BY <1>3, ConstantTypes DEF IsFinish
<1>5. queues' = MoveFront(queues, "batch", to) /\ req' = [req EXCEPT ![r] = new]
    BY DEF Respond
<1> HIDE DEF done
<1>6. /\ rec \in ReqType /\ rec.generated = req[r].generated + 1
      /\ rec.responses = rec.generated /\ rec.finals = (IF done THEN 1 ELSE 0)
      /\ rec.kv_residency = "Gpu" /\ rec.cpu_blocks = 0 /\ rec.blocks = req[r].blocks
    <2> DEFINE old == req[r]
               g == old.generated + 1
               f == IF done THEN old.finals + 1 ELSE old.finals
    <2>1. f \in Nat /\ f = (IF done THEN 1 ELSE 0) /\ g \in Nat /\ g = old.responses + 1
        BY <1>3, <1>4
    <2>2. rec = [old EXCEPT !.generated = g, !.responses = g, !.finals = f]
        BY <1>2, <2>1 DEF Counted, ReqType
    <2>3. old \in ReqType /\ old.kv_residency = "Gpu" /\ old.cpu_blocks = 0
        BY <1>2, <1>3
    <2> HIDE DEF f, g, old, rec
    <2>4. /\ rec \in ReqType /\ rec.generated = g /\ rec.responses = g /\ rec.finals = f
          /\ rec.kv_residency = "Gpu" /\ rec.cpu_blocks = 0 /\ rec.blocks = old.blocks
        BY <2>1, <2>2, <2>3 DEF ReqType
    <2> QED BY <2>1, <2>4 DEF g, old
<1> HIDE DEF rec
<1>7. new \in ReqType /\ RecOK(new, prompts_len[r])
      /\ new.state = (IF done THEN "Finished" ELSE "DecodeReady")
    <2>1. rec.generated \in Nat /\ rec.generated <= MAX_NEW_TOKENS
          /\ (~done => rec.generated < MAX_NEW_TOKENS)
        BY <1>3, <1>4, <1>6, ConstantTypes
    <2>2. CASE done
        <3>1. new = Finished(rec)
            BY <2>2
        <3> HIDE DEF new
        <3>2. /\ new \in ReqType /\ new.state = "Finished" /\ HoldsNothing(new)
              /\ new.generated = rec.generated /\ new.responses = rec.responses
              /\ new.finals = rec.finals
            BY <1>6, <3>1 DEF Finished, ReqType, States, HoldsNothing
        <3> QED BY <1>6, <2>1, <2>2, <3>2 DEF RecOK
    <2>3. CASE ~done
        <3>1. new = [rec EXCEPT !.state = "DecodeReady", !.tokens = cached]
            BY <2>3
        <3> HIDE DEF new
        <3>2. /\ new \in ReqType /\ new.state = "DecodeReady" /\ new.tokens = cached
              /\ new.generated = rec.generated /\ new.responses = rec.responses
              /\ new.finals = rec.finals /\ new.kv_residency = "Gpu" /\ new.cpu_blocks = 0
              /\ new.blocks = req[r].blocks
            BY <1>6, <3>1 DEF ReqType, States
        <3>3. OnGpu(new, new.tokens)
            BY <3>2 DEF OnGpu
        <3> QED BY <1>6, <2>1, <2>3, <3>2, <3>3 DEF RecOK
    <2> QED BY <1>4, <2>2, <2>3
<1> HIDE DEF new
<1>8. /\ req' \in [Requests -> ReqType] /\ req'[r] = new
      /\ \A s \in Requests \ {r} : req'[s] = req[s]
    BY <1>1, <1>5, <1>7 DEF RequestInv
<1>9. queues' = MoveAt(queues, 1, "batch", to)
      /\ to \in QueueNames /\ to # "batch" /\ to \in {"finish", continue}
      /\ new.state \in Expected[to].state
    BY <1>4, <1>5, <1>7, Names, ExpectedStates DEF MoveFront
<1> HIDE DEF to
<1>10. Moved(queues, queues', {r}, "batch", to)
    BY <1>1, <1>9, MoveAtOK, Names DEF RequestInv
<1>11. RequestInv'
    BY <1>1, <1>7, <1>8, <1>9, OneMovedKeeps, Names
<1> QED BY <1>8, <1>9, <1>10, <1>11

LEMMA DecodeOutKeeps == ASSUME IInv, DecodeOut PROVE IInv'
<1>1. RequestInv /\ ControlInv /\ pc = "decode_out" /\ prompts_len' = prompts_len /\ left' = left
    BY DEF IInv, DecodeOut
<1>2. CASE queues["batch"] = <<>>
    <2>1. RequestInv'
        BY <1>1, <1>2, QuietKeeps DEF DecodeOut, Quiet
    <2>2. ControlInv'
        BY <1>1, <1>2, AfterSwapInPlaces DEF DecodeOut, ControlInv, Places
    <2> QED BY <2>1, <2>2 DEF IInv
<1>3. CASE queues["batch"] # <<>>
    <2> DEFINE r == Head(queues["batch"])
    <2>1. PICK eos \in BOOLEAN : Respond(r, eos, req[r].tokens + 1, "next_decode")
        BY <1>3 DEF DecodeOut
    <2>2. r \in Requests /\ r \in ToSet(queues["batch"])
        BY <1>1, <1>3, Lengths, Names
    <2> HIDE DEF r
    <2>3. req[r].state = "DecodeRunning" /\ RecOK(req[r], prompts_len[r]) /\ req[r] \in ReqType
        BY <1>1, <2>2 DEF RequestInv, ControlInv
    <2>4. req[r].tokens + 1 \in Nat \ {0} /\ Fits(req[r].tokens + 1, req[r].blocks)
        BY <2>3 DEF RecOK, OnGpu, ReqType
    <2>5. /\ RequestInv' /\ \A s \in Requests \ {r} : req'[s] = req[s]
          /\ \E to \in {"finish", "next_decode"} : Moved(queues, queues', {r}, "batch", to)
        <3>1. r = Head(queues["batch"])
            BY DEF r
        <3> QED BY <1>1, <1>3, <2>1, <2>4, <3>1, RespondKeeps
    <2>6. PICK to \in {"finish", "next_decode"} : Moved(queues, queues', {r}, "batch", to)
        BY <2>5
    <2>7. /\ ToSet(queues'["batch"]) = ToSet(queues["batch"]) \ {r}
          /\ queues'["decode"] = queues["decode"] /\ queues'["prefill"] = queues["prefill"]
        <3>1. CASE to = "finish"
            BY <2>6, <3>1, Names DEF Moved
        <3>2. CASE to = "next_decode"
            BY <2>6, <3>2, Names DEF Moved
        <3> QED BY <3>1, <3>2
    <2>8. \A s \in ToSet(queues'["batch"]) : req'[s].state = "DecodeRunning"
        <3> TAKE s \in ToSet(queues'["batch"])
        <3>1. s \in Requests /\ s # r /\ req[s].state = "DecodeRunning"
            BY <1>1, <2>7, Lengths, Names DEF ControlInv
        <3> QED BY <2>5, <3>1
    <2>9. pc' = pc
        BY <1>3 DEF DecodeOut
    <2>10. ControlInv'
        BY <1>1, <2>7, <2>8, <2>9, AfterSwapInPlaces DEF ControlInv
    <2> QED BY <2>5, <2>10 DEF IInv
<1> QED BY <1>2, <1>3

LEMMA PrefillOutKeeps == ASSUME IInv, PrefillOut PROVE IInv'
<1>1. RequestInv /\ ControlInv /\ pc = "prefill_out" /\ prompts_len' = prompts_len /\ left' = left
    BY DEF IInv, PrefillOut
<1>2. CASE queues["batch"] = <<>>
    <2>1. RequestInv'
        BY <1>1, <1>2, QuietKeeps DEF PrefillOut, Quiet
    <2>2. ControlInv'
        BY <1>1, <1>2, AfterSwapInPlaces DEF PrefillOut, ControlInv, Places, ToSet
    <2> QED BY <2>1, <2>2 DEF IInv
<1>3. CASE queues["batch"] # <<>>
    <2> DEFINE r == Head(queues["batch"])
    <2>1. PICK eos \in BOOLEAN : Respond(r, eos, prompts_len[r], "decode")
        BY <1>3 DEF PrefillOut
    <2>2. r \in Requests /\ r \in ToSet(queues["batch"])
        BY <1>1, <1>3, Lengths, Names
    <2> HIDE DEF r
    <2>3. req[r].state = "PrefillRunning" /\ RecOK(req[r], prompts_len[r]) /\ req[r] \in ReqType
          /\ prompts_len[r] \in Nat \ {0}
        BY <1>1, <2>2, ConstantTypes DEF RequestInv, ControlInv
    <2>4. Fits(prompts_len[r], req[r].blocks)
        BY <2>3 DEF RecOK, OnGpu, ReqType
    <2>5. /\ RequestInv' /\ \A s \in Requests \ {r} : req'[s] = req[s]
          /\ \E to \in {"finish", "decode"} : Moved(queues, queues', {r}, "batch", to)
        <3>1. r = Head(queues["batch"])
            BY DEF r
        <3> QED BY <1>1, <1>3, <2>1, <2>3, <2>4, <3>1, RespondKeeps
    <2>6. PICK to \in {"finish", "decode"} : Moved(queues, queues', {r}, "batch", to)
        BY <2>5
    <2>7. /\ ToSet(queues'["batch"]) = ToSet(queues["batch"]) \ {r}
          /\ queues'["next_decode"] = queues["next_decode"]
          /\ queues'["prefill"] = queues["prefill"]
        <3>1. CASE to = "finish"
            BY <2>6, <3>1, Names DEF Moved
        <3>2. CASE to = "decode"
            BY <2>6, <3>2, Names DEF Moved
        <3> QED BY <3>1, <3>2
    <2>8. \A s \in ToSet(queues'["batch"]) : req'[s].state = "PrefillRunning"
        <3> TAKE s \in ToSet(queues'["batch"])
        <3>1. s \in Requests /\ s # r /\ req[s].state = "PrefillRunning"
            BY <1>1, <2>7, Lengths, Names DEF ControlInv
        <3> QED BY <2>5, <3>1
    <2>9. pc' = pc
        BY <1>3 DEF PrefillOut
    <2>10. ControlInv'
        BY <1>1, <2>7, <2>8, <2>9, AfterSwapInPlaces DEF ControlInv
    <2> QED BY <2>5, <2>10 DEF IInv
<1> QED BY <1>2, <1>3

LEMMA DecodeDoneKeeps == ASSUME IInv, DecodeDone PROVE IInv'
<1> DEFINE n == Len(queues["next_decode"])
<1>1. RequestInv /\ ControlInv
    BY DEF IInv
<1>2. n \in Nat /\ n \in 0..n /\ Len(queues["swap_out"]) \in Nat
    BY <1>1, Lengths, Names
<1>3. queues' = MoveFirst(queues, n, "next_decode", "decode")
    BY DEF DecodeDone
<1>4. \E X : Moved(queues, queues', X, "next_decode", "decode")
    BY <1>1, <1>2, <1>3, MoveFirstOK, Names DEF RequestInv
<1>5. Len(queues'["next_decode"]) = 0
    <2>1. Len(queues'["next_decode"]) = n - n
        BY <1>1, <1>2, <1>3, MoveFirstOK, Names DEF RequestInv
    <2> QED BY <1>2, <2>1
<1>6. RequestInv'
    BY <1>1, <1>4, OnlyMovedKeeps, Names, ExpectedStates DEF DecodeDone
<1>7. queues'["next_decode"] = <<>>
    BY <1>5, <1>6, Names DEF RequestInv, QueuesOK
<1>8. /\ queues'["swap_out"] = queues["swap_out"] /\ queues'["batch"] = queues["batch"]
      /\ queues'["prefill"] = queues["prefill"]
    BY <1>4, Names DEF Moved
<1>9. ControlInv'
    BY <1>1, <1>2, <1>7, <1>8, AfterSwapInPlaces
       DEF DecodeDone, ControlInv, GoToLoop, Places, ToSet
<1> QED BY <1>6, <1>9 DEF IInv

LEMMA RunPrefillKeeps == ASSUME IInv, RunPrefill PROVE IInv'
<1> DEFINE n == Lesser(MAX_BATCH_NUM, Len(queues["prefill"]))
<1>1. RequestInv /\ ControlInv
    BY DEF IInv
<1>2. n \in 0..Len(queues["prefill"])
    BY <1>1, Lengths, Names, ConstantTypes DEF Lesser
<1>3. queues' = MoveFirst(queues, n, "prefill", "batch")
    BY DEF RunPrefill
<1> HIDE DEF n
<1>4. PICK X : Moved(queues, queues', X, "prefill", "batch")
    BY <1>1, <1>2, <1>3, MoveFirstOK, Names DEF RequestInv
<1>5. RequestInv'
    BY <1>1, <1>4, OnlyMovedKeeps, Names, ExpectedStates DEF RunPrefill
<1>6. ToSet(queues'["batch"]) \subseteq ToSet(queues["prefill"])
    <2>1. queues["batch"] = <<>> /\ ToSet(queues["batch"]) = {}
        BY <1>1 DEF RunPrefill, ControlInv, ToSet
    <2> QED BY <1>4, <2>1 DEF Moved
<1>7. queues'["next_decode"] = queues["next_decode"]
    BY <1>4, Names DEF Moved
<1>8. \A r \in ToSet(queues'["batch"]) : req'[r].state = "PrefillRunning"
    BY <1>1, <1>6, Names, ExpectedStates DEF RunPrefill, RequestInv
<1>9. ControlInv'
    BY <1>1, <1>7, <1>8, AfterSwapInPlaces DEF RunPrefill, ControlInv, GoTo, Places
<1> QED BY <1>5, <1>9 DEF IInv

\* allocate_prefill for a request that waits.
LEMMA PrefillAdmittedOK ==
    ASSUME RequestInv, NEW r \in Requests, PrefillAdmitted(r),
           req[r].state \in {"WaitingPrefill", "DeferredPrefillKV"}
    PROVE  /\ req' \in [Requests -> ReqType]
           /\ \A s \in Requests \ {r} : req'[s] = req[s]
           /\ RecOK(req'[r], prompts_len[r]) /\ req'[r].state = "PrefillRunning"
<1> DEFINE p == prompts_len[r]
           b == CeilDiv(p, B)
           rec == [req[r] EXCEPT !.state = "PrefillRunning", !.kv_residency = "Gpu", !.blocks = b]
<1>1. /\ req[r] \in ReqType /\ RecOK(req[r], p) /\ p \in Nat \ {0}
    BY ConstantTypes DEF RequestInv
<1>2. b \in Nat /\ Fits(p, b)
    BY <1>1, FitsCeil
<1>3. req' = [req EXCEPT ![r] = rec]
    BY DEF PrefillAdmitted, RequestInv, B
<1> HIDE DEF b, p
<1>4. /\ rec \in ReqType /\ rec.state = "PrefillRunning" /\ rec.kv_residency = "Gpu"
      /\ rec.blocks = b /\ rec.tokens = req[r].tokens /\ rec.cpu_blocks = req[r].cpu_blocks
      /\ rec.generated = req[r].generated /\ rec.responses = req[r].responses
      /\ rec.finals = req[r].finals
    BY <1>1, <1>2 DEF ReqType, States
<1> HIDE DEF rec
<1>5. /\ req[r].tokens = 0 /\ req[r].cpu_blocks = 0 /\ req[r].responses = req[r].generated
      /\ req[r].finals = 0 /\ req[r].generated < MAX_NEW_TOKENS /\ req[r].generated \in Nat
    BY <1>1 DEF RecOK, HoldsNothing, ReqType
<1>6. RecOK(rec, p)
    BY <1>1, <1>2, <1>4, <1>5, ConstantTypes DEF RecOK, OnGpu
<1> QED BY <1>3, <1>4, <1>6 DEF RequestInv, p

LEMMA RetryDeferredPrefillKeeps == ASSUME IInv, RetryDeferredPrefill PROVE IInv'
<1> DEFINE r == Head(queues["deferred_prefill"])
           n == Len(queues["deferred_prefill"])
<1>1. RequestInv /\ ControlInv
    BY DEF IInv
<1>2. /\ pc = "retry_prefill" /\ pc' = pc /\ left' = left - 1 /\ left \in Nat /\ left > 0
      /\ n \in Nat /\ left <= n /\ prompts_len' = prompts_len
    BY <1>1, Lengths, Names DEF RetryDeferredPrefill, Iterate, ControlInv
<1>3. /\ queues["deferred_prefill"] # <<>> /\ 1 \in 1..n
      /\ r = queues["deferred_prefill"][1] /\ r \in Requests
      /\ r \in ToSet(queues["deferred_prefill"])
    BY <1>1, <1>2, Lengths, Names
<1>4. req[r].state = "DeferredPrefillKV"
    BY <1>1, <1>3, Names, ExpectedStates DEF RequestInv
<1>5. CASE /\ PrefillAdmitted(r)
           /\ queues' = [queues EXCEPT !["deferred_prefill"] = Tail(@), !["prefill"] = <<r>> \o @]
    <2>1. /\ req' \in [Requests -> ReqType]
          /\ \A s \in Requests \ {r} : req'[s] = req[s]
          /\ RecOK(req'[r], prompts_len[r]) /\ req'[r].state = "PrefillRunning"
        <3> HIDE DEF r
        <3> QED BY <1>1, <1>3, <1>4, <1>5, PrefillAdmittedOK
    <2>2. queues' = [queues EXCEPT !["deferred_prefill"] = Tail(queues["deferred_prefill"]),
                                   !["prefill"] = <<r>> \o queues["prefill"]]
        BY <1>5
    <2>3. Moved(queues, queues', {r}, "deferred_prefill", "prefill")
          /\ Len(queues'["deferred_prefill"]) = n - 1
        <3>1. queues' = MoveToFront(queues, "deferred_prefill", "prefill")
            BY <2>2 DEF MoveToFront
        <3>2. /\ QueuesOK(queues) /\ queues["deferred_prefill"] # <<>>
              /\ "deferred_prefill" \in QueueNames /\ "prefill" \in QueueNames
            BY <1>1, <1>3, Names DEF RequestInv
        <3>3. /\ Moved(queues, queues', {Head(queues["deferred_prefill"])}, "deferred_prefill", "prefill")
              /\ Len(queues'["deferred_prefill"]) = Len(queues["deferred_prefill"]) - 1
            BY ONLY <3>1, <3>2, MoveToFrontOK
        <3>4. Head(queues["deferred_prefill"]) = r
            BY <1>3
        <3> QED BY <3>3, <3>4
    <2> HIDE DEF r
    <2>4. RequestInv'
        BY <1>1, <1>2, <1>3, <2>1, <2>3, MovedKeeps, Names, ExpectedStates
    <2>5. queues'["batch"] = queues["batch"] /\ queues'["next_decode"] = queues["next_decode"]
        BY <2>3, Names DEF Moved
    <2>6. queues["batch"] = <<>>
        BY <1>1, <1>2 DEF ControlInv
    <2>7. ControlInv'
        BY <1>1, <1>2, <2>3, <2>5, <2>6, AfterSwapInPlaces DEF ControlInv, Places, ToSet
    <2> QED BY <2>4, <2>7 DEF IInv
<1>6. CASE /\ queues' = MoveFront(queues, "deferred_prefill", "deferred_prefill") /\ req' = req
    <2>1. queues' = MoveAt(queues, 1, "deferred_prefill", "deferred_prefill")
        BY <1>6 DEF MoveFront
    <2>2. RequestInv'
        BY <1>1, <1>2, <1>3, <1>6, <2>1, RotatedKeeps, Names
    <2>3. /\ Len(queues'["deferred_prefill"]) = n
          /\ \A q \in QueueNames \ {"deferred_prefill"} : queues'[q] = queues[q]
        BY <1>1, <1>3, <2>1, RotateOK, Names DEF RequestInv
    <2>4. ControlInv'
        BY <1>1, <1>2, <1>6, <2>3, Names, AfterSwapInPlaces DEF ControlInv, Places
    <2> QED BY <2>2, <2>4 DEF IInv
<1> QED BY <1>5, <1>6 DEF RetryDeferredPrefill

LEMMA AdmitWaitingPrefillKeeps == ASSUME IInv, AdmitWaitingPrefill PROVE IInv'
<1> DEFINE r == Head(queues["waiting_prefill"])
           n == Len(queues["waiting_prefill"])
<1>1. RequestInv /\ ControlInv
    BY DEF IInv
<1>2. /\ pc = "admit" /\ left \in Nat /\ left > 0
      /\ n \in Nat /\ left <= n /\ prompts_len' = prompts_len /\ queues["batch"] = <<>>
    BY <1>1, Lengths, Names DEF AdmitWaitingPrefill, ControlInv
<1>3. /\ 1 \in 1..n /\ r = queues["waiting_prefill"][1]
      /\ r \in Requests /\ r \in ToSet(queues["waiting_prefill"])
    BY <1>1, <1>2, Lengths, Names
<1>4. req[r] \in ReqType /\ RecOK(req[r], prompts_len[r]) /\ req[r].state = "WaitingPrefill"
    BY <1>1, <1>3, Names, ExpectedStates DEF RequestInv
<1>5. CASE /\ PrefillAdmitted(r) /\ queues' = MoveFront(queues, "waiting_prefill", "prefill")
           /\ Iterate
    <2> HIDE DEF r
    <2>1. /\ req' \in [Requests -> ReqType]
          /\ \A s \in Requests \ {r} : req'[s] = req[s]
          /\ RecOK(req'[r], prompts_len[r]) /\ req'[r].state = "PrefillRunning"
        BY <1>1, <1>3, <1>4, <1>5, PrefillAdmittedOK
    <2>2. queues' = MoveAt(queues, 1, "waiting_prefill", "prefill")
        BY <1>5 DEF MoveFront
    <2>3. RequestInv'
        BY <1>1, <1>2, <1>3, <2>1, <2>2, OneMovedKeeps, Names, ExpectedStates
    <2>4. /\ Len(queues'["waiting_prefill"]) = n - 1
          /\ queues'["batch"] = queues["batch"]
          /\ queues'["next_decode"] = queues["next_decode"]
        BY <1>1, <1>3, <2>2, MoveAtOK, Names DEF RequestInv, Moved
    <2>5. ControlInv'
        BY <1>1, <1>2, <1>5, <2>4, AfterSwapInPlaces DEF ControlInv, Places, Iterate, ToSet
    <2> QED BY <2>3, <2>5 DEF IInv
<1>6. CASE /\ queues' = MoveFront(queues, "waiting_prefill", "deferred_prefill")
           /\ req' = [req EXCEPT ![r].state = "DeferredPrefillKV"]
           /\ GoTo("prefill")
    <2> DEFINE rec == [req[r] EXCEPT !.state = "DeferredPrefillKV"]
    <2>1. req' = [req EXCEPT ![r] = rec]
        BY <1>1, <1>3, <1>6 DEF RequestInv
    <2>2. rec \in ReqType /\ RecOK(rec, prompts_len[r]) /\ rec.state = "DeferredPrefillKV"
        BY <1>4, ConstantTypes DEF ReqType, RecOK, HoldsNothing, States
    <2> HIDE DEF rec, r
    <2>3. /\ req' \in [Requests -> ReqType] /\ req'[r] = rec
          /\ \A s \in Requests \ {r} : req'[s] = req[s]
        BY <1>1, <1>3, <2>1, <2>2 DEF RequestInv
    <2>4. queues' = MoveAt(queues, 1, "waiting_prefill", "deferred_prefill")
        BY <1>6 DEF MoveFront
    <2>5. RequestInv'
        BY <1>1, <1>2, <1>3, <2>2, <2>3, <2>4, OneMovedKeeps, Names, ExpectedStates
    <2>6. /\ queues'["batch"] = queues["batch"]
          /\ queues'["next_decode"] = queues["next_decode"]
        BY <1>1, <1>3, <2>4, MoveAtOK, Names DEF RequestInv, Moved
    <2>7. ControlInv'
        BY <1>1, <1>2, <1>6, <2>6, AfterSwapInPlaces DEF ControlInv, Places, GoTo, ToSet
    <2> QED BY <2>5, <2>7 DEF IInv
<1> QED BY <1>5, <1>6 DEF AdmitWaitingPrefill

LEMMA MinOK ==
    ASSUME NEW S \in SUBSET Nat, S # {}
    PROVE  Min(S) \in S /\ \A n \in S : Min(S) <= n
<1>1. PICK m \in S : \A n \in S : <<n, m>> \notin OpToRel(<, Nat)
    BY NatLessThanWellFounded, WFMin
<1>2. \A n \in S : m <= n
    <2> TAKE n \in S
    <2>1. n \in Nat /\ m \in Nat /\ ~(n < m)
        BY <1>1, Zenon DEF OpToRel
    <2> QED BY <2>1
<1> QED BY <1>2 DEF Min

LEMMA SwapOutVictimKeeps == ASSUME IInv, SwapOutVictim PROVE IInv'
<1> DEFINE q == VictimQueue[pc]
           i == Min(Victims(q))
           r == queues[q][i]
<1>1. RequestInv /\ ControlInv
    BY DEF IInv
<1>2. /\ pc \in {"victim", "victim_2"} /\ q \in {"deferred_decode", "decode"} /\ q \in QueueNames
      /\ Victims(q) # {} /\ prompts_len' = prompts_len
    <2>1. pc \in DOMAIN VictimQueue /\ Victims(q) # {} /\ prompts_len' = prompts_len
        BY Zenon DEF SwapOutVictim
    <2>2. /\ DOMAIN VictimQueue = {"victim", "victim_2"}
          /\ VictimQueue["victim"] = "deferred_decode" /\ VictimQueue["victim_2"] = "decode"
        BY DEF VictimQueue
    <2> QED BY <2>1, <2>2, Names
<1>3. i \in 1..Len(queues[q]) /\ i \in DOMAIN queues[q]
    <2> HIDE DEF q
    <2>1. queues[q] \in Seq(Requests) /\ DOMAIN queues[q] = 1..Len(queues[q])
        BY <1>1, <1>2, Lengths
    <2>2. Victims(q) \in SUBSET Nat /\ Victims(q) \subseteq DOMAIN queues[q]
        BY <2>1 DEF Victims
    <2> QED BY <1>2, <2>1, <2>2, MinOK
<1>4. r \in ToSet(queues[q]) /\ r \in Requests
    <2> HIDE DEF q, i
    <2>1. r \in ToSet(queues[q])
        BY <1>3 DEF ToSet
    <2> QED BY <1>1, <1>2, <2>1, Lengths
<1>5. req[r].state \in {"DeferredDecodeKV", "DecodeReady"} /\ req[r] \in ReqType
      /\ RecOK(req[r], prompts_len[r])
    <2> HIDE DEF i, r
    <2>1. req[r].state \in Expected[q].state
        BY <1>1, <1>2, <1>4 DEF RequestInv
    <2> QED BY <1>1, <1>2, <1>4, <2>1, ExpectedStates DEF RequestInv
<1>7. CASE /\ queues' = MoveAt(queues, i, q, "swap_out")
           /\ req' = [req EXCEPT ![r].state = "SwappedOut", ![r].kv_residency = "Cpu",
                                 ![r].cpu_blocks = req[r].blocks, ![r].blocks = 0]
           /\ OneVictimIsEnough
    <2> DEFINE rec == [req[r] EXCEPT !.state = "SwappedOut", !.kv_residency = "Cpu",
                                     !.cpu_blocks = req[r].blocks, !.blocks = 0]
    <2> HIDE DEF i, q
    <2>1. req' = [req EXCEPT ![r] = rec]
        BY <1>1, <1>4, <1>7 DEF RequestInv
    <2> HIDE DEF r
    <2>2. rec \in ReqType /\ RecOK(rec, prompts_len[r]) /\ rec.state = "SwappedOut"
        BY <1>5, ConstantTypes DEF ReqType, RecOK, OnGpu, OnCpu, States
    <2> HIDE DEF rec
    <2>3. /\ req' \in [Requests -> ReqType] /\ req'[r] = rec
          /\ \A s \in Requests \ {r} : req'[s] = req[s]
        BY <1>1, <1>4, <2>1, <2>2 DEF RequestInv
    <2>4. RequestInv'
        <3>1. r = queues[q][i] /\ q # "swap_out"
            BY <1>2 DEF r
        <3> QED BY <1>1, <1>2, <1>3, <1>7, <2>2, <2>3, <3>1, OneMovedKeeps, Names, ExpectedStates, Zenon
    <2>5. \A p \in QueueNames \ {q, "swap_out"} : queues'[p] = queues[p]
        <3>1. /\ QueuesOK(queues) /\ q \in QueueNames /\ "swap_out" \in QueueNames
              /\ q # "swap_out" /\ i \in 1..Len(queues[q])
            BY <1>1, <1>2, <1>3, Names DEF RequestInv
        <3>2. Moved(queues, MoveAt(queues, i, q, "swap_out"), {queues[q][i]}, q, "swap_out")
            BY <3>1, MoveAtOK
        <3> QED BY <1>7, <3>2 DEF Moved
    <2>6. queues["batch"] = <<>> /\ queues["next_decode"] = <<>> /\ queues["prefill"] = <<>>
        BY <1>1, <1>2 DEF ControlInv
    <2>7. queues'["batch"] = <<>> /\ queues'["next_decode"] = <<>> /\ queues'["prefill"] = <<>>
        BY <1>2, <2>5, <2>6, Names
    <2>8. ControlInv'
        BY <1>7, <2>7, AfterSwapInPlaces
           DEF ControlInv, Places, OneVictimIsEnough, GoTo, ToSet
    <2> QED BY <2>4, <2>8 DEF IInv
<1>8. CASE /\ queues' = MoveAt(queues, i, q, q) /\ req' = req
           /\ GoTo(IF pc = "victim" THEN "victim_2" ELSE "end")
    <2> HIDE DEF i, q, r
    <2>1. RequestInv'
        BY <1>1, <1>2, <1>3, <1>8, RotatedKeeps
    <2>2. \A p \in QueueNames \ {q} : queues'[p] = queues[p]
        BY <1>1, <1>2, <1>3, <1>8, RotateOK DEF RequestInv
    <2>3. queues["batch"] = <<>> /\ queues["next_decode"] = <<>> /\ queues["prefill"] = <<>>
        BY <1>1, <1>2 DEF ControlInv
    <2>4. queues'["batch"] = <<>> /\ queues'["next_decode"] = <<>> /\ queues'["prefill"] = <<>>
        BY <1>2, <2>2, <2>3, Names
    <2>5. pc' \in {"victim_2", "end"} /\ left' = 0
        BY <1>8 DEF GoTo
    <2>6. ControlInv'
        BY <2>4, <2>5, AfterSwapInPlaces DEF ControlInv, Places, ToSet
    <2> QED BY <2>1, <2>6 DEF IInv
<1> QED BY <1>7, <1>8, Zenon DEF SwapOutVictim

LEMMA ContainsIs == ASSUME NEW s \in Seq(Requests), NEW r
                    PROVE  Contains(s, r) <=> r \in ToSet(s)
<1>1. DOMAIN s = 1..Len(s)
    BY LenProperties
<1> QED BY <1>1 DEF Contains, ToSet

LEMMA SubmittedIs == ASSUME RequestInv, NEW r \in Requests
                     PROVE  r \in Submitted <=> InSomeQueue(r)
<1>1. \A q \in QueueNames : queues[q] \in Seq(Requests)
    BY DEF RequestInv, QueuesOK
<1>2. \A q \in QueueNames : Contains(queues[q], r) <=> r \in ToSet(queues[q])
    BY <1>1, ContainsIs
<1> QED BY <1>2 DEF Submitted, InSomeQueue

LEMMA SubmitKeeps == ASSUME IInv, NEW r \in Requests, Submit(r) PROVE IInv'
<1> DEFINE a == Cardinality(Submitted) + 1
           rec == [req[r] EXCEPT !.arrival = a]
           t == Append(queues["request"], r)
<1>1. RequestInv /\ ControlInv
    BY DEF IInv
<1>2. a \in Nat
    <2>1. Submitted \subseteq Requests
        BY DEF Submitted
    <2>2. IsFiniteSet(Submitted)
        BY <2>1, ConstantTypes, FS_Subset
    <2> QED BY <2>2, FS_CardinalityType
<1>3. ~InSomeQueue(r) /\ req[r] = NewRequest /\ r \notin ToSet(queues["request"])
    BY <1>1, SubmittedIs, Names DEF Submit, RequestInv, InSomeQueue
<1>4. req' = [req EXCEPT ![r] = rec] /\ queues' = [queues EXCEPT !["request"] = t]
    BY <1>1 DEF Submit, RequestInv
<1>5. /\ prompts_len' = prompts_len /\ pc' = pc /\ left' = left
    BY DEF Submit
<1> HIDE DEF a
<1>6. rec \in ReqType /\ RecOK(rec, prompts_len[r]) /\ rec.state = "WaitingPrefill"
    <2>1. req[r] \in ReqType /\ RecOK(req[r], prompts_len[r]) /\ req[r].state = "WaitingPrefill"
        BY <1>1, <1>3 DEF RequestInv, NewRequest
    <2> QED BY <1>2, <2>1 DEF ReqType, RecOK, HoldsNothing
<1>7. t \in Seq(Requests) /\ IsInjective(t) /\ ToSet(t) = ToSet(queues["request"]) \cup {r}
    BY <1>1, <1>3, AppendOK, Names DEF RequestInv, QueuesOK
<1> HIDE DEF rec, t
<1>8. queues'["request"] = t /\ \A q \in QueueNames \ {"request"} : queues'[q] = queues[q]
    BY <1>1, <1>4, Names DEF RequestInv, QueuesOK
<1>9. QueuesOK(queues')
    <2>1. queues' \in [QueueNames -> Seq(Requests)]
        BY <1>1, <1>4, <1>7 DEF RequestInv, QueuesOK
    <2>2. \A q \in QueueNames : IsInjective(queues'[q])
        BY <1>1, <1>7, <1>8 DEF RequestInv, QueuesOK
    <2>3. \A q \in QueueNames : r \notin ToSet(queues[q])
        BY <1>3 DEF InSomeQueue
    <2>4. \A q1, q2 \in QueueNames : q1 # q2 => ToSet(queues'[q1]) \cap ToSet(queues'[q2]) = {}
        <3>1. \A q1, q2 \in QueueNames : q1 # q2 => ToSet(queues[q1]) \cap ToSet(queues[q2]) = {}
            BY <1>1 DEF RequestInv, QueuesOK
        <3>2. \A q \in QueueNames : ToSet(queues'[q]) = IF q = "request"
                                                        THEN ToSet(queues["request"]) \cup {r}
                                                        ELSE ToSet(queues[q])
            BY <1>7, <1>8
        <3> QED BY <2>3, <3>1, <3>2
    <2> QED BY <2>1, <2>2, <2>4 DEF QueuesOK
<1>10. /\ req' \in [Requests -> ReqType] /\ req'[r] = rec
       /\ \A s \in Requests \ {r} : req'[s] = req[s]
    BY <1>1, <1>4, <1>6 DEF RequestInv
<1>11. ASSUME NEW q \in QueueNames, NEW s \in ToSet(queues'[q])
       PROVE  req'[s].state \in Expected[q].state
    <2>1. CASE s = r
        <3>1. q = "request"
            BY <1>3, <1>8, <1>11, <2>1 DEF InSomeQueue
        <3> QED BY <1>6, <1>10, <2>1, <3>1, ExpectedStates
    <2>2. CASE s # r
        <3>1. s \in ToSet(queues[q])
            BY <1>7, <1>8, <1>11, <2>2
        <3>2. s \in Requests
            BY <1>1, <3>1, Lengths
        <3> QED BY <1>1, <1>10, <2>2, <3>1, <3>2 DEF RequestInv
    <2> QED BY <2>1, <2>2
<1>12. ASSUME NEW s \in Requests, ~InSomeQueue(s)' PROVE req'[s] = NewRequest
    <2>1. \A q \in QueueNames : ToSet(queues[q]) \subseteq ToSet(queues'[q])
        BY <1>7, <1>8
    <2>2. s # r /\ ~InSomeQueue(s)
        BY <1>7, <1>8, <1>12, <2>1, Names DEF InSomeQueue
    <2> QED BY <1>1, <1>10, <2>2 DEF RequestInv
<1>13. RequestInv'
    <2>1. \A s \in Requests : RecOK(req'[s], prompts_len'[s])
        BY <1>1, <1>5, <1>6, <1>10 DEF RequestInv
    <2> QED BY <1>1, <1>5, <1>9, <1>10, <1>11, <1>12, <2>1 DEF RequestInv
<1>14. ControlInv'
    <2>1. \A q \in QueueNames \ {"request"} : queues'[q] = queues[q]
        BY <1>8
    <2>2. \A s \in ToSet(queues["batch"]) : s \in Requests /\ s # r
        BY <1>1, <1>3, Names, Lengths DEF InSomeQueue
    <2>3. \A s \in ToSet(queues["batch"]) : req'[s] = req[s]
        BY <1>10, <2>2
    <2>4. /\ queues'["swap_out"] = queues["swap_out"] /\ queues'["decode"] = queues["decode"]
          /\ queues'["deferred_prefill"] = queues["deferred_prefill"]
          /\ queues'["waiting_prefill"] = queues["waiting_prefill"]
          /\ queues'["batch"] = queues["batch"]
          /\ queues'["next_decode"] = queues["next_decode"]
          /\ queues'["prefill"] = queues["prefill"]
        BY <2>1, Names
    <2> QED BY <1>1, <1>5, <2>3, <2>4 DEF ControlInv
<1> QED BY <1>13, <1>14 DEF IInv

\* The event loop and the thread that stops touch no request.
OtherThreads == ServeAsync \/ ReadResponses \/ LeaveCallback
                \/ ServerClose \/ StopRunning \/ CloseQueue \/ Join

LEMMA UnchangedKeeps ==
    ASSUME IInv, UNCHANGED <<queues, req, prompts_len, pc, left>>
    PROVE  IInv'
<1>1. RequestInv'
    BY QuietKeeps DEF IInv, Quiet
<1>2. ControlInv'
    BY DEF IInv, ControlInv
<1> QED BY <1>1, <1>2 DEF IInv

LEMMA NextKeeps == ASSUME IInv, [Next]_vars PROVE IInv'
<1>1. CASE Worker
    BY <1>1, QuietWorkerKeeps, DrainKeeps, SwapInKeeps, RetryDeferredDecodeKeeps,
       AdmitDecodeKeeps, DecodeOutKeeps, DecodeDoneKeeps, RetryDeferredPrefillKeeps,
       AdmitWaitingPrefillKeeps, RunPrefillKeeps, PrefillOutKeeps, SwapOutVictimKeeps, WaitKeeps
       DEF Worker
<1>2. CASE \E r \in Requests : Submit(r)
    BY <1>2, SubmitKeeps
<1>3. CASE OtherThreads \/ UNCHANGED vars
    <2>1. UNCHANGED <<queues, req, prompts_len, pc, left>>
        BY <1>3 DEF OtherThreads, ServeAsync, ReadResponses, LeaveCallback, ServerClose,
                    StopRunning, CloseQueue, Join, vars, internal
    <2> QED BY <2>1, UnchangedKeeps
<1> QED BY <1>1, <1>2, <1>3 DEF Next, OtherThreads
-----------------------------------------------------------------------------
\* What a request holds follows from its state and its state from its queue, and
\* the loops of worker_loop never ask a queue for more than it has, whatever
\* the sizes of the pools, of the blocks and of the batches.
THEOREM InvariantHolds == Spec => []IInv
<1>1. IInv /\ [Next]_vars => IInv'
    BY NextKeeps
<1> QED BY InitOK, <1>1, PTL DEF Spec

\* No move between the containers of worker_loop duplicates or drops a request:
\* the unique_ptr discipline, for any number of requests.
THEOREM EachRequestInOneQueue == Spec => []OneQueuePerRequest
<1>1. IInv => OneQueuePerRequest
    <2> SUFFICES ASSUME IInv PROVE OneQueuePerRequest
        OBVIOUS
    <2>1. RequestInv
        BY DEF IInv
    <2>2. \A r \in Requests : req[r].arrival > 0 => r \in Submitted
        BY <2>1, SubmittedIs DEF RequestInv, NewRequest
    <2> QED BY <2>1, <2>2 DEF RequestInv, QueuesOK, OneQueuePerRequest
<1> QED BY <1>1, InvariantHolds, PTL

\* No handler of the scheduler meets a request in a state, or with its KV cache
\* in a place, that does not go with the queue it was taken from.
THEOREM QueueTellsState == Spec => []StateMatchesQueue
<1>1. IInv => StateMatchesQueue
    <2> SUFFICES ASSUME IInv, NEW q \in QueueNames, NEW r \in ToSet(queues[q])
                 PROVE  /\ req[r].state \in Expected[q].state
                        /\ req[r].kv_residency = Expected[q].kv
                        /\ req[r].blocks > 0 <=> req[r].kv_residency = "Gpu"
                        /\ req[r].cpu_blocks > 0 <=> req[r].kv_residency = "Cpu"
        BY DEF StateMatchesQueue
    <2>1. RequestInv
        BY DEF IInv
    <2>2. r \in Requests
        BY <2>1, Lengths
    <2>3. /\ req[r].state \in Expected[q].state /\ req[r] \in ReqType
          /\ RecOK(req[r], prompts_len[r]) /\ prompts_len[r] \in Nat \ {0}
        BY <2>1, <2>2, ConstantTypes DEF RequestInv
    <2>4. CASE req[r].kv_residency = "Gpu"
        <3>1. req[r].blocks > 0
            BY <2>3, <2>4, FitsSome DEF RecOK, HoldsNothing, OnGpu, OnCpu, ReqType, States
        <3>2. req[r].cpu_blocks = 0
            BY <2>3, <2>4 DEF RecOK, HoldsNothing, OnGpu, OnCpu, ReqType, States
        <3>3. req[r].state \in {"PrefillRunning", "DecodeReady", "DeferredDecodeKV", "DecodeRunning"}
            BY <2>3, <2>4 DEF RecOK, HoldsNothing, OnCpu, ReqType, States
        <3>4. Expected[q].kv = "Gpu"
            BY <2>3, <3>3 DEF Expected, QueueNames, InternalQueues
        <3> QED BY <2>3, <2>4, <3>1, <3>2, <3>4
    <2>5. CASE req[r].kv_residency = "Cpu"
        <3>1. req[r].cpu_blocks > 0
            BY <2>3, <2>5, FitsSome DEF RecOK, HoldsNothing, OnGpu, OnCpu, ReqType, States
        <3>2. req[r].blocks = 0 /\ req[r].state = "SwappedOut"
            BY <2>3, <2>5 DEF RecOK, HoldsNothing, OnGpu, OnCpu, ReqType, States
        <3>3. Expected[q].kv = "Cpu"
            BY <2>3, <3>2 DEF Expected, QueueNames, InternalQueues
        <3> QED BY <2>3, <2>5, <3>1, <3>2, <3>3
    <2>6. CASE req[r].kv_residency = "None"
        <3>1. /\ req[r].state \in {"WaitingPrefill", "DeferredPrefillKV", "Finished"}
              /\ HoldsNothing(req[r])
            BY <2>3, <2>6 DEF RecOK, OnGpu, OnCpu, ReqType, States
        <3>2. Expected[q].kv = "None"
            BY <2>3, <3>1 DEF Expected, QueueNames, InternalQueues
        <3> QED BY <2>3, <2>6, <3>1, <3>2 DEF HoldsNothing
    <2> QED BY <2>3, <2>4, <2>5, <2>6 DEF ReqType
<1> QED BY <1>1, InvariantHolds, PTL

\* A request that runs has a row in its block table for the token the kernels
\* append, and one that does not run holds no block it does not need.
THEOREM RoomForTheNextToken == Spec => []RunningRequestsHaveRoom
<1>1. IInv => RunningRequestsHaveRoom
    <2> SUFFICES ASSUME IInv, NEW r \in Requests
                 PROVE  LET capacity_of == (req[r].blocks + req[r].cpu_blocks) * B
                            used == CASE req[r].state = "PrefillRunning" -> prompts_len[r]
                                      [] req[r].state = "DecodeRunning"  -> req[r].tokens + 1
                                      [] OTHER                           -> req[r].tokens
                        IN  used <= capacity_of /\ capacity_of < used + B
        BY DEF RunningRequestsHaveRoom, B
    <2>1. /\ req[r] \in ReqType /\ RecOK(req[r], prompts_len[r]) /\ prompts_len[r] \in Nat \ {0}
        BY ConstantTypes DEF IInv, RequestInv
    <2>2. /\ req[r].blocks \in Nat /\ req[r].cpu_blocks \in Nat /\ req[r].state \in States
          /\ B \in Nat \ {0} /\ 0 * B = 0
        BY <2>1, ConstantTypes DEF ReqType
    <2>3. CASE HoldsNothing(req[r]) /\ req[r].state \notin {"PrefillRunning", "DecodeRunning"}
        BY <2>2, <2>3 DEF HoldsNothing
    <2>4. CASE req[r].state = "PrefillRunning"
        <3>1. req[r].blocks + req[r].cpu_blocks = req[r].blocks
            BY <2>1, <2>2, <2>4 DEF RecOK, OnGpu
        <3>2. Fits(prompts_len[r], req[r].blocks)
            BY <2>1, <2>4 DEF RecOK, OnGpu
        <3> QED BY <2>4, <3>1, <3>2 DEF Fits
    <2>5. CASE req[r].state = "DecodeRunning"
        <3>1. req[r].blocks + req[r].cpu_blocks = req[r].blocks
            BY <2>1, <2>2, <2>5 DEF RecOK, OnGpu
        <3>2. Fits(req[r].tokens + 1, req[r].blocks)
            BY <2>1, <2>5 DEF RecOK, OnGpu
        <3> QED BY <2>5, <3>1, <3>2 DEF Fits
    <2>6. CASE req[r].state \in {"DecodeReady", "DeferredDecodeKV"}
        <3>1. req[r].blocks + req[r].cpu_blocks = req[r].blocks
            BY <2>1, <2>2, <2>6 DEF RecOK, OnGpu
        <3>2. Fits(req[r].tokens, req[r].blocks)
            BY <2>1, <2>6 DEF RecOK, OnGpu
        <3> QED BY <2>6, <3>1, <3>2 DEF Fits
    <2>7. CASE req[r].state = "SwappedOut"
        <3>1. req[r].blocks + req[r].cpu_blocks = req[r].cpu_blocks
            BY <2>1, <2>2, <2>7 DEF RecOK, OnCpu
        <3>2. Fits(req[r].tokens, req[r].cpu_blocks)
            BY <2>1, <2>7 DEF RecOK, OnCpu
        <3> QED BY <2>7, <3>1, <3>2 DEF Fits
    <2>8. CASE req[r].state \in {"WaitingPrefill", "DeferredPrefillKV", "Finished"}
        BY <2>1, <2>3, <2>8 DEF RecOK
    <2> QED BY <2>2, <2>4, <2>5, <2>6, <2>7, <2>8 DEF States
<1> QED BY <1>1, InvariantHolds, PTL

\* A client gets one response per token, at most max_new_tokens of them, and a
\* final one exactly when its request has been put into the finish queue.
THEOREM OneFinalResponse == Spec => []ResponsesWellFormed
<1>1. IInv => ResponsesWellFormed
    <2> SUFFICES ASSUME IInv, NEW r \in Requests
                 PROVE  /\ req[r].responses = req[r].generated
                        /\ req[r].generated <= MAX_NEW_TOKENS
                        /\ req[r].finals = IF Contains(queues["finish"], r) THEN 1 ELSE 0
        BY DEF ResponsesWellFormed
    <2>1. RequestInv /\ RecOK(req[r], prompts_len[r])
        BY DEF IInv, RequestInv
    <2>2. Contains(queues["finish"], r) <=> r \in ToSet(queues["finish"])
        BY DEF Contains, ToSet
    <2>3. r \in ToSet(queues["finish"]) <=> req[r].state = "Finished"
        <3>1. ASSUME r \in ToSet(queues["finish"]) PROVE req[r].state = "Finished"
            BY <2>1, <3>1, Names, ExpectedStates DEF RequestInv
        <3>2. ASSUME req[r].state = "Finished" PROVE r \in ToSet(queues["finish"])
            <4>1. InSomeQueue(r)
                BY <2>1, <3>2 DEF RequestInv, NewRequest
            <4>2. PICK q \in QueueNames : r \in ToSet(queues[q])
                BY <4>1 DEF InSomeQueue
            <4>3. "Finished" \in Expected[q].state
                BY <2>1, <3>2, <4>2 DEF RequestInv
            <4>4. q = "finish"
                BY <4>3, ExpectedStates DEF QueueNames, InternalQueues
            <4> QED BY <4>2, <4>4
        <3> QED BY <3>1, <3>2
    <2> QED BY <2>1, <2>2, <2>3 DEF RecOK
<1> QED BY <1>1, InvariantHolds, PTL

\* A response pushed to response_queue_ is never stranded: as long as it is
\* there, the event loop is reading, has been woken, or is about to be.
THEOREM WakeupNeverLost == Spec => []NoLostWakeup
<1>1. Init => NoLostWakeup
    BY DEF Init, NoLostWakeup
<1>2. NoLostWakeup /\ [Next]_vars => NoLostWakeup'
    <2> SUFFICES ASSUME NoLostWakeup, [Next]_vars PROVE NoLostWakeup'
        OBVIOUS
    <2>1. CASE DecodeOut \/ PrefillOut
        BY <2>1, Zenon DEF DecodeOut, PrefillOut, Respond, NoLostWakeup
    <2>2. CASE DecodeDone \/ PrefillDone
        BY <2>2, Zenon DEF DecodeDone, PrefillDone, Announce, NoLostWakeup
    <2>3. CASE ServeAsync \/ ReadResponses \/ LeaveCallback
        BY <2>3 DEF ServeAsync, ReadResponses, LeaveCallback, internal, NoLostWakeup
    <2>4. ASSUME UNCHANGED <<unread, async, reader, has_resp>> PROVE NoLostWakeup'
        BY <2>4 DEF NoLostWakeup
    <2>5. CASE \/ LoopHead \/ DrainNewRequests \/ SwapInOne \/ SwapInDone
               \/ RetryDeferredDecode \/ AdmitDecode \/ RunDecode
        BY <2>4, <2>5, Zenon DEF LoopHead, DrainNewRequests, SwapInOne, SwapInDone,
                          RetryDeferredDecode, AdmitDecode, RunDecode, shared
    <2>6. CASE \/ RetryDeferredPrefill \/ RetryPrefillDone \/ AdmitWaitingPrefill \/ AdmitDone
               \/ RunPrefill
        BY <2>4, <2>6 DEF RetryDeferredPrefill, RetryPrefillDone, AdmitWaitingPrefill, AdmitDone,
                          RunPrefill, shared
    <2>7. CASE SwapOutVictim \/ NoVictim \/ LoopEnd \/ WaitAndEnqueueOneRequest
        BY <2>4, <2>7, Zenon DEF SwapOutVictim, NoVictim, LoopEnd, WaitAndEnqueueOneRequest, shared
    <2>8. CASE (\E r \in Requests : Submit(r)) \/ ServerClose \/ StopRunning \/ CloseQueue
               \/ Join \/ UNCHANGED vars
        BY <2>4, <2>8 DEF Submit, ServerClose, StopRunning, CloseQueue, Join, shared, internal, vars
    <2> QED BY <2>1, <2>2, <2>3, <2>5, <2>6, <2>7, <2>8 DEF Next, Worker
<1> QED BY <1>1, <1>2, PTL DEF Spec
-----------------------------------------------------------------------------
(* Sums over all requests.  MapThenSumSet is a recursive function on the     *)
(* sets of requests; h says what each request holds.                         *)

Chosen(s) == CHOOSE r \in s : TRUE

IsSum(g, h) ==
    g = [s \in SUBSET Requests |->
            IF s = {} THEN 0 ELSE h[Chosen(s)] + g[s \ {Chosen(s)}]]

LEMMA ChosenOK ==
    ASSUME NEW s \in SUBSET Requests, s # {}
    PROVE  /\ Chosen(s) \in s /\ IsFiniteSet(s) /\ Cardinality(s) \in Nat
           /\ s \ {Chosen(s)} \in SUBSET Requests
           /\ Cardinality(s \ {Chosen(s)}) = Cardinality(s) - 1
<1>1. Chosen(s) \in s
    BY DEF Chosen
<1>2. IsFiniteSet(s)
    BY ConstantTypes, FS_Subset
<1> QED BY <1>1, <1>2, FS_CardinalityType, FS_RemoveElement

LEMMA SizeOK ==
    ASSUME NEW s \in SUBSET Requests
    PROVE  Cardinality(s) \in Nat /\ (Cardinality(s) = 0 => s = {})
<1>1. IsFiniteSet(s)
    BY ConstantTypes, FS_Subset
<1> QED BY <1>1, FS_CardinalityType, FS_EmptySet

LEMMA SumExists == ASSUME NEW h PROVE \E g : IsSum(g, h)
<1> DEFINE turn(g, s) == IF s = {} THEN 0 ELSE h[Chosen(s)] + g[s \ {Chosen(s)}]
           upTo(g, n) == \A s \in SUBSET Requests : Cardinality(s) <= n => g[s] = turn(g, s)
           bad == {n \in Nat : ~\E g : upTo(g, n)}
<1>1. \E g : upTo(g, 0)
    <2> DEFINE g == [s \in SUBSET Requests |-> 0]
    <2>1. \A s \in SUBSET Requests : Cardinality(s) <= 0 => s = {}
        BY SizeOK
    <2>2. upTo(g, 0)
        BY <2>1
    <2> QED BY <2>2
<1>2. ASSUME NEW n \in Nat, NEW g, upTo(g, n) PROVE \E g2 : upTo(g2, n + 1)
    <2> DEFINE g2 == [s \in SUBSET Requests |-> turn(g, s)]
    <2>1. ASSUME NEW s \in SUBSET Requests, Cardinality(s) <= n + 1 PROVE g2[s] = turn(g2, s)
        <3>1. CASE s = {}
            BY <3>1
        <3>2. CASE s # {}
            <4> DEFINE t == s \ {Chosen(s)}
            <4>1. t \in SUBSET Requests /\ Cardinality(t) <= n
                BY <1>2, <2>1, <3>2, ChosenOK
            <4>2. g[t] = turn(g, t)
                BY <1>2, <4>1
            <4>3. g2[t] = turn(g, t) /\ g2[s] = turn(g, s)
                BY <4>1
            <4> HIDE DEF g2
            <4> QED BY <3>2, <4>2, <4>3
        <3> QED BY <3>1, <3>2
    <2> HIDE DEF g2
    <2> QED BY <2>1
<1> HIDE DEF upTo
<1>3. bad = {}
    <2> SUFFICES ASSUME bad # {} PROVE FALSE
        OBVIOUS
    <2> DEFINE m == Min(bad)
    <2>1. m \in bad /\ \A n \in bad : m <= n
        <3> HIDE DEF bad
        <3>1. bad \in SUBSET Nat
            BY DEF bad
        <3> QED BY <3>1, MinOK
    <2> HIDE DEF m
    <2>2. m \in Nat /\ m # 0
        BY <1>1, <2>1
    <2>3. m - 1 \in Nat /\ m - 1 \notin bad
        BY <2>1, <2>2
    <2>4. \E g : upTo(g, m - 1)
        BY <2>3
    <2>5. \E g : upTo(g, (m - 1) + 1)
        BY <1>2, <2>3, <2>4
    <2>6. (m - 1) + 1 = m
        BY <2>2
    <2> QED BY <2>1, <2>5, <2>6
<1>4. Cardinality(Requests) \in Nat
    BY SizeOK
<1>5. PICK g : upTo(g, Cardinality(Requests))
    BY <1>3, <1>4
<1>6. \A s \in SUBSET Requests : g[s] = turn(g, s)
    <2> TAKE s \in SUBSET Requests
    <2>1. Cardinality(s) <= Cardinality(Requests)
        BY ConstantTypes, FS_Subset
    <2> QED BY <1>5, <2>1 DEF upTo
<1> DEFINE f == [s \in SUBSET Requests |-> g[s]]
<1>7. \A s \in SUBSET Requests : f[s] = turn(f, s)
    <2> TAKE s \in SUBSET Requests
    <2>1. CASE s = {}
        BY <1>6, <2>1
    <2>2. CASE s # {}
        <3>1. s \ {Chosen(s)} \in SUBSET Requests
            OBVIOUS
        <3> QED BY <1>6, <2>2, <3>1
    <2> QED BY <2>1, <2>2
<1>8. f = [s \in SUBSET Requests |-> turn(f, s)]
    <2>1. f = [s \in SUBSET Requests |-> f[s]]
        OBVIOUS
    <2> HIDE DEF f
    <2> QED BY <1>7, <2>1
<1> QED BY <1>8 DEF IsSum

\* When only r holds another amount, the sum changes by the difference.
LEMMA SumChange ==
    ASSUME NEW h \in [Requests -> Nat], NEW h2 \in [Requests -> Nat], NEW r,
           \A s \in Requests \ {r} : h2[s] = h[s],
           NEW g, IsSum(g, h), NEW g2, IsSum(g2, h2)
    PROVE  /\ g[Requests] \in Nat /\ g2[Requests] \in Nat
           /\ g2[Requests] = IF r \in Requests THEN g[Requests] + (h2[r] - h[r]) ELSE g[Requests]
<1> DEFINE ok(s) == /\ g[s] \in Nat /\ g2[s] \in Nat
                    /\ g2[s] = IF r \in s THEN g[s] + (h2[r] - h[r]) ELSE g[s]
           bad == {s \in SUBSET Requests : ~ok(s)}
           sizes == {Cardinality(s) : s \in bad}
<1>1. ASSUME NEW s \in SUBSET Requests, s = {} \/ ok(s \ {Chosen(s)})
      PROVE  ok(s)
    <2>1. CASE s = {}
        BY <2>1 DEF IsSum
    <2>2. CASE s # {}
        <3> DEFINE x == Chosen(s)
                   t == s \ {x}
        <3>1. x \in s /\ x \in Requests /\ t \in SUBSET Requests /\ x \notin t
            BY <2>2, ChosenOK
        <3>2. g[s] = h[x] + g[t] /\ g2[s] = h2[x] + g2[t]
            BY <2>2 DEF IsSum
        <3>3. h[x] \in Nat /\ h2[x] \in Nat
            BY <3>1
        <3>4. ok(t)
            BY <1>1, <2>2
        <3> HIDE DEF x
        <3>5. CASE x = r
            BY <3>1, <3>2, <3>3, <3>4, <3>5
        <3>6. CASE x # r
            <4>1. h2[x] = h[x] /\ (r \in s <=> r \in t)
                BY <3>1, <3>6
            <4>2. r \in s => h[r] \in Nat /\ h2[r] \in Nat
                OBVIOUS
            <4> HIDE DEF t
            <4> QED BY <3>2, <3>3, <3>4, <4>1, <4>2
        <3> QED BY <3>5, <3>6
    <2> QED BY <2>1, <2>2
<1> HIDE DEF ok
<1>2. bad = {}
    <2> SUFFICES ASSUME bad # {} PROVE FALSE
        OBVIOUS
    <2>1. sizes \in SUBSET Nat /\ sizes # {}
        BY SizeOK
    <2>2. Min(sizes) \in sizes /\ \A n \in sizes : Min(sizes) <= n
        <3> HIDE DEF sizes
        <3> QED BY <2>1, MinOK
    <2>3. PICK s \in bad : \A t \in bad : Cardinality(s) <= Cardinality(t)
        BY <2>2
    <2>4. s # {} => s \ {Chosen(s)} \notin bad
        <3> SUFFICES ASSUME s # {}, s \ {Chosen(s)} \in bad PROVE FALSE
            OBVIOUS
        <3>1. /\ Cardinality(s) \in Nat
              /\ Cardinality(s \ {Chosen(s)}) = Cardinality(s) - 1
            BY ChosenOK
        <3>2. Cardinality(s) <= Cardinality(s \ {Chosen(s)})
            BY <2>3
        <3> QED BY <3>1, <3>2
    <2>5. s = {} \/ ok(s \ {Chosen(s)})
        BY <2>4
    <2> QED BY <1>1, <2>3, <2>5
<1>3. ok(Requests)
    BY <1>2
<1> QED BY <1>3 DEF ok
\* A sum of nothing.
LEMMA SumZero ==
    ASSUME NEW h \in [Requests -> Nat], \A r \in Requests : h[r] = 0, NEW g, IsSum(g, h)
    PROVE  g[Requests] = 0
<1> DEFINE bad == {s \in SUBSET Requests : g[s] # 0}
           sizes == {Cardinality(s) : s \in bad}
<1>1. ASSUME NEW s \in SUBSET Requests, s = {} \/ g[s \ {Chosen(s)}] = 0
      PROVE  g[s] = 0
    <2>1. CASE s = {}
        BY <2>1 DEF IsSum
    <2>2. CASE s # {}
        <3>1. h[Chosen(s)] = 0
            BY <2>2, ChosenOK
        <3>2. g[s] = h[Chosen(s)] + g[s \ {Chosen(s)}]
            BY <2>2 DEF IsSum
        <3> QED BY <1>1, <2>2, <3>1, <3>2
    <2> QED BY <2>1, <2>2
<1>2. bad = {}
    <2> SUFFICES ASSUME bad # {} PROVE FALSE
        OBVIOUS
    <2>1. sizes \in SUBSET Nat /\ sizes # {}
        BY SizeOK
    <2>2. Min(sizes) \in sizes /\ \A n \in sizes : Min(sizes) <= n
        <3> HIDE DEF sizes
        <3> QED BY <2>1, MinOK
    <2>3. PICK s \in bad : \A t \in bad : Cardinality(s) <= Cardinality(t)
        BY <2>2
    <2>4. s # {} => s \ {Chosen(s)} \notin bad
        <3> SUFFICES ASSUME s # {}, s \ {Chosen(s)} \in bad PROVE FALSE
            OBVIOUS
        <3>1. /\ Cardinality(s) \in Nat
              /\ Cardinality(s \ {Chosen(s)}) = Cardinality(s) - 1
            BY ChosenOK
        <3>2. Cardinality(s) <= Cardinality(s \ {Chosen(s)})
            BY <2>3
        <3> QED BY <3>1, <3>2
    <2>5. s # {} => s \ {Chosen(s)} \in SUBSET Requests
        OBVIOUS
    <2> QED BY <1>1, <2>3, <2>4, <2>5
<1> QED BY <1>2
-----------------------------------------------------------------------------
(* The pools: the free blocks and those the requests hold. *)

IsGpuSum(g, rq) ==
    g = [s \in SUBSET Requests |->
            IF s = {} THEN 0
            ELSE rq[CHOOSE r \in s : TRUE].blocks * GPT2_N_LAYERS
                 + g[s \ {CHOOSE r \in s : TRUE}]]

IsCpuSum(g, rq) ==
    g = [s \in SUBSET Requests |->
            IF s = {} THEN 0
            ELSE rq[CHOOSE r \in s : TRUE].cpu_blocks * GPT2_N_LAYERS
                 + g[s \ {CHOOSE r \in s : TRUE}]]

GpuHeld(rq) == (CHOOSE g : IsGpuSum(g, rq))[Requests]
CpuHeld(rq) == (CHOOSE g : IsCpuSum(g, rq))[Requests]

LEMMA HeldIs ==
    /\ MapThenSumSet(Held, Requests) = GpuHeld(req)
    /\ MapThenSumSet(HeldOnCpu, Requests) = CpuHeld(req)
<1>1. MapThenSumSet(Held, Requests) = GpuHeld(req)
    BY DEF MapThenSumSet, MapThenFoldSet, GpuHeld, IsGpuSum, Held
<1>2. MapThenSumSet(HeldOnCpu, Requests) = CpuHeld(req)
    BY DEF MapThenSumSet, MapThenFoldSet, CpuHeld, IsCpuSum, HeldOnCpu
<1> QED BY <1>1, <1>2

OfGpu(rq) == [r \in Requests |-> rq[r].blocks * GPT2_N_LAYERS]
OfCpu(rq) == [r \in Requests |-> rq[r].cpu_blocks * GPT2_N_LAYERS]

LEMMA HeldSums ==
    ASSUME NEW rq \in [Requests -> ReqType]
    PROVE  /\ OfGpu(rq) \in [Requests -> Nat] /\ OfCpu(rq) \in [Requests -> Nat]
           /\ \E g : IsSum(g, OfGpu(rq)) /\ GpuHeld(rq) = g[Requests]
           /\ \E g : IsSum(g, OfCpu(rq)) /\ CpuHeld(rq) = g[Requests]
<1>1. \A r \in Requests : rq[r].blocks * GPT2_N_LAYERS \in Nat
                          /\ rq[r].cpu_blocks * GPT2_N_LAYERS \in Nat
    BY ConstantTypes DEF ReqType
<1>2. OfGpu(rq) \in [Requests -> Nat] /\ OfCpu(rq) \in [Requests -> Nat]
    BY <1>1 DEF OfGpu, OfCpu
<1>3. \A s \in SUBSET Requests : s # {} => (CHOOSE r \in s : TRUE) \in Requests
    OBVIOUS
<1>4. ASSUME NEW g PROVE IsSum(g, OfGpu(rq)) <=> IsGpuSum(g, rq)
    <2>1. \A s \in SUBSET Requests : s # {} =>
              OfGpu(rq)[Chosen(s)] = rq[CHOOSE r \in s : TRUE].blocks * GPT2_N_LAYERS
        BY <1>3 DEF OfGpu, Chosen
    <2>2. ASSUME NEW s \in SUBSET Requests
          PROVE  (IF s = {} THEN 0 ELSE OfGpu(rq)[Chosen(s)] + g[s \ {Chosen(s)}])
                    = IF s = {} THEN 0
                      ELSE rq[CHOOSE r \in s : TRUE].blocks * GPT2_N_LAYERS
                           + g[s \ {CHOOSE r \in s : TRUE}]
        BY <2>1 DEF Chosen
    <2> QED BY ONLY <2>2, Zenon DEF IsSum, IsGpuSum
<1>5. ASSUME NEW g PROVE IsSum(g, OfCpu(rq)) <=> IsCpuSum(g, rq)
    <2>1. \A s \in SUBSET Requests : s # {} =>
              OfCpu(rq)[Chosen(s)] = rq[CHOOSE r \in s : TRUE].cpu_blocks * GPT2_N_LAYERS
        BY <1>3 DEF OfCpu, Chosen
    <2>2. ASSUME NEW s \in SUBSET Requests
          PROVE  (IF s = {} THEN 0 ELSE OfCpu(rq)[Chosen(s)] + g[s \ {Chosen(s)}])
                    = IF s = {} THEN 0
                      ELSE rq[CHOOSE r \in s : TRUE].cpu_blocks * GPT2_N_LAYERS
                           + g[s \ {CHOOSE r \in s : TRUE}]
        BY <2>1 DEF Chosen
    <2> QED BY ONLY <2>2, Zenon DEF IsSum, IsCpuSum
<1>6. IsGpuSum(CHOOSE g : IsGpuSum(g, rq), rq)
    <2>1. \E g : IsGpuSum(g, rq)
        BY <1>4, SumExists
    <2> QED BY <2>1
<1>7. IsCpuSum(CHOOSE g : IsCpuSum(g, rq), rq)
    <2>1. \E g : IsCpuSum(g, rq)
        BY <1>5, SumExists
    <2> QED BY <2>1
<1> QED BY <1>2, <1>4, <1>5, <1>6, <1>7 DEF GpuHeld, CpuHeld

\* Only r holds another number of blocks than before.
LEMMA HeldChange ==
    ASSUME NEW rq \in [Requests -> ReqType], NEW rq2 \in [Requests -> ReqType],
           NEW r \in Requests, \A s \in Requests \ {r} : rq2[s] = rq[s]
    PROVE  /\ GpuHeld(rq) \in Nat /\ CpuHeld(rq) \in Nat
           /\ GpuHeld(rq2) = GpuHeld(rq) + (rq2[r].blocks * GPT2_N_LAYERS - rq[r].blocks * GPT2_N_LAYERS)
           /\ CpuHeld(rq2) = CpuHeld(rq)
                             + (rq2[r].cpu_blocks * GPT2_N_LAYERS - rq[r].cpu_blocks * GPT2_N_LAYERS)
<1>1. PICK g : IsSum(g, OfGpu(rq)) /\ GpuHeld(rq) = g[Requests]
    BY HeldSums
<1>2. PICK g2 : IsSum(g2, OfGpu(rq2)) /\ GpuHeld(rq2) = g2[Requests]
    BY HeldSums
<1>3. PICK c : IsSum(c, OfCpu(rq)) /\ CpuHeld(rq) = c[Requests]
    BY HeldSums
<1>4. PICK c2 : IsSum(c2, OfCpu(rq2)) /\ CpuHeld(rq2) = c2[Requests]
    BY HeldSums
<1>5. /\ OfGpu(rq) \in [Requests -> Nat] /\ OfCpu(rq) \in [Requests -> Nat]
      /\ OfGpu(rq2) \in [Requests -> Nat] /\ OfCpu(rq2) \in [Requests -> Nat]
    BY HeldSums
<1>6. \A s \in Requests \ {r} : OfGpu(rq2)[s] = OfGpu(rq)[s] /\ OfCpu(rq2)[s] = OfCpu(rq)[s]
    BY DEF OfGpu, OfCpu
<1>7. /\ g[Requests] \in Nat /\ g2[Requests] = g[Requests] + (OfGpu(rq2)[r] - OfGpu(rq)[r])
    BY <1>1, <1>2, <1>5, <1>6, SumChange
<1>8. /\ c[Requests] \in Nat /\ c2[Requests] = c[Requests] + (OfCpu(rq2)[r] - OfCpu(rq)[r])
    BY <1>3, <1>4, <1>5, <1>6, SumChange
<1> QED BY <1>1, <1>2, <1>3, <1>4, <1>7, <1>8 DEF OfGpu, OfCpu

LEMMA HeldSame ==
    ASSUME NEW rq \in [Requests -> ReqType], NEW rq2 \in [Requests -> ReqType],
           \A s \in Requests : rq2[s].blocks = rq[s].blocks /\ rq2[s].cpu_blocks = rq[s].cpu_blocks
    PROVE  GpuHeld(rq2) = GpuHeld(rq) /\ CpuHeld(rq2) = CpuHeld(rq)
<1>1. PICK g : IsSum(g, OfGpu(rq)) /\ GpuHeld(rq) = g[Requests]
    BY HeldSums
<1>2. PICK g2 : IsSum(g2, OfGpu(rq2)) /\ GpuHeld(rq2) = g2[Requests]
    BY HeldSums
<1>3. PICK c : IsSum(c, OfCpu(rq)) /\ CpuHeld(rq) = c[Requests]
    BY HeldSums
<1>4. PICK c2 : IsSum(c2, OfCpu(rq2)) /\ CpuHeld(rq2) = c2[Requests]
    BY HeldSums
<1>5. OfGpu(rq2) = OfGpu(rq) /\ OfCpu(rq2) = OfCpu(rq)
    BY DEF OfGpu, OfCpu
<1>6. OfGpu(rq) \in [Requests -> Nat] /\ OfCpu(rq) \in [Requests -> Nat]
    BY HeldSums
<1>7. g2[Requests] = g[Requests]
    <2>1. /\ g[Requests] \in Nat
          /\ \A r : g2[Requests] = IF r \in Requests
                                   THEN g[Requests] + (OfGpu(rq)[r] - OfGpu(rq)[r])
                                   ELSE g[Requests]
        BY <1>1, <1>2, <1>5, <1>6, SumChange
    <2>2. \A r \in Requests : OfGpu(rq)[r] - OfGpu(rq)[r] = 0
        BY <1>6
    <2> QED BY <2>1, <2>2
<1>8. c2[Requests] = c[Requests]
    <2>1. /\ c[Requests] \in Nat
          /\ \A r : c2[Requests] = IF r \in Requests
                                   THEN c[Requests] + (OfCpu(rq)[r] - OfCpu(rq)[r])
                                   ELSE c[Requests]
        BY <1>3, <1>4, <1>5, <1>6, SumChange
    <2>2. \A r \in Requests : OfCpu(rq)[r] - OfCpu(rq)[r] = 0
        BY <1>6
    <2> QED BY <2>1, <2>2
<1> QED BY <1>1, <1>2, <1>3, <1>4, <1>7, <1>8

LEMMA HeldNothing ==
    ASSUME NEW rq \in [Requests -> ReqType],
           \A r \in Requests : rq[r].blocks = 0 /\ rq[r].cpu_blocks = 0
    PROVE  GpuHeld(rq) = 0 /\ CpuHeld(rq) = 0
<1>1. 0 * GPT2_N_LAYERS = 0
    BY ConstantTypes
<1>2. \A r \in Requests : OfGpu(rq)[r] = 0 /\ OfCpu(rq)[r] = 0
    BY <1>1 DEF OfGpu, OfCpu
<1> QED BY <1>2, HeldSums, SumZero

PoolInv ==
    /\ gpu_free \in Nat /\ cpu_free \in Nat
    /\ gpu_free + GpuHeld(req) = DEFAULT_TOTAL_KV_BLOCKS
    /\ cpu_free + CpuHeld(req) = DEFAULT_TOTAL_CPU_BLOCKS

\* A step of one request that takes from a pool what it then holds, or gives back
\* what it held.
LEMMA PoolKeepsOne ==
    ASSUME RequestInv, RequestInv', PoolInv, NEW r \in Requests,
           \A s \in Requests \ {r} : req'[s] = req[s],
           gpu_free' \in Nat, cpu_free' \in Nat,
           gpu_free' + req'[r].blocks * GPT2_N_LAYERS = gpu_free + req[r].blocks * GPT2_N_LAYERS,
           cpu_free' + req'[r].cpu_blocks * GPT2_N_LAYERS
               = cpu_free + req[r].cpu_blocks * GPT2_N_LAYERS
    PROVE  PoolInv'
<1>1. req \in [Requests -> ReqType] /\ req' \in [Requests -> ReqType]
    BY DEF RequestInv
<1>2. /\ GpuHeld(req) \in Nat /\ CpuHeld(req) \in Nat
      /\ GpuHeld(req') = GpuHeld(req) + (req'[r].blocks * GPT2_N_LAYERS - req[r].blocks * GPT2_N_LAYERS)
      /\ CpuHeld(req') = CpuHeld(req)
                         + (req'[r].cpu_blocks * GPT2_N_LAYERS - req[r].cpu_blocks * GPT2_N_LAYERS)
    BY <1>1, HeldChange
<1>3. /\ req[r].blocks * GPT2_N_LAYERS \in Nat /\ req[r].cpu_blocks * GPT2_N_LAYERS \in Nat
      /\ req'[r].blocks * GPT2_N_LAYERS \in Nat /\ req'[r].cpu_blocks * GPT2_N_LAYERS \in Nat
    BY <1>1, ConstantTypes DEF ReqType
<1>4. /\ gpu_free \in Nat /\ gpu_free + GpuHeld(req) = DEFAULT_TOTAL_KV_BLOCKS
      /\ cpu_free \in Nat /\ cpu_free + CpuHeld(req) = DEFAULT_TOTAL_CPU_BLOCKS
    BY DEF PoolInv
<1>5. gpu_free' + GpuHeld(req') = DEFAULT_TOTAL_KV_BLOCKS
    <2> DEFINE f == gpu_free
               f2 == gpu_free'
               h == GpuHeld(req)
               h2 == GpuHeld(req')
               a == req[r].blocks * GPT2_N_LAYERS
               a2 == req'[r].blocks * GPT2_N_LAYERS
    <2>1. f \in Nat /\ f2 \in Nat /\ h \in Nat /\ a \in Nat /\ a2 \in Nat
        BY <1>2, <1>3, <1>4
    <2>2. f + h = DEFAULT_TOTAL_KV_BLOCKS /\ h2 = h + (a2 - a)
        BY <1>2, <1>4
    <2>3. f2 + a2 = f + a
        OBVIOUS
    <2> HIDE DEF f, f2, h, h2, a, a2
    <2>4. f2 + h2 = DEFAULT_TOTAL_KV_BLOCKS
        BY <2>1, <2>2, <2>3
    <2> QED BY <2>4 DEF f2, h2
<1>6. cpu_free' + CpuHeld(req') = DEFAULT_TOTAL_CPU_BLOCKS
    <2> DEFINE f == cpu_free
               f2 == cpu_free'
               h == CpuHeld(req)
               h2 == CpuHeld(req')
               a == req[r].cpu_blocks * GPT2_N_LAYERS
               a2 == req'[r].cpu_blocks * GPT2_N_LAYERS
    <2>1. f \in Nat /\ f2 \in Nat /\ h \in Nat /\ a \in Nat /\ a2 \in Nat
        BY <1>2, <1>3, <1>4
    <2>2. f + h = DEFAULT_TOTAL_CPU_BLOCKS /\ h2 = h + (a2 - a)
        BY <1>2, <1>4
    <2>3. f2 + a2 = f + a
        OBVIOUS
    <2> HIDE DEF f, f2, h, h2, a, a2
    <2>4. f2 + h2 = DEFAULT_TOTAL_CPU_BLOCKS
        BY <2>1, <2>2, <2>3
    <2> QED BY <2>4 DEF f2, h2
<1> QED BY <1>5, <1>6 DEF PoolInv

\* A step that moves no block.
LEMMA PoolKeepsNone ==
    ASSUME RequestInv, RequestInv', PoolInv, gpu_free' = gpu_free, cpu_free' = cpu_free,
           \A s \in Requests : req'[s].blocks = req[s].blocks
                               /\ req'[s].cpu_blocks = req[s].cpu_blocks
    PROVE  PoolInv'
<1>1. req \in [Requests -> ReqType] /\ req' \in [Requests -> ReqType]
    BY DEF RequestInv
<1>2. GpuHeld(req') = GpuHeld(req) /\ CpuHeld(req') = CpuHeld(req)
    BY <1>1, HeldSame
<1> QED BY <1>2 DEF PoolInv

\* What is multiplied in the allocator's counts is a number of blocks.
LEMMA BlocksAreNat ==
    ASSUME RequestInv, NEW r \in Requests
    PROVE  /\ req[r] \in ReqType /\ req[r].blocks \in Nat /\ req[r].cpu_blocks \in Nat
           /\ req[r].blocks * GPT2_N_LAYERS \in Nat /\ req[r].cpu_blocks * GPT2_N_LAYERS \in Nat
           /\ PrefillTotal(r) \in Nat /\ DecodeNeed(r) \in {0, 1}
           /\ DecodeNeed(r) * GPT2_N_LAYERS \in Nat
           /\ (req[r].blocks + DecodeNeed(r)) * GPT2_N_LAYERS
                  = req[r].blocks * GPT2_N_LAYERS + DecodeNeed(r) * GPT2_N_LAYERS
           /\ PrefillTotal(r) = CeilDiv(prompts_len[r], DEFAULT_KV_BLOCK_SIZE) * GPT2_N_LAYERS
           /\ CeilDiv(prompts_len[r], DEFAULT_KV_BLOCK_SIZE) \in Nat
           /\ 0 * GPT2_N_LAYERS = 0
<1>1. req[r] \in ReqType /\ prompts_len[r] \in Nat \ {0} /\ GPT2_N_LAYERS \in Nat
    BY ConstantTypes DEF RequestInv
<1>2. CeilDiv(prompts_len[r], DEFAULT_KV_BLOCK_SIZE) \in Nat
    BY <1>1, FitsCeil DEF B
<1>3. req[r].blocks \in Nat /\ req[r].cpu_blocks \in Nat
    BY <1>1 DEF ReqType
<1>4. DecodeNeed(r) \in {0, 1}
    BY DEF DecodeNeed
<1> QED BY <1>1, <1>2, <1>3, <1>4 DEF PrefillTotal

LEMMA SwapInKeepsPools == ASSUME IInv, IInv', PoolInv, SwapInOne PROVE PoolInv'
<1> DEFINE r == Head(queues["swap_out"])
           expected == req[r].cpu_blocks * GPT2_N_LAYERS
<1>1. RequestInv /\ RequestInv'
    BY DEF IInv
<1>2. r \in Requests
    <2>1. left > 0 /\ left \in Nat /\ left <= Len(queues["swap_out"])
        BY DEF SwapInOne, IInv, ControlInv
    <2> QED BY <1>1, <2>1, Lengths, Names
<1>3. req[r].state = "SwappedOut" /\ req[r].blocks = 0
    <2>1. left > 0 /\ left \in Nat /\ left <= Len(queues["swap_out"])
        BY DEF SwapInOne, IInv, ControlInv
    <2>2. r \in ToSet(queues["swap_out"])
        BY <1>1, <2>1, Lengths, Names
    <2>3. req[r].state = "SwappedOut"
        BY <1>1, <2>2, Names, ExpectedStates DEF RequestInv
    <2> QED BY <1>1, <1>2, <2>3 DEF RequestInv, RecOK, OnCpu
<1>4. CASE /\ gpu_free >= expected
           /\ req' = [req EXCEPT ![r].state = "DecodeReady", ![r].kv_residency = "Gpu",
                                 ![r].blocks = req[r].cpu_blocks, ![r].cpu_blocks = 0]
           /\ gpu_free' = gpu_free - expected /\ cpu_free' = cpu_free + expected
    <2>1. /\ req'[r].blocks = req[r].cpu_blocks /\ req'[r].cpu_blocks = 0
          /\ \A s \in Requests \ {r} : req'[s] = req[s]
        <3> HIDE DEF r
        <3> QED BY <1>1, <1>2, <1>4 DEF RequestInv, ReqType
    <2>2. expected \in Nat /\ 0 * GPT2_N_LAYERS = 0
        BY <1>1, <1>2, BlocksAreNat
    <2> HIDE DEF r
    <2>3. /\ gpu_free' \in Nat /\ cpu_free' \in Nat
          /\ gpu_free' + expected = gpu_free + 0
          /\ cpu_free' + 0 = cpu_free + expected
        BY <1>4, <2>2 DEF PoolInv
    <2> QED BY <1>1, <1>2, <1>3, <2>1, <2>2, <2>3, PoolKeepsOne
<1>5. CASE req' = req /\ gpu_free' = gpu_free /\ cpu_free' = cpu_free
    BY <1>1, <1>5, PoolKeepsNone
<1> QED BY <1>4, <1>5 DEF SwapInOne, CanSwapIn

LEMMA SwapOutKeepsPools == ASSUME IInv, IInv', PoolInv, SwapOutVictim PROVE PoolInv'
<1> DEFINE q == VictimQueue[pc]
           i == Min(Victims(q))
           r == queues[q][i]
           needed == req[r].blocks * GPT2_N_LAYERS
<1>1. RequestInv /\ RequestInv'
    BY DEF IInv
<1>2. r \in Requests /\ req[r].kv_residency = "Gpu"
    <2>1. pc \in DOMAIN VictimQueue /\ Victims(q) # {}
        BY Zenon DEF SwapOutVictim
    <2>2. q \in QueueNames
        BY <2>1, Names DEF VictimQueue
    <2> HIDE DEF q
    <2>3. queues[q] \in Seq(Requests) /\ DOMAIN queues[q] = 1..Len(queues[q])
        BY <1>1, <2>2, Lengths
    <2>4. Victims(q) \in SUBSET Nat /\ Victims(q) \subseteq DOMAIN queues[q]
        BY <2>3 DEF Victims
    <2>5. i \in Victims(q)
        BY <2>1, <2>4, MinOK
    <2> HIDE DEF i
    <2>6. i \in DOMAIN queues[q] /\ req[queues[q][i]].kv_residency = "Gpu"
        BY <2>5 DEF Victims
    <2>7. queues[q][i] \in Requests
        BY <2>3, <2>6
    <2> QED BY <2>6, <2>7
<1>3. req[r].cpu_blocks = 0
    <2> HIDE DEF r
    <2>1. req[r] \in ReqType /\ RecOK(req[r], prompts_len[r])
        BY <1>1, <1>2 DEF RequestInv
    <2> QED BY <1>2, <2>1 DEF RecOK, HoldsNothing, OnGpu, OnCpu, ReqType, States
<1>4. CASE /\ needed <= cpu_free
           /\ req' = [req EXCEPT ![r].state = "SwappedOut", ![r].kv_residency = "Cpu",
                                 ![r].cpu_blocks = req[r].blocks, ![r].blocks = 0]
           /\ gpu_free' = gpu_free + needed /\ cpu_free' = cpu_free - needed
    <2> HIDE DEF r
    <2>1. /\ req'[r].cpu_blocks = req[r].blocks /\ req'[r].blocks = 0
          /\ \A s \in Requests \ {r} : req'[s] = req[s]
        BY <1>1, <1>2, <1>4 DEF RequestInv, ReqType
    <2>2. needed \in Nat /\ 0 * GPT2_N_LAYERS = 0
        BY <1>1, <1>2, BlocksAreNat
    <2>3. /\ gpu_free' \in Nat /\ cpu_free' \in Nat
          /\ gpu_free' + 0 = gpu_free + needed
          /\ cpu_free' + needed = cpu_free + 0
        BY <1>4, <2>2 DEF PoolInv
    <2> QED BY <1>1, <1>2, <1>3, <2>1, <2>2, <2>3, PoolKeepsOne
<1>5. CASE req' = req /\ gpu_free' = gpu_free /\ cpu_free' = cpu_free
    BY <1>1, <1>5, PoolKeepsNone
<1> QED BY <1>4, <1>5, Zenon DEF SwapOutVictim

LEMMA AdmitDecodeKeepsPools == ASSUME IInv, IInv', PoolInv, AdmitDecode PROVE PoolInv'
<1> DEFINE r == Head(queues["decode"])
           total == DecodeNeed(r) * GPT2_N_LAYERS
<1>1. RequestInv /\ RequestInv'
    BY DEF IInv
<1>2. r \in Requests
    <2>1. left > 0 /\ left = Len(queues["decode"])
        BY DEF AdmitDecode, IInv, ControlInv
    <2> QED BY <1>1, <2>1, Lengths, Names
<1>3. cpu_free' = cpu_free
    BY DEF AdmitDecode
<1>4. CASE /\ gpu_free >= total
           /\ req' = [req EXCEPT ![r].state = "DecodeRunning", ![r].kv_residency = "Gpu",
                                 ![r].blocks = @ + DecodeNeed(r)]
           /\ gpu_free' = gpu_free - total
    <2> HIDE DEF r
    <2>1. /\ req'[r].blocks = req[r].blocks + DecodeNeed(r)
          /\ req'[r].cpu_blocks = req[r].cpu_blocks
          /\ \A s \in Requests \ {r} : req'[s] = req[s]
        BY <1>1, <1>2, <1>4 DEF RequestInv, ReqType
    <2>2. /\ total \in Nat /\ req[r].blocks * GPT2_N_LAYERS \in Nat
          /\ req'[r].blocks * GPT2_N_LAYERS = req[r].blocks * GPT2_N_LAYERS + total
        BY <1>1, <1>2, <2>1, BlocksAreNat
    <2> DEFINE a == req[r].blocks * GPT2_N_LAYERS
               a2 == req'[r].blocks * GPT2_N_LAYERS
    <2>3. a2 = a + total /\ a \in Nat
        BY <2>2
    <2> HIDE DEF total, a, a2
    <2>4. gpu_free' \in Nat /\ gpu_free' + a2 = gpu_free + a
        BY <1>4, <2>2, <2>3 DEF PoolInv
    <2> QED BY <1>1, <1>2, <1>3, <2>1, <2>4, PoolKeepsOne DEF a, a2, PoolInv
<1>5. CASE /\ req' = [req EXCEPT ![r].state = "DeferredDecodeKV"] /\ gpu_free' = gpu_free
    <2> HIDE DEF r
    <2>1. \A s \in Requests : req'[s].blocks = req[s].blocks
                              /\ req'[s].cpu_blocks = req[s].cpu_blocks
        BY <1>1, <1>2, <1>5 DEF RequestInv, ReqType
    <2> QED BY <1>1, <1>3, <1>5, <2>1, PoolKeepsNone
<1> QED BY <1>4, <1>5 DEF AdmitDecode

LEMMA PrefillAdmittedKeepsPools ==
    ASSUME RequestInv, RequestInv', PoolInv, NEW r \in Requests, PrefillAdmitted(r),
           req[r].blocks = 0, cpu_free' = cpu_free
    PROVE  PoolInv'
<1>1. /\ req'[r].blocks = CeilDiv(prompts_len[r], DEFAULT_KV_BLOCK_SIZE)
      /\ req'[r].cpu_blocks = req[r].cpu_blocks
      /\ \A s \in Requests \ {r} : req'[s] = req[s]
    BY DEF PrefillAdmitted, RequestInv, ReqType
<1>2. /\ gpu_free >= PrefillTotal(r) /\ gpu_free' = gpu_free - PrefillTotal(r)
    BY DEF PrefillAdmitted
<1>3. /\ PrefillTotal(r) \in Nat /\ PrefillTotal(r) = req'[r].blocks * GPT2_N_LAYERS
      /\ req[r].blocks * GPT2_N_LAYERS = 0
    BY <1>1, BlocksAreNat
<1> DEFINE t == PrefillTotal(r)
<1>4. t \in Nat /\ gpu_free >= t /\ gpu_free' = gpu_free - t
    BY <1>2, <1>3
<1> HIDE DEF t
<1>5. gpu_free' \in Nat /\ gpu_free' + t = gpu_free + 0
    BY <1>4 DEF PoolInv
<1> QED BY <1>1, <1>3, <1>5, PoolKeepsOne DEF t, PoolInv

LEMMA RetryDeferredPrefillKeepsPools ==
    ASSUME IInv, IInv', PoolInv, RetryDeferredPrefill PROVE PoolInv'
<1> DEFINE r == Head(queues["deferred_prefill"])
<1>1. RequestInv /\ RequestInv' /\ cpu_free' = cpu_free
    BY DEF IInv, RetryDeferredPrefill
<1>2. r \in Requests /\ r \in ToSet(queues["deferred_prefill"])
    <2>1. left > 0 /\ left \in Nat /\ left <= Len(queues["deferred_prefill"])
        BY DEF RetryDeferredPrefill, IInv, ControlInv
    <2> QED BY <1>1, <2>1, Lengths, Names
<1>3. req[r].blocks = 0
    <2>1. req[r].state = "DeferredPrefillKV"
        BY <1>1, <1>2, Names, ExpectedStates DEF RequestInv
    <2> QED BY <1>1, <1>2, <2>1 DEF RequestInv, RecOK, HoldsNothing
<1>4. CASE PrefillAdmitted(r)
    <2> HIDE DEF r
    <2> QED BY <1>1, <1>2, <1>3, <1>4, PrefillAdmittedKeepsPools
<1>5. CASE UNCHANGED <<gpu_free, req>>
    BY <1>1, <1>5, PoolKeepsNone
<1> QED BY <1>4, <1>5 DEF RetryDeferredPrefill

LEMMA AdmitWaitingPrefillKeepsPools ==
    ASSUME IInv, IInv', PoolInv, AdmitWaitingPrefill PROVE PoolInv'
<1> DEFINE r == Head(queues["waiting_prefill"])
<1>1. RequestInv /\ RequestInv' /\ cpu_free' = cpu_free
    BY DEF IInv, AdmitWaitingPrefill
<1>2. r \in Requests /\ r \in ToSet(queues["waiting_prefill"])
    <2>1. left > 0 /\ left \in Nat /\ left <= Len(queues["waiting_prefill"])
        BY DEF AdmitWaitingPrefill, IInv, ControlInv
    <2> QED BY <1>1, <2>1, Lengths, Names
<1>3. req[r].blocks = 0
    <2>1. req[r].state = "WaitingPrefill"
        BY <1>1, <1>2, Names, ExpectedStates DEF RequestInv
    <2> QED BY <1>1, <1>2, <2>1 DEF RequestInv, RecOK, HoldsNothing
<1>4. CASE PrefillAdmitted(r)
    <2> HIDE DEF r
    <2> QED BY <1>1, <1>2, <1>3, <1>4, PrefillAdmittedKeepsPools
<1>5. CASE req' = [req EXCEPT ![r].state = "DeferredPrefillKV"] /\ gpu_free' = gpu_free
    <2> HIDE DEF r
    <2>1. \A s \in Requests : req'[s].blocks = req[s].blocks
                              /\ req'[s].cpu_blocks = req[s].cpu_blocks
        BY <1>1, <1>2, <1>5 DEF RequestInv, ReqType
    <2> QED BY <1>1, <1>5, <2>1, PoolKeepsNone
<1> QED BY <1>4, <1>5 DEF AdmitWaitingPrefill

LEMMA RespondKeepsPools ==
    ASSUME IInv, IInv', PoolInv, queues["batch"] # <<>>, cpu_free' = cpu_free,
           NEW r, r = Head(queues["batch"]), NEW eos, NEW cached, NEW continue,
           Respond(r, eos, cached, continue)
    PROVE  PoolInv'
<1>1. RequestInv /\ RequestInv'
    BY DEF IInv
<1>2. r \in Requests
    BY <1>1, Lengths, Names
<1>3. req[r] \in ReqType
    BY <1>1, <1>2 DEF RequestInv
<1> DEFINE done == eos \/ IsFinish(r)
           rec == Counted(req[r], done)
           new == IF done THEN Finished(rec)
                  ELSE [rec EXCEPT !.state = "DecodeReady", !.tokens = cached]
<1>4. rec.blocks = req[r].blocks /\ rec.cpu_blocks = req[r].cpu_blocks
    BY <1>3 DEF Counted, ReqType
<1>5. req' = [req EXCEPT ![r] = new] /\ gpu_free' = IF done THEN Freed(r) ELSE gpu_free
    BY DEF Respond
<1>6. new.blocks = (IF done THEN 0 ELSE req[r].blocks) /\ new.cpu_blocks = req[r].cpu_blocks
    <2>1. Finished(rec).blocks = 0 /\ Finished(rec).cpu_blocks = rec.cpu_blocks
        BY <1>3 DEF Finished, Counted, ReqType
    <2>2. /\ [rec EXCEPT !.state = "DecodeReady", !.tokens = cached].blocks = rec.blocks
          /\ [rec EXCEPT !.state = "DecodeReady", !.tokens = cached].cpu_blocks = rec.cpu_blocks
        BY <1>3 DEF Counted, ReqType
    <2> QED BY <1>4, <2>1, <2>2
<1> HIDE DEF done, rec, new
<1>7. req'[r] = new /\ \A s \in Requests \ {r} : req'[s] = req[s]
    BY <1>1, <1>2, <1>5 DEF RequestInv
<1>8. CASE done
    <2>1. gpu_free' = gpu_free + req[r].blocks * GPT2_N_LAYERS
        BY <1>5, <1>8 DEF Freed
    <2>2. req[r].blocks * GPT2_N_LAYERS \in Nat /\ 0 * GPT2_N_LAYERS = 0
        BY <1>1, <1>2, BlocksAreNat
    <2>3. gpu_free' \in Nat /\ gpu_free' + 0 = gpu_free + req[r].blocks * GPT2_N_LAYERS
        BY <2>1, <2>2 DEF PoolInv
    <2>4. req'[r].blocks = 0 /\ req'[r].cpu_blocks = req[r].cpu_blocks
        BY <1>6, <1>7, <1>8
    <2> QED BY <1>1, <1>2, <1>7, <2>2, <2>3, <2>4, PoolKeepsOne DEF PoolInv
<1>9. CASE ~done
    <2>1. gpu_free' = gpu_free
        BY <1>5, <1>9
    <2>2. \A s \in Requests : req'[s].blocks = req[s].blocks
                              /\ req'[s].cpu_blocks = req[s].cpu_blocks
        BY <1>6, <1>7, <1>9
    <2> QED BY <1>1, <2>1, <2>2, PoolKeepsNone
<1> QED BY <1>8, <1>9

LEMMA NextKeepsPools == ASSUME IInv, IInv', PoolInv, [Next]_vars PROVE PoolInv'
<1>1. RequestInv /\ RequestInv'
    BY DEF IInv
<1>2. ASSUME req' = req, gpu_free' = gpu_free, cpu_free' = cpu_free PROVE PoolInv'
    BY <1>2, <1>1, PoolKeepsNone
<1>3. CASE DecodeOut \/ PrefillOut
    <2>1. CASE queues["batch"] = <<>>
        BY <1>2, <1>3, <2>1 DEF DecodeOut, PrefillOut
    <2>2. CASE queues["batch"] # <<>>
        <3>1. cpu_free' = cpu_free
            BY <1>3 DEF DecodeOut, PrefillOut
        <3>2. PICK r, eos, cached, continue :
                  r = Head(queues["batch"]) /\ Respond(r, eos, cached, continue)
            BY <1>3, <2>2 DEF DecodeOut, PrefillOut
        <3> QED BY <2>2, <3>1, <3>2, RespondKeepsPools
    <2> QED BY <2>1, <2>2
<1>4. CASE RetryDeferredDecode
    <2>1. \A s \in Requests : req'[s].blocks = req[s].blocks
                              /\ req'[s].cpu_blocks = req[s].cpu_blocks
        BY <1>1, <1>4 DEF RetryDeferredDecode, RequestInv, ReqType
    <2>2. gpu_free' = gpu_free /\ cpu_free' = cpu_free
        BY <1>4 DEF RetryDeferredDecode, kv
    <2> QED BY <1>1, <2>1, <2>2, PoolKeepsNone
<1>5. CASE \E r \in Requests : Submit(r)
    <2>1. PICK r \in Requests : Submit(r)
        BY <1>5
    <2>2. \A s \in Requests : req'[s].blocks = req[s].blocks
                              /\ req'[s].cpu_blocks = req[s].cpu_blocks
        <3> DEFINE a == Cardinality(Submitted) + 1
        <3>1. req' = [req EXCEPT ![r].arrival = a]
            BY <2>1 DEF Submit
        <3> HIDE DEF a
        <3> QED BY <1>1, <3>1 DEF RequestInv, ReqType
    <2>3. gpu_free' = gpu_free /\ cpu_free' = cpu_free
        BY <2>1 DEF Submit, kv
    <2> QED BY <1>1, <2>2, <2>3, PoolKeepsNone
<1>6. CASE \/ LoopHead \/ DrainNewRequests \/ SwapInDone \/ RunDecode \/ DecodeDone
           \/ RetryPrefillDone \/ AdmitDone \/ RunPrefill \/ PrefillDone \/ NoVictim \/ LoopEnd
           \/ WaitAndEnqueueOneRequest
    BY <1>2, <1>6 DEF LoopHead, DrainNewRequests, SwapInDone, RunDecode, DecodeDone,
                      RetryPrefillDone, AdmitDone, RunPrefill, PrefillDone, NoVictim, LoopEnd,
                      WaitAndEnqueueOneRequest, kv
<1>7. CASE OtherThreads \/ UNCHANGED vars
    BY <1>2, <1>7 DEF OtherThreads, ServeAsync, ReadResponses, LeaveCallback, ServerClose,
                      StopRunning, CloseQueue, Join, vars, internal, kv
<1> QED BY <1>3, <1>4, <1>5, <1>6, <1>7, SwapInKeepsPools, SwapOutKeepsPools,
           AdmitDecodeKeepsPools, RetryDeferredPrefillKeepsPools, AdmitWaitingPrefillKeepsPools
           DEF Next, Worker, OtherThreads

LEMMA PoolsHold == Spec => []PoolInv
<1>1. Init => PoolInv
    <2> SUFFICES ASSUME Init PROVE PoolInv
        OBVIOUS
    <2>1. req \in [Requests -> ReqType]
        BY InitOK DEF IInv, RequestInv
    <2>2. \A r \in Requests : req[r].blocks = 0 /\ req[r].cpu_blocks = 0
        BY DEF Init, NewRequest
    <2>3. GpuHeld(req) = 0 /\ CpuHeld(req) = 0
        BY <2>1, <2>2, HeldNothing
    <2> QED BY <2>3, ConstantTypes DEF Init, PoolInv
<1>2. IInv /\ IInv' /\ PoolInv /\ [Next]_vars => PoolInv'
    BY NextKeepsPools
<1> QED BY <1>1, <1>2, InvariantHolds, PTL DEF Spec

\* No path through the queues loses or invents a KV block: deferral, finish, swap
\* and a swap that is rolled back leave the free blocks and those of all requests
\* together at the size of the pool.
THEOREM BlocksAlwaysConserved == Spec => []BlocksConserved
<1>1. PoolInv => BlocksConserved
    BY HeldIs DEF PoolInv, BlocksConserved
<1> QED BY <1>1, PoolsHold, PTL

-----------------------------------------------------------------------------
(* A turn of the loop without progress.  From the decode loop on, whoever was *)
(* refused is still refused: the free blocks only become fewer.               *)

DecodeRefused ==
    \A r \in ToSet(queues["deferred_decode"]) : gpu_free < DecodeNeed(r) * GPT2_N_LAYERS

\* The last requests of the queue, those already tried in this turn.
PrefillRefusedFrom(k) ==
    \A j \in 1..Len(queues["deferred_prefill"]) :
        j > k => gpu_free < PrefillTotal(queues["deferred_prefill"][j])

AfterRetry == {"admit", "prefill", "swap_in_3", "victim"}
AfterDecode == {"swap_in_2", "retry_prefill"} \cup AfterRetry

StallInv ==
    /\ pc \in {"decode_out", "prefill_out"} => is_progress
    /\ ~is_progress =>
          /\ queues["prefill"] = <<>> /\ queues["next_decode"] = <<>>
          /\ pc \in {"decode"} \cup AfterDecode => DecodeRefused
          /\ pc \in AfterDecode => queues["decode"] = <<>>
          /\ pc = "retry_prefill" => PrefillRefusedFrom(left)
          /\ pc \in AfterRetry => PrefillRefusedFrom(0)

\* Where nothing is said of a turn without progress, or when there is progress.
LEMMA StallElsewhere ==
    ASSUME ControlInv',
           \/ is_progress'
           \/ pc' \in {"loop", "drain", "swap_in_1", "retry_decode", "victim_2", "end", "wait",
                       "exited"}
    PROVE  StallInv'
BY DEF StallInv, ControlInv, AfterDecode, AfterRetry

\* Steps after which the same requests wait for the same numbers of blocks.
LEMMA StallSame ==
    ASSUME RequestInv, StallInv, gpu_free' = gpu_free, prompts_len' = prompts_len,
           \A q \in {"prefill", "next_decode", "decode", "deferred_decode", "deferred_prefill"} :
               queues'[q] = queues[q],
           \A r \in ToSet(queues["deferred_decode"]) : req'[r] = req[r],
           is_progress' = is_progress,
           \/ pc' = pc /\ (pc = "retry_prefill" => left' = left)
           \/ pc = "swap_in_2" /\ pc' = "retry_prefill" /\ left' = Len(queues["deferred_prefill"])
           \/ pc = "retry_prefill" /\ left = 0 /\ pc' = "admit"
           \/ pc \in AfterRetry /\ pc' \in AfterRetry
    PROVE  StallInv'
<1>1. /\ queues'["prefill"] = queues["prefill"] /\ queues'["next_decode"] = queues["next_decode"]
      /\ queues'["decode"] = queues["decode"]
      /\ queues'["deferred_decode"] = queues["deferred_decode"]
      /\ queues'["deferred_prefill"] = queues["deferred_prefill"]
    OBVIOUS
<1>2. DecodeRefused => DecodeRefused'
    BY <1>1 DEF DecodeRefused, DecodeNeed
<1>3. \A k : PrefillRefusedFrom(k) => PrefillRefusedFrom(k)'
    BY <1>1 DEF PrefillRefusedFrom, PrefillTotal
<1>4. Len(queues["deferred_prefill"]) \in Nat
    BY Lengths, Names
<1>5. PrefillRefusedFrom(Len(queues["deferred_prefill"]))
    BY <1>4 DEF PrefillRefusedFrom
<1>6. CASE pc' = pc /\ (pc = "retry_prefill" => left' = left)
    BY <1>1, <1>2, <1>3, <1>6 DEF StallInv, AfterDecode, AfterRetry
<1>7. CASE pc = "swap_in_2" /\ pc' = "retry_prefill" /\ left' = Len(queues["deferred_prefill"])
    BY <1>1, <1>2, <1>3, <1>5, <1>7 DEF StallInv, AfterDecode, AfterRetry
<1>8. CASE pc = "retry_prefill" /\ left = 0 /\ pc' = "admit"
    BY <1>1, <1>2, <1>3, <1>8 DEF StallInv, AfterDecode, AfterRetry
<1>9. CASE pc \in AfterRetry /\ pc' \in AfterRetry
    BY <1>1, <1>2, <1>3, <1>9 DEF StallInv, AfterDecode, AfterRetry
<1> QED BY <1>6, <1>7, <1>8, <1>9

LEMMA RetryDeferredDecodeKeepsStall ==
    ASSUME IInv, IInv', StallInv, RetryDeferredDecode PROVE StallInv'
<1> DEFINE n == Len(queues["deferred_decode"])
<1>1. RequestInv /\ ControlInv
    BY DEF IInv
<1>2. n \in Nat /\ n \in 0..n
    BY <1>1, Lengths, Names
<1>3. queues' = MoveFirst(queues, n, "deferred_decode", "decode")
    BY DEF RetryDeferredDecode
<1> HIDE DEF n
<1>4. PICK X : Moved(queues, queues', X, "deferred_decode", "decode")
    <2>1. n \in 0..Len(queues["deferred_decode"])
        BY <1>2 DEF n
    <2> QED BY <1>1, <1>3, <2>1, MoveFirstOK, Names DEF RequestInv
<1>5. Len(queues'["deferred_decode"]) = 0
    <2>1. n \in 0..Len(queues["deferred_decode"])
        BY <1>2 DEF n
    <2>2. Len(queues'["deferred_decode"]) = Len(queues["deferred_decode"]) - n
        BY <1>1, <1>3, <2>1, MoveFirstOK, Names DEF RequestInv
    <2> QED BY <1>2, <2>2 DEF n
<1>6. ToSet(queues'["deferred_decode"]) = {}
    <2>1. queues'["deferred_decode"] \in Seq(Requests)
        BY Names DEF IInv, RequestInv, QueuesOK
    <2>2. DOMAIN queues'["deferred_decode"] = {}
        BY <1>5, <2>1
    <2> QED BY <2>2 DEF ToSet
<1>7. /\ queues'["prefill"] = queues["prefill"]
      /\ queues'["next_decode"] = queues["next_decode"]
    BY <1>4, Names DEF Moved
<1>8. pc' = "decode" /\ is_progress' = is_progress
    BY DEF RetryDeferredDecode, GoToLoop
<1> QED BY <1>6, <1>7, <1>8 DEF StallInv, AfterDecode, AfterRetry, DecodeRefused

LEMMA AdmitDecodeKeepsStall ==
    ASSUME IInv, IInv', StallInv, PoolInv, PoolInv', AdmitDecode PROVE StallInv'
<1> DEFINE r == Head(queues["decode"])
           total == DecodeNeed(r) * GPT2_N_LAYERS
<1>1. RequestInv /\ ControlInv /\ RequestInv'
    BY DEF IInv
<1>2. /\ pc = "decode" /\ pc' = "decode" /\ is_progress' = is_progress
      /\ r = queues["decode"][1] /\ 1 \in 1..Len(queues["decode"])
      /\ r \in Requests /\ r \in ToSet(queues["decode"])
    <2>1. left > 0 /\ left = Len(queues["decode"])
        BY DEF AdmitDecode, IInv, ControlInv
    <2> QED BY <1>1, <2>1, Lengths, Names DEF AdmitDecode, Iterate
<1>3. \A s \in Requests : req'[s].tokens = req[s].tokens
    <2> HIDE DEF r
    <2> DEFINE b == req[r].blocks + DecodeNeed(r)
               ran == [req[r] EXCEPT !.state = "DecodeRunning", !.kv_residency = "Gpu", !.blocks = b]
               deferred == [req[r] EXCEPT !.state = "DeferredDecodeKV"]
    <2>1. req' = [req EXCEPT ![r] = ran] \/ req' = [req EXCEPT ![r] = deferred]
        BY <1>1, <1>2 DEF AdmitDecode, r, RequestInv
    <2>2. req[r] \in ReqType
        BY <1>1, <1>2 DEF RequestInv
    <2> HIDE DEF b
    <2>3. ran.tokens = req[r].tokens /\ deferred.tokens = req[r].tokens
        BY <2>2 DEF ReqType
    <2> HIDE DEF ran, deferred
    <2> QED BY <1>1, <1>2, <2>1, <2>3 DEF RequestInv
<1>4. \A s \in Requests : DecodeNeed(s)' = DecodeNeed(s)
    BY <1>3 DEF DecodeNeed
<1>5. CASE /\ gpu_free >= total
           /\ queues' = MoveFront(queues, "decode", "batch")
           /\ gpu_free' = gpu_free - total
    <2>1. Moved(queues, queues', {r}, "decode", "batch")
        BY <1>1, <1>2, <1>5, MoveAtOK, Names DEF RequestInv, MoveFront
    <2> HIDE DEF r
    <2>2. /\ queues'["prefill"] = queues["prefill"]
          /\ queues'["next_decode"] = queues["next_decode"]
          /\ queues'["deferred_decode"] = queues["deferred_decode"]
        BY <2>1, Names DEF Moved
    <2>3. total \in Nat
        BY <1>1, <1>2, BlocksAreNat
    <2> HIDE DEF total
    <2>4. gpu_free' <= gpu_free /\ gpu_free \in Nat /\ gpu_free' \in Nat
        BY <1>5, <2>3 DEF PoolInv
    <2>5. DecodeRefused => DecodeRefused'
        <3> SUFFICES ASSUME DecodeRefused, NEW s \in ToSet(queues'["deferred_decode"])
                     PROVE  gpu_free' < DecodeNeed(s)' * GPT2_N_LAYERS
            BY DEF DecodeRefused
        <3>1. s \in ToSet(queues["deferred_decode"]) /\ s \in Requests
            BY <1>1, <2>2, Lengths, Names
        <3>2. gpu_free < DecodeNeed(s) * GPT2_N_LAYERS
            BY <3>1 DEF DecodeRefused
        <3>3. DecodeNeed(s)' = DecodeNeed(s) /\ DecodeNeed(s) * GPT2_N_LAYERS \in Nat
            BY <1>1, <1>4, <3>1, BlocksAreNat
        <3> DEFINE need == DecodeNeed(s) * GPT2_N_LAYERS
        <3>4. need \in Nat /\ gpu_free < need
            BY <3>2, <3>3
        <3> HIDE DEF need
        <3>5. gpu_free' < need
            BY <2>4, <3>4
        <3> QED BY <3>3, <3>5 DEF need
    <2> QED BY <1>2, <2>2, <2>5 DEF StallInv, AfterDecode, AfterRetry
<1>6. CASE /\ ~(gpu_free >= total)
           /\ queues' = MoveFront(queues, "decode", "deferred_decode")
           /\ gpu_free' = gpu_free
    <2>1. Moved(queues, queues', {r}, "decode", "deferred_decode")
        BY <1>1, <1>2, <1>6, MoveAtOK, Names DEF RequestInv, MoveFront
    <2> HIDE DEF r
    <2>2. /\ queues'["prefill"] = queues["prefill"]
          /\ queues'["next_decode"] = queues["next_decode"]
          /\ ToSet(queues'["deferred_decode"]) = ToSet(queues["deferred_decode"]) \cup {r}
        BY <2>1, Names DEF Moved
    <2>3. total \in Nat /\ gpu_free \in Nat
        BY <1>1, <1>2, BlocksAreNat DEF PoolInv
    <2> HIDE DEF total
    <2>4. gpu_free < total
        BY <1>6, <2>3
    <2>5. DecodeRefused => DecodeRefused'
        <3> SUFFICES ASSUME DecodeRefused, NEW s \in ToSet(queues'["deferred_decode"])
                     PROVE  gpu_free' < DecodeNeed(s)' * GPT2_N_LAYERS
            BY DEF DecodeRefused
        <3>1. s \in Requests
            BY <1>1, <1>2, <2>2, Lengths, Names
        <3>2. gpu_free < DecodeNeed(s) * GPT2_N_LAYERS
            BY <2>2, <2>4 DEF DecodeRefused, total
        <3> QED BY <1>4, <1>6, <3>1, <3>2
    <2> QED BY <1>2, <2>2, <2>5 DEF StallInv, AfterDecode, AfterRetry
<1> QED BY <1>5, <1>6 DEF AdmitDecode

LEMMA DecodeDoneKeepsStall == ASSUME IInv, IInv', StallInv, DecodeDone PROVE StallInv'
<1>1. RequestInv /\ ControlInv
    BY DEF IInv
<1>2. /\ pc = "decode" /\ left = 0 /\ pc' = "swap_in_2" /\ is_progress' = is_progress
      /\ queues["decode"] = <<>> /\ gpu_free' = gpu_free /\ req' = req
    BY <1>1, Lengths, Names DEF DecodeDone, GoToLoop, ControlInv, kv
<1> SUFFICES ASSUME ~is_progress PROVE StallInv'
    BY <1>2 DEF StallInv
<1>3. queues["next_decode"] = <<>> /\ queues["prefill"] = <<>> /\ DecodeRefused
    BY <1>2 DEF StallInv
<1> DEFINE n == Len(queues["next_decode"])
<1>4. n = 0 /\ n \in 0..n
    BY <1>3
<1>5. queues' = MoveFirst(queues, n, "next_decode", "decode")
    BY DEF DecodeDone
<1>6. n \in 0..Len(queues["next_decode"])
    BY <1>4
<1> HIDE DEF n
<1>7. /\ \E X : Moved(queues, queues', X, "next_decode", "decode")
      /\ Len(queues'["next_decode"]) = Len(queues["next_decode"]) - n
      /\ Len(queues'["decode"]) = Len(queues["decode"]) + n
    BY <1>1, <1>5, <1>6, MoveFirstOK, Names DEF RequestInv
<1>8. Len(queues'["next_decode"]) = 0 /\ Len(queues'["decode"]) = 0
    BY <1>2, <1>3, <1>4, <1>7
<1>9. queues'["next_decode"] = <<>> /\ queues'["decode"] = <<>>
    <2>1. queues'["next_decode"] \in Seq(Requests) /\ queues'["decode"] \in Seq(Requests)
        BY Names DEF IInv, RequestInv, QueuesOK
    <2> QED BY <1>8, <2>1
<1>10. queues'["prefill"] = <<>> /\ queues'["deferred_decode"] = queues["deferred_decode"]
    BY <1>3, <1>7, Names DEF Moved
<1>11. DecodeRefused'
    BY <1>2, <1>3, <1>10 DEF DecodeRefused, DecodeNeed
<1> QED BY <1>2, <1>9, <1>10, <1>11 DEF StallInv, AfterDecode, AfterRetry

LEMMA SwapInKeepsStall == ASSUME IInv, IInv', StallInv, SwapInOne PROVE StallInv'
<1>1. RequestInv /\ ControlInv /\ ControlInv'
    BY DEF IInv
<1>2. CASE is_progress'
    BY <1>1, <1>2, StallElsewhere
<1>3. CASE ~is_progress'
    <2>1. /\ queues' = MoveFront(queues, "swap_out", "swap_out")
          /\ UNCHANGED <<req, gpu_free, is_progress>>
        BY <1>3 DEF SwapInOne
    <2>2. pc' = pc /\ prompts_len' = prompts_len /\ pc \in DOMAIN AfterSwapIn
        BY DEF SwapInOne, Iterate
    <2>3. 1 \in 1..Len(queues["swap_out"])
        <3>1. left > 0 /\ left \in Nat /\ left <= Len(queues["swap_out"])
            BY DEF SwapInOne, IInv, ControlInv
        <3> QED BY <1>1, <3>1, Lengths, Names
    <2>4. \A q \in QueueNames \ {"swap_out"} : queues'[q] = queues[q]
        BY <1>1, <2>1, <2>3, RotateOK, Names DEF RequestInv, MoveFront
    <2>5. \A q \in {"prefill", "next_decode", "decode", "deferred_decode", "deferred_prefill"} :
              queues'[q] = queues[q]
        BY <2>4, Names
    <2> QED BY <1>1, <2>1, <2>2, <2>5, StallSame, AfterSwapInPlaces
<1> QED BY <1>2, <1>3

LEMMA RetryDeferredPrefillKeepsStall ==
    ASSUME IInv, IInv', StallInv, RetryDeferredPrefill PROVE StallInv'
<1>1. RequestInv /\ ControlInv /\ ControlInv'
    BY DEF IInv
<1>2. CASE is_progress'
    BY <1>1, <1>2, StallElsewhere
<1>3. CASE ~is_progress'
    <2> DEFINE d == queues["deferred_prefill"]
               n == Len(d)
               d2 == queues'["deferred_prefill"]
    <2>1. /\ gpu_free < PrefillTotal(Head(d))
          /\ queues' = MoveFront(queues, "deferred_prefill", "deferred_prefill")
          /\ UNCHANGED <<gpu_free, req, is_progress>>
        BY <1>3 DEF RetryDeferredPrefill, PrefillAdmitted
    <2>2. /\ pc = "retry_prefill" /\ pc' = "retry_prefill" /\ prompts_len' = prompts_len
          /\ left' = left - 1 /\ left \in Nat /\ left > 0 /\ left <= n
        BY <1>1 DEF RetryDeferredPrefill, Iterate, ControlInv
    <2>3. n \in Nat /\ 1 \in 1..n /\ Head(d) = d[1]
        BY <1>1, <2>2, Lengths, Names
    <2>4. /\ Len(d2) = n /\ d2[n] = d[1]
          /\ \A j \in 1..(n - 1) : d2[j] = d[j + 1]
          /\ \A q \in QueueNames \ {"deferred_prefill"} : queues'[q] = queues[q]
        <3>1. QueuesOK(queues) /\ "deferred_prefill" \in QueueNames
            BY <1>1, Names DEF RequestInv
        <3>2. queues' = MoveAt(queues, 1, "deferred_prefill", "deferred_prefill")
            BY <2>1 DEF MoveFront
        <3>3. /\ Len(d2) = n /\ d2[n] = d[1]
              /\ \A j \in 1..(n - 1) : d2[j] = IF j < 1 THEN d[j] ELSE d[j + 1]
              /\ \A q \in QueueNames \ {"deferred_prefill"} : queues'[q] = queues[q]
            BY <2>3, <3>1, <3>2, RotateOK
        <3> QED BY <2>3, <3>3
    <2>5. /\ queues'["prefill"] = queues["prefill"]
          /\ queues'["next_decode"] = queues["next_decode"]
          /\ queues'["decode"] = queues["decode"]
          /\ queues'["deferred_decode"] = queues["deferred_decode"]
        BY <2>4, Names
    <2>6. DecodeRefused => DecodeRefused'
        BY <2>1, <2>5 DEF DecodeRefused, DecodeNeed
    <2>7. ASSUME PrefillRefusedFrom(left)
          PROVE  \A j \in 1..Len(d2) : j > left' => gpu_free' < PrefillTotal(d2[j])
        <3> SUFFICES ASSUME NEW j \in 1..Len(d2), j > left' PROVE gpu_free' < PrefillTotal(d2[j])
            OBVIOUS
        <3>1. \A i \in 1..n : i > left => gpu_free < PrefillTotal(d[i])
            BY <2>7 DEF PrefillRefusedFrom
        <3>2. d2[n] = Head(d)
            BY <2>3, <2>4
        <3> HIDE DEF d, d2, n
        <3>3. CASE j = n
            BY <2>1, <3>2, <3>3
        <3>4. CASE j # n
            <4>1. j \in 1..(n - 1) /\ j + 1 \in 1..n /\ j + 1 > left
                BY <2>2, <2>3, <2>4, <3>4
            <4> QED BY <2>1, <2>4, <3>1, <4>1
        <3> QED BY <3>3, <3>4
    <2>8. PrefillRefusedFrom(left) => PrefillRefusedFrom(left)'
        BY <2>2, <2>7 DEF PrefillRefusedFrom, PrefillTotal
    <2> HIDE DEF d, d2, n
    <2> QED BY <1>3, <2>1, <2>2, <2>5, <2>6, <2>8 DEF StallInv, AfterDecode, AfterRetry
<1> QED BY <1>2, <1>3

LEMMA AdmitWaitingPrefillKeepsStall ==
    ASSUME IInv, IInv', StallInv, AdmitWaitingPrefill PROVE StallInv'
<1>1. RequestInv /\ ControlInv /\ ControlInv'
    BY DEF IInv
<1>2. CASE is_progress'
    BY <1>1, <1>2, StallElsewhere
<1>3. CASE ~is_progress'
    <2> DEFINE r == Head(queues["waiting_prefill"])
               d == queues["deferred_prefill"]
               d2 == queues'["deferred_prefill"]
    <2>1. /\ gpu_free < PrefillTotal(r)
          /\ queues' = MoveFront(queues, "waiting_prefill", "deferred_prefill")
          /\ req' = [req EXCEPT ![r].state = "DeferredPrefillKV"]
          /\ gpu_free' = gpu_free /\ is_progress' = is_progress /\ pc' = "prefill"
        BY <1>3 DEF AdmitWaitingPrefill, PrefillAdmitted, GoTo
    <2>2. /\ pc = "admit" /\ prompts_len' = prompts_len
          /\ left \in Nat /\ left > 0 /\ left <= Len(queues["waiting_prefill"])
        BY <1>1 DEF AdmitWaitingPrefill, ControlInv
    <2>3. /\ 1 \in 1..Len(queues["waiting_prefill"]) /\ r = queues["waiting_prefill"][1]
          /\ r \in Requests /\ r \in ToSet(queues["waiting_prefill"])
          /\ d \in Seq(Requests) /\ Len(d) \in Nat
        BY <1>1, <2>2, Lengths, Names
    <2>4. d2 = Append(d, r)
        <3>1. queues \in [QueueNames -> Seq(Requests)]
            BY <1>1 DEF RequestInv, QueuesOK
        <3> QED BY <2>1, <2>3, <3>1, Names DEF MoveFront, MoveAt
    <2>5. Moved(queues, queues', {r}, "waiting_prefill", "deferred_prefill")
        <3>1. queues' = MoveAt(queues, 1, "waiting_prefill", "deferred_prefill")
            BY <2>1 DEF MoveFront
        <3> QED BY <1>1, <2>3, <3>1, MoveAtOK, Names DEF RequestInv
    <2>6. /\ queues'["prefill"] = queues["prefill"]
          /\ queues'["next_decode"] = queues["next_decode"]
          /\ queues'["decode"] = queues["decode"]
          /\ queues'["deferred_decode"] = queues["deferred_decode"]
        BY <2>5, Names DEF Moved
    <2> HIDE DEF r
    <2>7. DecodeRefused => DecodeRefused'
        <3>1. \A s \in Requests : req'[s].tokens = req[s].tokens
            BY <1>1, <2>1, <2>3 DEF RequestInv, ReqType
        <3>2. \A s \in Requests : DecodeNeed(s)' = DecodeNeed(s)
            BY <3>1 DEF DecodeNeed
        <3>3. ToSet(queues["deferred_decode"]) \subseteq Requests
            BY <1>1, Lengths, Names
        <3> QED BY <2>1, <2>6, <3>2, <3>3 DEF DecodeRefused
    <2>8. ASSUME PrefillRefusedFrom(0)
          PROVE  \A j \in 1..Len(d2) : gpu_free' < PrefillTotal(d2[j])
        <3>1. \A i \in 1..Len(d) : gpu_free < PrefillTotal(d[i])
            BY <2>8 DEF PrefillRefusedFrom
        <3>2. /\ Len(d2) = Len(d) + 1 /\ d2[Len(d) + 1] = r
              /\ \A i \in 1..Len(d) : d2[i] = d[i]
            BY <2>3, <2>4, AppendProperties
        <3> SUFFICES ASSUME NEW j \in 1..Len(d2) PROVE gpu_free' < PrefillTotal(d2[j])
            OBVIOUS
        <3> HIDE DEF d, d2
        <3>3. j \in 1..Len(d) \/ j = Len(d) + 1
            BY <2>3, <3>2
        <3> QED BY <2>1, <3>1, <3>2, <3>3
    <2>9. PrefillRefusedFrom(0) => PrefillRefusedFrom(0)'
        BY <2>2, <2>8 DEF PrefillRefusedFrom, PrefillTotal
    <2> QED BY <1>3, <2>1, <2>2, <2>6, <2>7, <2>9 DEF StallInv, AfterDecode, AfterRetry
<1> QED BY <1>2, <1>3

LEMMA SubmitKeepsStall ==
    ASSUME IInv, StallInv, NEW r \in Requests, Submit(r) PROVE StallInv'
<1>1. RequestInv
    BY DEF IInv
<1>2. ~InSomeQueue(r)
    BY <1>1, SubmittedIs DEF Submit
<1>3. /\ gpu_free' = gpu_free /\ prompts_len' = prompts_len /\ is_progress' = is_progress
      /\ pc' = pc /\ left' = left
    BY DEF Submit, kv
<1>4. \A q \in {"prefill", "next_decode", "decode", "deferred_decode", "deferred_prefill"} :
          queues'[q] = queues[q]
    BY <1>1 DEF Submit, RequestInv, QueuesOK
<1>5. \A s \in ToSet(queues["deferred_decode"]) : s \in Requests /\ s # r
    BY <1>1, <1>2, Lengths, Names DEF InSomeQueue
<1>6. \A s \in ToSet(queues["deferred_decode"]) : req'[s] = req[s]
    <2> DEFINE a == Cardinality(Submitted) + 1
    <2>1. req' = [req EXCEPT ![r].arrival = a]
        BY DEF Submit
    <2> HIDE DEF a
    <2> QED BY <1>1, <1>5, <2>1 DEF RequestInv
<1> QED BY <1>1, <1>3, <1>4, <1>6, StallSame

LEMMA NextKeepsStall ==
    ASSUME IInv, IInv', PoolInv, PoolInv', StallInv, [Next]_vars PROVE StallInv'
<1>1. RequestInv /\ ControlInv'
    BY DEF IInv
<1>2. CASE LoopHead \/ DrainNewRequests \/ NoVictim \/ LoopEnd \/ WaitAndEnqueueOneRequest
    BY <1>1, <1>2, StallElsewhere
       DEF LoopHead, DrainNewRequests, NoVictim, LoopEnd, WaitAndEnqueueOneRequest, GoTo, GoToLoop
<1>3. CASE SwapOutVictim
    <2>1. is_progress' \/ pc' \in {"victim_2", "end"}
        BY <1>3, Zenon DEF SwapOutVictim, OneVictimIsEnough, GoTo
    <2> QED BY <1>1, <2>1, StallElsewhere
<1>4. CASE RunDecode \/ RunPrefill
    BY <1>1, <1>4, StallElsewhere DEF RunDecode, RunPrefill
<1>5. CASE DecodeOut \/ PrefillOut
    <2>1. is_progress'
        BY <1>5 DEF DecodeOut, PrefillOut, StallInv
    <2> QED BY <1>1, <2>1, StallElsewhere
<1>6. CASE SwapInDone
    <2>1. CASE pc = "swap_in_1"
        <3>1. pc' = "retry_decode"
            BY <1>6, <2>1 DEF SwapInDone, GoTo, AfterSwapIn
        <3> QED BY <1>1, <3>1, StallElsewhere
    <2>2. CASE pc = "swap_in_2"
        BY <1>1, <1>6, <2>2, StallSame DEF SwapInDone, GoToLoop, kv
    <2>3. CASE pc = "swap_in_3"
        <3>1. pc' = "victim" /\ pc \in AfterRetry /\ pc' \in AfterRetry
            BY <1>6, <2>3 DEF SwapInDone, GoTo, AfterSwapIn, AfterRetry
        <3> QED BY <1>1, <1>6, <3>1, StallSame DEF SwapInDone, kv
    <2> QED BY <1>6, <2>1, <2>2, <2>3, AfterSwapInPlaces DEF SwapInDone
<1>7. CASE RetryPrefillDone
    BY <1>1, <1>7, StallSame DEF RetryPrefillDone, GoToLoop, kv
<1>8. CASE AdmitDone
    <2>1. pc \in AfterRetry /\ pc' \in AfterRetry
        BY <1>8 DEF AdmitDone, GoTo, AfterRetry
    <2> QED BY <1>1, <1>8, <2>1, StallSame DEF AdmitDone, kv
<1>9. CASE PrefillDone
    <2>1. pc \in AfterRetry /\ pc' \in AfterRetry
        BY <1>9 DEF PrefillDone, GoToLoop, AfterRetry
    <2> QED BY <1>1, <1>9, <2>1, StallSame DEF PrefillDone, kv
<1>10. CASE OtherThreads \/ UNCHANGED vars
    <2>1. UNCHANGED <<queues, internal>>
        BY <1>10 DEF OtherThreads, ServeAsync, ReadResponses, LeaveCallback, ServerClose,
                     StopRunning, CloseQueue, Join, vars
    <2> QED BY <1>1, <2>1, StallSame DEF internal, kv
<1>11. CASE \E r \in Requests : Submit(r)
    BY <1>11, SubmitKeepsStall
<1> QED BY <1>2, <1>3, <1>4, <1>5, <1>6, <1>7, <1>8, <1>9, <1>10, <1>11,
           RetryDeferredDecodeKeepsStall, AdmitDecodeKeepsStall, DecodeDoneKeepsStall,
           SwapInKeepsStall, RetryDeferredPrefillKeepsStall, AdmitWaitingPrefillKeepsStall
           DEF Next, Worker, OtherThreads

\* When worker_loop looks for a victim to swap out, no request can run: each
\* deferred one asks for more blocks than are free now, although it was refused
\* at another point of the turn.
THEOREM SwapsOnlyWhenStalled == Spec => []SwapOnlyOnGlobalStall
<1>1. Init => StallInv
    BY Names DEF Init, StallInv, AfterDecode, AfterRetry
<1>2. IInv /\ IInv' /\ PoolInv /\ PoolInv' /\ StallInv /\ [Next]_vars => StallInv'
    BY NextKeepsStall
<1>3. IInv /\ StallInv => SwapOnlyOnGlobalStall
    <2> SUFFICES ASSUME IInv, StallInv, pc = "victim", ~is_progress
                 PROVE  /\ \A q \in {"prefill", "decode", "batch", "next_decode"} : queues[q] = <<>>
                        /\ \A r \in ToSet(queues["deferred_decode"]) :
                               gpu_free < DecodeNeed(r) * GPT2_N_LAYERS
                        /\ \A r \in ToSet(queues["deferred_prefill"]) : gpu_free < PrefillTotal(r)
        BY DEF SwapOnlyOnGlobalStall
    <2>1. /\ queues["prefill"] = <<>> /\ queues["next_decode"] = <<>> /\ queues["decode"] = <<>>
          /\ DecodeRefused /\ PrefillRefusedFrom(0)
        BY DEF StallInv, AfterDecode, AfterRetry
    <2>2. queues["batch"] = <<>>
        BY DEF IInv, ControlInv
    <2>3. ASSUME NEW r \in ToSet(queues["deferred_prefill"]) PROVE gpu_free < PrefillTotal(r)
        <3> DEFINE d == queues["deferred_prefill"]
        <3>1. d \in Seq(Requests)
            BY Lengths, Names DEF IInv
        <3>2. PICK j \in 1..Len(d) : r = d[j]
            BY <2>3, <3>1 DEF ToSet
        <3>3. j > 0
            BY <3>1, <3>2
        <3> QED BY <2>1, <3>2, <3>3 DEF PrefillRefusedFrom
    <2> QED BY <2>1, <2>2, <2>3 DEF DecodeRefused
<1> QED BY <1>1, <1>2, <1>3, InvariantHolds, PoolsHold, PTL DEF Spec
-----------------------------------------------------------------------------
(* The contract with the event loop. *)

\* Nothing comes into the queues.
NoneNew == \A q \in QueueNames : \A r \in ToSet(queues'[q]) : InSomeQueue(r)

LEMMA MovedNoneNew ==
    ASSUME NEW from \in QueueNames, NEW to \in QueueNames,
           NEW X, Moved(queues, queues', X, from, to)
    PROVE  NoneNew
BY DEF Moved, NoneNew, InSomeQueue

LEMMA MoveAtNoneNew ==
    ASSUME RequestInv, NEW from \in QueueNames, NEW to \in QueueNames,
           NEW i \in 1..Len(queues[from]), queues' = MoveAt(queues, i, from, to)
    PROVE  NoneNew
<1>1. QueuesOK(queues)
    BY DEF RequestInv
<1>2. CASE from # to
    <2>1. Moved(queues, queues', {queues[from][i]}, from, to)
        BY <1>1, <1>2, MoveAtOK
    <2> QED BY <2>1, MovedNoneNew
<1>3. CASE from = to
    <2>1. /\ ToSet(queues'[from]) = ToSet(queues[from])
          /\ \A p \in QueueNames \ {from} : queues'[p] = queues[p]
        BY <1>1, <1>3, RotateOK
    <2> QED BY <2>1 DEF NoneNew, InSomeQueue
<1> QED BY <1>2, <1>3

LEMMA MoveFrontNoneNew ==
    ASSUME RequestInv, NEW from \in QueueNames, NEW to \in QueueNames,
           queues[from] # <<>>, queues' = MoveFront(queues, from, to)
    PROVE  NoneNew
<1>1. 1 \in 1..Len(queues[from])
    BY Lengths
<1> QED BY <1>1, MoveAtNoneNew DEF MoveFront

LEMMA MoveFirstNoneNew ==
    ASSUME RequestInv, NEW from \in QueueNames, NEW to \in QueueNames, from # to,
           NEW n \in 0..Len(queues[from]), queues' = MoveFirst(queues, n, from, to)
    PROVE  NoneNew
<1>1. \E X : Moved(queues, queues', X, from, to)
    BY MoveFirstOK DEF RequestInv
<1> QED BY <1>1, MovedNoneNew

LEMMA SameQueuesNoneNew == ASSUME queues' = queues PROVE NoneNew
BY DEF NoneNew, InSomeQueue

LEMMA WorkerNoneNew == ASSUME IInv, Worker PROVE NoneNew
<1>1. RequestInv /\ ControlInv
    BY DEF IInv
<1>2. CASE \/ LoopHead \/ SwapInDone \/ RunDecode \/ RetryPrefillDone \/ AdmitDone
           \/ PrefillDone \/ NoVictim \/ LoopEnd
    BY <1>2, SameQueuesNoneNew DEF LoopHead, SwapInDone, RunDecode, RetryPrefillDone, AdmitDone,
                                   PrefillDone, NoVictim, LoopEnd
<1>3. CASE DrainNewRequests
    <2> DEFINE n == IF admission_paused_ THEN 0 ELSE Lesser(MAX_BATCH_NUM, Len(queues["request"]))
    <2>1. n \in 0..Len(queues["request"])
        BY <1>1, Lengths, Names, ConstantTypes DEF Lesser
    <2>2. queues' = MoveFirst(queues, n, "request", "waiting_prefill")
        BY <1>3 DEF DrainNewRequests, drain_new_requests
    <2> HIDE DEF n
    <2> QED BY <1>1, <2>1, <2>2, MoveFirstNoneNew, Names
<1>4. CASE RetryDeferredDecode
    <2>1. Len(queues["deferred_decode"]) \in 0..Len(queues["deferred_decode"])
        BY <1>1, Lengths, Names
    <2> QED BY <1>1, <1>4, <2>1, MoveFirstNoneNew, Names DEF RetryDeferredDecode
<1>5. CASE DecodeDone
    <2>1. Len(queues["next_decode"]) \in 0..Len(queues["next_decode"])
        BY <1>1, Lengths, Names
    <2> QED BY <1>1, <1>5, <2>1, MoveFirstNoneNew, Names DEF DecodeDone
<1>6. CASE RunPrefill
    <2> DEFINE n == Lesser(MAX_BATCH_NUM, Len(queues["prefill"]))
    <2>1. n \in 0..Len(queues["prefill"])
        BY <1>1, Lengths, Names, ConstantTypes DEF Lesser
    <2>2. queues' = MoveFirst(queues, n, "prefill", "batch")
        BY <1>6 DEF RunPrefill
    <2> HIDE DEF n
    <2> QED BY <1>1, <2>1, <2>2, MoveFirstNoneNew, Names
<1>7. CASE SwapInOne
    <2>1. queues["swap_out"] # <<>>
        BY <1>1, <1>7, Lengths, Names DEF SwapInOne, ControlInv
    <2>2. \E to \in {"decode", "swap_out"} : queues' = MoveFront(queues, "swap_out", to)
        BY <1>7 DEF SwapInOne
    <2> QED BY <1>1, <2>1, <2>2, MoveFrontNoneNew, Names
<1>8. CASE AdmitDecode
    <2>1. queues["decode"] # <<>>
        BY <1>1, <1>8, Lengths, Names DEF AdmitDecode, ControlInv
    <2>2. \E to \in {"batch", "deferred_decode"} : queues' = MoveFront(queues, "decode", to)
        BY <1>8 DEF AdmitDecode
    <2> QED BY <1>1, <2>1, <2>2, MoveFrontNoneNew, Names
<1>9. CASE DecodeOut \/ PrefillOut
    <2>1. CASE queues["batch"] = <<>>
        BY <1>9, <2>1, SameQueuesNoneNew DEF DecodeOut, PrefillOut
    <2>2. CASE queues["batch"] # <<>>
        <3>1. \E to \in {"finish", "decode"} : queues' = MoveFront(queues, "batch", to)
              \/ \E to2 \in {"finish", "next_decode"} : queues' = MoveFront(queues, "batch", to2)
            <4>1. ASSUME NEW r, NEW eos, NEW cached, NEW continue,
                         Respond(r, eos, cached, continue)
                  PROVE  \E to \in {"finish", continue} : queues' = MoveFront(queues, "batch", to)
                BY <4>1 DEF Respond
            <4>2. CASE DecodeOut
                <5>1. \E eos \in BOOLEAN : Respond(Head(queues["batch"]), eos,
                          req[Head(queues["batch"])].tokens + 1, "next_decode")
                    BY <2>2, <4>2 DEF DecodeOut
                <5> QED BY <4>1, <5>1
            <4>3. CASE PrefillOut
                <5>1. \E eos \in BOOLEAN : Respond(Head(queues["batch"]), eos,
                          prompts_len[Head(queues["batch"])], "decode")
                    BY <2>2, <4>3 DEF PrefillOut
                <5> QED BY <4>1, <5>1
            <4> QED BY <1>9, <4>2, <4>3
        <3> QED BY <1>1, <2>2, <3>1, MoveFrontNoneNew, Names
    <2> QED BY <2>1, <2>2
<1>10. CASE RetryDeferredPrefill
    <2>1. queues["deferred_prefill"] # <<>>
        BY <1>1, <1>10, Lengths, Names DEF RetryDeferredPrefill, ControlInv
    <2>2. \/ queues' = MoveToFront(queues, "deferred_prefill", "prefill")
          \/ queues' = MoveFront(queues, "deferred_prefill", "deferred_prefill")
        <3>1. queues \in [QueueNames -> Seq(Requests)]
            BY <1>1 DEF RequestInv, QueuesOK
        <3> QED BY <1>10, <3>1 DEF RetryDeferredPrefill, MoveToFront
    <2>3. CASE queues' = MoveToFront(queues, "deferred_prefill", "prefill")
        <3>1. Moved(queues, queues', {Head(queues["deferred_prefill"])}, "deferred_prefill", "prefill")
            BY <1>1, <2>1, <2>3, MoveToFrontOK, Names DEF RequestInv
        <3> QED BY <3>1, MovedNoneNew, Names
    <2> QED BY <1>1, <2>1, <2>2, <2>3, MoveFrontNoneNew, Names
<1>11. CASE AdmitWaitingPrefill
    <2>1. queues["waiting_prefill"] # <<>>
        BY <1>1, <1>11, Lengths, Names DEF AdmitWaitingPrefill, ControlInv
    <2>2. \E to \in {"prefill", "deferred_prefill"} :
             queues' = MoveFront(queues, "waiting_prefill", to)
        BY <1>11 DEF AdmitWaitingPrefill
    <2> QED BY <1>1, <2>1, <2>2, MoveFrontNoneNew, Names
<1>12. CASE WaitAndEnqueueOneRequest
    <2>1. \/ queues' = queues
          \/ queues["request"] # <<>> /\ queues' = MoveFront(queues, "request", "waiting_prefill")
        BY <1>12 DEF WaitAndEnqueueOneRequest
    <2> QED BY <1>1, <2>1, SameQueuesNoneNew, MoveFrontNoneNew, Names
<1>13. CASE SwapOutVictim
    <2> DEFINE q == VictimQueue[pc]
               i == Min(Victims(q))
    <2>1. /\ pc \in DOMAIN VictimQueue /\ Victims(q) # {}
          /\ \/ queues' = MoveAt(queues, i, q, "swap_out")
             \/ queues' = MoveAt(queues, i, q, q)
        BY <1>13, Zenon DEF SwapOutVictim
    <2>2. q \in QueueNames
        BY <2>1, Names DEF VictimQueue
    <2> HIDE DEF q
    <2>3. i \in 1..Len(queues[q])
        <3>1. DOMAIN queues[q] = 1..Len(queues[q])
            BY <1>1, <2>2, Lengths
        <3>2. Victims(q) \in SUBSET Nat /\ Victims(q) \subseteq DOMAIN queues[q]
            BY <1>1, <2>2, <3>1, Lengths DEF Victims
        <3> QED BY <2>1, <3>1, <3>2, MinOK
    <2> HIDE DEF i
    <2> QED BY <1>1, <2>1, <2>2, <2>3, MoveAtNoneNew, Names
<1> QED BY <1>2, <1>3, <1>4, <1>5, <1>6, <1>7, <1>8, <1>9, <1>10, <1>11, <1>12, <1>13 DEF Worker

\* What the event loop knows of a request.
SameCounters(r) ==
    /\ req'[r].arrival = req[r].arrival /\ req'[r].responses = req[r].responses
    /\ req'[r].finals = req[r].finals

LEMMA WorkerSameCounters ==
    ASSUME IInv, Worker, ~DecodeOut, ~PrefillOut, NEW r \in Requests
    PROVE  SameCounters(r)
<1>1. req \in [Requests -> ReqType]
    BY DEF IInv, RequestInv
<1>2. CASE req' = req
    BY <1>2 DEF SameCounters
<1>3. CASE SwapInOne
    BY <1>1, <1>2, <1>3 DEF SwapInOne, SameCounters, ReqType
<1>4. CASE RetryDeferredDecode
    BY <1>1, <1>4 DEF RetryDeferredDecode, SameCounters, ReqType
<1>5. CASE AdmitDecode
    <2> DEFINE x == Head(queues["decode"])
               k == DecodeNeed(x)
    <2>1. \/ req' = [req EXCEPT ![x].state = "DecodeRunning", ![x].kv_residency = "Gpu",
                               ![x].blocks = @ + k]
          \/ req' = [req EXCEPT ![x].state = "DeferredDecodeKV"]
        BY <1>5 DEF AdmitDecode
    <2> HIDE DEF x, k
    <2> QED BY <1>1, <2>1 DEF SameCounters, ReqType
<1>6. CASE RetryDeferredPrefill \/ AdmitWaitingPrefill
    <2>1. ASSUME NEW x, PrefillAdmitted(x) PROVE SameCounters(r)
        <3> DEFINE k == CeilDiv(prompts_len[x], DEFAULT_KV_BLOCK_SIZE)
        <3>1. req' = [req EXCEPT ![x].state = "PrefillRunning", ![x].kv_residency = "Gpu",
                                 ![x].blocks = k]
            BY <2>1 DEF PrefillAdmitted
        <3> HIDE DEF k
        <3> QED BY <1>1, <3>1 DEF SameCounters, ReqType
    <2>2. ASSUME NEW x, req' = [req EXCEPT ![x].state = "DeferredPrefillKV"] PROVE SameCounters(r)
        BY <1>1, <2>2 DEF SameCounters, ReqType
    <2>3. \/ \E x : PrefillAdmitted(x)
          \/ \E x : req' = [req EXCEPT ![x].state = "DeferredPrefillKV"]
          \/ req' = req
        <3>1. CASE RetryDeferredPrefill
            BY <3>1 DEF RetryDeferredPrefill
        <3>2. CASE AdmitWaitingPrefill
            BY <3>2 DEF AdmitWaitingPrefill
        <3> QED BY <1>6, <3>1, <3>2
    <2> QED BY <1>2, <2>1, <2>2, <2>3
<1>8. CASE SwapOutVictim
    <2> DEFINE q == VictimQueue[pc]
               i == Min(Victims(q))
               x == queues[q][i]
    <2>1. \/ req' = [req EXCEPT ![x].state = "SwappedOut", ![x].kv_residency = "Cpu",
                               ![x].cpu_blocks = req[x].blocks, ![x].blocks = 0]
          \/ req' = req
        BY <1>8, Zenon DEF SwapOutVictim
    <2> HIDE DEF x
    <2> QED BY <1>1, <1>2, <2>1 DEF SameCounters, ReqType
<1>9. CASE \/ LoopHead \/ DrainNewRequests \/ SwapInDone \/ RunDecode \/ DecodeDone
           \/ RetryPrefillDone \/ AdmitDone \/ RunPrefill \/ PrefillDone \/ NoVictim \/ LoopEnd
           \/ WaitAndEnqueueOneRequest
    <2>1. req' = req
        BY <1>9 DEF LoopHead, DrainNewRequests, SwapInDone, RunDecode, DecodeDone,
                    RetryPrefillDone, AdmitDone, RunPrefill, PrefillDone, NoVictim, LoopEnd,
                    WaitAndEnqueueOneRequest
    <2> QED BY <1>2, <2>1
<1> QED BY <1>3, <1>4, <1>5, <1>6, <1>8, <1>9 DEF Worker

\* A request that was handed over has been given its place.
Placed == \A r \in Requests : InSomeQueue(r) => req[r].arrival > 0

LEMMA SubmittedIsNext == ASSUME RequestInv', NEW r \in Requests
                         PROVE  r \in Submitted' <=> InSomeQueue(r)'
<1>1. \A q \in QueueNames : queues'[q] \in Seq(Requests)
    BY DEF RequestInv, QueuesOK
<1>2. \A q \in QueueNames : Contains(queues'[q], r) <=> r \in ToSet(queues'[q])
    BY <1>1, ContainsIs
<1> QED BY <1>2 DEF Submitted, InSomeQueue

LEMMA SubmittedSame ==
    ASSUME RequestInv, RequestInv', Placed, NoneNew,
           \A r \in Requests : req'[r].arrival = req[r].arrival
    PROVE  Submitted' = Submitted /\ Placed'
<1>1. \A r \in Requests : InSomeQueue(r)' => InSomeQueue(r)
    BY DEF InSomeQueue, NoneNew
<1>2. ASSUME NEW r \in Requests, InSomeQueue(r) PROVE InSomeQueue(r)'
    <2>1. req'[r] # NewRequest
        BY <1>2 DEF Placed, NewRequest
    <2> QED BY <2>1 DEF RequestInv
<1>3. Submitted \subseteq Requests /\ Submitted' \subseteq Requests
    BY DEF Submitted
<1>4. Submitted' = Submitted
    BY <1>1, <1>2, <1>3, SubmittedIs, SubmittedIsNext
<1>5. Placed'
    BY <1>1 DEF Placed
<1> QED BY <1>4, <1>5

\* The response that DecodeOut or PrefillOut pushes.
Pushes(r) ==
    /\ r \in Requests /\ r \in ToSet(queues["batch"])
    /\ \E done \in BOOLEAN :
          /\ req'[r].responses = req[r].responses + 1
          /\ req'[r].finals = IF done THEN 1 ELSE 0
          /\ req[r].responses + 1 >= MAX_NEW_TOKENS => done
    /\ req[r].finals = 0 /\ req'[r].arrival = req[r].arrival
    /\ \A s \in Requests \ {r} : req'[s] = req[s]
    /\ unread' = TRUE /\ has_resp' = TRUE

LEMMA RespondPushes ==
    ASSUME RequestInv, queues["batch"] # <<>>, NEW eos, NEW cached, NEW continue,
           Respond(Head(queues["batch"]), eos, cached, continue)
    PROVE  Pushes(Head(queues["batch"]))
<1> DEFINE r == Head(queues["batch"])
           done == eos \/ IsFinish(r)
           rec == Counted(req[r], done)
           new == IF done THEN Finished(rec)
                  ELSE [rec EXCEPT !.state = "DecodeReady", !.tokens = cached]
<1>1. r \in Requests /\ r \in ToSet(queues["batch"])
    BY Lengths, Names
<1> HIDE DEF r
<1>2. /\ req[r] \in ReqType /\ RecOK(req[r], prompts_len[r])
      /\ req[r].state \in {"PrefillRunning", "DecodeRunning"}
    BY <1>1, Names, ExpectedStates DEF RequestInv
<1>3. req[r].finals = 0 /\ req[r].responses = req[r].generated
    BY <1>2 DEF RecOK
<1>4. req' = [req EXCEPT ![r] = new] /\ unread' = TRUE /\ has_resp' = TRUE
    BY DEF Respond, r
<1>5. req[r].responses + 1 >= MAX_NEW_TOKENS => done
    BY <1>3 DEF IsFinish
<1> HIDE DEF done
<1>6. /\ rec.responses = req[r].responses + 1 /\ rec.arrival = req[r].arrival
      /\ rec.finals = IF done THEN 1 ELSE 0
      /\ rec \in ReqType
    <2> DEFINE old == req[r]
               g == old.generated + 1
               f == IF done THEN old.finals + 1 ELSE old.finals
    <2>1. f \in Nat /\ f = (IF done THEN 1 ELSE 0) /\ g \in Nat /\ g = old.responses + 1
        BY <1>2, <1>3 DEF ReqType
    <2>2. rec = [old EXCEPT !.generated = g, !.responses = g, !.finals = f]
        BY <1>2, <2>1 DEF Counted, ReqType
    <2>3. old \in ReqType
        BY <1>2
    <2> HIDE DEF f, g, old, rec
    <2>4. rec \in ReqType /\ rec.responses = g /\ rec.finals = f /\ rec.arrival = old.arrival
        BY <2>1, <2>2, <2>3 DEF ReqType
    <2> QED BY <2>1, <2>4 DEF old
<1> HIDE DEF rec
<1>7. new.responses = rec.responses /\ new.finals = rec.finals /\ new.arrival = rec.arrival
    <2>1. CASE done
        <3>1. new = Finished(rec)
            BY <2>1
        <3> HIDE DEF new
        <3> QED BY <1>6, <3>1 DEF Finished, ReqType
    <2>2. CASE ~done
        <3>1. new = [rec EXCEPT !.state = "DecodeReady", !.tokens = cached]
            BY <2>2
        <3> HIDE DEF new
        <3> QED BY <1>6, <3>1 DEF ReqType
    <2> QED BY <2>1, <2>2
<1> HIDE DEF new
<1>8. req'[r] = new /\ \A s \in Requests \ {r} : req'[s] = req[s]
    BY <1>1, <1>4 DEF RequestInv
<1>9. \E d \in BOOLEAN :
         /\ req'[r].responses = req[r].responses + 1
         /\ req'[r].finals = IF d THEN 1 ELSE 0
         /\ req[r].responses + 1 >= MAX_NEW_TOKENS => d
    <2>1. CASE done
        BY <1>6, <1>7, <1>8, <2>1
    <2>2. CASE ~done
        BY <1>5, <1>6, <1>7, <1>8, <2>2
    <2> QED BY <2>1, <2>2
<1> QED BY <1>1, <1>3, <1>4, <1>6, <1>7, <1>8, <1>9 DEF Pushes, r

\* The mapping of Contract.
Answered == [r \in Requests |-> req[r].responses]
Final == {r \in Requests : req[r].finals > 0}
Woken == async \/ has_resp \/ reader = "reading"

LEMMA ContractInit == Init => Contract!Init
<1> SUFFICES ASSUME Init PROVE Contract!Init
    OBVIOUS
<1>1. Submitted = {}
    BY DEF Init, Submitted, Contains
<1>2. Answered = [r \in Requests |-> 0] /\ Final = {}
    BY DEF Init, NewRequest, Answered, Final
<1>3. unread = FALSE /\ Woken = FALSE
    BY DEF Init, Woken
<1> QED BY <1>1, <1>2, <1>3 DEF Contract!Init, Answered, Final, Woken

LEMMA ContractStutters ==
    ASSUME Submitted' = Submitted, Answered' = Answered, Final' = Final, unread' = unread,
           Woken' = Woken
    PROVE  [Contract!Next]_(Contract!vars)
BY DEF Contract!vars, Answered, Final, Woken

LEMMA CountersSame ==
    ASSUME \A r \in Requests : SameCounters(r)
    PROVE  Answered' = Answered /\ Final' = Final
BY DEF SameCounters, Answered, Final

LEMMA PushIsAnswer ==
    ASSUME RequestInv, RequestInv', Placed, NoneNew, NEW r, Pushes(r)
    PROVE  [Contract!Next]_(Contract!vars) /\ Placed'
<1>1. r \in Requests /\ InSomeQueue(r)
    BY Names DEF Pushes, InSomeQueue
<1>2. \A s \in Requests : req'[s].arrival = req[s].arrival
    BY DEF Pushes
<1>3. Submitted' = Submitted /\ Placed'
    BY <1>2, SubmittedSame
<1>4. r \in Submitted \ Final
    BY <1>1, SubmittedIs DEF Pushes, Final
<1>5. PICK done \in BOOLEAN :
         /\ req'[r].responses = req[r].responses + 1
         /\ req'[r].finals = IF done THEN 1 ELSE 0
         /\ req[r].responses + 1 >= MAX_NEW_TOKENS => done
    BY DEF Pushes
<1>6. Answered' = [Answered EXCEPT ![r] = @ + 1]
    BY <1>1, <1>5 DEF Pushes, Answered
<1>7. Final' = IF done THEN Final \cup {r} ELSE Final
    BY <1>1, <1>5 DEF Pushes, Final
<1>8. Final' \in {Final, Final \cup {r}} /\ (Answered'[r] >= MAX_NEW_TOKENS => r \in Final')
    <2>1. Answered'[r] = req[r].responses + 1
        BY <1>1, <1>5 DEF Answered
    <2> QED BY <1>5, <1>7, <2>1
<1>9. unread' = TRUE /\ Woken' = TRUE
    BY DEF Pushes, Woken
<1>10. Contract!Answer(r)
    BY <1>3, <1>4, <1>6, <1>8, <1>9 DEF Contract!Answer, Answered, Final, Woken
<1> QED BY <1>1, <1>3, <1>10 DEF Contract!Next

LEMMA SubmitIsAsk ==
    ASSUME RequestInv, RequestInv', Placed, NEW r \in Requests, Submit(r)
    PROVE  [Contract!Next]_(Contract!vars) /\ Placed'
<1> DEFINE a == Cardinality(Submitted) + 1
<1>1. a > 0
    <2>1. IsFiniteSet(Submitted)
        <3>1. Submitted \subseteq Requests
            BY DEF Submitted
        <3> QED BY <3>1, ConstantTypes, FS_Subset
    <2>2. Cardinality(Submitted) \in Nat
        BY <2>1, FS_CardinalityType
    <2> QED BY <2>2
<1>2. /\ r \notin Submitted /\ req' = [req EXCEPT ![r].arrival = a]
      /\ queues' = [queues EXCEPT !["request"] = Append(@, r)]
      /\ UNCHANGED <<unread, async, has_resp, reader>>
    BY DEF Submit, shared
<1> HIDE DEF a
<1>3. req \in [Requests -> ReqType] /\ queues \in [QueueNames -> Seq(Requests)]
    BY DEF RequestInv, QueuesOK
<1>4. /\ \A s \in Requests \ {r} : req'[s] = req[s]
      /\ req'[r].arrival = a /\ req'[r].responses = req[r].responses
      /\ req'[r].finals = req[r].finals
    BY <1>2, <1>3 DEF ReqType
<1>5. Answered' = Answered /\ Final' = Final
    BY <1>4 DEF Answered, Final
<1>6. ASSUME NEW s \in Requests PROVE InSomeQueue(s)' <=> InSomeQueue(s) \/ s = r
    <2> DEFINE old == queues["request"]
    <2>1. old \in Seq(Requests) /\ queues'["request"] = Append(old, r)
          /\ \A q \in QueueNames \ {"request"} : queues'[q] = queues[q]
        BY <1>2, <1>3, Names
    <2>2. IsInjective(old) /\ r \notin ToSet(old)
        <3>1. ~InSomeQueue(r)
            BY <1>2, SubmittedIs
        <3> QED BY <3>1, Names DEF RequestInv, QueuesOK, InSomeQueue
    <2> HIDE DEF old
    <2>3. ToSet(queues'["request"]) = ToSet(old) \cup {r}
        BY <2>1, <2>2, AppendOK
    <2> QED BY <2>1, <2>3, Names DEF InSomeQueue, old
<1>7. Submitted' = Submitted \cup {r}
    <2>1. Submitted \subseteq Requests /\ Submitted' \subseteq Requests
        BY DEF Submitted
    <2> QED BY <1>6, <2>1, SubmittedIs, SubmittedIsNext
<1>8. Placed'
    BY <1>1, <1>4, <1>6 DEF Placed
<1>9. unread' = unread /\ Woken' = Woken
    BY <1>2 DEF Woken
<1>10. Contract!Ask(r)
    BY <1>2, <1>5, <1>7, <1>9 DEF Contract!Ask, Answered, Final, Woken
<1> QED BY <1>8, <1>10 DEF Contract!Next

LEMMA NextIsOfTheContract ==
    ASSUME IInv, IInv', Placed, [Next]_vars
    PROVE  [Contract!Next]_(Contract!vars) /\ Placed'
<1>1. RequestInv /\ RequestInv'
    BY DEF IInv
<1>2. CASE DecodeOut \/ PrefillOut
    <2>1. NoneNew
        BY <1>2, WorkerNoneNew DEF Worker
    <2>2. CASE queues["batch"] # <<>>
        <3>1. Pushes(Head(queues["batch"]))
            <4>1. CASE DecodeOut
                <5>1. \E eos \in BOOLEAN : Respond(Head(queues["batch"]), eos,
                          req[Head(queues["batch"])].tokens + 1, "next_decode")
                    BY <2>2, <4>1 DEF DecodeOut
                <5> QED BY <1>1, <2>2, <5>1, RespondPushes
            <4>2. CASE PrefillOut
                <5>1. \E eos \in BOOLEAN : Respond(Head(queues["batch"]), eos,
                          prompts_len[Head(queues["batch"])], "decode")
                    BY <2>2, <4>2 DEF PrefillOut
                <5> QED BY <1>1, <2>2, <5>1, RespondPushes
            <4> QED BY <1>2, <4>1, <4>2
        <3> QED BY <1>1, <2>1, <3>1, PushIsAnswer
    <2>3. CASE queues["batch"] = <<>>
        <3>1. UNCHANGED <<req, unread, has_resp, async, reader>>
            BY <1>2, <2>3 DEF DecodeOut, PrefillOut
        <3>2. Submitted' = Submitted /\ Placed'
            BY <1>1, <2>1, <3>1, SubmittedSame
        <3>3. Answered' = Answered /\ Final' = Final
            BY <3>1 DEF Answered, Final
        <3>4. unread' = unread /\ Woken' = Woken
            BY <3>1 DEF Woken
        <3> QED BY <3>2, <3>3, <3>4, ContractStutters
    <2> QED BY <2>2, <2>3
<1>3. CASE Worker /\ ~DecodeOut /\ ~PrefillOut
    <2>1. NoneNew /\ \A r \in Requests : SameCounters(r)
        BY <1>3, WorkerNoneNew, WorkerSameCounters
    <2>2. Submitted' = Submitted /\ Placed'
        BY <1>1, <2>1, SubmittedSame DEF SameCounters
    <2>3. Answered' = Answered /\ Final' = Final
        BY <2>1, CountersSame
    <2>4. unread' = unread /\ reader' = reader
        BY <1>3, Zenon DEF Worker, LoopHead, DrainNewRequests, SwapInOne, SwapInDone,
            RetryDeferredDecode, AdmitDecode, RunDecode, DecodeDone, RetryDeferredPrefill,
            RetryPrefillDone, AdmitWaitingPrefill, AdmitDone, RunPrefill, PrefillDone,
            SwapOutVictim, NoVictim, LoopEnd, WaitAndEnqueueOneRequest, shared
    <2>5. \/ async' = async /\ has_resp' = has_resp
          \/ async' = (async \/ has_resp) /\ has_resp' = FALSE
        BY <1>3, Zenon DEF Worker, LoopHead, DrainNewRequests, SwapInOne, SwapInDone,
            RetryDeferredDecode, AdmitDecode, RunDecode, DecodeDone, RetryDeferredPrefill,
            RetryPrefillDone, AdmitWaitingPrefill, AdmitDone, RunPrefill, PrefillDone,
            SwapOutVictim, NoVictim, LoopEnd, WaitAndEnqueueOneRequest, shared, Announce
    <2>6. CASE async' = async /\ has_resp' = has_resp
        <3>1. Woken' = Woken
            BY <2>4, <2>6 DEF Woken
        <3> QED BY <2>2, <2>3, <2>4, <3>1, ContractStutters
    <2>7. CASE async' = (async \/ has_resp) /\ has_resp' = FALSE
        <3>1. Woken' <=> Woken
            BY <2>4, <2>7, Zenon DEF Woken
        <3>2. Woken' = Woken
            BY <3>1 DEF Woken
        <3> QED BY <2>2, <2>3, <2>4, <3>2, ContractStutters
    <2> QED BY <2>5, <2>6, <2>7
<1>4. CASE \E r \in Requests : Submit(r)
    BY <1>1, <1>4, SubmitIsAsk
<1>5. CASE OtherThreads \/ UNCHANGED vars
    <2>1. UNCHANGED <<queues, req, has_resp>>
        BY <1>5 DEF OtherThreads, ServeAsync, ReadResponses, LeaveCallback, ServerClose,
                    StopRunning, CloseQueue, Join, vars, internal
    <2>2. Submitted' = Submitted /\ Placed' /\ Answered' = Answered /\ Final' = Final
        BY <2>1 DEF Submitted, Placed, InSomeQueue, Answered, Final
    <2>3. CASE ReadResponses
        <3>1. Woken /\ unread' = FALSE /\ Woken' \in BOOLEAN
            BY <2>3 DEF ReadResponses, Woken
        <3>2. Contract!Read
            BY <2>2, <3>1 DEF Contract!Read, Answered, Final, Woken
        <3> QED BY <2>2, <3>2 DEF Contract!Next
    <2>4. CASE ~ReadResponses
        <3>1. unread' = unread
            BY <1>5, <2>4 DEF OtherThreads, ServeAsync, LeaveCallback, ServerClose, StopRunning,
                              CloseQueue, Join, vars, shared
        <3>2. \/ async' = async /\ (reader' = "reading" <=> reader = "reading")
              \/ async /\ reader' = "reading"
            BY <1>5, <2>4 DEF OtherThreads, ServeAsync, LeaveCallback, ServerClose, StopRunning,
                              CloseQueue, Join, vars, shared
        <3>3. Woken' = Woken
            BY <2>1, <3>2 DEF Woken
        <3> QED BY <2>2, <3>1, <3>3, ContractStutters
    <2> QED BY <2>3, <2>4
<1> QED BY <1>2, <1>3, <1>4, <1>5 DEF Next, OtherThreads

\* What Server takes for granted of the scheduler thread is what worker_loop
\* does: it answers what it was asked, never too often, never after the last
\* response, and sees to it that each response is read.
THEOREM KeepsTheContract == Spec => ImplementsAnswers
<1>1. Init => Placed
    BY DEF Init, Placed, InSomeQueue, ToSet
<1>2. IInv /\ IInv' /\ Placed /\ [Next]_vars => Placed' /\ [Contract!Next]_(Contract!vars)
    BY NextIsOfTheContract
<1> QED BY <1>1, <1>2, ContractInit, InvariantHolds, PTL
        DEF Spec, ImplementsAnswers, Contract!Spec
-----------------------------------------------------------------------------
(***************************************************************************)
(* Proofs about whom Scheduler serves, for any finite number of requests.  *)
(*                                                                         *)
(* One request at a time is swapped out while no CUDA call fails, if the   *)
(* texts fit MAX_SEQ: the one swapped out last is back before the loop can *)
(* look for another victim, since nothing takes a block between            *)
(* try_swap_out_victim and the first retry_swap_in_requests of the next    *)
(* turn.                                                                   *)
(*                                                                         *)
(* Who is admitted before an earlier request needs fewer blocks: the three *)
(* queues of who waits are in the order of arrival, up to a rotation of    *)
(* the deferred ones while they are being retried, and who has been        *)
(* refused in this turn is refused still.                                  *)
(***************************************************************************)

\* What is cached of a text, all of it but the last token, is never longer than
\* a position can be.
TextsFit == \A p \in PromptLens : p + MAX_NEW_TOKENS <= MAX_SEQ + 1
-----------------------------------------------------------------------------
(* What is cached of a request: never more than its prompt and all the tokens *)
(* generated but the newest.                                                  *)

CachedOK(rec, p) == rec.tokens = 0 \/ rec.tokens + 1 <= p + rec.generated

CachedInv == \A r \in Requests : CachedOK(req[r], prompts_len[r])

SameText(r) == req'[r].tokens = req[r].tokens /\ req'[r].generated = req[r].generated

LEMMA WorkerSameText ==
    ASSUME IInv, Worker, ~DecodeOut, ~PrefillOut, NEW r \in Requests
    PROVE  SameText(r)
<1>1. req \in [Requests -> ReqType]
    BY DEF IInv, RequestInv
<1>2. CASE req' = req
    BY <1>2 DEF SameText
<1>3. CASE SwapInOne
    BY <1>1, <1>2, <1>3 DEF SwapInOne, SameText, ReqType
<1>4. CASE RetryDeferredDecode
    BY <1>1, <1>4 DEF RetryDeferredDecode, SameText, ReqType
<1>5. CASE AdmitDecode
    <2> DEFINE x == Head(queues["decode"])
               k == DecodeNeed(x)
    <2>1. \/ req' = [req EXCEPT ![x].state = "DecodeRunning", ![x].kv_residency = "Gpu",
                               ![x].blocks = @ + k]
          \/ req' = [req EXCEPT ![x].state = "DeferredDecodeKV"]
        BY <1>5 DEF AdmitDecode
    <2> HIDE DEF x, k
    <2> QED BY <1>1, <2>1 DEF SameText, ReqType
<1>6. CASE RetryDeferredPrefill \/ AdmitWaitingPrefill
    <2>1. ASSUME NEW x, PrefillAdmitted(x) PROVE SameText(r)
        <3> DEFINE k == CeilDiv(prompts_len[x], DEFAULT_KV_BLOCK_SIZE)
        <3>1. req' = [req EXCEPT ![x].state = "PrefillRunning", ![x].kv_residency = "Gpu",
                                 ![x].blocks = k]
            BY <2>1 DEF PrefillAdmitted
        <3> HIDE DEF k
        <3> QED BY <1>1, <3>1 DEF SameText, ReqType
    <2>2. ASSUME NEW x, req' = [req EXCEPT ![x].state = "DeferredPrefillKV"] PROVE SameText(r)
        BY <1>1, <2>2 DEF SameText, ReqType
    <2>3. \/ \E x : PrefillAdmitted(x)
          \/ \E x : req' = [req EXCEPT ![x].state = "DeferredPrefillKV"]
          \/ req' = req
        <3>1. CASE RetryDeferredPrefill
            BY <3>1 DEF RetryDeferredPrefill
        <3>2. CASE AdmitWaitingPrefill
            BY <3>2 DEF AdmitWaitingPrefill
        <3> QED BY <1>6, <3>1, <3>2
    <2> QED BY <1>2, <2>1, <2>2, <2>3
<1>7. CASE SwapOutVictim
    <2> DEFINE q == VictimQueue[pc]
               i == Min(Victims(q))
               x == queues[q][i]
    <2>1. \/ req' = [req EXCEPT ![x].state = "SwappedOut", ![x].kv_residency = "Cpu",
                               ![x].cpu_blocks = req[x].blocks, ![x].blocks = 0]
          \/ req' = req
        BY <1>7 DEF SwapOutVictim
    <2> HIDE DEF x
    <2> QED BY <1>1, <1>2, <2>1 DEF SameText, ReqType
<1>8. CASE \/ LoopHead \/ DrainNewRequests \/ SwapInDone \/ RunDecode \/ DecodeDone
           \/ RetryPrefillDone \/ AdmitDone \/ RunPrefill \/ PrefillDone \/ NoVictim \/ LoopEnd
           \/ WaitAndEnqueueOneRequest
    BY <1>2, <1>8 DEF LoopHead, DrainNewRequests, SwapInDone, RunDecode, DecodeDone,
                      RetryPrefillDone, AdmitDone, RunPrefill, PrefillDone, NoVictim, LoopEnd,
                      WaitAndEnqueueOneRequest
<1> QED BY <1>3, <1>4, <1>5, <1>6, <1>7, <1>8 DEF Worker

\* A response: the token before it is in the cache, or the whole prompt is.
LEMMA RespondKeepsCached ==
    ASSUME IInv, CachedInv, NEW r \in Requests, NEW eos, NEW cached \in Nat, NEW continue,
           cached <= prompts_len[r] + req[r].generated, prompts_len' = prompts_len,
           Respond(r, eos, cached, continue)
    PROVE  CachedInv'
<1> DEFINE done == eos \/ IsFinish(r)
           rec == Counted(req[r], done)
           new == IF done THEN Finished(rec)
                  ELSE [rec EXCEPT !.state = "DecodeReady", !.tokens = cached]
<1>1. req \in [Requests -> ReqType] /\ prompts_len[r] \in Nat
    BY ConstantTypes DEF IInv, RequestInv
<1>2. req' = [req EXCEPT ![r] = new]
    BY DEF Respond
<1>3. CachedOK(new, prompts_len[r])
    <2> HIDE DEF done
    <2>1. req[r] \in ReqType /\ req[r].generated \in Nat
        BY <1>1 DEF ReqType
    <2>3. CASE done
        BY <2>1, <2>3 DEF CachedOK, Finished, Counted, ReqType
    <2>4. CASE ~done
        <3>1. new.tokens = cached /\ new.generated = req[r].generated + 1
            BY <2>1, <2>4 DEF Counted, ReqType
        <3> QED BY <1>1, <2>1, <3>1 DEF CachedOK
    <2> QED BY <2>3, <2>4
<1> HIDE DEF new
<1> QED BY <1>1, <1>2, <1>3 DEF CachedInv

LEMMA NextKeepsCached == ASSUME IInv, CachedInv, [Next]_vars PROVE CachedInv'
<1>1. RequestInv /\ ControlInv
    BY DEF IInv
<1>2. ASSUME prompts_len' = prompts_len, \A r \in Requests : SameText(r) PROVE CachedInv'
    BY <1>2 DEF CachedInv, CachedOK, SameText
<1>3. CASE Worker /\ ~DecodeOut /\ ~PrefillOut
    <2>1. prompts_len' = prompts_len
        <3>1. CASE LoopHead \/ DrainNewRequests \/ SwapInDone \/ RunDecode \/ DecodeDone
            BY <3>1 DEF LoopHead, DrainNewRequests, SwapInDone, RunDecode, DecodeDone
        <3>2. CASE SwapInOne \/ RetryDeferredDecode
            BY <3>2 DEF SwapInOne, RetryDeferredDecode
        <3>3. CASE AdmitDecode
            BY <3>3 DEF AdmitDecode
        <3>5. CASE SwapOutVictim
            BY <3>5, Zenon DEF SwapOutVictim
        <3>6. CASE RetryDeferredPrefill \/ AdmitWaitingPrefill \/ RunPrefill
            BY <3>6 DEF RetryDeferredPrefill, AdmitWaitingPrefill, RunPrefill
        <3>4. CASE \/ RetryPrefillDone \/ AdmitDone \/ PrefillDone \/ NoVictim \/ LoopEnd
                   \/ WaitAndEnqueueOneRequest
            BY <3>4 DEF RetryPrefillDone, AdmitDone, PrefillDone, NoVictim, LoopEnd,
                        WaitAndEnqueueOneRequest
        <3> QED BY <1>3, <3>1, <3>2, <3>3, <3>4, <3>5, <3>6 DEF Worker
    <2> QED BY <1>2, <1>3, <2>1, WorkerSameText
<1>4. CASE DecodeOut \/ PrefillOut
    <2>1. prompts_len' = prompts_len
        BY <1>4 DEF DecodeOut, PrefillOut
    <2>2. CASE queues["batch"] = <<>>
        <3>1. req' = req
            BY <1>4, <2>2 DEF DecodeOut, PrefillOut
        <3> QED BY <1>2, <2>1, <3>1 DEF SameText
    <2>3. CASE queues["batch"] # <<>>
        <3> DEFINE r == Head(queues["batch"])
        <3>1. r \in Requests /\ r \in ToSet(queues["batch"])
            BY <1>1, <2>3, Lengths, Names
        <3>2. /\ req[r] \in ReqType /\ RecOK(req[r], prompts_len[r]) /\ prompts_len[r] \in Nat
              /\ req[r].state = IF pc = "prefill_out" THEN "PrefillRunning" ELSE "DecodeRunning"
              /\ CachedOK(req[r], prompts_len[r])
            BY <1>1, <3>1, ConstantTypes DEF RequestInv, ControlInv, CachedInv
        <3>3. req[r].generated \in Nat /\ req[r].tokens \in Nat
            BY <3>2 DEF ReqType
        <3>4. CASE DecodeOut
            <4>1. PICK eos \in BOOLEAN : Respond(r, eos, req[r].tokens + 1, "next_decode")
                BY <2>3, <3>4 DEF DecodeOut
            <4>2. req[r].state = "DecodeRunning"
                BY <3>2, <3>4 DEF DecodeOut
            <4> HIDE DEF r
            <4>3. req[r].tokens + 1 \in Nat
                  /\ req[r].tokens + 1 <= prompts_len[r] + req[r].generated
                BY <3>2, <3>3, <4>2 DEF RecOK, CachedOK
            <4> QED BY <2>1, <3>1, <4>1, <4>3, RespondKeepsCached
        <3>5. CASE PrefillOut
            <4>1. PICK eos \in BOOLEAN : Respond(r, eos, prompts_len[r], "decode")
                BY <2>3, <3>5 DEF PrefillOut
            <4> HIDE DEF r
            <4> QED BY <2>1, <3>1, <3>2, <3>3, <4>1, RespondKeepsCached
        <3> QED BY <1>4, <3>4, <3>5
    <2> QED BY <2>2, <2>3
<1>5. CASE \E r \in Requests : Submit(r)
    <2>1. PICK x \in Requests : Submit(x)
        BY <1>5
    <2> DEFINE a == Cardinality(Submitted) + 1
    <2>2. req' = [req EXCEPT ![x].arrival = a] /\ prompts_len' = prompts_len
        BY <2>1 DEF Submit
    <2> HIDE DEF a
    <2>3. \A r \in Requests : SameText(r)
        BY <1>1, <2>2 DEF RequestInv, ReqType, SameText
    <2> QED BY <1>2, <2>2, <2>3
<1>6. CASE OtherThreads \/ UNCHANGED vars
    <2>1. UNCHANGED <<req, prompts_len>>
        BY <1>6 DEF OtherThreads, ServeAsync, ReadResponses, LeaveCallback, ServerClose,
                    StopRunning, CloseQueue, Join, vars, internal
    <2> QED BY <1>2, <2>1 DEF SameText
<1> QED BY <1>3, <1>4, <1>5, <1>6 DEF Next, OtherThreads, Worker
-----------------------------------------------------------------------------
(* The one that is swapped out *)

\* Where the worker is between the search for a victim and the swap-in.
BeforeSwapIn == {"end", "loop", "drain", "swap_in_1", "exited"}

\* While no call failed: it is alone, about to be tried, and fits.
AloneInv ==
    /\ faults \in Nat
    /\ faults = 0 =>
          /\ capacity = StagingBlocks
          /\ queues["swap_out"] # <<>> =>
                /\ Len(queues["swap_out"]) = 1
                /\ pc \in BeforeSwapIn /\ (pc = "swap_in_1" => left = 1)
                /\ CanSwapIn(Head(queues["swap_out"]))

LEMMA InitIsAlone == Init => AloneInv
BY Names DEF Init, AloneInv

\* Whoever has its text in the cache has no more blocks than the staging buffer.
LEMMA FitsStaging ==
    ASSUME IInv, CachedInv, TextsFit, NEW r \in Requests,
           req[r].state \in {"DecodeReady", "DeferredDecodeKV"}
    PROVE  /\ req[r].blocks * GPT2_N_LAYERS <= StagingBlocks
           /\ req[r].blocks * GPT2_N_LAYERS \in Nat
<1> DEFINE n == req[r].tokens
           b == req[r].blocks
           p == prompts_len[r]
           c == CeilDiv(MAX_SEQ, B)
<1>1. /\ n \in Nat /\ b \in Nat /\ n >= 1 /\ Fits(n, b)
      /\ req[r].generated \in Nat /\ req[r].generated < MAX_NEW_TOKENS
      /\ p \in PromptLens /\ p \in Nat /\ n + 1 <= p + req[r].generated
    <2>1. req[r] \in ReqType /\ RecOK(req[r], p) /\ CachedOK(req[r], p) /\ p \in PromptLens
        BY DEF IInv, RequestInv, CachedInv
    <2>2. n >= 1 /\ Fits(n, b) /\ req[r].generated < MAX_NEW_TOKENS
        BY <2>1 DEF RecOK, OnGpu
    <2>3. n \in Nat /\ b \in Nat /\ req[r].generated \in Nat
        BY <2>1 DEF ReqType
    <2> QED BY <2>1, <2>2, <2>3, ConstantTypes DEF CachedOK
<1>2. MAX_SEQ \in Nat \ {0} /\ n <= MAX_SEQ
    <2>1. p + MAX_NEW_TOKENS <= MAX_SEQ + 1 /\ MAX_SEQ \in Nat /\ MAX_NEW_TOKENS \in Nat
        BY <1>1, SchedulerAssumption DEF TextsFit
    <2> HIDE DEF n, p
    <2> QED BY <1>1, <2>1
<1>3. c \in Nat /\ Fits(MAX_SEQ, c)
    BY <1>2, FitsCeil
<1> HIDE DEF n, b, p, c
<1>4. b <= c
    <2> DEFINE d == B
    <2>1. d \in Nat \ {0} /\ b * d < n + d /\ MAX_SEQ <= c * d
        BY <1>1, <1>3, ConstantTypes DEF Fits
    <2> HIDE DEF d
    <2>2. b * d < (c + 1) * d
        <3>1. (c + 1) * d = c * d + d /\ c * d \in Nat /\ b * d \in Nat
            BY <1>1, <1>3, <2>1
        <3> QED BY <1>1, <1>2, <2>1, <3>1
    <2>3. CASE b >= c + 1
        <3>1. (b - c - 1) \in Nat /\ (b - c - 1) * d \in Nat
            BY <1>1, <1>3, <2>1, <2>3
        <3>2. (b - c - 1) * d = b * d - (c + 1) * d
            BY <1>1, <1>3, <2>1
        <3> QED BY <1>1, <1>3, <2>1, <2>2, <3>1, <3>2
    <2> QED BY <1>1, <1>3, <2>3
<1>5. b * GPT2_N_LAYERS <= c * GPT2_N_LAYERS /\ b * GPT2_N_LAYERS \in Nat
    <2> DEFINE l == GPT2_N_LAYERS
    <2>1. l \in Nat
        BY ConstantTypes
    <2> HIDE DEF l
    <2>2. (c - b) \in Nat /\ (c - b) * l \in Nat
        BY <1>1, <1>3, <1>4, <2>1
    <2>3. (c - b) * l = c * l - b * l /\ c * l \in Nat /\ b * l \in Nat
        BY <1>1, <1>3, <2>1
    <2>4. b * l <= c * l /\ b * l \in Nat
        BY <2>2, <2>3
    <2> QED BY <2>4 DEF l
<1> QED BY <1>5 DEF StagingBlocks, B, b, c

\* Steps that leave the swapped request where it is, or happen when there is none.
LEMMA AloneSame ==
    ASSUME AloneInv, UNCHANGED <<capacity, faults>>, queues'["swap_out"] = queues["swap_out"],
           queues["swap_out"] # <<>> /\ faults = 0 =>
                 /\ pc' \in BeforeSwapIn /\ (pc' = "swap_in_1" => left' = 1)
                 /\ gpu_free' = gpu_free
                 /\ req'[Head(queues["swap_out"])].cpu_blocks
                        = req[Head(queues["swap_out"])].cpu_blocks
    PROVE  AloneInv'
BY DEF AloneInv, CanSwapIn

\* A move leaves the other queues alone.
LEMMA OtherMoves ==
    ASSUME RequestInv, NEW from \in QueueNames, NEW to \in QueueNames, NEW q \in QueueNames,
           q # from, q # to,
           NEW i, \/ queues' = MoveAt(queues, i, from, to)
                  \/ queues' = MoveFirst(queues, i, from, to)
    PROVE  queues'[q] = queues[q]
<1> DEFINE f == RemoveAt(queues[from], i)
           t == queues[from][i]
           g == SubSeq(queues[from], i + 1, Len(queues[from]))
           u == SubSeq(queues[from], 1, i)
<1>1. queues \in [QueueNames -> Seq(Requests)]
    BY DEF RequestInv, QueuesOK
<1>2. \/ queues' = [[queues EXCEPT ![from] = f] EXCEPT ![to] = Append(@, t)]
      \/ queues' = [queues EXCEPT ![from] = g, ![to] = @ \o u]
    <2>1. CASE queues' = MoveAt(queues, i, from, to)
        BY <2>1 DEF MoveAt
    <2>2. CASE queues' = MoveFirst(queues, i, from, to)
        <3>1. queues' = [queues EXCEPT ![from] = g, ![to] = @ \o u]
            BY <1>1, <2>2 DEF MoveFirst
        <3> QED BY <3>1
    <2> QED BY <2>1, <2>2
<1> HIDE DEF f, t, g, u
<1> QED BY <1>1, <1>2, Names

\* What the worker does after the swap-in: with nobody swapped out, as long as no
\* call has failed.
Later == \/ RetryDeferredDecode \/ AdmitDecode \/ RunDecode \/ DecodeOut \/ DecodeDone
         \/ RetryDeferredPrefill \/ RetryPrefillDone \/ AdmitWaitingPrefill \/ AdmitDone
         \/ RunPrefill \/ PrefillOut \/ PrefillDone \/ NoVictim \/ WaitAndEnqueueOneRequest

LEMMA LaterKeepsAlone == ASSUME IInv, AloneInv, Later PROVE AloneInv'
<1>1. RequestInv
    BY DEF IInv
<1>2. pc \notin BeforeSwapIn
    <2>1. CASE \/ RetryDeferredDecode \/ AdmitDecode \/ RunDecode \/ DecodeOut \/ DecodeDone
               \/ RetryDeferredPrefill \/ RetryPrefillDone
        BY <2>1 DEF RetryDeferredDecode, AdmitDecode, RunDecode, DecodeOut, DecodeDone,
                    RetryDeferredPrefill, RetryPrefillDone, BeforeSwapIn
    <2>2. CASE \/ AdmitWaitingPrefill \/ AdmitDone \/ RunPrefill \/ PrefillOut \/ PrefillDone
               \/ WaitAndEnqueueOneRequest
        BY <2>2 DEF AdmitWaitingPrefill, AdmitDone, RunPrefill, PrefillOut, PrefillDone,
                    WaitAndEnqueueOneRequest, BeforeSwapIn
    <2>3. CASE NoVictim
        BY <2>3 DEF NoVictim, VictimQueue, BeforeSwapIn
    <2> QED BY <2>1, <2>2, <2>3 DEF Later
<1>3. UNCHANGED <<capacity, faults>>
    <2>1. CASE RetryDeferredDecode \/ AdmitDecode \/ RunDecode \/ DecodeOut \/ DecodeDone
        BY <2>1 DEF RetryDeferredDecode, AdmitDecode, RunDecode, DecodeOut, DecodeDone, kv
    <2>2. CASE \/ RetryDeferredPrefill \/ RetryPrefillDone \/ AdmitWaitingPrefill \/ AdmitDone
               \/ RunPrefill
        BY <2>2 DEF RetryDeferredPrefill, RetryPrefillDone, AdmitWaitingPrefill, AdmitDone,
                    RunPrefill, kv
    <2>3. CASE PrefillOut \/ PrefillDone \/ NoVictim \/ WaitAndEnqueueOneRequest
        BY <2>3 DEF PrefillOut, PrefillDone, NoVictim, WaitAndEnqueueOneRequest, kv
    <2> QED BY <2>1, <2>2, <2>3 DEF Later
<1>4. queues'["swap_out"] = queues["swap_out"]
    <2>1. CASE \/ RunDecode \/ RetryPrefillDone \/ AdmitDone \/ PrefillDone \/ NoVictim
        BY <2>1 DEF RunDecode, RetryPrefillDone, AdmitDone, PrefillDone, NoVictim
    <2>2. CASE RetryDeferredDecode \/ DecodeDone
        <3>1. \/ queues' = MoveFirst(queues, Len(queues["deferred_decode"]), "deferred_decode", "decode")
              \/ queues' = MoveFirst(queues, Len(queues["next_decode"]), "next_decode", "decode")
            BY <2>2 DEF RetryDeferredDecode, DecodeDone
        <3> QED BY <1>1, <3>1, OtherMoves, Names
    <2>3. CASE AdmitDecode \/ AdmitWaitingPrefill
        <3>1. \E from, to \in QueueNames :
                  /\ "swap_out" # from /\ "swap_out" # to /\ "swap_out" \in QueueNames
                  /\ queues' = MoveAt(queues, 1, from, to)
            <4>1. CASE AdmitDecode
                BY <4>1, Names DEF AdmitDecode, MoveFront
            <4>2. CASE AdmitWaitingPrefill
                BY <4>2, Names DEF AdmitWaitingPrefill, MoveFront
            <4> QED BY <2>3, <4>1, <4>2
        <3> QED BY <1>1, <3>1, OtherMoves
    <2>4. CASE DecodeOut \/ PrefillOut
        <3>1. queues' = queues \/ \E r, eos, cached : \E continue \in {"decode", "next_decode"} :
                                     Respond(r, eos, cached, continue)
            BY <2>4 DEF DecodeOut, PrefillOut
        <3>2. queues' = queues \/ \E to \in QueueNames \ {"swap_out"} :
                                     queues' = MoveAt(queues, 1, "batch", to)
            BY <3>1, Names DEF Respond, MoveFront
        <3> QED BY <1>1, <3>2, OtherMoves, Names
    <2>5. CASE RetryDeferredPrefill
        <3> DEFINE r == Head(queues["deferred_prefill"])
        <3>1. CASE queues' = [queues EXCEPT !["deferred_prefill"] = Tail(@), !["prefill"] = <<r>> \o @]
            <4> HIDE DEF r
            <4> QED BY <1>1, <3>1, Names DEF RequestInv, QueuesOK
        <3>2. CASE queues' = MoveAt(queues, 1, "deferred_prefill", "deferred_prefill")
            BY <1>1, <3>2, OtherMoves, Names
        <3> QED BY <2>5, <3>1, <3>2 DEF RetryDeferredPrefill, MoveFront
    <2>6. CASE RunPrefill
        <3>1. \E n : queues' = MoveFirst(queues, n, "prefill", "batch")
            BY <2>6 DEF RunPrefill
        <3> QED BY <1>1, <3>1, OtherMoves, Names
    <2>7. CASE WaitAndEnqueueOneRequest
        <3>1. queues' = queues \/ queues' = MoveAt(queues, 1, "request", "waiting_prefill")
            BY <2>7 DEF WaitAndEnqueueOneRequest, MoveFront
        <3> QED BY <1>1, <3>1, OtherMoves, Names
    <2> QED BY <2>1, <2>2, <2>3, <2>4, <2>5, <2>6, <2>7 DEF Later
<1>5. ~(queues["swap_out"] # <<>> /\ faults = 0)
    BY <1>2 DEF AloneInv
<1> QED BY <1>3, <1>4, <1>5, AloneSame

\* From the end of one turn to the swap-in of the next.
LEMMA LoopKeepsAlone ==
    ASSUME IInv, AloneInv, LoopEnd \/ LoopHead \/ DrainNewRequests
    PROVE  AloneInv'
<1>1. RequestInv
    BY DEF IInv
<1>2. CASE LoopEnd
    <2>1. queues["swap_out"] # <<>> => pc' = "loop"
        BY <1>2 DEF LoopEnd, no_internal_work, InternalQueues, GoTo
    <2>2. UNCHANGED <<queues, req, gpu_free, capacity, faults>>
        BY <1>2 DEF LoopEnd, kv
    <2> QED BY <2>1, <2>2, AloneSame DEF BeforeSwapIn
<1>3. CASE LoopHead
    <2>1. pc' \in {"drain", "exited"} /\ UNCHANGED <<queues, req, gpu_free, capacity, faults>>
        BY <1>3 DEF LoopHead, GoTo, kv
    <2> QED BY <2>1, AloneSame DEF BeforeSwapIn
<1>4. CASE DrainNewRequests
    <2>1. queues'["swap_out"] = queues["swap_out"]
        <3> DEFINE n == IF admission_paused_ THEN 0
                        ELSE Lesser(MAX_BATCH_NUM, Len(queues["request"]))
        <3>1. queues' = MoveFirst(queues, n, "request", "waiting_prefill")
            BY <1>4 DEF DrainNewRequests, drain_new_requests
        <3> HIDE DEF n
        <3> QED BY <1>1, <3>1, OtherMoves, Names
    <2>2. /\ pc' = "swap_in_1" /\ left' = Len(queues["swap_out"])
          /\ UNCHANGED <<req, gpu_free, capacity, faults>>
        BY <1>4 DEF DrainNewRequests, GoToLoop, kv
    <2>3. queues["swap_out"] # <<>> /\ faults = 0 => left' = 1
        BY <2>2 DEF AloneInv
    <2> QED BY <2>1, <2>2, <2>3, AloneSame DEF BeforeSwapIn
<1> QED BY <1>2, <1>3, <1>4

\* The one that was swapped out comes back at once, or a call has failed.
LEMMA SwapInKeepsAlone == ASSUME IInv, AloneInv, SwapInOne PROVE AloneInv'
<1> DEFINE r == Head(queues["swap_out"])
<1>1. RequestInv /\ ControlInv /\ queues["swap_out"] # <<>>
      /\ Len(queues["swap_out"]) \in Nat /\ 1 \in 1..Len(queues["swap_out"])
    <2>1. RequestInv /\ ControlInv /\ left > 0 /\ left \in Nat /\ left <= Len(queues["swap_out"])
        BY DEF IInv, SwapInOne, ControlInv
    <2> QED BY <2>1, Lengths, Names
<1>2. capacity' = capacity
    BY DEF SwapInOne
<1>3. CASE queues' = MoveFront(queues, "swap_out", "decode") /\ faults' = faults
    <2>1. QueuesOK(queues) /\ "swap_out" \in QueueNames /\ "decode" \in QueueNames
        BY <1>1, Names DEF RequestInv
    <2>2. queues' = MoveAt(queues, 1, "swap_out", "decode")
        BY <1>3 DEF MoveFront
    <2>3. Len(queues'["swap_out"]) = Len(queues["swap_out"]) - 1 /\ QueuesOK(queues')
        BY <1>1, <2>1, <2>2, MoveAtOK DEF Moved
    <2>4. faults = 0 => Len(queues["swap_out"]) = 1 /\ capacity = StagingBlocks
        BY <1>1 DEF AloneInv
    <2>5. faults = 0 => queues'["swap_out"] = <<>>
        <3> DEFINE s == queues'["swap_out"]
        <3>1. s \in Seq(Requests)
            BY <2>1, <2>3 DEF QueuesOK
        <3>2. faults = 0 => Len(s) = 0
            BY <2>3, <2>4
        <3> HIDE DEF s
        <3>3. faults = 0 => s = <<>>
            BY <3>1, <3>2
        <3> QED BY <3>3 DEF s
    <2> QED BY <1>2, <1>3, <2>4, <2>5 DEF AloneInv
<1>4. CASE /\ CanSwapIn(r) => faults < MAX_FAULTS
           /\ faults' = IF CanSwapIn(r) THEN faults + 1 ELSE faults
    <2>1. faults \in Nat /\ (faults = 0 => CanSwapIn(r))
        BY <1>1 DEF AloneInv
    <2>2. faults' \in Nat /\ faults' # 0
        BY <1>4, <2>1
    <2> QED BY <2>2 DEF AloneInv
<1> QED BY <1>3, <1>4 DEF SwapInOne

LEMMA SwapInDoneKeepsAlone == ASSUME IInv, AloneInv, SwapInDone PROVE AloneInv'
<1>1. pc \in DOMAIN AfterSwapIn /\ left = 0
    BY DEF SwapInDone
<1>2. ~(queues["swap_out"] # <<>> /\ faults = 0)
    BY <1>1, AfterSwapInPlaces DEF AloneInv, BeforeSwapIn
<1>3. UNCHANGED <<queues, capacity, faults>>
    BY DEF SwapInDone, kv
<1> QED BY <1>2, <1>3, AloneSame

\* A victim is looked for when nobody is swapped out; its blocks are then free and
\* the staging buffer has room for them.
LEMMA SwapOutKeepsAlone ==
    ASSUME IInv, IInv', PoolInv, CachedInv, TextsFit, AloneInv, SwapOutVictim
    PROVE  AloneInv'
<1> DEFINE q      == VictimQueue[pc]
           i      == Min(Victims(q))
           r      == queues[q][i]
           needed == req[r].blocks * GPT2_N_LAYERS
           fits   == 0 < needed /\ needed <= cpu_free
<1>1. RequestInv /\ RequestInv' /\ gpu_free \in Nat
    BY DEF IInv, PoolInv
<1>2. /\ q \in {"deferred_decode", "decode"} /\ Victims(q) # {} /\ capacity' = capacity
      /\ pc \notin BeforeSwapIn
    <2>1. pc \in DOMAIN VictimQueue /\ Victims(q) # {} /\ capacity' = capacity
        BY Zenon DEF SwapOutVictim
    <2>2. /\ DOMAIN VictimQueue = {"victim", "victim_2"}
          /\ VictimQueue["victim"] = "deferred_decode" /\ VictimQueue["victim_2"] = "decode"
        BY DEF VictimQueue
    <2> QED BY <2>1, <2>2 DEF BeforeSwapIn
<1>3. /\ faults \in Nat
      /\ faults = 0 => queues["swap_out"] = <<>> /\ capacity = StagingBlocks
    BY <1>2 DEF AloneInv
<1>4. i \in 1..Len(queues[q])
    <2> HIDE DEF q
    <2>1. queues[q] \in Seq(Requests) /\ DOMAIN queues[q] = 1..Len(queues[q])
        BY <1>1, <1>2, Lengths, Names
    <2>2. Victims(q) \in SUBSET Nat /\ Victims(q) \subseteq DOMAIN queues[q]
        BY <2>1 DEF Victims
    <2> QED BY <1>2, <2>1, <2>2, MinOK
<1>5. r \in ToSet(queues[q]) /\ r \in Requests
      /\ req[r].state \in {"DeferredDecodeKV", "DecodeReady"}
    <2> HIDE DEF i, q
    <2>1. r \in ToSet(queues[q])
        BY <1>4 DEF ToSet
    <2>2. req[r].state \in Expected[q].state
        BY <1>1, <1>2, <2>1, Names DEF RequestInv
    <2> QED BY <1>1, <1>2, <2>1, <2>2, Lengths, Names, ExpectedStates
<1>6. CASE /\ queues' = MoveAt(queues, i, q, "swap_out")
           /\ req' = [req EXCEPT ![r].state = "SwappedOut", ![r].kv_residency = "Cpu",
                                 ![r].cpu_blocks = req[r].blocks, ![r].blocks = 0]
           /\ gpu_free' = gpu_free + needed
           /\ OneVictimIsEnough /\ UNCHANGED faults
    <2>1. needed \in Nat /\ needed <= StagingBlocks
        BY <1>5, FitsStaging
    <2>2. req'[r].cpu_blocks = req[r].blocks
        <3> HIDE DEF r
        <3> QED BY <1>1, <1>5, <1>6 DEF RequestInv, ReqType
    <2>3. /\ ToSet(queues'["swap_out"]) = ToSet(queues["swap_out"]) \cup {r}
          /\ Len(queues'["swap_out"]) = Len(queues["swap_out"]) + 1
        <3>1. q \in QueueNames /\ q # "swap_out" /\ "swap_out" \in QueueNames
            BY <1>2, Names
        <3>2. QueuesOK(queues) /\ queues' = MoveAt(queues, i, q, "swap_out")
            BY <1>1, <1>6, Zenon DEF RequestInv
        <3> HIDE DEF i, q
        <3>3. /\ Moved(queues, queues', {r}, q, "swap_out")
              /\ Len(queues'["swap_out"]) = Len(queues["swap_out"]) + 1
            BY <1>4, <3>1, <3>2, MoveAtOK, Zenon
        <3> QED BY <3>3 DEF Moved
    <2>4. pc' = "end"
        BY <1>6, Zenon DEF OneVictimIsEnough, GoTo
    <2>5. ASSUME faults = 0
          PROVE  Len(queues'["swap_out"]) = 1 /\ Head(queues'["swap_out"]) = r
        <3> DEFINE s == queues'["swap_out"]
        <3>1. Len(queues["swap_out"]) = 0 /\ ToSet(queues["swap_out"]) = {}
            BY <1>3, <2>5 DEF ToSet
        <3>2. Len(s) = 1 /\ ToSet(s) = {r} /\ s \in Seq(Requests)
            BY <1>1, <2>3, <3>1, Names DEF RequestInv, QueuesOK
        <3> HIDE DEF s, r
        <3>3. Head(s) = s[1] /\ s[1] \in ToSet(s)
            BY <3>2 DEF ToSet
        <3> QED BY <3>2, <3>3 DEF s
    <2>6. gpu_free' >= req'[r].cpu_blocks * GPT2_N_LAYERS
        <3> HIDE DEF r
        <3> QED BY <1>1, <1>6, <2>1, <2>2
    <2>7. /\ req'[r].cpu_blocks * GPT2_N_LAYERS <= gpu_free'
          /\ faults = 0 => req'[r].cpu_blocks * GPT2_N_LAYERS <= capacity'
        BY <1>2, <1>3, <2>1, <2>2, <2>6
    <2> HIDE DEF r, i, q
    <2> QED BY <1>2, <1>3, <1>6, <2>4, <2>5, <2>6, <2>7 DEF AloneInv, CanSwapIn, BeforeSwapIn
<1>7. CASE /\ fits => faults < MAX_FAULTS
           /\ faults' = IF fits THEN faults + 1 ELSE faults
           /\ queues' = MoveAt(queues, i, q, q)
    <2>1. queues'["swap_out"] = queues["swap_out"]
        <3>1. q \in QueueNames /\ "swap_out" # q /\ "swap_out" \in QueueNames
            BY <1>2, Names
        <3> HIDE DEF q, i
        <3> QED BY <1>1, <1>7, <3>1, OtherMoves
    <2> HIDE DEF fits, q
    <2>2. faults' \in Nat /\ (faults' = 0 => faults = 0)
        BY <1>3, <1>7
    <2> QED BY <1>2, <1>3, <2>1, <2>2 DEF AloneInv
<1> QED BY <1>6, <1>7, Zenon DEF SwapOutVictim

LEMMA SubmitKeepsAlone ==
    ASSUME IInv, AloneInv, NEW r \in Requests, Submit(r) PROVE AloneInv'
<1>1. RequestInv /\ ~InSomeQueue(r)
    BY SubmittedIs DEF IInv, Submit
<1>2. /\ UNCHANGED <<gpu_free, capacity, faults, pc, left>>
      /\ queues'["swap_out"] = queues["swap_out"]
    BY <1>1, Names DEF Submit, kv, RequestInv, QueuesOK
<1>3. ASSUME queues["swap_out"] # <<>>
      PROVE  req'[Head(queues["swap_out"])] = req[Head(queues["swap_out"])]
    <2> DEFINE h == Head(queues["swap_out"])
               a == Cardinality(Submitted) + 1
    <2>1. h \in Requests /\ h # r
        BY <1>1, <1>3, Lengths, Names DEF InSomeQueue
    <2>2. req' = [req EXCEPT ![r].arrival = a]
        BY DEF Submit
    <2> HIDE DEF h, a
    <2>3. req'[h] = req[h]
        BY <1>1, <2>1, <2>2 DEF RequestInv
    <2> QED BY <2>3 DEF h
<1>4. queues["swap_out"] # <<>> /\ faults = 0 =>
          pc \in BeforeSwapIn /\ (pc = "swap_in_1" => left = 1)
    BY DEF AloneInv
<1> QED BY <1>2, <1>3, <1>4, AloneSame

LEMMA NextKeepsAlone ==
    ASSUME IInv, IInv', PoolInv, CachedInv, TextsFit, AloneInv, [Next]_vars PROVE AloneInv'
<1>1. CASE OtherThreads \/ UNCHANGED vars
    <2>1. UNCHANGED <<queues, req, gpu_free, capacity, faults, pc, left>>
        BY <1>1 DEF OtherThreads, ServeAsync, ReadResponses, LeaveCallback, ServerClose,
                    StopRunning, CloseQueue, Join, vars, internal, kv
    <2>2. queues["swap_out"] # <<>> /\ faults = 0 =>
              pc \in BeforeSwapIn /\ (pc = "swap_in_1" => left = 1)
        BY DEF AloneInv
    <2> QED BY <2>1, <2>2, AloneSame
<1>2. CASE Worker
    BY <1>2, LaterKeepsAlone, LoopKeepsAlone, SwapInKeepsAlone, SwapInDoneKeepsAlone,
       SwapOutKeepsAlone DEF Worker, Later
<1>3. CASE \E r \in Requests : Submit(r)
    BY <1>3, SubmitKeepsAlone
<1> QED BY <1>1, <1>2, <1>3 DEF Next, OtherThreads

\* While no CUDA call fails there is at most one request in the CPU pool, which the
\* comment in swap_in takes for granted.  It is so for texts that fit MAX_SEQ: one
\* with more blocks than the staging buffer would stay swapped out, and others
\* would join it.
THEOREM NeverTwoSwapped ==
    ASSUME TextsFit
    PROVE  Spec => []AtMostOneSwapped
<1>1. Init => CachedInv
    BY DEF Init, NewRequest, CachedInv, CachedOK
<1>2. IInv /\ CachedInv /\ [Next]_vars => CachedInv'
    BY NextKeepsCached
<1>3. Init => AloneInv
    BY InitIsAlone
<1>4. IInv /\ IInv' /\ PoolInv /\ CachedInv /\ AloneInv /\ [Next]_vars => AloneInv'
    BY NextKeepsAlone
<1>5. IInv /\ AloneInv => AtMostOneSwapped
    <2> SUFFICES ASSUME IInv, AloneInv PROVE AtMostOneSwapped
        OBVIOUS
    <2> DEFINE n == Len(queues["swap_out"])
    <2>1. n \in Nat /\ (n = 0 \/ queues["swap_out"] # <<>>)
        BY Lengths, Names DEF IInv
    <2>2. faults = 0 => n = 0 \/ n = 1
        BY <2>1 DEF AloneInv
    <2> HIDE DEF n
    <2>3. faults = 0 => n <= 1
        BY <2>1, <2>2
    <2> QED BY <2>3 DEF AtMostOneSwapped, n
<1> QED BY <1>1, <1>2, <1>3, <1>4, <1>5, InvariantHolds, PoolsHold, PTL DEF Spec
-----------------------------------------------------------------------------
(* The order of arrival *)

\* By a, the first l come after the others, and both parts are in order.
InOrder(s, l, a) ==
    \A i, j \in 1..Len(s) : i < j =>
        IF i <= l /\ l < j THEN a[s[j]] < a[s[i]] ELSE a[s[i]] < a[s[j]]

LEMMA AppendInOrder ==
    ASSUME NEW s \in Seq(Requests), NEW a, InOrder(s, 0, a), NEW x,
           \A y \in ToSet(s) : a[y] < a[x]
    PROVE  InOrder(Append(s, x), 0, a)
<1> DEFINE t == Append(s, x)
           n == Len(s)
<1>1. n \in Nat /\ Len(t) = n + 1 /\ t[n + 1] = x /\ \A i \in 1..n : t[i] = s[i]
    BY AppendProperties
<1>2. \A i \in 1..n : a[s[i]] < a[x]
    BY DEF ToSet
<1>3. \A i, j \in 1..n : i < j => a[s[i]] < a[s[j]]
    BY DEF InOrder
<1> HIDE DEF t, n
<1>4. ASSUME NEW i \in 1..(n + 1), NEW j \in 1..(n + 1), i < j
      PROVE  a[t[i]] < a[t[j]]
    <2>1. i \in 1..n /\ (j \in 1..n \/ j = n + 1)
        BY <1>1, <1>4
    <2> QED BY <1>1, <1>2, <1>3, <1>4, <2>1
<1>5. InOrder(t, 0, a)
    BY <1>1, <1>4 DEF InOrder
<1> QED BY <1>5 DEF t

\* The first is gone.
LEMMA TailInOrder ==
    ASSUME NEW s, NEW t, NEW l \in Nat, NEW a, InOrder(s, l, a), Len(s) \in Nat \ {0},
           Len(t) = Len(s) - 1, \A i \in 1..(Len(s) - 1) : t[i] = s[i + 1]
    PROVE  InOrder(t, IF l = 0 THEN 0 ELSE l - 1, a)
<1> DEFINE k == IF l = 0 THEN 0 ELSE l - 1
           n == Len(s)
<1> SUFFICES ASSUME NEW i \in 1..(n - 1), NEW j \in 1..(n - 1), i < j
             PROVE  IF i <= k /\ k < j THEN a[t[j]] < a[t[i]] ELSE a[t[i]] < a[t[j]]
    BY DEF InOrder
<1>1. i + 1 \in 1..n /\ j + 1 \in 1..n /\ i + 1 < j + 1
    OBVIOUS
<1>2. IF i + 1 <= l /\ l < j + 1 THEN a[s[j + 1]] < a[s[i + 1]] ELSE a[s[i + 1]] < a[s[j + 1]]
    BY <1>1 DEF InOrder
<1>3. i + 1 <= l /\ l < j + 1 <=> i <= k /\ k < j
    OBVIOUS
<1>4. t[i] = s[i + 1] /\ t[j] = s[j + 1]
    OBVIOUS
<1> HIDE DEF k, n
<1> QED BY <1>2, <1>3, <1>4

\* The first has gone to the back.
LEMMA TurnInOrder ==
    ASSUME NEW s, NEW t, NEW l \in Nat \ {0}, NEW a, InOrder(s, l, a), Len(s) \in Nat,
           l <= Len(s), Len(t) = Len(s), t[Len(s)] = s[1],
           \A i \in 1..(Len(s) - 1) : t[i] = s[i + 1]
    PROVE  InOrder(t, l - 1, a)
<1> DEFINE n == Len(s)
<1>1. \A i, j \in 1..n : i < j =>
          IF i <= l /\ l < j THEN a[s[j]] < a[s[i]] ELSE a[s[i]] < a[s[j]]
    BY DEF InOrder
<1>2. n \in Nat /\ l <= n /\ t[n] = s[1] /\ \A i \in 1..(n - 1) : t[i] = s[i + 1]
    OBVIOUS
<1> SUFFICES ASSUME NEW i \in 1..n, NEW j \in 1..n, i < j
             PROVE  IF i <= l - 1 /\ l - 1 < j THEN a[t[j]] < a[t[i]] ELSE a[t[i]] < a[t[j]]
    BY DEF InOrder
<1> HIDE DEF n
<1>3. i \in 1..(n - 1) /\ i + 1 \in 1..n /\ t[i] = s[i + 1] /\ 1 \in 1..n /\ 1 < i + 1
    BY <1>2
<1>4. CASE j = n
    <2>1. t[j] = s[1]
        BY <1>2, <1>4
    <2>2. IF 1 <= l /\ l < i + 1 THEN a[s[i + 1]] < a[s[1]] ELSE a[s[1]] < a[s[i + 1]]
        BY <1>1, <1>3
    <2>3. 1 <= l /\ (l < i + 1 <=> ~(i <= l - 1)) /\ l - 1 < j
        BY <1>2, <1>4
    <2> QED BY <1>3, <2>1, <2>2, <2>3
<1>5. CASE j # n
    <2>1. t[j] = s[j + 1] /\ j + 1 \in 1..n /\ i + 1 < j + 1
        BY <1>2, <1>5
    <2>2. IF i + 1 <= l /\ l < j + 1 THEN a[s[j + 1]] < a[s[i + 1]] ELSE a[s[i + 1]] < a[s[j + 1]]
        BY <1>1, <1>3, <2>1
    <2>3. i + 1 <= l /\ l < j + 1 <=> i <= l - 1 /\ l - 1 < j
        OBVIOUS
    <2> QED BY <1>3, <2>1, <2>2, <2>3
<1> QED BY <1>4, <1>5

\* The first n have gone behind those that came before them.
LEMMA SplitInOrder ==
    ASSUME NEW s \in Seq(Requests), NEW w \in Seq(Requests), NEW a, NEW n \in 0..Len(s),
           InOrder(s, 0, a), InOrder(w, 0, a),
           \A x \in ToSet(w), y \in ToSet(s) : a[x] < a[y]
    PROVE  LET b == SubSeq(s, n + 1, Len(s))
               c == w \o SubSeq(s, 1, n)
           IN  /\ InOrder(b, 0, a) /\ InOrder(c, 0, a)
               /\ \A x \in ToSet(c), y \in ToSet(b) : a[x] < a[y]
               /\ ToSet(b) \subseteq ToSet(s) /\ ToSet(c) \subseteq ToSet(w) \cup ToSet(s)
<1> DEFINE m == Len(s)
           k == Len(w)
           f == SubSeq(s, 1, n)
           b == SubSeq(s, n + 1, m)
           c == w \o f
<1>1. m \in Nat /\ k \in Nat /\ n \in Nat /\ n <= m /\ DOMAIN s = 1..m /\ DOMAIN w = 1..k
    OBVIOUS
<1>2. f \in Seq(Requests) /\ Len(f) = n /\ \A i \in 1..n : f[i] = s[i]
    BY <1>1
<1>3. b \in Seq(Requests) /\ Len(b) = m - n /\ \A i \in 1..(m - n) : b[i] = s[i + n]
    <2> HIDE DEF m
    <2>1. \A i \in (n + 1)..m : s[i] \in Requests
        BY <1>1
    <2> QED BY <1>1, <2>1, SubSeqProperties
<1>4. /\ c \in Seq(Requests) /\ Len(c) = k + n
      /\ \A i \in 1..(k + n) : c[i] = IF i <= k THEN w[i] ELSE s[i - k]
    <2> HIDE DEF f
    <2>1. c \in Seq(Requests) /\ Len(c) = k + n
        BY <1>2, ConcatProperties
    <2>2. \A i \in 1..(k + n) : c[i] = IF i <= k THEN w[i] ELSE f[i - k]
        BY <1>1, <1>2, ConcatProperties
    <2>3. \A i \in 1..(k + n) : ~(i <= k) => i - k \in 1..n
        BY <1>1
    <2> QED BY <1>2, <2>1, <2>2, <2>3
<1>5. \A i, j \in 1..m : i < j => a[s[i]] < a[s[j]]
    BY <1>1 DEF InOrder
<1>6. \A i, j \in 1..k : i < j => a[w[i]] < a[w[j]]
    BY <1>1 DEF InOrder
<1>7. \A i \in 1..k, j \in 1..m : a[w[i]] < a[s[j]]
    BY <1>1 DEF ToSet
<1>8. DOMAIN b = 1..(m - n) /\ DOMAIN c = 1..(k + n)
    BY <1>3, <1>4
<1> HIDE DEF b, c, f, m, k
<1>9. InOrder(b, 0, a)
    <2> SUFFICES ASSUME NEW i \in 1..(m - n), NEW j \in 1..(m - n), i < j
                 PROVE  a[b[i]] < a[b[j]]
        BY <1>1, <1>3 DEF InOrder
    <2>1. i + n \in 1..m /\ j + n \in 1..m /\ i + n < j + n
        BY <1>1
    <2> QED BY <1>3, <1>5, <2>1
<1>10. InOrder(c, 0, a)
    <2> SUFFICES ASSUME NEW i \in 1..(k + n), NEW j \in 1..(k + n), i < j
                 PROVE  a[c[i]] < a[c[j]]
        BY <1>1, <1>4 DEF InOrder
    <2>1. CASE j <= k
        <3>1. i \in 1..k /\ j \in 1..k
            BY <1>1, <2>1
        <3> QED BY <1>4, <1>6, <2>1, <3>1
    <2>2. CASE i <= k /\ k < j
        <3>1. i \in 1..k /\ j - k \in 1..m /\ ~(j <= k)
            BY <1>1, <2>2
        <3> QED BY <1>4, <1>7, <2>2, <3>1
    <2>3. CASE k < i
        <3>1. i - k \in 1..m /\ j - k \in 1..m /\ i - k < j - k /\ ~(i <= k) /\ ~(j <= k)
            BY <1>1, <2>3
        <3> QED BY <1>4, <1>5, <3>1
    <2> QED BY <1>1, <2>1, <2>2, <2>3
<1>11. ASSUME NEW x \in ToSet(c), NEW y \in ToSet(b) PROVE a[x] < a[y]
    <2>1. PICK i \in 1..(k + n), j \in 1..(m - n) : x = c[i] /\ y = b[j]
        BY <1>8, <1>11 DEF ToSet
    <2>2. j + n \in 1..m /\ y = s[j + n]
        BY <1>1, <1>3, <2>1
    <2>3. CASE i <= k
        <3>1. i \in 1..k
            BY <1>1, <2>3
        <3> QED BY <1>4, <1>7, <2>1, <2>2, <2>3, <3>1
    <2>4. CASE ~(i <= k)
        <3>1. i - k \in 1..m /\ i - k < j + n
            BY <1>1, <2>4
        <3> QED BY <1>4, <1>5, <2>1, <2>2, <2>4, <3>1
    <2> QED BY <2>3, <2>4
<1>12. ToSet(b) \subseteq ToSet(s)
    <2> SUFFICES ASSUME NEW i \in 1..(m - n) PROVE b[i] \in ToSet(s)
        BY <1>8 DEF ToSet
    <2>1. i + n \in 1..m
        BY <1>1
    <2> QED BY <1>1, <1>3, <2>1 DEF ToSet
<1>13. ToSet(c) \subseteq ToSet(w) \cup ToSet(s)
    <2> SUFFICES ASSUME NEW i \in 1..(k + n) PROVE c[i] \in ToSet(w) \cup ToSet(s)
        BY <1>8 DEF ToSet
    <2>1. CASE i <= k
        <3>1. i \in 1..k /\ c[i] = w[i]
            BY <1>1, <1>4, <2>1
        <3> QED BY <1>1, <3>1 DEF ToSet
    <2>2. CASE ~(i <= k)
        <3>1. i - k \in 1..m /\ c[i] = s[i - k]
            BY <1>1, <1>4, <2>2
        <3> QED BY <1>1, <3>1 DEF ToSet
    <2> QED BY <2>1, <2>2
<1> QED BY <1>9, <1>10, <1>11, <1>12, <1>13 DEF b, c, f, m

Arrival == [r \in Requests |-> req[r].arrival]

\* Those that retry_prefill has still to try in this turn.
Untried == IF pc = "retry_prefill" THEN left ELSE 0

\* The three queues of who waits: as they came, and one after the other.
OrderOK(requested, waiting, deferred, l, a) ==
    /\ InOrder(requested, 0, a) /\ InOrder(waiting, 0, a) /\ InOrder(deferred, l, a)
    /\ \A r \in ToSet(deferred), s \in ToSet(waiting) \cup ToSet(requested) : a[r] < a[s]
    /\ \A r \in ToSet(waiting), s \in ToSet(requested) : a[r] < a[s]

OrderInv ==
    /\ Placed /\ \A r \in Requests : req[r].arrival <= Cardinality(Submitted)
    /\ OrderOK(queues["request"], queues["waiting_prefill"], queues["deferred_prefill"],
               Untried, Arrival)

LEMMA InitIsInOrder == Init => OrderInv
<1> SUFFICES ASSUME Init PROVE OrderInv
    OBVIOUS
<1>1. \A q \in QueueNames : queues[q] = <<>> /\ Len(queues[q]) = 0 /\ ToSet(queues[q]) = {}
    BY DEF Init, ToSet
<1>2. Placed
    BY DEF Init, Placed, InSomeQueue, ToSet
<1>3. IsFiniteSet(Submitted)
    <2>1. Submitted \subseteq Requests
        BY DEF Submitted
    <2> QED BY <2>1, ConstantTypes, FS_Subset
<1>4. Cardinality(Submitted) \in Nat
    BY <1>3, FS_CardinalityType
<1>5. \A r \in Requests : req[r].arrival <= Cardinality(Submitted)
    BY <1>4 DEF Init, NewRequest
<1>6. OrderOK(queues["request"], queues["waiting_prefill"], queues["deferred_prefill"],
              Untried, Arrival)
    <2>1. \A q \in QueueNames : \A l : InOrder(queues[q], l, Arrival)
        BY <1>1 DEF InOrder
    <2>2. /\ ToSet(queues["request"]) = {} /\ ToSet(queues["waiting_prefill"]) = {}
          /\ ToSet(queues["deferred_prefill"]) = {}
        BY <1>1, Names
    <2> QED BY <2>1, <2>2, Names DEF OrderOK
<1> QED BY <1>2, <1>5, <1>6 DEF OrderInv

\* The worker submits nothing and gives nobody another place.
LEMMA WorkerKeepsPlaces ==
    ASSUME IInv, IInv', OrderInv, Worker
    PROVE  /\ \A r \in Requests : req'[r].arrival = req[r].arrival
           /\ Arrival' = Arrival
           /\ Placed' /\ \A r \in Requests : req'[r].arrival <= Cardinality(Submitted')
<1>1. RequestInv /\ RequestInv' /\ Placed
    BY DEF IInv, OrderInv
<1>2. \A r \in Requests : req'[r].arrival = req[r].arrival
    <2>1. CASE ~DecodeOut /\ ~PrefillOut
        BY <2>1, WorkerSameCounters DEF SameCounters
    <2>2. CASE (DecodeOut \/ PrefillOut) /\ queues["batch"] = <<>>
        BY <2>2 DEF DecodeOut, PrefillOut
    <2>3. CASE (DecodeOut \/ PrefillOut) /\ queues["batch"] # <<>>
        <3>1. \E eos, cached, continue : Respond(Head(queues["batch"]), eos, cached, continue)
            BY <2>3 DEF DecodeOut, PrefillOut
        <3>2. Pushes(Head(queues["batch"]))
            BY <1>1, <2>3, <3>1, RespondPushes
        <3> QED BY <3>2 DEF Pushes
    <2> QED BY <2>1, <2>2, <2>3
<1>3. Submitted' = Submitted /\ Placed'
    BY <1>1, <1>2, WorkerNoneNew, SubmittedSame
<1> QED BY <1>2, <1>3 DEF OrderInv, Arrival

\* Steps that leave the three queues alone.
Elsewhere == \/ LoopHead \/ SwapInOne \/ SwapInDone \/ RetryDeferredDecode \/ AdmitDecode
             \/ RunDecode \/ DecodeOut \/ DecodeDone \/ RetryPrefillDone \/ AdmitDone
             \/ RunPrefill \/ PrefillOut \/ PrefillDone \/ SwapOutVictim \/ NoVictim \/ LoopEnd

LEMMA ElsewhereKeepsQueues ==
    ASSUME IInv, Elsewhere, NEW q \in {"request", "waiting_prefill", "deferred_prefill"}
    PROVE  queues'[q] = queues[q]
<1>1. RequestInv /\ q \in QueueNames
    BY Names DEF IInv
<1>2. CASE \/ LoopHead \/ SwapInDone \/ RunDecode \/ RetryPrefillDone \/ AdmitDone
           \/ PrefillDone \/ NoVictim \/ LoopEnd
    BY <1>2 DEF LoopHead, SwapInDone, RunDecode, RetryPrefillDone, AdmitDone, PrefillDone,
                NoVictim, LoopEnd
<1>3. CASE SwapInOne
    <2>1. \/ queues' = MoveAt(queues, 1, "swap_out", "decode")
          \/ queues' = MoveAt(queues, 1, "swap_out", "swap_out")
        BY <1>3 DEF SwapInOne, MoveFront
    <2> QED BY <1>1, <2>1, OtherMoves, Names
<1>4. CASE RetryDeferredDecode
    BY <1>1, <1>4, OtherMoves, Names DEF RetryDeferredDecode
<1>5. CASE AdmitDecode
    <2>1. \/ queues' = MoveAt(queues, 1, "decode", "batch")
          \/ queues' = MoveAt(queues, 1, "decode", "deferred_decode")
        BY <1>5 DEF AdmitDecode, MoveFront
    <2> QED BY <1>1, <2>1, OtherMoves, Names
<1>6. CASE DecodeOut \/ PrefillOut
    <2>1. queues' = queues \/ \E r, eos, cached : \E continue \in {"decode", "next_decode"} :
                                 Respond(r, eos, cached, continue)
        BY <1>6 DEF DecodeOut, PrefillOut
    <2>2. queues' = queues \/ \E to \in {"finish", "decode", "next_decode"} :
                                 queues' = MoveAt(queues, 1, "batch", to)
        BY <2>1 DEF Respond, MoveFront
    <2> QED BY <1>1, <2>2, OtherMoves, Names
<1>7. CASE DecodeDone
    BY <1>1, <1>7, OtherMoves, Names DEF DecodeDone
<1>8. CASE RunPrefill
    BY <1>1, <1>8, OtherMoves, Names DEF RunPrefill
<1>9. CASE SwapOutVictim
    <2>1. \E i : \E from \in {"deferred_decode", "decode"} : \E to \in {from, "swap_out"} :
              queues' = MoveAt(queues, i, from, to)
        <3> DEFINE f == VictimQueue[pc]
                   i == Min(Victims(f))
        <3>1. pc \in DOMAIN VictimQueue
              /\ (queues' = MoveAt(queues, i, f, "swap_out") \/ queues' = MoveAt(queues, i, f, f))
            BY <1>9, Zenon DEF SwapOutVictim
        <3>2. f \in {"deferred_decode", "decode"}
            BY <3>1 DEF VictimQueue
        <3> HIDE DEF f, i
        <3> QED BY <3>1, <3>2
    <2> QED BY <1>1, <2>1, OtherMoves, Names
<1> QED BY <1>2, <1>3, <1>4, <1>5, <1>6, <1>7, <1>8, <1>9 DEF Elsewhere

LEMMA ElsewhereKeepsOrder == ASSUME IInv, IInv', OrderInv, Elsewhere PROVE OrderInv'
<1>1. Worker
    BY DEF Elsewhere, Worker
<1>2. /\ queues'["request"] = queues["request"]
      /\ queues'["waiting_prefill"] = queues["waiting_prefill"]
      /\ queues'["deferred_prefill"] = queues["deferred_prefill"]
    BY ElsewhereKeepsQueues
<1> DEFINE d == queues["deferred_prefill"]
<1>3. InOrder(d, Untried', Arrival)
    <2>1. InOrder(d, Untried, Arrival) /\ Len(d) \in Nat
        BY Lengths, Names DEF OrderInv, OrderOK, IInv
    <2>2. \/ pc # "retry_prefill" /\ pc' # "retry_prefill"
          \/ pc # "retry_prefill" /\ pc' = "retry_prefill" /\ left' = Len(d)
          \/ pc = "retry_prefill" /\ left = 0 /\ pc' # "retry_prefill"
        <3>1. CASE \/ LoopHead \/ SwapInOne \/ RetryDeferredDecode \/ AdmitDecode
                   \/ RunDecode \/ DecodeOut \/ DecodeDone
            BY <3>1, AfterSwapInPlaces, Zenon DEF LoopHead, SwapInOne, RetryDeferredDecode, AdmitDecode,
                        RunDecode, DecodeOut, DecodeDone, GoTo, GoToLoop, Iterate
        <3>2. CASE SwapInDone
            BY <3>2, AfterSwapInPlaces DEF SwapInDone, GoTo, GoToLoop, AfterSwapIn
        <3>3. CASE \/ RetryPrefillDone \/ AdmitDone \/ RunPrefill \/ PrefillOut \/ PrefillDone
                   \/ LoopEnd
            BY <3>3 DEF RetryPrefillDone, AdmitDone, RunPrefill, PrefillOut, PrefillDone, LoopEnd,
                        GoTo, GoToLoop
        <3>4. CASE SwapOutVictim \/ NoVictim
            BY <3>4, Zenon DEF SwapOutVictim, NoVictim, VictimQueue, GoTo, OneVictimIsEnough
        <3> QED BY <3>1, <3>2, <3>3, <3>4 DEF Elsewhere
    <2> HIDE DEF d
    <2> QED BY <2>1, <2>2 DEF Untried, InOrder
<1> QED BY <1>1, <1>2, <1>3, WorkerKeepsPlaces DEF OrderInv, OrderOK

\* The first of one queue at the back of another.
LEMMA FrontMoves ==
    ASSUME RequestInv, NEW from \in QueueNames, NEW to \in QueueNames, from # to,
           queues[from] # <<>>, queues' = MoveFront(queues, from, to)
    PROVE  LET x == queues[from][1]
           IN  /\ x \in Requests /\ x \in ToSet(queues[from])
               /\ queues'[to] = Append(queues[to], x)
               /\ ToSet(queues'[to]) = ToSet(queues[to]) \cup {x}
               /\ Len(queues[from]) \in Nat \ {0} /\ Len(queues'[from]) = Len(queues[from]) - 1
               /\ \A i \in 1..(Len(queues[from]) - 1) : queues'[from][i] = queues[from][i + 1]
               /\ ToSet(queues'[from]) = ToSet(queues[from]) \ {x}
               /\ \A q \in QueueNames \ {from, to} : queues'[q] = queues[q]
<1> DEFINE x == queues[from][1]
           f == RemoveAt(queues[from], 1)
<1>1. QueuesOK(queues) /\ queues \in [QueueNames -> Seq(Requests)] /\ IsInjective(queues[from])
    BY DEF RequestInv, QueuesOK
<1>2. 1 \in 1..Len(queues[from]) /\ Len(queues[from]) \in Nat /\ queues[from] \in Seq(Requests)
    BY Lengths
<1>3. queues' = MoveAt(queues, 1, from, to)
    BY DEF MoveFront
<1>4. /\ Moved(queues, queues', {x}, from, to) /\ x \in Requests
      /\ Len(queues'[from]) = Len(queues[from]) - 1
    BY <1>1, <1>2, <1>3, MoveAtOK
<1>5. \A i \in 1..(Len(queues[from]) - 1) : f[i] = queues[from][i + 1]
    <2> DEFINE s == queues[from]
    <2>1. s \in Seq(Requests) /\ IsInjective(s) /\ 1 \in 1..Len(s)
        BY <1>1, <1>2
    <2> HIDE DEF s
    <2> QED BY <2>1, RemoveAtOK DEF f, s
<1>6. queues' = [[queues EXCEPT ![from] = f] EXCEPT ![to] = Append(@, x)]
    BY <1>3 DEF MoveAt
<1> HIDE DEF f, x
<1>7. queues'[from] = f /\ queues'[to] = Append(queues[to], x)
    BY <1>1, <1>6
<1> QED BY <1>2, <1>4, <1>5, <1>7 DEF Moved, x

LEMMA FirstIsFirst ==
    ASSUME NEW s \in Seq(Requests), NEW a, InOrder(s, 0, a), NEW y \in ToSet(s), y # s[1]
    PROVE  a[s[1]] < a[y]
<1>1. PICK i \in 1..Len(s) : y = s[i]
    BY DEF ToSet
<1>2. 1 \in 1..Len(s) /\ 1 < i
    BY <1>1
<1> QED BY <1>1, <1>2 DEF InOrder

LEMMA DrainKeepsOrder == ASSUME IInv, IInv', OrderInv, DrainNewRequests PROVE OrderInv'
<1> DEFINE n == IF admission_paused_ THEN 0 ELSE Lesser(MAX_BATCH_NUM, Len(queues["request"]))
           s == queues["request"]
           w == queues["waiting_prefill"]
           d == queues["deferred_prefill"]
<1>1. RequestInv /\ queues \in [QueueNames -> Seq(Requests)] /\ s \in Seq(Requests) /\ w \in Seq(Requests)
    BY Names DEF IInv, RequestInv, QueuesOK
<1>2. n \in 0..Len(s)
    BY <1>1, Lengths, Names, ConstantTypes DEF Lesser
<1>3. queues' = MoveFirst(queues, n, "request", "waiting_prefill") /\ Untried' = 0 /\ Untried = 0
    BY DEF DrainNewRequests, drain_new_requests, GoToLoop, Untried
<1> HIDE DEF n
<1>4. /\ queues'["request"] = SubSeq(s, n + 1, Len(s))
      /\ queues'["waiting_prefill"] = w \o SubSeq(s, 1, n)
      /\ queues'["deferred_prefill"] = d
    BY <1>1, <1>3, Names DEF MoveFirst
<1>5. /\ InOrder(s, 0, Arrival) /\ InOrder(w, 0, Arrival) /\ InOrder(d, 0, Arrival)
      /\ \A x \in ToSet(d), y \in ToSet(w) \cup ToSet(s) : Arrival[x] < Arrival[y]
      /\ \A x \in ToSet(w), y \in ToSet(s) : Arrival[x] < Arrival[y]
    BY <1>3 DEF OrderInv, OrderOK
<1> DEFINE b == SubSeq(s, n + 1, Len(s))
           c == w \o SubSeq(s, 1, n)
           a == Arrival
<1> HIDE DEF s, w, d, a
<1>6. /\ InOrder(b, 0, a) /\ InOrder(c, 0, a)
      /\ \A x \in ToSet(c), y \in ToSet(b) : a[x] < a[y]
      /\ ToSet(b) \subseteq ToSet(s) /\ ToSet(c) \subseteq ToSet(w) \cup ToSet(s)
    BY <1>1, <1>2, <1>5, SplitInOrder DEF a
<1>7. OrderOK(b, c, d, 0, a)
    BY <1>5, <1>6 DEF OrderOK, a
<1> QED BY <1>3, <1>4, <1>7, WorkerKeepsPlaces DEF OrderInv, Worker, a

LEMMA WaitKeepsOrder == ASSUME IInv, IInv', OrderInv, WaitAndEnqueueOneRequest PROVE OrderInv'
<1> DEFINE s == queues["request"]
           w == queues["waiting_prefill"]
           d == queues["deferred_prefill"]
           x == s[1]
           a == Arrival
<1>1. RequestInv /\ Untried' = 0 /\ Untried = 0 /\ Worker /\ w \in Seq(Requests)
    BY Lengths, Names DEF IInv, WaitAndEnqueueOneRequest, GoTo, Untried, Worker
<1>2. CASE queues' = queues
    BY <1>1, <1>2, WorkerKeepsPlaces DEF OrderInv
<1>3. CASE s # <<>> /\ queues' = MoveFront(queues, "request", "waiting_prefill")
    <2>1. /\ x \in ToSet(s)
          /\ queues'["waiting_prefill"] = Append(w, x)
          /\ ToSet(queues'["waiting_prefill"]) = ToSet(w) \cup {x}
          /\ Len(s) \in Nat \ {0} /\ Len(queues'["request"]) = Len(s) - 1
          /\ \A i \in 1..(Len(s) - 1) : queues'["request"][i] = s[i + 1]
          /\ ToSet(queues'["request"]) = ToSet(s) \ {x}
          /\ queues'["deferred_prefill"] = d
        <3>1. /\ "request" \in QueueNames /\ "waiting_prefill" \in QueueNames
              /\ "deferred_prefill" \in QueueNames \ {"request", "waiting_prefill"}
            BY Names
        <3>2. queues["request"] # <<>>
            BY <1>3
        <3> QED BY <1>1, <1>3, <3>1, <3>2, FrontMoves, Zenon
    <2>2. OrderOK(s, w, d, 0, a)
        BY <1>1 DEF OrderInv
    <2> DEFINE s2 == queues'["request"]
               w2 == queues'["waiting_prefill"]
    <2>3. s \in Seq(Requests)
        BY <1>1, Lengths, Names
    <2> HIDE DEF s, w, d, s2, w2, a
    <2>4. InOrder(s2, 0, a)
        BY <2>1, <2>2, TailInOrder DEF OrderOK, s2
    <2>5. InOrder(w2, 0, a)
        BY <1>1, <2>1, <2>2, AppendInOrder DEF OrderOK, w2
    <2>6. \A y \in ToSet(s2) : a[x] < a[y]
        BY <2>1, <2>2, <2>3, FirstIsFirst DEF OrderOK, s2
    <2>7. OrderOK(s2, w2, d, 0, a)
        BY <2>1, <2>2, <2>4, <2>5, <2>6 DEF OrderOK, s2, w2
    <2> QED BY <1>1, <2>1, <2>7, WorkerKeepsPlaces DEF OrderInv, s2, w2, a
<1> QED BY <1>2, <1>3 DEF WaitAndEnqueueOneRequest

\* retry_deferred_prefill looks at the first: it leaves, or goes to the back.
LEMMA RetryTakesFirst ==
    ASSUME IInv, RetryDeferredPrefill
    PROVE  LET d == queues["deferred_prefill"]
               d2 == queues'["deferred_prefill"]
           IN  /\ pc = "retry_prefill" /\ pc' = "retry_prefill"
               /\ left \in Nat \ {0} /\ left <= Len(d) /\ left' = left - 1
               /\ d \in Seq(Requests) /\ Len(d) \in Nat \ {0}
               /\ \A i \in 1..(Len(d) - 1) : d2[i] = d[i + 1]
               /\ queues'["request"] = queues["request"]
               /\ queues'["waiting_prefill"] = queues["waiting_prefill"]
               /\ \/ /\ PrefillAdmitted(d[1])
                     /\ Len(d2) = Len(d) - 1 /\ ToSet(d2) = ToSet(d) \ {d[1]}
                  \/ /\ gpu_free < PrefillTotal(d[1]) /\ UNCHANGED <<gpu_free, req>>
                     /\ Len(d2) = Len(d) /\ d2[Len(d)] = d[1] /\ ToSet(d2) = ToSet(d)
<1> DEFINE d == queues["deferred_prefill"]
           d2 == queues'["deferred_prefill"]
<1>1. QueuesOK(queues) /\ "deferred_prefill" \in QueueNames /\ "prefill" \in QueueNames
    BY Names DEF IInv, RequestInv
<1>2. /\ pc = "retry_prefill" /\ pc' = "retry_prefill"
      /\ left \in Nat \ {0} /\ left <= Len(d) /\ left' = left - 1
    BY DEF RetryDeferredPrefill, Iterate, IInv, ControlInv
<1>3. d \in Seq(Requests) /\ Len(d) \in Nat \ {0} /\ Head(d) = d[1] /\ 1 \in 1..Len(d) /\ d # <<>>
    BY <1>2, Lengths, Names DEF IInv
<1>4. /\ "request" \in QueueNames \ {"deferred_prefill", "prefill"}
      /\ "waiting_prefill" \in QueueNames \ {"deferred_prefill", "prefill"}
    BY Names
<1>5. CASE PrefillAdmitted(d[1]) /\ queues' = MoveToFront(queues, "deferred_prefill", "prefill")
    <2>1. /\ Moved(queues, queues', {d[1]}, "deferred_prefill", "prefill")
          /\ Len(d2) = Len(d) - 1 /\ \A j \in 1..(Len(d) - 1) : d2[j] = d[j + 1]
        <3>1. Moved(queues, queues', {Head(d)}, "deferred_prefill", "prefill")
            BY <1>1, <1>3, <1>5, MoveToFrontOK
        <3>2. d2 = Tail(d)
            BY <1>1, <1>5 DEF MoveToFront, QueuesOK
        <3>3. Len(Tail(d)) = Len(d) - 1 /\ \A j \in 1..(Len(d) - 1) : Tail(d)[j] = d[j + 1]
            <4> HIDE DEF d
            <4> QED BY <1>3
        <3> QED BY <1>3, <3>1, <3>2, <3>3
    <2> QED BY <1>2, <1>3, <1>4, <1>5, <2>1 DEF Moved
<1>6. CASE /\ gpu_free < PrefillTotal(d[1]) /\ UNCHANGED <<gpu_free, req>>
           /\ queues' = MoveAt(queues, 1, "deferred_prefill", "deferred_prefill")
    <2>1. /\ ToSet(d2) = ToSet(d) /\ Len(d2) = Len(d) /\ d2[Len(d)] = d[1]
          /\ \A j \in 1..(Len(d) - 1) : d2[j] = IF j < 1 THEN d[j] ELSE d[j + 1]
          /\ \A q \in QueueNames \ {"deferred_prefill"} : queues'[q] = queues[q]
        BY <1>1, <1>3, <1>6, RotateOK
    <2> DEFINE n == Len(d)
    <2>2. n \in Nat \ {0} /\ \A j \in 1..(n - 1) : d2[j] = IF j < 1 THEN d[j] ELSE d[j + 1]
        BY <1>3, <2>1
    <2> HIDE DEF d, d2, n
    <2>3. \A j \in 1..(n - 1) : d2[j] = d[j + 1]
        BY <2>2
    <2> USE DEF d, d2, n
    <2> QED BY <1>2, <1>3, <1>4, <1>6, <2>1, <2>3
<1> QED BY <1>3, <1>5, <1>6 DEF RetryDeferredPrefill, MoveFront, MoveToFront

\* admit_waiting_prefill looks at the first: it leaves, or is deferred.
LEMMA AdmitTakesFirst ==
    ASSUME IInv, AdmitWaitingPrefill
    PROVE  LET w == queues["waiting_prefill"]
               d == queues["deferred_prefill"]
               w2 == queues'["waiting_prefill"]
               d2 == queues'["deferred_prefill"]
           IN  /\ pc = "admit" /\ w \in Seq(Requests) /\ d \in Seq(Requests)
               /\ Len(w) \in Nat \ {0} /\ Len(w2) = Len(w) - 1
               /\ \A i \in 1..(Len(w) - 1) : w2[i] = w[i + 1]
               /\ w[1] \in ToSet(w) /\ ToSet(w2) = ToSet(w) \ {w[1]}
               /\ queues'["request"] = queues["request"]
               /\ \/ PrefillAdmitted(w[1]) /\ d2 = d /\ pc' = "admit"
                  \/ /\ gpu_free < PrefillTotal(w[1]) /\ gpu_free' = gpu_free /\ pc' = "prefill"
                     /\ req' = [req EXCEPT ![w[1]].state = "DeferredPrefillKV"]
                     /\ d2 = Append(d, w[1]) /\ ToSet(d2) = ToSet(d) \cup {w[1]}
<1> DEFINE w == queues["waiting_prefill"]
           d == queues["deferred_prefill"]
           w2 == queues'["waiting_prefill"]
           d2 == queues'["deferred_prefill"]
<1>1. /\ RequestInv /\ "waiting_prefill" \in QueueNames /\ "deferred_prefill" \in QueueNames
      /\ "prefill" \in QueueNames
    BY Names DEF IInv
<1>2. pc = "admit" /\ left \in Nat \ {0} /\ left <= Len(w)
    BY DEF AdmitWaitingPrefill, IInv, ControlInv
<1>3. /\ w \in Seq(Requests) /\ d \in Seq(Requests)
      /\ Len(w) \in Nat \ {0} /\ Head(w) = w[1] /\ 1 \in 1..Len(w) /\ w # <<>>
    BY <1>1, <1>2, Lengths, Names
<1>4. /\ "request" \in QueueNames \ {"waiting_prefill", "prefill"}
      /\ "request" \in QueueNames \ {"waiting_prefill", "deferred_prefill"}
      /\ "deferred_prefill" \in QueueNames \ {"waiting_prefill", "prefill"}
    BY Names
<1>5. CASE /\ PrefillAdmitted(w[1]) /\ pc' = "admit"
           /\ queues' = MoveFront(queues, "waiting_prefill", "prefill")
    <2>1. /\ Len(w2) = Len(w) - 1 /\ \A i \in 1..(Len(w) - 1) : w2[i] = w[i + 1]
          /\ w[1] \in ToSet(w) /\ ToSet(w2) = ToSet(w) \ {w[1]}
          /\ \A q \in QueueNames \ {"waiting_prefill", "prefill"} : queues'[q] = queues[q]
        BY <1>1, <1>3, <1>5, FrontMoves
    <2> QED BY <1>2, <1>3, <1>4, <1>5, <2>1
<1>6. CASE /\ gpu_free < PrefillTotal(w[1]) /\ gpu_free' = gpu_free /\ pc' = "prefill"
           /\ req' = [req EXCEPT ![w[1]].state = "DeferredPrefillKV"]
           /\ queues' = MoveFront(queues, "waiting_prefill", "deferred_prefill")
    <2>1. /\ d2 = Append(d, w[1])
          /\ ToSet(d2) = ToSet(d) \cup {w[1]}
          /\ Len(w2) = Len(w) - 1 /\ \A i \in 1..(Len(w) - 1) : w2[i] = w[i + 1]
          /\ w[1] \in ToSet(w) /\ ToSet(w2) = ToSet(w) \ {w[1]}
          /\ \A q \in QueueNames \ {"waiting_prefill", "deferred_prefill"} :
                 queues'[q] = queues[q]
        BY <1>1, <1>3, <1>6, FrontMoves
    <2> QED BY <1>2, <1>3, <1>4, <1>6, <2>1
<1> QED BY <1>2, <1>3, <1>5, <1>6 DEF AdmitWaitingPrefill, Iterate, GoTo

LEMMA RetryKeepsOrder == ASSUME IInv, IInv', OrderInv, RetryDeferredPrefill PROVE OrderInv'
<1> DEFINE s == queues["request"]
           w == queues["waiting_prefill"]
           d == queues["deferred_prefill"]
           d2 == queues'["deferred_prefill"]
           a == Arrival
<1>1. /\ left \in Nat \ {0} /\ left <= Len(d) /\ Untried = left /\ Untried' = left - 1
      /\ Len(d) \in Nat \ {0}
      /\ \A i \in 1..(Len(d) - 1) : d2[i] = d[i + 1]
      /\ queues'["request"] = s /\ queues'["waiting_prefill"] = w
      /\ \/ Len(d2) = Len(d) - 1 /\ ToSet(d2) = ToSet(d) \ {d[1]}
         \/ Len(d2) = Len(d) /\ d2[Len(d)] = d[1] /\ ToSet(d2) = ToSet(d)
    BY RetryTakesFirst DEF Untried
<1>2. OrderOK(s, w, d, left, a)
    BY <1>1 DEF OrderInv
<1> HIDE DEF s, w, d, d2, a
<1>3. InOrder(d2, left - 1, a)
    <2>1. CASE Len(d2) = Len(d) - 1
        <3>1. InOrder(d2, IF left = 0 THEN 0 ELSE left - 1, a)
            BY <1>1, <1>2, <2>1, TailInOrder DEF OrderOK
        <3> QED BY <1>1, <3>1
    <2>2. CASE Len(d2) = Len(d) /\ d2[Len(d)] = d[1]
        BY <1>1, <1>2, <2>2, TurnInOrder DEF OrderOK
    <2> QED BY <1>1, <2>1, <2>2
<1>4. OrderOK(s, w, d2, left - 1, a)
    BY <1>1, <1>2, <1>3 DEF OrderOK
<1> QED BY <1>1, <1>4, WorkerKeepsPlaces DEF OrderInv, Worker, s, w, d2, a

LEMMA AdmitKeepsOrder == ASSUME IInv, IInv', OrderInv, AdmitWaitingPrefill PROVE OrderInv'
<1> DEFINE s == queues["request"]
           w == queues["waiting_prefill"]
           d == queues["deferred_prefill"]
           w2 == queues'["waiting_prefill"]
           d2 == queues'["deferred_prefill"]
           x == w[1]
           a == Arrival
<1>1. /\ Untried = 0 /\ Untried' = 0
      /\ w \in Seq(Requests) /\ d \in Seq(Requests)
      /\ Len(w) \in Nat \ {0} /\ Len(w2) = Len(w) - 1
      /\ \A i \in 1..(Len(w) - 1) : w2[i] = w[i + 1]
      /\ x \in ToSet(w) /\ ToSet(w2) = ToSet(w) \ {x}
      /\ queues'["request"] = s
      /\ \/ d2 = d
         \/ d2 = Append(d, x) /\ ToSet(d2) = ToSet(d) \cup {x}
    BY AdmitTakesFirst DEF Untried
<1>2. OrderOK(s, w, d, 0, a)
    BY <1>1 DEF OrderInv
<1> HIDE DEF s, w, d, w2, d2, x, a
<1>3. InOrder(w2, 0, a)
    <2>1. InOrder(w2, IF 0 = 0 THEN 0 ELSE 0 - 1, a)
        BY <1>1, <1>2, TailInOrder DEF OrderOK
    <2> QED BY <2>1
<1>4. \A y \in ToSet(w2) : a[x] < a[y]
    <2>1. \A y \in ToSet(w) : y # w[1] => a[w[1]] < a[y]
        BY <1>1, <1>2, FirstIsFirst DEF OrderOK
    <2> QED BY <1>1, <2>1 DEF x
<1>5. CASE d2 = d
    <2>1. OrderOK(s, w2, d2, 0, a)
        BY <1>1, <1>2, <1>3, <1>5 DEF OrderOK
    <2> QED BY <1>1, <2>1, WorkerKeepsPlaces DEF OrderInv, Worker, s, w2, d2, a
<1>6. CASE d2 = Append(d, x) /\ ToSet(d2) = ToSet(d) \cup {x}
    <2>1. InOrder(d2, 0, a)
        BY <1>1, <1>2, <1>6, AppendInOrder DEF OrderOK
    <2>2. OrderOK(s, w2, d2, 0, a)
        BY <1>1, <1>2, <1>3, <1>4, <1>6, <2>1 DEF OrderOK
    <2> QED BY <1>1, <2>2, WorkerKeepsPlaces DEF OrderInv, Worker, s, w2, d2, a
<1> QED BY <1>1, <1>5, <1>6

\* A new request has the last place.
LEMMA SubmitMoves ==
    ASSUME IInv, IInv', OrderInv, NEW r \in Requests, Submit(r)
    PROVE  /\ ~InSomeQueue(r)
           /\ \A y \in Requests \ {r} : req'[y] = req[y] /\ req[y].arrival < req'[r].arrival
           /\ \A y \in Requests : req'[y].state = req[y].state
           /\ queues'["request"] = Append(queues["request"], r)
           /\ ToSet(queues'["request"]) = ToSet(queues["request"]) \cup {r}
           /\ \A q \in QueueNames \ {"request"} : queues'[q] = queues[q]
           /\ Placed' /\ \A y \in Requests : req'[y].arrival <= Cardinality(Submitted')
<1> DEFINE n == Cardinality(Submitted)
           old == queues["request"]
<1>1. RequestInv /\ RequestInv' /\ Placed /\ \A y \in Requests : req[y].arrival <= n
    BY DEF IInv, OrderInv
<1>2. IsFiniteSet(Submitted) /\ n \in Nat
    <2>1. Submitted \subseteq Requests
        BY DEF Submitted
    <2> QED BY <2>1, ConstantTypes, FS_Subset, FS_CardinalityType
<1>3. /\ r \notin Submitted /\ req' = [req EXCEPT ![r].arrival = n + 1]
      /\ queues' = [queues EXCEPT !["request"] = Append(@, r)]
    BY DEF Submit
<1>4. ~InSomeQueue(r)
    BY <1>1, <1>3, SubmittedIs
<1>5. req \in [Requests -> ReqType] /\ queues \in [QueueNames -> Seq(Requests)]
    BY <1>1 DEF RequestInv, QueuesOK
<1> HIDE DEF n
<1>6. /\ \A y \in Requests \ {r} : req'[y] = req[y]
      /\ req'[r].arrival = n + 1 /\ req'[r].state = req[r].state
    BY <1>3, <1>5 DEF ReqType
<1>7. /\ old \in Seq(Requests) /\ queues'["request"] = Append(old, r)
      /\ \A q \in QueueNames \ {"request"} : queues'[q] = queues[q]
    BY <1>3, <1>5, Names
<1>8. ToSet(queues'["request"]) = ToSet(old) \cup {r}
    <2>1. IsInjective(old) /\ r \notin ToSet(old)
        BY <1>1, <1>4, Names DEF RequestInv, QueuesOK, InSomeQueue
    <2> HIDE DEF old
    <2> QED BY <1>7, <2>1, AppendOK
<1>9. Submitted' = Submitted \cup {r} /\ Placed'
    <2>1. \A y \in Requests : InSomeQueue(y)' <=> InSomeQueue(y) \/ y = r
        BY <1>7, <1>8, Names DEF InSomeQueue
    <2>2. Submitted \subseteq Requests /\ Submitted' \subseteq Requests
        BY DEF Submitted
    <2> QED BY <1>1, <1>2, <1>6, <2>1, <2>2, SubmittedIs, SubmittedIsNext DEF Placed
<1>10. Cardinality(Submitted') = n + 1
    BY <1>2, <1>3, <1>9, FS_AddElement DEF n
<1>11. \A y \in Requests : req[y].arrival \in Nat
    BY <1>5 DEF ReqType
<1> QED BY <1>1, <1>2, <1>4, <1>6, <1>7, <1>8, <1>9, <1>10, <1>11

LEMMA SubmitKeepsOrder ==
    ASSUME IInv, IInv', OrderInv, NEW r \in Requests, Submit(r) PROVE OrderInv'
<1> DEFINE s == queues["request"]
           w == queues["waiting_prefill"]
           d == queues["deferred_prefill"]
           s2 == queues'["request"]
           l == Untried
           a == Arrival
           b == Arrival'
<1>1. /\ s2 = Append(s, r) /\ ToSet(s2) = ToSet(s) \cup {r}
      /\ queues'["waiting_prefill"] = w /\ queues'["deferred_prefill"] = d
      /\ Placed' /\ \A y \in Requests : req'[y].arrival <= Cardinality(Submitted')
    BY SubmitMoves, Names
<1>2. \A y \in Requests \ {r} : b[y] = a[y] /\ a[y] < b[r]
    BY SubmitMoves DEF Arrival
<1>3. OrderOK(s, w, d, l, a) /\ Untried' = l
    BY DEF OrderInv, Submit, Untried
<1>4. /\ \A q \in {s, w, d} : q \in Seq(Requests) /\ ToSet(q) \subseteq Requests \ {r}
    <2>1. ASSUME NEW q \in QueueNames
          PROVE  queues[q] \in Seq(Requests) /\ ToSet(queues[q]) \subseteq Requests \ {r}
        BY <2>1, Lengths, SubmitMoves DEF IInv, InSomeQueue
    <2> QED BY <2>1, Names
<1> HIDE DEF s, w, d, s2, l, a, b
<1>5. ASSUME NEW q \in {s, w, d}, NEW k, InOrder(q, k, a) PROVE InOrder(q, k, b)
    <2>1. \A i \in 1..Len(q) : q[i] \in ToSet(q)
        BY <1>4 DEF ToSet
    <2>2. \A i \in 1..Len(q) : b[q[i]] = a[q[i]]
        BY <1>2, <1>4, <2>1
    <2> QED BY <1>5, <2>2 DEF InOrder
<1>6. InOrder(s, 0, b) /\ InOrder(w, 0, b) /\ InOrder(d, l, b)
    BY <1>3, <1>5 DEF OrderOK
<1>7. \A y \in ToSet(s) \cup ToSet(w) \cup ToSet(d) : b[y] = a[y] /\ b[y] < b[r]
    BY <1>2, <1>4
<1>8. InOrder(s2, 0, b)
    BY <1>1, <1>4, <1>6, <1>7, AppendInOrder
<1>9. OrderOK(s2, w, d, l, b)
    BY <1>1, <1>3, <1>6, <1>7, <1>8 DEF OrderOK
<1> QED BY <1>1, <1>3, <1>9 DEF OrderInv, s2, w, d, b

LEMMA NextKeepsOrder == ASSUME IInv, IInv', OrderInv, [Next]_vars PROVE OrderInv'
<1>1. CASE OtherThreads \/ UNCHANGED vars
    <2>1. UNCHANGED <<queues, req, pc, left>>
        BY <1>1 DEF OtherThreads, ServeAsync, ReadResponses, LeaveCallback,
                    ServerClose, StopRunning, CloseQueue, Join, vars, internal
    <2>2. Untried' = Untried /\ Arrival' = Arrival /\ Submitted' = Submitted
        BY <2>1 DEF Untried, Arrival, Submitted
    <2>3. \A r \in Requests : InSomeQueue(r)' <=> InSomeQueue(r)
        BY <2>1 DEF InSomeQueue
    <2> QED BY <2>1, <2>2, <2>3 DEF OrderInv, Placed
<1>2. CASE Worker
    BY <1>2, ElsewhereKeepsOrder, DrainKeepsOrder, WaitKeepsOrder, RetryKeepsOrder, AdmitKeepsOrder
       DEF Worker, Elsewhere
<1>3. CASE \E r \in Requests : Submit(r)
    BY <1>3, SubmitKeepsOrder
<1> QED BY <1>1, <1>2, <1>3 DEF Next, OtherThreads
-----------------------------------------------------------------------------
(* Who has been refused in this turn still does not fit: nothing is freed *)
(* between the retries of the prompts and the end of the admissions.      *)

RefusedInv ==
    /\ pc = "retry_prefill" => PrefillRefusedFrom(left)
    /\ pc = "admit" => PrefillRefusedFrom(0)

LEMMA TotalIsNat == ASSUME IInv, NEW x \in Requests
                    PROVE  PrefillTotal(x) \in Nat
<1>1. prompts_len[x] \in Nat \ {0} /\ B \in Nat \ {0} /\ GPT2_N_LAYERS \in Nat \ {0}
    BY ConstantTypes DEF IInv, RequestInv
<1> DEFINE k == CeilDiv(prompts_len[x], B)
<1>2. k \in Nat
    BY <1>1, FitsCeil
<1>3. PrefillTotal(x) = k * GPT2_N_LAYERS
    BY DEF PrefillTotal, B
<1> HIDE DEF k
<1> QED BY <1>1, <1>2, <1>3

\* A request is admitted only if it fits, and its blocks are taken.
LEMMA AdmittedTakes ==
    ASSUME IInv, NEW x \in Requests, PrefillAdmitted(x)
    PROVE  PrefillTotal(x) <= gpu_free /\ gpu_free' = gpu_free - PrefillTotal(x)
BY DEF PrefillAdmitted

LEMMA WorkerSamePrompts == Worker => prompts_len' = prompts_len
BY Zenon DEF Worker, LoopHead, DrainNewRequests, SwapInOne, SwapInDone, RetryDeferredDecode,
       AdmitDecode, RunDecode, DecodeOut, DecodeDone, RetryDeferredPrefill, RetryPrefillDone,
       AdmitWaitingPrefill, AdmitDone, RunPrefill, PrefillOut, PrefillDone, SwapOutVictim,
       NoVictim, LoopEnd, WaitAndEnqueueOneRequest

LEMMA WorkerKeepsRefused ==
    ASSUME IInv, IInv', PoolInv, RefusedInv, Worker PROVE RefusedInv'
<1> DEFINE d == queues["deferred_prefill"]
           d2 == queues'["deferred_prefill"]
<1>1. /\ gpu_free \in Int /\ prompts_len' = prompts_len
      /\ \A r \in Requests : PrefillTotal(r) \in Nat
      /\ d \in Seq(Requests) /\ Len(d) \in Nat
    BY WorkerSamePrompts, TotalIsNat, Lengths, Names DEF PoolInv, IInv
<1>2. \A r : PrefillTotal(r)' = PrefillTotal(r)
    BY <1>1 DEF PrefillTotal
<1>3. CASE ~(pc' \in {"retry_prefill", "admit"})
    BY <1>3 DEF RefusedInv
<1>4. CASE SwapInDone /\ pc' \in {"retry_prefill", "admit"}
    <2>1. pc' = "retry_prefill" /\ left' = Len(d) /\ d2 = d
        BY <1>4, AfterSwapInPlaces DEF SwapInDone, GoTo, GoToLoop, AfterSwapIn
    <2> HIDE DEF d, d2
    <2> QED BY <1>1, <2>1 DEF RefusedInv, PrefillRefusedFrom, d, d2
<1>5. CASE RetryPrefillDone
    <2>1. /\ pc = "retry_prefill" /\ left = 0 /\ pc' = "admit" /\ d2 = d /\ gpu_free' = gpu_free
        BY <1>5 DEF RetryPrefillDone, GoToLoop, kv
    <2> QED BY <1>2, <2>1 DEF RefusedInv, PrefillRefusedFrom
<1>6. CASE RetryDeferredPrefill
    <2>1. /\ pc = "retry_prefill" /\ pc' = "retry_prefill"
          /\ left \in Nat \ {0} /\ left <= Len(d) /\ left' = left - 1
          /\ Len(d) \in Nat \ {0} /\ d[1] \in Requests
          /\ \A i \in 1..(Len(d) - 1) : d2[i] = d[i + 1]
          /\ \/ /\ PrefillAdmitted(d[1]) /\ Len(d2) = Len(d) - 1
             \/ /\ gpu_free < PrefillTotal(d[1]) /\ gpu_free' = gpu_free
                /\ Len(d2) = Len(d) /\ d2[Len(d)] = d[1]
        BY <1>1, <1>6, RetryTakesFirst
    <2>2. \A i \in 1..Len(d) : d[i] \in Requests /\ (i > left => gpu_free < PrefillTotal(d[i]))
        BY <1>1, <2>1 DEF RefusedInv, PrefillRefusedFrom
    <2>3. /\ gpu_free' \in Int /\ gpu_free' <= gpu_free
          /\ \A r \in Requests : PrefillTotal(r) \in Nat
        <3>1. PrefillAdmitted(d[1]) => gpu_free' \in Int /\ gpu_free' <= gpu_free
            BY <1>1, <2>1, AdmittedTakes
        <3> QED BY <1>1, <2>1, <3>1
    <2> HIDE DEF d, d2
    <2>4. ASSUME NEW j \in 1..Len(d2), j > left' PROVE gpu_free' < PrefillTotal(d2[j])
        <3>1. CASE j \in 1..(Len(d) - 1)
            <4>1. j + 1 \in 1..Len(d) /\ j + 1 > left /\ d2[j] = d[j + 1]
                BY <2>1, <2>4, <3>1
            <4> QED BY <1>1, <2>2, <2>3, <4>1
        <3>2. CASE j \notin 1..(Len(d) - 1)
            <4>1. j = Len(d) /\ Len(d2) = Len(d)
                BY <2>1, <3>2
            <4> QED BY <2>1, <4>1
        <3> QED BY <3>1, <3>2
    <2> QED BY <1>2, <2>1, <2>4 DEF RefusedInv, PrefillRefusedFrom, d2
<1>7. CASE AdmitWaitingPrefill /\ pc' \in {"retry_prefill", "admit"}
    <2> DEFINE x == queues["waiting_prefill"][1]
    <2>1. pc = "admit" /\ PrefillAdmitted(x) /\ d2 = d /\ pc' = "admit" /\ x \in Requests
        BY <1>7, AdmitTakesFirst, Lengths, Names DEF IInv
    <2>2. gpu_free' \in Int /\ gpu_free' <= gpu_free
        BY <1>1, <2>1, AdmittedTakes
    <2>3. \A i \in 1..Len(d) : PrefillTotal(d[i]) \in Nat /\ gpu_free < PrefillTotal(d[i])
        BY <1>1, <2>1 DEF RefusedInv, PrefillRefusedFrom
    <2> HIDE DEF d, d2
    <2>4. \A i \in 1..Len(d) : gpu_free' < PrefillTotal(d[i])
        BY <1>1, <2>2, <2>3
    <2> QED BY <1>2, <2>1, <2>4 DEF RefusedInv, PrefillRefusedFrom, d, d2
<1>8. CASE \/ LoopHead \/ DrainNewRequests \/ SwapInOne \/ RetryDeferredDecode \/ AdmitDecode
           \/ RunDecode \/ DecodeOut \/ DecodeDone
    BY <1>3, <1>8, AfterSwapInPlaces, Zenon
      DEF LoopHead, DrainNewRequests, SwapInOne, RetryDeferredDecode, AdmitDecode, RunDecode,
           DecodeOut, DecodeDone, GoTo, GoToLoop, Iterate
<1>9. CASE \/ AdmitDone \/ RunPrefill \/ PrefillOut \/ PrefillDone \/ LoopEnd
           \/ WaitAndEnqueueOneRequest
    BY <1>3, <1>9 DEF AdmitDone, RunPrefill, PrefillOut, PrefillDone, LoopEnd,
                      WaitAndEnqueueOneRequest, GoTo, GoToLoop
<1>10. CASE SwapOutVictim \/ NoVictim
    BY <1>3, <1>10, Zenon DEF SwapOutVictim, NoVictim, VictimQueue, GoTo, OneVictimIsEnough
<1> QED BY <1>3, <1>4, <1>5, <1>6, <1>7, <1>8, <1>9, <1>10 DEF Worker

LEMMA NextKeepsRefused ==
    ASSUME IInv, IInv', PoolInv, OrderInv, RefusedInv, [Next]_vars PROVE RefusedInv'
<1>1. CASE Worker
    BY <1>1, WorkerKeepsRefused
<1>2. CASE OtherThreads \/ UNCHANGED vars \/ \E r \in Requests : Submit(r)
    <2>1. UNCHANGED <<prompts_len, gpu_free, pc, left>>
        BY <1>2 DEF OtherThreads, ServeAsync, ReadResponses, LeaveCallback, ServerClose,
                    StopRunning, CloseQueue, Join, Submit, vars, internal, kv
    <2>2. queues'["deferred_prefill"] = queues["deferred_prefill"]
        <3>1. CASE \E r \in Requests : Submit(r)
            BY <3>1, SubmitMoves, Names
        <3>2. CASE OtherThreads \/ UNCHANGED vars
            BY <3>2 DEF OtherThreads, ServeAsync, ReadResponses, LeaveCallback, ServerClose,
                        StopRunning, CloseQueue, Join, vars
        <3> QED BY <1>2, <3>1, <3>2
    <2> QED BY <2>1, <2>2 DEF RefusedInv, PrefillRefusedFrom, PrefillTotal
<1> QED BY <1>1, <1>2 DEF Next, OtherThreads

-----------------------------------------------------------------------------
(* Who waits, and who has been admitted *)

Waits(r) == \E q \in {"request", "waiting_prefill", "deferred_prefill"} : r \in ToSet(queues[q])

OvertakeInv ==
    \A r, s \in Requests :
        Waits(r) /\ InSomeQueue(s) /\ ~Waits(s) /\ req[r].arrival < req[s].arrival
        => PrefillTotal(s) < PrefillTotal(r)

LEMMA WaitsIsWaiting == ASSUME IInv, NEW r \in Requests, InSomeQueue(r)
                        PROVE  Waits(r) <=> Waiting(r)
<1>1. PICK q \in QueueNames : r \in ToSet(queues[q])
    BY DEF InSomeQueue
<1>2. req[r].state \in Expected[q].state
    BY <1>1 DEF IInv, RequestInv
<1>3. Waits(r) <=> q \in {"request", "waiting_prefill", "deferred_prefill"}
    <2>1. \A p \in QueueNames : r \in ToSet(queues[p]) => p = q
        BY <1>1 DEF IInv, RequestInv, QueuesOK
    <2> QED BY <1>1, <2>1, Names DEF Waits
<1>4. /\ q \in {"request", "waiting_prefill"} => req[r].state = "WaitingPrefill"
      /\ q = "deferred_prefill" => req[r].state = "DeferredPrefillKV"
      /\ q \notin {"request", "waiting_prefill", "deferred_prefill"}
             => req[r].state \notin {"WaitingPrefill", "DeferredPrefillKV"}
    BY <1>2, ExpectedStates DEF QueueNames, InternalQueues
<1> QED BY <1>3, <1>4 DEF Waiting

\* Nobody is admitted: the condition speaks of the same requests.
LEMMA OvertakeSame ==
    ASSUME IInv, OvertakeInv, \A r \in Requests : req'[r].arrival = req[r].arrival,
           prompts_len' = prompts_len, \A r \in Requests : InSomeQueue(r)' => InSomeQueue(r),
           \A r \in Requests : Waits(r)' <=> Waits(r)
    PROVE  OvertakeInv'
BY DEF OvertakeInv, PrefillTotal

\* x is admitted, and what came before x and still waits needs more than was free.
LEMMA OvertakeAdmitted ==
    ASSUME IInv, OvertakeInv, \A r \in Requests : req'[r].arrival = req[r].arrival,
           prompts_len' = prompts_len, \A r \in Requests : InSomeQueue(r)' => InSomeQueue(r),
           gpu_free \in Int,
           NEW x \in Requests, PrefillAdmitted(x),
           \A r \in Requests : Waits(r)' <=> Waits(r) /\ r # x,
           \A r \in Requests : Waits(r) /\ r # x /\ req[r].arrival < req[x].arrival
                               => gpu_free < PrefillTotal(r)
    PROVE  OvertakeInv'
<1> SUFFICES ASSUME NEW r \in Requests, NEW s \in Requests,
                    Waits(r)', InSomeQueue(s)', ~Waits(s)', req'[r].arrival < req'[s].arrival
             PROVE  PrefillTotal(s) < PrefillTotal(r)
    BY DEF OvertakeInv, PrefillTotal
<1>1. Waits(r) /\ r # x /\ InSomeQueue(s) /\ req[r].arrival < req[s].arrival
    OBVIOUS
<1>2. CASE s = x
    <2>1. gpu_free < PrefillTotal(r) /\ PrefillTotal(x) <= gpu_free
        BY <1>1, <1>2, AdmittedTakes
    <2>2. PrefillTotal(r) \in Nat /\ PrefillTotal(x) \in Nat
        BY TotalIsNat
    <2> QED BY <1>2, <2>1, <2>2
<1>3. CASE s # x
    BY <1>1, <1>3 DEF OvertakeInv
<1> QED BY <1>2, <1>3

LEMMA WorkerFacts ==
    ASSUME IInv, IInv', OrderInv, PoolInv, Worker
    PROVE  /\ \A r \in Requests : req'[r].arrival = req[r].arrival
           /\ prompts_len' = prompts_len
           /\ \A r \in Requests : InSomeQueue(r)' => InSomeQueue(r)
           /\ gpu_free \in Int
<1>1. \A r \in Requests : InSomeQueue(r)' => InSomeQueue(r)
    BY WorkerNoneNew DEF NoneNew, InSomeQueue
<1> QED BY <1>1, WorkerKeepsPlaces, WorkerSamePrompts DEF PoolInv

LEMMA RetryKeepsOvertake ==
    ASSUME IInv, IInv', PoolInv, OrderInv, RefusedInv, OvertakeInv, RetryDeferredPrefill
    PROVE  OvertakeInv'
<1> DEFINE d == queues["deferred_prefill"]
           d2 == queues'["deferred_prefill"]
           x == d[1]
<1>1. /\ \A r \in Requests : req'[r].arrival = req[r].arrival
      /\ prompts_len' = prompts_len
      /\ \A r \in Requests : InSomeQueue(r)' => InSomeQueue(r)
      /\ gpu_free \in Int
    BY WorkerFacts DEF Worker
<1>2. /\ pc = "retry_prefill" /\ left \in Nat \ {0} /\ left <= Len(d)
      /\ d \in Seq(Requests) /\ Len(d) \in Nat \ {0}
      /\ queues'["request"] = queues["request"]
      /\ queues'["waiting_prefill"] = queues["waiting_prefill"]
      /\ \/ PrefillAdmitted(x) /\ ToSet(d2) = ToSet(d) \ {x}
         \/ ToSet(d2) = ToSet(d)
    BY RetryTakesFirst
<1>3. \A r : Waits(r)' <=> \/ r \in ToSet(queues["request"])
                           \/ r \in ToSet(queues["waiting_prefill"]) \/ r \in ToSet(d2)
    BY <1>2 DEF Waits
<1>4. \A r : Waits(r) <=> \/ r \in ToSet(queues["request"])
                          \/ r \in ToSet(queues["waiting_prefill"]) \/ r \in ToSet(d)
    BY DEF Waits
<1>5. CASE ToSet(d2) = ToSet(d)
    BY <1>1, <1>3, <1>4, <1>5, OvertakeSame
<1>6. CASE PrefillAdmitted(x) /\ ToSet(d2) = ToSet(d) \ {x}
    <2>1. x \in ToSet(d) /\ x \in Requests /\ 1 \in 1..Len(d)
        BY <1>2 DEF ToSet
    <2>2. x \notin ToSet(queues["request"]) /\ x \notin ToSet(queues["waiting_prefill"])
        BY <2>1, Names DEF IInv, RequestInv, QueuesOK
    <2>3. OrderOK(queues["request"], queues["waiting_prefill"], d, left, Arrival)
        BY <1>2 DEF OrderInv, Untried
    <2>4. ASSUME NEW r \in Requests, Waits(r), r # x, req[r].arrival < req[x].arrival
          PROVE  gpu_free < PrefillTotal(r)
        <3>1. /\ req[r].arrival \in Nat /\ req[x].arrival \in Nat
              /\ Arrival[r] = req[r].arrival /\ Arrival[x] = req[x].arrival
            BY <2>1 DEF Arrival, IInv, RequestInv, ReqType
        <3>2. r \in ToSet(d)
            BY <1>4, <2>1, <2>3, <2>4, <3>1 DEF OrderOK
        <3>3. PICK i \in 1..Len(d) : r = d[i]
            BY <1>2, <3>2 DEF ToSet
        <3>4. 1 < i
            BY <1>2, <2>4, <3>3
        <3>5. IF 1 <= left /\ left < i THEN Arrival[d[i]] < Arrival[d[1]]
                                       ELSE Arrival[d[1]] < Arrival[d[i]]
            BY <2>1, <2>3, <3>4 DEF OrderOK, InOrder
        <3>6. left < i
            BY <2>4, <3>1, <3>3, <3>5
        <3> QED BY <1>2, <3>3, <3>6 DEF RefusedInv, PrefillRefusedFrom
    <2> HIDE DEF x, d, d2
    <2> QED BY <1>1, <1>3, <1>4, <1>6, <2>1, <2>2, <2>4, OvertakeAdmitted
<1> QED BY <1>2, <1>5, <1>6

LEMMA AdmitKeepsOvertake ==
    ASSUME IInv, IInv', PoolInv, OrderInv, RefusedInv, OvertakeInv, AdmitWaitingPrefill
    PROVE  OvertakeInv'
<1> DEFINE w == queues["waiting_prefill"]
           d == queues["deferred_prefill"]
           w2 == queues'["waiting_prefill"]
           d2 == queues'["deferred_prefill"]
           x == w[1]
<1>1. /\ \A r \in Requests : req'[r].arrival = req[r].arrival
      /\ prompts_len' = prompts_len
      /\ \A r \in Requests : InSomeQueue(r)' => InSomeQueue(r)
      /\ gpu_free \in Int
    BY WorkerFacts DEF Worker
<1>2. /\ pc = "admit" /\ w \in Seq(Requests) /\ d \in Seq(Requests) /\ Len(w) \in Nat \ {0}
      /\ x \in ToSet(w) /\ ToSet(w2) = ToSet(w) \ {x}
      /\ queues'["request"] = queues["request"]
      /\ \/ PrefillAdmitted(x) /\ d2 = d
         \/ ToSet(d2) = ToSet(d) \cup {x}
    BY AdmitTakesFirst
<1>3. \A r : Waits(r)' <=> r \in ToSet(queues["request"]) \/ r \in ToSet(w2) \/ r \in ToSet(d2)
    BY <1>2 DEF Waits
<1>4. \A r : Waits(r) <=> r \in ToSet(queues["request"]) \/ r \in ToSet(w) \/ r \in ToSet(d)
    BY DEF Waits
<1>5. CASE ToSet(d2) = ToSet(d) \cup {x}
    <2> HIDE DEF x, w, d, w2, d2
    <2>1. \A r \in Requests : Waits(r)' <=> Waits(r)
        BY <1>2, <1>3, <1>4, <1>5
    <2> QED BY <1>1, <2>1, OvertakeSame
<1>6. CASE PrefillAdmitted(x) /\ d2 = d
    <2>1. x \in Requests /\ x \notin ToSet(queues["request"]) /\ x \notin ToSet(d)
        <3>1. RequestInv /\ x \in Requests
            BY <1>2, Lengths, Names DEF IInv
        <3>2. ToSet(w) \cap ToSet(queues["request"]) = {} /\ ToSet(w) \cap ToSet(d) = {}
            BY <3>1, Names DEF RequestInv, QueuesOK
        <3> HIDE DEF x, w, d
        <3> QED BY <1>2, <3>1, <3>2
    <2>2. OrderOK(queues["request"], w, d, 0, Arrival)
        BY <1>2 DEF OrderInv, Untried
    <2>3. ASSUME NEW r \in Requests, Waits(r), r # x, req[r].arrival < req[x].arrival
          PROVE  gpu_free < PrefillTotal(r)
        <3>1. /\ req[r].arrival \in Nat /\ req[x].arrival \in Nat
              /\ Arrival[r] = req[r].arrival /\ Arrival[x] = req[x].arrival
            BY <2>1 DEF Arrival, IInv, RequestInv, ReqType
        <3>2. r \notin ToSet(queues["request"])
            BY <1>2, <2>2, <2>3, <3>1 DEF OrderOK
        <3>3. r \notin ToSet(w)
            <4>1. r \in ToSet(w) => Arrival[w[1]] < Arrival[r]
                BY <1>2, <2>2, <2>3, FirstIsFirst DEF OrderOK
            <4> QED BY <2>3, <3>1, <4>1
        <3>4. PICK i \in 1..Len(d) : r = d[i]
            BY <1>2, <1>4, <2>3, <3>2, <3>3 DEF ToSet
        <3> QED BY <1>2, <3>4 DEF RefusedInv, PrefillRefusedFrom
    <2>4. \A r \in Requests : Waits(r)' <=> Waits(r) /\ r # x
        <3> HIDE DEF x, w, d, w2, d2
        <3> QED BY <1>2, <1>3, <1>4, <1>6, <2>1
    <2> HIDE DEF x, w, d, w2, d2
    <2> QED BY <1>1, <1>6, <2>1, <2>3, <2>4, OvertakeAdmitted
<1> QED BY <1>2, <1>5, <1>6

LEMMA NextKeepsOvertake ==
    ASSUME IInv, IInv', PoolInv, OrderInv, RefusedInv, OvertakeInv, [Next]_vars
    PROVE  OvertakeInv'
<1>1. CASE OtherThreads \/ UNCHANGED vars
    <2>1. UNCHANGED <<queues, req, prompts_len>>
        BY <1>1 DEF OtherThreads, ServeAsync, ReadResponses, LeaveCallback,
                    ServerClose, StopRunning, CloseQueue, Join, vars, internal
    <2>2. \A r \in Requests : (InSomeQueue(r)' <=> InSomeQueue(r)) /\ (Waits(r)' <=> Waits(r))
        BY <2>1 DEF InSomeQueue, Waits
    <2> QED BY <2>1, <2>2, OvertakeSame
<1>2. ASSUME Worker, \A r \in Requests : Waits(r)' <=> Waits(r) PROVE OvertakeInv'
    BY <1>2, WorkerFacts, OvertakeSame
<1>3. CASE Elsewhere
    <2>1. \A q \in {"request", "waiting_prefill", "deferred_prefill"} : queues'[q] = queues[q]
        BY <1>3, ElsewhereKeepsQueues
    <2>2. \A r \in Requests : Waits(r)' <=> Waits(r)
        BY <2>1 DEF Waits
    <2> QED BY <1>2, <1>3, <2>2 DEF Elsewhere, Worker
<1>4. CASE DrainNewRequests \/ WaitAndEnqueueOneRequest
    <2>1. queues' = queues \/ \E X : Moved(queues, queues', X, "request", "waiting_prefill")
        <3>1. QueuesOK(queues) /\ "request" \in QueueNames /\ "waiting_prefill" \in QueueNames
              /\ Len(queues["request"]) \in Nat
            BY Names, Lengths DEF IInv, RequestInv
        <3>2. CASE DrainNewRequests
            <4> DEFINE n == IF admission_paused_ THEN 0
                            ELSE Lesser(MAX_BATCH_NUM, Len(queues["request"]))
            <4>1. n \in 0..Len(queues["request"])
                BY <3>1, ConstantTypes DEF Lesser
            <4>2. queues' = MoveFirst(queues, n, "request", "waiting_prefill")
                BY <3>2 DEF DrainNewRequests, drain_new_requests
            <4> HIDE DEF n
            <4> QED BY <3>1, <4>1, <4>2, MoveFirstOK
        <3>3. CASE WaitAndEnqueueOneRequest /\ queues' # queues
            <4>1. queues["request"] # <<>> /\ queues' = MoveAt(queues, 1, "request", "waiting_prefill")
                BY <3>3 DEF WaitAndEnqueueOneRequest, MoveFront
            <4>2. 1 \in 1..Len(queues["request"])
                BY <3>1, <4>1, Lengths DEF IInv
            <4> QED BY <3>1, <4>1, <4>2, MoveAtOK
        <3> QED BY <1>4, <3>2, <3>3
    <2>2. \A r \in Requests : Waits(r)' <=> Waits(r)
        BY <2>1, Names DEF Moved, Waits
    <2> QED BY <1>2, <1>4, <2>2 DEF Worker
<1>5. CASE Worker
    BY <1>3, <1>4, <1>5, RetryKeepsOvertake, AdmitKeepsOvertake DEF Worker, Elsewhere
<1>6. CASE \E r \in Requests : Submit(r)
    <2>1. PICK x \in Requests : Submit(x)
        BY <1>6
    <2>2. /\ ~InSomeQueue(x) /\ prompts_len' = prompts_len
          /\ \A y \in Requests \ {x} : req'[y] = req[y] /\ req[y].arrival < req'[x].arrival
          /\ ToSet(queues'["request"]) = ToSet(queues["request"]) \cup {x}
          /\ \A q \in QueueNames \ {"request"} : queues'[q] = queues[q]
        BY <2>1, SubmitMoves DEF Submit
    <2>3. \A r \in Requests : /\ Waits(r)' <=> Waits(r) \/ r = x
                              /\ InSomeQueue(r)' => InSomeQueue(r) \/ r = x
        BY <2>2, Names DEF Waits, InSomeQueue
    <2>4. \A r \in Requests : req[r].arrival \in Nat /\ req'[r].arrival \in Nat
        BY DEF IInv, RequestInv, ReqType
    <2>5. ASSUME NEW r \in Requests, NEW s \in Requests,
                 Waits(r)', InSomeQueue(s)', ~Waits(s)', req'[r].arrival < req'[s].arrival
          PROVE  PrefillTotal(s) < PrefillTotal(r)
        <3>1. s # x /\ InSomeQueue(s) /\ ~Waits(s)
            BY <2>3, <2>5
        <3>2. r # x
            BY <2>2, <2>4, <2>5, <3>1
        <3>3. Waits(r) /\ req[r].arrival < req[s].arrival
            BY <2>2, <2>3, <2>5, <3>1, <3>2
        <3> QED BY <3>1, <3>3 DEF OvertakeInv
    <2> QED BY <2>2, <2>5 DEF OvertakeInv, PrefillTotal
<1> QED BY <1>1, <1>5, <1>6 DEF Next, OtherThreads

\* Deferral overtakes only for a reason: who is admitted by
\* retry_deferred_prefill or admit_waiting_prefill before one that came earlier
\* needs fewer blocks than that one.
THEOREM NoOvertaking == Spec => []NoOvertakingByEqualOrLarger
<1>1. Init => RefusedInv /\ OvertakeInv
    <2> SUFFICES ASSUME Init PROVE RefusedInv /\ OvertakeInv
        OBVIOUS
    <2>1. \A q \in QueueNames : ToSet(queues[q]) = {}
        BY DEF Init, ToSet
    <2> QED BY <2>1 DEF Init, RefusedInv, OvertakeInv, InSomeQueue
<1>2. IInv /\ IInv' /\ OrderInv /\ [Next]_vars => OrderInv'
    BY NextKeepsOrder
<1>3. IInv /\ IInv' /\ PoolInv /\ OrderInv /\ RefusedInv /\ [Next]_vars => RefusedInv'
    BY NextKeepsRefused
<1>4. IInv /\ IInv' /\ PoolInv /\ OrderInv /\ RefusedInv /\ OvertakeInv /\ [Next]_vars
      => OvertakeInv'
    BY NextKeepsOvertake
<1>5. IInv /\ OvertakeInv => NoOvertakingByEqualOrLarger
    <2> SUFFICES ASSUME IInv, OvertakeInv, NEW r \in Submitted, NEW s \in Submitted,
                        req[r].arrival < req[s].arrival, Waiting(r), ~Waiting(s)
                 PROVE  PrefillTotal(s) < PrefillTotal(r)
        BY DEF NoOvertakingByEqualOrLarger
    <2>1. r \in Requests /\ s \in Requests
        BY DEF Submitted
    <2>2. InSomeQueue(r) /\ InSomeQueue(s)
        BY <2>1, SubmittedIs DEF IInv
    <2>3. Waits(r) /\ ~Waits(s)
        BY <2>1, <2>2, WaitsIsWaiting
    <2> QED BY <2>1, <2>2, <2>3 DEF OvertakeInv
<1> QED BY <1>1, <1>2, <1>3, <1>4, <1>5, InitIsInOrder, InvariantHolds, PoolsHold, PTL DEF Spec
=============================================================================
