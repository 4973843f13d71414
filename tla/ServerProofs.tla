---------------------------- MODULE ServerProofs ----------------------------
(***************************************************************************)
(* Proofs about Server for any addresses, any number of connections and    *)
(* responses, and every split of the bytes a client sends.                 *)
(***************************************************************************)
EXTENDS Server, SequenceTheorems, FiniteSetTheorems, WellFoundedInduction, TLAPS

\* What holds of a client at any time, also between the calls of one callback.
HandleOK(c) ==
    /\ Len(c.pending) <= 1
    /\ ~c.closed => (c.writing <=> c.pending # <<>>)
    /\ c.closing /\ ~c.closed => c.pending = <<>>

\* Text waits only for a write that is under way, unless f > 0 writes failed.
QueueServed(c, f) == ~c.closed /\ c.write_queue # <<>> /\ f = 0 => c.writing

ClientOK(c, f) == HandleOK(c) /\ QueueServed(c, f)

WriteInv ==
    /\ client \in [Addresses -> ClientType \cup {Freed}]
    /\ faults \in Nat
    /\ \A a \in Addresses : Live(a) => ClientOK(client[a], faults)

LEMMA FreedIsNoClient == Freed \notin ClientType
<1> SUFFICES ASSUME Freed \in ClientType PROVE FALSE
    OBVIOUS
<1>1. DOMAIN Freed = {"conn"}
    BY DEF Freed
<1>2. "closed" \in DOMAIN Freed
    BY DEF ClientType
<1> QED BY <1>1, <1>2

LEMMA TailOK ==
    ASSUME NEW S, NEW s \in Seq(S), s # <<>>
    PROVE  /\ Tail(s) \in Seq(S) /\ Head(s) \in S /\ Len(Tail(s)) = Len(s) - 1
           /\ Len(s) \in Nat \ {0}
           /\ \A i \in 1..Len(Tail(s)) : Tail(s)[i] = s[i + 1]
           /\ Len(s) <= 1 => Tail(s) = <<>>
<1> DEFINE t == Tail(s)
           n == Len(s)
<1>1. n \in Nat \ {0}
    BY EmptySeq
<1>2. t \in Seq(S) /\ Head(s) \in S /\ Len(t) = n - 1 /\ \A i \in 1..Len(t) : t[i] = s[i + 1]
    BY <1>1, HeadTailProperties
<1> HIDE DEF t, n
<1>3. n <= 1 => Len(t) = 0
    BY <1>1, <1>2
<1>4. Len(t) = 0 => t = <<>>
    BY <1>2, EmptySeq
<1> QED BY <1>1, <1>2, <1>3, <1>4 DEF t, n

LEMMA AppendedOK ==
    ASSUME NEW S, NEW s \in Seq(S), NEW x \in S
    PROVE  /\ Append(s, x) \in Seq(S) /\ Append(s, x) # <<>>
           /\ Len(Append(s, x)) = Len(s) + 1 /\ Len(s) \in Nat
           /\ \A i \in 1..Len(s) : Append(s, x)[i] = s[i]
           /\ Append(s, x)[Len(s) + 1] = x
BY AppendProperties

\* A write that is started leaves one write under way, a failed or a refused
\* one none.
LEMMA StartWriteOK ==
    ASSUME NEW c \in ClientType, faults \in Nat, HandleOK(c),
           faults = 0 /\ c.closing /\ ~c.writing => Len(c.write_queue) <= 1,
           NEW o \in StartWrite(c)
    PROVE  /\ o.client \in ClientType /\ o.failed \in Nat
           /\ ClientOK(o.client, faults + o.failed)
<1>1. c.write_queue \in Seq(Texts) /\ c.pending \in Seq(Texts)
      /\ c.writing \in BOOLEAN /\ c.closed \in BOOLEAN /\ c.closing \in BOOLEAN
    BY DEF ClientType
<1>2. CASE c.closed \/ c.writing \/ c.write_queue = <<>>
    <2>1. o = [client |-> c, failed |-> 0]
        BY <1>2 DEF StartWrite, Same
    <2> QED BY <1>2, <2>1 DEF ClientOK, QueueServed
<1>3. CASE ~(c.closed \/ c.writing \/ c.write_queue = <<>>)
    <2>1. /\ Tail(c.write_queue) \in Seq(Texts) /\ Head(c.write_queue) \in Texts
          /\ Len(c.write_queue) <= 1 => Tail(c.write_queue) = <<>>
        BY <1>1, <1>3, TailOK
    <2>2. c.pending = <<>>
        BY <1>1, <1>3 DEF HandleOK
    <2>3. CASE o.client = Dropped(c) /\ (o.failed = 1 \/ (c.closing /\ o.failed = 0))
        <3>1. /\ o.client \in ClientType
              /\ o.client.pending = <<>> /\ o.client.writing = FALSE
              /\ o.client.write_queue = Tail(c.write_queue)
            BY <1>1, <1>3, <2>1, <2>2, <2>3 DEF Dropped, ClientType
        <3>2. HandleOK(o.client)
            BY <1>1, <3>1 DEF HandleOK
        <3>3. QueueServed(o.client, faults + o.failed)
            <4> SUFFICES ASSUME faults + o.failed = 0 PROVE Tail(c.write_queue) = <<>>
                BY <3>1 DEF QueueServed
            <4>1. faults = 0 /\ c.closing
                BY <2>3
            <4>2. Len(c.write_queue) <= 1
                BY <1>3, <4>1
            <4> QED BY <2>1, <4>2
        <3> QED BY <2>3, <3>1, <3>2, <3>3 DEF ClientOK
    <2>4. CASE o.client = HandedOver(c) /\ o.failed = 0 /\ ~c.closing
        <3>1. Append(c.pending, Head(c.write_queue)) \in Seq(Texts)
              /\ Len(Append(c.pending, Head(c.write_queue))) = 1
              /\ Append(c.pending, Head(c.write_queue)) # <<>>
            BY <1>1, <2>1, <2>2, AppendedOK
        <3>2. /\ o.client \in ClientType
              /\ o.client.pending = Append(c.pending, Head(c.write_queue))
              /\ o.client.writing = TRUE /\ o.client.closing = c.closing
            BY <1>1, <2>1, <2>4, <3>1 DEF HandedOver, ClientType
        <3> QED BY <2>4, <3>1, <3>2 DEF ClientOK, HandleOK, QueueServed
    <2> QED BY <1>3, <2>3, <2>4 DEF StartWrite, Same
<1> QED BY <1>2, <1>3

LEMMA EnqueueWriteOK ==
    ASSUME NEW c \in ClientType, faults \in Nat, ClientOK(c, faults), NEW text \in Texts,
           NEW o \in EnqueueWrite(c, text)
    PROVE  /\ o.client \in ClientType /\ o.failed \in Nat
           /\ ClientOK(o.client, faults + o.failed)
<1>1. CASE c.closed
    BY <1>1 DEF EnqueueWrite, Same
<1>2. CASE ~c.closed
    <2> DEFINE q == Append(c.write_queue, text)
               d == [c EXCEPT !.write_queue = q]
    <2>1. c.write_queue \in Seq(Texts)
        BY DEF ClientType
    <2>2. q \in Seq(Texts) /\ Len(q) = Len(c.write_queue) + 1
        BY <2>1, AppendedOK
    <2> HIDE DEF q
    <2>3. /\ d \in ClientType /\ d.write_queue = q /\ d.pending = c.pending
          /\ d.writing = c.writing /\ d.closed = c.closed /\ d.closing = c.closing
        BY <2>2 DEF ClientType
    <2>4. o \in StartWrite(d)
        BY <1>2 DEF EnqueueWrite, q
    <2> HIDE DEF d
    <2>5. HandleOK(d)
        BY <2>3 DEF HandleOK, ClientOK
    <2>6. ASSUME faults = 0, d.closing, ~d.writing PROVE Len(d.write_queue) <= 1
        <3>1. c.write_queue = <<>>
            BY <1>2, <2>3, <2>6 DEF ClientOK, QueueServed
        <3>2. Len(<<>>) + 1 = 1
            OBVIOUS
        <3>3. Len(q) = 1
            BY <2>2, <3>1, <3>2
        <3>4. d.write_queue = q
            BY <2>3
        <3> HIDE DEF q
        <3>5. Len(d.write_queue) = 1
            BY ONLY <3>3, <3>4
        <3> QED BY ONLY <3>5
    <2> QED BY <2>3, <2>4, <2>5, <2>6, StartWriteOK
<1> QED BY <1>1, <1>2

\* After on_write's assignments the write is over.
LEMMA AfterWriteOK ==
    ASSUME NEW c \in ClientType, HandleOK(c), c.pending # <<>>
    PROVE  /\ AfterWrite(c) \in ClientType /\ HandleOK(AfterWrite(c))
           /\ AfterWrite(c).closing => AfterWrite(c).writing
<1>1. c.pending \in Seq(Texts) /\ c.closed \in BOOLEAN /\ c.closing \in BOOLEAN
    BY DEF ClientType
<1>2. Tail(c.pending) \in Seq(Texts) /\ Tail(c.pending) = <<>>
    <2>1. Tail(c.pending) \in Seq(Texts) /\ (Len(c.pending) <= 1 => Tail(c.pending) = <<>>)
        BY <1>1, TailOK
    <2> QED BY <2>1 DEF HandleOK
<1>3. /\ AfterWrite(c) \in ClientType /\ AfterWrite(c).pending = <<>>
      /\ AfterWrite(c).writing = c.closed /\ AfterWrite(c).closed = c.closed
      /\ AfterWrite(c).closing = c.closing
    BY <1>1, <1>2 DEF AfterWrite, ClientType
<1>4. Len(AfterWrite(c).pending) <= 1
    BY <1>1, <1>3
<1> QED BY <1>1, <1>3, <1>4 DEF HandleOK

\* One client becomes another that is in order.
LEMMA ChangeKeeps ==
    ASSUME WriteInv, NEW a \in Addresses, NEW d, NEW k \in Nat,
           d \in ClientType \cup {Freed}, d # Freed => ClientOK(d, faults + k),
           client' = [client EXCEPT ![a] = d], faults' = faults + k
    PROVE  WriteInv'
<1>1. client' \in [Addresses -> ClientType \cup {Freed}] /\ faults' \in Nat
    BY DEF WriteInv
<1>2. ASSUME NEW b \in Addresses, Live(b)' PROVE ClientOK(client'[b], faults')
    <2>1. CASE b = a
        BY <1>2, <2>1 DEF WriteInv, Live
    <2>2. CASE b # a
        <3>1. client'[b] = client[b] /\ Live(b) /\ ClientOK(client[b], faults)
            BY <1>2, <2>2 DEF WriteInv, Live
        <3>2. faults' = 0 => faults = 0
            BY DEF WriteInv
        <3> QED BY <3>1, <3>2 DEF ClientOK, QueueServed
    <2> QED BY <2>1, <2>2
<1> QED BY <1>1, <1>2 DEF WriteInv

LEMMA BecomesKeeps ==
    ASSUME WriteInv, NEW a \in Addresses, NEW outcomes, Becomes(a, outcomes),
           \A o \in outcomes : /\ o.client \in ClientType /\ o.failed \in Nat
                               /\ ClientOK(o.client, faults + o.failed)
    PROVE  WriteInv'
<1>1. PICK o \in outcomes : client' = [client EXCEPT ![a] = o.client] /\ faults' = faults + o.failed
    BY DEF Becomes
<1> QED BY <1>1, ChangeKeeps

LEMMA LiveClient ==
    ASSUME WriteInv, NEW a \in Addresses, Live(a)
    PROVE  client[a] \in ClientType /\ ClientOK(client[a], faults) /\ faults \in Nat
BY DEF WriteInv, Live
-----------------------------------------------------------------------------
(* The steps of the event loop and of the clients. *)

\* The loop is in on_read only for an object that is there.
AtInv == at \in {"idle", "responses"} \cup Addresses /\ (at \in Addresses => Live(at))

ClientInv == WriteInv /\ AtInv /\ accepted \in 0..MAX_CONNECTIONS

LEMMA BytesOK ==
    ASSUME NEW bytes \in Chunks
    PROVE  bytes \in Seq({"t", "nl"})
BY ServerAssumption DEF Chunks

LEMMA BufferOK ==
    ASSUME NEW c \in ClientType, NEW f, ClientOK(c, f), NEW buffer \in Seq({"t", "nl"})
    PROVE  /\ [c EXCEPT !.read_buffer = buffer] \in ClientType
           /\ ClientOK([c EXCEPT !.read_buffer = buffer], f)
<1> DEFINE d == [c EXCEPT !.read_buffer = buffer]
<1>1. /\ d \in ClientType /\ d.write_queue = c.write_queue /\ d.pending = c.pending
      /\ d.writing = c.writing /\ d.closed = c.closed /\ d.closing = c.closing
    BY DEF ClientType
<1> HIDE DEF d
<1>2. ClientOK(d, f)
    BY <1>1 DEF ClientOK, HandleOK, QueueServed
<1> QED BY <1>1, <1>2 DEF d

\* Objects are created and deleted only while the loop is idle.
LEMMA AtIdle ==
    ASSUME AtInv, at = "idle", at' = at
    PROVE  AtInv'
BY ServerAssumption DEF AtInv

LEMMA AtKept ==
    ASSUME AtInv, at' = at, \A a \in Addresses : Live(a) => client'[a] # Freed
    PROVE  AtInv'
BY DEF AtInv, Live

LEMMA OnWriteKeeps ==
    ASSUME ClientInv, NEW a \in Addresses, OnWrite(a) \/ OnWriteFails(a)
    PROVE  ClientInv'
<1> DEFINE c == client[a]
           d == AfterWrite(c)
<1>1. at = "idle" /\ at' = at /\ Live(a) /\ c.pending # <<>> /\ accepted' = accepted
    BY DEF OnWrite, OnWriteFails, Idle, history
<1>2. c \in ClientType /\ HandleOK(c) /\ faults \in Nat
    BY <1>1, LiveClient DEF ClientInv, ClientOK
<1>3. d \in ClientType /\ HandleOK(d) /\ (d.closing => d.writing)
    <2> HIDE DEF c
    <2> QED BY <1>1, <1>2, AfterWriteOK
<1> HIDE DEF c, d
<1>4. \A o \in StartWrite(d) : /\ o.client \in ClientType /\ o.failed \in Nat
                               /\ ClientOK(o.client, faults + o.failed)
    BY <1>2, <1>3, StartWriteOK
<1>5. WriteInv'
    <2>1. CASE OnWrite(a)
        <3>1. Becomes(a, StartWrite(d))
            BY <2>1 DEF OnWrite, d, c
        <3> QED BY <1>4, <3>1, BecomesKeeps DEF ClientInv
    <2>2. CASE OnWriteFails(a)
        <3>1. PICK o \in StartWrite(d) :
                 /\ client' = [client EXCEPT ![a] = o.client]
                 /\ faults' = faults + o.failed + IF client[a].closed THEN 0 ELSE 1
            BY <2>2 DEF OnWriteFails, d, c
        <3> DEFINE k == o.failed + IF client[a].closed THEN 0 ELSE 1
        <3>2. o.client \in ClientType /\ o.failed \in Nat /\ ClientOK(o.client, faults + o.failed)
            BY <1>4
        <3>3. k \in Nat /\ faults' = faults + k /\ (faults + k = 0 => faults + o.failed = 0)
            BY <1>2, <3>1, <3>2
        <3> HIDE DEF k
        <3>4. ClientOK(o.client, faults + k)
            BY <3>2, <3>3 DEF ClientOK, QueueServed
        <3> QED BY <3>1, <3>2, <3>3, <3>4, ChangeKeeps DEF ClientInv
    <2> QED BY <2>1, <2>2
<1> QED BY <1>1, <1>5, AtIdle DEF ClientInv

LEMMA OnNewConnectionKeeps ==
    ASSUME ClientInv, NEW a \in Addresses, OnNewConnection(a)
    PROVE  ClientInv'
<1>1. PICK failed \in BOOLEAN :
         client' = [client EXCEPT ![a] = [NewClient(accepted + 1) EXCEPT !.closing = failed]]
    BY DEF OnNewConnection
<1> DEFINE d == [NewClient(accepted + 1) EXCEPT !.closing = failed]
           new == NewClient(accepted + 1)
<1>2. /\ new \in ClientType /\ new.write_queue = <<>> /\ new.pending = <<>>
      /\ new.writing = FALSE /\ new.closed = FALSE
    <2>1. <<>> \in Seq({"t", "nl"}) /\ <<>> \in Seq(Texts) /\ accepted + 1 \in Connections
        BY ServerAssumption DEF ClientInv, OnNewConnection, Connections
    <2> QED BY <2>1 DEF ClientType, NewClient
<1> HIDE DEF new
<1>3. /\ d \in ClientType /\ d.write_queue = <<>> /\ d.pending = <<>>
      /\ d.writing = FALSE /\ d.closed = FALSE
    <2>1. d = [new EXCEPT !.closing = failed]
        BY DEF new
    <2> HIDE DEF d
    <2> QED BY <1>2, <2>1 DEF ClientType
<1> HIDE DEF d
<1>4. ClientOK(d, faults + 0)
    BY <1>3 DEF ClientOK, HandleOK, QueueServed
<1>5. WriteInv'
    <2>1. faults' = faults + 0
        BY DEF OnNewConnection, ClientInv, WriteInv
    <2>2. client' = [client EXCEPT ![a] = d]
        BY <1>1 DEF d
    <2> QED BY <1>3, <1>4, <2>1, <2>2, ChangeKeeps DEF ClientInv
<1>6. at = "idle" /\ at' = at /\ accepted' \in 0..MAX_CONNECTIONS
    BY ServerAssumption DEF OnNewConnection, Idle, ClientInv
<1> QED BY <1>5, <1>6, AtIdle DEF ClientInv

LEMMA OnReadKeeps ==
    ASSUME ClientInv, NEW a \in Addresses, NEW bytes \in Chunks, OnRead(a, bytes)
    PROVE  ClientInv'
<1> DEFINE c == client[a]
           d == [c EXCEPT !.read_buffer = @ \o bytes]
<1>1. c \in ClientType /\ ClientOK(c, faults) /\ faults \in Nat
    BY LiveClient DEF OnRead, ClientInv
<1>2. client' = [client EXCEPT ![a] = d] /\ faults' = faults + 0 /\ at' = a /\ accepted' = accepted
    BY <1>1 DEF OnRead
<1>3. c.read_buffer \o bytes \in Seq({"t", "nl"})
    <2>1. c.read_buffer \in Seq({"t", "nl"})
        BY <1>1 DEF ClientType
    <2> HIDE DEF c
    <2> QED BY <2>1, BytesOK, ConcatProperties
<1>4. d \in ClientType /\ ClientOK(d, faults + 0)
    <2> DEFINE buffer == c.read_buffer \o bytes
    <2>1. d = [c EXCEPT !.read_buffer = buffer] /\ faults + 0 = faults
        BY <1>1
    <2> HIDE DEF c, buffer
    <2> QED BY <1>1, <1>3, <2>1, BufferOK DEF buffer
<1> HIDE DEF d
<1>5. WriteInv'
    BY <1>2, <1>4, ChangeKeeps DEF ClientInv
<1>6. client'[a] # Freed
    BY <1>2, <1>4, FreedIsNoClient DEF ClientInv, WriteInv
<1> QED BY <1>2, <1>5, <1>6 DEF ClientInv, AtInv, Live

LEMMA InvalidIsText == Invalid \in Texts
BY DEF Texts

LEMMA BecomesLive ==
    ASSUME WriteInv, NEW a \in Addresses, NEW outcomes, Becomes(a, outcomes),
           \A o \in outcomes : o.client \in ClientType
    PROVE  \A b \in Addresses : Live(b) => client'[b] # Freed
BY FreedIsNoClient DEF Becomes, WriteInv, Live

\* What is left of the buffer when its first line is taken.
LEMMA RestOfBuffer ==
    ASSUME NEW buffer \in Seq({"t", "nl"}), NEW pos \in Nat \ {0}
    PROVE  SubSeq(buffer, pos + 1, Len(buffer)) \in Seq({"t", "nl"})
BY SubSeqProperties

LEMMA LeastOK ==
    ASSUME NEW S \in SUBSET Nat, S # {}
    PROVE  Min(S) \in S
<1>1. \E x \in S : \A y \in S : x <= y
    <2>1. PICK x \in S : \A y \in S : <<y, x>> \notin OpToRel(<, Nat)
        BY NatLessThanWellFounded, WFMin
    <2>2. \A y \in S : x \in Nat /\ y \in Nat /\ ~(y < x)
        BY <2>1 DEF OpToRel
    <2> QED BY <2>2
<1> QED BY <1>1 DEF Min

LEMMA NextLineKeeps ==
    ASSUME ClientInv, NEW a \in Addresses, NextLine(a)
    PROVE  ClientInv'
<1> DEFINE c == client[a]
           pos == SelectInSeq(c.read_buffer, LAMBDA b : b = "nl")
           rest == [c EXCEPT !.read_buffer = SubSeq(@, pos + 1, Len(@))]
<1>1. at = a /\ at' = at /\ accepted' = accepted /\ pos > 0
      /\ \/ Becomes(a, EnqueueWrite(rest, Invalid))
         \/ client' = [client EXCEPT ![a] = rest] /\ faults' = faults
    BY DEF NextLine
<1>2. c \in ClientType /\ ClientOK(c, faults) /\ faults \in Nat
    BY <1>1, LiveClient DEF ClientInv, AtInv
<1>3. pos \in Nat \ {0}
    <2> DEFINE I == {i \in 1..Len(c.read_buffer) : c.read_buffer[i] = "nl"}
    <2>1. I \in SUBSET Nat
        BY <1>2 DEF ClientType
    <2>2. pos = IF I # {} THEN Min(I) ELSE 0
        BY DEF SelectInSeq
    <2> HIDE DEF I
    <2>3. pos \in Nat
        BY <2>1, <2>2, LeastOK
    <2> QED BY <1>1, <2>3
<1> HIDE DEF pos
<1>4. SubSeq(c.read_buffer, pos + 1, Len(c.read_buffer)) \in Seq({"t", "nl"})
    <2>1. c.read_buffer \in Seq({"t", "nl"})
        BY <1>2 DEF ClientType
    <2> QED BY <1>3, <2>1, RestOfBuffer
<1> HIDE DEF c
<1>5. rest \in ClientType /\ ClientOK(rest, faults)
    BY <1>2, <1>4, BufferOK
<1> HIDE DEF rest
<1>6. CASE Becomes(a, EnqueueWrite(rest, Invalid))
    <2>1. \A o \in EnqueueWrite(rest, Invalid) :
             o.client \in ClientType /\ o.failed \in Nat /\ ClientOK(o.client, faults + o.failed)
        BY <1>2, <1>5, InvalidIsText, EnqueueWriteOK
    <2>2. WriteInv' /\ \A b \in Addresses : Live(b) => client'[b] # Freed
        BY <1>6, <2>1, BecomesKeeps, BecomesLive DEF ClientInv
    <2> QED BY <1>1, <2>2, AtKept DEF ClientInv
<1>7. CASE client' = [client EXCEPT ![a] = rest] /\ faults' = faults
    <2>1. faults' = faults + 0 /\ ClientOK(rest, faults + 0)
        BY <1>2, <1>5, <1>7
    <2>2. WriteInv'
        BY <1>5, <1>7, <2>1, ChangeKeeps DEF ClientInv
    <2>3. \A b \in Addresses : Live(b) => client'[b] # Freed
        BY <1>5, <1>7, FreedIsNoClient DEF ClientInv, WriteInv, Live
    <2> QED BY <1>1, <2>2, <2>3, AtKept DEF ClientInv
<1> QED BY <1>1, <1>6, <1>7

LEMMA OnReadEndsKeeps ==
    ASSUME ClientInv, NEW a \in Addresses, OnReadEnds(a)
    PROVE  ClientInv'
<1> DEFINE c == client[a]
           d == [c EXCEPT !.closed = TRUE, !.closing = TRUE]
<1>1. at = "idle" /\ at' = at /\ Live(a) /\ accepted' = accepted /\ faults' = faults
    BY DEF OnReadEnds, Idle, history
<1>2. client' = [client EXCEPT ![a] = d]
    BY DEF OnReadEnds
<1>3. c \in ClientType /\ ClientOK(c, faults) /\ faults \in Nat
    BY <1>1, LiveClient DEF ClientInv
<1> HIDE DEF c
<1>4. d \in ClientType /\ d.closed = TRUE /\ d.pending = c.pending
    BY <1>3 DEF ClientType
<1> HIDE DEF d
<1>5. ClientOK(d, faults + 0) /\ faults' = faults + 0
    BY <1>1, <1>3, <1>4 DEF ClientOK, HandleOK, QueueServed
<1>6. WriteInv'
    BY <1>2, <1>4, <1>5, ChangeKeeps DEF ClientInv
<1> QED BY <1>1, <1>6, AtIdle DEF ClientInv

LEMMA OnClientClosedKeeps ==
    ASSUME ClientInv, NEW a \in Addresses, OnClientClosed(a)
    PROVE  ClientInv'
<1>1. at = "idle" /\ at' = at /\ accepted' = accepted /\ faults' = faults
    BY DEF OnClientClosed, Idle, history
<1>2. client' = [client EXCEPT ![a] = Freed] /\ faults' = faults + 0
    BY DEF OnClientClosed, ClientInv, WriteInv
<1>3. WriteInv'
    BY <1>2, ChangeKeeps DEF ClientInv
<1> QED BY <1>1, <1>3, AtIdle DEF ClientInv

\* Steps that touch no object.
LEMMA NoClientKeeps ==
    ASSUME ClientInv, UNCHANGED <<client, faults, accepted>>,
           at' \in {at, "idle", "responses"}
    PROVE  ClientInv'
<1>1. WriteInv'
    BY DEF ClientInv, WriteInv, Live
<1>2. AtInv'
    BY ServerAssumption DEF ClientInv, AtInv, Live
<1> QED BY <1>1, <1>2 DEF ClientInv
-----------------------------------------------------------------------------
(* The requests and their responses. *)

\* A last response in the queue is the only one of its request.
OneLast ==
    \A i, j \in 1..Len(response_queue) :
        response_queue[i].finished /\ response_queue[j].finished
            /\ response_queue[i].request_id = response_queue[j].request_id => i = j

\* A request that may still be answered has responses to come.
AnsweredInv == \A id \in Ids \ finals : answered[id] < MAX_NEW_TOKENS

RequestInv ==
    /\ next_request_id \in Nat \ {0}
    /\ response_queue \in Seq(Texts)
    /\ answered \in [Ids -> Nat] /\ AnsweredInv
    /\ finals \subseteq 1..(next_request_id - 1)
    /\ \A i \in 1..Len(response_queue) :
          /\ response_queue[i].request_id \in 1..(next_request_id - 1)
          /\ response_queue[i].finished => response_queue[i].request_id \in finals
    /\ OneLast
    /\ \A id \in DOMAIN req_to_client_ : req_to_client_[id] \in Addresses
    /\ MapHoldsTheUnanswered

Inv == ClientInv /\ RequestInv

\* The last response of the request is still to be read.
LastUnread(id) ==
    \E i \in 1..Len(response_queue) :
        response_queue[i].request_id = id /\ response_queue[i].finished

LEMMA MapIs ==
    ASSUME response_queue \in Seq(Texts)
    PROVE  MapHoldsTheUnanswered <=>
              DOMAIN req_to_client_ =
                  {id \in 1..(next_request_id - 1) : id \in finals => LastUnread(id)}
<1>1. DOMAIN response_queue = 1..Len(response_queue)
    OBVIOUS
<1> QED BY <1>1 DEF MapHoldsTheUnanswered, LastUnread

\* A record of either kind.
LEMMA TextTypes ==
    /\ \A t \in Texts : t.finished \in BOOLEAN
    /\ \A id \in Ids, token \in 1..MAX_NEW_TOKENS, finished \in BOOLEAN :
          [request_id |-> id, token |-> token, finished |-> finished] \in Texts
<1>1. \A t \in Responses : t.finished \in BOOLEAN
    BY DEF Responses
<1>2. Invalid.finished \in BOOLEAN
    BY DEF Invalid
<1> QED BY <1>1, <1>2 DEF Texts, Responses

LEMMA TokenOK ==
    ASSUME RequestInv, NEW id \in Ids, Respond(id)
    PROVE  answered[id] + 1 \in 1..MAX_NEW_TOKENS
BY ServerAssumption DEF RequestInv, AnsweredInv, Respond

LEMMA RespondKeepsAnswered ==
    ASSUME RequestInv, NEW id \in Ids, Respond(id)
    PROVE  /\ AnsweredInv'
           /\ answered'[id] >= MAX_NEW_TOKENS => id \in finals'
<1>1. PICK finished \in BOOLEAN :
         /\ answered[id] + 1 = MAX_NEW_TOKENS => finished
         /\ finals' = IF finished THEN finals \cup {id} ELSE finals
    BY DEF Respond
<1>2. /\ id \notin finals /\ answered[id] \in Nat /\ answered[id] < MAX_NEW_TOKENS
      /\ answered' = [answered EXCEPT ![id] = @ + 1] /\ answered \in [Ids -> Nat]
    BY DEF Respond, RequestInv, AnsweredInv
<1>3. MAX_NEW_TOKENS \in Nat
    BY ServerAssumption
<1>4. answered'[id] >= MAX_NEW_TOKENS => id \in finals'
    BY <1>1, <1>2, <1>3
<1>5. ASSUME NEW x \in Ids \ finals' PROVE answered'[x] < MAX_NEW_TOKENS
    <2>1. CASE x = id
        BY <1>2, <1>3, <1>4, <1>5, <2>1
    <2>2. CASE x # id
        BY <1>1, <1>2, <1>5, <2>2 DEF AnsweredInv, RequestInv
    <2> QED BY <2>1, <2>2
<1> QED BY <1>4, <1>5 DEF AnsweredInv

LEMMA RespondKeeps ==
    ASSUME RequestInv, NEW id \in Ids, Respond(id)
    PROVE  RequestInv'
<1> DEFINE q == response_queue
           n == Len(q)
<1>1. PICK finished \in BOOLEAN :
         /\ finals' = IF finished THEN finals \cup {id} ELSE finals
         /\ q' = Append(q, [request_id |-> id, token |-> answered[id] + 1, finished |-> finished])
    BY DEF Respond
<1> DEFINE resp == [request_id |-> id, token |-> answered[id] + 1, finished |-> finished]
<1>2. id \in 1..(next_request_id - 1) /\ id \notin finals
    BY DEF Respond, Ids, RequestInv
<1>3. resp \in Texts /\ resp.request_id = id /\ resp.finished = finished
    BY TokenOK, TextTypes
<1>4. q' = Append(q, resp)
    BY <1>1
<1> HIDE DEF resp
<1>5. /\ q' \in Seq(Texts) /\ n \in Nat /\ Len(q') = n + 1
      /\ q'[n + 1] = resp /\ \A i \in 1..n : q'[i] = q[i]
    BY <1>3, <1>4, AppendedOK DEF RequestInv
<1>6. UNCHANGED <<next_request_id, req_to_client_>> /\ answered' \in [Ids -> Nat]
    BY DEF Respond, RequestInv
<1>7. /\ finals \subseteq finals' /\ finals' \subseteq finals \cup {id}
      /\ finals' \subseteq 1..(next_request_id - 1) /\ (finished => id \in finals')
      /\ (~finished => id \notin finals')
    BY <1>1, <1>2 DEF RequestInv
<1>8. \A i \in 1..n : /\ q[i].request_id \in 1..(next_request_id - 1)
                      /\ q[i].finished => q[i].request_id \in finals
    BY DEF RequestInv
<1>9. q \in Seq(Texts)
    BY DEF RequestInv
<1>10. OneLast /\ OneLast <=>
         \A i, j \in 1..n : q[i].finished /\ q[j].finished
             /\ q[i].request_id = q[j].request_id => i = j
    BY DEF OneLast
<1>11. OneLast'
    <2>1. SUFFICES ASSUME NEW i \in 1..(n + 1), NEW j \in 1..(n + 1),
                          q'[i].finished, q'[j].finished, q'[i].request_id = q'[j].request_id
                   PROVE  i = j
        BY <1>5 DEF OneLast
    <2>2. ASSUME NEW k \in 1..n, q[k].finished PROVE q[k].request_id # id
        BY <1>2, <1>8, <2>2
    <2> HIDE DEF q, n
    <2>3. CASE i \in 1..n /\ j \in 1..n
        <3>1. OneLast
            BY DEF RequestInv
        <3> QED BY <1>5, <2>1, <2>3, <3>1 DEF OneLast, q, n
    <2>4. CASE i = n + 1 \/ j = n + 1
        BY <1>3, <1>5, <2>1, <2>2, <2>4
    <2> QED BY <1>5, <2>3, <2>4
<1>12. \A i \in 1..(n + 1) : /\ q'[i].request_id \in 1..(next_request_id - 1)
                             /\ q'[i].finished => q'[i].request_id \in finals'
    <2> TAKE i \in 1..(n + 1)
    <2> HIDE DEF q, n
    <2>1. CASE i \in 1..n
        BY <1>5, <1>7, <1>8, <2>1
    <2>2. CASE i = n + 1
        BY <1>2, <1>3, <1>5, <1>7, <2>2
    <2> QED BY <1>5, <2>1, <2>2
<1>13. \A k \in 1..(next_request_id - 1) :
          (k \in finals => LastUnread(k)) <=> (k \in finals' => LastUnread(k)')
    <2> TAKE k \in 1..(next_request_id - 1)
    <2>1. LastUnread(k)' <=> \E i \in 1..(n + 1) : q'[i].request_id = k /\ q'[i].finished
        BY <1>5 DEF LastUnread
    <2>2. LastUnread(k) <=> \E i \in 1..n : q[i].request_id = k /\ q[i].finished
        BY DEF LastUnread
    <2> HIDE DEF q, n
    <2>3. LastUnread(k) => LastUnread(k)'
        BY <1>5, <2>1, <2>2
    <2>4. k # id => (LastUnread(k)' => LastUnread(k))
        <3> SUFFICES ASSUME k # id, NEW i \in 1..(n + 1), q'[i].request_id = k, q'[i].finished
                     PROVE  LastUnread(k)
            BY <2>1
        <3>1. i \in 1..n
            BY <1>3, <1>5
        <3> QED BY <1>5, <2>2, <3>1
    <2>5. finished => LastUnread(id)'
        <3>1. n + 1 \in 1..(n + 1)
            BY <1>5
        <3> QED BY <1>3, <1>5, <3>1 DEF LastUnread, q, n
    <2> QED BY <1>2, <1>7, <2>3, <2>4, <2>5
<1>14. MapHoldsTheUnanswered'
    <2>1. DOMAIN req_to_client_ =
             {k \in 1..(next_request_id - 1) : k \in finals => LastUnread(k)}
        BY <1>9, MapIs DEF RequestInv
    <2>2. DOMAIN req_to_client_' =
             {k \in 1..(next_request_id' - 1) : k \in finals' => LastUnread(k)'}
        BY <1>6, <1>13, <2>1
    <2>3. DOMAIN q' = 1..Len(q')
        BY <1>5
    <2> QED BY <2>2, <2>3 DEF MapHoldsTheUnanswered, LastUnread
<1> QED BY <1>5, <1>6, <1>7, <1>11, <1>12, <1>14, RespondKeepsAnswered DEF RequestInv

\* A response leaves the queue; its entry goes with the last one.
LEMMA OnResponseKeeps ==
    ASSUME Inv, OnResponse
    PROVE  Inv'
<1> DEFINE q == response_queue
           resp == Head(q)
           m == Len(q) - 1
           id == resp.request_id
           a == req_to_client_[id]
<1>1. q \in Seq(Texts) /\ q # <<>>
    BY DEF OnResponse, Inv, RequestInv
<1>2. /\ q' = Tail(q) /\ resp \in Texts /\ q' \in Seq(Texts) /\ Len(q') = m
      /\ Len(q) = m + 1 /\ m \in Nat
      /\ \A i \in 1..m : q'[i] = q[i + 1]
      /\ q[1] = resp
    <2>1. q' = Tail(q) /\ resp = q[1]
        BY <1>1 DEF OnResponse
    <2>2. Len(q) - 1 \in Nat /\ Len(q) = (Len(q) - 1) + 1
        <3>1. Len(q) \in Nat \ {0}
            BY <1>1, TailOK
        <3> HIDE DEF q
        <3> QED BY <3>1
    <2> QED BY <1>1, <2>1, <2>2, TailOK
<1>3. \/ id \notin DOMAIN req_to_client_ /\ UNCHANGED <<client, req_to_client_, faults>>
      \/ /\ id \in DOMAIN req_to_client_ /\ req_to_client_' = AfterResponse(resp)
         /\ \/ Live(a) /\ Becomes(a, EnqueueWrite(client[a], resp))
            \/ UNCHANGED <<client, faults>>
    BY DEF OnResponse
<1>4. UNCHANGED <<next_request_id, at, answered, finals, accepted>>
    BY DEF OnResponse, scheduler, history
<1>5. ClientInv'
    <2>1. CASE UNCHANGED <<client, faults>>
        BY <1>4, <2>1, NoClientKeeps DEF Inv
    <2>2. CASE /\ id \in DOMAIN req_to_client_ /\ Live(a)
               /\ Becomes(a, EnqueueWrite(client[a], resp))
        <3>1. a \in Addresses
            BY <2>2 DEF Inv, RequestInv
        <3>2. client[a] \in ClientType /\ ClientOK(client[a], faults) /\ faults \in Nat
            BY <2>2, <3>1, LiveClient DEF Inv, ClientInv
        <3> HIDE DEF a, resp
        <3>3. \A o \in EnqueueWrite(client[a], resp) :
                 o.client \in ClientType /\ o.failed \in Nat /\ ClientOK(o.client, faults + o.failed)
            BY <1>2, <3>2, EnqueueWriteOK
        <3>4. WriteInv' /\ \A b \in Addresses : Live(b) => client'[b] # Freed
            BY <2>2, <3>1, <3>3, BecomesKeeps, BecomesLive DEF Inv, ClientInv
        <3> QED BY <1>4, <3>4, AtKept DEF Inv, ClientInv
    <2> QED BY <1>3, <2>1, <2>2
<1> HIDE DEF q, resp, m
<1>6. RequestInv
    BY DEF Inv
<1>7. \A i \in 1..(m + 1) : /\ q[i].request_id \in 1..(next_request_id - 1)
                            /\ q[i].finished => q[i].request_id \in finals
    BY <1>2, <1>6 DEF RequestInv, q
<1>8. \A i \in 1..m : i + 1 \in 1..(m + 1)
    BY <1>2
<1>9. \A i \in 1..m : /\ q'[i].request_id \in 1..(next_request_id - 1)
                      /\ q'[i].finished => q'[i].request_id \in finals
    BY <1>2, <1>7, <1>8
<1>10. \A i, j \in 1..(m + 1) :
          q[i].finished /\ q[j].finished /\ q[i].request_id = q[j].request_id => i = j
    BY <1>2, <1>6 DEF RequestInv, OneLast, q
<1>11. OneLast'
    <2> SUFFICES ASSUME NEW i \in 1..m, NEW j \in 1..m, q'[i].finished, q'[j].finished,
                        q'[i].request_id = q'[j].request_id
                 PROVE  i = j
        BY <1>2 DEF OneLast, q
    <2>1. i + 1 = j + 1
        BY <1>2, <1>8, <1>10
    <2> QED BY <2>1
<1>12. 1 \in 1..(m + 1) /\ id \in 1..(next_request_id - 1) /\ (resp.finished => id \in finals)
    <2>1. 1 \in 1..(m + 1)
        BY <1>2
    <2> QED BY <1>2, <1>7, <2>1
<1>13. \A k \in 1..(next_request_id - 1) :
          LastUnread(k)' <=> LastUnread(k) /\ ~(k = id /\ resp.finished)
    <2> TAKE k \in 1..(next_request_id - 1)
    <2>1. LastUnread(k) <=> \E i \in 1..(m + 1) : q[i].request_id = k /\ q[i].finished
        BY <1>2 DEF LastUnread, q
    <2>2. LastUnread(k)' <=> \E i \in 1..m : q'[i].request_id = k /\ q'[i].finished
        BY <1>2 DEF LastUnread, q
    <2>3. ASSUME LastUnread(k)' PROVE LastUnread(k) /\ ~(k = id /\ resp.finished)
        <3>1. PICK i \in 1..m : q'[i].request_id = k /\ q'[i].finished
            BY <2>2, <2>3
        <3>2. i + 1 \in 1..(m + 1) /\ q[i + 1].request_id = k /\ q[i + 1].finished /\ i + 1 # 1
            BY <1>2, <1>8, <3>1
        <3> QED BY <1>2, <1>10, <1>12, <2>1, <3>2
    <2>4. ASSUME LastUnread(k), ~(k = id /\ resp.finished) PROVE LastUnread(k)'
        <3>1. PICK i \in 1..(m + 1) : q[i].request_id = k /\ q[i].finished
            BY <2>1, <2>4
        <3>2. i # 1
            BY <1>2, <2>4, <3>1
        <3>3. i - 1 \in 1..m /\ (i - 1) + 1 = i
            BY <1>2, <3>2
        <3> QED BY <1>2, <2>2, <3>1, <3>3
    <2> QED BY <2>3, <2>4
<1>14. DOMAIN req_to_client_ = {k \in 1..(next_request_id - 1) : k \in finals => LastUnread(k)}
    BY <1>6, MapIs DEF RequestInv
<1>15. resp.finished => LastUnread(id)
    BY <1>2, <1>12 DEF LastUnread, q
<1>16. resp.finished \in BOOLEAN
    BY <1>2, TextTypes
<1>17. DOMAIN req_to_client_' = DOMAIN req_to_client_ \ (IF resp.finished THEN {id} ELSE {})
    <2>1. CASE id \notin DOMAIN req_to_client_
        BY <1>3, <2>1
    <2>2. CASE id \in DOMAIN req_to_client_
        BY <1>3, <2>2 DEF AfterResponse
    <2> QED BY <2>1, <2>2
<1>18. DOMAIN req_to_client_' =
          {k \in 1..(next_request_id' - 1) : k \in finals' => LastUnread(k)'}
    <2>1. ASSUME NEW k \in 1..(next_request_id - 1)
          PROVE  (k \in finals => LastUnread(k)')
                    <=> (k \in finals => LastUnread(k)) /\ ~(k = id /\ resp.finished)
        BY <1>12, <1>13
    <2>2. DOMAIN req_to_client_' =
             {k \in 1..(next_request_id - 1) : k \in finals => LastUnread(k)'}
        BY <1>14, <1>16, <1>17, <2>1
    <2> QED BY <1>4, <2>2
<1>19. MapHoldsTheUnanswered'
    <2>1. DOMAIN response_queue' = 1..Len(response_queue')
        BY <1>2 DEF q
    <2> QED BY <1>18, <2>1 DEF MapHoldsTheUnanswered, LastUnread
<1>20. \A k \in DOMAIN req_to_client_' : req_to_client_'[k] \in Addresses
    <2>1. \A k \in DOMAIN req_to_client_' :
             k \in DOMAIN req_to_client_ /\ req_to_client_'[k] = req_to_client_[k]
        BY <1>3 DEF AfterResponse
    <2> QED BY <1>6, <2>1 DEF RequestInv
<1>21. RequestInv'
    BY <1>2, <1>4, <1>6, <1>9, <1>11, <1>19, <1>20 DEF RequestInv, AnsweredInv, q
<1> QED BY <1>5, <1>21 DEF Inv

\* A new request has an entry and no response yet.
LEMMA NextLineKeepsRequests ==
    ASSUME RequestInv, NEW a \in Addresses, NextLine(a)
    PROVE  RequestInv'
<1>1. UNCHANGED <<response_queue, answered, finals>>
    BY DEF NextLine, scheduler
<1>2. \/ UNCHANGED <<req_to_client_, next_request_id>>
      \/ /\ req_to_client_' = [id \in DOMAIN req_to_client_ \cup {next_request_id} |->
                                  IF id = next_request_id THEN a ELSE req_to_client_[id]]
         /\ next_request_id' = next_request_id + 1
    BY DEF NextLine, NextId
<1>3. CASE UNCHANGED <<req_to_client_, next_request_id>>
    BY <1>1, <1>3 DEF RequestInv, AnsweredInv, OneLast, MapHoldsTheUnanswered
<1>4. CASE /\ req_to_client_' = [id \in DOMAIN req_to_client_ \cup {next_request_id} |->
                                    IF id = next_request_id THEN a ELSE req_to_client_[id]]
           /\ next_request_id' = next_request_id + 1
    <2> DEFINE n == next_request_id
    <2>1. n \in Nat \ {0} /\ n' = n + 1 /\ 1..(n' - 1) = 1..(n - 1) \cup {n}
        BY <1>4 DEF RequestInv
    <2>2. n \notin finals /\ finals \subseteq 1..(n' - 1)
        BY <2>1 DEF RequestInv
    <2>3. \A i \in 1..Len(response_queue) :
             /\ response_queue[i].request_id \in 1..(n' - 1)
             /\ response_queue[i].finished => response_queue[i].request_id \in finals
        BY <2>1 DEF RequestInv
    <2>4. DOMAIN req_to_client_' = DOMAIN req_to_client_ \cup {n}
        BY <1>4
    <2>5. DOMAIN req_to_client_ =
             {id \in 1..(n - 1) : id \in finals => \E i \in DOMAIN response_queue :
                 response_queue[i].request_id = id /\ response_queue[i].finished}
        BY DEF RequestInv, MapHoldsTheUnanswered
    <2>6. MapHoldsTheUnanswered'
        <3> DEFINE unread(id) == \E i \in DOMAIN response_queue :
                       response_queue[i].request_id = id /\ response_queue[i].finished
        <3>1. UNCHANGED <<finals, response_queue>>
            BY <1>1
        <3>2. DOMAIN req_to_client_ = {id \in 1..(n - 1) : id \in finals => unread(id)}
            BY <2>5
        <3> HIDE DEF unread
        <3>3. DOMAIN req_to_client_' = {id \in 1..(n' - 1) : id \in finals => unread(id)}
            BY <2>1, <2>2, <2>4, <3>2
        <3> QED BY <3>1, <3>3 DEF MapHoldsTheUnanswered, unread
    <2>7. \A id \in DOMAIN req_to_client_' : req_to_client_'[id] \in Addresses
        BY <1>4 DEF RequestInv
    <2>8. /\ response_queue' \in Seq(Texts) /\ OneLast'
          /\ answered' \in [Ids -> Nat] /\ AnsweredInv'
        BY <1>1 DEF RequestInv, AnsweredInv, OneLast
    <2>9. next_request_id' \in Nat \ {0} /\ finals' \subseteq 1..(next_request_id' - 1)
        BY <1>1, <2>1, <2>2
    <2> HIDE DEF n
    <2>10. \A i \in 1..Len(response_queue') :
             /\ response_queue'[i].request_id \in 1..(next_request_id' - 1)
             /\ response_queue'[i].finished => response_queue'[i].request_id \in finals'
        BY <1>1, <2>3 DEF n
    <2> QED BY <2>6, <2>7, <2>8, <2>9, <2>10 DEF RequestInv
<1> QED BY <1>2, <1>3, <1>4

LEMMA NoRequestKeeps ==
    ASSUME RequestInv,
           UNCHANGED <<req_to_client_, next_request_id, response_queue, answered, finals>>
    PROVE  RequestInv'
BY DEF RequestInv, AnsweredInv, OneLast, MapHoldsTheUnanswered
-----------------------------------------------------------------------------
LEMMA InitHasIt == Init => Inv
<1> SUFFICES ASSUME Init PROVE Inv
    OBVIOUS
<1>1. ClientInv
    BY ServerAssumption DEF Init, ClientInv, WriteInv, AtInv, Live
<1>2. RequestInv
    <2>1. <<>> \in Seq(Texts) /\ Len(<<>>) = 0 /\ DOMAIN req_to_client_ = {} /\ 1..0 = {}
        BY DEF Init
    <2>2. AnsweredInv
        BY ServerAssumption DEF Init, AnsweredInv
    <2> QED BY <2>1, <2>2 DEF Init, RequestInv, OneLast, MapHoldsTheUnanswered
<1> QED BY <1>1, <1>2 DEF Inv

LEMMA NextKeeps == Inv /\ [Next]_vars => Inv'
<1> SUFFICES ASSUME Inv, [Next]_vars PROVE Inv'
    OBVIOUS
<1>1. CASE UNCHANGED vars
    BY <1>1, NoClientKeeps, NoRequestKeeps DEF Inv, vars, scheduler, history
<1>2. CASE ServeAsync \/ ResponsesRead
    BY <1>2, NoClientKeeps, NoRequestKeeps DEF Inv, ServeAsync, ResponsesRead, scheduler, history
<1>3. CASE OnResponse
    BY <1>3, OnResponseKeeps
<1>4. ASSUME NEW a \in Addresses, OnWrite(a) \/ OnWriteFails(a) PROVE Inv'
    <2>1. RequestInv'
        BY <1>4, NoRequestKeeps DEF Inv, OnWrite, OnWriteFails, scheduler
    <2> QED BY <1>4, <2>1, OnWriteKeeps DEF Inv
<1>5. ASSUME NEW a \in Addresses, NextLine(a) PROVE Inv'
    BY <1>5, NextLineKeeps, NextLineKeepsRequests DEF Inv
<1>6. ASSUME NEW a \in Addresses, OnReadReturns(a) PROVE Inv'
    BY <1>6, NoClientKeeps, NoRequestKeeps DEF Inv, OnReadReturns, scheduler, history
<1>7. ASSUME NEW a \in Addresses, OnClientClosed(a) PROVE Inv'
    <2>1. RequestInv'
        BY <1>7, NoRequestKeeps DEF Inv, OnClientClosed, scheduler
    <2> QED BY <1>7, <2>1, OnClientClosedKeeps DEF Inv
<1>8. ASSUME NEW a \in Addresses, OnNewConnection(a) PROVE Inv'
    <2>1. RequestInv'
        BY <1>8, NoRequestKeeps DEF Inv, OnNewConnection, scheduler
    <2> QED BY <1>8, <2>1, OnNewConnectionKeeps DEF Inv
<1>9. ASSUME NEW a \in Addresses, OnReadEnds(a) PROVE Inv'
    <2>1. RequestInv'
        BY <1>9, NoRequestKeeps DEF Inv, OnReadEnds, scheduler
    <2> QED BY <1>9, <2>1, OnReadEndsKeeps DEF Inv
<1>10. ASSUME NEW a \in Addresses, NEW bytes \in Chunks, OnRead(a, bytes) PROVE Inv'
    <2>1. RequestInv'
        BY <1>10, NoRequestKeeps DEF Inv, OnRead, scheduler
    <2> QED BY <1>10, <2>1, OnReadKeeps DEF Inv
<1>11. ASSUME NEW id \in Ids, Respond(id) PROVE Inv'
    <2>1. ClientInv'
        BY <1>11, NoClientKeeps DEF Inv, Respond, history
    <2> QED BY <1>11, <2>1, RespondKeeps DEF Inv
<1> QED BY <1>1, <1>2, <1>3, <1>4, <1>5, <1>6, <1>7, <1>8, <1>9, <1>10, <1>11
        DEF Next, EventLoop, Clients

\* Every object at an address is in order, on_read works on one that is there,
\* and the map, the responses and the requests fit, whatever the callbacks do.
THEOREM ServerInvariant == Spec => []Inv
BY InitHasIt, NextKeeps, PTL DEF Spec

\* start_write and on_write keep one write under way per client and let no text
\* wait without one, through failures of uv_write and closing handles.
THEOREM WritesOneAtATime == Spec => []OneWriteAtATime
<1>1. Inv => OneWriteAtATime
    BY DEF Inv, ClientInv, WriteInv, ClientOK, HandleOK, QueueServed, OneWriteAtATime
<1> QED BY <1>1, ServerInvariant, PTL

\* req_to_client_ has the requests whose last response on_response_async has not
\* handled, for clients that stay and for clients that leave.
THEOREM MapAlwaysHoldsTheUnanswered == Spec => []MapHoldsTheUnanswered
<1>1. Inv => MapHoldsTheUnanswered
    BY DEF Inv, RequestInv
<1> QED BY <1>1, ServerInvariant, PTL
-----------------------------------------------------------------------------
(* Bytes.  A request's line has two bytes, and no byte is counted twice: so   *)
(* there are never more requests than Ids.                                    *)

\* Of n bytes k are spent, and w[a] others wait in the buffer of client a.
Arranged(w, n, k, place, spent) ==
    /\ place \in [Addresses -> [Nat -> Nat]]
    /\ spent \in SUBSET (1..n) /\ Cardinality(spent) = k
    /\ \A a \in Addresses : \A i \in 1..w[a] : place[a][i] \in (1..n) \ spent
    /\ \A a, b \in Addresses : \A i \in 1..w[a], j \in 1..w[b] :
          place[a][i] = place[b][j] => a = b /\ i = j

Room(w, n, k) == \E place, spent : Arranged(w, n, k, place, spent)

Widths == [a \in Addresses |-> IF Live(a) THEN Len(client[a].read_buffer) ELSE 0]

BytesInv ==
    /\ received \in 0..MAX_BYTES
    /\ Room(Widths, received, 2 * (next_request_id - 1))

LEMMA RoomBounds ==
    ASSUME NEW w, NEW n \in Nat, NEW k, Room(w, n, k)
    PROVE  k \in Nat /\ k <= n
<1>1. PICK spent \in SUBSET (1..n) : Cardinality(spent) = k
    BY DEF Room, Arranged
<1>2. IsFiniteSet(1..n) /\ Cardinality(1..n) = n
    BY FS_Interval
<1>3. IsFiniteSet(spent) /\ Cardinality(spent) <= n
    BY <1>2, FS_Subset
<1> QED BY <1>1, <1>3, FS_CardinalityType

LEMMA RoomShrinks ==
    ASSUME NEW w \in [Addresses -> Nat], NEW w2 \in [Addresses -> Nat], NEW n \in Nat, NEW k,
           Room(w, n, k), \A a \in Addresses : w2[a] <= w[a]
    PROVE  Room(w2, n, k)
<1>1. \A a \in Addresses : \A i \in 1..w2[a] : i \in 1..w[a]
    OBVIOUS
<1>2. PICK place, spent : Arranged(w, n, k, place, spent)
    BY DEF Room
<1>3. Arranged(w2, n, k, place, spent)
    BY <1>1, <1>2 DEF Arranged
<1> QED BY <1>3 DEF Room

LEMMA RoomGrows ==
    ASSUME NEW w \in [Addresses -> Nat], NEW n \in Nat, NEW k, Room(w, n, k),
           NEW c \in Addresses, NEW m \in Nat
    PROVE  Room([w EXCEPT ![c] = @ + m], n + m, k)
<1> PICK place, spent : Arranged(w, n, k, place, spent)
    BY DEF Room
<1>1. /\ place \in [Addresses -> [Nat -> Nat]]
      /\ spent \in SUBSET (1..n) /\ Cardinality(spent) = k
      /\ \A a \in Addresses : \A i \in 1..w[a] : place[a][i] \in (1..n) \ spent
      /\ \A a, b \in Addresses : \A i \in 1..w[a], j \in 1..w[b] :
            place[a][i] = place[b][j] => a = b /\ i = j
    BY DEF Arranged
<1> DEFINE w2 == [w EXCEPT ![c] = @ + m]
           at2(a, i) == IF a = c /\ i > w[c] THEN n + (i - w[c]) ELSE place[a][i]
           place2 == [a \in Addresses |-> [i \in Nat |-> at2(a, i)]]
<1>2. place2 \in [Addresses -> [Nat -> Nat]]
    <2> SUFFICES ASSUME NEW a \in Addresses, NEW i \in Nat PROVE at2(a, i) \in Nat
        OBVIOUS
    <2>1. place[a][i] \in Nat
        BY <1>1
    <2> QED BY <2>1
<1>3. \A a \in Addresses, i \in Nat : place2[a][i] = at2(a, i)
    OBVIOUS
<1>4. /\ w2 \in [Addresses -> Nat] /\ w2[c] = w[c] + m
      /\ \A a \in Addresses \ {c} : w2[a] = w[a]
    OBVIOUS
<1>5. ASSUME NEW a \in Addresses, NEW i \in 1..w2[a]
      PROVE  /\ at2(a, i) \in (1..(n + m)) \ spent
             /\ \/ a = c /\ i > w[c] /\ at2(a, i) = n + (i - w[c])
                \/ i \in 1..w[a] /\ at2(a, i) = place[a][i] /\ at2(a, i) <= n
    <2>1. CASE a = c /\ i > w[c]
        <3>1. at2(a, i) = n + (i - w[c]) /\ i \in 1..(w[c] + m)
            BY <1>4, <2>1
        <3>2. n + (i - w[c]) \in 1..(n + m) /\ n + (i - w[c]) > n
            BY <2>1, <3>1
        <3>3. n + (i - w[c]) \notin spent
            BY <1>1, <3>2
        <3> QED BY <2>1, <3>1, <3>2, <3>3
    <2>2. CASE ~(a = c /\ i > w[c])
        <3>1. i \in 1..w[a]
            BY <1>4, <2>2
        <3> QED BY <1>1, <2>2, <3>1
    <2> QED BY <2>1, <2>2
<1>6. ASSUME NEW a \in Addresses, NEW b \in Addresses, NEW i \in 1..w2[a], NEW j \in 1..w2[b],
             at2(a, i) = at2(b, j)
      PROVE  a = b /\ i = j
    <2>1. i \in Nat /\ j \in Nat
        BY <1>4
    <2>2. CASE i > w[a] /\ j > w[b]
        <3>1. a = c /\ b = c /\ n + (i - w[c]) = n + (j - w[c])
            BY <1>5, <1>6, <2>2
        <3> QED BY <2>1, <3>1
    <2>3. CASE i <= w[a] /\ j <= w[b]
        <3>1. i \in 1..w[a] /\ j \in 1..w[b] /\ place[a][i] = place[b][j]
            BY <1>5, <1>6, <2>1, <2>3
        <3> QED BY <1>1, <3>1
    <2>4. CASE i > w[a] /\ j <= w[b]
        <3>1. at2(a, i) > n
            BY <1>5, <2>1, <2>4
        <3>2. at2(b, j) <= n
            BY <1>5, <2>1, <2>4
        <3> HIDE DEF at2
        <3>3. at2(a, i) \in Nat /\ at2(b, j) \in Nat
            BY <1>5
        <3> QED BY <1>6, <3>1, <3>2, <3>3
    <2>5. CASE i <= w[a] /\ j > w[b]
        <3>1. at2(b, j) > n
            BY <1>5, <2>1, <2>5
        <3>2. at2(a, i) <= n
            BY <1>5, <2>1, <2>5
        <3> HIDE DEF at2
        <3>3. at2(a, i) \in Nat /\ at2(b, j) \in Nat
            BY <1>5
        <3> QED BY <1>6, <3>1, <3>2, <3>3
    <2> QED BY <2>1, <2>2, <2>3, <2>4, <2>5
<1>7. spent \in SUBSET (1..(n + m))
    BY <1>1
<1>8. \A a \in Addresses : \A i \in 1..w2[a] : i \in Nat
    OBVIOUS
<1> HIDE DEF at2, place2, w2
<1>9. Room(w2, n + m, k)
    <2>1. \A a \in Addresses : \A i \in 1..w2[a] : place2[a][i] \in (1..(n + m)) \ spent
        BY <1>3, <1>5, <1>8
    <2>2. \A a, b \in Addresses : \A i \in 1..w2[a], j \in 1..w2[b] :
              place2[a][i] = place2[b][j] => a = b /\ i = j
        BY <1>3, <1>6, <1>8
    <2>3. Arranged(w2, n + m, k, place2, spent)
        BY <1>1, <1>2, <1>7, <2>1, <2>2 DEF Arranged
    <2> QED BY <2>3 DEF Room
<1> QED BY <1>9 DEF w2

\* Two bytes of a buffer are spent, and the rest of the line is forgotten.
LEMMA RoomSpends ==
    ASSUME NEW w \in [Addresses -> Nat], NEW n \in Nat, NEW k \in Nat, Room(w, n, k),
           NEW c \in Addresses, NEW m \in Nat, m >= 2, m <= w[c]
    PROVE  Room([w EXCEPT ![c] = @ - m], n, k + 2)
<1> PICK place, spent : Arranged(w, n, k, place, spent)
    BY DEF Room
<1>1. /\ place \in [Addresses -> [Nat -> Nat]]
      /\ spent \in SUBSET (1..n) /\ Cardinality(spent) = k
      /\ \A a \in Addresses : \A i \in 1..w[a] : place[a][i] \in (1..n) \ spent
      /\ \A a, b \in Addresses : \A i \in 1..w[a], j \in 1..w[b] :
            place[a][i] = place[b][j] => a = b /\ i = j
    BY DEF Arranged
<1> DEFINE w2 == [w EXCEPT ![c] = @ - m]
           x == place[c][w[c]]
           y == place[c][w[c] - 1]
<1>2. /\ w[c] \in 1..w[c] /\ w[c] - 1 \in 1..w[c] /\ w[c] # w[c] - 1
      /\ w2 \in [Addresses -> Nat] /\ w2[c] = w[c] - m
      /\ \A a \in Addresses \ {c} : w2[a] = w[a]
    OBVIOUS
<1>3. x \in (1..n) \ spent /\ y \in (1..n) \ spent /\ x # y
    BY <1>1, <1>2
<1>4. /\ spent \cup {x, y} \in SUBSET (1..n)
      /\ Cardinality(spent \cup {x, y}) = k + 2
    <2>0. IsFiniteSet(1..n)
        BY FS_Interval
    <2>1. IsFiniteSet(spent)
        BY <1>1, <2>0, FS_Subset
    <2>2. IsFiniteSet(spent \cup {x}) /\ Cardinality(spent \cup {x}) = k + 1
        BY <1>1, <1>3, <2>1, FS_AddElement
    <2>3. Cardinality((spent \cup {x}) \cup {y}) = (k + 1) + 1
        <3>1. y \notin spent \cup {x}
            BY <1>3
        <3> HIDE DEF x, y
        <3> QED BY <2>2, <3>1, FS_AddElement
    <2>4. (spent \cup {x}) \cup {y} = spent \cup {x, y}
        OBVIOUS
    <2>5. spent \cup {x, y} \in SUBSET (1..n)
        BY <1>1, <1>3
    <2>6. (k + 1) + 1 = k + 2
        OBVIOUS
    <2> HIDE DEF x, y
    <2> QED BY <2>3, <2>4, <2>5, <2>6
<1>5. \A a \in Addresses : \A i \in 1..w2[a] :
          i \in 1..w[a] /\ ~(a = c /\ i = w[c]) /\ ~(a = c /\ i = w[c] - 1)
    <2> SUFFICES ASSUME NEW a \in Addresses, NEW i \in 1..w2[a]
                 PROVE  i \in 1..w[a] /\ ~(a = c /\ i = w[c]) /\ ~(a = c /\ i = w[c] - 1)
        OBVIOUS
    <2>1. CASE a = c
        BY <1>2, <2>1
    <2>2. CASE a # c
        BY <1>2, <2>2
    <2> QED BY <2>1, <2>2
<1>6. \A a \in Addresses : \A i \in 1..w2[a] : place[a][i] # x /\ place[a][i] # y
    BY <1>1, <1>2, <1>5
<1>7. \A a \in Addresses : \A i \in 1..w2[a] : place[a][i] \in (1..n) \ (spent \cup {x, y})
    BY <1>1, <1>5, <1>6
<1>8. \A a, b \in Addresses : \A i \in 1..w2[a], j \in 1..w2[b] :
          place[a][i] = place[b][j] => a = b /\ i = j
    BY <1>1, <1>5
<1> HIDE DEF w2, x, y
<1>9. Room(w2, n, k + 2)
    <2>1. Arranged(w2, n, k + 2, place, spent \cup {x, y})
        BY <1>1, <1>4, <1>7, <1>8 DEF Arranged
    <2> QED BY <2>1 DEF Room
<1> QED BY <1>9 DEF w2

\* The calls that write leave the buffer alone.
LEMMA StartWriteBuffer ==
    ASSUME NEW c \in ClientType, NEW o \in StartWrite(c)
    PROVE  o.client.read_buffer = c.read_buffer
<1>1. /\ [c EXCEPT !.write_queue = Tail(@)].read_buffer = c.read_buffer
      /\ HandedOver(c).read_buffer = c.read_buffer
    BY DEF HandedOver, ClientType
<1>2. o.client \in {c, Dropped(c), HandedOver(c)}
    BY DEF StartWrite, Same
<1> QED BY <1>1, <1>2 DEF Dropped

LEMMA EnqueueWriteBuffer ==
    ASSUME NEW c \in ClientType, NEW text \in Texts, NEW o \in EnqueueWrite(c, text)
    PROVE  o.client.read_buffer = c.read_buffer
<1>1. CASE c.closed
    BY <1>1 DEF EnqueueWrite, Same
<1>2. CASE ~c.closed
    <2> DEFINE q == Append(c.write_queue, text)
               d == [c EXCEPT !.write_queue = q]
    <2>1. q \in Seq(Texts)
        BY AppendedOK DEF ClientType
    <2>2. o \in StartWrite(d)
        BY <1>2 DEF EnqueueWrite
    <2> HIDE DEF q
    <2>3. d \in ClientType /\ d.read_buffer = c.read_buffer
        BY <2>1 DEF ClientType
    <2> HIDE DEF d
    <2> QED BY <2>2, <2>3, StartWriteBuffer
<1> QED BY <1>1, <1>2

LEMMA WidthsOK ==
    ASSUME WriteInv
    PROVE  Widths \in [Addresses -> Nat]
<1> SUFFICES ASSUME NEW a \in Addresses, Live(a) PROVE Len(client[a].read_buffer) \in Nat
    BY DEF Widths
<1>1. client[a].read_buffer \in Seq({"t", "nl"})
    BY LiveClient DEF ClientType
<1> QED BY <1>1, LenProperties

LEMMA WidthsOKNext ==
    ASSUME WriteInv'
    PROVE  Widths' \in [Addresses -> Nat]
<1> SUFFICES ASSUME NEW a \in Addresses, Live(a)' PROVE Len(client'[a].read_buffer) \in Nat
    BY DEF Widths
<1>1. client'[a].read_buffer \in Seq({"t", "nl"})
    BY DEF WriteInv, Live, ClientType
<1> QED BY <1>1, LenProperties

\* The width of one client, in one state or the next.
Width(c) == IF c # Freed THEN Len(c.read_buffer) ELSE 0

LEMMA WidthIs ==
    /\ \A a \in Addresses : Widths[a] = Width(client[a])
    /\ \A a \in Addresses : Widths'[a] = Width(client'[a])
BY DEF Widths, Width, Live

LEMMA NarrowKeepsBytes ==
    ASSUME WriteInv, WriteInv', BytesInv, UNCHANGED <<received, next_request_id>>,
           \A a \in Addresses : Width(client'[a]) <= Width(client[a])
    PROVE  BytesInv'
<1>1. \A a \in Addresses : Widths'[a] <= Widths[a]
    BY WidthIs
<1>2. received \in Nat
    BY DEF BytesInv
<1>3. Room(Widths', received, 2 * (next_request_id - 1))
    BY <1>1, <1>2, WidthsOK, WidthsOKNext, RoomShrinks DEF BytesInv
<1> QED BY <1>3 DEF BytesInv

\* One object changes and its buffer does not grow.
LEMMA ChangeKeepsBytes ==
    ASSUME WriteInv, WriteInv', BytesInv, UNCHANGED <<received, next_request_id>>,
           NEW a \in Addresses, NEW d, client' = [client EXCEPT ![a] = d],
           Width(d) <= Width(client[a])
    PROVE  BytesInv'
<1>1. \A b \in Addresses : Width(client[b]) \in Nat
    BY WidthsOK, WidthIs
<1>2. ASSUME NEW b \in Addresses PROVE Width(client'[b]) <= Width(client[b])
    <2>1. CASE b = a
        BY <2>1 DEF WriteInv
    <2>2. CASE b # a
        <3>1. client'[b] = client[b]
            BY <2>2 DEF WriteInv
        <3> QED BY <1>1, <3>1
    <2> QED BY <2>1, <2>2
<1> QED BY <1>2, NarrowKeepsBytes

LEMMA SameClientsKeepBytes ==
    ASSUME WriteInv, BytesInv, UNCHANGED <<client, received, next_request_id>>
    PROVE  BytesInv'
<1>1. Widths' = Widths
    BY DEF Widths, Live
<1> QED BY <1>1 DEF BytesInv

LEMMA OnWriteKeepsBytes ==
    ASSUME ClientInv, ClientInv', BytesInv, NEW a \in Addresses, OnWrite(a) \/ OnWriteFails(a)
    PROVE  BytesInv'
<1> DEFINE c == client[a]
           d == AfterWrite(c)
<1>1. Live(a) /\ c.pending # <<>> /\ UNCHANGED <<received, next_request_id>>
      /\ \E o \in StartWrite(d) : client' = [client EXCEPT ![a] = o.client]
    BY DEF OnWrite, OnWriteFails, Becomes, history
<1>2. c \in ClientType /\ HandleOK(c) /\ c # Freed
    BY <1>1, LiveClient DEF ClientInv, ClientOK, Live
<1> HIDE DEF c
<1>3. d \in ClientType
    BY <1>1, <1>2, AfterWriteOK
<1>4. d.read_buffer = c.read_buffer
    BY <1>2 DEF AfterWrite, ClientType
<1> HIDE DEF d
<1>5. PICK o \in StartWrite(d) : client' = [client EXCEPT ![a] = o.client]
    BY <1>1
<1>6. o.client.read_buffer = c.read_buffer
    BY <1>3, <1>4, StartWriteBuffer
<1>7. Len(c.read_buffer) \in Nat
    BY <1>2, LenProperties DEF ClientType
<1>8. Width(o.client) <= Width(c)
    BY <1>2, <1>6, <1>7 DEF Width
<1> QED BY <1>1, <1>5, <1>8, ChangeKeepsBytes DEF ClientInv, c

LEMMA OnNewConnectionKeepsBytes ==
    ASSUME ClientInv, ClientInv', BytesInv, NEW a \in Addresses, OnNewConnection(a)
    PROVE  BytesInv'
<1>1. PICK failed \in BOOLEAN :
         client' = [client EXCEPT ![a] = [NewClient(accepted + 1) EXCEPT !.closing = failed]]
    BY DEF OnNewConnection
<1> DEFINE d == [NewClient(accepted + 1) EXCEPT !.closing = failed]
<1>2. d.read_buffer = <<>>
    BY DEF NewClient
<1>3. Width(d) = 0 /\ Width(client[a]) \in Nat
    BY <1>2, WidthsOK, WidthIs DEF Width, ClientInv
<1>4. UNCHANGED <<received, next_request_id>> /\ client' = [client EXCEPT ![a] = d]
    BY <1>1 DEF OnNewConnection
<1> HIDE DEF d
<1>5. Width(d) <= Width(client[a])
    BY <1>3
<1> QED BY <1>4, <1>5, ChangeKeepsBytes DEF ClientInv

LEMMA OnClientClosedKeepsBytes ==
    ASSUME ClientInv, ClientInv', BytesInv, NEW a \in Addresses, OnClientClosed(a)
    PROVE  BytesInv'
<1>1. Width(Freed) = 0 /\ Width(client[a]) \in Nat
    BY WidthsOK, WidthIs DEF Width, ClientInv
<1>2. UNCHANGED <<received, next_request_id>> /\ client' = [client EXCEPT ![a] = Freed]
    BY DEF OnClientClosed, history
<1>3. Width(Freed) <= Width(client[a])
    BY <1>1
<1> QED BY <1>2, <1>3, ChangeKeepsBytes DEF ClientInv

LEMMA OnReadEndsKeepsBytes ==
    ASSUME ClientInv, ClientInv', BytesInv, NEW a \in Addresses, OnReadEnds(a)
    PROVE  BytesInv'
<1> DEFINE c == client[a]
           d == [c EXCEPT !.closed = TRUE, !.closing = TRUE]
<1>1. c \in ClientType /\ c # Freed
    BY LiveClient DEF OnReadEnds, ClientInv, Live
<1>2. client' = [client EXCEPT ![a] = d] /\ UNCHANGED <<received, next_request_id>>
    BY DEF OnReadEnds, history
<1>3. Width(c) \in Nat
    BY WidthsOK, WidthIs DEF ClientInv
<1> HIDE DEF c
<1>4. d.read_buffer = c.read_buffer
    BY <1>1 DEF ClientType
<1>5. Width(d) <= Width(c)
    <2> HIDE DEF d
    <2> QED BY <1>1, <1>3, <1>4 DEF Width
<1> QED BY <1>2, <1>5, ChangeKeepsBytes DEF ClientInv, c

LEMMA OnReadKeepsBytes ==
    ASSUME ClientInv, ClientInv', BytesInv, NEW a \in Addresses, NEW bytes \in Chunks, OnRead(a, bytes)
    PROVE  BytesInv'
<1> DEFINE c == client[a]
           d == [c EXCEPT !.read_buffer = @ \o bytes]
           m == Len(bytes)
<1>1. c \in ClientType /\ Live(a)
    BY LiveClient DEF OnRead, ClientInv
<1>2. /\ client' = [client EXCEPT ![a] = d] /\ next_request_id' = next_request_id
      /\ received' = received + m /\ received' <= MAX_BYTES
    BY DEF OnRead
<1>3. c.read_buffer \in Seq({"t", "nl"}) /\ bytes \in Seq({"t", "nl"})
    BY <1>1, BytesOK DEF ClientType
<1>4. m \in Nat /\ Len(c.read_buffer \o bytes) = Len(c.read_buffer) + m
    <2> HIDE DEF c
    <2> QED BY <1>3, LenProperties, ConcatProperties
<1>5. client'[a] = d /\ d.read_buffer = c.read_buffer \o bytes /\ d # Freed
    <2>1. client'[a] = d
        BY <1>2 DEF ClientInv, WriteInv
    <2>2. "read_buffer" \in DOMAIN d /\ d.read_buffer = c.read_buffer \o bytes
        <3> HIDE DEF c
        <3> QED BY <1>1 DEF ClientType
    <2>3. "read_buffer" \notin DOMAIN Freed
        BY DEF Freed
    <2> HIDE DEF d
    <2> QED BY <2>1, <2>2, <2>3
<1> HIDE DEF m
<1>6. Widths'[a] = Widths[a] + m
    <2>1. Widths'[a] = Len(d.read_buffer)
        BY <1>5, WidthIs DEF Width
    <2>2. Widths[a] = Len(c.read_buffer)
        BY <1>1 DEF Widths
    <2> HIDE DEF c, d
    <2> QED BY <1>4, <1>5, <2>1, <2>2
<1>7. \A b \in Addresses \ {a} : Widths'[b] = Widths[b]
    BY <1>2, WidthIs DEF ClientInv, WriteInv
<1>8. Widths' = [Widths EXCEPT ![a] = @ + m]
    <2>1. Widths \in [Addresses -> Nat] /\ Widths' \in [Addresses -> Nat]
        BY WidthsOK, WidthsOKNext DEF ClientInv
    <2> QED BY <1>6, <1>7, <2>1
<1>9. received \in Nat
    BY DEF BytesInv
<1>10. Room([Widths EXCEPT ![a] = @ + m], received + m, 2 * (next_request_id - 1))
    BY <1>4, <1>9, WidthsOK, RoomGrows DEF BytesInv, ClientInv
<1> QED BY <1>2, <1>4, <1>8, <1>9, <1>10 DEF BytesInv

\* A request's line is taken from the buffer of its client: there was an id
\* for it.
LEMMA NextLineKeepsBytes ==
    ASSUME ClientInv, ClientInv', BytesInv, next_request_id \in Nat \ {0},
           NEW a \in Addresses, NextLine(a)
    PROVE  /\ BytesInv'
           /\ next_request_id' # next_request_id =>
                 next_request_id \in Ids /\ next_request_id' = next_request_id + 1
<1> DEFINE c == client[a]
           buffer == c.read_buffer
           pos == SelectInSeq(c.read_buffer, LAMBDA b : b = "nl")
           rest == [c EXCEPT !.read_buffer = SubSeq(@, pos + 1, Len(@))]
<1>1. at = a /\ received' = received /\ pos > 0
      /\ \/ /\ Becomes(a, EnqueueWrite(rest, Invalid))
            /\ next_request_id' = next_request_id
         \/ /\ SubSeq(c.read_buffer, 1, pos - 1) # <<>>
            /\ client' = [client EXCEPT ![a] = rest]
            /\ next_request_id' = next_request_id + 1
    BY DEF NextLine, NextId
<1>2. c \in ClientType /\ Live(a) /\ c # Freed
    BY <1>1, LiveClient DEF ClientInv, AtInv, Live
<1>3. pos \in Nat \ {0} /\ pos <= Len(buffer) /\ Len(buffer) \in Nat
      /\ buffer \in Seq({"t", "nl"})
    <2> DEFINE I == {i \in 1..Len(buffer) : buffer[i] = "nl"}
    <2>1. buffer \in Seq({"t", "nl"}) /\ Len(buffer) \in Nat
        BY <1>2, LenProperties DEF ClientType
    <2>2. I \in SUBSET Nat /\ \A i \in I : i <= Len(buffer)
        BY <2>1
    <2>3. pos = IF I # {} THEN Min(I) ELSE 0
        BY DEF SelectInSeq
    <2> HIDE DEF I, buffer
    <2>4. pos \in Nat /\ pos \in I
        <3> HIDE DEF pos
        <3> QED BY <1>1, <2>2, <2>3, LeastOK
    <2> QED BY <1>1, <2>1, <2>2, <2>4
<1> HIDE DEF pos
<1>4. SubSeq(buffer, pos + 1, Len(buffer)) \in Seq({"t", "nl"})
      /\ Len(SubSeq(buffer, pos + 1, Len(buffer))) = Len(buffer) - pos
    <2> HIDE DEF buffer
    <2> QED BY <1>3, RestOfBuffer, SubSeqProperties
<1>5. rest \in ClientType /\ Len(rest.read_buffer) = Len(buffer) - pos /\ rest # Freed
    <2>1. rest \in ClientType
        BY <1>2, <1>4 DEF ClientType
    <2>2. rest.read_buffer = SubSeq(buffer, pos + 1, Len(buffer))
        BY <1>2 DEF ClientType
    <2> HIDE DEF rest
    <2> QED BY <1>4, <2>1, <2>2, FreedIsNoClient
<1> HIDE DEF rest
<1>6. Width(c) = Len(buffer) /\ Width(rest) = Len(buffer) - pos
    BY <1>2, <1>5 DEF Width
<1> HIDE DEF buffer
<1>7. CASE /\ Becomes(a, EnqueueWrite(rest, Invalid))
           /\ next_request_id' = next_request_id
    <2>1. PICK o \in EnqueueWrite(rest, Invalid) : client' = [client EXCEPT ![a] = o.client]
        BY <1>7 DEF Becomes
    <2>2. o.client.read_buffer = rest.read_buffer
        BY <1>5, InvalidIsText, EnqueueWriteBuffer
    <2>3. Width(o.client) <= Width(c)
        <3>1. Width(o.client) \in {Len(buffer) - pos, 0}
            BY <1>5, <2>2 DEF Width
        <3> QED BY <1>3, <1>6, <3>1
    <2> QED BY <1>1, <1>7, <2>1, <2>3, ChangeKeepsBytes DEF ClientInv, c
<1>8. CASE /\ SubSeq(c.read_buffer, 1, pos - 1) # <<>>
           /\ client' = [client EXCEPT ![a] = rest]
           /\ next_request_id' = next_request_id + 1
    <2>1. pos >= 2
        <3> SUFFICES ASSUME pos = 1 PROVE SubSeq(c.read_buffer, 1, 0) = <<>>
            BY <1>3, <1>8
        <3> QED BY <1>3, SubSeqProperties DEF buffer
    <2>2. Widths'[a] = Widths[a] - pos /\ \A b \in Addresses \ {a} : Widths'[b] = Widths[b]
        BY <1>6, <1>8, WidthIs DEF ClientInv, WriteInv, c
    <2>3. Widths \in [Addresses -> Nat] /\ Widths' \in [Addresses -> Nat]
        BY WidthsOK, WidthsOKNext DEF ClientInv
    <2>4. Widths' = [Widths EXCEPT ![a] = @ - pos] /\ pos <= Widths[a]
        BY <1>3, <1>6, <2>2, <2>3, WidthIs DEF c
    <2> DEFINE k == 2 * (next_request_id - 1)
    <2>5. k \in Nat /\ k + 2 = 2 * (next_request_id' - 1) /\ received \in Nat
        BY <1>8 DEF BytesInv
    <2>6. Room(Widths', received, k + 2)
        BY <1>3, <2>1, <2>3, <2>4, <2>5, RoomSpends DEF BytesInv
    <2>7. k + 2 <= received /\ received <= MAX_BYTES /\ MAX_BYTES \in Nat
        BY <2>5, <2>6, RoomBounds, ServerAssumption DEF BytesInv
    <2>8. next_request_id <= MAX_BYTES \div 2
        <3>1. 2 * next_request_id <= MAX_BYTES
            BY <2>5, <2>7
        <3> QED BY <2>7, <3>1
    <2>9. next_request_id \in Ids
        BY <2>7, <2>8 DEF Ids
    <2> QED BY <1>1, <1>8, <2>5, <2>6, <2>9 DEF BytesInv
<1> QED BY <1>1, <1>7, <1>8

LEMMA OnResponseKeepsBytes ==
    ASSUME ClientInv, ClientInv', RequestInv, BytesInv, OnResponse
    PROVE  BytesInv'
<1> DEFINE resp == Head(response_queue)
           a == req_to_client_[resp.request_id]
<1>1. UNCHANGED <<received, next_request_id>> /\ response_queue # <<>>
    BY DEF OnResponse, history
<1>2. resp \in Texts
    BY <1>1, TailOK DEF RequestInv
<1>3. CASE client' = client
    BY <1>1, <1>3, SameClientsKeepBytes DEF ClientInv
<1>4. CASE client' # client
    <2>1. resp.request_id \in DOMAIN req_to_client_ /\ Live(a)
          /\ Becomes(a, EnqueueWrite(client[a], resp))
        BY <1>4 DEF OnResponse
    <2>2. a \in Addresses
        BY <2>1 DEF RequestInv
    <2> DEFINE c == client[a]
    <2>3. c \in ClientType /\ c # Freed
        BY <2>1, <2>2, LiveClient DEF ClientInv, Live
    <2>4. PICK o \in EnqueueWrite(c, resp) : client' = [client EXCEPT ![a] = o.client]
        BY <2>1 DEF Becomes
    <2> HIDE DEF c, resp
    <2>5. o.client.read_buffer = c.read_buffer /\ Len(c.read_buffer) \in Nat
        BY <1>2, <2>3, <2>4, EnqueueWriteBuffer, LenProperties DEF ClientType
    <2>6. Width(o.client) <= Width(c)
        BY <2>3, <2>5 DEF Width
    <2> QED BY <1>1, <2>2, <2>4, <2>6, ChangeKeepsBytes DEF ClientInv, c
<1> QED BY <1>3, <1>4
-----------------------------------------------------------------------------
(* The contract with the scheduler *)

\* Everything the contract rests on.
ContractInv == Inv /\ BytesInv

LEMMA InitHasContractInv == Init => ContractInv
<1> SUFFICES ASSUME Init PROVE ContractInv
    OBVIOUS
<1>1. BytesInv
    <2> DEFINE place == [a \in Addresses |-> [i \in Nat |-> 0]]
    <2>1. Widths = [a \in Addresses |-> 0]
        BY DEF Init, Widths, Live
    <2>2. received = 0 /\ 2 * (next_request_id - 1) = 0 /\ 0 \in 0..MAX_BYTES
        BY ServerAssumption DEF Init
    <2>3. Cardinality({}) = 0
        BY FS_EmptySet
    <2>4. Arranged(Widths, 0, 0, place, {})
        BY <2>1, <2>3 DEF Arranged
    <2> QED BY <2>2, <2>4 DEF BytesInv, Room
<1> QED BY <1>1, InitHasIt DEF ContractInv

LEMMA ContractInvKept == ContractInv /\ [Next]_vars => ContractInv'
<1> SUFFICES ASSUME ContractInv, [Next]_vars PROVE ContractInv'
    OBVIOUS
<1>1. Inv /\ Inv' /\ ClientInv /\ ClientInv' /\ WriteInv /\ WriteInv'
    BY NextKeeps DEF ContractInv, Inv, ClientInv
<1>2. BytesInv /\ RequestInv /\ next_request_id \in Nat \ {0}
    BY DEF ContractInv, Inv, RequestInv
<1>3. CASE UNCHANGED vars
    BY <1>1, <1>2, <1>3, SameClientsKeepBytes
       DEF vars, history, ContractInv
<1>4. CASE ServeAsync \/ ResponsesRead
    BY <1>1, <1>2, <1>4, SameClientsKeepBytes
       DEF ServeAsync, ResponsesRead, history, ContractInv
<1>5. CASE OnResponse
    <2>1. BytesInv'
        BY <1>1, <1>2, <1>5, OnResponseKeepsBytes
    <2> QED BY <1>1, <2>1 DEF ContractInv
<1>6. ASSUME NEW a \in Addresses,
             \/ OnWrite(a) \/ OnWriteFails(a) \/ OnNewConnection(a) \/ OnClientClosed(a)
             \/ OnReadEnds(a) \/ NextLine(a)
      PROVE  ContractInv'
    <2>1. BytesInv'
        BY <1>1, <1>2, <1>6, OnWriteKeepsBytes, OnNewConnectionKeepsBytes,
           OnClientClosedKeepsBytes, OnReadEndsKeepsBytes, NextLineKeepsBytes
    <2> QED BY <1>1, <2>1 DEF ContractInv
<1>7. ASSUME NEW a \in Addresses, OnReadReturns(a) PROVE ContractInv'
    BY <1>1, <1>2, <1>7, SameClientsKeepBytes
       DEF OnReadReturns, history, ContractInv
<1>8. ASSUME NEW a \in Addresses, NEW bytes \in Chunks, OnRead(a, bytes) PROVE ContractInv'
    <2>1. BytesInv'
        BY <1>1, <1>2, <1>8, OnReadKeepsBytes
    <2> QED BY <1>1, <2>1 DEF ContractInv
<1>9. ASSUME NEW id \in Ids, Respond(id) PROVE ContractInv'
    <2>1. BytesInv'
        BY <1>1, <1>2, <1>9, SameClientsKeepBytes DEF Respond, history
    <2> QED BY <1>1, <2>1 DEF ContractInv
<1> QED BY <1>3, <1>4, <1>5, <1>6, <1>7, <1>8, <1>9 DEF Next, EventLoop, Clients

\* The requests never outnumber Ids: each byte received is in one client's buffer
\* or was spent on the line of one request, and a line has two bytes at least.
THEOREM NeverTooManyRequests == Spec => []ContractInv
BY InitHasContractInv, ContractInvKept, PTL DEF Spec

Woken == async \/ at = "responses"

LEMMA LoopStutters ==
    ASSUME UNCHANGED <<next_request_id, answered, finals, response_queue>>, Woken' = Woken
    PROVE  [Contract!Next]_(Contract!vars)
BY DEF Contract!vars, Woken

LEMMA QuietLoop ==
    ASSUME UNCHANGED <<next_request_id, answered, finals, response_queue, async>>,
           at # "responses", at' # "responses"
    PROVE  [Contract!Next]_(Contract!vars)
<1>1. Woken' = Woken
    BY DEF Woken
<1> QED BY <1>1, LoopStutters

LEMMA NextIsOfTheContract ==
    ASSUME ContractInv, ContractInv', [Next]_vars
    PROVE  [Contract!Next]_(Contract!vars)
<1>1. /\ ClientInv /\ ClientInv' /\ BytesInv /\ RequestInv
      /\ next_request_id \in Nat \ {0}
    BY DEF ContractInv, Inv, RequestInv
<1>2. \A a \in Addresses : a # "responses"
    BY ServerAssumption
<1>3. CASE UNCHANGED vars
    <2>1. Woken' = Woken
        BY <1>3 DEF vars, Woken
    <2> QED BY <1>3, <2>1, LoopStutters DEF vars, scheduler
<1>4. CASE ServeAsync
    <2>1. Woken = TRUE /\ Woken' = TRUE
        BY <1>4 DEF ServeAsync, Woken
    <2> QED BY <1>4, <2>1, LoopStutters DEF ServeAsync, scheduler
<1>5. CASE ResponsesRead
    <2>1. Woken /\ Woken' \in BOOLEAN /\ (response_queue # <<>>)' = FALSE
        BY <1>5 DEF ResponsesRead, Woken
    <2>2. Contract!Read
        BY <1>5, <2>1 DEF Contract!Read, Woken, ResponsesRead, scheduler
    <2> QED BY <2>2 DEF Contract!Next
<1>6. CASE OnResponse
    <2>1. /\ Woken /\ Woken' = TRUE /\ (response_queue # <<>>) = TRUE
          /\ UNCHANGED <<next_request_id, answered, finals>>
        BY <1>6 DEF OnResponse, Woken, scheduler
    <2>2. (response_queue # <<>>)' \in {(response_queue # <<>>), FALSE}
        BY <2>1
    <2>3. Contract!Read
        BY <2>1, <2>2 DEF Contract!Read, Woken
    <2> QED BY <2>3 DEF Contract!Next
<1>7. ASSUME NEW a \in Addresses, OnWrite(a) \/ OnWriteFails(a) \/ OnNewConnection(a)
                                    \/ OnClientClosed(a) \/ OnReadEnds(a)
      PROVE  [Contract!Next]_(Contract!vars)
    BY <1>7, QuietLoop DEF OnWrite, OnWriteFails, OnNewConnection, OnClientClosed, OnReadEnds,
                           scheduler, Idle
<1>8. ASSUME NEW a \in Addresses, OnReadReturns(a) PROVE [Contract!Next]_(Contract!vars)
    BY <1>2, <1>8, QuietLoop DEF OnReadReturns, scheduler
<1>9. ASSUME NEW a \in Addresses, NEW bytes \in Chunks, OnRead(a, bytes)
      PROVE  [Contract!Next]_(Contract!vars)
    BY <1>2, <1>9, QuietLoop DEF OnRead, scheduler, Idle
<1>10. ASSUME NEW a \in Addresses, NextLine(a) PROVE [Contract!Next]_(Contract!vars)
    <2>1. /\ UNCHANGED <<answered, finals, response_queue, async, at>>
          /\ at # "responses"
        BY <1>2, <1>10 DEF NextLine, scheduler
    <2>2. CASE next_request_id' = next_request_id
        BY <2>1, <2>2, QuietLoop
    <2>3. CASE next_request_id' # next_request_id
        <3>1. next_request_id \in Ids /\ next_request_id' = next_request_id + 1
            BY <1>1, <1>10, <2>3, NextLineKeepsBytes
        <3>2. /\ next_request_id \notin 1..(next_request_id - 1)
              /\ 1..(next_request_id' - 1) = 1..(next_request_id - 1) \cup {next_request_id}
            BY <1>1, <3>1
        <3>3. Woken' = Woken
            BY <2>1 DEF Woken
        <3>4. Contract!Ask(next_request_id)
            BY <2>1, <3>2, <3>3 DEF Contract!Ask, Woken
        <3> QED BY <3>1, <3>4 DEF Contract!Next
    <2> QED BY <2>2, <2>3
<1>11. ASSUME NEW id \in Ids, Respond(id) PROVE [Contract!Next]_(Contract!vars)
    <2>1. id \in 1..(next_request_id - 1) /\ id \notin finals
        BY <1>1, <1>11 DEF Respond, Ids
    <2>2. /\ answered' = [answered EXCEPT ![id] = @ + 1]
          /\ finals' \in {finals, finals \cup {id}}
          /\ answered'[id] >= MAX_NEW_TOKENS => id \in finals'
        BY <1>1, <1>11, RespondKeepsAnswered DEF Respond
    <2>3. response_queue' # <<>>
        <3>1. \E r : response_queue' = Append(response_queue, r) /\ r \in Texts
            <4>1. answered[id] + 1 \in 1..MAX_NEW_TOKENS
                BY <1>1, <1>11, TokenOK
            <4> QED BY <1>11, <4>1, TextTypes DEF Respond
        <3> QED BY <1>1, <3>1, AppendedOK DEF RequestInv
    <2>4. Woken' = TRUE /\ (response_queue # <<>>)' = TRUE /\ next_request_id' = next_request_id
        BY <1>11, <2>3 DEF Respond, Woken
    <2>5. Contract!Answer(id)
        BY <2>1, <2>2, <2>4 DEF Contract!Answer, Woken
    <2> QED BY <2>5 DEF Contract!Next
<1> QED BY <1>3, <1>4, <1>5, <1>6, <1>7, <1>8, <1>9, <1>10, <1>11 DEF Next, EventLoop, Clients

\* The event loop keeps its side of the contract, whatever its clients do: it
\* hands over each request once, and after on_response_async no response is
\* left that no wakeup follows.
THEOREM ServerKeepsTheContract == Spec => ImplementsAnswers
<1>1. Init => Contract!Init
    <2> SUFFICES ASSUME Init PROVE Contract!Init
        OBVIOUS
    <2>1. 1..(next_request_id - 1) = {} /\ (response_queue # <<>>) = FALSE
        BY DEF Init
    <2>2. Woken = FALSE
        BY DEF Init, Woken
    <2> QED BY <2>1, <2>2 DEF Init, Contract!Init, Woken
<1>2. ContractInv /\ ContractInv' /\ [Next]_vars => [Contract!Next]_(Contract!vars)
    BY NextIsOfTheContract
<1> QED BY <1>1, <1>2, NeverTooManyRequests, PTL DEF Spec, ImplementsAnswers, Contract!Spec
-----------------------------------------------------------------------------
(* Types *)

HistoryInv ==
    /\ faults \in 0..MAX_FAULTS /\ async \in BOOLEAN /\ crashed \in BOOLEAN
    /\ answered \in [Ids -> 0..MAX_NEW_TOKENS]
    /\ asker \in Seq(Connections) /\ next_request_id = Len(asker) + 1
    /\ sent \in [Connections -> Seq(Texts)]

TypeInv == ContractInv /\ HistoryInv

LEMMA StartWriteFaults ==
    ASSUME faults \in 0..MAX_FAULTS, NEW c, NEW o \in StartWrite(c)
    PROVE  faults + o.failed \in 0..MAX_FAULTS
<1>1. o.failed = 0 \/ (o.failed = 1 /\ (faults + 1)..MAX_FAULTS # {})
    BY DEF StartWrite, Same
<1> QED BY <1>1, ServerAssumption

LEMMA EnqueueWriteFaults ==
    ASSUME faults \in 0..MAX_FAULTS, NEW c, NEW text, NEW o \in EnqueueWrite(c, text)
    PROVE  faults + o.failed \in 0..MAX_FAULTS
<1>1. CASE c.closed
    BY <1>1, ServerAssumption DEF EnqueueWrite, Same
<1>2. CASE ~c.closed
    BY <1>2, StartWriteFaults DEF EnqueueWrite
<1> QED BY <1>1, <1>2

LEMMA HistorySame ==
    ASSUME HistoryInv, UNCHANGED <<faults, answered, asker, next_request_id, sent>>,
           async' \in BOOLEAN, crashed' \in BOOLEAN
    PROVE  HistoryInv'
BY DEF HistoryInv

LEMMA OnWriteKeepsTypes ==
    ASSUME ClientInv, ClientInv', HistoryInv, NEW a \in Addresses, OnWrite(a) \/ OnWriteFails(a)
    PROVE  HistoryInv'
<1>1. UNCHANGED <<answered, asker, next_request_id, async, crashed>>
    BY DEF OnWrite, OnWriteFails, scheduler, history
<1>2. client[a] \in ClientType /\ client[a].pending # <<>>
    BY LiveClient DEF OnWrite, OnWriteFails, ClientInv
<1>3. faults' \in 0..MAX_FAULTS
    <2>1. CASE OnWrite(a)
        BY <2>1, StartWriteFaults DEF OnWrite, Becomes, HistoryInv
    <2>2. CASE OnWriteFails(a)
        BY <2>2, ServerAssumption DEF OnWriteFails, ClientInv, WriteInv
    <2> QED BY <2>1, <2>2
<1>4. sent' \in [Connections -> Seq(Texts)]
    <2>1. client[a].conn \in Connections /\ client[a].pending \in Seq(Texts)
        BY <1>2 DEF ClientType
    <2>2. Head(client[a].pending) \in Texts
        BY <1>2, <2>1, TailOK
    <2>3. Append(sent[client[a].conn], Head(client[a].pending)) \in Seq(Texts)
        BY <2>1, <2>2, AppendedOK DEF HistoryInv
    <2> QED BY <2>1, <2>3 DEF OnWrite, OnWriteFails, history, HistoryInv
<1> QED BY <1>1, <1>3, <1>4 DEF HistoryInv

LEMMA NextLineKeepsTypes ==
    ASSUME ClientInv, HistoryInv, NEW a \in Addresses, NextLine(a)
    PROVE  HistoryInv'
<1>1. /\ UNCHANGED <<answered, async, crashed, sent>>
      /\ \/ /\ \E c : Becomes(a, EnqueueWrite(c, Invalid))
            /\ UNCHANGED <<asker, next_request_id>>
         \/ /\ asker' = Append(asker, client[a].conn) /\ next_request_id' = next_request_id + 1
            /\ UNCHANGED faults
    BY DEF NextLine, NextId, scheduler
<1>2. CASE \E c : Becomes(a, EnqueueWrite(c, Invalid)) /\ UNCHANGED <<asker, next_request_id>>
    <2>1. faults' \in 0..MAX_FAULTS
        BY <1>2, EnqueueWriteFaults DEF Becomes, HistoryInv
    <2> QED BY <1>1, <1>2, <2>1 DEF HistoryInv
<1>3. CASE /\ asker' = Append(asker, client[a].conn) /\ next_request_id' = next_request_id + 1
           /\ UNCHANGED faults
    <2>1. client[a].conn \in Connections
        <3>1. client[a] \in ClientType
            BY LiveClient DEF NextLine, ClientInv, AtInv
        <3> QED BY <3>1 DEF ClientType
    <2>2. asker' \in Seq(Connections) /\ Len(asker') = Len(asker) + 1
        BY <1>3, <2>1, AppendedOK DEF HistoryInv
    <2> QED BY <1>1, <1>3, <2>2 DEF HistoryInv
<1> QED BY <1>1, <1>2, <1>3

LEMMA OnResponseKeepsTypes ==
    ASSUME HistoryInv, OnResponse
    PROVE  HistoryInv'
<1>1. /\ UNCHANGED <<answered, asker, next_request_id, async, sent>>
      /\ crashed' \in BOOLEAN
      /\ faults' = faults \/ \E a, c, text : Becomes(a, EnqueueWrite(c, text))
    BY DEF OnResponse, HistoryInv, scheduler, history
<1>2. faults' \in 0..MAX_FAULTS
    BY <1>1, EnqueueWriteFaults DEF Becomes, HistoryInv
<1> QED BY <1>1, <1>2 DEF HistoryInv

LEMMA RespondKeepsTypes ==
    ASSUME RequestInv, HistoryInv, NEW id \in Ids, Respond(id)
    PROVE  HistoryInv'
<1>1. /\ UNCHANGED <<faults, asker, next_request_id, sent, crashed>> /\ async' = TRUE
      /\ answered' = [answered EXCEPT ![id] = @ + 1]
    BY DEF Respond, history
<1>2. answered[id] + 1 \in 0..MAX_NEW_TOKENS
    BY TokenOK
<1> QED BY <1>1, <1>2 DEF HistoryInv

LEMMA TypeInvKept == TypeInv /\ [Next]_vars => TypeInv'
<1> SUFFICES ASSUME TypeInv, [Next]_vars PROVE TypeInv'
    OBVIOUS
<1>1. ContractInv'
    BY ContractInvKept DEF TypeInv
<1>2. ClientInv /\ ClientInv' /\ RequestInv /\ HistoryInv
    BY <1>1 DEF TypeInv, ContractInv, Inv
<1>3. CASE \/ UNCHANGED vars \/ ServeAsync \/ ResponsesRead
           \/ \E a \in Addresses : \/ OnNewConnection(a) \/ OnClientClosed(a) \/ OnReadEnds(a)
                                   \/ OnReadReturns(a) \/ \E bytes \in Chunks : OnRead(a, bytes)
    <2>1. UNCHANGED <<faults, answered, asker, next_request_id, sent, crashed>>
        BY <1>3 DEF vars, ServeAsync, ResponsesRead, OnNewConnection, OnClientClosed, OnReadEnds,
                    OnReadReturns, OnRead, scheduler, history
    <2>2. async' = async \/ async' = FALSE
        BY <1>3 DEF vars, ServeAsync, ResponsesRead, OnNewConnection, OnClientClosed, OnReadEnds,
                    OnReadReturns, OnRead, scheduler, history
    <2>3. async' \in BOOLEAN /\ crashed' \in BOOLEAN
        BY <1>2, <2>1, <2>2 DEF HistoryInv
    <2> QED BY <1>1, <1>2, <2>1, <2>3, HistorySame DEF TypeInv
<1>4. CASE OnResponse
    BY <1>1, <1>2, <1>4, OnResponseKeepsTypes DEF TypeInv
<1>5. CASE \E a \in Addresses : OnWrite(a) \/ OnWriteFails(a)
    BY <1>1, <1>2, <1>5, OnWriteKeepsTypes DEF TypeInv
<1>6. CASE \E a \in Addresses : NextLine(a)
    BY <1>1, <1>2, <1>6, NextLineKeepsTypes DEF TypeInv
<1>7. CASE \E id \in Ids : Respond(id)
    BY <1>1, <1>2, <1>7, RespondKeepsTypes DEF TypeInv
<1> QED BY <1>3, <1>4, <1>5, <1>6, <1>7 DEF Next, EventLoop, Clients

\* The bytes there are bound the requests there can be.
LEMMA RequestsAreIds ==
    ASSUME ContractInv
    PROVE  1..(next_request_id - 1) \subseteq Ids
<1>1. RequestInv /\ BytesInv
    BY DEF ContractInv, Inv
<1> DEFINE k == 2 * (next_request_id - 1)
<1>2. received \in Nat /\ received <= MAX_BYTES /\ MAX_BYTES \in Nat
      /\ next_request_id \in Nat \ {0}
    BY <1>1, ServerAssumption DEF BytesInv, RequestInv
<1>3. k <= received
    BY <1>1, <1>2, RoomBounds DEF BytesInv
<1>4. next_request_id - 1 <= MAX_BYTES \div 2
    <2>1. 2 * (next_request_id - 1) <= MAX_BYTES
        BY <1>2, <1>3
    <2> QED BY <1>2, <2>1
<1> QED BY <1>2, <1>4 DEF Ids

LEMMA TypesFollow == TypeInv => TypeOK
<1> SUFFICES ASSUME TypeInv PROVE TypeOK
    OBVIOUS
<1>1. ClientInv /\ RequestInv /\ BytesInv /\ HistoryInv
    BY DEF TypeInv, ContractInv, Inv
<1>2. \A a \in Addresses : Live(a) => client[a] \in ClientType
    BY <1>1 DEF ClientInv, WriteInv, Live
<1>3. 1..(next_request_id - 1) \subseteq Ids
    BY RequestsAreIds DEF TypeInv
<1>4. DOMAIN req_to_client_ \subseteq Ids /\ finals \subseteq Ids
    BY <1>1, <1>3 DEF RequestInv, MapHoldsTheUnanswered
<1>5. response_queue \in Seq(Responses)
    <2>1. response_queue \in Seq(Texts)
        BY <1>1 DEF RequestInv
    <2>2. \A i \in 1..Len(response_queue) : response_queue[i] \in Responses
        <3> TAKE i \in 1..Len(response_queue)
        <3>1. response_queue[i] \in Texts
            BY <2>1
        <3>2. response_queue[i].request_id \in 1..(next_request_id - 1)
            BY <1>1 DEF RequestInv
        <3>3. response_queue[i] # Invalid
            BY <3>2 DEF Invalid
        <3> QED BY <3>1, <3>3 DEF Texts
    <2> QED BY <2>1, <2>2
<1> QED BY <1>1, <1>2, <1>4, <1>5
        DEF TypeOK, ClientInv, AtInv, RequestInv, BytesInv, HistoryInv

LEMMA InitHasTypes == Init => TypeInv
<1> SUFFICES ASSUME Init PROVE HistoryInv
    BY InitHasContractInv DEF TypeInv
<1>1. /\ <<>> \in Seq(Connections) /\ Len(<<>>) = 0 /\ <<>> \in Seq(Texts)
      /\ 0 \in 0..MAX_FAULTS /\ 0 \in 0..MAX_NEW_TOKENS
    BY ServerAssumption
<1>2. faults \in 0..MAX_FAULTS /\ async \in BOOLEAN /\ crashed \in BOOLEAN
    BY <1>1 DEF Init
<1>3. answered \in [Ids -> 0..MAX_NEW_TOKENS]
    BY <1>1 DEF Init
<1>4. asker \in Seq(Connections) /\ next_request_id = Len(asker) + 1
    BY <1>1 DEF Init
<1>5. sent \in [Connections -> Seq(Texts)]
    BY <1>1 DEF Init
<1> QED BY <1>2, <1>3, <1>4, <1>5 DEF HistoryInv

\* The types of everything the server keeps; that request ids stay within Ids is
\* the part that needs the bytes to be counted.
THEOREM TypeAlwaysOK == Spec => []TypeOK
BY InitHasTypes, TypeInvKept, TypesFollow, PTL DEF Spec
-----------------------------------------------------------------------------
(* The order of the responses.  A request's responses pass from the response   *)
(* queue through the client's write queue and its pending write to what it has *)
(* been sent; InOrder says of the four what StreamInOrder says of all in one.  *)

Own(id, s) == {i \in 1..Len(s) : s[i].request_id = id}

Token(id, t) == IF t.request_id = id THEN {t.token} ELSE {}
Tokens(id, s) == {s[i].token : i \in Own(id, s)}

Sorted(id, s) == \A i, j \in Own(id, s) : i < j => s[i].token < s[j].token
Below(A, B) == \A x \in A, y \in B : x < y

InOrder(id, p, q, r, u) ==
    /\ Sorted(id, p) /\ Sorted(id, q) /\ Sorted(id, r) /\ Sorted(id, u)
    /\ Below(Tokens(id, p), Tokens(id, q)) /\ Below(Tokens(id, p), Tokens(id, r))
    /\ Below(Tokens(id, p), Tokens(id, u)) /\ Below(Tokens(id, q), Tokens(id, r))
    /\ Below(Tokens(id, q), Tokens(id, u)) /\ Below(Tokens(id, r), Tokens(id, u))

OnTheWay(id, p, q, r, u) == Tokens(id, p) \cup Tokens(id, q) \cup Tokens(id, r) \cup Tokens(id, u)

LEMMA TextIs ==
    ASSUME NEW t \in Texts
    PROVE  t.token \in Nat /\ t.request_id \in Nat
BY ServerAssumption DEF Texts, Responses, Invalid, Ids

LEMMA AppendTokens ==
    ASSUME NEW id, NEW s \in Seq(Texts), NEW t \in Texts
    PROVE  /\ Append(s, t) \in Seq(Texts)
           /\ Tokens(id, Append(s, t)) = Tokens(id, s) \cup Token(id, t)
           /\ Sorted(id, s) /\ Below(Tokens(id, s), Token(id, t)) => Sorted(id, Append(s, t))
<1> DEFINE w == Append(s, t)
           n == Len(s)
<1>1. /\ w \in Seq(Texts) /\ n \in Nat /\ Len(w) = n + 1 /\ w[n + 1] = t
      /\ \A i \in 1..n : w[i] = s[i]
    BY AppendedOK
<1> HIDE DEF w
<1>2. \A i \in 1..(n + 1) : i \in 1..n \/ i = n + 1
    BY <1>1
<1>3. 1..n \subseteq 1..(n + 1) /\ n + 1 \in 1..(n + 1)
    BY <1>1
<1>4. Tokens(id, w) = Tokens(id, s) \cup Token(id, t)
    BY <1>1, <1>2, <1>3, Zenon DEF Tokens, Token, Own, n
<1>5. ASSUME Sorted(id, s), Below(Tokens(id, s), Token(id, t)) PROVE Sorted(id, w)
    <2> SUFFICES ASSUME NEW i \in Own(id, w), NEW j \in Own(id, w), i < j
                 PROVE  w[i].token < w[j].token
        BY DEF Sorted
    <2>1. i \in 1..n /\ i \in Own(id, s) /\ w[i] = s[i]
        BY <1>1 DEF Own
    <2>2. CASE j \in 1..n
        BY <1>1, <1>5, <2>1, <2>2 DEF Own, Sorted
    <2>3. CASE j = n + 1
        BY <1>1, <1>5, <2>1, <2>3 DEF Own, Below, Tokens, Token
    <2> QED BY <1>1, <2>2, <2>3 DEF Own
<1> QED BY <1>1, <1>4, <1>5 DEF w

LEMMA TailTokens ==
    ASSUME NEW id, NEW s \in Seq(Texts), s # <<>>
    PROVE  /\ Tail(s) \in Seq(Texts) /\ Head(s) \in Texts
           /\ Tokens(id, s) = Token(id, Head(s)) \cup Tokens(id, Tail(s))
           /\ Sorted(id, s) => /\ Sorted(id, Tail(s))
                               /\ Below(Token(id, Head(s)), Tokens(id, Tail(s)))
<1> DEFINE w == Tail(s)
           m == Len(w)
           h == Head(s)
<1>1. /\ w \in Seq(Texts) /\ h \in Texts /\ m \in Nat /\ Len(s) = m + 1 /\ s[1] = h
      /\ \A i \in 1..m : w[i] = s[i + 1]
    <2>1. Len(s) \in Nat \ {0} /\ m = Len(s) - 1 /\ w \in Seq(Texts) /\ h \in Texts
          /\ \A i \in 1..m : w[i] = s[i + 1]
        BY TailOK
    <2>2. s[1] = h
        BY <2>1
    <2> HIDE DEF w, m, h
    <2> QED BY <2>1, <2>2
<1> HIDE DEF w, h
<1>2. /\ \A i \in 1..(m + 1) : i = 1 \/ (i - 1 \in 1..m /\ (i - 1) + 1 = i)
      /\ \A i \in 1..m : i + 1 \in 1..(m + 1)
      /\ 1 \in 1..(m + 1)
    BY <1>1
<1>3. Tokens(id, s) = Token(id, h) \cup Tokens(id, w)
    <2>1. ASSUME NEW x \in Tokens(id, s) PROVE x \in Token(id, h) \cup Tokens(id, w)
        <3>1. PICK i \in 1..(m + 1) : s[i].request_id = id /\ x = s[i].token
            BY <1>1, <2>1 DEF Tokens, Own
        <3>2. CASE i = 1
            BY <1>1, <3>1, <3>2 DEF Token
        <3>3. CASE i # 1
            <4>1. i - 1 \in 1..m /\ w[i - 1] = s[i]
                BY <1>1, <1>2, <3>3
            <4> QED BY <3>1, <4>1 DEF Tokens, Own
        <3> QED BY <3>2, <3>3
    <2>2. Token(id, h) \subseteq Tokens(id, s)
        BY <1>1, <1>2 DEF Tokens, Own, Token
    <2>3. Tokens(id, w) \subseteq Tokens(id, s)
        <3> SUFFICES ASSUME NEW i \in 1..m, w[i].request_id = id PROVE w[i].token \in Tokens(id, s)
            BY DEF Tokens, Own
        <3> QED BY <1>1, <1>2 DEF Tokens, Own
    <2> QED BY <2>1, <2>2, <2>3
<1>4. ASSUME Sorted(id, s) PROVE Sorted(id, w) /\ Below(Token(id, h), Tokens(id, w))
    <2>1. ASSUME NEW i \in Own(id, w), NEW j \in Own(id, w), i < j PROVE w[i].token < w[j].token
        <3>1. i + 1 \in Own(id, s) /\ j + 1 \in Own(id, s) /\ i + 1 < j + 1
              /\ w[i] = s[i + 1] /\ w[j] = s[j + 1]
            BY <1>1, <1>2, <2>1 DEF Own
        <3> QED BY <1>4, <3>1 DEF Sorted
    <2>2. ASSUME h.request_id = id, NEW j \in Own(id, w) PROVE h.token < w[j].token
        <3>1. 1 \in Own(id, s) /\ j + 1 \in Own(id, s) /\ 1 < j + 1 /\ w[j] = s[j + 1]
            BY <1>1, <1>2, <2>2 DEF Own
        <3> QED BY <1>1, <1>4, <3>1 DEF Sorted
    <2> QED BY <2>1, <2>2 DEF Sorted, Below, Token, Tokens
<1> QED BY <1>1, <1>3, <1>4 DEF w, h

LEMMA ConcatTokens ==
    ASSUME NEW id, NEW s \in Seq(Texts), NEW t \in Seq(Texts)
    PROVE  /\ s \o t \in Seq(Texts)
           /\ Tokens(id, s \o t) = Tokens(id, s) \cup Tokens(id, t)
           /\ Sorted(id, s) /\ Sorted(id, t) /\ Below(Tokens(id, s), Tokens(id, t))
                 => Sorted(id, s \o t)
<1> DEFINE w == s \o t
           m == Len(s)
           n == Len(t)
<1>1. /\ w \in Seq(Texts) /\ Len(w) = m + n /\ m \in Nat /\ n \in Nat
      /\ \A i \in 1..(m + n) : w[i] = IF i <= m THEN s[i] ELSE t[i - m]
    BY ConcatProperties
<1> HIDE DEF w, m, n
<1>2. /\ \A i \in 1..m : i \in 1..(m + n) /\ w[i] = s[i]
      /\ \A i \in 1..n : m + i \in 1..(m + n) /\ w[m + i] = t[i]
      /\ \A i \in 1..(m + n) : i \in 1..m \/ (i - m \in 1..n /\ m + (i - m) = i)
    <2>1. \A i \in 1..m : i \in 1..(m + n) /\ i <= m
        BY <1>1
    <2>2. \A i \in 1..n : m + i \in 1..(m + n) /\ ~(m + i <= m) /\ (m + i) - m = i
        BY <1>1
    <2>3. \A i \in 1..(m + n) : i \in 1..m \/ (i - m \in 1..n /\ m + (i - m) = i)
        BY <1>1
    <2> QED BY <1>1, <2>1, <2>2, <2>3
<1>3. Tokens(id, w) = Tokens(id, s) \cup Tokens(id, t)
    <2>1. ASSUME NEW i \in 1..(m + n), w[i].request_id = id
          PROVE  w[i].token \in Tokens(id, s) \cup Tokens(id, t)
        <3>1. CASE i \in 1..m
            BY <1>2, <2>1, <3>1 DEF Tokens, Own, m
        <3>2. CASE i - m \in 1..n /\ m + (i - m) = i
            <4>1. w[i] = t[i - m]
                BY <1>2, <3>2
            <4> QED BY <2>1, <3>2, <4>1 DEF Tokens, Own, n
        <3> QED BY <1>2, <3>1, <3>2
    <2>2. ASSUME NEW i \in 1..m, s[i].request_id = id PROVE s[i].token \in Tokens(id, w)
        BY <1>1, <1>2, <2>2 DEF Tokens, Own
    <2>3. ASSUME NEW i \in 1..n, t[i].request_id = id PROVE t[i].token \in Tokens(id, w)
        BY <1>1, <1>2, <2>3 DEF Tokens, Own
    <2> QED BY <1>1, <2>1, <2>2, <2>3 DEF Tokens, Own, m, n
<1>4. ASSUME Sorted(id, s), Sorted(id, t), Below(Tokens(id, s), Tokens(id, t))
      PROVE  Sorted(id, w)
    <2> SUFFICES ASSUME NEW i \in Own(id, w), NEW j \in Own(id, w), i < j
                 PROVE  w[i].token < w[j].token
        BY DEF Sorted
    <2>1. i \in 1..(m + n) /\ j \in 1..(m + n)
        BY <1>1 DEF Own
    <2>2. CASE j \in 1..m
        <3>1. i \in 1..m
            BY <1>1, <2>1, <2>2
        <3> QED BY <1>2, <1>4, <2>2, <3>1 DEF Own, Sorted, m
    <2>3. CASE i \in 1..m /\ j - m \in 1..n /\ m + (j - m) = j
        <3>1. w[i] = s[i] /\ w[j] = t[j - m]
            BY <1>2, <2>3
        <3>2. i \in Own(id, s) /\ j - m \in Own(id, t)
            BY <2>3, <3>1 DEF Own, m, n
        <3>3. s[i].token \in Tokens(id, s) /\ t[j - m].token \in Tokens(id, t)
            BY <3>2 DEF Tokens
        <3> QED BY <1>4, <3>1, <3>3 DEF Below
    <2>4. CASE i - m \in 1..n /\ m + (i - m) = i /\ j - m \in 1..n /\ m + (j - m) = j
        <3>1. w[i] = t[i - m] /\ w[j] = t[j - m] /\ i - m < j - m
            BY <1>1, <1>2, <2>1, <2>4
        <3>2. i - m \in Own(id, t) /\ j - m \in Own(id, t)
            BY <2>4, <3>1 DEF Own, n
        <3> QED BY <1>4, <3>1, <3>2 DEF Sorted
    <2> QED BY <1>2, <2>1, <2>2, <2>3, <2>4
<1> QED BY <1>1, <1>3, <1>4 DEF w

LEMMA OtherText ==
    ASSUME NEW id, NEW t, t.request_id # id
    PROVE  Token(id, t) = {}
BY DEF Token

\* The front of one queue goes to the back of the queue before it: of the write
\* queue to the pending writes, of these to what was sent, of the responses to
\* the write queue.
LEMMA HandOverKeeps ==
    ASSUME NEW id, NEW p \in Seq(Texts), NEW q \in Seq(Texts), NEW r \in Seq(Texts),
           NEW u \in Seq(Texts), InOrder(id, p, q, r, u), r # <<>>
    PROVE  /\ InOrder(id, p, Append(q, Head(r)), Tail(r), u)
           /\ OnTheWay(id, p, Append(q, Head(r)), Tail(r), u) = OnTheWay(id, p, q, r, u)
<1> DEFINE h == Head(r)
           w == Tail(r)
           b == Append(q, h)
<1>1. /\ h \in Texts
      /\ Tokens(id, r) = Token(id, h) \cup Tokens(id, w)
      /\ Sorted(id, w) /\ Below(Token(id, h), Tokens(id, w))
    BY TailTokens DEF InOrder
<1> HIDE DEF h, w
<1>2. Below(Tokens(id, q), Token(id, h))
    BY <1>1 DEF InOrder, Below
<1>3. Tokens(id, b) = Tokens(id, q) \cup Token(id, h) /\ Sorted(id, b)
    BY <1>1, <1>2, AppendTokens DEF InOrder
<1> HIDE DEF b
<1>4. InOrder(id, p, b, w, u)
    BY <1>1, <1>3 DEF InOrder, Below
<1>5. OnTheWay(id, p, b, w, u) = OnTheWay(id, p, q, r, u)
    BY <1>1, <1>3 DEF OnTheWay
<1> QED BY <1>4, <1>5 DEF b, h, w

LEMMA DropKeeps ==
    ASSUME NEW id, NEW p \in Seq(Texts), NEW q \in Seq(Texts), NEW r \in Seq(Texts),
           NEW u \in Seq(Texts), InOrder(id, p, q, r, u), r # <<>>
    PROVE  /\ InOrder(id, p, q, Tail(r), u)
           /\ OnTheWay(id, p, q, Tail(r), u) \subseteq OnTheWay(id, p, q, r, u)
<1>1. /\ Tokens(id, r) = Token(id, Head(r)) \cup Tokens(id, Tail(r))
      /\ Sorted(id, Tail(r))
    BY TailTokens DEF InOrder
<1> QED BY <1>1 DEF InOrder, Below, OnTheWay

LEMMA SentKeeps ==
    ASSUME NEW id, NEW p \in Seq(Texts), NEW q \in Seq(Texts), NEW r \in Seq(Texts),
           NEW u \in Seq(Texts), InOrder(id, p, q, r, u), q # <<>>
    PROVE  /\ InOrder(id, Append(p, Head(q)), Tail(q), r, u)
           /\ OnTheWay(id, Append(p, Head(q)), Tail(q), r, u) = OnTheWay(id, p, q, r, u)
<1> DEFINE h == Head(q)
           w == Tail(q)
           b == Append(p, h)
<1>1. /\ h \in Texts
      /\ Tokens(id, q) = Token(id, h) \cup Tokens(id, w)
      /\ Sorted(id, w) /\ Below(Token(id, h), Tokens(id, w))
    BY TailTokens DEF InOrder
<1> HIDE DEF h, w
<1>2. Below(Tokens(id, p), Token(id, h))
    BY <1>1 DEF InOrder, Below
<1>3. Tokens(id, b) = Tokens(id, p) \cup Token(id, h) /\ Sorted(id, b)
    BY <1>1, <1>2, AppendTokens DEF InOrder
<1> HIDE DEF b
<1>4. InOrder(id, b, w, r, u)
    BY <1>1, <1>3 DEF InOrder, Below
<1>5. OnTheWay(id, b, w, r, u) = OnTheWay(id, p, q, r, u)
    BY <1>1, <1>3 DEF OnTheWay
<1> QED BY <1>4, <1>5 DEF b, h, w

LEMMA WriteLostKeeps ==
    ASSUME NEW id, NEW p \in Seq(Texts), NEW q \in Seq(Texts), NEW r \in Seq(Texts),
           NEW u \in Seq(Texts), InOrder(id, p, q, r, u), q # <<>>
    PROVE  /\ InOrder(id, p, Tail(q), r, u)
           /\ OnTheWay(id, p, Tail(q), r, u) \subseteq OnTheWay(id, p, q, r, u)
<1>1. /\ Tokens(id, q) = Token(id, Head(q)) \cup Tokens(id, Tail(q))
      /\ Sorted(id, Tail(q))
    BY TailTokens DEF InOrder
<1> QED BY <1>1 DEF InOrder, Below, OnTheWay

LEMMA ReadKeeps ==
    ASSUME NEW id, NEW p \in Seq(Texts), NEW q \in Seq(Texts), NEW r \in Seq(Texts),
           NEW u \in Seq(Texts), InOrder(id, p, q, r, u), u # <<>>
    PROVE  /\ InOrder(id, p, q, Append(r, Head(u)), Tail(u))
           /\ OnTheWay(id, p, q, Append(r, Head(u)), Tail(u)) = OnTheWay(id, p, q, r, u)
<1> DEFINE h == Head(u)
           w == Tail(u)
           b == Append(r, h)
<1>1. /\ h \in Texts
      /\ Tokens(id, u) = Token(id, h) \cup Tokens(id, w)
      /\ Sorted(id, w) /\ Below(Token(id, h), Tokens(id, w))
    BY TailTokens DEF InOrder
<1> HIDE DEF h, w
<1>2. Below(Tokens(id, r), Token(id, h))
    BY <1>1 DEF InOrder, Below
<1>3. Tokens(id, b) = Tokens(id, r) \cup Token(id, h) /\ Sorted(id, b)
    BY <1>1, <1>2, AppendTokens DEF InOrder
<1> HIDE DEF b
<1>4. InOrder(id, p, q, b, w)
    BY <1>1, <1>3 DEF InOrder, Below
<1>5. OnTheWay(id, p, q, b, w) = OnTheWay(id, p, q, r, u)
    BY <1>1, <1>3 DEF OnTheWay
<1> QED BY <1>4, <1>5 DEF b, h, w

\* A text of another request changes nothing for this one.
LEMMA OtherQueuedKeeps ==
    ASSUME NEW id, NEW p \in Seq(Texts), NEW q \in Seq(Texts), NEW r \in Seq(Texts),
           NEW u \in Seq(Texts), InOrder(id, p, q, r, u),
           NEW t \in Texts, t.request_id # id
    PROVE  /\ InOrder(id, p, q, Append(r, t), u)
           /\ OnTheWay(id, p, q, Append(r, t), u) = OnTheWay(id, p, q, r, u)
<1>1. Below(Tokens(id, r), Token(id, t))
    BY OtherText DEF Below
<1>2. Tokens(id, Append(r, t)) = Tokens(id, r) /\ Sorted(id, Append(r, t))
    <2>1. Token(id, t) = {}
        BY OtherText
    <2>2. /\ Tokens(id, Append(r, t)) = Tokens(id, r) \cup Token(id, t)
          /\ Sorted(id, Append(r, t))
        BY <1>1, AppendTokens DEF InOrder
    <2> QED BY <2>1, <2>2
<1> QED BY <1>2 DEF InOrder, OnTheWay

LEMMA OtherReadKeeps ==
    ASSUME NEW id, NEW p \in Seq(Texts), NEW q \in Seq(Texts), NEW r \in Seq(Texts),
           NEW u \in Seq(Texts), InOrder(id, p, q, r, u), u # <<>>, Head(u).request_id # id
    PROVE  /\ InOrder(id, p, q, r, Tail(u))
           /\ OnTheWay(id, p, q, r, Tail(u)) = OnTheWay(id, p, q, r, u)
<1>1. Tokens(id, Tail(u)) = Tokens(id, u) /\ Sorted(id, Tail(u))
    <2>1. Token(id, Head(u)) = {}
        BY OtherText
    <2>2. /\ Tokens(id, u) = Token(id, Head(u)) \cup Tokens(id, Tail(u))
          /\ Sorted(id, Tail(u))
        BY TailTokens DEF InOrder
    <2> QED BY <2>1, <2>2
<1> QED BY <1>1 DEF InOrder, OnTheWay

\* The scheduler's next response has the next token.
LEMMA AnswerKeeps ==
    ASSUME NEW id, NEW p \in Seq(Texts), NEW q \in Seq(Texts), NEW r \in Seq(Texts),
           NEW u \in Seq(Texts), InOrder(id, p, q, r, u), NEW t \in Texts,
           Below(OnTheWay(id, p, q, r, u), Token(id, t))
    PROVE  /\ InOrder(id, p, q, r, Append(u, t))
           /\ OnTheWay(id, p, q, r, Append(u, t)) = OnTheWay(id, p, q, r, u) \cup Token(id, t)
<1>1. /\ Below(Tokens(id, p), Token(id, t)) /\ Below(Tokens(id, q), Token(id, t))
      /\ Below(Tokens(id, r), Token(id, t)) /\ Below(Tokens(id, u), Token(id, t))
    BY DEF Below, OnTheWay
<1>2. Tokens(id, Append(u, t)) = Tokens(id, u) \cup Token(id, t) /\ Sorted(id, Append(u, t))
    BY <1>1, AppendTokens DEF InOrder
<1> QED BY <1>1, <1>2 DEF InOrder, OnTheWay, Below

LEMMA NothingInOrder ==
    ASSUME NEW id, NEW p, NEW q, NEW r, NEW u,
           Own(id, p) = {}, Own(id, q) = {}, Own(id, r) = {}, Own(id, u) = {}
    PROVE  InOrder(id, p, q, r, u) /\ OnTheWay(id, p, q, r, u) = {}
<1>1. /\ Tokens(id, p) = {} /\ Tokens(id, q) = {} /\ Tokens(id, r) = {} /\ Tokens(id, u) = {}
      /\ Sorted(id, p) /\ Sorted(id, q) /\ Sorted(id, r) /\ Sorted(id, u)
    BY DEF Tokens, Sorted
<1> QED BY <1>1 DEF InOrder, OnTheWay, Below

\* The four queues one behind the other.
LEMMA OneStream ==
    ASSUME NEW id, NEW p \in Seq(Texts), NEW q \in Seq(Texts), NEW r \in Seq(Texts),
           NEW u \in Seq(Texts), InOrder(id, p, q, r, u)
    PROVE  /\ p \o q \o r \o u \in Seq(Texts)
           /\ Sorted(id, p \o q \o r \o u)
           /\ Tokens(id, p \o q \o r \o u) = OnTheWay(id, p, q, r, u)
<1> DEFINE pq == p \o q
           pqr == pq \o r
<1>1. pq \in Seq(Texts) /\ Sorted(id, pq) /\ Tokens(id, pq) = Tokens(id, p) \cup Tokens(id, q)
    BY ConcatTokens DEF InOrder
<1> HIDE DEF pq
<1>2. /\ pqr \in Seq(Texts) /\ Sorted(id, pqr)
      /\ Tokens(id, pqr) = Tokens(id, p) \cup Tokens(id, q) \cup Tokens(id, r)
    <2>1. Below(Tokens(id, pq), Tokens(id, r))
        BY <1>1 DEF InOrder, Below
    <2>2. Sorted(id, r)
        BY DEF InOrder
    <2>3. /\ pqr \in Seq(Texts) /\ Sorted(id, pqr)
          /\ Tokens(id, pqr) = Tokens(id, pq) \cup Tokens(id, r)
        BY ONLY <1>1, <2>1, <2>2, r \in Seq(Texts), ConcatTokens, Zenon
    <2> QED BY <1>1, <2>3
<1> HIDE DEF pqr
<1>3. /\ pqr \o u \in Seq(Texts) /\ Sorted(id, pqr \o u)
      /\ Tokens(id, pqr \o u) = OnTheWay(id, p, q, r, u)
    <2>1. Below(Tokens(id, pqr), Tokens(id, u))
        BY <1>2 DEF InOrder, Below
    <2>2. Sorted(id, u)
        BY DEF InOrder
    <2>3. /\ pqr \o u \in Seq(Texts) /\ Sorted(id, pqr \o u)
          /\ Tokens(id, pqr \o u) = Tokens(id, pqr) \cup Tokens(id, u)
        BY ONLY <1>2, <2>1, <2>2, u \in Seq(Texts), ConcatTokens, Zenon
    <2> QED BY <1>2, <2>3 DEF OnTheWay
<1> QED BY <1>3 DEF pqr, pq

\* Of request id nothing is on the way but answers 1..n, in order, and unless f > 0
\* writes failed all of them.
Flow(id, p, q, r, u, n, f) ==
    /\ InOrder(id, p, q, r, u)
    /\ OnTheWay(id, p, q, r, u) \subseteq 1..n
    /\ f = 0 => 1..n \subseteq OnTheWay(id, p, q, r, u)

\* Client c is d once start_write has returned; a text may be lost.
Moved(c, d, lost) ==
    /\ d.conn = c.conn /\ d.closed = c.closed /\ d.closing = c.closing
    /\ \/ d.pending = c.pending /\ d.write_queue = c.write_queue
       \/ /\ c.write_queue # <<>>
          /\ d.pending = Append(c.pending, Head(c.write_queue))
          /\ d.write_queue = Tail(c.write_queue)
       \/ /\ lost /\ c.write_queue # <<>>
          /\ d.pending = c.pending /\ d.write_queue = Tail(c.write_queue)

LEMMA StartWriteMoves ==
    ASSUME NEW c \in ClientType, NEW o \in StartWrite(c)
    PROVE  /\ Moved(c, o.client, c.closing \/ o.failed = 1)
           /\ o.failed \in {0, 1}
<1>1. CASE o = [client |-> c, failed |-> 0]
    BY <1>1 DEF Moved
<1>2. CASE c.write_queue # <<>> /\ o = [client |-> HandedOver(c), failed |-> 0]
    <2>1. /\ HandedOver(c).conn = c.conn /\ HandedOver(c).closed = c.closed
          /\ HandedOver(c).closing = c.closing
          /\ HandedOver(c).pending = Append(c.pending, Head(c.write_queue))
          /\ HandedOver(c).write_queue = Tail(c.write_queue)
        BY DEF HandedOver, ClientType
    <2> QED BY <1>2, <2>1 DEF Moved
<1>3. CASE /\ c.write_queue # <<>> /\ o.client = Dropped(c)
           /\ o.failed = 1 \/ (o.failed = 0 /\ c.closing)
    <2>1. /\ Dropped(c).conn = c.conn /\ Dropped(c).closed = c.closed
          /\ Dropped(c).closing = c.closing /\ Dropped(c).pending = c.pending
          /\ Dropped(c).write_queue = Tail(c.write_queue)
        BY DEF Dropped, ClientType
    <2> QED BY <1>3, <2>1 DEF Moved
<1> QED BY <1>1, <1>2, <1>3 DEF StartWrite, Same

LEMMA MovedTexts ==
    ASSUME NEW T, NEW c, NEW d, NEW lost, Moved(c, d, lost),
           c.pending \in Seq(T), c.write_queue \in Seq(T)
    PROVE  d.pending \in Seq(T) /\ d.write_queue \in Seq(T)
<1>1. CASE c.write_queue = <<>>
    BY <1>1 DEF Moved
<1>2. CASE c.write_queue # <<>>
    <2>1. Tail(c.write_queue) \in Seq(T) /\ Head(c.write_queue) \in T
        BY <1>2, TailOK
    <2>2. Append(c.pending, Head(c.write_queue)) \in Seq(T)
        BY <2>1, AppendedOK
    <2> QED BY <2>1, <2>2 DEF Moved
<1> QED BY <1>1, <1>2

LEMMA MovedFlow ==
    ASSUME NEW c, NEW d, NEW lost, Moved(c, d, lost),
           c.pending \in Seq(Texts), c.write_queue \in Seq(Texts),
           NEW id, NEW p \in Seq(Texts), NEW u \in Seq(Texts), NEW n, NEW f, NEW g,
           Flow(id, p, c.pending, c.write_queue, u, n, f),
           g = 0 => f = 0 /\ ~lost
    PROVE  Flow(id, p, d.pending, d.write_queue, u, n, g)
<1> DEFINE q == c.pending
           r == c.write_queue
<1>1. CASE d.pending = q /\ d.write_queue = r
    BY <1>1 DEF Flow
<1>2. CASE r # <<>> /\ d.pending = Append(q, Head(r)) /\ d.write_queue = Tail(r)
    <2> HIDE DEF q, r
    <2>1. /\ InOrder(id, p, Append(q, Head(r)), Tail(r), u)
          /\ OnTheWay(id, p, Append(q, Head(r)), Tail(r), u) = OnTheWay(id, p, q, r, u)
        BY <1>2, HandOverKeeps DEF Flow, q, r
    <2> QED BY <1>2, <2>1 DEF Flow, q, r
<1>3. CASE lost /\ r # <<>> /\ d.pending = q /\ d.write_queue = Tail(r)
    <2> HIDE DEF q, r
    <2>1. /\ InOrder(id, p, q, Tail(r), u)
          /\ OnTheWay(id, p, q, Tail(r), u) \subseteq OnTheWay(id, p, q, r, u)
        BY <1>3, DropKeeps DEF Flow, q, r
    <2> QED BY <1>3, <2>1 DEF Flow, q, r
<1> QED BY <1>1, <1>2, <1>3 DEF Moved

\* What enqueue_write makes of an open client: the text is at the back of the queue.
LEMMA EnqueueWriteMoves ==
    ASSUME NEW c \in ClientType, NEW text \in Texts, NEW o \in EnqueueWrite(c, text)
    PROVE  /\ o.failed \in {0, 1}
           /\ o.client.conn = c.conn /\ o.client.closed = c.closed /\ o.client.closing = c.closing
           /\ \/ c.closed /\ o.client = c /\ o.failed = 0
              \/ \E d \in ClientType :
                    /\ d.conn = c.conn /\ d.closing = c.closing /\ d.pending = c.pending
                    /\ d.write_queue = Append(c.write_queue, text)
                    /\ Moved(d, o.client, c.closing \/ o.failed = 1)
<1>1. CASE c.closed
    <2>1. o \in Same(c)
        BY <1>1 DEF EnqueueWrite
    <2>2. o.client = c /\ o.failed = 0
        BY <2>1 DEF Same
    <2> QED BY <1>1, <2>2
<1>2. CASE ~c.closed
    <2> DEFINE w == Append(c.write_queue, text)
               d == [c EXCEPT !.write_queue = w]
    <2>1. w \in Seq(Texts)
        BY AppendedOK DEF ClientType
    <2> HIDE DEF w
    <2>2. /\ d \in ClientType /\ d.conn = c.conn /\ d.closing = c.closing /\ d.pending = c.pending
          /\ d.write_queue = w /\ d.closed = c.closed
        BY <2>1 DEF ClientType
    <2>3. o \in StartWrite(d)
        BY <1>2 DEF EnqueueWrite, w
    <2> HIDE DEF d
    <2>4. Moved(d, o.client, c.closing \/ o.failed = 1) /\ o.failed \in {0, 1}
        BY <2>2, <2>3, StartWriteMoves
    <2>5. o.client.conn = c.conn /\ o.client.closed = c.closed /\ o.client.closing = c.closing
        BY <2>2, <2>4 DEF Moved
    <2> QED BY <2>2, <2>4, <2>5 DEF w
<1> QED BY <1>1, <1>2
-----------------------------------------------------------------------------
\* The texts of the requests there are.
Old(n) == {t \in Texts : t.request_id < n}

\* No text is of a request yet to come, and none of these has an answer.
IdsInv ==
    /\ sent \in [Connections -> Seq(Old(next_request_id))]
    /\ \A a \in Addresses : Live(a) =>
          /\ client[a].pending \in Seq(Old(next_request_id))
          /\ client[a].write_queue \in Seq(Old(next_request_id))
    /\ \A id \in Ids : id >= next_request_id => answered[id] = 0

\* Two objects have two connections, a connection's number is new when it comes,
\* and req_to_client_ names the object whose connection asked as long as it is there.
RouteInv ==
    /\ \A a \in Addresses : Live(a) =>
          client[a].conn <= accepted /\ (client[a].closed => client[a].closing)
    /\ \A a, b \in Addresses :
          Live(a) /\ Live(b) /\ client[a].conn = client[b].conn => a = b
    /\ \A id \in 1..(next_request_id - 1) : asker[id] <= accepted
    /\ \A id \in DOMAIN req_to_client_, a \in Addresses :
          Live(a) /\ asker[id] = client[a].conn => req_to_client_[id] = a

\* The last response of a request is behind its others, and none is read when the
\* map has forgotten the request.
QueueInv ==
    /\ \A i, j \in 1..Len(response_queue) :
          i < j /\ response_queue[i].request_id = response_queue[j].request_id
              => ~response_queue[i].finished
    /\ \A i \in 1..Len(response_queue) : response_queue[i].request_id \in DOMAIN req_to_client_

FlowsTo(id, c) ==
    Flow(id, sent[c.conn], c.pending, c.write_queue, response_queue, answered[id], faults)

StreamInv ==
    \A a \in Addresses : Live(a) /\ ~client[a].closing =>
        \A id \in 1..(next_request_id - 1) :
            asker[id] = client[a].conn => FlowsTo(id, client[a])

OrderInv == TypeInv /\ IdsInv /\ RouteInv /\ QueueInv /\ StreamInv

LEMMA SeqGrows ==
    ASSUME NEW S, NEW T, S \subseteq T
    PROVE  Seq(S) \subseteq Seq(T)
<1> SUFFICES ASSUME NEW s \in Seq(S) PROVE s \in Seq(T)
    OBVIOUS
<1>1. s \in [1..Len(s) -> S] /\ Len(s) \in Nat
    OBVIOUS
<1>2. s \in [1..Len(s) -> T]
    BY <1>1
<1> QED BY <1>1, <1>2

LEMMA OldGrow ==
    ASSUME NEW n, NEW m, n \in Int, m \in Int, n <= m
    PROVE  Old(n) \subseteq Old(m) /\ Seq(Old(n)) \subseteq Seq(Old(m)) /\ Seq(Old(n)) \subseteq Seq(Texts)
<1>1. Old(n) \subseteq Old(m)
    BY TextIs DEF Old
<1>2. Old(n) \subseteq Texts
    BY DEF Old
<1> QED BY <1>1, <1>2, SeqGrows

\* One object changes and keeps its connection, or goes.
LEMMA RouteKept ==
    ASSUME RouteInv, NEW a \in Addresses, client \in [Addresses -> ClientType \cup {Freed}],
           UNCHANGED <<next_request_id, asker, accepted>>,
           \A id \in DOMAIN req_to_client_' :
               id \in DOMAIN req_to_client_ /\ req_to_client_'[id] = req_to_client_[id],
           NEW d, client' = [client EXCEPT ![a] = d],
           d = Freed \/ (/\ Live(a) /\ d.conn = client[a].conn
                         /\ d.closed => d.closing)
    PROVE  RouteInv'
<1>1. /\ client'[a] = d /\ \A b \in Addresses : b # a => client'[b] = client[b]
    OBVIOUS
<1>2. \A b \in Addresses : Live(b)' => Live(b) /\ client'[b].conn = client[b].conn
                                       /\ (client'[b].closed => client'[b].closing)
    BY <1>1 DEF Live, RouteInv
<1>3. \A b, e \in Addresses : Live(b)' /\ Live(e)' /\ client'[b].conn = client'[e].conn => b = e
    BY <1>2 DEF RouteInv
<1>4. \A id \in DOMAIN req_to_client_', b \in Addresses :
         Live(b)' /\ asker'[id] = client'[b].conn => req_to_client_'[id] = b
    BY <1>2 DEF RouteInv
<1>5. /\ \A b \in Addresses : Live(b)' => client'[b].conn <= accepted'
      /\ \A id \in 1..(next_request_id' - 1) : asker'[id] <= accepted'
    BY <1>2 DEF RouteInv
<1> QED BY <1>2, <1>3, <1>4, <1>5 DEF RouteInv

\* One object changes, by a write or otherwise; the others' texts are where they were.
LEMMA StreamKept ==
    ASSUME RouteInv, StreamInv, NEW a \in Addresses,
           client \in [Addresses -> ClientType \cup {Freed}],
           UNCHANGED <<next_request_id, asker, response_queue, answered>>,
           faults' = 0 => faults = 0,
           \A n \in Connections : n # client[a].conn => sent'[n] = sent[n],
           NEW d, client' = [client EXCEPT ![a] = d],
           d # Freed /\ ~d.closing =>
               \A id \in 1..(next_request_id - 1) : asker[id] = d.conn =>
                   Flow(id, sent'[d.conn], d.pending, d.write_queue, response_queue,
                        answered[id], faults')
    PROVE  StreamInv'
<1> SUFFICES ASSUME NEW b \in Addresses, Live(b)', ~client'[b].closing,
                    NEW id \in 1..(next_request_id - 1), asker[id] = client'[b].conn
             PROVE  FlowsTo(id, client[b])'
    BY DEF StreamInv
<1>1. CASE b = a
    BY <1>1 DEF FlowsTo, Live
<1>2. CASE b # a
    <2>1. client'[b] = client[b] /\ Live(b)
        BY <1>2 DEF Live
    <2>2. client[b].conn # client[a].conn
        <3>1. CASE Live(a)
            BY <1>2, <2>1, <3>1 DEF RouteInv
        <3>2. CASE client[a] = Freed
            <4>1. client[a].conn = 0 /\ client[b] \in ClientType
                BY <2>1, <3>2 DEF Freed, Live
            <4> QED BY <4>1 DEF ClientType, Connections
        <3> QED BY <3>1, <3>2 DEF Live
    <2>3. client[b].conn \in Connections
        BY <2>1 DEF Live, ClientType
    <2>4. FlowsTo(id, client[b])
        BY <2>1 DEF StreamInv
    <2> QED BY <2>1, <2>2, <2>3, <2>4 DEF FlowsTo, Flow
<1> QED BY <1>1, <1>2

LEMMA OrderFacts ==
    ASSUME OrderInv
    PROVE  /\ client \in [Addresses -> ClientType \cup {Freed}] /\ faults \in Nat
           /\ sent \in [Connections -> Seq(Texts)] /\ response_queue \in Seq(Texts)
           /\ next_request_id \in Nat \ {0} /\ accepted \in Nat
           /\ DOMAIN req_to_client_ \subseteq 1..(next_request_id - 1)
           /\ asker \in [1..(next_request_id - 1) -> Connections]
           /\ answered \in [Ids -> Nat] /\ 1..(next_request_id - 1) \subseteq Ids
           /\ IdsInv /\ RouteInv /\ QueueInv /\ StreamInv /\ ClientInv /\ RequestInv
<1>1. ClientInv /\ RequestInv /\ HistoryInv /\ TypeOK
    BY TypesFollow DEF OrderInv, TypeInv, ContractInv, Inv
<1>2. asker \in [1..(next_request_id - 1) -> Connections]
    <2>1. asker \in Seq(Connections) /\ next_request_id = Len(asker) + 1
        BY <1>1 DEF HistoryInv
    <2>2. Len(asker) \in Nat /\ asker \in [1..Len(asker) -> Connections]
        BY <2>1
    <2> QED BY <2>1, <2>2
<1>3. 1..(next_request_id - 1) \subseteq Ids
    BY RequestsAreIds DEF OrderInv, TypeInv
<1>4. /\ client \in [Addresses -> ClientType \cup {Freed}] /\ faults \in Nat /\ accepted \in Nat
    BY <1>1 DEF ClientInv, WriteInv
<1>5. /\ response_queue \in Seq(Texts) /\ next_request_id \in Nat \ {0} /\ answered \in [Ids -> Nat]
      /\ DOMAIN req_to_client_ \subseteq 1..(next_request_id - 1)
    BY <1>1 DEF RequestInv, MapHoldsTheUnanswered
<1>6. sent \in [Connections -> Seq(Texts)]
    BY <1>1 DEF HistoryInv
<1> QED BY <1>1, <1>2, <1>3, <1>4, <1>5, <1>6 DEF OrderInv

\* An object that is there.
LEMMA TheClient ==
    ASSUME OrderInv, NEW a \in Addresses, Live(a)
    PROVE  /\ client[a] \in ClientType /\ HandleOK(client[a])
           /\ client[a].conn \in Connections /\ sent[client[a].conn] \in Seq(Texts)
           /\ client[a].pending \in Seq(Texts) /\ client[a].write_queue \in Seq(Texts)
<1>1. client[a] \in ClientType /\ HandleOK(client[a])
    BY OrderFacts, LiveClient DEF ClientInv, ClientOK
<1> QED BY <1>1, OrderFacts DEF ClientType

OrderKept == IdsInv' /\ RouteInv' /\ StreamInv'

LEMMA NothingMoves ==
    ASSUME OrderInv,
           UNCHANGED <<client, req_to_client_, next_request_id, response_queue, answered,
                       faults, accepted, asker, sent>>
    PROVE  OrderKept
<1>1. IdsInv'
    BY DEF OrderInv, IdsInv, Live
<1>2. RouteInv'
    BY DEF OrderInv, RouteInv, Live
<1>3. StreamInv'
    BY DEF OrderInv, StreamInv, FlowsTo, Live
<1> QED BY <1>1, <1>2, <1>3 DEF OrderKept

\* on_write: the oldest write is done or lost, and the next one is started.
LEMMA OnWriteInOrder ==
    ASSUME OrderInv, NEW a \in Addresses, OnWrite(a) \/ OnWriteFails(a)
    PROVE  OrderKept
<1> DEFINE c == client[a]
           d == AfterWrite(c)
           N == next_request_id
           h == Head(c.pending)
<1>1. /\ Live(a) /\ c.pending # <<>> /\ faults \in Nat
      /\ UNCHANGED <<req_to_client_, next_request_id, response_queue, answered, accepted, asker>>
    BY OrderFacts DEF OnWrite, OnWriteFails, scheduler, history
<1>2. PICK o \in StartWrite(d) :
         /\ client' = [client EXCEPT ![a] = o.client]
         /\ \/ OnWrite(a) /\ faults' = faults + o.failed
            \/ OnWriteFails(a) /\ faults' = faults + o.failed + IF c.closed THEN 0 ELSE 1
    BY DEF OnWrite, OnWriteFails, Becomes
<1>3. /\ c \in ClientType /\ HandleOK(c) /\ c.conn \in Connections
      /\ c.pending \in Seq(Old(N)) /\ c.write_queue \in Seq(Old(N))
    BY <1>1, TheClient, OrderFacts DEF IdsInv
<1>4. /\ d \in ClientType /\ d.conn = c.conn /\ d.closing = c.closing /\ d.closed = c.closed
      /\ d.pending = Tail(c.pending) /\ d.write_queue = c.write_queue
    <2>1. d \in ClientType
        BY <1>1, <1>3, AfterWriteOK
    <2> QED BY <1>3, <2>1 DEF AfterWrite, ClientType
<1>5. Moved(d, o.client, d.closing \/ o.failed = 1) /\ o.failed \in {0, 1}
    BY <1>4, StartWriteMoves
<1>6. Tail(c.pending) \in Seq(Old(N)) /\ h \in Old(N) /\ N \in Nat \ {0}
    BY <1>1, <1>3, TailOK, OrderFacts
<1>7. sent' = IF OnWrite(a) THEN [sent EXCEPT ![c.conn] = Append(@, h)] ELSE sent
    <2>1. CASE OnWrite(a)
        BY <2>1 DEF OnWrite
    <2>2. CASE ~OnWrite(a)
        BY <2>2 DEF OnWriteFails, history
    <2> QED BY <2>1, <2>2
<1> HIDE DEF c, d, h
<1>8. IdsInv'
    <2>1. o.client.pending \in Seq(Old(N)) /\ o.client.write_queue \in Seq(Old(N))
        BY <1>3, <1>4, <1>5, <1>6, MovedTexts
    <2>2. sent' \in [Connections -> Seq(Old(N))]
        <3>1. sent \in [Connections -> Seq(Old(N))]
            BY OrderFacts DEF IdsInv
        <3>2. sent[c.conn] \in Seq(Old(N))
            BY <1>3, <3>1
        <3>3. Append(sent[c.conn], h) \in Seq(Old(N))
            BY <1>6, <3>2, AppendedOK
        <3> QED BY <1>7, <3>1, <3>3
    <2>3. ASSUME NEW b \in Addresses, Live(b)'
          PROVE  client'[b].pending \in Seq(Old(N)) /\ client'[b].write_queue \in Seq(Old(N))
        BY <1>2, <2>1, <2>3, OrderFacts DEF IdsInv, Live
    <2> QED BY <1>1, <2>2, <2>3, OrderFacts DEF IdsInv
<1>9. RouteInv'
    <2>1. Live(a) /\ o.client.conn = client[a].conn /\ (o.client.closed => o.client.closing)
        BY <1>1, <1>4, <1>5, OrderFacts DEF RouteInv, Moved, c
    <2>2. \A id \in DOMAIN req_to_client_' :
             id \in DOMAIN req_to_client_ /\ req_to_client_'[id] = req_to_client_[id]
        BY <1>1
    <2> QED BY <1>1, <1>2, <2>1, <2>2, OrderFacts, RouteKept
<1>10. StreamInv'
    <2>1. ASSUME ~o.client.closing, NEW id \in 1..(N - 1), asker[id] = o.client.conn
          PROVE  Flow(id, sent'[o.client.conn], o.client.pending, o.client.write_queue,
                      response_queue, answered[id], faults')
        <3> DEFINE p == sent[c.conn]
                   q == c.pending
                   r == c.write_queue
                   u == response_queue
        <3>1. o.client.conn = c.conn /\ ~c.closing /\ c = client[a]
            BY <1>4, <1>5, <2>1 DEF Moved, c
        <3>2. Flow(id, p, q, r, u, answered[id], faults)
            BY <1>1, <2>1, <3>1, OrderFacts DEF StreamInv, FlowsTo
        <3>3. p \in Seq(Texts) /\ q \in Seq(Texts) /\ r \in Seq(Texts) /\ u \in Seq(Texts)
            BY <1>1, <3>1, TheClient, OrderFacts
        <3>4. ~c.closed
            BY <1>1, <3>1, OrderFacts DEF RouteInv
        <3> HIDE DEF p, q, r, u
        <3>5. q # <<>> /\ d.pending = Tail(q) /\ d.write_queue = r /\ h = Head(q)
            BY <1>1, <1>4 DEF q, r, h, c
        <3>6. CASE OnWrite(a)
            <4>1. sent'[c.conn] = Append(p, h)
                BY <1>3, <1>7, <3>6, OrderFacts DEF p
            <4>2. Flow(id, Append(p, h), d.pending, d.write_queue, u, answered[id], faults)
                BY <3>2, <3>3, <3>5, SentKeeps DEF Flow
            <4>3. Append(p, h) \in Seq(Texts) /\ d.pending \in Seq(Texts) /\ d.write_queue \in Seq(Texts)
                BY <3>3, <3>5, TailOK, AppendedOK
            <4>4. faults' = 0 => faults = 0 /\ ~(d.closing \/ o.failed = 1)
                BY <1>1, <1>2, <1>4, <1>5, <3>1, <3>4
            <4>5. Flow(id, Append(p, h), o.client.pending, o.client.write_queue, u, answered[id], faults')
                BY <1>5, <3>3, <4>2, <4>3, <4>4, MovedFlow
            <4> QED BY <3>1, <4>1, <4>5 DEF u
        <3>7. CASE OnWriteFails(a) /\ ~OnWrite(a)
            <4>1. sent'[c.conn] = p
                BY <1>7, <3>7 DEF p
            <4>2. Flow(id, p, d.pending, d.write_queue, u, answered[id], 1)
                <5>1. /\ InOrder(id, p, Tail(q), r, u)
                      /\ OnTheWay(id, p, Tail(q), r, u) \subseteq OnTheWay(id, p, q, r, u)
                    BY <3>2, <3>3, <3>5, WriteLostKeeps DEF Flow
                <5> QED BY <3>2, <3>5, <5>1 DEF Flow
            <4>3. d.pending \in Seq(Texts) /\ d.write_queue \in Seq(Texts)
                BY <3>3, <3>5, TailOK
            <4>4. faults' # 0
                BY <1>1, <1>2, <1>5, <3>4, <3>7
            <4>5. Flow(id, p, o.client.pending, o.client.write_queue, u, answered[id], faults')
                BY <1>5, <3>3, <4>2, <4>3, <4>4, MovedFlow
            <4> QED BY <3>1, <4>1, <4>5 DEF u
        <3> QED BY <3>6, <3>7
    <2>2. \A n \in Connections : n # client[a].conn => sent'[n] = sent[n]
        BY <1>7, OrderFacts DEF c
    <2>3. faults' = 0 => faults = 0
        BY <1>1, <1>2, <1>5
    <2> QED BY <1>1, <1>2, <2>1, <2>2, <2>3, OrderFacts, StreamKept
<1> QED BY <1>8, <1>9, <1>10 DEF OrderKept

\* A new object has a connection nobody has asked on.
LEMMA OnNewConnectionInOrder ==
    ASSUME OrderInv, NEW a \in Addresses, OnNewConnection(a)
    PROVE  OrderKept
<1>1. /\ ~Live(a) /\ accepted' = accepted + 1
      /\ UNCHANGED <<req_to_client_, next_request_id, response_queue, answered, faults, asker, sent>>
    BY DEF OnNewConnection, scheduler
<1>2. PICK failed \in BOOLEAN :
         client' = [client EXCEPT ![a] = [NewClient(accepted + 1) EXCEPT !.closing = failed]]
    BY DEF OnNewConnection
<1> DEFINE d == [NewClient(accepted + 1) EXCEPT !.closing = failed]
<1>3. /\ d.conn = accepted + 1 /\ d.pending = <<>> /\ d.write_queue = <<>>
      /\ d.closed = FALSE
    BY DEF NewClient
<1>4. client' = [client EXCEPT ![a] = d]
    BY <1>2
<1> HIDE DEF d
<1>5. accepted \in Nat /\ next_request_id \in Nat \ {0}
    BY OrderFacts
<1>6. \A b \in Addresses : Live(b)' /\ b # a => Live(b) /\ client'[b] = client[b]
    BY <1>4 DEF Live
<1>7. client'[a] = d
    BY <1>4, OrderFacts
<1>8. \A b \in Addresses : Live(b) => client[b].conn \in Nat /\ client[b].conn <= accepted
    <2> SUFFICES ASSUME NEW b \in Addresses, Live(b)
                 PROVE  client[b].conn \in Nat /\ client[b].conn <= accepted
        OBVIOUS
    <2>1. client[b].conn \in Connections
        BY TheClient
    <2> QED BY <2>1, OrderFacts DEF RouteInv, Connections
<1>9. \A id \in 1..(next_request_id - 1) : asker[id] \in Nat /\ asker[id] <= accepted
    BY OrderFacts DEF RouteInv, Connections
<1>10. \A x \in Nat : x <= accepted => x # accepted + 1 /\ x <= accepted + 1
    BY <1>5
<1>11. \A b \in Addresses : Live(b) => client[b].conn # accepted + 1 /\ client[b].conn <= accepted + 1
    BY <1>8, <1>10
<1>12. \A id \in 1..(next_request_id - 1) : asker[id] # accepted + 1 /\ asker[id] <= accepted + 1
    BY <1>9, <1>10
<1>13. IdsInv'
    <2>1. <<>> \in Seq(Old(next_request_id))
        OBVIOUS
    <2> QED BY <1>1, <1>3, <1>6, <1>7, <2>1, OrderFacts DEF IdsInv
<1>14. RouteInv'
    <2>1. \A b \in Addresses : Live(b)' =>
             client'[b].conn <= accepted + 1 /\ (client'[b].closed => client'[b].closing)
        BY <1>3, <1>5, <1>6, <1>7, <1>11, OrderFacts DEF RouteInv
    <2>2. \A b, e \in Addresses :
             Live(b)' /\ Live(e)' /\ client'[b].conn = client'[e].conn => b = e
        BY <1>3, <1>6, <1>7, <1>11, OrderFacts DEF RouteInv
    <2>3. \A id \in DOMAIN req_to_client_, b \in Addresses :
             Live(b)' /\ asker[id] = client'[b].conn => req_to_client_[id] = b
        BY <1>3, <1>6, <1>7, <1>12, OrderFacts DEF RouteInv
    <2> QED BY <1>1, <1>12, <2>1, <2>2, <2>3 DEF RouteInv
<1>15. StreamInv'
    <2> SUFFICES ASSUME NEW b \in Addresses, Live(b)', ~client'[b].closing,
                        NEW id \in 1..(next_request_id - 1), asker[id] = client'[b].conn
                 PROVE  FlowsTo(id, client[b])'
        BY <1>1 DEF StreamInv
    <2>1. Live(b) /\ client'[b] = client[b]
        BY <1>3, <1>6, <1>7, <1>12
    <2>2. FlowsTo(id, client[b])
        BY <2>1, OrderFacts DEF StreamInv
    <2> QED BY <1>1, <2>1, <2>2 DEF FlowsTo
<1> QED BY <1>13, <1>14, <1>15 DEF OrderKept

\* An object takes in bytes, closes or goes: no text moves.
LEMMA NoTextMoves ==
    ASSUME OrderInv, NEW a \in Addresses, NEW d, client' = [client EXCEPT ![a] = d],
           UNCHANGED <<req_to_client_, next_request_id, response_queue, answered, faults,
                       accepted, asker, sent>>,
           \/ d = Freed
           \/ /\ Live(a) /\ d.conn = client[a].conn /\ d.pending = client[a].pending
              /\ d.write_queue = client[a].write_queue
              /\ (d.closed => d.closing) /\ (client[a].closing => d.closing)
    PROVE  OrderKept
<1>1. IdsInv'
    <2>1. ASSUME NEW b \in Addresses, Live(b)'
          PROVE  /\ client'[b].pending \in Seq(Old(next_request_id))
                 /\ client'[b].write_queue \in Seq(Old(next_request_id))
        BY <2>1, OrderFacts DEF IdsInv, Live
    <2> QED BY <2>1, OrderFacts DEF IdsInv
<1>2. RouteInv'
    BY OrderFacts, RouteKept
<1>3. StreamInv'
    <2>1. ASSUME d # Freed, ~d.closing, NEW id \in 1..(next_request_id - 1), asker[id] = d.conn
          PROVE  Flow(id, sent'[d.conn], d.pending, d.write_queue, response_queue,
                      answered[id], faults')
        BY <2>1, OrderFacts DEF StreamInv, FlowsTo
    <2> QED BY <2>1, OrderFacts, StreamKept
<1> QED BY <1>1, <1>2, <1>3 DEF OrderKept

LEMMA QuietClientInOrder ==
    ASSUME OrderInv, NEW a \in Addresses,
           OnReadEnds(a) \/ OnClientClosed(a) \/ \E bytes \in Chunks : OnRead(a, bytes)
    PROVE  OrderKept
<1>1. /\ Live(a)
      /\ UNCHANGED <<req_to_client_, next_request_id, response_queue, answered, faults,
                     accepted, asker, sent>>
    BY DEF OnReadEnds, OnClientClosed, OnRead, scheduler, history
<1>2. client[a] \in ClientType /\ (client[a].closed => client[a].closing)
    BY <1>1, TheClient, OrderFacts DEF RouteInv
<1>3. CASE OnReadEnds(a)
    <2> DEFINE d == [client[a] EXCEPT !.closed = TRUE, !.closing = TRUE]
    <2>1. client' = [client EXCEPT ![a] = d]
        BY <1>3 DEF OnReadEnds
    <2>2. /\ d.conn = client[a].conn /\ d.pending = client[a].pending
          /\ d.write_queue = client[a].write_queue /\ d.closing = TRUE
        BY <1>2 DEF ClientType
    <2> HIDE DEF d
    <2> QED BY <1>1, <2>1, <2>2, NoTextMoves
<1>4. CASE OnClientClosed(a)
    <2>1. client' = [client EXCEPT ![a] = Freed]
        BY <1>4 DEF OnClientClosed
    <2> QED BY <1>1, <2>1, NoTextMoves
<1>5. ASSUME NEW bytes \in Chunks, OnRead(a, bytes) PROVE OrderKept
    <2> DEFINE d == [client[a] EXCEPT !.read_buffer = @ \o bytes]
    <2>1. client' = [client EXCEPT ![a] = d]
        BY <1>5 DEF OnRead
    <2>2. /\ d.conn = client[a].conn /\ d.pending = client[a].pending
          /\ d.write_queue = client[a].write_queue /\ d.closing = client[a].closing
          /\ d.closed = client[a].closed
        BY <1>2 DEF ClientType
    <2> HIDE DEF d
    <2>3. d.closed => d.closing
        BY <1>2, <2>2
    <2> QED BY <1>1, <2>1, <2>2, <2>3, NoTextMoves
<1> QED BY <1>3, <1>4, <1>5

\* An open client c takes text t of some request at the back of its queue: the
\* stream of a request of its own that is in order with t there stays so.
LEMMA EnqueuedFlow ==
    ASSUME NEW c \in ClientType, NEW t \in Texts, NEW o \in EnqueueWrite(c, t),
           c.closed => c.closing, ~o.client.closing,
           NEW id, NEW p \in Seq(Texts), NEW u \in Seq(Texts), NEW n, NEW f, f \in Nat,
           Flow(id, p, c.pending, Append(c.write_queue, t), u, n, f)
    PROVE  Flow(id, p, o.client.pending, o.client.write_queue, u, n, f + o.failed)
<1>1. PICK d \in ClientType :
         /\ d.pending = c.pending /\ d.write_queue = Append(c.write_queue, t)
         /\ Moved(d, o.client, c.closing \/ o.failed = 1) /\ ~c.closing
    BY EnqueueWriteMoves
<1>2. o.failed \in {0, 1}
    BY EnqueueWriteMoves
<1> DEFINE g == f + o.failed
           lost == c.closing \/ o.failed = 1
<1>3. g = 0 => f = 0 /\ ~lost
    BY <1>1, <1>2
<1>4. d.pending \in Seq(Texts) /\ d.write_queue \in Seq(Texts)
    BY DEF ClientType
<1>5. Moved(d, o.client, lost) /\ Flow(id, p, d.pending, d.write_queue, u, n, f)
    BY <1>1
<1> HIDE DEF g, lost
<1>6. Flow(id, p, o.client.pending, o.client.write_queue, u, n, g)
    BY ONLY <1>3, <1>4, <1>5, MovedFlow, p \in Seq(Texts), u \in Seq(Texts), Zenon
<1> QED BY <1>6 DEF g

LEMMA EnqueuedTexts ==
    ASSUME NEW T, NEW c \in ClientType, NEW t \in Texts, t \in T, NEW o \in EnqueueWrite(c, t),
           c.pending \in Seq(T), c.write_queue \in Seq(T)
    PROVE  o.client.pending \in Seq(T) /\ o.client.write_queue \in Seq(T)
<1>1. CASE o.client = c
    BY <1>1
<1>2. CASE \E d \in ClientType :
         /\ d.pending = c.pending /\ d.write_queue = Append(c.write_queue, t)
         /\ Moved(d, o.client, c.closing \/ o.failed = 1)
    <2>1. Append(c.write_queue, t) \in Seq(T)
        BY AppendedOK
    <2> QED BY <1>2, <2>1, MovedTexts
<1> QED BY <1>1, <1>2, EnqueueWriteMoves

\* "invalid request" is no response: it moves nobody's.
LEMMA RefusedInOrder ==
    ASSUME OrderInv, NEW a \in Addresses, Live(a), NEW c \in ClientType,
           c.conn = client[a].conn, c.closing = client[a].closing, c.closed = client[a].closed,
           c.pending = client[a].pending, c.write_queue = client[a].write_queue,
           Becomes(a, EnqueueWrite(c, Invalid)),
           UNCHANGED <<req_to_client_, next_request_id, response_queue, answered, accepted,
                       asker, sent>>
    PROVE  OrderKept
<1>1. PICK o \in EnqueueWrite(c, Invalid) :
         client' = [client EXCEPT ![a] = o.client] /\ faults' = faults + o.failed
    BY DEF Becomes
<1>2. Invalid \in Texts /\ Invalid.request_id = 0
    BY InvalidIsText DEF Invalid
<1>3. /\ o.client.conn = c.conn /\ o.client.closed = c.closed /\ o.client.closing = c.closing
      /\ o.failed \in {0, 1} /\ faults \in Nat /\ next_request_id \in Nat \ {0}
    BY <1>2, EnqueueWriteMoves, OrderFacts
<1>4. IdsInv'
    <2>1. /\ Invalid \in Old(next_request_id)
          /\ c.pending \in Seq(Old(next_request_id)) /\ c.write_queue \in Seq(Old(next_request_id))
        BY <1>2, <1>3, OrderFacts DEF Old, IdsInv
    <2>2. /\ o.client.pending \in Seq(Old(next_request_id))
          /\ o.client.write_queue \in Seq(Old(next_request_id))
        BY <1>2, <2>1, EnqueuedTexts
    <2>3. ASSUME NEW b \in Addresses, Live(b)'
          PROVE  /\ client'[b].pending \in Seq(Old(next_request_id))
                 /\ client'[b].write_queue \in Seq(Old(next_request_id))
        BY <1>1, <2>2, <2>3, OrderFacts DEF IdsInv, Live
    <2> QED BY <2>3, OrderFacts DEF IdsInv
<1>5. RouteInv'
    <2>1. o.client.conn = client[a].conn /\ (o.client.closed => o.client.closing)
        BY <1>3, OrderFacts DEF RouteInv
    <2> QED BY <1>1, <2>1, OrderFacts, RouteKept
<1>6. StreamInv'
    <2>1. ASSUME ~o.client.closing, NEW id \in 1..(next_request_id - 1), asker[id] = o.client.conn
          PROVE  Flow(id, sent'[o.client.conn], o.client.pending, o.client.write_queue,
                      response_queue, answered[id], faults')
        <3> DEFINE p == sent[c.conn]
                   u == response_queue
        <3>1. p \in Seq(Texts) /\ u \in Seq(Texts) /\ c.pending \in Seq(Texts) /\ c.write_queue \in Seq(Texts)
            BY OrderFacts DEF ClientType
        <3>2. Flow(id, p, c.pending, c.write_queue, u, answered[id], faults)
            BY <1>3, <2>1, OrderFacts DEF StreamInv, FlowsTo
        <3> HIDE DEF p, u
        <3>3. Invalid.request_id # id
            BY <1>2
        <3>4. /\ InOrder(id, p, c.pending, Append(c.write_queue, Invalid), u)
              /\ OnTheWay(id, p, c.pending, Append(c.write_queue, Invalid), u)
                     = OnTheWay(id, p, c.pending, c.write_queue, u)
            BY <1>2, <3>1, <3>2, <3>3, OtherQueuedKeeps DEF Flow
        <3>5. Flow(id, p, c.pending, Append(c.write_queue, Invalid), u, answered[id], faults)
            BY <3>2, <3>4 DEF Flow
        <3>6. c.closed => c.closing
            BY OrderFacts DEF RouteInv
        <3>7. Flow(id, p, o.client.pending, o.client.write_queue, u, answered[id], faults + o.failed)
            BY <1>2, <1>3, <2>1, <3>1, <3>5, <3>6, EnqueuedFlow
        <3> QED BY <1>1, <1>3, <3>7 DEF p, u
    <2>2. faults' = 0 => faults = 0
        BY <1>1, <1>3
    <2> QED BY <1>1, <2>1, <2>2, OrderFacts, StreamKept
<1> QED BY <1>4, <1>5, <1>6 DEF OrderKept

\* A new request goes to the object it came from and has nothing on the way.
LEMMA AcceptedInOrder ==
    ASSUME OrderInv, 1..(next_request_id' - 1) \subseteq Ids, NEW a \in Addresses, Live(a), NEW c \in ClientType,
           c.conn = client[a].conn, c.closing = client[a].closing, c.closed = client[a].closed,
           c.pending = client[a].pending, c.write_queue = client[a].write_queue,
           client' = [client EXCEPT ![a] = c],
           req_to_client_' = [id \in DOMAIN req_to_client_ \cup {next_request_id} |->
                                 IF id = next_request_id THEN a ELSE req_to_client_[id]],
           asker' = Append(asker, c.conn), next_request_id' = next_request_id + 1,
           UNCHANGED <<response_queue, answered, accepted, sent, faults>>
    PROVE  OrderKept
<1> DEFINE N == next_request_id
<1>1. /\ N \in Nat \ {0} /\ next_request_id' - 1 = N /\ 1..N = 1..(N - 1) \cup {N} /\ N \notin 1..(N - 1)
      /\ DOMAIN req_to_client_ \subseteq 1..(N - 1)
    BY OrderFacts
<1>2. /\ asker'[N] = c.conn /\ \A id \in 1..(N - 1) : asker'[id] = asker[id]
    <2>1. asker \in Seq(Connections) /\ N = Len(asker) + 1 /\ c.conn \in Connections
        BY DEF OrderInv, TypeInv, HistoryInv, ClientType
    <2>2. Len(asker) \in Nat /\ Len(asker) = N - 1
        BY <2>1
    <2> QED BY <2>1, <2>2, AppendedOK
<1>3. N \in Ids /\ answered[N] = 0
    <2>1. N \in Ids /\ N >= N
        BY <1>1
    <2> QED BY <2>1, OrderFacts DEF IdsInv
<1>4. \A b \in Addresses : Live(b)' => /\ Live(b) /\ client'[b].conn = client[b].conn
                                       /\ client'[b].closing = client[b].closing
                                       /\ client'[b].closed = client[b].closed
                                       /\ client'[b].pending = client[b].pending
                                       /\ client'[b].write_queue = client[b].write_queue
    BY OrderFacts DEF Live
<1>5. IdsInv'
    <2>1. Seq(Old(N)) \subseteq Seq(Old(N + 1))
        <3>1. N \in Int /\ N + 1 \in Int /\ N <= N + 1
            BY <1>1
        <3> HIDE DEF N
        <3> QED BY <3>1, OldGrow
    <2>2. sent' \in [Connections -> Seq(Old(N + 1))]
        BY <2>1, OrderFacts DEF IdsInv
    <2>3. \A b \in Addresses : Live(b)' =>
             client'[b].pending \in Seq(Old(N + 1)) /\ client'[b].write_queue \in Seq(Old(N + 1))
        BY <1>4, <2>1, OrderFacts DEF IdsInv
    <2>4. \A id \in Ids : id >= N + 1 => answered'[id] = 0
        BY <1>1, OrderFacts DEF IdsInv, Ids
    <2> QED BY <2>2, <2>3, <2>4 DEF IdsInv
<1>6. RouteInv'
    <2>1. \A id \in 1..N : asker'[id] <= accepted
        BY <1>1, <1>2, OrderFacts DEF RouteInv
    <2>2. ASSUME NEW id \in DOMAIN req_to_client_', NEW b \in Addresses,
                 Live(b)', asker'[id] = client'[b].conn
          PROVE  req_to_client_'[id] = b
        <3>1. CASE id = N
            BY <1>1, <1>2, <1>4, <2>2, <3>1, OrderFacts DEF RouteInv
        <3>2. CASE id # N
            <4>1. id \in DOMAIN req_to_client_ /\ req_to_client_'[id] = req_to_client_[id]
                BY <2>2, <3>2
            <4>2. asker[id] = client[b].conn /\ Live(b)
                BY <1>1, <1>2, <1>4, <2>2, <4>1
            <4> QED BY <4>1, <4>2, OrderFacts DEF RouteInv
        <3> QED BY <3>1, <3>2
    <2>3. \A b \in Addresses : Live(b)' =>
             client'[b].conn <= accepted /\ (client'[b].closed => client'[b].closing)
        BY <1>4, OrderFacts DEF RouteInv
    <2>4. \A b, e \in Addresses :
             Live(b)' /\ Live(e)' /\ client'[b].conn = client'[e].conn => b = e
        BY <1>4, OrderFacts DEF RouteInv
    <2>5. /\ \A k \in 1..(next_request_id' - 1) : asker'[k] <= accepted'
          /\ accepted' = accepted
        BY <1>1, <2>1
    <2> QED BY ONLY <2>2, <2>3, <2>4, <2>5 DEF RouteInv
<1>7. StreamInv'
    <2> SUFFICES ASSUME NEW b \in Addresses, Live(b)', ~client'[b].closing,
                        NEW id \in 1..N, asker'[id] = client'[b].conn
                 PROVE  FlowsTo(id, client[b])'
        BY <1>1 DEF StreamInv
    <2>1. /\ Live(b) /\ ~client[b].closing /\ client'[b].conn = client[b].conn
          /\ client'[b].pending = client[b].pending
          /\ client'[b].write_queue = client[b].write_queue
        BY <1>4
    <2>2. CASE id # N
        <3>1. id \in 1..(N - 1) /\ asker[id] = client[b].conn
            BY <1>1, <1>2, <2>1, <2>2
        <3>2. FlowsTo(id, client[b])
            BY <2>1, <3>1, OrderFacts DEF StreamInv
        <3> QED BY <2>1, <3>2 DEF FlowsTo
    <2>3. CASE id = N
        <3> DEFINE p == sent[client[b].conn]
                   q == client[b].pending
                   r == client[b].write_queue
                   u == response_queue
        <3>1. p \in Seq(Old(N)) /\ q \in Seq(Old(N)) /\ r \in Seq(Old(N))
            BY <2>1, TheClient, OrderFacts DEF IdsInv
        <3>2. \A i \in 1..Len(u) : u[i].request_id # N
            <4>1. \A i \in 1..Len(u) : u[i].request_id \in 1..(N - 1)
                BY OrderFacts DEF RequestInv
            <4> QED BY <1>1, <4>1
        <3> HIDE DEF p, q, r, u
        <3>3. \A s \in Seq(Old(N)) : Own(N, s) = {}
            <4> SUFFICES ASSUME NEW s \in Seq(Old(N)), NEW i \in 1..Len(s) PROVE s[i].request_id # N
                BY DEF Own
            <4>1. s[i] \in Old(N)
                OBVIOUS
            <4> HIDE DEF N
            <4> QED BY <1>1, <4>1, TextIs DEF Old
        <3>4. Own(N, u) = {}
            BY <3>2 DEF Own
        <3>5. InOrder(N, p, q, r, u) /\ OnTheWay(N, p, q, r, u) = {}
            BY <3>1, <3>3, <3>4, NothingInOrder
        <3>6. Flow(N, p, q, r, u, 0, faults)
            BY <3>5 DEF Flow
        <3> QED BY <1>3, <2>1, <2>3, <3>6 DEF FlowsTo, p, q, r, u
    <2> QED BY <2>2, <2>3
<1> QED BY <1>5, <1>6, <1>7 DEF OrderKept

LEMMA NextLineInOrder ==
    ASSUME OrderInv, 1..(next_request_id' - 1) \subseteq Ids, NEW a \in Addresses, NextLine(a)
    PROVE  OrderKept
<1> DEFINE c == client[a]
           pos == SelectInSeq(c.read_buffer, LAMBDA b : b = "nl")
           rest == [c EXCEPT !.read_buffer = SubSeq(@, pos + 1, Len(@))]
<1>1. /\ UNCHANGED <<response_queue, answered, accepted, sent>>
      /\ \/ /\ Becomes(a, EnqueueWrite(rest, Invalid))
            /\ UNCHANGED <<req_to_client_, next_request_id, asker>>
         \/ /\ client' = [client EXCEPT ![a] = rest]
            /\ req_to_client_' = [id \in DOMAIN req_to_client_ \cup {next_request_id} |->
                                     IF id = next_request_id THEN a ELSE req_to_client_[id]]
            /\ asker' = Append(asker, c.conn)
            /\ next_request_id' = next_request_id + 1
            /\ UNCHANGED faults
    BY DEF NextLine, NextId, scheduler
<1>2. at = a /\ pos > 0
    BY DEF NextLine
<1>3. Live(a) /\ c \in ClientType
    BY <1>2, OrderFacts, TheClient DEF ClientInv, AtInv
<1>4. SubSeq(c.read_buffer, pos + 1, Len(c.read_buffer)) \in Seq({"t", "nl"})
    <2> DEFINE I == {i \in 1..Len(c.read_buffer) : c.read_buffer[i] = "nl"}
    <2>1. I \in SUBSET Nat /\ c.read_buffer \in Seq({"t", "nl"})
        BY <1>3 DEF ClientType
    <2>2. pos = IF I # {} THEN Min(I) ELSE 0
        BY DEF SelectInSeq
    <2> HIDE DEF I, pos
    <2>3. pos \in Nat
        BY <2>1, <2>2, LeastOK
    <2>4. pos \in Nat \ {0}
        BY <1>2, <2>3
    <2> QED BY <2>1, <2>4, RestOfBuffer
<1> HIDE DEF pos
<1>5. /\ rest \in ClientType /\ rest.conn = c.conn /\ rest.closing = c.closing
      /\ rest.closed = c.closed /\ rest.pending = c.pending /\ rest.write_queue = c.write_queue
    BY <1>3, <1>4 DEF ClientType
<1> HIDE DEF rest
<1>6. CASE /\ Becomes(a, EnqueueWrite(rest, Invalid))
           /\ UNCHANGED <<req_to_client_, next_request_id, asker>>
    BY <1>1, <1>3, <1>5, <1>6, RefusedInOrder
<1>7. CASE /\ client' = [client EXCEPT ![a] = rest]
           /\ req_to_client_' = [id \in DOMAIN req_to_client_ \cup {next_request_id} |->
                                    IF id = next_request_id THEN a ELSE req_to_client_[id]]
           /\ asker' = Append(asker, c.conn)
           /\ next_request_id' = next_request_id + 1
           /\ UNCHANGED faults
    <2>1. asker' = Append(asker, rest.conn)
        BY <1>5, <1>7
    <2>2. UNCHANGED <<response_queue, answered, accepted, sent, faults>>
        BY <1>1, <1>7
    <2> QED BY <1>3, <1>5, <1>7, <2>1, <2>2, AcceptedInOrder
<1> QED BY <1>1, <1>6, <1>7

\* The response the scheduler pushes.
LEMMA RespondIs ==
    ASSUME OrderInv, NEW id \in Ids, Respond(id)
    PROVE  /\ id \in 1..(next_request_id - 1) /\ id \notin finals /\ answered[id] \in Nat
           /\ answered' = [answered EXCEPT ![id] = @ + 1]
           /\ UNCHANGED <<client, req_to_client_, next_request_id, faults, accepted, asker, sent>>
           /\ \E t \in Texts : /\ t.request_id = id /\ t.token = answered[id] + 1
                               /\ response_queue' = Append(response_queue, t)
<1>1. PICK finished \in BOOLEAN :
         response_queue' = Append(response_queue,
             [request_id |-> id, token |-> answered[id] + 1, finished |-> finished])
    BY DEF Respond
<1> DEFINE t == [request_id |-> id, token |-> answered[id] + 1, finished |-> finished]
<1>2. t \in Texts /\ t.request_id = id /\ t.token = answered[id] + 1
    BY OrderFacts, TokenOK, TextTypes
<1>3. response_queue' = Append(response_queue, t)
    BY <1>1
<1> HIDE DEF t
<1>4. id \in 1..(next_request_id - 1)
    BY OrderFacts DEF Respond, Ids
<1>5. id \notin finals /\ answered[id] \in Nat /\ answered' = [answered EXCEPT ![id] = @ + 1]
    BY OrderFacts DEF Respond
<1>6. UNCHANGED <<client, req_to_client_, next_request_id, faults, accepted, asker, sent>>
    BY DEF Respond, history
<1> QED BY <1>2, <1>3, <1>4, <1>5, <1>6

LEMMA RespondInOrder ==
    ASSUME OrderInv, NEW id \in Ids, Respond(id)
    PROVE  OrderKept
<1>1. /\ id \in 1..(next_request_id - 1) /\ answered[id] \in Nat
      /\ answered' = [answered EXCEPT ![id] = @ + 1]
      /\ UNCHANGED <<client, req_to_client_, next_request_id, faults, accepted, asker, sent>>
    BY RespondIs
<1>2. PICK t \in Texts : /\ t.request_id = id /\ t.token = answered[id] + 1
                         /\ response_queue' = Append(response_queue, t)
    BY RespondIs
<1>3. next_request_id \in Nat \ {0} /\ answered \in [Ids -> Nat] /\ response_queue \in Seq(Texts)
      /\ 1..(next_request_id - 1) \subseteq Ids
    BY OrderFacts
<1>4. IdsInv'
    <2>1. \A x \in Ids : x >= next_request_id => answered'[x] = 0
        BY <1>1, <1>3, OrderFacts DEF IdsInv
    <2> QED BY <1>1, <2>1, OrderFacts DEF IdsInv, Live
<1>5. RouteInv'
    BY <1>1, OrderFacts DEF RouteInv, Live
<1>6. StreamInv'
    <2> SUFFICES ASSUME NEW a \in Addresses, Live(a), ~client[a].closing,
                        NEW k \in 1..(next_request_id - 1), asker[k] = client[a].conn
                 PROVE  FlowsTo(k, client[a])'
        BY <1>1 DEF StreamInv, Live
    <2> DEFINE p == sent[client[a].conn]
               q == client[a].pending
               r == client[a].write_queue
               u == response_queue
               n == answered[k]
    <2>1. Flow(k, p, q, r, u, n, faults)
        BY OrderFacts DEF StreamInv, FlowsTo
    <2>2. p \in Seq(Texts) /\ q \in Seq(Texts) /\ r \in Seq(Texts) /\ u \in Seq(Texts) /\ n \in Nat
        BY <1>3, TheClient
    <2>3. answered'[k] = IF k = id THEN n + 1 ELSE n
        BY <1>1, <1>3
    <2>4. Token(k, t) = IF k = id THEN {n + 1} ELSE {}
        BY <1>2 DEF Token
    <2> HIDE DEF p, q, r, u, n
    <2>5. /\ InOrder(k, p, q, r, Append(u, t))
          /\ OnTheWay(k, p, q, r, Append(u, t)) = OnTheWay(k, p, q, r, u) \cup Token(k, t)
        <3>1. InOrder(k, p, q, r, u) /\ OnTheWay(k, p, q, r, u) \subseteq 1..n
            BY <2>1 DEF Flow
        <3>2. Below(OnTheWay(k, p, q, r, u), Token(k, t))
            BY <2>2, <2>4, <3>1 DEF Below
        <3> QED BY <2>2, <3>1, <3>2, AnswerKeeps
    <2>6. 1..(n + 1) = 1..n \cup {n + 1}
        BY <2>2
    <2>7. Flow(k, p, q, r, Append(u, t), answered'[k], faults)
        <3>1. CASE k = id
            <4> DEFINE W == OnTheWay(k, p, q, r, u)
                       V == OnTheWay(k, p, q, r, Append(u, t))
            <4>1. W \subseteq 1..n /\ (faults = 0 => 1..n \subseteq W)
                BY <2>1 DEF Flow
            <4>2. V = W \cup {n + 1} /\ answered'[k] = n + 1
                BY <2>3, <2>4, <2>5, <3>1
            <4> HIDE DEF V, W
            <4>3. V \subseteq 1..(n + 1) /\ (faults = 0 => 1..(n + 1) \subseteq V)
                BY <2>6, <4>1, <4>2
            <4> QED BY <2>5, <4>2, <4>3 DEF Flow, V
        <3>2. CASE k # id
            BY <2>1, <2>3, <2>4, <2>5, <3>2 DEF Flow
        <3> QED BY <3>1, <3>2
    <2> QED BY <1>1, <1>2, <2>7 DEF FlowsTo, p, q, r, u
<1> QED BY <1>4, <1>5, <1>6 DEF OrderKept

\* A response goes from the queue to the client that asked, when it is there.
LEMMA OnResponseInOrder ==
    ASSUME OrderInv, OnResponse
    PROVE  OrderKept
<1> DEFINE resp == Head(response_queue)
           id == resp.request_id
           a == req_to_client_[id]
           N == next_request_id
<1>1. /\ response_queue # <<>> /\ response_queue' = Tail(response_queue)
      /\ UNCHANGED <<next_request_id, answered, accepted, asker, sent>>
    BY DEF OnResponse, scheduler, history
<1>2. /\ response_queue \in Seq(Texts) /\ resp \in Texts /\ N \in Nat \ {0} /\ faults \in Nat
    BY <1>1, TailOK, OrderFacts
<1>3. id \in DOMAIN req_to_client_ /\ id \in 1..(N - 1) /\ a \in Addresses
    <2>1. 1 \in 1..Len(response_queue) /\ response_queue[1] = resp
        <3>1. Len(response_queue) \in Nat \ {0}
            BY <1>1, <1>2, TailOK
        <3> QED BY <3>1
    <2>2. id \in DOMAIN req_to_client_
        BY <2>1, OrderFacts DEF QueueInv
    <2> QED BY <2>2, OrderFacts DEF RequestInv
<1>4. req_to_client_' = AfterResponse(resp)
    BY <1>3 DEF OnResponse
<1>5. \/ Live(a) /\ Becomes(a, EnqueueWrite(client[a], resp))
      \/ ~Live(a) /\ UNCHANGED <<client, faults>>
    BY <1>3 DEF OnResponse
<1>6. \A k \in DOMAIN req_to_client_' :
         k \in DOMAIN req_to_client_ /\ req_to_client_'[k] = req_to_client_[k]
    BY <1>4 DEF AfterResponse
<1>7. resp \in Old(N)
    BY <1>2, <1>3 DEF Old
<1> HIDE DEF resp, a
\* The other requests' streams, but for the client.
<1>8. ASSUME NEW b \in Addresses, Live(b), ~client[b].closing,
             NEW k \in 1..(N - 1), asker[k] = client[b].conn, k # id
      PROVE  Flow(k, sent[client[b].conn], client[b].pending, client[b].write_queue,
                  Tail(response_queue), answered[k], faults)
    <2> DEFINE p == sent[client[b].conn]
               q == client[b].pending
               r == client[b].write_queue
    <2>1. Flow(k, p, q, r, response_queue, answered[k], faults)
        BY <1>8, OrderFacts DEF StreamInv, FlowsTo
    <2>2. p \in Seq(Texts) /\ q \in Seq(Texts) /\ r \in Seq(Texts)
        BY <1>8, TheClient
    <2> HIDE DEF p, q, r
    <2>3. Head(response_queue).request_id # k
        BY <1>8 DEF resp
    <2>4. /\ InOrder(k, p, q, r, Tail(response_queue))
          /\ OnTheWay(k, p, q, r, Tail(response_queue)) = OnTheWay(k, p, q, r, response_queue)
        BY <1>1, <1>2, <2>1, <2>2, <2>3, OtherReadKeeps DEF Flow
    <2>5. Flow(k, p, q, r, Tail(response_queue), answered[k], faults)
        BY <2>1, <2>4 DEF Flow
    <2> QED BY <2>5 DEF p, q, r
<1>9. CASE ~Live(a) /\ UNCHANGED <<client, faults>>
    <2>1. IdsInv'
        BY <1>1, <1>9, OrderFacts DEF IdsInv, Live
    <2>2. RouteInv'
        BY <1>1, <1>6, <1>9, OrderFacts DEF RouteInv, Live
    <2>3. StreamInv'
        <3> SUFFICES ASSUME NEW b \in Addresses, Live(b), ~client[b].closing,
                            NEW k \in 1..(N - 1), asker[k] = client[b].conn
                     PROVE  FlowsTo(k, client[b])'
            BY <1>1, <1>9 DEF StreamInv, Live
        <3>1. k # id
            BY <1>3, <1>9, OrderFacts DEF RouteInv, a
        <3> QED BY <1>1, <1>8, <1>9, <3>1 DEF FlowsTo
    <2> QED BY <2>1, <2>2, <2>3 DEF OrderKept
<1>10. CASE Live(a) /\ Becomes(a, EnqueueWrite(client[a], resp))
    <2> DEFINE c == client[a]
    <2>1. PICK o \in EnqueueWrite(c, resp) :
             client' = [client EXCEPT ![a] = o.client] /\ faults' = faults + o.failed
        BY <1>10 DEF Becomes
    <2>2. c \in ClientType /\ c.pending \in Seq(Texts) /\ c.write_queue \in Seq(Texts)
          /\ sent[c.conn] \in Seq(Texts) /\ (c.closed => c.closing)
        BY <1>3, <1>10, TheClient, OrderFacts DEF RouteInv
    <2>3. /\ o.failed \in {0, 1} /\ o.client.conn = c.conn /\ o.client.closed = c.closed
          /\ o.client.closing = c.closing
        BY <1>2, <2>2, EnqueueWriteMoves
    <2>4. faults' = 0 => faults = 0
        BY <1>2, <2>1, <2>3
    <2>5. \A b \in Addresses : b # a => client'[b] = client[b]
        BY <2>1, OrderFacts
    <2>6. client'[a] = o.client
        BY <1>3, <2>1, OrderFacts
    <2>7. IdsInv'
        <3>1. o.client.pending \in Seq(Old(N)) /\ o.client.write_queue \in Seq(Old(N))
            <4>1. c.pending \in Seq(Old(N)) /\ c.write_queue \in Seq(Old(N))
                BY <1>3, <1>10, OrderFacts DEF IdsInv
            <4> QED BY <1>2, <1>7, <2>2, <4>1, EnqueuedTexts
        <3>2. ASSUME NEW b \in Addresses, Live(b)'
              PROVE  client'[b].pending \in Seq(Old(N)) /\ client'[b].write_queue \in Seq(Old(N))
            BY <2>5, <2>6, <3>1, <3>2, OrderFacts DEF IdsInv, Live
        <3> QED BY <1>1, <3>2, OrderFacts DEF IdsInv
    <2>8. RouteInv'
        <3>1. o.client.conn = client[a].conn /\ (o.client.closed => o.client.closing)
            BY <2>2, <2>3
        <3> QED BY <1>1, <1>3, <1>6, <1>10, <2>1, <3>1, OrderFacts, RouteKept
    <2>9. StreamInv'
        <3> SUFFICES ASSUME NEW b \in Addresses, Live(b)', ~client'[b].closing,
                            NEW k \in 1..(N - 1), asker[k] = client'[b].conn
                     PROVE  FlowsTo(k, client[b])'
            BY <1>1 DEF StreamInv
        <3>1. /\ Live(b) /\ ~client[b].closing /\ client'[b].conn = client[b].conn
            BY <1>10, <2>3, <2>5, <2>6 DEF Live
        <3>2. CASE b # a
            <4>1. k # id
                BY <1>3, <3>1, <3>2, OrderFacts DEF RouteInv, a
            <4>2. Flow(k, sent[client[b].conn], client[b].pending, client[b].write_queue,
                       Tail(response_queue), answered[k], faults)
                BY <1>8, <3>1, <4>1
            <4> QED BY <1>1, <2>4, <2>5, <3>2, <4>2 DEF FlowsTo, Flow
        <3>3. CASE b = a
            <4> DEFINE p == sent[c.conn]
                       q == c.pending
                       r == c.write_queue
                       u == Tail(response_queue)
            <4>1. u \in Seq(Texts)
                BY <1>1, <1>2, TailOK
            <4>2. Flow(k, p, q, Append(r, resp), u, answered[k], faults)
                <5>1. CASE k = id
                    <6>1. Flow(k, p, q, r, response_queue, answered[k], faults)
                        BY <3>1, <3>3, OrderFacts DEF StreamInv, FlowsTo
                    <6> HIDE DEF c, p, q, r
                    <6>2. p \in Seq(Texts) /\ q \in Seq(Texts) /\ r \in Seq(Texts)
                        BY <2>2 DEF p, q, r
                    <6>3. /\ InOrder(k, p, q, Append(r, resp), u)
                          /\ OnTheWay(k, p, q, Append(r, resp), u) = OnTheWay(k, p, q, r, response_queue)
                        BY <1>1, <1>2, <6>1, <6>2, ReadKeeps DEF Flow, resp
                    <6> QED BY <6>1, <6>3 DEF Flow
                <5>2. CASE k # id
                    <6>1. Flow(k, p, q, r, u, answered[k], faults)
                        BY <1>8, <3>1, <3>3, <5>2
                    <6> HIDE DEF c, p, q, r, u
                    <6>2. p \in Seq(Texts) /\ q \in Seq(Texts) /\ r \in Seq(Texts)
                        BY <2>2 DEF p, q, r
                    <6>3. /\ InOrder(k, p, q, Append(r, resp), u)
                          /\ OnTheWay(k, p, q, Append(r, resp), u) = OnTheWay(k, p, q, r, u)
                        BY <1>2, <4>1, <5>2, <6>1, <6>2, OtherQueuedKeeps DEF Flow
                    <6> QED BY <6>1, <6>3 DEF Flow
                <5> QED BY <5>1, <5>2
            <4>3. ~o.client.closing
                BY <2>6, <3>3
            <4>4. Flow(k, p, o.client.pending, o.client.write_queue, u, answered[k], faults + o.failed)
                <5>1. p \in Seq(Texts)
                    BY <2>2
                <5> HIDE DEF c, p, u
                <5>2. Flow(k, p, c.pending, Append(c.write_queue, resp), u, answered[k], faults)
                    BY <4>2
                <5> QED BY <1>2, <2>2, <4>1, <4>3, <5>1, <5>2, EnqueuedFlow
            <4> QED BY <1>1, <2>1, <2>3, <2>6, <3>3, <4>4 DEF FlowsTo
        <3> QED BY <3>2, <3>3
    <2> QED BY <2>7, <2>8, <2>9 DEF OrderKept
<1> QED BY <1>5, <1>9, <1>10

LEMMA RespondKeepsQueue ==
    ASSUME OrderInv, NEW id \in Ids, Respond(id)
    PROVE  QueueInv'
<1> DEFINE u == response_queue
           n == Len(u)
<1>1. /\ id \in 1..(next_request_id - 1) /\ id \notin finals
      /\ req_to_client_' = req_to_client_
    BY RespondIs
<1>2. PICK t \in Texts : t.request_id = id /\ u' = Append(u, t)
    BY RespondIs
<1>3. n \in Nat /\ Len(u') = n + 1 /\ u'[n + 1] = t /\ \A i \in 1..n : u'[i] = u[i]
    BY <1>2, AppendedOK, OrderFacts
<1>4. id \in DOMAIN req_to_client_
    BY <1>1, OrderFacts DEF RequestInv, MapHoldsTheUnanswered
<1>5. \A i \in 1..n : u[i].request_id = id => ~u[i].finished
    BY <1>1, OrderFacts DEF RequestInv
<1>6. /\ \A i, j \in 1..n : i < j /\ u[i].request_id = u[j].request_id => ~u[i].finished
      /\ \A i \in 1..n : u[i].request_id \in DOMAIN req_to_client_
    BY OrderFacts DEF QueueInv
<1> HIDE DEF u, n
<1>7. \A i \in 1..(n + 1) : i \in 1..n \/ i = n + 1
    BY <1>3
<1>8. \A i, j \in 1..(n + 1) : i < j => i \in 1..n
    BY <1>3
<1>9. \A i \in 1..(n + 1) : u'[i].request_id \in DOMAIN req_to_client_
    BY <1>2, <1>3, <1>4, <1>6, <1>7
<1>10. ASSUME NEW i \in 1..(n + 1), NEW j \in 1..(n + 1), i < j, u'[i].request_id = u'[j].request_id
       PROVE  ~u'[i].finished
    <2>1. i \in 1..n /\ u'[i] = u[i]
        BY <1>3, <1>8, <1>10
    <2>2. CASE j \in 1..n
        BY <1>3, <1>6, <1>10, <2>1, <2>2
    <2>3. CASE j = n + 1
        BY <1>2, <1>3, <1>5, <1>10, <2>1, <2>3
    <2> QED BY <1>7, <2>2, <2>3
<1> QED BY <1>1, <1>3, <1>9, <1>10 DEF QueueInv, u

LEMMA OnResponseKeepsQueue ==
    ASSUME OrderInv, OnResponse
    PROVE  QueueInv'
<1> DEFINE u == response_queue
           m == Len(u')
           resp == Head(u)
           id == resp.request_id
<1>1. /\ u # <<>> /\ u' = Tail(u) /\ u \in Seq(Texts)
    BY OrderFacts DEF OnResponse
<1>2. /\ m \in Nat /\ Len(u) = m + 1 /\ u[1] = resp /\ \A i \in 1..m : u'[i] = u[i + 1]
    <2>1. u' \in Seq(Texts) /\ Len(u') = Len(u) - 1 /\ Len(u) \in Nat \ {0}
          /\ \A i \in 1..Len(u') : u'[i] = u[i + 1]
        BY <1>1, TailOK
    <2> HIDE DEF u
    <2> QED BY <2>1
<1>3. /\ \A i, j \in 1..(m + 1) : i < j /\ u[i].request_id = u[j].request_id => ~u[i].finished
      /\ \A i \in 1..(m + 1) : u[i].request_id \in DOMAIN req_to_client_
    BY <1>2, OrderFacts DEF QueueInv
<1>4. \A i \in 1..m : i + 1 \in 1..(m + 1) /\ 1 < i + 1
    BY <1>2
<1>5. 1 \in 1..(m + 1)
    BY <1>2
<1>6. id \in DOMAIN req_to_client_
    BY <1>2, <1>3, <1>5
<1>7. req_to_client_' = AfterResponse(resp)
    BY <1>6 DEF OnResponse
<1> HIDE DEF u, m, resp
<1>8. ASSUME NEW i \in 1..m PROVE u'[i].request_id \in DOMAIN req_to_client_'
    <2>1. u'[i] = u[i + 1] /\ u[i + 1].request_id \in DOMAIN req_to_client_
        BY <1>2, <1>3, <1>4
    <2>2. resp.finished => u[i + 1].request_id # id
        BY <1>2, <1>3, <1>4, <1>5
    <2> QED BY <1>7, <2>1, <2>2 DEF AfterResponse
<1>9. ASSUME NEW i \in 1..m, NEW j \in 1..m, i < j, u'[i].request_id = u'[j].request_id
      PROVE  ~u'[i].finished
    <2>1. i + 1 < j + 1
        BY <1>9
    <2> QED BY <1>2, <1>3, <1>4, <1>9, <2>1
<1> QED BY <1>8, <1>9 DEF QueueInv, u, m

LEMMA QueueKept ==
    ASSUME QueueInv, response_queue' = response_queue,
           DOMAIN req_to_client_ \subseteq DOMAIN req_to_client_'
    PROVE  QueueInv'
BY DEF QueueInv

LEMMA InitInOrder == Init => TypeInv /\ IdsInv /\ RouteInv /\ QueueInv /\ StreamInv
<1> SUFFICES ASSUME Init PROVE TypeInv /\ IdsInv /\ RouteInv /\ QueueInv /\ StreamInv
    OBVIOUS
<1>1. \A a \in Addresses : ~Live(a)
    BY DEF Init, Live
<1>2. next_request_id = 1 /\ 1..0 = {} /\ 1 - 1 = 0
    BY DEF Init
<1>3. <<>> \in Seq(Old(next_request_id)) /\ Len(<<>>) = 0
    OBVIOUS
<1>4. IdsInv
    BY <1>1, <1>3 DEF Init, IdsInv
<1>5. RouteInv
    BY <1>1, <1>2 DEF Init, RouteInv
<1>6. QueueInv
    BY <1>2, <1>3 DEF Init, QueueInv
<1>7. StreamInv
    BY <1>1 DEF StreamInv
<1> QED BY <1>4, <1>5, <1>6, <1>7, InitHasTypes

LEMMA RequestsStayIds == TypeInv' => (1..(next_request_id - 1) \subseteq Ids)'
<1>1. TypeInv => 1..(next_request_id - 1) \subseteq Ids
    BY RequestsAreIds DEF TypeInv
<1> QED BY <1>1, PTL

LEMMA OrderInvKept == OrderInv /\ [Next]_vars => OrderInv'
<1> SUFFICES ASSUME OrderInv, [Next]_vars PROVE OrderInv'
    OBVIOUS
<1>1. TypeInv'
    BY TypeInvKept DEF OrderInv
<1>2. 1..(next_request_id' - 1) \subseteq Ids
    BY <1>1, RequestsStayIds DEF Ids
<1>3. QueueInv
    BY OrderFacts
<1>4. CASE \/ UNCHANGED vars \/ ServeAsync \/ ResponsesRead
           \/ \E a \in Addresses : OnReadReturns(a)
    <2>1. UNCHANGED <<client, req_to_client_, next_request_id, response_queue, answered,
                      faults, accepted, asker, sent>>
        BY <1>4 DEF vars, ServeAsync, ResponsesRead, OnReadReturns, scheduler, history
    <2> QED BY <1>1, <1>3, <2>1, NothingMoves, QueueKept DEF OrderKept, OrderInv
<1>5. ASSUME NEW a \in Addresses, OnWrite(a) \/ OnWriteFails(a) PROVE OrderInv'
    <2>1. UNCHANGED <<req_to_client_, response_queue>>
        BY <1>5 DEF OnWrite, OnWriteFails
    <2> QED BY <1>1, <1>3, <1>5, <2>1, OnWriteInOrder, QueueKept DEF OrderKept, OrderInv
<1>6. ASSUME NEW a \in Addresses, OnNewConnection(a) PROVE OrderInv'
    <2>1. UNCHANGED <<req_to_client_, response_queue>>
        BY <1>6 DEF OnNewConnection
    <2> QED BY <1>1, <1>3, <1>6, <2>1, OnNewConnectionInOrder, QueueKept DEF OrderKept, OrderInv
<1>7. ASSUME NEW a \in Addresses,
             OnReadEnds(a) \/ OnClientClosed(a) \/ \E bytes \in Chunks : OnRead(a, bytes)
      PROVE  OrderInv'
    <2>1. UNCHANGED <<req_to_client_, response_queue>>
        BY <1>7 DEF OnReadEnds, OnClientClosed, OnRead
    <2> QED BY <1>1, <1>3, <1>7, <2>1, QuietClientInOrder, QueueKept DEF OrderKept, OrderInv
<1>8. ASSUME NEW a \in Addresses, NextLine(a) PROVE OrderInv'
    <2>1. response_queue' = response_queue /\ DOMAIN req_to_client_ \subseteq DOMAIN req_to_client_'
        BY <1>8 DEF NextLine
    <2> QED BY <1>1, <1>2, <1>3, <1>8, <2>1, NextLineInOrder, QueueKept DEF OrderKept, OrderInv
<1>9. CASE OnResponse
    BY <1>1, <1>9, OnResponseInOrder, OnResponseKeepsQueue DEF OrderKept, OrderInv
<1>10. ASSUME NEW id \in Ids, Respond(id) PROVE OrderInv'
    BY <1>1, <1>10, RespondInOrder, RespondKeepsQueue DEF OrderKept, OrderInv
<1> QED BY <1>4, <1>5, <1>6, <1>7, <1>8, <1>9, <1>10 DEF Next, EventLoop, Clients

\* The four parts laid end to end are what StreamInOrder speaks of.
LEMMA OrderFollows == OrderInv => StreamInOrder
<1> SUFFICES ASSUME OrderInv, NEW a \in Addresses, Live(a), ~client[a].closing,
                    NEW id \in 1..(next_request_id - 1), asker[id] = client[a].conn
             PROVE  LET stream == Stream(client[a])
                        own    == {i \in DOMAIN stream : stream[i].request_id = id}
                    IN  /\ \A i, j \in own : i < j => stream[i].token < stream[j].token
                        /\ faults = 0 => {stream[i].token : i \in own} = 1..answered[id]
    BY DEF StreamInOrder
<1> DEFINE p == sent[client[a].conn]
           q == client[a].pending
           r == client[a].write_queue
           u == response_queue
           s == p \o q \o r \o u
<1>1. Flow(id, p, q, r, u, answered[id], faults)
    BY OrderFacts DEF StreamInv, FlowsTo
<1>2. p \in Seq(Texts) /\ q \in Seq(Texts) /\ r \in Seq(Texts) /\ u \in Seq(Texts)
    BY TheClient, OrderFacts
<1>3. Stream(client[a]) = s
    BY DEF Stream
<1> HIDE DEF p, q, r, u
<1>4. s \in Seq(Texts) /\ Sorted(id, s) /\ Tokens(id, s) = OnTheWay(id, p, q, r, u)
    BY <1>1, <1>2, OneStream DEF Flow
<1> HIDE DEF s
<1>5. DOMAIN s = 1..Len(s)
    BY <1>4
<1>6. {i \in DOMAIN s : s[i].request_id = id} = Own(id, s)
    BY <1>5 DEF Own
<1>7. faults = 0 => Tokens(id, s) = 1..answered[id]
    BY <1>1, <1>4 DEF Flow
<1> QED BY <1>3, <1>4, <1>6, <1>7 DEF Sorted, Tokens

\* The callbacks that read, write, lose a write and free an object keep every open
\* client's responses in the order the scheduler gave them, and lose one only
\* with a write that fails.
THEOREM StreamsStayInOrder == Spec => []StreamInOrder
<1>1. Init => OrderInv
    BY InitInOrder DEF OrderInv
<1> QED BY <1>1, OrderInvKept, OrderFollows, PTL DEF Spec
=============================================================================
