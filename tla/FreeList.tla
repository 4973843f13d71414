------------------------------ MODULE FreeList ------------------------------
(***************************************************************************)
(* The free list that BlockManager keeps twice, once for the GPU pool and  *)
(* once for the CPU pool: a vector used as a stack (the back is its last   *)
(* element), one flag per block and a counter.  A pool is the record       *)
(*   ids    the stack of free block ids (free_block_ids_)                  *)
(*   isFree the flag of each block      (is_free_)                         *)
(*   count  the counter                 (free_blocks_)                     *)
(* These are pure operators: BlockManager and RealKvAllocator apply them.  *)
(***************************************************************************)
EXTENDS Integers, Sequences

NoBlock == -1

NewPoolFromOne(n) ==  \* fault: the ids start at 1
    [ids    |-> [i \in 1..n |-> i],
     isFree |-> [b \in 0..(n - 1) |-> TRUE],
     count  |-> n]

\* The constructor pushes 0, 1, ..., n-1, so the first block handed out is n-1.
NewPool(n) == [ids    |-> [i \in 1..n |-> i - 1],
               isFree |-> [b \in 0..(n - 1) |-> TRUE],
               count  |-> n]

BlocksOf(p) == DOMAIN p.isFree

CanAllocate(p, n) == n >= 0 /\ p.count >= n

\* What allocate_one returns: the back of the stack, or -1.
AllocatedOne(p) == IF p.ids = <<>> THEN NoBlock ELSE p.ids[Len(p.ids)]

\* ... and the pool it leaves.
AllocateOneKeepsFlag(p) ==  \* fault: the block is popped but stays marked free
    IF p.ids = <<>> THEN p
    ELSE [p EXCEPT !.ids = SubSeq(p.ids, 1, Len(p.ids) - 1), !.count = @ - 1]

AfterAllocateOne(p) ==
    IF p.ids = <<>> THEN p
    ELSE [ids    |-> SubSeq(p.ids, 1, Len(p.ids) - 1),
          isFree |-> [p.isFree EXCEPT ![AllocatedOne(p)] = FALSE],
          count  |-> p.count - 1]

\* n calls of allocate_one, for n <= Len(p.ids): the blocks in the order they
\* come, and the pool they leave.
Taken(p, n) == [i \in 1..n |-> p.ids[Len(p.ids) - i + 1]]

TakingPopsOneTooFew(p, n) ==  \* fault: the last block returned stays on the stack
    [ids    |-> SubSeq(p.ids, 1, Len(p.ids) - n + 1),
     isFree |-> [b \in BlocksOf(p) |->
                    p.isFree[b] /\ \A i \in 1..n : Taken(p, n)[i] # b],
     count  |-> p.count - n]

AfterTaking(p, n) ==
    [ids    |-> SubSeq(p.ids, 1, Len(p.ids) - n),
     isFree |-> [b \in BlocksOf(p) |->
                    p.isFree[b] /\ \A i \in 1..n : Taken(p, n)[i] # b],
     count  |-> p.count - n]

FreeOneWithoutGuard(p, b) ==  \* fault: a double free is not noticed
    IF b \in BlocksOf(p)
    THEN [ids    |-> Append(p.ids, b),
          isFree |-> [p.isFree EXCEPT ![b] = TRUE],
          count  |-> p.count + 1]
    ELSE p

\* free_one ignores an id outside the pool and a block that is already free.
FreeOne(p, b) ==
    IF b \in BlocksOf(p) /\ ~p.isFree[b]
    THEN [ids    |-> Append(p.ids, b),
          isFree |-> [p.isFree EXCEPT ![b] = TRUE],
          count  |-> p.count + 1]
    ELSE p

\* free(vector): free_one on each element in order.
FreeAll(p, bs) ==
    LET after[i \in 0..Len(bs)] == IF i = 0 THEN p ELSE FreeOne(after[i - 1], bs[i])
    IN  after[Len(bs)]
-----------------------------------------------------------------------------
Distinct(ids) == \A i, j \in 1..Len(ids) : ids[i] = ids[j] => i = j

\* The three records of what is free (stack, flags, counter) agree, and the
\* stack lists no block twice.
FreeListOK(p) ==
    /\ p.count = Len(p.ids)
    /\ Distinct(p.ids)
    /\ \A b \in BlocksOf(p) : p.isFree[b] <=> \E i \in 1..Len(p.ids) : p.ids[i] = b
=============================================================================
