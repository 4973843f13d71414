----------------------------- MODULE GPT2Model -----------------------------
(***************************************************************************)
(* GPT2Model::prefill and decode on a batch of requests and the KV pool.   *)
(* The arithmetic is symbolic: an embedding, a key, a value, the output of *)
(* a layer is the term of what it was computed from, so two results are    *)
(* equal exactly when they come from the same inputs in the same places.   *)
(* Where rows go and come from is as in the code: the flattened batch, the *)
(* token-to-block tables, the K and V pools, the flattened block table of  *)
(* decode, the tiles of flashattention.                                    *)
(*                                                                         *)
(* A request is a record of its tokens, prompts_len and layer_kv (block    *)
(* table and number of cached tokens of each layer).                       *)
(***************************************************************************)
EXTENDS Sizes, Sequences, SequencesExt

CONSTANTS Br, Bc  \* rows and keys of a tile of flashattention

ASSUME GPT2ModelAssumption == {Br, Bc} \subseteq Nat \ {0}

S == DEFAULT_KV_BLOCK_SIZE
TOTAL == DEFAULT_TOTAL_KV_BLOCKS

\* The terms.  A layer's output is its input plus what attention made of the
\* keys and values it saw, in the order it saw them, plus the feed-forward part.
Embedding(token, pos) == <<"embedding", token, pos>>
Key(l, x) == <<"key", l, x>>
Value(l, x) == <<"value", l, x>>
Block(l, x, seen) == <<"block", l, x, seen>>
Logits(x) == <<"logits", x>>
-----------------------------------------------------------------------------
\* The reference: GPT2LMHeadModel without a cache, on one text, as the golden
\* scripts call it; the logits of the last position.
FullLayer(x, l) ==
    [t \in DOMAIN x |-> Block(l, x[t], [u \in 1..t |-> <<Key(l, x[u]), Value(l, x[u])>>])]

FullHidden(ids, layers) ==
    LET After[l \in 0..layers] ==
            IF l = 0 THEN [t \in DOMAIN ids |-> Embedding(ids[t], t - 1)]
            ELSE FullLayer(After[l - 1], l)
    IN  After[layers]

FullLogits(ids) == Logits(FullHidden(ids, GPT2_N_LAYERS)[Len(ids)])

\* ... and the keys and values of the first n positions in layer l.
FullKv(ids, l, n) ==
    [t \in 1..n |-> <<Key(l, FullHidden(ids, l - 1)[t]), Value(l, FullHidden(ids, l - 1)[t])>>]
-----------------------------------------------------------------------------
VRowAfterTotalRows(b, o) == TOTAL + b * S + o  \* fault: the K pool is taken to be TOTAL rows

\* Row o of block b in the K pool and in the V pool behind it.
KRow(b, o) == b * S + o
VRow(b, o) == TOTAL * S + b * S + o

EmptyPool == [a \in 0..(2 * TOTAL * S - 1) |-> <<>>]

\* append_prefill_kv: row i of the batch goes to block to[i][1], offset to[i][2].
AppendKv(pool, l, x, to) ==
    LET After[i \in 0..Len(x)] ==
            IF i = 0 THEN pool
            ELSE [After[i - 1] EXCEPT ![KRow(to[i][1], to[i][2])] = Key(l, x[i]),
                                      ![VRow(to[i][1], to[i][2])] = Value(l, x[i])]
    IN  After[Len(x)]

\* Where token t (from 0) of a block table is.
Place(kv, t) == <<kv.blocks[t \div S + 1], t % S>>

\* The first of the flattened rows of request i, less one.
Before(lens, i) ==
    LET Sum[j \in 1..(Len(lens) + 1)] == IF j = 1 THEN 0 ELSE Sum[j - 1] + lens[j - 1]
    IN  Sum[i]

Lens(reqs) == [i \in DOMAIN reqs |-> reqs[i].prompts_len]

make_tables(reqs, l) ==
    FlattenSeq([i \in DOMAIN reqs |->
        [t \in 1..reqs[i].prompts_len |-> Place(reqs[i].layer_kv[l], t - 1)]])

\* Those of the keys 0 to n - 1, in this order, that are Visible.
Selected(Visible(_), n) ==
    LET After[k \in 0..n] ==
            IF k = 0 THEN <<>> ELSE After[k - 1] \o (IF Visible(k - 1) THEN <<k - 1>> ELSE <<>>)
    IN  After[n]

FlashKeysOfFullTiles(q, n) ==  \* fault: a tile is full when it starts before the query
    LET q_start == (q \div Br) * Br
        Visible(k) == k < n /\ ((k \div Bc) * Bc <= q_start \/ k <= q)
    IN  Selected(Visible, ((n - 1) \div Bc + 1) * Bc)

\* The keys row q of n is combined with, tile by tile: tiles up to the last row
\* of the query's tile; in a tile that ends before the first row of the query's
\* tile all keys, else those up to q.
FlashKeys(q, n) ==
    LET Smaller(a, b) == IF a < b THEN a ELSE b
        q_start      == (q \div Br) * Br
        q_tile_last  == Smaller(q_start + Br - 1, n - 1)
        Visible(k)   ==
            LET k_start     == (k \div Bc) * Bc
                k_tile_last == Smaller(k_start + Bc - 1, n - 1)
            IN  /\ k_start <= q_tile_last
                /\ k < n
                /\ k_tile_last <= q_start \/ k <= q
    IN  Selected(Visible, ((n - 1) \div Bc + 1) * Bc)

\* flashattention_prefill and the rest of the layer, for the rows x of a request.
PrefillRows(l, x) ==
    [q \in DOMAIN x |->
        LET keys == FlashKeys(q - 1, Len(x))
        IN  Block(l, x[q], [j \in DOMAIN keys |->
                <<Key(l, x[keys[j] + 1]), Value(l, x[keys[j] + 1])>>])]

block_prefill(reqs, state, l) ==
    LET lens == Lens(reqs)
    IN  [pool |-> AppendKv(state.pool, l, state.x, make_tables(reqs, l)),
         x    |-> FlattenSeq([i \in DOMAIN reqs |->
             PrefillRows(l, SubSeq(state.x, Before(lens, i) + 1, Before(lens, i) + lens[i]))])]

\* The row of the last prompt token of each request.
gather_last_tokens(reqs, x) ==
    [i \in DOMAIN reqs |-> x[Before(Lens(reqs), i) + reqs[i].prompts_len]]

\* The pool afterwards and the logits, one row for each request.
Prefill(reqs, pool) ==
    LET rows == FlattenSeq([i \in DOMAIN reqs |->
                    [t \in 1..reqs[i].prompts_len |-> Embedding(reqs[i].tokens[t], t - 1)]])
        After[l \in 0..GPT2_N_LAYERS] ==
            IF l = 0 THEN [pool |-> pool, x |-> rows] ELSE block_prefill(reqs, After[l - 1], l)
        end  == After[GPT2_N_LAYERS]
        last == gather_last_tokens(reqs, end.x)
    IN  [pool |-> end.pool, logits |-> [i \in DOMAIN reqs |-> Logits(last[i])]]
-----------------------------------------------------------------------------
\* paged_decode_attention for row i of the batch: the keys and values of its
\* num_tokens tokens by the flattened block table from its offset on.
PagedKv(pool, block_table, block_offset, num_tokens) ==
    [t \in 1..num_tokens |->
        LET physical_block == block_table[block_offset + (t - 1) \div S + 1]
            offset         == (t - 1) % S
        IN  <<pool[KRow(physical_block, offset)], pool[VRow(physical_block, offset)]>>]

block_decode(reqs, state, l) ==
    LET kv     == [i \in DOMAIN reqs |-> reqs[i].layer_kv[l]]
        pool   == AppendKv(state.pool, l, state.x,
                           [i \in DOMAIN reqs |-> Place(kv[i], kv[i].tokens)])
        tables == [i \in DOMAIN reqs |-> kv[i].blocks]
        sizes  == [i \in DOMAIN reqs |-> Len(tables[i])]
    IN  [pool |-> pool,
         x    |-> [i \in DOMAIN reqs |->
             Block(l, state.x[i],
                   PagedKv(pool, FlattenSeq(tables), Before(sizes, i), kv[i].tokens + 1))]]

\* One token of each request: the last one, at the position of the last one.
Decode(reqs, pool) ==
    LET rows == [i \in DOMAIN reqs |-> Embedding(Last(reqs[i].tokens), Len(reqs[i].tokens) - 1)]
        After[l \in 0..GPT2_N_LAYERS] ==
            IF l = 0 THEN [pool |-> pool, x |-> rows] ELSE block_decode(reqs, After[l - 1], l)
        end  == After[GPT2_N_LAYERS]
    IN  [pool |-> end.pool, logits |-> [i \in DOMAIN reqs |-> Logits(end.x[i])]]
=============================================================================
