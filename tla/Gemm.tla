-------------------------------- MODULE Gemm --------------------------------
(***************************************************************************)
(* The matrix products of launch_custom_gemm: which kernel is launched for *)
(* a shape, and the kernel, thread by thread.  For each tile of k the      *)
(* threads of a block bring a tile of A and one of B into shared memory    *)
(* and add the products of what is there to their registers, with a        *)
(* barrier on each side; at the end they store what lies in C.             *)
(*                                                                         *)
(* An element of A or B is named by its place; a sum is the sequence of    *)
(* the products added, those with a zero of the padding among them.        *)
(* Blocks share nothing but C, where each touches elements of its own:     *)
(* they run here one after the other, their threads in any order.          *)
(***************************************************************************)
EXTENDS Integers, Sequences

CONSTANTS DecodeTile, GeneralTile,   \* [BM, BN, BK, TM, TN, VEC] of a kernel
          DECODE_M,                  \* fewer rows than this are for the decode kernel
          DecodeShapes,              \* the <<K, N>> it is made for
          Launches                   \* the <<M, N, K>> to look at

NumThreads(tile) == (tile.BM \div tile.TM) * (tile.BN \div tile.TN)

\* VEC elements are moved at once, and the vectorized kernel moves as much in
\* every turn of its load loops: the tiles are whole numbers of turns.
ASSUME GemmAssumption ==
    /\ DECODE_M \in Nat /\ DecodeShapes \subseteq Nat \X Nat
    /\ Launches \subseteq (Nat \ {0}) \X (Nat \ {0}) \X (Nat \ {0})
    /\ \A tile \in {DecodeTile, GeneralTile} :
          /\ {tile.BM, tile.BN, tile.BK, tile.TM, tile.TN, tile.VEC} \subseteq Nat \ {0}
          /\ tile.BM % tile.TM = 0 /\ tile.BN % tile.TN = 0
          /\ tile.BK % tile.VEC = 0 /\ tile.BN % tile.VEC = 0
    /\ (GeneralTile.BM * GeneralTile.BK) % (NumThreads(GeneralTile) * GeneralTile.VEC) = 0
    /\ (GeneralTile.BK * GeneralTile.BN) % (NumThreads(GeneralTile) * GeneralTile.VEC) = 0

VARIABLES launch,   \* M, N, K, beta and the kernel; <<>> when nothing is launched
          block,    \* the block that runs, row by row of the grid
          sA, sB,   \* shared memory, by row and column of the tile
          gemm_pc,  \* gemm_pc[t]
          bkIdx,    \* bkIdx[t]: the first k of the thread's tile
          acc,      \* acc[t]: threadResults, by row and column in C
          C         \* what was stored, by row and column

gemm_vars == <<launch, block, sA, sB, gemm_pc, bkIdx, acc, C>>

Zero == <<"zero">>         \* padding
Old == [sum |-> <<>>, bias |-> 0, old |-> <<>>]   \* what C holds before
Outside == <<"outside">>  \* what lies behind a matrix in memory
Undefined == <<"undefined">>  \* what is in shared memory before the loads

\* The places of a tile or a matrix.
Places2D(rows, cols) == (0..(rows - 1)) \X (0..(cols - 1))
-----------------------------------------------------------------------------
(* The launch. *)

can_use_decode_gemm(M, N, K) == M < DECODE_M /\ <<K, N>> \in DecodeShapes

can_use_vectorized_bank_gemm(M, N, K, aligned) ==
    /\ M % GeneralTile.BM = 0 /\ N % GeneralTile.BN = 0 /\ K % GeneralTile.BK = 0
    /\ aligned

\* The general kernel and the decode kernel look at the bounds of A, B and C, the
\* vectorized one does not.
launch_custom_gemm(M, N, K, aligned) ==
    CASE can_use_decode_gemm(M, N, K) -> [tile |-> DecodeTile, guarded |-> TRUE]
      [] OTHER -> [tile    |-> GeneralTile,
                   guarded |-> ~can_use_vectorized_bank_gemm(M, N, K, aligned)]

Tile == launch.kernel.tile
GemmThreads == 0..(NumThreads(Tile) - 1)
CeilDivide(a, b) == (a + b - 1) \div b
GridColumns == CeilDivide(launch.N, Tile.BN)
Blocks == GridColumns * CeilDivide(launch.M, Tile.BM)
blockRow == (block \div GridColumns) * Tile.BM
blockCol == (block % GridColumns) * Tile.BN

\* The elements of C, by row and column, that are thread t's.
OwnElements(t) ==
    LET threadRow == t \div (Tile.BN \div Tile.TN)
        threadCol == t % (Tile.BN \div Tile.TN)
    IN  {<<blockRow + threadRow * Tile.TM + i, blockCol + threadCol * Tile.TN + j>> :
            i \in 0..(Tile.TM - 1), j \in 0..(Tile.TN - 1)}

GemmInit ==
    /\ \E m \in Launches, aligned \in BOOLEAN, beta \in {0, 1} :
          launch = [M |-> m[1], N |-> m[2], K |-> m[3], beta |-> beta,
                    kernel |-> launch_custom_gemm(m[1], m[2], m[3], aligned)]
    /\ block = 0
    /\ sA = [p \in Places2D(Tile.BM, Tile.BK) |-> Undefined]
    /\ sB = [p \in Places2D(Tile.BK, Tile.BN) |-> Undefined]
    /\ gemm_pc = [t \in GemmThreads |-> "load"]
    /\ bkIdx = [t \in GemmThreads |-> 0]
    /\ acc = [t \in GemmThreads |-> <<>>]
    /\ C = [p \in Places2D(launch.M, launch.N) |-> Old]
-----------------------------------------------------------------------------
(* A block. *)

\* An element of a matrix with so many rows and columns, padded with zeros.
Element(matrix, r, c, rows, cols) ==
    IF r < rows /\ c < cols THEN <<matrix, r, c>>
    ELSE IF launch.kernel.guarded THEN Zero ELSE Outside

\* The places of a rows x cols tile that thread t loads: VEC at a time, every
\* NUM_THREADS-th of them.
Share(t, rows, cols) ==
    {p \in Places2D(rows, cols) :
        ((p[1] * cols + p[2]) \div Tile.VEC) % NumThreads(Tile) = t}

LoadTiles(t) ==
    /\ gemm_pc[t] = "load"
    /\ sA' = [p \in DOMAIN sA |->
          IF p \in Share(t, Tile.BM, Tile.BK)
          THEN Element("A", blockRow + p[1], bkIdx[t] + p[2], launch.M, launch.K) ELSE sA[p]]
    /\ sB' = [p \in DOMAIN sB |->
          IF p \in Share(t, Tile.BK, Tile.BN)
          THEN Element("B", bkIdx[t] + p[1], blockCol + p[2], launch.K, launch.N) ELSE sB[p]]
    /\ gemm_pc' = [gemm_pc EXCEPT ![t] = "loaded"]
    /\ UNCHANGED <<launch, block, bkIdx, acc, C>>

\* __syncthreads() behind the loads.
TilesLoaded ==
    /\ \A t \in GemmThreads : gemm_pc[t] = "loaded"
    /\ gemm_pc' = [t \in GemmThreads |-> "multiply"]
    /\ UNCHANGED <<launch, block, sA, sB, bkIdx, acc, C>>

\* The products for the element p of C from the tiles that are there.
Products(p) ==
    [d \in 1..Tile.BK |-> <<sA[<<p[1] - blockRow, d - 1>>], sB[<<d - 1, p[2] - blockCol>>]>>]

Multiply(t) ==
    /\ gemm_pc[t] = "multiply"
    /\ acc' = [acc EXCEPT ![t] =
          [p \in OwnElements(t) |-> (IF bkIdx[t] = 0 THEN <<>> ELSE acc[t][p]) \o Products(p)]]
    /\ gemm_pc' = [gemm_pc EXCEPT ![t] = "multiplied"]
    /\ UNCHANGED <<launch, block, sA, sB, bkIdx, C>>

\* The turn of the loop after a thread's present one.
After(t) == IF bkIdx[t] + Tile.BK < launch.K THEN "load" ELSE "store"

NextTilesUnsynced ==  \* fault: the barrier at the end of the loop is missing
    \E t \in GemmThreads :
        /\ gemm_pc[t] = "multiplied"
        /\ gemm_pc' = [gemm_pc EXCEPT ![t] = After(t)]
        /\ bkIdx' = [bkIdx EXCEPT ![t] = @ + Tile.BK]
        /\ UNCHANGED <<launch, block, sA, sB, acc, C>>

\* __syncthreads() at the end of the loop.
NextTiles ==
    /\ \A t \in GemmThreads : gemm_pc[t] = "multiplied"
    /\ gemm_pc' = [t \in GemmThreads |-> After(t)]
    /\ bkIdx' = [t \in GemmThreads |-> bkIdx[t] + Tile.BK]
    /\ UNCHANGED <<launch, block, sA, sB, acc, C>>

\* alpha * sum + beta * old + bias; the scalar stores look at the bounds.
StoreTile(t) ==
    /\ gemm_pc[t] = "store"
    /\ LET elements == IF launch.kernel.guarded THEN OwnElements(t) \cap DOMAIN C
                                                ELSE OwnElements(t)
       IN  C' = [p \in elements \cup DOMAIN C |->
                    IF p \in elements
                    THEN [sum |-> acc[t][p], bias |-> p[2],
                          old |-> IF launch.beta = 0 THEN <<>> ELSE <<C[p]>>]
                    ELSE C[p]]
    /\ gemm_pc' = [gemm_pc EXCEPT ![t] = "stored"]
    /\ UNCHANGED <<launch, block, sA, sB, bkIdx, acc>>

\* The next block of the grid, with shared memory and registers of its own.
NextBlock ==
    /\ \A t \in GemmThreads : gemm_pc[t] = "stored"
    /\ block + 1 < Blocks
    /\ block' = block + 1
    /\ sA' = [p \in DOMAIN sA |-> Undefined] /\ sB' = [p \in DOMAIN sB |-> Undefined]
    /\ gemm_pc' = [t \in GemmThreads |-> "load"]
    /\ bkIdx' = [t \in GemmThreads |-> 0]
    /\ acc' = [t \in GemmThreads |-> <<>>]
    /\ UNCHANGED <<launch, C>>

GemmNext ==
    \/ TilesLoaded \/ NextTiles \/ NextBlock
    \/ \E t \in GemmThreads : LoadTiles(t) \/ Multiply(t) \/ StoreTile(t)
-----------------------------------------------------------------------------
(* Property *)

GemmDone == block + 1 = Blocks /\ \A t \in GemmThreads : gemm_pc[t] = "stored"

\* The products of row r of A and column c of B, once and in order, and then some
\* with a zero.
IsSum(sum, r, c) ==
    /\ Len(sum) >= launch.K
    /\ \A k \in 1..Len(sum) :
          IF k <= launch.K THEN sum[k] = << <<"A", r, k - 1>>, <<"B", k - 1, c>> >>
                           ELSE Zero \in {sum[k][1], sum[k][2]}

IsProduct(e, r, c) ==
    IsSum(e.sum, r, c) /\ e.bias = c /\ e.old = IF launch.beta = 0 THEN <<>> ELSE <<Old>>

\* Whichever kernel a shape is given to, also when the tiles do not fit the
\* matrices, and in every order of the threads: what is stored in C is the sum of
\* every k, added once and in order, no element is stored twice and none beside
\* C, nothing is read behind A and B, and at the end all of C is stored.
GemmIsTheProduct ==
    launch # <<>> =>
        /\ DOMAIN C = Places2D(launch.M, launch.N)
        /\ \A p \in DOMAIN C : IsProduct(C[p], p[1], p[2]) \/ (C[p] = Old /\ ~GemmDone)
=============================================================================
