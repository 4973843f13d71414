-------------------------- MODULE ModelFilesProofs --------------------------
(***************************************************************************)
(* Proofs about the files of the scripts, for every size of the model and  *)
(* of the pool, every prompt and every list of cases, however often the    *)
(* script is interrupted and run again while the program reads:            *)
(*   - what load_weights gets past is the model's weights;                 *)
(*   - a test that passes has compared with the full recompute;            *)
(*   - after a whole run every program ends well.                          *)
(***************************************************************************)
EXTENDS ModelFiles, OperatorProofs

\* The tensors of the state dict, and their elements.
Tensors == (DOMAIN Shape) \X Nat
Weights == {<<t, row, column>> : t \in Tensors, row \in Nat, column \in Nat}

\* These are the first elements of tensor t, row by row.
IsStart(elements, t) ==
    /\ elements \in Seq(Weights) /\ Len(elements) <= Size(t[1])
    /\ \A j \in 1..Len(elements) :
          elements[j] = <<t, (j - 1) \div Shape[t[1]][2], (j - 1) % Shape[t[1]][2]>>

\* The script is at one of its outputs, and every file is the start of the
\* tensor it is named after: no run leaves anything else there.
ExportInv ==
    /\ next \in 0..Len(SavedTensors) /\ (open => next > 0)
    /\ \A f \in DOMAIN files : f \in Tensors /\ IsStart(files[f], f)

\* load_weights has come so far, with whole tensors.
LoadInv ==
    /\ got \in Seq(Seq(Weights)) /\ Len(got) <= Len(LoadedTensors)
    /\ \A i \in 1..Len(got) :
          IsStart(got[i], LoadedTensors[i]) /\ Len(got[i]) = Size(LoadedTensors[i][1])

WeightsInv ==
    /\ script \in {"export_weights", "dump_gpt2_golden",
                   "dump_gpt2_batch_prefill_golden", "dump_gpt2_batch_decode_golden"}
    /\ program \in {"none"} \cup Programs(script)
    /\ program = "none" => got = <<>>
    /\ script = "export_weights" => ExportInv
    /\ program = "load_weights" => LoadInv

-----------------------------------------------------------------------------
LEMMA SizesAre ==
    ASSUME NEW t \in Tensors
    PROVE  Shape[t[1]][1] \in Nat \ {0} /\ Shape[t[1]][2] \in Nat \ {0} /\ Size(t[1]) \in Nat \ {0}
<1>1. {GPT2_VOCAB_SIZE, GPT2_D_MODEL, GPT2_D_FF, MAX_SEQ} \subseteq Nat \ {0}
    BY ModelFilesAssumption
<1>2. t[1] \in DOMAIN Shape
    BY DEF Tensors
<1>3. Shape[t[1]][1] \in Nat \ {0} /\ Shape[t[1]][2] \in Nat \ {0}
    BY <1>1, <1>2 DEF Shape, D
<1>4. \A a, b \in Nat \ {0} : a * b \in Nat \ {0}
    OBVIOUS
<1> QED BY <1>3, <1>4 DEF Size

\* The names of a list, layer by layer.
LEMMA OfLayersAre ==
    ASSUME NEW names \in Seq(DOMAIN Shape), Len(names) > 0
    PROVE  OfLayers(names) \in Seq(Tensors)
<1> DEFINE m == Len(names)
<1>1. GPT2_N_LAYERS \in Nat /\ m \in Nat \ {0}
    BY SizesAssumption
<1>2. GPT2_N_LAYERS * m \in Nat
    BY <1>1
<1>3. ASSUME NEW k \in 1..(GPT2_N_LAYERS * m)
      PROVE  <<names[((k - 1) % m) + 1], (k - 1) \div m + 1>> \in Tensors
    <2>1. k - 1 \in Nat
        BY <1>2
    <2>2. ((k - 1) % m) + 1 \in 1..m /\ (k - 1) \div m + 1 \in Nat
        BY <1>1, <2>1
    <2>3. names[((k - 1) % m) + 1] \in DOMAIN Shape
        BY <2>2
    <2> QED BY <2>2, <2>3 DEF Tensors
<1>4. OfLayers(names) = [k \in 1..(GPT2_N_LAYERS * m) |-> <<names[((k - 1) % m) + 1], (k - 1) \div m + 1>>]
    BY DEF OfLayers
<1> QED BY <1>2, <1>3, <1>4

LEMMA SavedAre == SavedTensors \in Seq(Tensors) /\ Len(SavedTensors) \in Nat \ {0}
<1> DEFINE names == <<"ln1_w", "ln1_b", "ln2_w", "ln2_b", "qkv_w", "qkv_b",
                      "out_w", "out_b", "fc1_w", "fc1_b", "fc2_w", "fc2_b">>
<1>1. names \in Seq(DOMAIN Shape) /\ Len(names) > 0
    BY DEF Shape
<1>2. OfLayers(names) \in Seq(Tensors)
    BY <1>1, OfLayersAre
<1>3. << <<"wte", 0>>, <<"wpe", 0>> >> \in Seq(Tensors) /\ << <<"ln_f_w", 0>>, <<"ln_f_b", 0>> >> \in Seq(Tensors)
    BY DEF Tensors, Shape
<1>4. SavedTensors = << <<"wte", 0>>, <<"wpe", 0>> >> \o OfLayers(names) \o << <<"ln_f_w", 0>>, <<"ln_f_b", 0>> >>
    BY DEF SavedTensors
<1> HIDE DEF names
<1>5. ASSUME NEW s \in Seq(Tensors), NEW t \in Seq(Tensors), NEW u \in Seq(Tensors), Len(s) = 2
      PROVE  s \o t \o u \in Seq(Tensors) /\ Len(s \o t \o u) \in Nat \ {0}
    BY <1>5
<1>6. Len(<< <<"wte", 0>>, <<"wpe", 0>> >>) = 2
    OBVIOUS
<1> QED BY <1>2, <1>3, <1>4, <1>5, <1>6

LEMMA LoadedAre == LoadedTensors \in Seq(Tensors)
<1> DEFINE names == <<"ln1_w", "ln1_b", "qkv_w", "qkv_b", "out_w", "out_b",
                      "ln2_w", "ln2_b", "fc1_w", "fc1_b", "fc2_w", "fc2_b">>
<1>1. names \in Seq(DOMAIN Shape) /\ Len(names) > 0
    BY DEF Shape
<1>2. OfLayers(names) \in Seq(Tensors)
    BY <1>1, OfLayersAre
<1>3. << <<"wte", 0>>, <<"wpe", 0>> >> \in Seq(Tensors) /\ << <<"ln_f_w", 0>>, <<"ln_f_b", 0>> >> \in Seq(Tensors)
    BY DEF Tensors, Shape
<1>4. LoadedTensors = << <<"wte", 0>>, <<"wpe", 0>> >> \o OfLayers(names) \o << <<"ln_f_w", 0>>, <<"ln_f_b", 0>> >>
    BY DEF LoadedTensors
<1> HIDE DEF names
<1> QED BY <1>2, <1>3, <1>4

\* A tensor row by row starts itself, and so does what is cut off it.
LEMMA RowMajorStarts ==
    ASSUME NEW t \in Tensors, NEW n \in Int, n <= Size(t[1])
    PROVE  /\ IsStart(RowMajor(t), t) /\ Len(RowMajor(t)) = Size(t[1])
           /\ IsStart(SubSeq(RowMajor(t), 1, n), t)
<1> DEFINE cols == Shape[t[1]][2]
           size == Size(t[1])
           elements == RowMajor(t)
           ElementAt(i) == <<t, (i - 1) \div cols, (i - 1) % cols>>
<1>1. cols \in Nat \ {0} /\ size \in Nat \ {0}
    BY SizesAre
<1>2. elements = [i \in 1..size |-> ElementAt(i)]
    BY DEF RowMajor, Size
<1>3. ASSUME NEW i \in 1..size PROVE ElementAt(i) \in Weights
    <2>1. i - 1 \in Nat
        BY <1>1
    <2>2. (i - 1) \div cols \in Nat /\ (i - 1) % cols \in Nat
        BY <1>1, <2>1
    <2> QED BY <2>2 DEF Weights
<1> HIDE DEF size, elements, ElementAt
<1>4. elements \in Seq(Weights) /\ Len(elements) = size
    BY <1>1, <1>2, <1>3
<1>5. \A j \in 1..size : elements[j] = ElementAt(j)
    BY <1>2
<1> DEFINE part == SubSeq(elements, 1, n)
<1>6. /\ part \in Seq(Weights) /\ Len(part) = IF 1 <= n THEN n ELSE 0
      /\ \A i \in 1..n : part[i] = elements[i]
    <2>1. \A i \in 1..n : elements[i] \in Weights
        BY <1>1, <1>4 DEF size
    <2>2. /\ part \in Seq(Weights)
          /\ Len(part) = IF 1 <= n THEN n - 1 + 1 ELSE 0
          /\ \A i \in 1..(n - 1 + 1) : part[i] = elements[1 + i - 1]
        <3> HIDE DEF part
        <3> QED BY <2>1, SubSeqProperties DEF part
    <2> HIDE DEF part
    <2>3. n - 1 + 1 = n /\ \A i \in 1..n : 1 + i - 1 = i
        OBVIOUS
    <2> QED BY <2>2, <2>3
<1>7. Len(part) <= size /\ \A j \in 1..Len(part) : j \in 1..size /\ part[j] = elements[j]
    <2> HIDE DEF part
    <2> QED BY <1>1, <1>6 DEF size
<1> HIDE DEF part
<1>8. IsStart(elements, t)
    BY <1>1, <1>4, <1>5 DEF IsStart, size, ElementAt
<1>9. IsStart(part, t)
    <2>1. \A j \in 1..Len(part) : part[j] = ElementAt(j)
        BY <1>5, <1>7
    <2> QED BY <1>6, <1>7, <2>1 DEF IsStart, size, ElementAt
<1> QED BY <1>4, <1>8, <1>9 DEF part, elements, size

LEMMA Taking ==
    ASSUME NEW t \in Tensors, NEW elements, IsStart(elements, t), Size(t[1]) <= Len(elements)
    PROVE  /\ IsStart(SubSeq(elements, 1, Size(t[1])), t)
           /\ Len(SubSeq(elements, 1, Size(t[1]))) = Size(t[1])
<1>1. Size(t[1]) \in Nat \ {0}
    BY SizesAre
<1>2. elements \in Seq(Weights) /\ Len(elements) = Size(t[1])
    BY <1>1 DEF IsStart
<1>3. SubSeq(elements, 1, Size(t[1])) = elements
    BY <1>1, <1>2
<1> QED BY <1>2, <1>3

\* What the export writes, output by output.
LEMMA ExportOutputsAre ==
    ASSUME NEW in, NEW i \in 1..Len(SavedTensors)
    PROVE  /\ Len(Outputs("export_weights", in)) = Len(SavedTensors)
           /\ SavedTensors[i] \in Tensors
           /\ Outputs("export_weights", in)[i] = <<SavedTensors[i], RowMajor(SavedTensors[i])>>
<1>1. Outputs("export_weights", in) = ExportOutputs
    BY DEF Outputs
<1>2. SavedTensors \in Seq(Tensors)
    BY SavedAre
<1>3. ExportOutputs = [k \in 1..Len(SavedTensors) |-> <<SavedTensors[k], RowMajor(SavedTensors[k])>>]
    BY <1>2 DEF ExportOutputs
<1> QED BY <1>1, <1>2, <1>3

\* A file that starts its tensor joins the others.
LEMMA WriteKeeps ==
    ASSUME \A f \in DOMAIN files : f \in Tensors /\ IsStart(files[f], f),
           NEW t \in Tensors, NEW elements, IsStart(elements, t), Write(t, elements)
    PROVE  \A f \in DOMAIN files' : f \in Tensors /\ IsStart(files'[f], f)
<1> QED BY DEF Write
-----------------------------------------------------------------------------
LEMMA OpenKeeps == ASSUME WeightsInv, script = "export_weights", Open PROVE ExportInv'
<1> DEFINE t == SavedTensors[next]
<1>1. next \in 1..Len(SavedTensors)
    BY SavedAre DEF WeightsInv, ExportInv, Open
<1>2. t \in Tensors /\ Outputs(script, input)[next] = <<t, RowMajor(t)>>
    BY <1>1, ExportOutputsAre
<1>3. PICK n \in {0, Len(RowMajor(t)) - 1} : Write(t, SubSeq(RowMajor(t), 1, n))
    BY <1>2 DEF Open
<1>4. Len(RowMajor(t)) = Size(t[1]) /\ Size(t[1]) \in Nat \ {0}
    <2>1. 0 \in Int /\ 0 <= Size(t[1]) /\ Size(t[1]) \in Nat \ {0}
        BY <1>2, SizesAre
    <2> QED BY <1>2, <2>1, RowMajorStarts
<1>5. IsStart(SubSeq(RowMajor(t), 1, n), t)
    <2>1. n \in Int /\ n <= Size(t[1])
        BY <1>3, <1>4
    <2> QED BY <1>2, <2>1, RowMajorStarts
<1> HIDE DEF t
<1>6. \A f \in DOMAIN files' : f \in Tensors /\ IsStart(files'[f], f)
    <2>1. \A f \in DOMAIN files : f \in Tensors /\ IsStart(files[f], f)
        BY DEF WeightsInv, ExportInv
    <2> QED BY <1>2, <1>3, <1>5, <2>1, WriteKeeps
<1> QED BY <1>1, <1>6 DEF ExportInv, Open

LEMMA CloseKeeps == ASSUME WeightsInv, script = "export_weights", Close PROVE ExportInv'
<1> DEFINE t == SavedTensors[next]
<1>1. next \in 1..Len(SavedTensors) /\ Len(SavedTensors) \in Nat
    BY SavedAre DEF WeightsInv, ExportInv, Close
<1>2. t \in Tensors /\ Outputs(script, input)[next] = <<t, RowMajor(t)>>
      /\ Len(Outputs(script, input)) = Len(SavedTensors)
    BY <1>1, ExportOutputsAre
<1>3. Write(t, RowMajor(t))
    BY <1>2 DEF Close
<1>4. IsStart(RowMajor(t), t)
    <2>1. 0 \in Int /\ 0 <= Size(t[1])
        BY <1>2, SizesAre
    <2> QED BY <1>2, <2>1, RowMajorStarts
<1> HIDE DEF t
<1>5. \A f \in DOMAIN files' : f \in Tensors /\ IsStart(files'[f], f)
    <2>1. \A f \in DOMAIN files : f \in Tensors /\ IsStart(files[f], f)
        BY DEF WeightsInv, ExportInv
    <2> QED BY <1>2, <1>3, <1>4, <2>1, WriteKeeps
<1>6. next' \in 0..Len(SavedTensors) /\ ~open'
    BY <1>1, <1>2 DEF Close
<1> QED BY <1>5, <1>6 DEF ExportInv

LEMMA ReadFileKeeps ==
    ASSUME WeightsInv, program = "load_weights", ReadFile PROVE LoadInv'
<1> DEFINE k == Len(got) + 1
           t == LoadedTensors[k]
<1>1. script = "export_weights"
    BY DEF WeightsInv, Programs
<1>2. ExportInv /\ LoadInv
    BY <1>1 DEF WeightsInv
<1>3. LoadedTensors \in Seq(Tensors)
    BY LoadedAre
<1>4. Reads(program) = [i \in 1..Len(LoadedTensors) |-> <<LoadedTensors[i], Size(LoadedTensors[i][1])>>]
    BY <1>3 DEF Reads
<1>5. k \in 1..Len(LoadedTensors) /\ Len(got) \in Nat
    BY <1>2, <1>3, <1>4 DEF LoadInv, ReadFile
<1>6. t \in Tensors /\ Size(t[1]) \in Nat \ {0}
    BY <1>3, <1>5, SizesAre
<1>7. Reads(program)[k] = <<t, Size(t[1])>>
    BY <1>4, <1>5
<1> HIDE DEF t
<1>8. t \in DOMAIN files /\ Size(t[1]) <= Len(files[t])
    BY <1>7 DEF ReadFile, Readable
<1>9. got' = Append(got, SubSeq(files[t], 1, Size(t[1])))
    BY <1>6, <1>7 DEF ReadFile, All
<1>10. IsStart(files[t], t)
    BY <1>2, <1>8 DEF ExportInv
<1> DEFINE elements == SubSeq(files[t], 1, Size(t[1]))
<1>11. IsStart(elements, t) /\ Len(elements) = Size(t[1]) /\ elements \in Seq(Weights)
    <2>1. IsStart(elements, t) /\ Len(elements) = Size(t[1])
        BY <1>6, <1>8, <1>10, Taking
    <2> QED BY <2>1 DEF IsStart
<1> HIDE DEF elements
<1>12. got \in Seq(Seq(Weights)) /\ got' = Append(got, elements)
    BY <1>2, <1>9 DEF LoadInv, elements
<1>13. got' \in Seq(Seq(Weights)) /\ Len(got') = k
      /\ \A i \in 1..Len(got') : IF i = k THEN got'[i] = elements ELSE i \in 1..Len(got) /\ got'[i] = got[i]
    BY <1>5, <1>11, <1>12
<1>14. ASSUME NEW i \in 1..Len(got')
      PROVE  IsStart(got'[i], LoadedTensors[i]) /\ Len(got'[i]) = Size(LoadedTensors[i][1])
    <2>1. CASE i = k
        BY <2>1, <1>11, <1>13 DEF t
    <2>2. CASE i # k
        BY <2>2, <1>2, <1>13 DEF LoadInv
    <2> QED BY <2>1, <2>2
<1>15. Len(got') <= Len(LoadedTensors)
    BY <1>5, <1>13
<1> QED BY <1>13, <1>14, <1>15, Zenon DEF LoadInv

LEMMA WeightsInvKept == WeightsInv /\ [Next]_vars => WeightsInv'
<1> SUFFICES ASSUME WeightsInv, [Next]_vars PROVE WeightsInv'
    OBVIOUS
<1> USE DEF WeightsInv
<1>1. CASE Start
    <2>1. 1 \in 0..Len(SavedTensors)
        BY SavedAre
    <2> QED BY <1>1, <2>1 DEF Start, ExportInv, LoadInv, reader
<1>2. CASE Open
    <2>1. script = "export_weights" => ExportInv'
        BY <1>2, OpenKeeps
    <2> QED BY <1>2, <2>1 DEF Open, LoadInv, reader
<1>3. CASE Close
    <2>1. script = "export_weights" => ExportInv'
        BY <1>3, CloseKeeps
    <2> QED BY <1>3, <2>1 DEF Close, LoadInv, reader
<1>4. CASE Interrupt
    <2>1. 0 \in 0..Len(SavedTensors)
        BY SavedAre
    <2> QED BY <1>4, <2>1 DEF Interrupt, ExportInv, LoadInv, reader
<1>5. CASE StartProgram
    <2>1. LoadedTensors \in Seq(Tensors)
        BY LoadedAre
    <2>2. LoadInv'
        BY <1>5, <2>1 DEF StartProgram, LoadInv
    <2> QED BY <1>5, <2>2 DEF StartProgram, ExportInv, disk, Programs
<1>6. CASE ReadFile
    <2>1. program = "load_weights" => LoadInv'
        BY <1>6, ReadFileKeeps
    <2> QED BY <1>6, <2>1 DEF ReadFile, Running, ExportInv, disk
<1>7. CASE ReadFails \/ Judge \/ UNCHANGED vars
    BY <1>7 DEF ReadFails, Judge, vars, disk, reader, ExportInv, LoadInv
<1> QED BY <1>1, <1>2, <1>3, <1>4, <1>5, <1>6, <1>7 DEF Next

\* Whatever load_weights has got past is the model's tensor of that name and
\* layer, row by row: no export that is under way, interrupted or repeated gives
\* it anything else.
THEOREM LoadedWeightsAlwaysTheModels == Spec => []LoadedWeightsAreTheModels
<1>1. Init => WeightsInv
    <2>1. 0 \in 0..Len(SavedTensors)
        BY SavedAre
    <2> QED BY <2>1 DEF Init, WeightsInv, ExportInv
<1>2. WeightsInv => LoadedWeightsAreTheModels
    <2> SUFFICES ASSUME LoadInv, NEW i \in DOMAIN got
                 PROVE  /\ Len(got[i]) = Size(LoadedTensors[i][1])
                        /\ \A j \in DOMAIN got[i] : got[i][j] =
                              <<LoadedTensors[i], (j - 1) \div Shape[LoadedTensors[i][1]][2],
                                (j - 1) % Shape[LoadedTensors[i][1]][2]>>
        BY DEF WeightsInv, LoadedWeightsAreTheModels
    <2>1. i \in 1..Len(got)
        BY DEF LoadInv
    <2>2. IsStart(got[i], LoadedTensors[i]) /\ Len(got[i]) = Size(LoadedTensors[i][1])
        BY <2>1 DEF LoadInv
    <2>3. DOMAIN got[i] = 1..Len(got[i])
        BY <2>2 DEF IsStart
    <2> QED BY <2>2, <2>3 DEF IsStart
<1> QED BY <1>1, <1>2, WeightsInvKept, PTL DEF Spec

-----------------------------------------------------------------------------
(* The requests of a test: texts cut out of a flat list, consecutive blocks. *)

\* The later a request, the further back it begins.
LEMMA BeforeGrows ==
    ASSUME NEW n \in Nat, NEW lens \in [1..n -> Nat], NEW i \in 1..(n + 1), NEW j \in i..(n + 1)
    PROVE  Before(lens, i) <= Before(lens, j)
<1> DEFINE B(k) == Before(lens, k)
           T == {d \in 0..(j - i) : B(i) <= B(i + d)}
<1>1. (\A k \in 1..n : B(k + 1) = B(k) + lens[k]) /\ (\A k \in 1..(n + 1) : B(k) \in Nat)
    BY BeforeIs
<1> HIDE DEF B
<1>2. 0 \in T
    BY <1>1
<1>3. ASSUME NEW d \in 1..(j - i), d - 1 \in T PROVE d \in T
    <2>1. i + (d - 1) \in 1..n /\ (i + (d - 1)) + 1 = i + d
        OBVIOUS
    <2>2. B(i + d) = B(i + (d - 1)) + lens[i + (d - 1)] /\ lens[i + (d - 1)] \in Nat
        BY <1>1, <2>1
    <2> QED BY <1>1, <1>3, <2>1, <2>2
<1>4. j - i \in Nat
    OBVIOUS
<1>5. j - i \in T
    <2>1. \A d \in 0..(j - i) : d \in T
        <3> HIDE DEF T
        <3> QED BY <1>2, <1>3, <1>4, Induction
    <2> QED BY <1>4, <2>1
<1>6. i + (j - i) = j
    OBVIOUS
<1> QED BY <1>5, <1>6 DEF B

\* Blocks per layer of each request.
PerLayer(lens, more) == [i \in DOMAIN lens |-> CeilDiv(lens[i] + more, S)]

LEMMA PerLayerIs ==
    ASSUME NEW n \in Nat, NEW lens \in [1..n -> Nat], NEW more \in Nat
    PROVE  /\ PerLayer(lens, more) \in [1..n -> Nat] /\ Len(lens) = n
           /\ \A i \in 1..n : /\ PerLayer(lens, more)[i] = CeilDiv(lens[i] + more, S)
                              /\ lens[i] + more <= PerLayer(lens, more)[i] * S
           /\ BlocksNeeded(lens, more) = K * Before(PerLayer(lens, more), n + 1)
<1> DEFINE pers == PerLayer(lens, more)
<1>1. DOMAIN lens = 1..n /\ Len(lens) = n
    OBVIOUS
<1>2. S \in Nat /\ S >= 1
    BY SlotTypes
<1>3. ASSUME NEW i \in 1..n
      PROVE  CeilDiv(lens[i] + more, S) \in Nat /\ lens[i] + more <= CeilDiv(lens[i] + more, S) * S
    <2>1. lens[i] + more \in Nat
        OBVIOUS
    <2> QED BY <1>2, <2>1, CeilDivIs
<1>4. pers = [i \in 1..n |-> CeilDiv(lens[i] + more, S)]
    BY <1>1 DEF PerLayer
<1>5. Len(pers) = n
    BY <1>4
<1>6. BlocksNeeded(lens, more) = K * SumOf(pers)
    BY DEF BlocksNeeded, PerLayer, S, K
<1> HIDE DEF pers
<1>7. SumOf(pers) = Before(pers, n + 1)
    BY <1>5 DEF SumOf
<1> QED BY <1>1, <1>3, <1>4, <1>6, <1>7 DEF pers

\* Block b of layer l of request i, counted from 1 over the whole batch.
Nth(pers, i, l, b) == K * Before(pers, i) + ((l - 1) * pers[i] + b)

LEMMA NthIs ==
    ASSUME NEW n \in Nat, NEW pers \in [1..n -> Nat]
    PROVE  /\ \A i \in 1..n, l \in Layers : \A b \in 1..pers[i] :
                 Nth(pers, i, l, b) \in 1..(K * Before(pers, n + 1))
           /\ \A i, i2 \in 1..n, l, l2 \in Layers : \A b \in 1..pers[i], b2 \in 1..pers[i2] :
                 Nth(pers, i, l, b) = Nth(pers, i2, l2, b2) => i = i2 /\ l = l2 /\ b = b2
<1> DEFINE F == [i \in 1..(n + 1) |-> K * Before(pers, i)]
           part(i, l, b) == (l - 1) * pers[i] + b
<1>1. K \in Nat
    BY SlotTypes
<1>2. ASSUME NEW i \in 1..(n + 1) PROVE F[i] \in Nat
    BY <1>1, BeforeIs
<1>3. ASSUME NEW i \in 1..n PROVE F[i + 1] = F[i] + pers[i] * K
    <2>1. /\ Before(pers, i + 1) = Before(pers, i) + pers[i]
          /\ Before(pers, i) \in Nat /\ pers[i] \in Nat /\ i \in 1..(n + 1) /\ i + 1 \in 1..(n + 1)
        BY BeforeIs
    <2>2. K * (Before(pers, i) + pers[i]) = K * Before(pers, i) + pers[i] * K
        BY <1>1, <2>1
    <2> QED BY <2>1, <2>2
<1>4. ASSUME NEW i \in 1..(n + 1), NEW j \in i..(n + 1) PROVE F[i] <= F[j]
    <2>1. Before(pers, i) <= Before(pers, j)
        BY BeforeGrows
    <2>2. Before(pers, i) \in Nat /\ Before(pers, j) \in Nat
        BY BeforeIs
    <2>3. \A x, y \in Nat : x <= y => K * x <= K * y
        <3> SUFFICES ASSUME NEW x \in Nat, NEW y \in Nat, x <= y PROVE K * x <= K * y
            OBVIOUS
        <3>1. K * y = K * x + K * (y - x) /\ K * (y - x) \in Nat /\ K * x \in Nat
            <4>1. y - x \in Nat
                OBVIOUS
            <4> QED BY <1>1, <4>1
        <3> QED BY <3>1
    <2>4. K * Before(pers, i) <= K * Before(pers, j)
        BY <2>1, <2>2, <2>3
    <2> QED BY <2>4
<1>5. ASSUME NEW i \in 1..n, NEW l \in Layers, NEW b \in 1..pers[i]
      PROVE  Nth(pers, i, l, b) = F[i] + part(i, l, b) /\ part(i, l, b) \in 1..(pers[i] * K)
    <2>1. part(i, l, b) \in 1..(pers[i] * K)
        BY SliceInside
    <2>2. i \in 1..(n + 1)
        OBVIOUS
    <2> QED BY <2>1, <2>2 DEF Nth
<1> HIDE DEF F
<1>6. ASSUME NEW i \in 1..n, NEW l \in Layers, NEW b \in 1..pers[i]
      PROVE  /\ Nth(pers, i, l, b) \in Nat
             /\ F[i] < Nth(pers, i, l, b) /\ Nth(pers, i, l, b) <= F[i + 1]
    <2>1. F[i] \in Nat /\ F[i + 1] = F[i] + pers[i] * K /\ pers[i] * K \in Nat
        BY <1>1, <1>2, <1>3
    <2>2. Nth(pers, i, l, b) = F[i] + part(i, l, b) /\ part(i, l, b) \in 1..(pers[i] * K)
        BY <1>5
    <2> HIDE DEF part
    <2> QED BY <2>1, <2>2
<1>7. ASSUME NEW i \in 1..n, NEW l \in Layers, NEW b \in 1..pers[i]
      PROVE  Nth(pers, i, l, b) \in 1..(K * Before(pers, n + 1))
    <2>1. F[i + 1] <= F[n + 1] /\ F[i] \in Nat /\ F[n + 1] \in Nat /\ F[i + 1] \in Nat
        BY <1>2, <1>4
    <2>2. F[n + 1] = K * Before(pers, n + 1)
        BY DEF F
    <2> QED BY <1>6, <2>1, <2>2
<1>8. ASSUME NEW i \in 1..n, NEW i2 \in 1..n, NEW l \in Layers, NEW l2 \in Layers,
             NEW b \in 1..pers[i], NEW b2 \in 1..pers[i2], i < i2
      PROVE  Nth(pers, i, l, b) # Nth(pers, i2, l2, b2)
    <2>1. F[i + 1] <= F[i2] /\ F[i2] \in Nat /\ F[i + 1] \in Nat
        BY <1>2, <1>4, <1>8
    <2>2. Nth(pers, i, l, b) \in Nat /\ Nth(pers, i, l, b) <= F[i + 1]
        BY <1>6
    <2>3. Nth(pers, i2, l2, b2) \in Nat /\ F[i2] < Nth(pers, i2, l2, b2)
        BY <1>6
    <2> QED BY <2>1, <2>2, <2>3
<1>9. ASSUME NEW i \in 1..n, NEW i2 \in 1..n, NEW l \in Layers, NEW l2 \in Layers,
             NEW b \in 1..pers[i], NEW b2 \in 1..pers[i2], Nth(pers, i, l, b) = Nth(pers, i2, l2, b2)
      PROVE  i = i2 /\ l = l2 /\ b = b2
    <2>1. i = i2
        <3>1. ~(i < i2)
            BY <1>8, <1>9, Zenon
        <3>2. ~(i2 < i)
            BY <1>8, <1>9, Zenon
        <3> QED BY <3>1, <3>2
    <2>2. pers[i] \in Nat /\ F[i] \in Nat /\ b2 \in 1..pers[i]
        BY <1>2, <2>1
    <2>3. Nth(pers, i, l, b) = F[i] + part(i, l, b) /\ Nth(pers, i, l2, b2) = F[i] + part(i, l2, b2)
        BY <1>5, <2>2
    <2>4. part(i, l, b) \in Int /\ part(i, l2, b2) \in Int
        <3>1. part(i, l, b) \in 1..(pers[i] * K) /\ part(i, l2, b2) \in 1..(pers[i] * K)
            BY <1>5, <2>2
        <3> HIDE DEF part
        <3> QED BY <3>1
    <2>5. part(i, l, b) = part(i, l2, b2)
        <3> HIDE DEF part
        <3> QED BY <1>9, <2>1, <2>2, <2>3, <2>4
    <2>6. l = l2 /\ b = b2
        BY <2>2, <2>5, SlicesApart
    <2> QED BY <2>1, <2>6
<1> QED BY <1>7, <1>9

\* Tables cut out of consecutive blocks are tables of a batch.
AreConsecutive(reqs, n, pers) ==
    /\ K * Before(pers, n + 1) <= TOTAL
    /\ reqs = [i \in 1..n |-> reqs[i]]
    /\ \A i \in 1..n, l \in Layers :
          reqs[i].layer_kv[l].blocks = [b \in 1..pers[i] |-> Nth(pers, i, l, b) - 1]

\* Request i has pers[i] blocks in every layer.
HasBlocks(reqs, n, pers) == \A i \in 1..n, l \in Layers : Len(reqs[i].layer_kv[l].blocks) = pers[i]

LEMMA ConsecutiveTables ==
    ASSUME NEW n \in Nat \ {0}, NEW pers \in [1..n -> Nat], NEW reqs, AreConsecutive(reqs, n, pers)
    PROVE  BatchOK(reqs, n) /\ HasBlocks(reqs, n, pers)
<1> DEFINE end == K * Before(pers, n + 1)
<1>1. n \in Nat
    OBVIOUS
<1>2. end \in Nat /\ TOTAL \in Nat /\ end <= TOTAL
    <2>1. K \in Nat /\ TOTAL \in Nat
        BY SlotTypes
    <2>2. n + 1 \in 1..(n + 1)
        OBVIOUS
    <2>3. Before(pers, n + 1) \in Nat
        BY <1>1, <2>2, BeforeIs
    <2> QED BY <2>1, <2>3 DEF AreConsecutive
<1>3. /\ \A i \in 1..n, l \in Layers : \A b \in 1..pers[i] : Nth(pers, i, l, b) \in 1..end
      /\ \A i, i2 \in 1..n, l, l2 \in Layers : \A b \in 1..pers[i], b2 \in 1..pers[i2] :
            Nth(pers, i, l, b) = Nth(pers, i2, l2, b2) => i = i2 /\ l = l2 /\ b = b2
    BY <1>1, NthIs
<1> HIDE DEF end
<1>4. ASSUME NEW i \in 1..n, NEW l \in Layers
      PROVE  /\ reqs[i].layer_kv[l].blocks \in Seq(KvBlocks)
             /\ Len(reqs[i].layer_kv[l].blocks) = pers[i]
    <2>1. ASSUME NEW b \in 1..pers[i] PROVE Nth(pers, i, l, b) - 1 \in KvBlocks
        <3>1. Nth(pers, i, l, b) \in 1..end
            BY <1>3, Zenon
        <3> QED BY <1>2, <3>1 DEF KvBlocks
    <2>2. pers[i] \in Nat
        OBVIOUS
    <2>3. reqs[i].layer_kv[l].blocks = [b \in 1..pers[i] |-> Nth(pers, i, l, b) - 1]
        BY DEF AreConsecutive
    <2> DEFINE blocks == reqs[i].layer_kv[l].blocks
    <2> HIDE DEF blocks
    <2>4. blocks \in Seq(KvBlocks) /\ Len(blocks) = pers[i]
        BY <2>1, <2>2, <2>3 DEF blocks
    <2> QED BY <2>4 DEF blocks
<1>5. ASSUME NEW i \in 1..n, NEW i2 \in 1..n, NEW l \in Layers, NEW l2 \in Layers,
             NEW b \in 1..Len(reqs[i].layer_kv[l].blocks), NEW b2 \in 1..Len(reqs[i2].layer_kv[l2].blocks),
             reqs[i].layer_kv[l].blocks[b] = reqs[i2].layer_kv[l2].blocks[b2]
      PROVE  i = i2 /\ l = l2 /\ b = b2
    <2>1. b \in 1..pers[i] /\ b2 \in 1..pers[i2]
        BY <1>4
    <2>2. Nth(pers, i, l, b) - 1 = Nth(pers, i2, l2, b2) - 1
        <3>1. /\ reqs[i].layer_kv[l].blocks = [c \in 1..pers[i] |-> Nth(pers, i, l, c) - 1]
              /\ reqs[i2].layer_kv[l2].blocks = [c \in 1..pers[i2] |-> Nth(pers, i2, l2, c) - 1]
            BY DEF AreConsecutive
        <3> QED BY <1>5, <2>1, <3>1
    <2>3. Nth(pers, i, l, b) \in 1..end /\ Nth(pers, i2, l2, b2) \in 1..end
        BY <1>3, <2>1
    <2>4. Nth(pers, i, l, b) = Nth(pers, i2, l2, b2)
        BY <2>2, <2>3
    <2> QED BY <1>3, <2>1, <2>4
<1>6. BatchOK(reqs, n)
    BY <1>4, <1>5 DEF BatchOK, AreConsecutive
<1> QED BY <1>4, <1>6 DEF HasBlocks

\* The requests of a test fit into the pool it makes.
LEMMA TablesAre ==
    ASSUME NEW n \in Nat \ {0}, NEW lens \in [1..n -> Nat], NEW more \in Nat,
           BlocksNeeded(lens, more) <= TOTAL, NEW ids
    PROVE  /\ BatchOK(Requests(ids, lens, more), n)
           /\ \A i \in 1..n, l \in Layers : lens[i] + more <= Room(Requests(ids, lens, more), i, l)
<1> DEFINE pers == PerLayer(lens, more)
           reqs == Requests(ids, lens, more)
<1>0. n \in Nat
    OBVIOUS
<1>1. /\ pers \in [1..n -> Nat] /\ Len(lens) = n /\ DOMAIN lens = 1..n
      /\ \A i \in 1..n : pers[i] = CeilDiv(lens[i] + more, S) /\ lens[i] + more <= pers[i] * S
      /\ K * Before(pers, n + 1) <= TOTAL
    <2>1. /\ pers \in [1..n -> Nat] /\ Len(lens) = n
          /\ \A i \in 1..n : pers[i] = CeilDiv(lens[i] + more, S) /\ lens[i] + more <= pers[i] * S
          /\ BlocksNeeded(lens, more) = K * Before(pers, n + 1)
        BY <1>0, PerLayerIs
    <2> HIDE DEF pers
    <2> QED BY <2>1
<1>2. reqs = [i \in 1..n |-> reqs[i]] /\ \A i \in 1..n : reqs[i].layer_kv = Tables(lens, i, more)
    BY <1>1 DEF Requests
<1>3. ASSUME NEW i \in 1..n, NEW l \in Layers
      PROVE  Tables(lens, i, more)[l].blocks = [b \in 1..pers[i] |-> Nth(pers, i, l, b) - 1]
    <2>1. pers = [j \in DOMAIN lens |-> CeilDiv(lens[j] + more, DEFAULT_KV_BLOCK_SIZE)]
        BY DEF PerLayer, S
    <2>2. CeilDiv(lens[i] + more, DEFAULT_KV_BLOCK_SIZE) = pers[i]
        BY <1>1 DEF S
    <2> HIDE DEF pers
    <2>3. Tables(lens, i, more)[l].blocks =
             [b \in 1..pers[i] |-> K * Before(pers, i) + (l - 1) * pers[i] + b - 1]
        BY <2>1, <2>2 DEF Tables, Layers, K
    <2>4. ASSUME NEW b \in 1..pers[i]
          PROVE  K * Before(pers, i) + (l - 1) * pers[i] + b - 1 = Nth(pers, i, l, b) - 1
        <3>1. K * Before(pers, i) \in Int
            <4>1. K \in Nat /\ Before(pers, i) \in Nat
                <5>1. i \in 1..(n + 1)
                    OBVIOUS
                <5> QED BY <1>0, <1>1, <5>1, BeforeIs, SlotTypes
            <4> QED BY <4>1
        <3>2. (l - 1) * pers[i] \in Int /\ b \in Int
            <4>1. pers[i] \in Nat /\ l - 1 \in Int
                BY <1>1 DEF Layers
            <4> QED BY <4>1
        <3> QED BY <3>1, <3>2 DEF Nth
    <2> QED BY <2>3, <2>4
<1> HIDE DEF pers, reqs
<1>4. ASSUME NEW i \in 1..n, NEW l \in Layers
      PROVE  reqs[i].layer_kv[l].blocks = [b \in 1..pers[i] |-> Nth(pers, i, l, b) - 1]
    BY <1>2, <1>3
<1>5. BatchOK(reqs, n) /\ HasBlocks(reqs, n, pers)
    <2>1. AreConsecutive(reqs, n, pers)
        BY <1>1, <1>2, <1>4 DEF AreConsecutive
    <2> QED BY <1>1, <2>1, ConsecutiveTables
<1>6. ASSUME NEW i \in 1..n, NEW l \in Layers PROVE lens[i] + more <= Room(reqs, i, l)
    BY <1>1, <1>5 DEF HasBlocks, Room
<1> QED BY <1>5, <1>6 DEF reqs

-----------------------------------------------------------------------------
(* What the model answers to the requests of a test. *)

Text(ids, lens, i) == SubSeq(ids, Before(lens, i) + 1, Before(lens, i) + lens[i])
Elements(ids) == {ids[j] : j \in Nat}

\* The first n elements are those of ids behind position c.
AreFrom(text, ids, c, n) == \A j \in 1..n : text[j] = ids[c + j]

LEMMA TextIs ==
    ASSUME NEW n \in Nat, NEW lens \in [1..n -> Nat], NEW i \in 1..n, NEW ids
    PROVE  /\ Text(ids, lens, i) \in Seq(Elements(ids)) /\ Len(Text(ids, lens, i)) = lens[i]
           /\ AreFrom(Text(ids, lens, i), ids, Before(lens, i), lens[i])
<1> DEFINE first == Before(lens, i) + 1
           last == Before(lens, i) + lens[i]
<1>1. Before(lens, i) \in Nat /\ lens[i] \in Nat
    <2>1. i \in 1..(n + 1)
        OBVIOUS
    <2> QED BY <2>1, BeforeIs
<1>2. first \in Int /\ last \in Int /\ first..last \subseteq Nat
    BY <1>1
<1>3. (IF first <= last THEN last - first + 1 ELSE 0) = lens[i]
    BY <1>1
<1>7. ASSUME NEW j \in 1..lens[i] PROVE j \in 1..(last - first + 1) /\ first + j - 1 = Before(lens, i) + j
    BY <1>1
<1> HIDE DEF first, last
<1>4. \A j \in first..last : ids[j] \in Elements(ids)
    BY <1>2 DEF Elements
<1>5. /\ SubSeq(ids, first, last) \in Seq(Elements(ids)) /\ Len(SubSeq(ids, first, last)) = lens[i]
      /\ \A j \in 1..(last - first + 1) : SubSeq(ids, first, last)[j] = ids[first + j - 1]
    BY <1>2, <1>3, <1>4, SubSeqProperties
<1>6. ASSUME NEW j \in 1..lens[i] PROVE SubSeq(ids, first, last)[j] = ids[Before(lens, i) + j]
    <2>1. j \in 1..(last - first + 1) /\ first + j - 1 = Before(lens, i) + j
        BY <1>7
    <2> QED BY <1>5, <2>1
<1> QED BY <1>5, <1>6 DEF Text, AreFrom, first, last

\* Lengths a test goes on with: no prompt is empty, and the pool is large enough.
AreLengths(n, lens, more) ==
    /\ n \in Nat \ {0} /\ more \in Nat
    /\ lens \in [1..n -> Nat] /\ \A i \in 1..n : lens[i] > 0
    /\ BlocksNeeded(lens, more) <= TOTAL

LEMMA RequestsAre ==
    ASSUME NEW n, NEW lens, NEW more, AreLengths(n, lens, more), NEW ids
    PROVE  LET reqs == Requests(ids, lens, more)
           IN  /\ DOMAIN reqs = 1..n
               /\ BatchOK(reqs, n) /\ PrefillOK(reqs, n)
               /\ \A i \in 1..n : /\ reqs[i].prompts_len = lens[i]
                                  /\ reqs[i].tokens = Text(ids, lens, i)
                                  /\ Prompt(reqs, i) = Text(ids, lens, i)
                                  /\ DOMAIN reqs[i].layer_kv = Layers
               /\ \A i \in 1..n, l \in Layers : lens[i] + more <= Room(reqs, i, l)
<1> DEFINE reqs == Requests(ids, lens, more)
<1>1. n \in Nat \ {0} /\ n \in Nat /\ more \in Nat /\ lens \in [1..n -> Nat] /\ BlocksNeeded(lens, more) <= TOTAL
      /\ \A i \in 1..n : lens[i] \in Nat \ {0}
    BY DEF AreLengths
<1>2. DOMAIN lens = 1..n
    BY <1>1
<1>3. DOMAIN reqs = 1..n
    BY <1>2 DEF Requests
<1>4. ASSUME NEW i \in 1..n
      PROVE  reqs[i].prompts_len = lens[i] /\ reqs[i].tokens = Text(ids, lens, i)
             /\ DOMAIN reqs[i].layer_kv = Layers
    BY <1>2 DEF Requests, Text, Tables, Layers
<1>5. BatchOK(reqs, n) /\ \A i \in 1..n, l \in Layers : lens[i] + more <= Room(reqs, i, l)
    BY <1>1, TablesAre
<1> HIDE DEF reqs
<1>6. ASSUME NEW i \in 1..n PROVE Prompt(reqs, i) = Text(ids, lens, i)
    <2> DEFINE text == Text(ids, lens, i)
    <2>1. text \in Seq(Elements(ids)) /\ Len(text) = lens[i]
        BY <1>1, TextIs
    <2> HIDE DEF text
    <2>2. text = [t \in 1..lens[i] |-> text[t]]
        BY <2>1
    <2>3. reqs[i].prompts_len = lens[i] /\ reqs[i].tokens = text
        BY <1>4 DEF text
    <2> QED BY <2>2, <2>3 DEF Prompt, text
<1>7. ASSUME NEW i \in 1..n, NEW l \in Layers PROVE lens[i] <= Room(reqs, i, l)
    <2>1. Room(reqs, i, l) \in Nat
        BY <1>5, RoomIs
    <2> QED BY <1>1, <1>5, <2>1
<1>8. PrefillOK(reqs, n)
    BY <1>1, <1>4, <1>5, <1>7 DEF PrefillOK
<1> QED BY <1>3, <1>4, <1>5, <1>6, <1>8 DEF reqs

LEMMA EmptyPoolIsPool == IsPool(EmptyPool)
BY DEF IsPool, EmptyPool

\* The logits of the texts without a cache, and of the texts with a token behind each.
FullRows(n, ids, lens) == [i \in 1..n |-> FullLogits(Text(ids, lens, i))]
NextRows(n, ids, lens, toks) == [i \in 1..n |-> FullLogits(Append(Text(ids, lens, i), toks[i]))]

\* The prefill of the texts one behind the other answers as if there were no cache.
LEMMA PrefillLogitsAre ==
    ASSUME NEW n, NEW lens, NEW more, AreLengths(n, lens, more), NEW ids
    PROVE  PrefillLogits(Requests(ids, lens, more)) = FullRows(n, ids, lens)
<1> DEFINE reqs == Requests(ids, lens, more)
           end == Prefill(reqs, EmptyPool)
<1>1. DOMAIN reqs = 1..n /\ PrefillOK(reqs, n) /\ \A i \in 1..n : Prompt(reqs, i) = Text(ids, lens, i)
    BY RequestsAre
<1> HIDE DEF reqs
<1>2. PrefillDone(reqs, n, EmptyPool, end)
    BY <1>1, EmptyPoolIsPool, PrefillIs
<1>3. end.logits = [i \in 1..n |-> end.logits[i]]
    BY <1>1 DEF Prefill
<1> HIDE DEF end
<1>4. \A i \in 1..n : end.logits[i] = FullLogits(Text(ids, lens, i))
    BY <1>1, <1>2 DEF PrefillDone
<1>5. end.logits = [i \in 1..n |-> FullLogits(Text(ids, lens, i))]
    BY <1>3, <1>4
<1> QED BY <1>5 DEF PrefillLogits, FullRows, reqs, end
-----------------------------------------------------------------------------
LEMMA AfterPrefillIs ==
    ASSUME NEW n, NEW lens, NEW more, AreLengths(n, lens, more), NEW ids, NEW toks, more >= 1
    PROVE  LET reqs  == Requests(ids, lens, more)
               after == AfterPrefill(reqs, toks)
           IN  /\ DOMAIN after = 1..n /\ after = [i \in 1..n |-> after[i]]
               /\ \A i \in 1..n : after[i].tokens = Append(Text(ids, lens, i), toks[i])
               /\ \A i \in 1..n, l \in Layers :
                     /\ after[i].layer_kv[l].blocks = reqs[i].layer_kv[l].blocks
                     /\ after[i].layer_kv[l].tokens = lens[i]
<1> DEFINE reqs == Requests(ids, lens, more)
           after == AfterPrefill(reqs, toks)
<1>1. DOMAIN reqs = 1..n /\ \A i \in 1..n : /\ reqs[i].prompts_len = lens[i]
                                            /\ reqs[i].tokens = Text(ids, lens, i)
    BY RequestsAre
<1>2. DOMAIN lens = 1..n
    BY DEF AreLengths
<1>3. ASSUME NEW i \in 1..n
      PROVE  /\ reqs[i] = [tokens |-> Text(ids, lens, i), prompts_len |-> lens[i], layer_kv |-> Tables(lens, i, more)]
             /\ Tables(lens, i, more) = [l \in Layers |-> [blocks |-> Tables(lens, i, more)[l].blocks, tokens |-> 0]]
    <2>1. Text(ids, lens, i) = SubSeq(ids, Before(lens, i) + 1, Before(lens, i) + lens[i])
        BY DEF Text
    <2>2. reqs = [j \in 1..n |->
             [tokens |-> SubSeq(ids, Before(lens, j) + 1, Before(lens, j) + lens[j]),
              prompts_len |-> lens[j], layer_kv |-> Tables(lens, j, more)]]
        BY <1>2 DEF Requests
    <2> HIDE DEF reqs
    <2>3. reqs[i] = [tokens |-> Text(ids, lens, i), prompts_len |-> lens[i], layer_kv |-> Tables(lens, i, more)]
        BY <2>1, <2>2
    <2>4. Tables(lens, i, more) = [l \in Layers |-> [blocks |-> Tables(lens, i, more)[l].blocks, tokens |-> 0]]
        BY DEF Tables, Layers
    <2> QED BY <2>3, <2>4
<1> HIDE DEF reqs
<1>4. after = [i \in 1..n |->
                 [reqs[i] EXCEPT !.tokens   = Append(@, toks[i]),
                                 !.layer_kv = [l \in DOMAIN @ |-> [@[l] EXCEPT !.tokens = reqs[i].prompts_len]]]]
    BY <1>1 DEF AfterPrefill
<1>5. ASSUME NEW i \in 1..n
      PROVE  /\ after[i].tokens = Append(Text(ids, lens, i), toks[i])
             /\ \A l \in Layers : /\ after[i].layer_kv[l].blocks = reqs[i].layer_kv[l].blocks
                                  /\ after[i].layer_kv[l].tokens = lens[i]
    <2> DEFINE q           == reqs[i]
               tokens      == Text(ids, lens, i)
               prompts_len == lens[i]
               layer_kv    == Tables(lens, i, more)
               marked      == [l \in DOMAIN layer_kv |-> [layer_kv[l] EXCEPT !.tokens = prompts_len]]
    <2>1. /\ q = [tokens |-> tokens, prompts_len |-> prompts_len, layer_kv |-> layer_kv]
          /\ layer_kv = [l \in Layers |-> [blocks |-> layer_kv[l].blocks, tokens |-> 0]]
        BY <1>3
    <2>2. after[i] = [q EXCEPT !.tokens   = Append(@, toks[i]),
                               !.layer_kv = [l \in DOMAIN @ |-> [@[l] EXCEPT !.tokens = q.prompts_len]]]
        BY <1>4
    <2> HIDE DEF q, tokens, prompts_len, layer_kv
    <2>3. /\ after[i].tokens = Append(tokens, toks[i])
          /\ after[i].layer_kv = marked
        <3>1. /\ q.tokens = tokens /\ q.layer_kv = layer_kv /\ q.prompts_len = prompts_len
              /\ DOMAIN q = {"tokens", "prompts_len", "layer_kv"}
            BY <2>1
        <3> HIDE DEF after
        <3> QED BY <2>2, <3>1
    <2>4. ASSUME NEW l \in Layers
          PROVE  /\ after[i].layer_kv[l].blocks = layer_kv[l].blocks
                 /\ after[i].layer_kv[l].tokens = prompts_len
        <3>1. layer_kv[l] = [blocks |-> layer_kv[l].blocks, tokens |-> 0] /\ l \in DOMAIN layer_kv
            BY <2>1
        <3>2. after[i].layer_kv[l] = [layer_kv[l] EXCEPT !.tokens = prompts_len]
            BY <2>3, <3>1
        <3> HIDE DEF after
        <3> DEFINE kv == layer_kv[l]
        <3>3. kv = [blocks |-> kv.blocks, tokens |-> 0] /\ after[i].layer_kv[l] = [kv EXCEPT !.tokens = prompts_len]
            BY <3>1, <3>2
        <3> HIDE DEF kv
        <3>4. [kv EXCEPT !.tokens = prompts_len] = [blocks |-> kv.blocks, tokens |-> prompts_len]
            BY <3>3
        <3> QED BY <3>3, <3>4 DEF kv
    <2>5. reqs[i].layer_kv = layer_kv
        BY <2>1 DEF q
    <2> HIDE DEF after
    <2> QED BY <2>3, <2>4, <2>5 DEF tokens, prompts_len
<1>6. DOMAIN after = 1..n /\ after = [i \in 1..n |-> after[i]]
    BY <1>4
<1> QED BY <1>5, <1>6 DEF reqs

-----------------------------------------------------------------------------
\* A text with a token behind it.
LEMMA AppendIs ==
    ASSUME NEW X, NEW s \in Seq(X), NEW e
    PROVE  /\ Len(Append(s, e)) = Len(s) + 1 /\ DOMAIN Append(s, e) = 1..(Len(s) + 1)
           /\ \A t \in 1..Len(s) : Append(s, e)[t] = s[t]
           /\ BeginAlike(s, Append(s, e), Len(s))
<1> DEFINE u == Append(s, e)
<1>1. /\ u \in Seq(X \cup {e}) /\ Len(u) = Len(s) + 1
      /\ \A i \in 1..Len(s) : u[i] = s[i]
    <2>1. s \in Seq(X \cup {e}) /\ e \in X \cup {e}
        OBVIOUS
    <2> QED BY <2>1, AppendProperties
<1> HIDE DEF u
<1>2. DOMAIN u = 1..(Len(s) + 1)
    BY <1>1
<1>3. Len(s) \in Nat /\ DOMAIN s = 1..Len(s) /\ Len(s) + 1 \in Nat /\ Len(s) <= Len(s) /\ Len(s) <= Len(s) + 1
    OBVIOUS
<1>4. BeginAlike(s, u, Len(s))
    BY <1>1, <1>2, <1>3 DEF BeginAlike
<1> QED BY <1>1, <1>2, <1>4 DEF u

\* What the prefill leaves, marked as cached, is ready for a decode.
LEMMA ReadyAfterPrefill ==
    ASSUME NEW n, NEW lens, NEW more, AreLengths(n, lens, more), more >= 1, NEW ids, NEW toks
    PROVE  LET reqs  == Requests(ids, lens, more)
               after == AfterPrefill(reqs, toks)
               m     == Prefill(reqs, EmptyPool).pool
           IN  DecodeOK(after, n) /\ IsPool(m) /\ DecodeReady(after, n, m)
<1> DEFINE reqs  == Requests(ids, lens, more)
           after == AfterPrefill(reqs, toks)
           end   == Prefill(reqs, EmptyPool)
           text(i) == Text(ids, lens, i)
<1>1. /\ BatchOK(reqs, n) /\ PrefillOK(reqs, n)
      /\ \A i \in 1..n : reqs[i].prompts_len = lens[i] /\ Prompt(reqs, i) = text(i)
      /\ \A i \in 1..n, l \in Layers : lens[i] + more <= Room(reqs, i, l)
    BY RequestsAre
<1>2. /\ after = [i \in 1..n |-> after[i]]
      /\ \A i \in 1..n : after[i].tokens = Append(text(i), toks[i])
      /\ \A i \in 1..n, l \in Layers :
            /\ after[i].layer_kv[l].blocks = reqs[i].layer_kv[l].blocks
            /\ after[i].layer_kv[l].tokens = lens[i]
    BY AfterPrefillIs
<1> HIDE DEF reqs, after
<1>3. PrefillDone(reqs, n, EmptyPool, end)
    BY <1>1, EmptyPoolIsPool, PrefillIs
<1> HIDE DEF end
<1>4. n \in Nat \ {0} /\ n \in Nat /\ more \in Nat /\ lens \in [1..n -> Nat] /\ \A i \in 1..n : lens[i] \in Nat \ {0}
    BY DEF AreLengths
<1>5. ASSUME NEW i \in 1..n
      PROVE  /\ text(i) \in Seq(Elements(ids)) /\ Len(text(i)) = lens[i]
             /\ Len(after[i].tokens) = lens[i] + 1 /\ DOMAIN after[i].tokens = 1..(lens[i] + 1)
             /\ BeginAlike(text(i), after[i].tokens, lens[i])
    <2>1. text(i) \in Seq(Elements(ids)) /\ Len(text(i)) = lens[i]
        BY <1>4, TextIs
    <2>2. after[i].tokens = Append(text(i), toks[i])
        BY <1>2
    <2> HIDE DEF text
    <2> QED BY <2>1, <2>2, AppendIs
<1> HIDE DEF text
<1>6. BatchOK(after, n)
    <2>1. ASSUME NEW i \in 1..n, NEW l \in Layers PROVE after[i].layer_kv[l].blocks \in Seq(KvBlocks)
        <3>1. reqs[i].layer_kv[l].blocks \in Seq(KvBlocks)
            BY <1>1 DEF BatchOK
        <3> QED BY <1>2, <3>1
    <2>2. ASSUME NEW i \in 1..n, NEW i2 \in 1..n, NEW l \in Layers, NEW l2 \in Layers,
                 NEW j \in 1..Len(after[i].layer_kv[l].blocks), NEW j2 \in 1..Len(after[i2].layer_kv[l2].blocks),
                 after[i].layer_kv[l].blocks[j] = after[i2].layer_kv[l2].blocks[j2]
          PROVE  i = i2 /\ l = l2 /\ j = j2
        <3> DEFINE blocks(k, p) == reqs[k].layer_kv[p].blocks
        <3>1. /\ after[i].layer_kv[l].blocks = reqs[i].layer_kv[l].blocks
              /\ after[i2].layer_kv[l2].blocks = reqs[i2].layer_kv[l2].blocks
            BY <1>2
        <3>2. /\ j \in 1..Len(blocks(i, l)) /\ j2 \in 1..Len(blocks(i2, l2))
              /\ blocks(i, l)[j] = blocks(i2, l2)[j2]
            BY <2>2, <3>1
        <3>3. \A k, k2 \in 1..n, p, p2 \in Layers :
                 \A q \in 1..Len(blocks(k, p)), q2 \in 1..Len(blocks(k2, p2)) :
                    blocks(k, p)[q] = blocks(k2, p2)[q2] => k = k2 /\ p = p2 /\ q = q2
            BY <1>1 DEF BatchOK
        <3> HIDE DEF blocks
        <3> QED BY <3>2, <3>3
    <2> QED BY <1>2, <1>4, <2>1, <2>2 DEF BatchOK
<1>7. ASSUME NEW i \in 1..n, NEW l \in Layers
      PROVE  lens[i] + 1 <= Room(after, i, l)
    <2>1. Room(after, i, l) = Room(reqs, i, l)
        BY <1>2 DEF Room
    <2>2. Room(reqs, i, l) \in Nat /\ lens[i] + more <= Room(reqs, i, l)
        BY <1>1, RoomIs
    <2> QED BY <1>4, <2>1, <2>2
<1>8. DecodeOK(after, n)
    <2>1. ASSUME NEW i \in 1..n
          PROVE  Len(after[i].tokens) \in Nat \ {0} /\ DOMAIN after[i].tokens = 1..Len(after[i].tokens)
        BY <1>4, <1>5
    <2>2. ASSUME NEW i \in 1..n, NEW l \in Layers
          PROVE  /\ after[i].layer_kv[l].tokens = Len(after[i].tokens) - 1
                 /\ Len(after[i].tokens) <= Room(after, i, l)
        BY <1>2, <1>4, <1>5, <1>7
    <2> QED BY <1>6, <2>1, <2>2 DEF DecodeOK
<1>9. ASSUME NEW i \in 1..n, NEW l \in Layers, NEW t \in 1..lens[i]
      PROVE  At(end.pool, after[i].layer_kv, l, t) = Entry(l, FullHidden(after[i].tokens, l - 1)[t])
    <2>1. At(end.pool, reqs[i].layer_kv, l, t) = Entry(l, FullHidden(text(i), l - 1)[t])
        BY <1>1, <1>3 DEF PrefillDone, CacheHas
    <2>2. At(end.pool, after[i].layer_kv, l, t) = At(end.pool, reqs[i].layer_kv, l, t)
        <3>1. after[i].layer_kv[l].blocks = reqs[i].layer_kv[l].blocks
            BY <1>2
        <3> QED BY <3>1 DEF At, BlockOf
    <2>3. FullHidden(after[i].tokens, l - 1)[t] = FullHidden(text(i), l - 1)[t]
        <3>1. l - 1 \in Nat
            BY SlotTypes DEF Layers
        <3> QED BY <1>5, <3>1, HiddenOfStart
    <2> QED BY <2>1, <2>2, <2>3
<1>10. DecodeReady(after, n, end.pool)
    <2>1. ASSUME NEW i \in 1..n, NEW l \in Layers, NEW t \in 1..(Len(after[i].tokens) - 1)
          PROVE  At(end.pool, after[i].layer_kv, l, t) = Entry(l, FullHidden(after[i].tokens, l - 1)[t])
        <3>1. Len(after[i].tokens) = lens[i] + 1 /\ lens[i] \in Nat
            BY <1>4, <1>5, Zenon
        <3>2. t \in 1..lens[i]
            BY <3>1
        <3> QED BY <1>9, <3>2, Zenon
    <2> QED BY <2>1 DEF DecodeReady, HasAllButLast, CacheHas
<1> QED BY <1>3, <1>8, <1>10 DEF PrefillDone, reqs, after, end

\* The decode of one token behind each text answers as if there were no cache.
LEMMA DecodeLogitsAre ==
    ASSUME NEW n, NEW lens, NEW more, AreLengths(n, lens, more), more >= 1, NEW ids, NEW toks
    PROVE  DecodeLogits(Requests(ids, lens, more), toks) = NextRows(n, ids, lens, toks)
<1> DEFINE reqs  == Requests(ids, lens, more)
           after == AfterPrefill(reqs, toks)
           m     == Prefill(reqs, EmptyPool).pool
           end   == Decode(after, m)
<1>1. DOMAIN after = 1..n /\ \A i \in 1..n : after[i].tokens = Append(Text(ids, lens, i), toks[i])
    BY AfterPrefillIs
<1>2. DecodeOK(after, n) /\ IsPool(m) /\ DecodeReady(after, n, m)
    BY ReadyAfterPrefill
<1>3. DecodeLogits(reqs, toks) = end.logits
    BY DEF DecodeLogits
<1> HIDE DEF reqs, after, m
<1>4. DecodeDone(after, n, m, end)
    BY <1>2, DecodeIs
<1>5. end.logits = [i \in 1..n |-> end.logits[i]]
    BY <1>1 DEF Decode
<1> HIDE DEF end
<1>6. \A i \in 1..n : end.logits[i] = FullLogits(Append(Text(ids, lens, i), toks[i]))
    BY <1>1, <1>4 DEF DecodeDone
<1>7. end.logits = [i \in 1..n |-> FullLogits(Append(Text(ids, lens, i), toks[i]))]
    BY <1>5, <1>6
<1> QED BY <1>3, <1>7 DEF NextRows, reqs

-----------------------------------------------------------------------------
(* What a test makes of what it has read. *)

IsList(s) == Len(s) \in Nat /\ s = [i \in 1..Len(s) |-> s[i]]

\* The rows all agree exactly when the logits are those of the file.
LEMMA CompareIs ==
    ASSUME NEW n \in Nat, NEW g, g = [i \in 1..n |-> g[i]],
           NEW expected, IsList(expected), Len(expected) = n
    PROVE  Compare(g, expected) = "pass" <=> expected = g
<1>1. expected = [i \in 1..n |-> expected[i]] /\ DOMAIN g = 1..n
    BY DEF IsList
<1>2. (\A row \in 1..n : g[row] = expected[row]) <=> expected = g
    <2>1. ASSUME \A row \in 1..n : g[row] = expected[row] PROVE expected = g
        <3>1. [i \in 1..n |-> expected[i]] = [i \in 1..n |-> g[i]]
            BY <2>1
        <3> QED BY <1>1, <3>1
    <2> QED BY <2>1
<1>3. Compare(g, expected) = "pass" <=> \A row \in DOMAIN g : g[row] = expected[row]
    BY DEF Compare
<1> QED BY <1>1, <1>2, <1>3

LEMMA NotRefused ==
    ASSUME NEW lens \in Seq(Nat), NEW more \in Nat, NEW ids, ~BatchRefused(ids, lens, more)
    PROVE  AreLengths(Len(lens), lens, more)
<1>1. Len(lens) \in Nat \ {0} /\ lens \in [1..Len(lens) -> Nat] /\ DOMAIN lens = 1..Len(lens)
    BY DEF BatchRefused
<1>2. \A i \in 1..Len(lens) : lens[i] > 0
    <2>1. \A i \in DOMAIN lens : ~(lens[i] <= 0)
        BY Zenon DEF BatchRefused, Refused
    <2>2. ASSUME NEW i \in 1..Len(lens) PROVE lens[i] \in Nat /\ ~(lens[i] <= 0)
        BY <1>1, <2>1, Zenon
    <2> QED BY <2>2
<1>3. BlocksNeeded(lens, more) <= TOTAL
    <2>1. BlocksNeeded(lens, more) \in Int
        <3> DEFINE n == Len(lens)
        <3>1. n \in Nat /\ lens \in [1..n -> Nat]
            BY <1>1
        <3>2. BlocksNeeded(lens, more) = K * Before(PerLayer(lens, more), n + 1)
              /\ PerLayer(lens, more) \in [1..n -> Nat]
            <4> HIDE DEF n
            <4> QED BY <3>1, PerLayerIs
        <3>3. Before(PerLayer(lens, more), n + 1) \in Nat
            <4>1. n + 1 \in 1..(n + 1)
                BY <3>1
            <4> HIDE DEF n
            <4> QED BY <3>1, <3>2, <4>1, BeforeIs
        <3> QED BY <3>2, <3>3, SlotTypes
    <2>2. ~(BlocksNeeded(lens, more) > TOTAL)
        BY DEF BatchRefused, TOTAL
    <2> QED BY <2>1, <2>2, SlotTypes
<1> QED BY <1>1, <1>2, <1>3 DEF AreLengths

\* The batched tests come to compare.
PrefillGoesOn(ids, lens, expected) == ~BatchRefused(ids, lens, 0) /\ Len(expected) = Len(lens)
DecodeGoesOn(ids, lens, toks, expected) ==
    ~BatchRefused(ids, lens, 1) /\ Len(toks) = Len(lens) /\ Len(expected) = Len(lens)

\* A batched test passes exactly when what it goes on with has the logits of the
\* full recompute.
LEMMA BatchPrefillVerdictIs ==
    ASSUME NEW ids, NEW lens \in Seq(Nat), NEW expected, IsList(expected)
    PROVE  BatchPrefillVerdict(ids, lens, expected) = "pass" <=>
              PrefillGoesOn(ids, lens, expected) /\ expected = FullRows(Len(lens), ids, lens)
<1> DEFINE g == PrefillLogits(Requests(ids, lens, 0))
           right == FullRows(Len(lens), ids, lens)
<1>1. CASE BatchRefused(ids, lens, 0) \/ Len(expected) # Len(lens)
    BY <1>1 DEF BatchPrefillVerdict, PrefillGoesOn
<1>2. CASE ~BatchRefused(ids, lens, 0) /\ Len(expected) = Len(lens)
    <2>1. BatchPrefillVerdict(ids, lens, expected) = Compare(g, expected)
        BY <1>2 DEF BatchPrefillVerdict, PrefillGoesOn
    <2>2. AreLengths(Len(lens), lens, 0) /\ Len(lens) \in Nat /\ DOMAIN lens = 1..Len(lens)
        BY <1>2, NotRefused
    <2>3. g = right
        BY <2>2, PrefillLogitsAre
    <2>4. g = [i \in 1..Len(lens) |-> g[i]]
        BY <2>3 DEF FullRows
    <2> HIDE DEF g
    <2>5. Compare(g, expected) = "pass" <=> expected = g
        BY <1>2, <2>2, <2>4, CompareIs
    <2> QED BY <1>2, <2>1, <2>2, <2>3, <2>5 DEF PrefillGoesOn
<1> QED BY <1>1, <1>2

LEMMA BatchDecodeVerdictIs ==
    ASSUME NEW ids, NEW lens \in Seq(Nat), NEW toks, NEW expected, IsList(expected)
    PROVE  BatchDecodeVerdict(ids, lens, toks, expected) = "pass" <=>
              DecodeGoesOn(ids, lens, toks, expected) /\ expected = NextRows(Len(lens), ids, lens, toks)
<1> DEFINE g == DecodeLogits(Requests(ids, lens, 1), toks)
           right == NextRows(Len(lens), ids, lens, toks)
<1>1. CASE BatchRefused(ids, lens, 1) \/ Len(toks) # Len(lens) \/ Len(expected) # Len(lens)
    BY <1>1 DEF BatchDecodeVerdict, DecodeGoesOn
<1>2. CASE ~BatchRefused(ids, lens, 1) /\ Len(toks) = Len(lens) /\ Len(expected) = Len(lens)
    <2>1. BatchDecodeVerdict(ids, lens, toks, expected) = Compare(g, expected)
        BY <1>2 DEF BatchDecodeVerdict, DecodeGoesOn
    <2>2. AreLengths(Len(lens), lens, 1) /\ Len(lens) \in Nat /\ DOMAIN lens = 1..Len(lens)
        BY <1>2, NotRefused
    <2>3. g = right
        BY <2>2, DecodeLogitsAre
    <2>4. g = [i \in 1..Len(lens) |-> g[i]]
        BY <2>3 DEF NextRows
    <2> HIDE DEF g
    <2>5. Compare(g, expected) = "pass" <=> expected = g
        BY <1>2, <2>2, <2>4, CompareIs
    <2> QED BY <1>2, <2>1, <2>2, <2>3, <2>5 DEF DecodeGoesOn
<1> QED BY <1>1, <1>2
-----------------------------------------------------------------------------
LEMMA BlocksOfOne ==
    ASSUME NEW n \in Nat, n = 1, NEW lens \in [1..n -> Nat], NEW more \in Nat
    PROVE  BlocksNeeded(lens, more) = K * CeilDiv(lens[1] + more, S)
<1> DEFINE pers == PerLayer(lens, more)
<1>1. /\ pers \in [1..n -> Nat]
      /\ \A i \in 1..n : pers[i] = CeilDiv(lens[i] + more, S)
      /\ BlocksNeeded(lens, more) = K * Before(pers, n + 1)
    BY PerLayerIs
<1> HIDE DEF pers
<1>2. Before(pers, 1) = 0 /\ \A i \in 1..n : Before(pers, i + 1) = Before(pers, i) + pers[i]
    BY <1>1, BeforeIs
<1>3. 1 \in 1..n /\ n + 1 = 1 + 1 /\ pers[1] \in Nat
    BY <1>1
<1>4. Before(pers, 1 + 1) = Before(pers, 1) + pers[1]
    BY <1>2, <1>3
<1>5. Before(pers, n + 1) = CeilDiv(lens[1] + more, S)
    BY <1>1, <1>2, <1>3, <1>4
<1> QED BY <1>1, <1>5

\* One text, no longer than the pool of the tests is made for.
LEMMA OneText ==
    ASSUME NEW ids, IsList(ids), Len(ids) > 0, NEW more \in 0..1, Len(ids) <= PROMPT_LEN,
           NEW lens, lens = <<Len(ids)>>
    PROVE  AreLengths(1, lens, more) /\ Text(ids, lens, 1) = ids
<1> DEFINE k == Len(ids)
<1>1. k \in Nat \ {0} /\ lens \in [1..1 -> Nat] /\ lens[1] = k /\ more \in Nat /\ PROMPT_LEN \in Nat
    BY ModelFilesAssumption DEF IsList
<1>2. IsList(ids) /\ k <= PROMPT_LEN
    OBVIOUS
<1> HIDE DEF k
<1>3. Before(lens, 1) = 0
    BY <1>1, BeforeIs
<1>4. Text(ids, lens, 1) = ids
    <2>1. ids \in Seq(Elements(ids))
        <3>1. \A i \in 1..k : ids[i] \in Elements(ids)
            BY <1>1 DEF Elements
        <3> QED BY <1>1, <1>2, <3>1 DEF IsList, k
    <2>2. SubSeq(ids, 1, k) = ids
        BY <2>1 DEF k
    <2>3. Before(lens, 1) + 1 = 1 /\ Before(lens, 1) + lens[1] = k
        BY <1>1, <1>3
    <2> QED BY <2>2, <2>3 DEF Text
<1>5. BlocksNeeded(lens, more) <= TOTAL
    <2>1. BlocksNeeded(lens, more) = K * CeilDiv(k + more, S)
        <3>1. 1 \in Nat
            OBVIOUS
        <3>2. BlocksNeeded(lens, more) = K * CeilDiv(lens[1] + more, S)
            BY <1>1, <3>1, BlocksOfOne
        <3> QED BY <1>1, <3>2
    <2>3. CeilDiv(k + more, S) <= CeilDiv(PROMPT_LEN + 1, S)
        <3>1. k + more \in Nat /\ PROMPT_LEN + 1 \in Nat /\ k + more <= PROMPT_LEN + 1
            BY <1>1, <1>2
        <3>2. S \in Nat /\ S >= 1
            BY SlotTypes
        <3> QED BY <3>1, <3>2, CeilDivMonotone
    <2>4. CeilDiv(k + more, S) \in Nat /\ CeilDiv(PROMPT_LEN + 1, S) \in Nat
        <3>1. k + more \in Nat /\ PROMPT_LEN + 1 \in Nat
            BY <1>1
        <3>2. S \in Nat /\ S >= 1
            BY SlotTypes
        <3> QED BY <3>1, <3>2, CeilDivIs
    <2>5. K * CeilDiv(PROMPT_LEN + 1, S) <= TOTAL
        BY ModelFilesAssumption DEF S, K, TOTAL
    <2>6. \A x, y \in Nat : x <= y => K * x <= K * y
        <3> SUFFICES ASSUME NEW x \in Nat, NEW y \in Nat, x <= y PROVE K * x <= K * y
            OBVIOUS
        <3>1. K * y = K * x + K * (y - x) /\ K * (y - x) \in Nat /\ K * x \in Nat
            BY SlotTypes
        <3> QED BY <3>1
    <2>7. K * CeilDiv(k + more, S) <= K * CeilDiv(PROMPT_LEN + 1, S)
        BY <2>3, <2>4, <2>6
    <2>8. K * CeilDiv(k + more, S) \in Nat /\ K * CeilDiv(PROMPT_LEN + 1, S) \in Nat /\ TOTAL \in Nat
        BY <2>4, SlotTypes
    <2> QED BY <2>1, <2>5, <2>7, <2>8
<1>6. AreLengths(1, lens, more)
    BY <1>1, <1>5 DEF AreLengths
<1> QED BY <1>4, <1>6 DEF k

-----------------------------------------------------------------------------
LEMMA OneRow ==
    ASSUME NEW g, NEW x, g = [i \in 1..1 |-> g[i]], g[1] = x, NEW expected, IsList(expected), Len(expected) = 1
    PROVE  Compare(g, expected) = "pass" <=> expected = <<x>>
<1> DEFINE n == 1
<1>1. n \in Nat /\ g = [i \in 1..n |-> g[i]] /\ Len(expected) = n
    OBVIOUS
<1>2. Compare(g, expected) = "pass" <=> expected = g
    <2> HIDE DEF n
    <2> QED BY <1>1, CompareIs
<1>3. g = <<x>>
    OBVIOUS
<1> QED BY <1>2, <1>3

\* A test of one text passes exactly when the file has the logits of the full
\* recompute.
LEMMA PrefillVerdictIs ==
    ASSUME NEW ids, IsList(ids), Len(ids) <= PROMPT_LEN, NEW expected, IsList(expected)
    PROVE  PrefillVerdict(ids, expected) = "pass" <=> ids # <<>> /\ expected = <<FullLogits(ids)>>
<1> DEFINE lens == <<Len(ids)>>
           g == PrefillLogits(Requests(ids, lens, 0))
<1>1. CASE ids = <<>> \/ Len(expected) # 1
    BY <1>1 DEF PrefillVerdict
<1>2. CASE ids # <<>> /\ Len(expected) = 1
    <2>1. PrefillVerdict(ids, expected) = Compare(g, expected)
        BY <1>2 DEF PrefillVerdict
    <2>2. Len(ids) > 0
        BY <1>2 DEF IsList
    <2>3. AreLengths(1, lens, 0) /\ Text(ids, lens, 1) = ids
        <3>1. lens = <<Len(ids)>> /\ 0 \in 0..1
            OBVIOUS
        <3> HIDE DEF lens
        <3> QED BY <2>2, <3>1, OneText
    <2> HIDE DEF lens
    <2>4. g = FullRows(1, ids, lens)
        BY <2>3, PrefillLogitsAre
    <2> HIDE DEF g
    <2>5. g = [i \in 1..1 |-> g[i]] /\ g[1] = FullLogits(ids)
        BY <2>3, <2>4 DEF FullRows
    <2> HIDE DEF g
    <2> QED BY <1>2, <2>1, <2>5, OneRow
<1> QED BY <1>1, <1>2

LEMMA DecodeVerdictIs ==
    ASSUME NEW ids, IsList(ids), Len(ids) = PROMPT_LEN,
           NEW toks, IsList(toks), Len(toks) = 1, NEW expected, IsList(expected), Len(expected) = 1
    PROVE  DecodeVerdict(ids, toks, expected) = "pass" <=> expected = <<FullLogits(ids \o toks)>>
<1> DEFINE lens == <<Len(ids)>>
           g == DecodeLogits(Requests(ids, lens, 1), toks)
<1>1. DecodeVerdict(ids, toks, expected) = Compare(g, expected)
    BY DEF DecodeVerdict
<1>2. Len(ids) > 0 /\ Len(ids) <= PROMPT_LEN
    BY ModelFilesAssumption
<1>3. AreLengths(1, lens, 1) /\ Text(ids, lens, 1) = ids
    <2>1. lens = <<Len(ids)>> /\ 1 \in 0..1
        OBVIOUS
    <2> HIDE DEF lens
    <2> QED BY <1>2, <2>1, OneText
<1> HIDE DEF lens
<1>4. g = NextRows(1, ids, lens, toks)
    BY <1>3, DecodeLogitsAre
<1> HIDE DEF g
<1>5. Append(ids, toks[1]) = ids \o toks
    <2> DEFINE e == toks[1]
               X == Elements(ids) \cup {e}
    <2>1. toks = <<e>>
        BY DEF IsList
    <2>2. ids \in Seq(X) /\ e \in X
        <3>1. \A i \in 1..Len(ids) : ids[i] \in X
            BY DEF Elements, IsList
        <3> HIDE DEF X
        <3>2. ids \in Seq(X)
            BY <3>1 DEF IsList
        <3> QED BY <3>2 DEF X
    <2> HIDE DEF e, X
    <2>3. Append(ids, e) = ids \o <<e>>
        BY <2>2, AppendIsConcat
    <2> QED BY <2>1, <2>3 DEF e
<1> DEFINE x == FullLogits(ids \o toks)
<1>6. g = [i \in 1..1 |-> g[i]] /\ g[1] = x
    <2>1. g = [i \in 1..1 |-> FullLogits(Append(Text(ids, lens, i), toks[i]))]
        BY <1>4 DEF NextRows
    <2>2. g[1] = FullLogits(Append(Text(ids, lens, 1), toks[1]))
        BY <2>1
    <2>3. g = [i \in 1..1 |-> g[i]]
        BY <2>1
    <2> QED BY ONLY <1>3, <1>5, <2>2, <2>3 DEF x
<1> HIDE DEF x
<1>7. Compare(g, expected) = "pass" <=> expected = <<x>>
    BY ONLY <1>6, IsList(expected), Len(expected) = 1, OneRow
<1> QED BY <1>1, <1>7 DEF x
-----------------------------------------------------------------------------
(* What the tests have read. *)

LengthFiles == {"batch_prefill_prompt_lens.bin", "batch_decode_prompt_lens.bin"}

\* What the file f may have: the beginning of what a run of its script writes.
MayBeIn(f, elements) ==
    /\ IsList(elements)
    /\ f \in LengthFiles => elements \in Seq(Nat)
    /\ f = "input_ids.bin" => Len(elements) <= PROMPT_LEN

MayBeRead(wanted, elements) ==
    /\ MayBeIn(wanted[1], elements)
    /\ wanted[2] # All => Len(elements) = wanted[2]

HasRead(p, in) ==
    /\ Len(in) <= Len(Reads(p))
    /\ \A i \in 1..Len(in) : MayBeRead(Reads(p)[i], in[i])

GoldenPrograms == {"test_gpt2_prefill_logits", "test_gpt2_decode_logits",
                   "test_gpt2_batch_prefill_logits", "test_gpt2_batch_decode_logits"}

LEMMA GoldenReadsAre ==
    /\ Reads("test_gpt2_prefill_logits") = << <<"input_ids.bin", All>>, <<"expected_logits.bin", All>> >>
    /\ Reads("test_gpt2_decode_logits") =
          << <<"input_ids.bin", PROMPT_LEN>>, <<"decode_token.bin", 1>>, <<"expected_decode_logits.bin", 1>> >>
    /\ Reads("test_gpt2_batch_prefill_logits") =
          << <<"batch_prefill_input_ids.bin", All>>, <<"batch_prefill_prompt_lens.bin", All>>,
             <<"batch_prefill_expected_logits.bin", All>> >>
    /\ Reads("test_gpt2_batch_decode_logits") =
          << <<"batch_decode_input_ids.bin", All>>, <<"batch_decode_prompt_lens.bin", All>>,
             <<"batch_decode_tokens.bin", All>>, <<"batch_decode_expected_logits.bin", All>> >>
<1>1. \A a, b : ReadAll(<<a, b>>) = << <<a, All>>, <<b, All>> >>
    BY DEF ReadAll
<1>2. \A a, b, c : ReadAll(<<a, b, c>>) = << <<a, All>>, <<b, All>>, <<c, All>> >>
    BY DEF ReadAll
<1>3. \A a, b, c, d : ReadAll(<<a, b, c, d>>) = << <<a, All>>, <<b, All>>, <<c, All>>, <<d, All>> >>
    BY DEF ReadAll
<1> QED BY <1>1, <1>2, <1>3 DEF Reads

\* A test that passes has compared with the full recompute of its texts.
LEMMA PassIsRight ==
    ASSUME program \in GoldenPrograms, HasRead(program, got), Len(got) = Len(Reads(program)),
           VerdictOn(program, got) = "pass"
    PROVE  ExpectedRead = [i \in DOMAIN TextsRead |-> FullLogits(TextsRead[i])]
<1>0. All = -1 /\ PROMPT_LEN \in Nat
    BY ModelFilesAssumption DEF All
<1>1. CASE program = "test_gpt2_prefill_logits"
    <2>1. Len(got) = 2 /\ Reads(program)[1] = <<"input_ids.bin", All>>
          /\ Reads(program)[2] = <<"expected_logits.bin", All>>
        BY <1>1, GoldenReadsAre
    <2>2. IsList(got[1]) /\ Len(got[1]) <= PROMPT_LEN /\ IsList(got[2])
        BY <2>1 DEF HasRead, MayBeRead, MayBeIn
    <2>3. PrefillVerdict(got[1], got[2]) = "pass"
        BY <1>1 DEF VerdictOn
    <2>4. got[2] = <<FullLogits(got[1])>>
        BY <2>2, <2>3, PrefillVerdictIs
    <2>5. TextsRead = <<got[1]>> /\ ExpectedRead = got[2]
        BY <1>1, <2>1 DEF TextsRead, ExpectedRead
    <2> QED BY <2>4, <2>5
<1>2. CASE program = "test_gpt2_decode_logits"
    <2>1. Len(got) = 3 /\ Reads(program)[1] = <<"input_ids.bin", PROMPT_LEN>>
          /\ Reads(program)[2] = <<"decode_token.bin", 1>> /\ Reads(program)[3] = <<"expected_decode_logits.bin", 1>>
        BY <1>2, GoldenReadsAre
    <2>2. /\ IsList(got[1]) /\ Len(got[1]) = PROMPT_LEN
          /\ IsList(got[2]) /\ Len(got[2]) = 1 /\ IsList(got[3]) /\ Len(got[3]) = 1
        <3>1. PROMPT_LEN # All /\ 1 # All
            BY <1>0
        <3>2. /\ MayBeRead(<<"input_ids.bin", PROMPT_LEN>>, got[1]) /\ MayBeRead(<<"decode_token.bin", 1>>, got[2])
              /\ MayBeRead(<<"expected_decode_logits.bin", 1>>, got[3])
            BY <2>1 DEF HasRead
        <3> QED BY <3>1, <3>2 DEF MayBeRead, MayBeIn
    <2>3. DecodeVerdict(got[1], got[2], got[3]) = "pass"
        BY <1>2 DEF VerdictOn
    <2>4. got[3] = <<FullLogits(got[1] \o got[2])>>
        BY <2>2, <2>3, DecodeVerdictIs
    <2> DEFINE text == got[1] \o got[2]
    <2>5. TextsRead = <<text>> /\ ExpectedRead = got[3] /\ got[3] = <<FullLogits(text)>>
        BY <1>2, <2>1, <2>4 DEF TextsRead, ExpectedRead
    <2> HIDE DEF text
    <2> QED BY <2>5
<1>3. CASE program = "test_gpt2_batch_prefill_logits"
    <2>1. Len(got) = 3 /\ Reads(program)[2] = <<"batch_prefill_prompt_lens.bin", All>>
          /\ Reads(program)[3] = <<"batch_prefill_expected_logits.bin", All>>
        BY <1>3, GoldenReadsAre
    <2>2. got[2] \in Seq(Nat) /\ IsList(got[3])
        BY <2>1 DEF HasRead, MayBeRead, MayBeIn, LengthFiles
    <2>3. BatchPrefillVerdict(got[1], got[2], got[3]) = "pass"
        BY <1>3 DEF VerdictOn
    <2>4. got[3] = FullRows(Len(got[2]), got[1], got[2])
        BY <2>2, <2>3, BatchPrefillVerdictIs
    <2>5. TextsRead = [i \in DOMAIN got[2] |-> Text(got[1], got[2], i)] /\ ExpectedRead = got[3]
        BY <1>3, <2>1 DEF TextsRead, ExpectedRead, Text
    <2>6. DOMAIN got[2] = 1..Len(got[2])
        BY <2>2
    <2> QED BY <2>4, <2>5, <2>6 DEF FullRows
<1>4. CASE program = "test_gpt2_batch_decode_logits"
    <2>1. Len(got) = 4 /\ Reads(program)[2] = <<"batch_decode_prompt_lens.bin", All>>
          /\ Reads(program)[4] = <<"batch_decode_expected_logits.bin", All>>
        BY <1>4, GoldenReadsAre
    <2>2. got[2] \in Seq(Nat) /\ IsList(got[4])
        BY <2>1 DEF HasRead, MayBeRead, MayBeIn, LengthFiles
    <2>3. BatchDecodeVerdict(got[1], got[2], got[3], got[4]) = "pass"
        BY <1>4 DEF VerdictOn
    <2>4. got[4] = NextRows(Len(got[2]), got[1], got[2], got[3])
        <3> DEFINE ids      == got[1]
                   lens     == got[2]
                   toks     == got[3]
                   expected == got[4]
        <3>1. lens \in Seq(Nat) /\ IsList(expected) /\ BatchDecodeVerdict(ids, lens, toks, expected) = "pass"
            BY <2>2, <2>3
        <3> HIDE DEF ids, lens, toks, expected
        <3>2. expected = NextRows(Len(lens), ids, lens, toks)
            BY ONLY <3>1, BatchDecodeVerdictIs
        <3> QED BY <3>2 DEF ids, lens, toks, expected
    <2>5. TextsRead = [i \in DOMAIN got[2] |-> Append(Text(got[1], got[2], i), got[3][i])] /\ ExpectedRead = got[4]
        BY <1>4, <2>1 DEF TextsRead, ExpectedRead, Text
    <2>6. DOMAIN got[2] = 1..Len(got[2])
        BY <2>2
    <2> QED BY <2>4, <2>5, <2>6 DEF NextRows
<1> QED BY <1>1, <1>2, <1>3, <1>4 DEF GoldenPrograms

-----------------------------------------------------------------------------
(* What the scripts write. *)

LEMMA ListIs == ASSUME NEW s, IsList(s) PROVE s \in Seq(Elements(s)) /\ DOMAIN s = 1..Len(s)
<1>1. \A i \in 1..Len(s) : s[i] \in Elements(s)
    BY DEF IsList, Elements
<1> QED BY <1>1 DEF IsList

LEMMA SeqIsList == ASSUME NEW X, NEW s \in Seq(X) PROVE IsList(s)
BY DEF IsList

LEMMA ListAppend ==
    ASSUME NEW s, IsList(s), NEW e
    PROVE  /\ IsList(Append(s, e)) /\ Len(Append(s, e)) = Len(s) + 1
           /\ \A i \in 1..Len(s) : Append(s, e)[i] = s[i]
           /\ Append(s, e)[Len(s) + 1] = e
<1> DEFINE X == Elements(s) \cup {e}
<1>1. s \in Seq(X) /\ e \in X
    <2>1. s \in Seq(Elements(s))
        BY ListIs
    <2> QED BY <2>1
<1> HIDE DEF X
<1> DEFINE u == Append(s, e)
<1>2. /\ u \in Seq(X) /\ Len(u) = Len(s) + 1 /\ u[Len(s) + 1] = e
      /\ \A i \in 1..Len(s) : u[i] = s[i]
    BY <1>1, AppendProperties
<1> HIDE DEF u
<1>3. IsList(u)
    BY <1>2, SeqIsList
<1> QED BY <1>2, <1>3 DEF u

\* The beginning of a list.
LEMMA PrefixIs ==
    ASSUME NEW s, IsList(s), NEW n \in Int, n <= Len(s)
    PROVE  /\ IsList(SubSeq(s, 1, n)) /\ Len(SubSeq(s, 1, n)) = (IF n >= 1 THEN n ELSE 0)
           /\ \A X : s \in Seq(X) => SubSeq(s, 1, n) \in Seq(X)
           /\ n = Len(s) => SubSeq(s, 1, n) = s
<1> DEFINE part == SubSeq(s, 1, n)
<1>1. Len(s) \in Nat
    BY DEF IsList
<1>2. ASSUME NEW X, s \in Seq(X)
      PROVE  part \in Seq(X) /\ Len(part) = (IF n >= 1 THEN n ELSE 0)
    <2>1. \A i \in 1..n : s[i] \in X
        BY <1>1, <1>2
    <2>2. part \in Seq(X) /\ Len(part) = IF 1 <= n THEN n - 1 + 1 ELSE 0
        <3>1. 1 \in Int
            OBVIOUS
        <3> HIDE DEF part
        <3> QED BY <2>1, <3>1, SubSeqProperties DEF part
    <2> QED BY <2>2
<1>3. s \in Seq(Elements(s))
    BY ListIs
<1>4. n = Len(s) => part = s
    BY <1>3
<1> HIDE DEF part
<1>5. part \in Seq(Elements(s)) /\ Len(part) = (IF n >= 1 THEN n ELSE 0)
    BY <1>2, <1>3
<1>6. IsList(part)
    BY <1>5, SeqIsList
<1> QED BY <1>2, <1>4, <1>5, <1>6 DEF part

\* A file that is cut short is one that may be there, too.
LEMMA CutShort ==
    ASSUME NEW f, NEW elements, MayBeIn(f, elements), NEW n \in {0, Len(elements) - 1}
    PROVE  MayBeIn(f, SubSeq(elements, 1, n))
<1> DEFINE part == SubSeq(elements, 1, n)
<1>1. IsList(elements) /\ n \in Int /\ n <= Len(elements) /\ Len(elements) \in Nat
    BY DEF MayBeIn, IsList
<1>2. /\ IsList(part) /\ Len(part) = (IF n >= 1 THEN n ELSE 0)
      /\ elements \in Seq(Nat) => part \in Seq(Nat)
    BY <1>1, PrefixIs
<1> HIDE DEF part
<1>3. Len(part) <= Len(elements) /\ Len(part) \in Nat
    BY <1>1, <1>2
<1>4. f = "input_ids.bin" => Len(part) <= PROMPT_LEN
    <2>1. PROMPT_LEN \in Nat
        BY ModelFilesAssumption
    <2> QED BY <1>1, <1>3, <2>1 DEF MayBeIn
<1> QED BY <1>2, <1>4 DEF MayBeIn, part
-----------------------------------------------------------------------------
CasesOf == Seq((1..(MAX_SEQ - 2)) \X Nat)
BaseTokens == {BASE_TOKENS[(k % Len(BASE_TOKENS)) + 1] : k \in Nat}

\* The prompts of a list of cases, their lengths, and one behind the other.
LEMMA CasesAre ==
    ASSUME NEW list \in CasesOf
    PROVE  LET cases == Cases(list)
               n     == Len(list)
           IN  /\ cases = [i \in 1..n |-> cases[i]] /\ IsList(cases) /\ Len(cases) = n
               /\ \A i \in 1..n : IsList(cases[i]) /\ Len(cases[i]) = list[i][1] /\ cases[i] \in Seq(BaseTokens)
               /\ PromptLens(cases) \in [1..n -> Nat] /\ PromptLens(cases) \in Seq(Nat)
               /\ Len(PromptLens(cases)) = n
               /\ \A i \in 1..n : PromptLens(cases)[i] = list[i][1] /\ list[i][1] \in 1..(MAX_SEQ - 2)
<1> DEFINE cases == Cases(list)
           n == Len(list)
           lens == PromptLens(cases)
<1>1. n \in Nat /\ DOMAIN list = 1..n /\ MAX_SEQ \in Nat
    BY ModelFilesAssumption DEF CasesOf
<1>2. ASSUME NEW i \in 1..n PROVE list[i][1] \in 1..(MAX_SEQ - 2) /\ list[i][2] \in Nat
    BY DEF CasesOf
<1>3. cases = [i \in 1..n |-> make_tokens(list[i][1], list[i][2])]
    BY <1>1 DEF Cases
<1>4. ASSUME NEW length \in Nat, NEW shift \in Nat
      PROVE  make_tokens(length, shift) \in Seq(BaseTokens) /\ Len(make_tokens(length, shift)) = length
    <2> DEFINE at(k) == BASE_TOKENS[(k % Len(BASE_TOKENS)) + 1]
    <2>1. make_tokens(length, shift) = [i \in 1..length |-> at(i - 1 + shift)]
        BY DEF make_tokens
    <2>2. \A k \in Nat : at(k) \in BaseTokens
        BY DEF BaseTokens
    <2> HIDE DEF at
    <2>3. ASSUME NEW i \in 1..length PROVE at(i - 1 + shift) \in BaseTokens
        <3>1. i - 1 + shift \in Nat
            OBVIOUS
        <3> QED BY <2>2, <3>1
    <2> QED BY <2>1, <2>3
<1>5. ASSUME NEW i \in 1..n
      PROVE  cases[i] \in Seq(BaseTokens) /\ IsList(cases[i]) /\ Len(cases[i]) = list[i][1]
    <2>1. list[i][1] \in Nat /\ list[i][2] \in Nat
        BY <1>1, <1>2
    <2>2. cases[i] \in Seq(BaseTokens) /\ Len(cases[i]) = list[i][1]
        BY <1>3, <1>4, <2>1
    <2> QED BY <2>2, SeqIsList
<1> HIDE DEF cases, n
<1>6. cases = [i \in 1..n |-> cases[i]] /\ Len(cases) = n /\ IsList(cases)
    BY <1>1, <1>3 DEF IsList
<1>7. lens = [i \in 1..n |-> Len(cases[i])]
    BY <1>3 DEF PromptLens
<1>8. lens \in [1..n -> Nat] /\ \A i \in 1..n : lens[i] = list[i][1]
    <2>1. \A i \in 1..n : Len(cases[i]) = list[i][1] /\ list[i][1] \in Nat
        BY <1>1, <1>2, <1>5
    <2> QED BY <1>7, <2>1
<1> HIDE DEF lens
<1>9. lens \in Seq(Nat) /\ Len(lens) = n
    BY <1>1, <1>8
<1> QED BY <1>2, <1>5, <1>6, <1>8, <1>9 DEF cases, n, lens

-----------------------------------------------------------------------------
\* The prompts one behind the other are cut apart again by their lengths.
LEMMA FlatIs ==
    ASSUME NEW list \in CasesOf
    PROVE  LET cases == Cases(list)
               ids   == FlatIds(cases)
               lens  == PromptLens(cases)
           IN  /\ IsList(ids)
               /\ list # <<>> => /\ SumOf(lens) = Len(ids)
                                 /\ \A i \in 1..Len(list) : Text(ids, lens, i) = cases[i]
<1> DEFINE n     == Len(list)
           cases == Cases(list)
           ids   == FlatIds(cases)
           lens  == PromptLens(cases)
<1>1. /\ cases = [i \in 1..n |-> cases[i]] /\ IsList(cases) /\ Len(cases) = n
      /\ \A i \in 1..n : cases[i] \in Seq(BaseTokens) /\ Len(cases[i]) = lens[i] /\ IsList(cases[i])
      /\ lens \in [1..n -> Nat] /\ Len(lens) = n
    <2>1. \A i \in 1..n : Len(cases[i]) = list[i][1] /\ lens[i] = list[i][1]
        BY CasesAre
    <2>2. /\ cases = [i \in 1..n |-> cases[i]] /\ IsList(cases) /\ Len(cases) = n
          /\ \A i \in 1..n : cases[i] \in Seq(BaseTokens) /\ IsList(cases[i])
          /\ lens \in [1..n -> Nat] /\ Len(lens) = n
        BY CasesAre
    <2> QED BY <2>1, <2>2
<1>2. n \in Nat /\ (list # <<>> => n # 0)
    BY DEF CasesOf
<1>3. ids = FlattenSeq(cases)
    BY DEF FlatIds
<1> HIDE DEF n, cases, ids, lens
<1>4. CASE n = 0
    <2>1. ids = cases
        BY <1>1, <1>3, <1>4 DEF FlattenSeq
    <2> QED BY <1>1, <1>2, <1>4, <2>1 DEF n, cases, ids, lens
<1>5. CASE n # 0
    <2>1. ArePartsOf(n, lens, BaseTokens, cases)
        <3>1. cases \in [1..n -> Seq(BaseTokens)]
            BY <1>1
        <3> QED BY <1>1, <1>2, <1>5, <3>1 DEF ArePartsOf
    <2>2. IsBatch(n, lens, BaseTokens, cases, ids)
        BY <1>3, <2>1, FlattenParts
    <2>3. IsList(ids) /\ Len(ids) = Before(lens, n + 1)
        <3>1. ids \in Seq(BaseTokens) /\ Len(ids) = Before(lens, n + 1)
            BY <2>2 DEF IsBatch
        <3> QED BY <3>1, SeqIsList
    <2>4. SumOf(lens) = Len(ids)
        BY <1>1, <2>3 DEF SumOf
    <2>5. ASSUME NEW i \in 1..n PROVE Text(ids, lens, i) = cases[i]
        <3> DEFINE text == Text(ids, lens, i)
                   case == cases[i]
        <3>1. /\ text \in Seq(Elements(ids)) /\ Len(text) = lens[i]
              /\ AreFrom(text, ids, Before(lens, i), lens[i])
            BY <1>1, <1>2, TextIs
        <3>2. \A j \in 1..lens[i] : ids[Before(lens, i) + j] = case[j]
            BY <2>2 DEF IsBatch
        <3>3. Len(case) = lens[i] /\ case \in Seq(BaseTokens) /\ lens[i] \in Nat
            BY <1>1
        <3> HIDE DEF text, case
        <3>4. text = [j \in 1..lens[i] |-> text[j]] /\ case = [j \in 1..lens[i] |-> case[j]]
            BY <3>1, <3>3
        <3>5. \A j \in 1..lens[i] : text[j] = case[j]
            BY <3>1, <3>2 DEF AreFrom
        <3>6. text = case
            BY <3>4, <3>5
        <3> QED BY <3>6 DEF text, case
    <2> QED BY <2>3, <2>4, <2>5 DEF n, cases, ids, lens
<1> QED BY <1>4, <1>5
-----------------------------------------------------------------------------
(* The outputs of the golden scripts, one by one. *)

GoldenScripts == {"dump_gpt2_golden", "dump_gpt2_batch_prefill_golden", "dump_gpt2_batch_decode_golden"}

CorrectRows(list) == [i \in 1..Len(list) |-> FullLogits(Cases(list)[i])]
Steps(list) == [i \in 1..Len(list) |-> DecodeStep(Cases(list)[i])]
GreedyTokens(list) == [i \in 1..Len(list) |-> Steps(list)[i].decode_token]
NextLogits(list) == [i \in 1..Len(list) |-> Steps(list)[i].logits]

LEMMA OutputsAre ==
    /\ \A in \in Prompts :
          Outputs("dump_gpt2_golden", in) =
             << <<"input_ids.bin", in>>, <<"expected_logits.bin", <<FullLogits(in)>> >>,
                <<"decode_token.bin", <<DecodeStep(in).decode_token>> >>,
                <<"expected_decode_logits.bin", <<DecodeStep(in).logits>> >>, <<"meta.json", <<in>> >> >>
    /\ \A in \in CasesOf :
          Outputs("dump_gpt2_batch_prefill_golden", in) =
             << <<"batch_prefill_input_ids.bin", FlatIds(Cases(in))>>,
                <<"batch_prefill_prompt_lens.bin", PromptLens(Cases(in))>>,
                <<"batch_prefill_expected_logits.bin", CorrectRows(in)>>,
                <<"batch_prefill_meta.json", Cases(in)>> >>
    /\ \A in \in CasesOf :
          Outputs("dump_gpt2_batch_decode_golden", in) =
             << <<"batch_decode_input_ids.bin", FlatIds(Cases(in))>>,
                <<"batch_decode_prompt_lens.bin", PromptLens(Cases(in))>>,
                <<"batch_decode_tokens.bin", GreedyTokens(in)>>,
                <<"batch_decode_expected_logits.bin", NextLogits(in)>>,
                <<"batch_decode_meta.json", Cases(in)>> >>
<1>1. ASSUME NEW in \in CasesOf PROVE DOMAIN Cases(in) = 1..Len(in)
    <2> DEFINE cases == Cases(in)
    <2>1. cases = [i \in 1..Len(in) |-> cases[i]]
        BY CasesAre
    <2> HIDE DEF cases
    <2>2. DOMAIN cases = 1..Len(in)
        BY <2>1
    <2> QED BY <2>2 DEF cases
<1>2. ASSUME NEW in \in CasesOf
      PROVE  /\ [i \in DOMAIN Cases(in) |-> FullLogits(Cases(in)[i])] = CorrectRows(in)
             /\ [i \in DOMAIN Cases(in) |-> DecodeStep(Cases(in)[i])] = Steps(in)
             /\ [i \in DOMAIN Cases(in) |-> Steps(in)[i].decode_token] = GreedyTokens(in)
             /\ [i \in DOMAIN Cases(in) |-> Steps(in)[i].logits] = NextLogits(in)
    BY <1>1 DEF CorrectRows, Steps, GreedyTokens, NextLogits
<1>3. ASSUME NEW in \in CasesOf
      PROVE  Outputs("dump_gpt2_batch_prefill_golden", in) =
             << <<"batch_prefill_input_ids.bin", FlatIds(Cases(in))>>,
                <<"batch_prefill_prompt_lens.bin", PromptLens(Cases(in))>>,
                <<"batch_prefill_expected_logits.bin", CorrectRows(in)>>,
                <<"batch_prefill_meta.json", Cases(in)>> >>
    BY <1>2, Zenon DEF Outputs, PrefillOutputs
<1>4. ASSUME NEW in \in CasesOf
      PROVE  Outputs("dump_gpt2_batch_decode_golden", in) =
             << <<"batch_decode_input_ids.bin", FlatIds(Cases(in))>>,
                <<"batch_decode_prompt_lens.bin", PromptLens(Cases(in))>>,
                <<"batch_decode_tokens.bin", GreedyTokens(in)>>,
                <<"batch_decode_expected_logits.bin", NextLogits(in)>>,
                <<"batch_decode_meta.json", Cases(in)>> >>
    BY <1>2, Zenon DEF Outputs, DecodeOutputs
<1>5. ASSUME NEW in \in Prompts
      PROVE  Outputs("dump_gpt2_golden", in) =
             << <<"input_ids.bin", in>>, <<"expected_logits.bin", <<FullLogits(in)>> >>,
                <<"decode_token.bin", <<DecodeStep(in).decode_token>> >>,
                <<"expected_decode_logits.bin", <<DecodeStep(in).logits>> >>, <<"meta.json", <<in>> >> >>
    BY Zenon DEF Outputs, GoldenOutputs
<1> QED BY <1>3, <1>4, <1>5

-----------------------------------------------------------------------------
LEMMA SomeList ==
    ASSUME NEW f, f \notin LengthFiles, f # "input_ids.bin", NEW elements, IsList(elements)
    PROVE  MayBeIn(f, elements)
BY DEF MayBeIn

LEMMA OneElement == ASSUME NEW x PROVE IsList(<<x>>)
BY DEF IsList

LEMMA InputsAre ==
    /\ \A in \in Inputs("dump_gpt2_golden") : in \in Prompts /\ IsList(in) /\ Len(in) = PROMPT_LEN
    /\ Inputs("dump_gpt2_batch_prefill_golden") \subseteq CasesOf
    /\ Inputs("dump_gpt2_batch_decode_golden") \subseteq CasesOf
<1>1. ASSUME NEW in \in Prompts PROVE IsList(in) /\ Len(in) = PROMPT_LEN
    <2>1. in = [i \in 1..PROMPT_LEN |-> in[i]] /\ PROMPT_LEN \in Nat
        BY ModelFilesAssumption
    <2> QED BY <2>1 DEF IsList
<1>2. CaseLists \subseteq CasesOf
    BY ModelFilesAssumption DEF CasesOf
<1>3. Inputs("dump_gpt2_golden") = Prompts
    BY DEF Inputs
<1>4. Inputs("dump_gpt2_batch_prefill_golden") = CaseLists /\ Inputs("dump_gpt2_batch_decode_golden") = CaseLists
    BY DEF Inputs
<1> QED BY <1>1, <1>2, <1>3, <1>4

LEMMA ListsAre ==
    ASSUME NEW in \in CasesOf
    PROVE  /\ IsList(FlatIds(Cases(in))) /\ PromptLens(Cases(in)) \in Seq(Nat) /\ IsList(PromptLens(Cases(in)))
           /\ IsList(CorrectRows(in)) /\ IsList(GreedyTokens(in)) /\ IsList(NextLogits(in)) /\ IsList(Cases(in))
<1>1. Len(in) \in Nat
    BY DEF CasesOf
<1>2. IsList(CorrectRows(in)) /\ IsList(GreedyTokens(in)) /\ IsList(NextLogits(in))
    BY <1>1 DEF CorrectRows, GreedyTokens, NextLogits, IsList
<1>3. IsList(Cases(in)) /\ PromptLens(Cases(in)) \in Seq(Nat)
    BY CasesAre
<1>4. IsList(PromptLens(Cases(in)))
    BY <1>3, SeqIsList
<1>5. IsList(FlatIds(Cases(in)))
    BY FlatIs
<1> QED BY <1>2, <1>3, <1>4, <1>5

\* Every output is one that may be in its file.
LEMMA OutputsMayBe ==
    ASSUME NEW s \in GoldenScripts, NEW in \in Inputs(s)
    PROVE  /\ Len(Outputs(s, in)) \in Nat \ {0}
           /\ \A k \in 1..Len(Outputs(s, in)) : MayBeIn(Outputs(s, in)[k][1], Outputs(s, in)[k][2])
<1>1. CASE s = "dump_gpt2_golden"
    <2>1. in \in Prompts /\ IsList(in) /\ Len(in) = PROMPT_LEN /\ PROMPT_LEN \in Nat
        BY <1>1, InputsAre, ModelFilesAssumption
    <2> DEFINE out == Outputs(s, in)
    <2>2. out = << <<"input_ids.bin", in>>, <<"expected_logits.bin", <<FullLogits(in)>> >>,
                   <<"decode_token.bin", <<DecodeStep(in).decode_token>> >>,
                   <<"expected_decode_logits.bin", <<DecodeStep(in).logits>> >>, <<"meta.json", <<in>> >> >>
        BY <1>1, <2>1, OutputsAre
    <2> HIDE DEF out
    <2>3. Len(out) = 5
        BY <2>2
    <2>4. MayBeIn("input_ids.bin", in)
        BY <2>1 DEF MayBeIn, LengthFiles
    <2>5. \A x : /\ MayBeIn("expected_logits.bin", <<x>>) /\ MayBeIn("decode_token.bin", <<x>>)
                 /\ MayBeIn("expected_decode_logits.bin", <<x>>) /\ MayBeIn("meta.json", <<x>>)
        BY SomeList, OneElement DEF LengthFiles
    <2>6. ASSUME NEW k \in 1..5 PROVE MayBeIn(out[k][1], out[k][2])
        <3>1. k = 1 \/ k = 2 \/ k = 3 \/ k = 4 \/ k = 5
            OBVIOUS
        <3>2. /\ MayBeIn(out[1][1], out[1][2]) /\ MayBeIn(out[2][1], out[2][2]) /\ MayBeIn(out[3][1], out[3][2])
              /\ MayBeIn(out[4][1], out[4][2]) /\ MayBeIn(out[5][1], out[5][2])
            BY <2>2, <2>4, <2>5
        <3> QED BY <3>1, <3>2
    <2> QED BY <2>3, <2>6 DEF out
<1>2. CASE s = "dump_gpt2_batch_prefill_golden"
    <2>1. in \in CasesOf
        BY <1>2, InputsAre
    <2> DEFINE out == Outputs(s, in)
    <2>2. out = << <<"batch_prefill_input_ids.bin", FlatIds(Cases(in))>>,
                   <<"batch_prefill_prompt_lens.bin", PromptLens(Cases(in))>>,
                   <<"batch_prefill_expected_logits.bin", CorrectRows(in)>>,
                   <<"batch_prefill_meta.json", Cases(in)>> >>
        BY <1>2, <2>1, OutputsAre
    <2> HIDE DEF out
    <2>3. Len(out) = 4
        BY <2>2
    <2>4. /\ MayBeIn("batch_prefill_input_ids.bin", FlatIds(Cases(in)))
          /\ MayBeIn("batch_prefill_expected_logits.bin", CorrectRows(in))
          /\ MayBeIn("batch_prefill_meta.json", Cases(in))
        BY <2>1, ListsAre, SomeList DEF LengthFiles
    <2>5. MayBeIn("batch_prefill_prompt_lens.bin", PromptLens(Cases(in)))
        BY <2>1, ListsAre DEF MayBeIn
    <2>6. ASSUME NEW k \in 1..4 PROVE MayBeIn(out[k][1], out[k][2])
        <3>1. k = 1 \/ k = 2 \/ k = 3 \/ k = 4
            OBVIOUS
        <3>2. /\ MayBeIn(out[1][1], out[1][2]) /\ MayBeIn(out[2][1], out[2][2])
              /\ MayBeIn(out[3][1], out[3][2]) /\ MayBeIn(out[4][1], out[4][2])
            BY <2>2, <2>4, <2>5
        <3> QED BY <3>1, <3>2
    <2> QED BY <2>3, <2>6 DEF out
<1>3. CASE s = "dump_gpt2_batch_decode_golden"
    <2>1. in \in CasesOf
        BY <1>3, InputsAre
    <2> DEFINE out == Outputs(s, in)
    <2>2. out = << <<"batch_decode_input_ids.bin", FlatIds(Cases(in))>>,
                   <<"batch_decode_prompt_lens.bin", PromptLens(Cases(in))>>,
                   <<"batch_decode_tokens.bin", GreedyTokens(in)>>,
                   <<"batch_decode_expected_logits.bin", NextLogits(in)>>,
                   <<"batch_decode_meta.json", Cases(in)>> >>
        BY <1>3, <2>1, OutputsAre
    <2> HIDE DEF out
    <2>3. Len(out) = 5
        BY <2>2
    <2>4. /\ MayBeIn("batch_decode_input_ids.bin", FlatIds(Cases(in)))
          /\ MayBeIn("batch_decode_tokens.bin", GreedyTokens(in))
          /\ MayBeIn("batch_decode_expected_logits.bin", NextLogits(in))
          /\ MayBeIn("batch_decode_meta.json", Cases(in))
        BY <2>1, ListsAre, SomeList DEF LengthFiles
    <2>5. MayBeIn("batch_decode_prompt_lens.bin", PromptLens(Cases(in)))
        BY <2>1, ListsAre DEF MayBeIn
    <2>6. ASSUME NEW k \in 1..5 PROVE MayBeIn(out[k][1], out[k][2])
        <3>1. k = 1 \/ k = 2 \/ k = 3 \/ k = 4 \/ k = 5
            OBVIOUS
        <3>2. /\ MayBeIn(out[1][1], out[1][2]) /\ MayBeIn(out[2][1], out[2][2]) /\ MayBeIn(out[3][1], out[3][2])
              /\ MayBeIn(out[4][1], out[4][2]) /\ MayBeIn(out[5][1], out[5][2])
            BY <2>2, <2>4, <2>5
        <3> QED BY <3>1, <3>2
    <2> QED BY <2>3, <2>6 DEF out
<1> QED BY <1>1, <1>2, <1>3 DEF GoldenScripts

-----------------------------------------------------------------------------
(* The files of the golden scripts, and what the tests have read. *)

\* The script is at one of its outputs, and every file is the beginning of one.
GoldenFiles ==
    /\ next # 0 => input \in Inputs(script) /\ next \in 1..Len(Outputs(script, input))
    /\ open => next # 0
    /\ \A f \in DOMAIN files : MayBeIn(f, files[f])

\* A test has come so far; one that passed has read all, and judged that.
GoldenTest ==
    /\ IsList(got)
    /\ program # "none" => HasRead(program, got)
    /\ verdict = "pass" => /\ program # "none" /\ Len(got) = Len(Reads(program))
                           /\ VerdictOn(program, got) = "pass"

GoldenInv ==
    /\ script \in GoldenScripts \cup {"export_weights"}
    /\ program \in {"none"} \cup Programs(script)
    /\ program = "none" => got = <<>> /\ verdict = "none"
    /\ IF script = "export_weights" THEN verdict # "pass" ELSE GoldenFiles /\ GoldenTest

LEMMA GoldenProgramsAre ==
    /\ \A s \in GoldenScripts : Programs(s) \subseteq GoldenPrograms
    /\ Programs("export_weights") = {"load_weights"}
BY DEF Programs, GoldenPrograms, GoldenScripts

LEMMA WantedAre ==
    ASSUME NEW p \in GoldenPrograms
    PROVE  /\ Len(Reads(p)) \in Nat
           /\ \A k \in 1..Len(Reads(p)) : Reads(p)[k][2] \in {All} \cup (Nat \ {0})
<1> DEFINE reads == Reads(p)
           Wanted(w) == w[2] \in {All} \cup (Nat \ {0})
<1>0. PROMPT_LEN \in Nat \ {0}
    BY ModelFilesAssumption
<1>1. \/ Len(reads) = 2 /\ Wanted(reads[1]) /\ Wanted(reads[2])
      \/ Len(reads) = 3 /\ Wanted(reads[1]) /\ Wanted(reads[2]) /\ Wanted(reads[3])
      \/ Len(reads) = 4 /\ Wanted(reads[1]) /\ Wanted(reads[2]) /\ Wanted(reads[3]) /\ Wanted(reads[4])
    BY <1>0, GoldenReadsAre DEF GoldenPrograms
<1> HIDE DEF reads, Wanted
<1>2. Len(reads) = 2 \/ Len(reads) = 3 \/ Len(reads) = 4
    BY ONLY <1>1
<1>3. ASSUME NEW k \in 1..Len(reads) PROVE Wanted(reads[k])
    BY <1>1, <1>2
<1> QED BY <1>2, <1>3 DEF reads, Wanted

LEMMA WriteMayBe ==
    ASSUME \A f \in DOMAIN files : MayBeIn(f, files[f]), NEW f, NEW elements, MayBeIn(f, elements), Write(f, elements)
    PROVE  \A g \in DOMAIN files' : MayBeIn(g, files'[g])
BY DEF Write

LEMMA GoldenOpen == ASSUME GoldenInv, script \in GoldenScripts, Open PROVE GoldenFiles'
<1> DEFINE out == Outputs(script, input)[next]
<1>1. GoldenFiles
    BY DEF GoldenInv, GoldenScripts
<1>2. next # 0 /\ input \in Inputs(script) /\ next \in 1..Len(Outputs(script, input))
    BY <1>1 DEF GoldenFiles, Open
<1>3. MayBeIn(out[1], out[2])
    BY <1>2, OutputsMayBe
<1>4. PICK n \in {0, Len(out[2]) - 1} : Write(out[1], SubSeq(out[2], 1, n))
    BY DEF Open
<1>5. MayBeIn(out[1], SubSeq(out[2], 1, n))
    BY <1>3, CutShort
<1> HIDE DEF out
<1>6. \A f \in DOMAIN files' : MayBeIn(f, files'[f])
    BY <1>1, <1>4, <1>5, WriteMayBe DEF GoldenFiles
<1> QED BY <1>2, <1>6 DEF GoldenFiles, Open

LEMMA GoldenClose == ASSUME GoldenInv, script \in GoldenScripts, Close PROVE GoldenFiles'
<1> DEFINE outputs == Outputs(script, input)
           out == outputs[next]
<1>1. GoldenFiles
    BY DEF GoldenInv, GoldenScripts
<1>2. next # 0 /\ input \in Inputs(script) /\ next \in 1..Len(outputs) /\ Len(outputs) \in Nat
    BY <1>1, OutputsMayBe DEF GoldenFiles, Close
<1>3. MayBeIn(out[1], out[2])
    BY <1>2, OutputsMayBe
<1>4. /\ Write(out[1], out[2]) /\ ~open'
      /\ next' = (IF next = Len(outputs) THEN 0 ELSE next + 1) /\ input' = input /\ script' = script
    BY DEF Close
<1> HIDE DEF out
<1>5. \A f \in DOMAIN files' : MayBeIn(f, files'[f])
    BY <1>1, <1>3, <1>4, WriteMayBe DEF GoldenFiles
<1>6. next' # 0 => next' \in 1..Len(outputs)
    BY <1>2, <1>4
<1> QED BY <1>2, <1>4, <1>5, <1>6 DEF GoldenFiles

LEMMA GoldenReadFile == ASSUME GoldenInv, script \in GoldenScripts, ReadFile PROVE GoldenTest'
<1> DEFINE k == Len(got) + 1
           w == Reads(program)[k]
           x == IF w[2] = All THEN files[w[1]] ELSE SubSeq(files[w[1]], 1, w[2])
<1>1. GoldenFiles /\ GoldenTest /\ program # "none" /\ program \in GoldenPrograms
    BY GoldenProgramsAre DEF GoldenInv, GoldenScripts, ReadFile, Running
<1>2. IsList(got) /\ HasRead(program, got) /\ Len(got) \in Nat /\ Len(got) < Len(Reads(program))
    BY <1>1 DEF GoldenTest, ReadFile, IsList
<1>3. Len(Reads(program)) \in Nat /\ k \in 1..Len(Reads(program))
    <2>1. Len(Reads(program)) \in Nat
        BY <1>1, GoldenReadsAre DEF GoldenPrograms
    <2> QED BY <1>2, <2>1
<1>4. w[1] \in DOMAIN files /\ w[2] <= Len(files[w[1]]) /\ got' = Append(got, x) /\ program' = program
      /\ verdict' = verdict /\ verdict = "none"
    BY DEF ReadFile, Readable, Running
<1>5. MayBeIn(w[1], files[w[1]])
    BY <1>1, <1>4 DEF GoldenFiles
<1>6. w[2] = All \/ (w[2] \in Nat \ {0})
    BY <1>1, <1>3, WantedAre
<1>7. MayBeRead(w, x)
    <2>1. CASE w[2] = All
        BY <1>5, <2>1 DEF MayBeRead
    <2>2. CASE w[2] # All
        <3> DEFINE elements == files[w[1]]
                   n == w[2]
        <3>1. IsList(elements) /\ n \in Nat \ {0} /\ n \in Int /\ n <= Len(elements) /\ Len(elements) \in Nat
            BY <1>4, <1>5, <1>6, <2>2 DEF MayBeIn, IsList
        <3>2. x = SubSeq(elements, 1, n)
            BY <2>2
        <3> HIDE DEF elements, n, x
        <3>3. IsList(x) /\ Len(x) = n /\ (elements \in Seq(Nat) => x \in Seq(Nat))
            BY <3>1, <3>2, PrefixIs
        <3>4. w[1] = "input_ids.bin" => Len(x) <= PROMPT_LEN
            <4>1. w[1] = "input_ids.bin" => Len(elements) <= PROMPT_LEN
                BY <1>5 DEF MayBeIn, elements
            <4>2. PROMPT_LEN \in Nat
                BY ModelFilesAssumption
            <4> QED BY <3>1, <3>3, <4>1, <4>2
        <3>5. w[1] \in LengthFiles => x \in Seq(Nat)
            BY <1>5, <3>3 DEF MayBeIn, elements
        <3> QED BY <3>3, <3>4, <3>5 DEF MayBeRead, MayBeIn, n
    <2> QED BY <2>1, <2>2
<1> HIDE DEF x, w
<1>8. /\ IsList(got') /\ Len(got') = k /\ \A i \in 1..Len(got) : got'[i] = got[i]
      /\ got'[k] = x
    BY <1>2, <1>4, ListAppend
<1>9. HasRead(program, got')
    <2>1. ASSUME NEW i \in 1..Len(got') PROVE MayBeRead(Reads(program)[i], got'[i])
        <3>1. i = k \/ i \in 1..Len(got)
            BY <1>2, <1>8
        <3>2. CASE i = k
            BY <1>7, <1>8, <3>2 DEF w
        <3>3. CASE i \in 1..Len(got)
            BY <1>2, <1>8, <3>3 DEF HasRead
        <3> QED BY <3>1, <3>2, <3>3
    <2> QED BY <1>3, <1>8, <2>1 DEF HasRead
<1> QED BY <1>4, <1>8, <1>9 DEF GoldenTest

LEMMA GoldenInvKept == GoldenInv /\ [Next]_vars => GoldenInv'
<1> SUFFICES ASSUME GoldenInv, [Next]_vars PROVE GoldenInv'
    OBVIOUS
<1> DEFINE golden == script \in GoldenScripts
<1>0. /\ script' = script
      /\ golden <=> script # "export_weights"
      /\ golden => GoldenFiles /\ GoldenTest
    BY DEF GoldenInv, GoldenScripts, Next, Start, Open, Close, Interrupt, StartProgram, ReadFile, ReadFails, Judge,
           vars
<1>1. CASE Start
    <2>1. golden => GoldenFiles'
        <3>1. golden => Len(Outputs(script, input')) \in Nat \ {0}
            BY <1>1, OutputsMayBe DEF Start
        <3> QED BY <1>0, <1>1, <3>1 DEF Start, GoldenFiles
    <2> QED BY <1>0, <1>1, <2>1 DEF Start, GoldenInv, GoldenTest, reader
<1>2. CASE Open
    <2>1. golden => GoldenFiles'
        BY <1>2, GoldenOpen
    <2> QED BY <1>0, <1>2, <2>1 DEF Open, GoldenInv, GoldenTest, reader
<1>3. CASE Close
    <2>1. golden => GoldenFiles'
        BY <1>3, GoldenClose
    <2> QED BY <1>0, <1>3, <2>1 DEF Close, GoldenInv, GoldenTest, reader
<1>4. CASE Interrupt
    BY <1>0, <1>4 DEF Interrupt, GoldenInv, GoldenFiles, GoldenTest, reader
<1>5. CASE StartProgram
    <2>1. program' \in Programs(script) /\ program = "none" /\ got' = <<>> /\ verdict' = "none"
        BY <1>5 DEF StartProgram, GoldenInv
    <2>2. golden => program' \in GoldenPrograms
        BY <2>1, GoldenProgramsAre
    <2>3. golden => HasRead(program', got')
        <3>1. golden => Len(Reads(program')) \in Nat
            BY <2>2, GoldenReadsAre DEF GoldenPrograms
        <3> QED BY <2>1, <3>1 DEF HasRead
    <2>4. golden => GoldenTest'
        BY <2>1, <2>3 DEF GoldenTest, IsList
    <2>5. golden => GoldenFiles'
        BY <1>0, <1>5 DEF StartProgram, GoldenFiles, disk
    <2>6. program' # "none"
        <3>1. "none" \notin GoldenPrograms /\ "none" \notin {"load_weights"}
            BY DEF GoldenPrograms
        <3> QED BY <1>0, <2>1, <2>2, <3>1, GoldenProgramsAre
    <2> QED BY <1>0, <2>1, <2>4, <2>5, <2>6 DEF GoldenInv
<1>6. CASE ReadFile
    <2>1. golden => GoldenTest'
        BY <1>6, GoldenReadFile
    <2>2. golden => GoldenFiles'
        BY <1>0, <1>6 DEF ReadFile, GoldenFiles, disk
    <2> QED BY <1>0, <1>6, <2>1, <2>2 DEF ReadFile, Running, GoldenInv
<1>7. CASE ReadFails
    <2>1. golden => GoldenFiles'
        BY <1>0, <1>7 DEF ReadFails, GoldenFiles, disk
    <2> QED BY <1>0, <1>7, <2>1 DEF ReadFails, Running, GoldenInv, GoldenTest
<1>8. CASE Judge
    <2>1. golden => GoldenFiles'
        BY <1>0, <1>8 DEF Judge, GoldenFiles, disk
    <2>2. ~golden => verdict' = "loaded"
        <3>1. ~golden => program = "load_weights"
            BY <1>0, <1>8, GoldenProgramsAre DEF Judge, Running, GoldenInv
        <3> QED BY <1>8, <3>1 DEF Judge, VerdictOn
    <2>3. golden => GoldenTest'
        BY <1>0, <1>8 DEF Judge, Running, GoldenTest
    <2> QED BY <1>0, <1>8, <2>1, <2>2, <2>3 DEF Judge, Running, GoldenInv
<1>9. CASE UNCHANGED vars
    BY <1>9 DEF vars, disk, reader, GoldenInv, GoldenFiles, GoldenTest
<1> QED BY <1>1, <1>2, <1>3, <1>4, <1>5, <1>6, <1>7, <1>8, <1>9 DEF Next

\* A test that passes has compared every row it was given with the full recompute
\* of a text it was given, whatever runs of the script its files come from, and
\* however far those runs had come when it read them.
THEOREM PassAlwaysMeansEveryRowIsRight == Spec => []PassMeansEveryRowIsRight
<1>1. Init => GoldenInv
    BY DEF Init, GoldenInv, GoldenScripts, GoldenFiles, GoldenTest, IsList
<1>2. GoldenInv => PassMeansEveryRowIsRight
    <2> SUFFICES ASSUME GoldenInv, verdict = "pass"
                 PROVE  ExpectedRead = [i \in DOMAIN TextsRead |-> FullLogits(TextsRead[i])]
        BY DEF PassMeansEveryRowIsRight
    <2>1. script \in GoldenScripts /\ GoldenTest
        BY DEF GoldenInv, GoldenScripts
    <2>2. /\ program # "none" /\ HasRead(program, got) /\ Len(got) = Len(Reads(program))
          /\ VerdictOn(program, got) = "pass"
        BY <2>1 DEF GoldenTest
    <2>3. program \in GoldenPrograms
        BY <2>1, <2>2, GoldenProgramsAre DEF GoldenInv
    <2> QED BY <2>2, <2>3, PassIsRight
<1> QED BY <1>1, <1>2, GoldenInvKept, PTL DEF Spec

-----------------------------------------------------------------------------
(* The tensors that load_weights asks for are among those that are saved. *)

Has(s, x) == \E j \in 1..Len(s) : s[j] = x

LEMMA HasParts ==
    ASSUME NEW X, NEW s \in Seq(X), NEW t \in Seq(X), NEW u \in Seq(X), NEW x
    PROVE  Has(s \o t \o u, x) <=> Has(s, x) \/ Has(t, x) \/ Has(u, x)
<1> DEFINE v == s \o t \o u
           a == Len(s)
           b == Len(t)
           c == Len(u)
<1>1. a \in Nat /\ b \in Nat /\ c \in Nat
    OBVIOUS
<1>2. /\ Len(v) = a + b + c
      /\ \A j \in 1..a : v[j] = s[j]
      /\ \A j \in 1..b : v[a + j] = t[j]
      /\ \A j \in 1..c : v[a + b + j] = u[j]
    OBVIOUS
<1> HIDE DEF v, a, b, c
<1>3. ASSUME NEW j \in 1..Len(v), v[j] = x
      PROVE  (\E k \in 1..a : s[k] = x) \/ (\E k \in 1..b : t[k] = x) \/ (\E k \in 1..c : u[k] = x)
    <2>1. CASE j <= a
        <3>1. j \in 1..a
            BY <1>1, <1>2, <2>1
        <3> QED BY <1>2, <1>3, <3>1
    <2>2. CASE a < j /\ j <= a + b
        <3>1. j - a \in 1..b /\ a + (j - a) = j
            BY <1>1, <1>2, <2>2
        <3> QED BY <1>2, <1>3, <3>1
    <2>3. CASE a + b < j
        <3>1. j - a - b \in 1..c /\ a + b + (j - a - b) = j
            BY <1>1, <1>2, <2>3
        <3> QED BY <1>2, <1>3, <3>1
    <2> QED BY <1>1, <1>2, <2>1, <2>2, <2>3
<1>4. ASSUME NEW k \in 1..a, s[k] = x PROVE \E j \in 1..Len(v) : v[j] = x
    <2>1. k \in 1..Len(v)
        BY <1>1, <1>2
    <2> QED BY <1>2, <1>4, <2>1
<1>5. ASSUME NEW k \in 1..b, t[k] = x PROVE \E j \in 1..Len(v) : v[j] = x
    <2>1. a + k \in 1..Len(v)
        BY <1>1, <1>2
    <2> QED BY <1>2, <1>5, <2>1
<1>6. ASSUME NEW k \in 1..c, u[k] = x PROVE \E j \in 1..Len(v) : v[j] = x
    <2>1. a + b + k \in 1..Len(v)
        BY <1>1, <1>2
    <2> QED BY <1>2, <1>6, <2>1
<1>7. (\E j \in 1..Len(v) : v[j] = x) <=>
         (\E k \in 1..a : s[k] = x) \/ (\E k \in 1..b : t[k] = x) \/ (\E k \in 1..c : u[k] = x)
    BY <1>3, <1>4, <1>5, <1>6
<1> QED BY <1>7 DEF Has, v, a, b, c

LEMMA OfLayersHas ==
    ASSUME NEW names, NEW others, Len(names) = 12, Len(others) = 12,
           \A i \in 1..12 : \E j \in 1..12 : others[j] = names[i],
           NEW x, Has(OfLayers(names), x)
    PROVE  Has(OfLayers(others), x)
<1> DEFINE N == GPT2_N_LAYERS
           At12(s, k) == <<s[((k - 1) % 12) + 1], (k - 1) \div 12 + 1>>
<1>1. N \in Nat
    BY SizesAssumption
<1>2. /\ OfLayers(names) = [k \in 1..(N * 12) |-> At12(names, k)]
      /\ OfLayers(others) = [k \in 1..(N * 12) |-> At12(others, k)]
    BY DEF OfLayers
<1>3. Len(OfLayers(names)) = N * 12 /\ Len(OfLayers(others)) = N * 12
    <2> HIDE DEF At12
    <2>1. N * 12 \in Nat
        BY <1>1
    <2> QED BY <1>2, <2>1
<1>4. PICK k \in 1..(N * 12) : OfLayers(names)[k] = x
    BY <1>3 DEF Has
<1> DEFINE r == (k - 1) % 12
           q == (k - 1) \div 12
<1>5. k - 1 = q * 12 + r /\ r \in 0..11 /\ q \in Nat /\ q < N
    BY <1>1
<1>6. x = <<names[r + 1], q + 1>>
    BY <1>2, <1>4
<1> HIDE DEF r, q
<1>7. PICK i \in 1..12 : others[i] = names[r + 1]
    BY <1>5
<1> DEFINE j == q * 12 + i
<1>8. j \in 1..(N * 12) /\ (j - 1) % 12 = i - 1 /\ (j - 1) \div 12 = q
    BY <1>1, <1>5
<1>9. At12(others, j) = <<others[i], q + 1>>
    BY <1>8
<1> HIDE DEF j
<1>10. OfLayers(others)[j] = x
    BY <1>2, <1>6, <1>7, <1>8, <1>9
<1> QED BY <1>3, <1>8, <1>10 DEF Has

LEMMA LoadedAreSaved ==
    ASSUME NEW k \in 1..Len(LoadedTensors)
    PROVE  \E j \in 1..Len(SavedTensors) : SavedTensors[j] = LoadedTensors[k]
<1> DEFINE saved == <<"ln1_w", "ln1_b", "ln2_w", "ln2_b", "qkv_w", "qkv_b",
                      "out_w", "out_b", "fc1_w", "fc1_b", "fc2_w", "fc2_b">>
           loaded == <<"ln1_w", "ln1_b", "qkv_w", "qkv_b", "out_w", "out_b",
                       "ln2_w", "ln2_b", "fc1_w", "fc1_b", "fc2_w", "fc2_b">>
           first == << <<"wte", 0>>, <<"wpe", 0>> >>
           last  == << <<"ln_f_w", 0>>, <<"ln_f_b", 0>> >>
           x == LoadedTensors[k]
<1>1. saved \in Seq(DOMAIN Shape) /\ loaded \in Seq(DOMAIN Shape) /\ Len(saved) = 12 /\ Len(loaded) = 12
    BY DEF Shape
<1>2. \A i \in 1..12 : \E j \in 1..12 : saved[j] = loaded[i]
    <2> DEFINE at == <<1, 2, 5, 6, 7, 8, 3, 4, 9, 10, 11, 12>>
    <2>1. ASSUME NEW i \in 1..12 PROVE at[i] \in 1..12 /\ saved[at[i]] = loaded[i]
        <3>1. i = 1 \/ i = 2 \/ i = 3 \/ i = 4 \/ i = 5 \/ i = 6 \/ i = 7 \/ i = 8 \/ i = 9 \/ i = 10 \/ i = 11 \/ i = 12
            OBVIOUS
        <3> QED BY <3>1
    <2> HIDE DEF at, saved, loaded
    <2> QED BY ONLY <2>1, Zenon
<1>3. OfLayers(saved) \in Seq(Tensors) /\ OfLayers(loaded) \in Seq(Tensors)
    <2> HIDE DEF saved, loaded
    <2>1. Len(saved) > 0 /\ Len(loaded) > 0
        BY ONLY <1>1
    <2> QED BY <1>1, <2>1, OfLayersAre, Zenon
<1>4. first \in Seq(Tensors) /\ last \in Seq(Tensors)
    BY DEF Tensors, Shape
<1>5. SavedTensors = first \o OfLayers(saved) \o last /\ LoadedTensors = first \o OfLayers(loaded) \o last
    BY DEF SavedTensors, LoadedTensors
<1> HIDE DEF saved, loaded, first, last
<1>6. Has(LoadedTensors, x)
    BY DEF Has
<1> HIDE DEF x
<1>7. Has(first, x) \/ Has(OfLayers(loaded), x) \/ Has(last, x)
    BY <1>3, <1>4, <1>5, <1>6, HasParts
<1>8. Has(OfLayers(loaded), x) => Has(OfLayers(saved), x)
    BY <1>1, <1>2, OfLayersHas
<1>9. Has(SavedTensors, x)
    BY <1>3, <1>4, <1>5, <1>7, <1>8, HasParts
<1> QED BY <1>9 DEF Has, x

-----------------------------------------------------------------------------
(* What a script has written, and what a program finds after a whole run.  *)

\* The file of output k of the present or last run has all of it.
Written(k) ==
    LET out == Outputs(script, input)[k]
    IN  out[1] \in DOMAIN files /\ files[out[1]] = out[2]

SameFile(j, k) == Outputs(script, input)[j][1] = Outputs(script, input)[k][1]

\* The outputs before the present one are there; the file of the present one is
\* not, whatever it is named.
WrittenInv ==
    /\ script \in GoldenScripts \cup {"export_weights"}
    /\ open => next # 0
    /\ next # 0 => /\ input \in Inputs(script) /\ next \in 1..Len(Outputs(script, input)) /\ ~whole
                   /\ \A k \in 1..(next - 1) : Written(k) \/ SameFile(k, next)
    /\ whole => input \in Inputs(script) /\ \A k \in 1..Len(Outputs(script, input)) : Written(k)

\* Two outputs to one file would be the same.
LEMMA SameFileSameElements ==
    ASSUME NEW s \in GoldenScripts \cup {"export_weights"}, NEW in \in Inputs(s)
    PROVE  /\ Len(Outputs(s, in)) \in Nat \ {0}
           /\ \A j, k \in 1..Len(Outputs(s, in)) :
                 Outputs(s, in)[j][1] = Outputs(s, in)[k][1] => Outputs(s, in)[j][2] = Outputs(s, in)[k][2]
<1> DEFINE out == Outputs(s, in)
<1>1. CASE s = "export_weights"
    <2>1. Len(SavedTensors) \in Nat \ {0} /\ 1 \in 1..Len(SavedTensors)
        BY SavedAre
    <2>2. /\ Len(out) = Len(SavedTensors)
          /\ \A j \in 1..Len(SavedTensors) : out[j] = <<SavedTensors[j], RowMajor(SavedTensors[j])>>
        BY <1>1, <2>1, ExportOutputsAre
    <2> HIDE DEF out
    <2>3. ASSUME NEW j \in 1..Len(out), NEW k \in 1..Len(out), out[j][1] = out[k][1] PROVE out[j][2] = out[k][2]
        <3>1. \A i \in 1..Len(out) : out[i][1] = SavedTensors[i] /\ out[i][2] = RowMajor(SavedTensors[i])
            BY <2>2
        <3> QED BY <2>3, <3>1
    <2> QED BY <2>1, <2>2, <2>3 DEF out
<1>2. CASE s = "dump_gpt2_golden"
    <2>1. in \in Prompts
        BY <1>2, InputsAre
    <2>2. out = << <<"input_ids.bin", in>>, <<"expected_logits.bin", <<FullLogits(in)>> >>,
                   <<"decode_token.bin", <<DecodeStep(in).decode_token>> >>,
                   <<"expected_decode_logits.bin", <<DecodeStep(in).logits>> >>, <<"meta.json", <<in>> >> >>
        BY <1>2, <2>1, OutputsAre
    <2> HIDE DEF out
    <2>3. /\ Len(out) = 5 /\ out[1][1] = "input_ids.bin" /\ out[2][1] = "expected_logits.bin"
          /\ out[3][1] = "decode_token.bin" /\ out[4][1] = "expected_decode_logits.bin" /\ out[5][1] = "meta.json"
        BY <2>2
    <2>4. \A j \in 1..5 : j = 1 \/ j = 2 \/ j = 3 \/ j = 4 \/ j = 5
        OBVIOUS
    <2>5. \A j, k \in 1..5 : out[j][1] = out[k][1] => j = k
        BY ONLY <2>3, <2>4
    <2> QED BY <2>3, <2>5 DEF out
<1>3. CASE s = "dump_gpt2_batch_prefill_golden"
    <2>1. in \in CasesOf
        BY <1>3, InputsAre
    <2>2. out = << <<"batch_prefill_input_ids.bin", FlatIds(Cases(in))>>,
                   <<"batch_prefill_prompt_lens.bin", PromptLens(Cases(in))>>,
                   <<"batch_prefill_expected_logits.bin", CorrectRows(in)>>,
                   <<"batch_prefill_meta.json", Cases(in)>> >>
        BY <1>3, <2>1, OutputsAre
    <2> HIDE DEF out
    <2>3. /\ Len(out) = 4 /\ out[1][1] = "batch_prefill_input_ids.bin" /\ out[2][1] = "batch_prefill_prompt_lens.bin"
          /\ out[3][1] = "batch_prefill_expected_logits.bin" /\ out[4][1] = "batch_prefill_meta.json"
        BY <2>2
    <2>4. \A j \in 1..4 : j = 1 \/ j = 2 \/ j = 3 \/ j = 4
        OBVIOUS
    <2>5. \A j, k \in 1..4 : out[j][1] = out[k][1] => j = k
        BY ONLY <2>3, <2>4
    <2> QED BY <2>3, <2>5 DEF out
<1>4. CASE s = "dump_gpt2_batch_decode_golden"
    <2>1. in \in CasesOf
        BY <1>4, InputsAre
    <2>2. out = << <<"batch_decode_input_ids.bin", FlatIds(Cases(in))>>,
                   <<"batch_decode_prompt_lens.bin", PromptLens(Cases(in))>>,
                   <<"batch_decode_tokens.bin", GreedyTokens(in)>>,
                   <<"batch_decode_expected_logits.bin", NextLogits(in)>>,
                   <<"batch_decode_meta.json", Cases(in)>> >>
        BY <1>4, <2>1, OutputsAre
    <2> HIDE DEF out
    <2>3. /\ Len(out) = 5 /\ out[1][1] = "batch_decode_input_ids.bin" /\ out[2][1] = "batch_decode_prompt_lens.bin"
          /\ out[3][1] = "batch_decode_tokens.bin" /\ out[4][1] = "batch_decode_expected_logits.bin"
          /\ out[5][1] = "batch_decode_meta.json"
        BY <2>2
    <2>4. \A j \in 1..5 : j = 1 \/ j = 2 \/ j = 3 \/ j = 4 \/ j = 5
        OBVIOUS
    <2>5. \A j, k \in 1..5 : out[j][1] = out[k][1] => j = k
        BY ONLY <2>3, <2>4
    <2> QED BY <2>3, <2>5 DEF out
<1> QED BY <1>1, <1>2, <1>3, <1>4 DEF GoldenScripts

LEMMA WrittenOpen == ASSUME WrittenInv, Open PROVE WrittenInv'
<1> DEFINE out == Outputs(script, input)
<1>1. next # 0 /\ input \in Inputs(script) /\ next \in 1..Len(out) /\ ~whole
      /\ \A k \in 1..(next - 1) : Written(k) \/ SameFile(k, next)
    BY DEF WrittenInv, Open
<1>2. script' = script /\ input' = input /\ next' = next /\ whole' = whole
    BY DEF Open
<1>3. PICK elements : Write(out[next][1], elements)
    BY DEF Open
<1>4. ASSUME NEW k \in 1..(next - 1) PROVE Written(k)' \/ SameFile(k, next)'
    <2>1. CASE SameFile(k, next)
        BY <1>2, <2>1 DEF SameFile
    <2>2. CASE Written(k) /\ ~SameFile(k, next)
        BY <1>2, <1>3, <2>2 DEF Written, SameFile, Write
    <2> QED BY <1>1, <2>1, <2>2
<1> QED BY <1>1, <1>2, <1>4 DEF WrittenInv

LEMMA WrittenClose == ASSUME WrittenInv, Close PROVE WrittenInv'
<1> DEFINE out == Outputs(script, input)
           n == Len(out)
<1>1. next # 0 /\ input \in Inputs(script) /\ next \in 1..n /\ ~whole
      /\ (\A k \in 1..(next - 1) : Written(k) \/ SameFile(k, next))
      /\ script \in GoldenScripts \cup {"export_weights"}
    BY DEF WrittenInv, Close
<1>2. /\ script' = script /\ input' = input /\ Write(out[next][1], out[next][2]) /\ ~open'
      /\ next' = (IF next = n THEN 0 ELSE next + 1) /\ whole' = (next = n)
    BY DEF Close
<1>3. n \in Nat /\ \A j, k \in 1..n : out[j][1] = out[k][1] => out[j][2] = out[k][2]
    BY <1>1, SameFileSameElements
<1>4. ASSUME NEW k \in 1..next PROVE Written(k)'
    <2>1. k \in 1..n
        BY <1>1, <1>3
    <2>2. CASE out[k][1] = out[next][1]
        <3>1. out[k][2] = out[next][2]
            BY <1>1, <1>3, <2>1, <2>2
        <3> QED BY <1>2, <2>2, <3>1 DEF Written, Write
    <2>3. CASE out[k][1] # out[next][1]
        <3>1. k \in 1..(next - 1)
            BY <1>1, <2>3
        <3>2. Written(k)
            BY <1>1, <2>3, <3>1 DEF SameFile
        <3> QED BY <1>2, <2>3, <3>2 DEF Written, Write
    <2> QED BY <2>2, <2>3
<1>5. CASE next = n
    BY <1>1, <1>2, <1>4, <1>5 DEF WrittenInv
<1>6. CASE next # n
    <2>1. next + 1 \in 1..n /\ next + 1 # 0 /\ (next + 1) - 1 = next
        BY <1>1, <1>3, <1>6
    <2> QED BY <1>1, <1>2, <1>4, <1>6, <2>1 DEF WrittenInv
<1> QED BY <1>5, <1>6

LEMMA WrittenKept == WrittenInv /\ [Next]_vars => WrittenInv'
<1> SUFFICES ASSUME WrittenInv, [Next]_vars PROVE WrittenInv'
    OBVIOUS
<1>1. CASE Start
    <2>1. script' = script /\ input' \in Inputs(script) /\ next' = 1 /\ ~open' /\ ~whole'
        BY <1>1 DEF Start
    <2>2. Len(Outputs(script, input')) \in Nat \ {0}
        BY <2>1, SameFileSameElements DEF WrittenInv
    <2>3. 1 \in 1..Len(Outputs(script, input')) /\ 1..(next' - 1) = {}
        BY <2>1, <2>2
    <2> QED BY <2>1, <2>3 DEF WrittenInv
<1>2. CASE Open
    BY <1>2, WrittenOpen
<1>3. CASE Close
    BY <1>3, WrittenClose
<1>4. CASE Interrupt
    <2>1. next' = 0 /\ ~open' /\ ~whole'
        BY <1>4 DEF Interrupt, WrittenInv
    <2> QED BY <1>4, <2>1 DEF Interrupt, WrittenInv
<1>5. CASE StartProgram \/ ReadFile \/ ReadFails \/ Judge \/ UNCHANGED vars
    <2>1. UNCHANGED <<script, disk>>
        BY <1>5 DEF StartProgram, ReadFile, ReadFails, Judge, vars
    <2> QED BY <2>1 DEF disk, WrittenInv, Written, SameFile
<1> QED BY <1>1, <1>2, <1>3, <1>4, <1>5 DEF Next

-----------------------------------------------------------------------------
(* A test that reads the files of a whole run passes. *)

FilesOf(s, in) ==
    \A k \in 1..Len(Outputs(s, in)) :
        LET out == Outputs(s, in)[k]
        IN  out[1] \in DOMAIN files /\ files[out[1]] = out[2]

\* What a program gets out of a file.
PartOf(w) == IF w[2] = All THEN files[w[1]] ELSE SubSeq(files[w[1]], 1, w[2])

AllRead(p, g) == \A k \in 1..Len(Reads(p)) : g[k] = PartOf(Reads(p)[k])

AllReadable(p) == \A k \in 1..Len(Reads(p)) : Readable(Reads(p)[k])

LEMMA WholeFileRead ==
    ASSUME NEW f \in DOMAIN files, IsList(files[f])
    PROVE  /\ Readable(<<f, All>>) /\ PartOf(<<f, All>>) = files[f]
           /\ Readable(<<f, Len(files[f])>>) /\ PartOf(<<f, Len(files[f])>>) = files[f]
<1> DEFINE elements == files[f]
           n == Len(elements)
<1>1. n \in Nat
    BY DEF IsList
<1>2. SubSeq(elements, 1, n) = elements
    <2>1. IsList(elements) /\ n = Len(elements)
        OBVIOUS
    <2> HIDE DEF elements, n
    <2>2. n \in Int /\ n <= Len(elements)
        BY <1>1, <2>1
    <2> QED BY ONLY <2>1, <2>2, PrefixIs
<1> HIDE DEF n
<1>3. -1 <= n /\ n <= n /\ n # -1
    BY <1>1
<1> QED BY <1>2, <1>3 DEF Readable, PartOf, All, n

LEMMA FreshPrompt ==
    ASSUME NEW in \in Prompts, FilesOf("dump_gpt2_golden", in)
    PROVE  /\ {"input_ids.bin", "expected_logits.bin", "decode_token.bin", "expected_decode_logits.bin"}
                 \subseteq DOMAIN files
           /\ files["input_ids.bin"] = in
           /\ files["expected_logits.bin"] = <<FullLogits(in)>>
           /\ files["decode_token.bin"] = <<DecodeStep(in).decode_token>>
           /\ files["expected_decode_logits.bin"] = <<DecodeStep(in).logits>>
<1> DEFINE out == Outputs("dump_gpt2_golden", in)
<1>1. out = << <<"input_ids.bin", in>>, <<"expected_logits.bin", <<FullLogits(in)>> >>,
               <<"decode_token.bin", <<DecodeStep(in).decode_token>> >>,
               <<"expected_decode_logits.bin", <<DecodeStep(in).logits>> >>, <<"meta.json", <<in>> >> >>
    BY OutputsAre
<1>2. \A k \in 1..Len(out) : out[k][1] \in DOMAIN files /\ files[out[k][1]] = out[k][2]
    BY DEF FilesOf
<1> HIDE DEF out
<1>3. /\ Len(out) = 5
      /\ out[1][1] = "input_ids.bin" /\ out[1][2] = in
      /\ out[2][1] = "expected_logits.bin" /\ out[2][2] = <<FullLogits(in)>>
      /\ out[3][1] = "decode_token.bin" /\ out[3][2] = <<DecodeStep(in).decode_token>>
      /\ out[4][1] = "expected_decode_logits.bin" /\ out[4][2] = <<DecodeStep(in).logits>>
    BY <1>1
<1>4. \A k \in 1..4 : out[k][1] \in DOMAIN files /\ files[out[k][1]] = out[k][2]
    BY <1>2, <1>3
<1>5. 1 \in 1..4 /\ 2 \in 1..4 /\ 3 \in 1..4 /\ 4 \in 1..4
    OBVIOUS
<1> QED BY <1>3, <1>4, <1>5

LEMMA FreshPrefillTest ==
    ASSUME NEW in \in Prompts, FilesOf("dump_gpt2_golden", in)
    PROVE  /\ AllReadable("test_gpt2_prefill_logits")
           /\ \A g : AllRead("test_gpt2_prefill_logits", g) => VerdictOn("test_gpt2_prefill_logits", g) = "pass"
<1> DEFINE p == "test_gpt2_prefill_logits"
           reads == Reads(p)
<1>1. reads = << <<"input_ids.bin", All>>, <<"expected_logits.bin", All>> >>
    BY GoldenReadsAre
<1> HIDE DEF reads
<1>2. Len(reads) = 2 /\ reads[1] = <<"input_ids.bin", All>> /\ reads[2] = <<"expected_logits.bin", All>>
    BY <1>1
<1>3. in \in Prompts /\ IsList(in) /\ Len(in) = PROMPT_LEN /\ PROMPT_LEN \in Nat \ {0}
    BY InputsAre, ModelFilesAssumption DEF Inputs
<1>4. /\ "input_ids.bin" \in DOMAIN files /\ files["input_ids.bin"] = in
      /\ "expected_logits.bin" \in DOMAIN files /\ files["expected_logits.bin"] = <<FullLogits(in)>>
    BY FreshPrompt
<1>5. IsList(<<FullLogits(in)>>)
    BY OneElement
<1>6. /\ Readable(reads[1]) /\ PartOf(reads[1]) = in
      /\ Readable(reads[2]) /\ PartOf(reads[2]) = <<FullLogits(in)>>
    BY <1>2, <1>3, <1>4, <1>5, WholeFileRead
<1>7. \A k \in 1..2 : k = 1 \/ k = 2
    OBVIOUS
<1>8. AllReadable(p)
    BY <1>2, <1>6, <1>7 DEF AllReadable, reads
<1>9. PrefillVerdict(in, <<FullLogits(in)>>) = "pass"
    <2>1. in # <<>> /\ Len(in) <= PROMPT_LEN
        BY <1>3
    <2> QED BY <1>3, <1>5, <2>1, PrefillVerdictIs
<1>10. ASSUME NEW g, AllRead(p, g) PROVE VerdictOn(p, g) = "pass"
    <2>1. 1 \in 1..2 /\ 2 \in 1..2
        OBVIOUS
    <2>2. g[1] = in /\ g[2] = <<FullLogits(in)>>
        BY <1>2, <1>6, <1>10, <2>1 DEF AllRead, reads
    <2>3. VerdictOn(p, g) = PrefillVerdict(g[1], g[2])
        BY DEF VerdictOn
    <2> QED BY <1>9, <2>2, <2>3
<1> QED BY <1>8, <1>10

LEMMA FreshDecodeTest ==
    ASSUME NEW in \in Prompts, FilesOf("dump_gpt2_golden", in)
    PROVE  /\ AllReadable("test_gpt2_decode_logits")
           /\ \A g : AllRead("test_gpt2_decode_logits", g) => VerdictOn("test_gpt2_decode_logits", g) = "pass"
<1> DEFINE p == "test_gpt2_decode_logits"
           reads == Reads(p)
           toks == <<DecodeStep(in).decode_token>>
           rows == <<DecodeStep(in).logits>>
<1>1. reads = << <<"input_ids.bin", PROMPT_LEN>>, <<"decode_token.bin", 1>>, <<"expected_decode_logits.bin", 1>> >>
    BY GoldenReadsAre
<1> HIDE DEF reads
<1>2. /\ Len(reads) = 3 /\ reads[1] = <<"input_ids.bin", PROMPT_LEN>> /\ reads[2] = <<"decode_token.bin", 1>>
      /\ reads[3] = <<"expected_decode_logits.bin", 1>>
    BY <1>1
<1>3. in \in Prompts /\ IsList(in) /\ Len(in) = PROMPT_LEN
    BY InputsAre DEF Inputs
<1>4. /\ "input_ids.bin" \in DOMAIN files /\ files["input_ids.bin"] = in
      /\ "decode_token.bin" \in DOMAIN files /\ files["decode_token.bin"] = toks
      /\ "expected_decode_logits.bin" \in DOMAIN files /\ files["expected_decode_logits.bin"] = rows
    BY FreshPrompt
<1>5. IsList(toks) /\ Len(toks) = 1 /\ IsList(rows) /\ Len(rows) = 1
    BY OneElement
<1>6. rows = <<FullLogits(in \o toks)>>
    <2>1. in \in Seq(Elements(in))
        BY <1>3, ListIs
    <2>2. \A t : Append(in, t) = in \o <<t>>
        BY <2>1
    <2> QED BY <2>2 DEF DecodeStep
<1> HIDE DEF toks, rows
<1>7. /\ Readable(reads[1]) /\ PartOf(reads[1]) = in
      /\ Readable(reads[2]) /\ PartOf(reads[2]) = toks
      /\ Readable(reads[3]) /\ PartOf(reads[3]) = rows
    BY <1>2, <1>3, <1>4, <1>5, WholeFileRead
<1>8. \A k \in 1..3 : k = 1 \/ k = 2 \/ k = 3
    OBVIOUS
<1>9. AllReadable(p)
    BY <1>2, <1>7, <1>8 DEF AllReadable, reads
<1>10. DecodeVerdict(in, toks, rows) = "pass"
    BY <1>3, <1>5, <1>6, DecodeVerdictIs
<1>11. ASSUME NEW g, AllRead(p, g) PROVE VerdictOn(p, g) = "pass"
    <2>1. 1 \in 1..3 /\ 2 \in 1..3 /\ 3 \in 1..3
        OBVIOUS
    <2>2. g[1] = in /\ g[2] = toks /\ g[3] = rows
        BY <1>2, <1>7, <1>11, <2>1 DEF AllRead, reads
    <2>3. VerdictOn(p, g) = DecodeVerdict(g[1], g[2], g[3])
        BY DEF VerdictOn
    <2> QED BY <1>10, <2>2, <2>3
<1> QED BY <1>9, <1>11

-----------------------------------------------------------------------------
LEMMA CasesPass ==
    ASSUME NEW in \in CaseLists, NEW more \in 0..1
    PROVE  LET cases == Cases(in)
           IN  /\ Len(PromptLens(cases)) = Len(in)
               /\ ~BatchRefused(FlatIds(cases), PromptLens(cases), more)
               /\ FullRows(Len(in), FlatIds(cases), PromptLens(cases)) = CorrectRows(in)
               /\ NextRows(Len(in), FlatIds(cases), PromptLens(cases), GreedyTokens(in)) = NextLogits(in)
<1> DEFINE cases == Cases(in)
           n     == Len(in)
           ids   == FlatIds(cases)
           lens  == PromptLens(cases)
<1>1. in \in CasesOf /\ n \in 1..MAX_BATCH_NUM /\ BlocksNeeded(lens, more) <= DEFAULT_TOTAL_KV_BLOCKS
    BY ModelFilesAssumption, CasesFit DEF CasesOf
<1>2. MAX_BATCH_NUM \in Nat /\ MAX_SEQ \in Nat
    BY ModelFilesAssumption
<1>3. /\ lens \in [1..n -> Nat] /\ Len(lens) = n
      /\ \A i \in 1..n : lens[i] = in[i][1] /\ in[i][1] \in 1..(MAX_SEQ - 2)
    BY <1>1, CasesAre
<1>4. n \in Nat /\ n # 0 /\ in # <<>> /\ lens # <<>>
    BY <1>1, <1>2, <1>3
<1>5. SumOf(lens) = Len(ids) /\ \A i \in 1..n : Text(ids, lens, i) = cases[i]
    BY <1>1, <1>4, FlatIs
<1> HIDE DEF cases, n, ids, lens
<1>6. ~BatchRefused(ids, lens, more)
    <2>1. ASSUME NEW i \in DOMAIN lens PROVE ~(lens[i] <= 0 \/ lens[i] + more >= MAX_SEQ)
        <3>1. i \in 1..n
            BY <1>3
        <3>2. lens[i] \in 1..(MAX_SEQ - 2)
            BY <1>3, <3>1
        <3> QED BY <1>2, <3>2
    <2>2. ~Refused(ids, lens, more)
        BY <1>5, <2>1 DEF Refused
    <2>3. Len(lens) <= MAX_BATCH_NUM
        BY <1>1, <1>2, <1>3
    <2>4. BlocksNeeded(lens, more) <= DEFAULT_TOTAL_KV_BLOCKS /\ BlocksNeeded(lens, more) \in Int
        <3>1. more \in Nat
            OBVIOUS
        <3>2. /\ PerLayer(lens, more) \in [1..n -> Nat]
              /\ BlocksNeeded(lens, more) = K * Before(PerLayer(lens, more), n + 1)
            BY <1>3, <1>4, <3>1, PerLayerIs
        <3>3. Before(PerLayer(lens, more), n + 1) \in Nat
            <4>1. n + 1 \in 1..(n + 1)
                BY <1>4
            <4> QED BY <1>4, <3>2, <4>1, BeforeIs
        <3>4. BlocksNeeded(lens, more) \in Int
            BY <3>2, <3>3, SlotTypes
        <3> QED BY <1>1, <3>4
    <2>5. ~(Len(lens) > MAX_BATCH_NUM) /\ ~(BlocksNeeded(lens, more) > DEFAULT_TOTAL_KV_BLOCKS)
        <3>1. n \in Nat /\ Len(lens) = n /\ DEFAULT_TOTAL_KV_BLOCKS \in Nat
            BY <1>3, <1>4, SizesAssumption
        <3> QED BY <1>2, <2>3, <2>4, <3>1
    <2> QED BY <1>4, <2>2, <2>5 DEF BatchRefused
<1>7. FullRows(n, ids, lens) = CorrectRows(in)
    <2>1. CorrectRows(in) = [i \in 1..n |-> FullLogits(cases[i])]
        BY DEF CorrectRows, n, cases
    <2> QED BY <1>5, <2>1 DEF FullRows
<1>8. NextRows(n, ids, lens, GreedyTokens(in)) = NextLogits(in)
    <2> DEFINE toks == GreedyTokens(in)
               row(i) == FullLogits(Append(cases[i], toks[i]))
    <2>1. ASSUME NEW i \in 1..n PROVE NextLogits(in)[i] = row(i)
        <3>1. Steps(in)[i] = DecodeStep(cases[i])
            BY DEF Steps, n, cases
        <3>2. toks[i] = DecodeStep(cases[i]).decode_token /\ NextLogits(in)[i] = DecodeStep(cases[i]).logits
            BY <3>1 DEF GreedyTokens, NextLogits, n
        <3>3. DecodeStep(cases[i]).logits = FullLogits(Append(cases[i], DecodeStep(cases[i]).decode_token))
            BY DEF DecodeStep
        <3> QED BY <3>2, <3>3
    <2>2. NextLogits(in) = [i \in 1..n |-> NextLogits(in)[i]]
        BY DEF NextLogits, n
    <2>3. NextRows(n, ids, lens, toks) = [i \in 1..n |-> row(i)]
        BY <1>5 DEF NextRows
    <2> HIDE DEF toks, row
    <2>4. [i \in 1..n |-> NextLogits(in)[i]] = [i \in 1..n |-> row(i)]
        BY <2>1
    <2> QED BY <2>2, <2>3, <2>4 DEF toks
<1> QED BY <1>3, <1>6, <1>7, <1>8 DEF cases, n, ids, lens

LEMMA FreshBatchPrefillTest ==
    ASSUME NEW in \in CaseLists, FilesOf("dump_gpt2_batch_prefill_golden", in)
    PROVE  /\ AllReadable("test_gpt2_batch_prefill_logits")
           /\ \A g : AllRead("test_gpt2_batch_prefill_logits", g) =>
                 VerdictOn("test_gpt2_batch_prefill_logits", g) = "pass"
<1> DEFINE p == "test_gpt2_batch_prefill_logits"
           reads == Reads(p)
           out == Outputs("dump_gpt2_batch_prefill_golden", in)
           ids == FlatIds(Cases(in))
           lens == PromptLens(Cases(in))
           rows == CorrectRows(in)
<1>1. in \in CasesOf
    BY ModelFilesAssumption DEF CasesOf
<1>2. /\ Len(reads) = 3 /\ reads[1] = <<"batch_prefill_input_ids.bin", All>>
      /\ reads[2] = <<"batch_prefill_prompt_lens.bin", All>>
      /\ reads[3] = <<"batch_prefill_expected_logits.bin", All>>
    <2>1. reads = << <<"batch_prefill_input_ids.bin", All>>, <<"batch_prefill_prompt_lens.bin", All>>,
                     <<"batch_prefill_expected_logits.bin", All>> >>
        BY GoldenReadsAre
    <2> HIDE DEF reads
    <2> QED BY <2>1
<1> HIDE DEF reads
<1>3. /\ Len(out) = 4 /\ out[1][1] = "batch_prefill_input_ids.bin" /\ out[1][2] = ids
      /\ out[2][1] = "batch_prefill_prompt_lens.bin" /\ out[2][2] = lens
      /\ out[3][1] = "batch_prefill_expected_logits.bin" /\ out[3][2] = rows
    <2>1. out = << <<"batch_prefill_input_ids.bin", ids>>, <<"batch_prefill_prompt_lens.bin", lens>>,
                   <<"batch_prefill_expected_logits.bin", rows>>, <<"batch_prefill_meta.json", Cases(in)>> >>
        BY <1>1, OutputsAre
    <2> HIDE DEF out, ids, lens, rows
    <2> QED BY <2>1
<1>4. IsList(ids) /\ lens \in Seq(Nat) /\ IsList(lens) /\ IsList(rows) /\ Len(rows) = Len(in)
    <2>1. Len(rows) = Len(in)
        BY <1>1 DEF CorrectRows, CasesOf
    <2> QED BY <1>1, <2>1, ListsAre
<1>5. \A k \in 1..Len(out) : out[k][1] \in DOMAIN files /\ files[out[k][1]] = out[k][2]
    BY DEF FilesOf
<1>6. BatchPrefillVerdict(ids, lens, rows) = "pass"
    <2>1. PrefillGoesOn(ids, lens, rows) /\ rows = FullRows(Len(lens), ids, lens)
        <3>1. 0 \in 0..1
            OBVIOUS
        <3>2. Len(lens) = Len(in) /\ ~BatchRefused(ids, lens, 0) /\ FullRows(Len(in), ids, lens) = rows
            BY <3>1, CasesPass
        <3> HIDE DEF ids, lens, rows
        <3> QED BY <1>4, <3>2 DEF PrefillGoesOn
    <2> HIDE DEF ids, lens, rows
    <2> QED BY <1>4, <2>1, BatchPrefillVerdictIs
<1> HIDE DEF out, ids, lens, rows
<1>7. /\ "batch_prefill_input_ids.bin" \in DOMAIN files /\ files["batch_prefill_input_ids.bin"] = ids
      /\ "batch_prefill_prompt_lens.bin" \in DOMAIN files /\ files["batch_prefill_prompt_lens.bin"] = lens
      /\ "batch_prefill_expected_logits.bin" \in DOMAIN files /\ files["batch_prefill_expected_logits.bin"] = rows
    <2>1. \A k \in 1..4 : out[k][1] \in DOMAIN files /\ files[out[k][1]] = out[k][2]
        BY <1>3, <1>5
    <2>2. 1 \in 1..4 /\ 2 \in 1..4 /\ 3 \in 1..4
        OBVIOUS
    <2> QED BY <1>3, <2>1, <2>2
<1>8. /\ Readable(reads[1]) /\ PartOf(reads[1]) = ids
      /\ Readable(reads[2]) /\ PartOf(reads[2]) = lens
      /\ Readable(reads[3]) /\ PartOf(reads[3]) = rows
    BY <1>2, <1>4, <1>7, WholeFileRead
<1>9. \A k \in 1..3 : k = 1 \/ k = 2 \/ k = 3
    OBVIOUS
<1>10. AllReadable(p)
    BY <1>2, <1>8, <1>9 DEF AllReadable, reads
<1>11. ASSUME NEW g, AllRead(p, g) PROVE VerdictOn(p, g) = "pass"
    <2>1. 1 \in 1..3 /\ 2 \in 1..3 /\ 3 \in 1..3
        OBVIOUS
    <2>2. g[1] = ids /\ g[2] = lens /\ g[3] = rows
        BY <1>2, <1>8, <1>11, <2>1 DEF AllRead, reads
    <2>3. VerdictOn(p, g) = BatchPrefillVerdict(g[1], g[2], g[3])
        BY DEF VerdictOn
    <2> QED BY <1>6, <2>2, <2>3
<1> QED BY <1>10, <1>11

LEMMA FreshBatchDecodeTest ==
    ASSUME NEW in \in CaseLists, FilesOf("dump_gpt2_batch_decode_golden", in)
    PROVE  /\ AllReadable("test_gpt2_batch_decode_logits")
           /\ \A g : AllRead("test_gpt2_batch_decode_logits", g) =>
                 VerdictOn("test_gpt2_batch_decode_logits", g) = "pass"
<1> DEFINE p == "test_gpt2_batch_decode_logits"
           reads == Reads(p)
           out == Outputs("dump_gpt2_batch_decode_golden", in)
           ids == FlatIds(Cases(in))
           lens == PromptLens(Cases(in))
           toks == GreedyTokens(in)
           rows == NextLogits(in)
<1>1. in \in CasesOf
    BY ModelFilesAssumption DEF CasesOf
<1>2. /\ Len(reads) = 4 /\ reads[1] = <<"batch_decode_input_ids.bin", All>>
      /\ reads[2] = <<"batch_decode_prompt_lens.bin", All>> /\ reads[3] = <<"batch_decode_tokens.bin", All>>
      /\ reads[4] = <<"batch_decode_expected_logits.bin", All>>
    <2>1. reads = << <<"batch_decode_input_ids.bin", All>>, <<"batch_decode_prompt_lens.bin", All>>,
                     <<"batch_decode_tokens.bin", All>>, <<"batch_decode_expected_logits.bin", All>> >>
        BY GoldenReadsAre
    <2> HIDE DEF reads
    <2> QED BY <2>1
<1> HIDE DEF reads
<1>3. /\ Len(out) = 5 /\ out[1][1] = "batch_decode_input_ids.bin" /\ out[1][2] = ids
      /\ out[2][1] = "batch_decode_prompt_lens.bin" /\ out[2][2] = lens
      /\ out[3][1] = "batch_decode_tokens.bin" /\ out[3][2] = toks
      /\ out[4][1] = "batch_decode_expected_logits.bin" /\ out[4][2] = rows
    <2>1. out = << <<"batch_decode_input_ids.bin", ids>>, <<"batch_decode_prompt_lens.bin", lens>>,
                   <<"batch_decode_tokens.bin", toks>>, <<"batch_decode_expected_logits.bin", rows>>,
                   <<"batch_decode_meta.json", Cases(in)>> >>
        BY <1>1, OutputsAre
    <2> HIDE DEF out, ids, lens, toks, rows
    <2> QED BY <2>1
<1>4. /\ IsList(ids) /\ lens \in Seq(Nat) /\ IsList(lens) /\ IsList(toks) /\ IsList(rows)
      /\ Len(toks) = Len(in) /\ Len(rows) = Len(in)
    <2>1. Len(toks) = Len(in) /\ Len(rows) = Len(in)
        BY <1>1 DEF GreedyTokens, NextLogits, CasesOf
    <2> QED BY <1>1, <2>1, ListsAre
<1>5. \A k \in 1..Len(out) : out[k][1] \in DOMAIN files /\ files[out[k][1]] = out[k][2]
    BY DEF FilesOf
<1>6. BatchDecodeVerdict(ids, lens, toks, rows) = "pass"
    <2>1. DecodeGoesOn(ids, lens, toks, rows) /\ rows = NextRows(Len(lens), ids, lens, toks)
        <3>1. 1 \in 0..1
            OBVIOUS
        <3>2. Len(lens) = Len(in) /\ ~BatchRefused(ids, lens, 1) /\ NextRows(Len(in), ids, lens, toks) = rows
            BY <3>1, CasesPass
        <3> HIDE DEF ids, lens, toks, rows
        <3> QED BY <1>4, <3>2 DEF DecodeGoesOn
    <2> HIDE DEF ids, lens, toks, rows
    <2> QED BY <1>4, <2>1, BatchDecodeVerdictIs
<1> HIDE DEF out, ids, lens, toks, rows
<1>7. /\ "batch_decode_input_ids.bin" \in DOMAIN files /\ files["batch_decode_input_ids.bin"] = ids
      /\ "batch_decode_prompt_lens.bin" \in DOMAIN files /\ files["batch_decode_prompt_lens.bin"] = lens
      /\ "batch_decode_tokens.bin" \in DOMAIN files /\ files["batch_decode_tokens.bin"] = toks
      /\ "batch_decode_expected_logits.bin" \in DOMAIN files /\ files["batch_decode_expected_logits.bin"] = rows
    <2>1. \A k \in 1..5 : out[k][1] \in DOMAIN files /\ files[out[k][1]] = out[k][2]
        BY <1>3, <1>5
    <2>2. 1 \in 1..5 /\ 2 \in 1..5 /\ 3 \in 1..5 /\ 4 \in 1..5
        OBVIOUS
    <2> QED BY <1>3, <2>1, <2>2
<1>8. /\ Readable(reads[1]) /\ PartOf(reads[1]) = ids
      /\ Readable(reads[2]) /\ PartOf(reads[2]) = lens
      /\ Readable(reads[3]) /\ PartOf(reads[3]) = toks
      /\ Readable(reads[4]) /\ PartOf(reads[4]) = rows
    BY <1>2, <1>4, <1>7, WholeFileRead
<1>9. \A k \in 1..4 : k = 1 \/ k = 2 \/ k = 3 \/ k = 4
    OBVIOUS
<1>10. AllReadable(p)
    BY <1>2, <1>8, <1>9 DEF AllReadable, reads
<1>11. ASSUME NEW g, AllRead(p, g) PROVE VerdictOn(p, g) = "pass"
    <2>1. 1 \in 1..4 /\ 2 \in 1..4 /\ 3 \in 1..4 /\ 4 \in 1..4
        OBVIOUS
    <2>2. g[1] = ids /\ g[2] = lens /\ g[3] = toks /\ g[4] = rows
        BY <1>2, <1>8, <1>11, <2>1 DEF AllRead, reads
    <2>3. VerdictOn(p, g) = BatchDecodeVerdict(g[1], g[2], g[3], g[4])
        BY DEF VerdictOn
    <2> QED BY <1>6, <2>2, <2>3
<1> QED BY <1>10, <1>11

-----------------------------------------------------------------------------
LEMMA FreshWeights ==
    ASSUME NEW in, FilesOf("export_weights", in)
    PROVE  AllReadable("load_weights")
<1> DEFINE reads == Reads("load_weights")
           out == Outputs("export_weights", in)
<1>1. LoadedTensors \in Seq(Tensors) /\ SavedTensors \in Seq(Tensors) /\ Len(SavedTensors) \in Nat \ {0}
    BY LoadedAre, SavedAre
<1>2. reads = [i \in 1..Len(LoadedTensors) |-> <<LoadedTensors[i], Size(LoadedTensors[i][1])>>]
    BY <1>1 DEF Reads
<1>3. \A k \in 1..Len(out) : out[k][1] \in DOMAIN files /\ files[out[k][1]] = out[k][2]
    BY DEF FilesOf
<1>4. ASSUME NEW j \in 1..Len(SavedTensors)
      PROVE  SavedTensors[j] \in DOMAIN files /\ files[SavedTensors[j]] = RowMajor(SavedTensors[j])
    <2>1. out[j] = <<SavedTensors[j], RowMajor(SavedTensors[j])>> /\ Len(out) = Len(SavedTensors)
        BY ExportOutputsAre
    <2> HIDE DEF out
    <2>2. out[j][1] = SavedTensors[j] /\ out[j][2] = RowMajor(SavedTensors[j]) /\ j \in 1..Len(out)
        BY <2>1
    <2> QED BY <1>3, <2>2
<1> HIDE DEF out, reads
<1>5. Len(reads) = Len(LoadedTensors)
    BY <1>1, <1>2
<1>6. ASSUME NEW k \in 1..Len(LoadedTensors) PROVE Readable(reads[k])
    <2> DEFINE t == LoadedTensors[k]
    <2>1. t \in Tensors
        BY <1>1
    <2>2. PICK j \in 1..Len(SavedTensors) : SavedTensors[j] = t
        BY LoadedAreSaved
    <2>3. t \in DOMAIN files /\ files[t] = RowMajor(t)
        BY <1>4, <2>2
    <2>4. reads[k] = <<t, Size(t[1])>>
        BY <1>2
    <2> HIDE DEF t
    <2>5. Len(RowMajor(t)) = Size(t[1]) /\ Size(t[1]) \in Nat \ {0}
        <3>1. Size(t[1]) \in Nat \ {0}
            BY <2>1, SizesAre
        <3>2. Size(t[1]) \in Int /\ Size(t[1]) <= Size(t[1])
            BY <3>1
        <3> QED BY <2>1, <3>1, <3>2, RowMajorStarts
    <2> QED BY <2>3, <2>4, <2>5 DEF Readable
<1> QED BY <1>5, <1>6 DEF AllReadable, reads

\* After a whole run every program finds what it reads, and is content with it.
LEMMA FreshProgram ==
    ASSUME WrittenInv, whole, program \in Programs(script)
    PROVE  /\ AllReadable(program)
           /\ \A g : AllRead(program, g) => VerdictOn(program, g) \in {"pass", "loaded"}
<1>1. script \in GoldenScripts \cup {"export_weights"} /\ input \in Inputs(script) /\ FilesOf(script, input)
    BY DEF WrittenInv, Written, FilesOf
<1>2. CASE script = "export_weights"
    <2>1. program = "load_weights"
        BY <1>2, GoldenProgramsAre
    <2>2. \A g : VerdictOn("load_weights", g) = "loaded"
        BY DEF VerdictOn
    <2> QED BY <1>1, <1>2, <2>1, <2>2, FreshWeights
<1>3. CASE script = "dump_gpt2_golden"
    <2>1. input \in Prompts /\ program \in {"test_gpt2_prefill_logits", "test_gpt2_decode_logits"}
        BY <1>1, <1>3 DEF Inputs, Programs
    <2> QED BY <1>1, <1>3, <2>1, FreshPrefillTest, FreshDecodeTest
<1>4. CASE script = "dump_gpt2_batch_prefill_golden"
    <2>1. input \in CaseLists /\ program = "test_gpt2_batch_prefill_logits"
        BY <1>1, <1>4 DEF Inputs, Programs
    <2> QED BY <1>1, <1>4, <2>1, FreshBatchPrefillTest
<1>5. CASE script = "dump_gpt2_batch_decode_golden"
    <2>1. input \in CaseLists /\ program = "test_gpt2_batch_decode_logits"
        BY <1>1, <1>5 DEF Inputs, Programs
    <2> QED BY <1>1, <1>5, <2>1, FreshBatchDecodeTest
<1> QED BY <1>1, <1>2, <1>3, <1>4, <1>5 DEF GoldenScripts

\* The program has read parts of the files as the whole run left them.
FreshInv ==
    clean => /\ whole /\ program \in Programs(script) /\ verdict \in {"none", "pass", "loaded"}
             /\ script \in GoldenScripts => \A i \in 1..Len(got) : got[i] = PartOf(Reads(program)[i])

\* How far the program is.
LEMMA ReadSoFar ==
    ASSUME GoldenInv, WeightsInv, program \in Programs(script)
    PROVE  /\ Len(got) \in Nat /\ Len(Reads(program)) \in Nat
           /\ script \in GoldenScripts => IsList(got) /\ program # "none"
<1>1. CASE script = "export_weights"
    <2>1. program = "load_weights"
        BY <1>1, GoldenProgramsAre
    <2>2. LoadInv /\ "export_weights" \notin GoldenScripts
        BY <2>1 DEF WeightsInv, GoldenScripts
    <2>3. LoadedTensors \in Seq(Tensors)
        BY LoadedAre
    <2>4. Reads(program) = [i \in 1..Len(LoadedTensors) |-> <<LoadedTensors[i], Size(LoadedTensors[i][1])>>]
        BY <2>1, <2>3 DEF Reads
    <2>5. Len(Reads(program)) \in Nat
        BY <2>3, <2>4
    <2> QED BY <1>1, <2>2, <2>5 DEF LoadInv
<1>2. CASE script # "export_weights"
    <2>1. script \in GoldenScripts /\ GoldenTest
        BY <1>2 DEF GoldenInv
    <2>2. program \in GoldenPrograms
        BY <2>1, GoldenProgramsAre
    <2>3. Len(Reads(program)) \in Nat
        BY <2>2, WantedAre
    <2>4. program # "none"
        BY <2>2 DEF GoldenPrograms
    <2> QED BY <2>1, <2>3, <2>4 DEF GoldenTest, IsList
<1> QED BY <1>1, <1>2

LEMMA FreshKept == FreshInv /\ WrittenInv /\ GoldenInv /\ WeightsInv /\ [Next]_vars => FreshInv'
<1> SUFFICES ASSUME FreshInv, WrittenInv, GoldenInv, WeightsInv, [Next]_vars, clean' PROVE FreshInv'
    BY DEF FreshInv
<1>1. CASE Start
    BY <1>1 DEF Start
<1>2. CASE Open \/ Close \/ Interrupt
    <2>1. next > 0 \/ open
        BY <1>2, Zenon DEF Open, Close, Interrupt
    <2>2. next # 0
        <3>1. next > 0 => next # 0
            OBVIOUS
        <3> QED BY <2>1, <3>1, Zenon DEF WrittenInv
    <2>3. clean
        BY <1>2, Zenon DEF Open, Close, Interrupt
    <2> QED BY <2>2, <2>3, Zenon DEF FreshInv, WrittenInv
<1>3. CASE StartProgram
    <2>1. /\ whole' /\ program' \in Programs(script') /\ got' = <<>> /\ verdict' = "none"
        BY <1>3 DEF StartProgram, GoldenInv, disk
    <2>2. 1..Len(got') = {}
        BY <2>1
    <2> QED BY <2>1, <2>2 DEF FreshInv
<1>4. CASE ReadFile
    <2> DEFINE k == Len(got) + 1
               w == Reads(program)[k]
    <2>1. /\ clean /\ got' = Append(got, PartOf(w)) /\ verdict' = "none"
          /\ UNCHANGED <<script, files, program, whole>>
        BY <1>4 DEF ReadFile, Running, PartOf, disk
    <2>2. whole /\ program \in Programs(script)
        BY <2>1 DEF FreshInv
    <2>3. ASSUME script \in GoldenScripts, NEW i \in 1..Len(got') PROVE got'[i] = PartOf(Reads(program)[i])
        <3>1. IsList(got) /\ Len(got) \in Nat
            BY <2>2, <2>3, ReadSoFar
        <3> DEFINE x == PartOf(w)
        <3>2. got' = Append(got, x)
            BY <2>1
        <3> HIDE DEF x
        <3>3. /\ Len(got') = k /\ got'[k] = x
              /\ \A j \in 1..Len(got) : got'[j] = got[j]
            BY <3>1, <3>2, ListAppend
        <3>4. CASE i = k
            BY <3>3, <3>4 DEF x
        <3>5. CASE i # k
            <4>1. i \in 1..Len(got)
                BY <3>1, <3>3, <3>5
            <4> QED BY <2>1, <2>3, <3>3, <4>1 DEF FreshInv
        <3> QED BY <3>4, <3>5
    <2>4. ASSUME script \in GoldenScripts, NEW i \in 1..Len(got') PROVE got'[i] = PartOf(Reads(program)[i])'
        BY <2>1, <2>3, <2>4 DEF PartOf
    <2> QED BY <2>1, <2>2, <2>4 DEF FreshInv
<1>5. CASE ReadFails
    <2>1. clean /\ Len(got) < Len(Reads(program)) /\ ~Readable(Reads(program)[Len(got) + 1])
        BY <1>5 DEF ReadFails
    <2>2. whole /\ program \in Programs(script)
        BY <2>1 DEF FreshInv
    <2>3. AllReadable(program)
        BY <2>2, FreshProgram
    <2>4. Len(got) + 1 \in 1..Len(Reads(program))
        BY <2>1, <2>2, ReadSoFar
    <2> QED BY <2>1, <2>3, <2>4 DEF AllReadable
<1>6. CASE Judge
    <2>1. /\ clean /\ Len(got) = Len(Reads(program)) /\ verdict' = VerdictOn(program, got)
          /\ UNCHANGED <<script, files, program, got, whole>>
        BY <1>6 DEF Judge, disk
    <2>2. whole /\ program \in Programs(script)
          /\ (script \in GoldenScripts => \A i \in 1..Len(got) : got[i] = PartOf(Reads(program)[i]))
        BY <2>1 DEF FreshInv
    <2>3. verdict' \in {"pass", "loaded"}
        <3>1. CASE script \in GoldenScripts
            <4>1. AllRead(program, got)
                BY <2>1, <2>2, <3>1 DEF AllRead
            <4> QED BY <2>1, <2>2, <4>1, FreshProgram
        <3>2. CASE script \notin GoldenScripts
            <4>1. script = "export_weights"
                BY <3>2 DEF GoldenInv
            <4>2. program = "load_weights"
                BY <2>2, <4>1, GoldenProgramsAre
            <4> QED BY <2>1, <4>2 DEF VerdictOn
        <3> QED BY <3>1, <3>2
    <2>4. \A i : PartOf(Reads(program)[i])' = PartOf(Reads(program)[i])
        BY <2>1 DEF PartOf
    <2> QED BY <2>1, <2>2, <2>3, <2>4 DEF FreshInv
<1>7. CASE UNCHANGED vars
    BY <1>7 DEF vars, disk, reader, FreshInv, PartOf
<1> QED BY <1>1, <1>2, <1>3, <1>4, <1>5, <1>6, <1>7 DEF Next

\* A program that finds the files of a completed run, and no run since, ends well:
\* for every list of cases that fits the tests, every prompt and every size of the
\* model, what the scripts write passes the programs' checks, and the paged model
\* gives the rows of the recompute.
THEOREM FreshGoldenFilesAlwaysPass == Spec => []FreshGoldenFilesPass
<1>1. Init => FreshInv /\ WrittenInv /\ GoldenInv /\ WeightsInv
    <2>1. 0 \in 0..Len(SavedTensors)
        BY SavedAre
    <2>2. Init => WeightsInv
        BY <2>1 DEF Init, WeightsInv, ExportInv
    <2>3. Init => GoldenInv
        BY DEF Init, GoldenInv, GoldenScripts, GoldenFiles, GoldenTest, IsList
    <2>4. Init => FreshInv /\ WrittenInv
        BY DEF Init, FreshInv, WrittenInv, GoldenScripts
    <2> QED BY <2>2, <2>3, <2>4
<1>2. FreshInv => FreshGoldenFilesPass
    BY DEF FreshInv, FreshGoldenFilesPass
<1> QED BY <1>1, <1>2, FreshKept, WrittenKept, GoldenInvKept, WeightsInvKept, PTL DEF Spec
=============================================================================
