----------------------------- MODULE ModelFiles -----------------------------
(***************************************************************************)
(* The scripts that write files for the model, and the programs that read  *)
(* them, as processes of their own:                                        *)
(*   export_weights.py                     -> load_weights                 *)
(*   dump_gpt2_golden.py                   -> test_gpt2_prefill_logits,    *)
(*                                            test_gpt2_decode_logits      *)
(*   dump_gpt2_batch_{prefill,decode}_golden.py                            *)
(*                                -> test_gpt2_batch_{prefill,decode}_logits *)
(* A script writes its files one after the other, each in place: a file is *)
(* empty or cut short until it is closed, and stays so when the script is  *)
(* interrupted.  It may be run again, with other cases.  A program may be  *)
(* started at any time; what it reads may come from two runs.              *)
(*                                                                         *)
(* A file is the sequence of its elements; a row of logits is one element, *)
(* a term of GPT2Model.  Two rows are within the tolerances of the tests   *)
(* exactly when they are equal.                                            *)
(***************************************************************************)
EXTENDS GPT2Model

CONSTANTS BASE_TOKENS,
          CaseLists,      \* what CASES may be: sequences of <<length, shift>>
          Prompts,        \* what PROMPT may be, as the tokenizer gives it
          PROMPT_LEN,     \* of test_gpt2_decode_logits
          MAX_SEQ, MAX_BATCH_NUM,
          GPT2_VOCAB_SIZE, GPT2_D_MODEL, GPT2_D_FF,
          MAX_RUNS        \* bound: runs of the script

ASSUME ModelFilesAssumption ==
    /\ {PROMPT_LEN, MAX_SEQ, MAX_BATCH_NUM, GPT2_VOCAB_SIZE, GPT2_D_MODEL, GPT2_D_FF} \subseteq Nat \ {0}
    /\ MAX_RUNS \in Nat /\ BASE_TOKENS # <<>>
    /\ \A p \in Prompts : p = [i \in 1..PROMPT_LEN |-> p[i]]
    /\ GPT2_N_LAYERS * CeilDiv(PROMPT_LEN + 1, DEFAULT_KV_BLOCK_SIZE) <= DEFAULT_TOTAL_KV_BLOCKS
    /\ CaseLists \subseteq Seq((1..(MAX_SEQ - 2)) \X Nat)

VARIABLES script,   \* the script that is run
          input,    \* its CASES or PROMPT in the present or last run
          next,     \* the output it is at; 0 when it does not run
          open,     \* it has opened that output and not closed it
          runs,     \* runs so far
          files,    \* what is on the disk, by name
          program,  \* the program that is started
          got,      \* what it has read
          verdict,  \* what came of it
          whole,    \* history: the last run was completed
          clean     \* history: so it was when the program started, and no run since

disk == <<input, next, open, runs, files, whole>>
reader == <<program, got, verdict>>
vars == <<script, disk, reader, clean>>
-----------------------------------------------------------------------------
(* What the scripts write: their outputs in order, <<name, elements>>. *)

Greedy(logits) == <<"argmax", logits>>

make_tokens(length, shift) ==
    [i \in 1..length |-> BASE_TOKENS[((i - 1 + shift) % Len(BASE_TOKENS)) + 1]]

Cases(list) == [i \in DOMAIN list |-> make_tokens(list[i][1], list[i][2])]

\* The prompts one behind the other, and their lengths.
FlatIds(cases) == FlattenSeq(cases)
PromptLens(cases) == [i \in DOMAIN cases |-> Len(cases[i])]

PrefillOutputs(list) ==
    LET cases == Cases(list)
    IN  << <<"batch_prefill_input_ids.bin", FlatIds(cases)>>,
           <<"batch_prefill_prompt_lens.bin", PromptLens(cases)>>,
           <<"batch_prefill_expected_logits.bin", [i \in DOMAIN cases |-> FullLogits(cases[i])]>>,
           <<"batch_prefill_meta.json", cases>> >>

LogitsOfThePrompt(tokens) ==  \* fault: the decode token is not appended
    [decode_token |-> Greedy(FullLogits(tokens)), logits |-> FullLogits(tokens)]

\* The greedy token of the prompt, and the logits of the prompt with that token.
DecodeStep(tokens) ==
    LET decode_token == Greedy(FullLogits(tokens))
    IN  [decode_token |-> decode_token, logits |-> FullLogits(Append(tokens, decode_token))]

DecodeOutputs(list) ==
    LET cases == Cases(list)
        steps == [i \in DOMAIN cases |-> DecodeStep(cases[i])]
    IN  << <<"batch_decode_input_ids.bin", FlatIds(cases)>>,
           <<"batch_decode_prompt_lens.bin", PromptLens(cases)>>,
           <<"batch_decode_tokens.bin", [i \in DOMAIN cases |-> steps[i].decode_token]>>,
           <<"batch_decode_expected_logits.bin", [i \in DOMAIN cases |-> steps[i].logits]>>,
           <<"batch_decode_meta.json", cases>> >>

GoldenOutputs(prompt) ==
    LET step == DecodeStep(prompt)
    IN  << <<"input_ids.bin", prompt>>,
           <<"expected_logits.bin", <<FullLogits(prompt)>> >>,
           <<"decode_token.bin", <<step.decode_token>> >>,
           <<"expected_decode_logits.bin", <<step.logits>> >>,
           <<"meta.json", <<prompt>> >> >>

\* Rows and columns of a tensor of the model; a vector is one row.
D == GPT2_D_MODEL
Shape ==
    [wte |-> <<GPT2_VOCAB_SIZE, D>>, wpe |-> <<MAX_SEQ, D>>, ln_f_w |-> <<1, D>>, ln_f_b |-> <<1, D>>,
     ln1_w |-> <<1, D>>, ln1_b |-> <<1, D>>, ln2_w |-> <<1, D>>, ln2_b |-> <<1, D>>,
     qkv_w |-> <<D, 3 * D>>, qkv_b |-> <<1, 3 * D>>, out_w |-> <<D, D>>, out_b |-> <<1, D>>,
     fc1_w |-> <<D, GPT2_D_FF>>, fc1_b |-> <<1, GPT2_D_FF>>,
     fc2_w |-> <<GPT2_D_FF, D>>, fc2_b |-> <<1, D>>]

\* A tensor of the state dict is named by its field and its layer, 0 for none.
Transposed(t) ==  \* fault: the file has the tensor column by column
    LET rows == Shape[t[1]][1]
        cols == Shape[t[1]][2]
    IN  [i \in 1..(rows * cols) |-> <<t, (i - 1) % rows, (i - 1) \div rows>>]

\* save: the elements row by row.
RowMajor(t) ==
    LET rows == Shape[t[1]][1]
        cols == Shape[t[1]][2]
    IN  [i \in 1..(rows * cols) |-> <<t, (i - 1) \div cols, (i - 1) % cols>>]

\* These tensors of the first layer, of the second, ...
OfLayers(names) ==
    [k \in 1..(GPT2_N_LAYERS * Len(names)) |->
        <<names[((k - 1) % Len(names)) + 1], (k - 1) \div Len(names) + 1>>]

SavedTensors ==
    << <<"wte", 0>>, <<"wpe", 0>> >>
    \o OfLayers(<<"ln1_w", "ln1_b", "ln2_w", "ln2_b", "qkv_w", "qkv_b",
                  "out_w", "out_b", "fc1_w", "fc1_b", "fc2_w", "fc2_b">>)
    \o << <<"ln_f_w", 0>>, <<"ln_f_b", 0>> >>

ExportOutputs == [i \in DOMAIN SavedTensors |-> <<SavedTensors[i], RowMajor(SavedTensors[i])>>]
-----------------------------------------------------------------------------
(* The scripts as processes. *)

Outputs(s, in) ==
    CASE s = "export_weights"                 -> ExportOutputs
      [] s = "dump_gpt2_golden"               -> GoldenOutputs(in)
      [] s = "dump_gpt2_batch_prefill_golden" -> PrefillOutputs(in)
      [] s = "dump_gpt2_batch_decode_golden"  -> DecodeOutputs(in)

Inputs(s) ==
    CASE s = "export_weights"   -> {<<>>}
      [] s = "dump_gpt2_golden" -> Prompts
      [] OTHER                  -> CaseLists

Programs(s) ==
    CASE s = "export_weights"   -> {"load_weights"}
      [] s = "dump_gpt2_golden" -> {"test_gpt2_prefill_logits", "test_gpt2_decode_logits"}
      [] s = "dump_gpt2_batch_prefill_golden" -> {"test_gpt2_batch_prefill_logits"}
      [] s = "dump_gpt2_batch_decode_golden"  -> {"test_gpt2_batch_decode_logits"}

Init ==
    /\ script \in {"export_weights", "dump_gpt2_golden",
                   "dump_gpt2_batch_prefill_golden", "dump_gpt2_batch_decode_golden"}
    /\ input = <<>> /\ next = 0 /\ open = FALSE /\ runs = 0
    /\ files = <<>>
    /\ program = "none" /\ got = <<>> /\ verdict = "none"
    /\ whole = FALSE /\ clean = FALSE

\* The file f has these elements.
Write(f, elements) ==
    files' = [g \in DOMAIN files \cup {f} |-> IF g = f THEN elements ELSE files[g]]

\* main() up to the first output; `input' is how the script's CASES or PROMPT
\* read this time.
Start ==
    /\ next = 0 /\ runs < MAX_RUNS
    /\ input' \in Inputs(script)
    /\ next' = 1 /\ open' = FALSE /\ runs' = runs + 1
    /\ whole' = FALSE /\ clean' = FALSE
    /\ UNCHANGED <<script, files, reader>>

\* tofile and write_text open the file, which empties it, and write: somebody
\* who looks sees the part that came so far.  Bound: nothing, or all but the last
\* element.
Open ==
    /\ next > 0 /\ ~open
    /\ LET out == Outputs(script, input)[next]
       IN  \E n \in {0, Len(out[2]) - 1} : Write(out[1], SubSeq(out[2], 1, n))
    /\ open' = TRUE
    /\ UNCHANGED <<script, input, next, runs, whole, reader, clean>>

\* The rest of it; then the next output, or the end of the script.
Close ==
    /\ open
    /\ open' = FALSE
    /\ LET outputs == Outputs(script, input)
           last    == next = Len(outputs)
       IN  /\ Write(outputs[next][1], outputs[next][2])
           /\ next' = IF last THEN 0 ELSE next + 1
           /\ whole' = last
    /\ UNCHANGED <<script, input, runs, reader, clean>>

\* The script is killed.
Interrupt ==
    /\ next > 0
    /\ next' = 0 /\ open' = FALSE
    /\ UNCHANGED <<script, input, runs, files, whole, reader, clean>>
-----------------------------------------------------------------------------
(* The tests: what they make of what they read. *)

SumOf(lens) == Before(lens, Len(lens) + 1)

\* make_requests_from_flat_tokens refuses: a prompt that is empty or leaves no
\* room for `more' tokens, too few tokens for the lengths, or too many.
Refused(ids, lens, more) ==
    \/ \E i \in DOMAIN lens : lens[i] <= 0 \/ lens[i] + more >= MAX_SEQ
    \/ SumOf(lens) # Len(ids)

\* prepare_batched_*_kv_blocks: consecutive ids, request by request and layer by
\* layer, for `more' tokens beyond the prompt; no token is cached.
Tables(lens, i, more) ==
    LET per(n) == CeilDiv(n + more, DEFAULT_KV_BLOCK_SIZE)
        first  == GPT2_N_LAYERS * Before([j \in DOMAIN lens |-> per(lens[j])], i)
    IN  [l \in 1..GPT2_N_LAYERS |->
            [blocks |-> [b \in 1..per(lens[i]) |-> first + (l - 1) * per(lens[i]) + b - 1],
             tokens |-> 0]]

BlocksNeeded(lens, more) ==
    GPT2_N_LAYERS * SumOf([i \in DOMAIN lens |-> CeilDiv(lens[i] + more, DEFAULT_KV_BLOCK_SIZE)])

\* The scripts' cases fit the tests: there are some, no more than a batch holds,
\* and the pool has the blocks, for a token more as well.
ASSUME CasesFit ==
    \A list \in CaseLists :
        /\ Len(list) \in 1..MAX_BATCH_NUM
        /\ \A more \in 0..1 : BlocksNeeded(PromptLens(Cases(list)), more) <= DEFAULT_TOTAL_KV_BLOCKS

Requests(ids, lens, more) ==
    [i \in DOMAIN lens |->
        [tokens      |-> SubSeq(ids, Before(lens, i) + 1, Before(lens, i) + lens[i]),
         prompts_len |-> lens[i],
         layer_kv    |-> Tables(lens, i, more)]]

\* mark_prefill_cached and append_decode_tokens.
AfterPrefill(reqs, decode_tokens) ==
    [i \in DOMAIN reqs |->
        [reqs[i] EXCEPT !.tokens   = Append(@, decode_tokens[i]),
                        !.layer_kv = [l \in DOMAIN @ |-> [@[l] EXCEPT !.tokens = reqs[i].prompts_len]]]]

CompareFirstRow(got_logits, expected) ==  \* fault: the row's offset is missing
    IF got_logits[1] = expected[1] THEN "pass" ELSE "fail"

\* The rows are compared one by one; all must agree.
Compare(got_logits, expected) ==
    IF \A row \in DOMAIN got_logits : got_logits[row] = expected[row] THEN "pass" ELSE "fail"

PrefillLogits(reqs) == Prefill(reqs, EmptyPool).logits

DecodeLogits(reqs, decode_tokens) ==
    Decode(AfterPrefill(reqs, decode_tokens), Prefill(reqs, EmptyPool).pool).logits

\* prompt_lens.bin is empty, exceeds MAX_BATCH_NUM, or does not fit the others.
BatchRefused(ids, lens, more) ==
    \/ lens = <<>> \/ Len(lens) > MAX_BATCH_NUM
    \/ Refused(ids, lens, more)
    \/ BlocksNeeded(lens, more) > DEFAULT_TOTAL_KV_BLOCKS

BatchPrefillVerdict(ids, lens, expected) ==
    IF BatchRefused(ids, lens, 0) \/ Len(expected) # Len(lens) THEN "exit"
    ELSE Compare(PrefillLogits(Requests(ids, lens, 0)), expected)

BatchDecodeVerdict(ids, lens, decode_tokens, expected) ==
    IF \/ BatchRefused(ids, lens, 1)
       \/ Len(decode_tokens) # Len(lens) \/ Len(expected) # Len(lens) THEN "exit"
    ELSE Compare(DecodeLogits(Requests(ids, lens, 1), decode_tokens), expected)

PrefillVerdict(ids, expected) ==
    IF ids = <<>> \/ Len(expected) # 1 THEN "exit"
    ELSE Compare(PrefillLogits(Requests(ids, <<Len(ids)>>, 0)), expected)

DecodeVerdict(ids, decode_token, expected) ==
    Compare(DecodeLogits(Requests(ids, <<PROMPT_LEN>>, 1), decode_token), expected)
-----------------------------------------------------------------------------
(* The programs as processes.  load_bin and read_bin take the first n      *)
(* elements of a file and end the program when it has fewer; read_all_bin  *)
(* takes all.                                                              *)

All == -1

ReadAll(names) == [i \in DOMAIN names |-> <<names[i], All>>]

Size(field) == Shape[field][1] * Shape[field][2]

\* The order in which load_weights goes through the files.
LoadedTensors ==
    << <<"wte", 0>>, <<"wpe", 0>> >>
    \o OfLayers(<<"ln1_w", "ln1_b", "qkv_w", "qkv_b", "out_w", "out_b",
                  "ln2_w", "ln2_b", "fc1_w", "fc1_b", "fc2_w", "fc2_b">>)
    \o << <<"ln_f_w", 0>>, <<"ln_f_b", 0>> >>

Reads(p) ==
    CASE p = "load_weights" ->
            [i \in DOMAIN LoadedTensors |-> <<LoadedTensors[i], Size(LoadedTensors[i][1])>>]
      [] p = "test_gpt2_prefill_logits" -> ReadAll(<<"input_ids.bin", "expected_logits.bin">>)
      [] p = "test_gpt2_decode_logits" ->
            << <<"input_ids.bin", PROMPT_LEN>>, <<"decode_token.bin", 1>>,
               <<"expected_decode_logits.bin", 1>> >>
      [] p = "test_gpt2_batch_prefill_logits" ->
            ReadAll(<<"batch_prefill_input_ids.bin", "batch_prefill_prompt_lens.bin",
                      "batch_prefill_expected_logits.bin">>)
      [] p = "test_gpt2_batch_decode_logits" ->
            ReadAll(<<"batch_decode_input_ids.bin", "batch_decode_prompt_lens.bin",
                      "batch_decode_tokens.bin", "batch_decode_expected_logits.bin">>)

VerdictOn(p, in) ==
    CASE p = "load_weights"                   -> "loaded"
      [] p = "test_gpt2_prefill_logits"       -> PrefillVerdict(in[1], in[2])
      [] p = "test_gpt2_decode_logits"        -> DecodeVerdict(in[1], in[2], in[3])
      [] p = "test_gpt2_batch_prefill_logits" -> BatchPrefillVerdict(in[1], in[2], in[3])
      [] p = "test_gpt2_batch_decode_logits"  -> BatchDecodeVerdict(in[1], in[2], in[3], in[4])

\* A program is started; one is enough to look at.
StartProgram ==
    /\ program = "none"
    /\ program' \in Programs(script)
    /\ clean' = whole
    /\ UNCHANGED <<script, disk, got, verdict>>

Running == program # "none" /\ verdict = "none"

\* The file w[1] is there, with the w[2] elements that are wanted.
Readable(w) == w[1] \in DOMAIN files /\ w[2] <= Len(files[w[1]])

\* It reads the next file...
ReadFile ==
    /\ Running /\ Len(got) < Len(Reads(program))
    /\ LET w == Reads(program)[Len(got) + 1]
       IN  /\ Readable(w)
           /\ got' = Append(got, IF w[2] = All THEN files[w[1]] ELSE SubSeq(files[w[1]], 1, w[2]))
    /\ UNCHANGED <<script, disk, program, verdict, clean>>

\* ... or calls std::exit(1).
ReadFails ==
    /\ Running /\ Len(got) < Len(Reads(program))
    /\ ~Readable(Reads(program)[Len(got) + 1])
    /\ verdict' = "exit"
    /\ UNCHANGED <<script, disk, program, got, clean>>

\* The rest of the program looks at no file.
Judge ==
    /\ Running /\ Len(got) = Len(Reads(program))
    /\ verdict' = VerdictOn(program, got)
    /\ UNCHANGED <<script, disk, program, got, clean>>

Next ==
    \/ Start \/ Open \/ Close \/ Interrupt
    \/ StartProgram \/ ReadFile \/ ReadFails \/ Judge

Spec == Init /\ [][Next]_vars
-----------------------------------------------------------------------------
(* Properties *)

\* The texts a test puts to the model, row by row, and the logits it compares
\* with, as it read them.
TextsRead ==
    CASE program = "test_gpt2_prefill_logits" -> <<got[1]>>
      [] program = "test_gpt2_decode_logits"  -> <<got[1] \o got[2]>>
      [] program = "test_gpt2_batch_prefill_logits" ->
            [i \in DOMAIN got[2] |-> SubSeq(got[1], Before(got[2], i) + 1, Before(got[2], i) + got[2][i])]
      [] program = "test_gpt2_batch_decode_logits" ->
            [i \in DOMAIN got[2] |->
                Append(SubSeq(got[1], Before(got[2], i) + 1, Before(got[2], i) + got[2][i]), got[3][i])]

ExpectedRead == got[Len(got)]

\* A test that passes has compared every row of logits it was given with the
\* full recompute of one text it was given, although the files are read while
\* they may be rewritten, cut short, or left over from runs with other cases:
\* a mixture is refused or fails.
PassMeansEveryRowIsRight ==
    verdict = "pass" => ExpectedRead = [i \in DOMAIN TextsRead |-> FullLogits(TextsRead[i])]

\* A test that finds the files of a completed run, with nobody writing, passes:
\* the scripts' files fit the programs' checks, and batched, paged prefill and
\* decode agree with the recompute without a cache for every list of cases.
FreshGoldenFilesPass == clean => verdict \in {"none", "pass", "loaded"}

\* A model that comes up has every weight in its place: whenever load_weights is
\* run, also while the files are exported again or after an export that was cut
\* short, each field it gets past has at row k and column n the element of the
\* model's tensor of that name and layer that linear() multiplies with input k
\* for output n.
LoadedWeightsAreTheModels ==
    program = "load_weights" =>
        \A i \in DOMAIN got :
            LET t    == LoadedTensors[i]
                cols == Shape[t[1]][2]
            IN  /\ Len(got[i]) = Size(t[1])
                /\ \A j \in DOMAIN got[i] : got[i][j] = <<t, (j - 1) \div cols, (j - 1) % cols>>
=============================================================================
