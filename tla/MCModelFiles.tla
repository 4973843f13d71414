---------------------------- MODULE MCModelFiles ----------------------------
(* ModelFiles with a few texts: lists of cases that differ in the tokens    *)
(* only, in the lengths, and in their number; two prompts.                  *)
EXTENDS ModelFiles

Tokens == << <<"token", 1>>, <<"token", 2>>, <<"token", 3>> >>

Lists == { << <<1, 0>>, <<2, 1>> >>,
           << <<1, 0>>, <<2, 2>> >>,
           << <<1, 0>>, <<1, 1>>, <<1, 2>> >> }

TwoPrompts == {SubSeq(Tokens, 1, 2), SubSeq(Tokens, 2, 3)}

\* What the scripts do after the program's verdict is of no consequence.
NoVerdictYet == verdict = "none"
=============================================================================
