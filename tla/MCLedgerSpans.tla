---------------------------- MODULE MCLedgerSpans ----------------------------
(***************************************************************************)
(* One session and one context <<0, 0>> with drafts that agree or disagree *)
(* with what was observed there.  Runs are two or three tokens long.       *)
(***************************************************************************)
EXTENDS LedgerSpans

Outcome(tail, draft, acc, bonus, seg, file) ==
    [scopes |-> [d \in 0..2 |-> "session"],
     tail |-> tail, draft |-> draft, acc |-> acc, bonus |-> bonus,
     topk |-> <<>>, seg |-> <<seg>>, file |-> file]

\* The run 1 1 (or 1 1 0) of file 1, the other run 1 0 of file 2.
Whole1   == Outcome(<<0, 0>>, <<1>>, 1, 1, "code", 1)
Whole2   == Outcome(<<0, 0>>, <<1>>, 1, 0, "code", 2)
Broken1  == Outcome(<<0, 0>>, <<1, 0>>, 1, 1, "code", 1)
More     == Outcome(<<1, 1>>, <<>>, 0, 0, "code", 1)
Text     == Outcome(<<1, 1>>, <<>>, 0, 0, "text", NoFile)

OneFile  == {Whole1, Broken1, More, Text}
TwoFiles == {Whole1, Whole2, Broken1, Text}
=============================================================================
