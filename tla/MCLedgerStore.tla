---------------------------- MODULE MCLedgerStore ----------------------------
(***************************************************************************)
(* One session, one context and outcomes that share it: observed in one    *)
(* file, in the other, or drafted and rejected.                            *)
(***************************************************************************)
EXTENDS LedgerStore

Outcome(tail, draft, acc, bonus, topk, seg, file) ==
    [scopes |-> [d \in 0..2 |-> "session"], tail |-> tail, draft |-> draft,
     acc |-> acc, bonus |-> bonus, topk |-> topk, seg |-> seg, file |-> file]

Row(t, u) == <<[tok |-> t, q |-> 0], [tok |-> u, q |-> 1]>>

\* Observed in one file, with a row of the target's ranking, and in another:
\* there behind a first position, which is too short for a key of order 2.
InFile1  == Outcome(<<0, 0>>, <<>>, 0, 1, <<Row(1, 2)>>, <<"code">>, 1)
InFile2  == Outcome(<<0>>, <<0>>, 1, 2, <<>>, <<"text", "code">>, 2)
TwoFiles == {InFile1, InFile2}

\* A context with one known continuation, and a draft of another one there that
\* was rejected for a third.
Known     == Outcome(<<0, 0>>, <<>>, 0, 0, <<>>, <<"code">>, 1)
Surprised == Outcome(<<0, 0>>, <<2>>, 0, 3, <<>>, <<"code">>, 1)
Surprise  == {Known, Surprised}
=============================================================================
