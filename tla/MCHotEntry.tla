----------------------------- MODULE MCHotEntry -----------------------------
(***************************************************************************)
(* A small hot entry for TLC.                                              *)
(***************************************************************************)
EXTENDS HotEntry

\* Rows of two distinct tokens with log-probabilities, of one without, and the
\* empty row.
PairRows ==
    {<<>>} \cup {<<[tok |-> t, q |-> Unseen]>> : t \in Tokens}
           \cup {<<[tok |-> p[1], q |-> 0], [tok |-> p[2], q |-> QMax]>> :
                    p \in {x \in Tokens \X Tokens : x[1] # x[2]}}
=============================================================================
