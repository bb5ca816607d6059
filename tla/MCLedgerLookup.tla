---------------------------- MODULE MCLedgerLookup ----------------------------
(***************************************************************************)
(* One position, known under the two longest orders, where token 1 is      *)
(* realized, or proposed, rejected and corrected to token 2; and another   *)
(* one that differs in the eighth token back, where it is always rejected. *)
(***************************************************************************)
EXTENDS LedgerLookup, TLC

Scopes == [d \in 0..2 |-> "session"]

Context(first) == <<first, 0, 0, 0, 0, 0, 0, 0>>

Outcome(first, draft, bonus, topk) ==
    [scopes |-> Scopes, tail |-> Context(first), draft |-> draft, acc |-> 0,
     bonus |-> bonus, topk |-> topk, seg |-> <<"code">>, file |-> 1]

Row(t, u) == <<[tok |-> t, q |-> 0], [tok |-> u, q |-> QMax]>>

Realized(first, t)          == Outcome(first, <<>>, t, <<>>)
RejectedFor(first, u, topk) == Outcome(first, <<1>>, u, topk)

\* The beginning of a stream: its first position has no order yet, its second
\* one only the shorter order.
AtStart == [Outcome(0, <<0>>, 2, <<>>) EXCEPT !.tail = <<0, 0, 0, 0, 0, 0>>, !.acc = 1,
                                              !.seg = <<"code", "code">>]

\* Token 2 is the only correction there is; the target's own ranking is known
\* of one of the two positions.
Corrected ==
    {Realized(0, 1), RejectedFor(0, 2, <<>>), RejectedFor(1, 2, <<Row(2, 1)>>), AtStart}

AtContext == {[ctx |-> Context(0), scopes |-> Scopes, seg |-> "code"]}

\* order_decay = 0.55, scope_decay = 0.35, e^(-q/16) at q = 0 and 255.
OrderWeights == 7 :> 550 @@ 8 :> 1000
ScopeWeights == 0 :> 1000 @@ 1 :> 350
Probs        == 0 :> 1000 @@ 1 :> 0
=============================================================================
