----------------------------- MODULE TokenRecycling -----------------------------
(***************************************************************************)
(* The token recycling proposer (sim/proposers.py, TokenRecyclingProposer):*)
(* for every token the top-k row that followed it last, per tenant, and a  *)
(* draft that fills a fixed tree from these rows.                          *)
(***************************************************************************)
EXTENDS LedgerTypes, DraftTrees

CONSTANTS Tenants,
          Template,   \* TR_TREE_TEMPLATE: the path of slots of every node
          RowWidth    \* TR_K (8)

\* The tree of the original implementation, 80 nodes six levels deep.
TreeTemplate ==
    << <<0>>, <<1>>, <<2>>, <<3>>, <<4>>, <<5>>, <<6>>, <<7>>,
       <<0, 0>>, <<0, 1>>, <<0, 2>>, <<0, 3>>, <<0, 4>>, <<0, 5>>, <<0, 6>>, <<0, 7>>,
       <<1, 0>>, <<1, 1>>, <<1, 2>>, <<1, 3>>, <<2, 0>>, <<2, 1>>, <<2, 2>>, <<3, 0>>,
       <<3, 1>>, <<4, 0>>, <<5, 0>>, <<6, 0>>, <<7, 0>>,
       <<0, 0, 0>>, <<0, 0, 1>>, <<0, 0, 2>>, <<0, 0, 3>>, <<0, 0, 4>>, <<0, 0, 5>>,
       <<0, 0, 6>>, <<0, 0, 7>>, <<0, 1, 0>>, <<0, 1, 1>>, <<0, 1, 2>>, <<0, 2, 0>>,
       <<0, 2, 1>>, <<0, 3, 0>>, <<0, 4, 0>>, <<0, 5, 0>>, <<0, 6, 0>>, <<0, 7, 0>>,
       <<1, 0, 0>>, <<1, 0, 1>>, <<1, 1, 0>>, <<2, 0, 0>>, <<3, 0, 0>>, <<4, 0, 0>>,
       <<5, 0, 0>>,
       <<0, 0, 0, 0>>, <<0, 0, 0, 1>>, <<0, 0, 0, 2>>, <<0, 0, 0, 3>>, <<0, 0, 0, 4>>,
       <<0, 0, 1, 0>>, <<0, 0, 1, 1>>, <<0, 0, 2, 0>>, <<0, 0, 3, 0>>, <<0, 0, 4, 0>>,
       <<0, 1, 0, 0>>, <<0, 2, 0, 0>>, <<1, 0, 0, 0>>, <<2, 0, 0, 0>>, <<3, 0, 0, 0>>,
       <<0, 0, 0, 0, 0>>, <<0, 0, 0, 0, 1>>, <<0, 0, 0, 0, 2>>, <<0, 0, 0, 1, 0>>,
       <<0, 0, 0, 2, 0>>, <<0, 0, 1, 0, 0>>, <<0, 1, 0, 0, 0>>, <<1, 0, 0, 0, 0>>,
       <<0, 0, 0, 0, 0, 0>>, <<0, 0, 0, 0, 0, 1>>, <<0, 0, 0, 1, 0, 0>> >>

LeadingTo(path) == SubSeq(path, 1, Len(path) - 1)

SlotOf(path) == path[Len(path)]

\* Slots count from 0.  A node comes after its parent, and after the nodes of
\* earlier slots of the same parent.
Wired(template, width) ==
    /\ template \in Seq(Seq(0..width - 1) \ {<<>>})
    /\ \A i \in DOMAIN template :
          Len(template[i]) > 1 => \E j \in 1..i - 1 : template[j] = LeadingTo(template[i])
    /\ \A j \in DOMAIN template : \A i \in 1..j - 1 :
          LeadingTo(template[i]) = LeadingTo(template[j]) =>
              SlotOf(template[i]) < SlotOf(template[j])

\* What lies below a slot lies below every earlier slot of the same node as
\* well.  Rows may hold a token twice: verification then takes the first, and
\* loses nothing behind the second.
EarlierIsRicher(template) ==
    LET paths == {template[i] : i \in DOMAIN template}
    IN  \A path \in paths : \A d \in DOMAIN path : \A slot \in 0..path[d] :
            [path EXCEPT ![d] = slot] \in paths

ASSUME RecyclingConstants ==
    /\ RowWidth \in Nat \ {0}
    /\ Wired(Template, RowWidth) /\ EarlierIsRicher(Template)

ASSUME TreeTemplateFits == Wired(TreeTemplate, 8) /\ EarlierIsRicher(TreeTemplate)

VARIABLE rows   \* _m_by_tenant: [Tenants -> token -> row]

RowsInit == rows = [t \in Tenants |-> <<>>]

-----------------------------------------------------------------------------
\* _tr_tree_wiring: the parent of every node and its slot in the parent's row.
Wiring ==
    [i \in DOMAIN Template |->
       [slot   |-> SlotOf(Template[i]) + 1,
        parent |-> IF Len(Template[i]) = 1 THEN 0
                   ELSE CHOOSE j \in 1..i - 1 : Template[j] = LeadingTo(Template[i])]]

NextTok(m, tok, slot) == IF tok \in DOMAIN m THEN m[tok][slot] ELSE 0

\* The whole template whatever the budget, below the last token of the context.
RecycledTree(m, root) ==
    LET filled[i \in 0..Len(Template)] ==
          IF i = 0 THEN root
          ELSE LET above == filled[Wiring[i].parent] IN NextTok(m, above, Wiring[i].slot)
    IN  [i \in DOMAIN Template |-> [tok |-> filled[i], parent |-> Wiring[i].parent]]

\* A row cut or padded with token 0 to its width.
Padded(ids) == [s \in 1..RowWidth |-> IF s <= Len(ids) THEN ids[s] ELSE 0]

\* The row of a token is replaced; no row changes nothing.
Replaced(m, tok, ids) ==
    IF ids = <<>> THEN m
    ELSE [t \in DOMAIN m \cup {tok} |-> IF t = tok THEN Padded(ids) ELSE m[t]]

\* Mutant: a step starts without the token before it.
RecycleUntailed(m, ev, realized) ==
    LET after[pos \in 1..Len(realized)] ==
          IF pos = 1 THEN m ELSE Replaced(after[pos - 1], realized[pos - 1], ev.ids[pos])
    IN  after[Len(realized)]

\* harvest(): the row at a position replaces the row of the token before it.
\* The first token of a request has none before it.
Recycle(m, ev, realized) ==
    LET n     == Len(ev.tail)
        path  == ev.tail \o realized
        after[pos \in 0..Len(realized)] ==
          IF pos = 0 THEN m
          ELSE IF n + pos = 1 THEN after[pos - 1]
          ELSE Replaced(after[pos - 1], path[n + pos - 1], ev.ids[pos])
    IN  after[Len(realized)]
=============================================================================
