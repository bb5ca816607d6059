------------------------------ MODULE DraftTrees ------------------------------
(***************************************************************************)
(* Draft trees (core/types.py, DraftTree) and their verification against   *)
(* the true continuation of a stream (sim/replay.py, oracle_accept).       *)
(*                                                                         *)
(* A tree is a sequence of nodes [tok, parent] in the order they were      *)
(* added; node i is the i-th, and parent 0 is the root, the last token of  *)
(* the context.                                                            *)
(***************************************************************************)
EXTENDS Integers, Sequences, FiniteSets

NoTok == -1

\* add(tok, parent); the new node is Len(tree) + 1.
AddNode(tree, tok, parent) == Append(tree, [tok |-> tok, parent |-> parent])

Children(tree, n) == {i \in 1..Len(tree) : tree[i].parent = n}

First(S) == CHOOSE i \in S : \A j \in S : i <= j

\* A path is no longer than the tree, or than the truth.
PathLengths(tree, truth) == {d \in 0..Len(tree) : d <= Len(truth)}

\* The children that continue truth after d accepted tokens.
Matching(tree, n, truth, d) ==
    IF d < Len(truth) THEN {i \in Children(tree, n) : tree[i].tok = truth[d + 1]} ELSE {}

\* The node reached after d accepted tokens, -1 when fewer are accepted: at
\* every node the first matching child is taken and no other is tried.
Walk(tree, truth) ==
    LET node[d \in PathLengths(tree, truth)] ==
          IF d = 0 THEN 0
          ELSE LET last == node[d - 1]
                   hits == IF last = -1 THEN {} ELSE Matching(tree, last, truth, d - 1)
               IN  IF hits = {} THEN -1 ELSE First(hits)
    IN  node

AcceptedLen(tree, truth) ==
    LET walk == Walk(tree, truth)
    IN  Cardinality({d \in PathLengths(tree, truth) \ {0} : walk[d] # -1})

\* The draft token the verifier turned down: the first child of the last
\* accepted node, none when the tree ends there.
RejectedTok(tree, truth) ==
    LET kids == Children(tree, Walk(tree, truth)[AcceptedLen(tree, truth)])
    IN  IF kids = {} THEN NoTok ELSE tree[First(kids)].tok

-----------------------------------------------------------------------------
(* What the walk is for: the longest path of the tree along the truth.     *)

\* The nodes at depth d of which the whole path agrees with truth.
Agreeing(tree, truth) ==
    LET at[d \in PathLengths(tree, truth)] ==
          IF d = 0 THEN {0}
          ELSE UNION {Matching(tree, n, truth, d - 1) : n \in at[d - 1]}
    IN  at

LongestMatch(tree, truth) ==
    LET at == Agreeing(tree, truth)
    IN  Cardinality({d \in PathLengths(tree, truth) \ {0} : at[d] # {}})
=============================================================================
