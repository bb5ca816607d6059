---------------------------- MODULE LedgerProposer ----------------------------
(***************************************************************************)
(* How the ledger proposer grows a draft tree (sim/proposers.py,           *)
(* LedgerProposer.propose): first along a span, then from one lookup to    *)
(* the next, until the budget or the expected acceptance is used up.       *)
(*                                                                         *)
(* The answers of the store are nondeterministic: every lookup returns     *)
(* nothing (or too little) or one of Posteriors, each lookup_span nothing  *)
(* or one of Proposals.  Probabilities are kept as costs, their negated    *)
(* logarithms, so that products are sums: the product of the acceptance    *)
(* probabilities (cum) falls below cum_min when the sum exceeds CostMax.   *)
(***************************************************************************)
EXTENDS DraftTrees

CONSTANTS Posteriors,    \* [top, patch : [tok, cost, sup]]
          Proposals,     \* [body, breaks : offset -> count, count]
          Budget,        \* nodes a tree may have
          SpanMinCount, BreakSplitMin,
          CostMax,       \* cum_min
          CostCap,       \* the floor 0.05 of a factor of cum
          RejCost,       \* 0.5 - rej_margin
          NoSpan

ASSUME ProposerConstants ==
    /\ Budget \in Nat
    /\ SpanMinCount \in Nat /\ BreakSplitMin \in Nat
    /\ CostMax \in Nat /\ CostCap \in Nat /\ RejCost \in Nat

VARIABLES tree, parent,
          span, off,    \* the span proposal followed, the offset reached
          cum,          \* accumulated cost
          stage         \* "span", "chain", or "done"

draftVars == <<tree, parent, span, off, cum, stage>>

\* propose() begins: a span is followed if it was observed often enough.
StartDraft(proposal) ==
    /\ tree' = <<>> /\ parent' = 0 /\ off' = 0 /\ cum' = 0
    /\ span' = proposal
    /\ stage' = IF proposal # NoSpan /\ proposal.count >= SpanMinCount
                THEN "span" ELSE "chain"

Room == Budget - Len(tree)

Last == Len(tree) + 1

-----------------------------------------------------------------------------
(* Along the span.                                                         *)

Heavy(o) == o \in DOMAIN span.breaks /\ span.breaks[o] >= BreakSplitMin

SpanGoesOn == stage = "span" /\ off < Len(span.body) /\ Room > 0

FollowSpan ==
    /\ SpanGoesOn /\ ~Heavy(off)
    /\ tree' = AddNode(tree, span.body[off + 1], parent)
    /\ parent' = Last /\ off' = off + 1
    /\ UNCHANGED <<span, cum, stage>>

\* At a break the budget is split: the span token, its correction beside it,
\* and nothing behind them.  The correction is looked up if there is room.
SplitAtBreak ==
    /\ SpanGoesOn /\ Heavy(off)
    /\ LET tok  == span.body[off + 1]
           leaf == AddNode(tree, tok, parent)
       IN  \/ tree' = leaf
           \/ /\ Room > 1
              /\ \E post \in Posteriors :
                    /\ post.patch.tok # tok
                    /\ tree' = AddNode(leaf, post.patch.tok, parent)
    /\ stage' = "done"
    /\ UNCHANGED <<parent, span, off, cum>>

EndSpan ==
    /\ stage = "span" /\ ~SpanGoesOn
    /\ stage' = "chain"
    /\ UNCHANGED <<tree, parent, span, off, cum>>

-----------------------------------------------------------------------------
(* From lookup to lookup.                                                  *)

ChainGoesOn == stage = "chain" /\ Room > 0 /\ cum <= CostMax

Factor(c) == IF c.cost <= CostCap THEN c.cost ELSE CostCap

RejDominant(c) == c.sup > 0 /\ c.cost > RejCost

EndChain ==
    /\ stage = "chain" /\ ~ChainGoesOn
    /\ stage' = "done"
    /\ UNCHANGED <<tree, parent, span, off, cum>>

\* No posterior, or one of too little weight.
Miss ==
    /\ ChainGoesOn
    /\ stage' = "done"
    /\ UNCHANGED <<tree, parent, span, off, cum>>

Extend(post) ==
    /\ ChainGoesOn /\ ~RejDominant(post.top)
    /\ tree' = AddNode(tree, post.top.tok, parent)
    /\ parent' = Last
    /\ cum' = cum + Factor(post.top)
    /\ UNCHANGED <<span, off, stage>>

\* Mutant: the correction may be the rejected token itself.
SpliceAnything(post) ==
    /\ ChainGoesOn /\ RejDominant(post.top)
    /\ LET leaf == IF Room > 1 THEN AddNode(tree, post.top.tok, parent) ELSE tree
       IN  /\ tree' = AddNode(leaf, post.patch.tok, parent)
           /\ parent' = Len(leaf) + 1
    /\ cum' = cum + Factor(post.patch)
    /\ UNCHANGED <<span, off, stage>>

\* Mutant: the leaf of the rejected token is added without a look at the room.
SpliceBeyondBudget(post) ==
    /\ ChainGoesOn /\ RejDominant(post.top)
    /\ post.patch.tok # post.top.tok
    /\ tree' = AddNode(AddNode(tree, post.top.tok, parent), post.patch.tok, parent)
    /\ parent' = Last + 1
    /\ cum' = cum + Factor(post.patch)
    /\ UNCHANGED <<span, off, stage>>

\* A token that is mostly rejected stays a leaf, if there is room for it, and
\* the chain goes on behind its correction.
Splice(post) ==
    /\ ChainGoesOn /\ RejDominant(post.top)
    /\ post.patch.tok # post.top.tok
    /\ LET leaf == IF Room > 1 THEN AddNode(tree, post.top.tok, parent) ELSE tree
       IN  /\ tree' = AddNode(leaf, post.patch.tok, parent)
           /\ parent' = Len(leaf) + 1
    /\ cum' = cum + Factor(post.patch)
    /\ UNCHANGED <<span, off, stage>>

\* It is its own correction: it stays a leaf, and nothing follows.
LeaveLeaf(post) ==
    /\ ChainGoesOn /\ RejDominant(post.top)
    /\ post.patch.tok = post.top.tok
    /\ tree' = AddNode(tree, post.top.tok, parent)
    /\ stage' = "done"
    /\ UNCHANGED <<parent, span, off, cum>>

DraftStep ==
    \/ FollowSpan \/ SplitAtBreak \/ EndSpan
    \/ EndChain \/ Miss
    \/ \E post \in Posteriors : Extend(post) \/ Splice(post) \/ LeaveLeaf(post)

=============================================================================
