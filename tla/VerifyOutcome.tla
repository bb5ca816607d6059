---------------------------- MODULE VerifyOutcome ----------------------------
(***************************************************************************)
(* The harvested result of one verify step (core/types.py, VerifyOutcome)  *)
(* and what LedgerStore._apply derives from it: the realized path, the     *)
(* segment and the epoch domain of each position, and the hot-table keys   *)
(* ("probes") a position touches.                                          *)
(*                                                                         *)
(* A rolling signature of order o stands for the last o tokens of the      *)
(* stream, and fold_key for the triple (suffix, scope id, segment): both   *)
(* hashes are taken to be injective, so a key IS that triple.  Positions   *)
(* are numbered from 0, as in the source.                                  *)
(***************************************************************************)
EXTENDS LedgerTypes

CONSTANTS ScopeIds,   \* ids of the session, repo and tenant-global tiers
          Orders,     \* StoreParams.orders; others than 2..8 have no signature
          Depths      \* StoreParams.scope_depths

ASSUME OutcomeConstants ==
    /\ Orders \subseteq 2..8
    /\ Depths \subseteq 0..2

\* The shape of an outcome: scopes[d] is the id of the tier of depth d.
IsOutcome(ev) ==
    /\ ev.scopes \in [0..2 -> ScopeIds]
    /\ ev.tail \in Seq(Tokens)
    /\ ev.draft \in Seq(Tokens)
    /\ ev.acc \in 0..Len(ev.draft)
    /\ ev.bonus \in Tokens
    /\ ev.topk \in Seq(TopkRows)
    /\ ev.seg \in Seq(Segments)
    /\ ev.file \in Domains

Keys == [ctx : Seq(Tokens), scope : ScopeIds, seg : Segments]

-----------------------------------------------------------------------------
\* realized(): the accepted prefix of the draft, then the bonus token.
TokenAt(ev, pos) == IF pos < ev.acc THEN ev.draft[pos + 1] ELSE ev.bonus

\* A missing segment list reads as TEXT, a short one repeats its last element.
SegAt(ev, pos) ==
    CASE ev.seg = <<>>       -> "text"
      [] pos < Len(ev.seg)   -> ev.seg[pos + 1]
      [] OTHER               -> ev.seg[Len(ev.seg)]

\* Only code depends on the content of a file.
DomAt(ev, pos) == IF SegAt(ev, pos) = "code" THEN ev.file ELSE NoFile

IsRejectAt(ev, pos) == pos = ev.acc /\ pos < Len(ev.draft)

TopkAt(ev, pos) == IF pos < Len(ev.topk) THEN ev.topk[pos + 1] ELSE <<>>

-----------------------------------------------------------------------------
\* The stream before a position: the context tail and the tokens committed.
PathTo(ev, pos) == ev.tail \o SubSeq(ev.draft, 1, pos)

LastN(s, n) == SubSeq(s, Len(s) - n + 1, Len(s))

\* The (order, depth) pairs the loops of _apply visit at a position.  A
\* stream shorter than an order has no signature of that order.
ProbesAt(ev, pos) == {o \in Orders : o <= Len(PathTo(ev, pos))} \X Depths

\* Loop order: orders ascending, then depths ascending.
ProbeBefore(p, q) == p[1] < q[1] \/ (p[1] = q[1] /\ p[2] < q[2])

KeyAt(ev, pos, probe) ==
    [ctx   |-> LastN(PathTo(ev, pos), probe[1]),
     scope |-> ev.scopes[probe[2]],
     seg   |-> SegAt(ev, pos)]
=============================================================================
