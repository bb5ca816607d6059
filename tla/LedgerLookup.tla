----------------------------- MODULE LedgerLookup -----------------------------
(***************************************************************************)
(* What a lookup (core/store.py, LedgerStore.lookup) reads of the hot      *)
(* table at any moment of LedgerStore: it collects the entries of a        *)
(* position under every order and tier, skips those that are out of date,  *)
(* and blends the rest.  Online a lookup runs beside the drain, also while *)
(* an outcome is half applied.                                             *)
(***************************************************************************)
EXTENDS LedgerStore, Blend

CONSTANTS Queries,    \* the positions looked up: [ctx, scopes, seg]
          RejMargin   \* rej_margin of the proposer

ASSUME LookupConstants ==
    /\ Orders \subseteq DOMAIN OrderWeight /\ Depths \subseteq DOMAIN ScopeWeight
    /\ RejMargin \in Nat

\* The key a lookup probes for an order and a tier.
ProbedKey(q, probe) ==
    [ctx |-> LastN(q.ctx, probe[1]), scope |-> q.scopes[probe[2]], seg |-> q.seg]

Probed(q) == {o \in Orders : o <= Len(q.ctx)} \X Depths

\* Mutant: an entry is read without a look at its epoch.
HitsUnchecked(q) == {probe \in Probed(q) : ProbedKey(q, probe) \in DOMAIN hot}

\* Stale entries are skipped.
Hits(q) == {probe \in Probed(q) : ProbedKey(q, probe) \in Served}

Sources(q) ==
    {Source(probe[1], probe[2], View(hot[ProbedKey(q, probe)])) : probe \in Hits(q)}

Lookup(q) == Posterior(Sources(q))

\* The proposer takes the first candidate for one that is mostly rejected.
TopRejected(post) ==
    LET top == Top(post)
    IN  top.sup > 0 /\ top.acc < One \div 2 - RejMargin

-----------------------------------------------------------------------------
\* A lookup offers no token that only entries of an edited file know: every
\* candidate is known to an entry whose file was not edited since that entry
\* was last observed in it.
OffersAreCurrent ==
    \A q \in Queries :
        LET post == Lookup(q)
        IN  \A c \in post.cands : \E probe \in Probed(q) :
              LET k == ProbedKey(q, probe)
              IN  /\ k \in DOMAIN hot /\ c.tok \in DOMAIN hot[k].cands
                  /\ seen[k].edits \in {0, EpochMod}

\* A token is never taken for a rejected one because of what short, ambiguous
\* contexts saw: some entry of a long context saw it rejected more often than
\* accepted.
RejectionsAreSpecific ==
    \A q \in Queries :
        LET post == Lookup(q)
        IN  \A c \in post.cands :
              c.acc < One \div 2 - RejMargin =>
                \E s \in Sources(q) :
                    /\ s.order >= HiOrder
                    /\ c.tok \in DOMAIN s.cands
                    /\ s.cands[c.tok].rej > s.cands[c.tok].acc

\* A shorter context is looked up in an entry that knows of every token at
\* least what the entry of a longer one knows: the same positions feed both.
\* An edit in the middle of an outcome may empty one of them only.
Nested(S) ==
    \A long, short \in S : short.order < long.order =>
        \A t \in DOMAIN long.cands :
            /\ t \in DOMAIN short.cands
            /\ short.cands[t].acc >= long.cands[t].acc
            /\ short.cands[t].rej >= long.cands[t].rej

\* Where every rejection of a token taught one and the same correction, the
\* first candidate of a lookup is never one that is mostly rejected: by then
\* its correction is realized more often and has taken its place.
CorrectionTakesOver ==
    \A q \in Queries :
        LET post == Lookup(q)
        IN  post # NoPosterior /\ Nested(Sources(q)) => ~TopRejected(post)
=============================================================================
