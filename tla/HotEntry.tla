------------------------------- MODULE HotEntry -------------------------------
(***************************************************************************)
(* One hot entry over its life: the updates of an event, the merge of a    *)
(* top-k row, the reset of a stale entry, compaction, and the cached view  *)
(* lookups read between them (core/store.py, class HotEntry).              *)
(*                                                                         *)
(* A reader works beside the thread that updates: sources_view() computes  *)
(* the view in one step and caches it in another.                          *)
(*                                                                         *)
(* The history variable missed says of every candidate how many merged     *)
(* rows in a row have left it out, counted up to MissedMax.                *)
(***************************************************************************)
EXTENDS HotEntryOps

CONSTANTS Rows,        \* the top-k rows merged
          MissedMax,   \* bound of the history variable
          NoView,      \* the cached view when _src is None
          Outdated     \* a view computed before the last update

\* The ids of a row are the k most probable tokens, all different.
EachOnce(row) == \A i, j \in 1..Len(row) : row[i].tok = row[j].tok => i = j

ASSUME HotEntryConstants ==
    /\ Rows \subseteq TopkRows
    /\ \A row \in Rows : EachOnce(row)
    /\ MissedMax \in Nat

VARIABLES entry, src,
          reading,     \* a reader's local view, computed and not yet cached
          missed
vars == <<entry, src, reading, missed>>

Init ==
    /\ entry = NewEntry(NoFile, 0)
    /\ src = NoView /\ reading = NoView
    /\ missed = [t \in Tokens |-> 0]

\* A token that is not a candidate any more has no history.
StillMissed(e, count) ==
    [t \in Tokens |-> IF t \in DOMAIN e.cands THEN count[t] ELSE 0]

\* What every update does besides: the cache is dropped.  A view another
\* thread is about to cache is then outdated; what it shows does not matter.
Invalidate ==
    /\ src' = NoView
    /\ reading' = IF reading = NoView THEN NoView ELSE Outdated

Realize(tok) ==
    /\ entry' = UpdateRealized(entry, tok)
    /\ Invalidate
    /\ missed' = StillMissed(entry', missed)

Reject(tok) ==
    /\ entry' = UpdateRejected(entry, tok)
    /\ Invalidate
    /\ missed' = StillMissed(entry', missed)

MissedAfter(row) ==
    [t \in Tokens |->
        IF t \in RowIds(row) \/ t \notin DOMAIN entry.cands THEN 0
        ELSE Lesser(missed[t] + 1, MissedMax)]

\* Mutant: a merge that finds no newcomer keeps the cached view.
MergeUnderCache(row) ==
    /\ entry' = MergeTopk(entry, row)
    /\ IF row = <<>> \/ Newcomers(entry, row) = {}
       THEN UNCHANGED <<src, reading>> ELSE Invalidate
    /\ missed' = IF row = <<>> THEN missed ELSE StillMissed(entry', MissedAfter(row))

\* An empty row returns early, before the cache is dropped.
Merge(row) ==
    /\ entry' = MergeTopk(entry, row)
    /\ IF row = <<>> THEN UNCHANGED <<src, reading>> ELSE Invalidate
    /\ missed' = IF row = <<>> THEN missed ELSE StillMissed(entry', MissedAfter(row))

ResetStale ==
    /\ entry' = Reset(entry, NoFile, 0)
    /\ Invalidate
    /\ missed' = [t \in Tokens |-> 0]

\* compact() drops an entry that decayed to nothing; its key may be created
\* again later, as an object a reader of the old one does not know.
Compact ==
    LET e == Decay(entry)
    IN  /\ IF e.cands = NoCands
           THEN /\ entry' = NewEntry(NoFile, 0)
                /\ src' = NoView /\ reading' = NoView
           ELSE entry' = e /\ Invalidate
        /\ missed' = StillMissed(entry', missed)

\* sources_view(): a reader that finds no cached view computes one, and then
\* stores it.  A reader that finds one changes nothing.
ComputeView ==
    /\ src = NoView /\ reading = NoView
    /\ reading' = View(entry)
    /\ UNCHANGED <<entry, src, missed>>

CacheView ==
    /\ reading # NoView
    /\ src' = reading /\ reading' = NoView
    /\ UNCHANGED <<entry, missed>>

Next ==
    \/ \E tok \in Tokens : Realize(tok) \/ Reject(tok)
    \/ \E row \in Rows : Merge(row)
    \/ ResetStale
    \/ Compact
    \/ ComputeView \/ CacheView

Spec == Init /\ [][Next]_vars
-----------------------------------------------------------------------------
\* merge_topk as it is written, one pass of its loop for each token of a row
\* that has a log-probability.
MergePass(e, x) ==
    LET full == Cardinality(DOMAIN e.cands) >= e.cap
    IN  CASE x.q = Unseen -> e
          [] x.q # Unseen /\ x.tok \in DOMAIN e.cands -> [e EXCEPT !.cands[x.tok] = Blend(@, x.q)]
          [] x.q # Unseen /\ x.tok \notin DOMAIN e.cands /\ full /\ ~WantsGrowth(e) -> e
          [] OTHER ->
                [e EXCEPT !.cap   = IF full THEN Lesser(KMax, 2 * @) ELSE @,
                          !.cands = WithCand(@, x.tok, [FreshCand EXCEPT !.q = x.q])]

MergeLoop(e, row) ==
    LET passed[i \in 0..Len(row)] ==
            IF i = 0 THEN e ELSE MergePass(passed[i - 1], row[i])
    IN  passed[Len(row)]

\* What the loop starts from: the coverage is that after the row, and the
\* candidates the row does not show have faded.
BeforeLoop(e, row) ==
    [e EXCEPT !.cov   = CoverageAfter(e, row),
              !.cands = [t \in DOMAIN @ |->
                            IF t \in RowIds(row) THEN @[t] ELSE Fade(@[t])]]

MergeReference(e, row) ==
    IF row = <<>> THEN e ELSE MergeLoop(BeforeLoop(e, row), row)

-----------------------------------------------------------------------------
\* The entry is one of the table's entries, its coverage a fraction; and it
\* never holds more candidates than its cap allows, whichever mix of evictions,
\* cap doublings, merges and compactions led here.
TypeOK ==
    /\ entry \in Entries /\ entry.cov <= CovOne
    /\ FitsCap(entry)
    /\ missed \in [Tokens -> 0..MissedMax]

\* A cached view is the view of the entry as it is now: every method that
\* changes the candidates dropped it.  The one exception is a view that a
\* reader in another thread computed before an update and cached after it.
CacheCoherent == src \notin {NoView, Outdated} => src = View(entry)

\* Negative evidence of truncated rows: a candidate the last n rows left out
\* has lost n nats, or has the lowest probability there is.
AbsenceFades ==
    \A t \in DOMAIN entry.cands :
        entry.cands[t].q # Unseen =>
            entry.cands[t].q >= Lesser(QStep * missed[t], QMax)

\* The closed form MergeTopk of the loop of merge_topk is the loop: it gives
\* the same candidates, coverage and cap for every row, on every entry reached.
MergeIsLoop == \A row \in Rows : MergeTopk(entry, row) = MergeReference(entry, row)

\* Observing one token, at any point of an entry's life, costs at most one
\* other candidate, and never one observed more often than one that stays.
EvictionIsFair ==
    \A tok \in Tokens :
        LET before == DOMAIN entry.cands
            after  == DOMAIN Ensure(entry, tok).cands
        IN  /\ Cardinality(before \ after) <= 1
            /\ \A gone \in before \ after, kept \in (before \cap after) \ {tok} :
                  Support(entry.cands[gone]) <= Support(entry.cands[kept])
=============================================================================
