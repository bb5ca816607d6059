----------------------------- MODULE HotEntryOps -----------------------------
(***************************************************************************)
(* The candidate table of one hot entry (core/store.py, class HotEntry) as *)
(* operators from entries to entries.  An entry is a record                *)
(*                                                                         *)
(*    dom, epoch   epoch domain (file id, 0 = none) and the epoch at which *)
(*                 the entry was last bound to it                          *)
(*    cap          k_cap, the adaptive bound on the number of candidates   *)
(*    cov          cov_ema in units of 1/CovOne, rounded down              *)
(*    cands        token -> [acc, rej, q], q = Unseen while no top-k row   *)
(*                 has shown the token                                     *)
(*                                                                         *)
(* The key, segment and scope id of an entry are its place in the table.   *)
(***************************************************************************)
EXTENDS LedgerTypes

CONSTANTS KInit, KMax,         \* StoreParams.k_init, k_max
          CovOne, CovTarget,   \* 1.0 and coverage_target in the same unit
          QStep,               \* what an unobserved log-probability loses (16)
          CountMax,            \* U16_MAX
          DecayDiv             \* 2^decay_shift

ASSUME EntryConstants ==
    /\ KInit \in Nat \ {0} /\ KMax \in Nat /\ KInit <= KMax
    /\ CovOne \in Nat \ {0} /\ CovTarget \in Nat
    /\ QStep \in Nat
    /\ CountMax \in Nat \ {0}
    /\ DecayDiv \in Nat \ {0}

Cand == [acc : 0..CountMax, rej : 0..CountMax, q : Unseen..QMax]
NoCands == [t \in {} |-> 0]
FreshCand == [acc |-> 0, rej |-> 0, q |-> Unseen]

CandTables == UNION {[S -> Cand] : S \in SUBSET Tokens}
Entries == [dom : Domains, epoch : Nat, cap : KInit..KMax, cov : Nat,
            cands : CandTables]

\* The bound every update keeps.
FitsCap(e) == Cardinality(DOMAIN e.cands) <= e.cap

Support(c) == c.acc + c.rej

-----------------------------------------------------------------------------
NewEntry(dom, epoch) ==
    [dom |-> dom, epoch |-> epoch, cap |-> KInit, cov |-> CovOne, cands |-> NoCands]

\* A stale entry that is written again forgets its candidates, not its cap.
Reset(e, dom, epoch) ==
    [e EXCEPT !.dom = dom, !.epoch = epoch, !.cov = CovOne, !.cands = NoCands]

-----------------------------------------------------------------------------
\* Weakness: fewer observations, then lower probability, then larger token.
QRank(c) == IF c.q = Unseen THEN QMax + 1 ELSE c.q

\* Mutant: the most observed candidate goes first.
StrongestGoes(cands, t, u) ==
    \/ Support(cands[t]) > Support(cands[u])
    \/ Support(cands[t]) = Support(cands[u]) /\ t > u

Weaker(cands, t, u) ==
    \/ Support(cands[t]) < Support(cands[u])
    \/ /\ Support(cands[t]) = Support(cands[u])
       /\ \/ QRank(cands[t]) > QRank(cands[u])
          \/ QRank(cands[t]) = QRank(cands[u]) /\ t > u

IsWeakest(cands, t, pool) == t \in pool /\ \A u \in pool \ {t} : Weaker(cands, t, u)

\* Candidates left after _evict_weakest(protect): all, if no other exists.
EvictWeakest(cands, protect) ==
    LET pool == DOMAIN cands \ {protect}
        kept == DOMAIN cands \ {CHOOSE t \in pool : IsWeakest(cands, t, pool)}
    IN  IF pool = {} THEN cands ELSE [t \in kept |-> cands[t]]

WithCand(cands, tok, c) ==
    [t \in DOMAIN cands \cup {tok} |-> IF t = tok THEN c ELSE cands[t]]

WantsGrowth(e) == e.cov < CovTarget /\ e.cap < KMax

\* _ensure: make room for tok, by a larger cap or by eviction.
Ensure(e, tok) ==
    LET full == Cardinality(DOMAIN e.cands) >= e.cap
    IN  CASE tok \in DOMAIN e.cands     -> e
          [] tok \notin DOMAIN e.cands /\ full /\ WantsGrowth(e) ->
                [e EXCEPT !.cap = Lesser(KMax, 2 * e.cap),
                          !.cands = WithCand(e.cands, tok, FreshCand)]
          [] tok \notin DOMAIN e.cands /\ full /\ ~WantsGrowth(e) ->
                [e EXCEPT !.cands =
                    WithCand(EvictWeakest(e.cands, tok), tok, FreshCand)]
          [] OTHER -> [e EXCEPT !.cands = WithCand(e.cands, tok, FreshCand)]

Saturate(n) == Lesser(n + 1, CountMax)

UpdateRealized(e, tok) ==
    LET f == Ensure(e, tok)
    IN  [f EXCEPT !.cands[tok].acc = Saturate(@)]

UpdateRejected(e, tok) ==
    LET f == Ensure(e, tok)
    IN  [f EXCEPT !.cands[tok].rej = Saturate(@)]

-----------------------------------------------------------------------------
(***************************************************************************)
(* merge_topk.  The loop over the row reads a coverage that the row fixed  *)
(* before the loop, so which newcomers get in depends on their order only: *)
(* the first "room" of them do.  The cap doubles when a newcomer finds the *)
(* table full and coverage is short of its target.  An id without a        *)
(* log-probability counts for the coverage and keeps its candidate from    *)
(* fading, and does no more.                                               *)
(***************************************************************************)
RowIds(row) == {row[i].tok : i \in 1..Len(row)}
QIn(row, t) == row[CHOOSE i \in 1..Len(row) : row[i].tok = t].q

\* Mutant: a candidate the row does not show keeps its probability.
NoFade(c) == c

\* A candidate the row does not show loses one nat of probability.
Fade(c) == IF c.q = Unseen THEN c ELSE [c EXCEPT !.q = Lesser(@ + QStep, QMax)]

\* The log-probability of a row, if it gives one, enters the candidate's.
Blend(c, q) ==
    IF q = Unseen THEN c
    ELSE [c EXCEPT !.q = IF @ = Unseen THEN q ELSE (3 * @ + q) \div 4]

CoverageAfter(e, row) ==
    LET covered == Cardinality(RowIds(row) \cap DOMAIN e.cands)
    IN  (3 * e.cov + (CovOne * covered) \div Len(row)) \div 4

\* The loop that admits candidates goes as far as the log-probabilities do.
Newcomers(e, row) ==
    {i \in 1..Len(row) : row[i].tok \notin DOMAIN e.cands /\ row[i].q # Unseen}

\* Mutant: one place always stays free.
AdmittedShort(e, row, room) ==
    {i \in Newcomers(e, row) :
        Cardinality({j \in Newcomers(e, row) : j <= i}) < room}

Admitted(e, row, room) ==
    {i \in Newcomers(e, row) :
        Cardinality({j \in Newcomers(e, row) : j <= i}) <= room}

\* Mutant: a row doubles the cap once, however many newcomers it has.
GrownOnce(k, n) == IF n <= k THEN k ELSE Lesser(KMax, 2 * k)

\* The cap doubles up to KMax until n candidates fit.
GrownCap(k, n) ==
    LET grown[c \in k..KMax] ==
            IF n <= c \/ c = KMax THEN c ELSE grown[Lesser(KMax, 2 * c)]
    IN  grown[k]

MergeTopk(e, row) ==
    LET cov   == CoverageAfter(e, row)
        limit == IF cov < CovTarget THEN KMax ELSE e.cap
        known == DOMAIN e.cands
        new   == {row[i].tok : i \in Admitted(e, row, limit - Cardinality(known))}
        cands == [t \in known \cup new |->
                    CASE t \in new -> [FreshCand EXCEPT !.q = QIn(row, t)]
                      [] t \in known \cap RowIds(row) -> Blend(e.cands[t], QIn(row, t))
                      [] OTHER -> Fade(e.cands[t])]
    IN  IF row = <<>> THEN e
        ELSE [e EXCEPT !.cov = cov,
                       !.cands = cands,
                       !.cap = GrownCap(@, Cardinality(known \cup new))]

-----------------------------------------------------------------------------
\* One entry's part of compact(): counts decay, candidates without any go.
Halve(c) == [c EXCEPT !.acc = @ \div DecayDiv, !.rej = @ \div DecayDiv]

Decay(e) ==
    LET kept == {t \in DOMAIN e.cands : Support(Halve(e.cands[t])) > 0}
    IN  [e EXCEPT !.cands = [t \in kept |-> Halve(e.cands[t])],
                  !.cap = Greater(KInit, Lesser(@, KMax))]

\* sources_view(): what a lookup reads of an entry.  An unobserved
\* log-probability reads as the lowest.
View(e) == [t \in DOMAIN e.cands |->
              [e.cands[t] EXCEPT !.q = IF @ = Unseen THEN QMax ELSE @]]
=============================================================================
