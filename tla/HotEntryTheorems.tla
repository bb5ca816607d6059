-------------------------- MODULE HotEntryTheorems --------------------------
(***************************************************************************)
(* The properties of one hot entry, for every number of tokens, every cap, *)
(* every choice of rows and every order of updates, merges, resets,        *)
(* compactions and reads; and that merge_topk in closed form is its loop.  *)
(***************************************************************************)
EXTENDS HotEntry, HotEntryProofs

\* The inductive invariant: an entry that fits its cap, with its coverage a
\* fraction and its history in range.
Sound ==
    /\ entry \in Entries /\ entry.cov <= CovOne /\ FitsCap(entry)
    /\ missed \in [Tokens -> 0..MissedMax]

-----------------------------------------------------------------------------
\* Coverage is an average of fractions.
LEMMA QuotientBound ==
    ASSUME NEW c \in Nat, NEW a \in Nat, NEW n \in Nat \ {0}, a <= n
    PROVE  (c * a) \div n <= c /\ (c * a) \div n \in Nat
<1>1. c * a <= c * n /\ c * a \in Nat
  BY SMT
<1> DEFINE x == c * a
<1>2. x <= n * c /\ x \in Nat
  BY <1>1, SMT
<1> HIDE DEF x
<1>3. x \div n \in Int /\ x = n * (x \div n) + (x % n) /\ x % n \in 0..n - 1
  BY <1>2, SMT
<1> DEFINE d == x \div n
<1>4. d \in Int /\ n * d <= n * c /\ n * d >= x - n + 1
  BY <1>2, <1>3, SMT
<1> HIDE DEF d
<1>5. d <= c
  <2>1. SUFFICES ASSUME d >= c + 1 PROVE FALSE
    BY <1>4
  <2>2. n * d >= n * (c + 1)
    BY <1>4, <2>1, SMT
  <2> QED
    BY <2>2, <1>4, SMT
<1>6. x \div n \in Nat
  BY <1>2, SMT
<1> QED
  BY <1>5, <1>6 DEF d, x

LEMMA CoverageBound ==
    ASSUME NEW e \in Entries, e.cov <= CovOne, NEW row \in TopkRows, row # <<>>
    PROVE  CoverageAfter(e, row) <= CovOne
<1> DEFINE ids == RowIds(row)
           covered == Cardinality(ids \cap DOMAIN e.cands)
           n == Len(row)
<1>1. n \in Nat \ {0}
  BY DEF TopkRows
<1>2. covered \in Nat /\ covered <= n
  <2>1. /\ IsFiniteSet(1..n) /\ Cardinality(1..n) = n
    BY <1>1, FS_Interval
  <2>2. [i \in 1..n |-> row[i].tok] \in Surjection(1..n, ids)
    BY DEF Surjection, RowIds
  <2> HIDE DEF ids, n
  <2>3. IsFiniteSet(ids) /\ Cardinality(ids) <= n
    BY <2>1, <2>2, FS_Surjection
  <2>4. Cardinality(ids \cap DOMAIN e.cands) <= Cardinality(ids)
        /\ Cardinality(ids) \in Nat /\ covered \in Nat
    BY <2>3, FS_Subset, FS_CardinalityType
  <2> QED
    BY <2>3, <2>4, <1>1
<1> HIDE DEF covered, n, ids
<1>3. (CovOne * covered) \div n <= CovOne /\ (CovOne * covered) \div n \in Nat
  BY <1>1, <1>2, QuotientBound, EntryConstants
<1> DEFINE share == (CovOne * covered) \div n
<1>4. share \in Nat /\ share <= CovOne /\ e.cov \in Nat /\ CovOne \in Nat
  BY <1>3, EntryConstants DEF Entries
<1> HIDE DEF share
<1>5. (3 * e.cov + share) \div 4 <= CovOne
  BY <1>4, SMT
<1> QED
  BY <1>5 DEF CoverageAfter, share, covered, n, ids

-----------------------------------------------------------------------------
\* _ensure adds at most the new token, with nothing known of it, and changes
\* no candidate that stays.
LEMMA EnsureCands ==
    ASSUME NEW e \in Entries, NEW tok \in Tokens
    PROVE  /\ Ensure(e, tok).cov = e.cov
           /\ \A t \in DOMAIN Ensure(e, tok).cands :
                 \/ t \in DOMAIN e.cands /\ Ensure(e, tok).cands[t] = e.cands[t]
                 \/ t = tok /\ Ensure(e, tok).cands[t] = FreshCand
<1> DEFINE Adds(cands) == \A t \in DOMAIN cands :
                              \/ t \in DOMAIN e.cands /\ cands[t] = e.cands[t]
                              \/ t = tok /\ cands[t] = FreshCand
<1>1. Adds(e.cands)
  OBVIOUS
<1>2. Adds(WithCand(e.cands, tok, FreshCand))
  BY DEF WithCand
<1>3. Adds(WithCand(EvictWeakest(e.cands, tok), tok, FreshCand))
  <2> DEFINE left == EvictWeakest(e.cands, tok)
  <2>1. \A t \in DOMAIN left : t \in DOMAIN e.cands /\ left[t] = e.cands[t]
    BY DEF EvictWeakest
  <2> HIDE DEF left
  <2> QED
    BY <2>1 DEF WithCand, left
<1> DEFINE full == Cardinality(DOMAIN e.cands) >= e.cap
<1> HIDE DEF Adds
<1>4. CASE tok \in DOMAIN e.cands
  <2>1. Ensure(e, tok) = e
    BY <1>4 DEF Ensure
  <2> QED
    BY <2>1, <1>1 DEF Adds
<1>5. CASE tok \notin DOMAIN e.cands /\ full /\ WantsGrowth(e)
  <2>1. Ensure(e, tok) = [e EXCEPT !.cap = Lesser(KMax, 2 * e.cap),
                                   !.cands = WithCand(e.cands, tok, FreshCand)]
    BY <1>5 DEF Ensure
  <2>2. /\ Ensure(e, tok).cov = e.cov
        /\ Ensure(e, tok).cands = WithCand(e.cands, tok, FreshCand)
    BY <2>1 DEF Entries
  <2> QED
    BY <2>2, <1>2 DEF Adds
<1>6. CASE tok \notin DOMAIN e.cands /\ full /\ ~WantsGrowth(e)
  <2>1. Ensure(e, tok) = [e EXCEPT !.cands =
                            WithCand(EvictWeakest(e.cands, tok), tok, FreshCand)]
    BY <1>6 DEF Ensure
  <2>2. /\ Ensure(e, tok).cov = e.cov
        /\ Ensure(e, tok).cands = WithCand(EvictWeakest(e.cands, tok), tok, FreshCand)
    BY <2>1 DEF Entries
  <2> QED
    BY <2>2, <1>3 DEF Adds
<1>7. CASE tok \notin DOMAIN e.cands /\ ~full
  <2>1. Ensure(e, tok) = [e EXCEPT !.cands = WithCand(e.cands, tok, FreshCand)]
    BY <1>7 DEF Ensure
  <2>2. /\ Ensure(e, tok).cov = e.cov
        /\ Ensure(e, tok).cands = WithCand(e.cands, tok, FreshCand)
    BY <2>1 DEF Entries
  <2> QED
    BY <2>2, <1>2 DEF Adds
<1> QED
  BY <1>4, <1>5, <1>6, <1>7

\* A realized or rejected token changes counts only: no log-probability, and
\* not the coverage.
LEMMA UpdateCands ==
    ASSUME NEW e \in Entries, FitsCap(e), NEW tok \in Tokens,
           NEW f, f = UpdateRealized(e, tok) \/ f = UpdateRejected(e, tok)
    PROVE  /\ f.cov = e.cov
           /\ \A t \in DOMAIN f.cands :
                 \/ t \in DOMAIN e.cands /\ f.cands[t].q = e.cands[t].q
                 \/ f.cands[t].q = Unseen
<1> DEFINE g == Ensure(e, tok)
           c == g.cands[tok]
<1>1. /\ g \in Entries /\ g.cands \in CandTables /\ tok \in DOMAIN g.cands
      /\ g.cov = e.cov
      /\ \A t \in DOMAIN g.cands :
            \/ t \in DOMAIN e.cands /\ g.cands[t] = e.cands[t]
            \/ g.cands[t] = FreshCand
  BY EnsureFacts, EnsureCands DEF Keeps, Entries
<1> HIDE DEF g
<1>2. g.cands \in [DOMAIN g.cands -> Cand]
  BY <1>1, CandTableFacts
<1>3. \A t \in DOMAIN g.cands :
         \/ t \in DOMAIN e.cands /\ g.cands[t].q = e.cands[t].q
         \/ g.cands[t].q = Unseen
  BY <1>1 DEF FreshCand
<1>4. /\ f.cov = g.cov /\ DOMAIN f.cands = DOMAIN g.cands
      /\ \A t \in DOMAIN f.cands : f.cands[t].q = g.cands[t].q
  <2>1. \/ f = [g EXCEPT !.cands[tok].acc = Saturate(@)]
        \/ f = [g EXCEPT !.cands[tok].rej = Saturate(@)]
    BY DEF UpdateRealized, UpdateRejected, g
  <2>2. CASE f = [g EXCEPT !.cands[tok].acc = Saturate(@)]
    <3>1. /\ f.cov = g.cov
          /\ f.cands = [g.cands EXCEPT ![tok] = [c EXCEPT !.acc = Saturate(c.acc)]]
      BY <2>2, <1>1 DEF Entries
    <3> QED
      BY <3>1, <1>2, <1>1 DEF Cand
  <2>3. CASE f = [g EXCEPT !.cands[tok].rej = Saturate(@)]
    <3>1. /\ f.cov = g.cov
          /\ f.cands = [g.cands EXCEPT ![tok] = [c EXCEPT !.rej = Saturate(c.rej)]]
      BY <2>3, <1>1 DEF Entries
    <3> QED
      BY <3>1, <1>2, <1>1 DEF Cand
  <2> QED
    BY <2>1, <2>2, <2>3
<1> QED
  BY <1>1, <1>3, <1>4

\* A candidate that a merge leaves and its row does not show has faded.
LEMMA MergeCands ==
    ASSUME NEW e \in Entries, NEW row \in TopkRows, row # <<>>
    PROVE  /\ MergeTopk(e, row).cov = CoverageAfter(e, row)
           /\ \A t \in DOMAIN MergeTopk(e, row).cands :
                 \/ t \in RowIds(row)
                 \/ /\ t \in DOMAIN e.cands
                    /\ MergeTopk(e, row).cands[t] = Fade(e.cands[t])
<1> DEFINE cov   == CoverageAfter(e, row)
           limit == IF cov < CovTarget THEN KMax ELSE e.cap
           known == DOMAIN e.cands
           new   == {row[i].tok : i \in Admitted(e, row, limit - Cardinality(known))}
           Merged(t) == CASE t \in new -> [FreshCand EXCEPT !.q = QIn(row, t)]
                          [] t \in known \cap RowIds(row) -> Blend(e.cands[t], QIn(row, t))
                          [] OTHER -> Fade(e.cands[t])
           cands == [t \in known \cup new |-> Merged(t)]
           f == [e EXCEPT !.cov = cov, !.cands = cands,
                          !.cap = GrownCap(@, Cardinality(known \cup new))]
<1>1. MergeTopk(e, row) = f
  BY DEF MergeTopk
<1>2. f.cov = cov /\ f.cands = cands
  BY DEF Entries
<1>3. new \subseteq RowIds(row)
  BY DEF Admitted, Newcomers, RowIds
<1>4. \A t \in DOMAIN cands :
         \/ t \in RowIds(row)
         \/ t \in known /\ cands[t] = Fade(e.cands[t])
  <2>1. \A t \in known \cup new :
           t \notin RowIds(row) => t \in known /\ Merged(t) = Fade(e.cands[t])
    BY <1>3
  <2> HIDE DEF Merged, new, known
  <2> QED
    BY <2>1
<1> HIDE DEF f, cands, cov
<1>5. MergeTopk(e, row).cov = cov /\ MergeTopk(e, row).cands = cands
  BY <1>1, <1>2
<1> QED
  BY <1>4, <1>5 DEF cov

\* Compaction touches counts only.
LEMMA DecayCands ==
    ASSUME NEW e \in Entries
    PROVE  /\ Decay(e).cov = e.cov
           /\ \A t \in DOMAIN Decay(e).cands :
                 t \in DOMAIN e.cands /\ Decay(e).cands[t].q = e.cands[t].q
<1> DEFINE kept == {t \in DOMAIN e.cands : Support(Halve(e.cands[t])) > 0}
           cands == [t \in kept |-> Halve(e.cands[t])]
<1>1. Decay(e).cov = e.cov /\ Decay(e).cands = cands
  BY DEF Decay, Entries
<1>2. e.cands \in [DOMAIN e.cands -> Cand]
  BY CandTableFacts DEF Entries
<1>3. \A c \in Cand : Halve(c).q = c.q
  BY DEF Halve, Cand
<1>4. \A t \in kept : t \in DOMAIN e.cands /\ Halve(e.cands[t]).q = e.cands[t].q
  BY <1>2, <1>3
<1> HIDE DEF kept
<1>5. \A t \in DOMAIN cands : t \in DOMAIN e.cands /\ cands[t].q = e.cands[t].q
  BY <1>4
<1> QED
  BY <1>1, <1>5
-----------------------------------------------------------------------------
\* The history of the candidates that are left.
LEMMA StillMissedType ==
    ASSUME NEW e, NEW count \in [Tokens -> 0..MissedMax]
    PROVE  StillMissed(e, count) \in [Tokens -> 0..MissedMax]
  BY HotEntryConstants DEF StillMissed

LEMMA MissedAfterType ==
    ASSUME Sound, NEW row
    PROVE  MissedAfter(row) \in [Tokens -> 0..MissedMax]
<1>1. \A t \in Tokens : missed[t] \in 0..MissedMax
  BY DEF Sound
<1>2. \A n \in 0..MissedMax : Lesser(n + 1, MissedMax) \in 0..MissedMax
  BY HotEntryConstants DEF Lesser
<1> QED
  BY <1>1, <1>2, HotEntryConstants DEF MissedAfter

LEMMA SoundInit == Init => Sound
<1> SUFFICES ASSUME Init PROVE Sound
  OBVIOUS
<1>1. NoFile \in Domains /\ 0 \in Nat
  BY DEF Domains
<1>2. entry \in Entries /\ FitsCap(entry)
  BY <1>1, NewEntryFacts DEF Init
<1>3. entry.cov = CovOne
  BY DEF Init, NewEntry
<1> QED
  BY <1>2, <1>3, EntryConstants, HotEntryConstants DEF Init, Sound

\* Every step keeps the entry within its type and its cap.
LEMMA SoundStep == Sound /\ [Next]_vars => Sound'
<1> SUFFICES ASSUME Sound, [Next]_vars PROVE Sound'
  OBVIOUS
<1>1. /\ entry \in Entries /\ entry.cov <= CovOne /\ FitsCap(entry)
      /\ missed \in [Tokens -> 0..MissedMax]
  BY DEF Sound
<1>2. ASSUME NEW tok \in Tokens, Realize(tok) \/ Reject(tok) PROVE Sound'
  <2>1. Keeps(entry, entry') /\ entry'.cov = entry.cov
    BY <1>1, <1>2, UpdateFacts, UpdateCands DEF Realize, Reject
  <2>2. missed' \in [Tokens -> 0..MissedMax]
    BY <1>1, <1>2, StillMissedType DEF Realize, Reject
  <2> QED
    BY <1>1, <2>1, <2>2 DEF Sound, Keeps, FitsCap
<1>3. ASSUME NEW row \in Rows, Merge(row) PROVE Sound'
  <2>1. row \in TopkRows
    BY HotEntryConstants
  <2>2. Keeps(entry, entry')
    BY <1>1, <1>3, <2>1, MergeFacts DEF Merge
  <2>3. entry'.cov <= CovOne
    <3>1. CASE row = <<>>
      BY <3>1, <1>1, <1>3 DEF Merge, MergeTopk
    <3>2. CASE row # <<>>
      BY <3>2, <1>1, <1>3, <2>1, MergeCands, CoverageBound DEF Merge
    <3> QED
      BY <3>1, <3>2
  <2>4. missed' \in [Tokens -> 0..MissedMax]
    BY <1>1, <1>3, StillMissedType, MissedAfterType DEF Merge
  <2> QED
    BY <2>2, <2>3, <2>4 DEF Sound, Keeps, FitsCap
<1>4. CASE ResetStale
  <2>1. NoFile \in Domains /\ 0 \in Nat
    BY DEF Domains
  <2>2. entry' \in Entries /\ FitsCap(entry')
    BY <1>1, <1>4, <2>1, ResetFacts DEF ResetStale
  <2>3. entry'.cov = CovOne
    BY <1>1, <1>4 DEF ResetStale, Reset, Entries
  <2>4. missed' \in [Tokens -> 0..MissedMax]
    BY <1>4, HotEntryConstants DEF ResetStale
  <2> QED
    BY <2>2, <2>3, <2>4, EntryConstants DEF Sound, FitsCap
<1>5. CASE Compact
  <2>1. missed' \in [Tokens -> 0..MissedMax]
    BY <1>1, <1>5, StillMissedType DEF Compact
  <2>2. CASE entry' = NewEntry(NoFile, 0)
    <3>1. NoFile \in Domains /\ 0 \in Nat
      BY DEF Domains
    <3>2. entry' \in Entries /\ FitsCap(entry')
      BY <2>2, <3>1, NewEntryFacts
    <3>3. entry'.cov = CovOne
      BY <2>2 DEF NewEntry
    <3> QED
      BY <2>1, <3>2, <3>3, EntryConstants DEF Sound, FitsCap
  <2>3. CASE entry' = Decay(entry)
    <3>1. Keeps(entry, entry') /\ entry'.cov = entry.cov
      BY <1>1, <2>3, DecayFacts, DecayCands
    <3> QED
      BY <1>1, <2>1, <3>1 DEF Sound, Keeps, FitsCap
  <2> QED
    BY <1>5, <2>2, <2>3 DEF Compact
<1>6. CASE ComputeView \/ CacheView \/ UNCHANGED vars
  BY <1>1, <1>6 DEF ComputeView, CacheView, vars, Sound, FitsCap
<1> QED
  BY <1>2, <1>3, <1>4, <1>5, <1>6 DEF Next

\* Type correctness: whatever mix of evictions, cap doublings, merges, resets
\* and compactions an entry goes through, it stays an entry within its cap.
THEOREM EntrySound == Spec => []TypeOK
<1>1. Sound => TypeOK
  BY DEF Sound, TypeOK
<1> QED
  BY <1>1, SoundInit, SoundStep, PTL DEF Spec

-----------------------------------------------------------------------------
\* A view waiting in a reader is that of the entry as it is, or marked as
\* computed before an update: what CacheCoherent needs of the reader.
ReaderCoherent == reading \notin {NoView, Outdated} => reading = View(entry)

LEMMA CoherentStep ==
    CacheCoherent /\ ReaderCoherent /\ [Next]_vars => CacheCoherent' /\ ReaderCoherent'
<1> SUFFICES ASSUME CacheCoherent, ReaderCoherent, [Next]_vars
             PROVE  CacheCoherent' /\ ReaderCoherent'
  OBVIOUS
<1>1. CASE Invalidate
  BY <1>1 DEF Invalidate, CacheCoherent, ReaderCoherent
<1>2. ASSUME NEW tok \in Tokens, Realize(tok) \/ Reject(tok)
      PROVE  CacheCoherent' /\ ReaderCoherent'
  BY <1>1, <1>2 DEF Realize, Reject
<1>3. ASSUME NEW row \in Rows, Merge(row) PROVE CacheCoherent' /\ ReaderCoherent'
  <2>1. CASE row = <<>>
    BY <1>3, <2>1 DEF Merge, MergeTopk, CacheCoherent, ReaderCoherent, View
  <2>2. CASE row # <<>>
    BY <1>1, <1>3, <2>2 DEF Merge
  <2> QED
    BY <2>1, <2>2
<1>4. CASE ResetStale
  BY <1>1, <1>4 DEF ResetStale
<1>5. CASE Compact
  BY <1>1, <1>5 DEF Compact, CacheCoherent, ReaderCoherent
<1>6. CASE ComputeView
  BY <1>6 DEF ComputeView, CacheCoherent, ReaderCoherent, View
<1>7. CASE CacheView
  BY <1>7 DEF CacheView, CacheCoherent, ReaderCoherent, View
<1>8. CASE UNCHANGED vars
  BY <1>8 DEF vars, CacheCoherent, ReaderCoherent, View
<1> QED
  BY <1>2, <1>3, <1>4, <1>5, <1>6, <1>7, <1>8 DEF Next

\* A cached view that no reader raced with is the view of the entry: every
\* method that changes the candidates dropped it.
THEOREM ViewsCoherent == Spec => []CacheCoherent
<1>1. Init => CacheCoherent /\ ReaderCoherent
  BY DEF Init, CacheCoherent, ReaderCoherent
<1> QED
  BY <1>1, CoherentStep, PTL DEF Spec

-----------------------------------------------------------------------------
\* What one eviction takes: a weakest candidate.
LEMMA EvictionTakesWeakest ==
    ASSUME NEW cands \in CandTables, NEW tok, tok \notin DOMAIN cands,
           DOMAIN cands # {}
    PROVE  \E gone \in DOMAIN cands :
              /\ DOMAIN EvictWeakest(cands, tok) = DOMAIN cands \ {gone}
              /\ IsWeakest(cands, gone, DOMAIN cands)
<1>1. DOMAIN cands \ {tok} = DOMAIN cands
  OBVIOUS
<1> DEFINE pool == DOMAIN cands
           gone == CHOOSE t \in pool : IsWeakest(cands, t, pool)
<1>2. gone \in pool /\ IsWeakest(cands, gone, pool)
  <2>1. \E t \in pool : IsWeakest(cands, t, pool)
    BY WeakestExists
  <2> QED
    BY <2>1
<1>3. EvictWeakest(cands, tok) = [t \in pool \ {gone} |-> cands[t]]
  BY <1>1 DEF EvictWeakest
<1> HIDE DEF gone
<1> QED
  BY <1>2, <1>3

LEMMA OneEvictionIsFair ==
    ASSUME Sound, NEW tok \in Tokens,
           NEW before, before = DOMAIN entry.cands,
           NEW after, after = DOMAIN Ensure(entry, tok).cands
    PROVE  /\ Cardinality(before \ after) <= 1
           /\ \A gone \in before \ after, kept \in (before \cap after) \ {tok} :
                 Support(entry.cands[gone]) <= Support(entry.cands[kept])
<1>1. /\ entry \in Entries /\ entry.cands \in CandTables
      /\ entry.cands \in [before -> Cand] /\ before \subseteq Tokens
  BY CandTableFacts DEF Sound, Entries
<1>2. CASE before \subseteq after
  <2>1. before \ after = {}
    BY <1>2
  <2> QED
    BY <2>1, FS_EmptySet
<1>3. CASE ~ (before \subseteq after)
  <2>1. /\ tok \notin before /\ before # {}
        /\ Ensure(entry, tok).cands = WithCand(EvictWeakest(entry.cands, tok), tok, FreshCand)
    <3>1. before # {}
      BY <1>3
    <3>2. tok \notin before
      BY <1>3 DEF Ensure
    <3>3. before \subseteq DOMAIN WithCand(entry.cands, tok, FreshCand)
      BY DEF WithCand
    <3>4. CASE Cardinality(before) >= entry.cap /\ ~WantsGrowth(entry)
      <4>1. Ensure(entry, tok) = [entry EXCEPT !.cands =
                  WithCand(EvictWeakest(entry.cands, tok), tok, FreshCand)]
        BY <3>2, <3>4 DEF Ensure
      <4> QED
        BY <4>1, <1>1, <3>1, <3>2 DEF Entries
    <3>5. CASE Cardinality(before) >= entry.cap /\ WantsGrowth(entry)
      <4>1. Ensure(entry, tok) = [entry EXCEPT !.cap = Lesser(KMax, 2 * entry.cap),
                  !.cands = WithCand(entry.cands, tok, FreshCand)]
        BY <3>2, <3>5 DEF Ensure
      <4>2. Ensure(entry, tok).cands = WithCand(entry.cands, tok, FreshCand)
        BY <4>1, <1>1 DEF Entries
      <4> QED
        BY <4>2, <3>3, <1>3
    <3>6. CASE ~ (Cardinality(before) >= entry.cap)
      <4>1. Ensure(entry, tok) = [entry EXCEPT !.cands =
                  WithCand(entry.cands, tok, FreshCand)]
        BY <3>2, <3>6 DEF Ensure
      <4>2. Ensure(entry, tok).cands = WithCand(entry.cands, tok, FreshCand)
        BY <4>1, <1>1 DEF Entries
      <4> QED
        BY <4>2, <3>3, <1>3
    <3> QED
      BY <3>4, <3>5, <3>6
  <2>2. PICK gone \in before : /\ DOMAIN EvictWeakest(entry.cands, tok) = before \ {gone}
                               /\ IsWeakest(entry.cands, gone, before)
    BY <2>1, <1>1, EvictionTakesWeakest
  <2>3. after = (before \ {gone}) \cup {tok}
    BY <2>1, <2>2 DEF WithCand
  <2>4. before \ after = {gone}
    BY <2>1, <2>2, <2>3
  <2>5. Cardinality(before \ after) <= 1
    BY <2>4, FS_Singleton
  <2>6. ASSUME NEW kept \in (before \cap after) \ {tok}
        PROVE  Support(entry.cands[gone]) <= Support(entry.cands[kept])
    <3>1. kept \in before \ {gone}
      BY <2>3
    <3>2. Weaker(entry.cands, gone, kept)
      BY <3>1, <2>2 DEF IsWeakest
    <3>3. /\ Support(entry.cands[gone]) \in Nat
          /\ Support(entry.cands[kept]) \in Nat
      BY <1>1, <2>2, <3>1, EntryConstants DEF Cand, Support
    <3> QED
      BY <3>2, <3>3 DEF Weaker
  <2> QED
    BY <2>4, <2>5, <2>6
<1> QED
  BY <1>2, <1>3

LEMMA SoundIsFair == Sound => EvictionIsFair
  BY OneEvictionIsFair DEF EvictionIsFair

\* Making room for a token costs at most one candidate, and never one that was
\* observed more often than one that stays.
THEOREM EvictionFair == Spec => []EvictionIsFair
  BY SoundInit, SoundStep, SoundIsFair, PTL DEF Spec

-----------------------------------------------------------------------------
\* What n missed rows cost, at least.
Floor(n) == Lesser(QStep * n, QMax)

\* One more missed row costs at most what Fade takes.
LEMMA FadeFloor ==
    ASSUME NEW c \in Cand, c.q # Unseen, NEW n \in 0..MissedMax, c.q >= Floor(n)
    PROVE  /\ Fade(c).q # Unseen
           /\ Fade(c).q >= Floor(Lesser(n + 1, MissedMax))
<1>1. /\ c.q \in 0..QMax /\ QStep \in Nat /\ QMax \in Nat /\ MissedMax \in Nat
      /\ n \in Nat /\ Unseen = -1
  BY TypeConstants, EntryConstants, HotEntryConstants DEF Cand, Unseen
<1>2. Fade(c).q = Lesser(c.q + QStep, QMax)
  BY DEF Fade, Cand
<1> DEFINE lost == QStep * n
<1>3. lost \in Nat /\ QStep * (n + 1) = lost + QStep
  BY <1>1, SMT
<1> HIDE DEF lost
<1>4. c.q >= Lesser(lost, QMax)
  BY DEF Floor, lost
<1>5. Floor(Lesser(n + 1, MissedMax)) \in {Lesser(lost, QMax), Lesser(lost + QStep, QMax)}
  <2>1. Lesser(n + 1, MissedMax) \in {n, n + 1}
    BY <1>1 DEF Lesser
  <2>2. Floor(n) = Lesser(lost, QMax) /\ Floor(n + 1) = Lesser(lost + QStep, QMax)
    BY <1>3 DEF Floor, lost
  <2> QED
    BY <2>1, <2>2
<1>6. Lesser(c.q + QStep, QMax) >= Lesser(lost + QStep, QMax)
  BY <1>1, <1>3, <1>4 DEF Lesser
<1>7. Lesser(c.q + QStep, QMax) >= Lesser(lost, QMax)
  BY <1>1, <1>3, <1>4 DEF Lesser
<1>8. Lesser(c.q + QStep, QMax) \in Nat
  BY <1>1 DEF Lesser
<1> QED
  BY <1>1, <1>2, <1>5, <1>6, <1>7, <1>8

LEMMA FloorOfNone == Floor(0) = 0
  BY TypeConstants, EntryConstants DEF Floor, Lesser

\* An update that brings no probability and forgets no missed row keeps the
\* property.
LEMMA FadesKept ==
    ASSUME AbsenceFades, NEW e, NEW m,
           \A t \in DOMAIN e.cands :
              \/ e.cands[t].q = Unseen
              \/ t \in DOMAIN entry.cands /\ e.cands[t].q = entry.cands[t].q,
           m = StillMissed(e, missed), DOMAIN e.cands \subseteq Tokens
    PROVE  \A t \in DOMAIN e.cands : e.cands[t].q # Unseen => e.cands[t].q >= Floor(m[t])
<1> SUFFICES ASSUME NEW t \in DOMAIN e.cands, e.cands[t].q # Unseen
             PROVE  e.cands[t].q >= Floor(m[t])
  OBVIOUS
<1>1. t \in DOMAIN entry.cands /\ e.cands[t].q = entry.cands[t].q
  OBVIOUS
<1>2. m[t] = missed[t]
  BY DEF StillMissed
<1> QED
  BY <1>1, <1>2 DEF AbsenceFades, Floor

LEMMA FadesStep == Sound /\ Sound' /\ AbsenceFades /\ [Next]_vars => AbsenceFades'
<1> SUFFICES ASSUME Sound, Sound', AbsenceFades, [Next]_vars PROVE AbsenceFades'
  OBVIOUS
<1>1. /\ entry \in Entries /\ FitsCap(entry)
      /\ missed \in [Tokens -> 0..MissedMax]
      /\ entry.cands \in [DOMAIN entry.cands -> Cand]
      /\ DOMAIN entry.cands \subseteq Tokens
  BY CandTableFacts DEF Sound, Entries
<1>2. /\ entry'.cands \in [DOMAIN entry'.cands -> Cand]
      /\ DOMAIN entry'.cands \subseteq Tokens
  BY CandTableFacts DEF Sound, Entries
<1>3. AbsenceFades' <=> \A t \in DOMAIN entry'.cands :
          entry'.cands[t].q # Unseen => entry'.cands[t].q >= Floor(missed'[t])
  BY DEF AbsenceFades, Floor
<1>4. ASSUME NEW tok \in Tokens, Realize(tok) \/ Reject(tok) PROVE AbsenceFades'
  <2>1. \A t \in DOMAIN entry'.cands :
           \/ entry'.cands[t].q = Unseen
           \/ t \in DOMAIN entry.cands /\ entry'.cands[t].q = entry.cands[t].q
    BY <1>1, <1>4, UpdateCands DEF Realize, Reject
  <2>2. missed' = StillMissed(entry', missed)
    BY <1>4 DEF Realize, Reject
  <2> QED
    BY <1>2, <1>3, <2>1, <2>2, FadesKept
<1>5. ASSUME NEW row \in Rows, Merge(row) PROVE AbsenceFades'
  <2>1. CASE row = <<>>
    BY <1>5, <2>1 DEF Merge, MergeTopk, AbsenceFades
  <2>2. CASE row # <<>>
    <3> SUFFICES ASSUME NEW t \in DOMAIN entry'.cands, entry'.cands[t].q # Unseen
                 PROVE  entry'.cands[t].q >= Floor(missed'[t])
      BY <1>3
    <3>1. row \in TopkRows /\ entry' = MergeTopk(entry, row)
      BY <1>5, HotEntryConstants DEF Merge
    <3>2. /\ t \in Tokens /\ missed'[t] = MissedAfter(row)[t]
          /\ entry'.cands[t].q \in Unseen..QMax
      BY <1>2, <1>5, <2>2 DEF Merge, StillMissed, Cand
    <3>3. CASE t \in RowIds(row)
      <4>1. missed'[t] = 0
        BY <3>2, <3>3 DEF MissedAfter
      <4>2. entry'.cands[t].q >= 0
        BY <3>2, TypeConstants DEF Unseen
      <4> QED
        BY <4>1, <4>2, FloorOfNone
    <3>4. CASE t \notin RowIds(row)
      <4>1. t \in DOMAIN entry.cands /\ entry'.cands[t] = Fade(entry.cands[t])
        BY <1>1, <3>1, <3>4, <2>2, MergeCands
      <4>2. missed'[t] = Lesser(missed[t] + 1, MissedMax) /\ missed[t] \in 0..MissedMax
        BY <1>1, <3>2, <3>4, <4>1 DEF MissedAfter
      <4>3. entry.cands[t] \in Cand /\ entry.cands[t].q # Unseen
        BY <1>1, <4>1 DEF Fade
      <4>4. entry.cands[t].q >= Floor(missed[t])
        BY <4>1, <4>3 DEF AbsenceFades, Floor
      <4> QED
        BY <4>1, <4>2, <4>3, <4>4, FadeFloor
    <3> QED
      BY <3>3, <3>4
  <2> QED
    BY <2>1, <2>2
<1>6. CASE ResetStale
  <2>1. DOMAIN entry'.cands = {}
    BY <1>1, <1>6 DEF ResetStale, Reset, NoCands, Entries
  <2> QED
    BY <2>1, <1>3
<1>7. CASE Compact
  <2>1. missed' = StillMissed(entry', missed)
    BY <1>7 DEF Compact
  <2>2. CASE entry' = NewEntry(NoFile, 0)
    <3>1. DOMAIN entry'.cands = {}
      BY <2>2 DEF NewEntry, NoCands
    <3> QED
      BY <3>1, <1>3
  <2>3. CASE entry' = Decay(entry)
    BY <1>1, <1>2, <1>3, <2>1, <2>3, DecayCands, FadesKept
  <2> QED
    BY <1>7, <2>2, <2>3 DEF Compact
<1>8. CASE ComputeView \/ CacheView \/ UNCHANGED vars
  BY <1>8 DEF ComputeView, CacheView, vars, AbsenceFades
<1> QED
  BY <1>4, <1>5, <1>6, <1>7, <1>8 DEF Next

\* Negative evidence of truncated rows: a candidate with a known probability has
\* lost a step for each of the rows that left it out in a row.
THEOREM AbsentFade == Spec => []AbsenceFades
<1>1. Init => AbsenceFades
  BY DEF Init, NewEntry, NoCands, AbsenceFades
<1> QED
  BY <1>1, SoundInit, SoundStep, FadesStep, PTL DEF Spec

-----------------------------------------------------------------------------
(* merge_topk in closed form and as a loop.                                *)

\* The newcomers among the first i tokens of a row, and those let in.
NewBy(e, row, i)     == {j \in Newcomers(e, row) : j <= i}
AdmittedBy(e, row, room, i) == {j \in Admitted(e, row, room) : j <= i}

\* One place further there is at most one newcomer more, and it is let in just
\* when fewer than room came before.
LEMMA CountsOfNext ==
    ASSUME NEW e, NEW row \in TopkRows, NEW room \in Nat, NEW i \in 0..Len(row) - 1
    PROVE  /\ IsFiniteSet(NewBy(e, row, i)) /\ IsFiniteSet(AdmittedBy(e, row, room, i))
           /\ IF i + 1 \in Newcomers(e, row)
              THEN /\ NewBy(e, row, i + 1) = NewBy(e, row, i) \cup {i + 1}
                   /\ Cardinality(NewBy(e, row, i + 1)) = Cardinality(NewBy(e, row, i)) + 1
              ELSE NewBy(e, row, i + 1) = NewBy(e, row, i)
           /\ IF i + 1 \in Admitted(e, row, room)
              THEN /\ AdmittedBy(e, row, room, i + 1) = AdmittedBy(e, row, room, i) \cup {i + 1}
                   /\ Cardinality(AdmittedBy(e, row, room, i + 1))
                        = Cardinality(AdmittedBy(e, row, room, i)) + 1
              ELSE AdmittedBy(e, row, room, i + 1) = AdmittedBy(e, row, room, i)
<1> DEFINE N == Newcomers(e, row)
           A == Admitted(e, row, room)
<1>1. Len(row) \in Nat /\ N \subseteq 1..Len(row) /\ A \subseteq N
  BY DEF TopkRows, Newcomers, Admitted
<1>2. IsFiniteSet(1..Len(row))
  BY <1>1, FS_Interval
<1>3. \A S \in SUBSET (1..Len(row)) :
         /\ {j \in S : j <= i} \subseteq 1..Len(row)
         /\ IF i + 1 \in S
            THEN {j \in S : j <= i + 1} = {j \in S : j <= i} \cup {i + 1}
            ELSE {j \in S : j <= i + 1} = {j \in S : j <= i}
         /\ i + 1 \notin {j \in S : j <= i}
  <2> SUFFICES ASSUME NEW S \in SUBSET (1..Len(row))
               PROVE  /\ {j \in S : j <= i} \subseteq 1..Len(row)
                      /\ IF i + 1 \in S
                         THEN {j \in S : j <= i + 1} = {j \in S : j <= i} \cup {i + 1}
                         ELSE {j \in S : j <= i + 1} = {j \in S : j <= i}
                      /\ i + 1 \notin {j \in S : j <= i}
    OBVIOUS
  <2>1. i \in Nat /\ \A j \in S : j \in Nat
    BY <1>1
  <2>2. \A j \in S : j <= i + 1 <=> j <= i \/ j = i + 1
    BY <2>1
  <2>3. ~ (i + 1 <= i)
    BY <2>1
  <2> QED
    BY <2>2, <2>3
<1>4. \A S \in SUBSET (1..Len(row)) :
         /\ IsFiniteSet({j \in S : j <= i})
         /\ i + 1 \in S => Cardinality({j \in S : j <= i} \cup {i + 1})
                             = Cardinality({j \in S : j <= i}) + 1
  <2> SUFFICES ASSUME NEW S \in SUBSET (1..Len(row))
               PROVE  /\ IsFiniteSet({j \in S : j <= i})
                      /\ i + 1 \in S => Cardinality({j \in S : j <= i} \cup {i + 1})
                             = Cardinality({j \in S : j <= i}) + 1
    OBVIOUS
  <2> DEFINE B == {j \in S : j <= i}
  <2>1. B \subseteq 1..Len(row) /\ i + 1 \notin B
    BY <1>3
  <2> HIDE DEF B
  <2>2. IsFiniteSet(B)
    BY <2>1, <1>2, FS_Subset
  <2>3. Cardinality(B \cup {i + 1}) = Cardinality(B) + 1
    BY <2>1, <2>2, FS_AddElement
  <2> QED
    BY <2>2, <2>3 DEF B
<1>5. N \in SUBSET (1..Len(row)) /\ A \in SUBSET (1..Len(row))
  BY <1>1
<1> HIDE DEF N, A
<1>6. /\ NewBy(e, row, i) = {j \in N : j <= i} /\ NewBy(e, row, i + 1) = {j \in N : j <= i + 1}
      /\ AdmittedBy(e, row, room, i) = {j \in A : j <= i}
      /\ AdmittedBy(e, row, room, i + 1) = {j \in A : j <= i + 1}
  BY DEF NewBy, AdmittedBy, N, A
<1>7. /\ IsFiniteSet(NewBy(e, row, i))
      /\ IF i + 1 \in N
         THEN /\ NewBy(e, row, i + 1) = NewBy(e, row, i) \cup {i + 1}
              /\ Cardinality(NewBy(e, row, i + 1)) = Cardinality(NewBy(e, row, i)) + 1
         ELSE NewBy(e, row, i + 1) = NewBy(e, row, i)
  BY <1>3, <1>4, <1>5, <1>6
<1>8. /\ IsFiniteSet(AdmittedBy(e, row, room, i))
      /\ IF i + 1 \in A
         THEN /\ AdmittedBy(e, row, room, i + 1) = AdmittedBy(e, row, room, i) \cup {i + 1}
              /\ Cardinality(AdmittedBy(e, row, room, i + 1)) = Cardinality(AdmittedBy(e, row, room, i)) + 1
         ELSE AdmittedBy(e, row, room, i + 1) = AdmittedBy(e, row, room, i)
  BY <1>3, <1>4, <1>5, <1>6
<1> QED
  BY <1>7, <1>8 DEF N, A

\* Of the first i tokens as many newcomers are let in as there is room for.
LEMMA CountsUpTo ==
    ASSUME NEW e, NEW row \in TopkRows, NEW room \in Nat, NEW i \in 0..Len(row)
    PROVE  /\ Cardinality(NewBy(e, row, i)) \in Nat
           /\ IsFiniteSet(AdmittedBy(e, row, room, i))
           /\ Cardinality(AdmittedBy(e, row, room, i)) = Lesser(Cardinality(NewBy(e, row, i)), room)
<1> DEFINE U(k) == Cardinality(NewBy(e, row, k))
           L(k) == Cardinality(AdmittedBy(e, row, room, k))
           T == {k \in 0..Len(row) : /\ U(k) \in Nat /\ IsFiniteSet(AdmittedBy(e, row, room, k))
                                     /\ L(k) = Lesser(U(k), room)}
<1>1. Len(row) \in Nat
  BY DEF TopkRows
<1>2. 0 \in T
  <2>1. NewBy(e, row, 0) = {} /\ AdmittedBy(e, row, room, 0) = {}
    BY <1>1 DEF NewBy, AdmittedBy, Newcomers, Admitted
  <2>2. U(0) = 0 /\ L(0) = 0 /\ IsFiniteSet(AdmittedBy(e, row, room, 0))
    BY <2>1, FS_EmptySet
  <2> QED
    BY <1>1, <2>2 DEF Lesser
<1>3. ASSUME NEW k \in 0..Len(row) - 1, k \in T PROVE k + 1 \in T
  <2>1. U(k) \in Nat /\ IsFiniteSet(AdmittedBy(e, row, room, k)) /\ L(k) = Lesser(U(k), room)
    BY <1>3
  <2>2. k + 1 \in 0..Len(row)
    BY <1>1
  <2>3. k + 1 \in Admitted(e, row, room)
          <=> k + 1 \in Newcomers(e, row) /\ U(k + 1) <= room
    BY DEF Admitted, NewBy
  <2>4. IsFiniteSet(AdmittedBy(e, row, room, k + 1))
    <3>1. \/ AdmittedBy(e, row, room, k + 1) = AdmittedBy(e, row, room, k)
          \/ AdmittedBy(e, row, room, k + 1) = AdmittedBy(e, row, room, k) \cup {k + 1}
      BY CountsOfNext
    <3> QED
      BY <3>1, <2>1, FS_AddElement
  <2>5. /\ IF k + 1 \in Newcomers(e, row)
           THEN U(k + 1) = U(k) + 1 ELSE U(k + 1) = U(k)
        /\ IF k + 1 \in Admitted(e, row, room)
           THEN L(k + 1) = L(k) + 1 ELSE L(k + 1) = L(k)
    <3>1. k + 1 \in Newcomers(e, row) => U(k + 1) = U(k) + 1
      BY CountsOfNext
    <3>2. k + 1 \notin Newcomers(e, row) => U(k + 1) = U(k)
      BY CountsOfNext
    <3>3. k + 1 \in Admitted(e, row, room) => L(k + 1) = L(k) + 1
      BY CountsOfNext
    <3>4. k + 1 \notin Admitted(e, row, room) => L(k + 1) = L(k)
      BY CountsOfNext
    <3> QED
      BY <3>1, <3>2, <3>3, <3>4
  <2> HIDE DEF U, L
  <2>6. U(k + 1) \in Nat /\ L(k + 1) = Lesser(U(k + 1), room)
    BY <2>1, <2>3, <2>5 DEF Lesser
  <2> QED
    BY <2>2, <2>4, <2>6 DEF U, L
<1> HIDE DEF T
<1>4. i \in T
  BY <1>1, <1>2, <1>3, UpTo
<1> QED
  BY <1>4 DEF T

\* The entry after i passes of the loop over a row.
RoomFor(e, row) ==
    (IF CoverageAfter(e, row) < CovTarget THEN KMax ELSE e.cap) - Cardinality(DOMAIN e.cands)

\* The tokens let in by then.
NewTokens(e, row, i) == {row[j].tok : j \in AdmittedBy(e, row, RoomFor(e, row), i)}

\* What the loop has made of a token by then.
CandAfter(e, row, i, t) ==
    CASE t \in NewTokens(e, row, i) -> [FreshCand EXCEPT !.q = QIn(row, t)]
      [] t \notin NewTokens(e, row, i) /\ t \in {row[j].tok : j \in 1..i} ->
            Blend(e.cands[t], QIn(row, t))
      [] OTHER -> IF t \in RowIds(row) THEN e.cands[t] ELSE Fade(e.cands[t])

CandsAfter(e, row, i) ==
    [t \in DOMAIN e.cands \cup NewTokens(e, row, i) |-> CandAfter(e, row, i, t)]

\* The size of the table, and the entry, by then.
SizeAfter(e, row, i) == Cardinality(DOMAIN e.cands \cup NewTokens(e, row, i))

EntryWith(e, cov, cands, cap) ==
    [dom |-> e.dom, epoch |-> e.epoch, cap |-> cap, cov |-> cov, cands |-> cands]

EntryAfter(e, row, i) ==
    EntryWith(e, CoverageAfter(e, row), CandsAfter(e, row, i),
              GrownCap(e.cap, SizeAfter(e, row, i)))

\* The numbers of a merge are in range.
LEMMA RoomFacts ==
    ASSUME NEW e \in Entries, FitsCap(e), NEW row \in TopkRows, row # <<>>
    PROVE  /\ RoomFor(e, row) \in Nat /\ CoverageAfter(e, row) \in Nat
           /\ Cardinality(DOMAIN e.cands) \in Nat /\ IsFiniteSet(DOMAIN e.cands)
           /\ Cardinality(DOMAIN e.cands) <= e.cap
           /\ e.cap \in KInit..KMax /\ e.cap \in Nat /\ e.cap <= KMax
           /\ Cardinality(DOMAIN e.cands) + RoomFor(e, row)
                = IF CoverageAfter(e, row) < CovTarget THEN KMax ELSE e.cap
<1>1. CoverageAfter(e, row) \in Nat
  BY CoverageType
<1>2. Cardinality(DOMAIN e.cands) \in Nat /\ IsFiniteSet(DOMAIN e.cands)
  BY CandTableFacts DEF Entries
<1>3. /\ e.cap \in KInit..KMax /\ e.cap \in Nat /\ e.cap <= KMax
      /\ Cardinality(DOMAIN e.cands) <= e.cap
  BY EntryConstants DEF Entries, FitsCap
<1> QED
  BY <1>1, <1>2, <1>3, EntryConstants DEF RoomFor

\* Each newcomer let in brings a token of its own.
LEMMA SizeFacts ==
    ASSUME NEW e \in Entries, FitsCap(e), NEW row \in TopkRows, row # <<>>, EachOnce(row),
           NEW i \in 0..Len(row)
    PROVE  /\ NewTokens(e, row, i) \cap DOMAIN e.cands = {}
           /\ Cardinality(NewBy(e, row, i)) \in Nat
           /\ SizeAfter(e, row, i)
                = Cardinality(DOMAIN e.cands)
                    + Lesser(Cardinality(NewBy(e, row, i)), RoomFor(e, row))
<1> DEFINE known == DOMAIN e.cands
           A     == AdmittedBy(e, row, RoomFor(e, row), i)
           new   == NewTokens(e, row, i)
<1>1. A \subseteq 1..Len(row) /\ \A j \in A : row[j].tok \notin known
  BY DEF AdmittedBy, Admitted, Newcomers
<1>2. new = {row[j].tok : j \in A}
  BY DEF NewTokens
<1>3. /\ Cardinality(NewBy(e, row, i)) \in Nat /\ IsFiniteSet(A)
      /\ Cardinality(A) = Lesser(Cardinality(NewBy(e, row, i)), RoomFor(e, row))
  BY RoomFacts, CountsUpTo
<1>4. Cardinality(new) = Cardinality(A) /\ IsFiniteSet(new)
  <2>1. [j \in A |-> row[j].tok] \in Bijection(A, new)
    <3>1. \A j, k \in A : row[j].tok = row[k].tok => j = k
      BY <1>1 DEF EachOnce
    <3> DEFINE f == [j \in A |-> row[j].tok]
    <3> HIDE DEF A, new
    <3>2. f \in [A -> new] /\ \A t \in new : \E j \in A : f[j] = t
      BY <1>2
    <3>3. \A j, k \in A : f[j] = f[k] => j = k
      BY <3>1
    <3> QED
      BY <3>2, <3>3 DEF Bijection, Injection, Surjection, IsInjective
  <2> HIDE DEF A, new
  <2>2. ExistsBijection(A, new)
    BY <2>1 DEF ExistsBijection
  <2> QED
    BY <2>2, <1>3, FS_Bijection
<1>5. new \cap known = {}
  BY <1>1, <1>2
<1>6. Cardinality(known) \in Nat /\ IsFiniteSet(known) /\ Cardinality(new) \in Nat
  BY <1>4, RoomFacts, FS_CardinalityType
<1>7. Cardinality(known \cup new) = Cardinality(known) + Cardinality(new)
  <2> HIDE DEF known, new
  <2>1. Cardinality(known \cup new)
          = Cardinality(known) + Cardinality(new) - Cardinality(known \cap new)
    BY <1>4, <1>6, FS_Union
  <2>2. known \cap new = {} /\ Cardinality({}) = 0
    BY <1>5, FS_EmptySet
  <2>3. \A a, b, c, d : a \in Nat /\ b \in Nat /\ d = a + b - c /\ c = 0 => d = a + b
    OBVIOUS
  <2> QED
    BY <2>1, <2>2, <2>3, <1>6
<1> QED
  BY <1>3, <1>4, <1>5, <1>7 DEF SizeAfter

\* Before the first pass nothing is merged.
LEMMA LoopStarts ==
    ASSUME NEW e \in Entries, FitsCap(e), NEW row \in TopkRows, row # <<>>
    PROVE  EntryAfter(e, row, 0) = BeforeLoop(e, row)
<1> DEFINE cands == [t \in DOMAIN e.cands |->
                        IF t \in RowIds(row) THEN e.cands[t] ELSE Fade(e.cands[t])]
<1>1. Len(row) \in Nat
  BY DEF TopkRows
<1>2. AdmittedBy(e, row, RoomFor(e, row), 0) = {}
  BY <1>1 DEF AdmittedBy, Admitted, Newcomers
<1>3. NewTokens(e, row, 0) = {} /\ {row[j].tok : j \in 1..0} = {}
  BY <1>2 DEF NewTokens
<1>4. CandsAfter(e, row, 0) = cands
  BY <1>3 DEF CandsAfter, CandAfter
<1>5. SizeAfter(e, row, 0) = Cardinality(DOMAIN e.cands)
  BY <1>3 DEF SizeAfter
<1>6. GrownCap(e.cap, SizeAfter(e, row, 0)) = e.cap
  BY <1>5, RoomFacts, GrownCapOfFew
<1>7. BeforeLoop(e, row) = EntryWith(e, CoverageAfter(e, row), cands, e.cap)
  <2>1. BeforeLoop(e, row) = [e EXCEPT !.cov = CoverageAfter(e, row), !.cands = cands]
    BY DEF BeforeLoop
  <2> HIDE DEF cands
  <2> QED
    BY <2>1 DEF EntryWith, Entries
<1> QED
  BY <1>4, <1>6, <1>7 DEF EntryAfter

\* After the last one the entry is that of the closed form.
LEMMA LoopEnds ==
    ASSUME NEW e \in Entries, NEW row \in TopkRows, row # <<>>
    PROVE  EntryAfter(e, row, Len(row)) = MergeTopk(e, row)
<1> DEFINE n     == Len(row)
           limit == IF CoverageAfter(e, row) < CovTarget THEN KMax ELSE e.cap
           known == DOMAIN e.cands
           new   == {row[i].tok : i \in Admitted(e, row, limit - Cardinality(known))}
           Merged(t) == CASE t \in new -> [FreshCand EXCEPT !.q = QIn(row, t)]
                          [] t \in known \cap RowIds(row) -> Blend(e.cands[t], QIn(row, t))
                          [] OTHER -> Fade(e.cands[t])
           cands == [t \in known \cup new |-> Merged(t)]
<1>1. n \in Nat
  BY DEF TopkRows
<1>2. \A j \in Admitted(e, row, RoomFor(e, row)) : j \in 1..n /\ row[j].tok \notin known
  BY DEF Admitted, Newcomers
<1>3. AdmittedBy(e, row, RoomFor(e, row), n) = Admitted(e, row, RoomFor(e, row))
  BY <1>1, <1>2 DEF AdmittedBy
<1>4. NewTokens(e, row, n) = new /\ new \cap known = {}
  BY <1>2, <1>3 DEF NewTokens, RoomFor
<1>5. {row[j].tok : j \in 1..n} = RowIds(row)
  BY DEF RowIds
<1>6. ASSUME NEW t \in known \cup new PROVE CandAfter(e, row, n, t) = Merged(t)
  <2> HIDE DEF new
  <2> QED
    BY <1>4, <1>5, <1>6 DEF CandAfter
<1>7. CandsAfter(e, row, n) = cands
  <2> HIDE DEF new, Merged
  <2> QED
    BY <1>4, <1>6 DEF CandsAfter
<1>8. SizeAfter(e, row, n) = Cardinality(known \cup new)
  BY <1>4 DEF SizeAfter
<1>9. MergeTopk(e, row) = [e EXCEPT !.cov = CoverageAfter(e, row), !.cands = cands,
                                    !.cap = GrownCap(@, Cardinality(known \cup new))]
  BY DEF MergeTopk
<1> HIDE DEF cands, known, new
<1>10. MergeTopk(e, row) = EntryWith(e, CoverageAfter(e, row), cands,
                                     GrownCap(e.cap, Cardinality(known \cup new)))
  BY <1>9 DEF EntryWith, Entries
<1> QED
  BY <1>7, <1>8, <1>10 DEF EntryAfter

\* The cap after i passes.
CapAfter(e, row, i) == GrownCap(e.cap, SizeAfter(e, row, i))

\* While there is room a newcomer finds a place, or a table that grows; then
\* it finds neither.
LEMMA GrowthFacts ==
    ASSUME NEW e \in Entries, FitsCap(e), NEW row \in TopkRows, row # <<>>, EachOnce(row),
           NEW i \in 0..Len(row) - 1, i + 1 \in Newcomers(e, row)
    PROVE  LET full  == SizeAfter(e, row, i) >= CapAfter(e, row, i)
               wants == CoverageAfter(e, row) < CovTarget /\ CapAfter(e, row, i) < KMax
           IN  IF i + 1 \in Admitted(e, row, RoomFor(e, row))
               THEN /\ full => wants
                    /\ CapAfter(e, row, i + 1)
                         = IF full THEN Lesser(KMax, 2 * CapAfter(e, row, i))
                           ELSE CapAfter(e, row, i)
               ELSE full /\ ~wants
<1> DEFINE K   == Cardinality(DOMAIN e.cands)
           R   == RoomFor(e, row)
           U   == Cardinality(NewBy(e, row, i))
           n   == SizeAfter(e, row, i)
           m   == SizeAfter(e, row, i + 1)
           c   == CapAfter(e, row, i)
           low == CoverageAfter(e, row) < CovTarget
<1>1. i \in 0..Len(row) /\ i + 1 \in 0..Len(row)
  BY DEF TopkRows
<1>2. U \in Nat /\ n = K + Lesser(U, R)
  BY <1>1, SizeFacts
<1>3. m = K + Lesser(U + 1, R)
  <2>1. Cardinality(NewBy(e, row, i + 1)) = U + 1
    BY CountsOfNext, RoomFacts
  <2>2. m = K + Lesser(Cardinality(NewBy(e, row, i + 1)), R)
    BY <1>1, SizeFacts
  <2> QED
    BY <2>1, <2>2
<1>4. i + 1 \in Admitted(e, row, R) <=> U + 1 <= R
  <2>1. Cardinality(NewBy(e, row, i + 1)) = U + 1
    BY CountsOfNext, RoomFacts
  <2> QED
    BY <2>1 DEF Admitted, NewBy
<1>5. /\ K \in Nat /\ R \in Nat /\ e.cap \in KInit..KMax /\ e.cap \in Nat /\ e.cap <= KMax
      /\ K + R = IF low THEN KMax ELSE e.cap
      /\ K <= e.cap /\ KMax \in Nat
  BY RoomFacts, EntryConstants
<1>6. n \in Nat /\ n <= KMax
  BY <1>2, <1>5 DEF Lesser
<1>7. /\ c \in KInit..KMax /\ n <= c /\ c \in Nat
      /\ n <= e.cap => c = e.cap
  <2>1. c \in KInit..KMax /\ n <= c
    BY <1>5, <1>6, GrownCapFacts DEF CapAfter
  <2>2. n <= e.cap => c = e.cap
    BY <1>5, GrownCapOfFew DEF CapAfter
  <2> QED
    BY <2>1, <2>2, EntryConstants
<1>8. n + 1 <= KMax => /\ n < c => GrownCap(e.cap, n + 1) = c
                       /\ n = c => GrownCap(e.cap, n + 1) = Lesser(KMax, 2 * n)
  BY <1>5, <1>6, GrownCapStep DEF CapAfter
<1>9. CapAfter(e, row, i + 1) = GrownCap(e.cap, m)
  BY DEF CapAfter
<1> HIDE DEF K, R, U, n, m, c, low
<1>10. CASE U + 1 <= R
  <2>1. m = n + 1 /\ n + 1 <= K + R
    BY <1>2, <1>3, <1>5, <1>10 DEF Lesser
  <2>2. n + 1 <= KMax
    BY <2>1, <1>5, <1>6
  <2>3. ~low => n < c
    BY <2>1, <1>5, <1>6, <1>7
  <2>4. n >= c => low /\ c < KMax /\ n = c
    <3>1. n >= c => n = c
      BY <1>6, <1>7
    <3>2. n >= c => low
      BY <2>3, <1>6, <1>7
    <3>3. n = c => c < KMax
      BY <2>2, <1>5, <1>6
    <3> QED
      BY <3>1, <3>2, <3>3
  <2>5. CapAfter(e, row, i + 1) = IF n >= c THEN Lesser(KMax, 2 * c) ELSE c
    <3>1. n < c \/ (n >= c /\ n = c)
      BY <1>6, <1>7
    <3>2. n < c => ~(n >= c)
      BY <1>6, <1>7
    <3>3. CapAfter(e, row, i + 1) = GrownCap(e.cap, n + 1)
      BY <1>9, <2>1
    <3> QED
      BY <3>1, <3>2, <3>3, <2>2, <1>8
  <2> QED
    BY <1>4, <1>10, <2>4, <2>5 DEF R, n, c, low
<1>11. CASE ~ (U + 1 <= R)
  <2>1. n = K + R
    BY <1>2, <1>5, <1>11 DEF Lesser
  <2>2. low => n = KMax /\ c = KMax
    BY <2>1, <1>5, <1>6, <1>7
  <2>3. ~low => n = e.cap /\ c = e.cap
    BY <2>1, <1>5, <1>6, <1>7
  <2>4. n >= c /\ ~(low /\ c < KMax)
    BY <2>2, <2>3, <1>5, <1>6, <1>7
  <2> QED
    BY <1>4, <1>11, <2>4 DEF R, n, c, low
<1> QED
  BY <1>10, <1>11

\* The token of a pass is known under its own place in the row alone.
LEMMA PassToken ==
    ASSUME NEW e \in Entries, NEW row \in TopkRows, EachOnce(row),
           NEW i \in 0..Len(row) - 1
    PROVE  LET t == row[i + 1].tok
           IN  /\ QIn(row, t) = row[i + 1].q /\ t \in RowIds(row)
               /\ t \notin {row[j].tok : j \in 1..i}
               /\ {row[j].tok : j \in 1..i + 1} = {row[j].tok : j \in 1..i} \cup {t}
               /\ t \notin NewTokens(e, row, i)
               /\ NewTokens(e, row, i + 1)
                    = IF i + 1 \in Admitted(e, row, RoomFor(e, row))
                      THEN NewTokens(e, row, i) \cup {t} ELSE NewTokens(e, row, i)
               /\ i + 1 \in Newcomers(e, row)
                    <=> t \notin DOMAIN e.cands /\ row[i + 1].q # Unseen
<1> DEFINE t == row[i + 1].tok
           A(k) == AdmittedBy(e, row, RoomFor(e, row), k)
<1>1. Len(row) \in Nat /\ i + 1 \in 1..Len(row) /\ i \in Nat /\ i + 1 \notin 1..i
      /\ 1..i \subseteq 1..Len(row) /\ 1..i + 1 = (1..i) \cup {i + 1}
  BY DEF TopkRows
<1>2. \A j \in 1..Len(row) : row[j].tok = t => j = i + 1
  BY <1>1 DEF EachOnce
<1>3. QIn(row, t) = row[i + 1].q /\ t \in RowIds(row)
  <2>1. (CHOOSE j \in 1..Len(row) : row[j].tok = t) = i + 1
    BY <1>1, <1>2
  <2> QED
    BY <2>1, <1>1 DEF QIn, RowIds
<1>4. /\ t \notin {row[j].tok : j \in 1..i}
      /\ {row[j].tok : j \in 1..i + 1} = {row[j].tok : j \in 1..i} \cup {t}
  BY <1>1, <1>2
<1>5. A(i) \subseteq 1..i
  BY <1>1 DEF AdmittedBy, Admitted, Newcomers
<1>6. A(i + 1) = IF i + 1 \in Admitted(e, row, RoomFor(e, row)) THEN A(i) \cup {i + 1} ELSE A(i)
  <2>1. \A j \in Admitted(e, row, RoomFor(e, row)) : j <= i + 1 <=> j <= i \/ j = i + 1
    BY <1>1 DEF Admitted, Newcomers
  <2>2. ~(i + 1 <= i) /\ i + 1 <= i + 1
    BY <1>1
  <2> QED
    BY <2>1, <2>2 DEF AdmittedBy
<1>7. t \notin NewTokens(e, row, i)
  BY <1>4, <1>5 DEF NewTokens
<1>8. NewTokens(e, row, i + 1)
                    = IF i + 1 \in Admitted(e, row, RoomFor(e, row))
                      THEN NewTokens(e, row, i) \cup {t} ELSE NewTokens(e, row, i)
  BY <1>6 DEF NewTokens
<1>9. i + 1 \in Newcomers(e, row) <=> t \notin DOMAIN e.cands /\ row[i + 1].q # Unseen
  BY <1>1 DEF Newcomers
<1> QED
  BY <1>3, <1>4, <1>7, <1>8, <1>9

\* An entry with other candidates, and with another cap as well.
Changed(E, cands)    == [E EXCEPT !.cands = cands]
Grew(E, cap, cands) == [E EXCEPT !.cap = cap, !.cands = cands]

\* Such an entry, written out.
LEMMA EntryRecord ==
    ASSUME NEW e, NEW cov, NEW cands, NEW cap, NEW new, NEW grown,
           NEW E, E = EntryWith(e, cov, cands, cap)
    PROVE  /\ Changed(E, new) = EntryWith(e, cov, new, cap)
           /\ Grew(E, grown, new) = EntryWith(e, cov, new, grown)
<1> DEFINE F == [E EXCEPT !.cap = grown]
<1>1. [E EXCEPT !.cands = new] = EntryWith(e, cov, new, cap)
  BY DEF EntryWith
<1>2. [E EXCEPT !.cap = grown, !.cands = new] = [F EXCEPT !.cands = new]
  OBVIOUS
<1>3. F = EntryWith(e, cov, cands, grown)
  BY DEF EntryWith
<1> HIDE DEF F
<1>4. [F EXCEPT !.cands = new] = EntryWith(e, cov, new, grown)
  BY <1>3 DEF EntryWith
<1> QED
  BY <1>1, <1>2, <1>4 DEF Changed, Grew

\* One pass leads from the entry after i passes to the one after i + 1.
LEMMA LoopPass ==
    ASSUME NEW e \in Entries, FitsCap(e), NEW row \in TopkRows, row # <<>>, EachOnce(row),
           NEW i \in 0..Len(row) - 1
    PROVE  MergePass(EntryAfter(e, row, i), row[i + 1]) = EntryAfter(e, row, i + 1)
<1> DEFINE x     == row[i + 1]
           t     == x.tok
           known == DOMAIN e.cands
           New(k) == NewTokens(e, row, k)
           C(k)  == CandsAfter(e, row, k)
           cov   == CoverageAfter(e, row)
           E     == EntryAfter(e, row, i)
           seen  == {row[j].tok : j \in 1..i}
           Old(u) == IF u \in RowIds(row) THEN e.cands[u] ELSE Fade(e.cands[u])
<1>1. /\ QIn(row, t) = x.q /\ t \in RowIds(row) /\ t \notin seen
      /\ {row[j].tok : j \in 1..i + 1} = seen \cup {t}
      /\ t \notin New(i)
      /\ New(i + 1) = IF i + 1 \in Admitted(e, row, RoomFor(e, row))
                      THEN New(i) \cup {t} ELSE New(i)
      /\ i + 1 \in Newcomers(e, row) <=> t \notin known /\ x.q # Unseen
  BY PassToken
<1>2. /\ E.cands = C(i) /\ E.cov = cov /\ E.cap = CapAfter(e, row, i)
      /\ E = EntryWith(e, cov, C(i), CapAfter(e, row, i))
      /\ DOMAIN C(i) = known \cup New(i)
      /\ EntryAfter(e, row, i + 1) = EntryWith(e, cov, C(i + 1), CapAfter(e, row, i + 1))
  BY DEF EntryAfter, EntryWith, CapAfter, CandsAfter
<1>3. Cardinality(DOMAIN E.cands) = SizeAfter(e, row, i)
  BY <1>2 DEF SizeAfter
<1>4. \A u : CandAfter(e, row, i, u)
               = CASE u \in New(i) -> [FreshCand EXCEPT !.q = QIn(row, u)]
                   [] u \notin New(i) /\ u \in seen -> Blend(e.cands[u], QIn(row, u))
                   [] OTHER -> Old(u)
  BY DEF CandAfter
<1>5. \A u : CandAfter(e, row, i + 1, u)
               = CASE u \in New(i + 1) -> [FreshCand EXCEPT !.q = QIn(row, u)]
                   [] u \notin New(i + 1) /\ u \in seen \cup {t} ->
                         Blend(e.cands[u], QIn(row, u))
                   [] OTHER -> Old(u)
  BY <1>1 DEF CandAfter
<1> HIDE DEF New, seen, Old
<1>6. \A u : u # t => CandAfter(e, row, i + 1, u) = CandAfter(e, row, i, u)
  <2> TAKE u
  <2> HAVE u # t
  <2>1. u \in New(i + 1) <=> u \in New(i)
    BY <1>1
  <2>2. u \in seen \cup {t} <=> u \in seen
    OBVIOUS
  <2> QED
    BY <2>1, <2>2, <1>4, <1>5
<1>7. CASE t \in known
  <2>1. New(i + 1) = New(i)
    BY <1>1, <1>7 DEF Admitted
  <2>2. CandAfter(e, row, i, t) = e.cands[t]
    BY <1>1, <1>4 DEF Old
  <2>3. CandAfter(e, row, i + 1, t) = Blend(e.cands[t], x.q)
    BY <1>1, <1>5, <2>1
  <2>4. C(i + 1) = [C(i) EXCEPT ![t] = Blend(C(i)[t], x.q)]
    BY <2>1, <2>2, <2>3, <1>6, <1>7 DEF CandsAfter, New
  <2>5. CapAfter(e, row, i + 1) = CapAfter(e, row, i)
    BY <2>1 DEF CapAfter, SizeAfter, New
  <2>6. Changed(E, C(i + 1)) = EntryWith(e, cov, C(i + 1), CapAfter(e, row, i))
    <3> HIDE DEF C, E, cov
    <3>1. E = EntryWith(e, cov, C(i), CapAfter(e, row, i))
      BY <1>2
    <3> QED
      BY <3>1, EntryRecord
  <2>7. MergePass(E, x) = EntryWith(e, cov, C(i + 1), CapAfter(e, row, i))
    <3>1. CASE x.q = Unseen
      <4>1. MergePass(E, x) = E
        BY <3>1 DEF MergePass
      <4>2. C(i + 1) = C(i)
        BY <2>4, <3>1 DEF Blend, CandsAfter
      <4> HIDE DEF C, E, cov
      <4> QED
        BY <4>1, <4>2, <1>2
    <3>2. CASE x.q # Unseen
      <4>1. MergePass(E, x) = [E EXCEPT !.cands[t] = Blend(@, x.q)]
        BY <3>2, <1>2, <1>7 DEF MergePass
      <4> HIDE DEF C, E, cov
      <4> QED
        BY <4>1, <2>4, <2>6, <1>2 DEF Changed
    <3> QED
      BY <3>1, <3>2
  <2> QED
    BY <2>5, <2>7, <1>2 DEF E
<1>8. CASE t \notin known /\ x.q = Unseen
  <2>1. New(i + 1) = New(i)
    BY <1>1, <1>8 DEF Admitted
  <2>2. C(i + 1) = C(i)
    <3>1. \A u \in known \cup New(i) : u # t
      BY <1>1, <1>8
    <3> QED
      BY <3>1, <2>1, <1>6 DEF CandsAfter, New
  <2>3. CapAfter(e, row, i + 1) = CapAfter(e, row, i)
    BY <2>1 DEF CapAfter, SizeAfter, New
  <2>4. MergePass(E, x) = E
    BY <1>8 DEF MergePass
  <2> QED
    BY <2>2, <2>3, <2>4, <1>2
<1>9. CASE t \notin known /\ x.q # Unseen
  <2> DEFINE full  == SizeAfter(e, row, i) >= CapAfter(e, row, i)
             wants == cov < CovTarget /\ CapAfter(e, row, i) < KMax
  <2>1. t \notin DOMAIN E.cands
    BY <1>1, <1>2, <1>9
  <2>2. WantsGrowth(E) <=> wants
    BY <1>2 DEF WantsGrowth
  <2>3. /\ i + 1 \in Admitted(e, row, RoomFor(e, row)) =>
              /\ full => wants
              /\ CapAfter(e, row, i + 1) = IF full THEN Lesser(KMax, 2 * CapAfter(e, row, i))
                                           ELSE CapAfter(e, row, i)
        /\ i + 1 \notin Admitted(e, row, RoomFor(e, row)) => full /\ ~wants
    BY <1>1, <1>9, GrowthFacts
  <2> HIDE DEF full, wants
  <2>4. /\ full /\ ~wants => MergePass(E, x) = E
        /\ ~(full /\ ~wants) =>
              MergePass(E, x)
                = [E EXCEPT !.cap = IF full THEN Lesser(KMax, 2 * E.cap) ELSE E.cap,
                            !.cands = WithCand(E.cands, t, [FreshCand EXCEPT !.q = x.q])]
    BY <2>1, <2>2, <1>3, <1>2, <1>9 DEF MergePass, full
  <2>5. CASE i + 1 \in Admitted(e, row, RoomFor(e, row))
    <3>1. New(i + 1) = New(i) \cup {t}
      BY <1>1, <2>5
    <3>2. CandAfter(e, row, i + 1, t) = [FreshCand EXCEPT !.q = x.q]
      BY <3>1, <1>1, <1>5
    <3>3. C(i + 1) = WithCand(C(i), t, [FreshCand EXCEPT !.q = x.q])
      <4>1. \A u \in known \cup New(i) : u # t
        BY <1>1, <1>9
      <4> QED
        BY <4>1, <3>1, <3>2, <1>6 DEF CandsAfter, WithCand, New
    <3> HIDE DEF C, E, cov
    <3>4. MergePass(E, x) = EntryWith(e, cov, C(i + 1), CapAfter(e, row, i + 1))
      <4>1. MergePass(E, x) = Grew(E, CapAfter(e, row, i + 1), C(i + 1))
        BY <2>3, <2>4, <2>5, <3>3, <1>2 DEF Grew
      <4>2. E = EntryWith(e, cov, C(i), CapAfter(e, row, i))
        BY <1>2
      <4>3. Grew(E, CapAfter(e, row, i + 1), C(i + 1))
              = EntryWith(e, cov, C(i + 1), CapAfter(e, row, i + 1))
        BY <4>2, EntryRecord
      <4> QED
        BY <4>1, <4>3
    <3> QED
      BY <3>4, <1>2 DEF E
  <2>6. CASE i + 1 \notin Admitted(e, row, RoomFor(e, row))
    <3>1. New(i + 1) = New(i)
      BY <1>1, <2>6
    <3>3. C(i + 1) = C(i)
      <4>1. \A u \in known \cup New(i) : u # t
        BY <1>1, <1>9
      <4> QED
        BY <4>1, <3>1, <1>6 DEF CandsAfter, New
    <3>4. CapAfter(e, row, i + 1) = CapAfter(e, row, i)
      BY <3>1 DEF CapAfter, SizeAfter, New
    <3> HIDE DEF C, E, cov
    <3> QED
      BY <2>3, <2>4, <2>6, <3>3, <3>4, <1>2 DEF E
  <2> QED
    BY <2>5, <2>6
<1> QED
  BY <1>7, <1>8, <1>9

\* merge_topk in closed form is its loop.
LEMMA MergeEqualsLoop ==
    ASSUME NEW e \in Entries, FitsCap(e), NEW row \in TopkRows, EachOnce(row)
    PROVE  MergeTopk(e, row) = MergeReference(e, row)
<1>1. CASE row = <<>>
  BY <1>1 DEF MergeTopk, MergeReference
<1>2. CASE row # <<>>
  <2> DEFINE b == BeforeLoop(e, row)
             Loops(f) == f = [i \in 0..Len(row) |->
                                IF i = 0 THEN b ELSE MergePass(f[i - 1], row[i])]
             f == [i \in 0..Len(row) |-> EntryAfter(e, row, i)]
             g == CHOOSE h : Loops(h)
  <2>1. Len(row) \in Nat
    BY DEF TopkRows
  <2>2. ASSUME NEW i \in 0..Len(row)
        PROVE  f[i] = IF i = 0 THEN b ELSE MergePass(f[i - 1], row[i])
    <3>1. CASE i = 0
      BY <3>1, <1>2, LoopStarts
    <3>2. CASE i # 0
      <4>1. i - 1 \in 0..Len(row) - 1 /\ i - 1 \in 0..Len(row) /\ (i - 1) + 1 = i
        BY <3>2, <2>1
      <4>2. MergePass(EntryAfter(e, row, i - 1), row[(i - 1) + 1])
              = EntryAfter(e, row, (i - 1) + 1)
        BY <4>1, <1>2, LoopPass
      <4> QED
        BY <4>1, <4>2, <3>2
    <3> QED
      BY <3>1, <3>2
  <2>3. Loops(f)
    BY <2>2
  <2>4. Loops(g)
    <3> HIDE DEF f, Loops
    <3> QED
      BY <2>3
  <2> DEFINE T == {i \in 0..Len(row) : g[i] = f[i]}
  <2>5. \A i \in 0..Len(row) : g[i] = IF i = 0 THEN b ELSE MergePass(g[i - 1], row[i])
    <3> HIDE DEF g
    <3> QED
      BY <2>4
  <2> HIDE DEF f, g
  <2>6. 0 \in T
    BY <2>1, <2>2, <2>5
  <2>7. ASSUME NEW i \in 0..Len(row) - 1, i \in T PROVE i + 1 \in T
    <3>1. i + 1 \in 0..Len(row) /\ i + 1 # 0 /\ (i + 1) - 1 = i
      BY <2>1
    <3>2. /\ g[i + 1] = MergePass(g[i], row[i + 1])
          /\ f[i + 1] = MergePass(f[i], row[i + 1])
      BY <3>1, <2>2, <2>5
    <3> QED
      BY <3>1, <3>2, <2>7
  <2> HIDE DEF T
  <2>8. Len(row) \in T
    <3>1. 0..Len(row) \subseteq T
      BY <2>1, <2>6, <2>7, UpTo
    <3> QED
      BY <2>1, <3>1
  <2>9. g[Len(row)] = EntryAfter(e, row, Len(row))
    BY <2>1, <2>8 DEF T, f
  <2>10. MergeReference(e, row) = g[Len(row)]
    BY <1>2 DEF MergeReference, MergeLoop, g
  <2> QED
    BY <2>9, <2>10, <1>2, LoopEnds
<1> QED
  BY <1>1, <1>2

\* For every row, on every entry the methods lead to, the closed form of
\* merge_topk that the other modules use is the loop of the code.
THEOREM MergeAsLoop == Spec => []MergeIsLoop
<1>1. Sound => MergeIsLoop
  BY MergeEqualsLoop, HotEntryConstants DEF Sound, MergeIsLoop
<1> QED
  BY <1>1, SoundInit, SoundStep, PTL DEF Spec
=============================================================================
