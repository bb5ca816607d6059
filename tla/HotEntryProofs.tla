--------------------------- MODULE HotEntryProofs ---------------------------
(***************************************************************************)
(* What the operators of HotEntryOps return, for all values of the         *)
(* constants: every update of an entry is an entry again, keeps its epoch  *)
(* and domain, and never holds more candidates than its cap.               *)
(***************************************************************************)
EXTENDS HotEntryOps, FiniteSetTheorems, WellFoundedInduction, TLAPS

\* A nonempty set of naturals has a least element.
LEMMA LeastNatural ==
    ASSUME NEW S \in SUBSET Nat, S # {}
    PROVE  \E m \in S : \A n \in S : m <= n
<1>1. \E m \in S : \A n \in S : ~ (<<n, m>> \in OpToRel(<, Nat))
  BY WFMin, NatLessThanWellFounded
<1>2. \A m, n \in Nat : n < m => <<n, m>> \in OpToRel(<, Nat)
  BY DEF OpToRel
<1>3. \A m, n \in Nat : ~ (n < m) => m <= n
  OBVIOUS
<1> QED
  BY <1>1, <1>2, <1>3

\* A set of tokens is finite.
LEMMA TokenSetsFinite ==
    ASSUME NEW S \in SUBSET Tokens
    PROVE  IsFiniteSet(S) /\ Cardinality(S) \in Nat
<1>1. IsFiniteSet(Tokens)
  BY FS_Interval, TypeConstants DEF Tokens
<1>2. IsFiniteSet(S)
  BY <1>1, FS_Subset
<1> QED
  BY <1>2, FS_CardinalityType

\* A table of candidates maps tokens to candidates.
LEMMA CandTableFacts ==
    ASSUME NEW cands \in CandTables
    PROVE  /\ DOMAIN cands \subseteq Tokens
           /\ cands \in [DOMAIN cands -> Cand]
           /\ IsFiniteSet(DOMAIN cands)
           /\ Cardinality(DOMAIN cands) \in Nat
<1>1. PICK S \in SUBSET Tokens : cands \in [S -> Cand]
  BY DEF CandTables
<1> QED
  BY <1>1, TokenSetsFinite

\* A function from tokens to candidates is a table of candidates.
LEMMA CandTableIntro ==
    ASSUME NEW S \in SUBSET Tokens, NEW f \in [S -> Cand]
    PROVE  f \in CandTables
  BY DEF CandTables

-----------------------------------------------------------------------------
\* Among the candidates that may go there is a weakest one.
LEMMA WeakestExists ==
    ASSUME NEW cands \in CandTables, NEW pool \in SUBSET (DOMAIN cands), pool # {}
    PROVE  \E t \in pool : IsWeakest(cands, t, pool)
<1> DEFINE QGap(t) == QMax + 1 - QRank(cands[t])
<1>1. \A t \in pool : /\ Support(cands[t]) \in Nat
                      /\ QRank(cands[t]) \in 0..QMax + 1
                      /\ QGap(t) \in Nat
                      /\ t \in 0..MaxTok
  BY CandTableFacts, TypeConstants, EntryConstants DEF Support, QRank, Cand, Unseen, Tokens
<1> DEFINE Supports == {Support(cands[t]) : t \in pool}
<1>2. PICK s \in Supports : \A n \in Supports : s <= n
  <2>1. Supports \in SUBSET Nat /\ Supports # {}
    BY <1>1
  <2> HIDE DEF Supports
  <2> QED
    BY <2>1, LeastNatural
<1> DEFINE Fewest == {t \in pool : Support(cands[t]) = s}
           Gaps == {QGap(t) : t \in Fewest}
<1>3. PICK g \in Gaps : \A n \in Gaps : g <= n
  <2>1. Gaps \in SUBSET Nat /\ Gaps # {}
    BY <1>1, <1>2
  <2> HIDE DEF Gaps
  <2> QED
    BY <2>1, LeastNatural
<1> DEFINE Unlikely == {t \in Fewest : QGap(t) = g}
           Rests == {MaxTok - t : t \in Unlikely}
<1>4. PICK r \in Rests : \A n \in Rests : r <= n
  <2>1. Rests \in SUBSET Nat /\ Rests # {}
    BY <1>1, <1>3, TypeConstants
  <2> HIDE DEF Rests
  <2> QED
    BY <2>1, LeastNatural
<1>5. PICK t \in Unlikely : r = MaxTok - t
  BY <1>4
<1>6. ASSUME NEW u \in pool \ {t}
      PROVE  Weaker(cands, t, u)
  <2>1. Support(cands[t]) = s /\ QGap(t) = g /\ t \in pool
    BY <1>5
  <2>2. s <= Support(cands[u])
    BY <1>2, <1>6
  <2>3. CASE Support(cands[u]) # s
    BY <2>1, <2>2, <2>3, <1>1, <1>6 DEF Weaker
  <2>4. CASE Support(cands[u]) = s /\ QGap(u) # g
    <3>1. g <= QGap(u)
      BY <1>3, <1>6, <2>4
    <3>2. QRank(cands[t]) > QRank(cands[u])
      BY <3>1, <2>1, <2>4, <1>1, <1>6, TypeConstants
    <3> QED
      BY <3>2, <2>1, <2>4 DEF Weaker
  <2>5. CASE Support(cands[u]) = s /\ QGap(u) = g
    <3>1. MaxTok - t <= MaxTok - u
      BY <1>4, <1>5, <1>6, <2>5
    <3>2. t > u
      BY <3>1, <2>1, <1>1, <1>6, TypeConstants
    <3>3. QRank(cands[t]) = QRank(cands[u])
      BY <2>1, <2>5, <1>1, <1>6, TypeConstants
    <3> QED
      BY <3>2, <3>3, <2>1, <2>5 DEF Weaker
  <2> QED
    BY <2>3, <2>4, <2>5
<1> QED
  BY <1>5, <1>6 DEF IsWeakest

-----------------------------------------------------------------------------
\* Eviction drops exactly one candidate, never the protected one.
LEMMA EvictWeakestFacts ==
    ASSUME NEW cands \in CandTables, NEW protect, DOMAIN cands \ {protect} # {}
    PROVE  /\ EvictWeakest(cands, protect) \in CandTables
           /\ DOMAIN EvictWeakest(cands, protect) \subseteq DOMAIN cands
           /\ Cardinality(DOMAIN EvictWeakest(cands, protect))
                = Cardinality(DOMAIN cands) - 1
<1> DEFINE pool == DOMAIN cands \ {protect}
           victim == CHOOSE t \in pool : IsWeakest(cands, t, pool)
           kept == DOMAIN cands \ {victim}
<1>1. victim \in DOMAIN cands
  <2>1. \E t \in pool : IsWeakest(cands, t, pool)
    BY WeakestExists
  <2> QED
    BY <2>1
<1>2. EvictWeakest(cands, protect) = [t \in kept |-> cands[t]]
  BY DEF EvictWeakest
<1>3. [t \in kept |-> cands[t]] \in CandTables
  <2>1. kept \in SUBSET Tokens /\ [t \in kept |-> cands[t]] \in [kept -> Cand]
    BY CandTableFacts
  <2> QED
    BY <2>1, CandTableIntro
<1>4. Cardinality(kept) = Cardinality(DOMAIN cands) - 1
  BY <1>1, CandTableFacts, FS_RemoveElement
<1> QED
  BY <1>2, <1>3, <1>4

LEMMA FreshCandType == FreshCand \in Cand
  BY EntryConstants, TypeConstants DEF FreshCand, Cand, Unseen

\* Adding a fresh candidate to a table that has none for the token.
LEMMA AddFreshFacts ==
    ASSUME NEW cands \in CandTables, NEW tok \in Tokens \ DOMAIN cands
    PROVE  /\ WithCand(cands, tok, FreshCand) \in CandTables
           /\ tok \in DOMAIN WithCand(cands, tok, FreshCand)
           /\ Cardinality(DOMAIN WithCand(cands, tok, FreshCand))
                = Cardinality(DOMAIN cands) + 1
<1> DEFINE f == WithCand(cands, tok, FreshCand)
<1>1. /\ DOMAIN cands \cup {tok} \in SUBSET Tokens
      /\ f \in [DOMAIN cands \cup {tok} -> Cand]
  BY CandTableFacts, FreshCandType DEF WithCand
<1> HIDE DEF f
<1>2. f \in CandTables
  BY <1>1, CandTableIntro
<1>3. Cardinality(DOMAIN f) = Cardinality(DOMAIN cands) + 1
  BY <1>1, CandTableFacts, FS_AddElement
<1>4. tok \in DOMAIN f
  BY <1>1
<1> QED
  BY <1>2, <1>3, <1>4 DEF f

\* What an update keeps: the type, the binding to an epoch, and the cap.
Keeps(e, f) ==
    /\ f \in Entries
    /\ f.dom = e.dom /\ f.epoch = e.epoch
    /\ FitsCap(f)

\* Every update is of this form: new candidates under a new or the old cap.
LEMMA KeepsIntro ==
    ASSUME NEW e \in Entries, NEW cands \in CandTables, NEW cap \in KInit..KMax,
           Cardinality(DOMAIN cands) <= cap,
           NEW f, f.dom = e.dom, f.epoch = e.epoch,
           f.cap = cap, f.cands = cands, f \in Entries
    PROVE  Keeps(e, f)
  BY DEF Keeps, FitsCap

\* Replacing the candidates of an entry.
LEMMA ReplaceCands ==
    ASSUME NEW e \in Entries, NEW cands \in CandTables,
           NEW f, f = [e EXCEPT !.cands = cands]
    PROVE  /\ f \in Entries /\ f.cands = cands /\ f.cap = e.cap
           /\ f.dom = e.dom /\ f.epoch = e.epoch /\ f.cov = e.cov
  BY DEF Entries

\* A table without candidates.
LEMMA NoCandsFacts ==
    NoCands \in CandTables /\ DOMAIN NoCands = {} /\ Cardinality(DOMAIN NoCands) = 0
<1>1. NoCands \in [{} -> Cand] /\ DOMAIN NoCands = {}
  BY DEF NoCands
<1> QED
  BY <1>1, CandTableIntro, FS_EmptySet

\* A new entry is an empty entry of the epoch given.
LEMMA NewEntryFacts ==
    ASSUME NEW dom \in Domains, NEW epoch \in Nat
    PROVE  /\ NewEntry(dom, epoch) \in Entries
           /\ NewEntry(dom, epoch).dom = dom /\ NewEntry(dom, epoch).epoch = epoch
           /\ FitsCap(NewEntry(dom, epoch))
<1>1. NewEntry(dom, epoch) \in Entries
  BY NoCandsFacts, EntryConstants DEF NewEntry, Entries
<1>2. NewEntry(dom, epoch).cands = NoCands /\ NewEntry(dom, epoch).cap = KInit
  BY DEF NewEntry
<1>3. FitsCap(NewEntry(dom, epoch))
  BY <1>2, NoCandsFacts, EntryConstants DEF FitsCap
<1> QED
  BY <1>1, <1>3 DEF NewEntry

\* So is an entry that was reset.
LEMMA ResetFacts ==
    ASSUME NEW e \in Entries, NEW dom \in Domains, NEW epoch \in Nat
    PROVE  /\ Reset(e, dom, epoch) \in Entries
           /\ Reset(e, dom, epoch).dom = dom /\ Reset(e, dom, epoch).epoch = epoch
           /\ FitsCap(Reset(e, dom, epoch))
<1> DEFINE f == Reset(e, dom, epoch)
<1>1. /\ f.dom = dom /\ f.epoch = epoch
      /\ f.cands = NoCands /\ f.cap = e.cap
  BY DEF Reset, Entries
<1>2. f \in Entries
  BY NoCandsFacts, EntryConstants DEF Reset, Entries
<1> HIDE DEF f
<1>3. FitsCap(f)
  <2>1. f.cap \in Nat
    BY <1>2, EntryConstants DEF Entries
  <2> QED
    BY <2>1, <1>1, NoCandsFacts DEF FitsCap
<1> QED
  BY <1>1, <1>2, <1>3 DEF f

\* _ensure makes tok a candidate, growing the cap or evicting as needed.
LEMMA EnsureFacts ==
    ASSUME NEW e \in Entries, FitsCap(e), NEW tok \in Tokens
    PROVE  Keeps(e, Ensure(e, tok)) /\ tok \in DOMAIN Ensure(e, tok).cands
<1> DEFINE n == Cardinality(DOMAIN e.cands)
<1>1. /\ e.cands \in CandTables /\ e.cap \in KInit..KMax
      /\ n \in Nat /\ n <= e.cap /\ IsFiniteSet(DOMAIN e.cands)
  BY CandTableFacts DEF Entries, FitsCap
<1>2. CASE tok \in DOMAIN e.cands
  BY <1>2 DEF Ensure, Keeps
<1>3. CASE tok \notin DOMAIN e.cands /\ ~ (n >= e.cap)
  <2> DEFINE cands == WithCand(e.cands, tok, FreshCand)
             f == [e EXCEPT !.cands = cands]
  <2>1. Ensure(e, tok) = f
    BY <1>3 DEF Ensure
  <2>2. /\ cands \in CandTables /\ tok \in DOMAIN cands
        /\ Cardinality(DOMAIN cands) = n + 1
    BY <1>1, <1>3, AddFreshFacts
  <2>3. n + 1 <= e.cap
    BY <1>1, <1>3, EntryConstants
  <2> HIDE DEF cands, n
  <2>4. /\ f \in Entries /\ f.cands = cands /\ f.cap = e.cap
        /\ f.dom = e.dom /\ f.epoch = e.epoch
    BY <2>2, <1>1, ReplaceCands
  <2> HIDE DEF f
  <2> QED
    BY <2>1, <2>2, <2>3, <2>4, <1>1, KeepsIntro
<1>4. CASE tok \notin DOMAIN e.cands /\ n >= e.cap /\ WantsGrowth(e)
  <2> DEFINE cap == Lesser(KMax, 2 * e.cap)
             cands == WithCand(e.cands, tok, FreshCand)
             f == [e EXCEPT !.cap = cap, !.cands = cands]
  <2>1. Ensure(e, tok) = f
    BY <1>4 DEF Ensure
  <2>2. cap \in KInit..KMax /\ n + 1 <= cap
    BY <1>1, <1>4, EntryConstants DEF Lesser, WantsGrowth
  <2>3. /\ cands \in CandTables /\ tok \in DOMAIN cands
        /\ Cardinality(DOMAIN cands) = n + 1
    BY <1>1, <1>4, AddFreshFacts
  <2> HIDE DEF cands, n, cap, f
  <2>4. /\ f \in Entries /\ f.cands = cands /\ f.cap = cap
        /\ f.dom = e.dom /\ f.epoch = e.epoch
    BY <2>2, <2>3 DEF Entries, f
  <2> QED
    BY <2>1, <2>2, <2>3, <2>4, <1>1, KeepsIntro
<1>5. CASE tok \notin DOMAIN e.cands /\ n >= e.cap /\ ~WantsGrowth(e)
  <2> DEFINE left == EvictWeakest(e.cands, tok)
             cands == WithCand(left, tok, FreshCand)
             f == [e EXCEPT !.cands = cands]
  <2>1. Ensure(e, tok) = f
    BY <1>5 DEF Ensure
  <2>2. DOMAIN e.cands \ {tok} # {}
    <3>1. DOMAIN e.cands # {}
      BY <1>1, <1>5, EntryConstants, FS_EmptySet
    <3> QED
      BY <3>1, <1>5
  <2>3. /\ left \in CandTables /\ tok \notin DOMAIN left
        /\ Cardinality(DOMAIN left) = n - 1
    BY <2>2, <1>1, <1>5, EvictWeakestFacts
  <2> HIDE DEF left
  <2>4. /\ cands \in CandTables /\ tok \in DOMAIN cands
        /\ Cardinality(DOMAIN cands) = (n - 1) + 1
    BY <2>3, AddFreshFacts
  <2> HIDE DEF cands
  <2>5. /\ f \in Entries /\ f.cands = cands /\ f.cap = e.cap
        /\ f.dom = e.dom /\ f.epoch = e.epoch
    BY <2>4, <1>1, ReplaceCands
  <2> HIDE DEF f
  <2>6. Cardinality(DOMAIN cands) <= e.cap
    BY <2>4, <1>1, EntryConstants
  <2> QED
    BY <2>1, <2>4, <2>5, <2>6, <1>1, KeepsIntro
<1> QED
  BY <1>2, <1>3, <1>4, <1>5

\* Counting an observation saturates.
LEMMA SaturateType ==
    ASSUME NEW n \in 0..CountMax
    PROVE  Saturate(n) \in 0..CountMax
  BY EntryConstants DEF Saturate, Lesser

\* update_realized and update_rejected keep what _ensure keeps.
LEMMA UpdateFacts ==
    ASSUME NEW e \in Entries, FitsCap(e), NEW tok \in Tokens
    PROVE  Keeps(e, UpdateRealized(e, tok)) /\ Keeps(e, UpdateRejected(e, tok))
<1> DEFINE f == Ensure(e, tok)
           c == f.cands[tok]
           Changed(d) == [f.cands EXCEPT ![tok] = d]
<1>1. /\ Keeps(e, f) /\ f \in Entries /\ f.cands \in CandTables
      /\ tok \in DOMAIN f.cands /\ f.cap \in KInit..KMax
  BY EnsureFacts DEF Keeps, Entries
<1> HIDE DEF f
<1>2. c \in Cand /\ Cardinality(DOMAIN f.cands) <= f.cap
  BY <1>1, CandTableFacts DEF Keeps, FitsCap
<1>3. \A d \in Cand : Changed(d) \in CandTables /\ DOMAIN Changed(d) = DOMAIN f.cands
  <2> SUFFICES ASSUME NEW d \in Cand
               PROVE  Changed(d) \in CandTables /\ DOMAIN Changed(d) = DOMAIN f.cands
    OBVIOUS
  <2>1. DOMAIN f.cands \in SUBSET Tokens /\ Changed(d) \in [DOMAIN f.cands -> Cand]
    BY <1>1, CandTableFacts
  <2> QED
    BY <2>1, CandTableIntro
<1>4. ASSUME NEW d \in Cand
      PROVE  Keeps(e, [f EXCEPT !.cands = Changed(d)])
  <2> DEFINE g == [f EXCEPT !.cands = Changed(d)]
  <2>1. Changed(d) \in CandTables /\ Cardinality(DOMAIN Changed(d)) <= f.cap
    BY <1>2, <1>3
  <2> HIDE DEF Changed
  <2>2. /\ g \in Entries /\ g.cands = Changed(d) /\ g.cap = f.cap
        /\ g.dom = f.dom /\ g.epoch = f.epoch
    BY <2>1, <1>1, ReplaceCands
  <2> HIDE DEF g
  <2>3. g.dom = e.dom /\ g.epoch = e.epoch
    BY <2>2, <1>1 DEF Keeps
  <2>4. Keeps(e, g)
    BY <2>1, <2>2, <2>3, <1>1, KeepsIntro
  <2> QED
    BY <2>4 DEF g
<1>5. /\ [c EXCEPT !.acc = Saturate(@)] \in Cand
      /\ [c EXCEPT !.rej = Saturate(@)] \in Cand
  <2>1. c.acc \in 0..CountMax /\ c.rej \in 0..CountMax
    BY <1>2 DEF Cand
  <2>2. Saturate(c.acc) \in 0..CountMax /\ Saturate(c.rej) \in 0..CountMax
    BY <2>1, SaturateType
  <2> HIDE DEF c
  <2> QED
    BY <1>2, <2>2 DEF Cand
<1>6. /\ UpdateRealized(e, tok) = [f EXCEPT !.cands = Changed([c EXCEPT !.acc = Saturate(@)])]
      /\ UpdateRejected(e, tok) = [f EXCEPT !.cands = Changed([c EXCEPT !.rej = Saturate(@)])]
  BY DEF UpdateRealized, UpdateRejected, f
<1> HIDE DEF c, Changed
<1> QED
  BY <1>4, <1>5, <1>6
-----------------------------------------------------------------------------
\* Induction up to a number.
LEMMA UpTo ==
    ASSUME NEW n \in Nat, NEW S, 0 \in S, \A i \in 0..n - 1 : i \in S => i + 1 \in S
    PROVE  0..n \subseteq S
<1> SUFFICES ASSUME (0..n) \ S # {} PROVE FALSE
  OBVIOUS
<1> DEFINE M == (0..n) \ S
<1>1. PICK m \in M : \A k \in M : m <= k
  <2>1. M \in SUBSET Nat /\ M # {}
    OBVIOUS
  <2> HIDE DEF M
  <2> QED
    BY <2>1, LeastNatural
<1>2. m # 0 /\ m - 1 \in 0..n - 1 /\ m - 1 \in 0..n
  OBVIOUS
<1>3. m - 1 \in S
  BY <1>1, <1>2
<1>4. (m - 1) + 1 \in S
  BY <1>2, <1>3
<1> QED
  BY <1>1, <1>4

\* f doubles caps from low on until n candidates fit.
Doubles(f, low, n) ==
    f = [c \in low..KMax |-> IF n <= c \/ c = KMax THEN c ELSE f[Lesser(KMax, 2 * c)]]

\* What is doubled is a larger cap.
LEMMA DoubledCap ==
    ASSUME NEW c \in 1..KMax, c # KMax
    PROVE  Lesser(KMax, 2 * c) \in c + 1..KMax
BY EntryConstants DEF Lesser

\* Such a function exists.
LEMMA DoublesExists ==
    ASSUME NEW k \in KInit..KMax, NEW n
    PROVE  \E f : Doubles(f, k, n)
<1> DEFINE T == {i \in 0..KMax - k : \E f : Doubles(f, KMax - i, n)}
<1>1. k \in 1..KMax /\ KMax \in Nat /\ KMax - k \in Nat
  BY EntryConstants
<1>2. 0 \in T
  <2> DEFINE f == [c \in KMax..KMax |-> KMax]
  <2>1. f = [c \in KMax..KMax |-> IF n <= c \/ c = KMax THEN c ELSE f[Lesser(KMax, 2 * c)]]
    BY <1>1
  <2>2. KMax - 0 = KMax
    BY <1>1
  <2> HIDE DEF f
  <2>3. Doubles(f, KMax - 0, n)
    BY <2>1, <2>2 DEF Doubles
  <2> QED
    BY <2>3, <1>1
<1>3. ASSUME NEW i \in 0..(KMax - k) - 1, i \in T PROVE i + 1 \in T
  <2> DEFINE high == KMax - i
             low  == KMax - (i + 1)
  <2>1. PICK g : Doubles(g, high, n)
    BY <1>3
  <2> DEFINE Val(h, c) == IF n <= c \/ c = KMax THEN c ELSE h[Lesser(KMax, 2 * c)]
             f == [c \in low..KMax |-> IF c = low THEN Val(g, c) ELSE g[c]]
  <2>2. low \in 1..KMax /\ low # KMax /\ high = low + 1 /\ i + 1 \in 0..KMax - k
        /\ high \in 1..KMax /\ KMax \in Nat /\ low \in Nat /\ high \in Nat
    BY <1>1
  <2> HIDE DEF low, high
  <2>3. g = [c \in high..KMax |-> Val(g, c)]
    BY <2>1 DEF Doubles
  <2>4. \A c \in high..KMax : f[c] = g[c] /\ g[c] = Val(g, c)
    <3>1. \A c \in high..KMax : c \in low..KMax /\ c # low
      BY <2>2
    <3>2. \A c \in high..KMax : f[c] = g[c]
      BY <3>1
    <3>3. \A c \in high..KMax : g[c] = Val(g, c)
      BY <2>3
    <3> QED
      BY <3>2, <3>3
  <2>5. ASSUME NEW c \in low..KMax PROVE f[c] = Val(f, c)
    <3>1. c \in 1..KMax /\ (c # KMax => Lesser(KMax, 2 * c) \in high..KMax)
      <4>1. c \in 1..KMax
        BY <2>2
      <4>2. c # KMax => Lesser(KMax, 2 * c) \in c + 1..KMax
        BY <4>1, DoubledCap
      <4> QED
        BY <4>1, <4>2, <2>2
    <3>2. Val(g, c) = Val(f, c)
      BY <3>1, <2>4
    <3>3. f[c] = Val(g, c)
      <4>1. CASE c = low
        BY <4>1
      <4>2. CASE c # low
        <5>1. c \in high..KMax
          BY <4>2, <2>2
        <5> QED
          BY <5>1, <2>4
      <4> QED
        BY <4>1, <4>2
    <3> QED
      BY <3>2, <3>3
  <2>6. f = [c \in low..KMax |-> Val(f, c)]
    <3>1. f = [c \in low..KMax |-> f[c]]
      OBVIOUS
    <3> QED
      BY <3>1, <2>5
  <2> HIDE DEF f
  <2>7. Doubles(f, low, n)
    BY <2>6 DEF Doubles
  <2> QED
    BY <2>7, <2>2 DEF low
<1> HIDE DEF T
<1>4. 0..KMax - k \subseteq T
  BY <1>1, <1>2, <1>3, UpTo
<1>5. KMax - k \in T /\ KMax - (KMax - k) = k
  BY <1>1, <1>4
<1> QED
  BY <1>5 DEF T

\* That function, for n candidates.
Grown(k, n) == CHOOSE f : Doubles(f, k, n)

\* The function by which GrownCap doubles.
LEMMA GrownFacts ==
    ASSUME NEW k \in KInit..KMax, NEW n
    PROVE  /\ GrownCap(k, n) = Grown(k, n)[k]
           /\ \A c \in k..KMax :
                /\ Grown(k, n)[c] = IF n <= c \/ c = KMax THEN c
                                    ELSE Grown(k, n)[Lesser(KMax, 2 * c)]
                /\ c # KMax => Lesser(KMax, 2 * c) \in c + 1..KMax
                /\ c \in Nat
<1>1. Doubles(Grown(k, n), k, n)
  BY DoublesExists DEF Grown
<1>2. GrownCap(k, n) = Grown(k, n)[k]
  BY DEF GrownCap, Grown, Doubles
<1>3. \A c \in k..KMax : c \in 1..KMax
  BY EntryConstants
<1>4. \A c \in k..KMax : Grown(k, n)[c] = IF n <= c \/ c = KMax THEN c
                                    ELSE Grown(k, n)[Lesser(KMax, 2 * c)]
  BY <1>1 DEF Doubles
<1> QED
  BY <1>2, <1>3, <1>4, DoubledCap

\* What holds of a cap if it holds of all larger ones holds of all caps.
LEMMA DownFrom ==
    ASSUME NEW k \in KInit..KMax, NEW T,
           \A c \in k..KMax : (\A d \in c + 1..KMax : d \in T) => c \in T
    PROVE  k..KMax \subseteq T
<1> SUFFICES ASSUME (k..KMax) \ T # {} PROVE FALSE
  OBVIOUS
<1> DEFINE Gaps == {KMax - c : c \in (k..KMax) \ T}
<1>1. PICK g \in Gaps : \A h \in Gaps : g <= h
  <2>1. Gaps \in SUBSET Nat /\ Gaps # {}
    BY EntryConstants
  <2> HIDE DEF Gaps
  <2> QED
    BY <2>1, LeastNatural
<1>2. PICK c \in (k..KMax) \ T : g = KMax - c
  BY <1>1
<1>3. \A d \in (k..KMax) \ T : KMax - c <= KMax - d
  BY <1>1, <1>2
<1>4. \A d \in c + 1..KMax : d \in k..KMax /\ ~(KMax - c <= KMax - d)
  BY EntryConstants
<1>5. \A d \in c + 1..KMax : d \in T
  BY <1>3, <1>4
<1> QED
  BY <1>5

\* The cap found for n candidates is a cap, and no smaller than n needs.
LEMMA GrownCapFacts ==
    ASSUME NEW k \in KInit..KMax, NEW n \in Nat, n <= k \/ n <= KMax
    PROVE  GrownCap(k, n) \in KInit..KMax /\ n <= GrownCap(k, n)
<1> DEFINE g == Grown(k, n)
           T == {c \in k..KMax : g[c] \in KInit..KMax /\ n <= g[c]}
<1>1. KInit \in Nat /\ KMax \in Nat /\ n <= KMax /\ k \in k..KMax /\ KInit <= k
  BY EntryConstants
<1>2. ASSUME NEW c \in k..KMax, \A d \in c + 1..KMax : d \in T PROVE c \in T
  <2>1. /\ g[c] = IF n <= c \/ c = KMax THEN c ELSE g[Lesser(KMax, 2 * c)]
        /\ c # KMax => Lesser(KMax, 2 * c) \in c + 1..KMax
    BY GrownFacts
  <2> HIDE DEF g
  <2>2. CASE n <= c \/ c = KMax
    BY <2>1, <2>2, <1>1
  <2>3. CASE ~(n <= c \/ c = KMax)
    BY <2>1, <2>3, <1>2
  <2> QED
    BY <2>2, <2>3
<1> HIDE DEF T
<1>3. k \in T
  BY <1>1, <1>2, DownFrom
<1>4. GrownCap(k, n) = g[k]
  BY GrownFacts
<1> QED
  BY <1>3, <1>4 DEF T

\* One candidate more doubles the cap just when it was reached.
LEMMA GrownCapStep ==
    ASSUME NEW k \in KInit..KMax, NEW n \in Nat, n + 1 <= KMax
    PROVE  /\ n < GrownCap(k, n) => GrownCap(k, n + 1) = GrownCap(k, n)
           /\ n = GrownCap(k, n) => GrownCap(k, n + 1) = Lesser(KMax, 2 * n)
<1> DEFINE g == Grown(k, n)
           h == Grown(k, n + 1)
           T == {c \in k..KMax : /\ n < g[c] => h[c] = g[c]
                                 /\ n = g[c] => h[c] = Lesser(KMax, 2 * n)}
<1>1. KMax \in Nat /\ k \in k..KMax /\ n < KMax
  BY EntryConstants
<1>2. ASSUME NEW c \in k..KMax, \A d \in c + 1..KMax : d \in T PROVE c \in T
  <2>1. /\ g[c] = IF n <= c \/ c = KMax THEN c ELSE g[Lesser(KMax, 2 * c)]
        /\ h[c] = IF n + 1 <= c \/ c = KMax THEN c ELSE h[Lesser(KMax, 2 * c)]
        /\ c # KMax => Lesser(KMax, 2 * c) \in c + 1..KMax
        /\ c \in Nat
    BY GrownFacts
  <2>2. c # KMax => LET d == Lesser(KMax, 2 * c)
                    IN  /\ d \in k..KMax /\ c < d
                        /\ n < g[d] => h[d] = g[d]
                        /\ n = g[d] => h[d] = Lesser(KMax, 2 * n)
                        /\ h[d] = IF n + 1 <= d \/ d = KMax THEN d ELSE h[Lesser(KMax, 2 * d)]
    BY <2>1, <1>2, GrownFacts
  <2> HIDE DEF g, h
  <2>3. CASE c = KMax \/ n + 1 <= c
    BY <2>1, <2>3, <1>1
  <2>4. CASE c # KMax /\ c = n
    <3> DEFINE d == Lesser(KMax, 2 * n)
    <3>1. g[c] = n /\ h[c] = h[d] /\ c < d /\ d \in k..KMax
          /\ h[d] = IF n + 1 <= d \/ d = KMax THEN d ELSE h[Lesser(KMax, 2 * d)]
      BY <2>1, <2>2, <2>4
    <3> HIDE DEF d
    <3>2. n + 1 <= d
      BY <3>1, <2>4, <1>1
    <3> QED
      BY <3>1, <3>2 DEF d
  <2>5. CASE c # KMax /\ c < n
    <3>1. g[c] = g[Lesser(KMax, 2 * c)] /\ h[c] = h[Lesser(KMax, 2 * c)]
      BY <2>1, <2>5
    <3> QED
      BY <3>1, <2>2, <2>5
  <2> QED
    BY <2>1, <2>3, <2>4, <2>5
<1> HIDE DEF T
<1>3. k \in T
  BY <1>1, <1>2, DownFrom
<1>4. GrownCap(k, n) = g[k] /\ GrownCap(k, n + 1) = h[k]
  BY GrownFacts
<1> QED
  BY <1>3, <1>4 DEF T

\* No doubling where n candidates fit.
LEMMA GrownCapOfFew ==
    ASSUME NEW k \in KInit..KMax, NEW n, n <= k
    PROVE  GrownCap(k, n) = k
<1>1. k \in k..KMax
  BY EntryConstants
<1> QED
  BY <1>1, GrownFacts

\* No more newcomers of a row are admitted than there is room for.
LEMMA AdmittedFits ==
    ASSUME NEW e \in Entries, NEW row \in TopkRows, NEW room \in Nat
    PROVE  /\ IsFiniteSet(Admitted(e, row, room))
           /\ Cardinality(Admitted(e, row, room)) <= room
<1> DEFINE N == Newcomers(e, row)
           A == Admitted(e, row, room)
           Upto(i) == {j \in N : j <= i}
<1>1. Len(row) \in Nat /\ N \subseteq 1..Len(row) /\ A \subseteq N
  BY DEF TopkRows, Newcomers, Admitted
<1>2. IsFiniteSet(N) /\ IsFiniteSet(A)
  <2>1. IsFiniteSet(1..Len(row))
    BY <1>1, FS_Interval
  <2> HIDE DEF N, A
  <2> QED
    BY <1>1, <2>1, FS_Subset
<1>3. \A i \in A : Cardinality(Upto(i)) <= room
  BY DEF Admitted
<1>4. \A i \in A : i \in Nat /\ Len(row) - i \in Nat
  BY <1>1
<1> HIDE DEF N, A
<1>5. CASE A = {}
  BY <1>5, <1>2, FS_EmptySet DEF A
<1>6. CASE A # {}
  <2> DEFINE Ends == {Len(row) - i : i \in A}
  <2>1. PICK g \in Ends : \A n \in Ends : g <= n
    <3>1. Ends \in SUBSET Nat /\ Ends # {}
      BY <1>4, <1>6
    <3> HIDE DEF Ends
    <3> QED
      BY <3>1, LeastNatural
  <2>2. PICK m \in A : g = Len(row) - m
    BY <2>1
  <2>3. \A i \in A : i <= m
    <3> SUFFICES ASSUME NEW i \in A PROVE i <= m
      OBVIOUS
    <3>1. Len(row) - m <= Len(row) - i
      BY <2>1, <2>2
    <3>2. i \in Nat /\ m \in Nat /\ Len(row) \in Nat
      BY <1>1, <1>4
    <3> QED
      BY <3>1, <3>2
  <2>4. A \in SUBSET Upto(m) /\ Upto(m) \in SUBSET N
    BY <2>3, <1>1
  <2>5. Cardinality(Upto(m)) <= room
    BY <1>3
  <2> HIDE DEF Upto
  <2>6. IsFiniteSet(Upto(m)) /\ Cardinality(Upto(m)) \in Nat
    BY <2>4, <1>2, FS_Subset, FS_CardinalityType
  <2>7. Cardinality(A) <= Cardinality(Upto(m)) /\ Cardinality(A) \in Nat
    BY <2>4, <2>6, <1>2, FS_Subset, FS_CardinalityType
  <2> QED
    BY <2>5, <2>6, <2>7, <1>2 DEF A
<1> QED
  BY <1>5, <1>6
-----------------------------------------------------------------------------
\* A row gives each of its tokens a log-probability or none.
LEMMA RowFacts ==
    ASSUME NEW row \in TopkRows
    PROVE  /\ Len(row) \in Nat
           /\ \A i \in 1..Len(row) : row[i].tok \in Tokens
           /\ RowIds(row) \subseteq Tokens
           /\ \A t \in RowIds(row) : QIn(row, t) \in Unseen..QMax
<1> DEFINE Pairs == [tok : Tokens, q : Unseen..QMax]
<1>1. /\ Len(row) \in Nat
      /\ \A i \in 1..Len(row) : row[i] \in [tok : Tokens, q : Unseen..QMax]
  <2>1. row \in Seq(Pairs)
    BY DEF TopkRows
  <2> HIDE DEF Pairs
  <2>2. Len(row) \in Nat /\ \A i \in 1..Len(row) : row[i] \in Pairs
    BY <2>1
  <2> QED
    BY <2>2 DEF Pairs
<1>2. ASSUME NEW t \in RowIds(row)
      PROVE  QIn(row, t) \in Unseen..QMax
  <2> DEFINE at == CHOOSE i \in 1..Len(row) : row[i].tok = t
  <2>1. at \in 1..Len(row)
    BY <1>2 DEF RowIds
  <2> HIDE DEF at
  <2>2. row[at].q \in Unseen..QMax
    BY <1>1, <2>1
  <2> QED
    BY <2>2 DEF QIn, at
<1> QED
  BY <1>1, <1>2 DEF RowIds

\* What merging a row makes of a candidate.
LEMMA MergedCand ==
    ASSUME NEW c \in Cand, NEW q \in Unseen..QMax
    PROVE  /\ [FreshCand EXCEPT !.q = q] \in Cand
           /\ Blend(c, q) \in Cand
           /\ Fade(c) \in Cand
<1>1. c.q \in Unseen..QMax /\ Unseen = -1 /\ QMax \in Nat /\ QStep \in Nat
  BY TypeConstants, EntryConstants DEF Cand, Unseen
<1>2. q \in Unseen..QMax /\ (q # Unseen => q \in 0..QMax)
  BY <1>1
<1>3. [FreshCand EXCEPT !.q = q] \in Cand
  BY <1>2, EntryConstants DEF FreshCand, Cand
<1>4. Blend(c, q) \in Cand
  <2>1. CASE q = Unseen
    BY <2>1 DEF Blend
  <2>2. CASE q # Unseen /\ c.q = Unseen
    <3>1. Blend(c, q) = [c EXCEPT !.q = q]
      BY <2>2 DEF Blend, Cand
    <3> QED
      BY <3>1, <1>2 DEF Cand
  <2>3. CASE q # Unseen /\ c.q # Unseen
    <3>1. (3 * c.q + q) \div 4 \in Unseen..QMax
      <4> DEFINE n == 3 * c.q + q
      <4>1. n \in Nat /\ n <= 4 * QMax
        BY <2>3, <1>1, <1>2
      <4> HIDE DEF n
      <4>2. n \div 4 \in 0..QMax
        BY <4>1, <1>1
      <4> QED
        BY <4>2, <1>1 DEF n
    <3>2. Blend(c, q) = [c EXCEPT !.q = (3 * c.q + q) \div 4]
      BY <2>3 DEF Blend, Cand
    <3> QED
      BY <3>1, <3>2 DEF Cand
  <2> QED
    BY <2>1, <2>2, <2>3
<1>5. Fade(c) \in Cand
  <2>1. CASE c.q = Unseen
    BY <2>1 DEF Fade
  <2>2. CASE c.q # Unseen
    <3>1. Lesser(c.q + QStep, QMax) \in Unseen..QMax
      BY <2>2, <1>1 DEF Lesser
    <3>2. Fade(c) = [c EXCEPT !.q = Lesser(c.q + QStep, QMax)]
      BY <2>2 DEF Fade, Cand
    <3> QED
      BY <3>1, <3>2 DEF Cand
  <2> QED
    BY <2>1, <2>2
<1> QED
  BY <1>3, <1>4, <1>5

\* Coverage stays a natural number.
LEMMA CoverageType ==
    ASSUME NEW e \in Entries, NEW row \in TopkRows, row # <<>>
    PROVE  CoverageAfter(e, row) \in Nat
<1> DEFINE covered == Cardinality(RowIds(row) \cap DOMAIN e.cands)
<1>1. covered \in Nat
  BY RowFacts, TokenSetsFinite
<1>2. Len(row) \in Nat \ {0}
  BY DEF TopkRows
<1>3. e.cov \in Nat
  BY DEF Entries
<1> HIDE DEF covered
<1>4. CovOne * covered \in Nat
  BY <1>1, EntryConstants
<1>5. ASSUME NEW a \in Nat, NEW b \in Nat \ {0}
      PROVE  a \div b \in Nat
  BY SMT
<1>6. (CovOne * covered) \div Len(row) \in Nat
  BY <1>2, <1>4, <1>5
<1>7. 3 * e.cov + (CovOne * covered) \div Len(row) \in Nat
  BY <1>3, <1>6
<1>8. (3 * e.cov + (CovOne * covered) \div Len(row)) \div 4 \in Nat
  BY <1>7, <1>5
<1> QED
  BY <1>8 DEF CoverageAfter, covered
\* merge_topk keeps what _ensure keeps: every newcomer finds room, or finds a
\* table that can still grow.
LEMMA MergeFacts ==
    ASSUME NEW e \in Entries, FitsCap(e), NEW row \in TopkRows
    PROVE  Keeps(e, MergeTopk(e, row))
<1>1. CASE row = <<>>
  BY <1>1 DEF MergeTopk, Keeps
<1>2. CASE row # <<>>
  <2> DEFINE cov   == CoverageAfter(e, row)
             limit == IF cov < CovTarget THEN KMax ELSE e.cap
             known == DOMAIN e.cands
             room  == limit - Cardinality(known)
             A     == Admitted(e, row, room)
             new   == {row[i].tok : i \in A}
             Merged(t) == CASE t \in new -> [FreshCand EXCEPT !.q = QIn(row, t)]
                            [] t \in known \cap RowIds(row) -> Blend(e.cands[t], QIn(row, t))
                            [] OTHER -> Fade(e.cands[t])
             cands == [t \in known \cup new |-> Merged(t)]
             total == Cardinality(known \cup new)
             f == [e EXCEPT !.cov = cov, !.cands = cands, !.cap = GrownCap(@, total)]
  <2>1. MergeTopk(e, row) = f
    BY <1>2 DEF MergeTopk
  <2>2. cov \in Nat
    BY <1>2, CoverageType
  <2>3. /\ known \subseteq Tokens /\ IsFiniteSet(known) /\ Cardinality(known) \in Nat
        /\ e.cap \in KInit..KMax /\ Cardinality(known) <= e.cap
        /\ e.cands \in [known -> Cand]
    BY CandTableFacts DEF Entries, FitsCap
  <2>4. limit \in e.cap..KMax /\ room \in Nat
    BY <2>2, <2>3, EntryConstants
  <2>5. A \subseteq 1..Len(row)
    BY DEF Admitted, Newcomers
  <2>6. new \subseteq RowIds(row) /\ new \subseteq Tokens
    BY <2>5, RowFacts DEF RowIds
  <2>7. IsFiniteSet(new) /\ Cardinality(new) \in Nat /\ Cardinality(new) <= room
    <3>1. IsFiniteSet(A) /\ Cardinality(A) \in Nat /\ Cardinality(A) <= room
      BY <2>4, AdmittedFits, FS_CardinalityType
    <3>2. [i \in A |-> row[i].tok] \in Surjection(A, new)
      BY DEF Surjection
    <3> HIDE DEF A, new, room
    <3>3. IsFiniteSet(new) /\ Cardinality(new) <= Cardinality(A)
      BY <3>1, <3>2, FS_Surjection
    <3>4. Cardinality(new) \in Nat
      BY <3>3, FS_CardinalityType
    <3> QED
      BY <3>1, <3>3, <3>4, <2>4
  <2>8. total \in Nat /\ total <= limit
    <3> HIDE DEF known, new, limit
    <3>1. /\ IsFiniteSet(known \cup new)
          /\ total = Cardinality(known) + Cardinality(new) - Cardinality(known \cap new)
      BY <2>3, <2>7, FS_Union
    <3>2. Cardinality(known \cap new) \in Nat /\ total \in Nat
      BY <3>1, <2>3, FS_Intersection, FS_CardinalityType
    <3> QED
      BY <3>1, <3>2, <2>3, <2>4, <2>7
  <2>9. GrownCap(e.cap, total) \in KInit..KMax /\ total <= GrownCap(e.cap, total)
    <3>1. total <= e.cap \/ total <= KMax
      BY <2>8, <2>4, <2>3, EntryConstants
    <3> HIDE DEF total
    <3> QED
      BY <3>1, <2>3, <2>8, GrownCapFacts
  <2>10. cands \in CandTables
    <3>1. ASSUME NEW t \in known \cup new PROVE Merged(t) \in Cand
      <4>1. CASE t \in new
        <5>1. QIn(row, t) \in Unseen..QMax
          BY <4>1, <2>6, RowFacts
        <5>2. Merged(t) = [FreshCand EXCEPT !.q = QIn(row, t)]
          <6>1. t \notin known
            BY <4>1 DEF Admitted, Newcomers
          <6> QED
            BY <4>1, <6>1
        <5>3. [FreshCand EXCEPT !.q = QIn(row, t)] \in Cand
          BY <5>1, EntryConstants DEF FreshCand, Cand, Unseen
        <5> QED
          BY <5>2, <5>3
      <4>2. CASE t \notin new /\ t \in RowIds(row)
        BY <4>2, <3>1, <2>3, RowFacts, MergedCand
      <4>3. CASE t \notin new /\ t \notin RowIds(row)
        <5>1. e.cands[t] \in Cand /\ 0 \in Unseen..QMax
          BY <4>3, <3>1, <2>3, TypeConstants DEF Unseen
        <5> QED
          BY <4>3, <5>1, MergedCand
      <4> QED
        BY <4>1, <4>2, <4>3
    <3> HIDE DEF Merged, new, known
    <3>2. known \cup new \in SUBSET Tokens /\ cands \in [known \cup new -> Cand]
      BY <3>1, <2>3, <2>6
    <3> QED
      BY <3>2, CandTableIntro
  <2>11. DOMAIN cands = known \cup new
    OBVIOUS
  <2> DEFINE cap == GrownCap(e.cap, total)
  <2>12. f = [e EXCEPT !.cov = cov, !.cands = cands, !.cap = cap]
    BY DEF Entries
  <2> HIDE DEF cap
  <2>13. cap \in KInit..KMax /\ Cardinality(DOMAIN cands) <= cap
    BY <2>9, <2>11 DEF cap
  <2> HIDE DEF cands, cov, known, new, total, f
  <2>14. /\ f \in Entries /\ f.cands = cands /\ f.cap = cap
         /\ f.dom = e.dom /\ f.epoch = e.epoch
    BY <2>2, <2>10, <2>12, <2>13 DEF Entries
  <2> QED
    BY <2>1, <2>10, <2>13, <2>14, KeepsIntro
<1> QED
  BY <1>1, <1>2

-----------------------------------------------------------------------------
\* Dividing by what compaction divides by makes a count no larger.
LEMMA DecayedCount ==
    ASSUME NEW n \in 0..CountMax
    PROVE  n \div DecayDiv \in 0..CountMax
<1>1. n \in Nat /\ DecayDiv \in Nat \ {0} /\ CountMax \in Nat /\ n <= CountMax
  BY EntryConstants
<1>2. n \div DecayDiv \in Nat
  BY <1>1
<1>3. n \div DecayDiv <= n
  BY <1>1
<1> QED
  BY <1>1, <1>2, <1>3

\* Compaction of an entry keeps what _ensure keeps.
LEMMA DecayFacts ==
    ASSUME NEW e \in Entries, FitsCap(e)
    PROVE  Keeps(e, Decay(e))
<1> DEFINE kept == {t \in DOMAIN e.cands : Support(Halve(e.cands[t])) > 0}
           cands == [t \in kept |-> Halve(e.cands[t])]
           cap == Greater(KInit, Lesser(e.cap, KMax))
           f == [e EXCEPT !.cands = cands, !.cap = cap]
<1>1. Decay(e) = f
  BY DEF Decay, Entries
<1>2. /\ e.cands \in [DOMAIN e.cands -> Cand] /\ e.cap \in KInit..KMax
      /\ DOMAIN e.cands \subseteq Tokens /\ IsFiniteSet(DOMAIN e.cands)
      /\ Cardinality(DOMAIN e.cands) <= e.cap
      /\ kept \in SUBSET (DOMAIN e.cands)
  BY CandTableFacts DEF Entries, FitsCap
<1>3. \A c \in Cand : Halve(c) \in Cand
  BY DecayedCount DEF Halve, Cand
<1>4. cands \in CandTables
  <2> HIDE DEF kept
  <2>1. kept \in SUBSET Tokens /\ cands \in [kept -> Cand]
    BY <1>2, <1>3
  <2> QED
    BY <2>1, CandTableIntro
<1>5. cap = e.cap
  BY <1>2, EntryConstants DEF Greater, Lesser
<1>6. Cardinality(DOMAIN cands) <= cap
  <2>1. DOMAIN cands = kept
    OBVIOUS
  <2> HIDE DEF kept, cands
  <2>2. Cardinality(kept) <= Cardinality(DOMAIN e.cands) /\ Cardinality(kept) \in Nat
    BY <1>2, FS_Subset, FS_CardinalityType
  <2>3. Cardinality(DOMAIN e.cands) \in Nat
    BY <1>2, FS_CardinalityType
  <2> QED
    BY <2>1, <2>2, <2>3, <1>2, <1>5, EntryConstants
<1> HIDE DEF cands, cap
<1>7. /\ f \in Entries /\ f.cands = cands /\ f.cap = cap
      /\ f.dom = e.dom /\ f.epoch = e.epoch
  BY <1>2, <1>4, <1>5 DEF Entries
<1> HIDE DEF f
<1> QED
  BY <1>1, <1>2, <1>4, <1>5, <1>6, <1>7, KeepsIntro
=============================================================================
