-------------------------- MODULE LedgerSpansProofs --------------------------
(***************************************************************************)
(* Theorems about LedgerSpans, for all values of its constants: spans,     *)
(* breaks and runs keep their types and bounds, breaks fit the body they   *)
(* belong to and the context of their patch, a span is served after an     *)
(* edit of the file of its body only for the two known reasons, and the    *)
(* hot table beside the spans keeps what LedgerStoreProofs shows of it.    *)
(* Then about LedgerLookup: lookups offer only what is current, and take   *)
(* a token for a rejected one only on the word of long contexts, with      *)
(* spans and without.                                                      *)
(***************************************************************************)
EXTENDS LedgerSpans, LedgerLookup, LedgerStoreProofs, SequenceTheorems

-----------------------------------------------------------------------------
(* Beginnings and ends of sequences.                                       *)

Begin(s, n) == SubSeq(s, 1, n)

LEMMA BeginFacts ==
    ASSUME NEW S, NEW s \in Seq(S), NEW n \in Nat, n <= Len(s)
    PROVE  /\ Begin(s, n) \in Seq(S) /\ Len(Begin(s, n)) = n
           /\ \A i \in 1..n : Begin(s, n)[i] = s[i]
<1>1. Len(s) \in Nat /\ \A i \in 1..Len(s) : s[i] \in S
  BY LenProperties, ElementOfSeq
<1>2. \A i \in 1..n : s[i] \in S
  BY <1>1
<1>3. /\ Begin(s, n) \in Seq(S)
      /\ Len(Begin(s, n)) = IF 1 <= n THEN n - 1 + 1 ELSE 0
      /\ \A i \in 1..(n - 1 + 1) : Begin(s, n)[i] = s[1 + i - 1]
  BY <1>2, SubSeqProperties DEF Begin
<1>4. Len(Begin(s, n)) = n
  BY <1>3
<1>5. ASSUME NEW i \in 1..n PROVE Begin(s, n)[i] = s[i]
  <2>1. i \in 1..(n - 1 + 1) /\ 1 + i - 1 = i
    OBVIOUS
  <2> QED
    BY <2>1, <1>3
<1> QED
  BY <1>3, <1>4, <1>5

\* Sequences that agree up to n begin alike.
LEMMA BeginEqual ==
    ASSUME NEW S, NEW s \in Seq(S), NEW t \in Seq(S), NEW n \in Nat,
           n <= Len(s), n <= Len(t), \A i \in 1..n : s[i] = t[i]
    PROVE  Begin(s, n) = Begin(t, n)
<1>1. /\ Begin(s, n) \in Seq(S) /\ Begin(t, n) \in Seq(S)
      /\ Len(Begin(s, n)) = n /\ Len(Begin(t, n)) = n
      /\ \A i \in 1..n : Begin(s, n)[i] = Begin(t, n)[i]
  BY BeginFacts
<1> QED
  BY <1>1, SeqEqual

\* The beginning of a beginning.
LEMMA BeginShorter ==
    ASSUME NEW S, NEW s \in Seq(S), NEW t \in Seq(S), NEW n \in Nat, NEW m \in Nat,
           m <= n, n <= Len(s), n <= Len(t), Begin(s, n) = Begin(t, n)
    PROVE  Begin(s, m) = Begin(t, m)
<1>1. Len(s) \in Nat /\ Len(t) \in Nat
  BY LenProperties
<1>2. \A i \in 1..n : s[i] = t[i]
  BY BeginFacts
<1>3. m <= Len(s) /\ m <= Len(t) /\ \A i \in 1..m : s[i] = t[i]
  BY <1>1, <1>2
<1> QED
  BY <1>3, BeginEqual

\* The last n tokens.
LEMMA LastFacts ==
    ASSUME NEW S, NEW s \in Seq(S), NEW n \in Nat, n <= Len(s)
    PROVE  /\ LastN(s, n) \in Seq(S) /\ Len(LastN(s, n)) = n
           /\ \A i \in 1..n : LastN(s, n)[i] = s[Len(s) - n + i]
<1> DEFINE m == Len(s) - n + 1
           l == Len(s)
<1>1. l \in Nat /\ m \in Int /\ \A i \in 1..l : s[i] \in S
  BY LenProperties, ElementOfSeq
<1>2. \A i \in m..l : s[i] \in S
  BY <1>1
<1>3. LastN(s, n) = SubSeq(s, m, l)
  BY DEF LastN
<1> HIDE DEF m, l
<1>4. /\ SubSeq(s, m, l) \in Seq(S)
      /\ Len(SubSeq(s, m, l)) = IF m <= l THEN l - m + 1 ELSE 0
      /\ \A i \in 1..(l - m + 1) : SubSeq(s, m, l)[i] = s[m + i - 1]
  BY <1>1, <1>2, SubSeqProperties
<1>5. l - m + 1 = n /\ m = l - n + 1
  BY <1>1 DEF m, l
<1>6. Len(LastN(s, n)) = n
  BY <1>1, <1>3, <1>4, <1>5
<1>7. ASSUME NEW i \in 1..n PROVE LastN(s, n)[i] = s[l - n + i]
  <2>1. m + i - 1 = l - n + i
    BY <1>1, <1>5
  <2> QED
    BY <2>1, <1>3, <1>4, <1>5
<1> QED
  BY <1>3, <1>4, <1>6, <1>7 DEF l

\* The end of an end is an end of the whole.
LEMMA LastOfLast ==
    ASSUME NEW S, NEW s \in Seq(S), NEW m \in Nat, NEW n \in Nat,
           n <= m, m <= Len(s)
    PROVE  LastN(LastN(s, m), n) = LastN(s, n)
<1> DEFINE e == LastN(s, m)
           l == Len(s)
<1>1. l \in Nat /\ n <= l
  BY LenProperties
<1>2. e \in Seq(S) /\ Len(e) = m /\ \A i \in 1..m : e[i] = s[l - m + i]
  BY LastFacts
<1> HIDE DEF e
<1>3. /\ LastN(e, n) \in Seq(S) /\ Len(LastN(e, n)) = n
      /\ \A i \in 1..n : LastN(e, n)[i] = e[m - n + i]
  BY <1>2, LastFacts
<1>4. /\ LastN(s, n) \in Seq(S) /\ Len(LastN(s, n)) = n
      /\ \A i \in 1..n : LastN(s, n)[i] = s[l - n + i]
  BY <1>1, LastFacts
<1>5. ASSUME NEW i \in 1..n PROVE LastN(e, n)[i] = LastN(s, n)[i]
  <2>1. m - n + i \in 1..m /\ l - m + (m - n + i) = l - n + i
    BY <1>1
  <2> QED
    BY <2>1, <1>2, <1>3, <1>4
<1> QED
  BY <1>3, <1>4, <1>5, SeqEqual DEF e

\* What is appended to an end is appended to the whole.
LEMMA LastConcat ==
    ASSUME NEW S, NEW s \in Seq(S), NEW t \in Seq(S), NEW n \in Nat, n <= Len(s)
    PROVE  /\ LastN(s, n) \o t = LastN(s \o t, n + Len(t))
           /\ n + Len(t) <= Len(s \o t)
<1> DEFINE e == LastN(s, n)
           l == Len(s)
           k == Len(t)
           w == s \o t
<1>1. l \in Nat /\ k \in Nat
  BY LenProperties
<1>2. e \in Seq(S) /\ Len(e) = n /\ \A i \in 1..n : e[i] = s[l - n + i]
  BY LastFacts
<1>3. /\ w \in Seq(S) /\ Len(w) = l + k
      /\ \A i \in 1..l + k : w[i] = IF i <= l THEN s[i] ELSE t[i - l]
  BY ConcatProperties
<1> HIDE DEF e, w
<1>4. /\ e \o t \in Seq(S) /\ Len(e \o t) = n + k
      /\ \A i \in 1..n + k : (e \o t)[i] = IF i <= n THEN e[i] ELSE t[i - n]
  BY <1>2, ConcatProperties
<1>5. /\ LastN(w, n + k) \in Seq(S) /\ Len(LastN(w, n + k)) = n + k
      /\ \A i \in 1..n + k : LastN(w, n + k)[i] = w[Len(w) - (n + k) + i]
  <2> DEFINE m == n + k
  <2>1. w \in Seq(S) /\ m \in Nat /\ m <= Len(w)
    BY <1>1, <1>3
  <2> HIDE DEF m
  <2>2. /\ LastN(w, m) \in Seq(S) /\ Len(LastN(w, m)) = m
        /\ \A i \in 1..m : LastN(w, m)[i] = w[Len(w) - m + i]
    BY <2>1, LastFacts
  <2> QED
    BY <2>2 DEF m
<1> HIDE DEF l, k
<1>6. n <= l
  BY DEF l
<1>7. ASSUME NEW i \in 1..n + k PROVE (e \o t)[i] = LastN(w, n + k)[i]
  <2> DEFINE j == Len(w) - (n + k) + i
  <2>1. j \in 1..l + k /\ j = l - n + i
    BY <1>1, <1>3, <1>6
  <2>2. LastN(w, n + k)[i] = IF j <= l THEN s[j] ELSE t[j - l]
    BY <2>1, <1>3, <1>5
  <2>3. CASE i <= n
    <3>1. i \in 1..n /\ j <= l
      BY <2>1, <2>3, <1>1, <1>6
    <3> QED
      BY <3>1, <2>1, <2>2, <1>2, <1>4
  <2>4. CASE ~ (i <= n)
    <3>1. ~ (j <= l) /\ j - l = i - n
      BY <2>1, <2>4, <1>1, <1>6
    <3> QED
      BY <3>1, <2>2, <2>4, <1>4
  <2> QED
    BY <2>3, <2>4
<1> QED
  BY <1>1, <1>3, <1>4, <1>5, <1>7, SeqEqual DEF e, w, l, k

\* Two ends of one sequence are the same context, as far as both reach.
LEMMA EndsAgree ==
    ASSUME NEW S, NEW s \in Seq(S), NEW m \in Nat, NEW n \in Nat,
           m <= Len(s), n <= Len(s)
    PROVE  SameContext(LastN(s, m), LastN(s, n))
<1> DEFINE b == Lesser(m, n)
<1>1. Len(LastN(s, m)) = m /\ Len(LastN(s, n)) = n
  BY LastFacts
<1>2. b \in Nat /\ b <= m /\ b <= n
  BY DEF Lesser
<1> HIDE DEF b
<1>3. LastN(LastN(s, m), b) = LastN(s, b) /\ LastN(LastN(s, n), b) = LastN(s, b)
  BY <1>2, LastOfLast
<1> QED
  BY <1>1, <1>3 DEF SameContext, b

-----------------------------------------------------------------------------
(* Where two bodies part.                                                  *)

LEMMA DivergenceFacts ==
    ASSUME NEW old \in Seq(Tokens), NEW new \in Seq(Tokens)
    PROVE  /\ Divergence(old, new) \in Nat
           /\ Divergence(old, new) <= Len(old) /\ Divergence(old, new) <= Len(new)
           /\ \A i \in 1..Divergence(old, new) : old[i] = new[i]
<1> DEFINE n == Lesser(Len(old), Len(new))
           differ == {d \in 0..n - 1 : old[d + 1] # new[d + 1]}
           d == Divergence(old, new)
<1>1. /\ Len(old) \in Nat /\ Len(new) \in Nat
      /\ n \in Nat /\ n <= Len(old) /\ n <= Len(new)
  BY LenProperties DEF Lesser
<1>2. d = IF differ = {} THEN n ELSE CHOOSE c \in differ : \A b \in differ : c <= b
  BY DEF Divergence
<1> HIDE DEF d
<1>3. /\ d \in Nat /\ d <= n /\ \A c \in differ : d <= c
  <2>1. CASE differ = {}
    BY <2>1, <1>1, <1>2
  <2>2. CASE differ # {}
    <3>1. differ \in SUBSET Nat
      BY <1>1
    <3>2. \E c \in differ : \A b \in differ : c <= b
      BY <3>1, <2>2, LeastNatural
    <3>3. d \in differ /\ \A c \in differ : d <= c
      BY <3>2, <2>2, <1>2
    <3> QED
      BY <3>3, <1>1
  <2> QED
    BY <2>1, <2>2
<1>4. ASSUME NEW i \in 1..d PROVE old[i] = new[i]
  <2>1. i - 1 \in 0..n - 1 /\ (i - 1) + 1 = i /\ i - 1 < d
    BY <1>1, <1>3
  <2>2. i - 1 \notin differ
    BY <2>1, <1>3
  <2> QED
    BY <2>1, <2>2
<1> HIDE DEF n, differ
<1> QED
  BY <1>1, <1>3, <1>4 DEF d

-----------------------------------------------------------------------------
(* Spans and runs.                                                         *)

NowOf(E, scope, dom) == IF dom = NoFile THEN 0 ELSE E[<<scope, dom>>]

Origins == [file : Domains, edits : 0..EpochMod, moved : BOOLEAN, revived : BOOLEAN]

RunSet == [seg : Segments, dom : Domains, toks : Seq(Tokens), start : Seq(Tokens),
           scopes : [0..2 -> ScopeIds]]

GoodRun(r) == r \in RunSet /\ Len(r.toks) \in 1..SpanMax /\ Len(r.start) <= 8

\* A break fits the body of its span, the draft it was recorded for and the
\* context of its patch.
GoodBreak(k, s, o, mark) ==
    /\ o \in Nat /\ o < Len(s.body)
    /\ s.breaks[o] \in [count : Nat \ {0}, patch : Keys \cup {NoSpan}]
    /\ Begin(s.body, o + 1) = mark
    /\ s.breaks[o].patch # NoSpan =>
          SameContext(s.breaks[o].patch.ctx, k.ctx \o Begin(s.body, o))

Made(body, dom, epoch, count, breaks) ==
    [body |-> body, dom |-> dom, epoch |-> epoch, count |-> count, breaks |-> breaks]

Self(s) == Made(s.body, s.dom, s.epoch, s.count, s.breaks)

\* A span under its key, with the marks of its breaks.
GoodSpan(k, s, m) ==
    /\ s = Self(s)
    /\ s.body \in Seq(Tokens) /\ Len(s.body) \in SpanMin..SpanMax
    /\ s.dom \in Domains /\ s.epoch \in 0..EpochMod - 1
    /\ s.count \in Nat \ {0}
    /\ DOMAIN m = DOMAIN s.breaks
    /\ \A o \in DOMAIN s.breaks : GoodBreak(k, s, o, m[o])

\* A span that was neither moved nor revived accounts for the edits of the
\* file of its body, under the epochs E.
Explained(k, s, n, E) ==
    ~n.moved /\ ~n.revived =>
        LET now == NowOf(E, k.scope, s.dom)
        IN  /\ s.dom = n.file
            /\ s.dom = NoFile => n.edits = 0
            /\ s.dom # NoFile /\ n.edits < EpochMod =>
                  s.epoch + n.edits \in {now, now + EpochMod}

GoodTable(S, O, M, E) ==
    /\ DOMAIN S \subseteq Keys /\ DOMAIN O = DOMAIN S /\ DOMAIN M = DOMAIN S
    /\ \A k \in DOMAIN S : /\ GoodSpan(k, S[k], M[k])
                           /\ O[k] \in Origins
                           /\ Explained(k, S[k], O[k], E)

LEMMA NowIsOf == \A scope, dom : Now(scope, dom) = NowOf(epochs, scope, dom)
  BY DEF Now, NowOf

LEMMA NewSpanGood ==
    ASSUME TypeOK, NEW k \in Keys, NEW run, GoodRun(run), Len(run.toks) >= SpanMin,
           NEW n \in Origins, n.file = run.dom, n.edits = 0
    PROVE  GoodSpan(k, NewSpan(k, run), NoTable) /\ Explained(k, NewSpan(k, run), n, epochs)
<1> DEFINE s == NewSpan(k, run)
<1>1. /\ s = Made(run.toks, run.dom, Now(k.scope, run.dom), 1, NoTable)
      /\ s = Self(s)
      /\ s.body = run.toks /\ s.dom = run.dom /\ s.epoch = Now(k.scope, run.dom)
      /\ s.count = 1 /\ s.breaks = NoTable
  BY DEF NewSpan, Made, Self
<1>2. /\ run.toks \in Seq(Tokens) /\ Len(run.toks) \in 1..SpanMax /\ run.dom \in Domains
      /\ k.scope \in ScopeIds
  BY DEF GoodRun, RunSet, Keys
<1>3. Now(k.scope, run.dom) \in 0..EpochMod - 1
  BY <1>2, NowType
<1> HIDE DEF s
<1>4. DOMAIN NoTable = {}
  BY DEF NoTable
<1>5. Len(s.body) \in SpanMin..SpanMax
  BY <1>1, <1>2, SpanConstants
<1>6. GoodSpan(k, s, NoTable)
  BY <1>1, <1>2, <1>3, <1>4, <1>5 DEF GoodSpan
<1>7. s.epoch + n.edits = NowOf(epochs, k.scope, s.dom)
  BY <1>1, <1>3, NowIsOf, StoreConstants
<1>8. Explained(k, s, n, epochs)
  BY <1>1, <1>7 DEF Explained
<1> QED
  BY <1>6, <1>8 DEF s

\* What becomes of a span record.
LEMMA Revive ==
    ASSUME NEW s, s = Self(s), NEW x, NEW y, NEW z, NEW r,
           r = [s EXCEPT !.breaks = x, !.dom = y, !.epoch = z, !.count = 0]
    PROVE  r = Made(s.body, y, z, 0, x)
  BY DEF Self, Made

LEMMA Rebody ==
    ASSUME NEW s, s = Self(s), NEW x, NEW y, NEW r,
           r = [s EXCEPT !.body = x, !.breaks = y]
    PROVE  r = Made(x, s.dom, s.epoch, s.count, y)
  BY DEF Self, Made

LEMMA Recount ==
    ASSUME NEW s, s = Self(s), NEW x, NEW r,
           r = [s EXCEPT !.count = x]
    PROVE  r = Made(s.body, s.dom, s.epoch, x, s.breaks)
  BY DEF Self, Made

LEMMA Rebreak ==
    ASSUME NEW s, s = Self(s), NEW x, NEW r,
           r = [s EXCEPT !.breaks = x]
    PROVE  r = Made(s.body, s.dom, s.epoch, s.count, x)
  BY DEF Self, Made

LEMMA Redecay ==
    ASSUME NEW s, s = Self(s), NEW x, NEW y, NEW r,
           r = [s EXCEPT !.count = x, !.breaks = y]
    PROVE  r = Made(s.body, s.dom, s.epoch, x, y)
  BY DEF Self, Made

\* A run registered under the key of a span.
LEMMA RegisteredParts ==
    ASSUME NEW k, NEW run, spans[k] = Self(spans[k])
    PROVE  LET s == spans[k]
               r == Registered(k, run)
           IN  /\ r = Self(r)
               /\ r.body = IF Replaces(k, run) THEN run.toks ELSE s.body
               /\ r.dom = IF FreshSpan(k) THEN s.dom ELSE run.dom
               /\ r.epoch = IF FreshSpan(k) THEN s.epoch ELSE Now(k.scope, run.dom)
               /\ r.count = IF FreshSpan(k) THEN s.count + 1 ELSE 0 + 1
               /\ r.breaks = LET b == IF FreshSpan(k) THEN s.breaks ELSE NoTable
                             IN  IF Replaces(k, run) THEN KeepBelow(b, NewLimit(k, run))
                                 ELSE b
<1> DEFINE s == spans[k]
           r == Registered(k, run)
           v == Revived(k, run)
           t == IF Replaces(k, run)
                THEN [v EXCEPT !.body = run.toks,
                               !.breaks = KeepBelow(v.breaks, NewLimit(k, run))]
                ELSE v
<1>1. v = IF FreshSpan(k) THEN s
          ELSE Made(s.body, run.dom, Now(k.scope, run.dom), 0, NoTable)
  <2>1. s = Self(s)
    OBVIOUS
  <2>2. [s EXCEPT !.breaks = NoTable, !.dom = run.dom,
                  !.epoch = Now(k.scope, run.dom), !.count = 0]
            = Made(s.body, run.dom, Now(k.scope, run.dom), 0, NoTable)
    BY <2>1, Revive
  <2> QED
    BY <2>2 DEF Revived
<1>2. r = [t EXCEPT !.count = t.count + 1]
  BY DEF Registered
<1> HIDE DEF v, r
<1>3. /\ v = Self(v)
      /\ v.body = s.body
      /\ v.dom = IF FreshSpan(k) THEN s.dom ELSE run.dom
      /\ v.epoch = IF FreshSpan(k) THEN s.epoch ELSE Now(k.scope, run.dom)
      /\ v.count = IF FreshSpan(k) THEN s.count ELSE 0
      /\ v.breaks = IF FreshSpan(k) THEN s.breaks ELSE NoTable
  BY <1>1 DEF Made, Self
<1>4. t = IF Replaces(k, run)
          THEN Made(run.toks, v.dom, v.epoch, v.count, KeepBelow(v.breaks, NewLimit(k, run)))
          ELSE v
  <2>1. [v EXCEPT !.body = run.toks, !.breaks = KeepBelow(v.breaks, NewLimit(k, run))]
            = Made(run.toks, v.dom, v.epoch, v.count, KeepBelow(v.breaks, NewLimit(k, run)))
    BY <1>3, Rebody
  <2> QED
    BY <2>1
<1> HIDE DEF t
<1>5. /\ t = Self(t)
      /\ t.body = IF Replaces(k, run) THEN run.toks ELSE s.body
      /\ t.dom = v.dom /\ t.epoch = v.epoch /\ t.count = v.count
      /\ t.breaks = IF Replaces(k, run) THEN KeepBelow(v.breaks, NewLimit(k, run))
                    ELSE v.breaks
  BY <1>3, <1>4 DEF Made, Self
<1>6. r = Made(t.body, t.dom, t.epoch, t.count + 1, t.breaks)
  BY <1>2, <1>5 DEF Made, Self
<1>7. /\ r = Self(r)
      /\ r.body = t.body /\ r.dom = t.dom /\ r.epoch = t.epoch
      /\ r.count = t.count + 1 /\ r.breaks = t.breaks
  BY <1>6 DEF Made, Self
<1>8. r.count = IF FreshSpan(k) THEN s.count + 1 ELSE 0 + 1
  BY <1>3, <1>5, <1>7
<1> QED
  BY <1>3, <1>5, <1>7, <1>8 DEF r

MarksOf(s, m) == [o \in DOMAIN s.breaks |-> m[o]]

LEMMA RegisteredGood ==
    ASSUME TypeOK, NEW k \in Keys, NEW m, GoodSpan(k, spans[k], m),
           NEW run, GoodRun(run), Len(run.toks) >= SpanMin
    PROVE  GoodSpan(k, Registered(k, run), MarksOf(Registered(k, run), m))
<1> DEFINE s == spans[k]
           r == Registered(k, run)
           mr == MarksOf(r, m)
<1>1. /\ s = Self(s)
      /\ s.body \in Seq(Tokens) /\ Len(s.body) \in SpanMin..SpanMax
      /\ s.dom \in Domains /\ s.epoch \in 0..EpochMod - 1 /\ s.count \in Nat \ {0}
      /\ DOMAIN m = DOMAIN s.breaks
      /\ \A o \in DOMAIN s.breaks : GoodBreak(k, s, o, m[o])
  BY DEF GoodSpan
<1>2. /\ run.toks \in Seq(Tokens) /\ Len(run.toks) \in 1..SpanMax /\ run.dom \in Domains
      /\ k.scope \in ScopeIds
  BY DEF GoodRun, RunSet, Keys
<1>3. Now(k.scope, run.dom) \in 0..EpochMod - 1
  BY <1>2, NowType
<1>4. /\ r = Self(r)
      /\ r.body = IF Replaces(k, run) THEN run.toks ELSE s.body
      /\ r.dom = IF FreshSpan(k) THEN s.dom ELSE run.dom
      /\ r.epoch = IF FreshSpan(k) THEN s.epoch ELSE Now(k.scope, run.dom)
      /\ r.count = IF FreshSpan(k) THEN s.count + 1 ELSE 0 + 1
      /\ r.breaks = LET b == IF FreshSpan(k) THEN s.breaks ELSE NoTable
                    IN  IF Replaces(k, run) THEN KeepBelow(b, NewLimit(k, run)) ELSE b
  BY <1>1, RegisteredParts
<1> HIDE DEF s, r
<1>5. /\ r.body \in Seq(Tokens) /\ Len(r.body) \in SpanMin..SpanMax
      /\ r.dom \in Domains /\ r.epoch \in 0..EpochMod - 1 /\ r.count \in Nat \ {0}
  <2>1. Len(run.toks) \in SpanMin..SpanMax
    BY <1>2, SpanConstants
  <2>2. r.count \in Nat \ {0}
    BY <1>1, <1>4
  <2> QED
    BY <2>1, <2>2, <1>1, <1>2, <1>3, <1>4
<1>6. \A o \in DOMAIN r.breaks : /\ o \in DOMAIN s.breaks /\ r.breaks[o] = s.breaks[o]
                                 /\ Replaces(k, run) => o < NewLimit(k, run)
  BY <1>4 DEF KeepBelow, NoTable
<1>7. ASSUME NEW o \in DOMAIN r.breaks PROVE GoodBreak(k, r, o, m[o])
  <2>1. /\ GoodBreak(k, s, o, m[o]) /\ o \in Nat /\ o < Len(s.body)
        /\ r.breaks[o] = s.breaks[o]
    BY <1>1, <1>6 DEF GoodBreak
  <2>2. o < Len(r.body) /\ Begin(r.body, o + 1) = Begin(s.body, o + 1)
    <3>1. CASE ~Replaces(k, run)
      BY <3>1, <2>1, <1>4
    <3>2. CASE Replaces(k, run) /\ run.toks = s.body
      BY <3>2, <2>1, <1>4
    <3>3. CASE Replaces(k, run) /\ run.toks # s.body
      <4> DEFINE d == Divergence(s.body, run.toks)
      <4>1. /\ d \in Nat /\ d <= Len(s.body) /\ d <= Len(run.toks)
            /\ \A i \in 1..d : s.body[i] = run.toks[i]
        BY <1>1, <1>2, DivergenceFacts
      <4>2. o < d
        BY <3>3, <1>6 DEF NewLimit, s
      <4> HIDE DEF d
      <4>3. /\ o + 1 \in Nat /\ o + 1 <= Len(s.body) /\ o + 1 <= Len(run.toks)
            /\ \A i \in 1..o + 1 : s.body[i] = run.toks[i]
        BY <4>1, <4>2, <2>1, <1>1, <1>2
      <4>4. Begin(s.body, o + 1) = Begin(run.toks, o + 1)
        BY <4>3, <1>1, <1>2, BeginEqual
      <4>5. o < Len(run.toks)
        BY <4>3, <2>1, <1>2
      <4> QED
        BY <4>4, <4>5, <3>3, <1>4
    <3> QED
      BY <3>1, <3>2, <3>3
  <2>3. Begin(r.body, o) = Begin(s.body, o)
    <3>1. /\ o + 1 \in Nat /\ o <= o + 1 /\ o + 1 <= Len(s.body) /\ o + 1 <= Len(r.body)
      BY <2>1, <2>2, <1>1, <1>5
    <3> QED
      BY <3>1, <2>1, <2>2, <1>1, <1>5, BeginShorter
  <2> QED
    BY <2>1, <2>2, <2>3 DEF GoodBreak
<1>8. DOMAIN mr = DOMAIN r.breaks /\ \A o \in DOMAIN r.breaks : mr[o] = m[o]
  BY DEF MarksOf
<1> HIDE DEF mr
<1>9. GoodSpan(k, r, mr)
  BY <1>4, <1>5, <1>7, <1>8 DEF GoodSpan
<1> QED
  BY <1>9 DEF r, mr

\* The keys a run is registered under.
LEMMA FlushKeysFacts ==
    ASSUME NEW run, GoodRun(run), NEW k \in FlushKeys(run)
    PROVE  k \in Keys /\ Len(run.toks) >= SpanMin
<1>1. /\ run.start \in Seq(Tokens) /\ run.scopes \in [0..2 -> ScopeIds]
      /\ run.seg \in Segments
      /\ Len(run.toks) \in Nat
  BY DEF GoodRun, RunSet
<1>2. /\ ~ (Len(run.toks) < SpanMin)
      /\ k \in SpanKeys(run.start, run.scopes, run.seg, SpanOrders, SpanDepths)
  BY DEF FlushKeys
<1>3. PICK o \in SpanOrders, d \in SpanDepths :
         /\ o <= Len(run.start)
         /\ k = [ctx |-> LastN(run.start, o), scope |-> run.scopes[d], seg |-> run.seg]
  BY <1>2 DEF SpanKeys
<1>4. o \in Nat /\ d \in 0..2
  BY SpanConstants
<1>5. LastN(run.start, o) \in Seq(Tokens)
  BY <1>1, <1>3, <1>4, LastFacts
<1>6. k \in Keys
  BY <1>1, <1>3, <1>4, <1>5 DEF Keys
<1> QED
  BY <1>1, <1>2, <1>6, SpanConstants

\* The history of a new span, and of a span a run is registered under.
Plain(run) == [file |-> run.dom, edits |-> 0, revived |-> FALSE, moved |-> FALSE]

NoteOf(k, run) ==
    IF Replaces(k, run)
    THEN [file |-> run.dom, edits |-> 0, revived |-> FALSE,
          moved |-> k \in ServedSpans /\ spans[k].dom # run.dom]
    ELSE [origin[k] EXCEPT !.revived = origin[k].revived \/ ~FreshSpan(k)]

LEMMA PlainFacts ==
    ASSUME NEW run, run.dom \in Domains
    PROVE  Plain(run) \in Origins /\ Plain(run).file = run.dom /\ Plain(run).edits = 0
  BY StoreConstants DEF Plain, Origins

\* A flushed run leaves good spans; what it does to the history of a span it
\* finds there says how the span may outlive an edit.
LEMMA RegisteredExplained ==
    ASSUME TypeOK, NEW k \in Keys, NEW m, GoodSpan(k, spans[k], m), k \in DOMAIN spans,
           NEW run, GoodRun(run),
           origin[k] \in Origins, Explained(k, spans[k], origin[k], epochs)
    PROVE  /\ NoteOf(k, run) \in Origins
           /\ Explained(k, Registered(k, run), NoteOf(k, run), epochs)
<1> DEFINE n == NoteOf(k, run)
           s == spans[k]
           r == Registered(k, run)
           was == origin[k]
<1>1. /\ s = Self(s) /\ s.dom \in Domains /\ s.epoch \in 0..EpochMod - 1
      /\ run.dom \in Domains /\ k.scope \in ScopeIds
  BY DEF GoodSpan, GoodRun, RunSet, Keys
<1>2. /\ r.dom = IF FreshSpan(k) THEN s.dom ELSE run.dom
      /\ r.epoch = IF FreshSpan(k) THEN s.epoch ELSE Now(k.scope, run.dom)
  BY <1>1, RegisteredParts
<1>3. FreshSpan(k) <=> s.epoch = Now(k.scope, s.dom)
  BY DEF FreshSpan
<1>4. Now(k.scope, run.dom) \in 0..EpochMod - 1
  BY <1>1, NowType
<1>5. k \in ServedSpans <=> FreshSpan(k)
  BY DEF ServedSpans
<1>6. /\ was \in Origins
      /\ Explained(k, s, was, epochs)
  OBVIOUS
<1> HIDE DEF s, r, was
<1>7. CASE Replaces(k, run)
  <2> DEFINE v == FreshSpan(k) /\ s.dom # run.dom
  <2>1. v \in BOOLEAN /\ (~v => r.dom = run.dom /\ r.epoch = Now(k.scope, r.dom))
    BY <1>2, <1>3
  <2>2. n = [file |-> run.dom, edits |-> 0, revived |-> FALSE, moved |-> v]
    BY <1>5, <1>7 DEF s, NoteOf
  <2> HIDE DEF n, v
  <2>3. n \in Origins /\ n.moved = v
    BY <2>1, <2>2, <1>1, StoreConstants DEF Origins
  <2>4. n.file = run.dom /\ n.edits = 0
    BY <2>2
  <2>5. Explained(k, r, n, epochs)
    <3> SUFFICES ASSUME ~n.moved
                 PROVE  LET now == NowOf(epochs, k.scope, r.dom)
                        IN  /\ r.dom = n.file
                            /\ r.dom = NoFile => n.edits = 0
                            /\ r.epoch + n.edits \in {now, now + EpochMod}
      BY DEF Explained
    <3>1. r.dom = run.dom /\ r.epoch = Now(k.scope, r.dom)
      BY <2>1, <2>3
    <3>2. r.epoch = NowOf(epochs, k.scope, r.dom) /\ r.epoch \in Nat
      BY <3>1, <1>4, NowIsOf
    <3> QED
      BY <3>1, <3>2, <2>4
  <2> QED
    BY <2>3, <2>5 DEF r, n
<1>8. CASE ~Replaces(k, run)
  <2>1. n = [was EXCEPT !.revived = was.revived \/ ~FreshSpan(k)]
    BY <1>8 DEF was, NoteOf
  <2> HIDE DEF n
  <2>2. /\ n \in Origins /\ n.file = was.file /\ n.edits = was.edits
        /\ n.moved = was.moved /\ n.revived = (was.revived \/ ~FreshSpan(k))
    <3>1. (was.revived \/ ~FreshSpan(k)) \in BOOLEAN
      OBVIOUS
    <3> DEFINE v == was.revived \/ ~FreshSpan(k)
    <3> HIDE DEF v
    <3>2. v \in BOOLEAN /\ n = [was EXCEPT !.revived = v]
      BY <2>1, <3>1 DEF v
    <3>3. /\ n \in Origins /\ n.file = was.file /\ n.edits = was.edits
          /\ n.moved = was.moved /\ n.revived = v
      BY <3>2, <1>6 DEF Origins
    <3> QED
      BY <3>3 DEF v
  <2>3. CASE FreshSpan(k)
    <3>1. r.dom = s.dom /\ r.epoch = s.epoch
      BY <2>3, <1>2
    <3>2. n.revived = was.revived
      BY <2>2, <2>3, <1>6 DEF Origins
    <3>3. Explained(k, r, n, epochs)
      BY <3>1, <3>2, <2>2, <1>6 DEF Explained
    <3> QED
      BY <3>3, <2>2 DEF r, n
  <2>4. CASE ~FreshSpan(k)
    <3>1. n.revived
      BY <2>2, <2>4
    <3>2. Explained(k, r, n, epochs)
      BY <3>1 DEF Explained
    <3> QED
      BY <3>2, <2>2 DEF r, n
  <2> QED
    BY <2>3, <2>4
<1> QED
  BY <1>7, <1>8

LEMMA FlushGood ==
    ASSUME TypeOK, GoodTable(spans, origin, marks, epochs),
           NEW sid, GoodRun(runs[sid])
    PROVE  /\ GoodTable(SpansAfter(sid), OriginAfter(sid), MarksAfter(sid), epochs)
           /\ DOMAIN spans \subseteq DOMAIN SpansAfter(sid)
<1> DEFINE run == runs[sid]
           K == FlushKeys(run)
           S == SpansAfter(sid)
           O == OriginAfter(sid)
           M == MarksAfter(sid)
           D == DOMAIN spans \cup K
<1>1. GoodRun(run) /\ \A k \in K : k \in Keys /\ Len(run.toks) >= SpanMin
  BY FlushKeysFacts
<1>2. /\ DOMAIN spans \subseteq Keys
      /\ \A k \in DOMAIN spans : /\ GoodSpan(k, spans[k], marks[k])
                                 /\ origin[k] \in Origins
                                 /\ Explained(k, spans[k], origin[k], epochs)
  BY DEF GoodTable
<1>3. DOMAIN S = D /\ DOMAIN O = D /\ DOMAIN M = D
  BY DEF SpansAfter, OriginAfter, MarksAfter
<1>4. ASSUME NEW k \in D, k \notin K
      PROVE  S[k] = spans[k] /\ O[k] = origin[k] /\ M[k] = marks[k]
  BY <1>4 DEF SpansAfter, OriginAfter, MarksAfter
<1>5. ASSUME NEW k \in K, k \notin DOMAIN spans
      PROVE  /\ S[k] = NewSpan(k, run) /\ M[k] = NoTable
             /\ O[k] = Plain(run)
  <2>1. k \notin ServedSpans
    BY <1>5 DEF ServedSpans
  <2>2. S[k] = NewSpan(k, run) /\ M[k] = NoTable
    BY <1>5 DEF SpansAfter, MarksAfter
  <2>3. O[k] = [file |-> run.dom, edits |-> 0, revived |-> FALSE,
                moved |-> k \in ServedSpans /\ spans[k].dom # run.dom]
    BY <1>5 DEF OriginAfter
  <2>4. (k \in ServedSpans /\ spans[k].dom # run.dom) = FALSE
    BY <2>1
  <2>5. O[k] = Plain(run)
    BY <2>3, <2>4 DEF Plain
  <2> QED
    BY <2>2, <2>5
<1>6. ASSUME NEW k \in K, k \in DOMAIN spans
      PROVE  /\ S[k] = Registered(k, run)
             /\ M[k] = MarksOf(Registered(k, run), marks[k])
             /\ O[k] = NoteOf(k, run)
  <2>1. S[k] = Registered(k, run)
    BY <1>6 DEF SpansAfter
  <2>2. M[k] = MarksOf(Registered(k, run), marks[k])
    BY <1>6 DEF MarksAfter, MarksOf
  <2>3. O[k] = NoteOf(k, run)
    <3>1. CASE Replaces(k, run)
      BY <3>1, <1>6 DEF OriginAfter, NoteOf
    <3>2. CASE ~Replaces(k, run)
      BY <3>2, <1>6 DEF OriginAfter, NoteOf
    <3> QED
      BY <3>1, <3>2
  <2> QED
    BY <2>1, <2>2, <2>3
<1> HIDE DEF S, O, M, K, run
<1>7. ASSUME NEW k \in D
      PROVE  GoodSpan(k, S[k], M[k]) /\ O[k] \in Origins /\ Explained(k, S[k], O[k], epochs)
  <2>1. CASE k \notin K
    BY <2>1, <1>2, <1>4
  <2>2. CASE k \in K /\ k \notin DOMAIN spans
    <3>1. O[k] \in Origins /\ O[k].file = run.dom /\ O[k].edits = 0
      <4>1. run.dom \in Domains
        BY <1>1 DEF GoodRun, RunSet
      <4> QED
        BY <4>1, <2>2, <1>5, PlainFacts
    <3> QED
      BY <3>1, <2>2, <1>1, <1>5, NewSpanGood
  <2>3. CASE k \in K /\ k \in DOMAIN spans
    <3>1. k \in Keys /\ Len(run.toks) >= SpanMin /\ GoodRun(run)
      BY <2>3, <1>1
    <3>2. GoodSpan(k, S[k], M[k])
      BY <3>1, <2>3, <1>2, <1>6, RegisteredGood
    <3>3. O[k] \in Origins /\ Explained(k, S[k], O[k], epochs)
      BY <3>1, <2>3, <1>2, <1>6, RegisteredExplained
    <3> QED
      BY <3>2, <3>3
  <2> QED
    BY <2>1, <2>2, <2>3
<1>8. D \subseteq Keys
  BY <1>1, <1>2
<1>9. GoodTable(S, O, M, epochs)
  BY <1>3, <1>7, <1>8 DEF GoodTable
<1> QED
  BY <1>3, <1>9 DEF S, O, M

LEMMA ExplainedSame ==
    ASSUME NEW k, NEW s, NEW n, NEW E, Explained(k, s, n, E),
           NEW r, r.dom = s.dom, r.epoch = s.epoch
    PROVE  Explained(k, r, n, E)
  BY DEF Explained

\* A draft breaks off a span that it followed from the start.
MarkedAt(m, ev) ==
    [o \in DOMAIN m \cup {ev.acc} |->
        IF o = ev.acc THEN SubSeq(ev.draft, 1, o + 1) ELSE m[o]]

EndOf(c, s) == \E o \in Nat : o <= Len(s) /\ c = LastN(s, o)

LEMMA WithBreakGood ==
    ASSUME NEW k \in Keys, NEW s, NEW m, GoodSpan(k, s, m), NEW ev, IsOutcome(ev),
           ev.acc < Len(ev.draft), ev.acc < Len(s.body), Follows(s.body, ev),
           patch \in Keys \cup {NoSpan}, EndOf(k.ctx, ev.tail),
           patch # NoSpan => EndOf(patch.ctx, PathTo(ev, ev.acc))
    PROVE  /\ GoodSpan(k, WithBreak(s, ev.acc), MarkedAt(m, ev))
           /\ WithBreak(s, ev.acc).dom = s.dom /\ WithBreak(s, ev.acc).epoch = s.epoch
<1> DEFINE off == ev.acc
           r == WithBreak(s, off)
           mr == MarkedAt(m, ev)
           old == IF off \in DOMAIN s.breaks THEN s.breaks[off]
                  ELSE [count |-> 0, patch |-> NoSpan]
           new == [count |-> old.count + 1,
                   patch |-> IF patch = NoSpan THEN old.patch ELSE patch]
           bs == [o \in DOMAIN s.breaks \cup {off} |->
                    IF o = off THEN new ELSE s.breaks[o]]
<1>1. /\ s = Self(s) /\ s.body \in Seq(Tokens) /\ Len(s.body) \in Nat
      /\ DOMAIN m = DOMAIN s.breaks
      /\ \A o \in DOMAIN s.breaks : GoodBreak(k, s, o, m[o])
  BY LenProperties DEF GoodSpan
<1>2. /\ ev.tail \in Seq(Tokens) /\ ev.draft \in Seq(Tokens)
      /\ off \in Nat /\ Len(ev.draft) \in Nat
  BY LenProperties DEF IsOutcome
<1>3. r = [s EXCEPT !.breaks = bs]
  BY DEF WithBreak
<1> HIDE DEF r, bs
<1>4. r = Made(s.body, s.dom, s.epoch, s.count, bs)
  BY <1>1, <1>3, Rebreak
<1>5. /\ r = Self(r) /\ r.body = s.body /\ r.dom = s.dom /\ r.epoch = s.epoch
      /\ r.count = s.count /\ r.breaks = bs
  BY <1>4 DEF Made, Self
<1>6. old.count \in Nat /\ old.patch \in Keys \cup {NoSpan}
  BY <1>1 DEF GoodBreak
<1>7. /\ new \in [count : Nat \ {0}, patch : Keys \cup {NoSpan}]
      /\ new.patch = IF patch = NoSpan THEN old.patch ELSE patch
  BY <1>6
<1>8. /\ DOMAIN bs = DOMAIN s.breaks \cup {off} /\ bs[off] = new
      /\ \A o \in DOMAIN s.breaks \ {off} : bs[o] = s.breaks[o]
  BY DEF bs
<1>9. /\ DOMAIN mr = DOMAIN bs /\ mr[off] = Begin(ev.draft, off + 1)
      /\ \A o \in DOMAIN s.breaks \ {off} : mr[o] = m[o]
  BY <1>1, <1>8 DEF MarkedAt, Begin
<1>10. Begin(s.body, off + 1) = Begin(ev.draft, off + 1)
  BY DEF Follows, Begin
<1>11. Begin(s.body, off) = Begin(ev.draft, off)
  <2>1. off + 1 \in Nat /\ off <= off + 1 /\ off + 1 <= Len(s.body) /\ off + 1 <= Len(ev.draft)
    BY <1>1, <1>2
  <2> QED
    BY <2>1, <1>1, <1>2, <1>10, BeginShorter
<1> DEFINE path == PathTo(ev, off)
           there == k.ctx \o Begin(s.body, off)
<1>12. path \in Seq(Tokens) /\ \E a \in Nat : a <= Len(path) /\ there = LastN(path, a)
  <2> DEFINE d == Begin(ev.draft, off)
  <2>1. d \in Seq(Tokens)
    BY <1>2, BeginFacts
  <2>2. path = ev.tail \o d
    BY DEF PathTo, Begin
  <2>3. PICK b \in Nat : b <= Len(ev.tail) /\ k.ctx = LastN(ev.tail, b)
    BY DEF EndOf
  <2> HIDE DEF d, path
  <2>4. /\ LastN(ev.tail, b) \o d = LastN(path, b + Len(d))
        /\ b + Len(d) <= Len(path) /\ b + Len(d) \in Nat
    <3>1. Len(d) \in Nat
      BY <2>1, LenProperties
    <3>2. LastN(ev.tail, b) \o d = LastN(ev.tail \o d, b + Len(d))
          /\ b + Len(d) <= Len(ev.tail \o d)
      BY <2>1, <2>3, <1>2, LastConcat
    <3> QED
      BY <3>1, <3>2, <2>2
  <2>5. path \in Seq(Tokens)
    BY <2>1, <2>2, <1>2, ConcatProperties
  <2> QED
    BY <2>3, <2>4, <2>5, <1>11 DEF d
<1>13. new.patch # NoSpan => SameContext(new.patch.ctx, there)
  <2>1. CASE patch = NoSpan
    <3>1. old.patch # NoSpan => off \in DOMAIN s.breaks /\ old = s.breaks[off]
      OBVIOUS
    <3> QED
      BY <2>1, <3>1, <1>1, <1>7 DEF GoodBreak
  <2>2. CASE patch # NoSpan
    <3>1. new.patch = patch /\ EndOf(patch.ctx, path)
      BY <2>2, <1>7
    <3> HIDE DEF path, there
    <3>2. \A a, b \in Nat : a <= Len(path) /\ b <= Len(path)
              => SameContext(LastN(path, a), LastN(path, b))
      BY <1>12, EndsAgree
    <3> QED
      BY <3>1, <3>2, <1>12 DEF EndOf
  <2> QED
    BY <2>1, <2>2
<1> HIDE DEF old, new, mr, path, off
<1>14. ASSUME NEW o \in DOMAIN bs PROVE GoodBreak(k, r, o, mr[o])
  <2>1. CASE o = off
    BY <2>1, <1>1, <1>2, <1>5, <1>7, <1>8, <1>9, <1>10, <1>13 DEF GoodBreak, off
  <2>2. CASE o # off
    <3>1. o \in DOMAIN s.breaks \ {off} /\ GoodBreak(k, s, o, m[o])
      BY <2>2, <1>1, <1>8
    <3>2. bs[o] = s.breaks[o] /\ mr[o] = m[o]
      BY <3>1, <1>8, <1>9
    <3> QED
      BY <3>1, <3>2, <1>5 DEF GoodBreak
  <2> QED
    BY <2>1, <2>2
<1>15. GoodSpan(k, r, mr)
  BY <1>5, <1>9, <1>14 DEF GoodSpan
<1> QED
  BY <1>5, <1>15 DEF r, mr, off

\* A span that is counted once more.
LEMMA CountedGood ==
    ASSUME NEW k, NEW s, NEW m, GoodSpan(k, s, m), NEW r, r = [s EXCEPT !.count = s.count + 1]
    PROVE  GoodSpan(k, r, m) /\ r.dom = s.dom /\ r.epoch = s.epoch
<1>1. s = Self(s) /\ s.count + 1 \in Nat \ {0}
  BY DEF GoodSpan
<1>2. r = Made(s.body, s.dom, s.epoch, s.count + 1, s.breaks)
  BY <1>1, Recount
<1>3. /\ r = Self(r) /\ r.body = s.body /\ r.dom = s.dom /\ r.epoch = s.epoch
      /\ r.count = s.count + 1 /\ r.breaks = s.breaks
  BY <1>2 DEF Made, Self
<1> QED
  BY <1>1, <1>3 DEF GoodSpan, GoodBreak

\* A span that outlives compaction.
LEMMA DecaySpanGood ==
    ASSUME NEW k, NEW s, NEW m, GoodSpan(k, s, m), s.count \div DecayDiv > 0
    PROVE  /\ GoodSpan(k, DecaySpan(s), MarksOf(DecaySpan(s), m))
           /\ DecaySpan(s).dom = s.dom /\ DecaySpan(s).epoch = s.epoch
<1> DEFINE r == DecaySpan(s)
           mr == MarksOf(r, m)
           kept == {o \in DOMAIN s.breaks : s.breaks[o].count \div DecayDiv > 0}
           bs == [o \in kept |-> [s.breaks[o] EXCEPT !.count = s.breaks[o].count \div DecayDiv]]
           c == s.count \div DecayDiv
<1>1. /\ s = Self(s) /\ s.count \in Nat /\ DOMAIN m = DOMAIN s.breaks
      /\ \A o \in DOMAIN s.breaks : GoodBreak(k, s, o, m[o])
  BY DEF GoodSpan
<1>2. \A n \in Nat : n \div DecayDiv > 0 => n \div DecayDiv \in Nat \ {0}
  <2>1. DecayDiv \in Nat \ {0}
    BY EntryConstants
  <2> QED
    BY <2>1
<1>3. r = [s EXCEPT !.count = c, !.breaks = bs]
  BY DEF DecaySpan
<1>4. c \in Nat \ {0}
  BY <1>1, <1>2
<1> HIDE DEF r, bs, c
<1>5. r = Made(s.body, s.dom, s.epoch, c, bs)
  BY <1>1, <1>3, Redecay
<1>6. /\ r = Self(r) /\ r.body = s.body /\ r.dom = s.dom /\ r.epoch = s.epoch
      /\ r.count = c /\ r.breaks = bs
  BY <1>5 DEF Made, Self
<1>7. ASSUME NEW o \in kept PROVE GoodBreak(k, r, o, m[o])
  <2>1. o \in DOMAIN s.breaks /\ GoodBreak(k, s, o, m[o])
    BY <1>1
  <2> DEFINE b == s.breaks[o]
             n == b.count \div DecayDiv
  <2>2. b \in [count : Nat \ {0}, patch : Keys \cup {NoSpan}]
    BY <2>1 DEF GoodBreak
  <2>3. n \in Nat \ {0} /\ bs[o] = [b EXCEPT !.count = n]
    BY <2>2, <1>2 DEF bs
  <2> HIDE DEF n
  <2>4. bs[o] \in [count : Nat \ {0}, patch : Keys \cup {NoSpan}] /\ bs[o].patch = b.patch
    BY <2>2, <2>3
  <2> QED
    BY <2>1, <2>4, <1>6 DEF GoodBreak
<1>8. DOMAIN bs = kept
  BY DEF bs
<1>9. DOMAIN mr = kept /\ \A o \in kept : mr[o] = m[o]
  BY <1>6, <1>8 DEF MarksOf
<1> HIDE DEF kept, mr
<1>10. GoodSpan(k, r, mr)
  BY <1>4, <1>6, <1>7, <1>8, <1>9 DEF GoodSpan
<1> QED
  BY <1>6, <1>10 DEF r, mr

-----------------------------------------------------------------------------
(* The table of spans, step by step.                                       *)

LEMMA CompactGood ==
    ASSUME GoodTable(spans, origin, marks, epochs), CompactSpans
    PROVE  GoodTable(spans', origin', marks', epochs)
<1>1. /\ spans' = [k \in LiveSpans |-> DecaySpan(spans[k])]
      /\ origin' = [k \in LiveSpans |-> origin[k]]
      /\ marks' = [k \in LiveSpans |-> MarksOf(DecaySpan(spans[k]), marks[k])]
  BY DEF CompactSpans, MarksOf
<1>2. \A k \in LiveSpans : k \in DOMAIN spans /\ spans[k].count \div DecayDiv > 0
  BY DEF LiveSpans, ServedSpans
<1> HIDE DEF LiveSpans
<1>3. DOMAIN spans' = LiveSpans /\ DOMAIN origin' = LiveSpans /\ DOMAIN marks' = LiveSpans
  BY <1>1
<1>4. ASSUME NEW k \in LiveSpans
      PROVE  /\ GoodSpan(k, spans'[k], marks'[k])
             /\ origin'[k] \in Origins /\ Explained(k, spans'[k], origin'[k], epochs)
  <2>1. /\ GoodSpan(k, spans[k], marks[k]) /\ origin[k] \in Origins
        /\ Explained(k, spans[k], origin[k], epochs)
        /\ spans[k].count \div DecayDiv > 0
    BY <1>2 DEF GoodTable
  <2>2. /\ spans'[k] = DecaySpan(spans[k]) /\ origin'[k] = origin[k]
        /\ marks'[k] = MarksOf(DecaySpan(spans[k]), marks[k])
    BY <1>1
  <2>3. /\ GoodSpan(k, spans'[k], marks'[k])
        /\ spans'[k].dom = spans[k].dom /\ spans'[k].epoch = spans[k].epoch
    BY <2>1, <2>2, DecaySpanGood
  <2> QED
    BY <2>1, <2>2, <2>3, ExplainedSame
<1>5. LiveSpans \subseteq Keys
  BY <1>2 DEF GoodTable
<1> QED
  BY <1>3, <1>4, <1>5 DEF GoodTable

\* The edit of a file: the epoch and the history advance together.
LEMMA EditExplained ==
    ASSUME TypeOK, NEW k \in Keys, NEW s, s.dom \in Domains, s.epoch \in 0..EpochMod - 1,
           NEW n \in Origins, Explained(k, s, n, epochs),
           NEW scope \in ScopeIds, NEW file \in Files,
           NEW o, o = IF k.scope = scope /\ n.file = file
                      THEN [n EXCEPT !.edits = Lesser(n.edits + 1, EpochMod)] ELSE n,
           NEW E, E = [epochs EXCEPT ![<<scope, file>>] = Next1(epochs[<<scope, file>>])]
    PROVE  o \in Origins /\ Explained(k, s, o, E)
<1> DEFINE was == NowOf(epochs, k.scope, s.dom)
           is == NowOf(E, k.scope, s.dom)
<1>1. file # NoFile /\ <<scope, file>> \in DOMAIN epochs /\ k.scope \in ScopeIds
  BY TypeConstants DEF NoFile, TypeOK, Keys
<1>2. was \in 0..EpochMod - 1
  BY <1>1, NowType, NowIsOf
<1>3. Lesser(n.edits + 1, EpochMod) \in 0..EpochMod /\ n.edits \in Nat
  BY StoreConstants DEF Origins, Lesser
<1>4. CASE k.scope = scope /\ n.file = file
  <2> DEFINE e == Lesser(n.edits + 1, EpochMod)
  <2>1. o = [n EXCEPT !.edits = e]
    BY <1>4
  <2>2. /\ o \in Origins /\ o.file = n.file /\ o.edits = e
        /\ o.moved = n.moved /\ o.revived = n.revived
    <3>1. e \in 0..EpochMod
      BY <1>3
    <3> HIDE DEF e
    <3> QED
      BY <2>1, <3>1 DEF Origins
  <2>3. ASSUME ~o.moved, ~o.revived
        PROVE  /\ s.dom = o.file /\ s.dom # NoFile
               /\ o.edits < EpochMod => s.epoch + o.edits \in {is, is + EpochMod}
    <3>1. ~n.moved /\ ~n.revived
      BY <2>2, <2>3
    <3>2. s.dom = n.file /\ s.dom # NoFile
      BY <3>1, <1>1, <1>4 DEF Explained
    <3>3. n.edits < EpochMod => s.epoch + n.edits \in {was, was + EpochMod}
      BY <3>1, <3>2 DEF Explained
    <3>4. is = Next1(was)
      BY <3>2, <1>1, <1>4 DEF NowOf
    <3> HIDE DEF is, was
    <3>5. ASSUME o.edits < EpochMod PROVE s.epoch + o.edits \in {is, is + EpochMod}
      <4>1. n.edits < EpochMod /\ o.edits = n.edits + 1
        BY <3>5, <2>2, <1>3, StoreConstants DEF Lesser
      <4>2. s.epoch \in Nat /\ s.epoch < EpochMod
        BY StoreConstants
      <4> QED
        BY <4>1, <4>2, <3>3, <3>4, <1>2, <1>3, StoreConstants DEF Next1
    <3> QED
      BY <2>2, <3>2, <3>5
  <2>4. Explained(k, s, o, E)
    BY <2>3 DEF Explained
  <2> QED
    BY <2>2, <2>4
<1>5. CASE ~ (k.scope = scope /\ n.file = file)
  <2>1. o = n
    BY <1>5
  <2>2. ASSUME ~n.moved, ~n.revived PROVE is = was
    <3>1. s.dom = n.file
      BY <2>2 DEF Explained
    <3>2. CASE s.dom = NoFile
      BY <3>2 DEF NowOf
    <3>3. CASE s.dom # NoFile
      <4>1. <<k.scope, s.dom>> # <<scope, file>>
        BY <3>1, <1>5
      <4>2. <<k.scope, s.dom>> \in DOMAIN epochs
        BY <3>3, <1>1 DEF TypeOK, Domains
      <4> QED
        BY <3>3, <4>1, <4>2 DEF NowOf
    <3> QED
      BY <3>2, <3>3
  <2> HIDE DEF is, was
  <2>3. ASSUME ~n.moved, ~n.revived
        PROVE  /\ s.dom = n.file
               /\ s.dom = NoFile => n.edits = 0
               /\ s.dom # NoFile /\ n.edits < EpochMod =>
                     s.epoch + n.edits \in {is, is + EpochMod}
    <3>1. is = was
      BY <2>2, <2>3
    <3>2. /\ s.dom = n.file
          /\ s.dom = NoFile => n.edits = 0
          /\ s.dom # NoFile /\ n.edits < EpochMod =>
                s.epoch + n.edits \in {was, was + EpochMod}
      BY <2>3 DEF Explained, was
    <3> QED
      BY <3>1, <3>2
  <2>4. Explained(k, s, n, E)
    BY <2>3 DEF Explained, is
  <2> QED
    BY <2>1, <2>4
<1> QED
  BY <1>4, <1>5

LEMMA BumpGood ==
    ASSUME TypeOK, GoodTable(spans, origin, marks, epochs),
           NEW scope \in ScopeIds, NEW file \in Files, BumpEpochV2(scope, file)
    PROVE  GoodTable(spans', origin', marks', epochs')
<1> DEFINE note(k) == IF k.scope = scope /\ origin[k].file = file
                      THEN [origin[k] EXCEPT !.edits = Lesser(origin[k].edits + 1, EpochMod)]
                      ELSE origin[k]
<1>1. /\ origin' = [k \in DOMAIN origin |-> note(k)]
      /\ epochs' = [epochs EXCEPT ![<<scope, file>>] = Next1(epochs[<<scope, file>>])]
      /\ spans' = spans /\ marks' = marks
  BY DEF BumpEpochV2, BumpEpoch
<1>2. /\ DOMAIN spans \subseteq Keys
      /\ DOMAIN origin = DOMAIN spans /\ DOMAIN marks = DOMAIN spans
      /\ \A k \in DOMAIN spans : /\ GoodSpan(k, spans[k], marks[k])
                                 /\ origin[k] \in Origins
                                 /\ Explained(k, spans[k], origin[k], epochs)
  BY DEF GoodTable
<1>3. ASSUME NEW k \in DOMAIN spans
      PROVE  origin'[k] \in Origins /\ Explained(k, spans[k], origin'[k], epochs')
  <2>1. /\ k \in Keys /\ GoodSpan(k, spans[k], marks[k]) /\ origin[k] \in Origins
        /\ Explained(k, spans[k], origin[k], epochs)
    BY <1>2
  <2>2. spans[k].dom \in Domains /\ spans[k].epoch \in 0..EpochMod - 1
    BY <2>1 DEF GoodSpan
  <2> DEFINE s == spans[k]
             n == origin[k]
             o == origin'[k]
             E == epochs'
  <2>3. o = IF k.scope = scope /\ n.file = file
            THEN [n EXCEPT !.edits = Lesser(n.edits + 1, EpochMod)] ELSE n
    BY <1>1, <1>2
  <2>4. E = [epochs EXCEPT ![<<scope, file>>] = Next1(epochs[<<scope, file>>])]
    BY <1>1
  <2>5. /\ s.dom \in Domains /\ s.epoch \in 0..EpochMod - 1
        /\ n \in Origins /\ Explained(k, s, n, epochs) /\ k \in Keys
    BY <2>1, <2>2
  <2> HIDE DEF s, n, o, E
  <2>6. o \in Origins /\ Explained(k, s, o, E)
    BY <2>3, <2>4, <2>5, EditExplained
  <2> QED
    BY <2>6 DEF s, o, E
<1>4. DOMAIN origin' = DOMAIN spans
  BY <1>1, <1>2
<1> QED
  BY <1>1, <1>2, <1>3, <1>4 DEF GoodTable

-----------------------------------------------------------------------------
(* Runs.                                                                   *)

LEMMA PathType ==
    ASSUME NEW ev, IsOutcome(ev), NEW pos \in Nat, pos <= ev.acc
    PROVE  PathTo(ev, pos) \in Seq(Tokens)
<1>1. /\ ev.tail \in Seq(Tokens) /\ ev.draft \in Seq(Tokens)
      /\ ev.acc \in Nat /\ ev.acc <= Len(ev.draft) /\ Len(ev.draft) \in Nat
  BY LenProperties DEF IsOutcome
<1>2. SubSeq(ev.draft, 1, pos) \in Seq(Tokens)
  <2>1. pos <= Len(ev.draft)
    BY <1>1
  <2> QED
    BY <2>1, <1>1, BeginFacts DEF Begin
<1> QED
  BY <1>1, <1>2, ConcatProperties DEF PathTo

LEMMA RunsGood ==
    ASSUME TypeOK, drain.phase = "apply",
           \A sid \in DOMAIN runs : sid \in ScopeIds /\ GoodRun(runs[sid])
    PROVE  \A sid \in DOMAIN RunsAfter : sid \in ScopeIds /\ GoodRun(RunsAfter[sid])
<1>1. /\ IsOutcome(work.ev) /\ work.pos \in Nat /\ work.pos <= work.ev.acc
  BY WorkFacts
<1>2. /\ Token \in Tokens /\ Seg \in Segments /\ Dom \in Domains
      /\ Session \in ScopeIds /\ work.ev.scopes \in [0..2 -> ScopeIds]
  BY <1>1, PositionFacts DEF Token, Seg, Dom, Session, IsOutcome
<1> DEFINE p == PathTo(work.ev, work.pos)
           n == Lesser(8, Len(p))
<1>3. p \in Seq(Tokens) /\ Len(p) \in Nat
  BY <1>1, PathType, LenProperties
<1>4. n \in Nat /\ n <= Len(p) /\ n <= 8
  BY <1>3 DEF Lesser
<1> HIDE DEF n, p
<1>5. LastN(p, n) \in Seq(Tokens) /\ Len(LastN(p, n)) <= 8
  BY <1>3, <1>4, LastFacts
<1>6. NewRun = [seg |-> Seg, dom |-> Dom, toks |-> <<Token>>, start |-> LastN(p, n),
                scopes |-> work.ev.scopes]
  BY DEF NewRun, p, n
<1>7. <<Token>> \in Seq(Tokens) /\ Len(<<Token>>) = 1
  BY <1>2
<1>8. GoodRun(NewRun)
  <2>1. NewRun \in RunSet
    BY <1>2, <1>5, <1>6, <1>7 DEF RunSet
  <2>2. Len(NewRun.toks) \in 1..SpanMax /\ Len(NewRun.start) <= 8
    BY <1>5, <1>6, <1>7, SpanConstants
  <2> QED
    BY <2>1, <2>2 DEF GoodRun
<1>9. ASSUME Session \in DOMAIN runs, ~RunEnds PROVE GoodRun(Longer(runs[Session]))
  <2> DEFINE run == runs[Session]
             toks == Append(run.toks, Token)
             dom == IF Dom = NoFile THEN run.dom ELSE Dom
  <2>1. run \in RunSet /\ Len(run.toks) \in Nat /\ Len(run.start) <= 8
    BY <1>9 DEF GoodRun
  <2>2. Len(run.toks) < SpanMax
    BY <1>9, <2>1, SpanConstants DEF RunEnds
  <2>3. Longer(run) = [run EXCEPT !.toks = toks, !.dom = dom]
    BY DEF Longer
  <2>4. toks \in Seq(Tokens) /\ Len(toks) = Len(run.toks) + 1
    BY <2>1, <1>2 DEF RunSet
  <2>5. dom \in Domains
    BY <2>1, <1>2 DEF RunSet
  <2> HIDE DEF run, toks, dom
  <2>6. /\ Longer(run) \in RunSet /\ Longer(run).toks = toks
        /\ Longer(run).start = run.start
    BY <2>1, <2>3, <2>4, <2>5 DEF RunSet
  <2>7. GoodRun(Longer(run))
    BY <2>1, <2>2, <2>4, <2>6, SpanConstants DEF GoodRun
  <2> QED
    BY <2>7 DEF run
<1>10. DOMAIN RunsAfter = DOMAIN runs \cup {Session}
  BY DEF RunsAfter
<1>11. ASSUME NEW sid \in DOMAIN runs \cup {Session} PROVE GoodRun(RunsAfter[sid])
  <2>1. CASE sid # Session
    BY <2>1, <1>11 DEF RunsAfter
  <2>2. CASE sid = Session /\ sid \in DOMAIN runs /\ ~RunEnds
    <3>1. RunsAfter[sid] = Longer(runs[sid])
      BY <2>2 DEF RunsAfter
    <3> QED
      BY <3>1, <2>2, <1>9
  <2>3. CASE sid = Session /\ ~ (sid \in DOMAIN runs /\ ~RunEnds)
    <3>1. RunsAfter[sid] = NewRun
      BY <2>3 DEF RunsAfter
    <3> QED
      BY <3>1, <1>8
  <2> QED
    BY <2>1, <2>2, <2>3
<1> QED
  BY <1>2, <1>10, <1>11

\* The table after the run of a session was, or was not, flushed.
LEMMA TrackedGood ==
    ASSUME TypeOK, GoodTable(spans, origin, marks, epochs),
           \A sid \in DOMAIN runs : sid \in ScopeIds /\ GoodRun(runs[sid])
    PROVE  /\ GoodTable(TrackedSpans, TrackedOrigin, TrackedMarks, epochs)
           /\ DOMAIN spans \subseteq DOMAIN TrackedSpans
<1>1. CASE RunEnds
  <2>1. GoodRun(runs[Session])
    BY <1>1 DEF RunEnds
  <2> QED
    BY <1>1, <2>1, FlushGood DEF TrackedSpans, TrackedOrigin, TrackedMarks
<1>2. CASE ~RunEnds
  BY <1>2 DEF TrackedSpans, TrackedOrigin, TrackedMarks
<1> QED
  BY <1>1, <1>2

\* One span of a table changes, and keeps the epoch it is bound to.
LEMMA OneSpanGood ==
    ASSUME NEW S, NEW O, NEW M, NEW E, GoodTable(S, O, M, E), NEW k \in DOMAIN S,
           NEW T, DOMAIN T = DOMAIN S, \A j \in DOMAIN S : j # k => T[j] = S[j],
           NEW N, DOMAIN N = DOMAIN S, \A j \in DOMAIN S : j # k => N[j] = M[j],
           GoodSpan(k, T[k], N[k]), T[k].dom = S[k].dom, T[k].epoch = S[k].epoch
    PROVE  GoodTable(T, O, N, E)
<1>1. Explained(k, T[k], O[k], E)
  BY ExplainedSame DEF GoodTable
<1>2. ASSUME NEW j \in DOMAIN S
      PROVE  GoodSpan(j, T[j], N[j]) /\ O[j] \in Origins /\ Explained(j, T[j], O[j], E)
  <2>1. CASE j = k
    BY <2>1, <1>1 DEF GoodTable
  <2>2. CASE j # k
    <3>1. T[j] = S[j] /\ N[j] = M[j]
      BY <2>2
    <3> QED
      BY <3>1 DEF GoodTable
  <2> QED
    BY <2>1, <2>2
<1> QED
  BY <1>2 DEF GoodTable

-----------------------------------------------------------------------------
(* The invariant.                                                          *)

RunsOK == \A sid \in DOMAIN runs : sid \in ScopeIds /\ GoodRun(runs[sid])

\* While a draft is judged: the span it follows starts where the draft does,
\* and the patch is a key of the rejected position.
Judged ==
    /\ target \in DOMAIN spans \cup {NoSpan}
    /\ patch \in Keys \cup {NoSpan}
    /\ drain.phase # "apply" => target = NoSpan
    /\ drain.phase = "apply" =>
          /\ target # NoSpan => EndOf(target.ctx, work.ev.tail)
          /\ patch # NoSpan => EndOf(patch.ctx, PathTo(work.ev, work.ev.acc))

SpansInv == GoodTable(spans, origin, marks, epochs) /\ RunsOK /\ Judged

LEMMA SpansInit == InitSpans => SpansInv
<1> SUFFICES ASSUME InitSpans PROVE SpansInv
  OBVIOUS
<1>1. /\ DOMAIN spans = {} /\ DOMAIN origin = {} /\ DOMAIN marks = {} /\ DOMAIN runs = {}
      /\ target = NoSpan /\ patch = NoSpan /\ drain.phase = "idle"
  BY DEF InitSpans, Init, NoTable, NoDrain
<1> QED
  BY <1>1 DEF SpansInv, GoodTable, RunsOK, Judged

\* The key of a probe ends the stream before its position.
LEMMA ProbeEnds ==
    ASSUME NEW ev, NEW pos, NEW probe \in ProbesAt(ev, pos)
    PROVE  EndOf(KeyAt(ev, pos, probe).ctx, PathTo(ev, pos))
<1>1. probe[1] \in Nat /\ probe[1] <= Len(PathTo(ev, pos))
  <2>1. probe[1] \in Orders /\ probe[1] <= Len(PathTo(ev, pos))
    BY DEF ProbesAt
  <2>2. Orders \subseteq Nat
    BY OutcomeConstants
  <2> QED
    BY <2>1, <2>2
<1>2. KeyAt(ev, pos, probe).ctx = LastN(PathTo(ev, pos), probe[1])
  BY DEF KeyAt
<1> QED
  BY <1>1, <1>2 DEF EndOf

LEMMA NotePatchJudged ==
    ASSUME TypeOK, Judged, NEW probe \in work.todo, VisitProbe(probe), NotePatch(probe),
           UNCHANGED <<spans, target>>
    PROVE  Judged'
<1> DEFINE k == KeyAt(work.ev, work.pos, probe)
<1>1. /\ drain.phase = "apply" /\ drain' = drain /\ work'.ev = work.ev
  BY DEF VisitProbe, TypeOK
<1>2. /\ IsOutcome(work.ev) /\ work.pos \in Nat /\ work.pos <= work.ev.acc
      /\ probe \in ProbesAt(work.ev, work.pos)
  BY <1>1, WorkFacts
<1>3. k \in Keys /\ EndOf(k.ctx, PathTo(work.ev, work.pos))
  BY <1>2, KeyType, ProbeEnds
<1>4. \/ patch' = patch
      \/ patch' = k /\ work.pos = work.ev.acc
  BY DEF NotePatch, IsRejectAt
<1> HIDE DEF k
<1>5. /\ patch' \in Keys \cup {NoSpan}
      /\ patch' # NoSpan => EndOf(patch'.ctx, PathTo(work.ev, work.ev.acc))
  <2>1. CASE patch' = patch
    BY <2>1, <1>1 DEF Judged
  <2>2. CASE patch' = k /\ work.pos = work.ev.acc
    BY <2>2, <1>3
  <2> QED
    BY <1>4, <2>1, <2>2
<1> QED
  BY <1>1, <1>5 DEF Judged

\* The span an outcome is judged against starts with the end of its tail.
LEMMA BestJudged ==
    ASSUME NEW ctx, NEW scopes, NEW seg, NEW k \in BestSpans(ctx, scopes, seg)
    PROVE  k \in DOMAIN spans /\ EndOf(k.ctx, ctx)
<1>1. k \in SpanKeys(ctx, scopes, seg, 2..8, Depths) /\ k \in ServedSpans
  BY DEF BestSpans
<1>2. PICK o \in {p \in 2..8 : p <= Len(ctx)}, d \in Depths :
         k = [ctx |-> LastN(ctx, o), scope |-> scopes[d], seg |-> seg]
  BY <1>1 DEF SpanKeys
<1>3. o \in Nat /\ o <= Len(ctx) /\ k.ctx = LastN(ctx, o)
  BY <1>2
<1> QED
  BY <1>1, <1>3 DEF EndOf, ServedSpans

LEMMA TakeGood ==
    ASSUME TypeOK, SpansInv, TakeOutcomeV2
    PROVE  SpansInv'
<1>1. /\ drain'.phase = "apply" /\ work'.ev = Head(queue) /\ epochs' = epochs
  BY DEF TakeOutcomeV2, TakeOutcome, TypeOK
<1>2. /\ patch' = NoSpan /\ spans' = spans /\ runs' = runs
      /\ origin' = origin /\ marks' = marks
  BY DEF TakeOutcomeV2
<1> DEFINE ev == Head(queue)
           best == BestSpans(ev.tail, ev.scopes, SegAt(ev, 0))
<1>3. target' = NoSpan \/ target' \in best
  BY DEF TakeOutcomeV2
<1>4. \A k \in best : k \in DOMAIN spans /\ EndOf(k.ctx, ev.tail)
  BY BestJudged
<1> HIDE DEF best
<1>5. Judged'
  BY <1>1, <1>2, <1>3, <1>4 DEF Judged
<1> QED
  BY <1>1, <1>2, <1>5 DEF SpansInv, RunsOK

\* The verdict on the draft.
LEMMA EndApplyGood ==
    ASSUME TypeOK, SpansInv, EndApplyV2
    PROVE  SpansInv'
<1> DEFINE ev == work.ev
           S == TrackedSpans
           O == TrackedOrigin
           M == TrackedMarks
<1>1. /\ drain.phase = "apply" /\ epochs' = epochs /\ drain'.phase = "loop"
      /\ target' = NoSpan /\ patch' = NoSpan /\ runs' = RunsAfter /\ origin' = O
  BY DEF EndApplyV2, EndApply, TypeOK
<1>2. IsOutcome(ev)
  BY <1>1, WorkFacts
<1>3. GoodTable(S, O, M, epochs) /\ DOMAIN spans \subseteq DOMAIN S
  BY TrackedGood DEF SpansInv, RunsOK
<1>4. RunsOK'
  BY <1>1, RunsGood DEF SpansInv, RunsOK
<1>5. Judged'
  BY <1>1 DEF Judged
<1>6. /\ DOMAIN M = DOMAIN S
      /\ \A k \in DOMAIN S : k \in Keys /\ GoodSpan(k, S[k], M[k])
  BY <1>3 DEF GoodTable
<1>7. target # NoSpan => target \in DOMAIN S
  BY <1>3 DEF SpansInv, Judged
<1>8. GoodTable(spans', origin', marks', epochs)
  <2>1. CASE BrokeOff(ev)
    <3> DEFINE s == S[target]
               r == WithBreak(s, ev.acc)
               mr == MarkedAt(M[target], ev)
    <3>1. /\ target # NoSpan /\ ev.acc < Len(ev.draft)
          /\ ev.acc < Len(s.body) /\ Follows(s.body, ev)
      BY <2>1 DEF BrokeOff
    <3>2. spans' = [S EXCEPT ![target] = r] /\ marks' = [M EXCEPT ![target] = mr]
      <4>1. spans' = [TrackedSpans EXCEPT ![target] = WithBreak(@, ev.acc)]
        <5>1. ~Reused(ev)
          BY <3>1, <1>2, LenProperties DEF Reused, IsOutcome
        <5> QED
          BY <2>1, <5>1 DEF EndApplyV2
      <4>2. marks' = [TrackedMarks EXCEPT ![target] = MarkedAt(@, ev)]
        BY <2>1 DEF EndApplyV2, MarkedAt
      <4> QED
        BY <4>1, <4>2
    <3>3. target \in Keys /\ GoodSpan(target, s, M[target]) /\ target \in DOMAIN S
      BY <3>1, <1>6, <1>7
    <3>4. /\ EndOf(target.ctx, ev.tail) /\ patch \in Keys \cup {NoSpan}
          /\ patch # NoSpan => EndOf(patch.ctx, PathTo(ev, ev.acc))
      BY <3>1, <1>1 DEF SpansInv, Judged
    <3>5. GoodSpan(target, r, mr) /\ r.dom = s.dom /\ r.epoch = s.epoch
      BY <3>1, <3>3, <3>4, <1>2, WithBreakGood
    <3> HIDE DEF S, O, M, r, mr
    <3>6. /\ DOMAIN spans' = DOMAIN S /\ spans'[target] = r
          /\ \A j \in DOMAIN S : j # target => spans'[j] = S[j]
          /\ DOMAIN marks' = DOMAIN S /\ marks'[target] = mr
          /\ \A j \in DOMAIN S : j # target => marks'[j] = M[j]
      BY <3>2, <3>3, <1>6
    <3> QED
      BY <3>3, <3>5, <3>6, <1>1, <1>3, OneSpanGood
  <2>2. CASE ~BrokeOff(ev) /\ Reused(ev)
    <3> DEFINE s == S[target]
               r == [s EXCEPT !.count = s.count + 1]
    <3>1. spans' = [S EXCEPT ![target] = r] /\ marks' = M
      BY <2>2 DEF EndApplyV2
    <3>2. target \in DOMAIN S /\ GoodSpan(target, s, M[target])
      BY <2>2, <1>6, <1>7 DEF Reused
    <3>3. GoodSpan(target, r, M[target]) /\ r.dom = s.dom /\ r.epoch = s.epoch
      BY <3>2, CountedGood
    <3> HIDE DEF S, O, M, r
    <3>4. /\ DOMAIN spans' = DOMAIN S /\ spans'[target] = r
          /\ \A j \in DOMAIN S : j # target => spans'[j] = S[j]
      BY <3>1, <3>2
    <3> QED
      BY <3>1, <3>2, <3>3, <3>4, <1>1, <1>3, <1>6, OneSpanGood
  <2>3. CASE ~BrokeOff(ev) /\ ~Reused(ev)
    <3>1. spans' = S /\ marks' = M
      BY <2>3 DEF EndApplyV2
    <3> QED
      BY <3>1, <1>1, <1>3
  <2> QED
    BY <2>1, <2>2, <2>3
<1> QED
  BY <1>1, <1>4, <1>5, <1>8 DEF SpansInv

\* Every other step.
LEMMA SpansStep == TypeOK /\ SpansInv /\ [NextV2]_allVars => SpansInv'
<1> SUFFICES ASSUME TypeOK, SpansInv, [NextV2]_allVars PROVE SpansInv'
  OBVIOUS
<1>1. /\ GoodTable(spans, origin, marks, epochs) /\ RunsOK /\ Judged
  BY DEF SpansInv
<1>2. ASSUME NEW ev \in Outcomes, HarvestV2(ev) PROVE SpansInv'
  <2>1. UNCHANGED <<spanVars, epochs, drain, work>>
    BY <1>2 DEF HarvestV2, Harvest
  <2> QED
    BY <1>1, <2>1 DEF SpansInv, RunsOK, Judged, spanVars
<1>3. ASSUME NEW scope \in ScopeIds, NEW file \in Files, BumpEpochV2(scope, file)
      PROVE  SpansInv'
  <2>1. UNCHANGED <<spans, runs, target, patch, drain, work>>
    BY <1>3 DEF BumpEpochV2, BumpEpoch
  <2>2. GoodTable(spans', origin', marks', epochs')
    BY <1>1, <1>3, BumpGood
  <2> QED
    BY <1>1, <2>1, <2>2 DEF SpansInv, RunsOK, Judged
<1>4. ASSUME NEW limit \in DrainLimits, StartDrainV2(limit) PROVE SpansInv'
  <2>1. /\ UNCHANGED <<spanVars, epochs>>
        /\ drain.phase = "idle" /\ drain'.phase = "loop"
    BY <1>4 DEF StartDrainV2, StartDrain
  <2> QED
    BY <1>1, <2>1 DEF SpansInv, RunsOK, Judged, spanVars
<1>5. CASE TakeOutcomeV2
  BY <1>5, TakeGood
<1>6. ASSUME NEW probe \in work.todo, UpdateEntryV2(probe) \/ CreateEntryV2(probe)
      PROVE  SpansInv'
  <2>1. /\ VisitProbe(probe) /\ NotePatch(probe)
        /\ UNCHANGED <<spans, runs, target, origin, marks, epochs>>
    BY <1>6 DEF UpdateEntryV2, CreateEntryV2, UpdateEntry, CreateEntry, VisitProbe
  <2>2. Judged'
    BY <1>1, <2>1, NotePatchJudged
  <2> QED
    BY <1>1, <2>1, <2>2 DEF SpansInv, RunsOK
<1>7. CASE NextPositionV2
  <2>1. /\ runs' = RunsAfter /\ spans' = TrackedSpans
        /\ origin' = TrackedOrigin /\ marks' = TrackedMarks
        /\ UNCHANGED <<target, patch>>
    BY <1>7 DEF NextPositionV2
  <2>2. drain.phase = "apply" /\ drain' = drain /\ epochs' = epochs /\ work'.ev = work.ev
    BY <1>7 DEF NextPositionV2, NextPosition, TypeOK
  <2>3. /\ GoodTable(TrackedSpans, TrackedOrigin, TrackedMarks, epochs)
        /\ DOMAIN spans \subseteq DOMAIN TrackedSpans
    BY <1>1, TrackedGood DEF RunsOK
  <2>4. RunsOK'
    BY <1>1, <2>1, <2>2, RunsGood DEF RunsOK
  <2>5. Judged'
    BY <1>1, <2>1, <2>2, <2>3 DEF Judged
  <2> QED
    BY <2>1, <2>2, <2>3, <2>4, <2>5 DEF SpansInv
<1>8. CASE EndApplyV2
  BY <1>8, EndApplyGood
<1>9. CASE EndDrainV2
  <2>1. /\ drain.phase = "loop" /\ drain'.phase = "idle" /\ epochs' = epochs
        /\ UNCHANGED <<runs, target, patch>>
        /\ CompactSpans \/ UNCHANGED <<spans, origin, marks>>
    BY <1>9 DEF EndDrainV2, EndDrain, NoDrain
  <2>2. GoodTable(spans', origin', marks', epochs')
    BY <1>1, <2>1, CompactGood
  <2>3. target = NoSpan
    BY <1>1, <2>1 DEF Judged
  <2> QED
    BY <1>1, <2>1, <2>2, <2>3 DEF SpansInv, RunsOK, Judged
<1>10. CASE CompactV2
  <2>1. /\ drain.phase = "idle" /\ drain' = drain /\ epochs' = epochs
        /\ UNCHANGED <<runs, target, patch>> /\ CompactSpans
    BY <1>10 DEF CompactV2, Compact
  <2>2. GoodTable(spans', origin', marks', epochs')
    BY <1>1, <2>1, CompactGood
  <2>3. target = NoSpan
    BY <1>1, <2>1 DEF Judged
  <2> QED
    BY <1>1, <2>1, <2>2, <2>3 DEF SpansInv, RunsOK, Judged
<1>11. ASSUME NEW sid \in DOMAIN runs, FlushRun(sid) PROVE SpansInv'
  <2>1. /\ drain.phase = "idle" /\ drain' = drain /\ epochs' = epochs
        /\ spans' = SpansAfter(sid) /\ origin' = OriginAfter(sid)
        /\ marks' = MarksAfter(sid)
        /\ runs' = [s \in DOMAIN runs \ {sid} |-> runs[s]]
        /\ UNCHANGED <<target, patch>>
    BY <1>11 DEF FlushRun, vars
  <2>2. GoodTable(spans', origin', marks', epochs')
    BY <1>1, <2>1, FlushGood DEF RunsOK
  <2>3. RunsOK'
    BY <1>1, <2>1 DEF RunsOK
  <2>4. target = NoSpan
    BY <1>1, <2>1 DEF Judged
  <2> QED
    BY <1>1, <2>1, <2>2, <2>3, <2>4 DEF SpansInv, Judged
<1>12. CASE UNCHANGED allVars
  BY <1>1, <1>12 DEF SpansInv, RunsOK, Judged, allVars, vars, spanVars
<1> QED
  BY <1>2, <1>3, <1>4, <1>5, <1>6, <1>7, <1>8, <1>9, <1>10, <1>11, <1>12 DEF NextV2

\* To the hot table, a step of version 2 is a step of the store.
LEMMA StoreStep == [NextV2]_allVars => [Next]_vars
  BY DEF NextV2, Next, Drain, HarvestV2, BumpEpochV2, StartDrainV2, TakeOutcomeV2,
         UpdateEntryV2, CreateEntryV2, NextPositionV2, EndApplyV2, EndDrainV2, CompactV2,
         FlushRun, allVars

LEMMA SpansTyped == SpecV2 => []Typed
<1>1. InitSpans => Typed
  BY TypedInit DEF InitSpans
<1> QED
  BY <1>1, StoreStep, TypedStep, PTL DEF SpecV2

LEMMA SpansInvariant == SpecV2 => []SpansInv
<1>1. Typed => TypeOK
  BY TypedIsTypeOK
<1> QED
  BY <1>1, SpansInit, SpansStep, SpansTyped, PTL DEF SpecV2

-----------------------------------------------------------------------------
(* What it shows.                                                          *)

\* The version 2 variables have their types, in every reachable state.
THEOREM SpansTypeCorrect == SpecV2 => []SpanTypeOK
<1>1. SpansInv => SpanTypeOK
  <2> SUFFICES ASSUME SpansInv PROVE SpanTypeOK
    OBVIOUS
  <2>1. /\ DOMAIN spans \subseteq Keys
        /\ DOMAIN origin = DOMAIN spans /\ DOMAIN marks = DOMAIN spans
    BY DEF SpansInv, GoodTable
  <2>2. ASSUME NEW k \in DOMAIN spans
        PROVE  /\ IsSpan(spans[k]) /\ origin[k] \in Origins
               /\ DOMAIN marks[k] = DOMAIN spans[k].breaks
    <3>1. GoodSpan(k, spans[k], marks[k]) /\ origin[k] \in Origins
      BY DEF SpansInv, GoodTable
    <3>2. ASSUME NEW o \in DOMAIN spans[k].breaks
          PROVE  /\ spans[k].breaks[o].count \in Nat \ {0}
                 /\ spans[k].breaks[o].patch \in Keys \cup {NoSpan}
      BY <3>1 DEF GoodSpan, GoodBreak
    <3> QED
      BY <3>1, <3>2 DEF GoodSpan, IsSpan
  <2>3. \A sid \in DOMAIN runs : sid \in ScopeIds /\ IsRun(runs[sid])
    BY DEF SpansInv, RunsOK, GoodRun, RunSet, IsRun
  <2>4. target \in DOMAIN spans \cup {NoSpan} /\ patch \in Keys \cup {NoSpan}
    BY DEF SpansInv, Judged
  <2> QED
    BY <2>1, <2>2, <2>3, <2>4 DEF SpanTypeOK, Origins
<1> QED
  BY <1>1, SpansInvariant, PTL

\* A break lies inside the body of its span, and the draft it was recorded
\* for agreed with that body up to the break, whatever replaced the body.
THEOREM BreaksFitBodies == SpecV2 => []BreaksMatchBody
<1>1. SpansInv => BreaksMatchBody
  <2> SUFFICES ASSUME SpansInv, NEW k \in DOMAIN spans, NEW o \in DOMAIN spans[k].breaks
               PROVE  /\ o < Len(spans[k].body)
                      /\ SubSeq(spans[k].body, 1, o + 1) = marks[k][o]
    BY DEF BreaksMatchBody
  <2>1. GoodBreak(k, spans[k], o, marks[k][o])
    BY DEF SpansInv, GoodTable, GoodSpan
  <2> QED
    BY <2>1 DEF GoodBreak, Begin
<1> QED
  BY <1>1, SpansInvariant, PTL

\* The patch of a break is an entry a lookup reads that follows the span up
\* to the break.
THEOREM PatchesFollow == SpecV2 => []PatchIsAtBreak
<1>1. SpansInv => PatchIsAtBreak
  <2> SUFFICES ASSUME SpansInv, NEW k \in DOMAIN spans, NEW o \in DOMAIN spans[k].breaks,
                      spans[k].breaks[o].patch # NoSpan
               PROVE  SameContext(spans[k].breaks[o].patch.ctx,
                                  k.ctx \o SubSeq(spans[k].body, 1, o))
    BY DEF PatchIsAtBreak
  <2>1. GoodBreak(k, spans[k], o, marks[k][o])
    BY DEF SpansInv, GoodTable, GoodSpan
  <2> QED
    BY <2>1 DEF GoodBreak, Begin
<1> QED
  BY <1>1, SpansInvariant, PTL

\* A span outlives an edit of the file of its body only when it stayed bound
\* to another file or came back with a shorter run.
THEOREM StaleSpansHaveReason == SpecV2 => []StaleSpansExplained
<1>1. TypeOK /\ SpansInv => StaleSpansExplained
  <2> SUFFICES ASSUME TypeOK, SpansInv, NEW k \in ServedSpans,
                      origin[k].edits \in 1..EpochMod - 1,
                      ~origin[k].moved, ~origin[k].revived
               PROVE  FALSE
    BY DEF StaleSpansExplained
  <2> DEFINE s == spans[k]
             n == origin[k].edits
             now == NowOf(epochs, k.scope, s.dom)
  <2>1. /\ k \in Keys /\ GoodSpan(k, s, marks[k])
        /\ Explained(k, s, origin[k], epochs)
    BY DEF SpansInv, GoodTable, ServedSpans
  <2>2. s.epoch = now
    BY NowIsOf DEF ServedSpans, FreshSpan
  <2>3. /\ s.dom = NoFile => n = 0
        /\ s.dom # NoFile /\ n < EpochMod => s.epoch + n \in {now, now + EpochMod}
    BY <2>1 DEF Explained
  <2>4. s.epoch \in 0..EpochMod - 1
    BY <2>1 DEF GoodSpan
  <2>5. n \in 1..EpochMod - 1
    OBVIOUS
  <2> HIDE DEF s, n, now
  <2> QED
    BY <2>2, <2>3, <2>4, <2>5, StoreConstants
<1>2. Typed => TypeOK
  BY TypedIsTypeOK
<1> QED
  BY <1>1, <1>2, SpansTyped, SpansInvariant, PTL

\* The hot table of version 2 serves nothing observed before an edit of its
\* file, as it did without spans.
THEOREM SpansServeCurrent == SpecV2 => []ServedIsCurrent
<1>1. InitSpans => AllAccounted
  BY DEF InitSpans, Init, NoTable, AllAccounted
<1> QED
  BY <1>1, StoreStep, AccountedStep, AccountedServes, SpansTyped, PTL DEF SpecV2

-----------------------------------------------------------------------------
(* What lookups offer: whatever the weights and the prior of the blend, a  *)
(* posterior names only tokens of entries that are current.                *)

\* The candidates of a posterior come from its sources.
LEMMA PosteriorOffers ==
    ASSUME NEW sources, NEW c \in Posterior(sources).cands
    PROVE  \E s \in sources : c.tok \in DOMAIN s.cands
<1> DEFINE S    == {s \in sources : s.weight > 0}
           all  == {Candidate(S, t) : t \in Offered(S)}
           best == BestScore(all)
           kept == {d \in all :
                      Cardinality(all) - Cardinality(Behind(all, d, best)) <= MaxCands}
           mass == Greater(One, MapThenSumSet(LAMBDA d : d.hat, kept))
<1>1. S # {}
  BY DEF Posterior, NoPosterior
<1>2. Posterior(sources).cands = {[d EXCEPT !.hat = Ratio(@, mass)] : d \in kept}
  BY <1>1 DEF Posterior
<1> HIDE DEF mass
<1>3. PICK d \in kept : c = [d EXCEPT !.hat = Ratio(@, mass)]
  BY <1>2
<1>4. PICK t \in Offered(S) : d = Candidate(S, t)
  OBVIOUS
<1>5. c.tok = t
  BY <1>3, <1>4 DEF Candidate
<1> QED
  BY <1>4, <1>5 DEF Offered

\* The candidates of a source are candidates of a current entry.
LEMMA SourcesAreServed ==
    ASSUME NEW q, NEW s \in Sources(q), NEW t \in DOMAIN s.cands
    PROVE  \E probe \in Probed(q) : LET k == ProbedKey(q, probe)
                                    IN  k \in Served /\ t \in DOMAIN hot[k].cands
<1>1. PICK probe \in Hits(q) :
         s = Source(probe[1], probe[2], View(hot[ProbedKey(q, probe)]))
  BY DEF Sources
<1> DEFINE k == ProbedKey(q, probe)
<1>2. probe \in Probed(q) /\ k \in Served
  BY DEF Hits
<1>3. s.cands = View(hot[k])
  BY <1>1 DEF Source
<1>4. t \in DOMAIN hot[k].cands
  BY <1>3 DEF View
<1> QED
  BY <1>2, <1>4

LEMMA ServedIsOffered == TypeOK /\ ServedIsCurrent => OffersAreCurrent
<1> SUFFICES ASSUME TypeOK, ServedIsCurrent,
                    NEW q \in Queries, NEW c \in Lookup(q).cands
             PROVE  \E probe \in Probed(q) :
                      LET k == ProbedKey(q, probe)
                      IN  /\ k \in DOMAIN hot /\ c.tok \in DOMAIN hot[k].cands
                          /\ seen[k].edits \in {0, EpochMod}
  BY DEF OffersAreCurrent
<1>1. PICK s \in Sources(q) : c.tok \in DOMAIN s.cands
  BY PosteriorOffers DEF Lookup
<1>2. PICK probe \in Probed(q) : /\ ProbedKey(q, probe) \in Served
                                 /\ c.tok \in DOMAIN hot[ProbedKey(q, probe)].cands
  BY <1>1, SourcesAreServed
<1> DEFINE k == ProbedKey(q, probe)
<1>3. k \in DOMAIN hot
  BY <1>2 DEF Served
<1>4. seen[k].edits \in 0..EpochMod /\ (seen[k].edits < EpochMod => seen[k].edits = 0)
  BY <1>2, <1>3 DEF TypeOK, ServedIsCurrent
<1> HIDE DEF k
<1>5. seen[k].edits \in {0, EpochMod}
  BY <1>4, StoreConstants
<1> QED
  BY <1>2, <1>3, <1>5 DEF k

\* A lookup offers no token that only entries of an edited file know.
THEOREM OffersCurrent == Spec => []OffersAreCurrent
BY ServedIsOffered, StoreTyped, ServedCurrent, PTL

\* The same beside the spans of version 2.
THEOREM SpansOfferCurrent == SpecV2 => []OffersAreCurrent
<1>1. Typed => TypeOK
  BY TypedIsTypeOK
<1> QED
  BY <1>1, ServedIsOffered, SpansTyped, SpansServeCurrent, PTL

-----------------------------------------------------------------------------
(* Sums over finite sets, and the acceptance rates of the blend.           *)

\* The element that a sum over a set takes first.
Picked(s) == CHOOSE x \in s : TRUE

\* f[s] is the sum of v over the subset s of S.
Sums(f, S, v) ==
    /\ f \in [SUBSET S -> Nat]
    /\ \A s \in SUBSET S : f[s] = IF s = {} THEN 0 ELSE v[Picked(s)] + f[s \ {Picked(s)}]

\* What is left of a finite set is smaller.
LEMMA PickedFacts ==
    ASSUME NEW S, IsFiniteSet(S), NEW s \in SUBSET S, s # {}
    PROVE  /\ Picked(s) \in s /\ s \ {Picked(s)} \in SUBSET S
           /\ IsFiniteSet(s) /\ Cardinality(s) \in Nat
           /\ Cardinality(s \ {Picked(s)}) = Cardinality(s) - 1
<1>1. Picked(s) \in s
  BY DEF Picked
<1>2. IsFiniteSet(s)
  BY FS_Subset
<1>3. Cardinality(s) \in Nat
  BY <1>2, FS_CardinalityType
<1>4. Cardinality(s \ {Picked(s)}) = Cardinality(s) - 1
  BY <1>1, <1>2, FS_RemoveElement
<1> QED
  BY <1>1, <1>2, <1>3, <1>4

\* Induction over the subsets of a finite set.
LEMMA SubsetInduction ==
    ASSUME NEW S, IsFiniteSet(S), NEW T, {} \in T,
           \A s \in SUBSET S : s # {} /\ s \ {Picked(s)} \in T => s \in T
    PROVE  SUBSET S \subseteq T
<1> DEFINE M == (SUBSET S) \ T
<1> SUFFICES ASSUME M # {} PROVE FALSE
  OBVIOUS
<1>1. IsWellFoundedOn(StrictSubsetOrdering(S), SUBSET S)
  BY FS_StrictSubsetOrderingWellFounded, FS_FiniteSubsetsOfFinite
<1>2. PICK s \in M : \A u \in M : ~ (<<u, s>> \in StrictSubsetOrdering(S))
  <2>1. M \subseteq SUBSET S
    OBVIOUS
  <2> HIDE DEF M
  <2> QED
    BY <1>1, <2>1, WFMin
<1>3. s \in SUBSET S /\ s # {}
  OBVIOUS
<1> DEFINE u == s \ {Picked(s)}
<1>4. Picked(s) \in s /\ u \in SUBSET S
  BY <1>3, PickedFacts
<1>5. <<u, s>> \in StrictSubsetOrdering(S)
  BY <1>3, <1>4 DEF StrictSubsetOrdering
<1>6. u \in T
  BY <1>2, <1>4, <1>5
<1> QED
  BY <1>3, <1>6

\* A sum exists over every finite set.
LEMMA SumsExist ==
    ASSUME NEW S, IsFiniteSet(S), NEW v \in [S -> Nat]
    PROVE  \E f : Sums(f, S, v)
<1> DEFINE Low(n)     == {s \in SUBSET S : Cardinality(s) <= n}
           Taken(f, s) == IF s = {} THEN 0 ELSE v[Picked(s)] + f[s \ {Picked(s)}]
           Good(n, f) == f \in [Low(n) -> Nat] /\ \A s \in Low(n) : f[s] = Taken(f, s)
           T          == {n \in Nat : \E f : Good(n, f)}
<1>1. \A s \in SUBSET S : Cardinality(s) \in Nat /\ (Cardinality(s) = 0 <=> s = {})
  BY FS_Subset, FS_CardinalityType, FS_EmptySet
<1>2. 0 \in T
  <2> DEFINE f == [s \in Low(0) |-> 0]
  <2>1. \A s \in Low(0) : s = {}
    BY <1>1
  <2>2. f \in [Low(0) -> Nat] /\ \A s \in Low(0) : f[s] = 0
    OBVIOUS
  <2> HIDE DEF f
  <2>3. Good(0, f)
    BY <2>1, <2>2
  <2> HIDE DEF Good
  <2> QED
    BY <2>3
<1>3. ASSUME NEW n \in Nat, n \in T PROVE n + 1 \in T
  <2>1. PICK f : Good(n, f)
    BY <1>3
  <2> DEFINE g == [s \in Low(n + 1) |-> Taken(f, s)]
  <2>2. ASSUME NEW s \in Low(n + 1), s # {} PROVE s \ {Picked(s)} \in Low(n) /\ v[Picked(s)] \in Nat
    <3>1. /\ Picked(s) \in s /\ s \ {Picked(s)} \in SUBSET S /\ Cardinality(s) \in Nat
          /\ Cardinality(s \ {Picked(s)}) = Cardinality(s) - 1
      BY <2>2, PickedFacts
    <3>2. Cardinality(s) <= n + 1
      OBVIOUS
    <3>3. Cardinality(s) - 1 <= n
      BY <3>1, <3>2
    <3>4. Picked(s) \in S
      BY <3>1
    <3> QED
      BY <3>1, <3>3, <3>4
  <2>3. ASSUME NEW s \in Low(n + 1) PROVE Taken(f, s) \in Nat
    <3>1. CASE s = {}
      BY <3>1
    <3>2. CASE s # {}
      <4>1. s \ {Picked(s)} \in Low(n) /\ v[Picked(s)] \in Nat
        BY <2>2, <3>2
      <4>2. f[s \ {Picked(s)}] \in Nat
        BY <2>1, <4>1
      <4> QED
        BY <3>2, <4>1, <4>2
    <3> QED
      BY <3>1, <3>2
  <2>4. ASSUME NEW s \in Low(n) PROVE s \in Low(n + 1) /\ g[s] = f[s]
    <3>1. s \in Low(n + 1)
      BY <1>1
    <3>2. f[s] = Taken(f, s)
      BY <2>1
    <3> QED
      BY <3>1, <3>2
  <2>5. ASSUME NEW s \in Low(n + 1) PROVE g[s] = Taken(g, s)
    <3>1. CASE s = {}
      BY <3>1
    <3>2. CASE s # {}
      <4>1. s \ {Picked(s)} \in Low(n)
        BY <2>2, <3>2
      <4>2. g[s \ {Picked(s)}] = f[s \ {Picked(s)}]
        BY <2>4, <4>1
      <4>3. g[s] = Taken(f, s)
        OBVIOUS
      <4> HIDE DEF g
      <4> QED
        BY <3>2, <4>2, <4>3
    <3> QED
      BY <3>1, <3>2
  <2>6. g \in [Low(n + 1) -> Nat]
    <3> HIDE DEF Low, Taken
    <3> QED
      BY <2>3
  <2> HIDE DEF g
  <2>7. Good(n + 1, g)
    BY <2>5, <2>6
  <2> HIDE DEF Good
  <2> QED
    BY <2>7
<1>4. Cardinality(S) \in T
  <2> DEFINE U == {s \in SUBSET S : Cardinality(s) \in T}
  <2> HIDE DEF T
  <2>1. {} \in U
    BY <1>1, <1>2
  <2>2. ASSUME NEW s \in SUBSET S, s # {}, s \ {Picked(s)} \in U PROVE s \in U
    <3>1. Cardinality(s) \in Nat /\ Cardinality(s \ {Picked(s)}) = Cardinality(s) - 1
      BY <2>2, PickedFacts
    <3>2. Cardinality(s \ {Picked(s)}) \in T /\ Cardinality(s \ {Picked(s)}) \in Nat
      BY <1>1, <2>2
    <3>3. Cardinality(s) = Cardinality(s \ {Picked(s)}) + 1
      BY <3>1
    <3>4. Cardinality(s) \in T
      BY <1>3, <3>2, <3>3
    <3> QED
      BY <3>4
  <2> HIDE DEF U
  <2>3. SUBSET S \subseteq U
    BY <2>1, <2>2, SubsetInduction
  <2> QED
    BY <2>3 DEF U
<1>5. Low(Cardinality(S)) = SUBSET S
  BY FS_Subset
<1>6. PICK f : Good(Cardinality(S), f)
  BY <1>4
<1>7. Sums(f, S, v)
  BY <1>5, <1>6 DEF Sums
<1> QED
  BY <1>7

\* The recursion by which MapThenSumSet defines a sum.
SumStep(h, S, v) ==
    [s \in SUBSET S |-> IF s = {} THEN 0 ELSE v[Picked(s)] + h[s \ {Picked(s)}]]

\* It has one solution.
LEMMA SumsUnique ==
    ASSUME NEW S, IsFiniteSet(S), NEW v \in [S -> Nat], NEW f, Sums(f, S, v)
    PROVE  f = SumStep(f, S, v) /\ \A h : h = SumStep(h, S, v) => h = f
<1>1. /\ f \in [SUBSET S -> Nat]
      /\ \A s \in SUBSET S : f[s] = IF s = {} THEN 0 ELSE v[Picked(s)] + f[s \ {Picked(s)}]
  BY DEF Sums
<1>2. f = SumStep(f, S, v)
  <2>1. DOMAIN f = SUBSET S /\ f = [s \in SUBSET S |-> f[s]]
    BY <1>1
  <2> DEFINE g == SumStep(f, S, v)
  <2>2. g = [s \in SUBSET S |-> g[s]] /\ \A s \in SUBSET S : g[s] = f[s]
    BY <1>1 DEF SumStep
  <2> HIDE DEF g
  <2>3. g = f
    BY <2>1, <2>2
  <2> QED
    BY <2>3 DEF g
<1>3. ASSUME NEW h, h = SumStep(h, S, v) PROVE h = f
  <2> DEFINE T == {s \in SUBSET S : h[s] = f[s]}
  <2>1. /\ h = [s \in SUBSET S |-> h[s]]
        /\ \A s \in SUBSET S : h[s] = IF s = {} THEN 0 ELSE v[Picked(s)] + h[s \ {Picked(s)}]
    BY <1>3 DEF SumStep
  <2>2. {} \in T
    BY <1>1, <2>1
  <2>3. ASSUME NEW s \in SUBSET S, s # {}, s \ {Picked(s)} \in T PROVE s \in T
    BY <1>1, <2>1, <2>3
  <2>4. \A s \in SUBSET S : h[s] = f[s]
    <3>1. SUBSET S \subseteq T
      <4> HIDE DEF T
      <4> QED
        BY <2>2, <2>3, SubsetInduction
    <3> QED
      BY <3>1
  <2>5. f = [s \in SUBSET S |-> f[s]]
    BY <1>1
  <2> HIDE DEF T
  <2> QED
    BY <2>1, <2>4, <2>5
<1> QED
  BY <1>2, <1>3

\* The weight of sources is a sum.
LEMMA WeightIsSum ==
    ASSUME NEW S, IsFiniteSet(S), \A s \in S : s.weight \in Nat
    PROVE  \E f : Sums(f, S, [s \in S |-> s.weight]) /\ Weight(S) = f[S]
<1> DEFINE v       == [s \in S |-> s.weight]
           Body(h) == [s \in SUBSET S |-> IF s = {} THEN 0
                          ELSE (CHOOSE x \in s : TRUE).weight + h[s \ {CHOOSE x \in s : TRUE}]]
           iter    == CHOOSE h : h = Body(h)
<1>1. v \in [S -> Nat]
  OBVIOUS
<1>2. \A h : Body(h) = SumStep(h, S, v)
  <2> SUFFICES ASSUME NEW h PROVE Body(h) = SumStep(h, S, v)
    OBVIOUS
  <2>1. ASSUME NEW s \in SUBSET S, s # {}
        PROVE  v[Picked(s)] = (CHOOSE x \in s : TRUE).weight
    BY <2>1 DEF Picked
  <2> HIDE DEF v
  <2> QED
    BY <2>1 DEF Picked, SumStep
<1>3. Weight(S) = iter[S]
  BY DEF Weight, MapThenSumSet, MapThenFoldSet
<1> HIDE DEF v, Body, iter
<1>4. PICK f : Sums(f, S, v)
  BY <1>1, SumsExist
<1>5. f = SumStep(f, S, v) /\ \A h : h = SumStep(h, S, v) => h = f
  BY <1>1, <1>4, SumsUnique
<1>6. iter = f
  <2>1. f = Body(f)
    BY <1>2, <1>5
  <2>2. iter = Body(iter)
    BY <2>1 DEF iter
  <2> QED
    BY <1>2, <1>5, <2>2
<1> QED
  BY <1>3, <1>4, <1>6 DEF v

\* So is what a mean divides.
Weighted(S, val) == MapThenSumSet(LAMBDA s : s.weight * val[s], S)

LEMMA WeightedIsSum ==
    ASSUME NEW S, IsFiniteSet(S), NEW val, \A s \in S : s.weight * val[s] \in Nat
    PROVE  \E f : Sums(f, S, [s \in S |-> s.weight * val[s]]) /\ Weighted(S, val) = f[S]
<1> DEFINE v       == [s \in S |-> s.weight * val[s]]
           Body(h) == [s \in SUBSET S |-> IF s = {} THEN 0
                          ELSE (CHOOSE x \in s : TRUE).weight * val[(CHOOSE x \in s : TRUE)] + h[s \ {CHOOSE x \in s : TRUE}]]
           iter    == CHOOSE h : h = Body(h)
<1>1. v \in [S -> Nat]
  OBVIOUS
<1>2. \A h : Body(h) = SumStep(h, S, v)
  <2> SUFFICES ASSUME NEW h PROVE Body(h) = SumStep(h, S, v)
    OBVIOUS
  <2>1. ASSUME NEW s \in SUBSET S, s # {}
        PROVE  v[Picked(s)] = (CHOOSE x \in s : TRUE).weight * val[(CHOOSE x \in s : TRUE)]
    BY <2>1 DEF Picked
  <2> HIDE DEF v
  <2> QED
    BY <2>1 DEF Picked, SumStep
<1>3. Weighted(S, val) = iter[S]
  BY DEF Weighted, MapThenSumSet, MapThenFoldSet
<1> HIDE DEF v, Body, iter
<1>4. PICK f : Sums(f, S, v)
  BY <1>1, SumsExist
<1>5. f = SumStep(f, S, v) /\ \A h : h = SumStep(h, S, v) => h = f
  BY <1>1, <1>4, SumsUnique
<1>6. iter = f
  <2>1. f = Body(f)
    BY <1>2, <1>5
  <2>2. iter = Body(iter)
    BY <2>1 DEF iter
  <2> QED
    BY <1>2, <1>5, <2>2
<1> QED
  BY <1>3, <1>4, <1>6 DEF v

\* And the counts of an entry.
Accs(S, view) == MapThenSumSet(LAMBDA t : view[t].acc, S)
Rejs(S, view) == MapThenSumSet(LAMBDA t : view[t].rej, S)

LEMMA AccsAreSum ==
    ASSUME NEW S, IsFiniteSet(S), NEW view, \A t \in S : view[t].acc \in Nat
    PROVE  \E f : Sums(f, S, [t \in S |-> view[t].acc]) /\ Accs(S, view) = f[S]
<1> DEFINE v       == [t \in S |-> view[t].acc]
           Body(h) == [s \in SUBSET S |-> IF s = {} THEN 0
                          ELSE view[(CHOOSE x \in s : TRUE)].acc + h[s \ {CHOOSE x \in s : TRUE}]]
           iter    == CHOOSE h : h = Body(h)
<1>1. v \in [S -> Nat]
  OBVIOUS
<1>2. \A h : Body(h) = SumStep(h, S, v)
  <2> SUFFICES ASSUME NEW h PROVE Body(h) = SumStep(h, S, v)
    OBVIOUS
  <2>1. ASSUME NEW s \in SUBSET S, s # {}
        PROVE  v[Picked(s)] = view[(CHOOSE x \in s : TRUE)].acc
    BY <2>1 DEF Picked
  <2> HIDE DEF v
  <2> QED
    BY <2>1 DEF Picked, SumStep
<1>3. Accs(S, view) = iter[S]
  BY DEF Accs, MapThenSumSet, MapThenFoldSet
<1> HIDE DEF v, Body, iter
<1>4. PICK f : Sums(f, S, v)
  BY <1>1, SumsExist
<1>5. f = SumStep(f, S, v) /\ \A h : h = SumStep(h, S, v) => h = f
  BY <1>1, <1>4, SumsUnique
<1>6. iter = f
  <2>1. f = Body(f)
    BY <1>2, <1>5
  <2>2. iter = Body(iter)
    BY <2>1 DEF iter
  <2> QED
    BY <1>2, <1>5, <2>2
<1> QED
  BY <1>3, <1>4, <1>6 DEF v

\* The same of the rejections.
LEMMA RejsAreSum ==
    ASSUME NEW S, IsFiniteSet(S), NEW view, \A t \in S : view[t].rej \in Nat
    PROVE  \E f : Sums(f, S, [t \in S |-> view[t].rej]) /\ Rejs(S, view) = f[S]
<1> DEFINE v       == [t \in S |-> view[t].rej]
           Body(h) == [s \in SUBSET S |-> IF s = {} THEN 0
                          ELSE view[(CHOOSE x \in s : TRUE)].rej + h[s \ {CHOOSE x \in s : TRUE}]]
           iter    == CHOOSE h : h = Body(h)
<1>1. v \in [S -> Nat]
  OBVIOUS
<1>2. \A h : Body(h) = SumStep(h, S, v)
  <2> SUFFICES ASSUME NEW h PROVE Body(h) = SumStep(h, S, v)
    OBVIOUS
  <2>1. ASSUME NEW s \in SUBSET S, s # {}
        PROVE  v[Picked(s)] = view[(CHOOSE x \in s : TRUE)].rej
    BY <2>1 DEF Picked
  <2> HIDE DEF v
  <2> QED
    BY <2>1 DEF Picked, SumStep
<1>3. Rejs(S, view) = iter[S]
  BY DEF Rejs, MapThenSumSet, MapThenFoldSet
<1> HIDE DEF v, Body, iter
<1>4. PICK f : Sums(f, S, v)
  BY <1>1, SumsExist
<1>5. f = SumStep(f, S, v) /\ \A h : h = SumStep(h, S, v) => h = f
  BY <1>1, <1>4, SumsUnique
<1>6. iter = f
  <2>1. f = Body(f)
    BY <1>2, <1>5
  <2>2. iter = Body(iter)
    BY <2>1 DEF iter
  <2> QED
    BY <1>2, <1>5, <2>2
<1> QED
  BY <1>3, <1>4, <1>6 DEF v

\* A sum that is h times as large in every term is h times as large.
LEMMA SumsCompare ==
    ASSUME NEW S, IsFiniteSet(S), NEW v \in [S -> Nat], NEW w \in [S -> Nat], NEW h \in Nat,
           \A x \in S : v[x] >= h * w[x], NEW f, Sums(f, S, v), NEW g, Sums(g, S, w)
    PROVE  f[S] \in Nat /\ g[S] \in Nat /\ f[S] >= h * g[S]
<1> DEFINE T == {s \in SUBSET S : f[s] >= h * g[s]}
<1>1. /\ f \in [SUBSET S -> Nat] /\ g \in [SUBSET S -> Nat]
      /\ \A s \in SUBSET S : f[s] = IF s = {} THEN 0 ELSE v[Picked(s)] + f[s \ {Picked(s)}]
      /\ \A s \in SUBSET S : g[s] = IF s = {} THEN 0 ELSE w[Picked(s)] + g[s \ {Picked(s)}]
  BY DEF Sums
<1>2. {} \in T
  <2>1. f[{}] = 0 /\ g[{}] = 0
    BY <1>1
  <2> QED
    BY <2>1
<1>3. ASSUME NEW s \in SUBSET S, s # {}, s \ {Picked(s)} \in T PROVE s \in T
  <2> DEFINE x == Picked(s)
             u == s \ {x}
  <2>1. x \in S /\ u \in SUBSET S
    BY <1>3, PickedFacts
  <2>2. f[s] = v[x] + f[u] /\ g[s] = w[x] + g[u]
    BY <1>1, <1>3
  <2>3. v[x] \in Nat /\ w[x] \in Nat /\ f[u] \in Nat /\ g[u] \in Nat /\ v[x] >= h * w[x]
    BY <1>1, <2>1
  <2>4. f[u] >= h * g[u]
    BY <1>3
  <2> HIDE DEF x, u
  <2>5. f[s] >= h * g[s]
    <3> DEFINE a == v[x]
               b == f[u]
               c == w[x]
               d == g[u]
    <3>1. a \in Nat /\ b \in Nat /\ c \in Nat /\ d \in Nat /\ a >= h * c /\ b >= h * d
      BY <2>3, <2>4
    <3>2. f[s] = a + b /\ g[s] = c + d
      BY <2>2
    <3> HIDE DEF a, b, c, d
    <3>3. h * (c + d) = h * c + h * d /\ h * c \in Nat /\ h * d \in Nat
      BY <3>1
    <3> QED
      BY <3>1, <3>2, <3>3
  <2> QED
    BY <2>5
<1>4. SUBSET S \subseteq T
  <2> HIDE DEF T
  <2> QED
    BY <1>2, <1>3, SubsetInduction
<1>5. f[S] >= h * g[S]
  BY <1>4
<1> QED
  BY <1>1, <1>5

\* A sum of positive terms is positive, if there is any.
LEMMA SumsPositive ==
    ASSUME NEW S, IsFiniteSet(S), S # {}, NEW v \in [S -> Nat], \A x \in S : v[x] > 0,
           NEW f, Sums(f, S, v)
    PROVE  f[S] \in Nat /\ f[S] > 0
<1>1. Picked(S) \in S /\ S \ {Picked(S)} \in SUBSET S
  BY PickedFacts
<1>2. /\ f[S] = v[Picked(S)] + f[S \ {Picked(S)}]
      /\ f[S] \in Nat /\ f[S \ {Picked(S)}] \in Nat /\ v[Picked(S)] \in Nat
  BY <1>1 DEF Sums
<1>3. v[Picked(S)] > 0
  BY <1>1
<1> QED
  BY <1>2, <1>3

\* A sum is a number.
LEMMA SumIsNat ==
    ASSUME NEW S, NEW v, NEW f, Sums(f, S, v)
    PROVE  f[S] \in Nat
BY DEF Sums

\* A quotient is at least c if its dividend is c times its divisor.
LEMMA DivAtLeast ==
    ASSUME NEW a \in Nat, NEW b \in Nat, b > 0, NEW c \in Nat, a >= c * b
    PROVE  a \div b \in Nat /\ a \div b >= c
<1> DEFINE q == a \div b
           m == a % b
<1>1. q \in Int /\ m \in 0..b - 1 /\ a = b * q + m
  OBVIOUS
<1> HIDE DEF q, m
<1>2. q >= c
  <2> SUFFICES ASSUME q <= c - 1 PROVE FALSE
    BY <1>1
  <2>1. b * q <= b * (c - 1)
    BY <1>1
  <2>2. b * (c - 1) = c * b - b
    OBVIOUS
  <2> QED
    BY <1>1, <2>1, <2>2
<1> QED
  BY <1>1, <1>2 DEF q

\* A quotient is a number.
LEMMA DivIsNat ==
    ASSUME NEW a \in Nat, NEW b \in Nat, b > 0
    PROVE  a \div b \in Nat
OBVIOUS

\* So is a product.
LEMMA TimesIsNat == \A a, b \in Nat : a * b \in Nat
OBVIOUS

\* The weighted mean of values that reach h reaches h.
LEMMA MeanAtLeast ==
    ASSUME NEW S, IsFiniteSet(S), S # {}, \A s \in S : s.weight \in Nat /\ s.weight > 0,
           NEW val, NEW h \in Nat, \A s \in S : val[s] \in Nat /\ val[s] >= h
    PROVE  Mean(S, val) \in Nat /\ Mean(S, val) >= h
<1> DEFINE w == [s \in S |-> s.weight]
           v == [s \in S |-> s.weight * val[s]]
<1>1. w \in [S -> Nat] /\ \A s \in S : w[s] > 0
  OBVIOUS
<1>2. \A s \in S : s.weight * val[s] \in Nat
  BY TimesIsNat
<1>3. v \in [S -> Nat]
  BY <1>2
<1>4. ASSUME NEW s \in S PROVE v[s] >= h * w[s]
  <2> DEFINE a == s.weight
             b == val[s]
  <2>1. a \in Nat /\ b \in Nat /\ b >= h
    OBVIOUS
  <2> HIDE DEF a, b
  <2>2. a * b >= h * a
    BY <2>1
  <2> QED
    BY <2>2 DEF a, b
<1>5. PICK g : Sums(g, S, w) /\ Weight(S) = g[S]
  BY WeightIsSum
<1>6. PICK f : Sums(f, S, v) /\ Weighted(S, val) = f[S]
  BY <1>2, WeightedIsSum
<1> HIDE DEF w, v
<1>7. f[S] \in Nat /\ g[S] \in Nat /\ f[S] >= h * g[S]
  BY <1>1, <1>3, <1>4, <1>5, <1>6, SumsCompare
<1>8. g[S] > 0
  BY <1>1, <1>5, SumsPositive
<1>9. Mean(S, val) = f[S] \div g[S]
  <2>1. Mean(S, val) = Weighted(S, val) \div Weight(S)
    BY DEF Mean, Weighted, MapThenSumSet, MapThenFoldSet
  <2> QED
    BY <1>5, <1>6, <2>1
<1> QED
  BY <1>7, <1>8, <1>9, DivAtLeast

\* A source as lookups make them.
GoodSource(s) ==
    /\ s.weight \in Nat
    /\ \A t \in DOMAIN s.cands : s.cands[t].acc \in Nat /\ s.cands[t].rej \in Nat

\* A weight is a number.
LEMMA LambdaIsNat ==
    ASSUME NEW order \in Orders, NEW depth \in Depths, NEW count \in Nat
    PROVE  Lambda(order, depth, count) \in Nat
<1> DEFINE a == OrderWeight[order]
           b == ScopeWeight[depth]
           c == (a * b) \div One
<1>1. One \in Nat /\ One > 0 /\ CountPrior \in Nat /\ CountPrior > 0
  BY BlendConstants
<1>2. a \in Nat /\ b \in Nat
  <2>1. order \in DOMAIN OrderWeight /\ depth \in DOMAIN ScopeWeight
    BY LookupConstants
  <2>2. a \in 0..One /\ b \in 0..One
    BY <2>1, BlendConstants
  <2> QED
    BY <1>1, <2>2
<1> HIDE DEF a, b
<1>3. c \in Nat
  BY <1>1, <1>2, TimesIsNat, DivIsNat
<1> HIDE DEF c
<1>4. c * count \in Nat
  BY <1>3, TimesIsNat
<1>5. (c * count) \div (count + CountPrior) \in Nat
  <2> DEFINE n == c * count
             m == count + CountPrior
  <2>1. m \in Nat /\ m > 0
    BY <1>1
  <2>2. n \in Nat
    BY <1>4
  <2> HIDE DEF n, m
  <2>3. n \div m \in Nat
    BY <2>1, <2>2, DivIsNat
  <2> QED
    BY <2>3 DEF n, m
<1>6. Lambda(order, depth, count) = (c * count) \div (count + CountPrior)
  BY DEF Lambda, a, b, c
<1> QED
  BY <1>5, <1>6

\* An entry has finitely many candidates, with counts.
LEMMA ViewFacts ==
    ASSUME TypeOK, NEW k \in DOMAIN hot
    PROVE  LET view == View(hot[k])
           IN  /\ IsFiniteSet(DOMAIN view)
               /\ \A t \in DOMAIN view : view[t].acc \in Nat /\ view[t].rej \in Nat
<1> DEFINE cands == hot[k].cands
           view  == View(hot[k])
<1>1. cands \in CandTables
  BY DEF TypeOK, Entries
<1>2. PICK U \in SUBSET Tokens : cands \in [U -> Cand]
  BY <1>1 DEF CandTables
<1>3. IsFiniteSet(U)
  <2>1. IsFiniteSet(0..MaxTok)
    BY TypeConstants, FS_Interval
  <2> QED
    BY <2>1, FS_Subset DEF Tokens
<1>4. DOMAIN view = U
  BY <1>2 DEF View
<1>5. ASSUME NEW t \in U PROVE view[t].acc \in Nat /\ view[t].rej \in Nat
  <2>1. cands[t] \in Cand
    BY <1>2
  <2>2. cands[t].acc \in 0..CountMax /\ cands[t].rej \in 0..CountMax
    BY <2>1 DEF Cand
  <2>3. view[t] = [cands[t] EXCEPT !.q = IF @ = Unseen THEN QMax ELSE @]
    BY <1>2 DEF View
  <2>4. view[t].acc = cands[t].acc /\ view[t].rej = cands[t].rej
    BY <2>1, <2>3 DEF Cand
  <2> QED
    BY <2>2, <2>4, EntryConstants
<1> QED
  BY <1>3, <1>4, <1>5

\* The sources of a lookup are finitely many and good.
LEMMA SourcesAreGood ==
    ASSUME TypeOK, NEW q
    PROVE  IsFiniteSet(Sources(q)) /\ \A s \in Sources(q) : GoodSource(s)
<1>1. IsFiniteSet(Hits(q))
  <2>1. IsFiniteSet(Orders) /\ IsFiniteSet(Depths)
    <3>1. Orders \in SUBSET Nat /\ \A o \in Orders : o <= 8
      BY OutcomeConstants
    <3>2. Depths \in SUBSET Nat /\ \A d \in Depths : d <= 2
      BY OutcomeConstants
    <3>3. IsFiniteSet(Orders)
      BY <3>1, FS_BoundedSetOfNaturals
    <3>4. IsFiniteSet(Depths)
      BY <3>2, FS_BoundedSetOfNaturals
    <3> QED
      BY <3>3, <3>4
  <2>2. IsFiniteSet(Orders \X Depths)
    BY <2>1, FS_Product
  <2>3. Hits(q) \subseteq Orders \X Depths
    BY DEF Hits, Probed
  <2> QED
    BY <2>2, <2>3, FS_Subset
<1> DEFINE Of(probe) == Source(probe[1], probe[2], View(hot[ProbedKey(q, probe)]))
<1>2. Sources(q) = {Of(probe) : probe \in Hits(q)}
  BY DEF Sources
<1>3. IsFiniteSet(Sources(q))
  <2> DEFINE f == [probe \in Hits(q) |-> Of(probe)]
             H == Hits(q)
             X == Sources(q)
  <2>1. f \in [H -> X] /\ \A s \in X : \E probe \in H : f[probe] = s
    <3> HIDE DEF Of
    <3> QED
      BY <1>2
  <2> HIDE DEF f, H, X
  <2>2. f \in Surjection(H, X)
    BY <2>1 DEF Surjection
  <2>3. IsFiniteSet(H)
    BY <1>1 DEF H
  <2>4. IsFiniteSet(X)
    BY <2>2, <2>3, FS_Surjection
  <2> QED
    BY <2>4 DEF X
<1>4. ASSUME NEW probe \in Hits(q) PROVE GoodSource(Of(probe))
  <2> DEFINE view  == View(hot[ProbedKey(q, probe)])
             D     == DOMAIN view
             count == Accs(D, view) + Rejs(D, view)
             s     == Of(probe)
  <2>1. probe[1] \in Orders /\ probe[2] \in Depths /\ ProbedKey(q, probe) \in DOMAIN hot
    BY DEF Hits, Probed, Served
  <2>2. IsFiniteSet(D) /\ \A t \in D : view[t].acc \in Nat /\ view[t].rej \in Nat
    BY <2>1, ViewFacts
  <2>3. s.cands = view /\ s.weight = Lambda(probe[1], probe[2], count)
    BY DEF Source, Accs, Rejs, MapThenSumSet, MapThenFoldSet
  <2> HIDE DEF view, D, s
  <2>4. count \in Nat
    <3>1. PICK f : Sums(f, D, [t \in D |-> view[t].acc]) /\ Accs(D, view) = f[D]
      BY <2>2, AccsAreSum
    <3>2. PICK g : Sums(g, D, [t \in D |-> view[t].rej]) /\ Rejs(D, view) = g[D]
      BY <2>2, RejsAreSum
    <3>3. f[D] \in Nat /\ g[D] \in Nat
      BY <3>1, <3>2, SumIsNat
    <3> QED
      BY <3>1, <3>2, <3>3
  <2>5. s.weight \in Nat
    BY <2>1, <2>3, <2>4, LambdaIsNat
  <2>6. GoodSource(s)
    BY <2>2, <2>3, <2>5 DEF GoodSource, D
  <2> QED
    BY <2>6 DEF s
<1>5. \A s \in Sources(q) : GoodSource(s)
  <2> HIDE DEF Of
  <2> QED
    BY <1>2, <1>4
<1> QED
  BY <1>3, <1>5

\* Where a token was rejected no more often than accepted, it counts as at
\* least as good as one that is unknown.
LEMMA AccRateAtLeast ==
    ASSUME NEW s, GoodSource(s), NEW t \in DOMAIN s.cands, s.cands[t].rej <= s.cands[t].acc
    PROVE  AccRateIn(s, t) \in Nat /\ AccRateIn(s, t) >= One \div 2
<1> DEFINE a == s.cands[t].acc
           r == s.cands[t].rej
           h == One \div 2
           n == (2 * a + 1) * One
           m == 2 * (a + r) + 2
<1>1. a \in Nat /\ r \in Nat /\ r <= a /\ One \in Nat
  BY BlendConstants DEF GoodSource
<1>2. h \in Nat /\ 2 * h <= One
  BY <1>1
<1>3. AccRateIn(s, t) = n \div m
  BY DEF AccRateIn, Ratio
<1> HIDE DEF a, r, h
<1>4. m \in Nat /\ m > 0 /\ n \in Nat
  BY <1>1, TimesIsNat
<1>5. n >= h * m
  <2> DEFINE x == 2 * a + 1
             y == a + r + 1
  <2>1. x \in Nat /\ y \in Nat /\ y <= x
    BY <1>1
  <2>2. h * m = (2 * h) * y
    BY <1>1, <1>2
  <2>3. n = x * One
    OBVIOUS
  <2> HIDE DEF x, y, m, n
  <2> DEFINE g == 2 * h
  <2>4. g \in Nat /\ g <= One
    BY <1>2
  <2> HIDE DEF g
  <2>5. g * y <= One * x
    <3>1. g * y <= One * y
      BY <1>1, <2>1, <2>4
    <3>2. One * y <= One * x
      BY <1>1, <2>1
    <3>3. g * y \in Nat /\ One * y \in Nat /\ One * x \in Nat
      BY <1>1, <2>1, <2>4, TimesIsNat
    <3> QED
      BY <3>1, <3>2, <3>3
  <2> QED
    BY <1>1, <2>1, <2>2, <2>3, <2>5 DEF g
<1> HIDE DEF m, n
<1> QED
  BY <1>2, <1>3, <1>4, <1>5, DivAtLeast DEF h

\* The gate of the blend is a number.
LEMMA GateIsNat ==
    ASSUME NEW S, IsFiniteSet(S), \A s \in S : s.weight \in Nat
    PROVE  Gate(S) \in Nat
<1> DEFINE H == HiSources(S)
           w == Weight(H)
<1>1. IsFiniteSet(H) /\ \A s \in H : s.weight \in Nat
  BY FS_Subset DEF HiSources
<1>2. w \in Nat
  <2> HIDE DEF H
  <2>1. PICK f : Sums(f, H, [s \in H |-> s.weight]) /\ Weight(H) = f[H]
    BY <1>1, WeightIsSum
  <2> QED
    BY <2>1, SumIsNat
<1>3. Gate(S) = (w * One) \div (w + AnnoPrior)
  BY DEF Gate, Ratio
<1> HIDE DEF w
<1> DEFINE n == w * One
           m == w + AnnoPrior
<1>4. n \in Nat /\ m \in Nat /\ m > 0
  <2>1. One \in Nat /\ AnnoPrior \in Nat /\ AnnoPrior > 0
    BY BlendConstants
  <2> QED
    BY <1>2, <2>1, TimesIsNat
<1>5. Gate(S) = n \div m
  BY <1>3
<1> HIDE DEF n, m
<1> QED
  BY <1>4, <1>5, DivIsNat

\* A token that no source of a long context saw rejected more often than
\* accepted does not seem worse than an unknown one.
LEMMA NoWorseThanUnknown ==
    ASSUME NEW S, IsFiniteSet(S), \A s \in S : GoodSource(s) /\ s.weight > 0, NEW t,
           ~ \E s \in S : /\ s.order >= HiOrder /\ t \in DOMAIN s.cands
                          /\ s.cands[t].rej > s.cands[t].acc
    PROVE  PAcc(S, t) \in Nat /\ PAcc(S, t) >= One \div 2
<1> DEFINE known == {s \in HiSources(S) : t \in DOMAIN s.cands}
           half  == One \div 2
           rate  == [s \in known |-> AccRateIn(s, t)]
           mean  == Mean(known, rate)
<1>0. half \in Nat /\ One \in Nat /\ One > 0
  BY BlendConstants
<1>1. PAcc(S, t) = IF known = {} THEN half ELSE half + (Gate(S) * (mean - half)) \div One
  BY DEF PAcc
<1> SUFFICES ASSUME known # {} PROVE PAcc(S, t) \in Nat /\ PAcc(S, t) >= half
  BY <1>0, <1>1
<1>2. known # {}
  OBVIOUS
<1>3. IsFiniteSet(known) /\ known \subseteq S /\ \A s \in known : s.order >= HiOrder
  BY FS_Subset DEF HiSources
<1>4. ASSUME NEW s \in known PROVE rate[s] \in Nat /\ rate[s] >= half
  <2>1. /\ s \in S /\ s.order >= HiOrder /\ GoodSource(s) /\ t \in DOMAIN s.cands
        /\ ~ (s.cands[t].rej > s.cands[t].acc)
    BY <1>3
  <2> DEFINE a == s.cands[t].acc
             b == s.cands[t].rej
  <2>2. b <= a
    <3>1. a \in Nat /\ b \in Nat /\ ~ (b > a)
      BY <2>1 DEF GoodSource
    <3> HIDE DEF a, b
    <3> QED
      BY <3>1
  <2> QED
    BY <2>1, <2>2, AccRateAtLeast
<1>5. \A s \in known : s.weight \in Nat /\ s.weight > 0
  BY <1>3 DEF GoodSource
<1> HIDE DEF known, half, rate
<1>6. mean \in Nat /\ mean >= half
  BY <1>0, <1>2, <1>3, <1>4, <1>5, MeanAtLeast
<1>7. Gate(S) \in Nat
  BY GateIsNat DEF GoodSource
<1> DEFINE more == Gate(S) * (mean - half)
<1>8. more \in Nat
  <2>1. mean - half \in Nat
    BY <1>0, <1>6
  <2> DEFINE d == mean - half
  <2>2. d \in Nat
    BY <2>1
  <2> HIDE DEF d
  <2>3. Gate(S) * d \in Nat
    BY <1>7, <2>2, TimesIsNat
  <2> QED
    BY <2>3 DEF d
<1>9. PAcc(S, t) = half + more \div One
  BY <1>1, <1>2
<1> HIDE DEF more, mean
<1>10. more \div One \in Nat
  BY <1>0, <1>8, DivIsNat
<1> QED
  BY <1>0, <1>9, <1>10

\* A candidate of a posterior comes with the acceptance rate of its token in
\* the sources that have a weight.
LEMMA PosteriorRates ==
    ASSUME NEW sources, NEW c \in Posterior(sources).cands
    PROVE  c.acc = PAcc({s \in sources : s.weight > 0}, c.tok)
<1> DEFINE S    == {s \in sources : s.weight > 0}
           all  == {Candidate(S, t) : t \in Offered(S)}
           best == BestScore(all)
           kept == {d \in all :
                      Cardinality(all) - Cardinality(Behind(all, d, best)) <= MaxCands}
           mass == Greater(One, MapThenSumSet(LAMBDA d : d.hat, kept))
<1>1. S # {}
  BY DEF Posterior, NoPosterior
<1>2. Posterior(sources).cands = {[d EXCEPT !.hat = Ratio(@, mass)] : d \in kept}
  BY <1>1 DEF Posterior
<1> HIDE DEF mass
<1>3. PICK d \in kept : c = [d EXCEPT !.hat = Ratio(@, mass)]
  BY <1>2
<1>4. PICK t \in Offered(S) : d = Candidate(S, t)
  OBVIOUS
<1>5. c.tok = t /\ c.acc = PAcc(S, t)
  BY <1>3, <1>4 DEF Candidate
<1> QED
  BY <1>5

\* A state of the right types is enough for rejections to be specific.
LEMMA TypedIsSpecific == TypeOK => RejectionsAreSpecific
<1> SUFFICES ASSUME TypeOK, NEW q \in Queries, NEW c \in Lookup(q).cands,
                    c.acc < One \div 2 - RejMargin
             PROVE  \E s \in Sources(q) : /\ s.order >= HiOrder
                                          /\ c.tok \in DOMAIN s.cands
                                          /\ s.cands[c.tok].rej > s.cands[c.tok].acc
  BY DEF RejectionsAreSpecific
<1> DEFINE S == {s \in Sources(q) : s.weight > 0}
<1>1. c.acc = PAcc(S, c.tok)
  BY PosteriorRates DEF Lookup
<1>2. IsFiniteSet(S) /\ \A s \in S : GoodSource(s) /\ s.weight > 0
  <2>1. IsFiniteSet(Sources(q)) /\ \A s \in Sources(q) : GoodSource(s)
    BY SourcesAreGood
  <2> QED
    BY <2>1, FS_Subset
<1> HIDE DEF S
<1> SUFFICES ASSUME ~ \E s \in S : /\ s.order >= HiOrder /\ c.tok \in DOMAIN s.cands
                                   /\ s.cands[c.tok].rej > s.cands[c.tok].acc
             PROVE  FALSE
  BY DEF S
<1>3. PAcc(S, c.tok) \in Nat /\ PAcc(S, c.tok) >= One \div 2
  BY <1>2, NoWorseThanUnknown
<1> DEFINE h == One \div 2
           a == c.acc
<1>4. h \in Nat /\ RejMargin \in Nat
  BY BlendConstants, LookupConstants
<1>5. a \in Nat /\ a >= h /\ a < h - RejMargin
  BY <1>1, <1>3
<1> HIDE DEF h, a
<1> QED
  BY <1>4, <1>5

\* A token is never taken for a rejected one because of what short contexts saw.
THEOREM RejectionsSpecific == Spec => []RejectionsAreSpecific
BY TypedIsSpecific, StoreTyped, PTL

\* The same beside the spans of version 2.
THEOREM SpansRejectSpecifically == SpecV2 => []RejectionsAreSpecific
<1>1. Typed => TypeOK
  BY TypedIsTypeOK
<1> QED
  BY <1>1, TypedIsSpecific, SpansTyped, PTL
=============================================================================
