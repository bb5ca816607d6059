-------------------------- MODULE LedgerStoreProofs --------------------------
(***************************************************************************)
(* Theorems about LedgerStore, for all values of its constants: the types  *)
(* of its variables, the conservation of harvested outcomes, the freshness *)
(* of what is served, the memory bounds, and that no entry is empty.       *)
(*                                                                         *)
(* Then about LedgerRestart, for any number of stops: a store that was     *)
(* stopped and loaded keeps these invariants, and serves a stale entry     *)
(* only if a stop has set that entry back to before the edit.  Without a   *)
(* cadence of compactions it goes on, after an orderly stop, as if never   *)
(* stopped.  A call of a life is a step of LedgerStore, so the lemmas of   *)
(* its steps hold for it; what remains is that an image on disk is a table *)
(* fit to start with, also after edits it has missed.                      *)
(***************************************************************************)
EXTENDS LedgerRestart, HotEntryProofs

-----------------------------------------------------------------------------
(* What _apply derives from an outcome.                                    *)

\* The token, the segment, the domain and the row of a position.
LEMMA PositionFacts ==
    ASSUME NEW ev, IsOutcome(ev), NEW pos \in Nat, pos <= ev.acc
    PROVE  /\ TokenAt(ev, pos) \in Tokens
           /\ SegAt(ev, pos) \in Segments
           /\ DomAt(ev, pos) \in Domains
           /\ TopkAt(ev, pos) \in TopkRows
           /\ IsRejectAt(ev, pos) => ev.draft[pos + 1] \in Tokens
<1>1. /\ ev.draft \in Seq(Tokens) /\ ev.acc \in 0..Len(ev.draft) /\ ev.bonus \in Tokens
      /\ ev.seg \in Seq(Segments) /\ ev.topk \in Seq(TopkRows) /\ ev.file \in Domains
  BY DEF IsOutcome
<1>2. TokenAt(ev, pos) \in Tokens
  <2>1. pos < ev.acc => ev.draft[pos + 1] \in Tokens
    BY <1>1
  <2> QED
    BY <1>1, <2>1 DEF TokenAt
<1>3. SegAt(ev, pos) \in Segments
  <2>1. CASE ev.seg = <<>>
    BY <2>1 DEF SegAt, Segments
  <2>2. CASE ev.seg # <<>>
    <3>1. Len(ev.seg) \in Nat \ {0}
      BY <1>1, <2>2
    <3>2. /\ pos < Len(ev.seg) => ev.seg[pos + 1] \in Segments
          /\ ev.seg[Len(ev.seg)] \in Segments
      BY <1>1, <3>1
    <3> QED
      BY <2>2, <3>2 DEF SegAt
  <2> QED
    BY <2>1, <2>2
<1>4. DomAt(ev, pos) \in Domains
  BY <1>1 DEF DomAt, Domains
<1>5. TopkAt(ev, pos) \in TopkRows
  <2>1. <<>> \in TopkRows
    BY DEF TopkRows
  <2>2. pos < Len(ev.topk) => ev.topk[pos + 1] \in TopkRows
    BY <1>1
  <2> QED
    BY <2>1, <2>2 DEF TopkAt
<1>6. IsRejectAt(ev, pos) => ev.draft[pos + 1] \in Tokens
  BY <1>1 DEF IsRejectAt
<1> QED
  BY <1>2, <1>3, <1>4, <1>5, <1>6

\* A probe leads to a key.
LEMMA KeyType ==
    ASSUME NEW ev, IsOutcome(ev), NEW pos \in Nat, pos <= ev.acc,
           NEW probe \in ProbesAt(ev, pos)
    PROVE  KeyAt(ev, pos, probe) \in Keys
<1>1. /\ ev.tail \in Seq(Tokens) /\ ev.draft \in Seq(Tokens) /\ ev.acc \in 0..Len(ev.draft)
      /\ ev.scopes \in [0..2 -> ScopeIds]
  BY DEF IsOutcome
<1> DEFINE path == PathTo(ev, pos)
<1>2. path \in Seq(Tokens)
  <2>1. SubSeq(ev.draft, 1, pos) \in Seq(Tokens)
    BY <1>1
  <2> QED
    BY <2>1, <1>1 DEF PathTo
<1>3. probe[1] \in Orders /\ probe[1] <= Len(path) /\ probe[2] \in Depths
  BY DEF ProbesAt
<1>4. probe[1] \in 2..8 /\ probe[2] \in 0..2
  BY <1>3, OutcomeConstants
<1> HIDE DEF path
<1>5. LastN(path, probe[1]) \in Seq(Tokens)
  BY <1>2, <1>3, <1>4 DEF LastN
<1>6. ev.scopes[probe[2]] \in ScopeIds
  BY <1>1, <1>4
<1>7. SegAt(ev, pos) \in Segments
  BY PositionFacts
<1> QED
  BY <1>5, <1>6, <1>7 DEF KeyAt, Keys, path

\* The epoch of a domain.
LEMMA NowType ==
    ASSUME TypeOK, NEW scope \in ScopeIds, NEW dom \in Domains
    PROVE  Now(scope, dom) \in 0..EpochMod - 1
<1>1. CASE dom = NoFile
  BY <1>1, StoreConstants DEF Now
<1>2. CASE dom # NoFile
  <2>1. <<scope, dom>> \in ScopeIds \X Files
    BY <1>2 DEF Domains
  <2> QED
    BY <1>2, <2>1 DEF Now, TypeOK
<1> QED
  BY <1>1, <1>2
-----------------------------------------------------------------------------
\* Every entry keeps to its cap.
AllFit == \A k \in DOMAIN hot : FitsCap(hot[k])

\* While an outcome is applied, it is one of the outcomes, at a position of
\* its realized path.
LEMMA WorkFacts ==
    ASSUME TypeOK, drain.phase = "apply"
    PROVE  /\ IsOutcome(work.ev)
           /\ work.pos \in Nat /\ work.pos <= work.ev.acc
           /\ work.todo \subseteq ProbesAt(work.ev, work.pos)
  BY StoreConstants DEF TypeOK

\* The updates of a visited entry keep its binding and its bound.
LEMMA ObservedFacts ==
    ASSUME TypeOK, drain.phase = "apply", NEW e \in Entries, FitsCap(e)
    PROVE  Keeps(e, Observed(e))
<1> DEFINE ev == work.ev
           pos == work.pos
           a == UpdateRealized(e, TokenAt(ev, pos))
           b == IF IsRejectAt(ev, pos) THEN UpdateRejected(a, ev.draft[pos + 1]) ELSE a
           c == MergeTopk(b, TopkAt(ev, pos))
<1>1. /\ TokenAt(ev, pos) \in Tokens
      /\ TopkAt(ev, pos) \in TopkRows
      /\ IsRejectAt(ev, pos) => ev.draft[pos + 1] \in Tokens
  BY WorkFacts, PositionFacts
<1>2. Observed(e) = c
  BY DEF Observed
<1> HIDE DEF ev, pos
<1>3. Keeps(e, a)
  BY <1>1, UpdateFacts
<1> HIDE DEF a
<1>4. Keeps(a, b)
  <2>1. Keeps(a, a) /\ a \in Entries /\ FitsCap(a)
    BY <1>3 DEF Keeps
  <2> QED
    BY <2>1, <1>1, UpdateFacts
<1> HIDE DEF b
<1>5. Keeps(b, c)
  <2>1. b \in Entries /\ FitsCap(b)
    BY <1>4 DEF Keeps
  <2> QED
    BY <2>1, <1>1, MergeFacts
<1> HIDE DEF c
<1> QED
  BY <1>2, <1>3, <1>4, <1>5 DEF Keeps

\* _get_or_create on a key of the table returns an entry bound to an epoch
\* of 16 bits.
LEMMA ReboundFacts ==
    ASSUME TypeOK, AllFit, NEW k \in DOMAIN hot, NEW dom \in Domains
    PROVE  LET e == Rebound(k, dom)
           IN  e \in Entries /\ e.epoch < EpochMod /\ FitsCap(e)
<1>1. /\ k.scope \in ScopeIds /\ hot[k] \in Entries /\ hot[k].epoch < EpochMod
      /\ FitsCap(hot[k])
  BY DEF TypeOK, Keys, AllFit
<1> DEFINE now == Now(k.scope, dom)
<1>2. now \in Nat /\ now < EpochMod
  BY <1>1, NowType, StoreConstants
<1> HIDE DEF now
<1>3. CASE ~Fresh(k)
  BY <1>1, <1>2, <1>3, ResetFacts DEF Rebound, now
<1>4. CASE Fresh(k) /\ dom # NoFile /\ hot[k].dom # dom
  <2> DEFINE f == [hot[k] EXCEPT !.dom = dom, !.epoch = now]
  <2>1. Rebound(k, dom) = f
    BY <1>4 DEF Rebound, now
  <2>2. f \in Entries /\ f.epoch = now /\ f.cands = hot[k].cands /\ f.cap = hot[k].cap
    BY <1>1, <1>2 DEF Entries
  <2> HIDE DEF f
  <2> QED
    BY <2>1, <2>2, <1>1, <1>2 DEF FitsCap
<1>5. CASE Fresh(k) /\ ~ (dom # NoFile /\ hot[k].dom # dom)
  BY <1>1, <1>5 DEF Rebound
<1> QED
  BY <1>3, <1>4, <1>5

\* The table after a visit, whether the key was there or not.
LEMMA VisitedEntry ==
    ASSUME TypeOK, AllFit, drain.phase = "apply", NEW probe \in work.todo
    PROVE  LET k   == KeyAt(work.ev, work.pos, probe)
               dom == DomAt(work.ev, work.pos)
               e   == IF k \in DOMAIN hot THEN Rebound(k, dom)
                      ELSE NewEntry(dom, Now(k.scope, dom))
           IN  /\ k \in Keys /\ dom \in Domains
               /\ Observed(e) \in Entries /\ FitsCap(Observed(e))
               /\ Observed(e).dom = e.dom /\ Observed(e).epoch = e.epoch
               /\ e.epoch < EpochMod
<1> DEFINE k   == KeyAt(work.ev, work.pos, probe)
           dom == DomAt(work.ev, work.pos)
           e   == IF k \in DOMAIN hot THEN Rebound(k, dom)
                  ELSE NewEntry(dom, Now(k.scope, dom))
<1>1. k \in Keys /\ dom \in Domains
  BY WorkFacts, PositionFacts, KeyType
<1>2. k.scope \in ScopeIds
  BY <1>1 DEF Keys
<1> HIDE DEF k, dom
<1>3. Now(k.scope, dom) \in Nat /\ Now(k.scope, dom) < EpochMod
  BY <1>1, <1>2, NowType, StoreConstants
<1>4. e \in Entries /\ e.epoch < EpochMod /\ FitsCap(e)
  BY <1>1, <1>3, ReboundFacts, NewEntryFacts
<1> HIDE DEF e
<1>5. Keeps(e, Observed(e))
  BY <1>4, ObservedFacts
<1> QED
  BY <1>1, <1>4, <1>5 DEF Keeps, k, dom, e
-----------------------------------------------------------------------------
(* Type correctness.                                                       *)

\* The part of TypeOK that is about the table, with the bound of its entries.
TableOK ==
    /\ DOMAIN hot \subseteq Keys
    /\ DOMAIN seen = DOMAIN hot
    /\ \A k \in DOMAIN hot :
          /\ hot[k] \in Entries /\ hot[k].epoch < EpochMod
          /\ FitsCap(hot[k])
          /\ seen[k] \in [file : Domains, edits : 0..EpochMod]
    /\ before \subseteq (DOMAIN hot) \X (DOMAIN hot)

\* The part that is about the rest.
RestOK ==
    /\ epochs \in [ScopeIds \X Files -> 0..EpochMod - 1]
    /\ queue \in Seq(Outcomes)
    /\ drain \in [phase : {"idle", "loop", "apply"}, taken : Nat, limit : Nat]
    /\ drain.phase # "apply" => work = NoWork
    /\ drain.phase = "apply" =>
          /\ work \in [ev : Outcomes, pos : Nat, todo : SUBSET (Orders \X Depths)]
          /\ work.pos <= work.ev.acc
          /\ work.todo \subseteq ProbesAt(work.ev, work.pos)
    /\ sinceCompact \in Nat /\ drops \in Nat /\ harvested \in Nat
    /\ sent \in 0..MaxSent

Typed == TableOK /\ RestOK

LEMMA TypedIsTypeOK == Typed <=> TypeOK /\ AllFit
  BY DEF Typed, TableOK, RestOK, TypeOK, AllFit

\* Compaction leaves a well-formed table.
LEMMA CompactTableOK ==
    ASSUME TableOK, CompactTable
    PROVE  TableOK'
<1>1. Survivors \subseteq DOMAIN hot
  BY DEF Survivors, Served
<1>2. /\ hot' = [k \in Survivors |-> Decay(hot[k])]
      /\ before' = {p \in before : p[1] \in Survivors /\ p[2] \in Survivors}
      /\ seen' = [k \in Survivors |-> seen[k]]
  BY DEF CompactTable
<1> HIDE DEF Survivors
<1>3. ASSUME NEW k \in Survivors
      PROVE  /\ hot'[k] \in Entries /\ hot'[k].epoch < EpochMod
             /\ FitsCap(hot'[k])
             /\ seen'[k] \in [file : Domains, edits : 0..EpochMod]
  <2>1. /\ hot[k] \in Entries /\ hot[k].epoch < EpochMod /\ FitsCap(hot[k])
        /\ seen[k] \in [file : Domains, edits : 0..EpochMod]
    BY <1>1 DEF TableOK
  <2>2. Keeps(hot[k], Decay(hot[k]))
    BY <2>1, DecayFacts
  <2>3. hot'[k] = Decay(hot[k]) /\ seen'[k] = seen[k]
    BY <1>2
  <2> QED
    BY <2>1, <2>2, <2>3 DEF Keeps
<1>4. DOMAIN hot' = Survivors /\ DOMAIN seen' = Survivors
  BY <1>2
<1>5. DOMAIN hot' \subseteq Keys
  BY <1>1, <1>4 DEF TableOK
<1>6. before' \subseteq Survivors \X Survivors
  <2>1. \A p \in before : p = <<p[1], p[2]>>
    BY DEF TableOK
  <2> QED
    BY <1>2, <2>1
<1>7. \A k \in DOMAIN hot' : /\ hot'[k] \in Entries /\ hot'[k].epoch < EpochMod
                             /\ FitsCap(hot'[k])
                             /\ seen'[k] \in [file : Domains, edits : 0..EpochMod]
  BY <1>3, <1>4
<1> QED
  BY <1>4, <1>5, <1>6, <1>7 DEF TableOK

\* So does visiting an entry of the table,
LEMMA UpdateEntryOK ==
    ASSUME Typed, NEW probe \in work.todo, UpdateEntry(probe)
    PROVE  TableOK'
<1> DEFINE k   == KeyAt(work.ev, work.pos, probe)
           dom == DomAt(work.ev, work.pos)
           new == Observed(Rebound(k, dom))
           note == IF dom # NoFile \/ ~Fresh(k)
                   THEN [file |-> dom, edits |-> 0] ELSE seen[k]
<1>1. /\ drain.phase = "apply" /\ k \in DOMAIN hot
      /\ hot' = [hot EXCEPT ![k] = new]
      /\ seen' = [seen EXCEPT ![k] = note]
      /\ before' = before
  BY DEF UpdateEntry, VisitProbe
<1>2. TypeOK /\ AllFit
  BY TypedIsTypeOK
<1>3. /\ new \in Entries /\ new.epoch < EpochMod /\ FitsCap(new)
      /\ dom \in Domains
  BY <1>1, <1>2, VisitedEntry
<1>4. note \in [file : Domains, edits : 0..EpochMod]
  BY <1>1, <1>3, StoreConstants DEF Typed, TableOK
<1> HIDE DEF k, dom, new, note
<1>5. DOMAIN hot' = DOMAIN hot /\ DOMAIN seen' = DOMAIN seen
  BY <1>1
<1>6. \A j \in DOMAIN hot : /\ hot'[j] = IF j = k THEN new ELSE hot[j]
                            /\ seen'[j] = IF j = k THEN note ELSE seen[j]
  BY <1>1 DEF Typed, TableOK
<1> QED
  BY <1>1, <1>3, <1>4, <1>5, <1>6 DEF Typed, TableOK

\* and creating one.
LEMMA CreateEntryOK ==
    ASSUME Typed, NEW probe \in work.todo, CreateEntry(probe)
    PROVE  TableOK'
<1> DEFINE k   == KeyAt(work.ev, work.pos, probe)
           dom == DomAt(work.ev, work.pos)
           new == Observed(NewEntry(dom, Now(k.scope, dom)))
           note == [file |-> dom, edits |-> 0]
<1>1. /\ drain.phase = "apply" /\ k \notin DOMAIN hot
      /\ hot' = [j \in Kept \cup {k} |-> IF j = k THEN new ELSE hot[j]]
      /\ before' = {p \in before : p[1] \in Kept /\ p[2] \in Kept} \cup (Kept \X {k})
      /\ seen' = [j \in Kept \cup {k} |-> IF j = k THEN note ELSE seen[j]]
  BY DEF CreateEntry, VisitProbe
<1>2. TypeOK /\ AllFit
  BY TypedIsTypeOK
<1>3. /\ new \in Entries /\ new.epoch < EpochMod /\ FitsCap(new)
      /\ dom \in Domains /\ k \in Keys
  BY <1>1, <1>2, VisitedEntry
<1>4. note \in [file : Domains, edits : 0..EpochMod]
  BY <1>3, StoreConstants
<1>5. Kept \subseteq DOMAIN hot
  BY DEF Kept
<1> HIDE DEF k, dom, new, note, Kept
<1>6. DOMAIN hot' = Kept \cup {k} /\ DOMAIN seen' = Kept \cup {k}
  BY <1>1
<1>7. \A j \in Kept \cup {k} : /\ hot'[j] = IF j = k THEN new ELSE hot[j]
                               /\ seen'[j] = IF j = k THEN note ELSE seen[j]
  BY <1>1
<1>8. before' \subseteq (Kept \cup {k}) \X (Kept \cup {k})
  <2>1. \A p \in before : p = <<p[1], p[2]>>
    BY DEF Typed, TableOK
  <2> QED
    BY <1>1, <2>1
<1>9. \A j \in DOMAIN hot' : /\ hot'[j] \in Entries /\ hot'[j].epoch < EpochMod
                             /\ FitsCap(hot'[j])
                             /\ seen'[j] \in [file : Domains, edits : 0..EpochMod]
  BY <1>3, <1>4, <1>5, <1>6, <1>7 DEF Typed, TableOK
<1>10. DOMAIN hot' \subseteq Keys
  BY <1>3, <1>5, <1>6 DEF Typed, TableOK
<1> QED
  BY <1>6, <1>8, <1>9, <1>10 DEF TableOK
\* The table after an edit of a file: only the history changes.
LEMMA BumpEpochOK ==
    ASSUME Typed, NEW scope \in ScopeIds, NEW file \in Files, BumpEpoch(scope, file)
    PROVE  Typed'
<1>1. /\ epochs' = [epochs EXCEPT ![<<scope, file>>] = Next1(@)]
      /\ seen' = [k \in DOMAIN seen |->
                    IF k.scope = scope /\ seen[k].file = file
                    THEN [seen[k] EXCEPT !.edits = Lesser(@ + 1, EpochMod)]
                    ELSE seen[k]]
      /\ UNCHANGED <<hot, before, queue, drain, work, counters, sent>>
  BY DEF BumpEpoch
<1>2. epochs' \in [ScopeIds \X Files -> 0..EpochMod - 1]
  <2>1. \A n \in 0..EpochMod - 1 : Next1(n) \in 0..EpochMod - 1
    BY StoreConstants DEF Next1
  <2> QED
    BY <1>1, <2>1 DEF Typed, RestOK
<1>3. ASSUME NEW k \in DOMAIN seen
      PROVE  seen'[k] \in [file : Domains, edits : 0..EpochMod]
  <2>1. seen[k] \in [file : Domains, edits : 0..EpochMod]
    BY DEF Typed, TableOK
  <2>2. Lesser(seen[k].edits + 1, EpochMod) \in 0..EpochMod
    BY <2>1, StoreConstants DEF Lesser
  <2>3. [seen[k] EXCEPT !.edits = Lesser(@ + 1, EpochMod)]
            \in [file : Domains, edits : 0..EpochMod]
    BY <2>1, <2>2
  <2> QED
    BY <1>1, <2>1, <2>3
<1>4. DOMAIN seen' = DOMAIN seen
  BY <1>1
<1>5. TableOK'
  BY <1>1, <1>3, <1>4 DEF Typed, TableOK
<1>6. RestOK'
  BY <1>1, <1>2 DEF Typed, RestOK, counters
<1> QED
  BY <1>5, <1>6 DEF Typed

\* The queue after a harvest.
LEMMA HarvestOK ==
    ASSUME Typed, NEW ev \in Outcomes, Harvest(ev)
    PROVE  Typed'
<1>1. TableOK'
  BY DEF Typed, TableOK, Harvest, table
<1>2. queue \in Seq(Outcomes) /\ drops \in Nat
  BY DEF Typed, RestOK
<1>3. queue' \in Seq(Outcomes) /\ drops' \in Nat
  <2>1. CASE QueueCap <= 0
    BY <2>1, <1>2 DEF Harvest
  <2>2. CASE ~ (QueueCap <= 0) /\ Len(queue) >= QueueCap
    <3>1. queue # <<>>
      BY <2>2, StoreConstants
    <3>2. Tail(queue) \in Seq(Outcomes)
      BY <3>1, <1>2
    <3> QED
      BY <2>2, <3>2, <1>2 DEF Harvest
  <2>3. CASE ~ (QueueCap <= 0) /\ ~ (Len(queue) >= QueueCap)
    BY <2>3, <1>2 DEF Harvest
  <2> QED
    BY <2>1, <2>2, <2>3
<1>4. sent' \in 0..MaxSent
  BY StoreConstants DEF Harvest, Typed, RestOK
<1>5. UNCHANGED <<epochs, drain, work, sinceCompact, harvested>>
  BY DEF Harvest
<1>6. RestOK'
  BY <1>3, <1>4, <1>5 DEF Typed, RestOK
<1> QED
  BY <1>1, <1>6 DEF Typed

LEMMA TypedInit == Init => Typed
<1> SUFFICES ASSUME Init PROVE Typed
  OBVIOUS
<1>1. TableOK
  BY DEF Init, TableOK, NoTable
<1>2. RestOK
  BY StoreConstants DEF Init, RestOK, NoDrain, NoWork
<1> QED
  BY <1>1, <1>2 DEF Typed

LEMMA TypedStep == Typed /\ [Next]_vars => Typed'
<1> SUFFICES ASSUME Typed, [Next]_vars PROVE Typed'
  OBVIOUS
<1> USE DEF Typed
<1>1. CASE UNCHANGED vars
  BY <1>1 DEF TableOK, RestOK, vars, table, counters
<1>2. ASSUME NEW ev \in Outcomes, Harvest(ev) PROVE Typed'
  BY <1>2, HarvestOK
<1>3. ASSUME NEW scope \in ScopeIds, NEW file \in Files, BumpEpoch(scope, file)
      PROVE  Typed'
  BY <1>3, BumpEpochOK
<1>4. CASE Compact
  <2>1. TableOK'
    BY <1>4, CompactTableOK DEF Compact
  <2>2. RestOK'
    BY <1>4 DEF Compact, RestOK, counters
  <2> QED
    BY <2>1, <2>2
<1>5. ASSUME NEW limit \in DrainLimits, StartDrain(limit) PROVE Typed'
  <2>1. TableOK'
    BY <1>5 DEF StartDrain, TableOK, table
  <2>2. limit \in Nat
    BY StoreConstants
  <2>3. RestOK'
    BY <1>5, <2>2 DEF StartDrain, RestOK, counters
  <2> QED
    BY <2>1, <2>3
<1>6. CASE TakeOutcome
  <2>1. TableOK'
    BY <1>6 DEF TakeOutcome, TableOK, table
  <2>2. queue \in Seq(Outcomes) /\ queue # <<>>
    BY <1>6 DEF TakeOutcome, MayTake, RestOK
  <2>3. Head(queue) \in Outcomes /\ Tail(queue) \in Seq(Outcomes)
    BY <2>2
  <2>4. /\ IsOutcome(Head(queue)) /\ 0 <= Head(queue).acc
        /\ ProbesAt(Head(queue), 0) \in SUBSET (Orders \X Depths)
    BY <2>3, StoreConstants DEF IsOutcome, ProbesAt
  <2>5. /\ work' = [ev |-> Head(queue), pos |-> 0, todo |-> ProbesAt(Head(queue), 0)]
        /\ drain' = [drain EXCEPT !.phase = "apply"]
        /\ queue' = Tail(queue)
        /\ UNCHANGED <<epochs, counters, sent>>
    BY <1>6 DEF TakeOutcome
  <2> HIDE DEF Typed
  <2>6. RestOK'
    BY <2>3, <2>4, <2>5 DEF Typed, RestOK, counters
  <2> QED
    BY <2>1, <2>6 DEF Typed
<1>7. ASSUME NEW probe \in work.todo, UpdateEntry(probe) \/ CreateEntry(probe)
      PROVE  Typed'
  <2>1. TableOK'
    BY <1>7, UpdateEntryOK, CreateEntryOK
  <2>2. VisitProbe(probe)
    BY <1>7 DEF UpdateEntry, CreateEntry
  <2>3. RestOK'
    BY <2>2 DEF VisitProbe, RestOK, counters
  <2> QED
    BY <2>1, <2>3
<1>8. CASE NextPosition
  <2>1. TableOK'
    BY <1>8 DEF NextPosition, TableOK, table
  <2>2. IsOutcome(work.ev) /\ work.pos \in Nat /\ work.pos < work.ev.acc
    BY <1>8, StoreConstants DEF NextPosition, RestOK
  <2>3. work.ev.acc \in Nat
    BY <2>2 DEF IsOutcome
  <2>4. /\ work.pos + 1 \in Nat /\ work.pos + 1 <= work.ev.acc
        /\ ProbesAt(work.ev, work.pos + 1) \in SUBSET (Orders \X Depths)
    BY <2>2, <2>3 DEF ProbesAt
  <2>5. RestOK'
    BY <1>8, <2>4 DEF NextPosition, RestOK, counters
  <2> QED
    BY <2>1, <2>5
<1>9. CASE EndApply
  <2>1. TableOK'
    BY <1>9 DEF EndApply, TableOK, table
  <2>2. /\ work' = NoWork /\ harvested' = harvested + 1
        /\ drain' = [drain EXCEPT !.phase = "loop", !.taken = @ + 1]
        /\ UNCHANGED <<epochs, queue, sinceCompact, drops, sent>>
    BY <1>9 DEF EndApply
  <2>3. /\ drain'.phase = "loop"
        /\ drain' \in [phase : {"idle", "loop", "apply"}, taken : Nat, limit : Nat]
    <3>1. drain \in [phase : {"idle", "loop", "apply"}, taken : Nat, limit : Nat]
      BY DEF RestOK
    <3> HIDE DEF Typed
    <3>2. drain' = [phase |-> "loop", taken |-> drain.taken + 1, limit |-> drain.limit]
      BY <2>2, <3>1
    <3> QED
      BY <3>1, <3>2
  <2>4. RestOK'
    BY <2>2, <2>3 DEF RestOK
  <2> QED
    BY <2>1, <2>4
<1>10. CASE EndDrain
  <2>1. TableOK'
    BY <1>10, CompactTableOK DEF EndDrain, TableOK, table
  <2>2. RestOK'
    BY <1>10 DEF EndDrain, RestOK, NoDrain
  <2> QED
    BY <2>1, <2>2
<1> QED
  BY <1>1, <1>2, <1>3, <1>4, <1>5, <1>6, <1>7, <1>8, <1>9, <1>10 DEF Next, Drain

LEMMA TypedInvariant == Spec => []Typed
  BY TypedInit, TypedStep, PTL DEF Spec

\* The variables of the store keep their types: every table entry is an
\* entry, and an outcome being applied is at one of its own positions.
THEOREM StoreTyped == Spec => []TypeOK
<1>1. Typed => TypeOK
  BY TypedIsTypeOK
<1> QED
  BY <1>1, TypedInvariant, PTL
-----------------------------------------------------------------------------
(* Conservation of outcomes.                                               *)

LEMMA NothingLostStep == Typed /\ NothingLost /\ [Next]_vars => NothingLost'
<1> SUFFICES ASSUME Typed, NothingLost, [Next]_vars PROVE NothingLost'
  OBVIOUS
<1>1. /\ queue \in Seq(Outcomes) /\ Len(queue) \in Nat
      /\ drain \in [phase : {"idle", "loop", "apply"}, taken : Nat, limit : Nat]
      /\ drops \in Nat /\ harvested \in Nat /\ sent \in Nat
  BY StoreConstants DEF Typed, RestOK
<1>2. CASE UNCHANGED <<queue, drain, harvested, drops, sent>>
  BY <1>2 DEF NothingLost
<1>3. ASSUME NEW ev \in Outcomes, Harvest(ev) PROVE NothingLost'
  <2>1. /\ sent' = sent + 1 /\ drain' = drain /\ harvested' = harvested
    BY <1>3 DEF Harvest
  <2>2. CASE QueueCap <= 0
    BY <2>1, <2>2, <1>1, <1>3 DEF Harvest, NothingLost
  <2>3. CASE ~ (QueueCap <= 0) /\ Len(queue) >= QueueCap
    <3>1. queue # <<>>
      BY <2>3, StoreConstants
    <3>2. Len(Append(Tail(queue), ev)) = Len(queue)
      BY <3>1, <1>1, <1>3
    <3>3. Len(queue') = Len(queue) /\ drops' = drops + 1
      BY <2>3, <3>2, <1>3 DEF Harvest
    <3> DEFINE busy == IF drain.phase = "apply" THEN 1 ELSE 0
    <3>4. busy \in Nat /\ busy' = busy
      BY <2>1
    <3>5. sent = Len(queue) + busy + harvested + drops
      BY DEF NothingLost
    <3> HIDE DEF busy
    <3>6. sent' = Len(queue') + busy' + harvested' + drops'
      BY <2>1, <3>3, <3>4, <3>5, <1>1
    <3> QED
      BY <3>6 DEF NothingLost, busy
  <2>4. CASE ~ (QueueCap <= 0) /\ ~ (Len(queue) >= QueueCap)
    <3>1. Len(queue') = Len(queue) + 1 /\ drops' = drops
      BY <2>4, <1>1, <1>3 DEF Harvest
    <3> QED
      BY <2>1, <3>1, <1>1 DEF NothingLost
  <2> QED
    BY <2>2, <2>3, <2>4
<1>4. CASE TakeOutcome
  <2>1. /\ queue # <<>> /\ queue' = Tail(queue)
        /\ drain.phase = "loop" /\ drain'.phase = "apply"
        /\ UNCHANGED <<harvested, drops, sent>>
    BY <1>1, <1>4 DEF TakeOutcome, MayTake, counters
  <2>2. Len(queue') = Len(queue) - 1
    BY <2>1, <1>1
  <2> QED
    BY <2>1, <2>2, <1>1 DEF NothingLost
<1>5. CASE EndApply
  <2>1. /\ drain.phase = "apply" /\ drain'.phase # "apply"
        /\ harvested' = harvested + 1 /\ UNCHANGED <<queue, drops, sent>>
    <3>1. drain' = [phase |-> "loop", taken |-> drain.taken + 1, limit |-> drain.limit]
      BY <1>1, <1>5 DEF EndApply
    <3> QED
      BY <1>5, <3>1 DEF EndApply
  <2> QED
    BY <2>1, <1>1 DEF NothingLost
<1>6. CASE \E limit \in DrainLimits : StartDrain(limit)
  <2>1. /\ drain.phase # "apply" /\ drain'.phase # "apply"
        /\ UNCHANGED <<queue, harvested, drops, sent>>
    BY <1>6 DEF StartDrain, counters
  <2> QED
    BY <2>1 DEF NothingLost
<1>7. CASE EndDrain
  <2>1. /\ drain.phase # "apply" /\ drain'.phase # "apply"
        /\ UNCHANGED <<queue, harvested, drops, sent>>
    BY <1>7 DEF EndDrain, NoDrain
  <2> QED
    BY <2>1 DEF NothingLost
<1>8. CASE Compact
  BY <1>2, <1>8 DEF Compact, counters
<1>9. CASE NextPosition
  BY <1>2, <1>9 DEF NextPosition, counters
<1>10. ASSUME NEW probe \in work.todo, UpdateEntry(probe) \/ CreateEntry(probe)
       PROVE  NothingLost'
  BY <1>2, <1>10 DEF UpdateEntry, CreateEntry, VisitProbe, counters
<1>11. ASSUME NEW scope \in ScopeIds, NEW file \in Files, BumpEpoch(scope, file)
       PROVE  NothingLost'
  BY <1>2, <1>11 DEF BumpEpoch, counters
<1>12. CASE UNCHANGED vars
  BY <1>2, <1>12 DEF vars, counters
<1> QED
  BY <1>3, <1>4, <1>5, <1>6, <1>7, <1>8, <1>9, <1>10, <1>11, <1>12 DEF Next, Drain

\* No harvested outcome is lost silently or applied twice: each one is
\* queued, being applied, applied, or counted as a drop.
THEOREM OutcomesConserved == Spec => []NothingLost
<1>1. Init => NothingLost
  BY DEF Init, NothingLost, NoDrain
<1> QED
  BY <1>1, NothingLostStep, TypedInvariant, PTL DEF Spec

-----------------------------------------------------------------------------
(* Freshness of what is served.                                            *)

\* The history of an entry is about the file it is bound to, and accounts for
\* the distance from the epoch of its last observation to the current one.
Accounted(k) ==
    /\ hot[k].dom = seen[k].file
    /\ hot[k].dom = NoFile => seen[k].edits = 0
    /\ hot[k].dom # NoFile /\ seen[k].edits < EpochMod =>
          hot[k].epoch + seen[k].edits
              \in {Now(k.scope, hot[k].dom), Now(k.scope, hot[k].dom) + EpochMod}

AllAccounted == \A k \in DOMAIN hot : Accounted(k)

LEMMA AccountedServes == Typed /\ AllAccounted => ServedIsCurrent
<1> SUFFICES ASSUME Typed, AllAccounted, NEW k \in Served, seen[k].edits < EpochMod
             PROVE  seen[k].edits = 0
  BY DEF ServedIsCurrent
<1>1. /\ k \in DOMAIN hot /\ Fresh(k) /\ Accounted(k)
      /\ hot[k].epoch \in Nat /\ hot[k].epoch < EpochMod
      /\ seen[k].edits \in Nat
  BY StoreConstants DEF Served, AllAccounted, Typed, TableOK, Entries
<1>2. CASE hot[k].dom = NoFile
  BY <1>1, <1>2 DEF Accounted
<1>3. CASE hot[k].dom # NoFile
  BY <1>1, <1>3, StoreConstants DEF Accounted, Fresh
<1> QED
  BY <1>2, <1>3

\* What visiting a key does to the binding of an entry and to its history.
LEMMA ReboundBinding ==
    ASSUME Typed, NEW k \in DOMAIN hot, NEW dom \in Domains
    PROVE  LET e == Rebound(k, dom)
           IN  IF dom # NoFile \/ ~Fresh(k)
               THEN e.dom = dom /\ e.epoch = Now(k.scope, dom)
               ELSE e = hot[k]
<1>1. hot[k] \in Entries
  BY DEF Typed, TableOK
<1> DEFINE now == Now(k.scope, dom)
<1>2. CASE ~Fresh(k)
  BY <1>1, <1>2 DEF Rebound, Reset, Entries
<1>3. CASE Fresh(k) /\ dom # NoFile /\ hot[k].dom # dom
  <2> DEFINE f == [hot[k] EXCEPT !.dom = dom, !.epoch = now]
  <2>1. Rebound(k, dom) = f
    BY <1>3 DEF Rebound
  <2> HIDE DEF now
  <2>2. f.dom = dom /\ f.epoch = now
    BY <1>1 DEF Entries
  <2> QED
    BY <2>1, <2>2, <1>3 DEF now
<1>4. CASE Fresh(k) /\ ~ (dom # NoFile /\ hot[k].dom # dom)
  BY <1>4 DEF Rebound, Fresh
<1> QED
  BY <1>2, <1>3, <1>4
\* An entry observed now is accounted for: no edit came since.
LEMMA ObservedNow ==
    ASSUME Typed, NEW k \in Keys, NEW dom \in Domains,
           hot'[k].dom = dom, hot'[k].epoch = Now(k.scope, dom),
           seen'[k] = [file |-> dom, edits |-> 0], epochs' = epochs
    PROVE  Accounted(k)'
<1>1. Now(k.scope, dom) \in Nat /\ Now(k.scope, dom) < EpochMod
  BY TypedIsTypeOK, NowType, StoreConstants DEF Keys
<1>2. Now(k.scope, dom)' = Now(k.scope, dom)
  BY DEF Now
<1>3. seen'[k].file = dom /\ seen'[k].edits = 0
  OBVIOUS
<1> QED
  BY <1>1, <1>2, <1>3 DEF Accounted

\* What a step does to the account of an entry: it settles it, or leaves an
\* entry unaccounted for that was so before, and that was edited since.
Settles(k) ==
    \/ Accounted(k)'
    \/ /\ k \in DOMAIN hot /\ ~Accounted(k)
       /\ seen[k].edits > 0 => seen'[k].edits > 0

LEMMA UntouchedSettles ==
    ASSUME NEW k \in DOMAIN hot, epochs' = epochs, seen'[k] = seen[k],
           hot'[k].dom = hot[k].dom, hot'[k].epoch = hot[k].epoch
    PROVE  Settles(k)
  BY DEF Settles, Accounted, Now

LEMMA UpdateAccounted ==
    ASSUME Typed, NEW probe \in work.todo, UpdateEntry(probe)
    PROVE  \A j \in DOMAIN hot' : Settles(j)
<1> DEFINE k   == KeyAt(work.ev, work.pos, probe)
           dom == DomAt(work.ev, work.pos)
           e   == Rebound(k, dom)
           new == Observed(e)
           note == IF dom # NoFile \/ ~Fresh(k)
                   THEN [file |-> dom, edits |-> 0] ELSE seen[k]
<1>1. /\ drain.phase = "apply" /\ k \in DOMAIN hot
      /\ hot' = [hot EXCEPT ![k] = new]
      /\ seen' = [seen EXCEPT ![k] = note]
      /\ epochs' = epochs
  BY DEF UpdateEntry, VisitProbe
<1>2. /\ k \in Keys /\ dom \in Domains
      /\ new.dom = e.dom /\ new.epoch = e.epoch
  BY <1>1, TypedIsTypeOK, VisitedEntry
<1>3. IF dom # NoFile \/ ~Fresh(k)
      THEN e.dom = dom /\ e.epoch = Now(k.scope, dom)
      ELSE e = hot[k]
  BY <1>1, <1>2, ReboundBinding
<1>4. DOMAIN seen = DOMAIN hot
  BY DEF Typed, TableOK
<1> HIDE DEF k, dom, e, new
<1>5. DOMAIN hot' = DOMAIN hot
  BY <1>1
<1>6. ASSUME NEW j \in DOMAIN hot, j # k PROVE Settles(j)
  <2>1. hot'[j] = hot[j] /\ seen'[j] = seen[j]
    BY <1>1, <1>4, <1>6
  <2> QED
    BY <2>1, <1>1, UntouchedSettles
<1>7. ASSUME NEW j, j = k PROVE Settles(j)
  <2>1. hot'[j] = new /\ seen'[j] = note
    BY <1>1, <1>4, <1>7
  <2>2. CASE dom # NoFile \/ ~Fresh(k)
    <3>1. seen'[j] = [file |-> dom, edits |-> 0]
      BY <2>1, <2>2
    <3>2. hot'[j].dom = dom /\ hot'[j].epoch = Now(j.scope, dom)
      BY <2>1, <2>2, <1>2, <1>3, <1>7
    <3>3. j \in Keys /\ dom \in Domains
      BY <1>2, <1>7
    <3>4. \A d \in Domains : hot'[j].dom = d /\ hot'[j].epoch = Now(j.scope, d)
                             /\ seen'[j] = [file |-> d, edits |-> 0]
                             => Accounted(j)'
      BY <3>3, <1>1, ObservedNow
    <3> QED
      BY <3>1, <3>2, <3>3, <3>4 DEF Settles
  <2>3. CASE ~ (dom # NoFile \/ ~Fresh(k))
    <3>1. j \in DOMAIN hot /\ seen'[j] = seen[j]
      BY <2>1, <2>3, <1>1, <1>7
    <3>2. hot'[j].dom = hot[j].dom /\ hot'[j].epoch = hot[j].epoch
      BY <2>1, <2>3, <1>2, <1>3, <1>7
    <3> QED
      BY <3>1, <3>2, <1>1, UntouchedSettles
  <2> QED
    BY <2>2, <2>3
<1> QED
  BY <1>5, <1>6, <1>7

LEMMA CreateAccounted ==
    ASSUME Typed, NEW probe \in work.todo, CreateEntry(probe)
    PROVE  \A j \in DOMAIN hot' : Settles(j)
<1> DEFINE k   == KeyAt(work.ev, work.pos, probe)
           dom == DomAt(work.ev, work.pos)
           e   == NewEntry(dom, Now(k.scope, dom))
           new == Observed(e)
<1>1. /\ drain.phase = "apply" /\ k \notin DOMAIN hot
      /\ hot' = [j \in Kept \cup {k} |-> IF j = k THEN new ELSE hot[j]]
      /\ seen' = [j \in Kept \cup {k} |->
                    IF j = k THEN [file |-> dom, edits |-> 0] ELSE seen[j]]
      /\ epochs' = epochs
  BY DEF CreateEntry, VisitProbe
<1>2. /\ k \in Keys /\ dom \in Domains
      /\ new.dom = e.dom /\ new.epoch = e.epoch
  BY <1>1, TypedIsTypeOK, VisitedEntry
<1>3. e.dom = dom /\ e.epoch = Now(k.scope, dom)
  BY DEF NewEntry
<1>4. Kept \subseteq DOMAIN hot
  BY DEF Kept
<1> HIDE DEF k, dom, e, new, Kept
<1>5. DOMAIN hot' = Kept \cup {k}
  BY <1>1
<1>6. ASSUME NEW j \in Kept PROVE Settles(j)
  <2>1. j \in DOMAIN hot /\ hot'[j] = hot[j] /\ seen'[j] = seen[j]
    BY <1>1, <1>4, <1>6
  <2> QED
    BY <2>1, <1>1, UntouchedSettles
<1>7. ASSUME NEW j, j = k PROVE Settles(j)
  <2>1. hot'[j] = new /\ seen'[j] = [file |-> dom, edits |-> 0]
    BY <1>1, <1>7
  <2>2. hot'[j].dom = dom /\ hot'[j].epoch = Now(j.scope, dom)
    BY <2>1, <1>2, <1>3, <1>7
  <2>3. j \in Keys /\ dom \in Domains
    BY <1>2, <1>7
  <2>4. \A d \in Domains : hot'[j].dom = d /\ hot'[j].epoch = Now(j.scope, d)
                           /\ seen'[j] = [file |-> d, edits |-> 0]
                           => Accounted(j)'
    BY <2>3, <1>1, ObservedNow
  <2> QED
    BY <2>1, <2>2, <2>3, <2>4 DEF Settles
<1> QED
  BY <1>5, <1>6, <1>7

LEMMA CompactAccounted ==
    ASSUME Typed, CompactTable, epochs' = epochs
    PROVE  \A k \in DOMAIN hot' : Settles(k)
<1>1. Survivors \subseteq DOMAIN hot
  BY DEF Survivors, Served
<1>2. /\ hot' = [k \in Survivors |-> Decay(hot[k])]
      /\ seen' = [k \in Survivors |-> seen[k]]
  BY DEF CompactTable
<1> HIDE DEF Survivors
<1>3. ASSUME NEW k \in Survivors PROVE Settles(k)
  <2>1. k \in DOMAIN hot /\ hot[k] \in Entries /\ FitsCap(hot[k])
    BY <1>1 DEF Typed, TableOK
  <2>2. Keeps(hot[k], Decay(hot[k]))
    BY <2>1, DecayFacts
  <2>3. hot'[k] = Decay(hot[k]) /\ seen'[k] = seen[k]
    BY <1>2
  <2> QED
    BY <2>1, <2>2, <2>3, UntouchedSettles DEF Keeps
<1> QED
  BY <1>2, <1>3

\* The edit of a file advances the epoch and the history together.
LEMMA BumpAccounted ==
    ASSUME Typed, NEW scope \in ScopeIds, NEW file \in Files,
           BumpEpoch(scope, file)
    PROVE  \A k \in DOMAIN hot' : Settles(k)
<1>1. /\ epochs' = [epochs EXCEPT ![<<scope, file>>] = Next1(@)]
      /\ seen' = [k \in DOMAIN seen |->
                    IF k.scope = scope /\ seen[k].file = file
                    THEN [seen[k] EXCEPT !.edits = Lesser(@ + 1, EpochMod)]
                    ELSE seen[k]]
      /\ hot' = hot
  BY DEF BumpEpoch
<1>2. SUFFICES ASSUME NEW k \in DOMAIN hot PROVE Settles(k)
  BY <1>1
<1>3. /\ k \in DOMAIN seen /\ k.scope \in ScopeIds
      /\ hot[k].epoch \in Nat /\ hot[k].epoch < EpochMod
      /\ hot[k].dom \in Domains
      /\ seen[k] \in [file : Domains, edits : 0..EpochMod]
  BY DEF Typed, TableOK, Entries, Keys
<1>4. file # NoFile
  BY TypeConstants DEF NoFile
<1>5. seen[k].edits > 0 => seen'[k].edits > 0
  BY <1>1, <1>3, StoreConstants DEF Lesser
<1>6. CASE ~Accounted(k)
  BY <1>5, <1>6 DEF Settles
<1> DEFINE was == Now(k.scope, hot[k].dom)
           is == Now(k.scope, hot[k].dom)'
<1>7. was \in 0..EpochMod - 1
  BY <1>3, TypedIsTypeOK, NowType
<1>8. CASE Accounted(k) /\ k.scope = scope /\ seen[k].file = file
  <2>1. is = Next1(was)
    <3>1. hot[k].dom = file
      BY <1>3, <1>8 DEF Accounted
    <3>2. <<scope, file>> \in DOMAIN epochs
      BY DEF Typed, RestOK
    <3> QED
      BY <3>1, <3>2, <1>1, <1>4, <1>8 DEF Now
  <2>2. seen'[k].file = seen[k].file /\ seen'[k].edits = Lesser(seen[k].edits + 1, EpochMod)
    BY <1>1, <1>3, <1>8
  <2> HIDE DEF was, is
  <2>3. hot[k].dom # NoFile /\ hot'[k] = hot[k]
    BY <1>1, <1>3, <1>4, <1>8 DEF Accounted
  <2>4. ASSUME seen'[k].edits < EpochMod
        PROVE  hot[k].epoch + seen'[k].edits \in {is, is + EpochMod}
    <3>1. /\ seen[k].edits \in Nat /\ seen[k].edits < EpochMod
          /\ seen'[k].edits = seen[k].edits + 1
      BY <2>2, <2>4, <1>3, StoreConstants DEF Lesser
    <3>2. hot[k].epoch + seen[k].edits \in {was, was + EpochMod}
      BY <3>1, <2>3, <1>3, <1>8 DEF Accounted, was
    <3> QED
      BY <3>1, <3>2, <2>1, <1>3, <1>7, StoreConstants DEF Next1
  <2> QED
    BY <2>2, <2>3, <2>4, <1>1, <1>3, <1>8 DEF Settles, Accounted, is
<1>9. CASE Accounted(k) /\ ~ (k.scope = scope /\ seen[k].file = file)
  <2>1. is = was
    <3>1. CASE hot[k].dom = NoFile
      BY <3>1, <1>1 DEF Now
    <3>2. CASE hot[k].dom # NoFile
      <4>1. <<k.scope, hot[k].dom>> # <<scope, file>>
        BY <1>3, <1>9 DEF Accounted
      <4>2. <<k.scope, hot[k].dom>> \in DOMAIN epochs
        BY <3>2, <1>3 DEF Typed, RestOK, Domains
      <4> QED
        BY <3>2, <4>1, <4>2, <1>1 DEF Now
    <3> QED
      BY <3>1, <3>2
  <2>2. seen'[k] = seen[k]
    BY <1>1, <1>3, <1>9
  <2> QED
    BY <2>1, <2>2, <1>1, <1>3, <1>9 DEF Settles, Accounted
<1> QED
  BY <1>6, <1>8, <1>9

LEMMA SettlesStep == Typed /\ [Next]_vars => \A k \in DOMAIN hot' : Settles(k)
<1> SUFFICES ASSUME Typed, [Next]_vars PROVE \A k \in DOMAIN hot' : Settles(k)
  OBVIOUS
<1> DEFINE Goal == \A k \in DOMAIN hot' : Settles(k)
<1>1. CASE UNCHANGED <<hot, seen, epochs>>
  BY <1>1, UntouchedSettles
<1>2. ASSUME NEW scope \in ScopeIds, NEW file \in Files, BumpEpoch(scope, file)
      PROVE  Goal
  BY <1>2, BumpAccounted
<1>3. CASE Compact
  BY <1>3, CompactAccounted DEF Compact
<1>4. ASSUME NEW probe \in work.todo, UpdateEntry(probe) \/ CreateEntry(probe)
      PROVE  Goal
  BY <1>4, UpdateAccounted, CreateAccounted
<1>5. CASE EndDrain
  BY <1>1, <1>5, CompactAccounted DEF EndDrain, table
<1>6. ASSUME NEW ev \in Outcomes, Harvest(ev) PROVE Goal
  BY <1>1, <1>6 DEF Harvest, table
<1>7. ASSUME NEW limit \in DrainLimits, StartDrain(limit) PROVE Goal
  BY <1>1, <1>7 DEF StartDrain, table
<1>8. CASE TakeOutcome
  BY <1>1, <1>8 DEF TakeOutcome, table
<1>9. CASE NextPosition
  BY <1>1, <1>9 DEF NextPosition, table
<1>10. CASE EndApply
  BY <1>1, <1>10 DEF EndApply, table
<1>11. CASE UNCHANGED vars
  BY <1>1, <1>11 DEF vars, table
<1> QED
  BY <1>2, <1>3, <1>4, <1>5, <1>6, <1>7, <1>8, <1>9, <1>10, <1>11 DEF Next, Drain

LEMMA AccountedStep == Typed /\ AllAccounted /\ [Next]_vars => AllAccounted'
  BY SettlesStep DEF AllAccounted, Settles

\* No served entry rests on a file edited since it was last observed there,
\* whatever edits, observations, rebindings and compactions came in between.
THEOREM ServedCurrent == Spec => []ServedIsCurrent
<1>1. Init => AllAccounted
  BY DEF Init, NoTable, AllAccounted
<1> QED
  BY <1>1, AccountedStep, AccountedServes, TypedInvariant, PTL DEF Spec
-----------------------------------------------------------------------------
(* Insertion order, and the bounds of the memory.                          *)

LEMMA InsertionOrderStep == Typed /\ InsertionOrder /\ [Next]_vars => InsertionOrder'
<1> SUFFICES ASSUME Typed, InsertionOrder, [Next]_vars PROVE InsertionOrder'
  OBVIOUS
<1>1. CASE UNCHANGED <<hot, before>>
  <2>1. DOMAIN hot' = DOMAIN hot /\ before' = before
    BY <1>1
  <2> QED
    BY <2>1 DEF InsertionOrder
<1>2. CASE CompactTable
  <2>1. Survivors \subseteq DOMAIN hot
    BY DEF Survivors, Served
  <2>2. /\ DOMAIN hot' = Survivors
        /\ \A j, k \in Survivors : <<j, k>> \in before' <=> <<j, k>> \in before
    BY <1>2 DEF CompactTable
  <2> HIDE DEF Survivors
  <2> QED
    BY <2>1, <2>2 DEF InsertionOrder
<1>3. ASSUME NEW probe \in work.todo, CreateEntry(probe) PROVE InsertionOrder'
  <2>1. PICK k : /\ k \notin DOMAIN hot
                 /\ DOMAIN hot' = Kept \cup {k}
                 /\ before' = {p \in before : p[1] \in Kept /\ p[2] \in Kept} \cup (Kept \X {k})
    BY <1>3 DEF CreateEntry
  <2>2. Kept \subseteq DOMAIN hot
    BY DEF Kept
  <2> HIDE DEF Kept
  <2>3. k \notin Kept
    BY <2>1, <2>2
  <2>4. /\ \A i, j \in Kept : <<i, j>> \in before' <=> <<i, j>> \in before
        /\ \A i \in Kept : <<i, k>> \in before' /\ <<k, i>> \notin before'
        /\ <<k, k>> \notin before'
    BY <2>1, <2>3
  <2>5. \A i, j \in Kept :
           /\ i # j => (<<i, j>> \in before <=> <<j, i>> \notin before)
           /\ <<i, i>> \notin before
           /\ \A l \in Kept : <<i, j>> \in before /\ <<j, l>> \in before
                                => <<i, l>> \in before
    BY <2>2 DEF InsertionOrder
  <2> QED
    BY <2>1, <2>3, <2>4, <2>5 DEF InsertionOrder
<1>4. ASSUME NEW probe \in work.todo, UpdateEntry(probe) PROVE InsertionOrder'
  <2>1. DOMAIN hot' = DOMAIN hot /\ before' = before
    BY <1>4 DEF UpdateEntry
  <2> QED
    BY <2>1 DEF InsertionOrder
<1>5. CASE EndDrain
  BY <1>1, <1>2, <1>5 DEF EndDrain, table
<1>6. CASE Compact
  BY <1>2, <1>6 DEF Compact
<1>7. ASSUME NEW ev \in Outcomes, Harvest(ev) PROVE InsertionOrder'
  BY <1>1, <1>7 DEF Harvest, table
<1>8. ASSUME NEW limit \in DrainLimits, StartDrain(limit) PROVE InsertionOrder'
  BY <1>1, <1>8 DEF StartDrain, table
<1>9. ASSUME NEW scope \in ScopeIds, NEW file \in Files, BumpEpoch(scope, file)
      PROVE  InsertionOrder'
  BY <1>1, <1>9 DEF BumpEpoch
<1>10. CASE TakeOutcome
  BY <1>1, <1>10 DEF TakeOutcome, table
<1>11. CASE NextPosition
  BY <1>1, <1>11 DEF NextPosition, table
<1>12. CASE EndApply
  BY <1>1, <1>12 DEF EndApply, table
<1>13. CASE UNCHANGED vars
  BY <1>1, <1>13 DEF vars, table
<1> QED
  BY <1>3, <1>4, <1>5, <1>6, <1>7, <1>8, <1>9, <1>10, <1>11, <1>12, <1>13
     DEF Next, Drain

\* The keys of the table are always in a strict total order of insertion.
THEOREM OrderKept == Spec => []InsertionOrder
<1>1. Init => InsertionOrder
  BY DEF Init, InsertionOrder, NoTable
<1> QED
  BY <1>1, InsertionOrderStep, TypedInvariant, PTL DEF Spec

\* A finite table that is not empty has an oldest key: the one with the fewest
\* keys before it.
LEMMA OldestExists ==
    ASSUME InsertionOrder, IsFiniteSet(DOMAIN hot), DOMAIN hot # {}
    PROVE  Oldest \in DOMAIN hot
<1> DEFINE D == DOMAIN hot
           Older(k) == {j \in D : <<j, k>> \in before}
           Counts == {Cardinality(Older(k)) : k \in D}
<1>1. \A k \in D : IsFiniteSet(Older(k)) /\ Cardinality(Older(k)) \in Nat
  <2> SUFFICES ASSUME NEW k \in D
               PROVE  IsFiniteSet(Older(k)) /\ Cardinality(Older(k)) \in Nat
    OBVIOUS
  <2>1. Older(k) \in SUBSET D
    OBVIOUS
  <2> HIDE DEF Older
  <2> QED
    BY <2>1, FS_Subset, FS_CardinalityType
<1>2. PICK n \in Counts : \A m \in Counts : n <= m
  <2>1. Counts \in SUBSET Nat /\ Counts # {}
    BY <1>1
  <2> HIDE DEF Counts
  <2> QED
    BY <2>1, LeastNatural
<1>3. PICK k \in D : n = Cardinality(Older(k))
  BY <1>2
<1>4. ASSUME NEW j \in D \ {k}, <<k, j>> \notin before
      PROVE  FALSE
  <2>1. <<j, k>> \in before
    BY <1>4, <1>3 DEF InsertionOrder
  <2>2. Older(j) \in SUBSET Older(k)
    BY <2>1, <1>3, <1>4 DEF InsertionOrder
  <2>3. j \in Older(k) /\ j \notin Older(j)
    BY <2>1, <1>4 DEF InsertionOrder
  <2>4. Cardinality(Older(k)) <= Cardinality(Older(j))
    BY <1>2, <1>3, <1>4
  <2>5. /\ IsFiniteSet(Older(k)) /\ Cardinality(Older(k)) \in Nat
        /\ Cardinality(Older(j)) \in Nat
    BY <1>1, <1>3, <1>4
  <2> HIDE DEF Older
  <2>6. Cardinality(Older(j)) = Cardinality(Older(k))
    BY <2>2, <2>4, <2>5, FS_Subset
  <2>7. Older(j) = Older(k)
    BY <2>2, <2>5, <2>6, FS_Subset
  <2> QED
    BY <2>3, <2>7
<1>5. \E i \in DOMAIN hot : \A j \in DOMAIN hot \ {i} : <<i, j>> \in before
  BY <1>3, <1>4
<1> QED
  BY <1>5 DEF Oldest

\* The bounds that Typed leaves open.
Limited ==
    /\ IsFiniteSet(DOMAIN hot)
    /\ MaxEntries > 0 => Cardinality(DOMAIN hot) <= MaxEntries
    /\ Len(queue) <= Greater(QueueCap, 0)

LEMMA CreateLimited ==
    ASSUME Typed, InsertionOrder, Limited, NEW probe \in work.todo, CreateEntry(probe)
    PROVE  /\ IsFiniteSet(DOMAIN hot')
           /\ MaxEntries > 0 => Cardinality(DOMAIN hot') <= MaxEntries
<1>1. PICK k : k \notin DOMAIN hot /\ DOMAIN hot' = Kept \cup {k}
  BY DEF CreateEntry
<1> DEFINE n == Cardinality(DOMAIN hot)
<1>2. IsFiniteSet(DOMAIN hot) /\ n \in Nat /\ MaxEntries \in Nat
  BY FS_CardinalityType, StoreConstants DEF Limited
<1>3. /\ IsFiniteSet(Kept) /\ k \notin Kept
      /\ MaxEntries > 0 => Cardinality(Kept) + 1 <= MaxEntries
  <2>1. CASE MaxEntries > 0 /\ n >= MaxEntries
    <3>1. DOMAIN hot # {}
      BY <2>1, <1>2, FS_EmptySet
    <3>2. Oldest \in DOMAIN hot
      BY <3>1, <1>2, OldestExists
    <3>3. Kept = DOMAIN hot \ {Oldest}
      BY <2>1 DEF Kept
    <3>4. IsFiniteSet(Kept) /\ Cardinality(Kept) = n - 1
      BY <3>2, <3>3, <1>2, FS_RemoveElement
    <3>5. n <= MaxEntries
      BY <2>1 DEF Limited
    <3> HIDE DEF n
    <3>6. Cardinality(Kept) + 1 <= MaxEntries
      BY <3>4, <3>5, <1>2
    <3> QED
      BY <3>3, <3>4, <3>6, <1>1
  <2>2. CASE ~ (MaxEntries > 0 /\ n >= MaxEntries)
    <3>1. Kept = DOMAIN hot
      BY <2>2 DEF Kept
    <3> QED
      BY <3>1, <2>2, <1>1, <1>2
  <2> QED
    BY <2>1, <2>2
<1> HIDE DEF Kept
<1>4. IsFiniteSet(Kept \cup {k}) /\ Cardinality(Kept \cup {k}) = Cardinality(Kept) + 1
  BY <1>3, FS_AddElement
<1> QED
  BY <1>1, <1>3, <1>4

LEMMA CompactLimited ==
    ASSUME Limited, CompactTable
    PROVE  /\ IsFiniteSet(DOMAIN hot')
           /\ MaxEntries > 0 => Cardinality(DOMAIN hot') <= MaxEntries
<1>1. Survivors \in SUBSET (DOMAIN hot) /\ DOMAIN hot' = Survivors
  BY DEF Survivors, Served, CompactTable
<1> HIDE DEF Survivors
<1>2. /\ IsFiniteSet(Survivors) /\ Cardinality(Survivors) <= Cardinality(DOMAIN hot)
      /\ Cardinality(Survivors) \in Nat /\ Cardinality(DOMAIN hot) \in Nat
  BY <1>1, FS_Subset, FS_CardinalityType DEF Limited
<1> QED
  BY <1>1, <1>2, StoreConstants DEF Limited

LEMMA LimitedStep ==
    Typed /\ InsertionOrder /\ Limited /\ [Next]_vars => Limited'
<1> SUFFICES ASSUME Typed, InsertionOrder, Limited, [Next]_vars PROVE Limited'
  OBVIOUS
<1>1. queue \in Seq(Outcomes) /\ Len(queue) \in Nat /\ QueueCap \in Int
  BY StoreConstants DEF Typed, RestOK
<1>2. CASE UNCHANGED <<hot, queue>>
  BY <1>2 DEF Limited
<1>3. ASSUME NEW ev \in Outcomes, Harvest(ev) PROVE Limited'
  <2>1. hot' = hot
    BY <1>3 DEF Harvest, table
  <2>2. Len(queue') <= Greater(QueueCap, 0)
    <3>1. CASE QueueCap <= 0
      BY <3>1, <1>3 DEF Harvest, Limited
    <3>2. CASE ~ (QueueCap <= 0) /\ Len(queue) >= QueueCap
      <4>1. queue # <<>>
        BY <3>2, <1>1
      <4>2. Len(Append(Tail(queue), ev)) = Len(queue)
        BY <4>1, <1>1, <1>3
      <4> QED
        BY <3>2, <4>2, <1>3 DEF Harvest, Limited
    <3>3. CASE ~ (QueueCap <= 0) /\ ~ (Len(queue) >= QueueCap)
      <4>1. Len(queue') = Len(queue) + 1
        BY <3>3, <1>1, <1>3 DEF Harvest
      <4> QED
        BY <3>3, <4>1, <1>1 DEF Greater
    <3> QED
      BY <3>1, <3>2, <3>3
  <2> QED
    BY <2>1, <2>2 DEF Limited
<1>4. CASE TakeOutcome
  <2>1. hot' = hot /\ queue # <<>> /\ queue' = Tail(queue)
    BY <1>4 DEF TakeOutcome, MayTake, table
  <2>2. Len(queue') <= Greater(QueueCap, 0)
    BY <2>1, <1>1 DEF Limited, Greater
  <2> QED
    BY <2>1, <2>2 DEF Limited
<1>5. ASSUME NEW probe \in work.todo, UpdateEntry(probe) \/ CreateEntry(probe)
      PROVE  Limited'
  <2>1. queue' = queue
    BY <1>5 DEF UpdateEntry, CreateEntry, VisitProbe
  <2>2. CASE UpdateEntry(probe)
    <3>1. DOMAIN hot' = DOMAIN hot
      BY <2>2 DEF UpdateEntry
    <3> QED
      BY <3>1, <2>1 DEF Limited
  <2>3. CASE CreateEntry(probe)
    <3>1. /\ IsFiniteSet(DOMAIN hot')
          /\ MaxEntries > 0 => Cardinality(DOMAIN hot') <= MaxEntries
      BY <2>3, CreateLimited
    <3> QED
      BY <3>1, <2>1 DEF Limited
  <2> QED
    BY <1>5, <2>2, <2>3
<1>6. CASE Compact
  <2>1. CompactTable /\ queue' = queue
    BY <1>6 DEF Compact
  <2> QED
    BY <2>1, CompactLimited DEF Limited
<1>7. CASE EndDrain
  <2>1. queue' = queue /\ (hot' = hot \/ CompactTable)
    BY <1>7 DEF EndDrain, table
  <2> QED
    BY <2>1, CompactLimited DEF Limited
<1>8. ASSUME NEW limit \in DrainLimits, StartDrain(limit) PROVE Limited'
  BY <1>2, <1>8 DEF StartDrain, table
<1>9. ASSUME NEW scope \in ScopeIds, NEW file \in Files, BumpEpoch(scope, file)
      PROVE  Limited'
  BY <1>2, <1>9 DEF BumpEpoch
<1>10. CASE NextPosition
  BY <1>2, <1>10 DEF NextPosition, table
<1>11. CASE EndApply
  BY <1>2, <1>11 DEF EndApply, table
<1>12. CASE UNCHANGED vars
  BY <1>2, <1>12 DEF vars, table
<1> QED
  BY <1>3, <1>4, <1>5, <1>6, <1>7, <1>8, <1>9, <1>10, <1>11, <1>12 DEF Next, Drain

\* The table, every candidate list and the queue stay within their bounds.
THEOREM MemoryBounded == Spec => []Bounded
<1>1. Init => Limited
  <2> SUFFICES ASSUME Init PROVE Limited
    OBVIOUS
  <2>1. DOMAIN hot = {} /\ Len(queue) = 0
    BY DEF Init, NoTable
  <2> QED
    BY <2>1, FS_EmptySet, StoreConstants DEF Limited, Greater
<1>2. Typed /\ Limited => Bounded
  BY DEF Typed, TableOK, Limited, Bounded
<1> QED
  BY <1>1, <1>2, LimitedStep, TypedInvariant, OrderKept, PTL DEF Spec
-----------------------------------------------------------------------------
(* Evidence.                                                               *)

\* An entry with a candidate that was observed.
Evident(e) == \E t \in DOMAIN e.cands : Support(e.cands[t]) > 0

\* Recording a token leaves an observation of it, even if others made room.
LEMMA UpdateEvident ==
    ASSUME NEW e \in Entries, FitsCap(e), NEW tok \in Tokens
    PROVE  Evident(UpdateRealized(e, tok)) /\ Evident(UpdateRejected(e, tok))
<1> DEFINE f == Ensure(e, tok)
           c == f.cands[tok]
<1>1. f \in Entries /\ tok \in DOMAIN f.cands
  BY EnsureFacts DEF Keeps
<1>2. /\ UpdateRealized(e, tok) = [f EXCEPT !.cands[tok].acc = Saturate(c.acc)]
      /\ UpdateRejected(e, tok) = [f EXCEPT !.cands[tok].rej = Saturate(c.rej)]
  BY DEF UpdateRealized, UpdateRejected
<1> HIDE DEF f
<1>3. f.cands \in CandTables /\ c \in Cand
  BY <1>1, CandTableFacts DEF Entries
<1>4. /\ c.acc \in Nat /\ c.rej \in Nat
      /\ Saturate(c.acc) \in Nat \ {0} /\ Saturate(c.rej) \in Nat \ {0}
  BY <1>3, EntryConstants DEF Cand, Saturate, Lesser
<1> DEFINE r == UpdateRealized(e, tok)
           j == UpdateRejected(e, tok)
<1>5. /\ tok \in DOMAIN r.cands
      /\ r.cands[tok] = [c EXCEPT !.acc = Saturate(c.acc)]
      /\ tok \in DOMAIN j.cands
      /\ j.cands[tok] = [c EXCEPT !.rej = Saturate(c.rej)]
  BY <1>1, <1>2, <1>3 DEF Entries
<1> HIDE DEF r, j, c
<1>6. /\ r.cands[tok].acc = Saturate(c.acc) /\ r.cands[tok].rej = c.rej
      /\ j.cands[tok].acc = c.acc /\ j.cands[tok].rej = Saturate(c.rej)
  BY <1>3, <1>5 DEF Cand
<1>7. Support(r.cands[tok]) > 0 /\ Support(j.cands[tok]) > 0
  BY <1>4, <1>6 DEF Support
<1> QED
  BY <1>5, <1>7 DEF Evident, r, j

\* A row of log-probabilities adds candidates and takes no counts away.
LEMMA MergeEvident ==
    ASSUME NEW e \in Entries, NEW row \in TopkRows, Evident(e)
    PROVE  Evident(MergeTopk(e, row))
<1>1. PICK t \in DOMAIN e.cands : Support(e.cands[t]) > 0
  BY DEF Evident
<1>2. e.cands[t] \in Cand
  BY <1>1, CandTableFacts DEF Entries
<1>3. CASE row = <<>>
  BY <1>3 DEF MergeTopk
<1>4. CASE row # <<>>
  <2> DEFINE f == MergeTopk(e, row)
             d == f.cands[t]
  <2>1. /\ t \in DOMAIN f.cands
        /\ d \in {Blend(e.cands[t], QIn(row, t)), Fade(e.cands[t])}
    BY <1>1, <1>4 DEF MergeTopk, Admitted, Newcomers, Entries
  <2>2. /\ \A q : Support(Blend(e.cands[t], q)) = Support(e.cands[t])
        /\ Support(Fade(e.cands[t])) = Support(e.cands[t])
    BY <1>2 DEF Blend, Fade, Support, Cand
  <2> HIDE DEF f
  <2> QED
    BY <1>1, <2>1, <2>2 DEF Evident, f
<1> QED
  BY <1>3, <1>4

\* So a visited entry rests on an observation, whatever it held before.
LEMMA ObservedEvident ==
    ASSUME TypeOK, drain.phase = "apply", NEW e \in Entries, FitsCap(e)
    PROVE  Evident(Observed(e))
<1> DEFINE ev == work.ev
           pos == work.pos
           a == UpdateRealized(e, TokenAt(ev, pos))
           b == IF IsRejectAt(ev, pos) THEN UpdateRejected(a, ev.draft[pos + 1]) ELSE a
<1>1. /\ TokenAt(ev, pos) \in Tokens
      /\ TopkAt(ev, pos) \in TopkRows
      /\ IsRejectAt(ev, pos) => ev.draft[pos + 1] \in Tokens
  BY WorkFacts, PositionFacts
<1>2. Observed(e) = MergeTopk(b, TopkAt(ev, pos))
  BY DEF Observed
<1> HIDE DEF ev, pos
<1>3. a \in Entries /\ FitsCap(a) /\ Evident(a)
  BY <1>1, UpdateFacts, UpdateEvident DEF Keeps
<1> HIDE DEF a
<1>4. b \in Entries /\ Evident(b)
  BY <1>1, <1>3, UpdateFacts, UpdateEvident DEF Keeps
<1> HIDE DEF b
<1> QED
  BY <1>1, <1>2, <1>4, MergeEvident

\* What decay leaves of an entry, if it leaves any candidate.
LEMMA DecayEvident ==
    ASSUME NEW e \in Entries, Decay(e).cands # NoCands
    PROVE  Evident(Decay(e))
<1> DEFINE kept == {t \in DOMAIN e.cands : Support(Halve(e.cands[t])) > 0}
<1>1. Decay(e).cands = [t \in kept |-> Halve(e.cands[t])]
  BY DEF Decay, Entries
<1>2. kept # {}
  BY <1>1 DEF NoCands
<1> QED
  BY <1>1, <1>2 DEF Evident

LEMMA CompactEvident == Typed /\ CompactTable => EveryEntryHasEvidence'
<1> SUFFICES ASSUME Typed, CompactTable PROVE EveryEntryHasEvidence'
  OBVIOUS
<1>1. hot' = [k \in Survivors |-> Decay(hot[k])]
  BY DEF CompactTable
<1>2. ASSUME NEW k \in Survivors PROVE Evident(Decay(hot[k]))
  BY <1>2, DecayEvident DEF Survivors, Served, Typed, TableOK
<1> HIDE DEF Survivors
<1> QED
  BY <1>1, <1>2 DEF EveryEntryHasEvidence, Evident

LEMMA EvidenceStep ==
    Typed /\ EveryEntryHasEvidence /\ [Next]_vars => EveryEntryHasEvidence'
<1> SUFFICES ASSUME Typed, EveryEntryHasEvidence, [Next]_vars
             PROVE  EveryEntryHasEvidence'
  OBVIOUS
<1>1. CASE hot' = hot
  BY <1>1 DEF EveryEntryHasEvidence
<1>2. ASSUME NEW probe \in work.todo, UpdateEntry(probe)
      PROVE  EveryEntryHasEvidence'
  <2> DEFINE k   == KeyAt(work.ev, work.pos, probe)
             dom == DomAt(work.ev, work.pos)
             new == Observed(Rebound(k, dom))
  <2>1. /\ drain.phase = "apply" /\ k \in DOMAIN hot
        /\ hot' = [hot EXCEPT ![k] = new]
    BY <1>2 DEF UpdateEntry, VisitProbe
  <2>2. TypeOK /\ AllFit
    BY TypedIsTypeOK
  <2>3. dom \in Domains
    BY <2>1, <2>2, VisitedEntry
  <2>4. Rebound(k, dom) \in Entries /\ FitsCap(Rebound(k, dom))
    BY <2>1, <2>2, <2>3, ReboundFacts
  <2>5. Evident(new)
    BY <2>1, <2>2, <2>4, ObservedEvident
  <2> HIDE DEF k, new
  <2> QED
    BY <2>1, <2>5 DEF EveryEntryHasEvidence, Evident
<1>3. ASSUME NEW probe \in work.todo, CreateEntry(probe)
      PROVE  EveryEntryHasEvidence'
  <2> DEFINE k   == KeyAt(work.ev, work.pos, probe)
             dom == DomAt(work.ev, work.pos)
             fresh == NewEntry(dom, Now(k.scope, dom))
             new == Observed(fresh)
  <2>1. /\ drain.phase = "apply" /\ k \notin DOMAIN hot
        /\ hot' = [j \in Kept \cup {k} |-> IF j = k THEN new ELSE hot[j]]
    BY <1>3 DEF CreateEntry, VisitProbe
  <2>2. TypeOK /\ AllFit
    BY TypedIsTypeOK
  <2>3. dom \in Domains /\ k \in Keys
    BY <2>1, <2>2, VisitedEntry
  <2>4. Now(k.scope, dom) \in Nat
    BY <2>2, <2>3, NowType, StoreConstants DEF Keys
  <2>5. fresh \in Entries /\ FitsCap(fresh)
    BY <2>3, <2>4, NewEntryFacts
  <2>6. Evident(new)
    BY <2>1, <2>2, <2>5, ObservedEvident
  <2>7. Kept \subseteq DOMAIN hot
    BY DEF Kept
  <2> HIDE DEF k, new, Kept
  <2> QED
    BY <2>1, <2>6, <2>7 DEF EveryEntryHasEvidence, Evident
<1>4. CASE Compact
  BY <1>4, CompactEvident DEF Compact
<1>5. CASE EndDrain
  BY <1>1, <1>5, CompactEvident DEF EndDrain, table
<1>6. ASSUME NEW ev \in Outcomes, Harvest(ev) PROVE EveryEntryHasEvidence'
  BY <1>1, <1>6 DEF Harvest, table
<1>7. ASSUME NEW scope \in ScopeIds, NEW file \in Files, BumpEpoch(scope, file)
      PROVE  EveryEntryHasEvidence'
  BY <1>1, <1>7 DEF BumpEpoch
<1>8. ASSUME NEW limit \in DrainLimits, StartDrain(limit) PROVE EveryEntryHasEvidence'
  BY <1>1, <1>8 DEF StartDrain, table
<1>9. CASE TakeOutcome
  BY <1>1, <1>9 DEF TakeOutcome, table
<1>10. CASE NextPosition
  BY <1>1, <1>10 DEF NextPosition, table
<1>11. CASE EndApply
  BY <1>1, <1>11 DEF EndApply, table
<1>12. CASE UNCHANGED vars
  BY <1>1, <1>12 DEF vars, table
<1> QED
  BY <1>2, <1>3, <1>4, <1>5, <1>6, <1>7, <1>8, <1>9, <1>10, <1>11, <1>12 DEF Next, Drain

\* Eviction, a reset, a top-k merge and decay never leave an entry behind that
\* no observed token supports: a hit is never an empty answer.
THEOREM EntriesHaveEvidence == Spec => []EveryEntryHasEvidence
<1>1. Init => EveryEntryHasEvidence
  BY DEF Init, NoTable, EveryEntryHasEvidence
<1> QED
  BY <1>1, EvidenceStep, TypedInvariant, PTL DEF Spec

-----------------------------------------------------------------------------
(* What is known of an image.                                              *)

NowIn(image, scope, dom) == IF dom = NoFile THEN 0 ELSE image.epochs[<<scope, dom>>]

\* Accounted, for an entry on disk and the epochs saved with it.
AccountedIn(image, k) ==
    LET e == image.hot[k]
        note == image.seen[k]
        now == NowIn(image, k.scope, e.dom)
    IN  /\ e.dom = note.file
        /\ e.dom = NoFile => note.edits = 0
        /\ e.dom # NoFile /\ note.edits < EpochMod =>
              e.epoch + note.edits \in {now, now + EpochMod}

\* A table that load() may start with.
SavedTable(image) ==
    /\ DOMAIN image.hot \subseteq Keys
    /\ DOMAIN image.seen = DOMAIN image.hot
    /\ \A k \in DOMAIN image.hot :
          /\ image.hot[k] \in Entries /\ image.hot[k].epoch < EpochMod
          /\ FitsCap(image.hot[k])
          /\ image.seen[k] \in [file : Domains, edits : 0..EpochMod]
          /\ Evident(image.hot[k])
    /\ image.before \subseteq (DOMAIN image.hot) \X (DOMAIN image.hot)
    /\ image.epochs \in [ScopeIds \X Files -> 0..EpochMod - 1]

\* The entries that missed an edit are known, the others are accounted for.
SavedAccount(image) ==
    /\ image.behind \subseteq DOMAIN image.hot
    /\ \A k \in image.behind : image.seen[k].edits > 0
    /\ \A k \in DOMAIN image.hot \ image.behind : AccountedIn(image, k)

Fields(image) == [hot |-> image.hot, before |-> image.before, epochs |-> image.epochs,
                  seen |-> image.seen, behind |-> image.behind]

Saved(image) == image = Fields(image) /\ SavedTable(image) /\ SavedAccount(image)

LEMMA NoImageSaved == Saved(NoImage)
<1>1. NoImage = Fields(NoImage)
  BY DEF NoImage, Fields
<1>2. DOMAIN NoImage.hot = {} /\ DOMAIN NoImage.seen = {} /\ NoImage.before = {}
      /\ NoImage.behind = {} /\ NoImage.epochs = [p \in ScopeIds \X Files |-> 0]
  BY DEF NoImage, NoTable
<1>3. SavedTable(NoImage)
  BY <1>2, StoreConstants DEF SavedTable
<1>4. SavedAccount(NoImage)
  BY <1>2 DEF SavedAccount
<1> QED
  BY <1>1, <1>3, <1>4 DEF Saved

-----------------------------------------------------------------------------
(* What is known of the running store.                                     *)

\* The account of the table, but for the entries that have relapsed.
Remembered ==
    /\ relapsed \subseteq DOMAIN hot
    /\ \A k \in relapsed : seen[k].edits > 0
    /\ \A k \in DOMAIN hot \ relapsed : Accounted(k)

Sound == Typed /\ EveryEntryHasEvidence /\ NothingLost

LivesInv ==
    /\ Sound
    /\ Remembered
    /\ \A image \in disk : Saved(image)

LEMMA SoundStep == Sound /\ [Next]_vars => Sound'
  BY TypedStep, EvidenceStep, NothingLostStep DEF Sound

\* A call keeps the account, whatever becomes of the relapsed entries.
LEMMA RunningRemembers ==
    ASSUME Typed, Remembered, [Next]_vars, Running
    PROVE  Remembered'
<1>1. Typed' /\ \A k \in DOMAIN hot' : Settles(k)
  BY TypedStep, SettlesStep
<1>2. DOMAIN seen' = DOMAIN hot'
  BY <1>1 DEF Typed, TableOK
<1>3. relapsed' = {k \in relapsed \cap DOMAIN seen' : seen'[k].edits > 0}
  BY DEF Running
<1>4. ASSUME NEW k \in DOMAIN hot', k \notin relapsed' PROVE Accounted(k)'
  <2>1. CASE k \in DOMAIN hot /\ ~Accounted(k)
    <3>1. k \in relapsed /\ seen[k].edits > 0
      BY <2>1 DEF Remembered
    <3>2. seen'[k].edits > 0 => k \in relapsed'
      BY <3>1, <1>2, <1>3, <1>4
    <3> QED
      BY <3>1, <3>2, <1>1, <1>4 DEF Settles
  <2>2. CASE ~ (k \in DOMAIN hot /\ ~Accounted(k))
    BY <2>2, <1>1, <1>4 DEF Settles
  <2> QED
    BY <2>1, <2>2
<1> QED
  BY <1>2, <1>3, <1>4 DEF Remembered

-----------------------------------------------------------------------------
(* snapshot(), an edit that the image misses, and load().                  *)

\* A snapshot of a sound store may be loaded.
LEMMA ImageSaved == Sound /\ Remembered => Saved(Image)
<1> SUFFICES ASSUME Sound, Remembered PROVE Saved(Image)
  OBVIOUS
<1>1. /\ Image.hot = hot /\ Image.before = before /\ Image.epochs = epochs
      /\ Image.seen = seen /\ Image.behind = relapsed
      /\ Image = Fields(Image)
  BY DEF Image, Fields
<1> HIDE DEF Image
<1>2. SavedTable(Image)
  BY <1>1 DEF SavedTable, Sound, Typed, TableOK, RestOK, EveryEntryHasEvidence, Evident
<1>3. ASSUME NEW k \in DOMAIN hot \ relapsed PROVE AccountedIn(Image, k)
  BY <1>1, <1>3 DEF Remembered, Accounted, Now, AccountedIn, NowIn
<1>4. SavedAccount(Image)
  BY <1>1, <1>3 DEF SavedAccount, Remembered
<1> QED
  BY <1>1, <1>2, <1>4 DEF Saved

\* An image that misses an edit may still be loaded: it knows what it missed.
LEMMA EditImageSaved ==
    ASSUME NEW image, Saved(image), NEW scope, NEW file
    PROVE  Saved(EditImage(image, scope, file))
<1> DEFINE was == image.seen
           hit == {k \in DOMAIN was : k.scope = scope /\ was[k].file = file}
           now == [k \in DOMAIN was |->
                     IF k \in hit THEN [was[k] EXCEPT !.edits = Lesser(@ + 1, EpochMod)]
                     ELSE was[k]]
           later == EditImage(image, scope, file)
<1>1. /\ later.hot = image.hot /\ later.before = image.before
      /\ later.epochs = image.epochs /\ later.seen = now
      /\ later.behind = image.behind \cup hit
      /\ later = Fields(later)
  <2>1. image = Fields(image)
    BY DEF Saved
  <2>2. later = [image EXCEPT !.behind = image.behind \cup hit, !.seen = now]
    BY DEF EditImage
  <2> HIDE DEF later, now, hit
  <2> QED
    BY <2>1, <2>2 DEF Fields
<1>2. /\ DOMAIN now = DOMAIN image.hot /\ hit \subseteq DOMAIN image.hot
      /\ DOMAIN was = DOMAIN image.hot
      /\ \A k \in DOMAIN image.hot :
            was[k] \in [file : Domains, edits : 0..EpochMod]
  BY DEF Saved, SavedTable
<1>3. \A k \in DOMAIN image.hot \ hit : now[k] = image.seen[k]
  BY <1>2
<1>4. \A k \in hit : /\ now[k] \in [file : Domains, edits : 0..EpochMod]
                     /\ now[k].edits > 0
  <2> SUFFICES ASSUME NEW k \in hit
               PROVE  /\ now[k] \in [file : Domains, edits : 0..EpochMod]
                      /\ now[k].edits > 0
    OBVIOUS
  <2>1. now[k] = [was[k] EXCEPT !.edits = Lesser(was[k].edits + 1, EpochMod)]
    OBVIOUS
  <2>2. was[k] \in [file : Domains, edits : 0..EpochMod]
    BY <1>2
  <2>3. Lesser(was[k].edits + 1, EpochMod) \in 1..EpochMod
    BY <2>2, StoreConstants DEF Lesser
  <2> HIDE DEF now, hit, was
  <2> QED
    BY <2>1, <2>2, <2>3
<1> HIDE DEF now, hit, later, was
<1>5. SavedTable(later)
  BY <1>1, <1>2, <1>3, <1>4 DEF Saved, SavedTable
<1>6. ASSUME NEW k \in DOMAIN image.hot, k \notin image.behind \cup hit
      PROVE  AccountedIn(later, k)
  <2>1. AccountedIn(image, k) /\ now[k] = image.seen[k]
    BY <1>3, <1>6 DEF Saved, SavedAccount
  <2> QED
    BY <2>1, <1>1 DEF AccountedIn, NowIn
<1>7. SavedAccount(later)
  <2>1. \A k \in image.behind \cup hit : now[k].edits > 0
    BY <1>3, <1>4 DEF Saved, SavedAccount
  <2> QED
    BY <2>1, <1>1, <1>2, <1>6 DEF Saved, SavedAccount
<1>8. Saved(later)
  BY <1>1, <1>5, <1>7 DEF Saved
<1> QED
  BY <1>8 DEF later

\* What load() makes of an image is a sound store.
LEMMA RestartSound ==
    ASSUME NEW image, Saved(image), Restart(image)
    PROVE  Sound' /\ Remembered'
<1>1. /\ hot' = image.hot /\ before' = image.before /\ seen' = image.seen
      /\ epochs' = image.epochs /\ relapsed' = image.behind
      /\ queue' = <<>> /\ drain' = NoDrain /\ work' = NoWork
      /\ sinceCompact' = 0 /\ drops' = 0 /\ harvested' = 0 /\ sent' = 0
  BY DEF Restart, Load
<1>2. TableOK'
  BY <1>1 DEF TableOK, Saved, SavedTable
<1>3. RestOK'
  <2>1. epochs' \in [ScopeIds \X Files -> 0..EpochMod - 1]
    BY <1>1 DEF Saved, SavedTable
  <2> QED
    BY <2>1, <1>1, StoreConstants DEF RestOK, NoDrain, NoWork
<1>4. EveryEntryHasEvidence'
  BY <1>1 DEF EveryEntryHasEvidence, Evident, Saved, SavedTable
<1>5. NothingLost'
  BY <1>1 DEF NothingLost, NoDrain
<1>6. ASSUME NEW k \in DOMAIN image.hot \ image.behind PROVE Accounted(k)'
  <2>1. AccountedIn(image, k)
    BY <1>6 DEF Saved, SavedAccount
  <2> QED
    BY <2>1, <1>1 DEF AccountedIn, NowIn, Accounted, Now
<1>7. Remembered'
  BY <1>1, <1>6 DEF Remembered, Saved, SavedAccount
<1> QED
  BY <1>2, <1>3, <1>4, <1>5, <1>7 DEF Sound, Typed

-----------------------------------------------------------------------------
(* All lives.                                                              *)

LEMMA LivesInit == InitRestart => LivesInv
<1> SUFFICES ASSUME InitRestart PROVE LivesInv
  OBVIOUS
<1>1. Init /\ disk = {} /\ relapsed = {}
  BY DEF InitRestart
<1>2. DOMAIN hot = {}
  BY <1>1 DEF Init, NoTable
<1>3. Typed
  BY <1>1, TypedInit
<1>4. EveryEntryHasEvidence /\ NothingLost
  BY <1>1, <1>2 DEF Init, EveryEntryHasEvidence, NothingLost, NoDrain
<1>5. Remembered
  BY <1>1, <1>2 DEF Remembered
<1> QED
  BY <1>1, <1>3, <1>4, <1>5 DEF LivesInv, Sound

LEMMA LivesStep == LivesInv /\ [NextRestart]_livesVars => LivesInv'
<1> SUFFICES ASSUME LivesInv, [NextRestart]_livesVars PROVE LivesInv'
  OBVIOUS
<1>1. Sound /\ Typed /\ Remembered /\ \A image \in disk : Saved(image)
  BY DEF LivesInv, Sound
<1>2. CASE Call
  <2>1. Next /\ Running /\ disk' = disk
    BY <1>2 DEF Call, Next, Drain
  <2>2. Sound' /\ Remembered'
    BY <2>1, <1>1, SoundStep, RunningRemembers
  <2> QED
    BY <2>1, <2>2, <1>1 DEF LivesInv
<1>3. ASSUME NEW scope \in ScopeIds, NEW file \in Files, Edit(scope, file)
      PROVE  LivesInv'
  <2>1. /\ BumpEpoch(scope, file) /\ Running
        /\ disk' = {EditImage(image, scope, file) : image \in disk}
    BY <1>3 DEF Edit
  <2>2. Next
    BY <2>1 DEF Next
  <2>3. Sound' /\ Remembered'
    BY <2>1, <2>2, <1>1, SoundStep, RunningRemembers
  <2>4. \A image \in disk' : Saved(image)
    BY <2>1, <1>1, EditImageSaved
  <2> QED
    BY <2>3, <2>4 DEF LivesInv
<1>4. CASE Save
  <2>1. disk' = {Image} /\ UNCHANGED <<vars, relapsed>>
    BY <1>4 DEF Save
  <2>2. Sound'
    BY <2>1, <1>1, SoundStep
  <2>3. Remembered'
    BY <2>1, <1>1 DEF Remembered, Accounted, Now, vars, table
  <2>4. Saved(Image)
    BY <1>1, ImageSaved
  <2> QED
    BY <2>1, <2>2, <2>3, <2>4 DEF LivesInv
<1>5. ASSUME NEW image \in disk \cup {NoImage}, Restart(image) PROVE LivesInv'
  <2>1. Saved(image)
    BY <1>1, NoImageSaved
  <2>2. disk' = disk
    BY <1>5 DEF Restart
  <2>3. Sound' /\ Remembered'
    BY <2>1, <1>5, RestartSound
  <2> QED
    BY <2>2, <2>3, <1>1 DEF LivesInv
<1>6. CASE UNCHANGED livesVars
  <2>1. UNCHANGED <<vars, disk, relapsed>>
    BY <1>6 DEF livesVars, lifeVars
  <2>2. Sound'
    BY <2>1, <1>1, SoundStep
  <2>3. Remembered'
    BY <2>1, <1>1 DEF Remembered, Accounted, Now, vars, table
  <2> QED
    BY <2>1, <2>2, <2>3, <1>1 DEF LivesInv
<1> QED
  BY <1>2, <1>3, <1>4, <1>5, <1>6 DEF NextRestart

LEMMA LivesInvariant == SpecRestart => []LivesInv
  BY LivesInit, LivesStep, PTL DEF SpecRestart

\* In every life the variables keep their types, also right after load().
THEOREM LivesTyped == SpecRestart => []TypeOK
<1>1. LivesInv => TypeOK
  BY TypedIsTypeOK DEF LivesInv, Sound
<1> QED
  BY <1>1, LivesInvariant, PTL

\* In every life each outcome harvested in it is queued, being applied,
\* applied or counted as a drop.
THEOREM LivesLoseNothing == SpecRestart => []NothingLost
<1>1. LivesInv => NothingLost
  BY DEF LivesInv, Sound
<1> QED
  BY <1>1, LivesInvariant, PTL

\* No snapshot, however old, brings back an entry without observations.
THEOREM LivesHaveEvidence == SpecRestart => []EveryEntryHasEvidence
<1>1. LivesInv => EveryEntryHasEvidence
  BY DEF LivesInv, Sound
<1> QED
  BY <1>1, LivesInvariant, PTL

\* Whatever is saved, stopped and loaded in between: an entry served although
\* its file was edited since it was last observed there is one that a stop
\* has set back to before the edit.
THEOREM StaleByStopAlone == SpecRestart => []StaleOnlyByStop
<1>1. LivesInv => StaleOnlyByStop
  <2> SUFFICES ASSUME LivesInv, NEW k \in Served,
                      seen[k].edits \in 1..EpochMod - 1, k \notin relapsed
               PROVE  FALSE
    BY DEF StaleOnlyByStop
  <2>1. /\ k \in DOMAIN hot /\ Fresh(k) /\ Accounted(k)
        /\ hot[k].epoch \in Nat /\ hot[k].epoch < EpochMod
        /\ seen[k].edits \in Nat /\ seen[k].edits < EpochMod /\ seen[k].edits # 0
    BY StoreConstants DEF LivesInv, Sound, Remembered, Served, Typed, TableOK, Entries
  <2>2. CASE hot[k].dom = NoFile
    BY <2>1, <2>2 DEF Accounted
  <2>3. CASE hot[k].dom # NoFile
    BY <2>1, <2>3, StoreConstants DEF Accounted, Fresh
  <2> QED
    BY <2>2, <2>3
<1> QED
  BY <1>1, LivesInvariant, PTL
-----------------------------------------------------------------------------
(* A store and its twin.  INSTANCE makes copies of the operators of        *)
(* LedgerStore: that each copy is the operator it copies comes first.      *)

\* They agree on what a call depends on.
Same ==
    /\ hot = thot /\ before = tbefore /\ epochs = tepochs
    /\ queue = tqueue /\ drain = tdrain /\ work = twork

\* Between drains nothing of a drain is left, and an orderly stop finds the
\* table on disk as it is.
Settled ==
    /\ drain.phase = "idle" => drain = NoDrain
    /\ orderly => disk = {Image} /\ queue = <<>> /\ drain.phase = "idle"

LEMMA SameCardinality == \A S : Cardinality(S) = Twin!Cardinality(S)
  BY Zenon DEF Cardinality, Twin!Cardinality

\* Making room for a candidate.
LEMMA SameMakingRoom == \A e, tok : Ensure(e, tok) = Twin!Ensure(e, tok)
<1>1. \A cands, tok, c : WithCand(cands, tok, c) = Twin!WithCand(cands, tok, c)
  BY Zenon DEF WithCand, Twin!WithCand
<1>2. \A cands, tok : EvictWeakest(cands, tok) = Twin!EvictWeakest(cands, tok)
  BY Zenon DEF EvictWeakest, Twin!EvictWeakest, IsWeakest, Twin!IsWeakest,
               Weaker, Twin!Weaker, Support, Twin!Support, QRank, Twin!QRank,
               Unseen, Twin!Unseen
<1>3. \A e : WantsGrowth(e) = Twin!WantsGrowth(e)
  BY Zenon DEF WantsGrowth, Twin!WantsGrowth
<1>4. FreshCand = Twin!FreshCand
  BY Zenon DEF FreshCand, Twin!FreshCand, Unseen, Twin!Unseen
<1> QED
  BY SameCardinality, <1>1, <1>2, <1>3, <1>4 DEF Ensure, Twin!Ensure, Lesser, Twin!Lesser

\* Counting a token, kept or rejected.
LEMMA SameCounting ==
    \A e, tok : /\ UpdateRealized(e, tok) = Twin!UpdateRealized(e, tok)
                /\ UpdateRejected(e, tok) = Twin!UpdateRejected(e, tok)
  BY SameMakingRoom DEF UpdateRealized, Twin!UpdateRealized, UpdateRejected, Twin!UpdateRejected,
               Saturate, Twin!Saturate, Lesser, Twin!Lesser

\* Merging a row of top-k probabilities.
LEMMA SameMerge == \A e, row : MergeTopk(e, row) = Twin!MergeTopk(e, row)
<1>1. \A S : Cardinality(S) = Twin!Cardinality(S)
  BY SameCardinality
<1>2. \A e, r : RowIds(r) = Twin!RowIds(r) /\ \A t : QIn(r, t) = Twin!QIn(r, t)
  BY Zenon DEF RowIds, Twin!RowIds, QIn, Twin!QIn
<1>3. \A c : Fade(c) = Twin!Fade(c)
  BY Zenon DEF Fade, Twin!Fade, Lesser, Twin!Lesser, Unseen, Twin!Unseen
<1>4. \A c, q : Blend(c, q) = Twin!Blend(c, q)
  BY Zenon DEF Blend, Twin!Blend, Unseen, Twin!Unseen
<1>5. \A e, r : CoverageAfter(e, r) = Twin!CoverageAfter(e, r)
  BY <1>1, <1>2 DEF CoverageAfter, Twin!CoverageAfter
<1>6. \A e, r : Newcomers(e, r) = Twin!Newcomers(e, r)
  BY Zenon DEF Newcomers, Twin!Newcomers, Unseen, Twin!Unseen
<1>7. \A e, r, n : Admitted(e, r, n) = Twin!Admitted(e, r, n)
  BY Zenon DEF Admitted, Twin!Admitted, Newcomers, Twin!Newcomers, Unseen, Twin!Unseen,
               Cardinality, Twin!Cardinality
<1>8. \A k, n : GrownCap(k, n) = Twin!GrownCap(k, n)
  BY Zenon DEF GrownCap, Twin!GrownCap, Lesser, Twin!Lesser
<1>9. FreshCand = Twin!FreshCand
  BY Zenon DEF FreshCand, Twin!FreshCand, Unseen, Twin!Unseen
<1>10. TAKE e, row
<1> DEFINE cov    == CoverageAfter(e, row)
           tcov   == Twin!CoverageAfter(e, row)
           room   == (IF cov < CovTarget THEN KMax ELSE e.cap) - Cardinality(DOMAIN e.cands)
           troom  == (IF tcov < CovTarget THEN KMax ELSE e.cap)
                       - Twin!Cardinality(DOMAIN e.cands)
           new    == {row[i].tok : i \in Admitted(e, row, room)}
           tnew   == {row[i].tok : i \in Twin!Admitted(e, row, troom)}
           of(t)  == CASE t \in new -> [FreshCand EXCEPT !.q = QIn(row, t)]
                       [] t \in DOMAIN e.cands \cap RowIds(row) ->
                             Blend(e.cands[t], QIn(row, t))
                       [] OTHER -> Fade(e.cands[t])
           tof(t) == CASE t \in tnew -> [Twin!FreshCand EXCEPT !.q = Twin!QIn(row, t)]
                       [] t \in DOMAIN e.cands \cap Twin!RowIds(row) ->
                             Twin!Blend(e.cands[t], Twin!QIn(row, t))
                       [] OTHER -> Twin!Fade(e.cands[t])
           all    == [t \in DOMAIN e.cands \cup new |-> of(t)]
           tall   == [t \in DOMAIN e.cands \cup tnew |-> tof(t)]
           cap    == GrownCap(e.cap, Cardinality(DOMAIN e.cands \cup new))
           tcap   == Twin!GrownCap(e.cap, Twin!Cardinality(DOMAIN e.cands \cup tnew))
<1>11. MergeTopk(e, row) =
         IF row = <<>> THEN e ELSE [e EXCEPT !.cov = cov, !.cands = all, !.cap = cap]
  BY DEF MergeTopk
<1>12. Twin!MergeTopk(e, row) =
         IF row = <<>> THEN e ELSE [e EXCEPT !.cov = tcov, !.cands = tall, !.cap = tcap]
  BY DEF Twin!MergeTopk
<1>13. cov = tcov /\ room = troom
  BY <1>1, <1>5
<1>14. new = tnew
  BY <1>7, <1>13
<1>15. ASSUME NEW t PROVE of(t) = tof(t)
  <2>1. QIn(row, t) = Twin!QIn(row, t) /\ RowIds(row) = Twin!RowIds(row)
    BY <1>2
  <2>2. Blend(e.cands[t], QIn(row, t)) = Twin!Blend(e.cands[t], Twin!QIn(row, t))
    BY <2>1, <1>4
  <2>3. Fade(e.cands[t]) = Twin!Fade(e.cands[t])
    BY <1>3
  <2> HIDE DEF new, tnew
  <2> QED
    BY <2>1, <2>2, <2>3, <1>9, <1>14
<1>16. all = tall
  <2> HIDE DEF of, tof, new, tnew
  <2> QED
    BY <1>14, <1>15
<1>17. cap = tcap
  <2> HIDE DEF new, tnew
  <2> QED
    BY <1>1, <1>8, <1>14
<1> HIDE DEF cov, tcov, all, tall, cap, tcap
<1> QED
  BY <1>11, <1>12, <1>13, <1>16, <1>17

\* Decay in a compaction.
LEMMA SameDecay == \A e : Decay(e) = Twin!Decay(e)
  BY Zenon DEF Decay, Twin!Decay, Halve, Twin!Halve, Support, Twin!Support,
               Lesser, Twin!Lesser, Greater, Twin!Greater

\* A new entry, and one that is emptied.
LEMMA SameBirth ==
    /\ NoCands = Twin!NoCands
    /\ \A dom, n : NewEntry(dom, n) = Twin!NewEntry(dom, n)
    /\ \A e, dom, n : Reset(e, dom, n) = Twin!Reset(e, dom, n)
  BY Zenon DEF NewEntry, Twin!NewEntry, Reset, Twin!Reset, NoCands, Twin!NoCands

\* Where an outcome is observed.
LEMMA SamePlaces ==
    /\ NoFile = Twin!NoFile
    /\ \A ev, pos, probe : KeyAt(ev, pos, probe) = Twin!KeyAt(ev, pos, probe)
    /\ \A ev, pos : /\ DomAt(ev, pos) = Twin!DomAt(ev, pos)
                    /\ ProbesAt(ev, pos) = Twin!ProbesAt(ev, pos)
                    /\ TokenAt(ev, pos) = Twin!TokenAt(ev, pos)
                    /\ IsRejectAt(ev, pos) = Twin!IsRejectAt(ev, pos)
                    /\ TopkAt(ev, pos) = Twin!TopkAt(ev, pos)
    /\ \A p, q : ProbeBefore(p, q) = Twin!ProbeBefore(p, q)
<1> USE DEF KeyAt, Twin!KeyAt, LastN, Twin!LastN, PathTo, Twin!PathTo, SegAt, Twin!SegAt,
            DomAt, Twin!DomAt, NoFile, Twin!NoFile, ProbesAt, Twin!ProbesAt,
            TokenAt, Twin!TokenAt, IsRejectAt, Twin!IsRejectAt, TopkAt, Twin!TopkAt,
            ProbeBefore, Twin!ProbeBefore
<1> QED
  BY Zenon

\* A store at rest.
LEMMA SameEmpty ==
    NoTable = Twin!NoTable /\ NoDrain = Twin!NoDrain /\ NoWork = Twin!NoWork
  BY Zenon DEF NoTable, Twin!NoTable, NoDrain, Twin!NoDrain, NoWork, Twin!NoWork

\* Equal epochs tell the same entries stale.
LEMMA SameEpoch ==
    ASSUME Same
    PROVE  /\ \A scope, dom : Now(scope, dom) = Twin!Now(scope, dom)
           /\ \A k : Fresh(k) <=> Twin!Fresh(k)
<1>1. \A scope, dom : Now(scope, dom) = Twin!Now(scope, dom)
  BY SamePlaces DEF Same, Now, Twin!Now
<1>2. \A k : Fresh(k) <=> Twin!Fresh(k)
  BY <1>1 DEF Same, Fresh, Twin!Fresh
<1> QED
  BY <1>1, <1>2

\* Equal outcomes do the same to an entry.
LEMMA SameObserved ==
    ASSUME Same
    PROVE  /\ \A e : Observed(e) = Twin!Observed(e)
           /\ \A k, dom : Rebound(k, dom) = Twin!Rebound(k, dom)
<1>1. \A e : Observed(e) = Twin!Observed(e)
  BY SamePlaces, SameCounting, SameMerge DEF Same, Observed, Twin!Observed
<1>2. \A k, dom : Rebound(k, dom) = Twin!Rebound(k, dom)
  BY SamePlaces, SameBirth, SameEpoch DEF Same, Rebound, Twin!Rebound
<1> QED
  BY <1>1, <1>2

\* Equal tables compact to equal tables.
LEMMA SameCompact ==
    ASSUME Same, CompactTable, Twin!CompactTable
    PROVE  hot' = thot' /\ before' = tbefore'
<1> DEFINE S == Survivors
           T == Twin!Survivors
<1>1. S = T
  <2>1. \A k : k \in S <=> k \in DOMAIN hot /\ Fresh(k) /\ Decay(hot[k]).cands # NoCands
    BY DEF Survivors, Served
  <2>2. \A k : k \in T <=> /\ k \in DOMAIN thot /\ Twin!Fresh(k)
                          /\ Twin!Decay(thot[k]).cands # Twin!NoCands
    BY DEF Twin!Survivors, Twin!Served
  <2> HIDE DEF S, T
  <2>3. \A k : k \in S <=> k \in T
    BY <2>1, <2>2, SameEpoch, SameDecay, SameBirth DEF Same
  <2>4. S \subseteq DOMAIN hot /\ T \subseteq DOMAIN hot
    BY <2>1, <2>3
  <2> QED
    BY <2>3, <2>4
<1>2. hot' = [k \in S |-> Decay(hot[k])]
      /\ before' = {p \in before : p[1] \in S /\ p[2] \in S}
  BY DEF CompactTable
<1>3. thot' = [k \in T |-> Twin!Decay(thot[k])]
      /\ tbefore' = {p \in tbefore : p[1] \in T /\ p[2] \in T}
  BY DEF Twin!CompactTable
<1> HIDE DEF S, T
<1>4. hot' = thot'
  <2>1. \A k \in S : Decay(hot[k]) = Twin!Decay(thot[k])
    BY SameDecay DEF Same
  <2> QED
    BY <2>1, <1>1, <1>2, <1>3
<1> QED
  BY <1>1, <1>2, <1>3, <1>4 DEF Same

\* A full table gives up the same entry.
LEMMA SameKept == ASSUME Same PROVE Kept = Twin!Kept
<1>1. Oldest = Twin!Oldest
  BY Zenon DEF Same, Oldest, Twin!Oldest
<1> QED
  BY <1>1, SameCardinality DEF Same, Kept, Twin!Kept

\* A visit leaves equal drains equal.
LEMMA SameVisit ==
    ASSUME Same, NEW probe, VisitProbe(probe), Twin!VisitProbe(probe)
    PROVE  /\ work' = twork' /\ epochs' = tepochs' /\ queue' = tqueue' /\ drain' = tdrain'
           /\ drain' = drain
  BY DEF Same, VisitProbe, Twin!VisitProbe

\* A visited entry is updated in both.
LEMMA SameUpdate ==
    ASSUME Same, NEW probe, UpdateEntry(probe), Twin!UpdateEntry(probe)
    PROVE  Same' /\ drain' = drain
<1> DEFINE k == KeyAt(work.ev, work.pos, probe)
           dom == DomAt(work.ev, work.pos)
           tk == Twin!KeyAt(twork.ev, twork.pos, probe)
           tdom == Twin!DomAt(twork.ev, twork.pos)
<1>1. VisitProbe(probe) /\ Twin!VisitProbe(probe)
  BY DEF UpdateEntry, Twin!UpdateEntry
<1>2. hot' = [hot EXCEPT ![k] = Observed(Rebound(k, dom))] /\ before' = before
  BY DEF UpdateEntry
<1>3. /\ thot' = [thot EXCEPT ![tk] = Twin!Observed(Twin!Rebound(tk, tdom))]
      /\ tbefore' = tbefore
  BY DEF Twin!UpdateEntry
<1>4. k = tk /\ dom = tdom
  BY SamePlaces DEF Same
<1> HIDE DEF k, dom, tk, tdom
<1>5. Observed(Rebound(k, dom)) = Twin!Observed(Twin!Rebound(tk, tdom))
  BY <1>4, SameObserved
<1>6. hot' = thot' /\ before' = tbefore'
  BY <1>2, <1>3, <1>4, <1>5 DEF Same
<1> QED
  BY <1>1, <1>6, SameVisit DEF Same

\* A missing entry is created in both.
LEMMA SameCreate ==
    ASSUME Same, NEW probe, CreateEntry(probe), Twin!CreateEntry(probe)
    PROVE  Same' /\ drain' = drain
<1> DEFINE k == KeyAt(work.ev, work.pos, probe)
           dom == DomAt(work.ev, work.pos)
           new == Observed(NewEntry(dom, Now(k.scope, dom)))
           S == Kept
           tk == Twin!KeyAt(twork.ev, twork.pos, probe)
           tdom == Twin!DomAt(twork.ev, twork.pos)
           tnew == Twin!Observed(Twin!NewEntry(tdom, Twin!Now(tk.scope, tdom)))
           T == Twin!Kept
<1>1. VisitProbe(probe) /\ Twin!VisitProbe(probe)
  BY DEF CreateEntry, Twin!CreateEntry
<1>2. /\ hot' = [j \in S \cup {k} |-> IF j = k THEN new ELSE hot[j]]
      /\ before' = {p \in before : p[1] \in S /\ p[2] \in S} \cup (S \X {k})
  BY DEF CreateEntry
<1>3. /\ thot' = [j \in T \cup {tk} |-> IF j = tk THEN tnew ELSE thot[j]]
      /\ tbefore' = {p \in tbefore : p[1] \in T /\ p[2] \in T} \cup (T \X {tk})
  BY DEF Twin!CreateEntry
<1>4. k = tk /\ dom = tdom
  BY SamePlaces DEF Same
<1>5. S = T
  BY SameKept
<1>6. new = tnew
  <2> HIDE DEF k, tk, dom, tdom
  <2>1. Now(k.scope, dom) = Twin!Now(tk.scope, tdom)
    BY <1>4, SameEpoch
  <2>2. NewEntry(dom, Now(k.scope, dom)) = Twin!NewEntry(tdom, Twin!Now(tk.scope, tdom))
    BY <2>1, <1>4, SameBirth
  <2> QED
    BY <2>2, SameObserved
<1> HIDE DEF k, dom, new, S, tk, tdom, tnew, T
<1>7. hot' = thot' /\ before' = tbefore'
  BY <1>2, <1>3, <1>4, <1>5, <1>6 DEF Same
<1> QED
  BY <1>1, <1>7, SameVisit DEF Same

\* Without a cadence no drain ends in a compaction.
LEMMA SameEnd ==
    ASSUME CompactEvery = 0, Same, EndDrain, Twin!EndDrain
    PROVE  Same' /\ drain' = NoDrain
<1>1. ~CompactDue /\ ~Twin!CompactDue
  BY DEF CompactDue, Twin!CompactDue
<1>2. UNCHANGED <<table, epochs, queue, work>> /\ drain' = NoDrain
  BY <1>1 DEF EndDrain
<1>3. UNCHANGED <<Twin!table, tepochs, tqueue, twork>> /\ tdrain' = Twin!NoDrain
  BY <1>1 DEF Twin!EndDrain
<1> QED
  BY <1>2, <1>3, SameEmpty DEF Same, table, Twin!table

\* A call does the same to both.
LEMMA SameCall ==
    ASSUME CompactEvery = 0, Same, drain.phase = "idle" => drain = NoDrain, Call
    PROVE  Same' /\ (drain'.phase = "idle" => drain' = NoDrain)
<1>1. ASSUME NEW ev \in Outcomes, Harvest(ev), Twin!Harvest(ev)
      PROVE  Same' /\ drain' = drain
  BY <1>1 DEF Same, Harvest, Twin!Harvest, table, Twin!table
<1>2. ASSUME NEW limit \in DrainLimits, StartDrain(limit), Twin!StartDrain(limit)
      PROVE  Same' /\ drain'.phase = "loop"
  BY <1>2 DEF Same, StartDrain, Twin!StartDrain, table, Twin!table
<1>3. ASSUME TakeOutcome, Twin!TakeOutcome PROVE Same' /\ drain'.phase # "idle"
  BY <1>3, SamePlaces DEF Same, TakeOutcome, Twin!TakeOutcome, table, Twin!table
<1>4. ASSUME NextPosition, Twin!NextPosition PROVE Same' /\ drain' = drain
  BY <1>4, SamePlaces DEF Same, NextPosition, Twin!NextPosition, table, Twin!table
<1>5. ASSUME EndApply, Twin!EndApply PROVE Same' /\ drain'.phase # "idle"
  BY <1>5, SameEmpty DEF Same, EndApply, Twin!EndApply, table, Twin!table
<1>6. ASSUME Compact, Twin!Compact PROVE Same' /\ drain' = drain
  <2>1. hot' = thot' /\ before' = tbefore'
    BY <1>6, SameCompact DEF Compact, Twin!Compact
  <2> QED
    BY <1>6, <2>1 DEF Same, Compact, Twin!Compact
<1> QED
  BY <1>1, <1>2, <1>3, <1>4, <1>5, <1>6, SameUpdate, SameCreate, SameEnd DEF Call

\* An edit is the same to both.
LEMMA SameEdit ==
    ASSUME Same, NEW scope, NEW file, BumpEpoch(scope, file), Twin!BumpEpoch(scope, file)
    PROVE  Same' /\ drain' = drain
<1>1. \A n : Next1(n) = Twin!Next1(n)
  BY DEF Next1, Twin!Next1
<1> QED
  BY <1>1 DEF Same, BumpEpoch, Twin!BumpEpoch

\* load() after an orderly stop finds what the twin has; after any other
\* stop the twin is a copy.
LEMMA SameRestart ==
    ASSUME Same, Settled, Typed, NEW image \in disk \cup {NoImage}, Restart(image)
    PROVE  Same'
<1>1. CASE orderly /\ image # NoImage
  <2>1. image = Image /\ queue = <<>> /\ drain = NoDrain /\ work = NoWork
    BY <1>1 DEF Settled, Typed, RestOK
  <2>2. image.hot = hot /\ image.before = before /\ image.epochs = epochs
    BY <2>1 DEF Image
  <2>3. hot' = hot /\ before' = before /\ epochs' = epochs
    BY <2>2 DEF Restart, Load
  <2>4. queue' = queue /\ drain' = drain /\ work' = work /\ UNCHANGED twin
    BY <1>1, <2>1 DEF Restart
  <2> QED
    BY <2>3, <2>4 DEF Same, twin
<1>2. CASE ~ (orderly /\ image # NoImage)
  BY <1>2 DEF Restart, CopyTwin, Same
<1> QED
  BY <1>1, <1>2

ResumeInv == LivesInv /\ Same /\ Settled

LEMMA ResumeInit == InitRestart => ResumeInv
<1> SUFFICES ASSUME InitRestart PROVE ResumeInv
  OBVIOUS
<1>1. Init /\ Twin!Init /\ orderly = FALSE
  BY DEF InitRestart
<1>2. Same
  BY <1>1, SameEmpty DEF Same, Init, Twin!Init
<1>3. Settled
  BY <1>1 DEF Settled, Init
<1> QED
  BY <1>2, <1>3, LivesInit DEF ResumeInv

LEMMA ResumeStep ==
    ASSUME CompactEvery = 0 PROVE ResumeInv /\ [NextRestart]_livesVars => ResumeInv'
<1> SUFFICES ASSUME ResumeInv, [NextRestart]_livesVars
             PROVE  Same' /\ Settled'
  BY LivesStep DEF ResumeInv
<1>1. Same /\ Settled /\ Typed
  BY DEF ResumeInv, LivesInv, Sound
<1>2. CASE Call
  <2>1. orderly' = FALSE
    BY <1>2 DEF Call, Running
  <2> QED
    BY <2>1, <1>1, <1>2, SameCall DEF Settled
<1>3. ASSUME NEW scope \in ScopeIds, NEW file \in Files, Edit(scope, file)
      PROVE  Same' /\ Settled'
  <2>1. orderly' = FALSE /\ BumpEpoch(scope, file) /\ Twin!BumpEpoch(scope, file)
    BY <1>3 DEF Edit, Running
  <2> QED
    BY <2>1, <1>1, SameEdit DEF Settled
<1>4. CASE Save
  <2>1. UNCHANGED <<vars, twin, relapsed>> /\ disk' = {Image} /\ drain.phase = "idle"
        /\ orderly' = (queue = <<>>)
    BY <1>4 DEF Save
  <2>2. Same'
    BY <2>1, <1>1 DEF Same, vars, table, twin
  <2>3. Image' = Image
    BY <2>1 DEF Image, vars, table
  <2> QED
    BY <2>1, <2>2, <2>3, <1>1 DEF Settled, vars, table
<1>5. ASSUME NEW image \in disk \cup {NoImage}, Restart(image) PROVE Same' /\ Settled'
  <2>1. orderly' = FALSE /\ drain' = NoDrain
    BY <1>5 DEF Restart
  <2> QED
    BY <2>1, <1>1, <1>5, SameRestart DEF Settled, NoDrain
<1>6. CASE UNCHANGED livesVars
  <2>1. UNCHANGED <<vars, twin, disk, orderly, relapsed>>
    BY <1>6 DEF livesVars, lifeVars
  <2>2. Image' = Image
    BY <2>1 DEF Image, vars, table
  <2> QED
    BY <2>1, <2>2, <1>1 DEF Same, Settled, vars, table, twin
<1> QED
  BY <1>2, <1>3, <1>4, <1>5, <1>6 DEF NextRestart

\* Without a cadence of compactions a stop with an empty queue right after a
\* snapshot leaves no trace: the store goes on like its twin, for all values
\* of the other constants and however often it is stopped.
THEOREM ResumesWithoutCadence ==
    ASSUME CompactEvery = 0 PROVE SpecRestart => []ResumedAgrees
<1>1. ResumeInv => ResumedAgrees
  BY DEF ResumeInv, Same, ResumedAgrees
<1>2. ResumeInv /\ [NextRestart]_livesVars => ResumeInv'
  BY ResumeStep
<1> QED
  BY <1>1, <1>2, ResumeInit, PTL DEF SpecRestart
=============================================================================
