----------------------------- MODULE LedgerStore -----------------------------
(***************************************************************************)
(* The hot table of the ledger with its bounded harvest queue, its epochs  *)
(* and its compaction (core/store.py, class LedgerStore at version 1).     *)
(*                                                                         *)
(* harvest() only queues an outcome; drain() takes outcomes one by one and *)
(* applies them.  The drain of an online store runs in a background        *)
(* thread, so applying an outcome is a loop with one step per table entry  *)
(* it visits: edits (bump_epoch) and further harvests come in between.     *)
(*                                                                         *)
(* The history variables: sent counts the outcomes harvested so far, and   *)
(* seen[k] says of every entry which file its latest observation inside a  *)
(* file was made in (NoFile: none since the entry was last emptied), and   *)
(* how often that file was edited since, counted up to EpochMod.           *)
(***************************************************************************)
EXTENDS VerifyOutcome, HotEntryOps

CONSTANTS Outcomes,      \* the outcomes the engine may harvest
          QueueCap,      \* StoreParams.queue_cap; <= 0 turns the queue off
          MaxEntries,    \* StoreParams.max_entries; 0 is no limit
          CompactEvery,  \* StoreParams.compact_every; 0 is never
          EpochMod,      \* epochs are 16-bit: 2^16
          DrainLimits,   \* values of max_events; 0 is None
          NoOutcome,     \* no outcome is being applied
          MaxSent        \* bound: outcomes harvested in a behaviour

ASSUME StoreConstants ==
    /\ \A ev \in Outcomes : IsOutcome(ev)
    /\ QueueCap \in Int
    /\ MaxEntries \in Nat
    /\ CompactEvery \in Nat
    /\ EpochMod \in Nat /\ EpochMod >= 2
    /\ DrainLimits \subseteq Nat
    /\ MaxSent \in Nat

VARIABLES hot,           \* _hot: key -> entry
          before,        \* its insertion order: <<j, k>> when j came first
          epochs,        \* _epochs
          queue,         \* _queue
          drain,         \* the call of drain() in progress
          work,          \* the outcome in _apply: position and probes left
          sinceCompact,  \* _events_since_compact
          drops,         \* stats().drops
          harvested,     \* stats().harvested_events
          sent, seen     \* history

table    == <<hot, before, seen>>
counters == <<sinceCompact, drops, harvested>>
vars     == <<table, epochs, queue, drain, work, counters, sent>>

NoTable == [k \in {} |-> 0]
NoDrain == [phase |-> "idle", taken |-> 0, limit |-> 0]
NoWork  == [ev |-> NoOutcome, pos |-> 0, todo |-> {}]

Init ==
    /\ hot = NoTable /\ before = {} /\ seen = NoTable
    /\ epochs = [p \in ScopeIds \X Files |-> 0]
    /\ queue = <<>>
    /\ drain = NoDrain /\ work = NoWork
    /\ sinceCompact = 0 /\ drops = 0 /\ harvested = 0
    /\ sent = 0

-----------------------------------------------------------------------------
(* Epochs.                                                                 *)

Now(scope, dom) == IF dom = NoFile THEN 0 ELSE epochs[<<scope, dom>>]

Fresh(k) == hot[k].epoch = Now(k.scope, hot[k].dom)

\* What a lookup may use: entries whose epoch is the current one.
Served == {k \in DOMAIN hot : Fresh(k)}

\* Mutant: an epoch that is not masked to 16 bits.
NextUnmasked(n) == n + 1

Next1(n) == IF n = EpochMod - 1 THEN 0 ELSE n + 1

BumpEpoch(scope, file) ==
    /\ epochs' = [epochs EXCEPT ![<<scope, file>>] = Next1(@)]
    /\ seen' = [k \in DOMAIN seen |->
                  IF k.scope = scope /\ seen[k].file = file
                  THEN [seen[k] EXCEPT !.edits = Lesser(@ + 1, EpochMod)]
                  ELSE seen[k]]
    /\ UNCHANGED <<hot, before, queue, drain, work, counters, sent>>

-----------------------------------------------------------------------------
(* harvest(): never blocks; a full queue loses its oldest outcome.         *)

\* Mutant: the outcome a full queue pushes out is not counted.
HarvestSilently(ev) ==
    /\ sent < MaxSent
    /\ sent' = sent + 1
    /\ IF QueueCap <= 0
       THEN queue' = queue /\ drops' = drops + 1
       ELSE /\ queue' = Append(IF Len(queue) >= QueueCap THEN Tail(queue) ELSE queue, ev)
            /\ drops' = drops
    /\ UNCHANGED <<table, epochs, drain, work, sinceCompact, harvested>>

Harvest(ev) ==
    /\ sent < MaxSent
    /\ sent' = sent + 1
    /\ IF QueueCap <= 0
       THEN queue' = queue /\ drops' = drops + 1
       ELSE IF Len(queue) >= QueueCap
            THEN queue' = Append(Tail(queue), ev) /\ drops' = drops + 1
            ELSE queue' = Append(queue, ev) /\ drops' = drops
    /\ UNCHANGED <<table, epochs, drain, work, sinceCompact, harvested>>

-----------------------------------------------------------------------------
(* compact(): stale entries and entries without counts go, counts decay.   *)

\* Mutant: entries that decayed to nothing stay.
StaleGo == Served

Survivors == {k \in Served : Decay(hot[k]).cands # NoCands}

CompactTable ==
    /\ hot' = [k \in Survivors |-> Decay(hot[k])]
    /\ before' = {p \in before : p[1] \in Survivors /\ p[2] \in Survivors}
    /\ seen' = [k \in Survivors |-> seen[k]]

\* Called by the owner of the store, between drains.
Compact ==
    /\ drain.phase = "idle"
    /\ CompactTable
    /\ UNCHANGED <<epochs, queue, drain, work, counters, sent>>

-----------------------------------------------------------------------------
(* drain(max_events) and _apply.                                           *)

StartDrain(limit) ==
    /\ drain.phase = "idle"
    /\ drain' = [phase |-> "loop", taken |-> 0, limit |-> limit]
    /\ UNCHANGED <<table, epochs, queue, work, counters, sent>>

MayTake == queue # <<>> /\ (drain.limit = 0 \/ drain.taken < drain.limit)

TakeOutcome ==
    /\ drain.phase = "loop" /\ MayTake
    /\ queue' = Tail(queue)
    /\ work' = [ev |-> Head(queue), pos |-> 0, todo |-> ProbesAt(Head(queue), 0)]
    /\ drain' = [drain EXCEPT !.phase = "apply"]
    /\ UNCHANGED <<table, epochs, counters, sent>>

\* Mutant: an entry stays bound to the file that created it.
ReboundIfStale(k, dom) ==
    IF Fresh(k) THEN hot[k] ELSE Reset(hot[k], dom, Now(k.scope, dom))

\* _get_or_create on a key of the table: a stale entry is emptied and bound
\* to the current epoch; a fresh one follows the file observed last.
Rebound(k, dom) ==
    CASE ~Fresh(k) -> Reset(hot[k], dom, Now(k.scope, dom))
      [] Fresh(k) /\ dom # NoFile /\ hot[k].dom # dom ->
            [hot[k] EXCEPT !.dom = dom, !.epoch = Now(k.scope, dom)]
      [] OTHER -> hot[k]

\* The updates of one visited entry, in the order of the loop body.
Observed(e) ==
    LET ev == work.ev
        pos == work.pos
        realized == UpdateRealized(e, TokenAt(ev, pos))
        judged == IF IsRejectAt(ev, pos)
                  THEN UpdateRejected(realized, ev.draft[pos + 1])
                  ELSE realized
    IN  MergeTopk(judged, TopkAt(ev, pos))

\* The loops visit the probes of a position in order.
VisitProbe(probe) ==
    /\ drain.phase = "apply"
    /\ probe \in work.todo
    /\ \A other \in work.todo \ {probe} : ProbeBefore(probe, other)
    /\ work' = [work EXCEPT !.todo = @ \ {probe}]
    /\ UNCHANGED <<epochs, queue, drain, counters, sent>>

UpdateEntry(probe) ==
    LET k   == KeyAt(work.ev, work.pos, probe)
        dom == DomAt(work.ev, work.pos)
    IN  /\ VisitProbe(probe)
        /\ k \in DOMAIN hot
        /\ hot' = [hot EXCEPT ![k] = Observed(Rebound(k, dom))]
        /\ seen' = [seen EXCEPT ![k] =
                      IF dom # NoFile \/ ~Fresh(k)
                      THEN [file |-> dom, edits |-> 0] ELSE @]
        /\ UNCHANGED before

\* The first key in insertion order makes room when the table is full.
Oldest == CHOOSE k \in DOMAIN hot : \A j \in DOMAIN hot \ {k} : <<k, j>> \in before

\* Mutant: the table makes room only once it is over its limit.
KeptLate == IF MaxEntries > 0 /\ Cardinality(DOMAIN hot) > MaxEntries
            THEN DOMAIN hot \ {Oldest} ELSE DOMAIN hot

Kept == IF MaxEntries > 0 /\ Cardinality(DOMAIN hot) >= MaxEntries
        THEN DOMAIN hot \ {Oldest} ELSE DOMAIN hot

CreateEntry(probe) ==
    LET k   == KeyAt(work.ev, work.pos, probe)
        dom == DomAt(work.ev, work.pos)
        new == Observed(NewEntry(dom, Now(k.scope, dom)))
    IN  /\ VisitProbe(probe)
        /\ k \notin DOMAIN hot
        /\ hot' = [j \in Kept \cup {k} |-> IF j = k THEN new ELSE hot[j]]
        /\ before' = {p \in before : p[1] \in Kept /\ p[2] \in Kept} \cup (Kept \X {k})
        /\ seen' = [j \in Kept \cup {k} |->
                      IF j = k THEN [file |-> dom, edits |-> 0] ELSE seen[j]]

NextPosition ==
    /\ drain.phase = "apply" /\ work.todo = {} /\ work.pos < work.ev.acc
    /\ work' = [work EXCEPT !.pos = @ + 1, !.todo = ProbesAt(work.ev, work.pos + 1)]
    /\ UNCHANGED <<table, epochs, queue, drain, counters, sent>>

EndApply ==
    /\ drain.phase = "apply" /\ work.todo = {} /\ work.pos = work.ev.acc
    /\ work' = NoWork
    /\ harvested' = harvested + 1
    /\ drain' = [drain EXCEPT !.phase = "loop", !.taken = @ + 1]
    /\ UNCHANGED <<table, epochs, queue, sinceCompact, drops, sent>>

\* The end of drain: compaction, at most once, when enough was taken.
CompactDue ==
    drain.taken > 0 /\ CompactEvery > 0 /\ sinceCompact + drain.taken >= CompactEvery

EndDrain ==
    /\ drain.phase = "loop" /\ ~MayTake
    /\ IF CompactDue
       THEN CompactTable /\ sinceCompact' = 0
       ELSE UNCHANGED table /\ sinceCompact' = sinceCompact + drain.taken
    /\ drain' = NoDrain
    /\ UNCHANGED <<epochs, queue, work, drops, harvested, sent>>

-----------------------------------------------------------------------------
Drain ==
    \/ \E limit \in DrainLimits : StartDrain(limit)
    \/ TakeOutcome
    \/ \E probe \in work.todo : UpdateEntry(probe) \/ CreateEntry(probe)
    \/ NextPosition
    \/ EndApply
    \/ EndDrain

Next ==
    \/ \E ev \in Outcomes : Harvest(ev)
    \/ \E scope \in ScopeIds, file \in Files : BumpEpoch(scope, file)
    \/ Drain
    \/ Compact

Spec == Init /\ [][Next]_vars

-----------------------------------------------------------------------------
\* Every variable has its type: a table of entries on keys, with history for
\* the same keys, and an outcome in work only while drain applies one.
TypeOK ==
    /\ DOMAIN hot \subseteq Keys
    /\ DOMAIN seen = DOMAIN hot
    /\ \A k \in DOMAIN hot :
          /\ hot[k] \in Entries /\ hot[k].epoch < EpochMod
          /\ seen[k] \in [file : Domains, edits : 0..EpochMod]
    /\ before \subseteq (DOMAIN hot) \X (DOMAIN hot)
    /\ epochs \in [ScopeIds \X Files -> 0..EpochMod - 1]
    /\ queue \in Seq(Outcomes)
    /\ drain \in [phase : {"idle", "loop", "apply"}, taken : Nat, limit : Nat]
    /\ drain.phase # "apply" => work = NoWork
    /\ drain.phase = "apply" =>
          /\ work \in [ev : Outcomes, pos : Nat, todo : SUBSET (Orders \X Depths)]
          /\ work.pos <= work.ev.acc
          /\ work.todo \subseteq ProbesAt(work.ev, work.pos)
    /\ sinceCompact \in Nat /\ drops \in Nat /\ harvested \in Nat
    /\ sent \in 0..MaxSent

\* The memory bounds of the store: the table, every candidate list and the
\* queue stay within their parameters, whatever is evicted, grown, compacted
\* or dropped in between.
Bounded ==
    /\ MaxEntries > 0 => Cardinality(DOMAIN hot) <= MaxEntries
    /\ \A k \in DOMAIN hot : FitsCap(hot[k])
    /\ Len(queue) <= Greater(QueueCap, 0)

\* No entry is served whose file was edited since the entry was last observed
\* in that file -- the file observed last, not the first one.  (An entry
\* edited EpochMod times without a compaction is out of reach of 16 bits.)
ServedIsCurrent ==
    \A k \in Served : seen[k].edits < EpochMod => seen[k].edits = 0

\* Every harvested outcome is queued, being applied, applied or counted as a
\* drop: exactly one of these.
NothingLost ==
    sent = Len(queue) + (IF drain.phase = "apply" THEN 1 ELSE 0) + harvested + drops

\* Insertion order is a strict total order on the keys of the table, so that
\* there is an oldest entry to evict.
InsertionOrder ==
    \A j, k \in DOMAIN hot :
        /\ j # k => (<<j, k>> \in before <=> <<k, j>> \notin before)
        /\ <<j, j>> \notin before
        /\ \A l \in DOMAIN hot : <<j, k>> \in before /\ <<k, l>> \in before
                                    => <<j, l>> \in before

\* Every entry of the table rests on at least one observed token: eviction,
\* top-k merges and decay never leave an entry with zero counts behind.
EveryEntryHasEvidence ==
    \A k \in DOMAIN hot : \E t \in DOMAIN hot[k].cands : Support(hot[k].cands[t]) > 0

\* A rejected draft teaches its correction: when its last position has been
\* applied, every entry it visited knows the token that came instead.
CorrectionLearned ==
    drain.phase = "apply" /\ work.todo = {} /\ IsRejectAt(work.ev, work.pos) =>
        \A probe \in ProbesAt(work.ev, work.pos) :
            LET k == KeyAt(work.ev, work.pos, probe)
            IN  k \in DOMAIN hot => work.ev.bonus \in DOMAIN hot[k].cands
=============================================================================
