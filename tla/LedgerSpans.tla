----------------------------- MODULE LedgerSpans -----------------------------
(***************************************************************************)
(* The version 2 ledger: LedgerStore and, beside the hot table, the span   *)
(* table (core/store.py, the V2 parts of LedgerStore; core/arena.py,       *)
(* SpanEntry and Break).  Every action of LedgerStore that touches spans   *)
(* gets its second half here; the others leave the spans alone.            *)
(*                                                                         *)
(* Realized tokens of a session accumulate in a run.  A run that ends is   *)
(* registered as a span under the context it started in; a draft that      *)
(* follows a span and is rejected at some offset records a break there.    *)
(* A span holds its tokens; that an offset into the arena stands for them  *)
(* is the subject of module SpanArena.                                     *)
(*                                                                         *)
(* The history variables: origin[k] says in which file the body of span k  *)
(* was observed, how often that file was edited since the body was         *)
(* registered, whether it took the place of a fresh body of another file   *)
(* (moved), and whether it went stale and came back with a shorter run     *)
(* under its key (revived); marks[k] keeps, for every break, the draft it  *)
(* was seen in.                                                            *)
(***************************************************************************)
EXTENDS LedgerStore

CONSTANTS SpanMin, SpanMax,         \* span_min_len, span_max_len
          SpanOrders, SpanDepths,   \* span_orders, span_scope_depths
          NoSpan                    \* None, and "no patch key"

ASSUME SpanConstants ==
    /\ SpanMin \in Nat \ {0} /\ SpanMax \in Nat \ {0}
    /\ SpanOrders \subseteq 2..8
    /\ SpanDepths \subseteq 0..2

VARIABLES spans,    \* _spans
          runs,     \* _runs: session id -> open run
          target,   \* span_at_start, the key of the span the draft follows
          patch,    \* patch_key
          origin, marks   \* history

spanVars == <<spans, runs, target, patch, origin, marks>>
allVars  == <<vars, spanVars>>

InitSpans ==
    /\ Init
    /\ spans = NoTable /\ runs = NoTable
    /\ target = NoSpan /\ patch = NoSpan
    /\ origin = NoTable /\ marks = NoTable

-----------------------------------------------------------------------------
FreshSpan(k) == spans[k].epoch = Now(k.scope, spans[k].dom)
ServedSpans == {k \in DOMAIN spans : FreshSpan(k)}

SpanKeys(ctx, scopes, seg, orders, depths) ==
    {[ctx |-> LastN(ctx, o), scope |-> scopes[d], seg |-> seg] :
        o \in {p \in orders : p <= Len(ctx)}, d \in depths}

\* lookup_span and _find_span_entry: the spans of a context under any order,
\* the most counted first, then the longest.  Equal ones are told apart by
\* the hash of their key: any of them may win.
BestSpans(ctx, scopes, seg) ==
    LET found == SpanKeys(ctx, scopes, seg, 2..8, Depths) \cap ServedSpans
        Beats(j, k) == \/ spans[j].count > spans[k].count
                       \/ /\ spans[j].count = spans[k].count
                          /\ Len(spans[j].body) > Len(spans[k].body)
    IN  {k \in found : \A j \in found : ~Beats(j, k)}

-----------------------------------------------------------------------------
(* Registering a run as a span (_flush_run).                               *)

\* The first offset at which two bodies differ; the length of the shorter
\* one when none does.
Divergence(old, new) ==
    LET n == Lesser(Len(old), Len(new))
        differ == {d \in 0..n - 1 : old[d + 1] # new[d + 1]}
    IN  IF differ = {} THEN n ELSE CHOOSE d \in differ : \A c \in differ : d <= c

KeepBelow(f, d) == [off \in {o \in DOMAIN f : o < d} |-> f[off]]

\* Mutant: a span is not bound to the file of its run.
NewSpanUnbound(k, run) ==
    [body |-> run.toks, dom |-> NoFile, epoch |-> 0, count |-> 1, breaks |-> NoTable]

NewSpan(k, run) ==
    [body |-> run.toks, dom |-> run.dom, epoch |-> Now(k.scope, run.dom),
     count |-> 1, breaks |-> NoTable]

Revived(k, run) ==
    IF FreshSpan(k) THEN spans[k]
    ELSE [spans[k] EXCEPT !.breaks = NoTable, !.dom = run.dom,
                          !.epoch = Now(k.scope, run.dom), !.count = 0]

Replaces(k, run) == Len(run.toks) >= Len(spans[k].body)

\* Mutant: a new body keeps every break it is long enough for.
LimitByLength(k, run) == Len(run.toks)

NewLimit(k, run) == IF run.toks = spans[k].body THEN Len(run.toks)
                    ELSE Divergence(spans[k].body, run.toks)

Registered(k, run) ==
    LET s == Revived(k, run)
        t == IF Replaces(k, run)
             THEN [s EXCEPT !.body = run.toks,
                            !.breaks = KeepBelow(@, NewLimit(k, run))]
             ELSE s
    IN  [t EXCEPT !.count = @ + 1]

\* The spans, and the history, after the run of a session is flushed.
FlushKeys(run) ==
    IF Len(run.toks) < SpanMin THEN {}
    ELSE SpanKeys(run.start, run.scopes, run.seg, SpanOrders, SpanDepths)

SpansAfter(sid) ==
    LET run == runs[sid] IN
    [k \in DOMAIN spans \cup FlushKeys(run) |->
        CASE k \notin FlushKeys(run) -> spans[k]
          [] k \in FlushKeys(run) \ DOMAIN spans -> NewSpan(k, run)
          [] OTHER -> Registered(k, run)]

OriginAfter(sid) ==
    LET run == runs[sid] IN
    [k \in DOMAIN spans \cup FlushKeys(run) |->
        CASE k \notin FlushKeys(run) -> origin[k]
          [] k \in FlushKeys(run) /\ (k \in DOMAIN spans => Replaces(k, run)) ->
                [file |-> run.dom, edits |-> 0, revived |-> FALSE,
                 moved |-> k \in ServedSpans /\ spans[k].dom # run.dom]
          [] OTHER -> [origin[k] EXCEPT !.revived = @ \/ ~FreshSpan(k)]]

MarksAfter(sid) ==
    LET run == runs[sid] IN
    [k \in DOMAIN spans \cup FlushKeys(run) |->
        CASE k \notin FlushKeys(run) -> marks[k]
          [] k \in FlushKeys(run) \ DOMAIN spans -> NoTable
          [] OTHER -> [o \in DOMAIN Registered(k, run).breaks |-> marks[k][o]]]

-----------------------------------------------------------------------------
(* Following the realized tokens of a session (_track_run).                *)

Session == work.ev.scopes[0]
Token   == TokenAt(work.ev, work.pos)
Seg     == SegAt(work.ev, work.pos)
Dom     == DomAt(work.ev, work.pos)

NewRun == [seg |-> Seg, dom |-> Dom, toks |-> <<Token>>,
           start |-> LET p == PathTo(work.ev, work.pos) IN LastN(p, Lesser(8, Len(p))),
           scopes |-> work.ev.scopes]

Longer(run) == [run EXCEPT !.toks = Append(@, Token),
                           !.dom = IF Dom = NoFile THEN @ ELSE Dom]

RunEnds == /\ Session \in DOMAIN runs
           /\ \/ runs[Session].seg # Seg
              \/ Len(runs[Session].toks) >= SpanMax

RunsAfter ==
    [sid \in DOMAIN runs \cup {Session} |->
        CASE sid # Session -> runs[sid]
          [] sid = Session /\ sid \in DOMAIN runs /\ ~RunEnds -> Longer(runs[sid])
          [] OTHER -> NewRun]

TrackedSpans  == IF RunEnds THEN SpansAfter(Session) ELSE spans
TrackedOrigin == IF RunEnds THEN OriginAfter(Session) ELSE origin
TrackedMarks  == IF RunEnds THEN MarksAfter(Session) ELSE marks

-----------------------------------------------------------------------------
(* The actions of LedgerStore, with what they do to the spans.             *)

HarvestV2(ev) == Harvest(ev) /\ UNCHANGED spanVars

StartDrainV2(limit) == StartDrain(limit) /\ UNCHANGED spanVars

BumpEpochV2(scope, file) ==
    /\ BumpEpoch(scope, file)
    /\ origin' = [k \in DOMAIN origin |->
                    IF k.scope = scope /\ origin[k].file = file
                    THEN [origin[k] EXCEPT !.edits = Lesser(@ + 1, EpochMod)]
                    ELSE origin[k]]
    /\ UNCHANGED <<spans, runs, target, patch, marks>>

TakeOutcomeV2 ==
    /\ TakeOutcome
    /\ LET ev == Head(queue)
           best == BestSpans(ev.tail, ev.scopes, SegAt(ev, 0))
       IN  IF ev.draft = <<>> \/ best = {} THEN target' = NoSpan
           ELSE target' \in best
    /\ patch' = NoSpan
    /\ UNCHANGED <<spans, runs, origin, marks>>

\* Mutant: the patch may come from a position before the rejected one.
NotePatchAnywhere(probe) ==
    LET k == KeyAt(work.ev, work.pos, probe)
    IN  patch' = IF patch # NoSpan => Len(k.ctx) > Len(patch.ctx) THEN k ELSE patch

\* The patch is the key of the longest order, then of the smallest depth.
NotePatch(probe) ==
    LET k == KeyAt(work.ev, work.pos, probe)
    IN  patch' = IF IsRejectAt(work.ev, work.pos)
                    /\ (patch # NoSpan => Len(k.ctx) > Len(patch.ctx))
                 THEN k ELSE patch

UpdateEntryV2(probe) ==
    /\ UpdateEntry(probe) /\ NotePatch(probe)
    /\ UNCHANGED <<spans, runs, target, origin, marks>>

CreateEntryV2(probe) ==
    /\ CreateEntry(probe) /\ NotePatch(probe)
    /\ UNCHANGED <<spans, runs, target, origin, marks>>

NextPositionV2 ==
    /\ NextPosition
    /\ runs' = RunsAfter
    /\ spans' = TrackedSpans /\ origin' = TrackedOrigin /\ marks' = TrackedMarks
    /\ UNCHANGED <<target, patch>>

\* What the last position leaves, and then the verdict on the draft: it
\* followed the span and broke off inside it, or it was accepted in full.
Follows(body, ev) == SubSeq(body, 1, ev.acc + 1) = SubSeq(ev.draft, 1, ev.acc + 1)

BrokeOff(ev) ==
    /\ target # NoSpan
    /\ ev.acc < Len(ev.draft)
    /\ ev.acc < Len(TrackedSpans[target].body)
    /\ Follows(TrackedSpans[target].body, ev)

Reused(ev) == target # NoSpan /\ ev.acc = Len(ev.draft)

WithBreak(s, off) ==
    LET old == IF off \in DOMAIN s.breaks THEN s.breaks[off]
               ELSE [count |-> 0, patch |-> NoSpan]
        new == [count |-> old.count + 1,
                patch |-> IF patch = NoSpan THEN old.patch ELSE patch]
    IN  [s EXCEPT !.breaks = [o \in DOMAIN @ \cup {off} |->
                                IF o = off THEN new ELSE @[o]]]

EndApplyV2 ==
    LET ev == work.ev
    IN  /\ EndApply
        /\ runs' = RunsAfter
        /\ spans' = CASE BrokeOff(ev) ->
                           [TrackedSpans EXCEPT ![target] = WithBreak(@, ev.acc)]
                      [] Reused(ev) -> [TrackedSpans EXCEPT ![target].count = @ + 1]
                      [] OTHER -> TrackedSpans
        /\ marks' = IF BrokeOff(ev)
                    THEN [TrackedMarks EXCEPT ![target] =
                            [o \in DOMAIN @ \cup {ev.acc} |->
                               IF o = ev.acc THEN SubSeq(ev.draft, 1, o + 1) ELSE @[o]]]
                    ELSE TrackedMarks
        /\ origin' = TrackedOrigin
        /\ target' = NoSpan /\ patch' = NoSpan

(* compact(): stale spans go, counts decay, spans and breaks without any   *)
(* count go.                                                               *)

\* Mutant: breaks stay when their count has decayed to nothing.
DecaySpanOnly(s) ==
    LET halved(b) == [b EXCEPT !.count = @ \div DecayDiv]
    IN  [s EXCEPT !.count = @ \div DecayDiv,
                  !.breaks = [o \in DOMAIN @ |-> halved(@[o])]]

DecaySpan(s) ==
    LET kept == {o \in DOMAIN s.breaks : s.breaks[o].count \div DecayDiv > 0}
        halved(b) == [b EXCEPT !.count = @ \div DecayDiv]
    IN  [s EXCEPT !.count = @ \div DecayDiv,
                  !.breaks = [o \in kept |-> halved(@[o])]]

\* Mutant: spans stay when their count has decayed to nothing.
StaleSpansGo == ServedSpans

LiveSpans == {k \in ServedSpans : spans[k].count \div DecayDiv > 0}

CompactSpans ==
    /\ spans' = [k \in LiveSpans |-> DecaySpan(spans[k])]
    /\ origin' = [k \in LiveSpans |-> origin[k]]
    /\ marks' = [k \in LiveSpans |->
                   [o \in DOMAIN DecaySpan(spans[k]).breaks |-> marks[k][o]]]

EndDrainV2 ==
    /\ EndDrain
    /\ IF CompactDue THEN CompactSpans ELSE UNCHANGED <<spans, origin, marks>>
    /\ UNCHANGED <<runs, target, patch>>

CompactV2 == Compact /\ CompactSpans /\ UNCHANGED <<runs, target, patch>>

\* flush_runs(): one step of its loop over the sessions with an open run.
FlushRun(sid) ==
    /\ drain.phase = "idle"
    /\ spans' = SpansAfter(sid)
    /\ origin' = OriginAfter(sid)
    /\ marks' = MarksAfter(sid)
    /\ runs' = [s \in DOMAIN runs \ {sid} |-> runs[s]]
    /\ UNCHANGED <<vars, target, patch>>

NextV2 ==
    \/ \E ev \in Outcomes : HarvestV2(ev)
    \/ \E scope \in ScopeIds, file \in Files : BumpEpochV2(scope, file)
    \/ \E limit \in DrainLimits : StartDrainV2(limit)
    \/ TakeOutcomeV2
    \/ \E probe \in work.todo : UpdateEntryV2(probe) \/ CreateEntryV2(probe)
    \/ NextPositionV2
    \/ EndApplyV2
    \/ EndDrainV2
    \/ CompactV2
    \/ \E sid \in DOMAIN runs : FlushRun(sid)

SpecV2 == InitSpans /\ [][NextV2]_allVars

-----------------------------------------------------------------------------
IsRun(r) ==
    /\ r.seg \in Segments /\ r.dom \in Domains
    /\ r.toks \in Seq(Tokens) /\ Len(r.toks) \in 1..SpanMax
    /\ r.start \in Seq(Tokens) /\ Len(r.start) <= 8

IsSpan(s) ==
    /\ s.body \in Seq(Tokens) /\ Len(s.body) \in SpanMin..SpanMax
    /\ s.dom \in Domains
    /\ s.epoch \in 0..EpochMod - 1
    /\ s.count \in Nat \ {0}
    /\ \A o \in DOMAIN s.breaks :
          s.breaks[o].count \in Nat \ {0} /\ s.breaks[o].patch \in Keys \cup {NoSpan}

\* The version 2 variables have their types: spans and open runs keep to
\* their lengths, counts that decay to nothing are gone, and the history is
\* kept for exactly the spans and breaks there are.
SpanTypeOK ==
    /\ DOMAIN spans \subseteq Keys
    /\ \A k \in DOMAIN spans : IsSpan(spans[k])
    /\ \A sid \in DOMAIN runs : sid \in ScopeIds /\ IsRun(runs[sid])
    /\ target \in DOMAIN spans \cup {NoSpan}
    /\ patch \in Keys \cup {NoSpan}
    /\ DOMAIN origin = DOMAIN spans /\ DOMAIN marks = DOMAIN spans
    /\ \A k \in DOMAIN spans :
          /\ origin[k] \in [file : Domains, edits : 0..EpochMod,
                            moved : BOOLEAN, revived : BOOLEAN]
          /\ DOMAIN marks[k] = DOMAIN spans[k].breaks

\* A break lies inside the body it belongs to, and the draft it was recorded
\* for agreed with that body up to and including the break: replacing a body
\* drops the breaks the new body has outgrown.
BreaksMatchBody ==
    \A k \in DOMAIN spans : \A o \in DOMAIN spans[k].breaks :
        /\ o < Len(spans[k].body)
        /\ SubSeq(spans[k].body, 1, o + 1) = marks[k][o]

\* Two contexts agree as far back as both reach.
SameContext(c, d) ==
    LET n == Lesser(Len(c), Len(d)) IN LastN(c, n) = LastN(d, n)

\* The patch of a break is the entry a lookup reads that follows the span up
\* to the break: the context of the patch is the context of the span and then
\* its body up to there, whatever replaced the body since.
PatchIsAtBreak ==
    \A k \in DOMAIN spans : \A o \in DOMAIN spans[k].breaks :
        LET p == spans[k].breaks[o].patch
        IN  p # NoSpan => SameContext(p.ctx, k.ctx \o SubSeq(spans[k].body, 1, o))

\* A span is served after an edit of the file its body was observed in only
\* for one of two reasons: the body replaced one of another file while that
\* was fresh, and the span stayed bound to the other file; or it went stale
\* and was brought back by a run too short to replace it.
StaleSpansExplained ==
    \A k \in ServedSpans :
        origin[k].edits \in 1..EpochMod - 1 => origin[k].moved \/ origin[k].revived

\* No span is served whose body was observed in a file that was edited after
\* the body was registered.
SpanServedIsCurrent ==
    \A k \in ServedSpans : origin[k].edits < EpochMod => origin[k].edits = 0
=============================================================================
