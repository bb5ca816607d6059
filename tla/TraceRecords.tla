------------------------------ MODULE TraceRecords ------------------------------
(***************************************************************************)
(* Recorded traces (sim/convert.py): which records are valid, how a record *)
(* of verify steps is laid out position by position, the conversion of     *)
(* plain token logs, and the order in which requests are replayed.         *)
(*                                                                         *)
(* A record is [version, id, ts, scope, steps, events].  A step is         *)
(* [proposed, acc, bonus, ids, qs, seg]: the draft, how much of it was     *)
(* accepted, and for every realized position a row of top-k ids, one of    *)
(* log-probabilities and a segment (or none of the three at all).  Missing *)
(* keys, like anything else the JSON reader turns down, are left out.      *)
(***************************************************************************)
EXTENDS LedgerTypes

Ext == INSTANCE SequencesExt

SchemaVersion == 1

\* Mutant: the lengths of rows are not compared.
RowsUnchecked(st) == TRUE

\* Lengths of rows are compared only as far as both lists go: a step with ids
\* and no log-probabilities is valid.
RowsFit(st) ==
    \A i \in DOMAIN st.ids \cap DOMAIN st.qs : Len(st.ids[i]) = Len(st.qs[i])

ValidStep(st) ==
    LET n == st.acc + 1
    IN  /\ st.acc \in 0..Len(st.proposed)
        /\ \A i \in DOMAIN st.seg : st.seg[i] \in Segments
        /\ Len(st.ids) \in {0, n} /\ Len(st.qs) \in {0, n} /\ Len(st.seg) \in {0, n}
        /\ RowsFit(st)
        /\ \A i \in DOMAIN st.qs : \A j \in DOMAIN st.qs[i] : st.qs[i][j] \in 0..QMax

Valid(rec) ==
    /\ rec.version = SchemaVersion
    /\ \A i \in DOMAIN rec.steps : ValidStep(rec.steps[i])

-----------------------------------------------------------------------------
RealizedBy(st) == SubSeq(st.proposed, 1, st.acc) \o <<st.bonus>>

\* One element per realized position; an omitted list is filled with a default.
Laid(st, list, default) ==
    IF list = <<>> THEN [i \in 1..Len(RealizedBy(st)) |-> default] ELSE list

\* The indices I in the order of less; sort() leaves equals in place.
Sorted(I, less) ==
    LET Ahead(i) == {j \in I : <<j, i>> \in less \/ (<<i, j>> \notin less /\ j < i)}
    IN  [k \in 1..Cardinality(I) |-> CHOOSE i \in I : Cardinality(Ahead(i)) = k - 1]

\* An event without a bump position takes effect where it ends.
Effective(ev) == [ev EXCEPT !.bump = IF @ >= 0 THEN @ ELSE ev.pos]

\* Mutant: the events stay in the order of the record.
AsRecorded(events) == [i \in DOMAIN events |-> Effective(events[i])]

EndsBefore(events) ==
    {x \in (DOMAIN events) \X (DOMAIN events) : events[x[1]].pos < events[x[2]].pos}

ByPos(events) ==
    LET order == Sorted(DOMAIN events, EndsBefore(events))
    IN  [k \in DOMAIN order |-> Effective(events[order[k]])]

\* What the steps of a record hold, one step after the other.
Toks(steps) == Ext!FlattenSeq([i \in DOMAIN steps |-> RealizedBy(steps[i])])
Segs(steps) == Ext!FlattenSeq([i \in DOMAIN steps |-> Laid(steps[i], steps[i].seg, "text")])
Ids(steps)  == Ext!FlattenSeq([i \in DOMAIN steps |-> Laid(steps[i], steps[i].ids, <<>>)])
Qs(steps)   == Ext!FlattenSeq([i \in DOMAIN steps |-> Laid(steps[i], steps[i].qs, <<>>)])

Normalize(rec) ==
    [id |-> rec.id, ts |-> rec.ts, scope |-> rec.scope,
     toks |-> Toks(rec.steps), seg |-> Segs(rec.steps),
     ids  |-> Ids(rec.steps),  qs  |-> Qs(rec.steps),
     events |-> ByPos(rec.events)]

Sooner(recs) ==
    {x \in (DOMAIN recs) \X (DOMAIN recs) :
        LET a == recs[x[1]]
            b == recs[x[2]]
        IN  a.ts < b.ts \/ (a.ts = b.ts /\ a.id < b.id)}

\* read_traces without strict: invalid records are passed over.
ReadTraces(recs) ==
    LET order == Sorted({i \in DOMAIN recs : Valid(recs[i])}, Sooner(recs))
    IN  [k \in DOMAIN order |-> Normalize(recs[order[k]])]

-----------------------------------------------------------------------------
\* A list that a token log has, or the default at each of n positions.
Given(list, n, default) == IF list = <<>> THEN [i \in 1..n |-> default] ELSE list

Some(row) == IF row = <<>> THEN <<>> ELSE <<row>>

\* A token log becomes a record of steps without drafts, one per token.
ConvertTokenLog(log) ==
    LET n   == Len(log.toks)
        ids == Given(log.ids, n, <<>>)
        qs  == Given(log.qs, n, <<>>)
        seg == Given(log.seg, n, "text")
    IN  [version |-> SchemaVersion, id |-> log.id, ts |-> log.ts, scope |-> log.scope,
         steps   |-> [i \in 1..n |->
                        [proposed |-> <<>>, acc |-> 0, bonus |-> log.toks[i],
                         ids |-> Some(ids[i]), qs |-> Some(qs[i]), seg |-> <<seg[i]>>]],
         events  |-> log.events]
=============================================================================
