------------------------------ MODULE SpanArena ------------------------------
(***************************************************************************)
(* The token arena behind the span table (core/arena.py, SpanArena) and    *)
(* the operations of LedgerStore that hand offsets around: registering a   *)
(* run, compaction, snapshot and load.                                     *)
(*                                                                         *)
(* An arena is an append-only sequence of tokens and a map from the        *)
(* contents added to it to their offsets; the hash of a content is taken   *)
(* to be injective, so the content is its own key.  Compaction copies the  *)
(* bodies of the live spans, one after the other, into a fresh arena; the  *)
(* offset of a span changes as soon as it is copied, the tokens do so at   *)
(* the end.                                                                *)
(*                                                                         *)
(* A lookup of another thread sees every store of the thread that drains:  *)
(* a span that is given a new body has its offset stored before its        *)
(* length, and the lookup loads the two one after the other.               *)
(***************************************************************************)
EXTENDS Integers, Sequences, FiniteSets

Ext == INSTANCE SequencesExt

CONSTANTS SpanKeySets,   \* the sets of keys one run is registered under
          Runs,          \* the runs that are registered
          MaxTokens      \* bound: tokens in the arena

ASSUME ArenaConstants ==
    /\ Runs \subseteq Seq(Nat) \ {<<>>}
    /\ MaxTokens \in Nat

VARIABLES arena,        \* _arena: its tokens and its dedup map
          spans,        \* _spans: key -> offset and length
          due,          \* the keys a run is yet to be put under, with its place
          half,         \* the one of them whose offset is stored, not its length
          compacting,   \* compact() is rebuilding the arena
          fresh,        \* the arena it builds
          todo,         \* the spans it has not copied yet
          disk,         \* the snapshot: none, or a set of one
          reading       \* the lookup between finding a span and its tokens

registering == <<due, half>>
rebuild     == <<compacting, fresh, todo>>
vars == <<arena, spans, registering, rebuild, disk, reading>>

Empty   == [toks |-> <<>>, at |-> [c \in {} |-> 0]]
NoSpans == [k \in {} |-> [off |-> 0, len |-> 0]]

Init ==
    /\ arena = Empty /\ spans = NoSpans
    /\ due = NoSpans /\ half = {}
    /\ compacting = FALSE /\ fresh = Empty /\ todo = {}
    /\ disk = {} /\ reading = {}

-----------------------------------------------------------------------------
\* get(off, len); offsets count from 0, and a slice ends with the list.
Get(a, s) ==
    LET end == s.off + s.len
    IN  SubSeq(a.toks, s.off + 1, IF end <= Len(a.toks) THEN end ELSE Len(a.toks))

\* Mutant: contents that start alike are taken for the same.
AddByHead(a, run) ==
    IF \E c \in DOMAIN a.at : Head(c) = Head(run)
    THEN [a EXCEPT !.at = [c \in DOMAIN @ \cup {run} |->
                IF c = run THEN @[CHOOSE d \in DOMAIN @ : Head(d) = Head(run)] ELSE @[c]]]
    ELSE [toks |-> a.toks \o run,
          at |-> [c \in DOMAIN a.at \cup {run} |->
                    IF c = run THEN Len(a.toks) ELSE a.at[c]]]

\* add(run): the arena afterwards, in which run has an offset.
Add(a, run) ==
    IF run \in DOMAIN a.at THEN a
    ELSE [toks |-> a.toks \o run,
          at   |-> [c \in DOMAIN a.at \cup {run} |->
                      IF c = run THEN Len(a.toks) ELSE a.at[c]]]

\* The thread that drains is between two calls.
Idle == ~compacting /\ due = NoSpans

-----------------------------------------------------------------------------
(* _flush_run().                                                           *)

\* The run is added even when no key takes it as its body.
StartRegister(keys, run) ==
    LET a == Add(arena, run)
    IN  /\ Idle
        /\ Len(a.toks) <= MaxTokens
        /\ arena' = a
        /\ due' = [k \in keys |-> [off |-> a.at[run], len |-> Len(run)]]
        /\ UNCHANGED <<spans, half, rebuild, disk, reading>>

DueWithout(k) == [j \in DOMAIN due \ {k} |-> due[j]]

\* A key without a span gets one, complete.
PutSpan(k) ==
    /\ half = {} /\ k \notin DOMAIN spans
    /\ spans' = [j \in DOMAIN spans \cup {k} |-> IF j = k THEN due[k] ELSE spans[j]]
    /\ due' = DueWithout(k)
    /\ UNCHANGED <<arena, half, rebuild, disk, reading>>

\* A longer body stays.
KeepBody(k) ==
    /\ half = {} /\ k \in DOMAIN spans /\ due[k].len < spans[k].len
    /\ due' = DueWithout(k)
    /\ UNCHANGED <<arena, spans, half, rebuild, disk, reading>>

\* Otherwise the run replaces it: first the offset,
StoreOffset(k) ==
    /\ half = {} /\ k \in DOMAIN spans /\ due[k].len >= spans[k].len
    /\ spans' = [spans EXCEPT ![k].off = due[k].off]
    /\ half' = {k}
    /\ reading' = {IF read.key = k /\ read.len = 0 THEN [read EXCEPT !.beside = TRUE]
                   ELSE read : read \in reading}
    /\ UNCHANGED <<arena, due, rebuild, disk>>

\* then the length.
StoreLength(k) ==
    /\ k \in half
    /\ spans' = [spans EXCEPT ![k].len = due[k].len]
    /\ half' = {} /\ due' = DueWithout(k)
    /\ UNCHANGED <<arena, rebuild, disk, reading>>

-----------------------------------------------------------------------------
(* compact(): the spans that stay are copied one by one.                   *)

\* A span that is dropped does not change any more: a lookup that holds it
\* may as well load its length now.
StartCompact(kept) ==
    /\ Idle
    /\ spans' = [k \in kept |-> spans[k]]
    /\ compacting' = TRUE /\ fresh' = Empty /\ todo' = kept
    /\ reading' = {IF read.key \notin kept /\ read.len = 0
                   THEN [read EXCEPT !.len = spans[read.key].len] ELSE read : read \in reading}
    /\ UNCHANGED <<arena, registering, disk>>

\* Mutant: every span gets a copy of its own.
CopyUnshared(k) ==
    /\ compacting /\ k \in todo
    /\ LET body == Get(arena, spans[k])
       IN  /\ fresh' = Add([fresh EXCEPT !.at = [c \in {} |-> 0]], body)
           /\ spans' = [spans EXCEPT ![k].off = Len(fresh.toks)]
    /\ todo' = todo \ {k}
    /\ UNCHANGED <<arena, registering, compacting, disk, reading>>

\* Mutant: the bodies are moved together within the one arena there is.
CopyInPlace(k) ==
    /\ compacting /\ k \in todo
    /\ LET body == Get(arena, spans[k])
           f    == Add(fresh, body)
       IN  /\ fresh' = f
           /\ arena' = [arena EXCEPT !.toks = f.toks \o SubSeq(@, Len(f.toks) + 1, Len(@))]
           /\ spans' = [spans EXCEPT ![k].off = f.at[body]]
    /\ todo' = todo \ {k}
    /\ UNCHANGED <<registering, compacting, disk, reading>>

CopySpan(k) ==
    /\ compacting /\ k \in todo
    /\ LET body == Get(arena, spans[k])
       IN  /\ fresh' = Add(fresh, body)
           /\ spans' = [spans EXCEPT ![k].off = Add(fresh, body).at[body]]
    /\ todo' = todo \ {k}
    /\ UNCHANGED <<arena, registering, compacting, disk, reading>>

\* The tokens a lookup waits for come with the swap, or go with it for good
\* (and the lookup is not followed any further).
Swapped == {[read EXCEPT !.astray = FALSE] : read \in {q \in reading : q.astray}}

\* Mutant: the dedup map of the old arena is kept.
EndCompactKeepingMap ==
    /\ compacting /\ todo = {}
    /\ arena' = [arena EXCEPT !.toks = fresh.toks]
    /\ compacting' = FALSE /\ fresh' = Empty
    /\ reading' = Swapped
    /\ UNCHANGED <<spans, registering, todo, disk>>

EndCompact ==
    /\ compacting /\ todo = {}
    /\ arena' = fresh
    /\ compacting' = FALSE /\ fresh' = Empty
    /\ reading' = Swapped
    /\ UNCHANGED <<spans, registering, todo, disk>>

-----------------------------------------------------------------------------
(* lookup_span() of another thread: of the best span the offset is loaded  *)
(* first, then the length (0 before), and then the tokens are read.  A     *)
(* read is astray when its offset is not one of the arena it will read     *)
(* from, and beside a replacement when one store of the span's offset and  *)
(* length, or both, came between its two loads.                            *)

\* The arena that holds the tokens of a span.
Holder(k) == IF compacting /\ k \notin todo THEN fresh ELSE arena

\* The body that the offset of a span belongs to, whose length the span has
\* or is about to get.
Whole(k) == IF k \in half THEN due[k] ELSE spans[k]
Body(k)  == Get(Holder(k), Whole(k))

LoadOffset(k) ==
    /\ reading = {}
    /\ reading' = {[key |-> k, off |-> spans[k].off, len |-> 0, body |-> Body(k),
                    astray |-> compacting /\ k \notin todo, beside |-> k \in half]}
    /\ UNCHANGED <<arena, spans, registering, rebuild, disk>>

LoadLength(read) ==
    /\ read.len = 0
    /\ reading' = {[read EXCEPT !.len = spans[read.key].len]}
    /\ UNCHANGED <<arena, spans, registering, rebuild, disk>>

\* Returns Get(arena, read).
EndRead(read) ==
    /\ read.len > 0
    /\ reading' = reading \ {read}
    /\ UNCHANGED <<arena, spans, registering, rebuild, disk>>

-----------------------------------------------------------------------------
(* snapshot() and load(): the dedup map is not part of a snapshot.         *)

Save ==
    /\ Idle
    /\ disk' = {[toks |-> arena.toks, spans |-> spans]}
    /\ UNCHANGED <<arena, spans, registering, rebuild, reading>>

\* Mutant: load() leaves the dedup map of the running store in place.
LoadKeepingMap(image) ==
    /\ Idle
    /\ arena' = [arena EXCEPT !.toks = image.toks]
    /\ spans' = image.spans
    /\ reading' = {}
    /\ UNCHANGED <<registering, rebuild, disk>>

Load(image) ==
    /\ Idle
    /\ arena' = [Empty EXCEPT !.toks = image.toks]
    /\ spans' = image.spans
    /\ reading' = {}
    /\ UNCHANGED <<registering, rebuild, disk>>

\* The process ends, at any moment, and another starts with an empty store.
Restart ==
    /\ arena' = Empty /\ spans' = NoSpans
    /\ due' = NoSpans /\ half' = {}
    /\ compacting' = FALSE /\ fresh' = Empty /\ todo' = {}
    /\ reading' = {}
    /\ UNCHANGED disk

-----------------------------------------------------------------------------
Next ==
    \/ \E keys \in SpanKeySets, run \in Runs : StartRegister(keys, run)
    \/ \E k \in DOMAIN due : PutSpan(k) \/ KeepBody(k) \/ StoreOffset(k) \/ StoreLength(k)
    \/ \E kept \in SUBSET DOMAIN spans : StartCompact(kept)
    \/ \E k \in todo : CopySpan(k)
    \/ EndCompact
    \/ \E k \in DOMAIN spans : LoadOffset(k)
    \/ \E read \in reading : LoadLength(read) \/ EndRead(read)
    \/ Save
    \/ \E image \in disk : Load(image)
    \/ Restart

Spec == Init /\ [][Next]_vars

-----------------------------------------------------------------------------
DedupMatches(a) ==
    \A c \in DOMAIN a.at :
        /\ a.at[c] >= 0 /\ a.at[c] + Len(c) <= Len(a.toks)
        /\ SubSeq(a.toks, a.at[c] + 1, a.at[c] + Len(c)) = c

\* Every content of a dedup map is found at its offset: the map never outlives
\* the tokens it was made for, through compactions and loads.
DedupSound == DedupMatches(arena) /\ DedupMatches(fresh)

\* _flush_run tells a repeated body from a new one by comparing offsets.
\* When it finds them equal, body and run are equal, so the breaks it keeps
\* are those of the same tokens.
SameOffsetSameBody ==
    ~compacting =>
        \A k \in DOMAIN spans \ half, run \in Runs :
            Add(arena, run).at[run] = spans[k].off => Get(arena, spans[k]) = run

\* Compaction leaves nothing in the arena but the live bodies, each once.
BodiesLeft == {Get(fresh, spans[k]) : k \in DOMAIN spans}

CompactionIsTight ==
    [][EndCompact =>
         /\ DOMAIN arena'.at = BodiesLeft
         /\ \A i \in 1..Len(arena'.toks) : \E c \in BodiesLeft :
               i \in arena'.at[c] + 1..arena'.at[c] + Len(c)
         /\ \A c, d \in BodiesLeft : c # d =>
               (arena'.at[c] + 1..arena'.at[c] + Len(c))
                   \cap (arena'.at[d] + 1..arena'.at[d] + Len(d)) = {}]_vars

\* A lookup beside the drain returns the tokens of the body whose offset it
\* loaded, however far the arena has grown or the span has gone since, and
\* if the span was given another body between its two loads, the beginning of
\* the body, or the body and what happens to follow it in the arena.  The one
\* exception is a lookup that finds a span copied already while compact()
\* goes on, or the tokens swapped before it reads them.
ReadsAreWhole ==
    \A read \in reading : read.len > 0 /\ ~read.astray =>
        LET toks == Get(arena, read)
        IN  /\ ~read.beside => toks = read.body
            /\ Ext!IsPrefix(toks, read.body) \/ Ext!IsPrefix(read.body, toks)

Bodies == INSTANCE SpanBodies WITH
    body  <- [k \in DOMAIN spans |-> Body(k)],
    due   <- [k \in DOMAIN due \ half |-> Get(arena, due[k])],
    saved <- {[k \in DOMAIN image.spans |-> Get(image, image.spans[k])] : image \in disk}

\* Whatever is shared, moved, saved or loaded, a span keeps the tokens it was
\* registered with.
ImplementsBodies == Bodies!Spec
=============================================================================
