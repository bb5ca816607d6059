---------------------------- MODULE LedgerRestart ----------------------------
(***************************************************************************)
(* The store over several lives of its process: snapshot(), a stop at any  *)
(* moment, and load() into a new store (core/store.py, LedgerStore at      *)
(* version 1; the span half is in SpanArena).                              *)
(*                                                                         *)
(* A snapshot holds the table in insertion order and the epochs.  The      *)
(* queue, the counters and the outcome being applied end with the process. *)
(*                                                                         *)
(* Beside the store runs its twin, a store given the same calls that is    *)
(* not stopped when the other is stopped in an orderly way: right after a  *)
(* snapshot taken with an empty queue.  After any other stop the twin      *)
(* begins as a copy of the new store.                                      *)
(*                                                                         *)
(* History: an image on disk keeps, with the entries, what seen says of    *)
(* them, and learns of later edits (behind: the entries whose file was     *)
(* edited since); relapsed holds the entries loaded from an image that     *)
(* missed an edit of their file, until they are observed again.            *)
(***************************************************************************)
EXTENDS LedgerStore

CONSTANT MaxRestarts   \* bound: starts of a new process

ASSUME RestartConstants == MaxRestarts \in Nat

VARIABLES disk,        \* the snapshot: none, or a set of one
          orderly,     \* nothing happened since a snapshot with an empty queue
          restarts, relapsed   \* bound and history

VARIABLES thot, tbefore, tepochs, tqueue, tdrain, twork,
          tsinceCompact, tdrops, tharvested, tsent, tseen   \* the twin

Twin == INSTANCE LedgerStore WITH
    hot <- thot, before <- tbefore, epochs <- tepochs, queue <- tqueue,
    drain <- tdrain, work <- twork, sinceCompact <- tsinceCompact,
    drops <- tdrops, harvested <- tharvested, sent <- tsent, seen <- tseen,
    MaxSent <- MaxSent * (MaxRestarts + 1)

twin      == <<thot, tbefore, tepochs, tqueue, tdrain, twork,
               tsinceCompact, tdrops, tharvested, tsent, tseen>>
lifeVars  == <<disk, orderly, restarts, relapsed>>
livesVars == <<vars, twin, lifeVars>>

InitRestart ==
    /\ Init /\ Twin!Init
    /\ disk = {} /\ orderly = FALSE /\ restarts = 0 /\ relapsed = {}

-----------------------------------------------------------------------------
\* Mutant: the coverage average is rounded in the snapshot.
ImageRounded ==
    [hot |-> [k \in DOMAIN hot |-> [hot[k] EXCEPT !.cov = 4 * (@ \div 4)]],
     before |-> before, epochs |-> epochs, seen |-> seen, behind |-> relapsed]

Image == [hot |-> hot, before |-> before, epochs |-> epochs,
          seen |-> seen, behind |-> relapsed]

\* What a store that loads nothing starts with.
NoImage == [hot |-> NoTable, before |-> {}, epochs |-> [p \in ScopeIds \X Files |-> 0],
            seen |-> NoTable, behind |-> {}]

\* snapshot(): the caller has to drain first, or the queue is not in it.
Save ==
    /\ drain.phase = "idle"
    /\ disk' = {Image}
    /\ orderly' = (queue = <<>>)
    /\ UNCHANGED <<vars, twin, restarts, relapsed>>

CopyTwin ==
    /\ thot' = hot' /\ tbefore' = before' /\ tepochs' = epochs' /\ tqueue' = queue'
    /\ tdrain' = drain' /\ twork' = work' /\ tsinceCompact' = sinceCompact'
    /\ tdrops' = drops' /\ tharvested' = harvested' /\ tsent' = sent' /\ tseen' = seen'

\* Mutant: load() does not restore the epochs.
LoadTables(image) ==
    /\ hot' = image.hot /\ before' = image.before /\ seen' = image.seen
    /\ epochs' = NoImage.epochs
    /\ relapsed' = image.behind

\* load(): table, order and epochs become those of the image.
Load(image) ==
    /\ hot' = image.hot /\ before' = image.before /\ seen' = image.seen
    /\ epochs' = image.epochs
    /\ relapsed' = image.behind

\* The process ends at any moment; a new one starts with the image, or with
\* nothing.
Restart(image) ==
    /\ restarts < MaxRestarts
    /\ restarts' = restarts + 1
    /\ Load(image)
    /\ queue' = <<>> /\ drain' = NoDrain /\ work' = NoWork
    /\ sinceCompact' = 0 /\ drops' = 0 /\ harvested' = 0 /\ sent' = 0
    /\ IF orderly /\ image # NoImage THEN UNCHANGED twin ELSE CopyTwin
    /\ orderly' = FALSE
    /\ UNCHANGED disk

-----------------------------------------------------------------------------
(* The calls of a life, given to the store and its twin alike.             *)

\* An entry that is observed again, or gone, has not relapsed.
Running ==
    /\ relapsed' = {k \in relapsed \cap DOMAIN seen' : seen'[k].edits > 0}
    /\ orderly' = FALSE
    /\ UNCHANGED restarts

\* An edit also puts the image on disk behind.
EditImage(image, scope, file) ==
    LET was == image.seen
        hit == {k \in DOMAIN was : k.scope = scope /\ was[k].file = file}
    IN  [image EXCEPT !.behind = @ \cup hit,
                      !.seen = [k \in DOMAIN was |->
                        IF k \in hit
                        THEN [was[k] EXCEPT !.edits = Lesser(@ + 1, EpochMod)]
                        ELSE was[k]]]

Edit(scope, file) ==
    /\ BumpEpoch(scope, file) /\ Twin!BumpEpoch(scope, file)
    /\ disk' = {EditImage(image, scope, file) : image \in disk}
    /\ Running

Call ==
    /\ \/ \E ev \in Outcomes : Harvest(ev) /\ Twin!Harvest(ev)
       \/ \E limit \in DrainLimits : StartDrain(limit) /\ Twin!StartDrain(limit)
       \/ TakeOutcome /\ Twin!TakeOutcome
       \/ \E probe \in work.todo :
             \/ UpdateEntry(probe) /\ Twin!UpdateEntry(probe)
             \/ CreateEntry(probe) /\ Twin!CreateEntry(probe)
       \/ NextPosition /\ Twin!NextPosition
       \/ EndApply /\ Twin!EndApply
       \/ EndDrain /\ Twin!EndDrain
       \/ Compact /\ Twin!Compact
    /\ Running
    /\ UNCHANGED disk

NextRestart ==
    \/ Call
    \/ \E scope \in ScopeIds, file \in Files : Edit(scope, file)
    \/ Save
    \/ \E image \in disk \cup {NoImage} : Restart(image)

SpecRestart == InitRestart /\ [][NextRestart]_livesVars

-----------------------------------------------------------------------------
\* A store that is drained, saved, stopped, started and loaded goes on like
\* one that was never stopped: table, eviction order and epochs stay the same
\* under the same calls.
ResumedAgrees == hot = thot /\ before = tbefore /\ epochs = tepochs

\* The only entries served although their file was edited since they were
\* last observed in it are those a stop has set back to before the edit: what
\* is saved with an entry is enough to tell that it is stale, in this life
\* and the next.
StaleOnlyByStop ==
    \A k \in Served : seen[k].edits \in 1..EpochMod - 1 => k \in relapsed
=============================================================================
