----------------------------- MODULE HarvestQueue -----------------------------
(***************************************************************************)
(* The bounded harvest queue between the engine, which calls harvest(),    *)
(* and the drain (core/store.py), one step per operation on the deque.     *)
(* Each such operation is atomic; the test before it and the operation are *)
(* not, and nothing locks the two calls against each other.                *)
(*                                                                         *)
(* The simulator calls drain() after every harvest() in one thread         *)
(* (sim/proposers.py); an online engine drains in a background thread      *)
(* (online), so the steps of the two calls interleave.                     *)
(*                                                                         *)
(* Outcomes are numbered in the order they are harvested.                  *)
(***************************************************************************)
EXTENDS Integers, Sequences, FiniteSets

CONSTANTS Modes,        \* values of online
          Caps,         \* values of queue_cap; <= 0 turns the queue off
          DrainLimits,  \* values of max_events; 0 is None
          BatchMax,     \* bound: outcomes in one call of harvest
          MaxSent       \* bound: outcomes harvested in a behaviour

ASSUME QueueConstants ==
    /\ Modes \subseteq BOOLEAN
    /\ Caps \subseteq Int
    /\ DrainLimits \subseteq Nat
    /\ BatchMax \in Nat \ {0} /\ MaxSent \in Nat

VARIABLES online, cap,
          queue,     \* _queue
          drops,     \* stats().drops
          call,      \* harvest() in progress: its phase, the events left
          drain,     \* drain() in progress: its phase, events left to take
          applied,   \* the outcomes popped by the drain, in order
          sent,      \* the number of outcomes harvested
          lost       \* the outcomes of calls that raised

vars == <<online, cap, queue, drops, call, drain, applied, sent, lost>>
fixed == <<online, cap>>

NoCall  == [phase |-> "idle", todo |-> <<>>]
NoDrain == [phase |-> "idle", left |-> 0]

Init ==
    /\ online \in Modes /\ cap \in Caps
    /\ queue = <<>> /\ drops = 0
    /\ call = NoCall /\ drain = NoDrain
    /\ applied = <<>> /\ sent = 0 /\ lost = {}

-----------------------------------------------------------------------------
(* harvest(events).                                                        *)

Batch(n) == [i \in 1..n |-> sent + i]

Harvest(n) ==
    /\ call.phase = "idle"
    /\ online \/ drain.phase = "idle"
    /\ sent + n <= MaxSent
    /\ sent' = sent + n
    /\ IF cap <= 0
       THEN drops' = drops + n /\ call' = NoCall
       ELSE drops' = drops /\ call' = [phase |-> "check", todo |-> Batch(n)]
    /\ UNCHANGED <<fixed, queue, drain, applied, lost>>

CheckRoom ==
    /\ call.phase = "check"
    /\ call' = [call EXCEPT !.phase = IF Len(queue) >= cap THEN "pop" ELSE "append"]
    /\ UNCHANGED <<fixed, queue, drops, drain, applied, sent, lost>>

\* Mutant: a full queue gives up its newest outcome.
PopNewest ==
    /\ call.phase = "pop" /\ queue # <<>>
    /\ queue' = SubSeq(queue, 1, Len(queue) - 1)
    /\ drops' = drops + 1
    /\ call' = [call EXCEPT !.phase = "replace"]
    /\ UNCHANGED <<fixed, drain, applied, sent, lost>>

\* Mutant: the outcome that goes is not counted.
PopUncounted ==
    /\ call.phase = "pop" /\ queue # <<>>
    /\ queue' = Tail(queue)
    /\ call' = [call EXCEPT !.phase = "replace"]
    /\ UNCHANGED <<fixed, drops, drain, applied, sent, lost>>

PopOldest ==
    /\ call.phase = "pop" /\ queue # <<>>
    /\ queue' = Tail(queue)
    /\ drops' = drops + 1
    /\ call' = [call EXCEPT !.phase = "replace"]
    /\ UNCHANGED <<fixed, drain, applied, sent, lost>>

\* popleft() of an empty deque raises IndexError out of harvest().
PopRaises ==
    /\ call.phase = "pop" /\ queue = <<>>
    /\ lost' = lost \cup {call.todo[i] : i \in 1..Len(call.todo)}
    /\ call' = NoCall
    /\ UNCHANGED <<fixed, queue, drops, drain, applied, sent>>

AppendEvent ==
    /\ call.phase \in {"append", "replace"}
    /\ queue' = Append(queue, Head(call.todo))
    /\ call' = IF Len(call.todo) = 1 THEN NoCall
               ELSE [phase |-> "check", todo |-> Tail(call.todo)]
    /\ UNCHANGED <<fixed, drops, drain, applied, sent, lost>>

-----------------------------------------------------------------------------
(* drain(max_events).  What _apply does to the tables is LedgerStore's.    *)

\* Mutant: no limit is taken for a limit of zero events.
StartDrainLiteral(limit) ==
    /\ drain.phase = "idle"
    /\ online \/ call.phase = "idle"
    /\ drain' = [phase |-> "test", left |-> limit]
    /\ UNCHANGED <<fixed, queue, drops, call, applied, sent, lost>>

StartDrain(limit) ==
    /\ drain.phase = "idle"
    /\ online \/ call.phase = "idle"
    /\ drain' = [phase |-> "test", left |-> IF limit = 0 THEN MaxSent ELSE limit]
    /\ UNCHANGED <<fixed, queue, drops, call, applied, sent, lost>>

\* Mutant: a drain that reached its limit goes on.
TestQueueOnly ==
    /\ drain.phase = "test"
    /\ drain' = IF queue # <<>> THEN [drain EXCEPT !.phase = "pop"] ELSE drain
    /\ UNCHANGED <<fixed, queue, drops, call, applied, sent, lost>>

TestQueue ==
    /\ drain.phase = "test"
    /\ drain' = IF queue # <<>> /\ drain.left > 0
                THEN [drain EXCEPT !.phase = "pop"] ELSE NoDrain
    /\ UNCHANGED <<fixed, queue, drops, call, applied, sent, lost>>

\* Mutant: the drain takes from the wrong end.
TakeNewest ==
    /\ drain.phase = "pop" /\ queue # <<>>
    /\ applied' = Append(applied, queue[Len(queue)])
    /\ queue' = SubSeq(queue, 1, Len(queue) - 1)
    /\ drain' = [phase |-> "test", left |-> drain.left - 1]
    /\ UNCHANGED <<fixed, drops, call, sent, lost>>

TakeOldest ==
    /\ drain.phase = "pop" /\ queue # <<>>
    /\ applied' = Append(applied, Head(queue))
    /\ queue' = Tail(queue)
    /\ drain' = [phase |-> "test", left |-> drain.left - 1]
    /\ UNCHANGED <<fixed, drops, call, sent, lost>>

\* The engine popped the last outcome after the test: drain() raises.
TakeRaises ==
    /\ drain.phase = "pop" /\ queue = <<>>
    /\ drain' = NoDrain
    /\ UNCHANGED <<fixed, queue, drops, call, applied, sent, lost>>

-----------------------------------------------------------------------------
HarvestStep == CheckRoom \/ PopOldest \/ PopRaises \/ AppendEvent

DrainStep ==
    \/ \E limit \in DrainLimits : StartDrain(limit)
    \/ TestQueue
    \/ TakeOldest
    \/ TakeRaises

Next ==
    \/ \E n \in 1..BatchMax : Harvest(n)
    \/ HarvestStep
    \/ DrainStep

\* A call of harvest() that began runs on, and the drain is called again and
\* again: after every step by the simulator, by its own thread online.
Spec == Init /\ [][Next]_vars /\ WF_vars(HarvestStep) /\ WF_vars(DrainStep)

-----------------------------------------------------------------------------
\* The numbers behind the outcomes, and the phases of the two calls.
TypeOK ==
    /\ online \in BOOLEAN /\ cap \in Int
    /\ queue \in Seq(1..sent) /\ applied \in Seq(1..sent)
    /\ drops \in 0..sent /\ lost \subseteq 1..sent
    /\ call.phase \in {"idle", "check", "pop", "append", "replace"}
    /\ call.todo \in Seq(1..sent) /\ (call.todo = <<>> <=> call.phase = "idle")
    /\ drain.phase \in {"idle", "test", "pop"} /\ drain.left \in Nat
    /\ sent \in 0..MaxSent

\* Outcomes are applied in the order they were harvested, none twice, and
\* those that wait are newer than those applied.
AppliedInOrder ==
    LET s == applied \o queue \o call.todo
    IN  \A i, j \in 1..Len(s) : i < j => s[i] < s[j]

\* Between calls every harvested outcome waits, was applied, or was counted
\* as a drop.
DropsCounted ==
    call.phase = "idle" => sent = Len(queue) + Len(applied) + drops

\* In one thread no call raises and the counters account for every outcome.
CountedInOneThread == ~online => lost = {} /\ DropsCounted

\* Every harvested outcome leaves the queue in the end.
Settled ==
    \A n \in 1..MaxSent :
        sent >= n ~> \A i \in 1..Len(queue \o call.todo) : (queue \o call.todo)[i] > n

-----------------------------------------------------------------------------
(* The queue implements HarvestBuffer: a put takes effect when its outcome *)
(* is appended, or, when an older one makes room for it, when that one     *)
(* goes.                                                                   *)

Replacing == call.phase = "replace"

Buffer == INSTANCE HarvestBuffer WITH
    buffer <- IF Replacing THEN Append(queue, Head(call.todo)) ELSE queue,
    next   <- 1 + sent - Len(call.todo) + (IF Replacing THEN 1 ELSE 0),
    done   <- applied,
    cap    <- IF cap > 0 THEN cap ELSE 0,
    racing <- online

\* Every behaviour of harvest() and drain(), in one thread or two, is one of
\* the abstract buffer.
ImplementsBuffer == Buffer!Spec
=============================================================================
