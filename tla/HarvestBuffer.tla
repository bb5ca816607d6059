---------------------------- MODULE HarvestBuffer ----------------------------
(***************************************************************************)
(* What the harvest queue promises its two users: outcomes are numbered in *)
(* the order the engine harvests them, a put never waits, a full buffer    *)
(* gives up its oldest outcome and counts it, and outcomes are taken in    *)
(* order.  While the taker runs in a thread of its own (racing), a put may *)
(* give up an outcome although there is room again, or, when the buffer    *)
(* was emptied under it, fail: then a tail of its batch is lost.           *)
(***************************************************************************)
EXTENDS Naturals, Sequences

VARIABLES buffer,   \* the outcomes waiting
          next,     \* the number of the next outcome put
          drops,    \* outcomes given up and counted
          lost,     \* outcomes given up without a trace
          done,     \* outcomes taken so far, in order
          cap,      \* capacity; 0 turns the buffer off
          racing

bufferVars == <<buffer, next, drops, lost, done, cap, racing>>

Init ==
    /\ buffer = <<>> /\ next = 1 /\ drops = 0 /\ lost = {} /\ done = <<>>
    /\ cap \in Nat /\ racing \in BOOLEAN

Fixed == UNCHANGED <<cap, racing>>

Put ==
    /\ Len(buffer) < cap
    /\ buffer' = Append(buffer, next) /\ next' = next + 1
    /\ UNCHANGED <<drops, lost, done>> /\ Fixed

PutForOldest ==
    /\ buffer # <<>> /\ (Len(buffer) = cap \/ racing)
    /\ buffer' = Append(Tail(buffer), next) /\ next' = next + 1
    /\ drops' = drops + 1
    /\ UNCHANGED <<lost, done>> /\ Fixed

PutNowhere(n) ==
    /\ cap = 0
    /\ drops' = drops + n /\ next' = next + n
    /\ UNCHANGED <<buffer, lost, done>> /\ Fixed

PutFails(n) ==
    /\ racing /\ buffer = <<>> /\ cap > 0
    /\ lost' = lost \cup next..next + n - 1 /\ next' = next + n
    /\ UNCHANGED <<buffer, drops, done>> /\ Fixed

Take ==
    /\ buffer # <<>>
    /\ done' = Append(done, Head(buffer)) /\ buffer' = Tail(buffer)
    /\ UNCHANGED <<next, drops, lost>> /\ Fixed

\* A call that fails, or finds the buffer off, disposes of several outcomes.
Next ==
    \/ Put
    \/ PutForOldest
    \/ \E n \in 1..next' - next : PutNowhere(n) \/ PutFails(n)
    \/ Take

Spec == Init /\ [][Next]_bufferVars
=============================================================================
