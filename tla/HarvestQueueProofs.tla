-------------------------- MODULE HarvestQueueProofs --------------------------
(***************************************************************************)
(* The harvest queue for every capacity, batch size and interleaving: its  *)
(* order, its accounting, and that it implements HarvestBuffer.            *)
(*                                                                         *)
(* Num is the type of the numbers of outcomes.                             *)
(***************************************************************************)
EXTENDS HarvestQueue, SequenceTheorems, TLAPS

Num == Nat \ {0}

\* The types of the variables, wider than TypeOK where that is enough.
Typed ==
    /\ online \in BOOLEAN /\ cap \in Int
    /\ queue \in Seq(Num) /\ applied \in Seq(Num)
    /\ drops \in Nat /\ sent \in 0..MaxSent /\ lost \subseteq 1..sent
    /\ call \in [phase : {"idle", "check", "pop", "append", "replace"},
                 todo : Seq(Num)]
    /\ (call.todo = <<>>) <=> (call.phase = "idle")
    /\ drain \in [phase : {"idle", "test", "pop"}, left : Nat]
    /\ drain.phase = "pop" => drain.left > 0

\* The number of the outcome that is put next.
Upcoming == sent - Len(call.todo) + 1

\* A batch is numbered without gaps up to the last outcome harvested.
Numbered ==
    /\ Len(call.todo) <= sent
    /\ \A i \in 1..Len(call.todo) : call.todo[i] = Upcoming + i - 1

\* The queue never outgrows its capacity: nobody else appends between the test
\* of its length and the append.  In one thread nobody takes either.
Roomy ==
    /\ Len(queue) <= cap \/ queue = <<>>
    /\ call.phase # "idle" => cap > 0
    /\ call.phase \in {"append", "replace"} => Len(queue) < cap
    /\ ~online => call.phase = "idle" \/ drain.phase = "idle"
    /\ ~online /\ call.phase = "pop" => Len(queue) = cap
    /\ ~online /\ drain.phase = "pop" => queue # <<>>

QInv == Typed /\ Numbered /\ Roomy

-----------------------------------------------------------------------------
\* What taking the first element leaves.
LEMMA TailFacts ==
    ASSUME NEW s \in Seq(Num), s # <<>>
    PROVE  /\ Head(s) \in Num /\ Head(s) = s[1]
           /\ Tail(s) \in Seq(Num) /\ Len(Tail(s)) = Len(s) - 1
           /\ \A i \in 1..Len(s) - 1 : Tail(s)[i] = s[i + 1]
           /\ Len(s) \in Num
<1>1. Len(s) \in Nat \ {0}
  BY EmptySeq
<1>2. /\ Tail(s) \in Seq(Num) /\ Len(Tail(s)) = Len(s) - 1
      /\ \A i \in 1..Len(Tail(s)) : Tail(s)[i] = s[i + 1]
      /\ Head(s) \in Num
  BY HeadTailProperties
<1> QED
  BY <1>1, <1>2 DEF Num

LEMMA LongerThanEmpty ==
    ASSUME NEW s \in Seq(Num), Len(s) # 0
    PROVE  s # <<>>
  BY EmptySeq

\* What appending an element makes.
LEMMA AppendFacts ==
    ASSUME NEW s \in Seq(Num), NEW n \in Num
    PROVE  /\ Append(s, n) \in Seq(Num) /\ Len(Append(s, n)) = Len(s) + 1
           /\ Append(s, n) # <<>>
           /\ \A i \in 1..Len(s) : Append(s, n)[i] = s[i]
           /\ Append(s, n)[Len(s) + 1] = n
<1>1. Len(s) \in Nat
  BY LenProperties
<1>2. /\ Append(s, n) \in Seq(Num) /\ Len(Append(s, n)) = Len(s) + 1
      /\ \A i \in 1..Len(s) : Append(s, n)[i] = s[i]
      /\ Append(s, n)[Len(s) + 1] = n
  BY <1>1, AppendProperties
<1> QED
  BY <1>1, <1>2, EmptySeq

\* A batch is a sequence of the next numbers.
LEMMA BatchFacts ==
    ASSUME sent \in Nat, NEW n \in Num
    PROVE  /\ Batch(n) \in Seq(Num) /\ Len(Batch(n)) = n /\ Batch(n) # <<>>
           /\ \A i \in 1..n : Batch(n)[i] = sent + i
<1>1. Batch(n) \in [1..n -> Num]
  BY DEF Batch, Num
<1>2. Batch(n) \in Seq(Num)
  BY <1>1, SeqDef DEF Num
<1>3. Len(Batch(n)) = n
  BY <1>1, <1>2, LenProperties DEF Num
<1> QED
  BY <1>2, <1>3, EmptySeq DEF Batch, Num

-----------------------------------------------------------------------------
LEMMA QInvInit == Init => QInv
<1> SUFFICES ASSUME Init PROVE QInv
  OBVIOUS
<1>1. <<>> \in Seq(Num) /\ Len(<<>>) = 0
  BY EmptySeq
<1> QED
  BY <1>1, QueueConstants DEF Init, QInv, Typed, Numbered, Roomy, NoCall, NoDrain

\* What QInv says of a call in progress.
LEMMA CallFacts ==
    ASSUME QInv, call.phase # "idle"
    PROVE  /\ call.todo \in Seq(Num) /\ call.todo # <<>> /\ cap > 0
           /\ Head(call.todo) = Upcoming /\ Upcoming \in Num
           /\ Len(call.todo) \in Num
           /\ Tail(call.todo) \in Seq(Num)
           /\ Len(Tail(call.todo)) = Len(call.todo) - 1
           /\ \A i \in 1..Len(call.todo) - 1 : Tail(call.todo)[i] = Upcoming + i
<1>1. /\ call.todo \in Seq(Num) /\ call.todo # <<>> /\ cap > 0 /\ sent \in Nat
      /\ Len(call.todo) <= sent
      /\ \A i \in 1..Len(call.todo) : call.todo[i] = Upcoming + i - 1
  BY QueueConstants DEF QInv, Typed, Numbered, Roomy
<1>2. /\ Head(call.todo) = call.todo[1] /\ Len(call.todo) \in Num
      /\ Tail(call.todo) \in Seq(Num) /\ Len(Tail(call.todo)) = Len(call.todo) - 1
      /\ \A i \in 1..Len(call.todo) - 1 : Tail(call.todo)[i] = call.todo[i + 1]
  BY <1>1, TailFacts
<1>3. Upcoming \in Num
  BY <1>1, <1>2 DEF Upcoming, Num
<1>4. Head(call.todo) = Upcoming
  BY <1>1, <1>2, <1>3 DEF Num
<1>5. \A i \in 1..Len(call.todo) - 1 : Tail(call.todo)[i] = Upcoming + i
  BY <1>1, <1>2, <1>3 DEF Num
<1> QED
  BY <1>1, <1>2, <1>3, <1>4, <1>5

LEMMA QInvHarvest ==
    ASSUME QInv, NEW n \in 1..BatchMax, Harvest(n)
    PROVE  QInv'
<1>1. n \in Num /\ sent \in Nat /\ sent' = sent + n /\ sent' \in 0..MaxSent
  BY QueueConstants DEF QInv, Typed, Harvest, Num
<1>2. lost' \subseteq 1..sent'
  BY <1>1 DEF QInv, Typed, Harvest
<1>3. CASE cap <= 0
  <2>1. <<>> \in Seq(Num) /\ Len(<<>>) = 0
    BY EmptySeq
  <2>2. call' = NoCall /\ drops' = drops + n
    BY <1>3 DEF Harvest
  <2>3. Typed'
    BY <1>1, <1>2, <2>1, <2>2 DEF QInv, Typed, Harvest, NoCall, fixed, Num
  <2>4. Numbered'
    BY <1>1, <2>1, <2>2 DEF Numbered, NoCall, Num
  <2>5. Roomy'
    BY <2>2 DEF QInv, Roomy, Harvest, NoCall, fixed
  <2> QED
    BY <2>3, <2>4, <2>5 DEF QInv
<1>4. CASE cap > 0
  <2>1. /\ Batch(n) \in Seq(Num) /\ Len(Batch(n)) = n /\ Batch(n) # <<>>
        /\ \A i \in 1..n : Batch(n)[i] = sent + i
    BY <1>1, BatchFacts
  <2>2. call' = [phase |-> "check", todo |-> Batch(n)] /\ drops' = drops
    BY <1>4 DEF Harvest, QInv, Typed
  <2>3. call'.todo = Batch(n) /\ call'.phase = "check"
    BY <2>2
  <2>4. Typed'
    BY <1>1, <1>2, <2>1, <2>2 DEF QInv, Typed, Harvest, fixed
  <2>5. Numbered'
    BY <1>1, <2>1, <2>3 DEF Numbered, Upcoming, Num
  <2>6. Roomy'
    BY <1>4, <2>3 DEF QInv, Typed, Roomy, Harvest, fixed
  <2> QED
    BY <2>4, <2>5, <2>6 DEF QInv
<1> QED
  BY <1>3, <1>4 DEF QInv, Typed

\* A step of harvest() that leaves the rest of its batch alone.
LEMMA QInvCheck ==
    ASSUME QInv, CheckRoom
    PROVE  QInv'
<1>1. /\ call.phase # "idle" /\ call'.phase \in {"pop", "append"}
      /\ call'.todo = call.todo /\ call' \in [phase : {"pop", "append"}, todo : Seq(Num)]
      /\ call'.phase = "pop" <=> Len(queue) >= cap
  BY DEF QInv, Typed, CheckRoom
<1>2. Len(queue) \in Nat /\ cap > 0
  BY <1>1, CallFacts, LenProperties DEF QInv, Typed
<1>3. Len(queue) <= cap
  BY <1>2, EmptySeq DEF QInv, Typed, Roomy
<1>4. Typed'
  BY <1>1 DEF QInv, Typed, CheckRoom, fixed
<1>5. Numbered'
  BY <1>1 DEF QInv, Numbered, Upcoming, CheckRoom
<1>6. Roomy'
  BY <1>1, <1>2, <1>3 DEF QInv, Typed, Roomy, CheckRoom, fixed
<1> QED
  BY <1>4, <1>5, <1>6 DEF QInv

LEMMA QInvPop ==
    ASSUME QInv, PopOldest
    PROVE  QInv'
<1>1. /\ call.phase # "idle" /\ call'.phase = "replace"
      /\ call'.todo = call.todo /\ call' \in [phase : {"replace"}, todo : Seq(Num)]
      /\ queue # <<>> /\ queue \in Seq(Num)
  BY DEF QInv, Typed, PopOldest
<1>2. /\ queue' \in Seq(Num) /\ Len(queue') = Len(queue) - 1 /\ Len(queue) \in Num
  BY <1>1, TailFacts DEF PopOldest
<1>3. Typed'
  BY <1>1, <1>2 DEF QInv, Typed, PopOldest, fixed
<1>4. Numbered'
  BY <1>1 DEF QInv, Numbered, Upcoming, PopOldest
<1>5. Roomy'
  BY <1>1, <1>2 DEF QInv, Typed, Roomy, PopOldest, fixed, Num
<1> QED
  BY <1>3, <1>4, <1>5 DEF QInv

LEMMA QInvPopRaises ==
    ASSUME QInv, PopRaises
    PROVE  QInv'
<1>1. call.phase # "idle" /\ call' = NoCall /\ sent' = sent /\ sent \in Nat
  BY DEF PopRaises, QInv, Typed
<1>2. <<>> \in Seq(Num) /\ Len(<<>>) = 0
  BY EmptySeq
<1>3. lost' \subseteq 1..sent
  <2>1. ASSUME NEW i \in 1..Len(call.todo) PROVE call.todo[i] \in 1..sent
    <3>1. /\ Upcoming \in Num /\ Len(call.todo) \in Num
          /\ Len(call.todo) <= sent /\ call.todo[i] = Upcoming + i - 1
      BY <1>1, CallFacts DEF QInv, Numbered
    <3> QED
      BY <1>1, <3>1 DEF Upcoming, Num
  <2> QED
    BY <2>1 DEF PopRaises, QInv, Typed
<1>4. Typed'
  BY <1>1, <1>2, <1>3 DEF QInv, Typed, PopRaises, NoCall, fixed
<1>5. Numbered'
  BY <1>1, <1>2 DEF Numbered, NoCall
<1>6. Roomy'
  BY <1>1 DEF QInv, Roomy, PopRaises, NoCall, fixed
<1> QED
  BY <1>4, <1>5, <1>6 DEF QInv

LEMMA QInvAppend ==
    ASSUME QInv, AppendEvent
    PROVE  QInv'
<1>1. /\ call.phase \in {"append", "replace"} /\ queue \in Seq(Num)
      /\ queue' = Append(queue, Head(call.todo)) /\ sent' = sent /\ sent \in Nat
      /\ Len(queue) < cap
  BY DEF AppendEvent, QInv, Typed, Roomy
<1>2. /\ Head(call.todo) = Upcoming /\ Upcoming \in Num /\ Len(call.todo) \in Num
      /\ Tail(call.todo) \in Seq(Num) /\ Len(Tail(call.todo)) = Len(call.todo) - 1
      /\ \A i \in 1..Len(call.todo) - 1 : Tail(call.todo)[i] = Upcoming + i
      /\ cap > 0
  BY <1>1, CallFacts
<1>3. queue' \in Seq(Num) /\ Len(queue') = Len(queue) + 1 /\ Len(queue) \in Nat
  BY <1>1, <1>2, AppendFacts, LenProperties
<1>4. /\ call' \in [phase : {"idle", "check"}, todo : Seq(Num)]
      /\ (call'.todo = <<>>) <=> (call'.phase = "idle")
      /\ Len(call'.todo) = Len(call.todo) - 1
      /\ \A i \in 1..Len(call'.todo) : call'.todo[i] = Upcoming + i
  <2>1. CASE Len(call.todo) = 1
    <3>1. call' = NoCall
      BY <2>1 DEF AppendEvent
    <3>2. <<>> \in Seq(Num) /\ Len(<<>>) = 0
      BY EmptySeq
    <3> QED
      BY <2>1, <3>1, <3>2 DEF NoCall
  <2>2. CASE Len(call.todo) # 1
    <3>1. call' = [phase |-> "check", todo |-> Tail(call.todo)]
      BY <2>2 DEF AppendEvent
    <3>2. Tail(call.todo) # <<>>
      <4>1. Len(Tail(call.todo)) # 0
        BY <2>2, <1>2 DEF Num
      <4> QED
        BY <4>1, <1>2, LongerThanEmpty
    <3> QED
      BY <1>2, <3>1, <3>2
  <2> QED
    BY <2>1, <2>2
<1>5. Typed'
  BY <1>1, <1>3, <1>4 DEF QInv, Typed, AppendEvent, fixed
<1>6. Numbered'
  <2>1. Len(call.todo) <= sent
    BY DEF QInv, Numbered
  <2>2. Upcoming' = Upcoming + 1
    BY <1>1, <1>2, <1>4 DEF Upcoming, Num
  <2>3. \A i \in 1..Len(call'.todo) : call'.todo[i] = Upcoming' + i - 1
    <3> SUFFICES ASSUME NEW i \in 1..Len(call'.todo)
                 PROVE  call'.todo[i] = Upcoming' + i - 1
      OBVIOUS
    <3>1. call'.todo[i] = Upcoming + i /\ i \in Int
      BY <1>2, <1>4 DEF Num
    <3> QED
      BY <1>2, <2>2, <3>1 DEF Num
  <2> QED
    BY <1>1, <1>2, <1>4, <2>1, <2>3 DEF Numbered, Num
<1>7. Roomy'
  BY <1>1, <1>2, <1>3, <1>4 DEF QInv, Typed, Roomy, AppendEvent, fixed
<1> QED
  BY <1>5, <1>6, <1>7 DEF QInv

\* The steps of drain() do not touch the call.
LEMMA QInvDrain ==
    ASSUME QInv, DrainStep
    PROVE  QInv'
<1>1. /\ call' = call /\ sent' = sent /\ lost' = lost /\ drops' = drops
      /\ online' = online /\ cap' = cap
  BY DEF DrainStep, StartDrain, TestQueue, TakeOldest, TakeRaises, fixed
<1>2. Numbered'
  BY <1>1 DEF QInv, Numbered, Upcoming
<1>3. ASSUME NEW limit \in DrainLimits, StartDrain(limit) PROVE QInv'
  <2>1. /\ drain' \in [phase : {"test"}, left : Nat]
        /\ online \/ call.phase = "idle"
    BY <1>3, QueueConstants DEF StartDrain
  <2> QED
    BY <1>1, <1>2, <1>3, <2>1 DEF QInv, Typed, Roomy, StartDrain
<1>4. CASE TestQueue
  <2>1. /\ drain' \in [phase : {"idle", "pop"}, left : Nat]
        /\ drain'.phase = "pop" => queue # <<>> /\ drain'.left > 0
    BY <1>4 DEF TestQueue, QInv, Typed, NoDrain
  <2> QED
    BY <1>1, <1>2, <1>4, <2>1 DEF QInv, Typed, Roomy, TestQueue
<1>5. CASE TakeOldest
  <2>1. /\ queue \in Seq(Num) /\ queue # <<>> /\ applied \in Seq(Num)
        /\ drain.left \in Num
    BY <1>5 DEF TakeOldest, QInv, Typed, Num
  <2>2. /\ Head(queue) \in Num /\ queue' \in Seq(Num)
        /\ Len(queue') = Len(queue) - 1 /\ Len(queue) \in Num
    BY <1>5, <2>1, TailFacts DEF TakeOldest
  <2>3. applied' \in Seq(Num)
    BY <1>5, <2>1, <2>2, AppendFacts DEF TakeOldest
  <2>4. drain' \in [phase : {"test"}, left : Nat]
    BY <1>5, <2>1 DEF TakeOldest, Num
  <2>5. Typed'
    BY <1>1, <2>2, <2>3, <2>4 DEF QInv, Typed
  <2>6. Roomy'
    <3>1. Len(queue) <= cap /\ cap \in Int /\ call' = call
      BY <1>1, <2>1 DEF QInv, Typed, Roomy
    <3>2. Len(queue') <= cap /\ (Len(queue) < cap => Len(queue') < cap)
      BY <2>2, <3>1 DEF Num
    <3>3. ~online => call.phase = "idle"
      BY <1>5 DEF QInv, Roomy, TakeOldest
    <3>4. drain'.phase = "test"
      BY <2>4
    <3> QED
      BY <1>1, <3>1, <3>2, <3>3, <3>4 DEF QInv, Roomy
  <2> QED
    BY <1>2, <2>5, <2>6 DEF QInv
<1>6. CASE TakeRaises
  BY <1>1, <1>2, <1>6 DEF QInv, Typed, Roomy, TakeRaises, NoDrain
<1> QED
  BY <1>3, <1>4, <1>5, <1>6 DEF DrainStep

LEMMA QInvStep == QInv /\ [Next]_vars => QInv'
<1> SUFFICES ASSUME QInv, [Next]_vars PROVE QInv'
  OBVIOUS
<1>1. CASE UNCHANGED vars
  BY <1>1 DEF vars, QInv, Typed, Numbered, Upcoming, Roomy
<1> QED
  BY <1>1, QInvHarvest, QInvCheck, QInvPop, QInvPopRaises, QInvAppend, QInvDrain
     DEF Next, HarvestStep

LEMMA QInvInvariant == Spec => []QInv
  BY QInvInit, QInvStep, PTL DEF Spec

-----------------------------------------------------------------------------
(* Accounting.                                                             *)

\* No outcome is in two places; in one thread none is anywhere else.
Waiting == Len(queue)
Done    == Len(applied)
Rest    == Len(call.todo)
Known   == Waiting + Done + drops + Rest

Counted ==
    /\ Known <= sent
    /\ ~online => Known = sent /\ lost = {}

LEMMA CountTypes ==
    QInv => /\ Waiting \in Nat /\ Done \in Nat /\ Rest \in Nat
            /\ drops \in Nat /\ sent \in Nat /\ Known \in Nat
<1>1. QInv => /\ Waiting \in Nat /\ Done \in Nat /\ Rest \in Nat
              /\ drops \in Nat /\ sent \in Nat
  BY LenProperties DEF QInv, Typed, Waiting, Done, Rest
<1> QED
  BY <1>1 DEF Known

LEMMA CountedStep == QInv /\ QInv' /\ Counted /\ [Next]_vars => Counted'
<1> SUFFICES ASSUME QInv, QInv', Counted, [Next]_vars PROVE Counted'
  OBVIOUS
<1>1. /\ Waiting \in Nat /\ Done \in Nat /\ Rest \in Nat
      /\ drops \in Nat /\ sent \in Nat /\ Known \in Nat
      /\ Waiting' \in Nat /\ Done' \in Nat /\ Rest' \in Nat /\ drops' \in Nat
  <2>1. QInv => /\ Waiting \in Nat /\ Done \in Nat /\ Rest \in Nat
                /\ drops \in Nat /\ sent \in Nat /\ Known \in Nat
    BY CountTypes
  <2>2. QInv' => Waiting' \in Nat /\ Done' \in Nat /\ Rest' \in Nat /\ drops' \in Nat
    BY LenProperties DEF QInv, Typed, Waiting, Done, Rest
  <2> QED
    BY <2>1, <2>2
<1>2. ASSUME NEW n \in 1..BatchMax, Harvest(n) PROVE Counted'
  <2>1. /\ n \in Num /\ sent' = sent + n /\ Waiting' = Waiting /\ Done' = Done
        /\ online' = online /\ lost' = lost
    BY <1>2, QueueConstants DEF Harvest, Num, Waiting, Done, fixed
  <2>2. Rest = 0
    BY <1>2, EmptySeq DEF Harvest, QInv, Typed, Rest
  <2>3. \/ drops' = drops + n /\ Rest' = 0
        \/ drops' = drops /\ Rest' = n
    <3>1. CASE cap <= 0
      BY <1>2, <3>1, EmptySeq DEF Harvest, NoCall, Rest
    <3>2. CASE cap > 0
      <4>1. call' = [phase |-> "check", todo |-> Batch(n)] /\ drops' = drops
        BY <1>2, <3>2 DEF Harvest, QInv, Typed
      <4>2. Rest' = n
        BY <1>1, <2>1, <4>1, BatchFacts DEF Rest
      <4> QED
        BY <4>1, <4>2
    <3> QED
      BY <3>1, <3>2 DEF QInv, Typed
  <2>4. n \in Nat
    BY <2>1 DEF Num
  <2>5. Known' = Known + n
    <3>1. Waiting' = Waiting /\ Done' = Done
      BY <2>1
    <3>2. CASE drops' = drops + n /\ Rest' = 0
      BY <1>1, <2>2, <2>4, <3>1, <3>2 DEF Known
    <3>3. CASE drops' = drops /\ Rest' = n
      BY <1>1, <2>2, <2>4, <3>1, <3>3 DEF Known
    <3> QED
      BY <2>3, <3>2, <3>3
  <2> QED
    BY <1>1, <2>1, <2>4, <2>5 DEF Counted
<1>3. CASE CheckRoom
  <2>1. /\ UNCHANGED <<queue, applied, drops, sent, lost, online>>
        /\ call'.todo = call.todo
    BY <1>3 DEF CheckRoom, fixed, QInv, Typed
  <2> QED
    BY <2>1 DEF Counted, Known, Waiting, Done, Rest
<1>4. CASE PopOldest
  <2>1. Waiting' = Waiting - 1
    BY <1>4, TailFacts DEF PopOldest, QInv, Typed, Waiting
  <2>2. Rest' = Rest
    BY <1>4 DEF PopOldest, QInv, Typed, Rest
  <2>3. /\ drops' = drops + 1 /\ Done' = Done /\ sent' = sent
        /\ online' = online /\ lost' = lost
    BY <1>4 DEF PopOldest, fixed, Done
  <2>4. Known' = Known
    BY <1>1, <2>1, <2>2, <2>3 DEF Known
  <2> QED
    BY <2>3, <2>4 DEF Counted
<1>5. CASE PopRaises
  <2>1. online
    <3>1. SUFFICES ASSUME ~online PROVE FALSE
      OBVIOUS
    <3>2. Len(queue) = cap /\ cap > 0 /\ queue = <<>>
      BY <1>5, <3>1 DEF PopRaises, QInv, Typed, Roomy
    <3>3. Len(<<>>) = 0
      BY EmptySeq
    <3> QED
      BY <3>2, <3>3
  <2>2. /\ drops' = drops /\ Done' = Done /\ Waiting' = Waiting /\ sent' = sent
        /\ online' = online /\ Rest' = 0
    BY <1>5, EmptySeq DEF PopRaises, fixed, NoCall, Done, Waiting, Rest
  <2>3. Known' <= Known /\ Known' \in Nat
    BY <1>1, <2>2 DEF Known
  <2> QED
    BY <1>1, <2>1, <2>2, <2>3 DEF Counted
<1>6. CASE AppendEvent
  <2>1. Waiting' = Waiting + 1
    <3>1. Head(call.todo) \in Num
      BY <1>6, CallFacts DEF AppendEvent
    <3> QED
      BY <1>6, <3>1, AppendFacts DEF AppendEvent, QInv, Typed, Waiting
  <2>2. Rest' = Rest - 1
    <3>1. CASE Len(call.todo) = 1
      <4>1. Rest' = 0
        BY <1>6, <3>1, EmptySeq DEF AppendEvent, NoCall, Rest
      <4> QED
        BY <3>1, <4>1 DEF Rest
    <3>2. CASE Len(call.todo) # 1
      <4>1. call'.todo = Tail(call.todo)
        BY <1>6, <3>2 DEF AppendEvent
      <4>2. Len(Tail(call.todo)) = Len(call.todo) - 1
        BY <1>6, CallFacts DEF AppendEvent
      <4> QED
        BY <4>1, <4>2 DEF Rest
    <3> QED
      BY <3>1, <3>2
  <2>3. /\ drops' = drops /\ Done' = Done /\ sent' = sent
        /\ online' = online /\ lost' = lost
    BY <1>6 DEF AppendEvent, fixed, Done
  <2>4. Known' = Known
    BY <1>1, <2>1, <2>2, <2>3 DEF Known
  <2> QED
    BY <2>3, <2>4 DEF Counted
<1>7. ASSUME NEW limit \in DrainLimits, StartDrain(limit) PROVE Counted'
  BY <1>7 DEF StartDrain, Counted, Known, Waiting, Done, Rest, fixed
<1>8. CASE TestQueue \/ TakeRaises
  BY <1>8 DEF TestQueue, TakeRaises, Counted, Known, Waiting, Done, Rest, fixed
<1>9. CASE TakeOldest
  <2>1. Waiting' = Waiting - 1 /\ Head(queue) \in Num
    BY <1>9, TailFacts DEF TakeOldest, QInv, Typed, Waiting
  <2>2. Done' = Done + 1
    BY <1>9, <2>1, AppendFacts DEF TakeOldest, QInv, Typed, Done
  <2>3. /\ drops' = drops /\ Rest' = Rest /\ sent' = sent
        /\ online' = online /\ lost' = lost
    BY <1>9 DEF TakeOldest, fixed, Rest
  <2>4. Known' = Known
    BY <1>1, <2>1, <2>2, <2>3 DEF Known
  <2> QED
    BY <2>3, <2>4 DEF Counted
<1>10. CASE UNCHANGED vars
  BY <1>10 DEF vars, Counted, Known, Waiting, Done, Rest
<1> QED
  BY <1>2, <1>3, <1>4, <1>5, <1>6, <1>7, <1>8, <1>9, <1>10
     DEF Next, HarvestStep, DrainStep

LEMMA CountedInvariant == Spec => []Counted
<1>1. Init => Counted
  <2>1. ASSUME Init PROVE Waiting = 0 /\ Done = 0 /\ Rest = 0
    BY <2>1, EmptySeq DEF Init, NoCall, Waiting, Done, Rest
  <2> QED
    BY <2>1 DEF Init, Counted, Known
<1> QED
  BY <1>1, CountedStep, QInvInvariant, PTL DEF Spec

\* In one thread no call raises, and between calls every outcome harvested
\* waits, was applied, or was counted as a drop.
THEOREM OneThreadCounts == Spec => []CountedInOneThread
<1>1. QInv /\ Counted => CountedInOneThread
  <2> SUFFICES ASSUME QInv, Counted, ~online PROVE lost = {} /\ DropsCounted
    BY DEF CountedInOneThread
  <2>1. lost = {} /\ sent = Known
    BY DEF Counted
  <2>2. ASSUME call.phase = "idle"
        PROVE  sent = Len(queue) + Len(applied) + drops
    <3>1. Rest = 0
      BY <2>2, EmptySeq DEF QInv, Typed, Rest
    <3>2. Waiting + Done + drops + Rest = Waiting + Done + drops
      BY <3>1, CountTypes
    <3> QED
      BY <2>1, <3>2 DEF Known, Waiting, Done
  <2> QED
    BY <2>1, <2>2 DEF DropsCounted
<1> QED
  BY <1>1, CountedInvariant, QInvInvariant, PTL

-----------------------------------------------------------------------------
(* Order.                                                                  *)

Ascending(s) == \A i, j \in 1..Len(s) : i < j => s[i] < s[j]
Below(s, n)  == \A i \in 1..Len(s) : s[i] < n

\* Applied before waiting, waiting before coming.
Ordered ==
    /\ Ascending(applied) /\ Ascending(queue)
    /\ \A j \in 1..Len(queue) : Below(applied, queue[j])
    /\ Below(applied, Upcoming) /\ Below(queue, Upcoming)

\* An element above all others goes to the end, in order.
LEMMA AscendingAppend ==
    ASSUME NEW s \in Seq(Num), NEW n \in Num, Ascending(s), Below(s, n)
    PROVE  Ascending(Append(s, n))
<1>1. /\ Len(Append(s, n)) = Len(s) + 1 /\ Len(s) \in Nat
      /\ \A i \in 1..Len(s) : Append(s, n)[i] = s[i]
      /\ Append(s, n)[Len(s) + 1] = n
  BY AppendFacts, LenProperties
<1> DEFINE t == Append(s, n)
           m == Len(s)
<1>2. \A i \in 1..m : t[i] = s[i] /\ s[i] < n
  BY <1>1 DEF Below
<1>3. /\ m \in Nat /\ Len(t) = m + 1 /\ t[m + 1] = n
      /\ \A i, j \in 1..m : i < j => s[i] < s[j]
  BY <1>1 DEF Ascending
<1> HIDE DEF t, m
<1>4. \A i, j \in 1..Len(t) : i < j => t[i] < t[j]
  <2> SUFFICES ASSUME NEW i \in 1..m + 1, NEW j \in 1..m + 1, i < j PROVE t[i] < t[j]
    BY <1>3
  <2>1. i \in 1..m
    BY <1>3
  <2>2. CASE j = m + 1
    BY <1>2, <1>3, <2>1, <2>2
  <2>3. CASE j # m + 1
    <3>1. j \in 1..m
      BY <1>3, <2>3
    <3> QED
      BY <1>2, <1>3, <2>1, <3>1
  <2> QED
    BY <2>2, <2>3
<1> QED
  BY <1>4 DEF Ascending, t

LEMMA BelowAppend ==
    ASSUME NEW s \in Seq(Num), NEW n \in Num, NEW k \in Num, Below(s, k), n < k
    PROVE  Below(Append(s, n), k)
<1>1. /\ Len(Append(s, n)) = Len(s) + 1 /\ Len(s) \in Nat
      /\ \A i \in 1..Len(s) : Append(s, n)[i] = s[i]
      /\ Append(s, n)[Len(s) + 1] = n
  BY AppendFacts, LenProperties
<1> QED
  BY <1>1 DEF Below

\* Without its first element a sequence keeps its order and its bounds.
LEMMA AscendingTail ==
    ASSUME NEW s \in Seq(Num), s # <<>>, Ascending(s)
    PROVE  /\ Ascending(Tail(s))
           /\ \A i \in 1..Len(Tail(s)) : Head(s) < Tail(s)[i]
           /\ \A n : Below(s, n) => Head(s) < n /\ Below(Tail(s), n)
           /\ \A i \in 1..Len(Tail(s)) : \E j \in 1..Len(s) : Tail(s)[i] = s[j]
           /\ \E j \in 1..Len(s) : Head(s) = s[j]
<1>1. /\ Head(s) = s[1] /\ Len(Tail(s)) = Len(s) - 1 /\ Len(s) \in Num
      /\ \A i \in 1..Len(s) - 1 : Tail(s)[i] = s[i + 1]
  BY TailFacts
<1> DEFINE t == Tail(s)
           m == Len(s)
           h == Head(s)
<1>2. /\ m \in Nat \ {0} /\ h = s[1] /\ Len(t) = m - 1
      /\ \A i \in 1..m - 1 : t[i] = s[i + 1]
      /\ \A i, j \in 1..m : i < j => s[i] < s[j]
  BY <1>1 DEF Ascending, Num
<1> HIDE DEF t, m, h
<1>3. \A i, j \in 1..Len(t) : i < j => t[i] < t[j]
  BY <1>2
<1>4. \A i \in 1..Len(t) : h < t[i]
  BY <1>2
<1>5. \A n : (\A i \in 1..m : s[i] < n) => h < n /\ \A i \in 1..Len(t) : t[i] < n
  BY <1>2
<1>6. \A i \in 1..Len(t) : i + 1 \in 1..m /\ t[i] = s[i + 1]
  BY <1>2
<1>7. 1 \in 1..m
  BY <1>2
<1> QED
  BY <1>2, <1>3, <1>4, <1>5, <1>6, <1>7 DEF t, m, h, Ascending, Below

LEMMA BelowMore ==
    ASSUME NEW s \in Seq(Num), NEW n \in Int, NEW m \in Int, Below(s, n), n <= m
    PROVE  Below(s, m)
<1>1. \A i \in 1..Len(s) : s[i] \in Num
  BY ElementOfSeq
<1> QED
  BY <1>1 DEF Below, Num

LEMMA UpcomingType ==
    /\ QInv => Upcoming \in Num
    /\ QInv' => Upcoming' \in Num
<1>1. ASSUME NEW total \in Nat, NEW left \in Nat, left <= total
      PROVE  total - left + 1 \in Num
  BY <1>1 DEF Num
<1>2. QInv => sent \in Nat /\ Rest \in Nat /\ Rest <= sent
  BY LenProperties DEF QInv, Typed, Numbered, Rest
<1>3. QInv' => sent' \in Nat /\ Rest' \in Nat /\ Rest' <= sent'
  BY LenProperties DEF QInv, Typed, Numbered, Rest
<1> QED
  BY <1>1, <1>2, <1>3 DEF Upcoming, Rest

\* Steps that change neither what waits nor what was applied.
LEMMA OrderedCall ==
    ASSUME QInv, QInv', Ordered, queue' = queue, applied' = applied,
           Upcoming <= Upcoming'
    PROVE  Ordered'
<1>1. Upcoming \in Int /\ Upcoming' \in Int
  BY UpcomingType DEF Num
<1>2. Below(applied, Upcoming') /\ Below(queue, Upcoming')
  BY <1>1, BelowMore DEF QInv, Typed, Ordered
<1> QED
  BY <1>2 DEF Ordered

LEMMA OrderedStep == QInv /\ QInv' /\ Ordered /\ [Next]_vars => Ordered'
<1> SUFFICES ASSUME QInv, QInv', Ordered, [Next]_vars PROVE Ordered'
  OBVIOUS
<1>1. /\ queue \in Seq(Num) /\ applied \in Seq(Num) /\ Upcoming \in Num /\ Upcoming' \in Num
      /\ Rest \in Nat /\ sent \in Nat
      /\ Upcoming = sent - Rest + 1 /\ Upcoming' = sent' - Rest' + 1
  BY UpcomingType, CountTypes DEF QInv, Typed, Upcoming, Rest
<1>2. ASSUME NEW n \in 1..BatchMax, Harvest(n) PROVE Ordered'
  <2>1. queue' = queue /\ applied' = applied /\ sent' = sent + n /\ n \in Nat
    BY <1>2, QueueConstants DEF Harvest
  <2>2. Rest = 0
    BY <1>2, EmptySeq DEF Harvest, QInv, Typed, Rest
  <2>3. Rest' = 0 \/ Rest' = n
    <3>1. CASE cap <= 0
      BY <1>2, <3>1, EmptySeq DEF Harvest, NoCall, Rest
    <3>2. CASE cap > 0
      <4>1. call' = [phase |-> "check", todo |-> Batch(n)]
        BY <1>2, <3>2 DEF Harvest, QInv, Typed
      <4>2. n \in Num
        BY <2>1 DEF Num
      <4> QED
        BY <1>1, <4>1, <4>2, BatchFacts DEF Rest
    <3> QED
      BY <3>1, <3>2 DEF QInv, Typed
  <2>4. Upcoming <= Upcoming'
    BY <1>1, <2>1, <2>2, <2>3
  <2> QED
    BY <2>1, <2>4, OrderedCall
<1>3. CASE CheckRoom
  <2>1. queue' = queue /\ applied' = applied /\ sent' = sent /\ call'.todo = call.todo
    BY <1>3 DEF CheckRoom, QInv, Typed
  <2> QED
    BY <2>1 DEF Ordered, Upcoming
<1>4. CASE PopOldest
  <2>1. /\ queue # <<>> /\ queue' = Tail(queue) /\ applied' = applied /\ Upcoming' = Upcoming
    BY <1>4 DEF PopOldest, Upcoming, QInv, Typed
  <2>2. Ascending(queue') /\ Below(queue', Upcoming)
    BY <1>1, <2>1, AscendingTail DEF Ordered
  <2>3. ASSUME NEW j \in 1..Len(queue') PROVE Below(applied, queue'[j])
    <3>1. PICK i \in 1..Len(queue) : queue'[j] = queue[i]
      BY <1>1, <2>1, AscendingTail DEF Ordered
    <3> QED
      BY <3>1 DEF Ordered
  <2> QED
    BY <2>1, <2>2, <2>3 DEF Ordered
<1>5. CASE PopRaises
  <2>1. /\ queue' = queue /\ applied' = applied /\ sent' = sent
        /\ Rest' = 0
    BY <1>5, EmptySeq DEF PopRaises, NoCall, Rest
  <2>2. Upcoming <= Upcoming'
    BY <1>1, <2>1
  <2> QED
    BY <2>1, <2>2, OrderedCall
<1>6. CASE AppendEvent
  <2>1. call.phase # "idle" /\ sent' = sent /\ applied' = applied
    BY <1>6 DEF AppendEvent
  <2>2. queue' = Append(queue, Upcoming)
    BY <1>6, <2>1, CallFacts DEF AppendEvent
  <2>3. Upcoming' = Upcoming + 1
    <3>1. Len(call'.todo) = Len(call.todo) - 1
      <4>1. CASE Len(call.todo) = 1
        BY <1>6, <4>1, EmptySeq DEF AppendEvent, NoCall
      <4>2. CASE Len(call.todo) # 1
        <5>1. call'.todo = Tail(call.todo)
          BY <1>6, <4>2 DEF AppendEvent
        <5> QED
          BY <2>1, <5>1, CallFacts
      <4> QED
        BY <4>1, <4>2
    <3> QED
      BY <1>1, <2>1, <3>1 DEF Upcoming, Rest
  <2>4. /\ Ascending(queue') /\ Below(queue, Upcoming + 1) /\ Below(applied, Upcoming + 1)
    BY <1>1, <2>2, AscendingAppend, BelowMore DEF Ordered, Num
  <2>5. Below(queue', Upcoming + 1)
    BY <1>1, <2>2, <2>4, BelowAppend DEF Num
  <2>6. ASSUME NEW j \in 1..Len(queue') PROVE Below(applied, queue'[j])
    <3>1. /\ Len(queue') = Len(queue) + 1 /\ Len(queue) \in Nat
          /\ \A i \in 1..Len(queue) : queue'[i] = queue[i]
          /\ queue'[Len(queue) + 1] = Upcoming
      BY <1>1, <2>2, AppendFacts, LenProperties
    <3>2. j \in 1..Len(queue) \/ j = Len(queue) + 1
      BY <3>1
    <3> QED
      BY <3>1, <3>2 DEF Ordered
  <2> QED
    BY <2>1, <2>3, <2>4, <2>5, <2>6 DEF Ordered
<1>7. ASSUME NEW limit \in DrainLimits, StartDrain(limit) PROVE Ordered'
  BY <1>7 DEF StartDrain, Ordered, Upcoming
<1>8. CASE TestQueue \/ TakeRaises
  BY <1>8 DEF TestQueue, TakeRaises, Ordered, Upcoming
<1>9. CASE TakeOldest
  <2>1. /\ queue # <<>> /\ queue' = Tail(queue) /\ applied' = Append(applied, Head(queue))
        /\ Upcoming' = Upcoming
    BY <1>9 DEF TakeOldest, Upcoming
  <2>2. /\ Ascending(queue') /\ Below(queue', Upcoming) /\ Head(queue) < Upcoming
        /\ \A i \in 1..Len(queue') : Head(queue) < queue'[i]
        /\ \A i \in 1..Len(queue') : \E j \in 1..Len(queue) : queue'[i] = queue[j]
        /\ \E j \in 1..Len(queue) : Head(queue) = queue[j]
    BY <1>1, <2>1, AscendingTail DEF Ordered
  <2>3. Head(queue) \in Num /\ queue' \in Seq(Num)
    BY <1>1, <2>1, TailFacts
  <2>4. Below(applied, Head(queue))
    BY <2>2 DEF Ordered
  <2>5. Ascending(applied') /\ Below(applied', Upcoming)
    BY <1>1, <2>1, <2>2, <2>3, <2>4, AscendingAppend, BelowAppend DEF Ordered
  <2>6. ASSUME NEW j \in 1..Len(queue') PROVE Below(applied', queue'[j])
    <3>1. queue'[j] \in Num /\ Head(queue) < queue'[j]
      BY <2>2, <2>3, ElementOfSeq
    <3>2. Below(applied, queue'[j])
      BY <2>2 DEF Ordered
    <3> QED
      BY <1>1, <2>1, <2>3, <3>1, <3>2, BelowAppend
  <2> QED
    BY <2>1, <2>2, <2>5, <2>6 DEF Ordered
<1>10. CASE UNCHANGED vars
  BY <1>10 DEF vars, Ordered, Upcoming
<1> QED
  BY <1>2, <1>3, <1>4, <1>5, <1>6, <1>7, <1>8, <1>9, <1>10
     DEF Next, HarvestStep, DrainStep

LEMMA OrderedInvariant == Spec => []Ordered
<1>1. Init => Ordered
  <2> SUFFICES ASSUME Init PROVE Ordered
    OBVIOUS
  <2>1. queue = <<>> /\ applied = <<>> /\ Len(<<>>) = 0
    BY EmptySeq DEF Init
  <2>2. 1..0 = {}
    OBVIOUS
  <2> QED
    BY <2>1, <2>2 DEF Ordered, Ascending, Below
<1> QED
  BY <1>1, OrderedStep, QInvInvariant, PTL DEF Spec

LEMMA ConcatParts ==
    ASSUME NEW x \in Seq(Num), NEW y \in Seq(Num)
    PROVE  /\ Len(x \o y) = Len(x) + Len(y)
           /\ \A i \in 1..Len(x) + Len(y) :
                 (x \o y)[i] = IF i <= Len(x) THEN x[i] ELSE y[i - Len(x)]
  BY ConcatProperties

\* Outcomes are applied in the order they were harvested, none twice, in one
\* thread and in two, for every capacity and every batch.
THEOREM AppliedOrdered == Spec => []AppliedInOrder
<1>1. ASSUME QInv, Ordered PROVE AppliedInOrder
  <2> DEFINE a == applied
             q == queue
             c == call.todo
             m == Len(a)
             n == Len(q)
             k == Len(c)
             r == a \o q
             s == r \o c
  <2>1. /\ a \in Seq(Num) /\ q \in Seq(Num) /\ c \in Seq(Num) /\ a \o q \in Seq(Num)
        /\ m \in Nat /\ n \in Nat /\ k \in Nat /\ Upcoming \in Num
    BY <1>1, LenProperties, ConcatProperties, UpcomingType DEF QInv, Typed
  <2>2. /\ Len(r) = m + n /\ r \in Seq(Num)
        /\ \A i \in 1..m + n : r[i] = IF i <= m THEN a[i] ELSE q[i - m]
    BY <2>1, ConcatProperties
  <2>3. /\ Len(s) = m + n + k
        /\ \A i \in 1..m + n + k :
              s[i] = IF i <= m + n THEN r[i] ELSE c[i - (m + n)]
    <3>1. /\ Len(s) = Len(r) + Len(c)
          /\ \A i \in 1..Len(r) + Len(c) :
                s[i] = IF i <= Len(r) THEN r[i] ELSE c[i - Len(r)]
      <4> HIDE DEF a, q, c, r, m, n, k
      <4> QED
        BY <2>1, <2>2, ConcatParts DEF s
    <3>2. Len(r) = m + n
      BY <2>2
    <3> HIDE DEF a, q, c, r, s, m, n
    <3> QED
      BY <3>1, <3>2 DEF k
  <2>4. /\ \A i, j \in 1..m : i < j => a[i] < a[j]
        /\ \A i, j \in 1..n : i < j => q[i] < q[j]
        /\ \A i \in 1..m, j \in 1..n : a[i] < q[j]
        /\ \A i \in 1..m : a[i] < Upcoming
        /\ \A j \in 1..n : q[j] < Upcoming
    BY <1>1 DEF Ordered, Ascending, Below
  <2>5. \A i \in 1..k : c[i] = Upcoming + i - 1
    BY <1>1 DEF QInv, Numbered
  <2>6. /\ \A i \in 1..m : a[i] \in Nat
        /\ \A i \in 1..n : q[i] \in Nat
    BY <2>1, ElementOfSeq DEF Num
  <2> DEFINE u == Upcoming
  <2>7. u \in Nat
    BY <2>1 DEF Num
  <2> HIDE DEF a, q, c, m, n, k, r, s, u
  <2>8. \A i \in 1..m + n + k :
           /\ i <= m => s[i] = a[i]
           /\ i > m /\ i <= m + n => s[i] = q[i - m]
           /\ i > m + n => s[i] = c[i - (m + n)]
    <3> SUFFICES ASSUME NEW i \in 1..m + n + k
                 PROVE  /\ i <= m => s[i] = a[i]
                        /\ i > m /\ i <= m + n => s[i] = q[i - m]
                        /\ i > m + n => s[i] = c[i - (m + n)]
      OBVIOUS
    <3>1. CASE i <= m + n
      <4>1. i \in 1..m + n /\ s[i] = r[i]
        BY <2>1, <2>3, <3>1
      <4> QED
        BY <2>1, <2>2, <3>1, <4>1
    <3>2. CASE i > m + n
      BY <2>1, <2>3, <3>2
    <3> QED
      BY <2>1, <3>1, <3>2
  <2>9. \A i, j \in 1..m + n + k : i < j => s[i] < s[j]
    <3> SUFFICES ASSUME NEW i \in 1..m + n + k, NEW j \in 1..m + n + k, i < j
                 PROVE  s[i] < s[j]
      OBVIOUS
    <3>1. CASE j <= m
      BY <2>1, <2>4, <2>8, <3>1
    <3>2. CASE j > m /\ j <= m + n
      <4>1. PICK y \in 1..n : y = j - m /\ s[j] = q[y]
        <5>1. j - m \in 1..n /\ s[j] = q[j - m]
          BY <2>1, <2>8, <3>2
        <5> QED
          BY <5>1
      <4>2. CASE i <= m
        <5>1. i \in 1..m /\ s[i] = a[i]
          BY <2>1, <2>8, <4>2
        <5>2. a[i] < q[y]
          BY <2>4, <5>1
        <5> QED
          BY <4>1, <5>1, <5>2
      <4>3. CASE i > m
        <5>1. i - m \in 1..n /\ s[i] = q[i - m] /\ i - m < j - m
          BY <2>1, <2>8, <3>2, <4>3
        <5> QED
          BY <2>4, <4>1, <5>1
      <4> QED
        BY <2>1, <4>2, <4>3
    <3>3. CASE j > m + n
      <4>1. j - (m + n) \in 1..k /\ s[j] = c[j - (m + n)]
        BY <2>1, <2>8, <3>3
      <4>2. s[j] = u + (j - (m + n)) - 1
        BY <2>5, <4>1 DEF u
      <4>3. CASE i <= m
        <5>1. i \in 1..m /\ s[i] = a[i]
          BY <2>1, <2>8, <4>3
        <5>2. a[i] < u /\ a[i] \in Nat
          BY <2>4, <2>6, <5>1 DEF u
        <5>3. s[j] >= u
          BY <2>1, <2>7, <4>1, <4>2
        <5>4. s[j] \in Int
          BY <2>1, <2>7, <4>2
        <5> QED
          BY <2>7, <5>1, <5>2, <5>3, <5>4
      <4>4. CASE i > m /\ i <= m + n
        <5>1. i - m \in 1..n /\ s[i] = q[i - m]
          BY <2>1, <2>8, <4>4
        <5> QED
          BY <2>1, <2>4, <2>6, <2>7, <4>1, <4>2, <5>1 DEF u
      <4>5. CASE i > m + n
        <5>1. i - (m + n) \in 1..k /\ s[i] = c[i - (m + n)]
          BY <2>1, <2>8, <4>5
        <5>2. s[i] = u + (i - (m + n)) - 1
          BY <2>5, <5>1 DEF u
        <5> QED
          BY <2>1, <2>7, <4>2, <5>2
      <4> QED
        BY <2>1, <4>3, <4>4, <4>5
    <3> QED
      BY <2>1, <3>1, <3>2, <3>3
  <2> QED
    BY <2>3, <2>9 DEF AppliedInOrder, s, r, a, q, c
<1> QED
  BY <1>1, OrderedInvariant, QInvInvariant, PTL

\* A sequence whose elements are in a set is a sequence over the set.
LEMMA NarrowerSeq ==
    ASSUME NEW s \in Seq(Num), NEW S, \A i \in 1..Len(s) : s[i] \in S
    PROVE  s \in Seq(S)
<1>1. Len(s) \in Nat /\ s = [i \in 1..Len(s) |-> s[i]]
  BY LenProperties
<1>2. s \in [1..Len(s) -> S]
  BY <1>1
<1> QED
  BY <1>1, <1>2, SeqDef

LEMMA BelowNumbers ==
    ASSUME NEW s \in Seq(Num), NEW n \in Num, NEW m \in Nat, Below(s, n), n <= m + 1
    PROVE  s \in Seq(1..m)
<1>1. ASSUME NEW i \in 1..Len(s) PROVE s[i] \in 1..m
  <2>1. s[i] \in Num
    BY ElementOfSeq
  <2>2. s[i] < n
    BY DEF Below
  <2> QED
    BY <2>1, <2>2 DEF Num
<1> QED
  BY <1>1, NarrowerSeq

\* The numbers behind the outcomes, and the phases of the two calls.
THEOREM QueueTyped == Spec => []TypeOK
<1>1. ASSUME QInv, Ordered, Counted PROVE TypeOK
  <2>1. /\ queue \in Seq(Num) /\ applied \in Seq(Num) /\ call.todo \in Seq(Num)
        /\ sent \in 0..MaxSent /\ sent \in Nat
    BY <1>1, CountTypes DEF QInv, Typed
  <2>2. Upcoming <= sent + 1 /\ Upcoming \in Num
    <3>1. Upcoming = sent - Rest + 1 /\ Rest \in Nat
      BY <1>1, CountTypes DEF Upcoming, Rest
    <3> QED
      BY <1>1, <2>1, <3>1, UpcomingType
  <2>3. queue \in Seq(1..sent) /\ applied \in Seq(1..sent)
    BY <1>1, <2>1, <2>2, BelowNumbers DEF Ordered
  <2>4. call.todo \in Seq(1..sent)
    <3>1. ASSUME NEW i \in 1..Len(call.todo) PROVE call.todo[i] \in 1..sent
      <4>1. Upcoming = sent - Rest + 1 /\ Rest \in Nat /\ Rest <= sent
        BY <1>1, CountTypes DEF Upcoming, Rest, QInv, Numbered
      <4>2. i \in 1..Rest /\ call.todo[i] = Upcoming + i - 1
        BY <1>1 DEF QInv, Numbered, Rest
      <4> QED
        BY <2>1, <4>1, <4>2
    <3> QED
      BY <2>1, <3>1, NarrowerSeq
  <2>5. drops \in 0..sent
    <3>1. /\ Waiting \in Nat /\ Done \in Nat /\ Rest \in Nat /\ drops \in Nat
          /\ Waiting + Done + drops + Rest <= sent
      BY <1>1, CountTypes DEF Counted, Known
    <3> QED
      BY <2>1, <3>1
  <2> QED
    BY <1>1, <2>1, <2>3, <2>4, <2>5 DEF TypeOK, QInv, Typed
<1> QED
  BY <1>1, OrderedInvariant, QInvInvariant, CountedInvariant, PTL

-----------------------------------------------------------------------------
(* Refinement.                                                             *)

\* The three variables of HarvestBuffer that are not variables here.
MappedBuffer == IF Replacing THEN Append(queue, Head(call.todo)) ELSE queue
MappedNext   == 1 + sent - Len(call.todo) + (IF Replacing THEN 1 ELSE 0)
MappedCap    == IF cap > 0 THEN cap ELSE 0

LEMMA Mapping ==
    ASSUME QInv
    PROVE  /\ ~Replacing => MappedBuffer = queue /\ MappedNext = Upcoming
           /\ Replacing => MappedBuffer = Append(queue, Upcoming)
                           /\ MappedNext = Upcoming + 1
           /\ call.phase # "idle" => MappedCap = cap
           /\ Upcoming \in Num /\ cap \in Int
<1>1. Upcoming \in Num /\ cap \in Int
  BY UpcomingType DEF QInv, Typed
<1>2. /\ sent \in Nat /\ Rest \in Nat
  BY CountTypes
<1>3. Upcoming = 1 + sent - Rest
  BY <1>2 DEF Upcoming, Rest
<1>4. Replacing => Head(call.todo) = Upcoming
  BY CallFacts DEF Replacing
<1>5. MappedNext = (1 + sent - Rest) + (IF Replacing THEN 1 ELSE 0)
  BY DEF MappedNext, Rest
<1>6. ~Replacing => MappedNext = Upcoming
  BY <1>1, <1>3, <1>5 DEF Num
<1>7. Replacing => MappedNext = Upcoming + 1
  BY <1>3, <1>5
<1>8. call.phase # "idle" => cap > 0
  BY CallFacts
<1> QED
  BY <1>1, <1>4, <1>6, <1>7, <1>8 DEF MappedBuffer, MappedCap

LEMMA MappingAfter ==
    ASSUME QInv'
    PROVE  /\ ~Replacing' => MappedBuffer' = queue' /\ MappedNext' = Upcoming'
           /\ Replacing' => MappedBuffer' = Append(queue', Head(call'.todo))
                            /\ MappedNext' = Upcoming' + 1
<1>1. Upcoming' \in Num
  BY UpcomingType
<1>2. sent' \in Nat /\ Rest' \in Nat
  BY LenProperties DEF QInv, Typed, Rest
<1>3. Upcoming' = 1 + sent' - Rest'
  BY <1>2 DEF Upcoming, Rest
<1>4. MappedNext' = (1 + sent' - Rest') + (IF Replacing' THEN 1 ELSE 0)
  BY DEF MappedNext, Rest
<1>5. ~Replacing' => MappedNext' = Upcoming'
  BY <1>1, <1>3, <1>4 DEF Num
<1>6. Replacing' => MappedNext' = Upcoming' + 1
  BY <1>3, <1>4
<1> QED
  BY <1>5, <1>6 DEF MappedBuffer

\* What HarvestBuffer's variables do in a step that it does not see.
Unseen ==
    /\ MappedBuffer' = MappedBuffer /\ MappedNext' = MappedNext
    /\ UNCHANGED <<drops, lost, applied, cap, online>>

LEMMA UnseenStutters == Unseen => UNCHANGED Buffer!bufferVars
  BY DEF Unseen, Buffer!bufferVars, MappedBuffer, MappedNext

\* The outcomes of a call are all appended, or all but the one that waits for
\* its turn: appending moves on to the next number.
LEMMA AppendAdvances ==
    ASSUME QInv, QInv', AppendEvent
    PROVE  Upcoming' = Upcoming + 1 /\ ~Replacing'
<1>1. call.phase # "idle" /\ sent' = sent
  BY DEF AppendEvent
<1>2. Rest' = Rest - 1
  <2>1. CASE Len(call.todo) = 1
    BY <2>1, EmptySeq DEF AppendEvent, NoCall, Rest
  <2>2. CASE Len(call.todo) # 1
    <3>1. call'.todo = Tail(call.todo)
      BY <2>2 DEF AppendEvent
    <3> QED
      BY <1>1, <3>1, CallFacts DEF Rest
  <2> QED
    BY <2>1, <2>2
<1>3. sent \in Nat /\ Rest \in Nat
  BY CountTypes
<1>4. ~Replacing'
  BY DEF AppendEvent, Replacing, NoCall
<1>5. Upcoming = sent - Rest + 1 /\ Upcoming' = sent' - Rest' + 1
  BY DEF Upcoming, Rest
<1> QED
  BY <1>1, <1>2, <1>3, <1>4, <1>5

LEMMA HarvestMaps ==
    ASSUME QInv, QInv', NEW n \in 1..BatchMax, Harvest(n)
    PROVE  Buffer!Next \/ UNCHANGED Buffer!bufferVars
<1>1. /\ call.phase = "idle" /\ call'.phase # "replace" /\ sent' = sent + n
      /\ queue' = queue /\ lost' = lost /\ applied' = applied
      /\ cap' = cap /\ online' = online
  BY DEF Harvest, NoCall, fixed
<1>2. /\ ~Replacing /\ ~Replacing'
  BY <1>1 DEF Replacing
<1>3. n \in Nat \ {0} /\ sent \in Nat /\ cap \in Int
  BY QueueConstants DEF QInv, Typed
<1>4. Rest = 0
  BY <1>1, EmptySeq DEF QInv, Typed, Rest
<1>5. Upcoming = sent + 1
  BY <1>3, <1>4 DEF Upcoming, Rest
<1>6. /\ MappedBuffer = queue /\ MappedBuffer' = queue
      /\ MappedNext = Upcoming /\ MappedNext' = Upcoming'
  BY <1>1, <1>2, Mapping, MappingAfter
<1>7. CASE cap <= 0
  <2>1. drops' = drops + n /\ call' = NoCall
    BY <1>7 DEF Harvest
  <2>2. Rest' = 0
    BY <2>1, EmptySeq DEF NoCall, Rest
  <2>3. Upcoming' = sent + n + 1
    BY <1>1, <1>3, <2>2 DEF Upcoming, Rest
  <2>4. MappedNext' = MappedNext + n
    BY <1>3, <1>5, <1>6, <2>3
  <2>5. MappedNext \in Nat
    BY <1>3, <1>5, <1>6
  <2>6. n \in 1..MappedNext' - MappedNext
    BY <1>3, <2>4, <2>5
  <2>7. MappedCap = 0
    BY <1>3, <1>7 DEF MappedCap
  <2>8. Buffer!PutNowhere(n)
    BY <1>1, <1>6, <2>1, <2>4, <2>7
       DEF Buffer!PutNowhere, Buffer!Fixed, MappedBuffer, MappedNext, MappedCap
  <2> QED
    BY <2>6, <2>8 DEF Buffer!Next, MappedNext
<1>8. CASE ~(cap <= 0)
  <2>1. drops' = drops /\ call' = [phase |-> "check", todo |-> Batch(n)]
    BY <1>8 DEF Harvest
  <2>2. Rest' = n
    BY <1>3, <2>1, BatchFacts DEF Rest, Num
  <2>3. Upcoming' = Upcoming
    <3>1. Upcoming' = sent' - Rest' + 1
      BY DEF Upcoming, Rest
    <3> QED
      BY <1>1, <1>3, <1>5, <2>2, <3>1
  <2> QED
    BY <1>1, <1>6, <2>1, <2>3, UnseenStutters DEF Unseen
<1> QED
  BY <1>7, <1>8

LEMMA PopMaps ==
    ASSUME QInv, QInv', PopOldest
    PROVE  Buffer!Next
<1>1. /\ call.phase = "pop" /\ queue # <<>> /\ queue' = Tail(queue)
      /\ drops' = drops + 1 /\ call'.todo = call.todo /\ call'.phase = "replace"
      /\ sent' = sent /\ applied' = applied /\ lost' = lost
      /\ cap' = cap /\ online' = online
  BY DEF PopOldest, fixed, QInv, Typed
<1>2. ~Replacing /\ Replacing'
  BY <1>1 DEF Replacing
<1>3. Upcoming' = Upcoming /\ Head(call'.todo) = Upcoming
  BY <1>1, CallFacts DEF Upcoming
<1>4. /\ MappedBuffer = queue /\ MappedNext = Upcoming /\ MappedCap = cap
      /\ MappedBuffer' = Append(Tail(queue), Upcoming) /\ MappedNext' = Upcoming + 1
  BY <1>1, <1>2, <1>3, Mapping, MappingAfter
<1>5. Len(queue) = cap \/ online
  BY <1>1 DEF QInv, Roomy
<1>6. Buffer!PutForOldest
  BY <1>1, <1>4, <1>5
     DEF Buffer!PutForOldest, Buffer!Fixed, MappedBuffer, MappedNext, MappedCap
<1> QED
  BY <1>6 DEF Buffer!Next

LEMMA PopRaisesMaps ==
    ASSUME QInv, QInv', PopRaises
    PROVE  Buffer!Next
<1> DEFINE k == Len(call.todo)
<1>1. /\ call.phase = "pop" /\ queue = <<>> /\ queue' = queue
      /\ lost' = lost \cup {call.todo[i] : i \in 1..k} /\ call' = NoCall
      /\ drops' = drops /\ sent' = sent /\ applied' = applied
      /\ cap' = cap /\ online' = online
  BY DEF PopRaises, fixed
<1>2. ~Replacing /\ ~Replacing'
  BY <1>1 DEF Replacing, NoCall
<1>3. /\ k \in Num /\ Upcoming \in Num /\ cap > 0 /\ cap \in Int /\ sent \in Nat
      /\ \A i \in 1..k : call.todo[i] = Upcoming + i - 1
  BY <1>1, CallFacts, QueueConstants DEF QInv, Typed, Numbered
<1>4. Rest' = 0
  BY <1>1, EmptySeq DEF NoCall, Rest
<1>5. Upcoming = sent - k + 1 /\ Upcoming' = sent + 1
  BY <1>1, <1>3, <1>4 DEF Upcoming, Rest
<1>6. /\ MappedBuffer = queue /\ MappedNext = Upcoming /\ MappedCap = cap
      /\ MappedBuffer' = queue /\ MappedNext' = sent + 1
  BY <1>1, <1>2, <1>5, Mapping, MappingAfter
<1> HIDE DEF k
<1>7. MappedNext' = MappedNext + k
  BY <1>3, <1>5, <1>6 DEF Num
<1>8. {call.todo[i] : i \in 1..k} = MappedNext..MappedNext + k - 1
  <2>1. ASSUME NEW x \in MappedNext..MappedNext + k - 1
        PROVE  \E i \in 1..k : call.todo[i] = x
    <3>1. x - Upcoming + 1 \in 1..k /\ Upcoming + (x - Upcoming + 1) - 1 = x
      BY <1>3, <1>6 DEF Num
    <3> QED
      BY <1>3, <3>1
  <2>2. ASSUME NEW i \in 1..k PROVE call.todo[i] \in MappedNext..MappedNext + k - 1
    <3>1. Upcoming + i - 1 \in Upcoming..Upcoming + k - 1
      BY <1>3 DEF Num
    <3> QED
      BY <1>3, <1>6, <3>1
  <2> QED
    BY <2>1, <2>2
<1>9. online
  <2>1. ~online => Len(queue) = cap
    BY <1>1 DEF QInv, Roomy
  <2>2. Len(queue) = 0
    BY <1>1, EmptySeq
  <2> QED
    BY <1>3, <2>1, <2>2 DEF QInv, Typed
<1>10. k \in 1..MappedNext' - MappedNext
  <2>1. MappedNext \in Nat
    BY <1>3, <1>6 DEF Num
  <2> QED
    BY <1>3, <1>7, <2>1 DEF Num
<1>11. Buffer!PutFails(k)
  BY <1>1, <1>3, <1>6, <1>7, <1>8, <1>9
     DEF Buffer!PutFails, Buffer!Fixed, MappedBuffer, MappedNext, MappedCap
<1> QED
  BY <1>10, <1>11 DEF Buffer!Next, MappedNext

LEMMA AppendMaps ==
    ASSUME QInv, QInv', AppendEvent
    PROVE  Buffer!Next \/ UNCHANGED Buffer!bufferVars
<1>1. /\ call.phase \in {"append", "replace"} /\ drops' = drops
      /\ queue' = Append(queue, Upcoming)
      /\ applied' = applied /\ lost' = lost /\ cap' = cap /\ online' = online
  BY CallFacts DEF AppendEvent, fixed
<1>2. Upcoming' = Upcoming + 1 /\ ~Replacing'
  BY AppendAdvances
<1>3. /\ MappedBuffer' = Append(queue, Upcoming) /\ MappedNext' = Upcoming + 1
  BY <1>1, <1>2, MappingAfter
<1>4. CASE call.phase = "replace"
  BY <1>1, <1>3, <1>4, Mapping, UnseenStutters DEF Unseen, Replacing
<1>5. CASE call.phase = "append"
  <2>1. MappedBuffer = queue /\ MappedNext = Upcoming /\ MappedCap = cap
    BY <1>5, Mapping DEF Replacing
  <2>2. Len(queue) < cap
    BY <1>5 DEF QInv, Roomy
  <2>3. Buffer!Put
    BY <1>1, <1>3, <2>1, <2>2
       DEF Buffer!Put, Buffer!Fixed, MappedBuffer, MappedNext, MappedCap
  <2> QED
    BY <2>3 DEF Buffer!Next
<1> QED
  BY <1>1, <1>4, <1>5

LEMMA TakeMaps ==
    ASSUME QInv, QInv', TakeOldest
    PROVE  Buffer!Next
<1>1. /\ queue # <<>> /\ queue' = Tail(queue) /\ applied' = Append(applied, Head(queue))
      /\ call' = call /\ sent' = sent /\ drops' = drops /\ lost' = lost
      /\ cap' = cap /\ online' = online /\ queue \in Seq(Num)
  BY DEF TakeOldest, fixed, QInv, Typed
<1>2. MappedNext' = MappedNext
  BY <1>1 DEF MappedNext, Replacing
<1>3. MappedBuffer # <<>> /\ Head(MappedBuffer) = Head(queue)
      /\ Tail(MappedBuffer) = MappedBuffer'
  <2>1. CASE Replacing
    <3>1. MappedBuffer = Append(queue, Upcoming) /\ Upcoming \in Num
      BY <2>1, Mapping
    <3>2. MappedBuffer' = Append(Tail(queue), Upcoming)
      <4>1. Head(call.todo) = Upcoming
        BY <2>1, CallFacts DEF Replacing
      <4> QED
        BY <1>1, <2>1, <4>1 DEF MappedBuffer, Replacing
    <3>3. /\ Head(Append(queue, Upcoming)) = Head(queue)
          /\ Tail(Append(queue, Upcoming)) = Append(Tail(queue), Upcoming)
      BY <1>1, HeadTailAppend
    <3> QED
      BY <1>1, <3>1, <3>2, <3>3, AppendFacts
  <2>2. CASE ~Replacing
    BY <1>1, <2>2 DEF MappedBuffer, Replacing
  <2> QED
    BY <2>1, <2>2
<1>4. Buffer!Take
  BY <1>1, <1>2, <1>3 DEF Buffer!Take, Buffer!Fixed, MappedBuffer, MappedNext, MappedCap
<1> QED
  BY <1>4 DEF Buffer!Next

LEMMA NextMaps ==
    QInv /\ QInv' /\ [Next]_vars => [Buffer!Next]_(Buffer!bufferVars)
<1> SUFFICES ASSUME QInv, QInv', [Next]_vars
             PROVE  Buffer!Next \/ UNCHANGED Buffer!bufferVars
  OBVIOUS
<1>1. ASSUME NEW n \in 1..BatchMax, Harvest(n)
      PROVE  Buffer!Next \/ UNCHANGED Buffer!bufferVars
  BY <1>1, HarvestMaps
<1>2. CASE CheckRoom
  <2>1. /\ call.phase = "check" /\ call'.todo = call.todo
        /\ call'.phase \in {"pop", "append"} /\ queue' = queue /\ sent' = sent
        /\ UNCHANGED <<drops, lost, applied, cap, online>>
    BY <1>2 DEF CheckRoom, fixed, QInv, Typed
  <2>2. ~Replacing /\ ~Replacing' /\ Upcoming' = Upcoming
    BY <2>1 DEF Replacing, Upcoming
  <2> QED
    BY <2>1, <2>2, Mapping, MappingAfter, UnseenStutters DEF Unseen
<1>3. CASE PopOldest
  BY <1>3, PopMaps
<1>4. CASE PopRaises
  BY <1>4, PopRaisesMaps
<1>5. CASE AppendEvent
  BY <1>5, AppendMaps
<1>6. ASSUME NEW limit \in DrainLimits, StartDrain(limit)
      PROVE  UNCHANGED Buffer!bufferVars
  BY <1>6 DEF StartDrain, fixed, Buffer!bufferVars, Replacing
<1>7. CASE TestQueue \/ TakeRaises
  BY <1>7 DEF TestQueue, TakeRaises, fixed, Buffer!bufferVars, Replacing
<1>8. CASE TakeOldest
  BY <1>8, TakeMaps
<1>9. CASE UNCHANGED vars
  BY <1>9 DEF vars, Buffer!bufferVars, Replacing
<1> QED
  BY <1>1, <1>2, <1>3, <1>4, <1>5, <1>6, <1>7, <1>8, <1>9
     DEF Next, HarvestStep, DrainStep

\* The steps of the two calls on the deque, one by one and interleaved, are
\* those of an atomic buffer that gives up its oldest outcome and counts it.
THEOREM QueueIsBuffer == Spec => ImplementsBuffer
<1>1. Init => Buffer!Init
  <2> SUFFICES ASSUME Init PROVE Buffer!Init
    OBVIOUS
  <2>1. Len(call.todo) = 0
    BY EmptySeq DEF Init, NoCall
  <2>2. cap \in Int /\ online \in BOOLEAN
    BY QueueConstants DEF Init
  <2> QED
    BY <2>1, <2>2 DEF Init, NoCall, Replacing, Buffer!Init
<1> QED
  BY <1>1, NextMaps, QInvInvariant, PTL DEF Spec, ImplementsBuffer, Buffer!Spec
=============================================================================
