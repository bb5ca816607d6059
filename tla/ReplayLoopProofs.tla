---------------------------- MODULE ReplayLoopProofs ----------------------------
(***************************************************************************)
(* Theorems about ReplayLoop, for all values of its constants: the safety  *)
(* properties its run checks.                                              *)
(*                                                                         *)
(* ReplayInv is the inductive invariant; the theorems on rows, keys and    *)
(* edits strengthen it by RowsSound, KeysSound and EditsSound.  What the   *)
(* model computes by recursive functions (verification, the rows and keys  *)
(* of an outcome, the tokens of many requests) is proved by induction over *)
(* the range of the function: the library's induction over numbers, which  *)
(* takes an operator, is replaced by LEMMA Induction, which takes a set.   *)
(***************************************************************************)
EXTENDS ReplayLoop, SequenceTheorems, FiniteSetTheorems, WellFoundedInduction, TLAPS

-----------------------------------------------------------------------------
(* Induction over numbers, and functions defined by recursion.             *)

\* A set of numbers that is not empty has a least one.
LEMMA LeastNumber ==
    ASSUME NEW S \in SUBSET Nat, S # {}
    PROVE  \E m \in S : \A n \in S : m <= n
<1>1. \E m \in S : \A n \in S : ~ (<<n, m>> \in OpToRel(<, Nat))
  BY WFMin, NatLessThanWellFounded
<1>2. \A m, n \in Nat : n < m => <<n, m>> \in OpToRel(<, Nat)
  BY DEF OpToRel
<1>3. \A m, n \in Nat : ~ (n < m) => m <= n
  OBVIOUS
<1> QED
  BY <1>1, <1>2, <1>3

\* Induction up to a number.
LEMMA Induction ==
    ASSUME NEW n \in Nat, NEW S, 0 \in S, \A i \in 0..n - 1 : i \in S => i + 1 \in S
    PROVE  0..n \subseteq S
<1> SUFFICES ASSUME (0..n) \ S # {} PROVE FALSE
  OBVIOUS
<1> DEFINE M == (0..n) \ S
<1>1. PICK m \in M : \A k \in M : m <= k
  <2>1. M \in SUBSET Nat /\ M # {}
    OBVIOUS
  <2> HIDE DEF M
  <2> QED
    BY <2>1, LeastNumber
<1>2. m # 0 /\ m - 1 \in 0..n - 1 /\ m - 1 \in 0..n
  OBVIOUS
<1>3. m - 1 \in S
  BY <1>1, <1>2
<1>4. (m - 1) + 1 \in S
  BY <1>2, <1>3
<1> QED
  BY <1>1, <1>4

\* A function from numbers to V whose value at i is made of i and of its value
\* at the number from[i].
Closed(G, n, V)  == \A v \in V : \A i \in 1..n : G[<<v, i>>] \in V
Earlier(from, n) == \A i \in 1..n : from[i] \in 0..i - 1
Unrolled(f, n, V, a, from, G) ==
    /\ f \in [0..n -> V] /\ f[0] = a
    /\ \A i \in 1..n : f[i] = G[<<f[from[i]], i>>]

\* Such a function exists.
LEMMA Recursion ==
    ASSUME NEW n \in Nat, NEW V, NEW a \in V, NEW from, Earlier(from, n),
           NEW G, Closed(G, n, V)
    PROVE  \E f : Unrolled(f, n, V, a, from, G)
<1> USE DEF Closed, Earlier
<1> DEFINE Good(k, f) == /\ f \in [0..k -> V] /\ f[0] = a
                         /\ \A i \in 1..k : f[i] = G[<<f[from[i]], i>>]
           S == {k \in 0..n : \E f : Good(k, f)}
<1>1. 0 \in S
  <2> DEFINE f == [i \in 0..0 |-> a]
  <2>1. Good(0, f)
    OBVIOUS
  <2> HIDE DEF f, Good
  <2> QED
    BY <2>1
<1>2. ASSUME NEW k \in 0..n - 1, k \in S PROVE k + 1 \in S
  <2>1. PICK f : Good(k, f)
    BY <1>2
  <2> DEFINE last == G[<<f[from[k + 1]], k + 1>>]
             g    == [i \in 0..k + 1 |-> IF i = k + 1 THEN last ELSE f[i]]
  <2>2. k + 1 \in 1..n /\ from[k + 1] \in 0..k
    OBVIOUS
  <2>3. last \in V
    BY <2>1, <2>2
  <2>4. g \in [0..k + 1 -> V]
    BY <2>1, <2>3
  <2>5. \A i \in 0..k : g[i] = f[i]
    OBVIOUS
  <2>6. ASSUME NEW i \in 1..k + 1 PROVE g[i] = G[<<g[from[i]], i>>]
    <3>1. i \in 1..n /\ from[i] \in 0..k
      OBVIOUS
    <3>2. g[from[i]] = f[from[i]]
      BY <3>1, <2>5
    <3>3. g[i] = G[<<f[from[i]], i>>]
      <4>1. CASE i = k + 1
        BY <4>1
      <4>2. CASE i # k + 1
        BY <4>2, <2>1, <2>5
      <4> QED
        BY <4>1, <4>2
    <3> QED
      BY <3>2, <3>3
  <2>7. g[0] = a
    BY <2>1, <2>5
  <2>8. Good(k + 1, g)
    <3> HIDE DEF g
    <3> QED
      BY <2>4, <2>6, <2>7
  <2> HIDE DEF g, Good
  <2> QED
    BY <2>2, <2>8
<1>3. n \in S
  <2> HIDE DEF S
  <2>1. 0..n \subseteq S
    BY <1>1, <1>2, Induction
  <2> QED
    BY <2>1
<1>4. PICK f : Good(n, f)
  BY <1>3
<1> QED
  BY <1>4 DEF Unrolled

\* The usual case: from one number to the next.
Iterated(f, n, V, a, G) ==
    /\ f \in [0..n -> V] /\ f[0] = a
    /\ \A i \in 1..n : f[i] = G[<<f[i - 1], i>>]

\* A function defined from one number to the next.
LEMMA SimpleRecursion ==
    ASSUME NEW n \in Nat, NEW V, NEW a \in V, NEW G, Closed(G, n, V)
    PROVE  \E f : Iterated(f, n, V, a, G)
<1> DEFINE from == [i \in 1..n |-> i - 1]
<1>1. Earlier(from, n)
  BY DEF Earlier
<1>2. \A i \in 1..n : from[i] = i - 1
  OBVIOUS
<1> HIDE DEF from
<1>3. PICK f : Unrolled(f, n, V, a, from, G)
  BY <1>1, Recursion
<1>4. f \in [0..n -> V] /\ f[0] = a /\ \A i \in 1..n : f[i] = G[<<f[from[i]], i>>]
  BY <1>3 DEF Unrolled
<1>5. \A i \in 1..n : f[i] = G[<<f[i - 1], i>>]
  BY <1>2, <1>4
<1>6. Iterated(f, n, V, a, G)
  BY <1>4, <1>5 DEF Iterated
<1> QED
  BY <1>6

-----------------------------------------------------------------------------
(* Draft trees and their verification.                                     *)

\* A set of numbers from 1 on, without a gap, holds all up to its size.
LEMMA WithoutGap ==
    ASSUME NEW m \in Nat, NEW S \in SUBSET (1..m),
           \A d \in S : d # 1 => d - 1 \in S
    PROVE  Cardinality(S) \in 0..m /\ S = 1..Cardinality(S)
<1> DEFINE out == (0..m + 1) \ (S \cup {0})
<1>1. PICK b \in out : \A d \in out : b <= d
  <2>1. out \in SUBSET Nat /\ m + 1 \in out
    OBVIOUS
  <2> HIDE DEF out
  <2> QED
    BY <2>1, LeastNumber
<1> DEFINE a == b - 1
<1>2. b \in 1..m + 1 /\ a \in 0..m /\ b = a + 1
  OBVIOUS
<1>3. 1..a \subseteq S
  <2> SUFFICES ASSUME NEW d \in 1..a PROVE d \in S
    OBVIOUS
  <2>1. d \notin out
    BY <1>1, <1>2
  <2> QED
    BY <2>1, <1>2
<1>4. ASSUME NEW d \in S, d > a PROVE FALSE
  <2> DEFINE T == {i \in 0..d - a - 1 : d - i \in S}
  <2>0. a \in Nat /\ d \in Nat /\ d - a - 1 \in Nat
    BY <1>2, <1>4
  <2>1. 0 \in T
    BY <2>0
  <2>2. ASSUME NEW i \in 0..(d - a - 1) - 1, i \in T PROVE i + 1 \in T
    <3>1. d - i \in S /\ d - i # 1
      BY <2>2, <2>0
    <3>2. d - i - 1 \in S
      BY <3>1
    <3> QED
      BY <3>2, <2>0
  <2>3. d - a - 1 \in T
    <3> HIDE DEF T
    <3>1. 0..(d - a - 1) \subseteq T
      BY <2>0, <2>1, <2>2, Induction
    <3> QED
      BY <3>1, <2>0
  <2>4. d - (d - a - 1) = b
    BY <2>0, <1>2
  <2>5. b \in S
    BY <2>3, <2>4
  <2> QED
    BY <2>5
<1>5. S = 1..a
  <2>1. \A d \in S : d \in 1..a
    BY <1>2, <1>4
  <2> QED
    BY <2>1, <1>3
<1>6. Cardinality(1..a) = a
  BY <1>2, FS_Interval
<1> QED
  BY <1>2, <1>5, <1>6

\* First is what it says.
LEMMA FirstFacts ==
    ASSUME NEW S \in SUBSET Nat, S # {}
    PROVE  First(S) \in S /\ \A i \in S : First(S) <= i
BY LeastNumber DEF First

Nodes == [tok : Tokens, parent : Nat]

\* The parent of a node comes before it.
GoodTree(t) == t \in Seq(Nodes) /\ \A i \in 1..Len(t) : t[i].parent < i

\* The depth a walk is defined to.
Reach(t, truth) == Lesser(Len(t), Len(truth))

\* How far a tree and a truth could agree at most.
LEMMA ReachFacts ==
    ASSUME NEW t, GoodTree(t), NEW truth \in Seq(Tokens)
    PROVE  /\ Len(t) \in Nat /\ Len(truth) \in Nat /\ Reach(t, truth) \in Nat
           /\ Reach(t, truth) <= Len(t) /\ Reach(t, truth) <= Len(truth)
           /\ Reach(t, truth) = Len(t) \/ Reach(t, truth) = Len(truth)
           /\ PathLengths(t, truth) = 0..Reach(t, truth)
<1>1. Len(t) \in Nat /\ Len(truth) \in Nat
  BY LenProperties DEF GoodTree
<1>2. /\ Reach(t, truth) \in Nat
      /\ Reach(t, truth) <= Len(t) /\ Reach(t, truth) <= Len(truth)
      /\ Reach(t, truth) = Len(t) \/ Reach(t, truth) = Len(truth)
  BY <1>1 DEF Reach, Lesser
<1>3. PathLengths(t, truth) = 0..Reach(t, truth)
  <2> HIDE DEF Reach
  <2> DEFINE l == Len(t)
             n == Len(truth)
             m == Reach(t, truth)
  <2>1. l \in Nat /\ n \in Nat /\ m \in Nat /\ m <= l /\ m <= n /\ (m = l \/ m = n)
    BY <1>1, <1>2
  <2> HIDE DEF l, n, m
  <2>2. {d \in 0..l : d <= n} = 0..m
    BY <2>1
  <2> QED
    BY <2>2 DEF PathLengths, l, n, m
<1> QED
  BY <1>1, <1>2, <1>3

\* One step of the walk: the first of the children that match.
Hop(t, truth, last, d) ==
    LET hits == IF last = -1 THEN {} ELSE Matching(t, last, truth, d - 1)
    IN  IF hits = {} THEN -1 ELSE First(hits)

\* The nodes that carry the next token of the truth are children, and lie
\* behind their parent.
LEMMA MatchingFacts ==
    ASSUME NEW t, GoodTree(t), NEW truth \in Seq(Tokens), NEW n \in Nat, NEW d \in Nat
    PROVE  /\ Matching(t, n, truth, d) \subseteq 1..Len(t)
           /\ \A i \in Matching(t, n, truth, d) :
                 /\ i > n /\ t[i].parent = n
                 /\ d < Len(truth) /\ t[i].tok = truth[d + 1]
           /\ d < Len(truth) =>
                 \A i \in 1..Len(t) : t[i].parent = n /\ t[i].tok = truth[d + 1]
                                        => i \in Matching(t, n, truth, d)
<1>1. Len(t) \in Nat /\ \A i \in 1..Len(t) : t[i].parent < i
  BY LenProperties DEF GoodTree
<1>2. ASSUME NEW i \in 1..Len(t), t[i].parent = n PROVE i > n
  BY <1>1, <1>2
<1> QED
  BY <1>2 DEF Matching, Children

\* A step of verification goes to the first child that matches, or ends.
LEMMA HopFacts ==
    ASSUME NEW t, GoodTree(t), NEW truth \in Seq(Tokens),
           NEW last \in -1..Len(t), NEW d \in 1..Reach(t, truth)
    PROVE  LET next == Hop(t, truth, last, d)
               hits == Matching(t, last, truth, d - 1)
           IN  /\ next \in -1..Len(t)
               /\ next # -1 => /\ last # -1 /\ next \in hits /\ next > last
                               /\ \A i \in hits : next <= i
               /\ next = -1 => last = -1 \/ hits = {}
<1> DEFINE hits == Matching(t, last, truth, d - 1)
<1>1. Len(t) \in Nat /\ d - 1 \in Nat
  BY ReachFacts
<1>2. CASE last = -1
  BY <1>2 DEF Hop
<1>3. CASE last # -1 /\ hits = {}
  BY <1>3 DEF Hop
<1>4. CASE last # -1 /\ hits # {}
  <2>1. last \in Nat
    BY <1>1, <1>4
  <2>2. hits \subseteq 1..Len(t) /\ \A i \in hits : i > last
    BY <1>1, <2>1, MatchingFacts
  <2> HIDE DEF hits
  <2>3. First(hits) \in hits /\ \A i \in hits : First(hits) <= i
    BY <1>4, <2>2, FirstFacts
  <2>4. Hop(t, truth, last, d) = First(hits)
    BY <1>4 DEF Hop, hits
  <2>5. First(hits) \in 1..Len(t) /\ First(hits) > last
    BY <2>2, <2>3
  <2>6. First(hits) \in -1..Len(t) /\ First(hits) # -1
    BY <1>1, <2>5
  <2> QED
    BY <1>4, <2>3, <2>4, <2>5, <2>6 DEF hits
<1> QED
  BY <1>2, <1>3, <1>4

\* The walk goes hop by hop.
LEMMA WalkFacts ==
    ASSUME NEW t, GoodTree(t), NEW truth \in Seq(Tokens)
    PROVE  LET W == Walk(t, truth)
           IN  /\ W \in [0..Reach(t, truth) -> -1..Len(t)] /\ W[0] = 0
               /\ \A d \in 1..Reach(t, truth) : W[d] = Hop(t, truth, W[d - 1], d)
<1> DEFINE m == Reach(t, truth)
           V == -1..Len(t)
           G == [x \in V \X (1..m) |-> Hop(t, truth, x[1], x[2])]
           Body(f) == [d \in 0..m |-> IF d = 0 THEN 0 ELSE Hop(t, truth, f[d - 1], d)]
<1>1. /\ Len(t) \in Nat /\ m \in Nat /\ PathLengths(t, truth) = 0..m
      /\ 0 \in V
  BY ReachFacts
<1>2. ASSUME NEW v \in V, NEW i \in 1..m PROVE G[<<v, i>>] \in V
  <2>1. Hop(t, truth, v, i) \in V
    BY HopFacts
  <2> QED
    BY <2>1
<1>3. Closed(G, m, V)
  BY <1>2 DEF Closed
<1>4. \A v \in V : \A i \in 1..m : G[<<v, i>>] = Hop(t, truth, v, i)
  OBVIOUS
<1>5. Walk(t, truth) = CHOOSE f : f = Body(f)
  BY <1>1 DEF Walk, Hop
<1> HIDE DEF G, m, V
<1>6. PICK f : /\ f \in [0..m -> V] /\ f[0] = 0
               /\ \A i \in 1..m : f[i] = G[<<f[i - 1], i>>]
  <2>1. m \in Nat /\ 0 \in V /\ Closed(G, m, V)
    BY <1>1, <1>3
  <2>2. PICK g : Iterated(g, m, V, 0, G)
    BY <2>1, SimpleRecursion
  <2> QED
    BY <2>2 DEF Iterated
<1>7. \A i \in 1..m : f[i] = Hop(t, truth, f[i - 1], i)
  <2> SUFFICES ASSUME NEW i \in 1..m PROVE f[i] = Hop(t, truth, f[i - 1], i)
    OBVIOUS
  <2>1. f[i - 1] \in V
    BY <1>1, <1>6
  <2> QED
    BY <2>1, <1>4, <1>6
<1>8. f = Body(f)
  BY <1>6, <1>7
<1> DEFINE W == Walk(t, truth)
<1>9. W = Body(W)
  <2> HIDE DEF Body
  <2> QED
    BY <1>5, <1>8
<1>10. W[0] = 0 /\ \A i \in 1..m : W[i] = Hop(t, truth, W[i - 1], i)
  <2> HIDE DEF W
  <2> QED
    BY <1>1, <1>9
<1>11. 0..m \subseteq {d \in 0..m : W[d] \in V}
  <2> HIDE DEF W
  <2> DEFINE S == {d \in 0..m : W[d] \in V}
  <2>1. 0 \in S
    BY <1>1, <1>10
  <2>2. ASSUME NEW i \in 0..m - 1, i \in S PROVE i + 1 \in S
    <3>1. W[i + 1] = Hop(t, truth, W[i], i + 1) /\ i + 1 \in 1..m
      BY <1>1, <1>10
    <3>2. Hop(t, truth, W[i], i + 1) \in V
      BY <2>2, <3>1, HopFacts DEF V, m
    <3> QED
      BY <1>1, <3>1, <3>2
  <2> HIDE DEF S
  <2> QED
    BY <1>1, <2>1, <2>2, Induction DEF S
<1>12. W \in [0..m -> V]
  <2> HIDE DEF W
  <2> QED
    BY <1>9, <1>11
<1> QED
  BY <1>10, <1>12 DEF m, V

\* The walk reaches AcceptedLen nodes, each a child of the one before it that
\* matches, and the first of these; then it has ended.
LEMMA AcceptedFacts ==
    ASSUME NEW t, GoodTree(t), NEW truth \in Seq(Tokens)
    PROVE  LET W == Walk(t, truth)
               a == AcceptedLen(t, truth)
           IN  /\ a \in 0..Reach(t, truth)
               /\ W[0] = 0
               /\ \A d \in 0..a : W[d] \in d..Len(t)
               /\ \A d \in 1..a : W[d] \in Matching(t, W[d - 1], truth, d - 1)
               /\ \A d \in 0..Reach(t, truth) : W[d] # -1 <=> d <= a
               /\ a < Reach(t, truth) => Matching(t, W[a], truth, a) = {}
<1> DEFINE W == Walk(t, truth)
           m == Reach(t, truth)
           S == {d \in 1..m : W[d] # -1}
           a == AcceptedLen(t, truth)
<1>1. /\ W \in [0..m -> -1..Len(t)] /\ W[0] = 0
      /\ \A d \in 1..m : W[d] = Hop(t, truth, W[d - 1], d)
  BY WalkFacts
<1>2. Len(t) \in Nat /\ m \in Nat /\ PathLengths(t, truth) = 0..m
  BY ReachFacts
<1>3. a = Cardinality(S)
  <2>1. {d \in PathLengths(t, truth) \ {0} : W[d] # -1} = S
    BY <1>2
  <2> QED
    BY <2>1 DEF AcceptedLen
<1>4. ASSUME NEW d \in 1..m
      PROVE  /\ W[d] \in -1..Len(t) /\ W[d - 1] \in -1..Len(t)
             /\ W[d] # -1 => /\ W[d - 1] # -1 /\ W[d] > W[d - 1]
                             /\ W[d] \in Matching(t, W[d - 1], truth, d - 1)
             /\ W[d] = -1 => W[d - 1] = -1 \/ Matching(t, W[d - 1], truth, d - 1) = {}
  <2>1. W[d] \in -1..Len(t) /\ W[d - 1] \in -1..Len(t) /\ W[d] = Hop(t, truth, W[d - 1], d)
    BY <1>1, <1>2
  <2> HIDE DEF W, m
  <2> QED
    BY <2>1, HopFacts DEF m
<1> HIDE DEF W, m
<1>5. \A d \in S : d # 1 => d - 1 \in S
  BY <1>2, <1>4
<1>6. a \in 0..m /\ S = 1..a
  <2>1. S \in SUBSET (1..m)
    OBVIOUS
  <2> HIDE DEF S, a
  <2> QED
    BY <1>2, <1>3, <1>5, <2>1, WithoutGap
<1>7. \A d \in 0..m : W[d] # -1 <=> d <= a
  <2> SUFFICES ASSUME NEW d \in 0..m PROVE W[d] # -1 <=> d <= a
    OBVIOUS
  <2>1. CASE d = 0
    BY <2>1, <1>1, <1>6
  <2>2. CASE d # 0
    <3>1. d \in 1..m
      BY <1>2, <2>2
    <3>2. W[d] # -1 <=> d \in 1..a
      BY <1>6, <3>1
    <3> QED
      BY <3>1, <3>2, <1>6
  <2> QED
    BY <2>1, <2>2
<1>8. \A d \in 1..a : W[d] \in Matching(t, W[d - 1], truth, d - 1)
  BY <1>2, <1>4, <1>6, <1>7
<1>9. \A d \in 0..a : W[d] \in d..Len(t)
  <2> DEFINE T == {d \in 0..a : W[d] \in d..Len(t)}
  <2>1. 0 \in T
    BY <1>1, <1>2, <1>6
  <2>2. ASSUME NEW d \in 0..a - 1, d \in T PROVE d + 1 \in T
    <3>1. d + 1 \in 1..m /\ d + 1 \in 0..a /\ (d + 1) - 1 = d
      BY <1>2, <1>6
    <3>2. W[d + 1] # -1
      BY <1>2, <1>6, <1>7, <3>1
    <3>3. W[d + 1] > W[d] /\ W[d + 1] \in -1..Len(t)
      BY <3>1, <3>2, <1>4
    <3>4. W[d] \in d..Len(t)
      BY <2>2
    <3>5. W[d + 1] \in d + 1..Len(t)
      BY <3>3, <3>4
    <3> QED
      BY <3>1, <3>5
  <2> HIDE DEF T, a
  <2>3. 0..a \subseteq T
    <3>1. \A d \in 0..a - 1 : d \in T => d + 1 \in T
      BY <2>2
    <3>2. a \in Nat
      BY <1>6
    <3> QED
      BY <2>1, <3>1, <3>2, Induction
  <2> QED
    BY <2>3 DEF T
<1>10. a < m => Matching(t, W[a], truth, a) = {}
  <2> SUFFICES ASSUME a < m PROVE Matching(t, W[a], truth, a) = {}
    OBVIOUS
  <2>1. a + 1 \in 1..m /\ (a + 1) - 1 = a /\ a \in 0..m
    BY <1>2, <1>6
  <2>2. W[a + 1] = -1 /\ W[a] # -1
    BY <2>1, <1>2, <1>6, <1>7
  <2> QED
    BY <2>1, <2>2, <1>4
<1> HIDE DEF S, a
<1> QED
  BY <1>1, <1>6, <1>7, <1>8, <1>9, <1>10 DEF W, m, a

\* The token turned down is none the truth goes on with.
LEMMA RejectedFacts ==
    ASSUME NEW t, GoodTree(t), NEW truth \in Seq(Tokens)
    PROVE  LET a   == AcceptedLen(t, truth)
               rej == RejectedTok(t, truth)
           IN  /\ rej \in Tokens \cup {NoTok}
               /\ a < Len(truth) /\ rej # NoTok => rej # truth[a + 1]
<1> DEFINE a    == AcceptedLen(t, truth)
           n    == Walk(t, truth)[a]
           kids == Children(t, n)
           rej  == RejectedTok(t, truth)
<1>1. /\ a \in 0..Reach(t, truth) /\ n \in a..Len(t)
      /\ a < Reach(t, truth) => Matching(t, n, truth, a) = {}
  <2>1. a \in 0..Reach(t, truth) /\ \A d \in 0..a : Walk(t, truth)[d] \in d..Len(t)
    BY AcceptedFacts
  <2>2. Reach(t, truth) \in Nat
    BY ReachFacts
  <2> QED
    BY <2>1, <2>2, AcceptedFacts
<1>2. /\ Len(t) \in Nat /\ Len(truth) \in Nat /\ Reach(t, truth) \in Nat
      /\ Reach(t, truth) = Len(t) \/ Reach(t, truth) = Len(truth)
  BY ReachFacts
<1>3. kids \subseteq 1..Len(t) /\ \A i \in kids : i > n /\ t[i].parent = n
  BY <1>1, <1>2 DEF Children, GoodTree
<1>4. rej = IF kids = {} THEN NoTok ELSE t[First(kids)].tok
  BY DEF RejectedTok
<1>5. CASE kids = {}
  BY <1>5, <1>4
<1>6. CASE kids # {}
  <2> DEFINE i == First(kids)
  <2>1. i \in kids
    <3> HIDE DEF kids
    <3>1. kids \in SUBSET Nat
      BY <1>3
    <3> QED
      BY <3>1, <1>6, FirstFacts
  <2>2. rej = t[i].tok
    BY <1>4, <1>6
  <2>3. i \in 1..Len(t) /\ i > n /\ t[i].parent = n
    BY <1>3, <2>1
  <2>4. t[i] \in Nodes
    BY <2>3, ElementOfSeq DEF GoodTree
  <2>5. rej \in Tokens
    BY <2>2, <2>4 DEF Nodes
  <2>6. ASSUME a < Len(truth) PROVE rej # truth[a + 1]
    <3>1. a < Reach(t, truth)
      BY <1>1, <1>2, <2>3, <2>6
    <3>2. Matching(t, n, truth, a) = {} /\ n \in Nat /\ a \in Nat
      BY <1>1, <1>2, <3>1
    <3> HIDE DEF i, n, a, rej, kids
    <3>3. t[i].tok # truth[a + 1]
      BY <2>3, <2>6, <3>2, MatchingFacts
    <3> QED
      BY <2>2, <3>3
  <2> HIDE DEF rej, a
  <2> QED
    BY <2>5, <2>6 DEF rej, a
<1> QED
  BY <1>5, <1>6

-----------------------------------------------------------------------------
(* The outcome of a step.                                                  *)

\* A row of ids and the row of log-probabilities at the same place.
MatchingRows ==
    {x \in Seq(Tokens) \X Seq(0..QMax) : Len(x[1]) = 0 \/ Len(x[2]) \in {0, Len(x[1])}}

\* A request has a row of ids, one of log-probabilities and a segment for each
\* of its tokens.
IsRequest(q) ==
    /\ q.scope.tenant \in Tenants /\ RepoId(q.scope) \in Repos
    /\ ScopeStack(q.scope) \in [0..2 -> ScopeIds]
    /\ q.toks \in Seq(Tokens) /\ q.ids \in Seq(Seq(Tokens))
    /\ q.qs \in Seq(Seq(0..QMax)) /\ q.seg \in Seq(Segments)
    /\ Len(q.ids) = Len(q.toks) /\ Len(q.qs) = Len(q.toks) /\ Len(q.seg) = Len(q.toks)
    /\ \A i \in 1..Len(q.ids) : <<q.ids[i], q.qs[i]>> \in MatchingRows
    /\ q.events \in Seq([pos : Nat, bump : Nat, file : Domains])

RequestsTyped ==
    /\ Len(reqs) \in Nat /\ DOMAIN reqs = 1..Len(reqs)
    /\ \A i \in 1..Len(reqs) : IsRequest(reqs[i])
    /\ kind \in Kinds

\* There is a draft, and a token to verify it against.
Drafting ==
    /\ RequestsTyped /\ GoodTree(tree)
    /\ r \in 1..Len(reqs) /\ p \in Nat /\ p < N

\* A part of a sequence.
LEMMA PartFacts ==
    ASSUME NEW S, NEW s \in Seq(S), NEW m \in Nat, NEW n \in Nat, m <= n, n <= Len(s)
    PROVE  /\ SubSeq(s, m + 1, n) \in Seq(S)
           /\ Len(SubSeq(s, m + 1, n)) = n - m
           /\ \A i \in 1..n - m : SubSeq(s, m + 1, n)[i] = s[m + i]
<1>1. \A i \in m + 1..n : s[i] \in S
  BY LenProperties, ElementOfSeq
<1>2. /\ SubSeq(s, m + 1, n) \in Seq(S)
      /\ Len(SubSeq(s, m + 1, n)) = IF m + 1 <= n THEN n - (m + 1) + 1 ELSE 0
      /\ \A i \in 1..n - (m + 1) + 1 : SubSeq(s, m + 1, n)[i] = s[m + 1 + i - 1]
  BY <1>1, SubSeqProperties
<1>3. (IF m + 1 <= n THEN n - (m + 1) + 1 ELSE 0) = n - m
  OBVIOUS
<1>4. ASSUME NEW i \in 1..n - m PROVE SubSeq(s, m + 1, n)[i] = s[m + i]
  <2>1. i \in 1..n - (m + 1) + 1 /\ m + 1 + i - 1 = m + i
    OBVIOUS
  <2> QED
    BY <2>1, <1>2
<1>5. Len(SubSeq(s, m + 1, n)) = n - m
  BY <1>2, <1>3
<1> QED
  BY <1>2, <1>4, <1>5

\* A function on 1..n is a sequence of length n.
LEMMA TupleIsSeq ==
    ASSUME NEW S, NEW n \in Nat, NEW f \in [1..n -> S]
    PROVE  f \in Seq(S) /\ Len(f) = n
<1>1. f \in Seq(S)
  BY SeqDef
<1>2. DOMAIN f = 1..n
  OBVIOUS
<1>3. Len(f) \in Nat /\ DOMAIN f = 1..Len(f)
  BY <1>1, LenProperties
<1>4. Len(f) = n
  <2> DEFINE l == Len(f)
  <2>1. l \in Nat /\ 1..l = 1..n
    BY <1>2, <1>3
  <2> HIDE DEF l
  <2>2. l = n
    <3>1. l <= n
      <4>1. CASE l = 0
        BY <4>1
      <4>2. CASE l # 0
        <5>1. l \in 1..l
          BY <2>1, <4>2
        <5> QED
          BY <2>1, <5>1
      <4> QED
        BY <4>1, <4>2
    <3>2. n <= l
      <4>1. CASE n = 0
        BY <2>1, <4>1
      <4>2. CASE n # 0
        <5>1. n \in 1..n
          BY <4>2
        <5> QED
          BY <2>1, <5>1
      <4> QED
        BY <4>1, <4>2
    <3> QED
      BY <2>1, <3>1, <3>2
  <2> QED
    BY <2>2 DEF l
<1> QED
  BY <1>1, <1>4

\* The request replayed is whole, and the replay is before its end.
LEMMA RequestFacts ==
    ASSUME Drafting
    PROVE  /\ N \in Nat \ {0} /\ N = Len(req.toks) /\ p \in 0..N - 1
           /\ req.toks \in Seq(Tokens) /\ req.ids \in Seq(Seq(Tokens))
           /\ req.qs \in Seq(Seq(0..QMax)) /\ req.seg \in Seq(Segments)
           /\ Len(req.ids) = N /\ Len(req.qs) = N /\ Len(req.seg) = N
           /\ \A i \in 1..N : <<req.ids[i], req.qs[i]>> \in MatchingRows
           /\ req.events \in Seq([pos : Nat, bump : Nat, file : Domains])
           /\ req.scope.tenant \in Tenants /\ RepoId(req.scope) \in Repos
           /\ ScopeStack(req.scope) \in [0..2 -> ScopeIds]
<1>1. IsRequest(req)
  BY DEF Drafting, RequestsTyped, req
<1>2. N \in Nat
  BY <1>1, LenProperties DEF IsRequest, N
<1> QED
  BY <1>1, <1>2 DEF IsRequest, Drafting, N

\* The verdict leaves a token of the request for the bonus, and what it turned
\* down is not that token.
LEMMA VerdictFacts ==
    ASSUME Drafting
    PROVE  /\ Verdict.acc \in 0..N - p - 1
           /\ Verdict.rej \in Tokens \cup {NoTok}
           /\ Verdict.rej # NoTok => Verdict.rej # req.toks[p + Verdict.acc + 1]
<1> DEFINE ahead == SubSeq(req.toks, p + 1, N)
           a     == AcceptedLen(tree, ahead)
           rej   == RejectedTok(tree, ahead)
<1>1. N \in Nat /\ p \in 0..N - 1 /\ req.toks \in Seq(Tokens) /\ N = Len(req.toks)
  BY RequestFacts
<1>2. /\ ahead \in Seq(Tokens) /\ Len(ahead) = N - p
      /\ \A i \in 1..N - p : ahead[i] = req.toks[p + i]
  <2> HIDE DEF N
  <2> QED
    BY <1>1, PartFacts
<1>3. GoodTree(tree)
  BY DEF Drafting
<1> HIDE DEF ahead
<1>4. a \in 0..Reach(tree, ahead) /\ Reach(tree, ahead) <= Len(ahead)
  BY <1>2, <1>3, AcceptedFacts, ReachFacts
<1>5. a \in 0..N - p
  <2>1. Reach(tree, ahead) \in Nat
    BY <1>2, <1>3, ReachFacts
  <2> HIDE DEF a
  <2> QED
    BY <1>1, <1>2, <1>4, <2>1
<1>6. /\ rej \in Tokens \cup {NoTok}
      /\ a < Len(ahead) /\ rej # NoTok => rej # ahead[a + 1]
  BY <1>2, <1>3, RejectedFacts
<1>7. Verdict = IF a > N - p - 1 THEN [acc |-> N - p - 1, rej |-> NoTok]
                ELSE [acc |-> a, rej |-> rej]
  BY DEF Verdict, ahead
<1> HIDE DEF a, rej, N
<1>8. CASE a > N - p - 1
  <2>1. Verdict.acc = N - p - 1 /\ Verdict.rej = NoTok
    BY <1>7, <1>8
  <2> QED
    BY <2>1, <1>1
<1>9. CASE a <= N - p - 1
  <2>1. Verdict.acc = a /\ Verdict.rej = rej
    BY <1>1, <1>5, <1>7, <1>9
  <2>2. a + 1 \in 1..N - p /\ a < Len(ahead)
    BY <1>1, <1>2, <1>5, <1>9
  <2>3. p + (a + 1) = p + a + 1
    BY <1>1, <1>5
  <2>4. ahead[a + 1] = req.toks[p + a + 1]
    BY <1>2, <2>2, <2>3
  <2> QED
    BY <2>1, <2>2, <2>4, <1>1, <1>5, <1>6, <1>9
<1> QED
  BY <1>1, <1>5, <1>8, <1>9

\* A position has a file of the program or none.
LEMMA FileFacts ==
    ASSUME Drafting, NEW i \in Nat
    PROVE  FileAt(i) \in Domains
<1> DEFINE later == {e \in 1..Len(req.events) :
                       req.events[e].file # NoFile /\ req.events[e].pos >= i}
<1>1. FileAt(i) = IF later = {} THEN NoFile ELSE req.events[First(later)].file
  BY DEF FileAt
<1>2. CASE later = {}
  BY <1>1, <1>2 DEF Domains
<1>3. CASE later # {}
  <2>1. /\ req.events \in Seq([pos : Nat, bump : Nat, file : Domains])
        /\ Len(req.events) \in Nat
    BY RequestFacts, LenProperties
  <2>2. First(later) \in later
    <3>1. later \in SUBSET Nat
      BY <2>1
    <3> HIDE DEF later
    <3> QED
      BY <3>1, <1>3, FirstFacts
  <2>3. req.events[First(later)] \in [pos : Nat, bump : Nat, file : Domains]
    BY <2>1, <2>2, ElementOfSeq
  <2> QED
    BY <1>1, <1>3, <2>3 DEF Domains
<1> QED
  BY <1>2, <1>3

\* The context tail is the end of the request up to p.
LEMMA TailFacts ==
    ASSUME Drafting
    PROVE  /\ ContextTail \in Seq(Tokens)
           /\ Len(ContextTail) = Lesser(p, MaxOrder)
           /\ \A i \in 1..Len(ContextTail) :
                 ContextTail[i] = req.toks[p - Len(ContextTail) + i]
<1> DEFINE m == Greater(0, p - MaxOrder)
<1>1. N \in Nat /\ p \in 0..N - 1 /\ req.toks \in Seq(Tokens) /\ Len(req.toks) = N
  BY RequestFacts
<1>2. m \in Nat /\ m <= p /\ p - m = Lesser(p, MaxOrder)
  BY <1>1, ReplayConstants DEF Greater, Lesser
<1>3. p <= Len(req.toks) /\ p \in Nat
  BY <1>1
<1> HIDE DEF m
<1>4. /\ SubSeq(req.toks, m + 1, p) \in Seq(Tokens)
      /\ Len(SubSeq(req.toks, m + 1, p)) = p - m
      /\ \A i \in 1..p - m : SubSeq(req.toks, m + 1, p)[i] = req.toks[m + i]
  BY <1>1, <1>2, <1>3, PartFacts
<1>5. ContextTail = SubSeq(req.toks, m + 1, p)
  BY DEF ContextTail, m
<1>6. p - (p - m) = m
  BY <1>2, <1>3
<1> QED
  BY <1>2, <1>4, <1>5, <1>6

\* A row of candidates, with and without log-probabilities.
LEMMA TopkRowFacts ==
    ASSUME NEW ids \in Seq(Tokens), NEW qs \in Seq(0..QMax)
    PROVE  /\ TopkRow(ids, qs) \in TopkRows
           /\ <<ids, qs>> \in MatchingRows => RowWhole(TopkRow(ids, qs))
<1> DEFINE Cand == [tok : Tokens, q : Unseen..QMax]
           q(i) == IF i <= Len(qs) THEN qs[i] ELSE Unseen
           row  == [i \in 1..Len(ids) |-> [tok |-> ids[i], q |-> q(i)]]
<1>1. Len(ids) \in Nat /\ Len(qs) \in Nat
  BY LenProperties
<1>2. ASSUME NEW i \in 1..Len(ids) PROVE [tok |-> ids[i], q |-> q(i)] \in Cand
  <2>1. ids[i] \in Tokens
    BY ElementOfSeq
  <2>2. CASE i <= Len(qs)
    <3>1. i \in 1..Len(qs)
      BY <1>1, <2>2
    <3>2. qs[i] \in 0..QMax
      BY <3>1, ElementOfSeq
    <3>3. q(i) \in Unseen..QMax
      BY <2>2, <3>2, TypeConstants DEF Unseen
    <3> HIDE DEF q
    <3> QED
      BY <2>1, <3>3
  <2>3. CASE ~(i <= Len(qs))
    <3>1. q(i) \in Unseen..QMax
      BY <2>3, TypeConstants DEF Unseen
    <3> HIDE DEF q
    <3> QED
      BY <2>1, <3>1
  <2> QED
    BY <2>2, <2>3
<1> HIDE DEF Cand, q
<1>3. row \in [1..Len(ids) -> Cand]
  BY <1>2
<1>4. row \in Seq(Cand)
  BY <1>1, <1>3, TupleIsSeq
<1>5. TopkRow(ids, qs) = row
  BY DEF TopkRow, q
<1>6. ASSUME <<ids, qs>> \in MatchingRows PROVE RowWhole(row)
  <2>1. Len(ids) = 0 \/ Len(qs) = 0 \/ Len(qs) = Len(ids)
    BY <1>6 DEF MatchingRows
  <2>2. ASSUME NEW i \in 1..Len(ids)
        PROVE  /\ Len(qs) = 0 => q(i) = Unseen
               /\ Len(qs) = Len(ids) => q(i) # Unseen
    <3>1. ASSUME Len(qs) = Len(ids) PROVE q(i) = qs[i] /\ qs[i] \in 0..QMax
      <4>1. i \in 1..Len(qs) /\ i <= Len(qs)
        BY <3>1, <1>1
      <4>2. qs[i] \in 0..QMax
        BY <4>1, ElementOfSeq
      <4> QED
        BY <4>1, <4>2 DEF q
    <3>2. \A c \in 0..QMax : c # Unseen
      BY TypeConstants DEF Unseen
    <3>3. Len(qs) = Len(ids) => q(i) # Unseen
      <4> HIDE DEF q
      <4> QED
        BY <3>1, <3>2
    <3>4. Len(qs) = 0 => ~(i <= Len(qs))
      BY <1>1
    <3> QED
      BY <3>3, <3>4 DEF q
  <2>3. DOMAIN row = 1..Len(ids) /\ \A i \in 1..Len(ids) : row[i].q = q(i)
    OBVIOUS
  <2>4. Len(ids) = 0 => 1..Len(ids) = {}
    OBVIOUS
  <2> HIDE DEF row
  <2> QED
    BY <2>1, <2>2, <2>3, <2>4 DEF RowWhole
<1> QED
  BY <1>4, <1>5, <1>6 DEF TopkRows, Cand

\* What an outcome has to do with the request at position p.
Faithful(ev) ==
    /\ ev \in Outcomes /\ ev.acc \in 0..N - p - 1
    /\ ev.tail = ContextTail
    /\ Len(ev.draft) \in {ev.acc, ev.acc + 1}
    /\ \A i \in 1..ev.acc : ev.draft[i] = req.toks[p + i]
    /\ ev.bonus = req.toks[p + ev.acc + 1]
    /\ Len(ev.draft) = ev.acc + 1 => ev.draft[ev.acc + 1] # ev.bonus
    /\ Len(ev.seg) = ev.acc + 1 /\ Len(ev.topk) = ev.acc + 1
    /\ \A i \in 1..ev.acc + 1 : RowWhole(ev.topk[i])
    /\ ev.ids = SubSeq(req.ids, p + 1, p + ev.acc + 1)

\* The draft of an outcome: what was accepted, and what was turned down.
LEMMA DraftFacts ==
    ASSUME Drafting
    PROVE  LET acc == Verdict.acc
               d   == SubSeq(req.toks, p + 1, p + acc)
                      \o (IF Verdict.rej = NoTok THEN <<>> ELSE <<Verdict.rej>>)
           IN  /\ d \in Seq(Tokens) /\ Len(d) \in {acc, acc + 1}
               /\ \A i \in 1..acc : d[i] = req.toks[p + i]
               /\ Len(d) = acc + 1 => d[acc + 1] # req.toks[p + acc + 1]
<1> DEFINE acc == Verdict.acc
           rej == Verdict.rej
           s   == SubSeq(req.toks, p + 1, p + acc)
           e   == IF rej = NoTok THEN <<>> ELSE <<rej>>
<1>1. N \in Nat /\ p \in 0..N - 1 /\ req.toks \in Seq(Tokens) /\ N = Len(req.toks)
  BY RequestFacts
<1>2. /\ acc \in 0..N - p - 1 /\ rej \in Tokens \cup {NoTok}
      /\ rej # NoTok => rej # req.toks[p + acc + 1]
  BY VerdictFacts
<1> HIDE DEF acc, rej, N
<1>3. p \in Nat /\ p + acc \in Nat /\ p <= p + acc /\ p + acc <= N /\ acc \in Nat
      /\ (p + acc) - p = acc
  BY <1>1, <1>2
<1>4. s \in Seq(Tokens) /\ Len(s) = acc /\ \A i \in 1..acc : s[i] = req.toks[p + i]
  BY <1>1, <1>3, PartFacts
<1>5. CASE rej = NoTok
  <2>1. s \o e = s
    BY <1>4, <1>5, ConcatEmptySeq
  <2> HIDE DEF s, e
  <2>2. Len(s) # acc + 1
    BY <1>3, <1>4
  <2> QED
    BY <2>1, <2>2, <1>4 DEF acc, rej, s, e
<1>6. CASE rej # NoTok
  <2>1. e \in Seq(Tokens) /\ Len(e) = 1 /\ e[1] = rej
    BY <1>2, <1>6
  <2> HIDE DEF s, e
  <2>2. /\ s \o e \in Seq(Tokens) /\ Len(s \o e) = acc + 1
        /\ \A i \in 1..acc + 1 : (s \o e)[i] = IF i <= acc THEN s[i] ELSE e[i - acc]
    <3>1. /\ s \o e \in Seq(Tokens) /\ Len(s \o e) = Len(s) + Len(e)
          /\ \A i \in 1..Len(s) + Len(e) :
                (s \o e)[i] = IF i <= Len(s) THEN s[i] ELSE e[i - Len(s)]
      BY <2>1, <1>4, ConcatProperties
    <3> QED
      BY <3>1, <2>1, <1>4
  <2>3. \A i \in 1..acc : (s \o e)[i] = req.toks[p + i]
    BY <2>2, <1>3, <1>4
  <2>4. (s \o e)[acc + 1] = rej
    <3>1. acc + 1 \in 1..acc + 1 /\ ~ (acc + 1 <= acc) /\ (acc + 1) - acc = 1
      BY <1>3
    <3> QED
      BY <3>1, <2>1, <2>2
  <2>5. /\ s \o e \in Seq(Tokens) /\ Len(s \o e) \in {acc, acc + 1}
        /\ \A i \in 1..acc : (s \o e)[i] = req.toks[p + i]
        /\ Len(s \o e) = acc + 1 => (s \o e)[acc + 1] # req.toks[p + acc + 1]
    BY <2>2, <2>3, <2>4, <1>2, <1>6
  <2> QED
    BY <2>5 DEF acc, rej, s, e
<1> QED
  BY <1>5, <1>6

\* What verification makes of a draft agrees with the request.
LEMMA VerifiedFacts ==
    ASSUME Drafting
    PROVE  Faithful(Verified)
<1> DEFINE acc == Verdict.acc
           d   == SubSeq(req.toks, p + 1, p + acc)
                    \o (IF Verdict.rej = NoTok THEN <<>> ELSE <<Verdict.rej>>)
           ids == SubSeq(req.ids, p + 1, p + acc + 1)
           seg == SubSeq(req.seg, p + 1, p + acc + 1)
           top == [i \in 1..acc + 1 |-> TopkRow(req.ids[p + i], req.qs[p + i])]
           ev  == Verified
           files == {i \in p..p + acc : FileAt(i) # NoFile}
           file  == IF files = {} THEN NoFile ELSE FileAt(First(files))
<1>1. /\ N \in Nat /\ p \in 0..N - 1 /\ req.toks \in Seq(Tokens) /\ N = Len(req.toks)
      /\ req.ids \in Seq(Seq(Tokens)) /\ req.qs \in Seq(Seq(0..QMax))
      /\ req.seg \in Seq(Segments)
      /\ Len(req.ids) = N /\ Len(req.qs) = N /\ Len(req.seg) = N
      /\ \A i \in 1..N : <<req.ids[i], req.qs[i]>> \in MatchingRows
      /\ ScopeStack(req.scope) \in [0..2 -> ScopeIds]
  BY RequestFacts
<1>2. acc \in 0..N - p - 1
  BY VerdictFacts
<1>3. /\ d \in Seq(Tokens) /\ Len(d) \in {acc, acc + 1}
      /\ \A i \in 1..acc : d[i] = req.toks[p + i]
      /\ Len(d) = acc + 1 => d[acc + 1] # req.toks[p + acc + 1]
  BY DraftFacts
<1>4. ContextTail \in Seq(Tokens)
  BY TailFacts
<1>5. file \in Domains
  <2>1. CASE files = {}
    BY <2>1 DEF Domains
  <2>2. CASE files # {}
    <3>1. files \in SUBSET Nat
      BY <1>1, <1>2
    <3> HIDE DEF files
    <3>2. First(files) \in Nat
      BY <2>2, <3>1, FirstFacts
    <3>3. FileAt(First(files)) \in Domains
      BY <3>2, FileFacts
    <3> QED
      BY <2>2, <3>3
  <2> QED
    BY <2>1, <2>2
<1>6. ev = [scopes |-> ScopeStack(req.scope), tail |-> ContextTail, draft |-> d,
            acc |-> acc, bonus |-> req.toks[p + acc + 1], ids |-> ids, topk |-> top,
            seg |-> seg, file |-> file]
  BY DEF Verified
<1> HIDE DEF acc, d, file, ev, N
<1>7. /\ p \in Nat /\ p + acc + 1 \in Nat /\ p <= p + acc + 1 /\ p + acc + 1 <= N
      /\ (p + acc + 1) - p = acc + 1 /\ acc \in Nat /\ acc + 1 \in Nat
      /\ p + acc + 1 \in 1..N
  BY <1>1, <1>2
<1>8. ids \in Seq(Seq(Tokens)) /\ seg \in Seq(Segments) /\ Len(seg) = acc + 1
  <2> DEFINE n == p + acc + 1
  <2>1. p \in Nat /\ n \in Nat /\ p <= n /\ n <= N /\ n - p = acc + 1
    BY <1>7
  <2> HIDE DEF n
  <2>2. SubSeq(req.ids, p + 1, n) \in Seq(Seq(Tokens))
    BY <1>1, <2>1, PartFacts
  <2>3. SubSeq(req.seg, p + 1, n) \in Seq(Segments) /\ Len(SubSeq(req.seg, p + 1, n)) = n - p
    <3>1. req.seg \in Seq(Segments) /\ n <= Len(req.seg)
      BY <1>1, <2>1
    <3> QED
      BY <2>1, <3>1, PartFacts
  <2> QED
    BY <2>1, <2>2, <2>3 DEF n
<1>9. top \in Seq(TopkRows) /\ Len(top) = acc + 1 /\ \A i \in 1..acc + 1 : RowWhole(top[i])
  <2>1. ASSUME NEW i \in 1..acc + 1
        PROVE  /\ TopkRow(req.ids[p + i], req.qs[p + i]) \in TopkRows
               /\ RowWhole(TopkRow(req.ids[p + i], req.qs[p + i]))
    <3>1. p + i \in 1..N
      BY <1>1, <1>2
    <3>2. req.ids[p + i] \in Seq(Tokens) /\ req.qs[p + i] \in Seq(0..QMax)
      BY <3>1, <1>1, ElementOfSeq
    <3>3. <<req.ids[p + i], req.qs[p + i]>> \in MatchingRows
      BY <3>1, <1>1
    <3> QED
      BY <3>2, <3>3, TopkRowFacts
  <2>2. top \in [1..acc + 1 -> TopkRows] /\ \A i \in 1..acc + 1 : RowWhole(top[i])
    BY <2>1
  <2> HIDE DEF top
  <2> QED
    BY <2>2, <1>7, TupleIsSeq
<1>10. req.toks[p + acc + 1] \in Tokens
  BY <1>1, <1>7, ElementOfSeq
<1> HIDE DEF ids, seg, top
<1>11. ev \in Outcomes
  BY <1>1, <1>3, <1>4, <1>5, <1>6, <1>7, <1>8, <1>9, <1>10 DEF Outcomes
<1>12. /\ ev.acc = acc /\ ev.tail = ContextTail /\ ev.draft = d /\ ev.ids = ids
       /\ ev.bonus = req.toks[p + acc + 1] /\ ev.seg = seg /\ ev.topk = top
  BY <1>6
<1> QED
  BY <1>2, <1>3, <1>8, <1>9, <1>11, <1>12 DEF Faithful, ev, ids

\* In positive mode too.
LEMMA StrippedFacts ==
    ASSUME Drafting, NEW ev, Faithful(ev)
    PROVE  Faithful(Stripped(ev))
<1> DEFINE st  == Stripped(ev)
           acc == ev.acc
           d   == SubSeq(ev.draft, 1, acc)
           top == [pos \in 1..acc + 1 |-> <<>>]
<1>1. /\ ev \in Outcomes /\ acc \in Nat /\ ev.draft \in Seq(Tokens)
      /\ Len(ev.draft) \in {acc, acc + 1}
      /\ \A i \in 1..acc : ev.draft[i] = req.toks[p + i]
  BY DEF Faithful, Outcomes
<1>2. st = [ev EXCEPT !.draft = d, !.topk = top]
  BY DEF Stripped
<1>3. d \in Seq(Tokens) /\ Len(d) = acc /\ \A i \in 1..acc : d[i] = ev.draft[i]
  <2>1. 0 \in Nat /\ 0 <= acc /\ acc <= Len(ev.draft) /\ 0 + 1 = 1 /\ acc - 0 = acc
    BY <1>1
  <2> HIDE DEF acc, d
  <2>2. /\ SubSeq(ev.draft, 0 + 1, acc) \in Seq(Tokens)
        /\ Len(SubSeq(ev.draft, 0 + 1, acc)) = acc - 0
        /\ \A i \in 1..acc - 0 : SubSeq(ev.draft, 0 + 1, acc)[i] = ev.draft[0 + i]
    BY <1>1, <2>1, PartFacts
  <2>3. \A i \in 1..acc : 0 + i = i
    OBVIOUS
  <2> QED
    BY <2>1, <2>2, <2>3 DEF d
<1>4. top \in Seq(TopkRows) /\ Len(top) = acc + 1 /\ \A i \in 1..acc + 1 : RowWhole(top[i])
  <2>1. <<>> \in TopkRows /\ RowWhole(<<>>)
    BY DEF TopkRows, RowWhole
  <2>2. /\ top \in [1..acc + 1 -> TopkRows] /\ acc + 1 \in Nat
        /\ \A i \in 1..acc + 1 : RowWhole(top[i])
    BY <1>1, <2>1
  <2> HIDE DEF top, acc
  <2> QED
    BY <2>2, TupleIsSeq
<1> HIDE DEF d, top
<1>5. /\ st \in Outcomes
      /\ st.acc = acc /\ st.tail = ev.tail /\ st.draft = d /\ st.bonus = ev.bonus
      /\ st.ids = ev.ids /\ st.seg = ev.seg /\ st.topk = top
  BY <1>1, <1>2, <1>3, <1>4 DEF Outcomes
<1>6. /\ acc \in 0..N - p - 1 /\ ev.tail = ContextTail
      /\ ev.bonus = req.toks[p + acc + 1] /\ Len(ev.seg) = acc + 1
      /\ ev.ids = SubSeq(req.ids, p + 1, p + acc + 1)
  BY DEF Faithful
<1>7. Len(d) # acc + 1
  BY <1>1, <1>3
<1> HIDE DEF st, acc
<1> QED
  BY <1>1, <1>3, <1>4, <1>5, <1>6, <1>7 DEF Faithful, st, acc

\* An outcome that agrees with the request is one the store accepts, and does
\* not reach over the end.
LEMMA OutcomeTypes ==
    ASSUME Drafting, NEW ev, Faithful(ev)
    PROVE  /\ IsOutcome(ev)
           /\ N \in Nat /\ p \in Nat /\ ev.acc \in Nat /\ p + ev.acc + 1 <= N
<1>1. N \in Nat /\ p \in 0..N - 1
  BY RequestFacts
<1>2. /\ ev \in Outcomes /\ ev.acc \in 0..N - p - 1
      /\ Len(ev.draft) \in {ev.acc, ev.acc + 1}
  BY DEF Faithful
<1>3. ev.acc \in 0..Len(ev.draft)
  BY <1>1, <1>2
<1>4. IsOutcome(ev)
  BY <1>2, <1>3 DEF Outcomes, IsOutcome
<1> HIDE DEF N
<1> QED
  BY <1>1, <1>2, <1>4

\* An outcome that agrees with the request is honest.
LEMMA FaithfulIsHonest ==
    ASSUME Drafting, Faithful(outcome)
    PROVE  OutcomeHonest
<1>1. IsOutcome(outcome) /\ outcome.acc \in Nat
  BY OutcomeTypes
<1>2. /\ Len(outcome.draft) \in {outcome.acc, outcome.acc + 1}
      /\ Len(outcome.draft) = outcome.acc + 1
            => outcome.draft[outcome.acc + 1] # outcome.bonus
      /\ Len(outcome.seg) = outcome.acc + 1 /\ Len(outcome.topk) = outcome.acc + 1
      /\ \A i \in 1..outcome.acc + 1 : RowWhole(outcome.topk[i])
  BY DEF Faithful
<1>3. IsRejectAt(outcome, outcome.acc) => Len(outcome.draft) = outcome.acc + 1
  BY <1>1, <1>2 DEF IsRejectAt
<1> QED
  BY <1>1, <1>2, <1>3 DEF OutcomeHonest

\* What is realized is what was recorded.
LEMMA RealizedFacts ==
    ASSUME Drafting, NEW ev, Faithful(ev)
    PROVE  /\ Realized(ev) = SubSeq(req.toks, p + 1, p + ev.acc + 1)
           /\ Realized(ev) \in Seq(Tokens) /\ Len(Realized(ev)) = ev.acc + 1
           /\ \A i \in 1..ev.acc + 1 : Realized(ev)[i] = req.toks[p + i]
<1> DEFINE acc == ev.acc
           n   == p + acc + 1
           s   == SubSeq(ev.draft, 1, acc)
           e   == <<ev.bonus>>
           t   == SubSeq(req.toks, p + 1, n)
<1>1. /\ acc \in Nat /\ ev.draft \in Seq(Tokens) /\ ev.bonus \in Tokens
      /\ Len(ev.draft) \in {acc, acc + 1}
      /\ \A i \in 1..acc : ev.draft[i] = req.toks[p + i]
      /\ ev.bonus = req.toks[n]
  BY DEF Faithful, Outcomes
<1>2. /\ p \in Nat /\ n \in Nat /\ p <= n /\ n <= Len(req.toks) /\ n - p = acc + 1
      /\ req.toks \in Seq(Tokens)
  <2>1. /\ N \in Nat /\ p \in Nat /\ acc \in Nat /\ p + acc + 1 <= N
        /\ N = Len(req.toks) /\ req.toks \in Seq(Tokens)
    BY OutcomeTypes, RequestFacts
  <2> HIDE DEF N, acc
  <2> QED
    BY <2>1
<1>3. s \in Seq(Tokens) /\ Len(s) = acc /\ \A i \in 1..acc : s[i] = ev.draft[i]
  <2>1. 0 \in Nat /\ 0 <= acc /\ acc <= Len(ev.draft) /\ 0 + 1 = 1 /\ acc - 0 = acc
    BY <1>1
  <2> HIDE DEF acc, s
  <2>2. /\ SubSeq(ev.draft, 0 + 1, acc) \in Seq(Tokens)
        /\ Len(SubSeq(ev.draft, 0 + 1, acc)) = acc - 0
        /\ \A i \in 1..acc - 0 : SubSeq(ev.draft, 0 + 1, acc)[i] = ev.draft[0 + i]
    BY <1>1, <2>1, PartFacts
  <2>3. \A i \in 1..acc : 0 + i = i
    OBVIOUS
  <2> QED
    BY <2>1, <2>2, <2>3 DEF s
<1>4. e \in Seq(Tokens) /\ Len(e) = 1 /\ e[1] = req.toks[n]
  BY <1>1
<1> HIDE DEF n, acc
<1>5. t \in Seq(Tokens) /\ Len(t) = acc + 1 /\ \A i \in 1..acc + 1 : t[i] = req.toks[p + i]
  BY <1>2, PartFacts
<1> HIDE DEF s, e, t
<1>6. /\ s \o e \in Seq(Tokens) /\ Len(s \o e) = Len(s) + Len(e)
      /\ \A i \in 1..Len(s) + Len(e) :
            (s \o e)[i] = IF i <= Len(s) THEN s[i] ELSE e[i - Len(s)]
  BY <1>3, <1>4, ConcatProperties
<1>7. ASSUME NEW i \in 1..acc + 1 PROVE (s \o e)[i] = t[i]
  <2>1. CASE i <= acc
    <3>1. i \in 1..acc
      BY <1>1, <2>1
    <3> QED
      BY <3>1, <1>1, <1>3, <1>4, <1>5, <1>6
  <2>2. CASE i = acc + 1
    <3>1. p + i = n /\ ~ (i <= acc) /\ i - acc = 1
      BY <1>1, <1>2, <2>2
    <3> QED
      BY <3>1, <1>3, <1>4, <1>5, <1>6
  <2>3. i <= acc \/ i = acc + 1
    <3>1. acc \in Nat
      BY <1>1
    <3> QED
      BY <3>1
  <2> QED
    BY <2>1, <2>2, <2>3
<1>8. s \o e = t
  <2>1. Len(s \o e) = acc + 1
    BY <1>3, <1>4, <1>6
  <2> QED
    BY <2>1, <1>5, <1>6, <1>7, SeqEqual
<1>9. Realized(ev) = s \o e
  BY DEF Realized, s, e, acc
<1> QED
  BY <1>5, <1>8, <1>9 DEF t, n, acc

\* The end of a sequence.
LEMMA LastNFacts ==
    ASSUME NEW S, NEW s \in Seq(S), NEW o \in Nat, o <= Len(s)
    PROVE  /\ LastN(s, o) \in Seq(S) /\ Len(LastN(s, o)) = o
           /\ \A i \in 1..o : LastN(s, o)[i] = s[Len(s) - o + i]
<1> DEFINE n == Len(s)
           m == n - o
<1>1. m \in Nat /\ n \in Nat /\ m <= n /\ n <= Len(s) /\ n - m = o /\ m + 1 = n - o + 1
  BY LenProperties
<1>2. LastN(s, o) = SubSeq(s, m + 1, n)
  BY DEF LastN
<1> HIDE DEF m, n
<1>3. /\ SubSeq(s, m + 1, n) \in Seq(S) /\ Len(SubSeq(s, m + 1, n)) = n - m
      /\ \A i \in 1..n - m : SubSeq(s, m + 1, n)[i] = s[m + i]
  BY <1>1, PartFacts
<1> QED
  BY <1>1, <1>2, <1>3 DEF m, n

\* A context of an order is the end of the stream, whichever way it is taken.
LEMMA FaithfulContexts ==
    ASSUME Drafting, Faithful(outcome)
    PROVE  ContextsAgree
<1> SUFFICES ASSUME NEW pos \in 0..outcome.acc, NEW o \in Orders
             PROVE  LET stream == SubSeq(req.toks, 1, p + pos)
                        path   == PathTo(outcome, pos)
                    IN  /\ o <= Len(stream) <=> o <= Len(path)
                        /\ o <= Len(stream) => LastN(path, o) = LastN(stream, o)
  BY DEF ContextsAgree
<1> DEFINE stream == SubSeq(req.toks, 1, p + pos)
           tail   == outcome.tail
           begin  == SubSeq(outcome.draft, 1, pos)
           path   == PathTo(outcome, pos)
           l      == Len(tail)
<1>1. /\ outcome.acc \in Nat /\ outcome.draft \in Seq(Tokens)
      /\ Len(outcome.draft) \in {outcome.acc, outcome.acc + 1}
      /\ \A i \in 1..outcome.acc : outcome.draft[i] = req.toks[p + i]
      /\ tail = ContextTail
  BY DEF Faithful, Outcomes
<1>2. /\ p \in Nat /\ pos \in Nat /\ p + pos \in Nat /\ p + pos <= Len(req.toks)
      /\ req.toks \in Seq(Tokens) /\ pos <= outcome.acc
  <2>1. N \in Nat /\ p \in Nat /\ p + outcome.acc + 1 <= N
    BY OutcomeTypes
  <2>2. N = Len(req.toks) /\ req.toks \in Seq(Tokens)
    BY RequestFacts
  <2>3. pos \in Nat /\ pos <= outcome.acc
    BY <1>1
  <2> QED
    BY <2>1, <2>2, <2>3, <1>1
<1>3. o \in Nat /\ o <= MaxOrder /\ MaxOrder \in Nat
  BY ReplayConstants
<1>4. /\ tail \in Seq(Tokens) /\ l = Lesser(p, MaxOrder) /\ l \in Nat
      /\ \A i \in 1..l : tail[i] = req.toks[p - l + i]
  BY <1>1, TailFacts, LenProperties
<1> HIDE DEF tail, l
<1>5. /\ stream \in Seq(Tokens) /\ Len(stream) = p + pos
      /\ \A i \in 1..p + pos : stream[i] = req.toks[i]
  <2> DEFINE n == p + pos
  <2>1. 0 \in Nat /\ 0 <= n /\ n <= Len(req.toks) /\ 0 + 1 = 1 /\ n - 0 = n /\ n \in Nat
    BY <1>2
  <2> HIDE DEF n
  <2>2. /\ SubSeq(req.toks, 0 + 1, n) \in Seq(Tokens)
        /\ Len(SubSeq(req.toks, 0 + 1, n)) = n - 0
        /\ \A i \in 1..n - 0 : SubSeq(req.toks, 0 + 1, n)[i] = req.toks[0 + i]
    BY <1>2, <2>1, PartFacts
  <2>3. \A i \in 1..n : 0 + i = i
    OBVIOUS
  <2> QED
    BY <2>1, <2>2, <2>3 DEF n
<1>6. /\ begin \in Seq(Tokens) /\ Len(begin) = pos
      /\ \A i \in 1..pos : begin[i] = req.toks[p + i]
  <2>1. 0 \in Nat /\ 0 <= pos /\ pos <= Len(outcome.draft) /\ 0 + 1 = 1 /\ pos - 0 = pos
    BY <1>1, <1>2
  <2>2. /\ SubSeq(outcome.draft, 0 + 1, pos) \in Seq(Tokens)
        /\ Len(SubSeq(outcome.draft, 0 + 1, pos)) = pos - 0
        /\ \A i \in 1..pos - 0 : SubSeq(outcome.draft, 0 + 1, pos)[i] = outcome.draft[0 + i]
    BY <1>1, <1>2, <2>1, PartFacts
  <2>3. \A i \in 1..pos : 0 + i = i /\ i \in 1..outcome.acc
    BY <1>1, <1>2
  <2> QED
    BY <1>1, <2>1, <2>2, <2>3
<1>7. path = tail \o begin
  BY DEF PathTo, tail
<1> HIDE DEF stream, begin, path
<1>8. /\ path \in Seq(Tokens) /\ Len(path) = l + pos
      /\ \A j \in 1..l + pos : path[j] = req.toks[p - l + j]
  <2>1. /\ path \in Seq(Tokens) /\ Len(path) = Len(tail) + Len(begin)
        /\ \A j \in 1..Len(tail) + Len(begin) :
              path[j] = IF j <= Len(tail) THEN tail[j] ELSE begin[j - Len(tail)]
    <3>1. tail \in Seq(Tokens) /\ begin \in Seq(Tokens)
      BY <1>4, <1>6
    <3> QED
      BY <1>7, <3>1, ConcatProperties
  <2>2. Len(tail) = l
    BY DEF l
  <2>3. ASSUME NEW j \in 1..l + pos PROVE path[j] = req.toks[p - l + j]
    <3>1. path[j] = IF j <= l THEN tail[j] ELSE begin[j - l]
      BY <2>1, <2>2, <1>6
    <3>2. CASE j <= l
      <4>1. j \in 1..l
        BY <3>2, <1>4
      <4> QED
        BY <3>1, <3>2, <4>1, <1>4
    <3>3. CASE ~ (j <= l)
      <4>1. j - l \in 1..pos /\ p + (j - l) = p - l + j
        BY <3>3, <1>2, <1>4
      <4> QED
        BY <3>1, <3>3, <4>1, <1>6
    <3> QED
      BY <3>2, <3>3
  <2> QED
    BY <2>1, <2>2, <2>3, <1>6
<1>9. o <= p + pos <=> o <= l + pos
  BY <1>2, <1>3, <1>4 DEF Lesser
<1>10. ASSUME o <= p + pos PROVE LastN(path, o) = LastN(stream, o)
  <2>1. o <= l + pos
    BY <1>9, <1>10
  <2>2. /\ LastN(path, o) \in Seq(Tokens) /\ Len(LastN(path, o)) = o
        /\ \A i \in 1..o : LastN(path, o)[i] = path[(l + pos) - o + i]
    <3>1. path \in Seq(Tokens) /\ Len(path) = l + pos /\ o <= Len(path)
      BY <1>8, <2>1
    <3>2. /\ LastN(path, o) \in Seq(Tokens) /\ Len(LastN(path, o)) = o
          /\ \A i \in 1..o : LastN(path, o)[i] = path[Len(path) - o + i]
      BY <1>3, <3>1, LastNFacts
    <3> QED
      BY <3>1, <3>2
  <2>3. /\ LastN(stream, o) \in Seq(Tokens) /\ Len(LastN(stream, o)) = o
        /\ \A i \in 1..o : LastN(stream, o)[i] = stream[(p + pos) - o + i]
    <3>1. stream \in Seq(Tokens) /\ Len(stream) = p + pos /\ o <= Len(stream)
      BY <1>5, <1>10
    <3>2. /\ LastN(stream, o) \in Seq(Tokens) /\ Len(LastN(stream, o)) = o
          /\ \A i \in 1..o : LastN(stream, o)[i] = stream[Len(stream) - o + i]
      BY <1>3, <3>1, LastNFacts
    <3> QED
      BY <3>1, <3>2
  <2>4. ASSUME NEW i \in 1..o PROVE LastN(path, o)[i] = LastN(stream, o)[i]
    <3>1. /\ (l + pos) - o + i \in 1..l + pos
          /\ (p + pos) - o + i \in 1..p + pos
          /\ p - l + ((l + pos) - o + i) = (p + pos) - o + i
      <4>1. p \in Nat /\ pos \in Nat /\ l \in Nat /\ o \in Nat
        BY <1>2, <1>3, <1>4
      <4> QED
        BY <4>1, <1>10, <2>1
    <3>2. path[(l + pos) - o + i] = req.toks[p - l + ((l + pos) - o + i)]
      BY <1>8, <3>1
    <3>3. stream[(p + pos) - o + i] = req.toks[(p + pos) - o + i]
      BY <1>5, <3>1
    <3> QED
      BY <2>2, <2>3, <3>1, <3>2, <3>3
  <2> QED
    BY <2>2, <2>3, <2>4, SeqEqual
<1> QED
  BY <1>5, <1>8, <1>9, <1>10 DEF stream, path

-----------------------------------------------------------------------------
(* The drafts of the proposers.                                            *)

SiblingsDiffer(t) ==
    \A i, j \in 1..Len(t) : i # j /\ t[i].parent = t[j].parent => t[i].tok # t[j].tok

Childless(t, n) == \A i \in 1..Len(t) : t[i].parent # n

\* A node added to a tree leaves it a tree, and the other nodes in place.
LEMMA AddFacts ==
    ASSUME NEW t, GoodTree(t), NEW tok \in Tokens, NEW n \in 0..Len(t)
    PROVE  LET u == AddNode(t, tok, n)
           IN  /\ GoodTree(u) /\ Len(u) = Len(t) + 1 /\ Len(t) \in Nat
               /\ \A i \in 1..Len(t) : u[i] = t[i]
               /\ u[Len(t) + 1] = [tok |-> tok, parent |-> n]
<1> DEFINE node == [tok |-> tok, parent |-> n]
           u    == AddNode(t, tok, n)
<1>1. t \in Seq(Nodes) /\ Len(t) \in Nat /\ \A i \in 1..Len(t) : t[i].parent < i
  BY LenProperties DEF GoodTree
<1>2. node \in Nodes /\ node.parent = n
  BY <1>1 DEF Nodes
<1>3. u = Append(t, node)
  BY DEF AddNode
<1> HIDE DEF node, u
<1>4. /\ u \in Seq(Nodes) /\ Len(u) = Len(t) + 1
      /\ \A i \in 1..Len(t) : u[i] = t[i]
      /\ u[Len(t) + 1] = node
  BY <1>1, <1>2, <1>3, AppendProperties
<1>5. ASSUME NEW i \in 1..Len(u) PROVE u[i].parent < i
  <2>1. CASE i \in 1..Len(t)
    BY <2>1, <1>1, <1>4
  <2>2. CASE i = Len(t) + 1
    BY <2>2, <1>1, <1>2, <1>4
  <2> QED
    BY <2>1, <2>2, <1>1, <1>4
<1> QED
  BY <1>1, <1>4, <1>5 DEF GoodTree, u, node

\* A child for a node that has none.
LEMMA AddToChildless ==
    ASSUME NEW t, GoodTree(t), NEW tok \in Tokens, NEW n \in 0..Len(t),
           SiblingsDiffer(t), \A i \in 1..Len(t) : t[i].parent = n => t[i].tok # tok
    PROVE  /\ SiblingsDiffer(AddNode(t, tok, n))
           /\ Childless(AddNode(t, tok, n), Len(t) + 1)
<1> DEFINE u == AddNode(t, tok, n)
           l == Len(t)
<1>1. /\ Len(u) = l + 1 /\ l \in Nat /\ \A i \in 1..l : u[i] = t[i]
      /\ u[l + 1] = [tok |-> tok, parent |-> n]
      /\ GoodTree(u)
  BY AddFacts
<1>2. u[l + 1].tok = tok /\ u[l + 1].parent = n
  BY <1>1
<1> HIDE DEF u
<1>3. ASSUME NEW i \in 1..Len(u), NEW j \in 1..Len(u), i # j, u[i].parent = u[j].parent
      PROVE  u[i].tok # u[j].tok
  <2>1. CASE i \in 1..l /\ j \in 1..l
    BY <2>1, <1>1, <1>3 DEF SiblingsDiffer
  <2>2. CASE i = l + 1 /\ j \in 1..l
    BY <2>2, <1>1, <1>2, <1>3
  <2>3. CASE j = l + 1 /\ i \in 1..l
    BY <2>3, <1>1, <1>2, <1>3
  <2>4. (i \in 1..l \/ i = l + 1) /\ (j \in 1..l \/ j = l + 1)
    BY <1>1
  <2> QED
    BY <1>3, <2>1, <2>2, <2>3, <2>4
<1>4. ASSUME NEW i \in 1..Len(u) PROVE u[i].parent # l + 1
  <2>1. u[i].parent < i /\ i \in 1..l + 1
    BY <1>1 DEF GoodTree
  <2>2. u[i].parent \in Nat
    <3>1. u[i] \in Nodes
      BY <1>1, ElementOfSeq DEF GoodTree
    <3> QED
      BY <3>1 DEF Nodes
  <2> QED
    BY <1>1, <2>1, <2>2
<1>5. SiblingsDiffer(u) /\ Childless(u, l + 1)
  BY <1>3, <1>4 DEF SiblingsDiffer, Childless
<1> QED
  BY <1>5 DEF u

-----------------------------------------------------------------------------
(* Token recycling.                                                        *)

\* Rows are padded with a token.
LEMMA PadIsToken == 0 \in Tokens
BY TypeConstants DEF Tokens

\* The rows of one tenant.
Maps == UNION {[D -> [1..RowWidth -> Tokens]] : D \in SUBSET Tokens}

\* What a map of rows is.
LEMMA MapFacts ==
    ASSUME NEW m
    PROVE  m \in Maps <=> /\ DOMAIN m \subseteq Tokens
                          /\ m \in [DOMAIN m -> [1..RowWidth -> Tokens]]
<1> DEFINE R == [1..RowWidth -> Tokens]
<1>1. ASSUME m \in Maps PROVE DOMAIN m \subseteq Tokens /\ m \in [DOMAIN m -> R]
  <2> HIDE DEF R
  <2>1. PICK D \in SUBSET Tokens : m \in [D -> R]
    BY <1>1 DEF Maps, R
  <2>2. DOMAIN m = D
    BY <2>1
  <2> QED
    BY <2>1, <2>2
<1>2. ASSUME DOMAIN m \subseteq Tokens, m \in [DOMAIN m -> R] PROVE m \in Maps
  <2> HIDE DEF R
  <2>1. DOMAIN m \in SUBSET Tokens
    BY <1>2
  <2> QED
    BY <1>2, <2>1 DEF Maps, R
<1> QED
  BY <1>1, <1>2

\* The wiring of the template: each node below the node of the path that leads
\* to it, at the slot its path ends with.
LEMMA WiringFacts ==
    /\ Len(Template) \in Nat /\ DOMAIN Template = 1..Len(Template)
    /\ \A i \in 1..Len(Template) :
          /\ Template[i] \in Seq(0..RowWidth - 1) /\ Len(Template[i]) \in Nat \ {0}
          /\ Wiring[i].slot = SlotOf(Template[i]) + 1
          /\ Wiring[i].slot \in 1..RowWidth
          /\ Wiring[i].parent \in 0..i - 1
          /\ Len(Template[i]) = 1 => Wiring[i].parent = 0
          /\ Len(Template[i]) > 1 => /\ Wiring[i].parent \in 1..i - 1
                                     /\ Template[Wiring[i].parent] = LeadingTo(Template[i])
<1> DEFINE Path == Seq(0..RowWidth - 1) \ {<<>>}
<1>1. Template \in Seq(Path)
  BY RecyclingConstants DEF Wired
<1>2. Len(Template) \in Nat /\ DOMAIN Template = 1..Len(Template)
  <2> HIDE DEF Path
  <2> QED
    BY <1>1, LenProperties
<1>3. ASSUME NEW i \in 1..Len(Template)
      PROVE  /\ Template[i] \in Seq(0..RowWidth - 1) /\ Len(Template[i]) \in Nat \ {0}
             /\ Wiring[i].slot = SlotOf(Template[i]) + 1
             /\ Wiring[i].slot \in 1..RowWidth
             /\ Wiring[i].parent \in 0..i - 1
             /\ Len(Template[i]) = 1 => Wiring[i].parent = 0
             /\ Len(Template[i]) > 1 => /\ Wiring[i].parent \in 1..i - 1
                                        /\ Template[Wiring[i].parent] = LeadingTo(Template[i])
  <2> DEFINE path == Template[i]
  <2>1. path \in Path
    <3> HIDE DEF Path
    <3> QED
      BY <1>1, ElementOfSeq
  <2>2. path \in Seq(0..RowWidth - 1) /\ path # <<>>
    BY <2>1
  <2>3. Len(path) \in Nat \ {0}
    BY <2>2, LenProperties
  <2>4. /\ Wiring[i].slot = SlotOf(path) + 1
        /\ Wiring[i].parent = IF Len(path) = 1 THEN 0
                              ELSE CHOOSE j \in 1..i - 1 : Template[j] = LeadingTo(path)
    BY <1>2 DEF Wiring
  <2>5. SlotOf(path) \in 0..RowWidth - 1
    <3>1. Len(path) \in 1..Len(path)
      BY <2>3
    <3> QED
      BY <2>2, <3>1, ElementOfSeq DEF SlotOf
  <2>6. SlotOf(path) + 1 \in 1..RowWidth
    BY <2>5, RecyclingConstants
  <2>7. ASSUME Len(path) > 1
        PROVE  Wiring[i].parent \in 1..i - 1 /\ Template[Wiring[i].parent] = LeadingTo(path)
    <3>1. \E j \in 1..i - 1 : Template[j] = LeadingTo(path)
      BY <1>2, <2>7, RecyclingConstants DEF Wired
    <3>2. Wiring[i].parent = CHOOSE j \in 1..i - 1 : Template[j] = LeadingTo(path)
      <4> DEFINE l == Len(path)
      <4>1. l \in Nat /\ l > 1
        BY <2>3, <2>7
      <4> HIDE DEF path
      <4>2. l # 1
        <5> HIDE DEF l
        <5> QED
          BY <4>1
      <4> QED
        BY <4>2, <2>4, Zenon
    <3> HIDE DEF path
    <3> QED
      BY <3>1, <3>2, Zenon
  <2> HIDE DEF path
  <2>8. Wiring[i].parent \in 0..i - 1
    <3>1. CASE Len(path) = 1
      BY <3>1, <2>4
    <3>2. CASE Len(path) > 1
      BY <3>2, <2>7
    <3>3. Len(path) = 1 \/ Len(path) > 1
      <4> DEFINE l == Len(path)
      <4>1. l \in Nat \ {0}
        BY <2>3
      <4> HIDE DEF l
      <4>2. l = 1 \/ l > 1
        BY <4>1
      <4> QED
        BY <4>2 DEF l
    <3> QED
      BY <3>1, <3>2, <3>3
  <2> QED
    BY <2>2, <2>3, <2>4, <2>6, <2>7, <2>8 DEF path
<1> QED
  BY <1>2, <1>3

\* The tree fills the template.
LEMMA RecycledFacts ==
    ASSUME NEW m \in Maps, NEW root \in Tokens
    PROVE  LET t == RecycledTree(m, root)
               Above(i) == IF Wiring[i].parent = 0 THEN root ELSE t[Wiring[i].parent].tok
           IN  /\ GoodTree(t) /\ Len(t) = Len(Template)
               /\ \A i \in 1..Len(Template) :
                     /\ t[i].parent = Wiring[i].parent
                     /\ t[i].tok = NextTok(m, Above(i), Wiring[i].slot)
<1> DEFINE n == Len(Template)
           from == [i \in 1..n |-> Wiring[i].parent]
           G == [x \in Tokens \X (1..n) |-> NextTok(m, x[1], Wiring[x[2]].slot)]
           Body(f) == [i \in 0..n |->
                         IF i = 0 THEN root
                         ELSE LET above == f[Wiring[i].parent]
                              IN  NextTok(m, above, Wiring[i].slot)]
           filled == CHOOSE f : f = Body(f)
           t == RecycledTree(m, root)
<1>1. /\ n \in Nat /\ DOMAIN Template = 1..n
      /\ \A i \in 1..n : Wiring[i].parent \in 0..i - 1 /\ Wiring[i].slot \in 1..RowWidth
  BY WiringFacts
<1>2. ASSUME NEW v \in Tokens, NEW i \in 1..n PROVE NextTok(m, v, Wiring[i].slot) \in Tokens
  <2>1. Wiring[i].slot \in 1..RowWidth
    BY <1>1
  <2>2. m \in [DOMAIN m -> [1..RowWidth -> Tokens]]
    BY MapFacts
  <2> QED
    BY <2>1, <2>2, PadIsToken DEF NextTok
<1>3. Closed(G, n, Tokens)
  BY <1>2 DEF Closed
<1>4. \A v \in Tokens : \A i \in 1..n : G[<<v, i>>] = NextTok(m, v, Wiring[i].slot)
  OBVIOUS
<1>5. Earlier(from, n)
  BY <1>1 DEF Earlier
<1>6. \A i \in 1..n : from[i] = Wiring[i].parent
  OBVIOUS
<1>7. t = [i \in 1..n |-> [tok |-> filled[i], parent |-> Wiring[i].parent]]
  BY <1>1 DEF RecycledTree
<1> HIDE DEF G, from, n
<1>8. PICK f : Unrolled(f, n, Tokens, root, from, G)
  BY <1>1, <1>3, <1>5, Recursion
<1>9. /\ f \in [0..n -> Tokens] /\ f[0] = root
      /\ \A i \in 1..n : f[i] = G[<<f[from[i]], i>>]
  BY <1>8 DEF Unrolled
<1>10. \A i \in 1..n : f[i] = NextTok(m, f[Wiring[i].parent], Wiring[i].slot)
  <2> SUFFICES ASSUME NEW i \in 1..n
               PROVE  f[i] = NextTok(m, f[Wiring[i].parent], Wiring[i].slot)
    OBVIOUS
  <2>1. Wiring[i].parent \in 0..n
    BY <1>1
  <2>2. f[Wiring[i].parent] \in Tokens
    BY <1>9, <2>1
  <2> QED
    BY <2>2, <1>4, <1>6, <1>9
<1>11. f = Body(f)
  BY <1>9, <1>10
<1>12. filled = Body(filled)
  <2> HIDE DEF Body
  <2> QED
    BY <1>11
<1> HIDE DEF filled, t
<1>13. filled[0] = root /\ \A i \in 1..n : filled[i] = NextTok(m, filled[Wiring[i].parent], Wiring[i].slot)
  <2>1. ASSUME NEW i \in 0..n
        PROVE  filled[i] = IF i = 0 THEN root
                           ELSE NextTok(m, filled[Wiring[i].parent], Wiring[i].slot)
    BY <1>12
  <2>2. \A i \in 1..n : i \in 0..n /\ i # 0
    BY <1>1
  <2>3. 0 \in 0..n
    BY <1>1
  <2> QED
    BY <2>1, <2>2, <2>3
<1>14. \A i \in 0..n : filled[i] \in Tokens
  <2> DEFINE S == {k \in 0..n : \A i \in 0..k : filled[i] \in Tokens}
  <2>1. 0 \in S
    BY <1>1, <1>13
  <2>2. ASSUME NEW k \in 0..n - 1, k \in S PROVE k + 1 \in S
    <3>1. k + 1 \in 1..n /\ Wiring[k + 1].parent \in 0..k
      BY <1>1
    <3>2. filled[Wiring[k + 1].parent] \in Tokens
      BY <2>2, <3>1
    <3>3. filled[k + 1] \in Tokens
      BY <1>2, <1>13, <3>1, <3>2
    <3>4. \A i \in 0..k + 1 : i \in 0..k \/ i = k + 1
      OBVIOUS
    <3> QED
      BY <2>2, <3>1, <3>3, <3>4
  <2>3. 0..n \subseteq S
    <3> HIDE DEF S
    <3> QED
      BY <1>1, <2>1, <2>2, Induction
  <2>4. n \in S
    BY <1>1, <2>3
  <2> QED
    BY <2>4
<1>15. ASSUME NEW i \in 1..n
       PROVE  t[i] \in Nodes /\ t[i].parent = Wiring[i].parent /\ t[i].tok = filled[i]
  <2>1. t[i] = [tok |-> filled[i], parent |-> Wiring[i].parent]
    BY <1>7
  <2>2. filled[i] \in Tokens /\ Wiring[i].parent \in Nat
    BY <1>1, <1>14
  <2> QED
    BY <2>1, <2>2 DEF Nodes
<1>16. t \in Seq(Nodes) /\ Len(t) = n
  <2>1. t \in [1..n -> Nodes]
    BY <1>7, <1>15
  <2> QED
    BY <2>1, <1>1, TupleIsSeq
<1>17. GoodTree(t)
  <2>1. \A i \in 1..n : t[i].parent < i
    BY <1>1, <1>15
  <2> QED
    BY <1>16, <2>1 DEF GoodTree
<1>18. ASSUME NEW i \in 1..n
       PROVE  t[i].tok = NextTok(m, IF Wiring[i].parent = 0 THEN root
                                    ELSE t[Wiring[i].parent].tok, Wiring[i].slot)
  <2>1. Wiring[i].parent \in 0..n
    BY <1>1
  <2>2. filled[Wiring[i].parent] = IF Wiring[i].parent = 0 THEN root
                                   ELSE t[Wiring[i].parent].tok
    BY <1>13, <1>15, <2>1
  <2> QED
    BY <1>13, <1>15, <2>2
<1> QED
  BY <1>15, <1>16, <1>17, <1>18 DEF t, n

-----------------------------------------------------------------------------
(* What the proposers learn.                                               *)

\* A row that holds anything replaces the row of its token and no other.
LEMMA ReplacedFacts ==
    ASSUME NEW m \in Maps, NEW tok \in Tokens, NEW ids \in Seq(Tokens)
    PROVE  LET new == Replaced(m, tok, ids)
           IN  /\ new \in Maps
               /\ ids = <<>> => new = m
               /\ ids # <<>> => /\ DOMAIN new = DOMAIN m \cup {tok}
                                /\ new[tok] = Padded(ids)
                                /\ \A t \in DOMAIN m : t # tok => new[t] = m[t]
<1> DEFINE new == Replaced(m, tok, ids)
           R   == [1..RowWidth -> Tokens]
<1>1. CASE ids = <<>>
  BY <1>1 DEF Replaced
<1>2. CASE ids # <<>>
  <2>1. Padded(ids) \in R
    <3>1. ASSUME NEW s \in 1..RowWidth
          PROVE  (IF s <= Len(ids) THEN ids[s] ELSE 0) \in Tokens
      <4>1. CASE s <= Len(ids)
        <5>1. s \in 1..Len(ids)
          BY <4>1, LenProperties
        <5> QED
          BY <4>1, <5>1, ElementOfSeq
      <4>2. CASE ~ (s <= Len(ids))
        BY <4>2, PadIsToken
      <4> QED
        BY <4>1, <4>2
    <3> QED
      BY <3>1 DEF Padded
  <2>2. DOMAIN m \subseteq Tokens /\ m \in [DOMAIN m -> R]
    BY MapFacts
  <2>3. new = [t \in DOMAIN m \cup {tok} |-> IF t = tok THEN Padded(ids) ELSE m[t]]
    BY <1>2 DEF Replaced
  <2> HIDE DEF R, new
  <2>4. DOMAIN new = DOMAIN m \cup {tok} /\ new \in [DOMAIN new -> R]
    BY <2>1, <2>2, <2>3
  <2>5. new \in Maps
    BY <2>2, <2>4, MapFacts DEF R
  <2>6. new[tok] = Padded(ids) /\ \A t \in DOMAIN m : t # tok => new[t] = m[t]
    BY <2>3
  <2> QED
    BY <1>2, <2>4, <2>5, <2>6 DEF new
<1> QED
  BY <1>1, <1>2

\* One position of an outcome.
RecycleAt(m, ev, realized, pos) ==
    IF Len(ev.tail) + pos = 1 THEN m
    ELSE Replaced(m, (ev.tail \o realized)[Len(ev.tail) + pos - 1], ev.ids[pos])

\* The rows after each position.
Recycles(f, m, ev, realized) ==
    /\ f[0] = m
    /\ \A pos \in 0..Len(realized) : f[pos] \in Maps
    /\ \A pos \in 1..Len(realized) : f[pos] = RecycleAt(f[pos - 1], ev, realized, pos)

\* An outcome is recycled position by position.
LEMMA RecycleFacts ==
    ASSUME NEW m \in Maps, NEW ev, NEW realized \in Seq(Tokens),
           ev.tail \in Seq(Tokens), ev.ids \in Seq(Seq(Tokens)),
           Len(ev.ids) = Len(realized)
    PROVE  \E f : /\ Recycles(f, m, ev, realized)
                  /\ Recycle(m, ev, realized) = f[Len(realized)]
<1> DEFINE n == Len(ev.tail)
           l == Len(realized)
           path == ev.tail \o realized
           G == [x \in Maps \X (1..l) |-> RecycleAt(x[1], ev, realized, x[2])]
           Body(f) == [pos \in 0..l |-> IF pos = 0 THEN m
                                        ELSE RecycleAt(f[pos - 1], ev, realized, pos)]
           after == CHOOSE f : f = Body(f)
<1>1. l \in Nat /\ n \in Nat
  BY LenProperties
<1>2. path \in Seq(Tokens) /\ Len(path) = n + l
  BY ConcatProperties
<1>3. ASSUME NEW v \in Maps, NEW pos \in 1..l
      PROVE  RecycleAt(v, ev, realized, pos) \in Maps
  <2>1. CASE n + pos = 1
    BY <2>1 DEF RecycleAt
  <2>2. CASE n + pos # 1
    <3> HIDE DEF n, l, path
    <3>1. n + pos - 1 \in 1..n + l
      BY <1>1, <2>2
    <3>2. path[n + pos - 1] \in Tokens
      BY <1>2, <3>1, ElementOfSeq
    <3>3. ev.ids[pos] \in Seq(Tokens)
      BY ElementOfSeq DEF l
    <3>4. RecycleAt(v, ev, realized, pos) = Replaced(v, path[n + pos - 1], ev.ids[pos])
      BY <2>2 DEF RecycleAt, n, path
    <3> DEFINE tok == path[n + pos - 1]
               ids == ev.ids[pos]
    <3>5. Replaced(v, tok, ids) \in Maps
      <4> HIDE DEF tok, ids
      <4>1. tok \in Tokens /\ ids \in Seq(Tokens)
        BY <3>2, <3>3 DEF tok, ids
      <4> QED
        BY <4>1, ReplacedFacts
    <3> QED
      BY <3>4, <3>5
  <2> QED
    BY <2>1, <2>2
<1>4. Closed(G, l, Maps)
  BY <1>3 DEF Closed
<1>5. \A v \in Maps : \A pos \in 1..l : G[<<v, pos>>] = RecycleAt(v, ev, realized, pos)
  OBVIOUS
<1>6. Recycle(m, ev, realized) = after[l]
  BY DEF Recycle, RecycleAt
<1> HIDE DEF G, l, n, path, Body, after
<1>7. PICK f : /\ f \in [0..l -> Maps] /\ f[0] = m
               /\ \A pos \in 1..l : f[pos] = G[<<f[pos - 1], pos>>]
  <2>1. l \in Nat /\ m \in Maps /\ Closed(G, l, Maps)
    BY <1>1, <1>4
  <2>2. PICK g : Iterated(g, l, Maps, m, G)
    BY <2>1, SimpleRecursion
  <2> QED
    BY <2>2 DEF Iterated
<1>8. \A pos \in 1..l : f[pos] = RecycleAt(f[pos - 1], ev, realized, pos)
  <2> SUFFICES ASSUME NEW pos \in 1..l
               PROVE  f[pos] = RecycleAt(f[pos - 1], ev, realized, pos)
    OBVIOUS
  <2>1. f[pos - 1] \in Maps
    BY <1>1, <1>7
  <2> QED
    BY <2>1, <1>5, <1>7
<1>9. f = Body(f)
  BY <1>7, <1>8 DEF Body
<1>10. after = Body(after)
  BY <1>9 DEF after
<1> USE DEF Body
<1>11. /\ after[0] = m
       /\ \A pos \in 1..l : after[pos] = RecycleAt(after[pos - 1], ev, realized, pos)
  BY <1>1, <1>10
<1>12. \A pos \in 0..l : after[pos] \in Maps
  <2> DEFINE S == {pos \in 0..l : after[pos] \in Maps}
  <2>1. 0 \in S
    BY <1>1, <1>11
  <2>2. ASSUME NEW pos \in 0..l - 1, pos \in S PROVE pos + 1 \in S
    <3>1. pos + 1 \in 1..l /\ (pos + 1) - 1 = pos
      BY <1>1
    <3>2. after[pos + 1] = RecycleAt(after[pos], ev, realized, pos + 1)
      BY <1>11, <3>1
    <3>3. after[pos] \in Maps
      BY <2>2
    <3> QED
      BY <1>3, <3>1, <3>2, <3>3
  <2> HIDE DEF S
  <2>3. 0..l \subseteq S
    BY <1>1, <2>1, <2>2, Induction
  <2> QED
    BY <2>3 DEF S
<1>13. Recycles(after, m, ev, realized)
  BY <1>11, <1>12 DEF Recycles, l
<1> QED
  BY <1>6, <1>13 DEF l

-----------------------------------------------------------------------------
(* Dense keys.                                                             *)

Indexes == [stream : Seq(Tokens), offsets : Seq(Nat),
            keys : Seq(Seq(Tokens)), buf : Seq(Seq(Tokens))]

\* Every key has its offset, which lies in the stream.
GoodIndex(idx) ==
    /\ idx \in Indexes
    /\ Len(idx.offsets) = Len(idx.keys) + Len(idx.buf)
    /\ \A j \in 1..Len(idx.offsets) : idx.offsets[j] < Len(idx.stream)

\* A flush keeps every key and its offset.
LEMMA FlushFacts ==
    ASSUME NEW idx, GoodIndex(idx)
    PROVE  /\ GoodIndex(Flush(idx)) /\ Len(Flush(idx).keys) = Len(idx.offsets)
           /\ Flush(idx).stream = idx.stream /\ Flush(idx).offsets = idx.offsets
           /\ Flush(idx).keys \o Flush(idx).buf = idx.keys \o idx.buf
<1> DEFINE new == Flush(idx)
           all == idx.keys \o idx.buf
<1>1. /\ idx \in Indexes /\ idx.keys \in Seq(Seq(Tokens)) /\ idx.buf \in Seq(Seq(Tokens))
      /\ Len(idx.offsets) = Len(idx.keys) + Len(idx.buf)
      /\ \A j \in 1..Len(idx.offsets) : idx.offsets[j] < Len(idx.stream)
  BY DEF GoodIndex, Indexes
<1>2. all \in Seq(Seq(Tokens)) /\ Len(all) = Len(idx.keys) + Len(idx.buf)
  BY <1>1, ConcatProperties
<1>3. /\ new.keys = all /\ new.buf = <<>> /\ new.stream = idx.stream
      /\ new.offsets = idx.offsets
  BY <1>1 DEF Flush, Indexes
<1> HIDE DEF all
<1>4. new \in Indexes
  <2>1. new = [idx EXCEPT !.keys = all, !.buf = <<>>]
    BY DEF Flush, all
  <2>2. <<>> \in Seq(Seq(Tokens))
    BY EmptySeq
  <2> HIDE DEF new
  <2> QED
    BY <1>1, <1>2, <2>1, <2>2 DEF Indexes
<1>5. Len(<<>>) = 0 /\ Len(all) \in Nat /\ all \o <<>> = all
  BY <1>2, LenProperties, ConcatEmptySeq
<1> HIDE DEF new
<1>6. GoodIndex(new)
  <2>1. Len(new.keys) + Len(new.buf) = Len(all)
    BY <1>3, <1>5
  <2> QED
    BY <1>1, <1>2, <1>3, <1>4, <2>1 DEF GoodIndex
<1> QED
  BY <1>1, <1>2, <1>3, <1>5, <1>6 DEF new, all

\* To append to the second of two sequences is to append to both.
LEMMA ConcatAppend ==
    ASSUME NEW S, NEW s \in Seq(S), NEW t \in Seq(S), NEW e \in S
    PROVE  s \o Append(t, e) = Append(s \o t, e)
<1>1. <<e>> \in Seq(S)
  OBVIOUS
<1> DEFINE one == <<e>>
<1>2. s \o t \in Seq(S)
  BY ConcatProperties
<1>3. Append(t, e) = t \o one /\ Append(s \o t, e) = (s \o t) \o one
  BY <1>2, AppendIsConcat
<1>4. one \in Seq(S)
  BY <1>1
<1> HIDE DEF one
<1>5. (s \o t) \o one = s \o (t \o one)
  BY <1>4, ConcatAssociative
<1> QED
  BY <1>3, <1>5

\* A key is added with the offset of the last token of the stream.
LEMMA AddKeyFacts ==
    ASSUME NEW idx, GoodIndex(idx), idx.stream # <<>>, NEW window \in Seq(Tokens)
    PROVE  LET new == AddKey(idx, window)
           IN  /\ GoodIndex(new) /\ new.stream = idx.stream
               /\ new.offsets = Append(idx.offsets, Len(idx.stream) - 1)
               /\ new.keys \o new.buf = Append(idx.keys \o idx.buf, window)
<1> DEFINE added == [idx EXCEPT !.buf = Append(@, window),
                                !.offsets = Append(@, Len(idx.stream) - 1)]
           last  == Len(idx.stream) - 1
<1>1. /\ idx \in Indexes /\ idx.keys \in Seq(Seq(Tokens)) /\ idx.buf \in Seq(Seq(Tokens))
      /\ idx.offsets \in Seq(Nat) /\ idx.stream \in Seq(Tokens)
      /\ Len(idx.offsets) = Len(idx.keys) + Len(idx.buf)
      /\ \A j \in 1..Len(idx.offsets) : idx.offsets[j] < Len(idx.stream)
  BY DEF GoodIndex, Indexes
<1>2. /\ Len(idx.keys) \in Nat /\ Len(idx.buf) \in Nat /\ Len(idx.offsets) \in Nat
      /\ Len(idx.stream) \in Nat /\ last \in Nat
  <2>1. /\ Len(idx.keys) \in Nat /\ Len(idx.buf) \in Nat /\ Len(idx.offsets) \in Nat
        /\ Len(idx.stream) \in Nat /\ Len(idx.stream) # 0
    BY <1>1, LenProperties, EmptySeq
  <2> QED
    BY <2>1
<1>3. /\ Append(idx.buf, window) \in Seq(Seq(Tokens))
      /\ Len(Append(idx.buf, window)) = Len(idx.buf) + 1
  BY <1>1, AppendProperties
<1>4. /\ Append(idx.offsets, last) \in Seq(Nat)
      /\ Len(Append(idx.offsets, last)) = Len(idx.offsets) + 1
      /\ \A j \in 1..Len(idx.offsets) : Append(idx.offsets, last)[j] = idx.offsets[j]
      /\ Append(idx.offsets, last)[Len(idx.offsets) + 1] = last
  <2> HIDE DEF last
  <2> DEFINE s == idx.offsets
  <2>1. s \in Seq(Nat) /\ last \in Nat
    BY <1>1, <1>2
  <2> HIDE DEF s
  <2> QED
    BY <2>1, AppendProperties DEF s
<1>5. /\ added.buf = Append(idx.buf, window) /\ added.offsets = Append(idx.offsets, last)
      /\ added.keys = idx.keys /\ added.stream = idx.stream
  BY <1>1 DEF Indexes
<1>6. added \in Indexes
  BY <1>1, <1>3, <1>4 DEF Indexes
<1>7. last < Len(idx.stream)
  BY <1>2
<1>8. AddKey(idx, window) = IF Len(added.buf) >= AddBatch THEN Flush(added) ELSE added
  BY DEF AddKey
<1> HIDE DEF added, last
<1>9. GoodIndex(added)
  <2>1. ASSUME NEW j \in 1..Len(added.offsets) PROVE added.offsets[j] < Len(added.stream)
    <3>1. j \in 1..Len(idx.offsets) \/ j = Len(idx.offsets) + 1
      BY <1>2, <1>4, <1>5
    <3> QED
      BY <3>1, <1>1, <1>4, <1>5, <1>7
  <2>2. Len(added.offsets) = Len(added.keys) + Len(added.buf)
    <3>1. Len(added.offsets) = Len(idx.offsets) + 1 /\ Len(added.buf) = Len(idx.buf) + 1
      BY <1>3, <1>4, <1>5
    <3>2. Len(idx.offsets) = Len(idx.keys) + Len(idx.buf) /\ added.keys = idx.keys
      BY <1>1, <1>5
    <3> DEFINE a == Len(idx.keys)
               b == Len(idx.buf)
    <3>3. a \in Nat /\ b \in Nat
      BY <1>2
    <3> HIDE DEF a, b
    <3>4. (a + b) + 1 = a + (b + 1)
      BY <3>3
    <3> QED
      BY <3>1, <3>2, <3>4 DEF a, b
  <2> QED
    BY <1>6, <2>1, <2>2 DEF GoodIndex
<1>10. added.keys \o added.buf = Append(idx.keys \o idx.buf, window)
  <2> DEFINE T == Seq(Tokens)
  <2>1. idx.keys \in Seq(T) /\ idx.buf \in Seq(T) /\ window \in T
    BY <1>1
  <2> HIDE DEF T
  <2>2. idx.keys \o Append(idx.buf, window) = Append(idx.keys \o idx.buf, window)
    <3> DEFINE k == idx.keys
               b == idx.buf
    <3>1. k \in Seq(T) /\ b \in Seq(T) /\ window \in T
      BY <2>1
    <3> HIDE DEF k, b
    <3>2. k \o Append(b, window) = Append(k \o b, window)
      BY <3>1, ConcatAppend
    <3> QED
      BY <3>2 DEF k, b
  <2> QED
    BY <2>2, <1>5
<1>11. CASE Len(added.buf) >= AddBatch
  BY <1>5, <1>8, <1>9, <1>10, <1>11, FlushFacts DEF last
<1>12. CASE ~ (Len(added.buf) >= AddBatch)
  BY <1>5, <1>8, <1>9, <1>10, <1>12 DEF last
<1> QED
  BY <1>11, <1>12

\* The end of a sequence, as far as it goes.
LEMMA LastUpToFacts ==
    ASSUME NEW S, NEW s \in Seq(S), NEW n \in Nat
    PROVE  /\ LastUpTo(s, n) \in Seq(S)
           /\ Len(LastUpTo(s, n)) = Lesser(Len(s), n)
           /\ \A i \in 1..Lesser(Len(s), n) :
                 LastUpTo(s, n)[i] = s[Len(s) - Lesser(Len(s), n) + i]
<1> DEFINE l == Len(s)
           k == Lesser(l, n)
           m == Greater(0, l - n)
<1>1. l \in Nat /\ l <= Len(s)
  BY LenProperties
<1>2. m \in Nat /\ m <= l /\ m = l - k /\ k = l - m
  <2> HIDE DEF l
  <2> QED
    BY <1>1 DEF Greater, Lesser
<1>3. LastUpTo(s, n) = SubSeq(s, m + 1, l)
  BY DEF LastUpTo
<1> HIDE DEF m, l, k
<1>4. /\ SubSeq(s, m + 1, l) \in Seq(S) /\ Len(SubSeq(s, m + 1, l)) = l - m
      /\ \A i \in 1..l - m : SubSeq(s, m + 1, l)[i] = s[m + i]
  BY <1>1, <1>2, PartFacts
<1>5. /\ LastUpTo(s, n) \in Seq(S) /\ Len(LastUpTo(s, n)) = k
      /\ \A i \in 1..k : LastUpTo(s, n)[i] = s[l - k + i]
  BY <1>2, <1>3, <1>4
<1> QED
  BY <1>5 DEF k, l

\* The beginning of a sequence.
LEMMA BeginFacts ==
    ASSUME NEW S, NEW s \in Seq(S), NEW n \in Nat, n <= Len(s)
    PROVE  /\ SubSeq(s, 1, n) \in Seq(S) /\ Len(SubSeq(s, 1, n)) = n
           /\ \A i \in 1..n : SubSeq(s, 1, n)[i] = s[i]
<1>1. 0 \in Nat /\ 0 <= n /\ 0 + 1 = 1 /\ n - 0 = n
  OBVIOUS
<1>2. /\ SubSeq(s, 0 + 1, n) \in Seq(S) /\ Len(SubSeq(s, 0 + 1, n)) = n - 0
      /\ \A i \in 1..n - 0 : SubSeq(s, 0 + 1, n)[i] = s[0 + i]
  BY <1>1, PartFacts
<1>3. \A i \in 1..n : 0 + i = i
  OBVIOUS
<1> QED
  BY <1>1, <1>2, <1>3

\* The window that ends at a position of an outcome.
WindowAt(ev, realized, pos) ==
    LastUpTo(LastUpTo(ev.tail, DenseWindow) \o SubSeq(realized, 1, pos), DenseWindow)

\* A window is made of tokens.
LEMMA WindowIsSeq ==
    ASSUME NEW ev, ev.tail \in Seq(Tokens), NEW realized \in Seq(Tokens),
           NEW pos \in 1..Len(realized)
    PROVE  WindowAt(ev, realized, pos) \in Seq(Tokens)
<1> DEFINE tail  == ev.tail
           end   == LastUpTo(tail, DenseWindow)
           begin == SubSeq(realized, 1, pos)
<1>1. tail \in Seq(Tokens) /\ DenseWindow \in Nat
  BY DenseConstants
<1>2. pos \in Nat /\ pos <= Len(realized)
  BY LenProperties
<1> HIDE DEF tail
<1>3. end \in Seq(Tokens)
  BY <1>1, LastUpToFacts
<1>4. begin \in Seq(Tokens)
  BY <1>2, BeginFacts
<1> HIDE DEF end, begin
<1>5. end \o begin \in Seq(Tokens)
  BY <1>3, <1>4, ConcatProperties
<1>6. LastUpTo(end \o begin, DenseWindow) \in Seq(Tokens)
  BY <1>1, <1>5, LastUpToFacts
<1> QED
  BY <1>6 DEF WindowAt, end, begin, tail

\* One position of an outcome.
AbsorbAt(idx, ev, realized, pos) ==
    LET longer == [idx EXCEPT !.stream = Append(@, realized[pos])]
    IN  IF Len(WindowAt(ev, realized, pos)) < 2 THEN longer
        ELSE AddKey(longer, WindowAt(ev, realized, pos))

\* A position adds its token to the stream and, where the window is of two
\* tokens or more, a key that ends at it.
LEMMA AbsorbAtFacts ==
    ASSUME NEW idx, GoodIndex(idx), NEW ev, ev.tail \in Seq(Tokens),
           NEW realized \in Seq(Tokens), NEW pos \in 1..Len(realized)
    PROVE  LET new    == AbsorbAt(idx, ev, realized, pos)
               window == WindowAt(ev, realized, pos)
           IN  /\ GoodIndex(new)
               /\ new.stream = Append(idx.stream, realized[pos])
               /\ Len(window) < 2 => /\ new.offsets = idx.offsets
                                     /\ new.keys \o new.buf = idx.keys \o idx.buf
               /\ ~ (Len(window) < 2) =>
                     /\ new.offsets = Append(idx.offsets, Len(idx.stream))
                     /\ new.keys \o new.buf = Append(idx.keys \o idx.buf, window)
<1> DEFINE stream == idx.stream
           tok    == realized[pos]
           window == WindowAt(ev, realized, pos)
           longer == [idx EXCEPT !.stream = Append(@, tok)]
<1>1. /\ idx \in Indexes /\ stream \in Seq(Tokens) /\ tok \in Tokens
      /\ Len(idx.offsets) = Len(idx.keys) + Len(idx.buf)
      /\ idx.offsets \in Seq(Nat)
      /\ \A j \in 1..Len(idx.offsets) : idx.offsets[j] < Len(stream)
  BY ElementOfSeq DEF GoodIndex, Indexes
<1>2. Len(stream) \in Nat /\ window \in Seq(Tokens)
  BY <1>1, LenProperties, WindowIsSeq
<1>3. longer = [idx EXCEPT !.stream = Append(stream, tok)]
  BY <1>1 DEF Indexes
<1> HIDE DEF stream, tok, window
<1>4. Append(stream, tok) \in Seq(Tokens) /\ Len(Append(stream, tok)) = Len(stream) + 1
  BY <1>1, AppendProperties
<1>5. /\ longer.stream = Append(stream, tok) /\ longer.offsets = idx.offsets
      /\ longer.keys = idx.keys /\ longer.buf = idx.buf /\ longer \in Indexes
  <2> HIDE DEF longer
  <2> QED
    BY <1>1, <1>3, <1>4 DEF Indexes
<1> HIDE DEF longer
<1>6. GoodIndex(longer)
  <2>1. ASSUME NEW j \in 1..Len(longer.offsets) PROVE longer.offsets[j] < Len(longer.stream)
    <3> DEFINE o == idx.offsets[j]
               l == Len(stream)
    <3>1. o \in Nat /\ l \in Nat /\ o < l
      BY <1>1, <1>2, <1>5, <2>1, ElementOfSeq
    <3>2. longer.offsets[j] = o /\ Len(longer.stream) = l + 1
      BY <1>4, <1>5
    <3> HIDE DEF o, l
    <3> QED
      BY <3>1, <3>2
  <2> QED
    BY <2>1, <1>1, <1>5 DEF GoodIndex
<1>7. longer.stream # <<>> /\ Len(longer.stream) - 1 = Len(stream)
  <2> DEFINE l == Len(stream)
             s == longer.stream
  <2>1. l \in Nat /\ s \in Seq(Tokens) /\ Len(s) = l + 1
    BY <1>2, <1>4, <1>5
  <2> HIDE DEF l, s
  <2>2. Len(s) # 0 /\ Len(s) - 1 = l
    BY <2>1
  <2>3. s # <<>>
    BY <2>2, EmptySeq
  <2> QED
    BY <2>2, <2>3 DEF l, s
<1>8. AbsorbAt(idx, ev, realized, pos) = IF Len(window) < 2 THEN longer
                                         ELSE AddKey(longer, window)
  BY DEF AbsorbAt, longer, window, tok
<1>9. CASE Len(window) < 2
  BY <1>5, <1>6, <1>8, <1>9 DEF window, stream, tok
<1>10. CASE ~ (Len(window) < 2)
  <2>1. LET new == AddKey(longer, window)
        IN  /\ GoodIndex(new) /\ new.stream = longer.stream
            /\ new.offsets = Append(longer.offsets, Len(longer.stream) - 1)
            /\ new.keys \o new.buf = Append(longer.keys \o longer.buf, window)
    BY <1>2, <1>6, <1>7, AddKeyFacts
  <2> QED
    BY <2>1, <1>5, <1>7, <1>8, <1>10 DEF window, stream, tok
<1> QED
  BY <1>9, <1>10

\* The index after each position.
Absorbs(f, idx, ev, realized) ==
    /\ f[0] = idx
    /\ \A pos \in 0..Len(realized) : GoodIndex(f[pos])
    /\ \A pos \in 1..Len(realized) : f[pos] = AbsorbAt(f[pos - 1], ev, realized, pos)

\* An outcome is absorbed position by position.
LEMMA AbsorbFacts ==
    ASSUME NEW idx, GoodIndex(idx), NEW ev, ev.tail \in Seq(Tokens),
           NEW realized \in Seq(Tokens)
    PROVE  \E f : /\ Absorbs(f, idx, ev, realized)
                  /\ Absorb(idx, ev, realized) = f[Len(realized)]
<1> DEFINE l == Len(realized)
           V == {x \in Indexes : GoodIndex(x)}
           G == [x \in V \X (1..l) |-> AbsorbAt(x[1], ev, realized, x[2])]
           Body(f) == [pos \in 0..l |-> IF pos = 0 THEN idx
                                        ELSE AbsorbAt(f[pos - 1], ev, realized, pos)]
           after == CHOOSE f : f = Body(f)
<1>1. l \in Nat /\ idx \in V /\ \A x : x \in V <=> GoodIndex(x)
  BY LenProperties DEF GoodIndex
<1>2. ASSUME NEW v \in V, NEW pos \in 1..l
      PROVE  AbsorbAt(v, ev, realized, pos) \in V
  <2>1. GoodIndex(v)
    OBVIOUS
  <2>2. GoodIndex(AbsorbAt(v, ev, realized, pos))
    BY <2>1, AbsorbAtFacts
  <2> QED
    BY <1>1, <2>2
<1>3. \A v \in V : \A pos \in 1..l : G[<<v, pos>>] = AbsorbAt(v, ev, realized, pos)
  OBVIOUS
<1>4. Closed(G, l, V)
  <2> HIDE DEF G, V, l
  <2> QED
    BY <1>2, <1>3 DEF Closed
<1>5. Absorb(idx, ev, realized) = after[l]
  BY DEF Absorb, AbsorbAt, WindowAt
<1> HIDE DEF G, l, V, Body, after
<1>6. PICK f : /\ f \in [0..l -> V] /\ f[0] = idx
               /\ \A pos \in 1..l : f[pos] = G[<<f[pos - 1], pos>>]
  <2>1. l \in Nat /\ idx \in V /\ Closed(G, l, V)
    BY <1>1, <1>4
  <2>2. PICK g : Iterated(g, l, V, idx, G)
    BY <2>1, SimpleRecursion
  <2> QED
    BY <2>2 DEF Iterated
<1>7. \A pos \in 1..l : f[pos] = AbsorbAt(f[pos - 1], ev, realized, pos)
  <2> SUFFICES ASSUME NEW pos \in 1..l
               PROVE  f[pos] = AbsorbAt(f[pos - 1], ev, realized, pos)
    OBVIOUS
  <2>1. f[pos - 1] \in V
    BY <1>1, <1>6
  <2> QED
    BY <2>1, <1>3, <1>6
<1>8. f = Body(f)
  BY <1>6, <1>7 DEF Body
<1>9. after = Body(after)
  BY <1>8 DEF after
<1>10. /\ after[0] = idx
       /\ \A pos \in 1..l : after[pos] = AbsorbAt(after[pos - 1], ev, realized, pos)
  BY <1>1, <1>9 DEF Body
<1>11. \A pos \in 0..l : GoodIndex(after[pos])
  <2> DEFINE S == {pos \in 0..l : after[pos] \in V}
  <2>1. 0 \in S
    BY <1>1, <1>10
  <2>2. ASSUME NEW pos \in 0..l - 1, pos \in S PROVE pos + 1 \in S
    <3>1. pos + 1 \in 1..l /\ (pos + 1) - 1 = pos
      BY <1>1
    <3>2. after[pos + 1] = AbsorbAt(after[pos], ev, realized, pos + 1)
      BY <1>10, <3>1
    <3>3. after[pos] \in V
      BY <2>2
    <3> QED
      BY <1>2, <3>1, <3>2, <3>3
  <2> HIDE DEF S
  <2>3. 0..l \subseteq S
    BY <1>1, <2>1, <2>2, Induction
  <2> QED
    BY <2>3, <1>1 DEF S
<1>12. Absorbs(after, idx, ev, realized)
  BY <1>10, <1>11 DEF Absorbs, l
<1> QED
  BY <1>5, <1>12 DEF l

\* A continuation is a chain within the budget.
LEMMA ContinuationFacts ==
    ASSUME NEW idx, GoodIndex(idx), NEW id \in 1..Len(idx.offsets), NEW budget \in Nat
    PROVE  LET t == Continuation(idx, id, budget)
           IN  GoodTree(t) /\ SiblingsDiffer(t) /\ Len(t) <= budget
<1> DEFINE stream == idx.stream
           o == idx.offsets[id] + 1
           e == Lesser(Len(stream), o + budget)
           c == SubSeq(stream, o + 1, e)
           t == [i \in 1..Len(c) |-> [tok |-> c[i], parent |-> i - 1]]
<1>1. stream \in Seq(Tokens) /\ Len(stream) \in Nat /\ o \in Nat /\ o <= Len(stream)
  <2>1. /\ stream \in Seq(Tokens) /\ idx.offsets \in Seq(Nat)
        /\ idx.offsets[id] < Len(stream)
    BY DEF GoodIndex, Indexes
  <2> DEFINE place == idx.offsets[id]
             l   == Len(stream)
  <2>2. place \in Nat /\ l \in Nat /\ place < l
    BY <2>1, ElementOfSeq, LenProperties
  <2> HIDE DEF place, l
  <2>3. place + 1 \in Nat /\ place + 1 <= l
    BY <2>2
  <2> QED
    BY <2>1, <2>2, <2>3 DEF place, l
<1>2. Continuation(idx, id, budget) = t
  <2>1. idx.offsets[id] + 2 = o + 1
    <3>1. idx.offsets[id] \in Nat
      <4>1. idx.offsets \in Seq(Nat)
        BY DEF GoodIndex, Indexes
      <4> QED
        BY <4>1, ElementOfSeq
    <3> QED
      BY <3>1
  <2> QED
    BY <2>1 DEF Continuation
<1> HIDE DEF stream, o
<1>3. e \in Nat /\ o <= e /\ e <= Len(stream) /\ e - o <= budget
  BY <1>1 DEF Lesser
<1> HIDE DEF e
<1>4. c \in Seq(Tokens) /\ Len(c) = e - o
  BY <1>1, <1>3, PartFacts
<1> HIDE DEF c
<1>5. Len(c) \in Nat /\ Len(c) <= budget
  BY <1>4, LenProperties, <1>3
<1>6. ASSUME NEW i \in 1..Len(c)
      PROVE  t[i] \in Nodes /\ t[i].parent = i - 1 /\ t[i].parent < i
  <2>1. c[i] \in Tokens /\ i - 1 \in Nat /\ i - 1 < i
    BY <1>4, <1>5, ElementOfSeq
  <2> QED
    BY <2>1 DEF Nodes
<1>7. t \in [1..Len(c) -> Nodes]
  BY <1>6
<1> HIDE DEF t
<1>8. t \in Seq(Nodes) /\ Len(t) = Len(c)
  BY <1>5, <1>7, TupleIsSeq
<1>9. GoodTree(t)
  BY <1>6, <1>8 DEF GoodTree
<1>10. SiblingsDiffer(t)
  <2> SUFFICES ASSUME NEW i \in 1..Len(c), NEW j \in 1..Len(c), t[i].parent = t[j].parent
               PROVE  i = j
    BY <1>8 DEF SiblingsDiffer
  <2>1. i - 1 = j - 1
    BY <1>6
  <2> QED
    BY <2>1
<1> QED
  BY <1>2, <1>5, <1>8, <1>9, <1>10

-----------------------------------------------------------------------------
(* Sequences of sequences put together.                                    *)

Join(a, b) == a \o b

\* Sequences put together.
LEMMA JoinFacts ==
    ASSUME NEW S, NEW a \in Seq(S), NEW b \in Seq(S), NEW x \in Seq(S)
    PROVE  /\ Join(a, b) \in Seq(S) /\ Join(a, Join(b, x)) = Join(Join(a, b), x)
           /\ Join(a, <<>>) = a
<1>1. Join(a, b) \in Seq(S)
  BY ConcatProperties DEF Join
<1>2. Join(a, Join(b, x)) = Join(Join(a, b), x)
  BY ConcatAssociative DEF Join
<1>3. Join(a, <<>>) = a
  BY ConcatEmptySeq DEF Join
<1> QED
  BY <1>1, <1>2, <1>3

Joins(f, seqs, S) ==
    /\ f[0] = <<>>
    /\ \A i \in 0..Len(seqs) : f[i] \in Seq(S)
    /\ \A i \in 1..Len(seqs) : f[i] = Join(f[i - 1], seqs[i])

\* A sequence of sequences is put together one after the other.
LEMMA FlattenFacts ==
    ASSUME NEW S, NEW seqs \in Seq(Seq(S))
    PROVE  \E f : Joins(f, seqs, S) /\ Ext!FlattenSeq(seqs) = f[Len(seqs)]
<1> DEFINE n == Len(seqs)
           V == Seq(S)
           E == <<>>
           G == [x \in V \X (1..n) |-> x[1] \o seqs[x[2]]]
           Body(h) == [i \in 1..n |-> IF i = 1 THEN seqs[i] ELSE h[i - 1] \o seqs[i]]
           flatten == CHOOSE h : h = Body(h)
<1>1. n \in Nat /\ E \in V /\ \A i \in 1..n : seqs[i] \in V
  <2>1. n \in Nat
    BY LenProperties
  <2>2. E \in V
    BY EmptySeq
  <2> DEFINE T == Seq(S)
  <2>3. seqs \in Seq(T)
    OBVIOUS
  <2> HIDE DEF T
  <2>4. \A i \in 1..Len(seqs) : seqs[i] \in T
    BY <2>3, ElementOfSeq
  <2> QED
    BY <2>1, <2>2, <2>4 DEF T
<1>2. Ext!FlattenSeq(seqs) = IF n = 0 THEN seqs ELSE flatten[n]
  BY DEF Ext!FlattenSeq
<1>3. \A v \in V : \A i \in 1..n : G[<<v, i>>] = v \o seqs[i] /\ v \o seqs[i] \in V
  <2>1. ASSUME NEW v \in V, NEW i \in 1..n PROVE v \o seqs[i] \in V
    <3>1. seqs[i] \in V
      BY <1>1
    <3> DEFINE e == seqs[i]
    <3> HIDE DEF e
    <3>2. v \o e \in Seq(S)
      BY <3>1, ConcatProperties DEF e
    <3> QED
      BY <3>2 DEF e
  <2>2. ASSUME NEW v \in V, NEW i \in 1..n PROVE G[<<v, i>>] = v \o seqs[i]
    OBVIOUS
  <2> QED
    BY <2>1, <2>2
<1>4. Closed(G, n, V)
  <2> HIDE DEF G, V, n
  <2>1. ASSUME NEW v \in V, NEW i \in 1..n PROVE G[<<v, i>>] \in V
    BY <1>3
  <2> QED
    BY <2>1 DEF Closed
<1> HIDE DEF n, V, E, G, Body, flatten
<1>5. PICK f : /\ f \in [0..n -> V] /\ f[0] = E
               /\ \A i \in 1..n : f[i] = G[<<f[i - 1], i>>]
  <2>1. n \in Nat /\ E \in V /\ Closed(G, n, V)
    BY <1>1, <1>4
  <2>2. PICK g : Iterated(g, n, V, E, G)
    BY <2>1, SimpleRecursion
  <2> QED
    BY <2>2 DEF Iterated
<1>6. \A i \in 1..n : f[i] = f[i - 1] \o seqs[i]
  <2> SUFFICES ASSUME NEW i \in 1..n PROVE f[i] = f[i - 1] \o seqs[i]
    OBVIOUS
  <2>1. f[i - 1] \in V
    BY <1>1, <1>5
  <2> QED
    BY <2>1, <1>3, <1>5
<1>7. Joins(f, seqs, S)
  BY <1>5, <1>6 DEF Joins, n, V, E, Join
<1>8. CASE n = 0
  <2>1. seqs = <<>>
    BY <1>8, EmptySeq DEF n
  <2> QED
    BY <1>2, <1>5, <1>7, <1>8, <2>1 DEF n, E
<1>9. CASE n # 0
  <2> DEFINE g == [i \in 1..n |-> f[i]]
  <2>1. f[1] = seqs[1]
    <3>1. 1 \in 1..n /\ 1 - 1 = 0
      BY <1>1, <1>9
    <3>2. f[1] = E \o seqs[1] /\ seqs[1] \in Seq(S)
      BY <1>1, <1>5, <1>6, <3>1 DEF V
    <3> DEFINE e == seqs[1]
    <3> HIDE DEF e
    <3>3. <<>> \o e = e
      BY <3>2, ConcatEmptySeq DEF e
    <3> QED
      BY <3>2, <3>3 DEF e, E
  <2>2. g = Body(g)
    <3>1. ASSUME NEW i \in 1..n
          PROVE  g[i] = IF i = 1 THEN seqs[i] ELSE g[i - 1] \o seqs[i]
      <4>1. CASE i = 1
        BY <2>1, <4>1
      <4>2. CASE i # 1
        <5>1. i - 1 \in 1..n
          BY <1>1, <4>2
        <5>2. g[i] = f[i] /\ g[i - 1] = f[i - 1]
          BY <5>1
        <5>3. f[i] = f[i - 1] \o seqs[i]
          BY <1>6
        <5> QED
          BY <4>2, <5>2, <5>3
      <4> QED
        BY <4>1, <4>2
    <3> HIDE DEF g
    <3>2. g = [i \in 1..n |-> g[i]]
      BY DEF g
    <3> QED
      BY <3>1, <3>2 DEF Body
  <2>3. flatten = Body(flatten)
    BY <2>2 DEF flatten
  <2>4. \A i \in 1..n : flatten[i] = IF i = 1 THEN seqs[i] ELSE flatten[i - 1] \o seqs[i]
    <3> USE DEF Body
    <3> QED
      BY <2>3
  <2> DEFINE T == {i \in 0..n : i > 0 => flatten[i] = f[i]}
  <2>5. 0 \in T
    BY <1>1
  <2>6. ASSUME NEW i \in 0..n - 1, i \in T PROVE i + 1 \in T
    <3>1. i + 1 \in 1..n /\ (i + 1) - 1 = i /\ i \in 0..n /\ i + 1 \in 0..n
      BY <1>1
    <3>2. CASE i = 0
      BY <2>1, <2>4, <3>1, <3>2
    <3>3. CASE i # 0
      <4>1. flatten[i + 1] = flatten[i] \o seqs[i + 1] /\ i > 0 /\ i + 1 # 1
        <5>1. flatten[i + 1] = IF i + 1 = 1 THEN seqs[i + 1] ELSE flatten[(i + 1) - 1] \o seqs[i + 1]
          BY <2>4, <3>1
        <5>2. i > 0 /\ i + 1 # 1
          BY <1>1, <3>3
        <5> QED
          BY <3>1, <5>1, <5>2
      <4>2. flatten[i] = f[i]
        BY <2>6, <4>1
      <4>3. f[i + 1] = f[i] \o seqs[i + 1]
        BY <1>6, <3>1
      <4> QED
        BY <3>1, <4>1, <4>2, <4>3
    <3> QED
      BY <3>2, <3>3
  <2> HIDE DEF T
  <2>7. 0..n \subseteq T
    BY <1>1, <2>5, <2>6, Induction
  <2>8. flatten[n] = f[n]
    BY <1>1, <1>9, <2>7 DEF T
  <2> QED
    BY <1>2, <1>7, <1>9, <2>8 DEF n
<1> QED
  BY <1>8, <1>9

\* The pieces t are those of s, but for x behind the k-th, the last that is not
\* empty.
GrownAt(s, t, k, x) ==
    /\ Len(t) = Len(s)
    /\ \A i \in 1..Len(s) : t[i] = IF i = k THEN Join(s[i], x) ELSE s[i]
    /\ \A i \in 1..Len(s) : i > k => s[i] = <<>>

\* The whole grows at its end, if it grows in its last piece that is not empty.
LEMMA FlattenGrows ==
    ASSUME NEW S, NEW s \in Seq(Seq(S)), NEW t \in Seq(Seq(S)),
           NEW k \in 1..Len(s), NEW x \in Seq(S), GrownAt(s, t, k, x)
    PROVE  Ext!FlattenSeq(t) = Join(Ext!FlattenSeq(s), x)
<1> DEFINE n == Len(s)
<1>1. PICK f : Joins(f, s, S) /\ Ext!FlattenSeq(s) = f[Len(s)]
  BY FlattenFacts
<1>2. PICK g : Joins(g, t, S) /\ Ext!FlattenSeq(t) = g[Len(t)]
  BY FlattenFacts
<1>3. /\ f[0] = <<>> /\ g[0] = <<>>
      /\ \A i \in 0..n : f[i] \in Seq(S) /\ g[i] \in Seq(S)
      /\ \A i \in 1..n : f[i] = Join(f[i - 1], s[i]) /\ g[i] = Join(g[i - 1], t[i])
  BY <1>1, <1>2 DEF Joins, GrownAt
<1>4. n \in Nat /\ k \in 1..n /\ \A i \in 1..n : s[i] \in Seq(S)
  <2> DEFINE T == Seq(S)
  <2>1. s \in Seq(T)
    OBVIOUS
  <2> HIDE DEF T
  <2>2. n \in Nat /\ \A i \in 1..n : s[i] \in T
    BY <2>1, LenProperties, ElementOfSeq
  <2> QED
    BY <2>2 DEF T
<1> DEFINE T == {i \in 0..n : g[i] = IF i < k THEN f[i] ELSE Join(f[i], x)}
<1>5. 0 \in T
  <2>1. 0 < k /\ 0 \in 0..n /\ g[0] = f[0]
    BY <1>3, <1>4
  <2> QED
    BY <2>1
<1>6. ASSUME NEW i \in 0..n - 1, i \in T PROVE i + 1 \in T
  <2>0. g[i] = IF i < k THEN f[i] ELSE Join(f[i], x)
    BY <1>6
  <2> SUFFICES i + 1 \in 0..n /\ g[i + 1] = IF i + 1 < k THEN f[i + 1] ELSE Join(f[i + 1], x)
    OBVIOUS
  <2>10. n \in Nat /\ k \in Nat
    BY <1>4
  <2> HIDE DEF n, T
  <2>1. i + 1 \in 1..n /\ (i + 1) - 1 = i /\ i \in 0..n /\ i + 1 \in 0..n
    BY <2>10
  <2> DEFINE a == f[i]
             b == s[i + 1]
  <2>2. a \in Seq(S) /\ b \in Seq(S) /\ f[i + 1] = Join(a, b) /\ g[i + 1] = Join(g[i], t[i + 1])
    BY <1>3, <1>4, <2>1
  <2>3. t[i + 1] = IF i + 1 = k THEN Join(b, x) ELSE b
    BY <2>1 DEF n, GrownAt
  <2>4. i + 1 > k => b = <<>>
    BY <2>1 DEF n, GrownAt
  <2> HIDE DEF a, b
  <2>5. CASE i + 1 < k
    <3>1. i < k /\ i + 1 # k
      BY <2>10, <2>1, <2>5
    <3> QED
      BY <2>0, <2>1, <2>2, <2>3, <2>5, <3>1 DEF a
  <2>6. CASE i + 1 = k
    <3>1. i < k /\ ~ (i + 1 < k)
      BY <2>10, <2>1, <2>6
    <3>3. g[i] = a
      BY <2>0, <3>1 DEF a
    <3>4. g[i + 1] = Join(a, Join(b, x))
      BY <2>2, <2>3, <2>6, <3>3
    <3>5. g[i + 1] = Join(f[i + 1], x)
      BY <2>2, <3>4, JoinFacts
    <3> QED
      BY <2>1, <3>1, <3>5
  <2>7. CASE i + 1 > k
    <3>1. ~ (i < k) /\ ~ (i + 1 < k) /\ i + 1 # k
      BY <2>10, <2>1, <2>7
    <3>2. b = <<>> /\ t[i + 1] = <<>> /\ g[i] = Join(a, x)
      BY <2>0, <2>3, <2>4, <2>7, <3>1 DEF a
    <3>3. Join(a, x) \in Seq(S)
      BY <2>2, JoinFacts
    <3>4. Join(a, <<>>) = a /\ Join(Join(a, x), <<>>) = Join(a, x)
      BY <2>2, <3>3, JoinFacts
    <3> QED
      BY <2>1, <2>2, <3>1, <3>2, <3>4
  <2>8. i + 1 < k \/ i + 1 = k \/ i + 1 > k
    BY <2>10, <2>1
  <2> QED
    BY <2>5, <2>6, <2>7, <2>8
<1> HIDE DEF T
<1>7. 0..n \subseteq T
  BY <1>4, <1>5, <1>6, Induction
<1>8. n \in T /\ ~ (n < k)
  <2>1. n \in Nat /\ k \in 1..n
    BY <1>4
  <2> HIDE DEF n
  <2>2. n \in 0..n /\ ~ (n < k)
    BY <2>1
  <2> QED
    BY <1>7, <2>2
<1>9. g[n] = Join(f[n], x)
  BY <1>8 DEF T
<1>10. Len(t) = n
  BY DEF GrownAt
<1> HIDE DEF n
<1>11. Ext!FlattenSeq(s) = f[n] /\ Ext!FlattenSeq(t) = g[n]
  BY <1>1, <1>2, <1>10 DEF n
<1> QED
  BY <1>9, <1>11

-----------------------------------------------------------------------------
(* Requests as they are read.                                              *)

\* An order in which elements may be equal.
WeakOrder(I, less) ==
    /\ \A i, j \in I : <<i, j>> \in less => <<j, i>> \notin less
    /\ \A i, j, k \in I : <<i, k>> \in less => <<i, j>> \in less \/ <<j, k>> \in less

\* The elements that sort() puts before i.
AheadOf(I, less, i) == {j \in I : <<j, i>> \in less \/ (<<i, j>> \notin less /\ j < i)}

\* Each element has its own number of elements before it.
LEMMA AheadFacts ==
    ASSUME NEW I \in SUBSET Nat, IsFiniteSet(I), NEW less, WeakOrder(I, less)
    PROVE  /\ \A i \in I : /\ Cardinality(AheadOf(I, less, i)) \in 0..Cardinality(I) - 1
           /\ \A i, j \in I : i # j => Cardinality(AheadOf(I, less, i))
                                         # Cardinality(AheadOf(I, less, j))
<1> DEFINE A(i) == AheadOf(I, less, i)
           T(j, i) == <<j, i>> \in less \/ (<<i, j>> \notin less /\ j < i)
<1>1. \A i, j \in I : j \in A(i) <=> T(j, i)
  BY DEF AheadOf
<1>2. \A i \in I : ~T(i, i)
  BY DEF WeakOrder
<1>3. \A i, j \in I : i # j => T(i, j) \/ T(j, i)
  <2> SUFFICES ASSUME NEW i \in I, NEW j \in I, i # j PROVE T(i, j) \/ T(j, i)
    OBVIOUS
  <2>1. i < j \/ j < i
    OBVIOUS
  <2> QED
    BY <2>1
<1>4. \A i, j, k \in I : T(i, j) /\ T(j, k) => T(i, k)
  <2> SUFFICES ASSUME NEW i \in I, NEW j \in I, NEW k \in I, T(i, j), T(j, k) PROVE T(i, k)
    OBVIOUS
  <2>1. i < j /\ j < k => i < k
    OBVIOUS
  <2> QED
    BY <2>1 DEF WeakOrder
<1>5. \A i \in I : /\ IsFiniteSet(A(i)) /\ Cardinality(A(i)) \in Nat
                   /\ Cardinality(A(i)) < Cardinality(I)
  <2> SUFFICES ASSUME NEW i \in I
               PROVE  /\ IsFiniteSet(A(i)) /\ Cardinality(A(i)) \in Nat
                      /\ Cardinality(A(i)) < Cardinality(I)
    OBVIOUS
  <2>1. A(i) \subseteq I /\ i \notin A(i)
    BY <1>1, <1>2 DEF AheadOf
  <2> HIDE DEF A
  <2>2. IsFiniteSet(A(i)) /\ Cardinality(A(i)) \in Nat /\ Cardinality(A(i)) <= Cardinality(I)
    BY <2>1, FS_Subset, FS_CardinalityType
  <2>3. Cardinality(A(i)) # Cardinality(I)
    BY <2>1, FS_Subset
  <2>4. Cardinality(I) \in Nat
    BY FS_CardinalityType
  <2> QED
    BY <2>2, <2>3, <2>4
<1>6. ASSUME NEW i \in I, NEW j \in I, T(i, j)
      PROVE  Cardinality(A(i)) < Cardinality(A(j))
  <2>1. A(i) \subseteq A(j) /\ i \in A(j) /\ i \notin A(i)
    <3>1. \A k \in A(i) : k \in I
      BY DEF AheadOf
    <3> QED
      BY <1>1, <1>2, <1>4, <1>6, <3>1
  <2> HIDE DEF A
  <2>2. Cardinality(A(i)) <= Cardinality(A(j)) /\ Cardinality(A(i)) # Cardinality(A(j))
    BY <2>1, <1>5, FS_Subset
  <2> QED
    BY <2>2, <1>5
<1> HIDE DEF T
<1>7. \A i, j \in I : i # j => Cardinality(A(i)) # Cardinality(A(j))
  <2> SUFFICES ASSUME NEW i \in I, NEW j \in I, i # j
               PROVE  Cardinality(A(i)) # Cardinality(A(j))
    OBVIOUS
  <2> HIDE DEF A
  <2>1. Cardinality(A(i)) \in Nat /\ Cardinality(A(j)) \in Nat
    BY <1>5
  <2>2. Cardinality(A(i)) < Cardinality(A(j)) \/ Cardinality(A(j)) < Cardinality(A(i))
    BY <1>3, <1>6
  <2> QED
    BY <2>1, <2>2
<1>8. Cardinality(I) \in Nat
  BY FS_CardinalityType
<1> HIDE DEF A
<1>9. \A i \in I : Cardinality(A(i)) \in 0..Cardinality(I) - 1
  BY <1>5, <1>8
<1> QED
  BY <1>7, <1>9 DEF A

\* Sorting puts an element at every place.
LEMMA SortedFacts ==
    ASSUME NEW I \in SUBSET Nat, IsFiniteSet(I), NEW less, WeakOrder(I, less)
    PROVE  /\ Cardinality(I) \in Nat
           /\ Sorted(I, less) \in [1..Cardinality(I) -> I]
<1> DEFINE n == Cardinality(I)
           R(i) == Cardinality(AheadOf(I, less, i))
<1>1. n \in Nat
  BY FS_CardinalityType
<1>2. /\ \A i \in I : R(i) \in 0..n - 1
      /\ \A i, j \in I : i # j => R(i) # R(j)
  BY AheadFacts
<1> HIDE DEF n, R
<1>3. ASSUME NEW k \in 1..n PROVE \E i \in I : R(i) = k - 1
  <2> SUFFICES ASSUME \A i \in I : R(i) # k - 1 PROVE FALSE
    OBVIOUS
  <2> DEFINE U == 0..n - 1
             V == U \ {k - 1}
             f == [i \in I |-> R(i)]
  <2>1. IsFiniteSet(U) /\ Cardinality(U) = n
    <3>1. 0 \in Int /\ n - 1 \in Int
      BY <1>1
    <3>2. IsFiniteSet(U) /\ Cardinality(U) = IF 0 > n - 1 THEN 0 ELSE n - 1 - 0 + 1
      BY <3>1, FS_Interval
    <3> QED
      BY <3>2, <1>1
  <2>2. k - 1 \in U
    BY <1>1
  <2>3. f \in [I -> V]
    BY <1>2
  <2> HIDE DEF f, U
  <2>4. IsFiniteSet(V) /\ Cardinality(V) = n - 1
    BY <2>1, <2>2, FS_RemoveElement
  <2> HIDE DEF V
  <2>5. Cardinality(V) < Cardinality(I)
    BY <1>1, <2>4 DEF n
  <2>6. \E i, j \in I : i # j /\ f[i] = f[j]
    BY <2>3, <2>4, <2>5, FS_PigeonHole
  <2> QED
    BY <2>6, <1>2 DEF f
<1>4. Sorted(I, less) = [k \in 1..n |-> CHOOSE i \in I : R(i) = k - 1]
  BY DEF Sorted, AheadOf, R, n
<1>5. \A k \in 1..n : (CHOOSE i \in I : R(i) = k - 1) \in I
  BY <1>3
<1>6. Sorted(I, less) \in [1..n -> I]
  BY <1>4, <1>5
<1> QED
  BY <1>1, <1>6 DEF n

\* A sequence whose elements are all of a narrower kind.
LEMMA NarrowSeq ==
    ASSUME NEW A, NEW B, NEW s \in Seq(A), \A i \in DOMAIN s : s[i] \in B
    PROVE  s \in Seq(B)
<1>1. Len(s) \in Nat /\ DOMAIN s = 1..Len(s) /\ s = [i \in 1..Len(s) |-> s[i]]
  BY LenProperties
<1> DEFINE n == Len(s)
<1> HIDE DEF n
<1>2. n \in Nat /\ s \in [1..n -> B]
  BY <1>1 DEF n
<1> QED
  BY <1>2, TupleIsSeq

\* Two sequences of sequences with the same lengths are put together to
\* sequences of the same length.
LEMMA FlattenLengths ==
    ASSUME NEW S, NEW T, NEW a \in Seq(Seq(S)), NEW b \in Seq(Seq(T)), Len(a) = Len(b),
           \A i \in 1..Len(a) : Len(a[i]) = Len(b[i])
    PROVE  Ext!FlattenSeq(a) \in Seq(S) /\ Len(Ext!FlattenSeq(a)) = Len(Ext!FlattenSeq(b))
<1> DEFINE n == Len(a)
<1>1. n \in Nat /\ Len(b) = n
  BY LenProperties
<1>2. PICK f : Joins(f, a, S) /\ Ext!FlattenSeq(a) = f[Len(a)]
  BY FlattenFacts
<1>3. PICK g : Joins(g, b, T) /\ Ext!FlattenSeq(b) = g[Len(b)]
  BY FlattenFacts
<1>4. \A i \in 1..n : a[i] \in Seq(S) /\ b[i] \in Seq(T)
  <2> DEFINE A == Seq(S)
             B == Seq(T)
  <2>1. a \in Seq(A) /\ b \in Seq(B)
    OBVIOUS
  <2> HIDE DEF A, B
  <2>2. \A i \in 1..n : a[i] \in A /\ b[i] \in B
    BY <1>1, <2>1, ElementOfSeq
  <2> QED
    BY <2>2 DEF A, B
<1>5. \A i \in 1..n : Len(a[i]) = Len(b[i])
  OBVIOUS
<1>6. /\ \A i \in 0..n : f[i] \in Seq(S) /\ g[i] \in Seq(T)
      /\ \A i \in 1..n : f[i] = f[i - 1] \o a[i] /\ g[i] = g[i - 1] \o b[i]
      /\ f[0] = <<>> /\ g[0] = <<>>
  BY <1>1, <1>2, <1>3 DEF Joins, Join
<1> DEFINE R == {i \in 0..n : Len(f[i]) = Len(g[i])}
<1> HIDE DEF n
<1>7. 0 \in R
  BY <1>1, <1>6
<1>8. ASSUME NEW i \in 0..n - 1, i \in R PROVE i + 1 \in R
  <2>1. i + 1 \in 1..n /\ (i + 1) - 1 = i /\ i \in 0..n /\ i + 1 \in 0..n
    BY <1>1
  <2>2. f[i + 1] = f[i] \o a[i + 1] /\ g[i + 1] = g[i] \o b[i + 1]
    <3>1. \A j \in 1..n : f[j] = f[j - 1] \o a[j] /\ g[j] = g[j - 1] \o b[j]
      BY <1>6
    <3> DEFINE j == i + 1
    <3>2. j \in 1..n /\ j - 1 = i
      BY <2>1
    <3> HIDE DEF j
    <3>3. f[j] = f[i] \o a[j] /\ g[j] = g[i] \o b[j]
      BY <3>1, <3>2
    <3> QED
      BY <3>3 DEF j
  <2>3. /\ f[i] \in Seq(S) /\ a[i + 1] \in Seq(S)
        /\ g[i] \in Seq(T) /\ b[i + 1] \in Seq(T)
    BY <1>4, <1>6, <2>1
  <2>4. Len(f[i + 1]) = Len(f[i]) + Len(a[i + 1])
    BY <2>2, <2>3, ConcatProperties
  <2>5. Len(g[i + 1]) = Len(g[i]) + Len(b[i + 1])
    BY <2>2, <2>3, ConcatProperties
  <2>6. Len(f[i]) = Len(g[i]) /\ Len(a[i + 1]) = Len(b[i + 1])
    BY <1>5, <1>8, <2>1
  <2>7. Len(f[i + 1]) = Len(g[i + 1])
    BY <2>4, <2>5, <2>6
  <2> QED
    BY <2>1, <2>7
<1>9. 0..n \subseteq R
  <2> HIDE DEF R
  <2> QED
    BY <1>1, <1>7, <1>8, Induction
<1>10. n \in 0..n
  BY <1>1
<1>11. Len(f[n]) = Len(g[n]) /\ f[n] \in Seq(S)
  BY <1>6, <1>9, <1>10
<1> QED
  BY <1>1, <1>2, <1>3, <1>11 DEF n

\* What holds of the pairs at the same places of two lists of sequences holds
\* of those of the sequences put together.
LEMMA FlattenPairs ==
    ASSUME NEW S, NEW T, NEW a \in Seq(Seq(S)), NEW b \in Seq(Seq(T)), Len(a) = Len(b),
           \A i \in 1..Len(a) : Len(a[i]) = Len(b[i]),
           NEW R, \A i \in 1..Len(a) : \A k \in 1..Len(a[i]) : <<a[i][k], b[i][k]>> \in R
    PROVE  \A k \in 1..Len(Ext!FlattenSeq(a)) :
              <<Ext!FlattenSeq(a)[k], Ext!FlattenSeq(b)[k]>> \in R
<1> DEFINE n == Len(a)
<1>1. n \in Nat /\ Len(b) = n
  BY LenProperties
<1>2. PICK f : Joins(f, a, S) /\ Ext!FlattenSeq(a) = f[Len(a)]
  BY FlattenFacts
<1>3. PICK g : Joins(g, b, T) /\ Ext!FlattenSeq(b) = g[Len(b)]
  BY FlattenFacts
<1>4. \A i \in 1..n : a[i] \in Seq(S) /\ b[i] \in Seq(T)
  <2> DEFINE A == Seq(S)
             B == Seq(T)
  <2>1. a \in Seq(A) /\ b \in Seq(B)
    OBVIOUS
  <2> HIDE DEF A, B
  <2>2. \A i \in 1..n : a[i] \in A /\ b[i] \in B
    BY <1>1, <2>1, ElementOfSeq
  <2> QED
    BY <2>2 DEF A, B
<1>5. \A i \in 1..n : /\ Len(a[i]) = Len(b[i])
                      /\ \A k \in 1..Len(a[i]) : <<a[i][k], b[i][k]>> \in R
  OBVIOUS
<1>6. /\ \A i \in 0..n : f[i] \in Seq(S) /\ g[i] \in Seq(T)
      /\ \A i \in 1..n : f[i] = f[i - 1] \o a[i] /\ g[i] = g[i - 1] \o b[i]
      /\ f[0] = <<>> /\ g[0] = <<>>
  BY <1>1, <1>2, <1>3 DEF Joins, Join
<1> DEFINE Good(i) == /\ Len(f[i]) = Len(g[i])
                      /\ \A k \in 1..Len(f[i]) : <<f[i][k], g[i][k]>> \in R
           Z == {i \in 0..n : Good(i)}
<1> HIDE DEF n
<1>7. 0 \in Z
  BY <1>1, <1>6
<1>8. ASSUME NEW i \in 0..n - 1, i \in Z PROVE i + 1 \in Z
  <2> DEFINE j == i + 1
  <2>1. j \in 1..n /\ j - 1 = i /\ i \in 0..n /\ j \in 0..n
    BY <1>1
  <2>2. Good(i)
    BY <1>8
  <2> HIDE DEF j
  <2>3. f[j] = f[i] \o a[j] /\ g[j] = g[i] \o b[j]
    BY <1>6, <2>1
  <2>4. f[i] \in Seq(S) /\ a[j] \in Seq(S) /\ g[i] \in Seq(T) /\ b[j] \in Seq(T)
    BY <1>4, <1>6, <2>1
  <2>5. Len(f[i]) = Len(g[i]) /\ Len(a[j]) = Len(b[j])
    BY <1>5, <2>1, <2>2
  <2> DEFINE x == Len(f[i])
             y == Len(a[j])
  <2>6. x \in Nat /\ y \in Nat
    BY <2>4, LenProperties
  <2>7. /\ Len(f[j]) = x + y
        /\ \A k \in 1..x + y : f[j][k] = IF k <= x THEN f[i][k] ELSE a[j][k - x]
    <3> DEFINE u == f[i]
               v == a[j]
    <3>1. u \in Seq(S) /\ v \in Seq(S) /\ f[j] = u \o v
      BY <2>3, <2>4
    <3> HIDE DEF u, v
    <3>2. /\ Len(u \o v) = Len(u) + Len(v)
          /\ \A k \in 1..Len(u) + Len(v) :
                (u \o v)[k] = IF k <= Len(u) THEN u[k] ELSE v[k - Len(u)]
      BY <3>1, ConcatProperties
    <3> QED
      BY <3>1, <3>2 DEF u, v
  <2>8. /\ Len(g[j]) = x + y
        /\ \A k \in 1..x + y : g[j][k] = IF k <= x THEN g[i][k] ELSE b[j][k - x]
    <3> DEFINE u == g[i]
               v == b[j]
    <3>1. u \in Seq(T) /\ v \in Seq(T) /\ g[j] = u \o v /\ Len(u) = x /\ Len(v) = y
      BY <2>3, <2>4, <2>5
    <3> HIDE DEF u, v, x, y
    <3>2. /\ Len(u \o v) = Len(u) + Len(v)
          /\ \A k \in 1..Len(u) + Len(v) :
                (u \o v)[k] = IF k <= Len(u) THEN u[k] ELSE v[k - Len(u)]
      BY <3>1, ConcatProperties
    <3> QED
      BY <3>1, <3>2 DEF u, v
  <2>9. /\ \A k \in 1..x : <<f[i][k], g[i][k]>> \in R
        /\ \A k \in 1..y : <<a[j][k], b[j][k]>> \in R
    BY <1>5, <2>1, <2>2
  <2> HIDE DEF x, y, Good
  <2>10. ASSUME NEW k \in 1..x + y PROVE <<f[j][k], g[j][k]>> \in R
    <3>1. CASE k <= x
      <4>1. k \in 1..x
        BY <3>1, <2>6
      <4> QED
        BY <4>1, <3>1, <2>7, <2>8, <2>9
    <3>2. CASE ~(k <= x)
      <4>1. k - x \in 1..y
        BY <3>2, <2>6
      <4> QED
        BY <4>1, <3>2, <2>7, <2>8, <2>9
    <3> QED
      BY <3>1, <3>2
  <2>11. Good(j)
    BY <2>7, <2>8, <2>10 DEF Good
  <2> QED
    BY <2>1, <2>11 DEF j
<1>9. 0..n \subseteq Z
  <2> HIDE DEF Z
  <2> QED
    BY <1>1, <1>7, <1>8, Induction
<1>10. n \in 0..n
  BY <1>1
<1>11. \A k \in 1..Len(f[n]) : <<f[n][k], g[n][k]>> \in R
  BY <1>9, <1>10
<1> QED
  BY <1>1, <1>2, <1>3, <1>11 DEF n

\* The events of a record are taken in the order of their ends, each with the
\* position where it takes effect.
LEMMA EditsTyped ==
    ASSUME NEW events \in Seq([pos : Nat, bump : Int, file : Domains])
    PROVE  ByPos(events) \in Seq([pos : Nat, bump : Nat, file : Domains])
<1> DEFINE I == DOMAIN events
           n == Cardinality(I)
           order == Sorted(I, EndsBefore(events))
           E == [pos : Nat, bump : Nat, file : Domains]
<1>1. Len(events) \in Nat /\ I = 1..Len(events)
  BY LenProperties
<1>2. \A i \in I : events[i] \in [pos : Nat, bump : Int, file : Domains]
  BY <1>1, ElementOfSeq
<1>3. I \in SUBSET Nat /\ IsFiniteSet(I)
  <2>1. IsFiniteSet(1..Len(events))
    <3>1. 1 \in Int /\ Len(events) \in Int
      BY <1>1
    <3> QED
      BY <3>1, FS_Interval
  <2> QED
    BY <1>1, <2>1
<1>4. WeakOrder(I, EndsBefore(events))
  <2>1. \A i, j \in I : <<i, j>> \in EndsBefore(events) <=> events[i].pos < events[j].pos
    BY DEF EndsBefore
  <2>2. \A i \in I : events[i].pos \in Nat
    BY <1>2
  <2> DEFINE at(i) == events[i].pos
             L == EndsBefore(events)
  <2>3. \A i, j \in I : <<i, j>> \in L <=> at(i) < at(j)
    BY <2>1
  <2>4. \A i \in I : at(i) \in Nat
    BY <2>2
  <2> HIDE DEF I, at, L
  <2>5. \A i, j \in I : at(i) < at(j) => ~ (at(j) < at(i))
    BY <2>4
  <2>6. \A i, j, k \in I : at(i) < at(k) => at(i) < at(j) \/ at(j) < at(k)
    BY <2>4
  <2>7. WeakOrder(I, L)
    BY <2>3, <2>5, <2>6 DEF WeakOrder
  <2> QED
    BY <2>7 DEF L
<1>5. n \in Nat /\ order \in [1..n -> I]
  BY <1>3, <1>4, SortedFacts
<1>6. ASSUME NEW i \in I PROVE Effective(events[i]) \in E
  <2> DEFINE e == events[i]
  <2>1. e \in [pos : Nat, bump : Int, file : Domains]
    BY <1>2
  <2> HIDE DEF e
  <2> DEFINE bump == IF e.bump >= 0 THEN e.bump ELSE e.pos
  <2>2. e = [pos |-> e.pos, bump |-> e.bump, file |-> e.file]
    BY <2>1
  <2>3. e.pos \in Nat /\ e.bump \in Int /\ e.file \in Domains
    BY <2>1
  <2>4. bump \in Nat
    BY <2>3
  <2>5. Effective(e) = [e EXCEPT !.bump = bump]
    BY DEF Effective
  <2> HIDE DEF bump
  <2>6. Effective(e) = [pos |-> e.pos, bump |-> bump, file |-> e.file]
    BY <2>2, <2>5
  <2>7. Effective(e) \in E
    BY <2>3, <2>4, <2>6
  <2> QED
    BY <2>7 DEF e
<1>7. ByPos(events) = [k \in DOMAIN order |-> Effective(events[order[k]])]
  BY DEF ByPos
<1> HIDE DEF I, n, order, E
<1>8. ByPos(events) = [k \in 1..n |-> Effective(events[order[k]])]
  BY <1>5, <1>7
<1>9. ByPos(events) \in [1..n -> E]
  BY <1>5, <1>6, <1>8
<1>10. ByPos(events) \in Seq(E)
  BY <1>5, <1>9, TupleIsSeq
<1> QED
  BY <1>10 DEF E

\* A list that was recorded, or its default, has an element per position.
LEMMA LaidWhole ==
    ASSUME NEW A, NEW B, NEW list \in Seq(A), \A i \in DOMAIN list : list[i] \in B,
           NEW default \in B, NEW st, NEW n \in Nat, Len(RealizedBy(st)) = n,
           Len(list) \in {0, n}
    PROVE  Laid(st, list, default) \in Seq(B) /\ Len(Laid(st, list, default)) = n
<1>1. CASE list = <<>>
  <2> DEFINE l == [i \in 1..n |-> default]
  <2>1. Laid(st, list, default) = l
    BY <1>1 DEF Laid
  <2>2. l \in [1..n -> B]
    OBVIOUS
  <2> HIDE DEF l
  <2> QED
    BY <2>1, <2>2, TupleIsSeq
<1>2. CASE list # <<>>
  <2>1. Laid(st, list, default) = list
    BY <1>2 DEF Laid
  <2>2. Len(list) = n
    BY <1>2, EmptySeq
  <2> QED
    BY <2>1, <2>2, NarrowSeq
<1> QED
  BY <1>1, <1>2

\* What a valid step lays out: as many rows and segments as tokens.
LEMMA StepWhole ==
    ASSUME NEW st \in Steps, ValidStep(st)
    PROVE  LET n == Len(RealizedBy(st))
           IN  /\ RealizedBy(st) \in Seq(Tokens)
               /\ Laid(st, st.seg, "text") \in Seq(Segments)
               /\ Laid(st, st.ids, <<>>) \in Seq(Seq(Tokens))
               /\ Laid(st, st.qs, <<>>) \in Seq(Seq(0..QMax))
               /\ Len(Laid(st, st.seg, "text")) = n
               /\ Len(Laid(st, st.ids, <<>>)) = n
               /\ Len(Laid(st, st.qs, <<>>)) = n
               /\ \A i \in 1..n : <<Laid(st, st.ids, <<>>)[i], Laid(st, st.qs, <<>>)[i]>>
                                   \in MatchingRows
<1> DEFINE n == st.acc + 1
           T == Seq(Tokens)
           Q == Seq(0..QMax)
           Z == Seq(Int)
<1>1. /\ st.proposed \in T /\ st.acc \in Int /\ st.bonus \in Tokens
      /\ st.ids \in Seq(T) /\ st.qs \in Seq(Z) /\ st.seg \in Seq(STRING)
  BY DEF Steps
<1>2. /\ st.acc \in 0..Len(st.proposed)
      /\ \A i \in DOMAIN st.seg : st.seg[i] \in Segments
      /\ Len(st.ids) \in {0, n} /\ Len(st.qs) \in {0, n} /\ Len(st.seg) \in {0, n}
      /\ \A i \in DOMAIN st.qs : \A j \in DOMAIN st.qs[i] : st.qs[i][j] \in 0..QMax
  BY DEF ValidStep
<1>3. n \in Nat
  <2>1. Len(st.proposed) \in Nat
    BY <1>1, LenProperties
  <2> QED
    BY <1>2, <2>1
<1>4. RealizedBy(st) \in T /\ Len(RealizedBy(st)) = n
  <2> DEFINE a == st.acc
             s == st.proposed
             b == st.bonus
             taken == SubSeq(s, 1, a)
  <2>1. s \in Seq(Tokens) /\ Len(s) \in Nat /\ a \in Nat /\ a <= Len(s) /\ b \in Tokens
    <3>1. Len(st.proposed) \in Nat
      BY <1>1, LenProperties
    <3> QED
      BY <1>1, <1>2, <3>1
  <2> HIDE DEF a, s, b
  <2>2. taken \in Seq(Tokens) /\ Len(taken) = a
    BY <2>1, PartFacts, 0 \in Nat, 0 <= a, 0 + 1 = 1, a - 0 = a
  <2> HIDE DEF taken
  <2>3. <<b>> \in Seq(Tokens) /\ Len(<<b>>) = 1
    BY <2>1
  <2>4. taken \o <<b>> \in Seq(Tokens) /\ Len(taken \o <<b>>) = a + 1
    BY <2>2, <2>3, ConcatProperties
  <2> QED
    BY <2>4 DEF RealizedBy, a, s, b, taken
<1>5. <<>> \in T /\ <<>> \in Q /\ "text" \in Segments
  BY EmptySeq DEF Segments
<1> HIDE DEF n, T, Q, Z
<1>6. Laid(st, st.seg, "text") \in Seq(Segments) /\ Len(Laid(st, st.seg, "text")) = n
  <2> DEFINE l == st.seg
             d == "text"
             A == STRING
  <2>1. /\ l \in Seq(A) /\ \A i \in DOMAIN l : l[i] \in Segments
        /\ d \in Segments /\ Len(l) \in {0, n}
    BY <1>1, <1>2, <1>5
  <2> HIDE DEF l, d, A
  <2>2. Laid(st, l, d) \in Seq(Segments) /\ Len(Laid(st, l, d)) = n
    BY <1>3, <1>4, <2>1, LaidWhole
  <2> QED
    BY <2>2 DEF l, d
<1>7. Laid(st, st.ids, <<>>) \in Seq(T) /\ Len(Laid(st, st.ids, <<>>)) = n
  <2>1. \A i \in DOMAIN st.ids : st.ids[i] \in T
    BY <1>1, LenProperties, ElementOfSeq
  <2> DEFINE l == st.ids
             d == <<>>
  <2>2. /\ l \in Seq(T) /\ \A i \in DOMAIN l : l[i] \in T
        /\ d \in T /\ Len(l) \in {0, n}
    BY <1>1, <1>2, <1>5, <2>1
  <2> HIDE DEF l, d
  <2>3. Laid(st, l, d) \in Seq(T) /\ Len(Laid(st, l, d)) = n
    BY <1>3, <1>4, <2>2, LaidWhole
  <2> QED
    BY <2>3 DEF l, d
<1>8. Laid(st, st.qs, <<>>) \in Seq(Q) /\ Len(Laid(st, st.qs, <<>>)) = n
  <2>1. \A i \in DOMAIN st.qs : st.qs[i] \in Z
    BY <1>1, LenProperties, ElementOfSeq
  <2>2. ASSUME NEW i \in DOMAIN st.qs PROVE st.qs[i] \in Q
    <3> DEFINE s == st.qs[i]
    <3>1. s \in Seq(Int) /\ \A j \in DOMAIN s : s[j] \in 0..QMax
      BY <1>2, <2>1 DEF Z
    <3> HIDE DEF s
    <3>2. s \in Seq(0..QMax)
      BY <3>1, NarrowSeq
    <3> QED
      BY <3>2 DEF s, Q
  <2> DEFINE l == st.qs
             d == <<>>
  <2>3. /\ l \in Seq(Z) /\ \A i \in DOMAIN l : l[i] \in Q
        /\ d \in Q /\ Len(l) \in {0, n}
    BY <1>1, <1>2, <1>5, <2>2
  <2> HIDE DEF l, d
  <2>4. Laid(st, l, d) \in Seq(Q) /\ Len(Laid(st, l, d)) = n
    BY <1>3, <1>4, <2>3, LaidWhole
  <2> QED
    BY <2>4 DEF l, d
<1>9. ASSUME NEW i \in 1..n
      PROVE  <<Laid(st, st.ids, <<>>)[i], Laid(st, st.qs, <<>>)[i]>> \in MatchingRows
  <2> DEFINE a == Laid(st, st.ids, <<>>)
             b == Laid(st, st.qs, <<>>)
  <2>1. a[i] \in T /\ b[i] \in Q
    <3> HIDE DEF a, b
    <3>1. a \in Seq(T) /\ b \in Seq(Q) /\ Len(a) = n /\ Len(b) = n
      BY <1>7, <1>8 DEF a, b
    <3> QED
      BY <3>1, ElementOfSeq
  <2>2. \A j \in DOMAIN st.ids \cap DOMAIN st.qs : Len(st.ids[j]) = Len(st.qs[j])
    BY DEF ValidStep, RowsFit
  <2>3. CASE st.ids = <<>>
    <3>1. a[i] = <<>>
      BY <1>4, <2>3 DEF Laid
    <3> QED
      BY <2>1, <3>1, EmptySeq DEF MatchingRows, T, Q
  <2>4. CASE st.qs = <<>>
    <3>1. b[i] = <<>>
      BY <1>4, <2>4 DEF Laid
    <3> QED
      BY <2>1, <3>1, EmptySeq DEF MatchingRows, T, Q
  <2>5. CASE st.ids # <<>> /\ st.qs # <<>>
    <3>1. a = st.ids /\ b = st.qs
      BY <2>5 DEF Laid
    <3>2. i \in DOMAIN st.ids /\ i \in DOMAIN st.qs
      <4>1. Len(st.ids) = n /\ Len(st.qs) = n
        BY <1>1, <1>2, <2>5, EmptySeq
      <4> QED
        BY <1>1, <4>1, LenProperties
    <3>3. Len(a[i]) = Len(b[i])
      BY <2>2, <3>1, <3>2
    <3> HIDE DEF a, b
    <3>4. <<a[i], b[i]>> \in MatchingRows
      BY <2>1, <3>3 DEF MatchingRows, T, Q
    <3> QED
      BY <3>4 DEF a, b
  <2> QED
    BY <2>3, <2>4, <2>5
<1> QED
  BY <1>4, <1>6, <1>7, <1>8, <1>9 DEF T, Q

\* The requests read are whole.
RequestsWhole ==
    \A recs \in Traces :
        LET read == ReadTraces(recs)
        IN  /\ Len(read) \in Nat /\ DOMAIN read = 1..Len(read)
            /\ \A i \in 1..Len(read) : IsRequest(read[i])

\* What the steps of a valid record lay out.
LEMMA StepsWhole ==
    ASSUME NEW steps \in Seq(Steps), \A i \in DOMAIN steps : ValidStep(steps[i])
    PROVE  /\ Toks(steps) \in Seq(Tokens) /\ Segs(steps) \in Seq(Segments)
           /\ Ids(steps) \in Seq(Seq(Tokens)) /\ Qs(steps) \in Seq(Seq(0..QMax))
           /\ Len(Segs(steps)) = Len(Toks(steps)) /\ Len(Ids(steps)) = Len(Toks(steps))
           /\ Len(Qs(steps)) = Len(Toks(steps))
           /\ \A i \in 1..Len(Ids(steps)) : <<Ids(steps)[i], Qs(steps)[i]>> \in MatchingRows
<1> DEFINE n == Len(steps)
           R == Seq(Tokens)
           Q == Seq(0..QMax)
           P(i) == RealizedBy(steps[i])
           A(i) == Laid(steps[i], steps[i].seg, "text")
           B(i) == Laid(steps[i], steps[i].ids, <<>>)
           C(i) == Laid(steps[i], steps[i].qs, <<>>)
           toks == [i \in 1..n |-> P(i)]
           segs == [i \in 1..n |-> A(i)]
           ids  == [i \in 1..n |-> B(i)]
           qs   == [i \in 1..n |-> C(i)]
<1>1. n \in Nat /\ DOMAIN steps = 1..n /\ \A i \in 1..n : steps[i] \in Steps
  BY LenProperties, ElementOfSeq
<1>2. ASSUME NEW i \in 1..n
      PROVE  /\ P(i) \in R /\ A(i) \in Seq(Segments) /\ B(i) \in Seq(R) /\ C(i) \in Seq(Q)
             /\ Len(A(i)) = Len(P(i)) /\ Len(B(i)) = Len(P(i)) /\ Len(C(i)) = Len(P(i))
             /\ \A k \in 1..Len(P(i)) : <<B(i)[k], C(i)[k]>> \in MatchingRows
  <2> DEFINE st == steps[i]
  <2>1. st \in Steps /\ ValidStep(st)
    BY <1>1
  <2> HIDE DEF st
  <2>2. /\ RealizedBy(st) \in Seq(Tokens)
        /\ Laid(st, st.seg, "text") \in Seq(Segments)
        /\ Laid(st, st.ids, <<>>) \in Seq(Seq(Tokens))
        /\ Laid(st, st.qs, <<>>) \in Seq(Seq(0..QMax))
        /\ Len(Laid(st, st.seg, "text")) = Len(RealizedBy(st))
        /\ Len(Laid(st, st.ids, <<>>)) = Len(RealizedBy(st))
        /\ Len(Laid(st, st.qs, <<>>)) = Len(RealizedBy(st))
        /\ \A k \in 1..Len(RealizedBy(st)) :
              <<Laid(st, st.ids, <<>>)[k], Laid(st, st.qs, <<>>)[k]>> \in MatchingRows
    BY <2>1, StepWhole
  <2> QED
    BY <2>2 DEF st
<1>3. /\ Toks(steps) = Ext!FlattenSeq(toks) /\ Segs(steps) = Ext!FlattenSeq(segs)
      /\ Ids(steps) = Ext!FlattenSeq(ids) /\ Qs(steps) = Ext!FlattenSeq(qs)
  BY <1>1 DEF Toks, Segs, Ids, Qs
<1> HIDE DEF n, R, Q, P, A, B, C
<1>4. /\ toks \in [1..n -> R] /\ segs \in [1..n -> Seq(Segments)]
      /\ ids \in [1..n -> Seq(R)] /\ qs \in [1..n -> Seq(Q)]
  BY <1>2
<1>5. /\ \A i \in 1..n : Len(segs[i]) = Len(toks[i])
      /\ \A i \in 1..n : Len(ids[i]) = Len(toks[i])
      /\ \A i \in 1..n : Len(qs[i]) = Len(toks[i])
      /\ \A i \in 1..n : Len(toks[i]) = Len(toks[i])
      /\ \A i \in 1..n : \A k \in 1..Len(toks[i]) : <<ids[i][k], qs[i][k]>> \in MatchingRows
  BY <1>2
<1> HIDE DEF toks, segs, ids, qs
<1>6. toks \in Seq(Seq(Tokens)) /\ Len(toks) = n
  BY <1>1, <1>4, TupleIsSeq DEF R
<1>7. segs \in Seq(Seq(Segments)) /\ Len(segs) = n
  BY <1>1, <1>4, TupleIsSeq
<1>8. ids \in Seq(Seq(R)) /\ Len(ids) = n
  BY <1>1, <1>4, TupleIsSeq
<1>9. qs \in Seq(Seq(Q)) /\ Len(qs) = n
  BY <1>1, <1>4, TupleIsSeq
<1>10. Ext!FlattenSeq(toks) \in Seq(Tokens)
  BY <1>5, <1>6, FlattenLengths
<1>11. /\ Ext!FlattenSeq(segs) \in Seq(Segments)
       /\ Len(Ext!FlattenSeq(segs)) = Len(Ext!FlattenSeq(toks))
  <2> DEFINE T == Tokens
  <2>1. Len(segs) = Len(toks) /\ toks \in Seq(Seq(T)) /\ segs \in Seq(Seq(Segments))
    BY <1>6, <1>7
  <2>2. \A i \in 1..Len(segs) : Len(segs[i]) = Len(toks[i])
    BY <1>5, <1>7
  <2> HIDE DEF T
  <2> QED
    BY <2>1, <2>2, FlattenLengths
<1>12. /\ Ext!FlattenSeq(ids) \in Seq(R)
       /\ Len(Ext!FlattenSeq(ids)) = Len(Ext!FlattenSeq(toks))
  <2> DEFINE T == Tokens
  <2>1. Len(ids) = Len(toks) /\ toks \in Seq(Seq(T)) /\ ids \in Seq(Seq(R))
    BY <1>6, <1>8
  <2>2. \A i \in 1..Len(ids) : Len(ids[i]) = Len(toks[i])
    BY <1>5, <1>8
  <2> HIDE DEF T
  <2> QED
    BY <2>1, <2>2, FlattenLengths
<1>13. /\ Ext!FlattenSeq(qs) \in Seq(Q)
       /\ Len(Ext!FlattenSeq(qs)) = Len(Ext!FlattenSeq(toks))
  <2> DEFINE T == Tokens
  <2>1. Len(qs) = Len(toks) /\ toks \in Seq(Seq(T)) /\ qs \in Seq(Seq(Q))
    BY <1>6, <1>9
  <2>2. \A i \in 1..Len(qs) : Len(qs[i]) = Len(toks[i])
    BY <1>5, <1>9
  <2> HIDE DEF T
  <2> QED
    BY <2>1, <2>2, FlattenLengths
<1>14. \A i \in 1..Len(Ext!FlattenSeq(ids)) :
          <<Ext!FlattenSeq(ids)[i], Ext!FlattenSeq(qs)[i]>> \in MatchingRows
  <2> DEFINE M == MatchingRows
  <2>1. ids \in Seq(Seq(R)) /\ qs \in Seq(Seq(Q)) /\ Len(ids) = Len(qs)
    BY <1>8, <1>9
  <2>2. \A i \in 1..Len(ids) : /\ Len(ids[i]) = Len(qs[i])
                               /\ \A k \in 1..Len(ids[i]) : <<ids[i][k], qs[i][k]>> \in M
    BY <1>5, <1>8
  <2> HIDE DEF M
  <2>3. \A i \in 1..Len(Ext!FlattenSeq(ids)) :
           <<Ext!FlattenSeq(ids)[i], Ext!FlattenSeq(qs)[i]>> \in M
    BY <2>1, <2>2, FlattenPairs
  <2> QED
    BY <2>3 DEF M
<1> QED
  BY <1>3, <1>10, <1>11, <1>12, <1>13, <1>14 DEF R, Q

\* A valid record becomes a request with a row of ids, one of log-probabilities
\* and a segment for each of its tokens.
LEMMA RecordWhole ==
    ASSUME NEW rec, IsRecord(rec), Valid(rec)
    PROVE  IsRequest(Normalize(rec))
<1>1. /\ rec.scope.tenant \in Tenants /\ RepoId(rec.scope) \in Repos
      /\ ScopeStack(rec.scope) \in [0..2 -> ScopeIds]
      /\ rec.steps \in Seq(Steps)
      /\ rec.events \in Seq([pos : Nat, bump : Int, file : Domains])
  BY DEF IsRecord
<1>2. \A i \in DOMAIN rec.steps : ValidStep(rec.steps[i])
  BY DEF Valid
<1> DEFINE steps == rec.steps
           events == ByPos(rec.events)
           q == Normalize(rec)
<1>3. /\ q.scope = rec.scope /\ q.toks = Toks(steps) /\ q.seg = Segs(steps)
      /\ q.ids = Ids(steps) /\ q.qs = Qs(steps) /\ q.events = events
  BY DEF Normalize
<1>4. events \in Seq([pos : Nat, bump : Nat, file : Domains])
  BY <1>1, EditsTyped
<1>5. steps \in Seq(Steps) /\ \A i \in DOMAIN steps : ValidStep(steps[i])
  BY <1>1, <1>2
<1> HIDE DEF steps, events, q
<1>6. /\ Toks(steps) \in Seq(Tokens) /\ Segs(steps) \in Seq(Segments)
      /\ Ids(steps) \in Seq(Seq(Tokens)) /\ Qs(steps) \in Seq(Seq(0..QMax))
      /\ Len(Segs(steps)) = Len(Toks(steps)) /\ Len(Ids(steps)) = Len(Toks(steps))
      /\ Len(Qs(steps)) = Len(Toks(steps))
      /\ \A i \in 1..Len(Ids(steps)) : <<Ids(steps)[i], Qs(steps)[i]>> \in MatchingRows
  BY <1>5, StepsWhole
<1>7. IsRequest(q)
  BY <1>1, <1>3, <1>4, <1>6 DEF IsRequest
<1> QED
  BY <1>7 DEF q

\* Whatever well-typed records a trace holds (sim/convert.py, read_traces), the
\* requests replayed are whole: an invalid record is passed over, and a valid
\* one has a row of ids, one of log-probabilities (as long, or empty) and a
\* segment for each token, and events with a position where they take effect.
THEOREM TracesAreWhole == RequestsWhole
<1> SUFFICES ASSUME NEW recs \in Traces
             PROVE  LET read == ReadTraces(recs)
                    IN  /\ Len(read) \in Nat /\ DOMAIN read = 1..Len(read)
                        /\ \A i \in 1..Len(read) : IsRequest(read[i])
  BY DEF RequestsWhole
<1> DEFINE I == {i \in DOMAIN recs : Valid(recs[i])}
           n == Cardinality(I)
           less == Sooner(recs)
           order == Sorted(I, less)
           read == ReadTraces(recs)
           W == {q \in {Normalize(recs[i]) : i \in I} : IsRequest(q)}
<1>1. /\ Len(recs) \in Nat /\ DOMAIN recs = 1..Len(recs)
      /\ \A i \in DOMAIN recs : IsRecord(recs[i])
  BY RecordsTyped
<1>2. I \in SUBSET Nat /\ IsFiniteSet(I)
  <2>1. IsFiniteSet(1..Len(recs))
    <3>1. 1 \in Int /\ Len(recs) \in Int
      BY <1>1
    <3> QED
      BY <3>1, FS_Interval
  <2>2. I \subseteq 1..Len(recs)
    BY <1>1
  <2>3. I \in SUBSET Nat
    BY <1>1, <2>2
  <2> HIDE DEF I
  <2> QED
    BY <2>1, <2>2, <2>3, FS_Subset
<1>3. WeakOrder(I, less)
  <2> DEFINE ts(i) == recs[i].ts
             id(i) == recs[i].id
             Prior(i, j) == ts(i) < ts(j) \/ (ts(i) = ts(j) /\ id(i) < id(j))
  <2>1. \A i, j \in I : <<i, j>> \in less <=> Prior(i, j)
    BY DEF Sooner
  <2>2. \A i \in I : ts(i) \in Int /\ id(i) \in Int
    BY <1>1 DEF IsRecord
  <2> HIDE DEF I, less, ts, id
  <2>3. \A i, j \in I : Prior(i, j) => ~ Prior(j, i)
    BY <2>2
  <2>4. \A i, j, k \in I : Prior(i, k) => Prior(i, j) \/ Prior(j, k)
    BY <2>2
  <2> HIDE DEF Prior
  <2> QED
    BY <2>1, <2>3, <2>4 DEF WeakOrder
<1>4. n \in Nat /\ order \in [1..n -> I]
  BY <1>2, <1>3, SortedFacts
<1>5. \A i \in I : Normalize(recs[i]) \in W
  BY <1>1, RecordWhole
<1>6. read = [k \in DOMAIN order |-> Normalize(recs[order[k]])]
  BY DEF ReadTraces
<1>7. \A q \in W : IsRequest(q)
  OBVIOUS
<1> HIDE DEF I, n, less, order, read, W
<1>8. read \in [1..n -> W]
  BY <1>4, <1>5, <1>6
<1>9. read \in Seq(W) /\ Len(read) = n
  BY <1>4, <1>8, TupleIsSeq
<1>10. Len(read) \in Nat /\ DOMAIN read = 1..Len(read) /\ \A i \in 1..Len(read) : read[i] \in W
  BY <1>4, <1>8, <1>9
<1> QED
  BY <1>7, <1>10 DEF read

-----------------------------------------------------------------------------
(* The inductive invariant.                                                *)

Recycled(t) == \E m \in Maps : \E root \in Tokens : t = RecycledTree(m, root)

\* A draft is a tree within its bounds; while it grows, the node it grows from
\* has no child.
DraftSound ==
    /\ GoodTree(tree) /\ parent \in 0..Len(tree) /\ off \in Nat
    /\ span \in Proposals \cup {NoSpan} /\ stage \in {"span", "chain", "done"}
    /\ stage = "span" => span \in Proposals
    /\ stage # "done" => Childless(tree, parent)
    /\ kind # "recycle" => Len(tree) <= Budget /\ SiblingsDiffer(tree)
    /\ kind = "recycle" => tree = <<>> \/ Recycled(tree)
    /\ ~OfLedger => parent = 0

Where ==
    /\ r \in 0..Len(reqs) /\ p \in Nat /\ fired \in Nat
    /\ step \in {"next", "draft", "bump", "move", "over"}
    /\ r = 0 => p = 0 /\ step \in {"next", "over"}
    /\ step \in {"draft", "bump", "move"} => p < N
    /\ step \in {"next", "over"} /\ r > 0 => p = N
    /\ step = "over" => r = Len(reqs)

\* There is an outcome between Verify and Move, of the position the replay is at.
OutcomeSound ==
    IF step \in {"bump", "move"} THEN Faithful(outcome) ELSE outcome = NoOutcome

LearnedSound ==
    /\ rows \in [Tenants -> Maps]
    /\ index \in [Repos -> Indexes] /\ \A repo \in Repos : GoodIndex(index[repo])

ReplayInv ==
    /\ RequestsTyped /\ reqs \in {ReadTraces(recs) : recs \in Traces}
    /\ DraftSound /\ Where /\ OutcomeSound /\ LearnedSound

\* The empty tree is a tree.
LEMMA EmptyTree ==
    /\ GoodTree(<<>>) /\ SiblingsDiffer(<<>>) /\ Len(<<>>) = 0 /\ 0 \in 0..Len(<<>>)
    /\ \A n : Childless(<<>>, n)
<1>1. <<>> \in Seq(Nodes) /\ Len(<<>>) = 0
  BY EmptySeq
<1> QED
  BY <1>1 DEF GoodTree, SiblingsDiffer, Childless

\* The invariant holds at the start.
LEMMA InitSound ==
    ASSUME Init
    PROVE  ReplayInv
<1>1. PICK recs \in Traces : reqs = ReadTraces(recs)
  BY DEF Init
<1>2. RequestsTyped
  BY <1>1, TracesAreWhole DEF Init, RequestsTyped, RequestsWhole
<1>3. DraftSound
  BY EmptyTree, ProposerConstants DEF Init, DraftSound
<1>4. Where /\ OutcomeSound
  BY <1>2 DEF Init, Where, OutcomeSound, RequestsTyped
<1>5. rows \in [Tenants -> Maps]
  <2>1. <<>> \in Maps
    <3>1. DOMAIN <<>> = {} /\ <<>> \in [{} -> [1..RowWidth -> Tokens]]
      OBVIOUS
    <3> QED
      BY <3>1 DEF Maps
  <2> QED
    BY <2>1 DEF Init, RowsInit
<1>6. ASSUME NEW repo \in Repos PROVE GoodIndex(index[repo])
  <2> DEFINE idx == [stream |-> <<>>, offsets |-> <<>>, keys |-> <<>>, buf |-> <<>>]
  <2>1. idx.stream = <<>> /\ idx.offsets = <<>> /\ idx.keys = <<>> /\ idx.buf = <<>>
    OBVIOUS
  <2>2. <<>> \in Seq(Tokens) /\ <<>> \in Seq(Nat) /\ <<>> \in Seq(Seq(Tokens)) /\ Len(<<>>) = 0
    BY EmptySeq
  <2>3. idx \in Indexes
    BY <2>2 DEF Indexes
  <2> HIDE DEF idx
  <2>4. GoodIndex(idx)
    BY <2>1, <2>2, <2>3 DEF GoodIndex
  <2>5. index[repo] = idx
    BY DEF Init, IndexInit, idx
  <2> QED
    BY <2>4, <2>5
<1>7. LearnedSound
  <2>1. index = [repo \in Repos |-> index[repo]]
    BY DEF Init, IndexInit
  <2>2. \A repo \in Repos : index[repo] \in Indexes
    BY <1>6 DEF GoodIndex
  <2>3. index \in [Repos -> Indexes]
    BY <2>1, <2>2
  <2> QED
    BY <2>3, <1>5, <1>6 DEF LearnedSound
<1> QED
  BY <1>1, <1>2, <1>3, <1>4, <1>7 DEF ReplayInv

-----------------------------------------------------------------------------
(* The drafts.                                                             *)

\* A new draft is empty.
LEMMA BeginSound ==
    ASSUME NEW proposal \in Proposals \cup {NoSpan}, Begin(proposal)
    PROVE  DraftSound'
<1>1. /\ tree' = <<>> /\ parent' = 0 /\ off' = 0 /\ span' = proposal
      /\ stage' = "span" \/ stage' = "chain"
      /\ stage' = "span" => proposal # NoSpan
  BY DEF Begin, StartDraft
<1> QED
  BY <1>1, EmptyTree, ProposerConstants DEF DraftSound

\* What a step of the ledger proposer makes of a draft.
GrownTo(t) ==
    /\ GoodTree(t) /\ SiblingsDiffer(t) /\ Len(t) <= Budget /\ tree' = t
    /\ parent' \in 0..Len(t) /\ off' \in Nat /\ span' = span
    /\ stage' = stage \/ stage' = "done" \/ (stage = "span" /\ stage' = "chain")
    /\ stage' # "done" => Childless(t, parent')

\* A step of the ledger proposer.
LEMMA LedgerDraftSound ==
    ASSUME ReplayInv, DraftOfLedger
    PROVE  DraftSound'
<1>1. DraftSound /\ kind # "recycle" /\ kind' = kind /\ OfLedger /\ OfLedger'
  BY DEF DraftOfLedger, ReplayInv, OfLedger, replayVars, runVars
<1>2. /\ GoodTree(tree) /\ parent \in 0..Len(tree) /\ off \in Nat
      /\ Len(tree) \in Nat /\ Len(tree) <= Budget /\ SiblingsDiffer(tree)
      /\ stage # "done" => Childless(tree, parent)
      /\ span \in Proposals \cup {NoSpan}
      /\ stage = "span" => span \in Proposals
      /\ stage \in {"span", "chain", "done"} /\ Budget \in Nat
  BY <1>1, ProposerConstants, LenProperties DEF DraftSound, GoodTree
\* The tree with a new node at parent; then with another beside it.
<1>3. ASSUME NEW tok \in Tokens, stage # "done"
      PROVE  LET t == AddNode(tree, tok, parent)
             IN  /\ GoodTree(t) /\ SiblingsDiffer(t) /\ Len(t) = Len(tree) + 1
                 /\ Childless(t, Last) /\ Last \in 0..Len(t)
                 /\ parent \in 0..Len(t)
                 /\ \A i \in 1..Len(t) : t[i].parent = parent => t[i].tok = tok
  <2> DEFINE t == AddNode(tree, tok, parent)
  <2>1. /\ GoodTree(t) /\ Len(t) = Len(tree) + 1
        /\ \A i \in 1..Len(tree) : t[i] = tree[i]
        /\ t[Len(tree) + 1] = [tok |-> tok, parent |-> parent]
    BY <1>2, AddFacts
  <2>2. SiblingsDiffer(t) /\ Childless(t, Len(tree) + 1)
    BY <1>2, <1>3, AddToChildless DEF Childless
  <2> HIDE DEF t
  <2>3. Last \in 0..Len(t) /\ parent \in 0..Len(t)
    BY <1>2, <2>1 DEF Last
  <2>4. \A i \in 1..Len(t) : t[i].parent = parent => t[i].tok = tok
    <3> SUFFICES ASSUME NEW i \in 1..Len(t), t[i].parent = parent
                 PROVE  t[i].tok = tok
      OBVIOUS
    <3>1. i \in 1..Len(tree) \/ i = Len(tree) + 1
      BY <1>2, <2>1
    <3>2. CASE i \in 1..Len(tree)
      BY <3>2, <1>2, <1>3, <2>1 DEF Childless
    <3>3. CASE i = Len(tree) + 1
      BY <3>3, <2>1
    <3> QED
      BY <3>1, <3>2, <3>3
  <2> QED
    BY <2>1, <2>2, <2>3, <2>4 DEF t, Last
<1>4. ASSUME NEW tok \in Tokens, NEW other \in Tokens, other # tok, stage # "done"
      PROVE  LET t == AddNode(tree, tok, parent)
                 u == AddNode(t, other, parent)
             IN  /\ GoodTree(u) /\ SiblingsDiffer(u) /\ Len(u) = Len(tree) + 2
                 /\ Childless(u, Len(t) + 1) /\ Len(t) + 1 \in 0..Len(u)
                 /\ parent \in 0..Len(u)
  <2> DEFINE t == AddNode(tree, tok, parent)
             u == AddNode(t, other, parent)
  <2>1. /\ GoodTree(t) /\ SiblingsDiffer(t) /\ Len(t) = Len(tree) + 1
        /\ parent \in 0..Len(t)
        /\ \A i \in 1..Len(t) : t[i].parent = parent => t[i].tok = tok
    BY <1>3, <1>4
  <2> HIDE DEF t
  <2>2. GoodTree(u) /\ Len(u) = Len(t) + 1
    BY <2>1, AddFacts
  <2>3. SiblingsDiffer(u) /\ Childless(u, Len(t) + 1)
    BY <2>1, <1>4, AddToChildless
  <2> HIDE DEF u
  <2>4. Len(u) = Len(tree) + 2 /\ Len(t) + 1 \in 0..Len(u) /\ parent \in 0..Len(u)
    BY <1>2, <2>1, <2>2
  <2> QED
    BY <2>2, <2>3, <2>4 DEF t, u
<1>5. ASSUME NEW t, GrownTo(t)
      PROVE  DraftSound'
  BY <1>1, <1>2, <1>5 DEF DraftSound, GrownTo
<1>6. CASE FollowSpan
  <2>0. stage = "span" /\ off < Len(span.body)
    BY <1>6, Zenon DEF FollowSpan, SpanGoesOn
  <2>1. stage = "span" /\ span \in Proposals /\ off < Len(span.body)
    BY <1>2, <2>0
  <2>2. span.body[off + 1] \in Tokens
    <3>1. span.body \in Seq(Tokens)
      BY <2>1, AnswersTyped
    <3> DEFINE l == Len(span.body)
    <3>2. l \in Nat /\ off < l
      BY <3>1, <2>1, LenProperties
    <3> HIDE DEF l
    <3>3. off + 1 \in 1..l
      BY <1>2, <3>2
    <3> QED
      BY <3>1, <3>3, ElementOfSeq DEF l
  <2> DEFINE t == AddNode(tree, span.body[off + 1], parent)
  <2>3. /\ GoodTree(t) /\ SiblingsDiffer(t) /\ Len(t) = Len(tree) + 1
        /\ Childless(t, Last) /\ Last \in 0..Len(t)
    BY <1>3, <2>1, <2>2
  <2>4. /\ tree' = t /\ parent' = Last /\ off' = off + 1 /\ span' = span /\ stage' = stage
        /\ Room > 0
    BY <1>6 DEF FollowSpan, SpanGoesOn
  <2> HIDE DEF t
  <2>5. Len(t) <= Budget /\ off' \in Nat
    BY <1>2, <2>3, <2>4 DEF Room
  <2>9. GrownTo(t)
    BY <2>3, <2>4, <2>5 DEF GrownTo
  <2> QED
    BY <1>5, <2>9
<1>7. CASE SplitAtBreak
  <2> DEFINE tok  == span.body[off + 1]
             leaf == AddNode(tree, tok, parent)
  <2>1. /\ stage = "span" /\ span \in Proposals /\ off < Len(span.body) /\ Room > 0
        /\ stage' = "done" /\ parent' = parent /\ span' = span /\ off' = off
        /\ \/ tree' = leaf
           \/ /\ Room > 1
              /\ \E post \in Posteriors :
                    /\ post.patch.tok # tok
                    /\ tree' = AddNode(leaf, post.patch.tok, parent)
    <3>1. /\ stage = "span" /\ off < Len(span.body) /\ Room > 0
          /\ stage' = "done" /\ parent' = parent /\ span' = span /\ off' = off
      BY <1>7, Zenon DEF SplitAtBreak, SpanGoesOn
    <3>2. \/ tree' = leaf
          \/ /\ Room > 1
             /\ \E post \in Posteriors :
                   /\ post.patch.tok # tok
                   /\ tree' = AddNode(leaf, post.patch.tok, parent)
      BY <1>7, Zenon DEF SplitAtBreak
    <3> QED
      BY <1>2, <3>1, <3>2
  <2>2. tok \in Tokens
    <3>1. span.body \in Seq(Tokens)
      BY <2>1, AnswersTyped
    <3> DEFINE l == Len(span.body)
    <3>2. l \in Nat /\ off < l
      BY <3>1, <2>1, LenProperties
    <3> HIDE DEF l
    <3>3. off + 1 \in 1..l
      BY <1>2, <3>2
    <3> QED
      BY <3>1, <3>3, ElementOfSeq DEF l
  <2>3. /\ GoodTree(leaf) /\ SiblingsDiffer(leaf) /\ Len(leaf) = Len(tree) + 1
        /\ parent \in 0..Len(leaf)
    BY <1>3, <2>1, <2>2
  <2> HIDE DEF tok
  <2>4. CASE tree' = leaf
    <3> HIDE DEF leaf
    <3>1. Len(leaf) <= Budget
      BY <1>2, <2>1, <2>3 DEF Room
    <3>9. GrownTo(leaf)
      BY <1>2, <2>1, <2>3, <2>4, <3>1 DEF GrownTo
    <3> QED
      BY <1>5, <3>9
  <2>5. ASSUME Room > 1, NEW post \in Posteriors, post.patch.tok # tok,
               tree' = AddNode(leaf, post.patch.tok, parent)
        PROVE  DraftSound'
    <3> DEFINE u == AddNode(leaf, post.patch.tok, parent)
    <3>1. post.patch.tok \in Tokens
      BY AnswersTyped
    <3>2. /\ GoodTree(u) /\ SiblingsDiffer(u) /\ Len(u) = Len(tree) + 2
          /\ parent \in 0..Len(u)
      BY <1>4, <2>1, <2>2, <2>5, <3>1
    <3>3. tree' = u
      BY <2>5
    <3> HIDE DEF u
    <3>4. Len(u) <= Budget
      BY <1>2, <2>5, <3>2 DEF Room
    <3>9. GrownTo(u)
      BY <1>2, <2>1, <3>2, <3>3, <3>4 DEF GrownTo
    <3> QED
      BY <1>5, <3>9
  <2> QED
    BY <2>1, <2>4, <2>5
<1>8. CASE EndSpan \/ EndChain \/ Miss
  <2>1. /\ tree' = tree /\ parent' = parent /\ off' = off /\ span' = span
        /\ stage # "done"
        /\ stage' = "done" \/ (stage = "span" /\ stage' = "chain")
    <3>1. CASE EndSpan
      BY <3>1 DEF EndSpan
    <3>2. CASE EndChain
      BY <3>2 DEF EndChain
    <3>3. CASE Miss
      BY <3>3 DEF Miss, ChainGoesOn
    <3> QED
      BY <1>8, <3>1, <3>2, <3>3
  <2>9. GrownTo(tree)
    BY <1>2, <2>1 DEF GrownTo
  <2> QED
    BY <1>5, <2>9
<1>9. ASSUME NEW post \in Posteriors, Extend(post)
      PROVE  DraftSound'
  <2> DEFINE t == AddNode(tree, post.top.tok, parent)
  <2>1. /\ stage = "chain" /\ Room > 0 /\ tree' = t /\ parent' = Last
        /\ span' = span /\ off' = off /\ stage' = stage
    BY <1>9 DEF Extend, ChainGoesOn
  <2>2. /\ GoodTree(t) /\ SiblingsDiffer(t) /\ Len(t) = Len(tree) + 1
        /\ Childless(t, Last) /\ Last \in 0..Len(t)
    BY <1>3, <2>1, AnswersTyped
  <2> HIDE DEF t
  <2>3. Len(t) <= Budget
    BY <1>2, <2>1, <2>2 DEF Room
  <2>9. GrownTo(t)
    BY <1>2, <2>1, <2>2, <2>3 DEF GrownTo
  <2> QED
    BY <1>5, <2>9
<1>10. ASSUME NEW post \in Posteriors, Splice(post)
       PROVE  DraftSound'
  <2> DEFINE leaf == IF Room > 1 THEN AddNode(tree, post.top.tok, parent) ELSE tree
  <2>1. /\ stage = "chain" /\ Room > 0 /\ post.patch.tok # post.top.tok
        /\ tree' = AddNode(leaf, post.patch.tok, parent) /\ parent' = Len(leaf) + 1
        /\ span' = span /\ off' = off /\ stage' = stage
    BY <1>10 DEF Splice, ChainGoesOn
  <2>2. post.patch.tok \in Tokens /\ post.top.tok \in Tokens
    BY AnswersTyped
  <2> DEFINE u == AddNode(leaf, post.patch.tok, parent)
  <2>3. /\ GoodTree(u) /\ SiblingsDiffer(u) /\ Len(u) <= Budget
        /\ Childless(u, Len(leaf) + 1) /\ Len(leaf) + 1 \in 0..Len(u)
    <3>1. CASE Room > 1
      <4> DEFINE t == AddNode(tree, post.top.tok, parent)
                 w == AddNode(t, post.patch.tok, parent)
      <4>1. /\ GoodTree(w) /\ SiblingsDiffer(w) /\ Len(w) = Len(tree) + 2
            /\ Childless(w, Len(t) + 1) /\ Len(t) + 1 \in 0..Len(w)
        BY <1>4, <2>1, <2>2
      <4>2. leaf = t /\ u = w
        BY <3>1
      <4> HIDE DEF w, t, u, leaf
      <4>3. Len(w) <= Budget
        BY <1>2, <3>1, <4>1 DEF Room
      <4> QED
        BY <4>1, <4>2, <4>3
    <3>2. CASE ~ (Room > 1)
      <4> DEFINE w == AddNode(tree, post.patch.tok, parent)
      <4>1. /\ GoodTree(w) /\ SiblingsDiffer(w) /\ Len(w) = Len(tree) + 1
            /\ Childless(w, Last) /\ Last \in 0..Len(w)
        BY <1>3, <2>1, <2>2
      <4>2. leaf = tree /\ u = w
        BY <3>2
      <4> HIDE DEF w, u, leaf
      <4>3. Len(w) <= Budget
        BY <1>2, <2>1, <4>1 DEF Room
      <4> QED
        BY <4>1, <4>2, <4>3 DEF Last
    <3> QED
      BY <3>1, <3>2
  <2>4. tree' = u
    BY <2>1
  <2> HIDE DEF u, leaf
  <2>9. GrownTo(u)
    BY <1>2, <2>1, <2>3, <2>4 DEF GrownTo
  <2> QED
    BY <1>5, <2>9
<1>11. ASSUME NEW post \in Posteriors, LeaveLeaf(post)
       PROVE  DraftSound'
  <2> DEFINE t == AddNode(tree, post.top.tok, parent)
  <2>1. /\ stage = "chain" /\ Room > 0 /\ tree' = t /\ parent' = parent
        /\ span' = span /\ off' = off /\ stage' = "done"
    BY <1>11 DEF LeaveLeaf, ChainGoesOn
  <2>2. /\ GoodTree(t) /\ SiblingsDiffer(t) /\ Len(t) = Len(tree) + 1
        /\ parent \in 0..Len(t)
    BY <1>3, <2>1, AnswersTyped
  <2> HIDE DEF t
  <2>3. Len(t) <= Budget
    BY <1>2, <2>1, <2>2 DEF Room
  <2>9. GrownTo(t)
    BY <1>2, <2>1, <2>2, <2>3 DEF GrownTo
  <2> QED
    BY <1>5, <2>9
<1> QED
  BY <1>6, <1>7, <1>8, <1>9, <1>10, <1>11 DEF DraftStep, DraftOfLedger

\* Between the requests and after them nothing is verified.
LEMMA InvIsDrafting ==
    ASSUME ReplayInv, step \in {"draft", "bump", "move"}
    PROVE  Drafting /\ r > 0
<1>1. RequestsTyped /\ GoodTree(tree)
  BY DEF ReplayInv, DraftSound
<1>2. /\ r \in 0..Len(reqs) /\ p \in Nat /\ p < N /\ Len(reqs) \in Nat
      /\ r = 0 => step \in {"next", "over"}
  BY DEF ReplayInv, Where, RequestsTyped
<1>3. r # 0
  BY <1>2
<1>4. r \in 1..Len(reqs) /\ r > 0
  BY <1>2, <1>3
<1> QED
  BY <1>1, <1>2, <1>4 DEF Drafting

\* A step of another proposer.
LEMMA OtherDraftSound ==
    ASSUME ReplayInv, DraftOfVanilla \/ DraftOfRecycle \/ DraftOfDense
    PROVE  DraftSound' /\ LearnedSound'
<1>1. /\ step = "draft" /\ stage # "done" /\ ~OfLedger
      /\ kind \in {"vanilla", "recycle", "dense"}
  BY DEF DraftOfVanilla, DraftOfRecycle, DraftOfDense, Asked, OfLedger
<1>2. Drafting /\ DraftSound /\ LearnedSound
  BY <1>1, InvIsDrafting DEF ReplayInv
<1>3. /\ parent = 0 /\ off \in Nat /\ span \in Proposals \cup {NoSpan}
      /\ Budget \in Nat
  BY <1>1, <1>2, ProposerConstants DEF DraftSound
\* What a new draft has to be.
<1>4. ASSUME NEW t, Drafted(t), GoodTree(t),
             kind # "recycle" => Len(t) <= Budget /\ SiblingsDiffer(t),
             kind = "recycle" => t = <<>> \/ Recycled(t)
      PROVE  DraftSound'
  <2>1. /\ tree' = t /\ stage' = "done" /\ parent' = 0 /\ span' = span /\ off' = off
        /\ kind' = kind
    BY <1>3, <1>4 DEF Drafted, replayVars, runVars
  <2>2. Len(t) \in Nat
    BY <1>4, LenProperties DEF GoodTree
  <2> QED
    BY <1>3, <1>4, <2>1, <2>2 DEF DraftSound
<1>5. ASSUME Drafted(<<>>)
      PROVE  DraftSound'
  BY <1>3, <1>4, <1>5, EmptyTree
<1>6. ASSUME NEW t, Drafted(t) PROVE rows' = rows
  BY <1>6 DEF Drafted
<1>7. ASSUME rows' = rows, index' = index PROVE LearnedSound'
  BY <1>2, <1>7 DEF LearnedSound
<1>8. CASE DraftOfVanilla
  BY <1>5, <1>6, <1>7, <1>8 DEF DraftOfVanilla
<1>9. CASE DraftOfRecycle
  <2>1. index' = index /\ kind = "recycle"
    BY <1>9 DEF DraftOfRecycle
  <2>2. CASE p = 0
    BY <1>5, <1>6, <1>7, <1>9, <2>1, <2>2 DEF DraftOfRecycle
  <2>3. CASE p # 0
    <3> DEFINE m    == rows[req.scope.tenant]
               root == req.toks[p]
               t    == RecycledTree(m, root)
    <3>1. m \in Maps
      BY <1>2, RequestFacts DEF LearnedSound
    <3>2. root \in Tokens
      <4>1. req.toks \in Seq(Tokens) /\ p \in 1..Len(req.toks)
        BY <1>2, <2>3, RequestFacts
      <4> QED
        BY <4>1, ElementOfSeq
    <3>3. GoodTree(t) /\ Recycled(t)
      BY <3>1, <3>2, RecycledFacts DEF Recycled
    <3>4. Drafted(t)
      BY <1>9, <2>3 DEF DraftOfRecycle
    <3> HIDE DEF t
    <3> QED
      BY <1>4, <1>6, <1>7, <2>1, <3>3, <3>4
  <2> QED
    BY <2>2, <2>3
<1>10. CASE DraftOfDense
  <2> DEFINE repo == RepoId(req.scope)
             idx  == Flush(index[repo])
  <2>1. repo \in Repos
    BY <1>2, RequestFacts
  <2>2. GoodIndex(idx) /\ idx \in Indexes /\ Len(idx.keys) = Len(idx.offsets)
    <3>1. GoodIndex(index[repo])
      BY <1>2, <2>1 DEF LearnedSound
    <3> QED
      BY <3>1, FlushFacts DEF GoodIndex
  <2>3. kind = "dense"
    BY <1>10 DEF DraftOfDense
  <2>4. CASE Lesser(p, Recent) < 2
    BY <1>5, <1>6, <1>7, <1>10, <2>4 DEF DraftOfDense
  <2>5. CASE ~ (Lesser(p, Recent) < 2)
    <3>1. /\ index' = [index EXCEPT ![repo] = idx]
          /\ \E id \in 0..Len(idx.keys) :
                Drafted(IF id = 0 THEN <<>> ELSE Continuation(idx, id, Budget))
      BY <1>10, <2>5 DEF DraftOfDense
    <3> HIDE DEF idx, repo
    <3>2. PICK id \in 0..Len(idx.keys) :
              Drafted(IF id = 0 THEN <<>> ELSE Continuation(idx, id, Budget))
      BY <3>1
    <3>3. LearnedSound'
      <4>1. rows' = rows
        BY <1>6, <3>2
      <4>2. index \in [Repos -> Indexes] /\ \A other \in Repos : GoodIndex(index[other])
        BY <1>2 DEF LearnedSound
      <4>3. /\ index' \in [Repos -> Indexes]
            /\ \A other \in Repos : GoodIndex(index'[other])
        BY <2>1, <2>2, <3>1, <4>2
      <4> QED
        BY <1>2, <4>1, <4>3 DEF LearnedSound
    <3>4. CASE id = 0
      BY <1>5, <3>2, <3>3, <3>4
    <3>5. CASE id # 0
      <4> DEFINE t == Continuation(idx, id, Budget)
      <4>1. id \in 1..Len(idx.offsets)
        <5>1. Len(idx.offsets) \in Nat
          BY <2>2, LenProperties DEF Indexes
        <5> QED
          BY <2>2, <3>5, <5>1
      <4>2. GoodTree(t) /\ SiblingsDiffer(t) /\ Len(t) <= Budget
        BY <1>3, <2>2, <4>1, ContinuationFacts
      <4>3. Drafted(t)
        BY <3>2, <3>5
      <4> HIDE DEF t
      <4> QED
        BY <1>4, <2>3, <3>3, <4>2, <4>3
    <3> QED
      BY <3>4, <3>5
  <2> QED
    BY <2>4, <2>5
<1> QED
  BY <1>8, <1>9, <1>10

-----------------------------------------------------------------------------
(* The other steps.                                                        *)

\* What is learned of an outcome leaves rows and indexes sound.
LEMMA LearnSound ==
    ASSUME Drafting, LearnedSound, NEW ev, Faithful(ev), Learn(ev)
    PROVE  LearnedSound'
<1> DEFINE new    == Realized(ev)
           tenant == req.scope.tenant
           repo   == RepoId(req.scope)
<1>1. tenant \in Tenants /\ repo \in Repos
  BY RequestFacts
<1>2. new \in Seq(Tokens) /\ Len(new) = ev.acc + 1
  BY RealizedFacts
<1>3. ev.tail \in Seq(Tokens) /\ ev.ids \in Seq(Seq(Tokens)) /\ Len(ev.ids) = Len(new)
  <2>1. ev.tail \in Seq(Tokens) /\ ev.ids \in Seq(Seq(Tokens))
    BY DEF Faithful, Outcomes
  <2>2. ev.ids = SubSeq(req.ids, p + 1, p + ev.acc + 1)
    BY DEF Faithful
  <2>3. /\ p \in Nat /\ p + ev.acc + 1 \in Nat /\ p <= p + ev.acc + 1
        /\ p + ev.acc + 1 <= N /\ (p + ev.acc + 1) - p = ev.acc + 1
    BY OutcomeTypes
  <2>4. req.ids \in Seq(Seq(Tokens)) /\ Len(req.ids) = N
    BY RequestFacts
  <2> DEFINE n == p + ev.acc + 1
  <2> HIDE DEF n, new
  <2>5. Len(SubSeq(req.ids, p + 1, n)) = n - p
    BY <2>3, <2>4, PartFacts DEF n
  <2> QED
    BY <1>2, <2>1, <2>2, <2>3, <2>5 DEF n
<1> HIDE DEF new
<1>4. rows' \in [Tenants -> Maps]
  <2>1. rows \in [Tenants -> Maps]
    BY DEF LearnedSound
  <2>2. rows' = IF kind # "recycle" THEN rows
                ELSE [rows EXCEPT ![tenant] = Recycle(@, ev, new)]
    BY DEF Learn, new
  <2>3. Recycle(rows[tenant], ev, new) \in Maps
    <3>1. rows[tenant] \in Maps
      BY <1>1, <2>1
    <3> DEFINE m == rows[tenant]
    <3> HIDE DEF m
    <3>2. PICK f : Recycles(f, m, ev, new) /\ Recycle(m, ev, new) = f[Len(new)]
      <4>1. m \in Maps
        BY <3>1 DEF m
      <4> QED
        BY <4>1, <1>2, <1>3, RecycleFacts
    <3> USE DEF m
    <3>3. Len(new) \in 0..Len(new)
      BY <1>2, LenProperties
    <3> QED
      BY <3>2, <3>3 DEF Recycles
  <2> QED
    BY <1>1, <2>1, <2>2, <2>3
<1>5. index' \in [Repos -> Indexes] /\ \A other \in Repos : GoodIndex(index'[other])
  <2>1. index \in [Repos -> Indexes] /\ \A other \in Repos : GoodIndex(index[other])
    BY DEF LearnedSound
  <2>2. index' = IF kind # "dense" THEN index
                 ELSE [index EXCEPT ![repo] = Absorb(@, ev, new)]
    BY DEF Learn, new
  <2>3. GoodIndex(Absorb(index[repo], ev, new))
    <3>1. PICK f : /\ Absorbs(f, index[repo], ev, new)
                   /\ Absorb(index[repo], ev, new) = f[Len(new)]
      BY <1>1, <1>2, <1>3, <2>1, AbsorbFacts
    <3>2. Len(new) \in 0..Len(new)
      BY <1>2, LenProperties
    <3> QED
      BY <3>1, <3>2 DEF Absorbs
  <2>4. Absorb(index[repo], ev, new) \in Indexes
    BY <2>3 DEF GoodIndex
  <2> QED
    BY <1>1, <2>1, <2>2, <2>3, <2>4
<1> QED
  BY <1>4, <1>5 DEF LearnedSound

\* The outcome harvested.
Harvested == IF kind = "positive" THEN Stripped(Verified) ELSE Verified

\* What is harvested, stripped or not, agrees with the request.
LEMMA HarvestedFacts ==
    ASSUME Drafting
    PROVE  Faithful(Harvested)
BY VerifiedFacts, StrippedFacts DEF Harvested

\* Nothing but a draft and the proposer's memory changes.
Stays == UNCHANGED <<reqs, kind, r, p, step, fired, outcome>>

\* A step that moves nothing leaves the place of the replay sound.
LEMMA PlaceStays ==
    ASSUME ReplayInv, Stays
    PROVE  /\ (RequestsTyped /\ reqs \in {ReadTraces(recs) : recs \in Traces})'
           /\ Where' /\ OutcomeSound'
<1>1. RequestsTyped'
  BY DEF ReplayInv, Stays, RequestsTyped
<1>2. (reqs \in {ReadTraces(recs) : recs \in Traces})'
  BY DEF ReplayInv, Stays
<1>3. Where'
  BY DEF ReplayInv, Stays, Where, N, req
<1>4. OutcomeSound'
  <2>1. Faithful(outcome) <=> Faithful(outcome)'
    BY DEF Stays, Faithful, N, req, ContextTail
  <2> QED
    BY <2>1 DEF ReplayInv, Stays, OutcomeSound
<1> QED
  BY <1>1, <1>2, <1>3, <1>4

\* A step that drafts nothing leaves the draft sound.
LEMMA DraftStays ==
    ASSUME ReplayInv, UNCHANGED draftVars, kind' = kind
    PROVE  DraftSound'
BY DEF ReplayInv, draftVars, DraftSound, OfLedger

\* A step that learns nothing leaves what was learned sound.
LEMMA LearnedStays ==
    ASSUME ReplayInv, UNCHANGED learned
    PROVE  LearnedSound'
BY DEF ReplayInv, learned, LearnedSound

\* Every step preserves the invariant.
LEMMA NextSound ==
    ASSUME ReplayInv, [Next]_vars
    PROVE  ReplayInv'
<1>1. /\ Len(reqs) \in Nat /\ DOMAIN reqs = 1..Len(reqs)
      /\ r \in 0..Len(reqs) /\ p \in Nat /\ fired \in Nat
  BY DEF ReplayInv, RequestsTyped, Where
<1>2. ASSUME UNCHANGED runVars
      PROVE  (RequestsTyped /\ reqs \in {ReadTraces(recs) : recs \in Traces})' /\ kind' = kind
  BY <1>2 DEF ReplayInv, RequestsTyped, runVars
<1>3. ASSUME NEW proposal \in Proposals \cup {NoSpan}, OpenRequest(proposal)
      PROVE  ReplayInv'
  <2>1. /\ step = "next" /\ r < Len(reqs) /\ r' = r + 1 /\ p' = 0 /\ fired' = 0
        /\ step' = (IF reqs[r'].toks = <<>> THEN "next" ELSE "draft")
        /\ UNCHANGED learned /\ reqs' = reqs /\ kind' = kind /\ outcome' = outcome
        /\ Begin(proposal)
    BY <1>3 DEF OpenRequest
  <2>2. (RequestsTyped /\ reqs \in {ReadTraces(recs) : recs \in Traces})'
    BY <2>1 DEF ReplayInv, RequestsTyped
  <2>3. r + 1 \in 1..Len(reqs) /\ r' \in 1..Len(reqs') /\ r' # 0
    BY <1>1, <2>1
  <2>4. Where'
    <3> DEFINE toks == reqs[r + 1].toks
    <3>1. toks \in Seq(Tokens)
      BY <2>3 DEF ReplayInv, RequestsTyped, IsRequest
    <3>2. N' = Len(toks) /\ step' = IF toks = <<>> THEN "next" ELSE "draft"
      BY <2>1 DEF N, req
    <3> HIDE DEF toks
    <3>3. CASE toks = <<>>
      <4>1. N' = 0 /\ step' = "next"
        BY <3>2, <3>3
      <4> QED
        BY <2>1, <2>3, <4>1 DEF Where
    <3>4. CASE toks # <<>>
      <4>1. 0 < N' /\ step' = "draft"
        <5>1. Len(toks) \in Nat /\ Len(toks) # 0
          BY <3>1, <3>4, EmptySeq, LenProperties
        <5> QED
          BY <3>2, <3>4, <5>1
      <4> QED
        BY <2>1, <2>3, <4>1 DEF Where
    <3> QED
      BY <3>3, <3>4
  <2>5. OutcomeSound'
    BY <2>1 DEF ReplayInv, OutcomeSound
  <2> QED
    BY <2>1, <2>2, <2>4, <2>5, BeginSound, LearnedStays DEF ReplayInv
<1>4. ASSUME NEW proposal \in Proposals \cup {NoSpan}, Move(proposal)
      PROVE  ReplayInv'
  <2>1. /\ step = "move" /\ p' = p + outcome.acc + 1 /\ outcome' = NoOutcome
        /\ step' = (IF p' < N THEN "draft" ELSE "next")
        /\ UNCHANGED learned /\ UNCHANGED runVars /\ fired' = fired /\ Begin(proposal)
    BY <1>4 DEF Move, Reached
  <2>2. Drafting /\ Faithful(outcome) /\ r > 0
    BY <2>1, InvIsDrafting DEF ReplayInv, OutcomeSound
  <2>3. N \in Nat /\ p' \in Nat /\ p' <= N /\ N' = N
    <3>1. N \in Nat /\ outcome.acc \in Nat /\ p + outcome.acc + 1 <= N
      BY <2>2, OutcomeTypes
    <3>2. N' = N
      BY <2>1 DEF N, req, runVars
    <3> QED
      BY <1>1, <2>1, <3>1, <3>2
  <2>4. Where'
    <3>1. /\ r' = r /\ reqs' = reqs /\ fired' = fired
          /\ (step' = "draft" /\ p' < N') \/ (step' = "next" /\ p' = N')
      <4>1. p' < N \/ p' = N
        BY <2>3
      <4>2. r' = r /\ reqs' = reqs
        BY <2>1 DEF runVars
      <4> QED
        BY <2>1, <2>3, <4>1, <4>2
    <3>2. r' \in 0..Len(reqs') /\ p' \in Nat /\ fired' \in Nat /\ r' # 0
      BY <1>1, <2>2, <2>3, <3>1
    <3> QED
      BY <3>1, <3>2 DEF Where
  <2>5. OutcomeSound'
    BY <2>1 DEF OutcomeSound
  <2> QED
    BY <1>2, <2>1, <2>4, <2>5, BeginSound, LearnedStays DEF ReplayInv
<1>5. CASE DraftOfLedger
  <2>1. Stays /\ UNCHANGED learned
    BY <1>5 DEF DraftOfLedger, Stays, replayVars, runVars
  <2> QED
    BY <1>5, <2>1, PlaceStays, LedgerDraftSound, LearnedStays DEF ReplayInv
<1>6. CASE DraftOfVanilla \/ DraftOfRecycle \/ DraftOfDense
  <2>1. \E t : Drafted(t)
    BY <1>6 DEF DraftOfVanilla, DraftOfRecycle, DraftOfDense
  <2>2. Stays
    BY <2>1 DEF Drafted, Stays, replayVars, runVars
  <2> QED
    BY <1>6, <2>2, PlaceStays, OtherDraftSound DEF ReplayInv
<1>7. CASE Verify
  <2>1. /\ step = "draft" /\ step' = "bump" /\ outcome' = Harvested /\ Learn(Harvested)
        /\ UNCHANGED draftVars /\ UNCHANGED runVars /\ p' = p /\ fired' = fired
    BY <1>7 DEF Verify, Harvested
  <2>2. Drafting /\ Faithful(Harvested)
    BY <2>1, InvIsDrafting, HarvestedFacts
  <2>3. LearnedSound'
    BY <2>1, <2>2, LearnSound DEF ReplayInv
  <2>4. N' = N
    BY <2>1 DEF N, req, runVars
  <2>5. Where'
    BY <2>1, <2>4 DEF ReplayInv, Where, runVars
  <2>6. OutcomeSound'
    <3>1. Faithful(Harvested) <=> Faithful(outcome)'
      <4> DEFINE ev == Harvested
      <4>1. outcome' = ev
        BY <2>1
      <4> HIDE DEF ev
      <4> QED
        BY <2>1, <4>1 DEF Faithful, N, req, ContextTail, runVars, ev
    <3> QED
      BY <2>1, <2>2, <3>1 DEF OutcomeSound
  <2> QED
    BY <1>2, <2>1, <2>3, <2>5, <2>6, DraftStays DEF ReplayInv
<1>8. CASE RaiseEpoch \/ EndBumps
  <2>1. /\ step = "bump" /\ step' \in {"bump", "move"} /\ fired' \in Nat
        /\ UNCHANGED <<draftVars, learned, runVars, p, outcome>>
    BY <1>1, <1>8 DEF RaiseEpoch, EndBumps
  <2>2. N' = N /\ r' = r /\ reqs' = reqs /\ kind' = kind
    BY <2>1 DEF N, req, runVars
  <2>3. Where'
    BY <2>1, <2>2 DEF ReplayInv, Where
  <2>4. OutcomeSound'
    <3>1. Faithful(outcome) <=> Faithful(outcome)'
      BY <2>1 DEF Faithful, N, req, ContextTail, runVars
    <3> QED
      BY <2>1, <3>1 DEF ReplayInv, OutcomeSound
  <2> QED
    BY <1>2, <2>1, <2>2, <2>3, <2>4, DraftStays, LearnedStays DEF ReplayInv
<1>9. CASE EndReplay
  <2>1. /\ step = "next" /\ r = Len(reqs) /\ step' = "over"
        /\ UNCHANGED <<draftVars, learned, runVars, p, outcome, fired>>
    BY <1>9 DEF EndReplay
  <2>2. N' = N /\ r' = r /\ reqs' = reqs /\ kind' = kind
    BY <2>1 DEF N, req, runVars
  <2>3. Where'
    BY <2>1, <2>2 DEF ReplayInv, Where
  <2>4. OutcomeSound'
    BY <2>1 DEF ReplayInv, OutcomeSound
  <2> QED
    BY <1>2, <2>1, <2>2, <2>3, <2>4, DraftStays, LearnedStays DEF ReplayInv
<1>10. CASE UNCHANGED vars
  <2>1. Stays /\ UNCHANGED draftVars /\ UNCHANGED learned
    BY <1>10 DEF vars, replayVars, runVars, Stays
  <2> QED
    BY <2>1, PlaceStays, DraftStays, LearnedStays DEF ReplayInv, Stays
<1> QED
  BY <1>3, <1>4, <1>5, <1>6, <1>7, <1>8, <1>9, <1>10 DEF Next

-----------------------------------------------------------------------------
(* What follows of it.                                                     *)

\* The inductive invariant of the replay: the requests are whole, the draft is
\* a tree within its bounds, the replay is where its step says, an outcome is
\* there between Verify and Move and agrees with the request, and rows and
\* indexes hold tokens of the program.
THEOREM ReplaySound == Spec => []ReplayInv
<1>1. Init => ReplayInv
  BY InitSound
<1>2. ReplayInv /\ [Next]_vars => ReplayInv'
  BY NextSound
<1> QED
  BY <1>1, <1>2, PTL DEF Spec

\* A draft keeps to its budget and offers no token twice at the same place,
\* whoever drafts but token recycling.
THEOREM DraftsWellFormed == Spec => []DraftWellFormed
<1>1. ReplayInv => DraftWellFormed
  BY DEF ReplayInv, DraftSound, DraftWellFormed, SiblingsDiffer
<1> QED
  BY <1>1, ReplaySound, PTL

\* An outcome that is there agrees with the request.
LEMMA OutcomeIsFaithful ==
    ASSUME ReplayInv, outcome # NoOutcome
    PROVE  Drafting /\ Faithful(outcome)
BY InvIsDrafting DEF ReplayInv, OutcomeSound

\* Every outcome harvested is one the store may be given (run_replay): its draft
\* is as long as its verdict says, a rejected token is not the one that came
\* instead, and there is a segment and a row for each of its positions, with
\* log-probabilities for all ids of the row or for none.
THEOREM OutcomesHonest == Spec => []OutcomeHonest
<1>1. ReplayInv => OutcomeHonest
  <2>1. ASSUME ReplayInv, outcome # NoOutcome PROVE OutcomeHonest
    BY <2>1, OutcomeIsFaithful, FaithfulIsHonest
  <2>2. ASSUME outcome = NoOutcome PROVE OutcomeHonest
    BY <2>2 DEF OutcomeHonest
  <2> QED
    BY <2>1, <2>2
<1> QED
  BY <1>1, ReplaySound, PTL

\* The contexts an outcome is stored under are those a lookup at the same
\* position of the stream reads, of every order.
THEOREM ContextsAgreed == Spec => []ContextsAgree
<1>1. ReplayInv => ContextsAgree
  <2>1. ASSUME ReplayInv, outcome # NoOutcome PROVE ContextsAgree
    BY <2>1, OutcomeIsFaithful, FaithfulContexts
  <2>2. ASSUME outcome = NoOutcome PROVE ContextsAgree
    BY <2>2 DEF ContextsAgree
  <2> QED
    BY <2>1, <2>2
<1> QED
  BY <1>1, ReplaySound, PTL

-----------------------------------------------------------------------------
(* Edits.                                                                  *)

\* While epochs are raised, an edit that took effect was reached, and one that
\* the steps before reached took effect.
EditsSound ==
    r > 0 =>
        \A e \in 1..Len(req.events) :
            /\ e <= fired =>
                  req.events[e].bump < (IF step \in {"bump", "move"} THEN Reached ELSE p)
            /\ req.events[e].bump < (IF step = "move" THEN Reached ELSE p) => e <= fired

\* The edits of the request replayed.
LEMMA EditFacts ==
    ASSUME RequestsTyped, r \in 1..Len(reqs)
    PROVE  /\ Len(req.events) \in Nat
           /\ \A e \in 1..Len(req.events) : req.events[e].bump \in Nat
<1> DEFINE events == req.events
<1>1. events \in Seq([pos : Nat, bump : Nat, file : Domains])
  BY DEF RequestsTyped, IsRequest, req
<1> HIDE DEF events
<1>2. Len(events) \in Nat /\ \A e \in 1..Len(events) : events[e] \in [pos : Nat, bump : Nat, file : Domains]
  BY <1>1, LenProperties, ElementOfSeq
<1> QED
  BY <1>2 DEF events

\* Every step keeps account of the edits that took effect.
LEMMA EditsNext ==
    ASSUME BumpsInOrder, ReplayInv, EditsSound, [Next]_vars
    PROVE  EditsSound'
<1>1. /\ RequestsTyped /\ Len(reqs) \in Nat /\ r \in 0..Len(reqs) /\ p \in Nat /\ fired \in Nat
  BY DEF ReplayInv, RequestsTyped, Where
<1>2. ASSUME r > 0
      PROVE  /\ r \in 1..Len(reqs) /\ Len(req.events) \in Nat
             /\ \A e \in 1..Len(req.events) : req.events[e].bump \in Nat
  BY <1>1, <1>2, EditFacts
<1>3. ASSUME NEW proposal \in Proposals \cup {NoSpan}, OpenRequest(proposal)
      PROVE  EditsSound'
  <2>1. /\ step' \in {"next", "draft"} /\ p' = 0 /\ fired' = 0 /\ reqs' = reqs
        /\ r < Len(reqs) /\ r' = r + 1
    BY <1>3 DEF OpenRequest
  <2>2. RequestsTyped' /\ r' \in 1..Len(reqs')
    BY <1>1, <2>1, NextSound DEF ReplayInv
  <2> DEFINE events == req'.events
  <2>3. \A e \in 1..Len(events) : events[e].bump \in Nat
    <3>1. events \in Seq([pos : Nat, bump : Nat, file : Domains])
      BY <2>2 DEF RequestsTyped, IsRequest, req
    <3> HIDE DEF events
    <3>2. \A e \in 1..Len(events) : events[e] \in [pos : Nat, bump : Nat, file : Domains]
      BY <3>1, ElementOfSeq
    <3> QED
      BY <3>2
  <2>4. \A e \in 1..Len(events) : ~ (e <= 0) /\ ~ (events[e].bump < 0)
    BY <2>3
  <2> HIDE DEF events
  <2> QED
    BY <2>1, <2>4 DEF EditsSound, events
<1>4. ASSUME NEW proposal \in Proposals \cup {NoSpan}, Move(proposal)
      PROVE  EditsSound'
  BY <1>4 DEF Move, EditsSound, runVars, req
<1>5. CASE DraftOfLedger
  BY <1>5 DEF DraftOfLedger, EditsSound, replayVars, runVars, req, Reached
<1>6. CASE DraftOfVanilla \/ DraftOfRecycle \/ DraftOfDense
  <2>1. \E t : Drafted(t)
    BY <1>6 DEF DraftOfVanilla, DraftOfRecycle, DraftOfDense
  <2> QED
    BY <2>1 DEF Drafted, EditsSound, replayVars, runVars, req, Reached
<1>7. CASE Verify
  <2>1. /\ step = "draft" /\ step' = "bump" /\ UNCHANGED runVars /\ p' = p /\ fired' = fired
        /\ outcome' = Harvested
    BY <1>7 DEF Verify, Harvested
  <2>2. Harvested.acc \in Nat
    BY <2>1, InvIsDrafting, HarvestedFacts DEF Faithful, Outcomes
  <2>3. Reached' \in Nat /\ p < Reached'
    BY <1>1, <2>1, <2>2 DEF Reached
  <2>4. r' = r /\ req' = req
    BY <2>1 DEF runVars, req
  <2> QED
    BY <1>1, <1>2, <2>1, <2>3, <2>4 DEF EditsSound
<1>8. CASE RaiseEpoch
  <2>1. /\ step = "bump" /\ step' = "bump" /\ UNCHANGED runVars /\ p' = p
        /\ fired' = fired + 1 /\ outcome' = outcome /\ EventDue
    BY <1>8 DEF RaiseEpoch
  <2>2. r' = r /\ req' = req /\ Reached' = Reached
    BY <2>1 DEF runVars, req, Reached
  <2>3. /\ fired < Len(req.events) /\ req.events[fired + 1].bump < Reached
    BY <2>1 DEF EventDue
  <2> SUFFICES ASSUME r > 0, NEW e \in 1..Len(req.events)
               PROVE  /\ e <= fired + 1 => req.events[e].bump < Reached
                      /\ req.events[e].bump < p => e <= fired + 1
    BY <2>1, <2>2 DEF EditsSound
  <2>4. /\ e <= fired => req.events[e].bump < Reached
        /\ req.events[e].bump < p => e <= fired
    BY <2>1 DEF EditsSound
  <2>5. Len(req.events) \in Nat
    BY <1>2
  <2>6. e \in Nat /\ (e <= fired + 1 => e <= fired \/ e = fired + 1)
        /\ (e <= fired => e <= fired + 1)
    BY <1>1, <2>5
  <2> QED
    BY <2>3, <2>4, <2>6
<1>9. CASE EndBumps
  <2>1. /\ step = "bump" /\ step' = "move" /\ UNCHANGED runVars /\ p' = p
        /\ fired' = fired /\ outcome' = outcome /\ ~EventDue
    BY <1>9 DEF EndBumps
  <2>2. r' = r /\ req' = req /\ Reached' = Reached
    BY <2>1 DEF runVars, req, Reached
  <2> SUFFICES ASSUME r > 0, NEW e \in 1..Len(req.events)
               PROVE  /\ e <= fired => req.events[e].bump < Reached
                      /\ req.events[e].bump < Reached => e <= fired
    BY <2>1, <2>2 DEF EditsSound
  <2>3. e <= fired => req.events[e].bump < Reached
    BY <2>1 DEF EditsSound
  <2>4. ASSUME ~ (e <= fired) PROVE ~ (req.events[e].bump < Reached)
    <3> DEFINE d == fired + 1
               events == req.events
    <3>1. d \in 1..e /\ d \in 1..Len(events)
      BY <1>1, <1>2, <2>4
    <3>2. ~ (events[d].bump < Reached)
      <4>1. fired < Len(req.events)
        BY <1>1, <1>2, <2>4
      <4> QED
        BY <2>1, <4>1 DEF EventDue
    <3>3. events[d].bump <= events[e].bump
      <4>1. PICK recs \in Traces : reqs = ReadTraces(recs)
        BY DEF ReplayInv
      <4>2. r \in DOMAIN ReadTraces(recs) /\ events = ReadTraces(recs)[r].events
        BY <1>1, <1>2, <4>1 DEF RequestsTyped, req
      <4>3. e \in DOMAIN events
        <5>1. events \in Seq([pos : Nat, bump : Nat, file : Domains])
          BY <1>1, <1>2 DEF RequestsTyped, IsRequest, req
        <5> HIDE DEF events
        <5>2. DOMAIN events = 1..Len(events)
          BY <5>1, LenProperties
        <5> QED
          BY <5>2 DEF events
      <4> HIDE DEF events, d
      <4> QED
        BY <3>1, <4>1, <4>2, <4>3 DEF BumpsInOrder
    <3>4. events[d].bump \in Nat /\ events[e].bump \in Nat
      BY <1>2, <3>1
    <3>5. Reached \in Nat
      <4>1. Faithful(outcome)
        BY <2>1 DEF ReplayInv, OutcomeSound
      <4>2. outcome.acc \in Nat
        BY <4>1 DEF Faithful, Outcomes
      <4> QED
        BY <1>1, <4>2 DEF Reached
    <3> HIDE DEF events, d
    <3>6. ~ (events[e].bump < Reached)
      BY <3>2, <3>3, <3>4, <3>5
    <3> QED
      BY <3>6 DEF events
  <2> QED
    BY <2>3, <2>4
<1>10. CASE EndReplay
  BY <1>10 DEF EndReplay, EditsSound, runVars, req
<1>11. CASE UNCHANGED vars
  BY <1>11 DEF vars, replayVars, runVars, EditsSound, req, Reached
<1> QED
  BY <1>3, <1>4, <1>5, <1>6, <1>7, <1>8, <1>9, <1>10, <1>11 DEF Next

\* Where the edits of a request take effect in the order in which they end,
\* each does so in the step that reaches it, and none is left over.
THEOREM EditsAreOnTime ==
    ASSUME BumpsInOrder
    PROVE  Spec => []EditsOnTime
<1>1. Init => EditsSound
  BY DEF Init, EditsSound
<1>2. ReplayInv /\ EditsSound /\ [Next]_vars => EditsSound'
  BY EditsNext
<1>3. ReplayInv /\ EditsSound => EditsOnTime
  BY DEF EditsSound, EditsOnTime
<1> QED
  BY <1>1, <1>2, <1>3, ReplaySound, PTL DEF Spec

-----------------------------------------------------------------------------
(* Verification, which never goes back, misses nothing.                    *)

\* The nodes that agree with the truth, depth by depth.
LEMMA AgreeingFacts ==
    ASSUME NEW t, GoodTree(t), NEW truth \in Seq(Tokens)
    PROVE  LET at == Agreeing(t, truth)
           IN  /\ at[0] = {0}
               /\ \A d \in 0..Reach(t, truth) : at[d] \subseteq 0..Len(t)
               /\ \A d \in 1..Reach(t, truth) :
                     at[d] = UNION {Matching(t, n, truth, d - 1) : n \in at[d - 1]}
<1> DEFINE m == Reach(t, truth)
           V == SUBSET (0..Len(t))
           Root == {0}
           Onward(S, d) == UNION {Matching(t, n, truth, d - 1) : n \in S}
           G == [x \in V \X (1..m) |-> Onward(x[1], x[2])]
           Body(f) == [d \in 0..m |-> IF d = 0 THEN Root ELSE Onward(f[d - 1], d)]
           at == CHOOSE f : f = Body(f)
<1>1. m \in Nat /\ Len(t) \in Nat /\ PathLengths(t, truth) = 0..m
  BY ReachFacts
<1>2. Agreeing(t, truth) = at
  BY <1>1 DEF Agreeing
<1>3. Root \in V
  BY <1>1
<1>4. ASSUME NEW S \in V, NEW d \in 1..m
      PROVE  Onward(S, d) \in V
  <2>1. ASSUME NEW n \in S PROVE Matching(t, n, truth, d - 1) \subseteq 0..Len(t)
    <3>1. n \in Nat /\ d - 1 \in Nat
      BY <1>1
    <3>2. Matching(t, n, truth, d - 1) \subseteq 1..Len(t)
      BY <3>1, MatchingFacts
    <3> QED
      BY <3>2
  <2> QED
    BY <2>1
<1>5. \A S \in V : \A d \in 1..m : G[<<S, d>>] = Onward(S, d)
  OBVIOUS
<1>6. Closed(G, m, V)
  <2> HIDE DEF G, V, m, Onward
  <2> QED
    BY <1>4, <1>5 DEF Closed
<1> HIDE DEF G, m, V, Body, at, Onward, Root
<1>7. PICK f : /\ f \in [0..m -> V] /\ f[0] = Root
               /\ \A d \in 1..m : f[d] = G[<<f[d - 1], d>>]
  <2>1. m \in Nat /\ Root \in V /\ Closed(G, m, V)
    BY <1>1, <1>3, <1>6
  <2>2. PICK g : Iterated(g, m, V, Root, G)
    BY <2>1, SimpleRecursion
  <2> QED
    BY <2>2 DEF Iterated
<1> HIDE DEF Onward
<1>8. \A d \in 1..m : f[d] = Onward(f[d - 1], d)
  <2> SUFFICES ASSUME NEW d \in 1..m PROVE f[d] = Onward(f[d - 1], d)
    OBVIOUS
  <2>1. f[d - 1] \in V
    BY <1>1, <1>7
  <2> QED
    BY <2>1, <1>5, <1>7
<1>9. f = Body(f)
  BY <1>7, <1>8 DEF Body
<1>10. at = Body(at)
  BY <1>9 DEF at
<1>11. /\ at[0] = Root /\ \A d \in 1..m : at[d] = Onward(at[d - 1], d)
  <2> USE DEF Body
  <2> QED
    BY <1>1, <1>10
<1>12. \A d \in 0..m : at[d] \in V
  <2> DEFINE S == {d \in 0..m : at[d] \in V}
  <2>1. 0 \in S
    BY <1>1, <1>3, <1>11
  <2>2. ASSUME NEW d \in 0..m - 1, d \in S PROVE d + 1 \in S
    <3>1. d + 1 \in 1..m /\ (d + 1) - 1 = d /\ d + 1 \in 0..m
      BY <1>1
    <3>2. at[d + 1] = Onward(at[d], d + 1) /\ at[d] \in V
      BY <1>11, <2>2, <3>1
    <3> QED
      BY <1>4, <3>1, <3>2
  <2> HIDE DEF S
  <2>3. 0..m \subseteq S
    BY <1>1, <2>1, <2>2, Induction
  <2> QED
    BY <2>3 DEF S
<1> QED
  BY <1>2, <1>11, <1>12 DEF Onward, V, m, Root

\* The walk goes as far as any node agrees.
LongWalk(t, truth) ==
    \A d \in 0..Reach(t, truth) : Agreeing(t, truth)[d] # {} <=> Walk(t, truth)[d] # -1

\* Verification that stops only where no node is as deep accepts the longest
\* path there is.
LEMMA LongWalkIsLongest ==
    ASSUME NEW t, GoodTree(t), NEW truth \in Seq(Tokens), LongWalk(t, truth)
    PROVE  AcceptedLen(t, truth) = LongestMatch(t, truth)
<1>1. PathLengths(t, truth) = 0..Reach(t, truth)
  BY ReachFacts
<1>2. {d \in PathLengths(t, truth) \ {0} : Agreeing(t, truth)[d] # {}}
      = {d \in PathLengths(t, truth) \ {0} : Walk(t, truth)[d] # -1}
  BY <1>1 DEF LongWalk
<1> QED
  BY <1>2 DEF AcceptedLen, LongestMatch

\* The node of the walk agrees.
LEMMA WalkAgrees ==
    ASSUME NEW t, GoodTree(t), NEW truth \in Seq(Tokens)
    PROVE  \A d \in 0..AcceptedLen(t, truth) : Walk(t, truth)[d] \in Agreeing(t, truth)[d]
<1> DEFINE W  == Walk(t, truth)
           at == Agreeing(t, truth)
           m  == Reach(t, truth)
           a  == AcceptedLen(t, truth)
           S  == {d \in 0..a : W[d] \in at[d]}
<1>1. /\ a \in 0..m /\ m \in Nat /\ W[0] = 0
      /\ \A d \in 1..a : W[d] \in Matching(t, W[d - 1], truth, d - 1)
  BY AcceptedFacts, ReachFacts
<1>2. /\ at[0] = {0}
      /\ \A d \in 1..m : at[d] = UNION {Matching(t, n, truth, d - 1) : n \in at[d - 1]}
  BY AgreeingFacts
<1> HIDE DEF W, at, m, a
<1>3. 0 \in S
  BY <1>1, <1>2
<1>4. ASSUME NEW d \in 0..a - 1, d \in S PROVE d + 1 \in S
  <2>1. d + 1 \in 1..a /\ (d + 1) - 1 = d /\ d + 1 \in 0..a /\ d + 1 \in 1..m
    BY <1>1
  <2>2. W[d + 1] \in Matching(t, W[d], truth, d)
    BY <1>1, <2>1
  <2>3. at[d + 1] = UNION {Matching(t, n, truth, d) : n \in at[d]}
    BY <1>2, <2>1
  <2>4. W[d] \in at[d]
    BY <1>4
  <2> QED
    BY <2>1, <2>2, <2>3, <2>4
<1> HIDE DEF S
<1>5. 0..a \subseteq S
  <2>1. a \in Nat
    BY <1>1
  <2> QED
    BY <2>1, <1>3, <1>4, Induction
<1> QED
  BY <1>5 DEF S, W, at, a

\* What is left to show: behind what the walk does not reach, nothing agrees.
LEMMA LongWalkFrom ==
    ASSUME NEW t, GoodTree(t), NEW truth \in Seq(Tokens),
           \A d \in 0..Reach(t, truth) :
               Agreeing(t, truth)[d] # {} => Walk(t, truth)[d] # -1
    PROVE  LongWalk(t, truth)
<1>1. \A d \in 0..Reach(t, truth) : Walk(t, truth)[d] # -1 => d \in 0..AcceptedLen(t, truth)
  BY AcceptedFacts, ReachFacts
<1> QED
  BY <1>1, WalkAgrees DEF LongWalk

\* Where siblings differ, one node agrees at most, the one the walk is at.
LEMMA SiblingsWalk ==
    ASSUME NEW t, GoodTree(t), SiblingsDiffer(t), NEW truth \in Seq(Tokens)
    PROVE  LongWalk(t, truth)
<1> DEFINE W  == Walk(t, truth)
           at == Agreeing(t, truth)
           m  == Reach(t, truth)
           a  == AcceptedLen(t, truth)
           S  == {d \in 0..m : \A n \in at[d] : W[d] = n}
<1>1. /\ a \in 0..m /\ m \in Nat /\ W[0] = 0
      /\ \A d \in 0..a : W[d] \in d..Len(t)
      /\ \A d \in 0..m : W[d] # -1 <=> d <= a
      /\ \A d \in 1..a : W[d] \in Matching(t, W[d - 1], truth, d - 1)
      /\ a < m => Matching(t, W[a], truth, a) = {}
  BY AcceptedFacts, ReachFacts
<1>2. /\ at[0] = {0}
      /\ \A d \in 0..m : at[d] \subseteq 0..Len(t)
      /\ \A d \in 1..m : at[d] = UNION {Matching(t, n, truth, d - 1) : n \in at[d - 1]}
  BY AgreeingFacts
<1> HIDE DEF W, at, m, a
<1>3. 0 \in S
  BY <1>1, <1>2
<1>4. ASSUME NEW d \in 0..m - 1, d \in S PROVE d + 1 \in S
  <2>1. d + 1 \in 1..m /\ (d + 1) - 1 = d /\ d + 1 \in 0..m /\ d \in 0..m
    BY <1>1
  <2> SUFFICES ASSUME NEW n \in at[d + 1] PROVE W[d + 1] = n
    BY <2>1
  <2>2. PICK k \in at[d] : n \in Matching(t, k, truth, d)
    BY <1>2, <2>1
  <2>3. W[d] = k /\ k \in 0..Len(t)
    BY <1>2, <1>4, <2>1
  <2>4. Len(t) \in Nat /\ k \in Nat
    BY <2>3, ReachFacts
  <2>5. d <= a
    BY <1>1, <2>1, <2>3, <2>4
  <2>6. d # a
    BY <1>1, <2>1, <2>2, <2>3
  <2>7. d + 1 \in 1..a
    BY <1>1, <2>1, <2>5, <2>6
  <2>8. W[d + 1] \in Matching(t, k, truth, d)
    BY <1>1, <2>1, <2>3, <2>7, SMTT(30)
  <2>9. \A i \in Matching(t, k, truth, d) :
            i \in 1..Len(t) /\ t[i].parent = k /\ t[i].tok = truth[d + 1]
    BY <2>1, <2>4, MatchingFacts
  <2> QED
    BY <2>2, <2>8, <2>9 DEF SiblingsDiffer
<1> HIDE DEF S
<1>5. 0..m \subseteq S
  BY <1>1, <1>3, <1>4, Induction
<1>6. \A d \in 0..m : at[d] # {} => W[d] # -1
  <2> SUFFICES ASSUME NEW d \in 0..m, NEW n \in at[d] PROVE W[d] # -1
    OBVIOUS
  <2>1. W[d] = n /\ n \in 0..Len(t)
    BY <1>2, <1>5 DEF S
  <2> QED
    BY <2>1, ReachFacts
<1> QED
  BY <1>6, LongWalkFrom DEF W, at, m

\* The slots that lead to a node.
PathOf(n) == IF n = 0 THEN <<>> ELSE Template[n]
Paths == {Template[i] : i \in DOMAIN Template}

\* The path of a node is that of its parent and its slot.
LEMMA PathFacts ==
    ASSUME NEW i \in 1..Len(Template)
    PROVE  LET q == Wiring[i].parent
               d == Len(PathOf(q))
           IN  /\ q \in 0..Len(Template) /\ d \in Nat
               /\ PathOf(i) = Template[i] /\ Len(PathOf(i)) = d + 1
               /\ \A k \in 1..d : PathOf(i)[k] = PathOf(q)[k]
               /\ PathOf(i)[d + 1] = Wiring[i].slot - 1
               /\ Wiring[i].slot - 1 \in Nat
<1> DEFINE q == Wiring[i].parent
           path == Template[i]
           l == Len(path)
<1>1. /\ Len(Template) \in Nat
      /\ path \in Seq(0..RowWidth - 1) /\ l \in Nat \ {0}
      /\ Wiring[i].slot = path[l] + 1
      /\ q \in 0..i - 1
      /\ l = 1 => q = 0
      /\ l > 1 => q \in 1..i - 1 /\ Template[q] = SubSeq(path, 1, l - 1)
  BY WiringFacts DEF SlotOf, LeadingTo
<1>2. RowWidth \in Nat
  BY RecyclingConstants
<1>3. path[l] \in 0..RowWidth - 1
  <2>1. l \in 1..Len(path)
    BY <1>1
  <2> HIDE DEF path, l
  <2> QED
    BY <1>1, <2>1, ElementOfSeq
<1>4. PathOf(i) = path /\ i # 0
  BY <1>1 DEF PathOf
<1> HIDE DEF l, path, q
<1>5. Wiring[i].slot - 1 = path[l] /\ path[l] \in Nat
  BY <1>1, <1>2, <1>3
<1>6. CASE l = 1
  <2>1. q = 0 /\ PathOf(q) = <<>> /\ Len(PathOf(q)) = 0
    BY <1>1, <1>6 DEF PathOf
  <2>2. Len(path) = 1 /\ path[1] = Wiring[i].slot - 1
    BY <1>5, <1>6 DEF l
  <2> HIDE DEF l
  <2>3. /\ Len(PathOf(i)) = Len(PathOf(q)) + 1 /\ PathOf(i)[Len(PathOf(q)) + 1] = Wiring[i].slot - 1
        /\ Len(PathOf(q)) \in Nat /\ \A k \in 1..Len(PathOf(q)) : PathOf(i)[k] = PathOf(q)[k]
    BY <1>4, <2>1, <2>2
  <2>4. q \in 0..Len(Template) /\ PathOf(i) = Template[i] /\ Wiring[i].slot - 1 \in Nat
    BY <1>1, <1>4, <1>5, <2>1 DEF path
  <2> QED
    BY <2>3, <2>4 DEF q
<1>7. CASE l > 1
  <2>1. /\ q \in 1..i - 1 /\ q # 0 /\ PathOf(q) = SubSeq(path, 1, l - 1)
    BY <1>1, <1>7 DEF PathOf
  <2>2. l - 1 \in Nat /\ l - 1 <= Len(path) /\ (l - 1) + 1 = l
    BY <1>1 DEF l
  <2> DEFINE e == l - 1
  <2> HIDE DEF e
  <2>3. /\ Len(SubSeq(path, 1, e)) = e
        /\ \A k \in 1..e : SubSeq(path, 1, e)[k] = path[k]
    BY <1>1, <2>2, BeginFacts DEF e
  <2>4. Len(PathOf(q)) = e /\ e \in Nat /\ Len(path) = e + 1 /\ path[e + 1] = Wiring[i].slot - 1
    BY <1>5, <2>1, <2>2, <2>3 DEF e, l
  <2>5. /\ Len(PathOf(i)) = e + 1 /\ PathOf(i)[e + 1] = Wiring[i].slot - 1
        /\ \A k \in 1..e : PathOf(i)[k] = PathOf(q)[k]
    BY <1>4, <2>1, <2>3, <2>4 DEF e
  <2>6. q \in 0..Len(Template) /\ PathOf(i) = Template[i] /\ Wiring[i].slot - 1 \in Nat
    BY <1>1, <1>4, <1>5, <2>1 DEF path
  <2> QED
    BY <2>4, <2>5, <2>6 DEF q
<1>8. l = 1 \/ l > 1
  BY <1>1
<1> QED
  BY <1>6, <1>7, <1>8

\* A path leads to one node only, and children are in the order of their slots.
LEMMA OrderFacts ==
    ASSUME NEW j \in 1..Len(Template), NEW i \in 1..j - 1,
           LeadingTo(Template[i]) = LeadingTo(Template[j])
    PROVE  Wiring[i].slot < Wiring[j].slot
<1>1. DOMAIN Template = 1..Len(Template) /\ Len(Template) \in Nat
  BY WiringFacts
<1>2. SlotOf(Template[i]) < SlotOf(Template[j])
  BY <1>1, RecyclingConstants DEF Wired
<1>3. i \in 1..Len(Template)
  BY <1>1
<1>4. /\ Wiring[i].slot = SlotOf(Template[i]) + 1 /\ Wiring[i].slot \in 1..RowWidth
      /\ Wiring[j].slot = SlotOf(Template[j]) + 1 /\ Wiring[j].slot \in 1..RowWidth
  BY <1>3, WiringFacts
<1>5. SlotOf(Template[i]) \in Int /\ SlotOf(Template[j]) \in Int
  <2>1. Wiring[i].slot - 1 \in Nat /\ Wiring[j].slot - 1 \in Nat
    BY <1>3, PathFacts
  <2>2. /\ Template[i] \in Seq(0..RowWidth - 1) /\ Len(Template[i]) \in Nat \ {0}
        /\ Template[j] \in Seq(0..RowWidth - 1) /\ Len(Template[j]) \in Nat \ {0}
    BY <1>3, WiringFacts
  <2>3. ASSUME NEW path \in Seq(0..RowWidth - 1), Len(path) \in Nat \ {0}
        PROVE  SlotOf(path) \in Int
    <3> DEFINE l == Len(path)
    <3>1. l \in 1..Len(path)
      BY <2>3
    <3> HIDE DEF l
    <3>2. path[l] \in 0..RowWidth - 1
      BY <3>1, ElementOfSeq
    <3>3. RowWidth \in Nat
      BY RecyclingConstants
    <3> QED
      BY <3>2, <3>3 DEF SlotOf, l
  <2> QED
    BY <2>2, <2>3
<1> QED
  BY <1>2, <1>4, <1>5

\* No path occurs twice in the template.
LEMMA SamePath ==
    ASSUME NEW i \in 1..Len(Template), NEW j \in 1..Len(Template), Template[i] = Template[j]
    PROVE  i = j
<1>1. Wiring[i].slot = Wiring[j].slot /\ Wiring[i].slot \in 1..RowWidth
  BY WiringFacts
<1>2. ~ (Wiring[i].slot < Wiring[j].slot) /\ ~ (Wiring[j].slot < Wiring[i].slot)
  BY <1>1, RecyclingConstants
<1>3. i \in 1..j - 1 \/ j \in 1..i - 1 \/ i = j
  BY WiringFacts
<1>4. CASE i \in 1..j - 1
  BY <1>2, <1>4, OrderFacts
<1>5. CASE j \in 1..i - 1
  BY <1>2, <1>5, OrderFacts
<1> QED
  BY <1>3, <1>4, <1>5

\* Siblings lie in the order of their slots.
LEMMA SiblingSlots ==
    ASSUME NEW i \in 1..Len(Template), NEW j \in 1..Len(Template), i <= j,
           Wiring[i].parent = Wiring[j].parent
    PROVE  Wiring[i].slot <= Wiring[j].slot
<1>1. Wiring[i].slot \in 1..RowWidth /\ RowWidth \in Nat /\ Len(Template) \in Nat
  BY WiringFacts, RecyclingConstants
<1>2. CASE i = j
  BY <1>1, <1>2
<1>3. CASE i \in 1..j - 1
  <2>1. ASSUME NEW k \in 1..Len(Template)
        PROVE  LeadingTo(Template[k])
                 = IF Wiring[k].parent = 0 THEN <<>> ELSE Template[Wiring[k].parent]
    <3>1. /\ Template[k] \in Seq(0..RowWidth - 1) /\ Len(Template[k]) \in Nat \ {0}
          /\ Len(Template[k]) = 1 => Wiring[k].parent = 0
          /\ Len(Template[k]) > 1 => /\ Wiring[k].parent \in 1..k - 1
                                     /\ Template[Wiring[k].parent] = LeadingTo(Template[k])
      BY WiringFacts
    <3> DEFINE l == Len(Template[k])
    <3>2. LeadingTo(Template[k]) = SubSeq(Template[k], 1, l - 1)
      BY DEF LeadingTo
    <3> HIDE DEF l
    <3>3. l = 1 \/ l > 1
      <4>1. l \in Nat \ {0}
        BY <3>1 DEF l
      <4> QED
        BY <4>1
    <3>4. CASE l = 1
      <4>1. l - 1 = 0 /\ Wiring[k].parent = 0
        BY <3>1, <3>4 DEF l
      <4>2. 0 \in Nat /\ 0 <= Len(Template[k])
        BY <3>1
      <4> DEFINE path == Template[k]
      <4> HIDE DEF path
      <4>3. SubSeq(path, 1, 0) \in Seq(0..RowWidth - 1) /\ Len(SubSeq(path, 1, 0)) = 0
        BY <3>1, <4>2, BeginFacts DEF path
      <4> USE DEF path
      <4>4. SubSeq(Template[k], 1, 0) = <<>>
        BY <4>3
      <4> QED
        BY <3>2, <4>1, <4>4
    <3>5. CASE l > 1
      <4>1. Wiring[k].parent # 0 /\ Template[Wiring[k].parent] = LeadingTo(Template[k])
        BY <3>1, <3>5 DEF l
      <4> QED
        BY <4>1
    <3> QED
      BY <3>3, <3>4, <3>5
  <2>2. LeadingTo(Template[i]) = LeadingTo(Template[j])
    BY <2>1
  <2>3. Wiring[i].slot < Wiring[j].slot
    BY <1>3, <2>2, OrderFacts
  <2>4. Wiring[i].slot \in 1..RowWidth /\ Wiring[j].slot \in 1..RowWidth
    BY WiringFacts
  <2> DEFINE a == Wiring[i].slot
             b == Wiring[j].slot
  <2>5. a \in Nat /\ b \in Nat /\ a < b
    BY <2>3, <2>4
  <2> HIDE DEF a, b
  <2>6. a <= b
    BY <2>5
  <2> QED
    BY <2>6 DEF a, b
<1> QED
  BY <1>1, <1>2, <1>3

\* The node whose path leads to another is its parent.
LEMMA ParentOfPath ==
    ASSUME NEW j \in 1..Len(Template), NEW q \in 0..Len(Template),
           Len(PathOf(j)) = Len(PathOf(q)) + 1,
           \A k \in 1..Len(PathOf(q)) : PathOf(j)[k] = PathOf(q)[k]
    PROVE  Wiring[j].parent = q
<1> DEFINE w == Wiring[j].parent
           d == Len(PathOf(w))
<1>1. /\ w \in 0..Len(Template) /\ d \in Nat /\ Len(PathOf(j)) = d + 1
      /\ \A k \in 1..d : PathOf(j)[k] = PathOf(w)[k]
  BY PathFacts, ZenonT(30)
<1>2. ASSUME NEW n \in 0..Len(Template)
      PROVE  /\ PathOf(n) \in Seq(0..RowWidth - 1) /\ Len(PathOf(n)) \in Nat
             /\ n # 0 => PathOf(n) = Template[n] /\ Len(PathOf(n)) # 0
             /\ n = 0 => Len(PathOf(n)) = 0
  <2>1. CASE n = 0
    BY <2>1, EmptySeq DEF PathOf
  <2>2. CASE n # 0
    <3>1. n \in 1..Len(Template)
      BY <2>2, WiringFacts
    <3> QED
      BY <2>2, <3>1, WiringFacts DEF PathOf
  <2> QED
    BY <2>1, <2>2
<1>3. Len(PathOf(q)) = d
  BY <1>1, <1>2
<1>4. PathOf(q) = PathOf(w)
  <2>1. \A k \in 1..d : PathOf(q)[k] = PathOf(w)[k]
    BY <1>1, <1>3
  <2>2. /\ PathOf(q) \in Seq(0..RowWidth - 1) /\ PathOf(w) \in Seq(0..RowWidth - 1)
    BY <1>1, <1>2
  <2>3. Len(PathOf(q)) = Len(PathOf(w)) /\ \A k \in 1..Len(PathOf(q)) : PathOf(q)[k] = PathOf(w)[k]
    BY <1>3, <2>1
  <2> QED
    BY <2>2, <2>3, SeqEqual
<1> HIDE DEF w
<1>5. CASE q = 0
  BY <1>1, <1>2, <1>3, <1>5 DEF w
<1>6. CASE q # 0
  <2>1. w # 0
    BY <1>1, <1>2, <1>3, <1>6
  <2>2. Template[q] = Template[w] /\ q \in 1..Len(Template) /\ w \in 1..Len(Template)
    BY <1>1, <1>2, <1>4, <1>6, <2>1, WiringFacts
  <2> QED
    BY <2>2, SamePath DEF w
<1> QED
  BY <1>5, <1>6

-----------------------------------------------------------------------------
(* Rows hold a token twice at times, so that siblings agree.               *)

\* A path with its first d slots replaced by those that lead to a node.
Graft(path, n, d) ==
    [k \in 1..Len(path) |-> IF k <= d THEN PathOf(n)[k] ELSE path[k]]

\* What is below the one node, at depth d, is below the other as well.
AsRich(n, other, d) ==
    \A path \in Paths :
        d <= Len(path) /\ (\A k \in 1..d : path[k] = PathOf(other)[k])
            => Graft(path, n, d) \in Paths

\* The paths of the template's nodes.
LEMMA PathsAre ==
    ASSUME NEW path \in Paths
    PROVE  /\ path \in Seq(0..RowWidth - 1) /\ Len(path) \in Nat \ {0}
           /\ DOMAIN path = 1..Len(path)
           /\ \E j \in 1..Len(Template) : path = PathOf(j)
<1>1. PICK j \in 1..Len(Template) : path = Template[j]
  BY WiringFacts DEF Paths
<1>2. path \in Seq(0..RowWidth - 1) /\ Len(path) \in Nat \ {0}
  BY <1>1, WiringFacts
<1>3. j # 0
  BY WiringFacts
<1> QED
  BY <1>1, <1>2, <1>3, LenProperties DEF PathOf

\* If a node is as rich as another that agrees with it in its token, it has a
\* child for every child of the other, of the same slot and the same token.
LEMMA RicherHasChild ==
    ASSUME NEW m \in Maps, NEW root \in Tokens, NEW truth \in Seq(Tokens),
           NEW d \in Nat, NEW w \in 0..Len(Template), NEW n \in 0..Len(Template),
           Len(PathOf(w)) = d, Len(PathOf(n)) = d, AsRich(w, n, d),
           LET t == RecycledTree(m, root)
           IN  d > 0 => t[w].tok = t[n].tok,
           NEW c \in Matching(RecycledTree(m, root), n, truth, d)
    PROVE  \E j \in Matching(RecycledTree(m, root), w, truth, d) :
              Wiring[j].slot = Wiring[c].slot
<1> DEFINE t == RecycledTree(m, root)
           Above(i) == IF Wiring[i].parent = 0 THEN root ELSE t[Wiring[i].parent].tok
<1>1. /\ GoodTree(t) /\ Len(t) = Len(Template) /\ Len(Template) \in Nat
      /\ \A i \in 1..Len(Template) : /\ t[i].parent = Wiring[i].parent
                                     /\ t[i].tok = NextTok(m, Above(i), Wiring[i].slot)
  BY RecycledFacts, WiringFacts
<1> HIDE DEF t
<1>2. /\ c \in 1..Len(Template) /\ t[c].parent = n
      /\ d < Len(truth) /\ t[c].tok = truth[d + 1]
  BY <1>1, MatchingFacts DEF t
<1>3. Wiring[c].parent = n
  BY <1>1, <1>2
<1>4. /\ PathOf(c) = Template[c] /\ Len(PathOf(c)) = d + 1
      /\ \A k \in 1..d : PathOf(c)[k] = PathOf(n)[k]
      /\ PathOf(c)[d + 1] = Wiring[c].slot - 1
  BY <1>2, <1>3, PathFacts
<1>5. PathOf(c) \in Paths
  BY <1>2, <1>4, WiringFacts DEF Paths
<1>6. PICK j \in 1..Len(Template) : Graft(PathOf(c), w, d) = PathOf(j)
  <2>1. Graft(PathOf(c), w, d) \in Paths
    BY <1>4, <1>5 DEF AsRich
  <2> QED
    BY <2>1, PathsAre
<1>7. /\ Len(PathOf(j)) = d + 1
      /\ \A k \in 1..d : PathOf(j)[k] = PathOf(w)[k]
      /\ PathOf(j)[d + 1] = Wiring[c].slot - 1
  <2> DEFINE g == [k \in 1..d + 1 |-> IF k <= d THEN PathOf(w)[k] ELSE PathOf(c)[k]]
  <2>1. PathOf(j) = g
    BY <1>4, <1>6 DEF Graft
  <2>2. DOMAIN g = 1..d + 1 /\ d + 1 \in 1..d + 1 /\ ~ (d + 1 <= d)
    OBVIOUS
  <2>3. Len(PathOf(j)) \in Nat /\ DOMAIN PathOf(j) = 1..Len(PathOf(j))
    <3>1. PathOf(j) \in Paths
      BY WiringFacts DEF PathOf, Paths
    <3> QED
      BY <3>1, PathsAre
  <2>4. Len(PathOf(j)) = d + 1
    <3> DEFINE l == Len(PathOf(j))
    <3>1. 1..l = 1..d + 1 /\ l \in Nat /\ d + 1 \in Nat
      BY <2>1, <2>2, <2>3
    <3> HIDE DEF l
    <3>2. l = d + 1
      BY <3>1
    <3> QED
      BY <3>2 DEF l
  <2>5. \A k \in 1..d : k \in 1..d + 1 /\ k <= d
    OBVIOUS
  <2> QED
    BY <1>4, <2>1, <2>2, <2>4, <2>5
<1>8. Wiring[j].parent = w
  BY <1>7, ParentOfPath
<1>9. Wiring[j].slot = Wiring[c].slot
  <2>1. PathOf(j)[d + 1] = Wiring[j].slot - 1
    BY <1>7, <1>8, PathFacts
  <2> DEFINE a == Wiring[j].slot
             b == Wiring[c].slot
  <2>2. a \in 1..RowWidth /\ b \in 1..RowWidth /\ RowWidth \in Nat
    BY <1>2, WiringFacts, RecyclingConstants
  <2>3. a - 1 = b - 1
    BY <1>7, <2>1
  <2> HIDE DEF a, b
  <2>4. a = b
    BY <2>2, <2>3
  <2> QED
    BY <2>4 DEF a, b
<1>10. Above(j) = Above(c)
  <2>1. d > 0 => w # 0 /\ n # 0 /\ t[w].tok = t[n].tok
    <3>1. PathOf(0) = <<>> /\ Len(<<>>) = 0
      BY EmptySeq DEF PathOf
    <3>2. d > 0 => t[w].tok = t[n].tok
      BY DEF t
    <3>3. d > 0 => w # 0 /\ n # 0
      BY <3>1
    <3> QED
      BY <3>2, <3>3
  <2>2. d = 0 => w = 0 /\ n = 0
    <3>1. \A i \in 1..Len(Template) : Len(PathOf(i)) # 0
      BY PathFacts
    <3> QED
      BY <1>1, <3>1
  <2> QED
    BY <1>3, <1>8, <2>1, <2>2
<1>11. t[j].tok = truth[d + 1] /\ t[j].parent = w
  BY <1>1, <1>2, <1>8, <1>9, <1>10
<1>12. j \in Matching(t, w, truth, d)
  BY <1>1, <1>2, <1>11, MatchingFacts
<1> QED
  BY <1>9, <1>12 DEF t

\* What lies below a slot lies below any earlier one, one step further.
LEMMA GraftedFurther ==
    ASSUME NEW d \in Nat, NEW w \in 0..Len(Template), NEW n \in 0..Len(Template),
           Len(PathOf(w)) = d, Len(PathOf(n)) = d, AsRich(w, n, d),
           NEW u \in 1..Len(Template), Wiring[u].parent = w,
           NEW c \in 1..Len(Template), Wiring[c].parent = n,
           Wiring[u].slot <= Wiring[c].slot
    PROVE  Len(PathOf(u)) = d + 1 /\ Len(PathOf(c)) = d + 1 /\ AsRich(u, c, d + 1)
<1>1. /\ Len(PathOf(u)) = d + 1 /\ \A k \in 1..d : PathOf(u)[k] = PathOf(w)[k]
      /\ PathOf(u)[d + 1] = Wiring[u].slot - 1 /\ Wiring[u].slot - 1 \in Nat
  BY PathFacts, ZenonT(30)
<1>2. /\ Len(PathOf(c)) = d + 1 /\ \A k \in 1..d : PathOf(c)[k] = PathOf(n)[k]
      /\ PathOf(c)[d + 1] = Wiring[c].slot - 1
  BY PathFacts, ZenonT(30)
<1>3. Wiring[u].slot \in Nat /\ Wiring[c].slot \in Nat
  BY WiringFacts
<1>4. ASSUME NEW path \in Paths, d + 1 <= Len(path),
             \A k \in 1..d + 1 : path[k] = PathOf(c)[k]
      PROVE  Graft(path, u, d + 1) \in Paths
  <2> DEFINE g == Graft(path, w, d)
             slot == Wiring[u].slot - 1
             l == Len(path)
  <2>1. l \in Nat /\ d + 1 <= l /\ DOMAIN path = 1..l
    BY <1>4, PathsAre
  <2>2. g \in Paths
    <3>1. d <= Len(path) /\ \A k \in 1..d : path[k] = PathOf(n)[k]
      BY <1>2, <1>4, <2>1
    <3> QED
      BY <3>1 DEF AsRich
  <2>3. g = [k \in 1..l |-> IF k <= d THEN PathOf(w)[k] ELSE path[k]]
    BY DEF Graft
  <2>4. d + 1 \in 1..l /\ ~ (d + 1 <= d) /\ d + 1 \in 1..d + 1
    BY <2>1
  <2> HIDE DEF l, g
  <2>5. d + 1 \in DOMAIN g /\ g[d + 1] = Wiring[c].slot - 1
    <3>1. d + 1 \in DOMAIN g /\ g[d + 1] = path[d + 1]
      BY <2>3, <2>4
    <3>2. path[d + 1] = PathOf(c)[d + 1]
      BY <1>4, <2>4
    <3> QED
      BY <1>2, <3>1, <3>2
  <2>6. slot \in 0..g[d + 1]
    BY <1>1, <1>3, <2>5
  <2>7. [g EXCEPT ![d + 1] = slot] \in Paths
    <3>1. EarlierIsRicher(Template) /\ Paths = {Template[i] : i \in DOMAIN Template}
      BY RecyclingConstants DEF Paths
    <3> HIDE DEF slot
    <3> QED
      BY <2>2, <2>5, <2>6, <3>1 DEF EarlierIsRicher
  <2>8. [g EXCEPT ![d + 1] = slot] = Graft(path, u, d + 1)
    <3> DEFINE h == [k \in 1..l |-> IF k <= d + 1 THEN PathOf(u)[k] ELSE path[k]]
    <3>1. Graft(path, u, d + 1) = h
      BY DEF Graft, l
    <3>2. ASSUME NEW k \in 1..l
          PROVE  [g EXCEPT ![d + 1] = slot][k] = h[k]
      <4>1. k \in 1..d \/ k = d + 1 \/ (k > d + 1 /\ ~ (k <= d) /\ ~ (k <= d + 1))
        BY <2>1
      <4>2. CASE k \in 1..d
        <5>1. k <= d /\ k <= d + 1 /\ k # d + 1
          BY <4>2
        <5> QED
          BY <1>1, <2>3, <4>2, <5>1
      <4>3. CASE k = d + 1
        <5>1. k <= d + 1
          BY <4>3
        <5> QED
          BY <1>1, <2>3, <2>5, <4>3, <5>1
      <4>4. CASE k > d + 1 /\ ~ (k <= d) /\ ~ (k <= d + 1)
        <5>1. k # d + 1
          BY <4>4
        <5> QED
          BY <2>3, <4>4, <5>1
      <4> QED
        BY <4>1, <4>2, <4>3, <4>4
    <3>3. DOMAIN g = 1..l
      BY <2>3
    <3> QED
      BY <2>3, <3>1, <3>2, <3>3
  <2> QED
    BY <2>7, <2>8
<1> QED
  BY <1>1, <1>2, <1>4 DEF AsRich

\* Verification of a recycled tree stops only where no node is as deep.
LEMMA RecycledWalk ==
    ASSUME NEW m \in Maps, NEW root \in Tokens, NEW truth \in Seq(Tokens)
    PROVE  LongWalk(RecycledTree(m, root), truth)
<1> DEFINE t  == RecycledTree(m, root)
           W  == Walk(t, truth)
           at == Agreeing(t, truth)
           e  == Reach(t, truth)
           a  == AcceptedLen(t, truth)
           \* The walk has come to a node as rich as n.
           Rich(n, d) == /\ W[d] # -1 /\ Len(PathOf(W[d])) = d /\ Len(PathOf(n)) = d
                         /\ d > 0 => t[W[d]].tok = truth[d] /\ t[n].tok = truth[d]
                         /\ AsRich(W[d], n, d)
           S  == {d \in 0..e : \A n \in at[d] : Rich(n, d)}
<1>1. /\ GoodTree(t) /\ Len(t) = Len(Template) /\ Len(Template) \in Nat
      /\ \A i \in 1..Len(Template) : t[i].parent = Wiring[i].parent
  BY RecycledFacts, WiringFacts
<1>2. /\ a \in 0..e /\ e \in Nat /\ W[0] = 0
      /\ \A d \in 0..a : W[d] \in d..Len(t)
      /\ \A d \in 0..e : W[d] # -1 <=> d <= a
      /\ \A d \in 1..a : W[d] \in Matching(t, W[d - 1], truth, d - 1)
      /\ a < e => Matching(t, W[a], truth, a) = {}
  BY <1>1, AcceptedFacts, ReachFacts
<1>3. /\ at[0] = {0}
      /\ \A d \in 0..e : at[d] \subseteq 0..Len(t)
      /\ \A d \in 1..e : at[d] = UNION {Matching(t, n, truth, d - 1) : n \in at[d - 1]}
  BY <1>1, AgreeingFacts
<1>4. 0 \in S
  <2>1. PathOf(0) = <<>> /\ Len(PathOf(0)) = 0
    BY EmptySeq DEF PathOf
  <2>2. AsRich(0, 0, 0)
    <3>1. ASSUME NEW path \in Paths PROVE Graft(path, 0, 0) \in Paths
      <4>1. path \in Seq(0..RowWidth - 1)
        BY PathsAre
      <4> DEFINE l == Len(path)
      <4>2. path = [k \in 1..l |-> path[k]] /\ l \in Nat
        BY <4>1, LenProperties
      <4>3. \A k \in 1..l : ~ (k <= 0)
        OBVIOUS
      <4> HIDE DEF l
      <4>4. [k \in 1..l |-> IF k <= 0 THEN PathOf(0)[k] ELSE path[k]] = [k \in 1..l |-> path[k]]
        BY <4>3
      <4> QED
        BY <4>2, <4>4 DEF Graft, l
    <3> QED
      BY <3>1 DEF AsRich
  <2> HIDE DEF W, at, e
  <2>3. Rich(0, 0)
    BY <1>2, <2>1, <2>2
  <2> HIDE DEF Rich
  <2> QED
    BY <1>2, <1>3, <2>3
<1>5. ASSUME NEW d \in 0..e - 1, d \in S PROVE d + 1 \in S
  <2> HIDE DEF t, W, at, e, a
  <2>1. d + 1 \in 1..e /\ (d + 1) - 1 = d /\ d + 1 \in 0..e /\ d \in 0..e /\ d \in Nat
    BY <1>2
  <2> SUFFICES ASSUME NEW c \in at[d + 1] PROVE Rich(c, d + 1)
    BY <2>1
  <2>2. PICK n \in at[d] : c \in Matching(t, n, truth, d)
    BY <1>3, <2>1
  <2>3. Rich(n, d)
    BY <1>5, <2>2
  <2> DEFINE w == W[d]
             u == W[d + 1]
  <2>4. n \in 0..Len(Template) /\ d <= a
    BY <1>1, <1>2, <1>3, <2>1, <2>2, <2>3
  <2>5. w \in 0..Len(Template)
    <3>1. d \in 0..a /\ W[d] \in d..Len(t)
      BY <1>2, <2>1, <2>4
    <3> QED
      BY <1>1, <2>1, <3>1
  <2>6. PICK j \in Matching(t, w, truth, d) : Wiring[j].slot = Wiring[c].slot
    <3>1. /\ Len(PathOf(w)) = d /\ Len(PathOf(n)) = d /\ AsRich(w, n, d)
          /\ d > 0 => t[w].tok = t[n].tok
      BY <2>3
    <3> HIDE DEF w
    <3> QED
      BY <2>1, <2>2, <2>4, <2>5, <3>1, RicherHasChild DEF t
  <2>7. d < a /\ d + 1 \in 1..a
    <3>1. d # a
      BY <1>2, <2>1, <2>6
    <3> QED
      BY <1>2, <2>1, <2>4, <3>1
  <2>8. u \in Matching(t, w, truth, d) /\ u # -1
    BY <1>2, <2>1, <2>7
  <2>9. u <= j
    <3>1. W[d + 1] = Hop(t, truth, W[d], d + 1)
      BY <1>1, <2>1, WalkFacts DEF W, e
    <3>2. W[d] \in -1..Len(t)
      BY <1>1, <2>5
    <3>3. \A i \in Matching(t, W[d], truth, (d + 1) - 1) : W[d + 1] <= i
      BY <1>1, <2>1, <2>8, <3>1, <3>2, HopFacts, SMTT(30) DEF e
    <3> QED
      BY <2>1, <2>6, <3>3
  <2> HIDE DEF w, u
  <2>10. ASSUME NEW k \in Nat, NEW i \in Matching(t, k, truth, d)
         PROVE  /\ i \in 1..Len(Template) /\ Wiring[i].parent = k
                /\ t[i].tok = truth[d + 1]
    <3>1. \A l \in Matching(t, k, truth, d) : l > k /\ t[l].parent = k /\ t[l].tok = truth[d + 1]
      BY <1>1, <2>1, MatchingFacts
    <3>2. Matching(t, k, truth, d) \subseteq 1..Len(t)
      BY <1>1, <2>1, MatchingFacts
    <3> QED
      BY <1>1, <3>1, <3>2
  <2>11. /\ c \in 1..Len(Template) /\ Wiring[c].parent = n /\ t[c].tok = truth[d + 1]
         /\ u \in 1..Len(Template) /\ Wiring[u].parent = w /\ t[u].tok = truth[d + 1]
         /\ j \in 1..Len(Template) /\ Wiring[j].parent = w
    <3>1. n \in Nat /\ w \in Nat
      BY <1>1, <2>4, <2>5
    <3> QED
      BY <2>2, <2>6, <2>8, <2>10, <3>1
  <2>12. Wiring[u].slot <= Wiring[c].slot
    BY <2>6, <2>9, <2>11, SiblingSlots
  <2>13. Len(PathOf(w)) = d /\ Len(PathOf(n)) = d /\ AsRich(w, n, d)
    BY <2>3 DEF w
  <2>14. Len(PathOf(u)) = d + 1 /\ Len(PathOf(c)) = d + 1 /\ AsRich(u, c, d + 1)
    BY <2>1, <2>4, <2>5, <2>11, <2>12, <2>13, GraftedFurther
  <2> QED
    BY <2>8, <2>11, <2>14 DEF u
<1> HIDE DEF S
<1>6. 0..e \subseteq S
  BY <1>2, <1>4, <1>5, Induction
<1>7. \A d \in 0..e : at[d] # {} => W[d] # -1
  BY <1>6 DEF S
<1> QED
  BY <1>1, <1>7, LongWalkFrom DEF W, at, e

\* Verification, which takes the first child that matches and never goes back,
\* accepts the longest path there is in any draft the proposers make.
THEOREM LongestIsAccepted == Spec => []AcceptsLongest
<1>1. ASSUME ReplayInv, step = "draft", stage = "done"
      PROVE  LET ahead == SubSeq(req.toks, p + 1, N)
             IN  AcceptedLen(tree, ahead) = LongestMatch(tree, ahead)
  <2> DEFINE ahead == SubSeq(req.toks, p + 1, N)
  <2>1. Drafting /\ DraftSound
    BY <1>1, InvIsDrafting DEF ReplayInv
  <2>2. ahead \in Seq(Tokens)
    <3>1. N \in Nat /\ p \in 0..N - 1 /\ req.toks \in Seq(Tokens) /\ N = Len(req.toks)
      BY <2>1, RequestFacts
    <3> HIDE DEF N
    <3>2. p \in Nat /\ p <= N /\ N <= Len(req.toks)
      BY <3>1
    <3> QED
      BY <3>1, <3>2, PartFacts
  <2> HIDE DEF ahead
  <2>3. GoodTree(tree)
    BY <2>1 DEF DraftSound
  <2>4. LongWalk(tree, ahead)
    <3>1. CASE kind # "recycle" \/ tree = <<>>
      BY <2>1, <2>2, <2>3, <3>1, SiblingsWalk, EmptyTree DEF DraftSound
    <3>2. CASE Recycled(tree)
      BY <2>2, <3>2, RecycledWalk DEF Recycled
    <3> QED
      BY <2>1, <3>1, <3>2 DEF DraftSound
  <2> QED
    BY <2>2, <2>3, <2>4, LongWalkIsLongest DEF ahead
<1>2. ReplayInv => AcceptsLongest
  BY <1>1 DEF AcceptsLongest
<1> QED
  BY <1>2, ReplaySound, PTL

-----------------------------------------------------------------------------
(* What was replayed.                                                      *)

\* How far the request replayed was read.
Upto == IF outcome = NoOutcome THEN p ELSE Reached

\* Upto is a position of the request.
LEMMA UptoFacts ==
    ASSUME ReplayInv, r # 0
    PROVE  /\ r \in 1..Len(reqs) /\ Len(reqs) \in Nat /\ IsRequest(req)
           /\ N \in Nat /\ N = Len(req.toks) /\ req.toks \in Seq(Tokens)
           /\ Upto \in 0..N /\ p \in 0..N
<1>1. /\ RequestsTyped /\ Where /\ OutcomeSound /\ Len(reqs) \in Nat
      /\ r \in 0..Len(reqs) /\ p \in Nat
  BY DEF ReplayInv, Where, RequestsTyped
<1>2. r \in 1..Len(reqs)
  BY <1>1
<1>3. IsRequest(req)
  BY <1>1, <1>2 DEF RequestsTyped, req
<1>4. req.toks \in Seq(Tokens) /\ N \in Nat /\ N = Len(req.toks)
  BY <1>3, LenProperties DEF IsRequest, N
<1>5. p <= N
  BY <1>1, <1>4 DEF Where
<1>6. Upto \in 0..N
  <2>1. CASE outcome = NoOutcome
    BY <1>1, <1>4, <1>5, <2>1 DEF Upto
  <2>2. CASE outcome # NoOutcome
    <3>1. Drafting /\ Faithful(outcome)
      BY <2>2, OutcomeIsFaithful
    <3>2. outcome.acc \in Nat /\ p + outcome.acc + 1 <= N
      BY <3>1, OutcomeTypes
    <3> QED
      BY <1>1, <1>4, <2>2, <3>2 DEF Upto, Reached
  <2> QED
    BY <2>1, <2>2
<1> QED
  BY <1>1, <1>2, <1>3, <1>4, <1>5, <1>6

\* What was replayed of a request is its beginning.
LEMMA PassedFacts ==
    ASSUME ReplayInv, NEW i \in 1..Len(reqs)
    PROVE  /\ i < r => Passed(i) = reqs[i].toks
           /\ i > r => Passed(i) = <<>>
           /\ i = r => Passed(i) = SubSeq(req.toks, 1, Upto)
           /\ Passed(i) \in Seq(Tokens) /\ reqs[i].toks \in Seq(Tokens)
           /\ Len(Passed(i)) = (IF i < r THEN Len(reqs[i].toks) ELSE IF i > r THEN 0 ELSE Upto)
           /\ Len(Passed(i)) \in 0..Len(reqs[i].toks)
           /\ \A n \in 1..Len(Passed(i)) : Passed(i)[n] = reqs[i].toks[n]
<1> DEFINE toks == reqs[i].toks
           passed == Passed(i)
<1>1. Len(reqs) \in Nat /\ r \in 0..Len(reqs)
  BY DEF ReplayInv, Where, RequestsTyped
<1>2. toks \in Seq(Tokens) /\ Len(toks) \in Nat
  <2>1. IsRequest(reqs[i])
    BY DEF ReplayInv, RequestsTyped
  <2> QED
    BY <2>1, LenProperties DEF IsRequest
<1>3. CASE i < r
  <2>1. passed = toks /\ ~ (i > r) /\ i # r
    BY <1>1, <1>3 DEF Passed
  <2> HIDE DEF passed, toks
  <2>2. Len(passed) \in 0..Len(toks)
    BY <1>2, <2>1
  <2> QED
    BY <1>2, <1>3, <2>1, <2>2 DEF passed, toks
<1>4. CASE i > r
  <2>1. passed = <<>> /\ ~ (i < r) /\ i # r
    BY <1>1, <1>4 DEF Passed
  <2>2. <<>> \in Seq(Tokens) /\ Len(<<>>) = 0
    BY EmptySeq
  <2> HIDE DEF passed, toks
  <2>3. Len(passed) = 0 /\ Len(passed) \in 0..Len(toks) /\ 1..Len(passed) = {}
    BY <1>2, <2>1, <2>2
  <2> QED
    BY <1>2, <1>4, <2>1, <2>2, <2>3 DEF passed, toks
<1>5. CASE i = r
  <2>1. r # 0 /\ ~ (i > r) /\ ~ (i < r) /\ toks = req.toks
    BY <1>1, <1>5 DEF req
  <2>2. passed = SubSeq(req.toks, 1, Upto)
    BY <1>5, <2>1 DEF Passed, Upto
  <2>3. Upto \in 0..Len(req.toks)
    BY <2>1, UptoFacts
  <2> HIDE DEF passed, toks
  <2>4. /\ passed \in Seq(Tokens) /\ Len(passed) = Upto
        /\ \A n \in 1..Upto : passed[n] = toks[n]
    BY <1>2, <2>1, <2>2, <2>3, BeginFacts
  <2> QED
    BY <1>2, <1>5, <2>1, <2>2, <2>3, <2>4 DEF passed, toks
<1> QED
  BY <1>1, <1>3, <1>4, <1>5

\* Nothing is replayed but by a verification.
LEMMA PassedStays ==
    ASSUME ReplayInv, [Next]_vars, ~Verify
    PROVE  reqs' = reqs /\ \A i \in 1..Len(reqs) : Passed(i)' = Passed(i)
<1>1. /\ Len(reqs) \in Nat /\ r \in 0..Len(reqs)
      /\ \A i \in 1..Len(reqs) : IsRequest(reqs[i])
  BY DEF ReplayInv, Where, RequestsTyped
<1>2. ASSUME NEW proposal \in Proposals \cup {NoSpan}, OpenRequest(proposal)
      PROVE  reqs' = reqs /\ \A i \in 1..Len(reqs) : Passed(i)' = Passed(i)
  <2>1. /\ step = "next" /\ r < Len(reqs) /\ r' = r + 1 /\ p' = 0 /\ reqs' = reqs
        /\ outcome' = outcome
    BY <1>2 DEF OpenRequest
  <2>2. outcome = NoOutcome
    BY <2>1 DEF ReplayInv, OutcomeSound
  <2> SUFFICES ASSUME NEW i \in 1..Len(reqs) PROVE Passed(i)' = Passed(i)
    BY <2>1
  <2>3. CASE i < r
    BY <1>1, <2>1, <2>3 DEF Passed
  <2>4. CASE i > r + 1
    BY <1>1, <2>1, <2>4 DEF Passed
  <2>5. CASE i = r
    <3>1. Passed(i)' = req.toks
      BY <1>1, <2>1, <2>5 DEF Passed, req
    <3>2. Passed(i) = SubSeq(req.toks, 1, p)
      BY <2>2, <2>5, PassedFacts DEF Upto
    <3>3. p = Len(req.toks) /\ req.toks \in Seq(Tokens)
      <4>1. r # 0
        BY <1>1, <2>5
      <4>2. p = N
        BY <1>1, <2>1, <4>1 DEF ReplayInv, Where
      <4> QED
        BY <4>1, <4>2, UptoFacts
    <3> DEFINE toks == req.toks
    <3> HIDE DEF toks
    <3>4. SubSeq(toks, 1, Len(toks)) = toks
      BY <3>3, SubSeqFull DEF toks
    <3> QED
      BY <3>1, <3>2, <3>3, <3>4 DEF toks
  <2>6. CASE i = r + 1
    <3>1. Passed(i) = <<>>
      BY <1>1, <2>6 DEF Passed
    <3>2. Passed(i)' = SubSeq(reqs[i].toks, 1, 0)
      BY <1>1, <2>1, <2>2, <2>6 DEF Passed, req
    <3> DEFINE toks == reqs[i].toks
    <3>3. toks \in Seq(Tokens)
      BY <1>1 DEF IsRequest
    <3> HIDE DEF toks
    <3>4. SubSeq(toks, 1, 0) = <<>>
      <4>1. Len(SubSeq(toks, 1, 0)) = 0 /\ SubSeq(toks, 1, 0) \in Seq(Tokens)
        <5>1. 0 <= Len(toks)
          BY <3>3, LenProperties
        <5> QED
          BY <3>3, <5>1, BeginFacts
      <4> QED
        BY <4>1, EmptySeq
    <3> QED
      BY <3>1, <3>2, <3>4 DEF toks
  <2> QED
    BY <1>1, <2>3, <2>4, <2>5, <2>6
<1>3. ASSUME NEW proposal \in Proposals \cup {NoSpan}, Move(proposal)
      PROVE  reqs' = reqs /\ \A i \in 1..Len(reqs) : Passed(i)' = Passed(i)
  <2>1. /\ step = "move" /\ r' = r /\ p' = Reached /\ reqs' = reqs /\ outcome' = NoOutcome
    BY <1>3 DEF Move, runVars
  <2>2. outcome # NoOutcome
    BY <2>1, AnswersTyped DEF ReplayInv, OutcomeSound, Faithful
  <2> QED
    BY <1>1, <2>1, <2>2 DEF Passed, req
<1>4. ASSUME UNCHANGED <<reqs, r, p, outcome>>
      PROVE  reqs' = reqs /\ \A i \in 1..Len(reqs) : Passed(i)' = Passed(i)
  BY <1>4 DEF Passed, Reached, req
<1>5. CASE DraftOfLedger
  BY <1>4, <1>5 DEF DraftOfLedger, replayVars, runVars
<1>6. CASE DraftOfVanilla \/ DraftOfRecycle \/ DraftOfDense
  <2>1. \E t : Drafted(t)
    BY <1>6 DEF DraftOfVanilla, DraftOfRecycle, DraftOfDense
  <2> QED
    BY <1>4, <2>1 DEF Drafted, replayVars, runVars
<1>7. CASE RaiseEpoch \/ EndBumps \/ EndReplay
  BY <1>4, <1>7 DEF RaiseEpoch, EndBumps, EndReplay, runVars
<1>8. CASE UNCHANGED vars
  BY <1>4, <1>8 DEF vars, replayVars, runVars
<1> QED
  BY <1>2, <1>3, <1>5, <1>6, <1>7, <1>8 DEF Next

\* A verification adds what it harvests to the request replayed.
LEMMA PassedGrows ==
    ASSUME ReplayInv, Verify
    PROVE  /\ reqs' = reqs /\ r' = r /\ r \in 1..Len(reqs) /\ Realized(Harvested) \in Seq(Tokens)
           /\ \A i \in 1..Len(reqs) :
                 Passed(i)' = IF i = r THEN Join(Passed(i), Realized(Harvested)) ELSE Passed(i)
           /\ \A i \in 1..Len(reqs) : i > r => Passed(i) = <<>>
<1> DEFINE new == Realized(Harvested)
           n   == p + Harvested.acc + 1
<1>1. /\ step = "draft" /\ outcome' = Harvested /\ reqs' = reqs /\ r' = r /\ p' = p
  BY DEF Verify, Harvested, runVars
<1>2. outcome = NoOutcome
  BY <1>1 DEF ReplayInv, OutcomeSound
<1>3. Drafting /\ Faithful(Harvested) /\ r \in 1..Len(reqs) /\ Len(reqs) \in Nat
  BY <1>1, InvIsDrafting, HarvestedFacts DEF Drafting, RequestsTyped
<1>4. Harvested # NoOutcome
  BY <1>3, AnswersTyped DEF Faithful
<1>5. /\ new \in Seq(Tokens) /\ new = SubSeq(req.toks, p + 1, n)
      /\ p \in Nat /\ n \in Nat /\ p <= n /\ n <= Len(req.toks) /\ req.toks \in Seq(Tokens)
  <2>1. /\ N \in Nat /\ p \in Nat /\ Harvested.acc \in Nat /\ p + Harvested.acc + 1 <= N
        /\ N = Len(req.toks) /\ req.toks \in Seq(Tokens)
    BY <1>3, OutcomeTypes, RequestFacts
  <2>2. new \in Seq(Tokens) /\ new = SubSeq(req.toks, p + 1, n)
    BY <1>3, RealizedFacts
  <2> DEFINE acc == Harvested.acc
  <2> HIDE DEF acc, N, new
  <2>3. p + acc + 1 \in Nat /\ p <= p + acc + 1
    BY <2>1 DEF acc
  <2> QED
    BY <2>1, <2>2, <2>3 DEF acc
<1>6. ASSUME NEW i \in 1..Len(reqs), i # r PROVE Passed(i)' = Passed(i)
  BY <1>1, <1>3, <1>6 DEF Passed
<1>7. Passed(r)' = SubSeq(req.toks, 1, n) /\ Passed(r) = SubSeq(req.toks, 1, p)
  <2>1. Passed(r) = SubSeq(req.toks, 1, p)
    BY <1>2, <1>3, PassedFacts DEF Upto
  <2>2. Reached' = n
    BY <1>1 DEF Reached
  <2>3. Passed(r)' = SubSeq(req.toks, 1, Reached')
    <3> DEFINE ev == Harvested
    <3>1. outcome' = ev /\ ev # NoOutcome
      BY <1>1, <1>4
    <3> HIDE DEF ev
    <3>2. ~ (r < r) /\ ~ (r > r)
      BY <1>3
    <3> QED
      BY <1>1, <3>1, <3>2, Zenon DEF Passed, req
  <2> QED
    BY <2>1, <2>2, <2>3
<1>8. SubSeq(req.toks, 1, p) \o SubSeq(req.toks, p + 1, n) = SubSeq(req.toks, 1, n)
  <2> DEFINE toks == req.toks
  <2> HIDE DEF toks, n
  <2>1. toks \in Seq(Tokens) /\ Len(toks) \in Nat
    BY <1>5, LenProperties DEF toks
  <2>2. 1 \in 1..Len(toks) + 1 /\ p \in 1 - 1..Len(toks) /\ n \in p..Len(toks)
    BY <1>5, <2>1 DEF toks
  <2> QED
    BY <2>1, <2>2, ConcatAdjacentSubSeq DEF toks
<1>9. Passed(r)' = Join(Passed(r), new)
  BY <1>5, <1>7, <1>8 DEF Join
<1>10. \A i \in 1..Len(reqs) : i > r => Passed(i) = <<>>
  BY <1>3 DEF Passed
<1> HIDE DEF new
<1> QED
  BY <1>1, <1>3, <1>5, <1>6, <1>9, <1>10 DEF new

\* What was replayed of the requests in S, request by request.
Pieces(S) == [i \in 1..Len(reqs) |-> IF i \in S THEN Passed(i) ELSE <<>>]

\* What was replayed of some requests is put together request by request.
LEMMA PiecesFacts ==
    ASSUME ReplayInv, NEW S
    PROVE  /\ PassedOf(S) = Ext!FlattenSeq(Pieces(S))
           /\ Pieces(S) \in Seq(Seq(Tokens)) /\ Len(Pieces(S)) = Len(reqs)
           /\ \A i \in 1..Len(reqs) : Pieces(S)[i] = IF i \in S THEN Passed(i) ELSE <<>>
<1> DEFINE pieces == Pieces(S)
           T == Seq(Tokens)
<1>1. PassedOf(S) = Ext!FlattenSeq(pieces)
  BY DEF PassedOf, Pieces
<1>2. \A i \in 1..Len(reqs) : Passed(i) \in T /\ <<>> \in T
  BY PassedFacts, EmptySeq
<1>3. Len(reqs) \in Nat
  BY DEF ReplayInv, RequestsTyped
<1> HIDE DEF T
<1>4. pieces \in [1..Len(reqs) -> T]
  BY <1>2 DEF Pieces
<1>5. \A i \in 1..Len(reqs) : pieces[i] = IF i \in S THEN Passed(i) ELSE <<>>
  BY DEF Pieces
<1> HIDE DEF pieces
<1>6. pieces \in Seq(T) /\ Len(pieces) = Len(reqs)
  BY <1>3, <1>4, TupleIsSeq
<1> QED
  BY <1>1, <1>5, <1>6 DEF pieces, T

\* Nothing is replayed of any requests but by a verification.
LEMMA PassedOfStays ==
    ASSUME ReplayInv, [Next]_vars, ~Verify, NEW CONSTANT S
    PROVE  PassedOf(S)' = PassedOf(S)
<1>1. reqs' = reqs /\ \A i \in 1..Len(reqs) : Passed(i)' = Passed(i)
  BY PassedStays
<1>2. Pieces(S)' = Pieces(S)
  <2>1. Pieces(S)' = [i \in 1..Len(reqs) |-> IF i \in S THEN Passed(i)' ELSE <<>>]
    BY <1>1 DEF Pieces
  <2>2. Pieces(S)' = [i \in 1..Len(reqs) |-> IF i \in S THEN Passed(i) ELSE <<>>]
    BY <1>1, <2>1
  <2> QED
    BY <2>2 DEF Pieces
<1>3. PassedOf(S)' = Ext!FlattenSeq(Pieces(S)')
  BY DEF PassedOf, Pieces
<1>4. PassedOf(S) = Ext!FlattenSeq(Pieces(S))
  BY DEF PassedOf, Pieces
<1> QED
  BY <1>2, <1>3, <1>4

\* A verification adds what it harvests to the requests it is one of.
LEMMA PassedOfGrows ==
    ASSUME ReplayInv, Verify, [Next]_vars, NEW CONSTANT S
    PROVE  PassedOf(S)' = IF r \in S THEN Join(PassedOf(S), Realized(Harvested))
                          ELSE PassedOf(S)
<1> DEFINE new == Realized(Harvested)
           before == Pieces(S)
           after  == Pieces(S)'
<1>1. /\ reqs' = reqs /\ r \in 1..Len(reqs) /\ new \in Seq(Tokens)
      /\ \A i \in 1..Len(reqs) :
            Passed(i)' = IF i = r THEN Join(Passed(i), new) ELSE Passed(i)
      /\ \A i \in 1..Len(reqs) : i > r => Passed(i) = <<>>
  BY PassedGrows
<1>2. /\ PassedOf(S) = Ext!FlattenSeq(before)
      /\ before \in Seq(Seq(Tokens)) /\ Len(before) = Len(reqs)
      /\ \A i \in 1..Len(reqs) : before[i] = IF i \in S THEN Passed(i) ELSE <<>>
  BY PiecesFacts
<1>3. PassedOf(S)' = Ext!FlattenSeq(after)
  BY DEF PassedOf, Pieces
<1>4. after = [i \in 1..Len(reqs) |-> IF i \in S THEN Passed(i)' ELSE <<>>]
  BY <1>1 DEF Pieces
<1>5. \A i \in 1..Len(reqs) : after[i] = IF i \in S THEN Passed(i)' ELSE <<>>
  BY <1>4
<1> HIDE DEF new, before, after
<1>6. CASE r \notin S
  <2>1. \A i \in 1..Len(reqs) : i \in S => Passed(i)' = Passed(i)
    BY <1>1, <1>6
  <2>2. after = [i \in 1..Len(reqs) |-> IF i \in S THEN Passed(i) ELSE <<>>]
    BY <1>4, <2>1
  <2>3. after = before
    BY <2>2 DEF before, Pieces
  <2> QED
    BY <1>2, <1>3, <1>6, <2>3
<1>7. CASE r \in S
  <2>1. \A i \in 1..Len(reqs) : after[i] = IF i = r THEN Join(before[i], new) ELSE before[i]
    BY <1>1, <1>2, <1>5, <1>7
  <2>2. \A i \in 1..Len(reqs) : i > r => before[i] = <<>>
    BY <1>1, <1>2
  <2>3. after \in Seq(Seq(Tokens)) /\ Len(after) = Len(reqs)
    <3> DEFINE T == Seq(Tokens)
    <3>1. \A i \in 1..Len(reqs) : before[i] \in T
      <4>1. before \in Seq(T)
        BY <1>2
      <4> HIDE DEF T
      <4> QED
        BY <1>2, <4>1, ElementOfSeq
    <3>2. \A i \in 1..Len(reqs) : after[i] \in T
      <4> SUFFICES ASSUME NEW i \in 1..Len(reqs) PROVE after[i] \in T
        OBVIOUS
      <4>1. before[i] \in T /\ new \in T
        BY <1>1, <3>1
      <4>2. Join(before[i], new) \in T
        BY <4>1, JoinFacts
      <4> QED
        BY <2>1, <4>1, <4>2
    <3>3. Len(reqs) \in Nat
      BY DEF ReplayInv, RequestsTyped
    <3> HIDE DEF T
    <3>4. after \in [1..Len(reqs) -> T]
      BY <1>4, <1>5, <3>2
    <3>5. after \in Seq(T) /\ Len(after) = Len(reqs)
      BY <3>3, <3>4, TupleIsSeq
    <3> QED
      BY <3>5 DEF T
  <2>4. GrownAt(before, after, r, new)
    BY <1>2, <2>1, <2>2, <2>3 DEF GrownAt
  <2>5. r \in 1..Len(before)
    BY <1>1, <1>2
  <2>6. Ext!FlattenSeq(after) = Join(Ext!FlattenSeq(before), new)
    BY <1>1, <1>2, <2>3, <2>4, <2>5, FlattenGrows
  <2> QED
    BY <1>2, <1>3, <1>7, <2>6 DEF new
<1> QED
  BY <1>6, <1>7

\* What was harvested is what was recorded: every token of every request, once
\* and in order.
THEOREM WhatWasRead == Spec => []WrittenIsRead
<1>1. Init => WrittenIsRead
  <2>1. ASSUME Init PROVE written = PassedOf(DOMAIN reqs)
    <3>1. ReplayInv /\ r = 0 /\ written = <<>>
      BY <2>1, InitSound DEF Init
    <3> DEFINE pieces == Pieces(DOMAIN reqs)
    <3>2. /\ PassedOf(DOMAIN reqs) = Ext!FlattenSeq(pieces)
          /\ pieces \in Seq(Seq(Tokens)) /\ Len(pieces) = Len(reqs)
          /\ \A i \in 1..Len(reqs) : pieces[i] = IF i \in DOMAIN reqs THEN Passed(i) ELSE <<>>
      BY <3>1, PiecesFacts
    <3> HIDE DEF pieces
    <3>3. \A i \in 1..Len(reqs) : pieces[i] = <<>>
      BY <3>1, <3>2, PassedFacts
    <3>4. PICK f : Joins(f, pieces, Tokens) /\ Ext!FlattenSeq(pieces) = f[Len(pieces)]
      BY <3>2, FlattenFacts
    <3> DEFINE n == Len(pieces)
               T == {i \in 0..n : f[i] = <<>>}
    <3>5. n \in Nat
      BY <3>1, <3>2 DEF ReplayInv, RequestsTyped
    <3>6. /\ f[0] = <<>> /\ \A i \in 0..n : f[i] \in Seq(Tokens)
          /\ \A i \in 1..n : f[i] = Join(f[i - 1], pieces[i])
      BY <3>4 DEF Joins
    <3>7. 0 \in T
      BY <3>5, <3>6
    <3>8. ASSUME NEW i \in 0..n - 1, i \in T PROVE i + 1 \in T
      <4>1. i + 1 \in 1..n /\ (i + 1) - 1 = i /\ i \in 0..n /\ i + 1 \in 0..n
        BY <3>5
      <4>2. f[i + 1] = Join(f[i], <<>>)
        <5>1. f[i + 1] = Join(f[i], pieces[i + 1])
          BY <3>6, <4>1
        <5>2. pieces[i + 1] = <<>>
          BY <3>2, <3>3, <4>1
        <5> QED
          BY <5>1, <5>2
      <4>3. f[i] \in Seq(Tokens) /\ f[i] = <<>>
        BY <3>6, <3>8, <4>1
      <4> QED
        BY <4>1, <4>2, <4>3, JoinFacts
    <3> HIDE DEF T, n
    <3>9. 0..n \subseteq T
      BY <3>5, <3>7, <3>8, Induction
    <3>10. f[n] = <<>>
      <4>1. n \in 0..n
        BY <3>5
      <4> QED
        BY <3>9, <4>1 DEF T
    <3> QED
      BY <3>1, <3>2, <3>4, <3>10 DEF n
  <2> QED
    BY <2>1 DEF WrittenIsRead
<1>2. ReplayInv /\ WrittenIsRead /\ [Next]_vars => WrittenIsRead'
  <2> SUFFICES ASSUME ReplayInv, WrittenIsRead, [Next]_vars PROVE WrittenIsRead'
    OBVIOUS
  <2>1. CASE Verify
    <3>1. written' = written \o Realized(Harvested) /\ reqs' = reqs /\ r \in DOMAIN reqs
      <4>1. reqs' = reqs /\ r \in 1..Len(reqs)
        BY <2>1, PassedGrows
      <4>2. written' = written \o Realized(Harvested)
        BY <2>1 DEF Verify, Harvested
      <4> QED
        BY <4>1, <4>2 DEF ReplayInv, RequestsTyped
    <3>2. written' = Join(written, Realized(Harvested))
      BY <3>1 DEF Join
    <3>3. PICK S : S = DOMAIN reqs
      OBVIOUS
    <3>4. PassedOf(S)' = Join(PassedOf(S), Realized(Harvested))
      BY <2>1, <3>1, <3>3, PassedOfGrows
    <3> QED
      BY <3>1, <3>2, <3>3, <3>4 DEF WrittenIsRead
  <2>2. CASE ~Verify
    <3>1. written' = written /\ reqs' = reqs
      <4>1. reqs' = reqs
        BY <2>2, PassedStays
      <4>2. written' = written
        BY <2>2 DEF Next, OpenRequest, Move, DraftOfLedger, DraftOfVanilla, DraftOfRecycle,
                    DraftOfDense, Drafted, RaiseEpoch, EndBumps, EndReplay, vars, replayVars,
                    runVars
      <4> QED
        BY <4>1, <4>2
    <3>2. PICK S : S = DOMAIN reqs
      OBVIOUS
    <3>3. PassedOf(S)' = PassedOf(S)
      BY <2>2, PassedOfStays
    <3> QED
      BY <3>1, <3>2, <3>3 DEF WrittenIsRead
  <2> QED
    BY <2>1, <2>2
<1> QED
  BY <1>1, <1>2, ReplaySound, PTL DEF Spec

-----------------------------------------------------------------------------
(* The rows of token recycling.                                            *)

\* Behind its context tail an outcome holds the tokens of the request.
LEMMA HarvestedAt ==
    ASSUME Drafting, NEW ev, Faithful(ev), NEW pos \in 1..ev.acc + 1
    PROVE  /\ Len(ev.tail) + pos = 1 <=> p + pos = 1
           /\ p + pos # 1 =>
                 (ev.tail \o Realized(ev))[Len(ev.tail) + pos - 1] = req.toks[p + pos - 1]
           /\ ev.ids[pos] = req.ids[p + pos]
<1> DEFINE tail == ev.tail
           new  == Realized(ev)
           l    == Len(tail)
           acc  == ev.acc
<1>1. /\ ev.tail = ContextTail /\ ev.tail \in Seq(Tokens)
      /\ ev.ids = SubSeq(req.ids, p + 1, p + acc + 1)
  BY DEF Faithful, Outcomes
<1>2. /\ N \in Nat /\ p \in Nat /\ acc \in Nat /\ p + acc + 1 <= N
      /\ N = Len(req.ids) /\ req.ids \in Seq(Seq(Tokens))
  BY OutcomeTypes, RequestFacts
<1>3. /\ l = Lesser(p, MaxOrder) /\ l \in Nat
      /\ \A i \in 1..l : tail[i] = req.toks[p - l + i]
  BY <1>1, TailFacts, LenProperties
<1>4. /\ new \in Seq(Tokens) /\ Len(new) = acc + 1
      /\ \A i \in 1..acc + 1 : new[i] = req.toks[p + i]
  BY RealizedFacts
<1>5. MaxOrder \in Nat \ {0} /\ pos \in 1..acc + 1
  BY ReplayConstants
<1> HIDE DEF tail, l, acc, new, N
<1>6. l + pos = 1 <=> p + pos = 1
  BY <1>2, <1>3, <1>5 DEF Lesser
<1>7. ASSUME p + pos # 1
      PROVE  (tail \o new)[l + pos - 1] = req.toks[p + pos - 1]
  <2> DEFINE j == l + pos - 1
  <2>1. j \in 1..l + (acc + 1) /\ p - l + j = p + pos - 1
    <3>1. l \in Nat /\ p \in Nat /\ acc \in Nat /\ l + pos # 1
      BY <1>2, <1>3, <1>6, <1>7
    <3> QED
      BY <1>5, <3>1
  <2>2. (tail \o new)[j] = IF j <= l THEN tail[j] ELSE new[j - l]
    <3>1. tail \in Seq(Tokens) /\ Len(tail) = l
      BY <1>1 DEF tail, l
    <3> HIDE DEF j
    <3>2. \A i \in 1..Len(tail) + Len(new) :
             (tail \o new)[i] = IF i <= Len(tail) THEN tail[i] ELSE new[i - Len(tail)]
      BY <1>4, <3>1, ConcatProperties
    <3> QED
      BY <1>4, <2>1, <3>1, <3>2
  <2> HIDE DEF j
  <2>3. CASE j <= l
    <3>1. j \in 1..l
      BY <1>3, <2>1, <2>3
    <3> QED
      BY <1>3, <2>1, <2>2, <2>3, <3>1 DEF j
  <2>4. CASE ~ (j <= l)
    <3>1. j - l \in 1..acc + 1 /\ p + (j - l) = p - l + j
      <4>1. l \in Nat /\ p \in Nat /\ acc \in Nat
        BY <1>2, <1>3
      <4> QED
        BY <2>1, <2>4, <4>1
    <3> QED
      BY <1>4, <2>1, <2>2, <2>4, <3>1 DEF j
  <2> QED
    BY <2>3, <2>4
<1>8. ev.ids[pos] = req.ids[p + pos]
  <2> DEFINE n == p + acc + 1
  <2>1. n \in Nat /\ p <= n /\ n <= Len(req.ids) /\ pos \in 1..n - p
    BY <1>2, <1>5
  <2> HIDE DEF n
  <2>2. \A i \in 1..n - p : SubSeq(req.ids, p + 1, n)[i] = req.ids[p + i]
    BY <1>2, <2>1, PartFacts
  <2> QED
    BY <1>1, <2>1, <2>2 DEF n, acc
<1> QED
  BY <1>6, <1>7, <1>8 DEF tail, l, new

\* A place is a position of a request behind which a token follows.
TokAt(s) == reqs[s[1]].toks[s[2]]
RowAt(s) == reqs[s[1]].ids[s[2] + 1]

Later(a, b) == a[1] > b[1] \/ (a[1] = b[1] /\ a[2] >= b[2])

\* The places of a tenant's requests with a row behind them, when len[i] tokens
\* of request i were read.
Seen(t, len) ==
    {s \in (1..Len(reqs)) \X Nat :
        /\ reqs[s[1]].scope.tenant = t
        /\ s[2] \in 1..len[s[1]] - 1 /\ RowAt(s) # <<>>}

Lengths == [i \in 1..Len(reqs) |-> Len(Passed(i))]

\* The rows are those behind the latest places of their tokens.
LatestOf(m, X) ==
    /\ DOMAIN m = {TokAt(s) : s \in X}
    /\ \A tok \in DOMAIN m :
          \E s \in X :
             /\ TokAt(s) = tok
             /\ \A o \in X : TokAt(o) = tok => Later(s, o)
             /\ m[tok] = Padded(RowAt(s))

RowsSound == kind = "recycle" => \A t \in Tenants : LatestOf(rows[t], Seen(t, Lengths))

\* The row of a later position replaces that of an earlier one.
LEMMA LatestGrows ==
    ASSUME NEW m \in Maps, NEW X, LatestOf(m, X), NEW s, \A o \in X : Later(s, o),
           Later(s, s), TokAt(s) \in Tokens, RowAt(s) \in Seq(Tokens), RowAt(s) # <<>>
    PROVE  LatestOf(Replaced(m, TokAt(s), RowAt(s)), X \cup {s})
<1> DEFINE tok == TokAt(s)
           ids == RowAt(s)
           new == Replaced(m, tok, ids)
           Y   == X \cup {s}
<1>1. tok \in Tokens /\ ids \in Seq(Tokens) /\ ids # <<>>
  OBVIOUS
<1> HIDE DEF tok, ids
<1>2. /\ DOMAIN new = DOMAIN m \cup {tok} /\ new[tok] = Padded(ids)
      /\ \A t \in DOMAIN m : t # tok => new[t] = m[t]
  BY <1>1, ReplacedFacts
<1> HIDE DEF new
<1>3. DOMAIN new = {TokAt(o) : o \in Y}
  BY <1>2 DEF LatestOf, tok
<1>4. ASSUME NEW t \in DOMAIN new
      PROVE  \E o \in Y : /\ TokAt(o) = t
                          /\ \A u \in Y : TokAt(u) = t => Later(o, u)
                          /\ new[t] = Padded(RowAt(o))
  <2>1. CASE t = tok
    <3>1. TokAt(s) = t /\ new[t] = Padded(RowAt(s)) /\ \A u \in Y : Later(s, u)
      BY <1>2, <2>1 DEF tok, ids
    <3> QED
      BY <3>1
  <2>2. CASE t # tok
    <3>1. t \in DOMAIN m /\ new[t] = m[t]
      BY <1>2, <2>2
    <3>2. PICK o \in X : /\ TokAt(o) = t
                         /\ \A u \in X : TokAt(u) = t => Later(o, u)
                         /\ m[t] = Padded(RowAt(o))
      BY <3>1 DEF LatestOf
    <3>3. \A u \in Y : TokAt(u) = t => Later(o, u)
      BY <2>2, <3>2 DEF tok
    <3> QED
      BY <3>1, <3>2, <3>3
  <2> QED
    BY <2>1, <2>2
<1> HIDE DEF Y
<1>5. LatestOf(new, Y)
  BY <1>3, <1>4 DEF LatestOf
<1> QED
  BY <1>5 DEF new, tok, ids, Y

\* How much was read of each request at a position of the outcome harvested.
ReadTo(n) == [i \in 1..Len(reqs) |-> IF i = r THEN n ELSE Len(Passed(i))]

\* One more position of the request is seen.
LEMMA SeenGrows ==
    ASSUME ReplayInv, Drafting, NEW n \in p..N - 1
    PROVE  LET s == <<r, n>>
           IN  /\ \A t \in Tenants : t # req.scope.tenant \/ n = 0 \/ RowAt(s) = <<>> =>
                        Seen(t, ReadTo(n + 1)) = Seen(t, ReadTo(n))
               /\ n # 0 /\ RowAt(s) # <<>> =>
                     Seen(req.scope.tenant, ReadTo(n + 1))
                       = Seen(req.scope.tenant, ReadTo(n)) \cup {s}
               /\ Later(s, s) /\ \A o \in Seen(req.scope.tenant, ReadTo(n)) : Later(s, o)
<1> DEFINE s == <<r, n>>
           R == 1..Len(reqs)
<1>1. /\ r \in R /\ p \in Nat /\ N \in Nat /\ n \in Nat /\ Len(reqs) \in Nat /\ R \subseteq Nat
  BY RequestFacts DEF Drafting, RequestsTyped
<1>2. \A i \in R : i > r => Len(Passed(i)) = 0
  BY PassedFacts
<1>3. \A i \in R : /\ ReadTo(n)[i] = IF i = r THEN n ELSE Len(Passed(i))
                   /\ ReadTo(n + 1)[i] = IF i = r THEN n + 1 ELSE Len(Passed(i))
  BY DEF ReadTo
<1>4. \A i \in R : Len(Passed(i)) \in Nat
  BY PassedFacts, LenProperties
<1> HIDE DEF N
\* Who is seen.
<1>5. ASSUME NEW t, NEW o
      PROVE  /\ o \in Seen(t, ReadTo(n)) <=>
                   /\ o \in R \X Nat /\ reqs[o[1]].scope.tenant = t /\ RowAt(o) # <<>>
                   /\ o[2] \in 1..(IF o[1] = r THEN n ELSE Len(Passed(o[1]))) - 1
             /\ o \in Seen(t, ReadTo(n + 1)) <=>
                   /\ o \in R \X Nat /\ reqs[o[1]].scope.tenant = t /\ RowAt(o) # <<>>
                   /\ o[2] \in 1..(IF o[1] = r THEN n + 1 ELSE Len(Passed(o[1]))) - 1
  <2>1. ASSUME o \in R \X Nat
        PROVE  /\ ReadTo(n)[o[1]] = IF o[1] = r THEN n ELSE Len(Passed(o[1]))
               /\ ReadTo(n + 1)[o[1]] = IF o[1] = r THEN n + 1 ELSE Len(Passed(o[1]))
    BY <1>3, <2>1
  <2> QED
    BY <2>1 DEF Seen
<1>6. ASSUME NEW t, NEW o, o \in Seen(t, ReadTo(n + 1)), o \notin Seen(t, ReadTo(n))
      PROVE  o = s /\ n # 0 /\ t = req.scope.tenant /\ RowAt(s) # <<>>
  <2>1. o \in R \X Nat /\ o[1] = r /\ o[2] = n /\ n # 0
    <3>1. o \in R \X Nat /\ o[1] = r /\ o[2] \in 1..(n + 1) - 1 /\ ~ (o[2] \in 1..n - 1)
      BY <1>5, <1>6
    <3> QED
      BY <1>1, <3>1
  <2>2. o = s
    BY <2>1
  <2>3. reqs[o[1]].scope.tenant = t /\ RowAt(o) # <<>>
    BY <1>5, <1>6
  <2> QED
    BY <2>1, <2>2, <2>3 DEF req
<1>7. ASSUME NEW t, NEW o, o \in Seen(t, ReadTo(n))
      PROVE  o \in Seen(t, ReadTo(n + 1)) /\ Later(s, o)
  <2>1. o \in R \X Nat /\ o[2] \in 1..(IF o[1] = r THEN n ELSE Len(Passed(o[1]))) - 1
    BY <1>5, <1>7
  <2>2. CASE o[1] = r
    <3>1. o[2] \in 1..n - 1
      BY <2>1, <2>2
    <3>2. o[2] \in 1..(n + 1) - 1 /\ n >= o[2]
      BY <1>1, <3>1
    <3> QED
      BY <1>5, <1>7, <2>2, <3>2 DEF Later
  <2>3. CASE o[1] # r
    <3>1. o[1] \in R /\ Len(Passed(o[1])) # 0
      BY <2>1, <2>3
    <3>2. r > o[1]
      BY <1>1, <1>2, <2>3, <3>1
    <3> QED
      BY <1>5, <1>7, <2>3, <3>2 DEF Later
  <2> QED
    BY <2>2, <2>3
<1>8. ASSUME n # 0, RowAt(s) # <<>> PROVE s \in Seen(req.scope.tenant, ReadTo(n + 1))
  <2>1. s \in R \X Nat /\ s[1] = r /\ s[2] = n /\ n \in 1..(n + 1) - 1
    BY <1>1, <1>8
  <2> QED
    BY <1>5, <1>8, <2>1 DEF req
<1>9. Later(s, s)
  BY <1>1 DEF Later
<1> HIDE DEF s
<1>10. ASSUME NEW t \in Tenants, t # req.scope.tenant \/ n = 0 \/ RowAt(s) = <<>>
       PROVE  Seen(t, ReadTo(n + 1)) = Seen(t, ReadTo(n))
  <2> DEFINE A == Seen(t, ReadTo(n + 1))
             B == Seen(t, ReadTo(n))
  <2>1. \A o : o \in A /\ o \notin B => FALSE
    BY <1>6, <1>10
  <2>2. \A o : o \in B => o \in A
    BY <1>7
  <2> HIDE DEF A, B
  <2>3. A = B
    BY <2>1, <2>2
  <2> QED
    BY <2>3 DEF A, B
<1>11. ASSUME n # 0, RowAt(s) # <<>>
       PROVE  Seen(req.scope.tenant, ReadTo(n + 1))
                = Seen(req.scope.tenant, ReadTo(n)) \cup {s}
  BY <1>6, <1>7, <1>8, <1>11
<1>12. \A o \in Seen(req.scope.tenant, ReadTo(n)) : Later(s, o)
  BY <1>7
<1> QED
  BY <1>9, <1>10, <1>11, <1>12 DEF s

\* After a verification the rows of every tenant are the latest of what was
\* read to the end of its outcome.
LEMMA RowsVerified ==
    ASSUME ReplayInv, Verify, kind = "recycle", RowsSound, NEW t \in Tenants
    PROVE  LatestOf(rows'[t], Seen(t, ReadTo(p + Harvested.acc + 1)))
<1> DEFINE ev  == Harvested
           new == Realized(ev)
           acc == ev.acc
           tenant == req.scope.tenant
           m   == rows[tenant]
<1>1. /\ step = "draft" /\ Learn(ev) /\ outcome = NoOutcome
  BY DEF Verify, Harvested, ReplayInv, OutcomeSound
<1>2. Drafting /\ Faithful(ev)
  BY <1>1, InvIsDrafting, HarvestedFacts
<1> HIDE DEF ev
<1>3. /\ tenant \in Tenants /\ rows \in [Tenants -> Maps]
      /\ rows' = [rows EXCEPT ![tenant] = Recycle(@, ev, new)]
  BY <1>1, <1>2, RequestFacts DEF ReplayInv, LearnedSound, Learn
<1>4. new \in Seq(Tokens) /\ Len(new) = acc + 1
  BY <1>2, RealizedFacts
<1>5. /\ N \in Nat /\ p \in Nat /\ acc \in Nat /\ p + acc + 1 <= N
      /\ Len(req.ids) = N /\ req.ids \in Seq(Seq(Tokens))
      /\ Len(req.toks) = N /\ req.toks \in Seq(Tokens)
  BY <1>2, OutcomeTypes, RequestFacts
<1>6. /\ ev.tail \in Seq(Tokens) /\ ev.ids \in Seq(Seq(Tokens)) /\ Len(ev.ids) = Len(new)
  <2>1. ev.tail \in Seq(Tokens) /\ ev.ids \in Seq(Seq(Tokens))
        /\ ev.ids = SubSeq(req.ids, p + 1, p + acc + 1)
    BY <1>2 DEF Faithful, Outcomes
  <2> DEFINE n == p + acc + 1
  <2>2. n \in Nat /\ p <= n /\ n <= Len(req.ids) /\ n - p = acc + 1
    <3>1. /\ N \in Nat /\ p \in Nat /\ acc \in Nat /\ p + acc + 1 <= N
          /\ Len(req.ids) = N
      BY <1>5
    <3> HIDE DEF N, acc
    <3> QED
      BY <3>1
  <2> HIDE DEF n, new
  <2>3. Len(SubSeq(req.ids, p + 1, n)) = n - p
    BY <1>5, <2>2, PartFacts
  <2> QED
    BY <1>4, <2>1, <2>2, <2>3 DEF n
<1>7. \A pos \in 1..acc + 1 :
         /\ Len(ev.tail) + pos = 1 <=> p + pos = 1
         /\ p + pos # 1 => (ev.tail \o new)[Len(ev.tail) + pos - 1] = req.toks[p + pos - 1]
         /\ ev.ids[pos] = req.ids[p + pos]
  BY <1>2, HarvestedAt
<1> HIDE DEF N, acc, m, new, tenant
<1>8. \A pos \in 0..acc : /\ p + pos \in p..N - 1 /\ p + (pos + 1) = (p + pos) + 1
                          /\ pos + 1 \in 1..acc + 1 /\ (pos + 1) - 1 = pos
                          /\ p + (pos + 1) - 1 = p + pos
  BY <1>5
\* At the start.
<1>9. \A u \in Tenants : LatestOf(rows[u], Seen(u, ReadTo(p)))
  <2>1. ReadTo(p) = Lengths
    <3>1. r \in 1..Len(reqs) /\ Len(Passed(r)) = p
      <4>1. r \in 1..Len(reqs) /\ r \in Nat
        BY <1>2 DEF Drafting, RequestsTyped
      <4>2. ~ (r < r) /\ ~ (r > r)
        BY <4>1
      <4> QED
        BY <1>1, <4>1, <4>2, PassedFacts DEF Upto
    <3> QED
      BY <3>1 DEF ReadTo, Lengths
  <2> QED
    BY <2>1 DEF RowsSound
\* The rows of another tenant.
<1>10. CASE t # tenant
  <2> DEFINE X(n) == Seen(t, ReadTo(n))
             T == {pos \in 0..acc + 1 : X(p + pos) = X(p)}
  <2>1. 0 \in T
    BY <1>5
  <2>2. ASSUME NEW pos \in 0..(acc + 1) - 1, pos \in T PROVE pos + 1 \in T
    <3>1. /\ p + pos \in p..N - 1 /\ p + (pos + 1) = (p + pos) + 1
          /\ pos + 1 \in 0..acc + 1
      BY <1>5
    <3>2. X((p + pos) + 1) = X(p + pos)
      <4> DEFINE n == p + pos
      <4>1. n \in p..N - 1
        BY <3>1
      <4> HIDE DEF n
      <4>2. Seen(t, ReadTo(n + 1)) = Seen(t, ReadTo(n))
        BY <1>2, <1>10, <4>1, SeenGrows DEF tenant
      <4> QED
        BY <4>2 DEF n
    <3> QED
      BY <2>2, <3>1, <3>2
  <2> HIDE DEF T
  <2>3. 0..acc + 1 \subseteq T
    <3>1. acc + 1 \in Nat
      BY <1>5
    <3> QED
      BY <2>1, <2>2, <3>1, Induction
  <2>4. acc + 1 \in T /\ p + (acc + 1) = p + acc + 1
    <3>1. acc + 1 \in 0..acc + 1 /\ p + (acc + 1) = p + acc + 1
      BY <1>5
    <3> QED
      BY <2>3, <3>1
  <2>5. X(p + acc + 1) = X(p)
    BY <2>4 DEF T
  <2>6. rows'[t] = rows[t]
    BY <1>3, <1>10
  <2> QED
    BY <1>9, <2>5, <2>6 DEF acc, ev
\* The rows of this one.
<1>11. CASE t = tenant
  <2>1. m \in Maps /\ rows'[t] = Recycle(m, ev, new)
    BY <1>3, <1>11 DEF m
  <2>12. PICK f : Recycles(f, m, ev, new) /\ Recycle(m, ev, new) = f[Len(new)]
    BY <1>4, <1>6, <2>1, RecycleFacts
  <2>2. /\ f[0] = m
        /\ \A pos \in 0..Len(new) : f[pos] \in Maps
        /\ \A pos \in 1..Len(new) : f[pos] = RecycleAt(f[pos - 1], ev, new, pos)
        /\ Recycle(m, ev, new) = f[Len(new)]
    BY <2>12 DEF Recycles
  <2> DEFINE X(n) == Seen(t, ReadTo(n))
             T == {pos \in 0..acc + 1 : LatestOf(f[pos], X(p + pos))}
  <2>3. 0 \in T
    <3>1. LatestOf(f[0], X(p)) /\ p + 0 = p /\ 0 \in 0..acc + 1
      <4>1. p + 0 = p /\ 0 \in 0..acc + 1
        BY <1>5
      <4>2. LatestOf(rows[t], Seen(t, ReadTo(p))) /\ f[0] = rows[t]
        BY <1>9, <1>11, <2>2 DEF m
      <4> QED
        BY <4>1, <4>2
    <3> QED
      BY <3>1
  <2>4. ASSUME NEW pos \in 0..(acc + 1) - 1, pos \in T PROVE pos + 1 \in T
    <3> DEFINE n == p + pos
               s == <<r, n>>
    <3>1. /\ n \in p..N - 1 /\ n \in 0..N - 1 /\ n + 1 \in 1..N /\ p + (pos + 1) = n + 1
          /\ pos + 1 \in 0..acc + 1 /\ pos + 1 \in 1..acc + 1 /\ (pos + 1) - 1 = pos
          /\ p + (pos + 1) - 1 = n /\ pos \in 0..acc + 1
          /\ (n + 1 = 1 <=> n = 0) /\ (n # 0 => n \in 1..N)
      BY <1>5
    <3> HIDE DEF n
    <3>2. LatestOf(f[pos], X(n))
      BY <2>4 DEF n
    <3>3. f[pos + 1] = IF Len(ev.tail) + (pos + 1) = 1 THEN f[pos]
                       ELSE Replaced(f[pos], (ev.tail \o new)[Len(ev.tail) + (pos + 1) - 1],
                                     ev.ids[pos + 1])
      BY <1>4, <2>2, <3>1 DEF RecycleAt
    <3>4. f[pos + 1] = IF n = 0 THEN f[pos] ELSE Replaced(f[pos], TokAt(s), RowAt(s))
      <4>1. /\ Len(ev.tail) + (pos + 1) = 1 <=> n = 0
            /\ n # 0 => (ev.tail \o new)[Len(ev.tail) + (pos + 1) - 1] = req.toks[n]
            /\ ev.ids[pos + 1] = req.ids[n + 1]
        BY <1>7, <3>1
      <4>2. TokAt(s) = req.toks[n] /\ RowAt(s) = req.ids[n + 1]
        BY DEF TokAt, RowAt, req
      <4> QED
        BY <3>3, <4>1, <4>2
    <3>5. f[pos] \in Maps
      BY <1>4, <2>2, <3>1
    <3>6. /\ n = 0 \/ RowAt(s) = <<>> => X(n + 1) = X(n)
          /\ n # 0 /\ RowAt(s) # <<>> => X(n + 1) = X(n) \cup {s}
          /\ Later(s, s) /\ \A o \in X(n) : Later(s, o)
      BY <1>2, <1>11, <3>1, SeenGrows DEF tenant
    <3>7. LatestOf(f[pos + 1], X(n + 1))
      <4>1. CASE n = 0
        BY <3>2, <3>4, <3>6, <4>1
      <4>2. CASE n # 0 /\ RowAt(s) = <<>>
        <5>1. Replaced(f[pos], TokAt(s), RowAt(s)) = f[pos]
          BY <4>2 DEF Replaced
        <5> QED
          BY <3>2, <3>4, <3>6, <4>2, <5>1
      <4>3. CASE n # 0 /\ RowAt(s) # <<>>
        <5>1. TokAt(s) \in Tokens
          <6>1. n \in 1..Len(req.toks) /\ TokAt(s) = req.toks[n]
            BY <1>5, <3>1, <4>3 DEF TokAt, req
          <6> QED
            BY <1>5, <6>1, ElementOfSeq
        <5>2. RowAt(s) \in Seq(Tokens)
          <6> DEFINE S == Seq(Tokens)
          <6>1. n + 1 \in 1..Len(req.ids) /\ RowAt(s) = req.ids[n + 1] /\ req.ids \in Seq(S)
            BY <1>5, <3>1 DEF RowAt, req
          <6> HIDE DEF S
          <6>2. RowAt(s) \in S
            BY <6>1, ElementOfSeq
          <6> QED
            BY <6>2 DEF S
        <5> DEFINE Y == X(n)
                   k == f[pos]
        <5>3. LatestOf(k, Y) /\ k \in Maps /\ \A o \in Y : Later(s, o)
          BY <3>2, <3>5, <3>6
        <5> HIDE DEF s, Y, k
        <5>4. LatestOf(Replaced(k, TokAt(s), RowAt(s)), Y \cup {s})
          BY <3>6, <4>3, <5>1, <5>2, <5>3, LatestGrows
        <5> QED
          BY <3>4, <3>6, <4>3, <5>4 DEF Y, k
      <4> QED
        BY <4>1, <4>2, <4>3
    <3> QED
      BY <3>1, <3>7
  <2> HIDE DEF T
  <2>5. 0..acc + 1 \subseteq T
    <3>1. acc + 1 \in Nat
      BY <1>5
    <3> QED
      BY <2>3, <2>4, <3>1, Induction
  <2>6. acc + 1 \in T /\ p + (acc + 1) = p + acc + 1
    <3>1. acc + 1 \in 0..acc + 1 /\ p + (acc + 1) = p + acc + 1
      BY <1>5
    <3> QED
      BY <2>5, <3>1
  <2>7. LatestOf(f[acc + 1], X(p + acc + 1))
    BY <2>6 DEF T
  <2> QED
    BY <1>4, <2>1, <2>2, <2>7 DEF acc, ev
<1> QED
  BY <1>10, <1>11

\* What is read stays seen.
LEMMA RowsNext ==
    ASSUME ReplayInv, RowsSound, [Next]_vars
    PROVE  RowsSound'
<1>1. kind' = kind
  BY DEF Next, OpenRequest, Move, DraftOfLedger, DraftOfVanilla, DraftOfRecycle,
         DraftOfDense, Drafted, Verify, RaiseEpoch, EndBumps, EndReplay, vars, replayVars, runVars
<1>2. CASE kind = "recycle" /\ Verify
  <2>1. \A t \in Tenants : LatestOf(rows'[t], Seen(t, ReadTo(p + Harvested.acc + 1)))
    BY <1>2, RowsVerified
  <2>2. /\ reqs' = reqs /\ r \in 1..Len(reqs)
        /\ \A i \in 1..Len(reqs) :
              Passed(i)' = IF i = r THEN Join(Passed(i), Realized(Harvested)) ELSE Passed(i)
    BY <1>2, PassedGrows
  <2>3. Lengths' = ReadTo(p + Harvested.acc + 1)
    <3> DEFINE new == Realized(Harvested)
               n   == p + Harvested.acc + 1
    <3>1. Len(Join(Passed(r), new)) = n
      <4>1. step = "draft" /\ outcome = NoOutcome
        BY <1>2 DEF Verify, ReplayInv, OutcomeSound
      <4>2. Drafting /\ Faithful(Harvested)
        BY <4>1, InvIsDrafting, HarvestedFacts
      <4>3. new \in Seq(Tokens) /\ Len(new) = Harvested.acc + 1 /\ p \in Nat /\ Harvested.acc \in Nat
        BY <4>2, RealizedFacts, OutcomeTypes
      <4>4. Passed(r) \in Seq(Tokens) /\ Len(Passed(r)) = p
        <5>1. r \in Nat
          BY <2>2
        <5>2. ~ (r < r) /\ ~ (r > r)
          BY <5>1
        <5> QED
          BY <2>2, <4>1, <5>2, PassedFacts DEF Upto
      <4> DEFINE a == Passed(r)
                 acc == Harvested.acc
      <4> HIDE DEF a, new, acc
      <4>5. Len(a \o new) = Len(a) + Len(new)
        BY <4>3, <4>4, ConcatProperties DEF a
      <4>6. Len(a) + Len(new) = p + acc + 1
        BY <4>3, <4>4 DEF a, acc
      <4> QED
        BY <4>5, <4>6 DEF Join, a, acc
    <3>2. Lengths' = [i \in 1..Len(reqs) |-> Len(Passed(i)')]
      BY <2>2 DEF Lengths
    <3> HIDE DEF n, new
    <3>3. Lengths' = [i \in 1..Len(reqs) |-> IF i = r THEN n ELSE Len(Passed(i))]
      <4>1. \A i \in 1..Len(reqs) : Len(Passed(i)') = IF i = r THEN n ELSE Len(Passed(i))
        BY <2>2, <3>1 DEF new
      <4> QED
        BY <3>2, <4>1
    <3> QED
      BY <3>3 DEF ReadTo, n
  <2>4. \A t \in Tenants : Seen(t, Lengths)' = Seen(t, ReadTo(p + Harvested.acc + 1))
    <3>1. \A t : Seen(t, Lengths)' = Seen(t, Lengths')
      BY <2>2 DEF Seen, RowAt
    <3> QED
      BY <2>3, <3>1
  <2> QED
    BY <1>1, <2>1, <2>2, <2>4 DEF RowsSound, LatestOf, TokAt, RowAt
<1>3. CASE kind = "recycle" /\ ~Verify
  <2>1. reqs' = reqs /\ \A i \in 1..Len(reqs) : Passed(i)' = Passed(i)
    BY <1>3, PassedStays
  <2>2. rows' = rows
    BY <1>3 DEF Next, OpenRequest, Move, DraftOfLedger, DraftOfVanilla, DraftOfRecycle,
                DraftOfDense, Drafted, RaiseEpoch, EndBumps, EndReplay, vars, learned
  <2>3. Lengths' = Lengths
    <3>1. Lengths' = [i \in 1..Len(reqs) |-> Len(Passed(i)')]
      BY <2>1 DEF Lengths
    <3>2. Lengths' = [i \in 1..Len(reqs) |-> Len(Passed(i))]
      BY <2>1, <3>1
    <3> QED
      BY <3>2 DEF Lengths
  <2>4. \A t : Seen(t, Lengths)' = Seen(t, Lengths)
    BY <2>1, <2>3 DEF Seen, RowAt
  <2> QED
    BY <1>1, <2>1, <2>2, <2>4 DEF RowsSound, LatestOf, TokAt, RowAt
<1> QED
  BY <1>1, <1>2, <1>3 DEF RowsSound

\* At the start there are no rows, and nothing was read.
LEMMA RowsInitially ==
    ASSUME Init
    PROVE  RowsSound
<1>1. ReplayInv /\ r = 0 /\ rows = [t \in Tenants |-> <<>>]
  BY InitSound DEF Init, RowsInit
<1>2. \A i \in 1..Len(reqs) : Lengths[i] = 0
  <2>1. \A i \in 1..Len(reqs) : i > r
    BY <1>1
  <2>2. \A i \in 1..Len(reqs) : ~ (i < r) /\ Lengths[i] = Len(Passed(i))
    BY <1>1 DEF Lengths
  <2> QED
    BY <1>1, <2>1, <2>2, PassedFacts
<1>3. \A t : Seen(t, Lengths) = {}
  BY <1>2 DEF Seen
<1>4. \A t \in Tenants : rows[t] = <<>> /\ DOMAIN rows[t] = {}
  BY <1>1
<1> QED
  BY <1>3, <1>4 DEF RowsSound, LatestOf

\* How the whole grows.
LEMMA JoinsGrow ==
    ASSUME NEW S, NEW seqs \in Seq(Seq(S)), NEW f, Joins(f, seqs, S)
    PROVE  /\ Len(seqs) \in Nat /\ Len(f[0]) = 0
           /\ \A i \in 0..Len(seqs) : Len(f[i]) \in Nat
           /\ \A i \in 1..Len(seqs) : /\ Len(f[i]) = Len(f[i - 1]) + Len(seqs[i])
                                      /\ Len(f[i - 1]) \in Nat /\ Len(seqs[i]) \in Nat
<1> DEFINE n == Len(seqs)
<1>2. /\ f[0] = <<>> /\ \A i \in 0..n : f[i] \in Seq(S)
      /\ \A i \in 1..n : f[i] = Join(f[i - 1], seqs[i])
  BY DEF Joins
<1>3. n \in Nat /\ \A i \in 1..n : seqs[i] \in Seq(S)
  <2> DEFINE T == Seq(S)
  <2>1. seqs \in Seq(T)
    OBVIOUS
  <2> HIDE DEF T
  <2>2. Len(seqs) \in Nat /\ \A i \in 1..Len(seqs) : seqs[i] \in T
    BY <2>1, LenProperties, ElementOfSeq
  <2> QED
    BY <2>2 DEF T
<1> HIDE DEF n
<1>4. \A i \in 0..n : Len(f[i]) \in Nat
  BY <1>2, LenProperties
<1>5. \A i \in 1..n : /\ Len(f[i]) = Len(f[i - 1]) + Len(seqs[i])
                      /\ Len(f[i - 1]) \in Nat /\ Len(seqs[i]) \in Nat
  <2> SUFFICES ASSUME NEW i \in 1..n
               PROVE  /\ Len(f[i]) = Len(f[i - 1]) + Len(seqs[i])
                      /\ Len(f[i - 1]) \in Nat /\ Len(seqs[i]) \in Nat
    OBVIOUS
  <2> DEFINE a == f[i - 1]
             b == seqs[i]
             c == f[i]
  <2>1. a \in Seq(S) /\ b \in Seq(S) /\ c = Join(a, b)
    <3>1. i - 1 \in 0..n
      BY <1>3
    <3> QED
      BY <1>2, <1>3, <3>1
  <2> HIDE DEF a, b, c
  <2>2. Len(c) = Len(a) + Len(b) /\ Len(a) \in Nat /\ Len(b) \in Nat
    BY <2>1, ConcatProperties, LenProperties DEF Join
  <2> QED
    BY <2>2 DEF a, b, c
<1>6. Len(f[0]) = 0
  BY <1>2
<1> QED
  BY <1>3, <1>4, <1>5, <1>6 DEF n

\* The whole grows with its pieces.
LEMMA FlattenLonger ==
    ASSUME NEW S, NEW s \in Seq(Seq(S)), NEW t \in Seq(Seq(S)), Len(s) = Len(t),
           \A i \in 1..Len(s) : Len(s[i]) <= Len(t[i])
    PROVE  /\ Len(Ext!FlattenSeq(s)) \in Nat /\ Len(Ext!FlattenSeq(t)) \in Nat
           /\ Len(Ext!FlattenSeq(s)) <= Len(Ext!FlattenSeq(t))
<1> DEFINE n == Len(s)
<1>1. PICK f : Joins(f, s, S) /\ Ext!FlattenSeq(s) = f[Len(s)]
  BY FlattenFacts
<1>2. PICK g : Joins(g, t, S) /\ Ext!FlattenSeq(t) = g[Len(t)]
  BY FlattenFacts
<1>3. /\ n \in Nat /\ Len(f[0]) = 0 /\ Len(g[0]) = 0
      /\ \A i \in 0..n : Len(f[i]) \in Nat /\ Len(g[i]) \in Nat
      /\ \A i \in 1..n : /\ Len(f[i]) = Len(f[i - 1]) + Len(s[i]) /\ Len(s[i]) \in Nat
                         /\ Len(g[i]) = Len(g[i - 1]) + Len(t[i]) /\ Len(t[i]) \in Nat
  <2>1. /\ n \in Nat /\ Len(f[0]) = 0
        /\ \A i \in 0..n : Len(f[i]) \in Nat
        /\ \A i \in 1..n : Len(f[i]) = Len(f[i - 1]) + Len(s[i]) /\ Len(s[i]) \in Nat
    BY <1>1, JoinsGrow
  <2>2. /\ Len(g[0]) = 0
        /\ \A i \in 0..n : Len(g[i]) \in Nat
        /\ \A i \in 1..n : Len(g[i]) = Len(g[i - 1]) + Len(t[i]) /\ Len(t[i]) \in Nat
    <3>1. /\ Len(g[0]) = 0
          /\ \A i \in 0..Len(t) : Len(g[i]) \in Nat
          /\ \A i \in 1..Len(t) : Len(g[i]) = Len(g[i - 1]) + Len(t[i]) /\ Len(t[i]) \in Nat
      BY <1>2, JoinsGrow
    <3>2. n = Len(t)
      OBVIOUS
    <3> HIDE DEF n
    <3> QED
      BY <3>1, <3>2
  <2> QED
    BY <2>1, <2>2
<1>4. \A i \in 1..n : Len(s[i]) <= Len(t[i])
  OBVIOUS
<1>5. n = Len(t)
  OBVIOUS
<1> DEFINE T == {i \in 0..n : Len(f[i]) <= Len(g[i])}
<1> HIDE DEF n
<1>6. 0 \in T
  BY <1>3
<1>7. ASSUME NEW i \in 0..n - 1, i \in T PROVE i + 1 \in T
  <2>1. i + 1 \in 1..n /\ (i + 1) - 1 = i /\ i + 1 \in 0..n /\ i \in 0..n
    BY <1>3
  <2> DEFINE a == Len(f[i])
             b == Len(s[i + 1])
             c == Len(g[i])
             d == Len(t[i + 1])
  <2>2. /\ a \in Nat /\ b \in Nat /\ c \in Nat /\ d \in Nat /\ b <= d /\ a <= c
        /\ Len(f[i + 1]) = a + b /\ Len(g[i + 1]) = c + d
    <3>1. /\ a \in Nat /\ b \in Nat /\ c \in Nat /\ d \in Nat
          /\ Len(f[i + 1]) = Len(f[(i + 1) - 1]) + b /\ Len(g[i + 1]) = Len(g[(i + 1) - 1]) + d
      BY <1>3, <2>1
    <3>2. b <= d
      BY <1>4, <2>1
    <3>3. a <= c
      BY <1>7
    <3> HIDE DEF b, d
    <3> QED
      BY <2>1, <3>1, <3>2, <3>3
  <2> HIDE DEF a, b, c, d
  <2>3. a + b <= c + d
    BY <2>2
  <2> QED
    BY <2>1, <2>2, <2>3
<1> HIDE DEF T
<1>8. 0..n \subseteq T
  BY <1>3, <1>6, <1>7, Induction
<1>9. n \in T /\ n \in 0..n
  <2>1. n \in 0..n
    BY <1>3
  <2> QED
    BY <1>8, <2>1
<1>10. Ext!FlattenSeq(s) = f[n] /\ Ext!FlattenSeq(t) = g[n]
  BY <1>1, <1>2, <1>5 DEF n
<1> QED
  BY <1>3, <1>9, <1>10 DEF T

\* The whole is as long as any of its pieces.
LEMMA PieceFits ==
    ASSUME NEW S, NEW seqs \in Seq(Seq(S)), NEW k \in 1..Len(seqs)
    PROVE  Len(seqs[k]) <= Len(Ext!FlattenSeq(seqs))
<1> DEFINE n == Len(seqs)
<1>1. PICK f : Joins(f, seqs, S) /\ Ext!FlattenSeq(seqs) = f[n]
  BY FlattenFacts
<1>2. /\ n \in Nat /\ \A i \in 0..n : Len(f[i]) \in Nat
      /\ \A i \in 1..n : /\ Len(f[i]) = Len(f[i - 1]) + Len(seqs[i])
                         /\ Len(f[i - 1]) \in Nat /\ Len(seqs[i]) \in Nat
  BY <1>1, JoinsGrow
<1>3. n \in Nat
  BY <1>2
<1>4. k \in 1..n
  OBVIOUS
<1> HIDE DEF n
<1>5. \A i \in 1..n : /\ Len(f[i]) = Len(f[i - 1]) + Len(seqs[i])
                      /\ Len(f[i]) \in Nat /\ Len(f[i - 1]) \in Nat /\ Len(seqs[i]) \in Nat
  <2>1. \A i \in 1..n : i \in 0..n
    BY <1>3
  <2> QED
    BY <1>2, <2>1
<1> DEFINE T == {i \in 0..n : i >= k => Len(f[i]) >= Len(seqs[k])}
<1>6. 0 \in T
  BY <1>3, <1>4
<1>7. ASSUME NEW i \in 0..n - 1, i \in T PROVE i + 1 \in T
  <2>1. i + 1 \in 1..n /\ (i + 1) - 1 = i /\ i + 1 \in 0..n /\ k \in Nat
    BY <1>3, <1>4
  <2> DEFINE a == Len(f[i])
             b == Len(seqs[i + 1])
             c == Len(f[i + 1])
  <2>2. c = a + b /\ a \in Nat /\ b \in Nat /\ c \in Nat
    BY <1>5, <2>1
  <2>3. i >= k => a >= Len(seqs[k])
    BY <1>7
  <2>4. Len(seqs[k]) \in Nat
    BY <1>4, <1>5
  <2> DEFINE d == Len(seqs[k])
  <2>5. i + 1 = k => b = d
    BY <2>1
  <2> HIDE DEF a, b, c, d
  <2>6. i + 1 >= k => c >= d
    BY <2>1, <2>2, <2>3, <2>4, <2>5 DEF d
  <2> QED
    BY <2>1, <2>6 DEF c, d
<1> HIDE DEF T
<1>8. 0..n \subseteq T
  BY <1>3, <1>6, <1>7, Induction
<1>9. n \in T /\ n >= k
  <2>1. n \in 0..n /\ n >= k
    BY <1>3, <1>4
  <2> QED
    BY <1>8, <2>1
<1>10. Len(f[n]) >= Len(seqs[k]) /\ Len(f[n]) \in Nat /\ Len(seqs[k]) \in Nat
  <2>1. n \in 1..n
    BY <1>3, <1>4
  <2> QED
    BY <1>4, <1>5, <1>9, <2>1 DEF T
<1> QED
  BY <1>1, <1>10

\* Token recycling keeps for each token of a tenant the row recorded behind its
\* latest occurrence in a request of that tenant, and nothing of another.
THEOREM RowsLatest == Spec => []RowsAreLatest
<1>1. Init => RowsSound
  BY RowsInitially
<1>2. ReplayInv /\ RowsSound /\ [Next]_vars => RowsSound'
  BY RowsNext
<1>3. ReplayInv /\ RowsSound /\ WrittenIsRead => RowsAreLatest
  <2> SUFFICES ASSUME ReplayInv, RowsSound, WrittenIsRead, kind = "recycle", NEW t \in Tenants
               PROVE  LET seen  == {s \in (1..r) \X (1..Len(written)) :
                                      /\ reqs[s[1]].scope.tenant = t
                                      /\ s[2] < Len(Passed(s[1])) /\ reqs[s[1]].ids[s[2] + 1] # <<>>}
                          After(a, b) == a[1] > b[1] \/ (a[1] = b[1] /\ a[2] >= b[2])
                      IN  /\ DOMAIN rows[t] = {reqs[s[1]].toks[s[2]] : s \in seen}
                          /\ \A tok \in DOMAIN rows[t] :
                                \E s \in seen :
                                   /\ reqs[s[1]].toks[s[2]] = tok
                                   /\ \A o \in seen : reqs[o[1]].toks[o[2]] = tok => After(s, o)
                                   /\ rows[t][tok] = Padded(reqs[s[1]].ids[s[2] + 1])
    BY DEF RowsAreLatest
  <2> DEFINE seen == {s \in (1..r) \X (1..Len(written)) :
                        /\ reqs[s[1]].scope.tenant = t
                        /\ s[2] < Len(Passed(s[1])) /\ reqs[s[1]].ids[s[2] + 1] # <<>>}
             X    == Seen(t, Lengths)
  <2>1. /\ Len(reqs) \in Nat /\ r \in 0..Len(reqs) /\ DOMAIN reqs = 1..Len(reqs)
    BY DEF ReplayInv, RequestsTyped, Where
  <2>2. \A i \in 1..Len(reqs) : /\ Len(Passed(i)) \in Nat /\ Len(Passed(i)) <= Len(written)
                                /\ i > r => Len(Passed(i)) = 0
                                /\ Lengths[i] = Len(Passed(i))
    <3> DEFINE pieces == Pieces(DOMAIN reqs)
    <3>1. /\ written = Ext!FlattenSeq(pieces)
          /\ pieces \in Seq(Seq(Tokens)) /\ Len(pieces) = Len(reqs)
          /\ \A i \in 1..Len(reqs) : pieces[i] = IF i \in DOMAIN reqs THEN Passed(i) ELSE <<>>
      BY PiecesFacts DEF WrittenIsRead
    <3> HIDE DEF pieces
    <3>2. \A i \in 1..Len(reqs) : Len(Passed(i)) <= Len(written)
      BY <2>1, <3>1, PieceFits
    <3>3. \A i \in 1..Len(reqs) : Len(Passed(i)) \in Nat /\ (i > r => Passed(i) = <<>>)
      BY PassedFacts, LenProperties
    <3>4. Len(<<>>) = 0
      OBVIOUS
    <3>5. \A i \in 1..Len(reqs) : Lengths[i] = Len(Passed(i))
      BY DEF Lengths
    <3> QED
      BY <3>2, <3>3, <3>4, <3>5
  <2>3. Len(written) \in Nat
    <3>1. written = Ext!FlattenSeq(Pieces(DOMAIN reqs))
      BY PiecesFacts DEF WrittenIsRead
    <3> DEFINE pieces == Pieces(DOMAIN reqs)
    <3>2. pieces \in Seq(Seq(Tokens)) /\ Len(pieces) = Len(reqs)
      BY PiecesFacts
    <3> HIDE DEF pieces
    <3>3. PICK f : Joins(f, pieces, Tokens) /\ Ext!FlattenSeq(pieces) = f[Len(pieces)]
      BY <3>2, FlattenFacts
    <3>4. f[Len(pieces)] \in Seq(Tokens)
      BY <2>1, <3>2, <3>3 DEF Joins
    <3>5. written \in Seq(Tokens)
      BY <3>1, <3>3, <3>4 DEF pieces
    <3> QED
      BY <3>5, LenProperties
  <2>4. ASSUME NEW s PROVE s \in seen <=> s \in X
    <3>1. s \in X <=> /\ s \in (1..Len(reqs)) \X Nat /\ reqs[s[1]].scope.tenant = t
                      /\ s[2] \in 1..Len(Passed(s[1])) - 1 /\ RowAt(s) # <<>>
      <4>1. s \in (1..Len(reqs)) \X Nat => Lengths[s[1]] = Len(Passed(s[1]))
        BY <2>2
      <4> QED
        BY <4>1 DEF Seen
    <3>2. ASSUME s \in seen PROVE s \in X
      <4>1. s \in (1..r) \X (1..Len(written)) /\ s[2] < Len(Passed(s[1]))
        BY <3>2
      <4>2. s \in (1..Len(reqs)) \X Nat /\ s[2] \in 1..Len(Passed(s[1])) - 1
        BY <2>1, <2>2, <4>1
      <4> QED
        BY <3>1, <3>2, <4>2 DEF RowAt
    <3>3. ASSUME s \in X PROVE s \in seen
      <4>1. /\ s \in (1..Len(reqs)) \X Nat /\ s[2] \in 1..Len(Passed(s[1])) - 1
            /\ reqs[s[1]].scope.tenant = t /\ RowAt(s) # <<>>
        BY <3>1, <3>3
      <4>2. Len(Passed(s[1])) \in Nat /\ Len(Passed(s[1])) <= Len(written)
            /\ (s[1] > r => Len(Passed(s[1])) = 0) /\ s[1] \in 1..Len(reqs)
        BY <2>2, <4>1
      <4>3. s[1] \in 1..r /\ s[2] \in 1..Len(written) /\ s[2] < Len(Passed(s[1]))
        BY <2>1, <2>3, <4>1, <4>2
      <4>4. s \in (1..r) \X (1..Len(written))
        BY <4>1, <4>3
      <4> QED
        BY <4>1, <4>3, <4>4 DEF RowAt
    <3> QED
      BY <3>2, <3>3
  <2> HIDE DEF seen, X
  <2>5. seen = X
    BY <2>4
  <2>6. LatestOf(rows[t], X)
    BY DEF RowsSound, X
  <2>7. /\ DOMAIN rows[t] = {reqs[s[1]].toks[s[2]] : s \in seen}
        /\ \A tok \in DOMAIN rows[t] :
              \E s \in seen :
                 /\ reqs[s[1]].toks[s[2]] = tok
                 /\ \A o \in seen : reqs[o[1]].toks[o[2]] = tok
                        => s[1] > o[1] \/ (s[1] = o[1] /\ s[2] >= o[2])
                 /\ rows[t][tok] = Padded(reqs[s[1]].ids[s[2] + 1])
    BY <2>5, <2>6 DEF LatestOf, TokAt, RowAt, Later
  <2> QED
    BY <2>7 DEF seen
<1> QED
  BY <1>1, <1>2, <1>3, ReplaySound, WhatWasRead, PTL DEF Spec

-----------------------------------------------------------------------------
(* Where the requests of a repository begin in its stream.                 *)

\* What was replayed of some requests ends with what was replayed of the last.
LEMMA PassedOfLast ==
    ASSUME ReplayInv, NEW S, NEW i \in 1..Len(reqs), i \in S,
           \A j \in 1..Len(reqs) : j \in S /\ j > i => Passed(j) = <<>>
    PROVE  PassedOf(S) = Join(PassedOf({j \in S : j < i}), Passed(i))
<1> DEFINE A == {j \in S : j < i}
           s == Pieces(A)
           t == Pieces(S)
<1>1. /\ PassedOf(A) = Ext!FlattenSeq(s) /\ PassedOf(S) = Ext!FlattenSeq(t)
      /\ s \in Seq(Seq(Tokens)) /\ Len(s) = Len(reqs)
      /\ t \in Seq(Seq(Tokens)) /\ Len(t) = Len(reqs)
      /\ \A j \in 1..Len(reqs) : /\ s[j] = IF j \in A THEN Passed(j) ELSE <<>>
                                 /\ t[j] = IF j \in S THEN Passed(j) ELSE <<>>
  BY PiecesFacts
<1>2. \A j \in 1..Len(reqs) : j \in A <=> j \in S /\ j < i
  OBVIOUS
<1>3. Passed(i) \in Seq(Tokens) /\ Len(reqs) \in Nat
  BY PassedFacts DEF ReplayInv, RequestsTyped
<1> HIDE DEF A, s, t
<1>4. \A j \in 1..Len(reqs) : j > i => s[j] = <<>> /\ t[j] = <<>>
  BY <1>1, <1>2, <1>3
<1>5. \A j \in 1..Len(reqs) : j < i => t[j] = s[j]
  BY <1>1, <1>2
<1>6. s[i] = <<>> /\ t[i] = Passed(i)
  BY <1>1, <1>2, <1>3
<1>7. Join(<<>>, Passed(i)) = Passed(i)
  <2> DEFINE a == Passed(i)
  <2>1. a \in Seq(Tokens)
    BY <1>3
  <2> HIDE DEF a
  <2>2. Join(<<>>, a) = a
    BY <2>1, ConcatEmptySeq DEF Join
  <2> QED
    BY <2>2 DEF a
<1>8. GrownAt(s, t, i, Passed(i))
  <2>1. \A j \in 1..Len(s) : t[j] = IF j = i THEN Join(s[j], Passed(i)) ELSE s[j]
    <3> SUFFICES ASSUME NEW j \in 1..Len(reqs)
                 PROVE  t[j] = IF j = i THEN Join(s[j], Passed(i)) ELSE s[j]
      BY <1>1
    <3>1. j < i \/ j = i \/ j > i
      BY <1>3
    <3> QED
      BY <3>1, <1>3, <1>4, <1>5, <1>6, <1>7
  <2> QED
    BY <2>1, <1>1, <1>4 DEF GrownAt
<1>9. Ext!FlattenSeq(t) = Join(Ext!FlattenSeq(s), Passed(i))
  <2>1. i \in 1..Len(s)
    BY <1>1
  <2> QED
    BY <2>1, <1>1, <1>3, <1>8, FlattenGrows
<1> QED
  BY <1>1, <1>9 DEF A

\* Of more requests more was replayed.
LEMMA PassedOfLonger ==
    ASSUME ReplayInv, NEW S, NEW A, A \subseteq S
    PROVE  /\ Len(PassedOf(A)) \in Nat /\ Len(PassedOf(S)) \in Nat
           /\ Len(PassedOf(A)) <= Len(PassedOf(S))
<1> DEFINE s == Pieces(A)
           t == Pieces(S)
<1>1. /\ PassedOf(A) = Ext!FlattenSeq(s) /\ PassedOf(S) = Ext!FlattenSeq(t)
      /\ s \in Seq(Seq(Tokens)) /\ Len(s) = Len(reqs)
      /\ t \in Seq(Seq(Tokens)) /\ Len(t) = Len(reqs)
      /\ \A j \in 1..Len(reqs) : /\ s[j] = IF j \in A THEN Passed(j) ELSE <<>>
                                 /\ t[j] = IF j \in S THEN Passed(j) ELSE <<>>
  BY PiecesFacts
<1>2. \A j \in 1..Len(reqs) : Len(Passed(j)) \in Nat
  BY PassedFacts, LenProperties
<1> HIDE DEF s, t
<1>3. \A j \in 1..Len(s) : Len(s[j]) <= Len(t[j])
  <2> SUFFICES ASSUME NEW j \in 1..Len(reqs) PROVE Len(s[j]) <= Len(t[j])
    BY <1>1
  <2>1. Len(<<>>) = 0 /\ Len(Passed(j)) \in Nat
    BY <1>2
  <2> DEFINE l == Len(Passed(j))
             e == <<>>
  <2>2. /\ s[j] = IF j \in A THEN Passed(j) ELSE e
        /\ t[j] = IF j \in S THEN Passed(j) ELSE e
    BY <1>1
  <2>3. Len(s[j]) \in {0, l} /\ Len(t[j]) \in {0, l} /\ (Len(t[j]) = l \/ Len(s[j]) = 0)
    <3>1. Len(e) = 0
      OBVIOUS
    <3> HIDE DEF e
    <3>2. CASE j \in A
      <4>1. j \in S
        BY <3>2
      <4> QED
        BY <2>2, <3>2, <4>1
    <3>3. CASE j \notin A
      BY <2>2, <3>1, <3>3
    <3> QED
      BY <3>2, <3>3
  <2> HIDE DEF l
  <2>4. l \in Nat
    BY <2>1 DEF l
  <2> QED
    BY <2>3, <2>4
<1>4. /\ Len(Ext!FlattenSeq(s)) \in Nat /\ Len(Ext!FlattenSeq(t)) \in Nat
      /\ Len(Ext!FlattenSeq(s)) <= Len(Ext!FlattenSeq(t))
  <2>1. Len(s) = Len(t)
    BY <1>1
  <2> QED
    BY <2>1, <1>1, <1>3, FlattenLonger
<1> QED
  BY <1>1, <1>4

\* Where request i begins in the stream of the requests in S.
Start(S, i) == Len(PassedOf({j \in S : j < i}))

\* Requests do not overlap.
LEMMA StartFacts ==
    ASSUME ReplayInv, NEW S, NEW i \in 1..Len(reqs), i \in S
    PROVE  /\ Start(S, i) \in Nat /\ Len(Passed(i)) \in Nat
           /\ \A k \in 1..Len(reqs) : k > i => Start(S, i) + Len(Passed(i)) <= Start(S, k)
           /\ i = r => Len(PassedOf(S)) = Start(S, i) + Len(Passed(i))
<1> DEFINE A == {j \in S : j < i}
           a == PassedOf(A)
           b == Passed(i)
<1>1. a \in Seq(Tokens)
  <2>1. Ext!FlattenSeq(Pieces(A)) = a /\ Pieces(A) \in Seq(Seq(Tokens))
    BY PiecesFacts
  <2> DEFINE pieces == Pieces(A)
  <2>2. pieces \in Seq(Seq(Tokens))
    BY <2>1
  <2>3. Len(pieces) = Len(reqs) /\ Len(reqs) \in Nat
    BY PiecesFacts DEF ReplayInv, RequestsTyped
  <2> HIDE DEF pieces, a, A
  <2>4. PICK f : Joins(f, pieces, Tokens) /\ Ext!FlattenSeq(pieces) = f[Len(pieces)]
    BY <2>2, FlattenFacts
  <2>5. f[Len(pieces)] \in Seq(Tokens)
    BY <2>3, <2>4 DEF Joins
  <2> QED
    BY <2>1, <2>4, <2>5 DEF pieces
<1>2. b \in Seq(Tokens) /\ Len(reqs) \in Nat
  BY PassedFacts DEF ReplayInv, RequestsTyped
<1>3. Start(S, i) = Len(a)
  BY DEF Start
<1> HIDE DEF a, b
<1>4. Len(Join(a, b)) = Len(a) + Len(b) /\ Len(a) \in Nat /\ Len(b) \in Nat
  BY <1>1, <1>2, ConcatProperties, LenProperties DEF Join
<1>5. ASSUME NEW k \in 1..Len(reqs), k > i
      PROVE  Len(a) + Len(b) <= Start(S, k)
  <2> DEFINE B == {j \in S : j <= i}
             C == {j \in S : j < k}
  <2>1. PassedOf(B) = Join(a, b)
    <3>1. i \in B /\ \A j \in 1..Len(reqs) : j \in B /\ j > i => Passed(j) = <<>>
      BY <1>2
    <3>2. {j \in B : j < i} = A
      <4>1. ASSUME NEW j, j \in S, j < i PROVE j <= i
        BY <4>1
      <4> QED
        BY <4>1
    <3> HIDE DEF B, A
    <3>3. PassedOf(B) = Join(PassedOf({j \in B : j < i}), Passed(i))
      BY <3>1, PassedOfLast
    <3> QED
      BY <3>2, <3>3 DEF a, b
  <2>2. B \cap (1..Len(reqs)) \subseteq C
    BY <1>2, <1>5
  <2>3. PassedOf(B) = PassedOf(B \cap (1..Len(reqs)))
    <3>1. Pieces(B) = Pieces(B \cap (1..Len(reqs)))
      BY DEF Pieces
    <3>2. PassedOf(B) = Ext!FlattenSeq(Pieces(B))
      BY PiecesFacts
    <3>3. PassedOf(B \cap (1..Len(reqs))) = Ext!FlattenSeq(Pieces(B \cap (1..Len(reqs))))
      BY PiecesFacts
    <3> QED
      BY <3>1, <3>2, <3>3
  <2> DEFINE D == B \cap (1..Len(reqs))
  <2>4. D \subseteq C /\ PassedOf(D) = Join(a, b) /\ Start(S, k) = Len(PassedOf(C))
    BY <2>1, <2>2, <2>3 DEF Start
  <2> HIDE DEF D, C
  <2>5. Len(PassedOf(D)) <= Len(PassedOf(C))
    BY <2>4, PassedOfLonger
  <2> QED
    BY <1>4, <2>4, <2>5
<1>6. ASSUME i = r PROVE Len(PassedOf(S)) = Len(a) + Len(b)
  <2>1. \A j \in 1..Len(reqs) : j \in S /\ j > i => Passed(j) = <<>>
    BY <1>6, PassedFacts
  <2>2. PassedOf(S) = Join(PassedOf(A), Passed(i))
    BY <2>1, PassedOfLast
  <2> QED
    BY <1>4, <2>2 DEF a, b
<1> QED
  BY <1>3, <1>4, <1>5, <1>6 DEF b

-----------------------------------------------------------------------------
(* The keys of the dense key proposer.                                     *)

\* The windows of recent tokens a position of a request may be kept under: no
\* longer than the index takes, nor shorter than the context tail reaches.
Windows(i, n) ==
    LET least == Lesser(n, Lesser(DenseWindow, MaxOrder + 1))
    IN  {LastN(SubSeq(reqs[i].toks, 1, n), k) : k \in least..Lesser(n, DenseWindow)}

\* The window at a position of an outcome is one of the request there.
LEMMA WindowEnds ==
    ASSUME Drafting, NEW ev, Faithful(ev), NEW pos \in 1..ev.acc + 1, DenseWindow > 1
    PROVE  LET window == WindowAt(ev, Realized(ev), pos)
           IN  /\ window \in Windows(r, p + pos)
               /\ Len(window) < 2 <=> p + pos < 2
<1> DEFINE tail  == ev.tail
           new   == Realized(ev)
           W     == DenseWindow
           l     == Len(tail)
           a     == Lesser(l, W)
           end   == LastUpTo(tail, W)
           begin == SubSeq(new, 1, pos)
           cat   == end \o begin
           k     == Lesser(a + pos, W)
           window == LastUpTo(cat, W)
           n     == p + pos
           whole == SubSeq(req.toks, 1, n)
           least == Lesser(n, Lesser(W, MaxOrder + 1))
<1>1. /\ N \in Nat /\ p \in Nat /\ ev.acc \in Nat /\ p + ev.acc + 1 <= N
      /\ N = Len(req.toks) /\ req.toks \in Seq(Tokens)
  BY OutcomeTypes, RequestFacts
<1>2. /\ tail \in Seq(Tokens) /\ l = Lesser(p, MaxOrder) /\ l \in Nat
      /\ \A i \in 1..l : tail[i] = req.toks[p - l + i]
  <2>1. ev.tail = ContextTail
    BY DEF Faithful
  <2> QED
    BY <2>1, TailFacts, LenProperties
<1>3. /\ new \in Seq(Tokens) /\ Len(new) = ev.acc + 1
      /\ \A i \in 1..ev.acc + 1 : new[i] = req.toks[p + i]
  BY RealizedFacts
<1>4. W \in Nat /\ W > 1 /\ MaxOrder \in Nat \ {0}
  BY DenseConstants, ReplayConstants
<1> HIDE DEF l, W, N, new
<1>5. /\ pos \in Nat /\ pos <= Len(new) /\ 1 <= pos /\ n \in Nat /\ n <= Len(req.toks)
      /\ pos \in 1..ev.acc + 1
  BY <1>1, <1>3
<1>6. /\ a \in Nat /\ a <= l /\ a <= W /\ l - a \in Nat /\ l <= p
  <2>1. l \in Nat /\ l = Lesser(p, MaxOrder)
    BY <1>2
  <2>2. p \in Nat
    BY <1>1
  <2>3. l <= p
    BY <1>4, <2>1, <2>2 DEF Lesser
  <2>4. a = Lesser(l, W)
    BY DEF a
  <2> HIDE DEF a
  <2>5. a \in Nat /\ a <= l /\ a <= W
    BY <1>4, <2>1, <2>4 DEF Lesser
  <2> QED
    BY <2>1, <2>3, <2>5
<1>7. /\ end \in Seq(Tokens) /\ Len(end) = a
      /\ \A i \in 1..a : end[i] = req.toks[p - a + i]
  <2>1. /\ LastUpTo(tail, W) \in Seq(Tokens) /\ Len(LastUpTo(tail, W)) = Lesser(Len(tail), W)
        /\ \A i \in 1..Lesser(Len(tail), W) :
              LastUpTo(tail, W)[i] = tail[Len(tail) - Lesser(Len(tail), W) + i]
    <3>1. tail \in Seq(Tokens) /\ W \in Nat
      BY <1>2, <1>4
    <3> HIDE DEF tail
    <3> QED
      BY <3>1, LastUpToFacts
  <2>2. \A i \in 1..a : LastUpTo(tail, W)[i] = tail[l - a + i]
    BY <2>1 DEF l
  <2> HIDE DEF a
  <2>3. ASSUME NEW i \in 1..a PROVE tail[l - a + i] = req.toks[p - a + i]
    <3>1. l - a + i \in 1..l /\ p - l + (l - a + i) = p - a + i
      <4>1. l \in Nat /\ p \in Nat
        BY <1>1, <1>2
      <4> QED
        BY <1>6, <4>1
    <3> QED
      BY <1>2, <3>1
  <2> QED
    BY <2>1, <2>2, <2>3 DEF a, l
<1>8. /\ begin \in Seq(Tokens) /\ Len(begin) = pos
      /\ \A i \in 1..pos : begin[i] = req.toks[p + i]
  <2>1. /\ begin \in Seq(Tokens) /\ Len(begin) = pos
        /\ \A i \in 1..pos : begin[i] = new[i]
    BY <1>3, <1>5, BeginFacts
  <2>2. \A i \in 1..pos : i \in 1..ev.acc + 1
    BY <1>1, <1>5
  <2> QED
    BY <1>3, <2>1, <2>2
<1> HIDE DEF a, begin, end
<1>9. /\ cat \in Seq(Tokens) /\ Len(cat) = a + pos
      /\ \A i \in 1..a + pos : cat[i] = req.toks[p - a + i]
  <2>1. /\ cat \in Seq(Tokens) /\ Len(cat) = Len(end) + Len(begin)
        /\ \A i \in 1..Len(end) + Len(begin) :
              cat[i] = IF i <= Len(end) THEN end[i] ELSE begin[i - Len(end)]
    <3>1. end \in Seq(Tokens) /\ begin \in Seq(Tokens)
      BY <1>7, <1>8
    <3> QED
      BY <3>1, ConcatProperties
  <2> HIDE DEF cat
  <2>2. ASSUME NEW i \in 1..a + pos PROVE cat[i] = req.toks[p - a + i]
    <3>1. cat[i] = IF i <= a THEN end[i] ELSE begin[i - a]
      BY <1>7, <1>8, <2>1
    <3>2. CASE i <= a
      <4>1. i \in 1..a
        BY <1>6, <3>2
      <4> QED
        BY <1>7, <3>1, <3>2, <4>1
    <3>3. CASE ~ (i <= a)
      <4>1. i - a \in 1..pos /\ p + (i - a) = p - a + i
        <5>1. p \in Nat
          BY <1>1
        <5> QED
          BY <1>5, <1>6, <3>3, <5>1
      <4> QED
        BY <1>8, <3>1, <3>3, <4>1
    <3> QED
      BY <3>2, <3>3
  <2> QED
    BY <1>7, <1>8, <2>1, <2>2
<1> HIDE DEF cat
<1>10. /\ k \in Nat /\ k <= a + pos /\ k <= W /\ k <= n /\ k \in least..Lesser(n, W)
       /\ k < 2 <=> n < 2
  <2>1. a = Lesser(l, W) /\ l = Lesser(p, MaxOrder)
    BY <1>2 DEF a
  <2>2. p \in Nat
    BY <1>1
  <2> QED
    BY <1>4, <1>5, <1>6, <2>1, <2>2 DEF Lesser
<1>11. /\ window \in Seq(Tokens) /\ Len(window) = k
       /\ \A i \in 1..k : window[i] = req.toks[n - k + i]
  <2>1. /\ LastUpTo(cat, W) \in Seq(Tokens) /\ Len(LastUpTo(cat, W)) = Lesser(Len(cat), W)
        /\ \A i \in 1..Lesser(Len(cat), W) :
              LastUpTo(cat, W)[i] = cat[Len(cat) - Lesser(Len(cat), W) + i]
    BY <1>4, <1>9, LastUpToFacts
  <2>2. /\ window \in Seq(Tokens) /\ Len(window) = k
        /\ \A i \in 1..k : window[i] = cat[(a + pos) - k + i]
    BY <1>9, <2>1
  <2> HIDE DEF k, window
  <2>3. ASSUME NEW i \in 1..k PROVE cat[(a + pos) - k + i] = req.toks[n - k + i]
    <3>1. (a + pos) - k + i \in 1..a + pos /\ p - a + ((a + pos) - k + i) = n - k + i
      <4>1. p \in Nat
        BY <1>1
      <4> QED
        BY <1>5, <1>6, <1>10, <4>1
    <3> QED
      BY <1>9, <3>1
  <2> QED
    BY <2>2, <2>3
<1>12. window = LastN(whole, k)
  <2>1. /\ whole \in Seq(Tokens) /\ Len(whole) = n
        /\ \A i \in 1..n : whole[i] = req.toks[i]
    <3> HIDE DEF n
    <3> QED
      BY <1>1, <1>5, BeginFacts
  <2> HIDE DEF whole, window, k, n
  <2>2. /\ LastN(whole, k) \in Seq(Tokens) /\ Len(LastN(whole, k)) = k
        /\ \A i \in 1..k : LastN(whole, k)[i] = whole[Len(whole) - k + i]
    <3>1. k \in Nat /\ k <= Len(whole)
      BY <1>10, <2>1
    <3> QED
      BY <2>1, <3>1, LastNFacts
  <2>3. ASSUME NEW i \in 1..k PROVE window[i] = LastN(whole, k)[i]
    <3>1. n - k + i \in 1..n
      BY <1>5, <1>10
    <3> QED
      BY <1>11, <2>1, <2>2, <3>1
  <2> QED
    BY <1>11, <2>2, <2>3, SeqEqual
<1>13. WindowAt(ev, new, pos) = window
  BY DEF WindowAt, cat, end, begin, W
<1> HIDE DEF k, window
<1>14. window \in Windows(r, n)
  BY <1>10, <1>12 DEF Windows, req, W
<1>15. Len(window) < 2 <=> n < 2
  BY <1>10, <1>11
<1> QED
  BY <1>13, <1>14, <1>15 DEF new

-----------------------------------------------------------------------------
(* What the index holds of a repository.                                   *)

\* The offsets and keys of the requests in S, of which len was read, when they
\* begin at start: one for every position of a request but the first.
PlacedAt(offsets, keys, S, len, start) ==
    /\ \A id \in 1..Len(offsets) : \E i \in S : \E n \in 2..len[i] :
          offsets[id] = start[i] + n - 1 /\ keys[id] \in Windows(i, n)
    /\ \A i \in S : \A n \in 2..len[i] : \E id \in 1..Len(offsets) :
          offsets[id] = start[i] + n - 1

\* Where a request without a key begins is of no matter.
LEMMA PlacedElsewhere ==
    ASSUME NEW offsets, NEW keys, NEW S, NEW len, NEW start, NEW other, NEW more,
           PlacedAt(offsets, keys, S, len, start),
           \A i \in S : more[i] = len[i] /\ (other[i] = start[i] \/ 2..len[i] = {})
    PROVE  PlacedAt(offsets, keys, S, more, other)
<1>1. ASSUME NEW id \in 1..Len(offsets)
      PROVE  \E i \in S : \E n \in 2..more[i] :
                offsets[id] = other[i] + n - 1 /\ keys[id] \in Windows(i, n)
  <2>1. PICK i \in S : \E n \in 2..len[i] :
                offsets[id] = start[i] + n - 1 /\ keys[id] \in Windows(i, n)
    BY DEF PlacedAt
  <2>2. more[i] = len[i] /\ other[i] = start[i]
    BY <2>1
  <2> QED
    BY <2>1, <2>2
<1>2. ASSUME NEW i \in S, NEW n \in 2..more[i]
      PROVE  \E id \in 1..Len(offsets) : offsets[id] = other[i] + n - 1
  <2>1. n \in 2..len[i]
    BY <1>2
  <2>2. other[i] = start[i]
    BY <2>1
  <2> QED
    BY <2>1, <2>2 DEF PlacedAt
<1> QED
  BY <1>1, <1>2 DEF PlacedAt

\* One more position of the request was read, without a key.
LEMMA PlacedFirst ==
    ASSUME NEW offsets, NEW keys, NEW S, NEW start, S \subseteq 1..Len(reqs),
           PlacedAt(offsets, keys, S, ReadTo(0), start)
    PROVE  PlacedAt(offsets, keys, S, ReadTo(1), start)
<1>1. \A i \in S : 2..ReadTo(1)[i] = 2..ReadTo(0)[i]
  <2>1. 2..1 = 2..0
    OBVIOUS
  <2> QED
    BY <2>1 DEF ReadTo
<1> QED
  BY <1>1 DEF PlacedAt

\* One more position of the request was read, with its key.
LEMMA PlacedNext ==
    ASSUME NEW S, NEW start, S \subseteq 1..Len(reqs), r \in S,
           NEW offsets \in Seq(Nat), NEW keys \in Seq(Seq(Tokens)), Len(keys) = Len(offsets),
           NEW m \in Nat \ {0}, PlacedAt(offsets, keys, S, ReadTo(m), start),
           NEW at \in Nat, at = start[r] + (m + 1) - 1,
           NEW window \in Seq(Tokens), window \in Windows(r, m + 1)
    PROVE  PlacedAt(Append(offsets, at), Append(keys, window), S, ReadTo(m + 1), start)
<1> DEFINE T == Seq(Tokens)
           l == Len(offsets)
           newOffsets == Append(offsets, at)
           newKeys == Append(keys, window)
<1>1. /\ l \in Nat /\ Len(newOffsets) = l + 1
      /\ newOffsets[l + 1] = at /\ \A id \in 1..l : newOffsets[id] = offsets[id]
  BY LenProperties, AppendProperties
<1>2. newKeys[l + 1] = window /\ \A id \in 1..l : newKeys[id] = keys[id]
  <2>1. keys \in Seq(T) /\ window \in T /\ Len(keys) = l
    OBVIOUS
  <2> HIDE DEF T, l
  <2> QED
    BY <2>1, AppendProperties
<1>3. \A i \in S : /\ i # r => ReadTo(m + 1)[i] = ReadTo(m)[i]
                   /\ ReadTo(m + 1)[r] = m + 1 /\ ReadTo(m)[r] = m
  BY DEF ReadTo
<1>4. /\ m + 1 \in 2..m + 1 /\ \A n \in 2..m : n \in 2..m + 1
      /\ \A n \in 2..m + 1 : n = m + 1 \/ n \in 2..m
  OBVIOUS
<1>5. /\ \A id \in 1..l : id \in 1..l + 1
      /\ \A id \in 1..l + 1 : id = l + 1 \/ id \in 1..l
      /\ l + 1 \in 1..l + 1
  BY <1>1
<1> HIDE DEF newOffsets, newKeys, T
<1>6. ASSUME NEW id \in 1..Len(newOffsets)
      PROVE  \E i \in S : \E n \in 2..ReadTo(m + 1)[i] :
                newOffsets[id] = start[i] + n - 1 /\ newKeys[id] \in Windows(i, n)
  <2>1. CASE id = l + 1
    <3>1. r \in S /\ m + 1 \in 2..ReadTo(m + 1)[r]
      BY <1>3, <1>4
    <3>2. newOffsets[id] = start[r] + (m + 1) - 1 /\ newKeys[id] \in Windows(r, m + 1)
      BY <1>1, <1>2, <2>1
    <3> QED
      BY <3>1, <3>2
  <2>2. CASE id \in 1..l
    <3>1. PICK i \in S : \E n \in 2..ReadTo(m)[i] :
                offsets[id] = start[i] + n - 1 /\ keys[id] \in Windows(i, n)
      BY <2>2 DEF PlacedAt, l
    <3>2. PICK n \in 2..ReadTo(m)[i] :
                offsets[id] = start[i] + n - 1 /\ keys[id] \in Windows(i, n)
      BY <3>1
    <3>3. n \in 2..ReadTo(m + 1)[i]
      BY <1>3, <1>4, <3>2
    <3>4. newOffsets[id] = start[i] + n - 1 /\ newKeys[id] \in Windows(i, n)
      BY <1>1, <1>2, <2>2, <3>2
    <3> QED
      BY <3>3, <3>4
  <2>3. id = l + 1 \/ id \in 1..l
    BY <1>1, <1>5
  <2> QED
    BY <2>1, <2>2, <2>3
<1>7. ASSUME NEW i \in S, NEW n \in 2..ReadTo(m + 1)[i]
      PROVE  \E id \in 1..Len(newOffsets) : newOffsets[id] = start[i] + n - 1
  <2>1. CASE i = r /\ n = m + 1
    BY <1>1, <1>5, <2>1
  <2>2. CASE ~ (i = r /\ n = m + 1)
    <3>1. n \in 2..ReadTo(m)[i]
      BY <1>3, <1>4, <2>2
    <3>2. PICK id \in 1..l : offsets[id] = start[i] + n - 1
      BY <3>1 DEF PlacedAt, l
    <3> QED
      BY <1>1, <1>5, <3>2
  <2> QED
    BY <2>1, <2>2
<1>8. PlacedAt(newOffsets, newKeys, S, ReadTo(m + 1), start)
  BY <1>6, <1>7 DEF PlacedAt
<1> QED
  BY <1>8 DEF newOffsets, newKeys

\* The stream grows by what was realized.
LEMMA AbsorbStream ==
    ASSUME NEW idx, GoodIndex(idx), NEW ev, ev.tail \in Seq(Tokens),
           NEW realized \in Seq(Tokens), NEW f, Absorbs(f, idx, ev, realized)
    PROVE  f[Len(realized)].stream = Join(idx.stream, realized)
<1> DEFINE l == Len(realized)
           s == idx.stream
           T == {pos \in 0..l : f[pos].stream = Join(s, SubSeq(realized, 1, pos))}
<1>1. l \in Nat /\ s \in Seq(Tokens) /\ l <= Len(realized) /\ Len(realized) \in Nat
  BY LenProperties DEF GoodIndex, Indexes
<1>2. /\ f[0] = idx /\ \A pos \in 0..l : GoodIndex(f[pos])
      /\ \A pos \in 1..l : f[pos] = AbsorbAt(f[pos - 1], ev, realized, pos)
  BY DEF Absorbs
<1>3. 0 \in T
  <2>1. SubSeq(realized, 1, 0) = <<>>
    <3>1. Len(SubSeq(realized, 1, 0)) = 0 /\ SubSeq(realized, 1, 0) \in Seq(Tokens)
      BY <1>1, BeginFacts
    <3> QED
      BY <3>1, EmptySeq
  <2> HIDE DEF s, l
  <2>2. Join(s, <<>>) = s
    <3>1. s \in Seq(Tokens)
      BY <1>1
    <3> QED
      BY <3>1, JoinFacts
  <2> DEFINE e == SubSeq(realized, 1, 0)
  <2>3. f[0].stream = Join(s, e)
    <3>1. f[0].stream = s
      BY <1>2 DEF s
    <3>2. e = <<>>
      BY <2>1
    <3> HIDE DEF e
    <3> QED
      BY <2>2, <3>1, <3>2
  <2>4. 0 \in 0..l
    BY <1>1
  <2> HIDE DEF e
  <2>5. 0 \in {pos \in 0..l : f[pos].stream = Join(s, SubSeq(realized, 1, pos))}
    BY <2>3, <2>4, Zenon DEF e
  <2> QED
    BY <2>5
<1>4. ASSUME NEW pos \in 0..l - 1, pos \in T PROVE pos + 1 \in T
  <2>1. /\ pos + 1 \in 1..l /\ pos + 1 \in 0..l /\ (pos + 1) - 1 = pos /\ pos \in 0..l
        /\ pos \in Nat /\ pos <= Len(realized) /\ pos + 1 \in Nat /\ pos + 1 <= Len(realized)
    BY <1>1
  <2> DEFINE n == pos + 1
             tok == realized[n]
             a == SubSeq(realized, 1, pos)
             b == SubSeq(realized, 1, n)
  <2>2. f[n] = AbsorbAt(f[pos], ev, realized, n) /\ GoodIndex(f[pos])
    BY <1>2, <2>1
  <2>3. n \in 1..Len(realized)
    BY <2>1 DEF l
  <2>4. f[n].stream = Append(f[pos].stream, tok)
    <3> HIDE DEF n
    <3>1. AbsorbAt(f[pos], ev, realized, n).stream = Append(f[pos].stream, realized[n])
      BY <2>2, <2>3, AbsorbAtFacts, ZenonT(30)
    <3> QED
      BY <2>2, <3>1
  <2>5. f[pos].stream = Join(s, a)
    BY <1>4
  <2>6. tok \in Tokens /\ a \in Seq(Tokens)
    <3>1. tok \in Tokens
      BY <2>3, ElementOfSeq
    <3> QED
      BY <3>1, <2>1, BeginFacts
  <2>7. b = Append(a, tok)
    <3>1. /\ Len(a) = pos /\ \A i \in 1..pos : a[i] = realized[i]
      BY <2>1, BeginFacts
    <3>2. /\ b \in Seq(Tokens) /\ Len(b) = n /\ \A i \in 1..n : b[i] = realized[i]
      <4> HIDE DEF n
      <4>1. n \in Nat /\ n <= Len(realized)
        BY <2>1 DEF n
      <4> QED
        BY <4>1, BeginFacts
    <3> HIDE DEF a, b, tok
    <3> DEFINE c == Append(a, tok)
    <3>3. /\ c \in Seq(Tokens) /\ Len(c) = Len(a) + 1 /\ c[Len(a) + 1] = tok
          /\ \A i \in 1..Len(a) : c[i] = a[i]
      BY <2>6, AppendProperties
    <3> HIDE DEF c
    <3>4. ASSUME NEW i \in 1..n PROVE b[i] = c[i]
      <4>1. i \in 1..pos \/ i = pos + 1
        BY <2>1
      <4> QED
        BY <3>1, <3>2, <3>3, <4>1 DEF tok
    <3>5. Len(b) = Len(c)
      BY <3>1, <3>2, <3>3
    <3>6. b = c
      BY <3>2, <3>3, <3>4, <3>5, SeqEqual
    <3> QED
      BY <3>6 DEF c
  <2> HIDE DEF a, b, tok, s
  <2>8. Join(s, b) = Append(Join(s, a), tok)
    BY <1>1, <2>6, <2>7, ConcatAppend DEF Join
  <2>9. f[n].stream = Join(s, b)
    BY <2>4, <2>5, <2>8
  <2> QED
    BY <2>1, <2>9 DEF b, s, n
<1> HIDE DEF T
<1>5. 0..l \subseteq T
  BY <1>1, <1>3, <1>4, Induction
<1>6. l \in T
  <2>1. l \in 0..l
    BY <1>1
  <2> QED
    BY <1>5, <2>1
<1>7. SubSeq(realized, 1, l) = realized
  BY SubSeqFull
<1> QED
  BY <1>6, <1>7 DEF T, l, s

\* The requests of a repository.
Of(repo) == {i \in 1..Len(reqs) : RepoId(reqs[i].scope) = repo}

Starts(S) == [i \in 1..Len(reqs) |-> Start(S, i)]

KeysOf(idx) == Join(idx.keys, idx.buf)

\* The index of a repository holds what was replayed of its requests.
KeysSound ==
    kind = "dense" =>
        \A repo \in Repos :
            /\ index[repo].stream = PassedOf(Of(repo))
            /\ PlacedAt(index[repo].offsets, KeysOf(index[repo]), Of(repo), Lengths,
                        Starts(Of(repo)))

\* An outcome enters the index of its repository position by position.
LEMMA KeysAbsorbed ==
    ASSUME ReplayInv, Verify, kind = "dense", KeysSound, DenseWindow > 1
    PROVE  LET idx == index'[RepoId(req.scope)]
               S   == Of(RepoId(req.scope))
           IN  /\ idx.stream = Join(PassedOf(S), Realized(Harvested))
               /\ PlacedAt(idx.offsets, KeysOf(idx), S, ReadTo(p + Harvested.acc + 1), Starts(S))
<1> DEFINE ev    == Harvested
           new   == Realized(ev)
           acc   == ev.acc
           repo  == RepoId(req.scope)
           old   == index[repo]
           S     == Of(repo)
           start == Starts(S)
<1>1. step = "draft" /\ Learn(ev) /\ outcome = NoOutcome
  BY DEF Verify, Harvested, ReplayInv, OutcomeSound
<1>2. Drafting /\ Faithful(ev)
  BY <1>1, InvIsDrafting, HarvestedFacts
<1>3. r \in 1..Len(reqs) /\ r \in Nat /\ Len(reqs) \in Nat
  BY <1>2 DEF Drafting, RequestsTyped
<1>4. S \subseteq 1..Len(reqs) /\ r \in S
  BY <1>3 DEF Of, req
<1>5. start[r] \in Nat /\ Len(PassedOf(S)) = start[r] + p /\ p \in Nat
  <2>1. Len(Passed(r)) = p
    <3>1. ~ (r < r) /\ ~ (r > r)
      BY <1>3
    <3> QED
      BY <1>1, <1>3, <3>1, PassedFacts DEF Upto
  <2>2. p \in Nat
    BY <1>2, OutcomeTypes
  <2>3. start[r] = Start(S, r)
    BY <1>3 DEF Starts
  <2> HIDE DEF S, start
  <2>4. Start(S, r) \in Nat /\ Len(PassedOf(S)) = Start(S, r) + Len(Passed(r))
    BY <1>3, <1>4, StartFacts
  <2> QED
    BY <2>1, <2>2, <2>3, <2>4
<1> HIDE DEF ev
<1>6. /\ repo \in Repos /\ GoodIndex(old) /\ index \in [Repos -> Indexes]
      /\ index' = [index EXCEPT ![repo] = Absorb(@, ev, new)]
  <2>1. repo \in Repos
    BY <1>2, RequestFacts
  <2>2. index \in [Repos -> Indexes] /\ \A any \in Repos : GoodIndex(index[any])
    BY DEF ReplayInv, LearnedSound
  <2> QED
    BY <1>1, <2>1, <2>2 DEF Learn
<1>7. new \in Seq(Tokens) /\ Len(new) = acc + 1 /\ acc \in Nat
  BY <1>2, RealizedFacts, OutcomeTypes
<1>8. ev.tail \in Seq(Tokens)
  BY <1>2 DEF Faithful, Outcomes
<1>9. \A pos \in 1..acc + 1 : /\ WindowAt(ev, new, pos) \in Windows(r, p + pos)
                              /\ Len(WindowAt(ev, new, pos)) < 2 <=> p + pos < 2
  BY <1>2, WindowEnds
<1>10. /\ old.stream = PassedOf(S)
       /\ PlacedAt(old.offsets, KeysOf(old), S, Lengths, start)
  BY <1>6 DEF KeysSound
<1>11. index'[repo] = Absorb(old, ev, new)
  BY <1>6
<1> HIDE DEF new, acc, old, S, start, repo
<1>12. PICK f : Absorbs(f, old, ev, new) /\ Absorb(old, ev, new) = f[Len(new)]
  BY <1>6, <1>7, <1>8, AbsorbFacts
<1>13. /\ f[0] = old
       /\ \A pos \in 0..acc + 1 : GoodIndex(f[pos])
       /\ \A pos \in 1..acc + 1 : f[pos] = AbsorbAt(f[pos - 1], ev, new, pos)
  BY <1>7, <1>12 DEF Absorbs
<1>14. f[Len(new)].stream = Join(old.stream, new)
  BY <1>6, <1>7, <1>8, <1>12, AbsorbStream
<1> DEFINE T == {pos \in 0..acc + 1 :
                   /\ Len(f[pos].stream) = start[r] + p + pos
                   /\ PlacedAt(f[pos].offsets, KeysOf(f[pos]), S, ReadTo(p + pos), start)}
<1>15. 0 \in T
  <2>1. ReadTo(p) = Lengths
    <3>1. Len(Passed(r)) = p
      <4>1. ~ (r < r) /\ ~ (r > r)
        BY <1>3
      <4> QED
        BY <1>1, <1>3, <4>1, PassedFacts DEF Upto
    <3> QED
      BY <3>1 DEF ReadTo, Lengths
  <2>2. 0 \in 0..acc + 1 /\ p + 0 = p /\ start[r] + p + 0 = start[r] + p
    BY <1>5, <1>7
  <2>3. PlacedAt(f[0].offsets, KeysOf(f[0]), S, ReadTo(p), start)
    BY <1>10, <1>13, <2>1
  <2>4. Len(f[0].stream) = start[r] + p
    BY <1>5, <1>10, <1>13
  <2> QED
    BY <2>2, <2>3, <2>4
<1>16. ASSUME NEW pos \in 0..(acc + 1) - 1, pos \in T PROVE pos + 1 \in T
  <2> DEFINE n   == pos + 1
             m   == p + pos
             now == f[pos]
             window == WindowAt(ev, new, n)
             at  == Len(now.stream)
  <2>1. /\ n \in 1..acc + 1 /\ n \in 0..acc + 1 /\ n - 1 = pos /\ pos \in 0..acc + 1
        /\ m \in Nat /\ p + n = m + 1
    BY <1>5, <1>7
  <2>2. f[n] = AbsorbAt(now, ev, new, n) /\ GoodIndex(now) /\ GoodIndex(f[n])
    BY <1>13, <2>1
  <2>3. /\ at = start[r] + p + pos
        /\ PlacedAt(now.offsets, KeysOf(now), S, ReadTo(m), start)
    BY <1>16
  <2>4. window \in Windows(r, m + 1) /\ (Len(window) < 2 <=> m + 1 < 2)
    BY <1>9, <2>1
  <2>5. n \in 1..Len(new)
    BY <1>7, <2>1
  <2>6. window \in Seq(Tokens)
    <3> HIDE DEF n
    <3> QED
      BY <1>7, <1>8, <2>5, WindowIsSeq
  <2>7. /\ now.stream \in Seq(Tokens) /\ now.offsets \in Seq(Nat)
        /\ now.keys \in Seq(Seq(Tokens)) /\ now.buf \in Seq(Seq(Tokens))
        /\ Len(now.offsets) = Len(now.keys) + Len(now.buf)
    BY <2>2 DEF GoodIndex, Indexes
  <2> HIDE DEF n, m, now, window, at
  <2>8. /\ f[n].stream = Append(now.stream, new[n])
        /\ Len(window) < 2 => /\ f[n].offsets = now.offsets
                              /\ f[n].keys \o f[n].buf = now.keys \o now.buf
        /\ ~ (Len(window) < 2) =>
              /\ f[n].offsets = Append(now.offsets, at)
              /\ f[n].keys \o f[n].buf = Append(now.keys \o now.buf, window)
    <3> DEFINE next == AbsorbAt(now, ev, new, n)
    <3>1. /\ GoodIndex(now) /\ new \in Seq(Tokens) /\ n \in 1..Len(new)
          /\ ev.tail \in Seq(Tokens)
      BY <1>7, <1>8, <2>2, <2>5
    <3>2. /\ next.stream = Append(now.stream, new[n])
          /\ Len(window) < 2 => /\ next.offsets = now.offsets
                                /\ next.keys \o next.buf = now.keys \o now.buf
          /\ ~ (Len(window) < 2) =>
                /\ next.offsets = Append(now.offsets, Len(now.stream))
                /\ next.keys \o next.buf = Append(now.keys \o now.buf, window)
      BY <3>1, AbsorbAtFacts, ZenonT(30) DEF window
    <3>3. f[n] = next
      BY <2>2
    <3> HIDE DEF next
    <3> QED
      BY <3>2, <3>3 DEF at
  <2>9. Len(f[n].stream) = at + 1 /\ at \in Nat
    <3>1. new[n] \in Tokens
      BY <1>7, <2>5, ElementOfSeq
    <3> DEFINE a == now.stream
               e == new[n]
    <3>2. a \in Seq(Tokens) /\ e \in Tokens /\ at = Len(a) /\ f[n].stream = Append(a, e)
      BY <2>7, <2>8, <3>1 DEF at
    <3> HIDE DEF a, e
    <3> QED
      BY <3>2, AppendProperties, LenProperties
  <2>10. Len(f[n].stream) = start[r] + p + n
    <3>1. n = pos + 1 /\ pos \in Nat
      BY <2>1 DEF n
    <3> DEFINE x == start[r]
    <3>2. x \in Nat /\ p \in Nat /\ at = x + p + pos
      BY <1>5, <2>3
    <3> HIDE DEF x
    <3>3. at + 1 = x + p + n
      BY <3>1, <3>2
    <3> QED
      BY <2>9, <3>3 DEF x
  <2>11. PlacedAt(f[n].offsets, KeysOf(f[n]), S, ReadTo(m + 1), start)
    <3>1. CASE Len(window) < 2
      <4>1. m = 0
        BY <2>1, <2>4, <3>1
      <4>2. f[n].offsets = now.offsets /\ KeysOf(f[n]) = KeysOf(now)
        BY <2>8, <3>1 DEF KeysOf, Join
      <4>3. PlacedAt(now.offsets, KeysOf(now), S, ReadTo(0), start)
        BY <2>3, <4>1
      <4>4. PlacedAt(now.offsets, KeysOf(now), S, ReadTo(1), start)
        BY <1>4, <4>3, PlacedFirst
      <4>5. m + 1 = 1
        BY <4>1
      <4> QED
        BY <4>2, <4>4, <4>5
    <3>2. CASE ~ (Len(window) < 2)
      <4> DEFINE offsets == now.offsets
                 keys    == KeysOf(now)
      <4>1. m \in Nat \ {0}
        <5>1. ~ (m + 1 < 2)
          BY <2>4, <3>2
        <5> QED
          BY <2>1, <5>1
      <4>2. /\ offsets \in Seq(Nat) /\ keys \in Seq(Seq(Tokens)) /\ Len(keys) = Len(offsets)
        <5> DEFINE a == now.keys
                   b == now.buf
                   R == Seq(Tokens)
        <5>1. a \in Seq(R) /\ b \in Seq(R)
          BY <2>7
        <5>2. keys = a \o b
          BY DEF KeysOf, Join
        <5> HIDE DEF a, b, R, keys, offsets
        <5>3. keys \in Seq(R) /\ Len(keys) = Len(a) + Len(b)
          BY <5>1, <5>2, ConcatProperties
        <5> QED
          BY <2>7, <5>3 DEF a, b, R, offsets
      <4>3. at = start[r] + (m + 1) - 1
        <5>1. m = p + pos /\ pos \in Nat
          BY <2>1 DEF m
        <5> DEFINE x == start[r]
        <5>2. x \in Nat /\ p \in Nat /\ at = x + p + pos
          BY <1>5, <2>3
        <5> HIDE DEF x
        <5>3. at = x + (m + 1) - 1
          BY <5>1, <5>2
        <5> QED
          BY <5>3 DEF x
      <4>4. PlacedAt(offsets, keys, S, ReadTo(m), start)
        BY <2>3
      <4>5. f[n].offsets = Append(offsets, at) /\ KeysOf(f[n]) = Append(keys, window)
        BY <2>8, <3>2 DEF KeysOf, Join
      <4> HIDE DEF offsets, keys
      <4>6. PlacedAt(Append(offsets, at), Append(keys, window), S, ReadTo(m + 1), start)
        BY <1>4, <2>4, <2>6, <2>9, <4>1, <4>2, <4>3, <4>4, PlacedNext
      <4> QED
        BY <4>5, <4>6
    <3> QED
      BY <3>1, <3>2
  <2> QED
    BY <2>1, <2>10, <2>11 DEF n
<1> HIDE DEF T
<1>17. 0..acc + 1 \subseteq T
  <2>1. acc + 1 \in Nat
    BY <1>7
  <2> QED
    BY <1>15, <1>16, <2>1, Induction
<1>18. acc + 1 \in T /\ p + (acc + 1) = p + acc + 1
  <2>1. acc + 1 \in 0..acc + 1 /\ p + (acc + 1) = p + acc + 1
    BY <1>5, <1>7
  <2> QED
    BY <1>17, <2>1
<1>19. PlacedAt(f[acc + 1].offsets, KeysOf(f[acc + 1]), S, ReadTo(p + acc + 1), start)
  BY <1>18 DEF T
<1>20. index'[repo] = f[acc + 1] /\ f[acc + 1].stream = Join(PassedOf(S), new)
  BY <1>7, <1>10, <1>11, <1>12, <1>14
<1>21. /\ index'[repo].stream = Join(PassedOf(S), new)
       /\ PlacedAt(index'[repo].offsets, KeysOf(index'[repo]), S, ReadTo(p + acc + 1), start)
  BY <1>19, <1>20
<1> QED
  BY <1>21 DEF start, S, repo, new, acc, ev

\* A verification reads on to the end of its outcome.
LEMMA ReadSoFar ==
    ASSUME ReplayInv, Verify
    PROVE  Len(Join(Passed(r), Realized(Harvested))) = p + Harvested.acc + 1
<1> DEFINE new == Realized(Harvested)
           a   == Passed(r)
           acc == Harvested.acc
<1>1. step = "draft" /\ outcome = NoOutcome
  BY DEF Verify, ReplayInv, OutcomeSound
<1>2. Drafting /\ Faithful(Harvested)
  BY <1>1, InvIsDrafting, HarvestedFacts
<1>3. new \in Seq(Tokens) /\ Len(new) = acc + 1 /\ p \in Nat /\ acc \in Nat
  BY <1>2, RealizedFacts, OutcomeTypes
<1>4. a \in Seq(Tokens) /\ Len(a) = p
  <2>1. r \in 1..Len(reqs) /\ r \in Nat
    BY <1>2 DEF Drafting, RequestsTyped
  <2>2. ~ (r < r) /\ ~ (r > r)
    BY <2>1
  <2> QED
    BY <1>1, <2>1, <2>2, PassedFacts DEF Upto
<1> HIDE DEF a, new, acc
<1>5. Len(a \o new) = Len(a) + Len(new)
  BY <1>3, <1>4, ConcatProperties
<1>6. Len(a) + Len(new) = p + acc + 1
  BY <1>3, <1>4
<1> QED
  BY <1>5, <1>6 DEF Join, a, acc, new

\* Where a request begins does not change once it was opened.
LEMMA StartStays ==
    ASSUME ReplayInv, [Next]_vars, NEW CONSTANT S
    PROVE  \A i \in 1..Len(reqs) : i <= r \/ ~Verify => Start(S, i)' = Start(S, i)
<1> SUFFICES ASSUME NEW i \in 1..Len(reqs), i <= r \/ ~Verify
             PROVE  Start(S, i)' = Start(S, i)
  OBVIOUS
<1> DEFINE A == {j \in S : j < i}
<1>1. Start(S, i) = Len(PassedOf(A)) /\ Start(S, i)' = Len(PassedOf(A)')
  BY DEF Start
<1>2. PICK B : B = A
  OBVIOUS
<1>3. CASE Verify
  <2>1. i <= r /\ r \in Nat /\ i \in Nat
    <3>1. Len(reqs) \in Nat /\ r \in 0..Len(reqs)
      BY DEF ReplayInv, Where, RequestsTyped
    <3> QED
      BY <1>3, <3>1
  <2>2. r \notin A
    BY <2>1
  <2> HIDE DEF A
  <2>3. PassedOf(B)' = PassedOf(B)
    BY <1>2, <1>3, <2>2, PassedOfGrows
  <2> QED
    BY <1>1, <1>2, <2>3
<1>4. CASE ~Verify
  <2> HIDE DEF A
  <2>1. PassedOf(B)' = PassedOf(B)
    BY <1>4, PassedOfStays
  <2> QED
    BY <1>1, <1>2, <2>1
<1> QED
  BY <1>3, <1>4

\* A search does not change what the index holds.
LEMMA IndexStays ==
    ASSUME ReplayInv, [Next]_vars, ~Verify, NEW repo \in Repos
    PROVE  /\ index'[repo].stream = index[repo].stream
           /\ index'[repo].offsets = index[repo].offsets
           /\ KeysOf(index'[repo]) = KeysOf(index[repo])
<1>1. index \in [Repos -> Indexes] /\ GoodIndex(index[repo])
  BY DEF ReplayInv, LearnedSound
<1>2. CASE DraftOfDense
  <2> DEFINE any == RepoId(req.scope)
             idx == Flush(index[any])
  <2>1. index' = [index EXCEPT ![any] = idx] \/ index' = index
    BY <1>2 DEF DraftOfDense
  <2>2. /\ Flush(index[repo]).stream = index[repo].stream
        /\ Flush(index[repo]).offsets = index[repo].offsets
        /\ KeysOf(Flush(index[repo])) = KeysOf(index[repo])
    <3> DEFINE old == index[repo]
    <3>1. GoodIndex(old)
      BY <1>1
    <3> HIDE DEF old
    <3>2. /\ Flush(old).stream = old.stream /\ Flush(old).offsets = old.offsets
          /\ Flush(old).keys \o Flush(old).buf = old.keys \o old.buf
      BY <3>1, FlushFacts
    <3> QED
      BY <3>2 DEF old, KeysOf, Join
  <2>3. index'[repo] = index[repo] \/ index'[repo] = Flush(index[repo])
    BY <1>1, <2>1
  <2> QED
    BY <2>2, <2>3
<1>3. CASE ~DraftOfDense
  <2>1. index' = index
    BY <1>3 DEF Next, OpenRequest, Move, DraftOfLedger, DraftOfVanilla, DraftOfRecycle,
                Drafted, RaiseEpoch, EndBumps, EndReplay, vars, learned
  <2> QED
    BY <2>1
<1> QED
  BY <1>2, <1>3

\* The requests of a repository stay what they are.
LEMMA OfStays ==
    ASSUME reqs' = reqs, NEW repo, NEW CONSTANT S, S = Of(repo)
    PROVE  /\ Of(repo)' = S /\ PassedOf(Of(repo))' = PassedOf(S)'
           /\ \A i \in 1..Len(reqs) : Starts(Of(repo))'[i] = Start(S, i)'
<1>1. Of(repo)' = S
  BY DEF Of
<1>2. PassedOf(Of(repo))' = PassedOf(S)'
  <2>1. PassedOf(Of(repo))' = Ext!FlattenSeq([i \in 1..Len(reqs') |->
                                IF i \in Of(repo)' THEN Passed(i)' ELSE <<>>])
    BY DEF PassedOf
  <2>2. PassedOf(S)' = Ext!FlattenSeq([i \in 1..Len(reqs') |->
                                IF i \in S THEN Passed(i)' ELSE <<>>])
    BY DEF PassedOf
  <2> QED
    BY <1>1, <2>1, <2>2
<1> DEFINE StartIn(X, i) == Len(Ext!FlattenSeq([k \in 1..Len(reqs') |->
                              IF k \in {j \in X : j < i} THEN Passed(k)' ELSE <<>>]))
<1>3. Starts(Of(repo))' = [i \in 1..Len(reqs') |-> StartIn(Of(repo)', i)]
  BY DEF Starts, Start, PassedOf
<1>4. Starts(Of(repo))' = [i \in 1..Len(reqs) |-> StartIn(S, i)]
  BY <1>1, <1>3
<1>5. \A i \in 1..Len(reqs) : Start(S, i)' = StartIn(S, i)
  BY DEF Start, PassedOf
<1> HIDE DEF StartIn
<1> QED
  BY <1>1, <1>2, <1>4, <1>5

\* The index keeps up with what was replayed.
LEMMA KeysNext ==
    ASSUME ReplayInv, KeysSound, [Next]_vars, DenseWindow > 1
    PROVE  KeysSound'
<1>1. kind' = kind
  BY DEF Next, OpenRequest, Move, DraftOfLedger, DraftOfVanilla, DraftOfRecycle,
         DraftOfDense, Drafted, Verify, RaiseEpoch, EndBumps, EndReplay, vars, replayVars, runVars
<1> SUFFICES ASSUME kind = "dense", NEW repo \in Repos
             PROVE  /\ index'[repo].stream = PassedOf(Of(repo))'
                    /\ PlacedAt(index[repo].offsets, KeysOf(index[repo]), Of(repo), Lengths,
                                Starts(Of(repo)))'
  BY <1>1 DEF KeysSound
<1>2. reqs' = reqs
  <2>1. CASE Verify
    BY <2>1, PassedGrows
  <2>2. CASE ~Verify
    BY <2>2, PassedStays
  <2> QED
    BY <2>1, <2>2
<1>3. PICK S : S = Of(repo)
  OBVIOUS
<1> DEFINE offsets == index[repo].offsets
           keys    == KeysOf(index[repo])
           start   == Starts(S)
           other   == Starts(Of(repo))'
           more    == Lengths'
<1>4. /\ Of(repo)' = S /\ S \subseteq 1..Len(reqs)
      /\ PassedOf(Of(repo))' = PassedOf(S)'
      /\ \A i \in 1..Len(reqs) : other[i] = Start(S, i)'
  <2>1. S \subseteq 1..Len(reqs)
    BY <1>3 DEF Of
  <2> QED
    BY <1>2, <1>3, <2>1, OfStays
<1>5. index[repo].stream = PassedOf(S) /\ PlacedAt(offsets, keys, S, Lengths, start)
  BY <1>3 DEF KeysSound
<1>6. \A i \in 1..Len(reqs) : /\ start[i] = Start(S, i)
                              /\ Lengths[i] = Len(Passed(i)) /\ more[i] = Len(Passed(i)')
  BY <1>2 DEF Starts, Lengths
\* A primed place is a place of the primed state.
<1>7. ASSUME PlacedAt(index'[repo].offsets, KeysOf(index'[repo]), S, more, other)
      PROVE  PlacedAt(index[repo].offsets, KeysOf(index[repo]), Of(repo), Lengths,
                      Starts(Of(repo)))'
  <2>1. \A i, n : Windows(i, n)' = Windows(i, n)
    BY <1>2 DEF Windows
  <2> DEFINE newOffsets == index'[repo].offsets
             newKeys    == KeysOf(index[repo])'
  <2>2. newKeys = KeysOf(index'[repo])
    BY DEF KeysOf, Join
  <2>3. PlacedAt(index[repo].offsets, KeysOf(index[repo]), Of(repo), Lengths, Starts(Of(repo)))'
        <=> /\ \A id \in 1..Len(newOffsets) : \E i \in Of(repo)' : \E n \in 2..more[i] :
                  newOffsets[id] = other[i] + n - 1 /\ newKeys[id] \in Windows(i, n)'
            /\ \A i \in Of(repo)' : \A n \in 2..more[i] : \E id \in 1..Len(newOffsets) :
                  newOffsets[id] = other[i] + n - 1
    BY DEF PlacedAt
  <2> HIDE DEF newOffsets, newKeys, more, other
  <2>4. /\ \A id \in 1..Len(newOffsets) : \E i \in S : \E n \in 2..more[i] :
                  newOffsets[id] = other[i] + n - 1 /\ newKeys[id] \in Windows(i, n)
        /\ \A i \in S : \A n \in 2..more[i] : \E id \in 1..Len(newOffsets) :
                  newOffsets[id] = other[i] + n - 1
    BY <1>7, <2>2 DEF PlacedAt, newOffsets
  <2> QED
    BY <1>4, <2>1, <2>3, <2>4
<1> HIDE DEF offsets, keys, start, other, more
<1>8. CASE ~Verify
  <2>1. /\ index'[repo].stream = index[repo].stream /\ index'[repo].offsets = offsets
        /\ KeysOf(index'[repo]) = keys
    BY <1>8, IndexStays DEF offsets, keys
  <2>2. PassedOf(S)' = PassedOf(S)
    BY <1>8, PassedOfStays
  <2>3. \A i \in 1..Len(reqs) : Passed(i)' = Passed(i) /\ Start(S, i)' = Start(S, i)
    BY <1>8, PassedStays, StartStays
  <2>4. \A i \in S : more[i] = Lengths[i] /\ other[i] = start[i]
    BY <1>4, <1>6, <2>3
  <2>5. PlacedAt(offsets, keys, S, more, other)
    BY <1>5, <2>4, PlacedElsewhere
  <2> QED
    BY <1>4, <1>5, <1>7, <2>1, <2>2, <2>5
<1>9. CASE Verify
  <2> DEFINE new == Realized(Harvested)
             n   == p + Harvested.acc + 1
             here == RepoId(req.scope)
  <2>1. /\ r \in 1..Len(reqs) /\ r \in Nat
        /\ \A i \in 1..Len(reqs) :
              Passed(i)' = IF i = r THEN Join(Passed(i), new) ELSE Passed(i)
        /\ \A i \in 1..Len(reqs) : i > r => Passed(i) = <<>>
    <3>1. Len(reqs) \in Nat /\ r \in 0..Len(reqs)
      BY DEF ReplayInv, Where, RequestsTyped
    <3>2. r \in Nat
      BY <3>1
    <3> QED
      BY <1>9, <3>2, PassedGrows
  <2>2. Len(Join(Passed(r), new)) = n
    BY <1>9, ReadSoFar
  <2>3. \A i \in 1..Len(reqs) : i <= r => Start(S, i)' = Start(S, i)
    BY <1>9, StartStays
  <2>4. r \in S <=> repo = here
    BY <1>3, <2>1 DEF Of, req
  <2>5. PassedOf(S)' = IF r \in S THEN Join(PassedOf(S), new) ELSE PassedOf(S)
    BY <1>9, PassedOfGrows
  <2>6. \A i \in 1..Len(reqs) : /\ more[i] = ReadTo(n)[i]
                                /\ i # r => more[i] = Lengths[i]
                                /\ i > r => more[i] = 0
    <3>1. Len(<<>>) = 0
      OBVIOUS
    <3> HIDE DEF n, new
    <3>2. \A i \in 1..Len(reqs) : more[i] = IF i = r THEN n ELSE Len(Passed(i))
      BY <1>6, <2>1, <2>2
    <3> QED
      BY <1>6, <2>1, <3>1, <3>2 DEF ReadTo
  <2>7. \A i \in S : other[i] = start[i] \/ 2..more[i] = {}
    <3>1. ASSUME NEW i \in S PROVE other[i] = start[i] \/ 2..more[i] = {}
      <4>1. i \in 1..Len(reqs) /\ (i <= r \/ i > r)
        <5>1. Len(reqs) \in Nat
          BY DEF ReplayInv, RequestsTyped
        <5> QED
          BY <1>4, <2>1, <5>1
      <4>2. CASE i <= r
        BY <1>4, <1>6, <2>3, <4>1, <4>2
      <4>3. CASE i > r
        <5>1. more[i] = 0
          BY <2>6, <4>1, <4>3
        <5>2. 2..0 = {}
          OBVIOUS
        <5> QED
          BY <5>1, <5>2
      <4> QED
        BY <4>1, <4>2, <4>3
    <3> QED
      BY <3>1
  <2>8. CASE r \in S
    <3>1. /\ index'[here].stream = Join(PassedOf(Of(here)), new)
          /\ PlacedAt(index'[here].offsets, KeysOf(index'[here]), Of(here), ReadTo(n),
                      Starts(Of(here)))
      BY <1>9, KeysAbsorbed
    <3>2. /\ index'[repo].stream = Join(PassedOf(S), new)
          /\ PlacedAt(index'[repo].offsets, KeysOf(index'[repo]), S, ReadTo(n), start)
      BY <1>3, <2>4, <2>8, <3>1 DEF start
    <3> HIDE DEF n
    <3>3. \A i \in S : more[i] = ReadTo(n)[i] /\ (other[i] = start[i] \/ 2..ReadTo(n)[i] = {})
      BY <1>4, <2>6, <2>7
    <3>4. PlacedAt(index'[repo].offsets, KeysOf(index'[repo]), S, more, other)
      BY <3>2, <3>3, PlacedElsewhere
    <3> QED
      BY <1>4, <1>7, <2>5, <2>8, <3>2, <3>4
  <2>9. CASE r \notin S
    <3>1. index'[repo] = index[repo]
      <4>1. Learn(Harvested) /\ index \in [Repos -> Indexes]
        BY <1>9 DEF Verify, Harvested, ReplayInv, LearnedSound
      <4>2. repo # here
        BY <2>4, <2>9
      <4> QED
        BY <4>1, <4>2 DEF Learn
    <3>2. \A i \in S : more[i] = Lengths[i] /\ (other[i] = start[i] \/ 2..Lengths[i] = {})
      BY <1>4, <2>6, <2>7, <2>9
    <3>3. PlacedAt(offsets, keys, S, more, other)
      BY <1>5, <3>2, PlacedElsewhere
    <3> QED
      BY <1>4, <1>5, <1>7, <2>5, <2>9, <3>1, <3>3 DEF offsets, keys
  <2> QED
    BY <2>8, <2>9
<1> QED
  BY <1>8, <1>9

\* Of no requests nothing was replayed.
LEMMA NothingPassed ==
    ASSUME ReplayInv
    PROVE  PassedOf({}) = <<>>
<1> DEFINE pieces == Pieces({})
<1>1. /\ PassedOf({}) = Ext!FlattenSeq(pieces)
      /\ pieces \in Seq(Seq(Tokens)) /\ Len(pieces) = Len(reqs)
      /\ \A i \in 1..Len(reqs) : pieces[i] = IF i \in {} THEN Passed(i) ELSE <<>>
  BY PiecesFacts
<1> HIDE DEF pieces
<1>2. \A i \in 1..Len(reqs) : pieces[i] = <<>>
  BY <1>1
<1>3. PICK f : Joins(f, pieces, Tokens) /\ Ext!FlattenSeq(pieces) = f[Len(pieces)]
  BY <1>1, FlattenFacts
<1> DEFINE n == Len(pieces)
           T == {i \in 0..n : f[i] = <<>>}
<1>4. n \in Nat
  BY <1>1 DEF ReplayInv, RequestsTyped
<1>5. /\ f[0] = <<>> /\ \A i \in 0..n : f[i] \in Seq(Tokens)
      /\ \A i \in 1..n : f[i] = Join(f[i - 1], pieces[i])
  BY <1>3 DEF Joins
<1>6. 0 \in T
  BY <1>4, <1>5
<1>7. ASSUME NEW i \in 0..n - 1, i \in T PROVE i + 1 \in T
  <2>1. i + 1 \in 1..n /\ (i + 1) - 1 = i /\ i \in 0..n /\ i + 1 \in 0..n
    BY <1>4
  <2>2. f[i + 1] = Join(f[i], <<>>)
    <3>1. f[i + 1] = Join(f[i], pieces[i + 1])
      BY <1>5, <2>1
    <3>2. pieces[i + 1] = <<>>
      BY <1>1, <1>2, <2>1
    <3> QED
      BY <3>1, <3>2
  <2>3. f[i] \in Seq(Tokens) /\ f[i] = <<>>
    BY <1>5, <1>7, <2>1
  <2> QED
    BY <2>1, <2>2, <2>3, JoinFacts
<1> HIDE DEF T, n
<1>8. 0..n \subseteq T
  BY <1>4, <1>6, <1>7, Induction
<1>9. f[n] = <<>>
  <2>1. n \in 0..n
    BY <1>4
  <2> QED
    BY <1>8, <2>1 DEF T
<1> QED
  BY <1>1, <1>3, <1>9 DEF n

\* At the start nothing was replayed and no index holds a key.
LEMMA KeysInitially ==
    ASSUME Init
    PROVE  KeysSound
<1>1. ReplayInv /\ r = 0 /\ \A i \in 1..Len(reqs) : Passed(i) = <<>>
  <2>1. ReplayInv /\ r = 0
    BY InitSound DEF Init
  <2> QED
    BY <2>1, PassedFacts
<1> SUFFICES ASSUME NEW repo \in Repos
             PROVE  /\ index[repo].stream = PassedOf(Of(repo))
                    /\ PlacedAt(index[repo].offsets, KeysOf(index[repo]), Of(repo), Lengths,
                                Starts(Of(repo)))
  BY DEF KeysSound
<1>2. index[repo].stream = <<>> /\ index[repo].offsets = <<>>
  BY DEF Init, IndexInit
<1>3. PassedOf(Of(repo)) = <<>>
  <2>1. PassedOf(Of(repo)) = PassedOf({})
    <3>1. Pieces(Of(repo)) = [i \in 1..Len(reqs) |-> <<>>]
      BY <1>1 DEF Pieces
    <3>2. Pieces({}) = [i \in 1..Len(reqs) |-> <<>>]
      BY DEF Pieces
    <3>3. /\ PassedOf(Of(repo)) = Ext!FlattenSeq(Pieces(Of(repo)))
          /\ PassedOf({}) = Ext!FlattenSeq(Pieces({}))
      BY <1>1, PiecesFacts
    <3> QED
      BY <3>1, <3>2, <3>3
  <2>2. PassedOf({}) = <<>>
    BY <1>1, NothingPassed
  <2> QED
    BY <2>1, <2>2
<1>4. PlacedAt(<<>>, KeysOf(index[repo]), Of(repo), Lengths, Starts(Of(repo)))
  <2>1. \A i \in Of(repo) : 2..Lengths[i] = {}
    <3>1. \A i \in 1..Len(reqs) : Lengths[i] = 0
      BY <1>1 DEF Lengths
    <3>2. 2..0 = {} /\ Of(repo) \subseteq 1..Len(reqs)
      BY DEF Of
    <3> QED
      BY <3>1, <3>2
  <2>2. 1..Len(<<>>) = {}
    OBVIOUS
  <2> QED
    BY <2>1, <2>2 DEF PlacedAt
<1> QED
  BY <1>2, <1>3, <1>4

\* What the index holds is where it belongs.
LEMMA KeysPlaced ==
    ASSUME ReplayInv, KeysSound
    PROVE  KeysInPlace
<1> SUFFICES ASSUME kind = "dense", NEW repo \in Repos
    PROVE  LET idx   == index[repo]
               all   == idx.keys \o idx.buf
               mine  == {i \in 1..r : RepoId(reqs[i].scope) = repo}
               At(i, n) == Len(PassedOf({j \in mine : j < i})) + n - 1
               Ends(i, n) ==
                   LET least == Lesser(n, Lesser(DenseWindow, MaxOrder + 1))
                   IN  {LastN(SubSeq(Passed(i), 1, n), k) :
                          k \in least..Lesser(n, DenseWindow)}
           IN  /\ idx.stream = PassedOf(mine)
               /\ Len(all) = Len(idx.offsets)
               /\ {idx.offsets[id] : id \in DOMAIN idx.offsets}
                    = UNION {{At(i, n) : n \in 2..Len(Passed(i))} : i \in mine}
               /\ \A i \in mine : \A n \in 2..Len(Passed(i)) : \A id \in DOMAIN all :
                     idx.offsets[id] = At(i, n) => all[id] \in Ends(i, n)
  BY DEF KeysInPlace
<1> DEFINE idx   == index[repo]
           all   == idx.keys \o idx.buf
           offsets == idx.offsets
           mine  == {i \in 1..r : RepoId(reqs[i].scope) = repo}
           At(i, n) == Len(PassedOf({j \in mine : j < i})) + n - 1
           Ends(i, n) ==
               LET least == Lesser(n, Lesser(DenseWindow, MaxOrder + 1))
               IN  {LastN(SubSeq(Passed(i), 1, n), k) :
                      k \in least..Lesser(n, DenseWindow)}
           S     == Of(repo)
           start == Starts(S)
<1>1. /\ Len(reqs) \in Nat /\ r \in 0..Len(reqs) /\ r \in Nat
      /\ S \subseteq 1..Len(reqs)
      /\ \A i \in 1..Len(reqs) : i \in S <=> RepoId(reqs[i].scope) = repo
  <2>1. Len(reqs) \in Nat /\ r \in 0..Len(reqs)
    BY DEF ReplayInv, Where, RequestsTyped
  <2>2. r \in Nat
    BY <2>1
  <2> QED
    BY <2>1, <2>2 DEF Of
<1>2. \A i : i \in mine <=> i \in S /\ i <= r
  BY <1>1
<1>3. \A i \in 1..Len(reqs) :
         /\ Len(Passed(i)) \in Nat /\ (i > r => Passed(i) = <<>>)
         /\ Lengths[i] = Len(Passed(i)) /\ start[i] = Start(S, i)
         /\ \A n \in 1..Len(Passed(i)) : Passed(i)[n] = reqs[i].toks[n]
         /\ Passed(i) \in Seq(Tokens) /\ reqs[i].toks \in Seq(Tokens)
         /\ Len(Passed(i)) \in 0..Len(reqs[i].toks)
  <2>1. \A i \in 1..Len(reqs) :
           /\ Passed(i) \in Seq(Tokens) /\ reqs[i].toks \in Seq(Tokens)
           /\ (i > r => Passed(i) = <<>>)
           /\ \A n \in 1..Len(Passed(i)) : Passed(i)[n] = reqs[i].toks[n]
           /\ Len(Passed(i)) \in 0..Len(reqs[i].toks)
    BY PassedFacts
  <2>2. \A i \in 1..Len(reqs) : Len(Passed(i)) \in Nat
    BY <2>1, LenProperties
  <2> QED
    BY <2>1, <2>2 DEF Lengths, Starts
<1>4. /\ idx.stream = PassedOf(S) /\ PlacedAt(offsets, KeysOf(idx), S, Lengths, start)
      /\ KeysOf(idx) = all
  BY DEF KeysSound, KeysOf, Join
<1>5. /\ Len(all) = Len(offsets) /\ DOMAIN all = 1..Len(offsets)
      /\ DOMAIN offsets = 1..Len(offsets)
  <2> DEFINE a == idx.keys
             b == idx.buf
             T == Seq(Tokens)
  <2>1. /\ a \in Seq(T) /\ b \in Seq(T) /\ offsets \in Seq(Nat)
        /\ Len(offsets) = Len(a) + Len(b)
    <3>1. GoodIndex(idx)
      BY DEF ReplayInv, LearnedSound
    <3> QED
      BY <3>1 DEF GoodIndex, Indexes
  <2>2. all = a \o b
    OBVIOUS
  <2> HIDE DEF a, b, T, all, offsets
  <2>3. all \in Seq(T) /\ Len(all) = Len(a) + Len(b)
    BY <2>1, <2>2, ConcatProperties
  <2>4. DOMAIN all = 1..Len(all) /\ DOMAIN offsets = 1..Len(offsets)
    BY <2>1, <2>3, LenProperties
  <2> QED
    BY <2>1, <2>3, <2>4
\* Requests not opened yet are of no matter.
<1>6. PassedOf(mine) = PassedOf(S)
  <2> HIDE DEF mine, S
  <2>1. \A i \in 1..Len(reqs) : (IF i \in mine THEN Passed(i) ELSE <<>>)
                                  = (IF i \in S THEN Passed(i) ELSE <<>>)
    <3> SUFFICES ASSUME NEW i \in 1..Len(reqs), ~ (i \in mine <=> i \in S)
                 PROVE  Passed(i) = <<>>
      OBVIOUS
    <3>1. i > r
      BY <1>1, <1>2
    <3> QED
      BY <1>3, <3>1
  <2>2. Pieces(mine) = Pieces(S)
    BY <2>1 DEF Pieces
  <2>3. PassedOf(mine) = Ext!FlattenSeq(Pieces(mine)) /\ PassedOf(S) = Ext!FlattenSeq(Pieces(S))
    BY PiecesFacts
  <2> QED
    BY <2>2, <2>3
<1>7. \A i \in mine : \A n : At(i, n) = start[i] + n - 1
  <2> SUFFICES ASSUME NEW i \in mine PROVE Len(PassedOf({j \in mine : j < i})) = start[i]
    OBVIOUS
  <2> DEFINE A == {j \in mine : j < i}
             B == {j \in S : j < i}
  <2>1. i \in S /\ i <= r /\ i \in 1..Len(reqs)
    BY <1>1, <1>2
  <2>2. \A j : j \in A <=> j \in B
    <3>1. ASSUME NEW j \in S, j < i PROVE j <= r
      <4>1. j \in 1..Len(reqs) /\ i \in 1..Len(reqs)
        BY <1>1, <2>1
      <4> HIDE DEF S, mine, A, B
      <4>2. j \in Nat /\ i \in Nat
        BY <1>1, <4>1
      <4> QED
        BY <1>1, <2>1, <3>1, <4>2
    <3> HIDE DEF mine, S
    <3> QED
      BY <1>2, <3>1
  <2>3. start[i] = Len(PassedOf(B))
    BY <1>3, <2>1 DEF Start
  <2> HIDE DEF A, B
  <2>4. A = B
    BY <2>2
  <2> QED
    BY <2>3, <2>4 DEF A
\* Requests do not overlap.
<1>8. \A i \in S : /\ start[i] \in Nat
                   /\ \A k \in S : k > i => start[i] + Len(Passed(i)) <= start[k]
  <2> SUFFICES ASSUME NEW i \in S
               PROVE  /\ start[i] \in Nat
                      /\ \A k \in S : k > i => start[i] + Len(Passed(i)) <= start[k]
    OBVIOUS
  <2> HIDE DEF S, start
  <2>1. i \in 1..Len(reqs)
    BY <1>1
  <2>2. /\ Start(S, i) \in Nat
        /\ \A k \in 1..Len(reqs) : k > i => Start(S, i) + Len(Passed(i)) <= Start(S, k)
    BY <2>1, StartFacts
  <2> QED
    BY <1>1, <1>3, <2>1, <2>2
<1> HIDE DEF idx, mine, S, start, all, offsets, At
<1>9. ASSUME NEW i \in S, NEW n \in 2..Lengths[i] PROVE i \in mine /\ n \in 2..Len(Passed(i))
  <2>1. i \in 1..Len(reqs) /\ Lengths[i] = Len(Passed(i))
    BY <1>1, <1>3
  <2>2. ~ (i > r)
    <3> SUFFICES ASSUME i > r PROVE FALSE
      OBVIOUS
    <3>1. Len(Passed(i)) = 0
      <4>1. Passed(i) = <<>>
        BY <1>3, <2>1
      <4> QED
        BY <4>1
    <3>2. n \in 2..0
      BY <2>1, <3>1
    <3> QED
      BY <3>2
  <2>3. i <= r
    BY <1>1, <2>1, <2>2
  <2> QED
    BY <1>2, <2>1, <2>3
<1>10. ASSUME NEW i \in mine, NEW n \in 2..Len(Passed(i)) PROVE i \in S /\ n \in 2..Lengths[i]
  BY <1>1, <1>2, <1>3
<1>11. {offsets[id] : id \in DOMAIN offsets}
         = UNION {{At(i, n) : n \in 2..Len(Passed(i))} : i \in mine}
  <2> DEFINE X == {offsets[id] : id \in DOMAIN offsets}
             Y == UNION {{At(i, n) : n \in 2..Len(Passed(i))} : i \in mine}
  <2>1. ASSUME NEW x \in X PROVE x \in Y
    <3>1. PICK id \in 1..Len(offsets) : x = offsets[id]
      BY <1>5
    <3>2. PICK i \in S : \E n \in 2..Lengths[i] : offsets[id] = start[i] + n - 1
      BY <1>4 DEF PlacedAt
    <3>3. PICK n \in 2..Lengths[i] : offsets[id] = start[i] + n - 1
      BY <3>2
    <3>4. i \in mine /\ n \in 2..Len(Passed(i))
      BY <1>9
    <3>5. x = At(i, n)
      BY <1>7, <3>1, <3>3, <3>4
    <3> QED
      BY <3>4, <3>5
  <2>2. ASSUME NEW x \in Y PROVE x \in X
    <3>1. PICK i \in mine : x \in {At(i, n) : n \in 2..Len(Passed(i))}
      OBVIOUS
    <3>2. PICK n \in 2..Len(Passed(i)) : x = At(i, n)
      BY <3>1
    <3>3. i \in S /\ n \in 2..Lengths[i]
      BY <1>10
    <3>4. PICK id \in 1..Len(offsets) : offsets[id] = start[i] + n - 1
      BY <1>4, <3>3 DEF PlacedAt
    <3>5. x = offsets[id]
      BY <1>7, <3>2, <3>4
    <3> QED
      BY <1>5, <3>5
  <2> HIDE DEF X, Y
  <2>3. X = Y
    BY <2>1, <2>2
  <2> QED
    BY <2>3 DEF X, Y
<1>12. ASSUME NEW i \in mine, NEW n \in 2..Len(Passed(i)), NEW id \in DOMAIN all,
              offsets[id] = At(i, n)
       PROVE  all[id] \in Ends(i, n)
  <2>1. i \in S /\ n \in 2..Lengths[i] /\ i \in 1..Len(reqs)
    BY <1>1, <1>10
  <2>2. PICK k \in S : \E m \in 2..Lengths[k] :
             offsets[id] = start[k] + m - 1 /\ all[id] \in Windows(k, m)
    BY <1>4, <1>5 DEF PlacedAt
  <2>3. PICK m \in 2..Lengths[k] :
             offsets[id] = start[k] + m - 1 /\ all[id] \in Windows(k, m)
    BY <2>2
  <2>4. k \in mine /\ m \in 2..Len(Passed(k)) /\ k \in 1..Len(reqs)
    BY <1>1, <1>9
  <2>5. k = i /\ m = n
    <3> DEFINE a == start[i]
               b == start[k]
               c == Len(Passed(i))
               d == Len(Passed(k))
    <3>1. /\ a \in Nat /\ b \in Nat /\ c \in Nat /\ d \in Nat /\ n \in 2..c /\ m \in 2..d
          /\ k > i => a + c <= b
          /\ i > k => b + d <= a
      BY <1>3, <1>8, <2>1, <2>4
    <3>2. a + n - 1 = b + m - 1
      BY <1>7, <1>12, <2>3
    <3>3. i \in Nat /\ k \in Nat
      BY <1>1, <2>1, <2>4
    <3>4. k = i => a = b
      OBVIOUS
    <3> HIDE DEF a, b, c, d
    <3>5. k = i
      BY <3>1, <3>2, <3>3
    <3> QED
      BY <3>1, <3>2, <3>4, <3>5
  <2>6. SubSeq(reqs[i].toks, 1, n) = SubSeq(Passed(i), 1, n)
    <3> DEFINE s == reqs[i].toks
               t == Passed(i)
    <3>1. /\ s \in Seq(Tokens) /\ t \in Seq(Tokens) /\ Len(t) \in 0..Len(s)
          /\ \A j \in 1..Len(t) : t[j] = s[j]
      BY <1>3, <2>1
    <3>2. n \in 2..Len(t)
      OBVIOUS
    <3> HIDE DEF s, t
    <3>3. Len(s) \in Nat /\ Len(t) \in Nat
      BY <3>1, LenProperties
    <3>4. n \in Nat /\ n <= Len(t) /\ n <= Len(s)
      BY <3>1, <3>2, <3>3
    <3>5. /\ SubSeq(s, 1, n) \in Seq(Tokens) /\ Len(SubSeq(s, 1, n)) = n
          /\ \A j \in 1..n : SubSeq(s, 1, n)[j] = s[j]
      BY <3>1, <3>4, BeginFacts
    <3>6. /\ SubSeq(t, 1, n) \in Seq(Tokens) /\ Len(SubSeq(t, 1, n)) = n
          /\ \A j \in 1..n : SubSeq(t, 1, n)[j] = t[j]
      BY <3>1, <3>4, BeginFacts
    <3> DEFINE u == SubSeq(s, 1, n)
               v == SubSeq(t, 1, n)
    <3>7. \A j \in 1..n : u[j] = v[j]
      <4>1. \A j \in 1..n : j \in 1..Len(t)
        BY <3>3, <3>4
      <4> QED
        BY <3>1, <3>5, <3>6, <4>1
    <3>8. u \in Seq(Tokens) /\ v \in Seq(Tokens) /\ Len(u) = Len(v) /\ Len(u) = n
      BY <3>5, <3>6
    <3> HIDE DEF u, v
    <3>9. u = v
      BY <3>7, <3>8, SeqEqual
    <3> QED
      BY <3>9 DEF u, v, s, t
  <2>7. Windows(i, n) = Ends(i, n)
    BY <2>6 DEF Windows
  <2> QED
    BY <2>3, <2>5, <2>7
<1> HIDE DEF Ends
<1>13. /\ idx.stream = PassedOf(mine) /\ Len(all) = Len(offsets)
       /\ {offsets[id] : id \in DOMAIN offsets}
            = UNION {{At(i, n) : n \in 2..Len(Passed(i))} : i \in mine}
       /\ \A i \in mine : \A n \in 2..Len(Passed(i)) : \A id \in DOMAIN all :
             offsets[id] = At(i, n) => all[id] \in Ends(i, n)
  BY <1>4, <1>5, <1>6, <1>11, <1>12
<1> QED
  BY <1>13 DEF idx, all, offsets, mine, At, Ends

\* The dense key proposer keeps the requests of a repository and no other, and
\* a key for each position of theirs but the first, where it belongs.  A
\* window of one token is no key.
THEOREM KeysAreInPlace ==
    ASSUME DenseWindow > 1
    PROVE  Spec => []KeysInPlace
<1>1. Init => KeysSound
  BY KeysInitially
<1>2. ReplayInv /\ KeysSound /\ [Next]_vars => KeysSound'
  BY KeysNext
<1>3. ReplayInv /\ KeysSound => KeysInPlace
  BY KeysPlaced
<1> QED
  BY <1>1, <1>2, <1>3, ReplaySound, PTL DEF Spec
==============================================================================
