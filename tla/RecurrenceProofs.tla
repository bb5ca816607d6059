--------------------------- MODULE RecurrenceProofs ---------------------------
(***************************************************************************)
(* What Recurrence promises, proved for every set of sessions, every       *)
(* vocabulary, every order and every length of the streams.                *)
(*                                                                         *)
(* The proofs speak of places: place i is the end of the first i tokens of *)
(* a stream, and Common(s)[i][j] is the length of the longest word that    *)
(* ends at the places i and j both.  These numbers make a tree: what i and *)
(* k share is not less than what both share with j.  A state of the        *)
(* automaton is an inner node or a leaf of this tree, a word that cannot   *)
(* be made longer to the left the same way at all places where it ends;    *)
(* Built says so of an automaton, one part per field.  Append1 keeps it,   *)
(* by the two cases of the code: the longest suffix that recurs is the     *)
(* word of a state (PlainCase), or a state is split for it (SplitCase).    *)
(*                                                                         *)
(* The matching walk reads transitions before the token is appended, and   *)
(* its state may be one that a split has since given a shorter upper       *)
(* neighbour: Matched says what it stands for, and the length it has kept  *)
(* is that of the longest suffix which recurs.                             *)
(***************************************************************************)
EXTENDS Recurrence, SequenceTheorems, FiniteSetTheorems, WellFoundedInduction, TLAPS

-----------------------------------------------------------------------------
(* Numbers.                                                                *)

\* A set of numbers that is not empty has a least one.
LEMMA LeastNumber ==
    ASSUME NEW S \in SUBSET Nat, S # {}
    PROVE  \E m \in S : \A n \in S : m <= n
<1>1. \E m \in S : \A n \in S : ~ (<<n, m>> \in OpToRel(<, Nat))
  BY WFMin, NatLessThanWellFounded
<1>2. \A m, n \in Nat : n < m => <<n, m>> \in OpToRel(<, Nat)
  BY DEF OpToRel
<1>3. \A m, n \in Nat : ~ (n < m) => m <= n
  OBVIOUS
<1> QED
  BY <1>1, <1>2, <1>3

\* A bounded set of numbers that is not empty has a greatest one.
LEMMA GreatestNumber ==
    ASSUME NEW n \in Nat, NEW S \in SUBSET (0..n), S # {}
    PROVE  \E m \in S : \A k \in S : k <= m
<1> DEFINE R == {n - k : k \in S}
<1>1. R \in SUBSET Nat /\ R # {}
  OBVIOUS
<1> HIDE DEF R
<1>2. PICK m \in R : \A k \in R : m <= k
  BY <1>1, LeastNumber
<1>3. PICK l \in S : m = n - l
  BY DEF R
<1>4. \A k \in S : n - k \in R
  BY DEF R
<1>5. ASSUME NEW k \in S PROVE k <= l
  <2>1. m <= n - k
    BY <1>2, <1>4
  <2>2. k \in Int /\ l \in Int
    OBVIOUS
  <2> QED
    BY <1>3, <2>1, <2>2
<1> QED
  BY <1>5

\* Induction up to a number.
LEMMA Induction ==
    ASSUME NEW n \in Nat, NEW S, 0 \in S, \A i \in 0..n - 1 : i \in S => i + 1 \in S
    PROVE  0..n \subseteq S
<1> SUFFICES ASSUME (0..n) \ S # {} PROVE FALSE
  OBVIOUS
<1> DEFINE M == (0..n) \ S
<1>1. PICK m \in M : \A k \in M : m <= k
  <2>1. M \in SUBSET Nat /\ M # {}
    OBVIOUS
  <2> HIDE DEF M
  <2> QED
    BY <2>1, LeastNumber
<1>2. m # 0 /\ m - 1 \in 0..n - 1 /\ m - 1 \in 0..n
  OBVIOUS
<1>3. m - 1 \in S
  BY <1>1, <1>2
<1>4. (m - 1) + 1 \in S
  BY <1>2, <1>3
<1> QED
  BY <1>1, <1>4

-----------------------------------------------------------------------------
(* What two beginnings of a stream have in common.                         *)

\* The first i and the first j tokens end in the same l tokens.
Agree(s, i, j, l) == \A k \in 0..l - 1 : s[i - k] = s[j - k]

\* The most tokens in which they end both.
Shared(s, i, j) ==
    CHOOSE l \in 0..i : /\ l <= j /\ Agree(s, i, j, l)
                        /\ \A k \in 0..i : k <= j /\ Agree(s, i, j, k) => k <= l

Common(s) == [i \in 0..Len(s) |-> [j \in 0..Len(s) |-> Shared(s, i, j)]]

\* These numbers make a tree of which the beginnings are the leaves: what two
\* of them share with a third is the less of the two, or more.
Tree(C, s, n) ==
    /\ \A i, j \in 0..n : C[i][j] \in Nat /\ C[i][j] <= i /\ C[i][j] <= j /\ C[i][j] = C[j][i]
    /\ \A i \in 0..n : C[i][i] = i
    /\ \A i, j, k \in 0..n : C[i][j] <= C[i][k] \/ C[j][k] <= C[i][k]
    /\ \A i, j \in 0..n - 1 : /\ s[i + 1] = s[j + 1] => C[i + 1][j + 1] = C[i][j] + 1
                              /\ s[i + 1] # s[j + 1] => C[i + 1][j + 1] = 0

\* Two beginnings end in the same l tokens up to the number they share.
LEMMA SharedFacts ==
    ASSUME NEW s, NEW i \in Nat, NEW j \in Nat
    PROVE  /\ Shared(s, i, j) \in Nat /\ Shared(s, i, j) <= i /\ Shared(s, i, j) <= j
           /\ \A l \in Nat : l <= i /\ l <= j =>
                 (Agree(s, i, j, l) <=> l <= Shared(s, i, j))
<1> DEFINE A == {l \in 0..i : l <= j /\ Agree(s, i, j, l)}
           L == Shared(s, i, j)
<1>1. 0 \in A
  BY DEF Agree
<1>2. PICK m \in A : \A k \in A : k <= m
  <2>1. A \in SUBSET (0..i) /\ A # {}
    BY <1>1
  <2> HIDE DEF A
  <2> QED
    BY <2>1, GreatestNumber
<1>3. \E l \in 0..i : /\ l <= j /\ Agree(s, i, j, l)
                      /\ \A k \in 0..i : k <= j /\ Agree(s, i, j, k) => k <= l
  BY <1>2
<1>4. /\ L \in 0..i /\ L <= j /\ Agree(s, i, j, L)
      /\ \A k \in 0..i : k <= j /\ Agree(s, i, j, k) => k <= L
  BY <1>3 DEF Shared
<1> HIDE DEF A, L
<1>5. ASSUME NEW l \in Nat, l <= i, l <= j PROVE Agree(s, i, j, l) <=> l <= L
  <2>1. l \in 0..i
    BY <1>5
  <2>2. Agree(s, i, j, l) => l <= L
    BY <1>4, <1>5, <2>1
  <2>3. ASSUME l <= L PROVE Agree(s, i, j, l)
    <3>1. \A k \in 0..l - 1 : k \in 0..L - 1
      BY <1>4, <2>3
    <3> QED
      BY <1>4, <3>1 DEF Agree
  <2> QED
    BY <2>2, <2>3
<1>6. L \in Nat /\ L <= i /\ L <= j
  BY <1>4
<1> QED
  BY <1>5, <1>6 DEF L

\* What the beginnings of a stream share makes a tree.
LEMMA CommonTree ==
    ASSUME NEW V, NEW s \in Seq(V)
    PROVE  Tree(Common(s), s, Len(s))
<1> DEFINE n == Len(s)
           C == Common(s)
           D(i, j) == Shared(s, i, j)
<1>1. n \in Nat
  BY LenProperties
<1>2. \A i, j \in 0..n : C[i][j] = D(i, j)
  BY DEF Common
<1>3. \A i, j \in 0..n : /\ D(i, j) \in Nat /\ D(i, j) <= i /\ D(i, j) <= j
                         /\ \A l \in Nat : l <= i /\ l <= j =>
                               (Agree(s, i, j, l) <=> l <= D(i, j))
  <2>1. \A i \in 0..n : i \in Nat
    BY <1>1
  <2> HIDE DEF n
  <2> QED
    BY <2>1, SharedFacts
<1> HIDE DEF n, C, D
<1>4. ASSUME NEW i \in 0..n, NEW j \in 0..n PROVE D(i, j) <= D(j, i)
  <2>1. Agree(s, i, j, D(i, j))
    BY <1>3
  <2>2. Agree(s, j, i, D(i, j))
    BY <2>1 DEF Agree
  <2> QED
    BY <1>3, <2>2
<1>5. \A i, j \in 0..n : D(i, j) = D(j, i)
  <2> SUFFICES ASSUME NEW i \in 0..n, NEW j \in 0..n PROVE D(i, j) = D(j, i)
    OBVIOUS
  <2>1. D(i, j) <= D(j, i) /\ D(j, i) <= D(i, j) /\ D(i, j) \in Nat /\ D(j, i) \in Nat
    BY <1>3, <1>4
  <2> QED
    BY <2>1
<1>6. \A i \in 0..n : D(i, i) = i
  <2> SUFFICES ASSUME NEW i \in 0..n PROVE D(i, i) = i
    OBVIOUS
  <2>1. Agree(s, i, i, i) /\ i \in Nat
    BY <1>1 DEF Agree
  <2>2. i <= D(i, i) /\ D(i, i) <= i /\ D(i, i) \in Nat
    BY <1>3, <2>1
  <2> QED
    BY <2>1, <2>2
<1>7. \A i, j, k \in 0..n : D(i, j) <= D(i, k) \/ D(j, k) <= D(i, k)
  <2> SUFFICES ASSUME NEW i \in 0..n, NEW j \in 0..n, NEW k \in 0..n
               PROVE  D(i, j) <= D(i, k) \/ D(j, k) <= D(i, k)
    OBVIOUS
  <2> DEFINE l == IF D(i, j) <= D(j, k) THEN D(i, j) ELSE D(j, k)
  <2>1. l \in Nat /\ l <= D(i, j) /\ l <= D(j, k) /\ (l = D(i, j) \/ l = D(j, k))
    BY <1>3
  <2> HIDE DEF l
  <2>2. l <= i /\ l <= j /\ l <= k
    <3>1. D(i, j) \in Nat /\ D(i, j) <= i /\ D(i, j) <= j /\ D(j, k) \in Nat /\ D(j, k) <= k
      BY <1>3
    <3> QED
      BY <1>1, <2>1, <3>1
  <2>3. Agree(s, i, j, l) /\ Agree(s, j, k, l)
    BY <1>3, <2>1, <2>2
  <2>4. Agree(s, i, k, l)
    BY <2>3 DEF Agree
  <2>5. l <= D(i, k)
    BY <1>3, <2>1, <2>2, <2>4
  <2> QED
    BY <2>1, <2>5
<1>8. ASSUME NEW i \in 0..n - 1, NEW j \in 0..n - 1
      PROVE  /\ s[i + 1] = s[j + 1] => D(i + 1, j + 1) = D(i, j) + 1
             /\ s[i + 1] # s[j + 1] => D(i + 1, j + 1) = 0
  <2>1. /\ i \in 0..n /\ j \in 0..n /\ i + 1 \in 0..n /\ j + 1 \in 0..n
        /\ i \in Nat /\ j \in Nat
    BY <1>1
  <2>2. ASSUME s[i + 1] # s[j + 1] PROVE D(i + 1, j + 1) = 0
    <3>1. ~ Agree(s, i + 1, j + 1, 1)
      <4>1. 0 \in 0..1 - 1 /\ i + 1 - 0 = i + 1 /\ j + 1 - 0 = j + 1
        BY <2>1
      <4> QED
        BY <2>2, <4>1 DEF Agree
    <3>2. ~ (1 <= D(i + 1, j + 1))
      BY <1>3, <2>1, <3>1
    <3>3. D(i + 1, j + 1) \in Nat
      BY <1>3, <2>1
    <3> QED
      BY <3>2, <3>3
  <2>3. ASSUME s[i + 1] = s[j + 1] PROVE D(i + 1, j + 1) = D(i, j) + 1
    <3>1. ASSUME NEW l \in Nat
          PROVE  Agree(s, i + 1, j + 1, l + 1) <=> Agree(s, i, j, l)
      <4>1. ASSUME Agree(s, i + 1, j + 1, l + 1), NEW k \in 0..l - 1
            PROVE  s[i - k] = s[j - k]
        <5> DEFINE h == k + 1
        <5>1. h \in 0..(l + 1) - 1 /\ i + 1 - h = i - k /\ j + 1 - h = j - k
          BY <2>1
        <5> HIDE DEF h
        <5>2. s[i + 1 - h] = s[j + 1 - h]
          BY <4>1, <5>1 DEF Agree
        <5> QED
          BY <5>1, <5>2
      <4>2. ASSUME Agree(s, i, j, l), NEW k \in 0..(l + 1) - 1
            PROVE  s[i + 1 - k] = s[j + 1 - k]
        <5>1. CASE k = 0
          <6>1. i + 1 - k = i + 1 /\ j + 1 - k = j + 1
            BY <2>1, <5>1
          <6> QED
            BY <2>3, <6>1
        <5>2. CASE k # 0
          <6>1. k - 1 \in 0..l - 1 /\ i - (k - 1) = i + 1 - k /\ j - (k - 1) = j + 1 - k
            BY <2>1, <5>2
          <6>2. s[i - (k - 1)] = s[j - (k - 1)]
            BY <4>2, <6>1 DEF Agree
          <6> QED
            BY <6>1, <6>2
        <5> QED
          BY <5>1, <5>2
      <4> QED
        BY <4>1, <4>2 DEF Agree
    <3>2. /\ D(i, j) \in Nat /\ D(i, j) <= i /\ D(i, j) <= j
          /\ D(i + 1, j + 1) \in Nat /\ D(i + 1, j + 1) <= i + 1 /\ D(i + 1, j + 1) <= j + 1
      BY <1>3, <2>1
    <3>3. D(i, j) + 1 <= D(i + 1, j + 1)
      <4>1. Agree(s, i, j, D(i, j))
        BY <1>3, <2>1, <3>2
      <4>2. Agree(s, i + 1, j + 1, D(i, j) + 1)
        BY <3>1, <3>2, <4>1
      <4>3. D(i, j) + 1 \in Nat /\ D(i, j) + 1 <= i + 1 /\ D(i, j) + 1 <= j + 1
        BY <2>1, <3>2
      <4> QED
        BY <1>3, <2>1, <4>2, <4>3
    <3>4. D(i + 1, j + 1) <= D(i, j) + 1
      <4> DEFINE d == D(i + 1, j + 1)
      <4>1. Agree(s, i + 1, j + 1, d)
        BY <1>3, <2>1, <3>2
      <4>2. d \in Nat /\ d <= i + 1 /\ d <= j + 1
        BY <3>2
      <4> HIDE DEF d
      <4>3. CASE d = 0
        BY <3>2, <4>3 DEF d
      <4>4. CASE d # 0
        <5>1. d - 1 \in Nat /\ (d - 1) + 1 = d /\ d - 1 <= i /\ d - 1 <= j
          BY <2>1, <4>2, <4>4
        <5>2. Agree(s, i, j, d - 1)
          BY <3>1, <4>1, <5>1
        <5>3. d - 1 <= D(i, j)
          BY <1>3, <2>1, <5>1, <5>2
        <5>4. d <= D(i, j) + 1
          BY <3>2, <4>2, <5>3
        <5> QED
          BY <5>4 DEF d
      <4> QED
        BY <4>3, <4>4
    <3> QED
      BY <3>2, <3>3, <3>4
  <2> QED
    BY <2>2, <2>3
<1>9. \A i, j \in 0..n : C[i][j] \in Nat /\ C[i][j] <= i /\ C[i][j] <= j /\ C[i][j] = C[j][i]
  BY <1>2, <1>3, <1>5
<1>10. \A i, j, k \in 0..n : C[i][j] <= C[i][k] \/ C[j][k] <= C[i][k]
  BY <1>2, <1>7
<1>11. ASSUME NEW i \in 0..n - 1, NEW j \in 0..n - 1
       PROVE  /\ s[i + 1] = s[j + 1] => C[i + 1][j + 1] = C[i][j] + 1
              /\ s[i + 1] # s[j + 1] => C[i + 1][j + 1] = 0
  <2>1. i \in 0..n /\ j \in 0..n /\ i + 1 \in 0..n /\ j + 1 \in 0..n
    BY <1>1
  <2>2. C[i + 1][j + 1] = D(i + 1, j + 1) /\ C[i][j] = D(i, j)
    BY <1>2, <2>1
  <2> QED
    BY <1>8, <2>2
<1>12. \A i \in 0..n : C[i][i] = i
  BY <1>2, <1>6
<1>13. Tree(C, s, n)
  BY <1>9, <1>10, <1>11, <1>12 DEF Tree
<1> QED
  BY <1>13 DEF C, n

-----------------------------------------------------------------------------
(* An automaton and the stream it was built of.                            *)

\* The longest word of state x, which ends at e[x], ends at i as well.
On(a, e, C, x, i) == a.length[x] <= C[e[x]][i]

\* The states are numbered without gaps; their words fit into the stream.
Typed(a, e, n) ==
    /\ \E k \in Nat \ {0} : States(a) = 0..k - 1
    /\ e \in [States(a) -> 0..n]
    /\ a.length \in [States(a) -> Nat]
    /\ a.link \in [States(a) -> States(a) \cup {NoState}]
    /\ DOMAIN a.next = States(a)
    /\ \A x \in States(a) : a.next[x] \in [DOMAIN a.next[x] -> States(a)]
    /\ a.cnt \in [States(a) -> Nat]
    /\ a.last \in States(a)
    /\ \A x \in States(a) : a.length[x] <= e[x]

\* The root is the state of the empty word, and its only one.
Rooted(a) ==
    /\ a.length[0] = 0 /\ a.link[0] = NoState
    /\ \A x \in States(a) : a.length[x] = 0 => x = 0

\* No word is the longest one of two states.
Apart(a, e, C) ==
    \A x, y \in States(a) : a.length[x] = a.length[y] /\ On(a, e, C, x, e[y]) => x = y

\* A longest word cannot be made longer at all places where it ends,
Branching(a, e, C, n) ==
    \A x \in States(a) : \E i, j \in 0..n : On(a, e, C, x, i) /\ C[i][j] = a.length[x]

\* and every such word has a state.
Complete(a, e, C, n) ==
    \A i, j \in 0..n : \E x \in States(a) : a.length[x] = C[i][j] /\ On(a, e, C, x, i)

\* A link leads to the longest suffix that is the longest word of a state.
LinkOf(a, e, C, x, y) ==
    /\ y \in States(a) /\ a.length[y] < a.length[x] /\ On(a, e, C, y, e[x])
    /\ \A u \in States(a) :
          a.length[u] < a.length[x] /\ On(a, e, C, u, e[x]) => a.length[u] <= a.length[y]

Linked(a, e, C) == \A x \in States(a) \ {0} : LinkOf(a, e, C, x, a.link[x])

\* A transition from x over the token after position j leads to the state of
\* the shortest longest word that ends there and is longer than that of x.
StepTo(a, e, C, x, j, y) ==
    /\ y \in States(a) /\ On(a, e, C, y, j + 1) /\ a.length[x] < a.length[y]
    /\ \A u \in States(a) :
          On(a, e, C, u, j + 1) /\ a.length[x] < a.length[u] => a.length[y] <= a.length[u]

\* Every token that follows at a place of x has its transition, and no other.
Moving(a, e, C, s, n) ==
    \A x \in States(a) :
        /\ \A j \in 0..n - 1 : On(a, e, C, x, j) =>
              /\ s[j + 1] \in DOMAIN a.next[x]
              /\ StepTo(a, e, C, x, j, a.next[x][s[j + 1]])
        /\ \A tok \in DOMAIN a.next[x] :
              \E j \in 0..n - 1 : On(a, e, C, x, j) /\ s[j + 1] = tok

\* The last state is that of the whole stream.
AtEnd(a, e, n) == a.length[a.last] = n /\ e[a.last] = n

\* The states whose longest word is a beginning of the stream are marked.
Marked(a, e, C) ==
    \A x \in States(a) :
        a.cnt[x] = IF 0 < a.length[x] /\ On(a, e, C, x, a.length[x]) THEN 1 ELSE 0

\* The automaton of the first n tokens of a stream.
Built(a, e, C, s, n) ==
    /\ Typed(a, e, n) /\ Rooted(a) /\ Apart(a, e, C) /\ Branching(a, e, C, n)
    /\ Complete(a, e, C, n) /\ Linked(a, e, C) /\ Moving(a, e, C, s, n)
    /\ AtEnd(a, e, n) /\ Marked(a, e, C)

\* Where the word of a state ends, by what the places share.
LEMMA OnFacts ==
    ASSUME NEW a, NEW e, NEW C, NEW s, NEW n \in Nat, NEW m \in Nat, n <= m,
           Typed(a, e, n), Tree(C, s, m)
    PROVE  /\ \A x \in States(a) : On(a, e, C, x, e[x])
           /\ \A x \in States(a) : \A i, j \in 0..m :
                 On(a, e, C, x, i) /\ On(a, e, C, x, j) => a.length[x] <= C[i][j]
           /\ \A x \in States(a) : \A i, j \in 0..m :
                 On(a, e, C, x, i) /\ a.length[x] <= C[i][j] => On(a, e, C, x, j)
           /\ \A x \in States(a) : \A i \in 0..m : On(a, e, C, x, i) => a.length[x] <= i
           /\ Apart(a, e, C) =>
                 \A x, y \in States(a) : \A i \in 0..m :
                    On(a, e, C, x, i) /\ On(a, e, C, y, i) /\ a.length[x] = a.length[y] => x = y
<1> DEFINE l == a.length
           S == States(a)
<1>1. /\ \A x \in S : l[x] \in Nat /\ e[x] \in 0..m /\ l[x] <= e[x]
      /\ 0..n \subseteq 0..m
  BY DEF Typed
<1>2. /\ \A i, j \in 0..m : C[i][j] \in Nat /\ C[i][j] <= i /\ C[i][j] <= j /\ C[i][j] = C[j][i]
      /\ \A i \in 0..m : C[i][i] = i
      /\ \A i, j, k \in 0..m : C[i][j] <= C[i][k] \/ C[j][k] <= C[i][k]
  BY DEF Tree
<1>3. \A x, i : On(a, e, C, x, i) <=> l[x] <= C[e[x]][i]
  BY DEF On
<1> HIDE DEF l, S
<1>4. \A x \in S : On(a, e, C, x, e[x])
  BY <1>1, <1>2, <1>3
<1>5. ASSUME NEW x \in S, NEW i \in 0..m, NEW j \in 0..m, On(a, e, C, x, i), On(a, e, C, x, j)
      PROVE  l[x] <= C[i][j]
  <2>1. e[x] \in 0..m /\ l[x] \in Nat /\ l[x] <= C[e[x]][i] /\ l[x] <= C[e[x]][j]
    BY <1>1, <1>3, <1>5
  <2>2. C[i][e[x]] <= C[i][j] \/ C[e[x]][j] <= C[i][j]
    BY <1>2, <2>1
  <2>3. C[i][e[x]] = C[e[x]][i] /\ C[i][j] \in Nat /\ C[e[x]][i] \in Nat /\ C[e[x]][j] \in Nat
    BY <1>2, <2>1
  <2> QED
    BY <2>1, <2>2, <2>3
<1>6. ASSUME NEW x \in S, NEW i \in 0..m, NEW j \in 0..m, On(a, e, C, x, i), l[x] <= C[i][j]
      PROVE  On(a, e, C, x, j)
  <2>1. e[x] \in 0..m /\ l[x] \in Nat /\ l[x] <= C[e[x]][i]
    BY <1>1, <1>3, <1>6
  <2>2. C[e[x]][i] <= C[e[x]][j] \/ C[i][j] <= C[e[x]][j]
    BY <1>2, <2>1
  <2>3. C[e[x]][i] \in Nat /\ C[i][j] \in Nat /\ C[e[x]][j] \in Nat
    BY <1>2, <2>1
  <2>4. l[x] <= C[e[x]][j]
    BY <1>6, <2>1, <2>2, <2>3
  <2> QED
    BY <1>3, <2>4
<1>7. ASSUME NEW x \in S, NEW i \in 0..m, On(a, e, C, x, i) PROVE l[x] <= i
  <2>1. e[x] \in 0..m /\ l[x] \in Nat /\ l[x] <= C[e[x]][i]
    BY <1>1, <1>3, <1>7
  <2>2. C[e[x]][i] \in Nat /\ C[e[x]][i] <= i
    BY <1>2, <2>1
  <2> QED
    BY <2>1, <2>2
<1>8. ASSUME Apart(a, e, C), NEW x \in S, NEW y \in S, NEW i \in 0..m,
             On(a, e, C, x, i), On(a, e, C, y, i), l[x] = l[y]
      PROVE  x = y
  <2>1. l[y] <= C[i][e[y]] /\ e[y] \in 0..m
    BY <1>1, <1>4, <1>5, <1>8
  <2>2. On(a, e, C, x, e[y])
    BY <1>6, <1>8, <2>1
  <2> QED
    BY <1>8, <2>2 DEF Apart, l, S
<1> QED
  BY <1>4, <1>5, <1>6, <1>7, <1>8 DEF l, S

\* A climb visits the states of the suffixes of a word.
LEMMA ClimbFacts ==
    ASSUME NEW a, NEW e, NEW C, NEW s, NEW n \in Nat, NEW m \in Nat, n <= m,
           Typed(a, e, n), Tree(C, s, m), Rooted(a), Apart(a, e, C), Linked(a, e, C)
    PROVE  /\ \A x \in States(a) :
                 Climb(a, x) = {u \in States(a) : a.length[u] <= a.length[x] /\ On(a, e, C, u, e[x])}
           /\ \A x \in States(a) \ {0} :
                 a.link[x] \in States(a) /\ Climb(a, x) = {x} \cup Climb(a, a.link[x])
           /\ Climb(a, 0) = {0}
<1> DEFINE l == a.length
           S == States(a)
           O(x, i) == On(a, e, C, x, i)
           Up(x) == {u \in S : l[u] <= l[x] /\ O(u, e[x])}
           Path(f) == [x \in S \cup {NoState} |->
                         IF x = NoState THEN {} ELSE {x} \cup f[a.link[x]]]
           path == CHOOSE f : f = Path(f)
           g == [x \in S \cup {NoState} |-> IF x = NoState THEN {} ELSE Up(x)]
<1>1. /\ \A x \in S : l[x] \in Nat /\ e[x] \in 0..m /\ l[x] <= e[x] /\ e[x] \in 0..n
      /\ 0 \in S /\ NoState \notin S /\ \A x \in S : a.link[x] \in S \cup {NoState}
  <2>1. 0 \in S /\ NoState \notin S
    <3>1. PICK k \in Nat \ {0} : S = 0..k - 1
      BY DEF Typed
    <3> HIDE DEF S
    <3> QED
      BY <3>1 DEF NoState
  <2>2. \A x \in S : l[x] \in Nat /\ e[x] \in 0..n /\ l[x] <= e[x]
    BY DEF Typed
  <2>3. \A x \in S : a.link[x] \in S \cup {NoState}
    BY DEF Typed
  <2> HIDE DEF S, l
  <2> QED
    BY <2>1, <2>2, <2>3
<1>2. /\ \A x \in S : O(x, e[x])
      /\ \A x \in S : \A i, j \in 0..m : O(x, i) /\ O(x, j) => l[x] <= C[i][j]
      /\ \A x \in S : \A i, j \in 0..m : O(x, i) /\ l[x] <= C[i][j] => O(x, j)
      /\ \A x, y \in S : \A i \in 0..m : O(x, i) /\ O(y, i) /\ l[x] = l[y] => x = y
  BY OnFacts
<1>3. l[0] = 0 /\ a.link[0] = NoState /\ \A x \in S : l[x] = 0 => x = 0
  BY DEF Rooted
<1>4. \A x \in S \ {0} :
        LET y == a.link[x]
        IN  /\ y \in S /\ l[y] < l[x] /\ O(y, e[x])
            /\ \A u \in S : l[u] < l[x] /\ O(u, e[x]) => l[u] <= l[y]
  BY DEF Linked, LinkOf
<1>5. \A x \in S : Climb(a, x) = path[x]
  BY DEF Climb
<1>6. \A i, j \in 0..m : C[i][j] \in Nat /\ C[i][j] = C[j][i]
  BY DEF Tree
<1> HIDE DEF l, S, O
<1>7. Up(0) = {0}
  BY <1>1, <1>2, <1>3
<1>8. ASSUME NEW x \in S \ {0} PROVE Up(x) = {x} \cup Up(a.link[x]) /\ a.link[x] \in S
  <2> DEFINE y == a.link[x]
  <2>1. /\ y \in S /\ l[y] < l[x] /\ O(y, e[x])
        /\ \A u \in S : l[u] < l[x] /\ O(u, e[x]) => l[u] <= l[y]
    BY <1>4
  <2> HIDE DEF y
  <2>2. e[x] \in 0..m /\ e[y] \in 0..m /\ l[x] \in Nat /\ l[y] \in Nat /\ x \in S
    BY <1>1, <2>1
  <2>3. l[y] <= C[e[x]][e[y]] /\ C[e[x]][e[y]] = C[e[y]][e[x]] /\ C[e[x]][e[y]] \in Nat
    BY <1>2, <1>6, <2>1, <2>2
  <2>4. ASSUME NEW u \in Up(x), u # x PROVE u \in Up(y)
    <3>1. u \in S /\ l[u] <= l[x] /\ O(u, e[x]) /\ O(x, e[x]) /\ l[u] \in Nat
      BY <1>1, <1>2, <2>2
    <3>2. l[u] # l[x]
      BY <1>2, <2>2, <2>4, <3>1
    <3>3. l[u] <= l[y]
      BY <2>1, <2>2, <3>1, <3>2
    <3>4. l[u] <= C[e[x]][e[y]]
      BY <2>2, <2>3, <3>1, <3>3
    <3>5. O(u, e[y])
      BY <1>2, <2>2, <3>1, <3>4
    <3> QED
      BY <3>1, <3>3, <3>5
  <2>5. ASSUME NEW u \in Up(y) PROVE u \in Up(x)
    <3>1. u \in S /\ l[u] <= l[y] /\ O(u, e[y]) /\ l[u] \in Nat
      BY <1>1
    <3>2. l[u] <= C[e[y]][e[x]] /\ l[u] <= l[x]
      BY <2>1, <2>2, <2>3, <3>1
    <3>3. O(u, e[x])
      BY <1>2, <2>2, <3>1, <3>2
    <3> QED
      BY <3>1, <3>2, <3>3
  <2>6. x \in Up(x)
    BY <1>2, <2>2
  <2> HIDE DEF Up
  <2>7. Up(x) = {x} \cup Up(y)
    BY <2>4, <2>5, <2>6
  <2> QED
    BY <2>1, <2>7 DEF y
<1> HIDE DEF Up
<1>9. g = Path(g)
  <2>1. ASSUME NEW x \in S \cup {NoState}
        PROVE  g[x] = IF x = NoState THEN {} ELSE {x} \cup g[a.link[x]]
    <3>1. CASE x = NoState
      BY <3>1
    <3>2. CASE x = 0
      BY <1>1, <1>3, <1>7, <3>2
    <3>3. CASE x \in S \ {0}
      BY <1>1, <1>8, <3>3
    <3> QED
      BY <3>1, <3>2, <3>3
  <2>2. g = [x \in S \cup {NoState} |-> g[x]]
    OBVIOUS
  <2> HIDE DEF g
  <2> QED
    BY <2>1, <2>2
<1>10. path = Path(path)
  <2> HIDE DEF g, Path
  <2> QED
    BY <1>9
<1>11. /\ path[NoState] = {}
       /\ \A x \in S : path[x] = {x} \cup path[a.link[x]]
  <2> HIDE DEF path
  <2> QED
    BY <1>1, <1>10
<1> HIDE DEF path
<1> DEFINE R == {k \in 0..n : \A x \in S : l[x] <= k => path[x] = Up(x)}
<1>12. 0 \in R
  <2>1. path[0] = Up(0)
    BY <1>1, <1>3, <1>7, <1>11
  <2>2. ASSUME NEW x \in S, l[x] <= 0 PROVE x = 0
    BY <1>1, <1>3, <2>2
  <2> QED
    BY <2>1, <2>2
<1>13. ASSUME NEW k \in 0..n - 1, k \in R PROVE k + 1 \in R
  <2>1. ASSUME NEW x \in S, l[x] <= k + 1 PROVE path[x] = Up(x)
    <3>1. CASE x = 0
      BY <1>1, <1>3, <1>7, <1>11, <3>1
    <3>2. CASE x # 0
      <4>1. a.link[x] \in S /\ l[a.link[x]] < l[x] /\ Up(x) = {x} \cup Up(a.link[x])
        BY <1>4, <1>8, <3>2
      <4>2. l[a.link[x]] <= k
        BY <1>1, <2>1, <4>1
      <4>3. path[a.link[x]] = Up(a.link[x])
        BY <1>13, <4>1, <4>2
      <4> QED
        BY <1>11, <4>1, <4>3
    <3> QED
      BY <3>1, <3>2
  <2> QED
    BY <2>1
<1>14. n \in R
  <2> HIDE DEF R
  <2>1. 0..n \subseteq R
    BY <1>12, <1>13, Induction
  <2> QED
    BY <2>1
<1>15. \A x \in S : path[x] = Up(x)
  <2> SUFFICES ASSUME NEW x \in S PROVE path[x] = Up(x)
    OBVIOUS
  <2>1. l[x] <= n
    BY <1>1
  <2> QED
    BY <1>14, <2>1
<1>16. \A x \in S : Climb(a, x) = path[x]
  BY <1>5
<1>17. \A x \in S \ {0} : a.link[x] \in S /\ Climb(a, x) = {x} \cup Climb(a, a.link[x])
  BY <1>4, <1>11, <1>16
<1>18. Climb(a, 0) = {0}
  BY <1>1, <1>3, <1>11, <1>16
<1> QED
  BY <1>15, <1>16, <1>17, <1>18 DEF Up, l, S, O

\* The states of the suffixes of a word that have a transition, and the first.
Having(a, e, C, x, tok) ==
    {u \in States(a) : /\ a.length[u] <= a.length[x] /\ On(a, e, C, u, e[x])
                       /\ tok \in DOMAIN a.next[u]}

First(a, H, p) ==
    /\ H = {} => p = NoState
    /\ H # {} => p \in H /\ \A u \in H : a.length[u] <= a.length[p]

\* The first state of a climb with a transition is the longest one.
LEMMA FirstFacts ==
    ASSUME NEW a, NEW e, NEW C, NEW s, NEW n \in Nat, NEW m \in Nat, n <= m,
           Typed(a, e, n), Tree(C, s, m), Rooted(a), Apart(a, e, C), Linked(a, e, C),
           NEW x \in States(a), NEW tok
    PROVE  First(a, Having(a, e, C, x, tok), FirstWith(a, x, tok))
<1> DEFINE H == {u \in States(a) : /\ a.length[u] <= a.length[x] /\ On(a, e, C, u, e[x])
                                   /\ tok \in DOMAIN a.next[u]}
           p == FirstWith(a, x, tok)
<1>1. H = {u \in Climb(a, x) : tok \in DOMAIN a.next[u]}
  BY ClimbFacts
<1>2. p = IF H = {} THEN NoState ELSE Longest(a, H)
  BY <1>1 DEF FirstWith
<1>3. \A u \in H : a.length[u] \in 0..n
  <2>1. \A u \in States(a) : a.length[u] \in Nat /\ e[u] \in 0..n /\ a.length[u] <= e[u]
    BY DEF Typed
  <2>2. H \subseteq States(a)
    OBVIOUS
  <2> HIDE DEF H
  <2> QED
    BY <2>1, <2>2
<1> HIDE DEF H, p
<1>4. ASSUME H # {} PROVE p \in H /\ \A u \in H : a.length[u] <= a.length[p]
  <2> DEFINE L == {a.length[u] : u \in H}
  <2>1. L \in SUBSET (0..n) /\ L # {}
    BY <1>3, <1>4
  <2>2. PICK b \in L : \A k \in L : k <= b
    <3> HIDE DEF L
    <3> QED
      BY <2>1, GreatestNumber
  <2>3. PICK y \in H : a.length[y] = b
    OBVIOUS
  <2>4. \A u \in H : a.length[u] <= a.length[y]
    BY <2>2, <2>3
  <2>5. p = CHOOSE w \in H : \A t \in H : a.length[t] <= a.length[w]
    BY <1>2, <1>4 DEF Longest
  <2> QED
    BY <2>3, <2>4, <2>5
<1> QED
  BY <1>2, <1>4 DEF H, p, First, Having

\* Where the new beginning of the stream branches off: it shares z tokens with
\* the beginning k, and with no other one more.
Joint(a, e, C, s, n, z, k) ==
    /\ z \in 0..n /\ k \in 0..n /\ C[n + 1][k] = z
    /\ \A i \in 0..n : C[n + 1][i] <= z
    /\ 0 < z => 0 < k /\ s[k] = s[n + 1]

\* What the states of the stream's suffixes say of the next token.
JointStates(a, e, C, s, n, z, k) ==
    /\ \A x \in States(a) :
          On(a, e, C, x, n + 1) <=> On(a, e, C, x, k) /\ a.length[x] <= z
    /\ \A x \in States(a) : On(a, e, C, x, n) /\ s[n + 1] \notin DOMAIN a.next[x] =>
          z <= a.length[x]
    /\ \A x \in States(a) : On(a, e, C, x, n) /\ s[n + 1] \in DOMAIN a.next[x] =>
          0 < z /\ On(a, e, C, x, k - 1) /\ a.length[x] < z
    /\ \A i \in 0..n : C[n + 1][i] < z =>
          \E x \in States(a) : a.length[x] = C[n + 1][i] /\ On(a, e, C, x, n + 1)

\* The state from which the new suffix is reached.
JointState(a, e, C, s, n, z, k, p) ==
    /\ p = NoState => z = 0
    /\ p # NoState => /\ p \in States(a) /\ z = a.length[p] + 1
                      /\ On(a, e, C, p, n) /\ On(a, e, C, p, k - 1)
                      /\ s[n + 1] \in DOMAIN a.next[p]
    /\ {x \in Climb(a, a.last) : p = NoState \/ a.length[x] > a.length[p]}
         = {x \in States(a) : On(a, e, C, x, n) /\ s[n + 1] \notin DOMAIN a.next[x]}

\* Such a place and such a state there are, or no suffix recurs.
LEMMA JointFacts ==
    ASSUME NEW a, NEW e, NEW C, NEW s, NEW n \in Nat,
           Built(a, e, C, s, n), Tree(C, s, n + 1)
    PROVE  \E z, k : /\ Joint(a, e, C, s, n, z, k)
                     /\ JointStates(a, e, C, s, n, z, k)
                     /\ JointState(a, e, C, s, n, z, k, FirstWith(a, a.last, s[n + 1]))
<1> DEFINE l == a.length
           S == States(a)
           O(x, i) == On(a, e, C, x, i)
           tok == s[n + 1]
           Has(x) == tok \in DOMAIN a.next[x]
           m == n + 1
           p == FirstWith(a, a.last, tok)
           H == {u \in S : O(u, n) /\ Has(u)}
<1>1. /\ Typed(a, e, n) /\ Rooted(a) /\ Apart(a, e, C) /\ Linked(a, e, C) /\ Complete(a, e, C, n)
      /\ Moving(a, e, C, s, n) /\ AtEnd(a, e, n) /\ m \in Nat /\ n <= m
  BY DEF Built
<1>2. /\ \A x \in S : l[x] \in Nat /\ e[x] \in 0..n /\ l[x] <= e[x]
      /\ a.last \in S /\ l[a.last] = n /\ e[a.last] = n
  BY <1>1 DEF Typed, AtEnd
<1>3. 0 \in S /\ NoState \notin S /\ l[0] = 0
  <2>1. PICK k \in Nat \ {0} : S = 0..k - 1
    BY <1>1 DEF Typed
  <2>2. l[0] = 0
    BY <1>1 DEF Rooted
  <2> HIDE DEF S
  <2> QED
    BY <2>1, <2>2 DEF NoState
<1>4. /\ \A i, j \in 0..m : C[i][j] \in Nat /\ C[i][j] <= i /\ C[i][j] <= j /\ C[i][j] = C[j][i]
      /\ \A i, j, k \in 0..m : C[i][j] <= C[i][k] \/ C[j][k] <= C[i][k]
      /\ \A i, j \in 0..m - 1 : /\ s[i + 1] = s[j + 1] => C[i + 1][j + 1] = C[i][j] + 1
                                /\ s[i + 1] # s[j + 1] => C[i + 1][j + 1] = 0
  BY <1>1 DEF Tree
<1>5. /\ \A x \in S : O(x, e[x])
      /\ \A x \in S : \A i, j \in 0..m : O(x, i) /\ O(x, j) => l[x] <= C[i][j]
      /\ \A x \in S : \A i, j \in 0..m : O(x, i) /\ l[x] <= C[i][j] => O(x, j)
      /\ \A x \in S : \A i \in 0..m : O(x, i) => l[x] <= i
  BY <1>1, OnFacts
<1>6. \A i, j \in 0..n : \E x \in S : l[x] = C[i][j] /\ O(x, i)
  BY <1>1 DEF Complete
<1>7. /\ \A x \in S : \A j \in 0..n - 1 : O(x, j) /\ s[j + 1] = tok => Has(x)
      /\ \A x \in S : Has(x) => \E j \in 0..n - 1 : O(x, j) /\ s[j + 1] = tok
  BY <1>1 DEF Moving
<1>8. Climb(a, a.last) = {u \in S : O(u, n)}
  <2>0. \A x \in States(a) :
           Climb(a, x) = {u \in States(a) : a.length[u] <= a.length[x] /\ On(a, e, C, u, e[x])}
    BY <1>1, ClimbFacts
  <2>1. Climb(a, a.last) = {u \in S : l[u] <= n /\ O(u, n)}
    BY <1>2, <2>0
  <2>2. \A u \in S : l[u] <= n
    BY <1>2
  <2> QED
    BY <2>1, <2>2
<1>9. /\ H = {} => p = NoState
      /\ H # {} => p \in H /\ \A u \in H : l[u] <= l[p]
  <2> DEFINE G == Having(a, e, C, a.last, tok)
  <2>1. First(a, G, p)
    <3>1. a.last \in States(a)
      BY <1>2
    <3> HIDE DEF tok, m, S
    <3> QED
      BY <1>1, <3>1, FirstFacts
  <2>2. G = H
    <3>1. \A u \in S : l[u] <= n
      BY <1>2
    <3> QED
      BY <1>2, <3>1 DEF Having
  <2> HIDE DEF G, H
  <2> QED
    BY <2>1, <2>2 DEF First
<1> HIDE DEF l, S, O, tok, Has, m, p
<1>10. m = n + 1 /\ 0..n \subseteq 0..m /\ m \in 0..m /\ m \in Nat
  BY DEF m
<1>11. \A j \in 0..n - 1 : /\ j \in 0..n /\ j \in 0..m /\ j + 1 \in 0..n /\ j + 1 \in 0..m
                           /\ (j + 1) - 1 = j
                           /\ s[j + 1] = tok => C[m][j + 1] = C[n][j] + 1
                           /\ s[j + 1] # tok => C[m][j + 1] = 0
  <2> SUFFICES ASSUME NEW j \in 0..n - 1
               PROVE  /\ j \in 0..n /\ j \in 0..m /\ j + 1 \in 0..n /\ j + 1 \in 0..m
                      /\ (j + 1) - 1 = j
                      /\ s[j + 1] = tok => C[m][j + 1] = C[n][j] + 1
                      /\ s[j + 1] # tok => C[m][j + 1] = 0
    OBVIOUS
  <2>1. j \in 0..m - 1 /\ n \in 0..m - 1 /\ n + 1 = m
    BY <1>10
  <2>2. s[n + 1] = tok
    BY DEF tok
  <2>3. /\ s[n + 1] = s[j + 1] => C[n + 1][j + 1] = C[n][j] + 1
        /\ s[n + 1] # s[j + 1] => C[n + 1][j + 1] = 0
    BY <1>4, <2>1
  <2> QED
    BY <1>10, <2>1, <2>2, <2>3
<1>12. C[m][0] = 0
  BY <1>4, <1>10
<1>13. ASSUME NEW i \in 0..n, i # 0 PROVE i - 1 \in 0..n - 1 /\ (i - 1) + 1 = i
  BY <1>13
<1>14. CASE H = {}
  <2>1. ASSUME NEW i \in 0..n PROVE C[m][i] = 0
    <3>1. CASE i = 0
      BY <1>12, <3>1
    <3>2. CASE i # 0
      <4> DEFINE j == i - 1
      <4>1. j \in 0..n - 1 /\ j + 1 = i
        BY <1>13, <3>2
      <4> HIDE DEF j
      <4>2. O(0, j) /\ O(0, n)
        <5>1. e[0] \in 0..m /\ O(0, e[0]) /\ j \in 0..m /\ n \in 0..m
          BY <1>2, <1>3, <1>5, <1>10, <1>11, <4>1
        <5>2. l[0] <= C[e[0]][j] /\ l[0] <= C[e[0]][n]
          BY <1>3, <1>4, <5>1
        <5> QED
          BY <1>3, <1>5, <5>1, <5>2
      <4>3. s[j + 1] # tok
        BY <1>3, <1>7, <1>14, <4>1, <4>2
      <4> QED
        BY <1>11, <4>1, <4>3
    <3> QED
      BY <3>1, <3>2
  <2>2. p = NoState
    BY <1>9, <1>14
  <2>3. Joint(a, e, C, s, n, 0, 0)
    BY <1>12, <2>1 DEF Joint, m
  <2>4. ASSUME NEW x \in S PROVE O(x, m) <=> O(x, 0) /\ l[x] <= 0
    <3>1. O(x, m) => l[x] <= 0
      <4>1. O(x, m) => l[x] <= C[m][e[x]]
        BY <1>2, <1>5, <1>10
      <4> QED
        BY <1>2, <2>1, <4>1
    <3>2. ASSUME l[x] <= 0 PROVE \A i \in 0..m : O(x, i)
      <4> SUFFICES ASSUME NEW i \in 0..m PROVE O(x, i)
        OBVIOUS
      <4>1. e[x] \in 0..m /\ O(x, e[x]) /\ l[x] <= C[e[x]][i]
        BY <1>2, <1>4, <1>5, <1>10, <3>2
      <4> QED
        BY <1>5, <4>1
    <3>3. 0 \in 0..m
      BY <1>10
    <3> QED
      BY <1>10, <3>1, <3>2, <3>3
  <2>5. \A x \in S : O(x, n) => ~ Has(x)
    BY <1>14
  <2>6. JointStates(a, e, C, s, n, 0, 0)
    <3>1. \A x \in S : 0 <= l[x]
      BY <1>2
    <3>2. \A i \in 0..n : ~ (C[m][i] < 0)
      BY <2>1
    <3> QED
      BY <2>4, <2>5, <3>1, <3>2 DEF JointStates, m, S, l, O, Has, tok
  <2>7. JointState(a, e, C, s, n, 0, 0, p)
    <3>1. {x \in Climb(a, a.last) : p = NoState \/ l[x] > l[p]} = {x \in S : O(x, n) /\ ~ Has(x)}
      BY <1>8, <2>2, <2>5
    <3> QED
      BY <2>2, <3>1 DEF JointState, m, S, l, O, Has, tok
  <2> QED
    BY <2>3, <2>6, <2>7 DEF p, tok
<1>15. CASE H # {}
  <2> DEFINE z == l[p] + 1
  <2>1. p \in S /\ O(p, n) /\ Has(p) /\ (\A u \in H : l[u] <= l[p]) /\ l[p] \in Nat /\ z \in Nat
    BY <1>2, <1>9, <1>15
  <2>2. PICK j \in 0..n - 1 : O(p, j) /\ s[j + 1] = tok
    BY <1>7, <2>1
  <2> DEFINE k == j + 1
  <2>3. k \in 0..n /\ k \in 0..m /\ j \in 0..m /\ n \in 0..m /\ k - 1 = j /\ 0 < k /\ s[k] = tok
    BY <1>10, <1>11, <2>2
  <2> HIDE DEF z
  <2>4. ASSUME NEW i \in 0..n PROVE C[m][i] <= z
    <3>1. CASE i = 0
      BY <1>12, <2>1, <3>1
    <3>2. CASE i # 0
      <4> DEFINE h == i - 1
      <4>1. h \in 0..n - 1 /\ h + 1 = i
        BY <1>13, <3>2
      <4> HIDE DEF h
      <4>2. CASE s[h + 1] # tok
        BY <1>11, <2>1, <4>1, <4>2
      <4>3. CASE s[h + 1] = tok
        <5>1. h \in 0..n /\ n \in 0..n /\ C[m][i] = C[n][h] + 1 /\ h \in 0..m /\ n \in 0..m
          BY <1>10, <1>11, <4>1, <4>3
        <5>2. PICK u \in S : l[u] = C[n][h] /\ O(u, n)
          BY <1>6, <5>1
        <5>3. O(u, h)
          <6>1. l[u] <= C[n][h]
            BY <1>2, <5>2
          <6> QED
            BY <1>5, <5>1, <5>2, <6>1
        <5>4. u \in H
          BY <1>7, <4>1, <4>3, <5>2, <5>3
        <5>5. l[u] <= l[p] /\ l[u] \in Nat
          BY <1>2, <2>1, <5>4
        <5> QED
          BY <2>1, <5>1, <5>2, <5>5 DEF z
      <4> QED
        BY <4>2, <4>3
    <3> QED
      BY <3>1, <3>2
  <2>5. C[m][k] = z
    <3>1. C[m][k] = C[n][j] + 1
      BY <1>11, <2>2
    <3>2. l[p] <= C[n][j] /\ C[n][j] \in Nat
      BY <1>4, <1>5, <2>1, <2>2, <2>3
    <3>3. C[m][k] <= z
      BY <2>3, <2>4
    <3> QED
      BY <2>1, <3>1, <3>2, <3>3 DEF z
  <2> HIDE DEF k
  <2>6. z \in 0..n /\ C[m][k] = C[k][m]
    BY <1>4, <1>10, <2>1, <2>3, <2>5
  <2>7. Joint(a, e, C, s, n, z, k)
    BY <2>3, <2>4, <2>5, <2>6 DEF Joint, m, tok
  <2>8. ASSUME NEW x \in S PROVE O(x, m) <=> O(x, k) /\ l[x] <= z
    <3>0. e[x] \in 0..n /\ e[x] \in 0..m /\ l[x] \in Nat /\ O(x, e[x]) /\ C[m][e[x]] \in Nat
      BY <1>2, <1>4, <1>5, <1>10
    <3>1. ASSUME O(x, m) PROVE O(x, k) /\ l[x] <= z
      <4>1. l[x] <= C[m][e[x]] /\ C[m][e[x]] <= z
        BY <1>5, <1>10, <2>4, <3>0, <3>1
      <4>2. l[x] <= z
        BY <2>1, <3>0, <4>1
      <4>3. l[x] <= C[m][k]
        BY <2>5, <4>2
      <4> QED
        BY <1>5, <1>10, <2>3, <3>1, <4>2, <4>3
    <3>2. ASSUME O(x, k), l[x] <= z PROVE O(x, m)
      <4>1. l[x] <= C[k][m]
        BY <2>5, <2>6, <3>2
      <4> QED
        BY <1>5, <1>10, <2>3, <3>2, <4>1
    <3> QED
      BY <3>1, <3>2
  <2>9. ASSUME NEW x \in S, O(x, n), l[x] <= l[p] PROVE O(x, j) /\ Has(x)
    <3>1. l[p] <= C[n][j] /\ C[n][j] \in Nat /\ l[x] \in Nat
      BY <1>2, <1>4, <1>5, <2>1, <2>2, <2>3
    <3>2. l[x] <= C[n][j]
      BY <2>1, <2>9, <3>1
    <3>3. O(x, j)
      BY <1>5, <2>3, <2>9, <3>2
    <3> QED
      BY <1>7, <2>2, <3>3
  <2>10. ASSUME NEW x \in S, O(x, n), ~ Has(x) PROVE z <= l[x]
    <3>1. ~ (l[x] <= l[p]) /\ l[x] \in Nat
      BY <1>2, <2>9, <2>10
    <3> QED
      BY <2>1, <3>1 DEF z
  <2>11. ASSUME NEW x \in S, O(x, n), Has(x) PROVE 0 < z /\ O(x, k - 1) /\ l[x] < z
    <3>1. l[x] <= l[p] /\ l[x] \in Nat
      BY <1>2, <2>1, <2>11
    <3> QED
      BY <2>1, <2>3, <2>9, <2>11, <3>1 DEF z
  <2>12. ASSUME NEW i \in 0..n, C[m][i] < z
         PROVE  \E x \in S : l[x] = C[m][i] /\ O(x, m)
    <3>1. i \in 0..m /\ C[m][i] \in Nat /\ C[k][i] \in Nat /\ C[i][k] \in Nat
      BY <1>4, <1>10, <2>3
    <3>2. C[k][i] = C[m][i]
      <4>1. C[k][m] <= C[k][i] \/ C[m][i] <= C[k][i]
        BY <1>4, <1>10, <2>3, <3>1
      <4>2. C[m][k] <= C[m][i] \/ C[k][i] <= C[m][i]
        BY <1>4, <1>10, <2>3, <3>1
      <4> QED
        BY <2>1, <2>5, <2>6, <2>12, <3>1, <4>1, <4>2
    <3>3. PICK x \in S : l[x] = C[k][i] /\ O(x, k)
      BY <1>6, <2>3
    <3>4. l[x] <= z
      BY <2>1, <2>12, <3>1, <3>2, <3>3
    <3> QED
      BY <2>8, <3>2, <3>3, <3>4
  <2>13. JointStates(a, e, C, s, n, z, k)
    BY <2>8, <2>10, <2>11, <2>12 DEF JointStates, m, S, l, O, Has, tok
  <2>14. JointState(a, e, C, s, n, z, k, p)
    <3>1. p # NoState
      BY <1>3, <2>1
    <3>2. ASSUME NEW x \in S, O(x, n) PROVE l[x] > l[p] <=> ~ Has(x)
      <4>1. l[x] \in Nat
        BY <1>2
      <4>2. ASSUME l[x] > l[p], Has(x) PROVE FALSE
        BY <2>1, <3>2, <4>1, <4>2
      <4>3. ASSUME ~ Has(x), ~ (l[x] > l[p]) PROVE FALSE
        BY <2>1, <2>9, <3>2, <4>1, <4>3
      <4> QED
        BY <4>2, <4>3
    <3>3. {x \in Climb(a, a.last) : p = NoState \/ l[x] > l[p]} = {x \in S : O(x, n) /\ ~ Has(x)}
      BY <1>8, <3>1, <3>2
    <3>4. O(p, k - 1)
      BY <2>2, <2>3
    <3> QED
      BY <2>1, <3>1, <3>3, <3>4 DEF JointState, m, S, l, O, Has, tok, z
  <2> QED
    BY <2>7, <2>13, <2>14 DEF p, tok
<1> QED
  BY <1>14, <1>15

-----------------------------------------------------------------------------
(* What Append1 makes of the fields of an automaton.                       *)

\* An automaton by its fields.
Automaton(A, B, L, N, T, M, U) ==
    [next |-> A, link |-> B, length |-> L, cnt |-> N, last |-> T, matchState |-> M, matchLen |-> U]

\* It has these fields and no others.
Fields(a) ==
    a = Automaton(a.next, a.link, a.length, a.cnt, a.last, a.matchState, a.matchLen)

\* A function with one value set, and functions with a value set in each of P.
To(f, x, y) == [t \in DOMAIN f \cup {x} |-> IF t = x THEN y ELSE f[t]]
Sent(f, P, tok, y) == [x \in DOMAIN f |-> IF x \in P THEN To(f[x], tok, y) ELSE f[x]]

\* Its fields are what they were given.
LEMMA AutoFields ==
    ASSUME NEW A, NEW B, NEW L, NEW N, NEW T, NEW M, NEW U
    PROVE  LET a == Automaton(A, B, L, N, T, M, U)
           IN  /\ a.next = A /\ a.link = B /\ a.length = L /\ a.cnt = N
               /\ a.last = T /\ a.matchState = M /\ a.matchLen = U
               /\ Fields(a) /\ States(a) = DOMAIN B
  BY DEF Automaton, Fields, States

\* What a change of the transitions makes of it,
LEMMA NextUpdate ==
    ASSUME NEW A, NEW B, NEW L, NEW N, NEW T, NEW M, NEW U,
           NEW a, a = Automaton(A, B, L, N, T, M, U),
           NEW A2, NEW b, b = [a EXCEPT !.next = A2]
    PROVE  b = Automaton(A2, B, L, N, T, M, U)
  BY DEF Automaton

\* one of the links,
LEMMA LinkUpdate ==
    ASSUME NEW A, NEW B, NEW L, NEW N, NEW T, NEW M, NEW U,
           NEW a, a = Automaton(A, B, L, N, T, M, U),
           NEW B2, NEW b, b = [a EXCEPT !.link = B2]
    PROVE  b = Automaton(A, B2, L, N, T, M, U)
  BY DEF Automaton

\* one of the last state,
LEMMA LastUpdate ==
    ASSUME NEW A, NEW B, NEW L, NEW N, NEW T, NEW M, NEW U,
           NEW a, a = Automaton(A, B, L, N, T, M, U),
           NEW T2, NEW b, b = [a EXCEPT !.last = T2]
    PROVE  b = Automaton(A, B, L, N, T2, M, U)
  BY DEF Automaton

\* a new state,
LEMMA WithStateForm ==
    ASSUME NEW A, NEW B, NEW L, NEW N, NEW T, NEW M, NEW U,
           NEW x, NEW len, NEW link, NEW trans, NEW cnt
    PROVE  WithState(Automaton(A, B, L, N, T, M, U), x, len, link, trans, cnt) =
              Automaton(To(A, x, trans), To(B, x, link), To(L, x, len), To(N, x, cnt), T, M, U)
<1> DEFINE a == Automaton(A, B, L, N, T, M, U)
           A2 == To(A, x, trans)
           B2 == To(B, x, link)
           L2 == To(L, x, len)
           N2 == To(N, x, cnt)
<1>1. a.next = A /\ a.link = B /\ a.length = L /\ a.cnt = N
  BY AutoFields
<1>2. WithState(a, x, len, link, trans, cnt) =
         [a EXCEPT !.next = To(a.next, x, trans), !.link = To(a.link, x, link),
                   !.length = To(a.length, x, len), !.cnt = To(a.cnt, x, cnt)]
  BY DEF WithState, To
<1>3. WithState(a, x, len, link, trans, cnt) =
         [a EXCEPT !.next = A2, !.link = B2, !.length = L2, !.cnt = N2]
  <2> HIDE DEF a
  <2> QED
    BY <1>1, <1>2
<1>0. a = Automaton(A, B, L, N, T, M, U)
  OBVIOUS
<1> HIDE DEF a, A2, B2, L2, N2
<1> DEFINE b == WithState(a, x, len, link, trans, cnt)
<1> HIDE DEF b
<1>4. b = [a EXCEPT !.next = A2, !.link = B2, !.length = L2, !.cnt = N2]
  BY <1>3 DEF b
<1>5. DOMAIN a = {"next", "link", "length", "cnt", "last", "matchState", "matchLen"}
  BY <1>0 DEF Automaton
<1>6. b.next = A2 /\ b.link = B2 /\ b.length = L2 /\ b.cnt = N2
  BY <1>4, <1>5
<1>7. b.last = T /\ b.matchState = M /\ b.matchLen = U
  BY <1>0, <1>4 DEF Automaton
<1>8. b = [f \in DOMAIN a |-> b[f]]
  BY <1>4
<1>9. b = Automaton(A2, B2, L2, N2, T, M, U)
  BY <1>5, <1>6, <1>7, <1>8 DEF Automaton
<1> QED
  BY <1>9 DEF b, a, A2, B2, L2, N2

\* and new transitions for a token.
LEMMA LeadForm ==
    ASSUME NEW A, NEW B, NEW L, NEW N, NEW T, NEW M, NEW U, NEW P, NEW tok, NEW y
    PROVE  Lead(Automaton(A, B, L, N, T, M, U), P, tok, y) =
              Automaton(Sent(A, P, tok, y), B, L, N, T, M, U)
<1> DEFINE a == Automaton(A, B, L, N, T, M, U)
           A2 == Sent(A, P, tok, y)
<1>1. a.next = A
  BY AutoFields
<1>2. Lead(a, P, tok, y) = [a EXCEPT !.next = Sent(a.next, P, tok, y)]
  BY DEF Lead, To, Sent
<1>3. Lead(a, P, tok, y) = [a EXCEPT !.next = A2]
  <2> HIDE DEF a
  <2> QED
    BY <1>1, <1>2
<1>0. a = Automaton(A, B, L, N, T, M, U)
  OBVIOUS
<1> HIDE DEF a, A2
<1> DEFINE b == Lead(a, P, tok, y)
<1> HIDE DEF b
<1>4. b = Automaton(A2, B, L, N, T, M, U)
  BY <1>0, <1>3, NextUpdate DEF b
<1> QED
  BY <1>4 DEF b, a, A2

\* The new state cur, led to by the states of bare.
Grown(a, tok, cur, bare) ==
    Automaton(Sent(To(a.next, cur, NoTrans), bare, tok, cur), To(a.link, cur, 0),
         To(a.length, cur, a.length[a.last] + 1), To(a.cnt, cur, 1),
         a.last, a.matchState, a.matchLen)

\* Its link goes to w, which had the new suffix for its longest word,
Plainly(a, tok, cur, bare, w) ==
    Automaton(Sent(To(a.next, cur, NoTrans), bare, tok, cur), To(a.link, cur, w),
         To(a.length, cur, a.length[a.last] + 1), To(a.cnt, cur, 1),
         cur, a.matchState, a.matchLen)

\* or to a copy c of q, split for it, to which the states of R lead.
Splitting(a, tok, cur, bare, c, p, q, R) ==
    Automaton(Sent(To(Sent(To(a.next, cur, NoTrans), bare, tok, cur), c,
                 Sent(To(a.next, cur, NoTrans), bare, tok, cur)[q]), R, tok, c),
         [To(To(a.link, cur, 0), c, To(a.link, cur, 0)[q]) EXCEPT ![q] = c, ![cur] = c],
         To(To(a.length, cur, a.length[a.last] + 1), c,
            To(a.length, cur, a.length[a.last] + 1)[p] + 1),
         To(To(a.cnt, cur, 1), c, 0),
         cur, a.matchState, a.matchLen)

\* The states that get a transition to the new state.
Bare(a, p) == {x \in Climb(a, a.last) : p = NoState \/ a.length[x] > a.length[p]}

\* Append1, by its cases.
LEMMA AppendForm ==
    ASSUME NEW a, Fields(a), NEW tok, NEW cur, cur = Cardinality(States(a)),
           NEW p, p = FirstWith(a, a.last, tok), NEW q, q = a.next[p][tok]
    PROVE  /\ p = NoState => Append1(a, tok) = Plainly(a, tok, cur, Bare(a, p), 0)
           /\ p # NoState /\ a.length[p] + 1 = a.length[q] =>
                 Append1(a, tok) = Plainly(a, tok, cur, Bare(a, p), q)
           /\ p # NoState /\ a.length[p] + 1 # a.length[q] =>
                 Append1(a, tok) = Splitting(a, tok, cur, Bare(a, p), cur + 1, p, q,
                    LeadingTo(Grown(a, tok, cur, Bare(a, p)), p, tok, q))
<1> DEFINE A == a.next
           B == a.link
           L == a.length
           N == a.cnt
           T == a.last
           M == a.matchState
           U == a.matchLen
           bare == Bare(a, p)
           A1 == Sent(To(A, cur, NoTrans), bare, tok, cur)
           B1 == To(B, cur, 0)
           L1 == To(L, cur, L[T] + 1)
           N1 == To(N, cur, 1)
           b == Lead(WithState(a, cur, L[T] + 1, 0, NoTrans, 1), bare, tok, cur)
<1>1. a = Automaton(A, B, L, N, T, M, U)
  BY DEF Fields
<1>2. b = Automaton(A1, B1, L1, N1, T, M, U)
  <2> DEFINE k == L[T] + 1
  <2> HIDE DEF A, B, L, N, T, M, U, bare, k
  <2>1. WithState(Automaton(A, B, L, N, T, M, U), cur, k, 0, NoTrans, 1) =
           Automaton(To(A, cur, NoTrans), To(B, cur, 0), To(L, cur, k), To(N, cur, 1), T, M, U)
    BY WithStateForm
  <2> DEFINE A0 == To(A, cur, NoTrans)
             B0 == To(B, cur, 0)
             L0 == To(L, cur, k)
             N0 == To(N, cur, 1)
  <2> HIDE DEF A0, B0, L0, N0
  <2>2. Lead(Automaton(A0, B0, L0, N0, T, M, U), bare, tok, cur) =
           Automaton(Sent(A0, bare, tok, cur), B0, L0, N0, T, M, U)
    BY LeadForm
  <2> QED
    BY <1>1, <2>1, <2>2 DEF A0, B0, L0, N0, k
<1>3. b = Grown(a, tok, cur, bare)
  BY <1>2 DEF Grown
<1>4. /\ p = NoState => Append1(a, tok) = [b EXCEPT !.last = cur]
      /\ p # NoState /\ L[p] + 1 = L[q] =>
            Append1(a, tok) = [[b EXCEPT !.link[cur] = q] EXCEPT !.last = cur]
      /\ p # NoState /\ L[p] + 1 # L[q] =>
            Append1(a, tok) = [Split(b, cur, p, tok, q) EXCEPT !.last = cur]
  BY DEF Append1, Bare
<1> HIDE DEF A, B, L, N, T, M, U, bare, A1, B1, L1, N1, b
<1>5. b.next = A1 /\ b.link = B1 /\ b.length = L1 /\ b.cnt = N1
  BY <1>2 DEF Automaton
<1>6. CASE p = NoState
  <2> DEFINE f == Append1(a, tok)
  <2>1. f = [b EXCEPT !.last = cur]
    BY <1>4, <1>6
  <2> HIDE DEF f
  <2>2. f = Automaton(A1, B1, L1, N1, cur, M, U)
    BY <1>2, <2>1, LastUpdate
  <2> QED
    BY <1>6, <2>2 DEF f, Plainly, A1, B1, L1, N1, A, B, L, N, T, M, U, bare
<1>7. CASE p # NoState /\ L[p] + 1 = L[q]
  <2> DEFINE f == Append1(a, tok)
             g == [b EXCEPT !.link[cur] = q]
             B2 == [B1 EXCEPT ![cur] = q]
  <2>1. f = [g EXCEPT !.last = cur]
    BY <1>4, <1>7
  <2>2. g = [b EXCEPT !.link = B2]
    BY <1>5
  <2> HIDE DEF f, g, B2
  <2>3. g = Automaton(A1, B2, L1, N1, T, M, U)
    BY <1>2, <2>2, LinkUpdate
  <2>4. f = Automaton(A1, B2, L1, N1, cur, M, U)
    BY <2>1, <2>3, LastUpdate
  <2>5. B2 = To(B, cur, q)
    BY DEF B2, B1, To
  <2> QED
    BY <1>7, <2>4, <2>5 DEF f, Plainly, A1, L1, N1, A, B, L, N, T, M, U, bare
<1>8. CASE p # NoState /\ L[p] + 1 # L[q]
  <2> DEFINE f == Append1(a, tok)
             c == cur + 1
             R == LeadingTo(b, p, tok, q)
             k == L1[p] + 1
             w == B1[q]
             v == A1[q]
             d == WithState(b, c, k, w, v, 0)
             h == Lead(d, R, tok, c)
             g == [h EXCEPT !.link = [@ EXCEPT ![q] = c, ![cur] = c]]
             A2 == To(A1, c, v)
             B2 == To(B1, c, w)
             L2 == To(L1, c, k)
             N2 == To(N1, c, 0)
             B3 == [B2 EXCEPT ![q] = c, ![cur] = c]
  <2>1. f = [Split(b, cur, p, tok, q) EXCEPT !.last = cur]
    BY <1>4, <1>8
  <2>2. Split(b, cur, p, tok, q) = g
    BY <1>5 DEF Split, CloneCnt
  <2> HIDE DEF f, c, R, k, w, v
  <2>3. d = Automaton(A2, B2, L2, N2, T, M, U)
    BY <1>2, WithStateForm
  <2> HIDE DEF A2, B2, L2, N2, d
  <2>4. h = Automaton(Sent(A2, R, tok, c), B2, L2, N2, T, M, U)
    BY <2>3, LeadForm
  <2> DEFINE A3 == Sent(A2, R, tok, c)
  <2> HIDE DEF h, A3
  <2>5. h = Automaton(A3, B2, L2, N2, T, M, U)
    BY <2>4 DEF A3
  <2>6. h.link = B2
    BY <2>5 DEF Automaton
  <2>7. g = [h EXCEPT !.link = B3]
    BY <2>6
  <2> HIDE DEF g, B3
  <2>8. g = Automaton(A3, B3, L2, N2, T, M, U)
    BY <2>5, <2>7, LinkUpdate
  <2>9. f = [g EXCEPT !.last = cur]
    BY <2>1, <2>2
  <2>10. f = Automaton(A3, B3, L2, N2, cur, M, U)
    BY <2>8, <2>9, LastUpdate
  <2>11. R = LeadingTo(Grown(a, tok, cur, bare), p, tok, q)
    BY <1>3 DEF R
  <2>12. f = Splitting(a, tok, cur, bare, c, p, q, R)
    BY <2>10 DEF Splitting, A3, A2, B3, B2, L2, N2, v, w, k, A1, B1, L1, N1, A, B, L, N, T, M, U
  <2> QED
    BY <1>8, <2>11, <2>12 DEF f, c, bare, L
<1> QED
  BY <1>6, <1>7, <1>8 DEF L

\* The new state does not change the climbs of the others.
LEMMA GrownClimb ==
    ASSUME NEW a, NEW e, NEW C, NEW s, NEW n \in Nat, NEW m \in Nat, n <= m,
           Typed(a, e, n), Tree(C, s, m), Rooted(a), Apart(a, e, C), Linked(a, e, C),
           NEW cur, cur \notin States(a), cur # NoState, NEW b, b.link = To(a.link, cur, 0)
    PROVE  \A x \in States(a) : Climb(b, x) = Climb(a, x)
<1> DEFINE S == States(a)
           D == States(b) \cup {NoState}
           l == a.length
           Path(f) == [x \in D |-> IF x = NoState THEN {} ELSE {x} \cup f[b.link[x]]]
           path == CHOOSE f : f = Path(f)
           g == [x \in D |-> IF x = NoState THEN {} ELSE IF x = cur THEN {cur, 0} ELSE Climb(a, x)]
<1>1. 0 \in S /\ NoState \notin S /\ cur \notin S
  <2>1. PICK k \in Nat \ {0} : S = 0..k - 1
    BY DEF Typed
  <2>2. cur \notin S
    OBVIOUS
  <2> HIDE DEF S
  <2> QED
    BY <2>1, <2>2 DEF NoState
<1>2. D = S \cup {cur, NoState} /\ DOMAIN b.link = S \cup {cur}
  BY DEF To, States
<1>3. b.link[cur] = 0 /\ \A x \in S : b.link[x] = a.link[x]
  BY DEF To, States
<1>4. a.link[0] = NoState
  BY DEF Rooted
<1>5. \A x \in S \ {0} : a.link[x] \in S /\ Climb(a, x) = {x} \cup Climb(a, a.link[x])
  BY ClimbFacts
<1>6. Climb(a, 0) = {0}
  BY ClimbFacts
<1>7. \A x \in S : l[x] \in 0..n
  BY DEF Typed
<1>8. \A x \in S \ {0} : l[a.link[x]] < l[x]
  BY DEF Linked, LinkOf
<1>9. \A x \in S : Climb(b, x) = path[x]
  BY DEF Climb
<1> HIDE DEF S, D, l
<1>10. g = Path(g)
  <2>1. ASSUME NEW x \in D
        PROVE  g[x] = IF x = NoState THEN {} ELSE {x} \cup g[b.link[x]]
    <3>1. CASE x = NoState
      BY <3>1
    <3>2. CASE x = 0
      BY <1>1, <1>2, <1>3, <1>4, <1>6, <3>2
    <3>3. CASE x \in S \ {0}
      <4> DEFINE y == a.link[x]
      <4>1. y \in S /\ Climb(a, x) = {x} \cup Climb(a, y) /\ b.link[x] = y /\ x \in S
        BY <1>3, <1>5, <3>3
      <4> HIDE DEF y
      <4>2. g[x] = Climb(a, x) /\ g[y] = Climb(a, y) /\ x # NoState
        BY <1>1, <1>2, <4>1
      <4> HIDE DEF g
      <4> QED
        BY <4>1, <4>2
    <3>4. CASE x = cur
      <4>1. g[x] = {cur, 0} /\ b.link[x] = 0 /\ g[0] = {0}
        BY <1>1, <1>2, <1>3, <1>6, <3>4
      <4> HIDE DEF g
      <4> QED
        BY <1>2, <3>4, <4>1
    <3> QED
      BY <1>2, <3>1, <3>2, <3>3, <3>4
  <2>2. g = [x \in D |-> g[x]]
    OBVIOUS
  <2> HIDE DEF g
  <2> QED
    BY <2>1, <2>2
<1>11. path = Path(path)
  <2> HIDE DEF g, Path
  <2> QED
    BY <1>10
<1>12. \A x \in S : path[x] = {x} \cup path[b.link[x]]
  <2> HIDE DEF path
  <2> QED
    BY <1>1, <1>2, <1>11
<1>13. path[NoState] = {}
  <2>1. NoState \in D
    BY <1>2
  <2> HIDE DEF path
  <2> QED
    BY <1>11, <2>1
<1> HIDE DEF path, g
<1> DEFINE R == {k \in 0..n : \A x \in S : l[x] <= k => path[x] = Climb(a, x)}
<1>14. path[0] = Climb(a, 0)
  BY <1>1, <1>3, <1>4, <1>6, <1>12, <1>13
<1>15. 0 \in R
  <2>1. \A x \in S \ {0} : ~ (l[x] <= 0)
    BY <1>5, <1>7, <1>8
  <2> QED
    BY <1>14, <2>1
<1>16. ASSUME NEW k \in 0..n - 1, k \in R PROVE k + 1 \in R
  <2>1. ASSUME NEW x \in S, l[x] <= k + 1, x # 0 PROVE path[x] = Climb(a, x)
    <3>1. a.link[x] \in S /\ l[a.link[x]] < l[x]
      BY <1>5, <1>8, <2>1
    <3>2. l[a.link[x]] <= k
      BY <1>7, <2>1, <3>1
    <3>3. path[a.link[x]] = Climb(a, a.link[x])
      BY <1>16, <3>1, <3>2
    <3>4. x \in S \ {0} /\ b.link[x] = a.link[x]
      BY <1>3, <2>1
    <3>5. path[x] = {x} \cup path[a.link[x]]
      BY <1>12, <3>4
    <3>6. Climb(a, x) = {x} \cup Climb(a, a.link[x])
      BY <1>5, <3>4
    <3> QED
      BY <3>3, <3>5, <3>6
  <2> QED
    BY <1>14, <2>1
<1>17. n \in R
  <2> HIDE DEF R
  <2>1. 0..n \subseteq R
    BY <1>15, <1>16, Induction
  <2> QED
    BY <2>1
<1> QED
  BY <1>7, <1>9, <1>17 DEF S

\* What was built, in flat form.
Shape(a, e, n) ==
    /\ \A x \in States(a) : /\ a.length[x] \in Nat /\ e[x] \in 0..n
                            /\ a.length[x] <= e[x] /\ a.length[x] <= n
                            /\ a.link[x] \in States(a) \cup {NoState}
                            /\ a.cnt[x] \in Nat
                            /\ a.next[x] \in [DOMAIN a.next[x] -> States(a)]
    /\ a.last \in States(a) /\ a.length[a.last] = n /\ e[a.last] = n
    /\ DOMAIN a.next = States(a) /\ DOMAIN a.link = States(a)
    /\ DOMAIN a.length = States(a) /\ DOMAIN a.cnt = States(a) /\ DOMAIN e = States(a)
    /\ 0 \in States(a) /\ NoState \notin States(a) /\ a.length[0] = 0 /\ a.link[0] = NoState
    /\ \A x \in States(a) : a.length[x] = 0 => x = 0

\* It follows from what was built.
LEMMA BuiltFacts ==
    ASSUME NEW a, NEW e, NEW C, NEW s, NEW n \in Nat, Built(a, e, C, s, n)
    PROVE  Shape(a, e, n)
<1>1. /\ \A x \in States(a) : /\ a.length[x] \in Nat /\ e[x] \in 0..n /\ a.length[x] <= e[x]
                              /\ a.link[x] \in States(a) \cup {NoState} /\ a.cnt[x] \in Nat
      /\ \A x \in States(a) : a.next[x] \in [DOMAIN a.next[x] -> States(a)]
      /\ a.last \in States(a) /\ a.length[a.last] = n /\ e[a.last] = n
      /\ DOMAIN a.next = States(a) /\ DOMAIN a.length = States(a) /\ DOMAIN a.cnt = States(a)
      /\ DOMAIN e = States(a)
  BY DEF Built, Typed, AtEnd
<1>2. \A x \in States(a) : a.length[x] <= n
  BY <1>1
<1>3. DOMAIN a.link = States(a)
  BY DEF States
<1>4. 0 \in States(a) /\ NoState \notin States(a)
  <2>1. PICK k \in Nat \ {0} : States(a) = 0..k - 1
    BY DEF Built, Typed
  <2> QED
    BY <2>1 DEF NoState
<1>5. a.length[0] = 0 /\ a.link[0] = NoState /\ \A x \in States(a) : a.length[x] = 0 => x = 0
  BY DEF Built, Rooted
<1> QED
  BY <1>1, <1>2, <1>3, <1>4, <1>5 DEF Shape

\* The new suffix was the longest word of a state: no state is split.
PlainCase(a, e, C, s, n, z, k, tok, w, cur, bare, b) ==
    /\ Built(a, e, C, s, n) /\ Tree(C, s, n + 1)
    /\ Joint(a, e, C, s, n, z, k) /\ JointStates(a, e, C, s, n, z, k)
    /\ tok = s[n + 1]
    /\ w \in States(a) /\ a.length[w] = z /\ On(a, e, C, w, n + 1)
    /\ cur \in Nat \ {0} /\ States(a) = 0..cur - 1
    /\ bare = {x \in States(a) : On(a, e, C, x, n) /\ tok \notin DOMAIN a.next[x]}
    /\ b = Plainly(a, tok, cur, bare, w)

\* Append1 without a split keeps what is built.
LEMMA PlainBuilt ==
    ASSUME NEW a, NEW e, NEW C, NEW s, NEW n \in Nat, NEW z, NEW k, NEW tok,
           NEW w, NEW cur, NEW bare, NEW b,
           PlainCase(a, e, C, s, n, z, k, tok, w, cur, bare, b)
    PROVE  /\ Built(b, To(e, cur, n + 1), C, s, n + 1)
           /\ w \in States(b) /\ b.length[w] = z /\ On(b, To(e, cur, n + 1), C, w, n + 1)
<1> DEFINE l == a.length
           S == States(a)
           O(x, i) == On(a, e, C, x, i)
           m == n + 1
           f == To(e, cur, m)
           D == States(b)
           P(x, i) == On(b, f, C, x, i)
           Has(x) == tok \in DOMAIN a.next[x]
<1>1. /\ Typed(a, e, n) /\ Rooted(a) /\ Apart(a, e, C) /\ Branching(a, e, C, n)
      /\ Complete(a, e, C, n) /\ Linked(a, e, C) /\ Moving(a, e, C, s, n)
      /\ AtEnd(a, e, n) /\ Marked(a, e, C) /\ m \in Nat /\ n <= m
      /\ Built(a, e, C, s, n) /\ Tree(C, s, m)
  BY DEF Built, PlainCase
<1>2. /\ \A x \in S : /\ l[x] \in Nat /\ e[x] \in 0..n
                      /\ l[x] <= e[x] /\ l[x] <= n
                      /\ a.link[x] \in S \cup {NoState} /\ a.cnt[x] \in Nat
                      /\ a.next[x] \in [DOMAIN a.next[x] -> S]
      /\ a.last \in S /\ l[a.last] = n /\ e[a.last] = n
      /\ DOMAIN a.next = S /\ DOMAIN a.link = S
      /\ DOMAIN l = S /\ DOMAIN a.cnt = S /\ DOMAIN e = S
      /\ 0 \in S /\ NoState \notin S /\ l[0] = 0 /\ a.link[0] = NoState
      /\ \A x \in S : l[x] = 0 => x = 0
  <2>1. Shape(a, e, n)
    BY <1>1, BuiltFacts
  <2> QED
    BY <2>1 DEF Shape
<1>3. cur \notin S /\ cur # 0 /\ cur # NoState
  <2>1. cur \in Nat \ {0} /\ States(a) = 0..cur - 1
    BY DEF PlainCase
  <2> QED
    BY <2>1 DEF NoState
<1>4. /\ b.length = To(l, cur, l[a.last] + 1) /\ b.link = To(a.link, cur, w)
      /\ b.cnt = To(a.cnt, cur, 1) /\ b.last = cur
      /\ b.next = Sent(To(a.next, cur, NoTrans), bare, tok, cur)
  <2>1. b = Plainly(a, tok, cur, bare, w)
    BY DEF PlainCase
  <2> QED
    BY <2>1 DEF Plainly, Automaton
<1>5. D = S \cup {cur}
  BY <1>4 DEF To, States
<1>6. /\ \A x \in S : b.length[x] = l[x] /\ b.link[x] = a.link[x] /\ b.cnt[x] = a.cnt[x] /\ f[x] = e[x]
      /\ b.length[cur] = m /\ b.link[cur] = w /\ b.cnt[cur] = 1 /\ f[cur] = m /\ b.last = cur
  <2>1. \A x \in S : x # cur
    BY <1>3
  <2>2. (\A x \in S : b.length[x] = l[x]) /\ b.length[cur] = m
    <3>1. l[a.last] + 1 = m
      BY <1>2
    <3>2. b.length = To(l, cur, m)
      BY <1>4, <3>1
    <3> HIDE DEF m, l, S
    <3> QED
      BY <1>2, <2>1, <3>2 DEF To
  <2>3. (\A x \in S : b.link[x] = a.link[x]) /\ b.link[cur] = w
    BY <1>2, <1>4, <2>1 DEF To
  <2>4. (\A x \in S : b.cnt[x] = a.cnt[x]) /\ b.cnt[cur] = 1
    BY <1>2, <1>4, <2>1 DEF To
  <2>5. (\A x \in S : f[x] = e[x]) /\ f[cur] = m
    BY <1>2, <2>1 DEF To
  <2> QED
    BY <1>4, <2>2, <2>3, <2>4, <2>5
<1>7. /\ DOMAIN b.length = D /\ DOMAIN b.link = D /\ DOMAIN b.cnt = D /\ DOMAIN f = D /\ DOMAIN b.next = D
  BY <1>2, <1>4, <1>5 DEF To, Sent
<1>8. /\ \A x \in S \ bare : b.next[x] = a.next[x]
      /\ \A x \in bare : b.next[x] = To(a.next[x], tok, cur)
      /\ b.next[cur] = NoTrans
  <2>1. /\ \A x \in S : To(a.next, cur, NoTrans)[x] = a.next[x]
        /\ To(a.next, cur, NoTrans)[cur] = NoTrans
        /\ DOMAIN To(a.next, cur, NoTrans) = S \cup {cur}
    BY <1>2, <1>3 DEF To
  <2> DEFINE g == To(a.next, cur, NoTrans)
  <2>2. bare \subseteq S
    BY DEF PlainCase
  <2> HIDE DEF g, S
  <2>3. \A x \in S \cup {cur} : b.next[x] = IF x \in bare THEN To(g[x], tok, cur) ELSE g[x]
    BY <1>4, <2>1 DEF Sent, g
  <2> QED
    BY <1>3, <2>1, <2>2, <2>3 DEF g
<1>9. /\ \A i, j \in 0..m : C[i][j] \in Nat /\ C[i][j] <= i /\ C[i][j] <= j /\ C[i][j] = C[j][i]
      /\ \A i \in 0..m : C[i][i] = i
  BY <1>1 DEF Tree
<1>10. /\ \A x \in S : O(x, e[x])
       /\ \A x \in S : \A i, j \in 0..m : O(x, i) /\ O(x, j) => l[x] <= C[i][j]
       /\ \A x \in S : \A i, j \in 0..m : O(x, i) /\ l[x] <= C[i][j] => O(x, j)
       /\ \A x \in S : \A i \in 0..m : O(x, i) => l[x] <= i
  BY <1>1, OnFacts
<1>11. /\ z \in 0..n /\ k \in 0..n /\ C[m][k] = z
       /\ \A i \in 0..n : C[m][i] <= z
       /\ 0 < z => 0 < k /\ s[k] = tok
  BY DEF Joint, PlainCase
<1>12. /\ \A x \in S : O(x, m) <=> O(x, k) /\ l[x] <= z
       /\ \A x \in S : O(x, n) /\ ~ Has(x) => z <= l[x]
       /\ \A x \in S : O(x, n) /\ Has(x) => 0 < z /\ O(x, k - 1) /\ l[x] < z
       /\ \A i \in 0..n : C[m][i] < z => \E x \in S : l[x] = C[m][i] /\ O(x, m)
  BY DEF JointStates, PlainCase
<1>13. bare = {x \in S : O(x, n) /\ ~ Has(x)} /\ l[w] = z /\ O(w, m) /\ w \in S
  BY DEF PlainCase
<1>14. /\ \A x, y \in S : l[x] = l[y] /\ O(x, e[y]) => x = y
       /\ \A x \in S : \E i, j \in 0..n : O(x, i) /\ C[i][j] = l[x]
       /\ \A i, j \in 0..n : \E x \in S : l[x] = C[i][j] /\ O(x, i)
  BY <1>1 DEF Apart, Branching, Complete
<1>15. \A x \in S \ {0} :
          /\ a.link[x] \in S /\ l[a.link[x]] < l[x] /\ O(a.link[x], e[x])
          /\ \A u \in S : l[u] < l[x] /\ O(u, e[x]) => l[u] <= l[a.link[x]]
  BY <1>1 DEF Linked, LinkOf
<1>16. \A x \in S : \A j \in 0..n - 1 : O(x, j) =>
          /\ s[j + 1] \in DOMAIN a.next[x]
          /\ StepTo(a, e, C, x, j, a.next[x][s[j + 1]])
  BY <1>1 DEF Moving
<1>17. \A x \in S : \A t \in DOMAIN a.next[x] : \E j \in 0..n - 1 : O(x, j) /\ s[j + 1] = t
  BY <1>1 DEF Moving
<1>18. \A x \in S : a.cnt[x] = IF 0 < l[x] /\ O(x, l[x]) THEN 1 ELSE 0
  BY <1>1 DEF Marked
<1>19. \A x, y, j : StepTo(a, e, C, x, j, y) <=>
          /\ y \in S /\ O(y, j + 1) /\ l[x] < l[y]
          /\ \A u \in S : O(u, j + 1) /\ l[x] < l[u] => l[y] <= l[u]
  BY DEF StepTo
<1>20. \A x, i : P(x, i) <=> b.length[x] <= C[f[x]][i]
  BY DEF On
<1>21. \A x, i : O(x, i) <=> l[x] <= C[e[x]][i]
  BY DEF On
<1>22. m = n + 1 /\ m \in Nat /\ m \in 0..m /\ (\A i \in 0..n : i \in 0..m)
       /\ (\A i \in 0..m : i \in 0..n \/ i = m)
       /\ (\A i \in 0..m - 1 : i \in 0..n - 1 \/ i = n)
       /\ (\A i \in 0..n - 1 : i \in 0..n /\ i + 1 \in 0..n /\ i + 1 \in 0..m /\ i \in 0..m - 1)
       /\ n \in 0..m - 1 /\ n \in 0..n
  OBVIOUS
<1>23. States(a) = 0..cur - 1 /\ cur \in Nat \ {0} /\ tok = s[m]
  BY DEF PlainCase
<1> HIDE DEF l, S, O, m, f, D, P, Has
<1>0. \A i : P(cur, i) <=> m <= C[m][i]
  BY <1>6, <1>20
<1>24. /\ \A x \in S : \A i : P(x, i) <=> O(x, i)
       /\ \A i \in 0..n : ~ P(cur, i)
       /\ P(cur, m)
  <2>1. \A x \in S : \A i : P(x, i) <=> O(x, i)
    BY <1>6, <1>20, <1>21
  <2>2. ASSUME NEW i \in 0..n PROVE ~ P(cur, i)
    <3>1. i \in 0..m /\ m \in 0..m /\ i < m /\ m \in Nat
      BY <1>22
    <3>2. C[m][i] <= i /\ C[m][i] \in Nat
      BY <1>9, <3>1
    <3>3. ~ (m <= C[m][i])
      BY <3>1, <3>2
    <3> QED
      BY <1>0, <3>3
  <2>3. P(cur, m)
    <3>1. C[m][m] = m /\ m \in Nat
      BY <1>9, <1>22
    <3> QED
      BY <1>0, <3>1
  <2> QED
    BY <2>1, <2>2, <2>3
<1>25. Typed(b, f, m)
  <2>1. D = 0..(cur + 1) - 1 /\ cur + 1 \in Nat \ {0}
    BY <1>5, <1>23 DEF S
  <2>2. f \in [D -> 0..m]
    BY <1>2, <1>5, <1>6, <1>7, <1>22 DEF f, To
  <2>3. b.length \in [D -> Nat] /\ b.cnt \in [D -> Nat] /\ b.link \in [D -> D \cup {NoState}]
    <3>0. m \in Nat /\ 1 \in Nat
      BY <1>22
    <3>1. ASSUME NEW x \in D
          PROVE  b.length[x] \in Nat /\ b.cnt[x] \in Nat /\ b.link[x] \in D \cup {NoState}
      <4>1. CASE x \in S
        <5>1. l[x] \in Nat /\ a.cnt[x] \in Nat /\ a.link[x] \in S \cup {NoState}
          BY <1>2, <4>1
        <5> QED
          BY <1>5, <1>6, <4>1, <5>1
      <4>2. CASE x = cur
        BY <1>5, <1>6, <1>13, <3>0, <4>2
      <4> QED
        BY <1>5, <4>1, <4>2
    <3>2. b.length = [x \in D |-> b.length[x]] /\ b.cnt = [x \in D |-> b.cnt[x]]
          /\ b.link = [x \in D |-> b.link[x]]
      BY <1>4, <1>7 DEF To
    <3> QED
      BY <3>1, <3>2
  <2>4. ASSUME NEW x \in D PROVE b.next[x] \in [DOMAIN b.next[x] -> D]
    <3>1. CASE x = cur
      BY <1>8, <3>1 DEF NoTrans
    <3>2. CASE x \in bare
      <4>1. x \in S /\ a.next[x] \in [DOMAIN a.next[x] -> S] /\ cur \in D /\ S \subseteq D
        BY <1>2, <1>5, <1>13, <3>2
      <4>2. b.next[x] = To(a.next[x], tok, cur)
        BY <1>8, <3>2
      <4> QED
        BY <4>1, <4>2 DEF To
    <3>3. CASE x \in S \ bare
      <4>1. a.next[x] \in [DOMAIN a.next[x] -> S] /\ S \subseteq D
        BY <1>2, <1>5, <3>3
      <4> QED
        BY <1>8, <3>3, <4>1
    <3> QED
      BY <1>5, <3>1, <3>2, <3>3
  <2>5. \A x \in D : b.length[x] <= f[x]
    BY <1>2, <1>5, <1>6, <1>22
  <2>6. b.last \in D
    BY <1>5, <1>6
  <2> QED
    BY <1>7, <2>1, <2>2, <2>3, <2>4, <2>5, <2>6 DEF Typed, D
<1>26. Rooted(b)
  <2>1. m # 0
    BY <1>22
  <2>2. \A x \in D : b.length[x] = 0 => x = 0
    BY <1>2, <1>5, <1>6, <2>1
  <2> QED
    BY <1>2, <1>6, <2>2 DEF Rooted, D
<1>27. Apart(b, f, C)
  <2> SUFFICES ASSUME NEW x \in D, NEW y \in D, b.length[x] = b.length[y], P(x, f[y]) PROVE x = y
    BY DEF Apart, D, P
  <2>1. CASE x \in S /\ y \in S
    <3>1. l[x] = l[y] /\ O(x, e[y])
      BY <1>6, <1>24, <2>1
    <3> QED
      BY <1>14, <2>1, <3>1
  <2>2. CASE x = cur /\ y \in S
    <3>0. n < m /\ m \in Nat
      BY <1>22
    <3>1. l[y] = m /\ l[y] <= n /\ n < m /\ m \in Nat
      BY <1>2, <1>6, <2>2, <3>0
    <3> QED
      BY <3>1
  <2>3. CASE x \in S /\ y = cur
    <3>0. n < m /\ m \in Nat
      BY <1>22
    <3>1. l[x] = m /\ l[x] <= n /\ n < m /\ m \in Nat
      BY <1>2, <1>6, <2>3, <3>0
    <3> QED
      BY <3>1
  <2> QED
    BY <1>5, <2>1, <2>2, <2>3
<1>28. Branching(b, f, C, m)
  <2> SUFFICES ASSUME NEW x \in D PROVE \E i, j \in 0..m : P(x, i) /\ C[i][j] = b.length[x]
    BY DEF Branching, D, P
  <2>1. CASE x \in S
    <3>1. PICK i \in 0..n, j \in 0..n : O(x, i) /\ C[i][j] = l[x]
      BY <1>14, <2>1
    <3>2. i \in 0..m /\ j \in 0..m
      BY <1>22
    <3> QED
      BY <1>6, <1>24, <2>1, <3>1, <3>2
  <2>2. CASE x = cur
    <3>1. m \in 0..m /\ C[m][m] = m
      BY <1>9, <1>22
    <3> QED
      BY <1>6, <1>24, <2>2, <3>1
  <2> QED
    BY <1>5, <2>1, <2>2
<1>29. ASSUME NEW i \in 0..n
       PROVE  /\ \E x \in S : l[x] = C[m][i] /\ O(x, m)
              /\ \E x \in S : l[x] = C[i][m] /\ O(x, i)
  <2>1. PICK x \in S : l[x] = C[m][i] /\ O(x, m)
    <3>1. CASE C[m][i] < z
      BY <1>12, <3>1
    <3>2. CASE ~ (C[m][i] < z)
      <4>1. C[m][i] = z
        BY <1>9, <1>11, <1>22, <3>2
      <4> QED
        BY <1>13, <4>1
    <3> QED
      BY <3>1, <3>2
  <2>2. C[i][m] = C[m][i] /\ l[x] <= C[m][i]
    BY <1>2, <1>9, <1>22, <2>1
  <2>3. O(x, i)
    BY <1>10, <1>22, <2>1, <2>2
  <2> QED
    BY <2>1, <2>2, <2>3
<1>30. Complete(b, f, C, m)
  <2> SUFFICES ASSUME NEW i \in 0..m, NEW j \in 0..m
               PROVE \E x \in D : b.length[x] = C[i][j] /\ P(x, i)
    BY DEF Complete, D, P
  <2>1. CASE i \in 0..n /\ j \in 0..n
    <3>1. PICK x \in S : l[x] = C[i][j] /\ O(x, i)
      BY <1>14, <2>1
    <3> QED
      BY <1>5, <1>6, <1>24, <3>1
  <2>2. CASE i = m /\ j \in 0..n
    BY <1>5, <1>6, <1>24, <1>29, <2>2
  <2>3. CASE i \in 0..n /\ j = m
    BY <1>5, <1>6, <1>24, <1>29, <2>3
  <2>4. CASE i = m /\ j = m
    BY <1>5, <1>6, <1>9, <1>22, <1>24, <2>4
  <2> QED
    BY <1>22, <2>1, <2>2, <2>3, <2>4
<1>31. Linked(b, f, C)
  <2> SUFFICES ASSUME NEW x \in D, x # 0
               PROVE /\ b.link[x] \in D /\ b.length[b.link[x]] < b.length[x] /\ P(b.link[x], f[x])
                     /\ \A u \in D : b.length[u] < b.length[x] /\ P(u, f[x]) =>
                           b.length[u] <= b.length[b.link[x]]
    BY DEF Linked, LinkOf, D, P
  <2>1. CASE x \in S
    <3> DEFINE y == a.link[x]
    <3>1. y \in S /\ l[y] < l[x] /\ O(y, e[x]) /\ b.link[x] = y /\ f[x] = e[x] /\ b.length[x] = l[x]
      BY <1>6, <1>15, <2>1
    <3>2. \A u \in S : l[u] < l[x] /\ O(u, e[x]) => l[u] <= l[y]
      BY <1>15, <2>1
    <3> HIDE DEF y
    <3>3. b.length[y] = l[y] /\ P(y, f[x]) /\ y \in D
      BY <1>5, <1>6, <1>24, <3>1
    <3>4. ~ (b.length[cur] < l[x])
      BY <1>2, <1>6, <1>22, <2>1
    <3>5. \A u \in S : b.length[u] = l[u] /\ (P(u, f[x]) => O(u, e[x]))
      BY <1>6, <1>24, <3>1
    <3> QED
      BY <1>5, <3>1, <3>2, <3>3, <3>4, <3>5
  <2>2. CASE x = cur
    <3>1. w \in S /\ w \in D /\ b.link[x] = w /\ b.length[w] = z /\ b.length[x] = m /\ f[x] = m /\ P(w, m)
      BY <1>5, <1>6, <1>13, <1>24, <2>2
    <3>2. z < m
      BY <1>11, <1>22
    <3>3. \A u \in S : P(u, m) => b.length[u] <= z
      BY <1>6, <1>12, <1>24
    <3>4. ~ (b.length[cur] < b.length[x])
      BY <1>6, <1>22, <2>2
    <3> QED
      BY <1>5, <3>1, <3>2, <3>3, <3>4
  <2> QED
    BY <1>5, <2>1, <2>2
<1>32. ASSUME NEW x \in D, NEW j \in 0..m - 1, P(x, j)
       PROVE  /\ s[j + 1] \in DOMAIN b.next[x]
              /\ LET y == b.next[x][s[j + 1]]
                 IN  /\ y \in D /\ P(y, j + 1) /\ b.length[x] < b.length[y]
                     /\ \A u \in D : P(u, j + 1) /\ b.length[x] < b.length[u] =>
                           b.length[y] <= b.length[u]
  <2>1. x \in S /\ b.length[x] = l[x] /\ O(x, j)
    <3>1. j \in 0..n
      BY <1>22
    <3> QED
      BY <1>5, <1>6, <1>24, <1>32, <3>1
  <2>2. CASE j \in 0..n - 1
    <3> DEFINE t == s[j + 1]
               y == a.next[x][t]
               i == j + 1
    <3>1. /\ t \in DOMAIN a.next[x] /\ y \in S /\ O(y, i) /\ l[x] < l[y]
          /\ \A u \in S : O(u, i) /\ l[x] < l[u] => l[y] <= l[u]
      BY <1>16, <1>19, <2>1, <2>2
    <3>2. i \in 0..n /\ i \in 0..m
      BY <1>22, <2>2
    <3> HIDE DEF i, t
    <3>3. t \in DOMAIN b.next[x] /\ b.next[x][t] = y
      <4>1. CASE x \in bare
        <5>1. t # tok /\ b.next[x] = To(a.next[x], tok, cur)
          BY <1>8, <1>13, <3>1, <4>1 DEF Has
        <5> QED
          BY <3>1, <5>1 DEF To
      <4>2. CASE x \notin bare
        BY <1>8, <2>1, <3>1, <4>2
      <4> QED
        BY <4>1, <4>2
    <3> HIDE DEF y
    <3>4. y \in D /\ P(y, i) /\ b.length[x] < b.length[y]
      BY <1>5, <1>6, <1>24, <2>1, <3>1
    <3>5. \A u \in D : P(u, i) /\ b.length[x] < b.length[u] => b.length[y] <= b.length[u]
      BY <1>5, <1>6, <1>24, <2>1, <3>1, <3>2
    <3> QED
      BY <3>3, <3>4, <3>5 DEF t, i
  <2>3. CASE j = n /\ x \in bare
    <3>1. s[j + 1] = tok /\ j + 1 = m
      BY <1>22, <1>23, <2>3
    <3>2. tok \in DOMAIN b.next[x] /\ b.next[x][tok] = cur
      <4>1. b.next[x] = To(a.next[x], tok, cur)
        BY <1>8, <2>3
      <4> QED
        BY <4>1 DEF To
    <3>3. cur \in D /\ P(cur, m) /\ b.length[cur] = m /\ b.length[x] < m
      BY <1>2, <1>5, <1>6, <1>22, <1>24, <2>1
    <3>4. z <= l[x] /\ l[x] \in Nat /\ z \in Nat
      BY <1>2, <1>11, <1>12, <1>13, <2>1, <2>3
    <3>5. ASSUME NEW u \in D, P(u, m), b.length[x] < b.length[u] PROVE m <= b.length[u]
      <4>1. CASE u \in S
        <5>1. l[u] <= z /\ l[u] \in Nat /\ b.length[u] = l[u]
          BY <1>2, <1>6, <1>12, <1>24, <3>5, <4>1
        <5> QED
          BY <2>1, <3>4, <3>5, <5>1
      <4>2. CASE u = cur
        BY <1>6, <1>22, <4>2
      <4> QED
        BY <1>5, <4>1, <4>2
    <3> QED
      BY <3>1, <3>2, <3>3, <3>5
  <2>4. CASE j = n /\ x \notin bare
    <3> DEFINE y == a.next[x][tok]
               h == k - 1
    <3>1. O(x, n) /\ Has(x) /\ 0 < z /\ O(x, h) /\ l[x] < z
      BY <1>12, <1>13, <2>1, <2>4
    <3>2. s[j + 1] = tok /\ j + 1 = m
      BY <1>22, <1>23, <2>4
    <3>3. h \in 0..n - 1 /\ h + 1 = k /\ s[k] = tok
      BY <1>11, <3>1
    <3> HIDE DEF h
    <3>4. /\ y \in S /\ O(y, k) /\ l[x] < l[y]
          /\ \A u \in S : O(u, k) /\ l[x] < l[u] => l[y] <= l[u]
      <4>1. StepTo(a, e, C, x, h, a.next[x][s[h + 1]])
        BY <1>16, <2>1, <3>1, <3>3
      <4>2. StepTo(a, e, C, x, h, y)
        BY <3>3, <4>1
      <4> HIDE DEF y
      <4> QED
        BY <1>19, <3>3, <4>2
    <3>5. b.next[x] = a.next[x] /\ tok \in DOMAIN b.next[x] /\ b.next[x][tok] = y
      BY <1>8, <2>1, <2>4, <3>1 DEF Has
    <3> HIDE DEF y
    <3>6. l[y] <= z
      BY <1>12, <1>13, <3>1, <3>4
    <3>7. y \in D /\ P(y, m) /\ b.length[y] = l[y]
      BY <1>5, <1>6, <1>12, <1>24, <3>4, <3>6
    <3>8. ASSUME NEW u \in D, P(u, m), b.length[x] < b.length[u] PROVE b.length[y] <= b.length[u]
      <4>1. CASE u \in S
        BY <1>6, <1>12, <1>24, <2>1, <3>4, <3>7, <3>8, <4>1
      <4>2. CASE u = cur
        BY <1>2, <1>6, <1>22, <3>4, <3>7, <4>2
      <4> QED
        BY <1>5, <4>1, <4>2
    <3> QED
      BY <2>1, <3>2, <3>4, <3>5, <3>7, <3>8
  <2> QED
    BY <1>22, <2>2, <2>3, <2>4
<1>33. ASSUME NEW x \in D, NEW t \in DOMAIN b.next[x]
       PROVE  \E j \in 0..m - 1 : P(x, j) /\ s[j + 1] = t
  <2>1. x # cur
    BY <1>8 DEF NoTrans
  <2>2. x \in S
    BY <1>5, <2>1
  <2>3. CASE t \in DOMAIN a.next[x]
    <3>1. PICK j \in 0..n - 1 : O(x, j) /\ s[j + 1] = t
      BY <1>17, <2>2, <2>3
    <3> QED
      BY <1>22, <1>24, <2>2, <3>1
  <2>4. CASE t \notin DOMAIN a.next[x]
    <3>1. x \in bare
      BY <1>8, <2>2, <2>4
    <3>2. t = tok
      <4>1. b.next[x] = To(a.next[x], tok, cur)
        BY <1>8, <3>1
      <4> QED
        BY <2>4, <4>1 DEF To
    <3>3. P(x, n) /\ s[n + 1] = t
      BY <1>13, <1>22, <1>23, <1>24, <2>2, <3>1, <3>2
    <3> QED
      BY <1>22, <3>3
  <2> QED
    BY <2>3, <2>4
<1>34. Moving(b, f, C, s, m)
  BY <1>32, <1>33 DEF Moving, StepTo, D, P
<1>35. AtEnd(b, f, m)
  BY <1>6 DEF AtEnd
<1>36. Marked(b, f, C)
  <2> SUFFICES ASSUME NEW x \in D
               PROVE  b.cnt[x] = IF 0 < b.length[x] /\ P(x, b.length[x]) THEN 1 ELSE 0
    BY DEF Marked, D, P
  <2>1. CASE x \in S
    BY <1>6, <1>18, <1>24, <2>1
  <2>2. CASE x = cur
    BY <1>6, <1>22, <1>24, <2>2
  <2> QED
    BY <1>5, <2>1, <2>2
<1>37. Built(b, f, C, s, m)
  BY <1>25, <1>26, <1>27, <1>28, <1>30, <1>31, <1>34, <1>35, <1>36 DEF Built
<1> QED
  BY <1>5, <1>6, <1>13, <1>24, <1>37 DEF f, m, D, P

\* The states whose transition a split redirects.
LEMMA LeadingFacts ==
    ASSUME NEW a, NEW e, NEW C, NEW s, NEW n \in Nat,
           Built(a, e, C, s, n), Tree(C, s, n + 1),
           NEW z, NEW k, Joint(a, e, C, s, n, z, k), JointStates(a, e, C, s, n, z, k),
           NEW p, p # NoState, JointState(a, e, C, s, n, z, k, p),
           NEW cur, cur \notin States(a), cur # NoState,
           NEW tok, tok = s[n + 1], NEW q, q = a.next[p][tok]
    PROVE  LeadingTo(Grown(a, tok, cur, Bare(a, p)), p, tok, q) =
              {x \in States(a) : /\ On(a, e, C, x, n) /\ a.length[x] <= a.length[p]
                                 /\ a.next[x][tok] = q}
<1> DEFINE l == a.length
           S == States(a)
           O(x, i) == On(a, e, C, x, i)
           m == n + 1
           b == Grown(a, tok, cur, Bare(a, p))
           H == {u \in S : O(u, n) /\ l[u] <= l[p]}
           h == k - 1
<1>1. /\ Typed(a, e, n) /\ Rooted(a) /\ Apart(a, e, C) /\ Linked(a, e, C)
      /\ Moving(a, e, C, s, n) /\ m \in Nat /\ n <= m /\ m = n + 1
  BY DEF Built
<1>2. /\ \A x \in S : l[x] \in Nat /\ e[x] \in 0..n /\ a.next[x] \in [DOMAIN a.next[x] -> S]
      /\ DOMAIN a.next = S /\ DOMAIN l = S
  <2>1. Shape(a, e, n)
    BY BuiltFacts
  <2> QED
    BY <2>1 DEF Shape
<1>3. /\ p \in S /\ z = l[p] + 1 /\ O(p, n) /\ O(p, h) /\ tok \in DOMAIN a.next[p]
      /\ Bare(a, p) = {x \in S : O(x, n) /\ tok \notin DOMAIN a.next[x]}
  BY DEF JointState, Bare
<1>4. /\ z \in 0..n /\ k \in 0..n /\ (0 < z => 0 < k /\ s[k] = tok)
  BY DEF Joint
<1>5. /\ \A x \in S : O(x, e[x])
      /\ \A x \in S : \A i, j \in 0..m : O(x, i) /\ O(x, j) => l[x] <= C[i][j]
      /\ \A x \in S : \A i, j \in 0..m : O(x, i) /\ l[x] <= C[i][j] => O(x, j)
      /\ \A x, y \in S : \A i \in 0..m : O(x, i) /\ O(y, i) /\ l[x] = l[y] => x = y
  BY <1>1, OnFacts
<1>6. \A i, j \in 0..m : C[i][j] \in Nat
  BY DEF Tree
<1>7. \A x \in S : \A j \in 0..n - 1 : O(x, j) =>
         s[j + 1] \in DOMAIN a.next[x] /\ StepTo(a, e, C, x, j, a.next[x][s[j + 1]])
  BY <1>1 DEF Moving
<1>8. \A x, y, j : StepTo(a, e, C, x, j, y) <=>
          /\ y \in S /\ O(y, j + 1) /\ l[x] < l[y]
          /\ \A u \in S : O(u, j + 1) /\ l[x] < l[u] => l[y] <= l[u]
  BY DEF StepTo
<1>9. Climb(a, p) = {u \in S : l[u] <= l[p] /\ O(u, e[p])}
  <2>1. \A x \in States(a) :
           Climb(a, x) = {u \in States(a) : a.length[u] <= a.length[x] /\ On(a, e, C, u, e[x])}
    BY <1>1, ClimbFacts
  <2> QED
    BY <1>3, <2>1
<1>10. /\ b.length = To(l, cur, l[a.last] + 1) /\ b.link = To(a.link, cur, 0)
       /\ b.next = Sent(To(a.next, cur, NoTrans), Bare(a, p), tok, cur)
  BY DEF Grown, Automaton
<1>11. cur \notin S
  OBVIOUS
<1>12. Climb(b, p) = Climb(a, p)
  <2> HIDE DEF b
  <2>1. \A x \in States(a) : Climb(b, x) = Climb(a, x)
    BY <1>1, <1>10, GrownClimb
  <2> QED
    BY <1>3, <2>1
<1>13. LeadingTo(b, p, tok, q) =
          {x \in Climb(b, p) : \A t \in Climb(b, p) : b.length[t] >= b.length[x] => b.next[t][tok] = q}
  BY DEF LeadingTo
<1> HIDE DEF l, S, O, m, b, H, h
<1>14. h \in 0..n - 1 /\ h + 1 = k /\ s[k] = tok /\ h \in 0..m /\ k \in 0..m /\ n \in 0..m
       /\ (\A i \in 0..n : i \in 0..m)
  <2>1. 0 < k /\ s[k] = tok /\ k \in 0..n
    BY <1>2, <1>3, <1>4
  <2> QED
    BY <1>1, <2>1 DEF h
<1>15. ASSUME NEW u \in S, l[u] <= l[p] PROVE /\ O(u, e[p]) <=> O(u, n)
                                              /\ O(u, n) => O(u, h)
  <2>1. l[p] <= C[e[p]][n] /\ l[p] <= C[n][e[p]] /\ l[p] <= C[n][h]
    BY <1>2, <1>3, <1>5, <1>14
  <2>2. e[p] \in 0..m /\ C[e[p]][n] \in Nat /\ C[n][e[p]] \in Nat /\ C[n][h] \in Nat
        /\ l[u] \in Nat /\ l[p] \in Nat
    BY <1>2, <1>3, <1>6, <1>14
  <2>3. l[u] <= C[e[p]][n] /\ l[u] <= C[n][e[p]] /\ l[u] <= C[n][h]
    BY <1>15, <2>1, <2>2
  <2> QED
    BY <1>5, <1>14, <2>2, <2>3
<1>16. Climb(b, p) = H
  BY <1>9, <1>12, <1>15 DEF H
<1>17. ASSUME NEW t \in H
       PROVE  /\ b.length[t] = l[t] /\ b.next[t] = a.next[t] /\ O(t, h) /\ tok \in DOMAIN a.next[t]
              /\ StepTo(a, e, C, t, h, a.next[t][tok])
  <2>1. t \in S /\ O(t, n) /\ l[t] <= l[p] /\ t # cur
    BY <1>11 DEF H
  <2>2. O(t, h)
    BY <1>15, <2>1
  <2>3. s[h + 1] \in DOMAIN a.next[t] /\ StepTo(a, e, C, t, h, a.next[t][s[h + 1]])
    BY <1>7, <1>14, <2>1, <2>2
  <2>4. tok \in DOMAIN a.next[t] /\ StepTo(a, e, C, t, h, a.next[t][tok])
    BY <1>14, <2>3
  <2>5. t \notin Bare(a, p)
    BY <1>3, <2>4
  <2>6. b.length[t] = l[t]
    BY <1>2, <1>10, <2>1 DEF To
  <2>7. b.next[t] = a.next[t]
    <3>1. To(a.next, cur, NoTrans)[t] = a.next[t] /\ t \in DOMAIN To(a.next, cur, NoTrans)
      BY <1>2, <2>1 DEF To
    <3> DEFINE g == To(a.next, cur, NoTrans)
    <3> HIDE DEF g
    <3>2. Sent(g, Bare(a, p), tok, cur)[t] = g[t]
      BY <2>5, <3>1 DEF Sent, g
    <3> QED
      BY <1>10, <3>1, <3>2 DEF g
  <2> QED
    BY <2>2, <2>4, <2>6, <2>7
<1>18. ASSUME NEW x \in H, NEW t \in H, a.next[x][tok] = q, l[x] <= l[t]
       PROVE  a.next[t][tok] = q
  <2> DEFINE r == a.next[t][tok]
  <2>1. /\ q \in S /\ O(q, k) /\ l[x] < l[q]
        /\ \A u \in S : O(u, k) /\ l[x] < l[u] => l[q] <= l[u]
    BY <1>8, <1>14, <1>17, <1>18
  <2>2. StepTo(a, e, C, t, h, r)
    BY <1>17
  <2> HIDE DEF r
  <2>3. /\ r \in S /\ O(r, k) /\ l[t] < l[r]
        /\ \A u \in S : O(u, k) /\ l[t] < l[u] => l[r] <= l[u]
    BY <1>8, <1>14, <2>2
  <2>4. StepTo(a, e, C, p, h, q)
    <3>1. p \in H
      BY <1>2, <1>3 DEF H
    <3> QED
      BY <1>17, <3>1
  <2>5. l[p] < l[q]
    BY <1>8, <2>4
  <2>6. l[t] <= l[p] /\ l[t] \in Nat /\ l[p] \in Nat /\ l[q] \in Nat /\ l[r] \in Nat /\ l[x] \in Nat
    BY <1>2, <1>3, <2>1, <2>3 DEF H
  <2>7. l[t] < l[q] /\ l[x] < l[r]
    BY <1>18, <2>3, <2>5, <2>6
  <2>8. l[r] <= l[q] /\ l[q] <= l[r]
    BY <2>1, <2>3, <2>7
  <2>9. l[r] = l[q]
    BY <2>6, <2>8
  <2>10. r = q
    BY <1>5, <1>14, <2>1, <2>3, <2>9
  <2> QED
    BY <2>10 DEF r
<1>19. \A t \in H : b.length[t] = l[t] /\ b.next[t] = a.next[t] /\ l[t] \in Nat
  BY <1>2, <1>17 DEF H
<1>20. LeadingTo(b, p, tok, q) = {x \in H : \A t \in H : l[t] >= l[x] => a.next[t][tok] = q}
  BY <1>13, <1>16, <1>19
<1>21. {x \in H : \A t \in H : l[t] >= l[x] => a.next[t][tok] = q} = {x \in H : a.next[x][tok] = q}
  <2>1. ASSUME NEW x \in H, \A t \in H : l[t] >= l[x] => a.next[t][tok] = q
        PROVE  a.next[x][tok] = q
    BY <1>19, <2>1
  <2>2. ASSUME NEW x \in H, a.next[x][tok] = q, NEW t \in H, l[t] >= l[x]
        PROVE  a.next[t][tok] = q
    BY <1>18, <1>19, <2>2
  <2> QED
    BY <2>1, <2>2
<1> QED
  BY <1>20, <1>21 DEF b, H, O, S, l

\* The new suffix was no longest word: the state q, where it belonged, is split.
SplitCase(a, e, C, s, n, z, k, tok, p, q, cur, bare, R, c, b) ==
    /\ Built(a, e, C, s, n) /\ Tree(C, s, n + 1)
    /\ Joint(a, e, C, s, n, z, k) /\ JointStates(a, e, C, s, n, z, k)
    /\ tok = s[n + 1]
    /\ p \in States(a) /\ z = a.length[p] + 1
    /\ On(a, e, C, p, n) /\ On(a, e, C, p, k - 1) /\ tok \in DOMAIN a.next[p]
    /\ q = a.next[p][tok] /\ a.length[q] # z
    /\ cur \in Nat \ {0} /\ States(a) = 0..cur - 1 /\ c = cur + 1
    /\ bare = {x \in States(a) : On(a, e, C, x, n) /\ tok \notin DOMAIN a.next[x]}
    /\ R = {x \in States(a) : /\ On(a, e, C, x, n) /\ a.length[x] <= a.length[p]
                              /\ a.next[x][tok] = q}
    /\ b = Splitting(a, tok, cur, bare, c, p, q, R)

\* Append1 with a split keeps what is built.
LEMMA SplitBuilt ==
    ASSUME NEW a, NEW e, NEW C, NEW s, NEW n \in Nat, NEW z, NEW k, NEW tok,
           NEW p, NEW q, NEW cur, NEW bare, NEW R, NEW c, NEW b,
           SplitCase(a, e, C, s, n, z, k, tok, p, q, cur, bare, R, c, b)
    PROVE  /\ Built(b, To(To(e, cur, n + 1), c, n + 1), C, s, n + 1)
           /\ c \in States(b) /\ b.length[c] = z
           /\ On(b, To(To(e, cur, n + 1), c, n + 1), C, c, n + 1)
           /\ q \in States(b) /\ b.link[q] = c /\ b.next[q] = b.next[c]
<1> DEFINE l == a.length
           S == States(a)
           O(x, i) == On(a, e, C, x, i)
           m == n + 1
           f == To(To(e, cur, m), c, m)
           D == States(b)
           P(x, i) == On(b, f, C, x, i)
           Has(x) == tok \in DOMAIN a.next[x]
           h == k - 1
           A0 == To(a.next, cur, NoTrans)
           A1 == Sent(A0, bare, tok, cur)
           A2 == To(A1, c, A1[q])
           B1 == To(a.link, cur, 0)
           L1 == To(l, cur, l[a.last] + 1)
           N1 == To(a.cnt, cur, 1)
<1>1. /\ Typed(a, e, n) /\ Rooted(a) /\ Apart(a, e, C) /\ Branching(a, e, C, n)
      /\ Complete(a, e, C, n) /\ Linked(a, e, C) /\ Moving(a, e, C, s, n)
      /\ AtEnd(a, e, n) /\ Marked(a, e, C) /\ m \in Nat /\ n <= m
      /\ Built(a, e, C, s, n) /\ Tree(C, s, m)
  BY DEF Built, SplitCase
<1>2. /\ \A x \in S : /\ l[x] \in Nat /\ e[x] \in 0..n
                      /\ l[x] <= e[x] /\ l[x] <= n
                      /\ a.link[x] \in S \cup {NoState} /\ a.cnt[x] \in Nat
                      /\ a.next[x] \in [DOMAIN a.next[x] -> S]
      /\ a.last \in S /\ l[a.last] = n /\ e[a.last] = n
      /\ DOMAIN a.next = S /\ DOMAIN a.link = S
      /\ DOMAIN l = S /\ DOMAIN a.cnt = S /\ DOMAIN e = S
      /\ 0 \in S /\ NoState \notin S /\ l[0] = 0 /\ a.link[0] = NoState
      /\ \A x \in S : l[x] = 0 => x = 0
  <2>1. Shape(a, e, n)
    BY <1>1, BuiltFacts
  <2> QED
    BY <2>1 DEF Shape
<1>3. cur \notin S /\ c \notin S /\ c # cur /\ cur # 0 /\ c # 0 /\ cur # NoState /\ c # NoState
  <2>1. cur \in Nat \ {0} /\ States(a) = 0..cur - 1 /\ c = cur + 1
    BY DEF SplitCase
  <2> QED
    BY <2>1 DEF NoState
<1>4. /\ b.length = To(L1, c, L1[p] + 1)
      /\ b.link = [To(B1, c, B1[q]) EXCEPT ![q] = c, ![cur] = c]
      /\ b.cnt = To(N1, c, 0) /\ b.last = cur
      /\ b.next = Sent(A2, R, tok, c)
  <2>1. b = Splitting(a, tok, cur, bare, c, p, q, R)
    BY DEF SplitCase
  <2> QED
    BY <2>1 DEF Splitting, Automaton
<1>5. D = S \cup {cur, c}
  BY <1>4 DEF To, States
<1>6. /\ \A i, j \in 0..m : C[i][j] \in Nat /\ C[i][j] <= i /\ C[i][j] <= j /\ C[i][j] = C[j][i]
      /\ \A i \in 0..m : C[i][i] = i
      /\ \A i, j, g \in 0..m : C[i][j] <= C[i][g] \/ C[j][g] <= C[i][g]
      /\ \A i, j \in 0..m - 1 : /\ s[i + 1] = s[j + 1] => C[i + 1][j + 1] = C[i][j] + 1
                                /\ s[i + 1] # s[j + 1] => C[i + 1][j + 1] = 0
  BY <1>1 DEF Tree
<1>7. /\ \A x \in S : O(x, e[x])
      /\ \A x \in S : \A i, j \in 0..m : O(x, i) /\ O(x, j) => l[x] <= C[i][j]
      /\ \A x \in S : \A i, j \in 0..m : O(x, i) /\ l[x] <= C[i][j] => O(x, j)
      /\ \A x \in S : \A i \in 0..m : O(x, i) => l[x] <= i
      /\ \A x, y \in S : \A i \in 0..m : O(x, i) /\ O(y, i) /\ l[x] = l[y] => x = y
  BY <1>1, OnFacts
<1>8. /\ z \in 0..n /\ k \in 0..n /\ C[m][k] = z
      /\ \A i \in 0..n : C[m][i] <= z
      /\ 0 < z => 0 < k /\ s[k] = tok
  BY DEF Joint, SplitCase
<1>9. /\ \A x \in S : O(x, m) <=> O(x, k) /\ l[x] <= z
      /\ \A x \in S : O(x, n) /\ ~ Has(x) => z <= l[x]
      /\ \A x \in S : O(x, n) /\ Has(x) => 0 < z /\ O(x, h) /\ l[x] < z
      /\ \A i \in 0..n : C[m][i] < z => \E x \in S : l[x] = C[m][i] /\ O(x, m)
  BY DEF JointStates, SplitCase
<1>10. /\ bare = {x \in S : O(x, n) /\ ~ Has(x)}
       /\ R = {x \in S : O(x, n) /\ l[x] <= l[p] /\ a.next[x][tok] = q}
       /\ p \in S /\ z = l[p] + 1 /\ O(p, n) /\ O(p, h) /\ Has(p) /\ l[q] # z
       /\ q = a.next[p][tok]
  BY DEF SplitCase
<1>11. /\ \A x, y \in S : l[x] = l[y] /\ O(x, e[y]) => x = y
       /\ \A x \in S : \E i, j \in 0..n : O(x, i) /\ C[i][j] = l[x]
       /\ \A i, j \in 0..n : \E x \in S : l[x] = C[i][j] /\ O(x, i)
  BY <1>1 DEF Apart, Branching, Complete
<1>12. \A x \in S \ {0} :
          /\ a.link[x] \in S /\ l[a.link[x]] < l[x] /\ O(a.link[x], e[x])
          /\ \A u \in S : l[u] < l[x] /\ O(u, e[x]) => l[u] <= l[a.link[x]]
  BY <1>1 DEF Linked, LinkOf
<1>13. \A x \in S : \A j \in 0..n - 1 : O(x, j) =>
          /\ s[j + 1] \in DOMAIN a.next[x]
          /\ StepTo(a, e, C, x, j, a.next[x][s[j + 1]])
  BY <1>1 DEF Moving
<1>14. \A x \in S : \A t \in DOMAIN a.next[x] : \E j \in 0..n - 1 : O(x, j) /\ s[j + 1] = t
  BY <1>1 DEF Moving
<1>15. \A x \in S : a.cnt[x] = IF 0 < l[x] /\ O(x, l[x]) THEN 1 ELSE 0
  BY <1>1 DEF Marked
<1>16. \A x, y, j : StepTo(a, e, C, x, j, y) <=>
          /\ y \in S /\ O(y, j + 1) /\ l[x] < l[y]
          /\ \A u \in S : O(u, j + 1) /\ l[x] < l[u] => l[y] <= l[u]
  BY DEF StepTo
<1>17. \A x, i : P(x, i) <=> b.length[x] <= C[f[x]][i]
  BY DEF On
<1>18. \A x, i : O(x, i) <=> l[x] <= C[e[x]][i]
  BY DEF On
<1>19. m = n + 1 /\ m \in Nat /\ m \in 0..m /\ (\A i \in 0..n : i \in 0..m /\ i < m)
       /\ (\A i \in 0..m : i \in 0..n \/ i = m)
       /\ (\A i \in 0..m - 1 : i \in 0..n - 1 \/ i = n)
       /\ (\A i \in 0..n - 1 : i \in 0..n /\ i + 1 \in 0..n /\ i + 1 \in 0..m /\ i \in 0..m - 1)
       /\ n \in 0..m - 1 /\ n \in 0..n /\ n < m
  OBVIOUS
<1>20. States(a) = 0..cur - 1 /\ c = cur + 1 /\ tok = s[m] /\ cur \in Nat \ {0}
  BY DEF SplitCase
<1>21. /\ l[p] \in Nat /\ 0 < z /\ k \in 0..m /\ h \in 0..n - 1 /\ h \in 0..m /\ h + 1 = k /\ s[k] = tok
       /\ z \in Nat
  <2>1. l[p] \in Nat /\ 0 < z
    BY <1>2, <1>10
  <2> QED
    BY <1>8, <2>1
<1>22. /\ q \in S /\ O(q, k) /\ z < l[q] /\ l[q] \in Nat /\ O(q, e[q]) /\ e[q] \in 0..n
       /\ \A u \in S : O(u, k) /\ z <= l[u] => l[q] <= l[u]
  <2>1. StepTo(a, e, C, p, h, a.next[p][s[h + 1]])
    BY <1>10, <1>13, <1>21
  <2>2. StepTo(a, e, C, p, h, q)
    BY <1>10, <1>21, <2>1
  <2>3. /\ q \in S /\ O(q, k) /\ l[p] < l[q]
        /\ \A u \in S : O(u, k) /\ l[p] < l[u] => l[q] <= l[u]
    BY <1>16, <1>21, <2>2
  <2> HIDE DEF l, S, O, h
  <2>4. l[q] \in Nat /\ O(q, e[q]) /\ e[q] \in 0..n /\ z < l[q]
    <3>1. l[q] \in Nat /\ e[q] \in 0..n /\ O(q, e[q])
      BY <1>2, <1>7, <2>3
    <3>2. l[p] < l[q] /\ z = l[p] + 1 /\ l[q] # z /\ l[p] \in Nat
      BY <1>10, <1>21, <2>3
    <3>3. z < l[q]
      BY <3>1, <3>2
    <3> QED
      BY <3>1, <3>3
  <2>5. \A u \in S : z <= l[u] => l[p] < l[u]
    BY <1>2, <1>10, <1>21
  <2> QED
    BY <2>3, <2>4, <2>5
<1>23. (\A x \in S : x # cur /\ x # c) /\ c # cur /\ q # cur /\ q # c /\ p # cur
  BY <1>3, <1>10, <1>22
<1>24. (\A x \in S : b.length[x] = l[x]) /\ b.length[cur] = m /\ b.length[c] = z /\ DOMAIN b.length = D
  <2>1. l[a.last] + 1 = m
    BY <1>2
  <2>2. L1 = To(l, cur, m)
    BY <2>1
  <2> HIDE DEF L1, m, l, S, D
  <2>3. L1[p] = l[p] /\ DOMAIN L1 = S \cup {cur}
    BY <1>2, <1>10, <1>23, <2>2 DEF To
  <2>4. b.length = To(L1, c, z)
    BY <1>4, <1>10, <2>3
  <2>5. (\A x \in S : L1[x] = l[x]) /\ L1[cur] = m
    BY <1>2, <1>23, <2>2 DEF To
  <2> QED
    BY <1>5, <1>23, <2>3, <2>4, <2>5 DEF To
<1>25. (\A x \in S : f[x] = e[x]) /\ f[cur] = m /\ f[c] = m /\ DOMAIN f = D
  <2> DEFINE f1 == To(e, cur, m)
  <2> HIDE DEF m, S, D
  <2>1. DOMAIN f1 = S \cup {cur} /\ (\A x \in S : f1[x] = e[x]) /\ f1[cur] = m
    BY <1>2, <1>23 DEF To
  <2> HIDE DEF f1
  <2>2. f = To(f1, c, m)
    BY DEF f1
  <2> HIDE DEF f
  <2> QED
    BY <1>5, <1>23, <2>1, <2>2 DEF To
<1>26. (\A x \in S : b.cnt[x] = a.cnt[x]) /\ b.cnt[cur] = 1 /\ b.cnt[c] = 0 /\ DOMAIN b.cnt = D
  <2> HIDE DEF S, D
  <2>1. DOMAIN N1 = S \cup {cur} /\ (\A x \in S : N1[x] = a.cnt[x]) /\ N1[cur] = 1
    BY <1>2, <1>23 DEF To
  <2>2. b.cnt = To(N1, c, 0)
    BY <1>4
  <2> HIDE DEF N1
  <2> QED
    BY <1>5, <1>23, <2>1, <2>2 DEF To
<1>27. /\ \A x \in S \ {q} : b.link[x] = a.link[x]
       /\ b.link[q] = c /\ b.link[cur] = c /\ b.link[c] = a.link[q] /\ DOMAIN b.link = D
  <2> HIDE DEF S, D
  <2>1. DOMAIN B1 = S \cup {cur} /\ (\A x \in S : B1[x] = a.link[x])
    BY <1>2, <1>23 DEF To
  <2> DEFINE B2 == To(B1, c, B1[q])
  <2> HIDE DEF B1
  <2>2. DOMAIN B2 = D /\ (\A x \in S : B2[x] = a.link[x]) /\ B2[c] = a.link[q]
    BY <1>5, <1>22, <1>23, <2>1 DEF To
  <2> HIDE DEF B2
  <2>3. b.link = [B2 EXCEPT ![q] = c, ![cur] = c]
    BY <1>4 DEF B2
  <2>4. cur \in D /\ c \in D /\ q \in D /\ S \subseteq D
    BY <1>5, <1>22
  <2>5. b.link = [x \in D |-> IF x = cur THEN c ELSE IF x = q THEN c ELSE B2[x]]
    BY <2>2, <2>3, <2>4
  <2>6. (\A x \in S \ {q} : b.link[x] = B2[x]) /\ b.link[q] = c /\ b.link[cur] = c
        /\ b.link[c] = B2[c] /\ DOMAIN b.link = D
    BY <1>23, <2>4, <2>5
  <2> QED
    BY <2>2, <2>6
<1>28. /\ \A x \in (S \ bare) \ R : b.next[x] = a.next[x]
       /\ \A x \in bare : b.next[x] = To(a.next[x], tok, cur)
       /\ \A x \in R : b.next[x] = To(a.next[x], tok, c)
       /\ b.next[cur] = NoTrans
       /\ q \in bare => b.next[c] = To(a.next[q], tok, cur)
       /\ q \notin bare => b.next[c] = a.next[q]
       /\ DOMAIN b.next = D
  <2>1. DOMAIN A0 = S \cup {cur} /\ (\A x \in S : A0[x] = a.next[x]) /\ A0[cur] = NoTrans
    <3> HIDE DEF S
    <3> QED
      BY <1>2, <1>23 DEF To
  <2>2. bare \subseteq S /\ R \subseteq S
    BY <1>10
  <2>3. \A x \in bare : x \notin R
    <3> SUFFICES ASSUME NEW x \in bare, x \in R PROVE FALSE
      OBVIOUS
    <3>1. x \in S /\ z <= l[x] /\ l[x] <= l[p]
      BY <1>9, <1>10
    <3> HIDE DEF l, S
    <3> QED
      BY <1>2, <1>10, <1>21, <3>1
  <2> HIDE DEF S, D, A0
  <2>4. /\ DOMAIN A1 = S \cup {cur} /\ (\A x \in S \ bare : A1[x] = a.next[x])
        /\ \A x \in bare : A1[x] = To(a.next[x], tok, cur)
        /\ A1[cur] = NoTrans
    <3>1. \A x \in S \cup {cur} : A1[x] = IF x \in bare THEN To(A0[x], tok, cur) ELSE A0[x]
      BY <2>1 DEF Sent
    <3>2. DOMAIN A1 = S \cup {cur}
      BY <2>1 DEF Sent
    <3> HIDE DEF A1
    <3> QED
      BY <1>23, <2>1, <2>2, <3>1, <3>2
  <2> HIDE DEF A1
  <2>5. DOMAIN A2 = D /\ (\A x \in S : A2[x] = A1[x]) /\ A2[cur] = A1[cur] /\ A2[c] = A1[q]
    BY <1>5, <1>23, <2>4 DEF To
  <2> HIDE DEF A2
  <2>6. /\ \A x \in D : b.next[x] = IF x \in R THEN To(A2[x], tok, c) ELSE A2[x]
        /\ DOMAIN b.next = D
    BY <1>4, <2>5 DEF Sent
  <2>7. \A x \in R : b.next[x] = To(a.next[x], tok, c)
    <3> SUFFICES ASSUME NEW x \in R PROVE b.next[x] = To(a.next[x], tok, c)
      OBVIOUS
    <3>1. x \in D /\ x \in S \ bare
      BY <1>5, <2>2, <2>3
    <3>2. A2[x] = a.next[x]
      BY <2>4, <2>5, <3>1
    <3> QED
      BY <2>6, <3>1, <3>2
  <2>8. cur \notin R /\ c \notin R /\ cur \in D /\ c \in D /\ S \subseteq D
    BY <1>5, <1>23, <2>2
  <2>9. \A x \in D \ R : b.next[x] = A2[x]
    BY <2>6
  <2>10. b.next[cur] = NoTrans
    BY <2>4, <2>5, <2>8, <2>9
  <2>11. b.next[c] = A1[q]
    BY <2>5, <2>8, <2>9
  <2>12. \A x \in S \ R : b.next[x] = A1[x]
    BY <2>5, <2>8, <2>9
  <2>13. \A x \in bare : x \in S \ R
    BY <2>2, <2>3
  <2>14. \A x \in bare : b.next[x] = To(a.next[x], tok, cur)
    BY <2>4, <2>12, <2>13
  <2>15. \A x \in (S \ bare) \ R : b.next[x] = a.next[x]
    BY <2>4, <2>12
  <2>16. (q \in bare => b.next[c] = To(a.next[q], tok, cur)) /\ (q \notin bare => b.next[c] = a.next[q])
    BY <1>22, <2>4, <2>11
  <2> QED
    BY <2>6, <2>7, <2>10, <2>14, <2>15, <2>16
<1> HIDE DEF l, S, O, m, f, D, P, Has, h, A0, A1, A2, B1, L1, N1
<1>29. /\ \A x \in S : \A i : P(x, i) <=> O(x, i)
       /\ \A i \in 0..n : ~ P(cur, i)
       /\ P(cur, m)
       /\ \A i : P(c, i) <=> z <= C[m][i]
  <2>1. \A x \in S : \A i : P(x, i) <=> O(x, i)
    BY <1>17, <1>18, <1>24, <1>25
  <2>2. (\A i : P(cur, i) <=> m <= C[m][i]) /\ (\A i : P(c, i) <=> z <= C[m][i])
    BY <1>17, <1>24, <1>25
  <2>3. ASSUME NEW i \in 0..n PROVE ~ P(cur, i)
    <3>1. i \in 0..m /\ m \in 0..m /\ i < m /\ m \in Nat
      BY <1>19
    <3>2. C[m][i] <= i /\ C[m][i] \in Nat
      BY <1>6, <3>1
    <3>3. ~ (m <= C[m][i])
      BY <3>1, <3>2
    <3> QED
      BY <2>2, <3>3
  <2>4. P(cur, m)
    <3>1. C[m][m] = m /\ m \in Nat
      BY <1>6, <1>19
    <3> QED
      BY <2>2, <3>1
  <2> QED
    BY <2>1, <2>2, <2>3, <2>4
<1>30. ASSUME NEW i \in 0..n PROVE /\ P(c, i) => C[m][i] = z /\ O(q, i) /\ 0 < i
                                   /\ O(q, i) => P(c, i)
  <2>0. i \in 0..m /\ m \in 0..m /\ k \in 0..m /\ C[m][i] \in Nat /\ C[i][k] \in Nat /\ C[k][i] \in Nat
        /\ C[m][i] <= z /\ C[i][m] = C[m][i]
    BY <1>6, <1>8, <1>19, <1>21
  <2>1. ASSUME P(c, i) PROVE C[m][i] = z /\ O(q, i) /\ 0 < i
    <3>1. C[m][i] = z
      <4>1. z <= C[m][i] /\ C[m][i] <= z /\ C[m][i] \in Nat /\ z \in Nat
        BY <1>21, <1>29, <2>0, <2>1
      <4> QED
        BY <4>1
    <3>2. z <= C[i][k]
      <4>1. C[i][m] <= C[i][k] \/ C[m][k] <= C[i][k]
        BY <1>6, <2>0
      <4> QED
        BY <1>8, <2>0, <3>1, <4>1
    <3>3. C[i][k] <= i /\ i \in Nat /\ 0 < i
      <4>1. C[i][k] <= i
        BY <1>6, <2>0
      <4> QED
        BY <1>21, <2>0, <3>2, <4>1
    <3> DEFINE j == i - 1
    <3>4. j \in 0..n - 1 /\ j + 1 = i /\ j \in 0..m - 1 /\ j \in 0..m
      BY <1>19, <3>3
    <3>5. h \in 0..m - 1 /\ h + 1 = k
      BY <1>19, <1>21
    <3> HIDE DEF j
    <3>6. s[j + 1] = s[h + 1] /\ C[i][k] = C[j][h] + 1 /\ C[j][h] \in Nat
      <4>1. /\ s[j + 1] = s[h + 1] => C[j + 1][h + 1] = C[j][h] + 1
            /\ s[j + 1] # s[h + 1] => C[j + 1][h + 1] = 0
        BY <1>6, <3>4, <3>5
      <4>2. C[j][h] \in Nat
        <5>1. j \in 0..m /\ h \in 0..m
          BY <1>21, <3>4
        <5> QED
          BY <1>6, <5>1
      <4>3. C[j + 1][h + 1] = C[i][k]
        BY <3>4, <3>5
      <4>4. C[i][k] # 0
        BY <1>21, <2>0, <3>2
      <4> QED
        BY <4>1, <4>2, <4>3, <4>4
    <3>7. l[p] <= C[j][h] /\ C[h][j] = C[j][h]
      <4>1. C[h][j] = C[j][h]
        BY <1>6, <1>21, <3>4
      <4>2. z <= C[j][h] + 1 /\ z = l[p] + 1 /\ l[p] \in Nat /\ C[j][h] \in Nat
        BY <1>10, <1>21, <3>2, <3>6
      <4>3. l[p] <= C[j][h]
        BY <4>2
      <4> QED
        BY <4>1, <4>3
    <3>8. O(p, j)
      BY <1>7, <1>10, <1>21, <3>4, <3>7
    <3>9. StepTo(a, e, C, p, j, a.next[p][s[j + 1]])
      BY <1>10, <1>13, <3>4, <3>8
    <3>10. StepTo(a, e, C, p, j, q)
      BY <1>10, <1>21, <3>5, <3>6, <3>9
    <3>11. O(q, i)
      BY <1>16, <3>4, <3>10
    <3> QED
      BY <3>1, <3>3, <3>11
  <2>2. ASSUME O(q, i) PROVE P(c, i)
    <3>1. l[q] <= C[k][i]
      BY <1>7, <1>22, <2>0, <2>2
    <3>2. C[m][k] <= C[m][i] \/ C[k][i] <= C[m][i]
      BY <1>6, <2>0
    <3>3. z <= C[m][i]
      <4>1. C[m][k] = z /\ z < l[q] /\ l[q] \in Nat /\ z \in Nat
        BY <1>8, <1>21, <1>22
      <4>2. C[k][i] \in Nat /\ C[m][i] \in Nat
        BY <2>0
      <4>3. ASSUME C[m][k] <= C[m][i] PROVE z <= C[m][i]
        BY <4>1, <4>3
      <4>4. z <= C[k][i]
        BY <3>1, <4>1, <4>2
      <4>5. ASSUME C[k][i] <= C[m][i] PROVE z <= C[m][i]
        BY <4>1, <4>2, <4>4, <4>5
      <4> QED
        BY <3>2, <4>3, <4>5
    <3> QED
      BY <1>29, <3>3
  <2> QED
    BY <2>1, <2>2
<1>31. ASSUME NEW u \in S, NEW i \in 0..n, O(u, i), P(c, i), z <= l[u]
       PROVE  l[q] <= l[u]
  <2>1. O(q, i) /\ i \in 0..m /\ k \in 0..m /\ l[u] \in Nat
    BY <1>2, <1>19, <1>21, <1>30, <1>31
  <2>2. l[q] <= C[i][k] /\ C[i][k] \in Nat
    BY <1>6, <1>7, <1>22, <2>1
  <2>3. ASSUME ~ (l[q] <= l[u]) PROVE FALSE
    <3>0. l[q] \in Nat /\ l[u] \in Nat
      BY <1>22, <2>1
    <3>1. l[u] <= C[i][k]
      BY <2>2, <2>3, <3>0
    <3>2. O(u, k)
      BY <1>7, <1>31, <2>1, <3>1
    <3> QED
      BY <1>22, <1>31, <2>3, <3>2
  <2> QED
    BY <2>3
<1>32. ~ O(q, m) /\ (\A u \in S : O(u, m) => O(u, k) /\ l[u] < z)
  <2>1. ~ O(q, m)
    <3>1. z < l[q] /\ l[q] \in Nat /\ z \in Nat /\ q \in S
      BY <1>21, <1>22
    <3>2. ~ (l[q] <= z)
      BY <3>1
    <3> QED
      BY <1>9, <3>1, <3>2
  <2>2. ASSUME NEW u \in S, O(u, m) PROVE O(u, k) /\ l[u] < z
    <3>1. O(u, k) /\ l[u] <= z /\ l[u] \in Nat
      BY <1>2, <1>9, <2>2
    <3>2. l[u] # z
      BY <1>21, <1>22, <3>1
    <3> QED
      BY <1>21, <3>1, <3>2
  <2> QED
    BY <2>1, <2>2
<1>33. Typed(b, f, m)
  <2>1. D = 0..(cur + 2) - 1 /\ cur + 2 \in Nat \ {0}
    BY <1>5, <1>20 DEF S
  <2>2. f \in [D -> 0..m] /\ b.length \in [D -> Nat] /\ b.cnt \in [D -> Nat]
        /\ b.link \in [D -> D \cup {NoState}]
    <3>1. ASSUME NEW x \in D
          PROVE  /\ f[x] \in 0..m /\ b.length[x] \in Nat /\ b.cnt[x] \in Nat
                 /\ b.link[x] \in D \cup {NoState}
      <4>1. CASE x \in S /\ x # q
        <5>1. e[x] \in 0..m /\ l[x] \in Nat /\ a.cnt[x] \in Nat /\ a.link[x] \in S \cup {NoState}
          BY <1>2, <1>19, <4>1
        <5> QED
          BY <1>5, <1>24, <1>25, <1>26, <1>27, <4>1, <5>1
      <4>2. CASE x = q
        <5>1. e[x] \in 0..m /\ l[x] \in Nat /\ a.cnt[x] \in Nat /\ x \in S
          BY <1>2, <1>19, <1>22, <4>2
        <5> QED
          BY <1>5, <1>24, <1>25, <1>26, <1>27, <4>2, <5>1
      <4>3. CASE x = cur
        <5>1. m \in 0..m /\ m \in Nat /\ 1 \in Nat
          BY <1>19
        <5> QED
          BY <1>5, <1>24, <1>25, <1>26, <1>27, <4>3, <5>1
      <4>4. CASE x = c
        <5>1. m \in 0..m /\ z \in Nat /\ 0 \in Nat /\ a.link[q] \in S \cup {NoState}
          BY <1>2, <1>19, <1>21, <1>22
        <5> QED
          BY <1>5, <1>24, <1>25, <1>26, <1>27, <4>4, <5>1
      <4> QED
        BY <1>5, <4>1, <4>2, <4>3, <4>4
    <3>2. /\ f = [x \in D |-> f[x]] /\ b.length = [x \in D |-> b.length[x]]
          /\ b.cnt = [x \in D |-> b.cnt[x]] /\ b.link = [x \in D |-> b.link[x]]
      <4>1. f = [x \in D |-> f[x]]
        BY <1>25 DEF f, To
      <4>2. b.length = [x \in D |-> b.length[x]]
        BY <1>4, <1>24 DEF To
      <4>3. b.cnt = [x \in D |-> b.cnt[x]]
        BY <1>4, <1>26 DEF To
      <4>4. b.link = [x \in D |-> b.link[x]]
        BY <1>4, <1>27
      <4> QED
        BY <4>1, <4>2, <4>3, <4>4
    <3> QED
      BY <3>1, <3>2
  <2>3. ASSUME NEW g, NEW y \in D, g \in [DOMAIN g -> S]
        PROVE  To(g, tok, y) \in [DOMAIN To(g, tok, y) -> D]
    <3>1. S \subseteq D
      BY <1>5
    <3> QED
      BY <2>3, <3>1 DEF To
  <2>4. \A x \in S : a.next[x] \in [DOMAIN a.next[x] -> S]
    BY <1>2
  <2>5. cur \in D /\ c \in D /\ S \subseteq D /\ q \in S
    BY <1>5, <1>22
  <2>6. ASSUME NEW x \in D PROVE b.next[x] \in [DOMAIN b.next[x] -> D]
    <3>1. CASE x = cur
      BY <1>28, <3>1 DEF NoTrans
    <3>2. CASE x \in bare
      <4>1. x \in S
        BY <1>10, <3>2
      <4> QED
        BY <1>28, <2>3, <2>4, <2>5, <3>2, <4>1
    <3>3. CASE x \in R
      <4>1. x \in S
        BY <1>10, <3>3
      <4> QED
        BY <1>28, <2>3, <2>4, <2>5, <3>3, <4>1
    <3>4. CASE x \in (S \ bare) \ R
      BY <1>28, <2>4, <2>5, <3>4
    <3>5. CASE x = c /\ q \in bare
      BY <1>28, <2>3, <2>4, <2>5, <3>5
    <3>6. CASE x = c /\ q \notin bare
      BY <1>28, <2>4, <2>5, <3>6
    <3> QED
      BY <1>5, <3>1, <3>2, <3>3, <3>4, <3>5, <3>6
  <2>7. ASSUME NEW x \in D PROVE b.length[x] <= f[x]
    <3>1. CASE x \in S
      BY <1>2, <1>24, <1>25, <3>1
    <3>2. m \in Nat /\ z <= m
      BY <1>8, <1>19
    <3>3. CASE x = cur
      BY <1>24, <1>25, <3>2, <3>3
    <3>4. CASE x = c
      BY <1>24, <1>25, <3>2, <3>4
    <3> QED
      BY <1>5, <3>1, <3>3, <3>4
  <2>8. b.last \in D
    BY <1>4, <2>5
  <2> QED
    BY <1>28, <2>1, <2>2, <2>6, <2>7, <2>8 DEF Typed, D
<1>34. Rooted(b)
  <2>1. m # 0 /\ z # 0
    BY <1>19, <1>21
  <2>2. \A x \in D : b.length[x] = 0 => x = 0
    BY <1>2, <1>5, <1>24, <2>1
  <2>3. l[q] # 0
    BY <1>21, <1>22
  <2>4. 0 \in S \ {q}
    BY <1>2, <2>3
  <2> QED
    BY <1>2, <1>24, <1>27, <2>2, <2>4 DEF Rooted, D
<1>35. Apart(b, f, C)
  <2> SUFFICES ASSUME NEW x \in D, NEW y \in D, b.length[x] = b.length[y], P(x, f[y]) PROVE x = y
    BY DEF Apart, D, P
  <2>0. n < m /\ m \in Nat /\ z <= n /\ z \in Nat /\ z # m
    BY <1>8, <1>19, <1>21
  <2>1. CASE x \in S /\ y \in S
    <3>1. l[x] = l[y] /\ O(x, e[y])
      BY <1>24, <1>25, <1>29, <2>1
    <3> QED
      BY <1>11, <2>1, <3>1
  <2>2. ASSUME NEW u \in S, l[u] = m PROVE FALSE
    <3>1. l[u] <= n
      BY <1>2
    <3> QED
      BY <2>0, <2>2, <3>1
  <2>3. CASE x = cur
    BY <1>5, <1>24, <2>0, <2>2, <2>3
  <2>4. CASE y = cur
    BY <1>5, <1>24, <2>0, <2>2, <2>4
  <2>5. CASE x = c /\ y \in S
    <3>1. l[y] = z /\ P(c, e[y]) /\ O(y, e[y]) /\ e[y] \in 0..n
      BY <1>2, <1>7, <1>24, <1>25, <2>5
    <3>2. z <= l[y]
      BY <2>0, <3>1
    <3>3. l[q] <= l[y]
      BY <1>31, <2>5, <3>1, <3>2
    <3> QED
      BY <1>22, <2>0, <3>1, <3>3
  <2>6. CASE x \in S /\ y = c
    <3>1. l[x] = z /\ O(x, m)
      BY <1>24, <1>25, <1>29, <2>6
    <3>2. l[x] < z
      BY <1>32, <2>6, <3>1
    <3> QED
      BY <2>0, <3>1, <3>2
  <2> QED
    BY <1>5, <2>1, <2>3, <2>4, <2>5, <2>6
<1>36. Branching(b, f, C, m)
  <2> SUFFICES ASSUME NEW x \in D PROVE \E i, j \in 0..m : P(x, i) /\ C[i][j] = b.length[x]
    BY DEF Branching, D, P
  <2>1. CASE x \in S
    <3>1. PICK i \in 0..n, j \in 0..n : O(x, i) /\ C[i][j] = l[x]
      BY <1>11, <2>1
    <3>2. i \in 0..m /\ j \in 0..m
      BY <1>19
    <3> QED
      BY <1>24, <1>29, <2>1, <3>1, <3>2
  <2>2. CASE x = cur
    <3>1. m \in 0..m /\ C[m][m] = m
      BY <1>6, <1>19
    <3> QED
      BY <1>24, <1>29, <2>2, <3>1
  <2>3. CASE x = c
    <3>1. m \in 0..m /\ C[m][m] = m /\ k \in 0..m /\ C[m][k] = z /\ z <= m
      BY <1>6, <1>8, <1>19, <1>21
    <3> QED
      BY <1>24, <1>29, <2>3, <3>1
  <2> QED
    BY <1>5, <2>1, <2>2, <2>3
<1>37. z <= C[m][m] /\ P(c, m) /\ c \in D /\ cur \in D /\ S \subseteq D /\ q \in D
  <2>1. C[m][m] = m /\ z <= m
    BY <1>6, <1>8, <1>19
  <2> QED
    BY <1>5, <1>22, <1>29, <2>1
<1>38. ASSUME NEW i \in 0..n
       PROVE  /\ \E x \in D : b.length[x] = C[m][i] /\ P(x, m)
              /\ \E x \in D : b.length[x] = C[i][m] /\ P(x, i)
  <2>0. C[i][m] = C[m][i] /\ C[m][i] \in Nat /\ C[m][i] <= z /\ i \in 0..m /\ m \in 0..m
    BY <1>6, <1>8, <1>19
  <2>1. CASE C[m][i] < z
    <3>1. PICK x \in S : l[x] = C[m][i] /\ O(x, m)
      BY <1>9, <2>1
    <3>2. l[x] <= C[m][i]
      BY <2>0, <3>1
    <3>3. O(x, i)
      BY <1>7, <2>0, <3>1, <3>2
    <3> QED
      BY <1>24, <1>29, <1>37, <2>0, <3>1, <3>3
  <2>2. CASE C[m][i] = z
    BY <1>21, <1>24, <1>29, <1>37, <2>0, <2>2
  <2> QED
    BY <1>21, <2>0, <2>1, <2>2
<1>39. Complete(b, f, C, m)
  <2> SUFFICES ASSUME NEW i \in 0..m, NEW j \in 0..m
               PROVE \E x \in D : b.length[x] = C[i][j] /\ P(x, i)
    BY DEF Complete, D, P
  <2>1. CASE i \in 0..n /\ j \in 0..n
    <3>1. PICK x \in S : l[x] = C[i][j] /\ O(x, i)
      BY <1>11, <2>1
    <3> QED
      BY <1>24, <1>29, <1>37, <3>1
  <2>2. CASE i = m /\ j \in 0..n
    BY <1>38, <2>2
  <2>3. CASE i \in 0..n /\ j = m
    BY <1>38, <2>3
  <2>4. CASE i = m /\ j = m
    BY <1>6, <1>24, <1>29, <1>37, <2>4
  <2> QED
    BY <1>19, <2>1, <2>2, <2>3, <2>4
<1>40. Linked(b, f, C)
  <2> DEFINE Best(x, y) ==
               /\ y \in D /\ b.length[y] < b.length[x] /\ P(y, f[x])
               /\ \A u \in D : b.length[u] < b.length[x] /\ P(u, f[x]) => b.length[u] <= b.length[y]
  <2> SUFFICES ASSUME NEW x \in D, x # 0 PROVE Best(x, b.link[x])
    BY DEF Linked, LinkOf, D, P
  <2>0. n < m /\ m \in Nat /\ z <= n /\ z \in Nat /\ m \in 0..m
    BY <1>8, <1>19, <1>21
  <2>1. CASE x \in S \ {q}
    <3> DEFINE y == a.link[x]
    <3>1. y \in S /\ l[y] < l[x] /\ O(y, e[x]) /\ b.link[x] = y /\ f[x] = e[x] /\ b.length[x] = l[x]
      BY <1>12, <1>24, <1>25, <1>27, <2>1
    <3>2. \A u \in S : l[u] < l[x] /\ O(u, e[x]) => l[u] <= l[y]
      BY <1>12, <2>1
    <3> HIDE DEF y
    <3>3. b.length[y] = l[y] /\ P(y, f[x]) /\ y \in D
      BY <1>24, <1>29, <1>37, <3>1
    <3>4. ~ (b.length[cur] < l[x])
      <4>1. l[x] \in Nat /\ l[x] <= n /\ b.length[cur] = m
        BY <1>2, <1>24, <2>1
      <4> QED
        BY <2>0, <4>1
    <3>5. ASSUME NEW u \in S, P(u, f[x]) PROVE b.length[u] = l[u] /\ O(u, e[x])
      BY <1>24, <1>29, <3>1, <3>5
    <3>6. ASSUME z < l[x], P(c, e[x]) PROVE z <= l[y]
      <4>1. e[x] \in 0..n /\ O(x, e[x]) /\ l[x] \in Nat /\ z <= l[x]
        BY <1>2, <1>7, <2>0, <2>1, <3>6
      <4>2. l[q] <= l[x] /\ O(q, e[x]) /\ e[x] \in 0..m
        BY <1>19, <1>30, <1>31, <2>1, <3>6, <4>1
      <4>3. l[q] # l[x]
        BY <1>7, <1>22, <2>1, <4>1, <4>2
      <4>4. l[q] < l[x]
        BY <1>22, <4>1, <4>2, <4>3
      <4>5. l[q] <= l[y] /\ l[y] \in Nat
        BY <1>2, <1>22, <3>1, <3>2, <4>2, <4>4
      <4> QED
        BY <1>22, <2>0, <4>5
    <3>7. ASSUME NEW u \in D, b.length[u] < b.length[x], P(u, f[x]) PROVE b.length[u] <= b.length[y]
      <4>1. CASE u \in S
        BY <3>1, <3>2, <3>3, <3>5, <3>7, <4>1
      <4>2. CASE u = cur
        BY <3>1, <3>4, <3>7, <4>2
      <4>3. CASE u = c
        BY <1>24, <3>1, <3>3, <3>6, <3>7, <4>3
      <4> QED
        BY <1>5, <4>1, <4>2, <4>3
    <3>8. b.length[y] < b.length[x]
      BY <3>1, <3>3
    <3> QED
      BY <3>1, <3>3, <3>7, <3>8
  <2>2. CASE x = q
    <3>1. b.link[x] = c /\ f[x] = e[q] /\ b.length[x] = l[q] /\ b.length[c] = z /\ c \in D
      BY <1>22, <1>24, <1>25, <1>27, <1>37, <2>2
    <3>2. P(c, e[q]) /\ z < l[q]
      BY <1>22, <1>30
    <3>3. ASSUME NEW u \in D, b.length[u] < l[q], P(u, e[q]) PROVE b.length[u] <= z
      <4>1. CASE u \in S
        <5>1. O(u, e[q]) /\ b.length[u] = l[u] /\ l[u] \in Nat
          BY <1>2, <1>24, <1>29, <3>3, <4>1
        <5>2. ASSUME z <= l[u] PROVE FALSE
          <6>1. l[q] <= l[u]
            BY <1>22, <1>31, <3>2, <4>1, <5>1, <5>2
          <6> QED
            BY <1>22, <3>3, <5>1, <6>1
        <5> QED
          BY <2>0, <5>1, <5>2
      <4>2. CASE u = cur
        <5>1. l[q] <= n /\ l[q] \in Nat
          BY <1>2, <1>22
        <5> QED
          BY <1>24, <2>0, <3>3, <4>2, <5>1
      <4>3. CASE u = c
        BY <2>0, <3>1, <4>3
      <4> QED
        BY <1>5, <4>1, <4>2, <4>3
    <3> QED
      BY <3>1, <3>2, <3>3
  <2>3. CASE x = c
    <3> DEFINE y == a.link[q]
    <3>0. q \in S \ {0}
      BY <1>2, <1>21, <1>22
    <3>1. y \in S /\ l[y] < l[q] /\ O(y, e[q]) /\ b.link[x] = y /\ f[x] = m /\ b.length[x] = z
      BY <1>12, <1>24, <1>25, <1>27, <2>3, <3>0
    <3>2. \A u \in S : l[u] < l[q] /\ O(u, e[q]) => l[u] <= l[y]
      BY <1>12, <3>0
    <3> HIDE DEF y
    <3>3. l[y] < z
      <4>1. P(c, e[q]) /\ l[y] \in Nat
        BY <1>2, <1>22, <1>30, <3>1
      <4>2. ASSUME z <= l[y] PROVE FALSE
        <5>1. l[q] <= l[y]
          BY <1>22, <1>31, <3>1, <4>1, <4>2
        <5> QED
          BY <1>22, <3>1, <4>1, <5>1
      <4> QED
        BY <2>0, <4>1, <4>2
    <3>4. ASSUME NEW u \in S, l[u] < z PROVE O(u, k) <=> O(u, e[q])
      <4>1. e[q] \in 0..m /\ k \in 0..m /\ l[q] <= C[e[q]][k] /\ l[q] <= C[k][e[q]]
        BY <1>7, <1>19, <1>21, <1>22
      <4>2. C[e[q]][k] \in Nat /\ C[k][e[q]] \in Nat /\ l[u] \in Nat
        BY <1>2, <1>6, <4>1
      <4>3. l[u] <= C[e[q]][k] /\ l[u] <= C[k][e[q]]
        BY <1>22, <2>0, <3>4, <4>1, <4>2
      <4> QED
        BY <1>7, <4>1, <4>3
    <3>5. P(y, m) /\ b.length[y] = l[y] /\ y \in D
      <4>1. O(y, m)
        <5>1. l[y] <= z /\ O(y, k)
          BY <1>2, <2>0, <3>1, <3>3, <3>4
        <5> QED
          BY <1>9, <3>1, <5>1
      <4> QED
        BY <1>24, <1>29, <1>37, <3>1, <4>1
    <3>6. ASSUME NEW u \in D, b.length[u] < z, P(u, m) PROVE b.length[u] <= l[y]
      <4>1. CASE u \in S
        <5>1. O(u, m) /\ b.length[u] = l[u] /\ l[u] \in Nat /\ l[u] < z
          BY <1>2, <1>24, <1>29, <3>6, <4>1
        <5>2. O(u, e[q])
          BY <1>32, <3>4, <4>1, <5>1
        <5>3. l[u] < l[q]
          BY <1>22, <2>0, <5>1
        <5> QED
          BY <3>2, <4>1, <5>1, <5>2, <5>3
      <4>2. CASE u = cur
        BY <1>24, <2>0, <3>6, <4>2
      <4>3. CASE u = c
        BY <1>24, <2>0, <3>6, <4>3
      <4> QED
        BY <1>5, <4>1, <4>2, <4>3
    <3> QED
      BY <3>1, <3>3, <3>5, <3>6
  <2>4. CASE x = cur
    <3>1. b.link[x] = c /\ f[x] = m /\ b.length[x] = m /\ b.length[c] = z /\ z < m
      BY <1>24, <1>25, <1>27, <2>0, <2>4
    <3>2. ASSUME NEW u \in D, b.length[u] < m, P(u, m) PROVE b.length[u] <= z
      <4>1. CASE u \in S
        <5>1. l[u] < z /\ b.length[u] = l[u] /\ l[u] \in Nat
          BY <1>2, <1>24, <1>29, <1>32, <3>2, <4>1
        <5> QED
          BY <2>0, <5>1
      <4>2. CASE u = cur
        BY <1>24, <2>0, <3>2, <4>2
      <4>3. CASE u = c
        BY <2>0, <3>1, <4>3
      <4> QED
        BY <1>5, <4>1, <4>2, <4>3
    <3> QED
      BY <1>37, <3>1, <3>2
  <2> QED
    BY <1>5, <2>1, <2>2, <2>3, <2>4
<1> DEFINE Target(x, j, y) ==
             /\ y \in D /\ P(y, j + 1) /\ b.length[x] < b.length[y]
             /\ \A u \in D : P(u, j + 1) /\ b.length[x] < b.length[u] => b.length[y] <= b.length[u]
           Good(x, j) == /\ s[j + 1] \in DOMAIN b.next[x]
                         /\ Target(x, j, b.next[x][s[j + 1]])
<1>41. z \in Nat /\ z <= n /\ n < m /\ m \in Nat /\ z < m /\ z < l[q] /\ l[q] \in Nat /\ l[p] \in Nat
       /\ z = l[p] + 1
  BY <1>8, <1>10, <1>19, <1>21, <1>22
<1>42. ASSUME NEW x \in S, NEW j \in 0..n - 1, O(x, j)
       PROVE  Good(x, j)
  <2> DEFINE t == s[j + 1]
             r == a.next[x][t]
             i == j + 1
  <2>1. t \in DOMAIN a.next[x] /\ StepTo(a, e, C, x, j, r)
    BY <1>13, <1>42
  <2>2. i \in 0..n /\ i \in 0..m /\ j \in 0..m /\ j \in 0..m - 1
    BY <1>19
  <2> HIDE DEF t, r
  <2>3. r \in S /\ O(r, i) /\ l[x] < l[r] /\ \A u \in S : O(u, i) /\ l[x] < l[u] => l[r] <= l[u]
    BY <1>16, <2>1
  <2>4. l[x] \in Nat /\ l[r] \in Nat /\ b.length[x] = l[x]
    BY <1>2, <1>24, <2>3
  <2> HIDE DEF i
  <2>5. CASE x \in R /\ t = tok
    <3>1. r = q /\ l[x] <= l[p]
      BY <1>10, <2>5 DEF r
    <3>2. b.next[x] = To(a.next[x], tok, c)
      BY <1>28, <2>5
    <3>3. t \in DOMAIN b.next[x] /\ b.next[x][t] = c
      BY <2>5, <3>2 DEF To
    <3>4. c \in D /\ P(c, i) /\ b.length[x] < b.length[c]
      <4>1. P(c, i)
        BY <1>30, <2>2, <2>3, <3>1
      <4>2. l[x] < z
        BY <1>41, <2>4, <3>1
      <4> QED
        BY <1>24, <1>37, <2>4, <4>1, <4>2
    <3>5. ASSUME NEW u \in D, P(u, i), b.length[x] < b.length[u] PROVE b.length[c] <= b.length[u]
      <4>1. CASE u \in S
        <5>1. l[q] <= l[u] /\ l[u] \in Nat
          BY <1>2, <1>24, <1>29, <2>3, <2>4, <3>1, <3>5, <4>1
        <5> QED
          BY <1>24, <1>41, <4>1, <5>1
      <4>2. CASE u = cur
        BY <1>29, <2>2, <3>5, <4>2
      <4>3. CASE u = c
        BY <1>24, <1>41, <4>3
      <4> QED
        BY <1>5, <4>1, <4>2, <4>3
    <3> QED
      BY <3>3, <3>4, <3>5 DEF t, i
  <2>6. CASE ~ (x \in R /\ t = tok)
    <3>1. t \in DOMAIN b.next[x] /\ b.next[x][t] = r
      <4>1. CASE x \in bare
        <5>1. t # tok /\ b.next[x] = To(a.next[x], tok, cur)
          BY <1>10, <1>28, <2>1, <4>1 DEF Has
        <5> QED
          BY <2>1, <5>1 DEF To, r
      <4>2. CASE x \in R
        <5>1. t # tok /\ b.next[x] = To(a.next[x], tok, c)
          BY <1>28, <2>6, <4>2
        <5> QED
          BY <2>1, <5>1 DEF To, r
      <4>3. CASE x \notin bare /\ x \notin R
        <5>1. b.next[x] = a.next[x]
          BY <1>28, <4>3
        <5> QED
          BY <2>1, <5>1 DEF r
      <4> QED
        BY <4>1, <4>2, <4>3
    <3>2. r \in D /\ P(r, i) /\ b.length[r] = l[r]
      BY <1>24, <1>29, <1>37, <2>3
    <3>3. ASSUME P(c, i), l[x] < z PROVE l[r] <= z
      <4> SUFFICES ASSUME z < l[r] PROVE FALSE
        BY <1>41, <2>4
      <4>1. O(q, i) /\ 0 < i
        BY <1>30, <2>2, <3>3
      <4>2. l[q] <= l[r]
        <5>1. z <= l[r]
          BY <1>41, <2>4
        <5> QED
          BY <1>31, <2>2, <2>3, <3>3, <5>1
      <4>3. l[r] <= l[q]
        <5>1. l[x] < l[q]
          BY <1>41, <2>4, <3>3
        <5> QED
          BY <1>22, <2>3, <4>1, <5>1
      <4>4. r = q
        <5>1. l[r] = l[q]
          BY <1>41, <2>4, <4>2, <4>3
        <5> QED
          BY <1>7, <1>22, <2>2, <2>3, <4>1, <5>1
      <4>5. k \in 0..m /\ h \in 0..m - 1 /\ h \in 0..m /\ n \in 0..m
        BY <1>19, <1>21
      <4>6. l[q] <= C[i][k] /\ C[i][k] \in Nat /\ C[j][h] \in Nat /\ C[h][n] \in Nat
        BY <1>6, <1>7, <1>22, <2>2, <4>1, <4>5
      <4>7. s[j + 1] = s[h + 1] /\ C[i][k] = C[j][h] + 1
        <5>1. /\ s[j + 1] = s[h + 1] => C[j + 1][h + 1] = C[j][h] + 1
              /\ s[j + 1] # s[h + 1] => C[j + 1][h + 1] = 0
          BY <1>6, <2>2, <4>5
        <5>2. C[j + 1][h + 1] = C[i][k]
          BY <1>21 DEF i
        <5>3. C[i][k] # 0
          BY <1>41, <4>6
        <5> QED
          BY <5>1, <5>2, <5>3
      <4>8. t = tok
        BY <1>21, <4>7 DEF t
      <4>9. l[x] <= C[j][h] /\ l[x] <= l[p]
        BY <1>41, <2>4, <3>3, <4>6, <4>7
      <4>10. O(x, h)
        BY <1>7, <1>42, <2>2, <4>5, <4>9
      <4>11. l[p] <= C[h][n]
        BY <1>7, <1>10, <4>5
      <4>12. l[x] <= C[h][n]
        BY <1>41, <2>4, <4>6, <4>9, <4>11
      <4>13. O(x, n)
        BY <1>7, <4>5, <4>10, <4>12
      <4>14. x \in R
        BY <1>10, <4>4, <4>8, <4>9, <4>13 DEF r
      <4> QED
        BY <2>6, <4>8, <4>14
    <3>4. ASSUME NEW u \in D, P(u, i), b.length[x] < b.length[u] PROVE b.length[r] <= b.length[u]
      <4>1. CASE u \in S
        BY <1>24, <1>29, <2>3, <2>4, <3>2, <3>4, <4>1
      <4>2. CASE u = cur
        BY <1>29, <2>2, <3>4, <4>2
      <4>3. CASE u = c
        BY <1>24, <2>4, <3>2, <3>3, <3>4, <4>3
      <4> QED
        BY <1>5, <4>1, <4>2, <4>3
    <3>5. b.length[x] < b.length[r]
      BY <2>3, <2>4, <3>2
    <3> QED
      BY <3>1, <3>2, <3>4, <3>5 DEF t, i
  <2> QED
    BY <2>5, <2>6
<1>43. ASSUME NEW x \in S, O(x, n) PROVE Good(x, n)
  <2>1. l[x] \in Nat /\ b.length[x] = l[x] /\ s[n + 1] = tok /\ n + 1 = m /\ l[x] <= n
    BY <1>2, <1>19, <1>20, <1>24
  <2>2. CASE x \in bare
    <3>1. z <= l[x]
      BY <1>9, <1>10, <2>2
    <3>2. tok \in DOMAIN b.next[x] /\ b.next[x][tok] = cur
      <4>1. b.next[x] = To(a.next[x], tok, cur)
        BY <1>28, <2>2
      <4> QED
        BY <4>1 DEF To
    <3>3. cur \in D /\ P(cur, m) /\ b.length[x] < b.length[cur]
      BY <1>24, <1>29, <1>37, <1>41, <2>1
    <3>4. ASSUME NEW u \in D, P(u, m), b.length[x] < b.length[u] PROVE b.length[cur] <= b.length[u]
      <4>1. CASE u \in S
        <5>1. l[u] < z /\ l[x] < l[u] /\ l[u] \in Nat
          BY <1>2, <1>24, <1>29, <1>32, <2>1, <3>4, <4>1
        <5> QED
          BY <1>41, <2>1, <3>1, <5>1
      <4>2. CASE u = cur
        BY <1>24, <1>41, <4>2
      <4>3. CASE u = c
        <5>1. l[x] < z
          BY <1>24, <2>1, <3>4, <4>3
        <5> QED
          BY <1>41, <2>1, <3>1, <5>1
      <4> QED
        BY <1>5, <4>1, <4>2, <4>3
    <3> QED
      BY <2>1, <3>2, <3>3, <3>4
  <2>3. CASE x \notin bare
    <3> DEFINE r == a.next[x][tok]
    <3>1. Has(x) /\ O(x, h) /\ l[x] < z
      BY <1>9, <1>10, <1>43, <2>3
    <3>2. StepTo(a, e, C, x, h, a.next[x][s[h + 1]])
      BY <1>13, <1>21, <3>1
    <3>3. StepTo(a, e, C, x, h, r)
      BY <1>21, <3>2
    <3> HIDE DEF r
    <3>4. r \in S /\ O(r, k) /\ l[x] < l[r] /\ \A u \in S : O(u, k) /\ l[x] < l[u] => l[r] <= l[u]
      BY <1>16, <1>21, <3>3
    <3>5. l[r] \in Nat /\ l[x] <= l[p] /\ l[r] <= l[q]
      <4>1. l[r] \in Nat
        BY <1>2, <3>4
      <4>2. l[x] <= l[p] /\ l[x] < l[q]
        BY <1>41, <2>1, <3>1
      <4> QED
        BY <1>22, <3>4, <4>1, <4>2
    <3>6. CASE x \in R
      <4>1. r = q
        BY <1>10, <3>6 DEF r
      <4>2. tok \in DOMAIN b.next[x] /\ b.next[x][tok] = c
        <5>1. b.next[x] = To(a.next[x], tok, c)
          BY <1>28, <3>6
        <5> QED
          BY <5>1 DEF To
      <4>3. c \in D /\ P(c, m) /\ b.length[x] < b.length[c]
        BY <1>24, <1>37, <2>1, <3>1
      <4>4. ASSUME NEW u \in D, P(u, m), b.length[x] < b.length[u] PROVE b.length[c] <= b.length[u]
        <5>1. CASE u \in S
          <6>1. O(u, k) /\ l[u] < z /\ l[x] < l[u] /\ l[u] \in Nat
            BY <1>2, <1>24, <1>29, <1>32, <2>1, <4>4, <5>1
          <6>2. l[q] <= l[u]
            BY <3>4, <4>1, <5>1, <6>1
          <6> QED
            BY <1>41, <6>1, <6>2
        <5>2. CASE u = cur
          BY <1>24, <1>41, <5>2
        <5>3. CASE u = c
          BY <1>24, <1>41, <5>3
        <5> QED
          BY <1>5, <5>1, <5>2, <5>3
      <4> QED
        BY <2>1, <4>2, <4>3, <4>4
    <3>7. CASE x \notin R
      <4>1. b.next[x] = a.next[x]
        BY <1>28, <2>3, <3>7
      <4>2. tok \in DOMAIN b.next[x] /\ b.next[x][tok] = r
        BY <3>1, <4>1 DEF Has, r
      <4>3. r # q
        BY <1>10, <1>43, <3>5, <3>7 DEF r
      <4>4. l[r] < z
        <5> SUFFICES ASSUME z <= l[r] PROVE FALSE
          BY <1>41, <3>5
        <5>1. l[q] <= l[r]
          BY <1>22, <3>4
        <5>2. l[q] = l[r]
          BY <1>41, <3>5, <5>1
        <5> QED
          BY <1>7, <1>21, <1>22, <3>4, <4>3, <5>2
      <4>5. O(r, m)
        BY <1>9, <1>41, <3>4, <3>5, <4>4
      <4>6. r \in D /\ P(r, m) /\ b.length[r] = l[r]
        BY <1>24, <1>29, <1>37, <3>4, <4>5
      <4>7. ASSUME NEW u \in D, P(u, m), b.length[x] < b.length[u] PROVE b.length[r] <= b.length[u]
        <5>1. CASE u \in S
          <6>1. O(u, k) /\ l[x] < l[u] /\ b.length[u] = l[u]
            BY <1>24, <1>29, <1>32, <2>1, <4>7, <5>1
          <6> QED
            BY <3>4, <4>6, <5>1, <6>1
        <5>2. CASE u = cur
          BY <1>24, <1>41, <3>5, <4>4, <4>6, <5>2
        <5>3. CASE u = c
          BY <1>24, <1>41, <3>5, <4>4, <4>6, <5>3
        <5> QED
          BY <1>5, <5>1, <5>2, <5>3
      <4>8. b.length[x] < b.length[r]
        BY <2>1, <3>4, <4>6
      <4> QED
        BY <2>1, <4>2, <4>6, <4>7, <4>8
    <3> QED
      BY <3>6, <3>7
  <2> QED
    BY <2>2, <2>3
<1>44. ASSUME NEW j \in 0..n - 1, P(c, j) PROVE Good(c, j)
  <2> DEFINE t == s[j + 1]
             r == a.next[q][t]
             i == j + 1
  <2>1. j \in 0..n /\ j \in 0..m - 1 /\ j \in 0..m /\ i \in 0..n /\ i \in 0..m
    BY <1>19
  <2>2. O(q, j)
    BY <1>30, <1>44, <2>1
  <2>3. t \in DOMAIN a.next[q] /\ StepTo(a, e, C, q, j, r)
    BY <1>13, <1>22, <2>2
  <2> HIDE DEF t, r
  <2>4. r \in S /\ O(r, i) /\ l[q] < l[r] /\ \A u \in S : O(u, i) /\ l[q] < l[u] => l[r] <= l[u]
    BY <1>16, <2>3
  <2>5. t \in DOMAIN b.next[c] /\ b.next[c][t] = r
    <3>1. CASE q \in bare
      <4>1. t # tok /\ b.next[c] = To(a.next[q], tok, cur)
        BY <1>10, <1>28, <2>3, <3>1 DEF Has
      <4> QED
        BY <2>3, <4>1 DEF To, r
    <3>2. CASE q \notin bare
      <4>1. b.next[c] = a.next[q]
        BY <1>28, <3>2
      <4> QED
        BY <2>3, <4>1 DEF r
    <3> QED
      BY <3>1, <3>2
  <2>6. l[r] \in Nat /\ b.length[r] = l[r] /\ r \in D /\ P(r, i) /\ b.length[c] = z
    BY <1>2, <1>24, <1>29, <1>37, <2>4
  <2> HIDE DEF i
  <2>7. ASSUME NEW u \in S, O(u, i), z < l[u] PROVE l[q] < l[u]
    <3>0. l[u] \in Nat
      BY <1>2
    <3> SUFFICES ASSUME l[u] <= l[q] PROVE FALSE
      BY <1>41, <3>0
    <3>1. PICK g1 \in 0..n, g2 \in 0..n : O(u, g1) /\ C[g1][g2] = l[u]
      BY <1>11
    <3>2. g1 \in 0..m /\ g2 \in 0..m /\ C[g1][g2] <= g1 /\ C[g1][g2] <= g2 /\ C[g1][g2] # 0
          /\ C[g1][i] \in Nat /\ C[g2][i] \in Nat
      <4>1. g1 \in 0..m /\ g2 \in 0..m
        BY <1>19
      <4>2. C[g1][g2] # 0
        BY <1>41, <2>7, <3>0, <3>1
      <4> QED
        BY <1>6, <2>1, <4>1, <4>2
    <3>3. 0 < g1 /\ 0 < g2
      BY <3>0, <3>1, <3>2, <1>41, <2>7
    <3>4. O(u, g2)
      <4>1. l[u] <= C[g1][g2]
        BY <3>0, <3>1
      <4> QED
        BY <1>7, <3>1, <3>2, <4>1
    <3> DEFINE d1 == g1 - 1
               d2 == g2 - 1
    <3>5. d1 \in 0..n - 1 /\ d2 \in 0..n - 1 /\ d1 + 1 = g1 /\ d2 + 1 = g2
      BY <3>3
    <3> HIDE DEF d1, d2
    <3>6. d1 \in 0..m - 1 /\ d2 \in 0..m - 1 /\ d1 \in 0..m /\ d2 \in 0..m /\ d1 \in 0..n /\ d2 \in 0..n
      BY <1>19, <3>5
    <3>7. ASSUME NEW g \in 0..m, NEW d \in 0..n - 1, d + 1 = g, O(u, g) PROVE O(q, d)
      <4>1. l[u] <= C[g][i] /\ C[g][i] \in Nat /\ d \in 0..m - 1 /\ d \in 0..m /\ d \in 0..n
        BY <1>6, <1>7, <1>19, <2>1, <2>7, <3>7
      <4>2. /\ s[d + 1] = s[j + 1] => C[d + 1][j + 1] = C[d][j] + 1
            /\ s[d + 1] # s[j + 1] => C[d + 1][j + 1] = 0
        BY <1>6, <2>1, <4>1
      <4>3. C[d + 1][j + 1] = C[g][i] /\ C[g][i] # 0
        BY <1>41, <2>7, <3>0, <3>7, <4>1 DEF i
      <4>4. C[g][i] = C[d][j] + 1 /\ C[d][j] \in Nat /\ C[d][j] = C[j][d]
        BY <1>6, <2>1, <4>1, <4>2, <4>3
      <4>5. z <= C[d][j]
        BY <1>41, <2>7, <3>0, <4>1, <4>4
      <4>6. z <= C[m][j] /\ C[m][j] \in Nat /\ C[m][d] \in Nat /\ m \in 0..m
        BY <1>6, <1>19, <1>29, <1>44, <2>1, <4>1
      <4>7. C[m][j] <= C[m][d] \/ C[j][d] <= C[m][d]
        BY <1>6, <2>1, <4>1, <4>6
      <4>8. z <= C[m][d]
        BY <1>41, <4>4, <4>5, <4>6, <4>7
      <4>9. P(c, d)
        BY <1>29, <4>8
      <4> QED
        BY <1>30, <4>1, <4>9
    <3>8. O(q, d1) /\ O(q, d2)
      BY <3>1, <3>2, <3>4, <3>5, <3>7
    <3>9. l[q] <= C[d1][d2] /\ C[d1][d2] \in Nat
      BY <1>6, <1>7, <1>22, <3>6, <3>8
    <3>10. C[g1][g2] = C[d1][d2] + 1
      <4>1. /\ s[d1 + 1] = s[d2 + 1] => C[d1 + 1][d2 + 1] = C[d1][d2] + 1
            /\ s[d1 + 1] # s[d2 + 1] => C[d1 + 1][d2 + 1] = 0
        BY <1>6, <3>6
      <4>2. C[d1 + 1][d2 + 1] = C[g1][g2]
        BY <3>5
      <4> QED
        BY <3>2, <4>1, <4>2
    <3> QED
      BY <1>41, <3>0, <3>1, <3>9, <3>10
  <2>8. ASSUME NEW u \in D, P(u, i), z < b.length[u] PROVE b.length[r] <= b.length[u]
    <3>1. CASE u \in S
      <4>1. O(u, i) /\ b.length[u] = l[u] /\ z < l[u]
        BY <1>24, <1>29, <2>8, <3>1
      <4>2. l[q] < l[u]
        BY <2>7, <3>1, <4>1
      <4> QED
        BY <2>4, <2>6, <3>1, <4>1, <4>2
    <3>2. CASE u = cur
      BY <1>29, <2>1, <2>8, <3>2
    <3>3. CASE u = c
      BY <1>24, <1>41, <2>8, <3>3
    <3> QED
      BY <1>5, <3>1, <3>2, <3>3
  <2>9. b.length[c] < b.length[r]
    BY <1>41, <2>4, <2>6
  <2> QED
    BY <2>5, <2>6, <2>8, <2>9 DEF t, i
<1>45. ASSUME P(c, n) PROVE Good(c, n)
  <2>1. O(q, n) /\ s[n + 1] = tok /\ n + 1 = m
    BY <1>19, <1>20, <1>30, <1>45
  <2>2. q \in bare
    <3>1. ~ (l[q] < z)
      BY <1>41
    <3> QED
      BY <1>9, <1>10, <1>22, <2>1, <3>1
  <2>3. tok \in DOMAIN b.next[c] /\ b.next[c][tok] = cur
    <3>1. b.next[c] = To(a.next[q], tok, cur)
      BY <1>28, <2>2
    <3> QED
      BY <3>1 DEF To
  <2>4. cur \in D /\ P(cur, m) /\ b.length[c] < b.length[cur]
    BY <1>24, <1>29, <1>37, <1>41
  <2>5. ASSUME NEW u \in D, P(u, m), b.length[c] < b.length[u] PROVE b.length[cur] <= b.length[u]
    <3>1. CASE u \in S
      <4>1. l[u] < z /\ z < l[u] /\ l[u] \in Nat
        BY <1>2, <1>24, <1>29, <1>32, <2>5, <3>1
      <4> QED
        BY <1>41, <4>1
    <3>2. CASE u = cur
      BY <1>24, <1>41, <3>2
    <3>3. CASE u = c
      BY <1>24, <1>41, <2>5, <3>3
    <3> QED
      BY <1>5, <3>1, <3>2, <3>3
  <2> QED
    BY <2>1, <2>3, <2>4, <2>5
<1> HIDE DEF Good
<1>46. ASSUME NEW x \in D, NEW j \in 0..m - 1, P(x, j) PROVE Good(x, j)
  <2>1. j \in 0..n - 1 \/ j = n
    BY <1>19
  <2>2. j \in 0..n
    BY <1>19, <2>1
  <2>3. CASE x \in S
    BY <1>29, <1>42, <1>43, <1>46, <2>1, <2>3
  <2>4. CASE x = cur
    BY <1>29, <1>46, <2>2, <2>4
  <2>5. CASE x = c
    BY <1>44, <1>45, <1>46, <2>1, <2>5
  <2> QED
    BY <1>5, <2>3, <2>4, <2>5
<1>47. ASSUME NEW x \in D, NEW t \in DOMAIN b.next[x]
       PROVE  \E j \in 0..m - 1 : P(x, j) /\ s[j + 1] = t
  <2>1. x # cur
    BY <1>28 DEF NoTrans
  <2>2. ASSUME NEW y \in S, t \in DOMAIN a.next[y]
        PROVE  \E j \in 0..m - 1 : O(y, j) /\ s[j + 1] = t
    <3>1. PICK j \in 0..n - 1 : O(y, j) /\ s[j + 1] = t
      BY <1>14, <2>2
    <3> QED
      BY <1>19, <3>1
  <2>3. ASSUME NEW y \in S, O(y, n), t = tok
        PROVE  \E j \in 0..m - 1 : O(y, j) /\ s[j + 1] = t
    <3>1. s[n + 1] = t
      BY <1>19, <1>20, <2>3
    <3> QED
      BY <1>19, <2>3, <3>1
  <2>4. ASSUME NEW g, NEW y, t \in DOMAIN To(g, tok, y) PROVE t \in DOMAIN g \/ t = tok
    BY <2>4 DEF To
  <2>5. CASE x \in S
    <3>1. t \in DOMAIN a.next[x] \/ (t = tok /\ x \in bare \cup R)
      BY <1>28, <2>4, <2>5
    <3>2. x \in bare \cup R => O(x, n)
      BY <1>10
    <3> QED
      BY <1>29, <2>2, <2>3, <2>5, <3>1, <3>2
  <2>6. CASE x = c
    <3>1. t \in DOMAIN a.next[q] \/ (t = tok /\ q \in bare)
      BY <1>28, <2>4, <2>6
    <3>2. q \in bare => O(q, n)
      BY <1>10
    <3>3. PICK j \in 0..m - 1 : O(q, j) /\ s[j + 1] = t
      BY <1>22, <2>2, <2>3, <3>1, <3>2
    <3>4. P(c, j)
      BY <1>19, <1>30, <3>3
    <3> QED
      BY <2>6, <3>3, <3>4
  <2> QED
    BY <1>5, <2>1, <2>5, <2>6
<1>48. Moving(b, f, C, s, m)
  BY <1>46, <1>47 DEF Moving, StepTo, D, P, Good
<1>49. AtEnd(b, f, m)
  BY <1>4, <1>24, <1>25 DEF AtEnd
<1>50. Marked(b, f, C)
  <2> SUFFICES ASSUME NEW x \in D
               PROVE  b.cnt[x] = IF 0 < b.length[x] /\ P(x, b.length[x]) THEN 1 ELSE 0
    BY DEF Marked, D, P
  <2>1. CASE x \in S
    BY <1>15, <1>24, <1>26, <1>29, <2>1
  <2>2. CASE x = cur
    <3>1. 0 < m
      BY <1>41
    <3> QED
      BY <1>24, <1>26, <1>29, <2>2, <3>1
  <2>3. CASE x = c
    <3>1. ~ P(c, z)
      <4> SUFFICES ASSUME P(c, z) PROVE FALSE
        OBVIOUS
      <4>1. O(q, z) /\ z \in 0..m
        BY <1>8, <1>19, <1>30
      <4>2. l[q] <= z
        BY <1>7, <1>22, <4>1
      <4> QED
        BY <1>41, <4>2
    <3> QED
      BY <1>24, <1>26, <2>3, <3>1
  <2> QED
    BY <1>5, <2>1, <2>2, <2>3
<1>51. Built(b, f, C, s, m)
  BY <1>33, <1>34, <1>35, <1>36, <1>39, <1>40, <1>48, <1>49, <1>50 DEF Built
<1>52. b.next[q] = b.next[c]
  <2>1. q \notin R
    <3>1. ~ (l[q] <= l[p])
      BY <1>41
    <3> QED
      BY <1>10, <3>1
  <2>2. CASE q \in bare
    BY <1>28, <2>2
  <2>3. CASE q \notin bare
    <3>1. q \in (S \ bare) \ R
      BY <1>22, <2>1, <2>3
    <3> QED
      BY <1>28, <2>3, <3>1
  <2> QED
    BY <2>2, <2>3
<1> QED
  BY <1>24, <1>27, <1>37, <1>51, <1>52 DEF f, m, D, P

\* The match stands for the state y of a longest word: its state is y, or one
\* that a split has since put above y, with the same transitions.
Stands(a, x, y) == y = x \/ (a.link[x] = y /\ a.next[x] = a.next[y])

\* The length of the match is that of the longest suffix that recurs.
Matched(a, e, C, n) ==
    /\ \A j \in 0..n - 1 : C[n][j] <= a.matchLen
    /\ a.matchLen # 0 => \E j \in 0..n - 1 : C[n][j] = a.matchLen
    /\ a.matchState \in States(a)
    /\ \E y \in States(a) : /\ a.length[y] = a.matchLen /\ On(a, e, C, y, n)
                            /\ Stands(a, a.matchState, y)

\* The walk stops where the climb from the end of the stream does.
LEMMA MatchFirst ==
    ASSUME NEW a, NEW e, NEW C, NEW s, NEW n \in Nat,
           Built(a, e, C, s, n), Tree(C, s, n + 1), Matched(a, e, C, n),
           NEW z, NEW k, Joint(a, e, C, s, n, z, k), JointStates(a, e, C, s, n, z, k),
           NEW tok, tok = s[n + 1], NEW p, JointState(a, e, C, s, n, z, k, p)
    PROVE  LET r == FirstWith(a, a.matchState, tok)
           IN  /\ p = NoState => r = NoState
               /\ p # NoState =>
                     /\ r # NoState /\ a.next[r][tok] = a.next[p][tok]
                     /\ (IF r = a.matchState THEN a.matchLen ELSE a.length[r]) + 1 = z
<1> DEFINE l == a.length
           S == States(a)
           O(x, i) == On(a, e, C, x, i)
           Has(x) == tok \in DOMAIN a.next[x]
           m == n + 1
           x == a.matchState
           L == a.matchLen
           r == FirstWith(a, x, tok)
           H == {u \in S : O(u, n) /\ Has(u)}
           G(v) == {u \in S : l[u] <= l[v] /\ O(u, e[v]) /\ Has(u)}
<1>1. /\ Typed(a, e, n) /\ Rooted(a) /\ Apart(a, e, C) /\ Linked(a, e, C)
      /\ Moving(a, e, C, s, n) /\ m \in Nat /\ n <= m
  BY DEF Built
<1>2. /\ \A u \in S : l[u] \in Nat /\ e[u] \in 0..n /\ e[u] \in 0..m
      /\ 0 \in S /\ NoState \notin S /\ a.link[0] = NoState
  <2>1. Shape(a, e, n)
    BY BuiltFacts
  <2>2. \A i \in 0..n : i \in 0..m
    OBVIOUS
  <2> HIDE DEF m
  <2> QED
    BY <2>1, <2>2 DEF Shape
<1>3. /\ \A u \in S : O(u, e[u])
      /\ \A u \in S : \A i, j \in 0..m : O(u, i) /\ O(u, j) => l[u] <= C[i][j]
      /\ \A u \in S : \A i, j \in 0..m : O(u, i) /\ l[u] <= C[i][j] => O(u, j)
      /\ \A u, v \in S : \A i \in 0..m : O(u, i) /\ O(v, i) /\ l[u] = l[v] => u = v
  BY <1>1, OnFacts
<1>4. \A i, j \in 0..m : C[i][j] \in Nat
  BY DEF Tree
<1>5. \A u \in S \ {0} :
        /\ a.link[u] \in S /\ l[a.link[u]] < l[u] /\ O(a.link[u], e[u])
        /\ \A v \in S : l[v] < l[u] /\ O(v, e[u]) => l[v] <= l[a.link[u]]
  BY <1>1 DEF Linked, LinkOf
<1>6. /\ x \in S /\ \A j \in 0..n - 1 : C[n][j] <= L
      /\ \E y \in S : l[y] = L /\ O(y, n) /\ Stands(a, x, y)
  BY DEF Matched
<1>7. \A u \in H : \E j \in 0..n - 1 : O(u, j)
  <2>1. \A u \in S : \A t \in DOMAIN a.next[u] : \E j \in 0..n - 1 : O(u, j) /\ s[j + 1] = t
    BY <1>1 DEF Moving
  <2> HIDE DEF S, O, m
  <2> QED
    BY <2>1
<1>8. /\ p = NoState => H = {}
      /\ p # NoState => p \in H /\ z = l[p] + 1 /\ \A u \in H : l[u] < z
  <2>1. /\ p = NoState => z = 0
        /\ p # NoState => p \in S /\ z = l[p] + 1 /\ O(p, n) /\ Has(p)
    BY DEF JointState
  <2>2. \A u \in S : O(u, n) /\ Has(u) => 0 < z /\ l[u] < z
    BY DEF JointStates
  <2> HIDE DEF S, O, Has, l
  <2>3. ASSUME z = 0 PROVE ~ (0 < z)
    BY <2>3
  <2> QED
    BY <2>1, <2>2, <2>3
<1>9. First(a, Having(a, e, C, x, tok), r)
  <2> HIDE DEF x, S, m
  <2> QED
    BY <1>1, <1>6, FirstFacts DEF S
<1>10. Having(a, e, C, x, tok) = G(x)
  BY DEF Having
<1>11. /\ G(x) = {} => r = NoState
       /\ G(x) # {} => r \in G(x) /\ \A u \in G(x) : l[u] <= l[r]
  BY <1>9, <1>10 DEF First
<1>12. n \in 0..m /\ m \in Nat /\ \A j \in 0..n - 1 : j \in 0..m
  OBVIOUS
<1>13. PICK y \in S : l[y] = L /\ O(y, n) /\ Stands(a, x, y)
  BY <1>6
<1> HIDE DEF l, S, O, Has, m, x, L, r, H, G
<1>14. l[y] \in Nat /\ L \in Nat /\ e[y] \in 0..m /\ O(y, e[y]) /\ l[y] <= C[e[y]][n] /\ l[y] <= C[n][e[y]]
  BY <1>2, <1>3, <1>12, <1>13
<1>15. \A u \in H : l[u] <= l[y]
  <2> SUFFICES ASSUME NEW u \in H PROVE l[u] <= l[y]
    OBVIOUS
  <2>1. PICK j \in 0..n - 1 : O(u, j)
    BY <1>7
  <2>2. u \in S /\ O(u, n) /\ l[u] \in Nat /\ C[n][j] \in Nat /\ C[n][j] <= L
    BY <1>2, <1>4, <1>6, <1>12 DEF H
  <2>3. l[u] <= C[n][j]
    BY <1>3, <1>12, <2>1, <2>2
  <2> QED
    BY <1>13, <1>14, <2>2, <2>3
<1>16. ASSUME NEW u \in S, l[u] <= l[y] PROVE O(u, n) <=> O(u, e[y])
  <2>1. l[u] \in Nat /\ C[e[y]][n] \in Nat /\ C[n][e[y]] \in Nat
    BY <1>2, <1>4, <1>12, <1>14
  <2>2. l[u] <= C[e[y]][n] /\ l[u] <= C[n][e[y]]
    BY <1>14, <1>16, <2>1
  <2> QED
    BY <1>3, <1>12, <1>14, <2>2
<1>17. G(y) = H
  <2>1. \A u \in H : u \in G(y)
    BY <1>15, <1>16 DEF G, H
  <2>2. \A u \in G(y) : u \in H
    BY <1>16 DEF G, H
  <2> QED
    BY <2>1, <2>2
<1>18. ASSUME p # NoState, y \in H PROVE y = p
  <2>1. l[p] <= l[y] /\ l[y] < z /\ z = l[p] + 1 /\ l[p] \in Nat /\ p \in S /\ O(p, n)
    BY <1>2, <1>8, <1>15, <1>18 DEF H
  <2>2. l[p] = l[y]
    BY <1>14, <2>1
  <2> QED
    BY <1>3, <1>12, <1>13, <2>1, <2>2
<1>19. ASSUME p # NoState, r \in H, \A u \in H : l[u] <= l[r] PROVE r = p
  <2>1. l[p] <= l[r] /\ l[r] < z /\ z = l[p] + 1 /\ l[p] \in Nat /\ p \in S /\ O(p, n)
        /\ l[r] \in Nat /\ r \in S /\ O(r, n)
    BY <1>2, <1>8, <1>19 DEF H
  <2>2. l[p] = l[r]
    BY <2>1
  <2> QED
    BY <1>3, <1>12, <2>1, <2>2
<1> DEFINE Goal == /\ p = NoState => r = NoState
                   /\ p # NoState => /\ r # NoState /\ a.next[r][tok] = a.next[p][tok]
                                     /\ (IF r = x THEN L ELSE l[r]) + 1 = z
<1> SUFFICES Goal
  BY DEF r, x, L, l
<1>20. CASE x = y
  <2>1. G(x) = H
    BY <1>17, <1>20
  <2>2. CASE p = NoState
    BY <1>8, <1>11, <2>1, <2>2
  <2>3. CASE p # NoState
    <3>1. r = p
      BY <1>8, <1>11, <1>19, <2>1, <2>3
    <3>2. p = x => l[p] = L
      BY <1>13, <1>20
    <3>3. p # NoState /\ z = l[p] + 1
      BY <1>8, <2>3
    <3> QED
      BY <3>1, <3>2, <3>3
  <2> QED
    BY <2>2, <2>3
<1>21. CASE x # y
  <2>1. a.link[x] = y /\ a.next[x] = a.next[y] /\ x \in S \ {0}
    BY <1>2, <1>6, <1>13, <1>21 DEF Stands
  <2>2. l[y] < l[x] /\ O(y, e[x]) /\ (\A v \in S : l[v] < l[x] /\ O(v, e[x]) => l[v] <= l[y])
        /\ e[x] \in 0..m /\ l[x] \in Nat /\ O(x, e[x])
    BY <1>2, <1>3, <1>5, <2>1
  <2>3. ASSUME NEW u \in S, l[u] <= l[y] PROVE O(u, e[x]) <=> O(u, e[y])
    <3>1. l[y] <= C[e[x]][e[y]] /\ l[y] <= C[e[y]][e[x]]
      BY <1>3, <1>14, <2>2
    <3>2. C[e[x]][e[y]] \in Nat /\ C[e[y]][e[x]] \in Nat /\ l[u] \in Nat
      BY <1>2, <1>4, <1>14, <2>2
    <3>3. l[u] <= C[e[x]][e[y]] /\ l[u] <= C[e[y]][e[x]]
      BY <1>14, <2>3, <3>1, <3>2
    <3> QED
      BY <1>3, <1>14, <2>2, <3>3
  <2>4. \A u \in G(y) : u \in G(x)
    <3> SUFFICES ASSUME NEW u \in G(y) PROVE u \in G(x)
      OBVIOUS
    <3>1. u \in S /\ l[u] <= l[y] /\ O(u, e[y]) /\ Has(u) /\ l[u] \in Nat
      BY <1>2 DEF G
    <3>2. l[u] <= l[x]
      BY <1>14, <2>2, <3>1
    <3> QED
      BY <2>3, <3>1, <3>2 DEF G
  <2>5. ASSUME NEW u \in G(x) PROVE u = x \/ u \in G(y)
    <3>1. u \in S /\ l[u] <= l[x] /\ O(u, e[x]) /\ Has(u) /\ l[u] \in Nat
      BY <1>2, <2>5 DEF G
    <3>2. CASE l[u] = l[x]
      BY <1>3, <2>1, <2>2, <3>1, <3>2
    <3>3. CASE l[u] < l[x]
      <4>1. l[u] <= l[y]
        BY <2>2, <3>1, <3>3
      <4> QED
        BY <2>3, <3>1, <4>1 DEF G
    <3> QED
      BY <2>2, <3>1, <3>2, <3>3
  <2>6. CASE Has(y)
    <3>1. x \in G(x)
      <4>1. Has(x) /\ l[x] <= l[x]
        BY <2>1, <2>2, <2>6 DEF Has
      <4> QED
        BY <2>1, <2>2, <4>1 DEF G
    <3>2. r = x
      <4>1. r \in G(x) /\ l[x] <= l[r]
        BY <1>11, <3>1
      <4>2. r \in S /\ l[r] <= l[x] /\ O(r, e[x]) /\ l[r] \in Nat
        BY <1>2, <4>1 DEF G
      <4>3. l[r] = l[x]
        BY <2>2, <4>1, <4>2
      <4> QED
        BY <1>3, <2>1, <2>2, <4>2, <4>3
    <3>3. y \in H
      BY <1>13, <2>6 DEF H
    <3>4. p # NoState /\ p = y
      BY <1>8, <1>18, <3>3
    <3>5. a.next[r][tok] = a.next[p][tok] /\ L + 1 = z /\ r # NoState
      BY <1>2, <1>8, <1>13, <2>1, <3>2, <3>4
    <3> QED
      BY <3>2, <3>4, <3>5
  <2>7. CASE ~ Has(y)
    <3>1. x \notin G(x)
      BY <2>1, <2>7 DEF G, Has
    <3>2. G(x) = H
      BY <1>17, <2>4, <2>5, <3>1
    <3>3. CASE p = NoState
      BY <1>8, <1>11, <3>2, <3>3
    <3>4. CASE p # NoState
      <4>1. r = p
        BY <1>8, <1>11, <1>19, <3>2, <3>4
      <4>2. p # x
        BY <1>8, <3>1, <3>2, <3>4
      <4>3. z = l[p] + 1
        BY <1>8, <3>4
      <4> QED
        BY <3>4, <4>1, <4>2, <4>3
    <3> QED
      BY <3>3, <3>4
  <2> QED
    BY <2>6, <2>7
<1> QED
  BY <1>20, <1>21

\* Two automata that differ in their match at most
Alike(a, g) ==
    /\ g.next = a.next /\ g.link = a.link /\ g.length = a.length /\ g.cnt = a.cnt
    /\ g.last = a.last

\* are built of the same stream.
LEMMA AlikeBuilt ==
    ASSUME NEW a, NEW g, Alike(a, g), NEW e, NEW C, NEW s, NEW n, Built(a, e, C, s, n)
    PROVE  Built(g, e, C, s, n) /\ States(g) = States(a)
<1>1. States(g) = States(a)
  BY DEF Alike, States
<1>2. \A x, i : On(g, e, C, x, i) <=> On(a, e, C, x, i)
  BY DEF Alike, On
<1>3. g.next = a.next /\ g.link = a.link /\ g.length = a.length /\ g.cnt = a.cnt /\ g.last = a.last
  BY DEF Alike
<1>4. Typed(g, e, n)
  BY <1>1, <1>3 DEF Built, Typed
<1>5. Rooted(g) /\ AtEnd(g, e, n)
  BY <1>1, <1>3 DEF Built, Rooted, AtEnd
<1>6. Apart(g, e, C) /\ Branching(g, e, C, n) /\ Complete(g, e, C, n)
  BY <1>1, <1>2, <1>3 DEF Built, Apart, Branching, Complete
<1>7. Linked(g, e, C)
  BY <1>1, <1>2, <1>3 DEF Built, Linked, LinkOf
<1>8. Moving(g, e, C, s, n)
  <2>1. \A x, j, y : StepTo(g, e, C, x, j, y) <=> StepTo(a, e, C, x, j, y)
    BY <1>1, <1>2, <1>3 DEF StepTo
  <2>2. Moving(a, e, C, s, n)
    BY DEF Built
  <2> QED
    BY <1>1, <1>2, <1>3, <2>1, <2>2 DEF Moving
<1>9. Marked(g, e, C)
  BY <1>1, <1>2, <1>3 DEF Built, Marked
<1> QED
  BY <1>1, <1>4, <1>5, <1>6, <1>7, <1>8, <1>9 DEF Built

\* Match changes the match alone.
LEMMA MatchForm ==
    ASSUME NEW a, Fields(a), NEW tok, NEW r, r = FirstWith(a, a.matchState, tok)
    PROVE  LET g == Match(a, tok)
           IN  /\ Fields(g) /\ Alike(a, g)
               /\ r = NoState => g.matchState = 0 /\ g.matchLen = 0
               /\ r # NoState =>
                     /\ g.matchState = a.next[r][tok]
                     /\ g.matchLen = (IF r = a.matchState THEN a.matchLen ELSE a.length[r]) + 1
<1> DEFINE A == a.next
           B == a.link
           L == a.length
           N == a.cnt
           T == a.last
           F == {"next", "link", "length", "cnt", "last", "matchState", "matchLen"}
           x == IF r = NoState THEN 0 ELSE A[r][tok]
           y == IF r = NoState THEN 0 ELSE (IF r = a.matchState THEN a.matchLen ELSE L[r]) + 1
           g == Match(a, tok)
<1>1. g = [a EXCEPT !.matchState = x, !.matchLen = y]
  <2>1. g = IF r = NoState THEN [a EXCEPT !.matchState = 0, !.matchLen = 0]
            ELSE [a EXCEPT !.matchState = A[r][tok],
                           !.matchLen = (IF r = a.matchState THEN a.matchLen ELSE L[r]) + 1]
    BY DEF Match
  <2> HIDE DEF g
  <2>2. CASE r = NoState
    BY <2>1, <2>2
  <2>3. CASE r # NoState
    BY <2>1, <2>3
  <2> QED
    BY <2>2, <2>3
<1>2. a = Automaton(A, B, L, N, T, a.matchState, a.matchLen)
  BY DEF Fields
<1> HIDE DEF A, B, L, N, T, x, y, g
<1>3. DOMAIN a = F
  BY <1>2 DEF Automaton
<1>4. g.matchState = x /\ g.matchLen = y
  BY <1>1, <1>3
<1>5. g.next = A /\ g.link = B /\ g.length = L /\ g.cnt = N /\ g.last = T
  BY <1>1, <1>2 DEF A, B, L, N, T
<1>6. g = [d \in F |-> g[d]]
  BY <1>1, <1>3
<1>7. Fields(g)
  BY <1>6 DEF Fields, Automaton
<1>8. Alike(a, g)
  BY <1>5 DEF Alike, A, B, L, N, T
<1> QED
  BY <1>4, <1>7, <1>8 DEF x, y, A, L, g

\* A token more: what is built stays so, and the match goes on.
LEMMA ExtendFacts ==
    ASSUME NEW a, Fields(a), NEW e, NEW C, NEW s, NEW n \in Nat,
           Built(a, e, C, s, n), Tree(C, s, n + 1), Matched(a, e, C, n),
           NEW tok, tok = s[n + 1], NEW b, b = Extend(a, tok)
    PROVE  Fields(b) /\ \E f : Built(b, f, C, s, n + 1) /\ Matched(b, f, C, n + 1)
<1> DEFINE g == Match(a, tok)
           m == n + 1
           p == FirstWith(a, a.last, tok)
           r == FirstWith(a, a.matchState, tok)
           v == FirstWith(g, g.last, tok)
<1>1. PICK z, k : Joint(a, e, C, s, n, z, k) /\ JointStates(a, e, C, s, n, z, k)
                  /\ JointState(a, e, C, s, n, z, k, p)
  BY JointFacts
<1>2. /\ Fields(g) /\ Alike(a, g)
      /\ r = NoState => g.matchState = 0 /\ g.matchLen = 0
      /\ r # NoState =>
            /\ g.matchState = a.next[r][tok]
            /\ g.matchLen = (IF r = a.matchState THEN a.matchLen ELSE a.length[r]) + 1
  BY MatchForm
<1>3. /\ p = NoState => r = NoState
      /\ p # NoState =>
            /\ r # NoState /\ a.next[r][tok] = a.next[p][tok]
            /\ (IF r = a.matchState THEN a.matchLen ELSE a.length[r]) + 1 = z
  <2> HIDE DEF p
  <2> QED
    BY <1>1, MatchFirst
<1>4. /\ g.matchLen = z
      /\ p = NoState => g.matchState = 0
      /\ p # NoState => g.matchState = a.next[p][tok]
  <2>1. p = NoState => z = 0
    BY <1>1 DEF JointState
  <2> HIDE DEF p, r, g
  <2> QED
    BY <1>2, <1>3, <2>1
<1>5. Built(g, e, C, s, n) /\ States(g) = States(a)
  <2> HIDE DEF g
  <2> QED
    BY <1>2, AlikeBuilt
<1>6. b = Append1(g, tok)
  BY DEF Extend
<1> HIDE DEF g, r
<1>7. PICK y, h : Joint(g, e, C, s, n, y, h) /\ JointStates(g, e, C, s, n, y, h)
                  /\ JointState(g, e, C, s, n, y, h, v)
  BY <1>5, JointFacts
<1> HIDE DEF p, v
<1>8. y = z
  <2>1. /\ z \in 0..n /\ k \in 0..n /\ C[m][k] = z /\ \A i \in 0..n : C[m][i] <= z
    BY <1>1 DEF Joint
  <2>2. /\ y \in 0..n /\ h \in 0..n /\ C[m][h] = y /\ \A i \in 0..n : C[m][i] <= y
    BY <1>7 DEF Joint
  <2>3. z <= y /\ y <= z
    BY <2>1, <2>2
  <2> QED
    BY <2>1, <2>2, <2>3
<1>9. \A x, i : On(g, e, C, x, i) <=> On(a, e, C, x, i)
  BY <1>2 DEF Alike, On
<1>10. g.next = a.next /\ g.length = a.length
  BY <1>2 DEF Alike
<1>11. v = p
  <2>1. Shape(a, e, n)
    BY BuiltFacts
  <2>2. \A x \in States(a) : a.length[x] \in Nat /\ e[x] \in 0..n
    BY <2>1 DEF Shape
  <2>3. CASE p = NoState
    <3>1. z = 0
      BY <1>1, <2>3 DEF JointState
    <3> SUFFICES ASSUME v # NoState PROVE FALSE
      BY <2>3
    <3>2. v \in States(a) /\ z = a.length[v] + 1
      BY <1>5, <1>7, <1>8, <1>10 DEF JointState
    <3> QED
      BY <2>2, <3>1, <3>2
  <2>4. CASE p # NoState
    <3>1. p \in States(a) /\ z = a.length[p] + 1 /\ On(a, e, C, p, n)
      BY <1>1, <2>4 DEF JointState
    <3>2. z # 0
      BY <2>2, <3>1
    <3>3. v # NoState
      BY <1>7, <1>8, <3>2 DEF JointState
    <3>4. v \in States(a) /\ z = a.length[v] + 1 /\ On(a, e, C, v, n)
      BY <1>5, <1>7, <1>8, <1>9, <1>10, <3>3 DEF JointState
    <3>5. a.length[v] = a.length[p]
      BY <2>2, <3>1, <3>4
    <3>6. /\ Typed(a, e, n) /\ Apart(a, e, C) /\ n + 1 \in Nat /\ n <= n + 1 /\ n \in 0..n + 1
      BY DEF Built
    <3>7. \A x, u \in States(a) : \A i \in 0..n + 1 :
             On(a, e, C, x, i) /\ On(a, e, C, u, i) /\ a.length[x] = a.length[u] => x = u
      <4> HIDE DEF m
      <4> QED
        BY <3>6, OnFacts
    <3> QED
      BY <3>1, <3>4, <3>5, <3>6, <3>7
  <2> QED
    BY <2>3, <2>4
<1> DEFINE cur == Cardinality(States(g))
           q == g.next[p][tok]
           bare == Bare(g, p)
<1>12. /\ p = NoState => g.matchState = 0
       /\ p # NoState => g.matchState = q
  BY <1>4, <1>10
<1>13. cur \in Nat \ {0} /\ States(g) = 0..cur - 1
  <2>1. PICK d \in Nat \ {0} : States(g) = 0..d - 1
    BY <1>5 DEF Built, Typed
  <2>2. Cardinality(0..d - 1) = d
    <3>1. 0 \in Int /\ d - 1 \in Int
      OBVIOUS
    <3>2. Cardinality(0..d - 1) = IF 0 > d - 1 THEN 0 ELSE (d - 1) - 0 + 1
      BY <3>1, FS_Interval
    <3> QED
      BY <3>2
  <2> QED
    BY <2>1, <2>2
<1>14. bare = {x \in States(g) : On(g, e, C, x, n) /\ tok \notin DOMAIN g.next[x]}
  BY <1>7, <1>11 DEF JointState, Bare
<1>15. /\ p = NoState => b = Plainly(g, tok, cur, bare, 0)
       /\ p # NoState /\ g.length[p] + 1 = g.length[q] => b = Plainly(g, tok, cur, bare, q)
       /\ p # NoState /\ g.length[p] + 1 # g.length[q] =>
             b = Splitting(g, tok, cur, bare, cur + 1, p, q,
                           LeadingTo(Grown(g, tok, cur, bare), p, tok, q))
  <2>1. p = FirstWith(g, g.last, tok)
    BY <1>11 DEF v
  <2> QED
    BY <1>2, <1>6, <2>1, AppendForm
<1>16. ASSUME NEW f, NEW w, w \in States(b), b.length[w] = z, On(b, f, C, w, m),
              g.matchState \in States(b), Stands(b, g.matchState, w),
              b.matchState = g.matchState, b.matchLen = g.matchLen
       PROVE  Matched(b, f, C, m)
  <2>1. /\ z \in 0..n /\ k \in 0..n /\ C[m][k] = z /\ \A i \in 0..n : C[m][i] <= z
    BY <1>1 DEF Joint
  <2>2. 0..m - 1 = 0..n
    OBVIOUS
  <2> HIDE DEF m
  <2> QED
    BY <1>4, <1>16, <2>1, <2>2 DEF Matched
<1>17. ASSUME NEW w \in States(g), g.length[w] = z, On(g, e, C, w, m), g.matchState = w,
              b = Plainly(g, tok, cur, bare, w)
       PROVE  Fields(b) /\ \E f : Built(b, f, C, s, m) /\ Matched(b, f, C, m)
  <2> DEFINE f == To(e, cur, m)
  <2>1. /\ Built(b, f, C, s, m)
        /\ w \in States(b) /\ b.length[w] = z /\ On(b, f, C, w, m)
    <3>1. PlainCase(g, e, C, s, n, z, h, tok, w, cur, bare, b)
      <4> HIDE DEF bare, cur
      <4> QED
        BY <1>5, <1>7, <1>8, <1>13, <1>14, <1>17 DEF PlainCase
    <3> HIDE DEF bare, cur
    <3> QED
      BY <3>1, PlainBuilt
  <2>2. b.matchState = g.matchState /\ b.matchLen = g.matchLen /\ Fields(b)
    BY <1>17 DEF Plainly, Automaton, Fields
  <2> HIDE DEF f
  <2>3. Matched(b, f, C, m)
    BY <1>16, <1>17, <2>1, <2>2 DEF Stands
  <2> QED
    BY <2>1, <2>2, <2>3
<1>18. CASE p = NoState
  <2>1. z = 0 /\ n + 1 \in Nat
    BY <1>1, <1>18 DEF JointState
  <2>2. 0 \in States(g) /\ g.length[0] = 0 /\ e[0] \in 0..m
    <3>1. Shape(g, e, n)
      BY <1>5, BuiltFacts
    <3>2. \A i \in 0..n : i \in 0..m
      OBVIOUS
    <3> HIDE DEF m
    <3> QED
      BY <3>1, <3>2 DEF Shape
  <2>3. On(g, e, C, 0, m)
    <3>1. C[e[0]][m] \in Nat
      BY <2>1, <2>2 DEF Tree
    <3> HIDE DEF m
    <3> QED
      BY <2>2, <3>1 DEF On
  <2> QED
    BY <1>12, <1>15, <1>17, <1>18, <2>1, <2>2, <2>3
<1>19. ASSUME p # NoState
       PROVE  /\ p \in States(g) /\ z = g.length[p] + 1 /\ On(g, e, C, p, n)
              /\ On(g, e, C, p, h - 1) /\ tok \in DOMAIN g.next[p]
              /\ q \in States(g) /\ On(g, e, C, q, h)
  <2>1. /\ p \in States(g) /\ z = g.length[p] + 1 /\ On(g, e, C, p, n)
        /\ On(g, e, C, p, h - 1) /\ tok \in DOMAIN g.next[p]
    BY <1>7, <1>8, <1>11, <1>19 DEF JointState
  <2>2. g.length[p] \in Nat
    <3>1. Shape(g, e, n)
      BY <1>5, BuiltFacts
    <3> QED
      BY <2>1, <3>1 DEF Shape
  <2>3. h \in 0..n /\ 0 < h /\ s[h] = tok
    <3>1. 0 < z
      BY <2>1, <2>2
    <3> QED
      BY <1>7, <1>8, <3>1 DEF Joint
  <2> DEFINE d == h - 1
  <2>4. d \in 0..n - 1 /\ d + 1 = h
    BY <2>3
  <2> HIDE DEF d
  <2>5. StepTo(g, e, C, p, d, g.next[p][s[d + 1]])
    <3>1. On(g, e, C, p, d)
      BY <2>1 DEF d
    <3>2. Moving(g, e, C, s, n)
      BY <1>5 DEF Built
    <3> QED
      BY <2>1, <2>4, <3>1, <3>2 DEF Moving
  <2>6. StepTo(g, e, C, p, d, q)
    BY <2>3, <2>4, <2>5
  <2>7. q \in States(g) /\ On(g, e, C, q, h)
    <3> HIDE DEF q
    <3> QED
      BY <2>4, <2>6 DEF StepTo
  <2> QED
    BY <2>1, <2>7
<1> HIDE DEF cur, q, bare
<1>20. CASE p # NoState /\ g.length[p] + 1 = g.length[q]
  <2>1. q \in States(g) /\ g.length[q] = z /\ On(g, e, C, q, h)
    BY <1>19, <1>20
  <2>2. On(g, e, C, q, m)
    <3>1. z <= z
      BY <1>1 DEF Joint
    <3> QED
      BY <1>7, <1>8, <2>1, <3>1 DEF JointStates
  <2> QED
    BY <1>12, <1>15, <1>17, <1>20, <2>1, <2>2
<1>21. CASE p # NoState /\ g.length[p] + 1 # g.length[q]
  <2> DEFINE R == LeadingTo(Grown(g, tok, cur, bare), p, tok, q)
             c == cur + 1
             f == To(To(e, cur, m), c, m)
  <2>1. R = {x \in States(g) : On(g, e, C, x, n) /\ g.length[x] <= g.length[p] /\ g.next[x][tok] = q}
    <3>1. cur \notin States(g) /\ cur # NoState
      BY <1>13 DEF NoState
    <3>2. JointState(g, e, C, s, n, y, h, p)
      BY <1>7, <1>11
    <3>3. p # NoState /\ q = g.next[p][tok] /\ tok = s[n + 1] /\ bare = Bare(g, p)
      BY <1>21 DEF q, bare
    <3> HIDE DEF m
    <3> QED
      BY <1>5, <1>7, <3>1, <3>2, <3>3, LeadingFacts
  <2>2. b = Splitting(g, tok, cur, bare, c, p, q, R)
    BY <1>15, <1>21
  <2> HIDE DEF R
  <2>3. SplitCase(g, e, C, s, n, z, h, tok, p, q, cur, bare, R, c, b)
    <3>1. q = g.next[p][tok]
      BY DEF q
    <3> QED
      BY <1>5, <1>7, <1>8, <1>13, <1>14, <1>19, <1>21, <2>1, <2>2, <3>1 DEF SplitCase
  <2> HIDE DEF c
  <2>4. /\ Built(b, f, C, s, m)
        /\ c \in States(b) /\ b.length[c] = z /\ On(b, f, C, c, m)
        /\ q \in States(b) /\ b.link[q] = c /\ b.next[q] = b.next[c]
    BY <2>3, SplitBuilt
  <2>5. b.matchState = g.matchState /\ b.matchLen = g.matchLen /\ Fields(b)
    BY <2>2 DEF Splitting, Automaton, Fields
  <2> HIDE DEF f
  <2>6. Matched(b, f, C, m)
    <3>1. g.matchState = q
      BY <1>12, <1>21
    <3>2. Stands(b, q, c)
      BY <2>4 DEF Stands
    <3> QED
      BY <1>16, <2>4, <2>5, <3>1, <3>2
  <2> QED
    BY <2>4, <2>5, <2>6
<1> QED
  BY <1>18, <1>20, <1>21

-----------------------------------------------------------------------------
(* The stream goes on.                                                     *)

\* Two streams are the same up to n.
Same(C, D, s, t, n) ==
    /\ \A i, j \in 0..n : C[i][j] = D[i][j]
    /\ \A i \in 1..n : s[i] = t[i]

\* Then the automaton of the one is that of the other,
LEMMA SameBuilt ==
    ASSUME NEW a, NEW e, NEW C, NEW D, NEW s, NEW t, NEW n \in Nat,
           Built(a, e, C, s, n), Same(C, D, s, t, n)
    PROVE  Built(a, e, D, t, n)
<1>1. /\ \A x \in States(a) : e[x] \in 0..n /\ a.length[x] \in 0..n
      /\ Built(a, e, C, s, n)
      /\ a.last \in States(a)
  <2>1. Shape(a, e, n)
    BY BuiltFacts
  <2> QED
    BY <2>1 DEF Shape
<1>2. \A x \in States(a) : \A i \in 0..n : On(a, e, C, x, i) <=> On(a, e, D, x, i)
  BY <1>1 DEF On, Same
<1>3. \A i, j \in 0..n : C[i][j] = D[i][j]
  BY DEF Same
<1>4. Typed(a, e, n) /\ Rooted(a) /\ AtEnd(a, e, n)
  BY DEF Built
<1>5. Apart(a, e, D)
  BY <1>1, <1>2 DEF Built, Apart
<1>6. Branching(a, e, D, n)
  <2> SUFFICES ASSUME NEW x \in States(a)
               PROVE  \E i, j \in 0..n : On(a, e, D, x, i) /\ D[i][j] = a.length[x]
    BY DEF Branching
  <2>1. PICK i, j \in 0..n : On(a, e, C, x, i) /\ C[i][j] = a.length[x]
    BY DEF Built, Branching
  <2> QED
    BY <1>2, <1>3, <2>1
<1>7. Complete(a, e, D, n)
  <2> SUFFICES ASSUME NEW i \in 0..n, NEW j \in 0..n
               PROVE  \E x \in States(a) : a.length[x] = D[i][j] /\ On(a, e, D, x, i)
    BY DEF Complete
  <2>1. PICK x \in States(a) : a.length[x] = C[i][j] /\ On(a, e, C, x, i)
    BY DEF Built, Complete
  <2> QED
    BY <1>2, <1>3, <2>1
<1>8. Linked(a, e, D)
  <2> SUFFICES ASSUME NEW x \in States(a) \ {0} PROVE LinkOf(a, e, D, x, a.link[x])
    BY DEF Linked
  <2>1. LinkOf(a, e, C, x, a.link[x])
    BY DEF Built, Linked
  <2> QED
    BY <1>1, <1>2, <2>1 DEF LinkOf
<1>9. Moving(a, e, D, t, n)
  <2>1. \A j \in 0..n - 1 : j \in 0..n /\ j + 1 \in 0..n /\ j + 1 \in 1..n
    OBVIOUS
  <2>2. \A j \in 0..n - 1 : s[j + 1] = t[j + 1]
    BY <2>1 DEF Same
  <2>3. ASSUME NEW x \in States(a), NEW y, NEW j \in 0..n - 1, StepTo(a, e, C, x, j, y)
        PROVE  StepTo(a, e, D, x, j, y)
    <3> DEFINE i == j + 1
    <3>1. i \in 0..n
      BY <2>1
    <3>2. /\ y \in States(a) /\ On(a, e, C, y, i) /\ a.length[x] < a.length[y]
          /\ \A u \in States(a) :
                On(a, e, C, u, i) /\ a.length[x] < a.length[u] => a.length[y] <= a.length[u]
      BY <2>3 DEF StepTo
    <3> HIDE DEF i
    <3>3. /\ y \in States(a) /\ On(a, e, D, y, i) /\ a.length[x] < a.length[y]
          /\ \A u \in States(a) :
                On(a, e, D, u, i) /\ a.length[x] < a.length[u] => a.length[y] <= a.length[u]
      BY <1>2, <3>1, <3>2
    <3> QED
      BY <3>3 DEF StepTo, i
  <2>4. Moving(a, e, C, s, n)
    BY DEF Built
  <2>5. ASSUME NEW x \in States(a), NEW j \in 0..n - 1, On(a, e, D, x, j)
        PROVE  t[j + 1] \in DOMAIN a.next[x] /\ StepTo(a, e, D, x, j, a.next[x][t[j + 1]])
    <3>1. On(a, e, C, x, j)
      BY <1>2, <2>1, <2>5
    <3>2. s[j + 1] \in DOMAIN a.next[x] /\ StepTo(a, e, C, x, j, a.next[x][s[j + 1]])
      BY <2>4, <3>1 DEF Moving
    <3> QED
      BY <2>2, <2>3, <3>2
  <2>6. ASSUME NEW x \in States(a), NEW tok \in DOMAIN a.next[x]
        PROVE  \E j \in 0..n - 1 : On(a, e, D, x, j) /\ t[j + 1] = tok
    <3>1. PICK j \in 0..n - 1 : On(a, e, C, x, j) /\ s[j + 1] = tok
      BY <2>4 DEF Moving
    <3> QED
      BY <1>2, <2>1, <2>2, <3>1
  <2> QED
    BY <2>5, <2>6 DEF Moving
<1>10. Marked(a, e, D)
  BY <1>1, <1>2 DEF Built, Marked
<1> QED
  BY <1>4, <1>5, <1>6, <1>7, <1>8, <1>9, <1>10 DEF Built

\* and so is its match.
LEMMA SameMatched ==
    ASSUME NEW a, NEW e, NEW C, NEW D, NEW s, NEW t, NEW n \in Nat,
           Built(a, e, C, s, n), Matched(a, e, C, n), Same(C, D, s, t, n)
    PROVE  Matched(a, e, D, n)
<1>1. \A x \in States(a) : e[x] \in 0..n
  <2>1. Shape(a, e, n)
    BY BuiltFacts
  <2> QED
    BY <2>1 DEF Shape
<1>2. n \in 0..n /\ \A j \in 0..n - 1 : j \in 0..n
  OBVIOUS
<1>3. \A x \in States(a) : On(a, e, C, x, n) <=> On(a, e, D, x, n)
  BY <1>1, <1>2 DEF On, Same
<1>4. \A j \in 0..n - 1 : C[n][j] = D[n][j]
  BY <1>2 DEF Same
<1> QED
  BY <1>3, <1>4 DEF Matched

\* What is appended changes nothing of what went before.
LEMMA CommonKept ==
    ASSUME NEW V, NEW s \in Seq(V), NEW x \in V
    PROVE  Same(Common(s), Common(Append(s, x)), s, Append(s, x), Len(s))
<1> DEFINE t == Append(s, x)
           n == Len(s)
<1>1. n \in Nat /\ Len(t) = n + 1 /\ \A i \in 1..n : s[i] = t[i]
  BY AppendProperties, LenProperties
<1> HIDE DEF t
<1>2. ASSUME NEW i \in 0..n, NEW j \in 0..n PROVE Common(s)[i][j] = Common(t)[i][j]
  <2>1. i \in Nat /\ j \in Nat /\ i \in 0..Len(t) /\ j \in 0..Len(t)
    BY <1>1
  <2>2. Common(s)[i][j] = Shared(s, i, j) /\ Common(t)[i][j] = Shared(t, i, j)
    BY <2>1 DEF Common
  <2>3. ASSUME NEW l \in Nat, l <= i, l <= j PROVE Agree(s, i, j, l) <=> Agree(t, i, j, l)
    <3>1. \A k \in 0..l - 1 : i - k \in 1..n /\ j - k \in 1..n
      BY <1>1, <2>1, <2>3
    <3>2. \A k \in 0..l - 1 : s[i - k] = t[i - k] /\ s[j - k] = t[j - k]
      BY <1>1, <3>1
    <3> QED
      BY <3>2 DEF Agree
  <2> DEFINE g == Shared(s, i, j)
             h == Shared(t, i, j)
  <2>4. /\ g \in Nat /\ g <= i /\ g <= j
        /\ \A l \in Nat : l <= i /\ l <= j => (Agree(s, i, j, l) <=> l <= g)
    BY <2>1, SharedFacts
  <2>5. /\ h \in Nat /\ h <= i /\ h <= j
        /\ \A l \in Nat : l <= i /\ l <= j => (Agree(t, i, j, l) <=> l <= h)
    BY <2>1, SharedFacts
  <2> HIDE DEF g, h
  <2>6. g <= h
    <3>1. Agree(s, i, j, g)
      BY <2>4
    <3> QED
      BY <2>3, <2>4, <2>5, <3>1
  <2>7. h <= g
    <3>1. Agree(t, i, j, h)
      BY <2>5
    <3> QED
      BY <2>3, <2>4, <2>5, <3>1
  <2>8. g = h
    BY <2>4, <2>5, <2>6, <2>7
  <2> QED
    BY <2>2, <2>8 DEF g, h
<1>3. \A i \in 1..n : s[i] = t[i]
  BY <1>1
<1>4. Same(Common(s), Common(t), s, t, n)
  BY <1>2, <1>3 DEF Same
<1> QED
  BY <1>4 DEF t

\* What holds of an automaton and the stream it was fed.
Sound(a, s) ==
    /\ Fields(a)
    /\ \E e : Built(a, e, Common(s), s, Len(s)) /\ Matched(a, e, Common(s), Len(s))

\* A call of extend keeps it.
LEMMA SoundExtend ==
    ASSUME NEW V, NEW s \in Seq(V), NEW tok \in V, NEW a, Sound(a, s)
    PROVE  Sound(Extend(a, tok), Append(s, tok))
<1> DEFINE t == Append(s, tok)
           n == Len(s)
           C == Common(s)
           D == Common(t)
           b == Extend(a, tok)
<1>1. n \in Nat /\ Len(t) = n + 1 /\ t \in Seq(V) /\ t[n + 1] = tok
  BY AppendProperties, LenProperties
<1>2. PICK e : Built(a, e, C, s, n) /\ Matched(a, e, C, n)
  BY DEF Sound
<1>3. Same(C, D, s, t, n)
  BY CommonKept
<1>4. Tree(D, t, n + 1)
  BY <1>1, CommonTree
<1>5. Fields(a)
  BY DEF Sound
<1> HIDE DEF t, n, C, D, b
<1>6. Built(a, e, D, t, n) /\ Matched(a, e, D, n)
  BY <1>1, <1>2, <1>3, SameBuilt, SameMatched
<1>7. Fields(b) /\ \E f : Built(b, f, D, t, n + 1) /\ Matched(b, f, D, n + 1)
  <2>1. b = Extend(a, tok) /\ tok = t[n + 1]
    BY <1>1 DEF b
  <2> HIDE DEF b
  <2> QED
    BY <1>1, <1>4, <1>5, <1>6, <2>1, ExtendFacts
<1>8. Sound(b, t)
  BY <1>1, <1>7 DEF Sound, D
<1> QED
  BY <1>8 DEF b, t

\* It holds of an automaton that was fed nothing.
LEMMA SoundNew == Sound(NewAutomaton, <<>>)
<1> DEFINE a == NewAutomaton
           s == <<>>
           C == Common(s)
           e == [x \in {0} |-> 0]
<1>1. Len(s) = 0 /\ s \in Seq({})
  OBVIOUS
<1>2. Tree(C, s, 0)
  BY <1>1, CommonTree
<1>3. /\ a.next = [x \in {0} |-> NoTrans] /\ a.link = [x \in {0} |-> NoState]
      /\ a.length = [x \in {0} |-> 0] /\ a.cnt = [x \in {0} |-> 0]
      /\ a.last = 0 /\ a.matchState = 0 /\ a.matchLen = 0
  BY DEF NewAutomaton
<1>4. States(a) = {0}
  BY <1>3 DEF States
<1>5. Fields(a)
  <2>1. a = Automaton(a.next, a.link, a.length, a.cnt, a.last, a.matchState, a.matchLen)
    <3>1. a = Automaton([x \in {0} |-> NoTrans], [x \in {0} |-> NoState], [x \in {0} |-> 0],
                        [x \in {0} |-> 0], 0, 0, 0)
      BY DEF NewAutomaton, Automaton
    <3> HIDE DEF a
    <3> QED
      BY <1>3, <3>1
  <2> QED
    BY <2>1 DEF Fields
<1>6. C[0][0] = 0
  <2>1. 0 \in 0..0
    OBVIOUS
  <2> QED
    BY <1>2, <2>1 DEF Tree
<1> HIDE DEF a, s, C
<1>7. On(a, e, C, 0, 0)
  BY <1>3, <1>6 DEF On
<1>8. DOMAIN NoTrans = {}
  BY DEF NoTrans
<1>9. Typed(a, e, 0)
  <2>1. {0} = 0..1 - 1 /\ 1 \in Nat \ {0} /\ 0 \in 0..0
    OBVIOUS
  <2>2. \E k \in Nat \ {0} : States(a) = 0..k - 1
    BY <1>4, <2>1
  <2>3. NoTrans \in [DOMAIN NoTrans -> States(a)]
    BY DEF NoTrans
  <2>4. /\ e \in [States(a) -> 0..0] /\ a.length \in [States(a) -> Nat]
        /\ a.link \in [States(a) -> States(a) \cup {NoState}] /\ a.cnt \in [States(a) -> Nat]
        /\ DOMAIN a.next = States(a) /\ a.last \in States(a)
        /\ \A x \in States(a) : a.length[x] <= e[x]
    BY <1>3, <1>4, <2>1
  <2>5. \A x \in States(a) : a.next[x] \in [DOMAIN a.next[x] -> States(a)]
    BY <1>3, <1>4, <2>3
  <2> QED
    BY <2>2, <2>4, <2>5 DEF Typed
<1>10. Rooted(a) /\ Apart(a, e, C) /\ AtEnd(a, e, 0) /\ Linked(a, e, C) /\ Marked(a, e, C)
  BY <1>3, <1>4 DEF Rooted, Apart, AtEnd, Linked, Marked
<1>11. Branching(a, e, C, 0) /\ Complete(a, e, C, 0)
  <2>1. \A i \in 0..0 : i = 0
    OBVIOUS
  <2>2. 0 \in 0..0
    OBVIOUS
  <2> QED
    BY <1>3, <1>4, <1>6, <1>7, <2>1, <2>2 DEF Branching, Complete
<1>12. Moving(a, e, C, s, 0)
  <2>1. \A j \in 0..0 - 1 : FALSE
    OBVIOUS
  <2>2. \A x \in States(a) : DOMAIN a.next[x] = {}
    BY <1>3, <1>4, <1>8
  <2> QED
    BY <2>1, <2>2 DEF Moving
<1>13. Built(a, e, C, s, 0)
  BY <1>9, <1>10, <1>11, <1>12 DEF Built
<1>14. Matched(a, e, C, 0)
  <2>1. \A j \in 0..0 - 1 : FALSE
    OBVIOUS
  <2>2. Stands(a, 0, 0)
    BY DEF Stands
  <2> QED
    BY <1>3, <1>4, <1>7, <2>1, <2>2 DEF Matched
<1>15. Sound(a, s)
  BY <1>1, <1>5, <1>13, <1>14 DEF Sound, C
<1> QED
  BY <1>15 DEF a, s

-----------------------------------------------------------------------------
(* Words and what beginnings share.                                        *)

\* Two words of one length are equal if their ends agree.
LEMMA WordAgree ==
    ASSUME NEW V, NEW s \in Seq(V), NEW l \in Nat,
           NEW i \in l..Len(s), NEW j \in l..Len(s)
    PROVE  SubSeq(s, j - l + 1, j) = SubSeq(s, i - l + 1, i) <=> Agree(s, i, j, l)
<1> DEFINE n == Len(s)
           a == i - l + 1
           b == j - l + 1
           u == SubSeq(s, a, i)
           v == SubSeq(s, b, j)
<1>1. /\ n \in Nat /\ a \in Int /\ b \in Int /\ i \in Int /\ j \in Int
      /\ (IF a <= i THEN i - a + 1 ELSE 0) = l /\ (IF b <= j THEN j - b + 1 ELSE 0) = l
      /\ i - a + 1 = l /\ j - b + 1 = l
      /\ \A k \in a..i : k \in 1..n
      /\ \A k \in b..j : k \in 1..n
  BY LenProperties
<1>2. \A k \in 1..n : s[k] \in V
  BY ElementOfSeq
<1>3. u \in Seq(V) /\ Len(u) = l /\ \A k \in 1..l : u[k] = s[a + k - 1]
  <2> HIDE DEF a, b, n
  <2>1. \A k \in a..i : s[k] \in V
    BY <1>1, <1>2
  <2>2. /\ u \in Seq(V) /\ Len(u) = (IF a <= i THEN i - a + 1 ELSE 0)
        /\ \A k \in 1..i - a + 1 : u[k] = s[a + k - 1]
    BY <1>1, <2>1, SubSeqProperties
  <2> HIDE DEF u
  <2> QED
    BY <1>1, <2>2
<1>4. v \in Seq(V) /\ Len(v) = l /\ \A k \in 1..l : v[k] = s[b + k - 1]
  <2> HIDE DEF a, b, n
  <2>1. \A k \in b..j : s[k] \in V
    BY <1>1, <1>2
  <2>2. /\ v \in Seq(V) /\ Len(v) = (IF b <= j THEN j - b + 1 ELSE 0)
        /\ \A k \in 1..j - b + 1 : v[k] = s[b + k - 1]
    BY <1>1, <2>1, SubSeqProperties
  <2> HIDE DEF v
  <2> QED
    BY <1>1, <2>2
<1>5. v = u <=> \A k \in 1..l : s[b + k - 1] = s[a + k - 1]
  <2> HIDE DEF u, v, a, b
  <2>1. v = u <=> \A k \in 1..l : v[k] = u[k]
    BY <1>3, <1>4, SeqEqual
  <2> QED
    BY <1>3, <1>4, <2>1
<1>6. (\A k \in 1..l : s[b + k - 1] = s[a + k - 1]) <=> Agree(s, i, j, l)
  <2>1. ASSUME \A k \in 1..l : s[b + k - 1] = s[a + k - 1], NEW k \in 0..l - 1
        PROVE  s[i - k] = s[j - k]
    <3> DEFINE h == l - k
    <3>1. h \in 1..l /\ b + h - 1 = j - k /\ a + h - 1 = i - k
      OBVIOUS
    <3> HIDE DEF h, a, b
    <3>2. s[b + h - 1] = s[a + h - 1]
      BY <2>1, <3>1
    <3> QED
      BY <3>1, <3>2
  <2>2. ASSUME Agree(s, i, j, l), NEW k \in 1..l
        PROVE  s[b + k - 1] = s[a + k - 1]
    <3> DEFINE h == l - k
    <3>1. h \in 0..l - 1 /\ b + k - 1 = j - h /\ a + k - 1 = i - h
      OBVIOUS
    <3> HIDE DEF h, a, b
    <3>2. s[i - h] = s[j - h]
      BY <2>2, <3>1 DEF Agree
    <3> QED
      BY <3>1, <3>2
  <2> QED
    BY <2>1, <2>2 DEF Agree
<1> QED
  BY <1>5, <1>6

\* A repeated suffix is one that is shared with an earlier beginning.
LEMMA RecursFacts ==
    ASSUME NEW V, NEW s \in Seq(V), NEW i \in 0..Len(s)
    PROVE  /\ Recurs(s, i) \in 0..i
           /\ Recurs(s, i) # 0 => \E j \in 0..i - 1 : Recurs(s, i) <= Common(s)[i][j]
           /\ \A j \in 0..i - 1 : Common(s)[i][j] <= Recurs(s, i)
<1> DEFINE n == Len(s)
           C == Common(s)
           Again(l) == \E j \in l..i - 1 : SubSeq(s, j - l + 1, j) = SubSeq(s, i - l + 1, i)
           r == Recurs(s, i)
           A == {l \in 0..i : l = 0 \/ Again(l)}
<1>1. n \in Nat /\ i \in Nat
  BY LenProperties
<1>2. \A j \in 0..i - 1 : /\ C[i][j] \in Nat /\ C[i][j] <= j
                          /\ \A l \in Nat : l <= i /\ l <= j => (Agree(s, i, j, l) <=> l <= C[i][j])
  <2> SUFFICES ASSUME NEW j \in 0..i - 1
               PROVE  /\ C[i][j] \in Nat /\ C[i][j] <= j
                      /\ \A l \in Nat : l <= i /\ l <= j =>
                            (Agree(s, i, j, l) <=> l <= C[i][j])
    OBVIOUS
  <2>1. j \in Nat /\ i \in 0..n /\ j \in 0..n
    BY <1>1
  <2>2. C[i][j] = Shared(s, i, j)
    BY <2>1 DEF Common
  <2> HIDE DEF C, n
  <2> QED
    BY <1>1, <2>1, <2>2, SharedFacts
<1> HIDE DEF C
<1>3. \A l \in 0..i : Again(l) <=> \E j \in 0..i - 1 : l <= C[i][j]
  <2> SUFFICES ASSUME NEW l \in 0..i
               PROVE  Again(l) <=> \E j \in 0..i - 1 : l <= C[i][j]
    OBVIOUS
  <2>1. l \in Nat /\ i \in l..n /\ l <= i
    BY <1>1
  <2>2. \A j \in l..i - 1 : j \in 0..i - 1 /\ j \in l..n /\ l <= j
    BY <1>1
  <2>3. \A j \in l..i - 1 :
           SubSeq(s, j - l + 1, j) = SubSeq(s, i - l + 1, i) <=> Agree(s, i, j, l)
    BY <2>1, <2>2, WordAgree
  <2>4. \A j \in l..i - 1 :
           SubSeq(s, j - l + 1, j) = SubSeq(s, i - l + 1, i) <=> l <= C[i][j]
    BY <1>2, <2>1, <2>2, <2>3
  <2>5. \A j \in 0..i - 1 : l <= C[i][j] => j \in l..i - 1
    BY <1>2, <2>1
  <2> QED
    BY <2>2, <2>4, <2>5
<1>4. r \in 0..i /\ (r = 0 \/ Again(r)) /\ \A l \in r + 1..i : ~ Again(l)
  <2>1. PICK m \in A : \A k \in A : k <= m
    <3>1. A \in SUBSET (0..i) /\ A # {}
      BY <1>1
    <3> HIDE DEF A
    <3> QED
      BY <1>1, <3>1, GreatestNumber
  <2>2. m \in 0..i /\ (m = 0 \/ Again(m))
    OBVIOUS
  <2>3. ASSUME NEW l \in m + 1..i PROVE ~ Again(l)
    <3>1. l \in 0..i /\ ~ (l <= m)
      BY <2>2
    <3>2. l \notin A
      BY <2>1, <3>1
    <3> QED
      BY <3>1, <3>2
  <2>4. \E h \in 0..i : (h = 0 \/ Again(h)) /\ \A l \in h + 1..i : ~ Again(l)
    BY <2>2, <2>3
  <2>5. r = CHOOSE h \in 0..i : (h = 0 \/ Again(h)) /\ \A l \in h + 1..i : ~ Again(l)
    BY DEF Recurs
  <2> HIDE DEF Again, r, A
  <2> QED
    BY <2>4, <2>5
<1> HIDE DEF Again, r, A
<1>5. r # 0 => \E j \in 0..i - 1 : r <= C[i][j]
  BY <1>3, <1>4
<1>6. ASSUME NEW j \in 0..i - 1 PROVE C[i][j] <= r
  <2> DEFINE l == C[i][j]
  <2>1. l \in Nat /\ l <= j /\ l \in 0..i
    BY <1>1, <1>2
  <2>2. Again(l)
    <3> HIDE DEF l
    <3>1. l <= C[i][j]
      BY <2>1 DEF l
    <3> QED
      BY <1>3, <2>1, <3>1
  <2>3. l \notin r + 1..i
    BY <1>4, <2>2
  <2> QED
    BY <1>4, <2>1, <2>3
<1> QED
  BY <1>4, <1>5, <1>6 DEF r, C

\* What is appended does not change what went before.
LEMMA RecursKept ==
    ASSUME NEW V, NEW s \in Seq(V), NEW x \in V, NEW i \in 0..Len(s)
    PROVE  Recurs(Append(s, x), i) = Recurs(s, i)
<1> DEFINE t == Append(s, x)
           n == Len(s)
           C == Common(s)
           D == Common(t)
           g == Recurs(s, i)
           h == Recurs(t, i)
<1>1. n \in Nat /\ Len(t) = n + 1 /\ t \in Seq(V) /\ i \in 0..Len(t)
  BY AppendProperties, LenProperties
<1>2. Same(C, D, s, t, n)
  BY CommonKept
<1>3. /\ g \in 0..i /\ (g # 0 => \E j \in 0..i - 1 : g <= C[i][j])
      /\ \A j \in 0..i - 1 : C[i][j] <= g
  BY RecursFacts
<1> HIDE DEF t
<1>4. /\ h \in 0..i /\ (h # 0 => \E j \in 0..i - 1 : h <= D[i][j])
      /\ \A j \in 0..i - 1 : D[i][j] <= h
  BY <1>1, RecursFacts
<1>5. \A j \in 0..i - 1 : C[i][j] = D[i][j] /\ C[i][j] \in Nat
  <2>1. \A j \in 0..i - 1 : i \in 0..n /\ j \in 0..n
    BY <1>1
  <2>2. Tree(C, s, n)
    BY CommonTree
  <2> HIDE DEF C, D, n
  <2> QED
    BY <1>2, <2>1, <2>2 DEF Same, Tree
<1> HIDE DEF C, D, g, h
<1>6. g = h
  BY <1>3, <1>4, <1>5
<1> QED
  BY <1>6 DEF g, h, t

\* The match is the longest suffix that recurs.
LEMMA MatchRecurs ==
    ASSUME NEW V, NEW s \in Seq(V), NEW a, Sound(a, s)
    PROVE  a.matchLen = Recurs(s, Len(s)) /\ a.matchLen \in Nat
<1> DEFINE n == Len(s)
           C == Common(s)
           g == Recurs(s, n)
           h == a.matchLen
<1>1. n \in Nat /\ n \in 0..n
  BY LenProperties
<1>2. PICK e : Built(a, e, C, s, n) /\ Matched(a, e, C, n)
  BY DEF Sound
<1>3. /\ \A j \in 0..n - 1 : C[n][j] <= h
      /\ h # 0 => \E j \in 0..n - 1 : C[n][j] = h
  BY <1>2 DEF Matched
<1>4. h \in Nat
  <2>1. PICK y \in States(a) : a.length[y] = h
    BY <1>2 DEF Matched
  <2>2. Shape(a, e, n)
    <3> HIDE DEF n, C
    <3> QED
      BY <1>1, <1>2, BuiltFacts
  <2> QED
    BY <2>1, <2>2 DEF Shape
<1>5. /\ g \in 0..n /\ (g # 0 => \E j \in 0..n - 1 : g <= C[n][j])
      /\ \A j \in 0..n - 1 : C[n][j] <= g
  BY <1>1, RecursFacts
<1>6. \A j \in 0..n - 1 : C[n][j] \in Nat
  <2>1. \A j \in 0..n - 1 : j \in 0..n
    BY <1>1
  <2>2. Tree(C, s, n)
    BY CommonTree
  <2> HIDE DEF C, n
  <2> QED
    BY <1>1, <2>1, <2>2 DEF Tree
<1> HIDE DEF C, n, g, h
<1>7. g = h
  BY <1>1, <1>3, <1>4, <1>5, <1>6
<1> QED
  BY <1>4, <1>7 DEF g, h, n

-----------------------------------------------------------------------------
(* The automata and their streams.                                         *)

\* The streams, and which is the longest.
Streams ==
    /\ stream \in [Keys -> Seq(Vocabulary)]
    /\ \A k \in Keys : Len(stream[k]) <= Len(stream[Repo])
    /\ Len(stream[Repo]) <= MaxLength

\* The inductive invariant of the automata.
SoundAutomata == Streams /\ \A k \in Keys : Sound(sams[k], stream[k])

\* One token goes to two automata.
Fed(session, tok) ==
    /\ Len(stream[Repo]) < MaxLength
    /\ \A k \in {session, Repo} : /\ sams'[k] = Extend(sams[k], tok)
                                  /\ stream'[k] = Append(stream[k], tok)
    /\ \A k \in Keys \ {session, Repo} : sams'[k] = sams[k] /\ stream'[k] = stream[k]
    /\ DOMAIN stream' = Keys

\* Feed, key by key.
LEMMA FeedForm ==
    ASSUME NEW session \in Sessions, NEW tok, Feed(session, tok)
    PROVE  Fed(session, tok)
<1>1. session \in Keys /\ Repo \in Keys
  BY DEF Keys
<1>2. /\ Len(stream[Repo]) < MaxLength
      /\ sams' = [k \in Keys |-> IF k \in {session, Repo} THEN Extend(sams[k], tok) ELSE sams[k]]
      /\ stream' = [k \in Keys |-> IF k \in {session, Repo} THEN Append(stream[k], tok) ELSE stream[k]]
  BY DEF Feed
<1> QED
  BY <1>1, <1>2 DEF Fed

\* At first nothing was fed.
LEMMA SoundInit == Init => SoundAutomata
<1> SUFFICES ASSUME Init PROVE SoundAutomata
  OBVIOUS
<1>1. \A k \in Keys : sams[k] = NewAutomaton /\ stream[k] = <<>>
  BY DEF Init
<1>2. stream \in [Keys -> Seq(Vocabulary)] /\ Repo \in Keys /\ Len(<<>>) = 0
  BY DEF Init, Keys
<1>3. Streams
  BY <1>1, <1>2, RecurrenceConstants DEF Streams
<1> QED
  BY <1>1, <1>3, SoundNew DEF SoundAutomata

\* Every step keeps the automata sound.
LEMMA SoundStep == SoundAutomata /\ [Next]_vars => SoundAutomata'
<1> SUFFICES ASSUME SoundAutomata, [Next]_vars PROVE SoundAutomata'
  OBVIOUS
<1>1. CASE UNCHANGED vars
  BY <1>1 DEF vars, SoundAutomata, Streams
<1>2. ASSUME NEW session \in Sessions, NEW tok \in Vocabulary, Feed(session, tok)
      PROVE  SoundAutomata'
  <2>1. Fed(session, tok)
    BY <1>2, FeedForm
  <2>2. /\ stream \in [Keys -> Seq(Vocabulary)] /\ session \in Keys /\ Repo \in Keys
        /\ \A k \in Keys : stream[k] \in Seq(Vocabulary) /\ Sound(sams[k], stream[k])
        /\ \A k \in Keys : Len(stream[k]) <= Len(stream[Repo])
    BY DEF SoundAutomata, Streams, Keys
  <2>3. \A k \in {session, Repo} : Sound(sams'[k], stream'[k])
    <3> SUFFICES ASSUME NEW k \in {session, Repo} PROVE Sound(sams'[k], stream'[k])
      OBVIOUS
    <3>1. sams'[k] = Extend(sams[k], tok) /\ stream'[k] = Append(stream[k], tok)
      BY <2>1 DEF Fed
    <3>2. Sound(sams[k], stream[k]) /\ stream[k] \in Seq(Vocabulary)
      BY <2>2
    <3>3. Sound(Extend(sams[k], tok), Append(stream[k], tok))
      BY <3>2, SoundExtend
    <3> QED
      BY <3>1, <3>3
  <2>4. \A k \in Keys \ {session, Repo} : Sound(sams'[k], stream'[k])
    BY <2>1, <2>2 DEF Fed
  <2>5. \A k \in Keys : Sound(sams'[k], stream'[k])
    BY <2>3, <2>4
  <2>6. \A k \in Keys : /\ Len(stream[k]) \in Nat
                        /\ Append(stream[k], tok) \in Seq(Vocabulary)
                        /\ Len(Append(stream[k], tok)) = Len(stream[k]) + 1
    BY <2>2, AppendProperties, LenProperties
  <2>7. \A k \in Keys : stream'[k] = stream[k] \/ stream'[k] = Append(stream[k], tok)
    BY <2>1 DEF Fed
  <2>8. \A k \in Keys : stream'[k] \in Seq(Vocabulary)
    BY <2>2, <2>6, <2>7
  <2>9. stream' \in [Keys -> Seq(Vocabulary)]
    <3>1. stream' = [k \in Keys |-> stream'[k]]
      BY <1>2 DEF Feed
    <3> QED
      BY <2>8, <3>1
  <2>10. Len(stream'[Repo]) = Len(stream[Repo]) + 1 /\ Len(stream[Repo]) < MaxLength
    BY <2>1, <2>2, <2>6 DEF Fed
  <2>11. Len(stream'[Repo]) <= MaxLength
    BY <2>2, <2>6, <2>10, RecurrenceConstants
  <2>12. \A k \in Keys : Len(stream'[k]) <= Len(stream'[Repo])
    <3> SUFFICES ASSUME NEW k \in Keys PROVE Len(stream'[k]) <= Len(stream'[Repo])
      OBVIOUS
    <3>1. Len(stream'[k]) = Len(stream[k]) \/ Len(stream'[k]) = Len(stream[k]) + 1
      BY <2>6, <2>7
    <3>2. Len(stream[k]) \in Nat /\ Len(stream[Repo]) \in Nat /\ Len(stream[k]) <= Len(stream[Repo])
      BY <2>2, <2>6
    <3> QED
      BY <2>10, <3>1, <3>2
  <2> QED
    BY <2>5, <2>9, <2>11, <2>12 DEF SoundAutomata, Streams
<1> QED
  BY <1>1, <1>2 DEF Next

\* Every automaton is the suffix automaton of the stream it was fed (the
\* states of which are the words that do not always go on the same way to
\* the left), and its match stands where the longest suffix that recurs does.
THEOREM AutomatonSound == Spec => []SoundAutomata
<1>1. Init => SoundAutomata
  BY SoundInit
<1>2. SoundAutomata /\ [Next]_vars => SoundAutomata'
  BY SoundStep
<1> QED
  BY <1>1, <1>2, PTL DEF Spec

-----------------------------------------------------------------------------
(* The statistics.                                                         *)

\* The automata of a mode.
KeysOf(m) == {KeyIn(m, session) : session \in Sessions}

\* The tokens of these streams at which o tokens or more recur.
Counted(st, m, o) ==
    {at \in KeysOf(m) \X (1..MaxLength) :
        at[2] <= Len(st[at[1]]) /\ Recurs(st[at[1]], at[2]) >= o}

\* The inductive invariant of the statistics.
RatesKept ==
    /\ ge \in [Modes -> [1..MaxOrder -> Nat]]
    /\ \A m \in Modes, o \in 1..MaxOrder :
          IsFiniteSet(Counted(stream, m, o)) /\ ge[m][o] = Cardinality(Counted(stream, m, o))

\* At first nothing is counted.
LEMMA RatesInit == Init => RatesKept
<1> SUFFICES ASSUME Init PROVE RatesKept
  OBVIOUS
<1>1. ge = [m \in Modes |-> [o \in 1..MaxOrder |-> 0]]
  BY DEF Init
<1>2. \A k \in Keys : stream[k] = <<>>
  BY DEF Init
<1>3. ASSUME NEW m \in Modes, NEW o \in 1..MaxOrder PROVE Counted(stream, m, o) = {}
  <2>1. \A k \in KeysOf(m) : k \in Keys
    BY DEF KeysOf, KeyIn, Keys
  <2>2. \A k \in KeysOf(m) : Len(stream[k]) = 0
    BY <1>2, <2>1
  <2>3. \A i \in 1..MaxLength : ~ (i <= 0)
    BY RecurrenceConstants
  <2> QED
    BY <2>2, <2>3 DEF Counted
<1> QED
  BY <1>1, <1>3, FS_EmptySet DEF RatesKept

\* A token more is counted if its match is long enough.
LEMMA CountedStep ==
    ASSUME SoundAutomata, NEW session \in Sessions, NEW tok \in Vocabulary, Feed(session, tok),
           NEW m \in Modes, NEW o \in 1..MaxOrder
    PROVE  LET k == KeyIn(m, session)
               at == <<k, Len(stream'[k])>>
           IN  /\ at \notin Counted(stream, m, o)
               /\ Counted(stream', m, o) =
                     IF sams'[k].matchLen >= o THEN Counted(stream, m, o) \cup {at}
                     ELSE Counted(stream, m, o)
<1> DEFINE k == KeyIn(m, session)
           K == KeysOf(m)
           n == Len(stream[k])
           at == <<k, Len(stream'[k])>>
           R(h, i) == Recurs(stream[h], i)
           Q(h, i) == Recurs(stream'[h], i)
<1>1. /\ k \in {session, Repo} /\ k \in Keys /\ k \in K /\ K \subseteq Keys
      /\ \A h \in K : h = k \/ h \in Keys \ {session, Repo}
  BY RecurrenceConstants DEF KeyIn, KeysOf, Keys, Modes
<1>2. Fed(session, tok)
  BY FeedForm
<1>3. /\ \A h \in K : h # k => stream'[h] = stream[h]
      /\ stream'[k] = Append(stream[k], tok)
  BY <1>1, <1>2 DEF Fed
<1>4. \A h \in Keys : stream[h] \in Seq(Vocabulary) /\ Len(stream[h]) \in Nat
  <2>1. \A h \in Keys : stream[h] \in Seq(Vocabulary)
    BY DEF SoundAutomata, Streams
  <2> QED
    BY <2>1, LenProperties
<1>5. Len(stream'[k]) = n + 1 /\ n \in Nat
  BY <1>1, <1>3, <1>4, AppendProperties
<1>6. n + 1 <= MaxLength
  <2>1. Len(stream[Repo]) < MaxLength /\ n <= Len(stream[Repo])
    BY <1>1, <1>2 DEF Fed, SoundAutomata, Streams
  <2>2. Len(stream[Repo]) \in Nat
    BY <1>4 DEF Keys
  <2> QED
    BY <1>5, <2>1, <2>2, RecurrenceConstants
<1>7. sams'[k].matchLen = Q(k, n + 1)
  <2>1. SoundAutomata'
    BY SoundStep DEF Next
  <2>2. Sound(sams'[k], stream'[k]) /\ stream'[k] \in Seq(Vocabulary)
    BY <1>1, <2>1 DEF SoundAutomata, Streams
  <2>3. sams'[k].matchLen = Recurs(stream'[k], Len(stream'[k]))
    BY <2>2, MatchRecurs
  <2> QED
    BY <1>5, <2>3
<1>8. \A i \in 1..MaxLength : i <= n => Q(k, i) = R(k, i)
  <2>1. \A i \in 1..MaxLength : i <= n => i \in 0..n
    BY <1>5
  <2> QED
    BY <1>1, <1>3, <1>4, <2>1, RecursKept
<1>9. /\ at = <<k, n + 1>>
      /\ n + 1 \in 1..MaxLength
      /\ \A i \in 1..MaxLength : i <= n + 1 <=> (i <= n \/ i = n + 1)
  BY <1>5, <1>6, RecurrenceConstants
<1>10. at \notin Counted(stream, m, o)
  <2>1. ~ (n + 1 <= n)
    BY <1>5
  <2> QED
    BY <1>9, <2>1 DEF Counted
<1> DEFINE A == Counted(stream, m, o)
           B == Counted(stream', m, o)
<1>11. \A h, i : <<h, i>> \in A <=> h \in K /\ i \in 1..MaxLength /\ i <= Len(stream[h]) /\ R(h, i) >= o
  BY DEF Counted
<1>12. \A h, i : <<h, i>> \in B <=> h \in K /\ i \in 1..MaxLength /\ i <= Len(stream'[h]) /\ Q(h, i) >= o
  BY DEF Counted
<1>13. \A h, i : <<h, i>> \in B <=> (<<h, i>> \in A \/ (h = k /\ i = n + 1 /\ Q(k, n + 1) >= o))
  <2> SUFFICES ASSUME NEW h, NEW i
               PROVE  <<h, i>> \in B <=> (<<h, i>> \in A \/ (h = k /\ i = n + 1 /\ Q(k, n + 1) >= o))
    OBVIOUS
  <2>1. CASE h # k
    <3>1. h \in K => stream'[h] = stream[h]
      BY <1>3, <2>1
    <3> HIDE DEF A, B
    <3> QED
      BY <1>11, <1>12, <2>1, <3>1
  <2>2. CASE h = k
    <3> HIDE DEF A, B, K, k, n, R, Q
    <3>1. \A j \in 1..MaxLength : j <= n + 1 <=> (j <= n \/ j = n + 1)
      BY <1>9
    <3>2. i \in 1..MaxLength /\ i <= n => Q(k, i) = R(k, i)
      BY <1>8
    <3>3. Len(stream[k]) = n /\ Len(stream'[k]) = n + 1
      BY <1>5 DEF n
    <3>4. <<k, i>> \in A <=> i \in 1..MaxLength /\ i <= n /\ R(k, i) >= o
      BY <1>1, <1>11, <3>3
    <3>5. <<k, i>> \in B <=> i \in 1..MaxLength /\ i <= n + 1 /\ Q(k, i) >= o
      BY <1>1, <1>12, <3>3
    <3>6. <<k, i>> \in B <=> <<k, i>> \in A \/ (i = n + 1 /\ Q(k, n + 1) >= o)
      BY <1>9, <3>1, <3>2, <3>4, <3>5
    <3> QED
      BY <2>2, <3>6
  <2> QED
    BY <2>1, <2>2
<1>14. (\A at2 \in A : at2 = <<at2[1], at2[2]>>) /\ (\A at2 \in B : at2 = <<at2[1], at2[2]>>)
  BY DEF Counted
<1>15. B = IF sams'[k].matchLen >= o THEN A \cup {at} ELSE A
  <2> HIDE DEF A, B, K, k, n, R, Q, at
  <2>1. CASE sams'[k].matchLen >= o
    <3>1. Q(k, n + 1) >= o
      BY <1>7, <2>1
    <3> DEFINE j == n + 1
    <3>5. ASSUME NEW h, NEW i
          PROVE  <<h, i>> \in B <=> (<<h, i>> \in A \/ (h = k /\ i = j))
      <4>1. <<h, i>> \in B <=> (<<h, i>> \in A \/ (h = k /\ i = j /\ Q(k, j) >= o))
        BY <1>13
      <4>2. Q(k, j) >= o
        BY <3>1
      <4> HIDE DEF j
      <4> QED
        BY <4>1, <4>2
    <3>6. at = <<k, j>>
      BY <1>9
    <3> HIDE DEF j
    <3>7. \A h, i : <<h, i>> = at <=> (h = k /\ i = j)
      BY <3>6
    <3>2. \A h, i : <<h, i>> \in B <=> (<<h, i>> \in A \/ <<h, i>> = at)
      BY <3>5, <3>7
    <3>3. at = <<at[1], at[2]>>
      BY <1>9
    <3>4. B = A \cup {at}
      BY <1>14, <3>2, <3>3
    <3> QED
      BY <2>1, <3>4
  <2>2. CASE ~ (sams'[k].matchLen >= o)
    <3>1. ~ (Q(k, n + 1) >= o)
      BY <1>7, <2>2
    <3>2. \A h, i : <<h, i>> \in B <=> <<h, i>> \in A
      BY <1>13, <3>1
    <3>3. B = A
      BY <1>14, <3>2
    <3> QED
      BY <2>2, <3>3
  <2> QED
    BY <2>1, <2>2
<1> QED
  BY <1>10, <1>15

\* Every step keeps the statistics exact.
LEMMA RatesStep == SoundAutomata /\ RatesKept /\ [Next]_vars => RatesKept'
<1> SUFFICES ASSUME SoundAutomata, RatesKept, [Next]_vars PROVE RatesKept'
  OBVIOUS
<1>1. CASE UNCHANGED vars
  BY <1>1 DEF vars, RatesKept
<1>2. ASSUME NEW session \in Sessions, NEW tok \in Vocabulary, Feed(session, tok)
      PROVE  RatesKept'
  <2>1. \A m \in Modes, o \in 1..MaxOrder : ge[m][o] \in Nat
    BY DEF RatesKept
  <2>2. ge' = [m \in Modes |-> [o \in 1..MaxOrder |->
                 ge[m][o] + IF sams'[KeyIn(m, session)].matchLen >= o THEN 1 ELSE 0]]
    BY <1>2 DEF Feed
  <2>3. ge' \in [Modes -> [1..MaxOrder -> Nat]]
    BY <2>1, <2>2
  <2>4. ASSUME NEW m \in Modes, NEW o \in 1..MaxOrder
        PROVE  /\ IsFiniteSet(Counted(stream', m, o))
               /\ ge'[m][o] = Cardinality(Counted(stream', m, o))
    <3> DEFINE k == KeyIn(m, session)
               at == <<k, Len(stream'[k])>>
               A == Counted(stream, m, o)
               B == Counted(stream', m, o)
    <3>1. /\ at \notin A
          /\ B = IF sams'[k].matchLen >= o THEN A \cup {at} ELSE A
      BY <1>2, CountedStep
    <3>2. IsFiniteSet(A) /\ ge[m][o] = Cardinality(A) /\ ge[m][o] \in Nat
      BY <2>1 DEF RatesKept
    <3>3. ge'[m][o] = ge[m][o] + IF sams'[k].matchLen >= o THEN 1 ELSE 0
      BY <2>2
    <3> HIDE DEF k, at, A, B
    <3>4. IsFiniteSet(A \cup {at}) /\ Cardinality(A \cup {at}) = Cardinality(A) + 1
      BY <3>1, <3>2, FS_AddElement
    <3>5. CASE sams'[k].matchLen >= o
      <4>1. B = A \cup {at} /\ ge'[m][o] = ge[m][o] + 1
        BY <3>1, <3>3, <3>5
      <4>2. IsFiniteSet(B) /\ ge'[m][o] = Cardinality(B)
        BY <3>2, <3>4, <4>1
      <4> QED
        BY <4>2 DEF B
    <3>6. CASE ~ (sams'[k].matchLen >= o)
      <4>1. B = A /\ ge'[m][o] = ge[m][o] + 0
        BY <3>1, <3>3, <3>6
      <4>2. IsFiniteSet(B) /\ ge'[m][o] = Cardinality(B)
        BY <3>2, <4>1
      <4> QED
        BY <4>2 DEF B
    <3> QED
      BY <3>5, <3>6
  <2> QED
    BY <2>3, <2>4 DEF RatesKept
<1> QED
  BY <1>1, <1>2 DEF Next

\* The statistics of gate G1 count the tokens at which the stream repeats o
\* tokens or more, for every stream and every splitting of its states.
THEOREM RatesExact == Spec => []RatesAreExact
<1>1. Init => RatesKept
  BY RatesInit
<1>2. SoundAutomata /\ RatesKept /\ [Next]_vars => RatesKept'
  BY RatesStep
<1>3. RatesKept => RatesAreExact
  BY DEF RatesKept, RatesAreExact, Counted, KeysOf
<1> QED
  BY <1>1, <1>2, <1>3, AutomatonSound, PTL DEF Spec

-----------------------------------------------------------------------------
(* The state a word leads to.                                              *)

\* One step of a walk: nowhere, or over a transition.
Onward(a, w, x, i) ==
    IF x = NoState THEN NoState
    ELSE IF w[i] \in DOMAIN a.next[x] THEN a.next[x][w[i]] ELSE NoState

\* The recursion by which Reached is defined.
Way(a, w, f) == [i \in 0..Len(w) |-> IF i = 0 THEN 0 ELSE Onward(a, w, f[i - 1], i)]

\* It has a solution.
LEMMA WayExists ==
    ASSUME NEW a, NEW w, Len(w) \in Nat
    PROVE  \E f : f = Way(a, w, f)
<1> DEFINE m == Len(w)
           To1(x, i) == Onward(a, w, x, i)
           Good(p, f) == /\ f = [i \in 0..p |-> f[i]] /\ f[0] = 0
                         /\ \A i \in 1..p : f[i] = To1(f[i - 1], i)
           T == {p \in 0..m : \E f : Good(p, f)}
<1>1. m \in Nat
  OBVIOUS
<1> HIDE DEF m
<1>2. 0 \in T
  <2> DEFINE f == [i \in 0..0 |-> 0]
  <2>1. f = [i \in 0..0 |-> f[i]] /\ f[0] = 0 /\ \A i \in 1..0 : FALSE
    OBVIOUS
  <2> HIDE DEF f, To1
  <2>2. Good(0, f)
    BY <2>1
  <2> QED
    BY <1>1, <2>2
<1>3. ASSUME NEW p \in 0..m - 1, p \in T PROVE p + 1 \in T
  <2>1. PICK f : Good(p, f)
    BY <1>3
  <2> DEFINE q == p + 1
             g == [i \in 0..q |-> IF i = q THEN To1(f[p], q) ELSE f[i]]
  <2>2. p \in Nat /\ q \in 0..m /\ q # 0 /\ q - 1 = p /\ p # q
    BY <1>1
  <2>3. \A i \in 0..q : i = q \/ i \in 0..p
    BY <2>2
  <2>4. \A i \in 1..p : i \in 0..q /\ i # q /\ i - 1 \in 0..q /\ i - 1 # q
    BY <2>2
  <2> HIDE DEF q, To1
  <2>5. g = [i \in 0..q |-> g[i]] /\ g[0] = 0
    <3>1. 0 \in 0..q /\ 0 # q
      BY <2>2
    <3> QED
      BY <2>1, <3>1
  <2>6. \A i \in 1..p : g[i] = To1(g[i - 1], i)
    BY <2>1, <2>4
  <2>7. g[q] = To1(g[q - 1], q)
    <3>1. q \in 0..q /\ p \in 0..q
      BY <2>2 DEF q
    <3> QED
      BY <2>2, <3>1
  <2>8. \A i \in 1..q : i \in 1..p \/ i = q
    BY <2>2, <2>3
  <2> HIDE DEF g
  <2>9. Good(q, g)
    BY <2>5, <2>6, <2>7, <2>8
  <2> HIDE DEF Good
  <2>10. q \in T
    BY <2>2, <2>9
  <2> QED
    BY <2>10 DEF q
<1>4. m \in T
  <2> HIDE DEF T
  <2>1. 0..m \subseteq T
    BY <1>1, <1>2, <1>3, Induction
  <2> QED
    BY <1>1, <2>1
<1>5. PICK f : Good(m, f)
  BY <1>4
<1>6. f = Way(a, w, f)
  <2> DEFINE g == Way(a, w, f)
  <2>1. \A i \in 0..m : i = 0 \/ i \in 1..m
    BY <1>1
  <2>2. g = [i \in 0..m |-> g[i]] /\ \A i \in 0..m : g[i] = IF i = 0 THEN 0 ELSE To1(f[i - 1], i)
    BY DEF Way, m
  <2> HIDE DEF g, To1
  <2>3. \A i \in 0..m : g[i] = f[i]
    BY <1>5, <2>1, <2>2
  <2>4. g = f
    BY <1>5, <2>2, <2>3
  <2> QED
    BY <2>4 DEF g
<1> QED
  BY <1>6

\* The positions at which the first i tokens of a word end.
Occ(s, w, i) == {j \in i..Len(s) : \A k \in 0..i - 1 : s[j - k] = w[i - k]}

\* The empty word ends everywhere.
LEMMA OccEmpty ==
    ASSUME NEW s, Len(s) \in Nat, NEW w
    PROVE  Occ(s, w, 0) = 0..Len(s)
<1>1. \A k \in 0..0 - 1 : FALSE
  OBVIOUS
<1> QED
  BY <1>1 DEF Occ

\* A word ends where its last token follows an end of the rest.
LEMMA OccStep ==
    ASSUME NEW s, Len(s) \in Nat, NEW w, NEW i \in Nat
    PROVE  \A j \in 0..Len(s) :
              j \in Occ(s, w, i + 1) <=> j # 0 /\ j - 1 \in Occ(s, w, i) /\ s[j] = w[i + 1]
<1> DEFINE n == Len(s)
           h == i + 1
<1> SUFFICES ASSUME NEW j \in 0..n
             PROVE  j \in Occ(s, w, h) <=> j # 0 /\ j - 1 \in Occ(s, w, i) /\ s[j] = w[h]
  OBVIOUS
<1>1. n \in Nat /\ h \in Nat /\ h # 0
  OBVIOUS
<1> HIDE DEF n
<1>2. ASSUME j \in Occ(s, w, h) PROVE j # 0 /\ j - 1 \in Occ(s, w, i) /\ s[j] = w[h]
  <2>1. j \in h..n /\ \A k \in 0..h - 1 : s[j - k] = w[h - k]
    BY <1>2 DEF Occ, n
  <2>2. 0 \in 0..h - 1 /\ j - 0 = j /\ h - 0 = h /\ j # 0 /\ j - 1 \in i..n
    BY <1>1, <2>1
  <2>3. s[j] = w[h]
    BY <2>1, <2>2
  <2>4. ASSUME NEW k \in 0..i - 1 PROVE s[(j - 1) - k] = w[i - k]
    <3> DEFINE p == k + 1
    <3>1. p \in 0..h - 1 /\ j - p = (j - 1) - k /\ h - p = i - k
      BY <1>1
    <3> HIDE DEF p, h
    <3>2. s[j - p] = w[h - p]
      BY <2>1, <3>1
    <3> QED
      BY <3>1, <3>2
  <2> QED
    BY <2>2, <2>3, <2>4 DEF Occ, n
<1>3. ASSUME j # 0, j - 1 \in Occ(s, w, i), s[j] = w[h] PROVE j \in Occ(s, w, h)
  <2>1. j - 1 \in i..n /\ \A k \in 0..i - 1 : s[(j - 1) - k] = w[i - k]
    BY <1>3 DEF Occ, n
  <2>2. j \in h..n
    BY <1>1, <1>3, <2>1
  <2>3. ASSUME NEW k \in 0..h - 1 PROVE s[j - k] = w[h - k]
    <3>1. CASE k = 0
      <4>1. j - k = j /\ h - k = h
        BY <1>1, <3>1
      <4> QED
        BY <1>3, <4>1
    <3>2. CASE k # 0
      <4> DEFINE p == k - 1
      <4>1. p \in 0..i - 1 /\ (j - 1) - p = j - k /\ i - p = h - k
        BY <1>1, <3>2
      <4> HIDE DEF p, h
      <4>2. s[(j - 1) - p] = w[i - p]
        BY <2>1, <4>1
      <4> QED
        BY <4>1, <4>2
    <3> QED
      BY <3>1, <3>2
  <2> HIDE DEF h
  <2> QED
    BY <2>2, <2>3 DEF Occ, n
<1> QED
  BY <1>2, <1>3

\* The positions of a word are those that share its length with one of them.
LEMMA OccShared ==
    ASSUME NEW V, NEW s \in Seq(V), NEW w, NEW i \in Nat, NEW j \in Occ(s, w, i)
    PROVE  \A h \in 0..Len(s) : h \in Occ(s, w, i) <=> i <= Common(s)[j][h]
<1> DEFINE n == Len(s)
<1>1. n \in Nat /\ j \in i..n /\ \A k \in 0..i - 1 : s[j - k] = w[i - k]
  BY LenProperties DEF Occ
<1> SUFFICES ASSUME NEW h \in 0..n PROVE h \in Occ(s, w, i) <=> i <= Common(s)[j][h]
  OBVIOUS
<1> DEFINE c == Shared(s, j, h)
<1>2. j \in Nat /\ h \in Nat /\ i <= j /\ j \in 0..n
  BY <1>1
<1>3. /\ c \in Nat /\ c <= j /\ c <= h
      /\ \A l \in Nat : l <= j /\ l <= h => (Agree(s, j, h, l) <=> l <= c)
  BY <1>2, SharedFacts
<1>4. Common(s)[j][h] = c
  BY <1>2 DEF Common
<1> HIDE DEF c
<1>5. ASSUME i <= c PROVE h \in Occ(s, w, i)
  <2>1. i <= h
    BY <1>2, <1>3, <1>5
  <2>2. Agree(s, j, h, i)
    BY <1>2, <1>3, <1>5, <2>1
  <2>3. h \in i..n
    BY <1>1, <2>1
  <2> QED
    BY <1>1, <2>2, <2>3 DEF Occ, Agree
<1>6. ASSUME h \in Occ(s, w, i) PROVE i <= c
  <2>1. h \in i..n /\ \A k \in 0..i - 1 : s[h - k] = w[i - k]
    BY <1>6 DEF Occ
  <2>2. i <= h /\ Agree(s, j, h, i)
    BY <1>1, <2>1 DEF Agree
  <2> QED
    BY <1>2, <1>3, <2>2
<1> QED
  BY <1>4, <1>5, <1>6

\* A walk from the root is in the state of the positions of its word.
Spelt(a, e, s, w, i, x) ==
    /\ Occ(s, w, i) = {} => x = NoState
    /\ Occ(s, w, i) # {} =>
          /\ x \in States(a) /\ i <= a.length[x]
          /\ \A j \in 0..Len(s) : On(a, e, Common(s), x, j) <=> j \in Occ(s, w, i)

\* A step of the walk spells one token more.
LEMMA SpeltStep ==
    ASSUME NEW V, NEW s \in Seq(V), NEW a, NEW e, Built(a, e, Common(s), s, Len(s)),
           NEW w, NEW i \in Nat, NEW x, Spelt(a, e, s, w, i, x)
    PROVE  Spelt(a, e, s, w, i + 1, Onward(a, w, x, i + 1))
<1> DEFINE n == Len(s)
           C == Common(s)
           l == a.length
           S == States(a)
           h == i + 1
           tok == w[h]
           O(u, j) == On(a, e, C, u, j)
           P == Occ(s, w, i)
           Q == Occ(s, w, h)
           y == Onward(a, w, x, h)
<1>1. n \in Nat /\ h \in Nat
  BY LenProperties
<1>2. \A j \in 0..n : j \in Q <=> j # 0 /\ j - 1 \in P /\ s[j] = tok
  BY <1>1, OccStep
<1>3. P \subseteq 0..n /\ Q \subseteq 0..n
  BY <1>1 DEF Occ
<1>4. /\ Typed(a, e, n) /\ Moving(a, e, C, s, n) /\ Tree(C, s, n)
  BY CommonTree DEF Built
<1>5. /\ \A u \in S : \A j, k \in 0..n : O(u, j) /\ O(u, k) => l[u] <= C[j][k]
      /\ \A u \in S : \A j, k \in 0..n : O(u, j) /\ l[u] <= C[j][k] => O(u, k)
  <2>1. n <= n
    BY <1>1
  <2> HIDE DEF n, C
  <2> QED
    BY <1>1, <1>4, <2>1, OnFacts
<1>6. NoState \notin S /\ \A u \in S : l[u] \in Nat
  <2>1. Shape(a, e, n)
    BY <1>1, BuiltFacts
  <2> QED
    BY <2>1 DEF Shape
<1>7. \A j, k \in 0..n : C[j][k] \in Nat
  BY <1>4 DEF Tree
<1>8. ASSUME P = {} PROVE Q = {} /\ y = NoState
  <2>1. x = NoState
    BY <1>8 DEF Spelt
  <2> QED
    BY <1>2, <1>3, <1>8, <2>1 DEF Onward
<1>9. ASSUME P # {}
      PROVE  x \in S /\ i <= l[x] /\ \A j \in 0..n : O(x, j) <=> j \in P
  BY <1>9 DEF Spelt
<1>10. \A j \in Q : \A k \in 0..n : k \in Q <=> h <= C[j][k]
  BY <1>1, OccShared
<1>11. ASSUME P # {}
       PROVE  y = IF tok \in DOMAIN a.next[x] THEN a.next[x][tok] ELSE NoState
  BY <1>6, <1>9, <1>11 DEF Onward
<1>12. /\ \A u \in S : \A j \in 0..n - 1 : O(u, j) =>
             /\ s[j + 1] \in DOMAIN a.next[u]
             /\ StepTo(a, e, C, u, j, a.next[u][s[j + 1]])
       /\ \A u \in S : \A t \in DOMAIN a.next[u] : \E j \in 0..n - 1 : O(u, j) /\ s[j + 1] = t
  BY <1>4 DEF Moving
<1> HIDE DEF n, C, l, S, tok, O, P, Q, y, h
<1>13. ASSUME Q = {}, P # {} PROVE y = NoState
  <2>1. tok \notin DOMAIN a.next[x]
    <3> SUFFICES ASSUME tok \in DOMAIN a.next[x] PROVE FALSE
      OBVIOUS
    <3>1. PICK j \in 0..n - 1 : O(x, j) /\ s[j + 1] = tok
      BY <1>9, <1>12, <1>13
    <3> DEFINE k == j + 1
    <3>2. k \in 0..n /\ k # 0 /\ k - 1 = j /\ j \in 0..n
      BY <1>1
    <3>3. s[k] = tok /\ j \in P
      BY <1>9, <1>13, <3>1, <3>2
    <3> HIDE DEF k
    <3>4. k \in Q
      BY <1>2, <3>2, <3>3
    <3> QED
      BY <1>13, <3>4
  <2> QED
    BY <1>11, <1>13, <2>1
<1>14. ASSUME NEW k \in Q
       PROVE  /\ tok \in DOMAIN a.next[x] /\ y = a.next[x][tok] /\ x \in S
              /\ y \in S /\ O(y, k) /\ l[x] < l[y]
  <2>1. k \in 0..n /\ k # 0 /\ k - 1 \in P /\ s[k] = tok
    BY <1>2, <1>3
  <2> DEFINE j == k - 1
  <2>2. j \in 0..n - 1 /\ j + 1 = k /\ j \in 0..n /\ j \in P
    BY <1>1, <2>1
  <2> HIDE DEF j
  <2>3. x \in S /\ O(x, j)
    BY <1>9, <2>2
  <2>4. tok \in DOMAIN a.next[x] /\ StepTo(a, e, C, x, j, a.next[x][tok])
    BY <1>12, <2>1, <2>2, <2>3
  <2>5. y = a.next[x][tok]
    BY <1>11, <2>2, <2>4
  <2>6. y \in S /\ O(y, k) /\ l[x] < l[y]
    BY <2>2, <2>4, <2>5 DEF StepTo, S, O, l
  <2> QED
    BY <2>3, <2>4, <2>5, <2>6
<1>15. ASSUME Q # {}
       PROVE  y \in S /\ h <= l[y] /\ \A j \in 0..n : O(y, j) <=> j \in Q
  <2>1. PICK k \in Q : TRUE
    BY <1>15
  <2>2. k \in 0..n /\ k - 1 \in P
    BY <1>2, <1>3
  <2>3. y \in S /\ O(y, k) /\ l[x] < l[y] /\ x \in S
    BY <1>14
  <2>4. i <= l[x]
    BY <1>9, <2>2
  <2>5. h <= l[y]
    BY <1>6, <2>3, <2>4 DEF h
  <2>6. ASSUME NEW j \in 0..n, O(y, j) PROVE j \in Q
    <3>1. l[y] <= C[k][j]
      BY <1>5, <2>2, <2>3, <2>6
    <3>2. h <= C[k][j]
      BY <1>1, <1>6, <1>7, <2>2, <2>3, <2>5, <3>1
    <3> QED
      BY <1>10, <3>2
  <2> QED
    BY <1>14, <2>3, <2>5, <2>6
<1>16. Spelt(a, e, s, w, h, y)
  BY <1>8, <1>13, <1>15 DEF Spelt, S, l, O, P, Q, n, C
<1> QED
  BY <1>16 DEF y, h

\* So the state of a word has the positions of the word.
LEMMA ReachedFacts ==
    ASSUME NEW V, NEW s \in Seq(V), NEW a, NEW e, Built(a, e, Common(s), s, Len(s)),
           NEW w, Len(w) \in Nat
    PROVE  Spelt(a, e, s, w, Len(w), Reached(a, w))
<1> DEFINE m == Len(w)
           f == CHOOSE g : g = Way(a, w, g)
<1>1. Reached(a, w) = f[m]
  <2>1. \A g : Way(a, w, g) =
          [i \in 0..m |->
             IF i = 0 THEN 0
             ELSE IF g[i - 1] = NoState THEN NoState
             ELSE IF w[i] \in DOMAIN a.next[g[i - 1]] THEN a.next[g[i - 1]][w[i]]
             ELSE NoState]
    BY DEF Way, Onward
  <2> QED
    BY <2>1 DEF Reached, Way, Onward
<1>2. f = Way(a, w, f)
  BY WayExists
<1> HIDE DEF f
<1>3. f[0] = 0 /\ \A i \in 1..m : f[i] = Onward(a, w, f[i - 1], i)
  <2>1. 0 \in 0..m /\ \A i \in 1..m : i \in 0..m /\ i # 0
    OBVIOUS
  <2>2. \A i \in 0..m : f[i] = IF i = 0 THEN 0 ELSE Onward(a, w, f[i - 1], i)
    BY <1>2 DEF Way
  <2> QED
    BY <2>1, <2>2
<1> DEFINE T == {i \in 0..m : Spelt(a, e, s, w, i, f[i])}
<1>4. 0 \in T
  <2>1. Shape(a, e, Len(s)) /\ Len(s) \in Nat /\ Tree(Common(s), s, Len(s))
    BY BuiltFacts, CommonTree, LenProperties
  <2>2. 0 \in States(a) /\ a.length[0] = 0 /\ e[0] \in 0..Len(s)
    BY <2>1 DEF Shape
  <2>3. \A j \in 0..Len(s) : On(a, e, Common(s), 0, j)
    <3>1. \A j \in 0..Len(s) : 0 <= Common(s)[e[0]][j]
      BY <2>1, <2>2 DEF Tree
    <3> QED
      BY <2>2, <3>1 DEF On
  <2>4. Occ(s, w, 0) = 0..Len(s) /\ 0 \in 0..Len(s)
    BY <2>1, OccEmpty
  <2>5. Spelt(a, e, s, w, 0, 0)
    BY <2>2, <2>3, <2>4 DEF Spelt
  <2> QED
    BY <1>3, <2>5
<1>5. ASSUME NEW i \in 0..m - 1, i \in T PROVE i + 1 \in T
  <2> DEFINE h == i + 1
  <2>1. i \in Nat /\ h \in 1..m /\ h \in 0..m /\ h - 1 = i
    OBVIOUS
  <2>2. Spelt(a, e, s, w, i, f[i])
    BY <1>5
  <2>3. Spelt(a, e, s, w, h, Onward(a, w, f[i], h))
    BY <2>1, <2>2, SpeltStep
  <2> HIDE DEF h
  <2>4. f[h] = Onward(a, w, f[i], h)
    BY <1>3, <2>1
  <2>5. h \in T
    BY <2>1, <2>3, <2>4
  <2> QED
    BY <2>5 DEF h
<1>6. m \in T
  <2> HIDE DEF T
  <2>1. 0..m \subseteq T
    BY <1>4, <1>5, Induction
  <2> QED
    BY <2>1
<1> QED
  BY <1>1, <1>6

-----------------------------------------------------------------------------
(* Counts.                                                                 *)

\* The element that a sum over a set takes first.
Picked(s) == CHOOSE x \in s : TRUE

\* Induction over the subsets of a finite set.
LEMMA SubsetsInduction ==
    ASSUME NEW S, IsFiniteSet(S), NEW T, {} \in T,
           \A s \in SUBSET S : s # {} /\ s \ {Picked(s)} \in T => s \in T
    PROVE  SUBSET S \subseteq T
<1> DEFINE M == (SUBSET S) \ T
<1> SUFFICES ASSUME M # {} PROVE FALSE
  OBVIOUS
<1>1. IsWellFoundedOn(StrictSubsetOrdering(S), SUBSET S)
  BY FS_StrictSubsetOrderingWellFounded, FS_FiniteSubsetsOfFinite
<1>2. PICK s \in M : \A u \in M : ~ (<<u, s>> \in StrictSubsetOrdering(S))
  <2>1. M \subseteq SUBSET S
    OBVIOUS
  <2> HIDE DEF M
  <2> QED
    BY <1>1, <2>1, WFMin
<1>3. s \in SUBSET S /\ s # {}
  OBVIOUS
<1> DEFINE u == s \ {Picked(s)}
<1>4. Picked(s) \in s /\ u \in SUBSET S
  BY <1>3 DEF Picked
<1>5. <<u, s>> \in StrictSubsetOrdering(S)
  BY <1>3, <1>4 DEF StrictSubsetOrdering
<1>6. u \in T
  BY <1>2, <1>4, <1>5
<1> QED
  BY <1>3, <1>6

\* What Counts adds up below a state.
Below(f, S) == MapThenSumSet(LAMBDA t : f[t], S)

\* The sizes of sets that have nothing in common add up to that of their union.
LEMMA DisjointSum ==
    ASSUME NEW n \in Nat, NEW S, IsFiniteSet(S), NEW E, NEW f,
           \A t \in S : E[t] \subseteq 1..n /\ f[t] = Cardinality(E[t]),
           \A t, u \in S : t # u => E[t] \cap E[u] = {}
    PROVE  Below(f, S) = Cardinality(UNION {E[t] : t \in S})
<1> DEFINE All(s)  == UNION {E[t] : t \in s}
           Body(h) == [s \in SUBSET S |-> IF s = {} THEN 0
                         ELSE f[CHOOSE x \in s : TRUE] + h[s \ {CHOOSE x \in s : TRUE}]]
           iter    == CHOOSE h : h = Body(h)
           g       == [s \in SUBSET S |-> Cardinality(All(s))]
<1>1. Below(f, S) = iter[S]
  BY DEF Below, MapThenSumSet, MapThenFoldSet
<1>2. \A s \in SUBSET S : All(s) \subseteq 1..n /\ IsFiniteSet(All(s)) /\ Cardinality(All(s)) \in Nat
  <2> SUFFICES ASSUME NEW s \in SUBSET S
               PROVE  All(s) \subseteq 1..n /\ IsFiniteSet(All(s)) /\ Cardinality(All(s)) \in Nat
    OBVIOUS
  <2>1. All(s) \subseteq 1..n
    OBVIOUS
  <2>2. IsFiniteSet(1..n)
    BY 1 \in Int, n \in Int, FS_Interval
  <2> HIDE DEF All
  <2>3. IsFiniteSet(All(s))
    BY <2>1, <2>2, FS_Subset
  <2> QED
    BY <2>1, <2>3, FS_CardinalityType
<1>3. ASSUME NEW s \in SUBSET S, s # {}
      PROVE  /\ s \ {Picked(s)} \in SUBSET S
             /\ Cardinality(All(s)) = f[Picked(s)] + Cardinality(All(s \ {Picked(s)}))
  <2> DEFINE x == Picked(s)
             u == s \ {x}
             A == E[x]
             B == All(u)
  <2>1. x \in s /\ x \in S /\ u \in SUBSET S
    BY <1>3 DEF Picked
  <2> HIDE DEF x
  <2>2. All(s) = A \cup B /\ A = All({x})
    BY <2>1
  <2>3. A \cap B = {}
    BY <2>1
  <2>4. IsFiniteSet(A) /\ Cardinality(A) = f[x] /\ Cardinality(A) \in Nat
    <3>1. {x} \in SUBSET S
      BY <2>1
    <3>2. IsFiniteSet(All({x})) /\ Cardinality(All({x})) \in Nat
      BY <1>2, <3>1
    <3> QED
      BY <2>1, <2>2, <3>2
  <2>5. IsFiniteSet(B) /\ Cardinality(B) \in Nat
    BY <1>2, <2>1
  <2> HIDE DEF A, B, All
  <2>6. Cardinality(A \cup B) = Cardinality(A) + Cardinality(B) - Cardinality(A \cap B)
    BY <2>4, <2>5, FS_Union
  <2>7. Cardinality(A \cup B) = f[x] + Cardinality(B)
    <3>1. Cardinality(A \cap B) = 0
      BY <2>3, FS_EmptySet
    <3> DEFINE c == Cardinality(A)
               d == Cardinality(B)
    <3>2. c \in Nat /\ d \in Nat /\ Cardinality(A \cup B) = c + d - 0 /\ c = f[x]
      BY <2>4, <2>5, <2>6, <3>1
    <3> HIDE DEF c, d
    <3>3. Cardinality(A \cup B) = f[x] + d
      BY <3>2
    <3> QED
      BY <3>3 DEF d
  <2> QED
    BY <2>1, <2>2, <2>7 DEF B, x
<1>4. All({}) = {}
  OBVIOUS
<1>5. \A h : Body(h) = [s \in SUBSET S |-> IF s = {} THEN 0 ELSE f[Picked(s)] + h[s \ {Picked(s)}]]
  BY DEF Picked
<1> HIDE DEF All, Body
<1>6. g = Body(g)
  <2>1. ASSUME NEW s \in SUBSET S
        PROVE  g[s] = IF s = {} THEN 0 ELSE f[Picked(s)] + g[s \ {Picked(s)}]
    <3>1. CASE s = {}
      BY <1>4, <3>1, FS_EmptySet
    <3>2. CASE s # {}
      BY <1>3, <3>2
    <3> QED
      BY <3>1, <3>2
  <2>2. g = [s \in SUBSET S |-> g[s]]
    OBVIOUS
  <2> HIDE DEF g
  <2> QED
    BY <1>5, <2>1, <2>2
<1>7. iter = Body(iter)
  <2> HIDE DEF g
  <2> QED
    BY <1>6
<1> HIDE DEF iter, g
<1> DEFINE T == {s \in SUBSET S : iter[s] = Cardinality(All(s))}
<1>8. \A s \in SUBSET S : iter[s] = IF s = {} THEN 0 ELSE f[Picked(s)] + iter[s \ {Picked(s)}]
  <2>1. iter = [s \in SUBSET S |-> IF s = {} THEN 0 ELSE f[Picked(s)] + iter[s \ {Picked(s)}]]
    BY <1>5, <1>7
  <2> DEFINE k(s) == IF s = {} THEN 0 ELSE f[Picked(s)] + iter[s \ {Picked(s)}]
  <2>2. iter = [s \in SUBSET S |-> k(s)]
    BY <2>1
  <2> HIDE DEF k
  <2>3. \A s \in SUBSET S : iter[s] = k(s)
    BY <2>2
  <2> QED
    BY <2>3 DEF k
<1>9. {} \in T
  BY <1>4, <1>8, FS_EmptySet
<1>10. ASSUME NEW s \in SUBSET S, s # {}, s \ {Picked(s)} \in T PROVE s \in T
  BY <1>3, <1>8, <1>10
<1>11. S \in T
  <2> HIDE DEF T
  <2>1. SUBSET S \subseteq T
    BY <1>9, <1>10, SubsetsInduction
  <2> QED
    BY <2>1
<1> QED
  BY <1>1, <1>11 DEF All

-----------------------------------------------------------------------------
(* The positions of a state are its own and those of the states below.     *)

\* The positions of the states.
EndsOf(a, e, C, n) == [x \in States(a) |-> {i \in 1..n : On(a, e, C, x, i)}]

\* The states whose links lead to x.
Children(a, x) == {t \in States(a) : a.link[t] = x}

\* The positions of a state: those of its children, which have none in
\* common, and its own place if it is marked.
LEMMA EndsSplit ==
    ASSUME NEW a, NEW e, NEW C, NEW s, NEW n \in Nat, Built(a, e, C, s, n), Tree(C, s, n),
           NEW x \in States(a)
    PROVE  LET E == EndsOf(a, e, C, n)
               U == UNION {E[t] : t \in Children(a, x)}
           IN  /\ \A t, u \in Children(a, x) : t # u => E[t] \cap E[u] = {}
               /\ a.cnt[x] = 1 => a.length[x] \notin U /\ E[x] = U \cup {a.length[x]}
               /\ a.cnt[x] # 1 => a.cnt[x] = 0 /\ E[x] = U
<1> DEFINE l == a.length
           S == States(a)
           O(u, i) == On(a, e, C, u, i)
           K == Children(a, x)
           E == EndsOf(a, e, C, n)
           U == UNION {E[t] : t \in K}
           own == l[x]
<1>1. /\ Typed(a, e, n) /\ Rooted(a) /\ Apart(a, e, C) /\ Linked(a, e, C)
      /\ Complete(a, e, C, n) /\ Marked(a, e, C) /\ n <= n
  BY DEF Built
<1>2. /\ \A u \in S : l[u] \in Nat /\ e[u] \in 0..n /\ l[u] <= n
      /\ 0 \in S /\ NoState \notin S /\ a.link[0] = NoState
  <2>1. Shape(a, e, n)
    BY BuiltFacts
  <2> QED
    BY <2>1 DEF Shape
<1>3. /\ \A u \in S : O(u, e[u])
      /\ \A u \in S : \A i, j \in 0..n : O(u, i) /\ O(u, j) => l[u] <= C[i][j]
      /\ \A u \in S : \A i, j \in 0..n : O(u, i) /\ l[u] <= C[i][j] => O(u, j)
      /\ \A u \in S : \A i \in 0..n : O(u, i) => l[u] <= i
      /\ \A u, v \in S : \A i \in 0..n : O(u, i) /\ O(v, i) /\ l[u] = l[v] => u = v
  BY <1>1, OnFacts
<1>4. \A i, j \in 0..n : C[i][j] \in Nat /\ C[i][i] = i
  BY DEF Tree
<1>5. \A t \in K : /\ t \in S /\ l[x] < l[t] /\ O(x, e[t])
                   /\ \A u \in S : l[u] < l[t] /\ O(u, e[t]) => l[u] <= l[x]
  <2> SUFFICES ASSUME NEW t \in K
               PROVE  /\ t \in S /\ l[x] < l[t] /\ O(x, e[t])
                      /\ \A u \in S : l[u] < l[t] /\ O(u, e[t]) => l[u] <= l[x]
    OBVIOUS
  <2>1. t \in S /\ a.link[t] = x /\ t # 0
    BY <1>2 DEF Children
  <2> QED
    BY <1>1, <2>1 DEF Linked, LinkOf
<1>6. \A t \in S \ {0} : a.link[t] \in S /\ l[a.link[t]] < l[t] /\ O(a.link[t], e[t])
                         /\ \A u \in S : l[u] < l[t] /\ O(u, e[t]) => l[u] <= l[a.link[t]]
  BY <1>1 DEF Linked, LinkOf
<1>7. \A t \in S : a.link[t] = x => t \in K
  BY DEF Children
<1>8. a.cnt[x] = IF 0 < own /\ O(x, own) THEN 1 ELSE 0
  BY <1>1 DEF Marked
<1>9. \A i \in 0..n : \E u \in S : l[u] = i /\ O(u, i)
  <2> SUFFICES ASSUME NEW i \in 0..n PROVE \E u \in S : l[u] = i /\ O(u, i)
    OBVIOUS
  <2>1. \E u \in S : l[u] = C[i][i] /\ O(u, i)
    BY <1>1 DEF Complete
  <2> QED
    BY <1>4, <2>1
<1>10. \A u \in S : E[u] = {i \in 1..n : O(u, i)}
  BY DEF EndsOf
<1>11. \A i \in 1..n : i \in 0..n
  OBVIOUS
<1>12. x \in S
  OBVIOUS
<1>13. l[0] = 0 /\ \A u \in S : l[u] = 0 => u = 0
  BY <1>1 DEF Rooted
<1> HIDE DEF l, S, O, K, E, own
<1>14. ASSUME NEW t \in K, NEW i \in 0..n, O(t, i) PROVE O(x, i) /\ l[x] < i
  <2>1. t \in S /\ l[x] < l[t] /\ O(x, e[t]) /\ O(t, e[t]) /\ e[t] \in 0..n
    BY <1>2, <1>3, <1>5
  <2>2. l[t] <= C[e[t]][i] /\ l[t] <= i
    BY <1>3, <1>14, <2>1
  <2>3. l[x] \in Nat /\ l[t] \in Nat /\ C[e[t]][i] \in Nat /\ i \in Nat
    BY <1>2, <1>4, <1>12, <2>1
  <2>4. l[x] <= C[e[t]][i] /\ l[x] < i
    BY <2>1, <2>2, <2>3
  <2> QED
    BY <1>3, <1>12, <2>1, <2>4
\* A state of a place where x ends, and the one below x on its way.
<1>15. ASSUME NEW i \in 0..n, O(x, i), l[x] < i PROVE \E t \in K : O(t, i)
  <2> DEFINE L == {l[u] : u \in {v \in S : O(v, i) /\ l[x] < l[v]}}
  <2>1. PICK y \in S : l[y] = i /\ O(y, i)
    BY <1>9
  <2>2. L \in SUBSET Nat /\ L # {}
    BY <1>2, <1>15, <2>1
  <2>3. PICK h \in L : \A k \in L : h <= k
    <3> HIDE DEF L
    <3> QED
      BY <2>2, LeastNumber
  <2>4. PICK t \in S : O(t, i) /\ l[x] < l[t] /\ l[t] = h
    OBVIOUS
  <2>5. \A u \in S : O(u, i) /\ l[x] < l[u] => l[t] <= l[u]
    BY <2>3, <2>4
  <2> HIDE DEF L
  <2> DEFINE p == a.link[t]
  <2>6. t # 0
    BY <1>2, <1>12, <1>13, <2>4
  <2>7. p \in S /\ l[p] < l[t] /\ O(p, e[t])
    BY <1>6, <2>6
  <2>8. \A u \in S : l[u] < l[t] /\ O(u, e[t]) => l[u] <= l[p]
    BY <1>6, <2>6
  <2> HIDE DEF p
  <2>9. e[t] \in 0..n /\ O(t, e[t]) /\ l[t] <= C[e[t]][i] /\ l[t] <= C[i][e[t]]
    BY <1>2, <1>3, <2>4
  <2>10. l[t] \in Nat /\ l[p] \in Nat /\ l[x] \in Nat /\ C[e[t]][i] \in Nat /\ C[i][e[t]] \in Nat
    BY <1>2, <1>4, <1>12, <2>7, <2>9
  <2>11. O(p, i)
    <3>1. l[p] <= C[e[t]][i]
      BY <2>7, <2>9, <2>10
    <3> QED
      BY <1>3, <2>7, <2>9, <3>1
  <2>12. O(x, e[t])
    <3>1. l[x] <= C[i][e[t]]
      BY <2>4, <2>9, <2>10
    <3> QED
      BY <1>3, <1>12, <1>15, <2>9, <3>1
  <2>13. l[x] <= l[p]
    BY <1>12, <2>4, <2>8, <2>12
  <2>14. ~ (l[x] < l[p])
    <3>1. ASSUME l[x] < l[p] PROVE FALSE
      <4>1. l[t] <= l[p]
        BY <2>5, <2>7, <2>11, <3>1
      <4> QED
        BY <2>7, <2>10, <4>1
    <3> QED
      BY <3>1
  <2>15. l[p] = l[x]
    BY <2>10, <2>13, <2>14
  <2>16. p = x
    BY <1>3, <1>12, <1>15, <2>7, <2>11, <2>15
  <2>17. t \in K
    BY <1>7, <2>16 DEF p
  <2> QED
    BY <2>4, <2>17
<1>16. ASSUME NEW t \in K, NEW u \in K, NEW i \in 0..n, O(t, i), O(u, i) PROVE l[u] <= l[t]
  <2>1. t \in S /\ u \in S /\ l[t] \in Nat /\ l[u] \in Nat /\ l[x] \in Nat /\ l[x] < l[t]
    BY <1>2, <1>5, <1>12
  <2>2. ASSUME l[t] < l[u] PROVE FALSE
    <3>1. e[u] \in 0..n /\ O(u, e[u]) /\ l[u] <= C[i][e[u]] /\ C[i][e[u]] \in Nat
      BY <1>2, <1>3, <1>4, <1>16, <2>1
    <3>2. l[t] <= C[i][e[u]]
      BY <2>1, <2>2, <3>1
    <3>3. O(t, e[u])
      BY <1>3, <1>16, <2>1, <3>1, <3>2
    <3>4. l[t] <= l[x]
      BY <1>5, <2>1, <2>2, <3>3
    <3> QED
      BY <2>1, <3>4
  <2> QED
    BY <2>1, <2>2
<1>17. ASSUME NEW t \in K, NEW u \in K, t # u PROVE E[t] \cap E[u] = {}
  <2> SUFFICES ASSUME NEW i \in E[t], i \in E[u] PROVE FALSE
    OBVIOUS
  <2>1. i \in 0..n /\ O(t, i) /\ O(u, i) /\ t \in S /\ u \in S
    BY <1>5, <1>10, <1>11
  <2>2. l[u] <= l[t] /\ l[t] <= l[u] /\ l[t] \in Nat /\ l[u] \in Nat
    BY <1>2, <1>16, <2>1
  <2>3. l[t] = l[u]
    BY <2>2
  <2> QED
    BY <1>3, <1>17, <2>1, <2>3
<1>18. \A i : i \in U <=> (i \in E[x] /\ l[x] < i)
  <2>1. ASSUME NEW i \in U PROVE i \in E[x] /\ l[x] < i
    <3>1. PICK t \in K : i \in E[t]
      OBVIOUS
    <3>2. i \in 1..n /\ O(t, i)
      BY <1>5, <1>10, <3>1
    <3>3. O(x, i) /\ l[x] < i
      BY <1>11, <1>14, <3>2
    <3> QED
      BY <1>10, <1>12, <3>2, <3>3
  <2>2. ASSUME NEW i \in E[x], l[x] < i PROVE i \in U
    <3>1. i \in 1..n /\ i \in 0..n /\ O(x, i)
      BY <1>10, <1>11, <1>12
    <3>2. PICK t \in K : O(t, i)
      BY <1>15, <2>2, <3>1
    <3>3. i \in E[t]
      BY <1>5, <1>10, <3>1, <3>2
    <3> QED
      BY <3>3
  <2> QED
    BY <2>1, <2>2
<1> HIDE DEF U
<1>19. \A i \in E[x] : i \in 1..n /\ O(x, i) /\ own <= i /\ own \in Nat /\ i \in Nat
  <2> SUFFICES ASSUME NEW i \in E[x] PROVE i \in 1..n /\ O(x, i) /\ own <= i /\ own \in Nat /\ i \in Nat
    OBVIOUS
  <2>1. i \in 1..n /\ i \in 0..n /\ O(x, i)
    BY <1>10, <1>11, <1>12
  <2> QED
    BY <1>2, <1>3, <1>12, <2>1 DEF own
<1>20. own \in Nat /\ own <= n /\ l[x] = own
  BY <1>2, <1>12 DEF own
<1>21. own \in E[x] <=> (0 < own /\ O(x, own))
  <2>1. own \in 1..n <=> 0 < own
    BY <1>20
  <2> QED
    BY <1>10, <1>12, <2>1
<1>22. own \notin U
  BY <1>18, <1>20
<1>23. ASSUME a.cnt[x] = 1 PROVE E[x] = U \cup {own}
  <2>1. own \in E[x]
    BY <1>8, <1>21, <1>23
  <2> QED
    BY <1>18, <1>19, <1>20, <2>1
<1>24. ASSUME a.cnt[x] # 1 PROVE a.cnt[x] = 0 /\ E[x] = U
  <2>1. own \notin E[x] /\ a.cnt[x] = 0
    BY <1>8, <1>21, <1>24
  <2>2. \A i \in E[x] : l[x] < i
    <3> SUFFICES ASSUME NEW i \in E[x] PROVE own < i
      BY <1>20
    <3>1. own <= i /\ own \in Nat /\ i \in Nat /\ own # i
      BY <1>19, <2>1
    <3> QED
      BY <3>1
  <2>3. \A i : i \in U <=> i \in E[x]
    BY <1>18, <2>2
  <2> QED
    BY <2>1, <2>3
<1> QED
  BY <1>17, <1>22, <1>23, <1>24 DEF own, l, K, E, U

\* The recursion by which Counts is defined.
Gather(a, f) == [x \in States(a) |-> a.cnt[x] + Below(f, Children(a, x))]

\* The numbers of these positions.
Sizes(a, e, C, n) == [x \in States(a) |-> Cardinality(EndsOf(a, e, C, n)[x])]

\* One step of it, above states that are right.
LEMMA GatherStep ==
    ASSUME NEW a, NEW e, NEW C, NEW s, NEW n \in Nat, Built(a, e, C, s, n), Tree(C, s, n),
           NEW x \in States(a), NEW f,
           \A t \in Children(a, x) : f[t] = Sizes(a, e, C, n)[t]
    PROVE  a.cnt[x] + Below(f, Children(a, x)) = Sizes(a, e, C, n)[x]
<1> DEFINE S == States(a)
           K == Children(a, x)
           E == EndsOf(a, e, C, n)
           U == UNION {E[t] : t \in K}
           own == a.length[x]
           g == Sizes(a, e, C, n)
<1>1. /\ \A t, u \in K : t # u => E[t] \cap E[u] = {}
      /\ a.cnt[x] = 1 => own \notin U /\ E[x] = U \cup {own}
      /\ a.cnt[x] # 1 => a.cnt[x] = 0 /\ E[x] = U
  BY EndsSplit
<1>2. IsFiniteSet(K)
  <2>1. PICK k \in Nat \ {0} : S = 0..k - 1
    BY DEF Built, Typed
  <2>2. IsFiniteSet(0..k - 1)
    <3>1. k - 1 \in Int /\ 0 \in Int
      BY <2>1
    <3> QED
      BY <3>1, FS_Interval
  <2>3. K \in SUBSET (0..k - 1)
    BY <2>1 DEF Children
  <2> HIDE DEF K
  <2> QED
    BY <2>2, <2>3, FS_Subset
<1>3. \A t \in S : E[t] \subseteq 1..n /\ g[t] = Cardinality(E[t])
  BY DEF EndsOf, Sizes
<1>4. K \subseteq S
  BY DEF Children
<1>5. \A t \in K : f[t] = g[t]
  OBVIOUS
<1> HIDE DEF K, E, S, g, own
<1>6. Below(f, K) = Cardinality(U)
  <2>1. \A t \in K : E[t] \subseteq 1..n /\ f[t] = Cardinality(E[t])
    BY <1>3, <1>4, <1>5
  <2> QED
    BY <1>1, <1>2, <2>1, DisjointSum
<1>7. IsFiniteSet(U) /\ Cardinality(U) \in Nat
  <2>1. U \in SUBSET (1..n)
    BY <1>3, <1>4
  <2>2. IsFiniteSet(1..n)
    BY 1 \in Int, n \in Int, FS_Interval
  <2> HIDE DEF U
  <2>3. IsFiniteSet(U)
    BY <2>1, <2>2, FS_Subset
  <2> QED
    BY <2>3, FS_CardinalityType
<1>8. g[x] = Cardinality(E[x])
  BY <1>3 DEF S
<1> HIDE DEF U
<1>9. CASE a.cnt[x] = 1
  <2>1. own \notin U /\ E[x] = U \cup {own}
    BY <1>1, <1>9
  <2>2. Cardinality(U \cup {own}) = Cardinality(U) + 1
    BY <1>7, <2>1, FS_AddElement
  <2>3. g[x] = 1 + Cardinality(U)
    BY <1>7, <1>8, <2>1, <2>2
  <2> QED
    BY <1>6, <1>9, <2>3 DEF K, g
<1>10. CASE a.cnt[x] # 1
  <2>1. a.cnt[x] = 0 /\ E[x] = U
    BY <1>1, <1>10
  <2>2. g[x] = 0 + Cardinality(U)
    BY <1>7, <1>8, <2>1
  <2> QED
    BY <1>6, <2>1, <2>2 DEF K, g
<1> QED
  BY <1>9, <1>10

\* Counts gives each state the number of its positions.
LEMMA CountsFacts ==
    ASSUME NEW a, NEW e, NEW C, NEW s, NEW n \in Nat, Built(a, e, C, s, n), Tree(C, s, n)
    PROVE  \A x \in States(a) : Counts(a)[x] = Sizes(a, e, C, n)[x]
<1> DEFINE S == States(a)
           l == a.length
           g == Sizes(a, e, C, n)
           f == CHOOSE h : h = Gather(a, h)
<1>1. Counts(a) = f
  BY DEF Counts, Gather, Below, Children
<1>2. g = Gather(a, g)
  <2>1. \A x \in S : a.cnt[x] + Below(g, Children(a, x)) = g[x]
    <3> HIDE DEF g
    <3>1. \A x \in S : \A t \in Children(a, x) : g[t] = Sizes(a, e, C, n)[t]
      BY DEF g
    <3> QED
      BY <3>1, GatherStep DEF g
  <2>2. g = [x \in S |-> g[x]]
    BY DEF Sizes
  <2> DEFINE k(x) == a.cnt[x] + Below(g, Children(a, x))
  <2>3. \A x \in S : k(x) = g[x]
    BY <2>1
  <2>4. Gather(a, g) = [x \in S |-> k(x)]
    BY DEF Gather
  <2> HIDE DEF g, k
  <2> QED
    BY <2>2, <2>3, <2>4
<1>3. f = Gather(a, f)
  <2> HIDE DEF g
  <2> QED
    BY <1>2
<1> HIDE DEF f
<1>4. \A x \in S : f[x] = a.cnt[x] + Below(f, Children(a, x))
  <2> DEFINE k(x) == a.cnt[x] + Below(f, Children(a, x))
  <2>1. f = [x \in S |-> k(x)]
    BY <1>3 DEF Gather
  <2> HIDE DEF k
  <2>2. \A x \in S : f[x] = k(x)
    BY <2>1
  <2> QED
    BY <2>2 DEF k
<1>5. /\ \A x \in S : l[x] \in Nat /\ l[x] <= n
      /\ \A x \in S : \A t \in Children(a, x) : t \in S /\ l[x] < l[t]
  <2>1. Shape(a, e, n) /\ Linked(a, e, C)
    BY BuiltFacts DEF Built
  <2>2. \A x \in S : l[x] \in Nat /\ l[x] <= n
    BY <2>1 DEF Shape
  <2>3. ASSUME NEW x \in S, NEW t \in Children(a, x) PROVE t \in S /\ l[x] < l[t]
    <3>1. t \in S /\ a.link[t] = x /\ t # 0
      BY <2>1 DEF Children, Shape
    <3> QED
      BY <2>1, <3>1 DEF Linked, LinkOf
  <2> QED
    BY <2>2, <2>3
<1> DEFINE T == {i \in 0..n : \A x \in S : n - i <= l[x] => f[x] = g[x]}
<1> HIDE DEF l, S, g
<1>6. ASSUME NEW x \in S, \A t \in Children(a, x) : f[t] = g[t] PROVE f[x] = g[x]
  <2>1. a.cnt[x] + Below(f, Children(a, x)) = g[x]
    BY <1>6, GatherStep DEF S, g
  <2> QED
    BY <1>4, <2>1
<1>7. 0 \in T
  <2>1. ASSUME NEW x \in S, n - 0 <= l[x] PROVE f[x] = g[x]
    <3>1. ASSUME NEW t \in Children(a, x) PROVE FALSE
      <4>1. l[t] \in Nat /\ l[t] <= n /\ l[x] < l[t] /\ l[x] \in Nat
        BY <1>5
      <4> QED
        BY <2>1, <4>1
    <3>2. \A t \in Children(a, x) : f[t] = g[t]
      BY <3>1
    <3> QED
      BY <1>6, <3>2
  <2> QED
    BY <2>1
<1>8. ASSUME NEW i \in 0..n - 1, i \in T PROVE i + 1 \in T
  <2>1. ASSUME NEW x \in S, n - (i + 1) <= l[x] PROVE f[x] = g[x]
    <3>1. ASSUME NEW t \in Children(a, x) PROVE f[t] = g[t]
      <4>1. t \in S /\ l[t] \in Nat /\ l[x] < l[t] /\ l[x] \in Nat
        BY <1>5
      <4>2. n - i <= l[t]
        BY <2>1, <4>1
      <4> QED
        BY <1>8, <4>1, <4>2
    <3> QED
      BY <1>6, <3>1
  <2>2. i + 1 \in 0..n
    OBVIOUS
  <2> QED
    BY <2>1, <2>2
<1>9. n \in T
  <2> HIDE DEF T
  <2>1. 0..n \subseteq T
    BY <1>7, <1>8, Induction
  <2> QED
    BY <2>1
<1>10. ASSUME NEW x \in S PROVE f[x] = g[x]
  <2>1. n - n <= l[x]
    BY <1>5
  <2> QED
    BY <1>9, <2>1
<1> QED
  BY <1>1, <1>10 DEF S, g

\* The ends of a word, as the model has them.
LEMMA EndsOcc ==
    ASSUME NEW V, NEW s \in Seq(V), NEW w \in Seq(V)
    PROVE  Ends(s, w) = Occ(s, w, Len(w))
<1> DEFINE n == Len(s)
           m == Len(w)
<1>1. n \in Nat /\ m \in Nat
  BY LenProperties
<1> HIDE DEF n, m
<1>2. ASSUME NEW j \in m..n
      PROVE  SubSeq(s, j - m + 1, j) = w <=> \A k \in 0..m - 1 : s[j - k] = w[m - k]
  <2> DEFINE b == j - m + 1
             v == SubSeq(s, b, j)
  <2>1. /\ b \in Int /\ j \in Int /\ (IF b <= j THEN j - b + 1 ELSE 0) = m /\ j - b + 1 = m
        /\ \A k \in b..j : k \in 1..n
    BY <1>1
  <2>2. \A k \in 1..n : s[k] \in V
    BY ElementOfSeq DEF n
  <2>3. v \in Seq(V) /\ Len(v) = m /\ \A k \in 1..m : v[k] = s[b + k - 1]
    <3> HIDE DEF b
    <3>1. \A k \in b..j : s[k] \in V
      BY <2>1, <2>2
    <3>2. /\ v \in Seq(V) /\ Len(v) = (IF b <= j THEN j - b + 1 ELSE 0)
          /\ \A k \in 1..j - b + 1 : v[k] = s[b + k - 1]
      BY <2>1, <3>1, SubSeqProperties
    <3> HIDE DEF v
    <3> QED
      BY <2>1, <3>2
  <2>4. v = w <=> \A k \in 1..m : s[b + k - 1] = w[k]
    <3> HIDE DEF v, b
    <3>1. v = w <=> \A k \in 1..m : v[k] = w[k]
      BY <2>3, SeqEqual DEF m
    <3> QED
      BY <2>3, <3>1
  <2>5. ASSUME \A k \in 1..m : s[b + k - 1] = w[k], NEW k \in 0..m - 1
        PROVE  s[j - k] = w[m - k]
    <3> DEFINE h == m - k
    <3>1. h \in 1..m /\ b + h - 1 = j - k
      BY <1>1
    <3> HIDE DEF h, b
    <3>2. s[b + h - 1] = w[h]
      BY <2>5, <3>1
    <3> QED
      BY <3>1, <3>2 DEF h
  <2>6. ASSUME \A k \in 0..m - 1 : s[j - k] = w[m - k], NEW k \in 1..m
        PROVE  s[b + k - 1] = w[k]
    <3> DEFINE h == m - k
    <3>1. h \in 0..m - 1 /\ b + k - 1 = j - h /\ m - h = k
      BY <1>1
    <3> HIDE DEF h, b
    <3>2. s[j - h] = w[m - h]
      BY <2>6, <3>1
    <3> QED
      BY <3>1, <3>2
  <2> QED
    BY <2>4, <2>5, <2>6
<1> QED
  BY <1>2 DEF Ends, Occ, n, m

\* What an automaton says of a word is what is true of it.
LEMMA SoundCounts ==
    ASSUME NEW V, NEW s \in Seq(V), NEW a, Sound(a, s), NEW w \in Seq(V), Len(w) # 0
    PROVE  LET x == Reached(a, w)
           IN  /\ x # NoState <=> Ends(s, w) # {}
               /\ x # NoState => Counts(a)[x] = Cardinality(Ends(s, w))
<1> DEFINE x == Reached(a, w)
           n == Len(s)
           m == Len(w)
           C == Common(s)
<1>1. n \in Nat /\ m \in Nat /\ m # 0 /\ Tree(C, s, n)
  BY LenProperties, CommonTree
<1>2. PICK e : Built(a, e, C, s, n)
  BY DEF Sound
<1>3. Spelt(a, e, s, w, m, x)
  BY <1>1, <1>2, ReachedFacts
<1>4. Ends(s, w) = Occ(s, w, m)
  BY EndsOcc
<1>5. NoState \notin States(a)
  <2>1. Shape(a, e, n)
    BY <1>1, <1>2, BuiltFacts
  <2> QED
    BY <2>1 DEF Shape
<1>6. x # NoState <=> Ends(s, w) # {}
  BY <1>3, <1>4, <1>5 DEF Spelt
<1>7. ASSUME x # NoState PROVE Counts(a)[x] = Cardinality(Ends(s, w))
  <2>1. x \in States(a) /\ \A j \in 0..n : On(a, e, C, x, j) <=> j \in Ends(s, w)
    BY <1>3, <1>4, <1>6, <1>7 DEF Spelt
  <2>2. \A j \in Ends(s, w) : j \in 1..n
    BY <1>1, <1>4 DEF Occ
  <2>3. \A j \in 1..n : j \in 0..n
    OBVIOUS
  <2>4. EndsOf(a, e, C, n)[x] = {i \in 1..n : On(a, e, C, x, i)}
    BY <2>1 DEF EndsOf
  <2>5. EndsOf(a, e, C, n)[x] = Ends(s, w)
    BY <2>1, <2>2, <2>3, <2>4
  <2>6. Counts(a)[x] = Sizes(a, e, C, n)[x]
    BY <1>1, <1>2, <2>1, CountsFacts
  <2>7. Sizes(a, e, C, n)[x] = Cardinality(EndsOf(a, e, C, n)[x])
    BY <2>1 DEF Sizes
  <2> QED
    BY <2>5, <2>6, <2>7
<1> QED
  BY <1>6, <1>7

\* The automata know the words of their streams and no others, and how often
\* each occurs, for every vocabulary and every length.
THEOREM CountsExact == Spec => []CountsAreOccurrences
<1>1. SoundAutomata => CountsAreOccurrences
  <2> SUFFICES ASSUME SoundAutomata, NEW k \in Keys, NEW w \in Words
               PROVE  LET s == Reached(sams[k], w)
                      IN  /\ s # NoState <=> Ends(stream[k], w) # {}
                          /\ s # NoState => Counts(sams[k])[s] = Cardinality(Ends(stream[k], w))
    BY DEF CountsAreOccurrences
  <2>1. stream[k] \in Seq(Vocabulary) /\ Sound(sams[k], stream[k])
    BY DEF SoundAutomata, Streams
  <2>2. w \in Seq(Vocabulary) /\ Len(w) # 0
    <3>1. PICK m \in 1..MaxLength : w \in [1..m -> Vocabulary]
      BY DEF Words
    <3>2. m \in Nat /\ m # 0
      BY <3>1
    <3> QED
      BY <3>1, <3>2
  <2> QED
    BY <2>1, <2>2, SoundCounts
<1> QED
  BY <1>1, AutomatonSound, PTL
=============================================================================
