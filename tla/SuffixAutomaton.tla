--------------------------- MODULE SuffixAutomaton ---------------------------
(***************************************************************************)
(* The online suffix automaton (core/signature.py, SuffixAutomaton) and    *)
(* the matching walk that runs beside it.                                  *)
(*                                                                         *)
(* States are numbered from 0, the root, whose link is NoState.  Lengths   *)
(* decrease along the links, so a loop that climbs them until a condition  *)
(* holds stops at the longest state of the path that satisfies it.         *)
(***************************************************************************)
EXTENDS Integers, Sequences, FiniteSetsExt

NoState == -1
NoTrans == [t \in {} |-> NoState]

NewAutomaton ==
    [next   |-> [s \in {0} |-> NoTrans], link |-> [s \in {0} |-> NoState],
     length |-> [s \in {0} |-> 0],       cnt  |-> [s \in {0} |-> 0],
     last |-> 0, matchState |-> 0, matchLen |-> 0]

States(a) == DOMAIN a.link

\* A state and those its links lead to.
Climb(a, from) ==
    LET path[s \in States(a) \cup {NoState}] ==
          IF s = NoState THEN {} ELSE {s} \cup path[a.link[s]]
    IN  path[from]

Longest(a, S) == CHOOSE s \in S : \A t \in S : a.length[t] <= a.length[s]

\* The first state of a climb with a transition for the token.
FirstWith(a, from, tok) ==
    LET hits == {s \in Climb(a, from) : tok \in DOMAIN a.next[s]}
    IN  IF hits = {} THEN NoState ELSE Longest(a, hits)

-----------------------------------------------------------------------------
\* Mutant: a match that climbed a link keeps its length.
MatchTooLong(a, tok) ==
    LET s == FirstWith(a, a.matchState, tok)
    IN  IF s = NoState THEN [a EXCEPT !.matchState = 0, !.matchLen = 0]
        ELSE [a EXCEPT !.matchState = a.next[s][tok], !.matchLen = @ + 1]

\* The query of extend(): how the match with the past goes on.
Match(a, tok) ==
    LET s == FirstWith(a, a.matchState, tok)
    IN  IF s = NoState THEN [a EXCEPT !.matchState = 0, !.matchLen = 0]
        ELSE [a EXCEPT !.matchState = a.next[s][tok],
                       !.matchLen = (IF s = a.matchState THEN @ ELSE a.length[s]) + 1]

WithState(a, s, len, link, trans, n) ==
    LET Put(f, x) == [t \in DOMAIN f \cup {s} |-> IF t = s THEN x ELSE f[t]]
    IN  [a EXCEPT !.next = Put(@, trans), !.link = Put(@, link),
                  !.length = Put(@, len), !.cnt = Put(@, n)]

\* Transitions for tok from the states of S lead to target.
Lead(a, S, tok, target) ==
    [a EXCEPT !.next = [s \in DOMAIN @ |->
        IF s \in S
        THEN [t \in DOMAIN @[s] \cup {tok} |-> IF t = tok THEN target ELSE @[s][t]]
        ELSE @[s]]]

\* The states from p upward whose transition leads to q, up to the first one
\* that leads elsewhere.
LeadingTo(a, p, tok, q) ==
    {s \in Climb(a, p) : \A t \in Climb(a, p) :
        a.length[t] >= a.length[s] => a.next[t][tok] = q}

\* Mutant: the copy of a split state counts the present occurrence, too.
CloneCounting == 1

\* The copy of a split state has no end position of its own.
CloneCnt == 0

\* q holds the new suffix among longer strings: it is split.
Split(a, cur, p, tok, q) ==
    LET clone == cur + 1
        b == WithState(a, clone, a.length[p] + 1, a.link[q], a.next[q], CloneCnt)
    IN  [Lead(b, LeadingTo(a, p, tok, q), tok, clone)
            EXCEPT !.link = [@ EXCEPT ![q] = clone, ![cur] = clone]]

\* extend(tok), after its query.
Append1(a, tok) ==
    LET cur  == Cardinality(States(a))
        p    == FirstWith(a, a.last, tok)
        bare == {s \in Climb(a, a.last) : p = NoState \/ a.length[s] > a.length[p]}
        b    == Lead(WithState(a, cur, a.length[a.last] + 1, 0, NoTrans, 1), bare, tok, cur)
        q    == a.next[p][tok]
        c    == CASE p = NoState -> b
                  [] p # NoState /\ a.length[p] + 1 = a.length[q] -> [b EXCEPT !.link[cur] = q]
                  [] OTHER -> Split(b, cur, p, tok, q)
    IN  [c EXCEPT !.last = cur]

Extend(a, tok) == Append1(Match(a, tok), tok)

\* finalize_counts(): a count also goes to all states its link leads to.
Counts(a) ==
    LET total[s \in States(a)] ==
          a.cnt[s] + MapThenSumSet(LAMBDA t : total[t], {t \in States(a) : a.link[t] = s})
    IN  total

\* The state reached from the root with a word.
Reached(a, word) ==
    LET at[i \in 0..Len(word)] ==
          IF i = 0 THEN 0
          ELSE IF at[i - 1] = NoState THEN NoState
          ELSE IF word[i] \in DOMAIN a.next[at[i - 1]] THEN a.next[at[i - 1]][word[i]]
          ELSE NoState
    IN  at[Len(word)]
=============================================================================
