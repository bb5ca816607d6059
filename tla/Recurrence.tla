------------------------------ MODULE Recurrence ------------------------------
(***************************************************************************)
(* The recurrence statistics behind gate G1 (sim/replay.py,                *)
(* recurrence_stats): the tokens of all requests, in order, are fed to one *)
(* automaton per session and to one per repository, and it is counted how  *)
(* long a suffix of what went before each token is completed by it as it   *)
(* was once before.                                                        *)
(*                                                                         *)
(* stream is history: what each automaton was fed.                         *)
(***************************************************************************)
EXTENDS SuffixAutomaton

CONSTANTS Sessions,    \* the sessions, all of one repository
          Vocabulary,  \* their tokens
          MaxOrder,    \* MAX_ORDER (8)
          MaxLength    \* bound: tokens in all

VARIABLES sams,      \* one automaton per session, and Repo's
          ge,        \* ge[mode][o]: tokens with a match of o or more
          stream
vars == <<sams, ge, stream>>

\* The key of the repository's automaton, which the code keeps in a table
\* of its own; no session has it.
Repo  == "repo"
ASSUME RecurrenceConstants ==
    MaxOrder \in Nat \ {0} /\ MaxLength \in Nat /\ Repo \notin Sessions

Keys  == Sessions \cup {Repo}
Modes == {"session", "repo"}

\* The automaton a mode feeds with a token of a session.
KeyIn(mode, session) == IF mode = "session" THEN session ELSE Repo

Init ==
    /\ sams = [k \in Keys |-> NewAutomaton]
    /\ ge = [m \in Modes |-> [o \in 1..MaxOrder |-> 0]]
    /\ stream = [k \in Keys |-> <<>>]

\* The next token of a request.
Feed(session, tok) ==
    LET fed == {session, Repo}
    IN  /\ Len(stream[Repo]) < MaxLength
        /\ sams' = [k \in Keys |-> IF k \in fed THEN Extend(sams[k], tok) ELSE sams[k]]
        /\ ge' = [m \in Modes |-> [o \in 1..MaxOrder |->
                    ge[m][o] + IF sams'[KeyIn(m, session)].matchLen >= o THEN 1 ELSE 0]]
        /\ stream' = [k \in Keys |-> IF k \in fed THEN Append(stream[k], tok) ELSE stream[k]]

Next == \E session \in Sessions, tok \in Vocabulary : Feed(session, tok)

Spec == Init /\ [][Next]_vars

-----------------------------------------------------------------------------
\* Where a word ends in a sequence.
Ends(s, word) ==
    {i \in Len(word)..Len(s) : SubSeq(s, i - Len(word) + 1, i) = word}

\* The longest suffix of the first i tokens that ends earlier, too.
Recurs(s, i) ==
    CHOOSE n \in 0..i :
        LET Again(l) == \E j \in l..i - 1 : SubSeq(s, j - l + 1, j) = SubSeq(s, i - l + 1, i)
        IN  (n = 0 \/ Again(n)) /\ \A l \in n + 1..i : ~Again(l)

\* The statistics are exact: they count the tokens at which the stream
\* repeats o tokens or more, by the definition of repetition -- whatever
\* splits of states the matching walk, which runs ahead of them, has missed.
RatesAreExact ==
    \A m \in Modes, o \in 1..MaxOrder :
        LET keys == {KeyIn(m, session) : session \in Sessions}
        IN  ge[m][o] = Cardinality({at \in keys \X (1..MaxLength) :
                            /\ at[2] <= Len(stream[at[1]])
                            /\ Recurs(stream[at[1]], at[2]) >= o})

Words == UNION {[1..n -> Vocabulary] : n \in 1..MaxLength}

\* The automaton knows the words of its stream and no others, each with the
\* number of its occurrences, overlapping ones counted.
CountsAreOccurrences ==
    \A k \in Keys : \A w \in Words :
        LET s == Reached(sams[k], w)
        IN  /\ s # NoState <=> Ends(stream[k], w) # {}
            /\ s # NoState => Counts(sams[k])[s] = Cardinality(Ends(stream[k], w))
=============================================================================
