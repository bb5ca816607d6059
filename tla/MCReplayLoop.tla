----------------------------- MODULE MCReplayLoop -----------------------------
(***************************************************************************)
(* Two tokens; two tenants with a repository of the same name; a ledger    *)
(* that expects, doubts or corrects either token; spans with and without a *)
(* break.  The trace holds, in no order, a request of two edits and one    *)
(* other event, recorded as drafts and bonus tokens, in part without       *)
(* log-probabilities; two sessions converted from token logs, an empty     *)
(* request and two invalid records.                                        *)
(***************************************************************************)
EXTENDS ReplayLoop

C(tok, cost) == [tok |-> tok, cost |-> cost, sup |-> 1]

Expects(t)     == [top |-> C(t, 1), patch |-> C(t, 1)]
Corrects(t, u) == [top |-> C(t, 3), patch |-> C(u, 1)]
SomePosteriors == {Expects(t) : t \in {0, 1}} \cup {Corrects(t, u) : t, u \in {0, 1}}

SomeProposals ==
    {[body |-> <<0, 1, 0>>, breaks |-> [o \in {1} |-> n], count |-> 2] : n \in {1, 2}}

SmallTemplate == << <<0>>, <<1>>, <<0, 0>>, <<0, 1>>, <<1, 0>>, <<0, 0, 0>> >>

Sc(tenant, session) == [tenant |-> tenant, repo |-> "repo", session |-> session]

TheScopes == {Sc("t1", "s1"), Sc("t1", "s2"), Sc("t2", "s1")}
TheRepos  == {RepoId(sc) : sc \in TheScopes}
TheIds    == UNION {{SessionId(sc), RepoId(sc), GlobalId(sc)} : sc \in TheScopes}

St(proposed, acc, bonus, ids, qs, seg) ==
    [proposed |-> proposed, acc |-> acc, bonus |-> bonus, ids |-> ids, qs |-> qs, seg |-> seg]

Edited ==
    [version |-> 1, id |-> 2, ts |-> 1, scope |-> Sc("t1", "s1"),
     steps   |-> << St(<<0, 0>>, 1, 1, << <<0, 1>>, <<1>> >>, << <<0, 1>>, <<0>> >>, <<>>),
                    St(<<>>, 0, 0, <<>>, <<>>, <<"code">>),
                    St(<<0>>, 1, 1, << <<0>>, <<1>> >>, <<>>, <<"tool", "code">>),
                    St(<<1>>, 0, 1, << <<1, 0, 1>> >>, << <<0, 1, 1>> >>, <<"code">>) >>,
     events  |-> << [pos |-> 4, bump |-> -1, file |-> 2],
                    [pos |-> 3, bump |-> -1, file |-> NoFile],
                    [pos |-> 2, bump |-> 1, file |-> 1] >>]

Invalid == [Edited EXCEPT !.id = 1, !.steps[4].acc = 2]

\* A row of ids is longer than its row of log-probabilities.
Ragged == [Edited EXCEPT !.id = 3, !.steps[1].qs = << <<0>>, <<0>> >>]

Empty == [Edited EXCEPT !.ts = 2, !.steps = <<>>, !.events = <<>>]

Log(ts, sc, toks, ids) ==
    ConvertTokenLog([id |-> 1, ts |-> ts, scope |-> sc, toks |-> toks, seg |-> <<>>,
                     ids |-> ids, qs |-> [i \in DOMAIN ids |-> [j \in DOMAIN ids[i] |-> 0]],
                     events |-> <<>>])

SomeTraces ==
    {<<Log(3, Sc("t1", "s2"), <<0, 1, 0, 0, 1, 0>>,
           << <<1>>, <<1, 0>>, <<>>, <<0>>, <<1>>, <<1>> >>),
       Invalid,
       Ragged,
       Log(1, Sc("t2", "s1"), <<1, 1, 0>>, << <<1>>, <<0, 1>>, <<1, 1>> >>),
       Empty,
       Edited>>}
=============================================================================
