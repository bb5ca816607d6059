------------------------------ MODULE ReplayLoop ------------------------------
(***************************************************************************)
(* The replay of recorded requests (sim/replay.py, run_replay) with any of *)
(* the five proposers: propose a draft, verify it against the recorded     *)
(* tokens, harvest the outcome, raise the epochs of the files edited by    *)
(* then, move on; request after request, the proposer keeping what it      *)
(* learned.                                                                *)
(*                                                                         *)
(* A request holds its tokens, top-k rows and segments, and its events, in *)
(* the order of their ends: the tokens up to an edit's pos (and after the  *)
(* edit before) belong to its file, and its epoch is raised at bump.  An   *)
(* event of another type than file_edit has no file; it is passed over at  *)
(* its bump.  Positions count from 0.                                      *)
(***************************************************************************)
EXTENDS VerifyOutcome, LedgerProposer, TraceRecords, TokenRecycling, DenseKey

CONSTANTS Traces,     \* the sequences of records replayed
          Kinds,      \* of proposers
          MaxOrder,   \* MAX_ORDER (8)
          Recent,     \* tokens of the context a proposer is shown (32)
          NoOutcome

ASSUME ReplayConstants ==
    /\ MaxOrder \in Nat \ {0} /\ Orders \subseteq 2..MaxOrder
    /\ Recent \in Nat \ {0}
    /\ Kinds \subseteq {"ledger", "positive", "recycle", "dense", "vanilla"}

SessionId(sc) == <<"session", sc.tenant, sc.repo, sc.session>>
RepoId(sc)    == <<"repo", sc.tenant, sc.repo>>
GlobalId(sc)  == <<"global", sc.tenant>>

\* scope_stack(): every tier of a request belongs to its tenant.
ScopeStack(sc) ==
    [d \in 0..2 |-> <<SessionId(sc), RepoId(sc), GlobalId(sc)>>[d + 1]]

\* A record as the JSON reader returns it, valid or not.
Steps == [proposed : Seq(Tokens), acc : Int, bonus : Tokens,
          ids : Seq(Seq(Tokens)), qs : Seq(Seq(Int)), seg : Seq(STRING)]

IsRecord(rec) ==
    /\ rec.id \in Int /\ rec.ts \in Int
    /\ rec.scope.tenant \in Tenants /\ RepoId(rec.scope) \in Repos
    /\ ScopeStack(rec.scope) \in [0..2 -> ScopeIds]
    /\ rec.steps \in Seq(Steps)
    /\ rec.events \in Seq([pos : Nat, bump : Int, file : Domains])

ASSUME RecordsTyped ==
    \A recs \in Traces :
        /\ Len(recs) \in Nat /\ DOMAIN recs = 1..Len(recs)
        /\ \A i \in DOMAIN recs : IsRecord(recs[i])

Outcomes ==
    [scopes : [0..2 -> ScopeIds], tail : Seq(Tokens), draft : Seq(Tokens), acc : Nat,
     bonus : Tokens, ids : Seq(Seq(Tokens)), topk : Seq(TopkRows), seg : Seq(Segments),
     file : Domains]

\* The store answers in tokens.
ASSUME AnswersTyped ==
    /\ NoOutcome \notin Outcomes /\ NoSpan \notin Proposals
    /\ \A proposal \in Proposals : proposal.body \in Seq(Tokens)
    /\ \A post \in Posteriors : post.top.tok \in Tokens /\ post.patch.tok \in Tokens

VARIABLES reqs, kind,
          r,         \* the request replayed; 0 before the first
          p,         \* position reached
          step,      \* "next", "draft", "bump", "move" or "over"
          outcome,   \* the outcome harvested in this step
          fired,     \* ev_idx: the number of events that took effect
          written    \* history: the tokens of all outcomes harvested

runVars == <<reqs, kind, r>>
learned == <<rows, index>>
replayVars == <<runVars, p, step, outcome, fired, written>>
vars == <<draftVars, learned, replayVars>>

req == reqs[r]
N   == Len(req.toks)

OfLedger == kind \in {"ledger", "positive"}

Init ==
    /\ reqs \in {ReadTraces(recs) : recs \in Traces} /\ kind \in Kinds
    /\ r = 0 /\ p = 0 /\ step = "next" /\ fired = 0 /\ written = <<>>
    /\ outcome = NoOutcome
    /\ tree = <<>> /\ parent = 0 /\ off = 0 /\ cum = 0
    /\ span = NoSpan /\ stage = "done"
    /\ RowsInit /\ IndexInit

\* Only the ledger proposers look up spans.
Begin(proposal) == (OfLedger \/ proposal = NoSpan) /\ StartDraft(proposal)

\* The next request is opened.  An empty one has no steps.
OpenRequest(proposal) ==
    /\ step = "next" /\ r < Len(reqs)
    /\ r' = r + 1 /\ p' = 0 /\ fired' = 0
    /\ step' = IF reqs[r'].toks = <<>> THEN "next" ELSE "draft"
    /\ Begin(proposal)
    /\ UNCHANGED <<learned, reqs, kind, outcome, written>>

EndReplay ==
    /\ step = "next" /\ r = Len(reqs)
    /\ step' = "over"
    /\ UNCHANGED <<draftVars, learned, runVars, p, outcome, fired, written>>

-----------------------------------------------------------------------------
(* The drafts of the proposers.                                            *)

DraftOfLedger ==
    /\ step = "draft" /\ OfLedger
    /\ DraftStep
    /\ UNCHANGED <<learned, replayVars>>

Drafted(nodes) ==
    /\ tree' = nodes /\ stage' = "done"
    /\ UNCHANGED <<parent, span, off, cum, rows, replayVars>>

Asked == step = "draft" /\ stage # "done"

DraftOfVanilla == Asked /\ kind = "vanilla" /\ Drafted(<<>>) /\ UNCHANGED index

\* The root is the last token of the context.
DraftOfRecycle ==
    /\ Asked /\ kind = "recycle"
    /\ Drafted(IF p = 0 THEN <<>> ELSE RecycledTree(rows[req.scope.tenant], req.toks[p]))
    /\ UNCHANGED index

\* Contexts of less than two tokens are not looked up; a search first takes
\* the buffered keys into the index.
DraftOfDense ==
    /\ Asked /\ kind = "dense"
    /\ LET repo == RepoId(req.scope)
           idx  == Flush(index[repo])
       IN  IF Lesser(p, Recent) < 2 THEN Drafted(<<>>) /\ UNCHANGED index
           ELSE /\ index' = [index EXCEPT ![repo] = idx]
                /\ \E id \in 0..Len(idx.keys) :
                      Drafted(IF id = 0 THEN <<>> ELSE Continuation(idx, id, Budget))

-----------------------------------------------------------------------------
\* The file of a position: the one of the first edit that ends there or later.
FileAt(i) ==
    LET later == {e \in 1..Len(req.events) :
                    req.events[e].file # NoFile /\ req.events[e].pos >= i}
    IN  IF later = {} THEN NoFile ELSE req.events[First(later)].file

\* Mutant: a draft cut short at the end keeps the token after the cut.
VerdictUncut ==
    LET ahead == SubSeq(req.toks, p + 1, N)
        acc   == AcceptedLen(tree, ahead)
    IN  [acc |-> Lesser(acc, N - p - 1), rej |-> RejectedTok(tree, ahead)]

\* The verdict on the draft: tokens accepted, token rejected.  The last token
\* of the request can only be a bonus.
Verdict ==
    LET ahead == SubSeq(req.toks, p + 1, N)
        acc   == AcceptedLen(tree, ahead)
    IN  IF acc > N - p - 1 THEN [acc |-> N - p - 1, rej |-> NoTok]
        ELSE [acc |-> acc, rej |-> RejectedTok(tree, ahead)]

\* Mutant: the context tail is one token short.
TailShort == SubSeq(req.toks, Greater(0, p - MaxOrder + 1) + 1, p)

ContextTail == SubSeq(req.toks, Greater(0, p - MaxOrder) + 1, p)

\* The ids of a row, with their log-probabilities as far as those go.
TopkRow(ids, qs) ==
    [i \in 1..Len(ids) |-> [tok |-> ids[i], q |-> IF i <= Len(qs) THEN qs[i] ELSE Unseen]]

\* The accepted path is the recorded continuation.
Verified ==
    LET v     == Verdict
        files == {i \in p..p + v.acc : FileAt(i) # NoFile}
    IN  [scopes |-> ScopeStack(req.scope),
         tail   |-> ContextTail,
         draft  |-> SubSeq(req.toks, p + 1, p + v.acc)
                    \o (IF v.rej = NoTok THEN <<>> ELSE <<v.rej>>),
         acc    |-> v.acc,
         bonus  |-> req.toks[p + v.acc + 1],
         ids    |-> SubSeq(req.ids, p + 1, p + v.acc + 1),
         topk   |-> [i \in 1..v.acc + 1 |-> TopkRow(req.ids[p + i], req.qs[p + i])],
         seg    |-> SubSeq(req.seg, p + 1, p + v.acc + 1),
         file   |-> IF files = {} THEN NoFile ELSE FileAt(First(files))]

Realized(ev) == SubSeq(ev.draft, 1, ev.acc) \o <<ev.bonus>>

\* In positive mode an outcome is stripped of the rejected token and of the
\* top-k rows.
Stripped(ev) == [ev EXCEPT !.draft = SubSeq(@, 1, ev.acc),
                           !.topk = [pos \in 1..ev.acc + 1 |-> <<>>]]

\* Mutant: the rows of one tenant serve all.
LearnForAll(ev) ==
    /\ rows' = IF kind # "recycle" THEN rows
               ELSE [t \in Tenants |-> Recycle(rows[t], ev, Realized(ev))]
    /\ index' = IF kind # "dense" THEN index
                ELSE [index EXCEPT ![RepoId(req.scope)] = Absorb(@, ev, Realized(ev))]

\* What the proposer keeps of an outcome; the store of the ledger proposers
\* is LedgerStore.
Learn(ev) ==
    /\ rows' = IF kind # "recycle" THEN rows
               ELSE [rows EXCEPT ![req.scope.tenant] = Recycle(@, ev, Realized(ev))]
    /\ index' = IF kind # "dense" THEN index
                ELSE [index EXCEPT ![RepoId(req.scope)] = Absorb(@, ev, Realized(ev))]

Verify ==
    /\ step = "draft" /\ stage = "done"
    /\ outcome' = IF kind = "positive" THEN Stripped(Verified) ELSE Verified
    /\ written' = written \o Realized(outcome')
    /\ Learn(outcome')
    /\ step' = "bump"
    /\ UNCHANGED <<draftVars, runVars, p, fired>>

Reached == p + outcome.acc + 1

\* Mutant: an event counts from the step after the one that reaches it.
EventDueLate == fired < Len(req.events) /\ req.events[fired + 1].bump < p

EventDue == fired < Len(req.events) /\ req.events[fired + 1].bump < Reached

\* Mutant: the same event stays due.
RaiseSameEpoch ==
    /\ step = "bump" /\ EventDue
    /\ UNCHANGED <<draftVars, learned, runVars, p, step, fired, outcome, written>>

\* bump_epoch of the session and of the repository, if the event is an edit.
RaiseEpoch ==
    /\ step = "bump" /\ EventDue
    /\ fired' = fired + 1
    /\ UNCHANGED <<draftVars, learned, runVars, p, step, outcome, written>>

EndBumps ==
    /\ step = "bump" /\ ~EventDue
    /\ step' = "move"
    /\ UNCHANGED <<draftVars, learned, runVars, p, outcome, fired, written>>

\* Mutant: the bonus token is not counted.
MoveByAccepted(proposal) ==
    /\ step = "move"
    /\ p' = p + outcome.acc
    /\ outcome' = NoOutcome
    /\ step' = IF p' < N THEN "draft" ELSE "next"
    /\ Begin(proposal)
    /\ UNCHANGED <<learned, runVars, fired, written>>

\* The next step of the loop, or the end of the request.
Move(proposal) ==
    /\ step = "move"
    /\ p' = Reached
    /\ outcome' = NoOutcome
    /\ step' = IF p' < N THEN "draft" ELSE "next"
    /\ Begin(proposal)
    /\ UNCHANGED <<learned, runVars, fired, written>>

Next ==
    \/ \E proposal \in Proposals \cup {NoSpan} : OpenRequest(proposal) \/ Move(proposal)
    \/ DraftOfLedger \/ DraftOfVanilla \/ DraftOfRecycle \/ DraftOfDense
    \/ Verify
    \/ RaiseEpoch \/ EndBumps
    \/ EndReplay

\* The simulator is one thread that runs on.
Spec == Init /\ [][Next]_vars /\ WF_vars(Next)

-----------------------------------------------------------------------------
\* What was replayed of request i so far.
Passed(i) ==
    CASE i < r -> reqs[i].toks
      [] i > r -> <<>>
      [] OTHER -> SubSeq(req.toks, 1, IF outcome = NoOutcome THEN p ELSE Reached)

\* All that was replayed of the requests in S, in the order of the replay.
PassedOf(S) ==
    Ext!FlattenSeq([i \in 1..Len(reqs) |-> IF i \in S THEN Passed(i) ELSE <<>>])

\* What was harvested is what was recorded, every token of every request once
\* and in order.
WrittenIsRead == written = PassedOf(DOMAIN reqs)

\* A row has a log-probability for each of its ids or for none of them.
RowWhole(row) == \A i, j \in DOMAIN row : row[i].q = Unseen <=> row[j].q = Unseen

\* Every outcome is one the store may be given: the draft is as long as its
\* verdict says, a rejected token is not the one that came instead, and a row
\* of ids came with its own log-probabilities or without any, however the
\* steps of the record were cut anew.
OutcomeHonest ==
    outcome # NoOutcome =>
        /\ IsOutcome(outcome)
        /\ Len(outcome.draft) <= outcome.acc + 1
        /\ IsRejectAt(outcome, outcome.acc) => outcome.draft[outcome.acc + 1] # outcome.bonus
        /\ Len(outcome.seg) = outcome.acc + 1 /\ Len(outcome.topk) = outcome.acc + 1
        /\ \A i \in 1..outcome.acc + 1 : RowWhole(outcome.topk[i])

\* Verification, which never goes back, accepts the longest path there is in
\* any draft the proposer makes.
AcceptsLongest ==
    step = "draft" /\ stage = "done" =>
        LET ahead == SubSeq(req.toks, p + 1, N)
        IN  AcceptedLen(tree, ahead) = LongestMatch(tree, ahead)

\* The contexts an outcome is stored under are those a lookup at the same
\* position of the stream reads: of every order the stream is long enough for.
ContextsAgree ==
    outcome # NoOutcome =>
        \A pos \in 0..outcome.acc : \A o \in Orders :
            LET stream == SubSeq(req.toks, 1, p + pos)
            IN  /\ o <= Len(stream) <=> o <= Len(PathTo(outcome, pos))
                /\ o <= Len(stream) => LastN(PathTo(outcome, pos), o) = LastN(stream, o)

\* The events of a request take effect in the order in which they end.
BumpsInOrder ==
    \A recs \in Traces : \A i \in DOMAIN ReadTraces(recs) :
        LET events == ReadTraces(recs)[i].events
        IN  \A e \in DOMAIN events : \A d \in 1..e : events[d].bump <= events[e].bump

\* Events take effect in the step that reaches them, and none is left over at
\* the end of the request.  (Where BumpsInOrder.)
EditsOnTime ==
    r > 0 /\ step \in {"move", "next", "over"} =>
        \A e \in 1..Len(req.events) :
            e <= fired <=> req.events[e].bump < (IF step = "move" THEN Reached ELSE p)

\* A draft keeps to its budget, and offers no token twice at the same place.
\* (Token recycling knows no budget, and pads its rows with token 0.)
DraftWellFormed ==
    kind # "recycle" =>
        /\ Len(tree) <= Budget
        /\ \A i, j \in 1..Len(tree) :
              i # j /\ tree[i].parent = tree[j].parent => tree[i].tok # tree[j].tok

\* Token recycling keeps for each token of a tenant the row recorded behind its
\* latest occurrence in a request of that tenant, whoever drafted in between,
\* and nothing of another tenant.
RowsAreLatest ==
    kind = "recycle" =>
        \A t \in Tenants :
            LET seen  == {s \in (1..r) \X (1..Len(written)) :
                            /\ reqs[s[1]].scope.tenant = t
                            /\ s[2] < Len(Passed(s[1])) /\ reqs[s[1]].ids[s[2] + 1] # <<>>}
                After(a, b) == a[1] > b[1] \/ (a[1] = b[1] /\ a[2] >= b[2])
            IN  /\ DOMAIN rows[t] = {reqs[s[1]].toks[s[2]] : s \in seen}
                /\ \A tok \in DOMAIN rows[t] :
                      \E s \in seen :
                         /\ reqs[s[1]].toks[s[2]] = tok
                         /\ \A o \in seen : reqs[o[1]].toks[o[2]] = tok => After(s, o)
                         /\ rows[t][tok] = Padded(reqs[s[1]].ids[s[2] + 1])

\* The stream of a repository holds the requests of that repository and no
\* other; every position of theirs but the first of a request has a key,
\* buffered or not, whose offset is that position; and the key is the end of
\* the request up to there, never less than what the context tail reaches.
KeysInPlace ==
    kind = "dense" =>
        \A repo \in Repos :
            LET idx   == index[repo]
                all   == idx.keys \o idx.buf
                mine  == {i \in 1..r : RepoId(reqs[i].scope) = repo}
                At(i, n) == Len(PassedOf({j \in mine : j < i})) + n - 1
                Ends(i, n) ==
                    LET least == Lesser(n, Lesser(DenseWindow, MaxOrder + 1))
                    IN  {LastN(SubSeq(Passed(i), 1, n), k) :
                           k \in least..Lesser(n, DenseWindow)}
            IN  /\ idx.stream = PassedOf(mine)
                /\ Len(all) = Len(idx.offsets)
                /\ {idx.offsets[id] : id \in DOMAIN idx.offsets}
                     = UNION {{At(i, n) : n \in 2..Len(Passed(i))} : i \in mine}
                /\ \A i \in mine : \A n \in 2..Len(Passed(i)) : \A id \in DOMAIN all :
                      idx.offsets[id] = At(i, n) => all[id] \in Ends(i, n)

\* The replay comes to the end of every request.
Finishes == <>(step = "over" /\ r = Len(reqs))
=============================================================================
