# A verification project for SpeculationLedger

SpeculationLedger keeps what a language model's verifier decided about drafted
tokens (the *outcomes*) in a table in host memory, and drafts the next tokens
from it. This directory holds TLA+ models of its core (`core/`) and of its
replay simulator (`sim/`), the TLC runs that check them on small instances, and
theorems that TLAPS proves for every value of the parameters.

The reference is the code. Every definition that models code is listed in
`PROJECT.json` under `map` with the lines it was translated from.

* [The system](#the-system)
* [Modules](#modules)
* [What is abstracted](#what-is-abstracted)
* [Runs](#runs)
* [Fairness](#fairness)
* [Theorems](#theorems)
* [What the checks found](#what-the-checks-found)
* [Behaviour worth knowing](#behaviour-worth-knowing)
* [Not modelled](#not-modelled)
* [Plan](#plan)

## The system

| component | code | state | operations |
|---|---|---|---|
| hot entry | `core/store.py`, `HotEntry` | candidates (acc, rej, quantized log-probability), cap, coverage average, epoch and file, cached view | `update_realized`, `update_rejected`, `merge_topk`, `reset`, `sources_view`, decay |
| store | `core/store.py`, `LedgerStore` | hot table in insertion order, epochs, harvest queue, counters | `harvest`, `drain`/`_apply`, `bump_epoch`, `lookup`, `compact` |
| spans | `core/store.py` (version 2), `core/arena.py` | span table, open run of every session, token arena with its dedup map | `_track_run`, `_flush_run`, `lookup_span`, break records, decay, arena `add`, `compact`, `dump`, `load` |
| persistence | `core/store.py`, `snapshot`, `load` | a file | save and load everything but queue, open runs and counters |
| blend | `core/backoff.py` | none | `lam`, `blend` |
| signatures | `core/signature.py` | rolling hashes of the last eight tokens | `push`, `stack_list`, `fold_key` |
| recurrence | `core/signature.py`, `sim/replay.py` | a suffix automaton per session and per repository, counters per order | `extend`, `finalize_counts`, `recurrence_stats` |
| proposers | `sim/proposers.py`, `sim/dense_key.py` | a ledger; rows per tenant (token recycling); a stream and an index per repository (dense keys) | `propose`, `harvest` |
| replay | `sim/replay.py` | request, position, next edit | `oracle_accept`, `run_replay` |
| traces | `sim/convert.py` | records | `validate_record`, `normalize_record`, `read_traces`, `convert_token_log` |
| experiments, plots | `sim/synth.py`, `sim/gates.py`, `sim/bench_d3.py`, `analysis/` | files | one pass over files |

How they interact. In the simulator one thread runs the loop *propose, verify,
harvest, drain, raise epochs, move on*, request after request. Online, as the
comments of `harvest` and `drain` and the design of `vllm_plugin/` say, the
engine calls `lookup`, `harvest` and `bump_epoch` while a background thread
drains and compacts. No lock protects the store.

What is hard about it, and where the models look:

* **concurrency**: harvest against drain (`HarvestQueue`); edits and lookups in
  the middle of an outcome (`LedgerStore`, `LedgerLookup`); a reader that caches
  its view beside an update (`HotEntry`); a span's offset and length loaded one
  after the other beside a registration that stores them one after the other, or
  beside a compaction (`SpanArena`);
* **staleness**: epochs are compared lazily, entries follow the file observed
  last, cached views, dedup maps, breaks and patches belong to contents that
  change;
* **restarts**: what a snapshot holds, what it leaves out, and edits it has not
  seen (`LedgerRestart`, `SpanArena`);
* **limits**: cap growth and eviction of candidates, FIFO eviction of entries,
  the bounded queue, decay to nothing, 16-bit wrap;
* **order**: the updates of one outcome, events against the step that reaches
  them, the verdict on a draft cut at the end of a recording, the row of a token
  that arrives with the step after it, keys that wait in a buffer.

`PROJECT.json` lists each hazard at its line, with the properties that cover it
or the reason why none does.

## Modules

    LedgerTypes                     tokens, files, segments, top-k rows
      VerifyOutcome                 outcomes, keys and what _apply derives from them
      HotEntryOps                   HotEntry as operators on records
        HotEntry                    one entry over its life          (MCHotEntry)
        LedgerStore                 hot table, queue, epochs, drain  (MCLedgerStore)
          LedgerRestart             stops, snapshots, loads, a twin  (MCLedgerRestart)
          LedgerSpans               version 2: runs, spans, breaks   (MCLedgerSpans)
          LedgerLookup  + Blend     lookups at any moment            (MCLedgerLookup)
    HarvestQueue                    harvest and drain in two threads (MCHarvestQueue)
      implements HarvestBuffer      an abstract drop-oldest buffer
    SpanArena                       the token arena                  (MCSpanArena)
      implements SpanBodies         a table of bodies
    SuffixAutomaton
      Recurrence                    the recurrence statistics        (MCRecurrence)
    DraftTrees                      draft trees and their verification
      LedgerProposer                growing a draft, step by step
      TokenRecycling, DenseKey      the two baselines with a state
      TraceRecords                  records, token logs, their order
        ReplayLoop + VerifyOutcome  the replay of whole traces       (MCReplayLoop)

    HotEntryProofs                  lemmas about HotEntryOps
      HotEntryTheorems              theorems about HotEntry
      LedgerStoreProofs             theorems about LedgerStore and LedgerRestart
        LedgerSpansProofs           theorems about LedgerSpans and LedgerLookup
    HarvestQueueProofs, SpanArenaProofs, ReplayLoopProofs, RecurrenceProofs

**HotEntryOps / HotEntry.** `UpdateRealized`, `UpdateRejected`, `MergeTopk`,
`Reset` and `Decay` are the methods of the same names (and the loop of
`compact`) as functions of an entry. `MergeTopk` is written in closed form, as
a function of the set of tokens in the row; the loop of the code is written out
in `HotEntry` (`MergePass`, `MergeLoop`), compared with it on every reachable
entry (`MergeIsLoop`), and proved to be the same (`MergeAsLoop`) for rows that
name no token twice, as the k most probable tokens of a model do not.
`HotEntry` adds a reader in another thread: `sources_view` computes the view in
one step and caches it in another.

**LedgerStore.** `drain` is a small program: `StartDrain`, `TakeOutcome`, one
step per visited entry (`UpdateEntry` for a key of the table, `CreateEntry` for
a new one, with the FIFO eviction of `_get_or_create`), `NextPosition`,
`EndApply`, `EndDrain` with the compaction that may be due. `Harvest`,
`BumpEpoch` and a `Compact` of the owner are actions of their own and happen
between any two of these steps (compaction between drains). The insertion order
of the Python dictionary is the relation `before`. History: `sent`, and
`seen[k]`, the file in which an entry was observed last and how often it was
edited since.

**LedgerRestart** gives the store several lives: `Save` between drains, a stop
at any moment, `Restart` with the image or with nothing. Beside it runs a twin,
a second `LedgerStore` that gets the same calls and is not stopped when the
store is stopped in an orderly way, right after a snapshot with an empty queue:
what the two then disagree about is what a snapshot loses. History: an image on
disk learns of the edits it misses, and `relapsed` holds the entries that a load
has set back behind one.

**LedgerSpans** adds to every action of `LedgerStore` what the code does to
runs and spans, and `FlushRun`. History: for every span the file its body comes
from and the edits since, for every break the draft it was recorded for.

**LedgerLookup** has no actions: a lookup changes nothing but statistics, so
its properties are state predicates of `LedgerStore`, in every state, also while
an outcome is half applied. `Blend` computes the posterior.

**HarvestQueue** splits `harvest` and `drain` into the test of the length and
the deque operation that follows. `online` says whether the two calls may
interleave. **HarvestBuffer** is what it promises: puts never wait, a full
buffer gives up and counts its oldest outcome; with a racing taker a put may
give one up needlessly, or fail.

**SpanArena** registers a run key by key, storing the offset of a replaced span
in one step and its length in the next, and copies the live spans one by one
during compaction, with spans whose offset already belongs to the fresh arena
beside others. A reader loads the offset of a span in one step, its length in
another and the tokens in a third. **SpanBodies** has no offsets at all.

**SuffixAutomaton / Recurrence.** `Extend` is one call of `extend` with its
matching walk, the splitting of states included. `Recurrence` feeds one
automaton per session and one for their repository, in every interleaving, and
keeps beside them the streams they were fed, from which match lengths and
occurrence counts are defined anew.

**TraceRecords** turns records of verify steps, and plain token logs, into the
requests the replay reads: validity, layout per position, defaults for omitted
lists, requests by time and events by position. `sort()` is its order: the k-th
of the elements is the one with k elements before it, equals in their places.

**LedgerProposer, TokenRecycling, DenseKey / ReplayLoop.** The replay opens the
requests of a trace one after the other, with any of the five kinds of proposer
(ledger, positive, token recycling, dense keys, none). Lookups of the ledger
answer anything from a small set, and a nearest-neighbour search returns any key
or none, so that the drafts cover everything a proposer might do. Each draft is
verified with `Walk`, the loop of `oracle_accept`; the outcome is harvested
(`Learn` is what the baselines keep of it), the events that are due take effect,
and the replay moves on.

## What is abstracted

* Hashes are injective: a key is its context, scope and segment; equal content
  hashes mean equal contents. The guard against key collisions (`e.seg`) is
  then always true.
* Numbers: the coverage average is kept in units of 1/`CovOne`, rounded down;
  the blend in units of 1/`One`; the proposer's product of probabilities is a
  sum of costs. Both parameters of the Beta prior are 1/2. Comparisons that
  differ only by rounding may come out differently from the floating-point
  code; no property depends on such a difference.
* A top-k row names each token once. `validate_record` compares the lengths of
  rows only as far as both lists go, so ids without any log-probabilities are
  valid, and `run_replay` hands them on (`TopkRow` marks such an id `Unseen`).
  For `merge_topk` they are a row: they count for the coverage, keep the
  candidates they name from fading and let the others fade (`core/store.py:159`
  to 173); only the loop that blends and admits (175), which goes as far as the
  log-probabilities do, passes over them.
* One outcome gives every position a segment that exists (0..3).
* Statistics (`lookups`, `hits`, `stale_skips`, sizes) are left out, except
  those the properties are about: `drops` and `harvested_events`.
* A lookup of the hot table is one atomic read, and so is the choice of a span in
  `lookup_span`; what it does with the span is not. A `load` beside a lookup is left out: the store is
  loaded before it serves.
* `ReplayLoop` sees the ledger through its answers only and counts the epochs it
  raises (`fired`); the store's own behaviour under those outcomes and edits is
  `LedgerStore`. An event of another type than `file_edit` is an event without
  a file: no position belongs to it and no epoch is raised for it, but the loop
  that takes events in order (`sim/replay.py:185`) stops at it until its bump is
  reached. JSON and missing keys are left out.
* Dense keys: the embedding and the distance are open, so that the flat index
  and the compressed one it grows into are the same.

## Runs

All passing runs explore their whole state space. Deadlock is checked, except
in `replay`, where the trace ends, and in `recurrence`, where the streams reach
their bound.

| run | states | what it shows |
|---|---|---|
| `hot_entry` | 547,860 | bound, cached view beside a reader, eviction, merging and fading of one entry under every sequence of operations |
| `restart` | 936,488 | two lives of the store: no outcome uncounted, no empty entry, a drained store goes on after a restart as if it had not been stopped, and only a stop sets entries back behind an edit |
| `spans` | 456,304 | memory bounds and freshness of the hot table under eviction and limited drains; span lengths and counts, breaks and patches that fit their body, the only two ways a span may outlive an edit |
| `queue` | 5,293 | order and accounting in one and two threads, refinement of `HarvestBuffer`, and that outcomes do not stay forever |
| `arena` | 728,650 | offsets stand for the tokens registered; what a reader gets beside registrations and compactions; compaction keeps each live body once; refinement of `SpanBodies` |
| `lookup` | 135,494 | posteriors rest on current entries and long contexts; a learned correction is ranked first |
| `replay` | 5,927 | drafts, verdicts, outcomes, contexts and events of a replay with every proposer, rows and keys of the baselines, and its end |
| `recurrence` | 2,591 | match lengths and occurrence counts of the automata against their definitions |
| `span_revived`, `correction`, `harvest_race`, `resumed` | | violations, see below |

Bounds, and why they are enough:

* *Counts* (`CountMax` 1, 2 or 4 for 65535, `DecayDiv` 2). Saturation, decay to
  zero and equal supports all occur. `QMax` 2 with `QStep` 1 lets a
  log-probability fade in two steps and saturate; in the other runs 1 tells
  probable from improbable.
* *Caps* (`KInit` 1 or 2, `KMax` up to 3, two to four tokens). Growth once and
  twice, the stop at `KMax`, eviction and refusal of newcomers occur.
* *Epochs* (`EpochMod` 2 or 3 for 2^16). Wrapping around occurs, which is why
  `ServedIsCurrent` has its condition; a history counter stops at `EpochMod`.
* *Keys*: one order and one tier where properties are about one entry or the
  table as a whole; orders 7 and 8 in `lookup`, with two contexts that differ
  in the eighth token back, so that the shorter one is aliased. `spans` fills a
  table of two entries, so that entries are evicted beneath the spans.
* *Outcomes* (`MaxSent` 2 to 5 in a life). Each property needs at most an
  entry's creation, an edit, an observation elsewhere and one more outcome; the
  queues have one or two places, so that they overflow.
* *Restarts*: one stop, at any moment, and at most two outcomes on either side
  of it. Both ways a life may begin (with the image, with nothing) and both ways
  one may end (orderly or not) occur; the image may be older than the last
  edit, and an edit may hit the image alone. `restart` compacts only on its
  owner's call; `resumed` turns the cadence on.
* *Spans*: runs of two and three tokens, contexts of two. `spans` has two files
  and one break, `span_revived` one file, five outcomes and no hot table.
* *Arena*: runs of which one begins like another and one ends where another
  begins, registered under one key or two; six tokens hold any two of the runs
  and what a load without its dedup map adds again.
* *Recurrence*: every interleaving of two sessions up to six tokens over two
  letters, which includes the splits of states that the matching walk misses.
* *Replay*: one trace out of order with a request of two edits and one other
  event recorded as drafts, in part without log-probabilities, two token logs of
  two tenants with a repository of the same name, an empty request and two
  invalid records; a budget of three makes the room run out
  in every branch of `propose`; rows of two with a template of six nodes, and
  keys buffered in pairs, so that padding and both sides of a flush occur.

Every property of a passing run has a mutant in `PROJECT.json`: a plausible bug
in one mapped definition that makes TLC find the property violated. The
mutated forms stand beside the definitions, each marked `Mutant`.

## Fairness

Only two specifications have fairness. `HarvestQueue`: a call of `harvest` that
began continues, and `drain` is called again and again (after every step by the
simulator, by its own thread online); nobody has to call `harvest`. `ReplayLoop`:
a single thread that runs on. The others are safety only.

## Theorems

Each theorem holds for all values of the constants that satisfy the module's
named assumptions (`TypeConstants`, `OutcomeConstants`, `EntryConstants`,
`StoreConstants`, `RecurrenceConstants` and their like), so for every number of tokens, files, tiers
and outcomes, every queue, table and cap, and behaviours of any length.

| theorem | property | argument |
|---|---|---|
| `HotEntryTheorems` | | over the lemmas of `HotEntryProofs`: eviction finds a weakest candidate and removes just that one, `Ensure` keeps the cap, `GrownCap` makes enough room or stops at `KMax`, `MergeTopk` and `Decay` return entries within their cap |
| `EntrySound` | `TypeOK` | `Sound`: without the cap neither `MergeTopk` nor `Ensure` can be shown to return an entry |
| `ViewsCoherent` | `CacheCoherent` | together with `ReaderCoherent`, what a reader in between holds |
| `EvictionFair` | `EvictionIsFair` | in every sound entry |
| `AbsentFade` | `AbsenceFades` | inductive on top of `Sound`: a merge lowers a missing candidate by exactly one step or saturates |
| `MergeAsLoop` | `MergeIsLoop` | `EntryAfter` is the entry after i passes in closed form: of the newcomers so far as many are in as there is room for (`CountsUpTo`), and the cap has doubled until they fit (`GrownCapStep`). `LoopPass` says that one pass leads from i to i + 1 |
| `LedgerStoreProofs` | | |
| `StoreTyped` | `TypeOK` | `Typed`, which is `TypeOK` with "every candidate list fits its cap". One lemma per action |
| `OutcomesConserved` | `NothingLost` | inductive on top of `Typed`: each step moves one outcome between queue, work, applied and dropped |
| `ServedCurrent` | `ServedIsCurrent` | `AllAccounted`, which says for each entry that it is bound to the file of its history, and that its epoch and that file's epoch differ, modulo `EpochMod`, by the edits counted there; a fresh entry then has none, or `EpochMod` of them |
| `OrderKept` | `InsertionOrder` (no run checks it) | inductive on top of `Typed`: eviction and compaction restrict the relation, a new key comes after all others |
| `MemoryBounded` | `Bounded` | `Limited`, that the table is finite and within its limit; that `Oldest` exists in a non-empty finite table ordered by `InsertionOrder` is the lemma `OldestExists` |
| `EntriesHaveEvidence` | `EveryEntryHasEvidence` | every update leaves the token it observed with a count, no merge lowers one, decay removes what falls to zero, and the survivors of a compaction are those with something left |
| `LedgerStoreProofs`, on `LedgerRestart` | | a call is a step of `LedgerStore`, so its step lemmas apply; what is new is `Saved`, that an image is a table fit to start with and accounts for the edits it missed |
| `LivesTyped`, `LivesLoseNothing`, `LivesHaveEvidence` | `TypeOK`, `NothingLost`, `EveryEntryHasEvidence` | `LivesInv`, for any number of stops |
| `StaleByStopAlone` | `StaleOnlyByStop` | `Remembered`: every entry outside `relapsed` is accounted for |
| `ResumesWithoutCadence` | `ResumedAgrees`, when `CompactEvery` = 0 | `Same`, that store and twin agree on everything a call depends on, and `Settled`, that an orderly stop finds the table on disk as it is and no drain under way; before it, one lemma per operator says that the twin's copy of it is the operator itself |
| `LedgerSpansProofs` | | a step of version 2 is a step of the store (`StoreStep`). `SpansInv`: every span is a `GoodSpan`, whose breaks fit its body, their draft and the context of their patch; its history is `Explained`; and while a draft is judged, the span it follows starts at the end of the outcome's tail and the patch is a key of the rejected position (`Judged`) |
| `SpansTypeCorrect`, `BreaksFitBodies`, `PatchesFollow` | `SpanTypeOK`, `BreaksMatchBody`, `PatchIsAtBreak` | from `GoodSpan`; a replaced body agrees with the old one below `Divergence` |
| `StaleSpansHaveReason` | `StaleSpansExplained` | from `Explained`, with the arithmetic of `ServedCurrent` |
| `SpansServeCurrent` | `ServedIsCurrent` | `StoreStep` and `AllAccounted` |
| `OffersCurrent`, `SpansOfferCurrent` | `OffersAreCurrent`, in version 1 and 2 | a candidate of a posterior is one of its sources', and sources are served entries |
| `RejectionsSpecific`, `SpansRejectSpecifically` | `RejectionsAreSpecific`, in version 1 and 2 | where no long context saw a token rejected more often than accepted, each rate that `PAcc` averages is at least that of an unknown token, and so is their weighted mean (`MeanAtLeast`), for all weights, counts and numbers of sources; rounding is part of it |
| `HarvestQueueProofs` | | `QInv`: types, outcomes numbered in order, and room for the one being put |
| `QueueTyped`, `AppliedOrdered`, `OneThreadCounts` | `TypeOK`, `AppliedInOrder`, `CountedInOneThread` | `Ordered` and `Counted`, inductive on top of `QInv` |
| `QueueIsBuffer` | `ImplementsBuffer` | the refinement of `HarvestBuffer`, step by step |
| `SpanArenaProofs` | | `ArenaInv`: both arenas, the spans, those still due, the image on disk and the readers point at the tokens registered, whichever arena an offset belongs to; a reader that no replacement met has, or will load, the length of its body |
| `DedupStaysSound`, `OffsetsTellBodies`, `WholeReads` | `DedupSound`, `SameOffsetSameBody`, `ReadsAreWhole` | from `ArenaInv`; of two slices from one offset one begins the other (`SameStart`) |
| `CompactionTight` | `CompactionIsTight` | `TightInv`: the fresh arena is covered by the bodies copied so far, none overlapping another |
| `ArenaIsBodies` | `ImplementsBodies` | the refinement of `SpanBodies`, step by step |
| `ReplayLoopProofs` | | see below |
| `ReplaySound` | `ReplayInv` (no run checks it) | one lemma per part of the invariant and action |
| `TracesAreWhole` | `RequestsWhole` (of the initial states; no run checks it) | what the steps of a valid record lay out has the same length in each of its lists, and rows of log-probabilities as long as those of the ids or empty, by induction over `FlattenSeq`; sorting puts an element at every place (`SortedFacts`: no two have as many before them, so each number below the size is met) |
| `DraftsWellFormed` | `DraftWellFormed` | from the part of `ReplayInv` about drafts |
| `OutcomesHonest`, `ContextsAgreed` | `OutcomeHonest`, `ContextsAgree` | from its part about outcomes: what `Verified` returns is a stretch of the request, also where the recording ends inside the draft, with the rows laid out there (`MatchingRows`) |
| `EditsAreOnTime` | `EditsOnTime`, when `BumpsInOrder` | `EditsSound`, the same account in the middle of a step |
| `LongestIsAccepted` | `AcceptsLongest` | any path that agrees with the recording is met by `Walk`; for the padded trees of token recycling, that the node `Walk` takes first stands for all its copies (`AsRich`) |
| `WhatWasRead` | `WrittenIsRead` | inductive on top of `ReplayInv`: an outcome lengthens what was passed of one request by what it realized |
| `RowsLatest` | `RowsAreLatest` | `RowsSound`: each row is that of the latest occurrence; the rows of an outcome are taken one by one |
| `KeysAreInPlace` | `KeysInPlace`, when `DenseWindow` > 1 | `KeysSound`: keys and offsets, flushed or buffered, pair off with the positions that have a window |
| `RecurrenceProofs` | | see below |
| `AutomatonSound` | `SoundAutomata` (no run checks it) | `Built`, one part per field of an automaton, kept by `Extend`: `PlainCase` where the longest recurring suffix has a state, `SplitCase` where one is split for it; `Matched` for the matching state |
| `RatesExact` | `RatesAreExact` | from `SoundAutomata` and `MatchRecurs`: the match length is that of the longest recurring suffix; then by counting |
| `CountsExact` | `CountsAreOccurrences` | from `SoundAutomata`: `ReachedFacts` for the state a word leads to, `EndsSplit` and `DisjointSum` for the counts |

The replay. `ReplayInv` says that the requests are those a trace was read into;
that the draft is a tree whose nodes follow their parents, within budget and
depth, with different children below a node unless token recycling drew it; that
`r`, `p`, `step` and `stage` fit each other; that an outcome exists exactly from
`Verify` to `Move` and agrees with the request at `p` (`Faithful`); and that rows
and indexes hold tokens of the program. It is inductive for every trace, every
template in which a node follows its parent and the earlier slots of it, and
every answer of the ledger or the nearest-neighbour index. `DraftWellFormed`,
`OutcomeHonest`, `AcceptsLongest` and `ContextsAgree` follow in each state; the
others need a strengthening of their own, named in the table. The assumptions
are those of the module: `RecordsTyped` (a record holds tokens, numbers and
lists of them, as `json.loads` returns them; whether it is valid, and whole once
it is read, is not assumed), `AnswersTyped` (the ledger answers in tokens), and the bounds of the
parameters. Two theorems have a hypothesis that the code needs as well: an event
with an earlier bump behind one with a later bump is delayed (`BumpsInOrder`; the
mutant that leaves the events unsorted breaks it, and `EditsOnTime` with it), and
a window of one token is never a key (`dense_key.py:80` has sixteen).

The automaton. The proof speaks of places instead of substrings: place i is the
end of the first i tokens, and `Common(s)[i][j]` is how long a word ends both at
i and at j. Of any three places the two smaller ones of these numbers are equal,
so they make a tree. Its nodes are the states: a word that, at all the places
where it ends, cannot be made longer to the left in the same way. `Built` says
that the states are exactly these nodes, that each has the length of its word,
the link to the node above it, and, for each token that follows the word
anywhere, a transition to the shortest node at the place behind the token that
is longer than the word. Appending a token adds one place; its longest recurring
suffix is either a node already (`PlainCase`) or becomes one (`SplitCase`), and
the two loops of `extend` change the transitions of just those nodes whose words
now go on. The matching state is read before the token is appended, so it may
have been split since: it is the state of the match or the one just below it
with the same transitions (`Stands`), which makes no difference to the next
step, because the match length is kept beside it. For the counts, the places of
a node are those of the nodes right below it, which are disjoint, and its own
place if it is no clone (`EndsSplit`); the induction goes from the longest
states to the shorter ones. The loops of the code are recursive functions in the
model (`path`, `Way`, `Gather`), and the proofs use no more of them than that
they solve their equations.

What recursive functions compute (verification, `FlattenSeq`, the rows and keys
of an outcome) is proved by induction over the range of the function. The
library's induction over numbers takes an operator, which no prover here can
instantiate; `Induction` takes a set instead, which is enough as long as the
function maps numbers up to a bound. `Unrolled` and `Iterated` say of such a
function what its recursion says. The sums of the blend run over finite sets of
sources in no order: `SubsetInduction` goes over the subsets of such a set, and
`SumsExist` and `SumsUnique` show that the recursion behind `MapThenSumSet` has
one solution, so that sums can be compared term by term (`SumsCompare`).

Only model-checked, and why:

* liveness (`Settled`, `Finishes`) is beyond the prover;
* `CorrectionTakesOver` is about the numbers of one configuration: whether the
  correction overtakes the rejected token depends on the outcomes that are sent,
  and on the weights and the rounding of the blend;
* `ResumedAgrees` with a cadence is not proved, because it does not hold
  (`resumed`).

## What the checks found

1. **A stale span is revived with its old body** (`span_revived`,
   `core/store.py:531-549`). `_flush_run` rebinds a stale span to the current
   epoch before it asks whether the new run replaces the body. If the new run
   is shorter the body stays, from before the edit, and is served as current.
   Dropping the body, or treating a stale span as having length zero, would
   repair it. `StaleSpansExplained`, proved for all parameters, says that
   together with item 1 of the next section this is the only way a span outlives
   an edit.
2. **A correction may be evicted by its own outcome** (`correction`,
   `core/store.py:421-423`). In an entry that may not grow and is full once the
   correction is recorded, recording the rejected token evicts the weakest other
   candidate, which may be the correction recorded one line before; in the run
   it is the one of two equals with the larger number (125).
3. **Harvest against drain** (`harvest_race`, `core/store.py:335-336`). The
   length test and `popleft` are two steps. When the drain empties the deque in
   between, `harvest` raises and its outcomes are not counted; the mirror image
   at 346-347 makes `drain` raise. The simulator's single thread cannot meet
   this (`CountedInOneThread`).
4. **A restart forgets the compaction cadence** (`resumed`,
   `core/store.py:608`). The number of outcomes since the last compaction is
   neither saved nor among the things the docstring says are not saved, so a
   loaded store compacts later than one that was not stopped, although going on
   as an uninterrupted run would is what `snapshot` is careful about
   (`core/store.py:605`). Without a cadence the two agree
   (`restart`, and `ResumesWithoutCadence` for all parameters).

1, 2 and 4 were reproduced with the Python code.

## Behaviour worth knowing

Seen while modelling; no document promises otherwise, or the code is
deliberately approximate, so none of them is a violated property.

1. A fresh span keeps the file of its first run when a run of another file
   replaces the body (`store.py:538-549`); hot entries do follow the last file
   (`store.py:370-374`).
2. Any fully accepted draft counts as a reuse of the span at its start
   (`store.py:448-449`), also when nothing was drafted from it.
3. A run takes the epoch of the moment it is flushed (`store.py:527`); an edit
   while the run is open is not noticed.
4. A run is bound to the file of its last token with a file, and is spliced
   over dropped outcomes (`store.py:482-503`).
5. Scores are rounded to tenths of the best one (`backoff.py:151`). Two scores
   that differ by less than ten percent, which the comment at 147 calls equal,
   may fall into different tenths: 0.96 and 0.94.
6. The most probable candidate may be cut by `max_cands` before
   `correction()` is asked for it.
7. "With a single stable correction the top is never mostly rejected"
   (`docs/DECISIONS.md`, A-8) needs that a shorter context has seen what the
   longer one has: an edit in the middle of an outcome empties one order and
   not the other, and the shorter one may then lift the rejected token to the
   top again. `CorrectionTakesOver` states the claim with that condition
   (`Nested`).
8. A verification step over an edit is harvested before the epoch is raised
   (`replay.py:182-191`), and carries one file for all its tokens
   (`replay.py:170`). A bump at or behind the end of a request never happens
   (`replay.py:185`), and events are taken in the order of their ends, so that
   one with an earlier bump behind one with a later bump is delayed, an edit also
   by an event of another type. The global
   tier is never bumped (`replay.py:189-190`).
9. `load` brings the epochs back to those of the snapshot: an edit between the
   snapshot and a stop is forgotten, and the entries it made stale are served
   again. `StaleOnlyByStop` says that these are all, and that an observation
   heals them. `load` does not enforce `max_entries` either
   (`store.py:599-675`).
10. `lookup_span` loads the offset of a span, its length and then its tokens
    without a lock (`store.py:319`), and `_flush_run` stores offset and length
    one after the other (`store.py:549`). When a replacement of the span comes
    between, the lookup returns a beginning of one body (new offset, old length)
    or a body followed by whatever comes next in the arena (old offset, new
    length). All other registrations are harmless, and `compact`
    (`arena.py:86-93`) is not: `ReadsAreWhole` says exactly that. The language
    does not make the two loads or the two stores one step; CPython with its
    global lock happens to change threads at calls and loops only.
11. A reader that computes the view of an entry before an update and caches it
    after leaves an outdated view until the next change of the entry
    (`store.py:188-204`). `CacheCoherent` states the claim for all other views.
12. After `EpochMod` edits of a file without compaction an old entry is current
    again (a known limit, `tests/test_corner_cases.py`).
13. The automaton's matching state may be one split behind (`signature.py:139`);
    the lengths are right nevertheless (`RatesAreExact`, proved for all streams as
    `RatesExact`). In the mode of
    repositories the sessions of a repository are interleaved as their requests
    are, and the keys of both modes are the names in the trace, without the
    tenant.
14. `finalize_counts` adds the counts up in place (`signature.py:172`): a second
    call would count twice. Nothing in the code calls it so far;
    `CountsAreOccurrences` is about one call, made on an automaton at any time
    of its growth.
15. Token recycling ignores the budget and drafts its whole template; padding
    puts token 0 several times below one node, which costs nothing
    (`AcceptsLongest`).
16. The keys that a dense proposer stores embed the context tail of an outcome,
    at most eight tokens, and the tokens of its step, while its queries embed
    sixteen (`dense_key.py:3`). The continuation behind a key may run from one
    request into the next.
17. No statement of `_apply` raises for an outcome that `run_replay` makes; the
    outcome popped before it (`store.py:347`) would otherwise be lost.

## Not modelled

The synthetic generator (random inputs), gates, the signature benchmark, plots,
the bench drivers and scripts (single passes over files), the vLLM plugin (no
code yet), the native layout sizes. Of modelled files: the histogram of the
recurrence statistics (a second view of the same lengths), `read_traces` with
`strict` (it raises where the other passes over), JSON, `best_order` of the blend
(diagnostics only), and the bookkeeping of metrics.

## Plan

Done: every component that keeps state, the composition of traces, proposers and
replay, restarts; theorems about the entry, the store and its lives, spans,
lookups, the queue, the arena, the replay and the recurrence statistics.

Left, in order of importance:

1. A lookup of the hot table as a process of its own, probe by probe against the
   drain, instead of one atomic read.
2. `LedgerProposer` against posteriors of `Blend` and a real `LedgerStore`
   instead of arbitrary answers, with `correction()`.
