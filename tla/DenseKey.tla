-------------------------------- MODULE DenseKey --------------------------------
(***************************************************************************)
(* The dense key proposer (sim/dense_key.py): per repository one stream of *)
(* everything realized, an index of the windows of recent tokens, and for  *)
(* each key of the index the offset in the stream at which its window      *)
(* ends.  A draft continues the stream behind the nearest key.             *)
(*                                                                         *)
(* A key is the window it embeds.  What is near is left open: a search     *)
(* returns any key or none, which also stands for the approximate index    *)
(* the flat one is replaced by (_maybe_upgrade keeps keys and ids).        *)
(***************************************************************************)
EXTENDS LedgerTypes, DraftTrees

CONSTANTS Repos,
          DenseWindow,   \* window (16)
          AddBatch       \* keys buffered before they enter the index (256)

ASSUME DenseConstants == DenseWindow \in Nat \ {0} /\ AddBatch \in Nat \ {0}

VARIABLE index   \* _by_repo: [Repos -> [stream, offsets, keys, buf]]

IndexInit ==
    index = [repo \in Repos |-> [stream |-> <<>>, offsets |-> <<>>, keys |-> <<>>, buf |-> <<>>]]

-----------------------------------------------------------------------------
LastUpTo(s, n) == SubSeq(s, Greater(0, Len(s) - n) + 1, Len(s))

Flush(idx) == [idx EXCEPT !.keys = @ \o idx.buf, !.buf = <<>>]

\* Mutant: the offset is that of the next token.
AddAhead(idx, window) ==
    LET added == [idx EXCEPT !.buf = Append(@, window),
                             !.offsets = Append(@, Len(idx.stream))]
    IN  IF Len(added.buf) >= AddBatch THEN Flush(added) ELSE added

\* A window that ends at the last token of the stream.
AddKey(idx, window) ==
    LET added == [idx EXCEPT !.buf = Append(@, window),
                             !.offsets = Append(@, Len(idx.stream) - 1)]
    IN  IF Len(added.buf) >= AddBatch THEN Flush(added) ELSE added

\* harvest(): the windows of a step begin with the context tail of its outcome,
\* which may be shorter than the window.
Absorb(idx, ev, realized) ==
    LET Window(pos) == LastUpTo(LastUpTo(ev.tail, DenseWindow)
                                  \o SubSeq(realized, 1, pos), DenseWindow)
        after[pos \in 0..Len(realized)] ==
          IF pos = 0 THEN idx
          ELSE LET longer == [after[pos - 1] EXCEPT !.stream = Append(@, realized[pos])]
               IN  IF Len(Window(pos)) < 2 THEN longer ELSE AddKey(longer, Window(pos))
    IN  after[Len(realized)]

\* The continuation behind key id of the flushed index, as a chain.
Continuation(idx, id, budget) ==
    LET cont == SubSeq(idx.stream, idx.offsets[id] + 2,
                       Lesser(Len(idx.stream), idx.offsets[id] + 1 + budget))
    IN  [i \in 1..Len(cont) |-> [tok |-> cont[i], parent |-> i - 1]]
=============================================================================
