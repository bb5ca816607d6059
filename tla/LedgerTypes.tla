----------------------------- MODULE LedgerTypes -----------------------------
(***************************************************************************)
(* The value domains every module shares (core/types.py): token ids, file  *)
(* ids, segments, and log-probabilities quantized to 8 bits.               *)
(***************************************************************************)
EXTENDS Integers, Sequences, FiniteSets

CONSTANTS MaxTok,     \* token ids are 0..MaxTok
          QMax,       \* the largest quantized log-probability (255)
          Files       \* file ids; 0 is "no file"

ASSUME TypeConstants ==
    /\ MaxTok \in Nat
    /\ QMax \in Nat
    /\ Files \subseteq Nat \ {0}

Tokens   == 0..MaxTok
NoFile   == 0
Domains  == Files \cup {NoFile}
Segments == {"think", "tool", "code", "text"}

\* No log-probability: of a candidate that no row has given one, and of an id
\* of a row that came without.
Unseen == -1

\* One row of topk_ids, each id with its place in the row of topk_logp_q8.
TopkRows == Seq([tok : Tokens, q : Unseen..QMax])

Lesser(a, b)  == IF a <= b THEN a ELSE b
Greater(a, b) == IF a >= b THEN a ELSE b
=============================================================================
