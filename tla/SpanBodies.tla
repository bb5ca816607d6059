------------------------------ MODULE SpanBodies ------------------------------
(***************************************************************************)
(* What the spans of a ledger hold, with no arena in sight: a body of      *)
(* tokens for every key, and the bodies of the last snapshot.              *)
(***************************************************************************)
EXTENDS Naturals, Sequences

CONSTANTS SpanKeySets,   \* the sets of keys one run is registered under
          Runs           \* the runs

VARIABLES body,    \* key -> tokens
          due,     \* the run being registered, under the keys it is yet to reach
          saved    \* the bodies on disk

bodyVars == <<body, due, saved>>

NoBodies == [k \in {} |-> <<>>]

Init == body = NoBodies /\ due = NoBodies /\ saved = {}

Register(keys, run) ==
    /\ due = NoBodies
    /\ due' = [k \in keys |-> run]
    /\ UNCHANGED <<body, saved>>

\* A run becomes the body of a key that has none or no longer one.
Put(k) ==
    /\ body' = [j \in DOMAIN body \cup {k} |->
                  IF j = k /\ (k \in DOMAIN body => Len(due[k]) >= Len(body[k]))
                  THEN due[k] ELSE body[j]]
    /\ due' = [j \in DOMAIN due \ {k} |-> due[j]]
    /\ UNCHANGED saved

Discard(kept) ==
    /\ due = NoBodies
    /\ body' = [k \in kept |-> body[k]]
    /\ UNCHANGED <<due, saved>>

Save == due = NoBodies /\ saved' = {body} /\ UNCHANGED <<body, due>>

Load == due = NoBodies /\ saved = {body'} /\ UNCHANGED <<due, saved>>

Restart == body' = NoBodies /\ due' = NoBodies /\ UNCHANGED saved

Next ==
    \/ \E keys \in SpanKeySets, run \in Runs : Register(keys, run)
    \/ \E k \in DOMAIN due : Put(k)
    \/ \E kept \in SUBSET DOMAIN body : Discard(kept)
    \/ Save \/ Load \/ Restart

Spec == Init /\ [][Next]_bodyVars
=============================================================================
