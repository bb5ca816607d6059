----------------------------- MODULE MCSpanArena -----------------------------
(***************************************************************************)
(* Two keys, and runs of which one begins like another and one ends where  *)
(* another begins.                                                         *)
(***************************************************************************)
EXTENDS SpanArena

KeySets == {{"a"}, {"a", "b"}}
FewRuns == {<<0, 1>>, <<0, 1, 1>>, <<1, 0>>}
=============================================================================
