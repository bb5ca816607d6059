--------------------------- MODULE MCHarvestQueue ---------------------------
(***************************************************************************)
(* Queues that are off, of one place and of two, in both modes.            *)
(***************************************************************************)
EXTENDS HarvestQueue

SmallCaps == {0, 1, 2}
=============================================================================
