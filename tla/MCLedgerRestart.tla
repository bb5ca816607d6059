--------------------------- MODULE MCLedgerRestart ---------------------------
(***************************************************************************)
(* The outcomes of MCLedgerStore in two files, over two lives.             *)
(***************************************************************************)
EXTENDS MCLedgerStore, LedgerRestart
=============================================================================
