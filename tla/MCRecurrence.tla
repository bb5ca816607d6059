---------------------------- MODULE MCRecurrence ----------------------------
(***************************************************************************)
(* Two sessions of one repository over two tokens.                         *)
(***************************************************************************)
EXTENDS Recurrence
=============================================================================
