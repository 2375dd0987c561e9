------------------------------- MODULE MCAssign -------------------------------
(***************************************************************************)
(* One line's catalogue for TLC.                                              *)
(***************************************************************************)
EXTENDS Assign
=============================================================================
