-------------------------------- MODULE MCLink --------------------------------
(***************************************************************************)
(* One forwarding link for TLC.                                               *)
(***************************************************************************)
EXTENDS Link
=============================================================================
