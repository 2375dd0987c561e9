------------------------------ MODULE MCBatcher ------------------------------
(***************************************************************************)
(* The archive pipeline for TLC.  Every Batcher_*.cfg gives the sizes and     *)
(* bounds of Batcher their values; nothing else is needed, since frames are   *)
(* small numbers and every input is drawn from a finite set.                  *)
(***************************************************************************)
EXTENDS Batcher
=============================================================================
