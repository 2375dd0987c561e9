---------------------------- MODULE MCCacheAdopt -----------------------------
(***************************************************************************)
(* Adoption of an older cache for TLC.                                       *)
(***************************************************************************)
EXTENDS CacheAdopt
=============================================================================
