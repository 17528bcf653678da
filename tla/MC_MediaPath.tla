---------------------------- MODULE MC_MediaPath ----------------------------
(***************************************************************************)
(* Instances of MediaPath for TLC.                                         *)
(***************************************************************************)
EXTENDS MediaPath, TLC
=============================================================================
