--------------------------- MODULE MC_HostStore ---------------------------
(***************************************************************************)
(* Instance of HostStore for TLC.                                          *)
(***************************************************************************)
EXTENDS HostStore
=============================================================================
