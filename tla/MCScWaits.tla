----------------------------- MODULE MCScWaits -----------------------------
(***************************************************************************)
(* Small instances of ScWaits for TLC.                                     *)
(***************************************************************************)
EXTENDS ScWaits
=============================================================================
