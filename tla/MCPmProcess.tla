---------------------------- MODULE MCPmProcess ----------------------------
(***************************************************************************)
(* Small instances of PmProcess for TLC.                                   *)
(***************************************************************************)
EXTENDS PmProcess, TLC
=============================================================================
