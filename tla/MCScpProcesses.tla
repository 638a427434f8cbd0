---------------------------- MODULE MCScpProcesses -------------------------
(***************************************************************************)
(* Small instances of ScpProcesses for TLC.                                *)
(***************************************************************************)
EXTENDS ScpProcesses, TLC

\* Processes are told apart by nothing.
ProcSymmetry == Permutations(Procs)
=============================================================================
