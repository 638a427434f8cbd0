----------------------------- MODULE MCPmSched -----------------------------
(***************************************************************************)
(* Small instances of PmSched for TLC.                                     *)
(***************************************************************************)
EXTENDS PmSched, TLC

\* Agents are told apart by nothing, and neither are stacks.
AgentAndStackSymmetry == Permutations(Agents) \cup Permutations(Contexts)
=============================================================================
