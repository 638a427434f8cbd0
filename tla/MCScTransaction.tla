-------------------------- MODULE MCScTransaction --------------------------
(***************************************************************************)
(* ScTransaction over a few interchangeable cells.                         *)
(***************************************************************************)
EXTENDS ScTransaction, TLC

ElementSymmetry == Permutations(Elements)
=============================================================================
