---------------------------- MODULE MCScSegments ----------------------------
(***************************************************************************)
(* ScSegments with a few interchangeable sessions, segments and signs.  The *)
(* table is a set of numbers, because the lowest free slot is assigned.     *)
(***************************************************************************)
EXTENDS ScSegments, TLC

MCSymmetry ==
    Permutations(Sessions) \cup Permutations(Segments) \cup Permutations(Signs) \cup Permutations(Uris)
=============================================================================
