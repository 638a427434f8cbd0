---------------------------- MODULE MCScArcLists ----------------------------
(***************************************************************************)
(* Small instances of ScArcLists for TLC.                                  *)
(***************************************************************************)
EXTENDS ScArcLists

CONSTANTS node, arc1, arc2, arc3

\* Two arcs that end at the node, one of which begins at an arc that may end at it.
MCEnds == {<<arc1, "end", node>>, <<arc2, "end", node>>, <<arc1, "beg", arc3>>, <<arc3, "end", arc1>>}
MCIterated == {<<node, "end">>}
=============================================================================
