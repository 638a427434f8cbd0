----------------------------- MODULE MCRgpServer ----------------------------
(***************************************************************************)
(* Small instances of RgpServer for TLC.                                   *)
(***************************************************************************)
EXTENDS RgpServer, TLC

\* Every client sends every command, but for those about iterators.
AnyCommands ==
    [c \in Conns |-> AllCommands \ {"create_iterator", "next_iterator", "erase_iterator"}]

\* Nothing tells one connection, element, activity or wait from another.  (The
\* instances with iterators use no symmetry.)
RgpSymmetry ==
    Permutations(Conns) \cup Permutations(Els) \cup Permutations(Activities)
        \cup Permutations(Waits)

\* One client creates iterators, and activates the element; the other makes
\* itself the activity, and activates the element too.
Creator == CHOOSE c \in Conns : TRUE
LiveCommands ==
    [c \in Conns |->
        {"activate"}
        \cup IF c = Creator THEN {"create_iterator", "erase_iterator"}
             ELSE {"reimplement"}]

\* One client changes and erases elements.
ChangeCommands == [c \in Conns |-> {"change", "erase"}]
=============================================================================
