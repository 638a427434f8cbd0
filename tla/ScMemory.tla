------------------------------ MODULE ScMemory ------------------------------
(***************************************************************************)
(* The elements of sc-memory (libsc/sc_core.cpp): typed elements, arcs     *)
(* with a begin and an end, the counters of incident arcs kept in every    *)
(* address, generation, re-pointing, change of type, erasure with its      *)
(* cascade.                                                                *)
(*                                                                         *)
(* One session that has opened all segments; the segment an element lives  *)
(* in and the links between segments are not represented: the cascade and  *)
(* the counters cover the arcs of all segments alike.  Nobody holds a      *)
(* reference to an erased element, so that its cell can be used again.     *)
(* Handlers of the PRE events may veto an operation (a nondeterministic    *)
(* choice); handlers that call sc-memory again are not represented.        *)
(***************************************************************************)
EXTENDS Integers, FiniteSets, Functions

CONSTANTS Elements,  \* cells for elements
          None,      \* SCADDR_NIL
          MaxEnds    \* bound on the sum of all counters

ASSUME NoneIsNoElement == None \notin Elements
ASSUME ElementsFinite == IsFiniteSet(Elements)
ASSUME MaxEndsAssumption == MaxEnds \in Nat

\* SC_UNDF, SC_NODE, SC_LINK; all connectors are treated alike.
Types == {"undf", "node", "link", "connector"}

\* A type as callers give it; "unspecified" has no syntactic part.
Requests == Types \cup {"unspecified"}

VARIABLES
    live,     \* the elements that exist
    type,     \* element -> its syntactic type
    beg, end, \* element -> its ends, None for no end and for non-connectors
    out_qnt, in_qnt,  \* element -> the counters of sc_global_addr
    crashed   \* the cascade of erase_el has run out of stack

vars == <<live, type, beg, end, out_qnt, in_qnt, crashed>>

\* The arcs out of and into an element.
Out(e) == {a \in live : beg[a] = e}
In(e)  == {a \in live : end[a] = e}

\* Bound of the model, not a test of the code.
Room(n) == FoldFunction(+, n, out_qnt) + FoldFunction(+, 0, in_qnt) <= MaxEnds

-----------------------------------------------------------------------------
(***************************************************************************)
(* Creation and re-pointing                                                *)
(***************************************************************************)

\* SC_UNDF is the default of the syntactic type.
verify_type(t) == IF t = "unspecified" THEN "undf" ELSE t

create_el(e, t) ==
    /\ ~crashed
    /\ e \notin live
    /\ live' = live \cup {e}
    /\ type' = [type EXCEPT ![e] = verify_type(t)]
    /\ UNCHANGED <<beg, end, out_qnt, in_qnt, crashed>>

\* Mutation: clearing an end decrements the counter twice.
RecountTwice(q, old, new) ==
    [e \in Elements |-> q[e] + (IF e = new THEN 1 ELSE 0)
                             - (IF e = old /\ new = None THEN 2 ELSE 0)]

\* The counters after an end went from old to new: up for the new element, down
\* for the old one only when the end is cleared.
Recount(q, old, new) ==
    [e \in Elements |-> q[e] + (IF e = new THEN 1 ELSE 0)
                             - (IF e = old /\ new = None THEN 1 ELSE 0)]

\* The types after x became a begin: SC_UNDF turns into SC_NODE, unless a
\* handler of SC_WAIT_CHANGE_TYPE_PRE vetoes that; the result of the call of
\* change_type is not looked at.
TypeOfBegin(types, x, veto) ==
    IF x # None /\ types[x] = "undf" /\ ~veto THEN [types EXCEPT ![x] = "node"] ELSE types

\* A begin must not be a connector.
MayBegin(x) == x # None => type[x] # "connector"

\* set_beg: clear or replace the begin.  Setting the begin an arc already has
\* changes nothing, and neither does a failure.
set_beg(a, x) ==
    /\ ~crashed
    /\ a \in live /\ type[a] = "connector"
    /\ x # None => x \in live /\ Room(1)
    /\ x # beg[a] /\ MayBegin(x)
    /\ \E veto \in BOOLEAN : type' = TypeOfBegin(type, x, veto)
    /\ beg' = [beg EXCEPT ![a] = x]
    /\ out_qnt' = Recount(out_qnt, beg[a], x)
    /\ UNCHANGED <<live, end, in_qnt, crashed>>

\* set_end: any element may be an end, the arc itself included.
set_end(a, x) ==
    /\ ~crashed
    /\ a \in live /\ type[a] = "connector"
    /\ x # None => x \in live /\ Room(1)
    /\ x # end[a]
    /\ end' = [end EXCEPT ![a] = x]
    /\ in_qnt' = Recount(in_qnt, end[a], x)
    /\ UNCHANGED <<live, type, beg, out_qnt, crashed>>

\* gen3_f_a_f that succeeds: a new arc a from x to y.
gen3_f_a_f(x, a, y) ==
    /\ ~crashed
    /\ a \notin live /\ x \in live /\ y \in live
    /\ Room(2)
    /\ MayBegin(x)
    /\ live' = live \cup {a}
    /\ \E veto \in BOOLEAN : type' = [TypeOfBegin(type, x, veto) EXCEPT ![a] = "connector"]
    /\ beg' = [beg EXCEPT ![a] = x]
    /\ end' = [end EXCEPT ![a] = y]
    /\ out_qnt' = Recount(out_qnt, None, x)
    /\ in_qnt' = Recount(in_qnt, None, y)
    /\ UNCHANGED crashed

\* gen3_f_a_f when a handler refuses the end: the new arc is erased again, the
\* begin has become a node.  (A refused begin leaves no trace at all.)
gen3_refused(x) ==
    /\ ~crashed
    /\ x \in live
    /\ live # Elements
    /\ MayBegin(x)
    /\ \E veto \in BOOLEAN : type' = TypeOfBegin(type, x, veto)
    /\ UNCHANGED <<live, beg, end, out_qnt, in_qnt, crashed>>

-----------------------------------------------------------------------------
(***************************************************************************)
(* Change of type                                                          *)
(***************************************************************************)

\* A node with output arcs stays a node, a connector with an end stays a
\* connector; SC_UNDF and SC_LINK may become anything.
verify_type_changing(e, t) ==
    /\ type[e] = "node" /\ t # "node" => out_qnt[e] = 0
    /\ type[e] = "connector" /\ t # "connector" => beg[e] = None /\ end[e] = None

change_type(e, t) ==
    /\ ~crashed
    /\ e \in live
    /\ LET new == verify_type(t) IN
         /\ type[e] # new
         /\ verify_type_changing(e, new)
         /\ type' = [type EXCEPT ![e] = new]
    /\ UNCHANGED <<live, beg, end, out_qnt, in_qnt, crashed>>

-----------------------------------------------------------------------------
(***************************************************************************)
(* Erasure                                                                 *)
(***************************************************************************)

\* The arcs that have an end in S.
Incident(S) == {a \in live : beg[a] \in S \/ end[a] \in S}

\* Mutation: only the arcs incident to the element itself are erased.
DoomedOneLevel(x) == {x} \cup Incident({x})

\* What erase_el(x) erases: x, the arcs incident to it, the arcs incident to
\* those, and so on: the least set that holds x and is closed.
Doomed(x) ==
    {e \in Elements : \A S \in SUBSET Elements : x \in S /\ Incident(S) \subseteq S => e \in S}

\* erase_el_pre visits the arcs incident to an element, the arcs incident to
\* those, and keeps no record: on a cycle of arcs it never stops.
Endless(x) == \E S \in (SUBSET Doomed(x)) \ {{}} : S \subseteq Incident(S)

\* Decremented once for every arc of D.
down_out_qnt(e, D) == out_qnt[e] - Cardinality(Out(e) \cap D)
down_in_qnt(e, D)  == in_qnt[e] - Cardinality(In(e) \cap D)

\* The ends of all doomed arcs are cleared, then the elements die.
erase_el(x) ==
    /\ ~crashed
    /\ x \in live
    /\ ~Endless(x)
    /\ LET D == Doomed(x) IN
         /\ live' = live \ D
         /\ type' = [e \in Elements |-> IF e \in D THEN "undf" ELSE type[e]]
         /\ beg' = [e \in Elements |-> IF e \in D THEN None ELSE beg[e]]
         /\ end' = [e \in Elements |-> IF e \in D THEN None ELSE end[e]]
         /\ out_qnt' = [e \in Elements |-> IF e \in D THEN 0 ELSE down_out_qnt(e, D)]
         /\ in_qnt' = [e \in Elements |-> IF e \in D THEN 0 ELSE down_in_qnt(e, D)]
    /\ UNCHANGED crashed

\* erase_el on a cycle of arcs: the recursion exhausts the stack.
erase_el_overflow(x) ==
    /\ ~crashed
    /\ x \in live
    /\ Endless(x)
    /\ crashed' = TRUE
    /\ UNCHANGED <<live, type, beg, end, out_qnt, in_qnt>>

-----------------------------------------------------------------------------
Init ==
    /\ live = {}
    /\ type = [e \in Elements |-> "undf"]
    /\ beg = [e \in Elements |-> None]
    /\ end = [e \in Elements |-> None]
    /\ out_qnt = [e \in Elements |-> 0]
    /\ in_qnt = [e \in Elements |-> 0]
    /\ crashed = FALSE

Next ==
    \E e \in Elements :
        \/ \E t \in Requests : create_el(e, t) \/ change_type(e, t)
        \/ \E x \in Elements \cup {None} : set_beg(e, x) \/ set_end(e, x)
        \/ \E x, y \in Elements : gen3_f_a_f(x, e, y)
        \/ gen3_refused(e)
        \/ erase_el(e) \/ erase_el_overflow(e)

Spec == Init /\ [][Next]_vars

-----------------------------------------------------------------------------
(***************************************************************************)
(* Properties                                                              *)
(***************************************************************************)

TypeOK ==
    /\ live \subseteq Elements
    /\ type \in [Elements -> Types]
    /\ beg \in [Elements -> Elements \cup {None}]
    /\ end \in [Elements -> Elements \cup {None}]
    /\ out_qnt \in [Elements -> Int]
    /\ in_qnt \in [Elements -> Int]
    /\ crashed \in BOOLEAN

\* After any sequence of generations, re-pointings and cascading erasures no arc
\* has an erased element as an end, and what is not a connector has no
\* ends.  A dangling end would be a pointer to freed memory inside a segment.
NoDanglingEnds ==
    \A a \in Elements :
        /\ beg[a] # None => a \in live /\ type[a] = "connector" /\ beg[a] \in live
        /\ end[a] # None => a \in live /\ type[a] = "connector" /\ end[a] \in live

\* The cached counters never run below the number of incident arcs, so that a
\* zero in verify_type_changing really means no arc.
CountersNeverLow ==
    \A e \in Elements :
        /\ Cardinality(Out(e)) <= out_qnt[e]
        /\ Cardinality(In(e)) <= in_qnt[e]

\* A node that has output arcs stays a node as long as it lives ("Convert
\* sc-node to not-sc-node only if node doesn't have output arcs").
NodeWithOutputStaysNode ==
    [][\A e \in live \cap live' : type[e] = "node" /\ Out(e) # {} => type'[e] = "node"]_vars
=============================================================================
