------------------------------- MODULE ArcSet -------------------------------
(***************************************************************************)
(* What a user of sc-memory may expect of the arcs that begin or end at an *)
(* element, and of the iterators over them: sets that may change while     *)
(* they are iterated.  An iterator returns every arc that is in its set    *)
(* and that it has not yet returned, once; an arc that leaves the set is   *)
(* not returned any more, an arc that enters it will be returned, also if  *)
(* it has been there before.                                               *)
(***************************************************************************)
CONSTANTS Sets, Arcs, Iters

VARIABLES
    members, \* set -> its arcs
    over,    \* iterator -> the set it iterates, {} if it is over or closed
    pending  \* iterator -> the arcs it has still to return

avars == <<members, over, pending>>

AInit ==
    /\ members = [s \in Sets |-> {}]
    /\ over = [i \in Iters |-> {}]
    /\ pending = [i \in Iters |-> {}]

\* Arc a leaves the sets of From and enters those of To.
Change(a, From, To) ==
    /\ members' = [s \in Sets |-> (IF s \in From THEN members[s] \ {a} ELSE members[s])
                                  \cup (IF s \in To THEN {a} ELSE {})]
    /\ pending' = [i \in Iters |-> (IF over[i] \cap From # {} THEN pending[i] \ {a} ELSE pending[i])
                                   \cup (IF over[i] \cap To # {} THEN {a} ELSE {})]
    /\ UNCHANGED over

\* The end of an arc is set, or changed, or the arc is erased.
Enter(a, s) == Change(a, {}, {s})
Repoint(a, s, t) == a \in members[s] /\ Change(a, {s}, {t})
Erase(a) == Change(a, Sets, {})

\* Iterator i returns an arc of P, or is over if there is none.
Return(i, s, P) ==
    /\ \/ P = {} /\ over' = [over EXCEPT ![i] = {}] /\ pending' = [pending EXCEPT ![i] = {}]
       \/ \E a \in P : over' = [over EXCEPT ![i] = {s}] /\ pending' = [pending EXCEPT ![i] = P \ {a}]
    /\ UNCHANGED members

Open(i, s) == over[i] = {} /\ Return(i, s, members[s])

Advance(i) == \E s \in over[i] : Return(i, s, pending[i])

Close(i) ==
    /\ over' = [over EXCEPT ![i] = {}]
    /\ pending' = [pending EXCEPT ![i] = {}]
    /\ UNCHANGED members

ANext ==
    \/ \E a \in Arcs : Erase(a) \/ \E s \in Sets : Enter(a, s) \/ \E t \in Sets : Repoint(a, s, t)
    \/ \E i \in Iters : Advance(i) \/ Close(i) \/ \E s \in Sets : Open(i, s)

ASpec == AInit /\ [][ANext]_avars
=============================================================================
