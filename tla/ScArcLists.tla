----------------------------- MODULE ScArcLists -----------------------------
(***************************************************************************)
(* Incident arcs of an element (libsc/tmp_segment.cpp), the iterators over *)
(* them (tmp_segment.cpp, base_iterators_p.h) and the erasure of elements  *)
(* that runs over such iterators (sc_core.cpp).                            *)
(*                                                                         *)
(* Each element has a list of its output and one of its input arcs.  A     *)
(* link that an iterator stands at outlives its arc's departure: it stays  *)
(* in the list, marked dead, until the iterator has moved on.  An address  *)
(* that is referenced outlives the death of its element.                   *)
(*                                                                         *)
(* erase_el asks the PRE handlers of all elements that have to die with it *)
(* and then erases them; both are recursions over iterators.  A handler    *)
(* may suspend the agent (ScWaits); nothing else interrupts it.            *)
(***************************************************************************)
EXTENDS Integers, Sequences, FiniteSets, SequencesExt

CONSTANTS Nodes,    \* elements that are no arcs
          Arcs,
          Copies,   \* bound: links of one side of an arc, the dead ones included
          Iters,    \* iterators of users of sc-memory
          Agents,   \* agents that erase elements
          Handled,  \* the elements with a handler of SC_WAIT_DIE_PRE_REAL
          Ends,     \* bound: the ends that arcs may get
          Iterated, \* bound: the lists that users iterate
          MaxDepth, \* bound: nested calls that the machine's stack has room for
          None

Elements == Nodes \cup Arcs
Sides == {"beg", "end"}

\* Objects of class element_link, named after the arc they belong to (value).
Links == Arcs \X Sides \X (1..Copies)

\* An arc hangs in the output list of its begin and in the input list of its end.
ListIds == Elements \X Sides

ASSUME Disjoint == Nodes \cap Arcs = {} /\ None \notin Elements \cup Links \cup ListIds \cup Agents
ASSUME HandledAreElements == Handled \subseteq Elements
ASSUME EndsOfArcs == Ends \subseteq Arcs \X Sides \X Elements
ASSUME IteratedAreLists == Iterated \subseteq Elements \X Sides
ASSUME Bounds == Copies \in Nat /\ MaxDepth \in Nat \ {0}

\* What exists at one time in a machine's memory.
ASSUME Finite == IsFiniteSet(Elements) /\ IsFiniteSet(Iters) /\ IsFiniteSet(Agents)

VARIABLES
    list,   \* element and side -> its links, the dead ones included
    link,   \* link object -> its fields
    hint,   \* arc -> side -> the element and the link it hangs at
    state,  \* element -> alive, dead but referenced, deleted
    refs,   \* element -> references to its address, without the "barrier"
    iter,   \* iterator -> its list and its link
    stack,  \* agent -> calls of erase_el_pre or of __erase_el
    phase,  \* agent -> which of the two
    active, \* the agent that is not suspended
    slept,  \* history: agent -> a handler has suspended it in this erasure
    crash   \* "freed": deleted memory was used; "depth": the stack is full

heap == <<list, link, state, refs>>
vars == <<list, link, hint, state, refs, iter, stack, phase, active, slept, crash>>

FreeLink == [refcnt |-> 0, dead |-> FALSE]
Arc(l) == l[1]
NoHint == [el |-> None, at |-> None]
Closed == [list |-> None, at |-> None]

-----------------------------------------------------------------------------
(***************************************************************************)
(* element_link and sc_global_addr                                         *)
(***************************************************************************)

Heap == [list |-> list, link |-> link, state |-> state, refs |-> refs]

SetHeap(h) == list' = h.list /\ link' = h.link /\ state' = h.state /\ refs' = h.refs

\* remove(); delete this;
DeleteLink(h, l) ==
    [h EXCEPT !.list = [L \in ListIds |-> RemoveFirst(@[L], l)], !.link[l] = FreeLink]

UnrefLink(h, l) ==
    IF h.link[l].refcnt = 1 THEN DeleteLink(h, l) ELSE [h EXCEPT !.link[l].refcnt = @ - 1]

\* Mutation: a link that leaves its list is deleted at once.
DieAtOnce(h, l) == DeleteLink(h, l)

\* Mutation: a link that dies is not marked when an iterator stands at it.
DieUnmarked(h, l) == UnrefLink(h, l)

DieLink(h, l) ==
    IF h.link[l].refcnt = 1 THEN DeleteLink(h, l)
    ELSE [h EXCEPT !.link[l] = [refcnt |-> @.refcnt - 1, dead |-> TRUE]]

Ref(h, x) == [h EXCEPT !.refs[x] = @ + 1]

Unref(h, x) ==
    [h EXCEPT !.refs[x] = @ - 1,
              !.state[x] = IF @ = "dead" /\ h.refs[x] = 1 THEN "freed" ELSE @]

die(h, x) ==
    [h EXCEPT !.state[x] = IF @ # "live" THEN @ ELSE IF h.refs[x] = 0 THEN "freed" ELSE "dead"]

-----------------------------------------------------------------------------
(***************************************************************************)
(* tmp_segment and tmp_iterator                                            *)
(***************************************************************************)

\* A new link goes to the tail of the list.
attach(h, x, L) ==
    LET l == <<x, L[2], CHOOSE k \in 1..Copies : h.link[<<x, L[2], k>>] = FreeLink>>
    IN  [heap |-> [h EXCEPT !.list[L] = Append(@, l),
                            !.link[l] = [refcnt |-> 1, dead |-> FALSE]],
         hint |-> [el |-> L[1], at |-> l]]

detach(h, g) == IF g.el = None THEN h ELSE DieLink(h, g.at)

\* Mutation: the iterator's reference to the address is forgotten.
GrabLinkOnly(h, l) == [h EXCEPT !.link[l].refcnt = @ + 1]

\* An iterator that stands at a link holds the link and the address of the arc.
Grab(h, l) == Ref([h EXCEPT !.link[l].refcnt = @ + 1], Arc(l))

Release(h, l) == Unref(UnrefLink(h, l), Arc(l))

Precedes(s, l, m) == \E j \in 1..Len(s) : s[j] = m /\ \E i \in 1..(j - 1) : s[i] = l

Live(h, L) == {l \in ToSet(h.list[L]) : ~h.link[l].dead}

\* The links behind l in list L that are alive.
Behind(h, L, l) == {m \in Live(h, L) : Precedes(h.list[L], l, m)}

FirstOf(s, M) == CHOOSE m \in M : \A n \in M \ {m} : Precedes(s, m, n)

\* next: the link behind is looked up before the current one is released.
Forward(h, L, l) ==
    LET later == Behind(h, L, l)
        m == FirstOf(h.list[L], later)
        h1 == Release(h, l)
    IN  IF later = {} THEN [heap |-> h1, at |-> None] ELSE [heap |-> Grab(h1, m), at |-> m]

\* Mutation: the constructor does not ask whether the first link is dead.
BeginAtFirst(h, L) ==
    IF h.list[L] = <<>> THEN [heap |-> h, at |-> None]
    ELSE [heap |-> Grab(h, Head(h.list[L])), at |-> Head(h.list[L])]

\* The constructor takes the first link, and moves on if it is dead.
Begin(h, L) ==
    IF h.list[L] = <<>> THEN [heap |-> h, at |-> None]
    ELSE LET l == Head(h.list[L])
             h1 == Grab(h, l)
         IN  IF h.link[l].dead \/ h.state[Arc(l)] = "dead"
             THEN Forward(h1, L, l) ELSE [heap |-> h1, at |-> l]

End(h, l) == IF l = None THEN h ELSE Release(h, l)

-----------------------------------------------------------------------------
(***************************************************************************)
(* Operations of a session that nothing interrupts                         *)
(***************************************************************************)

Idle == active = None /\ crash = "no"

\* The unchanged part of an operation.
KeepErasures == UNCHANGED <<stack, phase, active, slept, crash>>

\* set_beg or set_end.
set_side(x, s, e) ==
    /\ Idle
    /\ <<x, s, e>> \in Ends
    /\ state[x] = "live" /\ state[e] = "live"
    /\ \E k \in 1..Copies : link[<<x, s, k>>] = FreeLink
    /\ LET r == attach(detach(Heap, hint[x][s]), x, <<e, s>>) IN
         /\ SetHeap(r.heap)
         /\ hint' = [hint EXCEPT ![x][s] = r.hint]
    /\ UNCHANGED iter
    /\ KeepErasures

\* An iterator refers to the element whose arcs it returns.  The element may be
\* dead, as long as somebody holds its address.
create_iterator(i, e, s) ==
    /\ Idle
    /\ iter[i] = Closed
    /\ <<e, s>> \in Iterated
    /\ state[e] \in {"live", "dead"}
    /\ LET r == Begin(Ref(Heap, e), <<e, s>>) IN
         /\ SetHeap(r.heap)
         /\ iter' = [iter EXCEPT ![i] = [list |-> <<e, s>>, at |-> r.at]]
    /\ UNCHANGED hint
    /\ KeepErasures

next(i) ==
    /\ Idle
    /\ iter[i].at # None
    /\ LET r == Forward(Heap, iter[i].list, iter[i].at) IN
         /\ SetHeap(r.heap)
         /\ iter' = [iter EXCEPT ![i].at = r.at]
    /\ UNCHANGED hint
    /\ KeepErasures

delete_iterator(i) ==
    /\ Idle
    /\ iter[i] # Closed
    /\ SetHeap(Unref(End(Heap, iter[i].at), iter[i].list[1]))
    /\ iter' = [iter EXCEPT ![i] = Closed]
    /\ UNCHANGED hint
    /\ KeepErasures

-----------------------------------------------------------------------------
(***************************************************************************)
(* erase_el                                                                *)
(***************************************************************************)

\* A call: it has not begun with its arcs, or iterates the output or the input
\* arcs and has called itself for the arc its iterator stands at, or returns true
\* because a handler has vetoed the erasure.
Call(e) == [el |-> e, pc |-> "enter", at |-> None]

Top(ag) == Last(stack[ag])

\* The call that has called the innermost one.
Caller(ag) == Last(Front(stack[ag]))

SetTop(ag, f) == stack' = [stack EXCEPT ![ag][Len(stack[ag])] = f]

\* The innermost call is over, and its caller becomes f.
SetCaller(ag, f) == stack' = [stack EXCEPT ![ag] = [Front(@) EXCEPT ![Len(stack[ag]) - 1] = f]]

\* Agent ag runs, and its innermost call is at pc, with memory that exists.
Running(ag, pc) ==
    /\ crash = "no"
    /\ active = ag
    /\ Top(ag).pc = pc
    /\ state[Top(ag).el] # "freed"

erase_el(ag, e) ==
    /\ Idle
    /\ stack[ag] = <<>>
    /\ state[e] = "live"
    /\ stack' = [stack EXCEPT ![ag] = <<Call(e)>>]
    /\ phase' = [phase EXCEPT ![ag] = "pre"]
    /\ slept' = [slept EXCEPT ![ag] = FALSE]
    /\ active' = ag
    /\ UNCHANGED <<heap, hint, iter, crash>>

\* A handler suspends the agent until its process has died.
pre_suspend(ag) ==
    /\ Running(ag, "enter")
    /\ phase[ag] = "pre"
    /\ Top(ag).el \in Handled
    /\ active' = None
    /\ slept' = [slept EXCEPT ![ag] = TRUE]
    /\ UNCHANGED <<heap, hint, iter, stack, phase, crash>>

\* The agent goes on, perhaps with the next handler of the element.
resume(ag) ==
    /\ Idle
    /\ stack[ag] # <<>>
    /\ active' = ag
    /\ UNCHANGED <<heap, hint, iter, stack, phase, slept, crash>>

\* A handler forbids the erasure: erase_el_pre returns true.
pre_veto(ag) ==
    /\ Running(ag, "enter")
    /\ phase[ag] = "pre"
    /\ Top(ag).el \in Handled
    /\ SetTop(ag, [Top(ag) EXCEPT !.pc = "vetoed"])
    /\ UNCHANGED <<heap, hint, iter, phase, active, slept, crash>>

\* The caller of a call that returns true deletes its iterator and returns true;
\* after the outermost call erase_el is over.
return_true(ag) ==
    /\ Running(ag, "vetoed")
    /\ IF Len(stack[ag]) = 1
       THEN /\ stack' = [stack EXCEPT ![ag] = <<>>]
            /\ active' = None
            /\ UNCHANGED heap
       ELSE /\ state[Caller(ag).el] # "freed"
            /\ SetHeap(End(Heap, Caller(ag).at))
            /\ SetCaller(ag, [Caller(ag) EXCEPT !.pc = "vetoed", !.at = None])
            /\ UNCHANGED active
    /\ UNCHANGED <<hint, iter, phase, slept, crash>>

\* Iteration of the output arcs begins, on heap h.
IterateOutput(ag, h) ==
    LET r == Begin(h, <<Top(ag).el, "beg">>) IN
      /\ SetHeap(r.heap)
      /\ SetTop(ag, [Top(ag) EXCEPT !.pc = "output", !.at = r.at])

pre_allow(ag) ==
    /\ Running(ag, "enter")
    /\ phase[ag] = "pre"
    /\ IterateOutput(ag, Heap)
    /\ UNCHANGED <<hint, iter, phase, active, slept, crash>>

\* Mutation: an arc leaves its ends only when its own arcs are gone.
forget_ends_later(ag) ==
    /\ Running(ag, "enter")
    /\ phase[ag] = "erase"
    /\ IterateOutput(ag, Heap)
    /\ UNCHANGED <<hint, iter, phase, active, slept, crash>>

\* Stage 1 of __erase_el: a live arc leaves its end and its begin.
forget_ends(ag) ==
    /\ Running(ag, "enter")
    /\ phase[ag] = "erase"
    /\ LET x == Top(ag).el IN
         IF x \in Arcs /\ state[x] = "live"
         THEN /\ IterateOutput(ag, detach(detach(Heap, hint[x]["end"]), hint[x]["beg"]))
              /\ hint' = [hint EXCEPT ![x] = [s \in Sides |-> NoHint]]
         ELSE IterateOutput(ag, Heap) /\ UNCHANGED hint
    /\ UNCHANGED <<iter, phase, active, slept, crash>>

\* The output arcs are done, the input arcs are next.
iterate_input(ag) ==
    /\ Running(ag, "output")
    /\ Top(ag).at = None
    /\ LET r == Begin(Heap, <<Top(ag).el, "end">>) IN
         /\ SetHeap(r.heap)
         /\ SetTop(ag, [Top(ag) EXCEPT !.pc = "input", !.at = r.at])
    /\ UNCHANGED <<hint, iter, phase, active, slept, crash>>

\* The function calls itself for the arc its iterator stands at.
recurse(ag) ==
    /\ Running(ag, "output") \/ Running(ag, "input")
    /\ Top(ag).at # None
    /\ IF Len(stack[ag]) < MaxDepth
       THEN /\ stack' = [stack EXCEPT ![ag] = Append(@, Call(Arc(Top(ag).at)))]
            /\ UNCHANGED crash
       ELSE crash' = "depth" /\ UNCHANGED stack
    /\ UNCHANGED <<heap, hint, iter, phase, active, slept>>

\* The heap when the innermost call is over: __erase_el ends with die().
Returned(ag, h) == IF phase[ag] = "erase" THEN die(h, Top(ag).el) ELSE h

ListOf(f) == <<f.el, IF f.pc = "output" THEN "beg" ELSE "end">>

\* Mutation: the caller asks its iterator again instead of moving it on.
return_staying(ag) ==
    /\ Running(ag, "input")
    /\ Top(ag).at = None
    /\ Len(stack[ag]) > 1
    /\ state[Caller(ag).el] # "freed"
    /\ SetHeap(Returned(ag, Heap))
    /\ stack' = [stack EXCEPT ![ag] = Front(@)]
    /\ UNCHANGED <<hint, iter, phase, active, slept, crash>>

\* The innermost call ends, and its caller's iterator moves on.
return(ag) ==
    /\ Running(ag, "input")
    /\ Top(ag).at = None
    /\ Len(stack[ag]) > 1
    /\ state[Caller(ag).el] # "freed"
    /\ LET r == Forward(Returned(ag, Heap), ListOf(Caller(ag)), Caller(ag).at) IN
         /\ SetHeap(r.heap)
         /\ SetCaller(ag, [Caller(ag) EXCEPT !.at = r.at])
    /\ UNCHANGED <<hint, iter, phase, active, slept, crash>>

\* The outermost erase_el_pre ends and __erase_el begins, or that ends too.
finish(ag) ==
    /\ Running(ag, "input")
    /\ Top(ag).at = None
    /\ Len(stack[ag]) = 1
    /\ SetHeap(Returned(ag, Heap))
    /\ IF phase[ag] = "pre"
       THEN /\ phase' = [phase EXCEPT ![ag] = "erase"]
            /\ stack' = [stack EXCEPT ![ag] = <<Call(Top(ag).el)>>]
            /\ UNCHANGED active
       ELSE /\ stack' = [stack EXCEPT ![ag] = <<>>]
            /\ active' = None
            /\ UNCHANGED phase
    /\ UNCHANGED <<hint, iter, slept, crash>>

\* An element that the agent works on was deleted while it was suspended.
use_freed(ag) ==
    /\ crash = "no"
    /\ active = ag
    /\ \/ state[Top(ag).el] = "freed"
       \/ /\ Len(stack[ag]) > 1
          /\ Top(ag).pc = "vetoed" \/ (Top(ag).pc = "input" /\ Top(ag).at = None)
          /\ state[Caller(ag).el] = "freed"
    /\ crash' = "freed"
    /\ UNCHANGED <<heap, hint, iter, stack, phase, active, slept>>

-----------------------------------------------------------------------------
Init ==
    /\ list = [L \in ListIds |-> <<>>]
    /\ link = [l \in Links |-> FreeLink]
    /\ hint = [x \in Arcs |-> [s \in Sides |-> NoHint]]
    /\ state = [e \in Elements |-> "live"]
    /\ refs = [e \in Elements |-> 0]
    /\ iter = [i \in Iters |-> Closed]
    /\ stack = [ag \in Agents |-> <<>>]
    /\ phase = [ag \in Agents |-> "pre"]
    /\ active = None
    /\ slept = [ag \in Agents |-> FALSE]
    /\ crash = "no"

Erasing(ag) ==
    \/ pre_suspend(ag) \/ pre_veto(ag) \/ return_true(ag) \/ pre_allow(ag) \/ forget_ends(ag)
    \/ iterate_input(ag) \/ recurse(ag) \/ return(ag) \/ finish(ag) \/ use_freed(ag)

Next ==
    \/ \E x \in Arcs, s \in Sides, e \in Elements : set_side(x, s, e)
    \/ \E i \in Iters : next(i) \/ delete_iterator(i) \/ \E e \in Elements, s \in Sides : create_iterator(i, e, s)
    \/ \E ag \in Agents : resume(ag) \/ Erasing(ag) \/ \E e \in Elements : erase_el(ag, e)

Spec == Init /\ [][Next]_vars

\* An agent that runs goes on.  That a handler's process ends is not needed.
LiveSpec == Spec /\ \A ag \in Agents : WF_vars(Erasing(ag))

-----------------------------------------------------------------------------
(***************************************************************************)
(* Properties                                                              *)
(***************************************************************************)

TypeOK ==
    /\ list \in [ListIds -> Seq(Links)]
    /\ link \in [Links -> [refcnt : Nat, dead : BOOLEAN]]
    /\ hint \in [Arcs -> [Sides -> [el : Elements, at : Links] \cup {NoHint}]]
    /\ state \in [Elements -> {"live", "dead", "freed"}]
    /\ refs \in [Elements -> Nat]
    /\ iter \in [Iters -> [list : ListIds, at : Links \cup {None}] \cup {Closed}]
    /\ stack \in [Agents -> Seq([el : Elements, pc : {"enter", "output", "input", "vetoed"}, at : Links \cup {None}])]
    /\ phase \in [Agents -> {"pre", "erase"}]
    /\ active \in Agents \cup {None}
    /\ slept \in [Agents -> BOOLEAN]
    /\ crash \in {"no", "freed", "depth"}

\* The iterators of users, and those of the calls of the agents.
Cursors == {<<i, 0>> : i \in Iters} \cup UNION {{<<ag, k>> : k \in 1..Len(stack[ag])} : ag \in Agents}
At(c) == IF c[2] = 0 THEN iter[c[1]].at ELSE stack[c[1]][c[2]].at

\* Reference counts are exact at every step, also in the middle of an erasure: a
\* link is held by its arc while it is alive and by every iterator that stands
\* at it; an address is held by the iterators that stand at its links and by
\* those of users over its arcs.  Nothing leaks: a dead link or a dead element
\* is there only as long as an iterator holds it.
CountsExact ==
    /\ \A l \in Links :
         link[l].refcnt = Cardinality({c \in Cursors : At(c) = l})
                          + (IF link[l] # FreeLink /\ ~link[l].dead THEN 1 ELSE 0)
    /\ \A e \in Elements :
         /\ refs[e] = Cardinality({c \in Cursors : At(c) # None /\ Arc(At(c)) = e})
                      + Cardinality({i \in Iters : iter[i] # Closed /\ iter[i].list[1] = e})
         /\ state[e] = "dead" => refs[e] > 0

\* Whatever iterators hold back: the live links of a list are those that the
\* hints of live arcs lead to, each link is in one list once, and the arc that
\* a link, alive or dead, leads to has not been deleted.  What is connected to
\* an element dies with it: no erasure leaves a live arc at a dead element.
ListsMatchArcs ==
    /\ TypeOK
    /\ \A L \in ListIds :
         {l \in ToSet(list[L]) : ~link[l].dead}
           = {hint[x][L[2]].at : x \in {y \in Arcs : hint[y][L[2]].el = L[1]}}
    /\ \A x \in Arcs, s \in Sides :
         hint[x][s] # NoHint => Arc(hint[x][s].at) = x /\ state[x] = "live"
    /\ \A l \in Links :
         Cardinality({L \in ListIds : l \in ToSet(list[L])}) = (IF link[l] = FreeLink THEN 0 ELSE 1)
    /\ \A L \in ListIds : IsInjective(list[L])
    /\ \A l \in Links : link[l] # FreeLink => state[Arc(l)] # "freed"
    /\ active = None =>
         \A x \in Arcs, s \in Sides : hint[x][s] # NoHint => state[hint[x][s].el] = "live"

\* Erasing deletes nothing that it, or an iterator, still uses, unless a handler
\* has suspended the agent; and only the round of questions can recurse without
\* end (on a cycle of arcs): the erasure itself is never deeper than there are
\* elements, so that it ends if the stack has room for that.
CrashNeedsHandlerOrCycle ==
    /\ crash = "freed" => slept[active]
    /\ crash = "depth" => phase[active] = "pre" \/ Cardinality(Elements) > MaxDepth

\* An agent that erases comes to an end or is suspended, also when it runs over
\* the arcs that it erases: unless that crashes, sooner or later no agent runs.
ErasureEnds == active # None ~> active = None \/ crash # "no"

\* The lists and iterators implement ArcSet.
members == [L \in ListIds |-> {Arc(l) : l \in Live(Heap, L)}]
over == [i \in Iters |-> IF iter[i].at = None THEN {} ELSE {iter[i].list}]
pending == [i \in Iters |->
    IF iter[i].at = None THEN {}
    ELSE {Arc(l) : l \in Behind(Heap, iter[i].list, iter[i].at)}]

Abstract == INSTANCE ArcSet WITH Sets <- ListIds
ImplementsArcSet == Abstract!ASpec
=============================================================================
