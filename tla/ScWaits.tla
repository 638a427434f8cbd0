------------------------------ MODULE ScWaits ------------------------------
(***************************************************************************)
(* Lists of waits (libsc/sc_event.h, sc_list_head.h) and the handlers that *)
(* libpm hangs into them (scp/event_ops.cpp, pm_sched.cpp).                *)
(*                                                                         *)
(* Every address of sc-memory has one list of waits per type of event.     *)
(* The session walks a list when an event of its type happens, and calls   *)
(* the waits.  A "handler" is set by setevhandler: in the list of a PRE    *)
(* event it takes itself out, starts an scp-process, puts itself back and  *)
(* suspends the agent in the middle of the walk until the process has      *)
(* died, so that other agents walk and change the same list.  A "once"     *)
(* wait is the sleep_until_event_wait of sys_wait: it wakes its process    *)
(* and deletes itself.                                                     *)
(*                                                                         *)
(* The lists are the code's rings of next and prev pointers with the head  *)
(* as a node of its own.  One processor: an agent runs until it suspends.  *)
(***************************************************************************)
EXTENDS Integers

CONSTANTS Waits,    \* objects of class sc_wait
          Lists,    \* heads of lists: one type of event of one element
          PreLists, \* the lists of PRE events
          InSets,   \* the lists of SC_WAIT_HACK_IN_SET(_PRE)
          Once,     \* the waits that are a sleep_until_event_wait
          Agents,   \* agents that operate on sc-memory
          Nobody    \* no agent

ASSUME NodesDistinct == Waits \cap Lists = {}
ASSUME ListKinds == PreLists \subseteq Lists /\ InSets \subseteq Lists
ASSUME OnceAreWaits == Once \subseteq Waits
ASSUME NobodyIsNoAgent == Nobody \notin Agents

Nodes == Waits \cup Lists

VARIABLES
    next, prev, \* the pointers of every node
    status,     \* wait -> whether it was attached, detached or deleted
    walk,       \* agent -> its call of sc_waits_holder::activate
    active,     \* the agent that has the processor, in the middle of a walk
    crashed,    \* memory of a deleted wait or of a foreign head was used
    todo,       \* history: agent -> waits in the list when its walk began
    calls,      \* history: agent -> wait -> calls in the walk (2: or more)
    alone       \* history: agent -> it walks, and only its walk changes lists

pointers == <<next, prev>>
history == <<todo, calls, alone>>
vars == <<next, prev, status, walk, active, crashed, todo, calls, alone>>

\* Not yet attached, in a list, taken out by delevhandler, deleted.
Statuses == {"new", "attached", "detached", "freed"}

\* An agent outside a walk, in one, suspended by a handler, or suspended by a
\* handler whose process could not be started.
Stages == {"idle", "walking", "suspended", "abandoned"}

\* A walk: its list; the list of the begin of the arc (prm[0]); whether the arc
\* leads from the element to itself; the node it is at, or resumes at.
Walks == [stage : Stages, list : Lists, back : Lists, loop : BOOLEAN, at : Nodes]

-----------------------------------------------------------------------------
(***************************************************************************)
(* __sc_listhead_virtual                                                   *)
(***************************************************************************)

Ring == [next |-> next, prev |-> prev]

\* Mutation: the successor keeps its pointer to the removed node.
RemoveForwardOnly(r, n) ==
    [next |-> [r.next EXCEPT ![r.prev[n]] = r.next[n], ![n] = n],
     prev |-> [r.prev EXCEPT ![n] = n]]

\* prev->next = next; next->prev = prev; next = prev = this.
Remove(r, n) ==
    [next |-> [[r.next EXCEPT ![r.prev[n]] = r.next[n]] EXCEPT ![n] = n],
     prev |-> [[r.prev EXCEPT ![r.next[n]] = r.prev[n]] EXCEPT ![n] = n]]

InsertAfter(r, h, n) ==
    [next |-> [r.next EXCEPT ![n] = r.next[h], ![h] = n],
     prev |-> [r.prev EXCEPT ![r.next[h]] = n, ![n] = h]]

\* Mutation: the node goes to the tail of the list.
AppendAtTail(r, h, n) ==
    [next |-> [r.next EXCEPT ![r.prev[h]] = n, ![n] = h],
     prev |-> [r.prev EXCEPT ![n] = r.prev[h], ![h] = n]]

\* append: a node that is already in a list makes the head, not the node, leave
\* its list first.
Append(r, h, n) ==
    InsertAfter(IF r.prev[n] # n THEN Remove(r, h) ELSE r, h, n)

SetRing(r) == next' = r.next /\ prev' = r.prev

\* The nodes that next leads to from the head h: the least set that has h and is
\* closed under next.
RingOf(h) ==
    LET Closed == {S \in SUBSET Nodes : h \in S /\ \A n \in S : next[n] \in S}
    IN  {n \in Nodes : \A S \in Closed : n \in S}

\* The waits of a list.
Holds(h) == RingOf(h) \ {h}

NoCalls == [w \in Waits |-> 0]

\* History of a step that changes lists: it goes on only for the agents of S.
KeepHistory(S) ==
    /\ alone' = [b \in Agents |-> alone[b] /\ b \in S]
    /\ todo' = [b \in Agents |-> IF b \in S THEN todo[b] ELSE {}]

\* Agent a, if its history goes on, calls wait w.
CallsAfter(S, a, w) ==
    [b \in Agents |->
        IF b \notin S \/ ~alone[b] THEN NoCalls
        ELSE IF b = a /\ calls[b][w] < 2 THEN [calls[b] EXCEPT ![w] = @ + 1]
        ELSE calls[b]]

Disturbed ==
    /\ KeepHistory({})
    /\ calls' = [b \in Agents |-> NoCalls]

\* The walk of a has ended.
Forget(a) ==
    /\ alone' = [alone EXCEPT ![a] = FALSE]
    /\ todo' = [todo EXCEPT ![a] = {}]
    /\ calls' = [calls EXCEPT ![a] = NoCalls]

-----------------------------------------------------------------------------
(***************************************************************************)
(* Agents outside a walk                                                   *)
(***************************************************************************)

Idle == ~crashed /\ active = Nobody

\* setevhandler, or sys_wait with its attach_good_wait: a new wait goes to the
\* front of a list.
attach_wait(w, l) ==
    /\ Idle
    /\ status[w] = "new"
    /\ SetRing(Append(Ring, l, w))
    /\ status' = [status EXCEPT ![w] = "attached"]
    /\ Disturbed
    /\ UNCHANGED <<walk, active, crashed>>

\* delevhandler takes the handler out of its list, again if called again; the
\* object stays.
delevhandler(w) ==
    /\ Idle
    /\ w \notin Once /\ status[w] \in {"attached", "detached"}
    /\ SetRing(Remove(Ring, w))
    /\ status' = [status EXCEPT ![w] = "detached"]
    /\ Disturbed
    /\ UNCHANGED <<walk, active, crashed>>

\* A session is closed: its good waits are deleted, which detaches them.
reap_good_waits(w) ==
    /\ Idle
    /\ w \in Once /\ status[w] = "attached"
    /\ SetRing(Remove(Ring, w))
    /\ status' = [status EXCEPT ![w] = "freed"]
    /\ Disturbed
    /\ UNCHANGED <<walk, active, crashed>>

\* The lists of the same type of event as l.
SameEvent(l) == InSets \cap (IF l \in PreLists THEN PreLists ELSE Lists \ PreLists)

\* An agent changes an arc (or erases an element) and the session activates the
\* waits of list l.  For an arc into the element, prm[0] is its begin.
activate(a, l, b, loop) ==
    /\ Idle
    /\ walk[a].stage = "idle"
    /\ IF l \in InSets THEN b \in SameEvent(l) /\ (loop <=> b = l) ELSE b = l
    /\ walk' = [walk EXCEPT ![a] = [stage |-> "walking", list |-> l, back |-> b,
                                    loop |-> loop, at |-> next[l]]]
    /\ active' = a
    /\ todo' = [todo EXCEPT ![a] = Holds(l)]
    /\ calls' = [calls EXCEPT ![a] = NoCalls]
    /\ alone' = [alone EXCEPT ![a] = TRUE]
    /\ UNCHANGED <<next, prev, status, crashed>>

-----------------------------------------------------------------------------
(***************************************************************************)
(* The steps of sc_waits_holder::activate                                  *)
(***************************************************************************)

NoWalk == [stage |-> "idle"]

\* Agent a is at the node p, which is not the end of its walk.
At(a, p) ==
    /\ ~crashed
    /\ active = a
    /\ walk[a].at = p /\ p # walk[a].list

\* p is a deleted wait or the head of another list, called as if it was a wait.
visit_garbage(a, p) ==
    /\ At(a, p)
    /\ p \in Waits => status[p] = "freed"
    /\ crashed' = TRUE
    /\ UNCHANGED <<next, prev, status, walk, active, history>>

\* A handler that neither moves nor suspends: one of a POST event, which only
\* starts a process, and one of a PRE event for elements in ring 0.
visit_handler(a, p) ==
    /\ At(a, p)
    /\ p \in Waits \ Once /\ status[p] # "freed"
    /\ walk' = [walk EXCEPT ![a].at = next[p]]
    /\ calls' = CallsAfter(Agents, a, p)
    /\ UNCHANGED <<next, prev, status, active, crashed, todo, alone>>

\* Mutation: the next wait is looked up after the call.
visit_pre_handler_next_later(a, p) ==
    /\ At(a, p)
    /\ walk[a].list \in PreLists
    /\ p \in Waits \ Once /\ status[p] # "freed"
    /\ LET r == Append(Remove(Ring, p), walk[a].back, p) IN
         /\ SetRing(r)
         /\ \E started \in BOOLEAN :
              walk' = [walk EXCEPT ![a].at = r.next[p],
                                   ![a].stage = IF started THEN "suspended" ELSE "abandoned"]
    /\ status' = [status EXCEPT ![p] = "attached"]
    /\ active' = Nobody
    /\ KeepHistory({a}) /\ calls' = CallsAfter({a}, a, p)
    /\ UNCHANGED crashed

\* pre_ev_handler::activate up to the switch to another agent: it takes itself
\* out, starts its process, goes to the front of the list of prm[0] and puts
\* the agent to sleep, also when the process could not be started and nobody
\* will wake the agent.  The next wait was looked up before.
visit_pre_handler(a, p) ==
    /\ At(a, p)
    /\ walk[a].list \in PreLists
    /\ p \in Waits \ Once /\ status[p] # "freed"
    /\ SetRing(Append(Remove(Ring, p), walk[a].back, p))
    /\ \E started \in BOOLEAN :
         walk' = [walk EXCEPT ![a].at = next[p],
                              ![a].stage = IF started THEN "suspended" ELSE "abandoned"]
    /\ status' = [status EXCEPT ![p] = "attached"]
    /\ active' = Nobody
    /\ KeepHistory({a}) /\ calls' = CallsAfter({a}, a, p)
    /\ UNCHANGED crashed

\* Mutation: the destructor does not detach the wait.
visit_once_no_detach(a, p) ==
    /\ At(a, p)
    /\ p \in Once /\ status[p] # "freed"
    /\ status' = [status EXCEPT ![p] = "freed"]
    /\ walk' = [walk EXCEPT ![a] = NoWalk] /\ active' = Nobody
    /\ Disturbed
    /\ UNCHANGED <<next, prev, crashed>>

\* sleep_until_event_wait::activate wakes its process, deletes itself and goes on
\* with the loop over the parameters, in memory that may have changed.  Only in
\* an IN_SET event is the element the last of them; there it deletes itself twice
\* for an arc from the element to itself.  It returns true, which in a PRE list
\* ends the walk.
visit_once(a, p) ==
    /\ At(a, p)
    /\ p \in Once /\ status[p] # "freed"
    /\ SetRing(Remove(Ring, p))
    /\ status' = [status EXCEPT ![p] = "freed"]
    /\ crashed' \in (IF walk[a].list \in InSets /\ ~walk[a].loop THEN {FALSE} ELSE BOOLEAN)
    /\ IF walk[a].list \in PreLists
       THEN walk' = [walk EXCEPT ![a] = NoWalk] /\ active' = Nobody
       ELSE walk' = [walk EXCEPT ![a].at = next[p]] /\ UNCHANGED active
    /\ IF walk[a].list \in PreLists
       THEN Disturbed
       ELSE KeepHistory({a}) /\ calls' = CallsAfter({a}, a, p)

\* check_prm_access fails: the wait's session has not opened the segment.  Only
\* good waits have a session, and PRE events do not ask it.
visit_no_access(a, p) ==
    /\ At(a, p)
    /\ walk[a].list \notin PreLists
    /\ p \in Once /\ status[p] # "freed"
    /\ walk' = [walk EXCEPT ![a].at = next[p]]
    /\ UNCHANGED <<next, prev, status, active, crashed, history>>

\* The process of the handler has died: wakeup_activity wakes the agent.  The
\* answer is to go on with the walk or to veto.
resume(a) ==
    /\ Idle
    /\ walk[a].stage = "suspended"
    /\ \/ walk' = [walk EXCEPT ![a].stage = "walking"] /\ active' = a /\ UNCHANGED history
       \/ walk' = [walk EXCEPT ![a] = NoWalk] /\ Forget(a) /\ UNCHANGED active
    /\ UNCHANGED <<next, prev, status, crashed>>

\* The walk is back at the head of its list.
finish(a) ==
    /\ ~crashed
    /\ active = a
    /\ walk[a].at = walk[a].list
    /\ walk' = [walk EXCEPT ![a] = NoWalk]
    /\ active' = Nobody
    /\ Forget(a)
    /\ UNCHANGED <<next, prev, status, crashed>>

-----------------------------------------------------------------------------
Init ==
    /\ next = [n \in Nodes |-> n] /\ prev = [n \in Nodes |-> n]
    /\ status = [w \in Waits |-> "new"]
    /\ walk = [a \in Agents |-> NoWalk]
    /\ active = Nobody
    /\ crashed = FALSE
    /\ todo = [a \in Agents |-> {}]
    /\ calls = [a \in Agents |-> NoCalls]
    /\ alone = [a \in Agents |-> FALSE]

Visit(a) ==
    \E p \in Nodes :
        \/ visit_garbage(a, p) \/ visit_handler(a, p) \/ visit_pre_handler(a, p)
        \/ visit_once(a, p) \/ visit_no_access(a, p)

\* What the code outside the walks does.
Outside ==
    \/ \E w \in Waits : delevhandler(w) \/ reap_good_waits(w) \/ \E l \in Lists : attach_wait(w, l)
    \/ \E a \in Agents, l, b \in Lists, loop \in BOOLEAN : activate(a, l, b, loop)

Next == Outside \/ \E a \in Agents : Visit(a) \/ resume(a) \/ finish(a)

Spec == Init /\ [][Next]_vars

\* The agent that has the processor goes on; the process of a handler ends and
\* the agent it wakes gets a turn (QueuedAgentsRun of PmSched).
Fairness == \A a \in Agents : WF_vars(Visit(a)) /\ WF_vars(finish(a)) /\ SF_vars(resume(a))

LiveSpec == Spec /\ Fairness

-----------------------------------------------------------------------------
(***************************************************************************)
(* Properties                                                              *)
(***************************************************************************)

TypeOK ==
    /\ next \in [Nodes -> Nodes] /\ prev \in [Nodes -> Nodes]
    /\ status \in [Waits -> Statuses]
    /\ walk \in [Agents -> Walks \cup {NoWalk}]
    /\ active \in Agents \cup {Nobody}
    /\ crashed \in BOOLEAN
    /\ todo \in [Agents -> SUBSET Waits]
    /\ calls \in [Agents -> [Waits -> 0..2]]
    /\ alone \in [Agents -> BOOLEAN]

\* The two pointers of every node mirror each other, whatever handlers that move
\* or delete themselves, deletions in the middle of a suspended walk and walks
\* that run across each other do; and a wait outside all lists points to itself,
\* so that "new->prev != new" is false for all that append is called with.
Linked ==
    /\ TypeOK
    /\ \A n \in Nodes : prev[next[n]] = n /\ next[prev[n]] = n
    /\ \A w \in Waits : status[w] # "attached" => prev[w] = w

\* The waits that next leads to from the heads are exactly the attached ones, and
\* no head leads to another head: no event is lost on a ring that has split off,
\* no deleted wait is called by a new walk, and, the pointers being linked, each
\* wait is in one list only.
EachInOneList ==
    /\ \A l \in Lists : RingOf(l) \cap Lists = {l}
    /\ UNION {RingOf(l) : l \in Lists} = Lists \cup {w \in Waits : status[w] = "attached"}

\* A walk during which nothing but its own handlers has touched a list, and
\* which nobody has vetoed, has called every handler that was in the list when
\* it began exactly once, though each of them moved to the front in its turn.
CallsEachOnce ==
    \A a \in Agents :
        active = a /\ walk[a].at = walk[a].list /\ alone[a] =>
            \A w \in Waits :
                /\ w \in todo[a] \ Once => calls[a][w] = 1
                /\ w \notin todo[a] => calls[a][w] = 0
                /\ w \in Once => calls[a][w] <= 1

\* Once no event, no sethandler and no delevhandler comes any more, every walk
\* ends, also those that have run across each other, unless its agent waits for
\* a process that never started.
WalksEnd ==
    <>[][~Outside]_vars =>
        \A a \in Agents : []<>(crashed \/ walk[a].stage \in {"idle", "abandoned"})
=============================================================================
