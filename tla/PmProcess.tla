----------------------------- MODULE PmProcess -----------------------------
(***************************************************************************)
(* Processes, wait queues, waitable sources and sleeping calls of libpm    *)
(* (pm_process.cpp, pm_wait.cpp, sleeping_activity.cpp) on top of the      *)
(* scheduler of module PmSched.                                            *)
(*                                                                         *)
(* Every action below is one operation of the scheduler, or none, together *)
(* with what the process layer does around it.  Only the actor that holds  *)
(* the processor acts: the running agent, or the host program (actor None) *)
(* between two calls of pm_sched_do_step.  pc[p] says where p's code is    *)
(* and why[p] which library call it is in.                                 *)
(***************************************************************************)
EXTENDS PmSched

CONSTANTS Sets,        \* sc-elements wrapped by a waitable_set
          MaxItems,    \* bound on the members of such a set
          CallerKinds  \* the kinds of agents that make sleeping calls

ASSUME SetsAssumption == Sets \cap (Agents \cup {None}) = {}
ASSUME MaxItemsAssumption == MaxItems \in Nat \ {0}

\* "normal", "detached": a pm_process created in that mode; "callee": a
\* sleeping_caller; "agent": any other activity, such as an scp-process.
Kinds == {"normal", "detached", "callee", "agent"}

ASSUME CallerKindsAssumption == CallerKinds \subseteq Kinds

VARIABLES
    kind,             \* agent -> its kind, "normal" until it is created
    detached,         \* process -> mode == DETACHED
    completed,        \* process -> completed
    caller,           \* sleeping_caller -> its caller, None once woken
    wait_queue,       \* source -> set of processes
    items,            \* waitable set -> number of its members
    current_process,
    pc, why,          \* see above
    arg,              \* actor -> the process it is creating or killing
    on,               \* process -> the sources it waits for
    waking            \* what wake_all has still to visit

procVars == <<kind, detached, completed, caller, wait_queue, items,
              current_process, pc, why, arg, on, waking>>
pvars == <<vars, procVars>>

Sources == Agents \cup Sets
Actors  == Agents \cup {None}

IsProcess(p) == kind[p] # "agent"

\* waitable_source::poll of a process and of a set
poll(s) == IF s \in Sets THEN items[s] > 0 ELSE completed[s]

\* p holds the processor and its code is at c.
At(p, c) == mode # "aborted" /\ running = p /\ pc[p] = c

Goto(p, c) == pc' = [pc EXCEPT ![p] = c]

-----------------------------------------------------------------------------
(***************************************************************************)
(* Creation                                                                *)
(***************************************************************************)

\* The constructor of pm_process up to reimplement(sign, this).  For a sleeping
\* call the new process remembers the current agent as its caller.
pm_process(p, q, k) ==
    /\ At(p, "run")
    /\ reimplement(q)
    /\ kind' = [kind EXCEPT ![q] = k]
    /\ detached' = [detached EXCEPT ![q] = k \in {"detached", "callee"}]
    /\ caller' = [caller EXCEPT ![q] = IF k = "callee" THEN current ELSE None]
    /\ pc' = [pc EXCEPT ![p] = "ctor", ![q] = "entry"]
    /\ why' = [why EXCEPT ![p] = IF k = "callee" THEN "call" ELSE "spawn"]
    /\ arg' = [arg EXCEPT ![p] = q]
    /\ UNCHANGED <<completed, wait_queue, items, current_process, on, waking>>

Spawn(p, q) == \E k \in {"normal", "detached", "agent"} : pm_process(p, q, k)

\* sleeping_caller::call: the callee is created, then the caller sleeps.
call(p, q) ==
    /\ p # None
    /\ kind[p] \in CallerKinds
    /\ pm_process(p, q, "callee")

\* The constructor ends with pm_sched_add_agent.
ctor_add(p) ==
    /\ At(p, "ctor")
    /\ pm_sched_add_agent(arg[p], "normal")
    /\ Goto(p, IF why[p] = "call" THEN "sleep" ELSE "run")
    /\ arg' = [arg EXCEPT ![p] = None]
    /\ UNCHANGED <<kind, detached, completed, caller, wait_queue, items,
                   current_process, why, on, waking>>

-----------------------------------------------------------------------------
(***************************************************************************)
(* Giving up the processor                                                 *)
(***************************************************************************)

\* The first quantum of a process, and every quantum of another agent.
Begin(p) ==
    /\ At(p, "entry")
    /\ current_process' = IF IsProcess(p) THEN p ELSE current_process
    /\ Goto(p, "run")
    /\ UNCHANGED <<vars, kind, detached, completed, caller, wait_queue, items,
                   why, arg, on, waking>>

yield(p) ==
    /\ At(p, "run") /\ p # None /\ IsProcess(p)
    /\ context_switchback(p)
    /\ current_process' = None
    /\ Goto(p, "off")
    /\ why' = [why EXCEPT ![p] = "yield"]
    /\ UNCHANGED <<kind, detached, completed, caller, wait_queue, items, arg, on, waking>>

\* pm_process::sleep forgets current_process; sleeping_caller::call does not.
sleep(p) ==
    /\ At(p, "sleep")
    /\ pm_sched_put_to_sleep(current)
    /\ current_process' = IF why[p] = "call" THEN current_process ELSE None
    /\ Goto(p, "switch")
    /\ UNCHANGED <<kind, detached, completed, caller, wait_queue, items, why, arg, on, waking>>

\* Both then switch back.
SwitchOut(p) ==
    /\ At(p, "switch")
    /\ context_switchback(p)
    /\ Goto(p, "off")
    /\ UNCHANGED <<kind, detached, completed, caller, wait_queue, items,
                   current_process, why, arg, on, waking>>

\* The test after a wake-up: the loops of wait_for, select and get.
Polled(p) == why[p] \in {"yield", "call"} \/ \E s \in on[p] : poll(s)

\* Mutation: select leaves its entry in the queues of the other sources.
LeaveOneQueue(p) ==
    LET t == CHOOSE s \in on[p] : poll(s)
    IN  [s \in Sources |-> IF s = t THEN wait_queue[s] \ {p} ELSE wait_queue[s]]

\* The wait is over: the process leaves the queues of all its sources.
LeaveQueues(p) == [s \in Sources |-> wait_queue[s] \ {p}]

\* Back on the processor after context_switchback.  A source that is not ready
\* sends the process back to sleep: leaving its queue and entering it again
\* happens without an event in between.
Resume(p) ==
    /\ At(p, "off")
    /\ current_process' = IF why[p] = "call" THEN current_process ELSE current
    /\ IF Polled(p)
       THEN /\ wait_queue' = IF on[p] = {} THEN wait_queue ELSE LeaveQueues(p)
            /\ items' = IF why[p] = "get" THEN [s \in Sets |-> IF s \in on[p] THEN items[s] - 1 ELSE items[s]]
                        ELSE items
            /\ on' = [on EXCEPT ![p] = {}]
            /\ Goto(p, "run")
       ELSE /\ Goto(p, "sleep")
            /\ UNCHANGED <<wait_queue, items, on>>
    /\ UNCHANGED <<vars, kind, detached, completed, caller, why, arg, waking>>

-----------------------------------------------------------------------------
(***************************************************************************)
(* Waiting and waking                                                      *)
(***************************************************************************)

\* pm_wait_queue::add for all sources, on behalf of pm_process::current().
EnterQueues(p, S, w) ==
    /\ wait_queue' = [s \in Sources |-> IF s \in S THEN wait_queue[s] \cup {p} ELSE wait_queue[s]]
    /\ on' = [on EXCEPT ![p] = S]
    /\ why' = [why EXCEPT ![p] = w]
    /\ Goto(p, "sleep")
    /\ UNCHANGED <<vars, kind, detached, completed, caller, items, current_process, arg, waking>>

\* What a process may wait for: another process that has not been detached
\* ("mode [is] to allow parent to wait for sons completion"), or a set.
Waitable(p, s) ==
    s \notin Sets => s # p /\ Activity(s) /\ kind[s] = "normal" /\ ~detached[s]

\* These use pm_process::current(), so they need it to be right.
CanWait(p) == At(p, "run") /\ p # None /\ IsProcess(p) /\ current_process = p

\* waitable_source::wait_for sleeps before its first poll.
wait_for(p, s) ==
    /\ CanWait(p) /\ s \notin Sets /\ Waitable(p, s)
    /\ EnterQueues(p, {s}, "wait_for")

\* Mutation: select sleeps without looking at its sources first.
SelectReadyIgnored(S) == FALSE

\* reset_ready and has_next_ready.
SelectReady(S) == \E s \in S : poll(s)

\* pm_select::wait polls first; with a ready source it returns at once.
select(p, S) ==
    /\ CanWait(p) /\ \A s \in S : Waitable(p, s)
    /\ ~SelectReady(S)
    /\ EnterQueues(p, S, "select")

\* waitable_set::get: the found member's arc is erased, else the process sleeps.
get(p, s) ==
    /\ CanWait(p)
    /\ \/ /\ poll(s)
          /\ items' = [items EXCEPT ![s] = @ - 1]
          /\ UNCHANGED <<vars, kind, detached, completed, caller, wait_queue,
                         current_process, pc, why, arg, on, waking>>
       \/ /\ ~poll(s)
          /\ EnterQueues(p, {s}, "get")

\* Mutation: the loop of wake_all starts behind the first entry.
WakeAllButFirst(s) ==
    IF wait_queue[s] = {} THEN {} ELSE wait_queue[s] \ {CHOOSE w \in wait_queue[s] : TRUE}

\* The entries wake_all will visit.
wake_all(s) == wait_queue[s]

\* An arc out of the set is generated; the good wait of the waitable_set is
\* activated by SC_WAIT_HACK_SET_MEMBER and wakes the queue.
put(p, s) ==
    /\ At(p, "run") /\ p # None
    /\ items[s] < MaxItems
    /\ items' = [items EXCEPT ![s] = @ + 1]
    /\ waking' = wake_all(s)
    /\ why' = [why EXCEPT ![p] = "put"]
    /\ Goto(p, "wake")
    /\ UNCHANGED <<vars, kind, detached, completed, caller, wait_queue,
                   current_process, arg, on>>

\* One iteration of the loop of wake_all.
awake(p, w) ==
    /\ At(p, "wake") /\ w \in waking
    /\ pm_sched_wakeup(w)
    /\ waking' = waking \ {w}
    /\ UNCHANGED <<kind, detached, completed, caller, wait_queue, items,
                   current_process, pc, why, arg, on>>

WakeDone(p) ==
    /\ At(p, "wake") /\ waking = {}
    /\ Goto(p, IF why[p] = "finish" THEN "complete" ELSE "run")
    /\ UNCHANGED <<vars, kind, detached, completed, caller, wait_queue, items,
                   current_process, why, arg, on, waking>>

-----------------------------------------------------------------------------
(***************************************************************************)
(* Results and completion                                                  *)
(***************************************************************************)

\* Mutation: do_return does not forget the caller it has woken.
ReplyRemembered(p) == UNCHANGED caller

\* wake_caller: caller = 0
Replied(p) == caller' = [caller EXCEPT ![p] = None]

\* sleeping_caller::do_return.  A second one finds no caller and does nothing,
\* and one with do_not_wake only stores the result.
do_return(p) ==
    /\ At(p, "run") /\ p # None /\ kind[p] = "callee"
    /\ current_process = p
    /\ caller[p] # None
    /\ pm_sched_wakeup(caller[p])
    /\ Replied(p)
    /\ UNCHANGED <<kind, detached, completed, wait_queue, items, current_process,
                   pc, why, arg, on, waking>>

\* Mutation: a callee that never answered dies without waking its caller.
DieSilently(p) == "kill"

\* Where the destructor of a detached process starts.
Die(p) == IF kind[p] = "callee" /\ caller[p] # None THEN "reply" ELSE "kill"

\* run() has returned: a detached process deletes itself, another one wakes its
\* waiters.  The activity of another agent just returns.
Finish(p) ==
    /\ At(p, "run") /\ p # None
    /\ current_process' = IF IsProcess(p) THEN None ELSE current_process
    /\ \/ /\ ~IsProcess(p)
          /\ Goto(p, "return")
          /\ UNCHANGED <<why, arg, waking>>
       \/ /\ IsProcess(p) /\ detached[p]
          /\ Goto(p, Die(p))
          /\ arg' = [arg EXCEPT ![p] = p]
          /\ UNCHANGED <<why, waking>>
       \/ /\ IsProcess(p) /\ ~detached[p]
          /\ Goto(p, "wake")
          /\ waking' = wake_all(p)
          /\ why' = [why EXCEPT ![p] = "finish"]
          /\ UNCHANGED arg
    /\ UNCHANGED <<vars, kind, detached, completed, caller, wait_queue, items, on>>

\* completed = true; pm_sched_remove_agent(sign).
Complete(p) ==
    /\ At(p, "complete")
    /\ pm_sched_remove_agent(p)
    /\ completed' = [completed EXCEPT ![p] = TRUE]
    /\ Goto(p, "return")
    /\ UNCHANGED <<kind, detached, caller, wait_queue, items, current_process,
                   why, arg, on, waking>>

\* ~sleeping_caller wakes a caller that has not been woken.
Reply(p) ==
    /\ At(p, "reply")
    /\ pm_sched_wakeup(caller[p])
    /\ Replied(p)
    /\ Goto(p, "kill")
    /\ UNCHANGED <<kind, detached, completed, wait_queue, items, current_process,
                   why, arg, on, waking>>

\* ~pm_process
Kill(p) ==
    /\ At(p, "kill")
    /\ Destroy(arg[p])
    /\ pc' = IF arg[p] = p THEN [pc EXCEPT ![p] = "return"]
             ELSE [pc EXCEPT ![p] = "run", ![arg[p]] = "gone"]
    /\ arg' = [arg EXCEPT ![p] = None]
    /\ UNCHANGED <<kind, detached, completed, caller, wait_queue, items,
                   current_process, why, on, waking>>

\* The activity returns to the scheduler.  An agent that is no process may
\* report an error, and runs again in its next quantum.
ActivityReturns(p) ==
    /\ At(p, "return")
    /\ \E ok \in BOOLEAN : (IsProcess(p) => ok) /\ Return(p, ok)
    /\ Goto(p, IF IsProcess(p) THEN "gone" ELSE "entry")
    /\ UNCHANGED <<kind, detached, completed, caller, wait_queue, items,
                   current_process, why, arg, on, waking>>

\* detach of a completed process deletes it.  No caller detaches a process that
\* others are waiting for.
detach(p, q) ==
    /\ At(p, "run") /\ p # None
    /\ Activity(q) /\ IsProcess(q) /\ wait_queue[q] = {}
    /\ ~detached[q]
    /\ detached' = [detached EXCEPT ![q] = TRUE]
    /\ pc' = IF completed[q] THEN [pc EXCEPT ![p] = "kill"] ELSE pc
    /\ arg' = IF completed[q] THEN [arg EXCEPT ![p] = q] ELSE arg
    /\ why' = [why EXCEPT ![p] = "detach"]
    /\ UNCHANGED <<vars, kind, completed, caller, wait_queue, items, current_process, on, waking>>

undetach(p, q) ==
    /\ At(p, "run") /\ p # None
    /\ Activity(q) /\ kind[q] = "normal" /\ detached[q] /\ ~completed[q]
    /\ detached' = [detached EXCEPT ![q] = FALSE]
    /\ UNCHANGED <<vars, kind, completed, caller, wait_queue, items, current_process,
                   pc, why, arg, on, waking>>

-----------------------------------------------------------------------------
\* The host calls pm_sched_do_step.
DoStep ==
    /\ pc[None] = "run"
    /\ pm_sched_do_step
    /\ UNCHANGED procVars

PInit ==
    /\ Init
    /\ kind = [p \in Agents |-> "normal"]
    /\ detached = [p \in Agents |-> FALSE]
    /\ completed = [p \in Agents |-> FALSE]
    /\ caller = [p \in Agents |-> None]
    /\ wait_queue = [s \in Sources |-> {}]
    /\ items = [s \in Sets |-> 0]
    /\ current_process = None
    /\ pc = [p \in Actors |-> IF p = None THEN "run" ELSE "gone"]
    /\ why = [p \in Actors |-> "none"]
    /\ arg = [p \in Actors |-> None]
    /\ on = [p \in Agents |-> {}]
    /\ waking = {}

\* What the code of an actor may choose to do.
Choose(p) ==
    \/ \E q \in Agents : Spawn(p, q) \/ call(p, q)
    \/ \E q \in Agents : wait_for(p, q) \/ detach(p, q) \/ undetach(p, q)
    \/ \E S \in (SUBSET Sources) \ {{}} : select(p, S)
    \/ \E s \in Sets : get(p, s) \/ put(p, s)
    \/ do_return(p)

\* What the library then goes on to do.
Continue(p) ==
    \/ ctor_add(p)
    \/ Begin(p) \/ Resume(p)
    \/ sleep(p) \/ SwitchOut(p)
    \/ (\E w \in Agents : awake(p, w)) \/ WakeDone(p)
    \/ Complete(p) \/ Reply(p) \/ Kill(p) \/ ActivityReturns(p)

GiveBack(p) == yield(p) \/ Finish(p)

PNext == DoStep \/ \E p \in Actors : Choose(p) \/ Continue(p) \/ GiveBack(p)

PSpec == PInit /\ [][PNext]_pvars

\* The host goes on calling pm_sched_do_step; library code runs to its end; and
\* "process must periodically give processor back" (pm_process.h): code that
\* gets the chance to yield or finish again and again does so.
PFairness ==
    /\ WF_pvars(DoStep)
    /\ \A p \in Actors : WF_pvars(Continue(p))
    /\ \A p \in Agents : SF_pvars(GiveBack(p))

FairPSpec == PSpec /\ PFairness

-----------------------------------------------------------------------------
(***************************************************************************)
(* Properties                                                              *)
(***************************************************************************)

PTypeOK ==
    /\ TypeOK
    /\ kind \in [Agents -> Kinds]
    /\ detached \in [Agents -> BOOLEAN]
    /\ completed \in [Agents -> BOOLEAN]
    /\ caller \in [Agents -> Agents \cup {None}]
    /\ wait_queue \in [Sources -> SUBSET Agents]
    /\ items \in [Sets -> 0 .. MaxItems]
    /\ current_process \in Agents \cup {None}
    /\ pc \in [Actors -> {"run", "ctor", "entry", "sleep", "switch", "off", "wake",
                          "complete", "reply", "kill", "return", "gone"}]
    /\ why \in [Actors -> {"none", "spawn", "call", "yield", "wait_for", "select",
                           "get", "put", "finish", "detach"}]
    /\ arg \in [Actors -> Agents \cup {None}]
    /\ on \in [Agents -> SUBSET Sources]
    /\ waking \in SUBSET Agents

\* A process is in the queue of exactly the sources it is waiting for and is
\* alive, so that wake_all never dereferences a process that is gone and never
\* wakes one that has moved on to another wait (pm_wait.h: "one process cannot
\* be on queue twice", "Add here just before going to sleep").
QueuesHoldWaiters ==
    \A p \in Agents :
        /\ on[p] = {s \in Sources : p \in wait_queue[s]}
        /\ on[p] # {} => /\ Activity(p)
                         /\ pc[p] \in {"sleep", "switch", "off"}
                         /\ why[p] \in {"wait_for", "select", "get"}

\* No lost wake-up: a process asleep in select or get has no ready source,
\* except while the wake_all that will wake it is under way.  A member put
\* between the poll and the sleep, or taken between the wake-up and the next
\* quantum, must not leave a sleeper beside a ready source.
NoLostWakeup ==
    \A p \in Agents :
        why[p] \in {"select", "get"} /\ sleeping[p] # None
            => \/ p \in waking
               \/ \A s \in on[p] : ~poll(s)

\* A sleeping call ends only by its own callee: while a callee still knows its
\* caller, that caller is inside the call, asleep or about to be, and no two
\* callees know the same caller.  The callee holds a reference to the result
\* variable on the caller's stack, so a caller that returned early would have
\* its stack overwritten.
CallerStaysInCall ==
    \A q \in Agents : caller[q] # None =>
        /\ why[caller[q]] = "call"
        /\ \/ sleeping[caller[q]] # None /\ pc[caller[q]] \in {"switch", "off"}
           \/ running = caller[q] /\ pc[caller[q]] \in {"ctor", "sleep"}
        /\ \A r \in Agents : caller[r] = caller[q] => r = q

\* A process in get is served or outrun: with a member in the set it does not
\* sleep for ever.
GetServed ==
    \A p \in Agents : \A s \in Sets :
        (why[p] = "get" /\ s \in on[p] /\ items[s] > 0)
            ~> (on[p] = {} \/ items[s] = 0 \/ mode = "aborted")

\* A sleeping call returns once its callee has answered or is gone: no live
\* process is left that will wake the caller.
CallReturns ==
    \A p \in Agents :
        (why[p] = "call" /\ pc[p] = "off" /\ \A q \in Agents : caller[q] = p => ~Activity(q))
            ~> (pc[p] # "off" \/ mode = "aborted")

\* pm_process.h: a completed process is a zombie and "Detach in this situation
\* will kill it".  The destructor removes the agent a second time, which aborts.
ZombieDetachSafe == mode # "aborted"
=============================================================================
