------------------------------ MODULE PmSched ------------------------------
(***************************************************************************)
(* The processor-module scheduler (libpm/pm_sched.cpp) with the part of    *)
(* libsys contexts it drives.                                              *)
(*                                                                         *)
(* Scheduling is cooperative and single threaded.  An agent (an sc-element *)
(* with an activity) sits in one of three FIFO lists; the scheduler pops   *)
(* the front of the list whose turn it is, pushes it back and activates it *)
(* on a stack of its own.  The activation, called a quantum here, ends     *)
(* when the activity returns or switches back.  Next to the C++ lists the  *)
(* scheduler keeps its facts in sc-memory: an arc from the scheduling      *)
(* class to the agent, and a SLEEPING tuple (agent, class) for every       *)
(* sleeping agent.  All these pieces have to agree.                        *)
(*                                                                         *)
(* The caller of an operation is the agent that is running, or, between    *)
(* two quanta, the host program that calls pm_sched_do_step.               *)
(***************************************************************************)
EXTENDS Integers, Sequences

CONSTANTS Agents,    \* elements that may become agents
          Contexts,  \* stacks that context_alloc can return
          None       \* the null pointer

ASSUME NoneAssumption == None \notin Agents /\ None \notin Contexts

Classes == {"kernel", "system", "normal"}

ASSUME NoneIsNoClass == None \notin Classes

VARIABLES
    life,             \* agent -> "unborn", "live" (agent->activity # 0), "dead"
    sched_added,      \* agent -> agent->activity->sched_added
    arcs,             \* class -> agents with an arc from the class
    queue,            \* class -> SUBSCHED_KERNEL, _SYSTEM, _NORMAL
    sleeping,         \* agent -> class stored in its SLEEPING tuple, or None
    turn,             \* the list that was served last
    current,          \* what pm_sched_get_current returns
    running,          \* the agent inside its quantum, or None
    ctx,              \* agent -> agent->activity->ctx
    default_context,  \* the stack for the next fresh activation
    frames,           \* context -> agent whose unfinished call is on it
    quit_flag,
    mode              \* "host", "main" (inside pm_sched_main), "aborted"

schedVars == <<life, sched_added, arcs, queue, sleeping>>
ctxVars   == <<current, running, ctx, default_context, frames>>
vars      == <<schedVars, turn, ctxVars, quit_flag, mode>>

-----------------------------------------------------------------------------
(***************************************************************************)
(* Helpers on the lists and on the facts kept in sc-memory                 *)
(***************************************************************************)

\* The agents in a list.
Members(q) == {q[i] : i \in DOMAIN q}

\* std::list::remove.  An agent is in a list at most once (QueuesConsistent),
\* so that removing its entry removes all of them.
ListRemove(q, a) ==
    IF a \in Members(q)
    THEN LET i == CHOOSE k \in DOMAIN q : q[k] = a
         IN  [j \in 1 .. (Len(q) - 1) |-> IF j < i THEN q[j] ELSE q[j + 1]]
    ELSE q

\* pm_sched_get_sched_class(a) # 0
HasClass(a) == \E c \in Classes : a \in arcs[c]

Activity(a) == life[a] = "live"

\* Operations are called from a quantum, or by the host between two calls of
\* pm_sched_do_step.
Callable == mode = "host" \/ (mode = "main" /\ running # None)

-----------------------------------------------------------------------------
(***************************************************************************)
(* Operations                                                              *)
(***************************************************************************)

\* A new agent: session->reimplement(sign, activity) on a fresh element.  The
\* constructor of sc_activity clears ctx and sched_added.
reimplement(a) ==
    /\ Callable
    /\ life[a] = "unborn"
    /\ life' = [life EXCEPT ![a] = "live"]
    /\ UNCHANGED <<sched_added, arcs, queue, sleeping, turn, ctxVars, quit_flag, mode>>

\* The effect of a pm_sched_add_agent that gets past its tests.
Enqueue(a, c) ==
    /\ arcs' = [arcs EXCEPT ![c] = @ \cup {a}]
    /\ queue' = [queue EXCEPT ![c] = Append(@, a)]
    /\ sched_added' = [sched_added EXCEPT ![a] = TRUE]

\* An addition is an error for an element without activity and for an agent
\* that has a class without being marked as added.
AddFails(a) == ~Activity(a) \/ (~sched_added[a] /\ HasClass(a))

\* A failed addition and a second one change nothing.  No caller adds an agent
\* that is asleep.
pm_sched_add_agent(a, c) ==
    /\ Callable
    /\ life[a] # "dead"
    /\ sleeping[a] = None
    /\ IF AddFails(a) \/ sched_added[a]
       THEN UNCHANGED <<arcs, queue, sched_added>>
       ELSE Enqueue(a, c)
    /\ UNCHANGED <<life, sleeping, turn, ctxVars, quit_flag, mode>>

\* SC_ABORT()
Abort ==
    /\ mode' = "aborted"
    /\ UNCHANGED <<schedVars, turn, ctxVars, quit_flag>>

\* Mutation: sched_remove_agent forgets sub_sched->remove(agent).
DequeueKeepsEntry(a) ==
    /\ queue' = queue
    /\ arcs' = [c \in Classes |-> arcs[c] \ {a}]

\* What sched_remove_agent and the commit of its transaction do: the agent
\* leaves its list and loses its class.  The flag sched_added stays as it is.
Dequeue(a) ==
    /\ queue' = [c \in Classes |-> IF a \in arcs[c]
                                   THEN ListRemove(queue[c], a) ELSE queue[c]]
    /\ arcs' = [c \in Classes |-> arcs[c] \ {a}]

\* An agent that was not added is an error without effect; one whose flag is
\* set and that has no class aborts the program.
pm_sched_remove_agent(a) ==
    /\ Callable
    /\ Activity(a)
    /\ \/ /\ sched_added[a] /\ HasClass(a)
          /\ Dequeue(a)
          /\ UNCHANGED <<life, sched_added, sleeping, turn, ctxVars, quit_flag, mode>>
       \/ /\ sched_added[a] /\ ~HasClass(a)
          /\ Abort
       \/ /\ ~sched_added[a]
          /\ UNCHANGED vars

\* Mutation: the flag survives, as it does in pm_sched_remove_agent.
FallAsleepKeepsFlag(a) ==
    /\ sleeping' = [sleeping EXCEPT ![a] = CHOOSE c \in Classes : a \in arcs[c]]
    /\ UNCHANGED sched_added

\* The SLEEPING tuple remembers the class; the flag is cleared after commit.
FallAsleep(a) ==
    /\ sleeping' = [sleeping EXCEPT ![a] = CHOOSE c \in Classes : a \in arcs[c]]
    /\ sched_added' = [sched_added EXCEPT ![a] = FALSE]

\* sched_remove_agent, then the tuple.
pm_sched_put_to_sleep(a) ==
    /\ Callable
    /\ Activity(a)
    /\ \/ /\ sched_added[a] /\ HasClass(a)
          /\ Dequeue(a)
          /\ FallAsleep(a)
          /\ UNCHANGED <<life, turn, ctxVars, quit_flag, mode>>
       \/ /\ sched_added[a] /\ ~HasClass(a)
          /\ Abort
       \/ /\ ~sched_added[a]
          /\ UNCHANGED vars

\* Mutation: every agent is woken into the normal list.
WokenClassIsNormal(a) == "normal"

\* The class in the SLEEPING tuple (attribute N2_).
WokenClass(a) == sleeping[a]

\* An agent that does not sleep is an error without effect (no wake-up hook
\* is ever set).  Otherwise it is added to the class its tuple remembers, and
\* the tuple is erased unless that has failed.
pm_sched_wakeup(a) ==
    /\ Callable
    /\ life[a] # "dead"
    /\ IF sleeping[a] # None /\ ~AddFails(a)
       THEN /\ IF sched_added[a]
               THEN UNCHANGED <<arcs, queue, sched_added>>
               ELSE Enqueue(a, WokenClass(a))
            /\ sleeping' = [sleeping EXCEPT ![a] = None]
       ELSE UNCHANGED <<arcs, queue, sched_added, sleeping>>
    /\ UNCHANGED <<life, turn, ctxVars, quit_flag, mode>>

\* The owner of an agent destroys it: pm_sched_remove_agent, then
\* reimplement(sign, 0) and erase_el(sign), which also erases the arc of a
\* SLEEPING tuple to the agent.
Destroy(a) ==
    /\ Callable
    /\ Activity(a)
    /\ \/ /\ sched_added[a] /\ ~HasClass(a)
          /\ Abort
       \/ /\ ~(sched_added[a] /\ ~HasClass(a))
          /\ IF sched_added[a] THEN Dequeue(a) ELSE UNCHANGED <<queue, arcs>>
          /\ life' = [life EXCEPT ![a] = "dead"]
          /\ sched_added' = [sched_added EXCEPT ![a] = FALSE]
          /\ sleeping' = [sleeping EXCEPT ![a] = None]
          /\ UNCHANGED <<turn, ctxVars, quit_flag, mode>>

\* pm_sched_quit, and the handler of SIGINT and SIGTERM at any moment.
pm_sched_quit ==
    /\ mode # "aborted"
    /\ quit_flag' = TRUE
    /\ UNCHANGED <<schedVars, turn, ctxVars, mode>>

-----------------------------------------------------------------------------
(***************************************************************************)
(* The scheduler loop and the quanta                                       *)
(***************************************************************************)

get_next_turn(t) == CASE t = "kernel" -> "system"
                      [] t = "system" -> "normal"
                      [] t = "normal" -> "kernel"

\* activate_agent up to the moment the agent's code runs: its own stack if it
\* was switched out before, else a fresh call on default_context.
activate_agent(a) ==
    /\ current' = a
    /\ running' = a
    /\ frames' = IF ctx[a] = None THEN [frames EXCEPT ![default_context] = a] ELSE frames
    /\ UNCHANGED <<ctx, default_context>>

\* Mutation: the agent goes back to the front of its list.
RunFrontAgain(c) ==
    /\ queue[c] # <<>>
    /\ queue' = queue
    /\ turn' = c
    /\ activate_agent(Head(queue[c]))

\* sched_queue_get and push_back, then the activation.
RunFront(c) ==
    /\ queue[c] # <<>>
    /\ queue' = [queue EXCEPT ![c] = Append(Tail(@), Head(@))]
    /\ turn' = c
    /\ activate_agent(Head(queue[c]))

Idle == running = None

\* Mutation: the loop ends only when nothing at all is queued.
LoopEndsWhenAllEmpty(c) == quit_flag /\ \A d \in Classes : queue[d] = <<>>

\* The test of quit_flag, made in the turn of the normal list only.
LoopEnds(c) == c = "normal" /\ quit_flag

\* One iteration of the loop of pm_sched_main.  The loop ends only when the
\* turn of the normal list comes, the list is empty and quit_flag is set.
pm_sched_main_step ==
    /\ mode = "main" /\ Idle
    /\ LET c == get_next_turn(turn) IN
         \/ RunFront(c) /\ mode' = mode
         \/ /\ queue[c] = <<>>
            /\ turn' = c
            /\ mode' = IF LoopEnds(c) THEN "host" ELSE mode
            /\ UNCHANGED <<queue, ctxVars>>
    /\ UNCHANGED <<life, sched_added, arcs, sleeping, quit_flag>>

\* The list that pm_sched_do_step serves: the first one that is not empty.
NextBusy ==
    LET t1 == get_next_turn(turn)
        t2 == get_next_turn(t1)
    IN  IF queue[t1] # <<>> THEN t1 ELSE IF queue[t2] # <<>> THEN t2 ELSE turn

\* pm_sched_do_step up to the quantum.  With all lists empty, or once
\* quit_flag is set, it returns false and nothing has changed.
pm_sched_do_step ==
    /\ mode = "host" /\ Idle
    /\ ~quit_flag
    /\ RunFront(NextBusy)
    /\ UNCHANGED <<life, sched_added, arcs, sleeping, quit_flag, mode>>

\* The host enters the loop (pmc in service mode).
StartMain ==
    /\ mode = "host" /\ Idle
    /\ mode' = "main"
    /\ UNCHANGED <<schedVars, turn, ctxVars, quit_flag>>

\* The quantum ends because the activity returns.  A recalled stack is freed.
\* After a fresh call an error makes the loop drop the agent from the list
\* (turn->remove): the class arc and sched_added stay.  The result of a
\* recalled activity is ignored.
Return(a, ok) ==
    /\ mode # "aborted"
    /\ running = a
    /\ running' = None
    /\ current' = IF ctx[a] = None THEN None ELSE current
    /\ ctx' = [ctx EXCEPT ![a] = None]
    /\ frames' = [frames EXCEPT ![IF ctx[a] = None THEN default_context ELSE ctx[a]] = None]
    /\ queue' = IF ctx[a] = None /\ ~ok
                THEN [queue EXCEPT ![turn] = ListRemove(@, a)] ELSE queue
    /\ UNCHANGED <<life, sched_added, arcs, sleeping, turn, default_context, quit_flag, mode>>

\* Mutation: no new default context is allocated.
ContextAllocForgotten == default_context' = default_context

\* A stack that holds no unfinished call.
context_alloc ==
    \E c \in Contexts :
        /\ c # default_context /\ frames[c] = None
        /\ default_context' = c

\* The quantum ends in context_switchback.  After a fresh call the agent keeps
\* the stack it ran on and context_alloc provides a new default.
context_switchback(a) ==
    /\ mode # "aborted"
    /\ running = a
    /\ Activity(a)
    /\ running' = None
    /\ IF ctx[a] = None
       THEN /\ ctx' = [ctx EXCEPT ![a] = default_context]
            /\ context_alloc
       ELSE UNCHANGED <<ctx, default_context>>
    /\ UNCHANGED <<schedVars, turn, current, frames, quit_flag, mode>>

-----------------------------------------------------------------------------
Init ==
    /\ life = [a \in Agents |-> "unborn"]
    /\ sched_added = [a \in Agents |-> FALSE]
    /\ arcs = [c \in Classes |-> {}]
    /\ queue = [c \in Classes |-> <<>>]
    /\ sleeping = [a \in Agents |-> None]
    /\ turn = "normal"
    /\ current = None
    /\ running = None
    /\ ctx = [a \in Agents |-> None]
    /\ default_context \in Contexts
    /\ frames = [c \in Contexts |-> None]
    /\ quit_flag = FALSE
    /\ mode = "host"

Operation(a) ==
    \/ reimplement(a)
    \/ \E c \in Classes : pm_sched_add_agent(a, c)
    \/ pm_sched_remove_agent(a)
    \/ pm_sched_put_to_sleep(a)
    \/ pm_sched_wakeup(a)
    \/ Destroy(a)

EndQuantum(a) == context_switchback(a) \/ \E ok \in BOOLEAN : Return(a, ok)

Schedule == pm_sched_main_step \/ pm_sched_do_step

Next ==
    \/ \E a \in Agents : Operation(a)
    \/ pm_sched_quit
    \/ Schedule
    \/ StartMain
    \/ \E a \in Agents : EndQuantum(a)

Spec == Init /\ [][Next]_vars

\* The loop goes round, a host that uses pm_sched_do_step keeps calling it
\* (pmc and run_package do so in a while loop), and every activity gives the
\* processor back (pm_process.h: "process must periodically give processor
\* back by calling yield()").
Fairness ==
    /\ WF_vars(Schedule)
    /\ \A a \in Agents : WF_vars(EndQuantum(a))

FairSpec == Spec /\ Fairness

-----------------------------------------------------------------------------
(***************************************************************************)
(* Properties                                                              *)
(***************************************************************************)

TypeOK ==
    /\ life \in [Agents -> {"unborn", "live", "dead"}]
    /\ sched_added \in [Agents -> BOOLEAN]
    /\ arcs \in [Classes -> SUBSET Agents]
    /\ queue \in [Classes -> Seq(Agents)]
    /\ sleeping \in [Agents -> Classes \cup {None}]
    /\ turn \in Classes
    /\ current \in Agents \cup {None}
    /\ running \in Agents \cup {None}
    /\ ctx \in [Agents -> Contexts \cup {None}]
    /\ default_context \in Contexts
    /\ frames \in [Contexts -> Agents \cup {None}]
    /\ quit_flag \in BOOLEAN
    /\ mode \in {"host", "main", "aborted"}

\* No list holds an agent twice.
NoDuplicates ==
    \A c \in Classes : \A i, j \in DOMAIN queue[c] :
        queue[c][i] = queue[c][j] => i = j

\* The C++ lists never run ahead of the facts in sc-memory: a queued agent has
\* an arc from exactly the class of its list, so it is in no second list, it
\* is in its list once, it has an activity that is marked as added.  A failed
\* activation, a removal or a wake-up that leaves a stale entry would let the
\* scheduler activate freed memory.
QueuesConsistent ==
    /\ NoDuplicates
    /\ \A c \in Classes : Members(queue[c]) \subseteq arcs[c]
    /\ \A c, d \in Classes : c # d => arcs[c] \cap arcs[d] = {}
    /\ \A c \in Classes : \A a \in arcs[c] : sched_added[a] /\ Activity(a)

\* An agent with a SLEEPING tuple has no class, is not queued and is not marked
\* as added, however sleeps and wake-ups by several callers interleave: so the
\* wake-up's call of pm_sched_add_agent always succeeds and restores the class.
SleepersOffQueue ==
    \A a \in Agents : sleeping[a] # None =>
        /\ ~HasClass(a)
        /\ ~sched_added[a]
        /\ Activity(a)
        /\ \A c \in Classes : a \notin Members(queue[c])

\* No two unfinished activations share a stack: the context that activate_agent
\* will recall for an agent holds that agent's frames, and the default context
\* given to the next fresh activation holds no suspended frames.
StacksNotShared ==
    /\ \A a \in Agents : ctx[a] # None => frames[ctx[a]] = a
    /\ \A a \in Agents : ctx[a] # default_context
    /\ frames[default_context] # None =>
         frames[default_context] = running /\ ctx[running] = None

\* A wake-up puts the agent back into the list it was taken from when it was
\* put to sleep ("Restore scheduling class of agent", pm_sched.h), at its end,
\* and no step but a wake-up or the agent's death ends a sleep.
WakeupRestoresClass ==
    [][\A a \in Agents :
         sleeping[a] # None /\ sleeping'[a] # sleeping[a] =>
             \/ life'[a] = "dead"
             \/ /\ queue'[sleeping[a]] = Append(queue[sleeping[a]], a)
                /\ sleeping'[a] = None]_vars

\* No starvation: the round robin over the lists and the rotation within a list
\* run every queued agent, however the others come and go.
QueuedAgentsRun ==
    \A a \in Agents : \A c \in Classes :
        a \in Members(queue[c]) ~>
            (running = a \/ a \notin Members(queue[c]) \/ quit_flag \/ mode = "aborted")

\* A quit request ends pm_sched_main once the normal list stays empty, even
\* with kernel and system agents still queued: the loop tests quit_flag in the
\* turn of the normal list only.
QuitEndsMain ==
    [](quit_flag /\ [](queue["normal"] = <<>>) => <>(mode # "main"))

=============================================================================
