---------------------------- MODULE ScpProcesses ----------------------------
(***************************************************************************)
(* Processes of the SCP interpreter (libpm/scp/scp_core.cpp), the          *)
(* operators that concern other processes (control_ops.cpp), the PRE       *)
(* handlers that suspend a process in the middle of an operator            *)
(* (event_ops.cpp) and the commands of the debugger (scp_debugger.cpp).    *)
(*                                                                         *)
(* A process is asleep for several reasons, and each has somebody else to  *)
(* wake it: a father that waits is woken by the hook its son's death       *)
(* activates, a process whose operator has raised an event by the death of *)
(* the handler, one that waits for an event by the event, a suspended one  *)
(* by the debugger.  Nobody wakes a halted process, one whose handler      *)
(* could not be started, and one that waits for a process that is no son   *)
(* of its own.  What the interpreter believes (PROCESS_STATE_SLEEP) and    *)
(* what the scheduler does (SLEEPING) are two pieces of state.             *)
(*                                                                         *)
(* All processes are agents of one scheduling class.  A turn takes the     *)
(* first agent of the list, puts it to the end and runs it up to the end   *)
(* of scp_process_activity::activate or to a context_switchback inside.    *)
(***************************************************************************)
EXTENDS Naturals, Sequences, FiniteSets, SequencesExt

CONSTANTS Procs,      \* signs of scp-processes; each is created at most once
          None,       \* no process
          ALL_CHILDS, \* what waitReturn without operand waits for
          Operators,  \* operators that the programs are made of
          MaxWaits,   \* bound on the WAITING_FOR_ arcs of a process
          Commands,   \* commands the debugger is given
          MaxCommands \* bound on their number

ASSUME NoneIsNoProc == None \notin Procs
ASSUME AllIsNoProc == ALL_CHILDS \notin Procs /\ ALL_CHILDS # None
ASSUME BoundsAreNat == MaxWaits \in Nat /\ MaxCommands \in Nat
ASSUME OperatorsKnown == Operators \subseteq
    {"nop", "callReturn", "call", "waitReturn", "halt", "return", "event", "sys_wait", "error"}
ASSUME CommandsKnown == Commands \subseteq {"suspend", "resume", "terminate"}

VARIABLES
    life,     \* process -> whether its sign is in sc-memory
    father,   \* process -> its FATHER_; None also for a fictive father
    waiting,  \* process -> ends of its WAITING_FOR_ arcs, the oldest first
    dead,     \* processes in PROCESS_STATE_DEAD
    sleeping, \* processes in PROCESS_STATE_SLEEP
    asleep,   \* processes that the scheduler has in SLEEPING
    queue,    \* the scheduler's list
    at,       \* process -> where its activation goes on
    callee,   \* process -> the handler that its unfinished operator waits for
    towake,   \* handler -> the process that its death has to wake
    answered, \* handlers that have returned a value
    awaiting, \* processes with a wait of sys_wait
    suspended, wasSleeping, forTerminate, \* the debugger's sets
    traced, stepTracing,                  \* flags of scp_process_activity
    given,    \* number of the debugger's commands so far
    terminated, \* history: processes that terminate was given for
    unfounded,  \* history: processes whose last wait was for no son of theirs
    crash     \* None, or how the program has ended

kinship == <<life, father, waiting, unfounded>>
handlers == <<callee, towake, answered, awaiting>>
debugger == <<suspended, wasSleeping, traced, stepTracing, given, terminated>>
vars == <<life, father, waiting, dead, sleeping, asleep, queue, at, callee,
          towake, answered, awaiting, suspended, wasSleeping, forTerminate,
          traced, stepTracing, given, terminated, unfounded, crash>>

\* SC_ABORT in child_death_hook, SC_ABORT in wakeup_activity, use of an erased
\* arc or of a stack frame that is gone.
Crashes == {"hook", "value", "freed"}

ASSUME NoneIsNoCrash == None \notin Crashes

live == {p \in Procs : life[p] = "live"}
unborn == {p \in Procs : life[p] = "unborn"}
sons(f) == {q \in live : father[q] = f}

\* A list without p: of its places that are kept, the k-th one is in place k.
Drop(q, p) ==
    LET kept == {i \in DOMAIN q : q[i] # p}
        nth(k) == CHOOSE i \in kept : Cardinality({j \in kept : j <= i}) = k
    IN [k \in 1..Cardinality(kept) |-> q[nth(k)]]

Rotated == Append(Tail(queue), Head(queue))

-----------------------------------------------------------------------------
(* The end of an activation.  The operator of p has ended with "next" (the *)
(* process goes on), "repeat" (PROCESS_STATE_REPEAT) or "dead" (return,    *)
(* failure without error_ branch, no operator to go on with).  q and a are *)
(* the scheduler's list and sleepers as the operator has left them, s is   *)
(* the processes in PROCESS_STATE_SLEEP.                                   *)

StepEvents(p) == p \in traced \cap stepTracing

\* catch_step_after_event kills a process that the debugger has terminated.
KilledAfter(p, outcome) ==
    outcome # "repeat" /\ StepEvents(p) /\ p \in forTerminate

EndActivation(p, outcome, q, a, s) ==
    LET killed == KilledAfter(p, outcome)
        dies == outcome = "dead" \/ killed
        sleeps == ~dies /\ p \in s /\ p \notin a
    IN /\ dead' = IF dies THEN dead \cup {p} ELSE dead
       /\ forTerminate' = IF killed THEN forTerminate \ {p} ELSE forTerminate
       /\ sleeping' = s
       /\ asleep' = IF sleeps THEN a \cup {p} ELSE a
       /\ queue' = IF sleeps THEN Drop(q, p) ELSE q
       /\ at' = [at EXCEPT ![p] = "start"]
       /\ UNCHANGED <<debugger, crash>>

\* The event an operator has raised is over when the operator goes on.
EventOver(p) == callee' = [callee EXCEPT ![p] = None]

\* context_switchback in the middle of p's operator, with p asleep and the
\* processes of new added to the list.
SwitchInOperator(p, new) ==
    /\ asleep' = asleep \cup {p}
    /\ queue' = Tail(queue) \o new
    /\ at' = [at EXCEPT ![p] = "rest"]
    /\ UNCHANGED <<dead, sleeping, debugger, forTerminate, crash>>

-----------------------------------------------------------------------------
(* The operators.  "Choice of outcome": the process goes on, or dies.      *)

Outcomes == {"next", "dead"}

\* An operator that concerns no other process, and the rest of one that was
\* switched out.  A called program's return is one of them.
nop(p) ==
    /\ \E o \in Outcomes : EndActivation(p, o, Rotated, asleep, sleeping)
    /\ EventOver(p)
    /\ UNCHANGED <<kinship, towake, answered, awaiting>>

\* A program is called in the same process and its first operator is next.
callReturn(p) ==
    /\ EndActivation(p, "repeat", Rotated, asleep, sleeping)
    /\ UNCHANGED <<kinship, handlers>>

\* An operator fails and has an error_ branch.  The arc to the active operator
\* is erased for the branch, and erased again on the way to then_ or goto_; a
\* process whose operator has neither dies.
error_branch(p) ==
    \/ /\ crash' = "freed"
       /\ UNCHANGED <<kinship, dead, sleeping, asleep, queue, at, handlers,
                      debugger, forTerminate>>
    \/ /\ EndActivation(p, "dead", Rotated, asleep, sleeping)
       /\ EventOver(p)
       /\ UNCHANGED <<kinship, towake, answered, awaiting>>

\* A son q is born with its father (call), or for a POST event with a fictive
\* father that nobody waits through.
call(p, q, f) ==
    /\ q \in unborn
    /\ life' = [life EXCEPT ![q] = "live"]
    /\ father' = [father EXCEPT ![q] = f]
    /\ \E o \in Outcomes :
         EndActivation(p, o, Append(Rotated, q), asleep, sleeping)
    /\ UNCHANGED <<waiting, unfounded, handlers>>

\* A wait that the death of a son of f can end: for w, or for all sons.
Founded(f, w) == w \in sons(f) \/ (w = ALL_CHILDS /\ sons(f) # {})

\* The arc WAITING_FOR_ from p to w, and PROCESS_STATE_SLEEP.
SleepOn(p, w) ==
    /\ Len(waiting[p]) < MaxWaits
    /\ waiting' = [waiting EXCEPT ![p] = Append(@, w)]
    /\ \E o \in Outcomes :
         EndActivation(p, o, Rotated, asleep, sleeping \cup {p})

\* Mutation: an erased son is waited for like a living one.
waitReturn_unchecked(p, w) ==
    /\ w \in live \cup {ALL_CHILDS} \/ (w \in Procs /\ life[w] = "erased")
    /\ SleepOn(p, w)
    /\ unfounded' = IF Founded(p, w) \/ w \notin live \cup {ALL_CHILDS}
                    THEN unfounded \ {p} ELSE unfounded \cup {p}
    /\ UNCHANGED <<life, father, handlers>>

\* scp_sleep_on_child takes whatever node is in the descriptor, a son of p or
\* not; it does not wait when the node has been erased.
waitReturn(p, w) ==
    /\ \/ /\ w \in live \cup {ALL_CHILDS}
          /\ SleepOn(p, w)
          /\ unfounded' = IF Founded(p, w) THEN unfounded \ {p} ELSE unfounded \cup {p}
       \/ /\ w \in Procs /\ life[w] = "erased"
          /\ \E o \in Outcomes :
               EndActivation(p, o, Rotated, asleep, sleeping)
          /\ UNCHANGED <<waiting, unfounded>>
    /\ UNCHANGED <<life, father, handlers>>

halt(p) ==
    /\ \E o \in Outcomes :
         EndActivation(p, o, Tail(queue), asleep \cup {p}, sleeping)
    /\ UNCHANGED <<kinship, handlers>>

\* Return from the last context: values go up to the father, the process dies
\* in its next turn.  A handler may have left its output without a value.
return(p) ==
    /\ answered' \in {answered} \cup
         (IF towake[p] # None THEN {answered \cup {p}} ELSE {})
    /\ EndActivation(p, "dead", Rotated, asleep, sleeping)
    /\ UNCHANGED <<kinship, callee, towake, awaiting>>

\* The operator raises an event with a PRE handler: pre_ev_handler::activate
\* starts an orphaned process for it and suspends p where it is.
raise_pre_event(p, q) ==
    /\ q \in unborn
    /\ life' = [life EXCEPT ![q] = "live"]
    /\ callee' = [callee EXCEPT ![p] = q]
    /\ towake' = [towake EXCEPT ![q] = p]
    /\ SwitchInOperator(p, <<q>>)
    /\ UNCHANGED <<father, waiting, unfounded, answered, awaiting>>

\* The handler cannot be started ("Event skiped"): p is suspended all the same.
pre_event_fails(p) ==
    /\ SwitchInOperator(p, <<>>)
    /\ EventOver(p)
    /\ UNCHANGED <<kinship, towake, answered, awaiting>>

\* The process sleeps until an event of sc-memory (sleep_until_event_wait).
sys_wait(p) ==
    /\ awaiting' = awaiting \cup {p}
    /\ SwitchInOperator(p, <<>>)
    /\ UNCHANGED <<kinship, callee, towake, answered>>

\* An event with a PRE handler.
RaisesEvent(p) ==
    /\ "event" \in Operators
    /\ (\E q \in Procs : raise_pre_event(p, q)) \/ pre_event_fails(p)

Operator(p) ==
    \/ "nop" \in Operators /\ nop(p)
    \/ "callReturn" \in Operators /\ callReturn(p)
    \/ "call" \in Operators /\ \E q \in Procs, f \in {p, None} : call(p, q, f)
    \/ "waitReturn" \in Operators /\ \E w \in Procs \cup {ALL_CHILDS} : waitReturn(p, w)
    \/ "halt" \in Operators /\ halt(p)
    \/ "return" \in Operators /\ return(p)
    \/ "sys_wait" \in Operators /\ sys_wait(p)
    \/ "error" \in Operators /\ error_branch(p)
    \/ RaisesEvent(p)

\* An operator that was switched out goes on: it may raise another event.
RestOfOperator(p) ==
    \/ nop(p)
    \/ "error" \in Operators /\ error_branch(p)
    \/ RaisesEvent(p)

-----------------------------------------------------------------------------
(* The death of a process.                                                 *)

\* Mutation: a father is woken by its last son only.
HookWakesLast(f, son) ==
    /\ f \in sleeping
    /\ waiting[f] # <<>>
    /\ Head(waiting[f]) \in {ALL_CHILDS, son} /\ Cardinality(sons(f)) < 2

\* child_death_hook of the father: it looks at its oldest WAITING_FOR_ arc.
HookWakes(f, son) ==
    /\ f \in sleeping
    /\ waiting[f] # <<>>
    /\ \/ Head(waiting[f]) = ALL_CHILDS /\ Cardinality(sons(f)) < 2
       \/ Head(waiting[f]) = son

FatherToWake(p) == {f \in Procs : father[p] = f /\ HookWakes(f, p)}

\* wakeup_activity, the hook of a handler's fictive father, reads the handler's
\* answer and writes the result into the frame of the process that waits.
HandlerFails(p) ==
    towake[p] # None /\ (p \notin answered \/ callee[towake[p]] # p)

finalize_fails(p) ==
    /\ \/ ~(FatherToWake(p) \subseteq asleep) /\ crash' = "hook"
       \/ HandlerFails(p) /\ crash' = IF p \in answered THEN "freed" ELSE "value"
    /\ UNCHANGED <<kinship, dead, sleeping, asleep, queue, at, handlers,
                   debugger, forTerminate>>

\* The hook of the father and the erasure of the process, which leave s in
\* PROCESS_STATE_SLEEP and q in the list, before the ones that are woken.
Finalize(p, s, q) ==
    LET woken == FatherToWake(p) \cup ({towake[p]} \cap asleep)
    IN /\ FatherToWake(p) \subseteq asleep /\ ~HandlerFails(p)
       /\ life' = [life EXCEPT ![p] = "erased"]
       /\ father' = [r \in Procs |-> IF p \in {r, father[r]} THEN None ELSE father[r]]
       /\ waiting' = [r \in Procs |-> IF r = p THEN <<>> ELSE Drop(waiting[r], p)]
       /\ sleeping' = s
       /\ asleep' = asleep \ woken
       /\ queue' = q \o SetToSeq(woken)
       /\ towake' = [towake EXCEPT ![p] = None]
       /\ dead' = dead \ {p}
       /\ answered' = answered \ {p} /\ awaiting' = awaiting \ {p}
       /\ unfounded' = unfounded \ {p}
       /\ suspended' = suspended \ {p} /\ wasSleeping' = wasSleeping \ {p}
       /\ forTerminate' = forTerminate \ {p}
       /\ traced' = traced \ {p} /\ stepTracing' = stepTracing \ {p}
       /\ UNCHANGED <<at, callee, given, terminated, crash>>

finalize_process(p) == Finalize(p, sleeping \ (FatherToWake(p) \cup {p}), Tail(queue))

-----------------------------------------------------------------------------
(* The debugger stops a process before an operator.                        *)

\* A process in catch_step_before_event: at its begin, or after a switch back
\* of the loop that keeps a suspended process from running.
BeforeStep(p) ==
    \/ at[p] = "loop"
    \/ at[p] = "start" /\ p \notin dead /\ StepEvents(p)

stay_suspended(p) ==
    /\ BeforeStep(p) /\ p \in suspended
    /\ asleep' = asleep \cup {p}
    /\ queue' = Tail(queue)
    /\ at' = [at EXCEPT ![p] = "loop"]
    /\ UNCHANGED <<kinship, dead, sleeping, handlers, debugger, forTerminate, crash>>

stop_before_step(p) ==
    /\ BeforeStep(p) /\ p \notin suspended /\ p \notin forTerminate
    /\ suspended' = suspended \cup {p}
    /\ traced' = traced \cup {p}
    /\ stepTracing' = stepTracing \ {p}
    /\ asleep' = asleep \cup {p}
    /\ queue' = Tail(queue)
    /\ at' = [at EXCEPT ![p] = "op"]
    /\ UNCHANGED <<kinship, dead, sleeping, handlers, wasSleeping, forTerminate, given,
                   terminated, crash>>

\* Mutation: PROCESS_STATE_DEAD is not tested before the operator.
RunsOperatorDead(p) ==
    \/ at[p] \in {"op", "start"} /\ ~StepEvents(p)
    \/ BeforeStep(p) /\ p \notin suspended /\ p \in forTerminate

RunsOperator(p) ==
    \/ at[p] = "op"
    \/ at[p] = "start" /\ p \notin dead /\ ~StepEvents(p)
    \/ BeforeStep(p) /\ p \notin suspended /\ p \in forTerminate

Turn ==
    /\ crash = None /\ queue # <<>>
    /\ LET p == Head(queue)
       IN \/ stay_suspended(p)
          \/ stop_before_step(p)
          \/ RunsOperator(p) /\ Operator(p)
          \/ at[p] = "rest" /\ RestOfOperator(p)
          \/ at[p] = "start" /\ p \in dead /\ (finalize_process(p) \/ finalize_fails(p))

-----------------------------------------------------------------------------
(* What happens between two turns: the host starts a program, and the      *)
(* debugger carries out its commands.                                      *)

\* scp_package_run_program suspends the process when there is a debugger.
run_program(q) ==
    /\ crash = None /\ q \in unborn
    /\ life' = [life EXCEPT ![q] = "live"]
    /\ IF Commands = {}
       THEN queue' = Append(queue, q) /\ UNCHANGED <<asleep, suspended, traced>>
       ELSE /\ asleep' = asleep \cup {q}
            /\ suspended' = suspended \cup {q} /\ traced' = traced \cup {q}
            /\ UNCHANGED queue
    /\ UNCHANGED <<father, waiting, unfounded, dead, sleeping, at, handlers,
                   wasSleeping, forTerminate, stepTracing, given, terminated, crash>>

\* scp_spawn_process with parameters: an orphaned process runs at once.
scp_spawn_process(q) ==
    /\ crash = None /\ q \in unborn
    /\ life' = [life EXCEPT ![q] = "live"]
    /\ queue' = Append(queue, q)
    /\ UNCHANGED <<father, waiting, unfounded, dead, sleeping, asleep, at, handlers,
                   debugger, forTerminate, crash>>

\* The debugger is given command c.
Command(c) ==
    /\ c \in Commands /\ crash = None
    /\ given < MaxCommands /\ given' = given + 1

suspend_one(p) ==
    /\ Command("suspend")
    /\ p \in live \ suspended
    /\ suspended' = suspended \cup {p}
    /\ traced' = traced \cup {p}
    /\ IF p \in asleep
       THEN /\ stepTracing' = stepTracing \cup {p}
            /\ wasSleeping' = wasSleeping \cup {p}
            /\ UNCHANGED <<asleep, queue>>
       ELSE /\ stepTracing' = stepTracing \ {p}
            /\ asleep' = asleep \cup {p} /\ queue' = Drop(queue, p)
            /\ UNCHANGED wasSleeping
    /\ UNCHANGED <<kinship, dead, sleeping, at, handlers, forTerminate, terminated, crash>>

\* Mutation: a process that is not asleep is added to the list as well.
pm_sched_wakeup_anyway(p) ==
    /\ asleep' = asleep \ {p}
    /\ queue' = Append(queue, p)

pm_sched_wakeup(p) ==
    /\ asleep' = asleep \ {p}
    /\ queue' = IF p \in asleep THEN Append(queue, p) ELSE queue

\* Mutation: a process that was sleeping is woken, too.
resume_one_wakes(p) ==
    /\ Command("resume")
    /\ p \in suspended
    /\ suspended' = suspended \ {p}
    /\ wasSleeping' = wasSleeping \ {p}
    /\ stepTracing' = stepTracing \ {p}
    /\ pm_sched_wakeup(p)
    /\ UNCHANGED <<kinship, dead, sleeping, at, handlers, traced, forTerminate,
                   terminated, crash>>

resume_one(p) ==
    /\ Command("resume")
    /\ p \in suspended
    /\ suspended' = suspended \ {p}
    /\ wasSleeping' = wasSleeping \ {p}
    /\ stepTracing' = stepTracing \ {p}
    /\ IF p \in wasSleeping THEN UNCHANGED <<asleep, queue>> ELSE pm_sched_wakeup(p)
    /\ UNCHANGED <<kinship, dead, sleeping, at, handlers, traced, forTerminate,
                   terminated, crash>>

\* The event that a wait of sys_wait is for, raised by another process in its
\* turn or by the host.
event(p) ==
    /\ crash = None /\ p \in awaiting
    /\ pm_sched_wakeup(p)
    /\ awaiting' = awaiting \ {p}
    /\ UNCHANGED <<kinship, dead, sleeping, at, callee, towake, answered, debugger,
                   forTerminate, crash>>

terminate_one(p) ==
    /\ Command("terminate")
    /\ p \in live
    /\ pm_sched_wakeup(p)
    /\ stepTracing' = stepTracing \cup {p}
    /\ forTerminate' = forTerminate \cup {p}
    /\ terminated' = terminated \cup {p}
    /\ UNCHANGED <<kinship, dead, sleeping, at, handlers, suspended, wasSleeping,
                   traced, crash>>

-----------------------------------------------------------------------------
Init ==
    /\ life = [p \in Procs |-> "unborn"]
    /\ father = [p \in Procs |-> None]
    /\ waiting = [p \in Procs |-> <<>>]
    /\ queue = <<>>
    /\ at = [p \in Procs |-> "start"]
    /\ callee = [p \in Procs |-> None] /\ towake = [p \in Procs |-> None]
    /\ dead = {} /\ sleeping = {} /\ asleep = {} /\ answered = {} /\ awaiting = {}
    /\ suspended = {} /\ wasSleeping = {} /\ forTerminate = {}
    /\ traced = {} /\ stepTracing = {} /\ given = 0 /\ terminated = {}
    /\ unfounded = {} /\ crash = None

Next ==
    \/ Turn
    \/ \E p \in Procs : run_program(p) \/ scp_spawn_process(p) \/ event(p)
    \/ \E p \in Procs : suspend_one(p) \/ resume_one(p) \/ terminate_one(p)

Spec == Init /\ [][Next]_vars

\* The scheduler's loop goes round.
FairSpec == Spec /\ WF_vars(Turn)

-----------------------------------------------------------------------------
\* Types.
TypeOK ==
    /\ life \in [Procs -> {"unborn", "live", "erased"}]
    /\ father \in [Procs -> Procs \cup {None}]
    /\ \A p \in Procs : /\ ToSet(waiting[p]) \subseteq Procs \cup {ALL_CHILDS}
                       /\ Len(waiting[p]) <= MaxWaits
    /\ at \in [Procs -> {"start", "op", "rest", "loop"}]
    /\ callee \in [Procs -> Procs \cup {None}]
    /\ towake \in [Procs -> Procs \cup {None}]
    /\ ToSet(queue) \subseteq live
    /\ dead \cup sleeping \cup asleep \subseteq live
    /\ suspended \cup forTerminate \cup traced \cup stepTracing \subseteq live
    /\ wasSleeping \subseteq suspended
    /\ answered \cup awaiting \cup unfounded \subseteq live
    /\ given \in 0..MaxCommands /\ terminated \subseteq Procs
    /\ crash \in Crashes \cup {None}

\* Every process that is not erased is scheduled exactly once: it is once in
\* the list or asleep.  put_to_sleep, wake-ups by hooks and by the debugger and
\* the removal in finalize_process each change a different part of this.
OnceScheduled ==
    /\ TypeOK
    /\ crash = None =>
        /\ IsInjective(queue)
        /\ ToSet(queue) \cap asleep = {}
        /\ ToSet(queue) \cup asleep = live

\* What a father waits for, as its hook reads it.
OldestWait(f) == IF waiting[f] = <<>> THEN None ELSE Head(waiting[f])

\* A father that has gone to sleep for a son of its own, or for all of the sons
\* it had, has a son whose death its hook will take for the one waited for:
\* neither the check of scp_sleep_on_child, nor the order of hook and erasure
\* in finalize_process, nor an arc of an earlier wait for all loses the wake-up.
SleeperHasWaker ==
    \A f \in sleeping \ (dead \cup terminated \cup unfounded) :
        Founded(f, OldestWait(f))

\* What the death hooks rely on.  A father in PROCESS_STATE_SLEEP is asleep in
\* the scheduler, but for one that dies or that the debugger has woken to
\* terminate it.  A process whose frame a handler's hook writes to is suspended
\* in that frame, for this handler.
HooksFindAsleep ==
    crash = None =>
        /\ sleeping \ (dead \cup terminated) \subseteq asleep
        /\ \A q \in live :
             LET p == towake[q] IN
             p \notin terminated \cup {None} => callee[p] = q /\ p \in asleep

\* scp_core.h: "States dead & error will kill process on second step", unless
\* the debugger suspends it before.
DeadIsErased ==
    \A p \in Procs :
        p \in dead \ asleep ~> p \notin dead \/ p \in suspended \/ crash # None

\* The son whose death f waits for, or the last of all of them.
AwaitedSon(f) ==
    {s \in sons(f) : OldestWait(f) = s \/ (OldestWait(f) = ALL_CHILDS /\ sons(f) = {s})}

\* The scheduler runs f next.
TurnOf(f) == queue # <<>> /\ Head(queue) = f

\* The death of the son that a father waits for, or of the last of its sons,
\* makes the father run again: its turn comes, unless the debugger suspends the
\* father or the dying son meanwhile.
FatherGoesOn ==
    \A f \in Procs :
        f \in sleeping /\ AwaitedSon(f) \cap (dead \ asleep) # {}
            ~> \/ TurnOf(f)
               \/ ({f} \cup AwaitedSon(f)) \cap suspended # {}
               \/ crash # None
=============================================================================
