-------------------------- MODULE PmProcessProofs --------------------------
(***************************************************************************)
(* Processes, waits and sleeping calls implement the scheduler: a proof    *)
(* for any number of agents, stacks and sets.                              *)
(*                                                                         *)
(* A step of PmProcess calls the scheduler with whatever agent arg, caller *)
(* or pm_sched_get_current yields; the invariant says that these are       *)
(* agents whenever such a call is due, and that the host never sleeps.     *)
(***************************************************************************)
EXTENDS PmProcess, PmSchedProofs

\* The arguments of the calls that are under way.
CallArgs ==
    /\ DOMAIN pc = Actors /\ DOMAIN why = Actors
    /\ arg \in [Actors -> Actors]
    /\ caller \in [Agents -> Actors]
    /\ pc[None] \in {"run", "ctor"} /\ why[None] \in {"none", "spawn"}
    /\ \A p \in Actors : pc[p] \in {"ctor", "reply", "kill"} => arg[p] # None
    /\ \A p \in Agents : pc[p] = "reply" => caller[p] # None

ProcInv == StackInv /\ CallArgs

\* Under the invariant, a step of the process layer is a step of the scheduler
\* or leaves the scheduler alone.
LEMMA ProcessStep ==
    ASSUME ProcInv, [PNext]_pvars
    PROVE  [Next]_vars
<1>. USE DEF ProcInv, CallArgs, Actors
<1>1. CASE DoStep
  BY <1>1 DEF DoStep, Next, Schedule
<1>2. ASSUME NEW p \in Actors, Choose(p)
      PROVE  [Next]_vars
  <2>1. CASE \E q \in Agents : Spawn(p, q) \/ call(p, q)
    <3>1. PICK q \in Agents : reimplement(q)
      BY <2>1 DEF Spawn, call, pm_process
    <3>. QED BY <3>1 DEF Next, Operation
  <2>2. CASE do_return(p)
    <3>1. caller[p] \in Agents /\ pm_sched_wakeup(caller[p])
      BY <2>2 DEF do_return
    <3>. QED BY <3>1 DEF Next, Operation
  <2>3. CASE \/ \E q \in Agents : wait_for(p, q) \/ detach(p, q) \/ undetach(p, q)
             \/ \E S \in (SUBSET Sources) \ {{}} : select(p, S)
             \/ \E s \in Sets : get(p, s) \/ put(p, s)
    <3>1. UNCHANGED vars
      BY <2>3 DEF wait_for, detach, undetach, select, get, put, EnterQueues
    <3>. QED BY <3>1
  <2>. QED BY <1>2, <2>1, <2>2, <2>3 DEF Choose
<1>3. ASSUME NEW p \in Actors, Continue(p)
      PROVE  [Next]_vars
  <2>1. CASE ctor_add(p)
    <3>1. arg[p] \in Agents /\ pm_sched_add_agent(arg[p], "normal") /\ "normal" \in Classes
      BY <2>1 DEF ctor_add, At, Classes
    <3>. QED BY <3>1 DEF Next, Operation
  <2>2. CASE sleep(p)
    <3>1. current \in Agents /\ pm_sched_put_to_sleep(current)
      BY <2>2 DEF sleep, At, StackInv, CurrentIsRunning
    <3>. QED BY <3>1 DEF Next, Operation
  <2>3. CASE SwitchOut(p) \/ ActivityReturns(p)
    <3>1. p \in Agents
      BY <2>3 DEF SwitchOut, ActivityReturns, At
    <3>2. EndQuantum(p)
      BY <2>3 DEF SwitchOut, ActivityReturns, EndQuantum
    <3>. QED BY <3>1, <3>2 DEF Next
  <2>4. CASE \E w \in Agents : awake(p, w)
    <3>1. PICK w \in Agents : pm_sched_wakeup(w)
      BY <2>4 DEF awake
    <3>. QED BY <3>1 DEF Next, Operation
  <2>5. CASE Complete(p)
    <3>1. p \in Agents /\ pm_sched_remove_agent(p)
      BY <2>5 DEF Complete, At
    <3>. QED BY <3>1 DEF Next, Operation
  <2>6. CASE Reply(p)
    <3>1. p \in Agents
      BY <2>6 DEF Reply, At
    <3>2. caller[p] \in Agents /\ pm_sched_wakeup(caller[p])
      BY <2>6, <3>1 DEF Reply, At
    <3>. QED BY <3>2 DEF Next, Operation
  <2>7. CASE Kill(p)
    <3>1. arg[p] \in Agents /\ Destroy(arg[p])
      BY <2>7 DEF Kill, At
    <3>. QED BY <3>1 DEF Next, Operation
  <2>8. CASE Begin(p) \/ Resume(p) \/ WakeDone(p)
    BY <2>8 DEF Begin, Resume, WakeDone
  <2>. QED BY <1>3, <2>1, <2>2, <2>3, <2>4, <2>5, <2>6, <2>7, <2>8 DEF Continue
<1>4. ASSUME NEW p \in Actors, GiveBack(p)
      PROVE  [Next]_vars
  <2>1. CASE yield(p)
    BY <2>1 DEF yield, Next, EndQuantum
  <2>2. CASE Finish(p)
    BY <2>2 DEF Finish
  <2>. QED BY <1>4, <2>1, <2>2 DEF GiveBack
<1>5. CASE UNCHANGED pvars
  BY <1>5 DEF pvars
<1>. QED BY <1>1, <1>2, <1>3, <1>4, <1>5 DEF PNext

\* What the code of an actor may choose to do keeps the arguments in order.
LEMMA ChooseArgs ==
    ASSUME ProcInv, NEW p \in Actors, Choose(p)
    PROVE  CallArgs'
<1>. USE NoneAssumption DEF ProcInv, CallArgs, Actors
<1>1. ASSUME NEW q \in Agents, NEW k, pm_process(p, q, k),
             k = "callee" => p # None
      PROVE  CallArgs'
  <2>1. /\ pc' = [pc EXCEPT ![p] = "ctor", ![q] = "entry"]
        /\ why' = [why EXCEPT ![p] = IF k = "callee" THEN "call" ELSE "spawn"]
        /\ arg' = [arg EXCEPT ![p] = q]
        /\ caller' = [caller EXCEPT ![q] = IF k = "callee" THEN current ELSE None]
    BY <1>1 DEF pm_process
  <2>2. current \in Actors
    BY DEF StackInv, TypeOK
  <2>3. q # None
    OBVIOUS
  <2>4. DOMAIN pc' = Actors /\ DOMAIN why' = Actors /\ arg' \in [Actors -> Actors]
    BY <2>1
  <2>5. caller' \in [Agents -> Actors]
    BY <2>1, <2>2
  <2>6. pc'[None] \in {"run", "ctor"} /\ why'[None] \in {"none", "spawn"}
    BY <1>1, <2>1, <2>3
  <2>7. \A r \in Actors : pc'[r] \in {"ctor", "reply", "kill"} => arg'[r] # None
    BY <2>1, <2>3
  <2>8. \A r \in Agents : pc'[r] = "reply" => caller'[r] # None
    BY <2>1
  <2>. QED BY <2>4, <2>5, <2>6, <2>7, <2>8
<1>2. CASE \E q \in Agents : Spawn(p, q) \/ call(p, q)
  BY <1>1, <1>2 DEF Spawn, call
<1>3. CASE \/ \E q \in Agents : wait_for(p, q)
           \/ \E S \in (SUBSET Sources) \ {{}} : select(p, S)
           \/ \E s \in Sets : get(p, s) \/ put(p, s)
  <2>1. /\ p # None /\ UNCHANGED <<caller, arg>>
        /\ \/ UNCHANGED <<pc, why>>
           \/ \E c \in {"sleep", "wake"}, w \in {"wait_for", "select", "get", "put"} :
                 pc' = [pc EXCEPT ![p] = c] /\ why' = [why EXCEPT ![p] = w]
    BY <1>3 DEF wait_for, select, get, put, CanWait, EnterQueues, Goto
  <2>. QED BY <2>1
<1>4. ASSUME NEW q \in Agents, detach(p, q) \/ undetach(p, q)
      PROVE  CallArgs'
  <2>1. /\ p # None /\ UNCHANGED caller
        /\ \/ UNCHANGED <<pc, arg>>
           \/ pc' = [pc EXCEPT ![p] = "kill"] /\ arg' = [arg EXCEPT ![p] = q]
        /\ \/ UNCHANGED why
           \/ why' = [why EXCEPT ![p] = "detach"]
    BY <1>4 DEF detach, undetach
  <2>. QED BY <2>1
<1>5. CASE do_return(p)
  <2>1. pc[p] = "run" /\ p # None /\ caller' = [caller EXCEPT ![p] = None]
        /\ UNCHANGED <<pc, why, arg>>
    BY <1>5 DEF do_return, Replied, At
  <2>. QED BY <2>1
<1>. QED BY <1>2, <1>3, <1>4, <1>5 DEF Choose

\* And so does what the library then goes on to do.
LEMMA ContinueArgs ==
    ASSUME ProcInv, NEW p \in Actors, Continue(p)
    PROVE  CallArgs'
<1>. USE NoneAssumption DEF ProcInv, CallArgs, Actors
<1>1. CASE ctor_add(p)
  <2>1. /\ pc' = [pc EXCEPT ![p] = IF why[p] = "call" THEN "sleep" ELSE "run"]
        /\ arg' = [arg EXCEPT ![p] = None] /\ UNCHANGED <<caller, why>>
    BY <1>1 DEF ctor_add, Goto
  <2>. QED BY <2>1
<1>2. CASE Begin(p) \/ Resume(p) \/ sleep(p) \/ SwitchOut(p)
  <2>1. /\ p # None
        /\ UNCHANGED <<arg, caller, why>>
        /\ \E c \in {"run", "sleep", "switch", "off"} : pc' = [pc EXCEPT ![p] = c]
    BY <1>2 DEF Begin, Resume, sleep, SwitchOut, At, Goto
  <2>. QED BY <2>1
<1>3. CASE (\E w \in Agents : awake(p, w)) \/ WakeDone(p)
  <2>1. /\ p # None
        /\ UNCHANGED <<arg, caller, why>>
        /\ \/ UNCHANGED pc
           \/ \E c \in {"complete", "run"} : pc' = [pc EXCEPT ![p] = c]
    BY <1>3 DEF awake, WakeDone, At, Goto
  <2>. QED BY <2>1
<1>4. CASE Complete(p) \/ ActivityReturns(p)
  <2>1. /\ p # None
        /\ UNCHANGED <<arg, caller, why>>
        /\ \E c \in {"return", "gone", "entry"} : pc' = [pc EXCEPT ![p] = c]
    BY <1>4 DEF Complete, ActivityReturns, At, Goto
  <2>. QED BY <2>1
<1>5. CASE Reply(p)
  <2>1. /\ p # None /\ arg[p] # None /\ UNCHANGED <<arg, why>>
        /\ caller' = [caller EXCEPT ![p] = None]
        /\ pc' = [pc EXCEPT ![p] = "kill"]
    BY <1>5 DEF Reply, Replied, At, Goto
  <2>. QED BY <2>1
<1>6. CASE Kill(p)
  <2>1. /\ p # None /\ arg[p] \in Agents /\ UNCHANGED <<caller, why>>
        /\ arg' = [arg EXCEPT ![p] = None]
        /\ pc' = IF arg[p] = p THEN [pc EXCEPT ![p] = "return"]
                 ELSE [pc EXCEPT ![p] = "run", ![arg[p]] = "gone"]
    BY <1>6 DEF Kill, At
  <2>. QED BY <2>1
<1>. QED BY <1>1, <1>2, <1>3, <1>4, <1>5, <1>6 DEF Continue

\* So does giving back the processor.
LEMMA GiveBackArgs ==
    ASSUME ProcInv, NEW p \in Actors, GiveBack(p)
    PROVE  CallArgs'
<1>. USE NoneAssumption DEF ProcInv, CallArgs, Actors
<1>1. CASE yield(p)
  <2>1. /\ p # None /\ UNCHANGED <<arg, caller>>
        /\ pc' = [pc EXCEPT ![p] = "off"] /\ why' = [why EXCEPT ![p] = "yield"]
    BY <1>1 DEF yield, Goto
  <2>. QED BY <2>1
<1>2. CASE Finish(p)
  <2>1. /\ p # None /\ UNCHANGED caller
        /\ \/ /\ \E c \in {"return", "wake"} : pc' = [pc EXCEPT ![p] = c]
              /\ UNCHANGED arg
           \/ /\ pc' = [pc EXCEPT ![p] = Die(p)]
              /\ arg' = [arg EXCEPT ![p] = p]
        /\ UNCHANGED why \/ why' = [why EXCEPT ![p] = "finish"]
    BY <1>2 DEF Finish, Goto
  <2>2. Die(p) \in {"reply", "kill"} /\ (Die(p) = "reply" => caller[p] # None)
    BY DEF Die
  <2>. QED BY <2>1, <2>2
<1>. QED BY <1>1, <1>2 DEF GiveBack

\* The invariant is kept.
LEMMA NextProc == ProcInv /\ [PNext]_pvars => [Next]_vars /\ ProcInv'
<1>. SUFFICES ASSUME ProcInv, [PNext]_pvars
              PROVE  [Next]_vars /\ ProcInv'
  OBVIOUS
<1>1. [Next]_vars
  BY ProcessStep
<1>2. StackInv'
  BY <1>1, NextType, NextStacks DEF ProcInv, StackInv
<1>3. CallArgs'
  <2>1. CASE DoStep \/ UNCHANGED pvars
    BY <2>1 DEF DoStep, pvars, procVars, ProcInv, CallArgs
  <2>2. CASE \E p \in Actors : Choose(p) \/ Continue(p) \/ GiveBack(p)
    BY <2>2, ChooseArgs, ContinueArgs, GiveBackArgs
  <2>. QED BY <2>1, <2>2 DEF PNext
<1>. QED BY <1>1, <1>2, <1>3 DEF ProcInv

LEMMA InitProc == PInit => Init /\ ProcInv
<1>. SUFFICES ASSUME PInit
              PROVE  Init /\ ProcInv
  OBVIOUS
<1>1. Init /\ CallArgs
  BY NoneAssumption DEF PInit, CallArgs, Actors
<1>2. StackInv
  BY <1>1, InitType, InitStacks DEF StackInv
<1>. QED BY <1>1, <1>2 DEF ProcInv

\* So what is proved of the scheduler's steps can be used for processes, whose
\* actions are made of them.
LEMMA SchedulerSteps == PSpec => Spec
BY InitProc, NextProc, PTL DEF PSpec, Spec

\* What is proved of the scheduler holds of processes too: their lists agree
\* with the facts in sc-memory and their stacks are not shared.
THEOREM ProcessesSafe ==
    PSpec => [](QueuesConsistent /\ SleepersOffQueue /\ StacksNotShared)
BY SchedulerSteps, ListsAgree, StacksSafe, PTL

-----------------------------------------------------------------------------
(***************************************************************************)
(* Wait queues and sleeping calls: a proof, for any number of agents and   *)
(* sets, that queues hold the waiters, that no wake-up is lost and that a  *)
(* caller stays in its call.                                               *)
(*                                                                         *)
(* The three rest on one invariant about who runs and what its code is in  *)
(* the middle of.                                                          *)
(***************************************************************************)

\* Where the code of an agent that does not run can be.
Suspended == {"off", "entry", "gone"}

\* The agent's entry in a list, as the facts in sc-memory have it.
Scheduled(a) == sched_added[a] /\ HasClass(a)

\* p wakes its waiters because it is about to complete.
Completing(p) == pc[p] = "complete" \/ (pc[p] = "wake" /\ why[p] = "finish")

\* Who is where: new agents and completed processes are in no call; only the
\* running agent is in the middle of one, and is scheduled until it has gone to
\* sleep or is about to return.
ActorsInOrder ==
    /\ \A q \in Agents : life[q] = "unborn" => pc[q] = "gone" /\ ~completed[q]
    /\ \A q \in Agents : completed[q] => pc[q] \in {"return", "gone"} /\ IsProcess(q)
    /\ \A p \in Agents : running = p \/ pc[p] \in Suspended
    /\ running # None =>
         \/ pc[running] = "return"
         \/ Activity(running) /\ (pc[running] = "switch" \/ Scheduled(running))
    /\ \A p \in Agents : Completing(p) => IsProcess(p)
    /\ \A p \in Agents : pc[p] \in {"reply", "kill"} =>
         arg[p] = p \/ (arg[p] \in Agents /\ completed[arg[p]])

\* A get has one set to wait for.
GetsOne == \A p \in Agents : why[p] = "get" /\ on[p] # {} => \E s \in Sets : on[p] = {s}

\* What is left to wake are waiters, a process that completes leaves none of its
\* waiters asleep, and who goes to sleep has found nothing ready.
Awaking ==
    /\ waking # {} => running # None /\ pc[running] = "wake"
    /\ \A w \in waking : on[w] # {}
    /\ \A p \in Agents : Completing(p) => \A w \in wait_queue[p] : w \in waking \/ sleeping[w] = None
    /\ \A p \in Agents : pc[p] = "sleep" /\ why[p] \in {"select", "get"} => \A s \in on[p] : ~poll(s)

\* What is known of the state before a step.
Known == ProcInv /\ QueuesConsistent /\ SleepersOffQueue

Waiters ==
    ActorsInOrder /\ GetsOne /\ QueuesHoldWaiters /\ Awaking /\ NoLostWakeup /\ CallerStaysInCall

Before == Known /\ PTypeOK /\ Waiters

-----------------------------------------------------------------------------
(* What the operations of the scheduler do to the facts above.             *)

\* A wake-up ends one sleep and takes nobody out of a list.
LEMMA WakeupEffect ==
    ASSUME TypeOK, SleepersOffQueue, NEW w \in Agents, pm_sched_wakeup(w)
    PROVE  /\ UNCHANGED <<life, running, current, mode>>
           /\ sleeping' = [sleeping EXCEPT ![w] = None]
           /\ \A a \in Agents : Scheduled(a) => Scheduled(a)'
<1>1. sleeping' = [sleeping EXCEPT ![w] = None]
  BY DEF TypeOK, SleepersOffQueue, pm_sched_wakeup, AddFails
<1>2. ASSUME NEW a \in Agents, Scheduled(a)
      PROVE  Scheduled(a)'
  <2>1. CASE UNCHANGED <<arcs, sched_added>>
    BY <1>2, <2>1 DEF Scheduled, HasClass
  <2>2. CASE Enqueue(w, WokenClass(w))
    BY <1>2, <2>2 DEF Enqueue, Scheduled, HasClass, TypeOK
  <2>. QED BY <2>1, <2>2 DEF pm_sched_wakeup
<1>. QED BY <1>1, <1>2 DEF pm_sched_wakeup, ctxVars

\* An addition takes nobody out of a list.
LEMMA AddEffect ==
    ASSUME TypeOK, NEW q \in Agents, pm_sched_add_agent(q, "normal")
    PROVE  /\ UNCHANGED <<life, running, current, sleeping, mode>>
           /\ \A a \in Agents : Scheduled(a) => Scheduled(a)'
<1>1. ASSUME NEW a \in Agents, Scheduled(a)
      PROVE  Scheduled(a)'
  <2>1. CASE UNCHANGED <<arcs, sched_added>>
    BY <1>1, <2>1 DEF Scheduled, HasClass
  <2>2. CASE Enqueue(q, "normal")
    BY <1>1, <2>2 DEF Enqueue, Scheduled, HasClass, TypeOK
  <2>. QED BY <2>1, <2>2 DEF pm_sched_add_agent, AddFails
<1>. QED BY <1>1 DEF pm_sched_add_agent, ctxVars

\* A scheduled agent that is put to sleep sleeps.
LEMMA SleepEffect ==
    ASSUME TypeOK, NEW p \in Agents, Scheduled(p), pm_sched_put_to_sleep(p)
    PROVE  /\ UNCHANGED <<life, running, current, mode>>
           /\ sleeping'[p] # None
           /\ \A a \in Agents \ {p} : sleeping'[a] = sleeping[a] /\ (Scheduled(a) => Scheduled(a)')
<1>1. /\ Dequeue(p) /\ FallAsleep(p)
      /\ UNCHANGED <<life, turn, ctxVars, quit_flag, mode>>
  BY DEF pm_sched_put_to_sleep, Scheduled
<1>2. \E c \in Classes : p \in arcs[c]
  BY DEF Scheduled, HasClass
<1>3. sleeping'[p] \in Classes
  BY <1>1, <1>2 DEF FallAsleep, TypeOK
<1>4. \A a \in Agents \ {p} : sleeping'[a] = sleeping[a] /\ sched_added'[a] = sched_added[a]
  BY <1>1 DEF FallAsleep, TypeOK
<1>5. \A a \in Agents \ {p} : HasClass(a) => HasClass(a)'
  BY <1>1 DEF Dequeue, HasClass
<1>. QED BY <1>1, <1>3, <1>4, <1>5, NoneIsNoClass DEF Scheduled, ctxVars

\* A removal concerns one agent.
LEMMA RemoveEffect ==
    ASSUME TypeOK, NEW p \in Agents, pm_sched_remove_agent(p)
    PROVE  /\ UNCHANGED <<life, running, current, sleeping>>
           /\ \A a \in Agents \ {p} : Scheduled(a) => Scheduled(a)'
<1>1. UNCHANGED <<life, running, current, sleeping, sched_added>>
  BY DEF pm_sched_remove_agent, Abort, schedVars, ctxVars, vars
<1>2. ASSUME NEW a \in Agents \ {p}, HasClass(a)
      PROVE  HasClass(a)'
  BY <1>2 DEF pm_sched_remove_agent, Abort, Dequeue, HasClass, schedVars, vars
<1>. QED BY <1>1, <1>2 DEF Scheduled

\* So does a destruction.
LEMMA DestroyEffect ==
    ASSUME TypeOK, NEW q \in Agents, Destroy(q)
    PROVE  /\ UNCHANGED <<running, current>>
           /\ life[q] = "live" /\ life'[q] # "unborn" /\ sleeping'[q] \in {sleeping[q], None}
           /\ \A a \in Agents \ {q} : /\ life'[a] = life[a] /\ sleeping'[a] = sleeping[a]
                                      /\ Scheduled(a) => Scheduled(a)'
<1>1. UNCHANGED <<running, current>> /\ life[q] = "live"
  BY DEF Destroy, Abort, Activity, schedVars, ctxVars, vars
<1>2. life'[q] # "unborn" /\ sleeping'[q] \in {sleeping[q], None}
  BY <1>1 DEF Destroy, Abort, schedVars, TypeOK
<1>3. \A a \in Agents \ {q} : life'[a] = life[a] /\ sleeping'[a] = sleeping[a] /\ sched_added'[a] = sched_added[a]
  BY DEF Destroy, Abort, schedVars, TypeOK
<1>4. ASSUME NEW a \in Agents \ {q}, HasClass(a)
      PROVE  HasClass(a)'
  BY <1>4 DEF Destroy, Abort, Dequeue, HasClass, schedVars
<1>. QED BY <1>1, <1>2, <1>3, <1>4 DEF Scheduled

-----------------------------------------------------------------------------
(* Types.                                                                  *)

Codes == {"run", "ctor", "entry", "sleep", "switch", "off", "wake", "complete",
          "reply", "kill", "return", "gone"}

Reasons == {"none", "spawn", "call", "yield", "wait_for", "select", "get", "put", "finish",
            "detach"}

ProcTypes ==
    /\ kind \in [Agents -> Kinds]
    /\ detached \in [Agents -> BOOLEAN]
    /\ completed \in [Agents -> BOOLEAN]
    /\ caller \in [Agents -> Agents \cup {None}]
    /\ wait_queue \in [Sources -> SUBSET Agents]
    /\ items \in [Sets -> 0 .. MaxItems]
    /\ current_process \in Agents \cup {None}
    /\ pc \in [Actors -> Codes]
    /\ why \in [Actors -> Reasons]
    /\ arg \in [Actors -> Agents \cup {None}]
    /\ on \in [Agents -> SUBSET Sources]
    /\ waking \in SUBSET Agents

\* The types of the scheduler's variables are proved with PmSched.
LEMMA TypesSplit == PTypeOK <=> TypeOK /\ ProcTypes
BY DEF PTypeOK, ProcTypes, Codes, Reasons

\* What an actor chooses to do keeps the types.
LEMMA ChooseTypes ==
    ASSUME ProcTypes, TypeOK, NEW p \in Actors, Choose(p)
    PROVE  ProcTypes'
<1>. USE DEF ProcTypes, Actors, Codes, Reasons
<1>1. ASSUME NEW q \in Agents, NEW k \in Kinds, pm_process(p, q, k)
      PROVE  ProcTypes'
  <2>1. current \in Agents \cup {None}
    BY DEF TypeOK
  <2>. QED BY <1>1, <2>1 DEF pm_process
<1>2. CASE \E q \in Agents : Spawn(p, q) \/ call(p, q)
  BY <1>1, <1>2 DEF Spawn, call, Kinds
<1>3. ASSUME NEW S \in SUBSET Sources, NEW w \in {"wait_for", "select", "get"}, p \in Agents,
             EnterQueues(p, S, w)
      PROVE  ProcTypes'
  BY <1>3 DEF EnterQueues, Goto
<1>4. CASE \E q \in Agents : wait_for(p, q)
  BY <1>3, <1>4 DEF wait_for, CanWait, Sources
<1>5. CASE \E S \in (SUBSET Sources) \ {{}} : select(p, S)
  BY <1>3, <1>5 DEF select, CanWait
<1>6. ASSUME NEW s \in Sets, get(p, s)
      PROVE  ProcTypes'
  <2>1. CASE ~poll(s)
    BY <1>3, <1>6, <2>1 DEF get, CanWait, Sources
  <2>2. CASE poll(s)
    <3>1. items[s] - 1 \in 0 .. MaxItems
      BY <2>2, MaxItemsAssumption DEF poll
    <3>2. items' = [items EXCEPT ![s] = items[s] - 1]
          /\ UNCHANGED <<kind, detached, completed, caller, wait_queue,
                         current_process, pc, why, arg, on, waking>>
      BY <1>6, <2>2 DEF get
    <3>. QED BY <3>1, <3>2
  <2>. QED BY <2>1, <2>2
<1>7. ASSUME NEW s \in Sets, put(p, s)
      PROVE  ProcTypes'
  <2>1. items[s] + 1 \in 0 .. MaxItems
    BY <1>7, MaxItemsAssumption DEF put
  <2>2. wake_all(s) \in SUBSET Agents
    BY DEF wake_all, Sources
  <2>. QED BY <1>7, <2>1, <2>2 DEF put, Goto
<1>8. ASSUME NEW q \in Agents, detach(p, q) \/ undetach(p, q)
      PROVE  ProcTypes'
  <2>1. /\ detached' \in {[detached EXCEPT ![q] = TRUE], [detached EXCEPT ![q] = FALSE]}
        /\ pc' \in {pc, [pc EXCEPT ![p] = "kill"]} /\ arg' \in {arg, [arg EXCEPT ![p] = q]}
        /\ why' \in {why, [why EXCEPT ![p] = "detach"]}
        /\ UNCHANGED <<kind, completed, caller, wait_queue, items, current_process, on, waking>>
    BY <1>8 DEF detach, undetach
  <2>2. detached' \in [Agents -> BOOLEAN]
    BY <2>1
  <2>3. pc' \in [Actors -> Codes] /\ arg' \in [Actors -> Agents \cup {None}]
    BY <2>1
  <2>4. why' \in [Actors -> Reasons]
    BY <2>1
  <2>. QED BY <2>1, <2>2, <2>3, <2>4
<1>9. CASE do_return(p)
  BY <1>9 DEF do_return, Replied
<1>. QED BY <1>2, <1>4, <1>5, <1>6, <1>7, <1>8, <1>9 DEF Choose

\* So does what follows; a get takes an item from its one set, which has one.
LEMMA ContinueTypes ==
    ASSUME ProcTypes, TypeOK, CallArgs, GetsOne, NEW p \in Actors, Continue(p) \/ GiveBack(p)
    PROVE  ProcTypes'
<1>. USE DEF ProcTypes, Actors, Codes, Reasons
<1>1. CASE ctor_add(p) \/ Begin(p) \/ sleep(p) \/ SwitchOut(p)
  <2>1. /\ UNCHANGED <<kind, detached, completed, caller, wait_queue, items, why, on, waking>>
        /\ arg' \in {arg, [arg EXCEPT ![p] = None]}
        /\ current_process' \in {current_process, p, None}
        /\ \E c \in Codes : pc' = [pc EXCEPT ![p] = c]
    BY <1>1 DEF ctor_add, Begin, sleep, SwitchOut, Goto
  <2>. QED BY <2>1
<1>2. CASE Resume(p)
  <2>1. p \in Agents /\ current \in Agents \cup {None}
    BY <1>2 DEF Resume, At, TypeOK, CallArgs
  <2>2. current_process' \in Agents \cup {None}
    BY <1>2, <2>1 DEF Resume
  <2>3. items' \in [Sets -> 0 .. MaxItems]
    <3>1. CASE UNCHANGED items
      BY <3>1
    <3>2. CASE /\ Polled(p) /\ why[p] = "get"
               /\ items' = [s \in Sets |-> IF s \in on[p] THEN items[s] - 1 ELSE items[s]]
      <4>1. PICK t \in Sets : on[p] = {t} /\ poll(t)
        BY <2>1, <3>2 DEF GetsOne, Polled
      <4>2. items[t] - 1 \in 0 .. MaxItems
        BY <4>1, MaxItemsAssumption DEF poll
      <4>. QED BY <3>2, <4>1, <4>2
    <3>. QED BY <1>2, <3>1, <3>2 DEF Resume
  <2>4. wait_queue' \in [Sources -> SUBSET Agents]
    BY <1>2 DEF Resume, LeaveQueues
  <2>5. on' \in [Agents -> SUBSET Sources] /\ pc' \in [Actors -> Codes]
    BY <1>2, <2>1 DEF Resume, Goto
  <2>. QED BY <1>2, <2>2, <2>3, <2>4, <2>5 DEF Resume
<1>3. CASE (\E w \in Agents : awake(p, w)) \/ WakeDone(p) \/ Complete(p)
  BY <1>3 DEF awake, WakeDone, Complete, Goto
<1>4. CASE Reply(p) \/ Kill(p) \/ ActivityReturns(p)
  BY <1>4 DEF Reply, Replied, Kill, ActivityReturns, Goto
<1>5. CASE yield(p)
  BY <1>5 DEF yield, Goto
<1>6. CASE Finish(p)
  <2>1. Die(p) \in Codes /\ (p \in Agents => wake_all(p) \in SUBSET Agents)
    BY DEF Die, wake_all, Sources
  <2>2. p \in Agents /\ current_process' \in Agents \cup {None}
    BY <1>6 DEF Finish
  <2>. QED BY <1>6, <2>1, <2>2 DEF Finish, Goto
<1>. QED BY <1>1, <1>2, <1>3, <1>4, <1>5, <1>6 DEF Continue, GiveBack

\* So does every step.
LEMMA NextTypes ==
    ASSUME PTypeOK, GetsOne, ProcInv, [PNext]_pvars
    PROVE  PTypeOK'
<1>1. TypeOK'
  BY NextProc DEF ProcInv, StackInv
<1>2. ProcTypes /\ TypeOK /\ CallArgs
  BY TypesSplit DEF ProcInv
<1>3. ProcTypes'
  <2>1. CASE DoStep \/ UNCHANGED pvars
    BY <1>2, <2>1 DEF DoStep, pvars, procVars, ProcTypes
  <2>2. CASE \E p \in Actors : Choose(p) \/ Continue(p) \/ GiveBack(p)
    BY <1>2, <2>2, ChooseTypes, ContinueTypes
  <2>. QED BY <2>1, <2>2 DEF PNext
<1>. QED BY <1>1, <1>3 DEF PTypeOK, ProcTypes, Codes, Reasons

-----------------------------------------------------------------------------
(* Steps.                                                                  *)

\* Who holds the processor, and is neither on the way out nor back at the
\* scheduler, is awake and scheduled, and everybody else is suspended.
LEMMA Working ==
    ASSUME Before, NEW p \in Agents, running = p
    PROVE  /\ current = p
           /\ pc[p] # "return" => Activity(p)
           /\ pc[p] \notin {"return", "switch"} => Scheduled(p) /\ sleeping[p] = None
           /\ \A r \in Agents \ {p} : pc[r] \in Suspended
           /\ pc[p] # "wake" => waking = {}
           /\ pc[p] \notin {"sleep", "switch", "off"} =>
                on[p] = {} /\ \A s \in Sources : p \notin wait_queue[s]
           /\ pc[p] \notin {"ctor", "sleep", "switch", "off"} =>
                \A q \in Agents : caller[q] # p
<1>. USE NoneAssumption DEF Before, Known, Waiters
<1>1. current = p
  BY DEF ProcInv, StackInv, CurrentIsRunning
<1>2. /\ pc[p] # "return" => Activity(p)
      /\ pc[p] \notin {"return", "switch"} => Scheduled(p)
      /\ \A r \in Agents \ {p} : pc[r] \in Suspended
  BY DEF ActorsInOrder
<1>3. Scheduled(p) => sleeping[p] = None
  BY DEF SleepersOffQueue, Scheduled
<1>4. pc[p] # "wake" => waking = {}
  BY DEF Awaking
<1>5. pc[p] \notin {"sleep", "switch", "off"} =>
        on[p] = {} /\ \A s \in Sources : p \notin wait_queue[s]
  BY DEF QueuesHoldWaiters
<1>6. pc[p] \notin {"ctor", "sleep", "switch", "off"} => \A q \in Agents : caller[q] # p
  BY DEF CallerStaysInCall
<1>. QED BY <1>1, <1>2, <1>3, <1>4, <1>5, <1>6

\* The running agent p moves on in its code, and nobody else does.
Moves(p) == running = p /\ \A r \in Agents \ {p} : pc'[r] = pc[r] /\ why'[r] = why[r]

\* Nobody gets a queue to wait in, and nobody a source.
QueuesKept == UNCHANGED <<wait_queue, on>>

\* Its code stays in order if it stays scheduled or is about to leave.
LEMMA MovesOrder ==
    ASSUME Before, PTypeOK', NEW p \in Agents, Moves(p),
           UNCHANGED <<running, life, kind, completed>>,
           pc[p] \notin {"return", "gone"},
           \A r \in Agents \ {p} : arg'[r] = arg[r],
           pc'[p] \in {"return", "switch"} \/ Scheduled(p)',
           Completing(p)' => IsProcess(p),
           pc'[p] \in {"reply", "kill"} =>
               arg'[p] = p \/ (arg'[p] \in Agents /\ completed[arg'[p]])
    PROVE  ActorsInOrder'
<1>1. ActorsInOrder /\ Activity(p)
  BY Working DEF Before, Waiters, Moves
<1>2. ASSUME NEW r \in Agents
      PROVE  /\ life'[r] = "unborn" => pc'[r] = "gone" /\ ~completed'[r]
             /\ completed'[r] => pc'[r] \in {"return", "gone"} /\ IsProcess(r)'
  <2>1. CASE r = p
    BY <2>1, <1>1 DEF ActorsInOrder, Activity, Moves, Suspended
  <2>2. CASE r # p
    BY <2>2, <1>1 DEF ActorsInOrder, IsProcess, Moves
  <2>. QED BY <2>1, <2>2
<1>3. (\A r \in Agents : running = r \/ pc[r] \in Suspended)'
  BY <1>1 DEF ActorsInOrder, Moves, Suspended
<1>4. running' = p /\ Activity(p)' /\ (pc'[p] \in {"return", "switch"} \/ Scheduled(p)')
  BY <1>1 DEF Moves, Activity
<1>5. (\A r \in Agents : Completing(r) => IsProcess(r))'
  BY <1>1 DEF ActorsInOrder, Moves, Completing, IsProcess
<1>6. (\A r \in Agents : pc[r] \in {"reply", "kill"} =>
         arg[r] = r \/ (arg[r] \in Agents /\ completed[arg[r]]))'
  BY <1>1 DEF ActorsInOrder, Moves
<1>. QED BY <1>2, <1>3, <1>4, <1>5, <1>6 DEF ActorsInOrder

\* An agent that no callee knows may move on; callees only forget.
LEMMA MovesCalls ==
    ASSUME Before, PTypeOK', NEW p \in Agents, Moves(p),
           \A q \in Agents : caller[q] # p,
           \A q \in Agents : caller'[q] \in {caller[q], None},
           \A q \in Agents : caller'[q] # None => sleeping'[caller[q]] = sleeping[caller[q]]
    PROVE  CallerStaysInCall'
<1>. SUFFICES ASSUME NEW u \in Agents, caller'[u] # None
              PROVE  /\ why'[caller'[u]] = "call"
                     /\ \/ sleeping'[caller'[u]] # None /\ pc'[caller'[u]] \in {"switch", "off"}
                        \/ running' = caller'[u] /\ pc'[caller'[u]] \in {"ctor", "sleep"}
                     /\ \A r \in Agents : caller'[r] = caller'[u] => r = u
  BY DEF CallerStaysInCall
<1>1. /\ caller'[u] = caller[u] /\ caller[u] \in Agents \ {p}
      /\ \A r \in Agents : caller'[r] = caller'[u] => caller[r] = caller[u]
  BY DEF Before, PTypeOK
<1>2. /\ why[caller[u]] = "call" /\ \A r \in Agents : caller[r] = caller[u] => r = u
      /\ sleeping[caller[u]] # None /\ pc[caller[u]] \in {"switch", "off"}
  BY <1>1 DEF Before, Waiters, CallerStaysInCall, Moves
<1>. QED BY <1>1, <1>2 DEF Moves

\* Queues are as before if it waits for nothing and no waiter dies.
LEMMA MovesQueues ==
    ASSUME Before, PTypeOK', NEW p \in Agents, Moves(p), QueuesKept,
           \A r \in Agents \ {p} : on[r] # {} => Activity(r)',
           on[p] = {}
    PROVE  QueuesHoldWaiters' /\ GetsOne'
<1>1. GetsOne'
  BY DEF Before, Waiters, GetsOne, Moves, QueuesKept
<1>2. ASSUME NEW r \in Agents
      PROVE  /\ on'[r] = {s \in Sources : r \in wait_queue'[s]}
             /\ on'[r] # {} => /\ Activity(r)' /\ pc'[r] \in {"sleep", "switch", "off"}
                               /\ why'[r] \in {"wait_for", "select", "get"}
  <2>1. on'[r] = {s \in Sources : r \in wait_queue'[s]}
    BY DEF Before, Waiters, QueuesHoldWaiters, QueuesKept
  <2>2. on'[r] # {} => r # p /\ on[r] # {}
    BY DEF QueuesKept
  <2>. QED BY <2>1, <2>2 DEF Before, Waiters, QueuesHoldWaiters, Moves
<1>. QED BY <1>1, <1>2 DEF QueuesHoldWaiters

\* The scheduler picks an agent that is in a list: it is scheduled, and suspended.
LEMMA StepKeeps ==
    ASSUME Before, PTypeOK', DoStep
    PROVE  Waiters'
<1>. USE NoneAssumption DEF Before, Known, Waiters
<1>1. UNCHANGED procVars /\ UNCHANGED <<life, sched_added, arcs, sleeping>> /\ running = None
  BY DEF DoStep, pm_sched_do_step, Idle
<1>2. UNCHANGED <<kind, detached, completed, caller, wait_queue, items, pc, why, arg, on, waking>>
  BY <1>1 DEF procVars
<1>3. PICK c \in Classes : RunFront(c)
  BY DEF DoStep, pm_sched_do_step, NextBusy, PTypeOK, TypeOK, get_next_turn, Classes
<1>4. PICK a \in Agents : running' = a /\ Scheduled(a) /\ Activity(a)
  <2>1. Head(queue[c]) \in Members(queue[c]) /\ queue[c] \in Seq(Agents)
    BY <1>3 DEF RunFront, Members, PTypeOK, TypeOK
  <2>2. running' = Head(queue[c])
    BY <1>3 DEF RunFront, activate_agent
  <2>. QED BY <2>1, <2>2 DEF QueuesConsistent, Scheduled, HasClass, PTypeOK, TypeOK
<1>5. ActorsInOrder'
  BY <1>1, <1>2, <1>4 DEF ActorsInOrder, Scheduled, HasClass, Activity, IsProcess, Completing
<1>6. GetsOne' /\ QueuesHoldWaiters'
  BY <1>1, <1>2 DEF GetsOne, QueuesHoldWaiters, Activity
<1>7. Awaking' /\ NoLostWakeup'
  BY <1>1, <1>2 DEF Awaking, NoLostWakeup, Completing, poll
<1>8. CallerStaysInCall'
  BY <1>1, <1>2 DEF CallerStaysInCall
<1>. QED BY <1>5, <1>6, <1>7, <1>8

\* A new agent is in no call and no queue; the caller of a callee enters its call.
LEMMA CreateKeeps ==
    ASSUME Before, PTypeOK', NEW p \in Actors, NEW q \in Agents, NEW k \in Kinds,
           pm_process(p, q, k), k = "callee" => p # None
    PROVE  Waiters'
<1>. USE NoneAssumption DEF Before, Known, Waiters, Actors
<1>1. /\ running = p /\ pc[p] = "run" /\ life[q] = "unborn" /\ pc[q] = "gone" /\ p # q
      /\ life' = [life EXCEPT ![q] = "live"] /\ ~completed[q]
      /\ kind' = [kind EXCEPT ![q] = k]
      /\ caller' = [caller EXCEPT ![q] = IF k = "callee" THEN p ELSE None]
      /\ pc' = [pc EXCEPT ![p] = "ctor", ![q] = "entry"]
      /\ why' = [why EXCEPT ![p] = IF k = "callee" THEN "call" ELSE "spawn"]
      /\ arg' = [arg EXCEPT ![p] = q]
      /\ UNCHANGED <<sched_added, arcs, sleeping, running, completed, wait_queue, items, on, waking>>
  BY Working DEF pm_process, reimplement, At, ctxVars, ActorsInOrder
<1>2. \A r \in Agents : Scheduled(r)' = Scheduled(r)
  BY <1>1 DEF Scheduled, HasClass
<1>3. p \in Agents => /\ Scheduled(p) /\ Activity(p) /\ on[p] = {} /\ sleeping[p] = None
                      /\ \A r \in Agents : caller[r] # p
  BY <1>1, Working
<1>4. \A r \in Agents :
        /\ pc'[r] = IF r = q THEN "entry" ELSE IF r = p THEN "ctor" ELSE pc[r]
        /\ why'[r] = IF r = p THEN IF k = "callee" THEN "call" ELSE "spawn" ELSE why[r]
        /\ arg'[r] = IF r = p THEN q ELSE arg[r]
        /\ r # q => kind'[r] = kind[r] /\ life'[r] = life[r] /\ caller'[r] = caller[r]
  BY <1>1 DEF PTypeOK, TypeOK
<1>5. life'[q] = "live" /\ caller'[q] = IF k = "callee" THEN p ELSE None
  BY <1>1 DEF PTypeOK, TypeOK
<1>6. ActorsInOrder'
  <2>1. ASSUME NEW r \in Agents
        PROVE  /\ life'[r] = "unborn" => pc'[r] = "gone" /\ ~completed'[r]
               /\ completed'[r] => pc'[r] \in {"return", "gone"} /\ IsProcess(r)'
    <3>1. completed' = completed /\ life'[q] = "live" /\ ~completed[q] /\ pc[p] = "run"
      BY <1>1, <1>5
    <3>2. /\ life[r] = "unborn" => pc[r] = "gone" /\ ~completed[r]
          /\ completed[r] => pc[r] \in {"return", "gone"} /\ kind[r] # "agent"
      BY DEF ActorsInOrder, IsProcess
    <3>3. CASE r = q
      BY <3>1, <3>3
    <3>4. CASE r # q /\ r = p
      <4>1. life'[r] = life[r] /\ life[r] # "unborn" /\ ~completed[r]
        BY ONLY <3>1, <3>2, <3>4, <1>4
      <4>. QED BY ONLY <4>1, <3>1
    <3>5. CASE r # q /\ r # p
      <4>1. life'[r] = life[r] /\ pc'[r] = pc[r] /\ kind'[r] = kind[r]
        BY ONLY <3>5, <1>4
      <4>. QED BY ONLY <4>1, <3>1, <3>2 DEF IsProcess
    <3>. QED BY ONLY <3>3, <3>4, <3>5
  <2>2. (\A r \in Agents : running = r \/ pc[r] \in Suspended)'
    <3>1. running' = p /\ \A r \in Agents : r = p \/ pc[r] \in Suspended
      BY <1>1 DEF ActorsInOrder
    <3>. QED BY ONLY <3>1, <1>4 DEF Suspended
  <2>3. running' # None => Activity(running)' /\ Scheduled(running)'
    BY <1>1, <1>2, <1>3, <1>4 DEF Activity
  <2>4. (\A r \in Agents : Completing(r) => IsProcess(r))'
    BY <1>1, <1>4 DEF ActorsInOrder, IsProcess, Completing
  <2>5. (\A r \in Agents : pc[r] \in {"reply", "kill"} =>
           arg[r] = r \/ (arg[r] \in Agents /\ completed[arg[r]]))'
    BY <1>1, <1>4 DEF ActorsInOrder
  <2>. QED BY <2>1, <2>2, <2>3, <2>4, <2>5 DEF ActorsInOrder
<1>7. GetsOne'
  BY <1>1, <1>3, <1>4 DEF GetsOne
<1>8. QueuesHoldWaiters'
  <2>. SUFFICES ASSUME NEW r \in Agents
                PROVE  /\ on[r] = {s \in Sources : r \in wait_queue[s]}
                       /\ on[r] # {} => /\ Activity(r)'
                                        /\ pc'[r] \in {"sleep", "switch", "off"}
                                        /\ why'[r] \in {"wait_for", "select", "get"}
    BY <1>1 DEF QueuesHoldWaiters
  <2>1. on[r] = {s \in Sources : r \in wait_queue[s]}
    BY DEF QueuesHoldWaiters
  <2>2. on[r] # {} => r \notin {p, q}
    BY <1>1, <1>3 DEF QueuesHoldWaiters
  <2>. QED BY <2>1, <2>2, <1>4 DEF QueuesHoldWaiters, Activity
<1>9. Awaking'
  <2>1. waking = {}
    BY <1>1 DEF Awaking
  <2>2. \A r \in Agents : Completing(r)' => Completing(r)
    BY <1>1, <1>4 DEF Completing
  <2>3. \A r \in Agents : pc'[r] = "sleep" => pc[r] = "sleep" /\ why'[r] = why[r]
    BY <1>4
  <2>. QED BY <2>1, <2>2, <2>3, <1>1 DEF Awaking, poll
<1>10. NoLostWakeup'
  BY <1>1, <1>3, <1>4 DEF NoLostWakeup, poll
<1>11. CallerStaysInCall'
  <2>1. \A r \in Agents : r # q /\ caller'[r] # None =>
           /\ caller'[r] = caller[r] /\ caller[r] \in Agents /\ caller[r] \notin {p, q}
           /\ pc'[caller[r]] = pc[caller[r]] /\ why'[caller[r]] = why[caller[r]]
    BY <1>1, <1>3, <1>4 DEF CallerStaysInCall, PTypeOK
  <2>. SUFFICES ASSUME NEW u \in Agents, caller'[u] # None
                PROVE  /\ why'[caller'[u]] = "call"
                       /\ \/ sleeping'[caller'[u]] # None /\ pc'[caller'[u]] \in {"switch", "off"}
                          \/ running' = caller'[u] /\ pc'[caller'[u]] \in {"ctor", "sleep"}
                       /\ \A r \in Agents : caller'[r] = caller'[u] => r = u
    BY DEF CallerStaysInCall
  <2>2. CASE u = q
    <3>1. k = "callee" /\ p \in Agents /\ caller'[u] = p
      BY <2>2, <1>5
    <3>2. pc'[p] = "ctor" /\ why'[p] = "call" /\ running' = p
      BY <3>1, <1>1, <1>4
    <3>. QED BY <2>1, <2>2, <3>1, <3>2
  <2>3. CASE u # q
    <3>1. \A r \in Agents : caller'[r] = caller'[u] => r # q /\ caller[r] = caller[u]
      BY <2>1, <2>3, <1>5
    <3>2. caller'[u] = caller[u] /\ caller[u] # None
      BY <2>1, <2>3
    <3>3. /\ why[caller[u]] = "call" /\ \A r \in Agents : caller[r] = caller[u] => r = u
          /\ \/ sleeping[caller[u]] # None /\ pc[caller[u]] \in {"switch", "off"}
             \/ running = caller[u] /\ pc[caller[u]] \in {"ctor", "sleep"}
      BY <3>2 DEF CallerStaysInCall
    <3>4. /\ pc'[caller[u]] = pc[caller[u]] /\ why'[caller[u]] = why[caller[u]]
          /\ sleeping' = sleeping /\ running' = running
      BY <2>1, <2>3, <1>1
    <3>. QED BY <3>1, <3>2, <3>3, <3>4
  <2>. QED BY <2>2, <2>3
<1>. QED BY <1>6, <1>7, <1>8, <1>9, <1>11, <1>10

\* The end of the constructor: the new agent is scheduled, a caller goes to sleep.
LEMMA CtorKeeps ==
    ASSUME Before, PTypeOK', NEW p \in Actors, ctor_add(p)
    PROVE  Waiters'
<1>. USE NoneAssumption DEF Before, Known, Waiters, Actors
<1>1. /\ running = p /\ pc[p] = "ctor" /\ arg[p] \in Agents
      /\ pc' = [pc EXCEPT ![p] = IF why[p] = "call" THEN "sleep" ELSE "run"]
      /\ arg' = [arg EXCEPT ![p] = None]
      /\ UNCHANGED <<kind, completed, caller, wait_queue, items, why, on, waking>>
  BY DEF ctor_add, At, Goto, ProcInv, CallArgs
<1>2. /\ UNCHANGED <<life, running, sleeping>>
      /\ \A r \in Agents : Scheduled(r) => Scheduled(r)'
  BY <1>1, AddEffect DEF ctor_add, PTypeOK
<1>3. p \in Agents => Scheduled(p) /\ Activity(p) /\ on[p] = {} /\ sleeping[p] = None
  BY <1>1, Working
<1>4. ActorsInOrder'
  BY <1>1, <1>2, <1>3 DEF ActorsInOrder, Activity, IsProcess, Completing, Suspended, PTypeOK
<1>5. GetsOne'
  BY <1>1 DEF GetsOne
<1>6. QueuesHoldWaiters'
  BY <1>1, <1>2, <1>3 DEF QueuesHoldWaiters, Activity, PTypeOK
<1>7. Awaking' /\ NoLostWakeup'
  BY <1>1, <1>2, <1>3 DEF Awaking, NoLostWakeup, Completing, poll, PTypeOK
<1>8. CallerStaysInCall'
  BY <1>1, <1>2 DEF CallerStaysInCall, PTypeOK
<1>. QED BY <1>4, <1>5, <1>7, <1>8, <1>6

\* A quantum that starts from the top.
LEMMA BeginKeeps ==
    ASSUME Before, PTypeOK', NEW p \in Agents, Begin(p)
    PROVE  Waiters'
<1>1. /\ running = p /\ pc[p] = "entry" /\ pc' = [pc EXCEPT ![p] = "run"]
      /\ UNCHANGED <<life, sched_added, arcs, sleeping, running, kind, completed, caller,
                     wait_queue, items, why, arg, on, waking>>
  BY DEF Begin, At, Goto, vars, schedVars, ctxVars
<1>2. Moves(p) /\ QueuesKept /\ pc'[p] = "run"
  BY <1>1 DEF Moves, QueuesKept, Before, PTypeOK, Actors
<1>3. /\ Scheduled(p)' /\ on[p] = {} /\ waking = {} /\ sleeping[p] = None
      /\ \A q \in Agents : caller[q] # p
  BY <1>1, Working DEF Scheduled, HasClass
<1>4. ActorsInOrder'
  BY <1>1, <1>2, <1>3, MovesOrder DEF Completing
<1>5. GetsOne' /\ QueuesHoldWaiters'
  BY <1>1, <1>2, <1>3, MovesQueues DEF Before, Waiters, QueuesHoldWaiters, Activity
<1>6. Awaking' /\ NoLostWakeup'
  BY <1>1, <1>2, <1>3 DEF Before, Waiters, Moves, Awaking, NoLostWakeup, Completing, poll
<1>7. CallerStaysInCall'
  BY <1>1, <1>2, <1>3, MovesCalls
<1>. QED BY <1>4, <1>5, <1>6, <1>7 DEF Waiters

\* To wait for sources of which, in select and get, none is ready.
LEMMA EnterKeeps ==
    ASSUME Before, PTypeOK', NEW p \in Agents, NEW S \in SUBSET Sources,
           NEW w \in {"wait_for", "select", "get"},
           At(p, "run"), EnterQueues(p, S, w),
           w \in {"select", "get"} => \A s \in S : ~poll(s),
           w = "get" => \E s \in Sets : S = {s}
    PROVE  Waiters'
<1>1. /\ running = p /\ pc[p] = "run" /\ pc' = [pc EXCEPT ![p] = "sleep"]
      /\ why' = [why EXCEPT ![p] = w] /\ on' = [on EXCEPT ![p] = S]
      /\ wait_queue' = [s \in Sources |-> IF s \in S THEN wait_queue[s] \cup {p} ELSE wait_queue[s]]
      /\ UNCHANGED <<life, sched_added, arcs, sleeping, running, kind, completed, caller,
                     items, arg, waking>>
  BY DEF EnterQueues, At, Goto, vars, schedVars, ctxVars
<1>2. /\ Moves(p) /\ pc'[p] = "sleep" /\ why'[p] = w /\ on'[p] = S
      /\ \A r \in Agents \ {p} : on'[r] = on[r]
  BY <1>1 DEF Moves, Before, PTypeOK, Actors
<1>3. /\ Scheduled(p)' /\ Activity(p) /\ on[p] = {} /\ waking = {} /\ sleeping[p] = None
      /\ \A q \in Agents : caller[q] # p
      /\ \A s \in Sources : p \notin wait_queue[s]
  BY <1>1, Working DEF Scheduled, HasClass
<1>4. ActorsInOrder'
  BY <1>1, <1>2, <1>3, MovesOrder DEF Completing
<1>5. GetsOne'
  BY <1>2 DEF GetsOne, Before, Waiters, Moves
<1>6. QueuesHoldWaiters'
  <2>1. ASSUME NEW r \in Agents
        PROVE  on'[r] = {s \in Sources : r \in wait_queue'[s]}
    <3>1. CASE r = p
      BY <3>1, <1>1, <1>2, <1>3
    <3>2. CASE r # p
      BY <3>2, <1>1, <1>2 DEF Before, Waiters, QueuesHoldWaiters
    <3>. QED BY <3>1, <3>2
  <2>2. \A r \in Agents : on'[r] # {} => /\ Activity(r)'
                                         /\ pc'[r] \in {"sleep", "switch", "off"}
                                         /\ why'[r] \in {"wait_for", "select", "get"}
    BY <1>1, <1>2, <1>3 DEF Before, Waiters, QueuesHoldWaiters, Moves, Activity
  <2>. QED BY <2>1, <2>2 DEF QueuesHoldWaiters
<1>7. Awaking'
  <2>1. \A r \in Agents : ~Completing(r)'
    BY <1>1, <1>2, Working DEF Completing, Moves, Suspended
  <2>2. \A r \in Agents : pc'[r] = "sleep" => r = p
    BY <1>1, <1>2, Working DEF Moves, Suspended
  <2>3. (\A s \in on[p] : ~poll(s))' \/ w = "wait_for"
    BY <1>1, <1>2 DEF poll
  <2>. QED BY <2>1, <2>2, <2>3, <1>1, <1>2, <1>3 DEF Awaking
<1>8. NoLostWakeup'
  BY <1>1, <1>2, <1>3 DEF Before, Waiters, Moves, NoLostWakeup, poll
<1>9. CallerStaysInCall'
  BY <1>1, <1>2, <1>3, MovesCalls
<1>. QED BY <1>4, <1>5, <1>6, <1>7, <1>8, <1>9 DEF Waiters

\* Whoever waits for a set is to be woken when a member is put into it.
LEMMA PutKeeps ==
    ASSUME Before, PTypeOK', NEW p \in Agents, NEW t \in Sets, put(p, t)
    PROVE  Waiters'
<1>1. /\ running = p /\ pc[p] = "run" /\ pc' = [pc EXCEPT ![p] = "wake"]
      /\ why' = [why EXCEPT ![p] = "put"] /\ items' = [items EXCEPT ![t] = items[t] + 1]
      /\ waking' = wait_queue[t]
      /\ UNCHANGED <<life, sched_added, arcs, sleeping, running, kind, completed, caller,
                     wait_queue, arg, on>>
  BY DEF put, wake_all, At, Goto, vars, schedVars, ctxVars
<1>2. Moves(p) /\ QueuesKept /\ pc'[p] = "wake" /\ why'[p] = "put"
  BY <1>1 DEF Moves, QueuesKept, Before, PTypeOK, Actors
<1>3. /\ Scheduled(p)' /\ on[p] = {} /\ waking = {} /\ sleeping[p] = None
      /\ \A q \in Agents : caller[q] # p
  BY <1>1, Working DEF Scheduled, HasClass
<1>4. ActorsInOrder'
  BY <1>1, <1>2, <1>3, MovesOrder DEF Completing
<1>5. GetsOne' /\ QueuesHoldWaiters'
  BY <1>1, <1>2, <1>3, MovesQueues DEF Before, Waiters, QueuesHoldWaiters, Activity
<1>6. \A r \in Agents : t \in on[r] <=> r \in wait_queue[t]
  BY DEF Before, Waiters, QueuesHoldWaiters, Sources
<1>7. Awaking'
  <2>1. \A r \in Agents : ~Completing(r)' /\ pc'[r] # "sleep"
    BY <1>1, <1>2, Working DEF Completing, Moves, Suspended
  <2>2. wait_queue[t] \subseteq Agents
    BY DEF Before, PTypeOK, Sources
  <2>. QED BY <2>1, <2>2, <1>1, <1>2, <1>6, NoneAssumption DEF Awaking, QueuesKept
<1>8. NoLostWakeup'
  <2>1. ASSUME NEW r \in Agents, why'[r] \in {"select", "get"}, sleeping[r] # None,
               r \notin wait_queue[t], NEW s \in on[r]
        PROVE  ~poll(s)'
    <3>1. r # p /\ why[r] = why'[r] /\ t # s /\ s \in Sources
      BY <2>1, <1>2, <1>6 DEF Moves, Before, Waiters, QueuesHoldWaiters
    <3>2. ~poll(s)
      BY <2>1, <3>1, <1>3 DEF Before, Waiters, NoLostWakeup
    <3>. QED BY <3>1, <3>2, <1>1 DEF poll, Before, PTypeOK
  <2>. QED BY <2>1, <1>1 DEF NoLostWakeup
<1>9. CallerStaysInCall'
  BY <1>1, <1>2, <1>3, MovesCalls
<1>. QED BY <1>4, <1>5, <1>7, <1>8, <1>9 DEF Waiters

\* get, with a member in the set.
LEMMA TakeKeeps ==
    ASSUME Before, PTypeOK', NEW p \in Agents, NEW t \in Sets, At(p, "run"), poll(t),
           items' = [items EXCEPT ![t] = items[t] - 1],
           UNCHANGED <<vars, kind, detached, completed, caller, wait_queue,
                       current_process, pc, why, arg, on, waking>>
    PROVE  Waiters'
<1>1. /\ running = p /\ pc[p] = "run"
      /\ UNCHANGED <<life, sched_added, arcs, sleeping, running, kind, completed, caller,
                     wait_queue, pc, why, arg, on, waking>>
  BY DEF At, vars, schedVars, ctxVars
<1>2. Moves(p) /\ QueuesKept
  BY <1>1 DEF Moves, QueuesKept
<1>3. /\ Scheduled(p)' /\ on[p] = {} /\ \A q \in Agents : caller[q] # p
  BY <1>1, Working DEF Scheduled, HasClass
<1>4. ActorsInOrder'
  BY <1>1, <1>2, <1>3, MovesOrder DEF Completing
<1>5. GetsOne' /\ QueuesHoldWaiters'
  BY <1>1, <1>2, <1>3, MovesQueues DEF Before, Waiters, QueuesHoldWaiters, Activity
<1>6. \A s \in Sources : ~poll(s) => ~poll(s)'
  <2>1. \A s \in Sets : items'[s] <= items[s]
    BY DEF Before, PTypeOK
  <2>. QED BY <2>1, <1>1 DEF poll, Before, PTypeOK
<1>7. Awaking' /\ NoLostWakeup'
  BY <1>1, <1>6 DEF Before, Waiters, Awaking, NoLostWakeup, Completing, PTypeOK
<1>8. CallerStaysInCall'
  BY <1>1, <1>2, <1>3, MovesCalls
<1>. QED BY <1>4, <1>5, <1>7, <1>8 DEF Waiters

\* detach and undetach change what a process will do when it ends.
LEMMA DetachKeeps ==
    ASSUME Before, PTypeOK', NEW p \in Agents, NEW q \in Agents, detach(p, q) \/ undetach(p, q)
    PROVE  Waiters'
<1>1. /\ running = p /\ pc[p] = "run"
      /\ UNCHANGED <<life, sched_added, arcs, sleeping, running, kind, completed, caller,
                     wait_queue, items, on, waking>>
      /\ \A r \in Agents \ {p} : pc'[r] = pc[r] /\ why'[r] = why[r] /\ arg'[r] = arg[r]
      /\ pc'[p] = "run" \/ (pc'[p] = "kill" /\ arg'[p] = q /\ completed[q])
  BY DEF detach, undetach, At, vars, schedVars, ctxVars, Before, PTypeOK, Actors
<1>2. Moves(p) /\ QueuesKept
  BY <1>1 DEF Moves, QueuesKept
<1>3. /\ Scheduled(p)' /\ on[p] = {} /\ waking = {} /\ sleeping[p] = None
      /\ \A r \in Agents : caller[r] # p
  BY <1>1, Working DEF Scheduled, HasClass
<1>4. ActorsInOrder'
  BY <1>1, <1>2, <1>3, MovesOrder DEF Completing
<1>5. GetsOne' /\ QueuesHoldWaiters'
  BY <1>1, <1>2, <1>3, MovesQueues DEF Before, Waiters, QueuesHoldWaiters, Activity
<1>6. Awaking' /\ NoLostWakeup'
  BY <1>1, <1>2, <1>3 DEF Before, Waiters, Moves, Awaking, NoLostWakeup, Completing, poll
<1>7. CallerStaysInCall'
  BY <1>1, <1>2, <1>3, MovesCalls
<1>. QED BY <1>4, <1>5, <1>6, <1>7 DEF Waiters

\* When nobody is left to wake, no waiter of a completing process sleeps.
LEMMA WakeDoneKeeps ==
    ASSUME Before, PTypeOK', NEW p \in Agents, WakeDone(p)
    PROVE  Waiters'
<1>1. /\ running = p /\ pc[p] = "wake" /\ waking = {}
      /\ pc' = [pc EXCEPT ![p] = IF why[p] = "finish" THEN "complete" ELSE "run"]
      /\ UNCHANGED <<life, sched_added, arcs, sleeping, running, kind, completed, caller,
                     wait_queue, items, why, arg, on, waking>>
  BY DEF WakeDone, At, Goto, vars, schedVars, ctxVars
<1>2. Moves(p) /\ QueuesKept /\ pc'[p] \in {"complete", "run"} /\ (Completing(p)' => Completing(p))
  BY <1>1 DEF Moves, QueuesKept, Completing, Before, PTypeOK, Actors
<1>3. /\ Scheduled(p)' /\ on[p] = {} /\ sleeping[p] = None
      /\ \A q \in Agents : caller[q] # p
  BY <1>1, Working DEF Scheduled, HasClass
<1>4. ActorsInOrder'
  <2>1. Completing(p) => IsProcess(p)
    BY DEF Before, Waiters, ActorsInOrder
  <2>. QED BY <2>1, <1>1, <1>2, <1>3, MovesOrder
<1>5. GetsOne' /\ QueuesHoldWaiters'
  BY <1>1, <1>2, <1>3, MovesQueues DEF Before, Waiters, QueuesHoldWaiters, Activity
<1>6. Awaking' /\ NoLostWakeup'
  <2>1. \A r \in Agents : Completing(r)' => Completing(r)
    BY <1>2 DEF Moves, Completing
  <2>. QED BY <2>1, <1>1, <1>2 DEF Before, Waiters, Moves, Awaking, NoLostWakeup, poll
<1>7. CallerStaysInCall'
  BY <1>1, <1>2, <1>3, MovesCalls
<1>. QED BY <1>4, <1>5, <1>6, <1>7 DEF Waiters

\* The end of run().
LEMMA FinishKeeps ==
    ASSUME Before, PTypeOK', NEW p \in Agents, Finish(p)
    PROVE  Waiters'
<1>1. /\ running = p /\ pc[p] = "run"
      /\ UNCHANGED <<life, sched_added, arcs, sleeping, running, kind, completed, caller,
                     wait_queue, items, on>>
      /\ \A r \in Agents \ {p} : pc'[r] = pc[r] /\ why'[r] = why[r] /\ arg'[r] = arg[r]
      /\ \/ pc'[p] = "return" /\ waking' = waking
         \/ pc'[p] \in {"reply", "kill"} /\ arg'[p] = p /\ waking' = waking
         \/ pc'[p] = "wake" /\ why'[p] = "finish" /\ IsProcess(p) /\ waking' = wait_queue[p]
  BY DEF Finish, Die, wake_all, At, Goto, vars, schedVars, ctxVars, Before, PTypeOK, Actors
<1>2. Moves(p) /\ QueuesKept
  BY <1>1 DEF Moves, QueuesKept
<1>3. /\ Scheduled(p)' /\ on[p] = {} /\ waking = {} /\ sleeping[p] = None
      /\ \A r \in Agents : caller[r] # p
  BY <1>1, Working DEF Scheduled, HasClass
<1>4. ActorsInOrder'
  BY <1>1, <1>2, <1>3, MovesOrder DEF Completing
<1>5. GetsOne' /\ QueuesHoldWaiters'
  BY <1>1, <1>2, <1>3, MovesQueues DEF Before, Waiters, QueuesHoldWaiters, Activity
<1>6. Awaking'
  <2>1. \A r \in Agents \ {p} : ~Completing(r)' /\ pc'[r] # "sleep"
    BY <1>1, <1>2, Working DEF Completing, Moves, Suspended
  <2>2. wait_queue[p] \subseteq Agents /\ \A w \in wait_queue[p] : on[w] # {}
    BY DEF Before, Waiters, PTypeOK, QueuesHoldWaiters, Sources
  <2>3. Completing(p)' => waking' = wait_queue[p]
    BY <1>1 DEF Completing
  <2>. QED BY <2>1, <2>2, <2>3, <1>1, <1>3, NoneAssumption DEF Awaking
<1>7. NoLostWakeup'
  BY <1>1, <1>2, <1>3 DEF Before, Waiters, Moves, NoLostWakeup, poll
<1>8. CallerStaysInCall'
  BY <1>1, <1>2, <1>3, MovesCalls
<1>. QED BY <1>4, <1>5, <1>6, <1>7, <1>8 DEF Waiters

\* After a wake-up: the wait is over, or nothing is ready and it sleeps again.
LEMMA ResumeKeeps ==
    ASSUME Before, PTypeOK', NEW p \in Agents, Resume(p)
    PROVE  Waiters'
<1>1. /\ running = p /\ pc[p] = "off"
      /\ UNCHANGED <<life, sched_added, arcs, sleeping, running, kind, completed, caller,
                     why, arg, waking>>
      /\ \A r \in Agents \ {p} : pc'[r] = pc[r] /\ on'[r] = on[r]
  BY DEF Resume, At, Goto, vars, schedVars, ctxVars, Before, PTypeOK, Actors
<1>2. Moves(p)
  BY <1>1 DEF Moves
<1>3. Scheduled(p)' /\ Activity(p) /\ waking = {} /\ sleeping[p] = None
  BY <1>1, Working DEF Scheduled, HasClass
<1>4. \A q \in Agents : caller[q] # p
  BY <1>1, <1>3, NoneAssumption DEF Before, Waiters, CallerStaysInCall
<1>5. \/ /\ pc'[p] = "run" /\ Polled(p) /\ on'[p] = {}
         /\ \A s \in Sources : wait_queue'[s] = wait_queue[s] \ {p}
         /\ \A s \in Sets : items'[s] <= items[s]
      \/ /\ pc'[p] = "sleep" /\ ~Polled(p)
         /\ UNCHANGED <<wait_queue, items, on>>
  <2>1. CASE Polled(p)
    <3>1. /\ pc'[p] = "run" /\ on'[p] = {}
          /\ wait_queue' = IF on[p] = {} THEN wait_queue ELSE LeaveQueues(p)
          /\ items' = IF why[p] = "get"
                       THEN [s \in Sets |-> IF s \in on[p] THEN items[s] - 1 ELSE items[s]] ELSE items
      BY <2>1 DEF Resume, Goto, Before, PTypeOK, Actors
    <3>2. \A s \in Sources : wait_queue'[s] = wait_queue[s] \ {p}
      <4>1. CASE on[p] = {}
        <5>1. \A s \in Sources : p \notin wait_queue[s]
          BY <4>1 DEF Before, Waiters, QueuesHoldWaiters
        <5>. QED BY <3>1, <4>1, <5>1
      <4>2. CASE on[p] # {}
        BY <3>1, <4>2 DEF LeaveQueues
      <4>. QED BY <4>1, <4>2
    <3>3. \A s \in Sets : items'[s] <= items[s]
      BY <3>1, MaxItemsAssumption DEF Before, PTypeOK
    <3>. QED BY <2>1, <3>1, <3>2, <3>3
  <2>2. CASE ~Polled(p)
    BY <2>2 DEF Resume, Goto, Before, PTypeOK, Actors
  <2>. QED BY <2>1, <2>2
<1>6. ActorsInOrder'
  BY <1>1, <1>2, <1>3, <1>5, MovesOrder DEF Completing
<1>7. GetsOne'
  BY <1>1, <1>5 DEF Before, Waiters, GetsOne
<1>8. QueuesHoldWaiters'
  <2>1. ASSUME NEW r \in Agents
        PROVE  /\ on'[r] = {s \in Sources : r \in wait_queue'[s]}
               /\ on'[r] # {} => on[r] # {} /\ (r = p => pc'[p] = "sleep")
    <3>1. on[r] = {s \in Sources : r \in wait_queue[s]}
      BY DEF Before, Waiters, QueuesHoldWaiters
    <3>2. CASE r = p
      BY <3>1, <3>2, <1>5
    <3>3. CASE r # p
      BY <3>1, <3>3, <1>1, <1>5
    <3>. QED BY <3>2, <3>3
  <2>. QED BY <2>1, <1>1, <1>2 DEF Before, Waiters, QueuesHoldWaiters, Moves, Activity
<1>9. \A s \in Sources : ~poll(s) => ~poll(s)'
  BY <1>1, <1>5 DEF poll, Before, PTypeOK
<1>10. Awaking'
  <2>1. \A r \in Agents : ~Completing(r)'
    BY <1>1, <1>2, <1>5, Working DEF Completing, Moves, Suspended
  <2>2. \A r \in Agents : pc'[r] = "sleep" => r = p /\ ~Polled(p) /\ UNCHANGED <<items, on, completed>>
    BY <1>1, <1>2, <1>5, Working DEF Moves, Suspended
  <2>3. ~Polled(p) => \A s \in on[p] : ~poll(s)
    BY DEF Polled
  <2>. QED BY <2>1, <2>2, <2>3, <1>1, <1>3 DEF Awaking, poll
<1>11. NoLostWakeup'
  <2>1. \A r \in Agents : on[r] \subseteq Sources
    BY DEF Before, PTypeOK
  <2>. QED BY <2>1, <1>1, <1>3, <1>9 DEF Before, Waiters, NoLostWakeup
<1>12. CallerStaysInCall'
  BY <1>1, <1>2, <1>4, MovesCalls
<1>. QED BY <1>6, <1>7, <1>8, <1>10, <1>11, <1>12 DEF Waiters

\* Waking an agent that no callee knows any more disturbs nothing.
LEMMA AwakeKeeps ==
    ASSUME Before, PTypeOK', NEW p \in Agents, NEW w \in Agents, awake(p, w)
    PROVE  Waiters'
<1>1. /\ running = p /\ pc[p] = "wake" /\ w \in waking /\ waking' = waking \ {w}
      /\ UNCHANGED <<kind, completed, caller, wait_queue, items, pc, why, arg, on>>
  BY DEF awake, At
<1>2. /\ UNCHANGED <<life, running>> /\ sleeping' = [sleeping EXCEPT ![w] = None]
      /\ \A a \in Agents : Scheduled(a) => Scheduled(a)'
  BY WakeupEffect DEF awake, Before, Known, PTypeOK
<1>3. sleeping'[w] = None /\ \A r \in Agents \ {w} : sleeping'[r] = sleeping[r]
  BY <1>2 DEF Before, PTypeOK, TypeOK
<1>4. Moves(p) /\ QueuesKept
  BY <1>1 DEF Moves, QueuesKept
<1>5. /\ Scheduled(p)' /\ on[p] = {} /\ \A q \in Agents : caller[q] # p
  BY <1>1, <1>2, Working
<1>6. \A q \in Agents : caller[q] # w
  <2>1. why[w] # "call"
    BY <1>1 DEF Before, Waiters, Awaking, QueuesHoldWaiters
  <2>. QED BY <2>1, NoneAssumption DEF Before, Waiters, CallerStaysInCall
<1>7. ActorsInOrder'
  <2>1. Completing(p)' => Completing(p)
    BY <1>1 DEF Completing
  <2>. QED BY <2>1, <1>1, <1>2, <1>4, <1>5, MovesOrder DEF Before, Waiters, ActorsInOrder
<1>8. GetsOne' /\ QueuesHoldWaiters'
  BY <1>1, <1>2, <1>4, <1>5, MovesQueues DEF Before, Waiters, QueuesHoldWaiters, Activity
<1>9. Awaking'
  BY <1>1, <1>2, <1>3 DEF Before, Waiters, Awaking, Completing, poll, PTypeOK, Sources
<1>10. NoLostWakeup'
  BY <1>1, <1>3 DEF Before, Waiters, NoLostWakeup, poll
<1>11. CallerStaysInCall'
  <2>1. \A q \in Agents : caller[q] # None => sleeping'[caller[q]] = sleeping[caller[q]]
    BY <1>3, <1>6 DEF Before, PTypeOK
  <2>. QED BY <2>1, <1>1, <1>4, <1>5, MovesCalls
<1>. QED BY <1>7, <1>8, <1>9, <1>10, <1>11 DEF Waiters

\* do_return and the destructor of a callee wake the caller and forget it.
LEMMA AnswerKeeps ==
    ASSUME Before, PTypeOK', NEW p \in Agents, do_return(p) \/ Reply(p)
    PROVE  Waiters'
<1>1. /\ running = p /\ pc[p] \in {"run", "reply"} /\ caller[p] \in Agents
      /\ pm_sched_wakeup(caller[p]) /\ caller' = [caller EXCEPT ![p] = None]
      /\ pc' \in {pc, [pc EXCEPT ![p] = "kill"]}
      /\ pc'[p] = "run" \/ (pc[p] = "reply" /\ pc'[p] = "kill")
      /\ UNCHANGED <<kind, completed, wait_queue, items, why, arg, on, waking>>
  BY DEF do_return, Reply, Replied, At, Goto, Before, Known, ProcInv, CallArgs, PTypeOK, Actors
<1>2. /\ UNCHANGED <<life, running>> /\ sleeping' = [sleeping EXCEPT ![caller[p]] = None]
      /\ \A a \in Agents : Scheduled(a) => Scheduled(a)'
  BY <1>1, WakeupEffect DEF Before, Known, PTypeOK
<1>3. \A r \in Agents : r # caller[p] => sleeping'[r] = sleeping[r]
  BY <1>2 DEF Before, PTypeOK, TypeOK
<1>4. \A r \in Agents : sleeping'[r] # None => sleeping[r] # None
  BY <1>1, <1>2 DEF Before, PTypeOK, TypeOK
<1>5. Moves(p) /\ QueuesKept
  BY <1>1 DEF Moves, QueuesKept, Before, PTypeOK, Actors
<1>6. /\ Scheduled(p)' /\ on[p] = {} /\ waking = {} /\ \A q \in Agents : caller[q] # p
  BY <1>1, <1>2, Working
<1>7. ActorsInOrder'
  BY <1>1, <1>2, <1>5, <1>6, MovesOrder DEF Before, Waiters, ActorsInOrder, Completing
<1>8. GetsOne' /\ QueuesHoldWaiters'
  BY <1>1, <1>2, <1>5, <1>6, MovesQueues DEF Before, Waiters, QueuesHoldWaiters, Activity
<1>9. Awaking'
  <2>1. \A r \in Agents : ~Completing(r)' /\ pc'[r] # "sleep"
    BY <1>1, <1>5, Working DEF Completing, Moves, Suspended
  <2>. QED BY <2>1, <1>1, <1>6 DEF Awaking
<1>10. NoLostWakeup'
  BY <1>1, <1>4, <1>6 DEF Before, Waiters, NoLostWakeup, poll
<1>11. CallerStaysInCall'
  <2>1. \A q \in Agents : caller'[q] \in {caller[q], None}
    BY <1>1 DEF Before, PTypeOK
  <2>2. ASSUME NEW q \in Agents, caller'[q] # None
        PROVE  sleeping'[caller[q]] = sleeping[caller[q]]
    <3>1. q # p /\ caller[q] = caller'[q] /\ caller[q] \in Agents
      BY <2>2, <1>1 DEF Before, PTypeOK
    <3>2. caller[q] # caller[p]
      BY <2>2, <3>1 DEF Before, Waiters, CallerStaysInCall
    <3>. QED BY <3>1, <3>2, <1>3
  <2>. QED BY <2>1, <2>2, <1>5, <1>6, MovesCalls
<1>. QED BY <1>7, <1>8, <1>9, <1>10, <1>11 DEF Waiters

\* Nobody goes to sleep beside a ready source.
LEMMA SleepKeeps ==
    ASSUME Before, PTypeOK', NEW p \in Agents, sleep(p)
    PROVE  Waiters'
<1>1. /\ running = p /\ pc[p] = "sleep" /\ current = p /\ pc' = [pc EXCEPT ![p] = "switch"]
      /\ pm_sched_put_to_sleep(p) /\ Scheduled(p) /\ Activity(p)
      /\ UNCHANGED <<kind, completed, caller, wait_queue, items, why, arg, on, waking>>
  BY Working DEF sleep, At, Goto
<1>2. /\ UNCHANGED <<life, running>> /\ sleeping'[p] # None
      /\ \A a \in Agents \ {p} : sleeping'[a] = sleeping[a]
  BY <1>1, SleepEffect DEF Before, PTypeOK
<1>3. Moves(p) /\ QueuesKept /\ pc'[p] = "switch"
  BY <1>1 DEF Moves, QueuesKept, Before, PTypeOK, Actors
<1>4. ActorsInOrder'
  BY <1>1, <1>2, <1>3, MovesOrder DEF Completing
<1>5. GetsOne'
  BY <1>1 DEF Before, Waiters, GetsOne
<1>6. QueuesHoldWaiters'
  BY <1>1, <1>2, <1>3 DEF Before, Waiters, QueuesHoldWaiters, Moves, Activity
<1>7. Awaking'
  <2>1. \A r \in Agents : ~Completing(r)' /\ pc'[r] # "sleep"
    BY <1>1, <1>3, Working DEF Completing, Moves, Suspended
  <2>2. waking = {}
    BY <1>1, Working
  <2>. QED BY <2>1, <2>2, <1>1 DEF Awaking
<1>8. NoLostWakeup'
  BY <1>1, <1>2 DEF Before, Waiters, NoLostWakeup, Awaking, poll
<1>9. CallerStaysInCall'
  BY <1>1, <1>2, <1>3 DEF Before, Waiters, CallerStaysInCall, Moves, PTypeOK
<1>. QED BY <1>4, <1>5, <1>6, <1>7, <1>8, <1>9 DEF Waiters

\* The end of a quantum: p leaves the processor.
LEMMA LeaveKeeps ==
    ASSUME Before, PTypeOK', NEW p \in Agents, yield(p) \/ SwitchOut(p) \/ ActivityReturns(p)
    PROVE  Waiters'
<1>1. /\ running = p /\ running' = None
      /\ UNCHANGED <<life, sleeping, kind, completed, caller, wait_queue, items, arg, on, waking>>
      /\ \A r \in Agents \ {p} : pc'[r] = pc[r] /\ why'[r] = why[r]
      /\ \/ pc[p] = "run" /\ pc'[p] = "off"
         \/ pc[p] = "switch" /\ pc'[p] = "off" /\ why'[p] = why[p]
         \/ pc[p] = "return" /\ pc'[p] = IF IsProcess(p) THEN "gone" ELSE "entry"
  BY DEF yield, SwitchOut, ActivityReturns, context_switchback, Return, At, Goto, schedVars,
         Before, PTypeOK, Actors
<1>2. Moves(p) /\ QueuesKept
  BY <1>1 DEF Moves, QueuesKept
<1>3. waking = {}
  BY <1>1, Working
<1>4. ActorsInOrder'
  <2>1. ASSUME NEW r \in Agents
        PROVE  /\ life'[r] = "unborn" => pc'[r] = "gone" /\ ~completed'[r]
               /\ completed'[r] => pc'[r] \in {"return", "gone"} /\ IsProcess(r)'
    <3>1. CASE r = p
      BY <3>1, <1>1 DEF Before, Waiters, ActorsInOrder, IsProcess
    <3>2. CASE r # p
      BY <3>2, <1>1 DEF Before, Waiters, ActorsInOrder, IsProcess
    <3>. QED BY <3>1, <3>2
  <2>2. (\A r \in Agents : running = r \/ pc[r] \in Suspended)'
    BY <1>1, Working DEF Suspended
  <2>3. \A r \in Agents : ~Completing(r)' /\ pc'[r] \notin {"reply", "kill"}
    BY <2>2, <1>1, NoneAssumption DEF Completing, Suspended
  <2>. QED BY <2>1, <2>2, <2>3, <1>1 DEF ActorsInOrder
<1>5. QueuesHoldWaiters' /\ GetsOne'
  <2>1. pc[p] = "run" => on[p] = {}
    BY <1>1, Working
  <2>2. \A r \in Agents : on[r] # {} => why'[r] = why[r] /\ pc'[r] \in {"sleep", "switch", "off"}
    BY <2>1, <1>1 DEF Before, Waiters, QueuesHoldWaiters
  <2>. QED BY <2>2, <1>1 DEF Before, Waiters, QueuesHoldWaiters, GetsOne, Activity
<1>6. Awaking'
  <2>1. \A r \in Agents : ~Completing(r)' /\ pc'[r] # "sleep"
    BY <1>1, <1>2, Working DEF Completing, Moves, Suspended
  <2>. QED BY <2>1, <1>1, <1>3 DEF Awaking
<1>7. NoLostWakeup'
  <2>1. pc[p] \in {"run", "return"} => on[p] = {}
    BY <1>1, Working
  <2>. QED BY <2>1, <1>1, <1>2 DEF Before, Waiters, NoLostWakeup, Moves, poll
<1>8. CallerStaysInCall'
  <2>1. CASE pc[p] # "switch"
    BY <2>1, <1>1, <1>2, Working, MovesCalls
  <2>2. CASE pc[p] = "switch"
    BY <2>2, <1>1, <1>2 DEF Before, Waiters, CallerStaysInCall, Moves, PTypeOK
  <2>. QED BY <2>1, <2>2
<1>. QED BY <1>4, <1>5, <1>6, <1>7, <1>8 DEF Waiters

\* A process becomes ready for its waiters when none of them sleeps.
LEMMA CompleteKeeps ==
    ASSUME Before, PTypeOK', NEW p \in Agents, Complete(p)
    PROVE  Waiters'
<1>1. /\ running = p /\ pc[p] = "complete" /\ pm_sched_remove_agent(p)
      /\ completed' = [completed EXCEPT ![p] = TRUE] /\ pc' = [pc EXCEPT ![p] = "return"]
      /\ UNCHANGED <<kind, caller, wait_queue, items, why, arg, on, waking>>
  BY DEF Complete, At, Goto
<1>2. UNCHANGED <<life, running, sleeping>>
  BY <1>1, RemoveEffect DEF Before, PTypeOK
<1>3. Moves(p) /\ QueuesKept /\ pc'[p] = "return" /\ completed'[p]
      /\ \A r \in Agents \ {p} : completed'[r] = completed[r]
  BY <1>1 DEF Moves, QueuesKept, Before, PTypeOK, Actors
<1>4. /\ Activity(p) /\ on[p] = {} /\ waking = {} /\ sleeping[p] = None
      /\ \A q \in Agents : caller[q] # p
  BY <1>1, Working
<1>5. IsProcess(p)
  BY <1>1 DEF Before, Waiters, ActorsInOrder, Completing
<1>6. ActorsInOrder'
  <2>1. ASSUME NEW r \in Agents
        PROVE  /\ life'[r] = "unborn" => pc'[r] = "gone" /\ ~completed'[r]
               /\ completed'[r] => pc'[r] \in {"return", "gone"} /\ IsProcess(r)'
    <3>1. CASE r = p
      BY <3>1, <1>1, <1>2, <1>3, <1>4, <1>5 DEF Activity, IsProcess
    <3>2. CASE r # p
      BY <3>2, <1>1, <1>2, <1>3 DEF Before, Waiters, ActorsInOrder, IsProcess, Moves
    <3>. QED BY <3>1, <3>2
  <2>2. \A r \in Agents : /\ running' = r \/ pc'[r] \in Suspended
                          /\ ~Completing(r)' /\ pc'[r] \notin {"reply", "kill"}
    BY <1>1, <1>2, <1>3, Working DEF Moves, Suspended, Completing
  <2>. QED BY <2>1, <2>2, <1>1, <1>2, <1>3 DEF ActorsInOrder
<1>7. GetsOne' /\ QueuesHoldWaiters'
  BY <1>1, <1>2, <1>3, <1>4, MovesQueues DEF Before, Waiters, QueuesHoldWaiters, Activity
<1>8. Awaking'
  <2>1. \A r \in Agents : ~Completing(r)' /\ pc'[r] # "sleep"
    BY <1>1, <1>3, Working DEF Completing, Moves, Suspended
  <2>. QED BY <2>1, <1>1, <1>4 DEF Awaking
<1>9. NoLostWakeup'
  <2>1. \A r \in Agents : p \in on[r] => sleeping[r] = None
    BY <1>1, <1>4 DEF Before, Waiters, Awaking, Completing, QueuesHoldWaiters
  <2>2. \A s \in Sources \ {p} : poll(s)' = poll(s)
    BY <1>1, <1>3 DEF poll, Sources
  <2>3. \A r \in Agents : on[r] \subseteq Sources
    BY DEF Before, PTypeOK
  <2>. QED BY <2>1, <2>2, <2>3, <1>1, <1>2, <1>4 DEF Before, Waiters, NoLostWakeup
<1>10. CallerStaysInCall'
  BY <1>1, <1>2, <1>3, <1>4, MovesCalls
<1>. QED BY <1>6, <1>7, <1>8, <1>9, <1>10 DEF Waiters

\* A process that deletes itself is on its way out, and one that is deleted by
\* another has completed: neither waits or is in a call.
LEMMA KillKeeps ==
    ASSUME Before, PTypeOK', NEW p \in Agents, Kill(p)
    PROVE  Waiters'
<1>1. /\ running = p /\ pc[p] = "kill" /\ Destroy(arg[p])
      /\ pc' = IF arg[p] = p THEN [pc EXCEPT ![p] = "return"]
               ELSE [pc EXCEPT ![p] = "run", ![arg[p]] = "gone"]
      /\ arg' = [arg EXCEPT ![p] = None]
      /\ UNCHANGED <<kind, completed, caller, wait_queue, items, why, on, waking>>
  BY DEF Kill, At
<1>2. PICK q \in Agents : arg[p] = q /\ (q # p => completed[q] /\ pc[q] \in {"return", "gone"})
  BY <1>1 DEF Before, Waiters, ActorsInOrder
<1>3. /\ UNCHANGED running /\ life'[q] # "unborn" /\ sleeping'[q] \in {sleeping[q], None}
      /\ \A a \in Agents \ {q} : /\ life'[a] = life[a] /\ sleeping'[a] = sleeping[a]
                                 /\ Scheduled(a) => Scheduled(a)'
  BY <1>1, <1>2, DestroyEffect DEF Before, PTypeOK
<1>4. \A r \in Agents : /\ r \notin {p, q} => pc'[r] = pc[r]
                        /\ r = p => pc'[r] = IF q = p THEN "return" ELSE "run"
                        /\ r = q /\ q # p => pc'[r] = "gone"
                        /\ r # p => arg'[r] = arg[r]
  BY <1>1, <1>2 DEF Before, PTypeOK, Actors
<1>5. /\ Activity(p) /\ Scheduled(p) /\ on[p] = {} /\ waking = {}
      /\ \A r \in Agents : caller[r] # p
  BY <1>1, Working
<1>6. on[q] = {} /\ \A r \in Agents : caller[r] # q
  BY <1>2, <1>5, NoneAssumption DEF Before, Waiters, QueuesHoldWaiters, CallerStaysInCall
<1>7. ASSUME NEW r \in Agents
       PROVE  /\ r # p => pc'[r] \in Suspended
              /\ ~Completing(r)' /\ pc'[r] \notin {"sleep", "reply", "kill"}
  <2>1. CASE r \in {p, q}
    BY <2>1, <1>4 DEF Suspended, Completing
  <2>2. CASE r \notin {p, q}
    <3>1. pc'[r] = pc[r] /\ pc[r] \in Suspended
      BY <2>2, <1>1, <1>4, Working
    <3>. QED BY <2>2, <3>1 DEF Suspended, Completing
  <2>. QED BY <2>1, <2>2
<1>8. ActorsInOrder'
  <2>1. ASSUME NEW r \in Agents
        PROVE  /\ life'[r] = "unborn" => pc'[r] = "gone" /\ ~completed'[r]
               /\ completed'[r] => pc'[r] \in {"return", "gone"} /\ IsProcess(r)'
    <3>1. CASE r = q
      BY <3>1, <1>1, <1>2, <1>3, <1>4 DEF Before, Waiters, ActorsInOrder, IsProcess
    <3>2. CASE r = p /\ r # q
      BY <3>2, <1>1, <1>3, <1>4, <1>5 DEF Before, Waiters, ActorsInOrder, Activity
    <3>3. CASE r \notin {p, q}
      BY <3>3, <1>1, <1>3, <1>4 DEF Before, Waiters, ActorsInOrder, IsProcess
    <3>. QED BY <3>1, <3>2, <3>3
  <2>2. \A r \in Agents : running' = r \/ pc'[r] \in Suspended
    BY <1>1, <1>3, <1>7
  <2>3. pc'[p] = "return" \/ (Activity(p)' /\ Scheduled(p)')
    BY <1>3, <1>4, <1>5 DEF Activity
  <2>. QED BY <2>1, <2>2, <2>3, <1>1, <1>3, <1>7 DEF ActorsInOrder
<1>9. GetsOne' /\ QueuesHoldWaiters'
  <2>1. \A r \in Agents : on[r] # {} => r \notin {p, q}
    BY <1>5, <1>6
  <2>. QED BY <2>1, <1>1, <1>3, <1>4 DEF Before, Waiters, GetsOne, QueuesHoldWaiters, Activity
<1>10. Awaking'
  BY <1>1, <1>5, <1>7 DEF Awaking
<1>11. NoLostWakeup'
  BY <1>1, <1>3, <1>5 DEF Before, Waiters, NoLostWakeup, poll
<1>12. CallerStaysInCall'
  <2>. SUFFICES ASSUME NEW u \in Agents, caller[u] # None
                PROVE  /\ why[caller[u]] = "call"
                       /\ \/ sleeping'[caller[u]] # None /\ pc'[caller[u]] \in {"switch", "off"}
                          \/ running = caller[u] /\ pc'[caller[u]] \in {"ctor", "sleep"}
                       /\ \A r \in Agents : caller[r] = caller[u] => r = u
    BY <1>1, <1>3 DEF CallerStaysInCall
  <2>1. caller[u] \in Agents \ {p, q}
    BY <1>5, <1>6 DEF Before, PTypeOK
  <2>2. sleeping'[caller[u]] = sleeping[caller[u]] /\ pc'[caller[u]] = pc[caller[u]]
    BY <2>1, <1>3, <1>4
  <2>. QED BY <2>2 DEF Before, Waiters, CallerStaysInCall
<1>. QED BY <1>8, <1>9, <1>10, <1>11, <1>12 DEF Waiters

-----------------------------------------------------------------------------
(* Every step.                                                             *)

\* One step per operation.
LEMMA ChooseKeeps ==
    ASSUME Before, PTypeOK', NEW p \in Actors, Choose(p)
    PROVE  Waiters'
<1>1. ASSUME NEW q \in Agents, Spawn(p, q) \/ call(p, q)
      PROVE  Waiters'
  BY <1>1, CreateKeeps DEF Spawn, call, Kinds
<1>2. ASSUME p \in Agents, NEW q \in Agents, wait_for(p, q)
      PROVE  Waiters'
  BY <1>2, EnterKeeps DEF wait_for, CanWait, Sources
<1>3. ASSUME p \in Agents, NEW S \in (SUBSET Sources) \ {{}}, select(p, S)
      PROVE  Waiters'
  BY <1>3, EnterKeeps DEF select, SelectReady, CanWait
<1>4. ASSUME p \in Agents, NEW s \in Sets, get(p, s)
      PROVE  Waiters'
  <2>1. CASE poll(s)
    BY <1>4, <2>1, TakeKeeps DEF get, CanWait
  <2>2. CASE ~poll(s)
    BY <1>4, <2>2, EnterKeeps DEF get, CanWait, Sources
  <2>. QED BY <2>1, <2>2
<1>. QED BY <1>1, <1>2, <1>3, <1>4, PutKeeps, DetachKeeps, AnswerKeeps
         DEF Choose, Actors, wait_for, select, get, put, detach, undetach, do_return, CanWait

\* One step per step of the library, and only the constructor is the host's.
LEMMA ContinueKeeps ==
    ASSUME Before, PTypeOK', NEW p \in Actors, Continue(p) \/ GiveBack(p)
    PROVE  Waiters'
<1>1. p \in Agents \/ ctor_add(p)
  BY DEF Continue, GiveBack, Begin, Resume, sleep, SwitchOut, awake, WakeDone, Complete, Reply,
         Kill, ActivityReturns, yield, Finish, At, Actors, Before, Known, ProcInv, CallArgs
<1>2. CASE ctor_add(p)
  BY <1>2, CtorKeeps
<1>3. CASE p \in Agents
  BY <1>3, CtorKeeps, BeginKeeps, ResumeKeeps, SleepKeeps, LeaveKeeps, AwakeKeeps, WakeDoneKeeps,
     CompleteKeeps, AnswerKeeps, KillKeeps, FinishKeeps DEF Continue, GiveBack
<1>. QED BY <1>1, <1>2, <1>3

\* The invariant is kept, given what is known of the scheduler after the step.
LEMMA NextKeeps == Before /\ [PNext]_pvars /\ Known' => Before'
<1>. SUFFICES ASSUME Before, [PNext]_pvars, Known'
              PROVE  Before'
  OBVIOUS
<1>1. PTypeOK'
  BY NextTypes DEF Before, Known, Waiters
<1>2. Waiters'
  <2>1. CASE DoStep
    BY <2>1, <1>1, StepKeeps
  <2>2. CASE \E p \in Actors : Choose(p) \/ Continue(p) \/ GiveBack(p)
    BY <2>2, <1>1, ChooseKeeps, ContinueKeeps
  <2>3. CASE UNCHANGED pvars
    BY <2>3 DEF pvars, procVars, vars, schedVars, ctxVars, Before, Waiters, ActorsInOrder, GetsOne,
                QueuesHoldWaiters, Awaking, NoLostWakeup, CallerStaysInCall, Completing, Scheduled,
                HasClass, Activity, IsProcess, poll
  <2>. QED BY <2>1, <2>2, <2>3 DEF PNext
<1>. QED BY <1>1, <1>2 DEF Before

\* It holds at first, when no agent exists.
LEMMA InitBefore == PInit => PTypeOK /\ Waiters
<1>. SUFFICES ASSUME PInit
              PROVE  PTypeOK /\ Waiters
  OBVIOUS
<1>1. TypeOK
  BY InitType DEF PInit
<1>2. PTypeOK
  BY <1>1, MaxItemsAssumption DEF PInit, PTypeOK, Kinds, Actors
<1>3. \A p \in Agents : pc[p] = "gone" /\ why[p] = "none" /\ on[p] = {} /\ caller[p] = None
  BY NoneAssumption DEF PInit, Actors
<1>4. running = None /\ waking = {} /\ \A p \in Agents : ~completed[p]
  BY DEF PInit, Init
<1>5. QueuesHoldWaiters
  BY <1>3 DEF PInit, QueuesHoldWaiters
<1>6. ActorsInOrder /\ GetsOne /\ Awaking /\ NoLostWakeup /\ CallerStaysInCall
  BY <1>3, <1>4 DEF ActorsInOrder, GetsOne, Awaking, NoLostWakeup, CallerStaysInCall, Suspended,
                    Completing
<1>. QED BY <1>2, <1>5, <1>6 DEF Waiters

\* And so it holds always.
LEMMA AllSteps == PSpec => []Before
<1>1. PSpec => []ProcInv
  BY InitProc, NextProc, PTL DEF PSpec
<1>2. PSpec => []Known
  BY <1>1, ProcessesSafe, PTL DEF Known
<1>3. PInit /\ Known => Before
  BY InitBefore DEF Before
<1>. QED BY <1>2, <1>3, NextKeeps, PTL DEF PSpec

\* The process layer never leaves the values it is meant to keep: an item taken
\* after a wake-up was there, and a destructor always has an agent to destroy.
THEOREM ProcessTypes == PSpec => []PTypeOK
BY AllSteps, PTL DEF Before

\* A queue holds exactly the live processes that wait for its source.
THEOREM WaitersQueued == PSpec => []QueuesHoldWaiters
BY AllSteps, PTL DEF Before, Waiters

\* No process sleeps in select or get beside a source that is ready.
THEOREM WakeupsArrive == PSpec => []NoLostWakeup
BY AllSteps, PTL DEF Before, Waiters

\* A caller stays inside its sleeping call for as long as its callee knows it.
THEOREM CallersStay == PSpec => []CallerStaysInCall
BY AllSteps, PTL DEF Before, Waiters
=============================================================================
