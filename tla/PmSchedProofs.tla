--------------------------- MODULE PmSchedProofs ---------------------------
(***************************************************************************)
(* Proofs about the scheduler of PmSched, for any sets of agents and of    *)
(* stacks.                                                                 *)
(***************************************************************************)
EXTENDS PmSched, TLAPS

\* A list that holds nothing twice.
Unique(q) == \A i, j \in DOMAIN q : q[i] = q[j] => i = j

-----------------------------------------------------------------------------
(***************************************************************************)
(* The lists                                                               *)
(***************************************************************************)

\* std::list::remove on a list of agents yields a list of agents, whether the
\* agent is in it or not.
LEMMA ListRemoveType ==
    ASSUME NEW S, NEW q \in Seq(S), NEW a
    PROVE  ListRemove(q, a) \in Seq(S)
<1>1. CASE a \in Members(q)
  <2>. DEFINE i == CHOOSE k \in DOMAIN q : q[k] = a
  <2>. DEFINE r == [j \in 1 .. (Len(q) - 1) |-> IF j < i THEN q[j] ELSE q[j + 1]]
  <2>1. ListRemove(q, a) = r
    BY <1>1 DEF ListRemove
  <2>2. i \in 1 .. Len(q)
    BY <1>1 DEF Members
  <2>3. Len(q) - 1 \in Nat
    BY <2>2
  <2>4. \A j \in 1 .. (Len(q) - 1) : r[j] \in S
    BY <2>2
  <2>5. r \in Seq(S)
    BY <2>3, <2>4
  <2>. QED BY <2>1, <2>5
<1>2. CASE a \notin Members(q)
  BY <1>2 DEF ListRemove
<1>. QED BY <1>1, <1>2

\* In a list that holds nothing twice, the agent that is removed is gone, the
\* others stay, and still nothing is in the list twice.
LEMMA ListRemoveMembers ==
    ASSUME NEW S, NEW q \in Seq(S), NEW a, Unique(q)
    PROVE  /\ Members(ListRemove(q, a)) = Members(q) \ {a}
           /\ Unique(ListRemove(q, a))
<1>1. CASE a \in Members(q)
  <2>. DEFINE i == CHOOSE k \in DOMAIN q : q[k] = a
  <2>. DEFINE r == [j \in 1 .. (Len(q) - 1) |-> IF j < i THEN q[j] ELSE q[j + 1]]
  <2>1. ListRemove(q, a) = r
    BY <1>1 DEF ListRemove
  <2>2. i \in 1 .. Len(q) /\ q[i] = a
    BY <1>1 DEF Members
  <2>. HIDE DEF i
  <2>3. DOMAIN r = 1 .. (Len(q) - 1) /\ DOMAIN q = 1 .. Len(q) /\ Len(q) \in Nat
    OBVIOUS
  <2>4. \A j \in DOMAIN r : r[j] \in Members(q) /\ r[j] # a
    BY <2>2, <2>3 DEF Members, Unique
  <2>5. ASSUME NEW k \in DOMAIN q, q[k] # a
        PROVE  \E j \in DOMAIN r : r[j] = q[k]
    <3>1. CASE k < i
      <4>1. k \in DOMAIN r /\ r[k] = q[k]
        BY <3>1, <2>2, <2>3
      <4>. QED BY <4>1
    <3>2. CASE k > i
      <4>1. k - 1 \in DOMAIN r /\ r[k - 1] = q[k]
        BY <3>2, <2>2, <2>3
      <4>. QED BY <4>1
    <3>3. k # i
      BY <2>2, <2>5
    <3>. QED BY <3>1, <3>2, <3>3, <2>2, <2>3
  <2>6. Members(r) = Members(q) \ {a}
    BY <2>4, <2>5 DEF Members
  <2>7. Unique(r)
    BY <2>2, <2>3 DEF Unique
  <2>. QED BY <2>1, <2>6, <2>7
<1>2. CASE a \notin Members(q)
  BY <1>2 DEF ListRemove
<1>. QED BY <1>1, <1>2

\* push_back of an agent that is not in the list.
LEMMA AppendMembers ==
    ASSUME NEW S, NEW q \in Seq(S), NEW a \in S
    PROVE  /\ Append(q, a) \in Seq(S)
           /\ Members(Append(q, a)) = Members(q) \cup {a}
           /\ Unique(q) /\ a \notin Members(q) => Unique(Append(q, a))
<1>1. /\ DOMAIN q = 1 .. Len(q) /\ Len(q) \in Nat
      /\ DOMAIN Append(q, a) = 1 .. (Len(q) + 1)
      /\ \A j \in 1 .. Len(q) : Append(q, a)[j] = q[j]
      /\ Append(q, a)[Len(q) + 1] = a
  OBVIOUS
<1>2. Members(Append(q, a)) = Members(q) \cup {a}
  BY <1>1 DEF Members
<1>3. Unique(q) /\ a \notin Members(q) => Unique(Append(q, a))
  BY <1>1 DEF Unique, Members
<1>. QED BY <1>2, <1>3

\* sched_queue_get and push_back rotate a list.
LEMMA RotateMembers ==
    ASSUME NEW S, NEW q \in Seq(S), q # <<>>
    PROVE  /\ Head(q) \in S /\ Head(q) \in Members(q)
           /\ Append(Tail(q), Head(q)) \in Seq(S)
           /\ Members(Append(Tail(q), Head(q))) = Members(q)
           /\ Unique(q) => Unique(Append(Tail(q), Head(q)))
<1>. DEFINE r == Append(Tail(q), Head(q))
<1>1. /\ DOMAIN q = 1 .. Len(q) /\ Len(q) \in Nat /\ Len(q) > 0
      /\ DOMAIN r = 1 .. Len(q)
      /\ \A j \in 1 .. (Len(q) - 1) : r[j] = q[j + 1]
      /\ r[Len(q)] = q[1]
      /\ Head(q) = q[1]
  OBVIOUS
<1>2. Head(q) \in S /\ Head(q) \in Members(q) /\ r \in Seq(S)
  BY <1>1 DEF Members
<1>. HIDE DEF r
<1>3. \A j \in DOMAIN r : r[j] \in Members(q)
  BY <1>1 DEF Members
<1>4. \A k \in DOMAIN q : \E j \in DOMAIN r : r[j] = q[k]
  <2>. TAKE k \in DOMAIN q
  <2>1. CASE k = 1
    BY <2>1, <1>1
  <2>2. CASE k # 1
    <3>1. k - 1 \in DOMAIN r /\ r[k - 1] = q[k]
      BY <2>2, <1>1
    <3>. QED BY <3>1
  <2>. QED BY <2>1, <2>2
<1>5. Members(r) = Members(q)
  BY <1>3, <1>4 DEF Members
<1>6. Unique(q) => Unique(r)
  BY <1>1 DEF Unique
<1>. QED BY <1>2, <1>5, <1>6 DEF r

-----------------------------------------------------------------------------
(***************************************************************************)
(* Type correctness                                                        *)
(***************************************************************************)

\* Removing an agent from its list and its class keeps their types.
LEMMA DequeueType ==
    ASSUME TypeOK, NEW a \in Agents, Dequeue(a)
    PROVE  /\ queue' \in [Classes -> Seq(Agents)]
           /\ arcs' \in [Classes -> SUBSET Agents]
<1>1. \A c \in Classes : ListRemove(queue[c], a) \in Seq(Agents)
  BY ListRemoveType DEF TypeOK
<1>. QED BY <1>1 DEF TypeOK, Dequeue

\* Adding an agent to a class keeps the types.
LEMMA EnqueueType ==
    ASSUME TypeOK, NEW a \in Agents, NEW c \in Classes, Enqueue(a, c)
    PROVE  /\ queue' \in [Classes -> Seq(Agents)]
           /\ arcs' \in [Classes -> SUBSET Agents]
           /\ sched_added' \in [Agents -> BOOLEAN]
<1>1. Append(queue[c], a) \in Seq(Agents)
  BY AppendMembers DEF TypeOK
<1>. QED BY <1>1 DEF TypeOK, Enqueue

\* Serving a list keeps the types; the agent that is activated is an agent.
LEMMA RunFrontType ==
    ASSUME TypeOK, NEW c \in Classes, RunFront(c)
    PROVE  /\ queue' \in [Classes -> Seq(Agents)]
           /\ turn' \in Classes
           /\ current' \in Agents \cup {None}
           /\ running' \in Agents \cup {None}
           /\ ctx' \in [Agents -> Contexts \cup {None}]
           /\ default_context' \in Contexts
           /\ frames' \in [Contexts -> Agents \cup {None}]
<1>1. queue[c] \in Seq(Agents) /\ queue[c] # <<>>
  BY DEF TypeOK, RunFront
<1>2. /\ Head(queue[c]) \in Agents
      /\ Append(Tail(queue[c]), Head(queue[c])) \in Seq(Agents)
  BY <1>1, RotateMembers
<1>. QED BY <1>2 DEF TypeOK, RunFront, activate_agent

\* Every operation keeps the types.
LEMMA OperationType ==
    ASSUME TypeOK, NEW a \in Agents, Operation(a)
    PROVE  TypeOK'
<1>1. CASE reimplement(a)
  BY <1>1 DEF TypeOK, reimplement, ctxVars
<1>2. ASSUME NEW c \in Classes, pm_sched_add_agent(a, c)
      PROVE  TypeOK'
  <2>1. /\ queue' \in [Classes -> Seq(Agents)]
        /\ arcs' \in [Classes -> SUBSET Agents]
        /\ sched_added' \in [Agents -> BOOLEAN]
    BY <1>2, EnqueueType DEF TypeOK, pm_sched_add_agent
  <2>. QED BY <1>2, <2>1 DEF TypeOK, pm_sched_add_agent, ctxVars
<1>3. CASE pm_sched_remove_agent(a)
  BY <1>3, DequeueType DEF TypeOK, pm_sched_remove_agent, Abort, vars, schedVars, ctxVars
<1>4. CASE pm_sched_put_to_sleep(a)
  <2>1. CASE HasClass(a) /\ Dequeue(a) /\ FallAsleep(a)
    <3>1. (CHOOSE c \in Classes : a \in arcs[c]) \in Classes
      BY <2>1 DEF HasClass
    <3>2. /\ sleeping' \in [Agents -> Classes \cup {None}]
          /\ sched_added' \in [Agents -> BOOLEAN]
      BY <2>1, <3>1 DEF FallAsleep, TypeOK
    <3>. QED BY <1>4, <2>1, <3>2, DequeueType
              DEF TypeOK, pm_sched_put_to_sleep, Abort, vars, schedVars, ctxVars
  <2>2. CASE ~(HasClass(a) /\ Dequeue(a) /\ FallAsleep(a))
    BY <1>4, <2>2 DEF TypeOK, pm_sched_put_to_sleep, Abort, vars, schedVars, ctxVars
  <2>. QED BY <2>1, <2>2
<1>5. CASE pm_sched_wakeup(a)
  <2>1. sleeping[a] # None => WokenClass(a) \in Classes
    BY DEF TypeOK, WokenClass
  <2>2. /\ queue' \in [Classes -> Seq(Agents)]
        /\ arcs' \in [Classes -> SUBSET Agents]
        /\ sched_added' \in [Agents -> BOOLEAN]
    BY <1>5, <2>1, EnqueueType DEF TypeOK, pm_sched_wakeup
  <2>3. sleeping' \in [Agents -> Classes \cup {None}]
    BY <1>5 DEF TypeOK, pm_sched_wakeup
  <2>. QED BY <1>5, <2>2, <2>3 DEF TypeOK, pm_sched_wakeup, ctxVars
<1>6. CASE Destroy(a)
  <2>1. /\ queue' \in [Classes -> Seq(Agents)]
        /\ arcs' \in [Classes -> SUBSET Agents]
    BY <1>6, DequeueType DEF TypeOK, Destroy, Abort, schedVars
  <2>. QED BY <1>6, <2>1 DEF TypeOK, Destroy, Abort, schedVars, ctxVars
<1>. QED BY <1>1, <1>2, <1>3, <1>4, <1>5, <1>6 DEF Operation

\* Every step of the loop and every end of a quantum keeps the types.
LEMMA ScheduleType ==
    ASSUME TypeOK, Schedule \/ \E a \in Agents : EndQuantum(a)
    PROVE  TypeOK'
<1>1. get_next_turn(turn) \in Classes /\ NextBusy \in Classes
  BY DEF TypeOK, get_next_turn, NextBusy, Classes
<1>2. CASE pm_sched_main_step
  <2>1. CASE RunFront(get_next_turn(turn))
    BY <1>1, <1>2, <2>1, RunFrontType DEF TypeOK, pm_sched_main_step
  <2>2. CASE ~RunFront(get_next_turn(turn))
    BY <1>1, <1>2, <2>2 DEF TypeOK, pm_sched_main_step, ctxVars
  <2>. QED BY <2>1, <2>2
<1>3. CASE pm_sched_do_step
  BY <1>1, <1>3, RunFrontType DEF TypeOK, pm_sched_do_step
<1>4. ASSUME NEW a \in Agents, NEW ok \in BOOLEAN, Return(a, ok)
      PROVE  TypeOK'
  <2>1. ListRemove(queue[turn], a) \in Seq(Agents)
    BY ListRemoveType DEF TypeOK
  <2>2. queue' \in [Classes -> Seq(Agents)]
    BY <1>4, <2>1 DEF TypeOK, Return
  <2>3. /\ ctx' \in [Agents -> Contexts \cup {None}]
        /\ frames' \in [Contexts -> Agents \cup {None}]
        /\ current' \in Agents \cup {None}
        /\ running' \in Agents \cup {None}
    BY <1>4 DEF TypeOK, Return
  <2>. QED BY <1>4, <2>2, <2>3 DEF TypeOK, Return
<1>5. ASSUME NEW a \in Agents, context_switchback(a)
      PROVE  TypeOK'
  BY <1>5 DEF TypeOK, context_switchback, context_alloc, schedVars
<1>. QED BY <1>2, <1>3, <1>4, <1>5 DEF Schedule, EndQuantum

\* One step keeps the types.
LEMMA NextType ==
    ASSUME TypeOK, [Next]_vars
    PROVE  TypeOK'
<1>1. CASE \E a \in Agents : Operation(a)
  BY <1>1, OperationType
<1>2. CASE pm_sched_quit
  BY <1>2 DEF TypeOK, pm_sched_quit, schedVars, ctxVars
<1>3. CASE StartMain
  BY <1>3 DEF TypeOK, StartMain, schedVars, ctxVars
<1>4. CASE Schedule \/ \E a \in Agents : EndQuantum(a)
  BY <1>4, ScheduleType
<1>5. CASE UNCHANGED vars
  BY <1>5 DEF TypeOK, vars, schedVars, ctxVars
<1>. QED BY <1>1, <1>2, <1>3, <1>4, <1>5 DEF Next

\* The types hold to begin with.
LEMMA InitType == Init => TypeOK
<1>1. << >> \in Seq(Agents)
  OBVIOUS
<1>2. "normal" \in Classes
  BY DEF Classes
<1>. QED BY <1>1, <1>2 DEF Init, TypeOK

\* Whatever the agents, the host and the signals do, lists, facts, stacks and
\* flags of the scheduler keep their types.
THEOREM TypeCorrect == Spec => []TypeOK
<1>1. TypeOK /\ [Next]_vars => TypeOK'
  BY NextType
<1>. QED BY <1>1, InitType, PTL DEF Spec

-----------------------------------------------------------------------------
(***************************************************************************)
(* The lists agree with the facts in sc-memory                             *)
(*                                                                         *)
(* QueuesConsistent alone is not inductive: a wake-up puts its agent back  *)
(* into a list, which is right only because a sleeper is in no list and    *)
(* has no class.  The two invariants are proved together.                  *)
(***************************************************************************)

ListInv == TypeOK /\ QueuesConsistent /\ SleepersOffQueue

\* The list part of QueuesConsistent, in terms of Unique.
LEMMA QueuesUnique ==
    NoDuplicates <=> \A c \in Classes : Unique(queue[c])
BY DEF NoDuplicates, Unique

\* A removed agent is in no list and has no class; the other agents are where
\* they were.
LEMMA DequeueLists ==
    ASSUME TypeOK, QueuesConsistent, NEW a \in Agents, Dequeue(a)
    PROVE  \A c \in Classes : /\ Unique(queue'[c])
                               /\ Members(queue'[c]) = Members(queue[c]) \ {a}
                               /\ arcs'[c] = arcs[c] \ {a}
<1>. TAKE c \in Classes
<1>1. queue[c] \in Seq(Agents) /\ Unique(queue[c]) /\ Members(queue[c]) \subseteq arcs[c]
  BY QueuesUnique DEF TypeOK, QueuesConsistent
<1>2. /\ Unique(ListRemove(queue[c], a))
      /\ Members(ListRemove(queue[c], a)) = Members(queue[c]) \ {a}
  BY <1>1, ListRemoveMembers
<1>3. /\ queue'[c] = IF a \in arcs[c] THEN ListRemove(queue[c], a) ELSE queue[c]
      /\ arcs'[c] = arcs[c] \ {a}
  BY DEF Dequeue, TypeOK
<1>. QED BY <1>1, <1>2, <1>3

\* An agent that has no class is added at the end of one list, and only there.
LEMMA EnqueueLists ==
    ASSUME TypeOK, QueuesConsistent, NEW a \in Agents, NEW c \in Classes,
           ~HasClass(a), Enqueue(a, c)
    PROVE  /\ \A d \in Classes \ {c} : queue'[d] = queue[d] /\ arcs'[d] = arcs[d]
           /\ Unique(queue'[c])
           /\ Members(queue'[c]) = Members(queue[c]) \cup {a}
           /\ arcs'[c] = arcs[c] \cup {a}
<1>1. /\ queue[c] \in Seq(Agents) /\ Unique(queue[c])
      /\ a \notin Members(queue[c])
  BY QueuesUnique DEF TypeOK, QueuesConsistent, HasClass
<1>2. /\ Unique(Append(queue[c], a))
      /\ Members(Append(queue[c], a)) = Members(queue[c]) \cup {a}
  BY <1>1, AppendMembers
<1>. QED BY <1>2 DEF Enqueue, TypeOK

\* Serving a list changes no list's members.
LEMMA RunFrontLists ==
    ASSUME TypeOK, QueuesConsistent, NEW c \in Classes, RunFront(c)
    PROVE  \A d \in Classes : /\ Unique(queue'[d])
                               /\ Members(queue'[d]) = Members(queue[d])
<1>. TAKE d \in Classes
<1>1. queue[d] \in Seq(Agents) /\ Unique(queue[d])
  BY QueuesUnique DEF TypeOK, QueuesConsistent
<1>2. CASE d = c
  <2>1. queue[d] # <<>> /\ queue'[d] = Append(Tail(queue[d]), Head(queue[d]))
    BY <1>2 DEF RunFront, TypeOK
  <2>. QED BY <1>1, <2>1, RotateMembers
<1>3. CASE d # c
  BY <1>1, <1>3 DEF RunFront, TypeOK
<1>. QED BY <1>2, <1>3

\* A step that keeps the facts and takes members from the lists at most.
LEMMA FewerMembers ==
    ASSUME ListInv,
           \A c \in Classes : /\ Unique(queue'[c])
                              /\ Members(queue'[c]) \subseteq Members(queue[c]),
           UNCHANGED <<arcs, sched_added, life, sleeping>>
    PROVE  QueuesConsistent' /\ SleepersOffQueue'
<1>1. NoDuplicates'
  BY DEF NoDuplicates, Unique
<1>. QED BY <1>1 DEF ListInv, QueuesConsistent, SleepersOffQueue, HasClass, Activity

\* A step that changes none of the five pieces of state.
LEMMA SameLists ==
    ASSUME ListInv, UNCHANGED schedVars
    PROVE  QueuesConsistent' /\ SleepersOffQueue'
<1>1. \A c \in Classes : /\ Unique(queue'[c])
                         /\ Members(queue'[c]) \subseteq Members(queue[c])
  BY QueuesUnique DEF ListInv, QueuesConsistent, schedVars
<1>. QED BY <1>1, FewerMembers DEF schedVars

\* A step that takes one agent out of its list keeps the agreement, if it
\* changes no other agent's flags.  The agent may fall asleep if it is alive and
\* no longer marked as added.
LEMMA DequeueKeeps ==
    ASSUME ListInv, NEW a \in Agents, Dequeue(a),
           \A b \in Agents : b # a => /\ sched_added'[b] = sched_added[b]
                                      /\ life'[b] = life[b]
                                      /\ sleeping'[b] = sleeping[b],
           sleeping'[a] # None => ~sched_added'[a] /\ life'[a] = "live"
    PROVE  QueuesConsistent' /\ SleepersOffQueue'
<1>1. \A c \in Classes : /\ Unique(queue'[c])
                         /\ Members(queue'[c]) = Members(queue[c]) \ {a}
                         /\ arcs'[c] = arcs[c] \ {a}
  BY DequeueLists DEF ListInv
<1>2. NoDuplicates'
  BY <1>1 DEF NoDuplicates, Unique
<1>3. \A c \in Classes : arcs[c] \subseteq Agents
  BY DEF ListInv, TypeOK
<1>4. QueuesConsistent'
  BY <1>1, <1>2, <1>3 DEF ListInv, QueuesConsistent, Activity
<1>5. SleepersOffQueue'
  BY <1>1 DEF ListInv, SleepersOffQueue, HasClass, Activity
<1>. QED BY <1>4, <1>5

\* A step that adds one agent to a list keeps the agreement, if the agent is
\* alive, has no class and does not sleep afterwards.
LEMMA EnqueueKeeps ==
    ASSUME ListInv, NEW a \in Agents, NEW c \in Classes, Enqueue(a, c),
           Activity(a), ~HasClass(a), UNCHANGED life, sleeping'[a] = None,
           \A b \in Agents : b # a => sleeping'[b] = sleeping[b]
    PROVE  QueuesConsistent' /\ SleepersOffQueue'
<1>1. /\ \A d \in Classes \ {c} : queue'[d] = queue[d] /\ arcs'[d] = arcs[d]
      /\ Unique(queue'[c])
      /\ Members(queue'[c]) = Members(queue[c]) \cup {a}
      /\ arcs'[c] = arcs[c] \cup {a}
  BY EnqueueLists DEF ListInv
<1>2. NoDuplicates'
  BY <1>1 DEF ListInv, QueuesConsistent, NoDuplicates, Unique
<1>3. sched_added'[a] /\ \A b \in Agents : sched_added[b] => sched_added'[b]
  BY DEF Enqueue, ListInv, TypeOK
<1>4. \A b \in Agents : b # a => sched_added'[b] = sched_added[b]
  BY DEF Enqueue, ListInv, TypeOK
<1>5. \A d \in Classes : arcs[d] \subseteq Agents
  BY DEF ListInv, TypeOK
<1>6. QueuesConsistent'
  <2>1. \A d \in Classes : Members(queue'[d]) \subseteq arcs'[d]
    BY <1>1 DEF ListInv, QueuesConsistent
  <2>2. \A d, e \in Classes : d # e => arcs'[d] \cap arcs'[e] = {}
    BY <1>1 DEF ListInv, QueuesConsistent, HasClass
  <2>3. \A d \in Classes : \A b \in arcs'[d] : sched_added'[b] /\ Activity(b)'
    BY <1>1, <1>3, <1>5 DEF ListInv, QueuesConsistent, Activity
  <2>. QED BY <1>2, <2>1, <2>2, <2>3 DEF QueuesConsistent
<1>7. SleepersOffQueue'
  BY <1>1, <1>4 DEF ListInv, SleepersOffQueue, HasClass, Activity
<1>. QED BY <1>6, <1>7

\* Every operation preserves the agreement.
LEMMA OperationLists ==
    ASSUME ListInv, NEW a \in Agents, Operation(a)
    PROVE  QueuesConsistent' /\ SleepersOffQueue'
<1>. USE DEF ListInv
<1>1. CASE reimplement(a)
  <2>1. NoDuplicates'
    BY <1>1 DEF QueuesConsistent, NoDuplicates, reimplement
  <2>. QED BY <1>1, <2>1
         DEF reimplement, TypeOK, QueuesConsistent, SleepersOffQueue, HasClass, Activity
<1>2. ASSUME NEW c \in Classes, pm_sched_add_agent(a, c)
      PROVE  QueuesConsistent' /\ SleepersOffQueue'
  <2>1. CASE Activity(a) /\ ~sched_added[a] /\ ~HasClass(a)
    <3>1. Enqueue(a, c) /\ sleeping[a] = None /\ UNCHANGED <<life, sleeping>>
      BY <1>2, <2>1 DEF pm_sched_add_agent, AddFails
    <3>. QED BY <2>1, <3>1, EnqueueKeeps
  <2>2. CASE ~(Activity(a) /\ ~sched_added[a] /\ ~HasClass(a))
    BY <1>2, <2>2, SameLists DEF pm_sched_add_agent, AddFails, schedVars
  <2>. QED BY <2>1, <2>2
<1>3. CASE pm_sched_remove_agent(a)
  <2>1. CASE HasClass(a) /\ Dequeue(a) /\ UNCHANGED <<life, sched_added, sleeping>>
    <3>1. sleeping'[a] = None
      BY <2>1 DEF SleepersOffQueue
    <3>. QED BY <2>1, <3>1, DequeueKeeps
  <2>2. CASE UNCHANGED schedVars
    BY <2>2, SameLists
  <2>. QED BY <1>3, <2>1, <2>2 DEF pm_sched_remove_agent, Abort, vars
<1>4. CASE pm_sched_put_to_sleep(a)
  <2>1. CASE Activity(a) /\ Dequeue(a) /\ FallAsleep(a) /\ UNCHANGED life
    <3>1. sched_added' = [sched_added EXCEPT ![a] = FALSE]
      BY <2>1 DEF FallAsleep
    <3>2. \A b \in Agents : b # a => sleeping'[b] = sleeping[b]
      BY <2>1 DEF FallAsleep, TypeOK
    <3>. QED BY <2>1, <3>1, <3>2, DequeueKeeps DEF TypeOK, Activity
  <2>2. CASE UNCHANGED schedVars
    BY <2>2, SameLists
  <2>. QED BY <1>4, <2>1, <2>2 DEF pm_sched_put_to_sleep, Abort, vars
<1>5. CASE pm_sched_wakeup(a)
  <2>1. CASE sleeping[a] # None
    <3>1. ~HasClass(a) /\ ~sched_added[a] /\ Activity(a) /\ WokenClass(a) \in Classes
      BY <2>1 DEF SleepersOffQueue, TypeOK, WokenClass
    <3>2. Enqueue(a, WokenClass(a)) /\ sleeping' = [sleeping EXCEPT ![a] = None]
          /\ UNCHANGED life
      BY <1>5, <2>1, <3>1 DEF pm_sched_wakeup, AddFails
    <3>3. sleeping'[a] = None /\ \A b \in Agents : b # a => sleeping'[b] = sleeping[b]
      BY <3>2 DEF TypeOK
    <3>. QED BY <3>1, <3>2, <3>3, EnqueueKeeps
  <2>2. CASE sleeping[a] = None
    BY <1>5, <2>2, SameLists DEF pm_sched_wakeup, schedVars
  <2>. QED BY <2>1, <2>2
<1>6. CASE Destroy(a)
  <2>1. CASE Abort
    BY <2>1, SameLists DEF Abort
  <2>2. CASE ~Abort
    <3>1. Dequeue(a)
      <4>1. CASE sched_added[a]
        BY <1>6, <2>2, <4>1 DEF Destroy
      <4>2. CASE ~sched_added[a]
        <5>1. \A c \in Classes : a \notin arcs[c]
          BY <4>2 DEF QueuesConsistent
        <5>2. UNCHANGED <<queue, arcs>>
          BY <1>6, <2>2, <4>2 DEF Destroy
        <5>. QED BY <5>1, <5>2 DEF Dequeue, TypeOK
      <4>. QED BY <4>1, <4>2
    <3>2. /\ life' = [life EXCEPT ![a] = "dead"]
          /\ sched_added' = [sched_added EXCEPT ![a] = FALSE]
          /\ sleeping' = [sleeping EXCEPT ![a] = None]
      BY <1>6, <2>2 DEF Destroy
    <3>. QED BY <3>1, <3>2, DequeueKeeps DEF TypeOK
  <2>. QED BY <2>1, <2>2
<1>. QED BY <1>1, <1>2, <1>3, <1>4, <1>5, <1>6 DEF Operation

\* The loop and the ends of quanta preserve the agreement.
LEMMA ScheduleLists ==
    ASSUME ListInv, Schedule \/ \E a \in Agents : EndQuantum(a)
    PROVE  QueuesConsistent' /\ SleepersOffQueue'
<1>1. get_next_turn(turn) \in Classes /\ NextBusy \in Classes
  BY DEF ListInv, TypeOK, get_next_turn, NextBusy, Classes
<1>2. ASSUME NEW c \in Classes, RunFront(c), UNCHANGED <<life, sched_added, arcs, sleeping>>
      PROVE  QueuesConsistent' /\ SleepersOffQueue'
  BY <1>2, RunFrontLists, FewerMembers DEF ListInv
<1>3. CASE pm_sched_main_step
  <2>1. CASE RunFront(get_next_turn(turn))
    BY <1>1, <1>2, <1>3, <2>1 DEF pm_sched_main_step
  <2>2. CASE ~RunFront(get_next_turn(turn))
    BY <1>3, <2>2, SameLists DEF pm_sched_main_step, schedVars
  <2>. QED BY <2>1, <2>2
<1>4. CASE pm_sched_do_step
  BY <1>1, <1>2, <1>4 DEF pm_sched_do_step
<1>5. ASSUME NEW a \in Agents, NEW ok \in BOOLEAN, Return(a, ok)
      PROVE  QueuesConsistent' /\ SleepersOffQueue'
  <2>1. CASE queue' = [queue EXCEPT ![turn] = ListRemove(@, a)]
    <3>1. \A c \in Classes : queue[c] \in Seq(Agents) /\ Unique(queue[c])
      BY QueuesUnique DEF ListInv, TypeOK, QueuesConsistent
    <3>2. \A c \in Classes : queue'[c] \in {queue[c], ListRemove(queue[c], a)}
      BY <2>1 DEF ListInv, TypeOK
    <3>3. \A c \in Classes : /\ Unique(queue'[c])
                             /\ Members(queue'[c]) \subseteq Members(queue[c])
      BY <3>1, <3>2, ListRemoveMembers
    <3>. QED BY <1>5, <3>3, FewerMembers DEF Return
  <2>2. CASE queue' = queue
    BY <1>5, <2>2, SameLists DEF Return, schedVars
  <2>. QED BY <1>5, <2>1, <2>2 DEF Return
<1>6. ASSUME NEW a \in Agents, context_switchback(a)
      PROVE  QueuesConsistent' /\ SleepersOffQueue'
  BY <1>6, SameLists DEF context_switchback
<1>. QED BY <1>3, <1>4, <1>5, <1>6 DEF Schedule, EndQuantum

\* One step preserves the agreement.
LEMMA NextLists ==
    ASSUME ListInv, [Next]_vars
    PROVE  QueuesConsistent' /\ SleepersOffQueue'
<1>1. CASE \E a \in Agents : Operation(a)
  BY <1>1, OperationLists
<1>2. CASE pm_sched_quit \/ StartMain
  BY <1>2, SameLists DEF pm_sched_quit, StartMain
<1>3. CASE Schedule \/ \E a \in Agents : EndQuantum(a)
  BY <1>3, ScheduleLists
<1>4. CASE UNCHANGED vars
  BY <1>4, SameLists DEF vars
<1>. QED BY <1>1, <1>2, <1>3, <1>4 DEF Next

\* The lists agree with the class arcs, the flags and the SLEEPING tuples in
\* every reachable state, for any number of agents.
THEOREM ListsAgree == Spec => [](QueuesConsistent /\ SleepersOffQueue)
<1>1. Init => QueuesConsistent /\ SleepersOffQueue
  BY DEF Init, QueuesConsistent, SleepersOffQueue, NoDuplicates, Members
<1>2. TypeOK /\ QueuesConsistent /\ SleepersOffQueue /\ [Next]_vars
        => QueuesConsistent' /\ SleepersOffQueue'
  BY NextLists DEF ListInv
<1>. QED BY <1>1, <1>2, TypeCorrect, PTL DEF Spec

\* An agent that sleeps is in no list, has no class and is not marked as added,
\* so that the wake-up that takes it back is the only one that queues it.
THEOREM SleepersSafe == Spec => []SleepersOffQueue
BY ListsAgree, PTL

\* Waking an agent puts it at the end of the list it was taken from when it was
\* put to sleep, and nothing but a wake-up or its death ends a sleep.
THEOREM WakeupRestores == Spec => WakeupRestoresClass
<1>. DEFINE A == \A a \in Agents :
         sleeping[a] # None /\ sleeping'[a] # sleeping[a] =>
             \/ life'[a] = "dead"
             \/ /\ queue'[sleeping[a]] = Append(queue[sleeping[a]], a)
                /\ sleeping'[a] = None
<1>1. ASSUME TypeOK, SleepersOffQueue, [Next]_vars
      PROVE  A
  <2>. SUFFICES ASSUME NEW a \in Agents, sleeping[a] # None, sleeping'[a] # sleeping[a]
                PROVE  \/ life'[a] = "dead"
                       \/ /\ queue'[sleeping[a]] = Append(queue[sleeping[a]], a)
                          /\ sleeping'[a] = None
    OBVIOUS
  <2>1. CASE \E b \in Agents : Operation(b)
    <3>1. PICK b \in Agents : Operation(b)
      BY <2>1
    <3>2. CASE pm_sched_wakeup(b)
      <4>1. b = a
        BY <1>1, <3>2 DEF pm_sched_wakeup, TypeOK
      <4>2. ~HasClass(a) /\ ~sched_added[a] /\ sleeping[a] \in Classes
        BY <1>1 DEF SleepersOffQueue, TypeOK
      <4>3. Enqueue(a, sleeping[a]) /\ sleeping' = [sleeping EXCEPT ![a] = None]
        BY <1>1, <3>2, <4>1, <4>2 DEF pm_sched_wakeup, AddFails, WokenClass, SleepersOffQueue
      <4>. QED BY <1>1, <4>2, <4>3 DEF Enqueue, TypeOK
    <3>3. CASE Destroy(b)
      BY <1>1, <3>3 DEF Destroy, Abort, schedVars, TypeOK
    <3>4. CASE pm_sched_put_to_sleep(b)
      \* A sleeper is not marked as added, so this one is another agent.
      <4>1. b # a \/ UNCHANGED sleeping
        BY <1>1, <3>4 DEF pm_sched_put_to_sleep, SleepersOffQueue, Abort, vars, schedVars
      <4>. QED BY <1>1, <3>4, <4>1
             DEF pm_sched_put_to_sleep, FallAsleep, Abort, vars, schedVars, TypeOK
    <3>5. CASE \/ reimplement(b) \/ pm_sched_remove_agent(b)
               \/ \E c \in Classes : pm_sched_add_agent(b, c)
      BY <3>5 DEF reimplement, pm_sched_remove_agent, pm_sched_add_agent, Abort, vars, schedVars
    <3>. QED BY <3>1, <3>2, <3>3, <3>4, <3>5 DEF Operation
  <2>2. CASE \/ pm_sched_quit \/ StartMain \/ Schedule
             \/ \E b \in Agents : EndQuantum(b)
    BY <2>2 DEF pm_sched_quit, StartMain, Schedule, pm_sched_main_step, pm_sched_do_step,
                EndQuantum, Return, context_switchback, schedVars
  <2>3. CASE UNCHANGED vars
    BY <2>3 DEF vars, schedVars
  <2>. QED BY <1>1, <2>1, <2>2, <2>3 DEF Next
<1>2. TypeOK /\ SleepersOffQueue /\ [Next]_vars => [A]_vars
  BY <1>1
<1>. QED BY <1>2, TypeCorrect, ListsAgree, PTL DEF Spec, WakeupRestoresClass

-----------------------------------------------------------------------------
(***************************************************************************)
(* Stacks                                                                  *)
(*                                                                         *)
(* StacksNotShared is not inductive either: when a fresh activation        *)
(* switches back it keeps the default context, so that context must be     *)
(* known to hold its frames.                                               *)
(***************************************************************************)

\* pm_sched_get_current names the agent that runs.
CurrentIsRunning == running # None => current = running

\* A fresh activation runs on the default context.
FreshOnDefault == running # None /\ ctx[running] = None => frames[default_context] = running

StackInv == TypeOK /\ StacksNotShared /\ CurrentIsRunning /\ FreshOnDefault

\* An activation takes the agent's own stack, or an empty default context.
LEMMA ActivateStacks ==
    ASSUME StackInv, Idle, NEW a \in Agents, activate_agent(a)
    PROVE  StacksNotShared' /\ CurrentIsRunning' /\ FreshOnDefault'
<1>. USE NoneAssumption DEF StackInv, TypeOK
<1>1. frames[default_context] = None
  BY DEF StacksNotShared, Idle
<1>2. \A b \in Agents : ctx[b] # None => frames'[ctx[b]] = b
  BY <1>1 DEF StacksNotShared, activate_agent
<1>3. frames'[default_context] # None => ctx[a] = None /\ frames'[default_context] = a
  BY <1>1 DEF activate_agent
<1>4. ctx[a] = None => frames'[default_context] = a
  BY DEF activate_agent
<1>. QED BY <1>2, <1>3, <1>4
       DEF activate_agent, StacksNotShared, CurrentIsRunning, FreshOnDefault

\* A return empties the stack the quantum ran on.
LEMMA ReturnStacks ==
    ASSUME StackInv, NEW a \in Agents, NEW ok \in BOOLEAN, Return(a, ok)
    PROVE  StacksNotShared' /\ CurrentIsRunning' /\ FreshOnDefault'
<1>. USE NoneAssumption DEF StackInv, TypeOK
<1>. DEFINE used == IF ctx[a] = None THEN default_context ELSE ctx[a]
<1>1. /\ running = a /\ running' = None
      /\ ctx' = [ctx EXCEPT ![a] = None]
      /\ frames' = [frames EXCEPT ![used] = None]
      /\ default_context' = default_context
  BY DEF Return
<1>2. frames'[default_context] = None
  BY <1>1 DEF StacksNotShared
<1>3. \A b \in Agents : b # a /\ ctx[b] # None => used # ctx[b]
  BY DEF StacksNotShared
<1>4. \A b \in Agents : ctx'[b] # None => frames'[ctx'[b]] = b
  BY <1>1, <1>3 DEF StacksNotShared
<1>5. \A b \in Agents : ctx'[b] # default_context
  BY <1>1 DEF StacksNotShared
<1>. QED BY <1>1, <1>2, <1>4, <1>5 DEF StacksNotShared, CurrentIsRunning, FreshOnDefault

\* After a fresh call the agent keeps the default context and an empty one
\* takes its place.
LEMMA SwitchbackStacks ==
    ASSUME StackInv, NEW a \in Agents, context_switchback(a)
    PROVE  StacksNotShared' /\ CurrentIsRunning' /\ FreshOnDefault'
<1>. USE NoneAssumption DEF StackInv, TypeOK
<1>1. running = a /\ running' = None /\ UNCHANGED frames
  BY DEF context_switchback
<1>2. CASE ctx[a] = None
  <2>1. /\ ctx' = [ctx EXCEPT ![a] = default_context]
        /\ default_context' \in Contexts /\ default_context' # default_context
        /\ frames[default_context'] = None
    BY <1>2 DEF context_switchback, context_alloc
  <2>2. frames[default_context] = a
    BY <1>1, <1>2 DEF FreshOnDefault
  <2>3. \A b \in Agents : ctx'[b] # None => frames[ctx'[b]] = b
    BY <2>1, <2>2 DEF StacksNotShared
  <2>4. \A b \in Agents : ctx'[b] # default_context'
    BY <2>1, <2>3
  <2>. QED BY <1>1, <2>1, <2>3, <2>4 DEF StacksNotShared, CurrentIsRunning, FreshOnDefault
<1>3. CASE ctx[a] # None
  <2>1. UNCHANGED <<ctx, default_context>>
    BY <1>3 DEF context_switchback
  <2>2. frames[default_context] = None
    BY <1>1, <1>3 DEF StacksNotShared
  <2>. QED BY <1>1, <2>1, <2>2 DEF StacksNotShared, CurrentIsRunning, FreshOnDefault
<1>. QED BY <1>2, <1>3

\* One step keeps the stacks apart.
LEMMA NextStacks ==
    ASSUME StackInv, [Next]_vars
    PROVE  StacksNotShared' /\ CurrentIsRunning' /\ FreshOnDefault'
<1>1. CASE UNCHANGED ctxVars
  BY <1>1 DEF StackInv, StacksNotShared, CurrentIsRunning, FreshOnDefault, ctxVars
<1>2. ASSUME NEW c \in Classes, RunFront(c), Idle
      PROVE  StacksNotShared' /\ CurrentIsRunning' /\ FreshOnDefault'
  <2>1. Head(queue[c]) \in Agents /\ activate_agent(Head(queue[c]))
    BY <1>2, RotateMembers DEF StackInv, TypeOK, RunFront
  <2>. QED BY <1>2, <2>1, ActivateStacks
<1>3. CASE \E a \in Agents : Operation(a)
  <2>1. UNCHANGED ctxVars
    BY <1>3 DEF Operation, reimplement, pm_sched_add_agent, pm_sched_remove_agent,
                pm_sched_put_to_sleep, pm_sched_wakeup, Destroy, Abort, vars
  <2>. QED BY <1>1, <2>1
<1>4. CASE pm_sched_quit \/ StartMain \/ UNCHANGED vars
  BY <1>1, <1>4 DEF pm_sched_quit, StartMain, vars
<1>5. CASE Schedule
  <2>1. get_next_turn(turn) \in Classes /\ NextBusy \in Classes
    BY DEF StackInv, TypeOK, get_next_turn, NextBusy, Classes
  <2>. QED BY <1>1, <1>2, <1>5, <2>1 DEF Schedule, pm_sched_main_step, pm_sched_do_step
<1>6. CASE \E a \in Agents : EndQuantum(a)
  BY <1>6, ReturnStacks, SwitchbackStacks DEF EndQuantum
<1>. QED BY <1>3, <1>4, <1>5, <1>6 DEF Next

\* The stacks are apart to begin with.
LEMMA InitStacks == Init => StacksNotShared /\ CurrentIsRunning /\ FreshOnDefault
BY NoneAssumption DEF Init, StacksNotShared, CurrentIsRunning, FreshOnDefault

\* No two unfinished activations ever share a stack, whatever agents are woken,
\* removed or destroyed while they are switched out.
THEOREM StacksSafe == Spec => []StacksNotShared
<1>1. TypeOK /\ (StacksNotShared /\ CurrentIsRunning /\ FreshOnDefault) /\ [Next]_vars
        => (StacksNotShared /\ CurrentIsRunning /\ FreshOnDefault)'
  BY NextStacks DEF StackInv
<1>. QED BY <1>1, InitStacks, TypeCorrect, PTL DEF Spec
=============================================================================
