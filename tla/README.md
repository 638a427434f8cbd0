# TLA+ models of sc-core

sc-core is a semantic-network store (*sc-memory*, `libsc`) with a *processor
module* (`libpm`) that runs agents over it on cooperative stacks (`libsys`), a
production engine, an SCP interpreter, a semantic-network machine (NSM) and a
network server (`librgp`). This directory models its core in TLA+, checks small
instances with TLC and proves the main safety properties with TLAPS.
`PROJECT.json` lists the components, the runs, the mutants, the source lines of
every definition, the findings, the hazards and the theorems.

The state of the project: the scheduler with its stacks, the processes with
their wait queues and sleeping calls, the elements of sc-memory, their lists of
arcs, erasure, events, segments, sessions and transactions, the life of SCP
processes and the connections of the network server are modelled and checked. All
of them are also proved about, for every number of agents, elements, waits,
segments, processes and connections: every safety property that a passing run
checks is a theorem, and so is the refinement of `ArcSet`.

## 1. Inventory

The whole program is single threaded. "Concurrency" is cooperative: control
changes hands when an activation starts, returns or calls `context_switchback`,
and when an operation on sc-memory runs the handlers (*waits*) of its events
before it returns. All shared state lives in sc-memory and in a few globals.

| Component (sources) | State | Operations | Interacts with | Hard behaviour | What makes it correct |
|---|---|---|---|---|---|
| Scheduler (`libpm/pm_sched.cpp`) | three FIFO lists, `turn`, `current`, `quit_flag`, `activity->sched_added`, class arcs and SLEEPING tuples in sc-memory | add, remove, put to sleep, wake up, both loops, quit | contexts (stacks), sc-memory (its facts), everything above | operations on oneself and on others in the middle of a quantum; a list and facts that must agree; signals | an agent is in one list at most, lists and facts agree, sleepers keep their class, no starvation |
| Stacks (`libsys/unix-sysv-context.c`) | `current_context`, `toplevel`, one stack per suspended activation, `default_context` | alloc, call, recall, switchback, free | scheduler | a stack reused while a frame is on it | no two unfinished activations share a stack |
| Processes (`libpm/pm_process.cpp`) | mode, `completed`, `current_process` | create, yield, sleep, awake, complete, detach, destroy | scheduler, wait queues | self-deletion, zombies, `current_process` across switches | only legal use of the scheduler; a detached zombie dies |
| Wait queues, `pm_select`, `waitable_set` (`libpm/pm_wait.cpp`) | sets of sleeping processes | wait_for, select, get, wake_all | processes, events | lost wake-ups, entries of processes that have moved on | no lost wake-up; queues hold exactly the waiters |
| Sleeping calls (`libpm/sleeping_activity.cpp`) | `caller` | call, do_return, death of the callee | processes, scheduler | reference to a result on the caller's stack | the caller leaves the call only by its callee; every call returns |
| Elements (`libsc/sc_core.cpp`, `sc_addr.h`, `tmp_segment.cpp`) | typed elements, ends of arcs, counters, `activity`, references | create_el, set_beg, set_end, gen3, gen5, change_type, erase_el | events (PRE handlers veto, others observe), segments | cascading erasure, failure in the middle of a generation | no dangling ends, counters never too low |
| Events and waits (`libsc/sc_event.h`, `sc_list_head.h`) | lists of waits per element and event, `event_lock` | attach, detach, activate | every operation of sc-memory | re-entrant handlers that attach and detach during the walk; dropped events | each attached wait sees each event once; no freed wait is called |
| Segments, repositories (`tmp_segment.cpp`, `tmp_repo.cpp`, `segtable.h`) | segment table, map counts, links | create, map, unmap, unlink, links | elements, sessions | unlink while others hold elements | no element outlives its segment unnoticed |
| Sessions, transactions (`sc_core.cpp`, `sc_transaction.cpp`) | opened segments, delayed erasures, saved ends | open, close, fork, commit, rollback | elements, segments | rollback of partial work, elements that die before commit | a rolled-back transaction leaves elements and ends of arcs as they were |
| Search (`sc_constraint.cpp`, `std_constraints.cpp.in`) | iterators | create_iterator | elements | erasure under an iterator | an iterator returns the matches |
| Helpers, identifiers, contents, TGF, fs storage | data | sequential | elements | little | input and output agree |
| SCP interpreter (`libpm/scp/`) | state of scp-processes, father and son, variables | run, sleep, wait for a child, die | scheduler, events, segments | a son that dies while its father goes to sleep | a father that waits for a son of its own is woken; a hook finds the process it wakes asleep |
| NSM (`libpm/nsm/`) | goals, waits on sub-goals | activate, confirm, generate | events, scheduler, segments | events before the wait is attached | every goal ends as confirmed, refuted or failed |
| Production engine (`libpm/scl/`) | index, count of failures | one production per activation | scheduler | termination test | stops when no production applies |
| RGP server (`librgp/`) | registries of objects by uid, a half-read request per connection, the stack of nested activations, proxies of clients as activities of elements | requests over two sockets, activation of clients, close | sc-memory, scheduler (it is an agent) | handlers that throw, requests in parts, activations that nest across connections, elements that die, clients that vanish | a uid names one object, nothing outlives its connection, proxies and elements stay paired, a RETURN answers its request, every request gets one |

`PROJECT.json` gives every hazard its line and the properties that cover it;
those without a property say why. Section 6 has the parts that are not modelled
and section 7 hazards of theirs.

## 2. Modules

| Module | What it is |
|---|---|
| `PmSched` | the scheduler and the stacks it drives |
| `PmProcess` (extends `PmSched`) | processes, wait queues, select, waitable sets and sleeping calls on top of it |
| `ScpProcesses` | processes of the SCP interpreter: father and son, handlers, debugger |
| `ScWaits` | lists of waits and the walks over them |
| `ArcSet` | what a user may expect of the arcs of an element and of iterators (abstract) |
| `ScArcLists` | lists of arcs, links, iterators, and the erasure call by call; implements `ArcSet` |
| `ScMemory` | elements, arcs, counters, type change, cascading erasure in one step |
| `ScTransaction` (extends `ScMemory`) | transactions over these elements |
| `ScSegments` | segment table, references and signs of segments, sessions |
| `RgpRegistry` | a registry of objects and its generator of uids |
| `RgpServer` (extends `RgpRegistry`) | connections of the server, their objects, proxies and nested activations |
| `PmSchedProofs`, `PmProcessProofs`, `ScTransactionProofs` (with the theorems of `ScMemory`), `ScSegmentsProofs`, `ScArcListsProofs`, `ScWaitsProofs`, `ScpProofs`, `RgpProofs` | the theorems |
| `MC...` | instances for TLC: symmetry, small sets |

How they fit: the actions of `PmProcess` perform those of `PmSched`, so that what
is proved of the scheduler carries over (`SchedulerSteps`). `ScpProcesses` has the
scheduler's list and sleepers of one class as variables of its own. A walk of
`ScWaits` that a handler suspends is what `raise_pre_event` of `ScpProcesses` sees
from the side of the processes and `pre_suspend` of `ScArcLists` from the side of
an erasure. `ScMemory` erases at once what `ScArcLists` erases call by call.
`RgpServer` is one agent of the scheduler: between its activations other agents
change the elements that it has proxies on.

### PmSched

State: `life`, `sched_added`, `arcs` (class arcs in sc-memory), `queue` (the
three C++ lists), `sleeping` (the SLEEPING tuples), `turn`, `current`, `ctx`,
`default_context`, `quit_flag` are the variables of the code; `running` is the
agent inside its activation, `frames` says whose unfinished call a stack holds,
`mode` whether `pm_sched_main` is entered or `SC_ABORT` was reached.

Each operation of `pm_sched.h` is an action. An operation may be called by the
running agent on any agent, or by the host between two quanta. A step of a loop
(`pm_sched_main_step`, `pm_sched_do_step`) ends where the agent's code starts;
`Return` and `context_switchback` are the two ways back into `activate_agent`
and do the rest of it.

Modelling decisions:

* `LOCK_EVENT` and the absence of threads make every operation of the scheduler
  one atomic action. Only the signal handler (`pm_sched_quit`) interrupts.
* `on_main_stack` is set by no code, `pm_sched_set_wakeup_hook`,
  `pm_sched_remove_wakeup_hook` and `pm_sched_this_next` have no caller: the
  branches that depend on them are not modelled.
* Every call of `pm_sched_add_agent` in the repository adds a fresh agent, or is
  the one in `pm_sched_wakeup`; the guard `sleeping[a] = None` is that fact.
  `AddFails` are its errors; a wake-up that meets one leaves the sleeper asleep.
* `current` is set when an activation starts and never reset, as in the code.
* The result of a recalled activity is ignored, as in the code: only a fresh
  call that fails drops the agent from its list.
* `activate_agent` returns at once for an agent without activity; by
  `QueuesConsistent` no such agent is in a list.
* `context_switchback` has the guard `Activity(a)`: an agent that removed its own
  activity does not switch back (the code would use the null activity).
* The pool of stacks is `Contexts`; `context_alloc` returns any stack without
  frames. `Cardinality(Contexts) = Cardinality(Agents) + 1` never runs out.

### PmProcess

The processes of libpm and other agents (`kind`). Every action is exactly one
operation of `PmSched`, or none, with what the process layer does around it, so
an operation of several scheduler calls (`pm_process::sleep`: put to sleep, then
switch back) is several actions, told apart by `pc` and `why`. Only the actor
that holds the processor acts. `PNext` divides the actions in three: what an
actor may choose to call (`Choose`), what the library then does (`Continue`),
and the ways to give the processor back (`GiveBack`).

* A waitable source is a process (ready when it has completed) or a set with at
  most `MaxItems` members; `put` is the generation of an arc out of the set, whose
  event runs `waitable_set::activate` and so `wake_all`.
* `detach` is called for processes nobody waits for and waiting is for processes
  that are not detached: the repository has no other use, and a detached process
  deletes itself with its queue.
* `CallerKinds` are the agents that may make a sleeping call. The runs restrict it
  to agents that are no processes, because `sleeping_caller::call` does not
  restore `current_process` for a process.

### ScpProcesses

`queue`, `asleep` are what the scheduler does with a process, `sleeping` and
`dead` what the interpreter believes (PROCESS_STATE_SLEEP, PROCESS_STATE_DEAD).
A `Turn` takes the first process of the list and is one of: the finalization of a
dead one, a stop of the debugger, or an operator with the end of the activation
(`EndActivation`: step events of the debugger, death, going to sleep). Operators
are told apart by what they do to other processes: `nop`, `callReturn`, `call`,
`waitReturn`, `halt`, `return`, `sys_wait` (sleep until an event of sc-memory), an
operator whose event has a PRE handler (`RaisesEvent`) and one that fails
(`error_branch`); the constant `Operators` says which of them the programs use.
Between turns the host starts programs, the debugger gives commands and the events
of `sys_wait` happen (`event`).

* A process is created once: `unborn`, `live`, `erased` are the life of its sign.
* `waiting` is the sequence of WAITING_FOR_ arcs, oldest first, because
  `child_death_hook` reads the first it finds; arcs to an erased son go with it, and
  the arcs to ALL_CHILDS stay for good.
* `waitReturn` takes any process, as `scp_sleep_on_child` takes any node that is not
  erased. `Founded` says that a wait is for a living son, or for all of a father that
  has some; `unfounded` is history, whose last wait was for something else.
* Whether an operator succeeds is a choice of outcome. A failed operator with an
  `error_` branch erases the arc to the active operator twice, which ends in `crash`;
  a process without a branch to go on with dies.
* An operator that was switched out goes on at "rest" and may raise further events
  (`RestOfOperator`). `pre_event_fails` is a handler that could not be started: the
  process that raised the event is put to sleep all the same (`event_ops.cpp:150`).
* The death hook of a handler reads the answer from the frame of the process that
  raised the event; without an answer, or with the frame gone, it is a crash.

### ScWaits

The rings of `__sc_listhead_virtual` with their pointers (`next`, `prev`), the
head of every list being a node. `Remove`, `InsertAfter` and `Append` are the
methods of the class, the error in `append` (the head leaves, not the node)
included. A walk is a record with the node it is at; the node was looked up
before the previous call, as in `sc_waits_holder::activate`.

* A handler of a PRE event moves itself to the front of the list of `prm[0]`
  (`back`, which for arcs into an element is the list of another element) and
  suspends its agent; all other agents may then change and walk the lists.
* A wait whose address is deleted stays as a node with `status` "freed"; a walk
  that calls it, or the head of a foreign list, is `crashed`. So may be the loop over
  the event's parameters that goes on inside a wait that has deleted itself
  (`visit_once`).
* `todo`, `calls` and `alone` are history: the waits a walk found, how often it has
  called them, and whether nothing but its own handlers has changed the lists.

### ArcSet and ScArcLists

`ArcSet` is the contract: an arc is in a set or not; an iterator returns every arc
of its set that is there and that it has not returned, once.

`ScArcLists` has the lists of `element_link` objects with their reference counts
and dead marks, the hints by which an arc finds its links, the reference counts
of addresses, iterators, and for every erasing agent the stack of calls of
`erase_el_pre` or `__erase_el`, each with its own iterator. Links of one arc are
numbered up to `Copies`, since dead ones stay while iterators stand at them.
`Behind` are the live links that an iterator has before it; `next` goes to the first
of them and looks it up before it lets go of its own. A call whose handler has
vetoed the erasure is at "vetoed" and returns true to its caller, which deletes its
iterator and does the same: one call is one step (`return_true`), and a suspension
before may have left a caller whose element is deleted (`use_freed`).
`MaxDepth` is the room on the machine's stack; a recursion past it is a crash.
The refinement maps a list to the arcs of its live links and an iterator to the
arcs behind it.

### ScMemory and ScTransaction

The elements of all segments together, with one session that has opened them.
`Recount` is the bookkeeping of `__set_beg` and `__set_end`; `TypeOfBegin` the
implicit conversion of an undefined begin to a node, which a handler may veto
without `__set_beg` noticing; `Doomed` the least fixed point that `__erase_el`
computes by recursion; `Endless` the arcs on which the recursion of
`erase_el_pre` never ends. A refusal by a PRE handler is a step that changes
nothing and is left out where the code has done nothing yet; where it has
(`gen3_refused`) it is an action. `MaxEnds` bounds the sum of all counters, which
re-pointing raises without end.

`ScTransaction` adds the four lists of `sc_transaction`, references and the loops
of commit and rollback, one action per round. `Others` is everything else: other
sessions, handlers run by the transaction's own calls, and the calls that the
class does not override (`gen3_f_a_f`, `change_type`), which leave no trace in the
lists. An end that is set to what it is already is logged as well (`SameEnd`).
`before` is the memory at the begin of the transaction and is forgotten
when others have changed it, or vetoed. `RolledBackAlone` names when a rollback
must restore the memory: alone, and no arc had a connector for its begin when the
transaction began, since `set_beg` would refuse to put that back (whether one has
it at the end says less: the element that was created for it may be erased by then).

### ScSegments

A session has a set of slots (`opened_segments`), the segment table turns a slot
into a segment, and a segment gives its slot back when its last reference goes.
References of a segment and of its sign are counted apart, as in the code.
`fork` references a sign twice and `open_segment_spider` and `create_segment`
open what may be open already; both are modelled as they are. The system session
is `None` as the caller of `unlink`. Iterators reference the segment of the arc
they stand at. `opened` and `reopened` are history: what a session has really
opened, and the segments that were opened twice.

### RgpRegistry and RgpServer

`RgpRegistry` is `rgp_obj_registry` with its `uid_generator`: two maps, a list of
free uids and the least uid never given out (`max_id`).

In `RgpServer`, `request_`, `registry` and `open` are variables of the code; `els`,
`activity` and `of` are the part of sc-memory that it depends on; `stack` is the
C++ stack of nested calls of `rgp_proxy_activity::activate`, each with the
connection whose client is activated and the socket its caller came from. One
handler of the io_service is one action, as is one round of the loop in
`event_communication`, unless it calls a proxy, which pushes a frame. `crashed` is
the use of freed memory, or an exception that nobody catches: also one that may
not leave `rgp_command::write`, which is declared `throw(rgp_error)`
(`rgp_command.cpp:609`).

* `Commands` says which requests each client sends.
* `CallsGone`: a request is to be written to a client that is gone. The write may
  still succeed, and the read that follows fails (`Unwind`), or it throws and the
  program ends (`handle_crashes`, `event_crashes`). A RETURN is written through the
  same function. `handle_close` of such a connection may also stop at
  `remote_endpoint` (`rgp_connection.cpp:676`): answered, not deleted, never read again.
* Iterators are made in a fixed order, since nothing tells them apart.
* A wait that the element refuses is deleted again at once (`AttachBy`). That a proxy
  is refused cannot happen: `rgp_proxy_activity::init` always returns RV_OK.
* A client sends a request and reads its RETURN before the next. A request arrives
  in one part or in two, cut before or after its first argument, which is looked
  up when it is read (`rgp_command::read`). What follows a request whose handler
  has thrown arrives in one piece.
* "change" stands for all requests that leave elements alive. `ACTIVATE_WAIT`, the
  event of a wait, is answered at once by a client that is there and ends what
  runs, or the program, when the client is gone; `ACTIVATE`, by contrast, is a
  frame, and while it lasts the client sends requests over the event socket.
* A request may name a dead element. Whether its address is freed by then depends
  on who holds it (`s` in `EraseElement`, `agent_unref`).
* `Objects` are made once each. `Spare` bounds the requests that make one by the
  objects that are left; no object is used twice, but uids are. `MaxDepth` bounds
  the nesting. `Vanishing` are the connections whose clients may go.
* `create_iterator` has no argument that can be nil in the model.

## 3. Runs

| Run | Instance | States | What it shows |
|---|---|---|---|
| `sched` | 2 agents, 3 stacks, fair | 76,338 | lists, facts and stacks agree; no starvation; quit ends the loop |
| `process` | 2 processes, 3 stacks, 1 set with at most 2 members, fair | 136,692 | no lost wake-up, queues hold the waiters, calls end by their callee; a get beside a member is served, calls return |
| `waits` | 2 handlers and 1 one-shot wait in 3 lists, 2 agents, fair | 345,540 | pointers and lists stay intact, an undisturbed walk calls each handler once, walks end |
| `arcs` | 1 node, 3 arcs that may hang at each other, 1 iterator, 2 erasing agents | 357,796 | exact reference counts, lists hold exactly the arcs, erasures end, refinement of `ArcSet` |
| `scp` | 3 processes, all operators, 1 wait each at a time, 2 commands of the debugger, symmetry | 3,964,276 | every process is in the list once or asleep; who sleeps for a son of its own, or for all it had, has somebody to wake it, and a hook finds its process asleep |
| `scp_live` | 3 processes, operators `call`, `waitReturn`, `return`, 2 waits, 2 commands (suspend, resume), fair | 349,829 | a wait is not lost to the arc of an earlier one; the dead are erased; the death of the son waited for makes the father's turn come |
| `trans` | 3 elements, at most 2 ends, 2 entries in the logs, symmetry | 261,036 | rollback restores elements and ends, references of erasures hold, no dangling ends, counters never low |
| `segs` | 3 sessions, 2 names, 2 segments, 3 signs, 2 slots, 1 iterator, symmetry | 458,962 | slots denote what is open, references match holders, signs are held |
| `rgp` | 2 connections that may vanish, 1 element, 2 proxies, 1 wait, nesting up to 2, symmetry | 1,751,389 | proxies and elements stay paired, nothing outlives its connection, answers match |
| `rgp_live` | 2 connections, 1 element, 2 proxies, 3 iterators of one client, nesting up to 2, fair | 137,780 | uids stay sound, every request is answered |

The bounds are the smallest with the interesting cases.

* `sched`: a runner and a sleeper that it wakes or removes, or that the host does.
  Four of its properties are theorems for any number of agents and stacks, so the
  instance is the one on which liveness can be checked.
* `process`: one process waits or calls while the other wakes, answers or dies; a
  set with two members lets a waiter find one and leave one. That two waiters
  outrun each other is within the theorems of `PmProcessProofs`; the instance is the
  one on which liveness can be checked.
* `scp`: a father with two sons, or a father, its son and a handler; two commands are
  a suspension and a resumption, between which a hook or a death may come.
  Longer sequences of commands are within the theorems. What an arc of an earlier wait
  does to a later one is in `scp_live`, where a process may have two.
* `scp_live`: the operators that make a father wait and its sons die, and two commands,
  a suspension with its resumption. Liveness takes no symmetry, so that `terminate` and
  the operators that put a process to sleep for other reasons are in `scp` only.
* `waits`: two lists that exchange handlers (the IN_SET lists of two elements)
  and one that does not, two handlers that overtake each other, a wait that
  deletes itself, and a second agent to walk while the first is suspended.
* `arcs`: three arcs and a node hold an arc to an arc to an arc, cycles, and an arc
  between the same two; `MaxDepth` 5 is more than the four elements, so that only
  an endless recursion reaches it; two copies of a link are one alive and one that
  an iterator holds back. `Ends` and `Iterated` (in `MCScArcLists`) are the ends
  and lists that make those shapes.
* `trans`: an arc, its begin and an element it is moved to. The elements'
  properties (`NoDanglingEnds`, `CountersNeverLow`) are checked in the middle of
  transactions and proved for any number of elements in `ScTransactionProofs`.
  `RollbackRestores` compares which elements live and the ends of all arcs; the
  code restores neither types nor counters. `UsedTypes` leaves "undf" out; the
  conversion of an undefined element is within the theorems.
* `segs`: two slots for two segments force the use of a slot again; three signs
  let an unlinked segment keep one while its name gets another.
* `rgp`: two proxies for one element replace each other, or nest: the client of one
  activates the other's from inside its own activation, over the event socket. With
  one element all agents and clients meet at it. In `rgp_live` nobody vanishes,
  since the property assumes so. One client makes three iterators and the other a
  proxy: a registry holds two or three uids at once, they are given back out of order, so
  that the list of free ones has up to two entries, and the third iterator takes one
  from it. Larger numbers are within the theorems of `RgpProofs`.

`CHECK_DEADLOCK FALSE` in all runs but `segs`: after `SC_ABORT`, a crash, or when
all agents are gone, the program really stops.

Every property of a passing run has a mutant of the modelled code that violates
it (`PROJECT.json`, "mutants"; in the modules, the definitions marked
"Mutation").

The violation runs show what a comment or an assertion says and the code does not
do:

| Run | States | The repository says | The code does |
|---|---|---|---|
| `zombie_detach` | about 25,000 | detaching a zombie kills it (`pm_process.h:77`) | the second removal meets `SC_ABORT` |
| `rgp_answers` | about 370 | each request has its RETURN (`rgp.h:114`) | a request whose handler has thrown stays; it is executed again, and answered, in place of the next one |

Other disagreements that were met, without a run of their own: a handler that
suspends its agent may see the next handler leave the list or be deleted, which
is called all the same, although the walk looks it up first "'couse wait can
remove itself" (`sc_event.h:190`); a father that dies in `waitReturn` keeps the
state SLEEP without being asleep, and the death of its son then fails the
assertion of `scp_core.cpp:549`; reimplementing an element over a proxy leaves it
without activity, since the destructor of the old proxy clears what has just been
set (`rgp_connection.cpp:522`; `libsc.h:487` says that the new one is installed);
`rgp_proxy_wait::activate` reads one message and takes it for the answer, though
the client may send a request first (`rgp_connection.cpp:495`); a handler that
throws on the event socket ends the activation (`:592`); two clients that connect
at once may be paired with each other's event socket (`rgp_server.cpp:98`).

## 4. Fairness

`PmSched!Fairness`: the scheduler step is weakly fair (the loop of
`pm_sched_main` goes round; `pmc` and `run_package` call `pm_sched_do_step` in a
loop), and every quantum ends ("process must periodically give processor back by
calling yield()", `pm_process.h:71`). Operations, creation and quit are not fair.

`PmProcess!PFairness`: the host keeps stepping, library code runs to its end
(weak fairness of `Continue`), and code that again and again gets the chance to
yield or finish does so. That last one is strong fairness of `GiveBack`: between
two chances a process makes calls that are not interruptible, so a weak one
would be satisfied by a process that spins over them, which `pm_process.h:71`
forbids. Nothing obliges a process to make a call, to put a member or to answer.

`ScWaits!Fairness`: the agent that has the processor goes on (weak), and an agent
suspended by a handler is resumed (strong, since other agents take the processor
in between): its handler's process ends and the scheduler starves nobody
(`QueuedAgentsRun`). An agent whose handler's process never started is excluded.
`WalksEnd` assumes that from some time on the lists are left alone.

`ScArcLists!LiveSpec`: an agent that erases goes on. `ScpProcesses!FairSpec`: the
scheduler's loop goes round; the debugger and the host owe nothing.

`RgpServer!Fairness`: the scheduler activates the server again and again and the
io_service gives each socket its turn: strong fairness of `Handle(c)`, since other
connections' activations disable it in between. Each activation of a client ends
(strong fairness of `event_return` at every depth, since deeper activations come in
between) and clients read their answers: these are assumptions on clients, since
the server waits for them without a timeout. Nothing obliges a client to send.

## 5. Proofs

For every value of the constants (any agents, stacks, sources, waits and lists,
connections and objects, any finite set of elements; `None` and `Nobody` outside
them). Type correctness is proved and not run: `TypeOK` of `PmSched`, `PTypeOK` and
`NodeWithOutputStaysNode` (`NodesStay`) are in no run.

* `PmSchedProofs`: `TypeCorrect`, `ListsAgree`, `SleepersSafe`, `WakeupRestores`,
  `StacksSafe`. `QueuesConsistent` is not inductive alone: a wake-up
  appends the agent to a list, so that it must be known that a sleeper has no
  arc and no flag; `ListInv` is `QueuesConsistent` with `SleepersOffQueue`.
  `StacksNotShared` needs `FreshOnDefault`, that the running agent without a
  stack of its own is the one whose frame is on the default stack, and
  `CurrentIsRunning`; together they are `StackInv`. The lemmas follow the structure of the
  model: what `ListRemove`, `Append` and the rotation do to members and
  duplicates, then each operation by its two effects (`Dequeue`, `Enqueue`).
* `PmProcessProofs`: `ProcessesSafe`. Each action of `PNext` performs an action of
  `PmSched` or leaves its variables alone, by the way the module is written
  (`SchedulerSteps`); for those that act on a stored agent (`arg`, `caller`,
  `current`) the proof carries `CallArgs`, that these are agents when they are used.
  That hands the scheduler's theorems to the process layer.
  Its second part proves `ProcessTypes`, `WaitersQueued`, `WakeupsArrive`, `CallersStay`.
  The four are proved together, because each step that could break one relies on
  another: a `put` wakes everybody because the queue holds all waiters, and a
  wake-up cannot end a sleeping call because whoever is in a queue is in no call.
  They become inductive with `ActorsInOrder` (only the running agent is in the
  middle of library code, and it is scheduled until it has gone to sleep or is on
  its way back; a process that is deleted by another one has completed), `GetsOne`
  (a `get` waits for one set, so that it takes what it has found) and `Awaking`
  (who is still to be woken waits; who goes to sleep has found nothing ready; a
  process that completes leaves none of its waiters asleep). The lists of the
  scheduler enter as `Known`, from `ProcessesSafe`: the agent that the scheduler
  picks is scheduled, and a scheduled agent does not sleep. The `...Effect` lemmas
  say what the scheduler's operations do to these facts, the `Moves...` lemmas
  what a step of one agent leaves alone, and there is a lemma per operation.
* `ScTransactionProofs`, its first part: `MemoryTypeCorrect`, `EndsAlive`,
  `CountersCover`, `NodesStay`. `EndsAlive` rests on `DoomedClosed`, that the
  cascade is closed under incident arcs. `CountersCover` needs `NoDanglingEnds`
  (the arcs out of a dead element are none) and the finiteness of the elements for
  the cardinalities; `NodesStay` follows from it, because a counter that is zero
  then means no arc. These are theorems of `ScMemory!Spec`.
* `ScWaitsProofs`: `WaitsLinked`, `WaitsInLists`, `WalksCallEachOnce`. `Mirror` says that two pointer
  functions are each other's inverse, `Reach` is the least set that holds a head
  and is closed under next. `RemoveMirrors`, `InsertMirrors`, `RemoveReach` and
  `InsertReach` say what the removal and the insertion of a node do to both: the
  set of one head loses or gains the node, all others stay. An action that changes
  a list is a removal, an insertion, or both with the state in between, `Without`:
  rings that hold the attached waits except one. `WaitInv` joins `Linked` and
  `EachInOneList` with `ActiveWalks`, that the agent with the processor is in a
  walk. That `append` is never called with a node that is in a list, so that its
  error does not show, is a consequence of `Linked`. For `CallsEachOnce`, `Left` is
  what a walk has before it, the least set from its node up to the head. The
  invariant `InOrder` says that the waits there have not been called and the others
  of `todo` have, and that no node there leads back to the walk's own: so the node
  is left for good (`OneLess`), and what its handler does to it happens behind the
  walk (`BehindTheWalk`).
* `ScTransactionProofs`, its second part: `ErasuresKeepTheirElements`, `OnlyOthersFree`,
  `RollbackIsExact`, an action property, and `TransactionEndsAlive` and
  `TransactionCountersCover`, which hold because a transaction is a client of the
  memory (`TransactionIsMemory`) and so inherits the theorems of `ScMemory`. The
  references of erasures are counted: `PlacesAppend` and `PlacesFront` say how the
  places of an element in a list change. The exactness of a rollback needs to know
  what the lists still contain after some rounds. `AloneWith` says it of the memory
  `before` and the memory now: the first entry of each re-pointed arc holds the end
  it had at the beginning, the created elements are all that has been added, each
  once, and only arcs among them lack a list entry. It is established when the
  transaction begins, kept by every operation and every round of the rollback, and
  when the lists are empty it says that the two memories are equal. `CascadeOfCreated`
  is why the erasure of a created element takes nothing else along.
* `ScSegmentsProofs`: `SlotsDenoteWhatIsOpened`, `ReferencesMatchHolders`,
  `SignsOfOpenedAreHeld`. `BitsDenoteOpened` is not inductive: a slot denotes what
  was opened through it only as long as the segment exists, which its references
  guarantee, and unlinking and opening preserve those only if names are names of
  different segments with different signs. `IInv` joins the three with `SlotsMatch`
  (a slot and its segment point to each other), `OpenedMatch` and `NamesMatch`. Two
  facts carry the counting: what is held keeps a segment alive (`OpenedHeld`,
  `StandingHeld`, `NamedHeld`), and closing any set of openings at once takes as
  many references as it ends holdings (`DroppedMatch`).
* `ScArcListsProofs`: `CountsStayExact`, `ListsStayMatched`, `NothingFreedIsUsed`,
  `ListsImplementSets`, all from one invariant (`ArcListsInvariant`), because a count
  that is too low makes a list lose a live link, and a list that has lost one makes
  an erasure miss an arc. `IInv` is said of values: a heap, the hints, the places of
  all iterators (`AtOf`: one place for each user and for each call an agent can be
  in), the elements that users' iterators refer to, the stacks.
  - `HeapInv` is counts and lists: `LinkCounts`, `RefCounts`, and `Hinted`, that a live
    link is in a list exactly where its arc's hint says. Each operation on the heap
    has a lemma that it keeps `HeapInv` for the places after it (`Grabbed`,
    `Released`, `Detached`, `Attached`, `ElementDied`), and the iterator's operations
    are chains of them (`Begun`, `MovedOn`, `Ended`). Counting is done once, in
    `Arrives` and `Leaves`: a function of places that changes at one slot.
  - `Framed` is the stack of calls: the iterator of each call is in its list, and
    the next call is for the arc it stands at. It holds for suspended agents too,
    because no step takes a link from under an iterator (`FramedStays`).
  - `Working` is what the agent with the processor knows. `FrameErases` says that what
    is alive in a call's list is at its iterator or behind it, and that an arc has
    left its ends before its own arcs are erased. So the arc at an iterator is an
    element whose call is not open (`WorkingDeeper`): the calls of `__erase_el` are
    for distinct elements (`Distinct`) and no deeper than there are elements; and
    when a call ends nothing alive is left in its two lists, so that no arc hangs at
    a dead element (`Returns`). All this is known only as long as no handler
    suspends the agent; an agent that one has suspended is in the round of questions
    (`slept`), so that `__erase_el` begins afresh with what it then finds.
  - For the refinement, `LiveLinks` says that the members of a set are the arcs whose
    hints lead to its list. What a step does to members and to the arcs that
    iterators have before them is one of a few views: nothing (`SilentStep`), an
    arc that leaves its ends or enters a list (`ForgetsView`, `AttachesView`), an
    iterator that opens, moves on or closes (`OpensView`, `AdvancesView`,
    `ClosesView`). Removals keep the order of a list and an attached link goes to its
    tail, so that what is pending changes as the members do. The iterators of the
    calls are not seen by `ArcSet`: to move them is to stutter.
* `ScpProofs`: `ProcessesScheduledOnce`, `HooksFindSleepers`, `SleepersHaveWakers`, in
  this order. The first is a matter of lists: `Sched` says of a list, the sleepers and
  the living, as values, what `OnceScheduled` says of the state, and there is a lemma
  for each thing that happens to a process (born, put behind, put to sleep, woken,
  erased).
  `HooksFindAsleep` is not inductive, since the debugger, the hooks and the events of
  `sys_wait` wake processes independently of each other. What saves it is that a
  process waits for one thing at a time, a son, one handler or an event, and is in the
  debugger's set of those that were asleep before if it is suspended
  (`SleepersAsleep`, `CallersAsleep`, `AwaitersAsleep`); a process that is suspended
  otherwise is asleep because of the debugger (`SuspendedAsleep`), so that it cannot
  begin to wait; a handler is waited for inside an operator only (`CallersInside`);
  and who is in the middle of an operator is not dead (`RunnersAlive`).
  `SleeperHasWaker` speaks of the oldest wait. `WaitsInv` adds what a process that is
  not in PROCESS_STATE_SLEEP has waited for: nothing, or all its sons, because only the
  arcs to ALL_CHILDS outlive the wait; that it is not in that state when it begins to
  wait follows from the second theorem.
* `RgpProofs`: `UidsStaySound`, `ObjectsStayHeld`, `ProxiesStayInPlace`,
  `AnswersStayMatched`. Three layers. `RegisterSound` and `UnregisterSound` say that
  the two operations keep a registry sound. `Kept` and `PlacedIn` say of a memory,
  as a value, what `UidsSound`, `ObjectsHeld` and `ProxiesInPlace` say of the state,
  with the exception of the objects `X` that a handler has made and not yet
  registered; there is a lemma for each thing a handler does to a memory (make,
  replace, end a proxy, register, delete, close), so that the compositions in
  `ReimplementBy` or `done` are chains of lemmas. `OwnedIn` is the strengthening:
  what a registry names is of its connection and its kind, so that a deletion finds
  it. `ServerInv` adds the sockets: `Waiting`, that the request the server holds is
  the one that the client waits for, unless a handler has thrown, and
  `StackInOrder`, that whoever is activated has an open connection and at most one
  frame, the outermost, answers a control socket. The two halves need each other:
  a uid names an object of the right kind only in a sound registry, and a handler
  keeps the memory only if its argument has the right kind (`ResolveFits`).

Assumptions: those named in the modules (`NoneAssumption`, `NoneIsNoClass`,
`SetsAssumption`, `MaxItemsAssumption`, `CallerKindsAssumption`,
`NoneIsNoElement`, `ElementsFinite`, `MaxEndsAssumption`, `UsedTypesAreTypes`,
`MaxLogIsNat`, `NoneIsApart`, `SlotsAreIndices`, `MaxRefsIsNat`, `SomeSlot`,
`FiniteObjects`, `NoneIsNoProc`, `AllIsNoProc`, `BoundsAreNat`, `OperatorsKnown`,
`NoneIsNoCrash`, `NodesDistinct`, `ListKinds`, `OnceAreWaits`, `NobodyIsNoAgent`,
`KindsDistinct`, `MarksDistinct`, `ElsAreNoObjects`, `VanishingAssumption`,
`MaxDepthAssumption`, `CommandsKnown`, `Disjoint`, `HandledAreElements`,
`EndsOfArcs`, `IteratedAreLists`, `Bounds`, `Finite`).

Only model-checked: the liveness properties (`QueuedAgentsRun`, `QuitEndsMain`,
`GetServed`, `CallReturns`, `WalksEnd`, `ErasureEnds`, `DeadIsErased`, `FatherGoesOn`,
`RequestAnswered`). They rest on fairness and so on ENABLED, which the prover does not
handle. Of `ErasureEnds` the part that is safety is proved: the depth of `__erase_el`
is bounded by the number of elements.

## 6. Not modelled

* Generation of five elements at once, links between segments and
  `erase_lonely_link_to`, paths, directories, rename, META and `/info`; segments
  created inside a transaction; a session's own errors.
* `sc_event_multi`, handlers of death that get time after the erasure, and the
  event lock, under which an event does not happen.
* The DETACH handlers of an arc that is to be erased: `erase_el_pre` asks those of
  its begin twice, those of its end never, and ignores their answers
  (`sc_core.cpp:1445`).
* Of SCP: data of operators, variables, context stacks, packages, external
  programs; breakpoints, step over, into and return.
* What the properties of SCP do not promise, because the code does not: a process that
  waits for one that is no son of its own, for all sons when it has none, or whose
  handler could not be started, sleeps with nobody to wake it. After a wait for all
  sons, whose arc is never erased, a wait for one son ends with the last son's death
  only. A father that is suspended while it waits may sleep for ever: the hook wakes
  it, the loop of `catch_step_before_event` (`scp_debugger.cpp:811`) puts it back to
  sleep, and the resumption finds it among those that were asleep before (`:189`) and
  does not wake it. `FatherGoesOn` leaves suspended fathers and sons out.
* The semantic-network machine: its control is that of processes and waits, which
  is modelled, and what is left is the matching of statements. The production
  engine: one sequential loop whose end depends on the data.
* Of the RGP server: accepting connections and logging in, the registries of
  addresses and segments, the byte formats, the results of requests on elements,
  clients that send a request before they have read the last answer. `RequestAnswered`
  says nothing when clients vanish: the request of another client whose service has met
  a dead socket gets no answer, its connection is not read from again (`stuck`), or the
  program ends; the `rgp` run has these steps and checks what stays true.
* Identifiers, contents, TGF, the file-system storage, the compilers (SCS, SCPS
  and the vendored ANTLR runtime, which is a large share of the repository's
  lines), the tools, the bindings and the Windows contexts: sequential
  transformation of data, or I/O.

## 7. Plan

1. Links between segments over `ScSegments` and `ScArcLists`: an element with arcs in
   several segments has a list of arcs in each, and the erasure runs over all.
2. The composition of `ScArcLists` with `ScMemory`: that the erasure call by call,
   when no handler suspends it, erases exactly `Doomed`.

Seen while modelling, and not in the list of hazards: `__fork` references a sign
once more than the session will release (`sc_core.cpp:1875`); a sign stays in META
when two other sessions still have the unlinked segment open, and a new segment
of that name takes it over; an iterator lets go of the segment before it lets go
of the address in it (`tmp_segment.cpp:699`).
