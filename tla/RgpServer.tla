----------------------------- MODULE RgpServer ------------------------------
(***************************************************************************)
(* Connections of the RGP server (librgp/rgp_connection.cpp).  A client    *)
(* sends requests over the control socket of its connection and reads a    *)
(* RETURN for each.  It may attach waits to elements and make itself the   *)
(* activity of an element: a proxy in the server then passes the call over *)
(* the event socket and serves the client's requests on that socket until  *)
(* the client returns.  The whole server waits meanwhile.                  *)
(*                                                                         *)
(* The server is an agent of the scheduler.  It runs one handler per       *)
(* activation; other agents of sc-memory run between its activations.      *)
(* Connections have been accepted and their clients have logged in.        *)
(***************************************************************************)
EXTENDS RgpRegistry, FiniteSets

CONSTANTS Conns,      \* connections
          Els,        \* elements of sc-memory
          Iterators,  \* objects that requests may create: sc_iterator,
          Activities, \*   rgp_proxy_activity
          Waits,      \*   and rgp_proxy_wait
          None,       \* no object, element or request
          Local,      \* the activity of an element that another agent gave it
          Unread,     \* an argument that has not been read
          Commands,   \* connection -> the commands that its client sends
          Vanishing,  \* connections whose clients may vanish
          MaxDepth    \* bound on nested activations

Objects == Iterators \cup Activities \cup Waits

ASSUME KindsDistinct == /\ Iterators \cap Activities = {}
                        /\ Iterators \cap Waits = {}
                        /\ Activities \cap Waits = {}
ASSUME MarksDistinct == /\ None \notin Objects \cup Els \cup Conns
                        /\ Local \notin Objects \cup {None}
                        /\ Unread \notin Objects \cup Els \cup {None}
ASSUME ElsAreNoObjects == Els \cap Objects = {}
ASSUME VanishingAssumption == Vanishing \subseteq Conns
ASSUME MaxDepthAssumption == MaxDepth \in Nat

ElementCommands == {"change", "erase", "reimplement", "attach", "activate"}
UidCommands == {"next_iterator", "erase_iterator", "detach"}
AllCommands == ElementCommands \cup UidCommands \cup {"create_iterator", "close"}

\* Commands with more than one argument.
Several == {"change", "attach", "activate", "next_iterator"}

ASSUME CommandsKnown == Commands \in [Conns -> SUBSET AllCommands]

VARIABLES
    els,      \* element -> alive, dead, or dead with its address freed
    activity, \* element -> its activity
    life,     \* object -> unborn, alive or freed
    owner,    \* object -> the connection that has created it
    of,       \* proxy -> its element
    registry, \* connection -> kind of object -> registry
    open,     \* connections that are not deleted
    gone,     \* connections whose client is gone
    request_, \* connection -> the request of the control socket
    sent,     \* connection -> the request whose answer the client waits for
    answer,   \* connection -> the request whose RETURN the client has not read
    stack,    \* the nested activations of proxies, innermost last
    stuck,    \* connections that nobody reads from any more
    erred,    \* history: connections that have answered with an exception
    crashed   \* the program has used freed memory, or has been terminated

memory == <<els, activity, life, owner, of, registry>>
client == <<sent, answer>>
vars == <<els, activity, life, owner, of, registry, open, gone, request_, sent,
          answer, stack, stuck, erred, crashed>>

Kinds == {"iterator", "activity", "wait"}
Kind(o) == IF o \in Iterators THEN "iterator"
           ELSE IF o \in Activities THEN "activity" ELSE "wait"

\* A request: its command and the element or uid it is about.  A request as
\* read: with the object its uid stands for, and whether it is complete.
\* A frame: the connection whose client is activated, and who has asked for it,
\* an agent, or a request on the control or the event socket of "from".
Callers == {"agent", "control", "event"}
Frames == [conn : Conns, by : Callers, from : Conns \cup {None}]
Top == stack[Len(stack)]
Below == SubSeq(stack, 1, Len(stack) - 1)

-----------------------------------------------------------------------------
(***************************************************************************)
(* sc-memory and the objects of the connections                            *)
(***************************************************************************)

Memory == [activity |-> activity, life |-> life, owner |-> owner, of |-> of,
           registry |-> registry]

SetMemory(m) ==
    /\ activity' = m.activity /\ life' = m.life /\ owner' = m.owner
    /\ of' = m.of /\ registry' = m.registry

Unregistered(m, o) ==
    [m EXCEPT !.registry[m.owner[o]][Kind(o)] = unregister(@, o)]

\* reply << o, when the reply is written.
Answered(m, o) ==
    [m EXCEPT !.registry[m.owner[o]][Kind(o)] = Register(@, o)]

Freed(m, o) == [m EXCEPT !.life[o] = "freed"]

\* new of an object by a request of connection c.
Born(m, o, c, el) ==
    [m EXCEPT !.life[o] = "alive", !.owner[o] = c, !.of[o] = el]

\* reimplement(el, 0) in the destructor of a proxy of el: the activity that the
\* element has by now is done, which for a proxy is its end.
Unset(m, el) ==
    LET a == m.activity[el]
        clear == [m EXCEPT !.activity[el] = None]
    IN  IF a \in Activities THEN Freed(Unregistered(clear, a), a) ELSE clear

\* Mutation: done() unregisters the proxy and does not delete it.
DoneKept(m, a) == Unregistered(m, a)

\* rgp_proxy_activity::done, with the destructor it calls.
done(m, a) == Unset(Freed(Unregistered(m, a), a), m.of[a])

\* reimplement of sc_session: the new activity is set before the old is done.
Reimplemented(m, el, new) ==
    LET old == m.activity[el]
        set == [m EXCEPT !.activity[el] = new]
    IN  IF old \in Activities THEN done(set, old) ELSE set

\* The waits in the lists of an element.
Attached(el) == {w \in Waits : life[w] = "alive" /\ of[w] = el}

\* The address of an element is freed with the waits in its lists.
WaitsFreed(m, el) ==
    [m EXCEPT !.life = [o \in Objects |->
        IF o \in Attached(el) THEN "freed" ELSE m.life[o]]]

\* Some event of the element is passed to a client that is gone.
MayReachGone(el) == \E w \in Attached(el) : owner[w] \in gone

\* Erasure ends the activity.  s: whether somebody holds the address.
EraseElement(el, s) ==
    LET m == Reimplemented(Memory, el, None)
    IN  /\ els' = [els EXCEPT ![el] = s]
        /\ SetMemory(IF s = "freed" THEN WaitsFreed(m, el) ELSE m)

Unborn(S) == {o \in S : life[o] = "unborn"}

-----------------------------------------------------------------------------
(***************************************************************************)
(* The handlers of requests, with object x as argument                     *)
(***************************************************************************)

\* value_not_nil throws.
IsNil(cmd, x) ==
    /\ cmd \notin {"close", "create_iterator"}
    /\ x = None \/ (x \in Els /\ els[x] # "alive")

\* The argument is freed memory.
Dangling(x) == \/ x \in Els /\ els[x] = "freed"
               \/ x \in Objects /\ life[x] = "freed"

\* RGP_REQ_DETACH_WAIT and RGP_REQ_ERASE_ITERATOR.
Delete(o) == SetMemory(Freed(Unregistered(Memory, o), o)) /\ UNCHANGED els

\* RGP_REQ_REIMPLEMENT: the proxy is registered as the reply is written.
ReimplementBy(c, el) ==
    /\ \E a \in Unborn(Activities) :
           SetMemory(Answered(Reimplemented(Born(Memory, a, c, el), el, a), a))
    /\ UNCHANGED els

\* Mutation: the reply has no object.
AttachUnanswered(c, el) ==
    /\ \E w \in Unborn(Waits) : SetMemory(Born(Memory, w, c, el))
    /\ UNCHANGED els

\* RGP_REQ_ATTACH_WAIT.  A wait that the session does not attach is deleted.
AttachBy(c, el) ==
    \/ /\ \E w \in Unborn(Waits) : SetMemory(Answered(Born(Memory, w, c, el), w))
       /\ UNCHANGED els
    \/ UNCHANGED memory

\* RGP_REQ_CREATE_ITERATOR.  Iterators are born in some order: only their uids
\* tell one from another.
CreateIteratorBy(c) ==
    /\ Unborn(Iterators) # {}
    /\ LET i == CHOOSE o \in Unborn(Iterators) : TRUE
       IN  SetMemory(Answered(Born(Memory, i, c, None), i))
    /\ UNCHANGED els

\* What a request of c changes when its argument is neither nil nor freed.
\* "change" stands for every request that reads or changes elements and leaves
\* them alive, with the events of it.
Perform(c, cmd, x) ==
    \/ cmd \in {"change", "next_iterator"} /\ UNCHANGED memory
    \/ cmd = "erase" /\ \E s \in {"dead", "freed"} : EraseElement(x, s)
    \/ cmd = "reimplement" /\ ReimplementBy(c, x)
    \/ cmd = "attach" /\ AttachBy(c, x)
    \/ cmd = "create_iterator" /\ CreateIteratorBy(c)
    \/ cmd \in {"erase_iterator", "detach"} /\ Delete(x)

\* A proxy whose client is to be activated, or None.
ProxyOf(cmd, x) ==
    IF cmd = "activate" /\ activity[x] \in Activities THEN activity[x] ELSE None

\* A request is written to a client that is gone: by the proxy that is activated,
\* or by a wait that gets an event of the element.
CallsGone(cmd, x) ==
    \/ ProxyOf(cmd, x) # None /\ owner[ProxyOf(cmd, x)] \in gone
    \/ cmd \in {"change", "erase"} /\ MayReachGone(x)

\* A boost::system::system_error that is thrown while the server reads, or asks a
\* socket for its remote_endpoint, ends what runs: nested calls do not catch it,
\* rgp_server_activity::activate does, and nobody reads the control socket of
\* the connection whose request was served; no agent catches it.
Unwind(by, c) ==
    /\ stack' = <<>>
    /\ stuck' = IF by = "control" THEN stuck \cup {c} ELSE stuck
    /\ crashed' = (by = "agent")

\* ~rgp_connection: the registered objects are deleted, each proxy with the
\* activity of its element.  One that is freed already is freed again.
Held(c) == UNION {DOMAIN registry[c][k].obj2uid : k \in Kinds}
Doomed(c) ==
    Held(c) \cup ({activity[of[a]] : a \in Held(c) \cap Activities} \ {None, Local})

DeleteConnection(c) ==
    /\ open' = open \ {c}
    /\ activity' = [el \in Els |->
           IF \E a \in Held(c) \cap Activities : of[a] = el THEN None
           ELSE activity[el]]
    /\ life' = [o \in Objects |-> IF o \in Doomed(c) THEN "freed" ELSE life[o]]
    /\ registry' = [registry EXCEPT ![c] = [k \in Kinds |-> EmptyRegistry]]
    /\ UNCHANGED <<els, owner, of>>

DoubleFree(c) == \E o \in Held(c) : life[o] = "freed"

\* Freed memory is used; or rgp_command::write, which may throw rgp_error alone,
\* gets a system_error from the socket of a client that is gone.
Crash == crashed' = TRUE /\ UNCHANGED <<memory, open, gone, request_, client,
                                        stack, stuck, erred>>

-----------------------------------------------------------------------------
(***************************************************************************)
(* Requests                                                                *)
(***************************************************************************)

Idle == ~crashed /\ stack = <<>>

Uids(c, k) == DOMAIN registry[c][k].uid2obj
UidKind(cmd) == IF cmd = "detach" THEN "wait" ELSE "iterator"

\* What the client of c may ask for: about the objects whose uid it has, and about
\* any element, dead ones included.
UidRequests(c) ==
    UNION {[cmd : {cmd}, on : Uids(c, UidKind(cmd))] :
               cmd \in Commands[c] \cap UidCommands}

Requests(c) ==
    [cmd : Commands[c] \cap ElementCommands, on : Els]
    \cup UidRequests(c)
    \cup [cmd : Commands[c] \cap {"create_iterator", "close"}, on : {None}]

\* The kind of objects that a command makes.
Creates == [reimplement |-> Activities, attach |-> Waits,
            create_iterator |-> Iterators]

\* Bound on objects: for every creation asked for an object is left.
Spare(cmd) ==
    cmd \in DOMAIN Creates =>
        Cardinality({c \in Conns : sent[c] # None /\ sent[c].cmd = cmd})
            < Cardinality(Unborn(Creates[cmd]))

\* object_command_arg::read: the uid is looked up as soon as it is read.
Resolve(c, msg) ==
    IF msg.cmd \in UidCommands
    THEN GetObj(registry[c][UidKind(msg.cmd)], msg.on, None)
    ELSE msg.on

Request(msg, x, readed) == [msg |-> msg, arg |-> x, readed |-> readed]

\* The request that is complete when the rest of what was sent has arrived.  A
\* request whose handler has thrown is still there, and complete.
Readed(c) ==
    LET r == request_[c]
    IN  IF r = None THEN Request(sent[c], Resolve(c, sent[c]), TRUE)
        ELSE IF r.readed THEN r
        ELSE Request(r.msg, IF r.arg = Unread THEN Resolve(c, r.msg) ELSE r.arg,
                     TRUE)

\* The client sends its next request.
send(c, msg) ==
    /\ ~crashed /\ c \in open \ gone
    /\ sent[c] = None
    /\ Spare(msg.cmd)
    /\ sent' = [sent EXCEPT ![c] = msg]
    /\ UNCHANGED <<memory, open, gone, request_, answer, stack, stuck, erred, crashed>>

\* The client reads a RETURN, and takes it for the answer to its request.
receive(c) ==
    /\ ~crashed /\ answer[c] # None
    /\ sent' = [sent EXCEPT ![c] = None]
    /\ answer' = [answer EXCEPT ![c] = None]
    /\ UNCHANGED <<memory, open, gone, request_, stack, stuck, erred, crashed>>

\* The server gets a handler of c from the io_service: bytes have arrived.
Arrived(c) ==
    /\ Idle
    /\ c \in open \ stuck
    /\ sent[c] # None /\ answer[c] = None

\* They are the first part of a request, with or without its first argument.
handle_part(c) ==
    /\ Arrived(c)
    /\ request_[c] = None
    /\ \E x \in {Unread} \cup
                (IF sent[c].cmd \in Several THEN {Resolve(c, sent[c])} ELSE {}) :
           request_' = [request_ EXCEPT ![c] = Request(sent[c], x, FALSE)]
    /\ UNCHANGED <<memory, open, gone, client, stack, stuck, erred, crashed>>

\* Mutation: a request that is answered stays.
KeepRequest(c) == UNCHANGED request_

\* executing_response writes the RETURN and deletes the request.
DropRequest(c) == request_' = [request_ EXCEPT ![c] = None]
Reply(c, msg) == answer' = [answer EXCEPT ![c] = msg]

\* The handler throws: the error is the answer, and the request stays.
handle_throws(c) ==
    /\ Arrived(c)
    /\ LET r == Readed(c)
       IN  /\ IsNil(r.msg.cmd, r.arg)
           /\ Reply(c, r.msg)
           /\ request_' = [request_ EXCEPT ![c] = r]
    /\ erred' = erred \cup {c}
    /\ UNCHANGED <<memory, open, gone, sent, stack, stuck, crashed>>

\* It does what is asked for, without a call of a proxy.
handle_done(c) ==
    /\ Arrived(c)
    /\ LET r == Readed(c)
       IN  /\ r.msg.cmd # "close"
           /\ ~IsNil(r.msg.cmd, r.arg) /\ ~Dangling(r.arg)
           /\ \/ Perform(c, r.msg.cmd, r.arg)
              \/ /\ r.msg.cmd = "activate" /\ ProxyOf(r.msg.cmd, r.arg) = None
                 /\ UNCHANGED memory
           /\ Reply(c, r.msg)
    /\ DropRequest(c)
    /\ UNCHANGED <<open, gone, sent, stack, stuck, erred, crashed>>

\* A call of a proxy whose client is there.
Push(a, by, c) ==
    stack' = Append(stack, [conn |-> owner[a], by |-> by, from |-> c])

\* It activates a proxy; or it calls a client that is gone, whose answer cannot be
\* read.
handle_calls(c) ==
    /\ Arrived(c)
    /\ LET r == Readed(c)
           a == ProxyOf(r.msg.cmd, r.arg)
       IN  /\ ~IsNil(r.msg.cmd, r.arg) /\ ~Dangling(r.arg)
           /\ request_' = [request_ EXCEPT ![c] = r]
           /\ \/ /\ a # None /\ owner[a] \notin gone /\ MaxDepth > 0
                 /\ Push(a, "control", c)
                 /\ UNCHANGED <<stuck, crashed>>
              \/ CallsGone(r.msg.cmd, r.arg) /\ Unwind("control", c)
    /\ UNCHANGED <<memory, open, gone, client, erred>>

\* The client closes: its connection is deleted after the RETURN, unless the
\* socket of a client that is gone has no remote_endpoint to be logged.
handle_close(c) ==
    /\ Arrived(c)
    /\ Readed(c).msg.cmd = "close"
    /\ \/ ~DoubleFree(c) /\ DeleteConnection(c) /\ UNCHANGED stuck
       \/ c \in gone /\ stuck' = stuck \cup {c} /\ UNCHANGED <<memory, open>>
    /\ Reply(c, Readed(c).msg)
    /\ DropRequest(c)
    /\ UNCHANGED <<gone, sent, stack, erred, crashed>>

\* Freed memory is used: a freed address that no longer says that it is dead, an
\* object, or one that the destructor deletes again.  Or it writes to a client
\* that is gone, the RETURN or the request of a call.
handle_crashes(c) ==
    /\ Arrived(c)
    /\ LET r == Readed(c)
       IN  \/ r.msg.cmd = "close" /\ DoubleFree(c)
           \/ Dangling(r.arg)
           \/ ~IsNil(r.msg.cmd, r.arg) /\ CallsGone(r.msg.cmd, r.arg)
           \/ c \in gone
    /\ Crash

-----------------------------------------------------------------------------
(***************************************************************************)
(* rgp_connection::event_communication, for the innermost frame            *)
(***************************************************************************)

\* The client of c handles an activation, and is there.
Serves(c) ==
    /\ ~crashed
    /\ stack # <<>> /\ Top.conn = c
    /\ c \notin gone

\* Mutation: the request that has asked for the activation is not answered.
ResumeSilently == stack' = Below /\ UNCHANGED <<answer, request_>>

\* The activation ends.  A request on a control socket that has asked for it is
\* answered; an event_communication or an agent just goes on.
Resume ==
    /\ stack' = Below
    /\ IF Top.by = "control"
       THEN Reply(Top.from, request_[Top.from].msg) /\ DropRequest(Top.from)
       ELSE UNCHANGED <<answer, request_>>

\* RGP_REP_RETURN; or a handler has thrown, which ends the activation with the
\* code of the error, while the client goes on and waits for an answer.
event_return(c) ==
    /\ Serves(c)
    /\ Resume
    /\ UNCHANGED <<memory, open, gone, sent, stuck, erred, crashed>>

\* A request on the event socket is served.
event_request(c) ==
    /\ Serves(c)
    /\ \E msg \in Requests(c) :
           LET x == Resolve(c, msg)
           IN  /\ Spare(msg.cmd)
               /\ msg.cmd # "close"
               /\ ~IsNil(msg.cmd, x) /\ ~Dangling(x)
               /\ Perform(c, msg.cmd, x)
    /\ UNCHANGED <<open, gone, request_, client, stack, stuck, erred, crashed>>

\* Its handler calls a proxy.
event_calls(c) ==
    /\ Serves(c)
    /\ \E msg \in Requests(c) :
           LET x == Resolve(c, msg)
               a == ProxyOf(msg.cmd, x)
           IN  /\ ~IsNil(msg.cmd, x) /\ ~Dangling(x)
               /\ \/ /\ a # None /\ owner[a] \notin gone /\ Len(stack) < MaxDepth
                     /\ Push(a, "event", c)
                     /\ UNCHANGED <<stuck, crashed>>
                  \/ /\ CallsGone(msg.cmd, x)
                     /\ Unwind(stack[1].by, stack[1].from)
    /\ UNCHANGED <<memory, open, gone, request_, client, erred>>

\* Connection c is used again when the frames below the innermost are resumed.
UsedBelow(c) == \/ \E n \in 1 .. Len(stack) - 1 : stack[n].conn = c
                \/ stack[1].by = "control" /\ stack[1].from = c

\* RGP_REQ_CLOSE: the connection is deleted in the loop, which ends.
event_close(c) ==
    /\ Serves(c)
    /\ "close" \in Commands[c]
    /\ ~DoubleFree(c) /\ ~UsedBelow(c)
    /\ DeleteConnection(c)
    /\ Resume
    /\ UNCHANGED <<gone, sent, stuck, erred, crashed>>

\* The deleted connection is used, or an object of it is freed again; or the
\* argument of a request is freed memory; or it writes to a client that is gone:
\* the request of a call, or the RETURN for the one that has called.
event_crashes(c) ==
    /\ Serves(c)
    /\ \/ "close" \in Commands[c] /\ (DoubleFree(c) \/ UsedBelow(c))
       \/ \E msg \in Requests(c) :
              LET x == Resolve(c, msg)
              IN  Dangling(x) \/ (~IsNil(msg.cmd, x) /\ CallsGone(msg.cmd, x))
       \/ Top.by # "agent" /\ Top.from \in gone
    /\ Crash

\* The socket reports the end of the stream, as an exception; or the RETURN for
\* the last request of the client cannot be written.
event_lost ==
    /\ ~crashed
    /\ stack # <<>> /\ Top.conn \in gone
    /\ \/ /\ Unwind(stack[1].by, stack[1].from)
          /\ UNCHANGED <<memory, open, gone, request_, client, erred>>
       \/ Crash

-----------------------------------------------------------------------------
(***************************************************************************)
(* Clients that go, and the other agents                                   *)
(***************************************************************************)

\* The client is gone: handle_data_readed with no bytes does nothing.
disconnect(c) ==
    /\ ~crashed /\ c \in (open \cap Vanishing) \ gone
    /\ gone' = gone \cup {c}
    /\ UNCHANGED <<memory, open, request_, client, stack, stuck, erred, crashed>>

\* An agent sets an activity of its own, or none.
agent_reimplement(el) ==
    /\ Idle /\ els[el] = "alive"
    /\ \E new \in {Local, None} : SetMemory(Reimplemented(Memory, el, new))
    /\ UNCHANGED <<els, open, gone, request_, client, stack, stuck, erred, crashed>>

agent_erase(el) ==
    /\ Idle /\ els[el] = "alive"
    /\ \E s \in {"dead", "freed"} : EraseElement(el, s)
    /\ UNCHANGED <<open, gone, request_, client, stack, stuck, erred, crashed>>

\* The last reference to the address of a dead element is given up.
agent_unref(el) ==
    /\ Idle /\ els[el] = "dead"
    /\ els' = [els EXCEPT ![el] = "freed"]
    /\ SetMemory(WaitsFreed(Memory, el))
    /\ UNCHANGED <<open, gone, request_, client, stack, stuck, erred, crashed>>

\* An agent activates an element, or changes it: the call of a proxy.
agent_calls(el) ==
    /\ Idle /\ els[el] = "alive"
    /\ LET a == ProxyOf("activate", el)
       IN  \/ /\ a # None /\ owner[a] \notin gone /\ MaxDepth > 0
              /\ Push(a, "agent", None)
              /\ UNCHANGED <<stuck, crashed>>
           \/ /\ CallsGone("activate", el) \/ CallsGone("change", el)
              /\ Unwind("agent", None)
    /\ UNCHANGED <<memory, open, gone, request_, client, erred>>

-----------------------------------------------------------------------------
Init ==
    /\ els = [el \in Els |-> "alive"]
    /\ activity = [el \in Els |-> None]
    /\ life = [o \in Objects |-> "unborn"]
    /\ owner = [o \in Objects |-> None]
    /\ of = [o \in Objects |-> None]
    /\ registry = [c \in Conns |-> [k \in Kinds |-> EmptyRegistry]]
    /\ open = Conns
    /\ gone = {} /\ stuck = {} /\ erred = {}
    /\ request_ = [c \in Conns |-> None]
    /\ sent = [c \in Conns |-> None]
    /\ answer = [c \in Conns |-> None]
    /\ stack = <<>>
    /\ crashed = FALSE

\* What the server does for the client of c.
Handle(c) == \/ handle_part(c) \/ handle_throws(c) \/ handle_done(c)
             \/ handle_calls(c) \/ handle_close(c) \/ handle_crashes(c)

Next ==
    \/ \E c \in Conns : Handle(c)
    \/ \E c \in Conns : \/ receive(c) \/ disconnect(c)
                        \/ \E msg \in Requests(c) : send(c, msg)
    \/ \E c \in Conns : \/ event_return(c) \/ event_request(c) \/ event_calls(c)
                        \/ event_close(c) \/ event_crashes(c)
    \/ event_lost
    \/ \E el \in Els : \/ agent_reimplement(el) \/ agent_erase(el)
                       \/ agent_unref(el) \/ agent_calls(el)

Spec == Init /\ [][Next]_vars

-----------------------------------------------------------------------------
(***************************************************************************)
(* Properties                                                              *)
(***************************************************************************)

Requested == [cmd : AllCommands, on : Els \cup Nat \cup {None}]

\* Types of the variables: what the connections, the objects, the sockets and
\* the nested activations may be.
TypeOK ==
    /\ els \in [Els -> {"alive", "dead", "freed"}]
    /\ activity \in [Els -> Activities \cup {None, Local}]
    /\ life \in [Objects -> {"unborn", "alive", "freed"}]
    /\ owner \in [Objects -> Conns \cup {None}]
    /\ of \in [Objects -> Els \cup {None}]
    /\ open \subseteq Conns /\ gone \subseteq Conns
    /\ stuck \subseteq Conns /\ erred \subseteq Conns
    /\ sent \in [Conns -> Requested \cup {None}]
    /\ answer \in [Conns -> Requested \cup {None}]
    /\ stack \in Seq(Frames)
    /\ crashed \in BOOLEAN

\* In every registry each uid names one object or is free once, and the two maps
\* are each other's inverse, whatever order objects come and go in: no uid is
\* given to two objects (rgp_obj_registry, uid_generator).
UidsSound == \A c \in Conns, k \in Kinds : RegistrySound(registry[c][k])

\* An object that lives can be named and found by its connection, which is not
\* deleted: nothing outlives its connection, neither an iterator that is
\* forgotten nor a wait that would call a deleted connection (~rgp_connection).
ObjectsHeld ==
    \A o \in Objects : life[o] = "alive" =>
        owner[o] \in open /\ o \in DOMAIN registry[owner[o]][Kind(o)].obj2uid

\* The activity of an element is a proxy exactly as long as the proxy lives: no
\* deleted proxy is activated and none is left without its element, although
\* reimplement, done and the destructor call each other.
ProxiesInPlace ==
    /\ \A el \in Els : activity[el] \in Activities =>
           life[activity[el]] = "alive" /\ of[activity[el]] = el
    /\ \A a \in Activities : life[a] = "alive" => activity[of[a]] = a

\* A RETURN that the client reads answers the request that it waits for, as long
\* as no handler of the connection has thrown (executing_response).
AnswersMatch ==
    /\ TypeOK
    /\ \A c \in Conns \ erred : answer[c] # None => answer[c] = sent[c]

\* rgp.h, "Interaction": each request has its RETURN.
EveryAnswerMatches == \A c \in Conns : answer[c] # None => answer[c] = sent[c]

\* The scheduler activates the server again and again, and the io_service gives
\* every socket its turn; each activation of a client ends, whatever it nests;
\* a client reads its answers.
Fairness ==
    /\ \A c \in Conns : SF_vars(Handle(c)) /\ WF_vars(receive(c))
    /\ \A n \in 1 .. MaxDepth :
           SF_vars(Len(stack) = n /\ \E c \in Conns : event_return(c))

FairSpec == Spec /\ Fairness

\* While no client is gone, every request is answered, whatever activations are
\* under way when it is sent.
RequestAnswered ==
    [](gone = {} /\ ~crashed) =>
        \A c \in Conns : sent[c] # None ~> (sent[c] = None \/ c \notin open)
=============================================================================
