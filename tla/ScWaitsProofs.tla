--------------------------- MODULE ScWaitsProofs ---------------------------
(***************************************************************************)
(* Theorems about the lists of waits, for any waits, lists and agents.     *)
(*                                                                         *)
(* The first part is about rings alone: what the removal and the insertion *)
(* of a node do to the pointers and to the nodes that a head leads to.     *)
(***************************************************************************)
EXTENDS ScWaits, TLAPS

Pointers == [Nodes -> Nodes]

\* Two pointer functions that mirror each other.
Mirror(nx, pv) ==
    /\ nx \in Pointers /\ pv \in Pointers
    /\ \A n \in Nodes : pv[nx[n]] = n /\ nx[pv[n]] = n

\* RingOf for any next pointers.
Reach(nx, h) ==
    LET Closed == {S \in SUBSET Nodes : h \in S /\ \A n \in S : nx[n] \in S}
    IN  {n \in Nodes : \A S \in Closed : n \in S}

LEMMA ReachIsRing == \A h : Reach(next, h) = RingOf(h)
BY DEF Reach, RingOf

\* Remove and InsertAfter, pointer by pointer.
NextRemoved(nx, pv, p) == [[nx EXCEPT ![pv[p]] = nx[p]] EXCEPT ![p] = p]
PrevRemoved(nx, pv, p) == [[pv EXCEPT ![nx[p]] = pv[p]] EXCEPT ![p] = p]
NextInserted(nx, h, w) == [nx EXCEPT ![w] = nx[h], ![h] = w]
PrevInserted(nx, pv, h, w) == [pv EXCEPT ![nx[h]] = w, ![w] = h]

-----------------------------------------------------------------------------
(* The pointers.                                                           *)

LEMMA RemoveMirrors ==
    ASSUME NEW nx, NEW pv, Mirror(nx, pv), NEW p \in Nodes
    PROVE  /\ Mirror(NextRemoved(nx, pv, p), PrevRemoved(nx, pv, p))
           /\ PrevRemoved(nx, pv, p)[p] = p
           /\ \A m \in Nodes : pv[m] = m => PrevRemoved(nx, pv, p)[m] = m
<1>. USE DEF Mirror, Pointers, NextRemoved, PrevRemoved
<1>. DEFINE nx2 == NextRemoved(nx, pv, p)
            pv2 == PrevRemoved(nx, pv, p)
<1>1. nx2 \in Pointers /\ pv2 \in Pointers /\ pv2[p] = p /\ nx2[p] = p
  OBVIOUS
<1>2. ASSUME NEW n \in Nodes
      PROVE  pv2[nx2[n]] = n /\ nx2[pv2[n]] = n
  <2>1. CASE n = p
    BY <2>1, <1>1
  <2>2. CASE n # p
    <3>1. pv2[nx2[n]] = n
      <4>1. CASE n = pv[p]
        BY <4>1, <2>2
      <4>2. CASE n # pv[p]
        BY <4>2, <2>2
      <4>. QED BY <4>1, <4>2
    <3>2. nx2[pv2[n]] = n
      <4>1. CASE n = nx[p]
        BY <4>1, <2>2
      <4>2. CASE n # nx[p]
        BY <4>2, <2>2
      <4>. QED BY <4>1, <4>2
    <3>. QED BY <3>1, <3>2
  <2>. QED BY <2>1, <2>2
<1>3. ASSUME NEW m \in Nodes, pv[m] = m
      PROVE  pv2[m] = m
  BY <1>3
<1>. QED BY <1>1, <1>2, <1>3

LEMMA InsertMirrors ==
    ASSUME NEW nx, NEW pv, Mirror(nx, pv), NEW h \in Nodes, NEW w \in Nodes,
           h # w, pv[w] = w
    PROVE  /\ Mirror(NextInserted(nx, h, w), PrevInserted(nx, pv, h, w))
           /\ \A m \in Nodes \ {h, w} : pv[m] = m => PrevInserted(nx, pv, h, w)[m] = m
<1>. USE DEF Mirror, Pointers, NextInserted, PrevInserted
<1>. DEFINE nx2 == NextInserted(nx, h, w)
            pv2 == PrevInserted(nx, pv, h, w)
<1>1. nx2 \in Pointers /\ pv2 \in Pointers
  OBVIOUS
<1>2. nx[w] = w /\ nx[h] # w
  OBVIOUS
<1>3. ASSUME NEW n \in Nodes
      PROVE  pv2[nx2[n]] = n /\ nx2[pv2[n]] = n
  <2>1. pv2[nx2[n]] = n
    <3>1. CASE n = w
      BY <3>1, <1>2
    <3>2. CASE n = h
      BY <3>2, <1>2
    <3>3. CASE n # w /\ n # h
      BY <3>3, <1>2
    <3>. QED BY <3>1, <3>2, <3>3
  <2>2. nx2[pv2[n]] = n
    <3>1. CASE n = w
      BY <3>1, <1>2
    <3>2. CASE n = nx[h] /\ n # w
      BY <3>2, <1>2
    <3>3. CASE n # w /\ n # nx[h]
      BY <3>3, <1>2
    <3>. QED BY <3>1, <3>2, <3>3
  <2>. QED BY <2>1, <2>2
<1>4. ASSUME NEW m \in Nodes \ {h, w}, pv[m] = m
      PROVE  pv2[m] = m
  BY <1>4, <1>2
<1>. QED BY <1>1, <1>3, <1>4

-----------------------------------------------------------------------------
(* The nodes that a head leads to.                                         *)

\* They are closed under next, and they are in every set that is.
LEMMA ReachClosed ==
    ASSUME NEW nx \in Pointers, NEW h \in Nodes
    PROVE  /\ h \in Reach(nx, h) /\ Reach(nx, h) \subseteq Nodes
           /\ \A n \in Reach(nx, h) : nx[n] \in Reach(nx, h)
           /\ \A S \in SUBSET Nodes :
                h \in S /\ (\A n \in S : nx[n] \in S) => Reach(nx, h) \subseteq S
BY DEF Reach, Pointers

\* A node that points to itself is reached from itself only.
LEMMA SelfUnreached ==
    ASSUME NEW nx, NEW pv, Mirror(nx, pv), NEW w \in Nodes, pv[w] = w,
           NEW h \in Nodes, h # w
    PROVE  w \notin Reach(nx, h)
<1>. DEFINE S == Reach(nx, h) \ {w}
<1>1. nx \in Pointers
  BY DEF Mirror
<1>2. h \in S /\ S \in SUBSET Nodes
  BY <1>1, ReachClosed
<1>3. ASSUME NEW n \in S
      PROVE  nx[n] \in S
  BY <1>1, <1>3, ReachClosed DEF Mirror
<1>4. Reach(nx, h) \subseteq S
  <2>. HIDE DEF S
  <2>. QED BY <1>1, <1>2, <1>3, ReachClosed
<1>. QED BY <1>4

LEMMA RemoveReach ==
    ASSUME NEW nx, NEW pv, Mirror(nx, pv), NEW p \in Nodes, NEW h \in Nodes, h # p
    PROVE  Reach(NextRemoved(nx, pv, p), h) = Reach(nx, h) \ {p}
<1>. DEFINE nx2 == NextRemoved(nx, pv, p)
<1>0. nx2 = [[nx EXCEPT ![pv[p]] = nx[p]] EXCEPT ![p] = p]
  BY DEF NextRemoved
<1>. HIDE DEF nx2
<1>1. nx2 \in Pointers /\ nx \in Pointers
  BY <1>0 DEF Mirror, Pointers
<1>. DEFINE S == Reach(nx, h) \ {p}
<1>2. Reach(nx2, h) \subseteq S
  <2>1. h \in S /\ S \in SUBSET Nodes
    BY <1>1, ReachClosed
  <2>2. ASSUME NEW n \in S
        PROVE  nx2[n] \in S
    <3>1. n \in Nodes /\ n # p /\ nx[n] \in Reach(nx, h)
      BY <1>1, ReachClosed
    <3>2. CASE n = pv[p]
      <4>1. nx[n] = p /\ nx2[n] = nx[p]
        BY <1>0, <3>1, <3>2 DEF Mirror, Pointers
      <4>2. nx[p] \in Reach(nx, h)
        BY <1>1, <3>1, <4>1, ReachClosed
      <4>3. nx[p] # p
        BY <3>1, <4>1 DEF Mirror
      <4>. QED BY <4>1, <4>2, <4>3
    <3>3. CASE n # pv[p]
      BY <1>0, <3>1, <3>3 DEF Mirror, Pointers
    <3>. QED BY <3>2, <3>3
  <2>. HIDE DEF S
  <2>. QED BY <1>1, <2>1, <2>2, ReachClosed
<1>3. S \subseteq Reach(nx2, h)
  <2>. DEFINE R == Reach(nx2, h)
              T == R \cup {n \in {p} : pv[p] \in R}
  <2>1. h \in R /\ R \subseteq Nodes /\ \A n \in R : nx2[n] \in R
    BY <1>1, ReachClosed
  <2>2. ASSUME NEW n \in T
        PROVE  nx[n] \in T
    <3>1. CASE n = p
      <4>1. CASE p \in R
        \* p is not reached
        <5>1. R \subseteq S
          BY <1>2
        <5>. QED BY <4>1, <5>1
      <4>2. CASE pv[p] \in R /\ p \notin R
        <5>1. nx2[pv[p]] = nx[p]
          BY <1>0, <4>2 DEF Mirror, Pointers
        <5>. QED BY <5>1, <4>2, <2>1, <3>1
      <4>. QED BY <3>1, <2>2, <4>1, <4>2
    <3>2. CASE n # p
      <4>1. n \in R /\ n \in Nodes
        BY <3>2, <2>2, <2>1
      <4>2. CASE n = pv[p]
        BY <4>1, <4>2 DEF Mirror
      <4>3. CASE n # pv[p]
        BY <1>0, <3>2, <4>1, <4>3, <2>1 DEF Mirror, Pointers
      <4>. QED BY <4>2, <4>3
    <3>. QED BY <3>1, <3>2
  <2>3. h \in T /\ T \in SUBSET Nodes
    BY <2>1
  <2>4. Reach(nx, h) \subseteq T
    <3>. HIDE DEF T
    <3>. QED BY <1>1, <2>2, <2>3, ReachClosed
  <2>. QED BY <2>4
<1>. QED BY <1>2, <1>3 DEF nx2

LEMMA InsertReach ==
    ASSUME NEW nx, NEW pv, Mirror(nx, pv), NEW h \in Nodes, NEW w \in Nodes,
           h # w, pv[w] = w, NEW k \in Nodes, k # w
    PROVE  Reach(NextInserted(nx, h, w), k) = Reach(nx, k) \cup {x \in {w} : h \in Reach(nx, k)}
<1>. DEFINE nx2 == NextInserted(nx, h, w)
<1>0. nx2 = [nx EXCEPT ![w] = nx[h], ![h] = w]
  BY DEF NextInserted
<1>. HIDE DEF nx2
<1>1. nx2 \in Pointers /\ nx \in Pointers
  BY <1>0 DEF Mirror, Pointers
<1>. DEFINE R == Reach(nx, k)
            T == R \cup {x \in {w} : h \in R}
<1>2. /\ k \in R /\ R \subseteq Nodes /\ \A n \in R : nx[n] \in R
      /\ w \notin R
  BY <1>1, ReachClosed, SelfUnreached
<1>3. \A n \in Nodes : nx[n] = w => n = w
  BY DEF Mirror
<1>4. nx2[w] = nx[h] /\ nx2[h] = w /\ \A n \in Nodes \ {h, w} : nx2[n] = nx[n]
  BY <1>0 DEF Mirror, Pointers
<1>5. Reach(nx2, k) \subseteq T
  <2>1. k \in T /\ T \in SUBSET Nodes
    BY <1>2
  <2>2. ASSUME NEW n \in T
        PROVE  nx2[n] \in T
    <3>1. CASE n = w
      BY <3>1, <2>2, <1>2, <1>4
    <3>2. CASE n # w
      <4>1. n \in R /\ nx[n] \in R
        BY <3>2, <2>2, <1>2
      <4>2. CASE n = h
        BY <4>1, <4>2, <1>4
      <4>3. CASE n # h
        BY <4>1, <4>3, <3>2, <1>2, <1>4
      <4>. QED BY <4>2, <4>3
    <3>. QED BY <3>1, <3>2
  <2>. HIDE DEF T
  <2>. QED BY <1>1, <2>1, <2>2, ReachClosed
<1>6. T \subseteq Reach(nx2, k)
  <2>. DEFINE Q == Reach(nx2, k)
              S == Q \ {w}
  <2>1. k \in Q /\ Q \subseteq Nodes /\ \A n \in Q : nx2[n] \in Q
    BY <1>1, ReachClosed
  <2>2. k \in S /\ S \in SUBSET Nodes
    BY <2>1
  <2>3. \A n \in S : nx[n] \in S
    BY <1>3, <1>4, <2>1
  <2>4. R \subseteq S
    <3>. HIDE DEF S
    <3>. QED BY <1>1, <2>2, <2>3, ReachClosed
  <2>5. ASSUME h \in R
        PROVE  w \in Q
    <3>1. h \in Q
      BY <2>4, <2>5
    <3>. QED BY <2>1, <3>1, <1>4
  <2>. QED BY <2>4, <2>5
<1>. QED BY <1>5, <1>6 DEF nx2

-----------------------------------------------------------------------------
(* A wait that is outside all lists, or has just been taken out, and what   *)
(* becomes of the lists when it stays out or is inserted.                   *)

\* The rings nx, pv hold the attached waits, but w is outside.
Without(nx, pv, w) ==
    /\ Mirror(nx, pv) /\ pv[w] = w
    /\ \A v \in Waits \ {w} : status[v] # "attached" => pv[v] = v
    /\ \A k \in Lists : Reach(nx, k) \cap Lists = {k}
    /\ UNION {Reach(nx, k) : k \in Lists} = Lists \cup {v \in Waits \ {w} : status[v] = "attached"}

LEMMA LinkedMirrors == Linked => Mirror(next, prev)
BY DEF Linked, TypeOK, Mirror, Pointers

LEMMA RingsReach ==
    ASSUME EachInOneList
    PROVE  /\ \A k \in Lists : Reach(next, k) \cap Lists = {k}
           /\ UNION {Reach(next, k) : k \in Lists} = Lists \cup {v \in Waits : status[v] = "attached"}
BY DEF EachInOneList, RingOf, Reach

LEMMA WithoutRemoved ==
    ASSUME Linked, EachInOneList, NEW w \in Waits
    PROVE  Without(Remove(Ring, w).next, Remove(Ring, w).prev, w)
<1>. DEFINE nx == Remove(Ring, w).next
            pv == Remove(Ring, w).prev
<1>0. w \in Nodes /\ w \notin Lists /\ Lists \subseteq Nodes /\ Waits \subseteq Nodes
  BY NodesDistinct DEF Nodes
<1>1. nx = NextRemoved(next, prev, w) /\ pv = PrevRemoved(next, prev, w)
  BY DEF Remove, Ring, NextRemoved, PrevRemoved
<1>. HIDE DEF nx, pv
<1>2. /\ Mirror(nx, pv) /\ pv[w] = w
      /\ \A m \in Nodes : prev[m] = m => pv[m] = m
  BY <1>0, <1>1, LinkedMirrors, RemoveMirrors
<1>3. \A k \in Lists : Reach(nx, k) = Reach(next, k) \ {w}
  BY <1>0, <1>1, LinkedMirrors, RemoveReach
<1>4. \A v \in Waits \ {w} : status[v] # "attached" => pv[v] = v
  BY <1>0, <1>2 DEF Linked
<1>5. \A k \in Lists : Reach(nx, k) \cap Lists = {k}
  BY <1>0, <1>3, RingsReach
<1>6. UNION {Reach(nx, k) : k \in Lists} = Lists \cup {v \in Waits \ {w} : status[v] = "attached"}
  <2>1. UNION {Reach(nx, k) : k \in Lists} = (UNION {Reach(next, k) : k \in Lists}) \ {w}
    BY <1>3
  <2>. QED BY <1>0, <2>1, RingsReach
<1>7. Without(nx, pv, w)
  BY <1>2, <1>4, <1>5, <1>6 DEF Without
<1>. QED BY <1>7 DEF nx, pv

LEMMA WithoutNew ==
    ASSUME Linked, EachInOneList, NEW w \in Waits, status[w] # "attached"
    PROVE  Without(next, prev, w)
BY LinkedMirrors, RingsReach DEF Without, Linked

\* The wait stays out.
LEMMA LeftOut ==
    ASSUME TypeOK, TypeOK', NEW w \in Waits, Without(next', prev', w), NEW s,
           status' = [status EXCEPT ![w] = s], s # "attached"
    PROVE  Linked' /\ EachInOneList'
<1>1. \A v \in Waits : status'[v] = IF v = w THEN s ELSE status[v]
  BY DEF TypeOK
<1>2. Linked'
  BY <1>1 DEF Linked, Without, Mirror
<1>3. \A k : RingOf(k)' = Reach(next', k)
  BY DEF RingOf, Reach
<1>4. {v \in Waits : status'[v] = "attached"} = {v \in Waits \ {w} : status[v] = "attached"}
  BY <1>1
<1>5. EachInOneList'
  BY <1>3, <1>4 DEF EachInOneList, Without
<1>. QED BY <1>2, <1>5

\* The wait is inserted behind the head of a list.
LEMMA Inserted ==
    ASSUME TypeOK, TypeOK', NEW w \in Waits, NEW l \in Lists, NEW nx, NEW pv, Without(nx, pv, w),
           next' = NextInserted(nx, l, w), prev' = PrevInserted(nx, pv, l, w),
           status' = [status EXCEPT ![w] = "attached"]
    PROVE  Linked' /\ EachInOneList'
<1>1. \A v \in Waits : status'[v] = IF v = w THEN "attached" ELSE status[v]
  BY DEF TypeOK
<1>2. /\ w \in Nodes /\ w \notin Lists /\ l \in Nodes /\ l # w
      /\ Lists \subseteq Nodes /\ Waits \subseteq Nodes
  BY NodesDistinct DEF Nodes
<1>3. Mirror(nx, pv) /\ pv[w] = w
  BY DEF Without
<1>4. Mirror(next', prev') /\ \A m \in Nodes \ {l, w} : pv[m] = m => prev'[m] = m
  BY <1>2, <1>3, InsertMirrors
<1>5. Linked'
  <2>1. \A v \in Waits : status'[v] # "attached" => prev'[v] = v
    BY <1>1, <1>2, <1>4, NodesDistinct DEF Without
  <2>. QED BY <1>4, <2>1 DEF Linked, Mirror
<1>6. \A k \in Lists : Reach(next', k) = Reach(nx, k) \cup {x \in {w} : l \in Reach(nx, k)}
  <2>. SUFFICES ASSUME NEW k \in Lists
                PROVE  Reach(next', k) = Reach(nx, k) \cup {x \in {w} : l \in Reach(nx, k)}
    OBVIOUS
  <2>1. k \in Nodes /\ k # w
    BY <1>2
  <2>. QED BY <1>2, <1>3, <2>1, InsertReach
<1>7. \A k \in Lists : l \in Reach(nx, k) <=> k = l
  BY DEF Without
<1>8. \A k : RingOf(k)' = Reach(next', k)
  BY DEF RingOf, Reach
<1>9. \A k \in Lists : RingOf(k)' \cap Lists = {k}
  BY <1>2, <1>6, <1>8 DEF Without
<1>10. UNION {RingOf(k)' : k \in Lists} = Lists \cup {v \in Waits : status'[v] = "attached"}
  <2>1. UNION {RingOf(k)' : k \in Lists} = (UNION {Reach(nx, k) : k \in Lists}) \cup {w}
    BY <1>6, <1>7, <1>8
  <2>2. {v \in Waits : status'[v] = "attached"} = {v \in Waits \ {w} : status[v] = "attached"} \cup {w}
    BY <1>1
  <2>. QED BY <2>1, <2>2 DEF Without
<1>11. EachInOneList'
  BY <1>9, <1>10 DEF EachInOneList
<1>. QED BY <1>5, <1>11

-----------------------------------------------------------------------------
(* The specification.                                                      *)

\* The agent that has the processor is in a walk.
ActiveWalks == \A a \in Agents : active = a => walk[a] \in Walks

WaitInv == ActiveWalks /\ Linked /\ EachInOneList

LEMMA InitWaits == Init => WaitInv
<1>. SUFFICES ASSUME Init
              PROVE  WaitInv
  OBVIOUS
<1>. USE DEF Init
<1>1. TypeOK
  <2>1. NoCalls \in [Waits -> 0..2]
    BY DEF NoCalls
  <2>2. next \in [Nodes -> Nodes] /\ prev \in [Nodes -> Nodes]
    OBVIOUS
  <2>. QED BY <2>1, <2>2 DEF TypeOK, Statuses
<1>2. ActiveWalks
  BY NobodyIsNoAgent DEF ActiveWalks
<1>3. Linked
  BY <1>1 DEF Linked, Nodes
<1>4. \A k \in Lists : RingOf(k) = {k}
  <2>. SUFFICES ASSUME NEW k \in Lists
                PROVE  Reach(next, k) = {k}
    BY ReachIsRing
  <2>1. next \in Pointers /\ k \in Nodes /\ \A n \in Nodes : next[n] = n
    BY DEF Pointers, Nodes
  <2>. HIDE DEF Init
  <2>2. {k} \in SUBSET Nodes /\ k \in {k} /\ \A n \in {k} : next[n] \in {k}
    BY <2>1
  <2>. QED BY <2>1, <2>2, ReachClosed
<1>5. UNION {RingOf(k) : k \in Lists} = Lists
  BY <1>4
<1>6. {w \in Waits : status[w] = "attached"} = {}
  OBVIOUS
<1>7. EachInOneList
  BY <1>4, <1>5, <1>6 DEF EachInOneList
<1>. QED BY <1>2, <1>3, <1>7 DEF WaitInv

\* Pointers, once more, as the records that the actions build.
LEMMA RemovedRing ==
    ASSUME TypeOK, NEW w \in Waits
    PROVE  Remove(Ring, w).next \in Pointers /\ Remove(Ring, w).prev \in Pointers
BY DEF TypeOK, Remove, Ring, Pointers, Nodes

LEMMA InsertedRing ==
    ASSUME NEW r, r.next \in Pointers, r.prev \in Pointers, NEW l \in Lists, NEW w \in Waits,
           r.prev[w] = w
    PROVE  /\ Append(r, l, w).next = NextInserted(r.next, l, w)
           /\ Append(r, l, w).prev = PrevInserted(r.next, r.prev, l, w)
           /\ Append(r, l, w).next \in Pointers /\ Append(r, l, w).prev \in Pointers
BY DEF Append, InsertAfter, NextInserted, PrevInserted, Pointers, Nodes

\* A step keeps the history in its types.
LEMMA HistoryTyped ==
    ASSUME TypeOK, NEW S, KeepHistory(S)
    PROVE  todo' \in [Agents -> SUBSET Waits] /\ alone' \in [Agents -> BOOLEAN]
BY DEF TypeOK, KeepHistory

LEMMA CallsTyped ==
    ASSUME TypeOK, NEW S, NEW a \in Agents, NEW w \in Waits
    PROVE  CallsAfter(S, a, w) \in [Agents -> [Waits -> 0..2]]
<1>. SUFFICES ASSUME NEW b \in Agents
              PROVE  CallsAfter(S, a, w)[b] \in [Waits -> 0..2]
  BY DEF CallsAfter
<1>1. NoCalls \in [Waits -> 0..2] /\ calls[b] \in [Waits -> 0..2]
  BY DEF TypeOK, NoCalls
<1>2. calls[b][w] < 2 => [calls[b] EXCEPT ![w] = @ + 1] \in [Waits -> 0..2]
  <2>. SUFFICES ASSUME calls[b][w] < 2
                PROVE  calls[b][w] + 1 \in 0..2
    BY <1>1
  <2>. QED BY <1>1
<1>. QED BY <1>1, <1>2 DEF CallsAfter

LEMMA DisturbedTyped ==
    ASSUME TypeOK, Disturbed
    PROVE  /\ todo' \in [Agents -> SUBSET Waits] /\ alone' \in [Agents -> BOOLEAN]
           /\ calls' \in [Agents -> [Waits -> 0..2]]
BY HistoryTyped DEF Disturbed, NoCalls

LEMMA ForgetTyped ==
    ASSUME TypeOK, NEW a \in Agents, Forget(a)
    PROVE  /\ todo' \in [Agents -> SUBSET Waits] /\ alone' \in [Agents -> BOOLEAN]
           /\ calls' \in [Agents -> [Waits -> 0..2]]
BY DEF TypeOK, Forget, NoCalls

\* The pointer of an agent's walk stays at a node, and its list and the list of
\* the begin stay what they are.
LEMMA WalkTyped ==
    ASSUME TypeOK, NEW a \in Agents, walk[a] \in Walks, NEW n \in Nodes, NEW t \in Stages
    PROVE  /\ [walk EXCEPT ![a].at = n] \in [Agents -> Walks \cup {NoWalk}]
           /\ [walk EXCEPT ![a].at = n, ![a].stage = t] \in [Agents -> Walks \cup {NoWalk}]
           /\ [walk EXCEPT ![a].at = n][a] \in Walks
<1>1. [walk[a] EXCEPT !.at = n] \in Walks
  BY DEF Walks
<1>2. [walk[a] EXCEPT !.at = n, !.stage = t] \in Walks
  BY DEF Walks
<1>. QED BY <1>1, <1>2 DEF TypeOK

\* The actions that change a list.
LEMMA AttachStep ==
    ASSUME WaitInv, NEW w \in Waits, NEW l \in Lists, attach_wait(w, l)
    PROVE  WaitInv'
<1>. USE DEF WaitInv
<1>1. TypeOK
  BY DEF Linked
<1>2. status[w] # "attached" /\ prev[w] = w
  BY DEF attach_wait, Linked
<1>3. /\ next' = NextInserted(next, l, w) /\ next' \in Pointers
      /\ prev' = PrevInserted(next, prev, l, w) /\ prev' \in Pointers
  BY <1>1, <1>2, InsertedRing DEF attach_wait, SetRing, Ring, TypeOK, Pointers
<1>4. TypeOK'
  BY <1>1, <1>3, DisturbedTyped DEF attach_wait, TypeOK, Pointers, Statuses
<1>5. Linked' /\ EachInOneList'
  BY <1>1, <1>2, <1>3, <1>4, WithoutNew, Inserted DEF attach_wait
<1>6. ActiveWalks'
  BY DEF attach_wait, ActiveWalks
<1>. QED BY <1>5, <1>6

LEMMA DetachStep ==
    ASSUME WaitInv, NEW w \in Waits, delevhandler(w) \/ reap_good_waits(w)
    PROVE  WaitInv'
<1>. USE DEF WaitInv
<1>1. TypeOK
  BY DEF Linked
<1>2. PICK s \in {"detached", "freed"} : status' = [status EXCEPT ![w] = s]
  BY DEF delevhandler, reap_good_waits
<1>3. SetRing(Remove(Ring, w)) /\ Disturbed /\ UNCHANGED <<walk, active, crashed>>
  BY DEF delevhandler, reap_good_waits
<1>4. TypeOK'
  BY <1>1, <1>2, <1>3, RemovedRing, DisturbedTyped DEF TypeOK, SetRing, Pointers, Statuses
<1>5. Without(next', prev', w)
  BY <1>3, WithoutRemoved DEF SetRing
<1>6. Linked' /\ EachInOneList'
  BY <1>1, <1>2, <1>4, <1>5, LeftOut
<1>7. ActiveWalks'
  BY <1>3 DEF ActiveWalks
<1>. QED BY <1>6, <1>7

LEMMA PreHandlerStep ==
    ASSUME WaitInv, NEW a \in Agents, NEW p \in Nodes, visit_pre_handler(a, p)
    PROVE  WaitInv'
<1>. USE DEF WaitInv
<1>1. TypeOK /\ p \in Waits /\ walk[a] \in Walks
  BY DEF Linked, visit_pre_handler, At, ActiveWalks
<1>. DEFINE r == Remove(Ring, p)
<1>2. Without(r.next, r.prev, p) /\ r.next \in Pointers /\ r.prev \in Pointers
  BY <1>1, WithoutRemoved, RemovedRing
<1>3. walk[a].back \in Lists
  BY <1>1 DEF Walks
<1>. HIDE DEF r
<1>4. /\ next' = NextInserted(r.next, walk[a].back, p) /\ next' \in Pointers
      /\ prev' = PrevInserted(r.next, r.prev, walk[a].back, p) /\ prev' \in Pointers
  <2>1. r.prev[p] = p
    BY <1>2 DEF Without
  <2>2. next' = Append(r, walk[a].back, p).next /\ prev' = Append(r, walk[a].back, p).prev
    BY DEF visit_pre_handler, SetRing, r
  <2>. QED BY <1>1, <1>2, <1>3, <2>1, <2>2, InsertedRing
<1>5. walk' \in [Agents -> Walks \cup {NoWalk}]
  <2>1. next[p] \in Nodes
    BY <1>1 DEF TypeOK
  <2>2. PICK t \in Stages : walk' = [walk EXCEPT ![a].at = next[p], ![a].stage = t]
    BY DEF visit_pre_handler, Stages
  <2>. QED BY <1>1, <2>1, <2>2, WalkTyped
<1>6. /\ todo' \in [Agents -> SUBSET Waits] /\ alone' \in [Agents -> BOOLEAN]
      /\ calls' \in [Agents -> [Waits -> 0..2]]
  BY <1>1, HistoryTyped, CallsTyped DEF visit_pre_handler
<1>7. TypeOK'
  BY <1>1, <1>4, <1>5, <1>6 DEF visit_pre_handler, TypeOK, Pointers, Statuses
<1>8. Linked' /\ EachInOneList'
  BY <1>1, <1>2, <1>3, <1>4, <1>7, Inserted DEF visit_pre_handler
<1>9. ActiveWalks'
  BY NobodyIsNoAgent DEF visit_pre_handler, ActiveWalks
<1>. QED BY <1>8, <1>9

LEMMA OnceStep ==
    ASSUME WaitInv, NEW a \in Agents, NEW p \in Nodes, visit_once(a, p)
    PROVE  WaitInv'
<1>. USE DEF WaitInv
<1>1. TypeOK /\ p \in Waits /\ walk[a] \in Walks /\ next[p] \in Nodes
  BY OnceAreWaits DEF Linked, TypeOK, visit_once, At, ActiveWalks
<1>2. status' = [status EXCEPT ![p] = "freed"] /\ SetRing(Remove(Ring, p))
  BY DEF visit_once
<1>3. /\ walk' \in [Agents -> Walks \cup {NoWalk}] /\ active' \in Agents \cup {Nobody}
      /\ ActiveWalks'
  <2>1. CASE walk[a].list \in PreLists
    <3>1. walk' = [walk EXCEPT ![a] = NoWalk] /\ active' = Nobody
      BY <2>1 DEF visit_once
    <3>2. walk' \in [Agents -> Walks \cup {NoWalk}]
      BY <1>1, <3>1 DEF TypeOK
    <3>. QED BY <3>1, <3>2, NobodyIsNoAgent DEF ActiveWalks
  <2>2. CASE walk[a].list \notin PreLists
    <3>1. walk' = [walk EXCEPT ![a].at = next[p]] /\ active' = a
      BY <2>2 DEF visit_once, At
    <3>2. walk'[a] \in Walks /\ walk' \in [Agents -> Walks \cup {NoWalk}]
      BY <1>1, <3>1, WalkTyped DEF Stages
    <3>. QED BY <3>1, <3>2 DEF ActiveWalks
  <2>. QED BY <2>1, <2>2
<1>4. /\ todo' \in [Agents -> SUBSET Waits] /\ alone' \in [Agents -> BOOLEAN]
      /\ calls' \in [Agents -> [Waits -> 0..2]]
  <2>1. CASE Disturbed
    BY <1>1, <2>1, DisturbedTyped
  <2>2. CASE KeepHistory({a}) /\ calls' = CallsAfter({a}, a, p)
    BY <1>1, <2>2, HistoryTyped, CallsTyped
  <2>3. Disturbed \/ (KeepHistory({a}) /\ calls' = CallsAfter({a}, a, p))
    BY DEF visit_once
  <2>. QED BY <2>1, <2>2, <2>3
<1>5. crashed' \in BOOLEAN
  <2>1. crashed' \in (IF walk[a].list \in InSets /\ ~walk[a].loop THEN {FALSE} ELSE BOOLEAN)
    BY DEF visit_once
  <2>. QED BY <2>1
<1>6. TypeOK'
  BY <1>1, <1>2, <1>3, <1>4, <1>5, RemovedRing DEF TypeOK, SetRing, Pointers, Statuses
<1>7. Without(next', prev', p)
  BY <1>1, <1>2, WithoutRemoved DEF SetRing
<1>8. Linked' /\ EachInOneList'
  BY <1>1, <1>2, <1>6, <1>7, LeftOut
<1>. QED BY <1>3, <1>8

\* The other actions leave the lists alone.
LEMMA ListsKept ==
    ASSUME Linked, EachInOneList, TypeOK', UNCHANGED <<next, prev, status>>
    PROVE  Linked' /\ EachInOneList'
<1>1. Linked'
  BY DEF Linked
<1>2. \A k : RingOf(k)' = RingOf(k)
  BY DEF RingOf
<1>. QED BY <1>1, <1>2 DEF EachInOneList

LEMMA ActivateStep ==
    ASSUME WaitInv, NEW a \in Agents, NEW l \in Lists, NEW b \in Lists, NEW loop \in BOOLEAN,
           activate(a, l, b, loop)
    PROVE  WaitInv'
<1>. USE DEF WaitInv
<1>1. TypeOK /\ next[l] \in Nodes
  BY DEF Linked, TypeOK, Nodes
<1>. DEFINE m == [stage |-> "walking", list |-> l, back |-> b, loop |-> loop, at |-> next[l]]
<1>2. m \in Walks
  BY <1>1 DEF Walks, Stages
<1>. HIDE DEF m
<1>3. walk' = [walk EXCEPT ![a] = m] /\ active' = a
  BY DEF activate, m
<1>4. Holds(l) \subseteq Waits
  BY DEF EachInOneList, Holds, RingOf, Nodes
<1>5. /\ todo' \in [Agents -> SUBSET Waits] /\ alone' \in [Agents -> BOOLEAN]
      /\ calls' \in [Agents -> [Waits -> 0..2]]
  <2>1. NoCalls \in [Waits -> 0..2]
    BY DEF NoCalls
  <2>. QED BY <1>1, <1>4, <2>1 DEF activate, TypeOK
<1>6. TypeOK'
  BY <1>1, <1>2, <1>3, <1>5 DEF activate, TypeOK
<1>7. ActiveWalks'
  BY <1>1, <1>2, <1>3 DEF ActiveWalks, TypeOK
<1>. QED BY <1>6, <1>7, ListsKept DEF activate

LEMMA OtherSteps ==
    ASSUME WaitInv, NEW a \in Agents, NEW p \in Nodes,
           \/ visit_garbage(a, p) \/ visit_handler(a, p) \/ visit_no_access(a, p)
           \/ resume(a) \/ finish(a)
    PROVE  WaitInv'
<1>. USE DEF WaitInv
<1>1. TypeOK /\ next[p] \in Nodes
  BY DEF Linked, TypeOK
<1>. SUFFICES TypeOK' /\ ActiveWalks'
  BY ListsKept DEF visit_garbage, visit_handler, visit_no_access, resume, finish
<1>2. CASE visit_garbage(a, p)
  BY <1>1, <1>2 DEF visit_garbage, TypeOK, ActiveWalks, history
<1>3. CASE visit_handler(a, p) \/ visit_no_access(a, p)
  <2>1. walk[a] \in Walks /\ walk' = [walk EXCEPT ![a].at = next[p]] /\ active' = a /\ active = a
    BY <1>3 DEF visit_handler, visit_no_access, At, ActiveWalks
  <2>2. walk' \in [Agents -> Walks \cup {NoWalk}] /\ walk'[a] \in Walks
    BY <1>1, <2>1, WalkTyped DEF Stages
  <2>3. calls' \in [Agents -> [Waits -> 0..2]] /\ UNCHANGED <<next, prev, status, crashed, todo, alone>>
    <3>1. CASE visit_handler(a, p)
      BY <1>1, <3>1, CallsTyped DEF visit_handler
    <3>2. CASE visit_no_access(a, p)
      BY <1>1, <3>2 DEF visit_no_access, history, TypeOK
    <3>. QED BY <1>3, <3>1, <3>2
  <2>. QED BY <1>1, <2>1, <2>2, <2>3 DEF TypeOK, ActiveWalks
<1>4. CASE resume(a)
  <2>1. walk[a].stage # "idle" => walk[a] \in Walks
    BY <1>1 DEF TypeOK, NoWalk
  <2>2. walk[a] \in Walks
    BY <1>4, <2>1 DEF resume
  <2>3. CASE walk' = [walk EXCEPT ![a].stage = "walking"] /\ active' = a /\ UNCHANGED history
    <3>1. [walk[a] EXCEPT !.stage = "walking"] \in Walks
      BY <2>2 DEF Walks, Stages
    <3>. QED BY <1>1, <1>4, <2>3, <3>1 DEF TypeOK, ActiveWalks, history, resume
  <2>4. CASE walk' = [walk EXCEPT ![a] = NoWalk] /\ Forget(a) /\ UNCHANGED active
    <3>1. active' = Nobody
      BY <1>4, <2>4 DEF resume, Idle
    <3>. QED BY <1>1, <1>4, <2>4, <3>1, ForgetTyped, NobodyIsNoAgent DEF TypeOK, ActiveWalks, resume
  <2>. QED BY <1>4, <2>3, <2>4 DEF resume
<1>5. CASE finish(a)
  BY <1>1, <1>5, ForgetTyped, NobodyIsNoAgent DEF finish, TypeOK, ActiveWalks
<1>. QED BY <1>2, <1>3, <1>4, <1>5

LEMMA NextWaits == WaitInv /\ [Next]_vars => WaitInv'
<1>. SUFFICES ASSUME WaitInv, [Next]_vars
              PROVE  WaitInv'
  OBVIOUS
<1>1. CASE Outside
  BY <1>1, AttachStep, DetachStep, ActivateStep DEF Outside
<1>2. ASSUME NEW a \in Agents, Visit(a) \/ resume(a) \/ finish(a)
      PROVE  WaitInv'
  <2>1. CASE Visit(a)
    BY <2>1, PreHandlerStep, OnceStep, OtherSteps DEF Visit
  <2>2. CASE resume(a) \/ finish(a)
    <3>1. PICK l \in Nodes : TRUE
      <4>1. walk[a] \in Walks
        BY <2>2 DEF WaitInv, Linked, TypeOK, NoWalk, resume, finish, ActiveWalks
      <4>. QED BY <4>1 DEF Walks
    <3>. QED BY <2>2, <3>1, OtherSteps
  <2>. QED BY <1>2, <2>1, <2>2
<1>3. CASE UNCHANGED vars
  <2>1. TypeOK' /\ ActiveWalks'
    BY <1>3 DEF WaitInv, Linked, TypeOK, ActiveWalks, vars
  <2>. QED BY <1>3, <2>1, ListsKept DEF WaitInv, vars
<1>. QED BY <1>1, <1>2, <1>3 DEF Next

\* Whatever walks, handlers and deletions run across each other, the pointers of
\* the lists mirror each other, and a wait outside all lists points to itself.
THEOREM WaitsLinked == Spec => []Linked
<1>1. WaitInv => Linked
  BY DEF WaitInv
<1>. QED BY <1>1, InitWaits, NextWaits, PTL DEF Spec

\* The lists hold the attached waits and nothing else, and no two lists are
\* joined: each attached wait is called for the events of its list.
THEOREM WaitsInLists == Spec => []EachInOneList
<1>1. WaitInv => EachInOneList
  BY DEF WaitInv
<1>. QED BY <1>1, InitWaits, NextWaits, PTL DEF Spec

-----------------------------------------------------------------------------
(***************************************************************************)
(* What is left of a walk                                                  *)
(*                                                                         *)
(* A walk that is alone has before it the nodes from where it is to the    *)
(* head of its list.  Its own handlers take out the node it has just left, *)
(* and put it where the walk does not come any more.                       *)
(***************************************************************************)

\* The nodes from n up to the head l.
Ahead(nx, n, l) ==
    LET Closed == {S \in SUBSET Nodes : n \in S /\ \A m \in S \ {l} : nx[m] \in S}
    IN  {m \in Nodes : \A S \in Closed : m \in S}

Left(nx, n, l) == Ahead(nx, n, l) \ {l}

\* They are closed under next, and they are in every set that is.
LEMMA AheadClosed ==
    ASSUME NEW nx \in Pointers, NEW n \in Nodes, NEW l
    PROVE  /\ n \in Ahead(nx, n, l) /\ Ahead(nx, n, l) \subseteq Nodes
           /\ \A m \in Left(nx, n, l) : nx[m] \in Ahead(nx, n, l)
           /\ \A S \in SUBSET Nodes :
                n \in S /\ (\A m \in S \ {l} : nx[m] \in S) => Ahead(nx, n, l) \subseteq S
BY DEF Ahead, Left, Pointers

\* At the head nothing is left.
LEMMA NothingLeft ==
    ASSUME NEW nx \in Pointers, NEW l \in Nodes
    PROVE  Left(nx, l, l) = {}
<1>1. {l} \in SUBSET Nodes /\ l \in {l} /\ \A m \in {l} \ {l} : nx[m] \in {l}
  OBVIOUS
<1>2. Ahead(nx, l, l) \subseteq {l}
  BY <1>1, AheadClosed
<1>. QED BY <1>2 DEF Left

\* A walk that begins has all the waits of its list before it.
LEMMA AllLeft ==
    ASSUME NEW nx, NEW pv, Mirror(nx, pv), NEW l \in Nodes
    PROVE  /\ Left(nx, nx[l], l) = Reach(nx, l) \ {l}
           /\ \A m \in Left(nx, nx[l], l) : nx[m] # nx[l]
<1>0. nx \in Pointers /\ nx[l] \in Nodes
  BY DEF Mirror, Pointers
<1>. DEFINE A == Ahead(nx, nx[l], l)
            R == Reach(nx, l)
<1>1. /\ nx[l] \in A /\ A \subseteq Nodes /\ \A m \in A \ {l} : nx[m] \in A
      /\ \A S \in SUBSET Nodes : nx[l] \in S /\ (\A m \in S \ {l} : nx[m] \in S) => A \subseteq S
  BY <1>0, AheadClosed DEF Left
<1>2. /\ l \in R /\ R \subseteq Nodes /\ \A m \in R : nx[m] \in R
      /\ \A S \in SUBSET Nodes : l \in S /\ (\A m \in S : nx[m] \in S) => R \subseteq S
  BY <1>0, ReachClosed
<1>. HIDE DEF A, R
<1>3. A \subseteq R
  BY <1>1, <1>2
<1>4. R \subseteq A \cup {l}
  <2>. DEFINE S == A \cup {l}
  <2>1. S \in SUBSET Nodes /\ l \in S /\ \A m \in S : nx[m] \in S
    BY <1>1
  <2>. HIDE DEF S
  <2>2. R \subseteq S
    BY <1>2, <2>1
  <2>. QED BY <2>2 DEF S
<1>5. A \ {l} = R \ {l}
  BY <1>3, <1>4
<1>6. \A m \in A \ {l} : nx[m] # nx[l]
  BY <1>1 DEF Mirror
<1>. QED BY <1>5, <1>6 DEF A, R, Left

\* A walk that goes on leaves its node behind.
LEMMA OneLess ==
    ASSUME NEW nx, NEW pv, Mirror(nx, pv), NEW n \in Nodes, NEW l, n # l,
           \A m \in Left(nx, n, l) : nx[m] # n
    PROVE  n \in Left(nx, n, l) /\ Left(nx, nx[n], l) = Left(nx, n, l) \ {n}
<1>0. nx \in Pointers /\ nx[n] \in Nodes
  BY DEF Mirror, Pointers
<1>. DEFINE A == Ahead(nx, n, l)
            B == Ahead(nx, nx[n], l)
<1>1. /\ n \in A /\ A \subseteq Nodes /\ \A m \in A \ {l} : nx[m] \in A
      /\ \A S \in SUBSET Nodes : n \in S /\ (\A m \in S \ {l} : nx[m] \in S) => A \subseteq S
  BY <1>0, AheadClosed DEF Left
<1>2. /\ nx[n] \in B /\ B \subseteq Nodes /\ \A m \in B \ {l} : nx[m] \in B
      /\ \A S \in SUBSET Nodes : nx[n] \in S /\ (\A m \in S \ {l} : nx[m] \in S) => B \subseteq S
  BY <1>0, AheadClosed DEF Left
<1>3. \A m \in A \ {l} : nx[m] # n
  BY DEF Left
<1>. HIDE DEF A, B
<1>4. B \subseteq A
  BY <1>1, <1>2
<1>5. n \notin B
  <2>. DEFINE S == B \ {n}
  <2>1. S \in SUBSET Nodes /\ nx[n] \in S
    BY <1>1, <1>2, <1>3
  <2>2. \A m \in S \ {l} : nx[m] \in S
    BY <1>2, <1>3, <1>4
  <2>. HIDE DEF S
  <2>3. B \subseteq S
    BY <1>2, <2>1, <2>2
  <2>. QED BY <2>3 DEF S
<1>6. A \subseteq B \cup {n}
  <2>. DEFINE S == B \cup {n}
  <2>1. S \in SUBSET Nodes /\ n \in S /\ \A m \in S \ {l} : nx[m] \in S
    BY <1>2
  <2>. HIDE DEF S
  <2>2. A \subseteq S
    BY <1>1, <2>1
  <2>. QED BY <2>2 DEF S
<1>. QED BY <1>1, <1>4, <1>5, <1>6 DEF A, B, Left

\* Pointers of other nodes do not matter.
LEMMA SameLeft ==
    ASSUME NEW nx \in Pointers, NEW ny \in Pointers, NEW n \in Nodes, NEW l,
           \A m \in Left(nx, n, l) : ny[m] = nx[m]
    PROVE  Left(ny, n, l) = Left(nx, n, l)
<1>. DEFINE A == Ahead(nx, n, l)
            B == Ahead(ny, n, l)
<1>1. /\ n \in A /\ A \subseteq Nodes /\ \A m \in A \ {l} : nx[m] \in A
      /\ \A S \in SUBSET Nodes : n \in S /\ (\A m \in S \ {l} : nx[m] \in S) => A \subseteq S
  BY AheadClosed DEF Left
<1>2. /\ n \in B /\ B \subseteq Nodes /\ \A m \in B \ {l} : ny[m] \in B
      /\ \A S \in SUBSET Nodes : n \in S /\ (\A m \in S \ {l} : ny[m] \in S) => B \subseteq S
  BY AheadClosed DEF Left
<1>3. \A m \in A \ {l} : ny[m] = nx[m]
  BY DEF Left
<1>. HIDE DEF A, B
<1>4. B \subseteq A
  BY <1>1, <1>2, <1>3
<1>5. A \subseteq B
  BY <1>1, <1>2, <1>3, <1>4
<1>. QED BY <1>4, <1>5 DEF A, B, Left

-----------------------------------------------------------------------------
(* The calls of a walk.                                                    *)

\* The walk of list l is at n; it began with the waits T, and has made calls c.
InOrder(nx, l, n, T, c) ==
    /\ Left(nx, n, l) \subseteq T
    /\ \A m \in Left(nx, n, l) : nx[m] # n /\ c[m] = 0
    /\ \A w \in Waits : c[w] \in {0, 1}
    /\ \A w \in T \ Once : w \notin Left(nx, n, l) => c[w] = 1
    /\ \A w \in Waits \ T : c[w] = 0

\* The walk goes on from the wait it is at, which it has called, or may pass if
\* it is a one-shot wait; meanwhile pointers may change behind it.
LEMMA GoesOn ==
    ASSUME NEW nx, NEW pv, Mirror(nx, pv), NEW ny \in Pointers, NEW l \in Lists,
           NEW T \in SUBSET Waits, NEW n \in Waits,
           NEW c \in [Waits -> 0..2], NEW d \in [Waits -> 0..2], InOrder(nx, l, n, T, c),
           \A m \in Left(nx, nx[n], l) : ny[m] = nx[m],
           \A w \in Waits \ {n} : d[w] = c[w],
           d[n] = 1 \/ (n \in Once /\ d[n] = c[n])
    PROVE  InOrder(ny, l, nx[n], T, d)
<1>1. n \in Nodes /\ n # l /\ nx \in Pointers /\ nx[n] \in Nodes
  BY NodesDistinct DEF Nodes, Mirror, Pointers
<1>2. n \in Left(nx, n, l) /\ Left(nx, nx[n], l) = Left(nx, n, l) \ {n}
  BY <1>1, OneLess DEF InOrder
<1>3. Left(ny, nx[n], l) = Left(nx, n, l) \ {n}
  BY <1>1, <1>2, SameLeft
<1>. DEFINE A == Left(nx, n, l)
<1>4. /\ A \subseteq T /\ \A m \in A : nx[m] # n /\ c[m] = 0
      /\ \A w \in Waits : c[w] \in {0, 1}
      /\ \A w \in T \ Once : w \notin A => c[w] = 1
      /\ \A w \in Waits \ T : c[w] = 0
  BY DEF InOrder
<1>5. A \subseteq Nodes
  BY <1>1, AheadClosed DEF Left
<1>. HIDE DEF A
<1>6. \A m \in A \ {n} : ny[m] # nx[n] /\ d[m] = 0
  <2>. SUFFICES ASSUME NEW m \in A \ {n}
                PROVE  ny[m] # nx[n] /\ d[m] = 0
    OBVIOUS
  <2>1. ny[m] = nx[m] /\ m \in Nodes
    BY <1>2, <1>5 DEF A
  <2>2. nx[m] # nx[n]
    BY <1>1, <2>1 DEF Mirror
  <2>. QED BY <1>4, <2>1, <2>2
<1>7. \A w \in Waits : d[w] \in {0, 1}
  BY <1>4
<1>8. \A w \in T \ Once : w \notin A \ {n} => d[w] = 1
  BY <1>4
<1>9. \A w \in Waits \ T : d[w] = 0
  BY <1>2, <1>4 DEF A
<1>. QED BY <1>3, <1>4, <1>6, <1>7, <1>8, <1>9 DEF InOrder, A

\* Every walk that is alone is in order.
WalkInOrder(a) ==
    walk[a] \in Walks /\ InOrder(next, walk[a].list, walk[a].at, todo[a], calls[a])

Orderly == \A a \in Agents : alone[a] => WalkInOrder(a)

\* A wait that is taken out and put behind a head, or left out, is behind the walk.
LEMMA BehindTheWalk ==
    ASSUME NEW nx, NEW pv, Mirror(nx, pv), NEW n \in Waits, NEW l \in Lists,
           \A m \in Left(nx, n, l) : nx[m] # n, Left(nx, n, l) \subseteq Waits,
           NEW m \in Left(nx, nx[n], l)
    PROVE  /\ NextRemoved(nx, pv, n)[m] = nx[m]
           /\ \A h \in Lists : NextInserted(NextRemoved(nx, pv, n), h, n)[m] = nx[m]
<1>1. n \in Nodes /\ n # l /\ nx \in Pointers /\ pv \in Pointers
  BY NodesDistinct DEF Nodes, Mirror
<1>2. Left(nx, nx[n], l) = Left(nx, n, l) \ {n}
  BY <1>1, OneLess
<1>3. m \in Waits /\ m # n /\ nx[m] # n /\ m \in Nodes
  BY <1>2 DEF Nodes
<1>4. m # pv[n]
  BY <1>1, <1>3 DEF Mirror
<1>5. NextRemoved(nx, pv, n)[m] = nx[m] /\ NextRemoved(nx, pv, n) \in Pointers
  BY <1>1, <1>3, <1>4 DEF NextRemoved, Pointers
<1>6. ASSUME NEW h \in Lists
      PROVE  NextInserted(NextRemoved(nx, pv, n), h, n)[m] = nx[m]
  <2>1. m # h
    BY <1>3, NodesDistinct
  <2>. QED BY <1>3, <1>5, <2>1 DEF NextInserted, Pointers
<1>. QED BY <1>5, <1>6

\* A step of the walk of a that calls p and looks up the next wait before.
LEMMA CallKeepsOrder ==
    ASSUME WaitInv, WaitInv', NEW a \in Agents, alone[a], WalkInOrder(a), NEW p \in Waits,
           walk[a].at = p, walk[a].list \in Lists,
           walk'[a] \in Walks, walk'[a].list = walk[a].list, walk'[a].at = next[p],
           todo'[a] = todo[a],
           \/ next' = next
           \/ next' = NextRemoved(next, prev, p)
           \/ \E h \in Lists : next' = NextInserted(NextRemoved(next, prev, p), h, p),
           \/ \E S : a \in S /\ calls' = CallsAfter(S, a, p)
           \/ p \in Once /\ calls' = calls
    PROVE  WalkInOrder(a)'
<1>. DEFINE l == walk[a].list
            T == todo[a]
            c == calls[a]
            d == calls'[a]
<1>1. /\ T \in SUBSET Waits /\ c \in [Waits -> 0..2] /\ d \in [Waits -> 0..2]
      /\ next' \in Pointers /\ Mirror(next, prev) /\ l \in Lists
  BY LinkedMirrors DEF WaitInv, Linked, TypeOK, Pointers
<1>2. InOrder(next, l, p, T, c)
  BY DEF WalkInOrder
<1>3. Left(next, p, l) \subseteq Waits /\ \A m \in Left(next, p, l) : next[m] # p
  BY <1>1, <1>2 DEF InOrder
<1>4. \A m \in Left(next, next[p], l) : next'[m] = next[m]
  BY <1>1, <1>3, BehindTheWalk
<1>5. c[p] = 0
  <2>1. p \in Nodes /\ p # l
    BY <1>1, NodesDistinct DEF Nodes
  <2>2. p \in Left(next, p, l)
    BY <1>1, <1>3, <2>1, OneLess
  <2>. QED BY <1>2, <2>2 DEF InOrder
<1>6. (\A w \in Waits \ {p} : d[w] = c[w]) /\ (d[p] = 1 \/ (p \in Once /\ d[p] = c[p]))
  <2>1. ASSUME NEW S, a \in S, calls' = CallsAfter(S, a, p)
        PROVE  d = [c EXCEPT ![p] = 1]
    <3>1. d = IF c[p] < 2 THEN [c EXCEPT ![p] = c[p] + 1] ELSE c
      BY <2>1 DEF CallsAfter
    <3>. QED BY <1>5, <3>1
  <2>. QED BY <1>1, <2>1
<1>. HIDE DEF l, T, c, d
<1>7. InOrder(next', l, next[p], T, d)
  BY <1>1, <1>2, <1>4, <1>6, GoesOn
<1>. QED BY <1>7 DEF WalkInOrder, l, T, d

\* A walk stays in order in a step that does not concern it.
LEMMA OrderStays ==
    ASSUME NEW a \in Agents, WalkInOrder(a), next' = next,
           walk'[a] \in Walks, walk'[a].list = walk[a].list, walk'[a].at = walk[a].at,
           todo'[a] = todo[a], calls'[a] = calls[a]
    PROVE  WalkInOrder(a)'
BY DEF WalkInOrder

\* A walk begins.
LEMMA BeginsInOrder ==
    ASSUME WaitInv, WaitInv', NEW a \in Agents, NEW l \in Lists, NEW b \in Lists,
           NEW loop \in BOOLEAN, activate(a, l, b, loop)
    PROVE  WalkInOrder(a)'
<1>1. /\ next \in Pointers /\ Mirror(next, prev) /\ l \in Nodes /\ TypeOK /\ next' = next
      /\ todo'[a] = Holds(l) /\ calls'[a] = NoCalls
  BY LinkedMirrors DEF WaitInv, Linked, TypeOK, Pointers, Nodes, activate
<1>2. walk'[a] = [stage |-> "walking", list |-> l, back |-> b, loop |-> loop, at |-> next[l]]
  BY <1>1 DEF activate, TypeOK
<1>3. walk'[a] \in Walks
  BY <1>1, <1>2 DEF Walks, Stages, Pointers
<1>4. Left(next, next[l], l) = Holds(l) /\ \A m \in Left(next, next[l], l) : next[m] # next[l]
  BY <1>1, AllLeft, ReachIsRing DEF Holds
<1>5. Holds(l) \subseteq Waits
  BY DEF WaitInv, EachInOneList, Holds, RingOf, Nodes
<1>6. InOrder(next, l, next[l], Holds(l), NoCalls)
  BY <1>4, <1>5 DEF InOrder, NoCalls
<1>. QED BY <1>1, <1>2, <1>3, <1>6 DEF WalkInOrder

LEMMA NextOrderly ==
    ASSUME WaitInv, WaitInv', Orderly, [Next]_vars
    PROVE  Orderly'
<1>. SUFFICES ASSUME NEW b \in Agents, alone'[b]
              PROVE  WalkInOrder(b)'
  BY DEF Orderly
<1>0. /\ TypeOK /\ ActiveWalks /\ alone \in [Agents -> BOOLEAN]
      /\ walk \in [Agents -> Walks \cup {NoWalk}] /\ next \in Pointers
  BY DEF WaitInv, Linked, TypeOK, Pointers
<1>1. CASE UNCHANGED vars
  <2>1. WalkInOrder(b) /\ UNCHANGED vars
    BY <1>1 DEF vars, Orderly
  <2>. QED BY <2>1, OrderStays DEF vars, WalkInOrder
<1>2. ~Disturbed
  BY DEF Disturbed, KeepHistory
<1>3. CASE Outside
  <2>1. PICK a \in Agents, l \in Lists, h \in Lists, loop \in BOOLEAN : activate(a, l, h, loop)
    BY <1>2, <1>3 DEF Outside, attach_wait, delevhandler, reap_good_waits
  <2>2. CASE b = a
    BY <2>1, <2>2, BeginsInOrder
  <2>3. CASE b # a
    <3>1. /\ walk'[b] = walk[b] /\ todo'[b] = todo[b] /\ calls'[b] = calls[b]
          /\ alone'[b] = alone[b] /\ next' = next
      BY <1>0, <2>1, <2>3 DEF activate, TypeOK
    <3>2. WalkInOrder(b)
      BY <3>1 DEF Orderly
    <3>. QED BY <3>1, <3>2, OrderStays DEF WalkInOrder
  <2>. QED BY <2>2, <2>3
<1>4. ASSUME NEW a \in Agents, NEW p \in Nodes, visit_garbage(a, p)
      PROVE  WalkInOrder(b)'
  <2>1. UNCHANGED <<next, walk, todo, calls, alone>>
    BY <1>4 DEF visit_garbage, history
  <2>2. WalkInOrder(b)
    BY <2>1 DEF Orderly
  <2>. QED BY <2>1, <2>2, OrderStays DEF WalkInOrder
<1>5. ASSUME NEW a \in Agents, NEW p \in Nodes, visit_handler(a, p) \/ visit_no_access(a, p)
      PROVE  WalkInOrder(b)'
  <2>1. /\ walk[a].at = p /\ p \in Waits /\ UNCHANGED <<next, todo, alone>>
        /\ walk' = [walk EXCEPT ![a].at = next[p]]
    BY <1>5, OnceAreWaits DEF visit_handler, visit_no_access, At, history
  <2>2. \/ calls' = CallsAfter(Agents, a, p)
        \/ p \in Once /\ calls' = calls
    BY <1>5 DEF visit_handler, visit_no_access, history
  <2>3. alone[b] /\ WalkInOrder(b)
    BY <2>1 DEF Orderly
  <2>4. CASE b = a
    <3>1. walk[b] \in Walks /\ next[p] \in Nodes /\ p \in Nodes
      BY <1>0, <2>3 DEF WalkInOrder, Pointers
    <3>2. walk'[b] = [walk[b] EXCEPT !.at = next[p]]
      BY <1>0, <2>1, <2>4
    <3>3. walk'[b] \in Walks /\ walk'[b].list = walk[b].list /\ walk'[b].at = next[p]
          /\ walk[b].list \in Lists
      BY <3>1, <3>2 DEF Walks
    <3>. QED BY <2>1, <2>2, <2>3, <2>4, <3>3, CallKeepsOrder
  <2>5. CASE b # a
    <3>1. walk'[b] = walk[b]
      BY <1>0, <2>1, <2>5
    <3>2. calls'[b] = calls[b]
      BY <2>2, <2>3, <2>5 DEF CallsAfter
    <3>. QED BY <2>1, <2>3, <3>1, <3>2, OrderStays DEF WalkInOrder
  <2>. QED BY <2>4, <2>5
<1>6. ASSUME NEW a \in Agents, NEW p \in Nodes, visit_pre_handler(a, p) \/ visit_once(a, p)
      PROVE  WalkInOrder(b)'
  <2>1. /\ walk[a].at = p /\ p \in Waits
        /\ KeepHistory({a}) /\ calls' = CallsAfter({a}, a, p)
    BY <1>2, <1>6, OnceAreWaits DEF visit_pre_handler, visit_once, At
  <2>2. b = a /\ alone[b] /\ todo'[b] = todo[b]
    BY <2>1 DEF KeepHistory
  <2>3. WalkInOrder(b) /\ walk[b] \in Walks /\ walk[b].list \in Lists /\ walk[b].back \in Lists
    BY <2>2 DEF Orderly, WalkInOrder, Walks
  <2>4. walk'[b] \in Walks /\ walk'[b].list = walk[b].list /\ walk'[b].at = next[p]
    <3>1. next[p] \in Nodes
      BY <1>0 DEF Pointers
    <3>2. \/ walk'[b] = [walk[b] EXCEPT !.at = next[p]]
          \/ \E t \in Stages : walk'[b] = [walk[b] EXCEPT !.at = next[p], !.stage = t]
      <4>1. CASE visit_pre_handler(a, p)
        <5>1. PICK t \in Stages : walk' = [walk EXCEPT ![a].at = next[p], ![a].stage = t]
          BY <4>1 DEF visit_pre_handler, Stages
        <5>. QED BY <1>0, <2>2, <5>1
      <4>2. CASE visit_once(a, p)
        <5>1. walk' = [walk EXCEPT ![a].at = next[p]]
          BY <1>2, <4>2 DEF visit_once
        <5>. QED BY <1>0, <2>2, <5>1
      <4>. QED BY <1>6, <4>1, <4>2
    <3>. QED BY <2>3, <3>1, <3>2 DEF Walks
  <2>5. \/ next' = NextRemoved(next, prev, p)
        \/ \E h \in Lists : next' = NextInserted(NextRemoved(next, prev, p), h, p)
    <3>1. Remove(Ring, p).next = NextRemoved(next, prev, p)
      BY DEF Remove, Ring, NextRemoved
    <3>2. CASE visit_once(a, p)
      BY <3>1, <3>2 DEF visit_once, SetRing
    <3>3. CASE visit_pre_handler(a, p)
      <4>. DEFINE r == Remove(Ring, p)
      <4>1. Without(r.next, r.prev, p) /\ r.next \in Pointers /\ r.prev \in Pointers
        BY <1>0, <2>1, WithoutRemoved, RemovedRing DEF WaitInv
      <4>2. next' = Append(r, walk[a].back, p).next
        BY <3>3 DEF visit_pre_handler, SetRing
      <4>3. r.next = NextRemoved(next, prev, p)
        BY <3>1
      <4>. HIDE DEF r
      <4>4. next' = NextInserted(r.next, walk[a].back, p)
        BY <2>1, <2>2, <2>3, <4>1, <4>2, InsertedRing DEF Without
      <4>. QED BY <2>2, <2>3, <4>3, <4>4
    <3>. QED BY <1>6, <3>2, <3>3
  <2>6. \E S : a \in S /\ calls' = CallsAfter(S, a, p)
    BY <2>1
  <2>. QED BY <2>1, <2>2, <2>3, <2>4, <2>5, <2>6, CallKeepsOrder
<1>7. ASSUME NEW a \in Agents, resume(a) \/ finish(a)
      PROVE  WalkInOrder(b)'
  <2>1. /\ next' = next
        /\ \/ walk' = [walk EXCEPT ![a].stage = "walking"] /\ UNCHANGED history
           \/ walk' = [walk EXCEPT ![a] = NoWalk] /\ Forget(a)
    BY <1>7 DEF resume, finish
  <2>2. CASE walk' = [walk EXCEPT ![a].stage = "walking"] /\ UNCHANGED history
    <3>1. alone[b] /\ WalkInOrder(b) /\ todo'[b] = todo[b] /\ calls'[b] = calls[b]
      BY <2>2 DEF history, Orderly
    <3>2. walk'[b] = walk[b] \/ walk'[b] = [walk[b] EXCEPT !.stage = "walking"]
      BY <1>0, <2>2
    <3>3. walk'[b] \in Walks /\ walk'[b].list = walk[b].list /\ walk'[b].at = walk[b].at
      BY <3>1, <3>2 DEF WalkInOrder, Walks, Stages
    <3>. QED BY <2>1, <3>1, <3>3, OrderStays
  <2>3. CASE walk' = [walk EXCEPT ![a] = NoWalk] /\ Forget(a)
    <3>1. b # a /\ alone[b] /\ todo'[b] = todo[b] /\ calls'[b] = calls[b] /\ walk'[b] = walk[b]
      BY <1>0, <2>3 DEF Forget, TypeOK
    <3>2. WalkInOrder(b)
      BY <3>1 DEF Orderly
    <3>. QED BY <2>1, <3>1, <3>2, OrderStays DEF WalkInOrder
  <2>. QED BY <2>1, <2>2, <2>3
<1>. QED BY <1>1, <1>3, <1>4, <1>5, <1>6, <1>7 DEF Next, Visit

\* A walk that nobody else touches calls each handler of its list exactly once,
\* although each moves to the front of a list while the walk is suspended in it.
THEOREM WalksCallEachOnce == Spec => []CallsEachOnce
<1>1. Init => Orderly
  BY DEF Init, Orderly
<1>2. WaitInv /\ WaitInv' /\ Orderly /\ [Next]_vars => Orderly'
  BY NextOrderly
<1>3. WaitInv /\ Orderly => CallsEachOnce
  <2>. SUFFICES ASSUME WaitInv, Orderly, NEW a \in Agents,
                       walk[a].at = walk[a].list, alone[a], NEW w \in Waits
                PROVE  /\ w \in todo[a] \ Once => calls[a][w] = 1
                       /\ w \notin todo[a] => calls[a][w] = 0
                       /\ w \in Once => calls[a][w] <= 1
    BY DEF CallsEachOnce
  <2>. DEFINE l == walk[a].list
  <2>1. InOrder(next, l, l, todo[a], calls[a]) /\ l \in Nodes
    BY DEF Orderly, WalkInOrder, Walks, Nodes
  <2>2. Left(next, l, l) = {}
    BY <2>1, NothingLeft DEF WaitInv, Linked, TypeOK, Pointers
  <2>. HIDE DEF l
  <2>3. calls[a][w] \in {0, 1}
    BY <2>1 DEF InOrder
  <2>. QED BY <2>1, <2>2, <2>3 DEF InOrder
<1>4. Spec => []WaitInv
  BY InitWaits, NextWaits, PTL DEF Spec
<1>. QED BY <1>1, <1>2, <1>3, <1>4, PTL DEF Spec
=============================================================================
