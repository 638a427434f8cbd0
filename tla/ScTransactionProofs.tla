------------------------ MODULE ScTransactionProofs ------------------------
(***************************************************************************)
(* Proofs about the elements of ScMemory and about the transactions of     *)
(* ScTransaction, for any finite set of elements and lists of any length.  *)
(***************************************************************************)
EXTENDS ScTransaction, FiniteSetTheorems, SequenceTheorems, TLAPS

(***************************************************************************)
(*                       The elements of sc-memory                         *)
(***************************************************************************)

-----------------------------------------------------------------------------
(***************************************************************************)
(* The cascade of an erasure                                               *)
(***************************************************************************)

\* What an erasure erases holds the element and every arc incident to what it
\* holds: no arc that survives has an end that does not.
LEMMA DoomedClosed ==
    ASSUME live \subseteq Elements, NEW x \in Elements
    PROVE  x \in Doomed(x) /\ Incident(Doomed(x)) \subseteq Doomed(x)
<1>1. x \in Doomed(x)
  BY DEF Doomed
<1>2. ASSUME NEW a \in Incident(Doomed(x))
      PROVE  a \in Doomed(x)
  <2>1. a \in Elements
    BY DEF Incident
  <2>2. SUFFICES ASSUME NEW S \in SUBSET Elements, x \in S, Incident(S) \subseteq S
                 PROVE  a \in S
    BY <2>1 DEF Doomed
  <2>3. Doomed(x) \subseteq S
    BY <2>2 DEF Doomed
  <2>4. a \in Incident(S)
    BY <2>3 DEF Incident
  <2>. QED BY <2>2, <2>4
<1>. QED BY <1>1, <1>2

-----------------------------------------------------------------------------
(***************************************************************************)
(* Type correctness                                                        *)
(***************************************************************************)

\* The arcs at an element are finitely many, and so is any part of them.
LEMMA FewArcs ==
    ASSUME live \subseteq Elements, NEW e
    PROVE  \A S : S \subseteq Out(e) \/ S \subseteq In(e)
                 => IsFiniteSet(S) /\ Cardinality(S) \in Nat
<1>1. Out(e) \subseteq Elements /\ In(e) \subseteq Elements
  BY DEF Out, In
<1>. QED BY <1>1, ElementsFinite, FS_Subset, FS_CardinalityType

\* The decremented counters are integers.
LEMMA DownType ==
    ASSUME TypeOK, NEW e \in Elements, NEW D
    PROVE  down_out_qnt(e, D) \in Int /\ down_in_qnt(e, D) \in Int
<1>1. Cardinality(Out(e) \cap D) \in Nat /\ Cardinality(In(e) \cap D) \in Nat
  BY FewArcs DEF TypeOK
<1>2. out_qnt[e] \in Int /\ in_qnt[e] \in Int
  BY DEF TypeOK
<1>. QED BY <1>1, <1>2 DEF down_out_qnt, down_in_qnt

\* The default of a missing syntactic type is a type, and the conversion of a
\* begin yields types.
LEMMA RequestType ==
    /\ \A t \in Requests : verify_type(t) \in Types
    /\ "connector" \in Types /\ "node" \in Types /\ "undf" \in Types
BY DEF Requests, Types, verify_type

\* Becoming a begin keeps the types well formed.
LEMMA BeginType ==
    ASSUME NEW ts \in [Elements -> Types], NEW x \in Elements \cup {None}, NEW veto \in BOOLEAN
    PROVE  TypeOfBegin(ts, x, veto) \in [Elements -> Types]
BY RequestType DEF TypeOfBegin

\* The counters stay integers.
LEMMA RecountType ==
    ASSUME NEW q \in [Elements -> Int], NEW old, NEW new
    PROVE  Recount(q, old, new) \in [Elements -> Int]
BY DEF Recount

\* A step of the memory keeps the types of all fields.
LEMMA NextTypes ==
    ASSUME TypeOK, [Next]_vars
    PROVE  TypeOK'
<1>. USE DEF TypeOK
<1>1. ASSUME NEW e \in Elements, NEW t \in Requests, create_el(e, t) \/ change_type(e, t)
      PROVE  TypeOK'
  BY <1>1, RequestType DEF create_el, change_type
<1>2. ASSUME NEW a \in Elements, NEW x \in Elements \cup {None}, set_beg(a, x)
      PROVE  TypeOK'
  <2>1. type' \in [Elements -> Types]
    <3>1. PICK veto \in BOOLEAN : type' = TypeOfBegin(type, x, veto)
      BY <1>2 DEF set_beg
    <3>. QED BY <3>1, BeginType
  <2>2. out_qnt' \in [Elements -> Int]
    BY <1>2, RecountType DEF set_beg
  <2>. QED BY <1>2, <2>1, <2>2 DEF set_beg
<1>3. ASSUME NEW a \in Elements, NEW x \in Elements \cup {None}, set_end(a, x)
      PROVE  TypeOK'
  BY <1>3, RecountType DEF set_end
<1>4. ASSUME NEW x \in Elements, NEW a \in Elements, NEW y \in Elements, gen3_f_a_f(x, a, y)
      PROVE  TypeOK'
  BY <1>4, BeginType, RecountType, RequestType DEF gen3_f_a_f
<1>5. ASSUME NEW x \in Elements, gen3_refused(x)
      PROVE  TypeOK'
  BY <1>5, BeginType DEF gen3_refused
<1>6. ASSUME NEW x \in Elements, erase_el(x)
      PROVE  TypeOK'
  <2>1. \A e \in Elements : /\ down_out_qnt(e, Doomed(x)) \in Int
                            /\ down_in_qnt(e, Doomed(x)) \in Int
    BY DownType
  <2>2. out_qnt' \in [Elements -> Int] /\ in_qnt' \in [Elements -> Int]
    BY <1>6, <2>1 DEF erase_el
  <2>3. type' \in [Elements -> Types]
    BY <1>6, RequestType DEF erase_el
  <2>. QED BY <1>6, <2>2, <2>3 DEF erase_el
<1>7. ASSUME NEW x \in Elements, erase_el_overflow(x)
      PROVE  TypeOK'
  BY <1>7 DEF erase_el_overflow
<1>8. CASE UNCHANGED vars
  BY <1>8 DEF vars
<1>. QED BY <1>1, <1>2, <1>3, <1>4, <1>5, <1>6, <1>7, <1>8 DEF Next

\* The empty memory is well typed.
LEMMA InitTypes ==
    ASSUME Init
    PROVE  TypeOK
<1>1. live \subseteq Elements /\ crashed \in BOOLEAN
  BY DEF Init
<1>2. type \in [Elements -> Types]
  BY RequestType DEF Init
<1>3. beg \in [Elements -> Elements \cup {None}] /\ end \in [Elements -> Elements \cup {None}]
  BY DEF Init
<1>4. out_qnt \in [Elements -> Int] /\ in_qnt \in [Elements -> Int]
  BY DEF Init
<1>. QED BY <1>1, <1>2, <1>3, <1>4 DEF TypeOK

\* Generation, re-pointing, conversion and erasure keep the types of all fields.
THEOREM MemoryTypeCorrect == Spec => []TypeOK
<1>1. Init => TypeOK
  BY InitTypes
<1>2. TypeOK /\ [Next]_vars => TypeOK'
  BY NextTypes
<1>. QED BY <1>1, <1>2, PTL DEF Spec

-----------------------------------------------------------------------------
(***************************************************************************)
(* No dangling ends                                                        *)
(***************************************************************************)

\* Converting a begin changes an SC_UNDF only, so that connectors stay ones.
LEMMA BeginKeepsConnectors ==
    ASSUME NEW ts \in [Elements -> Types], NEW x \in Elements \cup {None}, NEW veto \in BOOLEAN
    PROVE  \A e \in Elements :
             /\ ts[e] # "undf" => TypeOfBegin(ts, x, veto)[e] = ts[e]
             /\ ts[e] = "connector" <=> TypeOfBegin(ts, x, veto)[e] = "connector"
BY DEF TypeOfBegin

\* No step, the cascade included, leaves an arc with an erased end.
LEMMA NextEnds ==
    ASSUME TypeOK, NoDanglingEnds, [Next]_vars
    PROVE  NoDanglingEnds'
<1>. USE NoneIsNoElement DEF TypeOK
<1>1. ASSUME NEW e \in Elements, NEW t \in Requests, create_el(e, t) \/ change_type(e, t)
      PROVE  NoDanglingEnds'
  <2>1. CASE create_el(e, t)
    BY <2>1 DEF create_el, NoDanglingEnds
  <2>2. CASE change_type(e, t)
    BY <2>2 DEF change_type, verify_type_changing, NoDanglingEnds
  <2>. QED BY <1>1, <2>1, <2>2
<1>2. ASSUME NEW a \in Elements, NEW x \in Elements \cup {None}, set_beg(a, x)
      PROVE  NoDanglingEnds'
  BY <1>2, BeginKeepsConnectors DEF set_beg, NoDanglingEnds
<1>3. ASSUME NEW a \in Elements, NEW x \in Elements \cup {None}, set_end(a, x)
      PROVE  NoDanglingEnds'
  BY <1>3 DEF set_end, NoDanglingEnds
<1>4. ASSUME NEW x \in Elements, NEW a \in Elements, NEW y \in Elements, gen3_f_a_f(x, a, y)
      PROVE  NoDanglingEnds'
  <2>1. /\ type'[a] = "connector"
        /\ \A e \in Elements : type[e] = "connector" => type'[e] = "connector"
    BY <1>4, BeginType, BeginKeepsConnectors DEF gen3_f_a_f
  <2>. QED BY <1>4, <2>1 DEF gen3_f_a_f, NoDanglingEnds
<1>5. ASSUME NEW x \in Elements, gen3_refused(x)
      PROVE  NoDanglingEnds'
  BY <1>5, BeginKeepsConnectors DEF gen3_refused, NoDanglingEnds
<1>6. ASSUME NEW x \in Elements, erase_el(x)
      PROVE  NoDanglingEnds'
  <2>. DEFINE D == Doomed(x)
  <2>1. Incident(D) \subseteq D
    BY DoomedClosed
  <2>2. /\ live' = live \ D
        /\ \A e \in Elements : /\ e \in D => beg'[e] = None /\ end'[e] = None
                               /\ e \notin D => /\ beg'[e] = beg[e] /\ end'[e] = end[e]
                                                /\ type'[e] = type[e]
    BY <1>6 DEF erase_el
  <2>. HIDE DEF D
  <2>3. \A a \in live \ D : beg[a] \notin D /\ end[a] \notin D
    BY <2>1 DEF Incident
  <2>. QED BY <2>2, <2>3 DEF NoDanglingEnds
<1>7. ASSUME NEW x \in Elements, erase_el_overflow(x)
      PROVE  NoDanglingEnds'
  BY <1>7 DEF erase_el_overflow, NoDanglingEnds
<1>8. CASE UNCHANGED vars
  BY <1>8 DEF vars, NoDanglingEnds
<1>. QED BY <1>1, <1>2, <1>3, <1>4, <1>5, <1>6, <1>7, <1>8 DEF Next

\* No arc ever has an erased element as an end, however generations,
\* re-pointings, conversions and cascading erasures follow each other.
THEOREM EndsAlive == Spec => []NoDanglingEnds
<1>1. Init => NoDanglingEnds
  BY DEF Init, NoDanglingEnds
<1>2. TypeOK /\ NoDanglingEnds /\ [Next]_vars => NoDanglingEnds'
  BY NextEnds
<1>. QED BY <1>1, <1>2, MemoryTypeCorrect, PTL DEF Spec

-----------------------------------------------------------------------------
(***************************************************************************)
(* The counters                                                            *)
(*                                                                         *)
(* CountersNeverLow needs NoDanglingEnds: a new element takes a cell that  *)
(* no arc may refer to, and its counters start at zero.                    *)
(***************************************************************************)

\* Re-pointing arc a from old to new: the counter of an element stays at least
\* the number of its arcs, S before and T afterwards.
LEMMA RecountBounds ==
    ASSUME NEW q \in [Elements -> Int], NEW f \in Elements,
           NEW old \in Elements \cup {None}, NEW new \in Elements \cup {None}, old # new,
           NEW a, NEW S, NEW T, IsFiniteSet(S), Cardinality(S) <= q[f],
           f = old => a \in S,
           T = IF f = new THEN S \cup {a} ELSE S \ {a}
    PROVE  Cardinality(T) <= Recount(q, old, new)[f]
<1>1. /\ Cardinality(S) \in Nat
      /\ Cardinality(S \cup {a}) <= Cardinality(S) + 1
      /\ Cardinality(S \ {a}) = IF a \in S THEN Cardinality(S) - 1 ELSE Cardinality(S)
  BY FS_CardinalityType, FS_AddElement, FS_RemoveElement
<1>2. Recount(q, old, new)[f] = q[f] + (IF f = new THEN 1 ELSE 0)
                                     - (IF f = old /\ new = None THEN 1 ELSE 0)
  BY DEF Recount
<1>3. CASE f = new
  <2>1. Recount(q, old, new)[f] = q[f] + 1
    BY <1>2, <1>3
  <2>2. Cardinality(T) <= Cardinality(S) + 1
    BY <1>1, <1>3
  <2>3. Cardinality(T) \in Int
    BY <1>1, <1>3, FS_AddElement, FS_CardinalityType
  <2>. QED BY <1>1, <2>1, <2>2, <2>3
<1>4. CASE f # new /\ f = old
  <2>1. Cardinality(T) = Cardinality(S) - 1
    BY <1>1, <1>4
  <2>2. q[f] - 1 <= Recount(q, old, new)[f] /\ Recount(q, old, new)[f] \in Int
    BY <1>2, <1>4
  <2>. QED BY <1>1, <2>1, <2>2
<1>5. CASE f # new /\ f # old
  <2>1. Cardinality(T) <= Cardinality(S) /\ Cardinality(T) \in Int
    BY <1>1, <1>5
  <2>2. Recount(q, old, new)[f] = q[f]
    BY <1>2, <1>5
  <2>. QED BY <1>1, <2>1, <2>2
<1>. QED BY <1>3, <1>4, <1>5

\* Erasure takes the doomed arcs of a surviving element and decrements its
\* counter as often.
LEMMA DownBounds ==
    ASSUME TypeOK, CountersNeverLow, NEW e \in Elements, NEW D
    PROVE  /\ Cardinality(Out(e) \ D) <= down_out_qnt(e, D)
           /\ Cardinality(In(e) \ D) <= down_in_qnt(e, D)
<1>1. /\ IsFiniteSet(Out(e)) /\ IsFiniteSet(In(e))
      /\ Cardinality(Out(e)) \in Nat /\ Cardinality(In(e)) \in Nat
      /\ Cardinality(Out(e) \cap D) \in Nat /\ Cardinality(In(e) \cap D) \in Nat
  BY FewArcs DEF TypeOK
<1>2. /\ Cardinality(Out(e) \ D) = Cardinality(Out(e)) - Cardinality(Out(e) \cap D)
      /\ Cardinality(In(e) \ D) = Cardinality(In(e)) - Cardinality(In(e) \cap D)
  BY <1>1, FS_Difference
<1>3. /\ Cardinality(Out(e)) <= out_qnt[e] /\ Cardinality(In(e)) <= in_qnt[e]
      /\ out_qnt[e] \in Int /\ in_qnt[e] \in Int
  BY DEF CountersNeverLow, TypeOK
<1>. QED BY <1>1, <1>2, <1>3 DEF down_out_qnt, down_in_qnt

\* A step that changes no arc's ends and no counter.
LEMMA SameArcs ==
    ASSUME CountersNeverLow, UNCHANGED <<out_qnt, in_qnt>>,
           \A e \in Elements : Out(e)' = Out(e) /\ In(e)' = In(e)
    PROVE  CountersNeverLow'
BY DEF CountersNeverLow

\* Every step keeps every counter at or above the number of arcs.
LEMMA NextCounters ==
    ASSUME TypeOK, NoDanglingEnds, NoDanglingEnds', CountersNeverLow, [Next]_vars
    PROVE  CountersNeverLow'
<1>. USE NoneIsNoElement
<1>0. \A e \in Elements : /\ IsFiniteSet(Out(e)) /\ IsFiniteSet(In(e))
                          /\ Cardinality(Out(e)) <= out_qnt[e]
                          /\ Cardinality(In(e)) <= in_qnt[e]
  BY FewArcs DEF TypeOK, CountersNeverLow
<1>1. ASSUME NEW e \in Elements, NEW t \in Requests, create_el(e, t) \/ change_type(e, t)
      PROVE  CountersNeverLow'
  <2>1. \A f \in Elements : Out(f)' = Out(f) /\ In(f)' = In(f)
    BY <1>1 DEF create_el, change_type, Out, In, NoDanglingEnds
  <2>. QED BY <1>1, <2>1, SameArcs DEF create_el, change_type
<1>2. ASSUME NEW a \in Elements, NEW x \in Elements \cup {None}, set_beg(a, x)
      PROVE  CountersNeverLow'
  <2>1. /\ a \in live /\ live' = live /\ beg' = [beg EXCEPT ![a] = x] /\ x # beg[a]
        /\ out_qnt' = Recount(out_qnt, beg[a], x)
        /\ UNCHANGED <<end, in_qnt>>
    BY <1>2 DEF set_beg
  <2>2. ASSUME NEW f \in Elements
        PROVE  Cardinality(Out(f)') <= out_qnt'[f]
    <3>1. Out(f)' = IF f = x THEN Out(f) \cup {a} ELSE Out(f) \ {a}
      BY <2>1 DEF Out, TypeOK
    <3>2. f = beg[a] => a \in Out(f)
      BY <2>1 DEF Out
    <3>3. beg[a] \in Elements \cup {None} /\ out_qnt \in [Elements -> Int]
      BY DEF TypeOK
    <3>. QED BY <1>0, <2>1, <3>1, <3>2, <3>3, RecountBounds
  <2>3. \A f \in Elements : In(f)' = In(f)
    BY <2>1 DEF In
  <2>. QED BY <1>0, <2>1, <2>2, <2>3 DEF CountersNeverLow
<1>3. ASSUME NEW a \in Elements, NEW x \in Elements \cup {None}, set_end(a, x)
      PROVE  CountersNeverLow'
  <2>1. /\ a \in live /\ live' = live /\ end' = [end EXCEPT ![a] = x] /\ x # end[a]
        /\ in_qnt' = Recount(in_qnt, end[a], x)
        /\ UNCHANGED <<beg, out_qnt>>
    BY <1>3 DEF set_end
  <2>2. ASSUME NEW f \in Elements
        PROVE  Cardinality(In(f)') <= in_qnt'[f]
    <3>1. In(f)' = IF f = x THEN In(f) \cup {a} ELSE In(f) \ {a}
      BY <2>1 DEF In, TypeOK
    <3>2. f = end[a] => a \in In(f)
      BY <2>1 DEF In
    <3>3. end[a] \in Elements \cup {None} /\ in_qnt \in [Elements -> Int]
      BY DEF TypeOK
    <3>. QED BY <1>0, <2>1, <3>1, <3>2, <3>3, RecountBounds
  <2>3. \A f \in Elements : Out(f)' = Out(f)
    BY <2>1 DEF Out
  <2>. QED BY <1>0, <2>1, <2>2, <2>3 DEF CountersNeverLow
<1>4. ASSUME NEW x \in Elements, NEW a \in Elements, NEW y \in Elements, gen3_f_a_f(x, a, y)
      PROVE  CountersNeverLow'
  <2>1. /\ a \notin live /\ live' = live \cup {a}
        /\ beg' = [beg EXCEPT ![a] = x] /\ end' = [end EXCEPT ![a] = y]
        /\ out_qnt' = Recount(out_qnt, None, x) /\ in_qnt' = Recount(in_qnt, None, y)
    BY <1>4 DEF gen3_f_a_f
  <2>2. ASSUME NEW f \in Elements
        PROVE  /\ Cardinality(Out(f)') <= out_qnt'[f]
               /\ Cardinality(In(f)') <= in_qnt'[f]
    <3>1. Out(f)' = IF f = x THEN Out(f) \cup {a} ELSE Out(f) \ {a}
      BY <2>1 DEF Out, TypeOK
    <3>2. In(f)' = IF f = y THEN In(f) \cup {a} ELSE In(f) \ {a}
      BY <2>1 DEF In, TypeOK
    <3>3. out_qnt \in [Elements -> Int] /\ in_qnt \in [Elements -> Int]
      BY DEF TypeOK
    <3>4. Cardinality(Out(f)') <= out_qnt'[f]
      BY <1>0, <2>1, <3>1, <3>3, RecountBounds
    <3>5. Cardinality(In(f)') <= in_qnt'[f]
      BY <1>0, <2>1, <3>2, <3>3, RecountBounds
    <3>. QED BY <3>4, <3>5
  <2>. QED BY <2>2 DEF CountersNeverLow
<1>5. ASSUME NEW x \in Elements, gen3_refused(x) \/ erase_el_overflow(x)
      PROVE  CountersNeverLow'
  <2>1. UNCHANGED <<live, beg, end, out_qnt, in_qnt>>
    BY <1>5 DEF gen3_refused, erase_el_overflow
  <2>. QED BY <2>1, SameArcs DEF Out, In
<1>6. ASSUME NEW x \in Elements, erase_el(x)
      PROVE  CountersNeverLow'
  <2>. DEFINE D == Doomed(x)
  <2>1. /\ live' = live \ D
        /\ \A e \in Elements :
             /\ e \in D => out_qnt'[e] = 0 /\ in_qnt'[e] = 0
             /\ e \notin D => /\ out_qnt'[e] = down_out_qnt(e, D)
                              /\ in_qnt'[e] = down_in_qnt(e, D)
                              /\ beg'[e] = beg[e] /\ end'[e] = end[e]
    BY <1>6 DEF erase_el
  <2>. HIDE DEF D
  <2>2. ASSUME NEW e \in Elements, e \in D
        PROVE  /\ Cardinality(Out(e)') <= out_qnt'[e]
               /\ Cardinality(In(e)') <= in_qnt'[e]
    <3>1. Out(e)' = {} /\ In(e)' = {}
      BY <2>1, <2>2 DEF NoDanglingEnds, Out, In, TypeOK
    <3>. QED BY <2>1, <2>2, <3>1, FS_EmptySet
  <2>3. ASSUME NEW e \in Elements, e \notin D
        PROVE  /\ Cardinality(Out(e)') <= out_qnt'[e]
               /\ Cardinality(In(e)') <= in_qnt'[e]
    <3>1. Out(e)' = Out(e) \ D /\ In(e)' = In(e) \ D
      BY <2>1 DEF Out, In, TypeOK
    <3>. QED BY <2>1, <2>3, <3>1, DownBounds
  <2>. QED BY <2>2, <2>3 DEF CountersNeverLow
<1>7. CASE UNCHANGED vars
  BY <1>7, SameArcs DEF vars, Out, In
<1>. QED BY <1>1, <1>2, <1>3, <1>4, <1>5, <1>6, <1>7 DEF Next

\* The counters that verify_type_changing relies on are never too low: zero
\* means that there is no arc.
THEOREM CountersCover == Spec => []CountersNeverLow
<1>1. Init => CountersNeverLow
  <2>. SUFFICES ASSUME Init, NEW e \in Elements
                PROVE  Cardinality(Out(e)) <= out_qnt[e] /\ Cardinality(In(e)) <= in_qnt[e]
    BY DEF CountersNeverLow
  <2>1. Out(e) = {} /\ In(e) = {} /\ out_qnt[e] = 0 /\ in_qnt[e] = 0
    BY DEF Init, Out, In
  <2>. QED BY <2>1, FS_EmptySet
<1>2. TypeOK /\ NoDanglingEnds /\ NoDanglingEnds' /\ CountersNeverLow /\ [Next]_vars
        => CountersNeverLow'
  BY NextCounters
<1>. QED BY <1>1, <1>2, MemoryTypeCorrect, EndsAlive, PTL DEF Spec

\* A node with an output arc is not converted as long as it lives: a counter
\* that ran low would let change_type turn it into an arc whose begin is shared
\* with its output arcs.
THEOREM NodesStay == Spec => NodeWithOutputStaysNode
<1>. DEFINE A == \A e \in live \cap live' :
                   type[e] = "node" /\ Out(e) # {} => type'[e] = "node"
<1>1. ASSUME TypeOK, CountersNeverLow, [Next]_vars
      PROVE  A
  <2>. SUFFICES ASSUME NEW e \in live \cap live', type[e] = "node", Out(e) # {}
                PROVE  type'[e] = "node"
    OBVIOUS
  <2>. USE <1>1 DEF TypeOK
  <2>1. ASSUME NEW f \in Elements, NEW t \in Requests, create_el(f, t) \/ change_type(f, t)
        PROVE  type'[e] = "node"
    <3>1. CASE create_el(f, t)
      BY <3>1 DEF create_el
    <3>2. CASE change_type(f, t)
      <4>1. out_qnt[e] # 0
        <5>1. IsFiniteSet(Out(e)) /\ Cardinality(Out(e)) \in Nat
          BY FewArcs
        <5>2. Cardinality(Out(e)) # 0
          BY <5>1, FS_EmptySet
        <5>3. e \in Elements /\ Cardinality(Out(e)) <= out_qnt[e]
          BY DEF CountersNeverLow
        <5>. QED BY <5>1, <5>2, <5>3
      <4>. QED BY <3>2, <4>1 DEF change_type, verify_type_changing
    <3>. QED BY <2>1, <3>1, <3>2
  <2>2. ASSUME NEW x \in Elements \cup {None}, NEW veto \in BOOLEAN,
               type' = TypeOfBegin(type, x, veto)
        PROVE  type'[e] = "node"
    BY <2>2, BeginKeepsConnectors
  <2>3. ASSUME NEW a \in Elements, NEW x \in Elements \cup {None},
               set_beg(a, x) \/ set_end(a, x)
        PROVE  type'[e] = "node"
    BY <2>2, <2>3 DEF set_beg, set_end
  <2>4. ASSUME NEW x \in Elements, NEW a \in Elements, NEW y \in Elements, gen3_f_a_f(x, a, y)
        PROVE  type'[e] = "node"
    <3>1. PICK veto \in BOOLEAN : type' = [TypeOfBegin(type, x, veto) EXCEPT ![a] = "connector"]
      BY <2>4 DEF gen3_f_a_f
    <3>2. a # e
      BY <2>4 DEF gen3_f_a_f
    <3>3. TypeOfBegin(type, x, veto)[e] = "node"
      BY BeginKeepsConnectors
    <3>4. TypeOfBegin(type, x, veto) \in [Elements -> Types]
      BY BeginType
    <3>. QED BY <3>1, <3>2, <3>3, <3>4
  <2>5. ASSUME NEW x \in Elements,
               gen3_refused(x) \/ erase_el(x) \/ erase_el_overflow(x)
        PROVE  type'[e] = "node"
    BY <2>2, <2>5 DEF gen3_refused, erase_el, erase_el_overflow
  <2>6. CASE UNCHANGED vars
    BY <2>6 DEF vars
  <2>. QED BY <1>1, <2>1, <2>3, <2>4, <2>5, <2>6 DEF Next
<1>2. TypeOK /\ CountersNeverLow /\ [Next]_vars => [A]_vars
  BY <1>1
<1>. QED BY <1>2, MemoryTypeCorrect, CountersCover, PTL DEF Spec, NodeWithOutputStaysNode

(***************************************************************************)
(*                           The transactions                              *)
(***************************************************************************)

-----------------------------------------------------------------------------
(***************************************************************************)
(* Lists                                                                   *)
(***************************************************************************)

\* The entries of a list that are e; a list without repetitions.
Places(s, e) == {i \in DOMAIN s : s[i] = e}
Distinct(s) == \A i, j \in DOMAIN s : s[i] = s[j] => i = j

\* An entry at the end of a list.
LEMMA Appended ==
    ASSUME NEW S, NEW s \in Seq(S), NEW e \in S
    PROVE  /\ Len(s) \in Nat /\ DOMAIN s = 1 .. Len(s)
           /\ Append(s, e) \in Seq(S)
           /\ DOMAIN Append(s, e) = 1 .. Len(s) + 1
           /\ \A i \in 1 .. Len(s) : Append(s, e)[i] = s[i]
           /\ Append(s, e)[Len(s) + 1] = e
OBVIOUS

\* A list without its last entry.
LEMMA Shortened ==
    ASSUME NEW S, NEW s \in Seq(S), s # <<>>
    PROVE  /\ Len(s) \in Nat \ {0} /\ DOMAIN s = 1 .. Len(s)
           /\ Front(s) \in Seq(S)
           /\ DOMAIN Front(s) = 1 .. Len(s) - 1
           /\ \A i \in 1 .. Len(s) - 1 : Front(s)[i] = s[i]
           /\ Last(s) = s[Len(s)] /\ Last(s) \in S
<1>1. Len(s) \in Nat \ {0} /\ DOMAIN s = 1 .. Len(s)
  OBVIOUS
<1>2. Last(s) = s[Len(s)] /\ Last(s) \in S
  BY <1>1 DEF Last
<1>3. /\ Front(s) \in Seq(S)
      /\ Len(Front(s)) = Len(s) - 1
      /\ \A i \in 1 .. Len(s) - 1 : Front(s)[i] = s[i]
  BY <1>1 DEF Front
<1>. QED BY <1>1, <1>2, <1>3

\* The places of a list are finitely many.
LEMMA PlacesFinite ==
    ASSUME NEW S, NEW s \in Seq(S), NEW e
    PROVE  IsFiniteSet(Places(s, e)) /\ Cardinality(Places(s, e)) \in Nat
<1>1. Places(s, e) \subseteq 1 .. Len(s) /\ Len(s) \in Nat
  BY DEF Places
<1>2. IsFiniteSet(1 .. Len(s))
  BY <1>1, FS_Interval
<1>. QED BY <1>1, <1>2, FS_Subset, FS_CardinalityType

\* One more place for the entry that has been added.
LEMMA PlacesAppend ==
    ASSUME NEW S, NEW s \in Seq(S), NEW e \in S, NEW f \in S
    PROVE  Cardinality(Places(Append(s, e), f))
             = Cardinality(Places(s, f)) + IF f = e THEN 1 ELSE 0
<1>1. /\ Len(s) \in Nat /\ DOMAIN s = 1 .. Len(s)
      /\ DOMAIN Append(s, e) = 1 .. Len(s) + 1
      /\ \A i \in 1 .. Len(s) : Append(s, e)[i] = s[i]
      /\ Append(s, e)[Len(s) + 1] = e
  BY Appended
<1>2. IsFiniteSet(Places(s, f)) /\ Cardinality(Places(s, f)) \in Nat
  BY PlacesFinite
<1>3. CASE f = e
  <2>1. Places(Append(s, e), f) = Places(s, f) \cup {Len(s) + 1}
    BY <1>1, <1>3 DEF Places
  <2>2. Len(s) + 1 \notin Places(s, f)
    BY <1>1 DEF Places
  <2>. QED BY <1>2, <1>3, <2>1, <2>2, FS_AddElement
<1>4. CASE f # e
  <2>1. Places(Append(s, e), f) = Places(s, f)
    BY <1>1, <1>4 DEF Places
  <2>. QED BY <1>2, <1>4, <2>1
<1>. QED BY <1>3, <1>4

\* One place less for the entry that has been taken away.
LEMMA PlacesFront ==
    ASSUME NEW S, NEW s \in Seq(S), s # <<>>, NEW f \in S
    PROVE  /\ Cardinality(Places(Front(s), f))
                = Cardinality(Places(s, f)) - IF f = Last(s) THEN 1 ELSE 0
           /\ f = Last(s) => Cardinality(Places(s, f)) >= 1
<1>1. /\ Len(s) \in Nat \ {0} /\ DOMAIN s = 1 .. Len(s)
      /\ DOMAIN Front(s) = 1 .. Len(s) - 1
      /\ \A i \in 1 .. Len(s) - 1 : Front(s)[i] = s[i]
      /\ Last(s) = s[Len(s)]
  BY Shortened
<1>2. IsFiniteSet(Places(s, f)) /\ Cardinality(Places(s, f)) \in Nat
  BY PlacesFinite
<1>3. CASE f = Last(s)
  <2>1. Places(Front(s), f) = Places(s, f) \ {Len(s)}
    BY <1>1, <1>3 DEF Places
  <2>2. Len(s) \in Places(s, f)
    BY <1>1, <1>3 DEF Places
  <2>3. Cardinality(Places(s, f)) # 0
    BY <1>2, <2>2, FS_EmptySet
  <2>4. Cardinality(Places(Front(s), f)) = Cardinality(Places(s, f)) - 1
    BY <1>2, <2>1, <2>2, FS_RemoveElement
  <2>. QED BY <1>2, <1>3, <2>3, <2>4
<1>4. CASE f # Last(s)
  <2>1. Places(Front(s), f) = Places(s, f)
    BY <1>1, <1>4 DEF Places
  <2>. QED BY <1>2, <1>4, <2>1
<1>. QED BY <1>3, <1>4
-----------------------------------------------------------------------------
(***************************************************************************)
(* The memory                                                              *)
(***************************************************************************)

\* The elements and ends in the lists.
LEMMA LastEntries ==
    ASSUME TTypeOK
    PROVE  /\ erased_elems # <<>> => Last(erased_elems) \in Elements
           /\ gened_elems # <<>> => Last(gened_elems) \in Elements
           /\ orig_beg # <<>> => /\ Last(orig_beg)[1] \in Elements
                                /\ Last(orig_beg)[2] \in Elements \cup {None}
           /\ orig_end # <<>> => /\ Last(orig_end)[1] \in Elements
                                /\ Last(orig_end)[2] \in Elements \cup {None}
<1>1. /\ erased_elems # <<>> => Last(erased_elems) \in Elements
      /\ gened_elems # <<>> => Last(gened_elems) \in Elements
      /\ orig_beg # <<>> => Last(orig_beg) \in Elements \X (Elements \cup {None})
      /\ orig_end # <<>> => Last(orig_end) \in Elements \X (Elements \cup {None})
  BY Shortened DEF TTypeOK
<1>. QED BY <1>1

\* Whatever a transaction does to the elements is a step of the memory, or
\* leaves it alone.
LEMMA TransactionSteps ==
    ASSUME TTypeOK, [TNext]_tvars
    PROVE  [Next]_vars
<1>. UsedTypes \subseteq Requests
  BY UsedTypesAreTypes DEF Requests
<1>1. ASSUME NEW e \in Elements, NEW t \in UsedTypes, t_create_el(e, t)
      PROVE  [Next]_vars
  BY <1>1 DEF t_create_el, Next
<1>2. ASSUME NEW e \in Elements, NEW x \in Elements \cup {None},
             t_set_beg(e, x) \/ t_set_end(e, x)
      PROVE  [Next]_vars
  BY <1>2 DEF t_set_beg, t_set_end, SameEnd, Next
<1>3. ASSUME NEW e \in Elements, t_erase_el(e)
      PROVE  [Next]_vars
  BY <1>3 DEF t_erase_el
<1>4. CASE begin \/ commit \/ commit_end \/ rollback \/ rollback_end
  BY <1>4 DEF begin, commit, commit_end, rollback, rollback_end, Finish
<1>5. CASE commit_next
  BY <1>5, LastEntries DEF commit_next, Next
<1>6. CASE roll_beg
  BY <1>6, LastEntries DEF roll_beg, Restore, Next
<1>7. CASE roll_end
  BY <1>7, LastEntries DEF roll_end, Restore, Next
<1>8. CASE roll_elem
  BY <1>8, LastEntries DEF roll_elem, Restore, Next
<1>9. CASE Others
  BY <1>9 DEF Others
<1>10. CASE UNCHANGED tvars
  BY <1>10 DEF tvars
<1>. QED
  BY <1>1, <1>2, <1>3, <1>4, <1>5, <1>6, <1>7, <1>8, <1>9, <1>10
     DEF TNext, Operations, Commit, Rollback
-----------------------------------------------------------------------------
(***************************************************************************)
(* The references of the erasures                                          *)
(***************************************************************************)

\* An erasure that is put off: one entry and one reference more.
LEMMA ErasureEntered ==
    ASSUME ErasuresReferenced, NEW e \in Elements, t_erase_el(e)
    PROVE  /\ erased_elems' \in Seq(Elements) /\ refs' \in [Elements -> Nat]
           /\ \A f \in Elements : Cardinality(Entered(f)') <= refs'[f]
<1>. USE DEF ErasuresReferenced, TTypeOK
<1>1. erased_elems' = Append(erased_elems, e) /\ refs' = [refs EXCEPT ![e] = @ + 1]
  BY DEF t_erase_el
<1>2. ASSUME NEW f \in Elements
      PROVE  Cardinality(Entered(f)') <= refs'[f]
  <2>1. Entered(f) = Places(erased_elems, f) /\ Entered(f)' = Places(erased_elems', f)
    BY DEF Entered, Places
  <2>2. Cardinality(Places(erased_elems, f)) <= refs[f] /\ refs[f] \in Nat
    BY <2>1
  <2>3. Cardinality(Places(erased_elems, f)) \in Nat
    BY PlacesFinite
  <2>4. Cardinality(Places(erased_elems', f))
          = Cardinality(Places(erased_elems, f)) + IF f = e THEN 1 ELSE 0
    BY <1>1, PlacesAppend
  <2>5. refs'[f] = refs[f] + IF f = e THEN 1 ELSE 0
    BY <1>1
  <2>. QED BY <2>1, <2>2, <2>3, <2>4, <2>5
<1>. QED BY <1>1, <1>2

\* A round of the commit: one entry and one reference less; the reference was
\* there, so that the element is still in memory.
LEMMA ErasureCarriedOut ==
    ASSUME ErasuresReferenced, commit_next
    PROVE  /\ erased_elems' \in Seq(Elements) /\ refs' \in [Elements -> Nat]
           /\ \A f \in Elements : Cardinality(Entered(f)') <= refs'[f]
           /\ ~freed'
<1>. USE DEF ErasuresReferenced, TTypeOK
<1>. DEFINE e == Last(erased_elems)
<1>1. /\ erased_elems # <<>> /\ erased_elems' = Front(erased_elems)
      /\ refs' = [refs EXCEPT ![e] = refs[e] - 1]
      /\ freed' => refs[e] <= 0
  BY DEF commit_next, UnrefOnce
<1>2. e \in Elements /\ erased_elems' \in Seq(Elements)
  BY <1>1, Shortened
<1>. HIDE DEF e
<1>3. ASSUME NEW f \in Elements
      PROVE  /\ Cardinality(Entered(f)') <= refs'[f] /\ refs'[f] \in Nat
             /\ f = e => refs[f] >= 1
  <2>1. Entered(f) = Places(erased_elems, f) /\ Entered(f)' = Places(erased_elems', f)
    BY DEF Entered, Places
  <2>2. Cardinality(Places(erased_elems, f)) <= refs[f] /\ refs[f] \in Nat
    BY <2>1
  <2>3. Cardinality(Places(erased_elems, f)) \in Nat
    BY PlacesFinite
  <2>4. /\ Cardinality(Places(erased_elems', f))
             = Cardinality(Places(erased_elems, f)) - IF f = e THEN 1 ELSE 0
        /\ f = e => Cardinality(Places(erased_elems, f)) >= 1
    BY <1>1, PlacesFront DEF e
  <2>5. refs'[f] = refs[f] - IF f = e THEN 1 ELSE 0
    BY <1>1, <1>2
  <2>. QED BY <2>1, <2>2, <2>3, <2>4, <2>5
<1>4. refs' \in [Elements -> Nat]
  BY <1>1, <1>2, <1>3
<1>5. ~freed'
  <2>1. refs[e] \in Nat /\ refs[e] >= 1
    BY <1>2, <1>3
  <2>. QED BY <1>1, <2>1
<1>. QED BY <1>2, <1>3, <1>4, <1>5

\* No reference yet, no entry.
LEMMA NoErasures ==
    ASSUME erased_elems = <<>>, refs \in [Elements -> Nat]
    PROVE  \A e \in Elements : Cardinality(Entered(e)) <= refs[e]
<1>. SUFFICES ASSUME NEW e \in Elements PROVE Cardinality(Entered(e)) <= refs[e]
  OBVIOUS
<1>1. Entered(e) = {}
  BY DEF Entered
<1>. QED BY <1>1, FS_EmptySet

\* The same after a step that has emptied the list.
LEMMA NoErasuresLeft ==
    ASSUME erased_elems' = <<>>, refs' \in [Elements -> Nat]
    PROVE  \A e \in Elements : Cardinality(Entered(e)') <= refs'[e]
<1>. SUFFICES ASSUME NEW e \in Elements PROVE Cardinality(Entered(e)') <= refs'[e]
  OBVIOUS
<1>1. Entered(e)' = {}
  BY DEF Entered
<1>2. Cardinality({}) = 0 /\ refs'[e] \in Nat
  BY FS_EmptySet
<1>. QED BY <1>1, <1>2

\* Every step keeps a reference for every entry.
LEMMA NextReferenced ==
    ASSUME ErasuresReferenced, [TNext]_tvars
    PROVE  ErasuresReferenced'
<1>. USE DEF TTypeOK
<1>1. TypeOK'
  BY NextTypes, TransactionSteps DEF ErasuresReferenced
<1>2. TTypeOK /\ \A e \in Elements : Cardinality(Entered(e)) <= refs[e]
  BY DEF ErasuresReferenced
<1>3. ASSUME NEW e \in Elements, NEW t \in UsedTypes, t_create_el(e, t)
      PROVE  ErasuresReferenced'
  BY <1>1, <1>2, <1>3, Appended
     DEF t_create_el, Recorded, Stages, Entered, ErasuresReferenced
<1>4. ASSUME NEW a \in Elements, NEW x \in Elements \cup {None}, t_set_beg(a, x)
      PROVE  ErasuresReferenced'
  <2>1. <<a, beg[a]>> \in Elements \X (Elements \cup {None})
    BY <1>2 DEF TypeOK
  <2>2. orig_beg' \in Seq(Elements \X (Elements \cup {None}))
    BY <1>2, <1>4, <2>1, Appended DEF t_set_beg
  <2>. QED BY <1>1, <1>2, <1>4, <2>2
           DEF t_set_beg, Recorded, Stages, Entered, ErasuresReferenced
<1>5. ASSUME NEW a \in Elements, NEW x \in Elements \cup {None}, t_set_end(a, x)
      PROVE  ErasuresReferenced'
  <2>1. <<a, end[a]>> \in Elements \X (Elements \cup {None})
    BY <1>2 DEF TypeOK
  <2>2. orig_end' \in Seq(Elements \X (Elements \cup {None}))
    BY <1>2, <1>5, <2>1, Appended DEF t_set_end
  <2>. QED BY <1>1, <1>2, <1>5, <2>2
           DEF t_set_end, Recorded, Stages, Entered, ErasuresReferenced
<1>6. ASSUME NEW e \in Elements, t_erase_el(e)
      PROVE  ErasuresReferenced'
  BY <1>1, <1>2, <1>6, ErasureEntered DEF t_erase_el, Recorded, Stages, ErasuresReferenced
<1>7. CASE commit_next
  BY <1>1, <1>2, <1>7, ErasureCarriedOut DEF commit_next, ErasuresReferenced
<1>8. CASE commit_end \/ rollback_end
  <2>0. /\ <<>> \in Seq(Elements)
        /\ <<>> \in Seq(Elements \X (Elements \cup {None}))
    OBVIOUS
  <2>1. /\ stage' \in Stages
        /\ gened_elems' \in Seq(Elements) /\ erased_elems' \in Seq(Elements)
        /\ orig_beg' \in Seq(Elements \X (Elements \cup {None}))
        /\ orig_end' \in Seq(Elements \X (Elements \cup {None}))
        /\ erased_elems' = <<>> /\ refs' = refs /\ freed' = freed
    BY <1>8, <2>0 DEF commit_end, rollback_end, Finish, Stages
  <2>2. \A e \in Elements : Cardinality(Entered(e)') <= refs'[e]
    BY <1>2, <2>1, NoErasuresLeft
  <2>. QED BY <1>1, <1>2, <2>1, <2>2 DEF ErasuresReferenced
<1>9. CASE begin \/ commit \/ rollback
  BY <1>1, <1>2, <1>9 DEF begin, commit, rollback, logs, Stages, Entered, ErasuresReferenced
<1>10. CASE roll_beg
  BY <1>1, <1>2, <1>10, Shortened DEF roll_beg, Entered, ErasuresReferenced
<1>11. CASE roll_end
  BY <1>1, <1>2, <1>11, Shortened DEF roll_end, Entered, ErasuresReferenced
<1>12. CASE roll_elem
  BY <1>1, <1>2, <1>12, Shortened DEF roll_elem, Entered, ErasuresReferenced
<1>13. CASE Others \/ UNCHANGED tvars
  BY <1>1, <1>2, <1>13 DEF Others, tvars, logs, Entered, ErasuresReferenced
<1>. QED
  BY <1>3, <1>4, <1>5, <1>6, <1>7, <1>8, <1>9, <1>10, <1>11, <1>12, <1>13
     DEF TNext, Operations, Commit, Rollback

\* Commit never uses an element that is gone: as long as an element is in the
\* list of erasures, others may erase it, and it may be in the list more than
\* once, but its memory stays.
THEOREM ErasuresKeepTheirElements == TSpec => []ErasuresReferenced
<1>1. TInit => ErasuresReferenced
  <2>. SUFFICES ASSUME TInit PROVE ErasuresReferenced
    OBVIOUS
  <2>1. TypeOK
    BY InitTypes DEF TInit
  <2>2. /\ <<>> \in Seq(Elements)
        /\ <<>> \in Seq(Elements \X (Elements \cup {None}))
    OBVIOUS
  <2>3. TTypeOK
    BY <2>1, <2>2 DEF TInit, TTypeOK, Stages
  <2>. QED BY <2>3, NoErasures DEF TInit, TTypeOK, ErasuresReferenced
<1>2. ErasuresReferenced /\ [TNext]_tvars => ErasuresReferenced'
  BY NextReferenced
<1>. QED BY <1>1, <1>2, PTL DEF TSpec

\* A transaction is a client of the memory like any other.
LEMMA TransactionIsMemory == TSpec => Spec
<1>1. TInit => Init
  BY DEF TInit
<1>2. ErasuresReferenced /\ [TNext]_tvars => [Next]_vars
  BY TransactionSteps DEF ErasuresReferenced
<1>. QED BY <1>1, <1>2, ErasuresKeepTheirElements, PTL DEF TSpec, Spec

\* No transaction, committed or rolled back with the others' operations in
\* between, leaves an arc with an erased end.
THEOREM TransactionEndsAlive == TSpec => []NoDanglingEnds
BY TransactionIsMemory, EndsAlive, PTL

\* The counters hold through every transaction.
THEOREM TransactionCountersCover == TSpec => []CountersNeverLow
BY TransactionIsMemory, CountersCover, PTL
-----------------------------------------------------------------------------
(***************************************************************************)
(* A transaction that is alone                                             *)
(*                                                                         *)
(* What a rollback restores is in the lists, one entry per change: the     *)
(* invariant says what the lists know about the memory at the beginning.   *)
(* The memory when the transaction began had the elements L with the ends  *)
(* B and E; R says that every arc could be given its begin.  Then          *)
(*   - the elements created since are in gened_elems, once each, and       *)
(*     are all that has been added to L;                                   *)
(*   - the first entry of an arc in orig_beg (orig_end) has its end of     *)
(*     then, and an arc without an entry has that end now;                 *)
(*   - the arcs and ends in the entries exist.                             *)
(* While an arc whose begin cannot be put back (~R) is rolled back, this   *)
(* holds only of the arcs that the transaction has created: enough for     *)
(* the memory that the rest of the rollback uses to be there.              *)
(***************************************************************************)

Ends == [Elements -> Elements \cup {None}]
Logs == Seq(Elements \X (Elements \cup {None}))

\* The entries of a lie behind the end of arc a: orig was its value first, f is
\* its value now.
FirstIs(f, log, orig, a) ==
    /\ (\A i \in DOMAIN log : log[i][1] # a) => f[a] = orig[a]
    /\ \A i \in DOMAIN log :
          log[i][1] = a /\ (\A j \in DOMAIN log : j < i => log[j][1] # a) => log[i][2] = orig[a]

\* The arcs of the entries are in A, their ends in X.
EntriesIn(log, A, X) ==
    \A i \in DOMAIN log : log[i][1] \in A /\ log[i][2] \in X \cup {None}

Arcs == {a \in live : type[a] = "connector"}

AloneWith(L, B, E, R) ==
    /\ before = << <<L, B, E>>, R >>
    /\ stage \in {"open", "rolling"} /\ ~freed
    /\ \A a \in Elements : /\ B[a] # None => a \in L /\ B[a] \in L
                           /\ E[a] # None => a \in L /\ E[a] \in L
                           /\ R /\ B[a] # None => type[B[a]] # "connector"
    /\ Distinct(gened_elems)
    /\ ToSet(gened_elems) \subseteq live \ L
    /\ stage = "open" \/ R => live = L \cup ToSet(gened_elems)
    /\ EntriesIn(orig_beg, Arcs, live) /\ EntriesIn(orig_end, Arcs, live)
    /\ \A a \in Elements :
          R \/ a \in ToSet(gened_elems)
            => FirstIs(beg, orig_beg, B, a) /\ FirstIs(end, orig_end, E, a)

Alone ==
    \E L \in SUBSET Elements : \E B, E \in Ends : \E R \in BOOLEAN : AloneWith(L, B, E, R)

-----------------------------------------------------------------------------
(* The entries of the lists.                                               *)

\* An entry with the end an arc has now, before that changes.
LEMMA FirstAppend ==
    ASSUME NEW log \in Logs, NEW f \in Ends, NEW g \in Ends, NEW orig \in Ends,
           NEW a \in Elements, NEW b \in Elements,
           FirstIs(f, log, orig, b), b # a => g[b] = f[b]
    PROVE  FirstIs(g, Append(log, <<a, f[a]>>), orig, b)
<1>. DEFINE new == <<a, f[a]>>
<1>1. new \in Elements \X (Elements \cup {None}) /\ new[1] = a /\ new[2] = f[a]
  BY DEF Ends
<1>2. /\ Len(log) \in Nat /\ DOMAIN log = 1 .. Len(log)
      /\ DOMAIN Append(log, new) = 1 .. Len(log) + 1
      /\ \A i \in 1 .. Len(log) : Append(log, new)[i] = log[i]
      /\ Append(log, new)[Len(log) + 1] = new
  BY <1>1, Appended DEF Logs
<1>. HIDE DEF new
<1>3. (\A i \in DOMAIN Append(log, new) : Append(log, new)[i][1] # b) => g[b] = orig[b]
  BY <1>1, <1>2 DEF FirstIs
<1>4. ASSUME NEW i \in DOMAIN Append(log, new), Append(log, new)[i][1] = b,
             \A j \in DOMAIN Append(log, new) : j < i => Append(log, new)[j][1] # b
      PROVE  Append(log, new)[i][2] = orig[b]
  <2>1. CASE i \in 1 .. Len(log)
    BY <1>2, <1>4, <2>1 DEF FirstIs
  <2>2. CASE i = Len(log) + 1
    <3>1. \A j \in DOMAIN log : log[j][1] # b
      BY <1>2, <1>4, <2>2
    <3>2. f[b] = orig[b] /\ a = b
      BY <1>1, <1>2, <1>4, <2>2, <3>1 DEF FirstIs
    <3>. QED BY <1>1, <1>2, <2>2, <3>2
  <2>. QED BY <1>2, <2>1, <2>2
<1>5. FirstIs(g, Append(log, new), orig, b)
  BY <1>3, <1>4 DEF FirstIs
<1>. QED BY <1>5 DEF new

\* The last entry is taken away; if it was the only one of its arc, the arc has
\* its end of then.
LEMMA FirstFront ==
    ASSUME NEW log \in Logs, log # <<>>, NEW f \in Ends, NEW g \in Ends, NEW orig \in Ends,
           NEW b \in Elements, FirstIs(f, log, orig, b),
           b # Last(log)[1] => g[b] = f[b],
           b = Last(log)[1] /\ Last(log)[2] = orig[b] => g[b] = orig[b]
    PROVE  FirstIs(g, Front(log), orig, b)
<1>1. /\ Len(log) \in Nat \ {0} /\ DOMAIN log = 1 .. Len(log)
      /\ DOMAIN Front(log) = 1 .. Len(log) - 1
      /\ \A i \in 1 .. Len(log) - 1 : Front(log)[i] = log[i]
      /\ Last(log) = log[Len(log)]
  BY Shortened DEF Logs
<1>2. ASSUME \A i \in DOMAIN Front(log) : Front(log)[i][1] # b
      PROVE  g[b] = orig[b]
  <2>1. \A i \in 1 .. Len(log) - 1 : log[i][1] # b
    BY <1>1, <1>2
  <2>2. CASE b = Last(log)[1]
    BY <1>1, <2>1, <2>2 DEF FirstIs
  <2>3. CASE b # Last(log)[1]
    BY <1>1, <2>1, <2>3 DEF FirstIs
  <2>. QED BY <2>2, <2>3
<1>3. ASSUME NEW i \in DOMAIN Front(log), Front(log)[i][1] = b,
             \A j \in DOMAIN Front(log) : j < i => Front(log)[j][1] # b
      PROVE  Front(log)[i][2] = orig[b]
  BY <1>1, <1>3 DEF FirstIs
<1>. QED BY <1>2, <1>3 DEF FirstIs

\* The entry that is taken away, when no other of its arc is left, has the end
\* of then.
LEMMA LastIsFirst ==
    ASSUME NEW log \in Logs, log # <<>>, NEW f, NEW orig, NEW b,
           FirstIs(f, log, orig, b), b = Last(log)[1], Last(log)[2] # orig[b]
    PROVE  \E i \in DOMAIN Front(log) : Front(log)[i][1] = b
<1>1. /\ Len(log) \in Nat \ {0} /\ DOMAIN log = 1 .. Len(log)
      /\ DOMAIN Front(log) = 1 .. Len(log) - 1
      /\ \A i \in 1 .. Len(log) - 1 : Front(log)[i] = log[i]
      /\ Last(log) = log[Len(log)]
  BY Shortened DEF Logs
<1>. QED BY <1>1 DEF FirstIs

\* The entries of a longer and of a shorter list.
LEMMA EntriesAppend ==
    ASSUME NEW log \in Logs, NEW A, NEW X, NEW A2, NEW X2, A \subseteq A2, X \subseteq X2,
           EntriesIn(log, A, X), NEW a \in Elements, NEW x \in Elements \cup {None},
           a \in A2, x \in X2 \cup {None}
    PROVE  EntriesIn(Append(log, <<a, x>>), A2, X2)
<1>1. /\ Len(log) \in Nat /\ DOMAIN log = 1 .. Len(log)
      /\ DOMAIN Append(log, <<a, x>>) = 1 .. Len(log) + 1
      /\ \A i \in 1 .. Len(log) : Append(log, <<a, x>>)[i] = log[i]
      /\ Append(log, <<a, x>>)[Len(log) + 1] = <<a, x>>
  BY Appended DEF Logs
<1>. QED BY <1>1 DEF EntriesIn

LEMMA EntriesFront ==
    ASSUME NEW log \in Logs, log # <<>>, NEW A, NEW X, EntriesIn(log, A, X)
    PROVE  /\ EntriesIn(Front(log), A, X)
           /\ Last(log)[1] \in A /\ Last(log)[2] \in X \cup {None}
<1>1. /\ Len(log) \in Nat \ {0} /\ DOMAIN log = 1 .. Len(log)
      /\ DOMAIN Front(log) = 1 .. Len(log) - 1
      /\ \A i \in 1 .. Len(log) - 1 : Front(log)[i] = log[i]
      /\ Last(log) = log[Len(log)]
  BY Shortened DEF Logs
<1>. QED BY <1>1 DEF EntriesIn

\* A created element enters the list, and leaves it.
LEMMA DistinctAppend ==
    ASSUME NEW s \in Seq(Elements), Distinct(s), NEW e \in Elements, e \notin ToSet(s)
    PROVE  Distinct(Append(s, e)) /\ ToSet(Append(s, e)) = ToSet(s) \cup {e}
<1>1. /\ Len(s) \in Nat /\ DOMAIN s = 1 .. Len(s)
      /\ DOMAIN Append(s, e) = 1 .. Len(s) + 1
      /\ \A i \in 1 .. Len(s) : Append(s, e)[i] = s[i]
      /\ Append(s, e)[Len(s) + 1] = e
  BY Appended
<1>2. Distinct(Append(s, e))
  BY <1>1 DEF Distinct, ToSet
<1>3. ToSet(Append(s, e)) = ToSet(s) \cup {e}
  BY <1>1 DEF ToSet
<1>. QED BY <1>2, <1>3

LEMMA DistinctFront ==
    ASSUME NEW s \in Seq(Elements), s # <<>>, Distinct(s)
    PROVE  /\ Distinct(Front(s))
           /\ ToSet(Front(s)) = ToSet(s) \ {Last(s)}
           /\ Last(s) \in ToSet(s)
<1>1. /\ Len(s) \in Nat \ {0} /\ DOMAIN s = 1 .. Len(s)
      /\ DOMAIN Front(s) = 1 .. Len(s) - 1
      /\ \A i \in 1 .. Len(s) - 1 : Front(s)[i] = s[i]
      /\ Last(s) = s[Len(s)]
  BY Shortened
<1>2. Distinct(Front(s))
  BY <1>1 DEF Distinct
<1>3. Last(s) \in ToSet(s)
  BY <1>1 DEF ToSet
<1>4. ToSet(Front(s)) = ToSet(s) \ {Last(s)}
  BY <1>1 DEF Distinct, ToSet
<1>. QED BY <1>2, <1>3, <1>4
-----------------------------------------------------------------------------
(* Every step of a transaction that is alone keeps what the lists know.    *)

\* The transaction begins with empty lists.
LEMMA AloneBegins ==
    ASSUME TTypeOK, NoDanglingEnds, begin,
           gened_elems = <<>>, orig_beg = <<>>, orig_end = <<>>
    PROVE  Alone'
<1>1. PICK L \in SUBSET Elements, B \in Ends, E \in Ends, R \in BOOLEAN :
         /\ L = live /\ B = beg /\ E = end
         /\ R = \A a \in live : MayBegin(beg[a])
  BY DEF TTypeOK, TypeOK, Ends
<1>2. /\ UNCHANGED <<live, type, beg, end, gened_elems, orig_beg, orig_end, freed>>
      /\ ~freed /\ stage' = "open"
      /\ before' = << <<L, B, E>>, R >>
  BY <1>1 DEF begin, vars, logs, memory
<1>3. ASSUME NEW a \in Elements
      PROVE  /\ B[a] # None => a \in L /\ B[a] \in L
             /\ E[a] # None => a \in L /\ E[a] \in L
             /\ R /\ B[a] # None => type[B[a]] # "connector"
             /\ FirstIs(beg, <<>>, B, a) /\ FirstIs(end, <<>>, E, a)
  BY <1>1 DEF NoDanglingEnds, MayBegin, FirstIs
<1>4. Distinct(<<>>) /\ ToSet(<<>>) = {}
  BY DEF Distinct, ToSet
<1>5. EntriesIn(<<>>, Arcs, live)
  BY DEF EntriesIn
<1>6. Arcs' = Arcs
  BY <1>2 DEF Arcs
<1>7. AloneWith(L, B, E, R)'
  BY <1>1, <1>2, <1>3, <1>4, <1>5, <1>6 DEF AloneWith
<1>. QED BY <1>7 DEF Alone

\* The created element is new, has no ends and enters the list.
LEMMA AloneCreates ==
    ASSUME TTypeOK, NoDanglingEnds,
           NEW L \in SUBSET Elements, NEW B \in Ends, NEW E \in Ends, NEW R \in BOOLEAN,
           AloneWith(L, B, E, R),
           NEW e \in Elements, NEW t \in UsedTypes, t_create_el(e, t)
    PROVE  AloneWith(L, B, E, R)'
<1>. USE DEF TTypeOK, TypeOK
<1>1. /\ stage = "open" /\ e \notin live /\ live' = live \cup {e}
      /\ \A f \in Elements \ {e} : type'[f] = type[f]
      /\ gened_elems' = Append(gened_elems, e)
      /\ UNCHANGED <<before, stage, freed, beg, end, orig_beg, orig_end>>
  BY DEF t_create_el, Recorded, create_el
<1>2. /\ e \notin L /\ e \notin ToSet(gened_elems) /\ ToSet(gened_elems) \subseteq live \ L
      /\ live = L \cup ToSet(gened_elems)
  BY <1>1 DEF AloneWith
<1>3. Distinct(gened_elems') /\ ToSet(gened_elems') = ToSet(gened_elems) \cup {e}
  BY <1>1, <1>2, DistinctAppend DEF AloneWith
<1>4. \A a \in Elements : /\ B[a] # None => a \in L /\ B[a] \in L
                          /\ E[a] # None => a \in L /\ E[a] \in L
                          /\ R /\ B[a] # None => type'[B[a]] # "connector"
  BY <1>1, <1>2 DEF AloneWith
<1>5. Arcs \subseteq Arcs' /\ live \subseteq live'
  BY <1>1 DEF Arcs
<1>6. /\ EntriesIn(orig_beg, Arcs, live) /\ EntriesIn(orig_end, Arcs, live)
      /\ EntriesIn(orig_beg', Arcs', live') /\ EntriesIn(orig_end', Arcs', live')
  BY <1>1, <1>5 DEF AloneWith, EntriesIn
<1>7. ASSUME NEW a \in Elements, R \/ a \in ToSet(gened_elems')
      PROVE  FirstIs(beg', orig_beg', B, a) /\ FirstIs(end', orig_end', E, a)
  <2>1. CASE a = e
    <3>1. beg[e] = None /\ end[e] = None /\ B[e] = None /\ E[e] = None
      BY <1>1, <1>2 DEF NoDanglingEnds, AloneWith
    <3>2. /\ \A i \in DOMAIN orig_beg : orig_beg[i][1] # e
          /\ \A i \in DOMAIN orig_end : orig_end[i][1] # e
      BY <1>1, <1>6 DEF EntriesIn, Arcs
    <3>. QED BY <1>1, <2>1, <3>1, <3>2 DEF FirstIs
  <2>2. CASE a # e
    BY <1>1, <1>3, <1>7, <2>2 DEF AloneWith
  <2>. QED BY <2>1, <2>2
<1>8. ToSet(gened_elems') \subseteq live' \ L /\ live' = L \cup ToSet(gened_elems')
  BY <1>1, <1>2, <1>3
<1>. QED BY <1>1, <1>3, <1>4, <1>6, <1>7, <1>8 DEF AloneWith

\* A changed begin leaves what is a connector and what is none.
LEMMA SetBeginKeepsConnectors ==
    ASSUME TypeOK, NEW a, NEW x \in Elements \cup {None}, set_beg(a, x)
    PROVE  \A e \in Elements : type[e] = "connector" <=> type'[e] = "connector"
<1>1. PICK veto \in BOOLEAN : type' = TypeOfBegin(type, x, veto)
  BY DEF set_beg
<1>. QED BY <1>1, BeginKeepsConnectors DEF TypeOK

\* The change of an end is entered with the end before it.
LEMMA AloneSetsBegin ==
    ASSUME TTypeOK, NoDanglingEnds,
           NEW L \in SUBSET Elements, NEW B \in Ends, NEW E \in Ends, NEW R \in BOOLEAN,
           AloneWith(L, B, E, R),
           NEW a \in Elements, NEW x \in Elements \cup {None}, t_set_beg(a, x)
    PROVE  AloneWith(L, B, E, R)'
<1>. USE DEF TTypeOK, TypeOK
<1>1. /\ a \in live /\ type[a] = "connector"
      /\ beg' = [beg EXCEPT ![a] = x]
      /\ orig_beg' = Append(orig_beg, <<a, beg[a]>>)
      /\ UNCHANGED <<before, stage, freed, live, end, gened_elems, orig_end>>
  BY DEF t_set_beg, Recorded, set_beg, SameEnd, vars
<1>2. \A e \in Elements : type[e] = "connector" <=> type'[e] = "connector"
  BY SetBeginKeepsConnectors DEF t_set_beg, SameEnd, vars
<1>3. Arcs' = Arcs
  BY <1>1, <1>2 DEF Arcs
<1>4. beg[a] \in live \cup {None} /\ a \in Arcs /\ beg[a] \in Elements \cup {None}
  BY <1>1 DEF NoDanglingEnds, Arcs
<1>5. EntriesIn(orig_beg', Arcs', live') /\ EntriesIn(orig_end', Arcs', live')
  <2>1. EntriesIn(orig_beg, Arcs, live) /\ orig_beg \in Logs
    BY DEF AloneWith, Logs
  <2>2. EntriesIn(Append(orig_beg, <<a, beg[a]>>), Arcs, live)
    BY <1>4, <2>1, EntriesAppend
  <2>. QED BY <1>1, <1>3, <2>2 DEF AloneWith
<1>6. ASSUME NEW b \in Elements, R \/ b \in ToSet(gened_elems')
      PROVE  FirstIs(beg', orig_beg', B, b) /\ FirstIs(end', orig_end', E, b)
  <2>1. FirstIs(beg, orig_beg, B, b) /\ FirstIs(end, orig_end, E, b)
    BY <1>1, <1>6 DEF AloneWith
  <2>2. beg \in Ends /\ beg' \in Ends /\ orig_beg \in Logs
    BY <1>1 DEF Ends, Logs
  <2>3. b # a => beg'[b] = beg[b]
    BY <1>1
  <2>4. FirstIs(beg', Append(orig_beg, <<a, beg[a]>>), B, b)
    BY <2>1, <2>2, <2>3, FirstAppend
  <2>. QED BY <1>1, <2>1, <2>4
<1>7. \A b \in Elements : R /\ B[b] # None => type'[B[b]] # "connector"
  BY <1>2 DEF AloneWith
<1>. QED BY <1>1, <1>5, <1>6, <1>7 DEF AloneWith

LEMMA AloneSetsEnd ==
    ASSUME TTypeOK, NoDanglingEnds,
           NEW L \in SUBSET Elements, NEW B \in Ends, NEW E \in Ends, NEW R \in BOOLEAN,
           AloneWith(L, B, E, R),
           NEW a \in Elements, NEW x \in Elements \cup {None}, t_set_end(a, x)
    PROVE  AloneWith(L, B, E, R)'
<1>. USE DEF TTypeOK, TypeOK
<1>1. /\ a \in live /\ type[a] = "connector"
      /\ end' = [end EXCEPT ![a] = x]
      /\ orig_end' = Append(orig_end, <<a, end[a]>>)
      /\ UNCHANGED <<before, stage, freed, live, type, beg, gened_elems, orig_beg>>
  BY DEF t_set_end, Recorded, set_end, SameEnd, vars
<1>2. Arcs' = Arcs
  BY <1>1 DEF Arcs
<1>3. end[a] \in live \cup {None} /\ a \in Arcs /\ end[a] \in Elements \cup {None}
  BY <1>1 DEF NoDanglingEnds, Arcs
<1>4. EntriesIn(orig_beg', Arcs', live') /\ EntriesIn(orig_end', Arcs', live')
  <2>1. EntriesIn(orig_end, Arcs, live) /\ orig_end \in Logs
    BY DEF AloneWith, Logs
  <2>2. EntriesIn(Append(orig_end, <<a, end[a]>>), Arcs, live)
    BY <1>3, <2>1, EntriesAppend
  <2>. QED BY <1>1, <1>2, <2>2 DEF AloneWith
<1>5. ASSUME NEW b \in Elements, R \/ b \in ToSet(gened_elems')
      PROVE  FirstIs(beg', orig_beg', B, b) /\ FirstIs(end', orig_end', E, b)
  <2>1. FirstIs(beg, orig_beg, B, b) /\ FirstIs(end, orig_end, E, b)
    BY <1>1, <1>5 DEF AloneWith
  <2>2. end \in Ends /\ end' \in Ends /\ orig_end \in Logs
    BY <1>1 DEF Ends, Logs
  <2>3. b # a => end'[b] = end[b]
    BY <1>1
  <2>4. FirstIs(end', Append(orig_end, <<a, end[a]>>), E, b)
    BY <2>1, <2>2, <2>3, FirstAppend
  <2>. QED BY <1>1, <2>1, <2>4
<1>. QED BY <1>1, <1>4, <1>5 DEF AloneWith
\* A begin is put back, unless it is only one of those in between that cannot.
LEMMA AloneRollsBegin ==
    ASSUME TTypeOK,
           NEW L \in SUBSET Elements, NEW B \in Ends, NEW E \in Ends, NEW R \in BOOLEAN,
           AloneWith(L, B, E, R), roll_beg, before' # <<>>
    PROVE  AloneWith(L, B, E, R)'
<1>. USE DEF TTypeOK, TypeOK
<1>1. PICK a \in Elements, x \in Elements \cup {None} :
         a = Last(orig_beg)[1] /\ x = Last(orig_beg)[2]
  BY LastEntries DEF roll_beg
<1>2. /\ orig_beg # <<>> /\ orig_beg' = Front(orig_beg) /\ orig_beg \in Logs
      /\ UNCHANGED <<stage, gened_elems, orig_end, erased_elems, refs>>
      /\ stage = "rolling"
  BY DEF roll_beg, Logs
<1>3. /\ EntriesIn(orig_beg, Arcs, live) /\ EntriesIn(Front(orig_beg), Arcs, live)
      /\ a \in live /\ type[a] = "connector" /\ x \in live \cup {None}
  <2>1. EntriesIn(orig_beg, Arcs, live)
    BY DEF AloneWith
  <2>2. EntriesIn(Front(orig_beg), Arcs, live) /\ a \in Arcs /\ x \in live \cup {None}
    BY <1>1, <1>2, <2>1, EntriesFront
  <2>. QED BY <2>1, <2>2 DEF Arcs
<1>4. /\ before' = before /\ UNCHANGED freed
      /\ \/ UNCHANGED vars /\ (x = beg[a] \/ ~MayBegin(x))
         \/ set_beg(a, x)
  <2>1. ~(Gone(a) \/ Gone(x))
    BY <1>3 DEF Gone
  <2>2. /\ UNCHANGED freed
        /\ \/ x = beg[a] /\ UNCHANGED <<vars, before>>
           \/ Restore(set_beg(a, x), MayHaveEnd(a, x) /\ MayBegin(x))
    BY <1>1, <2>1 DEF roll_beg
  <2>3. MayHaveEnd(a, x)
    BY <1>3 DEF MayHaveEnd
  <2>. QED BY <2>2, <2>3 DEF Restore
<1>5. \A e \in Elements : type[e] = "connector" <=> type'[e] = "connector"
  BY <1>4, SetBeginKeepsConnectors DEF vars
<1>6. /\ UNCHANGED <<live, end>> /\ beg' \in Ends
      /\ \A b \in Elements : b # a => beg'[b] = beg[b]
      /\ beg'[a] = x \/ (UNCHANGED beg /\ ~MayBegin(x))
  <2>1. CASE UNCHANGED vars
    <3>1. UNCHANGED <<live, beg, end>> /\ beg' \in Ends
      BY <2>1 DEF vars, Ends
    <3>2. x = beg[a] \/ ~MayBegin(x)
      BY <1>4, <2>1 DEF vars, set_beg
    <3>. QED BY <3>1, <3>2
  <2>2. CASE set_beg(a, x)
    <3>1. UNCHANGED <<live, end>> /\ beg' = [beg EXCEPT ![a] = x]
      BY <2>2 DEF set_beg
    <3>. QED BY <3>1 DEF Ends
  <2>. QED BY <1>4, <2>1, <2>2
<1>7. Arcs' = Arcs
  BY <1>5, <1>6 DEF Arcs
<1>8. ASSUME NEW b \in Elements, R \/ b \in ToSet(gened_elems')
      PROVE  FirstIs(beg', orig_beg', B, b) /\ FirstIs(end', orig_end', E, b)
  <2>1. FirstIs(beg, orig_beg, B, b) /\ FirstIs(end, orig_end, E, b)
    BY <1>2, <1>8 DEF AloneWith
  <2>2. B[b] # None => type[B[b]] # "connector"
    BY <1>2, <1>8 DEF AloneWith
  <2>3. b = a /\ x = B[b] => beg'[b] = B[b]
    BY <1>6, <2>2 DEF MayBegin
  <2>4. beg \in Ends
    BY DEF Ends
  <2>5. FirstIs(beg', Front(orig_beg), B, b)
    BY <1>1, <1>2, <1>6, <2>1, <2>3, <2>4, FirstFront
  <2>. QED BY <1>2, <1>6, <2>1, <2>5
<1>9. /\ \A b \in Elements : R /\ B[b] # None => type'[B[b]] # "connector"
      /\ EntriesIn(orig_beg', Arcs', live') /\ EntriesIn(orig_end', Arcs', live')
  BY <1>2, <1>3, <1>5, <1>6, <1>7 DEF AloneWith
<1>. QED BY <1>2, <1>4, <1>6, <1>8, <1>9 DEF AloneWith

LEMMA AloneRollsEnd ==
    ASSUME TTypeOK,
           NEW L \in SUBSET Elements, NEW B \in Ends, NEW E \in Ends, NEW R \in BOOLEAN,
           AloneWith(L, B, E, R), roll_end, before' # <<>>
    PROVE  AloneWith(L, B, E, R)'
<1>. USE DEF TTypeOK, TypeOK
<1>1. PICK a \in Elements, x \in Elements \cup {None} :
         a = Last(orig_end)[1] /\ x = Last(orig_end)[2]
  BY LastEntries DEF roll_end
<1>2. /\ orig_end # <<>> /\ orig_end' = Front(orig_end) /\ orig_end \in Logs
      /\ UNCHANGED <<stage, gened_elems, orig_beg, erased_elems, refs>>
      /\ stage = "rolling"
  BY DEF roll_end, Logs
<1>3. /\ EntriesIn(orig_end, Arcs, live) /\ EntriesIn(Front(orig_end), Arcs, live)
      /\ a \in live /\ type[a] = "connector" /\ x \in live \cup {None}
  <2>1. EntriesIn(orig_end, Arcs, live)
    BY DEF AloneWith
  <2>2. EntriesIn(Front(orig_end), Arcs, live) /\ a \in Arcs /\ x \in live \cup {None}
    BY <1>1, <1>2, <2>1, EntriesFront
  <2>. QED BY <2>1, <2>2 DEF Arcs
<1>4. /\ before' = before /\ UNCHANGED freed
      /\ \/ UNCHANGED vars /\ x = end[a]
         \/ set_end(a, x)
  <2>1. ~(Gone(a) \/ Gone(x))
    BY <1>3 DEF Gone
  <2>2. /\ UNCHANGED freed
        /\ \/ x = end[a] /\ UNCHANGED <<vars, before>>
           \/ Restore(set_end(a, x), MayHaveEnd(a, x))
    BY <1>1, <2>1 DEF roll_end
  <2>3. MayHaveEnd(a, x)
    BY <1>3 DEF MayHaveEnd
  <2>. QED BY <2>2, <2>3 DEF Restore
<1>5. /\ UNCHANGED <<live, type, beg>> /\ end' \in Ends
      /\ \A b \in Elements : b # a => end'[b] = end[b]
      /\ end'[a] = x
  BY <1>4 DEF vars, set_end, Ends
<1>6. Arcs' = Arcs
  BY <1>5 DEF Arcs
<1>7. ASSUME NEW b \in Elements, R \/ b \in ToSet(gened_elems')
      PROVE  FirstIs(beg', orig_beg', B, b) /\ FirstIs(end', orig_end', E, b)
  <2>1. FirstIs(beg, orig_beg, B, b) /\ FirstIs(end, orig_end, E, b)
    BY <1>2, <1>7 DEF AloneWith
  <2>2. end \in Ends
    BY DEF Ends
  <2>3. FirstIs(end', Front(orig_end), E, b)
    BY <1>1, <1>2, <1>5, <2>1, <2>2, FirstFront
  <2>. QED BY <1>2, <1>5, <2>1, <2>3
<1>8. EntriesIn(orig_beg', Arcs', live') /\ EntriesIn(orig_end', Arcs', live')
  BY <1>2, <1>3, <1>5, <1>6 DEF AloneWith
<1>. QED BY <1>2, <1>4, <1>5, <1>7, <1>8 DEF AloneWith
\* A created element is erased.  No arc that the transaction has created has
\* ends any more, so that its erasure takes none of them along; if all ends are
\* those of then, it takes nothing along.
LEMMA CascadeOfCreated ==
    ASSUME TTypeOK,
           NEW L \in SUBSET Elements, NEW B \in Ends, NEW E \in Ends, NEW R \in BOOLEAN,
           AloneWith(L, B, E, R), orig_beg = <<>>, orig_end = <<>>,
           NEW e \in ToSet(gened_elems)
    PROVE  /\ Doomed(e) \cap ToSet(gened_elems) = {e}
           /\ R => Doomed(e) = {e} /\ ~Endless(e)
<1>. DEFINE G == ToSet(gened_elems)
<1>1. e \in Elements /\ e \notin L /\ live \subseteq Elements /\ G \subseteq live \ L
  BY DEF AloneWith, TTypeOK, TypeOK
<1>2. e \in Doomed(e)
  BY <1>1, DoomedClosed
<1>3. \A a \in Elements : R \/ a \in G => beg[a] = B[a] /\ end[a] = E[a]
  BY DEF AloneWith, FirstIs
<1>4. \A a \in G : beg[a] = None /\ end[a] = None
  BY <1>1, <1>3 DEF AloneWith
<1>5. Doomed(e) \cap G \subseteq {e}
  <2>. DEFINE S == Elements \ (G \ {e})
  <2>1. e \in S /\ Incident(S) \subseteq S
    BY <1>1, <1>4, NoneIsNoElement DEF Incident
  <2>. QED BY <2>1 DEF Doomed
<1>6. ASSUME R
      PROVE  Doomed(e) = {e} /\ ~Endless(e)
  <2>1. Incident({e}) = {}
    BY <1>1, <1>3, <1>6, NoneIsNoElement DEF Incident, AloneWith
  <2>2. Doomed(e) \subseteq {e}
    BY <1>1, <2>1 DEF Doomed
  <2>3. Doomed(e) = {e}
    BY <1>2, <2>2
  <2>4. \A S \in SUBSET {e} : S # {} => S = {e}
    OBVIOUS
  <2>. QED BY <2>1, <2>3, <2>4 DEF Endless
<1>. QED BY <1>2, <1>5, <1>6

LEMMA AloneRollsElement ==
    ASSUME TTypeOK,
           NEW L \in SUBSET Elements, NEW B \in Ends, NEW E \in Ends, NEW R \in BOOLEAN,
           AloneWith(L, B, E, R), roll_elem, before' # <<>>
    PROVE  AloneWith(L, B, E, R)'
<1>. USE DEF TTypeOK, TypeOK
<1>1. PICK e \in Elements : e = Last(gened_elems)
  BY LastEntries DEF roll_elem
<1>2. /\ stage = "rolling" /\ gened_elems # <<>> /\ gened_elems' = Front(gened_elems)
      /\ orig_beg = <<>> /\ orig_end = <<>>
      /\ UNCHANGED <<stage, orig_beg, orig_end>>
  BY DEF roll_elem, EndsRestored
<1>3. /\ e \in ToSet(gened_elems) /\ Distinct(gened_elems')
      /\ ToSet(gened_elems') = ToSet(gened_elems) \ {e}
      /\ ToSet(gened_elems) \subseteq live \ L
  BY <1>1, <1>2, DistinctFront DEF AloneWith
<1>4. /\ before' = before /\ freed' = freed
      /\ erase_el(e) \/ erase_el_overflow(e)
  <2>1. e \in live /\ ~Gone(e)
    BY <1>3 DEF Gone
  <2>. QED BY <1>1, <2>1 DEF roll_elem, Restore
<1>5. /\ Doomed(e) \cap ToSet(gened_elems) = {e}
      /\ R => Doomed(e) = {e} /\ ~Endless(e)
  BY <1>2, <1>3, CascadeOfCreated
<1>6. /\ live' \subseteq live /\ ToSet(gened_elems') \subseteq live' \ L
      /\ R => live' = live \ {e}
      /\ \A f \in Elements : type'[f] = type[f] \/ type'[f] = "undf"
      /\ \A f \in Elements : /\ beg'[f] = beg[f] \/ (f \in Doomed(e) /\ beg'[f] = None)
                             /\ end'[f] = end[f] \/ (f \in Doomed(e) /\ end'[f] = None)
  <2>1. CASE erase_el(e)
    <3>. DEFINE D == Doomed(e)
    <3>1. /\ live' = live \ D
          /\ \A f \in Elements :
               /\ type'[f] = IF f \in D THEN "undf" ELSE type[f]
               /\ beg'[f] = IF f \in D THEN None ELSE beg[f]
               /\ end'[f] = IF f \in D THEN None ELSE end[f]
      BY <2>1 DEF erase_el
    <3>2. D \cap ToSet(gened_elems) = {e} /\ (R => D = {e})
      BY <1>5
    <3>. HIDE DEF D
    <3>3. /\ live' \subseteq live /\ ToSet(gened_elems') \subseteq live' \ L
          /\ R => live' = live \ {e}
      BY <1>3, <3>1, <3>2
    <3>4. \A f \in Elements : /\ type'[f] = type[f] \/ type'[f] = "undf"
                              /\ beg'[f] = beg[f] \/ (f \in D /\ beg'[f] = None)
                              /\ end'[f] = end[f] \/ (f \in D /\ end'[f] = None)
      BY <3>1
    <3>. QED BY <3>3, <3>4 DEF D
  <2>2. CASE erase_el_overflow(e)
    <3>1. UNCHANGED <<live, type, beg, end>> /\ Endless(e)
      BY <2>2 DEF erase_el_overflow
    <3>. QED BY <1>3, <1>5, <3>1
  <2>. QED BY <1>4, <2>1, <2>2
<1>7. ASSUME NEW b \in Elements, R \/ b \in ToSet(gened_elems')
      PROVE  beg'[b] = B[b] /\ end'[b] = E[b]
  <2>1. beg[b] = B[b] /\ end[b] = E[b]
    BY <1>2, <1>3, <1>7 DEF AloneWith, FirstIs
  <2>2. b \in Doomed(e) => b = e
    BY <1>3, <1>5, <1>7
  <2>3. B[e] = None /\ E[e] = None
    BY <1>3 DEF AloneWith
  <2>. QED BY <1>6, <2>1, <2>2, <2>3
<1>8. \A b \in Elements : R \/ b \in ToSet(gened_elems')
        => FirstIs(beg', orig_beg', B, b) /\ FirstIs(end', orig_end', E, b)
  BY <1>2, <1>7 DEF FirstIs
<1>9. EntriesIn(orig_beg', Arcs', live') /\ EntriesIn(orig_end', Arcs', live')
  BY <1>2 DEF EntriesIn
<1>10. R => live' = L \cup ToSet(gened_elems')
  BY <1>3, <1>6 DEF AloneWith
<1>11. \A b \in Elements : R /\ B[b] # None => type'[B[b]] # "connector"
  BY <1>6 DEF AloneWith
<1>. QED BY <1>2, <1>3, <1>4, <1>6, <1>8, <1>9, <1>10, <1>11 DEF AloneWith
\* An erasure that is put off changes nothing but its list; the decision to
\* roll back changes nothing.
LEMMA AloneStays ==
    ASSUME NEW L \in SUBSET Elements, NEW B \in Ends, NEW E \in Ends, NEW R \in BOOLEAN,
           AloneWith(L, B, E, R),
           UNCHANGED <<before, freed, vars, gened_elems, orig_beg, orig_end>>,
           stage' = stage \/ rollback
    PROVE  AloneWith(L, B, E, R)'
<1>1. Arcs' = Arcs
  BY DEF vars, Arcs
<1>2. stage' \in {"open", "rolling"} /\ (stage' = "open" => stage = "open")
  BY DEF AloneWith, rollback
<1>3. live = L \cup ToSet(gened_elems) \/ (stage' # "open" /\ ~R)
  BY DEF AloneWith, rollback
<1>. QED BY <1>1, <1>2, <1>3 DEF AloneWith, vars

\* Every step of a transaction that stays alone.
LEMMA NextAloneWith ==
    ASSUME TTypeOK, NoDanglingEnds,
           NEW L \in SUBSET Elements, NEW B \in Ends, NEW E \in Ends, NEW R \in BOOLEAN,
           AloneWith(L, B, E, R), [TNext]_tvars, before' # <<>>
    PROVE  AloneWith(L, B, E, R)'
<1>0. stage \in {"open", "rolling"} /\ before # <<>>
  BY DEF AloneWith
<1>1. ASSUME NEW e \in Elements, NEW t \in UsedTypes, t_create_el(e, t)
      PROVE  AloneWith(L, B, E, R)'
  BY <1>1, AloneCreates
<1>2. ASSUME NEW a \in Elements, NEW x \in Elements \cup {None},
             t_set_beg(a, x) \/ t_set_end(a, x)
      PROVE  AloneWith(L, B, E, R)'
  BY <1>2, AloneSetsBegin, AloneSetsEnd
<1>3. ASSUME NEW e \in Elements, t_erase_el(e)
      PROVE  AloneWith(L, B, E, R)'
  BY <1>3, AloneStays DEF t_erase_el, Recorded
<1>4. CASE roll_beg
  BY <1>4, AloneRollsBegin
<1>5. CASE roll_end
  BY <1>5, AloneRollsEnd
<1>6. CASE roll_elem
  BY <1>6, AloneRollsElement
<1>7. CASE rollback \/ UNCHANGED tvars
  BY <1>7, AloneStays DEF rollback, tvars, logs
<1>8. CASE begin \/ commit \/ commit_next \/ commit_end \/ rollback_end \/ Others
  BY <1>0, <1>8 DEF begin, commit, commit_next, commit_end, rollback_end, Finish, Others
<1>. QED BY <1>1, <1>2, <1>3, <1>4, <1>5, <1>6, <1>7, <1>8
         DEF TNext, Operations, Commit, Rollback

-----------------------------------------------------------------------------
(***************************************************************************)
(* The invariant of transactions                                           *)
(***************************************************************************)

EmptyWhenIdle ==
    stage = "idle" => gened_elems = <<>> /\ orig_beg = <<>> /\ orig_end = <<>>

TInv ==
    /\ EmptyWhenIdle
    /\ FreedOnlyByOthers
    /\ before # <<>> => Alone

\* A step of the transaction, or of the others: if it is still alone, the lists
\* know what a rollback needs.
LEMMA NextAlone ==
    ASSUME TTypeOK, NoDanglingEnds, TInv, [TNext]_tvars, before' # <<>>
    PROVE  Alone'
<1>1. CASE before # <<>>
  <2>1. PICK L \in SUBSET Elements, B \in Ends, E \in Ends, R \in BOOLEAN : AloneWith(L, B, E, R)
    BY <1>1 DEF TInv, Alone
  <2>2. AloneWith(L, B, E, R)'
    BY <2>1, NextAloneWith
  <2>. QED BY <2>2 DEF Alone
<1>2. CASE before = <<>>
  <2>1. begin
    BY <1>2 DEF TNext, tvars, Operations, Commit, Rollback, Recorded, t_create_el, t_set_beg,
                t_set_end, t_erase_el, commit, commit_next, commit_end, rollback, roll_beg,
                roll_end, roll_elem, rollback_end, Restore, Finish, Others
  <2>2. gened_elems = <<>> /\ orig_beg = <<>> /\ orig_end = <<>>
    BY <2>1 DEF begin, TInv, EmptyWhenIdle
  <2>. QED BY <2>1, <2>2, AloneBegins
<1>. QED BY <1>1, <1>2

\* Only a rollback that others have interfered with can use freed memory.
LEMMA NextFreed ==
    ASSUME ErasuresReferenced, NoDanglingEnds, TInv, [TNext]_tvars
    PROVE  FreedOnlyByOthers'
<1>. USE DEF FreedOnlyByOthers
<1>1. CASE before' # <<>>
  <2>1. Alone'
    BY <1>1, NextAlone DEF ErasuresReferenced
  <2>2. ~freed'
    BY <2>1 DEF Alone, AloneWith
  <2>. QED BY <2>2
<1>2. CASE before' = <<>>
  <2>1. CASE commit_next
    BY <2>1, ErasureCarriedOut
  <2>2. CASE roll_beg \/ roll_end \/ roll_elem
    BY <1>2, <2>2 DEF roll_beg, roll_end, roll_elem
  <2>3. CASE UNCHANGED tvars
    BY <2>3 DEF TInv, tvars
  <2>4. CASE ~(commit_next \/ roll_beg \/ roll_end \/ roll_elem \/ UNCHANGED tvars)
    BY <2>4 DEF TNext, Operations, Commit, Rollback, Recorded, begin, t_create_el, t_set_beg,
                t_set_end, t_erase_el, commit, commit_end, rollback, rollback_end, Finish, Others
  <2>. QED BY <2>1, <2>2, <2>3, <2>4
<1>. QED BY <1>1, <1>2

\* The lists are empty between two transactions.
LEMMA NextEmpty ==
    ASSUME TInv, [TNext]_tvars
    PROVE  EmptyWhenIdle'
BY DEF TInv, EmptyWhenIdle, TNext, tvars, logs, Operations, Commit, Rollback, Recorded, begin,
       t_create_el, t_set_beg, t_set_end, t_erase_el, commit, commit_next, commit_end, rollback,
       roll_beg, roll_end, roll_elem, rollback_end, Finish, Others

\* The invariant holds throughout.
LEMMA TransactionInvariant == TSpec => []TInv
<1>1. TInit => TInv
  BY DEF TInit, TInv, EmptyWhenIdle, FreedOnlyByOthers
<1>2. ErasuresReferenced /\ NoDanglingEnds /\ TInv /\ [TNext]_tvars => TInv'
  BY NextAlone, NextFreed, NextEmpty DEF TInv, ErasuresReferenced
<1>. QED BY <1>1, <1>2, ErasuresKeepTheirElements, TransactionEndsAlive, PTL DEF TSpec

\* Freed memory is used by a rollback only, and only when others have had a hand
\* in the transaction: never by a commit, never by a transaction that is alone.
THEOREM OnlyOthersFree == TSpec => []FreedOnlyByOthers
<1>1. TInv => FreedOnlyByOthers
  BY DEF TInv
<1>. QED BY <1>1, TransactionInvariant, PTL

\* A rollback that is alone puts back which elements exist and what every arc
\* connects, whatever the transaction has created, moved and asked to erase.  Of
\* the types and the counters of the elements it says nothing.
THEOREM RollbackIsExact == TSpec => RollbackRestores
<1>1. ASSUME TTypeOK, TInv, [TNext]_tvars
      PROVE  [RolledBackAlone => before[1] = memory']_tvars
  <2>. SUFFICES ASSUME RolledBackAlone
                PROVE  before[1] = memory'
    OBVIOUS
  <2>1. rollback_end
    BY <1>1 DEF RolledBackAlone, TNext, tvars, Operations, Commit, Rollback, Recorded, begin,
                t_create_el, t_set_beg, t_set_end, t_erase_el, commit, commit_next, commit_end,
                rollback, roll_beg, roll_end, roll_elem, Finish, Others
  <2>2. PICK L \in SUBSET Elements, B \in Ends, E \in Ends, R \in BOOLEAN : AloneWith(L, B, E, R)
    BY <1>1 DEF TInv, Alone, RolledBackAlone
  <2>3. R /\ before[1] = <<L, B, E>>
    BY <2>2 DEF AloneWith, RolledBackAlone
  <2>4. /\ gened_elems = <<>> /\ orig_beg = <<>> /\ orig_end = <<>>
        /\ memory' = memory
    BY <2>1 DEF rollback_end, EndsRestored, Finish, vars, memory
  <2>5. live = L
    <3>1. ToSet(gened_elems) = {}
      BY <2>4 DEF ToSet
    <3>. QED BY <2>2, <2>3, <3>1 DEF AloneWith
  <2>6. \A a \in Elements : beg[a] = B[a] /\ end[a] = E[a]
    BY <2>2, <2>3, <2>4 DEF AloneWith, FirstIs
  <2>7. beg = B /\ end = E
    BY <1>1, <2>6 DEF TTypeOK, TypeOK, Ends
  <2>. QED BY <2>3, <2>4, <2>5, <2>7 DEF memory
<1>2. ErasuresReferenced => TTypeOK
  BY DEF ErasuresReferenced
<1>. QED BY <1>1, <1>2, ErasuresKeepTheirElements, TransactionInvariant, PTL
         DEF TSpec, RollbackRestores
=============================================================================
