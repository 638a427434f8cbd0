-------------------------- MODULE ScSegmentsProofs --------------------------
(***************************************************************************)
(* Proofs about ScSegments: the slots of a session denote what it has       *)
(* opened, references count the holders of a segment, and the signs of      *)
(* opened segments are held.                                               *)
(***************************************************************************)
EXTENDS ScSegments, FiniteSetTheorems, TLAPS

-----------------------------------------------------------------------------
(* The inductive invariant.                                                *)

\* A segment that exists has its slot to itself, and a slot that is taken is the
\* slot of a segment that exists.
SlotsMatch ==
    /\ \A g \in Segments : Exists(g) => table[index[g]] = g
    /\ \A i \in Slots : table[i] # None => Exists(table[i]) /\ index[table[i]] = i

\* The slots of a session are those of what it has opened, which has a sign; a
\* session that is not logged in has nothing open.
OpenedMatch ==
    /\ \A s \in Sessions : opened_segments[s] = {index[g] : g \in opened[s]}
    /\ \A s \in Sessions : s \notin alive => opened[s] = {}
    /\ \A s \in Sessions : \A g \in opened[s] : sign[g] # None

\* Names are names of different segments and of different signs; a segment in
\* the repository has a sign in META, and no other one.
NamesMatch ==
    /\ \A u, v \in Uris : directory[u] # None /\ directory[u] = directory[v] => u = v
    /\ \A p, q \in Signs : idtf[p] # None /\ idtf[p] = idtf[q] => p = q
    /\ \A u \in Uris : directory[u] # None =>
            /\ \E q \in Signs : idtf[q] = u
            /\ sign[directory[u]] # None => idtf[sign[directory[u]]] = u

OpenedBy(g) == {s \in Sessions : g \in opened[s]}
StandingAt(g) == {k \in Iters : iter[k] = g}
NamesOf(g) == {u \in Uris : directory[u] = g}
OpenedWith(q) == {o \in Sessions \X Segments : o[2] \in opened[o[1]] /\ sign[o[2]] = q}

\* Every opening of a segment has a reference of its sign.
SignRefsHeld == \A q \in Signs : Cardinality(OpenedWith(q)) <= signrefs[q]

IInv ==
    /\ TypeOK
    /\ SlotsMatch
    /\ OpenedMatch
    /\ NamesMatch
    /\ RefsMatchHolders
    /\ SignRefsHeld

-----------------------------------------------------------------------------
(* Counting.                                                               *)

\* The sets that are counted are finite in every state.
LEMMA HoldersFinite ==
    ASSUME NEW g
    PROVE  /\ IsFiniteSet(OpenedBy(g)) /\ Cardinality(OpenedBy(g)) \in Nat
           /\ IsFiniteSet(StandingAt(g)) /\ Cardinality(StandingAt(g)) \in Nat
           /\ IsFiniteSet(NamesOf(g)) /\ Cardinality(NamesOf(g)) \in Nat
           /\ Holders(g) = Cardinality(OpenedBy(g)) + Cardinality(StandingAt(g)) + Cardinality(NamesOf(g))
           /\ Holders(g) \in Nat
<1>1. OpenedBy(g) \in SUBSET Sessions /\ StandingAt(g) \in SUBSET Iters /\ NamesOf(g) \in SUBSET Uris
  BY DEF OpenedBy, StandingAt, NamesOf
<1>2. IsFiniteSet(OpenedBy(g)) /\ IsFiniteSet(StandingAt(g)) /\ IsFiniteSet(NamesOf(g))
  BY <1>1, FiniteObjects, FS_Subset
<1>3. /\ Cardinality(OpenedBy(g)) \in Nat
      /\ Cardinality(StandingAt(g)) \in Nat
      /\ Cardinality(NamesOf(g)) \in Nat
  BY <1>2, FS_CardinalityType
<1>4. Holders(g) = Cardinality(OpenedBy(g)) + Cardinality(StandingAt(g)) + Cardinality(NamesOf(g))
  BY DEF Holders, OpenedBy, StandingAt, NamesOf
<1> QED
  BY <1>2, <1>3, <1>4

LEMMA HoldersFiniteNext ==
    ASSUME NEW g
    PROVE  Holders(g)' \in Nat
<1>1. OpenedBy(g)' \in SUBSET Sessions /\ StandingAt(g)' \in SUBSET Iters /\ NamesOf(g)' \in SUBSET Uris
  BY DEF OpenedBy, StandingAt, NamesOf
<1>2. IsFiniteSet(OpenedBy(g)') /\ IsFiniteSet(StandingAt(g)') /\ IsFiniteSet(NamesOf(g)')
  BY <1>1, FiniteObjects, FS_Subset
<1>3. /\ Cardinality(OpenedBy(g)') \in Nat
      /\ Cardinality(StandingAt(g)') \in Nat
      /\ Cardinality(NamesOf(g)') \in Nat
  BY <1>2, FS_CardinalityType
<1>4. Holders(g)' = Cardinality(OpenedBy(g)') + Cardinality(StandingAt(g)') + Cardinality(NamesOf(g)')
  BY DEF Holders, OpenedBy, StandingAt, NamesOf
<1> QED
  BY <1>3, <1>4

LEMMA OpenedWithFinite ==
    ASSUME NEW q
    PROVE  /\ IsFiniteSet(OpenedWith(q)) /\ Cardinality(OpenedWith(q)) \in Nat
           /\ IsFiniteSet(OpenedWith(q)') /\ Cardinality(OpenedWith(q)') \in Nat
<1>1. OpenedWith(q) \in SUBSET (Sessions \X Segments) /\ OpenedWith(q)' \in SUBSET (Sessions \X Segments)
  BY DEF OpenedWith
<1>2. IsFiniteSet(Sessions \X Segments)
  BY FiniteObjects, FS_Product
<1>3. IsFiniteSet(OpenedWith(q)) /\ IsFiniteSet(OpenedWith(q)')
  BY <1>1, <1>2, FS_Subset
<1> QED
  BY <1>3, FS_CardinalityType

\* A set of pairs with the same first member has as many as there are second ones.
LEMMA SameFirst ==
    ASSUME NEW x, NEW S, IsFiniteSet(S)
    PROVE  IsFiniteSet({x} \X S) /\ Cardinality({x} \X S) = Cardinality(S)
<1>1. IsFiniteSet({x}) /\ Cardinality({x}) = 1
  BY FS_Singleton
<1>2. IsFiniteSet({x} \X S) /\ Cardinality({x} \X S) = Cardinality({x}) * Cardinality(S)
  BY <1>1, FS_Product, Zenon
<1> QED
  BY <1>1, <1>2, FS_CardinalityType

\* Taking a part out of a finite set.
LEMMA TakenOut ==
    ASSUME NEW S, NEW T, IsFiniteSet(S), T \subseteq S
    PROVE  IsFiniteSet(S \ T) /\ Cardinality(S \ T) = Cardinality(S) - Cardinality(T)
<1>1. S \cap T = T
  OBVIOUS
<1> QED
  BY <1>1, FS_Difference, Zenon

\* A set with an element counts at least one.
LEMMA AtLeastOne ==
    ASSUME NEW S, NEW x \in S, IsFiniteSet(S)
    PROVE  Cardinality(S) >= 1
<1>1. Cardinality(S) \in Nat /\ Cardinality(S) # 0
  BY FS_EmptySet, FS_CardinalityType
<1> QED
  BY <1>1

\* Whatever is held exists.
LEMMA HeldExists ==
    ASSUME TypeOK, RefsMatchHolders, NEW g \in Segments, Holders(g) >= 1
    PROVE  Exists(g)
BY HoldersFinite DEF TypeOK, RefsMatchHolders, Exists

LEMMA OpenedHeld ==
    ASSUME NEW s \in Sessions, NEW g \in opened[s]
    PROVE  Holders(g) >= 1
<1>1. s \in OpenedBy(g)
  BY DEF OpenedBy
<1>2. Cardinality(OpenedBy(g)) >= 1
  BY <1>1, HoldersFinite, AtLeastOne
<1> QED
  BY <1>2, HoldersFinite

LEMMA StandingHeld ==
    ASSUME NEW k \in Iters
    PROVE  Holders(iter[k]) >= 1
<1>1. k \in StandingAt(iter[k])
  BY DEF StandingAt
<1>2. Cardinality(StandingAt(iter[k])) >= 1
  BY <1>1, HoldersFinite, AtLeastOne
<1> QED
  BY <1>2, HoldersFinite

LEMMA NamedHeld ==
    ASSUME NEW u \in Uris
    PROVE  Holders(directory[u]) >= 1
<1>1. u \in NamesOf(directory[u])
  BY DEF NamesOf
<1>2. Cardinality(NamesOf(directory[u])) >= 1
  BY <1>1, HoldersFinite, AtLeastOne
<1> QED
  BY <1>2, HoldersFinite

-----------------------------------------------------------------------------
(* What the invariant says of slots.                                       *)

\* Slots tell existing segments apart.
LEMMA SlotIsOne ==
    ASSUME SlotsMatch, NEW g \in Segments, NEW h \in Segments, Exists(g), Exists(h), index[g] = index[h]
    PROVE  g = h
BY DEF SlotsMatch

\* For an existing segment the bit in a session says that it has opened it.
LEMMA BitMeansOpened ==
    ASSUME TypeOK, SlotsMatch, OpenedMatch, RefsMatchHolders,
           NEW s \in Sessions, NEW g \in Segments, Exists(g)
    PROVE  is_segment_opened(s, g) <=> g \in opened[s]
<1>1. opened_segments[s] = {index[h] : h \in opened[s]} /\ opened[s] \subseteq Segments
  BY DEF OpenedMatch, TypeOK
<1>2. ASSUME NEW h \in opened[s], index[h] = index[g]
      PROVE  h = g
  <2>1. h \in Segments /\ Exists(h)
    BY <1>1, OpenedHeld, HeldExists
  <2> QED
    BY <2>1, <1>2, SlotIsOne
<1> QED
  BY <1>1, <1>2 DEF is_segment_opened

\* FOR_ALL_SEGMENTS goes over what the session has opened, and finds a segment
\* in each slot.
LEMMA AllSegmentsOpened ==
    ASSUME TypeOK, SlotsMatch, OpenedMatch, RefsMatchHolders, NEW s \in Sessions
    PROVE  AllSegments(s) = opened[s] /\ None \notin AllSegments(s)
<1>1. opened_segments[s] = {index[h] : h \in opened[s]} /\ opened[s] \subseteq Segments
  BY DEF OpenedMatch, TypeOK
<1>2. ASSUME NEW g \in opened[s] PROVE table[index[g]] = g
  <2>1. g \in Segments /\ Exists(g)
    BY <1>1, OpenedHeld, HeldExists
  <2> QED
    BY <2>1 DEF SlotsMatch
<1>3. AllSegments(s) = opened[s]
  BY <1>1, <1>2 DEF AllSegments
<1> QED
  BY <1>1, <1>3, NoneIsApart

-----------------------------------------------------------------------------
(* Giving references up.                                                   *)

\* The segments of S are closed for the caller s, which may be the system session
\* and then has none of them open.
Dropped(s, S) ==
    /\ S \subseteq Segments
    /\ S = {} \/ (s \in Sessions /\ S \subseteq opened[s])
    /\ \A t \in Sessions : opened'[t] = IF t = s THEN opened[t] \ S ELSE opened[t]
    /\ \A t \in Sessions : opened_segments'[t] =
          IF t = s THEN opened_segments[t] \ {index[h] : h \in S} ELSE opened_segments[t]
    /\ opened' \in [Sessions -> SUBSET Segments]
    /\ opened_segments' \in [Sessions -> SUBSET Slots]

\* Recounted when no segment gains references: the counts stay numbers, slots
\* match again, and signs are kept or forgotten.
LEMMA RecountedSlots ==
    ASSUME TypeOK, SlotsMatch, NEW counts \in [Segments -> Nat], NEW D,
           \A g \in Segments : counts[g] <= refcnt[g],
           Recounted(counts, D), index' = index
    PROVE  /\ SlotsMatch'
           /\ refcnt' \in [Segments -> Nat]
           /\ table' \in [Slots -> Segments \cup {None}]
           /\ sign' \in [Segments -> Signs \cup {None}]
           /\ reopened' \subseteq Segments
           /\ \A g \in Segments : sign'[g] = sign[g] \/ (sign'[g] = None /\ counts[g] = 0)
<1> USE DEF Recounted, TypeOK
<1>1. \A i \in Slots : table'[i] = IF table[i] # None /\ counts[table[i]] = 0 THEN None ELSE table[i]
  BY DEF SlotsOfDeleted
<1>2. table' \in [Slots -> Segments \cup {None}]
  BY DEF SlotsOfDeleted
<1>3. ASSUME NEW g \in Segments, counts[g] > 0
      PROVE  table'[index[g]] = g
  <2>1. Exists(g)
    BY <1>3 DEF Exists
  <2>2. table[index[g]] = g /\ index[g] \in Slots
    BY <2>1 DEF SlotsMatch
  <2> QED
    BY <2>2, <1>1, <1>3
<1>4. ASSUME NEW i \in Slots, table'[i] # None
      PROVE  counts[table'[i]] > 0 /\ index[table'[i]] = i
  <2>1. table[i] # None /\ table'[i] = table[i] /\ counts[table[i]] # 0
    BY <1>1, <1>4
  <2>2. table[i] \in Segments /\ index[table[i]] = i
    BY <2>1 DEF SlotsMatch
  <2> QED
    BY <2>1, <2>2
<1>5. SlotsMatch'
  BY <1>3, <1>4 DEF SlotsMatch, Exists
<1> QED
  BY <1>2, <1>5

\* References match the holders again when each segment loses as many as it
\* loses holders.
LEMMA RecountedHolders ==
    ASSUME TypeOK, RefsMatchHolders, NEW counts \in [Segments -> Nat], NEW D,
           Recounted(counts, D),
           \A g \in Segments : refcnt[g] - counts[g] = Holders(g) - Holders(g)'
    PROVE  RefsMatchHolders'
<1> SUFFICES ASSUME NEW g \in Segments
             PROVE  /\ Holders(g)' <= counts[g]
                    /\ g \notin reopened' => Holders(g)' = counts[g]
  BY DEF RefsMatchHolders, Recounted
<1>1. Holders(g) \in Nat
  BY HoldersFinite
<1>2. Holders(g)' \in Nat
  BY HoldersFiniteNext
<1>3. refcnt[g] \in Nat /\ counts[g] \in Nat
  BY DEF TypeOK
<1>4. Holders(g)' <= counts[g]
  BY <1>1, <1>2, <1>3 DEF RefsMatchHolders
<1>5. ASSUME g \notin reopened' PROVE Holders(g)' = counts[g]
  <2>1. g \notin reopened \/ counts[g] = 0
    BY <1>3, <1>5 DEF Recounted
  <2> QED
    BY <2>1, <1>1, <1>2, <1>3, <1>4 DEF RefsMatchHolders
<1> QED
  BY <1>4, <1>5

\* Closing the segments of S for s takes one holder from each of them.
LEMMA DroppedOpenedBy ==
    ASSUME TypeOK, NEW s, NEW S, Dropped(s, S), NEW g \in Segments
    PROVE  Cardinality(OpenedBy(g))' = Cardinality(OpenedBy(g)) - (IF g \in S THEN 1 ELSE 0)
<1>0. IsFiniteSet(OpenedBy(g)) /\ Cardinality(OpenedBy(g)) \in Nat
  BY HoldersFinite
<1>1. CASE g \in S
  <2>1. s \in Sessions /\ s \in OpenedBy(g)
    BY <1>1 DEF Dropped, OpenedBy
  <2>2. OpenedBy(g)' = OpenedBy(g) \ {s}
    BY <1>1, <2>1 DEF Dropped, OpenedBy
  <2> QED
    BY <1>0, <1>1, <2>1, <2>2, FS_RemoveElement
<1>2. CASE g \notin S
  <2>1. OpenedBy(g)' = OpenedBy(g)
    BY <1>2 DEF Dropped, OpenedBy
  <2> QED
    BY <1>0, <1>2, <2>1
<1> QED
  BY <1>1, <1>2

\* ... and each sign as many references as it has openings among them.
LEMMA DroppedSigns ==
    ASSUME TypeOK, SignRefsHeld, NEW s, NEW S, Dropped(s, S), signrefs' = UnrefSigns(S),
           \A g \in Segments : sign'[g] = sign[g] \/ sign'[g] = None
    PROVE  SignRefsHeld' /\ signrefs' \in [Signs -> Nat]
<1> SUFFICES ASSUME NEW q \in Signs
             PROVE  /\ Cardinality(OpenedWith(q))' <= signrefs'[q]
                    /\ signrefs'[q] \in Nat
  BY DEF SignRefsHeld, UnrefSigns
<1> DEFINE T == {g \in S : sign[g] = q}
<1>1. signrefs'[q] = signrefs[q] - Cardinality(T) /\ signrefs[q] \in Nat
  BY DEF UnrefSigns, TypeOK
<1>2. IsFiniteSet(T) /\ Cardinality(T) \in Nat
  BY FiniteObjects, FS_Subset, FS_CardinalityType DEF Dropped
<1>3. /\ IsFiniteSet(OpenedWith(q)) /\ Cardinality(OpenedWith(q)) \in Nat
      /\ Cardinality(OpenedWith(q)) <= signrefs[q]
  BY OpenedWithFinite DEF SignRefsHeld
<1>4. Cardinality(OpenedWith(q))' \in Nat
  BY OpenedWithFinite
<1>6. Cardinality({s} \X T) = Cardinality(T)
  BY <1>2, SameFirst, Zenon
<1>7. {s} \X T \subseteq OpenedWith(q)
  BY DEF OpenedWith, Dropped
<1>8. /\ IsFiniteSet(OpenedWith(q) \ ({s} \X T))
      /\ Cardinality(OpenedWith(q) \ ({s} \X T)) = Cardinality(OpenedWith(q)) - Cardinality(T)
  BY <1>3, <1>6, <1>7, TakenOut, Zenon
<1>9. OpenedWith(q)' \subseteq OpenedWith(q) \ ({s} \X T)
  <2> SUFFICES ASSUME NEW o \in OpenedWith(q)'
               PROVE  o \in OpenedWith(q) /\ o \notin {s} \X T
    OBVIOUS
  <2>1. o \in Sessions \X Segments /\ o[2] \in opened'[o[1]] /\ sign'[o[2]] = q
    BY DEF OpenedWith
  <2>2. sign[o[2]] = q
    BY <2>1, NoneIsApart
  <2>3. o[2] \in opened[o[1]] /\ (o[1] = s => o[2] \notin S)
    BY <2>1 DEF Dropped
  <2> QED
    BY <2>1, <2>2, <2>3 DEF OpenedWith
<1>10. Cardinality(OpenedWith(q))' <= Cardinality(OpenedWith(q)) - Cardinality(T)
  BY <1>8, <1>9, FS_Subset
<1> QED
  BY <1>1, <1>2, <1>3, <1>4, <1>10

\* An opened segment is held in the next state as well.
LEMMA OpenedHeldNext ==
    ASSUME NEW s \in Sessions, NEW g \in opened'[s]
    PROVE  Holders(g)' >= 1
<1>1. s \in OpenedBy(g)' /\ OpenedBy(g)' \in SUBSET Sessions
  BY DEF OpenedBy
<1>2. StandingAt(g)' \in SUBSET Iters /\ NamesOf(g)' \in SUBSET Uris
  BY DEF StandingAt, NamesOf
<1>3. IsFiniteSet(OpenedBy(g)') /\ IsFiniteSet(StandingAt(g)') /\ IsFiniteSet(NamesOf(g)')
  BY <1>1, <1>2, FiniteObjects, FS_Subset
<1>4. Cardinality(OpenedBy(g)') >= 1
  BY <1>1, <1>3, AtLeastOne
<1>5. /\ Cardinality(OpenedBy(g)') \in Nat
      /\ Cardinality(StandingAt(g)') \in Nat
      /\ Cardinality(NamesOf(g)') \in Nat
  BY <1>3, FS_CardinalityType
<1>6. Holders(g)' = Cardinality(OpenedBy(g)') + Cardinality(StandingAt(g)') + Cardinality(NamesOf(g)')
  BY DEF Holders, OpenedBy, StandingAt, NamesOf
<1> QED
  BY <1>4, <1>5, <1>6

\* Closing leaves the slots of what stays opened, which keeps its sign.
LEMMA DroppedMatch ==
    ASSUME IInv, NEW s, NEW S, Dropped(s, S), index' = index,
           RefsMatchHolders', refcnt' \in [Segments -> Nat],
           \A g \in Segments : sign'[g] = sign[g] \/ (sign'[g] = None /\ refcnt'[g] = 0),
           \A t \in Sessions : t \notin alive' => t \notin alive \/ opened'[t] = {}
    PROVE  OpenedMatch'
<1> USE DEF IInv
<1>1. ASSUME NEW t \in Sessions
      PROVE  opened'[t] \subseteq opened[t] /\ opened[t] \subseteq Segments
  BY DEF Dropped, TypeOK
<1>2. ASSUME NEW t \in Sessions
      PROVE  opened_segments'[t] = {index[g] : g \in opened'[t]}
  <2>1. opened_segments[t] = {index[g] : g \in opened[t]}
    BY DEF OpenedMatch
  <2>2. CASE t # s
    BY <2>1, <2>2 DEF Dropped
  <2>3. CASE t = s /\ S = {}
    BY <2>1, <2>3 DEF Dropped
  <2>4. CASE t = s /\ S \subseteq opened[t]
    <3>1. ASSUME NEW g \in opened[t], NEW h \in S, index[g] = index[h]
          PROVE  g = h
      <4>1. g \in Segments /\ h \in Segments /\ h \in opened[t]
        BY <1>1, <2>4
      <4>2. Exists(g) /\ Exists(h)
        BY <4>1, OpenedHeld, HeldExists
      <4> QED
        BY <3>1, <4>1, <4>2, SlotIsOne
    <3>2. opened_segments'[t] = opened_segments[t] \ {index[h] : h \in S} /\ opened'[t] = opened[t] \ S
      BY <2>4 DEF Dropped
    <3> QED
      BY <2>1, <2>4, <3>1, <3>2
  <2> QED
    BY <2>2, <2>3, <2>4 DEF Dropped
<1>3. ASSUME NEW t \in Sessions, t \notin alive'
      PROVE  opened'[t] = {}
  BY <1>1, <1>3 DEF OpenedMatch
<1>4. ASSUME NEW t \in Sessions, NEW g \in opened'[t]
      PROVE  sign'[g] # None
  <2>1. g \in Segments /\ sign[g] # None
    BY <1>1, <1>4 DEF OpenedMatch
  <2>2. Holders(g)' >= 1 /\ Holders(g)' \in Nat
    BY <1>4, OpenedHeldNext, HoldersFiniteNext
  <2>3. Holders(g)' <= refcnt'[g] /\ refcnt'[g] \in Nat
    BY <2>1 DEF RefsMatchHolders
  <2> QED
    BY <2>1, <2>2, <2>3
<1>5. opened_segments' \in [Sessions -> SUBSET Slots]
  BY DEF Dropped
<1> QED
  BY <1>2, <1>3, <1>4 DEF OpenedMatch

\* Names are left as they are while signs are kept or forgotten.
LEMMA NamesKept ==
    ASSUME TypeOK, NamesMatch, directory' = directory, idtf' = idtf,
           \A g \in Segments : sign'[g] = sign[g] \/ sign'[g] = None
    PROVE  NamesMatch'
<1> SUFFICES ASSUME NEW u \in Uris, directory[u] # None, sign'[directory[u]] # None
             PROVE  idtf[sign'[directory[u]]] = u
  BY DEF NamesMatch
<1>1. directory[u] \in Segments
  BY DEF TypeOK
<1>2. sign'[directory[u]] = sign[directory[u]]
  BY <1>1
<1> QED
  BY <1>2 DEF NamesMatch

LEMMA CountsOfUnrefAll ==
    ASSUME TypeOK, NEW S, \A g \in S : refcnt[g] >= 1
    PROVE  /\ UnrefAll(S) \in [Segments -> Nat]
           /\ \A g \in Segments : UnrefAll(S)[g] = refcnt[g] - (IF g \in S THEN 1 ELSE 0)
           /\ \A g \in Segments : UnrefAll(S)[g] <= refcnt[g]
BY DEF UnrefAll, TypeOK

\* close_segment and close: the segments of S are closed for the session s.
LEMMA ClosedInv ==
    ASSUME IInv, NEW s \in Sessions, NEW S, S \subseteq opened[s], Dropped(s, S),
           signrefs' = UnrefSigns(S), Recounted(UnrefAll(S), {}),
           alive' \subseteq alive, \A t \in alive : t \notin alive' => t = s /\ S = opened[s],
           UNCHANGED <<directory, index, idtf, system_segset, iter>>
    PROVE  IInv'
<1> USE DEF IInv
<1>1. \A g \in S : g \in Segments /\ refcnt[g] >= 1
  BY OpenedHeld, HeldExists DEF Exists, Dropped, TypeOK
<1>2. /\ UnrefAll(S) \in [Segments -> Nat]
      /\ \A g \in Segments : UnrefAll(S)[g] = refcnt[g] - (IF g \in S THEN 1 ELSE 0)
      /\ \A g \in Segments : UnrefAll(S)[g] <= refcnt[g]
  BY <1>1, CountsOfUnrefAll
<1>3. /\ SlotsMatch'
      /\ refcnt' \in [Segments -> Nat]
      /\ table' \in [Slots -> Segments \cup {None}]
      /\ sign' \in [Segments -> Signs \cup {None}]
      /\ reopened' \subseteq Segments
      /\ \A g \in Segments : sign'[g] = sign[g] \/ (sign'[g] = None /\ UnrefAll(S)[g] = 0)
  BY <1>2, RecountedSlots
<1>4. ASSUME NEW g \in Segments
      PROVE  refcnt[g] - UnrefAll(S)[g] = Holders(g) - Holders(g)'
  <2>1. Cardinality(OpenedBy(g))' = Cardinality(OpenedBy(g)) - (IF g \in S THEN 1 ELSE 0)
    BY DroppedOpenedBy
  <2>2. StandingAt(g)' = StandingAt(g) /\ NamesOf(g)' = NamesOf(g)
    BY DEF StandingAt, NamesOf
  <2>3. Holders(g)' = Cardinality(OpenedBy(g))' + Cardinality(StandingAt(g)) + Cardinality(NamesOf(g))
    BY <2>2 DEF Holders, OpenedBy, StandingAt, NamesOf
  <2>4. refcnt[g] \in Nat
    BY DEF TypeOK
  <2> QED
    BY <1>2, <2>1, <2>3, <2>4, HoldersFinite
<1>5. RefsMatchHolders'
  BY <1>2, <1>4, RecountedHolders
<1>6. \A g \in Segments : sign'[g] = sign[g] \/ (sign'[g] = None /\ refcnt'[g] = 0)
  BY <1>3 DEF Recounted
<1>7. OpenedMatch'
  <2>1. \A t \in Sessions : t \notin alive' => t \notin alive \/ opened'[t] = {}
    BY DEF Dropped
  <2> QED
    BY <1>3, <1>5, <1>6, <2>1, DroppedMatch
<1>8. SignRefsHeld' /\ signrefs' \in [Signs -> Nat]
  BY <1>6, DroppedSigns
<1>9. NamesMatch'
  BY <1>6, NamesKept
<1>10. TypeOK'
  BY <1>3, <1>8 DEF TypeOK, Dropped
<1> QED
  BY <1>3, <1>5, <1>7, <1>8, <1>9, <1>10

LEMMA CloseSegmentInv ==
    ASSUME IInv, NEW s \in Sessions, NEW g \in Segments, close_segment(s, g)
    PROVE  IInv'
<1> USE DEF IInv, close_segment
<1>1. g \in opened[s]
  BY BitMeansOpened
<1>2. Dropped(s, {g})
  BY <1>1 DEF Dropped, TypeOK
<1>3. /\ {g} \subseteq opened[s]
      /\ signrefs' = UnrefSigns({g}) /\ Recounted(UnrefAll({g}), {})
      /\ alive' = alive
      /\ UNCHANGED <<directory, index, idtf, system_segset, iter>>
  BY <1>1 DEF names
<1> QED
  BY <1>2, <1>3, ClosedInv

LEMMA CloseInv ==
    ASSUME IInv, NEW s \in Sessions, close(s)
    PROVE  IInv'
<1> USE DEF IInv, close
<1>1. AllSegments(s) = opened[s]
  BY AllSegmentsOpened
<1>2. Dropped(s, opened[s])
  BY DEF Dropped, TypeOK, OpenedMatch
<1>3. /\ signrefs' = UnrefSigns(opened[s]) /\ Recounted(UnrefAll(opened[s]), {})
      /\ alive' = alive \ {s}
      /\ UNCHANGED <<directory, index, idtf, system_segset, iter>>
  BY <1>1 DEF names
<1> QED
  BY <1>2, <1>3, ClosedInv

LEMMA DeleteIteratorInv ==
    ASSUME IInv, NEW k \in Iters, delete_iterator(k)
    PROVE  IInv'
<1> USE DEF IInv, delete_iterator
<1> DEFINE S == {iter[k]}
<1>0. iter[k] \in Segments /\ refcnt[iter[k]] >= 1
  BY StandingHeld, HeldExists DEF Exists, TypeOK
<1>1. \A g \in S : g \in Segments /\ refcnt[g] >= 1
  BY <1>0
<1>2. /\ UnrefAll(S) \in [Segments -> Nat]
      /\ \A g \in Segments : UnrefAll(S)[g] = refcnt[g] - (IF g \in S THEN 1 ELSE 0)
      /\ \A g \in Segments : UnrefAll(S)[g] <= refcnt[g]
  BY <1>1, CountsOfUnrefAll
<1>u. /\ Recounted(UnrefAll(S), {})
      /\ UNCHANGED <<directory, index, idtf, signrefs, alive, opened_segments, system_segset, opened>>
      /\ iter' = [iter EXCEPT ![k] = None]
  BY DEF names, sessions
<1>3. /\ SlotsMatch'
      /\ refcnt' \in [Segments -> Nat]
      /\ table' \in [Slots -> Segments \cup {None}]
      /\ sign' \in [Segments -> Signs \cup {None}]
      /\ reopened' \subseteq Segments
      /\ \A g \in Segments : sign'[g] = sign[g] \/ (sign'[g] = None /\ UnrefAll(S)[g] = 0)
  BY <1>2, <1>u, RecountedSlots
<1>4. ASSUME NEW g \in Segments
      PROVE  refcnt[g] - UnrefAll(S)[g] = Holders(g) - Holders(g)'
  <2>1. OpenedBy(g)' = OpenedBy(g) /\ NamesOf(g)' = NamesOf(g)
    BY <1>u DEF OpenedBy, NamesOf
  <2>2. Cardinality(StandingAt(g)') = Cardinality(StandingAt(g)) - (IF g \in S THEN 1 ELSE 0)
    <3>1. CASE g = iter[k]
      <4>1. k \in StandingAt(g) /\ StandingAt(g)' = StandingAt(g) \ {k}
        BY <3>1, <1>u, NoneIsApart DEF StandingAt, TypeOK
      <4> QED
        BY <3>1, <4>1, HoldersFinite, FS_RemoveElement
    <3>2. CASE g # iter[k]
      <4>1. StandingAt(g)' = StandingAt(g)
        BY <3>2, <1>u, NoneIsApart DEF StandingAt, TypeOK
      <4> QED
        BY <3>2, <4>1, HoldersFinite
    <3> QED
      BY <3>1, <3>2
  <2>3. Holders(g)' = Cardinality(OpenedBy(g)) + Cardinality(StandingAt(g)') + Cardinality(NamesOf(g))
    BY <2>1 DEF Holders, OpenedBy, StandingAt, NamesOf
  <2>4. refcnt[g] \in Nat
    BY DEF TypeOK
  <2>5. UnrefAll(S)[g] = refcnt[g] - (IF g \in S THEN 1 ELSE 0)
    BY <1>2
  <2> HIDE DEF S
  <2>6. Holders(g)' = Holders(g) - (IF g \in S THEN 1 ELSE 0)
    BY ONLY <2>2, <2>3, HoldersFinite
  <2> QED
    BY ONLY <2>4, <2>5, <2>6, HoldersFinite
<1>5. RefsMatchHolders'
  BY <1>2, <1>4, <1>u, RecountedHolders
<1>6. \A g \in Segments : sign'[g] = sign[g] \/ (sign'[g] = None /\ refcnt'[g] = 0)
  BY <1>3, <1>u DEF Recounted
<1>d. Dropped(None, {})
  BY <1>u DEF Dropped, TypeOK
<1>7. OpenedMatch'
  <2>1. \A t \in Sessions : t \notin alive' => t \notin alive \/ opened'[t] = {}
    BY <1>u
  <2> QED
    BY <1>3, <1>5, <1>6, <2>1, <1>d, <1>u, DroppedMatch
<1>8. SignRefsHeld' /\ signrefs' \in [Signs -> Nat]
  <2>1. signrefs' = UnrefSigns({})
    BY <1>u, FS_EmptySet DEF UnrefSigns, TypeOK
  <2> QED
    BY <1>6, <2>1, <1>d, DroppedSigns
<1>9. NamesMatch'
  BY <1>6, <1>u, NamesKept
<1>10. TypeOK'
  BY <1>3, <1>8, <1>u DEF TypeOK
<1> QED
  BY <1>3, <1>5, <1>7, <1>8, <1>9, <1>10

\* The name u is free in the next state: what is left names what it named, and
\* only signs with the name u lost theirs.
LEMMA UnlinkedNames ==
    ASSUME TypeOK, NamesMatch, NEW u \in Uris,
           directory' = [directory EXCEPT ![u] = None],
           NEW counts, idtf' = Erased(u, counts),
           \A g \in Segments : sign'[g] = sign[g] \/ sign'[g] = None
    PROVE  NamesMatch' /\ idtf' \in [Signs -> Uris \cup {None}]
<1>1. \A q \in Signs : idtf'[q] = idtf[q] \/ (idtf[q] = u /\ idtf'[q] = None)
  BY DEF Erased
<1>2. idtf' \in [Signs -> Uris \cup {None}]
  BY DEF Erased, TypeOK
<1>3. \A v \in Uris : directory'[v] # None => v # u /\ directory'[v] = directory[v]
  BY DEF TypeOK
<1>4. ASSUME NEW v \in Uris, NEW w \in Uris, directory'[v] # None, directory'[v] = directory'[w]
      PROVE  v = w
  BY <1>3, <1>4 DEF NamesMatch
<1>5. ASSUME NEW p \in Signs, NEW q \in Signs, idtf'[p] # None, idtf'[p] = idtf'[q]
      PROVE  p = q
  BY <1>1, <1>5 DEF NamesMatch
<1>6. ASSUME NEW v \in Uris, directory'[v] # None
      PROVE  /\ \E q \in Signs : idtf'[q] = v
             /\ sign'[directory'[v]] # None => idtf'[sign'[directory'[v]]] = v
  <2>1. v # u /\ directory'[v] = directory[v] /\ directory[v] \in Segments /\ directory[v] # None
    BY <1>3, <1>6 DEF TypeOK
  <2>2. PICK q \in Signs : idtf[q] = v
    BY <2>1 DEF NamesMatch
  <2>3. idtf'[q] = v
    BY <1>1, <2>1, <2>2
  <2>4. ASSUME sign'[directory[v]] # None
        PROVE  idtf'[sign'[directory[v]]] = v
    <3>1. sign'[directory[v]] = sign[directory[v]] /\ sign[directory[v]] \in Signs
      BY <2>1, <2>4 DEF TypeOK
    <3>2. idtf[sign[directory[v]]] = v
      BY <2>1, <2>4, <3>1 DEF NamesMatch
    <3> QED
      BY <1>1, <2>1, <3>1, <3>2
  <2> QED
    BY <2>1, <2>3, <2>4
<1> QED
  BY <1>2, <1>4, <1>5, <1>6 DEF NamesMatch

LEMMA UnlinkInv ==
    ASSUME IInv, NEW s \in Sessions \cup {None}, NEW u \in Uris, unlink(s, u)
    PROVE  IInv'
<1> USE DEF IInv
<1>g. directory[u] \in Segments /\ Exists(directory[u])
  BY NamedHeld, HeldExists DEF TypeOK, unlink
<1> PICK g \in Segments : g = directory[u]
  BY <1>g
<1> DEFINE own == IF s # None /\ is_segment_opened(s, g) THEN {g} ELSE {}
           counts == [UnrefAll(own) EXCEPT ![g] = @ - 1]
<1>u. /\ s = None \/ s \in alive
      /\ g # None
      /\ opened_segments' = [t \in Sessions |->
             IF t = s THEN opened_segments[t] \ {index[h] : h \in own} ELSE opened_segments[t]]
      /\ opened' = [t \in Sessions |-> IF t = s THEN opened[t] \ own ELSE opened[t]]
      /\ signrefs' = UnrefSigns(own)
      /\ idtf' = Erased(u, signrefs')
      /\ Recounted(counts, {g})
      /\ directory' = [directory EXCEPT ![u] = None]
      /\ UNCHANGED <<index, alive, system_segset, iter>>
  BY DEF unlink
<1>0. g \in Segments /\ Exists(g)
  BY <1>g
<1>1. own = {} \/ (own = {g} /\ s \in Sessions /\ g \in opened[s])
  <2>1. CASE s # None /\ is_segment_opened(s, g)
    <3>1. s \in Sessions
      BY <2>1
    <3> QED
      BY <2>1, <3>1, <1>0, BitMeansOpened
  <2>2. CASE ~(s # None /\ is_segment_opened(s, g))
    BY <2>2
  <2> QED
    BY <2>1, <2>2
<1>d. Dropped(s, own)
  BY <1>0, <1>1, <1>u DEF Dropped, TypeOK
<1> HIDE DEF own
<1>2. refcnt \in [Segments -> Nat]
  BY DEF TypeOK
<1>n. ASSUME NEW h \in Segments
      PROVE  Cardinality(NamesOf(h)') = Cardinality(NamesOf(h)) - (IF h = g THEN 1 ELSE 0)
  <2>1. CASE h = g
    <3>1. u \in NamesOf(h) /\ NamesOf(h)' = NamesOf(h) \ {u}
      BY <2>1, <1>u, NoneIsApart DEF NamesOf, TypeOK
    <3> QED
      BY <2>1, <3>1, HoldersFinite, FS_RemoveElement
  <2>2. CASE h # g
    <3>1. NamesOf(h)' = NamesOf(h)
      BY <2>2, <1>u, NoneIsApart DEF NamesOf, TypeOK
    <3> QED
      BY <2>2, <3>1, HoldersFinite
  <2> QED
    BY <2>1, <2>2
<1>3. ASSUME NEW h \in Segments
      PROVE  Holders(h)' = Holders(h) - (IF h \in own THEN 1 ELSE 0) - (IF h = g THEN 1 ELSE 0)
  <2>1. Cardinality(OpenedBy(h))' = Cardinality(OpenedBy(h)) - (IF h \in own THEN 1 ELSE 0)
    BY <1>d, DroppedOpenedBy
  <2>2. StandingAt(h)' = StandingAt(h)
    BY <1>u DEF StandingAt
  <2>3. Holders(h)' = Cardinality(OpenedBy(h))' + Cardinality(StandingAt(h)) + Cardinality(NamesOf(h)')
    BY <2>2 DEF Holders, OpenedBy, StandingAt, NamesOf
  <2>4. Cardinality(NamesOf(h)') = Cardinality(NamesOf(h)) - (IF h = g THEN 1 ELSE 0)
    BY <1>n
  <2> QED
    BY ONLY <2>1, <2>3, <2>4, HoldersFinite
<1>4. ASSUME NEW h \in Segments
      PROVE  counts[h] = refcnt[h] - (IF h \in own THEN 1 ELSE 0) - (IF h = g THEN 1 ELSE 0)
  BY <1>0, <1>2 DEF UnrefAll
<1>5. ASSUME NEW h \in Segments
      PROVE  /\ counts[h] \in Nat /\ counts[h] <= refcnt[h]
             /\ refcnt[h] - counts[h] = Holders(h) - Holders(h)'
  <2>1. Holders(h) \in Nat /\ Holders(h)' \in Nat /\ refcnt[h] \in Nat /\ Holders(h) <= refcnt[h]
    BY <1>2, HoldersFinite, HoldersFiniteNext DEF RefsMatchHolders
  <2> HIDE DEF counts
  <2> QED
    BY <1>3, <1>4, <2>1
<1>6. counts \in [Segments -> Nat]
  <2>1. counts = [h \in Segments |-> counts[h]]
    BY DEF UnrefAll
  <2> HIDE DEF counts
  <2> QED
    BY <1>5, <2>1
<1> HIDE DEF counts
<1>7. /\ SlotsMatch'
      /\ refcnt' \in [Segments -> Nat]
      /\ table' \in [Slots -> Segments \cup {None}]
      /\ sign' \in [Segments -> Signs \cup {None}]
      /\ reopened' \subseteq Segments
      /\ \A h \in Segments : sign'[h] = sign[h] \/ (sign'[h] = None /\ counts[h] = 0)
  BY <1>5, <1>6, <1>u, RecountedSlots
<1>8. RefsMatchHolders'
  BY <1>5, <1>6, <1>u, RecountedHolders
<1>9. \A h \in Segments : sign'[h] = sign[h] \/ (sign'[h] = None /\ refcnt'[h] = 0)
  BY <1>7, <1>u DEF Recounted
<1>10. OpenedMatch'
  <2>1. \A t \in Sessions : t \notin alive' => t \notin alive \/ opened'[t] = {}
    BY <1>u
  <2> QED
    BY <1>7, <1>8, <1>9, <2>1, <1>d, <1>u, DroppedMatch
<1>11. SignRefsHeld' /\ signrefs' \in [Signs -> Nat]
  BY <1>9, <1>d, <1>u, DroppedSigns
<1>12. NamesMatch' /\ idtf' \in [Signs -> Uris \cup {None}]
  BY <1>9, <1>u, UnlinkedNames
<1>13. directory' \in [Uris -> Segments \cup {None}]
  BY <1>u DEF TypeOK
<1>14. TypeOK'
  BY <1>7, <1>11, <1>12, <1>13, <1>d, <1>u DEF TypeOK, Dropped
<1> QED
  BY <1>7, <1>8, <1>10, <1>11, <1>12, <1>14

-----------------------------------------------------------------------------
(* Taking references.                                                      *)

LEMMA AddedOne ==
    ASSUME NEW S, NEW x, IsFiniteSet(S)
    PROVE  /\ IsFiniteSet(S \cup {x})
           /\ Cardinality(S \cup {x}) = Cardinality(S) + (IF x \in S THEN 0 ELSE 1)
BY FS_AddElement, FS_CardinalityType

\* The session s becomes a holder of g, unless it is one.
LEMMA OpenedOneBy ==
    ASSUME NEW s \in Sessions, NEW g \in Segments, NEW h \in Segments,
           \A t \in Sessions : opened'[t] = IF t = s THEN opened[t] \cup {g} ELSE opened[t]
    PROVE  Cardinality(OpenedBy(h)') =
               Cardinality(OpenedBy(h)) + (IF h = g /\ g \notin opened[s] THEN 1 ELSE 0)
<1>1. CASE h = g
  <2>1. OpenedBy(h)' = OpenedBy(h) \cup {s}
    BY <1>1 DEF OpenedBy
  <2>2. s \in OpenedBy(h) <=> g \in opened[s]
    BY <1>1 DEF OpenedBy
  <2> QED
    BY <1>1, <2>1, <2>2, HoldersFinite, AddedOne
<1>2. CASE h # g
  <2>1. OpenedBy(h)' = OpenedBy(h)
    BY <1>2 DEF OpenedBy
  <2> QED
    BY <1>2, <2>1, HoldersFinite
<1> QED
  BY <1>1, <1>2

\* The sign of g has a reference for the new opening.
LEMMA OpenedOneSign ==
    ASSUME SignRefsHeld, TypeOK, NEW s \in Sessions, NEW g \in Segments, NEW q \in Signs,
           \A t \in Sessions : g \in opened[t] => sign[g] = q,
           \A h \in Segments : sign'[h] = IF h = g THEN q ELSE sign[h],
           \A p \in Signs : signrefs'[p] = signrefs[p] + (IF p = q THEN 1 ELSE 0),
           \A t \in Sessions : opened'[t] = IF t = s THEN opened[t] \cup {g} ELSE opened[t]
    PROVE  SignRefsHeld'
<1> SUFFICES ASSUME NEW p \in Signs
             PROVE  Cardinality(OpenedWith(p)') <= signrefs'[p]
  BY DEF SignRefsHeld
<1>1. /\ IsFiniteSet(OpenedWith(p)) /\ Cardinality(OpenedWith(p)) \in Nat
      /\ Cardinality(OpenedWith(p)') \in Nat
      /\ Cardinality(OpenedWith(p)) <= signrefs[p] /\ signrefs[p] \in Nat
  BY OpenedWithFinite DEF SignRefsHeld, TypeOK
<1>2. ASSUME NEW o \in OpenedWith(p)'
      PROVE  o \in OpenedWith(p) \/ (p = q /\ o = <<s, g>>)
  <2>1. o \in Sessions \X Segments /\ o[2] \in opened'[o[1]] /\ sign'[o[2]] = p
    BY DEF OpenedWith
  <2>0. o[1] \in Sessions /\ o[2] \in Segments
    BY <2>1
  <2>2. CASE o[2] # g
    <3>1. o[2] \in opened[o[1]] /\ sign[o[2]] = p
      BY <2>0, <2>1, <2>2
    <3> QED
      BY <2>1, <3>1 DEF OpenedWith
  <2>3. CASE o[2] = g /\ o[1] # s
    <3>1. o[2] \in opened[o[1]]
      BY <2>0, <2>1, <2>3
    <3>2. sign[o[2]] = q /\ sign'[o[2]] = q
      BY <2>0, <2>3, <3>1
    <3> QED
      BY <2>1, <3>1, <3>2 DEF OpenedWith
  <2>4. CASE o[2] = g /\ o[1] = s
    <3>1. o = <<s, g>> /\ p = q
      BY <2>1, <2>4
    <3> QED
      BY <3>1
  <2> QED
    BY <2>2, <2>3, <2>4
<1>3. CASE p = q
  <2>1. OpenedWith(p)' \subseteq OpenedWith(p) \cup {<<s, g>>}
    BY <1>2
  <2>2. /\ IsFiniteSet(OpenedWith(p) \cup {<<s, g>>})
        /\ Cardinality(OpenedWith(p) \cup {<<s, g>>}) =
              Cardinality(OpenedWith(p)) + (IF <<s, g>> \in OpenedWith(p) THEN 0 ELSE 1)
    BY <1>1, AddedOne, Zenon
  <2>3. Cardinality(OpenedWith(p)') <= Cardinality(OpenedWith(p) \cup {<<s, g>>})
    BY <2>1, <2>2, FS_Subset
  <2> QED
    BY <1>1, <1>3, <2>2, <2>3
<1>4. CASE p # q
  <2>1. OpenedWith(p)' \subseteq OpenedWith(p)
    BY <1>2, <1>4
  <2>2. Cardinality(OpenedWith(p)') <= Cardinality(OpenedWith(p))
    BY <1>1, <2>1, FS_Subset
  <2> QED
    BY <1>1, <1>4, <2>2
<1> QED
  BY <1>3, <1>4

\* __open_segment, on a segment that exists or on a new one (counts and the names
\* then differ from what they were): the session holds the segment and its sign.
LEMMA OpenWithKeeps ==
    ASSUME IInv, NEW s \in Sessions, NEW g \in Segments, NEW i \in Slots, NEW q \in Signs,
           NEW counts \in [Segments -> Nat], OpenWith(s, g, i, q, counts), s \in alive,
           \A t \in Sessions : g \in opened[t] => sign[g] = q,
           \A h \in Segments :
               counts[h] - refcnt[h] = Cardinality(NamesOf(h)') - Cardinality(NamesOf(h)),
           index'[g] = i, \A t \in Sessions : \A h \in opened[t] : index'[h] = index[h]
    PROVE  /\ sign' \in [Segments -> Signs \cup {None}]
           /\ signrefs' \in [Signs -> Nat]
           /\ refcnt' \in [Segments -> Nat]
           /\ system_segset' \subseteq Slots
           /\ opened_segments' \in [Sessions -> SUBSET Slots]
           /\ opened' \in [Sessions -> SUBSET Segments]
           /\ reopened' \subseteq Segments
           /\ alive' = alive
           /\ iter' = iter
           /\ OpenedMatch'
           /\ RefsMatchHolders'
           /\ SignRefsHeld'
<1> USE DEF IInv
<1>1. /\ sign' \in [Segments -> Signs \cup {None}]
      /\ \A h \in Segments : sign'[h] = IF h = g THEN q ELSE sign[h]
  BY DEF OpenWith, TypeOK
<1>2. /\ signrefs' \in [Signs -> Nat]
      /\ \A p \in Signs : signrefs'[p] = signrefs[p] + (IF p = q THEN 1 ELSE 0)
  BY DEF OpenWith, SignRef, TypeOK
<1>3. /\ refcnt' \in [Segments -> Nat]
      /\ \A h \in Segments : refcnt'[h] = counts[h] + (IF h = g THEN 1 ELSE 0)
  BY DEF OpenWith
<1>4. /\ opened_segments' \in [Sessions -> SUBSET Slots]
      /\ \A t \in Sessions : opened_segments'[t] =
            IF t = s THEN opened_segments[t] \cup {i} ELSE opened_segments[t]
  BY DEF OpenWith, TypeOK
<1>5. /\ opened' \in [Sessions -> SUBSET Segments]
      /\ \A t \in Sessions : opened'[t] = IF t = s THEN opened[t] \cup {g} ELSE opened[t]
  BY DEF OpenWith, TypeOK
<1>6. /\ reopened' = IF g \in opened[s] THEN reopened \cup {g} ELSE reopened
      /\ reopened' \subseteq Segments
      /\ system_segset' \subseteq Slots
      /\ alive' = alive /\ iter' = iter
  BY DEF OpenWith, TypeOK
<1>7. OpenedMatch'
  <2>1. ASSUME NEW t \in Sessions
        PROVE  opened_segments'[t] = {index'[h] : h \in opened'[t]}
    <3>1. opened_segments[t] = {index'[h] : h \in opened[t]}
      BY DEF OpenedMatch
    <3>2. CASE t = s
      BY <1>4, <1>5, <3>1, <3>2
    <3>3. CASE t # s
      BY <1>4, <1>5, <3>1, <3>3
    <3> QED
      BY <3>2, <3>3
  <2>2. ASSUME NEW t \in Sessions, t \notin alive'
        PROVE  opened'[t] = {}
    BY <1>5, <1>6, <2>2 DEF OpenedMatch
  <2>3. ASSUME NEW t \in Sessions, NEW h \in opened'[t]
        PROVE  sign'[h] # None
    BY <1>1, <1>5, NoneIsApart DEF OpenedMatch, TypeOK
  <2> QED
    BY <2>1, <2>2, <2>3 DEF OpenedMatch
<1>8. RefsMatchHolders'
  <2> SUFFICES ASSUME NEW h \in Segments
               PROVE  /\ Holders(h)' <= refcnt'[h]
                      /\ h \notin reopened' => Holders(h)' = refcnt'[h]
    BY DEF RefsMatchHolders
  <2>1. Cardinality(OpenedBy(h)') = Cardinality(OpenedBy(h)) + (IF h = g /\ g \notin opened[s] THEN 1 ELSE 0)
    BY <1>5, OpenedOneBy
  <2>2. StandingAt(h)' = StandingAt(h)
    BY <1>6 DEF StandingAt
  <2>3. Holders(h)' = Cardinality(OpenedBy(h)') + Cardinality(StandingAt(h)) + Cardinality(NamesOf(h)')
    BY <2>2 DEF Holders, OpenedBy, StandingAt, NamesOf
  <2>n. Cardinality(NamesOf(h)') \in Nat
    <3>1. NamesOf(h)' \in SUBSET Uris
      BY DEF NamesOf
    <3> QED
      BY <3>1, FiniteObjects, FS_Subset, FS_CardinalityType
  <2>4. /\ refcnt[h] \in Nat /\ counts[h] \in Nat
        /\ counts[h] - refcnt[h] = Cardinality(NamesOf(h)') - Cardinality(NamesOf(h))
    BY DEF TypeOK
  <2>5. Holders(h)' = Holders(h) + (IF h = g /\ g \notin opened[s] THEN 1 ELSE 0) + (counts[h] - refcnt[h])
    BY ONLY <2>1, <2>3, <2>4, <2>n, HoldersFinite
  <2>6. /\ Holders(h) \in Nat /\ Holders(h) <= refcnt[h]
        /\ h \notin reopened => Holders(h) = refcnt[h]
    BY HoldersFinite DEF RefsMatchHolders
  <2> QED
    BY <1>3, <1>6, <2>4, <2>5, <2>6
<1>9. SignRefsHeld'
  BY <1>1, <1>2, <1>5, OpenedOneSign
<1> QED
  BY <1>1, <1>2, <1>3, <1>4, <1>5, <1>6, <1>7, <1>8, <1>9

\* open_segment and open_segment_spider: a segment in the repository is opened.
LEMMA OpenExistingInv ==
    ASSUME IInv, NEW s \in Sessions, NEW u \in Uris, NEW q \in Signs, s \in alive,
           directory[u] # None, Signed(u, directory[u], q),
           OpenWith(s, directory[u], index[directory[u]], q, refcnt),
           UNCHANGED <<directory, index, idtf, table>>
    PROVE  IInv'
<1> USE DEF IInv
<1>0. directory[u] \in Segments /\ Exists(directory[u])
  BY NamedHeld, HeldExists DEF TypeOK
<1>g. PICK g \in Segments : g = directory[u]
  BY <1>0
<1>i. PICK i \in Slots : i = index[g]
  BY DEF TypeOK
<1>c. PICK counts \in [Segments -> Nat] : counts = refcnt
  BY DEF TypeOK
<1>1. Exists(g) /\ OpenWith(s, g, i, q, counts)
  BY <1>0, <1>g, <1>i, <1>c
<1>3. sign[g] # None => sign[g] = q
  BY <1>g DEF Signed
<1>4. idtf[q] = u /\ q # None
  <2>1. CASE sign[g] # None
    BY <1>g, <1>3, <2>1, NoneIsApart DEF NamesMatch
  <2>2. CASE sign[g] = None
    BY <1>g, <2>2, NoneIsApart DEF Signed, SignOf
  <2> QED
    BY <2>1, <2>2
<1>2. /\ \A h \in Segments : sign'[h] = IF h = g THEN q ELSE sign[h]
      /\ \A h \in Segments : refcnt'[h] = refcnt[h] + (IF h = g THEN 1 ELSE 0)
  BY <1>1, <1>c DEF OpenWith, TypeOK
<1>5. /\ sign' \in [Segments -> Signs \cup {None}]
      /\ signrefs' \in [Signs -> Nat]
      /\ refcnt' \in [Segments -> Nat]
      /\ system_segset' \subseteq Slots
      /\ opened_segments' \in [Sessions -> SUBSET Slots]
      /\ opened' \in [Sessions -> SUBSET Segments]
      /\ reopened' \subseteq Segments
      /\ alive' = alive
      /\ iter' = iter
      /\ OpenedMatch'
      /\ RefsMatchHolders'
      /\ SignRefsHeld'
  <2>1. \A t \in Sessions : g \in opened[t] => sign[g] = q
    BY <1>3 DEF OpenedMatch
  <2>2. \A h \in Segments :
            counts[h] - refcnt[h] = Cardinality(NamesOf(h)') - Cardinality(NamesOf(h))
    <3> SUFFICES ASSUME NEW h \in Segments
                 PROVE  counts[h] - refcnt[h] = Cardinality(NamesOf(h)') - Cardinality(NamesOf(h))
      OBVIOUS
    <3>1. NamesOf(h)' = NamesOf(h)
      BY DEF NamesOf
    <3>2. Cardinality(NamesOf(h)) \in Nat /\ refcnt[h] \in Nat
      BY HoldersFinite DEF TypeOK
    <3> QED
      BY <1>c, <3>1, <3>2
  <2>3. index'[g] = i /\ \A t \in Sessions : \A h \in opened[t] : index'[h] = index[h]
    BY <1>i
  <2> QED
    BY <1>1, <2>1, <2>2, <2>3, OpenWithKeeps
<1>6. TypeOK'
  BY <1>5 DEF TypeOK
<1>7. SlotsMatch'
  <2>1. \A h \in Segments : refcnt'[h] > 0 <=> refcnt[h] > 0
    BY <1>1, <1>2 DEF Exists, TypeOK
  <2> QED
    BY <2>1 DEF SlotsMatch, Exists, TypeOK
<1>8. NamesMatch'
  <2>1. ASSUME NEW v \in Uris, directory[v] # None
        PROVE  sign'[directory[v]] # None => idtf[sign'[directory[v]]] = v
    <3>1. directory[v] \in Segments
      BY <2>1 DEF TypeOK
    <3>2. CASE directory[v] = g
      <4>1. v = u
        BY <1>g, <2>1, <3>2 DEF NamesMatch
      <4> QED
        BY <1>2, <1>4, <3>1, <3>2, <4>1
    <3>3. CASE directory[v] # g
      BY <1>2, <2>1, <3>1, <3>3 DEF NamesMatch
    <3> QED
      BY <3>2, <3>3
  <2> QED
    BY <2>1 DEF NamesMatch
<1> QED
  BY <1>5, <1>6, <1>7, <1>8

LEMMA OpenSegmentInv ==
    ASSUME IInv, NEW s \in Sessions, NEW u \in Uris,
           open_segment(s, u) \/ open_segment_spider(s, u)
    PROVE  IInv'
<1>1. /\ s \in alive /\ directory[u] # None
      /\ UNCHANGED <<directory, index, idtf, table>>
      /\ \E q \in Signs : /\ Signed(u, directory[u], q)
                          /\ OpenWith(s, directory[u], index[directory[u]], q, refcnt)
  BY DEF open_segment, open_segment_spider
<1>2. PICK q \in Signs : /\ Signed(u, directory[u], q)
                         /\ OpenWith(s, directory[u], index[directory[u]], q, refcnt)
  BY <1>1
<1> QED
  BY <1>1, <1>2, OpenExistingInv

\* create_segment: what nobody holds gets a name, a slot that is free, and a sign
\* that no other name has.
LEMMA CreateSegmentInv ==
    ASSUME IInv, NEW s \in Sessions, NEW u \in Uris, create_segment(s, u)
    PROVE  IInv'
<1> USE DEF IInv
<1>1. PICK g \in Segments, i \in Slots, q \in Signs :
        /\ ~Exists(g) /\ table[i] = None
        /\ IF SignOf(u, idtf) # {} THEN idtf[q] = u ELSE q \in Unused
        /\ directory' = [directory EXCEPT ![u] = g]
        /\ index' = [index EXCEPT ![g] = i]
        /\ table' = [table EXCEPT ![i] = g]
        /\ idtf' = [idtf EXCEPT ![q] = u]
        /\ OpenWith(s, g, i, q, [refcnt EXCEPT ![g] = 1])
  BY DEF create_segment
<1>2. s \in alive /\ directory[u] = None
  BY DEF create_segment
<1>c. PICK counts \in [Segments -> Nat] : counts = [refcnt EXCEPT ![g] = 1]
  BY DEF TypeOK
<1>3. OpenWith(s, g, i, q, counts)
  BY <1>1, <1>c
<1>4. refcnt[g] = 0 /\ refcnt \in [Segments -> Nat]
  BY <1>1 DEF Exists, TypeOK
<1>5. \A t \in Sessions : g \notin opened[t]
  BY <1>1, OpenedHeld, HeldExists
<1>6. \A v \in Uris : directory[v] # g
  BY <1>1, NamedHeld, HeldExists
<1>q. idtf[q] = u \/ (idtf[q] = None /\ \A p \in Signs : idtf[p] # u)
  BY <1>1 DEF SignOf, Unused
<1>s. /\ \A h \in Segments : sign'[h] = IF h = g THEN q ELSE sign[h]
      /\ \A h \in Segments : refcnt'[h] = counts[h] + (IF h = g THEN 1 ELSE 0)
  BY <1>3 DEF OpenWith, TypeOK
<1>7. /\ sign' \in [Segments -> Signs \cup {None}]
      /\ signrefs' \in [Signs -> Nat]
      /\ refcnt' \in [Segments -> Nat]
      /\ system_segset' \subseteq Slots
      /\ opened_segments' \in [Sessions -> SUBSET Slots]
      /\ opened' \in [Sessions -> SUBSET Segments]
      /\ reopened' \subseteq Segments
      /\ alive' = alive
      /\ iter' = iter
      /\ OpenedMatch'
      /\ RefsMatchHolders'
      /\ SignRefsHeld'
  <2>1. \A t \in Sessions : g \in opened[t] => sign[g] = q
    BY <1>5
  <2>2. ASSUME NEW h \in Segments
        PROVE  counts[h] - refcnt[h] = Cardinality(NamesOf(h)') - Cardinality(NamesOf(h))
    <3>1. CASE h = g
      <4>1. NamesOf(h) = {} /\ NamesOf(h)' = {u}
        BY <1>1, <1>6, <3>1 DEF NamesOf, TypeOK
      <4>2. Cardinality(NamesOf(h)) = 0 /\ Cardinality(NamesOf(h)') = 1
        BY <4>1, FS_EmptySet, FS_Singleton
      <4> QED
        BY <1>4, <1>c, <3>1, <4>2
    <3>2. CASE h # g
      <4>1. NamesOf(h)' = NamesOf(h)
        BY <1>1, <1>2, <3>2, NoneIsApart DEF NamesOf, TypeOK
      <4>2. Cardinality(NamesOf(h)) \in Nat /\ counts[h] = refcnt[h] /\ refcnt[h] \in Nat
        BY <1>4, <1>c, <3>2, HoldersFinite
      <4> QED
        BY <4>1, <4>2
    <3> QED
      BY <3>1, <3>2
  <2>3. index'[g] = i /\ \A t \in Sessions : \A h \in opened[t] : index'[h] = index[h]
    BY <1>1, <1>5 DEF TypeOK
  <2> QED
    BY <1>2, <1>3, <2>1, <2>2, <2>3, OpenWithKeeps
<1>8. TypeOK'
  BY <1>1, <1>7 DEF TypeOK
<1>9. SlotsMatch'
  <2>1. ASSUME NEW h \in Segments, refcnt'[h] > 0
        PROVE  table'[index'[h]] = h
    <3>1. CASE h = g
      BY <1>1, <3>1 DEF TypeOK
    <3>2. CASE h # g
      <4>1. Exists(h) /\ index'[h] = index[h] /\ index[h] \in Slots
        BY <1>1, <1>c, <1>s, <2>1, <3>2 DEF Exists, TypeOK
      <4>2. table[index[h]] = h /\ h # None
        BY <4>1, NoneIsApart DEF SlotsMatch
      <4> QED
        BY <1>1, <4>1, <4>2 DEF TypeOK
    <3> QED
      BY <3>1, <3>2
  <2>2. ASSUME NEW j \in Slots, table'[j] # None
        PROVE  refcnt'[table'[j]] > 0 /\ index'[table'[j]] = j
    <3>1. CASE j = i
      BY <1>1, <1>c, <1>s, <3>1 DEF TypeOK
    <3>2. CASE j # i
      <4>1. table'[j] = table[j] /\ table[j] \in Segments
        BY <1>1, <2>2, <3>2 DEF TypeOK
      <4>2. Exists(table[j]) /\ index[table[j]] = j
        BY <2>2, <4>1 DEF SlotsMatch
      <4>3. table[j] # g
        BY <1>1, <4>2
      <4>4. refcnt'[table[j]] = refcnt[table[j]] /\ index'[table[j]] = index[table[j]]
        BY <1>1, <1>4, <1>c, <1>s, <4>1, <4>3 DEF TypeOK
      <4> QED
        BY <4>1, <4>2, <4>4 DEF Exists
    <3> QED
      BY <3>1, <3>2
  <2> QED
    BY <2>1, <2>2 DEF SlotsMatch, Exists
<1>10. NamesMatch'
  <2>1. ASSUME NEW v \in Uris, NEW w \in Uris, directory'[v] # None, directory'[v] = directory'[w]
        PROVE  v = w
    BY <1>1, <1>6, <2>1 DEF NamesMatch, TypeOK
  <2>2. ASSUME NEW p \in Signs, NEW r \in Signs, idtf'[p] # None, idtf'[p] = idtf'[r]
        PROVE  p = r
    BY <1>1, <1>q, <2>2, NoneIsApart DEF NamesMatch, TypeOK
  <2>3. ASSUME NEW v \in Uris, directory'[v] # None
        PROVE  /\ \E p \in Signs : idtf'[p] = v
               /\ sign'[directory'[v]] # None => idtf'[sign'[directory'[v]]] = v
    <3>1. CASE v = u
      <4>1. directory'[v] = g /\ sign'[g] = q /\ idtf'[q] = v
        BY <1>1, <1>s, <3>1 DEF TypeOK
      <4> QED
        BY <4>1
    <3>2. CASE v # u
      <4>1. directory'[v] = directory[v] /\ directory[v] \in Segments /\ directory[v] # None
        BY <1>1, <2>3, <3>2 DEF TypeOK
      <4>2. sign'[directory[v]] = sign[directory[v]]
        BY <1>6, <1>s, <4>1
      <4>3. \A p \in Signs : idtf[p] = v => idtf'[p] = v
        BY <1>1, <1>q, <3>2, NoneIsApart DEF TypeOK
      <4>4. PICK p \in Signs : idtf[p] = v
        BY <4>1 DEF NamesMatch
      <4>5. ASSUME sign[directory[v]] # None
            PROVE  idtf'[sign[directory[v]]] = v
        <5>1. sign[directory[v]] \in Signs
          BY <4>1, <4>5 DEF TypeOK
        <5>2. idtf[sign[directory[v]]] = v
          BY <4>1, <4>5 DEF NamesMatch
        <5> QED
          BY <4>3, <5>1, <5>2
      <4> QED
        BY <4>1, <4>2, <4>3, <4>4, <4>5
    <3> QED
      BY <3>1, <3>2
  <2> QED
    BY <2>1, <2>2, <2>3 DEF NamesMatch
<1> QED
  BY <1>7, <1>8, <1>9, <1>10

LEMMA CreateIteratorInv ==
    ASSUME IInv, NEW s \in Sessions, NEW k \in Iters, NEW g \in Segments, create_iterator(s, k, g)
    PROVE  IInv'
<1> USE DEF IInv, create_iterator
<1>u. /\ UNCHANGED <<directory, index, idtf, sign, table, signrefs, alive, opened_segments,
                     system_segset, opened, reopened>>
      /\ iter' = [iter EXCEPT ![k] = g] /\ iter[k] = None /\ Exists(g)
      /\ refcnt' = [refcnt EXCEPT ![g] = @ + 1]
  BY DEF names, sessions
<1>1. TypeOK'
  BY <1>u DEF TypeOK
<1>2. \A h \in Segments : refcnt'[h] = refcnt[h] + (IF h = g THEN 1 ELSE 0) /\ refcnt[h] \in Nat
  BY <1>u DEF TypeOK
<1>3. SlotsMatch'
  <2>1. \A h \in Segments : refcnt'[h] > 0 <=> refcnt[h] > 0
    BY <1>2, <1>u DEF Exists
  <2> QED
    BY <2>1, <1>u DEF SlotsMatch, Exists, TypeOK
<1>4. OpenedMatch' /\ NamesMatch'
  BY <1>u DEF OpenedMatch, NamesMatch
<1>5. SignRefsHeld'
  <2>1. ASSUME NEW q \in Signs PROVE OpenedWith(q)' = OpenedWith(q)
    BY <1>u DEF OpenedWith
  <2> QED
    BY <1>u, <2>1 DEF SignRefsHeld
<1>6. RefsMatchHolders'
  <2> SUFFICES ASSUME NEW h \in Segments
               PROVE  /\ Holders(h)' <= refcnt'[h]
                      /\ h \notin reopened' => Holders(h)' = refcnt'[h]
    BY DEF RefsMatchHolders
  <2>1. OpenedBy(h)' = OpenedBy(h) /\ NamesOf(h)' = NamesOf(h)
    BY <1>u DEF OpenedBy, NamesOf
  <2>2. Cardinality(StandingAt(h)') = Cardinality(StandingAt(h)) + (IF h = g THEN 1 ELSE 0)
    <3>1. CASE h = g
      <4>1. k \notin StandingAt(h) /\ StandingAt(h)' = StandingAt(h) \cup {k}
        BY <1>u, <3>1, NoneIsApart DEF StandingAt, TypeOK
      <4> QED
        BY <3>1, <4>1, HoldersFinite, AddedOne
    <3>2. CASE h # g
      <4>1. StandingAt(h)' = StandingAt(h)
        BY <1>u, <3>2, NoneIsApart DEF StandingAt, TypeOK
      <4> QED
        BY <3>2, <4>1, HoldersFinite
    <3> QED
      BY <3>1, <3>2
  <2>3. Holders(h)' = Cardinality(OpenedBy(h)) + Cardinality(StandingAt(h)') + Cardinality(NamesOf(h))
    BY <2>1 DEF Holders, OpenedBy, StandingAt, NamesOf
  <2>4. Holders(h)' = Holders(h) + (IF h = g THEN 1 ELSE 0)
    BY ONLY <2>2, <2>3, HoldersFinite
  <2>5. /\ Holders(h) \in Nat /\ Holders(h) <= refcnt[h]
        /\ h \notin reopened => Holders(h) = refcnt[h]
    BY HoldersFinite DEF RefsMatchHolders
  <2> QED
    BY <1>2, <1>u, <2>4, <2>5
<1> QED
  BY <1>1, <1>3, <1>4, <1>5, <1>6

\* fork: the new session holds what the old one has opened.
LEMMA ForkInv ==
    ASSUME IInv, NEW s \in Sessions, NEW new \in Sessions, fork(s, new)
    PROVE  IInv'
<1> USE DEF IInv
<1>0. new \notin alive /\ s \in alive /\ s # new /\ opened[new] = {}
  BY DEF fork, OpenedMatch
<1>S. PICK S \in SUBSET Segments : S = opened[s]
  BY DEF TypeOK
<1>1. AllSegments(s) = S
  BY <1>S, AllSegmentsOpened
<1>2. /\ signrefs' = [q \in Signs |-> signrefs[q] + 2 * Cardinality({g \in S : sign[g] = q})]
      /\ refcnt' = ForkCounts(S)
      /\ opened' = [opened EXCEPT ![new] = S]
      /\ alive' = alive \cup {new}
      /\ opened_segments' = [opened_segments EXCEPT ![new] = opened_segments[s]]
      /\ system_segset' = system_segset \cup opened_segments[s]
      /\ UNCHANGED <<directory, index, idtf, sign, table, reopened, iter>>
  BY <1>1 DEF fork, names
<1>3. /\ \A h \in Segments : refcnt'[h] = refcnt[h] + (IF h \in S THEN 1 ELSE 0) /\ refcnt[h] \in Nat
      /\ refcnt' \in [Segments -> Nat]
  BY <1>2 DEF ForkCounts, TypeOK
<1>4. /\ \A t \in Sessions : opened'[t] = IF t = new THEN S ELSE opened[t]
      /\ opened' \in [Sessions -> SUBSET Segments]
  BY <1>2 DEF TypeOK
<1>5. \A h \in S : h \in Segments /\ Exists(h)
  BY <1>S, OpenedHeld, HeldExists
<1>6. ASSUME NEW q \in Signs
      PROVE  /\ Cardinality({g \in S : sign[g] = q}) \in Nat
             /\ IsFiniteSet({g \in S : sign[g] = q})
             /\ signrefs'[q] = signrefs[q] + 2 * Cardinality({g \in S : sign[g] = q})
             /\ signrefs'[q] \in Nat
  <2>1. IsFiniteSet({g \in S : sign[g] = q})
    BY FiniteObjects, FS_Subset
  <2>2. Cardinality({g \in S : sign[g] = q}) \in Nat
    BY <2>1, FS_CardinalityType
  <2>3. signrefs'[q] = signrefs[q] + 2 * Cardinality({g \in S : sign[g] = q}) /\ signrefs[q] \in Nat
    BY <1>2 DEF TypeOK
  <2> QED
    BY <2>1, <2>2, <2>3
<1>7. TypeOK'
  <2>1. signrefs' \in [Signs -> Nat]
    BY <1>2, <1>6
  <2>2. opened_segments' \in [Sessions -> SUBSET Slots] /\ system_segset' \subseteq Slots
    BY <1>2 DEF TypeOK
  <2>3. alive' \subseteq Sessions
    BY <1>2 DEF TypeOK
  <2> QED
    BY <1>2, <1>3, <1>4, <2>1, <2>2, <2>3 DEF TypeOK
<1>8. SlotsMatch'
  <2>1. \A h \in Segments : refcnt'[h] > 0 <=> refcnt[h] > 0
    BY <1>3, <1>5 DEF Exists
  <2> QED
    BY <1>2, <2>1 DEF SlotsMatch, Exists, TypeOK
<1>9. OpenedMatch'
  <2>1. ASSUME NEW t \in Sessions
        PROVE  opened_segments'[t] = {index[h] : h \in opened'[t]}
    BY <1>0, <1>2, <1>4, <1>S DEF OpenedMatch, TypeOK
  <2>2. ASSUME NEW t \in Sessions, t \notin alive'
        PROVE  opened'[t] = {}
    BY <1>2, <1>4, <2>2 DEF OpenedMatch
  <2>3. ASSUME NEW t \in Sessions, NEW h \in opened'[t]
        PROVE  sign[h] # None
    BY <1>4, <1>S DEF OpenedMatch
  <2> QED
    BY <1>2, <2>1, <2>2, <2>3 DEF OpenedMatch
<1>10. NamesMatch'
  BY <1>2 DEF NamesMatch
<1>11. RefsMatchHolders'
  <2> SUFFICES ASSUME NEW h \in Segments
               PROVE  /\ Holders(h)' <= refcnt'[h]
                      /\ h \notin reopened' => Holders(h)' = refcnt'[h]
    BY DEF RefsMatchHolders
  <2>1. StandingAt(h)' = StandingAt(h) /\ NamesOf(h)' = NamesOf(h)
    BY <1>2 DEF StandingAt, NamesOf
  <2>2. Cardinality(OpenedBy(h)') = Cardinality(OpenedBy(h)) + (IF h \in S THEN 1 ELSE 0)
    <3>1. new \notin OpenedBy(h)
      BY <1>0 DEF OpenedBy
    <3>2. CASE h \in S
      <4>1. OpenedBy(h)' = OpenedBy(h) \cup {new}
        BY <1>4, <3>2 DEF OpenedBy
      <4> QED
        BY <3>1, <3>2, <4>1, HoldersFinite, AddedOne
    <3>3. CASE h \notin S
      <4>1. OpenedBy(h)' = OpenedBy(h)
        BY <1>0, <1>4, <3>3 DEF OpenedBy
      <4> QED
        BY <3>3, <4>1, HoldersFinite
    <3> QED
      BY <3>2, <3>3
  <2>3. Holders(h)' = Cardinality(OpenedBy(h)') + Cardinality(StandingAt(h)) + Cardinality(NamesOf(h))
    BY <2>1 DEF Holders, OpenedBy, StandingAt, NamesOf
  <2>4. Holders(h)' = Holders(h) + (IF h \in S THEN 1 ELSE 0)
    BY ONLY <2>2, <2>3, HoldersFinite
  <2>5. /\ Holders(h) \in Nat /\ Holders(h) <= refcnt[h]
        /\ h \notin reopened => Holders(h) = refcnt[h]
    BY HoldersFinite DEF RefsMatchHolders
  <2> QED
    BY <1>2, <1>3, <2>4, <2>5
<1>12. SignRefsHeld'
  <2> SUFFICES ASSUME NEW q \in Signs
               PROVE  Cardinality(OpenedWith(q)') <= signrefs'[q]
    BY DEF SignRefsHeld
  <2>T. PICK T \in SUBSET S : T = {g \in S : sign[g] = q}
    OBVIOUS
  <2>1. /\ IsFiniteSet(T) /\ Cardinality(T) \in Nat
        /\ signrefs'[q] = signrefs[q] + 2 * Cardinality(T)
    BY <1>6, <2>T
  <2>2. IsFiniteSet({new} \X T) /\ Cardinality({new} \X T) = Cardinality(T)
    BY <2>1, SameFirst, Zenon
  <2>3. OpenedWith(q)' \subseteq OpenedWith(q) \cup ({new} \X T)
    <3> SUFFICES ASSUME NEW o \in OpenedWith(q)', o \notin {new} \X T
                 PROVE  o \in OpenedWith(q)
      OBVIOUS
    <3>1. o \in Sessions \X Segments /\ o[2] \in opened'[o[1]] /\ sign[o[2]] = q
      BY <1>2 DEF OpenedWith
    <3>2. o[1] # new
      BY <1>4, <2>T, <3>1
    <3> QED
      BY <1>4, <3>1, <3>2 DEF OpenedWith
  <2>4. /\ IsFiniteSet(OpenedWith(q) \cup ({new} \X T))
        /\ Cardinality(OpenedWith(q) \cup ({new} \X T)) <= Cardinality(OpenedWith(q)) + Cardinality(T)
    <3>1. /\ IsFiniteSet(OpenedWith(q) \cup ({new} \X T))
          /\ Cardinality(OpenedWith(q) \cup ({new} \X T)) =
                Cardinality(OpenedWith(q)) + Cardinality({new} \X T)
                - Cardinality(OpenedWith(q) \cap ({new} \X T))
      BY <2>2, OpenedWithFinite, FS_Union, Zenon
    <3>2. IsFiniteSet(OpenedWith(q) \cap ({new} \X T))
      BY OpenedWithFinite, FS_Intersection, Zenon
    <3>3. Cardinality(OpenedWith(q) \cap ({new} \X T)) \in Nat
      BY <3>2, FS_CardinalityType
    <3> QED
      BY <2>1, <2>2, <3>1, <3>3, OpenedWithFinite
  <2>5. Cardinality(OpenedWith(q)') <= Cardinality(OpenedWith(q) \cup ({new} \X T))
    BY <2>3, <2>4, FS_Subset, Zenon
  <2>6. /\ Cardinality(OpenedWith(q)) <= signrefs[q] /\ signrefs[q] \in Nat
        /\ Cardinality(OpenedWith(q)) \in Nat /\ Cardinality(OpenedWith(q)') \in Nat
    BY OpenedWithFinite DEF SignRefsHeld, TypeOK
  <2>7. Cardinality(OpenedWith(q) \cup ({new} \X T)) \in Nat
    BY <2>4, FS_CardinalityType
  <2> QED
    BY <2>1, <2>4, <2>5, <2>6, <2>7
<1> QED
  BY <1>7, <1>8, <1>9, <1>10, <1>11, <1>12

\* A step that changes nothing but who is logged in.
LEMMA LoginInv ==
    ASSUME IInv, NEW s \in Sessions, libsc_login(s)
    PROVE  IInv'
<1> USE DEF IInv, libsc_login
<1>u. /\ UNCHANGED <<directory, index, idtf, refcnt, sign, table, signrefs, opened_segments,
                     system_segset, opened, reopened, iter>>
      /\ alive' = alive \cup {s}
  BY DEF names
<1>1. TypeOK' /\ SlotsMatch' /\ OpenedMatch' /\ NamesMatch'
  BY <1>u DEF TypeOK, SlotsMatch, OpenedMatch, NamesMatch, Exists
<1>2. RefsMatchHolders'
  BY <1>u DEF RefsMatchHolders, Holders
<1>3. SignRefsHeld'
  <2>1. ASSUME NEW q \in Signs PROVE OpenedWith(q)' = OpenedWith(q)
    BY <1>u DEF OpenedWith
  <2> QED
    BY <1>u, <2>1 DEF SignRefsHeld
<1> QED
  BY <1>1, <1>2, <1>3

LEMMA StutterInv ==
    ASSUME IInv, UNCHANGED vars
    PROVE  IInv'
<1>u. UNCHANGED <<directory, index, idtf, refcnt, sign, table, signrefs, alive, opened_segments,
                  system_segset, opened, reopened, iter>>
  BY DEF vars, names, sessions
<1>1. TypeOK' /\ SlotsMatch' /\ OpenedMatch' /\ NamesMatch'
  BY <1>u DEF IInv, TypeOK, SlotsMatch, OpenedMatch, NamesMatch, Exists
<1>2. RefsMatchHolders'
  BY <1>u DEF IInv, RefsMatchHolders, Holders
<1>3. SignRefsHeld'
  <2>1. ASSUME NEW q \in Signs PROVE OpenedWith(q)' = OpenedWith(q)
    BY <1>u DEF OpenedWith
  <2> QED
    BY <1>u, <2>1 DEF IInv, SignRefsHeld
<1> QED
  BY <1>1, <1>2, <1>3 DEF IInv

-----------------------------------------------------------------------------
(* The theorems.                                                           *)

LEMMA InitInv == Init => IInv
<1> SUFFICES ASSUME Init PROVE IInv
  OBVIOUS
<1>1. TypeOK
  BY SomeSlot DEF Init, TypeOK
<1>2. SlotsMatch /\ OpenedMatch /\ NamesMatch
  BY NoneIsApart DEF Init, SlotsMatch, OpenedMatch, NamesMatch, Exists
<1>3. RefsMatchHolders
  <2> SUFFICES ASSUME NEW g \in Segments PROVE Holders(g) = 0 /\ refcnt[g] = 0
    BY DEF RefsMatchHolders
  <2>1. OpenedBy(g) = {} /\ StandingAt(g) = {} /\ NamesOf(g) = {}
    BY NoneIsApart DEF Init, OpenedBy, StandingAt, NamesOf
  <2> QED
    BY <2>1, HoldersFinite, FS_EmptySet DEF Init
<1>4. SignRefsHeld
  <2> SUFFICES ASSUME NEW q \in Signs PROVE Cardinality(OpenedWith(q)) = 0 /\ signrefs[q] = 0
    BY DEF SignRefsHeld
  <2>1. OpenedWith(q) = {}
    BY DEF Init, OpenedWith
  <2> QED
    BY <2>1, FS_EmptySet DEF Init
<1> QED
  BY <1>1, <1>2, <1>3, <1>4 DEF IInv

LEMMA NextInv == IInv /\ [Next]_vars => IInv'
<1> SUFFICES ASSUME IInv, [Next]_vars PROVE IInv'
  OBVIOUS
<1>1. CASE UNCHANGED vars
  BY <1>1, StutterInv
<1>2. ASSUME NEW s \in Sessions, libsc_login(s) PROVE IInv'
  BY <1>2, LoginInv
<1>3. ASSUME NEW s \in Sessions, close(s) PROVE IInv'
  BY <1>3, CloseInv
<1>4. ASSUME NEW s \in Sessions, NEW new \in Sessions, fork(s, new) PROVE IInv'
  BY <1>4, ForkInv
<1>5. ASSUME NEW s \in Sessions, NEW u \in Uris, create_segment(s, u) PROVE IInv'
  BY <1>5, CreateSegmentInv
<1>6. ASSUME NEW s \in Sessions, NEW u \in Uris, open_segment(s, u) \/ open_segment_spider(s, u)
      PROVE  IInv'
  BY <1>6, OpenSegmentInv
<1>7. ASSUME NEW s \in Sessions, NEW g \in Segments, close_segment(s, g) PROVE IInv'
  BY <1>7, CloseSegmentInv
<1>8. ASSUME NEW s \in Sessions, NEW k \in Iters, NEW g \in Segments, create_iterator(s, k, g)
      PROVE  IInv'
  BY <1>8, CreateIteratorInv
<1>9. ASSUME NEW s \in Sessions \cup {None}, NEW u \in Uris, unlink(s, u) PROVE IInv'
  BY <1>9, UnlinkInv
<1>10. ASSUME NEW k \in Iters, delete_iterator(k) PROVE IInv'
  BY <1>10, DeleteIteratorInv
<1> QED
  BY <1>1, <1>2, <1>3, <1>4, <1>5, <1>6, <1>7, <1>8, <1>9, <1>10 DEF Next

LEMMA Invariance == Spec => []IInv
BY InitInv, NextInv, PTL DEF Spec

\* The slots of a session always stand for the segments that it has opened and
\* not closed: whatever is unlinked, closed or created by others, no bit of its
\* segment_set denotes a segment it has not opened, and none denotes nothing.
THEOREM SlotsDenoteWhatIsOpened == Spec => []BitsDenoteOpened
<1>1. IInv => BitsDenoteOpened
  BY AllSegmentsOpened DEF IInv, BitsDenoteOpened, OpenedMatch
<1> QED
  BY <1>1, Invariance, PTL

\* A segment has at least a reference of every session, iterator and name that
\* holds it, and exactly those unless open_segment_spider has opened it twice
\* for a session: it is deleted with its last holder and not before.
THEOREM ReferencesMatchHolders == Spec => []RefsMatchHolders
<1>1. IInv => RefsMatchHolders
  BY DEF IInv
<1> QED
  BY <1>1, Invariance, PTL

\* A segment in the repository has exactly one sign in META, the one it has been
\* opened with, and the references of a sign cover the sessions that have opened
\* its segment.
THEOREM SignsOfOpenedAreHeld == Spec => []SignsHeld
<1>1. ASSUME IInv, NEW u \in Uris, directory[u] # None
      PROVE  /\ Cardinality(SignOf(u, idtf)) = 1
             /\ sign[directory[u]] \in SignOf(u, idtf) \cup {None}
  <2>1. PICK q \in Signs : idtf[q] = u
    BY <1>1 DEF IInv, NamesMatch
  <2>2. SignOf(u, idtf) = {q}
    BY <1>1, <2>1, NoneIsApart DEF IInv, NamesMatch, SignOf
  <2>3. Cardinality(SignOf(u, idtf)) = 1
    BY <2>2, FS_Singleton
  <2>4. sign[directory[u]] = None \/ (sign[directory[u]] \in Signs /\ idtf[sign[directory[u]]] = u)
    BY <1>1 DEF IInv, NamesMatch, TypeOK
  <2> QED
    BY <2>3, <2>4 DEF SignOf
<1>2. IInv => SignsHeld
  BY <1>1 DEF SignsHeld, IInv, SignRefsHeld, OpenedWith
<1> QED
  BY <1>2, Invariance, PTL
=============================================================================
