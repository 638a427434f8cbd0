-------------------------- MODULE ScArcListsProofs --------------------------
(***************************************************************************)
(* Proofs about ScArcLists.                                                *)
(*                                                                         *)
(* The lemmas are about values: a heap h, hints g, the places at of all    *)
(* iterators, users' and calls', the elements own that users' iterators    *)
(* are over, a stack u.  First what the operations on the heap keep        *)
(* (HeapInv), then what the steps of agents and users keep (Inv), then the *)
(* actions, which are instances of those.                                  *)
(***************************************************************************)
EXTENDS ScArcLists, FiniteSetTheorems, SequenceTheorems, WellFoundedInduction, TLAPS

-----------------------------------------------------------------------------
(***************************************************************************)
(* Lists of links: membership, removal, order                              *)
(***************************************************************************)

\* The elements of a list are those at its positions.
LEMMA Members ==
    ASSUME NEW S, NEW s \in Seq(S), NEW l
    PROVE  /\ Len(s) \in Nat
           /\ l \in ToSet(s) <=> \E i \in 1..Len(s) : s[i] = l
           /\ ToSet(s) \subseteq S
BY DEF ToSet

\* remove() takes one link out of a list and keeps the order of the others.
LEMMA Removed ==
    ASSUME NEW S, NEW s \in Seq(S), NEW l, IsInjective(s), NEW t, t = RemoveFirst(s, l)
    PROVE  /\ t \in Seq(S)
           /\ IsInjective(t)
           /\ ToSet(t) = ToSet(s) \ {l}
           /\ \A a, b \in ToSet(t) : Precedes(t, a, b) <=> Precedes(s, a, b)
<1>1. CASE \A i \in 1..Len(s) : s[i] # l
  <2>1. t = s
    BY <1>1 DEF RemoveFirst
  <2> QED BY <1>1, <2>1, Members
<1>2. ASSUME NEW p \in 1..Len(s), s[p] = l
      PROVE  /\ t \in Seq(S)
             /\ IsInjective(t)
             /\ ToSet(t) = ToSet(s) \ {l}
             /\ \A a, b \in ToSet(t) : Precedes(t, a, b) <=> Precedes(s, a, b)
  <2>1. {i \in 1..Len(s) : s[i] = l} = {p}
    BY <1>2 DEF IsInjective
  <2>2. Min({p}) = p
    BY DEF Min
  <2>3. t = RemoveAt(s, p)
    BY <1>2, <2>1, <2>2 DEF RemoveFirst, SelectInSeq
  <2>4. /\ SubSeq(s, 1, p - 1) \in Seq(S)
        /\ Len(SubSeq(s, 1, p - 1)) = p - 1
        /\ \A i \in 1..(p - 1) : SubSeq(s, 1, p - 1)[i] = s[i]
    OBVIOUS
  <2>5. /\ SubSeq(s, p + 1, Len(s)) \in Seq(S)
        /\ Len(SubSeq(s, p + 1, Len(s))) = Len(s) - p
        /\ \A i \in 1..(Len(s) - p) : SubSeq(s, p + 1, Len(s))[i] = s[p + i]
    OBVIOUS
  <2>6. /\ t \in Seq(S)
        /\ Len(t) = Len(s) - 1
        /\ \A i \in 1..(Len(s) - 1) : t[i] = IF i < p THEN s[i] ELSE s[i + 1]
    <3> DEFINE u == SubSeq(s, 1, p - 1)
               v == SubSeq(s, p + 1, Len(s))
    <3>1. t = u \o v
      BY <2>3 DEF RemoveAt
    <3>2. u \in Seq(S) /\ Len(u) = p - 1 /\ \A i \in 1..(p - 1) : u[i] = s[i]
      BY <2>4
    <3>3. v \in Seq(S) /\ Len(v) = Len(s) - p /\ \A i \in 1..(Len(s) - p) : v[i] = s[p + i]
      BY <2>5
    <3> HIDE DEF u, v
    <3>4. /\ t \in Seq(S)
          /\ Len(t) = Len(u) + Len(v)
          /\ \A i \in 1..(Len(u) + Len(v)) : t[i] = IF i <= Len(u) THEN u[i] ELSE v[i - Len(u)]
      <4>1. u \in Seq(S) /\ v \in Seq(S)
        BY <3>2, <3>3
      <4> QED BY <3>1, <4>1, ConcatProperties, Zenon
    <3>5. ASSUME NEW i \in 1..(Len(s) - 1) PROVE t[i] = IF i < p THEN s[i] ELSE s[i + 1]
      <4>0. Len(s) \in Nat /\ p \in Nat /\ i \in 1..(Len(u) + Len(v))
        BY <3>2, <3>3
      <4>1. CASE i < p
        BY <4>0, <4>1, <3>2, <3>4
      <4>2. CASE i >= p
        <5>1. i - (p - 1) \in 1..(Len(s) - p) /\ p + (i - (p - 1)) = i + 1 /\ ~(i <= p - 1)
          BY <4>0, <4>2
        <5>2. t[i] = v[i - (p - 1)]
          BY <4>0, <5>1, <3>2, <3>4
        <5>3. v[i - (p - 1)] = s[p + (i - (p - 1))]
          BY <5>1, <3>3
        <5> QED BY <4>0, <4>2, <5>1, <5>2, <5>3
      <4> QED BY <4>1, <4>2
    <3>6. Len(t) = Len(s) - 1
      BY <3>2, <3>3, <3>4
    <3> QED BY <3>4, <3>5, <3>6
  <2> DEFINE up(k) == IF k < p THEN k ELSE k + 1
  <2>6a. \A i \in 1..Len(t) : up(i) \in 1..Len(s) /\ up(i) # p /\ t[i] = s[up(i)]
    BY <2>6
  <2>7. IsInjective(t)
    <3> SUFFICES ASSUME NEW i \in 1..Len(t), NEW j \in 1..Len(t), t[i] = t[j]
                 PROVE  i = j
      BY <2>6 DEF IsInjective
    <3>1. up(i) = up(j)
      BY <2>6a DEF IsInjective
    <3> QED BY <3>1, <2>6
  <2>8. ToSet(t) = ToSet(s) \ {l}
    <3>1. ASSUME NEW a \in ToSet(t) PROVE a \in ToSet(s) \ {l}
      <4>1. PICK i \in 1..Len(t) : t[i] = a
        BY <2>6 DEF ToSet
      <4>2. a = s[up(i)] /\ up(i) \in 1..Len(s) /\ up(i) # p
        BY <4>1, <2>6a
      <4> HIDE DEF up
      <4> QED BY <4>2, <1>2 DEF ToSet, IsInjective
    <3>2. ASSUME NEW a \in ToSet(s) \ {l} PROVE a \in ToSet(t)
      <4>1. PICK i \in 1..Len(s) : s[i] = a
        BY DEF ToSet
      <4>2. i # p
        BY <4>1, <1>2
      <4>3. CASE i < p
        <5>1. i \in 1..Len(t) /\ t[i] = a
          BY <4>1, <4>3, <2>6
        <5> QED BY <5>1, <2>6 DEF ToSet
      <4>4. CASE i > p
        <5>1. (i - 1) \in 1..Len(t) /\ t[i - 1] = a
          BY <4>1, <4>4, <2>6
        <5> QED BY <5>1, <2>6 DEF ToSet
      <4> QED BY <4>2, <4>3, <4>4
    <3> QED BY <3>1, <3>2
  <2>9. ASSUME NEW a \in ToSet(t), NEW b \in ToSet(t)
        PROVE  Precedes(t, a, b) <=> Precedes(s, a, b)
    <3>1. ASSUME Precedes(t, a, b) PROVE Precedes(s, a, b)
      <4>1. PICK j \in 1..Len(t) : t[j] = b /\ \E i \in 1..(j - 1) : t[i] = a
        BY <3>1 DEF Precedes
      <4>1a. PICK i \in 1..(j - 1) : t[i] = a
        BY <4>1
      <4>2. /\ up(j) \in 1..Len(s) /\ up(i) \in 1..(up(j) - 1)
            /\ s[up(j)] = b /\ s[up(i)] = a
        BY <4>1, <4>1a, <2>6
      <4> QED BY <4>2 DEF Precedes
    <3>2. ASSUME Precedes(s, a, b) PROVE Precedes(t, a, b)
      <4>1. PICK j \in 1..Len(s) : s[j] = b /\ \E i \in 1..(j - 1) : s[i] = a
        BY <3>2 DEF Precedes
      <4>1a. PICK i \in 1..(j - 1) : s[i] = a
        BY <4>1
      <4>2. i # p /\ j # p
        BY <4>1, <4>1a, <2>8, <1>2
      <4> DEFINE down(k) == IF k < p THEN k ELSE k - 1
      <4>2a. \A k \in 1..Len(s) : k # p => down(k) \in 1..Len(t) /\ t[down(k)] = s[k]
        BY <2>6
      <4>3. down(j) \in 1..Len(t) /\ t[down(j)] = b /\ t[down(i)] = a
        BY <4>1, <4>1a, <4>2, <4>2a
      <4>4. down(i) \in 1..(down(j) - 1)
        BY <4>1, <4>1a, <4>2
      <4> HIDE DEF down
      <4> QED BY <4>3, <4>4 DEF Precedes
    <3> QED BY <3>1, <3>2
  <2> QED BY <2>6, <2>7, <2>8, <2>9
<1> QED BY <1>1, <1>2

\* l enters the list s, which becomes t.
IsAppended(S, s, l, t) == s \in Seq(S) /\ l \in S /\ l \notin ToSet(s) /\ t = Append(s, l)

\* attach puts a new link behind all links of a list.
LEMMA Appended ==
    ASSUME NEW S, NEW s, NEW l, NEW t, IsAppended(S, s, l, t), IsInjective(s)
    PROVE  /\ t \in Seq(S)
           /\ IsInjective(t)
           /\ ToSet(t) = ToSet(s) \cup {l}
<1>1. /\ t \in Seq(S) /\ Len(t) = Len(s) + 1 /\ t[Len(s) + 1] = l /\ Len(s) \in Nat
      /\ \A i \in 1..Len(s) : t[i] = s[i]
  BY AppendProperties, LenProperties DEF IsAppended
<1>2. \A i \in 1..Len(s) : s[i] # l
  BY DEF ToSet, IsAppended
<1>3. IsInjective(t)
  BY <1>1, <1>2 DEF IsInjective
<1>4. ToSet(t) = ToSet(s) \cup {l}
  <2>1. \A a : a \in ToSet(t) <=> \E i \in 1..(Len(s) + 1) : t[i] = a
    BY <1>1 DEF ToSet
  <2>2. \A a : a \in ToSet(s) <=> \E i \in 1..Len(s) : s[i] = a
    BY DEF ToSet
  <2>3. \A a \in ToSet(t) : a \in ToSet(s) \cup {l}
    BY <2>1, <2>2, <1>1
  <2>4. \A a \in ToSet(s) \cup {l} : a \in ToSet(t)
    BY <2>1, <2>2, <1>1
  <2> QED BY <2>3, <2>4
<1> QED BY <1>1, <1>3, <1>4

\* What is in the list precedes the new link, in the order it had.
LEMMA AppendedOrder ==
    ASSUME NEW S, NEW s, NEW l, NEW t, IsAppended(S, s, l, t)
    PROVE  /\ \A a, b \in ToSet(s) : Precedes(t, a, b) <=> Precedes(s, a, b)
           /\ \A a \in ToSet(s) : Precedes(t, a, l)
<1>1. /\ t \in Seq(S) /\ Len(t) = Len(s) + 1 /\ t[Len(s) + 1] = l /\ Len(s) \in Nat
      /\ \A i \in 1..Len(s) : t[i] = s[i]
  BY AppendProperties, LenProperties DEF IsAppended
<1>2. l \notin ToSet(s)
  BY DEF IsAppended
<1>3. ASSUME NEW a \in ToSet(s), NEW b \in ToSet(s)
      PROVE  Precedes(t, a, b) <=> Precedes(s, a, b)
  <2>1. a # l /\ b # l
    BY <1>2
  <2>2. ASSUME Precedes(t, a, b) PROVE Precedes(s, a, b)
    <3>1. PICK j \in 1..Len(t) : t[j] = b /\ \E i \in 1..(j - 1) : t[i] = a
      BY <2>2 DEF Precedes
    <3>1a. PICK i \in 1..(j - 1) : t[i] = a
      BY <3>1
    <3>2. j \in 1..Len(s) /\ s[j] = b /\ s[i] = a
      BY <3>1, <3>1a, <2>1, <1>1
    <3> QED BY <3>1, <3>1a, <3>2 DEF Precedes
  <2>3. ASSUME Precedes(s, a, b) PROVE Precedes(t, a, b)
    <3>1. PICK j \in 1..Len(s) : s[j] = b /\ \E i \in 1..(j - 1) : s[i] = a
      BY <2>3 DEF Precedes
    <3>1a. PICK i \in 1..(j - 1) : s[i] = a
      BY <3>1
    <3>2. j \in 1..Len(t) /\ t[j] = b /\ t[i] = a
      BY <3>1, <3>1a, <1>1
    <3> QED BY <3>1, <3>1a, <3>2 DEF Precedes
  <2> QED BY <2>2, <2>3
<1>4. ASSUME NEW a \in ToSet(s)
      PROVE  Precedes(t, a, l)
  <2>1. PICK i \in 1..Len(s) : s[i] = a
    BY DEF ToSet
  <2>2. Len(s) + 1 \in 1..Len(t) /\ i \in 1..(Len(s) + 1 - 1) /\ t[Len(s) + 1] = l /\ t[i] = a
    BY <2>1, <1>1
  <2> QED BY <2>2 DEF Precedes
<1> QED BY <1>3, <1>4

\* The order of the links of a list is total, and its first link precedes the others.
LEMMA Ordered ==
    ASSUME NEW S, NEW s \in Seq(S), IsInjective(s)
    PROVE  /\ \A a : ~Precedes(s, a, a)
           /\ \A a, b \in ToSet(s) : a # b => Precedes(s, a, b) \/ Precedes(s, b, a)
           /\ \A a, b : ~(Precedes(s, a, b) /\ Precedes(s, b, a))
           /\ \A a, b, c : Precedes(s, a, b) /\ Precedes(s, b, c) => Precedes(s, a, c)
           /\ \A a, b : Precedes(s, a, b) => a \in ToSet(s) /\ b \in ToSet(s)
           /\ s # <<>> => /\ Head(s) \in ToSet(s)
                          /\ \A a \in ToSet(s) \ {Head(s)} : Precedes(s, Head(s), a)
           /\ s = <<>> => ToSet(s) = {}
<1>1. \A a : ~Precedes(s, a, a)
  BY DEF Precedes, IsInjective
<1>2. ASSUME NEW a \in ToSet(s), NEW b \in ToSet(s), a # b
      PROVE  Precedes(s, a, b) \/ Precedes(s, b, a)
  <2>1. PICK i \in 1..Len(s), j \in 1..Len(s) : s[i] = a /\ s[j] = b
    BY DEF ToSet
  <2>2. i \in 1..(j - 1) \/ j \in 1..(i - 1)
    BY <1>2, <2>1
  <2> QED BY <2>1, <2>2 DEF Precedes
<1>3. \A a, b : ~(Precedes(s, a, b) /\ Precedes(s, b, a))
  BY DEF Precedes, IsInjective
<1>4. ASSUME NEW a, NEW b, NEW c, Precedes(s, a, b), Precedes(s, b, c)
      PROVE  Precedes(s, a, c)
  <2>1. PICK j \in 1..Len(s) : s[j] = b /\ \E i \in 1..(j - 1) : s[i] = a
    BY <1>4 DEF Precedes
  <2>1a. PICK i \in 1..(j - 1) : s[i] = a
    BY <2>1
  <2>2. PICK k \in 1..Len(s) : s[k] = c /\ \E m \in 1..(k - 1) : s[m] = b
    BY <1>4 DEF Precedes
  <2>2a. PICK m \in 1..(k - 1) : s[m] = b
    BY <2>2
  <2>3. m = j
    BY <2>1, <2>1a, <2>2, <2>2a DEF IsInjective
  <2>4. i \in 1..(k - 1)
    BY <2>1, <2>1a, <2>2, <2>2a, <2>3
  <2> QED BY <2>1, <2>1a, <2>2, <2>2a, <2>4 DEF Precedes
<1>5. \A a, b : Precedes(s, a, b) => a \in ToSet(s) /\ b \in ToSet(s)
  BY DEF Precedes, ToSet
<1>6. ASSUME s # <<>>
      PROVE  /\ Head(s) \in ToSet(s)
             /\ \A a \in ToSet(s) \ {Head(s)} : Precedes(s, Head(s), a)
  <2>1. 1 \in 1..Len(s) /\ Head(s) = s[1]
    BY <1>6
  <2>2. ASSUME NEW a \in ToSet(s) \ {Head(s)} PROVE Precedes(s, Head(s), a)
    <3>1. PICK j \in 1..Len(s) : s[j] = a
      BY DEF ToSet
    <3>2. 1 \in 1..(j - 1)
      BY <3>1, <2>1
    <3> QED BY <3>1, <3>2, <2>1 DEF Precedes
  <2> QED BY <2>1, <2>2 DEF ToSet
<1>7. s = <<>> => ToSet(s) = {}
  BY DEF ToSet
<1> QED BY <1>1, <1>2, <1>3, <1>4, <1>5, <1>6, <1>7

\* Of some links of a list one is first: the one that the search for a live link finds.
LEMMA First ==
    ASSUME NEW S, NEW s \in Seq(S), IsInjective(s), NEW M, M \subseteq ToSet(s), M # {}
    PROVE  /\ FirstOf(s, M) \in M
           /\ \A n \in M \ {FirstOf(s, M)} : Precedes(s, FirstOf(s, M), n)
<1> DEFINE P == {i \in 1..Len(s) : s[i] \in M}
<1> DEFINE N == 1..Len(s)
           T == {1..i : i \in P}
<1>1. P # {} /\ P \subseteq N
  BY DEF ToSet
<1>2. T # {} /\ \A X \in T : X \subseteq N /\ IsFiniteSet(X)
  <2>1. T # {}
    BY <1>1
  <2>2. ASSUME NEW i \in P PROVE 1..i \subseteq N /\ IsFiniteSet(1..i)
    <3>1. i \in Int /\ 1 \in Int /\ 1..i \subseteq N
      BY <1>1
    <3> QED BY <3>1, FS_Interval
  <2> HIDE DEF P, N
  <2> QED BY <2>1, <2>2
<1>3. T \subseteq FiniteSubsetsOf(N)
  BY <1>2 DEF FiniteSubsetsOf
<1>4. PICK X \in T : \A Y \in T : ~(<<Y, X>> \in StrictSubsetOrdering(N))
  BY <1>2, <1>3, FS_StrictSubsetOrderingWellFounded, WFMin
<1>5. PICK i \in P : X = 1..i
  OBVIOUS
<1>6. ASSUME NEW j \in P PROVE j >= i
  <2>1. SUFFICES ASSUME j < i PROVE FALSE
    BY <1>1
  <2>2. 1..j \in T /\ 1..j \subseteq 1..i /\ 1..j # 1..i
    BY <2>1, <1>1
  <2>3. <<1..j, X>> \in StrictSubsetOrdering(N)
    BY <2>2, <1>2, <1>5 DEF StrictSubsetOrdering
  <2> QED BY <2>2, <2>3, <1>4
<1>7. ASSUME NEW n \in M \ {s[i]} PROVE Precedes(s, s[i], n)
  <2>1. PICK j \in 1..Len(s) : s[j] = n
    BY DEF ToSet
  <2>2. j \in P /\ j # i
    BY <2>1
  <2>3. i \in 1..(j - 1)
    BY <2>2, <1>6
  <2> QED BY <2>1, <2>3 DEF Precedes
<1>8. s[i] \in M
  OBVIOUS
<1> QED BY <1>7, <1>8 DEF FirstOf

-----------------------------------------------------------------------------
(***************************************************************************)
(* The fields of the heap, and what the loss of one reference to a link    *)
(* does                                                                    *)
(***************************************************************************)

Hint == [el : Elements, at : Links] \cup {NoHint}

LinkType == [refcnt : Int, dead : BOOLEAN]

HeapType ==
    [list : [ListIds -> Seq(Links)], link : [Links -> LinkType],
     state : [Elements -> {"live", "dead", "freed"}], refs : [Elements -> Int]]

ListsOK(h) ==
    /\ \A L \in ListIds : IsInjective(h.list[L]) /\ \A l \in ToSet(h.list[L]) : l[2] = L[2]
    /\ \A L, M \in ListIds : \A l \in ToSet(h.list[L]) : l \in ToSet(h.list[M]) => L = M
    /\ \A l \in Links : /\ h.link[l].refcnt # 0 <=> \E L \in ListIds : l \in ToSet(h.list[L])
                        /\ h.link[l].refcnt = 0 => h.link[l] = FreeLink

Trimmed(h, h2) ==
    \A L \in ListIds :
      /\ ToSet(h2.list[L]) \subseteq ToSet(h.list[L])
      /\ \A a, b \in ToSet(h2.list[L]) : Precedes(h2.list[L], a, b) <=> Precedes(h.list[L], a, b)

\* The shape of links, lists and elements, and that None is none of them.
LEMMA LinkShape ==
    /\ \A l \in Links : l[1] \in Arcs /\ l[2] \in Sides /\ l # None /\ l[1] \in Elements
    /\ \A x \in Arcs, s \in Sides, k \in 1..Copies :
         <<x, s, k>> \in Links /\ <<x, s, k>>[1] = x /\ <<x, s, k>>[2] = s
    /\ \A e \in Elements : e # None
    /\ \A L \in ListIds : L[1] \in Elements /\ L[2] \in Sides /\ L = <<L[1], L[2]>>
    /\ \A e \in Elements, s \in Sides : <<e, s>> \in ListIds /\ <<e, s>>[1] = e /\ <<e, s>>[2] = s
    /\ FreeLink \in LinkType
BY Disjoint DEF Links, Elements, ListIds, FreeLink, LinkType

\* The types of the fields of a heap.
LEMMA HeapFields ==
    ASSUME NEW h \in HeapType
    PROVE  /\ h.list \in [ListIds -> Seq(Links)]
           /\ h.link \in [Links -> LinkType]
           /\ h.state \in [Elements -> {"live", "dead", "freed"}]
           /\ h.refs \in [Elements -> Int]
           /\ \A l \in Links : h.link[l].refcnt \in Int /\ h.link[l].dead \in BOOLEAN
           /\ \A L \in ListIds : ToSet(h.list[L]) \subseteq Links /\ h.list[L] \in Seq(Links)
<1>1. /\ h.list \in [ListIds -> Seq(Links)]
      /\ h.link \in [Links -> LinkType]
      /\ h.state \in [Elements -> {"live", "dead", "freed"}]
      /\ h.refs \in [Elements -> Int]
  BY DEF HeapType
<1>2. \A l \in Links : h.link[l].refcnt \in Int /\ h.link[l].dead \in BOOLEAN
  BY <1>1 DEF LinkType
<1>3. \A L \in ListIds : h.list[L] \in Seq(Links)
  BY <1>1
<1>4. \A L \in ListIds : ToSet(h.list[L]) \subseteq Links
  BY <1>3, Members
<1> QED BY <1>1, <1>2, <1>3, <1>4

\* A heap with one field changed, as a record.
LEMMA HeapUpdates ==
    ASSUME NEW h \in HeapType, NEW x
    PROVE  /\ [h EXCEPT !.link = x] = [list |-> h.list, link |-> x, state |-> h.state, refs |-> h.refs]
           /\ [h EXCEPT !.list = x] = [list |-> x, link |-> h.link, state |-> h.state, refs |-> h.refs]
           /\ [h EXCEPT !.state = x] = [list |-> h.list, link |-> h.link, state |-> x, refs |-> h.refs]
           /\ [h EXCEPT !.refs = x] = [list |-> h.list, link |-> h.link, state |-> h.state, refs |-> x]
<1> USE DEF HeapType
<1>1. [h EXCEPT !.link = x] = [list |-> h.list, link |-> x, state |-> h.state, refs |-> h.refs]
  OBVIOUS
<1>2. [h EXCEPT !.list = x] = [list |-> x, link |-> h.link, state |-> h.state, refs |-> h.refs]
  OBVIOUS
<1>3. [h EXCEPT !.state = x] = [list |-> h.list, link |-> h.link, state |-> x, refs |-> h.refs]
  OBVIOUS
<1>4. [h EXCEPT !.refs = x] = [list |-> h.list, link |-> h.link, state |-> h.state, refs |-> x]
  OBVIOUS
<1> QED BY <1>1, <1>2, <1>3, <1>4

\* delete this of element_link: the link has left its list and is free, nothing else has changed.
LEMMA Deleted ==
    ASSUME NEW h \in HeapType, NEW l \in Links, NEW h2, h2 = DeleteLink(h, l),
           \A L \in ListIds : IsInjective(h.list[L])
    PROVE  /\ h2 \in HeapType
           /\ h2.link = [h.link EXCEPT ![l] = FreeLink]
           /\ h2.state = h.state /\ h2.refs = h.refs
           /\ \A L \in ListIds :
                /\ IsInjective(h2.list[L])
                /\ ToSet(h2.list[L]) = ToSet(h.list[L]) \ {l}
           /\ Trimmed(h, h2)
<1> DEFINE lst == [L \in ListIds |-> RemoveFirst(h.list[L], l)]
<1>1. h2 = [list |-> lst, link |-> [h.link EXCEPT ![l] = FreeLink], state |-> h.state, refs |-> h.refs]
  BY DEF DeleteLink, HeapType
<1>2. ASSUME NEW L \in ListIds
      PROVE  /\ lst[L] \in Seq(Links)
             /\ IsInjective(lst[L])
             /\ ToSet(lst[L]) = ToSet(h.list[L]) \ {l}
             /\ \A a, b \in ToSet(lst[L]) : Precedes(lst[L], a, b) <=> Precedes(h.list[L], a, b)
  <2>1. h.list[L] \in Seq(Links)
    BY HeapFields
  <2>2. lst[L] = RemoveFirst(h.list[L], l)
    OBVIOUS
  <2> QED BY <2>1, <2>2, Removed
<1>3. lst \in [ListIds -> Seq(Links)]
  BY <1>2
<1>4. [h.link EXCEPT ![l] = FreeLink] \in [Links -> LinkType]
  BY HeapFields, LinkShape
<1> HIDE DEF lst
<1>5. h2 \in HeapType /\ h2.list = lst
  BY <1>1, <1>3, <1>4, HeapFields DEF HeapType
<1>6. /\ h2.link = [h.link EXCEPT ![l] = FreeLink]
      /\ h2.state = h.state /\ h2.refs = h.refs
  BY <1>1
<1>7. Trimmed(h, h2)
  BY <1>2, <1>5 DEF Trimmed
<1> QED BY <1>2, <1>5, <1>6, <1>7

\* A link loses one reference, by unref or by die.
LoseRef(h, l, v) == IF h.link[l].refcnt = 1 THEN DeleteLink(h, l) ELSE [h EXCEPT !.link[l] = v]

\* Both unref and die of element_link give up one reference.
LEMMA LosesRef ==
    ASSUME NEW h \in HeapType, NEW l \in Links
    PROVE  /\ UnrefLink(h, l) =
                LoseRef(h, l, [refcnt |-> h.link[l].refcnt - 1, dead |-> h.link[l].dead])
           /\ DieLink(h, l) = LoseRef(h, l, [refcnt |-> h.link[l].refcnt - 1, dead |-> TRUE])
<1>1. h.link[l] \in [refcnt : Int, dead : BOOLEAN] /\ l \in DOMAIN h.link
  BY HeapFields DEF LinkType
<1>2. [h EXCEPT !.link[l].refcnt = @ - 1]
        = [h EXCEPT !.link = [h.link EXCEPT ![l] = [h.link[l] EXCEPT !.refcnt = h.link[l].refcnt - 1]]]
  OBVIOUS
<1>3. [h.link[l] EXCEPT !.refcnt = h.link[l].refcnt - 1]
        = [refcnt |-> h.link[l].refcnt - 1, dead |-> h.link[l].dead]
  BY <1>1
<1> QED BY <1>2, <1>3 DEF UnrefLink, DieLink, LoseRef

\* A link that loses its last reference is in no list any more; any other stays where it is.
LEMMA RefLost ==
    ASSUME NEW h \in HeapType, ListsOK(h), NEW l \in Links, h.link[l].refcnt # 0,
           NEW v \in LinkType, v.refcnt = h.link[l].refcnt - 1, NEW h2, h2 = LoseRef(h, l, v)
    PROVE  /\ h2 \in HeapType
           /\ ListsOK(h2)
           /\ Trimmed(h, h2)
           /\ \A m \in Links \ {l} : h2.link[m] = h.link[m]
           /\ h2.link[l].refcnt = h.link[l].refcnt - 1
           /\ h2.link[l].refcnt # 0 => h2.link[l] = v
           /\ \A L \in ListIds : \A m \in Links :
                m \in ToSet(h2.list[L]) <=> m \in ToSet(h.list[L]) /\ h2.link[m].refcnt # 0
           /\ h2.state = h.state /\ h2.refs = h.refs
<1>0. /\ h.link[l].refcnt \in Int /\ l \in DOMAIN h.link
      /\ \A L \in ListIds : ToSet(h.list[L]) \subseteq Links
      /\ \A L \in ListIds : IsInjective(h.list[L])
      /\ \A m \in Links, L \in ListIds : m \in ToSet(h.list[L]) => h.link[m].refcnt # 0
  BY HeapFields DEF ListsOK
<1>1. CASE h.link[l].refcnt = 1
  <2>1. /\ h2 \in HeapType
        /\ h2.link = [h.link EXCEPT ![l] = FreeLink]
        /\ h2.state = h.state /\ h2.refs = h.refs
        /\ \A L \in ListIds :
             /\ IsInjective(h2.list[L])
             /\ ToSet(h2.list[L]) = ToSet(h.list[L]) \ {l}
        /\ Trimmed(h, h2)
    <3>1. h2 = DeleteLink(h, l)
      BY <1>1 DEF LoseRef
    <3> QED BY <3>1, <1>0, Deleted
  <2>2. h2.link[l].refcnt = 0 /\ h2.link[l] = FreeLink /\ \A m \in Links \ {l} : h2.link[m] = h.link[m]
    BY <2>1, <1>0, HeapFields DEF FreeLink
  <2>3. ListsOK(h2)
    <3>1. \A L \in ListIds : IsInjective(h2.list[L]) /\ \A m \in ToSet(h2.list[L]) : m[2] = L[2]
      BY <2>1 DEF ListsOK
    <3>2. \A L, M \in ListIds : \A m \in ToSet(h2.list[L]) : m \in ToSet(h2.list[M]) => L = M
      BY <2>1 DEF ListsOK
    <3>3. ASSUME NEW m \in Links
          PROVE  /\ h2.link[m].refcnt # 0 <=> \E L \in ListIds : m \in ToSet(h2.list[L])
                 /\ h2.link[m].refcnt = 0 => h2.link[m] = FreeLink
      <4>1. CASE m = l
        BY <4>1, <2>1, <2>2
      <4>2. CASE m # l
        BY <4>2, <2>1, <2>2 DEF ListsOK
      <4> QED BY <4>1, <4>2
    <3> QED BY <3>1, <3>2, <3>3 DEF ListsOK
  <2>4. \A L \in ListIds : \A m \in Links :
          m \in ToSet(h2.list[L]) <=> m \in ToSet(h.list[L]) /\ h2.link[m].refcnt # 0
    BY <2>1, <2>2, <1>0
  <2> QED BY <1>1, <2>1, <2>2, <2>3, <2>4
<1>2. CASE h.link[l].refcnt # 1
  <2>1. h2 = [h EXCEPT !.link = [h.link EXCEPT ![l] = v]]
    BY <1>2 DEF LoseRef
  <2>2. v \in LinkType /\ v.refcnt = h.link[l].refcnt - 1 /\ v.refcnt # 0
    BY <1>0, <1>2
  <2>3. h2.list = h.list /\ h2.state = h.state /\ h2.refs = h.refs /\ h2.link = [h.link EXCEPT ![l] = v]
        /\ h2 \in HeapType
    <3> DEFINE k == [h.link EXCEPT ![l] = v]
    <3>1. k \in [Links -> LinkType]
      BY <2>2, HeapFields
    <3> HIDE DEF k
    <3>2. h2 = [list |-> h.list, link |-> k, state |-> h.state, refs |-> h.refs]
      BY <2>1, HeapUpdates DEF k
    <3> QED BY <3>1, <3>2, HeapFields DEF HeapType, k
  <2>4. h2.link[l] = v /\ \A m \in Links \ {l} : h2.link[m] = h.link[m]
    BY <2>3, HeapFields
  <2>5. \A m \in Links : h2.link[m].refcnt # 0 <=> h.link[m].refcnt # 0
    BY <2>2, <2>4
  <2>6. ListsOK(h2)
    BY <2>2, <2>3, <2>4, <2>5 DEF ListsOK
  <2>7. Trimmed(h, h2)
    BY <2>3 DEF Trimmed
  <2>8. \A L \in ListIds : \A m \in Links :
          m \in ToSet(h2.list[L]) <=> m \in ToSet(h.list[L]) /\ h2.link[m].refcnt # 0
    BY <2>3, <2>5, <1>0
  <2> QED BY <2>2, <2>3, <2>4, <2>6, <2>7, <2>8
<1> QED BY <1>1, <1>2

\* Lists that have lost links twice have lost links.
LEMMA TrimmedTwice ==
    ASSUME NEW h, NEW h2, NEW h3, Trimmed(h, h2), Trimmed(h2, h3)
    PROVE  Trimmed(h, h3)
BY DEF Trimmed

\* Lists that have not changed have lost no link.
LEMMA TrimmedSame ==
    ASSUME NEW h, NEW h2, h2.list = h.list
    PROVE  Trimmed(h, h2)
BY DEF Trimmed

-----------------------------------------------------------------------------
(***************************************************************************)
(* Counting: iterators arrive at a link and leave it, own an element and   *)
(* free it                                                                 *)
(***************************************************************************)

\* The value of f at a becomes v.
Put(f, a, v) == [f EXCEPT ![a] = v]

\* ref of sc_global_addr.
LEMMA RefFields ==
    ASSUME NEW h \in HeapType, NEW x \in Elements, NEW h2, h2 = Ref(h, x)
    PROVE  /\ h2 \in HeapType
           /\ h2.list = h.list /\ h2.link = h.link /\ h2.state = h.state
           /\ h2.refs[x] = h.refs[x] + 1
           /\ \A e \in Elements \ {x} : h2.refs[e] = h.refs[e]
<1> DEFINE r == [h.refs EXCEPT ![x] = @ + 1]
<1>1. r \in [Elements -> Int]
  BY HeapFields
<1>2. h2 = [h EXCEPT !.refs = r]
  BY DEF Ref
<1> HIDE DEF r
<1>3. h2 = [list |-> h.list, link |-> h.link, state |-> h.state, refs |-> r]
  BY <1>2, HeapUpdates
<1>4. r[x] = h.refs[x] + 1 /\ \A e \in Elements \ {x} : r[e] = h.refs[e]
  BY HeapFields DEF r
<1> QED BY <1>1, <1>3, <1>4, HeapFields DEF HeapType

\* unref of sc_global_addr: a dead element goes with its last reference.
LEMMA UnrefFields ==
    ASSUME NEW h \in HeapType, NEW x \in Elements, NEW h2, h2 = Unref(h, x)
    PROVE  /\ h2 \in HeapType
           /\ h2.list = h.list /\ h2.link = h.link
           /\ h2.refs[x] = h.refs[x] - 1
           /\ h2.state[x] = IF h.state[x] = "dead" /\ h.refs[x] = 1 THEN "freed" ELSE h.state[x]
           /\ \A e \in Elements \ {x} : h2.refs[e] = h.refs[e] /\ h2.state[e] = h.state[e]
<1> DEFINE r == [h.refs EXCEPT ![x] = @ - 1]
           st == [h.state EXCEPT ![x] = IF h.state[x] = "dead" /\ h.refs[x] = 1 THEN "freed" ELSE @]
<1>1. r \in [Elements -> Int] /\ st \in [Elements -> {"live", "dead", "freed"}]
  BY HeapFields
<1>2. h2 = [[h EXCEPT !.refs = r] EXCEPT !.state = st]
  <2>1. h2 = [[h EXCEPT !.refs[x] = @ - 1] EXCEPT !.state[x] =
                IF @ = "dead" /\ h.refs[x] = 1 THEN "freed" ELSE @]
    BY DEF Unref
  <2>2. [h EXCEPT !.refs[x] = @ - 1] = [h EXCEPT !.refs = r]
    OBVIOUS
  <2>3. [h EXCEPT !.refs = r].state = h.state
    BY HeapUpdates
  <2> QED BY <2>1, <2>2, <2>3
<1> HIDE DEF r, st
<1>3. [h EXCEPT !.refs = r] = [list |-> h.list, link |-> h.link, state |-> h.state, refs |-> r]
  BY HeapUpdates
<1>4. h2 = [list |-> h.list, link |-> h.link, state |-> st, refs |-> r]
  BY <1>2, <1>3
<1>5. /\ r[x] = h.refs[x] - 1
      /\ st[x] = IF h.state[x] = "dead" /\ h.refs[x] = 1 THEN "freed" ELSE h.state[x]
      /\ \A e \in Elements \ {x} : r[e] = h.refs[e] /\ st[e] = h.state[e]
  BY HeapFields DEF r, st
<1>6. h2 \in HeapType /\ h2.list = h.list /\ h2.link = h.link /\ h2.refs = r /\ h2.state = st
  BY <1>1, <1>4, HeapFields DEF HeapType
<1> QED BY <1>5, <1>6

\* die() of an element: deleted at once if nobody refers to it.
LEMMA DieFields ==
    ASSUME NEW h \in HeapType, NEW x \in Elements, NEW h2, h2 = die(h, x)
    PROVE  /\ h2 \in HeapType
           /\ h2.list = h.list /\ h2.link = h.link /\ h2.refs = h.refs
           /\ \A e \in Elements \ {x} : h2.state[e] = h.state[e]
           /\ h.state[x] # "live" => h2.state[x] = h.state[x]
           /\ h.state[x] = "live" => h2.state[x] = IF h.refs[x] = 0 THEN "freed" ELSE "dead"
<1> DEFINE st == [h.state EXCEPT ![x] =
                    IF @ # "live" THEN @ ELSE IF h.refs[x] = 0 THEN "freed" ELSE "dead"]
<1>1. st \in [Elements -> {"live", "dead", "freed"}]
  BY HeapFields
<1>2. h2 = [h EXCEPT !.state = st]
  BY DEF die
<1>3. /\ \A e \in Elements \ {x} : st[e] = h.state[e]
      /\ h.state[x] # "live" => st[x] = h.state[x]
      /\ h.state[x] = "live" => st[x] = IF h.refs[x] = 0 THEN "freed" ELSE "dead"
  BY HeapFields
<1> HIDE DEF st
<1>4. h2 = [list |-> h.list, link |-> h.link, state |-> st, refs |-> h.refs]
  BY <1>2, HeapUpdates
<1> QED BY <1>1, <1>3, <1>4, HeapFields DEF HeapType

\* An iterator that arrives takes a reference to the link and to its arc's address.
LEMMA GrabFields ==
    ASSUME NEW h \in HeapType, NEW l \in Links, NEW h2, h2 = Grab(h, l)
    PROVE  /\ h2 \in HeapType
           /\ h2.list = h.list /\ h2.state = h.state
           /\ h2.refs[l[1]] = h.refs[l[1]] + 1
           /\ \A e \in Elements \ {l[1]} : h2.refs[e] = h.refs[e]
           /\ \A m \in Links \ {l} : h2.link[m] = h.link[m]
           /\ h2.link[l] = [refcnt |-> h.link[l].refcnt + 1, dead |-> h.link[l].dead]
<1> DEFINE v == [refcnt |-> h.link[l].refcnt + 1, dead |-> h.link[l].dead]
           k == [h.link EXCEPT ![l] = v]
           h1 == [h EXCEPT !.link[l].refcnt = @ + 1]
<1>1. v \in LinkType /\ k \in [Links -> LinkType] /\ k[l] = v /\ \A m \in Links \ {l} : k[m] = h.link[m]
  BY HeapFields DEF LinkType
<1>2. h1 = [h EXCEPT !.link = k]
  <2>1. h1 = [h EXCEPT !.link = [h.link EXCEPT ![l] = [h.link[l] EXCEPT !.refcnt = h.link[l].refcnt + 1]]]
    OBVIOUS
  <2>2. h.link[l] \in [refcnt : Int, dead : BOOLEAN]
    BY HeapFields DEF LinkType
  <2>3. [h.link[l] EXCEPT !.refcnt = h.link[l].refcnt + 1] = v
    BY <2>2
  <2> QED BY <2>1, <2>3
<1> HIDE DEF k
<1>3. h1 = [list |-> h.list, link |-> k, state |-> h.state, refs |-> h.refs]
  BY <1>2, HeapUpdates
<1>4. h1 \in HeapType /\ h1.list = h.list /\ h1.link = k /\ h1.state = h.state /\ h1.refs = h.refs
  BY <1>1, <1>3, HeapFields DEF HeapType
<1>5. h2 = Ref(h1, l[1]) /\ l[1] \in Elements
  BY LinkShape DEF Grab, Arc
<1> HIDE DEF h1, v
<1> QED BY <1>1, <1>4, <1>5, RefFields DEF v


\* The iterators of users and those of the calls that an agent may be in.
Slots == (Iters \X {0}) \cup (Agents \X (1..MaxDepth))

AtLink(at, l) == {c \in Slots : at[c] = l}
AtArc(at, e) == {c \in Slots : at[c] # None /\ Arc(at[c]) = e}
OwnedBy(own, e) == {i \in Iters : own[i] = e}

\* The iterators that can exist at one time, and those at one link, one arc or one element, can
\* be counted.
LEMMA SlotsFinite ==
    /\ IsFiniteSet(Slots)
    /\ \A at, l : IsFiniteSet(AtLink(at, l)) /\ Cardinality(AtLink(at, l)) \in Nat
    /\ \A at, e : IsFiniteSet(AtArc(at, e)) /\ Cardinality(AtArc(at, e)) \in Nat
    /\ \A own, e : IsFiniteSet(OwnedBy(own, e)) /\ Cardinality(OwnedBy(own, e)) \in Nat
<1>1. IsFiniteSet(Slots)
  <2>1. IsFiniteSet({0}) /\ IsFiniteSet(1..MaxDepth)
    <3>1. 1 \in Int /\ MaxDepth \in Int
      BY Bounds
    <3> QED BY <3>1, FS_Singleton, FS_Interval
  <2>2. IsFiniteSet(Iters \X {0}) /\ IsFiniteSet(Agents \X (1..MaxDepth))
    BY <2>1, Finite, FS_Product
  <2> QED BY <2>2, FS_Union DEF Slots
<1>2. \A at, l : AtLink(at, l) \in SUBSET Slots
  BY DEF AtLink
<1>3. \A at, e : AtArc(at, e) \in SUBSET Slots
  BY DEF AtArc
<1>4. \A own, e : OwnedBy(own, e) \in SUBSET Iters
  BY DEF OwnedBy
<1> QED BY <1>1, <1>2, <1>3, <1>4, Finite, FS_Subset, FS_CardinalityType

\* An iterator that arrives at a link is one more at the link and at its arc.
LEMMA Arrives ==
    ASSUME NEW at \in [Slots -> Links \cup {None}], NEW c \in Slots, at[c] = None, NEW l \in Links,
           NEW at2, at2 = Put(at, c, l)
    PROVE  /\ at2 \in [Slots -> Links \cup {None}]
           /\ Cardinality(AtLink(at2, l)) = Cardinality(AtLink(at, l)) + 1
           /\ \A m \in Links \ {l} : AtLink(at2, m) = AtLink(at, m)
           /\ Cardinality(AtArc(at2, l[1])) = Cardinality(AtArc(at, l[1])) + 1
           /\ \A e \in Elements \ {l[1]} : AtArc(at2, e) = AtArc(at, e)
<1> USE DEF Put
<1>0. l # None
  BY LinkShape
<1>1. AtLink(at2, l) = AtLink(at, l) \cup {c} /\ c \notin AtLink(at, l)
  BY <1>0 DEF AtLink
<1>2. \A m \in Links \ {l} : AtLink(at2, m) = AtLink(at, m)
  BY LinkShape DEF AtLink
<1>3. AtArc(at2, l[1]) = AtArc(at, l[1]) \cup {c} /\ c \notin AtArc(at, l[1])
  BY <1>0 DEF AtArc, Arc
<1>4. \A e \in Elements \ {l[1]} : AtArc(at2, e) = AtArc(at, e)
  BY <1>0 DEF AtArc, Arc
<1>5. Cardinality(AtLink(at2, l)) = Cardinality(AtLink(at, l)) + 1
  BY <1>1, SlotsFinite, FS_AddElement
<1>6. Cardinality(AtArc(at2, l[1])) = Cardinality(AtArc(at, l[1])) + 1
  BY <1>3, SlotsFinite, FS_AddElement
<1> QED BY <1>2, <1>4, <1>5, <1>6

\* An iterator that leaves a link is one less at the link and at its arc.
LEMMA Leaves ==
    ASSUME NEW at \in [Slots -> Links \cup {None}], NEW c \in Slots, NEW l \in Links, at[c] = l,
           NEW at2, at2 = Put(at, c, None)
    PROVE  /\ at2 \in [Slots -> Links \cup {None}]
           /\ Cardinality(AtLink(at2, l)) = Cardinality(AtLink(at, l)) - 1
           /\ Cardinality(AtLink(at, l)) > 0
           /\ \A m \in Links \ {l} : AtLink(at2, m) = AtLink(at, m)
           /\ Cardinality(AtArc(at2, l[1])) = Cardinality(AtArc(at, l[1])) - 1
           /\ Cardinality(AtArc(at, l[1])) > 0
           /\ \A e \in Elements \ {l[1]} : AtArc(at2, e) = AtArc(at, e)
<1> USE DEF Put
<1>0. l # None
  BY LinkShape
<1>1. AtLink(at2, l) = AtLink(at, l) \ {c} /\ c \in AtLink(at, l)
  BY <1>0 DEF AtLink
<1>2. \A m \in Links \ {l} : AtLink(at2, m) = AtLink(at, m)
  BY LinkShape DEF AtLink
<1>3. AtArc(at2, l[1]) = AtArc(at, l[1]) \ {c} /\ c \in AtArc(at, l[1])
  BY <1>0 DEF AtArc, Arc
<1>4. \A e \in Elements \ {l[1]} : AtArc(at2, e) = AtArc(at, e)
  BY <1>0 DEF AtArc, Arc
<1>5. Cardinality(AtLink(at2, l)) = Cardinality(AtLink(at, l)) - 1
  BY <1>1, SlotsFinite, FS_RemoveElement
<1>6. Cardinality(AtArc(at2, l[1])) = Cardinality(AtArc(at, l[1])) - 1
  <2>1. IsFiniteSet(AtArc(at, l[1]))
    BY SlotsFinite
  <2>2. Cardinality(AtArc(at, l[1]) \ {c}) = Cardinality(AtArc(at, l[1])) - 1
    BY <1>3, <2>1, FS_RemoveElement
  <2> QED BY <1>3, <2>2
<1>7. Cardinality(AtLink(at2, l)) \in Nat /\ Cardinality(AtArc(at2, l[1])) \in Nat
      /\ Cardinality(AtLink(at, l)) \in Nat /\ Cardinality(AtArc(at, l[1])) \in Nat
  BY SlotsFinite
<1>8. at2 \in [Slots -> Links \cup {None}]
  OBVIOUS
<1>9. Cardinality(AtLink(at, l)) > 0 /\ Cardinality(AtArc(at, l[1])) > 0
  BY <1>5, <1>6, <1>7
<1> QED BY <1>2, <1>4, <1>5, <1>6, <1>8, <1>9

\* An iterator of a user refers to the element whose arcs it returns.
LEMMA Owns ==
    ASSUME NEW own \in [Iters -> Elements \cup {None}], NEW i \in Iters, own[i] = None,
           NEW e \in Elements, NEW own2, own2 = Put(own, i, e)
    PROVE  /\ own2 \in [Iters -> Elements \cup {None}]
           /\ Cardinality(OwnedBy(own2, e)) = Cardinality(OwnedBy(own, e)) + 1
           /\ \A f \in Elements \ {e} : OwnedBy(own2, f) = OwnedBy(own, f)
<1> USE DEF Put
<1>1. OwnedBy(own2, e) = OwnedBy(own, e) \cup {i} /\ i \notin OwnedBy(own, e)
  BY LinkShape DEF OwnedBy
<1>2. \A f \in Elements \ {e} : OwnedBy(own2, f) = OwnedBy(own, f)
  BY LinkShape DEF OwnedBy
<1>3. Cardinality(OwnedBy(own2, e)) = Cardinality(OwnedBy(own, e)) + 1
  BY <1>1, SlotsFinite, FS_AddElement
<1> QED BY <1>2, <1>3

\* A user's iterator that is deleted is one less over its element.
LEMMA Disowns ==
    ASSUME NEW own \in [Iters -> Elements \cup {None}], NEW i \in Iters, NEW e \in Elements,
           own[i] = e, NEW own2, own2 = Put(own, i, None)
    PROVE  /\ own2 \in [Iters -> Elements \cup {None}]
           /\ Cardinality(OwnedBy(own2, e)) = Cardinality(OwnedBy(own, e)) - 1
           /\ Cardinality(OwnedBy(own, e)) > 0
           /\ \A f \in Elements \ {e} : OwnedBy(own2, f) = OwnedBy(own, f)
<1> USE DEF Put
<1>1. OwnedBy(own2, e) = OwnedBy(own, e) \ {i} /\ i \in OwnedBy(own, e)
  BY LinkShape DEF OwnedBy
<1>2. \A f \in Elements \ {e} : OwnedBy(own2, f) = OwnedBy(own, f)
  BY LinkShape DEF OwnedBy
<1>3. Cardinality(OwnedBy(own2, e)) = Cardinality(OwnedBy(own, e)) - 1
  BY <1>1, SlotsFinite, FS_RemoveElement
<1>4. Cardinality(OwnedBy(own2, e)) \in Nat /\ Cardinality(OwnedBy(own, e)) \in Nat
  BY SlotsFinite
<1>5. Cardinality(OwnedBy(own, e)) > 0
  BY <1>3, <1>4
<1>6. own2 \in [Iters -> Elements \cup {None}]
  OBVIOUS
<1> QED BY <1>2, <1>3, <1>5, <1>6

-----------------------------------------------------------------------------
(***************************************************************************)
(* What the heap is at every step: exact counts, and lists that match      *)
(* the hints                                                               *)
(***************************************************************************)

AtType == [Slots -> Links \cup {None}]
OwnerType == [Iters -> Elements \cup {None}]
HintType == [Arcs -> [Sides -> Hint]]

LinkCounts(h, at) ==
    \A l \in Links :
      h.link[l].refcnt = Cardinality(AtLink(at, l))
                         + (IF h.link[l].refcnt # 0 /\ ~h.link[l].dead THEN 1 ELSE 0)

RefCounts(h, at, own) ==
    \A e \in Elements :
      /\ h.refs[e] = Cardinality(AtArc(at, e)) + Cardinality(OwnedBy(own, e))
      /\ h.state[e] = "dead" => h.refs[e] > 0
      /\ h.state[e] = "freed" => h.refs[e] = 0

Hinted(h, g) ==
    /\ \A x \in Arcs, s \in Sides : g[x][s] # NoHint =>
         /\ g[x][s].at \in ToSet(h.list[<<g[x][s].el, s>>])
         /\ g[x][s].at[1] = x
         /\ ~h.link[g[x][s].at].dead
         /\ h.state[x] = "live"
    /\ \A L \in ListIds : \A l \in ToSet(h.list[L]) :
         ~h.link[l].dead => g[l[1]][L[2]] = [el |-> L[1], at |-> l]

HeapInv(h, g, at, own) ==
    /\ h \in HeapType /\ g \in HintType /\ at \in AtType /\ own \in OwnerType
    /\ ListsOK(h)
    /\ LinkCounts(h, at)
    /\ RefCounts(h, at, own)
    /\ Hinted(h, g)

\* The hint of one end of an arc.
LEMMA HintShape ==
    ASSUME NEW g \in HintType, NEW x \in Arcs, NEW s \in Sides
    PROVE  /\ g[x][s] \in Hint
           /\ g[x][s] # NoHint => /\ g[x][s].el \in Elements /\ g[x][s].at \in Links
                                  /\ g[x][s] = [el |-> g[x][s].el, at |-> g[x][s].at]
           /\ g[x][s] = NoHint <=> g[x][s].el = None
<1>1. g[x][s] \in Hint
  BY DEF HintType
<1>2. \A v \in Hint : v # NoHint => v.el \in Elements /\ v.at \in Links /\ v = [el |-> v.el, at |-> v.at]
  BY DEF Hint
<1>3. NoHint.el = None
  BY DEF NoHint
<1> QED BY <1>1, <1>2, <1>3, LinkShape

\* Links in a list or under an iterator exist, and so do their arcs; no count is negative.
LEMMA HeapFacts ==
    ASSUME NEW h, NEW g, NEW at, NEW own, HeapInv(h, g, at, own)
    PROVE  /\ \A L \in ListIds : \A l \in ToSet(h.list[L]) :
                /\ l \in Links /\ l[2] = L[2] /\ h.link[l].refcnt # 0 /\ h.state[l[1]] # "freed"
           /\ \A c \in Slots : at[c] # None =>
                /\ at[c] \in Links /\ h.link[at[c]].refcnt # 0 /\ h.state[at[c][1]] # "freed"
                /\ \E L \in ListIds : at[c] \in ToSet(h.list[L])
           /\ \A l \in Links : h.link[l].refcnt \in Nat
           /\ \A e \in Elements : h.refs[e] \in Nat
<1>1. /\ h \in HeapType /\ g \in HintType /\ at \in AtType /\ own \in OwnerType
      /\ ListsOK(h) /\ LinkCounts(h, at) /\ RefCounts(h, at, own) /\ Hinted(h, g)
  BY DEF HeapInv
<1>2. \A l \in Links : h.link[l].refcnt \in Nat
  BY <1>1, SlotsFinite DEF LinkCounts
<1>3. \A e \in Elements : h.refs[e] \in Nat
  BY <1>1, SlotsFinite DEF RefCounts
<1>4. ASSUME NEW c \in Slots, at[c] # None
      PROVE  /\ at[c] \in Links /\ h.link[at[c]].refcnt # 0 /\ h.state[at[c][1]] # "freed"
             /\ \E L \in ListIds : at[c] \in ToSet(h.list[L])
  <2>1. at[c] \in Links /\ at[c][1] \in Elements
    BY <1>1, <1>4, LinkShape DEF AtType
  <2> DEFINE l == at[c]
  <2>2. c \in AtLink(at, l) /\ c \in AtArc(at, l[1])
    BY <1>4 DEF AtLink, AtArc, Arc
  <2>3. Cardinality(AtLink(at, l)) # 0 /\ Cardinality(AtArc(at, l[1])) # 0
    BY <2>2, SlotsFinite, FS_EmptySet
  <2>4. Cardinality(AtLink(at, l)) \in Nat /\ Cardinality(AtArc(at, l[1])) \in Nat
        /\ \A e : Cardinality(OwnedBy(own, e)) \in Nat
    BY SlotsFinite
  <2> HIDE DEF l
  <2>5. h.link[l].refcnt # 0
    BY <1>1, <2>1, <2>3, <2>4 DEF LinkCounts, l
  <2>6. h.state[l[1]] # "freed"
    BY <1>1, <2>1, <2>3, <2>4 DEF RefCounts, l
  <2>7. \E L \in ListIds : l \in ToSet(h.list[L])
    BY <1>1, <2>1, <2>5 DEF ListsOK, l
  <2> QED BY <2>1, <2>5, <2>6, <2>7 DEF l
<1>5. ASSUME NEW L \in ListIds, NEW l \in ToSet(h.list[L])
      PROVE  /\ l \in Links /\ l[2] = L[2] /\ h.link[l].refcnt # 0 /\ h.state[l[1]] # "freed"
  <2>1. l \in Links
    BY <1>1, HeapFields
  <2>2. l[2] = L[2] /\ h.link[l].refcnt # 0
    BY <1>1, <2>1 DEF ListsOK
  <2>3. CASE h.link[l].dead
    <3>1. Cardinality(AtLink(at, l)) # 0
      BY <1>1, <2>1, <2>2, <2>3, SlotsFinite DEF LinkCounts
    <3>2. PICK c : c \in AtLink(at, l)
      BY <3>1, FS_EmptySet
    <3>3. c \in Slots /\ at[c] = l /\ at[c] # None
      BY <3>2, <2>1, LinkShape DEF AtLink
    <3> QED BY <2>1, <2>2, <3>3, <1>4
  <2>4. CASE ~h.link[l].dead
    <3> DEFINE x == l[1]
               s == L[2]
    <3>1. x \in Arcs /\ s \in Sides
      BY <2>1, LinkShape
    <3>2. g[x][s] = [el |-> L[1], at |-> l]
      BY <1>1, <2>4 DEF Hinted
    <3>3. g[x][s] # NoHint
      BY <3>2, <2>1, LinkShape DEF NoHint
    <3>4. h.state[x] = "live"
      BY <1>1, <3>1, <3>3 DEF Hinted
    <3> QED BY <2>1, <2>2, <3>4
  <2> QED BY <2>3, <2>4
<1> QED BY <1>2, <1>3, <1>4, <1>5

\* An iterator that arrives at a link keeps the counts exact.
LEMMA Grabbed ==
    ASSUME NEW h, NEW g, NEW at, NEW own, HeapInv(h, g, at, own),
           NEW c \in Slots, at[c] = None, NEW L \in ListIds, NEW l \in ToSet(h.list[L]),
           NEW h2, h2 = Grab(h, l), NEW at2, at2 = Put(at, c, l)
    PROVE  HeapInv(h2, g, at2, own) /\ h2.list = h.list /\ h2.state = h.state
           /\ \A m \in Links : h2.link[m].dead = h.link[m].dead
<1>1. /\ h \in HeapType /\ g \in HintType /\ at \in AtType /\ own \in OwnerType
      /\ ListsOK(h) /\ LinkCounts(h, at) /\ RefCounts(h, at, own) /\ Hinted(h, g)
  BY DEF HeapInv
<1>2. /\ l \in Links /\ h.link[l].refcnt # 0 /\ h.state[l[1]] # "freed" /\ h.link[l].refcnt \in Nat
      /\ \A m \in Links : h.link[m].refcnt \in Int
  BY HeapFacts
<1>3. /\ h2 \in HeapType
      /\ h2.list = h.list /\ h2.state = h.state
      /\ h2.refs[l[1]] = h.refs[l[1]] + 1
      /\ \A e \in Elements \ {l[1]} : h2.refs[e] = h.refs[e]
      /\ \A m \in Links \ {l} : h2.link[m] = h.link[m]
      /\ h2.link[l] = [refcnt |-> h.link[l].refcnt + 1, dead |-> h.link[l].dead]
  BY <1>1, <1>2, GrabFields
<1>4. /\ at2 \in AtType
      /\ Cardinality(AtLink(at2, l)) = Cardinality(AtLink(at, l)) + 1
      /\ \A m \in Links \ {l} : AtLink(at2, m) = AtLink(at, m)
      /\ Cardinality(AtArc(at2, l[1])) = Cardinality(AtArc(at, l[1])) + 1
      /\ \A e \in Elements \ {l[1]} : AtArc(at2, e) = AtArc(at, e)
  <2>1. at \in [Slots -> Links \cup {None}] /\ l \in Links
    BY <1>1, <1>2 DEF AtType
  <2>2. /\ at2 \in [Slots -> Links \cup {None}]
        /\ Cardinality(AtLink(at2, l)) = Cardinality(AtLink(at, l)) + 1
        /\ \A m \in Links \ {l} : AtLink(at2, m) = AtLink(at, m)
        /\ Cardinality(AtArc(at2, l[1])) = Cardinality(AtArc(at, l[1])) + 1
        /\ \A e \in Elements \ {l[1]} : AtArc(at2, e) = AtArc(at, e)
    BY <2>1, Arrives
  <2> QED BY <2>2 DEF AtType
<1>5. \A m \in Links : h2.link[m].dead = h.link[m].dead /\ (h2.link[m].refcnt # 0 <=> h.link[m].refcnt # 0)
  BY <1>2, <1>3
<1>6. ListsOK(h2)
  <2>1. \A m \in Links : h2.link[m].refcnt = 0 => h2.link[m] = h.link[m]
    BY <1>2, <1>3
  <2> QED BY <1>1, <1>3, <1>5, <2>1 DEF ListsOK
<1>7. LinkCounts(h2, at2)
  <2> SUFFICES ASSUME NEW m \in Links
               PROVE  h2.link[m].refcnt = Cardinality(AtLink(at2, m))
                        + (IF h2.link[m].refcnt # 0 /\ ~h2.link[m].dead THEN 1 ELSE 0)
    BY DEF LinkCounts
  <2>1. Cardinality(AtLink(at, m)) \in Nat
    BY SlotsFinite
  <2>2. h.link[m].refcnt = Cardinality(AtLink(at, m))
                           + (IF h.link[m].refcnt # 0 /\ ~h.link[m].dead THEN 1 ELSE 0)
    BY <1>1 DEF LinkCounts
  <2>3. CASE m = l
    BY <1>2, <1>3, <1>4, <1>5, <2>1, <2>2, <2>3
  <2>4. CASE m # l
    BY <1>3, <1>4, <2>2, <2>4
  <2> QED BY <2>3, <2>4
<1>8. RefCounts(h2, at2, own)
  <2> SUFFICES ASSUME NEW e \in Elements
               PROVE  /\ h2.refs[e] = Cardinality(AtArc(at2, e)) + Cardinality(OwnedBy(own, e))
                      /\ h2.state[e] = "dead" => h2.refs[e] > 0
                      /\ h2.state[e] = "freed" => h2.refs[e] = 0
    BY DEF RefCounts
  <2>1. Cardinality(AtArc(at, e)) \in Nat /\ Cardinality(OwnedBy(own, e)) \in Nat /\ h.refs \in [Elements -> Int]
    BY <1>1, SlotsFinite, HeapFields
  <2>2. /\ h.refs[e] = Cardinality(AtArc(at, e)) + Cardinality(OwnedBy(own, e))
        /\ h.state[e] = "dead" => h.refs[e] > 0
        /\ h.state[e] = "freed" => h.refs[e] = 0
    BY <1>1 DEF RefCounts
  <2>3. CASE e = l[1]
    BY <1>2, <1>3, <1>4, <2>1, <2>2, <2>3
  <2>4. CASE e # l[1]
    BY <1>3, <1>4, <2>1, <2>2, <2>4
  <2> QED BY <2>3, <2>4
<1>9. Hinted(h2, g)
  <2>1. ASSUME NEW x \in Arcs, NEW s \in Sides, g[x][s] # NoHint
        PROVE  /\ g[x][s].at \in ToSet(h2.list[<<g[x][s].el, s>>])
               /\ g[x][s].at[1] = x
               /\ ~h2.link[g[x][s].at].dead
               /\ h2.state[x] = "live"
    BY <2>1, <1>1, <1>3, <1>5, HintShape DEF Hinted
  <2>2. ASSUME NEW M \in ListIds, NEW m \in ToSet(h2.list[M]), ~h2.link[m].dead
        PROVE  g[m[1]][M[2]] = [el |-> M[1], at |-> m]
    <3>1. m \in ToSet(h.list[M]) /\ m \in Links
      BY <1>3, <1>1, HeapFields
    <3> QED BY <3>1, <2>2, <1>1, <1>5 DEF Hinted
  <2> QED BY <2>1, <2>2 DEF Hinted
<1> QED BY <1>1, <1>3, <1>4, <1>5, <1>6, <1>7, <1>8, <1>9 DEF HeapInv

\* An iterator that leaves a link keeps the counts exact, also when the link or its arc goes
\* with it.
LEMMA Released ==
    ASSUME NEW h, NEW g, NEW at, NEW own, HeapInv(h, g, at, own),
           NEW c \in Slots, NEW l \in Links, at[c] = l,
           NEW h2, h2 = Release(h, l), NEW at2, at2 = Put(at, c, None)
    PROVE  /\ HeapInv(h2, g, at2, own)
           /\ Trimmed(h, h2)
           /\ \A e \in Elements : /\ h.state[e] = "live" => h2.state[e] = "live"
                                  /\ h2.state[e] = "live" => h.state[e] = "live"
<1>1. /\ h \in HeapType /\ g \in HintType /\ at \in AtType /\ own \in OwnerType
      /\ ListsOK(h) /\ LinkCounts(h, at) /\ RefCounts(h, at, own) /\ Hinted(h, g)
  BY DEF HeapInv
<1>2. /\ l \in Links /\ l # None /\ l[1] \in Elements
      /\ h.link[l].refcnt # 0 /\ h.state[l[1]] # "freed"
      /\ \A m \in Links : h.link[m].refcnt \in Nat
      /\ h.link[l].dead \in BOOLEAN
  <2>1. l \in Links /\ l # None /\ l[1] \in Elements
    BY LinkShape
  <2>2. h.link[l].dead \in BOOLEAN
    BY <1>1, HeapFields
  <2> QED BY <2>1, <2>2, HeapFacts
<1> DEFINE h1 == UnrefLink(h, l)
           v == [refcnt |-> h.link[l].refcnt - 1, dead |-> h.link[l].dead]
<1>3. h1 = LoseRef(h, l, v) /\ h2 = Unref(h1, l[1])
  BY <1>1, <1>2, LosesRef DEF Release, Arc
<1>3a. v \in LinkType /\ v.refcnt = h.link[l].refcnt - 1 /\ v.dead = h.link[l].dead
  BY <1>2 DEF LinkType
<1> HIDE DEF h1, v
<1>4. /\ h1 \in HeapType
      /\ ListsOK(h1)
      /\ Trimmed(h, h1)
      /\ \A m \in Links \ {l} : h1.link[m] = h.link[m]
      /\ h1.link[l].refcnt = h.link[l].refcnt - 1
      /\ h1.link[l].refcnt # 0 => h1.link[l] = v
      /\ \A L \in ListIds : \A m \in Links :
           m \in ToSet(h1.list[L]) <=> m \in ToSet(h.list[L]) /\ h1.link[m].refcnt # 0
      /\ h1.state = h.state /\ h1.refs = h.refs
  BY <1>1, <1>2, <1>3, <1>3a, RefLost
<1>4a. h1.link[l].refcnt # 0 => h1.link[l].dead = h.link[l].dead
  BY <1>3a, <1>4
<1>5. /\ h2 \in HeapType
      /\ h2.list = h1.list /\ h2.link = h1.link
      /\ h2.refs[l[1]] = h.refs[l[1]] - 1
      /\ h2.state[l[1]] = IF h.state[l[1]] = "dead" /\ h.refs[l[1]] = 1 THEN "freed" ELSE h.state[l[1]]
      /\ \A e \in Elements \ {l[1]} : h2.refs[e] = h.refs[e] /\ h2.state[e] = h.state[e]
  <2>1. h1 \in HeapType /\ l[1] \in Elements /\ h2 = Unref(h1, l[1])
    BY <1>2, <1>3, <1>4
  <2>2. /\ h2 \in HeapType
        /\ h2.list = h1.list /\ h2.link = h1.link
        /\ h2.refs[l[1]] = h1.refs[l[1]] - 1
        /\ h2.state[l[1]] = IF h1.state[l[1]] = "dead" /\ h1.refs[l[1]] = 1 THEN "freed" ELSE h1.state[l[1]]
        /\ \A e \in Elements \ {l[1]} : h2.refs[e] = h1.refs[e] /\ h2.state[e] = h1.state[e]
    BY <2>1, UnrefFields
  <2> QED BY <2>2, <1>4
<1>6. /\ at2 \in AtType
      /\ Cardinality(AtLink(at2, l)) = Cardinality(AtLink(at, l)) - 1
      /\ Cardinality(AtLink(at, l)) > 0
      /\ \A m \in Links \ {l} : AtLink(at2, m) = AtLink(at, m)
      /\ Cardinality(AtArc(at2, l[1])) = Cardinality(AtArc(at, l[1])) - 1
      /\ Cardinality(AtArc(at, l[1])) > 0
      /\ \A e \in Elements \ {l[1]} : AtArc(at2, e) = AtArc(at, e)
  <2>1. at \in [Slots -> Links \cup {None}] /\ l \in Links
    BY <1>1, <1>2 DEF AtType
  <2>2. /\ at2 \in [Slots -> Links \cup {None}]
        /\ Cardinality(AtLink(at2, l)) = Cardinality(AtLink(at, l)) - 1
        /\ Cardinality(AtLink(at, l)) > 0
        /\ \A m \in Links \ {l} : AtLink(at2, m) = AtLink(at, m)
        /\ Cardinality(AtArc(at2, l[1])) = Cardinality(AtArc(at, l[1])) - 1
        /\ Cardinality(AtArc(at, l[1])) > 0
        /\ \A e \in Elements \ {l[1]} : AtArc(at2, e) = AtArc(at, e)
    BY <2>1, Leaves
  <2> QED BY <2>2 DEF AtType
<1>7. ListsOK(h2) /\ Trimmed(h, h2)
  <2>1. ListsOK(h2)
    BY <1>4, <1>5 DEF ListsOK
  <2>2. Trimmed(h, h2)
    BY <1>4, <1>5 DEF Trimmed
  <2> QED BY <2>1, <2>2
<1>8. LinkCounts(h2, at2)
  <2> SUFFICES ASSUME NEW m \in Links
               PROVE  h2.link[m].refcnt = Cardinality(AtLink(at2, m))
                        + (IF h2.link[m].refcnt # 0 /\ ~h2.link[m].dead THEN 1 ELSE 0)
    BY DEF LinkCounts
  <2>1. Cardinality(AtLink(at, m)) \in Nat
    BY SlotsFinite
  <2>2. h.link[m].refcnt = Cardinality(AtLink(at, m))
                           + (IF h.link[m].refcnt # 0 /\ ~h.link[m].dead THEN 1 ELSE 0)
    BY <1>1 DEF LinkCounts
  <2>3. CASE m = l
    <3> DEFINE n == h.link[l].refcnt
               C == Cardinality(AtLink(at, l))
               d == h.link[l].dead
    <3>1. n = C + (IF n # 0 /\ ~d THEN 1 ELSE 0) /\ n # 0 /\ C \in Nat /\ n \in Nat /\ C > 0
      BY <1>2, <1>6, <2>1, <2>2, <2>3
    <3>2. h2.link[l].refcnt = n - 1 /\ (n - 1 # 0 => h2.link[l].dead = d)
      BY <1>4, <1>4a, <1>5
    <3>3. Cardinality(AtLink(at2, l)) = C - 1
      BY <1>6
    <3> HIDE DEF n, C, d
    <3>4. h2.link[l].refcnt = C - 1 + (IF h2.link[l].refcnt # 0 /\ ~h2.link[l].dead THEN 1 ELSE 0)
      <4>1. CASE n - 1 = 0
        BY <4>1, <3>1, <3>2
      <4>2. CASE n - 1 # 0
        BY <4>2, <3>1, <3>2
      <4> QED BY <4>1, <4>2
    <3> QED BY <3>3, <3>4, <2>3
  <2>4. CASE m # l
    <3>1. h2.link[m] = h.link[m] /\ AtLink(at2, m) = AtLink(at, m)
      BY <1>4, <1>5, <1>6, <2>4
    <3> QED BY <3>1, <2>2
  <2> QED BY <2>3, <2>4
<1>9. RefCounts(h2, at2, own)
  <2> SUFFICES ASSUME NEW e \in Elements
               PROVE  /\ h2.refs[e] = Cardinality(AtArc(at2, e)) + Cardinality(OwnedBy(own, e))
                      /\ h2.state[e] = "dead" => h2.refs[e] > 0
                      /\ h2.state[e] = "freed" => h2.refs[e] = 0
    BY DEF RefCounts
  <2>1. /\ Cardinality(AtArc(at, e)) \in Nat /\ Cardinality(OwnedBy(own, e)) \in Nat
        /\ h.refs \in [Elements -> Int] /\ h.state \in [Elements -> {"live", "dead", "freed"}]
    BY <1>1, SlotsFinite, HeapFields
  <2>2. /\ h.refs[e] = Cardinality(AtArc(at, e)) + Cardinality(OwnedBy(own, e))
        /\ h.state[e] = "dead" => h.refs[e] > 0
        /\ h.state[e] = "freed" => h.refs[e] = 0
    BY <1>1 DEF RefCounts
  <2>3. CASE e = l[1]
    <3>1. h2.refs[e] = h.refs[e] - 1
      BY <1>5, <2>1, <2>3
    <3>2. h2.state[e] = IF h.state[e] = "dead" /\ h.refs[e] = 1 THEN "freed" ELSE h.state[e]
      BY <1>5, <2>1, <2>3
    <3>3. Cardinality(AtArc(at2, e)) = Cardinality(AtArc(at, e)) - 1 /\ h.refs[e] \in Nat /\ h.refs[e] > 0
      BY <1>6, <2>1, <2>2, <2>3
    <3>4. h.state[e] # "freed"
      BY <1>2, <2>3
    <3> QED BY <2>1, <2>2, <3>1, <3>2, <3>3, <3>4
  <2>4. CASE e # l[1]
    BY <1>5, <1>6, <2>1, <2>2, <2>4
  <2> QED BY <2>3, <2>4
<1>10. \A e \in Elements : /\ h.state[e] = "live" => h2.state[e] = "live"
                           /\ h2.state[e] = "live" => h.state[e] = "live"
  <2>1. h.state \in [Elements -> {"live", "dead", "freed"}]
    BY <1>1, HeapFields
  <2> QED BY <1>2, <1>5, <2>1
<1>11. Hinted(h2, g)
  <2>0. h2.link[l].refcnt = 0 => h.link[l].dead
    <3>1. h.link[l].refcnt = Cardinality(AtLink(at, l))
                             + (IF h.link[l].refcnt # 0 /\ ~h.link[l].dead THEN 1 ELSE 0)
      BY <1>1 DEF LinkCounts
    <3>2. Cardinality(AtLink(at, l)) \in Nat
      BY SlotsFinite
    <3>3. h2.link[l].refcnt = h.link[l].refcnt - 1
      BY <1>4, <1>4a, <1>5
    <3> QED BY <1>2, <1>6, <3>1, <3>2, <3>3
  <2>1. ASSUME NEW x \in Arcs, NEW s \in Sides, g[x][s] # NoHint
        PROVE  /\ g[x][s].at \in ToSet(h2.list[<<g[x][s].el, s>>])
               /\ g[x][s].at[1] = x
               /\ ~h2.link[g[x][s].at].dead
               /\ h2.state[x] = "live"
    <3> DEFINE m == g[x][s].at
               L == <<g[x][s].el, s>>
    <3>1. m \in Links /\ L \in ListIds /\ x \in Elements
      BY <1>1, <2>1, HintShape, LinkShape DEF Elements
    <3>2. m \in ToSet(h.list[L]) /\ m[1] = x /\ ~h.link[m].dead /\ h.state[x] = "live"
      BY <1>1, <2>1 DEF Hinted
    <3> HIDE DEF m, L
    <3>3. h.link[m].refcnt # 0
      BY <3>1, <3>2, HeapFacts
    <3>4. h2.link[m].refcnt # 0 /\ ~h2.link[m].dead
      BY <1>4, <1>4a, <1>5, <2>0, <3>1, <3>2, <3>3
    <3>5. m \in ToSet(h2.list[L])
      BY <1>4, <1>5, <3>1, <3>2, <3>4
    <3>6. h2.state[x] = "live"
      BY <3>1, <3>2, <1>10
    <3> QED BY <3>2, <3>4, <3>5, <3>6 DEF m, L
  <2>2. ASSUME NEW M \in ListIds, NEW m \in ToSet(h2.list[M]), ~h2.link[m].dead
        PROVE  g[m[1]][M[2]] = [el |-> M[1], at |-> m]
    <3>1. m \in Links
      BY <1>5, HeapFields
    <3>2. m \in ToSet(h.list[M]) /\ h2.link[m].refcnt # 0
      BY <1>4, <1>5, <3>1
    <3>3. ~h.link[m].dead
      BY <1>4, <1>4a, <1>5, <2>2, <3>1, <3>2
    <3> QED BY <3>2, <3>3, <1>1 DEF Hinted
  <2> QED BY <2>1, <2>2 DEF Hinted
<1> QED BY <1>1, <1>5, <1>6, <1>7, <1>8, <1>9, <1>10, <1>11 DEF HeapInv

PutHint(g, x, s, v) == [g EXCEPT ![x][s] = v]

\* One end of one arc gets a new hint.
LEMMA HintPut ==
    ASSUME NEW g \in HintType, NEW x \in Arcs, NEW s \in Sides, NEW v \in Hint,
           NEW g2, g2 = PutHint(g, x, s, v)
    PROVE  /\ g2 \in HintType
           /\ g2[x][s] = v
           /\ \A y \in Arcs, t \in Sides : y # x \/ t # s => g2[y][t] = g[y][t]
BY DEF PutHint, HintType

\* detach: an arc leaves its end, whatever iterators stand at its link, and the counts stay exact.
LEMMA Detached ==
    ASSUME NEW h, NEW g, NEW at, NEW own, HeapInv(h, g, at, own),
           NEW x \in Arcs, NEW s \in Sides,
           NEW h2, h2 = detach(h, g[x][s]), NEW g2, g2 = PutHint(g, x, s, NoHint)
    PROVE  /\ HeapInv(h2, g2, at, own)
           /\ Trimmed(h, h2)
           /\ h2.state = h.state
<1>1. /\ h \in HeapType /\ g \in HintType /\ at \in AtType /\ own \in OwnerType
      /\ ListsOK(h) /\ LinkCounts(h, at) /\ RefCounts(h, at, own) /\ Hinted(h, g)
  BY DEF HeapInv
<1>2. /\ g2 \in HintType
      /\ g2[x][s] = NoHint
      /\ \A y \in Arcs, t \in Sides : y # x \/ t # s => g2[y][t] = g[y][t]
  BY <1>1, HintPut DEF Hint
<1>3. CASE g[x][s] = NoHint
  <2>1. h2 = h
    BY <1>3 DEF detach, NoHint
  <2>2. \A y \in Arcs, t \in Sides : g2[y][t] = g[y][t]
    BY <1>2, <1>3
  <2>3. Hinted(h, g2)
    <3>1. ASSUME NEW M \in ListIds, NEW m \in ToSet(h.list[M]), ~h.link[m].dead
          PROVE  g2[m[1]][M[2]] = [el |-> M[1], at |-> m]
      <4>1. m[1] \in Arcs /\ M[2] \in Sides
        BY <1>1, HeapFields, LinkShape
      <4> QED BY <4>1, <3>1, <2>2, <1>1 DEF Hinted
    <3> QED BY <3>1, <2>2, <1>1 DEF Hinted
  <2> QED BY <1>1, <1>2, <2>1, <2>3 DEF HeapInv, Trimmed
<1>4. CASE g[x][s] # NoHint
  <2> DEFINE l == g[x][s].at
  <2>1. /\ l \in Links /\ g[x][s].el \in Elements /\ g[x][s].el # None
        /\ l \in ToSet(h.list[<<g[x][s].el, s>>]) /\ l[1] = x /\ ~h.link[l].dead
        /\ <<g[x][s].el, s>> \in ListIds
    BY <1>1, <1>4, HintShape, LinkShape DEF Hinted
  <2>2. l[2] = s /\ h.link[l].refcnt # 0 /\ \A m \in Links : h.link[m].refcnt \in Nat
    BY <2>1, HeapFacts, LinkShape
  <2> DEFINE v == [refcnt |-> h.link[l].refcnt - 1, dead |-> TRUE]
  <2>3. h2 = LoseRef(h, l, v) /\ v \in LinkType /\ v.refcnt = h.link[l].refcnt - 1 /\ v.dead
    <3>1. h2 = DieLink(h, l)
      BY <2>1 DEF detach
    <3>2. DieLink(h, l) = LoseRef(h, l, v)
      BY <1>1, <2>1, <2>2, LosesRef
    <3>3. v \in LinkType /\ v.refcnt = h.link[l].refcnt - 1 /\ v.dead
      BY <2>1, <2>2 DEF LinkType
    <3> QED BY <3>1, <3>2, <3>3
  <2>3a. l = g[x][s].at
    OBVIOUS
  <2> HIDE DEF l, v
  <2>4. /\ h2 \in HeapType
        /\ ListsOK(h2)
        /\ Trimmed(h, h2)
        /\ \A m \in Links \ {l} : h2.link[m] = h.link[m]
        /\ h2.link[l].refcnt = h.link[l].refcnt - 1
        /\ h2.link[l].refcnt # 0 => h2.link[l] = v
        /\ \A L \in ListIds : \A m \in Links :
             m \in ToSet(h2.list[L]) <=> m \in ToSet(h.list[L]) /\ h2.link[m].refcnt # 0
        /\ h2.state = h.state /\ h2.refs = h.refs
    BY <1>1, <2>1, <2>2, <2>3, RefLost
  <2>5. LinkCounts(h2, at)
    <3> SUFFICES ASSUME NEW m \in Links
                 PROVE  h2.link[m].refcnt = Cardinality(AtLink(at, m))
                          + (IF h2.link[m].refcnt # 0 /\ ~h2.link[m].dead THEN 1 ELSE 0)
      BY DEF LinkCounts
    <3>1. Cardinality(AtLink(at, m)) \in Nat
      BY SlotsFinite
    <3>2. h.link[m].refcnt = Cardinality(AtLink(at, m))
                             + (IF h.link[m].refcnt # 0 /\ ~h.link[m].dead THEN 1 ELSE 0)
      BY <1>1 DEF LinkCounts
    <3>3. CASE m = l
      <4> DEFINE n == h.link[l].refcnt
                 C == Cardinality(AtLink(at, l))
      <4>1. n = C + 1 /\ C \in Nat
        BY <2>1, <2>2, <3>1, <3>2, <3>3
      <4>2. h2.link[l].refcnt = n - 1 /\ (n - 1 # 0 => h2.link[l].dead)
        BY <2>3, <2>4
      <4> HIDE DEF n, C
      <4>3. h2.link[l].refcnt = C + (IF h2.link[l].refcnt # 0 /\ ~h2.link[l].dead THEN 1 ELSE 0)
        BY <4>1, <4>2
      <4> QED BY <4>3, <3>3 DEF C
    <3>4. CASE m # l
      <4>1. h2.link[m] = h.link[m]
        BY <2>4, <3>4
      <4> QED BY <4>1, <3>2
    <3> QED BY <3>3, <3>4
  <2>6. RefCounts(h2, at, own)
    BY <1>1, <2>4 DEF RefCounts
  <2>7. Hinted(h2, g2)
    <3>1. ASSUME NEW y \in Arcs, NEW t \in Sides, g2[y][t] # NoHint
          PROVE  /\ g2[y][t].at \in ToSet(h2.list[<<g2[y][t].el, t>>])
                 /\ g2[y][t].at[1] = y
                 /\ ~h2.link[g2[y][t].at].dead
                 /\ h2.state[y] = "live"
      <4>1. g2[y][t] = g[y][t] /\ (y # x \/ t # s)
        BY <3>1, <1>2
      <4> DEFINE m == g[y][t].at
                 L == <<g[y][t].el, t>>
      <4>2. m \in Links /\ L \in ListIds /\ L[2] = t
        BY <1>1, <3>1, <4>1, HintShape, LinkShape
      <4>3. m \in ToSet(h.list[L]) /\ m[1] = y /\ ~h.link[m].dead /\ h.state[y] = "live"
        BY <1>1, <3>1, <4>1 DEF Hinted
      <4> HIDE DEF m, L
      <4>4. m[2] = t /\ h.link[m].refcnt # 0
        BY <4>2, <4>3, HeapFacts
      <4>5. m # l
  BY <2>1, <2>2, <4>1, <4>3, <4>4
      <4>6. h2.link[m] = h.link[m]
        BY <2>4, <4>2, <4>5
      <4>7. m \in ToSet(h2.list[L])
        BY <2>4, <4>2, <4>3, <4>4, <4>6
      <4>8. h2.state[y] = "live"
        BY <2>4, <4>3
      <4> QED BY <4>1, <4>3, <4>6, <4>7, <4>8 DEF m, L
    <3>2. ASSUME NEW M \in ListIds, NEW m \in ToSet(h2.list[M]), ~h2.link[m].dead
          PROVE  g2[m[1]][M[2]] = [el |-> M[1], at |-> m]
      <4>1. m \in Links
        BY <2>4, HeapFields
      <4>2. m \in ToSet(h.list[M]) /\ h2.link[m].refcnt # 0
        BY <2>4, <4>1
      <4>3. m # l
        BY <2>3, <2>4, <3>2, <4>2
      <4>4. ~h.link[m].dead
        BY <2>4, <3>2, <4>1, <4>3
      <4>5. g[m[1]][M[2]] = [el |-> M[1], at |-> m]
        BY <1>1, <4>2, <4>4 DEF Hinted
      <4>6. g[m[1]][M[2]].at = m
        BY <4>5
      <4>7. m[1] # x \/ M[2] # s
        BY <2>3a, <4>3, <4>6
      <4>8. m[1] \in Arcs /\ M[2] \in Sides
        BY <4>1, LinkShape
      <4> QED BY <1>2, <4>5, <4>7, <4>8
    <3> QED BY <3>1, <3>2 DEF Hinted
  <2> QED BY <1>1, <1>2, <2>4, <2>5, <2>6, <2>7 DEF HeapInv
<1> QED BY <1>3, <1>4

\* One more link of a side of an arc may exist.
HasFree(h, x, s) == \E k \in 1..Copies : h.link[<<x, s, k>>] = FreeLink

\* attach: an arc without this end gets a free link at the tail of the list of its end.
LEMMA Attached ==
    ASSUME NEW h, NEW g, NEW at, NEW own, HeapInv(h, g, at, own),
           NEW x \in Arcs, NEW L \in ListIds, g[x][L[2]] = NoHint, h.state[x] = "live",
           HasFree(h, x, L[2]),
           NEW r, r = attach(h, x, L), NEW g2, g2 = PutHint(g, x, L[2], r.hint)
    PROVE  /\ HeapInv(r.heap, g2, at, own)
           /\ r.hint.el = L[1] /\ r.hint # NoHint
           /\ r.hint.at \in Links /\ r.hint.at[1] = x
           /\ \A M \in ListIds : r.hint.at \notin ToSet(h.list[M])
           /\ r.heap.list[L] = Append(h.list[L], r.hint.at)
           /\ \A M \in ListIds \ {L} : r.heap.list[M] = h.list[M]
           /\ \A m \in Links \ {r.hint.at} : r.heap.link[m] = h.link[m]
           /\ r.heap.state = h.state
<1>1. /\ h \in HeapType /\ g \in HintType /\ at \in AtType /\ own \in OwnerType
      /\ ListsOK(h) /\ LinkCounts(h, at) /\ RefCounts(h, at, own) /\ Hinted(h, g)
  BY DEF HeapInv
<1> DEFINE s == L[2]
           k == CHOOSE k \in 1..Copies : h.link[<<x, L[2], k>>] = FreeLink
           l == <<x, L[2], k>>
           v == [refcnt |-> 1, dead |-> FALSE]
           h2 == r.heap
<1>2. k \in 1..Copies /\ h.link[l] = FreeLink
  BY DEF HasFree
<1>3. /\ h2 = [h EXCEPT !.list[L] = Append(@, l), !.link[l] = v]
      /\ r.hint = [el |-> L[1], at |-> l]
  BY DEF attach
<1>4. /\ l \in Links /\ l[1] = x /\ l[2] = s /\ s \in Sides /\ L[1] \in Elements
      /\ L = <<L[1], s>> /\ x \in Elements /\ L[1] # None
  BY <1>2, LinkShape DEF Elements
<1> HIDE DEF k, l, s
<1>5. h.link[l].refcnt = 0 /\ \A M \in ListIds : l \notin ToSet(h.list[M])
  BY <1>1, <1>2, <1>4 DEF ListsOK, FreeLink
<1>6. /\ h2 \in HeapType /\ h2.state = h.state /\ h2.refs = h.refs
      /\ h2.list[L] = Append(h.list[L], l)
      /\ \A M \in ListIds \ {L} : h2.list[M] = h.list[M]
      /\ h2.link[l] = v
      /\ \A m \in Links \ {l} : h2.link[m] = h.link[m]
  <2> DEFINE ls == [h.list EXCEPT ![L] = Append(h.list[L], l)]
             lk == [h.link EXCEPT ![l] = v]
  <2>1. h.list[L] \in Seq(Links)
    BY <1>1, HeapFields
  <2>2. Append(h.list[L], l) \in Seq(Links)
    BY <1>4, <2>1, AppendProperties
  <2>3. v \in LinkType
    BY DEF LinkType
  <2> HIDE DEF v
  <2>4. /\ ls \in [ListIds -> Seq(Links)] /\ lk \in [Links -> LinkType]
        /\ ls[L] = Append(h.list[L], l) /\ \A M \in ListIds \ {L} : ls[M] = h.list[M]
        /\ lk[l] = v /\ \A m \in Links \ {l} : lk[m] = h.link[m]
    BY <1>1, <1>4, <2>2, <2>3, HeapFields
  <2>5. h2 = [[h EXCEPT !.list[L] = Append(@, l)] EXCEPT !.link[l] = v]
    BY <1>3
  <2>6. [h EXCEPT !.list[L] = Append(@, l)] = [h EXCEPT !.list = ls]
    OBVIOUS
  <2> HIDE DEF ls
  <2>7. [h EXCEPT !.list = ls] = [list |-> ls, link |-> h.link, state |-> h.state, refs |-> h.refs]
    BY <1>1, HeapUpdates
  <2>8. h2 = [list |-> ls, link |-> lk, state |-> h.state, refs |-> h.refs]
    BY <2>5, <2>6, <2>7
  <2> HIDE DEF lk
  <2> QED BY <1>1, <2>4, <2>8, HeapFields DEF HeapType
<1>7. /\ IsInjective(h2.list[L])
      /\ ToSet(h2.list[L]) = ToSet(h.list[L]) \cup {l}
  <2>1. h.list[L] \in Seq(Links) /\ IsInjective(h.list[L])
    BY <1>1, HeapFields DEF ListsOK
  <2>2. l \in Links /\ l \notin ToSet(h.list[L]) /\ h2.list[L] = Append(h.list[L], l)
    BY <1>4, <1>5, <1>6
  <2>3. PICK u, t : u = h.list[L] /\ t = h2.list[L]
    OBVIOUS
  <2>4. u \in Seq(Links) /\ IsInjective(u) /\ l \in Links /\ l \notin ToSet(u) /\ t = Append(u, l)
    BY <2>1, <2>2, <2>3
  <2>5. IsInjective(t) /\ ToSet(t) = ToSet(u) \cup {l}
    <3>1. IsAppended(Links, u, l, t)
      BY <2>4 DEF IsAppended
    <3> QED BY <2>4, <3>1, Appended
  <2> QED BY <2>3, <2>5
<1>7a. \A M \in ListIds : \A m : m \in ToSet(h2.list[M]) <=> m \in ToSet(h.list[M]) \/ (M = L /\ m = l)
  <2> SUFFICES ASSUME NEW M \in ListIds
               PROVE  \A m : m \in ToSet(h2.list[M]) <=> m \in ToSet(h.list[M]) \/ (M = L /\ m = l)
    OBVIOUS
  <2>1. CASE M = L
    BY <1>7, <2>1
  <2>2. CASE M # L
    <3>1. h2.list[M] = h.list[M]
      BY <1>6, <2>2
    <3> QED BY <3>1, <2>2
  <2> QED BY <2>1, <2>2
<1>8. v.refcnt = 1 /\ v.dead = FALSE
  OBVIOUS
<1> HIDE DEF v, h2
<1>9. ListsOK(h2)
  <2>1. ASSUME NEW M \in ListIds
        PROVE  IsInjective(h2.list[M]) /\ \A m \in ToSet(h2.list[M]) : m[2] = M[2]
    <3>1. CASE M = L
      BY <1>1, <1>4, <1>7, <3>1 DEF ListsOK, s
    <3>2. CASE M # L
      BY <1>1, <1>6, <3>2 DEF ListsOK
    <3> QED BY <3>1, <3>2
  <2>2. ASSUME NEW M \in ListIds, NEW N \in ListIds, NEW m \in ToSet(h2.list[M]), m \in ToSet(h2.list[N])
        PROVE  M = N
    <3>1. CASE m = l
      <4>1. M = L /\ N = L
        BY <1>5, <1>6, <2>2, <3>1
      <4> QED BY <4>1
    <3>2. CASE m # l
      <4>1. m \in ToSet(h.list[M]) /\ m \in ToSet(h.list[N])
        BY <1>7a, <2>2, <3>2
      <4> QED BY <4>1, <1>1 DEF ListsOK
    <3> QED BY <3>1, <3>2
  <2>3. ASSUME NEW m \in Links
        PROVE  /\ h2.link[m].refcnt # 0 <=> \E M \in ListIds : m \in ToSet(h2.list[M])
               /\ h2.link[m].refcnt = 0 => h2.link[m] = FreeLink
    <3>1. CASE m = l
      <4>1. h2.link[m].refcnt = 1 /\ m \in ToSet(h2.list[L])
        BY <1>6, <1>7, <1>8, <3>1
      <4> QED BY <4>1
    <3>2. CASE m # l
      <4>1. h2.link[m] = h.link[m]
        BY <1>6, <3>2
      <4>2. \A M \in ListIds : m \in ToSet(h2.list[M]) <=> m \in ToSet(h.list[M])
        BY <1>7a, <3>2
      <4> QED BY <4>1, <4>2, <1>1 DEF ListsOK
    <3> QED BY <3>1, <3>2
  <2> QED BY <2>1, <2>2, <2>3 DEF ListsOK
<1>10. LinkCounts(h2, at)
  <2> SUFFICES ASSUME NEW m \in Links
               PROVE  h2.link[m].refcnt = Cardinality(AtLink(at, m))
                        + (IF h2.link[m].refcnt # 0 /\ ~h2.link[m].dead THEN 1 ELSE 0)
    BY DEF LinkCounts
  <2>1. h.link[m].refcnt = Cardinality(AtLink(at, m))
                           + (IF h.link[m].refcnt # 0 /\ ~h.link[m].dead THEN 1 ELSE 0)
    BY <1>1 DEF LinkCounts
  <2>2. Cardinality(AtLink(at, m)) \in Nat
    BY SlotsFinite
  <2>3. CASE m = l
    BY <1>5, <1>6, <1>8, <2>1, <2>2, <2>3
  <2>4. CASE m # l
    <3>1. h2.link[m] = h.link[m]
      BY <1>6, <2>4
    <3> QED BY <3>1, <2>1
  <2> QED BY <2>3, <2>4
<1>11. RefCounts(h2, at, own)
  BY <1>1, <1>6 DEF RefCounts
<1>12. /\ r.hint \in Hint /\ r.hint.el = L[1] /\ r.hint.at = l /\ r.hint # NoHint
  BY <1>3, <1>4 DEF Hint, NoHint
<1>13. /\ g2 \in HintType
       /\ g2[x][s] = r.hint
       /\ \A y \in Arcs, t \in Sides : y # x \/ t # s => g2[y][t] = g[y][t]
  BY <1>1, <1>4, <1>12, HintPut DEF s
<1>14. Hinted(h2, g2)
  <2>1. ASSUME NEW y \in Arcs, NEW t \in Sides, g2[y][t] # NoHint
        PROVE  /\ g2[y][t].at \in ToSet(h2.list[<<g2[y][t].el, t>>])
               /\ g2[y][t].at[1] = y
               /\ ~h2.link[g2[y][t].at].dead
               /\ h2.state[y] = "live"
    <3>1. CASE y = x /\ t = s
      <4>1. g2[y][t].at = l /\ <<g2[y][t].el, t>> = L
        BY <1>4, <1>12, <1>13, <3>1
      <4>2. l \in ToSet(h2.list[L]) /\ ~h2.link[l].dead /\ h2.state[x] = "live"
        BY <1>6, <1>7, <1>8
      <4> QED BY <1>4, <3>1, <4>1, <4>2
    <3>2. CASE y # x \/ t # s
      <4>1. g2[y][t] = g[y][t]
        BY <3>2, <1>13
      <4> DEFINE m == g[y][t].at
                 M == <<g[y][t].el, t>>
      <4>2. m \in Links /\ M \in ListIds
        BY <1>1, <2>1, <4>1, HintShape, LinkShape
      <4>3. m \in ToSet(h.list[M]) /\ m[1] = y /\ ~h.link[m].dead /\ h.state[y] = "live"
        BY <1>1, <2>1, <4>1 DEF Hinted
      <4> HIDE DEF m, M
      <4>4. m # l
        BY <1>5, <4>2, <4>3
      <4>5. h2.link[m] = h.link[m] /\ m \in ToSet(h2.list[M])
        BY <1>6, <1>7, <4>2, <4>3, <4>4
      <4>6. h2.state[y] = "live"
        BY <1>6, <4>3
      <4> QED BY <4>1, <4>3, <4>5, <4>6 DEF m, M
    <3> QED BY <3>1, <3>2
  <2>2. ASSUME NEW M \in ListIds, NEW m \in ToSet(h2.list[M]), ~h2.link[m].dead
        PROVE  g2[m[1]][M[2]] = [el |-> M[1], at |-> m]
    <3>1. CASE m = l
      <4>1. M = L
        BY <1>5, <1>6, <2>2, <3>1
      <4> QED BY <1>3, <1>4, <1>13, <3>1, <4>1
    <3>2. CASE m # l
      <4>1. m \in ToSet(h.list[M])
        BY <1>6, <1>7, <3>2
      <4>2. m \in Links /\ m[1] \in Arcs /\ M[2] \in Sides /\ m # None
        BY <4>1, <1>1, HeapFields, LinkShape
      <4>3. ~h.link[m].dead
        BY <1>6, <2>2, <3>2, <4>2
      <4>4. g[m[1]][M[2]] = [el |-> M[1], at |-> m]
        BY <1>1, <4>1, <4>3 DEF Hinted
      <4>5. g[m[1]][M[2]] # NoHint
        BY <4>2, <4>4 DEF NoHint
      <4>6. m[1] # x \/ M[2] # s
        BY <4>5 DEF s
      <4> QED BY <1>13, <4>2, <4>4, <4>6
    <3> QED BY <3>1, <3>2
  <2> QED BY <2>1, <2>2 DEF Hinted
<1>15. HeapInv(h2, g2, at, own)
  BY <1>1, <1>6, <1>9, <1>10, <1>11, <1>13, <1>14 DEF HeapInv
<1> QED BY <1>4, <1>5, <1>6, <1>12, <1>15 DEF h2

\* die() keeps the counts exact, if an arc that dies has left its ends.
LEMMA ElementDied ==
    ASSUME NEW h, NEW g, NEW at, NEW own, HeapInv(h, g, at, own),
           NEW x \in Elements, x \in Arcs => \A s \in Sides : g[x][s] = NoHint,
           NEW h2, h2 = die(h, x)
    PROVE  /\ HeapInv(h2, g, at, own)
           /\ h2.list = h.list
           /\ \A e \in Elements \ {x} : h2.state[e] = h.state[e]
<1>1. /\ h \in HeapType /\ g \in HintType /\ at \in AtType /\ own \in OwnerType
      /\ ListsOK(h) /\ LinkCounts(h, at) /\ RefCounts(h, at, own) /\ Hinted(h, g)
  BY DEF HeapInv
<1>2. /\ h2 \in HeapType
      /\ h2.list = h.list /\ h2.link = h.link /\ h2.refs = h.refs
      /\ \A e \in Elements \ {x} : h2.state[e] = h.state[e]
      /\ h.state[x] # "live" => h2.state[x] = h.state[x]
      /\ h.state[x] = "live" => h2.state[x] = IF h.refs[x] = 0 THEN "freed" ELSE "dead"
  BY <1>1, DieFields
<1>3. ListsOK(h2) /\ LinkCounts(h2, at)
  BY <1>1, <1>2 DEF ListsOK, LinkCounts
<1>4. RefCounts(h2, at, own)
  <2> SUFFICES ASSUME NEW e \in Elements
               PROVE  /\ h2.refs[e] = Cardinality(AtArc(at, e)) + Cardinality(OwnedBy(own, e))
                      /\ h2.state[e] = "dead" => h2.refs[e] > 0
                      /\ h2.state[e] = "freed" => h2.refs[e] = 0
    BY DEF RefCounts
  <2>1. /\ h.refs[e] = Cardinality(AtArc(at, e)) + Cardinality(OwnedBy(own, e))
        /\ h.state[e] = "dead" => h.refs[e] > 0
        /\ h.state[e] = "freed" => h.refs[e] = 0
    BY <1>1 DEF RefCounts
  <2>2. h.refs[e] \in Nat
    BY HeapFacts
  <2>3. CASE e = x
    BY <1>2, <2>1, <2>2, <2>3
  <2>4. CASE e # x
    BY <1>2, <2>1, <2>4
  <2> QED BY <2>3, <2>4
<1>5. Hinted(h2, g)
  <2>1. ASSUME NEW y \in Arcs, NEW s \in Sides, g[y][s] # NoHint
        PROVE  /\ g[y][s].at \in ToSet(h2.list[<<g[y][s].el, s>>])
               /\ g[y][s].at[1] = y
               /\ ~h2.link[g[y][s].at].dead
               /\ h2.state[y] = "live"
    <3>1. y \in Elements \ {x}
      BY <2>1 DEF Elements
    <3> QED BY <3>1, <2>1, <1>1, <1>2 DEF Hinted
  <2> QED BY <2>1, <1>1, <1>2 DEF Hinted
<1> QED BY <1>1, <1>2, <1>3, <1>4, <1>5 DEF HeapInv

\* A new iterator of a user refers to the element whose arcs it will return.
LEMMA Referred ==
    ASSUME NEW h, NEW g, NEW at, NEW own, HeapInv(h, g, at, own),
           NEW i \in Iters, own[i] = None, NEW e \in Elements, h.state[e] # "freed",
           NEW h2, h2 = Ref(h, e), NEW own2, own2 = Put(own, i, e)
    PROVE  HeapInv(h2, g, at, own2) /\ h2.list = h.list /\ h2.state = h.state /\ h2.link = h.link
<1>1. /\ h \in HeapType /\ g \in HintType /\ at \in AtType /\ own \in OwnerType
      /\ ListsOK(h) /\ LinkCounts(h, at) /\ RefCounts(h, at, own) /\ Hinted(h, g)
  BY DEF HeapInv
<1>2. /\ h2 \in HeapType
      /\ h2.list = h.list /\ h2.link = h.link /\ h2.state = h.state
      /\ h2.refs[e] = h.refs[e] + 1
      /\ \A f \in Elements \ {e} : h2.refs[f] = h.refs[f]
  BY <1>1, RefFields
<1>3. /\ own2 \in OwnerType
      /\ Cardinality(OwnedBy(own2, e)) = Cardinality(OwnedBy(own, e)) + 1
      /\ \A f \in Elements \ {e} : OwnedBy(own2, f) = OwnedBy(own, f)
  <2>1. own \in [Iters -> Elements \cup {None}]
    BY <1>1 DEF OwnerType
  <2>2. /\ own2 \in [Iters -> Elements \cup {None}]
        /\ Cardinality(OwnedBy(own2, e)) = Cardinality(OwnedBy(own, e)) + 1
        /\ \A f \in Elements \ {e} : OwnedBy(own2, f) = OwnedBy(own, f)
    BY <2>1, Owns
  <2> QED BY <2>2 DEF OwnerType
<1>4. ListsOK(h2) /\ LinkCounts(h2, at) /\ Hinted(h2, g)
  BY <1>1, <1>2 DEF ListsOK, LinkCounts, Hinted
<1>5. RefCounts(h2, at, own2)
  <2> SUFFICES ASSUME NEW f \in Elements
               PROVE  /\ h2.refs[f] = Cardinality(AtArc(at, f)) + Cardinality(OwnedBy(own2, f))
                      /\ h2.state[f] = "dead" => h2.refs[f] > 0
                      /\ h2.state[f] = "freed" => h2.refs[f] = 0
    BY DEF RefCounts
  <2>1. /\ h.refs[f] = Cardinality(AtArc(at, f)) + Cardinality(OwnedBy(own, f))
        /\ h.state[f] = "dead" => h.refs[f] > 0
        /\ h.state[f] = "freed" => h.refs[f] = 0
    BY <1>1 DEF RefCounts
  <2>2. Cardinality(AtArc(at, f)) \in Nat /\ Cardinality(OwnedBy(own, f)) \in Nat
    BY SlotsFinite
  <2>3. CASE f = e
    BY <1>2, <1>3, <2>1, <2>2, <2>3
  <2>4. CASE f # e
    <3>1. h2.refs[f] = h.refs[f] /\ OwnedBy(own2, f) = OwnedBy(own, f)
      BY <1>2, <1>3, <2>4
    <3> QED BY <3>1, <1>2, <2>1
  <2> QED BY <2>3, <2>4
<1> QED BY <1>1, <1>2, <1>3, <1>4, <1>5 DEF HeapInv

\* A user's iterator that is deleted gives up the element, which may go with it.
LEMMA Unreferred ==
    ASSUME NEW h, NEW g, NEW at, NEW own, HeapInv(h, g, at, own),
           NEW i \in Iters, NEW e \in Elements, own[i] = e,
           NEW h2, h2 = Unref(h, e), NEW own2, own2 = Put(own, i, None)
    PROVE  /\ HeapInv(h2, g, at, own2) /\ h2.list = h.list
           /\ \A f \in Elements : h2.state[f] = "live" <=> h.state[f] = "live"
<1>1. /\ h \in HeapType /\ g \in HintType /\ at \in AtType /\ own \in OwnerType
      /\ ListsOK(h) /\ LinkCounts(h, at) /\ RefCounts(h, at, own) /\ Hinted(h, g)
  BY DEF HeapInv
<1>2. /\ h2 \in HeapType
      /\ h2.list = h.list /\ h2.link = h.link
      /\ h2.refs[e] = h.refs[e] - 1
      /\ h2.state[e] = IF h.state[e] = "dead" /\ h.refs[e] = 1 THEN "freed" ELSE h.state[e]
      /\ \A f \in Elements \ {e} : h2.refs[f] = h.refs[f] /\ h2.state[f] = h.state[f]
  BY <1>1, UnrefFields
<1>3. /\ own2 \in OwnerType
      /\ Cardinality(OwnedBy(own2, e)) = Cardinality(OwnedBy(own, e)) - 1
      /\ Cardinality(OwnedBy(own, e)) > 0
      /\ \A f \in Elements \ {e} : OwnedBy(own2, f) = OwnedBy(own, f)
  <2>1. own \in [Iters -> Elements \cup {None}]
    BY <1>1 DEF OwnerType
  <2>2. /\ own2 \in [Iters -> Elements \cup {None}]
        /\ Cardinality(OwnedBy(own2, e)) = Cardinality(OwnedBy(own, e)) - 1
        /\ Cardinality(OwnedBy(own, e)) > 0
        /\ \A f \in Elements \ {e} : OwnedBy(own2, f) = OwnedBy(own, f)
    BY <2>1, Disowns
  <2> QED BY <2>2 DEF OwnerType
<1>4. \A f \in Elements : h2.state[f] = "live" <=> h.state[f] = "live"
  <2> SUFFICES ASSUME NEW f \in Elements PROVE h2.state[f] = "live" <=> h.state[f] = "live"
    OBVIOUS
  <2>1. CASE f = e
    BY <1>2, <2>1
  <2>2. CASE f # e
    BY <1>2, <2>2
  <2> QED BY <2>1, <2>2
<1>5. ListsOK(h2) /\ LinkCounts(h2, at)
  BY <1>1, <1>2 DEF ListsOK, LinkCounts
<1>6. Hinted(h2, g)
  BY <1>1, <1>2, <1>4 DEF Hinted, Elements
<1>7. RefCounts(h2, at, own2)
  <2> SUFFICES ASSUME NEW f \in Elements
               PROVE  /\ h2.refs[f] = Cardinality(AtArc(at, f)) + Cardinality(OwnedBy(own2, f))
                      /\ h2.state[f] = "dead" => h2.refs[f] > 0
                      /\ h2.state[f] = "freed" => h2.refs[f] = 0
    BY DEF RefCounts
  <2>1. /\ h.refs[f] = Cardinality(AtArc(at, f)) + Cardinality(OwnedBy(own, f))
        /\ h.state[f] = "dead" => h.refs[f] > 0
        /\ h.state[f] = "freed" => h.refs[f] = 0
    BY <1>1 DEF RefCounts
  <2>2. Cardinality(AtArc(at, f)) \in Nat /\ Cardinality(OwnedBy(own, f)) \in Nat
    BY SlotsFinite
  <2>3. CASE f = e
    <3>1. h2.refs[f] = h.refs[f] - 1 /\ h2.refs[f] = Cardinality(AtArc(at, f)) + Cardinality(OwnedBy(own2, f))
      BY <1>2, <1>3, <2>1, <2>2, <2>3
    <3>2. h2.state[f] = "dead" => h2.refs[f] > 0
      BY <3>1, <1>2, <2>1, <2>2, <2>3
    <3>3. h2.state[f] = "freed" => h2.refs[f] = 0
      <4>1. h.refs[f] > 0
        BY <1>3, <2>1, <2>2, <2>3
      <4> QED BY <4>1, <3>1, <1>2, <2>1, <2>2, <2>3
    <3> QED BY <3>1, <3>2, <3>3
  <2>4. CASE f # e
    <3>1. h2.refs[f] = h.refs[f] /\ OwnedBy(own2, f) = OwnedBy(own, f) /\ h2.state[f] = h.state[f]
      BY <1>2, <1>3, <2>4
    <3> QED BY <3>1, <2>1
  <2> QED BY <2>3, <2>4
<1> QED BY <1>1, <1>2, <1>3, <1>4, <1>5, <1>6, <1>7 DEF HeapInv

-----------------------------------------------------------------------------
(***************************************************************************)
(* Iterators begin, move on and end                                        *)
(***************************************************************************)

\* The lists have lost links only, and the same elements are alive.
Kept(h, h2) ==
    /\ Trimmed(h, h2)
    /\ \A e \in Elements : h2.state[e] = "live" <=> h.state[e] = "live"

\* Two changes that keep elements alive and lists in order, one after the other.
LEMMA KeptTwice ==
    ASSUME NEW h, NEW h2, NEW h3, Kept(h, h2), Kept(h2, h3)
    PROVE  Kept(h, h3)
BY TrimmedTwice DEF Kept

\* A change of neither lists nor states keeps both.
LEMMA KeptSame ==
    ASSUME NEW h, NEW h2, h2.list = h.list, h2.state = h.state
    PROVE  Kept(h, h2)
BY TrimmedSame DEF Kept

\* Which links of a list are alive depends on the hints of the arcs only.
LEMMA LiveSame ==
    ASSUME NEW h, NEW h2, NEW g, NEW at, NEW at2, NEW own, NEW own2,
           HeapInv(h, g, at, own), HeapInv(h2, g, at2, own2)
    PROVE  \A L \in ListIds : Live(h2, L) = Live(h, L)
<1>1. ASSUME NEW f, NEW b, NEW f2, NEW b2, NEW o, NEW o2, HeapInv(f, g, b, o), HeapInv(f2, g, b2, o2),
             NEW L \in ListIds, NEW l \in Live(f, L)
      PROVE  l \in Live(f2, L)
  <2>1. l \in ToSet(f.list[L]) /\ ~f.link[l].dead
    BY DEF Live
  <2>2. l \in Links
    BY <1>1, <2>1, HeapFacts
  <2>3. l[1] \in Arcs /\ L[2] \in Sides /\ L[1] \in Elements /\ L = <<L[1], L[2]>>
    BY <2>2, LinkShape
  <2>4. g[l[1]][L[2]] = [el |-> L[1], at |-> l]
    BY <1>1, <2>1 DEF HeapInv, Hinted
  <2>5. g[l[1]][L[2]] # NoHint
    BY <2>3, <2>4, LinkShape DEF NoHint
  <2>6. l \in ToSet(f2.list[<<L[1], L[2]>>]) /\ ~f2.link[l].dead
    BY <1>1, <2>3, <2>4, <2>5 DEF HeapInv, Hinted
  <2> QED BY <2>3, <2>6 DEF Live
<1>2. ASSUME NEW L \in ListIds
      PROVE  Live(h2, L) = Live(h, L)
  <2>1. Live(h2, L) \subseteq Live(h, L)
    BY <1>1
  <2>2. Live(h, L) \subseteq Live(h2, L)
    BY <1>1
  <2> QED BY <2>1, <2>2
<1> QED BY <1>2

\* A link that an iterator holds stays in its list.
LEMMA HeldStays ==
    ASSUME NEW h, NEW h2, NEW g, NEW g2, NEW at, NEW at2, NEW own, NEW own2,
           HeapInv(h, g, at, own), HeapInv(h2, g2, at2, own2), Trimmed(h, h2),
           NEW c \in Slots, at2[c] # None, NEW L \in ListIds, at2[c] \in ToSet(h.list[L])
    PROVE  at2[c] \in ToSet(h2.list[L])
<1>1. PICK M \in ListIds : at2[c] \in ToSet(h2.list[M])
  BY HeapFacts
<1>2. at2[c] \in ToSet(h.list[M])
  BY <1>1 DEF Trimmed
<1>3. ListsOK(h)
  BY DEF HeapInv
<1>4. L = M
  BY <1>2, <1>3 DEF ListsOK
<1> QED BY <1>1, <1>4

\* next: the iterator stands at the first live link behind the one it has left, or nowhere if
\* there is none.
LEMMA MovedOn ==
    ASSUME NEW h, NEW g, NEW at, NEW own, HeapInv(h, g, at, own),
           NEW c \in Slots, NEW L \in ListIds, NEW l \in ToSet(h.list[L]), at[c] = l,
           NEW r, r = Forward(h, L, l), NEW at2, at2 = Put(at, c, r.at)
    PROVE  /\ HeapInv(r.heap, g, at2, own)
           /\ Kept(h, r.heap)
           /\ Behind(h, L, l) = {} => r.at = None
           /\ Behind(h, L, l) # {} =>
                /\ r.at \in Behind(h, L, l)
                /\ \A n \in Behind(h, L, l) \ {r.at} : Precedes(h.list[L], r.at, n)
           /\ r.at \in Links \cup {None}
<1> DEFINE h1 == Release(h, l)
           at1 == Put(at, c, None)
           later == Behind(h, L, l)
           m == FirstOf(h.list[L], later)
<1>1. l \in Links
  BY HeapFacts
<1>2. /\ HeapInv(h1, g, at1, own)
      /\ Kept(h, h1)
  <2>1. PICK f, b : f = h1 /\ b = at1
    OBVIOUS
  <2>2. f = Release(h, l) /\ b = Put(at, c, None)
    BY <2>1
  <2>3. /\ HeapInv(f, g, b, own)
        /\ Trimmed(h, f)
        /\ \A e \in Elements : /\ h.state[e] = "live" => f.state[e] = "live"
                               /\ f.state[e] = "live" => h.state[e] = "live"
    BY <1>1, <2>2, Released
  <2> QED BY <2>1, <2>3 DEF Kept
<1>3. CASE later = {}
  <2>1. r.heap = h1 /\ r.at = None
    BY <1>3 DEF Forward
  <2> QED BY <1>2, <1>3, <2>1
<1>4. CASE later # {}
  <2>1. r.heap = Grab(h1, m) /\ r.at = m
    BY <1>4 DEF Forward
  <2>2. h.list[L] \in Seq(Links) /\ IsInjective(h.list[L]) /\ later \subseteq ToSet(h.list[L])
    BY HeapFields DEF HeapInv, ListsOK, Behind, Live
  <2>3. m \in later /\ \A n \in later \ {m} : Precedes(h.list[L], m, n)
    BY <1>4, <2>2, First
  <2>4. Live(h1, L) = Live(h, L)
    BY <1>2, LiveSame
  <2>5. m \in ToSet(h1.list[L])
    BY <2>3, <2>4 DEF Behind, Live
  <2>6. at1[c] = None
    BY DEF HeapInv, AtType, Put
  <2>7. at2 = Put(at1, c, m)
    BY <2>1 DEF Put
  <2>8. m \in Links
    BY <1>2, <2>5, HeapFacts
  <2> HIDE DEF h1, at1, m, later
  <2>9. /\ HeapInv(r.heap, g, at2, own) /\ r.heap.list = h1.list /\ r.heap.state = h1.state
    BY <1>2, <2>1, <2>5, <2>6, <2>7, Grabbed
  <2>10. Kept(h1, r.heap)
    BY <2>9, KeptSame
  <2>11. Kept(h, r.heap)
    BY <1>2, <2>10, KeptTwice
  <2> QED BY <1>4, <2>1, <2>3, <2>8, <2>9, <2>11 DEF later
<1> QED BY <1>3, <1>4

\* The constructor of an iterator finds the first live link of the list, also when it has to
\* move on from a dead one.
LEMMA Begun ==
    ASSUME NEW h, NEW g, NEW at, NEW own, HeapInv(h, g, at, own),
           NEW c \in Slots, NEW L \in ListIds, at[c] = None,
           NEW r, r = Begin(h, L), NEW at2, at2 = Put(at, c, r.at)
    PROVE  /\ HeapInv(r.heap, g, at2, own)
           /\ Kept(h, r.heap)
           /\ Live(h, L) = {} => r.at = None
           /\ Live(h, L) # {} =>
                /\ r.at \in Live(h, L)
                /\ \A n \in Live(h, L) \ {r.at} : Precedes(h.list[L], r.at, n)
           /\ r.at \in Links \cup {None}
<1> DEFINE s == h.list[L]
           l == Head(s)
           h1 == Grab(h, l)
           at1 == Put(at, c, l)
<1>1. /\ h \in HeapType /\ at \in AtType /\ ListsOK(h) /\ Hinted(h, g)
      /\ s \in Seq(Links) /\ IsInjective(s)
  BY HeapFields DEF HeapInv, ListsOK
<1>2. CASE s = <<>>
  <2>1. r.heap = h /\ r.at = None
    BY <1>2 DEF Begin
  <2>2. ToSet(s) = {}
    BY <1>1, <1>2, Ordered
  <2>3. at2 = at
    BY <1>1, <2>1 DEF AtType, Put
  <2> QED BY <2>1, <2>2, <2>3, KeptSame DEF Live
<1>3. CASE s # <<>>
  <2>1. l \in ToSet(s) /\ \A a \in ToSet(s) \ {l} : Precedes(s, l, a)
    BY <1>1, <1>3, Ordered
  <2>2. l \in Links /\ l[1] \in Arcs /\ L[2] \in Sides
    BY <2>1, HeapFacts, LinkShape
  <2>3. HeapInv(h1, g, at1, own) /\ h1.list = h.list /\ h1.state = h.state
        /\ \A m \in Links : h1.link[m].dead = h.link[m].dead
    <3>1. PICK f, b, n : f = h1 /\ b = at1 /\ n = l
      OBVIOUS
    <3>2. f = Grab(h, n) /\ b = Put(at, c, n) /\ n \in ToSet(h.list[L])
      BY <2>1, <3>1
    <3>3. HeapInv(f, g, b, own) /\ f.list = h.list /\ f.state = h.state
          /\ \A m \in Links : f.link[m].dead = h.link[m].dead
      BY <3>2, Grabbed
    <3> QED BY <3>1, <3>3
  <2>4. Kept(h, h1)
    BY <2>3, KeptSame
  <2>5. ~h.link[l].dead => h.state[Arc(l)] = "live"
    <3>1. SUFFICES ASSUME ~h.link[l].dead PROVE h.state[l[1]] = "live"
      BY DEF Arc
    <3>2. g[l[1]][L[2]] = [el |-> L[1], at |-> l]
      BY <1>1, <2>1, <3>1 DEF Hinted
    <3>3. g[l[1]][L[2]] # NoHint
      BY <3>2, LinkShape DEF NoHint
    <3> QED BY <1>1, <2>2, <3>3 DEF Hinted
  <2>6. CASE ~h.link[l].dead
    <3>1. r.heap = h1 /\ r.at = l
      BY <1>3, <2>5, <2>6 DEF Begin
    <3>2. l \in Live(h, L)
      BY <2>1, <2>6 DEF Live
    <3>3. \A n \in Live(h, L) \ {l} : Precedes(s, l, n)
      BY <2>1 DEF Live
    <3>4. HeapInv(r.heap, g, at2, own)
      <4>1. at2 = at1
        BY <3>1
      <4> QED BY <4>1, <2>3, <3>1
    <3>5. Kept(h, r.heap)
      BY <2>4, <3>1
    <3>6. r.at \in Live(h, L) /\ r.at \in Links /\ Live(h, L) # {}
      BY <2>2, <3>1, <3>2
    <3>7. \A n \in Live(h, L) \ {r.at} : Precedes(h.list[L], r.at, n)
      BY <3>1, <3>3
    <3> HIDE DEF h1, at1, l, s
    <3> QED BY <3>4, <3>5, <3>6, <3>7
  <2>7. CASE h.link[l].dead
    <3>1. r = Forward(h1, L, l)
      BY <1>3, <2>7 DEF Begin
    <3>2. l \in ToSet(h1.list[L])
      BY <2>1, <2>3
    <3>3. at1[c] = l
      BY <1>1 DEF AtType, Put
    <3>4. at2 = Put(at1, c, r.at)
      BY DEF Put
    <3>5. Behind(h1, L, l) = Live(h, L)
      <4>1. Live(h1, L) = Live(h, L)
        BY <2>3, LiveSame
      <4>2. l \notin Live(h, L)
        BY <2>7 DEF Live
      <4>3. \A m \in Live(h, L) : Precedes(h1.list[L], l, m)
        BY <2>1, <2>3, <4>2 DEF Live
      <4> QED BY <4>1, <4>3 DEF Behind
    <3>5a. HeapInv(h1, g, at1, own)
      BY <2>3
    <3> HIDE DEF h1, at1, l, s
    <3>6. /\ HeapInv(r.heap, g, at2, own)
          /\ Kept(h1, r.heap)
          /\ Behind(h1, L, l) = {} => r.at = None
          /\ Behind(h1, L, l) # {} =>
                /\ r.at \in Behind(h1, L, l)
                /\ \A n \in Behind(h1, L, l) \ {r.at} : Precedes(h1.list[L], r.at, n)
          /\ r.at \in Links \cup {None}
      BY <3>1, <3>2, <3>3, <3>4, <3>5a, MovedOn
    <3>7. Kept(h, r.heap)
      BY <2>4, <3>6, KeptTwice
    <3> QED BY <2>3, <3>5, <3>6, <3>7
  <2> QED BY <2>6, <2>7
<1> QED BY <1>2, <1>3

\* An iterator that is deleted leaves its link.
LEMMA Ended ==
    ASSUME NEW h, NEW g, NEW at, NEW own, HeapInv(h, g, at, own),
           NEW c \in Slots, NEW l, at[c] = l,
           NEW h2, h2 = End(h, l), NEW at2, at2 = Put(at, c, None)
    PROVE  HeapInv(h2, g, at2, own) /\ Kept(h, h2)
<1>1. at \in AtType
  BY DEF HeapInv
<1>2. CASE l = None
  <2>1. h2 = h
    BY <1>2 DEF End
  <2>2. at2 = at
    BY <1>1, <1>2 DEF AtType, Put
  <2> QED BY <2>1, <2>2, KeptSame
<1>3. CASE l # None
  <2>1. l \in Links
    BY <1>1, <1>3 DEF AtType
  <2>2. h2 = Release(h, l)
    BY <1>3 DEF End
  <2> QED BY <2>1, <2>2, Released DEF Kept
<1> QED BY <1>2, <1>3

-----------------------------------------------------------------------------
(***************************************************************************)
(* The inductive invariant                                                 *)
(***************************************************************************)

Frame == [el : Elements, pc : {"enter", "output", "input", "vetoed"}, at : Links \cup {None}]

\* The calls that an agent is in, the outermost first.
Stack == Seq(Frame)

IterType == [list : ListIds, at : Links \cup {None}] \cup {Closed}

FrameAt(u, k) == IF k <= Len(u) THEN u[k].at ELSE None

AtOf(it, st) == [c \in Slots |-> IF c[2] = 0 THEN it[c[1]].at ELSE FrameAt(st[c[1]], c[2])]

Owner(v) == IF v = Closed THEN None ELSE v.list[1]

OwnerOf(it) == [i \in Iters |-> Owner(it[i])]

EndsLive(h, g) == \A x \in Arcs, s \in Sides : g[x][s] # NoHint => h.state[g[x][s].el] = "live"

ItersOK(h, it) ==
    /\ it \in [Iters -> IterType]
    /\ \A i \in Iters : it[i].at # None => it[i].at \in ToSet(h.list[it[i].list])

Framed(h, u) ==
    /\ u \in Stack
    /\ Len(u) <= MaxDepth
    /\ \A k \in 1..Len(u) : u[k].at # None =>
         u[k].pc \in {"output", "input"} /\ u[k].at \in ToSet(h.list[ListOf(u[k])])
    /\ \A k \in 1..(Len(u) - 1) : u[k].at # None /\ u[k + 1].el = Arc(u[k].at)

FrameErases(h, g, f) ==
    /\ f.pc # "vetoed"
    /\ f.pc # "enter" /\ f.el \in Arcs => \A s \in Sides : g[f.el][s] = NoHint
    /\ f.pc = "input" => Live(h, <<f.el, "beg">>) = {}
    /\ f.pc # "enter" => \A l \in Live(h, ListOf(f)) :
         f.at # None /\ (l = f.at \/ Precedes(h.list[ListOf(f)], f.at, l))

Distinct(u) == \A j, k \in 1..Len(u) : u[j].el = u[k].el => j = k

AllLive(h, u) == \A k \in 1..Len(u) : h.state[u[k].el] = "live"

TopLive(h, u) == u[Len(u)].at # None => ~h.link[u[Len(u)].at].dead

Working(h, g, u, p, s) ==
    /\ u # <<>>
    /\ p = "erase" => Distinct(u) /\ \A k \in 1..Len(u) : FrameErases(h, g, u[k])
    /\ ~s => AllLive(h, u)
    /\ p = "erase" \/ ~s => TopLive(h, u)

Inv(h, g, it, st, ph, ac, sl) ==
    /\ HeapInv(h, g, AtOf(it, st), OwnerOf(it))
    /\ EndsLive(h, g)
    /\ ItersOK(h, it)
    /\ st \in [Agents -> Stack] /\ ph \in [Agents -> {"pre", "erase"}] /\ sl \in [Agents -> BOOLEAN]
    /\ ac \in Agents \cup {None}
    /\ \A a \in Agents : Framed(h, st[a])
    /\ \A a \in Agents : a # ac /\ st[a] # <<>> => ph[a] = "pre" /\ sl[a]
    /\ ac # None => Working(h, g, st[ac], ph[ac], sl[ac])

IInv ==
    /\ Inv(Heap, hint, iter, stack, phase, active, slept)
    /\ crash \in {"no", "freed", "depth"}
    /\ crash = "freed" => slept[active]
    /\ crash = "depth" => phase[active] = "pre" \/ Cardinality(Elements) > MaxDepth

-----------------------------------------------------------------------------
(***************************************************************************)
(* The stacks of calls: where their iterators stand                        *)
(***************************************************************************)

\* The places of iterators: one for each user's iterator and one for each call that an agent can
\* be in.
LEMMA SlotShape ==
    /\ \A i \in Iters : <<i, 0>> \in Slots
    /\ \A a \in Agents, k \in 1..MaxDepth : <<a, k>> \in Slots
    /\ \A c \in Slots : \/ \E i \in Iters : c = <<i, 0>>
                        \/ \E a \in Agents, k \in 1..MaxDepth : c = <<a, k>>
    /\ \A i, a : \A k \in 1..MaxDepth : <<i, 0>> # <<a, k>>
    /\ \A i, j : <<i, 0>> = <<j, 0>> => i = j
    /\ \A a, b, j, k : <<a, j>> = <<b, k>> => a = b /\ j = k
BY DEF Slots

\* The fields of a call, of a new call and of an iterator.
LEMMA FrameFields ==
    /\ \A f \in Frame : /\ f.el \in Elements /\ f.pc \in {"enter", "output", "input", "vetoed"}
                        /\ f.at \in Links \cup {None} /\ ListOf(f) \in ListIds
    /\ \A e \in Elements : Call(e) \in Frame /\ Call(e).el = e /\ Call(e).pc = "enter" /\ Call(e).at = None
    /\ Closed \in IterType /\ Closed.at = None
    /\ \A v \in IterType : v.at \in Links \cup {None} /\ (v # Closed => v.list \in ListIds)
    /\ \A v \in IterType : v.at # None => v # Closed
<1>1. ASSUME NEW f \in Frame
      PROVE  /\ f.el \in Elements /\ f.pc \in {"enter", "output", "input", "vetoed"}
             /\ f.at \in Links \cup {None} /\ ListOf(f) \in ListIds
  BY LinkShape DEF Frame, ListOf, Sides
<1>2. \A e \in Elements : Call(e) \in Frame /\ Call(e).el = e /\ Call(e).pc = "enter" /\ Call(e).at = None
  BY DEF Frame, Call
<1>3. Closed \in IterType /\ Closed.at = None
  BY DEF IterType, Closed
<1>4. \A v \in IterType : v.at \in Links \cup {None} /\ (v # Closed => v.list \in ListIds)
  BY DEF IterType, Closed
<1>5. \A v \in IterType : v.at # None => v # Closed
  BY DEF Closed
<1> QED BY <1>1, <1>2, <1>3, <1>4, <1>5

\* Where the iterators of users and of calls stand.
LEMMA AtOfFields ==
    ASSUME NEW it \in [Iters -> IterType], NEW st \in [Agents -> Stack]
    PROVE  /\ AtOf(it, st) \in AtType
           /\ OwnerOf(it) \in OwnerType
           /\ \A i \in Iters : AtOf(it, st)[<<i, 0>>] = it[i].at
           /\ \A a \in Agents, k \in 1..MaxDepth : AtOf(it, st)[<<a, k>>] = FrameAt(st[a], k)
<1> DEFINE at == AtOf(it, st)
<1>1. \A i \in Iters : at[<<i, 0>>] = it[i].at
  BY SlotShape DEF AtOf
<1>2. \A a \in Agents, k \in 1..MaxDepth : at[<<a, k>>] = FrameAt(st[a], k)
  BY SlotShape DEF AtOf
<1>3. \A i \in Iters : it[i].at \in Links \cup {None}
  BY FrameFields
<1>4. \A a \in Agents, k \in 1..MaxDepth : FrameAt(st[a], k) \in Links \cup {None}
  <2> SUFFICES ASSUME NEW a \in Agents, NEW k \in 1..MaxDepth
               PROVE  FrameAt(st[a], k) \in Links \cup {None}
    OBVIOUS
  <2>1. st[a] \in Stack
    OBVIOUS
  <2>2. CASE k <= Len(st[a])
    <3>1. st[a][k] \in Frame
      BY <2>1, <2>2 DEF Stack
    <3> QED BY <2>2, <3>1, FrameFields DEF FrameAt
  <2>3. CASE ~(k <= Len(st[a]))
    BY <2>3 DEF FrameAt
  <2> QED BY <2>2, <2>3
<1>5. \A c \in Slots : at[c] \in Links \cup {None}
  <2> HIDE DEF at
  <2> QED BY <1>1, <1>2, <1>3, <1>4, SlotShape
<1>6. at \in AtType
  BY <1>5 DEF AtOf, AtType
<1>7. OwnerOf(it) \in OwnerType
  <2>1. \A i \in Iters : it[i] # Closed => it[i].list[1] \in Elements
    BY FrameFields, LinkShape
  <2> QED BY <2>1 DEF OwnerOf, Owner, OwnerType
<1> QED BY <1>1, <1>2, <1>6, <1>7

\* Places that differ in one.
LEMMA AtPut ==
    ASSUME NEW at \in AtType, NEW at2 \in AtType, NEW c \in Slots,
           \A d \in Slots \ {c} : at2[d] = at[d]
    PROVE  at2 = Put(at, c, at2[c])
BY DEF AtType, Put

\* Places that do not differ.
LEMMA AtEqual ==
    ASSUME NEW at \in AtType, NEW at2 \in AtType, \A d \in Slots : at2[d] = at[d]
    PROVE  at2 = at
BY DEF AtType

\* A stack whose calls differ in the place of one iterator changes that place only.
LEMMA StackPut ==
    ASSUME NEW it \in [Iters -> IterType], NEW st \in [Agents -> Stack],
           NEW a \in Agents, NEW u \in Stack, NEW k \in 1..MaxDepth,
           \A j \in 1..MaxDepth : j # k => FrameAt(u, j) = FrameAt(st[a], j),
           NEW st2, st2 = Put(st, a, u)
    PROVE  AtOf(it, st2) = Put(AtOf(it, st), <<a, k>>, FrameAt(u, k))
<1>1. st2 \in [Agents -> Stack] /\ st2[a] = u /\ \A b \in Agents : b # a => st2[b] = st[b]
  BY DEF Put
<1> DEFINE at == AtOf(it, st)
           at2 == AtOf(it, st2)
           c == <<a, k>>
<1>2. /\ at \in AtType /\ at2 \in AtType /\ c \in Slots
      /\ \A i \in Iters : at[<<i, 0>>] = it[i].at /\ at2[<<i, 0>>] = it[i].at
      /\ \A b \in Agents, j \in 1..MaxDepth :
           at[<<b, j>>] = FrameAt(st[b], j) /\ at2[<<b, j>>] = FrameAt(st2[b], j)
  BY <1>1, AtOfFields, SlotShape
<1> HIDE DEF at, at2
<1>3. ASSUME NEW d \in Slots, d # c
      PROVE  at2[d] = at[d]
  <2>1. CASE \E i \in Iters : d = <<i, 0>>
    BY <1>2, <2>1
  <2>2. CASE \E b \in Agents, j \in 1..MaxDepth : d = <<b, j>>
    <3>1. PICK b \in Agents, j \in 1..MaxDepth : d = <<b, j>>
      BY <2>2
    <3>2. b # a \/ j # k
      BY <1>3, <3>1
    <3>3. FrameAt(st2[b], j) = FrameAt(st[b], j)
      BY <1>1, <3>2
    <3> QED BY <1>2, <3>1, <3>3
  <2> QED BY <2>1, <2>2, SlotShape
<1>4. at2[c] = FrameAt(u, k)
  BY <1>1, <1>2
<1>5. at2 = Put(at, c, at2[c])
  BY <1>2, <1>3, AtPut
<1> QED BY <1>4, <1>5 DEF at, at2

\* A stack whose iterators have not moved changes no place.
LEMMA StackSame ==
    ASSUME NEW it \in [Iters -> IterType], NEW st \in [Agents -> Stack],
           NEW a \in Agents, NEW u \in Stack,
           \A j \in 1..MaxDepth : FrameAt(u, j) = FrameAt(st[a], j),
           NEW st2, st2 = Put(st, a, u)
    PROVE  AtOf(it, st2) = AtOf(it, st)
<1>1. st2 \in [Agents -> Stack] /\ st2[a] = u /\ \A b \in Agents : b # a => st2[b] = st[b]
  BY DEF Put
<1> DEFINE at == AtOf(it, st)
           at2 == AtOf(it, st2)
<1>2. /\ at \in AtType /\ at2 \in AtType
      /\ \A i \in Iters : at[<<i, 0>>] = it[i].at /\ at2[<<i, 0>>] = it[i].at
      /\ \A b \in Agents, j \in 1..MaxDepth :
           at[<<b, j>>] = FrameAt(st[b], j) /\ at2[<<b, j>>] = FrameAt(st2[b], j)
  BY <1>1, AtOfFields
<1> HIDE DEF at, at2
<1>3. ASSUME NEW d \in Slots
      PROVE  at2[d] = at[d]
  <2>1. CASE \E i \in Iters : d = <<i, 0>>
    BY <1>2, <2>1
  <2>2. CASE \E b \in Agents, j \in 1..MaxDepth : d = <<b, j>>
    <3>1. PICK b \in Agents, j \in 1..MaxDepth : d = <<b, j>>
      BY <2>2
    <3>3. FrameAt(st2[b], j) = FrameAt(st[b], j)
      BY <1>1
    <3> QED BY <1>2, <3>1, <3>3
  <2> QED BY <2>1, <2>2, SlotShape
<1>4. at2 = at
  BY <1>2, <1>3, AtEqual
<1> QED BY <1>4 DEF at, at2

\* A user's iterator that moves, opens or closes changes its own place and element only.
LEMMA IterPut ==
    ASSUME NEW it \in [Iters -> IterType], NEW st \in [Agents -> Stack],
           NEW i \in Iters, NEW v \in IterType, NEW it2, it2 = Put(it, i, v)
    PROVE  /\ it2 \in [Iters -> IterType] /\ it2[i] = v /\ \A j \in Iters : j # i => it2[j] = it[j]
           /\ AtOf(it2, st) = Put(AtOf(it, st), <<i, 0>>, v.at)
           /\ OwnerOf(it2) = Put(OwnerOf(it), i, Owner(v))
<1>1. it2 \in [Iters -> IterType] /\ it2[i] = v /\ \A j \in Iters : j # i => it2[j] = it[j]
  BY DEF Put
<1> DEFINE at == AtOf(it, st)
           at2 == AtOf(it2, st)
           c == <<i, 0>>
<1>2. /\ at \in AtType /\ at2 \in AtType /\ c \in Slots
      /\ \A j \in Iters : at[<<j, 0>>] = it[j].at /\ at2[<<j, 0>>] = it2[j].at
      /\ \A b \in Agents, j \in 1..MaxDepth :
           at[<<b, j>>] = FrameAt(st[b], j) /\ at2[<<b, j>>] = FrameAt(st[b], j)
  BY <1>1, AtOfFields, SlotShape
<1> HIDE DEF at, at2
<1>3. ASSUME NEW d \in Slots, d # c
      PROVE  at2[d] = at[d]
  <2>1. CASE \E j \in Iters : d = <<j, 0>>
    BY <1>1, <1>2, <1>3, <2>1
  <2>2. CASE \E b \in Agents, j \in 1..MaxDepth : d = <<b, j>>
    BY <1>2, <2>2
  <2> QED BY <2>1, <2>2, SlotShape
<1>4. at2[c] = v.at
  BY <1>1, <1>2
<1>5. at2 = Put(at, c, at2[c])
  BY <1>2, <1>3, AtPut
<1>6. OwnerOf(it2) = Put(OwnerOf(it), i, Owner(v))
  BY <1>1 DEF OwnerOf, Put
<1> QED BY <1>1, <1>4, <1>5, <1>6 DEF at, at2


Topped(u, f) == [u EXCEPT ![Len(u)] = f]

Deeper(u, f) == Append(u, f)

Popped(u, f) == [Front(u) EXCEPT ![Len(u) - 1] = f]

\* The innermost call is replaced.
LEMMA TopSet ==
    ASSUME NEW u \in Stack, u # <<>>, NEW f \in Frame, NEW w, w = Topped(u, f)
    PROVE  /\ w \in Stack /\ Len(w) = Len(u) /\ Len(u) \in Nat \ {0} /\ w # <<>>
           /\ w[Len(u)] = f
           /\ \A k \in 1..(Len(u) - 1) : w[k] = u[k] /\ u[k] \in Frame
           /\ u[Len(u)] \in Frame
           /\ \A k \in Nat \ {0} : k # Len(u) => FrameAt(w, k) = FrameAt(u, k)
           /\ FrameAt(w, Len(u)) = f.at /\ FrameAt(u, Len(u)) = u[Len(u)].at
<1>1. Len(u) \in Nat \ {0}
  BY EmptySeq DEF Stack
<1>2. w \in Stack /\ Len(w) = Len(u) /\ w[Len(u)] = f /\ \A k \in 1..Len(u) : k # Len(u) => w[k] = u[k]
  BY <1>1, ExceptSeq DEF Topped, Stack
<1>3. \A k \in Nat \ {0} : k # Len(u) => FrameAt(w, k) = FrameAt(u, k)
  BY <1>1, <1>2 DEF FrameAt
<1> QED BY <1>1, <1>2, <1>3 DEF FrameAt, Stack

\* The innermost call is over and its caller is replaced.
LEMMA CallerSet ==
    ASSUME NEW u \in Stack, Len(u) > 1, NEW f \in Frame, NEW w, w = Popped(u, f)
    PROVE  /\ w \in Stack /\ Len(w) = Len(u) - 1 /\ Len(u) \in Nat /\ w # <<>>
           /\ w[Len(u) - 1] = f
           /\ \A k \in 1..(Len(u) - 2) : w[k] = u[k] /\ u[k] \in Frame
           /\ u[Len(u)] \in Frame /\ u[Len(u) - 1] \in Frame
           /\ \A k \in Nat \ {0} : k # Len(u) /\ k # Len(u) - 1 => FrameAt(w, k) = FrameAt(u, k)
           /\ FrameAt(w, Len(u) - 1) = f.at /\ FrameAt(w, Len(u)) = None
<1>0. Len(u) \in Nat
  BY DEF Stack
<1>1. Len(u) \in Nat /\ Len(u) - 1 \in Nat \ {0}
  <2>1. \A k \in Nat : k > 1 => k - 1 \in Nat \ {0}
    OBVIOUS
  <2> QED BY <1>0, <2>1
<1> DEFINE v == Front(u)
           n == Len(u)
<1>2. v \in Stack /\ Len(v) = n - 1 /\ \A k \in 1..(n - 1) : v[k] = u[k] /\ u[k] \in Frame
  <2>1. v = [i \in 1..(n - 1) |-> u[i]]
    BY DEF Front
  <2> QED BY <1>1, <2>1 DEF Stack
<1>3. w = [v EXCEPT ![n - 1] = f]
  BY DEF Popped
<1> HIDE DEF v
<1>4. w \in Stack /\ Len(w) = n - 1 /\ w[n - 1] = f /\ \A k \in 1..(n - 1) : k # n - 1 => w[k] = v[k]
  BY <1>1, <1>2, <1>3 DEF Stack
<1>5. \A k \in 1..(n - 2) : w[k] = u[k] /\ u[k] \in Frame
  BY <1>1, <1>2, <1>4
<1>6. u[n] \in Frame /\ u[n - 1] \in Frame
  BY <1>1 DEF Stack
<1>7. w # <<>>
  BY <1>1, <1>4 DEF Stack
<1>8. \A k \in Nat \ {0} : k # n /\ k # n - 1 => FrameAt(w, k) = FrameAt(u, k)
  BY <1>1, <1>4, <1>5 DEF FrameAt
<1>9. FrameAt(w, n - 1) = f.at /\ FrameAt(w, n) = None
  BY <1>1, <1>4 DEF FrameAt
<1> QED BY <1>1, <1>4, <1>5, <1>6, <1>7, <1>8, <1>9

\* A call calls itself.
LEMMA Pushed ==
    ASSUME NEW u \in Stack, NEW f \in Frame, f.at = None, NEW w, w = Deeper(u, f)
    PROVE  /\ w \in Stack /\ Len(w) = Len(u) + 1 /\ Len(u) \in Nat /\ w # <<>>
           /\ w[Len(u) + 1] = f
           /\ \A k \in 1..Len(u) : w[k] = u[k] /\ u[k] \in Frame
           /\ \A k \in Nat \ {0} : FrameAt(w, k) = FrameAt(u, k)
<1>1. /\ w \in Stack /\ Len(w) = Len(u) + 1 /\ Len(u) \in Nat
      /\ w[Len(u) + 1] = f
      /\ \A k \in 1..Len(u) : w[k] = u[k] /\ u[k] \in Frame
  BY DEF Stack, Deeper
<1>2. w # <<>>
  BY <1>1 DEF Stack
<1>3. \A k \in Nat \ {0} : FrameAt(w, k) = FrameAt(u, k)
  BY <1>1 DEF FrameAt
<1> QED BY <1>1, <1>2, <1>3

\* A stack of one call that has no iterator, and an empty one.
LEMMA SingleFrame ==
    ASSUME NEW f \in Frame, f.at = None
    PROVE  /\ <<>> \in Stack /\ <<f>> \in Stack /\ Len(<<>>) = 0 /\ Len(<<f>>) = 1
           /\ <<f>> # <<>> /\ <<f>>[1] = f
           /\ \A k \in Nat \ {0} : FrameAt(<<>>, k) = None /\ FrameAt(<<f>>, k) = None
<1>1. <<>> \in Stack
  BY DEF Stack
<1>2. <<f>> \in Stack /\ Len(<<f>>) = 1 /\ <<f>>[1] = f /\ <<f>> # <<>>
  BY DEF Stack
<1>3. Len(<<>>) = 0
  OBVIOUS
<1> QED BY <1>1, <1>2, <1>3 DEF FrameAt

-----------------------------------------------------------------------------
(***************************************************************************)
(* What a change of the heap leaves of the calls and iterators             *)
(***************************************************************************)

\* The innermost call, replaced by one for the same element, leaves a stack of calls.
LEMMA TopFramed ==
    ASSUME NEW h, NEW u, Framed(h, u), u # <<>>, NEW f \in Frame, f.el = u[Len(u)].el,
           f.at # None => f.pc \in {"output", "input"} /\ f.at \in ToSet(h.list[ListOf(f)]),
           NEW w, w = Topped(u, f)
    PROVE  Framed(h, w)
<1>1. /\ u \in Stack /\ Len(u) <= MaxDepth
      /\ \A k \in 1..Len(u) : u[k].at # None =>
           u[k].pc \in {"output", "input"} /\ u[k].at \in ToSet(h.list[ListOf(u[k])])
      /\ \A k \in 1..(Len(u) - 1) : u[k].at # None /\ u[k + 1].el = Arc(u[k].at)
  BY DEF Framed
<1>2. /\ w \in Stack /\ Len(w) = Len(u) /\ Len(u) \in Nat \ {0}
      /\ w[Len(u)] = f
      /\ \A k \in 1..(Len(u) - 1) : w[k] = u[k]
  <2>1. u \in Stack /\ u # <<>>
    BY <1>1
  <2>2. /\ w \in Stack /\ Len(w) = Len(u) /\ Len(u) \in Nat \ {0} /\ w # <<>>
        /\ w[Len(u)] = f
        /\ \A k \in 1..(Len(u) - 1) : w[k] = u[k] /\ u[k] \in Frame
        /\ u[Len(u)] \in Frame
        /\ \A k \in Nat \ {0} : k # Len(u) => FrameAt(w, k) = FrameAt(u, k)
        /\ FrameAt(w, Len(u)) = f.at /\ FrameAt(u, Len(u)) = u[Len(u)].at
    BY <2>1, TopSet
  <2> QED BY <2>2
<1>3. ASSUME NEW k \in 1..Len(w), w[k].at # None
      PROVE  w[k].pc \in {"output", "input"} /\ w[k].at \in ToSet(h.list[ListOf(w[k])])
  <2>1. CASE k = Len(u)
    BY <1>2, <1>3, <2>1
  <2>2. CASE k # Len(u)
    <3>1. k \in 1..(Len(u) - 1) /\ k \in 1..Len(u)
      BY <1>2, <2>2
    <3> QED BY <1>1, <1>2, <1>3, <3>1
  <2> QED BY <2>1, <2>2
<1>4. ASSUME NEW k \in 1..(Len(w) - 1)
      PROVE  w[k].at # None /\ w[k + 1].el = Arc(w[k].at)
  <2>1. w[k] = u[k] /\ u[k].at # None /\ u[k + 1].el = Arc(u[k].at)
    BY <1>1, <1>2
  <2>2. CASE k + 1 = Len(u)
    BY <1>2, <2>1, <2>2
  <2>3. CASE k + 1 # Len(u)
    <3>1. k + 1 \in 1..(Len(u) - 1)
      BY <1>2, <2>3
    <3> QED BY <1>2, <2>1, <3>1
  <2> QED BY <2>2, <2>3
<1> QED BY <1>1, <1>2, <1>3, <1>4 DEF Framed

\* A return leaves a stack of calls.
LEMMA CallerFramed ==
    ASSUME NEW h, NEW u, Framed(h, u), Len(u) > 1, NEW f \in Frame, f.el = u[Len(u) - 1].el,
           f.at # None => f.pc \in {"output", "input"} /\ f.at \in ToSet(h.list[ListOf(f)]),
           NEW w, w = Popped(u, f)
    PROVE  Framed(h, w)
<1>1. /\ u \in Stack /\ Len(u) <= MaxDepth
      /\ \A k \in 1..Len(u) : u[k].at # None =>
           u[k].pc \in {"output", "input"} /\ u[k].at \in ToSet(h.list[ListOf(u[k])])
      /\ \A k \in 1..(Len(u) - 1) : u[k].at # None /\ u[k + 1].el = Arc(u[k].at)
  BY DEF Framed
<1>2. /\ w \in Stack /\ Len(w) = Len(u) - 1 /\ Len(u) \in Nat
      /\ w[Len(u) - 1] = f
      /\ \A k \in 1..(Len(u) - 2) : w[k] = u[k]
  <2>1. u \in Stack /\ Len(u) > 1
    BY <1>1
  <2>2. /\ w \in Stack /\ Len(w) = Len(u) - 1 /\ Len(u) \in Nat /\ w # <<>>
        /\ w[Len(u) - 1] = f
        /\ \A k \in 1..(Len(u) - 2) : w[k] = u[k] /\ u[k] \in Frame
        /\ u[Len(u)] \in Frame /\ u[Len(u) - 1] \in Frame
        /\ \A k \in Nat \ {0} : k # Len(u) /\ k # Len(u) - 1 => FrameAt(w, k) = FrameAt(u, k)
        /\ FrameAt(w, Len(u) - 1) = f.at /\ FrameAt(w, Len(u)) = None
    BY <2>1, CallerSet
  <2> QED BY <2>2
<1>3. ASSUME NEW k \in 1..Len(w), w[k].at # None
      PROVE  w[k].pc \in {"output", "input"} /\ w[k].at \in ToSet(h.list[ListOf(w[k])])
  <2>1. CASE k = Len(u) - 1
    BY <1>2, <1>3, <2>1
  <2>2. CASE k # Len(u) - 1
    <3>1. k \in 1..(Len(u) - 2) /\ k \in 1..Len(u)
      BY <1>2, <2>2
    <3> QED BY <1>1, <1>2, <1>3, <3>1
  <2> QED BY <2>1, <2>2
<1>4. ASSUME NEW k \in 1..(Len(w) - 1)
      PROVE  w[k].at # None /\ w[k + 1].el = Arc(w[k].at)
  <2>0. k \in 1..(Len(u) - 2) /\ k \in 1..(Len(u) - 1)
    BY <1>2
  <2>1. w[k] = u[k] /\ u[k].at # None /\ u[k + 1].el = Arc(u[k].at)
    BY <1>1, <1>2, <2>0
  <2>2. CASE k + 1 = Len(u) - 1
    BY <1>2, <2>1, <2>2
  <2>3. CASE k + 1 # Len(u) - 1
    <3>1. k + 1 \in 1..(Len(u) - 2)
      BY <1>2, <2>0, <2>3
    <3> QED BY <1>2, <2>1, <3>1
  <2> QED BY <2>2, <2>3
<1>5. Len(w) <= MaxDepth
  BY <1>1, <1>2, Bounds
<1> QED BY <1>2, <1>3, <1>4, <1>5 DEF Framed

\* A call for the arc that the caller's iterator stands at leaves a stack of calls.
LEMMA PushFramed ==
    ASSUME NEW h, NEW u, Framed(h, u), u # <<>>, u[Len(u)].at # None, Len(u) < MaxDepth,
           NEW f \in Frame, f.el = Arc(u[Len(u)].at), f.at = None, NEW w, w = Deeper(u, f)
    PROVE  Framed(h, w)
<1>1. /\ u \in Stack /\ Len(u) <= MaxDepth
      /\ \A k \in 1..Len(u) : u[k].at # None =>
           u[k].pc \in {"output", "input"} /\ u[k].at \in ToSet(h.list[ListOf(u[k])])
      /\ \A k \in 1..(Len(u) - 1) : u[k].at # None /\ u[k + 1].el = Arc(u[k].at)
  BY DEF Framed
<1>2. /\ w \in Stack /\ Len(w) = Len(u) + 1 /\ Len(u) \in Nat
      /\ w[Len(u) + 1] = f
      /\ \A k \in 1..Len(u) : w[k] = u[k]
  <2>1. u \in Stack
    BY <1>1
  <2>2. /\ w \in Stack /\ Len(w) = Len(u) + 1 /\ Len(u) \in Nat /\ w # <<>>
        /\ w[Len(u) + 1] = f
        /\ \A k \in 1..Len(u) : w[k] = u[k] /\ u[k] \in Frame
        /\ \A k \in Nat \ {0} : FrameAt(w, k) = FrameAt(u, k)
    BY <2>1, Pushed
  <2> QED BY <2>2
<1>3. ASSUME NEW k \in 1..Len(w), w[k].at # None
      PROVE  w[k].pc \in {"output", "input"} /\ w[k].at \in ToSet(h.list[ListOf(w[k])])
  <2>1. k # Len(u) + 1
    BY <1>2, <1>3
  <2>2. k \in 1..Len(u)
    BY <1>2, <2>1
  <2> QED BY <1>1, <1>2, <1>3, <2>2
<1>4. ASSUME NEW k \in 1..(Len(w) - 1)
      PROVE  w[k].at # None /\ w[k + 1].el = Arc(w[k].at)
  <2>1. k \in 1..Len(u) /\ w[k] = u[k]
    BY <1>2
  <2>2. CASE k = Len(u)
    BY <1>2, <2>1, <2>2
  <2>3. CASE k # Len(u)
    <3>1. k + 1 \in 1..Len(u) /\ k \in 1..(Len(u) - 1)
      BY <1>2, <2>1, <2>3
    <3> QED BY <1>1, <1>2, <2>1, <3>1
  <2> QED BY <2>2, <2>3
<1>5. Len(w) <= MaxDepth
  BY <1>1, <1>2, Bounds
<1> QED BY <1>2, <1>3, <1>4, <1>5 DEF Framed

\* No call, or one, is a stack of calls.
LEMMA SingleFramed ==
    ASSUME NEW h
    PROVE  /\ Framed(h, <<>>)
           /\ \A f \in Frame : f.at = None => Framed(h, <<f>>)
<1>1. Framed(h, <<>>)
  <2>1. <<>> \in Stack /\ Len(<<>>) = 0
    BY DEF Stack
  <2> QED BY <2>1, Bounds DEF Framed
<1>2. ASSUME NEW f \in Frame, f.at = None
      PROVE  Framed(h, <<f>>)
  <2>1. <<f>> \in Stack /\ Len(<<f>>) = 1 /\ <<f>>[1] = f
    BY DEF Stack
  <2> DEFINE u == <<f>>
  <2> HIDE DEF u
  <2>2. u \in Stack /\ Len(u) = 1 /\ u[1] = f
    BY <2>1 DEF u
  <2>3. \A k \in 1..Len(u) : u[k].at = None
    BY <1>2, <2>2
  <2>4. Len(u) <= MaxDepth
    BY <2>2, Bounds
  <2>5. 1..(Len(u) - 1) = {}
    BY <2>2
  <2>6. Framed(h, u)
    BY <2>2, <2>3, <2>4, <2>5 DEF Framed
  <2> QED BY <2>6 DEF u
<1> QED BY <1>1, <1>2

-----------------------------------------------------------------------------

\* A change of the heap leaves the iterators of calls in their lists: they hold their links.
LEMMA FramedStays ==
    ASSUME NEW h, NEW h2, NEW g, NEW g2, NEW at, NEW at2, NEW own, NEW own2,
           HeapInv(h, g, at, own), HeapInv(h2, g2, at2, own2), Trimmed(h, h2),
           NEW a \in Agents, NEW u, Framed(h, u),
           \A k \in 1..MaxDepth : at2[<<a, k>>] = FrameAt(u, k)
    PROVE  Framed(h2, u)
<1>1. /\ u \in Stack /\ Len(u) <= MaxDepth /\ Len(u) \in Nat
      /\ \A k \in 1..Len(u) : u[k].at # None =>
           u[k].pc \in {"output", "input"} /\ u[k].at \in ToSet(h.list[ListOf(u[k])])
      /\ \A k \in 1..(Len(u) - 1) : u[k].at # None /\ u[k + 1].el = Arc(u[k].at)
      /\ \A k \in 1..Len(u) : u[k] \in Frame
  BY DEF Framed, Stack
<1>2. ASSUME NEW k \in 1..Len(u), u[k].at # None
      PROVE  u[k].at \in ToSet(h2.list[ListOf(u[k])])
  <2>1. k \in 1..MaxDepth
    BY <1>1, Bounds
  <2>2. at2[<<a, k>>] = u[k].at /\ <<a, k>> \in Slots
    BY <1>1, <2>1, SlotShape DEF FrameAt
  <2>3. u[k].at \in ToSet(h.list[ListOf(u[k])]) /\ ListOf(u[k]) \in ListIds
    BY <1>1, <1>2, FrameFields
  <2> QED BY <1>2, <2>2, <2>3, HeldStays
<1> QED BY <1>1, <1>2 DEF Framed

\* A change of the heap leaves the iterators of users in their lists.
LEMMA ItersStay ==
    ASSUME NEW h, NEW h2, NEW g, NEW g2, NEW at, NEW at2, NEW own, NEW own2,
           HeapInv(h, g, at, own), HeapInv(h2, g2, at2, own2), Trimmed(h, h2),
           NEW it, ItersOK(h, it), \A i \in Iters : at2[<<i, 0>>] = it[i].at
    PROVE  ItersOK(h2, it)
<1>1. it \in [Iters -> IterType]
  BY DEF ItersOK
<1>2. ASSUME NEW i \in Iters, it[i].at # None
      PROVE  it[i].at \in ToSet(h2.list[it[i].list])
  <2>1. it[i].at \in ToSet(h.list[it[i].list]) /\ it[i].list \in ListIds /\ <<i, 0>> \in Slots
    BY <1>1, <1>2, FrameFields, SlotShape DEF ItersOK
  <2> QED BY <1>2, <2>1, HeldStays
<1> QED BY <1>1, <1>2 DEF ItersOK

\* The lists have got links only.
Grown(h, h2) == \A L \in ListIds : ToSet(h.list[L]) \subseteq ToSet(h2.list[L])

\* Lists that have only grown leave all iterators in their lists.
LEMMA GrownStays ==
    ASSUME NEW h, NEW h2, Grown(h, h2)
    PROVE  /\ \A u : Framed(h, u) => Framed(h2, u)
           /\ \A it : ItersOK(h, it) => ItersOK(h2, it)
<1>1. ASSUME NEW u, Framed(h, u)
      PROVE  Framed(h2, u)
  <2>1. \A k \in 1..Len(u) : ListOf(u[k]) \in ListIds
    BY <1>1, FrameFields DEF Framed, Stack
  <2> QED BY <1>1, <2>1 DEF Framed, Grown
<1>2. ASSUME NEW it, ItersOK(h, it)
      PROVE  ItersOK(h2, it)
  <2>1. \A i \in Iters : it[i].at # None => it[i].list \in ListIds
    BY <1>2, FrameFields DEF ItersOK
  <2> QED BY <1>2, <2>1 DEF ItersOK, Grown
<1> QED BY <1>1, <1>2

-----------------------------------------------------------------------------
\* Arcs have left their ends only.
Shrinks(g, g2) == \A x \in Arcs, s \in Sides : g2[x][s] # NoHint => g2[x][s] = g[x][s]

\* Where only hints have been forgotten no link comes to life.
LEMMA LiveShrinks ==
    ASSUME NEW h, NEW h2, NEW g, NEW g2, NEW at, NEW at2, NEW own, NEW own2,
           HeapInv(h, g, at, own), HeapInv(h2, g2, at2, own2), Shrinks(g, g2)
    PROVE  \A L \in ListIds : Live(h2, L) \subseteq Live(h, L)
<1> SUFFICES ASSUME NEW L \in ListIds, NEW l \in Live(h2, L)
             PROVE  l \in Live(h, L)
  OBVIOUS
<1>1. l \in ToSet(h2.list[L]) /\ ~h2.link[l].dead
  BY DEF Live
<1>2. l \in Links
  BY <1>1, HeapFacts
<1>3. l[1] \in Arcs /\ L[2] \in Sides /\ L[1] \in Elements /\ L = <<L[1], L[2]>>
  BY <1>2, LinkShape
<1>4. g2[l[1]][L[2]] = [el |-> L[1], at |-> l]
  BY <1>1 DEF HeapInv, Hinted
<1>5. g2[l[1]][L[2]] # NoHint
  BY <1>3, <1>4, LinkShape DEF NoHint
<1>6. g[l[1]][L[2]] = [el |-> L[1], at |-> l] /\ g[l[1]][L[2]] # NoHint
  BY <1>3, <1>4, <1>5 DEF Shrinks
<1>7. l \in ToSet(h.list[<<L[1], L[2]>>]) /\ ~h.link[l].dead
  BY <1>3, <1>6 DEF HeapInv, Hinted
<1> QED BY <1>3, <1>7 DEF Live

\* A call of __erase_el still has before it what is alive in its list, after a change that only
\* removes.
LEMMA FrameStillErases ==
    ASSUME NEW h, NEW h2, NEW g, NEW g2, NEW at, NEW at2, NEW own, NEW own2,
           HeapInv(h, g, at, own), HeapInv(h2, g2, at2, own2), Trimmed(h, h2), Shrinks(g, g2),
           NEW f \in Frame, FrameErases(h, g, f),
           f.at # None => f.at \in ToSet(h2.list[ListOf(f)])
    PROVE  FrameErases(h2, g2, f)
<1>1. \A L \in ListIds : Live(h2, L) \subseteq Live(h, L)
  BY LiveShrinks
<1>2. f.pc # "enter" /\ f.el \in Arcs => \A s \in Sides : g2[f.el][s] = NoHint
  BY DEF FrameErases, Shrinks
<1>3. f.pc = "input" => Live(h2, <<f.el, "beg">>) = {}
  <2>1. <<f.el, "beg">> \in ListIds
    BY FrameFields, LinkShape DEF Sides
  <2> QED BY <1>1, <2>1 DEF FrameErases
<1>4. ASSUME f.pc # "enter", NEW l \in Live(h2, ListOf(f))
      PROVE  f.at # None /\ (l = f.at \/ Precedes(h2.list[ListOf(f)], f.at, l))
  <2>1. ListOf(f) \in ListIds
    BY FrameFields
  <2>2. l \in Live(h, ListOf(f)) /\ l \in ToSet(h2.list[ListOf(f)])
    BY <1>1, <2>1 DEF Live
  <2>3. f.at # None /\ (l = f.at \/ Precedes(h.list[ListOf(f)], f.at, l))
    BY <1>4, <2>2 DEF FrameErases
  <2>4. f.at \in ToSet(h2.list[ListOf(f)])
    BY <2>3
  <2> QED BY <2>1, <2>2, <2>3, <2>4 DEF Trimmed
<1> QED BY <1>2, <1>3, <1>4 DEF FrameErases

\* The iterator has found the first link that is alive.
Finds(h, L, m) ==
    /\ Live(h, L) = {} => m = None
    /\ Live(h, L) # {} => m \in Live(h, L) /\ \A n \in Live(h, L) \ {m} : Precedes(h.list[L], m, n)

\* What an iterator that stands at the first live link has before it is all that is alive.
LEMMA Found ==
    ASSUME NEW h, NEW h2, NEW g, NEW at, NEW at2, NEW own, NEW own2,
           HeapInv(h, g, at, own), HeapInv(h2, g, at2, own2), Trimmed(h, h2),
           NEW L \in ListIds, NEW m, Finds(h, L, m)
    PROVE  \A l \in Live(h2, L) : m # None /\ (l = m \/ Precedes(h2.list[L], m, l))
<1> SUFFICES ASSUME NEW l \in Live(h2, L)
             PROVE  m # None /\ (l = m \/ Precedes(h2.list[L], m, l))
  OBVIOUS
<1>1. Live(h2, L) = Live(h, L)
  BY LiveSame
<1>2. m \in Live(h, L) /\ (l = m \/ Precedes(h.list[L], m, l))
  BY <1>1 DEF Finds
<1>3. m \in ToSet(h2.list[L]) /\ l \in ToSet(h2.list[L])
  BY <1>1, <1>2 DEF Live
<1>4. m # None
  BY <1>3, HeapFacts, LinkShape
<1> QED BY <1>2, <1>3, <1>4 DEF Trimmed

-----------------------------------------------------------------------------
(***************************************************************************)
(* Agents and users take turns: what one leaves of the invariant for the   *)
(* other                                                                   *)
(***************************************************************************)

\* A step of one agent keeps the invariant if it keeps the heap, its own stack and its own work.
LEMMA AgentStep ==
    ASSUME NEW h, NEW g, NEW it, NEW st, NEW ph, NEW sl, NEW ac, NEW ag \in Agents, ac \in {ag, None},
           Inv(h, g, it, st, ph, ac, sl),
           NEW h2, NEW g2, NEW u \in Stack, NEW st2, st2 = Put(st, ag, u),
           HeapInv(h2, g2, AtOf(it, st2), OwnerOf(it)), Trimmed(h, h2), EndsLive(h2, g2), Framed(h, u),
           NEW ph2 \in [Agents -> {"pre", "erase"}], \A b \in Agents : b # ag => ph2[b] = ph[b],
           NEW sl2 \in [Agents -> BOOLEAN], \A b \in Agents : b # ag => sl2[b] = sl[b],
           NEW ac2, ac2 \in {ag, None},
           ac2 = ag => Working(h2, g2, u, ph2[ag], sl2[ag]),
           ac2 = None /\ u # <<>> => ph2[ag] = "pre" /\ sl2[ag]
    PROVE  Inv(h2, g2, it, st2, ph2, ac2, sl2)
<1>1. /\ HeapInv(h, g, AtOf(it, st), OwnerOf(it))
      /\ ItersOK(h, it)
      /\ st \in [Agents -> Stack]
      /\ \A a \in Agents : Framed(h, st[a])
      /\ \A a \in Agents : a # ac /\ st[a] # <<>> => ph[a] = "pre" /\ sl[a]
  BY DEF Inv
<1>2. st2 \in [Agents -> Stack] /\ st2[ag] = u /\ \A b \in Agents : b # ag => st2[b] = st[b]
  BY <1>1 DEF Put
<1>3. it \in [Iters -> IterType]
  BY <1>1 DEF ItersOK
<1>4. /\ \A i \in Iters : AtOf(it, st2)[<<i, 0>>] = it[i].at
      /\ \A b \in Agents, k \in 1..MaxDepth : AtOf(it, st2)[<<b, k>>] = FrameAt(st2[b], k)
  BY <1>2, <1>3, AtOfFields
<1>5. PICK at, at2, own : at = AtOf(it, st) /\ at2 = AtOf(it, st2) /\ own = OwnerOf(it)
  OBVIOUS
<1>6. /\ HeapInv(h, g, at, own) /\ HeapInv(h2, g2, at2, own) /\ Trimmed(h, h2)
      /\ \A i \in Iters : at2[<<i, 0>>] = it[i].at
      /\ \A b \in Agents, k \in 1..MaxDepth : at2[<<b, k>>] = FrameAt(st2[b], k)
  BY <1>1, <1>4, <1>5
<1>7. ItersOK(h2, it)
  BY <1>1, <1>6, ItersStay
<1>8. ASSUME NEW a \in Agents
      PROVE  Framed(h2, st2[a])
  <2>1. Framed(h, st2[a])
    <3>1. CASE a = ag
      BY <1>2, <3>1
    <3>2. CASE a # ag
      BY <1>1, <1>2, <3>2
    <3> QED BY <3>1, <3>2
  <2>2. PICK v : v = st2[a]
    OBVIOUS
  <2>3. Framed(h, v) /\ \A k \in 1..MaxDepth : at2[<<a, k>>] = FrameAt(v, k)
    BY <1>6, <2>1, <2>2
  <2>4. Framed(h2, v)
    BY <1>6, <2>3, FramedStays
  <2> QED BY <2>2, <2>4
<1>9. ASSUME NEW a \in Agents, a # ac2, st2[a] # <<>>
      PROVE  ph2[a] = "pre" /\ sl2[a]
  <2>1. CASE a = ag
    BY <1>2, <1>9, <2>1
  <2>2. CASE a # ag
    <3>1. a # ac
      BY <2>2, Disjoint
    <3>2. st2[a] = st[a] /\ ph2[a] = ph[a] /\ sl2[a] = sl[a]
      BY <1>2, <2>2
    <3> QED BY <1>1, <1>9, <3>1, <3>2
  <2> QED BY <2>1, <2>2
<1>10. ac2 # None => Working(h2, g2, st2[ac2], ph2[ac2], sl2[ac2])
  <2>1. SUFFICES ASSUME ac2 = ag PROVE Working(h2, g2, st2[ag], ph2[ag], sl2[ag])
    OBVIOUS
  <2> QED BY <1>2, <2>1
<1>11. ac2 \in Agents \cup {None}
  OBVIOUS
<1> QED BY <1>2, <1>7, <1>8, <1>9, <1>10, <1>11 DEF Inv

\* A step of a user, between the steps of agents, keeps the invariant if it keeps the heap and
\* the user's iterators.
LEMMA UserStep ==
    ASSUME NEW h, NEW g, NEW it, NEW st, NEW ph, NEW sl,
           Inv(h, g, it, st, ph, None, sl),
           NEW h2, NEW g2, NEW it2,
           HeapInv(h2, g2, AtOf(it2, st), OwnerOf(it2)), Trimmed(h, h2), EndsLive(h2, g2),
           ItersOK(h, it2)
    PROVE  Inv(h2, g2, it2, st, ph, None, sl)
<1>1. /\ HeapInv(h, g, AtOf(it, st), OwnerOf(it))
      /\ st \in [Agents -> Stack] /\ ph \in [Agents -> {"pre", "erase"}] /\ sl \in [Agents -> BOOLEAN]
      /\ \A a \in Agents : Framed(h, st[a])
      /\ \A a \in Agents : a # None /\ st[a] # <<>> => ph[a] = "pre" /\ sl[a]
  BY DEF Inv
<1>2. it2 \in [Iters -> IterType]
  BY DEF ItersOK
<1>4. /\ \A i \in Iters : AtOf(it2, st)[<<i, 0>>] = it2[i].at
      /\ \A b \in Agents, k \in 1..MaxDepth : AtOf(it2, st)[<<b, k>>] = FrameAt(st[b], k)
  BY <1>1, <1>2, AtOfFields
<1>5. PICK at, at2, own, own2 : /\ at = AtOf(it, st) /\ at2 = AtOf(it2, st)
                                /\ own = OwnerOf(it) /\ own2 = OwnerOf(it2)
  OBVIOUS
<1>6. /\ HeapInv(h, g, at, own) /\ HeapInv(h2, g2, at2, own2) /\ Trimmed(h, h2)
      /\ \A i \in Iters : at2[<<i, 0>>] = it2[i].at
      /\ \A b \in Agents, k \in 1..MaxDepth : at2[<<b, k>>] = FrameAt(st[b], k)
  BY <1>1, <1>4, <1>5
<1>7. ItersOK(h2, it2)
  BY <1>6, ItersStay
<1>8. ASSUME NEW a \in Agents
      PROVE  Framed(h2, st[a])
  <2>1. PICK v : v = st[a]
    OBVIOUS
  <2>2. Framed(h, v) /\ \A k \in 1..MaxDepth : at2[<<a, k>>] = FrameAt(v, k)
    BY <1>1, <1>6, <2>1
  <2>3. Framed(h2, v)
    BY <1>6, <2>2, FramedStays
  <2> QED BY <2>1, <2>3
<1> QED BY <1>1, <1>7, <1>8 DEF Inv

-----------------------------------------------------------------------------

\* The agent's work after a step of its innermost call.
LEMMA WorkingTop ==
    ASSUME NEW h, NEW h2, NEW g, NEW g2, NEW at, NEW at2, NEW own, NEW own2,
           HeapInv(h, g, at, own), HeapInv(h2, g2, at2, own2), Kept(h, h2), Shrinks(g, g2),
           NEW u \in Stack, NEW p, NEW s, Working(h, g, u, p, s),
           NEW f \in Frame, f.el = u[Len(u)].el, NEW w, w = Topped(u, f), Framed(h2, w),
           p = "erase" => FrameErases(h2, g2, f),
           (p = "erase" \/ ~s) /\ f.at # None => ~h2.link[f.at].dead
    PROVE  Working(h2, g2, w, p, s)
<1>1. /\ u # <<>>
      /\ p = "erase" => Distinct(u) /\ \A k \in 1..Len(u) : FrameErases(h, g, u[k])
      /\ ~s => AllLive(h, u)
  BY DEF Working
<1>2. /\ w \in Stack /\ Len(w) = Len(u) /\ Len(u) \in Nat \ {0} /\ w # <<>>
      /\ w[Len(u)] = f
      /\ \A k \in 1..(Len(u) - 1) : w[k] = u[k] /\ u[k] \in Frame
      /\ u[Len(u)] \in Frame
      /\ \A k \in Nat \ {0} : k # Len(u) => FrameAt(w, k) = FrameAt(u, k)
      /\ FrameAt(w, Len(u)) = f.at /\ FrameAt(u, Len(u)) = u[Len(u)].at
  BY <1>1, TopSet
<1>3. \A k \in 1..Len(u) : u[k] \in Frame /\ w[k].el = u[k].el
  BY <1>2
<1>4. Trimmed(h, h2)
  BY DEF Kept
<1>5. ASSUME p = "erase", NEW k \in 1..Len(w)
      PROVE  FrameErases(h2, g2, w[k])
  <2>1. CASE k = Len(u)
    BY <1>2, <1>5, <2>1
  <2>2. CASE k # Len(u)
    <3>1. k \in 1..(Len(u) - 1)
      BY <1>2, <2>2
    <3>2. w[k] = u[k] /\ u[k] \in Frame /\ FrameErases(h, g, u[k])
      BY <1>1, <1>2, <1>5, <3>1
    <3>3. w[k].at # None => w[k].at \in ToSet(h2.list[ListOf(w[k])])
      BY DEF Framed
    <3> QED BY <1>4, <3>2, <3>3, FrameStillErases
  <2> QED BY <2>1, <2>2
<1>6. p = "erase" => Distinct(w)
  BY <1>1, <1>2, <1>3 DEF Distinct
<1>7. ~s => AllLive(h2, w)
  <2> SUFFICES ASSUME ~s, NEW k \in 1..Len(w)
               PROVE  h2.state[w[k].el] = "live"
    BY DEF AllLive
  <2>1. h.state[u[k].el] = "live" /\ w[k].el = u[k].el /\ u[k].el \in Elements
    BY <1>1, <1>2, <1>3, FrameFields DEF AllLive
  <2> QED BY <2>1 DEF Kept
<1>8. p = "erase" \/ ~s => TopLive(h2, w)
  BY <1>2 DEF TopLive
<1> QED BY <1>2, <1>5, <1>6, <1>7, <1>8 DEF Working

\* The agent's work after a return, when at most the returning call's element has died.
LEMMA WorkingCaller ==
    ASSUME NEW h, NEW h2, NEW g, NEW at, NEW at2, NEW own, NEW own2,
           HeapInv(h, g, at, own), HeapInv(h2, g, at2, own2), Trimmed(h, h2),
           NEW u \in Stack, Len(u) > 1, NEW p, NEW s, Working(h, g, u, p, s),
           \A k \in 1..(Len(u) - 1) : h.state[u[k].el] = "live" =>
             h2.state[u[k].el] = "live" \/ (p = "erase" /\ u[k].el = u[Len(u)].el),
           NEW f \in Frame, f.el = u[Len(u) - 1].el, NEW w, w = Popped(u, f), Framed(h2, w),
           p = "erase" => FrameErases(h2, g, f),
           (p = "erase" \/ ~s) /\ f.at # None => ~h2.link[f.at].dead
    PROVE  Working(h2, g, w, p, s)
<1>1. /\ u # <<>>
      /\ p = "erase" => Distinct(u) /\ \A k \in 1..Len(u) : FrameErases(h, g, u[k])
      /\ ~s => AllLive(h, u)
  BY DEF Working
<1>2. /\ w \in Stack /\ Len(w) = Len(u) - 1 /\ Len(u) \in Nat /\ w # <<>>
      /\ w[Len(u) - 1] = f
      /\ \A k \in 1..(Len(u) - 2) : w[k] = u[k] /\ u[k] \in Frame
      /\ u[Len(u)] \in Frame /\ u[Len(u) - 1] \in Frame
      /\ \A k \in Nat \ {0} : k # Len(u) /\ k # Len(u) - 1 => FrameAt(w, k) = FrameAt(u, k)
      /\ FrameAt(w, Len(u) - 1) = f.at /\ FrameAt(w, Len(u)) = None
  BY CallerSet
<1>3. \A k \in 1..Len(w) : u[k] \in Frame /\ w[k].el = u[k].el /\ k \in 1..Len(u) /\ k # Len(u)
                           /\ k \in 1..(Len(u) - 1)
  <2> SUFFICES ASSUME NEW k \in 1..Len(w)
               PROVE  u[k] \in Frame /\ w[k].el = u[k].el /\ k \in 1..Len(u) /\ k # Len(u)
                      /\ k \in 1..(Len(u) - 1)
    OBVIOUS
  <2>1. CASE k = Len(u) - 1
    BY <1>2, <2>1
  <2>2. CASE k # Len(u) - 1
    <3>1. k \in 1..(Len(u) - 2)
      BY <1>2, <2>2
    <3> QED BY <1>2, <3>1
  <2> QED BY <2>1, <2>2
<1>4. Shrinks(g, g)
  BY DEF Shrinks
<1>5. ASSUME p = "erase", NEW k \in 1..Len(w)
      PROVE  FrameErases(h2, g, w[k])
  <2>1. CASE k = Len(u) - 1
    BY <1>2, <1>5, <2>1
  <2>2. CASE k # Len(u) - 1
    <3>1. k \in 1..(Len(u) - 2) /\ k \in 1..Len(u)
      BY <1>2, <2>2
    <3>2. w[k] = u[k] /\ u[k] \in Frame /\ FrameErases(h, g, u[k])
      BY <1>1, <1>2, <1>5, <3>1
    <3>3. w[k].at # None => w[k].at \in ToSet(h2.list[ListOf(w[k])])
      BY DEF Framed
    <3> QED BY <1>4, <3>2, <3>3, FrameStillErases
  <2> QED BY <2>1, <2>2
<1>6. p = "erase" => Distinct(w)
  BY <1>1, <1>3 DEF Distinct
<1>7. ~s => AllLive(h2, w)
  <2> SUFFICES ASSUME ~s, NEW k \in 1..Len(w)
               PROVE  h2.state[w[k].el] = "live"
    BY DEF AllLive
  <2>1. h.state[u[k].el] = "live" /\ w[k].el = u[k].el /\ k \in 1..(Len(u) - 1)
    BY <1>1, <1>3 DEF AllLive
  <2>2. ~(p = "erase" /\ u[k].el = u[Len(u)].el)
    <3>1. Len(u) \in 1..Len(u)
      BY <1>2
    <3> QED BY <1>1, <1>3, <3>1 DEF Distinct
  <2> QED BY <2>1, <2>2
<1>8. p = "erase" \/ ~s => TopLive(h2, w)
  BY <1>2 DEF TopLive
<1> QED BY <1>2, <1>5, <1>6, <1>7, <1>8 DEF Working

\* An iterator of a call that stands at a live link leads to a live arc that has an end.
LEMMA TopArc ==
    ASSUME NEW h, NEW g, NEW at, NEW own, HeapInv(h, g, at, own), NEW f \in Frame,
           f.at # None, f.at \in ToSet(h.list[ListOf(f)]), ~h.link[f.at].dead
    PROVE  /\ Arc(f.at) \in Arcs /\ Arc(f.at) \in Elements /\ h.state[Arc(f.at)] = "live"
           /\ \E s \in Sides : g[Arc(f.at)][s] # NoHint
<1> DEFINE l == f.at
           L == ListOf(f)
<1>1. L \in ListIds /\ l \in Links
  BY FrameFields
<1>2. l[1] \in Arcs /\ L[2] \in Sides /\ l[1] \in Elements
  BY <1>1, LinkShape
<1>3. g[l[1]][L[2]] = [el |-> L[1], at |-> l]
  BY <1>1 DEF HeapInv, Hinted
<1>4. g[l[1]][L[2]] # NoHint
  BY <1>1, <1>3, LinkShape DEF NoHint
<1>5. h.state[l[1]] = "live"
  BY <1>2, <1>4 DEF HeapInv, Hinted
<1> QED BY <1>2, <1>4, <1>5 DEF Arc

\* The agent's work after a call: in __erase_el the arc at a live link is none of the elements
\* whose calls are open, for those arcs have left their ends.
LEMMA WorkingDeeper ==
    ASSUME NEW h, NEW g, NEW at, NEW own, HeapInv(h, g, at, own),
           NEW u \in Stack, Framed(h, u), NEW p, NEW s, Working(h, g, u, p, s),
           u[Len(u)].at # None, NEW f, f = Call(Arc(u[Len(u)].at)), NEW w, w = Deeper(u, f)
    PROVE  Working(h, g, w, p, s)
<1>1. /\ u # <<>>
      /\ p = "erase" => Distinct(u) /\ \A k \in 1..Len(u) : FrameErases(h, g, u[k])
      /\ ~s => AllLive(h, u)
      /\ p = "erase" \/ ~s => TopLive(h, u)
  BY DEF Working
<1>2. Len(u) \in Nat \ {0} /\ \A k \in 1..Len(u) : u[k] \in Frame
  BY <1>1, EmptySeq DEF Stack
<1> DEFINE t == u[Len(u)]
           y == Arc(t.at)
<1>3. t \in Frame /\ Len(u) \in 1..Len(u)
  BY <1>2
<1>4. t.at \in ToSet(h.list[ListOf(t)])
  BY <1>3 DEF Framed
<1>5. y \in Elements
  BY <1>3, FrameFields, LinkShape DEF Arc
<1>6. f \in Frame /\ f.el = y /\ f.pc = "enter" /\ f.at = None
  BY <1>5, FrameFields
<1>7. /\ w \in Stack /\ Len(w) = Len(u) + 1 /\ Len(u) \in Nat /\ w # <<>>
      /\ w[Len(u) + 1] = f
      /\ \A k \in 1..Len(u) : w[k] = u[k] /\ u[k] \in Frame
      /\ \A k \in Nat \ {0} : FrameAt(w, k) = FrameAt(u, k)
  BY <1>6, Pushed
<1>8. ASSUME p = "erase" \/ ~s
      PROVE  y \in Arcs /\ h.state[y] = "live" /\ \E r \in Sides : g[y][r] # NoHint
  <2>1. ~h.link[t.at].dead
    BY <1>1, <1>8 DEF TopLive
  <2> QED BY <1>3, <1>4, <2>1, TopArc
<1>9. ASSUME p = "erase", NEW k \in 1..Len(u)
      PROVE  u[k].el # y
  <2>1. u[k].at # None
    <3>1. CASE k = Len(u)
      BY <3>1
    <3>2. CASE k # Len(u)
      <4>1. k \in 1..(Len(u) - 1)
        BY <1>2, <3>2
      <4> QED BY <4>1 DEF Framed
    <3> QED BY <3>1, <3>2
  <2>2. u[k].pc # "enter"
    BY <2>1 DEF Framed
  <2>3. u[k].el \in Arcs => \A r \in Sides : g[u[k].el][r] = NoHint
    BY <1>1, <1>9, <2>2 DEF FrameErases
  <2> QED BY <1>8, <1>9, <2>3
<1> HIDE DEF y, t
<1>10. p = "erase" => Distinct(w)
  <2> SUFFICES ASSUME p = "erase", NEW j \in 1..Len(w), NEW k \in 1..Len(w), w[j].el = w[k].el
               PROVE  j = k
    BY DEF Distinct
  <2>1. \A i \in 1..Len(w) : i = Len(u) + 1 \/ i \in 1..Len(u)
    BY <1>7
  <2>2. CASE j = Len(u) + 1 /\ k \in 1..Len(u)
    BY <1>6, <1>7, <1>9, <2>2
  <2>3. CASE k = Len(u) + 1 /\ j \in 1..Len(u)
    BY <1>6, <1>7, <1>9, <2>3
  <2>4. CASE j \in 1..Len(u) /\ k \in 1..Len(u)
    BY <1>1, <1>7, <2>4 DEF Distinct
  <2> QED BY <2>1, <2>2, <2>3, <2>4
<1>11. ASSUME p = "erase", NEW k \in 1..Len(w)
       PROVE  FrameErases(h, g, w[k])
  <2>1. CASE k = Len(u) + 1
    BY <1>6, <1>7, <2>1 DEF FrameErases
  <2>2. CASE k # Len(u) + 1
    <3>1. k \in 1..Len(u)
      BY <1>7, <2>2
    <3> QED BY <1>1, <1>7, <1>11, <3>1
  <2> QED BY <2>1, <2>2
<1>12. ~s => AllLive(h, w)
  <2> SUFFICES ASSUME ~s, NEW k \in 1..Len(w)
               PROVE  h.state[w[k].el] = "live"
    BY DEF AllLive
  <2>1. CASE k = Len(u) + 1
    BY <1>6, <1>7, <1>8, <2>1
  <2>2. CASE k # Len(u) + 1
    <3>1. k \in 1..Len(u)
      BY <1>7, <2>2
    <3> QED BY <1>1, <1>7, <3>1 DEF AllLive
  <2> QED BY <2>1, <2>2
<1>13. TopLive(h, w)
  BY <1>6, <1>7 DEF TopLive
<1> QED BY <1>7, <1>10, <1>11, <1>12, <1>13 DEF Working

\* Calls for different elements are no more than there are elements.
LEMMA DistinctCalls ==
    ASSUME NEW u \in Stack, Distinct(u)
    PROVE  Len(u) <= Cardinality(Elements)
<1>1. Len(u) \in Nat /\ \A k \in 1..Len(u) : u[k] \in Frame
  BY DEF Stack
<1> DEFINE f == [k \in 1..Len(u) |-> u[k].el]
<1>2. f \in [1..Len(u) -> Elements]
  BY <1>1, FrameFields
<1>3. \A j, k \in 1..Len(u) : f[j] = f[k] => j = k
  BY DEF Distinct
<1> HIDE DEF f
<1>4. f \in Injection(1..Len(u), Elements)
  BY <1>2, <1>3 DEF Injection, IsInjective
<1>5. 1 \in Int /\ Len(u) \in Int
  BY <1>1
<1>6. IsFiniteSet(1..Len(u)) /\ Cardinality(1..Len(u)) = Len(u)
  BY <1>1, <1>5, FS_Interval
<1>7. Cardinality(1..Len(u)) <= Cardinality(Elements)
  BY <1>4, Finite, FS_Injection
<1> QED BY <1>6, <1>7

-----------------------------------------------------------------------------
(***************************************************************************)
(* The steps of an erasure, on values                                      *)
(***************************************************************************)

\* Arcs keep live ends when hints are only forgotten and no element dies.
LEMMA EndsStay ==
    ASSUME NEW h, NEW h2, NEW g \in HintType, NEW g2, EndsLive(h, g), Shrinks(g, g2), Kept(h, h2)
    PROVE  EndsLive(h2, g2)
<1> SUFFICES ASSUME NEW x \in Arcs, NEW s \in Sides, g2[x][s] # NoHint
             PROVE  h2.state[g2[x][s].el] = "live"
  BY DEF EndsLive
<1>1. g2[x][s] = g[x][s] /\ g[x][s] # NoHint
  BY DEF Shrinks
<1>2. h.state[g[x][s].el] = "live" /\ g[x][s].el \in Elements
  BY <1>1, HintShape DEF EndsLive
<1> QED BY <1>1, <1>2 DEF Kept

\* What the invariant says of the agent that runs.
LEMMA Runs ==
    ASSUME NEW h, NEW g, NEW it, NEW st, NEW ph, NEW sl, NEW ag \in Agents,
           Inv(h, g, it, st, ph, ag, sl), NEW u, u = st[ag]
    PROVE  /\ u \in Stack /\ Framed(h, u) /\ u # <<>> /\ Len(u) \in 1..MaxDepth /\ Len(u) \in Nat
           /\ u[Len(u)] \in Frame
           /\ Working(h, g, u, ph[ag], sl[ag])
           /\ HeapInv(h, g, AtOf(it, st), OwnerOf(it)) /\ EndsLive(h, g) /\ g \in HintType
           /\ it \in [Iters -> IterType] /\ st \in [Agents -> Stack]
           /\ ph \in [Agents -> {"pre", "erase"}] /\ sl \in [Agents -> BOOLEAN]
           /\ ag # None
           /\ \A k \in 1..MaxDepth : AtOf(it, st)[<<ag, k>>] = FrameAt(u, k) /\ <<ag, k>> \in Slots
           /\ AtOf(it, st) \in AtType
<1>1. /\ HeapInv(h, g, AtOf(it, st), OwnerOf(it)) /\ EndsLive(h, g) /\ ItersOK(h, it)
      /\ st \in [Agents -> Stack]
      /\ ph \in [Agents -> {"pre", "erase"}] /\ sl \in [Agents -> BOOLEAN]
      /\ Framed(h, u)
      /\ ag # None /\ Working(h, g, u, ph[ag], sl[ag])
  BY Disjoint DEF Inv
<1>2. u # <<>> /\ u \in Stack /\ Len(u) <= MaxDepth
  BY <1>1 DEF Working, Framed
<1>3. Len(u) \in Nat \ {0} /\ u[Len(u)] \in Frame
  BY <1>2, EmptySeq DEF Stack
<1>4. Len(u) \in 1..MaxDepth
  BY <1>2, <1>3, Bounds
<1>5. it \in [Iters -> IterType]
  BY <1>1 DEF ItersOK
<1>6. /\ \A k \in 1..MaxDepth : AtOf(it, st)[<<ag, k>>] = FrameAt(u, k) /\ <<ag, k>> \in Slots
      /\ AtOf(it, st) \in AtType
  BY <1>1, <1>5, AtOfFields, SlotShape
<1>7. g \in HintType
  BY <1>1 DEF HeapInv
<1> QED BY <1>1, <1>2, <1>3, <1>4, <1>5, <1>6, <1>7

\* A call that begins with its output or its input arcs keeps the invariant.
LEMMA Iterates ==
    ASSUME NEW h, NEW g, NEW it, NEW st, NEW ph, NEW sl, NEW ag \in Agents,
           Inv(h, g, it, st, ph, ag, sl), NEW u, u = st[ag], u[Len(u)].at = None,
           NEW h1, NEW g1, HeapInv(h1, g1, AtOf(it, st), OwnerOf(it)), Kept(h, h1), Shrinks(g, g1),
           NEW q \in {"output", "input"},
           NEW L, L = <<u[Len(u)].el, IF q = "output" THEN "beg" ELSE "end">>,
           NEW r, r = Begin(h1, L),
           ph[ag] = "erase" /\ u[Len(u)].el \in Arcs => \A s \in Sides : g1[u[Len(u)].el][s] = NoHint,
           ph[ag] = "erase" /\ q = "input" => Live(h1, <<u[Len(u)].el, "beg">>) = {},
           NEW f, f = [el |-> u[Len(u)].el, pc |-> q, at |-> r.at],
           NEW st2, st2 = Put(st, ag, Topped(u, f))
    PROVE  Inv(r.heap, g1, it, st2, ph, ag, sl) /\ Trimmed(h, r.heap)
<1>1. /\ u \in Stack /\ Framed(h, u) /\ u # <<>> /\ Len(u) \in 1..MaxDepth /\ Len(u) \in Nat
      /\ u[Len(u)] \in Frame
      /\ Working(h, g, u, ph[ag], sl[ag])
      /\ HeapInv(h, g, AtOf(it, st), OwnerOf(it)) /\ EndsLive(h, g) /\ g \in HintType
      /\ it \in [Iters -> IterType] /\ st \in [Agents -> Stack]
      /\ ph \in [Agents -> {"pre", "erase"}] /\ sl \in [Agents -> BOOLEAN]
      /\ \A k \in 1..MaxDepth : AtOf(it, st)[<<ag, k>>] = FrameAt(u, k) /\ <<ag, k>> \in Slots
      /\ AtOf(it, st) \in AtType
  BY Runs
<1>2. PICK n, e, v, w, h2 : n = Len(u) /\ e = u[n].el /\ v = f /\ w = Topped(u, v) /\ h2 = r.heap
  OBVIOUS
<1>3. PICK at, own, c, at2 : /\ at = AtOf(it, st) /\ own = OwnerOf(it) /\ c = <<ag, n>>
                             /\ at2 = Put(at, c, r.at)
  OBVIOUS
<1>4. n \in 1..MaxDepth /\ n \in Nat /\ e \in Elements /\ L \in ListIds /\ L[1] = e
  BY <1>1, <1>2, FrameFields, LinkShape DEF Sides
<1>5. at[c] = None /\ c \in Slots
  BY <1>1, <1>2, <1>3, <1>4 DEF FrameAt
<1>6. HeapInv(h, g, at, own) /\ HeapInv(h1, g1, at, own)
  BY <1>1, <1>3
<1>7. /\ HeapInv(h2, g1, at2, own) /\ Kept(h1, h2)
      /\ Live(h1, L) = {} => r.at = None
      /\ Live(h1, L) # {} =>
           /\ r.at \in Live(h1, L)
           /\ \A m \in Live(h1, L) \ {r.at} : Precedes(h1.list[L], r.at, m)
      /\ r.at \in Links \cup {None}
  BY <1>2, <1>3, <1>4, <1>5, <1>6, Begun
<1>8. v \in Frame /\ v.el = e /\ v.pc = q /\ v.at = r.at /\ ListOf(v) = L
  BY <1>2, <1>4, <1>7 DEF Frame, ListOf
<1>9. /\ w \in Stack /\ Len(w) = Len(u) /\ Len(u) \in Nat \ {0} /\ w # <<>>
      /\ w[Len(u)] = v
      /\ \A k \in 1..(Len(u) - 1) : w[k] = u[k] /\ u[k] \in Frame
      /\ u[Len(u)] \in Frame
      /\ \A k \in Nat \ {0} : k # Len(u) => FrameAt(w, k) = FrameAt(u, k)
      /\ FrameAt(w, Len(u)) = v.at /\ FrameAt(u, Len(u)) = u[Len(u)].at
  <2>1. u \in Stack /\ u # <<>> /\ v \in Frame /\ w = Topped(u, v)
    BY <1>1, <1>2, <1>8
  <2> QED BY <2>1, TopSet
<1>10. AtOf(it, st2) = at2
  <2>1. st2 = Put(st, ag, w) /\ \A j \in 1..MaxDepth : j # n => FrameAt(w, j) = FrameAt(st[ag], j)
    <3>1. \A j \in 1..MaxDepth : j \in Nat \ {0}
      BY Bounds
    <3> QED BY <1>2, <1>9, <3>1
  <2>2. AtOf(it, st2) = Put(AtOf(it, st), <<ag, n>>, FrameAt(w, n))
    BY <1>1, <1>4, <1>9, <2>1, StackPut
  <2>3. FrameAt(w, n) = r.at
    BY <1>2, <1>8, <1>9
  <2> QED BY <1>3, <2>2, <2>3
<1>11. Kept(h, h2) /\ Trimmed(h, h2) /\ Trimmed(h1, h2) /\ Trimmed(h, h1)
  <2>1. Kept(h, h2)
    BY <1>7, KeptTwice
  <2> QED BY <1>7, <2>1 DEF Kept
<1>12. EndsLive(h2, g1)
  BY <1>1, <1>11, EndsStay
<1>13. r.at # None => r.at \in Live(h1, L)
  BY <1>7
<1>14. Framed(h, w)
  <2>1. v.at # None => v.pc \in {"output", "input"} /\ v.at \in ToSet(h.list[ListOf(v)])
    BY <1>4, <1>8, <1>11, <1>13 DEF Live, Trimmed
  <2> QED BY <1>1, <1>2, <1>8, <2>1, TopFramed
<1>15. Framed(h2, w)
  <2>1. st2 \in [Agents -> Stack] /\ st2[ag] = w
    BY <1>1, <1>2, <1>9 DEF Put
  <2>2. \A k \in 1..MaxDepth : at2[<<ag, k>>] = FrameAt(w, k)
    BY <1>1, <1>10, <2>1, AtOfFields
  <2> QED BY <1>6, <1>7, <1>11, <1>14, <2>2, FramedStays
<1>16. Live(h2, L) = Live(h1, L)
  BY <1>4, <1>6, <1>7, LiveSame
<1>17. ph[ag] = "erase" => FrameErases(h2, g1, v)
  <2> SUFFICES ASSUME ph[ag] = "erase" PROVE FrameErases(h2, g1, v)
    OBVIOUS
  <2>1. v.pc = "input" => Live(h2, <<v.el, "beg">>) = {}
    <3>1. <<e, "beg">> \in ListIds
      BY <1>4, LinkShape DEF Sides
    <3>2. Live(h2, <<e, "beg">>) = Live(h1, <<e, "beg">>)
      BY <1>6, <1>7, <3>1, LiveSame
    <3> QED BY <1>2, <1>8, <3>2
  <2>2. \A l \in Live(h2, L) : r.at # None /\ (l = r.at \/ Precedes(h2.list[L], r.at, l))
    <3>1. Finds(h1, L, r.at)
      BY <1>7 DEF Finds
    <3> QED BY <1>4, <1>6, <1>7, <1>11, <3>1, Found
  <2>3. v.el \in Arcs => \A s \in Sides : g1[v.el][s] = NoHint
    BY <1>2, <1>8
  <2> QED BY <1>8, <2>1, <2>2, <2>3 DEF FrameErases
<1>18. v.at # None => ~h2.link[v.at].dead
  BY <1>8, <1>13, <1>16 DEF Live
<1>19. Working(h2, g1, w, ph[ag], sl[ag])
  <2>1. PICK p, s : p = ph[ag] /\ s = sl[ag]
    OBVIOUS
  <2>2. u \in Stack /\ Working(h, g, u, p, s) /\ v \in Frame /\ v.el = u[Len(u)].el /\ w = Topped(u, v)
    BY <1>1, <1>2, <1>8, <2>1
  <2>3. (p = "erase" => FrameErases(h2, g1, v)) /\ ((p = "erase" \/ ~s) /\ v.at # None => ~h2.link[v.at].dead)
    BY <1>17, <1>18, <2>1
  <2>4. HeapInv(h, g, at, own) /\ HeapInv(h2, g1, at2, own) /\ Kept(h, h2) /\ Shrinks(g, g1)
    BY <1>6, <1>7, <1>11
  <2>5. Working(h2, g1, w, p, s)
    BY <1>15, <2>2, <2>3, <2>4, WorkingTop
  <2> QED BY <2>1, <2>5
<1>20. Inv(h2, g1, it, st2, ph, ag, sl)
  <2>1. HeapInv(h2, g1, AtOf(it, st2), OwnerOf(it))
    BY <1>3, <1>7, <1>10
  <2>2. st2 = Put(st, ag, w) /\ w \in Stack
    BY <1>2, <1>9
  <2> QED BY <1>1, <1>11, <1>12, <1>14, <1>19, <2>1, <2>2, Disjoint, AgentStep
<1> QED BY <1>2, <1>11, <1>20

\* Hints that have not changed.
LEMMA ShrinksSame == \A g : Shrinks(g, g)
BY DEF Shrinks

\* The step of an agent that leaves memory as it is.
LEMMA StackStep ==
    ASSUME NEW h, NEW g, NEW it, NEW st, NEW ph, NEW sl, NEW ac, NEW ag \in Agents, ac \in {ag, None},
           Inv(h, g, it, st, ph, ac, sl),
           NEW u \in Stack, \A k \in 1..MaxDepth : FrameAt(u, k) = FrameAt(st[ag], k),
           NEW st2, st2 = Put(st, ag, u), Framed(h, u),
           NEW ph2 \in [Agents -> {"pre", "erase"}], \A b \in Agents : b # ag => ph2[b] = ph[b],
           NEW sl2 \in [Agents -> BOOLEAN], \A b \in Agents : b # ag => sl2[b] = sl[b],
           NEW ac2, ac2 \in {ag, None},
           ac2 = ag => Working(h, g, u, ph2[ag], sl2[ag]),
           ac2 = None /\ u # <<>> => ph2[ag] = "pre" /\ sl2[ag]
    PROVE  Inv(h, g, it, st2, ph2, ac2, sl2)
<1>1. /\ HeapInv(h, g, AtOf(it, st), OwnerOf(it)) /\ EndsLive(h, g)
      /\ it \in [Iters -> IterType] /\ st \in [Agents -> Stack]
  BY DEF Inv, ItersOK
<1>2. AtOf(it, st2) = AtOf(it, st)
  BY <1>1, StackSame
<1>3. HeapInv(h, g, AtOf(it, st2), OwnerOf(it))
  BY <1>1, <1>2
<1>4. Trimmed(h, h)
  BY TrimmedSame
<1> QED BY <1>1, <1>3, <1>4, AgentStep

\* A call that calls itself keeps the invariant, and fills the stack only in the round of
\* questions or when there are more elements than the stack has room for.
LEMMA Recurses ==
    ASSUME NEW h, NEW g, NEW it, NEW st, NEW ph, NEW sl, NEW ag \in Agents,
           Inv(h, g, it, st, ph, ag, sl), NEW u, u = st[ag], u[Len(u)].at # None,
           NEW f, f = Call(Arc(u[Len(u)].at)), NEW st2, st2 = Put(st, ag, Deeper(u, f))
    PROVE  /\ Len(u) < MaxDepth => Inv(h, g, it, st2, ph, ag, sl)
           /\ ~(Len(u) < MaxDepth) => ph[ag] = "pre" \/ Cardinality(Elements) > MaxDepth
<1>1. /\ u \in Stack /\ Framed(h, u) /\ u # <<>> /\ Len(u) \in 1..MaxDepth /\ Len(u) \in Nat
      /\ u[Len(u)] \in Frame
      /\ Working(h, g, u, ph[ag], sl[ag])
      /\ HeapInv(h, g, AtOf(it, st), OwnerOf(it)) /\ EndsLive(h, g) /\ g \in HintType
      /\ it \in [Iters -> IterType] /\ st \in [Agents -> Stack]
      /\ ph \in [Agents -> {"pre", "erase"}] /\ sl \in [Agents -> BOOLEAN]
  BY Runs
<1>2. PICK y, w, v : y = Arc(u[Len(u)].at) /\ v = f /\ w = Deeper(u, v)
  OBVIOUS
<1>3. y \in Elements
  BY <1>1, <1>2, FrameFields, LinkShape DEF Arc
<1>4. v \in Frame /\ v.el = y /\ v.pc = "enter" /\ v.at = None
  BY <1>2, <1>3, FrameFields
<1>5. /\ w \in Stack /\ Len(w) = Len(u) + 1 /\ Len(u) \in Nat /\ w # <<>>
      /\ w[Len(u) + 1] = v
      /\ \A k \in 1..Len(u) : w[k] = u[k] /\ u[k] \in Frame
      /\ \A k \in Nat \ {0} : FrameAt(w, k) = FrameAt(u, k)
  <2>1. u \in Stack /\ v \in Frame /\ v.at = None /\ w = Deeper(u, v)
    BY <1>1, <1>2, <1>4
  <2> QED BY <2>1, Pushed
<1>6. PICK p, s : p = ph[ag] /\ s = sl[ag]
  OBVIOUS
<1>7. Working(h, g, w, p, s)
  <2>1. PICK at, own : at = AtOf(it, st) /\ own = OwnerOf(it)
    OBVIOUS
  <2>2. HeapInv(h, g, at, own) /\ u \in Stack /\ Framed(h, u) /\ Working(h, g, u, p, s)
    BY <1>1, <1>6, <2>1
  <2>3. v = Call(Arc(u[Len(u)].at)) /\ w = Deeper(u, v)
    BY <1>2
  <2> QED BY <2>2, <2>3, WorkingDeeper
<1>8. ASSUME Len(u) < MaxDepth
      PROVE  Inv(h, g, it, st2, ph, ag, sl)
  <2>1. Framed(h, w)
    BY <1>1, <1>2, <1>4, <1>8, PushFramed
  <2>2. \A k \in 1..MaxDepth : FrameAt(w, k) = FrameAt(st[ag], k)
    <3>1. \A k \in 1..MaxDepth : k \in Nat \ {0}
      BY Bounds
    <3> QED BY <1>5, <3>1
  <2>3. st2 = Put(st, ag, w)
    BY <1>2
  <2>4. Working(h, g, w, ph[ag], sl[ag])
    BY <1>6, <1>7
  <2> QED BY <1>1, <1>5, <2>1, <2>2, <2>3, <2>4, Disjoint, StackStep
<1>9. ASSUME ~(Len(u) < MaxDepth)
      PROVE  ph[ag] = "pre" \/ Cardinality(Elements) > MaxDepth
  <2>1. SUFFICES ASSUME p = "erase" PROVE Cardinality(Elements) > MaxDepth
    BY <1>1, <1>6
  <2>2. Distinct(w)
    BY <1>7, <2>1 DEF Working
  <2>3. Len(w) <= Cardinality(Elements)
    BY <1>5, <2>2, DistinctCalls
  <2>4. Cardinality(Elements) \in Nat
    BY Finite, FS_CardinalityType
  <2> QED BY <1>5, <1>9, <2>3, <2>4, Bounds
<1> QED BY <1>8, <1>9

\* An element whose arcs are gone dies: no arc loses a live end.
LEMMA EndsDie ==
    ASSUME NEW h, NEW g, NEW at, NEW own, HeapInv(h, g, at, own), EndsLive(h, g),
           NEW f \in Frame, FrameErases(h, g, f), f.pc = "input", f.at = None,
           NEW h2, h2 = die(h, f.el)
    PROVE  /\ HeapInv(h2, g, at, own) /\ EndsLive(h2, g) /\ h2.list = h.list
           /\ \A e \in Elements \ {f.el} : h2.state[e] = h.state[e]
<1>1. PICK x : x = f.el
  OBVIOUS
<1>2. x \in Elements
  BY <1>1, FrameFields
<1>3. x \in Arcs => \A s \in Sides : g[x][s] = NoHint
  BY <1>1 DEF FrameErases
<1>4. /\ HeapInv(h2, g, at, own) /\ h2.list = h.list
      /\ \A e \in Elements \ {x} : h2.state[e] = h.state[e]
  BY <1>1, <1>2, <1>3, ElementDied
<1>5. Live(h, <<x, "beg">>) = {} /\ Live(h, <<x, "end">>) = {}
  <2>1. ListOf(f) = <<x, "end">>
    BY <1>1 DEF ListOf
  <2> QED BY <1>1, <2>1 DEF FrameErases
<1>6. ASSUME NEW y \in Arcs, NEW s \in Sides, g[y][s] # NoHint
      PROVE  h2.state[g[y][s].el] = "live"
  <2>1. g[y][s].el \in Elements /\ h.state[g[y][s].el] = "live"
    BY <1>6, HintShape DEF HeapInv, EndsLive
  <2>2. g[y][s].at \in Live(h, <<g[y][s].el, s>>)
    BY <1>6 DEF HeapInv, Hinted, Live
  <2>3. g[y][s].el # x
    BY <1>5, <2>2 DEF Sides
  <2> QED BY <1>4, <2>1, <2>3
<1> QED BY <1>1, <1>4, <1>6 DEF EndsLive

\* A call that ends, and whose element dies in __erase_el, keeps the invariant, its caller's
\* iterator having moved on.
LEMMA Returns ==
    ASSUME NEW h, NEW g, NEW it, NEW st, NEW ph, NEW sl, NEW ag \in Agents,
           Inv(h, g, it, st, ph, ag, sl), NEW u, u = st[ag],
           u[Len(u)].pc = "input", u[Len(u)].at = None, Len(u) > 1,
           NEW h1, h1 = IF ph[ag] = "erase" THEN die(h, u[Len(u)].el) ELSE h,
           NEW f0, f0 = u[Len(u) - 1], NEW r, r = Forward(h1, ListOf(f0), f0.at),
           NEW f, f = [el |-> f0.el, pc |-> f0.pc, at |-> r.at],
           NEW st2, st2 = Put(st, ag, Popped(u, f))
    PROVE  Inv(r.heap, g, it, st2, ph, ag, sl) /\ Trimmed(h, r.heap)
<1>1. /\ u \in Stack /\ Framed(h, u) /\ u # <<>> /\ Len(u) \in 1..MaxDepth /\ Len(u) \in Nat
      /\ u[Len(u)] \in Frame
      /\ Working(h, g, u, ph[ag], sl[ag])
      /\ HeapInv(h, g, AtOf(it, st), OwnerOf(it)) /\ EndsLive(h, g) /\ g \in HintType
      /\ it \in [Iters -> IterType] /\ st \in [Agents -> Stack]
      /\ ph \in [Agents -> {"pre", "erase"}] /\ sl \in [Agents -> BOOLEAN]
      /\ \A k \in 1..MaxDepth : AtOf(it, st)[<<ag, k>>] = FrameAt(u, k) /\ <<ag, k>> \in Slots
      /\ AtOf(it, st) \in AtType
  BY Runs
<1>2. PICK n, j, t, l, L, v, w, hd, h2, p, s :
        /\ n = Len(u) /\ j = n - 1 /\ hd = h1 /\ t = u[n] /\ l = f0.at /\ L = ListOf(f0) /\ v = f /\ w = Popped(u, v)
        /\ h2 = r.heap /\ p = ph[ag] /\ s = sl[ag]
  OBVIOUS
<1>3. PICK at, own, c, at2 : /\ at = AtOf(it, st) /\ own = OwnerOf(it) /\ c = <<ag, j>>
                             /\ at2 = Put(at, c, r.at)
  OBVIOUS
<1>4. n \in Nat /\ n > 1 /\ n \in 1..MaxDepth /\ n - 1 \in 1..MaxDepth /\ n - 1 \in 1..n /\ n - 1 \in 1..(n - 1)
      /\ n \in 1..n
      /\ j \in 1..MaxDepth /\ j = n - 1
  BY <1>1, <1>2, Bounds
<1>5. t \in Frame /\ f0 \in Frame /\ t.pc = "input" /\ t.at = None
  BY <1>1, <1>2, <1>4 DEF Stack
<1>6. l # None /\ l \in Links /\ L \in ListIds /\ l \in ToSet(h.list[L]) /\ t.el = Arc(l)
      /\ f0.pc \in {"output", "input"}
  <2>1. l # None /\ t.el = Arc(l)
    BY <1>1, <1>2, <1>4 DEF Framed
  <2>2. f0.pc \in {"output", "input"} /\ l \in ToSet(h.list[L])
    BY <1>1, <1>2, <1>4, <2>1 DEF Framed
  <2> QED BY <1>2, <1>5, <2>1, <2>2, FrameFields
<1>7. HeapInv(h, g, at, own) /\ Working(h, g, u, p, s)
  BY <1>1, <1>2, <1>3
<1>8. p = "erase" => FrameErases(h, g, t) /\ FrameErases(h, g, f0) /\ Distinct(u)
  BY <1>2, <1>4, <1>7 DEF Working
<1>9. /\ HeapInv(hd, g, at, own) /\ EndsLive(hd, g) /\ hd.list = h.list
      /\ \A e \in Elements : hd.state[e] = h.state[e] \/ (p = "erase" /\ e = t.el)
  <2>1. CASE p = "erase"
    <3>1. hd = die(h, t.el)
      BY <1>2, <2>1
    <3>2. /\ HeapInv(hd, g, at, own) /\ EndsLive(hd, g) /\ hd.list = h.list
          /\ \A e \in Elements \ {t.el} : hd.state[e] = h.state[e]
      BY <1>1, <1>5, <1>7, <1>8, <2>1, <3>1, EndsDie
    <3> QED BY <2>1, <3>2
  <2>2. CASE p # "erase"
    <3>1. hd = h
      BY <1>2, <2>2
    <3> QED BY <1>1, <1>7, <3>1
  <2> QED BY <2>1, <2>2
<1>10. c \in Slots /\ at[c] = l /\ l \in ToSet(hd.list[L]) /\ r = Forward(hd, L, l)
  <2>1. c \in Slots /\ at[c] = FrameAt(u, j)
    BY <1>1, <1>3, <1>4
  <2>2. FrameAt(u, j) = u[j].at /\ u[j] = f0
    BY <1>2, <1>4 DEF FrameAt
  <2>3. l \in ToSet(hd.list[L]) /\ r = Forward(hd, L, l)
    BY <1>2, <1>6, <1>9
  <2> QED BY <1>2, <2>1, <2>2, <2>3
<1>11. /\ HeapInv(h2, g, at2, own) /\ Kept(hd, h2)
       /\ Behind(hd, L, l) = {} => r.at = None
       /\ Behind(hd, L, l) # {} =>
            /\ r.at \in Behind(hd, L, l)
            /\ \A m \in Behind(hd, L, l) \ {r.at} : Precedes(hd.list[L], r.at, m)
       /\ r.at \in Links \cup {None}
  <2>1. /\ HeapInv(hd, g, at, own) /\ c \in Slots /\ L \in ListIds /\ l \in ToSet(hd.list[L])
        /\ at[c] = l /\ r = Forward(hd, L, l) /\ at2 = Put(at, c, r.at)
    BY <1>3, <1>6, <1>9, <1>10
  <2>2. /\ HeapInv(r.heap, g, at2, own)
        /\ Kept(hd, r.heap)
        /\ Behind(hd, L, l) = {} => r.at = None
        /\ Behind(hd, L, l) # {} =>
             /\ r.at \in Behind(hd, L, l)
             /\ \A m \in Behind(hd, L, l) \ {r.at} : Precedes(hd.list[L], r.at, m)
        /\ r.at \in Links \cup {None}
    BY <2>1, MovedOn
  <2> QED BY <1>2, <2>2
<1>12. v \in Frame /\ v.el = f0.el /\ v.pc = f0.pc /\ v.at = r.at /\ ListOf(v) = L
  <2>1. v.el = f0.el /\ v.pc = f0.pc /\ v.at = r.at /\ v = [el |-> v.el, pc |-> v.pc, at |-> v.at]
    BY <1>2
  <2>2. v.el \in Elements /\ v.pc \in {"enter", "output", "input", "vetoed"} /\ v.at \in Links \cup {None}
    BY <1>5, <1>11, <2>1, FrameFields
  <2>3. v \in Frame
    BY <2>1, <2>2 DEF Frame
  <2> QED BY <1>2, <2>1, <2>3 DEF ListOf
<1>13. /\ w \in Stack /\ Len(w) = Len(u) - 1 /\ Len(u) \in Nat /\ w # <<>>
       /\ w[Len(u) - 1] = v
       /\ \A k \in 1..(Len(u) - 2) : w[k] = u[k] /\ u[k] \in Frame
       /\ u[Len(u)] \in Frame /\ u[Len(u) - 1] \in Frame
       /\ \A k \in Nat \ {0} : k # Len(u) /\ k # Len(u) - 1 => FrameAt(w, k) = FrameAt(u, k)
       /\ FrameAt(w, Len(u) - 1) = v.at /\ FrameAt(w, Len(u)) = None
  <2>1. u \in Stack /\ Len(u) > 1 /\ v \in Frame /\ w = Popped(u, v)
    BY <1>1, <1>2, <1>12
  <2> QED BY <2>1, CallerSet
<1>14. AtOf(it, st2) = at2
  <2>1. FrameAt(u, n) = None
    BY <1>2, <1>4, <1>5 DEF FrameAt
  <2>2. st2 = Put(st, ag, w) /\ \A i \in 1..MaxDepth : i # j => FrameAt(w, i) = FrameAt(st[ag], i)
    <3>1. \A i \in 1..MaxDepth : i \in Nat \ {0}
      BY Bounds
    <3>2. ASSUME NEW i \in 1..MaxDepth, i # j
          PROVE  FrameAt(w, i) = FrameAt(u, i)
      <4>1. CASE i = n
        BY <1>2, <1>13, <2>1, <4>1
      <4>2. CASE i # n
        BY <1>2, <1>13, <3>1, <3>2, <4>2
      <4> QED BY <4>1, <4>2
    <3> QED BY <1>2, <3>2
  <2>3. AtOf(it, st2) = Put(AtOf(it, st), <<ag, j>>, FrameAt(w, j))
    <3>1. it \in [Iters -> IterType] /\ st \in [Agents -> Stack] /\ w \in Stack /\ j \in 1..MaxDepth
      BY <1>1, <1>4, <1>13
    <3> QED BY <2>2, <3>1, StackPut
  <2>4. FrameAt(w, j) = r.at
    BY <1>2, <1>12, <1>13
  <2> QED BY <1>3, <2>3, <2>4
<1>15. Trimmed(hd, h2) /\ Trimmed(h, hd) /\ Trimmed(h, h2)
  <2>1. Trimmed(hd, h2)
    BY <1>11 DEF Kept
  <2>2. Trimmed(h, hd)
    BY <1>9, TrimmedSame
  <2> QED BY <2>1, <2>2, TrimmedTwice
<1>16. EndsLive(h2, g)
  BY <1>1, <1>9, <1>11, EndsStay, ShrinksSame
<1>17. /\ Live(hd, L) = Live(h, L) /\ Live(h2, L) = Live(h, L)
       /\ Live(h2, <<f0.el, "beg">>) = Live(h, <<f0.el, "beg">>)
  <2>1. <<f0.el, "beg">> \in ListIds
    BY <1>5, FrameFields, LinkShape DEF Sides
  <2> QED BY <1>6, <1>7, <1>9, <1>11, <2>1, LiveSame
<1>18. r.at # None => r.at \in Live(h2, L) /\ r.at \in ToSet(h.list[L])
  <2>1. r.at # None => r.at \in Live(hd, L)
    BY <1>11 DEF Behind
  <2> QED BY <1>17, <2>1 DEF Live
<1>19. Framed(h, w)
  <2>1. v.at # None => v.pc \in {"output", "input"} /\ v.at \in ToSet(h.list[ListOf(v)])
    BY <1>6, <1>12, <1>18
  <2>2. v.el = u[Len(u) - 1].el
    BY <1>12
  <2> QED BY <1>1, <1>2, <1>12, <2>1, <2>2, CallerFramed
<1>20. Framed(h2, w)
  <2>1. st2 \in [Agents -> Stack] /\ st2[ag] = w
    BY <1>1, <1>2, <1>13 DEF Put
  <2>2. \A k \in 1..MaxDepth : at2[<<ag, k>>] = FrameAt(w, k)
    BY <1>1, <1>14, <2>1, AtOfFields
  <2> QED BY <1>7, <1>11, <1>15, <1>19, <2>2, FramedStays
<1>21. p = "erase" => FrameErases(h2, g, v)
  <2> SUFFICES ASSUME p = "erase" PROVE FrameErases(h2, g, v)
    OBVIOUS
  <2>1. l \notin Live(h, L)
    <3>1. SUFFICES ASSUME ~h.link[l].dead PROVE FALSE
      BY DEF Live
    <3>2. t.el \in Arcs /\ \E r2 \in Sides : g[t.el][r2] # NoHint
      <4>1. l = f0.at /\ L = ListOf(f0) /\ t.el = Arc(l)
        BY <1>2, <1>6
      <4>2. HeapInv(h, g, at, own) /\ f0 \in Frame
        BY <1>5, <1>7
      <4>3. f0.at # None /\ f0.at \in ToSet(h.list[ListOf(f0)]) /\ ~h.link[f0.at].dead
        BY <1>6, <3>1, <4>1
      <4>4. Arc(f0.at) \in Arcs /\ \E r2 \in Sides : g[Arc(f0.at)][r2] # NoHint
        BY <4>2, <4>3, TopArc
      <4> QED BY <4>1, <4>4
    <3> QED BY <1>5, <1>8, <3>2 DEF FrameErases
  <2>2. Live(hd, L) = Behind(hd, L, l)
    <3>1. \A m \in Live(h, L) : Precedes(h.list[L], l, m)
      BY <1>2, <1>6, <1>8, <2>1 DEF FrameErases
    <3> QED BY <1>9, <1>17, <3>1 DEF Behind
  <2>3. Finds(hd, L, r.at)
    BY <1>11, <2>2 DEF Finds
  <2>4. \A m \in Live(h2, L) : r.at # None /\ (m = r.at \/ Precedes(h2.list[L], r.at, m))
    BY <1>6, <1>9, <1>11, <1>15, <2>3, Found
  <2> QED BY <1>6, <1>8, <1>12, <1>17, <2>4 DEF FrameErases
<1>22. v.at # None => ~h2.link[v.at].dead
  BY <1>12, <1>18 DEF Live
<1>23. Working(h2, g, w, p, s)
  <2>1. u \in Stack /\ Len(u) > 1 /\ v \in Frame /\ v.el = u[Len(u) - 1].el /\ w = Popped(u, v)
    BY <1>1, <1>2, <1>12
  <2>2. ASSUME NEW k \in 1..(Len(u) - 1), h.state[u[k].el] = "live"
        PROVE  h2.state[u[k].el] = "live" \/ (p = "erase" /\ u[k].el = u[Len(u)].el)
    <3>1. u[k] \in Frame
      BY <1>1 DEF Stack
    <3>2. u[k].el \in Elements
      BY <3>1, FrameFields
    <3> QED BY <1>2, <1>9, <1>11, <2>2, <3>2 DEF Kept
  <2> QED BY <1>7, <1>11, <1>15, <1>20, <1>21, <1>22, <2>1, <2>2, WorkingCaller
<1>24. Inv(h2, g, it, st2, ph, ag, sl)
  <2>1. HeapInv(h2, g, AtOf(it, st2), OwnerOf(it))
    BY <1>3, <1>11, <1>14
  <2>2. st2 = Put(st, ag, w) /\ w \in Stack /\ Working(h2, g, w, ph[ag], sl[ag])
    BY <1>2, <1>13, <1>23
  <2> QED BY <1>1, <1>15, <1>16, <1>19, <2>1, <2>2, Disjoint, AgentStep
<1> QED BY <1>2, <1>15, <1>24

\* The outermost erase_el_pre ends and __erase_el begins, or the erasure is over.
LEMMA Finishes ==
    ASSUME NEW h, NEW g, NEW it, NEW st, NEW ph, NEW sl, NEW ag \in Agents,
           Inv(h, g, it, st, ph, ag, sl), NEW u, u = st[ag],
           u[Len(u)].pc = "input", u[Len(u)].at = None, Len(u) = 1,
           NEW h1, h1 = IF ph[ag] = "erase" THEN die(h, u[Len(u)].el) ELSE h,
           NEW f, f = Call(u[Len(u)].el)
    PROVE  IF ph[ag] = "pre" THEN Inv(h1, g, it, Put(st, ag, <<f>>), Put(ph, ag, "erase"), ag, sl)
                             ELSE Inv(h1, g, it, Put(st, ag, <<>>), ph, None, sl)
<1>1. /\ u \in Stack /\ Framed(h, u) /\ u # <<>> /\ Len(u) \in 1..MaxDepth /\ Len(u) \in Nat
      /\ u[Len(u)] \in Frame
      /\ Working(h, g, u, ph[ag], sl[ag])
      /\ HeapInv(h, g, AtOf(it, st), OwnerOf(it)) /\ EndsLive(h, g) /\ g \in HintType
      /\ it \in [Iters -> IterType] /\ st \in [Agents -> Stack]
      /\ ph \in [Agents -> {"pre", "erase"}] /\ sl \in [Agents -> BOOLEAN]
      /\ \A k \in 1..MaxDepth : AtOf(it, st)[<<ag, k>>] = FrameAt(u, k) /\ <<ag, k>> \in Slots
      /\ AtOf(it, st) \in AtType
  BY Runs
<1>2. PICK t, v, hd : t = u[1] /\ v = f /\ hd = h1
  OBVIOUS
<1>3. t \in Frame /\ t.pc = "input" /\ t.at = None
  BY <1>1, <1>2
<1>4. t.el \in Elements /\ v \in Frame /\ v.el = t.el /\ v.pc = "enter" /\ v.at = None
  BY <1>2, <1>3, FrameFields
<1>5. \A k \in 1..MaxDepth : k \in Nat \ {0} /\ FrameAt(u, k) = None
  <2> SUFFICES ASSUME NEW k \in 1..MaxDepth PROVE k \in Nat \ {0} /\ FrameAt(u, k) = None
    OBVIOUS
  <2>1. k \in Nat \ {0}
    BY Bounds
  <2>2. CASE k = 1
    BY <1>2, <1>3, <2>1, <2>2 DEF FrameAt
  <2>3. CASE k # 1
    BY <2>1, <2>3 DEF FrameAt
  <2> QED BY <2>1, <2>2, <2>3
<1>6. CASE ph[ag] = "pre"
  <2>1. hd = h
    BY <1>2, <1>6
  <2>2. PICK w, ph2, st2, s : w = <<v>> /\ ph2 = Put(ph, ag, "erase") /\ st2 = Put(st, ag, w) /\ s = sl[ag]
    OBVIOUS
  <2>3. w \in Stack /\ Len(w) = 1 /\ w[1] = v /\ w # <<>> /\ Framed(h, w)
        /\ \A k \in Nat \ {0} : FrameAt(w, k) = None
    BY <1>4, <2>2, SingleFrame, SingleFramed
  <2>4. /\ ph2 \in [Agents -> {"pre", "erase"}] /\ ph2[ag] = "erase"
        /\ \A b \in Agents : b # ag => ph2[b] = ph[b]
    BY <1>1, <2>2 DEF Put
  <2>5. Working(h, g, w, ph2[ag], sl[ag])
    <3>1. Distinct(w) /\ TopLive(h, w) /\ \A k \in 1..Len(w) : FrameErases(h, g, w[k])
      BY <1>4, <2>3 DEF Distinct, TopLive, FrameErases
    <3>2. ~sl[ag] => AllLive(h, w)
      <4> SUFFICES ASSUME ~sl[ag] PROVE AllLive(h, w)
        OBVIOUS
      <4>1. AllLive(h, u)
        BY <1>1 DEF Working
      <4>2. 1 \in 1..Len(u)
        OBVIOUS
      <4>3. h.state[t.el] = "live"
        BY <1>2, <4>1, <4>2 DEF AllLive
      <4> QED BY <1>4, <2>3, <4>3 DEF AllLive
    <3> QED BY <2>3, <3>1, <3>2 DEF Working
  <2>6. \A k \in 1..MaxDepth : FrameAt(w, k) = FrameAt(st[ag], k)
    BY <1>5, <2>3
  <2>7. Inv(h, g, it, st2, ph2, ag, sl)
    BY <1>1, <2>2, <2>3, <2>4, <2>5, <2>6, Disjoint, StackStep
  <2> QED BY <1>2, <1>6, <2>1, <2>2, <2>7
<1>7. CASE ph[ag] # "pre"
  <2>1. ph[ag] = "erase" /\ hd = die(h, t.el)
    BY <1>1, <1>2, <1>7
  <2>2. FrameErases(h, g, t)
    <3>1. 1 \in 1..Len(u)
      OBVIOUS
    <3> QED BY <1>1, <1>2, <2>1, <3>1 DEF Working
  <2>3. PICK at, own : at = AtOf(it, st) /\ own = OwnerOf(it)
    OBVIOUS
  <2>4. HeapInv(h, g, at, own)
    BY <1>1, <2>3
  <2>5. HeapInv(hd, g, at, own) /\ EndsLive(hd, g) /\ hd.list = h.list
    BY <1>1, <1>3, <2>1, <2>2, <2>4, EndsDie
  <2>6. PICK w, st2 : w = <<>> /\ st2 = Put(st, ag, w)
    OBVIOUS
  <2>7. w \in Stack /\ Framed(h, w) /\ \A k \in Nat \ {0} : FrameAt(w, k) = None
    BY <1>3, <2>6, SingleFrame, SingleFramed
  <2>8. AtOf(it, st2) = AtOf(it, st)
    <3>1. \A k \in 1..MaxDepth : FrameAt(w, k) = FrameAt(st[ag], k)
      BY <1>5, <2>7
    <3> QED BY <1>1, <2>6, <2>7, <3>1, StackSame
  <2>9. HeapInv(hd, g, AtOf(it, st2), OwnerOf(it))
    BY <2>3, <2>5, <2>8
  <2>10. Trimmed(h, hd)
    BY <2>5, TrimmedSame
  <2>11. Inv(hd, g, it, st2, ph, None, sl)
    BY <1>1, <2>5, <2>6, <2>7, <2>9, <2>10, Disjoint, AgentStep
  <2> QED BY <1>2, <1>7, <2>6, <2>11
<1> QED BY <1>6, <1>7

\* A call that has been vetoed ends, with its caller's iterator.
LEMMA ReturnsTrue ==
    ASSUME NEW h, NEW g, NEW it, NEW st, NEW ph, NEW sl, NEW ag \in Agents,
           Inv(h, g, it, st, ph, ag, sl), NEW u, u = st[ag], u[Len(u)].pc = "vetoed",
           NEW f0, f0 = u[Len(u) - 1], NEW h2, h2 = End(h, f0.at),
           NEW f, f = [el |-> f0.el, pc |-> "vetoed", at |-> None],
           NEW st2, st2 = Put(st, ag, Popped(u, f))
    PROVE  /\ Len(u) = 1 => Inv(h, g, it, Put(st, ag, <<>>), ph, None, sl)
           /\ Len(u) > 1 => Inv(h2, g, it, st2, ph, ag, sl)
<1>1. /\ u \in Stack /\ Framed(h, u) /\ u # <<>> /\ Len(u) \in 1..MaxDepth /\ Len(u) \in Nat
      /\ u[Len(u)] \in Frame
      /\ Working(h, g, u, ph[ag], sl[ag])
      /\ HeapInv(h, g, AtOf(it, st), OwnerOf(it)) /\ EndsLive(h, g) /\ g \in HintType
      /\ it \in [Iters -> IterType] /\ st \in [Agents -> Stack]
      /\ ph \in [Agents -> {"pre", "erase"}] /\ sl \in [Agents -> BOOLEAN]
      /\ \A k \in 1..MaxDepth : AtOf(it, st)[<<ag, k>>] = FrameAt(u, k) /\ <<ag, k>> \in Slots
      /\ AtOf(it, st) \in AtType
  BY Runs
<1>2. PICK n, t, p, s : n = Len(u) /\ t = u[n] /\ p = ph[ag] /\ s = sl[ag]
  OBVIOUS
<1>3. t \in Frame /\ t.pc = "vetoed" /\ n \in 1..n /\ n \in Nat /\ n \in 1..MaxDepth
  BY <1>1, <1>2
<1>4. t.at = None
  BY <1>1, <1>2, <1>3 DEF Framed
<1>5. p # "erase" /\ Working(h, g, u, p, s)
  BY <1>1, <1>2, <1>3 DEF Working, FrameErases
<1>6. ASSUME Len(u) = 1
      PROVE  Inv(h, g, it, Put(st, ag, <<>>), ph, None, sl)
  <2>1. PICK w, st3 : w = <<>> /\ st3 = Put(st, ag, w)
    OBVIOUS
  <2>2. w \in Stack /\ Framed(h, w) /\ \A k \in Nat \ {0} : FrameAt(w, k) = None
    BY <1>3, <1>4, <2>1, SingleFrame, SingleFramed
  <2>3. ASSUME NEW k \in 1..MaxDepth
        PROVE  FrameAt(w, k) = FrameAt(st[ag], k)
    <3>1. k \in Nat \ {0}
      BY Bounds
    <3>2. FrameAt(u, k) = None
      <4>1. CASE k = 1
        BY <1>2, <1>4, <1>6, <4>1 DEF FrameAt
      <4>2. CASE k # 1
        BY <1>6, <3>1, <4>2 DEF FrameAt
      <4> QED BY <4>1, <4>2
    <3> QED BY <2>2, <3>1, <3>2
  <2>4. Inv(h, g, it, st3, ph, None, sl)
    BY <1>1, <2>1, <2>2, <2>3, Disjoint, StackStep
  <2> QED BY <2>1, <2>4
<1>7. ASSUME Len(u) > 1
      PROVE  Inv(h2, g, it, st2, ph, ag, sl)
  <2>1. PICK j, l, v, w, hd : j = n - 1 /\ l = f0.at /\ v = f /\ w = Popped(u, v) /\ hd = h2
    OBVIOUS
  <2>2. PICK at, own, c, at2 : /\ at = AtOf(it, st) /\ own = OwnerOf(it) /\ c = <<ag, j>>
                               /\ at2 = Put(at, c, None)
    OBVIOUS
  <2>3. j \in 1..MaxDepth /\ j \in 1..Len(u) /\ j # n
    BY <1>2, <1>3, <1>7, <2>1, Bounds
  <2>4. f0 \in Frame /\ f0 = u[j]
    BY <1>1, <1>2, <2>1, <2>3 DEF Stack
  <2>5. v \in Frame /\ v.el = f0.el /\ v.at = None /\ v.pc = "vetoed"
    BY <2>1, <2>4, FrameFields DEF Frame
  <2>6. /\ w \in Stack /\ Len(w) = Len(u) - 1 /\ Len(u) \in Nat /\ w # <<>>
        /\ w[Len(u) - 1] = v
        /\ \A k \in 1..(Len(u) - 2) : w[k] = u[k] /\ u[k] \in Frame
        /\ u[Len(u)] \in Frame /\ u[Len(u) - 1] \in Frame
        /\ \A k \in Nat \ {0} : k # Len(u) /\ k # Len(u) - 1 => FrameAt(w, k) = FrameAt(u, k)
        /\ FrameAt(w, Len(u) - 1) = v.at /\ FrameAt(w, Len(u)) = None
    <3>1. u \in Stack /\ Len(u) > 1 /\ v \in Frame /\ w = Popped(u, v)
      BY <1>1, <1>7, <2>1, <2>5
    <3> QED BY <3>1, CallerSet
  <2>7. c \in Slots /\ at[c] = l
    <3>1. c \in Slots /\ at[c] = FrameAt(u, j)
      BY <1>1, <2>2, <2>3
    <3> QED BY <2>1, <2>3, <2>4, <3>1 DEF FrameAt
  <2>8. HeapInv(h, g, at, own) /\ hd = End(h, l)
    BY <1>1, <2>1, <2>2
  <2>9. HeapInv(hd, g, at2, own) /\ Kept(h, hd) /\ Trimmed(h, hd)
    BY <2>2, <2>7, <2>8, Ended DEF Kept
  <2>10. AtOf(it, st2) = at2
    <3>1. FrameAt(u, n) = None
      BY <1>2, <1>3, <1>4 DEF FrameAt
    <3>2. st2 = Put(st, ag, w) /\ \A i \in 1..MaxDepth : i # j => FrameAt(w, i) = FrameAt(st[ag], i)
      <4>1. \A i \in 1..MaxDepth : i \in Nat \ {0}
        BY Bounds
      <4>2. ASSUME NEW i \in 1..MaxDepth, i # j
            PROVE  FrameAt(w, i) = FrameAt(u, i)
        <5>1. CASE i = n
          BY <1>2, <2>6, <3>1, <5>1
        <5>2. CASE i # n
          BY <1>2, <2>1, <2>6, <4>1, <4>2, <5>2
        <5> QED BY <5>1, <5>2
      <4> QED BY <2>1, <4>2
    <3>3. it \in [Iters -> IterType] /\ st \in [Agents -> Stack] /\ w \in Stack /\ j \in 1..MaxDepth
      BY <1>1, <2>3, <2>6
    <3>4. AtOf(it, st2) = Put(AtOf(it, st), <<ag, j>>, FrameAt(w, j))
      BY <3>2, <3>3, StackPut
    <3>5. FrameAt(w, j) = None
      BY <1>2, <2>1, <2>5, <2>6
    <3> QED BY <2>2, <3>4, <3>5
  <2>11. EndsLive(hd, g)
    BY <1>1, <2>9, EndsStay, ShrinksSame
  <2>12. Framed(h, w)
    <3>1. v.el = u[Len(u) - 1].el /\ v.at = None
      BY <2>5
    <3> QED BY <1>1, <1>7, <2>1, <2>5, <3>1, CallerFramed
  <2>13. Framed(hd, w)
    <3>1. st2 \in [Agents -> Stack] /\ st2[ag] = w
      BY <1>1, <2>1, <2>6 DEF Put
    <3>2. \A k \in 1..MaxDepth : at2[<<ag, k>>] = FrameAt(w, k)
      BY <1>1, <2>10, <3>1, AtOfFields
    <3> QED BY <2>8, <2>9, <2>12, <3>2, FramedStays
  <2>14. Working(hd, g, w, p, s)
    <3>1. u \in Stack /\ Len(u) > 1 /\ v \in Frame /\ v.el = u[Len(u) - 1].el /\ w = Popped(u, v)
      BY <1>1, <1>7, <2>1, <2>5
    <3>2. ASSUME NEW k \in 1..(Len(u) - 1), h.state[u[k].el] = "live"
          PROVE  hd.state[u[k].el] = "live" \/ (p = "erase" /\ u[k].el = u[Len(u)].el)
      <4>1. u[k] \in Frame
        BY <1>1 DEF Stack
      <4>2. u[k].el \in Elements
        BY <4>1, FrameFields
      <4> QED BY <2>9, <3>2, <4>2 DEF Kept
    <3> QED BY <1>5, <2>5, <2>8, <2>9, <2>13, <3>1, <3>2, WorkingCaller
  <2>15. Inv(hd, g, it, st2, ph, ag, sl)
    <3>1. HeapInv(hd, g, AtOf(it, st2), OwnerOf(it))
      BY <2>2, <2>9, <2>10
    <3>2. st2 = Put(st, ag, w) /\ w \in Stack /\ Working(hd, g, w, ph[ag], sl[ag])
      BY <1>2, <2>1, <2>6, <2>14
    <3> QED BY <1>1, <2>9, <2>11, <2>12, <3>1, <3>2, Disjoint, AgentStep
  <2> QED BY <2>1, <2>9, <2>15
<1> QED BY <1>6, <1>7

-----------------------------------------------------------------------------
(***************************************************************************)
(* The operations of users, on values                                      *)
(***************************************************************************)

\* What the invariant says while no agent runs.
LEMMA Idles ==
    ASSUME NEW h, NEW g, NEW it, NEW st, NEW ph, NEW sl, Inv(h, g, it, st, ph, None, sl)
    PROVE  /\ HeapInv(h, g, AtOf(it, st), OwnerOf(it)) /\ EndsLive(h, g) /\ g \in HintType
           /\ ItersOK(h, it) /\ it \in [Iters -> IterType] /\ st \in [Agents -> Stack]
           /\ ph \in [Agents -> {"pre", "erase"}] /\ sl \in [Agents -> BOOLEAN]
           /\ \A a \in Agents : Framed(h, st[a])
           /\ \A i \in Iters : <<i, 0>> \in Slots /\ AtOf(it, st)[<<i, 0>>] = it[i].at
           /\ \A a \in Agents : st[a] # <<>> => ph[a] = "pre" /\ sl[a]
<1>1. /\ HeapInv(h, g, AtOf(it, st), OwnerOf(it)) /\ EndsLive(h, g)
      /\ ItersOK(h, it) /\ st \in [Agents -> Stack]
      /\ ph \in [Agents -> {"pre", "erase"}] /\ sl \in [Agents -> BOOLEAN]
      /\ \A a \in Agents : Framed(h, st[a])
      /\ \A a \in Agents : a # None /\ st[a] # <<>> => ph[a] = "pre" /\ sl[a]
  BY DEF Inv
<1>2. it \in [Iters -> IterType] /\ g \in HintType
  BY <1>1 DEF ItersOK, HeapInv
<1>3. \A i \in Iters : <<i, 0>> \in Slots /\ AtOf(it, st)[<<i, 0>>] = it[i].at
  BY <1>1, <1>2, AtOfFields, SlotShape
<1>4. \A a \in Agents : a # None
  BY Disjoint
<1> QED BY <1>1, <1>2, <1>3, <1>4

\* A link that is free stays free when an arc leaves its end.
LEMMA FreeStays ==
    ASSUME NEW h, NEW h2, NEW g, NEW g2, NEW at, NEW at2, NEW own, NEW own2,
           HeapInv(h, g, at, own), HeapInv(h2, g2, at2, own2), Trimmed(h, h2),
           NEW l \in Links, h.link[l] = FreeLink
    PROVE  h2.link[l] = FreeLink
<1>1. h.link[l].refcnt = 0
  BY DEF FreeLink
<1>2. \A L \in ListIds : l \notin ToSet(h.list[L])
  BY <1>1 DEF HeapInv, ListsOK
<1>3. \A L \in ListIds : l \notin ToSet(h2.list[L])
  BY <1>2 DEF Trimmed
<1> QED BY <1>3 DEF HeapInv, ListsOK

\* set_side: the arc x leaves its list, to the heap h1, and then enters list L, to h3.
SidePut(h, g, x, s, L, h1, r, h3, g3, m) ==
    /\ h1 = detach(h, g[x][s]) /\ r = attach(h1, x, L)
    /\ h3 = r.heap /\ g3 = PutHint(g, x, s, r.hint) /\ m = r.hint.at

\* It hangs at the link m then.
Attaches(h, g, it, h1, h3, g3, x, s, L, m) ==
    /\ Trimmed(h, h1) /\ ItersOK(h1, it)
    /\ \E at, own : HeapInv(h1, PutHint(g, x, s, NoHint), at, own)
    /\ m \in Links /\ \A M \in ListIds : m \notin ToSet(h1.list[M])
    /\ h3.list[L] = Append(h1.list[L], m) /\ \A M \in ListIds \ {L} : h3.list[M] = h1.list[M]
    /\ g3[x][s].el = L[1] /\ g3[x][s].at = m
    /\ \A y \in Arcs, t \in Sides : y # x \/ t # s => g3[y][t] = g[y][t]

\* set_beg or set_end: the arc leaves its old end and enters the new one.
LEMMA SetsSide ==
    ASSUME NEW h, NEW g, NEW it, NEW st, NEW ph, NEW sl, Inv(h, g, it, st, ph, None, sl),
           NEW x \in Arcs, NEW s \in Sides, NEW e \in Elements, h.state[x] = "live", h.state[e] = "live",
           NEW k \in 1..Copies, h.link[<<x, s, k>>] = FreeLink,
           NEW K, K = <<e, s>>, NEW h1, NEW r, NEW h3, NEW g3, NEW m, SidePut(h, g, x, s, K, h1, r, h3, g3, m)
    PROVE  Inv(h3, g3, it, st, ph, None, sl) /\ Attaches(h, g, it, h1, h3, g3, x, s, K, m)
<1>0. /\ h1 = detach(h, g[x][s]) /\ r = attach(h1, x, K)
      /\ h3 = r.heap /\ g3 = PutHint(g, x, s, r.hint) /\ m = r.hint.at
  BY DEF SidePut
<1>1. /\ HeapInv(h, g, AtOf(it, st), OwnerOf(it)) /\ EndsLive(h, g) /\ g \in HintType
      /\ ItersOK(h, it) /\ it \in [Iters -> IterType] /\ st \in [Agents -> Stack]
      /\ ph \in [Agents -> {"pre", "erase"}] /\ sl \in [Agents -> BOOLEAN]
      /\ \A a \in Agents : Framed(h, st[a])
      /\ \A a \in Agents : st[a] # <<>> => ph[a] = "pre" /\ sl[a]
  BY Idles
<1>2. PICK at, own, hd, g1, gg, L, rr, h2 :
        /\ at = AtOf(it, st) /\ own = OwnerOf(it) /\ hd = h1 /\ g1 = PutHint(g, x, s, NoHint)
        /\ L = K /\ rr = r /\ h2 = rr.heap /\ gg = g3
  OBVIOUS
<1>3. HeapInv(h, g, at, own) /\ hd = detach(h, g[x][s]) /\ rr = attach(hd, x, L)
  BY <1>0, <1>1, <1>2
<1>4. HeapInv(hd, g1, at, own) /\ Trimmed(h, hd) /\ hd.state = h.state
  BY <1>2, <1>3, Detached
<1>5. L \in ListIds /\ L[1] = e /\ L[2] = s
  BY <1>2, LinkShape
<1>6. /\ g1 \in HintType /\ g1[x][s] = NoHint
      /\ \A y \in Arcs, t \in Sides : y # x \/ t # s => g1[y][t] = g[y][t]
  BY <1>1, <1>2, HintPut DEF Hint
<1>7. hd.link[<<x, s, k>>] = FreeLink
  <2>1. <<x, s, k>> \in Links
    BY LinkShape
  <2> QED BY <1>3, <1>4, <2>1, FreeStays
<1>8. gg = PutHint(g1, x, L[2], rr.hint)
  BY <1>0, <1>1, <1>2, <1>5 DEF PutHint, HintType
<1>9. /\ HeapInv(rr.heap, gg, at, own)
      /\ rr.hint.el = L[1] /\ rr.hint # NoHint
      /\ rr.hint.at \in Links /\ rr.hint.at[1] = x
      /\ \A M \in ListIds : rr.hint.at \notin ToSet(hd.list[M])
      /\ rr.heap.list[L] = Append(hd.list[L], rr.hint.at)
      /\ \A M \in ListIds \ {L} : rr.heap.list[M] = hd.list[M]
      /\ \A l \in Links \ {rr.hint.at} : rr.heap.link[l] = hd.link[l]
      /\ rr.heap.state = hd.state
  <2>1. g1[x][L[2]] = NoHint /\ hd.state[x] = "live" /\ HasFree(hd, x, L[2])
    BY <1>4, <1>5, <1>6, <1>7 DEF HasFree
  <2>2. HeapInv(hd, g1, at, own) /\ L \in ListIds /\ rr = attach(hd, x, L) /\ gg = PutHint(g1, x, L[2], rr.hint)
    BY <1>3, <1>4, <1>5, <1>8
  <2> QED BY <2>1, <2>2, Attached
<1>10. Kept(h, hd) /\ Shrinks(g, g1)
  <2>1. Shrinks(g, g1)
    <3> SUFFICES ASSUME NEW y \in Arcs, NEW t \in Sides, g1[y][t] # NoHint PROVE g1[y][t] = g[y][t]
      BY DEF Shrinks
    <3> QED BY <1>6
  <2> QED BY <1>4, <2>1 DEF Kept
<1>11. EndsLive(hd, g1)
  BY <1>1, <1>10, EndsStay
<1>12. Inv(hd, g1, it, st, ph, None, sl)
  <2>1. HeapInv(hd, g1, AtOf(it, st), OwnerOf(it))
    BY <1>2, <1>4
  <2> QED BY <1>1, <1>4, <1>11, <2>1, UserStep
<1>13. Grown(hd, h2)
  <2> SUFFICES ASSUME NEW M \in ListIds PROVE ToSet(hd.list[M]) \subseteq ToSet(h2.list[M])
    BY DEF Grown
  <2>1. CASE M # L
    <3>1. h2.list[M] = hd.list[M]
      BY <1>2, <1>9, <2>1
    <3> QED BY <3>1
  <2>2. CASE M = L
    <3>1. PICK q, q2, l : q = hd.list[L] /\ q2 = h2.list[L] /\ l = rr.hint.at
      OBVIOUS
    <3>2. q \in Seq(Links) /\ IsInjective(q)
      BY <1>4, <1>5, <3>1, HeapFields DEF HeapInv, ListsOK
    <3>3. l \in Links /\ l \notin ToSet(q) /\ q2 = Append(q, l)
      BY <1>2, <1>5, <1>9, <3>1
    <3>4. ToSet(q2) = ToSet(q) \cup {l}
      <4>1. IsAppended(Links, q, l, q2)
        BY <3>2, <3>3 DEF IsAppended
      <4> QED BY <3>2, <4>1, Appended
    <3> QED BY <2>2, <3>1, <3>4
  <2> QED BY <2>1, <2>2
<1>13a. rr.hint \in Hint
  <2>1. gg \in HintType
    BY <1>9 DEF HeapInv
  <2>2. gg[x][s] = rr.hint
    BY <1>5, <1>6, <1>8 DEF PutHint, HintType
  <2> QED BY <2>1, <2>2 DEF HintType
<1>13b. gg[x][s] = rr.hint /\ \A z \in Arcs, q \in Sides : z # x \/ q # s => gg[z][q] = g[z][q]
  <2>1. g1 \in HintType /\ L[2] \in Sides /\ gg = PutHint(g1, x, L[2], rr.hint)
    BY <1>5, <1>6, <1>8
  <2>2. gg[x][L[2]] = rr.hint /\ \A z \in Arcs, q \in Sides : z # x \/ q # L[2] => gg[z][q] = g1[z][q]
    BY <1>13a, <2>1, HintPut
  <2> QED BY <1>5, <1>6, <2>2
<1>14. EndsLive(h2, gg)
  <2> SUFFICES ASSUME NEW y \in Arcs, NEW t \in Sides, gg[y][t] # NoHint
               PROVE  h2.state[gg[y][t].el] = "live"
    BY DEF EndsLive
  <2>3. h2.state = h.state
    BY <1>2, <1>4, <1>9
  <2>4. CASE y = x /\ t = s
    BY <1>5, <1>9, <1>13b, <2>3, <2>4
  <2>5. CASE y # x \/ t # s
    <3>1. gg[y][t] = g[y][t]
      BY <1>13b, <2>5
    <3> QED BY <1>1, <2>3, <3>1 DEF EndsLive
  <2> QED BY <2>4, <2>5
<1>15. Inv(h2, gg, it, st, ph, None, sl)
  <2>1. HeapInv(h2, gg, AtOf(it, st), OwnerOf(it))
    BY <1>2, <1>9
  <2>2. ItersOK(h2, it) /\ \A a \in Agents : Framed(h2, st[a])
    BY <1>12, <1>13, GrownStays DEF Inv
  <2> QED BY <1>1, <1>14, <2>1, <2>2 DEF Inv
<1>16. h3 = h2 /\ g3 = gg /\ h1 = hd /\ m = rr.hint.at
  BY <1>0, <1>2
<1>17. Attaches(h, g, it, h1, h3, g3, x, s, L, m)
  <2>1. HeapInv(h1, PutHint(g, x, s, NoHint), at, own) /\ Trimmed(h, h1)
    BY <1>2, <1>4
  <2>2. ItersOK(h1, it)
    BY <1>12, <1>16 DEF Inv
  <2>3. /\ m \in Links /\ \A M \in ListIds : m \notin ToSet(h1.list[M])
        /\ h3.list[L] = Append(h1.list[L], m) /\ \A M \in ListIds \ {L} : h3.list[M] = h1.list[M]
    BY <1>2, <1>9, <1>16
  <2>4. /\ g3[x][s].el = L[1] /\ g3[x][s].at = m
        /\ \A y \in Arcs, t \in Sides : y # x \/ t # s => g3[y][t] = g[y][t]
    BY <1>9, <1>13b, <1>16
  <2> QED BY <2>1, <2>2, <2>3, <2>4 DEF Attaches
<1> QED BY <1>2, <1>15, <1>16, <1>17

\* A user opens an iterator over the arcs of an element.
LEMMA Creates ==
    ASSUME NEW h, NEW g, NEW it, NEW st, NEW ph, NEW sl, Inv(h, g, it, st, ph, None, sl),
           NEW i \in Iters, it[i] = Closed, NEW e \in Elements, NEW s \in Sides, h.state[e] # "freed",
           NEW L, L = <<e, s>>, NEW r, r = Begin(Ref(h, e), L),
           NEW v, v = [list |-> L, at |-> r.at], NEW it2, it2 = Put(it, i, v)
    PROVE  /\ Inv(r.heap, g, it2, st, ph, None, sl)
           /\ Trimmed(h, r.heap) /\ Finds(h, L, r.at)
<1>1. /\ HeapInv(h, g, AtOf(it, st), OwnerOf(it)) /\ EndsLive(h, g) /\ g \in HintType
      /\ ItersOK(h, it) /\ it \in [Iters -> IterType] /\ st \in [Agents -> Stack]
      /\ \A j \in Iters : <<j, 0>> \in Slots /\ AtOf(it, st)[<<j, 0>>] = it[j].at
  BY Idles
<1>2. PICK at, own, own2, h1, h2, c, at2, vv, jt :
        /\ at = AtOf(it, st) /\ own = OwnerOf(it) /\ own2 = Put(own, i, e)
        /\ h1 = Ref(h, e) /\ h2 = r.heap /\ c = <<i, 0>> /\ at2 = Put(at, c, r.at) /\ vv = v /\ jt = it2
  OBVIOUS
<1>3. HeapInv(h, g, at, own) /\ own[i] = None /\ c \in Slots /\ at[c] = None /\ L \in ListIds /\ L[1] = e
  <2>1. own[i] = None
    BY <1>2 DEF OwnerOf, Owner
  <2>2. at[c] = None
    BY <1>1, <1>2, FrameFields
  <2> QED BY <1>1, <1>2, <2>1, <2>2, LinkShape
<1>4. HeapInv(h1, g, at, own2) /\ h1.list = h.list /\ h1.state = h.state
  BY <1>2, <1>3, Referred
<1>5. /\ HeapInv(r.heap, g, at2, own2)
      /\ Kept(h1, r.heap)
      /\ Live(h1, L) = {} => r.at = None
      /\ Live(h1, L) # {} =>
           /\ r.at \in Live(h1, L)
           /\ \A n \in Live(h1, L) \ {r.at} : Precedes(h1.list[L], r.at, n)
      /\ r.at \in Links \cup {None}
  <2>1. r = Begin(h1, L)
    BY <1>2
  <2> QED BY <1>2, <1>3, <1>4, <2>1, Begun
<1>6. vv \in IterType /\ vv # Closed /\ vv.list = L /\ vv.at = r.at
  <2>1. vv.list = L /\ vv.at = r.at
    BY <1>2
  <2>2. vv \in IterType
    BY <1>2, <1>3, <1>5 DEF IterType
  <2>3. L # None
    BY <1>3, Disjoint
  <2> QED BY <2>1, <2>2, <2>3 DEF Closed
<1>7. /\ jt \in [Iters -> IterType] /\ jt[i] = vv /\ \A j \in Iters : j # i => jt[j] = it[j]
      /\ AtOf(jt, st) = Put(AtOf(it, st), <<i, 0>>, vv.at)
      /\ OwnerOf(jt) = Put(OwnerOf(it), i, Owner(vv))
  <2>1. jt = Put(it, i, vv)
    BY <1>2
  <2>2. it \in [Iters -> IterType] /\ st \in [Agents -> Stack] /\ vv \in IterType
    BY <1>1, <1>6
  <2> QED BY <2>1, <2>2, IterPut
<1>8. HeapInv(h2, g, AtOf(jt, st), OwnerOf(jt))
  BY <1>2, <1>3, <1>5, <1>6, <1>7 DEF Owner
<1>9. Kept(h, h2) /\ Trimmed(h, h2)
  <2>1. Kept(h, h1)
    BY <1>4, KeptSame
  <2> QED BY <1>2, <1>5, <2>1, KeptTwice DEF Kept
<1>10. EndsLive(h2, g)
  BY <1>1, <1>9, EndsStay, ShrinksSame
<1>11. ItersOK(h, jt)
  <2>1. ASSUME NEW j \in Iters, jt[j].at # None
        PROVE  jt[j].at \in ToSet(h.list[jt[j].list])
    <3>1. CASE j = i
      <4>1. r.at \in Live(h1, L)
        BY <1>5, <1>6, <1>7, <2>1, <3>1
      <4> QED BY <1>4, <1>6, <1>7, <3>1, <4>1 DEF Live
    <3>2. CASE j # i
      BY <1>1, <1>7, <2>1, <3>2 DEF ItersOK
    <3> QED BY <3>1, <3>2
  <2> QED BY <1>7, <2>1 DEF ItersOK
<1>12. Inv(h2, g, jt, st, ph, None, sl)
  BY <1>8, <1>9, <1>10, <1>11, UserStep
<1>13. Finds(h, L, r.at)
  <2>1. Live(h1, L) = Live(h, L)
    BY <1>3, <1>4, LiveSame
  <2> QED BY <1>4, <1>5, <2>1 DEF Finds
<1> QED BY <1>2, <1>9, <1>12, <1>13

\* A user's iterator moves on.
LEMMA Nexts ==
    ASSUME NEW h, NEW g, NEW it, NEW st, NEW ph, NEW sl, Inv(h, g, it, st, ph, None, sl),
           NEW i \in Iters, it[i].at # None,
           NEW r, r = Forward(h, it[i].list, it[i].at),
           NEW v, v = [list |-> it[i].list, at |-> r.at], NEW it2, it2 = Put(it, i, v)
    PROVE  /\ Inv(r.heap, g, it2, st, ph, None, sl)
           /\ Trimmed(h, r.heap)
           /\ Behind(h, it[i].list, it[i].at) = {} => r.at = None
           /\ Behind(h, it[i].list, it[i].at) # {} =>
                /\ r.at \in Behind(h, it[i].list, it[i].at)
                /\ \A n \in Behind(h, it[i].list, it[i].at) \ {r.at} : Precedes(h.list[it[i].list], r.at, n)
<1>1. /\ HeapInv(h, g, AtOf(it, st), OwnerOf(it)) /\ EndsLive(h, g) /\ g \in HintType
      /\ ItersOK(h, it) /\ it \in [Iters -> IterType] /\ st \in [Agents -> Stack]
      /\ \A j \in Iters : <<j, 0>> \in Slots /\ AtOf(it, st)[<<j, 0>>] = it[j].at
  BY Idles
<1>2. PICK at, own, h2, c, at2, vv, L, l, jt :
        /\ at = AtOf(it, st) /\ own = OwnerOf(it) /\ L = it[i].list /\ l = it[i].at
        /\ h2 = r.heap /\ c = <<i, 0>> /\ at2 = Put(at, c, r.at) /\ vv = v /\ jt = it2
  OBVIOUS
<1>3. HeapInv(h, g, at, own) /\ c \in Slots /\ at[c] = l /\ L \in ListIds /\ l \in ToSet(h.list[L])
      /\ it[i] # Closed
  <2>1. it[i] # Closed /\ L \in ListIds
    BY <1>1, <1>2, FrameFields
  <2>2. l \in ToSet(h.list[L])
    BY <1>1, <1>2 DEF ItersOK
  <2> QED BY <1>1, <1>2, <2>1, <2>2
<1>4. /\ HeapInv(r.heap, g, at2, own)
      /\ Kept(h, r.heap)
      /\ Behind(h, L, l) = {} => r.at = None
      /\ Behind(h, L, l) # {} =>
           /\ r.at \in Behind(h, L, l)
           /\ \A n \in Behind(h, L, l) \ {r.at} : Precedes(h.list[L], r.at, n)
      /\ r.at \in Links \cup {None}
  <2>1. r = Forward(h, L, l)
    BY <1>2
  <2> QED BY <1>2, <1>3, <2>1, MovedOn
<1>5. vv \in IterType /\ vv # Closed /\ vv.list = L /\ vv.at = r.at
  <2>1. vv.list = L /\ vv.at = r.at
    BY <1>2
  <2>2. vv \in IterType
    BY <1>2, <1>3, <1>4 DEF IterType
  <2>4. L # None
    BY <1>3, Disjoint
  <2> QED BY <2>1, <2>2, <2>4 DEF Closed
<1>6. /\ jt \in [Iters -> IterType] /\ jt[i] = vv /\ \A j \in Iters : j # i => jt[j] = it[j]
      /\ AtOf(jt, st) = Put(AtOf(it, st), <<i, 0>>, vv.at)
      /\ OwnerOf(jt) = Put(OwnerOf(it), i, Owner(vv))
  <2>1. jt = Put(it, i, vv)
    BY <1>2
  <2>2. it \in [Iters -> IterType] /\ st \in [Agents -> Stack] /\ vv \in IterType
    BY <1>1, <1>5
  <2> QED BY <2>1, <2>2, IterPut
<1>7. OwnerOf(jt) = own
  <2>1. Owner(vv) = Owner(it[i])
    BY <1>2, <1>3, <1>5 DEF Owner
  <2>2. \A j \in Iters : Owner(jt[j]) = Owner(it[j])
    BY <1>6, <2>1
  <2> QED BY <1>2, <2>2 DEF OwnerOf
<1>8. HeapInv(h2, g, AtOf(jt, st), OwnerOf(jt))
  BY <1>2, <1>4, <1>5, <1>6, <1>7
<1>9. Trimmed(h, h2) /\ EndsLive(h2, g)
  <2>1. EndsLive(h2, g)
    BY <1>1, <1>2, <1>4, EndsStay, ShrinksSame
  <2> QED BY <1>2, <1>4, <2>1 DEF Kept
<1>10. ItersOK(h, jt)
  <2>1. ASSUME NEW j \in Iters, jt[j].at # None
        PROVE  jt[j].at \in ToSet(h.list[jt[j].list])
    <3>1. CASE j = i
      <4>1. r.at \in Behind(h, L, l)
        BY <1>4, <1>5, <1>6, <2>1, <3>1
      <4> QED BY <1>5, <1>6, <3>1, <4>1 DEF Behind, Live
    <3>2. CASE j # i
      BY <1>1, <1>6, <2>1, <3>2 DEF ItersOK
    <3> QED BY <3>1, <3>2
  <2> QED BY <1>6, <2>1 DEF ItersOK
<1>11. Inv(h2, g, jt, st, ph, None, sl)
  BY <1>8, <1>9, <1>10, UserStep
<1> QED BY <1>2, <1>4, <1>9, <1>11

\* A user deletes an iterator.
LEMMA Deletes ==
    ASSUME NEW h, NEW g, NEW it, NEW st, NEW ph, NEW sl, Inv(h, g, it, st, ph, None, sl),
           NEW i \in Iters, it[i] # Closed,
           NEW h2, h2 = Unref(End(h, it[i].at), it[i].list[1]), NEW it2, it2 = Put(it, i, Closed)
    PROVE  Inv(h2, g, it2, st, ph, None, sl) /\ Trimmed(h, h2)
<1>1. /\ HeapInv(h, g, AtOf(it, st), OwnerOf(it)) /\ EndsLive(h, g) /\ g \in HintType
      /\ ItersOK(h, it) /\ it \in [Iters -> IterType] /\ st \in [Agents -> Stack]
      /\ \A j \in Iters : <<j, 0>> \in Slots /\ AtOf(it, st)[<<j, 0>>] = it[j].at
  BY Idles
<1>2. PICK at, own, own2, h1, hd, c, at2, l, e :
        /\ at = AtOf(it, st) /\ own = OwnerOf(it) /\ l = it[i].at /\ e = it[i].list[1]
        /\ own2 = Put(own, i, None) /\ h1 = End(h, l) /\ hd = h2 /\ c = <<i, 0>> /\ at2 = Put(at, c, None)
  OBVIOUS
<1>3. HeapInv(h, g, at, own) /\ c \in Slots /\ at[c] = l /\ e \in Elements /\ own[i] = e
  <2>1. e \in Elements
    BY <1>1, <1>2, FrameFields, LinkShape
  <2>2. own[i] = e
    BY <1>2 DEF OwnerOf, Owner
  <2> QED BY <1>1, <1>2, <2>1, <2>2
<1>4. HeapInv(h1, g, at2, own) /\ Kept(h, h1)
  BY <1>2, <1>3, Ended
<1>5. /\ HeapInv(hd, g, at2, own2) /\ hd.list = h1.list
      /\ \A f \in Elements : hd.state[f] = "live" <=> h1.state[f] = "live"
  <2>1. hd = Unref(h1, e)
    BY <1>2
  <2> QED BY <1>2, <1>3, <1>4, <2>1, Unreferred
<1>6. Kept(h, hd) /\ Trimmed(h, hd)
  <2>1. Kept(h1, hd)
    BY <1>5, TrimmedSame DEF Kept
  <2> QED BY <1>4, <2>1, KeptTwice DEF Kept
<1>7. PICK vv, jt : vv = Closed /\ jt = it2
  OBVIOUS
<1>8. /\ jt \in [Iters -> IterType] /\ jt[i] = vv /\ \A j \in Iters : j # i => jt[j] = it[j]
      /\ AtOf(jt, st) = Put(AtOf(it, st), <<i, 0>>, vv.at)
      /\ OwnerOf(jt) = Put(OwnerOf(it), i, Owner(vv))
  <2>1. jt = Put(it, i, vv) /\ vv \in IterType
    BY <1>7, FrameFields
  <2>2. it \in [Iters -> IterType] /\ st \in [Agents -> Stack]
    BY <1>1
  <2> QED BY <2>1, <2>2, IterPut
<1>9. HeapInv(hd, g, AtOf(jt, st), OwnerOf(jt))
  <2>1. vv.at = None
    BY <1>7, FrameFields
  <2> QED BY <1>2, <1>5, <1>7, <1>8, <2>1 DEF Owner
<1>10. EndsLive(hd, g)
  BY <1>1, <1>6, EndsStay, ShrinksSame
<1>11. ItersOK(h, jt)
  <2>1. ASSUME NEW j \in Iters, jt[j].at # None
        PROVE  jt[j].at \in ToSet(h.list[jt[j].list])
    <3>1. j # i
      BY <1>7, <1>8, <2>1, FrameFields
    <3> QED BY <1>1, <1>8, <2>1, <3>1 DEF ItersOK
  <2> QED BY <1>8, <2>1 DEF ItersOK
<1>12. Inv(hd, g, jt, st, ph, None, sl)
  BY <1>6, <1>9, <1>10, <1>11, UserStep
<1> QED BY <1>2, <1>6, <1>7, <1>12

-----------------------------------------------------------------------------
(***************************************************************************)
(* The actions keep the invariant                                          *)
(***************************************************************************)

\* The state as the lemmas see it.
Now(h, g, it, st, ph, ac, sl) ==
    /\ h = Heap /\ g = hint /\ it = iter /\ st = stack /\ ph = phase /\ ac = active /\ sl = slept
    /\ h.list = list /\ h.link = link /\ h.state = state /\ h.refs = refs

\* The invariant, of values.
LEMMA Opened ==
    ASSUME IInv
    PROVE  \E h, g, it, st, ph, ac, sl : Now(h, g, it, st, ph, ac, sl) /\ Inv(h, g, it, st, ph, ac, sl)
<1>1. PICK h, g, it, st, ph, ac, sl :
        h = Heap /\ g = hint /\ it = iter /\ st = stack /\ ph = phase /\ ac = active /\ sl = slept
  OBVIOUS
<1>2. Inv(h, g, it, st, ph, ac, sl)
  BY <1>1 DEF IInv
<1>3. h.list = list /\ h.link = link /\ h.state = state /\ h.refs = refs
  BY <1>1 DEF Heap
<1> QED BY <1>1, <1>2, <1>3 DEF Now

\* The invariant after a step, of the values that the step leaves.
LEMMA Closes ==
    ASSUME NEW h, NEW g, NEW it, NEW st, NEW ph, NEW ac, NEW sl, Inv(h, g, it, st, ph, ac, sl),
           SetHeap(h), hint' = g, iter' = it, stack' = st, phase' = ph, active' = ac, slept' = sl,
           crash' \in {"no", "freed", "depth"},
           crash' = "freed" => sl[ac],
           crash' = "depth" => ph[ac] = "pre" \/ Cardinality(Elements) > MaxDepth
    PROVE  IInv'
<1>1. h \in HeapType
  BY DEF Inv, HeapInv
<1>2. Heap' = h
  BY <1>1 DEF Heap, SetHeap, HeapType
<1>3. Inv(Heap, hint, iter, stack, phase, active, slept)'
  BY <1>2
<1>4. crash' = "freed" => slept'[active']
  OBVIOUS
<1>5. crash' = "depth" => phase'[active'] = "pre" \/ Cardinality(Elements) > MaxDepth
  OBVIOUS
<1> QED BY <1>3, <1>4, <1>5 DEF IInv

\* The heap after a step.
LEMMA HeapNext ==
    ASSUME NEW h \in HeapType, SetHeap(h)
    PROVE  Heap' = h
BY DEF Heap, SetHeap, HeapType

\* The step lost links, at most.
LEMMA Trims ==
    ASSUME NEW h, NEW g, NEW it, NEW st, NEW ph, NEW ac, NEW sl, Now(h, g, it, st, ph, ac, sl),
           NEW h2, NEW g2, NEW it2, NEW st2, NEW ph2, NEW ac2, NEW sl2, Inv(h2, g2, it2, st2, ph2, ac2, sl2),
           SetHeap(h2), Trimmed(h, h2)
    PROVE  Trimmed(Heap, Heap')
<1>1. Heap' = h2
  BY HeapNext DEF Inv, HeapInv
<1>2. Heap = h
  BY DEF Now
<1> QED BY <1>1, <1>2

\* Action set_side.
LEMMA SetsSideStep ==
    ASSUME IInv, NEW x \in Arcs, NEW s \in Sides, NEW e \in Elements, set_side(x, s, e)
    PROVE  /\ IInv' /\ iter' = iter
           /\ \E h1, l : Attaches(Heap, hint, iter, h1, Heap', hint', x, s, <<e, s>>, l)
<1>1. PICK h, g, it, st, ph, ac, sl : Now(h, g, it, st, ph, ac, sl) /\ Inv(h, g, it, st, ph, ac, sl)
  BY Opened
<1>2. PICK L, h1, r, h3, g3, m, k :
        /\ L = <<e, s>> /\ SidePut(h, g, x, s, L, h1, r, h3, g3, m)
        /\ k \in 1..Copies /\ h.link[<<x, s, k>>] = FreeLink
  <2>1. PICK L, h1, r, h3, g3, m :
          /\ L = <<e, s>> /\ h1 = detach(h, g[x][s]) /\ r = attach(h1, x, L)
          /\ h3 = r.heap /\ g3 = PutHint(g, x, s, r.hint) /\ m = r.hint.at
    OBVIOUS
  <2>2. SidePut(h, g, x, s, L, h1, r, h3, g3, m)
    BY <2>1 DEF SidePut
  <2>3. PICK k : k \in 1..Copies /\ h.link[<<x, s, k>>] = FreeLink
    BY <1>1 DEF set_side, Now
  <2> QED BY <2>1, <2>2, <2>3
<1>3. h.state[x] = "live" /\ h.state[e] = "live" /\ ac = None /\ crash = "no"
  BY <1>1 DEF set_side, Idle, Now
<1>4. Inv(h3, g3, it, st, ph, None, sl) /\ Attaches(h, g, it, h1, h3, g3, x, s, L, m)
  <2>1. Inv(h, g, it, st, ph, None, sl)
    BY <1>1, <1>3
  <2> QED BY <1>2, <1>3, <2>1, SetsSide
<1>5. SetHeap(h3) /\ hint' = g3
  <2>1. /\ h1 = detach(h, g[x][s]) /\ r = attach(h1, x, <<e, s>>)
        /\ h3 = r.heap /\ g3 = PutHint(g, x, s, r.hint)
    BY <1>2 DEF SidePut
  <2> QED BY <1>1, <2>1 DEF set_side, Now, PutHint
<1>6. iter' = it /\ stack' = st /\ phase' = ph /\ active' = None /\ slept' = sl /\ crash' = "no"
  BY <1>1, <1>3 DEF set_side, Now, KeepErasures
<1>7. IInv'
  BY <1>4, <1>5, <1>6, Closes
<1>8. h = Heap /\ g = hint /\ it = iter /\ g3 = hint' /\ h3 = Heap'
  <2>1. Heap' = h3
    BY <1>4, <1>5, HeapNext DEF Inv, HeapInv
  <2> QED BY <1>1, <1>5, <2>1 DEF Now
<1>9. Attaches(Heap, hint, iter, h1, Heap', hint', x, s, <<e, s>>, m)
  BY <1>2, <1>4, <1>8
<1> QED BY <1>6, <1>7, <1>8, <1>9

\* The iterator i moves to the first link of B, or is over if there is none.
MovesTo(h, it, it2, i, L, B, q) ==
    /\ it2 = Put(it, i, [list |-> L, at |-> q])
    /\ B = {} => q = None
    /\ B # {} => q \in B /\ \A n \in B \ {q} : Precedes(h.list[L], q, n)

\* Action create_iterator.
LEMMA CreatesStep ==
    ASSUME IInv, NEW i \in Iters, NEW e \in Elements, NEW s \in Sides, create_iterator(i, e, s)
    PROVE  /\ IInv' /\ Trimmed(Heap, Heap') /\ hint' = hint
           /\ \E B, q : B = Live(Heap, <<e, s>>) /\ MovesTo(Heap, iter, iter', i, <<e, s>>, B, q)
<1>1. PICK h, g, it, st, ph, ac, sl : Now(h, g, it, st, ph, ac, sl) /\ Inv(h, g, it, st, ph, ac, sl)
  BY Opened
<1>2. PICK L, r, v, it2 :
        L = <<e, s>> /\ r = Begin(Ref(h, e), L) /\ v = [list |-> L, at |-> r.at] /\ it2 = Put(it, i, v)
  OBVIOUS
<1>3. it[i] = Closed /\ h.state[e] # "freed" /\ ac = None /\ crash = "no"
  BY <1>1 DEF create_iterator, Idle, Now
<1>4. Inv(r.heap, g, it2, st, ph, None, sl) /\ Trimmed(h, r.heap) /\ Finds(h, L, r.at)
  BY <1>1, <1>2, <1>3, Creates
<1>5. SetHeap(r.heap) /\ iter' = it2
  BY <1>1, <1>2 DEF create_iterator, Now, Put
<1>6. hint' = g /\ stack' = st /\ phase' = ph /\ active' = None /\ slept' = sl /\ crash' = "no"
  BY <1>1, <1>3 DEF create_iterator, Now, KeepErasures
<1>7. IInv'
  BY <1>4, <1>5, <1>6, Closes
<1>8. Trimmed(Heap, Heap')
  BY <1>1, <1>4, <1>5, Trims
<1>9. PICK B, q : B = Live(h, L) /\ q = r.at
  OBVIOUS
<1>10. MovesTo(h, it, it2, i, L, B, q)
  BY <1>2, <1>4, <1>9 DEF MovesTo, Finds
<1>11. h = Heap /\ it = iter /\ it2 = iter' /\ L = <<e, s>>
  BY <1>1, <1>2, <1>5 DEF Now
<1>12. B = Live(Heap, <<e, s>>) /\ MovesTo(Heap, iter, iter', i, <<e, s>>, B, q)
  BY <1>9, <1>10, <1>11
<1>13. hint' = hint
  BY <1>1, <1>6 DEF Now
<1> QED BY <1>7, <1>8, <1>12, <1>13

\* Action next.
LEMMA NextsStep ==
    ASSUME IInv, NEW i \in Iters, next(i)
    PROVE  /\ IInv' /\ Trimmed(Heap, Heap') /\ hint' = hint
           /\ \E B, q : /\ B = Behind(Heap, iter[i].list, iter[i].at)
                        /\ MovesTo(Heap, iter, iter', i, iter[i].list, B, q)
<1>1. PICK h, g, it, st, ph, ac, sl : Now(h, g, it, st, ph, ac, sl) /\ Inv(h, g, it, st, ph, ac, sl)
  BY Opened
<1>2. PICK r, v, it2 :
        /\ r = Forward(h, it[i].list, it[i].at)
        /\ v = [list |-> it[i].list, at |-> r.at] /\ it2 = Put(it, i, v)
  OBVIOUS
<1>3. it[i].at # None /\ ac = None /\ crash = "no" /\ it \in [Iters -> IterType]
  BY <1>1 DEF next, Idle, Now, Inv, ItersOK
<1>4. /\ Inv(r.heap, g, it2, st, ph, None, sl)
      /\ Trimmed(h, r.heap)
      /\ Behind(h, it[i].list, it[i].at) = {} => r.at = None
      /\ Behind(h, it[i].list, it[i].at) # {} =>
           /\ r.at \in Behind(h, it[i].list, it[i].at)
           /\ \A n \in Behind(h, it[i].list, it[i].at) \ {r.at} : Precedes(h.list[it[i].list], r.at, n)
  BY <1>1, <1>2, <1>3, Nexts
<1>5. SetHeap(r.heap) /\ iter' = it2
  <2>1. SetHeap(r.heap) /\ iter' = [it EXCEPT ![i].at = r.at]
    BY <1>1, <1>2 DEF next, Now
  <2>2. it[i] \in [list : ListIds, at : Links \cup {None}]
    BY <1>3 DEF IterType, Closed
  <2>3. [it[i] EXCEPT !.at = r.at] = v
    BY <1>2, <2>2
  <2> QED BY <1>2, <2>1, <2>3 DEF Put
<1>6. hint' = g /\ stack' = st /\ phase' = ph /\ active' = None /\ slept' = sl /\ crash' = "no"
  BY <1>1, <1>3 DEF next, Now, KeepErasures
<1>7. IInv'
  BY <1>4, <1>5, <1>6, Closes
<1>8. Trimmed(Heap, Heap')
  BY <1>1, <1>4, <1>5, Trims
<1>9. PICK L, B, q : L = it[i].list /\ B = Behind(h, L, it[i].at) /\ q = r.at
  OBVIOUS
<1>10. MovesTo(h, it, it2, i, L, B, q)
  BY <1>2, <1>4, <1>9 DEF MovesTo
<1>11. h = Heap /\ it = iter /\ it2 = iter'
  BY <1>1, <1>5 DEF Now
<1>12. B = Behind(Heap, iter[i].list, iter[i].at) /\ MovesTo(Heap, iter, iter', i, iter[i].list, B, q)
  BY <1>9, <1>10, <1>11
<1>13. hint' = hint
  BY <1>1, <1>6 DEF Now
<1> QED BY <1>7, <1>8, <1>12, <1>13

\* Action delete_iterator.
LEMMA DeletesStep ==
    ASSUME IInv, NEW i \in Iters, delete_iterator(i)
    PROVE  IInv' /\ Trimmed(Heap, Heap')
<1>1. PICK h, g, it, st, ph, ac, sl : Now(h, g, it, st, ph, ac, sl) /\ Inv(h, g, it, st, ph, ac, sl)
  BY Opened
<1>2. PICK h2, it2 : h2 = Unref(End(h, it[i].at), it[i].list[1]) /\ it2 = Put(it, i, Closed)
  OBVIOUS
<1>3. it[i] # Closed /\ ac = None /\ crash = "no"
  BY <1>1 DEF delete_iterator, Idle, Now
<1>4. Inv(h2, g, it2, st, ph, None, sl) /\ Trimmed(h, h2)
  BY <1>1, <1>2, <1>3, Deletes
<1>5. SetHeap(h2) /\ iter' = it2
  BY <1>1, <1>2 DEF delete_iterator, Now, Put
<1>6. hint' = g /\ stack' = st /\ phase' = ph /\ active' = None /\ slept' = sl /\ crash' = "no"
  BY <1>1, <1>3 DEF delete_iterator, Now, KeepErasures
<1>7. IInv'
  BY <1>4, <1>5, <1>6, Closes
<1>8. Trimmed(Heap, Heap')
  BY <1>1, <1>4, <1>5, Trims
<1> QED BY <1>7, <1>8

\* Action erase_el: one call, and nothing asked yet.
LEMMA Erases ==
    ASSUME IInv, NEW ag \in Agents, NEW e \in Elements, erase_el(ag, e)
    PROVE  IInv'
<1>1. PICK h, g, it, st, ph, ac, sl : Now(h, g, it, st, ph, ac, sl) /\ Inv(h, g, it, st, ph, ac, sl)
  BY Opened
<1>2. PICK f, u, st2, ph2, sl2 :
        /\ f = Call(e) /\ u = <<f>> /\ st2 = Put(st, ag, u)
        /\ ph2 = Put(ph, ag, "pre") /\ sl2 = Put(sl, ag, FALSE)
  OBVIOUS
<1>3. st[ag] = <<>> /\ h.state[e] = "live" /\ ac = None /\ crash = "no"
  BY <1>1 DEF erase_el, Idle, Now
<1>4. f \in Frame /\ f.el = e /\ f.at = None
  BY <1>2, FrameFields
<1>5. u \in Stack /\ Framed(h, u) /\ \A k \in 1..MaxDepth : FrameAt(u, k) = FrameAt(st[ag], k)
  <2>1. 1..MaxDepth \subseteq Nat \ {0}
    BY Bounds
  <2> QED BY <1>2, <1>3, <1>4, <2>1, SingleFrame, SingleFramed
<1>6. /\ ph2 \in [Agents -> {"pre", "erase"}] /\ ph2[ag] = "pre"
      /\ \A b \in Agents : b # ag => ph2[b] = ph[b]
      /\ sl2 \in [Agents -> BOOLEAN] /\ ~sl2[ag]
      /\ \A b \in Agents : b # ag => sl2[b] = sl[b]
  <2>1. ph \in [Agents -> {"pre", "erase"}] /\ sl \in [Agents -> BOOLEAN]
    BY <1>1 DEF Inv
  <2> QED BY <1>2, <2>1 DEF Put
<1>7. Working(h, g, u, ph2[ag], sl2[ag])
  <2>1. u # <<>> /\ Len(u) = 1 /\ u[1] = f
    BY <1>2, <1>4, SingleFrame
  <2>2. \A k \in 1..Len(u) : u[k] = f
    BY <2>1
  <2> QED BY <1>3, <1>4, <1>6, <2>1, <2>2 DEF Working, AllLive, TopLive
<1>8. ag # None
  BY Disjoint
<1>9. Inv(h, g, it, st2, ph2, ag, sl2)
  <2>1. ac \in {ag, None} /\ st2 = Put(st, ag, u) /\ Inv(h, g, it, st, ph, ac, sl) /\ ag \in {ag, None}
    BY <1>1, <1>2, <1>3
  <2>2. ag # None /\ (ag = ag => Working(h, g, u, ph2[ag], sl2[ag]))
    BY <1>7, <1>8
  <2>3. /\ ph2 \in [Agents -> {"pre", "erase"}] /\ \A b \in Agents : b # ag => ph2[b] = ph[b]
        /\ sl2 \in [Agents -> BOOLEAN] /\ \A b \in Agents : b # ag => sl2[b] = sl[b]
    BY <1>6
  <2> QED BY <1>5, <2>1, <2>2, <2>3, StackStep
<1>10. stack' = st2 /\ phase' = ph2 /\ slept' = sl2 /\ active' = ag
  BY <1>1, <1>2 DEF erase_el, Now, Put
<1>11. SetHeap(h) /\ hint' = g /\ iter' = it /\ crash' = "no"
  BY <1>1, <1>3 DEF erase_el, Now, SetHeap, heap
<1> QED BY <1>9, <1>10, <1>11, Closes

\* Action resume: an agent that was suspended need not find its elements alive.
LEMMA Resumes ==
    ASSUME IInv, NEW ag \in Agents, resume(ag)
    PROVE  IInv'
<1>1. PICK h, g, it, st, ph, ac, sl : Now(h, g, it, st, ph, ac, sl) /\ Inv(h, g, it, st, ph, ac, sl)
  BY Opened
<1>2. st[ag] # <<>> /\ ac = None /\ crash = "no" /\ ag # None
  BY <1>1, Disjoint DEF resume, Idle, Now
<1>3. Inv(h, g, it, st, ph, ag, sl)
  <2>1. ph[ag] = "pre" /\ sl[ag]
    BY <1>1, <1>2 DEF Inv
  <2>2. Working(h, g, st[ag], ph[ag], sl[ag])
    BY <1>2, <2>1 DEF Working
  <2>3. \A a \in Agents : a # ag /\ st[a] # <<>> => ph[a] = "pre" /\ sl[a]
    BY <1>1, <1>2, Disjoint DEF Inv
  <2> QED BY <1>1, <2>2, <2>3 DEF Inv
<1>4. SetHeap(h) /\ hint' = g /\ iter' = it /\ crash' = "no" /\ stack' = st /\ phase' = ph /\ slept' = sl /\ active' = ag
  BY <1>1, <1>2 DEF resume, Now, SetHeap, heap
<1> QED BY <1>3, <1>4, Closes

\* Action pre_suspend: what the agent knew of its elements is lost.
LEMMA Suspends ==
    ASSUME IInv, NEW ag \in Agents, pre_suspend(ag)
    PROVE  IInv'
<1>1. PICK h, g, it, st, ph, ac, sl : Now(h, g, it, st, ph, ac, sl) /\ Inv(h, g, it, st, ph, ac, sl)
  BY Opened
<1>2. PICK sl2 : sl2 = Put(sl, ag, TRUE)
  OBVIOUS
<1>3. ac = ag /\ ph[ag] = "pre" /\ crash = "no" /\ ag # None
  BY <1>1, Disjoint DEF pre_suspend, Running, Now
<1>4. sl2 \in [Agents -> BOOLEAN] /\ sl2[ag] /\ \A b \in Agents : b # ag => sl2[b] = sl[b]
  BY <1>1, <1>2 DEF Inv, Put
<1>5. Inv(h, g, it, st, ph, None, sl2)
  <2>1. \A a \in Agents : a # None /\ st[a] # <<>> => ph[a] = "pre" /\ sl2[a]
    BY <1>1, <1>3, <1>4 DEF Inv
  <2> QED BY <1>1, <1>4, <2>1 DEF Inv
<1>6. SetHeap(h) /\ hint' = g /\ iter' = it /\ crash' = "no" /\ stack' = st /\ phase' = ph
  BY <1>1, <1>3 DEF pre_suspend, Now, SetHeap, heap
<1>7. slept' = sl2 /\ active' = None
  BY <1>1, <1>2 DEF pre_suspend, Now, Put
<1> QED BY <1>5, <1>6, <1>7, Closes

\* An agent that runs.
LEMMA RunsNow ==
    ASSUME NEW h, NEW g, NEW it, NEW st, NEW ph, NEW ac, NEW sl, Now(h, g, it, st, ph, ac, sl),
           NEW ag \in Agents, NEW pc, Running(ag, pc), NEW u, u = st[ag]
    PROVE  /\ ac = ag /\ crash = "no" /\ u[Len(u)].pc = pc /\ h.state[u[Len(u)].el] # "freed"
           /\ Top(ag) = u[Len(u)]
           /\ Len(u) \in Nat => Caller(ag) = Front(u)[Len(Front(u))]
BY DEF Now, Running, Top, Caller, Last

\* The caller is the last call but one.
LEMMA CallerNow ==
    ASSUME NEW u \in Stack, Len(u) > 1
    PROVE  Front(u)[Len(Front(u))] = u[Len(u) - 1] /\ u[Len(u) - 1] \in Frame
<1>1. u \in Seq(Frame) /\ Len(u) \in Nat
  BY LenProperties DEF Stack
<1>2. Len(u) - 1 \in 1..(Len(u) - 1) /\ Len(u) - 1 \in 1..Len(u)
  BY <1>1
<1>3. Len(Front(u)) = Len(u) - 1 /\ Front(u)[Len(u) - 1] = u[Len(u) - 1]
  BY <1>1, <1>2 DEF Front
<1>4. u[Len(u) - 1] \in Frame
  BY <1>1, <1>2, ElementOfSeq
<1> QED BY <1>3, <1>4

\* Action pre_veto.
LEMMA Vetoes ==
    ASSUME IInv, NEW ag \in Agents, pre_veto(ag)
    PROVE  IInv'
<1>1. PICK h, g, it, st, ph, ac, sl : Now(h, g, it, st, ph, ac, sl) /\ Inv(h, g, it, st, ph, ac, sl)
  BY Opened
<1>2. PICK u, t, f, w, st2 :
        /\ u = st[ag] /\ t = u[Len(u)] /\ f = [t EXCEPT !.pc = "vetoed"]
        /\ w = Topped(u, f) /\ st2 = Put(st, ag, w)
  OBVIOUS
<1>3. ac = ag /\ crash = "no" /\ t.pc = "enter" /\ Top(ag) = t
  BY <1>1, <1>2, RunsNow DEF pre_veto
<1>4. ph[ag] = "pre"
  BY <1>1 DEF pre_veto, Now
<1>5. /\ u \in Stack /\ Framed(h, u) /\ u # <<>> /\ Len(u) \in 1..MaxDepth /\ Len(u) \in Nat
      /\ t \in Frame /\ Working(h, g, u, ph[ag], sl[ag])
      /\ ph \in [Agents -> {"pre", "erase"}] /\ sl \in [Agents -> BOOLEAN]
      /\ HeapInv(h, g, AtOf(it, st), OwnerOf(it)) /\ ag # None
  <2>1. Inv(h, g, it, st, ph, ag, sl)
    BY <1>1, <1>3
  <2> QED BY <1>2, <2>1, Runs
<1>6. t.at = None
  <2>1. Len(u) \in 1..Len(u)
    BY <1>5
  <2> QED BY <1>2, <1>3, <1>5, <2>1 DEF Framed
<1>7. f \in Frame /\ f.el = t.el /\ f.at = None /\ f.pc = "vetoed"
  BY <1>2, <1>5, <1>6 DEF Frame
<1>8. Framed(h, w)
  BY <1>2, <1>5, <1>7, TopFramed
<1>9. w \in Stack /\ \A k \in 1..MaxDepth : FrameAt(w, k) = FrameAt(u, k)
  <2>1. 1..MaxDepth \subseteq Nat \ {0}
    BY Bounds
  <2>2. /\ w \in Stack
        /\ \A k \in Nat \ {0} : k # Len(u) => FrameAt(w, k) = FrameAt(u, k)
        /\ FrameAt(w, Len(u)) = f.at /\ FrameAt(u, Len(u)) = u[Len(u)].at
    <3>1. u \in Stack /\ u # <<>> /\ f \in Frame
      BY <1>5, <1>7
    <3>2. w = Topped(u, f)
      BY <1>2
    <3> QED BY <3>1, <3>2, TopSet
  <2>3. FrameAt(w, Len(u)) = FrameAt(u, Len(u))
    BY <1>2, <1>6, <1>7, <2>2
  <2> QED BY <2>1, <2>2, <2>3
<1>10. Working(h, g, w, ph[ag], sl[ag])
  <2>1. PICK p, s : p = ph[ag] /\ s = sl[ag]
    OBVIOUS
  <2>2. Working(h, g, u, p, s) /\ p # "erase"
    BY <1>4, <1>5, <2>1
  <2>3. Kept(h, h) /\ Shrinks(g, g)
    BY KeptSame, ShrinksSame
  <2>4. f.el = u[Len(u)].el
    BY <1>2, <1>7
  <2>5. w = Topped(u, f)
    BY <1>2
  <2>6. Working(h, g, w, p, s)
    BY <1>5, <1>7, <1>8, <2>2, <2>3, <2>4, <2>5, WorkingTop
  <2> QED BY <2>1, <2>6
<1>11. Inv(h, g, it, st2, ph, ag, sl)
  <2>1. ac \in {ag, None} /\ st2 = Put(st, ag, w) /\ Inv(h, g, it, st, ph, ac, sl) /\ ag \in {ag, None}
    BY <1>1, <1>2, <1>3
  <2>2. ag # None /\ (ag = ag => Working(h, g, w, ph[ag], sl[ag]))
    BY <1>5, <1>10
  <2>3. /\ ph \in [Agents -> {"pre", "erase"}] /\ sl \in [Agents -> BOOLEAN]
        /\ \A k \in 1..MaxDepth : FrameAt(w, k) = FrameAt(st[ag], k)
    BY <1>2, <1>5, <1>9
  <2> QED BY <1>8, <1>9, <2>1, <2>2, <2>3, StackStep
<1>12. stack' = st2
  <2>1. stack' = [st EXCEPT ![ag][Len(st[ag])] = f]
    BY <1>1, <1>2, <1>3 DEF pre_veto, SetTop, Now
  <2> QED BY <1>2, <2>1 DEF Put, Topped
<1>13. SetHeap(h) /\ hint' = g /\ iter' = it /\ crash' = "no" /\ phase' = ph /\ active' = ag /\ slept' = sl
  BY <1>1, <1>3 DEF pre_veto, Now, SetHeap, heap
<1> QED BY <1>11, <1>12, <1>13, Closes

\* The iterator of the caller f0 is deleted.
EndsCaller(h, st, ag, u, f0, h2) == u = st[ag] /\ f0 = u[Len(u) - 1] /\ h2 = End(h, f0.at)

\* A return deletes at most links: the others keep their order.
LEMMA CallerEnded ==
    ASSUME NEW h, NEW g, NEW it, NEW st, NEW ph, NEW sl, NEW ag \in Agents,
           Inv(h, g, it, st, ph, ag, sl), NEW u, NEW f0, NEW h2, EndsCaller(h, st, ag, u, f0, h2)
    PROVE  Len(u) > 1 => Trimmed(h, h2)
<1>1. u = st[ag] /\ f0 = u[Len(u) - 1] /\ h2 = End(h, f0.at)
  BY DEF EndsCaller
<1>2. /\ Len(u) \in 1..MaxDepth /\ Len(u) \in Nat /\ HeapInv(h, g, AtOf(it, st), OwnerOf(it))
      /\ \A k \in 1..MaxDepth : AtOf(it, st)[<<ag, k>>] = FrameAt(u, k) /\ <<ag, k>> \in Slots
  BY <1>1, Runs
<1>3. ASSUME Len(u) > 1 PROVE Trimmed(h, h2)
  <2>1. PICK j, at, own, c, at2, l, hd :
          /\ j = Len(u) - 1 /\ at = AtOf(it, st) /\ own = OwnerOf(it) /\ c = <<ag, j>>
          /\ at2 = Put(at, c, None) /\ l = f0.at /\ hd = h2
    OBVIOUS
  <2>2. j \in 1..MaxDepth /\ j <= Len(u)
    BY <1>2, <1>3, <2>1, Bounds
  <2>3. c \in Slots /\ at[c] = l
    <3>1. c \in Slots /\ at[c] = FrameAt(u, j)
      BY <1>2, <2>1, <2>2
    <3>2. FrameAt(u, j) = u[j].at
      BY <2>2 DEF FrameAt
    <3> QED BY <1>1, <2>1, <3>1, <3>2
  <2>4. HeapInv(h, g, at, own) /\ hd = End(h, l)
    BY <1>1, <1>2, <2>1
  <2>5. Kept(h, hd)
    BY <2>1, <2>3, <2>4, Ended
  <2> QED BY <2>1, <2>5 DEF Kept
<1> QED BY <1>3

\* Action return_true.
LEMMA ReturnsTrueStep ==
    ASSUME IInv, NEW ag \in Agents, return_true(ag)
    PROVE  IInv' /\ Trimmed(Heap, Heap')
<1>1. PICK h, g, it, st, ph, ac, sl : Now(h, g, it, st, ph, ac, sl) /\ Inv(h, g, it, st, ph, ac, sl)
  BY Opened
<1>2. PICK u : u = st[ag]
  OBVIOUS
<1>3. ac = ag /\ crash = "no" /\ u[Len(u)].pc = "vetoed"
      /\ (Len(u) \in Nat => Caller(ag) = Front(u)[Len(Front(u))])
  BY <1>1, <1>2, RunsNow DEF return_true
<1>4. PICK f0, h2, f, st2, st3 :
        /\ f0 = u[Len(u) - 1] /\ h2 = End(h, f0.at) /\ f = [el |-> f0.el, pc |-> "vetoed", at |-> None]
        /\ st2 = Put(st, ag, Popped(u, f)) /\ st3 = Put(st, ag, <<>>)
  OBVIOUS
<1>5. Inv(h, g, it, st, ph, ag, sl)
  BY <1>1, <1>3
<1>6. (Len(u) = 1 => Inv(h, g, it, st3, ph, None, sl)) /\ (Len(u) > 1 => Inv(h2, g, it, st2, ph, ag, sl) /\ Trimmed(h, h2))
  <2>1. u = st[ag] /\ u[Len(u)].pc = "vetoed" /\ Inv(h, g, it, st, ph, ag, sl)
    BY <1>2, <1>3, <1>5
  <2>2. /\ f0 = u[Len(u) - 1] /\ h2 = End(h, f0.at) /\ f = [el |-> f0.el, pc |-> "vetoed", at |-> None]
        /\ st2 = Put(st, ag, Popped(u, f))
    BY <1>4
  <2>3. (Len(u) = 1 => Inv(h, g, it, st3, ph, None, sl)) /\ (Len(u) > 1 => Inv(h2, g, it, st2, ph, ag, sl))
    BY <1>2, <1>3, <1>4, <1>5, ReturnsTrue
  <2>4. Len(u) > 1 => Trimmed(h, h2)
    <3>1. EndsCaller(h, st, ag, u, f0, h2)
      BY <1>2, <1>4 DEF EndsCaller
    <3> QED BY <1>5, <3>1, CallerEnded
  <2> QED BY <2>3, <2>4
<1>7. u \in Stack /\ Len(u) \in Nat /\ Len(u) \in 1..MaxDepth
  BY <1>2, <1>5, Runs
<1>8. hint' = g /\ iter' = it /\ crash' = "no" /\ phase' = ph /\ slept' = sl
  BY <1>1, <1>3 DEF return_true, Now
<1>9. CASE Len(u) = 1
  <2>1. SetHeap(h) /\ stack' = st3 /\ active' = None
    BY <1>1, <1>2, <1>4, <1>9 DEF return_true, Now, SetHeap, heap, Put
  <2>2. IInv'
    BY <1>6, <1>8, <1>9, <2>1, Closes
  <2>3. Inv(h, g, it, st3, ph, None, sl) /\ Trimmed(h, h)
    BY <1>6, <1>9, TrimmedSame
  <2>4. Trimmed(Heap, Heap')
    BY <1>1, <2>1, <2>3, Trims
  <2> QED BY <2>2, <2>4
<1>10. CASE Len(u) # 1
  <2>1. Len(u) > 1
    BY <1>7, <1>10, Bounds
  <2>2. Caller(ag) = f0 /\ f0 \in Frame
    BY <1>3, <1>4, <1>7, <2>1, CallerNow
  <2>3. [f0 EXCEPT !.pc = "vetoed", !.at = None] = f
    <3>1. PICK a, b, c : f0 = [el |-> a, pc |-> b, at |-> c] /\ a = f0.el
      BY <2>2 DEF Frame
    <3>2. PICK f1 : f1 = [f0 EXCEPT !.pc = "vetoed"]
      OBVIOUS
    <3>3. f1 = [el |-> a, pc |-> "vetoed", at |-> c]
      BY <3>1, <3>2
    <3>4. [f1 EXCEPT !.at = None] = [el |-> a, pc |-> "vetoed", at |-> None]
      BY <3>3
    <3>5. [f0 EXCEPT !.pc = "vetoed", !.at = None] = [f1 EXCEPT !.at = None]
      BY <3>2
    <3> QED BY <1>4, <3>1, <3>4, <3>5
  <2>4. SetHeap(h2) /\ SetCaller(ag, f) /\ active' = ag
    BY <1>1, <1>2, <1>3, <1>4, <1>10, <2>2, <2>3 DEF return_true, Now
  <2>5. stack' = st2
    BY <1>1, <1>2, <1>4, <2>4 DEF SetCaller, Now, Put, Popped
  <2>6. Inv(h2, g, it, st2, ph, ag, sl) /\ Trimmed(h, h2)
    BY <1>6, <2>1
  <2>7. IInv'
    BY <1>8, <2>4, <2>5, <2>6, Closes
  <2>8. Trimmed(Heap, Heap')
    BY <1>1, <2>4, <2>6, Trims
  <2> QED BY <2>7, <2>8
<1> QED BY <1>9, <1>10

MovedTo(f, q, v) == [f EXCEPT !.pc = q, !.at = v]
StoodAt(f, v) == [f EXCEPT !.at = v]

\* A call with a new list, or with an iterator that has moved.
LEMMA FrameUpdates ==
    ASSUME NEW f0 \in Frame, NEW q, NEW v
    PROVE  /\ MovedTo(f0, q, v) = [el |-> f0.el, pc |-> q, at |-> v]
           /\ StoodAt(f0, v) = [el |-> f0.el, pc |-> f0.pc, at |-> v]
<1>1. PICK a, b, c : f0 = [el |-> a, pc |-> b, at |-> c] /\ a = f0.el /\ b = f0.pc
  BY DEF Frame
<1>2. PICK f1 : f1 = [f0 EXCEPT !.pc = q]
  OBVIOUS
<1>3. f1 = [el |-> a, pc |-> q, at |-> c]
  BY <1>1, <1>2
<1>4. [f1 EXCEPT !.at = v] = [el |-> a, pc |-> q, at |-> v]
  BY <1>3
<1>5. [f0 EXCEPT !.pc = q, !.at = v] = [f1 EXCEPT !.at = v]
  BY <1>2
<1>6. [f0 EXCEPT !.at = v] = [el |-> a, pc |-> b, at |-> v]
  BY <1>1
<1> QED BY <1>1, <1>4, <1>5, <1>6 DEF MovedTo, StoodAt

\* The call ag is in begins to iterate its list L, on heap h1 and with hints g1.
BeginsList(h, g, it, st, ph, sl, ag, u, h1, g1, q, L, r) ==
    /\ Now(h, g, it, st, ph, ag, sl) /\ Inv(h, g, it, st, ph, ag, sl)
    /\ u = st[ag] /\ u[Len(u)].at = None /\ Top(ag) = u[Len(u)]
    /\ HeapInv(h1, g1, AtOf(it, st), OwnerOf(it)) /\ Kept(h, h1) /\ Shrinks(g, g1)
    /\ q \in {"output", "input"}
    /\ L = <<u[Len(u)].el, IF q = "output" THEN "beg" ELSE "end">> /\ r = Begin(h1, L)
    /\ ph[ag] = "erase" /\ u[Len(u)].el \in Arcs => \A s \in Sides : g1[u[Len(u)].el][s] = NoHint
    /\ ph[ag] = "erase" /\ q = "input" => Live(h1, <<u[Len(u)].el, "beg">>) = {}
    /\ SetHeap(r.heap) /\ SetTop(ag, [Top(ag) EXCEPT !.pc = q, !.at = r.at])
    /\ hint' = g1 /\ iter' = it /\ phase' = ph /\ active' = ag /\ slept' = sl /\ crash' = "no"

\* What pre_allow, forget_ends and iterate_input do last.
LEMMA IteratesStep ==
    ASSUME NEW h, NEW g, NEW it, NEW st, NEW ph, NEW sl, NEW ag \in Agents, NEW u,
           NEW h1, NEW g1, NEW q, NEW L, NEW r, BeginsList(h, g, it, st, ph, sl, ag, u, h1, g1, q, L, r)
    PROVE  IInv' /\ Trimmed(Heap, Heap')
<1>1. PICK t, f, st2 : t = u[Len(u)] /\ f = [el |-> t.el, pc |-> q, at |-> r.at] /\ st2 = Put(st, ag, Topped(u, f))
  OBVIOUS
<1>2. Inv(r.heap, g1, it, st2, ph, ag, sl) /\ Trimmed(h, r.heap)
  <2>1. f = [el |-> u[Len(u)].el, pc |-> q, at |-> r.at] /\ st2 = Put(st, ag, Topped(u, f))
    BY <1>1
  <2>2. /\ Inv(h, g, it, st, ph, ag, sl)
        /\ u = st[ag] /\ u[Len(u)].at = None
        /\ HeapInv(h1, g1, AtOf(it, st), OwnerOf(it)) /\ Kept(h, h1) /\ Shrinks(g, g1)
        /\ q \in {"output", "input"}
        /\ L = <<u[Len(u)].el, IF q = "output" THEN "beg" ELSE "end">> /\ r = Begin(h1, L)
        /\ ph[ag] = "erase" /\ u[Len(u)].el \in Arcs => \A s \in Sides : g1[u[Len(u)].el][s] = NoHint
        /\ ph[ag] = "erase" /\ q = "input" => Live(h1, <<u[Len(u)].el, "beg">>) = {}
    BY DEF BeginsList
  <2> QED BY <2>1, <2>2, Iterates
<1>3. t \in Frame
  BY <1>1, Runs DEF BeginsList
<1>4. [t EXCEPT !.pc = q, !.at = r.at] = f
  <2>1. MovedTo(t, q, r.at) = [el |-> t.el, pc |-> q, at |-> r.at]
    BY <1>3, FrameUpdates
  <2> QED BY <1>1, <2>1 DEF MovedTo
<1>5. stack' = st2
  <2>1. SetTop(ag, f)
    BY <1>1, <1>4 DEF BeginsList
  <2> QED BY <1>1, <2>1 DEF SetTop, Now, Put, Topped, BeginsList
<1>6. SetHeap(r.heap) /\ hint' = g1 /\ iter' = it /\ phase' = ph /\ active' = ag /\ slept' = sl /\ crash' = "no"
  BY DEF BeginsList
<1>7. IInv'
  BY <1>2, <1>5, <1>6, Closes
<1>8. Now(h, g, it, st, ph, ag, sl)
  BY DEF BeginsList
<1>9. Trimmed(Heap, Heap')
  BY <1>2, <1>6, <1>8, Trims
<1> QED BY <1>7, <1>9

\* Action pre_allow.
LEMMA Allows ==
    ASSUME IInv, NEW ag \in Agents, pre_allow(ag)
    PROVE  IInv' /\ Trimmed(Heap, Heap')
<1>1. PICK h, g, it, st, ph, ac, sl : Now(h, g, it, st, ph, ac, sl) /\ Inv(h, g, it, st, ph, ac, sl)
  BY Opened
<1>2. PICK u : u = st[ag]
  OBVIOUS
<1>3. ac = ag /\ crash = "no" /\ u[Len(u)].pc = "enter" /\ Top(ag) = u[Len(u)]
  BY <1>1, <1>2, RunsNow DEF pre_allow
<1>4. ph[ag] = "pre"
  BY <1>1 DEF pre_allow, Now
<1>5. Now(h, g, it, st, ph, ag, sl) /\ Inv(h, g, it, st, ph, ag, sl)
  BY <1>1, <1>3
<1>6. Framed(h, u) /\ Len(u) \in 1..MaxDepth /\ Len(u) \in Nat /\ HeapInv(h, g, AtOf(it, st), OwnerOf(it))
  BY <1>2, <1>5, Runs
<1>7. u[Len(u)].at = None
  <2>1. Len(u) \in 1..Len(u)
    BY <1>6
  <2> QED BY <1>3, <1>6, <2>1 DEF Framed
<1>8. PICK q, L, r : q = "output" /\ L = <<u[Len(u)].el, IF q = "output" THEN "beg" ELSE "end">> /\ r = Begin(h, L)
  OBVIOUS
<1>9. SetHeap(r.heap) /\ SetTop(ag, [Top(ag) EXCEPT !.pc = q, !.at = r.at])
  BY <1>1, <1>3, <1>8 DEF pre_allow, IterateOutput, Now
<1>10. hint' = g /\ iter' = it /\ phase' = ph /\ active' = ag /\ slept' = sl /\ crash' = "no"
  BY <1>1, <1>3 DEF pre_allow, Now
<1>11. Kept(h, h) /\ Shrinks(g, g) /\ q \in {"output", "input"}
  BY <1>8, KeptSame, ShrinksSame
<1>12. /\ ph[ag] = "erase" /\ u[Len(u)].el \in Arcs => \A s \in Sides : g[u[Len(u)].el][s] = NoHint
       /\ ph[ag] = "erase" /\ q = "input" => Live(h, <<u[Len(u)].el, "beg">>) = {}
  BY <1>4
<1>13. L = <<u[Len(u)].el, IF q = "output" THEN "beg" ELSE "end">> /\ r = Begin(h, L)
  BY <1>8
<1>99. BeginsList(h, g, it, st, ph, sl, ag, u, h, g, q, L, r)
  BY <1>2, <1>3, <1>5, <1>6, <1>7, <1>9, <1>10, <1>11, <1>12, <1>13 DEF BeginsList
<1> QED BY <1>99, IteratesStep

\* Action iterate_input: the output list is empty when __erase_el comes to the input list.
LEMMA IteratesInput ==
    ASSUME IInv, NEW ag \in Agents, iterate_input(ag)
    PROVE  IInv' /\ Trimmed(Heap, Heap')
<1>1. PICK h, g, it, st, ph, ac, sl : Now(h, g, it, st, ph, ac, sl) /\ Inv(h, g, it, st, ph, ac, sl)
  BY Opened
<1>2. PICK u : u = st[ag]
  OBVIOUS
<1>3. ac = ag /\ crash = "no" /\ u[Len(u)].pc = "output" /\ Top(ag) = u[Len(u)]
  BY <1>1, <1>2, RunsNow DEF iterate_input
<1>4. u[Len(u)].at = None
  BY <1>3 DEF iterate_input
<1>5. Now(h, g, it, st, ph, ag, sl) /\ Inv(h, g, it, st, ph, ag, sl)
  BY <1>1, <1>3
<1>6. /\ Len(u) \in 1..MaxDepth /\ Len(u) \in Nat /\ HeapInv(h, g, AtOf(it, st), OwnerOf(it))
      /\ Working(h, g, u, ph[ag], sl[ag])
  BY <1>2, <1>5, Runs
<1>7. ph[ag] = "erase" => FrameErases(h, g, u[Len(u)])
  <2>1. Len(u) \in 1..Len(u)
    BY <1>6
  <2> QED BY <1>6, <2>1 DEF Working
<1>8. PICK q, L, r : q = "input" /\ L = <<u[Len(u)].el, IF q = "output" THEN "beg" ELSE "end">> /\ r = Begin(h, L)
  OBVIOUS
<1>9. SetHeap(r.heap) /\ SetTop(ag, [Top(ag) EXCEPT !.pc = q, !.at = r.at])
  BY <1>1, <1>3, <1>8 DEF iterate_input, Now
<1>10. hint' = g /\ iter' = it /\ phase' = ph /\ active' = ag /\ slept' = sl /\ crash' = "no"
  BY <1>1, <1>3 DEF iterate_input, Now
<1>11. Kept(h, h) /\ Shrinks(g, g) /\ q \in {"output", "input"}
  BY <1>8, KeptSame, ShrinksSame
<1>12. /\ ph[ag] = "erase" /\ u[Len(u)].el \in Arcs => \A s \in Sides : g[u[Len(u)].el][s] = NoHint
       /\ ph[ag] = "erase" /\ q = "input" => Live(h, <<u[Len(u)].el, "beg">>) = {}
  BY <1>3, <1>4, <1>7 DEF FrameErases, ListOf
<1>13. L = <<u[Len(u)].el, IF q = "output" THEN "beg" ELSE "end">> /\ r = Begin(h, L)
  BY <1>8
<1>99. BeginsList(h, g, it, st, ph, sl, ag, u, h, g, q, L, r)
  BY <1>2, <1>3, <1>4, <1>5, <1>6, <1>9, <1>10, <1>11, <1>12, <1>13 DEF BeginsList
<1> QED BY <1>99, IteratesStep

\* Action forget_ends: both ends are detached, one after the other.
LEMMA ForgetsEnds ==
    ASSUME IInv, NEW ag \in Agents, forget_ends(ag)
    PROVE  IInv' /\ Trimmed(Heap, Heap')
<1>1. PICK h, g, it, st, ph, ac, sl : Now(h, g, it, st, ph, ac, sl) /\ Inv(h, g, it, st, ph, ac, sl)
  BY Opened
<1>2. PICK u, x : u = st[ag] /\ x = u[Len(u)].el
  OBVIOUS
<1>3. ac = ag /\ crash = "no" /\ u[Len(u)].pc = "enter" /\ Top(ag) = u[Len(u)]
  BY <1>1, <1>2, RunsNow DEF forget_ends
<1>5. Now(h, g, it, st, ph, ag, sl) /\ Inv(h, g, it, st, ph, ag, sl)
  BY <1>1, <1>3
<1>6. Framed(h, u) /\ Len(u) \in 1..MaxDepth /\ Len(u) \in Nat /\ HeapInv(h, g, AtOf(it, st), OwnerOf(it)) /\ g \in HintType
  BY <1>2, <1>5, Runs
<1>7. u[Len(u)].at = None
  <2>1. Len(u) \in 1..Len(u)
    BY <1>6
  <2> QED BY <1>3, <1>6, <2>1 DEF Framed
<1>8. PICK h1, g1 :
        /\ HeapInv(h1, g1, AtOf(it, st), OwnerOf(it)) /\ Kept(h, h1) /\ Shrinks(g, g1)
        /\ x \in Arcs => \A s \in Sides : g1[x][s] = NoHint
        /\ hint' = g1 /\ IterateOutput(ag, h1)
  <2>1. CASE x \in Arcs /\ h.state[x] = "live"
    <3>1. PICK ha, ga, hb, gb :
            /\ ha = detach(h, g[x]["end"]) /\ ga = PutHint(g, x, "end", NoHint)
            /\ hb = detach(ha, ga[x]["beg"]) /\ gb = PutHint(ga, x, "beg", NoHint)
      OBVIOUS
    <3>2. "end" \in Sides /\ "beg" \in Sides /\ NoHint \in Hint
      BY DEF Sides, Hint
    <3>3. HeapInv(ha, ga, AtOf(it, st), OwnerOf(it)) /\ Trimmed(h, ha) /\ ha.state = h.state
      BY <1>6, <2>1, <3>1, <3>2, Detached
    <3>4. HeapInv(hb, gb, AtOf(it, st), OwnerOf(it)) /\ Trimmed(ha, hb) /\ hb.state = ha.state
      BY <2>1, <3>1, <3>2, <3>3, Detached
    <3>5. ga \in HintType /\ ga[x]["end"] = NoHint /\ \A y \in Arcs, s \in Sides : y # x \/ s # "end" => ga[y][s] = g[y][s]
      BY <1>6, <2>1, <3>1, <3>2, HintPut
    <3>6. gb \in HintType /\ gb[x]["beg"] = NoHint /\ \A y \in Arcs, s \in Sides : y # x \/ s # "beg" => gb[y][s] = ga[y][s]
      BY <2>1, <3>1, <3>2, <3>5, HintPut
    <3>7. \A s \in Sides : gb[x][s] = NoHint
      BY <2>1, <3>5, <3>6 DEF Sides
    <3>8. Shrinks(g, gb)
      BY <3>5, <3>6, <3>7 DEF Shrinks
    <3>9. Kept(h, hb)
      <4>1. Trimmed(h, hb)
        BY <3>3, <3>4, TrimmedTwice
      <4> QED BY <3>3, <3>4, <4>1 DEF Kept
    <3>10. IterateOutput(ag, hb)
      <4>1. ga[x]["beg"] = g[x]["beg"]
        BY <2>1, <3>2, <3>5
      <4>2. hb = detach(detach(h, g[x]["end"]), g[x]["beg"])
        BY <3>1, <4>1
      <4> QED BY <1>1, <1>2, <1>3, <2>1, <4>2 DEF forget_ends, Now
    <3>11. hint' = gb
      <4>1. hint' = [g EXCEPT ![x] = [s \in Sides |-> NoHint]]
        BY <1>1, <1>2, <1>3, <2>1 DEF forget_ends, Now
      <4>2. gb = [g EXCEPT ![x] = [s \in Sides |-> NoHint]]
        BY <1>6, <2>1, <3>5, <3>6, <3>7 DEF HintType
      <4> QED BY <4>1, <4>2
    <3> QED BY <3>4, <3>7, <3>8, <3>9, <3>10, <3>11
  <2>2. CASE ~(x \in Arcs /\ h.state[x] = "live")
    <3>1. x \in Arcs => \A s \in Sides : g[x][s] = NoHint
      BY <1>6, <2>2 DEF HeapInv, Hinted
    <3>2. Kept(h, h) /\ Shrinks(g, g)
      BY KeptSame, ShrinksSame
    <3>3. hint' = g /\ IterateOutput(ag, h)
      BY <1>1, <1>2, <1>3, <2>2 DEF forget_ends, Now
    <3> QED BY <1>6, <3>1, <3>2, <3>3
  <2> QED BY <2>1, <2>2
<1>9. PICK q, L, r : q = "output" /\ L = <<u[Len(u)].el, IF q = "output" THEN "beg" ELSE "end">> /\ r = Begin(h1, L)
  OBVIOUS
<1>10. SetHeap(r.heap) /\ SetTop(ag, [Top(ag) EXCEPT !.pc = q, !.at = r.at])
  BY <1>3, <1>8, <1>9 DEF IterateOutput
<1>11. hint' = g1 /\ iter' = it /\ phase' = ph /\ active' = ag /\ slept' = sl /\ crash' = "no"
  BY <1>1, <1>3, <1>8 DEF forget_ends, Now
<1>12. q \in {"output", "input"}
  BY <1>9
<1>13. /\ ph[ag] = "erase" /\ u[Len(u)].el \in Arcs => \A s \in Sides : g1[u[Len(u)].el][s] = NoHint
       /\ ph[ag] = "erase" /\ q = "input" => Live(h1, <<u[Len(u)].el, "beg">>) = {}
  BY <1>2, <1>8, <1>9
<1>14. L = <<u[Len(u)].el, IF q = "output" THEN "beg" ELSE "end">> /\ r = Begin(h1, L)
  BY <1>9
<1>15. u = st[ag] /\ HeapInv(h1, g1, AtOf(it, st), OwnerOf(it)) /\ Kept(h, h1) /\ Shrinks(g, g1)
  BY <1>2, <1>8
<1>99. BeginsList(h, g, it, st, ph, sl, ag, u, h1, g1, q, L, r)
  BY <1>3, <1>5, <1>7, <1>10, <1>11, <1>12, <1>13, <1>14, <1>15 DEF BeginsList
<1> QED BY <1>99, IteratesStep

\* Action recurse.
LEMMA RecursesStep ==
    ASSUME IInv, NEW ag \in Agents, recurse(ag)
    PROVE  IInv'
<1>1. PICK h, g, it, st, ph, ac, sl : Now(h, g, it, st, ph, ac, sl) /\ Inv(h, g, it, st, ph, ac, sl)
  BY Opened
<1>2. PICK u : u = st[ag]
  OBVIOUS
<1>3. ac = ag /\ crash = "no" /\ Top(ag) = u[Len(u)]
  BY <1>1, <1>2, RunsNow DEF recurse
<1>4. u[Len(u)].at # None
  BY <1>3 DEF recurse
<1>5. PICK f, st2 : f = Call(Arc(u[Len(u)].at)) /\ st2 = Put(st, ag, Deeper(u, f))
  OBVIOUS
<1>6. Inv(h, g, it, st, ph, ag, sl)
  BY <1>1, <1>3
<1>7. /\ Len(u) < MaxDepth => Inv(h, g, it, st2, ph, ag, sl)
      /\ ~(Len(u) < MaxDepth) => ph[ag] = "pre" \/ Cardinality(Elements) > MaxDepth
  BY <1>2, <1>4, <1>5, <1>6, Recurses
<1>8. SetHeap(h) /\ hint' = g /\ iter' = it /\ phase' = ph /\ active' = ag /\ slept' = sl
  BY <1>1, <1>3 DEF recurse, Now, SetHeap, heap
<1>9. CASE Len(u) < MaxDepth
  <2>1. stack' = st2 /\ crash' = "no"
    BY <1>1, <1>2, <1>3, <1>5, <1>9 DEF recurse, Now, Put, Deeper
  <2> QED BY <1>7, <1>8, <1>9, <2>1, Closes
<1>10. CASE ~(Len(u) < MaxDepth)
  <2>1. stack' = st /\ crash' = "depth"
    BY <1>1, <1>2, <1>3, <1>10 DEF recurse, Now
  <2> QED BY <1>6, <1>7, <1>8, <1>10, <2>1, Closes
<1> QED BY <1>9, <1>10

\* Action return.
LEMMA ReturnsStep ==
    ASSUME IInv, NEW ag \in Agents, return(ag)
    PROVE  IInv' /\ Trimmed(Heap, Heap')
<1>1. PICK h, g, it, st, ph, ac, sl : Now(h, g, it, st, ph, ac, sl) /\ Inv(h, g, it, st, ph, ac, sl)
  BY Opened
<1>2. PICK u : u = st[ag]
  OBVIOUS
<1>3. ac = ag /\ crash = "no" /\ u[Len(u)].pc = "input" /\ Top(ag) = u[Len(u)]
      /\ (Len(u) \in Nat => Caller(ag) = Front(u)[Len(Front(u))])
  BY <1>1, <1>2, RunsNow DEF return
<1>4. u[Len(u)].at = None /\ Len(u) > 1
  BY <1>1, <1>2, <1>3 DEF return, Now
<1>5. Inv(h, g, it, st, ph, ag, sl)
  BY <1>1, <1>3
<1>6. u \in Stack /\ Len(u) \in Nat
  BY <1>2, <1>5, Runs
<1>7. Caller(ag) = u[Len(u) - 1] /\ u[Len(u) - 1] \in Frame
  BY <1>3, <1>4, <1>6, CallerNow
<1>8. PICK h1, f0, r, f, st2 :
        /\ h1 = IF ph[ag] = "erase" THEN die(h, u[Len(u)].el) ELSE h
        /\ f0 = u[Len(u) - 1] /\ r = Forward(h1, ListOf(f0), f0.at)
        /\ f = [el |-> f0.el, pc |-> f0.pc, at |-> r.at] /\ st2 = Put(st, ag, Popped(u, f))
  OBVIOUS
<1>9. Inv(r.heap, g, it, st2, ph, ag, sl) /\ Trimmed(h, r.heap)
  BY <1>2, <1>3, <1>4, <1>5, <1>8, Returns
<1>10. Returned(ag, h) = h1
  BY <1>1, <1>3, <1>8 DEF Returned, Now
<1>11. SetHeap(r.heap) /\ SetCaller(ag, [f0 EXCEPT !.at = r.at])
  BY <1>1, <1>7, <1>8, <1>10 DEF return, Now
<1>12. [f0 EXCEPT !.at = r.at] = f
  <2>1. f0 \in Frame
    BY <1>7, <1>8
  <2>2. StoodAt(f0, r.at) = [el |-> f0.el, pc |-> f0.pc, at |-> r.at]
    BY <2>1, FrameUpdates
  <2> QED BY <1>8, <2>2 DEF StoodAt
<1>13. stack' = st2
  <2>1. SetCaller(ag, f)
    BY <1>11, <1>12
  <2> QED BY <1>1, <1>2, <1>8, <2>1 DEF SetCaller, Now, Put, Popped
<1>14. hint' = g /\ iter' = it /\ phase' = ph /\ active' = ag /\ slept' = sl /\ crash' = "no"
  BY <1>1, <1>3 DEF return, Now
<1>15. IInv'
  BY <1>9, <1>11, <1>13, <1>14, Closes
<1>16. Trimmed(Heap, Heap')
  BY <1>1, <1>9, <1>11, Trims
<1> QED BY <1>15, <1>16

\* Action finish.
LEMMA FinishesStep ==
    ASSUME IInv, NEW ag \in Agents, finish(ag)
    PROVE  IInv'
<1>1. PICK h, g, it, st, ph, ac, sl : Now(h, g, it, st, ph, ac, sl) /\ Inv(h, g, it, st, ph, ac, sl)
  BY Opened
<1>2. PICK u : u = st[ag]
  OBVIOUS
<1>3. ac = ag /\ crash = "no" /\ u[Len(u)].pc = "input" /\ Top(ag) = u[Len(u)]
  BY <1>1, <1>2, RunsNow DEF finish
<1>4. u[Len(u)].at = None /\ Len(u) = 1
  BY <1>1, <1>2, <1>3 DEF finish, Now
<1>5. Inv(h, g, it, st, ph, ag, sl)
  BY <1>1, <1>3
<1>6. PICK h1, f, sta, phb, stb :
        /\ h1 = IF ph[ag] = "erase" THEN die(h, u[Len(u)].el) ELSE h
        /\ f = Call(u[Len(u)].el)
        /\ sta = Put(st, ag, <<f>>) /\ phb = Put(ph, ag, "erase") /\ stb = Put(st, ag, <<>>)
  OBVIOUS
<1>7. IF ph[ag] = "pre" THEN Inv(h1, g, it, sta, phb, ag, sl) ELSE Inv(h1, g, it, stb, ph, None, sl)
  BY <1>2, <1>3, <1>4, <1>5, <1>6, Finishes
<1>8. SetHeap(h1)
  BY <1>1, <1>3, <1>6 DEF finish, Returned, Now
<1>9. hint' = g /\ iter' = it /\ slept' = sl /\ crash' = "no"
  BY <1>1, <1>3 DEF finish, Now
<1>10. CASE ph[ag] = "pre"
  <2>1. phase' = phb /\ stack' = sta /\ active' = ag
    BY <1>1, <1>3, <1>6, <1>10 DEF finish, Now, Put
  <2> QED BY <1>7, <1>8, <1>9, <1>10, <2>1, Closes
<1>11. CASE ph[ag] # "pre"
  <2>1. phase' = ph /\ stack' = stb /\ active' = None
    BY <1>1, <1>3, <1>6, <1>11 DEF finish, Now, Put
  <2> QED BY <1>7, <1>8, <1>9, <1>11, <2>1, Closes
<1> QED BY <1>10, <1>11

\* Action use_freed: an agent that no handler has suspended finds all its elements alive.
LEMMA UsesFreed ==
    ASSUME IInv, NEW ag \in Agents, use_freed(ag)
    PROVE  IInv'
<1>1. PICK h, g, it, st, ph, ac, sl : Now(h, g, it, st, ph, ac, sl) /\ Inv(h, g, it, st, ph, ac, sl)
  BY Opened
<1>2. PICK u : u = st[ag]
  OBVIOUS
<1>3. ac = ag /\ Top(ag) = u[Len(u)]
  BY <1>1, <1>2 DEF use_freed, Now, Top, Last
<1>4. Inv(h, g, it, st, ph, ag, sl)
  BY <1>1, <1>3
<1>5. /\ u \in Stack /\ Len(u) \in 1..MaxDepth /\ Len(u) \in Nat
      /\ Working(h, g, u, ph[ag], sl[ag])
  BY <1>2, <1>4, Runs
<1>6. \E k \in 1..Len(u) : h.state[u[k].el] # "live"
  <2>1. CASE state[Top(ag).el] = "freed"
    <3>1. h.state[u[Len(u)].el] = "freed" /\ Len(u) \in 1..Len(u)
      BY <1>1, <1>3, <1>5, <2>1 DEF Now
    <3> QED BY <3>1
  <2>2. CASE Len(stack[ag]) > 1 /\ state[Caller(ag).el] = "freed"
    <3>1. Len(u) > 1 /\ Caller(ag) = Front(u)[Len(Front(u))]
      BY <1>1, <1>2, <2>2 DEF Now, Caller, Last
    <3>2. Caller(ag) = u[Len(u) - 1]
      BY <1>5, <3>1, CallerNow
    <3>3. h.state[u[Len(u) - 1].el] = "freed"
      BY <1>1, <2>2, <3>2 DEF Now
    <3>4. Len(u) - 1 \in 1..Len(u)
      BY <1>5, <3>1
    <3> QED BY <3>3, <3>4
  <2> QED BY <2>1, <2>2 DEF use_freed
<1>7. sl[ag]
  BY <1>5, <1>6 DEF Working, AllLive
<1>8. /\ SetHeap(h) /\ hint' = g /\ iter' = it /\ stack' = st /\ phase' = ph /\ active' = ag
      /\ slept' = sl /\ crash' = "freed"
  BY <1>1, <1>3 DEF use_freed, Now, SetHeap, heap
<1> QED BY <1>4, <1>7, <1>8, Closes

\* The invariant holds when nothing is connected, iterated or erased.
LEMMA Starts ==
    ASSUME Init
    PROVE  IInv
<1>1. PICK h, g, it, st, ph, sl :
        /\ h = [list |-> [L \in ListIds |-> <<>>], link |-> [l \in Links |-> FreeLink],
                state |-> [e \in Elements |-> "live"], refs |-> [e \in Elements |-> 0]]
        /\ g = [x \in Arcs |-> [s \in Sides |-> NoHint]] /\ it = [i \in Iters |-> Closed]
        /\ st = [ag \in Agents |-> <<>>] /\ ph = [ag \in Agents |-> "pre"] /\ sl = [ag \in Agents |-> FALSE]
  OBVIOUS
<1>2. /\ h.list = [L \in ListIds |-> <<>>] /\ h.link = [l \in Links |-> FreeLink]
      /\ h.state = [e \in Elements |-> "live"] /\ h.refs = [e \in Elements |-> 0]
  BY <1>1
<1>3. h \in HeapType
  <2>1. <<>> \in Seq(Links)
    OBVIOUS
  <2>2. FreeLink \in LinkType
    BY LinkShape
  <2>3. [L \in ListIds |-> <<>>] \in [ListIds -> Seq(Links)]
    BY <2>1
  <2>4. [l \in Links |-> FreeLink] \in [Links -> LinkType]
    BY <2>2
  <2> QED BY <1>1, <2>3, <2>4 DEF HeapType
<1>4. \A L \in ListIds : h.list[L] = <<>> /\ ToSet(h.list[L]) = {} /\ IsInjective(h.list[L])
  <2>1. \A L \in ListIds : h.list[L] = <<>>
    BY <1>2
  <2>2. ToSet(<<>>) = {} /\ IsInjective(<<>>)
    BY DEF ToSet, IsInjective
  <2> QED BY <2>1, <2>2
<1>5. \A l \in Links : h.link[l] = FreeLink /\ h.link[l].refcnt = 0
  BY <1>2 DEF FreeLink
<1>6. \A x \in Arcs, s \in Sides : g[x][s] = NoHint
  BY <1>1
<1>7. it \in [Iters -> IterType] /\ \A i \in Iters : it[i] = Closed /\ it[i].at = None
  BY <1>1, FrameFields
<1>8. st \in [Agents -> Stack] /\ \A a \in Agents : st[a] = <<>>
  <2>1. <<>> \in Stack
    BY DEF Stack
  <2> QED BY <1>1, <2>1
<1>9. /\ AtOf(it, st) \in AtType /\ OwnerOf(it) \in OwnerType
      /\ \A c \in Slots : AtOf(it, st)[c] = None
      /\ \A i \in Iters : OwnerOf(it)[i] = None
  <2>1. /\ AtOf(it, st) \in AtType /\ OwnerOf(it) \in OwnerType
        /\ \A i \in Iters : AtOf(it, st)[<<i, 0>>] = it[i].at
        /\ \A a \in Agents, k \in 1..MaxDepth : AtOf(it, st)[<<a, k>>] = FrameAt(st[a], k)
    BY <1>7, <1>8, AtOfFields
  <2>2. \A a \in Agents, k \in 1..MaxDepth : FrameAt(st[a], k) = None
    BY <1>8 DEF FrameAt
  <2>3. \A i \in Iters : OwnerOf(it)[i] = None
    BY <1>7 DEF OwnerOf, Owner
  <2> QED BY <1>7, <2>1, <2>2, <2>3, SlotShape
<1>10. ListsOK(h)
  BY <1>4, <1>5 DEF ListsOK
<1>11. LinkCounts(h, AtOf(it, st)) /\ RefCounts(h, AtOf(it, st), OwnerOf(it))
  <2>1. Cardinality({}) = 0
    BY FS_EmptySet
  <2>2. \A l \in Links : AtLink(AtOf(it, st), l) = {}
    BY <1>9, LinkShape DEF AtLink
  <2>3. \A e \in Elements : AtArc(AtOf(it, st), e) = {} /\ OwnedBy(OwnerOf(it), e) = {}
    BY <1>9, LinkShape DEF AtArc, OwnedBy
  <2>4. \A l \in Links : Cardinality(AtLink(AtOf(it, st), l)) = 0
    BY <2>1, <2>2
  <2>5. \A e \in Elements : Cardinality(AtArc(AtOf(it, st), e)) = 0 /\ Cardinality(OwnedBy(OwnerOf(it), e)) = 0
    BY <2>1, <2>3
  <2>6. LinkCounts(h, AtOf(it, st))
    BY <1>5, <2>4 DEF LinkCounts
  <2>7. \A e \in Elements : h.refs[e] = 0 /\ h.state[e] = "live"
    BY <1>2
  <2> QED BY <2>5, <2>6, <2>7 DEF RefCounts
<1>12. Hinted(h, g)
  BY <1>4, <1>6 DEF Hinted
<1>13. g \in HintType
  <2>1. NoHint \in Hint
    BY DEF Hint
  <2> QED BY <1>1, <2>1 DEF HintType
<1>14. HeapInv(h, g, AtOf(it, st), OwnerOf(it))
  BY <1>3, <1>9, <1>10, <1>11, <1>12, <1>13 DEF HeapInv
<1>15. Inv(h, g, it, st, ph, None, sl)
  <2>1. EndsLive(h, g) /\ ItersOK(h, it)
    BY <1>6, <1>7 DEF EndsLive, ItersOK
  <2>2. \A a \in Agents : Framed(h, st[a])
    BY <1>8, SingleFramed
  <2>3. ph \in [Agents -> {"pre", "erase"}] /\ sl \in [Agents -> BOOLEAN]
    BY <1>1
  <2> QED BY <1>8, <1>14, <2>1, <2>2, <2>3 DEF Inv
<1>16. Heap = h /\ hint = g /\ iter = it /\ stack = st /\ phase = ph /\ active = None /\ slept = sl /\ crash = "no"
  BY <1>1 DEF Init, Heap
<1> QED BY <1>15, <1>16 DEF IInv

-----------------------------------------------------------------------------
(***************************************************************************)
(* The theorems                                                            *)
(***************************************************************************)

\* A step that changes nothing.
LEMMA Stutters ==
    ASSUME IInv, UNCHANGED vars
    PROVE  IInv'
<1>1. PICK h, g, it, st, ph, ac, sl : Now(h, g, it, st, ph, ac, sl) /\ Inv(h, g, it, st, ph, ac, sl)
  BY Opened
<1>2. /\ SetHeap(h) /\ hint' = g /\ iter' = it /\ stack' = st /\ phase' = ph /\ active' = ac /\ slept' = sl
      /\ crash' = crash
  BY <1>1 DEF vars, Now, SetHeap
<1>3. /\ crash \in {"no", "freed", "depth"}
      /\ crash = "freed" => sl[ac]
      /\ crash = "depth" => ph[ac] = "pre" \/ Cardinality(Elements) > MaxDepth
  BY <1>1 DEF IInv, Now
<1> QED BY <1>1, <1>2, <1>3, Closes

\* Every step keeps the invariant.
LEMMA Steps ==
    ASSUME IInv, [Next]_vars
    PROVE  IInv'
<1>1. ASSUME NEW x \in Arcs, NEW s \in Sides, NEW e \in Elements, set_side(x, s, e) PROVE IInv'
  BY <1>1, SetsSideStep
<1>2. ASSUME NEW i \in Iters, next(i) \/ delete_iterator(i) PROVE IInv'
  BY <1>2, NextsStep, DeletesStep
<1>3. ASSUME NEW i \in Iters, NEW e \in Elements, NEW s \in Sides, create_iterator(i, e, s) PROVE IInv'
  BY <1>3, CreatesStep
<1>4. ASSUME NEW ag \in Agents, resume(ag) PROVE IInv'
  BY <1>4, Resumes
<1>5. ASSUME NEW ag \in Agents, NEW e \in Elements, erase_el(ag, e) PROVE IInv'
  BY <1>5, Erases
<1>6. ASSUME NEW ag \in Agents, Erasing(ag) PROVE IInv'
  <2>1. CASE pre_suspend(ag) \/ pre_veto(ag) \/ return_true(ag) \/ pre_allow(ag) \/ forget_ends(ag)
    BY <2>1, Suspends, Vetoes, ReturnsTrueStep, Allows, ForgetsEnds
  <2>2. CASE iterate_input(ag) \/ recurse(ag) \/ return(ag) \/ finish(ag) \/ use_freed(ag)
    BY <2>2, IteratesInput, RecursesStep, ReturnsStep, FinishesStep, UsesFreed
  <2> QED BY <1>6, <2>1, <2>2 DEF Erasing
<1>7. CASE UNCHANGED vars
  BY <1>7, Stutters
<1>8. CASE Next
  BY <1>1, <1>2, <1>3, <1>4, <1>5, <1>6, <1>8 DEF Next
<1> QED BY <1>7, <1>8

\* The inductive invariant holds in every behaviour.
THEOREM ArcListsInvariant == Spec => []IInv
<1>1. Init => IInv
  BY Starts
<1>2. IInv /\ [Next]_vars => IInv'
  BY Steps
<1> QED BY <1>1, <1>2, PTL DEF Spec

\* The iterators at a link, as the property counts them and as the invariant does.
LEMMA Places ==
    ASSUME IInv, NEW h, NEW g, NEW it, NEW st, NEW ph, NEW ac, NEW sl,
           Now(h, g, it, st, ph, ac, sl), Inv(h, g, it, st, ph, ac, sl)
    PROVE  \A l \in Links : \A c : c \in Cursors /\ At(c) = l <=> c \in AtLink(AtOf(it, st), l)
<1>1. it \in [Iters -> IterType] /\ st \in [Agents -> Stack] /\ \A a \in Agents : Framed(h, st[a])
  BY DEF Inv, ItersOK
<1>2. /\ \A i \in Iters : AtOf(it, st)[<<i, 0>>] = it[i].at
      /\ \A a \in Agents, k \in 1..MaxDepth : AtOf(it, st)[<<a, k>>] = FrameAt(st[a], k)
  BY <1>1, AtOfFields
<1>3. \A a \in Agents : Len(st[a]) \in Nat /\ Len(st[a]) <= MaxDepth
  BY <1>1, LenProperties DEF Framed, Stack
<1>4. \A i \in Iters : At(<<i, 0>>) = it[i].at
  BY DEF At, Now
<1>5. \A a \in Agents, k \in 1..MaxDepth : k <= Len(st[a]) => At(<<a, k>>) = FrameAt(st[a], k)
  <2> SUFFICES ASSUME NEW a \in Agents, NEW k \in 1..MaxDepth, k <= Len(st[a])
               PROVE  At(<<a, k>>) = FrameAt(st[a], k)
    OBVIOUS
  <2>1. k # 0
    BY Bounds
  <2> QED BY <2>1 DEF At, Now, FrameAt
<1> TAKE l \in Links
<1> TAKE c
<1>6. l # None
  BY LinkShape
<1>7. ASSUME c \in Cursors, At(c) = l PROVE c \in AtLink(AtOf(it, st), l)
  <2>1. CASE \E i \in Iters : c = <<i, 0>>
    BY <1>2, <1>4, <1>7, <2>1, SlotShape DEF AtLink
  <2>2. CASE \E a \in Agents : \E k \in 1..Len(st[a]) : c = <<a, k>>
    <3>1. PICK a \in Agents, k \in Nat : k \in 1..Len(st[a]) /\ c = <<a, k>>
      BY <1>3, <2>2
    <3>2. k \in 1..MaxDepth /\ k <= Len(st[a])
      BY <1>3, <3>1, Bounds
    <3> QED BY <1>2, <1>5, <1>7, <3>1, <3>2, SlotShape DEF AtLink
  <2> QED BY <1>7, <2>1, <2>2 DEF Cursors, Now
<1>8. ASSUME c \in AtLink(AtOf(it, st), l) PROVE c \in Cursors /\ At(c) = l
  <2>1. c \in Slots /\ AtOf(it, st)[c] = l
    BY <1>8 DEF AtLink
  <2>2. CASE \E i \in Iters : c = <<i, 0>>
    BY <1>2, <1>4, <2>1, <2>2 DEF Cursors
  <2>3. CASE \E a \in Agents, k \in 1..MaxDepth : c = <<a, k>>
    <3>1. PICK a \in Agents, k \in 1..MaxDepth : c = <<a, k>>
      BY <2>3
    <3>2. FrameAt(st[a], k) = l
      BY <1>2, <2>1, <3>1
    <3>3. k <= Len(st[a])
      BY <1>6, <3>2 DEF FrameAt
    <3>4. k \in 1..Len(st[a])
      BY <1>3, <3>1, <3>3, Bounds
    <3>5. c \in Cursors
      BY <3>1, <3>4 DEF Cursors, Now
    <3> QED BY <1>5, <3>1, <3>2, <3>3, <3>5
  <2> QED BY <2>1, <2>2, <2>3, SlotShape
<1> QED BY <1>7, <1>8

\* The invariant implies that the counts are exact.
LEMMA CountsAreExact ==
    ASSUME IInv
    PROVE  CountsExact
<1>1. PICK h, g, it, st, ph, ac, sl : Now(h, g, it, st, ph, ac, sl) /\ Inv(h, g, it, st, ph, ac, sl)
  BY Opened
<1>2. PICK at, own : at = AtOf(it, st) /\ own = OwnerOf(it)
  OBVIOUS
<1>3. HeapInv(h, g, at, own) /\ it \in [Iters -> IterType]
  BY <1>1, <1>2 DEF Inv, ItersOK
<1>4. \A l \in Links : \A c : c \in Cursors /\ At(c) = l <=> c \in AtLink(at, l)
  BY <1>1, <1>2, Places
<1>5. \A l \in Links : {c \in Cursors : At(c) = l} = AtLink(at, l)
  BY <1>4
<1>6. ASSUME NEW l \in Links
      PROVE  link[l].refcnt = Cardinality({c \in Cursors : At(c) = l})
                              + (IF link[l] # FreeLink /\ ~link[l].dead THEN 1 ELSE 0)
  <2>1. h.link[l].refcnt = Cardinality(AtLink(at, l))
                           + (IF h.link[l].refcnt # 0 /\ ~h.link[l].dead THEN 1 ELSE 0)
    BY <1>3 DEF HeapInv, LinkCounts
  <2>2. h.link[l].refcnt # 0 <=> h.link[l] # FreeLink
    BY <1>3 DEF HeapInv, ListsOK, FreeLink
  <2>3. h.link = link
    BY <1>1 DEF Now
  <2>4. {c \in Cursors : At(c) = l} = AtLink(at, l)
    BY <1>5
  <2> QED BY <2>1, <2>2, <2>3, <2>4
<1>7. \A e \in Elements : {c \in Cursors : At(c) # None /\ Arc(At(c)) = e} = AtArc(at, e)
  <2> SUFFICES ASSUME NEW e \in Elements, NEW c
               PROVE  c \in Cursors /\ At(c) # None /\ Arc(At(c)) = e <=> c \in AtArc(at, e)
    OBVIOUS
  <2>1. \A d \in Slots : at[d] \in Links \cup {None}
    BY <1>3 DEF HeapInv, AtType
  <2>2. c \in Cursors => At(c) \in Links \cup {None}
    <3> SUFFICES ASSUME c \in Cursors PROVE At(c) \in Links \cup {None}
      OBVIOUS
    <3>1. CASE \E i \in Iters : c = <<i, 0>>
      BY <1>1, <1>3, <3>1, FrameFields DEF At, Now
    <3>2. CASE \E a \in Agents : \E k \in 1..Len(st[a]) : c = <<a, k>>
      <4>1. st \in [Agents -> Stack]
        BY <1>1 DEF Inv
      <4>2. PICK a \in Agents : \E k \in 1..Len(st[a]) : c = <<a, k>>
        BY <3>2
      <4>3. Len(st[a]) \in Nat /\ st[a] \in Seq(Frame)
        BY <4>1, LenProperties DEF Stack
      <4>4. PICK k \in 1..Len(st[a]) : c = <<a, k>>
        BY <4>2
      <4>5. st[a][k] \in Frame /\ k # 0
        BY <4>3, <4>4, ElementOfSeq
      <4> QED BY <1>1, <4>4, <4>5, FrameFields DEF At, Now
    <3> QED BY <1>1, <3>1, <3>2 DEF Cursors, Now
  <2> QED BY <1>4, <2>1, <2>2, LinkShape DEF AtArc, AtLink
<1>8. \A e \in Elements : {i \in Iters : iter[i] # Closed /\ iter[i].list[1] = e} = OwnedBy(own, e)
  BY <1>1, <1>2, <1>3, LinkShape DEF OwnedBy, OwnerOf, Owner, Now
<1>9. ASSUME NEW e \in Elements
      PROVE  /\ refs[e] = Cardinality({c \in Cursors : At(c) # None /\ Arc(At(c)) = e})
                          + Cardinality({i \in Iters : iter[i] # Closed /\ iter[i].list[1] = e})
             /\ state[e] = "dead" => refs[e] > 0
  <2>1. h.refs[e] = Cardinality(AtArc(at, e)) + Cardinality(OwnedBy(own, e)) /\ (h.state[e] = "dead" => h.refs[e] > 0)
    BY <1>3 DEF HeapInv, RefCounts
  <2>2. h.refs = refs /\ h.state = state
    BY <1>1 DEF Now
  <2>3. /\ {c \in Cursors : At(c) # None /\ Arc(At(c)) = e} = AtArc(at, e)
        /\ {i \in Iters : iter[i] # Closed /\ iter[i].list[1] = e} = OwnedBy(own, e)
    BY <1>7, <1>8
  <2> QED BY <2>1, <2>2, <2>3
<1> QED BY <1>6, <1>9 DEF CountsExact

\* Reference counts of links and addresses are exact at every step of every iteration and
\* erasure, so that nothing is deleted too early and nothing leaks.
THEOREM CountsStayExact == Spec => []CountsExact
<1>1. IInv => CountsExact
  BY CountsAreExact
<1> QED BY <1>1, ArcListsInvariant, PTL

\* The invariant implies the types.
LEMMA Typed ==
    ASSUME IInv
    PROVE  TypeOK
<1>1. PICK h, g, it, st, ph, ac, sl : Now(h, g, it, st, ph, ac, sl) /\ Inv(h, g, it, st, ph, ac, sl)
  BY Opened
<1>2. /\ h \in HeapType /\ g \in HintType /\ it \in [Iters -> IterType] /\ st \in [Agents -> Stack]
      /\ ph \in [Agents -> {"pre", "erase"}] /\ ac \in Agents \cup {None} /\ sl \in [Agents -> BOOLEAN]
      /\ HeapInv(h, g, AtOf(it, st), OwnerOf(it))
  BY <1>1 DEF Inv, HeapInv, ItersOK
<1>3. /\ list \in [ListIds -> Seq(Links)] /\ link \in [Links -> LinkType]
      /\ state \in [Elements -> {"live", "dead", "freed"}] /\ refs \in [Elements -> Int]
  BY <1>1, <1>2, HeapFields DEF Now
<1>4. (\A l \in Links : link[l].refcnt \in Nat) /\ (\A e \in Elements : refs[e] \in Nat)
  BY <1>1, <1>2, HeapFacts DEF Now
<1>5. link \in [Links -> [refcnt : Nat, dead : BOOLEAN]]
  <2>1. \A l \in Links : link[l] \in [refcnt : Nat, dead : BOOLEAN]
    BY <1>3, <1>4 DEF LinkType
  <2> QED BY <1>3, <2>1
<1>6. refs \in [Elements -> Nat]
  BY <1>3, <1>4
<1>7. hint \in [Arcs -> [Sides -> [el : Elements, at : Links] \cup {NoHint}]]
  BY <1>1, <1>2 DEF Now, HintType, Hint
<1>8. iter \in [Iters -> [list : ListIds, at : Links \cup {None}] \cup {Closed}]
  BY <1>1, <1>2 DEF Now, IterType
<1>9. stack \in [Agents -> Seq([el : Elements, pc : {"enter", "output", "input", "vetoed"}, at : Links \cup {None}])]
  BY <1>1, <1>2 DEF Now, Stack, Frame
<1>10. phase \in [Agents -> {"pre", "erase"}] /\ active \in Agents \cup {None} /\ slept \in [Agents -> BOOLEAN]
       /\ crash \in {"no", "freed", "depth"}
  BY <1>1, <1>2 DEF Now, IInv
<1> QED BY <1>3, <1>5, <1>6, <1>7, <1>8, <1>9, <1>10 DEF TypeOK

\* The invariant implies that the lists match the ends of the arcs.
LEMMA ListsMatch ==
    ASSUME IInv
    PROVE  ListsMatchArcs
<1>1. PICK h, g, it, st, ph, ac, sl : Now(h, g, it, st, ph, ac, sl) /\ Inv(h, g, it, st, ph, ac, sl)
  BY Opened
<1>2. PICK at, own : at = AtOf(it, st) /\ own = OwnerOf(it)
  OBVIOUS
<1>3. HeapInv(h, g, at, own) /\ EndsLive(h, g)
  BY <1>1, <1>2 DEF Inv
<1>4. h \in HeapType /\ g \in HintType /\ ListsOK(h) /\ Hinted(h, g)
  BY <1>3 DEF HeapInv
<1>5. ASSUME NEW L \in ListIds
      PROVE  {l \in ToSet(list[L]) : ~link[l].dead}
               = {hint[x][L[2]].at : x \in {y \in Arcs : hint[y][L[2]].el = L[1]}}
  <2>1. ASSUME NEW l \in ToSet(h.list[L]), ~h.link[l].dead
        PROVE  \E x \in Arcs : g[x][L[2]].el = L[1] /\ l = g[x][L[2]].at
    <3>1. g[l[1]][L[2]] = [el |-> L[1], at |-> l]
      BY <1>4, <2>1 DEF Hinted
    <3>2. l \in Links
      BY <1>4, HeapFields
    <3>3. l[1] \in Arcs
      BY <3>2, LinkShape
    <3> QED BY <3>1, <3>3
  <2>2. ASSUME NEW x \in Arcs, g[x][L[2]].el = L[1]
        PROVE  g[x][L[2]].at \in ToSet(h.list[L]) /\ ~h.link[g[x][L[2]].at].dead
    <3>1. L[2] \in Sides /\ L[1] # None /\ L = <<L[1], L[2]>>
      BY LinkShape
    <3>2. g[x][L[2]] # NoHint
      BY <2>2, <3>1 DEF NoHint
    <3> QED BY <1>4, <2>2, <3>1, <3>2 DEF Hinted
  <2>3. h.list = list /\ h.link = link /\ g = hint
    BY <1>1 DEF Now
  <2>4. ASSUME NEW l
        PROVE  l \in ToSet(list[L]) /\ ~link[l].dead <=> \E x \in Arcs : hint[x][L[2]].el = L[1] /\ l = hint[x][L[2]].at
    BY <2>1, <2>2, <2>3
  <2> QED BY <2>4
<1>6. ASSUME NEW x \in Arcs, NEW s \in Sides, hint[x][s] # NoHint
      PROVE  Arc(hint[x][s].at) = x /\ state[x] = "live"
  BY <1>1, <1>4, <1>6 DEF Hinted, Now, Arc
<1>7. ASSUME NEW l \in Links
      PROVE  Cardinality({L \in ListIds : l \in ToSet(list[L])}) = (IF link[l] = FreeLink THEN 0 ELSE 1)
  <2>1. /\ link[l].refcnt # 0 <=> \E L \in ListIds : l \in ToSet(list[L])
        /\ link[l].refcnt = 0 => link[l] = FreeLink
        /\ \A L, M \in ListIds : l \in ToSet(list[L]) /\ l \in ToSet(list[M]) => L = M
    BY <1>1, <1>4 DEF ListsOK, Now
  <2>2. CASE link[l] = FreeLink
    <3>1. link[l].refcnt = 0
      BY <2>2 DEF FreeLink
    <3>2. {L \in ListIds : l \in ToSet(list[L])} = {}
      BY <2>1, <3>1
    <3> QED BY <2>2, <3>2, FS_EmptySet
  <2>3. CASE link[l] # FreeLink
    <3>1. PICK L \in ListIds : l \in ToSet(list[L])
      BY <2>1, <2>3
    <3>2. {M \in ListIds : l \in ToSet(list[M])} = {L}
      BY <2>1, <3>1
    <3>3. Cardinality({L}) = 1
      BY FS_Singleton
    <3> QED BY <2>3, <3>2, <3>3
  <2> QED BY <2>2, <2>3
<1>8. \A L \in ListIds : IsInjective(list[L])
  BY <1>1, <1>4 DEF ListsOK, Now
<1>9. ASSUME NEW l \in Links, link[l] # FreeLink
      PROVE  state[Arc(l)] # "freed"
  <2>1. PICK L \in ListIds : l \in ToSet(h.list[L])
    BY <1>1, <1>4, <1>9 DEF ListsOK, Now
  <2>2. h.state[l[1]] # "freed"
    BY <1>3, <2>1, HeapFacts
  <2> QED BY <1>1, <2>2 DEF Arc, Now
<1>10. active = None =>
         \A x \in Arcs, s \in Sides : hint[x][s] # NoHint => state[hint[x][s].el] = "live"
  BY <1>1, <1>3 DEF EndsLive, Now
<1> QED BY <1>5, <1>6, <1>7, <1>8, <1>9, <1>10, Typed DEF ListsMatchArcs

\* Whatever iterators hold back, the live links of a list are those of the live arcs whose end
\* it belongs to, and no erasure leaves a live arc at a dead element.
THEOREM ListsStayMatched == Spec => []ListsMatchArcs
<1>1. IInv => ListsMatchArcs
  BY ListsMatch
<1> QED BY <1>1, ArcListsInvariant, PTL

\* An erasure that no handler has suspended uses no deleted memory, and __erase_el itself is
\* never nested deeper than there are elements.
THEOREM NothingFreedIsUsed == Spec => []CrashNeedsHandlerOrCycle
<1>1. IInv => CrashNeedsHandlerOrCycle
  BY DEF IInv, CrashNeedsHandlerOrCycle
<1> QED BY <1>1, ArcListsInvariant, PTL

-----------------------------------------------------------------------------
(***************************************************************************)
(* The refinement, on values: members and what is pending                  *)
(***************************************************************************)

\* What ArcSet sees of a heap h and iterators it.
MembersOf(h) == [L \in ListIds |-> {Arc(l) : l \in Live(h, L)}]
Over(it) == [i \in Iters |-> IF it[i].at = None THEN {} ELSE {it[i].list}]
PendingOf(h, it) == [i \in Iters |->
    IF it[i].at = None THEN {} ELSE {Arc(l) : l \in Behind(h, it[i].list, it[i].at)}]

\* A live link of a list is the one at which its arc hangs.
LEMMA LiveLinks ==
    ASSUME NEW h, NEW g, NEW at, NEW own, HeapInv(h, g, at, own), NEW L \in ListIds
    PROVE  /\ \A l \in Live(h, L) : /\ l \in Links /\ Arc(l) \in Arcs
                                    /\ g[Arc(l)][L[2]].el = L[1] /\ g[Arc(l)][L[2]].at = l
           /\ \A x \in Arcs : g[x][L[2]].el = L[1] =>
                /\ g[x][L[2]].at \in Live(h, L) /\ Arc(g[x][L[2]].at) = x
                /\ g[x][L[2]].at \in ToSet(h.list[L])
<1>1. h \in HeapType /\ g \in HintType /\ Hinted(h, g)
  BY DEF HeapInv
<1>2. ASSUME NEW l \in Live(h, L)
      PROVE  /\ l \in Links /\ Arc(l) \in Arcs
             /\ g[Arc(l)][L[2]].el = L[1] /\ g[Arc(l)][L[2]].at = l
  <2>1. l \in ToSet(h.list[L]) /\ ~h.link[l].dead
    BY DEF Live
  <2>2. l \in Links
    BY <1>1, <2>1, HeapFields
  <2>3. g[l[1]][L[2]] = [el |-> L[1], at |-> l]
    BY <1>1, <2>1 DEF Hinted
  <2> QED BY <2>2, <2>3, LinkShape DEF Arc
<1>3. ASSUME NEW x \in Arcs, g[x][L[2]].el = L[1]
      PROVE  /\ g[x][L[2]].at \in Live(h, L) /\ Arc(g[x][L[2]].at) = x
             /\ g[x][L[2]].at \in ToSet(h.list[L])
  <2>1. L[2] \in Sides /\ L[1] # None /\ L = <<L[1], L[2]>>
    BY LinkShape
  <2>2. g[x][L[2]] # NoHint
    BY <1>3, <2>1 DEF NoHint
  <2> QED BY <1>1, <1>3, <2>1, <2>2 DEF Hinted, Live, Arc
<1> QED BY <1>2, <1>3

\* An arc is a member of the list of the element it begins or ends at.
LEMMA MemberOf ==
    ASSUME NEW h, NEW g, NEW at, NEW own, HeapInv(h, g, at, own), NEW L \in ListIds, NEW a
    PROVE  a \in MembersOf(h)[L] <=> a \in Arcs /\ g[a][L[2]].el = L[1]
<1>1. a \in MembersOf(h)[L] <=> \E l \in Live(h, L) : a = Arc(l)
  BY DEF MembersOf
<1> QED BY <1>1, LiveLinks

\* An iterator has still to return the members whose links are behind its own.
LEMMA StillPending ==
    ASSUME NEW h, NEW g, NEW at, NEW own, HeapInv(h, g, at, own),
           NEW it, NEW i \in Iters, NEW L \in ListIds, NEW p, it[i].list = L, it[i].at = p, NEW a
    PROVE  a \in PendingOf(h, it)[i] <=>
             p # None /\ a \in MembersOf(h)[L] /\ Precedes(h.list[L], p, g[a][L[2]].at)
<1>1. a \in PendingOf(h, it)[i] <=> p # None /\ \E l \in Live(h, L) : Precedes(h.list[L], p, l) /\ a = Arc(l)
  BY DEF PendingOf, Behind
<1>2. a \in MembersOf(h)[L] <=> a \in Arcs /\ g[a][L[2]].el = L[1]
  BY MemberOf
<1>3. ASSUME NEW l \in Live(h, L), Precedes(h.list[L], p, l), a = Arc(l)
      PROVE  a \in MembersOf(h)[L] /\ Precedes(h.list[L], p, g[a][L[2]].at)
  BY <1>2, <1>3, LiveLinks
<1>4. ASSUME a \in MembersOf(h)[L], Precedes(h.list[L], p, g[a][L[2]].at)
      PROVE  \E l \in Live(h, L) : Precedes(h.list[L], p, l) /\ a = Arc(l)
  BY <1>2, <1>4, LiveLinks
<1> QED BY <1>1, <1>3, <1>4

\* An iterator that is over has nothing more to return.
LEMMA NothingPending ==
    ASSUME NEW h, NEW it, NEW i \in Iters, it[i].at = None
    PROVE  PendingOf(h, it)[i] = {} /\ Over(it)[i] = {}
BY DEF PendingOf, Over

\* Members depend on the hints of arcs only.
LEMMA MembersSame ==
    ASSUME NEW h, NEW h2, NEW g, NEW at, NEW at2, NEW own, NEW own2,
           HeapInv(h, g, at, own), HeapInv(h2, g, at2, own2)
    PROVE  MembersOf(h2) = MembersOf(h)
<1>1. \A L \in ListIds : Live(h2, L) = Live(h, L)
  BY LiveSame
<1> QED BY <1>1 DEF MembersOf

\* What is pending depends, besides, on the order of lists, which only removals disturb.
LEMMA OrderStays ==
    ASSUME NEW h, NEW h2, NEW g, NEW g2, NEW at, NEW at2, NEW own, NEW own2,
           HeapInv(h, g, at, own), HeapInv(h2, g2, at2, own2), Trimmed(h, h2),
           NEW L \in ListIds, NEW p \in ToSet(h2.list[L]),
           NEW a \in Arcs, g2[a][L[2]] = g[a][L[2]], g[a][L[2]].el = L[1]
    PROVE  Precedes(h2.list[L], p, g2[a][L[2]].at) <=> Precedes(h.list[L], p, g[a][L[2]].at)
<1>1. g2[a][L[2]].at \in ToSet(h2.list[L])
  BY LiveLinks
<1> QED BY <1>1 DEF Trimmed

\* An iterator that has not moved, in lists that have lost links: the same arcs are pending,
\* as long as they are members.
LEMMA PendingStays ==
    ASSUME NEW h, NEW h2, NEW g, NEW g2, NEW at, NEW at2, NEW own, NEW own2,
           HeapInv(h, g, at, own), HeapInv(h2, g2, at2, own2), Trimmed(h, h2), Shrinks(g, g2),
           NEW it, NEW it2, ItersOK(h2, it2), NEW i \in Iters, it2[i] = it[i], NEW a
    PROVE  a \in PendingOf(h2, it2)[i] <=>
             a \in PendingOf(h, it)[i] /\ a \in Arcs /\ g2[a][it[i].list[2]] = g[a][it[i].list[2]]
<1>1. CASE it[i].at = None
  BY <1>1, NothingPending
<1>2. CASE it[i].at # None
  <2>1. PICK L, p : L = it[i].list /\ p = it[i].at
    OBVIOUS
  <2>2. L \in ListIds /\ p \in ToSet(h2.list[L]) /\ p # None
    BY <1>2, <2>1, FrameFields DEF ItersOK
  <2>3. /\ a \in PendingOf(h, it)[i] <=> a \in MembersOf(h)[L] /\ Precedes(h.list[L], p, g[a][L[2]].at)
        /\ a \in PendingOf(h2, it2)[i] <=> a \in MembersOf(h2)[L] /\ Precedes(h2.list[L], p, g2[a][L[2]].at)
    BY <2>1, <2>2, StillPending
  <2>4. /\ a \in MembersOf(h)[L] <=> a \in Arcs /\ g[a][L[2]].el = L[1]
        /\ a \in MembersOf(h2)[L] <=> a \in Arcs /\ g2[a][L[2]].el = L[1]
    BY <2>2, MemberOf
  <2>5. L[2] \in Sides /\ L[1] # None
    BY <2>2, LinkShape
  <2>6. a \in Arcs /\ g2[a][L[2]].el = L[1] => g2[a][L[2]] = g[a][L[2]]
    BY <2>5 DEF Shrinks, NoHint
  <2>7. a \in Arcs /\ g2[a][L[2]] = g[a][L[2]] /\ g[a][L[2]].el = L[1] =>
          (Precedes(h2.list[L], p, g2[a][L[2]].at) <=> Precedes(h.list[L], p, g[a][L[2]].at))
    BY <2>2, OrderStays
  <2> QED BY <2>1, <2>3, <2>4, <2>6, <2>7
<1> QED BY <1>1, <1>2

\* A step that changes neither hints nor users' iterators shows them nothing.
LEMMA SameView ==
    ASSUME NEW h, NEW h2, NEW g, NEW at, NEW at2, NEW own, NEW own2,
           HeapInv(h, g, at, own), HeapInv(h2, g, at2, own2), Trimmed(h, h2),
           NEW it, ItersOK(h2, it)
    PROVE  MembersOf(h2) = MembersOf(h) /\ PendingOf(h2, it) = PendingOf(h, it)
<1>1. MembersOf(h2) = MembersOf(h)
  BY MembersSame
<1>2. ASSUME NEW i \in Iters
      PROVE  PendingOf(h2, it)[i] = PendingOf(h, it)[i]
  <2>1. \A a : a \in PendingOf(h2, it)[i] => a \in PendingOf(h, it)[i]
    BY PendingStays, ShrinksSame
  <2>2. ASSUME NEW a, a \in PendingOf(h, it)[i]
        PROVE  a \in PendingOf(h2, it)[i]
    <3>1. it[i].at # None
      BY <2>2, NothingPending
    <3>2. it[i].list \in ListIds
      BY <3>1, FrameFields DEF ItersOK
    <3>3. PICK L, p : L = it[i].list /\ p = it[i].at
      OBVIOUS
    <3>4. a \in MembersOf(h)[L]
      BY <2>2, <3>2, <3>3, StillPending
    <3>5. a \in Arcs
      BY <3>2, <3>3, <3>4, MemberOf
    <3> QED BY <2>2, <3>5, PendingStays, ShrinksSame
  <2> QED BY <2>1, <2>2
<1>3. PendingOf(h2, it) = PendingOf(h, it)
  BY <1>2 DEF PendingOf
<1> QED BY <1>1, <1>3

-----------------------------------------------------------------------------
(***************************************************************************)
(* The refinement: ArcSet's view of a step, and the erasure of an arc      *)
(***************************************************************************)

\* What ArcSet sees in a state, and in the next one.
LEMMA View ==
    ASSUME NEW h, NEW it, h = Heap, it = iter
    PROVE  members = MembersOf(h) /\ over = Over(it) /\ pending = PendingOf(h, it)
BY DEF members, over, pending, MembersOf, Over, PendingOf

\* And in the next one.
LEMMA NextView ==
    ASSUME NEW h, NEW it, h = Heap', it = iter'
    PROVE  members' = MembersOf(h) /\ over' = Over(it) /\ pending' = PendingOf(h, it)
BY DEF members, over, pending, MembersOf, Over, PendingOf

\* Before and after a step.
Step(h, g, it, at, own, h2, g2, it2, at2, own2) ==
    /\ h = Heap /\ g = hint /\ it = iter /\ h2 = Heap' /\ g2 = hint' /\ it2 = iter'
    /\ HeapInv(h, g, at, own) /\ HeapInv(h2, g2, at2, own2)
    /\ ItersOK(h, it) /\ ItersOK(h2, it2)

\* The invariant, of values, before and after a step.
LEMMA Stepped ==
    ASSUME IInv, IInv'
    PROVE  \E h, g, it, at, own, h2, g2, it2, at2, own2 : Step(h, g, it, at, own, h2, g2, it2, at2, own2)
<1>1. PICK h, g, it, at, own : h = Heap /\ g = hint /\ it = iter /\ at = AtOf(it, stack) /\ own = OwnerOf(it)
  OBVIOUS
<1>2. HeapInv(h, g, at, own) /\ ItersOK(h, it)
  BY <1>1 DEF IInv, Inv
<1>3. PICK h2, g2, it2, at2, own2 :
        h2 = Heap' /\ g2 = hint' /\ it2 = iter' /\ at2 = AtOf(it2, stack') /\ own2 = OwnerOf(it2)
  OBVIOUS
<1>4. HeapInv(h2, g2, at2, own2) /\ ItersOK(h2, it2)
  BY <1>3 DEF IInv, Inv
<1> QED BY <1>1, <1>2, <1>3, <1>4 DEF Step

\* A change of the arc x, member by member.
Changed(h, it, h2, it2, x, From, To) ==
    /\ \A L \in ListIds : \A a : a \in MembersOf(h2)[L] <=>
         (a \in MembersOf(h)[L] /\ ~(a = x /\ L \in From)) \/ (a = x /\ L \in To)
    /\ \A i \in Iters : \A a : a \in PendingOf(h2, it2)[i] <=>
         (a \in PendingOf(h, it)[i] /\ ~(a = x /\ Over(it)[i] \cap From # {})) \/ (a = x /\ Over(it)[i] \cap To # {})

\* A change of one arc, as ArcSet has it.
LEMMA ChangeView ==
    ASSUME NEW h, NEW g, NEW it, NEW at, NEW own, NEW h2, NEW g2, NEW it2, NEW at2, NEW own2,
           Step(h, g, it, at, own, h2, g2, it2, at2, own2), it2 = it,
           NEW x, NEW From, NEW To, Changed(h, it, h2, it2, x, From, To)
    PROVE  Abstract!Change(x, From, To)
<1>1. /\ members = MembersOf(h) /\ over = Over(it) /\ pending = PendingOf(h, it)
      /\ members' = MembersOf(h2) /\ over' = Over(it2) /\ pending' = PendingOf(h2, it2)
  BY View, NextView DEF Step
<1>2. over' = over
  BY <1>1
<1>3. members' = [L \in ListIds |-> (IF L \in From THEN members[L] \ {x} ELSE members[L])
                                    \cup (IF L \in To THEN {x} ELSE {})]
  <2>1. \A L \in ListIds : \A a : a \in members'[L] <=>
          (a \in members[L] /\ ~(a = x /\ L \in From)) \/ (a = x /\ L \in To)
    BY <1>1 DEF Changed
  <2>2. \A L \in ListIds : members'[L] = (IF L \in From THEN members[L] \ {x} ELSE members[L])
                                         \cup (IF L \in To THEN {x} ELSE {})
    BY <2>1
  <2>3. members' = [L \in ListIds |-> members'[L]]
    BY <1>1 DEF MembersOf
  <2> QED BY <2>2, <2>3
<1>4. pending' = [i \in Iters |-> (IF over[i] \cap From # {} THEN pending[i] \ {x} ELSE pending[i])
                                  \cup (IF over[i] \cap To # {} THEN {x} ELSE {})]
  <2>1. \A i \in Iters : \A a : a \in pending'[i] <=>
          (a \in pending[i] /\ ~(a = x /\ over[i] \cap From # {})) \/ (a = x /\ over[i] \cap To # {})
    BY <1>1 DEF Changed
  <2>2. \A i \in Iters : pending'[i] = (IF over[i] \cap From # {} THEN pending[i] \ {x} ELSE pending[i])
                                       \cup (IF over[i] \cap To # {} THEN {x} ELSE {})
    BY <2>1
  <2>3. pending' = [i \in Iters |-> pending'[i]]
    BY <1>1 DEF PendingOf
  <2> QED BY <2>2, <2>3
<1> QED BY <1>2, <1>3, <1>4 DEF Abstract!Change

\* Nothing that ArcSet sees.
LEMMA SilentStep ==
    ASSUME IInv, IInv', Trimmed(Heap, Heap'), UNCHANGED <<hint, iter>>
    PROVE  UNCHANGED <<members, over, pending>>
<1>1. PICK h, g, it, at, own, h2, g2, it2, at2, own2 : Step(h, g, it, at, own, h2, g2, it2, at2, own2)
  BY Stepped
<1>2. /\ HeapInv(h, g, at, own) /\ HeapInv(h2, g, at2, own2) /\ ItersOK(h2, it) /\ it2 = it
      /\ Trimmed(h, h2)
  BY <1>1 DEF Step
<1>3. MembersOf(h2) = MembersOf(h) /\ PendingOf(h2, it) = PendingOf(h, it)
  BY <1>2, SameView
<1>4. /\ members = MembersOf(h) /\ over = Over(it) /\ pending = PendingOf(h, it)
      /\ members' = MembersOf(h2) /\ over' = Over(it2) /\ pending' = PendingOf(h2, it2)
  BY <1>1, View, NextView DEF Step
<1> QED BY <1>2, <1>3, <1>4

\* Nor does a step that leaves heap and iterators alone.
LEMMA SameHeapStep ==
    ASSUME UNCHANGED <<heap, iter>>
    PROVE  UNCHANGED <<members, over, pending>>
<1>1. Heap' = Heap /\ iter' = iter
  BY DEF Heap, heap
<1>2. PICK h, it : h = Heap /\ it = iter
  OBVIOUS
<1>3. h = Heap' /\ it = iter'
  BY <1>1, <1>2
<1> QED BY <1>2, <1>3, View, NextView

\* The erased arc leaves all lists.
LEMMA ForgetsView ==
    ASSUME IInv, IInv', Trimmed(Heap, Heap'), iter' = iter,
           NEW x \in Arcs, hint' = [hint EXCEPT ![x] = [s \in Sides |-> NoHint]]
    PROVE  Abstract!Erase(x)
<1>1. PICK h, g, it, at, own, h2, g2, it2, at2, own2 : Step(h, g, it, at, own, h2, g2, it2, at2, own2)
  BY Stepped
<1>2. /\ HeapInv(h, g, at, own) /\ HeapInv(h2, g2, at2, own2) /\ ItersOK(h, it) /\ ItersOK(h2, it) /\ it2 = it
      /\ Trimmed(h, h2) /\ g \in HintType
  BY <1>1 DEF Step, HeapInv
<1>3. /\ \A s \in Sides : g2[x][s] = NoHint
      /\ \A y \in Arcs, s \in Sides : y # x => g2[y][s] = g[y][s]
  BY <1>1, <1>2 DEF Step, HintType
<1>4. Shrinks(g, g2) /\ NoHint.el = None
  BY <1>3 DEF Shrinks, NoHint
<1>5. ASSUME NEW L \in ListIds, NEW a
      PROVE  a \in MembersOf(h2)[L] <=> a \in MembersOf(h)[L] /\ a # x
  <2>1. L[2] \in Sides /\ L[1] # None
    BY LinkShape
  <2>2. /\ a \in MembersOf(h2)[L] <=> a \in Arcs /\ g2[a][L[2]].el = L[1]
        /\ a \in MembersOf(h)[L] <=> a \in Arcs /\ g[a][L[2]].el = L[1]
    BY <1>2, MemberOf
  <2>3. a \in Arcs /\ g2[a][L[2]].el = L[1] <=> a \in Arcs /\ g[a][L[2]].el = L[1] /\ a # x
    BY <1>3, <1>4, <2>1
  <2> QED BY <2>2, <2>3
<1>6. ASSUME NEW i \in Iters, NEW a
      PROVE  /\ a \in PendingOf(h2, it)[i] <=> a \in PendingOf(h, it)[i] /\ a # x
             /\ a \in PendingOf(h, it)[i] => Over(it)[i] # {} /\ Over(it)[i] \subseteq ListIds
  <2>1. a \in PendingOf(h2, it)[i] <=>
          a \in PendingOf(h, it)[i] /\ a \in Arcs /\ g2[a][it[i].list[2]] = g[a][it[i].list[2]]
    BY <1>2, <1>4, PendingStays
  <2>2. ASSUME a \in PendingOf(h, it)[i]
        PROVE  /\ a \in Arcs /\ g[a][it[i].list[2]] # NoHint /\ it[i].list[2] \in Sides
               /\ Over(it)[i] = {it[i].list} /\ it[i].list \in ListIds
    <3>1. it[i].at # None
      BY <2>2, NothingPending
    <3>2. it[i].list \in ListIds /\ Over(it)[i] = {it[i].list}
      BY <1>2, <3>1, FrameFields DEF ItersOK, Over
    <3>3. PICK L, p : L = it[i].list /\ p = it[i].at
      OBVIOUS
    <3>4. a \in MembersOf(h)[L]
      BY <1>2, <2>2, <3>2, <3>3, StillPending
    <3>5. a \in Arcs /\ g[a][L[2]].el = L[1] /\ L[1] # None /\ L[2] \in Sides
      BY <1>2, <3>2, <3>3, <3>4, MemberOf, LinkShape
    <3> QED BY <1>4, <3>2, <3>3, <3>5
  <2> QED BY <1>3, <2>1, <2>2
<1>7. Changed(h, it, h2, it2, x, ListIds, {})
  <2>1. \A i \in Iters : \A a : a \in PendingOf(h2, it2)[i] <=>
          a \in PendingOf(h, it)[i] /\ ~(a = x /\ Over(it)[i] \cap ListIds # {})
    BY <1>2, <1>6
  <2>2. \A L \in ListIds : \A a : a \in MembersOf(h2)[L] <=> a \in MembersOf(h)[L] /\ ~(a = x /\ L \in ListIds)
    BY <1>5
  <2> QED BY <2>1, <2>2 DEF Changed
<1>8. Abstract!Change(x, ListIds, {})
  BY <1>1, <1>2, <1>7, ChangeView
<1> QED BY <1>8 DEF Abstract!Erase

-----------------------------------------------------------------------------
(***************************************************************************)
(* The refinement: iterators                                               *)
(***************************************************************************)

\* What is pending for an iterator that the step leaves alone stays so.
LEMMA OtherPending ==
    ASSUME NEW h, NEW g, NEW it, NEW at, NEW own, NEW h2, NEW it2, NEW at2, NEW own2,
           HeapInv(h, g, at, own), HeapInv(h2, g, at2, own2), Trimmed(h, h2),
           ItersOK(h2, it2), NEW i \in Iters, it2[i] = it[i]
    PROVE  PendingOf(h2, it2)[i] = PendingOf(h, it)[i] /\ Over(it2)[i] = Over(it)[i]
<1>1. \A a : a \in PendingOf(h2, it2)[i] => a \in PendingOf(h, it)[i]
  BY PendingStays, ShrinksSame
<1>2. ASSUME NEW a, a \in PendingOf(h, it)[i]
      PROVE  a \in PendingOf(h2, it2)[i]
  <2>1. it[i].at # None
    BY <1>2, NothingPending
  <2>2. it[i].list \in ListIds
    BY <2>1, FrameFields DEF ItersOK
  <2>3. PICK L, p : L = it[i].list /\ p = it[i].at
    OBVIOUS
  <2>4. a \in MembersOf(h)[L]
    BY <1>2, <2>2, <2>3, StillPending
  <2>5. a \in Arcs
    BY <2>2, <2>3, <2>4, MemberOf
  <2> QED BY <1>2, <2>5, PendingStays, ShrinksSame
<1>3. Over(it2)[i] = Over(it)[i]
  BY DEF Over
<1> QED BY <1>1, <1>2, <1>3

\* Only iterator i has changed.
LEMMA OneIterator ==
    ASSUME NEW h, NEW g, NEW it, NEW at, NEW own, NEW h2, NEW it2, NEW at2, NEW own2,
           Step(h, g, it, at, own, h2, g, it2, at2, own2), Trimmed(h, h2),
           NEW i \in Iters, NEW v, it2 = Put(it, i, v)
    PROVE  /\ members' = members
           /\ \A P : pending' = [pending EXCEPT ![i] = P] <=> PendingOf(h2, it2)[i] = P
           /\ \A O : over' = [over EXCEPT ![i] = O] <=> Over(it2)[i] = O
<1>1. /\ HeapInv(h, g, at, own) /\ HeapInv(h2, g, at2, own2) /\ ItersOK(h, it) /\ ItersOK(h2, it2)
  BY DEF Step
<1>2. \A j \in Iters : j # i => it2[j] = it[j]
  BY <1>1 DEF ItersOK, Put
<1>3. \A j \in Iters : j # i => PendingOf(h2, it2)[j] = PendingOf(h, it)[j] /\ Over(it2)[j] = Over(it)[j]
  <2> SUFFICES ASSUME NEW j \in Iters, j # i
               PROVE  PendingOf(h2, it2)[j] = PendingOf(h, it)[j] /\ Over(it2)[j] = Over(it)[j]
    OBVIOUS
  <2>1. it2[j] = it[j]
    BY <1>2
  <2> QED BY <1>1, <2>1, OtherPending
<1>4. /\ members = MembersOf(h) /\ over = Over(it) /\ pending = PendingOf(h, it)
      /\ members' = MembersOf(h2) /\ over' = Over(it2) /\ pending' = PendingOf(h2, it2)
  BY View, NextView DEF Step
<1>5. MembersOf(h2) = MembersOf(h)
  BY <1>1, MembersSame
<1>6. PICK ov, ov2, pn, pn2 : ov = Over(it) /\ ov2 = Over(it2) /\ pn = PendingOf(h, it) /\ pn2 = PendingOf(h2, it2)
  OBVIOUS
<1>7. /\ ov = [j \in Iters |-> ov[j]] /\ ov2 = [j \in Iters |-> ov2[j]]
      /\ pn = [j \in Iters |-> pn[j]] /\ pn2 = [j \in Iters |-> pn2[j]]
  BY <1>6 DEF Over, PendingOf
<1>8. \A j \in Iters : j # i => pn2[j] = pn[j] /\ ov2[j] = ov[j]
  BY <1>3, <1>6
<1>9. /\ \A P : pn2 = [pn EXCEPT ![i] = P] <=> pn2[i] = P
      /\ \A O : ov2 = [ov EXCEPT ![i] = O] <=> ov2[i] = O
  BY <1>7, <1>8
<1> QED BY <1>4, <1>5, <1>6, <1>9

\* delete_iterator: ArcSet's iterator is closed.
LEMMA ClosesView ==
    ASSUME IInv, IInv', Trimmed(Heap, Heap'), hint' = hint,
           NEW i \in Iters, iter' = [iter EXCEPT ![i] = Closed]
    PROVE  Abstract!Close(i)
<1>1. PICK h, g, it, at, own, h2, g2, it2, at2, own2 : Step(h, g, it, at, own, h2, g2, it2, at2, own2)
  BY Stepped
<1>2. g2 = g /\ Trimmed(h, h2) /\ it2 = Put(it, i, Closed) /\ ItersOK(h, it)
  BY <1>1 DEF Step, Put
<1>3. it2[i].at = None
  BY <1>2, FrameFields DEF ItersOK, Put
<1>4. PendingOf(h2, it2)[i] = {} /\ Over(it2)[i] = {}
  BY <1>3, NothingPending
<1>5. members' = members /\ pending' = [pending EXCEPT ![i] = {}] /\ over' = [over EXCEPT ![i] = {}]
  <2>1. Step(h, g, it, at, own, h2, g, it2, at2, own2)
    BY <1>1, <1>2
  <2> QED BY <1>2, <1>4, <2>1, OneIterator
<1> QED BY <1>5 DEF Abstract!Close

\* The links of B are live and with every link the live ones behind it; the iterator moves
\* to the first of them: ArcSet's iterator returns its arc.
LEMMA MovesView ==
    ASSUME NEW h, NEW g, NEW it, NEW at, NEW own, NEW h2, NEW it2, NEW at2, NEW own2,
           Step(h, g, it, at, own, h2, g, it2, at2, own2), Trimmed(h, h2),
           NEW i \in Iters, NEW L \in ListIds, NEW B, NEW q, MovesTo(h, it, it2, i, L, B, q),
           B \subseteq Live(h, L),
           \A m \in B : \A n \in Live(h, L) : Precedes(h.list[L], m, n) => n \in B,
           NEW P, P = {Arc(l) : l \in B}
    PROVE  Abstract!Return(i, L, P)
<1>1. /\ HeapInv(h, g, at, own) /\ HeapInv(h2, g, at2, own2) /\ ItersOK(h, it) /\ ItersOK(h2, it2)
  BY DEF Step
<1>2. /\ it2 = Put(it, i, [list |-> L, at |-> q])
      /\ B = {} => q = None
      /\ B # {} => q \in B /\ \A n \in B \ {q} : Precedes(h.list[L], q, n)
  BY DEF MovesTo
<1>3. it2[i].list = L /\ it2[i].at = q
  BY <1>1, <1>2 DEF ItersOK, Put
<1>4. PICK v : v = [list |-> L, at |-> q] /\ it2 = Put(it, i, v)
  BY <1>2
<1>5. /\ members' = members
      /\ \A R : pending' = [pending EXCEPT ![i] = R] <=> PendingOf(h2, it2)[i] = R
      /\ \A O : over' = [over EXCEPT ![i] = O] <=> Over(it2)[i] = O
  <2>1. it2 = Put(it, i, v)
    BY <1>4
  <2> QED BY <2>1, OneIterator
<1>6. CASE B = {}
  <2>1. PendingOf(h2, it2)[i] = {} /\ Over(it2)[i] = {} /\ P = {}
    BY <1>2, <1>3, <1>6, NothingPending
  <2> QED BY <1>5, <2>1 DEF Abstract!Return
<1>7. CASE B # {}
  <2>1. q \in Live(h, L) /\ q \in B /\ q # None
    <3>1. q \in Links
      BY <1>1, <1>2, <1>7, LiveLinks
    <3> QED BY <1>2, <1>7, <3>1, LinkShape
  <2>2. Over(it2)[i] = {L}
    BY <1>3, <2>1 DEF Over
  <2>3. q \in ToSet(h2.list[L])
    BY <1>1, <1>3, <2>1 DEF ItersOK
  <2>4. PICK a : a = Arc(q)
    OBVIOUS
  <2>5. a \in Arcs /\ g[a][L[2]].el = L[1] /\ g[a][L[2]].at = q /\ a \in P
    BY <1>1, <2>1, <2>4, LiveLinks
  <2>6. PICK s : s = h.list[L]
    OBVIOUS
  <2>7. (\A m : ~Precedes(s, m, m))
    <3>1. s \in Seq(Links) /\ IsInjective(s)
      BY <1>1, <2>6, HeapFields DEF HeapInv, ListsOK
    <3> QED BY <3>1, Ordered
  <2>8. ASSUME NEW b
        PROVE  b \in PendingOf(h2, it2)[i] <=> b \in P /\ b # a
    <3>1. b \in PendingOf(h2, it2)[i] <=>
            b \in MembersOf(h2)[L] /\ Precedes(h2.list[L], q, g[b][L[2]].at)
      BY <1>1, <1>3, <2>1, StillPending
    <3>2. b \in MembersOf(h2)[L] <=> b \in Arcs /\ g[b][L[2]].el = L[1]
      BY <1>1, MemberOf
    <3>3. b \in Arcs /\ g[b][L[2]].el = L[1] =>
            (Precedes(h2.list[L], q, g[b][L[2]].at) <=> Precedes(s, q, g[b][L[2]].at))
      BY <1>1, <2>3, <2>6, OrderStays
    <3>4. ASSUME b \in Arcs, g[b][L[2]].el = L[1], Precedes(s, q, g[b][L[2]].at)
          PROVE  b \in P /\ b # a
      <4>1. g[b][L[2]].at \in Live(h, L) /\ Arc(g[b][L[2]].at) = b
        BY <1>1, <3>4, LiveLinks
      <4>2. g[b][L[2]].at \in B
        BY <2>1, <2>6, <3>4, <4>1
      <4>3. g[b][L[2]].at # q
        BY <2>7, <3>4
      <4> QED BY <2>5, <4>1, <4>2, <4>3
    <3>5. ASSUME b \in P, b # a
          PROVE  b \in Arcs /\ g[b][L[2]].el = L[1] /\ Precedes(s, q, g[b][L[2]].at)
      <4>1. PICK l \in B : b = Arc(l)
        BY <3>5
      <4>2. l # q
        BY <2>4, <3>5, <4>1
      <4>3. b \in Arcs /\ g[b][L[2]].el = L[1] /\ g[b][L[2]].at = l
        BY <1>1, <4>1, LiveLinks
      <4> QED BY <1>2, <1>7, <2>6, <4>1, <4>2, <4>3
    <3> QED BY <3>1, <3>2, <3>3, <3>4, <3>5
  <2>9. PendingOf(h2, it2)[i] = P \ {a}
    BY <2>8
  <2> QED BY <1>5, <2>2, <2>5, <2>9 DEF Abstract!Return
<1> QED BY <1>6, <1>7

\* create_iterator: ArcSet's iterator is opened and returns a member, if there is one.
LEMMA OpensView ==
    ASSUME IInv, NEW i \in Iters, NEW e \in Elements, NEW s \in Sides, create_iterator(i, e, s)
    PROVE  \E L \in ListIds : Abstract!Open(i, L)
<1>1. IInv' /\ Trimmed(Heap, Heap') /\ hint' = hint
  BY CreatesStep
<1>2. PICK h, g, it, at, own, h2, g2, it2, at2, own2 : Step(h, g, it, at, own, h2, g2, it2, at2, own2)
  BY <1>1, Stepped
<1>3. PICK L : L = <<e, s>> /\ L \in ListIds
  BY LinkShape
<1>4. PICK B, q : B = Live(h, L) /\ MovesTo(h, it, it2, i, L, B, q)
  <2>1. PICK C, p : C = Live(Heap, <<e, s>>) /\ MovesTo(Heap, iter, iter', i, <<e, s>>, C, p)
    BY CreatesStep
  <2>2. h = Heap /\ it = iter /\ it2 = iter'
    BY <1>2 DEF Step
  <2>3. C = Live(h, L) /\ MovesTo(h, it, it2, i, L, C, p)
    BY <1>3, <2>1, <2>2
  <2> QED BY <2>3
<1>5. g2 = g /\ Trimmed(h, h2) /\ Step(h, g, it, at, own, h2, g, it2, at2, own2)
  BY <1>1, <1>2 DEF Step
<1>6. members = MembersOf(h) /\ over = Over(it)
  BY <1>2, View DEF Step
<1>7. PICK P : P = {Arc(l) : l \in B}
  OBVIOUS
<1>8. members[L] = P
  BY <1>3, <1>4, <1>6, <1>7 DEF MembersOf
<1>9. Abstract!Return(i, L, P)
  <2>1. B \subseteq Live(h, L) /\ \A m \in B : \A n \in Live(h, L) : Precedes(h.list[L], m, n) => n \in B
    BY <1>4
  <2>2. L \in ListIds /\ MovesTo(h, it, it2, i, L, B, q)
    BY <1>3, <1>4
  <2> HIDE <1>3, <1>4
  <2> QED BY <1>5, <1>7, <2>1, <2>2, MovesView
<1>10. over[i] = {}
  <2>1. it[i] = Closed
    BY <1>2 DEF Step, create_iterator
  <2>2. Over(it)[i] = {}
    BY <2>1, FrameFields, NothingPending
  <2> QED BY <1>6, <2>2
<1> QED BY <1>3, <1>8, <1>9, <1>10 DEF Abstract!Open

\* next: ArcSet's iterator returns an arc that is pending, if there is one.
LEMMA AdvancesView ==
    ASSUME IInv, NEW i \in Iters, next(i)
    PROVE  Abstract!Advance(i)
<1>1. IInv' /\ Trimmed(Heap, Heap') /\ hint' = hint
  BY NextsStep
<1>2. PICK h, g, it, at, own, h2, g2, it2, at2, own2 : Step(h, g, it, at, own, h2, g2, it2, at2, own2)
  BY <1>1, Stepped
<1>3. PICK L, p : L = it[i].list /\ p = it[i].at
  OBVIOUS
<1>4. PICK B, q : B = Behind(h, L, p) /\ MovesTo(h, it, it2, i, L, B, q)
  <2>1. PICK C, r : C = Behind(Heap, iter[i].list, iter[i].at) /\ MovesTo(Heap, iter, iter', i, iter[i].list, C, r)
    BY NextsStep
  <2>2. h = Heap /\ it = iter /\ it2 = iter'
    BY <1>2 DEF Step
  <2>3. C = Behind(h, L, p) /\ MovesTo(h, it, it2, i, L, C, r)
    BY <1>3, <2>1, <2>2
  <2> QED BY <2>3
<1>5. Trimmed(h, h2) /\ HeapInv(h, g, at, own) /\ Step(h, g, it, at, own, h2, g, it2, at2, own2)
  BY <1>1, <1>2 DEF Step
<1>6. over = Over(it) /\ pending = PendingOf(h, it)
  BY <1>2, View DEF Step
<1>7. PICK P : P = {Arc(l) : l \in B}
  OBVIOUS
<1>8. p # None /\ L \in ListIds
  <2>1. p # None
    BY <1>2, <1>3 DEF Step, next
  <2> QED BY <1>2, <1>3, <2>1, FrameFields DEF Step, ItersOK
<1>9. over[i] = {L} /\ pending[i] = P
  BY <1>3, <1>4, <1>6, <1>7, <1>8 DEF Over, PendingOf
<1>10. Abstract!Return(i, L, P)
  <2>1. B \subseteq Live(h, L)
    BY <1>4 DEF Behind
  <2>2. \A m \in B : \A n \in Live(h, L) : Precedes(h.list[L], m, n) => n \in B
    <3>1. PICK s : s = h.list[L]
      OBVIOUS
    <3>2. s \in Seq(Links) /\ IsInjective(s)
      BY <1>5, <1>8, <3>1, HeapFields DEF HeapInv, ListsOK
    <3>3. \A a, b, c : Precedes(s, a, b) /\ Precedes(s, b, c) => Precedes(s, a, c)
      BY <3>2, Ordered
    <3> QED BY <1>4, <3>1, <3>3 DEF Behind
  <2>3. L \in ListIds /\ MovesTo(h, it, it2, i, L, B, q)
    BY <1>4, <1>8
  <2> HIDE <1>3, <1>4
  <2> QED BY <1>5, <1>7, <2>1, <2>2, <2>3, MovesView
<1> QED BY <1>9, <1>10 DEF Abstract!Advance

-----------------------------------------------------------------------------
(***************************************************************************)
(* The refinement: the ends of arcs                                        *)
(***************************************************************************)

\* The lists that an arc with hint v hangs in, on side s.
Left(v, s) == IF v = NoHint THEN {} ELSE {<<v.el, s>>}

\* An arc that gets an end: what iterators still have to return.
LEMMA AttachedPending ==
    ASSUME NEW h, NEW g, NEW it, NEW at, NEW own, NEW h2, NEW g2, NEW at2, NEW own2,
           HeapInv(h, g, at, own), HeapInv(h2, g2, at2, own2), ItersOK(h, it), ItersOK(h2, it),
           NEW x \in Arcs, NEW s \in Sides, NEW L \in ListIds, L[2] = s,
           NEW h1, NEW m, Attaches(h, g, it, h1, h2, g2, x, s, L, m), NEW i \in Iters, it[i].at # None, NEW a
    PROVE  a \in PendingOf(h2, it)[i] <=>
             (a \in PendingOf(h, it)[i] /\ ~(a = x /\ it[i].list \in Left(g[x][s], s)))
             \/ (a = x /\ it[i].list = L)
<1>1. /\ Trimmed(h, h1) /\ ItersOK(h1, it)
      /\ m \in Links /\ \A M \in ListIds : m \notin ToSet(h1.list[M])
      /\ h2.list[L] = Append(h1.list[L], m) /\ \A M \in ListIds \ {L} : h2.list[M] = h1.list[M]
      /\ g2[x][s].el = L[1] /\ g2[x][s].at = m
      /\ \A y \in Arcs, t \in Sides : y # x \/ t # s => g2[y][t] = g[y][t]
  BY DEF Attaches
<1>2. PICK g1, at1, own1 : g1 = PutHint(g, x, s, NoHint) /\ HeapInv(h1, g1, at1, own1)
  BY DEF Attaches
<1>3. g \in HintType /\ g1 \in HintType
  BY <1>2 DEF HeapInv
<1>4. /\ g1[x][s] = NoHint
      /\ \A y \in Arcs, t \in Sides : y # x \/ t # s => g1[y][t] = g[y][t]
  <2>1. NoHint \in Hint
    BY DEF Hint
  <2> QED BY <1>2, <1>3, <2>1, HintPut
<1>5. Shrinks(g, g1) /\ NoHint.el = None
  BY <1>4 DEF Shrinks, NoHint
<1>6. PICK K, p : K = it[i].list /\ p = it[i].at
  OBVIOUS
<1>7. K \in ListIds /\ p # None /\ p \in ToSet(h1.list[K]) /\ p \in ToSet(h2.list[K])
  BY <1>1, <1>6, FrameFields DEF ItersOK
<1>8. /\ a \in PendingOf(h, it)[i] <=> a \in MembersOf(h)[K] /\ Precedes(h.list[K], p, g[a][K[2]].at)
      /\ a \in PendingOf(h1, it)[i] <=> a \in MembersOf(h1)[K] /\ Precedes(h1.list[K], p, g1[a][K[2]].at)
      /\ a \in PendingOf(h2, it)[i] <=> a \in MembersOf(h2)[K] /\ Precedes(h2.list[K], p, g2[a][K[2]].at)
  BY <1>2, <1>6, <1>7, StillPending
<1>9. /\ a \in MembersOf(h)[K] <=> a \in Arcs /\ g[a][K[2]].el = K[1]
      /\ a \in MembersOf(h1)[K] <=> a \in Arcs /\ g1[a][K[2]].el = K[1]
      /\ a \in MembersOf(h2)[K] <=> a \in Arcs /\ g2[a][K[2]].el = K[1]
  BY <1>2, <1>7, MemberOf
<1>10. K[2] \in Sides /\ K[1] # None /\ K = <<K[1], K[2]>> /\ L = <<L[1], L[2]>>
  BY <1>7, LinkShape
<1>11. a \in PendingOf(h1, it)[i] <=> a \in PendingOf(h, it)[i] /\ a \in Arcs /\ g1[a][K[2]] = g[a][K[2]]
  <2>1. it[i] = it[i]
    OBVIOUS
  <2> QED BY <1>1, <1>2, <1>5, <1>6, PendingStays
<1>12. a \in PendingOf(h1, it)[i] <=> a \in PendingOf(h, it)[i] /\ ~(a = x /\ K \in Left(g[x][s], s))
  <2>1. CASE a # x \/ K[2] # s
    <3>1. a \in PendingOf(h, it)[i] => a \in Arcs
      BY <1>8, <1>9
    <3>2. a \in Arcs => g1[a][K[2]] = g[a][K[2]]
      BY <1>4, <1>10, <2>1
    <3>3. a = x => K \notin Left(g[x][s], s)
      BY <1>10, <2>1 DEF Left
    <3> QED BY <1>11, <3>1, <3>2, <3>3
  <2>2. CASE a = x /\ K[2] = s
    <3>1. PICK v : v = g[x][s]
      OBVIOUS
    <3>2. a \in PendingOf(h, it)[i] => v.el = K[1]
      BY <1>8, <1>9, <2>2, <3>1
    <3>3. v.el = K[1] => v # NoHint /\ K \in Left(v, s)
      BY <1>5, <1>10, <2>2 DEF Left
    <3>4. v # NoHint => a \notin PendingOf(h1, it)[i]
      BY <1>4, <1>11, <2>2, <3>1
    <3> QED BY <1>11, <2>2, <3>1, <3>2, <3>3, <3>4
  <2> QED BY <2>1, <2>2
<1>13. a \in PendingOf(h2, it)[i] <=> a \in PendingOf(h1, it)[i] \/ (a = x /\ K = L)
  <2>1. CASE K # L
    <3>1. h2.list[K] = h1.list[K]
      BY <1>1, <1>7, <2>1
    <3>2. CASE a = x /\ K[2] = s
      <4>1. g2[a][K[2]].el # K[1]
        BY <1>1, <1>10, <2>1, <3>2
      <4>2. g1[a][K[2]].el # K[1]
        BY <1>4, <1>5, <1>10, <3>2
      <4> QED BY <1>8, <1>9, <2>1, <4>1, <4>2
    <3>3. CASE a # x \/ K[2] # s
      <4>1. a \in Arcs => g2[a][K[2]] = g1[a][K[2]]
        BY <1>1, <1>4, <1>10, <3>3
      <4> QED BY <1>8, <1>9, <2>1, <3>1, <4>1
    <3> QED BY <3>2, <3>3
  <2>2. CASE K = L
    <3>1. PICK q, q2 : q = h1.list[L] /\ q2 = h2.list[L]
      OBVIOUS
    <3>2. q \in Seq(Links) /\ IsInjective(q) /\ m \in Links /\ m \notin ToSet(q) /\ q2 = Append(q, m)
      BY <1>1, <1>2, <3>1, HeapFields DEF HeapInv, ListsOK
    <3>3. /\ \A b, c \in ToSet(q) : Precedes(q2, b, c) <=> Precedes(q, b, c)
          /\ \A b \in ToSet(q) : Precedes(q2, b, m)
      <4>1. IsAppended(Links, q, m, q2)
        BY <3>2 DEF IsAppended
      <4> QED BY <4>1, AppendedOrder
    <3>4. p \in ToSet(q)
      BY <1>7, <2>2, <3>1
    <3>5. CASE a = x
      <4>1. Precedes(q2, p, m)
        BY <3>3, <3>4
      <4>2. g2[a][K[2]].el = K[1] /\ g2[a][K[2]].at = m
        BY <1>1, <2>2, <3>5
      <4> QED BY <1>8, <1>9, <2>2, <3>1, <3>5, <4>1, <4>2
    <3>6. CASE a # x
      <4>1. a \in Arcs => g2[a][K[2]] = g1[a][K[2]]
        BY <1>1, <1>4, <1>10, <3>6
      <4>2. a \in Arcs /\ g1[a][K[2]].el = K[1] => g1[a][K[2]].at \in ToSet(q)
        BY <1>2, <1>7, <2>2, <3>1, LiveLinks
      <4>3. a \in Arcs /\ g1[a][K[2]].el = K[1] =>
              (Precedes(h2.list[K], p, g1[a][K[2]].at) <=> Precedes(h1.list[K], p, g1[a][K[2]].at))
        BY <2>2, <3>1, <3>3, <3>4, <4>2
      <4> QED BY <1>8, <1>9, <3>6, <4>1, <4>3
    <3> QED BY <3>5, <3>6
  <2> QED BY <2>1, <2>2
<1> QED BY <1>6, <1>12, <1>13

\* set_side: an arc enters a list, or leaves one for another.
LEMMA AttachesView ==
    ASSUME IInv, NEW x \in Arcs, NEW s \in Sides, NEW e \in Elements, set_side(x, s, e)
    PROVE  \E L \in ListIds : Abstract!Enter(x, L) \/ \E K \in ListIds : Abstract!Repoint(x, K, L)
<1>1. IInv' /\ iter' = iter
  BY SetsSideStep
<1>2. PICK h, g, it, at, own, h2, g2, it2, at2, own2 : Step(h, g, it, at, own, h2, g2, it2, at2, own2)
  BY <1>1, Stepped
<1>0. PICK L : L = <<e, s>>
  OBVIOUS
<1>3. L = <<e, s>> /\ L \in ListIds /\ L[1] = e /\ L[2] = s
  BY <1>0, LinkShape
<1>4. PICK h1, m : Attaches(h, g, it, h1, h2, g2, x, s, L, m)
  <2>1. PICK hh, l : Attaches(Heap, hint, iter, hh, Heap', hint', x, s, <<e, s>>, l)
    BY SetsSideStep
  <2>2. h = Heap /\ g = hint /\ it = iter /\ h2 = Heap' /\ g2 = hint'
    BY <1>2 DEF Step
  <2>3. Attaches(h, g, it, hh, h2, g2, x, s, L, l)
    BY <1>3, <2>1, <2>2
  <2> QED BY <2>3
<1>5. it2 = it /\ HeapInv(h, g, at, own) /\ HeapInv(h2, g2, at2, own2) /\ ItersOK(h, it) /\ ItersOK(h2, it)
  BY <1>1, <1>2 DEF Step
<1>6. PICK From : From = Left(g[x][s], s)
  OBVIOUS
<1>7. ASSUME NEW M \in ListIds, NEW a
      PROVE  a \in MembersOf(h2)[M] <=> (a \in MembersOf(h)[M] /\ ~(a = x /\ M \in From)) \/ (a = x /\ M \in {L})
  <2>1. /\ a \in MembersOf(h)[M] <=> a \in Arcs /\ g[a][M[2]].el = M[1]
        /\ a \in MembersOf(h2)[M] <=> a \in Arcs /\ g2[a][M[2]].el = M[1]
    BY <1>5, MemberOf
  <2>2. M[2] \in Sides /\ M[1] # None /\ M = <<M[1], M[2]>>
    BY LinkShape
  <2>3. /\ g2[x][s].el = e
        /\ \A y \in Arcs, t \in Sides : y # x \/ t # s => g2[y][t] = g[y][t]
    BY <1>3, <1>4 DEF Attaches
  <2>4. CASE a # x \/ M[2] # s
    <3>1. a \in Arcs => g2[a][M[2]] = g[a][M[2]]
      BY <2>2, <2>3, <2>4
    <3>2. a = x => M \notin From /\ M # L
      BY <1>3, <1>6, <2>2, <2>4 DEF Left
    <3> QED BY <2>1, <3>1, <3>2
  <2>5. CASE a = x /\ M[2] = s
    <3>1. a \in MembersOf(h2)[M] <=> M = L
      BY <1>3, <2>1, <2>2, <2>3, <2>5
    <3>2. PICK v : v = g[x][s]
      OBVIOUS
    <3>3. a \in MembersOf(h)[M] => v.el = M[1]
      BY <2>1, <2>5, <3>2
    <3>4. v.el = M[1] => M \in From
      BY <1>6, <2>2, <2>5, <3>2 DEF Left, NoHint
    <3> QED BY <2>5, <3>1, <3>3, <3>4
  <2> QED BY <2>4, <2>5
<1>8. ASSUME NEW i \in Iters, NEW a
      PROVE  a \in PendingOf(h2, it2)[i] <=>
               (a \in PendingOf(h, it)[i] /\ ~(a = x /\ Over(it)[i] \cap From # {})) \/ (a = x /\ Over(it)[i] \cap {L} # {})
  <2>1. CASE it[i].at = None
    BY <1>5, <2>1, NothingPending
  <2>2. CASE it[i].at # None
    <3>1. Over(it)[i] = {it[i].list}
      BY <2>2 DEF Over
    <3>2. a \in PendingOf(h2, it)[i] <=>
            (a \in PendingOf(h, it)[i] /\ ~(a = x /\ it[i].list \in Left(g[x][s], s))) \/ (a = x /\ it[i].list = L)
      BY <1>3, <1>4, <1>5, <2>2, AttachedPending
    <3> QED BY <1>5, <1>6, <3>1, <3>2
  <2> QED BY <2>1, <2>2
<1>9. PICK To : To = {L}
  OBVIOUS
<1>10. Changed(h, it, h2, it2, x, From, To)
  BY <1>7, <1>8, <1>9 DEF Changed
<1>11. Abstract!Change(x, From, To)
  BY <1>2, <1>5, <1>10, ChangeView
<1>12. CASE g[x][s] = NoHint
  <2>1. From = {}
    BY <1>6, <1>12 DEF Left
  <2>2. Abstract!Enter(x, L)
    BY <1>9, <1>11, <2>1 DEF Abstract!Enter
  <2> QED BY <1>3, <2>2
<1>13. CASE g[x][s] # NoHint
  <2>1. PICK K : K = <<g[x][s].el, s>>
    OBVIOUS
  <2>2. g \in HintType
    BY <1>5 DEF HeapInv
  <2>3. g[x][s].el \in Elements
    BY <1>13, <2>2, HintShape
  <2>4. K \in ListIds /\ K[1] = g[x][s].el /\ K[2] = s
    BY <2>1, <2>3, LinkShape
  <2>5. From = {K}
    BY <1>6, <1>13, <2>1 DEF Left
  <2>6. x \in MembersOf(h)[K]
    BY <1>5, <2>4, MemberOf
  <2>7. x \in members[K]
    BY <1>2, <2>6, View DEF Step
  <2>8. Abstract!Repoint(x, K, L)
    BY <1>9, <1>11, <2>5, <2>7 DEF Abstract!Repoint
  <2> QED BY <1>3, <2>4, <2>8
<1> QED BY <1>12, <1>13

-----------------------------------------------------------------------------
(***************************************************************************)
(* The refinement                                                          *)
(***************************************************************************)

\* The end of an erasure deletes no link.
LEMMA FinishesSilently ==
    ASSUME IInv, NEW ag \in Agents, finish(ag)
    PROVE  UNCHANGED <<members, over, pending>>
<1>1. IInv'
  BY FinishesStep
<1>2. UNCHANGED <<hint, iter>> /\ SetHeap(Returned(ag, Heap))
  BY DEF finish
<1>3. PICK h, h2, x : h = Heap /\ h2 = Returned(ag, h) /\ x = Top(ag).el
  OBVIOUS
<1>4. h \in HeapType
  BY <1>3 DEF IInv, Inv, HeapInv
<1>5. h2 = die(h, x) \/ h2 = h
  BY <1>3 DEF Returned
<1>6. h2 \in HeapType /\ h2.list = h.list
  <2>1. CASE h2 = h
    BY <1>4, <2>1
  <2>2. CASE h2 = die(h, x)
    BY <1>4, <2>2 DEF die, HeapType
  <2> QED BY <1>5, <2>1, <2>2
<1>7. Heap' = h2
  <2>1. SetHeap(h2)
    BY <1>2, <1>3
  <2> QED BY <1>6, <2>1, HeapNext
<1>8. Trimmed(Heap, Heap')
  <2>1. Trimmed(h, h2)
    BY <1>6, TrimmedSame
  <2> QED BY <1>3, <1>7, <2>1
<1> QED BY <1>1, <1>2, <1>8, SilentStep

\* The erasure of an arc forgets both its ends at once; no other step of an erasure is one that
\* ArcSet sees.
LEMMA ForgetsOrSilent ==
    ASSUME IInv, NEW ag \in Agents, forget_ends(ag)
    PROVE  (\E x \in Arcs : Abstract!Erase(x)) \/ UNCHANGED <<members, over, pending>>
<1>1. IInv' /\ Trimmed(Heap, Heap')
  BY ForgetsEnds
<1>2. iter' = iter
  BY DEF forget_ends
<1>3. PICK x : x = Top(ag).el
  OBVIOUS
<1>4. CASE x \in Arcs /\ state[x] = "live"
  <2>1. hint' = [hint EXCEPT ![x] = [s \in Sides |-> NoHint]]
    BY <1>3, <1>4 DEF forget_ends
  <2>2. Abstract!Erase(x)
    BY <1>1, <1>2, <1>4, <2>1, ForgetsView
  <2> QED BY <1>4, <2>2
<1>5. CASE ~(x \in Arcs /\ state[x] = "live")
  <2>1. hint' = hint
    BY <1>3, <1>5 DEF forget_ends
  <2>2. UNCHANGED <<members, over, pending>>
    BY <1>1, <1>2, <2>1, SilentStep
  <2> QED BY <2>2
<1> QED BY <1>4, <1>5

\* Of the steps of an erasure ArcSet sees forget_ends alone.
LEMMA ErasingView ==
    ASSUME IInv, NEW ag \in Agents, Erasing(ag)
    PROVE  (\E x \in Arcs : Abstract!Erase(x)) \/ UNCHANGED <<members, over, pending>>
<1>1. CASE pre_suspend(ag) \/ pre_veto(ag) \/ recurse(ag) \/ use_freed(ag)
  <2>1. UNCHANGED <<heap, iter>>
    BY <1>1 DEF pre_suspend, pre_veto, recurse, use_freed
  <2>2. UNCHANGED <<members, over, pending>>
    BY <2>1, SameHeapStep
  <2> QED BY <2>2
<1>2. CASE return_true(ag) \/ pre_allow(ag) \/ iterate_input(ag) \/ return(ag)
  <2>1. UNCHANGED <<hint, iter>>
    BY <1>2 DEF return_true, pre_allow, iterate_input, return
  <2>2. IInv' /\ Trimmed(Heap, Heap')
    BY <1>2, ReturnsTrueStep, Allows, IteratesInput, ReturnsStep
  <2>3. UNCHANGED <<members, over, pending>>
    BY <2>1, <2>2, SilentStep
  <2> QED BY <2>3
<1>3. CASE finish(ag)
  BY <1>3, FinishesSilently
<1>4. CASE forget_ends(ag)
  BY <1>4, ForgetsOrSilent
<1> QED BY <1>1, <1>2, <1>3, <1>4 DEF Erasing

\* Nothing is connected and nothing iterated.
LEMMA StartsView ==
    ASSUME Init
    PROVE  Abstract!AInit
<1>1. \A L \in ListIds : list[L] = <<>>
  BY DEF Init
<1>2. \A i \in Iters : iter[i].at = None
  BY DEF Init, Closed
<1>3. \A L \in ListIds : Live(Heap, L) = {}
  BY <1>1 DEF Live, Heap, ToSet
<1>4. members = [L \in ListIds |-> {}]
  BY <1>3 DEF members
<1>5. over = [i \in Iters |-> {}] /\ pending = [i \in Iters |-> {}]
  BY <1>2 DEF over, pending
<1> QED BY <1>4, <1>5 DEF Abstract!AInit

\* Every step is one of ArcSet's, or none.
LEMMA ViewSteps ==
    ASSUME IInv, [Next]_vars
    PROVE  [Abstract!ANext]_<<members, over, pending>>
<1>1. ASSUME NEW x \in Arcs, NEW s \in Sides, NEW e \in Elements, set_side(x, s, e)
      PROVE  Abstract!ANext
  <2>1. PICK L \in ListIds : Abstract!Enter(x, L) \/ \E K \in ListIds : Abstract!Repoint(x, K, L)
    BY <1>1, AttachesView
  <2> QED BY <2>1 DEF Abstract!ANext
<1>2. ASSUME NEW i \in Iters, next(i)
      PROVE  Abstract!ANext
  <2>1. Abstract!Advance(i)
    BY <1>2, AdvancesView
  <2> QED BY <2>1 DEF Abstract!ANext
<1>3. ASSUME NEW i \in Iters, delete_iterator(i)
      PROVE  Abstract!ANext
  <2>1. IInv' /\ Trimmed(Heap, Heap')
    BY <1>3, DeletesStep
  <2>2. hint' = hint /\ iter' = [iter EXCEPT ![i] = Closed]
    BY <1>3 DEF delete_iterator
  <2>3. Abstract!Close(i)
    BY <2>1, <2>2, ClosesView
  <2> QED BY <2>3 DEF Abstract!ANext
<1>4. ASSUME NEW i \in Iters, NEW e \in Elements, NEW s \in Sides, create_iterator(i, e, s)
      PROVE  Abstract!ANext
  <2>1. PICK L \in ListIds : Abstract!Open(i, L)
    BY <1>4, OpensView
  <2> QED BY <2>1 DEF Abstract!ANext
<1>5. ASSUME NEW ag \in Agents, resume(ag) \/ \E e \in Elements : erase_el(ag, e)
      PROVE  UNCHANGED <<members, over, pending>>
  <2>1. UNCHANGED <<heap, iter>>
    BY <1>5 DEF resume, erase_el
  <2> QED BY <2>1, SameHeapStep
<1>6. ASSUME NEW ag \in Agents, Erasing(ag)
      PROVE  [Abstract!ANext]_<<members, over, pending>>
  <2>1. (\E x \in Arcs : Abstract!Erase(x)) \/ UNCHANGED <<members, over, pending>>
    BY <1>6, ErasingView
  <2>2. ASSUME NEW x \in Arcs, Abstract!Erase(x) PROVE Abstract!ANext
    BY <2>2 DEF Abstract!ANext
  <2> QED BY <2>1, <2>2
<1>7. CASE UNCHANGED vars
  <2>1. UNCHANGED <<heap, iter>>
    BY <1>7 DEF vars, heap
  <2>2. UNCHANGED <<members, over, pending>>
    BY <2>1, SameHeapStep
  <2> QED BY <2>2
<1>8. CASE Next
  BY <1>1, <1>2, <1>3, <1>4, <1>5, <1>6, <1>8 DEF Next
<1> QED BY <1>7, <1>8

\* The lists, whose dead links are skipped and outlive what iterators stand at, implement the sets
\* of arcs that a user may expect (ImplementsArcSet): whatever is erased and re-linked while they
\* run, iterators return each arc that is to be returned, once, and no other.
THEOREM ListsImplementSets == Spec => ImplementsArcSet
<1>1. Init => Abstract!AInit
  BY StartsView
<1>2. IInv /\ [Next]_vars => [Abstract!ANext]_(Abstract!avars)
  BY ViewSteps DEF Abstract!avars
<1> QED BY <1>1, <1>2, ArcListsInvariant, PTL DEF Spec, ImplementsArcSet, Abstract!ASpec
=============================================================================
