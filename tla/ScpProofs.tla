----------------------------- MODULE ScpProofs -----------------------------
(***************************************************************************)
(* Proofs about the processes of the SCP interpreter, for any set of       *)
(* processes, lists of any length and any sequence of debugger's commands. *)
(***************************************************************************)
EXTENDS ScpProcesses, FiniteSetTheorems, SequenceTheorems, TLAPS

-----------------------------------------------------------------------------
(***************************************************************************)
(* Lists                                                                   *)
(***************************************************************************)

\* The places of q that are kept, and the position of one of them among them.
Kept(q, p) == {i \in DOMAIN q : q[i] # p}
Rank(K, i) == Cardinality({j \in K : j <= i})

\* The kept places are numbered through: there is exactly one k-th place.
LEMMA Ranks ==
    ASSUME NEW n \in Nat, NEW K \in SUBSET (1 .. n)
    PROVE  /\ IsFiniteSet(K) /\ Cardinality(K) \in Nat /\ Cardinality(K) <= n
           /\ \A i \in K : Rank(K, i) \in 1 .. Cardinality(K)
           /\ \A i, j \in K : Rank(K, i) = Rank(K, j) => i = j
           /\ \A k \in 1 .. Cardinality(K) : \E i \in K : Rank(K, i) = k
<1>1. IsFiniteSet(K) /\ Cardinality(K) \in Nat /\ Cardinality(K) <= n
  <2>1. IsFiniteSet(1 .. n) /\ Cardinality(1 .. n) = n
    BY FS_Interval
  <2>. QED BY <2>1, FS_Subset, FS_CardinalityType
<1>2. ASSUME NEW i \in K
      PROVE  /\ IsFiniteSet({j \in K : j <= i})
             /\ Rank(K, i) \in 1 .. Cardinality(K)
  <2>. DEFINE I == {j \in K : j <= i}
  <2>1. I \in SUBSET K /\ i \in I
    OBVIOUS
  <2>. HIDE DEF I
  <2>2. IsFiniteSet(I) /\ Cardinality(I) <= Cardinality(K) /\ Cardinality(I) \in Nat
    BY <1>1, <2>1, FS_Subset, FS_CardinalityType
  <2>3. Cardinality(I) # 0
    BY <2>1, <2>2, FS_EmptySet
  <2>4. Cardinality(I) \in 1 .. Cardinality(K)
    BY <1>1, <2>2, <2>3
  <2>. QED BY <2>2, <2>4 DEF Rank, I
<1>3. ASSUME NEW i \in K, NEW j \in K, i < j
      PROVE  Rank(K, i) < Rank(K, j)
  <2>. DEFINE I == {m \in K : m <= i}
              J == {m \in K : m <= j}
  <2>0. K \subseteq Int
    OBVIOUS
  <2>1. I \in SUBSET J /\ j \in J /\ j \notin I
    <3>1. i \in Int /\ j \in Int /\ \A m \in K : m \in Int
      BY <2>0
    <3>2. \A m \in K : m <= i => m <= j
      BY <1>3, <3>1
    <3>3. j <= j /\ ~(j <= i)
      BY <1>3, <3>1
    <3>. QED BY <3>2, <3>3
  <2>2. IsFiniteSet(J) /\ Cardinality(I) \in Nat /\ Cardinality(J) \in Nat
    BY <1>2, FS_CardinalityType
  <2>. HIDE DEF I, J
  <2>3. Cardinality(I) <= Cardinality(J) /\ Cardinality(I) # Cardinality(J)
    BY <2>1, <2>2, FS_Subset
  <2>4. Cardinality(I) < Cardinality(J)
    BY <2>2, <2>3
  <2>. QED BY <2>4 DEF Rank, I, J
<1>4. \A i, j \in K : Rank(K, i) = Rank(K, j) => i = j
  <2>. SUFFICES ASSUME NEW i \in K, NEW j \in K, Rank(K, i) = Rank(K, j), i # j
                PROVE  FALSE
    OBVIOUS
  <2>1. Rank(K, i) \in Int /\ Rank(K, j) \in Int
    <3>1. Rank(K, i) \in 1 .. Cardinality(K) /\ Rank(K, j) \in 1 .. Cardinality(K)
      BY <1>2
    <3>. QED BY <1>1, <3>1
  <2>2. i < j \/ j < i
    OBVIOUS
  <2>. QED BY <1>3, <2>1, <2>2
<1>5. ASSUME NEW k \in 1 .. Cardinality(K)
      PROVE  \E i \in K : Rank(K, i) = k
  <2>. DEFINE f == [i \in K |-> Rank(K, i)]
              N == 1 .. Cardinality(K)
  <2>1. f \in Injection(K, N)
    BY <1>2, <1>4 DEF Injection, IsInjective
  <2>2. IsFiniteSet(N) /\ Cardinality(N) = Cardinality(K)
    BY <1>1, FS_Interval
  <2>3. f \in Surjection(K, N)
    BY <2>1, <2>2, FS_Injection
  <2>. QED BY <2>3 DEF Surjection
<1>. QED BY <1>1, <1>2, <1>4, <1>5

\* What Drop does: every other entry stays, and they stay in their order as far
\* as the first of them is concerned.
LEMMA Dropped ==
    ASSUME NEW S, NEW q \in Seq(S), NEW p
    PROVE  /\ Drop(q, p) \in Seq(S)
           /\ Len(Drop(q, p)) <= Len(q)
           /\ ToSet(Drop(q, p)) = ToSet(q) \ {p}
           /\ IsInjective(q) => IsInjective(Drop(q, p))
           /\ q # <<>> /\ Head(q) # p
                => Drop(q, p) # <<>> /\ Head(Drop(q, p)) = Head(q)
<1>. DEFINE K == Kept(q, p)
            n == Cardinality(K)
            nth(k) == CHOOSE i \in K : Rank(K, i) = k
<1>0. Len(q) \in Nat /\ DOMAIN q = 1 .. Len(q) /\ \A i \in 1 .. Len(q) : q[i] \in S
  OBVIOUS
<1>1. K \in SUBSET (1 .. Len(q)) /\ \A i \in 1 .. Len(q) : i \in K <=> q[i] # p
  BY <1>0 DEF Kept
<1>2. Drop(q, p) = [k \in 1 .. n |-> q[nth(k)]]
  BY DEF Drop, Kept, Rank
<1>. HIDE DEF K
<1>3. /\ n \in Nat /\ n <= Len(q)
      /\ \A i \in K : Rank(K, i) \in 1 .. n
      /\ \A i, j \in K : Rank(K, i) = Rank(K, j) => i = j
      /\ \A k \in 1 .. n : \E i \in K : Rank(K, i) = k
  BY <1>0, <1>1, Ranks
<1>4. \A k \in 1 .. n : nth(k) \in K /\ Rank(K, nth(k)) = k
  BY <1>3
<1>5. \A i \in K : nth(Rank(K, i)) = i
  BY <1>3, <1>4
<1>. HIDE DEF n, nth
<1>6. \A k \in 1 .. n : nth(k) \in 1 .. Len(q) /\ q[nth(k)] \in S /\ q[nth(k)] # p
  BY <1>0, <1>1, <1>4
<1>7. Drop(q, p) \in Seq(S) /\ Len(Drop(q, p)) = n /\ DOMAIN Drop(q, p) = 1 .. n
  BY <1>2, <1>3, <1>6
<1>8. ToSet(Drop(q, p)) = ToSet(q) \ {p}
  <2>1. ASSUME NEW x \in ToSet(q) \ {p}
        PROVE  x \in ToSet(Drop(q, p))
    <3>1. PICK i \in 1 .. Len(q) : x = q[i]
      BY <1>0 DEF ToSet
    <3>2. i \in K
      BY <1>1, <2>1, <3>1
    <3>3. Rank(K, i) \in 1 .. n /\ Drop(q, p)[Rank(K, i)] = x
      BY <1>2, <1>3, <1>5, <3>1, <3>2
    <3>. QED BY <1>7, <3>3 DEF ToSet
  <2>2. ToSet(Drop(q, p)) \subseteq ToSet(q) \ {p}
    BY <1>0, <1>2, <1>6, <1>7 DEF ToSet
  <2>. QED BY <2>1, <2>2
<1>9. IsInjective(q) => IsInjective(Drop(q, p))
  <2>1. SUFFICES ASSUME IsInjective(q), NEW k \in 1 .. n, NEW m \in 1 .. n,
                        Drop(q, p)[k] = Drop(q, p)[m]
                 PROVE  k = m
    BY <1>7 DEF IsInjective
  <2>2. nth(k) = nth(m)
    BY <1>0, <1>2, <1>6, <2>1 DEF IsInjective
  <2>. QED BY <1>4, <2>2
<1>10. ASSUME q # <<>>, Head(q) # p
       PROVE  Drop(q, p) # <<>> /\ Head(Drop(q, p)) = Head(q)
  <2>1. Head(q) = q[1] /\ 1 \in 1 .. Len(q)
    BY <1>0, <1>10
  <2>2. 1 \in K
    BY <1>1, <1>10, <2>1
  <2>3. {j \in K : j <= 1} = {1}
    <3>1. \A j \in K : j \in Int /\ 1 <= j
      BY <1>0, <1>1
    <3>2. \A j \in K : j <= 1 <=> j = 1
      BY <3>1
    <3>. QED BY <2>2, <3>2
  <2>4. Rank(K, 1) = 1
    BY <2>3, FS_Singleton DEF Rank
  <2>5. nth(1) = 1 /\ 1 \in 1 .. n
    BY <1>3, <1>5, <2>2, <2>4
  <2>6. Drop(q, p)[1] = q[1]
    BY <1>2, <2>5
  <2>. QED BY <1>7, <2>1, <2>5, <2>6
<1>. QED BY <1>3, <1>7, <1>8, <1>9, <1>10

\* The order in which a finite set is put into the list does not matter: each
\* member is there once.
LEMMA Listed ==
    ASSUME NEW S, IsFiniteSet(S)
    PROVE  /\ SetToSeq(S) \in Seq(S)
           /\ ToSet(SetToSeq(S)) = S
           /\ IsInjective(SetToSeq(S))
<1>. DEFINE n == Cardinality(S)
            I == 1 .. n
<1>1. n \in Nat /\ ExistsBijection(I, S) /\ IsFiniteSet(I) /\ Cardinality(I) = n
  BY FS_CardinalityType, FS_Interval
<1>2. \E f \in [I -> S] : IsInjective(f)
  BY <1>1 DEF ExistsBijection, Bijection, Injection
<1>3. SetToSeq(S) \in [I -> S] /\ IsInjective(SetToSeq(S))
  BY <1>2 DEF SetToSeq
<1>4. SetToSeq(S) \in Surjection(I, S)
  <2>1. SetToSeq(S) \in Injection(I, S)
    BY <1>3 DEF Injection
  <2>. HIDE DEF I
  <2>. QED BY <1>1, <2>1, FS_Injection
<1>5. SetToSeq(S) \in Seq(S)
  BY <1>1, <1>3
<1>6. ToSet(SetToSeq(S)) = S
  BY <1>3, <1>4 DEF ToSet, Surjection
<1>. QED BY <1>3, <1>5, <1>6
-----------------------------------------------------------------------------
(***************************************************************************)
(* The scheduler's list and sleepers                                       *)
(***************************************************************************)

\* Every process of L is once in q or in a.
Sched(q, a, L) ==
    /\ q \in Seq(Procs) /\ IsInjective(q)
    /\ ToSet(q) \cap a = {} /\ ToSet(q) \cup a = L

\* The first of a list, and the others.
LEMMA HeadAndTail ==
    ASSUME NEW q \in Seq(Procs), q # <<>>
    PROVE  /\ Head(q) \in Procs /\ Head(q) \in ToSet(q) /\ Tail(q) \in Seq(Procs)
           /\ IsInjective(q) => /\ IsInjective(Tail(q))
                                /\ ToSet(Tail(q)) = ToSet(q) \ {Head(q)}
<1>1. /\ Len(q) \in Nat \ {0} /\ DOMAIN q = 1 .. Len(q) /\ Head(q) = q[1]
      /\ Tail(q) \in Seq(Procs) /\ DOMAIN Tail(q) = 1 .. Len(q) - 1
      /\ \A i \in 1 .. Len(q) - 1 : Tail(q)[i] = q[i + 1]
  OBVIOUS
<1>2. Head(q) \in Procs /\ Head(q) \in ToSet(q)
  BY <1>1 DEF ToSet
<1>3. ASSUME IsInjective(q)
      PROVE  IsInjective(Tail(q)) /\ ToSet(Tail(q)) = ToSet(q) \ {Head(q)}
  <2>1. IsInjective(Tail(q))
    BY <1>1, <1>3 DEF IsInjective
  <2>2. ASSUME NEW x \in ToSet(q) \ {Head(q)}
        PROVE  x \in ToSet(Tail(q))
    <3>1. PICK i \in 1 .. Len(q) : x = q[i]
      BY <1>1 DEF ToSet
    <3>2. i - 1 \in 1 .. Len(q) - 1 /\ Tail(q)[i - 1] = x
      BY <1>1, <2>2, <3>1
    <3>. QED BY <1>1, <3>2 DEF ToSet
  <2>3. ToSet(Tail(q)) \subseteq ToSet(q) \ {Head(q)}
    BY <1>1, <1>3 DEF ToSet, IsInjective
  <2>. QED BY <2>1, <2>2, <2>3
<1>. QED BY <1>1, <1>2, <1>3

\* A process is put behind a list that it is not in.
LEMMA PutBehind ==
    ASSUME NEW q \in Seq(Procs), IsInjective(q), NEW p \in Procs, p \notin ToSet(q)
    PROVE  /\ Append(q, p) \in Seq(Procs) /\ IsInjective(Append(q, p))
           /\ ToSet(Append(q, p)) = ToSet(q) \cup {p}
<1>1. /\ Len(q) \in Nat /\ DOMAIN q = 1 .. Len(q)
      /\ Append(q, p) \in Seq(Procs)
      /\ DOMAIN Append(q, p) = 1 .. Len(q) + 1
      /\ \A i \in 1 .. Len(q) : Append(q, p)[i] = q[i]
      /\ Append(q, p)[Len(q) + 1] = p
  OBVIOUS
<1>2. IsInjective(Append(q, p))
  BY <1>1 DEF IsInjective, ToSet
<1>3. ToSet(Append(q, p)) = ToSet(q) \cup {p}
  BY <1>1 DEF ToSet
<1>. QED BY <1>1, <1>2, <1>3

\* Two lists without a common process, one behind the other.
LEMMA Joined ==
    ASSUME NEW q \in Seq(Procs), NEW r \in Seq(Procs), IsInjective(q), IsInjective(r),
           ToSet(q) \cap ToSet(r) = {}
    PROVE  /\ q \o r \in Seq(Procs) /\ IsInjective(q \o r)
           /\ ToSet(q \o r) = ToSet(q) \cup ToSet(r)
<1>1. /\ Len(q) \in Nat /\ DOMAIN q = 1 .. Len(q)
      /\ Len(r) \in Nat /\ DOMAIN r = 1 .. Len(r)
      /\ q \o r \in Seq(Procs)
      /\ DOMAIN (q \o r) = 1 .. Len(q) + Len(r)
      /\ \A i \in 1 .. Len(q) + Len(r) :
           (q \o r)[i] = IF i <= Len(q) THEN q[i] ELSE r[i - Len(q)]
  BY ConcatProperties
<1>2. ASSUME NEW i \in 1 .. Len(q) + Len(r), NEW j \in 1 .. Len(q) + Len(r),
             (q \o r)[i] = (q \o r)[j]
      PROVE  i = j
  <2>1. /\ \A k \in 1 .. Len(q), m \in 1 .. Len(q) : q[k] = q[m] => k = m
        /\ \A k \in 1 .. Len(r), m \in 1 .. Len(r) : r[k] = r[m] => k = m
        /\ \A k \in 1 .. Len(q), m \in 1 .. Len(r) : q[k] # r[m]
    <3>1. \A k \in 1 .. Len(q), m \in 1 .. Len(q) : q[k] = q[m] => k = m
      BY <1>1 DEF IsInjective
    <3>2. \A k \in 1 .. Len(r), m \in 1 .. Len(r) : r[k] = r[m] => k = m
      BY <1>1 DEF IsInjective
    <3>3. \A k \in 1 .. Len(q), m \in 1 .. Len(r) : q[k] # r[m]
      <4>1. \A k \in 1 .. Len(q) : q[k] \in ToSet(q)
        BY <1>1 DEF ToSet
      <4>2. \A m \in 1 .. Len(r) : r[m] \in ToSet(r)
        BY <1>1 DEF ToSet
      <4>. QED BY <4>1, <4>2
    <3>. QED BY <3>1, <3>2, <3>3
  <2>2. CASE i <= Len(q) /\ j <= Len(q)
    <3>1. i \in 1 .. Len(q) /\ j \in 1 .. Len(q) /\ q[i] = q[j]
      BY <1>1, <1>2, <2>2
    <3>. QED BY <2>1, <3>1
  <2>3. CASE ~(i <= Len(q)) /\ ~(j <= Len(q))
    <3>1. /\ i - Len(q) \in 1 .. Len(r) /\ j - Len(q) \in 1 .. Len(r)
          /\ r[i - Len(q)] = r[j - Len(q)]
      BY <1>1, <1>2, <2>3
    <3>2. i - Len(q) = j - Len(q)
      BY <2>1, <3>1
    <3>. QED BY <1>1, <3>2
  <2>4. CASE i <= Len(q) /\ ~(j <= Len(q))
    <3>1. i \in 1 .. Len(q) /\ j - Len(q) \in 1 .. Len(r) /\ q[i] = r[j - Len(q)]
      BY <1>1, <1>2, <2>4
    <3>. QED BY <2>1, <3>1
  <2>5. CASE ~(i <= Len(q)) /\ j <= Len(q)
    <3>1. j \in 1 .. Len(q) /\ i - Len(q) \in 1 .. Len(r) /\ q[j] = r[i - Len(q)]
      BY <1>1, <1>2, <2>5
    <3>. QED BY <2>1, <3>1
  <2>. QED BY <2>2, <2>3, <2>4, <2>5
<1>3. IsInjective(q \o r)
  BY <1>1, <1>2 DEF IsInjective
<1>4. ASSUME NEW x \in ToSet(r)
      PROVE  x \in ToSet(q \o r)
  <2>1. PICK i \in 1 .. Len(r) : x = r[i]
    BY <1>1 DEF ToSet
  <2>2. Len(q) + i \in 1 .. Len(q) + Len(r) /\ (q \o r)[Len(q) + i] = x
    BY <1>1, <2>1
  <2>. QED BY <1>1, <2>2 DEF ToSet
<1>5. ASSUME NEW x \in ToSet(q)
      PROVE  x \in ToSet(q \o r)
  <2>1. PICK i \in 1 .. Len(q) : x = q[i]
    BY <1>1 DEF ToSet
  <2>2. i \in 1 .. Len(q) + Len(r) /\ (q \o r)[i] = x
    BY <1>1, <2>1
  <2>. QED BY <1>1, <2>2 DEF ToSet
<1>6. ToSet(q \o r) \subseteq ToSet(q) \cup ToSet(r)
  BY <1>1 DEF ToSet
<1>. QED BY <1>1, <1>3, <1>4, <1>5, <1>6

\* The first process is put to the end, or goes to sleep.
LEMMA HeadMoves ==
    ASSUME NEW q, NEW a, NEW L, Sched(q, a, L), q # <<>>
    PROVE  /\ Head(q) \in Procs /\ Head(q) \in L /\ Head(q) \notin a
           /\ Sched(Append(Tail(q), Head(q)), a, L)
           /\ Sched(Tail(q), a \cup {Head(q)}, L)
<1>1. /\ Head(q) \in Procs /\ Head(q) \in ToSet(q)
      /\ Tail(q) \in Seq(Procs) /\ IsInjective(Tail(q))
      /\ ToSet(Tail(q)) = ToSet(q) \ {Head(q)}
  BY HeadAndTail DEF Sched
<1>2. /\ Append(Tail(q), Head(q)) \in Seq(Procs) /\ IsInjective(Append(Tail(q), Head(q)))
      /\ ToSet(Append(Tail(q), Head(q))) = ToSet(q)
  <2>. DEFINE r == Tail(q)
              p == Head(q)
  <2>1. r \in Seq(Procs) /\ IsInjective(r) /\ p \in Procs /\ p \notin ToSet(r)
    BY <1>1
  <2>2. ToSet(q) = ToSet(r) \cup {p}
    BY <1>1
  <2>. HIDE DEF r, p
  <2>3. /\ Append(r, p) \in Seq(Procs) /\ IsInjective(Append(r, p))
        /\ ToSet(Append(r, p)) = ToSet(q)
    BY <2>1, <2>2, PutBehind
  <2>. QED BY <2>3 DEF r, p
<1>. QED BY <1>1, <1>2 DEF Sched

\* A process is born, in the list or asleep.
LEMMA ProcessBorn ==
    ASSUME NEW q, NEW a, NEW L, Sched(q, a, L), NEW p \in Procs, p \notin L
    PROVE  Sched(Append(q, p), a, L \cup {p}) /\ Sched(q, a \cup {p}, L \cup {p})
BY PutBehind DEF Sched

\* A process leaves the list and sleeps.
LEMMA ProcessSleeps ==
    ASSUME NEW q, NEW a, NEW L, Sched(q, a, L), NEW p \in L, p \notin a
    PROVE  Sched(Drop(q, p), a \cup {p}, L)
BY Dropped DEF Sched

\* A sleeping process is woken.
LEMMA ProcessWakes ==
    ASSUME NEW q, NEW a, NEW L, Sched(q, a, L), NEW p \in Procs, p \in a
    PROVE  Sched(Append(q, p), a \ {p}, L)
BY PutBehind DEF Sched

\* The first process is erased, and those it has to wake are put behind the list.
LEMMA HeadDies ==
    ASSUME NEW q, NEW a, NEW L, Sched(q, a, L), q # <<>>,
           NEW W, IsFiniteSet(W), W \subseteq a, W \subseteq Procs
    PROVE  Sched(Tail(q) \o SetToSeq(W), a \ W, L \ {Head(q)})
<1>1. /\ Head(q) \in Procs /\ Head(q) \in ToSet(q)
      /\ Tail(q) \in Seq(Procs) /\ IsInjective(Tail(q))
      /\ ToSet(Tail(q)) = ToSet(q) \ {Head(q)}
  BY HeadAndTail DEF Sched
<1>2. /\ SetToSeq(W) \in Seq(Procs) /\ ToSet(SetToSeq(W)) = W
      /\ IsInjective(SetToSeq(W))
  <2>1. SetToSeq(W) \in Seq(W) /\ ToSet(SetToSeq(W)) = W /\ IsInjective(SetToSeq(W))
    BY Listed
  <2>2. SetToSeq(W) \in Seq(Procs)
    BY <2>1
  <2>. QED BY <2>1, <2>2
<1>3. /\ Tail(q) \o SetToSeq(W) \in Seq(Procs) /\ IsInjective(Tail(q) \o SetToSeq(W))
      /\ ToSet(Tail(q) \o SetToSeq(W)) = (ToSet(q) \ {Head(q)}) \cup W
  <2>. DEFINE r == Tail(q)
              w == SetToSeq(W)
  <2>1. ToSet(r) \cap ToSet(w) = {}
    BY <1>1, <1>2 DEF Sched
  <2>2. r \in Seq(Procs) /\ IsInjective(r) /\ w \in Seq(Procs) /\ IsInjective(w)
    BY <1>1, <1>2
  <2>. HIDE DEF r, w
  <2>3. /\ r \o w \in Seq(Procs) /\ IsInjective(r \o w)
        /\ ToSet(r \o w) = ToSet(r) \cup ToSet(w)
    BY <2>1, <2>2, Joined
  <2>. QED BY <1>1, <1>2, <2>3 DEF r, w
<1>. QED BY <1>1, <1>3 DEF Sched
-----------------------------------------------------------------------------
(***************************************************************************)
(* Every process is scheduled once                                         *)
(***************************************************************************)

\* Types that TypeOK leaves out: the lists are lists.
Lists ==
    /\ queue \in Seq(Procs)
    /\ waiting \in [Procs -> Seq(Procs \cup {ALL_CHILDS})]

\* The end of an activation puts a process that is to sleep and is not asleep to
\* sleep, unless it dies; nothing else in the scheduler changes.
LEMMA ActivationEnds ==
    ASSUME NEW p \in Procs, NEW o, NEW q, NEW a, NEW s, NEW L,
           Sched(q, a, L), p \in L, EndActivation(p, o, q, a, s)
    PROVE  /\ Sched(queue', asleep', L)
           /\ a \subseteq asleep' /\ asleep' \subseteq a \cup {p}
           /\ p \in s => p \in dead' \cup asleep'
<1>. DEFINE sleeps == ~(o = "dead" \/ KilledAfter(p, o)) /\ p \in s /\ p \notin a
<1>1. /\ asleep' = IF sleeps THEN a \cup {p} ELSE a
      /\ queue' = IF sleeps THEN Drop(q, p) ELSE q
      /\ ~sleeps /\ p \in s /\ p \notin a => p \in dead'
  BY DEF EndActivation
<1>2. CASE sleeps
  <2>1. Sched(Drop(q, p), a \cup {p}, L)
    BY <1>2, ProcessSleeps
  <2>. QED BY <1>1, <1>2, <2>1
<1>3. CASE ~sleeps
  BY <1>1, <1>3
<1>. QED BY <1>2, <1>3

\* What the end of an activation does to the other fields.
LEMMA ActivationFields ==
    ASSUME NEW p \in Procs, NEW o, NEW q, NEW a, NEW s, EndActivation(p, o, q, a, s)
    PROVE  /\ sleeping' = s
           /\ dead \subseteq dead' /\ dead' \subseteq dead \cup {p}
           /\ forTerminate' \subseteq forTerminate
           /\ at' = [at EXCEPT ![p] = "start"]
           /\ UNCHANGED <<suspended, wasSleeping, traced, stepTracing, given, terminated, crash>>
BY DEF EndActivation, debugger

\* A process that is switched out inside its operator falls asleep.
LEMMA SwitchFields ==
    ASSUME NEW p \in Procs, NEW n, SwitchInOperator(p, n)
    PROVE  /\ asleep' = asleep \cup {p} /\ queue' = Tail(queue) \o n
           /\ at' = [at EXCEPT ![p] = "rest"]
           /\ UNCHANGED <<dead, sleeping, forTerminate, suspended, wasSleeping, traced,
                          stepTracing, given, terminated, crash>>
BY DEF SwitchInOperator, debugger

\* A process is born; a process is erased.
LEMMA LiveGrows ==
    ASSUME life \in [Procs -> {"unborn", "live", "erased"}], NEW q \in Procs,
           life' = [life EXCEPT ![q] = "live"]
    PROVE  live' = live \cup {q} /\ life' \in [Procs -> {"unborn", "live", "erased"}]
BY DEF live

LEMMA LiveShrinks ==
    ASSUME life \in [Procs -> {"unborn", "live", "erased"}], NEW q \in Procs,
           life' = [life EXCEPT ![q] = "erased"]
    PROVE  live' = live \ {q} /\ life' \in [Procs -> {"unborn", "live", "erased"}]
BY DEF live

\* The types after an operator.
LEMMA OperatorTypes ==
    ASSUME TypeOK, Lists, NEW p \in live, live \subseteq live', Sched(queue', asleep', live'),
           sleeping' \subseteq sleeping \cup {p}, dead' \subseteq dead \cup {p},
           forTerminate' \subseteq forTerminate,
           at' \in [Procs -> {"start", "op", "rest", "loop"}],
           UNCHANGED <<suspended, wasSleeping, traced, stepTracing, given, terminated, crash>>,
           life' \in [Procs -> {"unborn", "live", "erased"}],
           father' \in [Procs -> Procs \cup {None}],
           waiting' \in [Procs -> Seq(Procs \cup {ALL_CHILDS})],
           \A f \in Procs : Len(waiting'[f]) <= MaxWaits,
           callee' \in [Procs -> Procs \cup {None}], towake' \in [Procs -> Procs \cup {None}],
           answered' \cup awaiting' \cup unfounded' \subseteq live
    PROVE  TypeOK' /\ Lists'
<1>1. \A f \in Procs : ToSet(waiting'[f]) \subseteq Procs \cup {ALL_CHILDS}
  BY DEF ToSet
<1>2. ToSet(queue') \subseteq live' /\ asleep' \subseteq live' /\ queue' \in Seq(Procs)
  BY DEF Sched
<1>3. dead' \cup sleeping' \subseteq live'
  BY DEF TypeOK
<1>4. /\ suspended' \cup forTerminate' \cup traced' \cup stepTracing' \subseteq live'
      /\ wasSleeping' \subseteq suspended'
      /\ answered' \cup awaiting' \cup unfounded' \subseteq live'
      /\ given' \in 0..MaxCommands /\ terminated' \subseteq Procs
      /\ crash' \in Crashes \cup {None}
  BY DEF TypeOK
<1>. QED BY <1>1, <1>2, <1>3, <1>4 DEF TypeOK, Lists

\* The operators of the first process of the list.
LEMMA OperatorSchedules ==
    ASSUME TypeOK, Lists, crash = None, Sched(queue, asleep, live), queue # <<>>,
           NEW p \in Procs, p = Head(queue), Operator(p) \/ RestOfOperator(p),
           crash' = None
    PROVE  TypeOK' /\ Lists' /\ Sched(queue', asleep', live')
<1>. DEFINE R == Append(Tail(queue), Head(queue))
<1>1. /\ p \in live /\ p \notin asleep
      /\ Sched(R, asleep, live) /\ Sched(Tail(queue), asleep \cup {p}, live)
      /\ Rotated = R
  BY HeadMoves DEF Rotated
<1>2. /\ life \in [Procs -> {"unborn", "live", "erased"}]
      /\ father \in [Procs -> Procs \cup {None}]
      /\ waiting \in [Procs -> Seq(Procs \cup {ALL_CHILDS})]
      /\ \A f \in Procs : Len(waiting[f]) <= MaxWaits
      /\ callee \in [Procs -> Procs \cup {None}] /\ towake \in [Procs -> Procs \cup {None}]
      /\ at \in [Procs -> {"start", "op", "rest", "loop"}]
      /\ answered \subseteq live /\ awaiting \subseteq live /\ unfounded \subseteq live
  BY DEF TypeOK, Lists
<1>. HIDE DEF R
<1>3. ASSUME NEW o, NEW s, EndActivation(p, o, R, asleep, s), s \subseteq sleeping \cup {p},
             UNCHANGED <<life, father, towake>>,
             waiting' \in [Procs -> Seq(Procs \cup {ALL_CHILDS})],
             \A f \in Procs : Len(waiting'[f]) <= MaxWaits,
             callee' \in [Procs -> Procs \cup {None}],
             answered' \cup awaiting' \cup unfounded' \subseteq live
      PROVE  TypeOK' /\ Lists' /\ Sched(queue', asleep', live')
  <2>1. live' = live
    BY <1>3 DEF live
  <2>2. Sched(queue', asleep', live)
    BY <1>1, <1>3, ActivationEnds
  <2>3. /\ sleeping' = s /\ dead' \subseteq dead \cup {p} /\ forTerminate' \subseteq forTerminate
        /\ at' = [at EXCEPT ![p] = "start"]
        /\ UNCHANGED <<suspended, wasSleeping, traced, stepTracing, given, terminated, crash>>
    BY <1>3, ActivationFields
  <2>4. at' \in [Procs -> {"start", "op", "rest", "loop"}]
    BY <1>2, <2>3
  <2>5. TypeOK' /\ Lists'
    BY <1>1, <1>2, <1>3, <2>1, <2>2, <2>3, <2>4, OperatorTypes
  <2>. QED BY <2>1, <2>2, <2>5
<1>4. CASE nop(p) \/ callReturn(p) \/ return(p) \/ error_branch(p)
  <2>0. error_branch(p) => /\ EndActivation(p, "dead", R, asleep, sleeping) /\ EventOver(p)
                           /\ UNCHANGED <<kinship, towake, answered, awaiting>>
    BY <1>1, NoneIsNoCrash DEF error_branch, Crashes
  <2>1. PICK o : EndActivation(p, o, R, asleep, sleeping)
    BY <1>1, <1>4, <2>0 DEF nop, callReturn, return
  <2>2. /\ UNCHANGED <<life, father, waiting, towake>>
        /\ answered' \cup awaiting' \cup unfounded' \subseteq live
    BY <1>1, <1>2, <1>4, <2>0 DEF nop, callReturn, return, kinship, handlers
  <2>3. callee' \in [Procs -> Procs \cup {None}]
    BY <1>2, <1>4, <2>0 DEF nop, callReturn, return, EventOver, handlers
  <2>. QED BY <1>2, <1>3, <2>1, <2>2, <2>3
<1>5. CASE halt(p)
  <2>1. PICK o : EndActivation(p, o, Tail(queue), asleep \cup {p}, sleeping)
    BY <1>5 DEF halt
  <2>2. UNCHANGED <<life, father, waiting, callee, towake, answered, awaiting, unfounded>>
    BY <1>5 DEF halt, kinship, handlers
  <2>3. live' = live
    BY <2>2 DEF live
  <2>4. Sched(queue', asleep', live)
    BY <1>1, <2>1, ActivationEnds
  <2>5. /\ sleeping' = sleeping /\ dead' \subseteq dead \cup {p} /\ forTerminate' \subseteq forTerminate
        /\ at' = [at EXCEPT ![p] = "start"]
        /\ UNCHANGED <<suspended, wasSleeping, traced, stepTracing, given, terminated, crash>>
    BY <2>1, ActivationFields
  <2>6. at' \in [Procs -> {"start", "op", "rest", "loop"}]
    BY <1>2, <2>5
  <2>7. TypeOK' /\ Lists'
    BY <1>1, <1>2, <2>2, <2>3, <2>4, <2>5, <2>6, OperatorTypes
  <2>. QED BY <2>3, <2>4, <2>7
<1>6. ASSUME NEW w \in Procs \cup {ALL_CHILDS}, waitReturn(p, w)
      PROVE  TypeOK' /\ Lists' /\ Sched(queue', asleep', live')
  <2>1. /\ UNCHANGED <<life, father, callee, towake, answered, awaiting>>
        /\ unfounded' \subseteq unfounded \cup {p}
    BY <1>6 DEF waitReturn, handlers
  <2>2. PICK o, s : EndActivation(p, o, R, asleep, s) /\ s \subseteq sleeping \cup {p}
    BY <1>1, <1>6 DEF waitReturn, SleepOn
  <2>3. \/ waiting' = waiting
        \/ Len(waiting[p]) < MaxWaits /\ waiting' = [waiting EXCEPT ![p] = Append(@, w)]
    BY <1>6 DEF waitReturn, SleepOn
  <2>4. /\ waiting' \in [Procs -> Seq(Procs \cup {ALL_CHILDS})]
        /\ \A f \in Procs : Len(waiting'[f]) <= MaxWaits
    <3>1. CASE Len(waiting[p]) < MaxWaits /\ waiting' = [waiting EXCEPT ![p] = Append(@, w)]
      <4>1. waiting[p] \in Seq(Procs \cup {ALL_CHILDS})
        BY <1>2
      <4>2. /\ Append(waiting[p], w) \in Seq(Procs \cup {ALL_CHILDS})
            /\ Len(Append(waiting[p], w)) = Len(waiting[p]) + 1
            /\ Len(waiting[p]) \in Nat
        BY <4>1
      <4>3. Len(Append(waiting[p], w)) <= MaxWaits
        BY <3>1, <4>2, BoundsAreNat
      <4>. QED BY <1>2, <3>1, <4>2, <4>3
    <3>. QED BY <1>2, <2>3, <3>1
  <2>. QED BY <1>1, <1>2, <1>3, <2>1, <2>2, <2>4
<1>7. ASSUME NEW q \in Procs, NEW f \in {p, None}, call(p, q, f)
      PROVE  TypeOK' /\ Lists' /\ Sched(queue', asleep', live')
  <2>1. /\ q \notin live /\ life' = [life EXCEPT ![q] = "live"]
        /\ father' = [father EXCEPT ![q] = f]
        /\ UNCHANGED <<waiting, callee, towake, answered, awaiting, unfounded>>
    BY <1>7 DEF call, handlers, live, unborn
  <2>2. PICK o : EndActivation(p, o, Append(R, q), asleep, sleeping)
    BY <1>1, <1>7 DEF call
  <2>3. live' = live \cup {q} /\ life' \in [Procs -> {"unborn", "live", "erased"}]
    BY <1>2, <2>1, LiveGrows
  <2>4. Sched(Append(R, q), asleep, live \cup {q})
    BY <1>1, <2>1, ProcessBorn
  <2>5. Sched(queue', asleep', live') /\ live \subseteq live'
    BY <1>1, <2>2, <2>3, <2>4, ActivationEnds
  <2>6. /\ sleeping' = sleeping /\ dead' \subseteq dead \cup {p} /\ forTerminate' \subseteq forTerminate
        /\ at' = [at EXCEPT ![p] = "start"]
        /\ UNCHANGED <<suspended, wasSleeping, traced, stepTracing, given, terminated, crash>>
    BY <2>2, ActivationFields
  <2>7. at' \in [Procs -> {"start", "op", "rest", "loop"}] /\ father' \in [Procs -> Procs \cup {None}]
    BY <1>2, <2>1, <2>6
  <2>8. TypeOK' /\ Lists'
    BY <1>1, <1>2, <2>1, <2>3, <2>5, <2>6, <2>7, OperatorTypes
  <2>. QED BY <2>3, <2>5, <2>8
<1>8. ASSUME NEW q \in Procs, raise_pre_event(p, q)
      PROVE  TypeOK' /\ Lists' /\ Sched(queue', asleep', live')
  <2>1. /\ q \notin live /\ life' = [life EXCEPT ![q] = "live"]
        /\ callee' = [callee EXCEPT ![p] = q] /\ towake' = [towake EXCEPT ![q] = p]
        /\ UNCHANGED <<father, waiting, unfounded, answered, awaiting>>
        /\ SwitchInOperator(p, <<q>>)
    BY <1>8 DEF raise_pre_event, live, unborn
  <2>6. /\ asleep' = asleep \cup {p} /\ queue' = Append(Tail(queue), q)
        /\ at' = [at EXCEPT ![p] = "rest"]
        /\ UNCHANGED <<dead, sleeping, forTerminate,
                       suspended, wasSleeping, traced, stepTracing, given, terminated, crash>>
    <3>1. Tail(queue) \in Seq(Procs)
      BY <1>1 DEF Sched
    <3>2. Tail(queue) \o <<q>> = Append(Tail(queue), q)
      BY <3>1
    <3>. QED BY <2>1, <3>2, SwitchFields
  <2>2. live' = live \cup {q} /\ life' \in [Procs -> {"unborn", "live", "erased"}]
    BY <1>2, <2>1, LiveGrows
  <2>3. Sched(queue', asleep', live') /\ live \subseteq live'
    BY <1>1, <2>1, <2>6, <2>2, ProcessBorn
  <2>4. /\ at' \in [Procs -> {"start", "op", "rest", "loop"}]
        /\ callee' \in [Procs -> Procs \cup {None}] /\ towake' \in [Procs -> Procs \cup {None}]
    BY <1>2, <2>1, <2>6
  <2>5. TypeOK' /\ Lists'
    BY <1>1, <1>2, <2>1, <2>6, <2>2, <2>3, <2>4, OperatorTypes
  <2>. QED BY <2>2, <2>3, <2>5
<1>9. CASE pre_event_fails(p) \/ sys_wait(p)
  <2>1. /\ SwitchInOperator(p, <<>>)
        /\ UNCHANGED <<life, father, waiting, unfounded, towake, answered>>
        /\ awaiting' \subseteq awaiting \cup {p}
        /\ callee' \in [Procs -> Procs \cup {None}]
    BY <1>2, <1>9 DEF pre_event_fails, sys_wait, EventOver, kinship
  <2>2. /\ asleep' = asleep \cup {p} /\ queue' = Tail(queue)
        /\ at' = [at EXCEPT ![p] = "rest"]
        /\ UNCHANGED <<dead, sleeping, forTerminate,
                       suspended, wasSleeping, traced, stepTracing, given, terminated, crash>>
    <3>1. Tail(queue) \in Seq(Procs)
      BY <1>1 DEF Sched
    <3>2. Tail(queue) \o <<>> = Tail(queue)
      BY <3>1
    <3>. QED BY <2>1, <3>2, SwitchFields
  <2>3. live' = live
    BY <2>1 DEF live
  <2>4. Sched(queue', asleep', live') /\ at' \in [Procs -> {"start", "op", "rest", "loop"}]
    BY <1>1, <1>2, <2>2, <2>3
  <2>5. TypeOK' /\ Lists'
    BY <1>1, <1>2, <2>1, <2>2, <2>3, <2>4, OperatorTypes
  <2>. QED BY <2>4, <2>5
<1>. QED BY <1>4, <1>5, <1>6, <1>7, <1>8, <1>9 DEF Operator, RestOfOperator, RaisesEvent

\* Those that a death wakes: the father, and the process that waits for the
\* handler; they are asleep.
Woken(p) == FatherToWake(p) \cup ({towake[p]} \cap asleep)

LEMMA WokenFew ==
    ASSUME TypeOK, NEW p \in Procs, FatherToWake(p) \subseteq asleep
    PROVE  IsFiniteSet(Woken(p)) /\ Woken(p) \subseteq asleep /\ Woken(p) \subseteq Procs
<1>1. Woken(p) \subseteq {father[p], towake[p]}
  BY DEF Woken, FatherToWake
<1>2. IsFiniteSet({father[p], towake[p]})
  <2>1. {father[p], towake[p]} = {father[p]} \cup {towake[p]}
    OBVIOUS
  <2>2. IsFiniteSet({father[p]})
    BY FS_Singleton
  <2>3. IsFiniteSet({father[p]} \cup {towake[p]})
    BY <2>2, FS_AddElement, Zenon
  <2>. QED BY <2>1, <2>3
<1>3. IsFiniteSet(Woken(p))
  BY <1>1, <1>2, FS_Subset
<1>4. Woken(p) \subseteq asleep /\ asleep \subseteq Procs
  BY DEF Woken, TypeOK, live
<1>. QED BY <1>3, <1>4

\* The death of the first process of the list.
LEMMA DeathSchedules ==
    ASSUME TypeOK, Lists, crash = None, Sched(queue, asleep, live), queue # <<>>,
           NEW p \in Procs, p = Head(queue), finalize_process(p)
    PROVE  TypeOK' /\ Lists' /\ Sched(queue', asleep', live')
<1>1. /\ FatherToWake(p) \subseteq asleep
      /\ life' = [life EXCEPT ![p] = "erased"]
      /\ father' = [r \in Procs |-> IF p \in {r, father[r]} THEN None ELSE father[r]]
      /\ waiting' = [r \in Procs |-> IF r = p THEN <<>> ELSE Drop(waiting[r], p)]
      /\ sleeping' = sleeping \ (FatherToWake(p) \cup {p})
      /\ asleep' = asleep \ Woken(p) /\ queue' = Tail(queue) \o SetToSeq(Woken(p))
      /\ towake' = [towake EXCEPT ![p] = None]
      /\ dead' = dead \ {p} /\ answered' = answered \ {p}
      /\ awaiting' = awaiting \ {p} /\ unfounded' = unfounded \ {p}
      /\ suspended' = suspended \ {p} /\ wasSleeping' = wasSleeping \ {p}
      /\ forTerminate' = forTerminate \ {p}
      /\ traced' = traced \ {p} /\ stepTracing' = stepTracing \ {p}
      /\ UNCHANGED <<at, callee, given, terminated, crash>>
  BY DEF finalize_process, Finalize, Woken
<1>2. live' = live \ {p} /\ life' \in [Procs -> {"unborn", "live", "erased"}]
  BY <1>1, LiveShrinks DEF TypeOK
<1>3. Sched(queue', asleep', live')
  <2>1. IsFiniteSet(Woken(p)) /\ Woken(p) \subseteq asleep /\ Woken(p) \subseteq Procs
    BY <1>1, WokenFew
  <2>. QED BY <1>1, <1>2, <2>1, HeadDies
<1>4. p \notin asleep
  BY HeadMoves
<1>5. ASSUME NEW r \in Procs
      PROVE  /\ waiting'[r] \in Seq(Procs \cup {ALL_CHILDS})
             /\ Len(waiting'[r]) <= MaxWaits
  <2>1. waiting[r] \in Seq(Procs \cup {ALL_CHILDS}) /\ Len(waiting[r]) <= MaxWaits
    BY DEF TypeOK, Lists
  <2>2. CASE r = p
    BY <1>1, <2>2, BoundsAreNat
  <2>3. CASE r # p
    <3>1. /\ Drop(waiting[r], p) \in Seq(Procs \cup {ALL_CHILDS})
          /\ Len(Drop(waiting[r], p)) <= Len(waiting[r])
      BY <2>1, Dropped
    <3>2. Len(Drop(waiting[r], p)) <= MaxWaits
      BY <2>1, <3>1, BoundsAreNat
    <3>. QED BY <1>1, <2>3, <3>1, <3>2
  <2>. QED BY <2>2, <2>3
<1>6. /\ waiting' \in [Procs -> Seq(Procs \cup {ALL_CHILDS})]
      /\ \A r \in Procs : ToSet(waiting'[r]) \subseteq Procs \cup {ALL_CHILDS}
      /\ \A r \in Procs : Len(waiting'[r]) <= MaxWaits
  BY <1>1, <1>5 DEF ToSet
<1>7. /\ father' \in [Procs -> Procs \cup {None}] /\ towake' \in [Procs -> Procs \cup {None}]
      /\ at' \in [Procs -> {"start", "op", "rest", "loop"}] /\ callee' \in [Procs -> Procs \cup {None}]
  BY <1>1 DEF TypeOK
<1>8. ToSet(queue') \subseteq live' /\ asleep' \subseteq live' /\ queue' \in Seq(Procs)
  BY <1>3 DEF Sched
<1>9. /\ dead' \cup sleeping' \subseteq live'
      /\ suspended' \cup forTerminate' \cup traced' \cup stepTracing' \subseteq live'
      /\ wasSleeping' \subseteq suspended'
      /\ answered' \cup awaiting' \cup unfounded' \subseteq live'
      /\ given' \in 0..MaxCommands /\ terminated' \subseteq Procs
      /\ crash' \in Crashes \cup {None}
  BY <1>1, <1>2 DEF TypeOK
<1>. QED BY <1>2, <1>3, <1>6, <1>7, <1>8, <1>9 DEF TypeOK, Lists

\* A step that leaves kin, answers and the call of handlers alone.
LEMMA OtherTypes ==
    ASSUME TypeOK, Lists, live \subseteq live', Sched(queue', asleep', live'),
           life' \in [Procs -> {"unborn", "live", "erased"}],
           at' \in [Procs -> {"start", "op", "rest", "loop"}],
           UNCHANGED <<father, waiting, unfounded, dead, sleeping, callee, towake, answered>>,
           awaiting' \subseteq awaiting,
           suspended' \cup forTerminate' \cup traced' \cup stepTracing' \subseteq live',
           wasSleeping' \subseteq suspended',
           given' \in 0..MaxCommands, terminated' \subseteq Procs, crash' = crash
    PROVE  TypeOK' /\ Lists'
<1>1. ToSet(queue') \subseteq live' /\ asleep' \subseteq live' /\ queue' \in Seq(Procs)
  BY DEF Sched
<1>2. \A f \in Procs : ToSet(waiting'[f]) \subseteq Procs \cup {ALL_CHILDS}
  BY DEF TypeOK
<1>. QED BY <1>1, <1>2 DEF TypeOK, Lists

\* The debugger's stops before an operator.
LEMMA StopSchedules ==
    ASSUME TypeOK, Lists, crash = None, Sched(queue, asleep, live), queue # <<>>,
           NEW p \in Procs, p = Head(queue), stay_suspended(p) \/ stop_before_step(p)
    PROVE  TypeOK' /\ Lists' /\ Sched(queue', asleep', live')
<1>1. p \in live /\ Sched(Tail(queue), asleep \cup {p}, live)
  BY HeadMoves
<1>2. /\ asleep' = asleep \cup {p} /\ queue' = Tail(queue)
      /\ UNCHANGED <<life, father, waiting, unfounded, dead, sleeping, callee, towake, answered,
                     awaiting, wasSleeping, forTerminate, given, terminated, crash>>
      /\ suspended' \subseteq suspended \cup {p} /\ suspended \subseteq suspended'
      /\ traced' \subseteq traced \cup {p} /\ stepTracing' \subseteq stepTracing
      /\ at' \in {[at EXCEPT ![p] = "loop"], [at EXCEPT ![p] = "op"]}
  BY DEF stay_suspended, stop_before_step, kinship, handlers, debugger
<1>3. live' = live
  BY <1>2 DEF live
<1>4. at' \in [Procs -> {"start", "op", "rest", "loop"}] /\ life' \in [Procs -> {"unborn", "live", "erased"}]
  BY <1>2 DEF TypeOK
<1>5. /\ suspended' \cup forTerminate' \cup traced' \cup stepTracing' \subseteq live'
      /\ wasSleeping' \subseteq suspended'
      /\ given' \in 0..MaxCommands /\ terminated' \subseteq Procs
  BY <1>1, <1>2, <1>3 DEF TypeOK
<1>6. Sched(queue', asleep', live') /\ live \subseteq live'
  BY <1>1, <1>2, <1>3
<1>. QED BY <1>2, <1>4, <1>5, <1>6, OtherTypes

\* The starts of programs by the host, and the debugger's commands.
LEMMA HostSchedules ==
    ASSUME TypeOK, Lists, crash = None, Sched(queue, asleep, live),
           NEW p \in Procs,
           \/ run_program(p) \/ scp_spawn_process(p)
           \/ suspend_one(p) \/ resume_one(p) \/ terminate_one(p) \/ event(p)
    PROVE  TypeOK' /\ Lists' /\ Sched(queue', asleep', live')
<1>1. CASE run_program(p) \/ scp_spawn_process(p)
  <2>1. /\ p \notin live /\ life' = [life EXCEPT ![p] = "live"]
        /\ \/ queue' = Append(queue, p) /\ asleep' = asleep
           \/ queue' = queue /\ asleep' = asleep \cup {p}
        /\ suspended' \subseteq suspended \cup {p} /\ suspended \subseteq suspended'
        /\ traced' \subseteq traced \cup {p}
        /\ UNCHANGED <<father, waiting, unfounded, dead, sleeping, at, callee, towake,
                       answered, awaiting, wasSleeping, forTerminate, stepTracing, given,
                       terminated, crash>>
    BY <1>1 DEF run_program, scp_spawn_process, handlers, debugger, live, unborn
  <2>2. live' = live \cup {p} /\ life' \in [Procs -> {"unborn", "live", "erased"}]
    BY <2>1, LiveGrows DEF TypeOK
  <2>3. Sched(queue', asleep', live') /\ live \subseteq live'
    <3>1. Sched(Append(queue, p), asleep, live \cup {p}) /\ Sched(queue, asleep \cup {p}, live \cup {p})
      BY <2>1, ProcessBorn
    <3>2. CASE queue' = Append(queue, p) /\ asleep' = asleep
      BY <2>2, <3>1, <3>2
    <3>3. CASE queue' = queue /\ asleep' = asleep \cup {p}
      BY <2>2, <3>1, <3>3
    <3>. QED BY <2>1, <3>2, <3>3
  <2>4. /\ suspended' \cup forTerminate' \cup traced' \cup stepTracing' \subseteq live'
        /\ wasSleeping' \subseteq suspended' /\ at' \in [Procs -> {"start", "op", "rest", "loop"}]
        /\ given' \in 0..MaxCommands /\ terminated' \subseteq Procs
    BY <2>1, <2>2 DEF TypeOK
  <2>. QED BY <2>1, <2>2, <2>3, <2>4, OtherTypes
<1>2. CASE suspend_one(p) \/ resume_one(p) \/ terminate_one(p) \/ event(p)
  <2>1. /\ p \in live
        /\ \/ UNCHANGED <<asleep, queue>>
           \/ p \notin asleep /\ asleep' = asleep \cup {p} /\ queue' = Drop(queue, p)
           \/ p \in asleep /\ asleep' = asleep \ {p} /\ queue' = Append(queue, p)
    BY <1>2 DEF suspend_one, resume_one, terminate_one, event, pm_sched_wakeup, TypeOK
  <2>2. /\ UNCHANGED <<life, father, waiting, unfounded, dead, sleeping, at, callee, towake,
                       answered, crash>>
        /\ awaiting' \subseteq awaiting
        /\ given' = given \/ (given' = given + 1 /\ given < MaxCommands)
        /\ terminated' \subseteq terminated \cup {p} /\ forTerminate' \subseteq forTerminate \cup {p}
        /\ traced' \subseteq traced \cup {p} /\ stepTracing' \subseteq stepTracing \cup {p}
    BY <1>2 DEF suspend_one, resume_one, terminate_one, event, kinship, handlers, debugger, Command
  <2>3. suspended' \subseteq suspended \cup {p} /\ wasSleeping' \subseteq suspended'
    BY <1>2 DEF suspend_one, resume_one, terminate_one, event, debugger, TypeOK
  <2>4. live' = live
    BY <2>2 DEF live
  <2>5. Sched(queue', asleep', live)
    <3>1. CASE UNCHANGED <<asleep, queue>>
      BY <3>1
    <3>2. CASE p \notin asleep /\ asleep' = asleep \cup {p} /\ queue' = Drop(queue, p)
      BY <2>1, <3>2, ProcessSleeps
    <3>3. CASE p \in asleep /\ asleep' = asleep \ {p} /\ queue' = Append(queue, p)
      BY <3>3, ProcessWakes
    <3>. QED BY <2>1, <3>1, <3>2, <3>3
  <2>6. /\ suspended' \cup forTerminate' \cup traced' \cup stepTracing' \subseteq live'
        /\ terminated' \subseteq Procs
    BY <2>1, <2>2, <2>3, <2>4 DEF TypeOK
  <2>7. given' \in 0..MaxCommands
    BY <2>2, BoundsAreNat DEF TypeOK
  <2>8. /\ at' \in [Procs -> {"start", "op", "rest", "loop"}]
        /\ life' \in [Procs -> {"unborn", "live", "erased"}]
    BY <2>2 DEF TypeOK
  <2>. QED BY <2>2, <2>3, <2>4, <2>5, <2>6, <2>7, <2>8, OtherTypes
<1>. QED BY <1>1, <1>2

\* A step that ends the program changes nothing else.
LEMMA CrashTypes ==
    ASSUME TypeOK, Lists, crash' \in Crashes,
           UNCHANGED <<kinship, dead, sleeping, asleep, queue, at, handlers, debugger, forTerminate>>
    PROVE  TypeOK' /\ Lists'
<1>1. UNCHANGED <<life, father, waiting, unfounded, dead, sleeping, asleep, queue, at, callee,
                  towake, answered, awaiting, suspended, wasSleeping, traced, stepTracing, given, terminated, forTerminate>>
  BY DEF kinship, handlers, debugger
<1>2. live' = live /\ ToSet(queue') = ToSet(queue)
  BY <1>1 DEF live, ToSet
<1>3. \A f \in Procs : ToSet(waiting'[f]) \subseteq Procs \cup {ALL_CHILDS}
  BY <1>1 DEF TypeOK
<1>. QED BY <1>1, <1>2, <1>3 DEF TypeOK, Lists

OnceInv ==
    /\ TypeOK /\ Lists
    /\ crash = None => Sched(queue, asleep, live)

\* Of the operators, only an error_ branch ends the program, and does nothing else.
LEMMA OnlyErrorsCrash ==
    ASSUME NEW p \in Procs, crash = None, crash' # None, Operator(p) \/ RestOfOperator(p)
    PROVE  /\ crash' \in Crashes
           /\ UNCHANGED <<kinship, dead, sleeping, asleep, queue, at, handlers, debugger,
                          forTerminate>>
<1>1. \A o, q, a, s : EndActivation(p, o, q, a, s) => crash' = crash
  BY DEF EndActivation
<1>2. \A n : SwitchInOperator(p, n) => crash' = crash
  BY DEF SwitchInOperator
<1>3. ~(nop(p) \/ callReturn(p) \/ halt(p) \/ return(p) \/ sys_wait(p) \/ RaisesEvent(p))
  BY <1>1, <1>2 DEF nop, callReturn, halt, return, sys_wait, RaisesEvent, raise_pre_event,
                    pre_event_fails
<1>4. /\ \A q \in Procs, f \in {p, None} : ~call(p, q, f)
      /\ \A w \in Procs \cup {ALL_CHILDS} : ~waitReturn(p, w)
  BY <1>1 DEF call, waitReturn, SleepOn
<1>5. error_branch(p)
  BY <1>3, <1>4 DEF Operator, RestOfOperator
<1>. QED BY <1>1, <1>5 DEF error_branch, Crashes

\* Every step keeps every process scheduled once.
LEMMA NextOnce ==
    ASSUME OnceInv, [Next]_vars
    PROVE  OnceInv'
<1>. USE DEF OnceInv
<1>1. CASE Turn
  <2>1. crash = None /\ queue # <<>>
    BY <1>1 DEF Turn
  <2>2. PICK p \in Procs : p = Head(queue)
    BY <2>1, HeadMoves
  <2>3. CASE stay_suspended(p) \/ stop_before_step(p)
    BY <2>1, <2>2, <2>3, StopSchedules
  <2>4. CASE (Operator(p) \/ RestOfOperator(p)) /\ crash' = None
    BY <2>1, <2>2, <2>4, OperatorSchedules
  <2>5. CASE (Operator(p) \/ RestOfOperator(p)) /\ crash' # None
    <3>1. crash' \in Crashes /\ UNCHANGED <<kinship, dead, sleeping, asleep, queue, at,
                                           handlers, debugger, forTerminate>>
      BY <2>1, <2>5, OnlyErrorsCrash
    <3>. QED BY <3>1, NoneIsNoCrash, CrashTypes
  <2>6. CASE finalize_process(p)
    BY <2>1, <2>2, <2>6, DeathSchedules
  <2>7. CASE finalize_fails(p)
    <3>1. crash' \in Crashes
      BY <2>7 DEF finalize_fails, Crashes
    <3>. QED BY <2>7, <3>1, NoneIsNoCrash, CrashTypes DEF finalize_fails
  <2>. QED BY <1>1, <2>2, <2>3, <2>4, <2>5, <2>6, <2>7 DEF Turn
<1>2. ASSUME NEW p \in Procs, \/ run_program(p) \/ scp_spawn_process(p) \/ event(p)
                              \/ suspend_one(p) \/ resume_one(p) \/ terminate_one(p)
      PROVE  OnceInv'
  <2>1. crash = None
    BY <1>2 DEF run_program, scp_spawn_process, suspend_one, resume_one, terminate_one, event,
                Command
  <2>. QED BY <1>2, <2>1, HostSchedules
<1>3. CASE UNCHANGED vars
  <2>1. live' = live
    BY <1>3 DEF vars, live
  <2>. QED BY <1>3, <2>1 DEF vars, TypeOK, Lists, Sched, ToSet, live
<1>. QED BY <1>1, <1>2, <1>3 DEF Next

\* The invariant holds throughout.
LEMMA ScheduledInvariant == Spec => []OnceInv
<1>1. Init => OnceInv
  <2>. SUFFICES ASSUME Init PROVE OnceInv
    OBVIOUS
  <2>1. live = {} /\ ToSet(<<>>) = {} /\ IsInjective(<<>>)
    BY DEF Init, live, ToSet, IsInjective
  <2>2. <<>> \in Seq(Procs) /\ <<>> \in Seq(Procs \cup {ALL_CHILDS}) /\ Len(<<>>) <= MaxWaits
    BY BoundsAreNat
  <2>3. TypeOK
    BY <2>1, <2>2, BoundsAreNat DEF Init, TypeOK
  <2>4. Lists /\ Sched(queue, asleep, live)
    BY <2>1, <2>2 DEF Init, Lists, Sched
  <2>. QED BY <2>3, <2>4 DEF OnceInv
<1>2. OnceInv /\ [Next]_vars => OnceInv'
  BY NextOnce
<1>. QED BY <1>1, <1>2, PTL DEF Spec

\* No process is lost by the scheduler, none is in its list twice: put_to_sleep,
\* the hooks, the debugger and finalize_process agree on who sleeps.
THEOREM ProcessesScheduledOnce == Spec => []OnceScheduled
<1>1. OnceInv => OnceScheduled
  BY DEF OnceInv, OnceScheduled, Sched
<1>. QED BY <1>1, ScheduledInvariant, PTL

-----------------------------------------------------------------------------
(***************************************************************************)
(* What the death hooks find                                               *)
(*                                                                         *)
(* HooksFindAsleep alone is not inductive: the debugger may wake whom it   *)
(* has suspended, and a hook or an event may wake whom another hook is     *)
(* waited for by.  A process that waits, for a son, a handler or an event, *)
(* is therefore asleep and, if it is suspended, was asleep before; it      *)
(* waits for one of the three only, and for one handler only.  That no     *)
(* handler is waited for when an operator begins is so because a process   *)
(* waits for its handler inside an operator only.                          *)
(***************************************************************************)

\* A process asleep that the debugger will not wake when it resumes it.
StaysAsleep(p) == p \in asleep /\ (p \in suspended => p \in wasSleeping)

WakesNobodyYet == \A q \in Procs \ live : towake[q] = None
RunnersAlive == \A p \in Procs : at[p] # "start" => p \notin dead
SleepersAsleep ==
    \A p \in sleeping \ (dead \cup terminated) : StaysAsleep(p) /\ callee[p] = None
CallersAsleep ==
    \A q \in live : \A p \in Procs \ terminated :
        towake[q] = p => StaysAsleep(p) /\ callee[p] = q /\ p \notin dead
SuspendedAsleep == suspended \ (wasSleeping \cup dead \cup terminated) \subseteq asleep
CallersInside == \A p \in Procs : callee[p] # None => at[p] = "rest"
AwaitersAsleep ==
    \A p \in awaiting \ terminated :
        StaysAsleep(p) /\ callee[p] = None /\ p \notin sleeping

Found ==
    /\ RunnersAlive /\ SleepersAsleep /\ CallersAsleep /\ SuspendedAsleep
    /\ CallersInside /\ AwaitersAsleep

HooksInv == WakesNobodyYet /\ (crash = None => Found)

\* Whatever p does in its turn short of dying: it wakes nobody, and when it
\* begins to wait it falls asleep.
LEMMA TurnKeepsFound ==
    ASSUME TypeOK, WakesNobodyYet, Found, NEW p \in live, p \notin dead, p \notin asleep,
           life' \in [Procs -> {"unborn", "live", "erased"}], live \subseteq live',
           UNCHANGED <<wasSleeping, terminated>>,
           dead' \subseteq dead \cup {p}, dead \subseteq dead',
           asleep \subseteq asleep', sleeping' \subseteq sleeping \cup {p},
           suspended \subseteq suspended', suspended' \subseteq suspended \cup {p},
           suspended' # suspended => p \in asleep',
           \A r \in Procs \ {p} : at'[r] = at[r] /\ callee'[r] = callee[r],
           at'[p] # "start" => p \notin dead',
           at'[p] = "rest" \/ callee'[p] = None,
           \A r \in awaiting' :
               \/ r \in awaiting
               \/ /\ r = p /\ p \in asleep' /\ callee'[p] = None
                  /\ sleeping' = sleeping /\ suspended' = suspended
                  /\ p \notin dead,
           \A r \in Procs :
               \/ towake'[r] = towake[r]
               \/ /\ r \in live' /\ r \notin live /\ towake'[r] = p
                  /\ p \notin dead' /\ p \in asleep' /\ callee'[p] = r
                  /\ suspended' = suspended,
           p \in sleeping' /\ p \notin sleeping /\ p \notin dead' =>
               p \in asleep' /\ callee'[p] = None /\ suspended' = suspended
    PROVE  WakesNobodyYet' /\ Found'
<1>1. /\ p \in Procs /\ live \subseteq Procs /\ live' \subseteq Procs
      /\ sleeping \subseteq Procs /\ dead \subseteq live /\ awaiting \subseteq Procs
  BY DEF TypeOK, live
<1>2. /\ p \in sleeping => p \in terminated
      /\ p \in suspended => p \in wasSleeping \cup terminated
      /\ p \in awaiting => p \in terminated
      /\ \A q \in live : towake[q] = p => p \in terminated
  BY <1>1 DEF Found, SleepersAsleep, SuspendedAsleep, CallersAsleep, AwaitersAsleep, StaysAsleep
<1>3. WakesNobodyYet'
  BY <1>1 DEF WakesNobodyYet
<1>4. RunnersAlive'
  BY <1>1 DEF Found, RunnersAlive
<1>5. SleepersAsleep'
  <2>. SUFFICES ASSUME NEW r \in sleeping', r \notin dead' \cup terminated'
                PROVE  /\ r \in asleep' /\ (r \in suspended' => r \in wasSleeping')
                       /\ callee'[r] = None
    BY DEF SleepersAsleep, StaysAsleep
  <2>1. CASE r = p
    BY <1>2, <2>1
  <2>2. CASE r # p
    BY <1>1, <2>2 DEF Found, SleepersAsleep, StaysAsleep
  <2>. QED BY <2>1, <2>2
<1>6. CallersAsleep'
  <2>. SUFFICES ASSUME NEW q \in live', NEW r \in Procs, r \notin terminated', towake'[q] = r
                PROVE  /\ r \in asleep' /\ (r \in suspended' => r \in wasSleeping')
                       /\ callee'[r] = q /\ r \notin dead'
    BY DEF CallersAsleep, StaysAsleep
  <2>1. CASE towake'[q] = towake[q]
    <3>1. q \in live
      BY <1>1, <2>1, NoneIsNoProc DEF WakesNobodyYet
    <3>2. r # p
      BY <1>2, <2>1, <3>1
    <3>3. r \in asleep /\ (r \in suspended => r \in wasSleeping) /\ callee[r] = q /\ r \notin dead
      BY <2>1, <3>1 DEF Found, CallersAsleep, StaysAsleep
    <3>. QED BY <3>2, <3>3
  <2>2. CASE towake'[q] # towake[q]
    BY <1>1, <1>2, <2>2
  <2>. QED BY <2>1, <2>2
<1>7. SuspendedAsleep'
  BY DEF Found, SuspendedAsleep
<1>8. CallersInside'
  BY <1>1 DEF Found, CallersInside
<1>9. AwaitersAsleep'
  <2>. SUFFICES ASSUME NEW r \in awaiting', r \notin terminated'
                PROVE  /\ r \in asleep' /\ (r \in suspended' => r \in wasSleeping')
                       /\ callee'[r] = None /\ r \notin sleeping'
    BY DEF AwaitersAsleep, StaysAsleep
  <2>1. CASE r = p
    BY <1>2, <2>1
  <2>2. CASE r # p
    <3>1. /\ r \in asleep /\ (r \in suspended => r \in wasSleeping)
          /\ callee[r] = None /\ r \notin sleeping /\ r \in Procs
      BY <1>1, <2>2 DEF Found, AwaitersAsleep, StaysAsleep
    <3>. QED BY <2>2, <3>1
  <2>. QED BY <2>1, <2>2
<1>. QED BY <1>3, <1>4, <1>5, <1>6, <1>7, <1>8, <1>9 DEF Found

\* The death of p, whose hook wakes the father and whom p was the handler of.
\* Neither waits for anything else, and no third process is woken.
LEMMA DeathKeepsFound ==
    ASSUME TypeOK, WakesNobodyYet, Found, NEW p \in live, p \in dead, finalize_process(p)
    PROVE  WakesNobodyYet' /\ Found'
<1>1. /\ life' = [life EXCEPT ![p] = "erased"]
      /\ sleeping' = sleeping \ (FatherToWake(p) \cup {p})
      /\ asleep' = asleep \ Woken(p)
      /\ towake' = [towake EXCEPT ![p] = None]
      /\ dead' = dead \ {p}
      /\ suspended' = suspended \ {p} /\ wasSleeping' = wasSleeping \ {p}
      /\ awaiting' = awaiting \ {p}
      /\ UNCHANGED <<at, callee, terminated>>
  BY DEF finalize_process, Finalize, Woken
<1>2. /\ p \in Procs /\ live \subseteq Procs /\ sleeping \subseteq Procs
      /\ towake \in [Procs -> Procs \cup {None}]
  BY DEF TypeOK, live
<1>3. live' = live \ {p}
  BY <1>1, <1>2, LiveShrinks DEF TypeOK
<1>4. Woken(p) \subseteq FatherToWake(p) \cup {towake[p]} /\ FatherToWake(p) \subseteq sleeping
  BY DEF Woken, FatherToWake, HookWakes
<1>5. WakesNobodyYet'
  BY <1>1, <1>2, <1>3 DEF WakesNobodyYet
<1>6. RunnersAlive'
  BY <1>1 DEF Found, RunnersAlive
<1>7. SleepersAsleep'
  <2>. SUFFICES ASSUME NEW r \in sleeping', r \notin dead' \cup terminated'
                PROVE  /\ r \in asleep' /\ (r \in suspended' => r \in wasSleeping')
                       /\ callee'[r] = None
    BY DEF SleepersAsleep, StaysAsleep
  <2>1. r \in sleeping \ (dead \cup terminated) /\ r # p /\ r \notin FatherToWake(p)
    BY <1>1
  <2>2. r \in asleep /\ (r \in suspended => r \in wasSleeping) /\ callee[r] = None
    BY <2>1 DEF Found, SleepersAsleep, StaysAsleep
  <2>3. r # towake[p]
    BY <1>2, <2>1, <2>2, NoneIsNoProc DEF Found, CallersAsleep
  <2>. QED BY <1>1, <1>4, <2>1, <2>2, <2>3
<1>8. CallersAsleep'
  <2>. SUFFICES ASSUME NEW q \in live', NEW r \in Procs, r \notin terminated', towake'[q] = r
                PROVE  /\ r \in asleep' /\ (r \in suspended' => r \in wasSleeping')
                       /\ callee'[r] = q /\ r \notin dead'
    BY DEF CallersAsleep, StaysAsleep
  <2>1. q \in live /\ q # p /\ q \in Procs /\ towake[q] = r /\ r \notin terminated
    BY <1>1, <1>2, <1>3
  <2>2. r \in asleep /\ (r \in suspended => r \in wasSleeping) /\ callee[r] = q /\ r \notin dead
    BY <2>1 DEF Found, CallersAsleep, StaysAsleep
  <2>3. r \notin FatherToWake(p)
    BY <1>4, <2>1, <2>2, NoneIsNoProc DEF Found, SleepersAsleep
  <2>4. r # towake[p]
    BY <2>1, <2>2 DEF Found, CallersAsleep
  <2>. QED BY <1>1, <1>4, <2>2, <2>3, <2>4
<1>9. SuspendedAsleep'
  <2>. SUFFICES ASSUME NEW r \in suspended', r \notin wasSleeping' \cup dead' \cup terminated'
                PROVE  r \in asleep'
    BY DEF SuspendedAsleep
  <2>1. /\ r \in suspended /\ r # p /\ r \notin wasSleeping \cup dead \cup terminated
        /\ r \in Procs
    BY <1>1, <1>2 DEF TypeOK
  <2>2. r \in asleep
    BY <2>1 DEF Found, SuspendedAsleep
  <2>3. r \notin FatherToWake(p)
    BY <1>4, <2>1 DEF Found, SleepersAsleep, StaysAsleep
  <2>4. r # towake[p]
    BY <2>1 DEF Found, CallersAsleep, StaysAsleep
  <2>. QED BY <1>1, <1>4, <2>2, <2>3, <2>4
<1>10. CallersInside'
  BY <1>1 DEF Found, CallersInside
<1>11. AwaitersAsleep'
  <2>. SUFFICES ASSUME NEW r \in awaiting', r \notin terminated'
                PROVE  /\ r \in asleep' /\ (r \in suspended' => r \in wasSleeping')
                       /\ callee'[r] = None /\ r \notin sleeping'
    BY DEF AwaitersAsleep, StaysAsleep
  <2>1. /\ r \in asleep /\ (r \in suspended => r \in wasSleeping) /\ r # p /\ r \in Procs
        /\ callee[r] = None /\ r \notin sleeping
    BY <1>1 DEF Found, AwaitersAsleep, StaysAsleep, TypeOK, live
  <2>2. r # towake[p]
    BY <1>1, <1>2, <2>1, NoneIsNoProc DEF Found, CallersAsleep
  <2>. QED BY <1>1, <1>4, <2>1, <2>2
<1>. QED BY <1>5, <1>6, <1>7, <1>8, <1>9, <1>10, <1>11 DEF Found

\* An operator that ends leaves its process dead or asleep if it is to wait.
LEMMA ActivationKeepsFound ==
    ASSUME TypeOK, WakesNobodyYet, Found, NEW p \in live, p \notin dead, p \notin asleep,
           NEW o, NEW q, NEW a, NEW s, EndActivation(p, o, q, a, s),
           asleep \subseteq a, s = sleeping \/ s = sleeping \cup {p},
           life' \in [Procs -> {"unborn", "live", "erased"}], live \subseteq live',
           callee' = [callee EXCEPT ![p] = None], UNCHANGED <<towake, awaiting>>
    PROVE  WakesNobodyYet' /\ Found'
<1>1. p \in Procs
  BY DEF live
<1>2. /\ sleeping' = s /\ dead \subseteq dead' /\ dead' \subseteq dead \cup {p}
      /\ at' = [at EXCEPT ![p] = "start"]
      /\ UNCHANGED <<suspended, wasSleeping, terminated>>
  BY <1>1, ActivationFields
<1>3. asleep \subseteq asleep' /\ (p \in s => p \in dead' \cup asleep')
  BY DEF EndActivation
<1>4. /\ at'[p] = "start" /\ callee'[p] = None
      /\ \A r \in Procs \ {p} : at'[r] = at[r] /\ callee'[r] = callee[r]
  BY <1>1, <1>2 DEF TypeOK
<1>. QED BY <1>1, <1>2, <1>3, <1>4, TurnKeepsFound

\* Every operator of a process that is not dead.
LEMMA OperatorKeepsFound ==
    ASSUME TypeOK, WakesNobodyYet, Found, NEW p \in live, p \notin dead, p \notin asleep,
           (callee[p] = None /\ Operator(p)) \/ RestOfOperator(p), crash' = None
    PROVE  WakesNobodyYet' /\ Found'
<1>. USE DEF kinship, handlers, debugger
<1>0. p \in Procs /\ life \in [Procs -> {"unborn", "live", "erased"}]
      /\ callee \in [Procs -> Procs \cup {None}] /\ towake \in [Procs -> Procs \cup {None}]
      /\ at \in [Procs -> {"start", "op", "rest", "loop"}]
  BY DEF TypeOK, live
<1>1. callee[p] = None => callee = [callee EXCEPT ![p] = None]
  BY <1>0
<1>2. CASE nop(p) \/ error_branch(p)
  <2>1. /\ \E o : EndActivation(p, o, Rotated, asleep, sleeping)
        /\ EventOver(p) /\ UNCHANGED <<life, towake, awaiting>>
    BY <1>2, NoneIsNoCrash DEF nop, error_branch, Crashes
  <2>2. live' = live
    BY <2>1 DEF live
  <2>. QED BY <1>0, <2>1, <2>2, ActivationKeepsFound DEF EventOver
<1>3. CASE callee[p] = None /\ (callReturn(p) \/ halt(p) \/ return(p))
  <2>1. PICK o, q, a : EndActivation(p, o, q, a, sleeping) /\ asleep \subseteq a
    BY <1>3 DEF callReturn, halt, return
  <2>2. UNCHANGED <<life, towake, awaiting, callee>>
    BY <1>3 DEF callReturn, halt, return
  <2>3. live' = live
    BY <2>2 DEF live
  <2>. QED BY <1>0, <1>1, <1>3, <2>1, <2>2, <2>3, ActivationKeepsFound
<1>4. ASSUME NEW q \in Procs, NEW f, call(p, q, f), callee[p] = None
      PROVE  WakesNobodyYet' /\ Found'
  <2>1. PICK o : EndActivation(p, o, Append(Rotated, q), asleep, sleeping)
    BY <1>4 DEF call
  <2>2. life' = [life EXCEPT ![q] = "live"] /\ UNCHANGED <<callee, towake, awaiting>>
    BY <1>4 DEF call
  <2>3. live \subseteq live' /\ life' \in [Procs -> {"unborn", "live", "erased"}]
    BY <1>0, <2>2, LiveGrows
  <2>. QED BY <1>1, <1>4, <2>1, <2>2, <2>3, ActivationKeepsFound
<1>5. ASSUME NEW w, waitReturn(p, w), callee[p] = None
      PROVE  WakesNobodyYet' /\ Found'
  <2>1. PICK o, s : /\ EndActivation(p, o, Rotated, asleep, s)
                    /\ s \in {sleeping, sleeping \cup {p}}
    BY <1>5 DEF waitReturn, SleepOn
  <2>2. UNCHANGED <<life, callee, towake, awaiting>>
    BY <1>5 DEF waitReturn
  <2>3. live' = live
    BY <2>2 DEF live
  <2>. QED BY <1>0, <1>1, <1>5, <2>1, <2>2, <2>3, ActivationKeepsFound
<1>6. ASSUME NEW n, SwitchInOperator(p, n)
      PROVE  /\ asleep' = asleep \cup {p} /\ at' = [at EXCEPT ![p] = "rest"]
             /\ UNCHANGED <<dead, sleeping, suspended, wasSleeping, terminated>>
  BY <1>0, <1>6, SwitchFields
<1>7. ASSUME NEW q \in Procs, raise_pre_event(p, q)
      PROVE  WakesNobodyYet' /\ Found'
  <2>1. /\ q \in Procs /\ q \notin live
        /\ life' = [life EXCEPT ![q] = "live"]
        /\ callee' = [callee EXCEPT ![p] = q] /\ towake' = [towake EXCEPT ![q] = p]
        /\ SwitchInOperator(p, <<q>>) /\ UNCHANGED awaiting
    BY <1>7 DEF raise_pre_event, unborn, live
  <2>2. live' = live \cup {q} /\ life' \in [Procs -> {"unborn", "live", "erased"}]
    BY <1>0, <2>1, LiveGrows
  <2>3. /\ asleep' = asleep \cup {p} /\ at' = [at EXCEPT ![p] = "rest"]
        /\ UNCHANGED <<dead, sleeping, suspended, wasSleeping, terminated>>
    BY <1>6, <2>1
  <2>4. /\ \A r \in Procs \ {p} : at'[r] = at[r] /\ callee'[r] = callee[r]
        /\ callee'[p] = q /\ at'[p] = "rest"
        /\ \A r \in Procs : towake'[r] = IF r = q THEN p ELSE towake[r]
    BY <1>0, <2>1, <2>3
  <2>. QED BY <1>0, <2>1, <2>2, <2>3, <2>4, TurnKeepsFound
<1>8. CASE pre_event_fails(p) \/ (callee[p] = None /\ sys_wait(p))
  <2>1. /\ SwitchInOperator(p, <<>>) /\ UNCHANGED <<life, towake>>
        /\ callee' = [callee EXCEPT ![p] = None]
        /\ awaiting' \in {awaiting, awaiting \cup {p}}
    BY <1>1, <1>8 DEF pre_event_fails, sys_wait, EventOver
  <2>2. live' = live
    BY <2>1 DEF live
  <2>3. /\ asleep' = asleep \cup {p} /\ at' = [at EXCEPT ![p] = "rest"]
        /\ UNCHANGED <<dead, sleeping, suspended, wasSleeping, terminated>>
    BY <1>6, <2>1
  <2>4. /\ \A r \in Procs \ {p} : at'[r] = at[r] /\ callee'[r] = callee[r]
        /\ callee'[p] = None /\ at'[p] = "rest"
    BY <1>0, <2>1, <2>3
  <2>. QED BY <1>0, <2>1, <2>2, <2>3, <2>4, TurnKeepsFound
<1>. QED BY <1>2, <1>3, <1>4, <1>5, <1>7, <1>8 DEF Operator, RestOfOperator, RaisesEvent

\* The debugger stops a process before its operator.
LEMMA StopKeepsFound ==
    ASSUME TypeOK, WakesNobodyYet, Found, NEW p \in live, p \notin asleep,
           stay_suspended(p) \/ stop_before_step(p)
    PROVE  WakesNobodyYet' /\ Found'
<1>1. /\ p \in Procs /\ at \in [Procs -> {"start", "op", "rest", "loop"}]
      /\ life \in [Procs -> {"unborn", "live", "erased"}]
  BY DEF TypeOK, live
<1>2. p \notin dead /\ callee[p] = None
  BY <1>1 DEF stay_suspended, stop_before_step, BeforeStep, Found, RunnersAlive, CallersInside
<1>3. /\ UNCHANGED <<life, dead, sleeping, callee, towake, awaiting, wasSleeping, terminated>>
      /\ asleep' = asleep \cup {p}
      /\ suspended' \in {suspended, suspended \cup {p}}
      /\ \E x : at' = [at EXCEPT ![p] = x]
  BY DEF stay_suspended, stop_before_step, kinship, handlers, debugger
<1>4. live' = live
  BY <1>3 DEF live
<1>5. \A r \in Procs \ {p} : at'[r] = at[r]
  BY <1>1, <1>3
<1>. QED BY <1>1, <1>2, <1>3, <1>4, <1>5, TurnKeepsFound

\* The host and the debugger between two turns.
LEMMA HostKeepsFound ==
    ASSUME TypeOK, WakesNobodyYet, Found, NEW p \in Procs,
           \/ run_program(p) \/ scp_spawn_process(p)
           \/ suspend_one(p) \/ resume_one(p) \/ terminate_one(p) \/ event(p)
    PROVE  WakesNobodyYet' /\ Found'
<1>. USE DEF kinship, handlers, debugger
<1>0. /\ life \in [Procs -> {"unborn", "live", "erased"}]
      /\ live \subseteq Procs
      /\ dead \cup sleeping \cup asleep \cup suspended \cup awaiting \subseteq live
      /\ towake \in [Procs -> Procs \cup {None}]
  BY DEF TypeOK, live
<1>1. CASE run_program(p) \/ scp_spawn_process(p)
  <2>1. /\ p \notin live /\ life' = [life EXCEPT ![p] = "live"]
        /\ UNCHANGED <<dead, sleeping, at, callee, towake, awaiting, wasSleeping, terminated>>
        /\ asleep \subseteq asleep' /\ suspended \subseteq suspended'
        /\ suspended' \subseteq suspended \cup {p}
        /\ suspended' # suspended => p \in asleep'
    BY <1>1 DEF run_program, scp_spawn_process, unborn, live
  <2>2. live' = live \cup {p}
    BY <1>0, <2>1, LiveGrows
  <2>3. towake[p] = None
    BY <2>1 DEF WakesNobodyYet
  <2>4. WakesNobodyYet' /\ RunnersAlive'
    BY <2>1, <2>2 DEF Found, WakesNobodyYet, RunnersAlive
  <2>5. SleepersAsleep'
    BY <1>0, <2>1 DEF Found, SleepersAsleep, StaysAsleep
  <2>6. CallersAsleep'
    <3>. SUFFICES ASSUME NEW q \in live', NEW r \in Procs, r \notin terminated', towake'[q] = r
                  PROVE  /\ r \in asleep' /\ (r \in suspended' => r \in wasSleeping')
                         /\ callee'[r] = q /\ r \notin dead'
      BY DEF CallersAsleep, StaysAsleep
    <3>1. q \in live
      BY <2>1, <2>2, <2>3, NoneIsNoProc
    <3>2. /\ r \in asleep /\ (r \in suspended => r \in wasSleeping)
          /\ callee[r] = q /\ r \notin dead
      BY <2>1, <3>1 DEF Found, CallersAsleep, StaysAsleep
    <3>. QED BY <1>0, <2>1, <3>2
  <2>7. SuspendedAsleep'
    BY <2>1 DEF Found, SuspendedAsleep
  <2>8. CallersInside' /\ AwaitersAsleep'
    BY <1>0, <2>1 DEF Found, CallersInside, AwaitersAsleep, StaysAsleep
  <2>. QED BY <2>4, <2>5, <2>6, <2>7, <2>8 DEF Found
<1>2. CASE suspend_one(p) \/ resume_one(p) \/ terminate_one(p)
  <2>1. /\ UNCHANGED <<life, dead, sleeping, at, callee, towake, awaiting>>
        /\ terminated \subseteq terminated'
    BY <1>2 DEF suspend_one, resume_one, terminate_one
  <2>2. live' = live
    BY <2>1 DEF live
  <2>3. ASSUME NEW r \in Procs \ terminated', StaysAsleep(r)
        PROVE  StaysAsleep(r)'
    BY <1>2, <2>3 DEF StaysAsleep, suspend_one, resume_one, terminate_one, pm_sched_wakeup
  <2>4. WakesNobodyYet' /\ RunnersAlive'
    BY <2>1, <2>2 DEF Found, WakesNobodyYet, RunnersAlive
  <2>5. SleepersAsleep'
    BY <1>0, <2>1, <2>3 DEF Found, SleepersAsleep
  <2>6. CallersAsleep'
    BY <2>1, <2>2, <2>3 DEF Found, CallersAsleep
  <2>7. SuspendedAsleep'
    BY <1>2 DEF Found, SuspendedAsleep, suspend_one, resume_one, terminate_one, pm_sched_wakeup
  <2>8. CallersInside' /\ AwaitersAsleep'
    BY <1>0, <2>1, <2>3 DEF Found, CallersInside, AwaitersAsleep
  <2>. QED BY <2>4, <2>5, <2>6, <2>7, <2>8 DEF Found
<1>3. CASE event(p)
  <2>1. /\ UNCHANGED <<life, dead, sleeping, at, callee, towake, suspended, wasSleeping, terminated>>
        /\ p \in awaiting /\ awaiting' = awaiting \ {p} /\ asleep' = asleep \ {p}
    BY <1>3 DEF event, pm_sched_wakeup
  <2>2. live' = live
    BY <2>1 DEF live
  <2>3. p \notin terminated => StaysAsleep(p) /\ callee[p] = None /\ p \notin sleeping
    BY <2>1 DEF Found, AwaitersAsleep
  <2>4. ASSUME NEW r \in Procs \ {p}, StaysAsleep(r)
        PROVE  StaysAsleep(r)'
    BY <2>1, <2>4 DEF StaysAsleep
  <2>5. WakesNobodyYet' /\ RunnersAlive' /\ CallersInside'
    BY <2>1, <2>2 DEF Found, WakesNobodyYet, RunnersAlive, CallersInside
  <2>6. SleepersAsleep' /\ AwaitersAsleep'
    BY <1>0, <2>1, <2>3, <2>4 DEF Found, SleepersAsleep, AwaitersAsleep
  <2>7. CallersAsleep'
    <3>1. \A q \in live : towake[q] = p => p \in terminated
      BY <1>0, <2>3, NoneIsNoProc DEF Found, CallersAsleep
    <3>. QED BY <2>1, <2>2, <2>4, <3>1 DEF Found, CallersAsleep
  <2>8. SuspendedAsleep'
    BY <2>1, <2>3 DEF Found, SuspendedAsleep, StaysAsleep
  <2>. QED BY <2>5, <2>6, <2>7, <2>8 DEF Found
<1>. QED BY <1>1, <1>2, <1>3

\* Every step keeps what the hooks find.
LEMMA NextFound ==
    ASSUME OnceInv, HooksInv, [Next]_vars
    PROVE  HooksInv'
<1>. USE DEF OnceInv, HooksInv
<1>1. CASE Turn
  <2>1. crash = None /\ queue # <<>> /\ Found /\ WakesNobodyYet
    BY <1>1 DEF Turn
  <2>2. PICK p \in Procs : p = Head(queue) /\ p \in live /\ p \notin asleep
    BY <2>1, HeadMoves
  <2>3. CASE stay_suspended(p) \/ stop_before_step(p)
    BY <2>1, <2>2, <2>3, StopKeepsFound
  <2>4. CASE (RunsOperator(p) /\ Operator(p)) \/ (at[p] = "rest" /\ RestOfOperator(p))
    <3>0. p \in Procs
      BY <2>2 DEF live
    <3>1. p \notin dead /\ (RunsOperator(p) => callee[p] = None)
      BY <2>1, <2>4, <3>0 DEF RunsOperator, BeforeStep, Found, RunnersAlive, CallersInside
    <3>2. CASE crash' = None
      BY <2>1, <2>2, <2>4, <3>1, <3>2, OperatorKeepsFound
    <3>3. CASE crash' # None
      <4>1. UNCHANGED <<life, towake>>
        BY <2>1, <2>4, <3>0, <3>3, OnlyErrorsCrash DEF kinship, handlers
      <4>. QED BY <2>1, <3>3, <4>1 DEF WakesNobodyYet, live
    <3>. QED BY <3>2, <3>3
  <2>5. CASE p \in dead /\ finalize_process(p)
    BY <2>1, <2>2, <2>5, DeathKeepsFound
  <2>6. CASE finalize_fails(p)
    <3>1. crash' \in Crashes /\ UNCHANGED <<life, towake>>
      BY <2>6 DEF finalize_fails, Crashes, kinship, handlers
    <3>. QED BY <2>1, <3>1, NoneIsNoCrash DEF WakesNobodyYet, live
  <2>. QED BY <1>1, <2>2, <2>3, <2>4, <2>5, <2>6 DEF Turn
<1>2. ASSUME NEW p \in Procs, \/ run_program(p) \/ scp_spawn_process(p) \/ event(p)
                              \/ suspend_one(p) \/ resume_one(p) \/ terminate_one(p)
      PROVE  HooksInv'
  <2>1. crash = None
    BY <1>2 DEF run_program, scp_spawn_process, suspend_one, resume_one, terminate_one, event,
                Command
  <2>. QED BY <1>2, <2>1, HostKeepsFound
<1>3. CASE UNCHANGED vars
  BY <1>3 DEF vars, WakesNobodyYet, live, Found, RunnersAlive, SleepersAsleep, CallersAsleep,
              SuspendedAsleep, StaysAsleep, CallersInside, AwaitersAsleep
<1>. QED BY <1>1, <1>2, <1>3 DEF Next

\* The invariant holds throughout.
LEMMA HooksInvariant == Spec => []HooksInv
<1>1. Init => HooksInv
  BY DEF Init, HooksInv, WakesNobodyYet, live, Found, RunnersAlive, SleepersAsleep, CallersAsleep,
         SuspendedAsleep, StaysAsleep, CallersInside, AwaitersAsleep
<1>2. OnceInv /\ HooksInv /\ [Next]_vars => HooksInv'
  BY NextFound
<1>. QED BY <1>1, <1>2, ScheduledInvariant, PTL DEF Spec

\* The hooks of a death find the father asleep, unless it dies or is terminated,
\* and find the process that a handler has to wake suspended in its frame for
\* this very handler: only terminate makes wakeup_activity write to a frame that
\* is gone, and only it or a father that dies makes child_death_hook abort.
THEOREM HooksFindSleepers == Spec => []HooksFindAsleep
<1>1. OnceInv /\ HooksInv => HooksFindAsleep
  <2>. SUFFICES ASSUME OnceInv, HooksInv, crash = None
                PROVE  /\ sleeping \ (dead \cup terminated) \subseteq asleep
                       /\ \A q \in live : towake[q] \notin terminated \cup {None} =>
                             callee[towake[q]] = q /\ towake[q] \in asleep
    BY DEF HooksFindAsleep
  <2>1. Found /\ \A q \in live : towake[q] \in Procs \cup {None}
    BY DEF HooksInv, OnceInv, TypeOK, live
  <2>. QED BY <2>1 DEF Found, SleepersAsleep, CallersAsleep, StaysAsleep
<1>. QED BY <1>1, ScheduledInvariant, HooksInvariant, PTL
-----------------------------------------------------------------------------
(***************************************************************************)
(* Fathers that wait                                                       *)
(*                                                                         *)
(* The hook looks at the oldest arc only.  A process that is not asleep    *)
(* has no arc, or its oldest is one of an earlier wait for all sons, which *)
(* is never erased: so the arc of a new wait is the oldest one, or the     *)
(* wait is taken for one for all sons.  That a process is not in           *)
(* PROCESS_STATE_SLEEP when an operator begins follows from Found.         *)
(***************************************************************************)

Waiter(f) ==
    /\ OldestWait(f) # ALL_CHILDS => Len(waiting[f]) <= 1
    /\ f \notin sleeping => OldestWait(f) \in {None, ALL_CHILDS}
    /\ f \in sleeping \ unfounded => Founded(f, OldestWait(f))

WaitsInv ==
    /\ \A f \in live \ (dead \cup terminated) : Waiter(f)
    /\ \A f \in Procs \ live : waiting[f] = <<>>

\* The oldest arc.
LEMMA Oldest ==
    ASSUME Lists, NEW f \in Procs
    PROVE  /\ waiting[f] \in Seq(Procs \cup {ALL_CHILDS}) /\ Len(waiting[f]) \in Nat
           /\ OldestWait(f) = None <=> waiting[f] = <<>>
           /\ waiting[f] # <<>> => OldestWait(f) = waiting[f][1] /\ Len(waiting[f]) >= 1
<1>1. waiting[f] \in Seq(Procs \cup {ALL_CHILDS})
  BY DEF Lists
<1>2. waiting[f] # <<>> =>
        /\ Head(waiting[f]) \in Procs \cup {ALL_CHILDS} /\ Head(waiting[f]) = waiting[f][1]
        /\ Len(waiting[f]) \in Nat /\ Len(waiting[f]) >= 1
  BY <1>1
<1>3. Len(waiting[f]) \in Nat
  BY <1>1
<1>. QED BY <1>1, <1>2, <1>3, NoneIsNoProc, AllIsNoProc DEF OldestWait

\* A step that does not touch the waits; processes may be born.
LEMMA WaitsStay ==
    ASSUME TypeOK, WaitsInv, live \subseteq live',
           \A q \in live : father'[q] = father[q],
           UNCHANGED <<waiting, sleeping, unfounded>>,
           dead \subseteq dead', terminated \subseteq terminated'
    PROVE  WaitsInv'
<1>1. live' \subseteq Procs /\ sleeping \subseteq live
  BY DEF TypeOK, live
<1>2. \A f \in Procs : sons(f) \subseteq sons(f)'
  BY DEF sons
<1>3. \A f \in Procs : OldestWait(f)' = OldestWait(f)
  BY DEF OldestWait
<1>4. \A f \in Procs : Founded(f, OldestWait(f)) => Founded(f, OldestWait(f))'
  BY <1>2, <1>3 DEF Founded
<1>5. ASSUME NEW f \in live' \ (dead' \cup terminated')
      PROVE  Waiter(f)'
  <2>1. CASE f \in live
    BY <1>1, <1>3, <1>4, <2>1 DEF WaitsInv, Waiter
  <2>2. CASE f \notin live
    <3>1. waiting[f] = <<>> /\ f \notin sleeping
      BY <1>1, <2>2 DEF WaitsInv
    <3>2. OldestWait(f)' = None /\ Len(waiting'[f]) <= 1
      BY <3>1 DEF OldestWait
    <3>. QED BY <3>1, <3>2 DEF Waiter
  <2>. QED BY <2>1, <2>2
<1>6. \A f \in Procs \ live' : waiting'[f] = <<>>
  BY DEF WaitsInv
<1>. QED BY <1>5, <1>6 DEF WaitsInv

\* Waiting begins: the new arc is the oldest, or one for all sons is.
LEMMA WaitsBegin ==
    ASSUME TypeOK, Lists, WaitsInv, NEW p \in live, p \notin dead,
           p \notin sleeping \/ p \in terminated, NEW w \in Procs \cup {ALL_CHILDS},
           waiting' = [waiting EXCEPT ![p] = Append(@, w)],
           unfounded' = IF Founded(p, w) THEN unfounded \ {p} ELSE unfounded \cup {p},
           UNCHANGED <<life, father, terminated>>,
           sleeping' = sleeping \cup {p}, dead \subseteq dead'
    PROVE  WaitsInv'
<1>0. live' = live /\ \A f \in Procs : sons(f)' = sons(f)
  BY DEF sons, live
<1>1. p \in Procs /\ waiting \in [Procs -> Seq(Procs \cup {ALL_CHILDS})]
  BY DEF Lists, live
<1>2. /\ waiting'[p] = Append(waiting[p], w)
      /\ \A f \in Procs \ {p} : waiting'[f] = waiting[f]
  BY <1>1
<1>3. ASSUME NEW f \in live' \ (dead' \cup terminated'), f # p
      PROVE  Waiter(f)'
  <2>1. f \in live \ (dead \cup terminated) /\ f \in Procs
    BY <1>0 DEF live
  <2>2. OldestWait(f)' = OldestWait(f) /\ Founded(f, OldestWait(f))' = Founded(f, OldestWait(f))
    BY <1>0, <1>2, <1>3, <2>1 DEF OldestWait, Founded
  <2>. QED BY <1>2, <1>3, <2>1, <2>2 DEF WaitsInv, Waiter
<1>4. ASSUME p \notin dead' \cup terminated'
      PROVE  Waiter(p)'
  <2>1. OldestWait(p) \in {None, ALL_CHILDS}
    BY <1>4 DEF WaitsInv, Waiter
  <2>2. CASE OldestWait(p) = None
    <3>1. waiting[p] = <<>>
      BY <1>1, <2>2, Oldest
    <3>2. waiting'[p] = <<w>>
      BY <1>2, <3>1
    <3>3. OldestWait(p)' = w /\ Len(waiting'[p]) <= 1
      <4>1. <<w>> # <<>> /\ Head(<<w>>) = w /\ Len(<<w>>) <= 1
        OBVIOUS
      <4>. QED BY <3>2, <4>1 DEF OldestWait
    <3>4. p \in sleeping' \ unfounded' => Founded(p, w)'
      BY <1>0, <1>1 DEF Founded
    <3>5. Founded(p, OldestWait(p))' = Founded(p, w)'
      BY <3>3 DEF Founded
    <3>. QED BY <3>3, <3>4, <3>5 DEF Waiter
  <2>3. CASE OldestWait(p) = ALL_CHILDS
    <3>1. /\ waiting[p] # <<>> /\ waiting[p][1] = ALL_CHILDS /\ Len(waiting[p]) >= 1
          /\ waiting[p] \in Seq(Procs \cup {ALL_CHILDS})
      BY <1>1, <2>3, Oldest, AllIsNoProc
    <3>2. /\ Append(waiting[p], w) # <<>>
          /\ Head(Append(waiting[p], w)) = ALL_CHILDS
      BY <3>1
    <3>3. OldestWait(p)' = ALL_CHILDS
      BY <1>2, <3>2 DEF OldestWait
    <3>4. p \in sleeping' \ unfounded' => sons(p)' # {}
      BY <1>0, <1>1 DEF Founded
    <3>. QED BY <3>3, <3>4 DEF Waiter, Founded
  <2>. QED BY <2>1, <2>2, <2>3
<1>5. \A f \in Procs \ live' : waiting'[f] = <<>>
  BY <1>0, <1>2 DEF WaitsInv
<1>. QED BY <1>3, <1>4, <1>5 DEF WaitsInv

\* A process dies.  The father is woken by the hook when the process is the end
\* of its oldest arc, or its last son; else its wait stays founded.
LEMMA WaitsEnd ==
    ASSUME TypeOK, Lists, WaitsInv, NEW p \in Procs, finalize_process(p)
    PROVE  WaitsInv'
<1>1. /\ life' = [life EXCEPT ![p] = "erased"]
      /\ father' = [r \in Procs |-> IF p \in {r, father[r]} THEN None ELSE father[r]]
      /\ waiting' = [r \in Procs |-> IF r = p THEN <<>> ELSE Drop(waiting[r], p)]
      /\ sleeping' = sleeping \ (FatherToWake(p) \cup {p})
      /\ unfounded' = unfounded \ {p}
      /\ dead' = dead \ {p} /\ UNCHANGED terminated
  BY DEF finalize_process, Finalize
<1>2. live' = live \ {p}
  BY <1>1, LiveShrinks DEF TypeOK
<1>3. \A f \in Procs \ {p} : sons(f)' = sons(f) \ {p}
  <2>. SUFFICES ASSUME NEW f \in Procs, f # p
                PROVE  sons(f)' = sons(f) \ {p}
    OBVIOUS
  <2>1. \A q \in live' : father'[q] = f <=> father[q] = f
    BY <1>1, <1>2, NoneIsNoProc DEF live
  <2>2. sons(f)' = {q \in live' : father'[q] = f} /\ sons(f) = {q \in live : father[q] = f}
    BY DEF sons
  <2>. QED BY <1>2, <2>1, <2>2
<1>4. ASSUME NEW f \in Procs, f # p
      PROVE  /\ Len(waiting'[f]) \in Nat /\ Len(waiting'[f]) <= Len(waiting[f])
             /\ OldestWait(f) # p => OldestWait(f)' = OldestWait(f)
             /\ OldestWait(f) = p /\ Len(waiting[f]) <= 1 => waiting'[f] = <<>>
  <2>1. /\ waiting[f] \in Seq(Procs \cup {ALL_CHILDS}) /\ Len(waiting[f]) \in Nat
        /\ OldestWait(f) = None <=> waiting[f] = <<>>
        /\ waiting[f] # <<>> => OldestWait(f) = waiting[f][1] /\ Len(waiting[f]) >= 1
    BY Oldest
  <2>2. waiting'[f] = Drop(waiting[f], p)
    BY <1>1, <1>4
  <2>3. /\ Drop(waiting[f], p) \in Seq(Procs \cup {ALL_CHILDS})
        /\ Len(Drop(waiting[f], p)) <= Len(waiting[f])
        /\ ToSet(Drop(waiting[f], p)) = ToSet(waiting[f]) \ {p}
        /\ waiting[f] # <<>> /\ Head(waiting[f]) # p
             => Drop(waiting[f], p) # <<>> /\ Head(Drop(waiting[f], p)) = Head(waiting[f])
    BY <2>1, Dropped
  <2>4. Len(Drop(waiting[f], p)) \in Nat /\ (Len(Drop(waiting[f], p)) <= 0 => Drop(waiting[f], p) = <<>>)
    BY <2>3
  <2>5. waiting[f] = <<>> => Drop(waiting[f], p) = <<>>
    BY <2>3, <2>4
  <2>6. OldestWait(f) # p => OldestWait(f)' = OldestWait(f)
    BY <2>2, <2>3, <2>5 DEF OldestWait
  <2>7. OldestWait(f) = p /\ Len(waiting[f]) <= 1 => waiting'[f] = <<>>
    <3>. SUFFICES ASSUME OldestWait(f) = p, Len(waiting[f]) <= 1
                  PROVE  Drop(waiting[f], p) = <<>>
      BY <2>2
    <3>0. waiting[f] # <<>>
      BY <2>1, NoneIsNoProc
    <3>1. Len(waiting[f]) = 1 /\ waiting[f][1] = p
      <4>1. waiting[f][1] = p /\ Len(waiting[f]) >= 1 /\ Len(waiting[f]) \in Nat
        BY <2>1, <3>0
      <4>2. \A n \in Nat : n >= 1 /\ n <= 1 => n = 1
        OBVIOUS
      <4>. QED BY <4>1, <4>2, Zenon
    <3>2. ToSet(waiting[f]) = {p}
      BY <2>1, <3>1 DEF ToSet
    <3>3. ToSet(Drop(waiting[f], p)) = {}
      BY <2>3, <3>2
    <3>4. Len(Drop(waiting[f], p)) <= 0
      <4>1. SUFFICES ASSUME Len(Drop(waiting[f], p)) >= 1
                     PROVE  FALSE
        BY <2>4
      <4>2. 1 \in DOMAIN Drop(waiting[f], p)
        BY <2>3, <4>1
      <4>. QED BY <3>3, <4>2 DEF ToSet
    <3>. QED BY <2>4, <3>4
  <2>. QED BY <2>2, <2>3, <2>4, <2>6, <2>7
<1>5. ASSUME NEW f \in live' \ (dead' \cup terminated')
      PROVE  Waiter(f)'
  <2>1. f \in live \ (dead \cup terminated) /\ f # p /\ f \in Procs
    BY <1>1, <1>2 DEF live
  <2>2. /\ OldestWait(f) # ALL_CHILDS => Len(waiting[f]) <= 1
        /\ f \notin sleeping => OldestWait(f) \in {None, ALL_CHILDS}
        /\ f \in sleeping \ unfounded => Founded(f, OldestWait(f))
    BY <2>1 DEF WaitsInv, Waiter
  <2>3. Len(waiting[f]) \in Nat /\ ALL_CHILDS # p /\ ALL_CHILDS # None /\ p # None
    BY <2>1, Oldest, AllIsNoProc, NoneIsNoProc
  <2>4. OldestWait(f) = p => OldestWait(f)' = None
    <3>1. OldestWait(f) = p => waiting'[f] = <<>>
      BY <1>4, <2>1, <2>2, <2>3
    <3>. QED BY <3>1 DEF OldestWait
  <2>5. OldestWait(f)' # ALL_CHILDS => Len(waiting'[f]) <= 1
    BY <1>4, <2>1, <2>2, <2>3, <2>4
  <2>6. f \in FatherToWake(p) => OldestWait(f) \in {p, ALL_CHILDS}
    BY DEF FatherToWake, HookWakes, OldestWait
  <2>7. f \notin sleeping' => OldestWait(f)' \in {None, ALL_CHILDS}
    BY <1>1, <1>4, <2>1, <2>2, <2>4, <2>6
  <2>8. ASSUME f \in sleeping' \ unfounded'
        PROVE  Founded(f, OldestWait(f))'
    <3>1. f \in sleeping \ unfounded /\ f \notin FatherToWake(p)
      BY <1>1, <2>1, <2>8
    <3>2. Founded(f, OldestWait(f)) /\ waiting[f] # <<>>
      <4>1. Founded(f, OldestWait(f))
        BY <2>2, <3>1
      <4>2. OldestWait(f) # None
        BY <4>1, NoneIsNoProc, AllIsNoProc DEF Founded, sons, live
      <4>. QED BY <4>1, <4>2 DEF OldestWait
    <3>3. ~(father[p] = f /\ HookWakes(f, p))
      BY <2>1, <3>1 DEF FatherToWake
    <3>4. CASE OldestWait(f) \in sons(f)
      <4>1. OldestWait(f) # p
        BY <3>1, <3>2, <3>3, <3>4 DEF HookWakes, OldestWait, sons
      <4>2. OldestWait(f)' = OldestWait(f) /\ OldestWait(f) \in sons(f)'
        BY <1>3, <1>4, <2>1, <3>4, <4>1
      <4>. QED BY <4>2 DEF Founded
    <3>5. CASE OldestWait(f) = ALL_CHILDS /\ sons(f) # {}
      <4>1. OldestWait(f)' = ALL_CHILDS
        BY <1>4, <2>1, <2>3, <3>5
      <4>2. sons(f) # {p}
        <5>1. Cardinality({p}) = 1
          BY FS_Singleton
        <5>2. SUFFICES ASSUME sons(f) = {p}
                       PROVE  FALSE
          OBVIOUS
        <5>3. Cardinality(sons(f)) < 2 /\ father[p] = f
          <6>1. father[p] = f
            BY <5>2 DEF sons
          <6>2. Cardinality(sons(f)) = 1
            BY <5>1, <5>2
          <6>. QED BY <6>1, <6>2
        <5>. QED BY <3>1, <3>2, <3>3, <3>5, <5>3 DEF HookWakes, OldestWait
      <4>3. sons(f)' # {}
        BY <1>3, <2>1, <3>5, <4>2
      <4>. QED BY <4>1, <4>3 DEF Founded
    <3>. QED BY <3>2, <3>4, <3>5 DEF Founded
  <2>. QED BY <2>5, <2>7, <2>8 DEF Waiter
<1>6. ASSUME NEW f \in Procs \ live'
      PROVE  waiting'[f] = <<>>
  <2>1. CASE f = p
    BY <1>1, <2>1
  <2>2. CASE f # p
    <3>1. waiting[f] = <<>>
      BY <1>2, <2>2 DEF WaitsInv
    <3>2. Len(waiting'[f]) \in Nat /\ Len(waiting'[f]) <= 0
      BY <1>4, <2>2, <3>1
    <3>3. waiting'[f] \in Seq(Procs \cup {ALL_CHILDS})
      <4>1. waiting[f] \in Seq(Procs \cup {ALL_CHILDS})
        BY DEF Lists
      <4>2. Drop(waiting[f], p) \in Seq(Procs \cup {ALL_CHILDS})
        BY <4>1, Dropped
      <4>. QED BY <1>1, <2>2, <4>2
    <3>. QED BY <3>2, <3>3
  <2>. QED BY <2>1, <2>2
<1>. QED BY <1>5, <1>6 DEF WaitsInv

\* Every step keeps what a father that sleeps waits for.
LEMMA NextWaits ==
    ASSUME OnceInv, HooksInv, WaitsInv, [Next]_vars
    PROVE  WaitsInv'
<1>. USE DEF kinship, handlers, debugger, OnceInv
<1>1. ASSUME NEW p \in Procs, NEW q \in Procs, NEW f, call(p, q, f)
      PROVE  WaitsInv'
  <2>1. PICK o : EndActivation(p, o, Append(Rotated, q), asleep, sleeping)
    BY <1>1 DEF call
  <2>2. sleeping' = sleeping /\ dead \subseteq dead' /\ UNCHANGED terminated
    BY <2>1, ActivationFields
  <2>3. /\ q \notin live /\ life' = [life EXCEPT ![q] = "live"]
        /\ father' = [father EXCEPT ![q] = f] /\ UNCHANGED <<waiting, unfounded>>
    BY <1>1 DEF call, live, unborn
  <2>4. live' = live \cup {q}
    BY <2>3, LiveGrows DEF TypeOK
  <2>5. \A r \in live : father'[r] = father[r]
    BY <2>3 DEF TypeOK, live
  <2>. QED BY <2>2, <2>3, <2>4, <2>5, WaitsStay
<1>2. ASSUME NEW p \in live, p \notin dead, p \notin sleeping \/ p \in terminated,
             NEW w \in Procs \cup {ALL_CHILDS}, waitReturn(p, w)
      PROVE  WaitsInv'
  <2>0. p \in Procs
    BY DEF live
  <2>1. PICK o, s : /\ EndActivation(p, o, Rotated, asleep, s)
                    /\ \/ /\ waiting' = [waiting EXCEPT ![p] = Append(@, w)]
                          /\ unfounded' = IF Founded(p, w) THEN unfounded \ {p}
                                                           ELSE unfounded \cup {p}
                          /\ s = sleeping \cup {p}
                       \/ s = sleeping /\ UNCHANGED <<waiting, unfounded>>
    BY <1>2 DEF waitReturn, SleepOn
  <2>2. sleeping' = s /\ dead \subseteq dead' /\ UNCHANGED <<life, father, terminated>>
    BY <1>2, <2>0, <2>1, ActivationFields DEF waitReturn
  <2>3. live' = live
    BY <2>2 DEF live
  <2>4. CASE s = sleeping /\ UNCHANGED <<waiting, unfounded>>
    BY <2>2, <2>3, <2>4, WaitsStay
  <2>. QED BY <1>2, <2>1, <2>2, <2>4, WaitsBegin
<1>3. ASSUME NEW p \in Procs, nop(p) \/ callReturn(p) \/ return(p) \/ halt(p)
      PROVE  WaitsInv'
  <2>1. PICK o, q, a : EndActivation(p, o, q, a, sleeping)
    BY <1>3 DEF nop, callReturn, return, halt
  <2>2. sleeping' = sleeping /\ dead \subseteq dead' /\ UNCHANGED terminated
    BY <2>1, ActivationFields
  <2>3. UNCHANGED <<life, father, waiting, unfounded>>
    BY <1>3 DEF nop, callReturn, return, halt
  <2>4. live' = live
    BY <2>3 DEF live
  <2>. QED BY <2>2, <2>3, <2>4, WaitsStay
<1>4. ASSUME NEW p \in Procs, error_branch(p)
      PROVE  WaitsInv'
  <2>1. /\ UNCHANGED <<life, father, waiting, unfounded, sleeping, terminated>>
        /\ dead \subseteq dead'
    <3>1. CASE EndActivation(p, "dead", Rotated, asleep, sleeping)
      BY <1>4, <3>1, ActivationFields DEF error_branch
    <3>. QED BY <1>4, <3>1 DEF error_branch
  <2>2. live' = live
    BY <2>1 DEF live
  <2>. QED BY <2>1, <2>2, WaitsStay
<1>5. ASSUME NEW p \in Procs, pre_event_fails(p) \/ sys_wait(p)
      PROVE  WaitsInv'
  <2>1. SwitchInOperator(p, <<>>) /\ UNCHANGED <<life, father, waiting, unfounded>>
    BY <1>5 DEF pre_event_fails, sys_wait
  <2>2. UNCHANGED <<sleeping, dead, terminated>>
    BY <2>1, SwitchFields
  <2>3. live' = live
    BY <2>1 DEF live
  <2>. QED BY <2>1, <2>2, <2>3, WaitsStay
<1>6. ASSUME NEW p \in Procs,
             \/ \E q \in Procs : raise_pre_event(q, p)
             \/ run_program(p) \/ scp_spawn_process(p)
      PROVE  WaitsInv'
  <2>1. /\ life' = [life EXCEPT ![p] = "live"]
        /\ UNCHANGED <<father, waiting, unfounded, dead, sleeping, terminated>>
    BY <1>6, SwitchFields DEF raise_pre_event, run_program, scp_spawn_process
  <2>2. live' = live \cup {p}
    BY <2>1, LiveGrows DEF TypeOK
  <2>. QED BY <2>1, <2>2, WaitsStay
<1>7. ASSUME NEW p \in Procs,
             \/ stay_suspended(p) \/ stop_before_step(p) \/ finalize_fails(p)
             \/ suspend_one(p) \/ resume_one(p) \/ terminate_one(p) \/ event(p)
      PROVE  WaitsInv'
  <2>1. /\ UNCHANGED <<life, father, waiting, unfounded, dead, sleeping>>
        /\ terminated \subseteq terminated'
    BY <1>7 DEF stay_suspended, stop_before_step, finalize_fails, suspend_one, resume_one,
                terminate_one, event
  <2>2. live' = live
    BY <2>1 DEF live
  <2>. QED BY <2>1, <2>2, WaitsStay
<1>8. ASSUME NEW p \in Procs, finalize_process(p)
      PROVE  WaitsInv'
  BY <1>8, WaitsEnd
<1>9. CASE UNCHANGED vars
  <2>1. UNCHANGED <<life, father, waiting, unfounded, dead, sleeping, terminated>>
    BY <1>9 DEF vars
  <2>2. live' = live
    BY <2>1 DEF live
  <2>. QED BY <2>1, <2>2, WaitsStay
<1>10. CASE Turn
  <2>1. crash = None /\ queue # <<>> /\ Found
    BY <1>10 DEF Turn, HooksInv
  <2>2. PICK p \in Procs : p = Head(queue) /\ p \in live /\ p \notin asleep
    BY <2>1, HeadMoves DEF live
  <2>3. RunsOperator(p) => p \notin dead /\ (p \notin sleeping \/ p \in terminated)
    BY <2>1, <2>2 DEF RunsOperator, BeforeStep, Found, RunnersAlive, SleepersAsleep, StaysAsleep
  <2>4. \/ stay_suspended(p) \/ stop_before_step(p) \/ finalize_process(p) \/ finalize_fails(p)
        \/ RunsOperator(p) /\ Operator(p)
        \/ RestOfOperator(p)
    BY <1>10, <2>2 DEF Turn
  <2>. QED BY <1>1, <1>2, <1>3, <1>4, <1>5, <1>6, <1>7, <1>8, <2>2, <2>3, <2>4
           DEF Operator, RestOfOperator, RaisesEvent
<1>. QED BY <1>6, <1>7, <1>9, <1>10 DEF Next

\* A father that has gone to sleep for a son of its own, or for all the sons it
\* had, waits for a son that lives, whose hook will take its death for the one
\* waited for: the sleep cannot outlive the last hook that would end it.
THEOREM SleepersHaveWakers == Spec => []SleeperHasWaker
<1>1. Init => WaitsInv
  BY DEF Init, WaitsInv, live
<1>2. OnceInv /\ HooksInv /\ WaitsInv /\ [Next]_vars => WaitsInv'
  BY NextWaits
<1>3. OnceInv /\ WaitsInv => SleeperHasWaker
  BY DEF OnceInv, TypeOK, WaitsInv, Waiter, SleeperHasWaker
<1>. QED BY <1>1, <1>2, <1>3, ScheduledInvariant, HooksInvariant, PTL DEF Spec
=============================================================================
