----------------------------- MODULE ScSegments -----------------------------
(***************************************************************************)
(* Segments and sessions of libsc (libsc/sc_core.cpp, sc_segment.h,        *)
(* segtable.h): who has which segment open, what keeps a segment and its   *)
(* sign alive, and which slot of the segment table stands for it.          *)
(*                                                                         *)
(* A session remembers what it has opened as a set of slots (segment_set)  *)
(* and goes from a slot back to a segment through the segment table.  A    *)
(* segment gives its slot back when its last reference goes, which is      *)
(* later than its unlink.  A sign is an element of META: find_by_idtf      *)
(* finds it until it is erased, its memory stays as long as it is          *)
(* referenced.                                                             *)
(*                                                                         *)
(* Paths, the segments META and /info, rename and the links between        *)
(* segments are not represented, nor are the elements in the segments.     *)
(***************************************************************************)
EXTENDS Integers, FiniteSets, Functions, FiniteSetsExt

CONSTANTS Sessions,  \* normal sessions, each logged in any number of times
          Uris,      \* names of segments
          Segments,  \* sc_segment objects
          Signs,     \* addresses of signs
          Iters,     \* open iterators
          Slots,     \* indices of the segment table
          None,
          MaxRefs    \* bound on the references of a segment and of a sign

ASSUME NoneIsApart == None \notin Segments \cup Signs \cup Uris
ASSUME SlotsAreIndices == Slots \subseteq Nat
ASSUME MaxRefsIsNat == MaxRefs \in Nat
\* The segment table has slots (SC_MAX_SEGMENTS); sessions, names, segments and
\* iterators are objects in memory.
ASSUME SomeSlot == Slots # {}
ASSUME FiniteObjects ==
    IsFiniteSet(Sessions) /\ IsFiniteSet(Uris) /\ IsFiniteSet(Segments) /\ IsFiniteSet(Iters)

VARIABLES
    directory, \* name -> its segment in the repository, or None
    refcnt,    \* segment -> references; the object exists if there are any
    index,     \* segment -> its slot
    sign,      \* segment -> seg->sign, None until it is opened first
    table,     \* slot -> segment or None
    idtf,      \* sign -> the name META finds it by, None once it is erased
    signrefs,  \* sign -> references, those of the memory itself left out
    alive,     \* sessions between login and close
    opened_segments, \* session -> slots
    system_segset,   \* slots the system session has open
    iter,      \* iterator -> the segment it references, or None
    opened,    \* history: session -> the segments it has opened and not closed
    reopened   \* history: segments opened by a session that had them open

names == <<directory, index, idtf>>
sessions == <<alive, opened_segments, system_segset, opened>>
vars == <<names, refcnt, sign, table, signrefs, sessions, reopened, iter>>

Exists(g) == refcnt[g] > 0

is_segment_opened(s, g) == index[g] \in opened_segments[s]

\* The addresses that a new sign can have.
Unused == {q \in Signs : idtf[q] = None /\ signrefs[q] = 0}

\* What META finds under a name.
SignOf(u, found) == {q \in Signs : found[q] = u}

-----------------------------------------------------------------------------
(* References.                                                             *)

\* Mutation: the slot is given back when the segment leaves the repository.
SlotsOfUnlinked(counts, dying) == [i \in Slots |-> IF table[i] \in dying THEN None ELSE table[i]]

\* The table once the references are counts: a segment that has none left is
\* deleted and gives its slot back, also when it has been unlinked (dying)
\* before.
SlotsOfDeleted(counts, dying) ==
    [i \in Slots |-> IF table[i] # None /\ counts[table[i]] = 0 THEN None ELSE table[i]]

Recounted(counts, dying) ==
    /\ refcnt' = counts
    /\ table' = SlotsOfDeleted(counts, dying)
    /\ sign' = [g \in Segments |-> IF counts[g] = 0 THEN None ELSE sign[g]]
    /\ reopened' = {g \in reopened : counts[g] > 0}

\* unref for each segment of S.
UnrefAll(S) == [g \in Segments |-> refcnt[g] - (IF g \in S THEN 1 ELSE 0)]

\* unref for the sign of each segment of S.
UnrefSigns(S) == [q \in Signs |-> signrefs[q] - Cardinality({g \in S : sign[g] = q})]

-----------------------------------------------------------------------------
(* Opening.                                                                *)

\* Mutation: the sign is referenced only by the session that looks it up.
SignRefOnLookup(g, q) == IF sign[g] = None THEN [signrefs EXCEPT ![q] = @ + 1] ELSE signrefs

SignRef(g, q) == [signrefs EXCEPT ![q] = @ + 1]

\* normal_session::__open_segment on the segment g of slot i, with sign q and
\* counts references: it does not ask whether g is open already.
OpenWith(s, g, i, q, counts) ==
    /\ counts[g] < MaxRefs /\ signrefs[q] < MaxRefs
    /\ sign' = [sign EXCEPT ![g] = q]
    /\ signrefs' = SignRef(g, q)
    /\ refcnt' = [counts EXCEPT ![g] = @ + 1]
    /\ system_segset' = system_segset \cup {i}
    /\ opened_segments' = [opened_segments EXCEPT ![s] = @ \cup {i}]
    /\ opened' = [opened EXCEPT ![s] = @ \cup {g}]
    /\ reopened' = IF g \in opened[s] THEN reopened \cup {g} ELSE reopened
    /\ UNCHANGED <<alive, iter>>

\* The sign that g is opened with: the one it has, or the one META finds.
Signed(u, g, q) == IF sign[g] # None THEN q = sign[g] ELSE q \in SignOf(u, idtf)

\* open_segment: open unless it is open, and then nothing changes.
open_segment(s, u) ==
    /\ s \in alive
    /\ directory[u] # None /\ ~is_segment_opened(s, directory[u])
    /\ \E q \in Signs :
          /\ Signed(u, directory[u], q)
          /\ OpenWith(s, directory[u], index[directory[u]], q, refcnt)
    /\ UNCHANGED <<directory, index, idtf, table>>

\* open_segment_spider ("open it ignoring error code (could be opened already)")
\* and create_segment on a name that exists.
open_segment_spider(s, u) ==
    /\ s \in alive
    /\ directory[u] # None
    /\ \E q \in Signs :
          /\ Signed(u, directory[u], q)
          /\ OpenWith(s, directory[u], index[directory[u]], q, refcnt)
    /\ UNCHANGED <<directory, index, idtf, table>>

\* create_segment on a name that is free: a new segment in the lowest free slot,
\* a sign unless META finds one, and the segment is opened.
create_segment(s, u) ==
    /\ s \in alive
    /\ directory[u] = None
    /\ \E g \in Segments, i \in Slots, q \in Signs :
        /\ ~Exists(g)
        /\ table[i] = None /\ \A j \in Slots : table[j] = None => i <= j
        /\ IF SignOf(u, idtf) # {} THEN idtf[q] = u ELSE q \in Unused
        /\ directory' = [directory EXCEPT ![u] = g]
        /\ index' = [index EXCEPT ![g] = i]
        /\ table' = [table EXCEPT ![i] = g]
        /\ idtf' = [idtf EXCEPT ![q] = u]
        /\ OpenWith(s, g, i, q, [refcnt EXCEPT ![g] = 1])

\* Mutation: the new session gets the set of slots and no references.
ForkedCounts(S) == refcnt

\* __fork opens every segment of the old session for the new one.
ForkCounts(S) == [g \in Segments |-> refcnt[g] + (IF g \in S THEN 1 ELSE 0)]

\* The segments that FOR_ALL_SEGMENTS goes over in a session.
AllSegments(s) == {table[i] : i \in opened_segments[s]}

\* Each sign is referenced twice, by __fork and by __open_segment.
fork(s, new) ==
    /\ s \in alive /\ new \in Sessions \ alive
    /\ LET S == AllSegments(s) IN
        /\ None \notin S
        /\ \A g \in S : refcnt[g] < MaxRefs /\ signrefs[sign[g]] + 1 < MaxRefs
        /\ signrefs' = [q \in Signs |-> signrefs[q] + 2 * Cardinality({g \in S : sign[g] = q})]
        /\ refcnt' = ForkCounts(S)
        /\ opened' = [opened EXCEPT ![new] = S]
    /\ alive' = alive \cup {new}
    /\ opened_segments' = [opened_segments EXCEPT ![new] = opened_segments[s]]
    /\ system_segset' = system_segset \cup opened_segments[s]
    /\ UNCHANGED <<names, sign, table, reopened, iter>>

libsc_login(s) ==
    /\ s \notin alive
    /\ alive' = alive \cup {s}
    /\ UNCHANGED <<names, refcnt, sign, table, signrefs, opened_segments, system_segset, opened, reopened, iter>>

-----------------------------------------------------------------------------
(* Closing and unlinking.                                                  *)

\* A segment the session has not opened is refused; a segment is known by a name
\* or by a pointer that somebody who has it open has given away.
close_segment(s, g) ==
    /\ s \in alive
    /\ Exists(g) /\ is_segment_opened(s, g)
    /\ opened_segments' = [opened_segments EXCEPT ![s] = @ \ {index[g]}]
    /\ opened' = [opened EXCEPT ![s] = @ \ {g}]
    /\ signrefs' = UnrefSigns({g})
    /\ Recounted(UnrefAll({g}), {})
    /\ UNCHANGED <<names, alive, system_segset, iter>>

\* close of a session: every segment it has open.
close(s) ==
    /\ s \in alive
    /\ None \notin AllSegments(s)
    /\ signrefs' = UnrefSigns(AllSegments(s))
    /\ Recounted(UnrefAll(AllSegments(s)), {})
    /\ alive' = alive \ {s}
    /\ opened_segments' = [opened_segments EXCEPT ![s] = {}]
    /\ opened' = [opened EXCEPT ![s] = {}]
    /\ UNCHANGED <<names, system_segset, iter>>

\* erase_sign: kept if more than one session still references it.
Erased(u, counts) ==
    [q \in Signs |-> IF idtf[q] = u /\ counts[q] <= 1 THEN None ELSE idtf[q]]

\* unlink of a segment: closed for the caller, its sign erased, its name removed
\* and the reference of the repository given up (die).  The caller may be the
\* system session, whose close_segment does nothing.
unlink(s, u) ==
    /\ s = None \/ s \in alive
    /\ directory[u] # None
    /\ LET g == directory[u]
           own == IF s # None /\ is_segment_opened(s, g) THEN {g} ELSE {}
           counts == UnrefAll(own)
       IN /\ opened_segments' = [t \in Sessions |->
                 IF t = s THEN opened_segments[t] \ {index[h] : h \in own} ELSE opened_segments[t]]
          /\ opened' = [t \in Sessions |-> IF t = s THEN opened[t] \ own ELSE opened[t]]
          /\ signrefs' = UnrefSigns(own)
          /\ idtf' = Erased(u, signrefs')
          /\ Recounted([counts EXCEPT ![g] = @ - 1], {g})
    /\ directory' = [directory EXCEPT ![u] = None]
    /\ UNCHANGED <<index, alive, system_segset, iter>>

-----------------------------------------------------------------------------
(* Iterators reference the segment of the arc they stand at, whatever       *)
(* becomes of the session that has created them.                            *)

create_iterator(s, k, g) ==
    /\ s \in alive /\ iter[k] = None
    /\ Exists(g) /\ is_segment_opened(s, g) /\ refcnt[g] < MaxRefs
    /\ iter' = [iter EXCEPT ![k] = g]
    /\ refcnt' = [refcnt EXCEPT ![g] = @ + 1]
    /\ UNCHANGED <<names, sign, table, signrefs, sessions, reopened>>

delete_iterator(k) ==
    /\ iter[k] # None
    /\ iter' = [iter EXCEPT ![k] = None]
    /\ Recounted(UnrefAll({iter[k]}), {})
    /\ UNCHANGED <<names, signrefs, sessions>>

-----------------------------------------------------------------------------
Init ==
    /\ directory = [u \in Uris |-> None]
    /\ refcnt = [g \in Segments |-> 0]
    /\ index = [g \in Segments |-> CHOOSE i \in Slots : TRUE]
    /\ sign = [g \in Segments |-> None]
    /\ table = [i \in Slots |-> None]
    /\ idtf = [q \in Signs |-> None]
    /\ signrefs = [q \in Signs |-> 0]
    /\ alive = {}
    /\ opened_segments = [s \in Sessions |-> {}]
    /\ system_segset = {}
    /\ iter = [k \in Iters |-> None]
    /\ opened = [s \in Sessions |-> {}]
    /\ reopened = {}

Next ==
    \/ \E s \in Sessions :
        \/ libsc_login(s) \/ close(s)
        \/ \E new \in Sessions : fork(s, new)
        \/ \E u \in Uris : create_segment(s, u) \/ open_segment(s, u) \/ open_segment_spider(s, u)
        \/ \E g \in Segments : close_segment(s, g) \/ \E k \in Iters : create_iterator(s, k, g)
    \/ \E s \in Sessions \cup {None}, u \in Uris : unlink(s, u)
    \/ \E k \in Iters : delete_iterator(k)

Spec == Init /\ [][Next]_vars

-----------------------------------------------------------------------------
(***************************************************************************)
(* Properties                                                              *)
(***************************************************************************)

TypeOK ==
    /\ directory \in [Uris -> Segments \cup {None}]
    /\ refcnt \in [Segments -> Nat]
    /\ index \in [Segments -> Slots]
    /\ sign \in [Segments -> Signs \cup {None}]
    /\ table \in [Slots -> Segments \cup {None}]
    /\ idtf \in [Signs -> Uris \cup {None}]
    /\ signrefs \in [Signs -> Nat]
    /\ alive \subseteq Sessions
    /\ opened_segments \in [Sessions -> SUBSET Slots]
    /\ system_segset \subseteq Slots
    /\ iter \in [Iters -> Segments \cup {None}]
    /\ opened \in [Sessions -> SUBSET Segments]
    /\ reopened \subseteq Segments

\* The slots a session remembers stand for exactly the segments that it has
\* opened, whoever unlinks or closes them and however slots are used again: no
\* session sees a segment it has not opened through a slot it has kept, and
\* FOR_ALL_SEGMENTS finds a segment in every slot.
BitsDenoteOpened ==
    /\ TypeOK
    /\ \A s \in Sessions :
         /\ AllSegments(s) = opened[s]
         /\ opened_segments[s] = {index[g] : g \in opened[s]}

Holders(g) ==
    Cardinality({s \in Sessions : g \in opened[s]}) + Cardinality({k \in Iters : iter[k] = g})
    + Cardinality({u \in Uris : directory[u] = g})

\* A segment stays while the repository, a session or an iterator holds it, and
\* goes with the last of them ("when last session will close this segment it
\* will die", tmp_repo.cpp), unless a session has opened it twice.
RefsMatchHolders ==
    \A g \in Segments :
        /\ Holders(g) <= refcnt[g]
        /\ g \notin reopened => Holders(g) = refcnt[g]

\* A named segment has one sign in META, and it is the one the segment has been
\* opened with; the sign of an opened segment has a reference of every session
\* that has it open, so that closing never releases one that is gone.
SignsHeld ==
    /\ \A u \in Uris :
         directory[u] # None =>
             /\ Cardinality(SignOf(u, idtf)) = 1
             /\ sign[directory[u]] \in SignOf(u, idtf) \cup {None}
    /\ \A q \in Signs :
         Cardinality({o \in Sessions \X Segments : o[2] \in opened[o[1]] /\ sign[o[2]] = q}) <= signrefs[q]
=============================================================================
