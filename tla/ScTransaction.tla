--------------------------- MODULE ScTransaction ---------------------------
(***************************************************************************)
(* Transactions over sc-memory (libsc/sc_transaction.cpp, and the          *)
(* pm_transaction of libpm/transaction.h): a session that remembers what   *)
(* it has created and which ends it has changed, and that puts erasures    *)
(* off to its commit.                                                      *)
(*                                                                         *)
(* The elements are those of ScMemory.  Commit and rollback are loops over *)
(* the lists, one action per round: every call on the host session may run *)
(* handlers, and so may every call inside the transaction, that operate on *)
(* the same elements before it returns (Others).  What the transaction has *)
(* erased is referenced, so that its memory stays; what it has created or  *)
(* changed is not.                                                         *)
(***************************************************************************)
EXTENDS ScMemory, Sequences, SequencesExt

CONSTANTS MaxLog,    \* bound on the entries of the lists and the references
          UsedTypes  \* the types elements are given

ASSUME UsedTypesAreTypes == UsedTypes \subseteq Types
ASSUME MaxLogIsNat == MaxLog \in Nat

VARIABLES
    stage,                   \* idle, open, committing or rolling back
    gened_elems,             \* elements created by create_el
    orig_beg, orig_end,      \* pairs of an arc and the end it had
    erased_elems,            \* elements to erase at commit
    refs,                    \* element -> references held by transactions
    freed,                   \* memory of an erased element was used
    before                   \* history: the memory when the transaction began,
                             \* and whether each arc could be given its begin;
                             \* << >> once others have changed it or vetoed,
                             \* and after commit, which does not need it

logs == <<gened_elems, orig_beg, orig_end, erased_elems>>
memory == <<live, beg, end>>
tvars == <<vars, stage, logs, refs, freed, before>>

Stages == {"idle", "open", "committing", "rolling"}

\* What the lists and the references left over by rollbacks take up.
Entries == Len(gened_elems) + Len(orig_beg) + Len(orig_end) + FoldFunction(+, 0, refs)

\* The memory of e can be given to a new element.
Reusable(e) == refs[e] = 0

-----------------------------------------------------------------------------
(* Operations inside the transaction.                                      *)

Recorded ==
    /\ stage = "open" /\ ~freed
    /\ Entries < MaxLog
    /\ UNCHANGED <<stage, freed, before>>

begin ==
    /\ stage = "idle" /\ ~crashed /\ ~freed
    /\ stage' = "open"
    /\ before' = <<memory, \A a \in live : MayBegin(beg[a])>>
    /\ UNCHANGED <<vars, logs, refs, freed>>

t_create_el(e, t) ==
    /\ Recorded
    /\ Reusable(e) /\ create_el(e, t)
    /\ gened_elems' = Append(gened_elems, e)
    /\ UNCHANGED <<orig_beg, orig_end, erased_elems, refs>>

\* Mutation: the begin is read after it has been set.
t_set_beg_new(a, x) ==
    /\ Recorded
    /\ set_beg(a, x)
    /\ orig_beg' = Append(orig_beg, <<a, x>>)
    /\ UNCHANGED <<gened_elems, orig_end, erased_elems, refs>>

\* Setting the end that an arc has already succeeds, and is remembered too.
SameEnd(a, old, x) ==
    /\ ~crashed
    /\ a \in live /\ type[a] = "connector"
    /\ x = old
    /\ UNCHANGED vars

t_set_beg(a, x) ==
    /\ Recorded
    /\ set_beg(a, x) \/ SameEnd(a, beg[a], x)
    /\ orig_beg' = Append(orig_beg, <<a, beg[a]>>)
    /\ UNCHANGED <<gened_elems, orig_end, erased_elems, refs>>

t_set_end(a, x) ==
    /\ Recorded
    /\ set_end(a, x) \/ SameEnd(a, end[a], x)
    /\ orig_end' = Append(orig_end, <<a, end[a]>>)
    /\ UNCHANGED <<gened_elems, orig_beg, erased_elems, refs>>

\* Mutation: the element is not referenced.
t_erase_el_unheld(e) ==
    /\ Recorded /\ ~crashed
    /\ e \in live
    /\ erased_elems' = Append(erased_elems, e)
    /\ UNCHANGED <<vars, gened_elems, orig_beg, orig_end, refs>>

t_erase_el(e) ==
    /\ Recorded /\ ~crashed
    /\ e \in live
    /\ erased_elems' = Append(erased_elems, e)
    /\ refs' = [refs EXCEPT ![e] = @ + 1]
    /\ UNCHANGED <<vars, gened_elems, orig_beg, orig_end>>

-----------------------------------------------------------------------------
(* Commit.                                                                 *)

commit ==
    /\ stage = "open" /\ ~crashed /\ ~freed
    /\ stage' = "committing"
    /\ before' = <<>>
    /\ UNCHANGED <<vars, logs, refs, freed>>

\* Mutation: a dead element is released once by its eraser and once here.
Released(e) == refs[e] - (IF e \in live THEN 1 ELSE 2)

UnrefOnce(e) == refs[e] - 1

\* The last of the elements: erased unless it is dead, and released.  The host
\* session may refuse; nobody looks at its answer.
commit_next ==
    /\ stage = "committing" /\ ~crashed /\ ~freed
    /\ erased_elems # <<>>
    /\ LET e == Last(erased_elems)
       IN /\ IF e \in live THEN erase_el(e) \/ erase_el_overflow(e) \/ UNCHANGED vars
                           ELSE UNCHANGED vars
          /\ refs' = [refs EXCEPT ![e] = UnrefOnce(e)]
          /\ freed' = (e \notin live /\ refs[e] <= 0)
    /\ erased_elems' = Front(erased_elems)
    /\ UNCHANGED <<stage, gened_elems, orig_beg, orig_end, before>>

Finish ==
    /\ stage' = "idle"
    /\ gened_elems' = <<>> /\ orig_beg' = <<>> /\ orig_end' = <<>> /\ erased_elems' = <<>>
    /\ before' = <<>>
    /\ UNCHANGED <<vars, refs, freed>>

commit_end ==
    /\ stage = "committing" /\ ~crashed /\ ~freed
    /\ erased_elems = <<>>
    /\ Finish

-----------------------------------------------------------------------------
(* Rollback: begins, ends, then the elements, each list from its end.      *)

rollback ==
    /\ stage = "open" /\ ~crashed /\ ~freed
    /\ stage' = "rolling"
    /\ UNCHANGED <<vars, logs, refs, freed, before>>

\* A call of the host session on e reads memory that nobody owns.
Gone(e) == e # None /\ e \notin live /\ refs[e] = 0

\* The host session carries the call out or refuses it: for a reason of its own,
\* or because a handler vetoes it, which counts as a change by others.
Restore(change, possible) ==
    \/ possible /\ change /\ UNCHANGED before
    \/ UNCHANGED vars /\ before' = IF possible THEN <<>> ELSE before

MayHaveEnd(a, x) ==
    /\ a \in live /\ type[a] = "connector"
    /\ x # None => x \in live

roll_beg ==
    /\ stage = "rolling" /\ ~crashed /\ ~freed
    /\ orig_beg # <<>>
    /\ LET a == Last(orig_beg)[1]
           x == Last(orig_beg)[2]
       IN IF Gone(a) \/ Gone(x)
          THEN freed' = TRUE /\ UNCHANGED <<vars, before>>
          ELSE /\ x # None => Room(1)
               /\ IF x = beg[a] THEN UNCHANGED <<vars, before>>
                  ELSE Restore(set_beg(a, x), MayHaveEnd(a, x) /\ MayBegin(x))
               /\ UNCHANGED freed
    /\ orig_beg' = Front(orig_beg)
    /\ UNCHANGED <<stage, gened_elems, orig_end, erased_elems, refs>>

roll_end ==
    /\ stage = "rolling" /\ ~crashed /\ ~freed
    /\ orig_beg = <<>> /\ orig_end # <<>>
    /\ LET a == Last(orig_end)[1]
           x == Last(orig_end)[2]
       IN IF Gone(a) \/ Gone(x)
          THEN freed' = TRUE /\ UNCHANGED <<vars, before>>
          ELSE /\ x # None => Room(1)
               /\ IF x = end[a] THEN UNCHANGED <<vars, before>>
                  ELSE Restore(set_end(a, x), MayHaveEnd(a, x))
               /\ UNCHANGED freed
    /\ orig_end' = Front(orig_end)
    /\ UNCHANGED <<stage, gened_elems, orig_beg, erased_elems, refs>>

\* Mutation: the elements are erased while their ends are still the new ones.
EndsNotRestored == TRUE

EndsRestored == orig_beg = <<>> /\ orig_end = <<>>

roll_elem ==
    /\ stage = "rolling" /\ ~crashed /\ ~freed
    /\ EndsRestored /\ gened_elems # <<>>
    /\ LET e == Last(gened_elems)
       IN IF Gone(e)
          THEN freed' = TRUE /\ UNCHANGED <<vars, before>>
          ELSE /\ Restore(erase_el(e) \/ erase_el_overflow(e), e \in live)
               /\ UNCHANGED freed
    /\ gened_elems' = Front(gened_elems)
    /\ UNCHANGED <<stage, orig_beg, orig_end, erased_elems, refs>>

\* What erase_el has referenced stays referenced.
rollback_end ==
    /\ stage = "rolling" /\ ~crashed /\ ~freed
    /\ EndsRestored /\ gened_elems = <<>>
    /\ Finish

-----------------------------------------------------------------------------
(* The rest of the program, and the calls of the session that the class     *)
(* does not override: gen3_f_a_f and change_type inside the transaction go  *)
(* straight to the host session and leave no trace in the lists.            *)

Others ==
    /\ ~freed
    /\ Next
    /\ \A e \in live' : type'[e] \in UsedTypes
    /\ \A e \in live' \ live : Reusable(e)
    /\ before' = <<>>
    /\ UNCHANGED <<stage, logs, refs, freed>>

TInit ==
    /\ Init
    /\ stage = "idle"
    /\ gened_elems = <<>> /\ orig_beg = <<>> /\ orig_end = <<>> /\ erased_elems = <<>>
    /\ refs = [e \in Elements |-> 0]
    /\ freed = FALSE
    /\ before = <<>>

Operations ==
    \E e \in Elements :
        \/ \E t \in UsedTypes : t_create_el(e, t)
        \/ \E x \in Elements \cup {None} : t_set_beg(e, x) \/ t_set_end(e, x)
        \/ t_erase_el(e)

Commit == commit \/ commit_next \/ commit_end

Rollback == rollback \/ roll_beg \/ roll_end \/ roll_elem \/ rollback_end

TNext == begin \/ Operations \/ Commit \/ Rollback \/ Others

TSpec == TInit /\ [][TNext]_tvars

-----------------------------------------------------------------------------
(***************************************************************************)
(* Properties                                                              *)
(***************************************************************************)

TTypeOK ==
    /\ TypeOK
    /\ stage \in Stages
    /\ gened_elems \in Seq(Elements) /\ erased_elems \in Seq(Elements)
    /\ orig_beg \in Seq(Elements \X (Elements \cup {None}))
    /\ orig_end \in Seq(Elements \X (Elements \cup {None}))
    /\ refs \in [Elements -> Nat]
    /\ freed \in BOOLEAN

\* A rollback ends, nobody else has had a hand in the transaction, and no arc had
\* a connector for its begin when it began: set_beg would refuse to put that
\* back.  (An element gets there by a change of its type under its arcs.)
RolledBackAlone ==
    /\ stage = "rolling" /\ stage' = "idle"
    /\ before # <<>> /\ before[2]

\* A rollback that nobody else has touched, of a transaction that has created
\* elements, moved ends and asked for erasures in any order, puts back which
\* elements exist and what every arc connects.  (Types that set_beg has changed,
\* and the counters of arcs, are not put back.)
RollbackRestores ==
    [][RolledBackAlone => before[1] = memory']_tvars

\* The entries of the list of erasures for an element.
Entered(e) == {i \in DOMAIN erased_elems : erased_elems[i] = e}

\* Every entry of the list of erasures has its reference, whoever erases the
\* element first and however often it is in the list.
ErasuresReferenced ==
    /\ TTypeOK
    /\ \A e \in Elements : Cardinality(Entered(e)) <= refs[e]

\* Freed memory is used only by a rollback, and only if others have erased what
\* the transaction had recorded: commit never does, and neither does a
\* transaction that is alone.
FreedOnlyByOthers == freed => stage = "rolling" /\ before = <<>>
=============================================================================
