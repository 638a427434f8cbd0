---------------------------- MODULE RgpRegistry -----------------------------
(***************************************************************************)
(* The registry that gives objects of the server the numbers (uids) under  *)
(* which a remote client names them (librgp/rgp_objs_registry_p.h).  A uid *)
(* that an object gives back is used again.                                *)
(***************************************************************************)
EXTENDS Naturals, Sequences, Functions

\* uid_generator and the two maps of an rgp_obj_registry.
EmptyRegistry == [max_id |-> 1, free_ids |-> <<>>,
                  obj2uid |-> <<>>, uid2obj |-> <<>>]

\* f with x mapped to y, and f without x.
Insert(f, x, y) == [z \in DOMAIN f \cup {x} |-> IF z = x THEN y ELSE f[z]]
Erase(f, x) == Restrict(f, DOMAIN f \ {x})

get_id(r) == IF r.free_ids # <<>> THEN Head(r.free_ids) ELSE r.max_id

\* What get_id leaves of the generator.
TakeId(r) ==
    IF r.free_ids # <<>> THEN [r EXCEPT !.free_ids = Tail(@)]
    ELSE [r EXCEPT !.max_id = @ + 1]

\* Mutation: the generator shrinks by the largest free uid, which stays free.
FreeIdTwice(r, uid) ==
    [r EXCEPT !.max_id = IF @ - uid = 1 THEN uid ELSE @,
              !.free_ids = Append(@, uid)]

free_id(r, uid) ==
    IF r.max_id - uid = 1 THEN [r EXCEPT !.max_id = @ - 1]
    ELSE [r EXCEPT !.free_ids = Append(@, uid)]

\* The object of a uid, none if there is none.
GetObj(r, uid, none) ==
    IF uid \in DOMAIN r.uid2obj THEN r.uid2obj[uid] ELSE none

\* get(obj): the registry after it, in which obj has a uid.
Register(r, obj) ==
    IF obj \in DOMAIN r.obj2uid THEN r
    ELSE [TakeId(r) EXCEPT !.obj2uid = Insert(@, obj, get_id(r)),
                           !.uid2obj = Insert(@, get_id(r), obj)]

unregister(r, obj) ==
    IF obj \notin DOMAIN r.obj2uid THEN r
    ELSE [free_id(r, r.obj2uid[obj]) EXCEPT
              !.obj2uid = Erase(@, obj),
              !.uid2obj = Erase(@, r.obj2uid[obj])]

-----------------------------------------------------------------------------
\* Every uid below max_id either names one object or is free once.
UidsPartitioned(r) ==
    /\ DOMAIN r.uid2obj \cap Range(r.free_ids) = {}
    /\ DOMAIN r.uid2obj \cup Range(r.free_ids) = 1 .. r.max_id - 1
    /\ IsInjective(r.free_ids)

\* The two maps are each other's inverse.
MapsAgree(r) ==
    /\ \A o \in DOMAIN r.obj2uid :
           r.obj2uid[o] \in DOMAIN r.uid2obj /\ r.uid2obj[r.obj2uid[o]] = o
    /\ \A u \in DOMAIN r.uid2obj :
           r.uid2obj[u] \in DOMAIN r.obj2uid /\ r.obj2uid[r.uid2obj[u]] = u

RegistrySound(r) == UidsPartitioned(r) /\ MapsAgree(r)
=============================================================================
