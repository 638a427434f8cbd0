----------------------------- MODULE RgpProofs -----------------------------
(***************************************************************************)
(* Theorems about the connections of the RGP server, for any connections,  *)
(* elements and objects and any depth of nested activations.               *)
(*                                                                         *)
(* The first part is about one registry, the second about what each        *)
(* operation does to a memory, and the last about the steps of the server. *)
(***************************************************************************)
EXTENDS RgpServer, SequenceTheorems, TLAPS

-----------------------------------------------------------------------------
(* One registry.                                                           *)

PartialMaps(S, T) == UNION {[D -> T] : D \in SUBSET S}

Registries ==
    [max_id : Nat \ {0}, free_ids : Seq(Nat),
     obj2uid : PartialMaps(Objects, Nat), uid2obj : PartialMaps(Nat, Objects)]

LEMMA PartialMap ==
    ASSUME NEW S, NEW T, NEW f
    PROVE  f \in PartialMaps(S, T) <=>
             DOMAIN f \subseteq S /\ f \in [DOMAIN f -> T]
BY DEF PartialMaps

LEMMA RegistryMaps ==
    ASSUME NEW r \in Registries
    PROVE  /\ DOMAIN r.obj2uid \subseteq Objects /\ r.obj2uid \in [DOMAIN r.obj2uid -> Nat]
           /\ DOMAIN r.uid2obj \subseteq Nat /\ r.uid2obj \in [DOMAIN r.uid2obj -> Objects]
BY PartialMap DEF Registries

LEMMA EmptySound ==
    EmptyRegistry \in Registries /\ RegistrySound(EmptyRegistry)
<1>1. <<>> \in [{} -> Nat] /\ <<>> \in [{} -> Objects] /\ DOMAIN <<>> = {}
  OBVIOUS
<1>2. <<>> \in PartialMaps(Objects, Nat) /\ <<>> \in PartialMaps(Nat, Objects)
  BY <1>1, PartialMap
<1>3. EmptyRegistry \in Registries
  BY <1>2 DEF EmptyRegistry, Registries
<1>4. RegistrySound(EmptyRegistry)
  BY DEF EmptyRegistry, RegistrySound, UidsPartitioned, MapsAgree, Range, IsInjective
<1>. QED  BY <1>3, <1>4

\* A uid given out is new, and no longer free.
LEMMA TakeIdFits ==
    ASSUME NEW r \in Registries, UidsPartitioned(r)
    PROVE  /\ get_id(r) \in Nat \ DOMAIN r.uid2obj
           /\ TakeId(r) \in Registries
           /\ TakeId(r).obj2uid = r.obj2uid /\ TakeId(r).uid2obj = r.uid2obj
           /\ IsInjective(TakeId(r).free_ids)
           /\ get_id(r) \notin Range(TakeId(r).free_ids)
           /\ Range(TakeId(r).free_ids) \cup {get_id(r)} \cup DOMAIN r.uid2obj
                = 1 .. TakeId(r).max_id - 1
           /\ Range(TakeId(r).free_ids) \cap DOMAIN r.uid2obj = {}
<1>. USE DEF Registries
<1>1. CASE r.free_ids # <<>>
  <2>. DEFINE s == r.free_ids
  <2>1. s \in Seq(Nat) /\ Len(s) \in Nat \ {0} /\ Tail(s) \in Seq(Nat)
        /\ Len(Tail(s)) = Len(s) - 1 /\ Head(s) = s[1]
        /\ \A i \in 1 .. Len(s) - 1 : Tail(s)[i] = s[i + 1]
    BY <1>1
  <2>2. /\ DOMAIN s = 1 .. Len(s) /\ DOMAIN Tail(s) = 1 .. Len(s) - 1
    BY <2>1
  <2>3. \A i, j \in 1 .. Len(s) : s[i] = s[j] => i = j
    BY <2>2 DEF UidsPartitioned, IsInjective
  <2>4. \A i, j \in 1 .. Len(s) - 1 : Tail(s)[i] = Tail(s)[j] => i = j
    BY <2>1, <2>3
  <2>5. Range(s) = Range(Tail(s)) \cup {s[1]}
    <3>1. ASSUME NEW i \in 1 .. Len(s)  PROVE s[i] \in Range(Tail(s)) \cup {s[1]}
      <4>1. CASE i = 1  BY <4>1
      <4>2. CASE i # 1
        <5>1. i - 1 \in 1 .. Len(s) - 1 /\ Tail(s)[i - 1] = s[i]
          BY <4>2, <2>1
        <5>. QED  BY <5>1, <2>2 DEF Range
      <4>. QED  BY <4>1, <4>2
    <3>2. ASSUME NEW i \in 1 .. Len(s) - 1  PROVE Tail(s)[i] \in Range(s)
      <4>1. i + 1 \in 1 .. Len(s) /\ Tail(s)[i] = s[i + 1]
        BY <2>1
      <4>. QED  BY <4>1, <2>2 DEF Range
    <3>3. s[1] \in Range(s)
      BY <2>1, <2>2 DEF Range
    <3>. QED  BY <3>1, <3>2, <3>3, <2>2 DEF Range
  <2>6. s[1] \notin Range(Tail(s))
    <3>1. ASSUME NEW i \in 1 .. Len(s) - 1  PROVE Tail(s)[i] # s[1]
      BY <2>1, <2>3
    <3>. QED  BY <3>1, <2>2 DEF Range
  <2>7. get_id(r) = s[1] /\ TakeId(r) = [r EXCEPT !.free_ids = Tail(s)]
    BY <1>1, <2>1 DEF get_id, TakeId
  <2>8. s[1] \in Nat /\ s[1] \notin DOMAIN r.uid2obj
    <3>1. s[1] \in Range(s)
      BY <2>1, <2>2 DEF Range
    <3>. QED  BY <3>1, <2>1, <2>2 DEF UidsPartitioned
  <2>9. IsInjective(Tail(s))
    BY <2>4, <2>2 DEF IsInjective
  <2>. QED  BY <2>1, <2>5, <2>6, <2>7, <2>8, <2>9 DEF UidsPartitioned
<1>2. CASE r.free_ids = <<>>
  <2>1. get_id(r) = r.max_id /\ TakeId(r) = [r EXCEPT !.max_id = r.max_id + 1]
    BY <1>2 DEF get_id, TakeId
  <2>2. r.max_id \in Nat \ {0} /\ 1 .. r.max_id = (1 .. r.max_id - 1) \cup {r.max_id}
    OBVIOUS
  <2>3. /\ TakeId(r) \in Registries
        /\ TakeId(r).max_id = r.max_id + 1 /\ TakeId(r).max_id - 1 = r.max_id
        /\ TakeId(r).free_ids = r.free_ids
        /\ TakeId(r).obj2uid = r.obj2uid /\ TakeId(r).uid2obj = r.uid2obj
    <3>1. r.max_id + 1 \in Nat \ {0} /\ r.max_id + 1 - 1 = r.max_id
      BY <2>2
    <3>2. TakeId(r) \in Registries
      BY <3>1, <2>1
    <3>3. /\ TakeId(r).max_id = r.max_id + 1 /\ TakeId(r).free_ids = r.free_ids
          /\ TakeId(r).obj2uid = r.obj2uid /\ TakeId(r).uid2obj = r.uid2obj
      BY <2>1
    <3>. QED  BY <3>1, <3>2, <3>3
  <2>4. r.max_id \notin 1 .. r.max_id - 1
    BY <2>2
  <2>. QED  BY <2>1, <2>2, <2>3, <2>4 DEF UidsPartitioned
<1>. QED  BY <1>1, <1>2

LEMMA RegisterSound ==
    ASSUME NEW r \in Registries, RegistrySound(r), NEW o \in Objects
    PROVE  /\ Register(r, o) \in Registries /\ RegistrySound(Register(r, o))
           /\ DOMAIN Register(r, o).obj2uid = DOMAIN r.obj2uid \cup {o}
<1>1. CASE o \in DOMAIN r.obj2uid
  BY <1>1 DEF Register
<1>2. CASE o \notin DOMAIN r.obj2uid
  <2>. DEFINE u == get_id(r)
              f == Insert(r.obj2uid, o, u)
              g == Insert(r.uid2obj, u, o)
              t == TakeId(r)
  <2>1. Register(r, o) = [t EXCEPT !.obj2uid = f, !.uid2obj = g]
    BY <1>2, TakeIdFits DEF Register, RegistrySound, Registries
  <2>2. f \in [DOMAIN r.obj2uid \cup {o} -> Nat] /\ DOMAIN r.obj2uid \cup {o} \in SUBSET Objects
    BY TakeIdFits, RegistryMaps DEF Insert, RegistrySound
  <2>3. g \in [DOMAIN r.uid2obj \cup {u} -> Objects] /\ DOMAIN r.uid2obj \cup {u} \in SUBSET Nat
    BY TakeIdFits, RegistryMaps DEF Insert, RegistrySound
  <2>4. Register(r, o) \in Registries
    <3>1. f \in PartialMaps(Objects, Nat) /\ g \in PartialMaps(Nat, Objects)
      BY <2>2, <2>3, PartialMap
    <3>2. t \in Registries
      BY TakeIdFits DEF RegistrySound
    <3>. QED  BY <2>1, <3>1, <3>2 DEF Registries
  <2>5. UidsPartitioned(Register(r, o))
    <3>1. t \in Registries
      BY TakeIdFits DEF RegistrySound
    <3>2. /\ Register(r, o).free_ids = t.free_ids /\ Register(r, o).max_id = t.max_id
          /\ Register(r, o).uid2obj = g
      BY <2>1, <3>1 DEF Registries
    <3>3. DOMAIN g = DOMAIN r.uid2obj \cup {u}
      BY <2>3
    <3>. QED  BY <3>2, <3>3, TakeIdFits DEF RegistrySound, UidsPartitioned
  <2>6. MapsAgree(Register(r, o))
    <3>1. ASSUME NEW p \in DOMAIN f  PROVE f[p] \in DOMAIN g /\ g[f[p]] = p
      BY <1>2, <2>2, <2>3, TakeIdFits DEF Insert, RegistrySound, MapsAgree
    <3>2. ASSUME NEW v \in DOMAIN g  PROVE g[v] \in DOMAIN f /\ f[g[v]] = v
      BY <1>2, <2>2, <2>3, TakeIdFits DEF Insert, RegistrySound, MapsAgree
    <3>3. Register(r, o).obj2uid = f /\ Register(r, o).uid2obj = g
      BY <2>1, TakeIdFits DEF RegistrySound, Registries
    <3>. QED  BY <3>1, <3>2, <3>3 DEF MapsAgree
  <2>. QED  BY <2>1, <2>2, <2>4, <2>5, <2>6, TakeIdFits DEF RegistrySound, Registries
<1>. QED  BY <1>1, <1>2

LEMMA UnregisterSound ==
    ASSUME NEW r \in Registries, RegistrySound(r), NEW o
    PROVE  /\ unregister(r, o) \in Registries /\ RegistrySound(unregister(r, o))
           /\ DOMAIN unregister(r, o).obj2uid = DOMAIN r.obj2uid \ {o}
<1>1. CASE o \notin DOMAIN r.obj2uid
  BY <1>1 DEF unregister
<1>2. CASE o \in DOMAIN r.obj2uid
  <2>. DEFINE u == r.obj2uid[o]
              f == Erase(r.obj2uid, o)
              g == Erase(r.uid2obj, u)
              t == free_id(r, u)
  <2>1. u \in DOMAIN r.uid2obj /\ r.uid2obj[u] = o /\ u \in 1 .. r.max_id - 1 /\ u \in Nat
    BY <1>2 DEF RegistrySound, MapsAgree, UidsPartitioned, Registries
  <2>2. f \in [DOMAIN r.obj2uid \ {o} -> Nat] /\ DOMAIN r.obj2uid \ {o} \in SUBSET Objects
    BY RegistryMaps DEF Erase, Restrict
  <2>3. g \in [DOMAIN r.uid2obj \ {u} -> Objects] /\ DOMAIN r.uid2obj \ {u} \in SUBSET Nat
    BY RegistryMaps DEF Erase, Restrict
  <2>4. /\ t \in Registries
        /\ IsInjective(t.free_ids)
        /\ Range(t.free_ids) \cap (DOMAIN r.uid2obj \ {u}) = {}
        /\ Range(t.free_ids) \cup (DOMAIN r.uid2obj \ {u}) = 1 .. t.max_id - 1
    <3>1. CASE r.max_id - u = 1
      <4>1. t = [r EXCEPT !.max_id = r.max_id - 1]
        BY <3>1 DEF free_id
      <4>2. r.max_id - 1 = u /\ r.max_id - 1 \in Nat \ {0}
        BY <3>1, <2>1 DEF Registries
      <4>3. t \in Registries /\ t.max_id = u /\ t.free_ids = r.free_ids
        BY <4>1, <4>2 DEF Registries
      <4>4. 1 .. u - 1 = (1 .. r.max_id - 1) \ {u}
        BY <4>2
      <4>. QED  BY <4>3, <4>4, <2>1 DEF RegistrySound, UidsPartitioned
    <3>2. CASE r.max_id - u # 1
      <4>. DEFINE s == r.free_ids
      <4>1. t = [r EXCEPT !.free_ids = Append(s, u)]
        BY <3>2 DEF free_id
      <4>2. s \in Seq(Nat) /\ Len(s) \in Nat /\ Append(s, u) \in Seq(Nat)
            /\ DOMAIN s = 1 .. Len(s) /\ DOMAIN Append(s, u) = 1 .. Len(s) + 1
            /\ Append(s, u)[Len(s) + 1] = u
            /\ \A i \in 1 .. Len(s) : Append(s, u)[i] = s[i]
        BY <2>1 DEF Registries
      <4>3. t \in Registries /\ t.max_id = r.max_id /\ t.free_ids = Append(s, u)
        BY <4>1, <4>2 DEF Registries
      <4>4. Range(Append(s, u)) = Range(s) \cup {u}
        <5>1. \A i \in 1 .. Len(s) + 1 : i \in 1 .. Len(s) \/ i = Len(s) + 1
          BY <4>2
        <5>. QED  BY <5>1, <4>2 DEF Range
      <4>5. u \notin Range(s)
        BY <2>1 DEF RegistrySound, UidsPartitioned
      <4>6. IsInjective(Append(s, u))
        <5>1. \A i \in 1 .. Len(s) : s[i] # u
          BY <4>5, <4>2 DEF Range
        <5>2. \A i, j \in 1 .. Len(s) : s[i] = s[j] => i = j
          BY <4>2 DEF RegistrySound, UidsPartitioned, IsInjective
        <5>3. \A i, j \in 1 .. Len(s) + 1 : Append(s, u)[i] = Append(s, u)[j] => i = j
          BY <5>1, <5>2, <4>2
        <5>. QED  BY <5>3, <4>2 DEF IsInjective
      <4>. QED  BY <4>3, <4>4, <4>6, <2>1 DEF RegistrySound, UidsPartitioned
    <3>. QED  BY <3>1, <3>2
  <2>5. unregister(r, o) = [t EXCEPT !.obj2uid = f, !.uid2obj = g]
    BY <1>2, <2>4, <2>1 DEF unregister, free_id, Registries
  <2>6. unregister(r, o) \in Registries
    <3>1. f \in PartialMaps(Objects, Nat) /\ g \in PartialMaps(Nat, Objects)
      BY <2>2, <2>3, PartialMap
    <3>. QED  BY <2>5, <2>4, <3>1 DEF Registries
  <2>7. unregister(r, o).obj2uid = f /\ unregister(r, o).uid2obj = g
        /\ unregister(r, o).free_ids = t.free_ids /\ unregister(r, o).max_id = t.max_id
    BY <2>5, <2>4 DEF Registries
  <2>8. MapsAgree(unregister(r, o))
    BY <2>7, <2>1, <1>2 DEF Erase, Restrict, RegistrySound, MapsAgree
  <2>9. UidsPartitioned(unregister(r, o))
    BY <2>7, <2>4, <2>3 DEF UidsPartitioned
  <2>. QED  BY <2>6, <2>7, <2>8, <2>9, <2>2 DEF RegistrySound
<1>. QED  BY <1>1, <1>2

-----------------------------------------------------------------------------
(* One memory.  X is the object that a handler is about to register.       *)

Memories ==
    [activity : [Els -> Activities \cup {None, Local}],
     life : [Objects -> {"unborn", "alive", "freed"}],
     owner : [Objects -> Conns \cup {None}],
     of : [Objects -> Els \cup {None}],
     registry : [Conns -> [Kinds -> Registries]]]

Named(m, c, k) == DOMAIN m.registry[c][k].obj2uid

\* What is registered belongs to the connection, and has the registry's kind.
OwnedIn(m) ==
    \A c \in Conns, k \in Kinds : \A o \in Named(m, c, k) :
        /\ m.owner[o] = c /\ Kind(o) = k /\ m.life[o] # "unborn"
        /\ o \in Activities => m.of[o] \in Els

\* ObjectsHeld and ProxiesInPlace.
HeldIn(m, S, X) ==
    \A o \in Objects \ X : m.life[o] = "alive" =>
        m.owner[o] \in S /\ o \in Named(m, m.owner[o], Kind(o))

PlacedIn(m, X) ==
    /\ \A el \in Els : m.activity[el] \in Activities =>
           m.life[m.activity[el]] = "alive" /\ m.of[m.activity[el]] = el
    /\ \A a \in Activities \ X : m.life[a] = "alive" =>
           m.of[a] \in Els /\ m.activity[m.of[a]] = a

Kept(m, S, X) ==
    /\ m \in Memories
    /\ \A c \in Conns, k \in Kinds : RegistrySound(m.registry[c][k])
    /\ OwnedIn(m)
    /\ HeldIn(m, S, X)

LEMMA KindKnown == \A o : Kind(o) \in Kinds
BY DEF Kind, Kinds

\* All but the registries is as in m.
SameObjects(n, m) ==
    /\ n.activity = m.activity /\ n.life = m.life /\ n.owner = m.owner
    /\ n.of = m.of

LEMMA UnregisteredFits ==
    ASSUME NEW m \in Memories, NEW o,
           \A c \in Conns, k \in Kinds : RegistrySound(m.registry[c][k])
    PROVE  LET n == Unregistered(m, o)
           IN  /\ n \in Memories /\ SameObjects(n, m)
               /\ \A c \in Conns, k \in Kinds : RegistrySound(n.registry[c][k])
               /\ \A c \in Conns, k \in Kinds :
                    Named(n, c, k) = IF c = m.owner[o] /\ k = Kind(o)
                                     THEN Named(m, c, k) \ {o} ELSE Named(m, c, k)
<1>. DEFINE n == Unregistered(m, o)
            reg == [m.registry EXCEPT ![m.owner[o]][Kind(o)] = unregister(@, o)]
<1>1. n = [m EXCEPT !.registry = reg]
  BY DEF Unregistered, Memories
<1>2. ASSUME NEW c \in Conns, NEW k \in Kinds
      PROVE  reg[c][k] = IF c = m.owner[o] /\ k = Kind(o)
                         THEN unregister(m.registry[c][k], o) ELSE m.registry[c][k]
  BY DEF Memories
<1>3. ASSUME NEW c \in Conns, NEW k \in Kinds
      PROVE  /\ reg[c][k] \in Registries /\ RegistrySound(reg[c][k])
             /\ DOMAIN reg[c][k].obj2uid = IF c = m.owner[o] /\ k = Kind(o)
                THEN Named(m, c, k) \ {o} ELSE Named(m, c, k)
  <2>1. m.registry[c][k] \in Registries /\ RegistrySound(m.registry[c][k])
    BY DEF Memories
  <2>2. CASE c = m.owner[o] /\ k = Kind(o)
    <3>1. reg[c][k] = unregister(m.registry[c][k], o)
      BY <1>2, <2>2
    <3>2. /\ reg[c][k] \in Registries /\ RegistrySound(reg[c][k])
          /\ DOMAIN reg[c][k].obj2uid = DOMAIN m.registry[c][k].obj2uid \ {o}
      BY <3>1, <2>1, UnregisterSound
    <3>. QED  BY <3>2, <2>2 DEF Named
  <2>3. CASE ~(c = m.owner[o] /\ k = Kind(o))
    <3>1. reg[c][k] = m.registry[c][k]
      BY <1>2, <2>3
    <3>. QED  BY <3>1, <2>1, <2>3 DEF Named
  <2>. QED  BY <2>2, <2>3
<1>4. reg \in [Conns -> [Kinds -> Registries]]
  <2>1. ASSUME NEW c \in Conns  PROVE reg[c] \in [Kinds -> Registries]
    <3>1. DOMAIN reg[c] = Kinds /\ reg[c] = [k \in Kinds |-> reg[c][k]]
      BY DEF Memories
    <3>. QED  BY <3>1, <1>3
  <2>2. reg = [c \in Conns |-> reg[c]]
    BY DEF Memories
  <2>. QED  BY <2>1, <2>2
<1>5. n \in Memories /\ n.registry = reg /\ SameObjects(n, m)
  BY <1>1, <1>4 DEF Memories, SameObjects
<1>. QED  BY <1>3, <1>5 DEF Named

LEMMA AnsweredFits ==
    ASSUME NEW m \in Memories, NEW o \in Objects, m.owner[o] \in Conns,
           \A c \in Conns, k \in Kinds : RegistrySound(m.registry[c][k])
    PROVE  LET n == Answered(m, o)
           IN  /\ n \in Memories /\ SameObjects(n, m)
               /\ \A c \in Conns, k \in Kinds : RegistrySound(n.registry[c][k])
               /\ \A c \in Conns, k \in Kinds :
                    Named(n, c, k) = IF c = m.owner[o] /\ k = Kind(o)
                                     THEN Named(m, c, k) \cup {o} ELSE Named(m, c, k)
<1>. DEFINE n == Answered(m, o)
            reg == [m.registry EXCEPT ![m.owner[o]][Kind(o)] = Register(@, o)]
<1>1. n = [m EXCEPT !.registry = reg]
  BY DEF Answered, Memories
<1>2. ASSUME NEW c \in Conns, NEW k \in Kinds
      PROVE  reg[c][k] = IF c = m.owner[o] /\ k = Kind(o)
                         THEN Register(m.registry[c][k], o) ELSE m.registry[c][k]
  BY DEF Memories
<1>3. ASSUME NEW c \in Conns, NEW k \in Kinds
      PROVE  /\ reg[c][k] \in Registries /\ RegistrySound(reg[c][k])
             /\ DOMAIN reg[c][k].obj2uid = IF c = m.owner[o] /\ k = Kind(o)
                THEN Named(m, c, k) \cup {o} ELSE Named(m, c, k)
  <2>1. m.registry[c][k] \in Registries /\ RegistrySound(m.registry[c][k])
    BY DEF Memories
  <2>2. CASE c = m.owner[o] /\ k = Kind(o)
    <3>1. reg[c][k] = Register(m.registry[c][k], o)
      BY <1>2, <2>2
    <3>2. /\ reg[c][k] \in Registries /\ RegistrySound(reg[c][k])
          /\ DOMAIN reg[c][k].obj2uid = DOMAIN m.registry[c][k].obj2uid \cup {o}
      BY <3>1, <2>1, RegisterSound
    <3>. QED  BY <3>2, <2>2 DEF Named
  <2>3. CASE ~(c = m.owner[o] /\ k = Kind(o))
    <3>1. reg[c][k] = m.registry[c][k]
      BY <1>2, <2>3
    <3>. QED  BY <3>1, <2>1, <2>3 DEF Named
  <2>. QED  BY <2>2, <2>3
<1>4. reg \in [Conns -> [Kinds -> Registries]]
  <2>1. ASSUME NEW c \in Conns  PROVE reg[c] \in [Kinds -> Registries]
    <3>1. DOMAIN reg[c] = Kinds /\ reg[c] = [k \in Kinds |-> reg[c][k]]
      BY DEF Memories
    <3>. QED  BY <3>1, <1>3
  <2>2. reg = [c \in Conns |-> reg[c]]
    BY DEF Memories
  <2>. QED  BY <2>1, <2>2
<1>5. n \in Memories /\ n.registry = reg /\ SameObjects(n, m)
  BY <1>1, <1>4 DEF Memories, SameObjects
<1>. QED  BY <1>3, <1>5 DEF Named

\* An object is unregistered and freed.
LEMMA DeletedKept ==
    ASSUME NEW m, NEW S \in SUBSET Conns, NEW X, Kept(m, S, X), NEW o \in Objects
    PROVE  LET n == Freed(Unregistered(m, o), o)
           IN  /\ Kept(n, S, X)
               /\ n.activity = m.activity /\ n.of = m.of /\ n.owner = m.owner
               /\ n.life = [m.life EXCEPT ![o] = "freed"]
<1>. DEFINE u == Unregistered(m, o)
            n == Freed(u, o)
<1>1. /\ u \in Memories /\ SameObjects(u, m)
      /\ \A c \in Conns, k \in Kinds : RegistrySound(u.registry[c][k])
      /\ \A c \in Conns, k \in Kinds :
           Named(u, c, k) = IF c = m.owner[o] /\ k = Kind(o)
                            THEN Named(m, c, k) \ {o} ELSE Named(m, c, k)
  BY UnregisteredFits DEF Kept
<1>2. n = [u EXCEPT !.life = [u.life EXCEPT ![o] = "freed"]]
  BY <1>1 DEF Freed, Memories
<1>3. n \in Memories /\ n.registry = u.registry
      /\ n.activity = m.activity /\ n.of = m.of /\ n.owner = m.owner
      /\ n.life = [m.life EXCEPT ![o] = "freed"]
  <2>1. [u.life EXCEPT ![o] = "freed"] \in [Objects -> {"unborn", "alive", "freed"}]
    BY <1>1 DEF Memories
  <2>. QED  BY <1>1, <1>2, <2>1 DEF Memories, SameObjects
<1>4. \A c \in Conns, k \in Kinds : Named(n, c, k) = Named(u, c, k)
  BY <1>3 DEF Named
<1>5. m.life \in [Objects -> {"unborn", "alive", "freed"}]
  BY DEF Kept, Memories
<1>6. OwnedIn(n)
  BY <1>1, <1>3, <1>4, <1>5 DEF Kept, OwnedIn
<1>7. HeldIn(n, S, X)
  <2>. SUFFICES ASSUME NEW p \in Objects \ X, n.life[p] = "alive"
                PROVE  n.owner[p] \in S /\ p \in Named(n, n.owner[p], Kind(p))
    BY DEF HeldIn
  <2>1. p # o /\ m.life[p] = "alive"
    BY <1>3, <1>5
  <2>2. m.owner[p] \in S /\ p \in Named(m, m.owner[p], Kind(p))
    BY <2>1 DEF Kept, HeldIn
  <2>. QED  BY <2>1, <2>2, <1>1, <1>3, <1>4, KindKnown
<1>. QED  BY <1>1, <1>3, <1>6, <1>7 DEF Kept

\* The activity of an element is replaced.
LEMMA ActivitySetFits ==
    ASSUME NEW m, NEW S \in SUBSET Conns, NEW X, Kept(m, S, X), NEW el \in Els,
           NEW new \in Activities \cup {None, Local}
    PROVE  LET n == [m EXCEPT !.activity[el] = new]
           IN  /\ Kept(n, S, X)
               /\ n.activity = [m.activity EXCEPT ![el] = new]
               /\ n.of = m.of /\ n.owner = m.owner /\ n.life = m.life
<1>. DEFINE n == [m EXCEPT !.activity[el] = new]
<1>1. m \in Memories
  BY DEF Kept
<1>2. [m.activity EXCEPT ![el] = new] \in [Els -> Activities \cup {None, Local}]
  BY <1>1 DEF Memories
<1>3. /\ n \in Memories /\ n.registry = m.registry
      /\ n.activity = [m.activity EXCEPT ![el] = new]
      /\ n.of = m.of /\ n.owner = m.owner /\ n.life = m.life
  BY <1>1, <1>2 DEF Memories
<1>. QED  BY <1>3 DEF Kept, OwnedIn, HeldIn, Named

\* What the end of proxy a frees when the activity of its element is b.
FreedWith(m, a, b) ==
    [o \in Objects |-> IF o = a \/ (o = b /\ b \in Activities) THEN "freed" ELSE m.life[o]]

\* A proxy ends, and with it the activity that its element has by then.
LEMMA DoneFits ==
    ASSUME NEW m, NEW S \in SUBSET Conns, NEW X, Kept(m, S, X),
           NEW a \in Activities, m.of[a] \in Els
    PROVE  LET n == done(m, a)
           IN  /\ Kept(n, S, X)
               /\ n.activity = [m.activity EXCEPT ![m.of[a]] = None]
               /\ n.of = m.of /\ n.owner = m.owner
               /\ n.life = FreedWith(m, a, m.activity[m.of[a]])
<1>. DEFINE u == Freed(Unregistered(m, a), a)
            el == m.of[a]
            b == u.activity[el]
            clear == [u EXCEPT !.activity[el] = None]
            w == Freed(Unregistered(clear, b), b)
<1>1. a \in Objects /\ \A o \in Activities : o \in Objects
  BY DEF Objects
<1>2. /\ Kept(u, S, X)
      /\ u.activity = m.activity /\ u.of = m.of /\ u.owner = m.owner
      /\ u.life = [m.life EXCEPT ![a] = "freed"]
  BY <1>1, DeletedKept
<1>3. /\ Kept(clear, S, X)
      /\ clear.activity = [u.activity EXCEPT ![el] = None]
      /\ clear.of = u.of /\ clear.owner = u.owner /\ clear.life = u.life
  BY <1>2, ActivitySetFits
<1>4. done(m, a) = IF b \in Activities THEN w ELSE clear
  BY <1>2 DEF done, Unset
<1>5. m.life \in [Objects -> {"unborn", "alive", "freed"}]
  BY DEF Kept, Memories
<1>6. CASE b \in Activities
  <2>1. /\ Kept(w, S, X)
        /\ w.activity = clear.activity /\ w.of = clear.of /\ w.owner = clear.owner
        /\ w.life = [clear.life EXCEPT ![b] = "freed"]
    BY <1>1, <1>3, <1>6, DeletedKept
  <2>2. w.life = FreedWith(m, a, b)
    BY <2>1, <1>1, <1>2, <1>3, <1>5, <1>6 DEF FreedWith
  <2>. QED  BY <2>1, <2>2, <1>2, <1>3, <1>4, <1>6
<1>7. CASE b \notin Activities
  <2>1. clear.life = FreedWith(m, a, b)
    BY <1>1, <1>2, <1>3, <1>5, <1>7 DEF FreedWith
  <2>. QED  BY <2>1, <1>2, <1>3, <1>4, <1>7
<1>. QED  BY <1>6, <1>7

\* An activity that an element may be given: that of an agent, or none, or the
\* proxy of X, which has been made for the element.
Given(m, X, el, new) ==
    \/ new \in {None, Local} /\ X = {}
    \/ /\ new \in Activities /\ X = {new}
       /\ m.life[new] = "alive" /\ m.of[new] = el
       /\ \A e \in Els : m.activity[e] # new

\* Whoever replaces the activity of an element leaves the proxies in place.
LEMMA ReimplementedKept ==
    ASSUME NEW m, NEW S \in SUBSET Conns, NEW X, Kept(m, S, X), PlacedIn(m, X),
           NEW el \in Els, NEW new, Given(m, X, el, new)
    PROVE  /\ Kept(Reimplemented(m, el, new), S, X)
           /\ PlacedIn(Reimplemented(m, el, new), {})
           /\ Reimplemented(m, el, new).of = m.of
           /\ Reimplemented(m, el, new).owner = m.owner
           /\ new \in Activities => Reimplemented(m, el, new).life[new] # "unborn"
<1>. DEFINE old == m.activity[el]
            set == [m EXCEPT !.activity[el] = new]
            n == Reimplemented(m, el, new)
<1>. USE DEF Given
<1>1. /\ Kept(set, S, X)
      /\ set.activity = [m.activity EXCEPT ![el] = new]
      /\ set.of = m.of /\ set.owner = m.owner /\ set.life = m.life
  BY ActivitySetFits
<1>2. /\ m.activity \in [Els -> Activities \cup {None, Local}]
      /\ m.life \in [Objects -> {"unborn", "alive", "freed"}]
  BY DEF Kept, Memories
<1>3. Activities \subseteq Objects /\ None \notin Activities /\ Local \notin Activities
  BY MarksDistinct DEF Objects
<1>4. CASE old \in Activities
  <2>1. m.of[old] = el
    BY <1>4 DEF PlacedIn
  <2>2. n = done(set, old)
    BY <1>4 DEF Reimplemented
  <2>3. set.activity[set.of[old]] = new /\ set.of[old] = el
    BY <1>1, <1>2, <2>1
  <2>4. /\ Kept(n, S, X)
        /\ n.activity = [set.activity EXCEPT ![el] = None]
        /\ n.of = m.of /\ n.owner = m.owner
        /\ n.life = FreedWith(set, old, new)
    <3>. HIDE DEF n, set, old
    <3>1. set.of[old] \in Els
      BY <2>3
    <3>2. /\ Kept(n, S, X)
          /\ n.activity = [set.activity EXCEPT ![set.of[old]] = None]
          /\ n.of = set.of /\ n.owner = set.owner
          /\ n.life = FreedWith(set, old, set.activity[set.of[old]])
      BY <1>1, <1>4, <2>2, <3>1, DoneFits
    <3>. QED  BY <1>1, <2>3, <3>2
  <2>5. /\ \A e \in Els : n.activity[e] = IF e = el THEN None ELSE m.activity[e]
        /\ \A o \in Objects : n.life[o] = IF o = old \/ (o = new /\ new \in Activities)
                                          THEN "freed" ELSE m.life[o]
    BY <1>1, <1>2, <2>4 DEF FreedWith
  <2>6. PlacedIn(n, {})
    <3>1. ASSUME NEW e \in Els, n.activity[e] \in Activities
          PROVE  n.life[n.activity[e]] = "alive" /\ n.of[n.activity[e]] = e
      <4>1. e # el /\ n.activity[e] = m.activity[e]
        BY <3>1, <2>5, <1>3
      <4>2. m.life[m.activity[e]] = "alive" /\ m.of[m.activity[e]] = e
        BY <3>1, <4>1 DEF PlacedIn
      <4>3. m.activity[e] # old /\ ~(m.activity[e] = new /\ new \in Activities)
        BY <4>1, <4>2, <2>1, <1>3
      <4>. QED  BY <4>1, <4>2, <4>3, <2>4, <2>5, <3>1, <1>3
    <3>2. ASSUME NEW a \in Activities, n.life[a] = "alive"
          PROVE  n.of[a] \in Els /\ n.activity[n.of[a]] = a
      <4>1. a # old /\ a \notin X /\ m.life[a] = "alive"
        BY <3>2, <2>5, <1>3
      <4>2. m.of[a] \in Els /\ m.activity[m.of[a]] = a
        BY <4>1 DEF PlacedIn
      <4>. QED  BY <4>1, <4>2, <2>4, <2>5
    <3>. QED  BY <3>1, <3>2 DEF PlacedIn
  <2>7. new \in Activities => n.life[new] = "freed"
    BY <2>5, <1>3
  <2>. QED  BY <2>4, <2>6, <2>7
<1>5. CASE old \notin Activities
  <2>1. n = set
    BY <1>5 DEF Reimplemented
  <2>2. \A e \in Els : n.activity[e] = IF e = el THEN new ELSE m.activity[e]
    BY <1>1, <1>2, <2>1
  <2>3. PlacedIn(n, {})
    <3>1. ASSUME NEW e \in Els, n.activity[e] \in Activities
          PROVE  n.life[n.activity[e]] = "alive" /\ n.of[n.activity[e]] = e
      BY <3>1, <2>1, <2>2, <1>1, <1>3 DEF PlacedIn
    <3>2. ASSUME NEW a \in Activities, n.life[a] = "alive"
          PROVE  n.of[a] \in Els /\ n.activity[n.of[a]] = a
      <4>1. CASE a \in X
        BY <4>1, <2>1, <2>2, <1>1, <1>3
      <4>2. CASE a \notin X
        <5>1. m.of[a] \in Els /\ m.activity[m.of[a]] = a
          BY <3>2, <4>2, <2>1, <1>1 DEF PlacedIn
        <5>. QED  BY <5>1, <2>1, <2>2, <1>1, <1>5
      <4>. QED  BY <4>1, <4>2
    <3>. QED  BY <3>1, <3>2 DEF PlacedIn
  <2>4. new \in Activities => n.life[new] = "alive"
    BY <2>1, <1>1, <1>3
  <2>. QED  BY <2>1, <2>3, <2>4, <1>1
<1>. QED  BY <1>4, <1>5

\* An object is made for connection c, and not registered yet.
LEMMA BornKept ==
    ASSUME NEW m, NEW S \in SUBSET Conns, Kept(m, S, {}), PlacedIn(m, {}),
           NEW o \in Objects, m.life[o] = "unborn", NEW c \in S,
           NEW el \in Els \cup {None}, o \in Activities => el \in Els
    PROVE  /\ Kept(Born(m, o, c, el), S, {o}) /\ PlacedIn(Born(m, o, c, el), {o})
           /\ Born(m, o, c, el).life[o] = "alive" /\ Born(m, o, c, el).owner[o] = c
           /\ Born(m, o, c, el).of[o] = el
           /\ Born(m, o, c, el).activity = m.activity
<1>. DEFINE n == Born(m, o, c, el)
<1>1. m \in Memories
  BY DEF Kept
<1>2. /\ [m.life EXCEPT ![o] = "alive"] \in [Objects -> {"unborn", "alive", "freed"}]
      /\ [m.owner EXCEPT ![o] = c] \in [Objects -> Conns \cup {None}]
      /\ [m.of EXCEPT ![o] = el] \in [Objects -> Els \cup {None}]
  BY <1>1 DEF Memories
<1>3. /\ n \in Memories /\ n.registry = m.registry /\ n.activity = m.activity
      /\ n.life = [m.life EXCEPT ![o] = "alive"]
      /\ n.owner = [m.owner EXCEPT ![o] = c] /\ n.of = [m.of EXCEPT ![o] = el]
  BY <1>1, <1>2 DEF Born, Memories
<1>4. \A p \in Objects : /\ n.life[p] = IF p = o THEN "alive" ELSE m.life[p]
                         /\ n.owner[p] = IF p = o THEN c ELSE m.owner[p]
                         /\ n.of[p] = IF p = o THEN el ELSE m.of[p]
  BY <1>1, <1>3 DEF Memories
<1>5. \A d \in Conns, k \in Kinds :
        Named(n, d, k) = Named(m, d, k) /\ Named(m, d, k) \subseteq Objects
  BY <1>1, <1>3, RegistryMaps DEF Named, Memories
<1>6. OwnedIn(n)
  <2>. SUFFICES ASSUME NEW d \in Conns, NEW k \in Kinds, NEW p \in Named(n, d, k)
                PROVE  /\ n.owner[p] = d /\ Kind(p) = k /\ n.life[p] # "unborn"
                       /\ p \in Activities => n.of[p] \in Els
    BY DEF OwnedIn
  <2>1. /\ p \in Objects /\ m.owner[p] = d /\ Kind(p) = k /\ m.life[p] # "unborn"
        /\ p \in Activities => m.of[p] \in Els
    BY <1>5 DEF Kept, OwnedIn
  <2>. QED  BY <2>1, <1>4
<1>7. HeldIn(n, S, {o})
  <2>. SUFFICES ASSUME NEW p \in Objects \ {o}, n.life[p] = "alive"
                PROVE  n.owner[p] \in S /\ p \in Named(n, n.owner[p], Kind(p))
    BY DEF HeldIn
  <2>1. m.owner[p] \in S /\ p \in Named(m, m.owner[p], Kind(p))
    BY <1>4 DEF Kept, HeldIn
  <2>. QED  BY <2>1, <1>4, <1>5, KindKnown
<1>8. Activities \subseteq Objects
  BY DEF Objects
<1>9. \A e \in Els : n.activity[e] # o
  BY <1>1, <1>3, MarksDistinct DEF PlacedIn, Memories
<1>10. PlacedIn(n, {o})
  BY <1>3, <1>4, <1>8, <1>9 DEF PlacedIn
<1>. QED  BY <1>3, <1>4, <1>6, <1>7, <1>9, <1>10 DEF Kept

\* It is registered as the answer is written.
LEMMA AnsweredKept ==
    ASSUME NEW m, NEW S \in SUBSET Conns, NEW o \in Objects,
           Kept(m, S, {o}), m.owner[o] \in S, m.life[o] # "unborn",
           o \in Activities => m.of[o] \in Els
    PROVE  Kept(Answered(m, o), S, {}) /\ SameObjects(Answered(m, o), m)
<1>. DEFINE n == Answered(m, o)
<1>1. /\ n \in Memories /\ SameObjects(n, m)
      /\ \A c \in Conns, k \in Kinds : RegistrySound(n.registry[c][k])
      /\ \A c \in Conns, k \in Kinds :
           Named(n, c, k) = IF c = m.owner[o] /\ k = Kind(o)
                            THEN Named(m, c, k) \cup {o} ELSE Named(m, c, k)
  BY AnsweredFits DEF Kept
<1>. HIDE DEF n
<1>2. OwnedIn(n)
  BY <1>1 DEF Kept, OwnedIn, SameObjects
<1>3. HeldIn(n, S, {})
  <2>. SUFFICES ASSUME NEW p \in Objects, m.life[p] = "alive"
                PROVE  m.owner[p] \in S /\ p \in Named(n, m.owner[p], Kind(p))
    BY <1>1 DEF HeldIn, SameObjects
  <2>1. p # o => m.owner[p] \in S /\ p \in Named(m, m.owner[p], Kind(p))
    BY DEF Kept, HeldIn
  <2>. QED  BY <2>1, <1>1, KindKnown
<1>4. Kept(n, S, {}) /\ SameObjects(n, m)
  BY <1>1, <1>2, <1>3 DEF Kept
<1>. QED  BY <1>4 DEF n

\* The waits in the lists of an element are freed with its address.
LEMMA WaitsFreedKept ==
    ASSUME NEW m, NEW S \in SUBSET Conns, Kept(m, S, {}), PlacedIn(m, {}), NEW el
    PROVE  Kept(WaitsFreed(m, el), S, {}) /\ PlacedIn(WaitsFreed(m, el), {})
<1>. DEFINE n == WaitsFreed(m, el)
            f == [o \in Objects |-> IF o \in Attached(el) THEN "freed" ELSE m.life[o]]
<1>1. m \in Memories /\ f \in [Objects -> {"unborn", "alive", "freed"}]
  BY DEF Kept, Memories
<1>2. /\ n \in Memories /\ n.registry = m.registry /\ n.activity = m.activity
      /\ n.life = f /\ n.owner = m.owner /\ n.of = m.of
  BY <1>1 DEF WaitsFreed, Memories
<1>. HIDE DEF n
<1>3. OwnedIn(n)
  <2>1. \A c \in Conns, k \in Kinds :
          Named(n, c, k) = Named(m, c, k) /\ Named(m, c, k) \subseteq Objects
    BY <1>1, <1>2, RegistryMaps DEF Named, Memories
  <2>. QED  BY <2>1, <1>2 DEF Kept, OwnedIn
<1>4. HeldIn(n, S, {})
  BY <1>2 DEF Kept, HeldIn, Named
<1>5. \A a \in Activities : a \in Objects /\ a \notin Attached(el)
  BY KindsDistinct DEF Objects, Attached
<1>6. PlacedIn(n, {})
  BY <1>2, <1>5 DEF PlacedIn
<1>7. Kept(n, S, {}) /\ PlacedIn(n, {})
  BY <1>2, <1>3, <1>4, <1>6 DEF Kept
<1>. QED  BY <1>7 DEF n

-----------------------------------------------------------------------------
(* What the server and the agents do to the memory.                        *)

MemoryKept ==
    /\ open \subseteq Conns
    /\ els \in [Els -> {"alive", "dead", "freed"}]
    /\ Kept(Memory, open, {})
    /\ PlacedIn(Memory, {})

LEMMA MemoryFields ==
    /\ Memory.activity = activity /\ Memory.life = life /\ Memory.owner = owner
    /\ Memory.of = of /\ Memory.registry = registry
BY DEF Memory

LEMMA SetMemoryKept ==
    ASSUME NEW m, NEW S, Kept(m, S, {}), PlacedIn(m, {}), SetMemory(m)
    PROVE  Kept(Memory', S, {}) /\ PlacedIn(Memory', {})
<1>1. m \in Memories
  BY DEF Kept
<1>2. Memory' = m
  BY <1>1 DEF Memory, SetMemory, Memories
<1>. QED  BY <1>2

LEMMA SameMemoryKept ==
    ASSUME MemoryKept, UNCHANGED <<memory, open>>
    PROVE  MemoryKept'
<1>1. Memory' = Memory /\ open' = open /\ els' = els
  BY DEF Memory, memory
<1>. QED  BY <1>1 DEF MemoryKept

\* An object of kind K is made for c and registered.
LEMMA CreatedKept ==
    ASSUME NEW m, NEW S \in SUBSET Conns, Kept(m, S, {}), PlacedIn(m, {}),
           NEW o \in Iterators \cup Waits, m.life[o] = "unborn", NEW c \in S,
           NEW el \in Els \cup {None}
    PROVE  /\ Kept(Answered(Born(m, o, c, el), o), S, {})
           /\ PlacedIn(Answered(Born(m, o, c, el), o), {})
<1>. DEFINE b == Born(m, o, c, el)
            n == Answered(b, o)
<1>1. o \in Objects /\ o \notin Activities
  BY KindsDistinct DEF Objects
<1>2. /\ Kept(b, S, {o}) /\ PlacedIn(b, {o})
      /\ b.life[o] = "alive" /\ b.owner[o] = c
  BY <1>1, BornKept
<1>. HIDE DEF b
<1>3. Kept(n, S, {}) /\ SameObjects(n, b)
  BY <1>1, <1>2, AnsweredKept
<1>4. PlacedIn(n, {})
  BY <1>1, <1>2, <1>3 DEF PlacedIn, SameObjects
<1>. QED  BY <1>3, <1>4 DEF b

LEMMA EraseKeeps ==
    ASSUME MemoryKept, NEW el \in Els, NEW s \in {"dead", "freed"},
           EraseElement(el, s), UNCHANGED open
    PROVE  MemoryKept'
<1>. DEFINE m == Reimplemented(Memory, el, None)
<1>1. Kept(m, open, {}) /\ PlacedIn(m, {})
  <2>1. Given(Memory, {}, el, None)
    BY DEF Given
  <2>. QED  BY <2>1, ReimplementedKept DEF MemoryKept
<1>2. Kept(WaitsFreed(m, el), open, {}) /\ PlacedIn(WaitsFreed(m, el), {})
  BY <1>1, WaitsFreedKept DEF MemoryKept
<1>3. SetMemory(m) \/ SetMemory(WaitsFreed(m, el))
  BY DEF EraseElement
<1>4. Kept(Memory', open, {}) /\ PlacedIn(Memory', {})
  <2>. HIDE DEF m
  <2>. QED  BY <1>1, <1>2, <1>3, SetMemoryKept
<1>5. els' \in [Els -> {"alive", "dead", "freed"}]
  BY DEF EraseElement, MemoryKept
<1>. QED  BY <1>4, <1>5 DEF MemoryKept

\* A proxy is made for c, becomes the activity of el and is registered.
LEMMA ProxyKept ==
    ASSUME NEW m, NEW S \in SUBSET Conns, Kept(m, S, {}), PlacedIn(m, {}),
           NEW a \in Activities, m.life[a] = "unborn", NEW c \in S, NEW el \in Els
    PROVE  LET n == Answered(Reimplemented(Born(m, a, c, el), el, a), a)
           IN  Kept(n, S, {}) /\ PlacedIn(n, {})
<1>. DEFINE b == Born(m, a, c, el)
            r == Reimplemented(b, el, a)
            n == Answered(r, a)
<1>1. a \in Objects /\ el \in Els \cup {None}
  BY DEF Objects
<1>2. /\ Kept(b, S, {a}) /\ PlacedIn(b, {a})
      /\ b.life[a] = "alive" /\ b.owner[a] = c /\ b.of[a] = el
      /\ b.activity = m.activity
  BY <1>1, BornKept
<1>. HIDE DEF b
<1>3. /\ Kept(r, S, {a}) /\ PlacedIn(r, {})
      /\ r.of = b.of /\ r.owner = b.owner
      /\ r.life[a] # "unborn"
  <2>1. Given(b, {a}, el, a)
    <3>1. \A e \in Els : b.activity[e] # a
      BY <1>2 DEF PlacedIn
    <3>. QED  BY <1>2, <3>1 DEF Given
  <2>. QED  BY <1>2, <2>1, ReimplementedKept
<1>. HIDE DEF r
<1>4. Kept(n, S, {}) /\ SameObjects(n, r)
  BY <1>1, <1>2, <1>3, AnsweredKept
<1>5. PlacedIn(n, {})
  BY <1>3, <1>4 DEF PlacedIn, SameObjects
<1>. QED  BY <1>4, <1>5 DEF b, r

LEMMA ReimplementKeeps ==
    ASSUME MemoryKept, NEW c \in open, NEW el \in Els, ReimplementBy(c, el),
           UNCHANGED open
    PROVE  MemoryKept'
<1>1. PICK a \in Unborn(Activities) :
        SetMemory(Answered(Reimplemented(Born(Memory, a, c, el), el, a), a))
  BY DEF ReimplementBy
<1>. DEFINE n == Answered(Reimplemented(Born(Memory, a, c, el), el, a), a)
<1>2. a \in Activities /\ Memory.life[a] = "unborn"
  BY MemoryFields DEF Unborn
<1>3. Kept(n, open, {}) /\ PlacedIn(n, {})
  BY <1>2, ProxyKept DEF MemoryKept
<1>4. Kept(Memory', open, {}) /\ PlacedIn(Memory', {})
  <2>. HIDE DEF n
  <2>1. SetMemory(n)
    BY <1>1 DEF n
  <2>. QED  BY <1>3, <2>1, SetMemoryKept
<1>. QED  BY <1>4 DEF MemoryKept, ReimplementBy

\* The argument of a command has the command's kind.
ArgFits(cmd, x) ==
    /\ cmd \in ElementCommands => x \in Els
    /\ cmd \in UidCommands => x \in Iterators \cup Waits \cup {None}

LEMMA PerformKeeps ==
    ASSUME MemoryKept, NEW c \in open, NEW cmd, NEW x, ArgFits(cmd, x),
           ~IsNil(cmd, x), Perform(c, cmd, x), UNCHANGED open
    PROVE  MemoryKept'
<1>1. CASE UNCHANGED memory
  BY <1>1, SameMemoryKept
<1>2. CASE cmd = "erase" /\ \E s \in {"dead", "freed"} : EraseElement(x, s)
  BY <1>2, EraseKeeps DEF ArgFits, ElementCommands
<1>3. CASE cmd = "reimplement" /\ ReimplementBy(c, x)
  BY <1>3, ReimplementKeeps DEF ArgFits, ElementCommands
<1>4. CASE cmd = "attach" /\ AttachBy(c, x)
  <2>. SUFFICES ASSUME ~UNCHANGED memory
                PROVE  MemoryKept'
    BY <1>1
  <2>1. PICK w \in Unborn(Waits) : SetMemory(Answered(Born(Memory, w, c, x), w))
    BY <1>4 DEF AttachBy
  <2>2. w \in Iterators \cup Waits /\ Memory.life[w] = "unborn"
    BY MemoryFields DEF Unborn
  <2>3. x \in Els \cup {None}
    BY <1>4 DEF ArgFits, ElementCommands
  <2>4. /\ Kept(Answered(Born(Memory, w, c, x), w), open, {})
        /\ PlacedIn(Answered(Born(Memory, w, c, x), w), {})
    BY <2>2, <2>3, CreatedKept DEF MemoryKept
  <2>5. Kept(Memory', open, {}) /\ PlacedIn(Memory', {})
    BY <2>1, <2>4, SetMemoryKept
  <2>. QED  BY <2>5, <1>4 DEF MemoryKept, AttachBy
<1>5. CASE cmd = "create_iterator" /\ CreateIteratorBy(c)
  <2>1. PICK i \in Unborn(Iterators) : SetMemory(Answered(Born(Memory, i, c, None), i))
    <3>. DEFINE i == CHOOSE o \in Unborn(Iterators) : TRUE
    <3>1. i \in Unborn(Iterators)
      BY <1>5 DEF CreateIteratorBy
    <3>2. SetMemory(Answered(Born(Memory, i, c, None), i))
      BY <1>5 DEF CreateIteratorBy
    <3>. HIDE DEF i
    <3>. QED  BY <3>1, <3>2
  <2>2. i \in Iterators \cup Waits /\ Memory.life[i] = "unborn"
    BY MemoryFields DEF Unborn
  <2>3. /\ Kept(Answered(Born(Memory, i, c, None), i), open, {})
        /\ PlacedIn(Answered(Born(Memory, i, c, None), i), {})
    BY <2>2, CreatedKept DEF MemoryKept
  <2>4. Kept(Memory', open, {}) /\ PlacedIn(Memory', {})
    BY <2>1, <2>3, SetMemoryKept
  <2>. QED  BY <2>4, <1>5 DEF MemoryKept, CreateIteratorBy
<1>6. CASE cmd \in {"erase_iterator", "detach"} /\ Delete(x)
  <2>. DEFINE n == Freed(Unregistered(Memory, x), x)
  <2>1. x \in Iterators \cup Waits
    BY <1>6 DEF ArgFits, UidCommands, IsNil
  <2>2. x \in Objects /\ x \notin Activities
    BY <2>1, KindsDistinct DEF Objects
  <2>3. /\ Kept(n, open, {})
        /\ n.activity = activity /\ n.of = of /\ n.owner = owner
        /\ n.life = [life EXCEPT ![x] = "freed"]
    BY <2>2, DeletedKept, MemoryFields DEF MemoryKept
  <2>4. SetMemory(n)
    BY <1>6 DEF Delete
  <2>. HIDE DEF n
  <2>5. PlacedIn(n, {})
    <3>1. \A a \in Activities : n.life[a] = life[a]
      BY <2>2, <2>3, MemoryFields DEF Objects, MemoryKept, Kept, Memories
    <3>. QED  BY <2>3, <3>1, MemoryFields DEF PlacedIn, MemoryKept
  <2>6. Kept(Memory', open, {}) /\ PlacedIn(Memory', {})
    BY <2>3, <2>4, <2>5, SetMemoryKept
  <2>. QED  BY <2>6, <1>6 DEF MemoryKept, Delete
<1>. QED  BY <1>1, <1>2, <1>3, <1>4, <1>5, <1>6 DEF Perform

\* A connection is deleted with all that it holds.
LEMMA CloseKeeps ==
    ASSUME MemoryKept, NEW c \in open, DeleteConnection(c)
    PROVE  MemoryKept'
<1>1. /\ open \subseteq Conns /\ c \in Conns
      /\ activity \in [Els -> Activities \cup {None, Local}]
      /\ life \in [Objects -> {"unborn", "alive", "freed"}]
      /\ owner \in [Objects -> Conns \cup {None}]
      /\ of \in [Objects -> Els \cup {None}]
      /\ registry \in [Conns -> [Kinds -> Registries]]
      /\ els \in [Els -> {"alive", "dead", "freed"}]
  BY MemoryFields DEF MemoryKept, Kept, Memories
<1>2. \A o : o \in Held(c) <=> \E k \in Kinds : o \in Named(Memory, c, k)
  BY MemoryFields DEF Held, Named
<1>3. \A o \in Objects : life[o] = "alive" /\ o \notin Held(c) =>
        owner[o] \in open \ {c} /\ o \in Named(Memory, owner[o], Kind(o))
  BY <1>2, KindKnown, MemoryFields DEF MemoryKept, Kept, HeldIn
<1>4. \A a \in Held(c) \cap Activities : of[a] \in Els
  BY <1>1, <1>2, MemoryFields DEF MemoryKept, Kept, OwnedIn
<1>5. \A el \in Els : activity[el] \in Activities =>
        life[activity[el]] = "alive" /\ of[activity[el]] = el
  BY MemoryFields DEF MemoryKept, PlacedIn
<1>6. \A a \in Activities : life[a] = "alive" => of[a] \in Els /\ activity[of[a]] = a
  BY MemoryFields DEF MemoryKept, PlacedIn
<1>7. /\ open' = open \ {c} /\ els' = els /\ owner' = owner /\ of' = of
      /\ \A el \in Els : activity'[el] =
           IF \E a \in Held(c) \cap Activities : of[a] = el THEN None ELSE activity[el]
      /\ \A o \in Objects : life'[o] = IF o \in Doomed(c) THEN "freed" ELSE life[o]
      /\ \A d \in Conns, k \in Kinds :
           registry'[d][k] = IF d = c THEN EmptyRegistry ELSE registry[d][k]
  BY <1>1 DEF DeleteConnection
<1>8. Memory' \in Memories
  <2>1. activity' \in [Els -> Activities \cup {None, Local}]
    BY <1>1 DEF DeleteConnection
  <2>2. life' \in [Objects -> {"unborn", "alive", "freed"}]
    BY <1>1 DEF DeleteConnection
  <2>3. registry' \in [Conns -> [Kinds -> Registries]]
    <3>1. [k \in Kinds |-> EmptyRegistry] \in [Kinds -> Registries]
      BY EmptySound
    <3>. QED  BY <1>1, <3>1 DEF DeleteConnection
  <2>. QED  BY <2>1, <2>2, <2>3, <1>1, <1>7 DEF Memory, Memories
<1>9. \A d \in Conns, k \in Kinds : RegistrySound(Memory'.registry[d][k])
  BY <1>7, EmptySound, MemoryFields DEF Memory, MemoryKept, Kept
<1>10. \A d \in Conns, k \in Kinds :
         Named(Memory', d, k) = IF d = c THEN {} ELSE Named(Memory, d, k)
  BY <1>7 DEF Memory, Named, EmptyRegistry
<1>11. OwnedIn(Memory')
  <2>. SUFFICES ASSUME NEW d \in Conns, NEW k \in Kinds, NEW o \in Named(Memory', d, k)
                PROVE  /\ owner[o] = d /\ Kind(o) = k /\ life'[o] # "unborn"
                       /\ o \in Activities => of[o] \in Els
    BY <1>7 DEF OwnedIn, Memory
  <2>1. o \in Named(Memory, d, k) /\ o \in Objects
    <3>1. o \in Named(Memory, d, k)
      BY <1>10
    <3>2. registry[d][k] \in Registries
      BY <1>1
    <3>. QED  BY <3>1, <3>2, RegistryMaps, MemoryFields DEF Named
  <2>. QED  BY <2>1, <1>7, MemoryFields DEF MemoryKept, Kept, OwnedIn
<1>12. HeldIn(Memory', open', {})
  <2>. SUFFICES ASSUME NEW o \in Objects, life'[o] = "alive"
                PROVE  owner[o] \in open' /\ o \in Named(Memory', owner[o], Kind(o))
    BY <1>7 DEF HeldIn, Memory
  <2>1. life[o] = "alive" /\ o \notin Held(c)
    BY <1>7 DEF Doomed
  <2>. QED  BY <2>1, <1>1, <1>3, <1>7, <1>10, KindKnown
<1>13. PlacedIn(Memory', {})
  <2>1. Activities \subseteq Objects /\ None \notin Activities /\ Local \notin Activities
    BY MarksDistinct DEF Objects
  <2>2. \A b \in Activities : b \in Doomed(c) <=>
          b \in Held(c) \/ \E a \in Held(c) \cap Activities : activity[of[a]] = b
    BY <2>1 DEF Doomed
  <2>3. ASSUME NEW el \in Els, activity'[el] \in Activities
        PROVE  life'[activity'[el]] = "alive" /\ of[activity'[el]] = el
    <3>1. /\ activity'[el] = activity[el]
          /\ \A a \in Held(c) \cap Activities : of[a] # el
      BY <2>1, <2>3, <1>7
    <3>2. life[activity[el]] = "alive" /\ of[activity[el]] = el
      BY <3>1, <2>3, <1>5
    <3>3. activity[el] \notin Doomed(c)
      BY <3>1, <3>2, <2>2, <2>3, <1>4, <1>5
    <3>. QED  BY <3>1, <3>2, <3>3, <2>1, <2>3, <1>7
  <2>4. ASSUME NEW a \in Activities, life'[a] = "alive"
        PROVE  of[a] \in Els /\ activity'[of[a]] = a
    <3>1. life[a] = "alive" /\ a \notin Doomed(c)
      BY <2>1, <2>4, <1>7
    <3>2. of[a] \in Els /\ activity[of[a]] = a
      BY <3>1, <1>6
    <3>3. \A b \in Held(c) \cap Activities : of[b] # of[a]
      BY <3>1, <3>2, <2>2
    <3>. QED  BY <3>2, <3>3, <1>7
  <2>. QED  BY <2>3, <2>4, <1>7 DEF PlacedIn, Memory
<1>14. Kept(Memory', open', {})
  BY <1>8, <1>9, <1>11, <1>12 DEF Kept
<1>. QED  BY <1>1, <1>7, <1>13, <1>14 DEF MemoryKept

\* The activity of an element is a proxy of a connection that is open.
LEMMA ProxyOpen ==
    ASSUME MemoryKept, NEW el \in Els, activity[el] \in Activities
    PROVE  owner[activity[el]] \in open
BY MemoryFields DEF MemoryKept, Kept, HeldIn, PlacedIn, Objects

-----------------------------------------------------------------------------
(* The sockets and the nested activations.                                 *)

MsgFits(msg) == msg \in Requested /\ (msg.cmd \in ElementCommands => msg.on \in Els)

\* A request as read.
ReadFits(r) ==
    /\ MsgFits(r.msg) /\ r.readed \in BOOLEAN
    /\ (r.arg = Unread /\ ~r.readed) \/ ArgFits(r.msg.cmd, r.arg)

\* The part of TypeOK that is not about the memory.
SocketsTyped ==
    /\ gone \subseteq Conns /\ stuck \subseteq Conns /\ erred \subseteq Conns
    /\ sent \in [Conns -> Requested \cup {None}]
    /\ answer \in [Conns -> Requested \cup {None}]
    /\ request_ = [c \in Conns |-> request_[c]]
    /\ stack \in Seq(Frames)
    /\ crashed \in BOOLEAN

\* The server holds the request that the client of c waits for.
Waiting(c) ==
    /\ ReadFits(request_[c])
    /\ c \notin erred => /\ request_[c].msg = sent[c] /\ sent[c] # None
                         /\ answer[c] = None

RequestsFit ==
    /\ \A c \in Conns : sent[c] # None => MsgFits(sent[c])
    /\ \A c \in Conns : request_[c] # None => Waiting(c)

\* Who is activated has a connection; one request on a control socket at most
\* is under way, and is the outermost caller.
StackInOrder ==
    \A n \in 1 .. Len(stack) :
        /\ stack[n].conn \in open
        /\ stack[n].by = "control" =>
             n = 1 /\ stack[n].from \in Conns /\ Waiting(stack[n].from)

Matched == \A c \in Conns \ erred : answer[c] # None => answer[c] = sent[c]

ServerInv == MemoryKept /\ SocketsTyped /\ RequestsFit /\ StackInOrder /\ Matched

\* A uid names an object of the kind that the command is about.
LEMMA ResolveFits ==
    ASSUME MemoryKept, NEW c \in Conns, NEW msg, MsgFits(msg)
    PROVE  ArgFits(msg.cmd, Resolve(c, msg))
<1>1. CASE msg.cmd \in UidCommands
  <2>. DEFINE k == UidKind(msg.cmd)
              r == registry[c][k]
              x == Resolve(c, msg)
  <2>1. k \in {"wait", "iterator"} /\ k \in Kinds
    BY DEF UidKind, Kinds
  <2>2. r \in Registries /\ RegistrySound(r)
    BY <2>1, MemoryFields DEF MemoryKept, Kept, Memories
  <2>3. x = None \/ x \in DOMAIN r.obj2uid
    BY <1>1, <2>2 DEF Resolve, GetObj, RegistrySound, MapsAgree
  <2>4. ASSUME x \in DOMAIN r.obj2uid  PROVE x \in Iterators \cup Waits
    <3>1. x \in Objects
      BY <2>2, <2>4, RegistryMaps
    <3>2. Kind(x) = k
      BY <2>1, <2>4, MemoryFields DEF MemoryKept, Kept, OwnedIn, Named
    <3>. QED  BY <2>1, <3>1, <3>2 DEF Kind, Objects
  <2>5. msg.cmd \notin ElementCommands
    BY <1>1 DEF UidCommands, ElementCommands
  <2>. QED  BY <2>3, <2>4, <2>5 DEF ArgFits
<1>2. CASE msg.cmd \notin UidCommands
  BY <1>2 DEF ArgFits, Resolve, MsgFits
<1>. QED  BY <1>1, <1>2

\* What a handler of c finds.
LEMMA ReadedFits ==
    ASSUME MemoryKept, RequestsFit, NEW c \in Conns, sent[c] # None
    PROVE  /\ MsgFits(Readed(c).msg)
           /\ ArgFits(Readed(c).msg.cmd, Readed(c).arg)
           /\ ReadFits(Readed(c))
           /\ c \in erred \/ Readed(c).msg = sent[c]
<1>1. CASE request_[c] = None
  <2>1. Readed(c) = Request(sent[c], Resolve(c, sent[c]), TRUE)
    BY <1>1 DEF Readed
  <2>2. MsgFits(sent[c]) /\ ArgFits(sent[c].cmd, Resolve(c, sent[c]))
    BY ResolveFits DEF RequestsFit
  <2>. QED  BY <2>1, <2>2 DEF Request, ReadFits
<1>2. CASE request_[c] # None
  <2>. DEFINE r == request_[c]
  <2>1. ReadFits(r) /\ (c \in erred \/ r.msg = sent[c])
    BY <1>2 DEF RequestsFit, Waiting
  <2>2. CASE r.readed
    BY <1>2, <2>1, <2>2 DEF Readed, ReadFits
  <2>3. CASE ~r.readed
    <3>. DEFINE x == IF r.arg = Unread THEN Resolve(c, r.msg) ELSE r.arg
    <3>1. Readed(c) = Request(r.msg, x, TRUE)
      BY <1>2, <2>3 DEF Readed
    <3>2. ArgFits(r.msg.cmd, x)
      BY <2>1, ResolveFits DEF ReadFits
    <3>. QED  BY <2>1, <3>1, <3>2 DEF Request, ReadFits
  <2>. QED  BY <2>2, <2>3
<1>. QED  BY <1>1, <1>2

LEMMA RequestsAreFit ==
    ASSUME MemoryKept, NEW c \in Conns, NEW msg \in Requests(c)
    PROVE  MsgFits(msg)
<1>. Commands[c] \subseteq AllCommands
  BY CommandsKnown
<1>1. CASE msg \in [cmd : Commands[c] \cap ElementCommands, on : Els]
  BY <1>1 DEF MsgFits, Requested
<1>2. CASE msg \in UidRequests(c)
  <2>1. PICK cmd \in Commands[c] \cap UidCommands :
          msg \in [cmd : {cmd}, on : Uids(c, UidKind(cmd))]
    BY <1>2 DEF UidRequests
  <2>2. UidKind(cmd) \in Kinds
    BY DEF UidKind, Kinds
  <2>3. registry[c][UidKind(cmd)] \in Registries
    BY <2>2, MemoryFields DEF MemoryKept, Kept, Memories
  <2>4. msg.on \in Nat
    BY <2>1, <2>3, RegistryMaps DEF Uids
  <2>5. msg.cmd = cmd /\ msg = [cmd |-> msg.cmd, on |-> msg.on]
    BY <2>1
  <2>6. cmd \in AllCommands /\ cmd \notin ElementCommands
    BY DEF UidCommands, ElementCommands
  <2>. QED
    <3>1. msg \in Requested
      BY <2>4, <2>5, <2>6 DEF Requested
    <3>. QED  BY <2>5, <2>6, <3>1 DEF MsgFits
<1>3. CASE msg \in [cmd : Commands[c] \cap {"create_iterator", "close"}, on : {None}]
  <2>1. /\ msg.cmd \in Commands[c] \cap {"create_iterator", "close"} /\ msg.on = None
        /\ msg = [cmd |-> msg.cmd, on |-> msg.on]
    BY <1>3
  <2>2. msg.cmd \in AllCommands /\ msg.cmd \notin ElementCommands
    BY <2>1 DEF AllCommands, ElementCommands
  <2>. QED  BY <2>1, <2>2 DEF MsgFits, Requested
<1>. QED  BY <1>1, <1>2, <1>3 DEF Requests

-----------------------------------------------------------------------------
(* Each step keeps the invariant.                                          *)

LEMMA SendKeeps ==
    ASSUME ServerInv, NEW c \in Conns, NEW msg \in Requests(c), send(c, msg)
    PROVE  ServerInv'
<1>1. MemoryKept'
  BY SameMemoryKept DEF send, ServerInv
<1>2. MsgFits(msg)
  BY RequestsAreFit DEF ServerInv
<1>3. /\ \A d \in Conns : sent'[d] = IF d = c THEN msg ELSE sent[d]
      /\ sent' \in [Conns -> Requested \cup {None}]
      /\ sent[c] = None /\ UNCHANGED <<open, gone, request_, answer, stack, stuck, erred, crashed>>
  BY <1>2 DEF send, ServerInv, SocketsTyped, MsgFits
<1>4. SocketsTyped'
  BY <1>3 DEF ServerInv, SocketsTyped
<1>5. RequestsFit'
  BY <1>2, <1>3 DEF ServerInv, RequestsFit, Waiting, Matched
<1>6. StackInOrder'
  BY <1>3 DEF ServerInv, StackInOrder, Waiting, Matched
<1>7. Matched'
  BY <1>3 DEF ServerInv, Matched
<1>. QED  BY <1>1, <1>4, <1>5, <1>6, <1>7 DEF ServerInv

LEMMA ReceiveKeeps ==
    ASSUME ServerInv, NEW c \in Conns, receive(c)
    PROVE  ServerInv'
<1>1. MemoryKept'
  BY SameMemoryKept DEF receive, ServerInv
<1>2. /\ \A d \in Conns : sent'[d] = IF d = c THEN None ELSE sent[d]
      /\ \A d \in Conns : answer'[d] = IF d = c THEN None ELSE answer[d]
      /\ sent' \in [Conns -> Requested \cup {None}]
      /\ answer' \in [Conns -> Requested \cup {None}]
      /\ answer[c] # None /\ UNCHANGED <<open, gone, request_, stack, stuck, erred, crashed>>
  BY DEF receive, ServerInv, SocketsTyped
<1>3. SocketsTyped'
  BY <1>2 DEF ServerInv, SocketsTyped
<1>4. RequestsFit'
  BY <1>2 DEF ServerInv, RequestsFit, Waiting, Matched
<1>5. StackInOrder'
  BY <1>2 DEF ServerInv, StackInOrder, Waiting, Matched
<1>6. Matched'
  BY <1>2 DEF ServerInv, Matched
<1>. QED  BY <1>1, <1>3, <1>4, <1>5, <1>6 DEF ServerInv

\* A client goes, or freed memory is used.
LEMMA LostKeeps ==
    ASSUME ServerInv,
           \/ \E c \in Conns : disconnect(c)
           \/ Crash
    PROVE  ServerInv'
<1>1. /\ UNCHANGED <<memory, open, request_, sent, answer, stack, stuck, erred>>
      /\ gone' \subseteq Conns /\ crashed' \in BOOLEAN
  BY DEF disconnect, Crash, client, ServerInv, SocketsTyped
<1>2. MemoryKept'
  BY <1>1, SameMemoryKept DEF ServerInv
<1>3. SocketsTyped' /\ RequestsFit' /\ StackInOrder' /\ Matched'
  BY <1>1 DEF ServerInv, SocketsTyped, RequestsFit, StackInOrder, Matched, Waiting
<1>. QED  BY <1>2, <1>3 DEF ServerInv

\* An exception ends all that runs; a request that is being handled stays.
LEMMA UnwindKeeps ==
    ASSUME ServerInv, NEW by, NEW c, Unwind(by, c), by = "control" => c \in Conns,
           UNCHANGED <<memory, open, gone, client, erred>>,
           request_' = [d \in Conns |-> request_'[d]] /\ RequestsFit'
    PROVE  ServerInv'
<1>1. /\ UNCHANGED <<memory, open, gone, sent, answer, erred>>
      /\ stack' = <<>> /\ stuck' \subseteq Conns /\ crashed' \in BOOLEAN
  BY DEF Unwind, client, ServerInv, SocketsTyped
<1>2. MemoryKept'
  BY <1>1, SameMemoryKept DEF ServerInv
<1>3. SocketsTyped' /\ Matched'
  BY <1>1 DEF ServerInv, SocketsTyped, Matched
<1>4. StackInOrder'
  BY <1>1 DEF StackInOrder
<1>. QED  BY <1>2, <1>3, <1>4 DEF ServerInv

\* A proxy calls its client.
LEMMA PushKeeps ==
    ASSUME ServerInv, NEW el \in Els, activity[el] \in Activities,
           NEW by \in Callers, NEW c \in Conns \cup {None}, Push(activity[el], by, c),
           by = "control" => stack = <<>> /\ c \in Conns /\ Waiting(c)',
           stack = <<>> \/ UNCHANGED request_,
           UNCHANGED <<memory, open, gone, client, stuck, erred, crashed>>,
           request_' = [d \in Conns |-> request_'[d]] /\ RequestsFit'
    PROVE  ServerInv'
<1>. DEFINE f == [conn |-> owner[activity[el]], by |-> by, from |-> c]
<1>1. /\ UNCHANGED <<memory, open, gone, sent, answer, stuck, erred, crashed>>
      /\ stack' = Append(stack, f)
  BY DEF Push, client
<1>2. owner[activity[el]] \in open /\ open \subseteq Conns
  BY ProxyOpen DEF ServerInv, MemoryKept
<1>3. f \in Frames /\ stack \in Seq(Frames)
  BY <1>2 DEF Frames, ServerInv, SocketsTyped
<1>4. MemoryKept'
  BY <1>1, SameMemoryKept DEF ServerInv
<1>5. SocketsTyped' /\ Matched'
  BY <1>1, <1>3 DEF ServerInv, SocketsTyped, Matched
<1>6. StackInOrder'
  <2>. SUFFICES ASSUME NEW n \in 1 .. Len(stack')
                PROVE  (/\ stack[n].conn \in open
                        /\ stack[n].by = "control" =>
                             n = 1 /\ stack[n].from \in Conns /\ Waiting(stack[n].from))'
    BY DEF StackInOrder, Waiting
  <2>1. CASE n \in 1 .. Len(stack)
    <3>1. stack'[n] = stack[n] /\ stack # <<>>
      BY <1>1, <1>3, <2>1
    <3>. QED  BY <2>1, <3>1, <1>1 DEF ServerInv, StackInOrder, Waiting
  <2>2. CASE n = Len(stack) + 1
    <3>1. stack'[n] = f
      BY <1>1, <1>3, <2>2
    <3>. QED  BY <2>2, <3>1, <1>1, <1>2 DEF Waiting
  <2>. QED  BY <1>1, <1>3, <2>1, <2>2
<1>. QED  BY <1>4, <1>5, <1>6 DEF ServerInv

\* A handler leaves request r with its connection.
LEMMA HeldFits ==
    ASSUME ServerInv, NEW c \in Conns, Arrived(c), NEW r, ReadFits(r),
           c \in erred \/ r.msg = sent[c],
           request_' = [request_ EXCEPT ![c] = r], sent' = sent,
           erred \subseteq erred',
           \A d \in Conns : answer'[d] = answer[d] \/ (d = c /\ c \in erred')
    PROVE  /\ request_' = [d \in Conns |-> request_'[d]] /\ RequestsFit'
           /\ Waiting(c)'
<1>1. /\ request_' = [d \in Conns |-> request_'[d]]
      /\ \A d \in Conns : request_'[d] = IF d = c THEN r ELSE request_[d]
  BY DEF ServerInv, SocketsTyped
<1>2. Waiting(c)'
  BY <1>1 DEF Arrived, Waiting
<1>3. RequestsFit'
  BY <1>1, <1>2 DEF ServerInv, RequestsFit, Waiting
<1>. QED  BY <1>1, <1>2, <1>3

LEMMA HandlePartKeeps ==
    ASSUME ServerInv, NEW c \in Conns, handle_part(c)
    PROVE  ServerInv'
<1>1. PICK x : /\ request_' = [request_ EXCEPT ![c] = Request(sent[c], x, FALSE)]
               /\ x = Unread \/ x = Resolve(c, sent[c])
  BY DEF handle_part
<1>2. MsgFits(sent[c]) /\ Arrived(c)
  BY DEF handle_part, Arrived, ServerInv, RequestsFit
<1>3. ReadFits(Request(sent[c], x, FALSE)) /\ Request(sent[c], x, FALSE).msg = sent[c]
  BY <1>1, <1>2, ResolveFits DEF Request, ReadFits, ServerInv
<1>4. UNCHANGED <<memory, open, gone, sent, answer, stack, stuck, erred, crashed>>
  BY DEF handle_part, client
<1>5. request_' = [d \in Conns |-> request_'[d]] /\ RequestsFit'
  BY <1>1, <1>2, <1>3, <1>4, HeldFits
<1>6. MemoryKept'
  BY <1>4, SameMemoryKept DEF ServerInv
<1>7. SocketsTyped' /\ Matched'
  BY <1>4, <1>5 DEF ServerInv, SocketsTyped, Matched
<1>8. StackInOrder'
  BY <1>2, <1>4 DEF StackInOrder, Arrived, Idle
<1>. QED  BY <1>5, <1>6, <1>7, <1>8 DEF ServerInv

LEMMA HandleThrowsKeeps ==
    ASSUME ServerInv, NEW c \in Conns, handle_throws(c)
    PROVE  ServerInv'
<1>. DEFINE r == Readed(c)
<1>1. /\ Arrived(c) /\ answer' = [answer EXCEPT ![c] = r.msg]
      /\ request_' = [request_ EXCEPT ![c] = r] /\ erred' = erred \cup {c}
      /\ UNCHANGED <<memory, open, gone, sent, stack, stuck, crashed>>
  BY DEF handle_throws, Reply
<1>2. ReadFits(r) /\ MsgFits(r.msg) /\ (c \in erred \/ r.msg = sent[c])
  BY <1>1, ReadedFits DEF Arrived, ServerInv
<1>. HIDE DEF r
<1>3. /\ answer' \in [Conns -> Requested \cup {None}]
      /\ \A d \in Conns : answer'[d] = IF d = c THEN r.msg ELSE answer[d]
  BY <1>1, <1>2 DEF MsgFits, ServerInv, SocketsTyped
<1>4. request_' = [d \in Conns |-> request_'[d]] /\ RequestsFit'
  BY <1>1, <1>2, <1>3, HeldFits
<1>5. MemoryKept'
  BY <1>1, SameMemoryKept DEF ServerInv
<1>6. SocketsTyped' /\ Matched'
  BY <1>1, <1>3, <1>4 DEF ServerInv, SocketsTyped, Matched
<1>7. StackInOrder'
  BY <1>1 DEF StackInOrder, Arrived, Idle
<1>. QED  BY <1>4, <1>5, <1>6, <1>7 DEF ServerInv

\* The answer is written and the request deleted.
LEMMA ReplyKeeps ==
    ASSUME ServerInv, NEW c \in Conns, NEW msg, MsgFits(msg),
           c \in erred \/ msg = sent[c], Reply(c, msg), DropRequest(c),
           UNCHANGED <<gone, sent, erred, crashed>>,
           stuck' = stuck \/ stuck' \subseteq Conns
    PROVE  /\ RequestsFit' /\ Matched'
           /\ stack' \in Seq(Frames) => SocketsTyped'
<1>1. /\ answer' \in [Conns -> Requested \cup {None}]
      /\ \A d \in Conns : answer'[d] = IF d = c THEN msg ELSE answer[d]
      /\ request_' = [d \in Conns |-> request_'[d]]
      /\ \A d \in Conns : request_'[d] = IF d = c THEN None ELSE request_[d]
  BY DEF Reply, DropRequest, MsgFits, ServerInv, SocketsTyped
<1>2. RequestsFit'
  BY <1>1 DEF ServerInv, RequestsFit, Waiting
<1>. QED  BY <1>1, <1>2 DEF ServerInv, SocketsTyped, Matched

LEMMA HandleDoneKeeps ==
    ASSUME ServerInv, NEW c \in Conns, handle_done(c)
    PROVE  ServerInv'
<1>. DEFINE r == Readed(c)
<1>1. /\ Arrived(c) /\ Reply(c, r.msg) /\ DropRequest(c) /\ ~IsNil(r.msg.cmd, r.arg)
      /\ Perform(c, r.msg.cmd, r.arg) \/ UNCHANGED memory
      /\ UNCHANGED <<open, gone, sent, stack, stuck, erred, crashed>>
  BY DEF handle_done
<1>2. /\ MsgFits(r.msg) /\ (c \in erred \/ r.msg = sent[c])
      /\ ArgFits(r.msg.cmd, r.arg)
  BY <1>1, ReadedFits DEF Arrived, ServerInv
<1>. HIDE DEF r
<1>3. MemoryKept'
  BY <1>1, <1>2, PerformKeeps, SameMemoryKept DEF Arrived, ServerInv
<1>4. SocketsTyped' /\ RequestsFit' /\ Matched'
  BY <1>1, <1>2, ReplyKeeps DEF ServerInv, SocketsTyped
<1>5. StackInOrder'
  BY <1>1 DEF StackInOrder, Arrived, Idle
<1>. QED  BY <1>3, <1>4, <1>5 DEF ServerInv

LEMMA HandleCallsKeeps ==
    ASSUME ServerInv, NEW c \in Conns, handle_calls(c)
    PROVE  ServerInv'
<1>. DEFINE r == Readed(c)
            a == ProxyOf(r.msg.cmd, r.arg)
<1>1. /\ Arrived(c) /\ request_' = [request_ EXCEPT ![c] = r]
      /\ UNCHANGED <<memory, open, gone, client, erred>>
      /\ \/ a # None /\ Push(a, "control", c) /\ UNCHANGED <<stuck, crashed>>
         \/ Unwind("control", c)
  BY DEF handle_calls
<1>2. /\ ReadFits(r) /\ (c \in erred \/ r.msg = sent[c])
      /\ ArgFits(r.msg.cmd, r.arg)
  BY <1>1, ReadedFits DEF Arrived, ServerInv
<1>3. /\ request_' = [d \in Conns |-> request_'[d]] /\ RequestsFit'
      /\ Waiting(c)' /\ stack = <<>>
  <2>. HIDE DEF r
  <2>1. UNCHANGED <<sent, answer, erred>>
    BY <1>1 DEF client
  <2>. QED  BY <1>1, <1>2, <2>1, HeldFits DEF Arrived, Idle
<1>4. CASE Unwind("control", c)
  BY <1>1, <1>3, <1>4, UnwindKeeps
<1>5. CASE a # None /\ Push(a, "control", c) /\ UNCHANGED <<stuck, crashed>>
  <2>1. a = activity[r.arg] /\ a \in Activities /\ r.arg \in Els
    BY <1>2, <1>5 DEF ProxyOf, ArgFits, ElementCommands
  <2>2. "control" \in Callers
    BY DEF Callers
  <2>. HIDE DEF r, a
  <2>. QED  BY <1>1, <1>3, <1>5, <2>1, <2>2, PushKeeps
<1>. QED  BY <1>1, <1>4, <1>5

LEMMA HandleCloseKeeps ==
    ASSUME ServerInv, NEW c \in Conns, handle_close(c)
    PROVE  ServerInv'
<1>. DEFINE r == Readed(c)
<1>1. /\ Arrived(c) /\ Reply(c, r.msg) /\ DropRequest(c)
      /\ UNCHANGED <<gone, sent, stack, erred, crashed>>
      /\ \/ DeleteConnection(c) /\ stuck' = stuck
         \/ UNCHANGED <<memory, open>> /\ stuck' = stuck \cup {c}
  BY DEF handle_close
<1>2. MsgFits(r.msg) /\ (c \in erred \/ r.msg = sent[c])
  BY <1>1, ReadedFits DEF Arrived, ServerInv
<1>. HIDE DEF r
<1>3. MemoryKept'
  BY <1>1, CloseKeeps, SameMemoryKept DEF Arrived, ServerInv
<1>4. SocketsTyped' /\ RequestsFit' /\ Matched'
  <2>1. stuck' = stuck \/ stuck' \subseteq Conns
    BY <1>1 DEF ServerInv, SocketsTyped
  <2>. QED  BY <1>1, <1>2, <2>1, ReplyKeeps DEF ServerInv, SocketsTyped
<1>5. StackInOrder'
  BY <1>1 DEF StackInOrder, Arrived, Idle
<1>. QED  BY <1>3, <1>4, <1>5 DEF ServerInv

LEMMA BelowIs ==
    ASSUME ServerInv, stack # <<>>
    PROVE  /\ Below \in Seq(Frames) /\ Len(stack) \in Nat \ {0}
           /\ Len(Below) = Len(stack) - 1
           /\ \A n \in 1 .. Len(Below) : Below[n] = stack[n] /\ n \in 1 .. Len(stack)
           /\ Top \in Frames /\ Top.conn \in open
           /\ Top.by = "control" => /\ Len(stack) = 1 /\ Top.from \in Conns
                                    /\ Waiting(Top.from)
<1>1. stack \in Seq(Frames) /\ Len(stack) \in Nat \ {0} /\ Len(stack) \in 1 .. Len(stack)
  BY DEF ServerInv, SocketsTyped
<1>2. /\ Below \in Seq(Frames) /\ Len(Below) = Len(stack) - 1
      /\ \A n \in 1 .. Len(stack) - 1 : Below[n] = stack[n]
  <2>1. \A i \in 1 .. Len(stack) - 1 : stack[i] \in Frames
    BY <1>1
  <2>. DEFINE n == Len(stack) - 1
  <2>0. n \in Nat
    BY <1>1
  <2>. HIDE DEF n
  <2>2. n \in Int /\ 1 \in Int /\ n - 1 + 1 = n /\ (1 <= n \/ n = 0)
    BY <2>0
  <2>3. \A i \in 1 .. n : stack[i] \in Frames
    BY <2>1 DEF n
  <2>4. /\ SubSeq(stack, 1, n) \in Seq(Frames)
        /\ Len(SubSeq(stack, 1, n)) = IF 1 <= n THEN n - 1 + 1 ELSE 0
        /\ \A i \in 1 .. n - 1 + 1 : SubSeq(stack, 1, n)[i] = stack[1 + i - 1]
    BY <2>2, <2>3, SubSeqProperties
  <2>5. \A i \in 1 .. n : SubSeq(stack, 1, n)[i] = stack[i]
    BY <2>2, <2>4
  <2>6. Below = SubSeq(stack, 1, n)
    BY DEF Below, n
  <2>7. /\ Below \in Seq(Frames) /\ Len(Below) = n
        /\ \A i \in 1 .. n : Below[i] = stack[i]
    BY <2>2, <2>4, <2>5, <2>6
  <2>. QED  BY <2>7 DEF n
<1>3. Top \in Frames
  BY <1>1 DEF Top
<1>4. /\ Top.conn \in open
      /\ Top.by = "control" => Len(stack) = 1 /\ Top.from \in Conns /\ Waiting(Top.from)
  BY <1>1 DEF ServerInv, StackInOrder, Top
<1>. QED  BY <1>1, <1>2, <1>3, <1>4

\* An activation ends.
LEMMA ResumeKeeps ==
    ASSUME ServerInv, stack # <<>>, Resume, MemoryKept',
           \A n \in 1 .. Len(stack) - 1 : stack[n].conn \in open',
           UNCHANGED <<gone, sent, stuck, erred, crashed>>
    PROVE  ServerInv'
<1>1. stack' = Below /\ stack' \in Seq(Frames)
  BY BelowIs DEF Resume
<1>2. CASE Top.by = "control"
  <2>. DEFINE c == Top.from
  <2>1. /\ Reply(c, request_[c].msg) /\ DropRequest(c)
        /\ Len(stack) = 1 /\ c \in Conns /\ Waiting(c)
    BY <1>2, BelowIs DEF Resume
  <2>2. MsgFits(request_[c].msg) /\ (c \in erred \/ request_[c].msg = sent[c])
    BY <2>1 DEF Waiting, ReadFits
  <2>3. SocketsTyped' /\ RequestsFit' /\ Matched'
    <3>. HIDE DEF c
    <3>. QED  BY <1>1, <2>1, <2>2, ReplyKeeps
  <2>4. StackInOrder'
    BY <1>1, <2>1, BelowIs DEF StackInOrder
  <2>. QED  BY <2>3, <2>4 DEF ServerInv
<1>3. CASE Top.by # "control"
  <2>1. UNCHANGED <<answer, request_>>
    BY <1>3 DEF Resume
  <2>2. SocketsTyped' /\ RequestsFit' /\ Matched'
    BY <1>1, <2>1 DEF ServerInv, SocketsTyped, RequestsFit, Waiting, Matched
  <2>3. StackInOrder'
    BY <1>1, <2>1, BelowIs DEF ServerInv, StackInOrder, Waiting
  <2>. QED  BY <2>2, <2>3 DEF ServerInv
<1>. QED  BY <1>2, <1>3

LEMMA EventReturnKeeps ==
    ASSUME ServerInv, NEW c \in Conns, event_return(c)
    PROVE  ServerInv'
<1>1. /\ stack # <<>> /\ Resume
      /\ UNCHANGED <<memory, open, gone, sent, stuck, erred, crashed>>
  BY DEF event_return, Serves
<1>2. MemoryKept'
  BY <1>1, SameMemoryKept DEF ServerInv
<1>3. \A n \in 1 .. Len(stack) - 1 : stack[n].conn \in open'
  BY <1>1 DEF ServerInv, StackInOrder, SocketsTyped
<1>. QED  BY <1>1, <1>2, <1>3, ResumeKeeps

LEMMA EventRequestKeeps ==
    ASSUME ServerInv, NEW c \in Conns, event_request(c)
    PROVE  ServerInv'
<1>1. PICK msg \in Requests(c) :
        ~IsNil(msg.cmd, Resolve(c, msg)) /\ Perform(c, msg.cmd, Resolve(c, msg))
  BY DEF event_request
<1>2. /\ stack # <<>> /\ Top.conn = c
      /\ UNCHANGED <<open, gone, request_, sent, answer, stack, stuck, erred, crashed>>
  BY DEF event_request, Serves, client
<1>3. ArgFits(msg.cmd, Resolve(c, msg)) /\ c \in open
  BY <1>2, RequestsAreFit, ResolveFits, BelowIs DEF ServerInv
<1>4. MemoryKept'
  BY <1>1, <1>2, <1>3, PerformKeeps DEF ServerInv
<1>5. SocketsTyped' /\ RequestsFit' /\ StackInOrder' /\ Matched'
  BY <1>2 DEF ServerInv, SocketsTyped, RequestsFit, StackInOrder, Matched, Waiting
<1>. QED  BY <1>4, <1>5 DEF ServerInv

\* The request under way on the control socket is the outermost frame's.
LEMMA UnwindsControl ==
    ASSUME ServerInv, stack # <<>>
    PROVE  stack[1].by = "control" => stack[1].from \in Conns
BY DEF ServerInv, StackInOrder, SocketsTyped

LEMMA EventCallsKeeps ==
    ASSUME ServerInv, NEW c \in Conns, event_calls(c)
    PROVE  ServerInv'
<1>1. /\ UNCHANGED <<memory, open, gone, request_, client, erred>> /\ stack # <<>>
      /\ request_' = [d \in Conns |-> request_'[d]]
  BY DEF event_calls, Serves, ServerInv, SocketsTyped
<1>2. RequestsFit'
  BY <1>1 DEF ServerInv, RequestsFit, Waiting, client
<1>3. PICK msg \in Requests(c) :
        LET a == ProxyOf(msg.cmd, Resolve(c, msg))
        IN  \/ a # None /\ Push(a, "event", c) /\ UNCHANGED <<stuck, crashed>>
            \/ Unwind(stack[1].by, stack[1].from)
  BY DEF event_calls
<1>4. CASE Unwind(stack[1].by, stack[1].from)
  BY <1>1, <1>2, <1>4, UnwindsControl, UnwindKeeps
<1>5. ASSUME NEW a, a = ProxyOf(msg.cmd, Resolve(c, msg)), a # None,
             Push(a, "event", c), UNCHANGED <<stuck, crashed>>
      PROVE  ServerInv'
  <2>1. ArgFits(msg.cmd, Resolve(c, msg))
    BY RequestsAreFit, ResolveFits DEF ServerInv
  <2>2. PICK el \in Els : a = activity[el] /\ a \in Activities
    BY <1>5, <2>1 DEF ProxyOf, ArgFits, ElementCommands
  <2>3. "event" \in Callers /\ "event" # "control"
    BY DEF Callers
  <2>. QED  BY <1>1, <1>2, <1>5, <2>2, <2>3, PushKeeps
<1>. QED  BY <1>3, <1>4, <1>5

LEMMA EventCloseKeeps ==
    ASSUME ServerInv, NEW c \in Conns, event_close(c)
    PROVE  ServerInv'
<1>1. /\ stack # <<>> /\ Top.conn = c /\ ~UsedBelow(c) /\ DeleteConnection(c) /\ Resume
      /\ UNCHANGED <<gone, sent, stuck, erred, crashed>>
  BY DEF event_close, Serves
<1>2. c \in open
  BY <1>1, BelowIs
<1>3. MemoryKept'
  BY <1>1, <1>2, CloseKeeps DEF ServerInv
<1>4. \A n \in 1 .. Len(stack) - 1 : stack[n].conn \in open'
  BY <1>1 DEF UsedBelow, DeleteConnection, ServerInv, StackInOrder, SocketsTyped
<1>. QED  BY <1>1, <1>3, <1>4, ResumeKeeps

LEMMA EventLostKeeps ==
    ASSUME ServerInv, event_lost
    PROVE  ServerInv'
<1>. SUFFICES ASSUME ~Crash
              PROVE  ServerInv'
  BY LostKeeps
<1>1. /\ Unwind(stack[1].by, stack[1].from) /\ stack # <<>>
      /\ UNCHANGED <<memory, open, gone, request_, client, erred>>
      /\ request_' = [d \in Conns |-> request_'[d]]
  BY DEF event_lost, ServerInv, SocketsTyped
<1>2. RequestsFit'
  BY <1>1 DEF ServerInv, RequestsFit, Waiting, client
<1>. QED  BY <1>1, <1>2, UnwindsControl, UnwindKeeps

\* An agent changes the activity of an element, or erases it.
LEMMA AgentKeeps ==
    ASSUME ServerInv, NEW el \in Els,
           agent_reimplement(el) \/ agent_erase(el) \/ agent_unref(el)
    PROVE  ServerInv'
<1>1. UNCHANGED <<open, gone, request_, sent, answer, stack, stuck, erred, crashed>>
  BY DEF agent_reimplement, agent_erase, agent_unref, client
<1>2. MemoryKept'
  <2>1. CASE agent_reimplement(el)
    <3>1. PICK new \in {Local, None} : SetMemory(Reimplemented(Memory, el, new))
      BY <2>1 DEF agent_reimplement
    <3>. DEFINE m == Reimplemented(Memory, el, new)
    <3>2. Given(Memory, {}, el, new)
      BY DEF Given
    <3>3. Kept(m, open, {}) /\ PlacedIn(m, {})
      BY <3>2, ReimplementedKept DEF ServerInv, MemoryKept
    <3>4. Kept(Memory', open, {}) /\ PlacedIn(Memory', {})
      <4>. HIDE DEF m
      <4>1. SetMemory(m)
        BY <3>1 DEF m
      <4>. QED  BY <3>3, <4>1, SetMemoryKept
    <3>. QED  BY <2>1, <3>4, <1>1 DEF agent_reimplement, ServerInv, MemoryKept
  <2>2. CASE agent_erase(el)
    BY <2>2, <1>1, EraseKeeps DEF agent_erase, ServerInv
  <2>3. CASE agent_unref(el)
    <3>1. /\ Kept(WaitsFreed(Memory, el), open, {})
          /\ PlacedIn(WaitsFreed(Memory, el), {})
      BY WaitsFreedKept DEF ServerInv, MemoryKept
    <3>2. Kept(Memory', open, {}) /\ PlacedIn(Memory', {})
      BY <2>3, <3>1, SetMemoryKept DEF agent_unref
    <3>. QED  BY <2>3, <3>2, <1>1 DEF agent_unref, ServerInv, MemoryKept
  <2>. QED  BY <2>1, <2>2, <2>3
<1>3. SocketsTyped' /\ RequestsFit' /\ StackInOrder' /\ Matched'
  BY <1>1 DEF ServerInv, SocketsTyped, RequestsFit, StackInOrder, Matched, Waiting
<1>. QED  BY <1>2, <1>3 DEF ServerInv

LEMMA AgentCallsKeeps ==
    ASSUME ServerInv, NEW el \in Els, agent_calls(el)
    PROVE  ServerInv'
<1>. DEFINE a == ProxyOf("activate", el)
<1>1. /\ UNCHANGED <<memory, open, gone, request_, client, erred>> /\ stack = <<>>
      /\ request_' = [d \in Conns |-> request_'[d]]
      /\ \/ a # None /\ Push(a, "agent", None) /\ UNCHANGED <<stuck, crashed>>
         \/ Unwind("agent", None)
  BY DEF agent_calls, Idle, ServerInv, SocketsTyped
<1>2. RequestsFit'
  BY <1>1 DEF ServerInv, RequestsFit, Waiting, client
<1>3. CASE Unwind("agent", None)
  BY <1>1, <1>2, <1>3, UnwindKeeps
<1>4. CASE a # None /\ Push(a, "agent", None) /\ UNCHANGED <<stuck, crashed>>
  <2>1. a = activity[el] /\ a \in Activities /\ "agent" \in Callers
    BY <1>4 DEF ProxyOf, Callers
  <2>. HIDE DEF a
  <2>. QED  BY <1>1, <1>2, <1>4, <2>1, PushKeeps
<1>. QED  BY <1>1, <1>3, <1>4

LEMMA InitFits == Init => ServerInv
<1>. SUFFICES ASSUME Init  PROVE ServerInv
  OBVIOUS
<1>1. Memory \in Memories
  BY EmptySound DEF Init, Memory, Memories
<1>2. \A c \in Conns, k \in Kinds :
        RegistrySound(Memory.registry[c][k]) /\ Named(Memory, c, k) = {}
  BY EmptySound DEF Init, Memory, Named, EmptyRegistry
<1>3. OwnedIn(Memory) /\ HeldIn(Memory, open, {}) /\ PlacedIn(Memory, {})
  <2>1. Activities \subseteq Objects /\ None \notin Activities
    BY MarksDistinct DEF Objects
  <2>. QED  BY <1>2, <2>1 DEF OwnedIn, HeldIn, PlacedIn, Init, Memory
<1>4. MemoryKept
  BY <1>1, <1>2, <1>3 DEF MemoryKept, Kept, Init
<1>5. SocketsTyped /\ RequestsFit /\ StackInOrder /\ Matched
  <2>1. SocketsTyped
    <3>1. <<>> \in Seq(Frames)
      OBVIOUS
    <3>2. request_ = [c \in Conns |-> request_[c]]
      BY DEF Init
    <3>. QED  BY <3>1, <3>2 DEF Init, SocketsTyped
  <2>2. RequestsFit /\ Matched
    BY DEF Init, RequestsFit, Matched
  <2>3. StackInOrder
    BY DEF Init, StackInOrder
  <2>. QED  BY <2>1, <2>2, <2>3
<1>. QED  BY <1>4, <1>5 DEF ServerInv

LEMMA NextKeeps == ServerInv /\ [Next]_vars => ServerInv'
<1>. SUFFICES ASSUME ServerInv, [Next]_vars  PROVE ServerInv'
  OBVIOUS
<1>1. ASSUME NEW c \in Conns, Handle(c)  PROVE ServerInv'
  <2>1. CASE handle_crashes(c)
    BY <2>1, LostKeeps DEF handle_crashes
  <2>. QED  BY <1>1, <2>1, HandlePartKeeps, HandleThrowsKeeps, HandleDoneKeeps,
            HandleCallsKeeps, HandleCloseKeeps DEF Handle
<1>2. ASSUME NEW c \in Conns,
             receive(c) \/ disconnect(c) \/ \E msg \in Requests(c) : send(c, msg)
      PROVE  ServerInv'
  BY <1>2, ReceiveKeeps, LostKeeps, SendKeeps
<1>3. ASSUME NEW c \in Conns,
             event_return(c) \/ event_request(c) \/ event_calls(c) \/ event_close(c)
      PROVE  ServerInv'
  BY <1>3, EventReturnKeeps, EventRequestKeeps, EventCallsKeeps, EventCloseKeeps
<1>4. ASSUME NEW c \in Conns, event_crashes(c)  PROVE ServerInv'
  BY <1>4, LostKeeps DEF event_crashes
<1>5. ASSUME NEW el \in Els,
             \/ agent_reimplement(el) \/ agent_erase(el)
             \/ agent_unref(el) \/ agent_calls(el)
      PROVE  ServerInv'
  BY <1>5, AgentKeeps, AgentCallsKeeps
<1>6. CASE UNCHANGED vars
  <2>1. UNCHANGED <<memory, open, gone, request_, sent, answer, stack, stuck, erred, crashed>>
    BY <1>6 DEF vars, memory
  <2>2. MemoryKept'
    BY <2>1, SameMemoryKept DEF ServerInv
  <2>3. SocketsTyped' /\ RequestsFit' /\ StackInOrder' /\ Matched'
    BY <2>1 DEF ServerInv, SocketsTyped, RequestsFit, StackInOrder, Matched, Waiting
  <2>. QED  BY <2>2, <2>3 DEF ServerInv
<1>. QED  BY <1>1, <1>2, <1>3, <1>4, <1>5, <1>6, EventLostKeeps DEF Next

LEMMA ServerInvariant == Spec => []ServerInv
BY InitFits, NextKeeps, PTL DEF Spec

\* UidsSound for any connections and objects: no uid of a connection ever names
\* two objects, whatever order objects are made, unregistered and deleted in,
\* a whole connection at once included (rgp_obj_registry, ~rgp_connection).
THEOREM UidsStaySound == Spec => []UidsSound
<1>1. ServerInv => UidsSound
  BY MemoryFields DEF ServerInv, MemoryKept, Kept, UidsSound
<1>. QED  BY <1>1, ServerInvariant, PTL

\* ObjectsHeld for any connections and objects: nothing outlives the connection
\* that it belongs to (~rgp_connection).
THEOREM ObjectsStayHeld == Spec => []ObjectsHeld
<1>1. ServerInv => ObjectsHeld
  BY MemoryFields DEF ServerInv, MemoryKept, Kept, HeldIn, Named, ObjectsHeld
<1>. QED  BY <1>1, ServerInvariant, PTL

\* ProxiesInPlace for any elements and connections: a proxy is the activity of
\* its element until it is deleted, and never after (rgp_proxy_activity::done).
THEOREM ProxiesStayInPlace == Spec => []ProxiesInPlace
<1>1. ServerInv => ProxiesInPlace
  BY MemoryFields DEF ServerInv, MemoryKept, PlacedIn, ProxiesInPlace
<1>. QED  BY <1>1, ServerInvariant, PTL

\* AnswersMatch, with the types of the variables, for any depth of nested
\* activations: what a client reads as RETURN answers the request that it waits
\* for, unless a handler of its connection has thrown (executing_response).
THEOREM AnswersStayMatched == Spec => []AnswersMatch
<1>1. ServerInv => TypeOK
  BY MemoryFields DEF ServerInv, MemoryKept, Kept, Memories, SocketsTyped, TypeOK
<1>2. ServerInv => AnswersMatch
  BY <1>1 DEF ServerInv, Matched, AnswersMatch
<1>. QED  BY <1>2, ServerInvariant, PTL
=============================================================================
