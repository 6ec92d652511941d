--------------------------- MODULE Registry_proofs ---------------------------
(***************************************************************************)
(* Proofs about Registry, for any number of owners, closers, logins and    *)
(* upstreams: the index agrees with the map, and Registry implements       *)
(* LiveConnections.                                                        *)
(*                                                                         *)
(* IndexConsistent is not inductive: that a removal takes out the right    *)
(* pair of entries depends on the owner still holding what it stored, and  *)
(* that a store adds a new id on the counter never giving one out twice.   *)
(* The refinement also needs that no two entries share a CancelFunc: each  *)
(* entry has an owner, and each owner a context for each connection.       *)
(***************************************************************************)
EXTENDS Registry, TLAPS

\* What an owner holds agrees with the map, ids are unique, and a connection
\* has the latest CancelFunc of its owner.
OwnersHold ==
  /\ nextID <= MaxIds
  /\ DOMAIN conns \subseteq 1..nextID
  /\ \A o \in Owners : owner[o].pc = "drawn" =>
       owner[o].id \in 1..nextID /\ owner[o].id \notin DOMAIN conns
  /\ \A o \in Owners : owner[o].pc = "registered" =>
       owner[o].id \in DOMAIN conns /\ conns[owner[o].id] = owner[o].c
  /\ \A o, p \in Owners :
       o # p /\ owner[o].pc # "idle" /\ owner[p].pc # "idle" => owner[o].id # owner[p].id

CancelsHold ==
  /\ \A o \in Owners : served[o] <= nextID
  /\ \A o \in Owners : owner[o].pc # "idle" =>
       served[o] >= 1 /\ owner[o].c.cancel = <<o, served[o]>>
  /\ \A id \in DOMAIN conns : \E o \in Owners :
       owner[o].pc = "registered" /\ owner[o].id = id

Inv == TypeOK /\ OwnersHold /\ CancelsHold /\ IndexConsistent

-----------------------------------------------------------------------------
(* Maps that grow and shrink. *)

\* What With and Without return.
LEMMA WithType ==
  ASSUME NEW D, NEW T, NEW f \in [D -> T], NEW k, NEW v \in T
  PROVE  /\ DOMAIN With(f, k, v) = D \cup {k}
         /\ With(f, k, v) \in [DOMAIN With(f, k, v) -> T]
BY DEF With

\* What With stores under the new key and leaves under the others.
LEMMA WithValue ==
  ASSUME NEW f, NEW k, NEW v
  PROVE  /\ DOMAIN With(f, k, v) = DOMAIN f \cup {k}
         /\ \A x \in DOMAIN f \cup {k} : With(f, k, v)[x] = IF x = k THEN v ELSE f[x]
BY DEF With

\* Removing a key keeps the map well-typed and drops that key only.
LEMMA WithoutType ==
  ASSUME NEW D, NEW T, NEW f \in [D -> T], NEW k
  PROVE  /\ DOMAIN Without(f, k) = D \ {k}
         /\ Without(f, k) \in [DOMAIN Without(f, k) -> T]
BY DEF Without

\* The types of the two maps.
LEMMA MapType ==
  ASSUME TypeOK
  PROVE  /\ DOMAIN conns \subseteq Nat /\ conns \in [DOMAIN conns -> Conn]
         /\ DOMAIN byKey \subseteq Keys /\ byKey \in [DOMAIN byKey -> SUBSET Nat]
BY DEF TypeOK

\* An owner that is not idle holds a connection and an id.
LEMMA OwnerType ==
  ASSUME TypeOK, NEW o \in Owners, owner[o].pc # "idle"
  PROVE  /\ owner[o] \in [pc : {"drawn", "registered"}, c : Conn, id : Nat]
         /\ owner[o].id \in Nat /\ owner[o].c \in Conn /\ Key(owner[o].c) \in Keys
BY DEF TypeOK, NoOwner, Conn, Key, Keys

-----------------------------------------------------------------------------
(* The selections. *)

\* The registered connections a method is asked to close, whether
\* it goes through the index or scans.
LEMMA SelectedIs ==
  ASSUME IndexConsistent, NEW s \in A!Selections
  PROVE  Selected(s) = {id \in DOMAIN conns : A!Selects(s, conns[id])}
<1>1. CASE s.by = "pair"
  <2>1. \A id \in DOMAIN conns :
          Key(conns[id]) = <<s.login, s.up>> <=> conns[id].login = s.login /\ conns[id].up = s.up
    BY DEF Key
  <2>2. CASE <<s.login, s.up>> \in DOMAIN byKey
    <3>1. byKey[<<s.login, s.up>>] = {id \in DOMAIN conns : Key(conns[id]) = <<s.login, s.up>>}
      BY <2>2 DEF IndexConsistent
    <3> QED
      BY <1>1, <2>1, <2>2, <3>1 DEF Selected, A!Selects
  <2>3. CASE <<s.login, s.up>> \notin DOMAIN byKey
    <3>1. \A id \in DOMAIN conns : Key(conns[id]) # <<s.login, s.up>>
      BY <2>3 DEF IndexConsistent
    <3> QED
      BY <1>1, <2>1, <2>3, <3>1 DEF Selected, A!Selects
  <2> QED
    BY <2>2, <2>3
<1>2. CASE s.by = "upstream"
  BY <1>2 DEF Selected, A!Selects
<1>3. CASE s.by = "username"
  BY <1>3 DEF Selected, A!Selects
<1> QED
  BY <1>1, <1>2, <1>3 DEF A!Selections

-----------------------------------------------------------------------------
(* Type correctness. *)

\* An empty registry satisfies the invariant.
LEMMA InitInv == Init => Inv
<1> SUFFICES ASSUME Init PROVE Inv
  OBVIOUS
<1> USE DEF Init, NoOwner, NoClose
<1>1. TypeOK
  BY DEF TypeOK
<1>2. OwnersHold /\ CancelsHold
  BY RegistryAssumption DEF OwnersHold, CancelsHold
<1>3. IndexConsistent
  BY DEF IndexConsistent
<1> QED
  BY <1>1, <1>2, <1>3 DEF Inv

\* Every action preserves the types.
LEMMA TypeStep == Inv /\ [Next]_vars => TypeOK'
<1> SUFFICES ASSUME Inv, [Next]_vars PROVE TypeOK'
  OBVIOUS
<1> USE DEF Inv
<1>1. ASSUME NEW o \in Owners, NEW login \in Logins, NEW up \in Upstreams, DrawId(o, login, up)
      PROVE  TypeOK'
  <2> DEFINE f == <<o, served[o] + 1>>
  <2>1. f \in CancelFuncs
    <3>1. nextID \in Nat /\ served[o] \in Nat /\ served[o] <= nextID /\ nextID < MaxIds
      BY <1>1 DEF DrawId, TypeOK, CancelsHold
    <3>2. served[o] + 1 \in 1..MaxIds
      BY <3>1, RegistryAssumption
    <3> QED
      BY <3>2 DEF CancelFuncs
  <2> HIDE DEF f
  <2>2. [login |-> login, up |-> up, cancel |-> f] \in Conn
    BY <2>1 DEF Conn
  <2>3. /\ owner' = [owner EXCEPT ![o] = [pc |-> "drawn", id |-> nextID + 1,
                       c |-> [login |-> login, up |-> up, cancel |-> f]]]
        /\ nextID' = nextID + 1 /\ served' = [served EXCEPT ![o] = @ + 1]
        /\ UNCHANGED <<conns, byKey, closer, cut>>
    BY <1>1 DEF DrawId, f
  <2> QED
    BY <2>2, <2>3 DEF TypeOK
<1>2. ASSUME NEW o \in Owners, Store(o) PROVE TypeOK'
  <2> DEFINE id == owner[o].id
             key == Key(owner[o].c)
             set == IF key \in DOMAIN byKey THEN byKey[key] ELSE {}
  <2>0. owner[o].pc # "idle"
    BY <1>2 DEF Store
  <2>1. id \in Nat /\ owner[o].c \in Conn /\ key \in Keys
    BY <2>0, OwnerType
  <2>2. set \in SUBSET Nat
    BY DEF TypeOK
  <2>3. conns' = With(conns, id, owner[o].c) /\ byKey' = With(byKey, key, set \cup {id})
    BY <1>2 DEF Store
  <2>4. set \cup {id} \in SUBSET Nat
    BY <2>1, <2>2
  <2>5. owner' \in [Owners -> {NoOwner} \cup [pc : {"drawn", "registered"}, c : Conn, id : Nat]]
    <3>1. [owner[o] EXCEPT !.pc = "registered"]
            \in [pc : {"drawn", "registered"}, c : Conn, id : Nat]
      BY <2>0, OwnerType
    <3> QED
      BY <1>2, <3>1 DEF Store, TypeOK
  <2> HIDE DEF set, key, id
  <2>6. DOMAIN conns' \subseteq Nat /\ conns' \in [DOMAIN conns' -> Conn]
    <3>1. DOMAIN With(conns, id, owner[o].c) = DOMAIN conns \cup {id}
      BY WithValue
    <3>2. With(conns, id, owner[o].c) \in [DOMAIN With(conns, id, owner[o].c) -> Conn]
      BY <2>1, MapType, WithType
    <3> QED
      BY <2>1, <2>3, <3>1, <3>2, MapType
  <2>7. DOMAIN byKey' \subseteq Keys /\ byKey' \in [DOMAIN byKey' -> SUBSET Nat]
    <3> DEFINE m == With(byKey, key, set \cup {id})
    <3>1. DOMAIN m = DOMAIN byKey \cup {key} /\ m \in [DOMAIN m -> SUBSET Nat]
      BY <2>4, MapType, WithType
    <3> QED
      BY <2>1, <2>3, <3>1, MapType
  <2> QED
    BY <1>2, <2>5, <2>6, <2>7 DEF Store, TypeOK
<1>3. ASSUME NEW o \in Owners, Deregister(o) PROVE TypeOK'
  <2> DEFINE id == owner[o].id
             key == Key(owner[o].c)
             rest == byKey[key] \ {id}
  <2>1. owner[o].pc = "registered" /\ id \in DOMAIN conns /\ conns[id] = owner[o].c
    BY <1>3 DEF Deregister, OwnersHold
  <2>2. key \in DOMAIN byKey
    BY <2>1 DEF IndexConsistent
  <2>3. rest \in SUBSET Nat
    BY <2>2 DEF TypeOK
  <2>4. /\ conns' = Without(conns, id)
        /\ byKey' = IF rest = {} THEN Without(byKey, key) ELSE With(byKey, key, rest)
    BY <1>3 DEF Deregister
  <2> HIDE DEF rest, key, id
  <2>5. DOMAIN conns' \subseteq Nat /\ conns' \in [DOMAIN conns' -> Conn]
    <3>1. /\ DOMAIN Without(conns, id) = DOMAIN conns \ {id}
          /\ Without(conns, id) \in [DOMAIN Without(conns, id) -> Conn]
      BY MapType, WithoutType
    <3> QED
      BY <2>4, <3>1, MapType
  <2>6. DOMAIN byKey' \subseteq Keys /\ byKey' \in [DOMAIN byKey' -> SUBSET Nat]
    <3>1. CASE rest = {}
      <4>1. /\ DOMAIN Without(byKey, key) = DOMAIN byKey \ {key}
            /\ Without(byKey, key) \in [DOMAIN Without(byKey, key) -> SUBSET Nat]
        BY MapType, WithoutType
      <4> QED
        BY <3>1, <2>4, <4>1, MapType
    <3>2. CASE rest # {}
      <4> DEFINE m == With(byKey, key, rest)
      <4>1. DOMAIN m = DOMAIN byKey \cup {key} /\ m \in [DOMAIN m -> SUBSET Nat]
        BY <2>3, MapType, WithType
      <4> QED
        BY <3>2, <2>2, <2>4, <4>1, MapType
    <3> QED
      BY <3>1, <3>2
  <2> QED
    BY <1>3, <2>5, <2>6 DEF Deregister, TypeOK
<1>4. ASSUME NEW k \in Closers, NEW s \in A!Selections, Collect(k, s) PROVE TypeOK'
  <2>1. Collected(s) \in SUBSET CancelFuncs
    <3>1. Selected(s) \subseteq DOMAIN conns
      BY SelectedIs
    <3>2. \A id \in DOMAIN conns : conns[id].cancel \in CancelFuncs
      BY MapType DEF Conn
    <3> QED
      BY <3>1, <3>2 DEF Collected
  <2> QED
    BY <1>4, <2>1 DEF Collect, TypeOK
<1>5. ASSUME NEW k \in Closers, CallCancel(k) PROVE TypeOK'
  BY <1>5 DEF CallCancel, TypeOK, NoClose
<1>6. ASSUME NEW k \in Closers, Done(k) PROVE TypeOK'
  BY <1>6 DEF Done, TypeOK
<1>7. CASE UNCHANGED vars
  BY <1>7 DEF vars, TypeOK
<1> QED
  BY <1>1, <1>2, <1>3, <1>4, <1>5, <1>6, <1>7 DEF Next

-----------------------------------------------------------------------------
(* Owners and the index. *)

\* Storing and removing keep what the owners hold and the two maps in step.
LEMMA OwnersStep == TypeOK /\ OwnersHold /\ IndexConsistent /\ [Next]_vars => OwnersHold'
<1> SUFFICES ASSUME TypeOK, OwnersHold, IndexConsistent, [Next]_vars PROVE OwnersHold'
  OBVIOUS
<1>0. nextID \in Nat /\ \A o \in Owners : owner[o].pc \in {"idle", "drawn", "registered"}
  BY DEF TypeOK, NoOwner
<1>1. ASSUME NEW o \in Owners, NEW login \in Logins, NEW up \in Upstreams, DrawId(o, login, up)
      PROVE  OwnersHold'
  <2>1. /\ nextID' = nextID + 1 /\ conns' = conns
        /\ owner'[o].pc = "drawn" /\ owner'[o].id = nextID + 1
        /\ \A p \in Owners \ {o} : owner'[p] = owner[p]
    BY <1>1 DEF DrawId, TypeOK
  <2>2. \A p \in Owners : owner[p].pc # "idle" => owner[p].id \in 1..nextID
    BY <1>0 DEF OwnersHold
  <2>3. /\ nextID + 1 \notin 1..nextID /\ 1..nextID \subseteq 1..(nextID + 1)
        /\ nextID + 1 \in 1..(nextID + 1)
    BY <1>0
  <2>8. nextID' <= MaxIds
    BY <1>0, <1>1, RegistryAssumption DEF DrawId
  <2>4. DOMAIN conns' \subseteq 1..nextID'
    BY <2>1, <2>3 DEF OwnersHold
  <2>5. \A p \in Owners : owner'[p].pc = "drawn" =>
          owner'[p].id \in 1..nextID' /\ owner'[p].id \notin DOMAIN conns'
    BY <2>1, <2>2, <2>3 DEF OwnersHold
  <2>6. \A p \in Owners : owner'[p].pc = "registered" =>
          owner'[p].id \in DOMAIN conns' /\ conns'[owner'[p].id] = owner'[p].c
    BY <2>1 DEF OwnersHold
  <2>7. \A p, q \in Owners :
          p # q /\ owner'[p].pc # "idle" /\ owner'[q].pc # "idle" => owner'[p].id # owner'[q].id
    BY <2>1, <2>2, <2>3 DEF OwnersHold
  <2> QED
    BY <2>4, <2>5, <2>6, <2>7, <2>8 DEF OwnersHold
<1>2. ASSUME NEW o \in Owners, Store(o) PROVE OwnersHold'
  <2>1. /\ nextID' = nextID /\ conns' = With(conns, owner[o].id, owner[o].c)
        /\ owner[o].pc = "drawn" /\ owner'[o].pc = "registered"
        /\ owner'[o].id = owner[o].id /\ owner'[o].c = owner[o].c
        /\ \A p \in Owners \ {o} : owner'[p] = owner[p]
    BY <1>2, OwnerType DEF Store, TypeOK
  <2>2. /\ DOMAIN conns' = DOMAIN conns \cup {owner[o].id}
        /\ conns'[owner[o].id] = owner[o].c
        /\ \A x \in DOMAIN conns : x # owner[o].id => conns'[x] = conns[x]
    BY <2>1 DEF With
  <2>3. \A p \in Owners \ {o} : owner[p].pc # "idle" => owner[p].id # owner[o].id
    BY <2>1 DEF OwnersHold
  <2> QED
    BY <2>1, <2>2, <2>3 DEF OwnersHold
<1>3. ASSUME NEW o \in Owners, Deregister(o) PROVE OwnersHold'
  <2>1. /\ nextID' = nextID /\ conns' = Without(conns, owner[o].id)
        /\ owner[o].pc = "registered" /\ owner'[o].pc = "idle"
        /\ \A p \in Owners \ {o} : owner'[p] = owner[p]
    BY <1>3 DEF Deregister, TypeOK, NoOwner
  <2>2. /\ DOMAIN conns' = DOMAIN conns \ {owner[o].id}
        /\ \A x \in DOMAIN conns : x # owner[o].id => conns'[x] = conns[x]
    BY <2>1 DEF Without
  <2>3. \A p \in Owners \ {o} : owner[p].pc # "idle" => owner[p].id # owner[o].id
    BY <2>1 DEF OwnersHold
  <2> QED
    BY <2>1, <2>2, <2>3 DEF OwnersHold
<1>4. ASSUME NEW k \in Closers, NEW s \in A!Selections, Collect(k, s) PROVE OwnersHold'
  BY <1>4 DEF Collect, OwnersHold
<1>5. ASSUME NEW k \in Closers, CallCancel(k) \/ Done(k) PROVE OwnersHold'
  BY <1>5 DEF CallCancel, Done, OwnersHold
<1>6. CASE UNCHANGED vars
  BY <1>6 DEF vars, OwnersHold
<1> QED
  BY <1>1, <1>2, <1>3, <1>4, <1>5, <1>6 DEF Next

\* A connection keeps the CancelFunc of the context it was opened under, and
\* an entry stays in the map for as long as its owner holds it.
LEMMA CancelsStep == Inv /\ [Next]_vars => CancelsHold'
<1> SUFFICES ASSUME Inv, [Next]_vars PROVE CancelsHold'
  OBVIOUS
<1> USE DEF Inv
<1>0. nextID \in Nat /\ \A o \in Owners : served[o] \in Nat /\ served[o] <= nextID
  BY DEF TypeOK, CancelsHold
<1>1. ASSUME NEW o \in Owners, NEW login \in Logins, NEW up \in Upstreams, DrawId(o, login, up)
      PROVE  CancelsHold'
  <2>1. /\ nextID' = nextID + 1 /\ conns' = conns /\ owner[o].pc = "idle"
        /\ owner'[o].pc = "drawn" /\ served'[o] = served[o] + 1
        /\ owner'[o].c.cancel = <<o, served[o] + 1>>
        /\ \A p \in Owners \ {o} : owner'[p] = owner[p] /\ served'[p] = served[p]
    BY <1>1 DEF DrawId, TypeOK
  <2>2. \A p \in Owners : served'[p] <= nextID'
    BY <1>0, <2>1
  <2>3. served'[o] >= 1 /\ owner'[o].c.cancel = <<o, served'[o]>>
    BY <1>0, <2>1
  <2>4. \A p \in Owners : owner'[p].pc # "idle" =>
          served'[p] >= 1 /\ owner'[p].c.cancel = <<p, served'[p]>>
    BY <2>1, <2>3 DEF CancelsHold
  <2>5. \A id \in DOMAIN conns' : \E p \in Owners :
          owner'[p].pc = "registered" /\ owner'[p].id = id
    BY <2>1 DEF CancelsHold
  <2> QED
    BY <2>2, <2>4, <2>5 DEF CancelsHold
<1>2. ASSUME NEW o \in Owners, Store(o) PROVE CancelsHold'
  <2>1. /\ nextID' = nextID /\ served' = served
        /\ owner[o].pc = "drawn" /\ owner'[o].pc = "registered"
        /\ owner'[o].id = owner[o].id /\ owner'[o].c = owner[o].c
        /\ \A p \in Owners \ {o} : owner'[p] = owner[p]
    BY <1>2, OwnerType DEF Store, TypeOK
  <2>2. DOMAIN conns' = DOMAIN conns \cup {owner[o].id}
    BY <1>2 DEF Store, With
  <2> QED
    BY <2>1, <2>2 DEF CancelsHold
<1>3. ASSUME NEW o \in Owners, Deregister(o) PROVE CancelsHold'
  <2>1. /\ nextID' = nextID /\ served' = served
        /\ owner[o].pc = "registered" /\ owner'[o].pc = "idle"
        /\ \A p \in Owners \ {o} : owner'[p] = owner[p]
    BY <1>3 DEF Deregister, TypeOK, NoOwner
  <2>2. DOMAIN conns' = DOMAIN conns \ {owner[o].id}
    BY <1>3 DEF Deregister, Without
  <2> QED
    BY <2>1, <2>2 DEF CancelsHold
<1>4. ASSUME NEW k \in Closers, NEW s \in A!Selections, Collect(k, s) PROVE CancelsHold'
  BY <1>4 DEF Collect, CancelsHold
<1>5. ASSUME NEW k \in Closers, CallCancel(k) \/ Done(k) PROVE CancelsHold'
  BY <1>5 DEF CallCancel, Done, CancelsHold
<1>6. CASE UNCHANGED vars
  BY <1>6 DEF vars, CancelsHold
<1> QED
  BY <1>1, <1>2, <1>3, <1>4, <1>5, <1>6 DEF Next

\* The index follows the map.
LEMMA IndexStep == TypeOK /\ OwnersHold /\ IndexConsistent /\ [Next]_vars => IndexConsistent'
<1> SUFFICES ASSUME TypeOK, OwnersHold, IndexConsistent, [Next]_vars PROVE IndexConsistent'
  OBVIOUS
<1>1. ASSUME NEW o \in Owners, NEW login \in Logins, NEW up \in Upstreams, DrawId(o, login, up)
      PROVE  IndexConsistent'
  BY <1>1 DEF DrawId, IndexConsistent
<1>2. ASSUME NEW o \in Owners, Store(o) PROVE IndexConsistent'
  <2> DEFINE id == owner[o].id
             key == Key(owner[o].c)
             set == IF key \in DOMAIN byKey THEN byKey[key] ELSE {}
  <2>1. /\ conns' = With(conns, id, owner[o].c) /\ byKey' = With(byKey, key, set \cup {id})
        /\ id \notin DOMAIN conns
    BY <1>2 DEF Store, OwnersHold
  <2>2. /\ DOMAIN conns' = DOMAIN conns \cup {id}
        /\ Key(conns'[id]) = key
        /\ \A x \in DOMAIN conns : conns'[x] = conns[x]
    BY <2>1 DEF With
  <2>3. set = {x \in DOMAIN conns : Key(conns[x]) = key}
    BY DEF IndexConsistent
  <2> HIDE DEF id, key, set
  <2>4. /\ DOMAIN byKey' = DOMAIN byKey \cup {key}
        /\ byKey'[key] = set \cup {id}
        /\ \A x \in DOMAIN byKey : x # key => byKey'[x] = byKey[x]
    BY <2>1 DEF With
  <2>5. DOMAIN byKey' = {Key(conns'[x]) : x \in DOMAIN conns'}
    BY <2>2, <2>4 DEF IndexConsistent
  <2>6. byKey'[key] = {x \in DOMAIN conns' : Key(conns'[x]) = key}
    BY <2>2, <2>3, <2>4
  <2>7. ASSUME NEW x \in DOMAIN byKey, x # key
        PROVE  byKey'[x] = {y \in DOMAIN conns' : Key(conns'[y]) = x}
    BY <2>2, <2>4, <2>7 DEF IndexConsistent
  <2> QED
    BY <2>4, <2>5, <2>6, <2>7 DEF IndexConsistent
<1>3. ASSUME NEW o \in Owners, Deregister(o) PROVE IndexConsistent'
  <2> DEFINE id == owner[o].id
             key == Key(owner[o].c)
             rest == byKey[key] \ {id}
  <2>1. /\ conns' = Without(conns, id)
        /\ byKey' = IF rest = {} THEN Without(byKey, key) ELSE With(byKey, key, rest)
        /\ id \in DOMAIN conns /\ Key(conns[id]) = key
    BY <1>3 DEF Deregister, OwnersHold
  <2> HIDE DEF id, key
  <2>2. /\ DOMAIN conns' = DOMAIN conns \ {id}
        /\ \A x \in DOMAIN conns' : conns'[x] = conns[x]
    BY <2>1 DEF Without
  <2>3. key \in DOMAIN byKey /\ rest = {x \in DOMAIN conns' : Key(conns'[x]) = key}
    BY <2>1, <2>2 DEF IndexConsistent
  <2> HIDE DEF rest
  <2>4. \A x \in DOMAIN byKey : x # key =>
          /\ byKey[x] = {y \in DOMAIN conns' : Key(conns'[y]) = x}
          /\ \E y \in DOMAIN conns' : Key(conns'[y]) = x
    BY <2>1, <2>2 DEF IndexConsistent
  <2>5. \A y \in DOMAIN conns' : Key(conns'[y]) \in DOMAIN byKey
    BY <2>2 DEF IndexConsistent
  <2>6. CASE rest = {}
    <3>1. /\ DOMAIN byKey' = DOMAIN byKey \ {key}
          /\ \A x \in DOMAIN byKey' : byKey'[x] = byKey[x]
      BY <2>1, <2>6 DEF Without
    <3>2. DOMAIN byKey' = {Key(conns'[y]) : y \in DOMAIN conns'}
      BY <2>3, <2>4, <2>5, <2>6, <3>1
    <3> QED
      BY <2>4, <3>1, <3>2 DEF IndexConsistent
  <2>7. CASE rest # {}
    <3>1. /\ DOMAIN byKey' = DOMAIN byKey
          /\ byKey'[key] = rest
          /\ \A x \in DOMAIN byKey : x # key => byKey'[x] = byKey[x]
      BY <2>1, <2>3, <2>7 DEF With
    <3>2. DOMAIN byKey' = {Key(conns'[y]) : y \in DOMAIN conns'}
      BY <2>3, <2>4, <2>5, <2>7, <3>1
    <3> QED
      BY <2>3, <2>4, <3>1, <3>2 DEF IndexConsistent
  <2> QED
    BY <2>6, <2>7
<1>4. ASSUME NEW k \in Closers, NEW s \in A!Selections, Collect(k, s) PROVE IndexConsistent'
  BY <1>4 DEF Collect, IndexConsistent
<1>5. ASSUME NEW k \in Closers, CallCancel(k) \/ Done(k) PROVE IndexConsistent'
  <2>1. conns' = conns /\ byKey' = byKey
    BY <1>5 DEF CallCancel, Done
  <2> QED
    BY <2>1 DEF IndexConsistent
<1>6. CASE UNCHANGED vars
  BY <1>6 DEF vars, IndexConsistent
<1> QED
  BY <1>1, <1>2, <1>3, <1>4, <1>5, <1>6 DEF Next

-----------------------------------------------------------------------------
\* The invariant is inductive.
THEOREM Invariance == Spec => []Inv
<1>1. Inv /\ [Next]_vars => Inv'
  BY TypeStep, OwnersStep, CancelsStep, IndexStep DEF Inv
<1> QED
  BY InitInv, <1>1, PTL DEF Spec

\* The type invariant of Registry, for every value of its constants.
THEOREM TypeCorrect == Spec => []TypeOK
<1>1. Inv => TypeOK
  BY DEF Inv
<1> QED
  BY Invariance, <1>1, PTL

\* Register and Deregister keep the two maps of the registry in agreement.
THEOREM IndexAgrees == Spec => []IndexConsistent
<1>1. Inv => IndexConsistent
  BY DEF Inv
<1> QED
  BY Invariance, <1>1, PTL

-----------------------------------------------------------------------------
(* The refinement: every step is a step of LiveConnections or changes       *)
(* nothing there.                                                           *)

\* An empty registry is an empty set of live connections.
LEMMA InitRefines == Init => A!Init
<1> SUFFICES ASSUME Init PROVE A!Init
  OBVIOUS
<1>1. Live = {} /\ Busy = {} /\ cut = {}
  BY DEF Init, Live, Busy, NoClose
<1>2. Opened = {}
  <2>1. \A f \in CancelFuncs : f[2] \in 1..MaxIds /\ f[1] \in Owners
    BY DEF CancelFuncs
  <2>2. \A f \in CancelFuncs : ~(f[2] <= served[f[1]])
    BY <2>1, RegistryAssumption DEF Init
  <2> QED
    BY <2>2 DEF Opened
<1>3. [k \in Closers |-> IF k \in Busy THEN closer[k].todo ELSE {}] = [k \in Closers |-> {}]
  BY <1>1
<1> QED
  BY <1>1, <1>2, <1>3 DEF A!Init

\* Drawing an id is not visible: the connection opens when it is stored.
LEMMA DrawRefines ==
  ASSUME Inv, NEW o \in Owners, NEW login \in Logins, NEW up \in Upstreams,
         DrawId(o, login, up)
  PROVE  UNCHANGED A!vars
<1> DEFINE f == <<o, served[o] + 1>>
<1>1. /\ conns' = conns /\ closer' = closer /\ cut' = cut
      /\ owner[o].pc = "idle" /\ owner'[o].pc = "drawn" /\ owner'[o].c.cancel = f
      /\ served'[o] = served[o] + 1
      /\ \A p \in Owners \ {o} : owner'[p] = owner[p] /\ served'[p] = served[p]
  BY DEF DrawId, Inv, TypeOK
<1>2. Live' = Live /\ Busy' = Busy
  BY <1>1 DEF Live, Busy
<1>3. Drawn' = Drawn \cup {f}
  <2>1. {p \in Owners : owner'[p].pc = "drawn"} = {p \in Owners : owner[p].pc = "drawn"} \cup {o}
    BY <1>1
  <2>2. \A p \in {q \in Owners : owner[q].pc = "drawn"} : owner'[p].c.cancel = owner[p].c.cancel
    BY <1>1
  <2> HIDE DEF f
  <2> QED
    BY <1>1, <2>1, <2>2 DEF Drawn
<1>4. Opened' = Opened
  <2>1. \A p \in Owners : served[p] \in Nat
    BY DEF Inv, TypeOK
  <2>2. ASSUME NEW g \in CancelFuncs PROVE g \in Opened' <=> g \in Opened
    <3>1. g[1] \in Owners /\ g[2] \in Nat /\ g = <<g[1], g[2]>>
      BY RegistryAssumption DEF CancelFuncs
    <3>2. CASE g[1] # o
      <4>1. g # f /\ served'[g[1]] = served[g[1]]
        BY <1>1, <3>1, <3>2
      <4> QED
        BY <1>3, <4>1 DEF Opened
    <3>3. CASE g[1] = o /\ g[2] = served[o] + 1
      <4>1. g = f /\ ~(g[2] <= served[g[1]])
        BY <2>1, <3>1, <3>3
      <4> QED
        BY <1>3, <4>1 DEF Opened
    <3>4. CASE g[1] = o /\ g[2] # served[o] + 1
      <4>1. g # f /\ (g[2] <= served'[g[1]] <=> g[2] <= served[g[1]])
        BY <1>1, <2>1, <3>1, <3>4
      <4> QED
        BY <1>3, <4>1 DEF Opened
    <3> QED
      BY <3>2, <3>3, <3>4
  <2> QED
    BY <2>2 DEF Opened
<1> QED
  BY <1>1, <1>2, <1>4 DEF A!vars

\* Storing the connection in the map is the abstract Open.
LEMMA StoreRefines ==
  ASSUME Inv, NEW o \in Owners, Store(o)
  PROVE  \E c \in A!Connection : A!Open(c)
<1> DEFINE id == owner[o].id
           c == owner[o].c
<1>1. /\ served' = served /\ closer' = closer /\ cut' = cut
      /\ owner[o].pc = "drawn" /\ owner'[o].pc = "registered"
      /\ \A p \in Owners \ {o} : owner'[p] = owner[p]
  BY DEF Store, Inv, TypeOK
<1>2. /\ DOMAIN conns' = DOMAIN conns \cup {id} /\ id \notin DOMAIN conns
      /\ conns'[id] = c
      /\ \A x \in DOMAIN conns : conns'[x] = conns[x]
  BY <1>1 DEF Store, With, Inv, OwnersHold
<1>3. c \in Conn /\ c.cancel \in CancelFuncs /\ c.cancel \in Drawn
  BY <1>1, OwnerType DEF Inv, Conn, Drawn
<1>4. c \in A!Connection
  BY <1>3 DEF A!Connection, Conn
<1>5. Live' = Live \cup {c}
  BY <1>2 DEF Live
<1>6. c.cancel = <<o, served[o]>>
  BY <1>1 DEF Inv, CancelsHold
<1>7. Drawn' = Drawn \ {c.cancel}
  <2>1. \A p \in Owners \ {o} : owner[p].pc = "drawn" => owner[p].c.cancel = <<p, served[p]>>
    BY DEF Inv, CancelsHold
  <2>2. \A p \in Owners \ {o} : owner[p].pc = "drawn" => owner[p].c.cancel # c.cancel
    BY <1>6, <2>1
  <2> QED
    BY <1>1, <2>2 DEF Drawn
<1>8. Opened' = Opened \cup {c.cancel} /\ c.cancel \notin Opened
  <2>1. c.cancel[1] = o /\ c.cancel[2] = served[o] /\ served[o] \in Nat
    BY <1>6 DEF Inv, TypeOK
  <2>2. c.cancel[2] <= served[c.cancel[1]]
    BY <2>1
  <2> HIDE DEF c
  <2> QED
    BY <1>1, <1>3, <1>7, <2>2 DEF Opened
<1>9. Busy' = Busy
  BY <1>1 DEF Busy
<1> QED
  BY <1>1, <1>4, <1>5, <1>8, <1>9 DEF A!Open

\* No two entries of the map share a CancelFunc.
LEMMA CancelsDiffer ==
  ASSUME Inv, NEW x \in DOMAIN conns, NEW y \in DOMAIN conns, conns[x].cancel = conns[y].cancel
  PROVE  x = y
<1>1. PICK p \in Owners : owner[p].pc = "registered" /\ owner[p].id = x
  BY DEF Inv, CancelsHold
<1>2. PICK q \in Owners : owner[q].pc = "registered" /\ owner[q].id = y
  BY DEF Inv, CancelsHold
<1>3. conns[x] = owner[p].c /\ conns[y] = owner[q].c
  BY <1>1, <1>2 DEF Inv, OwnersHold
<1>4. conns[x].cancel = <<p, served[p]>> /\ conns[y].cancel = <<q, served[q]>>
  BY <1>1, <1>2, <1>3 DEF Inv, CancelsHold
<1>5. \A a, b, d, e : <<a, b>> = <<d, e>> => a = d
  OBVIOUS
<1>6. p = q
  <2>1. <<p, served[p]>> = <<q, served[q]>>
    BY <1>4, Zenon
  <2> QED
    BY ONLY <1>5, <2>1, Zenon
<1> QED
  BY <1>1, <1>2, <1>6

\* Deregister is the abstract End.
LEMMA DeregisterRefines ==
  ASSUME Inv, NEW o \in Owners, Deregister(o)
  PROVE  \E c \in Live : A!End(c)
<1> DEFINE id == owner[o].id
           c == conns[id]
<1>1. /\ served' = served /\ closer' = closer /\ cut' = cut
      /\ owner[o].pc = "registered" /\ owner'[o].pc = "idle"
      /\ \A p \in Owners \ {o} : owner'[p] = owner[p]
  BY DEF Deregister, Inv, TypeOK, NoOwner
<1>2. /\ DOMAIN conns' = DOMAIN conns \ {id} /\ id \in DOMAIN conns
      /\ \A x \in DOMAIN conns' : conns'[x] = conns[x]
  BY <1>1 DEF Deregister, Without, Inv, OwnersHold
<1>3. \A x \in DOMAIN conns : x # id => conns[x] # c
  BY <1>2, CancelsDiffer
<1>4. c \in Live /\ Live' = Live \ {c}
  BY <1>2, <1>3 DEF Live
<1>5. Drawn' = Drawn /\ Busy' = Busy
  BY <1>1 DEF Drawn, Busy
<1>6. Opened' = Opened
  BY <1>1, <1>5 DEF Opened
<1> QED
  BY <1>1, <1>4, <1>5, <1>6 DEF A!End

\* Collecting under the read lock is the abstract choice of the victims.
LEMMA CollectRefines ==
  ASSUME Inv, NEW k \in Closers, NEW s \in A!Selections, Collect(k, s)
  PROVE  A!Close(k, s)
<1>1. /\ served' = served /\ conns' = conns /\ owner' = owner /\ cut' = cut
      /\ closer[k].pc = "idle" /\ closer'[k].pc = "closing"
      /\ closer'[k].todo = Collected(s)
      /\ \A q \in Closers \ {k} : closer'[q] = closer[q]
  BY DEF Collect, Inv, TypeOK
<1>2. Live' = Live /\ Opened' = Opened /\ k \notin Busy /\ Busy' = Busy \cup {k}
  BY <1>1 DEF Live, Opened, Drawn, Busy
<1>3. Collected(s) = {c.cancel : c \in {d \in Live : A!Selects(s, d)}}
  <2>1. Selected(s) = {id \in DOMAIN conns : A!Selects(s, conns[id])}
    BY SelectedIs DEF Inv
  <2> QED
    BY <2>1 DEF Collected, Live
<1>4. [q \in Closers |-> IF q \in Busy THEN closer[q].todo ELSE {}]'
        = [[q \in Closers |-> IF q \in Busy THEN closer[q].todo ELSE {}]
             EXCEPT ![k] = {c.cancel : c \in {d \in Live : A!Selects(s, d)}}]
  BY <1>1, <1>2, <1>3
<1> QED
  BY <1>1, <1>2, <1>4 DEF A!Close

\* Calling one CancelFunc after the unlock is the abstract Cancel.
LEMMA CancelRefines ==
  ASSUME Inv, NEW k \in Closers, CallCancel(k)
  PROVE  \E f \in CancelFuncs : A!Cancel(k, f)
<1>1. PICK f \in closer[k].todo :
        /\ cut' = cut \cup {f}
        /\ closer' = [closer EXCEPT ![k].todo = @ \ {f}]
  BY DEF CallCancel
<1>2. /\ served' = served /\ conns' = conns /\ owner' = owner
      /\ closer[k].pc = "closing" /\ closer'[k].pc = "closing"
      /\ closer'[k].todo = closer[k].todo \ {f}
      /\ \A q \in Closers \ {k} : closer'[q] = closer[q]
  BY <1>1 DEF CallCancel, Inv, TypeOK, NoClose
<1>3. f \in CancelFuncs
  BY <1>2 DEF Inv, TypeOK, NoClose
<1>4. Live' = Live /\ Opened' = Opened /\ k \in Busy /\ Busy' = Busy
  BY <1>2 DEF Live, Opened, Drawn, Busy
<1>5. [q \in Closers |-> IF q \in Busy THEN closer[q].todo ELSE {}]'
        = [[q \in Closers |-> IF q \in Busy THEN closer[q].todo ELSE {}] EXCEPT ![k] = @ \ {f}]
  BY <1>2, <1>4
<1> QED
  BY <1>1, <1>2, <1>3, <1>4, <1>5 DEF A!Cancel

\* The return of a close call is the abstract end of it.
LEMMA DoneRefines ==
  ASSUME Inv, NEW k \in Closers, Done(k)
  PROVE  A!Return(k)
<1>1. /\ served' = served /\ conns' = conns /\ owner' = owner /\ cut' = cut
      /\ closer[k].pc = "closing" /\ closer[k].todo = {} /\ closer'[k].pc = "idle"
      /\ \A q \in Closers \ {k} : closer'[q] = closer[q]
  BY DEF Done, Inv, TypeOK, NoClose
<1>2. Live' = Live /\ Opened' = Opened /\ k \in Busy /\ Busy' = Busy \ {k}
  BY <1>1 DEF Live, Opened, Drawn, Busy
<1>3. [q \in Closers |-> IF q \in Busy THEN closer[q].todo ELSE {}]'
        = [q \in Closers |-> IF q \in Busy THEN closer[q].todo ELSE {}]
  BY <1>1, <1>2
<1> QED
  BY <1>1, <1>2, <1>3 DEF A!Return

\* Every step of the registry is an abstract step or leaves the abstract state alone.
LEMMA StepRefines == Inv /\ [Next]_vars => [A!Next]_A!vars
<1> SUFFICES ASSUME Inv, [Next]_vars PROVE [A!Next]_A!vars
  OBVIOUS
<1>1. ASSUME NEW o \in Owners, NEW login \in Logins, NEW up \in Upstreams, DrawId(o, login, up)
      PROVE  [A!Next]_A!vars
  BY <1>1, DrawRefines
<1>2. ASSUME NEW o \in Owners, Store(o) PROVE [A!Next]_A!vars
  BY <1>2, StoreRefines DEF A!Next
<1>3. ASSUME NEW o \in Owners, Deregister(o) PROVE [A!Next]_A!vars
  BY <1>3, DeregisterRefines DEF A!Next
<1>4. ASSUME NEW k \in Closers, NEW s \in A!Selections, Collect(k, s) PROVE [A!Next]_A!vars
  BY <1>4, CollectRefines DEF A!Next
<1>5. ASSUME NEW k \in Closers, CallCancel(k) PROVE [A!Next]_A!vars
  BY <1>5, CancelRefines DEF A!Next
<1>6. ASSUME NEW k \in Closers, Done(k) PROVE [A!Next]_A!vars
  BY <1>6, DoneRefines DEF A!Next
<1>7. CASE UNCHANGED vars
  <2>1. Live' = Live /\ Opened' = Opened /\ Busy' = Busy
        /\ cut' = cut /\ closer' = closer
    BY <1>7 DEF vars, Live, Opened, Drawn, Busy
  <2> QED
    BY <2>1 DEF A!vars
<1> QED
  BY <1>1, <1>2, <1>3, <1>4, <1>5, <1>6, <1>7 DEF Next

\* The registry with its two maps, its counter and its lock keeps the promise
\* of LiveConnections: each CloseBy... call cancels exactly the connections
\* that were registered and matched when it looked.
THEOREM RegistryImplements == Spec => Implements
<1> QED
  BY InitRefines, StepRefines, Invariance, PTL DEF Spec, Implements, A!Spec
=============================================================================
