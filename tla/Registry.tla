------------------------------ MODULE Registry ------------------------------
(***************************************************************************)
(* internal/registry: the connection registry shared by every listener     *)
(* goroutine and every handler that tears connections down.                *)
(*                                                                         *)
(* An owner o is a listener goroutine that serves one connection after     *)
(* another, each under a context of its own: it draws an id from the       *)
(* atomic counter, stores the connection with its CancelFunc under the     *)
(* write lock, and removes it when the tunnel has ended.  A closer k is a  *)
(* handler in one of the CloseBy... methods: it collects CancelFuncs under *)
(* the read lock and calls them one by one after releasing it, while       *)
(* owners come and go.                                                     *)
(***************************************************************************)
EXTENDS Naturals, FiniteSets

CONSTANTS
  Owners, Closers, Logins, Upstreams,
  MaxIds     \* bound on the ids drawn

ASSUME RegistryAssumption == MaxIds \in Nat

VARIABLES
  nextID,    \* the atomic counter
  conns,     \* ConnectionRegistry.conns: a map from ids to connections
  byKey,     \* ConnectionRegistry.byKey: a map from keys to sets of ids
  served,    \* per owner: how many connections it has had
  owner,     \* per owner: where it is in the life of its connection
  closer,    \* per closer: the selection it serves and what it has collected
  cut        \* the CancelFuncs that were called

vars == <<nextID, conns, byKey, served, owner, closer, cut>>

\* The CancelFunc of an owner's n-th connection.
CancelFuncs == Owners \X (1..MaxIds)

\* The abstract registry this one implements: a registered connection is live
\* from Store to Deregister, and counts as opened from Store on.
Live == {conns[id] : id \in DOMAIN conns}
Drawn == {owner[o].c.cancel : o \in {p \in Owners : owner[p].pc = "drawn"}}
Opened == {f \in CancelFuncs : f[2] <= served[f[1]]} \ Drawn
Busy == {k \in Closers : closer[k].pc = "closing"}
A == INSTANCE LiveConnections WITH
       Cancels <- CancelFuncs, live <- Live, opened <- Opened, busy <- Busy,
       owed <- [k \in Closers |-> IF k \in Busy THEN closer[k].todo ELSE {}]

Conn == [login : Logins, up : Upstreams, cancel : CancelFuncs]
Keys == Logins \X Upstreams
Key(c) == <<c.login, c.up>>
NoOwner == [pc |-> "idle"]
NoClose == [pc |-> "idle"]

\* Maps that grow and shrink.
With(f, k, v) == [x \in DOMAIN f \cup {k} |-> IF x = k THEN v ELSE f[x]]
Without(f, k) == [x \in DOMAIN f \ {k} |-> f[x]]

-----------------------------------------------------------------------------
\* Mutant: the id is the number of connections, which may be in use.
DrawId_Len(o, login, up) ==
  /\ owner[o].pc = "idle" /\ nextID < MaxIds
  /\ nextID' = nextID + 1
  /\ served' = [served EXCEPT ![o] = @ + 1]
  /\ owner' = [owner EXCEPT ![o] =
       [pc |-> "drawn", id |-> Cardinality(DOMAIN conns) + 1,
        c |-> [login |-> login, up |-> up, cancel |-> <<o, served[o] + 1>>]]]
  /\ UNCHANGED <<conns, byKey, closer, cut>>

\* A connection with a context of its own, and Register before the lock:
\* nextID.Add(1).
DrawId(o, login, up) ==
  /\ owner[o].pc = "idle" /\ nextID < MaxIds
  /\ nextID' = nextID + 1
  /\ served' = [served EXCEPT ![o] = @ + 1]
  /\ owner' = [owner EXCEPT ![o] =
       [pc |-> "drawn", id |-> nextID + 1,
        c |-> [login |-> login, up |-> up, cancel |-> <<o, served[o] + 1>>]]]
  /\ UNCHANGED <<conns, byKey, closer, cut>>

\* Register, under the lock: both maps.
Store(o) ==
  LET id == owner[o].id
      key == Key(owner[o].c)
      set == IF key \in DOMAIN byKey THEN byKey[key] ELSE {}
  IN  /\ owner[o].pc = "drawn"
      /\ conns' = With(conns, id, owner[o].c)
      /\ byKey' = With(byKey, key, set \cup {id})
      /\ owner' = [owner EXCEPT ![o].pc = "registered"]
      /\ UNCHANGED <<nextID, served, closer, cut>>

\* Mutant: the key is dropped with the first of its connections that ends.
Deregister_DropsKey(o) ==
  LET id == owner[o].id
      key == Key(owner[o].c)
  IN  /\ owner[o].pc = "registered"
      /\ conns' = Without(conns, id)
      /\ byKey' = Without(byKey, key)
      /\ owner' = [owner EXCEPT ![o] = NoOwner]
      /\ UNCHANGED <<nextID, served, closer, cut>>

\* Deregister, once the tunnel has ended for whatever reason.
Deregister(o) ==
  LET id == owner[o].id
      key == Key(owner[o].c)
  IN  /\ owner[o].pc = "registered"
      /\ conns' = Without(conns, id)
      /\ byKey' = IF byKey[key] \ {id} = {} THEN Without(byKey, key)
                  ELSE With(byKey, key, byKey[key] \ {id})
      /\ owner' = [owner EXCEPT ![o] = NoOwner]
      /\ UNCHANGED <<nextID, served, closer, cut>>

-----------------------------------------------------------------------------
\* The connections each method selects: CloseByUserUpstream goes through the
\* index, the other two scan.
Selected(s) ==
  CASE s.by = "pair" -> IF <<s.login, s.up>> \in DOMAIN byKey
                        THEN byKey[<<s.login, s.up>>] \cap DOMAIN conns ELSE {}
    [] s.by = "upstream" -> {id \in DOMAIN conns : conns[id].up = s.up}
    [] s.by = "username" -> {id \in DOMAIN conns : conns[id].login = s.login}

\* What it takes out of the lock: their CancelFuncs.
Collected(s) == {conns[id].cancel : id \in Selected(s)}

Collect(k, s) ==
  /\ closer[k].pc = "idle"
  /\ closer' = [closer EXCEPT ![k] = [pc |-> "closing", sel |-> s, todo |-> Collected(s)]]
  /\ UNCHANGED <<nextID, conns, byKey, served, owner, cut>>

\* One CancelFunc; cancelling a connection that has ended by now is harmless.
CallCancel(k) ==
  /\ closer[k].pc = "closing"
  /\ \E f \in closer[k].todo :
       /\ cut' = cut \cup {f}
       /\ closer' = [closer EXCEPT ![k].todo = @ \ {f}]
  /\ UNCHANGED <<nextID, conns, byKey, served, owner>>

Done(k) ==
  /\ closer[k].pc = "closing" /\ closer[k].todo = {}
  /\ closer' = [closer EXCEPT ![k] = NoClose]
  /\ UNCHANGED <<nextID, conns, byKey, served, owner, cut>>

Init ==
  /\ nextID = 0 /\ cut = {}
  /\ conns = [id \in {} |-> NoOwner] /\ byKey = [key \in {} |-> {}]
  /\ served = [o \in Owners |-> 0] /\ owner = [o \in Owners |-> NoOwner]
  /\ closer = [k \in Closers |-> NoClose]

Next ==
  \/ \E o \in Owners :
       (\E login \in Logins, up \in Upstreams : DrawId(o, login, up)) \/ Store(o) \/ Deregister(o)
  \/ \E k \in Closers : (\E s \in A!Selections : Collect(k, s)) \/ CallCancel(k) \/ Done(k)

Spec == Init /\ [][Next]_vars

-----------------------------------------------------------------------------
(* Properties. *)

\* The type invariant.
TypeOK ==
  /\ nextID \in Nat /\ served \in [Owners -> Nat] /\ cut \subseteq CancelFuncs
  /\ DOMAIN conns \subseteq Nat /\ conns \in [DOMAIN conns -> Conn]
  /\ DOMAIN byKey \subseteq Keys /\ byKey \in [DOMAIN byKey -> SUBSET Nat]
  /\ owner \in [Owners -> {NoOwner} \cup [pc : {"drawn", "registered"}, c : Conn, id : Nat]]
  /\ closer \in [Closers -> {NoClose}
                   \cup [pc : {"closing"}, sel : A!Selections, todo : SUBSET CancelFuncs]]

\* The two maps agree however registrations and removals interleave: the
\* index holds exactly the ids of the connections with that user and
\* upstream, and keeps no empty set behind, so it does not grow for ever.
IndexConsistent ==
  /\ DOMAIN byKey = {Key(conns[id]) : id \in DOMAIN conns}
  /\ \A key \in DOMAIN byKey : byKey[key] = {id \in DOMAIN conns : Key(conns[id]) = key}

\* Every CloseBy... call cancels exactly the connections that were registered
\* and matched when it held the read lock, before it returns, whichever of
\* the two maps it went through.
Implements == A!Spec
=============================================================================
