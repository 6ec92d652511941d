---------------------------- MODULE RoutingTable ----------------------------
(***************************************************************************)
(* The immutable routing snapshot of internal/routing: what a RoutingState *)
(* holds, how it is built from the database rows, how each of the three    *)
(* rebuilds derives the next snapshot from the previous one, and how       *)
(* tunnel.Acquire resolves a credential pair against it.                   *)
(*                                                                         *)
(* Data abstraction.  An upstream row is its connection tuple (host, port, *)
(* protocol, credentials), an element of Defs, and its display name.  A    *)
(* CancelGroup is the pair of the user it was allocated for and the number *)
(* of the build that allocated it; the groups of the display-name routes   *)
(* are never cancelled by any code and share the value NameGroup.          *)
(***************************************************************************)
EXTENDS Naturals

CONSTANTS
  Users,       \* usernames of local_users
  Manual,      \* ids of source='manual' upstreams
  Webshare,    \* ids of source='webshare' upstreams (all of one API key)
  Default,     \* the id of the built-in upstream
  Defs,        \* connection tuples
  Names,       \* non-empty display names
  DefaultName, \* the display name of the built-in upstream
  Passwords,   \* non-empty passwords
  NoRow, NoUser, NoId, NoName, NoPwd, NameGroup

ASSUME DistinctIds ==
  /\ Manual \cap Webshare = {}
  /\ Default \notin Manual \cup Webshare
  /\ NoId \notin Manual \cup Webshare \cup {Default}

ASSUME Sentinels ==
  /\ NoName \notin Names /\ DefaultName \in Names
  /\ NoPwd \notin Passwords

Ids == Manual \cup Webshare \cup {Default}
Row == [def : Defs, name : Names \cup {NoName}]
UserRow == [pwd : Passwords, up : Ids \cup {NoId}, broken : BOOLEAN]
Group == (Users \X Nat) \cup {NameGroup}
ResolvedUser ==
  [pwd : Passwords, upid : Ids \cup {NoId}, up : Row \cup {NoRow},
   broken : BOOLEAN, cg : Users \X Nat]
UpTable == [Ids -> Row \cup {NoRow}]
UserTable == [Users -> UserRow \cup {NoRow}]
RoutingState ==
  [users : [Users -> ResolvedUser \cup {NoUser}], ups : UpTable,
   univ : Passwords \cup {NoPwd}, ver : Nat]

ASSUME NoValueClash ==
  /\ NoRow \notin Row \cup UserRow
  /\ NoUser \notin ResolvedUser
  /\ NameGroup \notin Users \X Nat

\* The row an upstream id resolves to: none for an unmapped user.
UpOf(ups, id) == IF id = NoId THEN NoRow ELSE ups[id]

-----------------------------------------------------------------------------
(* Building a snapshot.  g numbers the build; it stamps the CancelGroups   *)
(* the build allocates.                                                    *)

\* Mutant: the guard for an id missing from the upstream read is dropped.
HydratedUser_NoGuard(u, row, ups, g) ==
  IF row = NoRow THEN NoUser
  ELSE [pwd |-> row.pwd, upid |-> row.up, up |-> UpOf(ups, row.up),
        broken |-> row.broken \/ row.up = NoId, cg |-> <<u, g>>]

\* Hydrate: every user is resolved afresh and gets a fresh CancelGroup.  A
\* row mapped to an id that the (earlier) upstream read missed is broken.
HydratedUser(u, row, ups, g) ==
  IF row = NoRow THEN NoUser
  ELSE [pwd |-> row.pwd, upid |-> row.up, up |-> UpOf(ups, row.up),
        broken |-> row.broken \/ UpOf(ups, row.up) = NoRow, cg |-> <<u, g>>]

HydratedState(ups, rows, univ, g) ==
  [users |-> [u \in Users |-> HydratedUser(u, rows[u], ups, g)],
   ups |-> ups, univ |-> univ, ver |-> g]

\* SwapUserMapping: one user replaced, everything else shared with cur.
SwappedUser(cur, u, id, g) ==
  [pwd |-> cur.users[u].pwd, upid |-> id, up |-> UpOf(cur.ups, id),
   broken |-> id = NoId, cg |-> <<u, g>>]

SwappedState(cur, u, id, g) ==
  [cur EXCEPT !.users[u] = SwappedUser(cur, u, id, g), !.ver = g]

\* RebuildAfterSync: users come from cur, upstreams from the database.
NewlyBroken(cur, ups, u) ==
  /\ cur.users[u] # NoUser
  /\ ~cur.users[u].broken
  /\ UpOf(ups, cur.users[u].upid) = NoRow

\* RebuildForUpstreamChange: the users whose CancelGroup is rotated.
MappedTo(cur, id, u) == cur.users[u] # NoUser /\ cur.users[u].upid = id

\* Mutant: a rotated user is left without a CancelGroup of its own.
RebuiltUser_NoGroup(ru, u, ups, rotate, g) ==
  IF ru = NoUser THEN NoUser
  ELSE [pwd |-> ru.pwd, upid |-> ru.upid, up |-> UpOf(ups, ru.upid),
        broken |-> UpOf(ups, ru.upid) = NoRow,
        cg |-> IF rotate THEN NameGroup ELSE ru.cg]

RebuiltUser(ru, u, ups, rotate, g) ==
  IF ru = NoUser THEN NoUser
  ELSE [pwd |-> ru.pwd, upid |-> ru.upid, up |-> UpOf(ups, ru.upid),
        broken |-> UpOf(ups, ru.upid) = NoRow,
        cg |-> IF rotate THEN <<u, g>> ELSE ru.cg]

\* victims: the users whose CancelGroup this rebuild rotates and cancels.
RebuiltState(cur, ups, victims, g) ==
  [users |-> [u \in Users |->
                RebuiltUser(cur.users[u], u, ups, u \in victims, g)],
   ups |-> ups, univ |-> cur.univ, ver |-> g]

-----------------------------------------------------------------------------
(* Reading a snapshot. *)

\* buildDisplayNameRoutes: the upstream a display name routes to, as a set
\* with at most one element; a shared or empty name routes nowhere.
DisplayNameRoute(ups, n) ==
  {i \in Ids : /\ n # NoName
               /\ ups[i] # NoRow /\ ups[i].name = n
               /\ \A j \in Ids \ {i} : ups[j] = NoRow \/ ups[j].name # n}

\* tunnel.Acquire.  The result is a set of at most one grant; the empty set
\* stands for every error (unknown user, bad password, broken mapping).
UserMatch(state, login, pwd) ==
  /\ login \in Users
  /\ state.users[login] # NoUser
  /\ state.users[login].pwd = pwd

AcquireGrant(state, login, pwd) ==
  IF UserMatch(state, login, pwd)
  THEN LET ru == state.users[login]
       IN  IF ru.broken \/ ru.up = NoRow THEN {}
           ELSE {[id |-> ru.upid, def |-> ru.up.def, cg |-> ru.cg]}
  ELSE IF state.univ # NoPwd /\ state.univ = pwd
       THEN {[id |-> i, def |-> state.ups[i].def, cg |-> NameGroup] :
               i \in DisplayNameRoute(state.ups, login)}
       ELSE {}
=============================================================================
