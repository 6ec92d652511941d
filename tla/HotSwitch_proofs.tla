-------------------------- MODULE HotSwitch_proofs --------------------------
(***************************************************************************)
(* Proofs about HotSwitch, for any number of requests, connections, users  *)
(* and upstreams.                                                          *)
(*                                                                         *)
(* First: types, the consistency of the database, and that every published *)
(* snapshot is coherent.  SnapshotCoherent is not inductive: a rebuild     *)
(* publishes what its handler read in earlier steps.  The strengthening    *)
(* says of each handler, step by step, what its local variables hold       *)
(* (RequestOK), and that the database it reads from has no broken row that *)
(* is still mapped (DbConsistent).                                         *)
(*                                                                         *)
(* Then: the published table follows the database, and every tunnel that   *)
(* goes stale is reached by a handler.  Neither is inductive.  A handler   *)
(* publishes what it captured, read or persisted earlier, so the           *)
(* strengthenings say what each handler at work still holds against the    *)
(* database and which handler is due to repair a difference: Control (who  *)
(* runs, and under the mutex), Following and Fresh (the table), Edited     *)
(* (the tuples of manual proxies) and Tunnels.  These theorems name the    *)
(* schedules they need; for each hypothesis there is a configuration in    *)
(* which TLC refutes the property without it (README).                     *)
(***************************************************************************)
EXTENDS HotSwitch, TLAPS

-----------------------------------------------------------------------------
(* Snapshots: what the three constructions return. *)

BrokenUnmapped(rows) == \A u \in Users : rows[u] # NoRow /\ rows[u].broken => rows[u].up = NoId

\* The row an id resolves to, if any, is that of the table.
LEMMA UpOfFacts ==
  ASSUME NEW ups \in UpTable, NEW id \in Ids \cup {NoId}
  PROVE  /\ UpOf(ups, id) \in Row \cup {NoRow}
         /\ UpOf(ups, id) # NoRow => id \in Ids /\ ups[id] = UpOf(ups, id)
         /\ UpOf(ups, NoId) = NoRow
BY DEF UpOf, UpTable

\* Hydrate builds a routing table ...
LEMMA HydratedType ==
  ASSUME NEW ups \in UpTable, NEW rows \in UserTable, NEW univ \in Passwords \cup {NoPwd},
         NEW g \in Nat
  PROVE  HydratedState(ups, rows, univ, g) \in RoutingState
<1>1. ASSUME NEW u \in Users PROVE HydratedUser(u, rows[u], ups, g) \in ResolvedUser \cup {NoUser}
  <2>1. CASE rows[u] = NoRow
    BY <2>1 DEF HydratedUser
  <2>2. CASE rows[u] # NoRow
    <3>1. rows[u] \in UserRow
      BY <2>2 DEF UserTable
    <3>2. rows[u].pwd \in Passwords /\ rows[u].up \in Ids \cup {NoId} /\ rows[u].broken \in BOOLEAN
      BY <3>1 DEF UserRow
    <3>3. UpOf(ups, rows[u].up) \in Row \cup {NoRow}
      BY <3>2, UpOfFacts
    <3> QED
      BY <2>2, <3>2, <3>3 DEF HydratedUser, ResolvedUser
  <2> QED
    BY <2>1, <2>2
<1> QED
  BY <1>1 DEF HydratedState, RoutingState

\* ... that is coherent, provided no broken row is mapped, whatever the
\* three reads saw of each other.
LEMMA HydratedCoherent ==
  ASSUME NEW ups \in UpTable, NEW rows \in UserTable, BrokenUnmapped(rows), NEW univ, NEW g
  PROVE  Coherent(HydratedState(ups, rows, univ, g))
<1> DEFINE state == HydratedState(ups, rows, univ, g)
<1>1. state.ups = ups /\ \A u \in Users : state.users[u] = HydratedUser(u, rows[u], ups, g)
  BY DEF HydratedState
<1> HIDE DEF state
<1>2. ASSUME NEW u \in Users, state.users[u] # NoUser
      PROVE  LET ru == state.users[u]
             IN  /\ ~ru.broken => ru.upid \in Ids /\ ups[ru.upid] # NoRow /\ ru.up = ups[ru.upid]
                 /\ ru.broken => ru.up = NoRow
  <2>1. rows[u] # NoRow /\ rows[u] \in UserRow
    BY <1>1, <1>2 DEF HydratedUser, UserTable
  <2>2. rows[u].up \in Ids \cup {NoId} /\ rows[u].broken \in BOOLEAN
    BY <2>1 DEF UserRow
  <2>3. /\ state.users[u].upid = rows[u].up
        /\ state.users[u].up = UpOf(ups, rows[u].up)
        /\ state.users[u].broken = (rows[u].broken \/ UpOf(ups, rows[u].up) = NoRow)
    <3>1. state.users[u] =
            [pwd |-> rows[u].pwd, upid |-> rows[u].up, up |-> UpOf(ups, rows[u].up),
             broken |-> rows[u].broken \/ UpOf(ups, rows[u].up) = NoRow, cg |-> <<u, g>>]
      BY <1>1, <2>1, Zenon DEF HydratedUser
    <3> QED
      BY <3>1
  <2>4. rows[u].broken => UpOf(ups, rows[u].up) = NoRow
    BY <2>1, UpOfFacts DEF BrokenUnmapped
  <2>5. CASE UpOf(ups, rows[u].up) = NoRow
    BY <2>3, <2>5
  <2>6. CASE UpOf(ups, rows[u].up) # NoRow
    BY <2>2, <2>3, <2>4, <2>6, UpOfFacts
  <2> QED
    BY <2>5, <2>6
<1>3. Coherent(state)
  BY <1>1, <1>2 DEF Coherent
<1> QED
  BY <1>3 DEF state

\* SwapUserMapping: the snapshot it captured with one user replaced.
LEMMA SwappedType ==
  ASSUME NEW cur \in RoutingState, NEW u \in Users, cur.users[u] # NoUser,
         NEW id \in Ids \cup {NoId}, NEW g \in Nat
  PROVE  SwappedState(cur, u, id, g) \in RoutingState
<1>1. cur.users[u].pwd \in Passwords /\ cur.ups \in UpTable
  BY DEF RoutingState, ResolvedUser
<1>2. UpOf(cur.ups, id) \in Row \cup {NoRow}
  BY <1>1, UpOfFacts
<1>3. SwappedUser(cur, u, id, g) \in ResolvedUser
  BY <1>1, <1>2 DEF SwappedUser, ResolvedUser
<1> QED
  BY <1>3 DEF SwappedState, RoutingState

\* Replacing one user's tuple from one table keeps the snapshot whole.
LEMMA SwappedCoherent ==
  ASSUME NEW cur \in RoutingState, Coherent(cur), NEW u \in Users,
         NEW id \in Ids \cup {NoId}, id # NoId => cur.ups[id] # NoRow, NEW g
  PROVE  Coherent(SwappedState(cur, u, id, g))
<1> DEFINE state == SwappedState(cur, u, id, g)
<1>1. /\ state.ups = cur.ups
      /\ state.users[u] = SwappedUser(cur, u, id, g)
      /\ \A v \in Users \ {u} : state.users[v] = cur.users[v]
  BY DEF SwappedState, RoutingState
<1>2. /\ state.users[u].upid = id /\ state.users[u].up = UpOf(cur.ups, id)
      /\ state.users[u].broken = (id = NoId)
  BY <1>1 DEF SwappedUser
<1> HIDE DEF state
<1>3. \A v \in Users \ {u} : cur.users[v] # NoUser =>
        /\ ~cur.users[v].broken =>
             /\ cur.users[v].upid \in Ids /\ cur.ups[cur.users[v].upid] # NoRow
             /\ cur.users[v].up = cur.ups[cur.users[v].upid]
        /\ cur.users[v].broken => cur.users[v].up = NoRow
  BY DEF Coherent
<1>4. ASSUME NEW v \in Users, state.users[v] # NoUser
      PROVE  /\ ~state.users[v].broken =>
                  /\ state.users[v].upid \in Ids /\ state.ups[state.users[v].upid] # NoRow
                  /\ state.users[v].up = state.ups[state.users[v].upid]
             /\ state.users[v].broken => state.users[v].up = NoRow
  <2>1. CASE v = u
    BY <1>1, <1>2, <2>1 DEF UpOf
  <2>2. CASE v # u
    BY <1>1, <1>3, <1>4, <2>2
  <2> QED
    BY <2>1, <2>2
<1>5. Coherent(state)
  BY <1>4 DEF Coherent
<1> QED
  BY <1>5 DEF state

\* The two rebuilds: users of the captured snapshot over the upstreams read.
LEMMA RebuiltType ==
  ASSUME NEW cur \in RoutingState, NEW ups \in UpTable, NEW victims \in SUBSET Users,
         NEW g \in Nat
  PROVE  RebuiltState(cur, ups, victims, g) \in RoutingState
<1>1. ASSUME NEW u \in Users
      PROVE  RebuiltUser(cur.users[u], u, ups, u \in victims, g) \in ResolvedUser \cup {NoUser}
  <2> DEFINE ru == cur.users[u]
  <2>1. CASE ru = NoUser
    BY <2>1 DEF RebuiltUser
  <2>2. CASE ru # NoUser
    <3>1. ru.pwd \in Passwords /\ ru.upid \in Ids \cup {NoId} /\ ru.cg \in Users \X Nat
      BY <2>2 DEF RoutingState, ResolvedUser
    <3>2. UpOf(ups, ru.upid) \in Row \cup {NoRow}
      BY <3>1, UpOfFacts
    <3> HIDE DEF ru
    <3>3. RebuiltUser(ru, u, ups, u \in victims, g) \in ResolvedUser
      BY <2>2, <3>1, <3>2 DEF RebuiltUser, ResolvedUser
    <3> QED
      BY <3>3 DEF ru
  <2> QED
    BY <2>1, <2>2
<1>2. cur.univ \in Passwords \cup {NoPwd}
  BY DEF RoutingState
<1> QED
  BY <1>1, <1>2 DEF RebuiltState, RoutingState

\* A rebuilt snapshot resolves every user against the upstreams it publishes.
LEMMA RebuiltCoherent ==
  ASSUME NEW cur \in RoutingState, NEW ups \in UpTable, NEW victims, NEW g
  PROVE  Coherent(RebuiltState(cur, ups, victims, g))
<1> DEFINE state == RebuiltState(cur, ups, victims, g)
<1>1. /\ state.ups = ups
      /\ \A u \in Users : state.users[u] = RebuiltUser(cur.users[u], u, ups, u \in victims, g)
  BY DEF RebuiltState
<1> HIDE DEF state
<1>2. ASSUME NEW u \in Users, state.users[u] # NoUser
      PROVE  LET ru == state.users[u]
             IN  /\ ~ru.broken => ru.upid \in Ids /\ ups[ru.upid] # NoRow /\ ru.up = ups[ru.upid]
                 /\ ru.broken => ru.up = NoRow
  <2>1. cur.users[u] # NoUser
    BY <1>1, <1>2 DEF RebuiltUser
  <2>2. cur.users[u].upid \in Ids \cup {NoId}
    BY <2>1 DEF RoutingState, ResolvedUser
  <2>3. /\ state.users[u].upid = cur.users[u].upid
        /\ state.users[u].up = UpOf(ups, cur.users[u].upid)
        /\ state.users[u].broken = (UpOf(ups, cur.users[u].upid) = NoRow)
    <3> DEFINE ru == cur.users[u]
    <3>1. state.users[u] =
            [pwd |-> ru.pwd, upid |-> ru.upid, up |-> UpOf(ups, ru.upid),
             broken |-> UpOf(ups, ru.upid) = NoRow,
             cg |-> IF u \in victims THEN <<u, g>> ELSE ru.cg]
      BY <1>1, <2>1, Zenon DEF RebuiltUser
    <3> QED
      BY <3>1
  <2> QED
    BY <2>2, <2>3, UpOfFacts
<1>3. Coherent(state)
  BY <1>1, <1>2 DEF Coherent
<1> QED
  BY <1>3 DEF state

-----------------------------------------------------------------------------
(* The inductive invariant, one part for each group of variables. *)

DbTypes ==
  /\ dbUp \in UpTable /\ dbUser \in UserTable
  /\ dbUniv \in Passwords \cup {NoPwd} /\ dbKey \in BOOLEAN /\ usedIds \subseteq Ids
MemTypes == mem \in RoutingState /\ gen \in Nat /\ cancelled \subseteq Users \X Nat

PlainPcs == Final \cup {"check", "write", "closeUser", "closeUpstream", "hydrateUps", "lock"}

\* What a request at each step has been asked and has read.
RequestOK(q) ==
  /\ q \in RequestState
  /\ q.pc = "check" => ~IsRemap(q.op)
  /\ q.pc = "write" /\ IsRemap(q.op) => q.op.pwd # Absent
  /\ q.pc \in {"lock", "persist", "swap"} /\ IsRemap(q.op) => q.op.map # Absent
  /\ q.pc = "persist" => IsRemap(q.op) /\ q.local \in Local
  /\ q.pc = "list" => ~IsRemap(q.op)
  /\ q.pc \in {"hydrateUsers", "hydrateUniv", "hydrateSwap"} => q.local.ups \in UpTable
  /\ q.pc \in {"hydrateUniv", "hydrateSwap"} =>
       q.local.users \in UserTable /\ BrokenUnmapped(q.local.users)
  /\ q.pc = "hydrateSwap" => q.local.univ \in Passwords \cup {NoPwd}
  /\ q.pc \in {"persist", "list", "swap", "cancel"} => q.local.cur \in RoutingState
  /\ q.pc \in {"persist", "list", "swap"} => Coherent(q.local.cur)
  /\ q.pc \in {"persist", "swap"} /\ IsRemap(q.op) =>
       /\ q.local.cur.users[q.op.user] # NoUser
       /\ q.op.map # NoId => q.local.cur.ups[q.op.map] # NoRow
  /\ q.pc = "swap" /\ ~IsRemap(q.op) => q.local.ups \in UpTable
  /\ q.pc = "cancel" =>
       q.local.victims \subseteq Users
       /\ (~IsRemap(q.op) => \A u \in q.local.victims : q.local.cur.users[u] # NoUser)

DbPart == DbTypes /\ DbConsistent
MemPart == MemTypes /\ SnapshotCoherent
ReqPart ==
  /\ mu \in Reqs \cup {NoMutex}
  /\ req \in [Reqs -> RequestState]
  /\ \A r \in Reqs : RequestOK(req[r])
ConnPart == conn \in [Conns -> Connection]
BoundPart == aborts \in Nat /\ crashes \in Nat

Inv == DbPart /\ MemPart /\ ReqPart /\ ConnPart /\ BoundPart

\* A step that leaves every variable alone keeps the invariant (stuttering).
LEMMA Unchanged ==
  /\ DbPart /\ UNCHANGED dbVars => DbPart'
  /\ MemPart /\ UNCHANGED memVars => MemPart'
  /\ ReqPart /\ UNCHANGED <<mu, req>> => ReqPart'
  /\ ConnPart /\ UNCHANGED conn => ConnPart'
  /\ BoundPart /\ UNCHANGED bounds => BoundPart'
<1>1. DbPart /\ UNCHANGED dbVars => DbPart'
  BY DEF DbPart, dbVars, DbTypes, DbConsistent
<1>2. MemPart /\ UNCHANGED memVars => MemPart'
  BY DEF MemPart, memVars, MemTypes, SnapshotCoherent
<1>3. ReqPart /\ UNCHANGED <<mu, req>> => ReqPart'
  BY DEF ReqPart
<1>4. ConnPart /\ UNCHANGED conn => ConnPart'
  BY DEF ConnPart
<1>5. BoundPart /\ UNCHANGED bounds => BoundPart'
  BY DEF BoundPart, bounds
<1> QED
  BY <1>1, <1>2, <1>3, <1>4, <1>5

-----------------------------------------------------------------------------
(* Requests. *)

\* The fields of a request body, by kind.
LEMMA OpFields ==
  ASSUME NEW op \in Ops
  PROVE  /\ op.kind \in {"addUser", "patchUser", "deleteUser"} => op.user \in Users
         /\ op.kind = "addUser" => op.pwd \in Passwords
         /\ op.kind = "putUniversal" => op.pwd \in Passwords \cup {NoPwd}
         /\ op.kind = "patchUser" => /\ op.pwd \in Passwords \cup {Absent}
                                     /\ op.map \in Ids \cup {NoId, Absent}
         /\ op.kind \in {"addManual", "patchManual"} => op.def \in Defs /\ op.name \in Names
         /\ op.kind \in {"patchManual", "deleteManual"} => op.id \in Manual
         /\ op.kind = "patchUpstream" => op.id \in Ids /\ op.name \in Names \cup {NoName}
BY DEF Ops, Operations, NoOp, Rebuild

\* The record a handler continues with is a request state.
LEMMA KeepState ==
  ASSUME NEW pc \in Pcs, NEW op \in Ops, NEW local \in Local
  PROVE  [pc |-> pc, op |-> op, local |-> local] \in RequestState
BY DEF RequestState

\* A request that keeps nothing in local variables.
LEMMA PlainOK ==
  ASSUME NEW op \in Ops, NEW pc \in PlainPcs,
         pc = "check" => ~IsRemap(op),
         pc = "write" /\ IsRemap(op) => op.pwd # Absent,
         pc = "lock" /\ IsRemap(op) => op.map # Absent
  PROVE  RequestOK(Request(pc, op))
<1> DEFINE q == Request(pc, op)
<1>1. q.pc = pc /\ q.op \in {op, NoOp} /\ (pc \notin Final => q.op = op)
  BY DEF Request
<1>2. q \in RequestState
  <2>1. pc \in Pcs /\ NoOp \in Ops
    BY DEF PlainPcs, Pcs, Ops
  <2> QED
    BY <2>1 DEF Request, RequestState
<1> HIDE DEF q
<1>3. RequestOK(q)
  BY <1>1, <1>2 DEF RequestOK, PlainPcs, Final
<1> QED
  BY <1>3 DEF q

\* One request moves.
LEMMA RequestMoves ==
  ASSUME ReqPart, NEW r \in Reqs, NEW q, RequestOK(q),
         req' = [req EXCEPT ![r] = q], mu' \in Reqs \cup {NoMutex}
  PROVE  ReqPart'
<1>1. q \in RequestState
  BY DEF RequestOK
<1>2. req' \in [Reqs -> RequestState] /\ req'[r] = q /\ \A p \in Reqs \ {r} : req'[p] = req[p]
  BY <1>1 DEF ReqPart
<1> QED
  BY <1>2 DEF ReqPart

\* A request has an operation, whatever its step.
LEMMA RequestFacts ==
  ASSUME ReqPart, NEW r \in Reqs
  PROVE  /\ RequestOK(req[r]) /\ req[r].op \in Ops
         /\ req[r].pc \in Pcs /\ mu \in Reqs \cup {NoMutex}
BY DEF ReqPart, RequestState

\* Goto leads to a step without local variables.
LEMMA GotoPlain ==
  ASSUME ReqPart, NEW r \in Reqs, NEW pc \in PlainPcs, Goto(r, pc),
         mu' \in Reqs \cup {NoMutex},
         pc = "check" => ~IsRemap(req[r].op),
         pc = "write" /\ IsRemap(req[r].op) => req[r].op.pwd # Absent,
         pc = "lock" /\ IsRemap(req[r].op) => req[r].op.map # Absent
  PROVE  ReqPart'
<1>1. req[r].op \in Ops
  BY RequestFacts
<1>2. RequestOK(Request(pc, req[r].op))
  BY <1>1, PlainOK
<1> QED
  BY <1>2, RequestMoves DEF Goto

-----------------------------------------------------------------------------
(* The database. *)

\* ON DELETE SET NULL: after the rows of gone are deleted no user points to
\* one of them.
LEMMA UnmapFacts ==
  ASSUME DbTypes, NEW gone \in SUBSET Ids, Unmap(gone)
  PROVE  /\ dbUser' \in UserTable
         /\ \A u \in Users : (dbUser'[u] = NoRow) <=> (dbUser[u] = NoRow)
         /\ \A u \in Users : dbUser[u] # NoRow =>
              /\ dbUser'[u].broken = dbUser[u].broken
              /\ dbUser'[u].up = IF dbUser[u].up \in gone THEN NoId ELSE dbUser[u].up
<1>1. ASSUME NEW u \in Users, dbUser[u] # NoRow
      PROVE  LET row == [dbUser[u] EXCEPT !.up = NoId]
             IN  row \in UserRow /\ row.broken = dbUser[u].broken /\ row.up = NoId
  BY <1>1 DEF DbTypes, UserTable, UserRow
<1>2. NoRow \notin UserRow
  BY NoValueClash
<1>3. ASSUME NEW u \in Users
      PROVE  dbUser'[u] = IF dbUser[u] # NoRow /\ dbUser[u].up \in gone
                          THEN [dbUser[u] EXCEPT !.up = NoId] ELSE dbUser[u]
  BY DEF Unmap
<1>4. dbUser' \in UserTable
  BY <1>1 DEF Unmap, UserTable, DbTypes
<1> QED
  BY <1>1, <1>2, <1>3, <1>4

\* Deleting the rows of gone while unmapping their users dangles nothing.
LEMMA DeletionConsistent ==
  ASSUME DbPart, NEW gone \in SUBSET (Ids \ {Default}), Unmap(gone), dbUp' \in UpTable,
         \A i \in Ids \ gone : dbUp[i] # NoRow => dbUp'[i] # NoRow
  PROVE  dbUser' \in UserTable /\ DbConsistent'
<1>1. Default \in Ids /\ NoId \notin Ids
  BY DistinctIds DEF Ids
<1>2. /\ dbUser' \in UserTable
      /\ \A u \in Users : (dbUser'[u] = NoRow) <=> (dbUser[u] = NoRow)
      /\ \A u \in Users : dbUser[u] # NoRow =>
           /\ dbUser'[u].broken = dbUser[u].broken
           /\ dbUser'[u].up = IF dbUser[u].up \in gone THEN NoId ELSE dbUser[u].up
  BY UnmapFacts DEF DbPart
<1>3. \A u \in Users : dbUser[u] # NoRow => dbUser[u].up \in Ids \cup {NoId}
  BY DEF DbPart, DbTypes, UserTable, UserRow
<1>4. dbUp'[Default] # NoRow
  BY <1>1 DEF DbPart, DbConsistent
<1>5. ASSUME NEW u \in Users, dbUser'[u] # NoRow
      PROVE  /\ dbUser'[u].up # NoId => dbUp'[dbUser'[u].up] # NoRow
             /\ dbUser'[u].broken => dbUser'[u].up = NoId
  <2>1. CASE dbUser[u].up \in gone
    BY <1>2, <1>5, <2>1
  <2>2. CASE dbUser[u].up \notin gone
    BY <1>2, <1>3, <1>5, <2>2 DEF DbPart, DbConsistent
  <2> QED
    BY <2>1, <2>2
<1> QED
  BY <1>2, <1>4, <1>5 DEF DbConsistent

\* Rows that appear or change dangle nothing.
LEMMA UpsertConsistent ==
  ASSUME DbPart, dbUser' = dbUser, \A i \in Ids : dbUp[i] # NoRow => dbUp'[i] # NoRow
  PROVE  DbConsistent'
<1>1. Default \in Ids
  BY DEF Ids
<1>2. \A u \in Users : dbUser[u] # NoRow => dbUser[u].up \in Ids \cup {NoId}
  BY DEF DbPart, DbTypes, UserTable, UserRow
<1> QED
  BY <1>1, <1>2 DEF DbPart, DbConsistent

\* POST /users, DELETE /users/{name} and a change of password dangle nothing.
LEMMA UserWrites == ASSUME DbPart, NEW op \in Ops, WriteUser(op),
                           IsRemap(op) => op.pwd # Absent
                    PROVE  DbPart'
<1>1. dbUp' = dbUp /\ dbUniv' = dbUniv /\ dbKey' = dbKey /\ usedIds' = usedIds
  BY DEF WriteUser
<1>2. CASE op.kind = "addUser"
  <2> DEFINE row == [pwd |-> op.pwd, up |-> NoId, broken |-> FALSE]
  <2>1. op.user \in Users /\ row \in UserRow /\ row.up = NoId /\ ~row.broken
    BY <1>2, OpFields DEF UserRow
  <2>2. dbUser' = [dbUser EXCEPT ![op.user] = row]
    BY <1>2 DEF WriteUser
  <2> HIDE DEF row
  <2>3. dbUser' \in UserTable
    BY <2>1, <2>2 DEF DbPart, DbTypes, UserTable
  <2>4. DbConsistent'
    BY <1>1, <2>1, <2>2 DEF DbPart, DbTypes, UserTable, DbConsistent
  <2> QED
    BY <1>1, <2>3, <2>4 DEF DbPart, DbTypes
<1>3. CASE op.kind = "patchUser"
  <2> DEFINE row == [dbUser[op.user] EXCEPT !.pwd = op.pwd]
  <2>1. op.user \in Users /\ op.pwd \in Passwords
    BY <1>3, OpFields DEF IsRemap
  <2>2. dbUser' = [dbUser EXCEPT ![op.user] = row] /\ dbUser[op.user] # NoRow
    BY <1>3 DEF WriteUser
  <2>3. /\ row \in UserRow /\ row.up = dbUser[op.user].up
        /\ row.broken = dbUser[op.user].broken
    BY <2>1, <2>2 DEF DbPart, DbTypes, UserTable, UserRow
  <2> HIDE DEF row
  <2>4. dbUser' \in UserTable
    BY <2>1, <2>2, <2>3 DEF DbPart, DbTypes, UserTable
  <2>5. DbConsistent'
    BY <1>1, <2>1, <2>2, <2>3 DEF DbPart, DbTypes, UserTable, DbConsistent
  <2> QED
    BY <1>1, <2>4, <2>5 DEF DbPart, DbTypes
<1>4. CASE op.kind = "deleteUser"
  <2>1. op.user \in Users /\ dbUser' = [dbUser EXCEPT ![op.user] = NoRow]
    BY <1>4, OpFields DEF WriteUser
  <2>2. dbUser' \in UserTable /\ DbConsistent'
    BY <1>1, <2>1 DEF DbPart, DbTypes, UserTable, DbConsistent
  <2> QED
    BY <1>1, <2>2 DEF DbPart, DbTypes
<1> QED
  BY <1>2, <1>3, <1>4 DEF WriteUser

\* Adding, editing and deleting a manual proxy dangles nothing.
LEMMA ManualWrites == ASSUME DbPart, NEW op \in Ops, WriteManual(op) PROVE DbPart'
<1>0. /\ NoRow \notin Row /\ Manual \subseteq Ids /\ Default \notin Manual
      /\ dbUniv' = dbUniv /\ dbKey' = dbKey
  BY NoValueClash, DistinctIds DEF Ids, WriteManual
<1>1. op.kind \in {"addManual", "patchManual"} =>
        [def |-> op.def, name |-> op.name] \in Row
  BY OpFields DEF Row
<1>2. CASE op.kind = "addManual"
  <2>1. PICK id \in Manual \ usedIds :
          /\ dbUp' = [dbUp EXCEPT ![id] = [def |-> op.def, name |-> op.name]]
          /\ usedIds' = usedIds \cup {id} /\ dbUser' = dbUser
    BY <1>2 DEF WriteManual
  <2>2. dbUp' \in UpTable
    BY <1>1, <1>2, <2>1 DEF DbPart, DbTypes, UpTable
  <2>3. \A i \in Ids : dbUp[i] # NoRow => dbUp'[i] # NoRow
    BY <1>0, <1>1, <1>2, <2>1 DEF DbPart, DbTypes, UpTable
  <2>4. DbConsistent'
    BY <2>1, <2>3, UpsertConsistent
  <2> QED
    BY <1>0, <2>1, <2>2, <2>4 DEF DbPart, DbTypes
<1>3. CASE op.kind = "patchManual"
  <2>1. /\ dbUp' = IF dbUp[op.id] = NoRow THEN dbUp
                   ELSE [dbUp EXCEPT ![op.id] = [def |-> op.def, name |-> op.name]]
        /\ dbUser' = dbUser /\ usedIds' = usedIds /\ op.id \in Ids
    BY <1>0, <1>3, OpFields DEF WriteManual
  <2>2. dbUp' \in UpTable
    BY <1>1, <1>3, <2>1 DEF DbPart, DbTypes, UpTable
  <2>3. \A i \in Ids : dbUp[i] # NoRow => dbUp'[i] # NoRow
    BY <1>0, <1>1, <1>3, <2>1 DEF DbPart, DbTypes, UpTable
  <2>4. DbConsistent'
    BY <2>1, <2>3, UpsertConsistent
  <2> QED
    BY <1>0, <2>1, <2>2, <2>4 DEF DbPart, DbTypes
<1>4. CASE op.kind = "deleteManual"
  <2>1. /\ dbUp' = [dbUp EXCEPT ![op.id] = NoRow] /\ Unmap({op.id}) /\ usedIds' = usedIds
        /\ op.id \in Ids \ {Default}
    BY <1>0, <1>4, OpFields DEF WriteManual
  <2>2. dbUp' \in UpTable /\ \A i \in Ids \ {op.id} : dbUp[i] # NoRow => dbUp'[i] # NoRow
    BY <2>1 DEF DbPart, DbTypes, UpTable
  <2>3. dbUser' \in UserTable /\ DbConsistent'
    BY <2>1, <2>2, DeletionConsistent
  <2> QED
    BY <1>0, <2>1, <2>2, <2>3 DEF DbPart, DbTypes
<1> QED
  BY <1>2, <1>3, <1>4 DEF WriteManual

\* SyncKey's transaction unmaps the users of the proxies that disappeared.
LEMMA SyncWrites == ASSUME DbPart, NEW op \in Ops, SyncTx(op) PROVE DbPart'
<1>0. NoRow \notin Row /\ Webshare \subseteq Ids \ {Default} /\ dbUniv' = dbUniv /\ dbKey' = dbKey
  BY NoValueClash, DistinctIds DEF Ids, SyncTx
<1> DEFINE known == {i \in Webshare : dbUp[i] # NoRow}
           new(listed) == listed \ known
           kept(listed) == {dbUp[i].name : i \in known \cap listed}
<1>a. PICK listed \in SUBSET Webshare :
        /\ \E remote \in [listed -> Defs], name \in [new(listed) -> Names \ kept(listed)] :
             /\ \A i, j \in new(listed) : i # j => name[i] # name[j]
             /\ dbUp' = [i \in Ids |->
                  IF i \notin Webshare THEN dbUp[i]
                  ELSE IF i \notin listed THEN NoRow
                  ELSE [def |-> remote[i],
                        name |-> IF i \in new(listed) THEN name[i] ELSE dbUp[i].name]]
        /\ Unmap(known \ listed)
        /\ usedIds' = usedIds \cup listed
  BY Zenon DEF SyncTx
<1>1. PICK remote \in [listed -> Defs], name \in [new(listed) -> Names \ kept(listed)] :
        dbUp' = [i \in Ids |->
          IF i \notin Webshare THEN dbUp[i]
          ELSE IF i \notin listed THEN NoRow
          ELSE [def |-> remote[i],
                name |-> IF i \in new(listed) THEN name[i] ELSE dbUp[i].name]]
  BY <1>a
<1>2. ASSUME NEW i \in Ids
      PROVE  /\ i \notin Webshare => dbUp'[i] = dbUp[i]
             /\ i \in Webshare \ listed => dbUp'[i] = NoRow
             /\ i \in listed => dbUp'[i] \in Row
  <2>1. i \in known => dbUp[i].name \in Names \cup {NoName}
    BY DEF DbPart, DbTypes, UpTable, Row
  <2> QED
    BY <1>0, <1>1, <2>1 DEF Row
<1>3. dbUp' \in UpTable
  <2>1. dbUp' = [i \in Ids |-> dbUp'[i]]
    BY <1>1
  <2>2. \A i \in Ids : dbUp'[i] \in Row \cup {NoRow}
    BY <1>2 DEF DbPart, DbTypes, UpTable
  <2> QED
    BY <2>1, <2>2 DEF UpTable
<1>4. \A i \in Ids \ (known \ listed) : dbUp[i] # NoRow => dbUp'[i] # NoRow
  BY <1>0, <1>2
<1>5. dbUser' \in UserTable /\ DbConsistent'
  BY <1>0, <1>a, <1>3, <1>4, DeletionConsistent
<1> QED
  BY <1>0, <1>a, <1>3, <1>5 DEF DbPart, DbTypes

\* Deleting a key unmaps the users of every one of its upstreams.
LEMMA KeyWrites == ASSUME DbPart, NEW op \in Ops, DeleteKeyTx(op) PROVE DbPart'
<1>1. /\ dbUp' = [i \in Ids |-> IF i \in Webshare THEN NoRow ELSE dbUp[i]]
      /\ Unmap(Webshare) /\ dbKey' = FALSE /\ dbUniv' = dbUniv /\ usedIds' = usedIds
  BY DEF DeleteKeyTx
<1>2. Webshare \subseteq Ids \ {Default}
  BY DistinctIds DEF Ids
<1>3. dbUp' \in UpTable /\ \A i \in Ids \ Webshare : dbUp[i] # NoRow => dbUp'[i] # NoRow
  BY <1>1 DEF DbPart, DbTypes, UpTable
<1>4. dbUser' \in UserTable /\ DbConsistent'
  BY <1>1, <1>2, <1>3, DeletionConsistent
<1> QED
  BY <1>1, <1>3, <1>4 DEF DbPart, DbTypes

\* A new display name leaves ids and mappings alone.
LEMMA RenameWrites == ASSUME DbPart, NEW op \in Ops, RenameUpstream(op) PROVE DbPart'
<1> DEFINE row == [dbUp[op.id] EXCEPT !.name = op.name]
<1>1. /\ dbUp[op.id] # NoRow /\ dbUp' = [dbUp EXCEPT ![op.id] = row]
      /\ dbUser' = dbUser /\ dbUniv' = dbUniv /\ dbKey' = dbKey /\ usedIds' = usedIds
      /\ op.id \in Ids /\ op.name \in Names \cup {NoName}
  BY OpFields DEF RenameUpstream
<1>2. row \in Row /\ row # NoRow
  BY <1>1, NoValueClash DEF DbPart, DbTypes, UpTable, Row
<1> HIDE DEF row
<1>3. dbUp' \in UpTable /\ \A i \in Ids : dbUp[i] # NoRow => dbUp'[i] # NoRow
  BY <1>1, <1>2 DEF DbPart, DbTypes, UpTable
<1>4. DbConsistent'
  BY <1>1, <1>3, UpsertConsistent
<1> QED
  BY <1>1, <1>3, <1>4 DEF DbPart, DbTypes

\* Every write keeps the database consistent.
LEMMA DbWrites == ASSUME DbPart, NEW op \in Ops, DbWrite(op), IsRemap(op) => op.pwd # Absent
                  PROVE  DbPart'
<1>1. ASSUME WriteUniversal(op) PROVE DbPart'
  BY <1>1, OpFields DEF WriteUniversal, DbPart, DbTypes, DbConsistent
<1> QED
  BY <1>1, UserWrites, ManualWrites, SyncWrites, KeyWrites, RenameWrites DEF DbWrite

-----------------------------------------------------------------------------
(* Connections. *)

\* The record of a connection, field by field.
LEMMA ConnType ==
  ASSUME ConnPart, NEW c \in Conns
  PROVE  /\ conn[c] \in Connection
         /\ [conn[c] EXCEPT !.cut = TRUE] \in Connection
BY DEF ConnPart, Connection

\* What tunnel.Acquire grants.
LEMMA GrantType ==
  ASSUME NEW state \in RoutingState, NEW login \in Users \cup Names, NEW pwd,
         NEW g \in AcquireGrant(state, login, pwd)
  PROVE  g.id \in Ids \cup {NoId} /\ g.def \in Defs /\ g.cg \in Group
<1>1. CASE UserMatch(state, login, pwd)
  <2> DEFINE ru == state.users[login]
  <2>1. ru \in ResolvedUser
    BY <1>1 DEF UserMatch, RoutingState
  <2>2. g = [id |-> ru.upid, def |-> ru.up.def, cg |-> ru.cg] /\ ru.up # NoRow
    BY <1>1 DEF AcquireGrant
  <2> QED
    BY <2>1, <2>2 DEF ResolvedUser, Row, Group
<1>2. CASE ~UserMatch(state, login, pwd)
  <2>1. PICK i \in DisplayNameRoute(state.ups, login) :
          g = [id |-> i, def |-> state.ups[i].def, cg |-> NameGroup]
    BY <1>2 DEF AcquireGrant
  <2>2. i \in Ids /\ state.ups[i] \in Row
    BY DEF DisplayNameRoute, RoutingState, UpTable
  <2> QED
    BY <2>1, <2>2 DEF Row, Group
<1> QED
  BY <1>1, <1>2

\* Every action of a connection keeps the types.
LEMMA ConnSteps ==
  ASSUME Inv, NEW c \in Conns,
         \/ \E login \in Users \cup Names, pwd \in Passwords : Acquire(c, login, pwd)
         \/ Register(c) \/ HandshakeFails(c) \/ PeerEnds(c) \/ TornDown(c)
  PROVE  Inv'
<1>0. /\ ConnPart /\ MemPart /\ mem \in RoutingState /\ mem.ver \in Nat
      /\ Ended \in Connection /\ conn[c] \in Connection
  BY ConnType DEF Inv, MemPart, MemTypes, RoutingState, Ended, NoConn, Connection, Group
<1>1. UNCHANGED <<dbVars, memVars, mu, req, bounds>>
  BY DEF Acquire, Register, HandshakeFails, PeerEnds, TornDown
<1>2. \E k \in Connection : conn' = [conn EXCEPT ![c] = k]
  <2>1. ASSUME NEW login \in Users \cup Names, NEW pwd \in Passwords, Acquire(c, login, pwd)
        PROVE  \E k \in Connection : conn' = [conn EXCEPT ![c] = k]
    <3>1. ASSUME NEW g \in AcquireGrant(mem, login, pwd)
          PROVE  [pc |-> "acquired", login |-> login, id |-> g.id, def |-> g.def,
                  cg |-> g.cg, cut |-> FALSE, ver |-> mem.ver, regVer |-> 0] \in Connection
      BY <1>0, <3>1, GrantType DEF Connection
    <3>2. CASE AcquireGrant(mem, login, pwd) = {}
      BY <1>0, <2>1, <3>2 DEF Acquire
    <3>3. CASE AcquireGrant(mem, login, pwd) # {}
      BY <2>1, <3>1, <3>3 DEF Acquire
    <3> QED
      BY <3>2, <3>3
  <2>2. ASSUME Register(c) PROVE \E k \in Connection : conn' = [conn EXCEPT ![c] = k]
    <3> DEFINE k == [conn[c] EXCEPT !.pc = "live", !.regVer = mem.ver]
    <3>1. k \in Connection
      BY <1>0 DEF Connection
    <3>2. conn' = [conn EXCEPT ![c] = k]
      BY <2>2, <1>0 DEF Register, ConnPart, Connection
    <3> QED
      BY <3>1, <3>2
  <2>3. ASSUME HandshakeFails(c) \/ PeerEnds(c) \/ TornDown(c)
        PROVE  \E k \in Connection : conn' = [conn EXCEPT ![c] = k]
    BY <1>0, <2>3 DEF HandshakeFails, PeerEnds, TornDown
  <2> QED
    BY <2>1, <2>2, <2>3
<1>3. ConnPart'
  BY <1>0, <1>2 DEF ConnPart
<1> QED
  BY <1>1, <1>3, Unchanged DEF Inv

-----------------------------------------------------------------------------
(* Handlers.  The steps that only read or answer: the request moves. *)

\* A request arrives with a body of its kind.
LEMMA ReceiveStep ==
  ASSUME Inv, NEW r \in Reqs, NEW op \in Operations, Receive(r, op) PROVE Inv'
<1>1. op \in Ops /\ ReqPart /\ mu \in Reqs \cup {NoMutex} /\ UNCHANGED <<dbVars, memVars, mu, conn, bounds>>
  BY DEF Ops, Inv, ReqPart, Receive
<1>2. /\ FirstStep(op) \in PlainPcs
      /\ FirstStep(op) = "check" => ~IsRemap(op)
      /\ FirstStep(op) = "write" /\ IsRemap(op) => op.pwd # Absent
      /\ FirstStep(op) = "lock" /\ IsRemap(op) => op.map # Absent
  BY DEF FirstStep, IsRemap, PlainPcs, Final
<1>3. ReqPart'
  BY <1>1, <1>2, PlainOK, RequestMoves DEF Receive
<1> QED
  BY <1>1, <1>3, Unchanged DEF Inv

\* The look at the database before the write changes no state but the request's.
LEMMA CheckStep == ASSUME Inv, NEW r \in Reqs, Check(r) PROVE Inv'
<1>1. ReqPart /\ RequestOK(req[r]) /\ mu \in Reqs \cup {NoMutex}
      /\ UNCHANGED <<dbVars, memVars, mu, conn, bounds>>
  BY RequestFacts DEF Inv, Check
<1>2. ~IsRemap(req[r].op)
  BY <1>1 DEF Check, At, RequestOK
<1>3. PICK pc \in {"write", "lock", "err"} : Goto(r, pc)
  BY DEF Check, OnError
<1>4. ReqPart'
  BY <1>1, <1>2, <1>3, GotoPlain DEF PlainPcs, Final
<1> QED
  BY <1>1, <1>4, Unchanged DEF Inv

\* A refused write ends the request and leaves the rest alone.
LEMMA WriteRefusedStep == ASSUME Inv, NEW r \in Reqs, WriteRefused(r) PROVE Inv'
<1>1. ReqPart /\ mu \in Reqs \cup {NoMutex} /\ UNCHANGED <<dbVars, memVars, mu, conn, bounds>>
  BY RequestFacts DEF Inv, WriteRefused
<1>2. OnError(req[r].op) = "err" \/ (OnError(req[r].op) = "lock" /\ ~IsRemap(req[r].op))
  BY DEF OnError, IsRemap
<1>3. ReqPart'
  BY <1>1, <1>2, GotoPlain DEF WriteRefused, PlainPcs, Final
<1> QED
  BY <1>1, <1>3, Unchanged DEF Inv

\* A write keeps the database consistent and leads to the next step of its kind.
LEMMA WriteStep == ASSUME Inv, NEW r \in Reqs, Write(r) PROVE Inv'
<1>1. /\ ReqPart /\ RequestOK(req[r]) /\ req[r].op \in Ops /\ mu \in Reqs \cup {NoMutex}
      /\ UNCHANGED <<memVars, mu, conn, bounds>> /\ DbWrite(req[r].op)
  BY RequestFacts DEF Inv, Write
<1>2. IsRemap(req[r].op) => req[r].op.pwd # Absent
  BY <1>1 DEF Write, At, RequestOK
<1>3. DbPart'
  BY <1>1, <1>2, DbWrites DEF Inv
<1>4. req[r].op.kind \in AllKinds
  BY <1>1 DEF DbWrite, WriteUser, WriteUniversal, WriteManual, SyncTx, DeleteKeyTx,
              RenameUpstream, AllKinds
<1>5. /\ AfterWrite(req[r].op) \in {"hydrateUps", "closeUser", "lock", "ok"}
      /\ AfterWrite(req[r].op) = "lock" => ~IsRemap(req[r].op)
  BY <1>4 DEF AfterWrite, AllKinds, RebuildKinds, IsRemap
<1>6. ReqPart'
  BY <1>1, <1>5, GotoPlain DEF Write, PlainPcs, Final
<1> QED
  BY <1>1, <1>3, <1>6, Unchanged DEF Inv

\* The two closings through the registry only cut tunnels.
LEMMA CloseStep ==
  ASSUME Inv, NEW r \in Reqs, CloseByUsername(r) \/ CloseByUpstream(r) PROVE Inv'
<1>1. ReqPart /\ mu \in Reqs \cup {NoMutex} /\ UNCHANGED <<dbVars, memVars, mu, bounds>>
  BY RequestFacts DEF Inv, CloseByUsername, CloseByUpstream
<1>2. PICK pc \in {"hydrateUps", "ok"} : Goto(r, pc)
  BY DEF CloseByUsername, CloseByUpstream
<1>3. ReqPart'
  BY <1>1, <1>2, GotoPlain DEF PlainPcs, Final
<1>4. ConnPart'
  <2>1. ConnPart
    BY DEF Inv
  <2>2. ASSUME CloseByUsername(r) PROVE ConnPart'
    BY <2>1, <2>2, ConnType DEF CloseByUsername, CutThose, ConnPart
  <2>3. ASSUME CloseByUpstream(r) PROVE ConnPart'
    BY <2>1, <2>3, ConnType DEF CloseByUpstream, CutThose, ConnPart
  <2> QED
    BY <2>2, <2>3
<1> QED
  BY <1>1, <1>3, <1>4, Unchanged DEF Inv

-----------------------------------------------------------------------------
(* Hydrate. *)

\* The three reads of Hydrate, each of a different moment.
LEMMA HydrateReads ==
  ASSUME Inv, NEW r \in Reqs, HydrateUps(r) \/ HydrateUsers(r) \/ HydrateUniv(r)
  PROVE  Inv'
<1> DEFINE op == req[r].op
           l == req[r].local
<1>1. /\ ReqPart /\ RequestOK(req[r]) /\ op \in Ops /\ mu \in Reqs \cup {NoMutex}
      /\ UNCHANGED <<dbVars, memVars, mu, conn, bounds>>
  BY RequestFacts DEF Inv, HydrateUps, HydrateUsers, HydrateUniv
<1>2. /\ dbUp \in UpTable /\ dbUser \in UserTable /\ BrokenUnmapped(dbUser)
      /\ dbUniv \in Passwords \cup {NoPwd}
  BY DEF Inv, DbPart, DbTypes, DbConsistent, BrokenUnmapped
<1>3. \E q : RequestOK(q) /\ req' = [req EXCEPT ![r] = q]
  <2>1. CASE HydrateUps(r)
    <3> DEFINE q == [pc |-> "hydrateUsers", op |-> op, local |-> [ups |-> dbUp]]
    <3>1. q \in RequestState
      BY <1>1, <1>2, KeepState DEF Local, Pcs
    <3>2. RequestOK(q)
      BY <1>2, <3>1 DEF RequestOK
    <3> QED
      BY <2>1, <3>2 DEF HydrateUps, Keep
  <2>2. CASE HydrateUsers(r)
    <3> DEFINE q == [pc |-> "hydrateUniv", op |-> op,
                     local |-> [ups |-> l.ups, users |-> dbUser]]
    <3>1. l.ups \in UpTable
      BY <1>1, <2>2 DEF RequestOK, HydrateUsers, At
    <3>2. q \in RequestState
      BY <1>1, <1>2, <3>1, KeepState DEF Local, Pcs
    <3>3. RequestOK(q)
      BY <1>2, <3>1, <3>2 DEF RequestOK
    <3> QED
      BY <2>2, <3>3 DEF HydrateUsers, Keep
  <2>3. CASE HydrateUniv(r)
    <3> DEFINE q == [pc |-> "hydrateSwap", op |-> op,
                     local |-> [ups |-> l.ups, users |-> l.users, univ |-> dbUniv]]
    <3>1. l.ups \in UpTable /\ l.users \in UserTable /\ BrokenUnmapped(l.users)
      BY <1>1, <2>3 DEF RequestOK, HydrateUniv, At
    <3>2. q \in RequestState
      BY <1>1, <1>2, <3>1, KeepState DEF Local, Pcs
    <3>3. RequestOK(q)
      BY <1>2, <3>1, <3>2 DEF RequestOK
    <3> QED
      BY <2>3, <3>3 DEF HydrateUniv, Keep
  <2> QED
    BY <2>1, <2>2, <2>3
<1>4. ReqPart'
  BY <1>1, <1>3, RequestMoves
<1> QED
  BY <1>1, <1>4, Unchanged DEF Inv

\* Hydrate publishes a coherent table whatever its reads saw.
LEMMA HydrateSwapStep == ASSUME Inv, NEW r \in Reqs, HydrateSwap(r) PROVE Inv'
<1> DEFINE l == req[r].local
<1>1. /\ ReqPart /\ RequestOK(req[r]) /\ mu \in Reqs \cup {NoMutex} /\ gen + 1 \in Nat
      /\ UNCHANGED <<dbVars, cancelled, mu, conn, bounds>>
  BY RequestFacts DEF Inv, HydrateSwap, MemPart, MemTypes
<1>2. /\ l.ups \in UpTable /\ l.users \in UserTable /\ BrokenUnmapped(l.users)
      /\ l.univ \in Passwords \cup {NoPwd}
  BY <1>1 DEF HydrateSwap, At, RequestOK
<1>3. mem' = HydratedState(l.ups, l.users, l.univ, gen + 1) /\ gen' = gen + 1
  BY DEF HydrateSwap
<1> HIDE DEF l
<1>4. mem' \in RoutingState /\ Coherent(mem')
  BY <1>1, <1>2, <1>3, HydratedType, HydratedCoherent
<1>5. MemPart'
  BY <1>1, <1>3, <1>4 DEF Inv, MemPart, MemTypes, SnapshotCoherent
<1>6. /\ AfterHydrate(req[r].op) \in {"lock", "ok"}
      /\ AfterHydrate(req[r].op) = "lock" => req[r].op.map # Absent
  BY DEF AfterHydrate
<1>7. ReqPart'
  BY <1>1, <1>6, GotoPlain DEF HydrateSwap, PlainPcs, Final
<1> QED
  BY <1>1, <1>5, <1>7, Unchanged DEF Inv

-----------------------------------------------------------------------------
(* The steps under mappingChangeMu. *)

\* SwapUserMapping takes mappingChangeMu and captures the snapshot.
LEMMA LockStep == ASSUME Inv, NEW r \in Reqs, Lock(r) PROVE Inv'
<1> DEFINE op == req[r].op
           pc == IF IsRemap(op) THEN "persist" ELSE "list"
           q == [pc |-> pc, op |-> op, local |-> [cur |-> mem]]
<1>1. /\ ReqPart /\ RequestOK(req[r]) /\ op \in Ops
      /\ UNCHANGED <<dbVars, memVars, conn, bounds>>
      /\ mu' \in Reqs \cup {NoMutex} /\ req' = [req EXCEPT ![r] = q]
  BY RequestFacts DEF Inv, Lock, Keep
<1>2. mem \in RoutingState /\ Coherent(mem)
  BY DEF Inv, MemPart, MemTypes, SnapshotCoherent
<1>3. q \in RequestState /\ q.local \in Local
  BY <1>1, <1>2, KeepState DEF Local, Pcs
<1>4. IsRemap(op) => /\ op.map # Absent
                     /\ mem.users[op.user] # NoUser
                     /\ op.map # NoId => mem.ups[op.map] # NoRow
  BY <1>1 DEF Lock, At, RequestOK, UnknownInSnapshot
<1>5. RequestOK(q)
  BY <1>2, <1>3, <1>4 DEF RequestOK
<1>6. ReqPart'
  BY <1>1, <1>5, RequestMoves
<1> QED
  BY <1>1, <1>6, Unchanged DEF Inv

\* The two ways out of SwapUserMapping before its write release the mutex.
LEMMA RefusedStep == ASSUME Inv, NEW r \in Reqs, LockRefused(r) \/ PersistRefused(r) PROVE Inv'
<1>1. /\ ReqPart /\ UNCHANGED <<dbVars, memVars, conn, bounds>>
      /\ mu' \in Reqs \cup {NoMutex} /\ Goto(r, "err")
  BY RequestFacts DEF Inv, LockRefused, PersistRefused
<1>2. ReqPart'
  BY <1>1, GotoPlain DEF PlainPcs, Final
<1> QED
  BY <1>1, <1>2, Unchanged DEF Inv

\* The mapping is written, then the new snapshot is published.
LEMMA PersistStep == ASSUME Inv, NEW r \in Reqs, Persist(r) PROVE Inv'
<1> DEFINE op == req[r].op
           l == req[r].local
           q == [pc |-> "swap", op |-> op, local |-> l]
           row == [dbUser[op.user] EXCEPT !.up = op.map, !.broken = (op.map = NoId)]
<1>1. /\ ReqPart /\ RequestOK(req[r]) /\ op \in Ops /\ req[r].pc = "persist" /\ MappingAccepted(op)
      /\ UNCHANGED <<dbUp, dbUniv, dbKey, usedIds, memVars, mu, conn, bounds>>
      /\ mu' \in Reqs \cup {NoMutex} /\ req' = [req EXCEPT ![r] = q]
      /\ dbUser' = [dbUser EXCEPT ![op.user].up = op.map, ![op.user].broken = (op.map = NoId)]
  BY RequestFacts DEF Inv, Persist, Keep, At
<1>2. op.user \in Users /\ op.map \in Ids \cup {NoId} /\ IsRemap(op)
  BY <1>1, OpFields DEF RequestOK, IsRemap
<1>3. /\ dbUser[op.user] \in UserRow /\ dbUser \in UserTable /\ DbPart
      /\ op.map # NoId => dbUp[op.map] # NoRow
  BY <1>1, <1>2 DEF Inv, DbPart, DbTypes, UserTable, MappingAccepted
<1>4. row \in UserRow /\ row.up = op.map /\ (row.broken => op.map = NoId)
  BY <1>2, <1>3 DEF UserRow
<1>5. dbUser' = [dbUser EXCEPT ![op.user] = row]
  BY <1>1, <1>2, <1>3 DEF UserTable, UserRow
<1>6. DbPart'
  <2> HIDE DEF row, op
  <2>1. dbUser' \in UserTable
    BY <1>2, <1>3, <1>4, <1>5 DEF UserTable
  <2>2. DbConsistent'
    BY <1>1, <1>2, <1>3, <1>4, <1>5 DEF DbPart, DbTypes, UserTable, DbConsistent
  <2> QED
    BY <1>1, <1>3, <2>1, <2>2 DEF DbPart, DbTypes
<1>7. RequestOK(q)
  <2>1. /\ l.cur \in RoutingState /\ Coherent(l.cur) /\ op.map # Absent
        /\ l.cur.users[op.user] # NoUser
        /\ op.map # NoId => l.cur.ups[op.map] # NoRow
    BY <1>1, <1>2 DEF RequestOK
  <2>2. q \in RequestState
    <3>1. l \in Local
      BY <1>1 DEF RequestOK
    <3> QED
      BY <1>1, <3>1, KeepState DEF Pcs
  <2> QED
    BY <1>2, <2>1, <2>2 DEF RequestOK
<1>8. ReqPart'
  BY <1>1, <1>7, RequestMoves
<1> QED
  BY <1>1, <1>6, <1>8, Unchanged DEF Inv

\* A rebuild lists the upstreams of one moment.
LEMMA ListStep == ASSUME Inv, NEW r \in Reqs, List(r) PROVE Inv'
<1> DEFINE op == req[r].op
           cur == req[r].local.cur
           q == [pc |-> "swap", op |-> op, local |-> [cur |-> cur, ups |-> dbUp]]
<1>1. /\ ReqPart /\ RequestOK(req[r]) /\ op \in Ops /\ req[r].pc = "list"
      /\ UNCHANGED <<dbVars, memVars, mu, conn, bounds>>
      /\ mu' \in Reqs \cup {NoMutex} /\ req' = [req EXCEPT ![r] = q]
  BY RequestFacts DEF Inv, List, Keep, At
<1>2. cur \in RoutingState /\ Coherent(cur) /\ ~IsRemap(op) /\ dbUp \in UpTable
  BY <1>1 DEF RequestOK, Inv, DbPart, DbTypes
<1>3. q \in RequestState
  BY <1>1, <1>2, KeepState DEF Local, Pcs
<1>4. RequestOK(q)
  BY <1>2, <1>3 DEF RequestOK
<1>5. ReqPart'
  BY <1>1, <1>4, RequestMoves
<1> QED
  BY <1>1, <1>5, Unchanged DEF Inv

\* The users a rebuild or a remap cancels were in the captured snapshot.
LEMMA VictimsFacts ==
  ASSUME NEW op \in Ops, NEW l, IsRemap(op) => op.user \in Users
  PROVE  /\ Victims(op, l) \subseteq Users
         /\ ~IsRemap(op) => \A u \in Victims(op, l) : l.cur.users[u] # NoUser
BY DEF Victims, MappedTo, NewlyBroken

\* A rebuild publishes its table and remembers whom to cancel.
LEMMA SwapStep == ASSUME Inv, NEW r \in Reqs, Swap(r) PROVE Inv'
<1> DEFINE op == req[r].op
           l == req[r].local
           victims == Victims(op, l)
           q == [pc |-> "cancel", op |-> op, local |-> [cur |-> l.cur, victims |-> victims]]
<1>1. /\ ReqPart /\ RequestOK(req[r]) /\ op \in Ops /\ req[r].pc = "swap" /\ gen + 1 \in Nat
      /\ UNCHANGED <<dbVars, cancelled, mu, conn, bounds>>
      /\ mu' \in Reqs \cup {NoMutex} /\ req' = [req EXCEPT ![r] = q] /\ gen' = gen + 1
      /\ mem' = IF IsRemap(op) THEN SwappedState(l.cur, op.user, op.map, gen + 1)
                ELSE RebuiltState(l.cur, l.ups, victims, gen + 1)
  BY RequestFacts DEF Inv, Swap, Keep, At, MemPart, MemTypes
<1>2. l.cur \in RoutingState /\ Coherent(l.cur)
  BY <1>1 DEF RequestOK
<1>3. IsRemap(op) => /\ op.user \in Users /\ op.map \in Ids \cup {NoId}
                     /\ l.cur.users[op.user] # NoUser
                     /\ op.map # NoId => l.cur.ups[op.map] # NoRow
  BY <1>1, OpFields DEF RequestOK, IsRemap
<1>4. /\ victims \in SUBSET Users
      /\ ~IsRemap(op) => \A u \in victims : l.cur.users[u] # NoUser
  BY <1>1, <1>3, VictimsFacts
<1>5. ~IsRemap(op) => l.ups \in UpTable
  BY <1>1 DEF RequestOK
<1>6. RequestOK(q)
  <2>1. q \in RequestState
    BY <1>1, <1>2, <1>4, KeepState DEF Local, Pcs
  <2> QED
    BY <1>2, <1>4, <2>1 DEF RequestOK
<1>7. ReqPart'
  BY <1>1, <1>6, RequestMoves
<1> HIDE DEF op, l, victims, q
<1>8. mem' \in RoutingState /\ Coherent(mem')
  <2>1. CASE IsRemap(op)
    BY <1>1, <1>2, <1>3, <2>1, SwappedType, SwappedCoherent
  <2>2. CASE ~IsRemap(op)
    BY <1>1, <1>2, <1>4, <1>5, <2>2, RebuiltType, RebuiltCoherent
  <2> QED
    BY <2>1, <2>2
<1>9. MemPart'
  BY <1>1, <1>8 DEF Inv, MemPart, MemTypes, SnapshotCoherent
<1> QED
  BY <1>1, <1>7, <1>9, Unchanged DEF Inv

\* The old groups are cancelled and the mutex is released.
LEMMA CancelStep == ASSUME Inv, NEW r \in Reqs, CancelOld(r) PROVE Inv'
<1> DEFINE op == req[r].op
           l == req[r].local
           next == IF op.kind = "syncKey" THEN Rebuild ELSE op
           q == Request(AfterRebuild(op), next)
<1>1. /\ ReqPart /\ RequestOK(req[r]) /\ op \in Ops /\ req[r].pc = "cancel"
      /\ UNCHANGED <<dbVars, mem, gen, bounds>> /\ mu' \in Reqs \cup {NoMutex}
      /\ req' = [req EXCEPT ![r] = q]
      /\ cancelled' = IF IsRemap(op) THEN cancelled
                      ELSE cancelled \cup {l.cur.users[u].cg : u \in l.victims}
  BY RequestFacts DEF Inv, CancelOld, At
<1>2. next \in Ops /\ AfterRebuild(op) \in {"lock", "closeUpstream", "ok"}
      /\ (AfterRebuild(op) = "lock" => ~IsRemap(next))
  BY <1>1 DEF AfterRebuild, Ops, IsRemap, Rebuild
<1>3. RequestOK(q)
  BY <1>2, PlainOK DEF PlainPcs, Final
<1>4. ReqPart'
  BY <1>1, <1>3, RequestMoves
<1>5. cancelled' \subseteq Users \X Nat
  <2>1. cancelled \subseteq Users \X Nat
    BY DEF Inv, MemPart, MemTypes
  <2>2. ASSUME ~IsRemap(op), NEW u \in l.victims PROVE l.cur.users[u].cg \in Users \X Nat
    <3>1. u \in Users /\ l.cur \in RoutingState /\ l.cur.users[u] # NoUser
      BY <1>1, <2>2 DEF RequestOK
    <3>2. l.cur.users[u] \in ResolvedUser
      BY <3>1 DEF RoutingState
    <3> QED
      BY <3>2 DEF ResolvedUser
  <2> QED
    BY <1>1, <2>1, <2>2
<1>6. MemPart'
  BY <1>1, <1>5 DEF Inv, MemPart, MemTypes, SnapshotCoherent
<1>7. ConnPart'
  BY ConnType DEF Inv, CancelOld, CutThose, ConnPart
<1> QED
  BY <1>1, <1>4, <1>6, <1>7, Unchanged DEF Inv

-----------------------------------------------------------------------------
(* A client that goes away, the daemon's restart, the first boot. *)

\* The request's context is cancelled wherever the handler may notice.
LEMMA AbortStep == ASSUME Inv, NEW r \in Reqs, Abort(r) PROVE Inv'
<1>1. /\ ReqPart /\ UNCHANGED <<dbVars, memVars, conn, crashes>> /\ aborts' = aborts + 1
      /\ mu' \in Reqs \cup {NoMutex} /\ Goto(r, "err")
  BY RequestFacts DEF Inv, Abort
<1>2. ReqPart'
  BY <1>1, GotoPlain DEF PlainPcs, Final
<1>3. BoundPart'
  BY <1>1 DEF Inv, BoundPart
<1> QED
  BY <1>1, <1>2, <1>3, Unchanged DEF Inv

\* A boot hydrates a coherent snapshot from a consistent database.
LEMMA BootSnapshot ==
  ASSUME DbPart, NEW g \in Nat
  PROVE  /\ HydratedState(dbUp, dbUser, dbUniv, g) \in RoutingState
         /\ Coherent(HydratedState(dbUp, dbUser, dbUniv, g))
<1>1. /\ dbUp \in UpTable /\ dbUser \in UserTable /\ dbUniv \in Passwords \cup {NoPwd}
      /\ BrokenUnmapped(dbUser)
  BY DEF DbPart, DbTypes, DbConsistent, BrokenUnmapped
<1> QED
  BY <1>1, HydratedType, HydratedCoherent

\* A crash and a new start: hydrated from the database, no request, no tunnel.
LEMMA RestartStep == ASSUME Inv, Restart PROVE Inv'
<1>1. /\ DbPart /\ ReqPart /\ ConnPart /\ gen + 1 \in Nat /\ crashes + 1 \in Nat
      /\ UNCHANGED <<dbVars, aborts>> /\ crashes' = crashes + 1 /\ gen' = gen + 1
      /\ mem' = HydratedState(dbUp, dbUser, dbUniv, gen + 1)
      /\ cancelled' = {} /\ mu' = NoMutex
  BY DEF Inv, Restart, MemPart, MemTypes, BoundPart
<1>2. MemPart'
  BY <1>1, BootSnapshot DEF MemPart, MemTypes, SnapshotCoherent
<1>3. ReqPart'
  <2>1. NoOp \in Ops /\ ~IsRemap(NoOp)
    BY DEF Ops, NoOp, IsRemap
  <2>2. RequestOK(Request("err", NoOp))
    BY <2>1, PlainOK DEF PlainPcs, Final
  <2>3. \A r \in Reqs : RequestOK(req'[r]) /\ req'[r] \in RequestState
    <3>1. \A r \in Reqs : RequestOK(req[r]) /\ req[r] \in RequestState
      BY <1>1 DEF ReqPart
    <3>2. \A r \in Reqs : req'[r] = req[r] \/ req'[r] = Request("err", NoOp)
      BY DEF Restart
    <3>3. Request("err", NoOp) \in RequestState
      BY <2>2 DEF RequestOK
    <3> QED
      BY <2>2, <3>1, <3>2, <3>3
  <2>4. req' = [r \in Reqs |-> req'[r]]
    BY DEF Restart
  <2> QED
    BY <1>1, <2>3, <2>4 DEF ReqPart
<1>4. ConnPart'
  <2>1. Ended \in Connection
    BY DEF Ended, NoConn, Connection, Group
  <2> QED
    BY <1>1, <2>1 DEF ConnPart, Restart
<1>5. DbPart' /\ BoundPart'
  BY <1>1, Unchanged DEF Inv, BoundPart
<1> QED
  BY <1>2, <1>3, <1>4, <1>5 DEF Inv

\* The daemon's initial states satisfy the invariant.
LEMMA InitInv == Init => Inv
<1> SUFFICES ASSUME Init PROVE Inv
  OBVIOUS
<1>1. DbPart
  BY DEF Init, InitDb, DbPart, DbTypes, DbConsistent, UpTable, UserTable
<1>2. MemPart
  BY <1>1, BootSnapshot DEF Init, Boot, MemPart, MemTypes, SnapshotCoherent
<1>3. ReqPart
  <2>1. NoOp \in Ops /\ ~IsRemap(NoOp)
    BY DEF Ops, NoOp, IsRemap
  <2>2. RequestOK(Request("idle", NoOp)) /\ Request("idle", NoOp) = Idle
    BY <2>1, PlainOK DEF PlainPcs, Final, Request, Idle
  <2> QED
    BY <2>2 DEF Init, Boot, ReqPart, RequestOK
<1>4. ConnPart
  BY DEF Init, Boot, ConnPart, NoConn, Connection, Group
<1>5. BoundPart
  BY DEF Init, Boot, BoundPart
<1> QED
  BY <1>1, <1>2, <1>3, <1>4, <1>5 DEF Inv

-----------------------------------------------------------------------------
(* The theorems. *)

\* Every step of the daemon preserves it.
LEMMA NextInv == Inv /\ [Next]_vars => Inv'
<1> SUFFICES ASSUME Inv, [Next]_vars PROVE Inv'
  OBVIOUS
<1>1. ASSUME NEW r \in Reqs, HandlerStep(r) PROVE Inv'
  BY <1>1, CheckStep, WriteStep, WriteRefusedStep, CloseStep, HydrateReads, HydrateSwapStep,
     LockStep, RefusedStep, PersistStep, ListStep, SwapStep, CancelStep DEF HandlerStep
<1>2. ASSUME NEW r \in Reqs, NEW op \in Operations, Receive(r, op) PROVE Inv'
  BY <1>2, ReceiveStep
<1>3. ASSUME NEW r \in Reqs, Abort(r) PROVE Inv'
  BY <1>3, AbortStep
<1>4. ASSUME NEW c \in Conns,
             \/ \E login \in Users \cup Names, pwd \in Passwords : Acquire(c, login, pwd)
             \/ Register(c) \/ HandshakeFails(c) \/ PeerEnds(c) \/ TornDown(c)
      PROVE  Inv'
  BY <1>4, ConnSteps
<1>5. CASE Restart
  BY <1>5, RestartStep
<1>6. CASE UNCHANGED vars
  BY <1>6, Unchanged DEF Inv, vars
<1> QED
  BY <1>1, <1>2, <1>3, <1>4, <1>5, <1>6 DEF Next

\* The strengthened invariant is inductive.
THEOREM Invariance == Spec => []Inv
<1> QED
  BY InitInv, NextInv, PTL DEF Spec

\* The type invariant: the requests keep well-formed local variables through
\* every handler, and every CancelGroup a rebuild cancels belongs to a user.
THEOREM TypeCorrect == Spec => []TypeOK
<1>1. Inv => TypeOK
  BY DEF Inv, DbPart, DbTypes, MemPart, MemTypes, ReqPart, ConnPart, BoundPart, TypeOK
<1> QED
  BY Invariance, <1>1, PTL

\* However the handlers of internal/api and the sync loop interleave, fail
\* midway or die with the daemon, no mapping dangles in the database.
THEOREM DatabaseConsistent == Spec => []DbConsistent
<1>1. Inv => DbConsistent
  BY DEF Inv, DbPart
<1> QED
  BY Invariance, <1>1, PTL

\* Every snapshot the routing core publishes is coherent: what Acquire hands
\* out for a user is the upstream, and the tuple, of one and the same table.
THEOREM PublishedCoherent == Spec => []SnapshotCoherent
<1>1. Inv => SnapshotCoherent
  BY DEF Inv, MemPart
<1> QED
  BY Invariance, <1>1, PTL
-----------------------------------------------------------------------------
(* What the handlers do one at a time. *)

HydratePcs == {"hydrateUps", "hydrateUsers", "hydrateUniv", "hydrateSwap"}
HeldPcs == {"persist", "list", "swap", "cancel"}
Rebuilds(op) == op.kind \in RebuildKinds \cup {"rebuild"}
HydratingKinds == {"patchUser", "password", "addUser", "deleteUser", "putUniversal"}

\* Handlers that hydrate run alone, or there are none.
Calm == ~HydratesOverlap \/ Kinds \cap HydratingKinds = {}

\* Which handlers reach which step.
StepKind(q) ==
  /\ q.pc \in HydratePcs \cup {"closeUser"} => Hydrates(q.op)
  /\ q.pc = "closeUser" => q.op.kind = "deleteUser"
  /\ q.pc = "persist" => IsRemap(q.op)
  /\ q.pc \in {"lock", "swap", "cancel"} => IsRemap(q.op) \/ Rebuilds(q.op)
  /\ q.pc = "list" => Rebuilds(q.op)
  /\ q.pc = "closeUpstream" => q.op.kind \in {"patchManual", "deleteManual"}

\* The snapshot captured under the mutex is still the published one.
Captured(q) == q.pc \in {"persist", "list", "swap"} => q.local.cur = mem

Mutexed == \A r \in Reqs : req[r].pc \in HeldPcs => mu = r

Alone ==
  \A r, q \in Reqs : Active(r) /\ Hydrates(req[r].op) /\ q # r => ~Active(q)

NoneHydrates == HydratesOverlap => \A r \in Reqs : Active(r) => ~Hydrates(req[r].op)

Control ==
  /\ Mutexed
  /\ \A r \in Reqs : StepKind(req[r]) /\ Captured(req[r])
  /\ Alone /\ NoneHydrates

\* Only handlers that hydrate have a body that makes them do so.
LEMMA NoHydration ==
  ASSUME Kinds \cap HydratingKinds = {}, NEW op \in Operations
  PROVE  ~Hydrates(op)
BY DEF Operations, Hydrates, HydratingKinds

\* One request moves; it is the one that holds the mutex, now or before.
LEMMA ControlMoves ==
  ASSUME Control, ReqPart, NEW r \in Reqs, NEW q, req' = [req EXCEPT ![r] = q],
         StepKind(q), q.pc \notin Final => Active(r) /\ (Hydrates(q.op) => Hydrates(req[r].op)),
         mu' = mu \/ mu = NoMutex \/ mu = r,
         q.pc \in HeldPcs => mu' = r,
         mem' = mem \/ \A p \in Reqs \ {r} : req[p].pc \notin {"persist", "list", "swap"},
         q.pc \in {"persist", "list", "swap"} => q.local.cur = mem'
  PROVE  Control'
<1>1. req'[r] = q /\ \A p \in Reqs \ {r} : req'[p] = req[p]
  BY DEF ReqPart
<1>2. Mutexed'
  <2>1. ASSUME NEW p \in Reqs \ {r}, req'[p].pc \in HeldPcs PROVE mu' = p
    <3>1. mu = p
      BY <1>1, <2>1 DEF Control, Mutexed
    <3> QED
      BY <3>1, HotSwitchAssumption DEF HotSwitchAssumption
  <2> QED
    BY <1>1, <2>1 DEF Mutexed
<1>3. \A p \in Reqs : (StepKind(req[p]) /\ Captured(req[p]))'
  <2>1. StepKind(req'[r]) /\ Captured(req[r])'
    BY <1>1 DEF Captured
  <2>2. ASSUME NEW p \in Reqs \ {r} PROVE StepKind(req'[p]) /\ Captured(req[p])'
    BY <1>1 DEF Control, Captured
  <2> QED
    BY <2>1, <2>2 DEF StepKind
<1>4. Alone' /\ NoneHydrates'
  BY <1>1 DEF Control, Alone, NoneHydrates, Active
<1> QED
  BY <1>2, <1>3, <1>4 DEF Control

\* Nothing the control depends on changes.
LEMMA ControlUnchanged == Control /\ UNCHANGED <<mem, mu, req>> => Control'
BY DEF Control, Mutexed, StepKind, Captured, Alone, NoneHydrates, Active

\* Where a handler goes on an error.
LEMMA ErrorStep ==
  ASSUME NEW op PROVE OnError(op) = "err" \/ (OnError(op) = "lock" /\ Rebuilds(op))
BY DEF OnError, Rebuilds, RebuildKinds

\* The steps that read, check, are refused or close: the published table and
\* the mutex's holder, if the handler is it, are as before.
LEMMA ControlPlain ==
  ASSUME Inv, Control, NEW r \in Reqs,
         \/ Check(r) \/ Write(r) \/ WriteRefused(r) \/ CloseByUsername(r) \/ CloseByUpstream(r)
         \/ LockRefused(r) \/ PersistRefused(r)
  PROVE  Control'
<1>1. /\ ReqPart /\ RequestOK(req[r]) /\ StepKind(req[r]) /\ mem' = mem
  BY RequestFacts DEF Inv, Control, Check, Write, WriteRefused, CloseByUsername, CloseByUpstream,
     LockRefused, PersistRefused, memVars
<1>2. Active(r) /\ (mu' = mu \/ mu = r)
  <2>1. Active(r)
    BY DEF Active, Final, At, Check, Write, WriteRefused, CloseByUsername, CloseByUpstream,
       LockRefused, PersistRefused
  <2>2. CASE PersistRefused(r)
    BY <2>1, <2>2 DEF PersistRefused, At, Control, Mutexed, HeldPcs
  <2>3. CASE ~PersistRefused(r)
    BY <2>1, <2>3 DEF Check, Write, WriteRefused, CloseByUsername, CloseByUpstream, LockRefused
  <2> QED
    BY <2>2, <2>3
<1>3. PICK pc : /\ Goto(r, pc) /\ pc \in {"write", "lock", "err", "hydrateUps", "closeUser", "ok"}
                /\ pc = "lock" => Rebuilds(req[r].op)
                /\ pc \in {"hydrateUps", "closeUser"} => Hydrates(req[r].op)
                /\ pc = "closeUser" => req[r].op.kind = "deleteUser"
  <2>1. OnError(req[r].op) = "err" \/ (OnError(req[r].op) = "lock" /\ Rebuilds(req[r].op))
    BY ErrorStep
  <2>2. CASE Check(r) \/ WriteRefused(r)
    <3>1. Goto(r, "write") \/ Goto(r, OnError(req[r].op))
      BY <2>2 DEF Check, WriteRefused
    <3> QED
      BY <2>1, <3>1
  <2>3. CASE Write(r)
    <3> DEFINE op == req[r].op
    <3>1. /\ op.kind \in AllKinds /\ Goto(r, AfterWrite(op)) /\ (IsRemap(op) => op.pwd # Absent)
      BY <1>1, <2>3 DEF Write, At, RequestOK, DbWrite, WriteUser, WriteUniversal, WriteManual,
         SyncTx, DeleteKeyTx, RenameUpstream, AllKinds
    <3> HIDE DEF op
    <3>2. /\ AfterWrite(op) \in {"lock", "hydrateUps", "closeUser", "ok"}
          /\ AfterWrite(op) = "lock" => Rebuilds(op)
          /\ AfterWrite(op) \in {"hydrateUps", "closeUser"} => Hydrates(op)
          /\ AfterWrite(op) = "closeUser" => op.kind = "deleteUser"
      BY <3>1 DEF AfterWrite, AllKinds, RebuildKinds, Rebuilds, Hydrates, IsRemap
    <3> QED
      BY <3>1, <3>2 DEF op
  <2>4. CASE CloseByUsername(r)
    BY <1>1, <2>4 DEF CloseByUsername, At, StepKind
  <2>5. CASE CloseByUpstream(r) \/ LockRefused(r) \/ PersistRefused(r)
    BY <2>5 DEF CloseByUpstream, LockRefused, PersistRefused
  <2> QED
    BY <2>2, <2>3, <2>4, <2>5
<1> DEFINE q == Request(pc, req[r].op)
<1>4. q.pc = pc /\ (pc \notin Final => q.op = req[r].op)
  BY DEF Request
<1>5. req' = [req EXCEPT ![r] = q]
  BY <1>3 DEF Goto
<1> HIDE DEF q
<1>6. StepKind(q) /\ q.pc \notin HeldPcs
  BY <1>3, <1>4 DEF StepKind, HydratePcs, HeldPcs, Final
<1>7. q.pc \notin {"persist", "list", "swap"}
  BY <1>6 DEF HeldPcs
<1>8. q.pc \notin Final => Active(r) /\ (Hydrates(q.op) => Hydrates(req[r].op))
  BY <1>2, <1>4
<1> QED
  BY <1>1, <1>2, <1>5, <1>6, <1>7, <1>8, ControlMoves

\* A request of the kinds that hydrate is received when nobody else is served.
LEMMA ControlReceive ==
  ASSUME Control, ReqPart, Calm, NEW r \in Reqs, NEW op \in Operations, Receive(r, op)
  PROVE  Control'
<1> DEFINE q == Request(FirstStep(op), op)
<1>1. /\ q.pc = FirstStep(op) /\ q.op \in {op, NoOp} /\ (q.pc \notin Final => q.op = op)
      /\ mem' = mem /\ mu' = mu /\ req[r].pc = "idle"
      /\ req'[r] = q /\ \A p \in Reqs \ {r} : req'[p] = req[p]
      /\ HydratesOverlap \/ \A p \in Reqs : Active(p) => ~Hydrates(req[p].op) /\ ~Hydrates(op)
  BY DEF Receive, Request, At, memVars, ReqPart
<1>2. q.pc \in {"check", "write", "lock", "ok"} /\ (q.pc = "lock" => IsRemap(q.op))
  BY <1>1 DEF FirstStep, IsRemap, Final
<1> HIDE DEF q
<1>3. StepKind(q) /\ q.pc \notin HeldPcs /\ q.pc \notin {"persist", "list", "swap"}
  BY <1>2 DEF StepKind, HydratePcs, HeldPcs
<1>4. Mutexed' /\ \A p \in Reqs : (StepKind(req[p]) /\ Captured(req[p]))'
  BY <1>1, <1>3 DEF Control, Mutexed, StepKind, Captured
<1>5. CASE HydratesOverlap
  <2>1. ~Hydrates(op) /\ HydratesOverlap'
    BY <1>5, NoHydration DEF Calm
  <2> QED
    BY <1>1, <1>4, <1>5, <2>1 DEF Control, Alone, NoneHydrates, Active
<1>6. CASE ~HydratesOverlap
  BY <1>1, <1>4, <1>6 DEF Control, Alone, NoneHydrates, Active
<1> QED
  BY <1>5, <1>6

\* The three reads and the publication of Hydrate: nobody else is served.
LEMMA ControlHydrate ==
  ASSUME Inv, Control, NEW r \in Reqs,
         HydrateUps(r) \/ HydrateUsers(r) \/ HydrateUniv(r) \/ HydrateSwap(r)
  PROVE  Control'
<1>1. /\ ReqPart /\ StepKind(req[r]) /\ req[r].pc \in HydratePcs /\ mu' = mu
      /\ Hydrates(req[r].op) /\ Active(r)
  BY DEF Inv, Control, HydrateUps, HydrateUsers, HydrateUniv, HydrateSwap, At, HydratePcs, StepKind,
     Active, Final
<1>2. \A p \in Reqs \ {r} : req[p].pc \in Final
  BY <1>1 DEF Control, Alone, Active
<1>3. PICK q : /\ req' = [req EXCEPT ![r] = q] /\ q.op \in {req[r].op, NoOp}
               /\ q.pc \in HydratePcs \cup {"lock", "ok"} /\ (q.pc \notin Final => q.op = req[r].op)
               /\ q.pc = "lock" => IsRemap(q.op)
  <2>1. CASE HydrateSwap(r)
    <3> DEFINE q == Request(AfterHydrate(req[r].op), req[r].op)
    <3>1. req' = [req EXCEPT ![r] = q]
      BY <2>1 DEF HydrateSwap, Goto
    <3>2. q.op \in {req[r].op, NoOp} /\ q.pc \in {"lock", "ok"}
          /\ (q.pc \notin Final => q.op = req[r].op)
          /\ (q.pc = "lock" => IsRemap(q.op))
      BY DEF AfterHydrate, Request, IsRemap, Final
    <3> HIDE DEF q
    <3> QED
      BY <3>1, <3>2
  <2>2. CASE HydrateUps(r) \/ HydrateUsers(r) \/ HydrateUniv(r)
    <3>1. PICK pc, local : pc \in HydratePcs /\ Keep(r, pc, local)
      BY <2>2 DEF HydrateUps, HydrateUsers, HydrateUniv, HydratePcs
    <3> DEFINE q == [pc |-> pc, op |-> req[r].op, local |-> local]
    <3>2. req' = [req EXCEPT ![r] = q] /\ q.op = req[r].op /\ q.pc = pc
      BY <3>1 DEF Keep
    <3> HIDE DEF q
    <3> QED
      BY <3>1, <3>2 DEF HydratePcs
  <2> QED
    BY <2>1, <2>2
<1>4. StepKind(q) /\ q.pc \notin HeldPcs /\ q.pc \notin {"persist", "list", "swap"}
  BY <1>1, <1>3 DEF StepKind, HydratePcs, HeldPcs, Final
<1>5. \A p \in Reqs \ {r} : req[p].pc \notin {"persist", "list", "swap"}
  BY <1>2 DEF Final
<1> QED
  BY <1>1, <1>3, <1>4, <1>5, ControlMoves

\* From the capture of the snapshot to the callbacks the mutex is held.
LEMMA ControlHeld ==
  ASSUME Inv, Control, NEW r \in Reqs,
         Lock(r) \/ Persist(r) \/ List(r) \/ Swap(r) \/ CancelOld(r)
  PROVE  Control'
<1>1. /\ ReqPart /\ StepKind(req[r]) /\ Captured(req[r]) /\ Active(r)
      /\ req[r].pc \in HeldPcs => mu = r
  BY DEF Inv, Control, Mutexed, Active, Final, At, Lock, Persist, List, Swap, CancelOld
<1>2. CASE Lock(r)
  <2> DEFINE q == [pc |-> IF IsRemap(req[r].op) THEN "persist" ELSE "list", op |-> req[r].op,
                   local |-> [cur |-> mem]]
  <2>1. req' = [req EXCEPT ![r] = q] /\ mu = NoMutex /\ mu' = r /\ mem' = mem /\ req[r].pc = "lock"
    BY <1>2 DEF Lock, Keep, memVars, At
  <2>2. q.op = req[r].op /\ q.local.cur = mem' /\ q.pc \in {"persist", "list"}
        /\ (q.pc = "persist") = IsRemap(q.op)
    BY <2>1 DEF IsRemap
  <2> HIDE DEF q
  <2>3. StepKind(q)
    BY <1>1, <2>1, <2>2 DEF StepKind, HydratePcs
  <2> QED
    BY <1>1, <2>1, <2>2, <2>3, ControlMoves
<1>3. CASE Persist(r) \/ List(r)
  <2>1. PICK local : Keep(r, "swap", local) /\ local.cur = req[r].local.cur
    BY <1>3 DEF Persist, List
  <2> DEFINE q == [pc |-> "swap", op |-> req[r].op, local |-> local]
  <2>2. /\ req' = [req EXCEPT ![r] = q] /\ mu' = mu /\ mem' = mem
        /\ req[r].pc \in {"persist", "list"}
    BY <1>3, <2>1 DEF Persist, List, Keep, At, memVars
  <2>3. q.pc = "swap" /\ q.op = req[r].op /\ q.local.cur = req[r].local.cur
    BY <2>1
  <2> HIDE DEF q
  <2>4. q.local.cur = mem' /\ mu' = r
    BY <1>1, <2>2, <2>3 DEF Captured, HeldPcs
  <2>5. StepKind(q)
    BY <1>1, <2>2, <2>3 DEF StepKind, HydratePcs
  <2> QED
    BY <1>1, <2>2, <2>3, <2>4, <2>5, ControlMoves
<1>4. CASE Swap(r)
  <2>1. PICK local : Keep(r, "cancel", local)
    BY <1>4 DEF Swap
  <2> DEFINE q == [pc |-> "cancel", op |-> req[r].op, local |-> local]
  <2>2. req' = [req EXCEPT ![r] = q] /\ mu' = mu /\ mu = r /\ req[r].pc = "swap"
    BY <1>1, <1>4, <2>1 DEF Swap, Keep, At, HeldPcs
  <2>3. q.pc = "cancel" /\ q.op = req[r].op
    OBVIOUS
  <2> HIDE DEF q
  <2>4. \A p \in Reqs \ {r} : req[p].pc \notin {"persist", "list", "swap"}
    BY <2>2 DEF Control, Mutexed, HeldPcs
  <2>5. StepKind(q)
    BY <1>1, <2>2, <2>3 DEF StepKind, HydratePcs
  <2> QED
    BY <1>1, <2>2, <2>3, <2>4, <2>5, ControlMoves
<1>5. CASE CancelOld(r)
  <2> DEFINE op == req[r].op
             q == Request(AfterRebuild(op), IF op.kind = "syncKey" THEN Rebuild ELSE op)
  <2>1. req' = [req EXCEPT ![r] = q] /\ mu' = NoMutex /\ mem' = mem /\ mu = r
        /\ req[r].pc = "cancel"
    BY <1>1, <1>5 DEF CancelOld, At, HeldPcs
  <2>2. /\ q.pc \in {"lock", "closeUpstream", "ok"}
        /\ q.pc = "lock" => q.op = Rebuild
        /\ q.pc = "closeUpstream" => q.op = op /\ op.kind \in {"patchManual", "deleteManual"}
    BY DEF AfterRebuild, Request, Final
  <2> HIDE DEF q
  <2>3. StepKind(q)
    BY <2>2 DEF StepKind, HydratePcs, Rebuild, Rebuilds
  <2>4. q.pc \notin HeldPcs /\ q.pc \notin {"persist", "list", "swap"}
    BY <2>2 DEF HeldPcs
  <2>5. q.pc \notin Final => (Hydrates(q.op) => Hydrates(req[r].op))
    BY <2>2 DEF Hydrates, Rebuild, Final
  <2>6. mu' = mu \/ mu = NoMutex \/ mu = r
    BY <2>1
  <2> QED
    BY <1>1, <2>1, <2>3, <2>4, <2>5, <2>6, ControlMoves
<1> QED
  BY <1>2, <1>3, <1>4, <1>5

\* A restart leaves no request and no holder of the mutex.
LEMMA ControlRestart == ASSUME Control, Restart PROVE Control'
<1>1. mu' = NoMutex /\ \A r \in Reqs : req'[r].pc \in Final
  BY DEF Restart, Active, Request, Final
<1> QED
  BY <1>1 DEF Control, Mutexed, StepKind, Captured, Alone, NoneHydrates, Active, Final, HydratePcs,
     HeldPcs

\* A request whose client left gives the mutex back.
LEMMA ControlAbort == ASSUME Inv, Control, NEW r \in Reqs, Abort(r) PROVE Control'
<1> DEFINE q == Request("err", req[r].op)
<1>1. ReqPart /\ req' = [req EXCEPT ![r] = q] /\ mem' = mem /\ q.pc = "err"
      /\ (mu' = mu \/ mu = r)
  BY DEF Inv, Abort, Goto, memVars, Request
<1> HIDE DEF q
<1>2. StepKind(q) /\ q.pc \notin HeldPcs /\ q.pc \in Final
      /\ q.pc \notin {"persist", "list", "swap"}
  BY <1>1 DEF StepKind, HydratePcs, HeldPcs, Final
<1> QED
  BY <1>1, <1>2, ControlMoves

\* Every step keeps the control.
LEMMA NextControl == ASSUME Inv, Control, Calm, [Next]_vars PROVE Control'
<1>1. ReqPart
  BY DEF Inv
<1>2. ASSUME NEW r \in Reqs, HandlerStep(r) PROVE Control'
  BY <1>2, ControlPlain, ControlHydrate, ControlHeld DEF HandlerStep
<1>3. ASSUME NEW r \in Reqs, NEW op \in Operations, Receive(r, op) PROVE Control'
  BY <1>1, <1>3, ControlReceive
<1>4. ASSUME NEW r \in Reqs, Abort(r) PROVE Control'
  BY <1>4, ControlAbort
<1>5. ASSUME NEW c \in Conns,
             \/ \E login \in Users \cup Names, pwd \in Passwords : Acquire(c, login, pwd)
             \/ Register(c) \/ HandshakeFails(c) \/ PeerEnds(c) \/ TornDown(c)
      PROVE  Control'
  BY <1>5, ControlUnchanged DEF Acquire, Register, HandshakeFails, PeerEnds, TornDown, memVars
<1>6. CASE Restart
  BY <1>6, ControlRestart
<1>7. CASE UNCHANGED vars
  BY <1>7, ControlUnchanged DEF vars, memVars
<1> QED
  BY <1>2, <1>3, <1>4, <1>5, <1>6, <1>7 DEF Next

\* The daemon starts with no request.
LEMMA InitControl == ASSUME Init PROVE Control
BY DEF Init, Boot, Idle, Control, Mutexed, StepKind, Captured, Alone, NoneHydrates, Active, Final,
   HydratePcs, HeldPcs

-----------------------------------------------------------------------------
(* The published table follows the database. *)

Serial == ~HydratesOverlap /\ ~IdsReturn /\ MaxAborts = 0

\* The upstream id a table has for a user is the database's, or that of a row
\* that has been deleted for good, which unmapped the user.
Follows(id, u) ==
  \/ id = dbUser[u].up
  \/ id # NoId /\ dbUp[id] = NoRow /\ dbUser[u].up = NoId

Remapping(q, u) == q.pc = "swap" /\ IsRemap(q.op) /\ q.op.user = u
ChangingUser(q, u) ==
  /\ q.pc \in HydratePcs \cup {"closeUser"}
  /\ q.op.kind \in {"addUser", "deleteUser", "patchUser"} /\ q.op.user = u
ChangingUniv(q) == q.pc \in HydratePcs /\ q.op.kind = "putUniversal"

\* What a handler holds against the database.
Reads(q) ==
  /\ q.pc \in HydratePcs \ {"hydrateUps"} => q.local.ups = dbUp
  /\ q.pc \in {"hydrateUniv", "hydrateSwap"} => q.local.users = dbUser
  /\ q.pc = "hydrateSwap" => q.local.univ = dbUniv
  /\ q.pc = "swap" /\ IsRemap(q.op) => dbUser[q.op.user] # NoRow /\ Follows(q.op.map, q.op.user)
  /\ q.pc = "swap" /\ Rebuilds(q.op) => \A i \in Ids : q.local.ups[i] # NoRow => i \in usedIds

\* Every id of a table has existed; a user it has as broken has no upstream in it.
Grounded(state) ==
  /\ \A i \in Ids : state.ups[i] # NoRow => i \in usedIds
  /\ \A u \in Users : state.users[u] # NoUser =>
       /\ state.users[u].upid \in usedIds \cup {NoId}
       /\ state.users[u].broken => UpOf(state.ups, state.users[u].upid) = NoRow
Tracks(state, u) ==
  state.users[u] # NoUser /\ dbUser[u] # NoRow => Follows(state.users[u].upid, u)
SameUser(state, u) ==
  /\ (state.users[u] = NoUser) <=> (dbUser[u] = NoRow)
  /\ state.users[u] # NoUser => state.users[u].pwd = dbUser[u].pwd

UsedRows == \A i \in Ids : dbUp[i] # NoRow => i \in usedIds
Requested == \A r \in Reqs : Reads(req[r])
Mapped == \A u \in Users : Tracks(mem, u) \/ \E r \in Reqs : Remapping(req[r], u)
Known == \A u \in Users : SameUser(mem, u) \/ \E r \in Reqs : ChangingUser(req[r], u)
Universal == mem.univ = dbUniv \/ \E r \in Reqs : ChangingUniv(req[r])

Following == UsedRows /\ Requested /\ Grounded(mem) /\ Mapped /\ Known /\ Universal

\* A table hydrated from the database as it is agrees with it.
LEMMA HydratedFollows ==
  ASSUME DbPart, UsedRows, NEW g \in Nat
  PROVE  LET state == HydratedState(dbUp, dbUser, dbUniv, g)
         IN  /\ Grounded(state) /\ state.univ = dbUniv
             /\ \A u \in Users : Tracks(state, u) /\ SameUser(state, u)
<1> DEFINE state == HydratedState(dbUp, dbUser, dbUniv, g)
<1>1. /\ state.ups = dbUp /\ state.univ = dbUniv
      /\ \A u \in Users : state.users[u] = HydratedUser(u, dbUser[u], dbUp, g)
  BY DEF HydratedState
<1> HIDE DEF state
<1>2. ASSUME NEW u \in Users, dbUser[u] # NoRow
      PROVE  /\ state.users[u] # NoUser
             /\ state.users[u].upid = dbUser[u].up /\ state.users[u].pwd = dbUser[u].pwd
             /\ state.users[u].upid \in usedIds \cup {NoId}
             /\ state.users[u].broken => UpOf(dbUp, dbUser[u].up) = NoRow
  <2>1. dbUser[u] \in UserRow /\ dbUp \in UpTable
    BY <1>2 DEF DbPart, DbTypes, UserTable
  <2>2. /\ dbUser[u].up \in Ids \cup {NoId} /\ dbUser[u].broken \in BOOLEAN
        /\ dbUser[u].pwd \in Passwords
    BY <2>1 DEF UserRow
  <2>3. UpOf(dbUp, dbUser[u].up) \in Row \cup {NoRow}
    BY <2>1, <2>2, UpOfFacts
  <2> DEFINE b == dbUser[u].broken \/ UpOf(dbUp, dbUser[u].up) = NoRow
  <2>4. state.users[u] = [pwd |-> dbUser[u].pwd, upid |-> dbUser[u].up,
                          up |-> UpOf(dbUp, dbUser[u].up), broken |-> b, cg |-> <<u, g>>]
    BY <1>1, <1>2, Zenon DEF HydratedUser
  <2>5. b \in BOOLEAN /\ (b => UpOf(dbUp, dbUser[u].up) = NoRow)
    BY <1>2, <2>2 DEF DbPart, DbConsistent, UpOf
  <2> HIDE DEF b
  <2>6. state.users[u] # NoUser
    <3>1. state.users[u] \in ResolvedUser
      BY <2>2, <2>3, <2>4, <2>5 DEF ResolvedUser
    <3> QED
      BY <3>1, NoValueClash
  <2>7. dbUser[u].up \in usedIds \cup {NoId}
    BY <1>2, <2>2 DEF DbPart, DbConsistent, UsedRows
  <2> QED
    BY <2>4, <2>5, <2>6, <2>7
<1>3. ASSUME NEW u \in Users, dbUser[u] = NoRow PROVE state.users[u] = NoUser
  BY <1>1, <1>3 DEF HydratedUser
<1>4. Grounded(state)
  BY <1>1, <1>2, <1>3 DEF Grounded, UsedRows
<1>5. \A u \in Users : Tracks(state, u) /\ SameUser(state, u)
  BY <1>2, <1>3 DEF Tracks, SameUser, Follows
<1> QED
  BY <1>1, <1>4, <1>5 DEF state

\* One request moves and keeps its promises; neither the database nor the
\* table changes.
LEMMA FollowingMoves ==
  ASSUME Following, ReqPart, NEW r \in Reqs, NEW q, req' = [req EXCEPT ![r] = q],
         UNCHANGED dbVars, mem' = mem, Reads(q),
         \A u \in Users : Remapping(req[r], u) => Remapping(q, u),
         \A u \in Users : ChangingUser(req[r], u) => ChangingUser(q, u),
         ChangingUniv(req[r]) => ChangingUniv(q)
  PROVE  Following'
<1>1. req'[r] = q /\ \A p \in Reqs \ {r} : req'[p] = req[p]
  BY DEF ReqPart
<1>2. dbUp' = dbUp /\ dbUser' = dbUser /\ dbUniv' = dbUniv /\ usedIds' = usedIds
  BY DEF dbVars
<1>3. Requested'
  <2>1. ASSUME NEW p \in Reqs PROVE Reads(req'[p])
    BY <1>1 DEF Following, Requested
  <2> QED
    BY <1>2, <2>1 DEF Requested, Reads, Follows
<1>4. UsedRows' /\ Grounded(mem)'
  BY <1>2 DEF Following, UsedRows, Grounded
<1>5. Mapped'
  BY <1>1, <1>2 DEF Following, Mapped, Tracks, Follows, Remapping
<1>6. Known'
  BY <1>1, <1>2 DEF Following, Known, SameUser, ChangingUser
<1>7. Universal'
  BY <1>1, <1>2 DEF Following, Universal, ChangingUniv
<1> QED
  BY <1>3, <1>4, <1>5, <1>6, <1>7 DEF Following

PassivePcs == {"idle", "ok", "err", "check", "write", "closeUpstream", "lock", "persist", "list",
               "cancel"}

\* A request that neither changes hands of a promise nor makes one.
LEMMA PassiveMoves ==
  ASSUME Following, ReqPart, NEW r \in Reqs, NEW q, req' = [req EXCEPT ![r] = q],
         UNCHANGED dbVars, mem' = mem, req[r].pc \in PassivePcs, Reads(q)
  PROVE  Following'
<1>1. req[r].pc # "swap" /\ req[r].pc \notin HydratePcs \cup {"closeUser"}
  BY DEF PassivePcs, HydratePcs
<1> QED
  BY <1>1, FollowingMoves DEF Remapping, ChangingUser, ChangingUniv

\* A request without local variables holds nothing against the database.
LEMMA ReadsNothing ==
  ASSUME NEW q, q.pc \notin HydratePcs \ {"hydrateUps"}, q.pc # "swap"
  PROVE  Reads(q)
BY DEF Reads, HydratePcs

\* Arrivals, checks, refusals, the captures under the mutex and the callbacks.
LEMMA FollowingPassive ==
  ASSUME Inv, Control, Following, NEW r \in Reqs,
         \/ \E op \in Operations : Receive(r, op)
         \/ Check(r) \/ WriteRefused(r) \/ CloseByUpstream(r) \/ Lock(r) \/ LockRefused(r)
         \/ PersistRefused(r) \/ CancelOld(r)
  PROVE  Following'
<1>1. /\ ReqPart /\ UNCHANGED dbVars /\ mem' = mem
      /\ req[r].pc \in PassivePcs
  BY DEF Inv, Receive, Check, WriteRefused, CloseByUpstream, Lock, LockRefused, PersistRefused,
     CancelOld, memVars, At, PassivePcs
<1>2. PICK q : req' = [req EXCEPT ![r] = q] /\ q.pc \in {"check", "write", "lock", "ok", "err",
                 "persist", "list", "closeUpstream"}
  <2>1. CASE \E op \in Operations : Receive(r, op)
    <3>1. PICK op \in Operations : req' = [req EXCEPT ![r] = Request(FirstStep(op), op)]
      BY <2>1 DEF Receive
    <3>2. Request(FirstStep(op), op).pc \in {"check", "write", "lock", "ok"}
      BY DEF Request, FirstStep
    <3> QED
      BY <3>1, <3>2
  <2>2. CASE Check(r) \/ WriteRefused(r) \/ CloseByUpstream(r) \/ LockRefused(r)
             \/ PersistRefused(r)
    <3>1. PICK pc \in {"write", "lock", "err", "ok"} : Goto(r, pc)
      BY <2>2 DEF Check, WriteRefused, CloseByUpstream, LockRefused, PersistRefused, OnError
    <3>2. req' = [req EXCEPT ![r] = Request(pc, req[r].op)] /\ Request(pc, req[r].op).pc = pc
      BY <3>1 DEF Goto, Request
    <3> QED
      BY <3>2
  <2>3. CASE Lock(r)
    <3>1. PICK pc, local : pc \in {"persist", "list"} /\ Keep(r, pc, local)
      BY <2>3 DEF Lock
    <3> DEFINE q == [pc |-> pc, op |-> req[r].op, local |-> local]
    <3>2. req' = [req EXCEPT ![r] = q] /\ q.pc = pc
      BY <3>1 DEF Keep
    <3> HIDE DEF q
    <3> QED
      BY <3>1, <3>2
  <2>4. CASE CancelOld(r)
    <3> DEFINE op == req[r].op
               q == Request(AfterRebuild(op), IF op.kind = "syncKey" THEN Rebuild ELSE op)
    <3>1. req' = [req EXCEPT ![r] = q] /\ q.pc \in {"lock", "closeUpstream", "ok"}
      BY <2>4 DEF CancelOld, Request, AfterRebuild
    <3> HIDE DEF q
    <3> QED
      BY <3>1
  <2> QED
    BY <2>1, <2>2, <2>3, <2>4
<1>3. Reads(q)
  BY <1>2, ReadsNothing DEF HydratePcs
<1> QED
  BY <1>1, <1>2, <1>3, PassiveMoves

\* A rebuild lists rows that have existed.
LEMMA FollowingList == ASSUME Inv, Control, Following, NEW r \in Reqs, List(r) PROVE Following'
<1> DEFINE q == [pc |-> "swap", op |-> req[r].op,
                 local |-> [cur |-> req[r].local.cur, ups |-> dbUp]]
<1>1. /\ ReqPart /\ UNCHANGED dbVars /\ mem' = mem /\ req' = [req EXCEPT ![r] = q]
      /\ req[r].pc = "list" /\ Rebuilds(req[r].op) /\ req[r].pc \in PassivePcs
  BY DEF Inv, List, Keep, memVars, At, Control, StepKind, PassivePcs
<1>2. q.pc = "swap" /\ q.op = req[r].op /\ q.local.ups = dbUp /\ ~IsRemap(q.op)
  BY <1>1 DEF Rebuilds, RebuildKinds, IsRemap
<1> HIDE DEF q
<1>3. Reads(q)
  BY <1>2 DEF Reads, HydratePcs, Following, UsedRows
<1> QED
  BY <1>1, <1>3, PassiveMoves

\* The sweep of a deleted user and the reads of Hydrate: still on its way.
LEMMA FollowingReads ==
  ASSUME Inv, Control, Following, NEW r \in Reqs,
         CloseByUsername(r) \/ HydrateUps(r) \/ HydrateUsers(r) \/ HydrateUniv(r)
  PROVE  Following'
<1>1. ReqPart /\ UNCHANGED dbVars /\ mem' = mem /\ StepKind(req[r]) /\ Reads(req[r])
  BY DEF Inv, Control, Following, Requested, CloseByUsername, HydrateUps, HydrateUsers, HydrateUniv,
     memVars
<1>2. /\ req[r].pc \in HydratePcs \cup {"closeUser"}
      /\ req[r].pc = "closeUser" => req[r].op.kind # "putUniversal"
  BY <1>1 DEF CloseByUsername, HydrateUps, HydrateUsers, HydrateUniv, At, HydratePcs, StepKind
<1>3. PICK q : /\ req' = [req EXCEPT ![r] = q] /\ q.pc \in HydratePcs /\ q.op = req[r].op
               /\ Reads(q)
  <2>1. CASE CloseByUsername(r)
    <3> DEFINE q == Request("hydrateUps", req[r].op)
    <3>1. req' = [req EXCEPT ![r] = q] /\ q.pc = "hydrateUps" /\ q.op = req[r].op
      BY <2>1 DEF CloseByUsername, Goto, Request, Final
    <3> HIDE DEF q
    <3>2. Reads(q)
      BY <3>1, ReadsNothing
    <3> QED
      BY <3>1, <3>2 DEF HydratePcs
  <2>2. CASE HydrateUps(r)
    <3> DEFINE q == [pc |-> "hydrateUsers", op |-> req[r].op, local |-> [ups |-> dbUp]]
    <3>1. req' = [req EXCEPT ![r] = q]
      BY <2>2 DEF HydrateUps, Keep
    <3>2. q.pc = "hydrateUsers" /\ q.op = req[r].op /\ q.local.ups = dbUp
      OBVIOUS
    <3> HIDE DEF q
    <3> QED
      BY <3>1, <3>2 DEF HydratePcs, Reads
  <2>3. CASE HydrateUsers(r)
    <3> DEFINE q == [pc |-> "hydrateUniv", op |-> req[r].op,
                     local |-> [ups |-> req[r].local.ups, users |-> dbUser]]
    <3>1. req' = [req EXCEPT ![r] = q] /\ req[r].local.ups = dbUp
      BY <1>1, <2>3 DEF HydrateUsers, Keep, At, Reads, HydratePcs
    <3>2. q.pc = "hydrateUniv" /\ q.op = req[r].op /\ q.local.ups = dbUp /\ q.local.users = dbUser
      BY <3>1
    <3> HIDE DEF q
    <3> QED
      BY <3>1, <3>2 DEF HydratePcs, Reads
  <2>4. CASE HydrateUniv(r)
    <3> DEFINE q == [pc |-> "hydrateSwap", op |-> req[r].op,
                     local |-> [ups |-> req[r].local.ups, users |-> req[r].local.users,
                                univ |-> dbUniv]]
    <3>1. /\ req' = [req EXCEPT ![r] = q]
          /\ req[r].local.ups = dbUp /\ req[r].local.users = dbUser
      BY <1>1, <2>4 DEF HydrateUniv, Keep, At, Reads, HydratePcs
    <3>2. /\ q.pc = "hydrateSwap" /\ q.op = req[r].op
          /\ q.local.ups = dbUp /\ q.local.users = dbUser /\ q.local.univ = dbUniv
      BY <3>1
    <3> HIDE DEF q
    <3> QED
      BY <3>1, <3>2 DEF HydratePcs, Reads
  <2> QED
    BY <2>1, <2>2, <2>3, <2>4
<1>4. /\ \A u \in Users : Remapping(req[r], u) => Remapping(q, u)
      /\ \A u \in Users : ChangingUser(req[r], u) => ChangingUser(q, u)
      /\ ChangingUniv(req[r]) => ChangingUniv(q)
  BY <1>2, <1>3 DEF Remapping, ChangingUser, ChangingUniv, HydratePcs
<1> QED
  BY <1>1, <1>3, <1>4, FollowingMoves

\* What a write that is not about a user does to the users: those mapped to a
\* row of gone are unmapped, and nothing else changes.
Unmaps(gone) ==
  \A u \in Users :
    /\ (dbUser'[u] = NoRow) <=> (dbUser[u] = NoRow)
    /\ dbUser[u] # NoRow =>
         /\ dbUser'[u].pwd = dbUser[u].pwd
         /\ dbUser'[u].up = IF dbUser[u].up \in gone THEN NoId ELSE dbUser[u].up

\* ... and to the rows: gone are gone, and one that appears is of a new id.
Replaces(gone) ==
  /\ \A i \in gone : dbUp'[i] = NoRow
  /\ \A i \in Ids : dbUp'[i] # NoRow => (dbUp[i] # NoRow \/ i \notin usedIds) /\ i \in usedIds'
  /\ usedIds \subseteq usedIds' /\ dbUniv' = dbUniv

\* ON DELETE SET NULL keeps the passwords.
LEMMA UnmapUnmaps == ASSUME DbTypes, NEW gone \in SUBSET Ids, Unmap(gone) PROVE Unmaps(gone)
<1>1. ASSUME NEW u \in Users, dbUser[u] # NoRow PROVE dbUser'[u].pwd = dbUser[u].pwd
  BY <1>1 DEF Unmap, DbTypes, UserTable, UserRow
<1> QED
  BY <1>1, UnmapFacts DEF Unmaps

\* Every write that is not about a user is of that form, as long as Webshare
\* does not report a proxy again.
LEMMA RowWrites ==
  ASSUME DbPart, UsedRows, ~IdsReturn, NEW op \in Ops,
         WriteManual(op) \/ SyncTx(op) \/ DeleteKeyTx(op) \/ RenameUpstream(op)
  PROVE  \E gone \in SUBSET Ids : Unmaps(gone) /\ Replaces(gone)
<1>1. /\ dbUp \in UpTable /\ DbTypes /\ Manual \subseteq Ids /\ Webshare \subseteq Ids
      /\ \A i \in Ids : dbUp[i] # NoRow => i \in usedIds
  BY DEF DbPart, DbTypes, Ids, UsedRows
<1>2. dbUser' = dbUser => Unmaps({})
  BY DEF Unmaps
<1>3. CASE WriteManual(op)
  <2>1. CASE op.kind = "addManual"
    <3>1. PICK id \in Manual \ usedIds :
            /\ dbUp' = [dbUp EXCEPT ![id] = [def |-> op.def, name |-> op.name]]
            /\ usedIds' = usedIds \cup {id} /\ dbUser' = dbUser /\ dbUniv' = dbUniv
      BY <1>3, <2>1 DEF WriteManual
    <3>2. Replaces({})
      BY <1>1, <3>1 DEF Replaces, UpTable
    <3> QED
      BY <1>2, <3>1, <3>2
  <2>2. CASE op.kind = "patchManual"
    <3>1. /\ dbUp' = IF dbUp[op.id] = NoRow THEN dbUp
                     ELSE [dbUp EXCEPT ![op.id] = [def |-> op.def, name |-> op.name]]
          /\ dbUser' = dbUser /\ usedIds' = usedIds /\ dbUniv' = dbUniv
      BY <1>3, <2>2 DEF WriteManual
    <3>2. Replaces({})
      BY <1>1, <3>1 DEF Replaces, UpTable
    <3> QED
      BY <1>2, <3>1, <3>2
  <2>3. CASE op.kind = "deleteManual"
    <3>1. /\ dbUp' = [dbUp EXCEPT ![op.id] = NoRow] /\ Unmap({op.id}) /\ usedIds' = usedIds
          /\ dbUniv' = dbUniv /\ op.id \in Ids
      BY <1>1, <1>3, <2>3, OpFields DEF WriteManual
    <3>2. Replaces({op.id})
      BY <1>1, <3>1 DEF Replaces, UpTable
    <3> QED
      BY <1>1, <3>1, <3>2, UnmapUnmaps
  <2> QED
    BY <1>3, <2>1, <2>2, <2>3 DEF WriteManual
<1>4. CASE SyncTx(op)
  <2> DEFINE known == {i \in Webshare : dbUp[i] # NoRow}
             new(listed) == listed \ known
             kept(listed) == {dbUp[i].name : i \in known \cap listed}
  <2>a. PICK listed \in SUBSET Webshare :
          /\ ~IdsReturn => new(listed) \cap usedIds = {}
          /\ \E remote \in [listed -> Defs], name \in [new(listed) -> Names \ kept(listed)] :
               /\ \A i, j \in new(listed) : i # j => name[i] # name[j]
               /\ dbUp' = [i \in Ids |->
                    IF i \notin Webshare THEN dbUp[i]
                    ELSE IF i \notin listed THEN NoRow
                    ELSE [def |-> remote[i],
                          name |-> IF i \in new(listed) THEN name[i] ELSE dbUp[i].name]]
          /\ Unmap(known \ listed)
          /\ usedIds' = usedIds \cup listed
    BY <1>4, Zenon DEF SyncTx
  <2>1. PICK remote \in [listed -> Defs], name \in [new(listed) -> Names \ kept(listed)] :
          dbUp' = [i \in Ids |->
            IF i \notin Webshare THEN dbUp[i]
            ELSE IF i \notin listed THEN NoRow
            ELSE [def |-> remote[i],
                  name |-> IF i \in new(listed) THEN name[i] ELSE dbUp[i].name]]
    BY <2>a
  <2>2. ASSUME NEW i \in Ids
        PROVE  /\ i \notin Webshare => dbUp'[i] = dbUp[i]
               /\ i \in Webshare \ listed => dbUp'[i] = NoRow
    BY <2>1
  <2>3. dbUniv' = dbUniv
    BY <1>4 DEF SyncTx
  <2> DEFINE gone == known \ listed
  <2>4. Replaces(gone)
    <3>1. \A i \in gone : dbUp'[i] = NoRow
      BY <1>1, <2>2
    <3>2. ASSUME NEW i \in Ids, dbUp'[i] # NoRow
          PROVE  (dbUp[i] # NoRow \/ i \notin usedIds) /\ i \in usedIds'
      BY <1>1, <2>a, <2>2, <3>2
    <3> QED
      BY <2>a, <2>3, <3>1, <3>2 DEF Replaces
  <2>5. Unmaps(gone)
    BY <1>1, <2>a, UnmapUnmaps
  <2>6. gone \in SUBSET Ids
    BY <1>1
  <2> HIDE DEF gone
  <2> QED
    BY <2>4, <2>5, <2>6
<1>5. CASE DeleteKeyTx(op)
  <2>1. /\ dbUp' = [i \in Ids |-> IF i \in Webshare THEN NoRow ELSE dbUp[i]]
        /\ Unmap(Webshare) /\ usedIds' = usedIds /\ dbUniv' = dbUniv
    BY <1>5 DEF DeleteKeyTx
  <2>2. Replaces(Webshare)
    BY <1>1, <2>1 DEF Replaces
  <2> QED
    BY <1>1, <2>1, <2>2, UnmapUnmaps
<1>6. CASE RenameUpstream(op)
  <2>1. /\ dbUp[op.id] # NoRow /\ dbUp' = [dbUp EXCEPT ![op.id].name = op.name]
        /\ dbUser' = dbUser /\ usedIds' = usedIds /\ dbUniv' = dbUniv
    BY <1>6 DEF RenameUpstream
  <2>2. Replaces({})
    BY <1>1, <2>1 DEF Replaces, UpTable
  <2> QED
    BY <1>2, <2>1, <2>2
<1> QED
  BY <1>3, <1>4, <1>5, <1>6

\* Such a write leaves a user's published upstream its own or deleted.
LEMMA FollowsKept ==
  ASSUME NEW gone \in SUBSET Ids, Unmaps(gone), Replaces(gone), NEW u \in Users, dbUser[u] # NoRow,
         NEW id \in Ids \cup {NoId}, id \in usedIds \cup {NoId}, Follows(id, u)
  PROVE  Follows(id, u)'
<1>1. NoId \notin gone
  BY DistinctIds DEF Ids
<1>2. id # NoId /\ dbUp[id] = NoRow => dbUp'[id] = NoRow
  BY DEF Replaces
<1>3. dbUser'[u].up = IF dbUser[u].up \in gone THEN NoId ELSE dbUser[u].up
  BY DEF Unmaps
<1>4. id \in gone => dbUp'[id] = NoRow /\ id # NoId
  BY <1>1 DEF Replaces
<1> QED
  BY <1>1, <1>2, <1>3, <1>4 DEF Follows

\* While a handler that hydrates is served, nobody else is.
LEMMA OthersFinal ==
  ASSUME Control, NEW r \in Reqs, Active(r), Hydrates(req[r].op)
  PROVE  \A p \in Reqs \ {r} : req[p].pc \in Final
BY DEF Control, Alone, Active

\* ... and while another handler writes, none that hydrates is.
LEMMA NoneHydrating ==
  ASSUME Control, NEW r \in Reqs, Active(r)
  PROVE  \A p \in Reqs \ {r} : req[p].pc \notin HydratePcs \cup {"closeUser"}
<1>1. ASSUME NEW p \in Reqs \ {r}, req[p].pc \in HydratePcs \cup {"closeUser"} PROVE FALSE
  <2>1. Hydrates(req[p].op) /\ Active(p)
    BY <1>1 DEF Control, StepKind, Active, Final, HydratePcs
  <2> QED
    BY <2>1 DEF Control, Alone
<1> QED
  BY <1>1

\* What the handlers at Swap captured, and the ids they hold, are the table's.
LEMMA SwapFacts ==
  ASSUME Inv, Control, Following, NEW r \in Reqs, req[r].pc = "swap"
  PROVE  /\ mu = r /\ req[r].local.cur = mem /\ Reads(req[r])
         /\ IsRemap(req[r].op) =>
              /\ req[r].op.user \in Users /\ mem.users[req[r].op.user] # NoUser
              /\ req[r].op.map \in Ids \cup {NoId} /\ req[r].op.map \in usedIds \cup {NoId}
              /\ req[r].op.map # NoId => mem.ups[req[r].op.map] # NoRow
         /\ ~IsRemap(req[r].op) => Rebuilds(req[r].op) /\ req[r].local.ups \in UpTable
<1>1. /\ RequestOK(req[r]) /\ req[r].op \in Ops /\ StepKind(req[r]) /\ Captured(req[r]) /\ mu = r
      /\ Reads(req[r]) /\ Grounded(mem)
  BY RequestFacts DEF Inv, Control, Mutexed, HeldPcs, Following, Requested
<1>2. req[r].local.cur = mem
  BY <1>1 DEF Captured
<1>3. ASSUME IsRemap(req[r].op)
      PROVE  /\ req[r].op.user \in Users /\ mem.users[req[r].op.user] # NoUser
             /\ req[r].op.map \in Ids \cup {NoId} /\ req[r].op.map \in usedIds \cup {NoId}
             /\ req[r].op.map # NoId => mem.ups[req[r].op.map] # NoRow
  <2>1. req[r].op.user \in Users /\ req[r].op.map \in Ids \cup {NoId}
    BY <1>1, <1>3, OpFields DEF RequestOK, IsRemap
  <2>2. /\ mem.users[req[r].op.user] # NoUser
        /\ req[r].op.map # NoId => mem.ups[req[r].op.map] # NoRow
    BY <1>1, <1>2, <1>3 DEF RequestOK
  <2> QED
    BY <1>1, <2>1, <2>2 DEF Grounded
<1>4. ~IsRemap(req[r].op) => Rebuilds(req[r].op) /\ req[r].local.ups \in UpTable
  BY <1>1 DEF StepKind, RequestOK
<1> QED
  BY <1>1, <1>2, <1>3, <1>4

\* The published ids are ids.
LEMMA PublishedIds ==
  ASSUME Inv, NEW u \in Users, mem.users[u] # NoUser
  PROVE  mem.users[u].upid \in Ids \cup {NoId}
BY DEF Inv, MemPart, MemTypes, RoutingState, ResolvedUser

\* A write about the upstreams.
LEMMA FollowingRowWrite ==
  ASSUME Inv, Control, Following, NEW r \in Reqs, Write(r),
         NEW gone \in SUBSET Ids, Unmaps(gone), Replaces(gone), ~Hydrates(req[r].op),
         AfterWrite(req[r].op) \in {"lock", "ok"}
  PROVE  Following'
<1> DEFINE q == Request(AfterWrite(req[r].op), req[r].op)
<1>1. /\ req'[r] = q /\ \A p \in Reqs \ {r} : req'[p] = req[p]
      /\ mem' = mem /\ Active(r) /\ req[r].pc = "write"
  BY DEF Inv, ReqPart, Write, Goto, memVars, Active, At, Final
<1>2. q.pc \in {"lock", "ok"}
  BY DEF Request
<1> HIDE DEF q
<1>3. \A p \in Reqs \ {r} : req[p].pc \notin HydratePcs \cup {"closeUser"}
  BY <1>1, NoneHydrating
<1>4. /\ \A i \in Ids : dbUp'[i] # NoRow => i \in usedIds'
      /\ usedIds \subseteq usedIds' /\ dbUniv' = dbUniv
  BY DEF Replaces
<1>5. Requested'
  <2>1. ASSUME NEW p \in Reqs \ {r} PROVE Reads(req[p])'
    <3>1. CASE req[p].pc # "swap"
      BY <1>1, <1>3, <3>1 DEF Reads, HydratePcs
    <3>2. CASE req[p].pc = "swap"
      <4>1. ASSUME IsRemap(req[p].op)
            PROVE  (dbUser[req[p].op.user] # NoRow /\ Follows(req[p].op.map, req[p].op.user))'
        <5>1. /\ req[p].op.user \in Users /\ req[p].op.map \in Ids \cup {NoId}
              /\ req[p].op.map \in usedIds \cup {NoId}
              /\ dbUser[req[p].op.user] # NoRow /\ Follows(req[p].op.map, req[p].op.user)
          BY <3>2, <4>1, SwapFacts DEF Reads
        <5> DEFINE u == req[p].op.user
                   id == req[p].op.map
        <5>2. u' = u /\ id' = id
          BY <1>1
        <5> HIDE DEF u, id
        <5>3. dbUser'[u] # NoRow /\ Follows(id, u)'
          BY <5>1, <5>2, FollowsKept DEF u, id, Unmaps, Follows
        <5> QED
          BY <5>2, <5>3 DEF u, id
      <4>2. Rebuilds(req[p].op) => \A i \in Ids : req[p].local.ups[i] # NoRow => i \in usedIds'
        BY <1>4, <3>2 DEF Following, Requested, Reads
      <4> QED
        BY <1>1, <3>2, <4>1, <4>2 DEF Reads, HydratePcs
    <3> QED
      BY <3>1, <3>2
  <2>2. Reads(req[r])'
    BY <1>1, <1>2 DEF Reads, HydratePcs
  <2> QED
    BY <2>1, <2>2 DEF Requested
<1>6. UsedRows' /\ Grounded(mem)'
  BY <1>1, <1>4 DEF Following, UsedRows, Grounded
<1>7. Mapped'
  <2>1. ASSUME NEW u \in Users PROVE Tracks(mem, u)' \/ \E p \in Reqs : Remapping(req[p], u)'
    <3>1. CASE Tracks(mem, u)
      <4>1. mem.users[u] # NoUser /\ dbUser[u] # NoRow => Follows(mem.users[u].upid, u)'
        <5>1. ASSUME NEW id \in Ids \cup {NoId}, id \in usedIds \cup {NoId}, Follows(id, u),
                     dbUser[u] # NoRow
              PROVE  id = dbUser'[u].up \/ (id # NoId /\ dbUp'[id] = NoRow /\ dbUser'[u].up = NoId)
          BY <5>1, FollowsKept DEF Follows
        <5> QED
          BY <1>1, <3>1, <5>1, PublishedIds DEF Tracks, Following, Grounded, Follows
      <4> QED
        BY <1>1, <4>1 DEF Tracks, Unmaps
    <3>2. CASE \E p \in Reqs : Remapping(req[p], u)
      BY <1>1, <3>2 DEF Remapping
    <3> QED
      BY <3>1, <3>2 DEF Following, Mapped
  <2> QED
    BY <2>1 DEF Mapped
<1>8. Known'
  <2>1. ASSUME NEW u \in Users PROVE SameUser(mem, u)'
    <3>1. SameUser(mem, u)
      BY <1>1, <1>3 DEF Following, Known, ChangingUser, HydratePcs
    <3> QED
      BY <1>1, <3>1 DEF SameUser, Unmaps
  <2> QED
    BY <2>1 DEF Known
<1>9. Universal'
  BY <1>1, <1>3, <1>4 DEF Following, Universal, ChangingUniv, HydratePcs
<1> QED
  BY <1>5, <1>6, <1>7, <1>8, <1>9 DEF Following

\* A write about a user or the universal password, alone until it is published.
LEMMA FollowingUserWrite ==
  ASSUME Inv, Control, Following, NEW r \in Reqs, Write(r), Hydrates(req[r].op),
         WriteUser(req[r].op) \/ WriteUniversal(req[r].op)
  PROVE  Following'
<1> DEFINE op == req[r].op
           q == Request(AfterWrite(op), op)
<1>1. /\ req'[r] = q /\ \A p \in Reqs \ {r} : req'[p] = req[p]
      /\ mem' = mem /\ Active(r) /\ req[r].pc = "write" /\ op \in Ops /\ dbUser \in UserTable
  BY RequestFacts DEF Inv, ReqPart, Write, Goto, memVars, Active, At, Final, DbPart, DbTypes
<1>2. /\ q.pc \in {"hydrateUps", "closeUser"} /\ q.op = op
      /\ op.kind = "putUniversal" => q.pc = "hydrateUps"
  <2>1. op.kind \in {"addUser", "patchUser", "deleteUser", "putUniversal"}
    BY DEF WriteUser, WriteUniversal
  <2> HIDE DEF op
  <2>2. AfterWrite(op) = IF op.kind = "deleteUser" THEN "closeUser" ELSE "hydrateUps"
    BY <2>1 DEF AfterWrite, RebuildKinds
  <2> QED
    BY <2>2 DEF Request, Final
<1>3. /\ op.kind \in {"addUser", "patchUser", "deleteUser"} \/ WriteUniversal(op)
      /\ dbUp' = dbUp /\ usedIds' = usedIds
  BY DEF WriteUser, WriteUniversal
<1> HIDE DEF q
<1>4. \A p \in Reqs : req[p].pc \notin HydratePcs \cup {"closeUser", "swap"}
  BY <1>1, OthersFinal DEF Final, HydratePcs
<1>5. /\ \A u \in Users : Tracks(mem, u) /\ SameUser(mem, u)
      /\ mem.univ = dbUniv
  BY <1>4 DEF Following, Mapped, Known, Universal, Remapping, ChangingUser, ChangingUniv
<1>6. Requested'
  <2>1. ASSUME NEW p \in Reqs \ {r} PROVE Reads(req[p])'
    BY <1>1, <1>4 DEF Reads, HydratePcs
  <2>2. Reads(req[r])'
    BY <1>1, <1>2 DEF Reads, HydratePcs
  <2> QED
    BY <2>1, <2>2 DEF Requested
<1>7. UsedRows' /\ Grounded(mem)'
  BY <1>1, <1>3 DEF Following, UsedRows, Grounded
<1>8. CASE WriteUser(op)
  <2>1. /\ op.user \in Users /\ dbUniv' = dbUniv
        /\ \A u \in Users \ {op.user} : dbUser'[u] = dbUser[u]
        /\ \/ dbUser[op.user] = NoRow
           \/ dbUser'[op.user] = NoRow
           \/ dbUser[op.user] # NoRow /\ dbUser'[op.user].up = dbUser[op.user].up
    <3>1. op.user \in Users
      BY <1>1, <1>8, OpFields DEF WriteUser
    <3>2. CASE op.kind = "patchUser"
      <4>1. dbUser[op.user] \in UserRow /\ dbUser' = [dbUser EXCEPT ![op.user].pwd = op.pwd]
        BY <1>1, <1>8, <3>1, <3>2 DEF WriteUser, UserTable
      <4> QED
        BY <1>1, <1>8, <3>1, <4>1 DEF WriteUser, UserTable, UserRow
    <3>3. CASE op.kind # "patchUser"
      BY <1>1, <1>8, <3>1, <3>3 DEF WriteUser, UserTable
    <3> QED
      BY <3>2, <3>3
  <2>2. ChangingUser(q, op.user)
    BY <1>2, <1>8 DEF ChangingUser, HydratePcs, WriteUser
  <2>3. Mapped'
    <3>1. ASSUME NEW u \in Users PROVE Tracks(mem, u)'
      BY <1>1, <1>3, <1>5, <2>1 DEF Tracks, SameUser, Follows
    <3> QED
      BY <3>1 DEF Mapped
  <2>4. Known'
    <3>1. ASSUME NEW u \in Users \ {op.user} PROVE SameUser(mem, u)'
      BY <1>1, <1>5, <2>1 DEF SameUser
    <3>2. ChangingUser(req'[r], op.user)
      BY <1>1, <2>2
    <3> QED
      BY <3>1, <3>2 DEF Known, ChangingUser
  <2>5. Universal'
    BY <1>1, <1>5, <2>1 DEF Universal
  <2> QED
    BY <1>6, <1>7, <2>3, <2>4, <2>5 DEF Following
<1>9. CASE WriteUniversal(op)
  <2>1. dbUser' = dbUser /\ ChangingUniv(q)
    BY <1>2, <1>9 DEF WriteUniversal, ChangingUniv, HydratePcs
  <2>2. Universal'
    BY <1>1, <2>1 DEF Universal, ChangingUniv
  <2>3. Mapped' /\ Known'
    BY <1>1, <1>3, <1>5, <2>1 DEF Mapped, Known, Tracks, SameUser, Follows
  <2> QED
    BY <1>6, <1>7, <2>2, <2>3 DEF Following
<1> QED
  BY <1>8, <1>9

\* Every write.
LEMMA FollowingWrite ==
  ASSUME Inv, Control, Following, Serial, NEW r \in Reqs, Write(r) PROVE Following'
<1> DEFINE op == req[r].op
<1>1. op \in Ops /\ DbWrite(op) /\ DbPart /\ UsedRows /\ ~IdsReturn
      /\ (IsRemap(op) => op.pwd # Absent)
  BY RequestFacts DEF Inv, Following, Serial, Write, RequestOK, At
<1>2. CASE WriteUser(op) \/ WriteUniversal(op)
  <2>1. Hydrates(op)
    BY <1>1, <1>2 DEF Hydrates, WriteUser, WriteUniversal, IsRemap
  <2> QED
    BY <1>2, <2>1, FollowingUserWrite
<1>3. CASE WriteManual(op) \/ SyncTx(op) \/ DeleteKeyTx(op) \/ RenameUpstream(op)
  <2>1. ~Hydrates(op) /\ AfterWrite(op) \in {"lock", "ok"}
    BY <1>3 DEF Hydrates, AfterWrite, RebuildKinds, WriteManual, SyncTx, DeleteKeyTx, RenameUpstream
  <2>2. PICK gone \in SUBSET Ids : Unmaps(gone) /\ Replaces(gone)
    BY <1>1, <1>3, RowWrites
  <2> QED
    BY <2>1, <2>2, FollowingRowWrite
<1> QED
  BY <1>1, <1>2, <1>3 DEF DbWrite

\* The mapping is in the database before it is published.
LEMMA FollowingPersist ==
  ASSUME Inv, Control, Following, NEW r \in Reqs, Persist(r) PROVE Following'
<1> DEFINE op == req[r].op
           q == [pc |-> "swap", op |-> op, local |-> req[r].local]
<1>1. /\ req'[r] = q /\ \A p \in Reqs \ {r} : req'[p] = req[p]
      /\ mem' = mem /\ Active(r) /\ req[r].pc = "persist" /\ mu = r
      /\ dbUp' = dbUp /\ dbUniv' = dbUniv /\ usedIds' = usedIds
      /\ dbUser' = [dbUser EXCEPT ![op.user].up = op.map, ![op.user].broken = (op.map = NoId)]
      /\ dbUser[op.user] # NoRow
  BY DEF Inv, ReqPart, Persist, Keep, memVars, Active, At, Final, Control, Mutexed, HeldPcs,
     MappingAccepted
<1>2. q.pc = "swap" /\ q.op = op
  OBVIOUS
<1> HIDE DEF q
<1>3. /\ IsRemap(op) /\ op.user \in Users /\ dbUser[op.user] \in UserRow /\ dbUser \in UserTable
      /\ NoRow \notin UserRow
  <2>1. op \in Ops /\ IsRemap(op) /\ dbUser \in UserTable
    BY <1>1, RequestFacts DEF Inv, Control, StepKind, DbPart, DbTypes
  <2>2. op.user \in Users
    BY <2>1, OpFields DEF IsRemap
  <2> QED
    BY <1>1, <2>1, <2>2, NoValueClash DEF UserTable
<1>4. /\ \A u \in Users \ {op.user} : dbUser'[u] = dbUser[u]
      /\ dbUser'[op.user] # NoRow /\ dbUser'[op.user].up = op.map
      /\ dbUser'[op.user].pwd = dbUser[op.user].pwd
  <2> DEFINE row == [dbUser[op.user] EXCEPT !.up = op.map, !.broken = (op.map = NoId)]
  <2>1. op.map \in Ids \cup {NoId}
    <3>1. op \in Ops /\ op.map # Absent
      BY <1>1, <1>3, RequestFacts DEF Inv, RequestOK
    <3> QED
      BY <1>3, <3>1, OpFields DEF IsRemap
  <2>2. dbUser' = [dbUser EXCEPT ![op.user] = row]
    BY <1>1, <1>3 DEF UserTable, UserRow
  <2>3. row \in UserRow /\ row.up = op.map /\ row.pwd = dbUser[op.user].pwd
    BY <1>3, <2>1 DEF UserRow
  <2> HIDE DEF row, op
  <2> QED
    BY <1>3, <2>2, <2>3 DEF UserTable
<1>5. \A p \in Reqs \ {r} : req[p].pc \notin HydratePcs \cup {"closeUser", "swap"}
  BY <1>1, NoneHydrating DEF Control, Mutexed, HeldPcs, HydratePcs
<1>6. Requested'
  <2>1. ASSUME NEW p \in Reqs \ {r} PROVE Reads(req[p])'
    BY <1>1, <1>5 DEF Reads, HydratePcs
  <2>2. Reads(req[r])'
    BY <1>1, <1>2, <1>3, <1>4 DEF Reads, HydratePcs, Follows, Rebuilds, RebuildKinds, IsRemap
  <2> QED
    BY <2>1, <2>2 DEF Requested
<1>7. UsedRows' /\ Grounded(mem)'
  BY <1>1 DEF Following, UsedRows, Grounded
<1>8. Mapped'
  <2>1. ASSUME NEW u \in Users \ {op.user} PROVE Tracks(mem, u)'
    <3>1. Tracks(mem, u)
      BY <1>1, <1>5 DEF Following, Mapped, Remapping
    <3> QED
      BY <1>1, <1>4, <3>1 DEF Tracks, Follows
  <2>2. Remapping(req'[r], op.user)
    BY <1>1, <1>2, <1>3 DEF Remapping
  <2> QED
    BY <2>1, <2>2 DEF Mapped, Remapping
<1>9. Known'
  <2>1. ASSUME NEW u \in Users PROVE SameUser(mem, u)'
    <3>1. SameUser(mem, u)
      BY <1>1, <1>5 DEF Following, Known, ChangingUser, HydratePcs
    <3> QED
      BY <1>1, <1>4, <3>1 DEF SameUser
  <2> QED
    BY <2>1 DEF Known
<1>10. Universal'
  BY <1>1, <1>5 DEF Following, Universal, ChangingUniv, HydratePcs
<1> QED
  BY <1>6, <1>7, <1>8, <1>9, <1>10 DEF Following

\* A table hydrated when nobody else is served.
LEMMA FollowingHydrated ==
  ASSUME Inv, UsedRows, UNCHANGED dbVars, NEW g \in Nat,
         mem' = HydratedState(dbUp, dbUser, dbUniv, g),
         \A p \in Reqs : req'[p].pc \notin HydratePcs \cup {"closeUser", "swap"}
  PROVE  Following'
<1>1. dbUp' = dbUp /\ dbUser' = dbUser /\ dbUniv' = dbUniv /\ usedIds' = usedIds /\ DbPart
  BY DEF dbVars, Inv
<1>2. /\ Grounded(mem') /\ mem'.univ = dbUniv
      /\ \A u \in Users : Tracks(mem', u) /\ SameUser(mem', u)
  BY <1>1, HydratedFollows
<1>3. UsedRows' /\ Grounded(mem)' /\ Universal'
  BY <1>1, <1>2 DEF UsedRows, Grounded, Universal
<1>4. Mapped' /\ Known'
  BY <1>1, <1>2 DEF Mapped, Known, Tracks, SameUser, Follows
<1>5. Requested'
  BY DEF Requested, Reads, HydratePcs
<1> QED
  BY <1>3, <1>4, <1>5 DEF Following

\* Hydrate publishes what it read, which nobody has changed since.
LEMMA FollowingHydrateSwap ==
  ASSUME Inv, Control, Following, NEW r \in Reqs, HydrateSwap(r) PROVE Following'
<1>1. /\ req[r].pc = "hydrateSwap" /\ Active(r) /\ Reads(req[r]) /\ StepKind(req[r])
      /\ gen + 1 \in Nat
      /\ UNCHANGED dbVars
  BY DEF HydrateSwap, At, Active, Final, Following, Requested, Control, Inv, MemPart, MemTypes
<1>2. mem' = HydratedState(dbUp, dbUser, dbUniv, gen + 1)
  BY <1>1 DEF HydrateSwap, Reads, HydratePcs
<1>3. \A p \in Reqs \ {r} : req[p].pc \in Final
  BY <1>1, OthersFinal DEF StepKind, HydratePcs
<1> DEFINE q == Request(AfterHydrate(req[r].op), req[r].op)
<1>4. req'[r] = q /\ \A p \in Reqs \ {r} : req'[p] = req[p]
  BY DEF Inv, ReqPart, HydrateSwap, Goto
<1>5. q.pc \in {"lock", "ok"}
  BY DEF Request, AfterHydrate
<1> HIDE DEF q
<1>6. \A p \in Reqs : req'[p].pc \notin HydratePcs \cup {"closeUser", "swap"}
  BY <1>3, <1>4, <1>5 DEF HydratePcs, Final
<1> QED
  BY <1>1, <1>2, <1>6, FollowingHydrated DEF Following

\* The daemon boots on what its database says.
LEMMA FollowingRestart == ASSUME Inv, Following, Restart PROVE Following'
<1>1. UNCHANGED dbVars /\ mem' = HydratedState(dbUp, dbUser, dbUniv, gen + 1) /\ gen + 1 \in Nat
  BY DEF Restart, Inv, MemPart, MemTypes
<1>2. \A p \in Reqs : req'[p].pc \notin HydratePcs \cup {"closeUser", "swap"}
  BY DEF Restart, Active, Request, Final, HydratePcs
<1> QED
  BY <1>1, <1>2, FollowingHydrated DEF Following

\* What a rebuild makes of a user it knows.
LEMMA RebuiltFacts ==
  ASSUME NEW cur \in RoutingState, NEW ups \in UpTable, NEW victims, NEW g \in Nat,
         NEW u \in Users, cur.users[u] # NoUser
  PROVE  LET new == RebuiltState(cur, ups, victims, g).users[u]
         IN  /\ new # NoUser /\ new.upid = cur.users[u].upid /\ new.pwd = cur.users[u].pwd
             /\ new.up = UpOf(ups, cur.users[u].upid)
             /\ new.broken = (UpOf(ups, cur.users[u].upid) = NoRow)
<1> DEFINE ru == cur.users[u]
           up == UpOf(ups, ru.upid)
           b == (up = NoRow)
           new == [pwd |-> ru.pwd, upid |-> ru.upid, up |-> up, broken |-> b,
                   cg |-> IF u \in victims THEN <<u, g>> ELSE ru.cg]
<1>1. RebuiltState(cur, ups, victims, g).users[u] = new
  BY Zenon DEF RebuiltState, RebuiltUser
<1>2. ru.pwd \in Passwords /\ ru.upid \in Ids \cup {NoId} /\ ru.cg \in Users \X Nat
  BY DEF RoutingState, ResolvedUser
<1>3. up \in Row \cup {NoRow}
  BY <1>2, UpOfFacts
<1>4. b \in BOOLEAN
  OBVIOUS
<1>5. new.upid = ru.upid /\ new.pwd = ru.pwd /\ new.up = up /\ new.broken = b
  <2> HIDE DEF b
  <2> QED
    OBVIOUS
<1>6. new \in ResolvedUser
  <2> HIDE DEF ru, up, b
  <2> QED
    BY <1>2, <1>3, <1>4 DEF ResolvedUser
<1>7. new # NoUser
  BY <1>6, NoValueClash
<1> HIDE DEF new
<1> QED
  BY <1>1, <1>5, <1>7

\* Under the mutex: the mapping that was persisted, or the rows that were
\* listed, over the users the table had.
LEMMA FollowingSwap ==
  ASSUME Inv, Control, Following, NEW r \in Reqs, Swap(r) PROVE Following'
<1> DEFINE op == req[r].op
           l == req[r].local
           q == [pc |-> "cancel", op |-> op, local |-> [cur |-> l.cur, victims |-> Victims(op, l)]]
<1>1. /\ req'[r] = q /\ \A p \in Reqs \ {r} : req'[p] = req[p]
      /\ req[r].pc = "swap" /\ Active(r) /\ mem \in RoutingState
      /\ dbUp' = dbUp /\ dbUser' = dbUser /\ dbUniv' = dbUniv /\ usedIds' = usedIds
      /\ mem' = IF IsRemap(op) THEN SwappedState(l.cur, op.user, op.map, gen + 1)
                ELSE RebuiltState(l.cur, l.ups, Victims(op, l), gen + 1)
  BY DEF Inv, ReqPart, Swap, Keep, dbVars, Active, At, Final, MemPart, MemTypes
<1>2. q.pc = "cancel"
  OBVIOUS
<1>3. l.cur = mem /\ mu = r
  BY <1>1, SwapFacts
<1>4. \A p \in Reqs \ {r} : req[p].pc \notin HydratePcs \cup {"closeUser", "swap"}
  BY <1>1, <1>3, NoneHydrating DEF Control, Mutexed, HeldPcs, HydratePcs
<1> HIDE DEF q
<1>5. \A p \in Reqs : req'[p].pc \notin HydratePcs \cup {"closeUser", "swap"}
  BY <1>1, <1>2, <1>4 DEF HydratePcs
<1>6. /\ \A u \in Users : SameUser(mem, u)
      /\ mem.univ = dbUniv /\ Grounded(mem) /\ UsedRows
      /\ \A u \in Users : Tracks(mem, u) \/ (IsRemap(op) /\ op.user = u)
  BY <1>1, <1>4 DEF Following, Known, Universal, Mapped, ChangingUser, ChangingUniv, Remapping,
     HydratePcs
<1>7. Requested' /\ UsedRows'
  BY <1>1, <1>5, <1>6 DEF Requested, Reads, HydratePcs, UsedRows
<1>8. CASE IsRemap(op)
  <2>1. /\ op.user \in Users /\ mem.users[op.user] # NoUser
        /\ op.map \in usedIds \cup {NoId} /\ dbUser[op.user] # NoRow /\ Follows(op.map, op.user)
        /\ op.map # NoId => mem.ups[op.map] # NoRow
    BY <1>1, <1>8, SwapFacts DEF Reads
  <2>2. /\ mem'.ups = mem.ups /\ mem'.univ = mem.univ
        /\ \A u \in Users \ {op.user} : mem'.users[u] = mem.users[u]
        /\ mem'.users[op.user] = SwappedUser(mem, op.user, op.map, gen + 1)
    BY <1>1, <1>3, <1>8, <2>1 DEF SwappedState, RoutingState
  <2>3. /\ mem'.users[op.user].upid = op.map /\ mem'.users[op.user].pwd = mem.users[op.user].pwd
        /\ mem'.users[op.user].broken = (op.map = NoId) /\ mem'.users[op.user] # NoUser
    <3>1. mem' \in RoutingState /\ mem'.users[op.user] \in ResolvedUser
      <4>1. op.map \in Ids \cup {NoId} /\ gen + 1 \in Nat
        BY <1>1, <1>8, SwapFacts DEF Inv, MemPart, MemTypes
      <4>2. mem.users[op.user].pwd \in Passwords /\ UpOf(mem.ups, op.map) \in Row \cup {NoRow}
        BY <1>1, <2>1, <4>1, UpOfFacts DEF RoutingState, ResolvedUser
      <4>3. SwappedUser(mem, op.user, op.map, gen + 1) \in ResolvedUser
        BY <2>1, <4>1, <4>2 DEF SwappedUser, ResolvedUser
      <4>4. SwappedState(mem, op.user, op.map, gen + 1) \in RoutingState
        BY <1>1, <2>1, <4>1, SwappedType
      <4> QED
        BY <1>1, <1>3, <1>8, <2>2, <4>3, <4>4
    <3> QED
      BY <2>2, <3>1, NoValueClash DEF SwappedUser
  <2>4. Grounded(mem)'
    <3>1. ASSUME NEW u \in Users, mem'.users[u] # NoUser
          PROVE  /\ mem'.users[u].upid \in usedIds \cup {NoId}
                 /\ mem'.users[u].broken => UpOf(mem'.ups, mem'.users[u].upid) = NoRow
      BY <1>6, <2>1, <2>2, <2>3, <3>1 DEF Grounded, UpOf
    <3> QED
      BY <1>1, <1>6, <2>2, <3>1 DEF Grounded
  <2>5. Mapped'
    <3> HIDE DEF op, l
    <3>1. ASSUME NEW u \in Users \ {op.user} PROVE Tracks(mem', u)
      BY <1>6, <2>2, <3>1 DEF Tracks
    <3>2. Tracks(mem', op.user)
      BY <2>1, <2>3 DEF Tracks
    <3> QED
      BY <1>1, <3>1, <3>2 DEF Mapped, Tracks, Follows
  <2>6. Known'
    <3> HIDE DEF op, l
    <3>1. ASSUME NEW u \in Users \ {op.user} PROVE SameUser(mem', u)
      BY <1>6, <2>2, <3>1 DEF SameUser
    <3>2. SameUser(mem', op.user)
      BY <1>6, <2>1, <2>3 DEF SameUser
    <3> QED
      BY <1>1, <3>1, <3>2 DEF Known, SameUser
  <2>7. Universal'
    BY <1>1, <1>6, <2>2 DEF Universal
  <2> QED
    BY <1>7, <2>4, <2>5, <2>6, <2>7 DEF Following
<1>9. CASE ~IsRemap(op)
  <2>1. l.ups \in UpTable /\ \A i \in Ids : l.ups[i] # NoRow => i \in usedIds
    BY <1>1, <1>9, SwapFacts DEF Reads
  <2>2. /\ mem'.ups = l.ups /\ mem'.univ = mem.univ
        /\ \A u \in Users :
             mem'.users[u] = RebuiltUser(mem.users[u], u, l.ups, u \in Victims(op, l), gen + 1)
    BY <1>1, <1>3, <1>9 DEF RebuiltState
  <2>3. ASSUME NEW u \in Users
        PROVE  /\ (mem'.users[u] = NoUser) <=> (mem.users[u] = NoUser)
               /\ mem.users[u] # NoUser =>
                    /\ mem'.users[u].upid = mem.users[u].upid
                    /\ mem'.users[u].pwd = mem.users[u].pwd
                    /\ mem'.users[u].broken = (UpOf(l.ups, mem.users[u].upid) = NoRow)
    <3>1. CASE mem.users[u] = NoUser
      BY <2>2, <3>1 DEF RebuiltUser
    <3>2. CASE mem.users[u] # NoUser
      <4>1. gen + 1 \in Nat /\ mem' = RebuiltState(mem, l.ups, Victims(op, l), gen + 1)
        BY <1>1, <1>3, <1>9 DEF Inv, MemPart, MemTypes
      <4> HIDE DEF l, op
      <4> QED
        BY <1>1, <2>1, <3>2, <4>1, RebuiltFacts
    <3> QED
      BY <3>1, <3>2
  <2> HIDE DEF op, l
  <2>4. Grounded(mem)'
    <3>1. Grounded(mem')
      BY <1>6, <2>1, <2>2, <2>3 DEF Grounded
    <3> QED
      BY <1>1, <3>1 DEF Grounded
  <2>5. Mapped'
    <3>1. ASSUME NEW u \in Users PROVE Tracks(mem', u)
      BY <1>6, <1>9, <2>3 DEF Tracks
    <3> QED
      BY <1>1, <3>1 DEF Mapped, Tracks, Follows
  <2>6. Known'
    <3>1. ASSUME NEW u \in Users PROVE SameUser(mem', u)
      BY <1>6, <2>3 DEF SameUser
    <3> QED
      BY <1>1, <3>1 DEF Known, SameUser
  <2>7. Universal'
    BY <1>1, <1>6, <2>2 DEF Universal
  <2> QED
    BY <1>7, <2>4, <2>5, <2>6, <2>7 DEF Following
<1> QED
  BY <1>8, <1>9

-----------------------------------------------------------------------------
(* Every change of the upstreams is published by a rebuild that follows it. *)

\* Deleting a key and renaming an upstream do not rebuild: without them.
Rebuilding == Kinds \cap {"deleteKey", "patchUpstream"} = {}

Awaits(q) == q.pc = "lock" /\ Rebuilds(q.op)
WillList(q) == q.pc \in {"lock", "list"} /\ Rebuilds(q.op)
HasListed(q) == q.pc = "swap" /\ Rebuilds(q.op)

Fresh ==
  /\ \A r \in Reqs : req[r].op.kind \notin {"deleteKey", "patchUpstream"}
  /\ \/ mem.ups = dbUp
     \/ \E r \in Reqs : WillList(req[r]) \/ (HasListed(req[r]) /\ req[r].local.ups = dbUp)
  /\ \A r \in Reqs : HasListed(req[r]) =>
       req[r].local.ups = dbUp \/ \E p \in Reqs : Awaits(req[p])

\* A request moves and neither upstreams nor table change.
LEMMA FreshMoves ==
  ASSUME Fresh, ReqPart, NEW r \in Reqs, NEW q, req' = [req EXCEPT ![r] = q],
         dbUp' = dbUp, mem'.ups = mem.ups,
         q.op.kind \notin {"deleteKey", "patchUpstream"},
         ~HasListed(req[r]), HasListed(q) => q.local.ups = dbUp,
         WillList(req[r]) => WillList(q) \/ HasListed(q),
         \/ Awaits(req[r]) => Awaits(q)
         \/ \A p \in Reqs \ {r} : ~HasListed(req[p])
  PROVE  Fresh'
<1>1. req'[r] = q /\ \A p \in Reqs \ {r} : req'[p] = req[p]
  BY DEF ReqPart
<1>2. (\A p \in Reqs : req[p].op.kind \notin {"deleteKey", "patchUpstream"})'
  BY <1>1 DEF Fresh
<1>3. mem'.ups = dbUp'
      \/ \E p \in Reqs : WillList(req'[p]) \/ (HasListed(req'[p]) /\ req'[p].local.ups = dbUp')
  BY <1>1 DEF Fresh
<1>4. ASSUME NEW p \in Reqs, HasListed(req'[p])
      PROVE  req'[p].local.ups = dbUp' \/ \E s \in Reqs : Awaits(req'[s])
  <2>1. CASE p = r
    BY <1>1, <1>4, <2>1
  <2>2. CASE p # r
    <3>1. HasListed(req[p])
      BY <1>1, <1>4, <2>2
    <3>2. Awaits(req[r]) => Awaits(q)
      BY <2>2, <3>1
    <3>3. req[p].local.ups = dbUp \/ \E s \in Reqs : Awaits(req[s])
      BY <3>1 DEF Fresh
    <3> QED
      BY <1>1, <2>2, <3>2, <3>3
  <2> QED
    BY <2>1, <2>2
<1> QED
  BY <1>2, <1>3, <1>4 DEF Fresh, WillList, HasListed, Awaits

\* The steps that take no part in a rebuild's listing.
LEMMA FreshPassive ==
  ASSUME Inv, Control, Fresh, Rebuilding, NEW r \in Reqs,
         \/ \E op \in Operations : Receive(r, op)
         \/ Check(r) \/ WriteRefused(r) \/ CloseByUsername(r) \/ CloseByUpstream(r)
         \/ HydrateUps(r) \/ HydrateUsers(r) \/ HydrateUniv(r)
         \/ LockRefused(r) \/ Persist(r) \/ PersistRefused(r) \/ CancelOld(r)
         \/ Write(r) /\ (WriteUser(req[r].op) \/ WriteUniversal(req[r].op))
  PROVE  Fresh'
<1>1. ReqPart /\ dbUp' = dbUp /\ mem' = mem /\ StepKind(req[r])
      /\ req[r].op.kind \notin {"deleteKey", "patchUpstream"}
  BY DEF Inv, Control, Fresh, Receive, Check, WriteRefused, CloseByUsername, CloseByUpstream,
     HydrateUps, HydrateUsers, HydrateUniv, LockRefused, Persist, PersistRefused, CancelOld, Write,
     WriteUser, WriteUniversal, memVars, dbVars
<1>2. ~WillList(req[r]) /\ ~HasListed(req[r]) /\ ~Awaits(req[r])
  <2>1. LockRefused(r) => IsRemap(req[r].op)
    BY DEF LockRefused, UnknownInSnapshot
  <2>2. IsRemap(req[r].op) => ~Rebuilds(req[r].op)
    BY DEF IsRemap, Rebuilds, RebuildKinds
  <2> QED
    BY <2>1, <2>2 DEF Receive, Check, WriteRefused, CloseByUsername, CloseByUpstream,
       HydrateUps, HydrateUsers, HydrateUniv, LockRefused, Persist, PersistRefused, CancelOld,
       Write,
       At, WillList, HasListed, Awaits
<1>3. PICK q : /\ req' = [req EXCEPT ![r] = q] /\ ~HasListed(q)
               /\ q.op.kind \notin {"deleteKey", "patchUpstream"}
  <2>1. CASE \E op \in Operations : Receive(r, op)
    <3>1. PICK op \in Operations : req' = [req EXCEPT ![r] = Request(FirstStep(op), op)]
      BY <2>1 DEF Receive
    <3> DEFINE q == Request(FirstStep(op), op)
    <3>2. q.pc # "swap" /\ q.op \in {op, NoOp}
      BY DEF Request, FirstStep
    <3>3. op.kind \notin {"deleteKey", "patchUpstream"}
      BY DEF Operations, Rebuilding
    <3> HIDE DEF q
    <3>4. NoOp.kind \notin {"deleteKey", "patchUpstream"}
      BY DEF NoOp
    <3>5. req' = [req EXCEPT ![r] = q]
      BY <3>1 DEF q
    <3>6. q.op.kind \notin {"deleteKey", "patchUpstream"} /\ ~HasListed(q)
      BY <3>2, <3>3, <3>4 DEF HasListed
    <3> QED
      BY <3>5, <3>6
  <2>2. CASE \/ Check(r) \/ WriteRefused(r) \/ CloseByUsername(r) \/ CloseByUpstream(r)
             \/ LockRefused(r) \/ PersistRefused(r) \/ Write(r)
    <3>1. PICK pc : Goto(r, pc) /\ pc # "swap"
      <4>1. OnError(req[r].op) # "swap"
        BY ErrorStep
      <4>2. Write(r) => AfterWrite(req[r].op) # "swap"
        <5> DEFINE op == req[r].op
        <5>1. Write(r) => op.kind \in AllKinds
          BY DEF Write, DbWrite, WriteUser, WriteUniversal, WriteManual, SyncTx, DeleteKeyTx,
             RenameUpstream, AllKinds
        <5> HIDE DEF op
        <5>2. op.kind \in AllKinds => AfterWrite(op) # "swap"
          BY DEF AfterWrite, AllKinds, RebuildKinds
        <5> QED
          BY <5>1, <5>2 DEF op
      <4> QED
        BY <2>2, <4>1, <4>2 DEF Check, WriteRefused, CloseByUsername, CloseByUpstream, LockRefused,
           PersistRefused, Write
    <3> DEFINE q == Request(pc, req[r].op)
    <3>2. req' = [req EXCEPT ![r] = q] /\ q.pc = pc /\ q.op \in {req[r].op, NoOp}
      BY <3>1 DEF Goto, Request
    <3> HIDE DEF q
    <3>3. NoOp.kind \notin {"deleteKey", "patchUpstream"}
      BY DEF NoOp
    <3>4. q.op.kind \notin {"deleteKey", "patchUpstream"} /\ ~HasListed(q)
      BY <1>1, <3>1, <3>2, <3>3 DEF HasListed
    <3> QED
      BY <3>2, <3>4
  <2>3. CASE HydrateUps(r) \/ HydrateUsers(r) \/ HydrateUniv(r) \/ Persist(r)
    <3>1. PICK pc, local : /\ Keep(r, pc, local)
                           /\ pc # "swap" \/ (pc = "swap" /\ req[r].pc = "persist")
      BY <2>3 DEF HydrateUps, HydrateUsers, HydrateUniv, Persist, At
    <3> DEFINE q == [pc |-> pc, op |-> req[r].op, local |-> local]
    <3>2. req' = [req EXCEPT ![r] = q] /\ q.pc = pc /\ q.op = req[r].op
      BY <3>1 DEF Keep
    <3>3. req[r].pc = "persist" => ~Rebuilds(req[r].op)
      BY <1>1 DEF StepKind, IsRemap, Rebuilds, RebuildKinds
    <3> HIDE DEF q
    <3>4. q.op.kind \notin {"deleteKey", "patchUpstream"} /\ ~HasListed(q)
      BY <1>1, <3>1, <3>2, <3>3 DEF HasListed
    <3> QED
      BY <3>2, <3>4
  <2>4. CASE CancelOld(r)
    <3> DEFINE op == req[r].op
               next == IF op.kind = "syncKey" THEN Rebuild ELSE op
               q == Request(AfterRebuild(op), next)
    <3>1. req' = [req EXCEPT ![r] = q] /\ q.pc # "swap" /\ q.op \in {op, Rebuild, NoOp}
      BY <2>4 DEF CancelOld, Request, AfterRebuild
    <3>2. /\ NoOp.kind \notin {"deleteKey", "patchUpstream"}
          /\ Rebuild.kind \notin {"deleteKey", "patchUpstream"}
      BY DEF Rebuild, NoOp
    <3> HIDE DEF q
    <3>3. q.op.kind \notin {"deleteKey", "patchUpstream"} /\ ~HasListed(q)
      BY <1>1, <3>1, <3>2 DEF HasListed
    <3> QED
      BY <3>1, <3>3
  <2> QED
    BY <2>1, <2>2, <2>3, <2>4
<1> QED
  BY <1>1, <1>2, <1>3, FreshMoves

\* A rebuild captures the table, then lists; no other is beyond its listing.
LEMMA FreshList ==
  ASSUME Inv, Control, Fresh, NEW r \in Reqs, Lock(r) \/ List(r) PROVE Fresh'
<1>1. /\ ReqPart /\ dbUp' = dbUp /\ mem' = mem /\ StepKind(req[r])
      /\ req[r].op.kind \notin {"deleteKey", "patchUpstream"} /\ req[r].pc \in {"lock", "list"}
  BY DEF Inv, Control, Fresh, Lock, List, memVars, dbVars, At
<1>2. \A p \in Reqs \ {r} : ~HasListed(req[p])
  BY HotSwitchAssumption
     DEF HotSwitchAssumption, HasListed, Control, Mutexed, HeldPcs, Lock, List, At
<1>3. CASE Lock(r)
  <2> DEFINE q == [pc |-> IF IsRemap(req[r].op) THEN "persist" ELSE "list", op |-> req[r].op,
                   local |-> [cur |-> mem]]
  <2>1. req' = [req EXCEPT ![r] = q] /\ q.op = req[r].op /\ q.pc # "swap"
        /\ (~IsRemap(q.op) => q.pc = "list")
    BY <1>3 DEF Lock, Keep
  <2> HIDE DEF q
  <2>2. Rebuilds(q.op) => ~IsRemap(q.op)
    BY DEF IsRemap, Rebuilds, RebuildKinds
  <2>3. ~HasListed(q) /\ ~HasListed(req[r]) /\ (WillList(req[r]) => WillList(q))
    BY <1>1, <2>1, <2>2 DEF HasListed, WillList
  <2> QED
    BY <1>1, <1>2, <2>1, <2>3, FreshMoves
<1>4. CASE List(r)
  <2> DEFINE q == [pc |-> "swap", op |-> req[r].op,
                   local |-> [cur |-> req[r].local.cur, ups |-> dbUp]]
  <2>1. req' = [req EXCEPT ![r] = q] /\ req[r].pc = "list"
    BY <1>4 DEF List, Keep, At
  <2>2. q.op = req[r].op /\ q.pc = "swap" /\ q.local.ups = dbUp
    OBVIOUS
  <2> HIDE DEF q
  <2>3. HasListed(q) /\ ~HasListed(req[r])
    BY <1>1, <2>1, <2>2 DEF HasListed, StepKind
  <2> QED
    BY <1>1, <1>2, <2>1, <2>2, <2>3, FreshMoves
<1> QED
  BY <1>3, <1>4

\* Whoever changes the upstreams is then waiting to rebuild.
LEMMA FreshWrite ==
  ASSUME Inv, Control, Fresh, NEW r \in Reqs, Write(r),
         ~(WriteUser(req[r].op) \/ WriteUniversal(req[r].op))
  PROVE  Fresh'
<1> DEFINE op == req[r].op
           q == Request(AfterWrite(op), op)
<1>1. /\ req'[r] = q /\ \A p \in Reqs \ {r} : req'[p] = req[p]
      /\ op.kind \notin {"deleteKey", "patchUpstream"} /\ (WriteManual(op) \/ SyncTx(op))
      /\ req[r].pc = "write"
  BY DEF Inv, ReqPart, Write, Goto, Fresh, DbWrite, DeleteKeyTx, RenameUpstream, At
<1>2. op.kind \in {"addManual", "patchManual", "deleteManual", "syncKey", "syncTick"}
  BY <1>1 DEF WriteManual, SyncTx
<1> HIDE DEF op
<1>3. AfterWrite(op) = "lock" /\ Rebuilds(op)
  BY <1>2 DEF AfterWrite, RebuildKinds, Rebuilds
<1>4. q.pc = "lock" /\ q.op = op
  BY <1>3 DEF Request, Final
<1> HIDE DEF q
<1>5. Awaits(req'[r]) /\ WillList(req'[r])
  BY <1>1, <1>3, <1>4 DEF Awaits, WillList
<1>6. (\A p \in Reqs : req[p].op.kind \notin {"deleteKey", "patchUpstream"})'
  BY <1>1, <1>4 DEF Fresh, op
<1> QED
  BY <1>5, <1>6 DEF Fresh, Awaits, WillList, HasListed

\* The published table is the database's, or somebody is waiting to rebuild.
LEMMA FreshSwap ==
  ASSUME Inv, Control, Following, Fresh, NEW r \in Reqs, Swap(r) \/ HydrateSwap(r)
  PROVE  Fresh'
<1>1. /\ \A p \in Reqs \ {r} : req'[p] = req[p]
      /\ dbUp' = dbUp /\ Active(r)
  BY DEF Inv, ReqPart, Swap, HydrateSwap, Keep, Goto, dbVars, Active, Final, At
<1>2. CASE Swap(r)
  <2>1. req[r].pc = "swap" /\ req'[r].pc = "cancel" /\ req'[r].op = req[r].op
    BY <1>2 DEF Inv, ReqPart, Swap, Keep, At
  <2>2. mu = r /\ req[r].local.cur = mem /\ (~IsRemap(req[r].op) => Rebuilds(req[r].op))
    BY <2>1, SwapFacts
  <2>3. \A p \in Reqs : ~HasListed(req'[p])
    BY <1>1, <2>1, <2>2 DEF Control, Mutexed, HeldPcs, HasListed
  <2>4. mem'.ups = dbUp' \/ \E p \in Reqs : WillList(req'[p])
    <3>1. CASE IsRemap(req[r].op)
      <4>1. mem'.ups = mem.ups
        BY <1>2, <2>2, <3>1 DEF Swap, SwappedState, Inv, MemPart, MemTypes, RoutingState
      <4>2. ~WillList(req[r]) /\ \A p \in Reqs \ {r} : ~HasListed(req[p])
        BY <2>1, <2>2 DEF WillList, HasListed, Control, Mutexed, HeldPcs
      <4>3. ~HasListed(req[r])
        BY <3>1 DEF HasListed, Rebuilds, RebuildKinds, IsRemap
      <4> QED
        BY <1>1, <4>1, <4>2, <4>3 DEF Fresh
    <3>2. CASE ~IsRemap(req[r].op)
      <4>1. mem'.ups = req[r].local.ups
        BY <1>2, <3>2 DEF Swap, RebuiltState
      <4>2. req[r].local.ups = dbUp \/ \E p \in Reqs : Awaits(req[p])
        BY <2>1, <2>2, <3>2 DEF Fresh, HasListed
      <4>3. \A p \in Reqs : Awaits(req[p]) => WillList(req'[p])
        BY <1>1, <2>1 DEF Awaits, WillList
      <4> QED
        BY <1>1, <4>1, <4>2, <4>3
    <3> QED
      BY <3>1, <3>2
  <2>5. \A p \in Reqs : req'[p].op.kind \notin {"deleteKey", "patchUpstream"}
    BY <1>1, <2>1 DEF Fresh
  <2> QED
    BY <2>3, <2>4, <2>5 DEF Fresh, WillList, HasListed
<1>3. CASE HydrateSwap(r)
  <2> DEFINE q == Request(AfterHydrate(req[r].op), req[r].op)
  <2>1. req[r].pc = "hydrateSwap" /\ req'[r] = q /\ Reads(req[r]) /\ StepKind(req[r])
    BY <1>3 DEF HydrateSwap, At, Goto, Inv, ReqPart, Following, Requested, Control
  <2>2. q.pc # "swap" /\ q.op \in {req[r].op, NoOp}
    BY DEF Request, AfterHydrate
  <2> HIDE DEF q
  <2>3. mem'.ups = dbUp
    BY <1>3, <2>1 DEF HydrateSwap, HydratedState, Reads, HydratePcs
  <2>4. \A p \in Reqs \ {r} : req[p].pc \in Final
    BY <1>1, <2>1, OthersFinal DEF StepKind, HydratePcs
  <2>5. \A p \in Reqs : ~HasListed(req'[p])
    BY <1>1, <2>1, <2>2, <2>4 DEF HasListed, Final
  <2>6. \A p \in Reqs : req'[p].op.kind \notin {"deleteKey", "patchUpstream"}
    BY <1>1, <2>1, <2>2 DEF Fresh, NoOp
  <2> QED
    BY <1>1, <2>3, <2>5, <2>6 DEF Fresh, WillList, HasListed
<1> QED
  BY <1>2, <1>3

\* A boot publishes the upstreams of the database.
LEMMA FreshRestart == ASSUME Fresh, Restart PROVE Fresh'
<1>1. dbUp' = dbUp /\ mem'.ups = dbUp /\ \A r \in Reqs : req'[r].pc # "swap"
  BY DEF Restart, dbVars, HydratedState, Active, Request, Final
<1>2. \A r \in Reqs : req'[r].op.kind \notin {"deleteKey", "patchUpstream"}
  BY DEF Restart, Fresh, Request, Final, NoOp
<1> QED
  BY <1>1, <1>2 DEF Fresh, HasListed, WillList

-----------------------------------------------------------------------------
(* The theorems. *)

\* A connection's steps leave the database, the table and the requests alone.
LEMMA FollowingUnchanged ==
  Following /\ UNCHANGED <<dbVars, mem, req>> => Following'
BY DEF Following, UsedRows, Requested, Reads, Grounded, Mapped, Known, Universal, Tracks, SameUser,
   Follows, Remapping, ChangingUser, ChangingUniv, dbVars

\* The same, for what a rebuild owes the table.
LEMMA FreshUnchanged == Fresh /\ UNCHANGED <<dbVars, mem, req>> => Fresh'
BY DEF Fresh, WillList, HasListed, Awaits, dbVars

\* The daemon boots on a table hydrated from its database.
LEMMA InitFollowing == ASSUME Init PROVE Following
<1>1. DbPart /\ UsedRows
  BY InitInv DEF Init, InitDb, Inv, UsedRows
<1>2. mem = HydratedState(dbUp, dbUser, dbUniv, 1) /\ \A r \in Reqs : req[r].pc = "idle"
  BY DEF Init, Boot, Idle
<1>3. Requested
  BY <1>2 DEF Requested, Reads, HydratePcs
<1>4. Grounded(mem) /\ mem.univ = dbUniv /\ \A u \in Users : Tracks(mem, u) /\ SameUser(mem, u)
  BY <1>1, <1>2, HydratedFollows
<1> QED
  BY <1>1, <1>3, <1>4 DEF Following, Mapped, Known, Universal

\* The table of the first boot has the upstreams of the database.
LEMMA InitFresh == ASSUME Init PROVE Fresh
BY DEF Init, Boot, Idle, NoOp, HydratedState, Fresh, HasListed

\* Every step keeps the table following the database.
LEMMA NextFollowing ==
  ASSUME Inv, Control, Following, Serial, [Next]_vars PROVE Following'
<1>1. ASSUME NEW r \in Reqs, HandlerStep(r) PROVE Following'
  <2>1. CASE \/ Check(r) \/ WriteRefused(r) \/ CloseByUpstream(r) \/ Lock(r) \/ LockRefused(r)
             \/ PersistRefused(r) \/ CancelOld(r)
    BY <2>1, FollowingPassive
  <2>2. CASE CloseByUsername(r) \/ HydrateUps(r) \/ HydrateUsers(r) \/ HydrateUniv(r)
    BY <2>2, FollowingReads
  <2> QED
    BY <1>1, <2>1, <2>2, FollowingWrite, FollowingPersist, FollowingList, FollowingHydrateSwap,
       FollowingSwap DEF HandlerStep
<1>2. ASSUME NEW r \in Reqs, NEW op \in Operations, Receive(r, op) PROVE Following'
  BY <1>2, FollowingPassive
<1>3. ASSUME NEW r \in Reqs, Abort(r) PROVE FALSE
  BY <1>3 DEF Abort, Serial, Inv, BoundPart
<1>4. ASSUME NEW c \in Conns,
             \/ \E login \in Users \cup Names, pwd \in Passwords : Acquire(c, login, pwd)
             \/ Register(c) \/ HandshakeFails(c) \/ PeerEnds(c) \/ TornDown(c)
      PROVE  Following'
  BY <1>4, FollowingUnchanged DEF Acquire, Register, HandshakeFails, PeerEnds, TornDown, memVars
<1>5. CASE Restart
  BY <1>5, FollowingRestart
<1>6. CASE UNCHANGED vars
  BY <1>6, FollowingUnchanged DEF vars, memVars
<1> QED
  BY <1>1, <1>2, <1>3, <1>4, <1>5, <1>6 DEF Next

\* Every step keeps a rebuild ahead of every change of the upstreams.
LEMMA NextFresh ==
  ASSUME Inv, Control, Following, Fresh, Serial, Rebuilding, [Next]_vars PROVE Fresh'
<1>1. ASSUME NEW r \in Reqs, HandlerStep(r) PROVE Fresh'
  <2>1. CASE \/ Check(r) \/ WriteRefused(r) \/ CloseByUsername(r) \/ CloseByUpstream(r)
             \/ HydrateUps(r) \/ HydrateUsers(r) \/ HydrateUniv(r)
             \/ LockRefused(r) \/ Persist(r) \/ PersistRefused(r) \/ CancelOld(r)
    BY <2>1, FreshPassive
  <2>2. CASE Write(r)
    BY <2>2, FreshPassive, FreshWrite
  <2> QED
    BY <1>1, <2>1, <2>2, FreshList, FreshSwap DEF HandlerStep
<1>2. ASSUME NEW r \in Reqs, NEW op \in Operations, Receive(r, op) PROVE Fresh'
  BY <1>2, FreshPassive
<1>3. ASSUME NEW r \in Reqs, Abort(r) PROVE FALSE
  BY <1>3 DEF Abort, Serial, Inv, BoundPart
<1>4. ASSUME NEW c \in Conns,
             \/ \E login \in Users \cup Names, pwd \in Passwords : Acquire(c, login, pwd)
             \/ Register(c) \/ HandshakeFails(c) \/ PeerEnds(c) \/ TornDown(c)
      PROVE  Fresh'
  BY <1>4, FreshUnchanged DEF Acquire, Register, HandshakeFails, PeerEnds, TornDown, memVars
<1>5. CASE Restart
  BY <1>5, FreshRestart
<1>6. CASE UNCHANGED vars
  BY <1>6, FreshUnchanged DEF vars, memVars
<1> QED
  BY <1>1, <1>2, <1>3, <1>4, <1>5, <1>6 DEF Next

\* When handlers that hydrate run alone, ids are not reissued and no client
\* leaves midway, the table follows the database at every moment.
LEMMA AlwaysFollowing == ASSUME Serial PROVE Spec => [](Inv /\ Control /\ Following)
<1>1. Init => Inv /\ Control /\ Following
  BY InitInv, InitControl, InitFollowing
<1>2. Inv /\ Control /\ Following /\ [Next]_vars => (Inv /\ Control /\ Following)'
  BY NextInv, NextControl, NextFollowing DEF Serial, Calm
<1> QED
  BY <1>1, <1>2, PTL DEF Spec

\* A user's published upstream is its row's, or a remap has written the row and
\* is about to publish it.
LEMMA DurableFromFollowing == Inv /\ Following => PublishedIsDurable
<1> SUFFICES ASSUME Inv, Following, NEW u \in Users,
                    mem.users[u] # NoUser, ~mem.users[u].broken, dbUser[u] # NoRow
             PROVE  \/ dbUser[u].up = mem.users[u].upid
                    \/ dbUp[mem.users[u].upid] = NoRow
                    \/ \E r \in Reqs : At(r, "swap") /\ IsRemap(req[r].op) /\ req[r].op.user = u
  BY DEF PublishedIsDurable
<1>1. Tracks(mem, u) \/ \E r \in Reqs : Remapping(req[r], u)
  BY DEF Following, Mapped
<1> QED
  BY <1>1 DEF Tracks, Follows, Remapping, At

\* PersistAndSwap, swap.go, writes users.current_upstream_id before it publishes
\* the snapshot, under one mutex, and every other path publishes what it reads:
\* a crash at any moment restarts the daemon on the mappings it was serving.
THEOREM PublishedSurvivesCrash == ASSUME Serial PROVE Spec => []PublishedIsDurable
<1> QED
  BY AlwaysFollowing, DurableFromFollowing, PTL

\* With no request served, a user is published with its password and routed as
\* its row says.
LEMMA QuietUsers ==
  ASSUME Inv, Following, Quiet, mem.ups = dbUp, NEW u \in Users
  PROVE  /\ (mem.users[u] = NoUser) <=> (dbUser[u] = NoRow)
         /\ dbUser[u] # NoRow => mem.users[u].pwd = dbUser[u].pwd /\ MemRoute(u) = DbRoute(u)
<1>1. SameUser(mem, u) /\ Tracks(mem, u)
  BY DEF Quiet, Active, Final, Following, Known, Mapped, ChangingUser, Remapping, HydratePcs
<1>2. ASSUME dbUser[u] # NoRow PROVE MemRoute(u) = DbRoute(u)
  <2>1. mem.users[u] # NoUser /\ Follows(mem.users[u].upid, u)
    BY <1>1, <1>2 DEF SameUser, Tracks
  <2>2. mem.users[u].broken => UpOf(mem.ups, mem.users[u].upid) = NoRow
    BY <2>1 DEF Following, Grounded
  <2>3. ~mem.users[u].broken => /\ mem.users[u].upid \in Ids /\ mem.ups[mem.users[u].upid] # NoRow
                                /\ mem.users[u].up = mem.ups[mem.users[u].upid]
    BY <2>1 DEF Inv, MemPart, SnapshotCoherent, Coherent
  <2>4. NoId \notin Ids
    BY DistinctIds DEF Ids
  <2> QED
    BY <2>1, <2>2, <2>3, <2>4 DEF MemRoute, DbRoute, UpOf, Follows
<1> QED
  BY <1>1, <1>2 DEF SameUser

\* With no request served, nobody owes the table anything: it is the database's.
LEMMA MatchesFromFollowing == Inv /\ Following /\ Fresh => TableMatchesDb
<1> SUFFICES ASSUME Inv, Following, Fresh, Quiet
             PROVE  /\ mem.ups = dbUp /\ mem.univ = dbUniv
                    /\ \A u \in Users :
                         /\ (mem.users[u] = NoUser) <=> (dbUser[u] = NoRow)
                         /\ dbUser[u] # NoRow => /\ mem.users[u].pwd = dbUser[u].pwd
                                                 /\ MemRoute(u) = DbRoute(u)
  BY DEF TableMatchesDb
<1>1. mem.ups = dbUp
  BY DEF Quiet, Active, Final, Fresh, WillList, HasListed
<1>2. mem.univ = dbUniv
  BY DEF Quiet, Active, Final, Following, Universal, ChangingUniv, HydratePcs
<1> QED
  BY <1>1, <1>2, QuietUsers

\* Whenever no request is being served the routing table is what Hydrate would
\* build from the database: users, passwords, routes, upstreams and the universal
\* password.  For handlers that rebuild or hydrate after they write (those that
\* do not are DELETE /keys and PATCH /upstreams), hydrate one at a time, and
\* proxies that come back under new ids.
THEOREM TableFollowsDatabase == ASSUME Serial, Rebuilding PROVE Spec => []TableMatchesDb
<1>1. Init => Fresh
  BY InitFresh
<1>2. Inv /\ Control /\ Following /\ Fresh /\ [Next]_vars => Fresh'
  BY NextFresh
<1> QED
  BY <1>1, <1>2, AlwaysFollowing, MatchesFromFollowing, PTL DEF Spec

-----------------------------------------------------------------------------
(* Every tunnel that goes stale is reached: an instance that does not hydrate. *)

Unhydrated == \A r \in Reqs : ~Hydrates(req[r].op)

\* The handlers an instance does not exercise are never at work.
EditKinds == {"patchManual", "deleteManual"}
Exercised(op) == op.kind \in EditKinds => op.kind \in Kinds

\* Only requests of the kinds of the instance are ever received.
LEMMA OpsExercised == ASSUME NEW op \in Ops PROVE Exercised(op)
BY DEF Ops, Operations, NoOp, Rebuild, Exercised, EditKinds

\* No client leaves midway, or none edits or deletes a manual proxy.
EditsComplete == MaxAborts = 0 \/ Kinds \cap EditKinds = {}

\* Two upstream rows that a tunnel cannot tell apart.
SameTuple(a, b) ==
  /\ (a = NoRow) <=> (b = NoRow)
  /\ a # NoRow => a.def = b.def

\* The handlers that edit or delete manual proxy i, and sweep its tunnels last.
Edits(q, i) == q.op.kind \in {"patchManual", "deleteManual"} /\ q.op.id = i
WillCapture(q, i) == Edits(q, i) /\ q.pc = "lock"
WillPublish(q, i) ==
  Edits(q, i) /\ (q.pc \in {"lock", "list"} \/ (HasListed(q) /\ SameTuple(q.local.ups[i], dbUp[i])))

\* The tuples of the published table and of a listing lag behind the database
\* only while the handler that changed the row has its rebuild ahead.
Listing(q) ==
  HasListed(q) =>
    /\ q.local.ups[Default] # NoRow
    /\ \A i \in Manual :
         /\ q.local.ups[i] # NoRow => i \in usedIds
         /\ \/ SameTuple(q.local.ups[i], dbUp[i])
            \/ \E p \in Reqs : WillCapture(req[p], i)
            \/ mem.ups[i] = NoRow /\ q.local.ups[i] = NoRow
Tabled ==
  \A i \in Manual :
    mem.ups[i] # NoRow =>
      /\ i \in usedIds
      /\ SameTuple(mem.ups[i], dbUp[i]) \/ \E p \in Reqs : WillPublish(req[p], i)
Edited == Unhydrated /\ UsedRows /\ Tabled /\ \A r \in Reqs : Listing(req[r])

\* A request moves and neither upstreams nor table change.
LEMMA EditedMoves ==
  ASSUME Edited, ReqPart, NEW r \in Reqs, NEW q, req' = [req EXCEPT ![r] = q],
         dbUp' = dbUp, usedIds' = usedIds, mem'.ups = mem.ups, ~Hydrates(q.op), Listing(q),
         \A i \in Manual : WillPublish(req[r], i) => WillPublish(q, i),
         \/ \A i \in Manual : WillCapture(req[r], i) => WillCapture(q, i)
         \/ /\ \A p \in Reqs \ {r} : ~HasListed(req[p])
            /\ HasListed(q) => \A i \in Manual : SameTuple(q.local.ups[i], dbUp[i])
  PROVE  Edited'
<1>1. req'[r] = q /\ \A p \in Reqs \ {r} : req'[p] = req[p]
  BY DEF ReqPart
<1>2. Unhydrated'
  BY <1>1 DEF Edited, Unhydrated
<1>3. Tabled'
  <2>1. \A p \in Reqs, i \in Manual : WillPublish(req[p], i) => WillPublish(req'[p], i)
    BY <1>1
  <2>2. \A p \in Reqs, i \in Manual : WillPublish(req'[p], i) => WillPublish(req[p], i)'
    BY DEF WillPublish
  <2> QED
    BY <2>1, <2>2 DEF Edited, Tabled
<1>4. ASSUME NEW p \in Reqs PROVE Listing(req[p])'
  <2> SUFFICES ASSUME HasListed(req'[p]) PROVE Listing(req[p])'
    BY DEF Listing, HasListed
  <2>1. Listing(req'[p])
    BY <1>1 DEF Edited
  <2>2. ASSUME NEW i \in Manual
        PROVE  \/ SameTuple(req'[p].local.ups[i], dbUp[i])
               \/ \E s \in Reqs : WillCapture(req'[s], i)
               \/ mem.ups[i] = NoRow /\ req'[p].local.ups[i] = NoRow
    <3>1. CASE \A j \in Manual : WillCapture(req[r], j) => WillCapture(q, j)
      BY <1>1, <2>1, <3>1 DEF Listing
    <3>2. CASE /\ \A s \in Reqs \ {r} : ~HasListed(req[s])
               /\ HasListed(q) => \A j \in Manual : SameTuple(q.local.ups[j], dbUp[j])
      BY <1>1, <3>2
    <3> QED
      BY <3>1, <3>2
  <2> QED
    BY <2>1, <2>2 DEF Listing, HasListed, WillCapture, Edits, SameTuple
<1> QED
  BY <1>2, <1>3, <1>4 DEF Edited, UsedRows

\* Only Lock and List move a rebuild, and whatever is listed is the database's.
LEMMA EditedPassive ==
  ASSUME Inv, Control, Edited, NEW r \in Reqs,
         \/ Check(r) \/ WriteRefused(r) \/ CloseByUpstream(r) \/ LockRefused(r)
         \/ Persist(r) \/ PersistRefused(r)
  PROVE  Edited'
<1>1. /\ ReqPart /\ dbUp' = dbUp /\ usedIds' = usedIds /\ mem'.ups = mem.ups
      /\ ~Hydrates(req[r].op) /\ ~Hydrates(NoOp) /\ StepKind(req[r])
  BY DEF Inv, Edited, Unhydrated, Control, Check, WriteRefused, CloseByUpstream, LockRefused,
     Persist, PersistRefused, memVars, dbVars, Hydrates, NoOp
<1>2. /\ req[r].pc \in {"lock", "list"} => IsRemap(req[r].op)
      /\ req[r].pc # "swap"
  BY DEF Check, WriteRefused, CloseByUpstream, LockRefused, UnknownInSnapshot, Persist,
     PersistRefused, At
<1>3. \A i \in Manual : ~WillPublish(req[r], i) /\ ~WillCapture(req[r], i)
  BY <1>2 DEF WillPublish, WillCapture, HasListed, Edits, IsRemap
<1>4. PICK q : req' = [req EXCEPT ![r] = q] /\ ~HasListed(q) /\ q.op \in {req[r].op, NoOp}
  <2>1. CASE Persist(r)
    <3> DEFINE q == [pc |-> "swap", op |-> req[r].op, local |-> req[r].local]
    <3>1. req' = [req EXCEPT ![r] = q] /\ q.op = req[r].op /\ IsRemap(req[r].op)
      BY <1>1, <2>1 DEF Persist, Keep, StepKind, At
    <3> HIDE DEF q
    <3>2. ~HasListed(q)
      BY <3>1 DEF HasListed, Rebuilds, RebuildKinds, IsRemap
    <3> QED
      BY <3>1, <3>2
  <2>2. CASE Check(r) \/ WriteRefused(r) \/ CloseByUpstream(r) \/ LockRefused(r)
             \/ PersistRefused(r)
    <3>1. PICK pc \in {"write", "lock", "err", "ok"} : Goto(r, pc)
      BY <2>2 DEF Check, WriteRefused, CloseByUpstream, LockRefused, PersistRefused, OnError
    <3> DEFINE q == Request(pc, req[r].op)
    <3>2. req' = [req EXCEPT ![r] = q] /\ q.pc = pc /\ q.op \in {req[r].op, NoOp}
      BY <3>1 DEF Goto, Request
    <3> HIDE DEF q
    <3>3. ~HasListed(q)
      BY <3>2 DEF HasListed
    <3> QED
      BY <3>2, <3>3
  <2> QED
    BY <2>1, <2>2
<1>5. ~Hydrates(q.op) /\ Listing(q)
  BY <1>1, <1>4 DEF Listing
<1> QED
  BY <1>1, <1>3, <1>4, <1>5, EditedMoves

\* A request arrives without a listing.
LEMMA EditedReceive ==
  ASSUME Inv, Edited, Kinds \cap HydratingKinds = {}, NEW r \in Reqs, NEW op \in Operations,
         Receive(r, op)
  PROVE  Edited'
<1> DEFINE q == Request(FirstStep(op), op)
<1>1. /\ ReqPart /\ dbUp' = dbUp /\ usedIds' = usedIds /\ mem'.ups = mem.ups
      /\ req' = [req EXCEPT ![r] = q] /\ req[r].pc = "idle"
  BY DEF Inv, Receive, At, memVars, dbVars
<1>2. q.pc \in {"check", "write", "lock", "ok"} /\ q.op \in {op, NoOp}
  BY DEF Request, FirstStep
<1>3. ~Hydrates(op) /\ ~Hydrates(NoOp)
  BY NoHydration DEF Hydrates, NoOp
<1> HIDE DEF q
<1>4. ~Hydrates(q.op) /\ ~HasListed(q) /\ Listing(q)
  BY <1>2, <1>3 DEF HasListed, Listing
<1>5. \A i \in Manual : ~WillPublish(req[r], i) /\ ~WillCapture(req[r], i)
  BY <1>1 DEF WillPublish, WillCapture, HasListed
<1> QED
  BY <1>1, <1>4, <1>5, EditedMoves

\* A rebuild that has published and cancelled owes the manual proxies nothing.
LEMMA EditedCancel == ASSUME Inv, Edited, NEW r \in Reqs, CancelOld(r) PROVE Edited'
<1> DEFINE op == req[r].op
           q == Request(AfterRebuild(op), IF op.kind = "syncKey" THEN Rebuild ELSE op)
<1>1. /\ ReqPart /\ dbUp' = dbUp /\ usedIds' = usedIds /\ mem'.ups = mem.ups
      /\ req' = [req EXCEPT ![r] = q] /\ req[r].pc = "cancel" /\ ~Hydrates(op)
  BY DEF Inv, CancelOld, At, dbVars, Edited, Unhydrated
<1>2. q.pc \in {"lock", "closeUpstream", "ok"} /\ q.op \in {op, NoOp, Rebuild}
  BY DEF Request, AfterRebuild
<1>3. ~Hydrates(Rebuild) /\ ~Hydrates(NoOp)
  BY DEF Hydrates, Rebuild, NoOp
<1> HIDE DEF q
<1>4. ~Hydrates(q.op) /\ ~HasListed(q) /\ Listing(q)
  BY <1>1, <1>2, <1>3 DEF HasListed, Listing
<1>5. \A i \in Manual : ~WillPublish(req[r], i) /\ ~WillCapture(req[r], i)
  BY <1>1 DEF WillPublish, WillCapture, HasListed
<1> QED
  BY <1>1, <1>4, <1>5, EditedMoves

\* Whoever captures the table finds no listing that is yet to be published.
LEMMA EditedLock == ASSUME Inv, Control, Edited, NEW r \in Reqs, Lock(r) PROVE Edited'
<1> DEFINE q == [pc |-> IF IsRemap(req[r].op) THEN "persist" ELSE "list", op |-> req[r].op,
                 local |-> [cur |-> mem]]
<1>1. /\ ReqPart /\ dbUp' = dbUp /\ usedIds' = usedIds /\ mem'.ups = mem.ups
      /\ req' = [req EXCEPT ![r] = q] /\ req[r].pc = "lock" /\ ~Hydrates(req[r].op)
  BY DEF Inv, Lock, Keep, At, dbVars, memVars, Edited, Unhydrated
<1>2. q.pc \in {"persist", "list"} /\ q.op = req[r].op /\ (~IsRemap(q.op) => q.pc = "list")
  OBVIOUS
<1> HIDE DEF q
<1>3. ~HasListed(q) /\ Listing(q) /\ ~Hydrates(q.op)
  BY <1>1, <1>2 DEF HasListed, Listing
<1>4. \A i \in Manual : WillPublish(req[r], i) => WillPublish(q, i)
  BY <1>1, <1>2 DEF WillPublish, Edits, IsRemap
<1>5. \A p \in Reqs \ {r} : ~HasListed(req[p])
  BY HotSwitchAssumption DEF HotSwitchAssumption, Lock, Control, Mutexed, HeldPcs, HasListed
<1> QED
  BY <1>1, <1>3, <1>4, <1>5, EditedMoves

\* A listing is the database's upstreams, of the moment it is taken.
LEMMA EditedList == ASSUME Inv, Edited, NEW r \in Reqs, List(r) PROVE Edited'
<1> DEFINE q == [pc |-> "swap", op |-> req[r].op,
                 local |-> [cur |-> req[r].local.cur, ups |-> dbUp]]
<1>1. /\ ReqPart /\ dbUp' = dbUp /\ usedIds' = usedIds /\ mem'.ups = mem.ups
      /\ req' = [req EXCEPT ![r] = q] /\ req[r].pc = "list" /\ ~Hydrates(req[r].op)
  BY DEF Inv, List, Keep, At, dbVars, memVars, Edited, Unhydrated
<1>2. q.pc = "swap" /\ q.op = req[r].op /\ q.local.ups = dbUp
  OBVIOUS
<1> HIDE DEF q
<1>3. Listing(q) /\ ~Hydrates(q.op)
  BY <1>1, <1>2 DEF Listing, SameTuple, Inv, DbPart, DbConsistent, Edited, UsedRows, Ids
<1>4. \A i \in Manual : WillPublish(req[r], i) => WillPublish(q, i)
  <2>1. \A i \in Manual : Edits(req[r], i) => Edits(q, i) /\ HasListed(q)
    BY <1>2 DEF Edits, HasListed, Rebuilds, RebuildKinds
  <2> QED
    BY <1>2, <2>1 DEF WillPublish, SameTuple
<1>5. \A i \in Manual : ~WillCapture(req[r], i)
  BY <1>1 DEF WillCapture
<1> QED
  BY <1>1, <1>3, <1>4, <1>5, EditedMoves

\* A write that changes the tuple of a manual proxy is its editor's; one that
\* adds a row takes an id that no table has.
LEMMA EditedWrite ==
  ASSUME Inv, Control, Edited, NEW r \in Reqs, Write(r) PROVE Edited'
<1> DEFINE op == req[r].op
           q == Request(AfterWrite(op), op)
<1>1. /\ ReqPart /\ DbWrite(op) /\ mem' = mem /\ req[r].pc = "write" /\ op \in Ops
      /\ req'[r] = q /\ \A p \in Reqs \ {r} : req'[p] = req[p]
      /\ ~Hydrates(op) /\ ~Hydrates(NoOp) /\ dbUp \in UpTable /\ Manual \subseteq Ids
  BY RequestFacts DEF Inv, ReqPart, Write, Goto, At, memVars, Edited, Unhydrated, Hydrates, NoOp,
     DbPart, DbTypes, Ids
<1>2. IsRemap(op) => op.pwd # Absent
  BY <1>1, RequestFacts DEF RequestOK
<1>3. op.kind \in {"addManual", "patchManual", "deleteManual", "syncKey", "syncTick", "deleteKey",
                   "patchUpstream"}
  BY <1>1, <1>2 DEF DbWrite, WriteUser, WriteUniversal, WriteManual, SyncTx, DeleteKeyTx,
     RenameUpstream, Hydrates, IsRemap
<1>4. /\ q.pc \in {"lock", "ok"} /\ q.op \in {op, NoOp}
      /\ op.kind \in {"patchManual", "deleteManual"} => q.pc = "lock" /\ q.op = op
  <2> HIDE DEF op
  <2> QED
    BY <1>3 DEF Request, AfterWrite, RebuildKinds, Final
<1> HIDE DEF q
<1>5. Unhydrated'
  BY <1>1, <1>4 DEF Edited, Unhydrated
<1>6. UsedRows' /\ usedIds \subseteq usedIds'
  <2>1. usedIds \subseteq usedIds' /\ \A i \in Ids : dbUp'[i] # NoRow => i \in usedIds'
    <3>1. CASE WriteManual(op)
      BY <1>1, <3>1 DEF WriteManual, UpTable, Edited, UsedRows
    <3>2. CASE SyncTx(op)
      <4> DEFINE known == {i \in Webshare : dbUp[i] # NoRow}
                 new(listed) == listed \ known
                 kept(listed) == {dbUp[i].name : i \in known \cap listed}
      <4>1. PICK listed \in SUBSET Webshare :
              /\ \E remote \in [listed -> Defs], name \in [new(listed) -> Names \ kept(listed)] :
                   /\ \A i, j \in new(listed) : i # j => name[i] # name[j]
                   /\ dbUp' = [i \in Ids |->
                        IF i \notin Webshare THEN dbUp[i]
                        ELSE IF i \notin listed THEN NoRow
                        ELSE [def |-> remote[i],
                              name |-> IF i \in new(listed) THEN name[i] ELSE dbUp[i].name]]
              /\ usedIds' = usedIds \cup listed
        BY <3>2, Zenon DEF SyncTx
      <4>2. \A i \in Ids : /\ i \notin Webshare => dbUp'[i] = dbUp[i]
                           /\ i \in Webshare \ listed => dbUp'[i] = NoRow
        BY <4>1
      <4> QED
        BY <4>1, <4>2 DEF Edited, UsedRows
    <3>3. CASE DeleteKeyTx(op)
      BY <3>3 DEF DeleteKeyTx, Edited, UsedRows
    <3>4. CASE RenameUpstream(op)
      BY <1>1, <3>4 DEF RenameUpstream, UpTable, Edited, UsedRows
    <3> QED
      BY <1>1, <1>3, <3>1, <3>2, <3>3, <3>4 DEF DbWrite, WriteUser, WriteUniversal, Hydrates
  <2> QED
    BY <2>1 DEF UsedRows
<1>7. ASSUME NEW i \in Manual
      PROVE  SameTuple(dbUp'[i], dbUp[i]) \/ WillCapture(q, i) \/ i \notin usedIds
  <2>1. CASE WriteManual(op)
    <3>1. CASE op.kind = "addManual"
      <4>1. PICK id \in Manual \ usedIds :
              dbUp' = [dbUp EXCEPT ![id] = [def |-> op.def, name |-> op.name]]
        BY <2>1, <3>1 DEF WriteManual
      <4> QED
        BY <1>1, <4>1 DEF UpTable, SameTuple
    <3>2. CASE op.kind \in {"patchManual", "deleteManual"}
      <4>1. i # op.id => dbUp'[i] = dbUp[i]
        BY <1>1, <2>1, <3>2 DEF WriteManual, UpTable
      <4> QED
        BY <1>4, <3>2, <4>1 DEF SameTuple, WillCapture, Edits
    <3> QED
      BY <2>1, <3>1, <3>2 DEF WriteManual
  <2>2. CASE SyncTx(op)
    <3>1. dbUp'[i] = dbUp[i]
      <4>1. i \notin Webshare /\ i \in Ids
        BY DistinctIds DEF Ids
      <4> QED
        BY <2>2, <4>1 DEF SyncTx
    <3> QED
      BY <3>1 DEF SameTuple
  <2>3. CASE DeleteKeyTx(op)
    BY <1>1, <2>3, DistinctIds DEF DeleteKeyTx, SameTuple
  <2>4. CASE RenameUpstream(op)
    <3>1. CASE i = op.id
      <4>1. dbUp[i] \in Row /\ dbUp'[i] = [dbUp[i] EXCEPT !.name = op.name] /\ dbUp[i] # NoRow
        BY <1>1, <2>4, <3>1 DEF RenameUpstream, UpTable
      <4>2. op.name \in Names \cup {NoName}
        BY <1>1, <2>4, OpFields DEF RenameUpstream
      <4>3. dbUp'[i] \in Row /\ dbUp'[i].def = dbUp[i].def
        BY <4>1, <4>2 DEF Row
      <4> QED
        BY <4>1, <4>3, NoValueClash DEF SameTuple
    <3>2. CASE i # op.id
      BY <1>1, <2>4, <3>2 DEF RenameUpstream, UpTable, SameTuple
    <3> QED
      BY <3>1, <3>2
  <2> QED
    BY <1>1, <1>3, <2>1, <2>2, <2>3, <2>4 DEF DbWrite, WriteUser, WriteUniversal, Hydrates
<1> HIDE DEF op
<1>8. Tabled'
  <2> SUFFICES ASSUME NEW i \in Manual, mem.ups[i] # NoRow
               PROVE  /\ i \in usedIds
                      /\ SameTuple(mem.ups[i], dbUp'[i]) \/ \E p \in Reqs : WillPublish(req[p], i)'
    BY <1>1, <1>6 DEF Tabled, SameTuple, WillPublish
  <2>1. i \in usedIds /\ (SameTuple(mem.ups[i], dbUp[i]) \/ \E p \in Reqs : WillPublish(req[p], i))
    BY DEF Edited, Tabled
  <2>2. CASE WillCapture(q, i)
    BY <1>1, <2>1, <2>2 DEF WillCapture, WillPublish, Edits
  <2>3. CASE SameTuple(dbUp'[i], dbUp[i])
    <3>1. ~WillPublish(req[r], i)
      BY <1>1 DEF WillPublish, HasListed
    <3>2. \A p \in Reqs \ {r} : WillPublish(req[p], i) => WillPublish(req[p], i)'
      BY <1>1, <2>3 DEF WillPublish, HasListed, Edits, SameTuple
    <3> QED
      BY <2>1, <2>3, <3>1, <3>2 DEF SameTuple
  <2> QED
    BY <1>7, <2>1, <2>2, <2>3
<1>9. ASSUME NEW p \in Reqs PROVE Listing(req[p])'
  <2> SUFFICES ASSUME HasListed(req'[p]), p # r PROVE Listing(req[p])'
    BY <1>1, <1>4 DEF Listing, HasListed
  <2>1. req'[p] = req[p] /\ Listing(req[p]) /\ HasListed(req[p])
    BY <1>1 DEF Edited
  <2>2. ASSUME NEW i \in Manual
        PROVE  /\ req[p].local.ups[i] # NoRow => i \in usedIds'
               /\ \/ SameTuple(req[p].local.ups[i], dbUp'[i])
                  \/ \E s \in Reqs : WillCapture(req'[s], i)
                  \/ mem.ups[i] = NoRow /\ req[p].local.ups[i] = NoRow
    <3>1. /\ req[p].local.ups[i] # NoRow => i \in usedIds
          /\ \/ SameTuple(req[p].local.ups[i], dbUp[i])
             \/ \E s \in Reqs : WillCapture(req[s], i)
             \/ mem.ups[i] = NoRow /\ req[p].local.ups[i] = NoRow
      BY <2>1 DEF Listing
    <3>2. \A s \in Reqs : WillCapture(req[s], i) => WillCapture(req'[s], i)
      BY <1>1 DEF WillCapture
    <3>3. CASE SameTuple(dbUp'[i], dbUp[i])
      BY <1>6, <3>1, <3>2, <3>3 DEF SameTuple
    <3>4. CASE WillCapture(q, i)
      BY <1>1, <1>6, <3>1, <3>4
    <3>5. CASE i \notin usedIds
      BY <1>6, <3>1, <3>5 DEF Edited, Tabled
    <3> QED
      BY <1>7, <3>3, <3>4, <3>5
  <2> QED
    BY <1>1, <2>1, <2>2 DEF Listing, HasListed, WillCapture, Edits, SameTuple
<1> QED
  BY <1>5, <1>6, <1>8, <1>9 DEF Edited

\* Under the mutex a listing is published that lags behind the database only
\* where its editor is still to capture the table.
LEMMA EditedSwap == ASSUME Inv, Control, Edited, NEW r \in Reqs, Swap(r) PROVE Edited'
<1> DEFINE op == req[r].op
           l == req[r].local
           q == [pc |-> "cancel", op |-> op, local |-> [cur |-> l.cur, victims |-> Victims(op, l)]]
<1>1. /\ ReqPart /\ req' = [req EXCEPT ![r] = q] /\ req[r].pc = "swap" /\ ~Hydrates(op)
      /\ dbUp' = dbUp /\ usedIds' = usedIds /\ StepKind(req[r])
      /\ mem' = IF IsRemap(op) THEN SwappedState(l.cur, op.user, op.map, gen + 1)
                ELSE RebuiltState(l.cur, l.ups, Victims(op, l), gen + 1)
  BY DEF Inv, Swap, Keep, dbVars, At, Edited, Unhydrated, Control
<1>2. q.pc = "cancel" /\ q.op = op
  OBVIOUS
<1>3. l.cur = mem /\ mu = r /\ mem \in RoutingState
  BY <1>1, HotSwitchAssumption DEF Control, Captured, Mutexed, HeldPcs, Inv, MemPart, MemTypes
<1> HIDE DEF q
<1>4. ~HasListed(q) /\ Listing(q)
  BY <1>2 DEF HasListed, Listing
<1>5. CASE IsRemap(op)
  <2>1. mem'.ups = mem.ups
    BY <1>1, <1>3, <1>5 DEF SwappedState, RoutingState
  <2>2. \A i \in Manual : ~WillPublish(req[r], i) /\ ~WillCapture(req[r], i)
    BY <1>1, <1>5 DEF WillPublish, WillCapture, Edits, IsRemap
  <2> QED
    BY <1>1, <1>2, <1>4, <2>1, <2>2, EditedMoves
<1>6. CASE ~IsRemap(op)
  <2>1. mem'.ups = l.ups /\ HasListed(req[r])
    BY <1>1, <1>6 DEF RebuiltState, HasListed, StepKind
  <2>2. req'[r] = q /\ \A p \in Reqs \ {r} : req'[p] = req[p]
    BY <1>1 DEF ReqPart
  <2>3. \A p \in Reqs : ~HasListed(req'[p])
    BY <1>3, <1>4, <2>2 DEF Control, Mutexed, HeldPcs, HasListed
  <2>4. Unhydrated' /\ UsedRows'
    BY <1>1, <1>2, <2>2 DEF Edited, Unhydrated, UsedRows
  <2>5. ASSUME NEW i \in Manual, l.ups[i] # NoRow
        PROVE  /\ i \in usedIds
               /\ SameTuple(l.ups[i], dbUp[i]) \/ \E p \in Reqs : WillPublish(req'[p], i)
    <3>1. /\ i \in usedIds
          /\ SameTuple(l.ups[i], dbUp[i]) \/ \E p \in Reqs : WillCapture(req[p], i)
      BY <2>1, <2>5 DEF Edited, Listing
    <3>2. \A p \in Reqs : WillCapture(req[p], i) => WillPublish(req'[p], i)
      BY <1>1, <2>2 DEF WillCapture, WillPublish
    <3> QED
      BY <3>1, <3>2
  <2> HIDE DEF l
  <2>6. Tabled'
    <3>1. \A p \in Reqs, i \in Manual : WillPublish(req'[p], i) => WillPublish(req[p], i)'
      BY <1>1 DEF WillPublish
    <3>2. ASSUME NEW i \in Manual, mem'.ups[i] # NoRow
          PROVE  /\ i \in usedIds'
                 /\ SameTuple(mem'.ups[i], dbUp'[i]) \/ \E p \in Reqs : WillPublish(req[p], i)'
      BY <1>1, <2>1, <2>5, <3>1, <3>2
    <3> QED
      BY <3>2 DEF Tabled, SameTuple
  <2>7. \A p \in Reqs : Listing(req[p])'
    BY <2>3 DEF Listing, HasListed
  <2> QED
    BY <2>4, <2>6, <2>7 DEF Edited
<1> QED
  BY <1>5, <1>6

\* A table that is the database's and no rebuild at work.
LEMMA EditedAfresh ==
  ASSUME Unhydrated, UsedRows, mem.ups = dbUp, \A p \in Reqs : ~HasListed(req[p])
  PROVE  Edited
BY DEF Edited, Tabled, Listing, SameTuple, UsedRows, Ids

\* A boot hydrates the manual proxies of the database.
LEMMA EditedRestart == ASSUME Edited, Restart PROVE Edited'
<1>1. dbUp' = dbUp /\ usedIds' = usedIds /\ mem'.ups = dbUp /\ \A p \in Reqs : ~HasListed(req'[p])
  BY DEF Restart, dbVars, HydratedState, HasListed, Active, Request, Final
<1>2. Unhydrated' /\ UsedRows'
  BY <1>1 DEF Restart, Edited, Unhydrated, UsedRows, Request, Final, NoOp, Hydrates
<1> QED
  BY <1>1, <1>2 DEF Edited, Tabled, Listing, SameTuple, UsedRows, Ids, HasListed

\* A connection's steps edit no proxy.
LEMMA EditedUnchanged == Edited /\ UNCHANGED <<dbVars, mem, req>> => Edited'
BY DEF Edited, Unhydrated, UsedRows, Tabled, Listing, HasListed, WillCapture, WillPublish, Edits,
   SameTuple, dbVars

\* So does the first one.
LEMMA InitEdited == ASSUME Init PROVE Edited
BY EditedAfresh DEF Init, InitDb, Boot, Idle, NoOp, HydratedState, Unhydrated, Hydrates, UsedRows,
   HasListed

\* Who leaves midway is not the editor of a manual proxy.
LEMMA AbortFacts ==
  ASSUME Inv, EditsComplete, NEW r \in Reqs, Abort(r)
  PROVE  /\ ReqPart /\ req' = [req EXCEPT ![r] = Request("err", req[r].op)]
         /\ dbVars' = dbVars /\ mem' = mem /\ gen' = gen /\ cancelled' = cancelled
         /\ conn' = conn
         /\ req[r].pc \notin {"lock", "swap", "cancel", "closeUpstream"}
         /\ req[r].op.kind \notin EditKinds
<1>1. Kinds \cap EditKinds = {}
  BY DEF Abort, Inv, BoundPart, EditsComplete
<1>2. Exercised(req[r].op)
  BY RequestFacts, OpsExercised DEF Inv
<1>3. req[r].op.kind \notin EditKinds
  BY <1>1, <1>2 DEF Exercised
<1> QED
  BY <1>3 DEF Inv, Abort, Goto, memVars

\* It owes the manual proxies nothing.
LEMMA EditedAbort ==
  ASSUME Inv, Edited, EditsComplete, NEW r \in Reqs, Abort(r) PROVE Edited'
<1> DEFINE q == Request("err", req[r].op)
<1>1. /\ ReqPart /\ dbUp' = dbUp /\ usedIds' = usedIds /\ mem'.ups = mem.ups
      /\ req' = [req EXCEPT ![r] = q] /\ req[r].op.kind \notin EditKinds
  BY AbortFacts DEF dbVars
<1>2. q.pc = "err" /\ ~Hydrates(q.op)
  BY DEF Request, Final, NoOp, Hydrates
<1> HIDE DEF q
<1>3. ~HasListed(q) /\ Listing(q)
  BY <1>2 DEF HasListed, Listing
<1>4. \A i \in Manual : ~WillPublish(req[r], i) /\ ~WillCapture(req[r], i)
  BY <1>1 DEF WillPublish, WillCapture, Edits, EditKinds
<1> QED
  BY <1>1, <1>2, <1>3, <1>4, EditedMoves

\* Every step keeps the manual proxies' tuples current or their editor's rebuild ahead.

LEMMA NextEdited ==
  ASSUME Inv, Control, Edited, Kinds \cap HydratingKinds = {}, EditsComplete, [Next]_vars
  PROVE  Edited'
<1>1. ASSUME NEW r \in Reqs, HandlerStep(r) PROVE Edited'
  <2>1. ~(CloseByUsername(r) \/ HydrateUps(r) \/ HydrateUsers(r) \/ HydrateUniv(r)
         \/ HydrateSwap(r))
    BY DEF Edited, Unhydrated, Control, StepKind, HydratePcs, CloseByUsername, HydrateUps,
       HydrateUsers, HydrateUniv, HydrateSwap, At
  <2>2. CASE \/ Check(r) \/ WriteRefused(r) \/ CloseByUpstream(r) \/ LockRefused(r)
             \/ Persist(r) \/ PersistRefused(r)
    BY <2>2, EditedPassive
  <2> QED
    BY <1>1, <2>1, <2>2, EditedWrite, EditedLock, EditedList, EditedSwap, EditedCancel
       DEF HandlerStep
<1>2. ASSUME NEW r \in Reqs, NEW op \in Operations, Receive(r, op) PROVE Edited'
  BY <1>2, EditedReceive
<1>3. ASSUME NEW r \in Reqs, Abort(r) PROVE Edited'
  BY <1>3, EditedAbort
<1>4. ASSUME NEW c \in Conns,
             \/ \E login \in Users \cup Names, pwd \in Passwords : Acquire(c, login, pwd)
             \/ Register(c) \/ HandshakeFails(c) \/ PeerEnds(c) \/ TornDown(c)
      PROVE  Edited'
  BY <1>4, EditedUnchanged DEF Acquire, Register, HandshakeFails, PeerEnds, TornDown, memVars
<1>5. CASE Restart
  BY <1>5, EditedRestart
<1>6. CASE UNCHANGED vars
  BY <1>6, EditedUnchanged DEF vars, memVars
<1> QED
  BY <1>1, <1>2, <1>3, <1>4, <1>5, <1>6 DEF Next

\* What a tunnel k was granted is what the table state routes it through; an
\* edit may have left it behind.
RoutedIn(state, k) ==
  IF k.cg = NameGroup
  THEN k.id \in Manual => state.ups[k.id] # NoRow /\ state.ups[k.id].def = k.def
  ELSE /\ k.login \in Users /\ state.users[k.login] # NoUser
       /\ state.users[k.login].upid = k.id
       /\ IF state.users[k.login].broken
          THEN "patchManual" \in Kinds /\ k.id \in Webshare /\ state.ups[k.id] = NoRow
          ELSE k.id \in Manual => state.users[k.login].up.def = k.def

\* The handlers that are still to close tunnel k.
Sweeps(q, k) ==
  \/ q.pc = "cancel" /\ k.login \in q.local.victims
     /\ k.id = q.local.cur.users[k.login].upid
  \/ Edits(q, k.id) /\ q.pc \in {"lock", "list", "swap", "cancel", "closeUpstream"}

\* A tunnel granted by the published table is routed; one that registered
\* while the table it was granted by was published is routed, cut, or due.
Numbered == mem.ver = gen /\ \A c \in Conns : conn[c].ver <= gen
Reached(c) ==
  /\ conn[c].pc = "acquired" /\ conn[c].ver = mem.ver => RoutedIn(mem, conn[c])
  /\ Live(c) /\ conn[c].regVer <= conn[c].ver /\ ~Cut(c) =>
       RoutedIn(mem, conn[c]) \/ \E p \in Reqs : Sweeps(req[p], conn[c])
Tunnels == Numbered /\ \A c \in Conns : Reached(c)

\* A remap moves its own user only.
LEMMA SwappedRoutes ==
  ASSUME NEW cur \in RoutingState, NEW u \in Users, NEW id, NEW g, NEW k, RoutedIn(cur, k)
  PROVE  RoutedIn(SwappedState(cur, u, id, g), k) \/ (k.login = u /\ k.id = cur.users[u].upid)
<1> DEFINE state == SwappedState(cur, u, id, g)
<1>1. state.ups = cur.ups /\ \A v \in Users \ {u} : state.users[v] = cur.users[v]
  BY DEF SwappedState, RoutingState
<1> HIDE DEF state
<1>2. k.cg = NameGroup \/ k.login # u => RoutedIn(state, k)
  BY <1>1 DEF RoutedIn
<1>3. k.cg # NameGroup /\ k.login = u => k.id = cur.users[u].upid
  BY DEF RoutedIn
<1> QED
  BY <1>2, <1>3 DEF state

\* A rebuild routes a tunnel as before, unless the tuple of its manual proxy
\* changed or the upstream of its user is gone.
LEMMA RebuiltRoutes ==
  ASSUME NEW cur \in RoutingState, Coherent(cur), NEW ups \in UpTable, ups[Default] # NoRow,
         NEW victims, NEW g \in Nat, NEW k, RoutedIn(cur, k)
  PROVE  \/ RoutedIn(RebuiltState(cur, ups, victims, g), k)
         \/ k.id \in Manual /\ cur.ups[k.id] # NoRow /\ ~SameTuple(ups[k.id], cur.ups[k.id])
         \/ /\ k.login \in Users /\ NewlyBroken(cur, ups, k.login)
            /\ k.id = cur.users[k.login].upid /\ "patchManual" \notin Kinds
<1> DEFINE state == RebuiltState(cur, ups, victims, g)
           ru == cur.users[k.login]
           new == state.users[k.login]
<1>1. state.ups = ups
  BY DEF RebuiltState
<1>2. CASE k.cg = NameGroup
  <2>1. RoutedIn(state, k) \/ (k.id \in Manual /\ cur.ups[k.id] # NoRow
                               /\ ~SameTuple(ups[k.id], cur.ups[k.id]))
    <3> HIDE DEF state
    <3> QED
      BY <1>1, <1>2 DEF RoutedIn, SameTuple
  <2> QED
    BY <2>1
<1>3. CASE k.cg # NameGroup
  <2>1. k.login \in Users /\ ru # NoUser /\ ru.upid = k.id
    BY <1>3 DEF RoutedIn
  <2>2. /\ new # NoUser /\ new.upid = k.id /\ new.up = UpOf(ups, k.id)
        /\ new.broken = (UpOf(ups, k.id) = NoRow)
    BY <2>1, RebuiltFacts
  <2>3. ~ru.broken => k.id \in Ids /\ cur.ups[k.id] # NoRow /\ ru.up = cur.ups[k.id]
    BY <2>1 DEF Coherent
  <2>4. k.id \in Ids => UpOf(ups, k.id) = ups[k.id]
    BY DistinctIds DEF UpOf, Ids
  <2>5. k.id \in Ids => k.id \in Manual \/ k.id \in Webshare \/ k.id = Default
    BY DEF Ids
  <2>6. Webshare \subseteq Ids /\ Webshare \cap Manual = {}
    BY DistinctIds DEF Ids
  <2> HIDE DEF state, new, ru
  <2>7. CASE new.broken /\ ru.broken
    <3>1. "patchManual" \in Kinds /\ k.id \in Webshare
      BY <1>3, <2>7 DEF RoutedIn, ru
    <3>2. RoutedIn(state, k)
      BY <1>1, <1>3, <2>1, <2>2, <2>4, <2>6, <2>7, <3>1 DEF RoutedIn, new
    <3> QED
      BY <3>2 DEF state
  <2>8. CASE new.broken /\ ~ru.broken
    <3>1. NewlyBroken(cur, ups, k.login)
      BY <2>1, <2>2, <2>8 DEF NewlyBroken, ru
    <3>2. ups[k.id] = NoRow /\ k.id # Default
      BY <2>2, <2>3, <2>4, <2>8
    <3>3. CASE k.id \in Manual
      BY <2>3, <2>8, <3>2, <3>3 DEF SameTuple
    <3>4. CASE k.id \in Webshare /\ "patchManual" \in Kinds
      <4>1. RoutedIn(state, k)
        BY <1>1, <1>3, <2>1, <2>2, <2>8, <3>2, <3>4 DEF RoutedIn, new
      <4> QED
        BY <4>1 DEF state
    <3>5. CASE "patchManual" \notin Kinds
      BY <2>1, <3>1, <3>5 DEF ru
    <3> QED
      BY <2>3, <2>5, <2>8, <3>2, <3>3, <3>4, <3>5
  <2>9. CASE ~new.broken
    <3>1. k.id \in Manual =>
            \/ cur.ups[k.id] # NoRow /\ ~SameTuple(ups[k.id], cur.ups[k.id])
            \/ new.up.def = k.def
      <4> SUFFICES ASSUME k.id \in Manual, SameTuple(ups[k.id], cur.ups[k.id])
                          \/ cur.ups[k.id] = NoRow
                   PROVE  new.up.def = k.def
        OBVIOUS
      <4>1. k.id \in Ids
        BY DEF Ids
      <4>2. ~ru.broken
        BY <1>3, <2>6 DEF RoutedIn, ru
      <4>3. ru.up.def = k.def
        BY <1>3, <4>2 DEF RoutedIn, ru
      <4> QED
        BY <2>2, <2>3, <2>4, <2>9, <4>1, <4>2, <4>3 DEF SameTuple
    <3>2. new.up.def = k.def \/ k.id \notin Manual => RoutedIn(state, k)
      BY <1>3, <2>1, <2>2, <2>9 DEF RoutedIn, new
    <3> QED
      BY <3>1, <3>2 DEF state
  <2> QED
    BY <2>7, <2>8, <2>9
<1> QED
  BY <1>2, <1>3

\* What a snapshot grants, it routes.
LEMMA GrantRouted ==
  ASSUME NEW state \in RoutingState, Coherent(state), NEW login, NEW pwd,
         NEW g \in AcquireGrant(state, login, pwd), NEW k,
         k.login = login, k.id = g.id, k.def = g.def, k.cg = g.cg
  PROVE  RoutedIn(state, k)
<1>1. CASE UserMatch(state, login, pwd)
  <2> DEFINE ru == state.users[login]
  <2>1. login \in Users /\ ru \in ResolvedUser /\ ru # NoUser
    BY <1>1 DEF UserMatch, RoutingState
  <2>2. g = [id |-> ru.upid, def |-> ru.up.def, cg |-> ru.cg] /\ ~ru.broken
    BY <1>1 DEF AcquireGrant
  <2>3. ru.cg # NameGroup
    BY <2>1, NoValueClash DEF ResolvedUser
  <2> HIDE DEF ru
  <2>4. k.id = ru.upid /\ k.def = ru.up.def /\ k.cg # NameGroup
    BY <2>2, <2>3
  <2> QED
    BY <2>1, <2>2, <2>4 DEF RoutedIn, ru
<1>2. CASE ~UserMatch(state, login, pwd)
  <2>1. PICK i \in DisplayNameRoute(state.ups, login) :
          g = [id |-> i, def |-> state.ups[i].def, cg |-> NameGroup]
    BY <1>2 DEF AcquireGrant
  <2>2. k.id = i /\ k.def = state.ups[i].def /\ k.cg = NameGroup /\ state.ups[i] # NoRow
    BY <2>1 DEF DisplayNameRoute
  <2> QED
    BY <2>2 DEF RoutedIn
<1> QED
  BY <1>1, <1>2

\* A request moves and still sweeps what it was to sweep.
LEMMA TunnelsMoves ==
  ASSUME Tunnels, ReqPart, NEW r \in Reqs, NEW q, req' = [req EXCEPT ![r] = q],
         mem' = mem, gen' = gen, conn' = conn, cancelled' = cancelled,
         \A c \in Conns : Sweeps(req[r], conn[c]) => Sweeps(q, conn[c])
  PROVE  Tunnels'
<1>1. \A p \in Reqs, c \in Conns : Sweeps(req[p], conn[c]) => Sweeps(req'[p], conn'[c])
  BY DEF ReqPart
<1>2. Numbered'
  BY DEF Tunnels, Numbered
<1>3. \A c \in Conns : Reached(c)'
  BY <1>1 DEF Tunnels, Reached, Live, Cut
<1> QED
  BY <1>2, <1>3 DEF Tunnels

\* The steps that close nothing and publish nothing.
LEMMA TunnelsPassive ==
  ASSUME Inv, Control, Tunnels, NEW r \in Reqs,
         \/ \E op \in Operations : Receive(r, op)
         \/ Check(r) \/ Write(r) \/ WriteRefused(r) \/ LockRefused(r) \/ Persist(r)
         \/ PersistRefused(r)
  PROVE  Tunnels'
<1>1. /\ ReqPart /\ mem' = mem /\ gen' = gen /\ conn' = conn /\ cancelled' = cancelled
      /\ req[r].pc \in {"idle", "check", "write", "lock", "persist"}
      /\ req[r].pc = "lock" => IsRemap(req[r].op)
  BY DEF Inv, Receive, Check, Write, WriteRefused, LockRefused, UnknownInSnapshot, Persist,
     PersistRefused, memVars, At
<1>2. \A c \in Conns : ~Sweeps(req[r], conn[c])
  BY <1>1 DEF Sweeps, Edits, IsRemap
<1>3. \E q : req' = [req EXCEPT ![r] = q]
  BY DEF Receive, Check, Write, WriteRefused, LockRefused, Persist, PersistRefused, Goto, Keep
<1> QED
  BY <1>1, <1>2, <1>3, TunnelsMoves

\* Capturing the table, persisting and listing, under the mutex, close no tunnel.
LEMMA TunnelsHeld ==
  ASSUME Inv, Tunnels, NEW r \in Reqs, Lock(r) \/ List(r) PROVE Tunnels'
<1>1. /\ ReqPart /\ mem' = mem /\ gen' = gen /\ conn' = conn /\ cancelled' = cancelled
      /\ req[r].pc \in {"lock", "list"}
  BY DEF Inv, Lock, List, memVars, At
<1>2. PICK pc, local : /\ Keep(r, pc, local) /\ pc \in {"persist", "list", "swap"}
                       /\ ~IsRemap(req[r].op) => pc \in {"list", "swap"}
  BY DEF Lock, List
<1> DEFINE q == [pc |-> pc, op |-> req[r].op, local |-> local]
<1>3. req' = [req EXCEPT ![r] = q] /\ q.pc = pc /\ q.op = req[r].op
  BY <1>2 DEF Keep
<1> HIDE DEF q
<1>4. \A c \in Conns : Sweeps(req[r], conn[c]) => Sweeps(q, conn[c])
  BY <1>1, <1>2, <1>3 DEF Sweeps, Edits, IsRemap
<1> QED
  BY <1>1, <1>3, <1>4, TunnelsMoves

\* Closing the tunnels of C.
LEMMA CutFacts ==
  ASSUME ConnPart, NEW C, CutThose(C), NEW c \in Conns
  PROVE  \/ conn'[c] = conn[c] /\ ~(Live(c) /\ c \in C)
         \/ /\ Live(c) /\ c \in C
            /\ conn'[c].cut /\ conn'[c].pc = "live" /\ conn'[c].ver = conn[c].ver
BY ConnType DEF CutThose, Live, ConnPart, Connection

\* A request closes the tunnels it was to sweep, or still is to sweep them.
LEMMA TunnelsCut ==
  ASSUME Tunnels, ReqPart, ConnPart, NEW r \in Reqs, NEW q, req' = [req EXCEPT ![r] = q],
         mem' = mem, gen' = gen, cancelled \subseteq cancelled', NEW C, CutThose(C),
         \A c \in Conns : Sweeps(req[r], conn[c]) => c \in C \/ Sweeps(q, conn[c])
  PROVE  Tunnels'
<1>1. Numbered'
  BY CutFacts DEF Tunnels, Numbered
<1>2. ASSUME NEW c \in Conns PROVE Reached(c)'
  <2>1. CASE conn'[c] = conn[c] /\ ~(Live(c) /\ c \in C)
    <3>1. Live(c)' = Live(c) /\ (Cut(c) => Cut(c)')
      BY <2>1 DEF Live, Cut
    <3>2. \A p \in Reqs : Live(c) /\ Sweeps(req[p], conn[c]) => Sweeps(req'[p], conn'[c])
      BY <2>1 DEF ReqPart
    <3> QED
      BY <2>1, <3>1, <3>2 DEF Tunnels, Reached
  <2>2. CASE conn'[c].cut /\ conn'[c].pc = "live"
    BY <2>2 DEF Reached, Cut
  <2> QED
    BY <2>1, <2>2, CutFacts
<1> QED
  BY <1>1, <1>2 DEF Tunnels

\* The cancels after a publication, and the sweep of an edited or deleted proxy.
LEMMA TunnelsClose ==
  ASSUME Inv, Tunnels, NEW r \in Reqs, CloseByUpstream(r) \/ CancelOld(r) PROVE Tunnels'
<1>1. ReqPart /\ ConnPart /\ mem' = mem /\ gen' = gen
  BY DEF Inv, CloseByUpstream, CancelOld, memVars
<1>2. CASE CloseByUpstream(r)
  <2> DEFINE C == {c \in Conns : conn[c].id = req[r].op.id}
             q == Request("ok", req[r].op)
  <2>1. CutThose(C) /\ req' = [req EXCEPT ![r] = q] /\ cancelled' = cancelled
        /\ req[r].pc = "closeUpstream"
    BY <1>2 DEF CloseByUpstream, Goto, memVars, At
  <2>2. \A c \in Conns : Sweeps(req[r], conn[c]) => c \in C
    BY <2>1 DEF Sweeps, Edits
  <2> HIDE DEF C, q
  <2> QED
    BY <1>1, <2>1, <2>2, TunnelsCut
<1>3. CASE CancelOld(r)
  <2> DEFINE op == req[r].op
             l == req[r].local
             C == {c \in Conns : /\ conn[c].login \in l.victims
                                 /\ conn[c].id = l.cur.users[conn[c].login].upid}
             q == Request(AfterRebuild(op), IF op.kind = "syncKey" THEN Rebuild ELSE op)
  <2>1. CutThose(C) /\ req' = [req EXCEPT ![r] = q] /\ cancelled \subseteq cancelled'
        /\ req[r].pc = "cancel"
    BY <1>3 DEF CancelOld, At
  <2>2. op.kind \in {"patchManual", "deleteManual"} => q.pc = "closeUpstream" /\ q.op = op
    BY DEF Request, AfterRebuild, Final
  <2> HIDE DEF q
  <2>3. \A c \in Conns : Sweeps(req[r], conn[c]) => c \in C \/ Sweeps(q, conn[c])
    BY <2>1, <2>2 DEF Sweeps, Edits
  <2> HIDE DEF C, op, l
  <2> QED
    BY <1>1, <2>1, <2>3, TunnelsCut
<1> QED
  BY <1>2, <1>3

\* A publication leaves every tunnel routed or with a handler that is to close it.
LEMMA TunnelsSwap ==
  ASSUME Inv, Control, Edited, Tunnels, NEW r \in Reqs, Swap(r) PROVE Tunnels'
<1> DEFINE op == req[r].op
           l == req[r].local
           q == [pc |-> "cancel", op |-> op, local |-> [cur |-> l.cur, victims |-> Victims(op, l)]]
<1>1. /\ req'[r] = q /\ \A p \in Reqs \ {r} : req'[p] = req[p]
      /\ req[r].pc = "swap" /\ op \in Ops /\ StepKind(req[r])
      /\ conn' = conn /\ cancelled' = cancelled /\ gen' = gen + 1 /\ gen \in Nat
      /\ mem' = IF IsRemap(op) THEN SwappedState(l.cur, op.user, op.map, gen + 1)
                ELSE RebuiltState(l.cur, l.ups, Victims(op, l), gen + 1)
  BY RequestFacts DEF Inv, ReqPart, Swap, Keep, At, MemPart, MemTypes, Control
<1>2. l.cur = mem /\ mem \in RoutingState /\ Coherent(mem)
  BY <1>1 DEF Control, Captured, Inv, MemPart, MemTypes, SnapshotCoherent
<1>3. q.pc = "cancel" /\ q.op = op /\ q.local.cur = mem /\ q.local.victims = Victims(op, l)
  BY <1>2
<1> HIDE DEF q
<1>4. \A p \in Reqs, c \in Conns : Sweeps(req[p], conn[c]) => Sweeps(req'[p], conn[c])
  BY <1>1, <1>3 DEF Sweeps, Edits
<1>5. mem'.ver = gen'
  BY <1>1, <1>2 DEF SwappedState, RebuiltState, RoutingState
<1>6. Numbered'
  BY <1>1, <1>5 DEF Tunnels, Numbered, Inv, ConnPart, Connection
<1>7. ASSUME NEW c \in Conns, RoutedIn(mem, conn[c])
      PROVE  RoutedIn(mem', conn[c]) \/ \E p \in Reqs : Sweeps(req'[p], conn[c])
  <2> DEFINE k == conn[c]
  <2>1. CASE IsRemap(op)
    <3>1. op.user \in Users /\ Victims(op, l) = {op.user}
      BY <1>1, <2>1, OpFields DEF IsRemap, Victims
    <3>2. RoutedIn(mem', k) \/ (k.login = op.user /\ k.id = mem.users[op.user].upid)
      <4>1. mem' = SwappedState(mem, op.user, op.map, gen + 1)
        BY <1>1, <1>2, <2>1
      <4> HIDE DEF op, k
      <4> QED
        BY <1>2, <1>7, <3>1, <4>1, SwappedRoutes DEF k
    <3>3. k.login = op.user /\ k.id = mem.users[op.user].upid => Sweeps(req'[r], k)
      BY <1>1, <1>3, <3>1 DEF Sweeps
    <3> QED
      BY <3>2, <3>3
  <2>2. CASE ~IsRemap(op)
    <3>1. l.ups \in UpTable /\ l.ups[Default] # NoRow /\ HasListed(req[r])
      <4>1. HasListed(req[r])
        BY <1>1, <2>2 DEF StepKind, HasListed
      <4> QED
        BY <1>1, <2>2, <4>1, RequestFacts DEF Edited, Listing, Inv, RequestOK
    <3>2. \/ RoutedIn(mem', k)
          \/ k.id \in Manual /\ mem.ups[k.id] # NoRow /\ ~SameTuple(l.ups[k.id], mem.ups[k.id])
          \/ /\ k.login \in Users /\ NewlyBroken(mem, l.ups, k.login)
             /\ k.id = mem.users[k.login].upid /\ "patchManual" \notin Kinds
      <4>1. mem' = RebuiltState(mem, l.ups, Victims(op, l), gen + 1) /\ gen + 1 \in Nat
        BY <1>1, <1>2, <2>2
      <4> HIDE DEF op, l, k
      <4> QED
        BY <1>2, <1>7, <3>1, <4>1, RebuiltRoutes DEF k
    <3>3. ASSUME k.id \in Manual, mem.ups[k.id] # NoRow, ~SameTuple(l.ups[k.id], mem.ups[k.id])
          PROVE  \E p \in Reqs : Sweeps(req'[p], k)
      <4>1. PICK p \in Reqs : WillCapture(req[p], k.id) \/ WillPublish(req[p], k.id)
        <5> HIDE DEF k
        <5>1. \/ SameTuple(l.ups[k.id], dbUp[k.id])
              \/ \E p \in Reqs : WillCapture(req[p], k.id)
          BY <3>1, <3>3 DEF Edited, Listing
        <5>2. \/ SameTuple(mem.ups[k.id], dbUp[k.id])
              \/ \E p \in Reqs : WillPublish(req[p], k.id)
          BY <3>3 DEF Edited, Tabled
        <5> QED
          BY <3>3, <5>1, <5>2 DEF SameTuple
      <4>2. Sweeps(req[p], k)
        BY <4>1 DEF WillCapture, WillPublish, HasListed, Sweeps
      <4> QED
        BY <1>4, <4>2
    <3>4. ASSUME k.login \in Users, NewlyBroken(mem, l.ups, k.login),
                 k.id = mem.users[k.login].upid, "patchManual" \notin Kinds
          PROVE  Sweeps(req'[r], k)
      <4>1. op.kind # "patchManual"
        BY <1>1, <3>4, OpsExercised DEF Exercised, EditKinds
      <4>2. k.login \in Victims(op, l)
        BY <1>2, <2>2, <3>4, <4>1 DEF Victims
      <4> QED
        BY <1>1, <1>3, <3>4, <4>2 DEF Sweeps
    <3> QED
      BY <3>2, <3>3, <3>4
  <2> QED
    BY <2>1, <2>2
<1>8. ASSUME NEW c \in Conns PROVE Reached(c)'
  <2>1. conn'[c] = conn[c] /\ Live(c)' = Live(c) /\ Cut(c)' = Cut(c) /\ Reached(c)
    BY <1>1 DEF Live, Cut, Tunnels
  <2>2. conn[c].ver # mem'.ver
    BY <1>1, <1>5 DEF Tunnels, Numbered, Inv, ConnPart, Connection
  <2>3. \/ RoutedIn(mem, conn[c]) \/ \E p \in Reqs : Sweeps(req[p], conn[c])
        => RoutedIn(mem', conn[c]) \/ \E p \in Reqs : Sweeps(req'[p], conn[c])
    BY <1>4, <1>7
  <2> QED
    BY <2>1, <2>2, <2>3 DEF Reached
<1> QED
  BY <1>6, <1>8 DEF Tunnels

\* Connections acquire, register and end.
LEMMA TunnelsConn ==
  ASSUME Inv, Tunnels, NEW c \in Conns,
         \/ \E login \in Users \cup Names, pwd \in Passwords : Acquire(c, login, pwd)
         \/ Register(c) \/ HandshakeFails(c) \/ PeerEnds(c) \/ TornDown(c)
  PROVE  Tunnels'
<1>1. /\ mem' = mem /\ gen' = gen /\ cancelled' = cancelled /\ req' = req
      /\ conn \in [Conns -> Connection] /\ mem \in RoutingState /\ Coherent(mem)
      /\ mem.ver = gen /\ gen \in Nat
  BY DEF Inv, ConnPart, MemPart, MemTypes, SnapshotCoherent, Tunnels, Numbered, Acquire, Register,
     HandshakeFails, PeerEnds, TornDown, memVars
<1>2. \A d \in Conns \ {c} : conn'[d] = conn[d]
  BY <1>1 DEF Acquire, Register, HandshakeFails, PeerEnds, TornDown
<1>3. conn'[c].ver <= gen /\ Reached(c)'
  <2>1. CASE conn' = [conn EXCEPT ![c] = Ended]
    BY <1>1, <2>1 DEF Ended, NoConn, Reached, Live
  <2>2. CASE Register(c)
    <3>1. /\ conn'[c].pc = "live" /\ conn'[c].regVer = mem.ver /\ conn'[c].ver = conn[c].ver
          /\ conn'[c].login = conn[c].login /\ conn'[c].id = conn[c].id
          /\ conn'[c].def = conn[c].def /\ conn'[c].cg = conn[c].cg
          /\ conn[c].pc = "acquired" /\ conn[c].ver \in Nat
      BY <1>1, <2>2 DEF Register, Connection
    <3>2. conn[c].ver <= gen
      BY DEF Tunnels, Numbered
    <3>3. conn'[c].regVer <= conn'[c].ver => conn[c].ver = mem.ver
      BY <1>1, <3>1, <3>2
    <3>4. conn[c].ver = mem.ver => RoutedIn(mem, conn[c])
      BY <3>1 DEF Tunnels, Reached
    <3>5. RoutedIn(mem, conn[c]) => RoutedIn(mem', conn'[c])
      BY <1>1, <3>1 DEF RoutedIn
    <3> QED
      BY <3>1, <3>2, <3>3, <3>4, <3>5 DEF Reached
  <2>3. ASSUME NEW login \in Users \cup Names, NEW pwd \in Passwords, Acquire(c, login, pwd)
        PROVE  conn'[c].ver <= gen /\ Reached(c)'
    <3>1. CASE conn' = [conn EXCEPT ![c] = Ended]
      BY <2>1, <3>1
    <3>2. CASE conn' # [conn EXCEPT ![c] = Ended]
      <4>1. PICK g \in AcquireGrant(mem, login, pwd) :
              conn' = [conn EXCEPT ![c] =
                [pc |-> "acquired", login |-> login, id |-> g.id, def |-> g.def,
                 cg |-> g.cg, cut |-> FALSE, ver |-> mem.ver, regVer |-> 0]]
        BY <2>3, <3>2 DEF Acquire
      <4>2. /\ conn'[c].pc = "acquired" /\ conn'[c].ver = mem.ver
            /\ conn'[c].login = login /\ conn'[c].id = g.id /\ conn'[c].def = g.def
            /\ conn'[c].cg = g.cg
        BY <1>1, <4>1
      <4>3. RoutedIn(mem, conn'[c])
        BY <1>1, <4>2, GrantRouted
      <4> QED
        BY <1>1, <4>2, <4>3 DEF Reached, Live
    <3> QED
      BY <3>1, <3>2
  <2> QED
    BY <2>1, <2>2, <2>3 DEF HandshakeFails, PeerEnds, TornDown
<1>4. ASSUME NEW d \in Conns \ {c} PROVE Reached(d)'
  BY <1>1, <1>2 DEF Tunnels, Reached, Live, Cut
<1> QED
  BY <1>1, <1>2, <1>3, <1>4 DEF Tunnels, Numbered

\* A restart leaves no tunnel.
LEMMA TunnelsRestart == ASSUME Inv, Tunnels, Restart PROVE Tunnels'
<1>1. /\ mem'.ver = gen' /\ gen' = gen + 1 /\ gen \in Nat
      /\ \A c \in Conns : conn'[c].pc \in {"idle", "closed"}
      /\ \A c \in Conns : conn'[c] \in {conn[c], Ended} /\ conn[c].ver \in Nat
      /\ Ended.ver = 0
  BY DEF Restart, HydratedState, Inv, MemPart, MemTypes, ConnPart, Connection, Ended, NoConn
<1>2. Numbered'
  BY <1>1 DEF Tunnels, Numbered
<1>3. \A c \in Conns : Reached(c)'
  BY <1>1 DEF Reached, Live
<1> QED
  BY <1>2, <1>3 DEF Tunnels

\* The steps of others leave tunnels and table alone.
LEMMA TunnelsUnchanged == ASSUME Tunnels, UNCHANGED <<memVars, req, conn>> PROVE Tunnels'
<1>1. mem' = mem /\ gen' = gen /\ cancelled' = cancelled /\ req' = req /\ conn' = conn
  BY DEF memVars
<1>2. Numbered'
  BY <1>1 DEF Tunnels, Numbered
<1>3. \A c \in Conns : Reached(c)'
  BY <1>1 DEF Tunnels, Reached, Live, Cut
<1> QED
  BY <1>2, <1>3 DEF Tunnels

\* The first boot has no tunnel.
LEMMA InitTunnels == ASSUME Init PROVE Tunnels
<1>1. mem.ver = 1 /\ gen = 1 /\ \A c \in Conns : conn[c].pc = "idle" /\ conn[c].ver = 0
  BY DEF Init, Boot, NoConn, HydratedState
<1> QED
  BY <1>1 DEF Tunnels, Numbered, Reached, Live

\* A client that leaves was not to close any tunnel.
LEMMA TunnelsAbort ==
  ASSUME Inv, Tunnels, EditsComplete, NEW r \in Reqs, Abort(r) PROVE Tunnels'
<1>1. /\ ReqPart /\ mem' = mem /\ gen' = gen /\ conn' = conn /\ cancelled' = cancelled
      /\ req[r].pc # "cancel" /\ req[r].op.kind \notin EditKinds
      /\ \E q : req' = [req EXCEPT ![r] = q]
  BY AbortFacts
<1>2. \A c \in Conns : ~Sweeps(req[r], conn[c])
  BY <1>1 DEF Sweeps, Edits, EditKinds
<1> QED
  BY <1>1, <1>2, TunnelsMoves

\* Every step keeps the tunnels routed, closed, late or due.
LEMMA NextTunnels ==
  ASSUME Inv, Control, Edited, Tunnels, EditsComplete, [Next]_vars PROVE Tunnels'
<1>1. ASSUME NEW r \in Reqs, HandlerStep(r) PROVE Tunnels'
  <2>1. ~(CloseByUsername(r) \/ HydrateUps(r) \/ HydrateUsers(r) \/ HydrateUniv(r)
         \/ HydrateSwap(r))
    BY DEF Edited, Unhydrated, Control, StepKind, HydratePcs, CloseByUsername, HydrateUps,
       HydrateUsers, HydrateUniv, HydrateSwap, At
  <2>2. CASE \/ Check(r) \/ Write(r) \/ WriteRefused(r) \/ LockRefused(r) \/ Persist(r)
             \/ PersistRefused(r)
    BY <2>2, TunnelsPassive
  <2> QED
    BY <1>1, <2>1, <2>2, TunnelsHeld, TunnelsSwap, TunnelsClose DEF HandlerStep
<1>2. ASSUME NEW r \in Reqs, NEW op \in Operations, Receive(r, op) PROVE Tunnels'
  BY <1>2, TunnelsPassive
<1>3. ASSUME NEW r \in Reqs, Abort(r) PROVE Tunnels'
  BY <1>3, TunnelsAbort
<1>4. ASSUME NEW c \in Conns,
             \/ \E login \in Users \cup Names, pwd \in Passwords : Acquire(c, login, pwd)
             \/ Register(c) \/ HandshakeFails(c) \/ PeerEnds(c) \/ TornDown(c)
      PROVE  Tunnels'
  BY <1>4, TunnelsConn
<1>5. CASE Restart
  BY <1>5, TunnelsRestart
<1>6. CASE UNCHANGED vars
  BY <1>6, TunnelsUnchanged DEF vars
<1> QED
  BY <1>1, <1>2, <1>3, <1>4, <1>5, <1>6 DEF Next

\* With no request served nobody is due to close a tunnel: what is stale and
\* lives was orphaned by an edit or registered after the table it was granted by.
LEMMA LateFromTunnels == Inv /\ Tunnels => SurvivorsRegisteredLate
<1> SUFFICES ASSUME Inv, Tunnels, Quiet, NEW c \in Conns,
                    Live(c), Stale(c), ~Cut(c), ~OrphanedByEdit(c)
             PROVE  conn[c].regVer > conn[c].ver
  BY DEF SurvivorsRegisteredLate
<1>1. \A p \in Reqs : ~Sweeps(req[p], conn[c])
  BY DEF Quiet, Active, Final, Sweeps
<1>2. ~RoutedIn(mem, conn[c])
  BY DEF RoutedIn, Stale, OrphanedByEdit
<1>3. ~(conn[c].regVer <= conn[c].ver)
  BY <1>1, <1>2 DEF Tunnels, Reached
<1>4. conn[c].regVer \in Nat /\ conn[c].ver \in Nat
  BY DEF Inv, ConnPart, Connection
<1> QED
  BY <1>3, <1>4

\* Hot-switching, swap.go: a tunnel that no longer leaves where the table routes
\* it has been closed by the handler that moved the route, once that handler is
\* done; what survives registered after its table was replaced, or an edit of
\* another proxy orphaned it.  For remaps, edits, additions and deletions of
\* proxies and syncs, in any order and number.  Excluded are handlers that hydrate,
\* which publish under no mutex and close nothing afterwards, and a client that
\* leaves while a manual proxy may be edited or deleted: the edit stays in the
\* database, the rebuild that would have closed its tunnels is not run
\* (server.go:421-444).  Clients of other requests may leave at any step.
THEOREM StaleTunnelsReached ==
  ASSUME Kinds \cap HydratingKinds = {}, EditsComplete
  PROVE  Spec => []SurvivorsRegisteredLate
<1>1. Init => Inv /\ Control /\ Edited /\ Tunnels
  BY InitInv, InitControl, InitEdited, InitTunnels
<1>2. Inv /\ Control /\ Edited /\ Tunnels /\ [Next]_vars => (Inv /\ Control /\ Edited /\ Tunnels)'
  BY NextInv, NextControl, NextEdited, NextTunnels DEF Calm
<1> QED
  BY <1>1, <1>2, LateFromTunnels, PTL DEF Spec
=============================================================================
