----------------------------- MODULE HotSwitch ------------------------------
(***************************************************************************)
(* The control plane against the data plane: HTTP API handlers and the     *)
(* background sync change the database and republish the routing snapshot  *)
(* while proxy connections acquire a route, register themselves and are    *)
(* torn down.                                                              *)
(*                                                                         *)
(* A request r is one goroutine of internal/api (or one tick of the sync   *)
(* loop in internal/cli/run.go).  Its steps are split exactly where another *)
(* goroutine can run in between with an effect: every database statement   *)
(* or transaction, the pointer swap, and the cancellation that follows it. *)
(* Hydrate takes no lock; SwapUserMapping and the two rebuilds hold        *)
(* mappingChangeMu (mu) from their snapshot to their last callback.        *)
(*                                                                         *)
(* A connection c is one listener goroutine (HTTP or SOCKS5): it acquires  *)
(* a grant from the current snapshot, registers some time later, and then  *)
(* dials and bridges ("live") until it ends or its context is cancelled.   *)
(* The connection registry is the set of live connections.                 *)
(***************************************************************************)
EXTENDS RoutingTable, FiniteSets

CONSTANTS
  Reqs,         \* requests; each is served once
  Conns,        \* client connections; each is opened once
  Kinds,        \* the handlers this instance exercises
  HydratesOverlap, \* may a handler that hydrates run beside another handler?
  MaxAborts,    \* bound on requests whose context is cancelled midway
  MaxCrashes,   \* bound on daemon restarts
  IdsReturn,    \* may Webshare report a proxy again after dropping it?
  NoMutex,      \* nobody holds mappingChangeMu
  Absent        \* a PATCH field that is not in the request body

AllKinds == {"patchUser", "addUser", "deleteUser", "putUniversal", "addManual",
             "patchManual", "deleteManual", "syncKey", "syncTick", "deleteKey",
             "patchUpstream"}
RebuildKinds == {"addManual", "patchManual", "deleteManual", "syncKey", "syncTick"}

ASSUME HotSwitchAssumption ==
  /\ Kinds \subseteq AllKinds \cup {"remap", "password"}
  /\ HydratesOverlap \in BOOLEAN
  /\ MaxAborts \in Nat /\ MaxCrashes \in Nat
  /\ IdsReturn \in BOOLEAN
  /\ NoMutex \notin Reqs
  /\ Absent \notin Passwords \cup Ids \cup {NoId}

VARIABLES
  dbUp,      \* upstream_proxies, by id
  dbUser,    \* local_users, by username
  dbUniv,    \* settings.universal_proxy_password_enc, decrypted
  dbKey,     \* does the api_keys row exist?
  usedIds,   \* ids that have existed: manual ids are random, never reissued
  mem,       \* Core.routingState
  gen,       \* builds so far; numbers the CancelGroups
  cancelled, \* the CancelGroups whose Cancel was called
  mu,        \* holder of mappingChangeMu
  req,       \* per request: where its handler is and what it has read
  conn,      \* per connection: where its goroutine is and what it was granted
  aborts, crashes

dbVars == <<dbUp, dbUser, dbUniv, dbKey, usedIds>>
memVars == <<mem, gen, cancelled>>
bounds == <<aborts, crashes>>
vars == <<dbVars, memVars, mu, req, conn, bounds>>

-----------------------------------------------------------------------------
(* Requests. *)

\* The request bodies, by handler.  "remap" and "password" are the two
\* restrictions of PATCH /users/{username} to one of its fields.
Operations ==
  [kind : Kinds \cap {"patchUser"}, user : Users,
     pwd : Passwords \cup {Absent}, map : Ids \cup {NoId, Absent}]
  \cup [kind : {"patchUser"}, user : Users, pwd : {Absent},
          map : IF "remap" \in Kinds THEN Ids \cup {NoId} ELSE {}]
  \cup [kind : {"patchUser"}, user : Users, map : {Absent},
          pwd : IF "password" \in Kinds THEN Passwords ELSE {}]
  \cup [kind : Kinds \cap {"addUser"}, user : Users, pwd : Passwords]
  \cup [kind : Kinds \cap {"deleteUser"}, user : Users]
  \cup [kind : Kinds \cap {"putUniversal"}, pwd : Passwords \cup {NoPwd}]
  \cup [kind : Kinds \cap {"addManual"}, def : Defs, name : Names]
  \cup [kind : Kinds \cap {"patchManual"}, id : Manual, def : Defs, name : Names]
  \cup [kind : Kinds \cap {"deleteManual"}, id : Manual]
  \cup [kind : Kinds \cap {"syncKey", "syncTick", "deleteKey"}]
  \cup [kind : Kinds \cap {"patchUpstream"}, id : Ids, name : Names \cup {NoName}]

NoOp == [kind |-> "none"]
Rebuild == [kind |-> "rebuild"]   \* what is left of POST /keys/{id}/sync
Idle == [pc |-> "idle", op |-> NoOp]
Final == {"idle", "ok", "err"}
At(r, pc) == req[r].pc = pc
Active(r) == req[r].pc \notin Final
Quiet == \A r \in Reqs : ~Active(r)

\* A request at pc; one that has been answered keeps nothing.
Request(pc, op) == [pc |-> pc, op |-> IF pc \in Final THEN NoOp ELSE op]
Goto(r, pc) == req' = [req EXCEPT ![r] = Request(pc, @.op)]
\* Goto with what the handler keeps in local variables until its next step.
Keep(r, pc, local) == req' = [req EXCEPT ![r] = [pc |-> pc, op |-> @.op, local |-> local]]

\* Where a handler resumes once its Hydrate call has returned.
AfterHydrate(op) ==
  IF op.kind = "patchUser" /\ op.map # Absent THEN "lock" ELSE "ok"

\* Where a handler resumes once its database write has succeeded.
AfterWrite(op) ==
  CASE op.kind \in {"addUser", "putUniversal", "patchUser"} -> "hydrateUps"
    [] op.kind = "deleteUser" -> "closeUser"
    [] op.kind \in RebuildKinds -> "lock"
    [] op.kind \in {"deleteKey", "patchUpstream"} -> "ok"

FirstStep(op) ==
  CASE op.kind \in {"patchManual", "deleteManual", "deleteKey", "patchUpstream",
                    "syncKey", "syncTick"} -> "check"
    [] op.kind = "patchUser" /\ op.pwd = Absent ->
         IF op.map = Absent THEN "ok" ELSE "lock"
    [] OTHER -> "write"

\* The handlers that call Hydrate, which takes no lock.
Hydrates(op) ==
  \/ op.kind \in {"addUser", "deleteUser", "putUniversal"}
  \/ op.kind = "patchUser" /\ op.pwd # Absent

\* Bound: an instance has as many random manual ids as it has elements of
\* Manual, so it receives no more insertions than it has ids left.
ManualIdsLeft ==
  Cardinality({q \in Reqs : At(q, "write") /\ req[q].op.kind = "addManual"})
    < Cardinality(Manual \ usedIds)

Receive(r, op) ==
  /\ At(r, "idle")
  /\ op.kind = "addManual" => ManualIdsLeft
  /\ HydratesOverlap \/ \A q \in Reqs : Active(q) => ~Hydrates(req[q].op) /\ ~Hydrates(op)
  /\ req' = [req EXCEPT ![r] = Request(FirstStep(op), op)]
  /\ UNCHANGED <<dbVars, memVars, mu, conn, bounds>>

\* The row and reference checks that some handlers make in a statement of
\* their own, before the transaction that acts on the answer.
ChecksOut(op) ==
  CASE op.kind = "patchManual" -> dbUp[op.id] # NoRow
    [] op.kind = "deleteManual" ->
         dbUp[op.id] # NoRow /\ \A u \in Users : dbUser[u] = NoRow \/ dbUser[u].up # op.id
    [] op.kind = "deleteKey" ->
         \A u \in Users : dbUser[u] = NoRow \/ dbUser[u].up \notin Webshare
    [] op.kind = "patchUpstream" -> op.id \in Webshare /\ dbUp[op.id] # NoRow
    [] op.kind \in {"syncKey", "syncTick"} -> dbKey

\* Where a handler goes when its check or its write fails.  The sync loop
\* ignores the error and rebuilds anyway.
OnError(op) == IF op.kind = "syncTick" THEN "lock" ELSE "err"

Check(r) ==
  /\ At(r, "check")
  /\ Goto(r, IF ChecksOut(req[r].op) THEN "write" ELSE OnError(req[r].op))
  /\ UNCHANGED <<dbVars, memVars, mu, conn, bounds>>

-----------------------------------------------------------------------------
(* Database writes: one statement or one transaction each. *)

\* The partial UNIQUE index on manual_name.
NameTaken(others, name) ==
  \E i \in Manual \cap others : dbUp[i] # NoRow /\ dbUp[i].name = name

\* ON DELETE SET NULL on local_users.upstream_proxy_id; broken keeps its value.
Unmap(gone) ==
  dbUser' = [u \in Users |->
               IF dbUser[u] # NoRow /\ dbUser[u].up \in gone
               THEN [dbUser[u] EXCEPT !.up = NoId] ELSE dbUser[u]]

WriteUser(op) ==
  /\ \/ /\ op.kind = "addUser" /\ dbUser[op.user] = NoRow
        /\ dbUser' = [dbUser EXCEPT ![op.user] =
                        [pwd |-> op.pwd, up |-> NoId, broken |-> FALSE]]
     \/ /\ op.kind = "patchUser" /\ dbUser[op.user] # NoRow
        /\ dbUser' = [dbUser EXCEPT ![op.user].pwd = op.pwd]
     \/ /\ op.kind = "deleteUser" /\ dbUser[op.user] # NoRow
        /\ dbUser' = [dbUser EXCEPT ![op.user] = NoRow]
  /\ UNCHANGED <<dbUp, dbUniv, dbKey, usedIds>>

WriteUniversal(op) ==
  /\ op.kind = "putUniversal"
  /\ dbUniv' = op.pwd
  /\ UNCHANGED <<dbUp, dbUser, dbKey, usedIds>>

WriteManual(op) ==
  /\ \/ /\ op.kind = "addManual"
        /\ ~NameTaken(Ids, op.name)
        /\ \E id \in Manual \ usedIds :
             /\ dbUp' = [dbUp EXCEPT ![id] = [def |-> op.def, name |-> op.name]]
             /\ usedIds' = usedIds \cup {id}
        /\ UNCHANGED dbUser
     \/ \* UPDATE ... WHERE id: no error when the row is gone by now
        /\ op.kind = "patchManual"
        /\ dbUp[op.id] # NoRow => ~NameTaken(Ids \ {op.id}, op.name)
        /\ dbUp' = IF dbUp[op.id] = NoRow THEN dbUp
                   ELSE [dbUp EXCEPT ![op.id] = [def |-> op.def, name |-> op.name]]
        /\ UNCHANGED <<dbUser, usedIds>>
     \/ /\ op.kind = "deleteManual" /\ dbUp[op.id] # NoRow
        /\ dbUp' = [dbUp EXCEPT ![op.id] = NoRow]
        /\ Unmap({op.id})
        /\ UNCHANGED usedIds
  /\ UNCHANGED <<dbUniv, dbKey>>

\* SyncKey's transaction over the fetched list (remote): refresh the rows
\* that survive, insert the new ones under free names of this key, delete
\* the ones Webshare no longer lists.  A key deleted since it was loaded only
\* matters to the insertions, by their foreign key.
SyncTx(op) ==
  /\ op.kind \in {"syncKey", "syncTick"}
  /\ \E listed \in SUBSET Webshare :
       LET known == {i \in Webshare : dbUp[i] # NoRow}
           new == listed \ known
           kept == {dbUp[i].name : i \in known \cap listed}
       IN  /\ ~IdsReturn => new \cap usedIds = {}
           /\ dbKey \/ new = {}
           /\ \E remote \in [listed -> Defs], name \in [new -> Names \ kept] :
                /\ \A i, j \in new : i # j => name[i] # name[j]
                /\ dbUp' = [i \in Ids |->
                     IF i \notin Webshare THEN dbUp[i]
                     ELSE IF i \notin listed THEN NoRow
                     ELSE [def |-> remote[i],
                           name |-> IF i \in new THEN name[i] ELSE dbUp[i].name]]
           /\ Unmap(known \ listed)
           /\ usedIds' = usedIds \cup listed
  /\ UNCHANGED <<dbUniv, dbKey>>

\* DeleteApiKey's transaction, after its separate reference check.
DeleteKeyTx(op) ==
  /\ op.kind = "deleteKey"
  /\ dbUp' = [i \in Ids |-> IF i \in Webshare THEN NoRow ELSE dbUp[i]]
  /\ Unmap(Webshare)
  /\ dbKey' = FALSE
  /\ UNCHANGED <<dbUniv, usedIds>>

RenameUpstream(op) ==
  /\ op.kind = "patchUpstream" /\ dbUp[op.id] # NoRow
  /\ dbUp' = [dbUp EXCEPT ![op.id].name = op.name]
  /\ UNCHANGED <<dbUser, dbUniv, dbKey, usedIds>>

DbWrite(op) ==
  \/ WriteUser(op) \/ WriteUniversal(op) \/ WriteManual(op)
  \/ SyncTx(op) \/ DeleteKeyTx(op) \/ RenameUpstream(op)

\* The write fails: a row missing or already there, a name taken.  A sync
\* fails before its transaction whenever the fetch from Webshare does.
Refused(op) ==
  \/ op.kind = "addUser" /\ dbUser[op.user] # NoRow
  \/ op.kind \in {"patchUser", "deleteUser"} /\ dbUser[op.user] = NoRow
  \/ op.kind = "addManual" /\ NameTaken(Ids, op.name)
  \/ op.kind = "patchManual" /\ dbUp[op.id] # NoRow /\ NameTaken(Ids \ {op.id}, op.name)
  \/ op.kind \in {"deleteManual", "patchUpstream"} /\ dbUp[op.id] = NoRow
  \/ op.kind \in {"syncKey", "syncTick"}

Write(r) ==
  /\ At(r, "write")
  /\ DbWrite(req[r].op)
  /\ Goto(r, AfterWrite(req[r].op))
  /\ UNCHANGED <<memVars, mu, conn, bounds>>

WriteRefused(r) ==
  /\ At(r, "write")
  /\ Refused(req[r].op)
  /\ Goto(r, OnError(req[r].op))
  /\ UNCHANGED <<dbVars, memVars, mu, conn, bounds>>

-----------------------------------------------------------------------------
(* Cancellation.  A connection's context derives from its CancelGroup;     *)
(* the registry additionally holds each connection's own CancelFunc.       *)

Live(c) == conn[c].pc = "live"
Cut(c) == conn[c].cut \/ conn[c].cg \in cancelled

\* registry.CloseBy...: cancel the registered connections among C.
CutThose(C) ==
  conn' = [c \in Conns |-> IF Live(c) /\ c \in C
                           THEN [conn[c] EXCEPT !.cut = TRUE] ELSE conn[c]]

CloseByUsername(r) ==
  /\ At(r, "closeUser")
  /\ CutThose({c \in Conns : conn[c].login = req[r].op.user})
  /\ Goto(r, "hydrateUps")
  /\ UNCHANGED <<dbVars, memVars, mu, bounds>>

\* Mutant: the sweep is keyed like CloseByUserUpstream and misses the
\* connections that came in by display name.
CloseByUpstream_UsersOnly(r) ==
  /\ At(r, "closeUpstream")
  /\ CutThose({c \in Conns : conn[c].id = req[r].op.id /\ conn[c].login \in Users})
  /\ Goto(r, "ok")
  /\ UNCHANGED <<dbVars, memVars, mu, bounds>>

CloseByUpstream(r) ==
  /\ At(r, "closeUpstream")
  /\ CutThose({c \in Conns : conn[c].id = req[r].op.id})
  /\ Goto(r, "ok")
  /\ UNCHANGED <<dbVars, memVars, mu, bounds>>

-----------------------------------------------------------------------------
(* Hydrate: three reads and a swap, no lock held. *)

HydrateUps(r) ==
  /\ At(r, "hydrateUps")
  /\ Keep(r, "hydrateUsers", [ups |-> dbUp])
  /\ UNCHANGED <<dbVars, memVars, mu, conn, bounds>>

HydrateUsers(r) ==
  /\ At(r, "hydrateUsers")
  /\ Keep(r, "hydrateUniv", [ups |-> req[r].local.ups, users |-> dbUser])
  /\ UNCHANGED <<dbVars, memVars, mu, conn, bounds>>

HydrateUniv(r) ==
  /\ At(r, "hydrateUniv")
  /\ Keep(r, "hydrateSwap", [ups |-> req[r].local.ups, users |-> req[r].local.users,
                             univ |-> dbUniv])
  /\ UNCHANGED <<dbVars, memVars, mu, conn, bounds>>

HydrateSwap(r) ==
  /\ At(r, "hydrateSwap")
  /\ LET l == req[r].local IN mem' = HydratedState(l.ups, l.users, l.univ, gen + 1)
  /\ gen' = gen + 1
  /\ Goto(r, AfterHydrate(req[r].op))
  /\ UNCHANGED <<dbVars, cancelled, mu, conn, bounds>>

-----------------------------------------------------------------------------
(* SwapUserMapping and the rebuilds, under mappingChangeMu. *)

IsRemap(op) == op.kind = "patchUser"

\* SwapUserMapping refuses a user or an upstream the snapshot does not have.
UnknownInSnapshot(op) ==
  /\ IsRemap(op)
  /\ \/ mem.users[op.user] = NoUser
     \/ op.map # NoId /\ mem.ups[op.map] = NoRow

\* Mutant: the snapshot is taken without waiting for the lock.
Lock_Unserialised(r) ==
  /\ At(r, "lock")
  /\ ~UnknownInSnapshot(req[r].op)
  /\ mu' = r
  /\ Keep(r, IF IsRemap(req[r].op) THEN "persist" ELSE "list", [cur |-> mem])
  /\ UNCHANGED <<dbVars, memVars, conn, bounds>>

\* Mutant: the new mapping is published without the durability fence.
Lock_SkipsFence(r) ==
  /\ At(r, "lock") /\ mu = NoMutex
  /\ ~UnknownInSnapshot(req[r].op)
  /\ mu' = r
  /\ Keep(r, IF IsRemap(req[r].op) THEN "swap" ELSE "list", [cur |-> mem])
  /\ UNCHANGED <<dbVars, memVars, conn, bounds>>

\* Lock and Snapshot: nobody sees the lock before the snapshot is read.
Lock(r) ==
  /\ At(r, "lock") /\ mu = NoMutex
  /\ ~UnknownInSnapshot(req[r].op)
  /\ mu' = r
  /\ Keep(r, IF IsRemap(req[r].op) THEN "persist" ELSE "list", [cur |-> mem])
  /\ UNCHANGED <<dbVars, memVars, conn, bounds>>

LockRefused(r) ==
  /\ At(r, "lock") /\ mu = NoMutex
  /\ UnknownInSnapshot(req[r].op)
  /\ Goto(r, "err")
  /\ UNCHANGED <<dbVars, memVars, mu, conn, bounds>>

\* Mutant: a connection without foreign_keys(1) accepts any upstream id.
MappingAccepted_NoForeignKey(op) == dbUser[op.user] # NoRow

\* UPDATE local_users in a transaction: refused when the row is gone, or by
\* the foreign key when the upstream row is.
MappingAccepted(op) ==
  dbUser[op.user] # NoRow /\ (op.map # NoId => dbUp[op.map] # NoRow)

Persist(r) ==
  LET op == req[r].op
  IN  /\ At(r, "persist")
      /\ MappingAccepted(op)
      /\ dbUser' = [dbUser EXCEPT ![op.user].up = op.map,
                                  ![op.user].broken = (op.map = NoId)]
      /\ Keep(r, "swap", req[r].local)
      /\ UNCHANGED <<dbUp, dbUniv, dbKey, usedIds, memVars, mu, conn, bounds>>

\* Mutant: the error return that forgets to unlock.
PersistRefused_KeepsLock(r) ==
  /\ At(r, "persist")
  /\ ~MappingAccepted(req[r].op)
  /\ Goto(r, "err")
  /\ UNCHANGED <<dbVars, memVars, mu, conn, bounds>>

PersistRefused(r) ==
  /\ At(r, "persist")
  /\ ~MappingAccepted(req[r].op)
  /\ mu' = NoMutex
  /\ Goto(r, "err")
  /\ UNCHANGED <<dbVars, memVars, conn, bounds>>

List(r) ==
  /\ At(r, "list")
  /\ Keep(r, "swap", [cur |-> req[r].local.cur, ups |-> dbUp])
  /\ UNCHANGED <<dbVars, memVars, mu, conn, bounds>>

\* The users whose old tunnels the callback closes.
Victims(op, local) ==
  CASE IsRemap(op) -> {op.user}
    [] op.kind = "patchManual" -> {u \in Users : MappedTo(local.cur, op.id, u)}
    [] OTHER -> {u \in Users : NewlyBroken(local.cur, local.ups, u)}

Swap(r) ==
  LET op == req[r].op
      l == req[r].local
  IN  /\ At(r, "swap")
      /\ mem' = IF IsRemap(op) THEN SwappedState(l.cur, op.user, op.map, gen + 1)
                ELSE RebuiltState(l.cur, l.ups, Victims(op, l), gen + 1)
      /\ gen' = gen + 1
      /\ Keep(r, "cancel", [cur |-> l.cur, victims |-> Victims(op, l)])
      /\ UNCHANGED <<dbVars, cancelled, mu, conn, bounds>>

\* Where a handler resumes after the callbacks: POST /keys/{id}/sync runs the
\* rebuild a second time, the manual-proxy handlers sweep by upstream.
AfterRebuild(op) ==
  CASE op.kind = "syncKey" -> "lock"
    [] op.kind \in {"patchManual", "deleteManual"} -> "closeUpstream"
    [] OTHER -> "ok"

\* Mutant: the callback is not passed (onCancel = nil).
CancelOld_NoCallback(r) ==
  /\ At(r, "cancel")
  /\ mu' = NoMutex
  /\ req' = [req EXCEPT ![r] = Request(AfterRebuild(@.op),
       IF @.op.kind = "syncKey" THEN Rebuild ELSE @.op)]
  /\ UNCHANGED <<dbVars, memVars, conn, bounds>>

\* The callbacks: CloseByUserUpstream for each victim's old pair.  The
\* rebuilds also cancel the victim's old CancelGroup; SwapUserMapping does
\* not.  mu is released when the function returns.
CancelOld(r) ==
  LET op == req[r].op
      l == req[r].local
      old == {c \in Conns : /\ conn[c].login \in l.victims
                             /\ conn[c].id = l.cur.users[conn[c].login].upid}
  IN  /\ At(r, "cancel")
      /\ cancelled' = IF IsRemap(op) THEN cancelled
                      ELSE cancelled \cup {l.cur.users[u].cg : u \in l.victims}
      /\ CutThose(old)
      /\ mu' = NoMutex
      /\ req' = [req EXCEPT ![r] = Request(AfterRebuild(op),
           IF op.kind = "syncKey" THEN Rebuild ELSE op)]
      /\ UNCHANGED <<dbVars, mem, gen, bounds>>

\* The client goes away: the request's context is cancelled and its next
\* database call fails.  The sync loop runs on the daemon's own context.
Abort(r) ==
  /\ aborts < MaxAborts
  /\ req[r].pc \in {"check", "write", "hydrateUps", "hydrateUsers", "hydrateUniv",
                    "persist", "list"}
  /\ req[r].op.kind # "syncTick"
  /\ aborts' = aborts + 1
  /\ mu' = IF mu = r THEN NoMutex ELSE mu
  /\ Goto(r, "err")
  /\ UNCHANGED <<dbVars, memVars, conn, crashes>>

-----------------------------------------------------------------------------
(* Connections. *)

NoConn == [pc |-> "idle", login |-> NoName, id |-> NoId, def |-> NoRow,
           cg |-> NameGroup, cut |-> FALSE, ver |-> 0, regVer |-> 0]

Ended == [NoConn EXCEPT !.pc = "closed"]

\* Acquire: ver records the Version of the snapshot the grant came from.
Acquire(c, login, pwd) ==
  /\ conn[c].pc = "idle"
  /\ \/ \E g \in AcquireGrant(mem, login, pwd) :
          conn' = [conn EXCEPT ![c] =
            [pc |-> "acquired", login |-> login, id |-> g.id, def |-> g.def,
             cg |-> g.cg, cut |-> FALSE, ver |-> mem.ver, regVer |-> 0]]
     \/ /\ AcquireGrant(mem, login, pwd) = {}
        /\ conn' = [conn EXCEPT ![c] = Ended]
  /\ UNCHANGED <<dbVars, memVars, mu, req, bounds>>

\* Register: regVer records the Version published at that moment.
Register(c) ==
  /\ conn[c].pc = "acquired"
  /\ conn' = [conn EXCEPT ![c].pc = "live", ![c].regVer = mem.ver]
  /\ UNCHANGED <<dbVars, memVars, mu, req, bounds>>

\* The rest of the SOCKS5 handshake fails after the grant.
HandshakeFails(c) ==
  /\ conn[c].pc = "acquired"
  /\ conn' = [conn EXCEPT ![c] = Ended]
  /\ UNCHANGED <<dbVars, memVars, mu, req, bounds>>

\* The dial fails or one of the peers ends the tunnel.
PeerEnds(c) ==
  /\ Live(c)
  /\ conn' = [conn EXCEPT ![c] = Ended]
  /\ UNCHANGED <<dbVars, memVars, mu, req, bounds>>

\* A cancelled context fails the dial or unwinds the bridge; Deregister.
TornDown(c) ==
  /\ Live(c) /\ Cut(c)
  /\ conn' = [conn EXCEPT ![c] = Ended]
  /\ UNCHANGED <<dbVars, memVars, mu, req, bounds>>

-----------------------------------------------------------------------------
\* The daemon dies and boots again: every goroutine and the snapshot are
\* lost, runDaemon hydrates from the database before it serves anything.
Restart ==
  /\ crashes < MaxCrashes
  /\ crashes' = crashes + 1
  /\ mem' = HydratedState(dbUp, dbUser, dbUniv, gen + 1)
  /\ gen' = gen + 1
  /\ cancelled' = {}
  /\ mu' = NoMutex
  /\ req' = [r \in Reqs |-> IF Active(r) THEN Request("err", NoOp) ELSE req[r]]
  /\ conn' = [c \in Conns |-> IF conn[c].pc = "idle" THEN conn[c] ELSE Ended]
  /\ UNCHANGED <<dbVars, aborts>>

\* Every database the daemon may have been booted on, with the built-in
\* upstream seeded by EnsureDefaultUpstream and unique manual names.
InitDb ==
  /\ dbUp \in [Ids -> Row \cup {NoRow}]
  /\ dbUp[Default] # NoRow /\ dbUp[Default].name = DefaultName
  /\ \A i, j \in Manual : i # j /\ dbUp[i] # NoRow /\ dbUp[j] # NoRow
                            => dbUp[i].name # dbUp[j].name
  /\ \A i \in Manual : dbUp[i] # NoRow => dbUp[i].name # NoName
  /\ dbUser \in [Users -> UserRow \cup {NoRow}]
  /\ \A u \in Users : dbUser[u] # NoRow =>
        /\ dbUser[u].broken => dbUser[u].up = NoId
        /\ dbUser[u].up # NoId => dbUp[dbUser[u].up] # NoRow
  /\ dbUniv \in Passwords \cup {NoPwd}
  /\ dbKey \in BOOLEAN
  /\ ~dbKey => \A i \in Webshare : dbUp[i] = NoRow
  /\ usedIds = {i \in Ids : dbUp[i] # NoRow}

Boot ==
  /\ mem = HydratedState(dbUp, dbUser, dbUniv, 1)
  /\ gen = 1
  /\ cancelled = {}
  /\ mu = NoMutex
  /\ req = [r \in Reqs |-> Idle]
  /\ conn = [c \in Conns |-> NoConn]
  /\ aborts = 0 /\ crashes = 0

Init == InitDb /\ Boot

HandlerStep(r) ==
  \/ Check(r) \/ Write(r) \/ WriteRefused(r)
  \/ CloseByUsername(r) \/ CloseByUpstream(r)
  \/ HydrateUps(r) \/ HydrateUsers(r) \/ HydrateUniv(r) \/ HydrateSwap(r)
  \/ Lock(r) \/ LockRefused(r) \/ Persist(r) \/ PersistRefused(r)
  \/ List(r) \/ Swap(r) \/ CancelOld(r)

Next ==
  \/ \E r \in Reqs : (\E op \in Operations : Receive(r, op)) \/ HandlerStep(r) \/ Abort(r)
  \/ \E c \in Conns :
       \/ \E login \in Users \cup Names, pwd \in Passwords : Acquire(c, login, pwd)
       \/ Register(c) \/ HandshakeFails(c) \/ PeerEnds(c) \/ TornDown(c)
  \/ Restart

Spec == Init /\ [][Next]_vars

\* A handler that can take a step takes it, a goroutine whose context is
\* cancelled notices; clients and administrators owe nothing.
Fairness ==
  /\ \A r \in Reqs : SF_vars(HandlerStep(r))
  /\ \A c \in Conns : WF_vars(TornDown(c))

FairSpec == Spec /\ Fairness

-----------------------------------------------------------------------------
(* Properties. *)

\* The type invariant of the whole state.
Local ==
  [ups : UpTable] \cup [ups : UpTable, users : UserTable]
  \cup [ups : UpTable, users : UserTable, univ : Passwords \cup {NoPwd}]
  \cup [cur : RoutingState] \cup [cur : RoutingState, ups : UpTable]
  \cup [cur : RoutingState, victims : SUBSET Users]
Pcs == Final \cup {"check", "write", "closeUser", "closeUpstream", "hydrateUps",
                   "hydrateUsers", "hydrateUniv", "hydrateSwap", "lock", "persist",
                   "list", "swap", "cancel"}
Ops == Operations \cup {NoOp, Rebuild}
RequestState == [pc : Pcs, op : Ops] \cup [pc : Pcs, op : Ops, local : Local]
Connection ==
  [pc : {"idle", "acquired", "live", "closed"}, login : Users \cup Names \cup {NoName},
   id : Ids \cup {NoId}, def : Defs \cup {NoRow}, cg : Group, cut : BOOLEAN,
   ver : Nat, regVer : Nat]

TypeOK ==
  /\ dbUp \in UpTable /\ dbUser \in UserTable
  /\ dbUniv \in Passwords \cup {NoPwd} /\ dbKey \in BOOLEAN /\ usedIds \subseteq Ids
  /\ mem \in RoutingState /\ gen \in Nat /\ cancelled \subseteq Users \X Nat
  /\ mu \in Reqs \cup {NoMutex}
  /\ req \in [Reqs -> RequestState]
  /\ conn \in [Conns -> Connection]
  /\ aborts \in Nat /\ crashes \in Nat

\* Every published snapshot is coherent, however the handlers interleave and
\* whichever of them dies midway: a user that is not broken is mapped to an
\* upstream of the same snapshot and carries that upstream's current tuple,
\* and a broken user carries none that Acquire could hand out.  Hydrate's
\* three unsynchronised reads and the rebuilds that mix users of an older
\* snapshot with upstreams of a newer database are what could tear it.
Coherent(state) ==
  \A u \in Users : state.users[u] # NoUser =>
    LET ru == state.users[u]
    IN  /\ ~ru.broken => ru.upid \in Ids /\ state.ups[ru.upid] # NoRow
                          /\ ru.up = state.ups[ru.upid]
        /\ ru.broken => ru.up = NoRow
SnapshotCoherent == Coherent(mem)

\* No dangling foreign key, a broken row is unmapped, and the built-in
\* upstream is never lost: what Hydrate and SwapUserMapping rely on.
DbConsistent ==
  /\ \A u \in Users : dbUser[u] # NoRow =>
       /\ dbUser[u].up # NoId => dbUp[dbUser[u].up] # NoRow
       /\ dbUser[u].broken => dbUser[u].up = NoId
  /\ dbUp[Default] # NoRow

\* What a snapshot and what the database say about a user's route.
MemRoute(u) == IF mem.users[u].broken THEN NoRow ELSE mem.users[u].up
DbRoute(u) == UpOf(dbUp, dbUser[u].up)

\* When no request is in progress the published table is the database's:
\* the same upstreams, universal password and users, each user with the
\* database's password and the route the database gives it.
TableMatchesDb ==
  Quiet =>
    /\ mem.ups = dbUp
    /\ mem.univ = dbUniv
    /\ \A u \in Users :
         /\ (mem.users[u] = NoUser) <=> (dbUser[u] = NoRow)
         /\ dbUser[u] # NoRow => /\ mem.users[u].pwd = dbUser[u].pwd
                                 /\ MemRoute(u) = DbRoute(u)

\* The durability fence of SwapUserMapping: a route is published only after
\* the database has it, so a crash at any moment loses no published mapping.
\* The exceptions are a user and an upstream that were deleted since.
PublishedIsDurable ==
  \A u \in Users :
    mem.users[u] # NoUser /\ ~mem.users[u].broken /\ dbUser[u] # NoRow =>
      \/ dbUser[u].up = mem.users[u].upid
      \/ dbUp[mem.users[u].upid] = NoRow
      \/ \E r \in Reqs : At(r, "swap") /\ IsRemap(req[r].op) /\ req[r].op.user = u

\* A tunnel is stale when the published table no longer routes its login
\* through the upstream (for a manual one: through the tuple) it uses.
Stale(c) ==
  LET k == conn[c]
  IN  IF k.cg = NameGroup
      THEN k.id \in Manual /\ (mem.ups[k.id] = NoRow \/ mem.ups[k.id].def # k.def)
      ELSE \/ mem.users[k.login] = NoUser
           \/ mem.users[k.login].broken
           \/ mem.users[k.login].upid # k.id
           \/ k.id \in Manual /\ mem.users[k.login].up.def # k.def

\* The rebuild of an edited manual proxy publishes every removal it finds in
\* the database but cancels the tunnels of the edited proxy's users only.  The
\* sync that removed the row then finds its users broken already, and passes
\* them over too.
OrphanedByEdit(c) ==
  "patchManual" \in Kinds /\ conn[c].id \in Webshare /\ mem.ups[conn[c].id] = NoRow

\* Once the handlers are done, the only stale tunnels left uncancelled are
\* those an edit orphaned and those that registered after the snapshot they
\* acquired from had been replaced: every other tunnel was reached, whether
\* by its CancelGroup, by (user, upstream) or by upstream.
SurvivorsRegisteredLate ==
  Quiet => \A c \in Conns :
    Live(c) /\ Stale(c) /\ ~Cut(c) /\ ~OrphanedByEdit(c) => conn[c].regVer > conn[c].ver

\* A tunnel registered in time that becomes stale, and is not orphaned,
\* eventually ends.
StaleTunnelsEnd ==
  \A c \in Conns :
    (Live(c) /\ Stale(c) /\ ~OrphanedByEdit(c) /\ conn[c].regVer = conn[c].ver)
      ~> (conn[c].pc = "closed")

\* Every request that was received is eventually answered: no path through
\* the handlers leaves mappingChangeMu locked or waits for itself.
RequestsEnd == \A r \in Reqs : Active(r) ~> ~Active(r)

-----------------------------------------------------------------------------
(* What the repository's documents say and the code does not do. *)

\* server.go:556 "Rehydrate routing so the new user is immediately routable":
\* when no request is in progress, every user of the database is known to
\* the routing table.
AddedUserKnown ==
  Quiet => \A u \in Users : dbUser[u] # NoRow => mem.users[u] # NoUser

\* server.go:705 "Routing is re-hydrated so the change takes effect
\* immediately for new connections".
UniversalPasswordInEffect == Quiet => mem.univ = dbUniv

\* README.md:57 "Remapping a user or editing/deleting an upstream tears down
\* in-flight connections to the old target": once the handler has answered,
\* every connection still routed the old way has been cancelled.
NoTunnelToOldTarget ==
  Quiet => \A c \in Conns : Live(c) /\ Stale(c) => Cut(c)

\* swap.go:129 "onMappingBroken is invoked once per (username, oldUpstreamID)
\* whose mapping is now Broken because the upstream was removed by the sync",
\* to "close those users' active connections": no tunnel registered in time
\* outlives the proxy it leaves through.
RemovedUpstreamDrained ==
  Quiet => \A c \in Conns :
    Live(c) /\ conn[c].id \in Webshare /\ mem.ups[conn[c].id] = NoRow
      /\ conn[c].regVer = conn[c].ver => Cut(c)

\* sync.go:173 "Any local_user mapped to one is auto-unmapped by the FK (ON
\* DELETE SET NULL) and flagged broken on the next routing rebuild".
UnmappedIsBroken ==
  Quiet => \A u \in Users :
    dbUser[u] # NoRow /\ dbUser[u].up = NoId /\ mem.users[u] # NoUser
      => mem.users[u].broken

\* README.md:29 "Only upstreams with an unambiguous display name are
\* routable this way": a name two upstreams share routes nowhere.
SharedNameNotRouted ==
  Quiet => \A n \in Names :
    (\E i, j \in Ids : i # j /\ dbUp[i] # NoRow /\ dbUp[j] # NoRow
                         /\ dbUp[i].name = n /\ dbUp[j].name = n)
      => DisplayNameRoute(mem.ups, n) = {}
=============================================================================
