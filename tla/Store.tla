-------------------------------- MODULE Store --------------------------------
(***************************************************************************)
(* The data directory over the life of an installation: the master key     *)
(* (crypto.LoadOrCreate), the migrations (store.Open), the row that a      *)
(* daemon seeds (repo.EnsureDefaultUpstream), and the user table that      *)
(* administrators then map and arrange (repo/users.go).  The daemon and a  *)
(* one-shot command (piod add-key, piod sync) open it alike, may meet, and *)
(* may end at any step; nothing locks the directory.                       *)
(*                                                                         *)
(* A migration is the number of its file.  Of the schema the model keeps a *)
(* name for what each file adds or removes.                                *)
(***************************************************************************)
EXTENDS Integers, FiniteSets, FiniteSetsExt, Functions

CONSTANTS
  Daemon, Command,  \* the two processes
  Users,            \* user names, as numbers in the order of the names
  Null,             \* no upstream
  OldReleases,      \* the last migration of the releases that may have been run before
  Alone,            \* the first start of an installation meets no other process
  MaxExits,         \* bound on processes that end of themselves
  MaxChanges        \* bound on what administrators and commands do

Files == 1..11
NoFile == -2
EmptyFile == -1

ASSUME StoreAssumption ==
  /\ Daemon # Command /\ Users \subseteq Nat /\ Users # {} /\ IsFiniteSet(Users)
  /\ Null \notin {"w1", "m1", "direct", "default"}
  /\ OldReleases \subseteq Files /\ Alone \in BOOLEAN
  /\ MaxExits \in Nat /\ MaxChanges \in Nat

VARIABLES
  keyFile,   \* master.key: NoFile, EmptyFile, or the key it holds
  keys,      \* keys generated so far
  db,        \* the database: files recorded, schema, upstream rows, users
  secrets,   \* the keys that stored secrets are encrypted with
  proc,      \* per process: where it is, its key, the files it has to apply
  exits, changes,
  arranged,  \* history: the users of the last reorder, each with its place in the list
  added      \* history: the users added since, each with the change that added it

install == <<keyFile, keys, secrets>>
counters == <<exits, changes>>
arrangement == <<arranged, added>>
vars == <<install, db, proc, counters, arrangement>>

Procs == {Daemon, Command}
Off == [pc |-> "off", key |-> 0, todo |-> {}]
At(p, pc) == proc[p].pc = pc
Step(p, pc) == proc' = [proc EXCEPT ![p].pc = pc]

\* A user row: its upstream, the broken flag, its position.
Row(up, broken, order) == [up |-> up, broken |-> broken, order |-> order]
Known(d) == DOMAIN d.user

-----------------------------------------------------------------------------
(* The migrations.                                                         *)

Adds == << {"init", "alive"}, {"order_index"}, {"proxy_enabled"}, {"source"},
           {"universal_password"}, {"proxy_port"}, {"subscription"}, {"latency"},
           {}, {"direct"}, {"default"} >>
Removes(f) == CASE f = 9 -> {"alive"} [] f = 11 -> {"direct"} [] OTHER -> {}
Needs(f) ==
  CASE f = 1 -> {} [] f \in {4, 9} -> {"alive"} [] f \in {10, 11} -> {"source", "latency"}
    [] OTHER -> {"init"}
\* The files that rebuild upstream_proxies; the others create or alter.
Rebuilds == {4, 10, 11}

Schema(files) == (UNION {Adds[f] : f \in files}) \ (UNION {Removes(f) : f \in files})

\* The SQL of a file runs: what it reads is there, what it creates is not.
Runs(f, d) ==
  /\ Needs(f) \subseteq d.schema
  /\ f \notin Rebuilds => Adds[f] \cap d.schema = {}

\* Mutant: the last rebuild does not restore the mappings either.
Mapping_Unrestored(f, row) == IF f \in Rebuilds THEN Null ELSE row.up

\* DROP TABLE upstream_proxies deletes its rows, which sets the mapping of
\* every user to NULL; the last rebuild has saved and restores those that
\* were not to the "direct" row, which it drops.
Mapping(f, row) ==
  CASE f \in {4, 10} -> Null
    [] f = 11 /\ row.up = "direct" -> Null
    [] OTHER -> row.up

\* A file and its record, committed together.
Apply(f, d) ==
  [applied |-> d.applied \cup {f},
   schema |-> (d.schema \cup Adds[f]) \ Removes(f),
   ups |-> IF f = 11 THEN d.ups \ {"direct"} ELSE d.ups,
   user |-> [u \in Known(d) |->
     Row(Mapping(f, d.user[u]), d.user[u].broken, IF f = 2 THEN 0 ELSE d.user[u].order)]]

-----------------------------------------------------------------------------
(* What may be on the disk: nothing, or what an earlier release has left.  *)

UpsAt(r) ==
  {"w1"} \cup (IF r >= 4 THEN {"m1"} ELSE {})
         \cup (IF r = 10 THEN {"direct"} ELSE IF r = 11 THEN {"default"} ELSE {})

Fresh == [applied |-> {}, schema |-> {}, ups |-> {}, user |-> <<>>]

\* Two users, the second in any mapping, as yet unordered or one behind the other.
OldUsers(up, i) ==
  [u \in {Min(Users), Max(Users)} |->
     IF u = Min(Users) THEN Row("w1", FALSE, i) ELSE Row(up, FALSE, 0)]
Existing(r) ==
  {[applied |-> 1..r, schema |-> Schema(1..r), ups |-> UpsAt(r), user |-> OldUsers(up, i)] :
     up \in UpsAt(r), i \in IF r >= 2 THEN {0, 1} ELSE {0}}

Init ==
  /\ \/ keyFile = NoFile /\ db = Fresh /\ secrets = {}
     \/ keyFile = 0 /\ db \in UNION {Existing(r) : r \in OldReleases} /\ secrets = {0}
  /\ keys = 0 /\ proc = [p \in Procs |-> Off]
  /\ exits = 0 /\ changes = 0 /\ arranged = <<>> /\ added = <<>>

-----------------------------------------------------------------------------
(* A process from its start to an open database.                           *)

Start(p) ==
  /\ At(p, "off")
  /\ Alone /\ keyFile = NoFile => \A q \in Procs : At(q, "off")
  /\ Step(p, "key")
  /\ UNCHANGED <<install, db, counters, arrangement>>

\* The end of a process: a crash or an error, or a command that is done.
Exit(p) ==
  /\ ~At(p, "off") /\ exits < MaxExits
  /\ proc' = [proc EXCEPT ![p] = Off]
  /\ exits' = exits + 1
  /\ UNCHANGED <<install, db, changes, arrangement>>

\* Mutant: a file that is not a whole key is generated anew.
ReadKey_Regenerates(p) ==
  /\ At(p, "key")
  /\ proc' = [proc EXCEPT ![p] =
       IF keyFile \in {NoFile, EmptyFile} THEN [@ EXCEPT !.pc = "create"]
       ELSE [@ EXCEPT !.pc = "open", !.key = keyFile]]
  /\ UNCHANGED <<install, db, counters, arrangement>>

\* LoadOrCreate: a file that is not a whole key is an error.
ReadKey(p) ==
  /\ At(p, "key")
  /\ proc' = [proc EXCEPT ![p] =
       CASE keyFile = NoFile -> [@ EXCEPT !.pc = "create"]
         [] keyFile = EmptyFile -> Off
         [] OTHER -> [@ EXCEPT !.pc = "open", !.key = keyFile]]
  /\ UNCHANGED <<install, db, counters, arrangement>>

\* os.WriteFile opens and truncates, then writes.
CreateKey(p) ==
  /\ At(p, "create")
  /\ keyFile' = EmptyFile /\ keys' = keys + 1
  /\ proc' = [proc EXCEPT ![p].pc = "write", ![p].key = keys + 1]
  /\ UNCHANGED <<secrets, db, counters, arrangement>>

WriteKey(p) ==
  /\ At(p, "write")
  /\ keyFile' = proc[p].key
  /\ Step(p, "open")
  /\ UNCHANGED <<keys, secrets, db, counters, arrangement>>

\* The files are compared with the record once, before the first is applied.
Open(p) ==
  /\ At(p, "open")
  /\ proc' = [proc EXCEPT ![p].pc = "migrate", ![p].todo = Files \ db.applied]
  /\ UNCHANGED <<install, db, counters, arrangement>>

\* Mutant: the record is written with INSERT OR IGNORE.
Migrate_Reapplies(p) ==
  /\ At(p, "migrate") /\ proc[p].todo # {}
  /\ LET f == Min(proc[p].todo)
     IN  IF Runs(f, db)
         THEN db' = Apply(f, db) /\ proc' = [proc EXCEPT ![p].todo = @ \ {f}]
         ELSE proc' = [proc EXCEPT ![p] = Off] /\ UNCHANGED db
  /\ UNCHANGED <<install, counters, arrangement>>

\* Mutant: a file that fails is tried again.
Migrate_Retries(p) ==
  /\ At(p, "migrate") /\ proc[p].todo # {}
  /\ LET f == Min(proc[p].todo)
     IN  f \notin db.applied /\ Runs(f, db)
         /\ db' = Apply(f, db) /\ proc' = [proc EXCEPT ![p].todo = @ \ {f}]
  /\ UNCHANGED <<install, counters, arrangement>>

\* One file in one transaction.  Another process may have applied it since:
\* then its SQL fails, or the primary key of the record does, the transaction
\* is rolled back and the process ends with an error.
Migrate(p) ==
  /\ At(p, "migrate") /\ proc[p].todo # {}
  /\ LET f == Min(proc[p].todo)
     IN  IF f \notin db.applied /\ Runs(f, db)
         THEN db' = Apply(f, db) /\ proc' = [proc EXCEPT ![p].todo = @ \ {f}]
         ELSE proc' = [proc EXCEPT ![p] = Off] /\ UNCHANGED db
  /\ UNCHANGED <<install, counters, arrangement>>

\* The daemon seeds the built-in upstream before it is of use to anybody.
Seed(p) ==
  /\ At(p, "migrate") /\ proc[p].todo = {}
  /\ db' = IF p = Daemon THEN [db EXCEPT !.ups = @ \cup {"default"}] ELSE db
  /\ Step(p, "ready")
  /\ UNCHANGED <<install, counters, arrangement>>

-----------------------------------------------------------------------------
(* An open database in use.                                                *)

Change == changes < MaxChanges /\ changes' = changes + 1

\* InsertApiKey, by the daemon or by "piod add-key".
AddKey(p) ==
  /\ At(p, "ready") /\ Change
  /\ secrets' = secrets \cup {proc[p].key}
  /\ UNCHANGED <<keyFile, keys, db, proc, exits, arrangement>>

Insert(u, order) ==
  /\ At(Daemon, "ready") /\ u \in Users \ Known(db) /\ Change
  /\ db' = [db EXCEPT !.user = [v \in Known(db) \cup {u} |->
               IF v = u THEN Row(Null, FALSE, order) ELSE db.user[v]]]
  /\ added' = [v \in DOMAIN added \cup {u} |-> IF v = u THEN changes' ELSE added[v]]
  /\ UNCHANGED <<install, proc, exits, arranged>>

\* Mutant: the next position is taken from the number of rows.
InsertLocalUser_Counts(u) == Insert(u, Cardinality(Known(db)))

InsertLocalUser(u) ==
  Insert(u, IF Known(db) = {} THEN 0 ELSE 1 + Max({db.user[v].order : v \in Known(db)}))

DeleteLocalUser(u) ==
  /\ At(Daemon, "ready") /\ u \in Known(db) /\ Change
  /\ db' = [db EXCEPT !.user = [v \in Known(db) \ {u} |-> db.user[v]]]
  /\ arranged' = Restrict(arranged, DOMAIN arranged \ {u})
  /\ added' = Restrict(added, DOMAIN added \ {u})
  /\ UNCHANGED <<install, proc, exits>>

UpdateLocalUserMapping(u) ==
  /\ At(Daemon, "ready") /\ u \in Known(db) /\ Change
  /\ \E up \in db.ups \cup {Null} :
       db' = [db EXCEPT !.user[u] = [@ EXCEPT !.up = up, !.broken = (up = Null)]]
  /\ UNCHANGED <<install, proc, exits, arrangement>>

\* The list comes from a page that may have been loaded before users were
\* added or deleted: any list of names without repetition.
Lists == UNION {[1..n -> Users] : n \in 1..Cardinality(Users)}
PageLists == {s \in Lists : \A i, j \in DOMAIN s : s[i] = s[j] => i = j}
Listed(s) == {u \in Known(db) : \E i \in DOMAIN s : s[i] = u}
Place(s, u) == CHOOSE i \in DOMAIN s : s[i] = u

ReorderLocalUsers ==
  /\ At(Daemon, "ready") /\ Change
  /\ \E s \in PageLists :
       /\ db' = [db EXCEPT !.user = [u \in Known(db) |->
            IF u \in Listed(s) THEN [db.user[u] EXCEPT !.order = Place(s, u) - 1]
            ELSE db.user[u]]]
       /\ arranged' = [u \in Listed(s) |-> Place(s, u)]
  /\ added' = <<>>
  /\ UNCHANGED <<install, proc, exits>>

-----------------------------------------------------------------------------
Boot(p) == ReadKey(p) \/ CreateKey(p) \/ WriteKey(p) \/ Open(p) \/ Migrate(p) \/ Seed(p)

Use ==
  \/ \E p \in Procs : AddKey(p)
  \/ \E u \in Users : InsertLocalUser(u) \/ DeleteLocalUser(u) \/ UpdateLocalUserMapping(u)
  \/ ReorderLocalUsers

Next == (\E p \in Procs : Start(p) \/ Exit(p) \/ Boot(p)) \/ Use

\* The daemon is restarted whenever it ends, and a process that runs goes on.
Fairness == WF_vars(Start(Daemon)) /\ \A p \in Procs : WF_vars(Boot(p))

Spec == Init /\ [][Next]_vars /\ Fairness

-----------------------------------------------------------------------------
(* Properties.                                                             *)

TypeOK ==
  /\ keyFile \in {NoFile, EmptyFile} \cup 0..keys /\ keys \in Nat
  /\ db.applied \subseteq Files /\ db.ups \subseteq {"w1", "m1", "direct", "default"}
  /\ Known(db) \subseteq Users
  /\ \A u \in Known(db) : db.user[u].up \in db.ups \cup {Null} /\ db.user[u].order \in Nat
  /\ \A p \in Procs : proc[p].todo \subseteq Files

\* At every moment, whatever crashed and whoever else migrates, the schema is
\* that of the files recorded, which are the first ones; and whoever has opened
\* the database has all of them, the daemon its default row too
\* (store.go:6-9; upstreams.go:143-144, "so the row always exists").
SchemaCurrent ==
  /\ db.schema = Schema(db.applied) /\ db.applied = 1..Cardinality(db.applied)
  /\ \A p \in Procs : At(p, "ready") => db.applied = Files
  /\ At(Daemon, "ready") => "default" \in db.ups

\* A release that is started again leaves the mappings alone, and of the
\* upgrades only files 4 and 10 clear them (and 11 those to "direct").
MappingsKept ==
  [][\A u \in Known(db) \cap Known(db)' :
       changes' = changes /\ db'.user[u].up # db.user[u].up
         => \/ db.user[u].up = "direct"
            \/ db'.applied \ db.applied \in {{4}, {10}}]_vars

\* Every stored secret can be decrypted with the key on the disk, the next
\* start's key (master_key.go:21-23, "losing the master key means losing every
\* encrypted column").
SecretsReadable == \A k \in secrets : keyFile = k

\* Administrators see the order they have arranged: the listed users in the
\* order of the last list, and a user added later below everyone
\* (users.go:13-15, 48-50), across restarts and upgrades.
Before(u, v) ==
  \/ db.user[u].order < db.user[v].order
  \/ db.user[u].order = db.user[v].order /\ u < v
OrderAsArranged ==
  /\ \A u, v \in DOMAIN arranged : arranged[u] < arranged[v] => Before(u, v)
  /\ \A v \in DOMAIN added : \A u \in Known(db) \ {v} :
       (u \in DOMAIN added => added[u] < added[v]) => Before(u, v)

\* However often a daemon is stopped, in the end one is ready, unless one was
\* stopped between the creation of the key file and its write: then none ever is.
BootsInTheEnd == []<>(At(Daemon, "ready") \/ keyFile = EmptyFile)

\* What files 4 and 10 say, "keeping local_users.upstream_proxy_id
\* FK-consistent" with every old row in place (0004_manual_proxies.sql:11-12, 0010_direct_proxy.sql:11-13).
UpgradeKeepsMappings ==
  [][\A u \in Known(db) \cap Known(db)' :
       db'.applied # db.applied /\ db.user[u].up \notin {"direct", Null}
         => db'.user[u].up = db.user[u].up]_vars

\* A user without an upstream that once had one is flagged
\* (0001_init.sql:50-51, "The app also flips broken=true in the same txn").
UnmappedIsFlagged ==
  [][\A u \in Known(db) \cap Known(db)' :
       db.user[u].up # Null /\ db'.user[u].up = Null => db'.user[u].broken]_vars

\* Users that a list leaves out "appear after the reordered set"
\* (users.go:112-114).
UnlistedFollow ==
  \A u \in DOMAIN arranged : \A v \in Known(db) \ DOMAIN arranged : Before(u, v)

=============================================================================
