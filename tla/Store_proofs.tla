---------------------------- MODULE Store_proofs ----------------------------
(***************************************************************************)
(* Theorems about Store, for any finite set of user names, any releases    *)
(* before and any number of ends and changes: the schema is that of the    *)
(* files recorded, restarts leave the mappings alone, the user list keeps  *)
(* the order it was given, and, if the first start is alone, every secret  *)
(* can be decrypted.                                                       *)
(*                                                                         *)
(* The invariant follows the key file from its absence over the empty file *)
(* to the key in it, and says that what a process still has to apply       *)
(* includes whatever the database lacks.                                   *)
(***************************************************************************)
EXTENDS Store, FiniteSetTheorems, WellFoundedInduction, TLAPS

Pcs == {"off", "key", "create", "write", "open", "migrate", "ready"}
Names == UNION {Adds[f] : f \in Files}
Ups == {"w1", "m1", "direct", "default"}
UserRow == [up : Ups \cup {Null}, broken : BOOLEAN, order : Nat]
Tables == UNION {[D -> UserRow] : D \in SUBSET Users}

\* The types, and every mapping names a row that exists.
CountersOK ==
  /\ keys \in Nat /\ keyFile \in {NoFile, EmptyFile} \cup 0..keys
  /\ exits \in Nat /\ changes \in Nat
ProcOK == proc \in [Procs -> [pc : Pcs, key : 0..keys, todo : SUBSET Files]]
DbOK == db \in [applied : SUBSET Files, schema : SUBSET Names, ups : SUBSET Ups, user : Tables]
Mapped == \A u \in Known(db) : db.user[u].up \in db.ups \cup {Null}

\* The files applied are the first ones, and the schema is theirs.
Prefix == \E n \in 0..11 : db.applied = 1..n /\ db.schema = Schema(1..n)

\* A process that migrates has every missing file still to apply; one that
\* is ready has seen the last of them applied.
Pending ==
  \A p \in Procs :
    /\ At(p, "migrate") => Files \ db.applied \subseteq proc[p].todo
    /\ At(p, "ready") => db.applied = Files
Seeded == At(Daemon, "ready") => "default" \in db.ups

\* The life of the key file.  While there is none, one process runs at most
\* and nothing is stored; an empty one belongs to the process that is about
\* to write it, if that still runs; a written one is the key of everybody.
NoKeyYet ==
  keyFile = NoFile =>
    /\ secrets = {}
    /\ \A p \in Procs : proc[p].pc \in {"off", "key", "create"}
    /\ \A p, q \in Procs : ~At(p, "off") /\ ~At(q, "off") => p = q
KeyInTheMaking ==
  keyFile = EmptyFile =>
    /\ secrets = {}
    /\ \A p \in Procs : proc[p].pc \in {"off", "key", "write"}
    /\ \A p, q \in Procs : At(p, "write") /\ At(q, "write") => p = q
KeyWritten ==
  keyFile \notin {NoFile, EmptyFile} =>
    /\ secrets \subseteq {keyFile}
    /\ \A p \in Procs :
         \/ proc[p].pc \in {"off", "key"}
         \/ proc[p].pc \in {"open", "migrate", "ready"} /\ proc[p].key = keyFile

\* The order of the list: a user it places keeps the position of that place,
\* and one added since is behind all those who were there.  There is such a
\* history only once the last file is applied: file 2 comes before it.
Arranged ==
  /\ DOMAIN arranged \subseteq Known(db)
  /\ \A u \in DOMAIN arranged : arranged[u] \in Nat /\ db.user[u].order = arranged[u] - 1
Behind ==
  /\ DOMAIN added \subseteq Known(db)
  /\ \A v \in DOMAIN added :
       /\ v \notin DOMAIN arranged /\ added[v] \in 0..changes
       /\ \A u \in Known(db) \ {v} :
            (u \in DOMAIN added => added[u] < added[v]) => db.user[u].order < db.user[v].order
Settled == DOMAIN arranged \cup DOMAIN added # {} => db.applied = Files
OrderInv == Arranged /\ Behind /\ Settled

IInv ==
  /\ CountersOK /\ ProcOK /\ DbOK /\ Mapped /\ Prefix /\ Pending /\ Seeded
KeyInv == NoKeyYet /\ KeyInTheMaking /\ KeyWritten
-----------------------------------------------------------------------------
\* A finite set of integers has a least and a greatest member.
LEMMA FiniteHasMin ==
  ASSUME NEW S \in SUBSET Int, IsFiniteSet(S), S # {}
  PROVE  Min(S) \in S /\ \A x \in S : Min(S) <= x
<1> DEFINE Bad == {A \in SUBSET S : A # {} /\ ~ \E x \in A : \A y \in A : x <= y}
<1>1. Bad = {}
  <2> SUFFICES ASSUME Bad # {} PROVE FALSE
    OBVIOUS
  <2>1. FiniteSubsetsOf(S) = SUBSET S BY FS_FiniteSubsetsOfFinite
  <2>2. IsWellFoundedOn(StrictSubsetOrdering(S), SUBSET S)
    BY <2>1, FS_StrictSubsetOrderingWellFounded
  <2>3. PICK A \in Bad : \A B \in Bad : ~(<<B, A>> \in StrictSubsetOrdering(S))
    BY <2>2, WFMin
  <2>4. PICK a \in A : TRUE BY <2>3
  <2>5. CASE A \ {a} = {}
    BY <2>4, <2>5
  <2>6. CASE A \ {a} # {}
    <3>1. A \ {a} \notin Bad BY <2>3, <2>4 DEF StrictSubsetOrdering
    <3>2. PICK x \in A \ {a} : \A y \in A \ {a} : x <= y BY <2>6, <3>1
    <3>3. a \in Int /\ x \in Int BY <2>4, <3>2
    <3>4. CASE x <= a BY <3>2, <3>4
    <3>5. CASE ~(x <= a)
      <4>1. \A y \in A : y \in Int BY <2>3
      <4>2. \A y \in A : a <= y BY <3>2, <3>3, <3>5, <4>1
      <4> QED BY <2>4, <4>2
    <3> QED BY <3>4, <3>5
  <2> QED BY <2>5, <2>6
<1>2. \E x \in S : \A y \in S : x <= y BY <1>1
<1> QED BY <1>2 DEF Min

LEMMA FiniteHasMax ==
  ASSUME NEW S \in SUBSET Int, IsFiniteSet(S), S # {}
  PROVE  Max(S) \in S /\ \A x \in S : x <= Max(S)
<1> DEFINE Bad == {A \in SUBSET S : A # {} /\ ~ \E x \in A : \A y \in A : x >= y}
<1>1. Bad = {}
  <2> SUFFICES ASSUME Bad # {} PROVE FALSE
    OBVIOUS
  <2>1. FiniteSubsetsOf(S) = SUBSET S BY FS_FiniteSubsetsOfFinite
  <2>2. IsWellFoundedOn(StrictSubsetOrdering(S), SUBSET S)
    BY <2>1, FS_StrictSubsetOrderingWellFounded
  <2>3. PICK A \in Bad : \A B \in Bad : ~(<<B, A>> \in StrictSubsetOrdering(S))
    BY <2>2, WFMin
  <2>4. PICK a \in A : TRUE BY <2>3
  <2>5. CASE A \ {a} = {}
    BY <2>4, <2>5
  <2>6. CASE A \ {a} # {}
    <3>1. A \ {a} \notin Bad BY <2>3, <2>4 DEF StrictSubsetOrdering
    <3>2. PICK x \in A \ {a} : \A y \in A \ {a} : x >= y BY <2>6, <3>1
    <3>3. a \in Int /\ x \in Int BY <2>4, <3>2
    <3>4. CASE x >= a BY <3>2, <3>4
    <3>5. CASE ~(x >= a)
      <4>1. \A y \in A : y \in Int BY <2>3
      <4>2. \A y \in A : a >= y BY <3>2, <3>3, <3>5, <4>1
      <4> QED BY <2>4, <4>2
    <3> QED BY <3>4, <3>5
  <2> QED BY <2>5, <2>6
<1>2. \E x \in S : \A y \in S : x >= y BY <1>1
<1> QED BY <1>2 DEF Max

\* Users are kept in a table of rows.
LEMMA UserTable ==
  ASSUME DbOK
  PROVE  db.user \in [Known(db) -> UserRow] /\ Known(db) \in SUBSET Users
  BY DEF DbOK, Tables, Known

\* The next position of InsertLocalUser is a number: a table is finite.
LEMMA NextOrder ==
  ASSUME DbOK, Known(db) # {}
  PROVE  /\ 1 + Max({db.user[v].order : v \in Known(db)}) \in Nat
         /\ \A u \in Known(db) :
              db.user[u].order < 1 + Max({db.user[v].order : v \in Known(db)})
<1> DEFINE orders == {db.user[v].order : v \in Known(db)}
           f == [v \in Known(db) |-> db.user[v].order]
<1>1. orders \in SUBSET Nat /\ orders # {} BY UserTable DEF UserRow
<1>2. IsFiniteSet(Known(db)) BY UserTable, StoreAssumption, FS_Subset
<1>3. f \in Surjection(Known(db), orders) BY DEF Surjection
<1>4. IsFiniteSet(orders) BY <1>2, <1>3, FS_Surjection
<1>5. Max(orders) \in Nat /\ \A x \in orders : x <= Max(orders)
  <2>1. orders \in SUBSET Int BY <1>1
  <2> HIDE DEF orders
  <2>2. Max(orders) \in orders /\ \A x \in orders : x <= Max(orders)
    BY <1>1, <1>4, <2>1, FiniteHasMax
  <2> QED BY <1>1, <2>2
<1>6. ASSUME NEW u \in Known(db) PROVE db.user[u].order < 1 + Max(orders)
  <2>1. db.user[u].order \in orders OBVIOUS
  <2> HIDE DEF orders
  <2>2. db.user[u].order \in Nat BY <1>1, <2>1
  <2> QED BY <1>5, <2>1, <2>2
<1> QED BY <1>5, <1>6

\* No file adds what an earlier one has removed: the schema of the first
\* files grows by what each adds and loses what it removes.
LEMMA SchemaGrows ==
  ASSUME NEW n \in 0..10
  PROVE  Schema(1..(n + 1)) = (Schema(1..n) \cup Adds[n + 1]) \ Removes(n + 1)
<1>1. \A g \in 1..n : Adds[n + 1] \cap Removes(g) = {}
  BY DEF Adds, Removes
<1>2. \A g : g \in 1..(n + 1) <=> g \in 1..n \/ g = n + 1
  OBVIOUS
<1>3. ASSUME NEW x
      PROVE  /\ x \in UNION {Adds[f] : f \in 1..(n + 1)}
                  <=> x \in UNION {Adds[f] : f \in 1..n} \/ x \in Adds[n + 1]
             /\ x \in UNION {Removes(f) : f \in 1..(n + 1)}
                  <=> x \in UNION {Removes(f) : f \in 1..n} \/ x \in Removes(n + 1)
             /\ x \in Adds[n + 1] => x \notin UNION {Removes(f) : f \in 1..n}
  <2>1. x \in UNION {Adds[f] : f \in 1..(n + 1)}
          <=> x \in UNION {Adds[f] : f \in 1..n} \/ x \in Adds[n + 1]
    BY <1>2, Zenon
  <2>2. x \in UNION {Removes(f) : f \in 1..(n + 1)}
          <=> x \in UNION {Removes(f) : f \in 1..n} \/ x \in Removes(n + 1)
    BY <1>2, Zenon
  <2>3. x \in Adds[n + 1] => x \notin UNION {Removes(f) : f \in 1..n}
    BY <1>1, Zenon
  <2> QED BY <2>1, <2>2, <2>3
<1>4. ASSUME NEW x
      PROVE  x \in Schema(1..(n + 1)) <=> x \in (Schema(1..n) \cup Adds[n + 1]) \ Removes(n + 1)
  <2>1. x \in Schema(1..n) <=> (/\ x \in UNION {Adds[f] : f \in 1..n}
                                /\ x \notin UNION {Removes(f) : f \in 1..n})
    BY Zenon DEF Schema
  <2>2. x \in Schema(1..(n + 1)) <=> (/\ x \in UNION {Adds[f] : f \in 1..(n + 1)}
                                      /\ x \notin UNION {Removes(f) : f \in 1..(n + 1)})
    BY Zenon DEF Schema
  <2>3. x \in (Schema(1..n) \cup Adds[n + 1]) \ Removes(n + 1)
          <=> (x \in Schema(1..n) \/ x \in Adds[n + 1]) /\ x \notin Removes(n + 1)
    BY Zenon
  <2> QED BY <1>3, <2>1, <2>2, <2>3, Zenon
<1> QED BY <1>4, Zenon

\* The file a process applies next, unless another has applied it, is the one
\* behind those recorded.
LEMMA NextFile ==
  ASSUME NEW n \in 0..11, db.applied = 1..n, ProcOK, Pending,
         NEW p \in Procs, At(p, "migrate"), proc[p].todo # {},
         Min(proc[p].todo) \notin db.applied
  PROVE  n < 11 /\ Min(proc[p].todo) = n + 1
<1> DEFINE T == proc[p].todo
<1>1. T \in SUBSET Files BY DEF ProcOK
<1>2. IsFiniteSet(T)
  <2>1. IsFiniteSet(1..11)
    <3>1. 1 \in Int /\ 11 \in Int OBVIOUS
    <3> QED BY <3>1, FS_Interval
  <2> QED BY <1>1, <2>1, FS_Subset DEF Files
<1>3. Min(T) \in T /\ \A x \in T : Min(T) <= x
  BY <1>1, <1>2, FiniteHasMin DEF Files
<1>4. Min(T) \in n + 1..11 BY <1>1, <1>3 DEF Files
<1>5. n + 1 \in T BY <1>4 DEF Pending, Files
<1> QED BY <1>3, <1>4, <1>5

-----------------------------------------------------------------------------
\* A change of the user table leaves the rest of the database alone.
LEMMA NewTable ==
  ASSUME DbOK, NEW D \in SUBSET Users, NEW t \in [D -> UserRow],
         db' = [db EXCEPT !.user = t]
  PROVE  /\ DbOK' /\ Known(db)' = D /\ db'.user = t
         /\ db'.applied = db.applied /\ db'.schema = db.schema /\ db'.ups = db.ups
<1>1. t \in Tables BY DEF Tables
<1>2. /\ db'.user = t /\ db'.applied = db.applied
      /\ db'.schema = db.schema /\ db'.ups = db.ups
  OBVIOUS
<1>3. DbOK' BY <1>1 DEF DbOK
<1> QED BY <1>2, <1>3 DEF Known

\* What the files do to the user table: each row keeps its user, and its
\* mapping unless the file clears it.
LEMMA ApplyTable ==
  ASSUME DbOK, Mapped, NEW f \in Files
  PROVE  /\ Apply(f, db) \in [applied : SUBSET Files, schema : SUBSET Names,
                              ups : SUBSET Ups, user : Tables]
         /\ \A u \in Known(db) : Apply(f, db).user[u].up \in Apply(f, db).ups \cup {Null}
         /\ Known(Apply(f, db)) = Known(db)
<1> DEFINE d == Apply(f, db)
<1>1. d.user \in [Known(db) -> UserRow]
  BY UserTable DEF Apply, UserRow, Row, Mapping
<1>2. Known(db) \in SUBSET Users BY UserTable
<1>3. d.user \in Tables BY <1>1, <1>2 DEF Tables
<1>4. d.applied \in SUBSET Files /\ d.ups \in SUBSET Ups BY DEF Apply, DbOK
<1>5. d.schema \in SUBSET Names BY DEF Apply, DbOK, Names
<1>6. d = [applied |-> d.applied, schema |-> d.schema, ups |-> d.ups, user |-> d.user]
  BY DEF Apply
<1>7. d \in [applied : SUBSET Files, schema : SUBSET Names, ups : SUBSET Ups, user : Tables]
  <2> HIDE DEF d
  <2> QED BY <1>3, <1>4, <1>5, <1>6
<1>8. ASSUME NEW u \in Known(db) PROVE d.user[u].up \in d.ups \cup {Null}
  <2>1. d.user[u].up = Mapping(f, db.user[u]) BY DEF Apply, Row
  <2>2. db.user[u].up \in db.ups \cup {Null} BY DEF Mapped
  <2>3. d.ups = IF f = 11 THEN db.ups \ {"direct"} ELSE db.ups BY DEF Apply
  <2> QED BY <2>1, <2>2, <2>3 DEF Mapping
<1>9. Known(d) = Known(db) BY <1>1 DEF Known
<1> QED BY <1>7, <1>8, <1>9

\* A change of the user table whose mappings name rows that exist keeps what
\* the invariant says of the database.
LEMMA TableStep ==
  ASSUME IInv, UNCHANGED <<install, proc, exits>>, Change,
         \E D \in SUBSET Users : \E t \in [D -> UserRow] :
           /\ db' = [db EXCEPT !.user = t]
           /\ \A u \in D : t[u].up \in db.ups \cup {Null}
  PROVE  IInv'
<1> USE DEF IInv
<1>1. PICK D \in SUBSET Users : \E t \in [D -> UserRow] :
        /\ db' = [db EXCEPT !.user = t]
        /\ \A u \in D : t[u].up \in db.ups \cup {Null}
  OBVIOUS
<1>2. PICK t \in [D -> UserRow] :
        /\ db' = [db EXCEPT !.user = t]
        /\ \A u \in D : t[u].up \in db.ups \cup {Null}
  BY <1>1
<1>3. /\ DbOK' /\ Known(db)' = D /\ db'.user = t
      /\ db'.applied = db.applied /\ db'.schema = db.schema /\ db'.ups = db.ups
  BY <1>2, NewTable
<1>4. Mapped' BY <1>2, <1>3 DEF Mapped
<1>5. Prefix' /\ Pending' /\ Seeded' BY <1>3 DEF Prefix, Pending, Seeded, At
<1>6. CountersOK' /\ ProcOK' BY DEF CountersOK, ProcOK, Change, install
<1> QED BY <1>3, <1>4, <1>5, <1>6

-----------------------------------------------------------------------------
\* a process starts with nothing of its own.
LEMMA StartStep ==
  ASSUME IInv, NEW p \in Procs, Start(p)
  PROVE  IInv'
<1> USE StoreAssumption DEF IInv
<1>1. ProcOK'
  BY DEF Start, Step, ProcOK, Pcs, install
<1>2. Pending'
  BY DEF Start, Step, Pending, At
<1>3. Seeded'
  BY DEF Start, Step, Seeded, At
<1>4. CountersOK' /\ DbOK' /\ Mapped' /\ Prefix'
  BY DEF Start, CountersOK, DbOK, Mapped, Prefix, install, counters
<1> QED BY <1>1, <1>2, <1>3, <1>4

\* a process ends and forgets everything.
LEMMA ExitStep ==
  ASSUME IInv, NEW p \in Procs, Exit(p)
  PROVE  IInv'
<1> USE StoreAssumption DEF IInv
<1>1. CountersOK'
  BY DEF Exit, CountersOK, install
<1>2. ProcOK'
  BY DEF Exit, Off, ProcOK, Pcs, CountersOK, install
<1>3. Pending'
  BY DEF Exit, Off, Pending, At
<1>4. Seeded'
  BY DEF Exit, Off, Seeded, At
<1>5. DbOK' /\ Mapped' /\ Prefix'
  BY DEF Exit, DbOK, Mapped, Prefix
<1> QED BY <1>1, <1>2, <1>3, <1>4, <1>5

\* LoadOrCreate reads the file: the key, a new one to make, or an error.
LEMMA ReadKeyStep ==
  ASSUME IInv, NEW p \in Procs, ReadKey(p)
  PROVE  IInv'
<1> USE StoreAssumption DEF IInv
<1>1. ProcOK'
  <2>1. CASE keyFile = NoFile
    <3>1. proc' = [proc EXCEPT ![p] = [@ EXCEPT !.pc = "create"]] /\ keys' = keys
      BY <2>1 DEF ReadKey, NoFile, EmptyFile, install
    <3>2. "create" \in Pcs BY DEF Pcs
    <3> QED BY <3>1, <3>2 DEF ProcOK
  <2>2. CASE keyFile = EmptyFile
    BY <2>2 DEF ReadKey, ProcOK, Pcs, Off, CountersOK, install
  <2>3. CASE keyFile \notin {NoFile, EmptyFile}
    <3>1. keyFile \in 0..keys BY <2>3 DEF CountersOK
    <3>2. proc' = [proc EXCEPT ![p] = [@ EXCEPT !.pc = "open", !.key = keyFile]]
      BY <2>3 DEF ReadKey
    <3>3. "open" \in Pcs /\ keys' = keys BY DEF ReadKey, Pcs, install
    <3> QED BY <3>1, <3>2, <3>3 DEF ProcOK
  <2> QED BY <2>1, <2>2, <2>3
<1>2. Pending'
  BY DEF ReadKey, Off, Pending, At
<1>3. Seeded'
  BY DEF ReadKey, Off, Seeded, At
<1>4. CountersOK' /\ DbOK' /\ Mapped' /\ Prefix'
  BY DEF ReadKey, CountersOK, DbOK, Mapped, Prefix, install, counters
<1> QED BY <1>1, <1>2, <1>3, <1>4

\* the file is opened and truncated; the new key is in memory only.
LEMMA CreateKeyStep ==
  ASSUME IInv, NEW p \in Procs, CreateKey(p)
  PROVE  IInv'
<1> USE StoreAssumption DEF IInv
<1>1. CountersOK'
  BY DEF CreateKey, CountersOK, counters
<1>2. ProcOK'
  BY DEF CreateKey, ProcOK, CountersOK
<1>3. Pending'
  BY DEF CreateKey, Pending, At, ProcOK
<1>4. Seeded'
  BY DEF CreateKey, Seeded, At, ProcOK, Procs
<1>5. DbOK' /\ Mapped' /\ Prefix'
  BY DEF CreateKey, DbOK, Mapped, Prefix
<1> QED BY <1>1, <1>2, <1>3, <1>4, <1>5

\* the key is in the file.
LEMMA WriteKeyStep ==
  ASSUME IInv, NEW p \in Procs, WriteKey(p)
  PROVE  IInv'
<1> USE StoreAssumption DEF IInv
<1>1. CountersOK'
  <2>1. keyFile' \in 0..keys BY DEF WriteKey, ProcOK
  <2> QED BY <2>1 DEF WriteKey, CountersOK, counters
<1>2. ProcOK'
  BY DEF WriteKey, Step, ProcOK, Pcs
<1>3. Pending'
  BY DEF WriteKey, Step, Pending, At
<1>4. Seeded'
  BY DEF WriteKey, Step, Seeded, At
<1>5. DbOK' /\ Mapped' /\ Prefix'
  BY DEF WriteKey, DbOK, Mapped, Prefix
<1> QED BY <1>1, <1>2, <1>3, <1>4, <1>5

\* what is missing at that moment is to be applied.
LEMMA OpenStep ==
  ASSUME IInv, NEW p \in Procs, Open(p)
  PROVE  IInv'
<1> USE StoreAssumption DEF IInv
<1>1. ProcOK'
  <2>1. /\ proc' = [proc EXCEPT ![p].pc = "migrate", ![p].todo = Files \ db.applied]
        /\ keys' = keys
    BY DEF Open, install
  <2>2. Files \ db.applied \in SUBSET Files /\ "migrate" \in Pcs BY DEF Pcs
  <2> QED BY <2>1, <2>2 DEF ProcOK
<1>2. Pending'
  BY DEF Open, Pending, At, ProcOK
<1>3. Seeded'
  BY DEF Open, Seeded, At, ProcOK, Procs
<1>4. CountersOK' /\ DbOK' /\ Mapped' /\ Prefix'
  BY DEF Open, CountersOK, DbOK, Mapped, Prefix, install, counters
<1> QED BY <1>1, <1>2, <1>3, <1>4

\* Migrate: the next file is applied with its record, or the process ends.
LEMMA MigrateStep ==
  ASSUME IInv, NEW p \in Procs, Migrate(p)
  PROVE  IInv'
<1> USE DEF IInv
<1> DEFINE f == Min(proc[p].todo)
<1>1. CASE f \notin db.applied /\ Runs(f, db)
  <2>1. db' = Apply(f, db) /\ proc' = [proc EXCEPT ![p].todo = @ \ {f}]
    BY <1>1 DEF Migrate
  <2>2. PICK n \in 0..11 : db.applied = 1..n /\ db.schema = Schema(1..n)
    BY DEF Prefix
  <2>3. n \in 0..10 /\ f = n + 1
    <3>1. At(p, "migrate") /\ proc[p].todo # {} BY DEF Migrate
    <3>2. n < 11 /\ f = n + 1 BY <1>1, <2>2, <3>1, NextFile
    <3> QED BY <3>2
  <2>4. f \in Files BY <2>3 DEF Files
  <2>5. DbOK' /\ Mapped' /\ Known(db)' = Known(db)
    BY <2>1, <2>4, ApplyTable DEF DbOK, Mapped
  <2>6. /\ db'.applied = db.applied \cup {f}
        /\ db'.schema = (db.schema \cup Adds[f]) \ Removes(f)
        /\ "default" \in db.ups => "default" \in db'.ups
    BY <2>1 DEF Apply
  <2>7. Prefix'
    <3>1. db'.applied = 1..(n + 1) BY <2>2, <2>3, <2>6
    <3>2. db'.schema = (Schema(1..n) \cup Adds[n + 1]) \ Removes(n + 1)
      BY <2>2, <2>3, <2>6
    <3>3. Schema(1..(n + 1)) = (Schema(1..n) \cup Adds[n + 1]) \ Removes(n + 1)
      BY <2>3, SchemaGrows
    <3>4. db'.schema = Schema(1..(n + 1)) BY <3>2, <3>3, Zenon
    <3>5. n + 1 \in 0..11 BY <2>3
    <3> QED BY <3>1, <3>4, <3>5, Zenon DEF Prefix
  <2>8. ProcOK' BY <2>1 DEF ProcOK, Migrate, install
  <2>9. \A q \in Procs : proc'[q].pc = proc[q].pc
    BY <2>1
  <2>10. Pending'
    <3>1. \A q \in Procs : proc[q].todo \ {f} \subseteq proc'[q].todo
      BY <2>1
    <3>2. db.applied # Files BY <1>1, <2>4
    <3> QED BY <2>6, <2>9, <3>1, <3>2 DEF Pending, At
  <2>11. Seeded' BY <2>6, <2>9 DEF Seeded, At, Procs
  <2>12. CountersOK' BY DEF CountersOK, Migrate, install, counters
  <2> QED BY <2>5, <2>7, <2>8, <2>10, <2>11, <2>12
<1>2. CASE ~(f \notin db.applied /\ Runs(f, db))
  <2>1. proc' = [proc EXCEPT ![p] = Off] /\ db' = db BY <1>2 DEF Migrate
  <2>2. ProcOK' BY <2>1 DEF ProcOK, Off, Pcs, CountersOK, Migrate, install
  <2>3. Pending' /\ Seeded' BY <2>1 DEF Pending, Seeded, At, Off
  <2>4. CountersOK' /\ DbOK' /\ Mapped' /\ Prefix'
    BY <2>1 DEF CountersOK, DbOK, Mapped, Prefix, Migrate, install, counters
  <2> QED BY <2>2, <2>3, <2>4
<1> QED BY <1>1, <1>2


\* with every file applied, the daemon adds its default row.
LEMMA SeedStep ==
  ASSUME IInv, NEW p \in Procs, Seed(p)
  PROVE  IInv'
<1> USE StoreAssumption DEF IInv
<1>1. ProcOK'
  BY DEF Seed, Step, ProcOK, Pcs, install
<1>2. DbOK'
  BY DEF Seed, DbOK, Ups
<1>3. Mapped'
  BY DEF Seed, Mapped, Known
<1>4. Prefix'
  BY DEF Seed, Prefix, DbOK
<1>5. Pending'
  BY DEF Seed, Pending, DbOK
<1>6. Seeded'
  BY DEF Seed, Step, Seeded, At
<1>7. CountersOK'
  BY DEF Seed, CountersOK, install, counters
<1> QED BY <1>1, <1>2, <1>3, <1>4, <1>5, <1>6, <1>7

\* a key is stored; the tables stay.
LEMMA AddKeyStep ==
  ASSUME IInv, NEW p \in Procs, AddKey(p)
  PROVE  IInv'
<1> USE StoreAssumption DEF IInv
<1>1. CountersOK'
  BY DEF AddKey, Change, CountersOK
<1>2. ProcOK' /\ DbOK' /\ Mapped' /\ Prefix' /\ Pending' /\ Seeded'
  BY DEF AddKey, ProcOK, DbOK, Mapped, Prefix, Pending, Seeded, At
<1> QED BY <1>1, <1>2

\* InsertLocalUser: a row without an upstream, behind all others.
LEMMA InsertLocalUserStep ==
  ASSUME IInv, NEW u \in Users, InsertLocalUser(u)
  PROVE  IInv'
<1> USE DEF IInv
<1>1. PICK order \in Nat : Insert(u, order)
  BY NextOrder DEF InsertLocalUser
<1> DEFINE D == Known(db) \cup {u}
           t == [v \in D |-> IF v = u THEN Row(Null, FALSE, order) ELSE db.user[v]]
<1>2. D \in SUBSET Users /\ t \in [D -> UserRow]
  <2>1. Row(Null, FALSE, order) \in UserRow BY DEF Row, UserRow
  <2> QED BY <2>1, UserTable
<1>3. db' = [db EXCEPT !.user = t] BY <1>1 DEF Insert
<1>4. ASSUME NEW v \in D PROVE t[v].up \in db.ups \cup {Null}
  BY DEF Mapped, Row
<1> HIDE DEF D, t
<1>5. UNCHANGED <<install, proc, exits>> /\ Change BY <1>1 DEF Insert
<1> QED BY <1>2, <1>3, <1>4, <1>5, TableStep


\* DeleteLocalUser: the row is gone, the others stay.
LEMMA DeleteLocalUserStep ==
  ASSUME IInv, NEW u \in Users, DeleteLocalUser(u)
  PROVE  IInv'
<1> USE DEF IInv
<1> DEFINE D == Known(db) \ {u}
           t == [v \in D |-> db.user[v]]
<1>1. D \in SUBSET Users /\ t \in [D -> UserRow] BY UserTable
<1>2. db' = [db EXCEPT !.user = t] BY DEF DeleteLocalUser
<1>3. \A v \in D : t[v].up \in db.ups \cup {Null} BY DEF Mapped
<1> HIDE DEF D, t
<1>4. UNCHANGED <<install, proc, exits>> /\ Change BY DEF DeleteLocalUser
<1> QED BY <1>1, <1>2, <1>3, <1>4, TableStep


\* UpdateLocalUserMapping: the new mapping names a row, or none.
LEMMA UpdateLocalUserMappingStep ==
  ASSUME IInv, NEW u \in Users, UpdateLocalUserMapping(u)
  PROVE  IInv'
<1> USE DEF IInv
<1>1. PICK up \in db.ups \cup {Null} :
        db' = [db EXCEPT !.user[u] = [@ EXCEPT !.up = up, !.broken = (up = Null)]]
  BY DEF UpdateLocalUserMapping
<1> DEFINE D == Known(db)
           t == [db.user EXCEPT ![u] = [@ EXCEPT !.up = up, !.broken = (up = Null)]]
<1>2. up \in Ups \cup {Null} BY DEF DbOK
<1>3. u \in D BY DEF UpdateLocalUserMapping
<1>4. D \in SUBSET Users /\ t \in [D -> UserRow]
  <2>1. [db.user[u] EXCEPT !.up = up, !.broken = (up = Null)] \in UserRow
    <3> DEFINE b == (up = Null)
    <3>1. b \in BOOLEAN OBVIOUS
    <3> HIDE DEF b
    <3>2. [db.user[u] EXCEPT !.up = up, !.broken = b] \in UserRow
      BY <1>2, <1>3, <3>1, UserTable DEF UserRow
    <3> QED BY <3>2 DEF b
  <2> QED BY <2>1, UserTable
<1>5. db' = [db EXCEPT !.user = t] BY <1>1
<1>6. ASSUME NEW v \in D PROVE t[v].up \in db.ups \cup {Null}
  <2>1. CASE v = u
    <3>1. t[u] = [db.user[u] EXCEPT !.up = up, !.broken = (up = Null)]
      BY <1>3, UserTable
    <3>2. t[u].up = up BY <1>3, <3>1, UserTable
    <3> QED BY <2>1, <3>2
  <2>2. CASE v # u BY <2>2, UserTable DEF Mapped
  <2> QED BY <2>1, <2>2
<1> HIDE DEF D, t
<1>7. UNCHANGED <<install, proc, exits>> /\ Change BY DEF UpdateLocalUserMapping
<1> QED BY <1>4, <1>5, <1>6, <1>7, TableStep


\* A listed user has a place in the list.
LEMMA ListPlace ==
  ASSUME NEW s \in PageLists, NEW u \in Listed(s)
  PROVE  Place(s, u) \in Nat \ {0} /\ s[Place(s, u)] = u
<1>1. PICK n \in 1..Cardinality(Users) : s \in [1..n -> Users]
  BY DEF PageLists, Lists
<1>2. Cardinality(Users) \in Nat BY StoreAssumption, FS_CardinalityType
<1>3. Place(s, u) \in DOMAIN s /\ s[Place(s, u)] = u BY DEF Listed, Place
<1> QED BY <1>1, <1>2, <1>3

\* ReorderLocalUsers: the listed users take their place in the list.
LEMMA ReorderTable ==
  ASSUME DbOK, NEW s \in PageLists,
         db' = [db EXCEPT !.user = [u \in Known(db) |->
            IF u \in Listed(s) THEN [db.user[u] EXCEPT !.order = Place(s, u) - 1]
            ELSE db.user[u]]]
  PROVE  /\ db'.user \in [Known(db) -> UserRow] /\ db' = [db EXCEPT !.user = db'.user]
         /\ \A u \in Known(db) : db'.user[u].up = db.user[u].up
         /\ \A u \in Listed(s) : db'.user[u].order = Place(s, u) - 1
<1> DEFINE D == Known(db)
           t == [u \in D |-> IF u \in Listed(s)
                   THEN [db.user[u] EXCEPT !.order = Place(s, u) - 1] ELSE db.user[u]]
<1>1. ASSUME NEW u \in D, u \in Listed(s)
      PROVE  /\ [db.user[u] EXCEPT !.order = Place(s, u) - 1] \in UserRow
             /\ [db.user[u] EXCEPT !.order = Place(s, u) - 1].up = db.user[u].up
             /\ [db.user[u] EXCEPT !.order = Place(s, u) - 1].order = Place(s, u) - 1
  <2>1. Place(s, u) - 1 \in Nat BY <1>1, ListPlace
  <2>2. db.user[u] \in UserRow BY UserTable
  <2> QED BY <2>1, <2>2 DEF UserRow
<1>2. t \in [D -> UserRow] BY <1>1, UserTable
<1>3. db' = [db EXCEPT !.user = t] OBVIOUS
<1>4. \A u \in D : t[u].up = db.user[u].up BY <1>1
<1>5. \A u \in Listed(s) : t[u].order = Place(s, u) - 1 BY <1>1 DEF Listed
<1> HIDE DEF t
<1>6. db'.user = t BY <1>3 DEF DbOK
<1> QED BY <1>2, <1>3, <1>4, <1>5, <1>6

LEMMA ReorderLocalUsersStep ==
  ASSUME IInv, ReorderLocalUsers
  PROVE  IInv'
<1> USE DEF IInv
<1>1. PICK s \in PageLists :
        db' = [db EXCEPT !.user = [u \in Known(db) |->
            IF u \in Listed(s) THEN [db.user[u] EXCEPT !.order = Place(s, u) - 1]
            ELSE db.user[u]]]
  BY DEF ReorderLocalUsers
<1>2. /\ db'.user \in [Known(db) -> UserRow] /\ db' = [db EXCEPT !.user = db'.user]
      /\ \A v \in Known(db) : db'.user[v].up \in db.ups \cup {Null}
  BY <1>1, ReorderTable DEF Mapped
<1>3. UNCHANGED <<install, proc, exits>> /\ Change BY DEF ReorderLocalUsers
<1> QED BY <1>2, <1>3, UserTable, TableStep


\* while there is no key file, a process starts only if none runs.
LEMMA StartKey ==
  ASSUME Alone, IInv, KeyInv, NEW p \in Procs, Start(p)
  PROVE  KeyInv'
<1> USE StoreAssumption DEF IInv, KeyInv
<1>1. NoKeyYet'
  BY DEF Start, Step, NoKeyYet, At, install
<1>2. KeyInTheMaking'
  BY DEF Start, Step, KeyInTheMaking, At, install
<1>3. KeyWritten'
  BY DEF Start, Step, KeyWritten, install
<1> QED BY <1>1, <1>2, <1>3

\* a process that ends leaves the key file as it is.
LEMMA ExitKey ==
  ASSUME IInv, KeyInv, NEW p \in Procs, Exit(p)
  PROVE  KeyInv'
<1> USE StoreAssumption DEF IInv, KeyInv
<1>1. NoKeyYet'
  BY DEF Exit, Off, NoKeyYet, At, install
<1>2. KeyInTheMaking'
  BY DEF Exit, Off, KeyInTheMaking, At, install
<1>3. KeyWritten'
  BY DEF Exit, Off, KeyWritten, install
<1> QED BY <1>1, <1>2, <1>3

\* only without a file does a process go on to create one.
LEMMA ReadKeyKey ==
  ASSUME IInv, KeyInv, NEW p \in Procs, ReadKey(p)
  PROVE  KeyInv'
<1> USE StoreAssumption DEF IInv, KeyInv
<1>1. NoKeyYet'
  BY DEF ReadKey, NoKeyYet, At, NoFile, EmptyFile, install
<1>2. KeyInTheMaking'
  BY DEF ReadKey, Off, KeyInTheMaking, At, install
<1>3. KeyWritten'
  BY DEF ReadKey, KeyWritten, install
<1> QED BY <1>1, <1>2, <1>3

\* no other process runs, and nothing has been stored yet.
LEMMA CreateKeyKey ==
  ASSUME IInv, KeyInv, NEW p \in Procs, CreateKey(p)
  PROVE  KeyInv'
<1> USE StoreAssumption DEF IInv, KeyInv
<1>1. NoKeyYet'
  BY DEF CreateKey, ProcOK, CountersOK
<1>2. KeyInTheMaking'
  BY DEF CreateKey, ProcOK, CountersOK
<1>3. KeyWritten'
  BY DEF CreateKey, ProcOK, CountersOK
<1> QED BY <1>1, <1>2, <1>3

\* the only process that has a key writes it.
LEMMA WriteKeyKey ==
  ASSUME IInv, KeyInv, NEW p \in Procs, WriteKey(p)
  PROVE  KeyInv'
<1> USE StoreAssumption DEF IInv, KeyInv
<1>1. NoKeyYet'
  <2>1. keyFile' \in 0..keys BY DEF WriteKey, ProcOK
  <2> QED BY <2>1 DEF NoKeyYet, NoFile
<1>2. KeyInTheMaking'
  <2>1. keyFile' \in 0..keys BY DEF WriteKey, ProcOK
  <2> QED BY <2>1 DEF KeyInTheMaking, EmptyFile
<1>3. KeyWritten'
  BY DEF WriteKey, Step, KeyWritten, NoKeyYet, KeyInTheMaking, At, ProcOK
<1> QED BY <1>1, <1>2, <1>3

\* the key stays with the process.
LEMMA OpenKey ==
  ASSUME IInv, KeyInv, NEW p \in Procs, Open(p)
  PROVE  KeyInv'
<1> USE StoreAssumption DEF IInv, KeyInv
<1>1. NoKeyYet'
  BY DEF Open, NoKeyYet, At, install
<1>2. KeyInTheMaking'
  BY DEF Open, KeyInTheMaking, At, install
<1>3. KeyWritten'
  BY DEF Open, KeyWritten, At, ProcOK, install
<1> QED BY <1>1, <1>2, <1>3

\* no file touches the key.
LEMMA MigrateKey ==
  ASSUME IInv, KeyInv, NEW p \in Procs, Migrate(p)
  PROVE  KeyInv'
<1> USE StoreAssumption DEF IInv, KeyInv
<1>1. NoKeyYet'
  BY DEF Migrate, NoKeyYet, At, install
<1>2. KeyInTheMaking'
  BY DEF Migrate, KeyInTheMaking, At, install
<1>3. KeyWritten'
  BY DEF Migrate, Off, KeyWritten, ProcOK, install
<1> QED BY <1>1, <1>2, <1>3

\* the key stays with the process.
LEMMA SeedKey ==
  ASSUME IInv, KeyInv, NEW p \in Procs, Seed(p)
  PROVE  KeyInv'
<1> USE StoreAssumption DEF IInv, KeyInv
<1>1. NoKeyYet'
  BY DEF Seed, NoKeyYet, At, install
<1>2. KeyInTheMaking'
  BY DEF Seed, KeyInTheMaking, At, install
<1>3. KeyWritten'
  BY DEF Seed, Step, KeyWritten, At, install
<1> QED BY <1>1, <1>2, <1>3

\* a secret is stored with the key of the file.
LEMMA AddKeyKey ==
  ASSUME IInv, KeyInv, NEW p \in Procs, AddKey(p)
  PROVE  KeyInv'
<1> USE StoreAssumption DEF IInv, KeyInv
<1>1. NoKeyYet'
  BY DEF AddKey, NoKeyYet, At
<1>2. KeyInTheMaking'
  BY DEF AddKey, KeyInTheMaking, At
<1>3. KeyWritten'
  BY DEF AddKey, KeyWritten, At
<1> QED BY <1>1, <1>2, <1>3
-----------------------------------------------------------------------------
(* The order of the user list.                                             *)

\* As long as the table, the files and the history stay, so does the order.
LEMMA OrderStays ==
  ASSUME IInv, IInv', OrderInv, UNCHANGED arrangement,
         Known(db)' = Known(db), changes' >= changes,
         \A u \in Known(db) : db'.user[u].order = db.user[u].order,
         db.applied = Files => db'.applied = Files
  PROVE  OrderInv'
<1> USE DEF OrderInv, arrangement
<1>1. Arranged' BY DEF Arranged
<1>2. Behind'
  <2>1. changes \in Nat /\ changes' \in Nat BY DEF IInv, CountersOK
  <2>2. \A v \in DOMAIN added : added[v] \in 0..changes => added[v] \in 0..changes'
    BY <2>1
  <2> QED BY <2>2 DEF Behind
<1>3. Settled' BY DEF Settled
<1> QED BY <1>1, <1>2, <1>3

\* A file is applied only where one is missing, so where nobody has arranged
\* or added anything; and no file goes missing again.
LEMMA MigrateOrder ==
  ASSUME IInv, IInv', OrderInv, NEW p \in Procs, Migrate(p)
  PROVE  OrderInv'
<1>1. CASE db' = db
  BY <1>1, OrderStays DEF Migrate, counters, Known, IInv, CountersOK
<1>2. CASE db' # db
  <2> DEFINE f == Min(proc[p].todo)
  <2>1. f \notin db.applied /\ db' = Apply(f, db) /\ At(p, "migrate") /\ proc[p].todo # {}
    BY <1>2 DEF Migrate
  <2>2. PICK n \in 0..11 : db.applied = 1..n BY DEF IInv, Prefix
  <2>3. n < 11 BY <2>1, <2>2, NextFile DEF IInv
  <2>4. db.applied # Files
    <3>1. 11 \in Files /\ 11 \notin db.applied BY <2>2, <2>3 DEF Files
    <3> QED BY <3>1
  <2>5. DOMAIN arranged = {} /\ DOMAIN added = {} BY <2>4 DEF OrderInv, Settled
  <2>6. UNCHANGED arrangement BY DEF Migrate
  <2> QED BY <2>5, <2>6 DEF OrderInv, Arranged, Behind, Settled, arrangement
<1> QED BY <1>1, <1>2

\* InsertLocalUser: the new user is behind everyone.
LEMMA InsertOrder ==
  ASSUME IInv, IInv', OrderInv, NEW u \in Users, InsertLocalUser(u)
  PROVE  OrderInv'
<1> USE DEF OrderInv
<1>1. PICK order \in Nat :
        /\ Insert(u, order)
        /\ \A v \in Known(db) : db.user[v].order < order
  BY NextOrder DEF InsertLocalUser, IInv
<1> DEFINE D == Known(db) \cup {u}
           t == [v \in D |-> IF v = u THEN Row(Null, FALSE, order) ELSE db.user[v]]
<1>2. D \in SUBSET Users /\ t \in [D -> UserRow]
  <2>1. Row(Null, FALSE, order) \in UserRow BY DEF Row, UserRow
  <2> QED BY <2>1, UserTable DEF IInv
<1>3. db' = [db EXCEPT !.user = t] BY <1>1 DEF Insert
<1>4. Known(db)' = D /\ db'.user = t /\ db'.applied = db.applied
  <2> HIDE DEF D, t
  <2> QED BY <1>2, <1>3, NewTable DEF IInv
<1>5. /\ db'.user[u].order = order /\ u \notin Known(db)
      /\ \A v \in Known(db) : db'.user[v] = db.user[v]
  BY <1>1, <1>4 DEF Row, Insert
<1>6. /\ DOMAIN added' = DOMAIN added \cup {u}
      /\ added'[u] = changes + 1 /\ changes' = changes + 1
      /\ \A v \in DOMAIN added : v # u => added'[v] = added[v]
      /\ arranged' = arranged
  BY <1>1 DEF Insert, Change
<1> HIDE DEF D, t
<1>7. Arranged'
  <2>1. DOMAIN arranged \subseteq Known(db)' BY <1>4 DEF Arranged, D
  <2> QED BY <1>5, <1>6, <2>1 DEF Arranged
<1>8. Behind'
  <2>1. changes \in Nat BY DEF IInv, CountersOK
  <2>2. DOMAIN added' \subseteq Known(db)' BY <1>4, <1>6 DEF Behind, D
  <2>3. u \notin DOMAIN arranged /\ u \notin DOMAIN added BY <1>5 DEF Arranged, Behind
  <2>4. \A v \in DOMAIN added : added[v] \in 0..changes BY DEF Behind
  <2>5. \A v \in DOMAIN added' : v \notin DOMAIN arranged' /\ added'[v] \in 0..changes'
    BY <1>6, <2>1, <2>3, <2>4 DEF Behind
  <2>6. ASSUME NEW v \in DOMAIN added', NEW w \in Known(db)' \ {v},
               w \in DOMAIN added' => added'[w] < added'[v]
        PROVE  db'.user[w].order < db'.user[v].order
    <3>1. CASE v = u
      <4>1. w \in Known(db) BY <1>4, <2>6, <3>1 DEF D
      <4> QED BY <1>1, <1>5, <3>1, <4>1
    <3>2. CASE v # u
      <4>1. v \in DOMAIN added /\ added'[v] = added[v] /\ v \in Known(db)
        BY <1>6, <3>2 DEF Behind
      <4>2. w # u BY <1>6, <2>1, <2>4, <2>6, <4>1
      <4>3. w \in Known(db) \ {v} BY <1>4, <4>2 DEF D
      <4>4. w \in DOMAIN added => added[w] < added[v] BY <1>6, <2>6, <4>1, <4>2
      <4>5. db.user[w].order < db.user[v].order BY <4>1, <4>3, <4>4 DEF Behind
      <4> QED BY <1>5, <4>1, <4>3, <4>5
    <3> QED BY <3>1, <3>2
  <2> QED BY <2>2, <2>5, <2>6 DEF Behind
<1>9. Settled'
  <2>1. At(Daemon, "ready") BY <1>1 DEF Insert
  <2> QED BY <1>4, <2>1 DEF IInv, Pending, Procs, Settled
<1> QED BY <1>7, <1>8, <1>9

\* DeleteLocalUser: the others keep their positions.
LEMMA DeleteOrder ==
  ASSUME IInv, IInv', OrderInv, NEW u \in Users, DeleteLocalUser(u)
  PROVE  OrderInv'
<1> USE DEF OrderInv
<1> DEFINE D == Known(db) \ {u}
           t == [v \in D |-> db.user[v]]
<1>1. D \in SUBSET Users /\ t \in [D -> UserRow] BY UserTable DEF IInv
<1>2. db' = [db EXCEPT !.user = t] BY DEF DeleteLocalUser
<1>3. Known(db)' = D /\ db'.user = t /\ db'.applied = db.applied
  <2> HIDE DEF D, t
  <2> QED BY <1>1, <1>2, NewTable DEF IInv
<1>4. \A v \in D : db'.user[v] = db.user[v] BY <1>3
<1>5. /\ DOMAIN arranged' = DOMAIN arranged \ {u} /\ DOMAIN added' = DOMAIN added \ {u}
      /\ \A v \in DOMAIN arranged \ {u} : arranged'[v] = arranged[v]
      /\ \A v \in DOMAIN added \ {u} : added'[v] = added[v]
  BY DEF DeleteLocalUser, Restrict
<1> HIDE DEF t
<1>6. Arranged' BY <1>3, <1>4, <1>5 DEF Arranged
<1>7. Behind'
  <2>1. changes \in Nat /\ changes' = changes + 1
    BY DEF IInv, CountersOK, DeleteLocalUser, Change
  <2>2. \A v \in DOMAIN added' : v \notin DOMAIN arranged' /\ added'[v] \in 0..changes'
    BY <1>5, <2>1 DEF Behind
  <2>3. ASSUME NEW v \in DOMAIN added', NEW w \in Known(db)' \ {v},
               w \in DOMAIN added' => added'[w] < added'[v]
        PROVE  db'.user[w].order < db'.user[v].order
    <3>1. v \in DOMAIN added \ {u} /\ w \in D \ {v} BY <1>3, <1>5
    <3>2. v \in D BY <3>1 DEF Behind
    <3>3. w \in DOMAIN added => added[w] < added[v] BY <1>5, <2>3, <3>1
    <3>4. db.user[w].order < db.user[v].order BY <3>1, <3>3 DEF Behind
    <3> QED BY <1>4, <3>1, <3>2, <3>4
  <2>4. DOMAIN added' \subseteq Known(db)' BY <1>3, <1>5 DEF Behind
  <2> QED BY <2>2, <2>3, <2>4 DEF Behind
<1>8. Settled' BY <1>3, <1>5 DEF Settled
<1> QED BY <1>6, <1>7, <1>8

\* UpdateLocalUserMapping: the positions stay.
LEMMA MappingOrder ==
  ASSUME IInv, IInv', OrderInv, NEW u \in Users, UpdateLocalUserMapping(u)
  PROVE  OrderInv'
<1>1. PICK up \in db.ups \cup {Null} :
        db' = [db EXCEPT !.user[u] = [@ EXCEPT !.up = up, !.broken = (up = Null)]]
  BY DEF UpdateLocalUserMapping
<1>2. u \in Known(db) /\ db.user \in [Known(db) -> UserRow]
  BY UserTable DEF UpdateLocalUserMapping, IInv
<1>3. db'.user = [db.user EXCEPT ![u] = [@ EXCEPT !.up = up, !.broken = (up = Null)]]
  BY <1>1 DEF IInv, DbOK
<1>4. db'.applied = db.applied BY <1>1 DEF IInv, DbOK
<1>5. Known(db)' = Known(db) BY <1>2, <1>3 DEF Known
<1>6. ASSUME NEW v \in Known(db) PROVE db'.user[v].order = db.user[v].order
  <2>1. CASE v = u
    <3>1. db'.user[u] = [db.user[u] EXCEPT !.up = up, !.broken = (up = Null)]
      BY <1>2, <1>3
    <3> QED BY <1>2, <2>1, <3>1 DEF UserRow
  <2>2. CASE v # u BY <1>2, <1>3, <2>2
  <2> QED BY <2>1, <2>2
<1>7. UNCHANGED arrangement /\ changes' >= changes
  BY DEF UpdateLocalUserMapping, Change, IInv, CountersOK
<1> QED BY <1>4, <1>5, <1>6, <1>7, OrderStays

\* ReorderLocalUsers: the list begins a new history.
LEMMA ReorderOrder ==
  ASSUME IInv, IInv', OrderInv, ReorderLocalUsers
  PROVE  OrderInv'
<1> USE DEF OrderInv
<1>1. PICK s \in PageLists :
        /\ db' = [db EXCEPT !.user = [u \in Known(db) |->
             IF u \in Listed(s) THEN [db.user[u] EXCEPT !.order = Place(s, u) - 1]
             ELSE db.user[u]]]
        /\ arranged' = [u \in Listed(s) |-> Place(s, u)]
  BY DEF ReorderLocalUsers
<1>2. /\ db'.user \in [Known(db) -> UserRow] /\ db' = [db EXCEPT !.user = db'.user]
      /\ \A u \in Listed(s) : db'.user[u].order = Place(s, u) - 1
  BY <1>1, ReorderTable DEF IInv
<1>3. Known(db)' = Known(db) /\ db'.applied = db.applied
  BY <1>2, UserTable, NewTable DEF IInv
<1>4. DOMAIN added' = {} BY DEF ReorderLocalUsers
<1>5. Arranged'
  <2>1. DOMAIN arranged' \subseteq Known(db)' BY <1>1, <1>3 DEF Listed
  <2>2. ASSUME NEW u \in DOMAIN arranged'
        PROVE  arranged'[u] \in Nat /\ db'.user[u].order = arranged'[u] - 1
    <3>1. u \in Listed(s) /\ arranged'[u] = Place(s, u) BY <1>1
    <3> QED BY <1>2, <3>1, ListPlace
  <2> QED BY <2>1, <2>2 DEF Arranged
<1>6. Behind' BY <1>4 DEF Behind
<1>7. Settled'
  <2>1. At(Daemon, "ready") BY DEF ReorderLocalUsers
  <2> QED BY <1>3, <2>1 DEF IInv, Pending, Procs, Settled
<1> QED BY <1>5, <1>6, <1>7

\* Every step keeps the order.
LEMMA StepOrder == IInv /\ IInv' /\ OrderInv /\ [Next]_vars => OrderInv'
<1> SUFFICES ASSUME IInv, IInv', OrderInv, [Next]_vars PROVE OrderInv'
  OBVIOUS
<1>1. changes \in Nat BY DEF IInv, CountersOK
<1>2. CASE UNCHANGED arrangement /\ UNCHANGED db /\ changes' >= changes
  BY <1>2, OrderStays DEF Known
<1>3. ASSUME NEW p \in Procs, Seed(p) PROVE OrderInv'
  <2>1. db'.user = db.user /\ db'.applied = db.applied BY <1>3 DEF Seed, IInv, DbOK
  <2>2. UNCHANGED arrangement /\ changes' = changes BY <1>3 DEF Seed, counters
  <2> QED BY <1>1, <2>1, <2>2, OrderStays DEF Known
<1>4. ASSUME NEW p \in Procs, Start(p) \/ Exit(p) \/ Boot(p) PROVE OrderInv'
  <2>1. CASE Migrate(p) BY <2>1, MigrateOrder
  <2>2. CASE Seed(p) BY <2>2, <1>3
  <2>3. CASE Start(p) \/ Exit(p) \/ ReadKey(p) \/ CreateKey(p) \/ WriteKey(p) \/ Open(p)
    BY <1>1, <1>2, <2>3 DEF Start, Exit, ReadKey, CreateKey, WriteKey, Open, counters
  <2> QED BY <1>4, <2>1, <2>2, <2>3 DEF Boot
<1>5. ASSUME NEW p \in Procs, AddKey(p) PROVE OrderInv'
  BY <1>1, <1>2, <1>5 DEF AddKey, Change
<1>6. CASE Use
  BY <1>5, <1>6, InsertOrder, DeleteOrder, MappingOrder, ReorderOrder DEF Use
<1>7. CASE UNCHANGED vars
  BY <1>1, <1>2, <1>7 DEF vars, counters
<1> QED BY <1>4, <1>6, <1>7 DEF Next

-----------------------------------------------------------------------------
\* The first start, or the first of this release.
LEMMA InitIInv == Init => IInv /\ KeyInv
<1> SUFFICES ASSUME Init PROVE IInv /\ KeyInv
  OBVIOUS
<1> USE StoreAssumption
<1>1. proc = [p \in Procs |-> Off] /\ keys = 0 /\ exits = 0 /\ changes = 0
  BY DEF Init
<1>2. CountersOK BY <1>1 DEF Init, CountersOK
<1>3. ProcOK BY <1>1 DEF ProcOK, Off, Pcs
<1>4. Pending /\ Seeded BY <1>1 DEF Pending, Seeded, At, Off, Procs
<1>5. KeyInv
  BY <1>1 DEF Init, KeyInv, NoKeyYet, KeyInTheMaking, KeyWritten, At, Off, NoFile, EmptyFile
<1>6. DbOK /\ Mapped /\ Prefix
  <2>1. CASE db = Fresh
    <3>1. <<>> \in [{} -> UserRow] /\ DOMAIN <<>> = {}
      OBVIOUS
    <3>2. DbOK BY <2>1, <3>1 DEF DbOK, Fresh, Tables
    <3>3. Mapped BY <2>1, <3>1 DEF Mapped, Fresh, Known
    <3>4. Prefix
      <4>1. 1..0 = {} /\ Schema({}) = {} BY DEF Schema
      <4> QED BY <2>1, <4>1 DEF Prefix, Fresh
    <3> QED BY <3>2, <3>3, <3>4
  <2>2. ASSUME NEW r \in OldReleases, db \in Existing(r) PROVE DbOK /\ Mapped /\ Prefix
    <3>1. r \in 1..11 BY DEF Files
    <3> DEFINE D == {Min(Users), Max(Users)}
    <3>2. PICK up \in UpsAt(r), i \in {0, 1} :
            db = [applied |-> 1..r, schema |-> Schema(1..r), ups |-> UpsAt(r),
                  user |-> OldUsers(up, i)]
      <4>1. PICK up \in UpsAt(r), i \in IF r >= 2 THEN {0, 1} ELSE {0} :
              db = [applied |-> 1..r, schema |-> Schema(1..r), ups |-> UpsAt(r),
                    user |-> OldUsers(up, i)]
        BY <2>2 DEF Existing
      <4>2. i \in {0, 1} BY <4>1
      <4> QED BY <4>1, <4>2
    <3>3. D \in SUBSET Users
      <4>1. Users \in SUBSET Int OBVIOUS
      <4> QED BY <4>1, FiniteHasMin, FiniteHasMax
    <3>4. "w1" \in UpsAt(r) /\ UpsAt(r) \in SUBSET Ups BY DEF UpsAt, Ups
    <3>5. OldUsers(up, i) \in [D -> UserRow] BY <3>4 DEF OldUsers, Row, UserRow
    <3>6. OldUsers(up, i) \in Tables BY <3>3, <3>5 DEF Tables
    <3>7. \A u \in D : OldUsers(up, i)[u].up \in UpsAt(r) BY <3>4 DEF OldUsers, Row
    <3>8. 1..r \in SUBSET Files BY <3>1 DEF Files
    <3>9. Schema(1..r) \in SUBSET Names BY <3>8 DEF Schema, Names
    <3>10. DOMAIN OldUsers(up, i) = D BY DEF OldUsers
    <3> HIDE DEF D
    <3>11. DbOK BY <3>2, <3>4, <3>6, <3>8, <3>9 DEF DbOK
    <3>12. Mapped BY <3>2, <3>7, <3>10 DEF Mapped, Known
    <3>13. Prefix
      <4>1. r \in 0..11 BY <3>1
      <4>2. db.applied = 1..r /\ db.schema = Schema(1..r) BY <3>2
      <4> QED BY <4>1, <4>2, Zenon DEF Prefix
    <3> QED BY <3>11, <3>12, <3>13
  <2> QED BY <2>1, <2>2 DEF Init
<1> QED BY <1>2, <1>3, <1>4, <1>5, <1>6 DEF IInv

\* Every step keeps the invariant.
LEMMA StepIInv == IInv /\ [Next]_vars => IInv'
<1> SUFFICES ASSUME IInv, [Next]_vars PROVE IInv'
  OBVIOUS
<1>1. ASSUME NEW p \in Procs, Start(p) \/ Exit(p) \/ Boot(p) PROVE IInv'
  BY <1>1, StartStep, ExitStep, ReadKeyStep, CreateKeyStep, WriteKeyStep, OpenStep,
     MigrateStep, SeedStep DEF Boot
<1>2. CASE Use
  BY <1>2, AddKeyStep, InsertLocalUserStep, DeleteLocalUserStep,
     UpdateLocalUserMappingStep, ReorderLocalUsersStep DEF Use
<1>3. CASE UNCHANGED vars
  <2> USE <1>3 DEF vars, install, counters
  <2>1. CountersOK' /\ ProcOK' /\ DbOK' /\ Mapped' /\ Prefix'
    BY DEF IInv, CountersOK, ProcOK, DbOK, Mapped, Prefix
  <2>2. Pending' /\ Seeded' BY DEF IInv, Pending, Seeded, At
  <2> QED BY <2>1, <2>2 DEF IInv
<1> QED BY <1>1, <1>2, <1>3 DEF Next

\* The key file, if the first start of the installation is alone.
LEMMA StepKeyInv ==
  ASSUME Alone
  PROVE  IInv /\ KeyInv /\ [Next]_vars => KeyInv'
<1> SUFFICES ASSUME IInv, KeyInv, [Next]_vars PROVE KeyInv'
  OBVIOUS
<1>1. ASSUME NEW p \in Procs, Start(p) \/ Exit(p) \/ Boot(p) PROVE KeyInv'
  BY <1>1, StartKey, ExitKey, ReadKeyKey, CreateKeyKey, WriteKeyKey, OpenKey,
     MigrateKey, SeedKey DEF Boot
<1>2. ASSUME NEW p \in Procs, AddKey(p) PROVE KeyInv'
  BY <1>2, AddKeyKey
<1>3. CASE UNCHANGED <<keyFile, secrets, proc>>
  BY <1>3 DEF KeyInv, NoKeyYet, KeyInTheMaking, KeyWritten, At
<1>4. CASE Use
  BY <1>2, <1>3, <1>4 DEF Use, InsertLocalUser, Insert, DeleteLocalUser,
     UpdateLocalUserMapping, ReorderLocalUsers, install
<1> QED BY <1>1, <1>3, <1>4 DEF Next, vars, install

\* The inductive invariant holds of every behaviour, however many processes
\* meet in the data directory.
THEOREM Invariance == Spec => []IInv
<1>1. Init => IInv BY InitIInv
<1> QED BY <1>1, StepIInv, PTL DEF Spec

\* The rows keep their types: no mapping names an upstream that is not there
\* (the foreign key), every position is a number.
THEOREM TypeCorrect == Spec => []TypeOK
<1>1. IInv => TypeOK
  <2> SUFFICES ASSUME IInv PROVE TypeOK
    OBVIOUS
  <2> USE DEF IInv
  <2>1. keyFile \in {NoFile, EmptyFile} \cup 0..keys /\ keys \in Nat BY DEF CountersOK
  <2>2. db.applied \subseteq Files /\ db.ups \subseteq {"w1", "m1", "direct", "default"}
    BY DEF DbOK, Ups
  <2>3. Known(db) \subseteq Users /\ \A u \in Known(db) : db.user[u].order \in Nat
    BY UserTable DEF UserRow
  <2>4. \A p \in Procs : proc[p].todo \subseteq Files BY DEF ProcOK
  <2> QED BY <2>1, <2>2, <2>3, <2>4 DEF TypeOK, Mapped
<1> QED BY <1>1, Invariance, PTL

\* store.Open: a file and its record are committed together and in order, so
\* at every moment the schema is that of the files recorded, and whoever has
\* opened the database has the last one.
THEOREM SchemaIsCurrent == Spec => []SchemaCurrent
<1>1. IInv => SchemaCurrent
  <2> SUFFICES ASSUME IInv PROVE SchemaCurrent
    OBVIOUS
  <2>1. PICK n \in 0..11 : db.applied = 1..n /\ db.schema = Schema(1..n)
    BY DEF IInv, Prefix
  <2>2. Cardinality(1..n) = n
    <3>1. 1 \in Int /\ n \in Int OBVIOUS
    <3>2. Cardinality(1..n) = IF 1 > n THEN 0 ELSE n - 1 + 1 BY <3>1, FS_Interval, Zenon
    <3> QED BY <3>2
  <2> QED BY <2>1, <2>2 DEF IInv, Pending, Seeded, SchemaCurrent
<1> QED BY <1>1, Invariance, PTL

\* A restart of the same release applies no file and so changes no mapping;
\* an upgrade changes one only by files 4 and 10, or from the "direct" row
\* that file 11 drops.
THEOREM RestartsKeepMappings == Spec => MappingsKept
<1> DEFINE Kept == \A u \in Known(db) \cap Known(db)' :
       changes' = changes /\ db'.user[u].up # db.user[u].up
         => \/ db.user[u].up = "direct"
            \/ db'.applied \ db.applied \in {{4}, {10}}
<1>1. IInv /\ [Next]_vars => [Kept]_vars
  <2> SUFFICES ASSUME IInv, Next PROVE Kept
    OBVIOUS
  <2> SUFFICES ASSUME changes' = changes, NEW u \in Known(db), db'.user[u].up # db.user[u].up
               PROVE  \/ db.user[u].up = "direct"
                      \/ db'.applied \ db.applied \in {{4}, {10}}
    OBVIOUS
  <2> USE DEF IInv
  <2>1. ~Change BY DEF Change, CountersOK
  <2>2. ~Use BY <2>1 DEF Use, AddKey, InsertLocalUser, Insert, DeleteLocalUser,
                UpdateLocalUserMapping, ReorderLocalUsers
  <2>3. ASSUME NEW p \in Procs, Seed(p) PROVE db'.user = db.user
    BY <2>3 DEF Seed
  <2>4. PICK p \in Procs : Migrate(p) /\ db' # db
    BY <2>2, <2>3 DEF Next, Boot, Start, Exit, ReadKey, CreateKey, WriteKey, Open
  <2> DEFINE f == Min(proc[p].todo)
  <2>5. f \notin db.applied /\ db' = Apply(f, db) BY <2>4 DEF Migrate
  <2> HIDE DEF f
  <2>6. db'.applied \ db.applied = {f} BY <2>5 DEF Apply
  <2>7. db'.user[u].up = Mapping(f, db.user[u]) BY <2>5 DEF Apply, Row
  <2> QED BY <2>6, <2>7 DEF Mapping
<1> QED BY <1>1, Invariance, PTL DEF Spec, MappingsKept

\* Nobody loses a secret: with no other process about when the master key is
\* created (LoadOrCreate reads, then writes), every stored secret is encrypted
\* with the key in the file.  The run MCStore_two_starts shows that this
\* hypothesis is needed.
THEOREM SecretsStayReadable ==
  ASSUME Alone
  PROVE  Spec => []SecretsReadable
<1>1. KeyInv => SecretsReadable
  BY DEF KeyInv, NoKeyYet, KeyInTheMaking, KeyWritten, SecretsReadable
<1>2. Init => KeyInv BY InitIInv
<1>3. IInv /\ KeyInv /\ [Next]_vars => KeyInv' BY StepKeyInv
<1> QED BY <1>1, <1>2, <1>3, Invariance, PTL DEF Spec

\* Administrators see what they have arranged, and whoever they add is last
\* until they arrange anew: InsertLocalUser takes its position from the largest
\* and not from the number of rows, DeleteLocalUser may leave gaps, and no
\* restart applies file 2 again.
THEOREM ArrangementHolds == Spec => []OrderAsArranged
<1>1. Init => OrderInv
  <2> SUFFICES ASSUME Init PROVE OrderInv
    OBVIOUS
  <2>1. DOMAIN arranged = {} /\ DOMAIN added = {} BY DEF Init
  <2> QED BY <2>1 DEF OrderInv, Arranged, Behind, Settled
<1>2. IInv /\ OrderInv => OrderAsArranged
  <2> SUFFICES ASSUME IInv, OrderInv PROVE OrderAsArranged
    OBVIOUS
  <2>1. \A u \in Known(db) : db.user[u].order \in Nat BY UserTable DEF IInv, UserRow
  <2>2. ASSUME NEW u \in DOMAIN arranged, NEW v \in DOMAIN arranged, arranged[u] < arranged[v]
        PROVE  Before(u, v)
    BY <2>2 DEF OrderInv, Arranged, Before
  <2>3. ASSUME NEW v \in DOMAIN added, NEW u \in Known(db) \ {v},
               u \in DOMAIN added => added[u] < added[v]
        PROVE  Before(u, v)
    BY <2>3 DEF OrderInv, Behind, Before
  <2> QED BY <2>2, <2>3 DEF OrderAsArranged
<1> QED BY <1>1, <1>2, StepOrder, StepIInv, Invariance, PTL DEF Spec
=============================================================================
