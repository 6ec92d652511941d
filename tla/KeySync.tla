------------------------------ MODULE KeySync ------------------------------
(***************************************************************************)
(* internal/sync: the reconciliation of one API key's rows with the proxy  *)
(* list of its Webshare account, and the display names it hands out.       *)
(*                                                                         *)
(* The sync loop, POST /keys/{id}/sync and the loop that follows a         *)
(* replacement all call SyncKey, and nothing keeps two calls on one key    *)
(* apart: each fetches the list page by page while the account changes,    *)
(* then applies what it fetched in one transaction.  SQLite makes the      *)
(* transaction atomic: it commits as a whole, or fails because another     *)
(* connection wrote after its first read, or because its context ended.    *)
(* Webshare's pages are external: the client asks for page_size proxies    *)
(* and follows "next", which names the positions after those, so that a    *)
(* proxy that leaves an earlier page shifts the later ones forward by one. *)
(* Encryption, hosts, cities and time stamps are left out; a StableID      *)
(* stands for its proxy.                                                   *)
(***************************************************************************)
EXTENDS Integers, FiniteSets

CONSTANTS
  Ids,           \* StableIDs
  Countries,     \* country codes: what the regexps take for two capitals
  Words,         \* the other parts of names
  Label,         \* sanitizeLabel of the key's label
  Renames,       \* names an administrator gives
  OldTables,     \* tables an earlier version may have left behind
  Geo,           \* the country of each proxy at the start
  PageSize,      \* page_size of the request (100 in the code)
  Rank,          \* the order in which Webshare lists proxies
  Tickers, Posts, Replacers,  \* callers of SyncKey
  MaxAttempts,   \* attempts of the loop after a replacement (6 in the code)
  MaxChanges, MaxFailures     \* bounds on changes from outside and on errors

VARIABLES
  account,   \* the proxies of the account
  geo,       \* where each of them is
  pending,   \* replacements Webshare has accepted and not carried out
  rows,      \* upstream_proxies of this key
  failed,    \* last_sync_error # ''
  call,      \* per caller: how far its SyncKey is
  absent,    \* history, per caller: out of the account at some time of its listing
  departed,  \* history, per caller: those of them that left meanwhile
  moved,     \* history: proxies that were relocated
  bounds     \* [changes, failures] so far

vars == <<account, geo, pending, rows, failed, call, absent, departed, moved, bounds>>
remote == <<account, geo, pending>>
listing == <<absent, departed>>
history == <<listing, moved>>

Callers == Tickers \cup Posts \cup Replacers

-----------------------------------------------------------------------------
(* Display names: "{label}-{CC}-{NN}", formerly "{CC}-{label}-{NN}". *)

Part == Countries \cup Words
Name == [head : Part, mid : Part, num : Nat]
Row == [name : Name, cc : Countries]

formatDisplayName(cc, n) == [head |-> Label, mid |-> cc, num |-> n]
parseDisplayName(name) == name.mid \in Countries
parseLegacyDisplayName(name) == name.head \in Countries

ASSUME KeySyncAssumption ==
  /\ Label \in Part /\ Renames \subseteq Name
  /\ IsFiniteSet(Ids) /\ Geo \in [Ids -> Countries]
  /\ PageSize \in Nat \ {0} /\ Rank \in [Ids -> Nat]
  /\ \A i, j \in Ids : Rank[i] = Rank[j] => i = j
  /\ MaxAttempts \in Nat \ {0} /\ MaxChanges \in Nat /\ MaxFailures \in Nat

\* A table that earlier versions leave: rows where Webshare has their proxies,
\* names of either generated form or edited ones, a number from 1 on per country
\* once.
OldName(cc, n) == [head |-> cc, mid |-> Label, num |-> n]
Generated(row) ==
  row.name \in {formatDisplayName(row.cc, row.name.num), OldName(row.cc, row.name.num)}
CleanTable(table) ==
  \A i \in DOMAIN table :
    /\ table[i].cc = Geo[i]
    /\ Generated(table[i]) \/ table[i].name \in Renames
    /\ Generated(table[i]) => table[i].name.num > 0
    /\ \A j \in DOMAIN table \ {i} :
         Generated(table[i]) /\ Generated(table[j]) /\ table[i].cc = table[j].cc
         => table[i].name.num # table[j].name.num
ASSUME OldTablesAssumption ==
  \A table \in OldTables : /\ DOMAIN table \subseteq Ids /\ table \in [DOMAIN table -> Row]
                           /\ CleanTable(table)

\* Mutant: only canonical names are reserved, not those about to be rewritten.
Counts_Canonical(row) ==
  parseDisplayName(row.name) /\ row.name.mid = row.cc /\ row.name.head = Label

\* The number a row occupies: rows whose name was edited away do not count.
Counts(row) ==
  \/ parseDisplayName(row.name) /\ row.name.mid = row.cc /\ row.name.head = Label
  \/ parseLegacyDisplayName(row.name)

\* Mutant: the numbers of rows that are about to be deleted stay reserved.
buildSeqAllocator_All(list) ==
  {<<rows[i].cc, rows[i].name.num>> : i \in {j \in DOMAIN rows : Counts(rows[j])}}

\* The numbers that stay occupied, per country.
buildSeqAllocator(list) ==
  {<<rows[i].cc, rows[i].name.num>> :
     i \in {j \in DOMAIN rows \cap DOMAIN list : Counts(rows[j])}}

Fresh(list) == DOMAIN list \ DOMAIN rows

\* What the calls of next can return for the new proxies, in any order of the
\* list: distinct numbers per country, each the lowest that was free.
Numberings(list) ==
  LET used == buildSeqAllocator(list)
  IN  {num \in [Fresh(list) -> 1..Cardinality(Ids)] : \A i \in Fresh(list) :
         /\ <<list[i], num[i]>> \notin used
         /\ \A j \in Fresh(list) \ {i} : list[j] = list[i] => num[j] # num[i]
         /\ \A n \in 1..(num[i] - 1) :
              \/ <<list[i], n>> \in used
              \/ \E j \in Fresh(list) : list[j] = list[i] /\ num[j] = n}

\* The row of a proxy that stays: its name is the administrator's to change,
\* unless it has the old form.
Refreshed(row, cc) ==
  [cc   |-> cc,
   name |-> IF parseLegacyDisplayName(row.name)
            THEN formatDisplayName(cc, row.name.num) ELSE row.name]

-----------------------------------------------------------------------------
(* Webshare: the account changes on its own, and by replacement. *)

Spend(k) == bounds' = [bounds EXCEPT ![k] = @ + 1]
Gone(i) ==
  LET see(h) == [s \in Callers |-> IF call[s].pc = "list" THEN h[s] \cup {i} ELSE h[s]]
  IN  absent' = see(absent) /\ departed' = see(departed)

Join(i) ==
  /\ i \notin account /\ bounds.changes < MaxChanges
  /\ account' = account \cup {i}
  /\ Spend("changes")
  /\ UNCHANGED <<geo, pending, rows, failed, call, history>>

Leave(i) ==
  /\ i \in account /\ bounds.changes < MaxChanges
  /\ account' = account \ {i}
  /\ Gone(i)
  /\ Spend("changes")
  /\ UNCHANGED <<geo, pending, rows, failed, call, moved>>

\* A proxy keeps its address and is listed under another country.
Move(i, cc) ==
  /\ geo[i] # cc /\ bounds.changes < MaxChanges
  /\ geo' = [geo EXCEPT ![i] = cc]
  /\ moved' = moved \cup {i}
  /\ Spend("changes")
  /\ UNCHANGED <<account, pending, rows, failed, call, listing>>

\* Webshare carries a replacement out, some time after it answered.
Fulfil(old, new) ==
  /\ <<old, geo[new]>> \in pending /\ old \in account /\ new \notin account
  /\ pending' = pending \ {<<old, geo[new]>>}
  /\ account' = (account \ {old}) \cup {new}
  /\ Gone(old)
  /\ UNCHANGED <<geo, rows, failed, call, moved, bounds>>

\* PATCH /upstreams/{id}
Rename(i, name) ==
  /\ i \in DOMAIN rows /\ rows[i].name # name /\ bounds.changes < MaxChanges
  /\ rows' = [rows EXCEPT ![i].name = name]
  /\ Spend("changes")
  /\ UNCHANGED <<remote, failed, call, history>>

-----------------------------------------------------------------------------
(* SyncKey.  left and target belong to the loop after a replacement. *)

Empty == [i \in {} |-> 0]
Resting(pc) == [pc |-> pc, list |-> Empty, offset |-> 0, again |-> {},
                left |-> 0, target |-> "none"]
At(s, pc) == call[s].pc = pc
Call(s, pc, list, offset, again) ==
  call' = [call EXCEPT ![s].pc = pc, ![s].list = list, ![s].offset = offset,
                       ![s].again = again]

Returns(s, pc) ==
  /\ Call(s, pc, Empty, 0, {})
  /\ absent' = [absent EXCEPT ![s] = {}] /\ departed' = [departed EXCEPT ![s] = {}]

\* Where a call returns: to the loop, the ticker or the client.
AfterError(s) ==
  IF s \notin Replacers THEN "idle" ELSE IF call[s].left = 0 THEN "report" ELSE "resync"
AfterSuccess(s) == IF s \notin Replacers THEN "idle" ELSE "check"

Begin(s) ==
  /\ At(s, "idle") \/ At(s, "resync")
  /\ call' = [call EXCEPT ![s].pc = "list", ![s].offset = 0,
                ![s].left = IF s \in Replacers THEN @ - 1 ELSE @]
  /\ absent' = [absent EXCEPT ![s] = Ids \ account]
  /\ departed' = [departed EXCEPT ![s] = {}]
  /\ UNCHANGED <<remote, rows, failed, moved, bounds>>

\* The proxies after the first offset, as the account has them now.
Position(i) == Cardinality({j \in account : Rank[j] <= Rank[i]})
Page(offset) ==
  {i \in account : offset < Position(i) /\ Position(i) <= offset + PageSize}

Appended(list, page) ==
  [i \in DOMAIN list \cup page |-> IF i \in page THEN geo[i] ELSE list[i]]

\* ListProxies: one page; the transaction follows the last one, the one that
\* has no "next".
ListPage(s) ==
  /\ At(s, "list")
  /\ LET page == Page(call[s].offset)
         list == Appended(call[s].list, page)
         next == call[s].offset + PageSize
         twice == call[s].again \cup (DOMAIN call[s].list \cap page)
     IN  IF next < Cardinality(account) THEN Call(s, "list", list, next, twice)
         ELSE Call(s, "write", list, 0, twice)
  /\ UNCHANGED <<remote, rows, failed, history, bounds>>

\* Mutant: the pages that arrived are taken for the list.
ListFails_Partial(s) ==
  /\ At(s, "list") /\ bounds.failures < MaxFailures
  /\ Call(s, "write", call[s].list, 0, call[s].again)
  /\ failed' \in {failed, TRUE}
  /\ Spend("failures")
  /\ UNCHANGED <<remote, rows, history>>

\* A page that could not be had, all retries included, ends the call.  The
\* error is recorded if the context allows it.
ListFails(s) ==
  /\ At(s, "list") /\ bounds.failures < MaxFailures
  /\ Returns(s, AfterError(s))
  /\ failed' \in {failed, TRUE}
  /\ Spend("failures")
  /\ UNCHANGED <<remote, rows, moved>>

\* A new proxy that was listed twice is inserted twice: its id is the primary
\* key, and the INSERT fails.
Rejected(s) == call[s].again \cap Fresh(call[s].list) # {}

\* Mutant: proxies that are gone keep their rows.
Commit_KeepsStale(s) ==
  LET list == call[s].list
  IN  /\ At(s, "write") /\ ~Rejected(s)
      /\ \E num \in Numberings(list) :
           rows' = [i \in DOMAIN rows \cup DOMAIN list |->
             IF i \notin DOMAIN list THEN rows[i]
             ELSE IF i \in DOMAIN rows THEN Refreshed(rows[i], list[i])
             ELSE [cc |-> list[i], name |-> formatDisplayName(list[i], num[i])]]
      /\ failed' = FALSE
      /\ Returns(s, AfterSuccess(s))
      /\ UNCHANGED <<remote, moved, bounds>>

Commit(s) ==
  LET list == call[s].list
  IN  /\ At(s, "write") /\ ~Rejected(s)
      /\ \E num \in Numberings(list) :
           rows' = [i \in DOMAIN list |->
             IF i \in DOMAIN rows THEN Refreshed(rows[i], list[i])
             ELSE [cc |-> list[i], name |-> formatDisplayName(list[i], num[i])]]
      /\ failed' = FALSE
      /\ Returns(s, AfterSuccess(s))
      /\ UNCHANGED <<remote, moved, bounds>>

\* The transaction fails; nothing records it.
Rollback(s) ==
  /\ At(s, "write") /\ bounds.failures < MaxFailures
  /\ Returns(s, AfterError(s))
  /\ Spend("failures")
  /\ UNCHANGED <<remote, rows, failed, moved>>

InsertFails(s) ==
  /\ At(s, "write") /\ Rejected(s)
  /\ Returns(s, AfterError(s))
  /\ UNCHANGED <<remote, rows, failed, moved, bounds>>

-----------------------------------------------------------------------------
(* POST /upstreams/{id}/replace *)

\* The request to Webshare is sent once.  If it fails the client is told so,
\* even when Webshare has accepted it and only the answer was lost.
ReplaceUpstream(s, i, cc) ==
  /\ At(s, "ready") /\ i \in DOMAIN rows
  /\ \/ /\ i \in account
        /\ pending' = pending \cup {<<i, cc>>}
        /\ call' \in {[call EXCEPT ![s] = Resting("done")],
             [call EXCEPT ![s].pc = "resync", ![s].target = i, ![s].left = MaxAttempts]}
     \/ /\ call' = [call EXCEPT ![s] = Resting("done")]
        /\ UNCHANGED pending
  /\ UNCHANGED <<account, geo, rows, failed, history, bounds>>

\* Mutant: the loop waits until the old proxy is gone.
Check_Unbounded(s) ==
  /\ At(s, "check")
  /\ call' = [call EXCEPT
       ![s].pc = IF call[s].target \notin DOMAIN rows THEN "report" ELSE "resync",
       ![s].left = MaxAttempts]
  /\ UNCHANGED <<remote, rows, failed, history, bounds>>

\* After a sync: is the old proxy gone?
Check(s) ==
  /\ At(s, "check")
  /\ LET gone == call[s].target \notin DOMAIN rows
     IN  call' = [call EXCEPT ![s].pc =
                    IF gone \/ call[s].left = 0 THEN "report" ELSE "resync"]
  /\ UNCHANGED <<remote, rows, failed, history, bounds>>

\* RebuildAfterSync, the audit entry and the broadcast, whatever the loop found.
Report(s) ==
  /\ At(s, "report")
  /\ call' = [call EXCEPT ![s] = Resting("done")]
  /\ UNCHANGED <<remote, rows, failed, history, bounds>>

-----------------------------------------------------------------------------
Init ==
  /\ account \in SUBSET Ids
  /\ geo = Geo
  /\ pending = {}
  /\ rows \in OldTables
  /\ failed = FALSE
  /\ call = [s \in Callers |-> Resting(IF s \in Replacers THEN "ready" ELSE "idle")]
  /\ absent = [s \in Callers |-> {}] /\ departed = [s \in Callers |-> {}]
  /\ moved = {}
  /\ bounds = [changes |-> 0, failures |-> 0]

Webshare ==
  \/ \E i \in Ids : Join(i) \/ Leave(i)
  \/ \E i \in Ids, cc \in Countries : Move(i, cc)
  \/ \E i, j \in Ids : Fulfil(i, j)

\* What a goroutine does without anybody's help.
Progress(s) ==
  Begin(s) \/ ListPage(s) \/ Commit(s) \/ InsertFails(s) \/ Check(s) \/ Report(s)

Next ==
  \/ Webshare
  \/ \E i \in Ids, name \in Renames : Rename(i, name)
  \/ \E s \in Callers : Progress(s) \/ ListFails(s) \/ Rollback(s)
  \/ \E s \in Replacers, i \in Ids, cc \in Countries : ReplaceUpstream(s, i, cc)

\* The ticker fires again and again, and a handler runs to its end.
Fairness == \A s \in Tickers \cup Replacers : WF_vars(Progress(s))

Spec == Init /\ [][Next]_vars
FairSpec == Spec /\ Fairness

-----------------------------------------------------------------------------
(* Properties *)

\* A list, fetched so far: a partial function.
Lists == UNION {[D -> Countries] : D \in SUBSET Ids}
Pcs == {"idle", "ready", "resync", "list", "write", "check", "report", "done"}
CallState == [pc : Pcs, list : Lists, offset : Nat, again : SUBSET Ids, left : Int,
              target : Ids \cup {"none"}]

\* The shape of the state.
TypeOK ==
  /\ account \in SUBSET Ids
  /\ geo \in [Ids -> Countries]
  /\ pending \in SUBSET (Ids \X Countries)
  /\ DOMAIN rows \subseteq Ids /\ rows \in [DOMAIN rows -> Row]
  /\ failed \in BOOLEAN
  /\ call \in [Callers -> CallState]
  /\ absent \in [Callers -> SUBSET Ids] /\ departed \in [Callers -> SUBSET Ids]
  /\ moved \in SUBSET Ids
  /\ bounds \in [changes : Nat, failures : Nat]

\* No two rows bear the same name, unless an administrator gave it or one of
\* the proxies was relocated: a universal-password login and a subscription
\* fragment select by name, and a shared one selects nothing.  Old-form names
\* are rewritten with their number while new rows are numbered
\* (sync.go:113-151, 252-280).
NamesDistinct ==
  \A i, j \in DOMAIN rows \ moved :
    i # j /\ rows[i].name = rows[j].name => rows[i].name \in Renames

\* The administrator gives no name that has a generated form.
RenamesPlain ==
  \A name \in Renames : ~parseDisplayName(name) /\ ~parseLegacyDisplayName(name)

\* While no proxy is relocated, one that takes another's place in the same
\* country takes its name, if no lower number was free (displayname.go:82-88, sync.go:103-107).
Swapped(old, new) ==
  /\ DOMAIN rows \ DOMAIN rows' = {old} /\ DOMAIN rows' \ DOMAIN rows = {new}
  /\ rows'[new].cc = rows[old].cc /\ moved' = {}
  /\ rows[old].name = formatDisplayName(rows[old].cc, rows[old].name.num)
  /\ \A n \in 1..(rows[old].name.num - 1) : \E j \in DOMAIN rows \ {old} :
       rows[j].cc = rows[old].cc /\ Counts(rows[j]) /\ rows[j].name.num = n
SlotReclaimed ==
  [][\A old, new \in Ids : Swapped(old, new) => rows'[new].name = rows[old].name]_vars

\* A row is deleted only by a call during whose listing its proxy was out of
\* the account, or one that is listed ahead of it left and shifted it past the
\* pages; a listing that broke off deletes nothing, and with it unmaps nobody
\* (client.go:197-211, sync.go:80-85, 168-187).
Explained(s, i) ==
  i \in absent[s] \/ \E j \in departed[s] : Rank[j] < Rank[i]
Deletes(s) == At(s, "write") /\ call'[s].pc # "write"
DeletionsExplained ==
  [][\A i \in DOMAIN rows \ DOMAIN rows' : \E s \in Callers : Deletes(s) /\ Explained(s, i)]_vars

\* Once the account is left alone the table mirrors it, for good, however
\* earlier calls overlapped (run.go:385-401).
Mirrored == <>[](DOMAIN rows = account)

\* The loop after a replacement ends, even when Webshare never carries the
\* replacement out (run.go:231-243).
ReplaceEnds == \A s \in Replacers : At(s, "resync") ~> At(s, "done")

(* What comments say and the code does not keep. *)

\* "Proxies we used to know about for this key but no longer see have been
\* rotated out by Webshare" (sync.go:171): a row is deleted only if its proxy
\* was out of the account at some time of the listing.
OnlyAbsentDeleted ==
  [][\A i \in DOMAIN rows \ DOMAIN rows' : \E s \in Callers : Deletes(s) /\ i \in absent[s]]_vars

\* "User-renamed rows fall outside the canonical namespace and can't collide"
\* (sync.go:263): without relocations a new row never gets a name that another
\* row bears.
FreshNameUnused ==
  [][\A i \in DOMAIN rows' \ DOMAIN rows, j \in DOMAIN rows' :
       i # j /\ moved = {} => rows'[i].name # rows'[j].name]_vars

\* "concurrent calls on the same ID will serialize" (sync.go:42): of a table that
\* starts empty, while the account changes once, no call deletes the row of a
\* proxy that is in the account.
DeletedHasLeft == [][\A i \in DOMAIN rows \ DOMAIN rows' : i \notin account]_vars

\* "keeps the display name ... stable across a replace" (displayname.go:86):
\* also when an earlier departure left a lower number free.
NameStableAcrossReplace ==
  [][\A old, new \in Ids :
       /\ DOMAIN rows \ DOMAIN rows' = {old} /\ DOMAIN rows' \ DOMAIN rows = {new}
       /\ rows'[new].cc = rows[old].cc /\ moved' = {}
       /\ rows[old].name = formatDisplayName(rows[old].cc, rows[old].name.num)
       => rows'[new].name = rows[old].name]_vars

\* "On error, LastSyncError is set" (sync.go:71): a failing transaction leaves
\* it as it was, and so does a context that ended.
ErrorRecorded == [][bounds'.failures > bounds.failures => failed']_vars
=============================================================================
