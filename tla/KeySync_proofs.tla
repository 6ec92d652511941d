--------------------------- MODULE KeySync_proofs ---------------------------
(***************************************************************************)
(* Theorems about KeySync, for any proxies, countries and callers.         *)
(*                                                                         *)
(* A new row's number is chosen against the numbers of the rows that stay, *)
(* so that names stay distinct rests on what those rows look like: each    *)
(* row whose proxy was never relocated sits in the country it always had,  *)
(* and so does its entry in every list that is still on its way.  What a   *)
(* commit deletes rests on what the listing has passed by: a proxy before  *)
(* the offset of the next page is in the list, unless it was out of the    *)
(* account or one ahead of it left, since only that moves it forward.      *)
(***************************************************************************)
EXTENDS KeySync, FiniteSetTheorems, TLAPS

\* A proxy that was not relocated is where it was, in the account and in
\* every list.
Placed ==
  /\ \A i \in Ids \ moved : geo[i] = Geo[i]
  /\ \A s \in Callers : \A i \in DOMAIN call[s].list \ moved :
       call[s].list[i] = Geo[i]

\* The rows of such proxies have the shape the earlier versions left.
RowsPlaced ==
  \A i \in DOMAIN rows \ moved :
    /\ rows[i].cc = Geo[i]
    /\ Generated(rows[i]) \/ rows[i].name \in Renames
    /\ Generated(rows[i]) => rows[i].name.num > 0

NumbersDistinct ==
  \A i, j \in DOMAIN rows \ moved :
    /\ i # j /\ Generated(rows[i]) /\ Generated(rows[j]) /\ rows[i].cc = rows[j].cc
    => rows[i].name.num # rows[j].name.num

\* A running call has listed every proxy it has passed by, but those it has
\* an excuse for.
Listed ==
  \A s \in Callers :
    /\ call[s].pc = "list" => Ids \ account \subseteq absent[s]
    /\ call[s].pc \in {"list", "write"} => \A i \in Ids :
         \/ Explained(s, i) \/ i \in DOMAIN call[s].list
         \/ call[s].pc = "list" /\ Position(i) > call[s].offset

-----------------------------------------------------------------------------
(* Facts about the data. *)

\* A page added to a list makes a list.
LEMMA PageType ==
  ASSUME TypeOK, NEW s \in Callers, NEW page \in SUBSET Ids
  PROVE  Appended(call[s].list, page) \in Lists
<1>0. call[s].list \in Lists
  BY DEF TypeOK, CallState
<1>1. PICK D \in SUBSET Ids : call[s].list \in [D -> Countries]
  BY <1>0 DEF Lists
<1>2. D \cup page \in SUBSET Ids /\ DOMAIN call[s].list = D
  BY <1>1
<1>3. [i \in D \cup page |-> IF i \in page THEN geo[i] ELSE call[s].list[i]]
        \in [D \cup page -> Countries]
  BY <1>1, <1>2 DEF TypeOK
<1> QED
  BY <1>2, <1>3 DEF Lists, Appended

\* The list of a call that has not begun.
LEMMA EmptyType == Empty \in Lists
<1>1. Empty \in [{} -> Countries]
  BY DEF Empty
<1> QED
  BY <1>1 DEF Lists

\* What is known of the list a caller holds.
LEMMA ListFacts ==
  ASSUME TypeOK, NEW s \in Callers
  PROVE  /\ DOMAIN call[s].list \subseteq Ids
         /\ \A i \in DOMAIN call[s].list : call[s].list[i] \in Countries
<1>0. call[s].list \in Lists
  BY DEF TypeOK, CallState
<1>1. PICK D \in SUBSET Ids : call[s].list \in [D -> Countries]
  BY <1>0 DEF Lists
<1> QED
  BY <1>1

\* The row a proxy gets from a commit.
LEMMA CommitRows ==
  ASSUME TypeOK, NEW s \in Callers, NEW num \in Numberings(call[s].list),
         NEW i \in DOMAIN call[s].list
  PROVE  LET list == call[s].list
         IN  (IF i \in DOMAIN rows THEN Refreshed(rows[i], list[i])
              ELSE [cc |-> list[i], name |-> formatDisplayName(list[i], num[i])]) \in Row
<1>1. call[s].list[i] \in Countries
  BY ListFacts
<1>2. CASE i \in DOMAIN rows
  <2>1. rows[i] \in Row
    BY <1>2 DEF TypeOK
  <2> QED
    BY <1>1, <1>2, <2>1, KeySyncAssumption
    DEF Refreshed, formatDisplayName, Row, Name, Part
<1>3. CASE i \notin DOMAIN rows
  <2>1. num[i] \in 1..Cardinality(Ids)
    BY <1>3 DEF Numberings, Fresh
  <2>2. Cardinality(Ids) \in Nat
    BY FS_CardinalityType, KeySyncAssumption
  <2>3. num[i] \in Nat
    BY <2>1, <2>2
  <2> QED
    BY <1>1, <1>3, <2>3, KeySyncAssumption DEF formatDisplayName, Row, Name, Part
<1> QED
  BY <1>2, <1>3

-----------------------------------------------------------------------------
(* Type correctness. *)

\* What Webshare and the administrator do keeps the shape of the state.
LEMMA EnvironmentType ==
  ASSUME TypeOK,
         Webshare \/ \E i \in Ids, name \in Renames : Rename(i, name)
  PROVE  TypeOK'
<1> USE DEF remote, listing, history
<1>1. ASSUME NEW i \in Ids, Join(i) PROVE TypeOK'
  BY <1>1 DEF Join, TypeOK, Spend
<1>2. ASSUME NEW i \in Ids, Leave(i) PROVE TypeOK'
  BY <1>2 DEF Leave, Gone, TypeOK, Spend
<1>3. ASSUME NEW i \in Ids, NEW cc \in Countries, Move(i, cc) PROVE TypeOK'
  BY <1>3 DEF Move, TypeOK, Spend
<1>4. ASSUME NEW i \in Ids, NEW j \in Ids, Fulfil(i, j) PROVE TypeOK'
  BY <1>4 DEF Fulfil, Gone, TypeOK
<1>5. ASSUME NEW i \in Ids, NEW name \in Renames, Rename(i, name) PROVE TypeOK'
  <2>1. name \in Name /\ rows[i] \in Row
    BY <1>5, KeySyncAssumption DEF Rename, TypeOK
  <2>2. [rows[i] EXCEPT !.name = name] \in Row
    BY <2>1 DEF Row
  <2>3. DOMAIN rows' \subseteq Ids /\ rows' \in [DOMAIN rows' -> Row]
    BY <1>5, <2>2 DEF Rename, TypeOK
  <2> QED
    BY <1>5, <2>3 DEF Rename, TypeOK, Spend
<1> QED
  BY <1>1, <1>2, <1>3, <1>4, <1>5 DEF Webshare

\* The table after a commit.
LEMMA CommitTable ==
  ASSUME TypeOK, NEW s \in Callers, Commit(s)
  PROVE  /\ DOMAIN rows' = DOMAIN call[s].list
         /\ rows' \in [DOMAIN rows' -> Row]
<1>1. PICK num \in Numberings(call[s].list) :
        rows' = [i \in DOMAIN call[s].list |->
          IF i \in DOMAIN rows THEN Refreshed(rows[i], call[s].list[i])
          ELSE [cc |-> call[s].list[i],
                name |-> formatDisplayName(call[s].list[i], num[i])]]
  BY DEF Commit
<1> QED
  BY <1>1, CommitRows

\* A caller's record after a step.
LEMMA CallType ==
  ASSUME TypeOK, NEW s \in Callers, NEW pc \in Pcs
  PROVE  /\ Resting(pc) \in CallState
         /\ \A list \in Lists, n \in Nat, again \in SUBSET Ids :
              [call EXCEPT ![s].pc = pc, ![s].list = list, ![s].offset = n,
                           ![s].again = again]
                \in [Callers -> CallState]
         /\ \A c \in CallState : [call EXCEPT ![s] = c] \in [Callers -> CallState]
         /\ \A left \in Int :
              [call EXCEPT ![s].pc = pc, ![s].offset = 0, ![s].left = left]
                \in [Callers -> CallState]
         /\ \A i \in Ids, left \in Int :
              [call EXCEPT ![s].pc = pc, ![s].target = i, ![s].left = left]
                \in [Callers -> CallState]
         /\ [call EXCEPT ![s].pc = pc] \in [Callers -> CallState]
<1>1. call \in [Callers -> CallState] /\ call[s] \in CallState
  BY DEF TypeOK
<1>2. Resting(pc) \in CallState
  BY EmptyType DEF Resting, CallState
<1>3. ASSUME NEW list \in Lists, NEW n \in Nat, NEW again \in SUBSET Ids
      PROVE  [call EXCEPT ![s].pc = pc, ![s].list = list, ![s].offset = n,
                          ![s].again = again]
               \in [Callers -> CallState]
  BY <1>1 DEF CallState
<1>4. ASSUME NEW c \in CallState PROVE [call EXCEPT ![s] = c] \in [Callers -> CallState]
  BY <1>1
<1>5. ASSUME NEW left \in Int
      PROVE  [call EXCEPT ![s].pc = pc, ![s].offset = 0, ![s].left = left]
               \in [Callers -> CallState]
  BY <1>1 DEF CallState
<1>6. ASSUME NEW i \in Ids, NEW left \in Int
      PROVE  [call EXCEPT ![s].pc = pc, ![s].target = i, ![s].left = left]
               \in [Callers -> CallState]
  BY <1>1 DEF CallState
<1>7. [call EXCEPT ![s].pc = pc] \in [Callers -> CallState]
  BY <1>1 DEF CallState
<1> QED
  BY <1>2, <1>3, <1>4, <1>5, <1>6, <1>7

\* What Call leads to is a state of the calls.
LEMMA CallAfter ==
  ASSUME TypeOK, NEW s \in Callers, NEW pc \in Pcs, NEW list \in Lists, NEW n \in Nat,
         NEW again \in SUBSET Ids, Call(s, pc, list, n, again)
  PROVE  call' \in [Callers -> CallState]
<1>1. call' = [call EXCEPT ![s].pc = pc, ![s].list = list, ![s].offset = n, ![s].again = again]
  BY DEF Call
<1>2. [call EXCEPT ![s].pc = pc, ![s].list = list, ![s].offset = n, ![s].again = again]
        \in [Callers -> CallState]
  BY CallType
<1> QED
  BY ONLY <1>1, <1>2

\* What every end of a call leaves.
LEMMA ReturnType ==
  ASSUME TypeOK, NEW s \in Callers, NEW pc \in Pcs, Returns(s, pc)
  PROVE  /\ call' \in [Callers -> CallState]
         /\ absent' \in [Callers -> SUBSET Ids] /\ departed' \in [Callers -> SUBSET Ids]
<1>1. 0 \in Nat /\ {} \in SUBSET Ids
  OBVIOUS
<1>2. call' \in [Callers -> CallState]
  BY <1>1, EmptyType, CallAfter DEF Returns
<1> QED
  BY <1>2 DEF Returns, TypeOK

\* Every step of a caller keeps the shape of the state.
LEMMA CallerType ==
  ASSUME TypeOK, NEW s \in Callers,
         \/ Progress(s) \/ ListFails(s) \/ Rollback(s)
         \/ \E i \in Ids, cc \in Countries : ReplaceUpstream(s, i, cc)
  PROVE  TypeOK'
<1> USE DEF remote, listing, history
<1>0. \A pc \in {AfterError(s), AfterSuccess(s)} : pc \in Pcs
  BY DEF AfterError, AfterSuccess, Pcs
<1>1. CASE Begin(s)
  <2> DEFINE left == IF s \in Replacers THEN call[s].left - 1 ELSE call[s].left
  <2>1. left \in Int /\ "list" \in Pcs
    BY DEF TypeOK, CallState, Pcs
  <2>2. call' = [call EXCEPT ![s].pc = "list", ![s].offset = 0, ![s].left = left]
    BY <1>1 DEF Begin, TypeOK, CallState
  <2> HIDE DEF left
  <2>3. call' \in [Callers -> CallState]
    BY <2>1, <2>2, CallType
  <2> QED
    BY <1>1, <2>3 DEF Begin, TypeOK
<1>2. CASE ListPage(s)
  <2>1. Page(call[s].offset) \in SUBSET Ids
    BY DEF Page, TypeOK
  <2> DEFINE page == Page(call[s].offset)
             list == Appended(call[s].list, page)
             twice == call[s].again \cup (DOMAIN call[s].list \cap page)
  <2>2. list \in Lists
    BY <2>1, PageType
  <2>3. call[s].offset + PageSize \in Nat /\ 0 \in Nat /\ twice \in SUBSET Ids
    BY <2>1, KeySyncAssumption DEF TypeOK, CallState
  <2>4. \E pc \in Pcs, n \in Nat : Call(s, pc, list, n, twice)
    BY <1>2, <2>3 DEF ListPage, Pcs
  <2> HIDE DEF page, list, twice
  <2>5. call' \in [Callers -> CallState]
    BY <2>2, <2>3, <2>4, CallAfter
  <2>6. UNCHANGED <<account, geo, pending, rows, failed, absent, departed, moved, bounds>>
    BY <1>2 DEF ListPage, listing
  <2> QED
    BY <2>5, <2>6 DEF TypeOK
<1>3. CASE ListFails(s)
  <2>1. Returns(s, AfterError(s)) /\ AfterError(s) \in Pcs
    BY <1>0, <1>3 DEF ListFails
  <2>2. bounds' \in [changes : Nat, failures : Nat]
    BY <1>3 DEF ListFails, Spend, TypeOK
  <2>3. failed' \in BOOLEAN /\ UNCHANGED <<account, geo, pending, rows, moved>>
    BY <1>3 DEF ListFails, TypeOK
  <2> QED
    BY <2>1, <2>2, <2>3, ReturnType DEF TypeOK
<1>4. CASE Commit(s)
  <2>1. DOMAIN rows' \subseteq Ids /\ rows' \in [DOMAIN rows' -> Row]
    BY <1>4, CommitTable, ListFacts
  <2>2. Returns(s, AfterSuccess(s)) /\ AfterSuccess(s) \in Pcs
    BY <1>0, <1>4 DEF Commit
  <2>3. failed' = FALSE /\ UNCHANGED <<account, geo, pending, moved, bounds>>
    BY <1>4 DEF Commit
  <2> QED
    BY <2>1, <2>2, <2>3, ReturnType DEF TypeOK
<1>5. CASE Rollback(s) \/ InsertFails(s)
  <2>1. Returns(s, AfterError(s)) /\ AfterError(s) \in Pcs
    BY <1>0, <1>5 DEF Rollback, InsertFails
  <2>2. bounds' \in [changes : Nat, failures : Nat]
    BY <1>5 DEF Rollback, InsertFails, Spend, TypeOK
  <2>3. UNCHANGED <<account, geo, pending, rows, failed, moved>>
    BY <1>5 DEF Rollback, InsertFails
  <2> QED
    BY <2>1, <2>2, <2>3, ReturnType DEF TypeOK
<1>6. CASE Check(s)
  <2>1. call' \in [Callers -> CallState]
    BY <1>6, CallType DEF Check, Pcs
  <2> QED
    BY <1>6, <2>1 DEF Check, TypeOK
<1>7. CASE Report(s)
  <2>1. call' \in [Callers -> CallState]
    BY <1>7, CallType DEF Report, Pcs
  <2> QED
    BY <1>7, <2>1 DEF Report, TypeOK
<1>8. CASE \E i \in Ids, cc \in Countries : ReplaceUpstream(s, i, cc)
  <2>1. PICK i \in Ids, cc \in Countries : ReplaceUpstream(s, i, cc)
    BY <1>8
  <2>2. MaxAttempts \in Int /\ {"done", "resync"} \subseteq Pcs
    BY KeySyncAssumption DEF Pcs
  <2>3. call' \in [Callers -> CallState]
    <3>1. \/ call' = [call EXCEPT ![s] = Resting("done")]
          \/ call' = [call EXCEPT ![s].pc = "resync", ![s].target = i,
                                 ![s].left = MaxAttempts]
      BY <2>1 DEF ReplaceUpstream
    <3>2. [call EXCEPT ![s] = Resting("done")] \in [Callers -> CallState]
      <4>1. Resting("done") \in CallState
        BY <2>2, CallType
      <4> QED
        BY <4>1 DEF TypeOK
    <3>3. [call EXCEPT ![s].pc = "resync", ![s].target = i, ![s].left = MaxAttempts]
            \in [Callers -> CallState]
      BY <2>1, <2>2, CallType
    <3> QED
      BY <3>1, <3>2, <3>3
  <2>4. pending' \in SUBSET (Ids \X Countries)
    <3>1. <<i, cc>> \in Ids \X Countries
      BY <2>1
    <3>2. pending' = pending \/ pending' = pending \cup {<<i, cc>>}
      BY <2>1 DEF ReplaceUpstream
    <3> QED
      BY <3>1, <3>2 DEF TypeOK
  <2> QED
    BY <2>1, <2>3, <2>4 DEF ReplaceUpstream, TypeOK
<1> QED
  BY <1>1, <1>2, <1>3, <1>4, <1>5, <1>6, <1>7, <1>8 DEF Progress

\* The two kinds of steps together.
LEMMA StepKinds ==
  ASSUME Next
  PROVE  \/ Webshare \/ \E i \in Ids, name \in Renames : Rename(i, name)
         \/ \E s \in Callers :
              \/ Progress(s) \/ ListFails(s) \/ Rollback(s)
              \/ \E i \in Ids, cc \in Countries : ReplaceUpstream(s, i, cc)
  BY DEF Next, Callers

\* The types hold at the start.
LEMMA TypeInit == ASSUME Init PROVE TypeOK
<1>1. Resting("ready") \in CallState /\ Resting("idle") \in CallState
  BY EmptyType DEF Resting, CallState, Pcs
<1>2. call \in [Callers -> CallState]
  BY <1>1 DEF Init
<1> QED
  BY <1>2, KeySyncAssumption, OldTablesAssumption DEF Init, TypeOK

\* Every step keeps the types.
LEMMA TypeStep == ASSUME TypeOK, [Next]_vars PROVE TypeOK'
<1>1. ASSUME Next PROVE TypeOK'
  BY <1>1, StepKinds, EnvironmentType, CallerType
<1>2. ASSUME UNCHANGED vars PROVE TypeOK'
  BY <1>2 DEF vars, TypeOK
<1> QED
  BY <1>1, <1>2

\* Type correctness of the reconciliation (sync.go:73-196, run.go:206-243).
THEOREM TypeCorrect == Spec => []TypeOK
<1>1. Init => TypeOK
  BY TypeInit
<1>2. TypeOK /\ [Next]_vars => TypeOK'
  BY TypeStep
<1> QED
  BY <1>1, <1>2, PTL DEF Spec

-----------------------------------------------------------------------------
(* Proxies that were not relocated. *)

\* Only a page changes a list, and it adds what the account has there.
LEMMA ListsAfter ==
  ASSUME TypeOK, NEW s \in Callers, NEW t \in Callers,
         \/ Progress(s) \/ ListFails(s) \/ Rollback(s)
         \/ \E i \in Ids, cc \in Countries : ReplaceUpstream(s, i, cc)
  PROVE  \/ call'[t].list = call[t].list
         \/ call'[t].list = Empty
         \/ /\ ListPage(s) /\ s = t
            /\ call'[t].list = Appended(call[s].list, Page(call[s].offset))
<1>0. DOMAIN call = Callers /\ \A c \in Callers : call[c] \in CallState
  BY DEF TypeOK
<1>1. CASE Begin(s)
  <2>1. CASE t = s
    BY <1>0, <1>1, <2>1 DEF Begin, CallState
  <2>2. CASE t # s
    BY <1>0, <1>1, <2>2 DEF Begin
  <2> QED
    BY <2>1, <2>2
<1>2. CASE ListPage(s)
  <2> DEFINE list == Appended(call[s].list, Page(call[s].offset))
  <2>1. PICK pc, n, again : Call(s, pc, list, n, again)
    BY <1>2 DEF ListPage
  <2> HIDE DEF list
  <2>2. CASE t = s
    <3>1. call'[t].list = list
      BY <1>0, <2>1, <2>2 DEF Call, CallState
    <3> QED
      BY <1>2, <2>2, <3>1 DEF list
  <2>3. CASE t # s
    BY <1>0, <2>1, <2>3 DEF Call
  <2> QED
    BY <2>2, <2>3
<1>3. CASE ListFails(s) \/ Rollback(s) \/ Commit(s) \/ InsertFails(s)
  <2>1. \E pc : Call(s, pc, Empty, 0, {})
    BY <1>3 DEF ListFails, Rollback, Commit, InsertFails, Returns
  <2> QED
    BY <1>0, <2>1 DEF Call, CallState
<1>4. CASE Check(s)
  BY <1>0, <1>4 DEF Check, CallState
<1>5. CASE Report(s)
  BY <1>0, <1>5 DEF Report, Resting, CallState
<1>6. CASE \E i \in Ids, cc \in Countries : ReplaceUpstream(s, i, cc)
  <2>1. PICK i \in Ids, cc \in Countries : ReplaceUpstream(s, i, cc)
    BY <1>6
  <2>2. CASE call' = [call EXCEPT ![s] = Resting("done")]
    BY <1>0, <2>2 DEF Resting
  <2>3. CASE call' = [call EXCEPT ![s].pc = "resync", ![s].target = i,
                                  ![s].left = MaxAttempts]
    <3>1. call[s] \in CallState /\ call[t] \in CallState
      BY <1>0
    <3>2. CASE t = s
      BY <1>0, <2>3, <3>1, <3>2 DEF CallState
    <3>3. CASE t # s
      BY <1>0, <2>3, <3>3
    <3> QED
      BY <3>2, <3>3
  <2> QED
    BY <2>1, <2>2, <2>3 DEF ReplaceUpstream
<1> QED
  BY <1>1, <1>2, <1>3, <1>4, <1>5, <1>6 DEF Progress

\* The callers leave the account's geography alone, the rest leaves the calls.
LEMMA CallerFrame ==
  ASSUME NEW s \in Callers,
         \/ Progress(s) \/ ListFails(s) \/ Rollback(s)
         \/ \E i \in Ids, cc \in Countries : ReplaceUpstream(s, i, cc)
  PROVE  /\ UNCHANGED <<account, geo, moved>>
         /\ Commit(s) \/ UNCHANGED rows
  BY DEF Progress, Begin, ListPage, ListFails, Commit, Rollback, InsertFails, Check,
         Report, ReplaceUpstream, remote, history

\* Webshare and administrators leave the calls alone; a rename moves no proxy.
LEMMA EnvironmentFrame ==
  ASSUME Webshare \/ \E i \in Ids, name \in Renames : Rename(i, name)
  PROVE  /\ call' = call /\ moved \subseteq moved'
         /\ UNCHANGED rows \/ \E i \in Ids, name \in Renames : Rename(i, name)
         /\ \/ UNCHANGED geo
            \/ \E i \in Ids, cc \in Countries : Move(i, cc)
  BY DEF Webshare, Join, Leave, Move, Fulfil, Rename, remote, history

\* Lists keep to where the proxies are, but for relocations.
LEMMA PlacedStep == ASSUME TypeOK, Placed, Next PROVE Placed'
<1>1. CASE Webshare \/ \E i \in Ids, name \in Renames : Rename(i, name)
  <2>1. CASE UNCHANGED geo
    BY <1>1, <2>1, EnvironmentFrame DEF Placed
  <2>2. CASE \E i \in Ids, cc \in Countries : Move(i, cc)
    <3>1. PICK i \in Ids, cc \in Countries : Move(i, cc)
      BY <2>2
    <3>2. moved' = moved \cup {i} /\ geo' = [geo EXCEPT ![i] = cc] /\ call' = call
      BY <3>1 DEF Move
    <3> QED
      BY <3>2 DEF Placed, TypeOK
  <2> QED
    BY <1>1, <2>1, <2>2, EnvironmentFrame
<1>2. CASE \E s \in Callers :
             \/ Progress(s) \/ ListFails(s) \/ Rollback(s)
             \/ \E i \in Ids, cc \in Countries : ReplaceUpstream(s, i, cc)
  <2>1. PICK s \in Callers :
             \/ Progress(s) \/ ListFails(s) \/ Rollback(s)
             \/ \E i \in Ids, cc \in Countries : ReplaceUpstream(s, i, cc)
    BY <1>2
  <2>2. UNCHANGED <<account, geo, moved>>
    BY <2>1, CallerFrame
  <2>3. ASSUME NEW t \in Callers, NEW i \in DOMAIN call'[t].list \ moved
        PROVE  call'[t].list[i] = Geo[i]
    <3>1. CASE call'[t].list = call[t].list
      BY <2>3, <3>1 DEF Placed
    <3>2. CASE call'[t].list = Empty
      BY <2>3, <3>2 DEF Empty
    <3>3. CASE call'[t].list = Appended(call[s].list, Page(call[s].offset))
      <4> DEFINE page == Page(call[s].offset)
      <4>1. page \subseteq Ids
        BY DEF Page, TypeOK
      <4> HIDE DEF page
      <4>2. call'[t].list = [j \in DOMAIN call[s].list \cup page |->
                               IF j \in page THEN geo[j] ELSE call[s].list[j]]
        BY <3>3 DEF page, Appended
      <4>3. i \in DOMAIN call[s].list \cup page
        BY <2>3, <4>2
      <4> QED
        BY <2>3, <4>1, <4>2, <4>3 DEF Placed
    <3> QED
      BY <2>1, <3>1, <3>2, <3>3, ListsAfter
  <2> QED
    BY <2>2, <2>3 DEF Placed
<1> QED
  BY <1>1, <1>2, StepKinds

-----------------------------------------------------------------------------
(* Names. *)

\* A generated name occupies its number.
LEMMA GeneratedCounts ==
  ASSUME NEW row \in Row, Generated(row) PROVE Counts(row)
  BY DEF Row, Name, Generated, formatDisplayName, OldName, Counts,
         parseDisplayName, parseLegacyDisplayName

\* A row that stays in its country keeps its number, and what kind it is.
LEMMA RefreshedRow ==
  ASSUME RenamesPlain, NEW row \in Row, Generated(row) \/ row.name \in Renames
  PROVE  LET new == Refreshed(row, row.cc)
         IN  /\ new.cc = row.cc /\ new.name.num = row.name.num
             /\ Generated(new) \/ new.name \in Renames
             /\ Generated(new) => Generated(row)
<1> DEFINE new == Refreshed(row, row.cc)
<1>1. new.cc = row.cc
  BY DEF Refreshed
<1>2. CASE parseLegacyDisplayName(row.name)
  <2>1. row.name \notin Renames /\ Generated(row)
    BY <1>2 DEF RenamesPlain
  <2>2. new.name = formatDisplayName(row.cc, row.name.num)
    BY <1>2 DEF Refreshed
  <2>3. new.name.num = row.name.num
    BY <2>2 DEF formatDisplayName
  <2> QED
    BY <1>1, <2>1, <2>2, <2>3 DEF Generated
<1>3. CASE ~parseLegacyDisplayName(row.name)
  <2>1. new.name = row.name
    BY <1>3 DEF Refreshed
  <2> QED
    BY <1>1, <2>1 DEF Generated
<1> QED
  BY <1>2, <1>3

\* A commit keeps the rows in shape and gives no number twice.
LEMMA CommitNames ==
  ASSUME TypeOK, Placed, RowsPlaced, NumbersDistinct, RenamesPlain,
         NEW s \in Callers, Commit(s)
  PROVE  RowsPlaced' /\ NumbersDistinct'
<1> DEFINE list == call[s].list
<1>1. PICK num \in Numberings(list) :
        rows' = [i \in DOMAIN list |->
          IF i \in DOMAIN rows THEN Refreshed(rows[i], list[i])
          ELSE [cc |-> list[i], name |-> formatDisplayName(list[i], num[i])]]
  BY DEF Commit
<1>2. DOMAIN list \subseteq Ids /\ moved' = moved
  BY ListFacts DEF Commit
<1>3. \A i \in DOMAIN list \ moved : list[i] = Geo[i]
  BY DEF Placed
<1> HIDE DEF list
\* A proxy that was in the table.
<1>4. ASSUME NEW i \in (DOMAIN list \cap DOMAIN rows) \ moved
      PROVE  /\ rows[i] \in Row /\ rows'[i].cc = rows[i].cc /\ rows[i].cc = Geo[i]
             /\ rows'[i].name.num = rows[i].name.num
             /\ Generated(rows'[i]) \/ rows'[i].name \in Renames
             /\ Generated(rows'[i]) => Generated(rows[i])
  <2>1. rows[i] \in Row
    BY DEF TypeOK
  <2>2. rows[i].cc = Geo[i] /\ (Generated(rows[i]) \/ rows[i].name \in Renames)
    BY DEF RowsPlaced
  <2>3. rows'[i] = Refreshed(rows[i], rows[i].cc)
    BY <1>1, <1>3, <2>2
  <2> QED
    BY <2>1, <2>2, <2>3, RefreshedRow
\* A new one.
<1>5. ASSUME NEW i \in DOMAIN list \ DOMAIN rows
      PROVE  /\ rows'[i].cc = list[i] /\ rows'[i].name.num = num[i]
             /\ Generated(rows'[i])
             /\ i \in Fresh(list)
  BY <1>1 DEF Generated, formatDisplayName, Fresh
<1>6. RowsPlaced'
  <2>1. ASSUME NEW i \in DOMAIN list \ moved
        PROVE  /\ rows'[i].cc = Geo[i]
               /\ Generated(rows'[i]) \/ rows'[i].name \in Renames
               /\ Generated(rows'[i]) => rows'[i].name.num > 0
    <3>1. CASE i \in DOMAIN rows
      <4>1. Generated(rows[i]) => rows[i].name.num > 0 BY <3>1 DEF RowsPlaced
      <4> QED BY <1>4, <3>1, <4>1
    <3>2. CASE i \notin DOMAIN rows
      <4>1. num[i] \in 1..Cardinality(Ids) BY <1>5, <3>2 DEF Numberings
      <4>2. Cardinality(Ids) \in Nat BY FS_CardinalityType, KeySyncAssumption
      <4>3. num[i] > 0 BY <4>1, <4>2
      <4> QED BY <1>3, <1>5, <3>2, <4>3
    <3> QED BY <3>1, <3>2
  <2> QED
    BY <1>1, <1>2, <2>1 DEF RowsPlaced, Generated
<1>7. ASSUME NEW i \in DOMAIN list \ moved, NEW j \in DOMAIN list \ moved, i # j,
             Generated(rows'[i]), Generated(rows'[j]), rows'[i].cc = rows'[j].cc
      PROVE  rows'[i].name.num # rows'[j].name.num
  <2>1. CASE i \in DOMAIN rows /\ j \in DOMAIN rows
    BY <1>4, <1>7, <2>1 DEF NumbersDistinct
  <2>2. CASE i \notin DOMAIN rows /\ j \notin DOMAIN rows
    <3>1. i \in Fresh(list) /\ j \in Fresh(list) \ {i} /\ list[j] = list[i]
      BY <1>5, <1>7, <2>2
    <3>2. num[j] # num[i]
      BY <3>1 DEF Numberings
    <3> QED
      BY <1>5, <1>7, <2>2, <3>2
  <2>3. ASSUME NEW old \in (DOMAIN list \cap DOMAIN rows) \ moved,
               NEW new \in DOMAIN list \ DOMAIN rows,
               Generated(rows'[old]), rows'[old].cc = rows'[new].cc
        PROVE  rows'[old].name.num # rows'[new].name.num
    <3>1. Counts(rows[old])
      BY <1>4, <2>3, GeneratedCounts
    <3>2. <<rows[old].cc, rows[old].name.num>> \in buildSeqAllocator(list)
      BY <3>1 DEF buildSeqAllocator
    <3>3. <<list[new], num[new]>> \notin buildSeqAllocator(list)
      BY <1>5 DEF Numberings
    <3> QED
      BY <1>4, <1>5, <2>3, <3>2, <3>3
  <2> QED
    BY <1>7, <2>1, <2>2, <2>3
<1>8. NumbersDistinct'
  BY <1>1, <1>2, <1>7 DEF NumbersDistinct, Generated
<1> QED
  BY <1>6, <1>8

\* Rows keep their countries and their numbers apart.
LEMMA NamesStep ==
  ASSUME TypeOK, Placed, RowsPlaced, NumbersDistinct, RenamesPlain, Next
  PROVE  RowsPlaced' /\ NumbersDistinct'
<1>1. ASSUME UNCHANGED rows, moved \subseteq moved' PROVE RowsPlaced' /\ NumbersDistinct'
  BY <1>1 DEF RowsPlaced, NumbersDistinct, Generated
<1>2. ASSUME NEW i \in Ids, NEW name \in Renames, Rename(i, name)
      PROVE  RowsPlaced' /\ NumbersDistinct'
  <2>1. DOMAIN rows' = DOMAIN rows /\ moved' = moved
    BY <1>2 DEF Rename, history
  <2>2. rows[i] \in Row /\ i \in DOMAIN rows
    BY <1>2 DEF Rename, TypeOK
  <2>3. rows'[i].name = name /\ rows'[i].cc = rows[i].cc
    BY <1>2, <2>2 DEF Rename, Row
  <2>4. ~Generated(rows'[i])
    <3>1. name \in Name /\ rows[i].cc \in Countries
      BY <2>2, KeySyncAssumption DEF Row
    <3> QED
      BY <2>3, <3>1 DEF RenamesPlain, Generated, formatDisplayName, OldName,
        parseDisplayName, parseLegacyDisplayName
  <2>5. \A j \in DOMAIN rows \ {i} : rows'[j] = rows[j]
    BY <1>2 DEF Rename
  <2>6. RowsPlaced'
    <3>1. ASSUME NEW j \in DOMAIN rows \ moved
          PROVE  /\ rows'[j].cc = Geo[j]
                 /\ Generated(rows'[j]) \/ rows'[j].name \in Renames
                 /\ Generated(rows'[j]) => rows'[j].name.num > 0
      <4>1. CASE j = i
        BY <2>3, <2>4, <4>1 DEF RowsPlaced
      <4>2. CASE j # i
        BY <2>5, <4>2 DEF RowsPlaced
      <4> QED
        BY <4>1, <4>2
    <3> QED
      BY <2>1, <3>1 DEF RowsPlaced, Generated
  <2>7. NumbersDistinct'
    BY <2>1, <2>4, <2>5 DEF NumbersDistinct, Generated
  <2> QED
    BY <2>6, <2>7
<1>3. CASE Webshare \/ \E i \in Ids, name \in Renames : Rename(i, name)
  BY <1>1, <1>2, <1>3, EnvironmentFrame
<1>4. CASE \E s \in Callers :
             \/ Progress(s) \/ ListFails(s) \/ Rollback(s)
             \/ \E i \in Ids, cc \in Countries : ReplaceUpstream(s, i, cc)
  BY <1>1, <1>4, CallerFrame, CommitNames
<1> QED
  BY <1>3, <1>4, StepKinds

-----------------------------------------------------------------------------
(* The number of a proxy that another replaces. *)

\* The lower numbers are those of rows that stay; the number itself is that of
\* no row that stays, and there is no other new row to take it.
LEMMA CommitReclaims ==
  ASSUME TypeOK, RowsPlaced, NumbersDistinct, RenamesPlain, moved \subseteq moved',
         NEW s \in Callers, Commit(s),
         NEW old \in Ids, NEW new \in Ids, Swapped(old, new)
  PROVE  rows'[new].name = rows[old].name
<1> DEFINE list == call[s].list
           k == rows[old].name.num
<1>1. PICK num \in Numberings(list) :
        rows' = [i \in DOMAIN list |->
          IF i \in DOMAIN rows THEN Refreshed(rows[i], list[i])
          ELSE [cc |-> list[i], name |-> formatDisplayName(list[i], num[i])]]
  BY DEF Commit
<1> HIDE DEF list
<1>2. /\ DOMAIN rows' = DOMAIN list /\ moved = {}
      /\ old \in DOMAIN rows /\ old \notin DOMAIN list
      /\ new \in DOMAIN list /\ new \notin DOMAIN rows
      /\ \A j \in DOMAIN rows \ {old} : j \in DOMAIN list
      /\ Fresh(list) = {new}
  BY <1>1 DEF Swapped, Fresh
<1> DEFINE cc == rows[old].cc
<1>3. /\ rows'[new].name = formatDisplayName(list[new], num[new]) /\ list[new] = cc
  BY <1>1, <1>2 DEF Swapped
<1>4. rows[old] \in Row /\ Generated(rows[old]) /\ k \in Nat /\ k > 0
  <2>1. rows[old] \in Row BY <1>2 DEF TypeOK
  <2>2. Generated(rows[old]) BY DEF Swapped, Generated
  <2>3. k \in Nat BY <2>1 DEF Row, Name
  <2> QED BY <1>2, <2>1, <2>2, <2>3 DEF RowsPlaced
<1>5. num[new] \in Nat /\ num[new] > 0
  <2>1. num[new] \in 1..Cardinality(Ids) BY <1>2 DEF Numberings
  <2>2. Cardinality(Ids) \in Nat BY FS_CardinalityType, KeySyncAssumption
  <2> QED BY <2>1, <2>2
<1> HIDE DEF cc, k
\* No row that stays has the number.
<1>6. <<cc, k>> \notin buildSeqAllocator(list)
  <2> SUFFICES ASSUME <<cc, k>> \in buildSeqAllocator(list) PROVE FALSE
    OBVIOUS
  <2>1. PICK j \in DOMAIN rows \cap DOMAIN list :
          Counts(rows[j]) /\ rows[j].cc = cc /\ rows[j].name.num = k
    BY DEF buildSeqAllocator
  <2>2. rows[j].name \notin Renames
    BY <2>1 DEF Counts, RenamesPlain
  <2>3. Generated(rows[j]) BY <1>2, <2>1, <2>2 DEF RowsPlaced
  <2>4. j # old BY <1>2, <2>1
  <2> QED BY <1>2, <1>4, <2>1, <2>3, <2>4 DEF NumbersDistinct, cc, k
<1>7. ~(num[new] < k)
  <2> SUFFICES ASSUME num[new] < k PROVE FALSE
    OBVIOUS
  <2>1. num[new] \in 1..(k - 1) BY <1>4, <1>5
  <2>2. PICK j \in DOMAIN rows \ {old} :
          rows[j].cc = cc /\ Counts(rows[j]) /\ rows[j].name.num = num[new]
    BY <2>1 DEF Swapped, cc, k
  <2>3. <<cc, num[new]>> \in buildSeqAllocator(list)
    BY <1>2, <2>2 DEF buildSeqAllocator
  <2>4. <<list[new], num[new]>> \notin buildSeqAllocator(list)
    BY <1>2 DEF Numberings
  <2> QED BY <1>3, <2>3, <2>4
<1>8. ~(num[new] > k)
  <2> SUFFICES ASSUME num[new] > k PROVE FALSE
    OBVIOUS
  <2>1. k \in 1..(num[new] - 1) BY <1>4, <1>5
  <2>2. \/ <<list[new], k>> \in buildSeqAllocator(list)
        \/ \E j \in Fresh(list) : list[j] = list[new] /\ num[j] = k
    BY <1>2, <2>1 DEF Numberings
  <2> QED BY <1>2, <1>3, <1>4, <1>6, <2>2
<1>9. num[new] = k BY <1>4, <1>5, <1>7, <1>8
<1> QED BY <1>3, <1>9 DEF Swapped, cc, k

\* Only a commit adds and deletes rows.
LEMMA ReclaimingStep ==
  ASSUME TypeOK, RowsPlaced, NumbersDistinct, RenamesPlain, Next,
         NEW old \in Ids, NEW new \in Ids, Swapped(old, new)
  PROVE  rows'[new].name = rows[old].name
<1>1. DOMAIN rows' # DOMAIN rows BY DEF Swapped
<1>2. CASE Webshare \/ \E i \in Ids, name \in Renames : Rename(i, name)
  <2>1. DOMAIN rows' = DOMAIN rows BY <1>2, EnvironmentFrame DEF Rename
  <2> QED BY <1>1, <2>1
<1>3. ASSUME NEW s \in Callers,
         \/ Progress(s) \/ ListFails(s) \/ Rollback(s)
         \/ \E i \in Ids, cc \in Countries : ReplaceUpstream(s, i, cc)
      PROVE  rows'[new].name = rows[old].name
  <2>1. Commit(s) /\ moved' = moved BY <1>1, <1>3, CallerFrame
  <2> QED BY <2>1, CommitReclaims
<1> QED BY <1>2, <1>3, StepKinds

-----------------------------------------------------------------------------
(* Deletions. *)

\* Positions are numbers between one and the size of the account.
LEMMA PositionType ==
  ASSUME TypeOK, NEW i \in Ids
  PROVE  /\ Position(i) \in Nat /\ Cardinality(account) \in Nat
         /\ Position(i) <= Cardinality(account)
         /\ i \in account => Position(i) > 0
<1> DEFINE upTo == {j \in account : Rank[j] <= Rank[i]}
<1>1. IsFiniteSet(account)
  BY FS_Subset, KeySyncAssumption DEF TypeOK
<1>2. upTo \in SUBSET account
  OBVIOUS
<1>3. i \in account => i \in upTo
  BY KeySyncAssumption
<1>4. Position(i) = Cardinality(upTo)
  BY DEF Position
<1> HIDE DEF upTo
<1>5. IsFiniteSet(upTo) /\ Cardinality(upTo) <= Cardinality(account)
  BY <1>1, <1>2, FS_Subset
<1>6. Cardinality(upTo) \in Nat /\ Cardinality(account) \in Nat
  BY <1>1, <1>5, FS_CardinalityType
<1>7. i \in account => Cardinality(upTo) # 0
  BY <1>3, <1>5, FS_EmptySet
<1> QED
  BY <1>4, <1>5, <1>6, <1>7

\* A proxy moves forward only when one ahead of it leaves.
LEMMA PositionKept ==
  ASSUME TypeOK, account' \in SUBSET Ids, NEW i \in Ids,
         \A j \in account \ account' : Rank[j] > Rank[i]
  PROVE  Position(i)' >= Position(i)
<1> DEFINE before == {j \in account : Rank[j] <= Rank[i]}
           after == {j \in account' : Rank[j] <= Rank[i]}
<1>1. IsFiniteSet(after)
  BY FS_Subset, KeySyncAssumption
<1>2. before \in SUBSET after
  BY KeySyncAssumption DEF TypeOK
<1>3. Position(i) = Cardinality(before) /\ Position(i)' = Cardinality(after)
  BY DEF Position
<1> HIDE DEF before, after
<1>4. IsFiniteSet(before) /\ Cardinality(before) <= Cardinality(after)
  BY <1>1, <1>2, FS_Subset
<1>5. Cardinality(before) \in Nat /\ Cardinality(after) \in Nat
  BY <1>1, <1>4, FS_CardinalityType
<1> QED
  BY <1>3, <1>4, <1>5

\* Where a caller stands after a step of another one.
LEMMA OthersKept ==
  ASSUME TypeOK, NEW s \in Callers, NEW t \in Callers, t # s,
         \/ Progress(s) \/ ListFails(s) \/ Rollback(s)
         \/ \E i \in Ids, cc \in Countries : ReplaceUpstream(s, i, cc)
  PROVE  call'[t] = call[t] /\ absent'[t] = absent[t] /\ departed'[t] = departed[t]
  BY DEF TypeOK, Progress, Begin, ListPage, ListFails, Commit, Rollback, InsertFails, Check,
         Report, ReplaceUpstream, Call, Returns, history, listing, remote

\* After a step of its own a caller is listing, about to write, or neither.
LEMMA OwnStep ==
  ASSUME TypeOK, NEW s \in Callers, call'[s].pc \in {"list", "write"},
         \/ Progress(s) \/ ListFails(s) \/ Rollback(s)
         \/ \E i \in Ids, cc \in Countries : ReplaceUpstream(s, i, cc)
  PROVE  Begin(s) \/ ListPage(s)
<1>0. DOMAIN call = Callers /\ call[s] \in CallState
  BY DEF TypeOK
<1>1. ASSUME ListFails(s) \/ Rollback(s) \/ Commit(s) \/ InsertFails(s) PROVE FALSE
  <2>1. PICK pc \in {"idle", "report", "resync", "check"} : Call(s, pc, Empty, 0, {})
    BY <1>1 DEF ListFails, Rollback, Commit, InsertFails, Returns, AfterError, AfterSuccess
  <2> QED
    BY <1>0, <2>1 DEF Call, CallState
<1>2. ASSUME Check(s) \/ Report(s) PROVE FALSE
  BY <1>0, <1>2 DEF Check, Report, Resting, CallState
<1>3. ASSUME NEW i \in Ids, NEW cc \in Countries, ReplaceUpstream(s, i, cc) PROVE FALSE
  <2>1. CASE call' = [call EXCEPT ![s] = Resting("done")]
    BY <1>0, <2>1 DEF Resting
  <2>2. CASE call' = [call EXCEPT ![s].pc = "resync", ![s].target = i,
                                  ![s].left = MaxAttempts]
    BY <1>0, <2>2 DEF CallState
  <2> QED
    BY <1>3, <2>1, <2>2 DEF ReplaceUpstream
<1> QED
  BY <1>1, <1>2, <1>3 DEF Progress

\* The part of Listed that is about one caller, in the next state.
ListedNext(t) ==
  /\ call'[t].pc = "list" => Ids \ account' \subseteq absent'[t]
  /\ call'[t].pc \in {"list", "write"} => \A i \in Ids :
       \/ Explained(t, i)' \/ i \in DOMAIN call'[t].list
       \/ call'[t].pc = "list" /\ Position(i)' > call'[t].offset

\* A call that begins has every proxy ahead of it.
LEMMA ListedBegin ==
  ASSUME TypeOK, NEW s \in Callers, Begin(s) PROVE ListedNext(s)
<1>1. /\ call'[s].pc = "list" /\ call'[s].offset = 0 /\ account' = account
      /\ absent'[s] = Ids \ account /\ departed'[s] = {}
  BY DEF Begin, TypeOK, CallState, remote
<1>2. ASSUME NEW i \in Ids, i \in account PROVE Position(i)' > 0
  <2>1. Position(i)' = Position(i)
    BY <1>1 DEF Position
  <2> QED
    BY <1>2, <2>1, PositionType
<1> QED
  BY <1>1, <1>2 DEF ListedNext, Explained

\* A page takes what lies between two offsets; after the last one nothing lies
\* beyond.
LEMMA ListedPage ==
  ASSUME TypeOK, Listed, NEW s \in Callers, ListPage(s) PROVE ListedNext(s)
<1> DEFINE page == Page(call[s].offset)
           list == Appended(call[s].list, page)
           next == call[s].offset + PageSize
           last == ~(next < Cardinality(account))
<1>1. /\ account' = account /\ absent' = absent /\ departed' = departed
      /\ call[s].pc = "list" /\ call[s].offset \in Nat /\ PageSize \in Nat
  BY KeySyncAssumption DEF ListPage, At, remote, history, listing, TypeOK, CallState
<1>2. PICK again : Call(s, IF last THEN "write" ELSE "list", list, IF last THEN 0 ELSE next, again)
  BY DEF ListPage
<1>3. DOMAIN list = DOMAIN call[s].list \cup page
  BY DEF Appended
<1> HIDE DEF list, last
<1>4. /\ call'[s].pc = (IF last THEN "write" ELSE "list") /\ call'[s].list = list
      /\ call'[s].offset = (IF last THEN 0 ELSE next)
  BY <1>2 DEF Call, TypeOK, CallState
<1>5. Ids \ account' \subseteq absent'[s]
  BY <1>1 DEF Listed
<1>6. ASSUME NEW i \in Ids, ~Explained(s, i), i \notin DOMAIN list
      PROVE  ~last /\ Position(i) > next
  <2>1. i \in account
    BY <1>1, <1>5, <1>6 DEF Explained
  <2>2. Position(i) > call[s].offset
    BY <1>1, <1>3, <1>6 DEF Listed
  <2>3. Position(i) \in Nat /\ Position(i) <= Cardinality(account) /\ Cardinality(account) \in Nat
    BY PositionType
  <2>4. ~(Position(i) <= next)
    BY <1>1, <1>3, <1>6, <2>1, <2>2, <2>3 DEF Page
  <2>5. next \in Nat
    BY <1>1
  <2> HIDE DEF next
  <2>6. Position(i) > next /\ next < Cardinality(account)
    BY <2>3, <2>4, <2>5
  <2> QED
    BY <2>6 DEF last
<1>7. ASSUME NEW i \in Ids
      PROVE  (Explained(s, i)' <=> Explained(s, i)) /\ Position(i)' = Position(i)
  BY <1>1 DEF Explained, Position
<1>8. ASSUME NEW i \in Ids
      PROVE  \/ Explained(s, i)' \/ i \in DOMAIN call'[s].list
             \/ call'[s].pc = "list" /\ Position(i)' > call'[s].offset
  <2>1. CASE Explained(s, i) \/ i \in DOMAIN list
    BY <1>4, <1>7, <2>1
  <2>2. CASE ~Explained(s, i) /\ i \notin DOMAIN list
    <3>1. ~last /\ Position(i) > next
      BY <1>6, <2>2
    <3> QED
      BY <1>4, <1>7, <3>1
  <2> QED
    BY <2>1, <2>2
<1> QED
  BY <1>5, <1>8 DEF ListedNext

\* What leaves the account is remembered by every call that is listing.
LEMMA ListedEnvironment ==
  ASSUME TypeOK, Listed, account' \in SUBSET Ids, NEW s \in Callers,
         Webshare \/ \E i \in Ids, name \in Renames : Rename(i, name)
  PROVE  ListedNext(s)
<1>1. call' = call
  BY EnvironmentFrame
<1>2. \/ account \subseteq account' /\ absent' = absent /\ departed' = departed
      \/ \E k \in Ids : account \ {k} \subseteq account' /\ Gone(k)
  <2>1. ASSUME NEW i \in Ids, Join(i)
        PROVE  account \subseteq account' /\ absent' = absent /\ departed' = departed
    BY <2>1 DEF Join, history, listing
  <2>2. ASSUME NEW i \in Ids, Leave(i) PROVE account \ {i} \subseteq account' /\ Gone(i)
    BY <2>2 DEF Leave
  <2>3. ASSUME NEW i \in Ids, NEW cc \in Countries, Move(i, cc)
        PROVE  account \subseteq account' /\ absent' = absent /\ departed' = departed
    BY <2>3 DEF Move, listing
  <2>4. ASSUME NEW i \in Ids, NEW j \in Ids, Fulfil(i, j)
        PROVE  account \ {i} \subseteq account' /\ Gone(i)
    BY <2>4 DEF Fulfil
  <2>5. ASSUME NEW i \in Ids, NEW name \in Renames, Rename(i, name)
        PROVE  account \subseteq account' /\ absent' = absent /\ departed' = departed
    BY <2>5 DEF Rename, remote, history, listing
  <2> QED
    BY <2>1, <2>2, <2>3, <2>4, <2>5 DEF Webshare
<1>3. /\ absent[s] \subseteq absent'[s] /\ departed[s] \subseteq departed'[s]
      /\ call[s].pc = "list" => \A k \in account \ account' : k \in absent'[s] \cap departed'[s]
  BY <1>2 DEF Gone, TypeOK
<1>4. \A i \in Ids : Explained(s, i) => Explained(s, i)'
  BY <1>3 DEF Explained
<1>5. call'[s].pc = "list" => Ids \ account' \subseteq absent'[s]
  BY <1>1, <1>3 DEF Listed
<1>6. ASSUME NEW i \in Ids, call[s].pc \in {"list", "write"}, ~Explained(s, i)',
             i \notin DOMAIN call[s].list
      PROVE  call[s].pc = "list" /\ Position(i)' > call[s].offset
  <2>1. call[s].pc = "list" /\ Position(i) > call[s].offset
    BY <1>4, <1>6 DEF Listed
  <2>2. ASSUME NEW k \in account \ account' PROVE Rank[k] > Rank[i]
    <3>1. k \in Ids /\ k \in departed'[s] /\ k \in absent'[s]
      BY <1>3, <2>1, <2>2 DEF TypeOK
    <3>2. k # i /\ ~(Rank[k] < Rank[i])
      BY <1>6, <3>1 DEF Explained
    <3>3. Rank[k] \in Nat /\ Rank[i] \in Nat /\ Rank[k] # Rank[i]
      BY <3>1, <3>2, KeySyncAssumption
    <3> QED
      BY <3>2, <3>3
  <2>3. Position(i)' >= Position(i)
    BY <2>2, PositionKept
  <2>4. Position(i) \in Nat
    BY PositionType
  <2>5. Position(i)' \in Nat /\ call[s].offset \in Nat
    <3>1. IsFiniteSet({j \in account' : Rank[j] <= Rank[i]})
      BY FS_Subset, KeySyncAssumption
    <3> QED
      BY <3>1, FS_CardinalityType DEF Position, TypeOK, CallState
  <2> QED
    BY <2>1, <2>3, <2>4, <2>5
<1> QED
  BY <1>1, <1>5, <1>6 DEF ListedNext

\* Every step keeps account of what the calls have not listed.
LEMMA ListedStep == ASSUME TypeOK, Listed, Next PROVE Listed'
<1>0. account' \in SUBSET Ids
  BY TypeStep DEF TypeOK
<1>1. ASSUME NEW s \in Callers, NEW t \in Callers,
         \/ Progress(s) \/ ListFails(s) \/ Rollback(s)
         \/ \E i \in Ids, cc \in Countries : ReplaceUpstream(s, i, cc)
      PROVE ListedNext(t)
  <2>1. account' = account
    BY <1>1, CallerFrame
  <2>2. CASE t # s
    <3>1. call'[t] = call[t] /\ absent'[t] = absent[t] /\ departed'[t] = departed[t]
      BY <1>1, <2>2, OthersKept
    <3>2. \A i \in Ids : (Explained(t, i)' <=> Explained(t, i)) /\ Position(i)' = Position(i)
      BY <2>1, <3>1 DEF Explained, Position
    <3> QED
      BY <2>1, <3>1, <3>2 DEF Listed, ListedNext
  <2>3. CASE t = s /\ call'[s].pc \in {"list", "write"}
    BY <1>1, <2>3, OwnStep, ListedBegin, ListedPage
  <2>4. CASE t = s /\ call'[s].pc \notin {"list", "write"}
    BY <2>4 DEF ListedNext
  <2> QED
    BY <2>2, <2>3, <2>4
<1>2. \A t \in Callers : ListedNext(t)
  BY <1>0, <1>1, ListedEnvironment, StepKinds
<1> QED
  BY <1>2 DEF Listed, ListedNext

\* Only a commit deletes rows, those of proxies its list does not have.
LEMMA DeletingStep ==
  ASSUME TypeOK, Listed, Next
  PROVE  \A i \in DOMAIN rows \ DOMAIN rows' : \E s \in Callers :
           Deletes(s) /\ Explained(s, i)
<1>1. CASE Webshare \/ \E i \in Ids, name \in Renames : Rename(i, name)
  <2>1. DOMAIN rows' = DOMAIN rows
    BY <1>1, EnvironmentFrame DEF Rename
  <2> QED
    BY <2>1
<1>2. ASSUME NEW s \in Callers, ~Commit(s),
         \/ Progress(s) \/ ListFails(s) \/ Rollback(s)
         \/ \E i \in Ids, cc \in Countries : ReplaceUpstream(s, i, cc)
      PROVE rows' = rows
  BY <1>2, CallerFrame
<1>3. ASSUME NEW s \in Callers, Commit(s), NEW i \in DOMAIN rows \ DOMAIN rows'
      PROVE  Deletes(s) /\ Explained(s, i)
  <2>1. i \in Ids \ DOMAIN call[s].list
    BY <1>3, CommitTable DEF TypeOK
  <2>2. At(s, "write") /\ Call(s, AfterSuccess(s), Empty, 0, {})
    BY <1>3 DEF Commit, Returns
  <2>3. call'[s].pc = AfterSuccess(s)
    BY <2>2 DEF Call, TypeOK, CallState
  <2> QED
    BY <2>1, <2>2, <2>3 DEF Listed, At, Deletes, AfterSuccess
<1> QED
  BY <1>1, <1>2, <1>3, StepKinds

-----------------------------------------------------------------------------
(* The theorems. *)

\* The invariants hold at the start.
LEMMA InitialState ==
  ASSUME Init PROVE Placed /\ RowsPlaced /\ NumbersDistinct /\ Listed
<1>1. \A s \in Callers : call[s].list = Empty /\ call[s].pc \in {"ready", "idle"}
  BY DEF Init, Resting
<1>2. CleanTable(rows) /\ geo = Geo /\ moved = {}
  BY OldTablesAssumption DEF Init
<1>3. Placed
  BY <1>1, <1>2 DEF Placed, Empty
<1>4. RowsPlaced /\ NumbersDistinct
  BY <1>2 DEF CleanTable, RowsPlaced, NumbersDistinct
<1> QED
  BY <1>1, <1>3, <1>4 DEF Listed

\* Distinct numbers make distinct names.
LEMMA NumbersMakeNames ==
  ASSUME TypeOK, RowsPlaced, NumbersDistinct PROVE NamesDistinct
<1>1. ASSUME NEW i \in DOMAIN rows \ moved, NEW j \in DOMAIN rows \ moved,
             i # j, rows[i].name = rows[j].name, rows[i].name \notin Renames
      PROVE  FALSE
  <2>1. Generated(rows[i]) /\ Generated(rows[j])
    BY <1>1 DEF RowsPlaced
  <2>2. rows[i].cc = rows[j].cc
    BY <1>1, <2>1 DEF Generated, formatDisplayName, OldName
  <2> QED
    BY <1>1, <2>1, <2>2 DEF NumbersDistinct
<1> QED
  BY <1>1 DEF NamesDistinct

\* While administrators stay out of the generated forms, rows and numbers of
\* proxies that stayed where they were keep their shape.
NamesInv == /\ TypeOK /\ Placed
            /\ RenamesPlain => RowsPlaced /\ NumbersDistinct

\* The invariant about names holds throughout.
LEMMA NamesInvariance == Spec => []NamesInv
<1>1. Init => NamesInv
  BY InitialState, TypeInit DEF NamesInv
<1>2. NamesInv /\ [Next]_vars => NamesInv'
  <2> USE DEF NamesInv
  <2>1. ASSUME NamesInv, Next PROVE NamesInv'
    BY <2>1, TypeStep, PlacedStep, NamesStep DEF RenamesPlain
  <2>2. ASSUME NamesInv, UNCHANGED vars PROVE NamesInv'
    <3>1. TypeOK'
      BY <2>2, TypeStep
    <3>2. Placed'
      BY <2>2 DEF vars, Placed
    <3>3. RenamesPlain => RowsPlaced' /\ NumbersDistinct'
      BY <2>2 DEF vars, RowsPlaced, NumbersDistinct, Generated
    <3> QED
      BY <3>1, <3>2, <3>3 DEF RenamesPlain
  <2> QED
    BY <2>1, <2>2
<1> QED
  BY <1>1, <1>2, PTL DEF Spec

\* No name is handed out twice, whatever calls overlap (sync.go:113-151,
\* 252-280), as long as administrators stay out of the generated forms.
THEOREM NamesStayDistinct == Spec => [](RenamesPlain => NamesDistinct)
<1>1. NamesInv => (RenamesPlain => NamesDistinct)
  BY NumbersMakeNames DEF NamesInv
<1> QED
  BY <1>1, NamesInvariance, PTL

\* A replacement keeps the display name: the freed number is handed out again
\* if no lower one is free (displayname.go:82-88), in the one commit that
\* deletes the old row and inserts the new one.  An administrator who gives
\* names of the generated form can take the number away.
THEOREM SlotsReclaimed ==
  ASSUME RenamesPlain
  PROVE  Spec => SlotReclaimed
<1>1. NamesInv /\ [Next]_vars =>
        [\A old, new \in Ids : Swapped(old, new) => rows'[new].name = rows[old].name]_vars
  BY ReclaimingStep DEF NamesInv
<1> QED
  BY <1>1, NamesInvariance, PTL DEF Spec, SlotReclaimed

\* A sync deletes a row only if its proxy was out of the account at some time of
\* the listing, or one ahead of it in Webshare's order left meanwhile and
\* shifted it past the pages (client.go:197-211, sync.go:80-85, 168-187).  The
\* second case is real: the pages are positions, not proxies.
THEOREM DeletionsJustified == Spec => DeletionsExplained
<1>1. Init => TypeOK /\ Listed
  BY InitialState, TypeInit
<1>2. TypeOK /\ Listed /\ [Next]_vars => TypeOK' /\ Listed'
  <2>1. ASSUME TypeOK, Listed, Next PROVE TypeOK' /\ Listed'
    BY <2>1, TypeStep, ListedStep
  <2>2. ASSUME TypeOK, Listed, UNCHANGED vars PROVE TypeOK' /\ Listed'
    <3>1. Listed'
      BY <2>2 DEF vars, Listed, Explained, Position
    <3> QED
      BY <2>2, <3>1, TypeStep
  <2> QED
    BY <2>1, <2>2
<1>3. TypeOK /\ Listed /\ [Next]_vars =>
        [\A i \in DOMAIN rows \ DOMAIN rows' : \E s \in Callers :
           Deletes(s) /\ Explained(s, i)]_vars
  BY DeletingStep
<1> QED
  BY <1>1, <1>2, <1>3, PTL DEF Spec, DeletionsExplained
=============================================================================
