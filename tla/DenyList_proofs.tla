-------------------------- MODULE DenyList_proofs --------------------------
(***************************************************************************)
(* Theorems about DenyList, for any addresses, goroutines, threshold,      *)
(* window, ban and delay: no series of failures goes unpunished, no ban is *)
(* imposed without one, and a ban is kept at the gates.                    *)
(*                                                                         *)
(* None is inductive.  The code forgets stamps from the front of a list    *)
(* whose order the delays have disturbed, so the invariant compares that   *)
(* list with everything recorded since the last ban: it is the rest of it  *)
(* after stamps that are too old for any failure still to come (Rest,      *)
(* Forgotten), and no stamp is out of order by more than a delay.          *)
(***************************************************************************)
EXTENDS DenyList, FiniteSetTheorems, SequenceTheorems, WellFoundedInduction, TLAPS

\* A goroutine has read the clock a short while ago.
Timely ==
  \A c \in Callers :
    /\ caller[c].pc \in {"gate", "record"} =>
         caller[c].now <= clock /\ clock <= caller[c].now + Delay
    /\ caller[c].pc = "gate" => caller[c].gates \in {1, 2}

\* How many of the stamps since the last ban have been dropped.
Gone(ip) == Len(since[ip]) - Len(fails[ip])

\* The list of the code is what is left of them ...
Rest ==
  \A ip \in IPs :
    /\ Len(fails[ip]) <= Len(since[ip]) /\ Len(fails[ip]) < Threshold
    /\ \A i \in 1..Len(fails[ip]) : fails[ip][i] = since[ip][Gone(ip) + i]

\* ... after those whose window is over.
Forgotten == \A ip \in IPs : \A i \in 1..Gone(ip) : since[ip][i] + Window < clock

\* Stamps are of the past, and recorded late by at most a delay.
Ordered ==
  \A ip \in IPs : \A i \in 1..Len(since[ip]) :
    /\ since[ip][i] <= clock
    /\ \A j \in 1..Len(since[ip]) : i < j => since[ip][i] <= since[ip][j] + Delay

\* The ban on record ends when the longest ban does, or a delay earlier; once
\* it has been forgotten that moment is past.
Banned ==
  \A ip \in IPs :
    /\ until[ip] <= clock + BanFor
    /\ \A t \in bannedAt[ip] : until[ip] <= t + BanFor + Delay
    /\ bannedAt[ip] = {} => until[ip] <= clock + Delay

IInv == TypeOK /\ Timely /\ Rest /\ Forgotten /\ Ordered /\ Banned /\ NoMissedBan
-----------------------------------------------------------------------------
\* What the history variable until takes: the later of two ends.
LEMMA MaxOfTwo ==
  ASSUME NEW a \in Nat, NEW b \in Nat
  PROVE  Max({a, b}) = IF a >= b THEN a ELSE b
<1>1. \E x \in {a, b} : \A y \in {a, b} : x >= y
  OBVIOUS
<1> QED
  BY <1>1 DEF Max

\* Sets of indices have a least element.
LEMMA HasMin ==
  ASSUME NEW S \in SUBSET Nat, S # {}
  PROVE  Min(S) \in S /\ \A x \in S : Min(S) <= x
<1>1. PICK x \in S : \A y \in S : ~(<<y, x>> \in OpToRel(<, Nat))
  BY NatLessThanWellFounded, WFMin
<1>2. ASSUME NEW y \in S PROVE x <= y
  <2>1. <<y, x>> \in Nat \X Nat /\ <<y, x>>[1] = y /\ <<y, x>>[2] = x
    OBVIOUS
  <2>2. ~(y < x)
    BY <1>1, <2>1 DEF OpToRel
  <2> QED
    BY <2>1, <2>2
<1> QED
  BY <1>1, <1>2 DEF Min

\* The trimming loop drops old stamps from the front and stops at the first
\* one inside the window.
LEMMA TrimFacts ==
  ASSUME NEW stamps \in Seq(Nat), NEW n \in Nat, Len(stamps) = n, NEW cutoff \in Int
  PROVE  /\ Trim(stamps, cutoff) \in Seq(Nat)
         /\ \E k \in 0..n :
              /\ Len(Trim(stamps, cutoff)) = n - k
              /\ \A i \in 1..(n - k) : Trim(stamps, cutoff)[i] = stamps[k + i]
              /\ \A i \in 1..k : stamps[i] < cutoff
              /\ k < n => stamps[k + 1] >= cutoff
<1> DEFINE inside == {i \in DOMAIN stamps : stamps[i] >= cutoff}
<1>1. DOMAIN stamps = 1..n /\ \A i \in 1..n : stamps[i] \in Nat
  OBVIOUS
<1>2. CASE inside = {}
  <2>1. Trim(stamps, cutoff) = <<>>
    BY <1>2 DEF Trim
  <2>2. \A i \in 1..n : stamps[i] < cutoff
    BY <1>1, <1>2
  <2>3. n \in 0..n /\ n - n = 0 /\ Len(Trim(stamps, cutoff)) = 0 /\ Trim(stamps, cutoff) \in Seq(Nat)
    BY <2>1
  <2> QED
    BY <2>2, <2>3
<1>3. CASE inside # {}
  <2> DEFINE first == Min(inside)
  <2>1. first \in inside /\ \A i \in inside : first <= i
    <3>1. inside \in SUBSET Nat
      BY <1>1
    <3> HIDE DEF inside
    <3> QED
      BY <1>3, <3>1, HasMin
  <2>2. Trim(stamps, cutoff) = SubSeq(stamps, first, n)
    BY <1>3 DEF Trim
  <2> HIDE DEF first
  <2>3. first \in 1..n /\ stamps[first] >= cutoff
    BY <1>1, <2>1
  <2>4. PICK t : t = Trim(stamps, cutoff)
    OBVIOUS
  <2>5. /\ t \in Seq(Nat) /\ Len(t) = n - first + 1
        /\ \A i \in 1..(n - first + 1) : t[i] = stamps[first + i - 1]
    <3>1. \A i \in first..n : stamps[i] \in Nat
      BY <1>1, <2>3
    <3>2. first <= n + 1 /\ first \in Nat /\ Len(stamps) = n
      BY <2>3
    <3>3. first <= n /\ first \in 1..(Len(stamps) + 1) /\ n \in (first - 1)..Len(stamps)
      BY <2>3, <3>2
    <3>4. /\ SubSeq(stamps, first, n) \in Seq(Nat)
          /\ Len(SubSeq(stamps, first, n)) = IF first <= n THEN n - first + 1 ELSE 0
          /\ \A i \in 1..(n - first + 1) : SubSeq(stamps, first, n)[i] = stamps[first + i - 1]
      BY <3>3, SubSeqProperties
    <3> QED
      BY <2>2, <2>4, <3>3, <3>4
  <2>6. ASSUME NEW i \in 1..(first - 1) PROVE stamps[i] < cutoff
    <3>1. i \in 1..n /\ ~(first <= i)
      BY <2>3
    <3>2. i \notin inside
      BY <2>1, <3>1
    <3> QED
      BY <1>1, <3>1, <3>2
  <2>7. PICK k \in 0..n : k = first - 1 /\ n - k = n - first + 1 /\ first = k + 1
    BY <2>3
  <2>8. ASSUME NEW i \in 1..(n - k) PROVE t[i] = stamps[k + i]
    <3>1. first + i - 1 = k + i
      BY <2>3, <2>7
    <3> QED
      BY <2>5, <2>7, <3>1
  <2>9. /\ Len(t) = n - k /\ \A i \in 1..k : stamps[i] < cutoff
        /\ k < n => stamps[k + 1] >= cutoff
    BY <2>3, <2>5, <2>6, <2>7
  <2> QED
    BY <2>4, <2>5, <2>8, <2>9
<1> QED
  BY <1>2, <1>3
-----------------------------------------------------------------------------
\* What a goroutine has in its variables at each of its steps.
LEMMA CallerFacts ==
  ASSUME TypeOK, NEW c \in Callers
  PROVE  /\ caller[c].pc \in {"gate", "record"} =>
              /\ caller[c].ip \in IPs /\ caller[c].now \in Nat
              /\ caller[c] = [pc |-> caller[c].pc, ip |-> caller[c].ip,
                              gates |-> caller[c].gates, now |-> caller[c].now]
         /\ caller[c].pc = "auth" => caller[c].ip \in IPs
<1>1. caller[c] \in {Free} \cup [pc : {"auth"}, ip : IPs]
                   \cup [pc : {"gate", "record"}, ip : IPs, gates : 0..2, now : Nat]
  BY DEF TypeOK
<1> QED
  BY <1>1 DEF Free

\* One goroutine moves on.
LEMMA CallerMoves ==
  ASSUME TypeOK, Timely, NEW c \in Callers, NEW q, caller' = [caller EXCEPT ![c] = q],
         clock' = clock,
         \/ q = Free
         \/ \E ip \in IPs : q = [pc |-> "auth", ip |-> ip]
         \/ \E ip \in IPs, gates \in {1, 2} : q = Stamped("gate", ip, gates)
         \/ \E ip \in IPs : q = Stamped("record", ip, 0)
  PROVE  /\ Timely'
         /\ caller' \in [Callers -> {Free} \cup [pc : {"auth"}, ip : IPs]
                           \cup [pc : {"gate", "record"}, ip : IPs, gates : 0..2, now : Nat]]
<1>1. clock \in Nat /\ Delay \in Nat
  BY DenyListAssumption DEF TypeOK
<1>2. /\ q \in {Free} \cup [pc : {"auth"}, ip : IPs]
                 \cup [pc : {"gate", "record"}, ip : IPs, gates : 0..2, now : Nat]
      /\ q.pc \in {"gate", "record"} => q.now <= clock /\ clock <= q.now + Delay
      /\ q.pc = "gate" => q.gates \in {1, 2}
  BY <1>1 DEF Free, Stamped
<1>3. caller'[c] = q /\ \A d \in Callers \ {c} : caller'[d] = caller[d]
  BY DEF TypeOK
<1> QED
  BY <1>2, <1>3 DEF TypeOK, Timely

\* Time alone breaks no promise about what was recorded.
LEMMA StampsStay ==
  ASSUME IInv, clock' \in Nat, clock <= clock', UNCHANGED <<fails, since>>
  PROVE  Rest' /\ Forgotten' /\ Ordered' /\ NoMissedBan'
<1>1. /\ clock \in Nat /\ Delay \in Nat /\ Window \in Nat
      /\ \A ip \in IPs : since[ip] \in Seq(Nat) /\ fails[ip] \in Seq(Nat)
  BY DenyListAssumption DEF IInv, TypeOK
<1>2. Rest' /\ NoMissedBan'
  BY DEF IInv, Rest, NoMissedBan, Gone, Between
<1>3. Forgotten'
  <2> SUFFICES ASSUME NEW ip \in IPs, NEW i \in 1..Gone(ip) PROVE since[ip][i] + Window < clock'
    BY DEF Forgotten, Gone
  <2>1. since[ip][i] + Window < clock /\ since[ip][i] \in Nat
    <3>1. i \in 1..Len(since[ip])
      BY <1>1 DEF Gone
    <3> QED
      BY <1>1, <3>1 DEF IInv, Forgotten
  <2> QED
    BY <1>1, <2>1
<1>4. Ordered'
  <2> SUFFICES ASSUME NEW ip \in IPs, NEW i \in 1..Len(since[ip])
               PROVE  /\ since[ip][i] <= clock'
                      /\ \A j \in 1..Len(since[ip]) : i < j => since[ip][i] <= since[ip][j] + Delay
    BY DEF Ordered
  <2>1. since[ip][i] \in Nat
    BY <1>1
  <2> QED
    BY <1>1, <2>1 DEF IInv, Ordered
<1> QED
  BY <1>2, <1>3, <1>4

\* ... nor a ban.
LEMMA TimePasses ==
  ASSUME IInv, clock' \in Nat, clock <= clock', UNCHANGED <<fails, bannedAt, since, until>>
  PROVE  Rest' /\ Forgotten' /\ Ordered' /\ Banned' /\ NoMissedBan'
<1>1. /\ clock \in Nat /\ Delay \in Nat /\ BanFor \in Nat
      /\ \A ip \in IPs : until[ip] \in Nat /\ bannedAt[ip] \subseteq Nat
  BY DenyListAssumption DEF IInv, TypeOK
<1>2. Banned'
  BY <1>1 DEF IInv, Banned
<1> QED
  BY <1>2, StampsStay

\* The clock ticks unless it would leave behind a goroutine that has read it.
LEMMA TickStep == ASSUME IInv, Tick PROVE IInv'
<1>1. clock \in Nat /\ clock' = clock + 1 /\ clock' \in Nat /\ clock <= clock' /\ Delay \in Nat
  BY DenyListAssumption DEF IInv, TypeOK, Tick
<1>2. Rest' /\ Forgotten' /\ Ordered' /\ Banned' /\ NoMissedBan'
  BY <1>1, TimePasses DEF Tick
<1>3. Timely'
  <2> SUFFICES ASSUME NEW c \in Callers, caller[c].pc \in {"gate", "record"}
               PROVE  caller[c].now <= clock' /\ clock' <= caller[c].now + Delay
    BY DEF IInv, Timely, Tick
  <2>1. clock < caller[c].now + Delay /\ caller[c].now <= clock /\ caller[c].now \in Nat
    BY CallerFacts DEF Tick, IInv, Timely
  <2> QED
    BY <1>1, <2>1
<1>4. TypeOK'
  BY <1>1 DEF IInv, TypeOK, Tick
<1> QED
  BY <1>2, <1>3, <1>4 DEF IInv

\* A goroutine arrives, or is done with the credentials.
LEMMA CallerStep ==
  ASSUME IInv, NEW c \in Callers,
         \/ \E ip \in IPs, gates \in {1, 2} : Accept(c, ip, gates)
         \/ AuthSucceeds(c) \/ AuthFails(c)
  PROVE  IInv'
<1>1. /\ clock' = clock /\ UNCHANGED <<fails, bannedAt, since, until>>
      /\ clock \in Nat /\ clock <= clock'
  BY DEF IInv, TypeOK, Accept, AuthSucceeds, AuthFails
<1>2. Rest' /\ Forgotten' /\ Ordered' /\ Banned' /\ NoMissedBan'
  BY <1>1, TimePasses
<1>3. PICK q : /\ caller' = [caller EXCEPT ![c] = q]
               /\ \/ q = Free
                  \/ \E ip \in IPs, gates \in {1, 2} : q = Stamped("gate", ip, gates)
                  \/ \E ip \in IPs : q = Stamped("record", ip, 0)
  BY CallerFacts DEF IInv, Accept, AuthSucceeds, AuthFails
<1>4. /\ Timely'
      /\ caller' \in [Callers -> {Free} \cup [pc : {"auth"}, ip : IPs]
                        \cup [pc : {"gate", "record"}, ip : IPs, gates : 0..2, now : Nat]]
  BY <1>1, <1>3, CallerMoves DEF IInv
<1> QED
  BY <1>1, <1>2, <1>4 DEF IInv, TypeOK

\* A gate: a ban that the goroutine finds expired is over, or is by a delay.
LEMMA GateStep == ASSUME IInv, NEW c \in Callers, IsDenied(c) PROVE IInv'
<1> DEFINE ip == caller[c].ip
           now == caller[c].now
<1>1. /\ ip \in IPs /\ now \in Nat /\ now <= clock /\ caller[c].gates \in {1, 2}
      /\ clock' = clock /\ UNCHANGED <<fails, since, until>>
      /\ clock \in Nat /\ Delay \in Nat /\ BanFor \in Nat
  BY CallerFacts, DenyListAssumption DEF IInv, TypeOK, Timely, IsDenied
<1>2. /\ Timely'
      /\ caller' \in [Callers -> {Free} \cup [pc : {"auth"}, ip : IPs]
                        \cup [pc : {"gate", "record"}, ip : IPs, gates : 0..2, now : Nat]]
  <2>1. PICK q : /\ caller' = [caller EXCEPT ![c] = q]
                 /\ \/ q = Free
                    \/ q = [pc |-> "auth", ip |-> ip]
                    \/ caller[c].gates # 1 /\ q = Stamped("gate", ip, caller[c].gates - 1)
    BY DEF IsDenied
  <2>2. caller[c].gates # 1 => caller[c].gates - 1 \in {1, 2}
    BY <1>1
  <2> QED
    BY <1>1, <2>1, <2>2, CallerMoves DEF IInv
<1>3. Rest' /\ Forgotten' /\ Ordered' /\ NoMissedBan'
  BY <1>1, StampsStay
<1>4. Banned' /\ bannedAt' \in [IPs -> SUBSET Nat]
  <2>1. CASE bannedAt' = bannedAt
    BY <1>1, <2>1 DEF IInv, TypeOK, Banned
  <2>2. CASE ~InForce(ip, now) /\ bannedAt' = [bannedAt EXCEPT ![ip] = {}]
    <3>1. /\ bannedAt'[ip] = {} /\ \A a \in IPs \ {ip} : bannedAt'[a] = bannedAt[a]
          /\ bannedAt' \in [IPs -> SUBSET Nat] /\ until[ip] \in Nat /\ bannedAt[ip] \subseteq Nat
      BY <1>1, <2>2 DEF IInv, TypeOK
    <3>2. until[ip] <= clock + Delay
      <4>1. CASE bannedAt[ip] = {}
        BY <1>1, <4>1 DEF IInv, Banned
      <4>2. ASSUME NEW t \in bannedAt[ip] PROVE until[ip] <= clock + Delay
        <5>1. ~(now - t < BanFor) /\ t \in Nat
          BY <2>2, <3>1, <4>2 DEF InForce
        <5>2. until[ip] <= t + BanFor + Delay
          BY <1>1, <4>2 DEF IInv, Banned
        <5> HIDE DEF ip, now
        <5> QED
          BY <1>1, <3>1, <5>1, <5>2
      <4> QED
        BY <4>1, <4>2
    <3> HIDE DEF ip, now
    <3> QED
      BY <1>1, <3>1, <3>2 DEF IInv, Banned
  <2> QED
    BY <2>1, <2>2 DEF IsDenied
<1> QED
  BY <1>1, <1>2, <1>3, <1>4 DEF IInv, TypeOK
-----------------------------------------------------------------------------
\* What RecordFailure finds and makes: the stamps since the last ban, with the
\* new one at the end, and the list the code keeps of them.
Recorded(ip, now, all, stamps) ==
  LET gone == Len(all) - Len(stamps)
  IN  /\ ip \in IPs /\ now \in Nat /\ now <= clock /\ clock <= now + Delay
      /\ all \in Seq(Nat) /\ Len(all) = Len(since[ip]) + 1 /\ all[Len(all)] = now
      /\ \A i \in 1..Len(since[ip]) : all[i] = since[ip][i]
      /\ stamps \in Seq(Nat) /\ gone \in Nat
      /\ \A i \in 1..Len(stamps) : stamps[i] = all[gone + i]
      /\ \A i \in 1..gone : all[i] + Window < clock /\ all[i] + Window < now + Delay
      /\ stamps # <<>> => all[gone + 1] >= now - Window
      /\ \A i \in 1..Len(all) :
           /\ all[i] <= clock
           /\ \A j \in 1..Len(all) : i < j => all[i] <= all[j] + Delay

\* A list is what is left of another one when its first d stamps are dropped.
IsRest(f, s, d) == Len(s) = d + Len(f) /\ \A i \in 1..Len(f) : f[i] = s[d + i]

\* Such a list stays so when both are extended.
LEMMA RestExtended ==
  ASSUME NEW s \in Seq(Nat), NEW f \in Seq(Nat), NEW x \in Nat, NEW d \in Nat, IsRest(f, s, d)
  PROVE  IsRest(Append(f, x), Append(s, x), d)
<1>1. PICK m \in Nat : m = Len(f)
  OBVIOUS
<1>2. Len(s) = d + m /\ \A i \in 1..m : f[i] = s[d + i]
  BY <1>1 DEF IsRest
<1> DEFINE old == Append(f, x)
           all == Append(s, x)
<1>3. /\ Len(old) = m + 1 /\ old[m + 1] = x
      /\ \A i \in 1..m : old[i] = f[i]
  BY <1>1, AppendProperties
<1>4. /\ Len(all) = d + m + 1 /\ all[d + m + 1] = x
      /\ \A i \in 1..(d + m) : all[i] = s[i]
  BY <1>2, AppendProperties
<1> HIDE DEF old, all
<1>5. ASSUME NEW i \in 1..(m + 1) PROVE old[i] = all[d + i]
  <2>1. CASE i = m + 1
    BY <1>3, <1>4, <2>1
  <2>2. CASE i # m + 1
    <3>1. i \in 1..m /\ d + i \in 1..(d + m)
      BY <2>2
    <3> QED
      BY <1>2, <1>3, <1>4, <3>1
  <2> QED
    BY <2>1, <2>2
<1>6. IsRest(old, all, d)
  BY <1>3, <1>4, <1>5 DEF IsRest
<1> QED
  BY <1>6 DEF old, all

\* A range of indices, moved to the front.
LEMMA Shifted ==
  ASSUME NEW d \in Nat, NEW k \in Nat, NEW i \in (d + 1)..(d + k)
  PROVE  i - d \in 1..k /\ d + (i - d) = i
  OBVIOUS

\* What the trimming loop leaves of a list that is the rest of another one.
LEMMA RestTrimmed ==
  ASSUME NEW all \in Seq(Nat), NEW old \in Seq(Nat), NEW cutoff \in Int,
         NEW d \in Nat, IsRest(old, all, d)
  PROVE  /\ Trim(old, cutoff) \in Seq(Nat)
         /\ \E k \in Nat :
              /\ IsRest(Trim(old, cutoff), all, d + k)
              /\ \A i \in (d + 1)..(d + k) : all[i] < cutoff
              /\ d + k < Len(all) => all[d + k + 1] >= cutoff
<1>1. PICK n \in Nat : n = Len(old)
  OBVIOUS
<1>2. Len(old) = n /\ Len(all) = d + n /\ \A i \in 1..n : old[i] = all[d + i]
  BY <1>1 DEF IsRest
<1>3. Trim(old, cutoff) \in Seq(Nat)
  BY <1>2, TrimFacts
<1>4. PICK t : t = Trim(old, cutoff)
  OBVIOUS
<1>5. PICK k \in 0..n :
        /\ Len(t) = n - k
        /\ \A i \in 1..(n - k) : t[i] = old[k + i]
        /\ \A i \in 1..k : old[i] < cutoff
        /\ k < n => old[k + 1] >= cutoff
  <2>1. \E k \in 0..n :
          /\ Len(Trim(old, cutoff)) = n - k
          /\ \A i \in 1..(n - k) : Trim(old, cutoff)[i] = old[k + i]
          /\ \A i \in 1..k : old[i] < cutoff
          /\ k < n => old[k + 1] >= cutoff
    BY ONLY <1>2, old \in Seq(Nat), n \in Nat, cutoff \in Int, TrimFacts
  <2> QED
    BY ONLY <1>4, <2>1
<1>6. ASSUME NEW i \in 1..(n - k) PROVE t[i] = all[d + k + i]
  <2>1. k + i \in 1..n /\ d + (k + i) = d + k + i
    OBVIOUS
  <2> QED
    BY <1>2, <1>5, <2>1
<1>7. ASSUME NEW i \in (d + 1)..(d + k) PROVE all[i] < cutoff
  <2>1. i - d \in 1..k /\ i - d \in 1..n /\ d + (i - d) = i
    BY Shifted
  <2> QED
    BY <1>2, <1>5, <2>1
<1>8. ASSUME k < n PROVE all[d + k + 1] >= cutoff
  <2>1. k + 1 \in 1..n /\ d + (k + 1) = d + k + 1
    BY <1>8
  <2> QED
    BY <1>2, <1>5, <1>8, <2>1
<1>9. IsRest(t, all, d + k)
  BY <1>2, <1>5, <1>6 DEF IsRest
<1>10. d + k < Len(all) => all[d + k + 1] >= cutoff
  BY <1>2, <1>8
<1>11. \E j \in Nat :
        /\ IsRest(t, all, d + j)
        /\ \A i \in (d + 1)..(d + j) : all[i] < cutoff
        /\ d + j < Len(all) => all[d + j + 1] >= cutoff
  <2>1. k \in Nat
    OBVIOUS
  <2> QED
    BY ONLY <1>7, <1>9, <1>10, <2>1
<1> QED
  BY ONLY <1>3, <1>4, <1>11

\* RecordFailure appends to a list that is the rest of what was recorded, and
\* trims: what it drops now is too old for any failure still to come.
LEMMA RecordFacts ==
  ASSUME IInv, NEW c \in Callers, caller[c].pc = "record"
  PROVE  LET ip == caller[c].ip
             now == caller[c].now
         IN  Recorded(ip, now, Append(since[ip], now), Trim(Append(fails[ip], now), now - Window))
<1>1. PICK ip : ip = caller[c].ip
  OBVIOUS
<1>2. PICK now : now = caller[c].now
  OBVIOUS
<1>3. /\ ip \in IPs /\ now \in Nat /\ now <= clock /\ clock <= now + Delay
      /\ clock \in Nat /\ Delay \in Nat /\ Window \in Nat /\ now - Window \in Int
      /\ fails[ip] \in Seq(Nat) /\ since[ip] \in Seq(Nat)
  BY <1>1, <1>2, CallerFacts, DenyListAssumption DEF IInv, TypeOK, Timely
<1>4. PICK f \in Seq(Nat) : f = fails[ip]
  BY <1>3
<1>5. PICK s \in Seq(Nat) : s = since[ip]
  BY <1>3
<1>6. PICK m \in Nat : m = Len(f)
  OBVIOUS
<1>7. PICK d \in Nat : d = Len(s) - m /\ Len(s) = d + m
  <2>1. Len(f) <= Len(s)
    BY <1>3, <1>4, <1>5 DEF IInv, Rest
  <2>2. PICK p \in Nat : p = Len(s)
    OBVIOUS
  <2>3. p - m \in Nat /\ p = (p - m) + m
    BY <1>6, <2>1, <2>2
  <2> QED
    BY <2>2, <2>3
<1>8. Gone(ip) = d
  BY <1>4, <1>5, <1>6, <1>7 DEF Gone
<1>9. /\ \A i \in 1..m : f[i] = s[d + i]
      /\ \A i \in 1..d : s[i] + Window < clock
      /\ \A i \in 1..(d + m) :
           /\ s[i] <= clock
           /\ \A j \in 1..(d + m) : i < j => s[i] <= s[j] + Delay
  BY <1>3, <1>4, <1>5, <1>6, <1>7, <1>8 DEF IInv, Rest, Forgotten, Ordered
<1>10. PICK old \in Seq(Nat) : old = Append(f, now)
  BY <1>3, AppendProperties
<1>11. PICK all \in Seq(Nat) : all = Append(s, now)
  BY <1>3, AppendProperties
<1>12. PICK n \in Nat : n = m + 1 /\ d + n = d + m + 1
  OBVIOUS
<1>13. /\ Len(all) = d + n /\ all[d + n] = now
       /\ \A i \in 1..(d + m) : all[i] = s[i]
  BY <1>3, <1>7, <1>11, <1>12, AppendProperties
<1>14. IsRest(old, all, d) /\ Len(old) = n
  <2>1. IsRest(f, s, d)
    BY <1>6, <1>7, <1>9 DEF IsRest
  <2>2. IsRest(Append(f, now), Append(s, now), d)
    BY <1>3, <2>1, RestExtended
  <2>3. Len(old) = n
    BY <1>3, <1>6, <1>10, <1>12, AppendProperties
  <2> QED
    BY <1>10, <1>11, <2>2, <2>3
<1>15. PICK stamps : stamps = Trim(old, now - Window)
  OBVIOUS
<1>16. /\ stamps \in Seq(Nat)
       /\ \E k \in Nat :
            /\ IsRest(stamps, all, d + k)
            /\ \A i \in (d + 1)..(d + k) : all[i] < now - Window
            /\ d + k < Len(all) => all[d + k + 1] >= now - Window
  <2>1. PICK cutoff \in Int : cutoff = now - Window
    BY <1>3
  <2>2. /\ Trim(old, cutoff) \in Seq(Nat)
        /\ \E k \in Nat :
             /\ IsRest(Trim(old, cutoff), all, d + k)
             /\ \A i \in (d + 1)..(d + k) : all[i] < cutoff
             /\ d + k < Len(all) => all[d + k + 1] >= cutoff
    BY ONLY <1>14, all \in Seq(Nat), old \in Seq(Nat), d \in Nat, cutoff \in Int, RestTrimmed
  <2>3. stamps = Trim(old, cutoff)
    BY <1>15, <2>1
  <2> QED
    BY ONLY <2>1, <2>2, <2>3
<1>17. PICK k \in Nat :
         /\ IsRest(stamps, all, d + k)
         /\ \A i \in (d + 1)..(d + k) : all[i] < now - Window
         /\ d + k < Len(all) => all[d + k + 1] >= now - Window
  BY <1>16
<1>18. PICK gone \in Nat : gone = d + k /\ gone = Len(all) - Len(stamps)
  <2>1. PICK l \in Nat : l = Len(stamps)
    BY <1>16
  <2>2. PICK p \in Nat : p = Len(all)
    OBVIOUS
  <2>3. p = d + k + l
    BY <1>17, <2>1, <2>2 DEF IsRest
  <2>4. d + k \in Nat /\ d + k = p - l
    BY <2>3
  <2> QED
    BY <2>1, <2>2, <2>4
<1>19. ASSUME NEW i \in 1..(d + n) PROVE all[i] \in Nat
  BY <1>13
<1>20. ASSUME NEW i \in 1..gone PROVE all[i] + Window < clock /\ all[i] + Window < now + Delay
  <2>1. i \in 1..(d + n)
    <3>1. Len(stamps) \in Nat
      BY <1>16
    <3> QED
      BY ONLY <1>13, <1>18, <3>1, i \in 1..gone, gone \in Nat, d \in Nat, n \in Nat, k \in Nat
  <2>2. all[i] \in Nat
    BY <1>19, <2>1
  <2>3. CASE i <= d
    <3>1. i \in 1..d /\ i \in 1..(d + m)
      BY <2>3
    <3>2. all[i] + Window < clock
      BY <1>9, <1>13, <3>1
    <3>3. \A a \in Nat : a + Window < clock => a + Window < now + Delay
      BY <1>3
    <3> QED
      BY <2>2, <3>2, <3>3
  <2>4. CASE ~(i <= d)
    <3>1. i \in (d + 1)..(d + k)
      BY <1>18, <2>4
    <3>2. all[i] < now - Window
      BY <1>17, <3>1
    <3>3. \A a \in Nat : a < now - Window => a + Window < now
      BY <1>3
    <3>4. all[i] + Window < now
      BY <2>2, <3>2, <3>3
    <3>5. \A a \in Nat : a + Window < now => a + Window < clock /\ a + Window < now + Delay
      BY <1>3
    <3> QED
      BY <2>2, <3>4, <3>5
  <2> QED
    BY <2>3, <2>4
<1>21. ASSUME NEW i \in 1..(d + n)
       PROVE  /\ all[i] <= clock
              /\ \A j \in 1..(d + n) : i < j => all[i] <= all[j] + Delay
  <2>1. all[i] \in Nat /\ all[i] <= clock
    <3>1. CASE i = d + n
      BY <1>3, <1>13, <3>1
    <3>2. CASE i # d + n
      <4>1. i \in 1..(d + m)
        BY <1>12, <3>2
      <4> QED
        BY <1>9, <1>13, <1>19, <4>1
    <3> QED
      BY <3>1, <3>2
  <2>2. ASSUME NEW j \in 1..(d + n), i < j PROVE all[i] <= all[j] + Delay
    <3>1. i \in 1..(d + m)
      BY <1>12, <2>2
    <3>2. CASE j = d + n
      <4>1. all[j] = now
        BY <1>13, <3>2
      <4>2. \A a \in Nat : a <= clock => a <= now + Delay
        BY <1>3
      <4> QED
        BY <2>1, <4>1, <4>2
    <3>3. CASE j # d + n
      <4>1. j \in 1..(d + m)
        BY <1>12, <3>3
      <4> QED
        <5>1. s[i] <= s[j] + Delay
          BY <1>9, <2>2, <3>1, <4>1
        <5>2. all[i] = s[i] /\ all[j] = s[j]
          BY <1>13, <3>1, <4>1
        <5> QED
          BY <5>1, <5>2
    <3> QED
      BY <3>2, <3>3
  <2> QED
    BY <2>1, <2>2
<1>22. \A i \in 1..Len(stamps) : stamps[i] = all[gone + i]
  BY <1>17, <1>18 DEF IsRest
<1>23. stamps # <<>> => all[gone + 1] >= now - Window
  <2> SUFFICES ASSUME stamps # <<>> PROVE all[gone + 1] >= now - Window
    OBVIOUS
  <2>1. Len(stamps) # 0 /\ Len(stamps) \in Nat
    BY <1>16, EmptySeq
  <2>2. d + k < Len(all)
    BY <1>13, <1>18, <2>1
  <2> QED
    BY <1>17, <1>18, <2>2
<1>24. /\ Len(all) = Len(since[ip]) + 1 /\ all[Len(all)] = now
       /\ \A i \in 1..Len(since[ip]) : all[i] = since[ip][i]
  BY <1>5, <1>7, <1>12, <1>13
<1>25. \A i \in 1..Len(all) :
         /\ all[i] <= clock
         /\ \A j \in 1..Len(all) : i < j => all[i] <= all[j] + Delay
  BY <1>13, <1>21
<1>26. Recorded(ip, now, all, stamps)
  BY <1>3, <1>16, <1>18, <1>20, <1>22, <1>23, <1>24, <1>25 DEF Recorded
<1>27. all = Append(since[ip], now) /\ stamps = Trim(Append(fails[ip], now), now - Window)
  BY <1>4, <1>5, <1>10, <1>11, <1>15
<1> QED
  BY <1>1, <1>2, <1>26, <1>27

\* A new failure that does not lead to a ban fills no window: one that holds
\* the new stamp holds none of the forgotten ones, and the code counts the rest.
LEMMA WindowsStayShort ==
  ASSUME IInv, NEW ip, NEW now, NEW all, NEW stamps, Recorded(ip, now, all, stamps),
         Len(stamps) < Threshold,
         NEW i \in DOMAIN all
  PROVE  Between(all, all[i], all[i] + Window - Delay) < Threshold
<1> DEFINE Inside == {j \in DOMAIN all : all[i] <= all[j] /\ all[j] <= all[i] + Window - Delay}
<1>1. PICK n \in Nat : n = Len(all)
  BY DEF Recorded
<1>2. PICK m \in Nat : m = Len(stamps)
  BY DEF Recorded
<1>3. PICK gone \in Nat : gone = n - m
  BY <1>1, <1>2 DEF Recorded
<1>4. /\ DOMAIN all = 1..n /\ i \in 1..n /\ \A j \in 1..n : all[j] \in Nat
      /\ ip \in IPs /\ now \in Nat /\ all[n] = now /\ n \in 1..n
      /\ \A j \in 1..gone : all[j] + Window < now + Delay
  <2>1. all \in Seq(Nat) /\ ip \in IPs /\ now \in Nat /\ all[n] = now
    BY <1>1 DEF Recorded
  <2>2. DOMAIN all = 1..n /\ \A j \in 1..n : all[j] \in Nat
    BY <1>1, <2>1
  <2>3. \A j \in 1..gone : all[j] + Window < now + Delay
    BY <1>1, <1>2, <1>3 DEF Recorded
  <2>4. i \in 1..n /\ n \in 1..n
    BY <2>2
  <2> QED
    BY <2>1, <2>2, <2>3, <2>4
<1>5. Window \in Nat /\ Delay \in Nat /\ Threshold \in Nat \ {0} /\ m < Threshold
  BY <1>2, DenyListAssumption
<1>6. Between(all, all[i], all[i] + Window - Delay) = Cardinality(Inside)
  BY DEF Between
<1>7. CASE n \in Inside
  <2>1. ASSUME NEW j \in Inside PROVE j \in (gone + 1)..n
    <3>1. j \in 1..n /\ all[i] \in Nat /\ all[j] \in Nat
      BY <1>4
    <3>2. all[i] <= all[j] /\ now <= all[i] + Window - Delay
      BY <1>4, <1>7
    <3>3. ~(all[j] + Window < now + Delay)
      <4>1. now \in Nat
        BY <1>4
      <4> QED
        BY ONLY <1>5, <3>1, <3>2, <4>1
    <3>4. ~(j \in 1..gone)
      BY <1>4, <3>3
    <3> QED
      BY <3>1, <3>4
  <2>2. IsFiniteSet((gone + 1)..n) /\ Cardinality((gone + 1)..n) = m
    <3>1. IsFiniteSet((gone + 1)..n) /\ Cardinality((gone + 1)..n) =
             IF gone + 1 > n THEN 0 ELSE n - (gone + 1) + 1
      BY FS_Interval
    <3>2. m <= n
      BY <1>3
    <3> QED
      BY <1>3, <3>1, <3>2
  <2>3. Inside \subseteq (gone + 1)..n
    BY <2>1
  <2> HIDE DEF Inside
  <2>4. IsFiniteSet(Inside) /\ Cardinality(Inside) <= m
    BY <2>2, <2>3, FS_Subset
  <2>5. Cardinality(Inside) \in Nat
    BY <2>4, FS_CardinalityType
  <2> QED
    BY <1>5, <1>6, <2>4, <2>5
<1>8. CASE n \notin Inside /\ i = n
  <2>1. Inside = {}
    BY <1>4, <1>5, <1>8
  <2> QED
    BY <1>5, <1>6, <2>1, FS_EmptySet
<1>9. CASE n \notin Inside /\ i # n
  <2>1. /\ since[ip] \in Seq(Nat) /\ DOMAIN since[ip] = 1..Len(since[ip])
        /\ n = Len(since[ip]) + 1 /\ Len(since[ip]) \in Nat
        /\ \A j \in 1..Len(since[ip]) : all[j] = since[ip][j]
    <3>1. since[ip] \in Seq(Nat)
      BY <1>4 DEF IInv, TypeOK
    <3>2. DOMAIN since[ip] = 1..Len(since[ip]) /\ Len(since[ip]) \in Nat
      BY <3>1
    <3>3. n = Len(since[ip]) + 1 /\ \A j \in 1..Len(since[ip]) : all[j] = since[ip][j]
      BY <1>1 DEF Recorded
    <3> QED
      BY <3>1, <3>2, <3>3
  <2>2. i \in DOMAIN since[ip] /\ all[i] = since[ip][i]
    <3>1. i \in 1..Len(since[ip])
      <4>1. i \in 1..n
        BY <1>4
      <4> QED
        BY ONLY <1>9, <2>1, <4>1
    <3> QED
      BY <2>1, <3>1
  <2>3. Inside = {j \in DOMAIN since[ip] : since[ip][i] <= since[ip][j]
                    /\ since[ip][j] <= since[ip][i] + Window - Delay}
    <3> DEFINE Before == {j \in DOMAIN since[ip] : since[ip][i] <= since[ip][j]
                            /\ since[ip][j] <= since[ip][i] + Window - Delay}
    <3>1. \A j \in 1..n : j # n <=> j \in 1..Len(since[ip])
      BY <2>1
    <3>2. \A j \in 1..Len(since[ip]) : j \in 1..n
      BY <2>1
    <3>3. ASSUME NEW j \in Inside PROVE j \in Before
      <4>1. j \in 1..Len(since[ip]) /\ all[i] <= all[j] /\ all[j] <= all[i] + Window - Delay
        BY <1>4, <1>9, <3>1
      <4> QED
        BY <2>1, <2>2, <4>1
    <3>4. ASSUME NEW j \in Before PROVE j \in Inside
      <4>1. /\ j \in 1..Len(since[ip]) /\ since[ip][i] <= since[ip][j]
            /\ since[ip][j] <= since[ip][i] + Window - Delay
        BY <2>1
      <4>2. j \in DOMAIN all /\ all[j] = since[ip][j]
        BY <1>4, <2>1, <3>2, <4>1
      <4> QED
        BY <2>2, <4>1, <4>2
    <3> QED
      BY <3>3, <3>4
  <2>4. Between(since[ip], since[ip][i], since[ip][i] + Window - Delay) < Threshold
    BY <1>4, <2>2 DEF IInv, NoMissedBan
  <2> QED
    BY <1>6, <2>3, <2>4 DEF Between
<1> QED
  BY <1>7, <1>8, <1>9

\* The failure is recorded, and the address is banned or not.
LEMMA RecordStep == ASSUME IInv, NEW c \in Callers, RecordFailure(c) PROVE IInv'
<1>1. PICK ip : ip = caller[c].ip
  OBVIOUS
<1>2. PICK now : now = caller[c].now
  OBVIOUS
<1>3. PICK stamps : stamps = Trim(Append(fails[ip], now), now - Window)
  OBVIOUS
<1>4. PICK all : all = Append(since[ip], now)
  OBVIOUS
<1>5. Recorded(ip, now, all, stamps)
  BY <1>1, <1>2, <1>3, <1>4, RecordFacts DEF RecordFailure
<1>6. /\ ip \in IPs /\ now \in Nat /\ now <= clock /\ clock <= now + Delay
      /\ stamps \in Seq(Nat) /\ all \in Seq(Nat)
      /\ clock' = clock /\ caller' = [caller EXCEPT ![c] = Free]
  BY <1>5 DEF Recorded, RecordFailure
<1>7. /\ Timely'
      /\ caller' \in [Callers -> {Free} \cup [pc : {"auth"}, ip : IPs]
                        \cup [pc : {"gate", "record"}, ip : IPs, gates : 0..2, now : Nat]]
  BY <1>6, CallerMoves DEF IInv
<1>8. /\ clock \in Nat /\ Delay \in Nat /\ BanFor \in Nat /\ Window \in Nat
      /\ Threshold \in Nat \ {0} /\ now + BanFor \in Nat
      /\ \A a \in IPs : /\ until[a] \in Nat /\ bannedAt[a] \subseteq Nat
                        /\ fails[a] \in Seq(Nat) /\ since[a] \in Seq(Nat)
  BY <1>6, DenyListAssumption DEF IInv, TypeOK
<1>9. CASE /\ bannedAt' = [bannedAt EXCEPT ![ip] = {now}]
           /\ fails' = [fails EXCEPT ![ip] = <<>>]
           /\ since' = [since EXCEPT ![ip] = <<>>]
           /\ until' = [until EXCEPT ![ip] = Max({@, now + BanFor})]
  <2>1. PICK e \in Seq(Nat) : e = <<>> /\ Len(e) = 0 /\ DOMAIN e = {}
    <3>1. <<>> \in Seq(Nat) /\ Len(<<>>) = 0 /\ DOMAIN <<>> = {}
      OBVIOUS
    <3> QED
      BY <3>1
  <2>2. fails' = [fails EXCEPT ![ip] = e] /\ since' = [since EXCEPT ![ip] = e]
    BY <1>9, <2>1
  <2>3. PICK u : u = Max({until[ip], now + BanFor})
    OBVIOUS
  <2>4. until' = [until EXCEPT ![ip] = u]
    BY <1>9, <2>3
  <2>5. u \in Nat /\ u = IF until[ip] >= now + BanFor THEN until[ip] ELSE now + BanFor
    <3>1. until[ip] \in Nat /\ now + BanFor \in Nat
      BY <1>6, <1>8
    <3> QED
      BY ONLY <2>3, <3>1, MaxOfTwo
  <2>6. /\ bannedAt'[ip] = {now} /\ fails'[ip] = e /\ since'[ip] = e /\ until'[ip] = u
        /\ \A a \in IPs \ {ip} : /\ bannedAt'[a] = bannedAt[a] /\ fails'[a] = fails[a]
                                 /\ since'[a] = since[a] /\ until'[a] = until[a]
    BY <1>6, <1>9, <2>2, <2>4 DEF IInv, TypeOK
  <2>7. TypeOK'
    <3>1. fails' \in [IPs -> Seq(Nat)] /\ since' \in [IPs -> Seq(Nat)]
      BY <2>1, <2>2 DEF IInv, TypeOK
    <3>2. bannedAt' \in [IPs -> SUBSET Nat]
      BY <1>6, <1>9 DEF IInv, TypeOK
    <3>3. until' \in [IPs -> Nat]
      BY <2>4, <2>5 DEF IInv, TypeOK
    <3> QED
      BY <1>6, <1>7, <1>8, <3>1, <3>2, <3>3 DEF TypeOK
  <2>8. Gone(ip)' = 0 /\ \A a \in IPs \ {ip} : Gone(a)' = Gone(a)
    <3>1. Len(since'[ip]) = 0 /\ Len(fails'[ip]) = 0
      BY <2>1, <2>6
    <3>2. Gone(ip)' = Len(since'[ip]) - Len(fails'[ip])
      BY DEF Gone
    <3>3. \A a \in IPs \ {ip} : Gone(a)' = Gone(a)
      BY <2>6 DEF Gone
    <3> QED
      BY <3>1, <3>2, <3>3
  <2>9. Rest'
    <3>1. /\ Len(fails'[ip]) <= Len(since'[ip]) /\ Len(fails'[ip]) < Threshold
          /\ \A i \in 1..Len(fails'[ip]) : fails'[ip][i] = since'[ip][Gone(ip)' + i]
      BY <1>8, <2>1, <2>6
    <3>2. ASSUME NEW a \in IPs \ {ip}
          PROVE  /\ Len(fails'[a]) <= Len(since'[a]) /\ Len(fails'[a]) < Threshold
                 /\ \A i \in 1..Len(fails'[a]) : fails'[a][i] = since'[a][Gone(a)' + i]
      BY <2>6, <2>8 DEF IInv, Rest
    <3> QED
      BY <3>1, <3>2 DEF Rest
  <2>10. Forgotten' /\ Ordered'
    <3>1. /\ \A i \in 1..Gone(ip)' : since'[ip][i] + Window < clock'
          /\ \A i \in 1..Len(since'[ip]) :
               /\ since'[ip][i] <= clock'
               /\ \A j \in 1..Len(since'[ip]) : i < j => since'[ip][i] <= since'[ip][j] + Delay
      BY <2>1, <2>6, <2>8
    <3>2. ASSUME NEW a \in IPs \ {ip}
          PROVE  /\ \A i \in 1..Gone(a)' : since'[a][i] + Window < clock'
                 /\ \A i \in 1..Len(since'[a]) :
                      /\ since'[a][i] <= clock'
                      /\ \A j \in 1..Len(since'[a]) : i < j => since'[a][i] <= since'[a][j] + Delay
      BY <1>6, <2>6, <2>8 DEF IInv, Forgotten, Ordered
    <3> QED
      BY <3>1, <3>2 DEF Forgotten, Ordered
  <2>11. Banned'
    <3>1. until[ip] <= clock + BanFor
      BY <1>6 DEF IInv, Banned
    <3>2. u <= clock + BanFor /\ u <= now + BanFor + Delay
      <4>1. /\ now \in Nat /\ now <= clock /\ clock <= now + Delay
            /\ clock \in Nat /\ Delay \in Nat /\ BanFor \in Nat /\ until[ip] \in Nat
        BY <1>6, <1>8
      <4> QED
        BY ONLY <2>5, <3>1, <4>1
    <3> QED
      BY <1>6, <2>6, <3>2 DEF IInv, Banned
  <2>12. NoMissedBan'
    <3>1. ASSUME NEW a \in IPs, NEW i \in DOMAIN since'[a]
          PROVE  Between(since'[a], since'[a][i], since'[a][i] + Window - Delay) < Threshold
      <4>1. a # ip
        BY <2>1, <2>6, <3>1
      <4>2. since'[a] = since[a]
        BY <2>6, <4>1
      <4> QED
        BY <3>1, <4>2 DEF IInv, NoMissedBan
    <3> QED
      BY <3>1 DEF NoMissedBan, Between
  <2> QED
    BY <1>7, <2>7, <2>9, <2>10, <2>11, <2>12 DEF IInv
<1>10. CASE /\ ~TripsBan(stamps)
            /\ fails' = [fails EXCEPT ![ip] = stamps]
            /\ since' = [since EXCEPT ![ip] = Append(@, now)]
            /\ UNCHANGED <<bannedAt, until>>
  <2>1. /\ fails'[ip] = stamps /\ since'[ip] = all
        /\ \A a \in IPs \ {ip} : fails'[a] = fails[a] /\ since'[a] = since[a]
    BY <1>4, <1>6, <1>10 DEF IInv, TypeOK
  <2>2. TypeOK'
    BY <1>4, <1>6, <1>7, <1>10 DEF IInv, TypeOK
  <2>3. Len(stamps) \in Nat /\ Len(stamps) < Threshold
    BY <1>6, <1>8, <1>10 DEF TripsBan
  <2>4. Gone(ip)' = Len(all) - Len(stamps) /\ \A a \in IPs \ {ip} : Gone(a)' = Gone(a)
    BY <2>1 DEF Gone
  <2>5. Rest'
    <3>1. Len(stamps) <= Len(all)
      <4>1. Len(all) \in Nat /\ Len(all) - Len(stamps) \in Nat
        BY <1>5, <1>6 DEF Recorded
      <4> QED
        BY <2>3, <4>1
    <3>2. \A i \in 1..Len(stamps) : stamps[i] = all[Len(all) - Len(stamps) + i]
      BY <1>5 DEF Recorded
    <3>3. /\ Len(fails'[ip]) <= Len(since'[ip]) /\ Len(fails'[ip]) < Threshold
          /\ \A i \in 1..Len(fails'[ip]) : fails'[ip][i] = since'[ip][Gone(ip)' + i]
      BY <2>1, <2>3, <2>4, <3>1, <3>2
    <3>4. ASSUME NEW a \in IPs \ {ip}
          PROVE  /\ Len(fails'[a]) <= Len(since'[a]) /\ Len(fails'[a]) < Threshold
                 /\ \A i \in 1..Len(fails'[a]) : fails'[a][i] = since'[a][Gone(a)' + i]
      BY <2>1, <2>4 DEF IInv, Rest
    <3> QED
      BY <3>3, <3>4 DEF Rest
  <2>6. Forgotten'
    <3>1. \A i \in 1..(Len(all) - Len(stamps)) : all[i] + Window < clock
      BY <1>5 DEF Recorded
    <3> QED
      BY <1>6, <2>1, <2>4, <3>1 DEF IInv, Forgotten
  <2>7. Ordered'
    <3>1. \A i \in 1..Len(all) :
            /\ all[i] <= clock
            /\ \A j \in 1..Len(all) : i < j => all[i] <= all[j] + Delay
      BY <1>5 DEF Recorded
    <3> QED
      BY <1>6, <2>1, <3>1 DEF IInv, Ordered
  <2>8. Banned'
    BY <1>6, <1>10 DEF IInv, Banned
  <2>9. NoMissedBan'
    <3>1. \A i \in DOMAIN all : Between(all, all[i], all[i] + Window - Delay) < Threshold
      BY <1>5, <2>3, WindowsStayShort
    <3> QED
      BY <2>1, <3>1 DEF IInv, NoMissedBan, Between
  <2> QED
    BY <1>7, <2>2, <2>5, <2>6, <2>7, <2>8, <2>9 DEF IInv
<1> QED
  BY <1>1, <1>2, <1>3, <1>9, <1>10 DEF RecordFailure, BanStart

-----------------------------------------------------------------------------
\* No failure has been recorded and nobody is banned.
LEMMA InitInv == Init => IInv
<1> SUFFICES ASSUME Init PROVE IInv
  OBVIOUS
<1>1. /\ Threshold \in Nat \ {0} /\ BanFor \in Nat /\ Delay \in Nat /\ clock = 0
      /\ \A c \in Callers : caller[c] = Free
      /\ \A ip \in IPs : until[ip] = 0 /\ bannedAt[ip] = {}
  BY DenyListAssumption DEF Init
<1>2. PICK e \in Seq(Nat) : e = <<>> /\ Len(e) = 0 /\ DOMAIN e = {}
  <2>1. <<>> \in Seq(Nat) /\ Len(<<>>) = 0 /\ DOMAIN <<>> = {}
    OBVIOUS
  <2> QED
    BY <2>1
<1>3. /\ fails = [ip \in IPs |-> e] /\ since = [ip \in IPs |-> e]
      /\ \A ip \in IPs : fails[ip] = e /\ since[ip] = e
  BY <1>2 DEF Init
<1>4. TypeOK
  BY <1>3 DEF Init, TypeOK
<1>5. Timely
  BY <1>1 DEF Timely, Free
<1>6. \A ip \in IPs : Gone(ip) = 0
  BY <1>2, <1>3 DEF Gone
<1>7. Rest /\ Forgotten /\ Ordered
  BY <1>1, <1>2, <1>3, <1>6 DEF Rest, Forgotten, Ordered
<1>8. Banned
  BY <1>1 DEF Banned
<1>9. NoMissedBan
  BY <1>2, <1>3 DEF NoMissedBan
<1> QED
  BY <1>4, <1>5, <1>7, <1>8, <1>9 DEF IInv

\* One step per action.
LEMMA NextInv == IInv /\ [Next]_vars => IInv'
<1> SUFFICES ASSUME IInv, [Next]_vars PROVE IInv'
  OBVIOUS
<1>1. ASSUME Tick PROVE IInv'
  BY <1>1, TickStep
<1>2. ASSUME NEW c \in Callers,
             \/ \E ip \in IPs, gates \in {1, 2} : Accept(c, ip, gates)
             \/ AuthSucceeds(c) \/ AuthFails(c)
      PROVE  IInv'
  BY <1>2, CallerStep
<1>3. ASSUME NEW c \in Callers, IsDenied(c) PROVE IInv'
  BY <1>3, GateStep
<1>4. ASSUME NEW c \in Callers, RecordFailure(c) PROVE IInv'
  BY <1>4, RecordStep
<1>5. CASE UNCHANGED vars
  <2>1. clock \in Nat /\ clock' \in Nat /\ clock <= clock'
    BY <1>5 DEF IInv, TypeOK, vars
  <2>2. Rest' /\ Forgotten' /\ Ordered' /\ Banned' /\ NoMissedBan'
    BY <1>5, <2>1, TimePasses DEF vars
  <2> QED
    BY <1>5, <2>2 DEF IInv, TypeOK, Timely, vars
<1> QED
  BY <1>1, <1>2, <1>3, <1>4, <1>5 DEF Next

\* The invariant holds in every reachable state; the theorems rest on it.
THEOREM Invariance == Spec => []IInv
<1> QED
  BY InitInv, NextInv, PTL DEF Spec

\* Type correctness of the clock, the lists, the bans and the goroutines.
THEOREM TypeCorrect == Spec => []TypeOK
<1>1. IInv => TypeOK
  BY DEF IInv
<1> QED
  BY <1>1, Invariance, PTL

\* No series of failures goes unpunished.
THEOREM FailuresAreBanned == Spec => []NoMissedBan
<1>1. IInv => NoMissedBan
  BY DEF IInv
<1> QED
  BY <1>1, Invariance, PTL
-----------------------------------------------------------------------------
\* A ban counts failures of its own: the code trips on the list it keeps, whose
\* stamps lie in the window that ends with the new one, give or take a delay.
LEMMA JustifiedStep ==
  ASSUME IInv, NEW c \in Callers, NEW ip \in IPs, [Next]_vars,
         caller[c].pc = "record", caller[c].ip = ip, caller'[c].pc = "free", since'[ip] = <<>>
  PROVE  LET now == caller[c].now
         IN  Between(Append(since[ip], now), now - Window - Delay, now + Delay) >= Threshold
<1>1. RecordFailure(c)
  <2>1. caller \in [Callers -> {caller[d] : d \in Callers}]
    BY DEF IInv, TypeOK
  <2>2. ASSUME UNCHANGED caller PROVE FALSE
    BY <2>2
  <2>3. ASSUME NEW d \in Callers, NEW q, caller' = [caller EXCEPT ![d] = q], d # c PROVE FALSE
    BY <2>1, <2>3
  <2>4. ~Tick /\ ~UNCHANGED vars
    BY <2>2 DEF Tick, vars
  <2>5. PICK d \in Callers :
          \/ \E a \in IPs, gates \in {1, 2} : Accept(d, a, gates)
          \/ IsDenied(d) \/ AuthSucceeds(d) \/ AuthFails(d) \/ RecordFailure(d)
    BY <2>4 DEF Next
  <2>6. \E q : caller' = [caller EXCEPT ![d] = q]
    BY <2>5 DEF Accept, IsDenied, AuthSucceeds, AuthFails, RecordFailure
  <2>7. d = c
    BY <2>3, <2>6
  <2> QED
    BY <2>5, <2>7 DEF Accept, IsDenied, AuthSucceeds, AuthFails
<1>2. PICK now : now = caller[c].now
  OBVIOUS
<1>3. PICK stamps : stamps = Trim(Append(fails[ip], now), now - Window)
  OBVIOUS
<1>4. PICK all : all = Append(since[ip], now)
  OBVIOUS
<1>5. Recorded(ip, now, all, stamps)
  BY <1>1, <1>2, <1>3, <1>4, RecordFacts DEF RecordFailure
<1>6. /\ now \in Nat /\ now <= clock /\ clock <= now + Delay
      /\ stamps \in Seq(Nat) /\ all \in Seq(Nat) /\ since[ip] \in Seq(Nat)
      /\ Len(all) = Len(since[ip]) + 1
  BY <1>5 DEF Recorded, IInv, TypeOK
<1>7. Len(stamps) >= Threshold
  <2>1. since'[ip] # all
    <3>1. Len(since[ip]) \in Nat
      BY <1>6
    <3>2. Len(all) # 0
      BY <1>6, <3>1
    <3> QED
      BY <3>2
  <2>2. ASSUME since' = [since EXCEPT ![ip] = Append(@, now)] PROVE FALSE
    BY <1>4, <2>1, <2>2 DEF IInv, TypeOK
  <2> QED
    BY <1>1, <1>2, <1>3, <2>2 DEF RecordFailure, TripsBan
<1>8. PICK n \in Nat : n = Len(all)
  BY <1>6
<1>9. PICK m \in Nat : m = Len(stamps)
  BY <1>6
<1>10. PICK gone \in Nat : gone = n - m
  BY <1>5, <1>8, <1>9 DEF Recorded
<1>11. /\ DOMAIN all = 1..n /\ \A j \in 1..n : all[j] \in Nat
       /\ Window \in Nat /\ Delay \in Nat /\ Threshold \in Nat \ {0} /\ m >= Threshold
  <2>1. DOMAIN all = 1..n
    BY <1>6, <1>8
  <2>2. \A j \in 1..n : all[j] \in Nat
    BY <1>6, <2>1
  <2>3. m >= Threshold
    BY <1>7, <1>9
  <2> QED
    BY <2>1, <2>2, <2>3, DenyListAssumption
<1>12. ASSUME NEW j \in (gone + 1)..n
       PROVE  all[j] >= now - Window - Delay /\ all[j] <= now + Delay
  <2>1. j \in 1..n /\ gone + 1 \in 1..n /\ (gone + 1 < j \/ j = gone + 1)
    OBVIOUS
  <2>2. all[gone + 1] >= now - Window
    <3>1. stamps # <<>>
      <4>1. m # 0
        BY <1>11
      <4> QED
        BY <1>9, <4>1
    <3> QED
      BY <1>5, <1>8, <1>9, <1>10, <3>1 DEF Recorded
  <2>3. all[gone + 1] <= all[j] + Delay \/ j = gone + 1
    BY <1>5, <1>8, <2>1 DEF Recorded
  <2>4. all[j] <= clock
    BY <1>5, <1>8, <2>1 DEF Recorded
  <2>5. all[j] \in Nat /\ all[gone + 1] \in Nat /\ clock \in Nat
    BY <1>11, <2>1 DEF IInv, TypeOK
  <2>6. all[j] <= now + Delay
    BY <1>6, <1>11, <2>4, <2>5
  <2>7. all[j] >= now - Window - Delay
    BY <1>6, <1>11, <2>2, <2>3, <2>5
  <2> QED
    BY <2>6, <2>7
<1> DEFINE Inside == {j \in DOMAIN all : now - Window - Delay <= all[j] /\ all[j] <= now + Delay}
<1>13. (gone + 1)..n \subseteq Inside
  <2>1. \A j \in (gone + 1)..n : j \in 1..n
    OBVIOUS
  <2> QED
    BY <1>6, <1>11, <1>12, <2>1
<1>14. Inside \subseteq 1..n
  BY <1>11
<1>15. Between(all, now - Window - Delay, now + Delay) = Cardinality(Inside)
  BY DEF Between
<1> HIDE DEF Inside
<1>16. IsFiniteSet((gone + 1)..n) /\ Cardinality((gone + 1)..n) = m /\ IsFiniteSet(1..n)
  <2>1. /\ IsFiniteSet((gone + 1)..n) /\ IsFiniteSet(1..n)
        /\ Cardinality((gone + 1)..n) = IF gone + 1 > n THEN 0 ELSE n - (gone + 1) + 1
    BY FS_Interval
  <2> QED
    BY <1>10, <2>1
<1>17. IsFiniteSet(Inside) /\ m <= Cardinality(Inside) /\ Cardinality(Inside) \in Nat
  BY <1>13, <1>14, <1>16, FS_Subset, FS_CardinalityType
<1>18. Between(all, now - Window - Delay, now + Delay) >= Threshold
  BY <1>11, <1>15, <1>17
<1> QED
  BY <1>2, <1>4, <1>18

\* No ban without Threshold failures since the last one.
THEOREM BansAreJustified == Spec => BanJustified
<1>1. IInv /\ [Next]_vars =>
        [\A c \in Callers, ip \in IPs :
           caller[c].pc = "record" /\ caller[c].ip = ip /\ caller'[c].pc = "free"
             /\ since'[ip] = <<>>
           => LET now == caller[c].now
              IN  Between(Append(since[ip], now), now - Window - Delay, now + Delay) >= Threshold]_vars
  BY JustifiedStep
<1> QED
  BY <1>1, Invariance, PTL DEF Spec, BanJustified

\* A goroutine passes its last gate only when the longest ban of its address is
\* over, but for two delays.
LEMMA HoldsStep ==
  ASSUME IInv, NEW c \in Callers, [Next]_vars, caller[c].pc = "gate", caller'[c].pc = "auth"
  PROVE  caller[c].now + 2 * Delay >= until[caller[c].ip]
<1>1. IsDenied(c)
  <2>1. caller \in [Callers -> {caller[d] : d \in Callers}]
    BY DEF IInv, TypeOK
  <2>2. ASSUME UNCHANGED caller PROVE FALSE
    BY <2>2
  <2>3. ASSUME NEW d \in Callers, NEW q, caller' = [caller EXCEPT ![d] = q], d # c PROVE FALSE
    BY <2>1, <2>3
  <2>4. ~Tick /\ ~UNCHANGED vars
    BY <2>2 DEF Tick, vars
  <2>5. PICK d \in Callers :
          \/ \E a \in IPs, gates \in {1, 2} : Accept(d, a, gates)
          \/ IsDenied(d) \/ AuthSucceeds(d) \/ AuthFails(d) \/ RecordFailure(d)
    BY <2>4 DEF Next
  <2>6. \E q : caller' = [caller EXCEPT ![d] = q]
    BY <2>5 DEF Accept, IsDenied, AuthSucceeds, AuthFails, RecordFailure
  <2>7. d = c
    BY <2>3, <2>6
  <2> QED
    BY <2>5, <2>7 DEF Accept, AuthSucceeds, AuthFails, RecordFailure
<1> DEFINE ip == caller[c].ip
           now == caller[c].now
<1>2. /\ ip \in IPs /\ now \in Nat /\ now <= clock /\ clock <= now + Delay
      /\ clock \in Nat /\ Delay \in Nat /\ BanFor \in Nat
      /\ until[ip] \in Nat /\ bannedAt[ip] \subseteq Nat
  BY CallerFacts, DenyListAssumption DEF IInv, TypeOK, Timely
<1>3. ~InForce(ip, now)
  <2>1. caller' # [caller EXCEPT ![c] = Free]
    BY DEF IInv, TypeOK, Free
  <2> QED
    BY <1>1, <2>1 DEF IsDenied
<1>4. CASE bannedAt[ip] = {}
  <2>1. until[ip] <= clock + Delay
    BY <1>2, <1>4 DEF IInv, Banned
  <2> HIDE DEF ip, now
  <2>2. now + 2 * Delay >= until[ip]
    BY <1>2, <2>1
  <2> QED
    BY <2>2 DEF ip, now
<1>5. ASSUME NEW t \in bannedAt[ip] PROVE caller[c].now + 2 * Delay >= until[caller[c].ip]
  <2>1. until[ip] <= t + BanFor + Delay /\ t \in Nat /\ ~(now - t < BanFor)
    BY <1>2, <1>3, <1>5 DEF IInv, Banned, InForce
  <2> HIDE DEF ip, now
  <2>2. now + 2 * Delay >= until[ip]
    BY <1>2, <2>1
  <2> QED
    BY <2>2 DEF ip, now
<1> QED
  BY <1>4, <1>5

\* A ban is kept at the gates.
THEOREM BansAreKept == Spec => BanHolds
<1>1. IInv /\ [Next]_vars =>
        [\A c \in Callers :
           caller[c].pc = "gate" /\ caller'[c].pc = "auth"
             => caller[c].now + 2 * Delay >= until[caller[c].ip]]_vars
  BY HoldsStep
<1> QED
  BY <1>1, Invariance, PTL DEF Spec, BanHolds
=============================================================================
