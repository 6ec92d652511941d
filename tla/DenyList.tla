------------------------------ MODULE DenyList ------------------------------
(***************************************************************************)
(* internal/auth.DenyList and the goroutines that use it: the handlers of  *)
(* the proxy port, which pass the gate twice (the unified listener's and   *)
(* the protocol handler's), and of GET /subscription, which pass it once.  *)
(*                                                                         *)
(* IsDenied and RecordFailure read the clock BEFORE they take the lock, so *)
(* stamps reach the list out of order by as much as a goroutine may be     *)
(* delayed in between.                                                     *)
(***************************************************************************)
EXTENDS Integers, Sequences, FiniteSets, FiniteSetsExt

CONSTANTS
  IPs, Callers,
  Threshold, Window, BanFor,  \* threshold, window, banFor
  Delay,                      \* bound on the time from clock reading to lock
  MaxTime                     \* bound on the clock

ASSUME DenyListAssumption ==
  /\ Threshold \in Nat \ {0} /\ Window \in Nat /\ BanFor \in Nat
  /\ Delay \in Nat /\ MaxTime \in Nat

VARIABLES
  clock,
  fails,     \* DenyList.fails: per IP, the stamps in the order they were recorded
  bannedAt,  \* DenyList.bannedAt: per IP, the set of its ban start (at most one)
  caller,    \* per goroutine: where it is, for which IP, the clock it has read
  since,     \* history: per IP, every stamp recorded since its last ban
  until      \* history: per IP, the end of the longest ban imposed on it

vars == <<clock, fails, bannedAt, caller, since, until>>

Free == [pc |-> "free"]
\* A goroutine about to take the lock with the clock it has just read.
Stamped(pc, ip, gates) == [pc |-> pc, ip |-> ip, gates |-> gates, now |-> clock]

Tick ==
  /\ clock < MaxTime
  /\ \A c \in Callers : caller[c].pc \in {"gate", "record"} => clock < caller[c].now + Delay
  /\ clock' = clock + 1
  /\ UNCHANGED <<fails, bannedAt, caller, since, until>>

\* A connection is accepted: on the proxy port (two gates) or for the
\* subscription (one).
Accept(c, ip, gates) ==
  /\ caller[c].pc = "free"
  /\ caller' = [caller EXCEPT ![c] = Stamped("gate", ip, gates)]
  /\ UNCHANGED <<clock, fails, bannedAt, since, until>>

InForce(ip, now) == \E t \in bannedAt[ip] : now - t < BanFor

\* IsDenied under the lock: a refused caller is gone, an expired ban is
\* forgotten, and an admitted caller meets the next gate or authenticates.
IsDenied(c) ==
  LET ip == caller[c].ip
  IN  /\ caller[c].pc = "gate"
      /\ \/ /\ InForce(ip, caller[c].now)
            /\ caller' = [caller EXCEPT ![c] = Free]
            /\ UNCHANGED bannedAt
         \/ /\ ~InForce(ip, caller[c].now)
            /\ bannedAt' = [bannedAt EXCEPT ![ip] = {}]
            /\ caller' = [caller EXCEPT ![c] =
                 IF @.gates = 1 THEN [pc |-> "auth", ip |-> ip]
                 ELSE Stamped("gate", ip, @.gates - 1)]
      /\ UNCHANGED <<clock, fails, since, until>>

\* The credentials are right: nothing is recorded.
AuthSucceeds(c) ==
  /\ caller[c].pc = "auth"
  /\ caller' = [caller EXCEPT ![c] = Free]
  /\ UNCHANGED <<clock, fails, bannedAt, since, until>>

AuthFails(c) ==
  /\ caller[c].pc = "auth"
  /\ caller' = [caller EXCEPT ![c] = Stamped("record", @.ip, 0)]
  /\ UNCHANGED <<clock, fails, bannedAt, since, until>>

\* Mutant: the list is never trimmed.
Trim_Never(stamps, cutoff) == stamps

\* The loop drops stamps from the front and stops at the first one inside
\* the window, so an older stamp behind a newer one stays.
Trim(stamps, cutoff) ==
  LET inside == {i \in DOMAIN stamps : stamps[i] >= cutoff}
  IN  IF inside = {} THEN <<>> ELSE SubSeq(stamps, Min(inside), Len(stamps))

\* Mutant: one failure too many is tolerated.
TripsBan_OffByOne(stamps) == Len(stamps) > Threshold

TripsBan(stamps) == Len(stamps) >= Threshold

\* Mutant: an IP with a ban on record, expired or not, is not banned again.
BanStart_FirstOnly(ip, now) == IF bannedAt[ip] = {} THEN {now} ELSE bannedAt[ip]

BanStart(ip, now) == {now}

\* RecordFailure under the lock.
RecordFailure(c) ==
  LET ip == caller[c].ip
      now == caller[c].now
      stamps == Trim(Append(fails[ip], now), now - Window)
  IN  /\ caller[c].pc = "record"
      /\ \/ /\ TripsBan(stamps)
            /\ bannedAt' = [bannedAt EXCEPT ![ip] = BanStart(ip, now)]
            /\ fails' = [fails EXCEPT ![ip] = <<>>]
            /\ since' = [since EXCEPT ![ip] = <<>>]
            /\ until' = [until EXCEPT ![ip] = Max({@, now + BanFor})]
         \/ /\ ~TripsBan(stamps)
            /\ fails' = [fails EXCEPT ![ip] = stamps]
            /\ since' = [since EXCEPT ![ip] = Append(@, now)]
            /\ UNCHANGED <<bannedAt, until>>
      /\ caller' = [caller EXCEPT ![c] = Free]
      /\ UNCHANGED clock

Init ==
  /\ clock = 0
  /\ fails = [ip \in IPs |-> <<>>] /\ bannedAt = [ip \in IPs |-> {}]
  /\ caller = [c \in Callers |-> Free]
  /\ since = [ip \in IPs |-> <<>>] /\ until = [ip \in IPs |-> 0]

Next ==
  \/ Tick
  \/ \E c \in Callers :
       \/ \E ip \in IPs, gates \in {1, 2} : Accept(c, ip, gates)
       \/ IsDenied(c) \/ AuthSucceeds(c) \/ AuthFails(c) \/ RecordFailure(c)

Spec == Init /\ [][Next]_vars

-----------------------------------------------------------------------------
(* Properties. *)

\* The type invariant.
TypeOK ==
  /\ clock \in Nat
  /\ fails \in [IPs -> Seq(Nat)] /\ since \in [IPs -> Seq(Nat)]
  /\ bannedAt \in [IPs -> SUBSET Nat] /\ until \in [IPs -> Nat]
  /\ caller \in [Callers -> {Free} \cup [pc : {"auth"}, ip : IPs]
                   \cup [pc : {"gate", "record"}, ip : IPs, gates : 0..2, now : Nat]]

Between(stamps, a, b) == Cardinality({i \in DOMAIN stamps : a <= stamps[i] /\ stamps[i] <= b})

\* A ban rests on Threshold failures since the previous ban, all stamped in
\* the window or outside it by no more than a goroutine may be delayed
\* between reading the clock and taking the lock.
BanJustified ==
  [][\A c \in Callers, ip \in IPs :
       caller[c].pc = "record" /\ caller[c].ip = ip /\ caller'[c].pc = "free"
         /\ since'[ip] = <<>>
       => LET now == caller[c].now
          IN  Between(Append(since[ip], now), now - Window - Delay, now + Delay) >= Threshold]_vars

\* No Threshold failures go unpunished: of the failures recorded since the
\* last ban, fewer than Threshold lie in any interval of the window's length,
\* less that delay.
NoMissedBan ==
  \A ip \in IPs : \A i \in DOMAIN since[ip] :
    Between(since[ip], since[ip][i], since[ip][i] + Window - Delay) < Threshold

\* Nobody is admitted to authentication during a ban, even when failures of
\* connections admitted before it are recorded after it and re-impose it
\* with an earlier stamp (one delay), or a faster caller has found the ban
\* expired and forgotten it (another).
BanHolds ==
  [][\A c \in Callers :
       caller[c].pc = "gate" /\ caller'[c].pc = "auth"
         => caller[c].now + 2 * Delay >= until[caller[c].ip]]_vars
=============================================================================
