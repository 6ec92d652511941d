------------------------- MODULE ListenerSet_proofs -------------------------
(***************************************************************************)
(* Theorems about ListenerSet, for any addresses, requests, connections    *)
(* and any number of instances, failures of Accept and restarts: every     *)
(* open socket has an owner, an answered stop left nothing behind, and     *)
(* handlers one at a time leave the settings a restart needs.              *)
(*                                                                         *)
(* The invariant follows an instance from its bind to the end of its       *)
(* accept loop, and says for every step of a handler what it has read and  *)
(* still finds so.                                                         *)
(***************************************************************************)
EXTENDS ListenerSet, TLAPS

Settings == [addr : Addrs, enabled : BOOLEAN]

\* What a handler has in its variables at each of its steps.
NoReq == [pc : {"idle", "err"}]
LoadStart == [pc : {"load"}, kind : {"start"}]
StartReq == [pc : {"start", "enable", "ok", "err"}, kind : {"start"}, read : Settings]
LoadSettings == [pc : {"load"}, kind : {"settings"}, new : Addrs]
PutReq == [pc : {"check", "update", "ok", "err"}, kind : {"settings"}, new : Addrs,
           read : Settings]
TakeStop == [pc : {"stop"}, kind : {"stop"}]
StopReq == [pc : {"close", "wait", "disable", "ok"}, kind : {"stop"}, took : 0..MaxInst]
ReqOK ==
  req \in [Reqs -> NoReq \cup LoadStart \cup StartReq \cup LoadSettings \cup PutReq
                   \cup TakeStop \cup StopReq]

\* Whoever holds an instance holds one that was bound, and only Stop with an
\* instance in hand closes and waits.
Bound ==
  /\ cur # 0 => socket[cur] # "none"
  /\ took # 0 => socket[took] # "none"
  /\ \A r \in Reqs : req[r] \in StopReq =>
       /\ req[r].took # 0 => socket[req[r].took] # "none"
       /\ At(r, "close") \/ At(r, "wait") => req[r].took # 0

\* A handler that runs is one the accept loop of its instance waits for.
Waited ==
  \A c \in Conns : conn[c].pc \in {"handshake", "live", "cut"} =>
    conn[c].of # 0 /\ serve[conn[c].of] \in {"accepting", "draining"}

\* Behind the wait of Stop the accept loop has returned.
Drained ==
  \A r \in Reqs : req[r] \in StopReq /\ (At(r, "disable") \/ At(r, "ok")) /\ req[r].took # 0 =>
    serve[req[r].took] = "returned"

\* Without overlap one request is in progress at most ...
Serial == ~overlap => \A p, q \in Reqs : Active(p) /\ Active(q) => p = q

\* ... and what it has read is still so.
ReadIsCurrent ==
  ~overlap => \A r \in Reqs :
    /\ At(r, "start") \/ At(r, "check") \/ At(r, "update") => req[r].read = settings
    /\ At(r, "update") /\ req[r].new # req[r].read.addr => cur = 0
    /\ At(r, "close") \/ At(r, "wait") \/ At(r, "disable") => cur = 0

\* The row names the address of the running proxy, and enables it unless a
\* start is about to.
RowMatches ==
  ~overlap /\ cur # 0 =>
    /\ settings.addr = addr[cur]
    /\ settings.enabled \/ \E r \in Reqs : At(r, "enable")

IInv ==
  /\ TypeOK /\ ReqOK /\ Bound /\ Waited /\ Drained /\ SocketsReleased
  /\ Serial /\ ReadIsCurrent /\ RowMatches
-----------------------------------------------------------------------------
\* A handler's step moves one request and leaves its variables alone.
LEMMA StepFrame ==
  ASSUME ReqOK, NEW r \in Reqs, NEW pc, Step(r, pc)
  PROVE  /\ req'[r].pc = pc
         /\ \A q \in Reqs : q # r => req'[q] = req[q]
<1>1. "pc" \in DOMAIN req[r]
  <2>1. req[r] \in NoReq => "pc" \in DOMAIN req[r] BY DEF NoReq
  <2>2. req[r] \in LoadStart => "pc" \in DOMAIN req[r] BY DEF LoadStart
  <2>3. req[r] \in StartReq => "pc" \in DOMAIN req[r] BY DEF StartReq
  <2>4. req[r] \in LoadSettings => "pc" \in DOMAIN req[r] BY DEF LoadSettings
  <2>5. req[r] \in PutReq => "pc" \in DOMAIN req[r] BY DEF PutReq
  <2>6. req[r] \in TakeStop => "pc" \in DOMAIN req[r] BY DEF TakeStop
  <2>7. req[r] \in StopReq => "pc" \in DOMAIN req[r] BY DEF StopReq
  <2> QED BY <2>1, <2>2, <2>3, <2>4, <2>5, <2>6, <2>7 DEF ReqOK
<1>2. r \in DOMAIN req /\ req' = [req EXCEPT ![r].pc = pc] BY DEF ReqOK, Step
<1> QED BY <1>1, <1>2

\* Without overlap the others have nothing in progress.
LEMMA OthersDone ==
  ASSUME Serial, ~overlap, NEW r \in Reqs, Active(r), NEW q \in Reqs, q # r
  PROVE  ~Active(q)
  BY DEF Serial

\* What a successful bind does with the instance it makes.
BindsAs(i, a) ==
  /\ socket[i] = "none" /\ cur' = i /\ addr' = [addr EXCEPT ![i] = a]
  /\ socket' = [socket EXCEPT ![i] = "open"]
  /\ serve' = [serve EXCEPT ![i] = "accepting"] /\ UNCHANGED took

\* A bind makes an instance nobody has had before.
LEMMA BindPicks ==
  ASSUME NEW a, Bind(a)
  PROVE  \E i \in Inst : BindsAs(i, a)
  BY DEF Bind, BindsAs, Fresh

\* What a boot sets: the proxy is started or it is not.
Boots(up) ==
  /\ cur' = BootState(settings, up).cur /\ addr' = BootState(settings, up).addr
  /\ socket' = BootState(settings, up).socket /\ serve' = BootState(settings, up).serve

-----------------------------------------------------------------------------
\* The first boot.
LEMMA InitIInv == Init => IInv
<1> SUFFICES ASSUME Init PROVE IInv
  OBVIOUS
<1> USE ListenerSetAssumption
<1>1. PICK up \in {FALSE, settings.enabled} :
        /\ cur = BootState(settings, up).cur /\ addr = BootState(settings, up).addr
        /\ socket = BootState(settings, up).socket /\ serve = BootState(settings, up).serve
  BY DEF Init
<1>2. 1 \in Inst /\ 1 \in 0..MaxInst /\ 0 \in 0..MaxInst BY DEF Inst
<1>3. settings \in [addr : Addrs, enabled : BOOLEAN] BY DEF Init
<1>4. /\ cur \in 0..MaxInst /\ addr \in [Inst -> Addrs]
      /\ socket \in [Inst -> {"none", "open", "closed"}]
      /\ serve \in [Inst -> {"none", "accepting", "draining", "returned"}]
  BY <1>1, <1>2, <1>3 DEF BootState
<1>5. TypeOK BY <1>2, <1>3, <1>4 DEF Init, TypeOK
<1>6. req \in [Reqs -> NoReq] /\ \A r \in Reqs : req[r].pc = "idle"
  BY DEF Init, Idle, NoReq
<1>7. ReqOK BY <1>6 DEF ReqOK
<1>8. Bound /\ SocketsReleased
  BY <1>1, <1>2, <1>6 DEF Bound, SocketsReleased, BootState, Init, StopReq
<1>9. Waited BY DEF Init, Waited
<1>10. Drained /\ Serial /\ ReadIsCurrent
  BY <1>6 DEF Drained, Serial, ReadIsCurrent, Active, At, Final
<1>11. RowMatches
  <2>1. CASE up BY <1>1, <1>2, <2>1 DEF BootState, RowMatches
  <2>2. CASE ~up BY <1>1, <2>2 DEF BootState, RowMatches
  <2> QED BY <2>1, <2>2
<1> QED BY <1>5, <1>7, <1>8, <1>9, <1>10, <1>11 DEF IInv

\* a request arrives; without overlap it is the only one in progress.
LEMMA ReceiveStep ==
  ASSUME IInv, NEW r \in Reqs, Receive(r)
  PROVE  IInv'
<1> USE ListenerSetAssumption DEF IInv
<1>1. TypeOK'
  BY DEF Receive, TypeOK, proxy
<1>2. ReqOK'
  BY DEF Receive, LoadSettings, LoadStart, ReqOK, TakeStop
<1>3. Bound'
  BY DEF Receive, Active, At, Bound, ReqOK, StopReq, proxy
<1>4. Drained'
  BY DEF Receive, At, Drained, ReqOK, TakeStop, proxy
<1>5. SocketsReleased'
  BY DEF Receive, At, ReqOK, SocketsReleased, proxy
<1>6. Serial'
  <2> SUFFICES ASSUME ~overlap', NEW p \in Reqs, NEW q \in Reqs, Active(p)', Active(q)'
               PROVE  p = q
    BY DEF Serial
  <2>1. \A s \in Reqs : ~Active(s) BY DEF Receive
  <2>2. \A s \in Reqs : s # r => req'[s] = req[s] BY DEF Receive, ReqOK
  <2>3. \A s \in Reqs : s # r => ~Active(s)' BY <2>1, <2>2 DEF Active
  <2> QED BY <2>3
<1>7. ReadIsCurrent'
  BY DEF Receive, At, ReadIsCurrent, ReqOK, TypeOK, proxy
<1>8. RowMatches'
  BY DEF Receive, At, ReqOK, RowMatches, proxy
<1>9. Waited'
  BY DEF Receive, Waited, proxy
<1> QED BY <1>1, <1>2, <1>3, <1>4, <1>5, <1>6, <1>7, <1>8, <1>9

\* LoadSettings: the handler reads the row.
LEMMA LoadStep ==
  ASSUME IInv, NEW r \in Reqs, Load(r)
  PROVE  IInv'
<1> USE ListenerSetAssumption DEF IInv
<1>1. ReqOK'
  BY DEF Load, At, LoadSettings, LoadStart, NoReq, PutReq, ReqOK, Settings, StartReq,
     StopReq, TakeStop, TypeOK
<1>2. Bound'
  BY DEF Load, At, Bound, StopReq, proxy
<1>3. Drained'
  BY DEF Load, At, Drained, proxy
<1>4. SocketsReleased'
  BY DEF Load, At, SocketsReleased, proxy
<1>5. Serial'
  BY DEF Load, Active, At, Final, Serial, history
<1>6. ReadIsCurrent'
  BY DEF Load, At, ReadIsCurrent, history, proxy
<1>7. RowMatches'
  BY DEF Load, At, RowMatches, history, proxy
<1>8. TypeOK' /\ Waited'
  BY DEF Load, TypeOK, Waited, history, proxy
<1> QED BY <1>1, <1>2, <1>3, <1>4, <1>5, <1>6, <1>7, <1>8

\* the start binds a new instance to the address it has read.
LEMMA StartBindsStep ==
  ASSUME IInv, NEW r \in Reqs, StartBinds(r)
  PROVE  IInv'
<1> USE ListenerSetAssumption DEF IInv
<1>1. TypeOK'
  <2>1. req[r] \in StartReq
    BY DEF StartBinds, At, ReqOK, NoReq, LoadStart, LoadSettings, PutReq, TakeStop, StopReq
  <2>2. req[r].read.addr \in Addrs BY <2>1 DEF StartReq, Settings
  <2>3. PICK i \in Inst : BindsAs(i, req[r].read.addr) BY BindPicks DEF StartBinds
  <2> QED BY <2>2, <2>3 DEF StartBinds, BindsAs, TypeOK, Inst, history
<1>2. ReqOK'
  BY DEF StartBinds, Step, At, ReqOK, NoReq, LoadStart, StartReq, LoadSettings, PutReq,
     TakeStop, StopReq
<1>3. Bound'
  BY DEF StartBinds, At, Bind, Bound, Fresh, Step, StopReq, TypeOK
<1>4. Waited'
  BY DEF StartBinds, Bind, Waited
<1>5. Drained'
  <2>1. PICK i \in Inst : BindsAs(i, req[r].read.addr) BY BindPicks DEF StartBinds
  <2>2. \A q \in Reqs : req'[q] \in StopReq => q # r /\ req'[q] = req[q]
    BY StepFrame DEF StartBinds, StopReq
  <2>3. \A q \in Reqs : req[q] \in StopReq /\ req[q].took # 0 => req[q].took \in Inst \ {i}
    BY <2>1 DEF Bound, BindsAs, StopReq, Inst
  <2> QED BY <2>1, <2>2, <2>3 DEF Drained, At, BindsAs
<1>6. SocketsReleased'
  BY DEF StartBinds, At, Bind, Fresh, Inst, ReqOK, SocketsReleased, StartReq, Step, TakeStop
<1>7. Serial'
  BY DEF StartBinds, Active, At, Final, Serial, Step, history
<1>8. ReadIsCurrent'
  <2> SUFFICES ASSUME ~overlap PROVE ReadIsCurrent'
    BY DEF ReadIsCurrent, StartBinds, history
  <2>1. Active(r) /\ Step(r, "enable") BY DEF StartBinds, Active, At, Final
  <2>2. \A q \in Reqs : q # r => ~Active(q) /\ req'[q] = req[q]
    BY <2>1, OthersDone, StepFrame
  <2>3. req'[r].pc = "enable" BY <2>1, StepFrame
  <2>4. \A q \in Reqs : req'[q].pc \in Final \cup {"enable"} BY <2>2, <2>3 DEF Active
  <2> QED BY <2>4 DEF ReadIsCurrent, At, Final
<1>9. RowMatches'
  <2> SUFFICES ASSUME ~overlap PROVE RowMatches'
    BY DEF RowMatches, StartBinds, history
  <2>1. PICK i \in Inst : BindsAs(i, req[r].read.addr) BY BindPicks DEF StartBinds
  <2>2. cur' = i /\ addr'[i] = req[r].read.addr BY <2>1 DEF BindsAs, TypeOK
  <2>3. req[r].read = settings BY DEF StartBinds, ReadIsCurrent
  <2>4. req'[r].pc = "enable" BY StepFrame DEF StartBinds
  <2> QED BY <2>2, <2>3, <2>4 DEF RowMatches, StartBinds, At
<1> QED BY <1>1, <1>2, <1>3, <1>4, <1>5, <1>6, <1>7, <1>8, <1>9

\* the start finds the proxy running where it is to run.
LEMMA StartIsRunningStep ==
  ASSUME IInv, NEW r \in Reqs, StartIsRunning(r)
  PROVE  IInv'
<1> USE ListenerSetAssumption DEF IInv
<1>1. ReqOK'
  BY DEF StartIsRunning, At, LoadSettings, LoadStart, NoReq, PutReq, ReqOK, StartReq, Step,
     StopReq, TakeStop
<1>2. Bound'
  BY DEF StartIsRunning, At, Bound, Step, StopReq, proxy
<1>3. Drained'
  BY DEF StartIsRunning, At, Drained, Step, proxy
<1>4. SocketsReleased'
  BY DEF StartIsRunning, At, SocketsReleased, Step, proxy
<1>5. Serial'
  BY DEF StartIsRunning, Active, At, Final, Serial, Step, history
<1>6. ReadIsCurrent'
  BY DEF StartIsRunning, At, ReadIsCurrent, Step, history
<1>7. RowMatches'
  BY DEF StartIsRunning, At, RowMatches, Step, history, proxy
<1>8. TypeOK' /\ Waited'
  BY DEF StartIsRunning, TypeOK, Waited, history, proxy
<1> QED BY <1>1, <1>2, <1>3, <1>4, <1>5, <1>6, <1>7, <1>8

\* the start fails and leaves everything as it was.
LEMMA StartRefusedStep ==
  ASSUME IInv, NEW r \in Reqs, StartRefused(r)
  PROVE  IInv'
<1> USE ListenerSetAssumption DEF IInv
<1>1. ReqOK'
  BY DEF StartRefused, At, LoadSettings, LoadStart, NoReq, PutReq, ReqOK, StartReq, Step,
     StopReq, TakeStop
<1>2. Bound'
  BY DEF StartRefused, At, Bound, Step, StopReq, proxy
<1>3. Drained'
  BY DEF StartRefused, At, Drained, Step, proxy
<1>4. SocketsReleased'
  BY DEF StartRefused, At, SocketsReleased, Step, proxy
<1>5. Serial'
  BY DEF StartRefused, Active, Final, Serial, Step, history
<1>6. ReadIsCurrent'
  BY DEF StartRefused, At, ReadIsCurrent, Step, history, proxy
<1>7. RowMatches'
  BY DEF StartRefused, At, RowMatches, Step, history, proxy
<1>8. TypeOK' /\ Waited'
  BY DEF StartRefused, TypeOK, Waited, history, proxy
<1> QED BY <1>1, <1>2, <1>3, <1>4, <1>5, <1>6, <1>7, <1>8

\* the start writes proxy_enabled.
LEMMA EnableStep ==
  ASSUME IInv, NEW r \in Reqs, Enable(r)
  PROVE  IInv'
<1> USE ListenerSetAssumption DEF IInv
<1>1. TypeOK'
  BY DEF Enable, TypeOK, history, proxy
<1>2. ReqOK'
  BY DEF Enable, At, LoadSettings, LoadStart, NoReq, PutReq, ReqOK, StartReq, Step, StopReq,
     TakeStop
<1>3. Bound'
  BY DEF Enable, At, Bound, LoadSettings, LoadStart, NoReq, PutReq, ReqOK, StartReq, Step,
     StopReq, TakeStop, proxy
<1>4. Drained'
  BY DEF Enable, At, Drained, LoadSettings, LoadStart, NoReq, PutReq, ReqOK, StartReq, Step,
     StopReq, TakeStop, proxy
<1>5. SocketsReleased'
  BY DEF Enable, At, SocketsReleased, Step, proxy
<1>6. Serial'
  BY DEF Enable, Active, Final, Serial, Step, history
<1>7. ReadIsCurrent'
  <2> SUFFICES ASSUME ~overlap PROVE ReadIsCurrent'
    BY DEF ReadIsCurrent, Enable, history
  <2>1. Active(r) /\ Step(r, "ok") BY DEF Enable, Active, At, Final
  <2>2. \A q \in Reqs : q # r => ~Active(q) /\ req'[q] = req[q]
    BY <2>1, OthersDone, StepFrame
  <2>3. req'[r].pc = "ok" BY <2>1, StepFrame
  <2>4. \A q \in Reqs : req'[q].pc \in Final BY <2>2, <2>3 DEF Active, Final
  <2> QED BY <2>4 DEF ReadIsCurrent, At, Final
<1>8. RowMatches'
  BY DEF Enable, RowMatches, history, proxy
<1>9. Waited'
  BY DEF Enable, Waited, proxy
<1> QED BY <1>1, <1>2, <1>3, <1>4, <1>5, <1>6, <1>7, <1>8, <1>9

\* the stop takes the instance, or finds none.
LEMMA StopTakesStep ==
  ASSUME IInv, NEW r \in Reqs, StopTakes(r)
  PROVE  IInv'
<1> USE ListenerSetAssumption DEF IInv
<1>1. TypeOK'
  BY DEF StopTakes, TypeOK, history
<1>2. ReqOK'
  BY DEF StopTakes, ReqOK, StopReq, TypeOK
<1>3. Bound'
  BY DEF StopTakes, At, Bound
<1>4. Drained'
  BY DEF StopTakes, At, Drained
<1>5. SocketsReleased'
  BY DEF StopTakes, At, ReqOK, SocketsReleased
<1>6. Serial'
  BY DEF StopTakes, Active, At, Final, Serial, history
<1>7. ReadIsCurrent'
  BY DEF StopTakes, At, ReadIsCurrent, history
<1>8. RowMatches'
  BY DEF StopTakes, RowMatches
<1>9. Waited'
  BY DEF StopTakes, Waited
<1> QED BY <1>1, <1>2, <1>3, <1>4, <1>5, <1>6, <1>7, <1>8, <1>9

\* the stop closes the socket of the instance it has taken.
LEMMA StopClosesStep ==
  ASSUME IInv, NEW r \in Reqs, StopCloses(r)
  PROVE  IInv'
<1> USE ListenerSetAssumption DEF IInv
<1>1. TypeOK'
  BY DEF StopCloses, TypeOK, history
<1>2. ReqOK'
  BY DEF StopCloses, At, LoadSettings, LoadStart, NoReq, PutReq, ReqOK, StartReq, Step,
     StopReq, TakeStop
<1>3. Bound'
  BY DEF StopCloses, At, Bound, LoadSettings, LoadStart, NoReq, PutReq, ReqOK, StartReq,
     Step, TakeStop
<1>4. Drained'
  BY DEF StopCloses, At, Drained, Step
<1>5. SocketsReleased'
  BY DEF StopCloses, At, SocketsReleased, Step, TypeOK
<1>6. Serial'
  BY DEF StopCloses, Active, At, Final, Serial, Step, history
<1>7. ReadIsCurrent'
  BY DEF StopCloses, At, ReadIsCurrent, Step, history
<1>8. RowMatches'
  BY DEF StopCloses, At, RowMatches, Step, history
<1>9. Waited'
  BY DEF StopCloses, Waited
<1> QED BY <1>1, <1>2, <1>3, <1>4, <1>5, <1>6, <1>7, <1>8, <1>9

\* the stop goes on when the accept loop has returned.
LEMMA StopWaitsStep ==
  ASSUME IInv, NEW r \in Reqs, StopWaits(r)
  PROVE  IInv'
<1> USE ListenerSetAssumption DEF IInv
<1>1. ReqOK'
  BY DEF StopWaits, At, LoadSettings, LoadStart, NoReq, PutReq, ReqOK, StartReq, Step,
     StopReq, TakeStop
<1>2. Bound'
  BY DEF StopWaits, At, Bound, LoadSettings, LoadStart, NoReq, PutReq, ReqOK, StartReq,
     Step, TakeStop, proxy
<1>3. Drained'
  BY DEF StopWaits, At, Drained, Step, proxy
<1>4. SocketsReleased'
  BY DEF StopWaits, At, SocketsReleased, Step, proxy
<1>5. Serial'
  BY DEF StopWaits, Active, At, Final, Serial, Step, history
<1>6. ReadIsCurrent'
  BY DEF StopWaits, At, ReadIsCurrent, Step, history, proxy
<1>7. RowMatches'
  BY DEF StopWaits, At, RowMatches, Step, history, proxy
<1>8. TypeOK' /\ Waited'
  BY DEF StopWaits, TypeOK, Waited, history, proxy
<1> QED BY <1>1, <1>2, <1>3, <1>4, <1>5, <1>6, <1>7, <1>8

\* the stop clears proxy_enabled, when no proxy is running.
LEMMA DisableStep ==
  ASSUME IInv, NEW r \in Reqs, Disable(r)
  PROVE  IInv'
<1> USE ListenerSetAssumption DEF IInv
<1>1. TypeOK'
  BY DEF Disable, TypeOK, history, proxy
<1>2. ReqOK'
  BY DEF Disable, At, LoadSettings, LoadStart, NoReq, PutReq, ReqOK, StartReq, Step,
     StopReq, TakeStop
<1>3. Bound'
  BY DEF Disable, At, Bound, LoadSettings, LoadStart, NoReq, PutReq, ReqOK, StartReq, Step,
     TakeStop, proxy
<1>4. Drained'
  BY DEF Disable, At, Drained, LoadSettings, LoadStart, NoReq, PutReq, ReqOK, StartReq,
     Step, TakeStop, proxy
<1>5. SocketsReleased'
  BY DEF Disable, At, SocketsReleased, Step, proxy
<1>6. Serial'
  BY DEF Disable, Active, Final, Serial, Step, history
<1>7. ReadIsCurrent'
  <2> SUFFICES ASSUME ~overlap PROVE ReadIsCurrent'
    BY DEF ReadIsCurrent, Disable, history
  <2>1. Active(r) /\ Step(r, "ok") BY DEF Disable, Active, At, Final
  <2>2. \A q \in Reqs : q # r => ~Active(q) /\ req'[q] = req[q]
    BY <2>1, OthersDone, StepFrame
  <2>3. req'[r].pc = "ok" BY <2>1, StepFrame
  <2>4. \A q \in Reqs : req'[q].pc \in Final BY <2>2, <2>3 DEF Active, Final
  <2> QED BY <2>4 DEF ReadIsCurrent, At, Final
<1>8. RowMatches'
  <2>1. At(r, "disable") BY DEF Disable
  <2>2. ~overlap => cur = 0 BY <2>1 DEF ReadIsCurrent
  <2> QED BY <2>2 DEF Disable, RowMatches, proxy, history
<1>9. Waited'
  BY DEF Disable, Waited, proxy
<1> QED BY <1>1, <1>2, <1>3, <1>4, <1>5, <1>6, <1>7, <1>8, <1>9

\* putSettings goes on with a new address only if no proxy is running.
LEMMA CheckRunningStep ==
  ASSUME IInv, NEW r \in Reqs, CheckRunning(r)
  PROVE  IInv'
<1> USE ListenerSetAssumption DEF IInv
<1>1. ReqOK'
  BY DEF CheckRunning, At, LoadSettings, LoadStart, NoReq, PutReq, ReqOK, StartReq, Step,
     StopReq, TakeStop
<1>2. Bound'
  BY DEF CheckRunning, At, Bound, Step, StopReq, proxy
<1>3. Drained'
  BY DEF CheckRunning, At, Drained, Step, proxy
<1>4. SocketsReleased'
  BY DEF CheckRunning, At, SocketsReleased, Step, proxy
<1>5. Serial'
  BY DEF CheckRunning, Active, At, Final, Serial, Step, history
<1>6. ReadIsCurrent'
  BY DEF CheckRunning, At, ReadIsCurrent, Step, history, proxy
<1>7. RowMatches'
  BY DEF CheckRunning, At, RowMatches, Step, history, proxy
<1>8. TypeOK' /\ Waited'
  BY DEF CheckRunning, TypeOK, Waited, history, proxy
<1> QED BY <1>1, <1>2, <1>3, <1>4, <1>5, <1>6, <1>7, <1>8

\* putSettings writes back the row it has read, with the new address.
LEMMA UpdateStep ==
  ASSUME IInv, NEW r \in Reqs, Update(r)
  PROVE  IInv'
<1> USE ListenerSetAssumption DEF IInv
<1>1. TypeOK'
  <2>1. req[r] \in PutReq
    BY DEF Update, At, ReqOK, NoReq, LoadStart, StartReq, LoadSettings, TakeStop, StopReq
  <2>2. settings' \in [addr : Addrs, enabled : BOOLEAN]
    BY <2>1 DEF Update, PutReq, Settings
  <2> QED BY <2>2 DEF Update, TypeOK, proxy, history
<1>2. ReqOK'
  BY DEF Update, At, LoadSettings, LoadStart, NoReq, PutReq, ReqOK, StartReq, Step, StopReq,
     TakeStop
<1>3. Bound'
  BY DEF Update, At, Bound, LoadSettings, LoadStart, NoReq, PutReq, ReqOK, StartReq, Step,
     StopReq, TakeStop, proxy
<1>4. Drained'
  BY DEF Update, At, Drained, LoadSettings, LoadStart, NoReq, PutReq, ReqOK, StartReq, Step,
     StopReq, TakeStop, proxy
<1>5. SocketsReleased'
  BY DEF Update, At, SocketsReleased, Step, proxy
<1>6. Serial'
  BY DEF Update, Active, Final, Serial, Step, history
<1>7. ReadIsCurrent'
  <2> SUFFICES ASSUME ~overlap PROVE ReadIsCurrent'
    BY DEF ReadIsCurrent, Update, history
  <2>1. Active(r) /\ Step(r, "ok") BY DEF Update, Active, At, Final
  <2>2. \A q \in Reqs : q # r => ~Active(q) /\ req'[q] = req[q]
    BY <2>1, OthersDone, StepFrame
  <2>3. req'[r].pc = "ok" BY <2>1, StepFrame
  <2>4. \A q \in Reqs : req'[q].pc \in Final BY <2>2, <2>3 DEF Active, Final
  <2> QED BY <2>4 DEF ReadIsCurrent, At, Final
<1>8. RowMatches'
  <2> SUFFICES ASSUME ~overlap, cur # 0
               PROVE  settings'.addr = addr[cur] /\ settings'.enabled
    BY DEF RowMatches, Update, proxy, history
  <2>1. At(r, "update") /\ settings' = [addr |-> req[r].new, enabled |-> req[r].read.enabled]
    BY DEF Update
  <2>2. req[r].read = settings /\ req[r].new = settings.addr BY <2>1 DEF ReadIsCurrent
  <2>3. \A q \in Reqs : ~At(q, "enable")
    <3>1. \A q \in Reqs : q # r => ~Active(q)
      BY <2>1, OthersDone DEF At, Active, Final
    <3> QED BY <2>1, <3>1 DEF At, Active, Final
  <2>4. settings.addr = addr[cur] /\ settings.enabled BY <2>3 DEF RowMatches
  <2> QED BY <2>1, <2>2, <2>4
<1>9. Waited'
  BY DEF Update, Waited, proxy
<1> QED BY <1>1, <1>2, <1>3, <1>4, <1>5, <1>6, <1>7, <1>8, <1>9

\* an accepting loop takes a connection.
LEMMA AcceptStep ==
  ASSUME IInv, NEW i \in Inst, NEW c \in Conns, Accept(i, c)
  PROVE  IInv'
<1> USE ListenerSetAssumption DEF IInv
<1>1. TypeOK'
  <2>1. i \in 0..MaxInst BY DEF Inst
  <2>2. conn' \in [Conns -> [pc : {"idle", "handshake", "live", "cut", "ended"}, of : 0..MaxInst]]
    BY <2>1 DEF Accept, TypeOK
  <2> QED BY <2>2 DEF Accept, TypeOK, proxy, history
<1>2. Waited'
  <2>1. i # 0 BY DEF Inst
  <2> QED BY <2>1 DEF Accept, Waited, proxy
<1>3. ReqOK' /\ Bound' /\ Drained' /\ SocketsReleased' /\ Serial' /\ ReadIsCurrent' /\ RowMatches'
  BY DEF Accept, Active, At, Bound, Drained, ReadIsCurrent, ReqOK, RowMatches, Serial,
     SocketsReleased, history, proxy
<1> QED BY <1>1, <1>2, <1>3

\* the loop ends because the socket is closed.
LEMMA AcceptClosedStep ==
  ASSUME IInv, NEW i \in Inst, AcceptClosed(i)
  PROVE  IInv'
<1> USE ListenerSetAssumption DEF IInv
<1>1. TypeOK'
  BY DEF AcceptClosed, TypeOK, history
<1>2. Waited'
  BY DEF AcceptClosed, Waited
<1>3. Drained'
  BY DEF AcceptClosed, At, Drained
<1>4. ReqOK' /\ Bound' /\ SocketsReleased' /\ Serial' /\ ReadIsCurrent' /\ RowMatches'
  BY DEF AcceptClosed, Active, At, Bound, ReadIsCurrent, ReqOK, RowMatches, Serial,
     SocketsReleased, history
<1> QED BY <1>1, <1>2, <1>3, <1>4

\* the loop ends and leaves the socket open to its owner.
LEMMA AcceptFailsStep ==
  ASSUME IInv, NEW i \in Inst, AcceptFails(i)
  PROVE  IInv'
<1> USE ListenerSetAssumption DEF IInv
<1>1. TypeOK'
  BY DEF AcceptFails, TypeOK
<1>2. Waited'
  BY DEF AcceptFails, Waited
<1>3. Drained'
  BY DEF AcceptFails, At, Drained
<1>4. ReqOK' /\ Bound' /\ SocketsReleased' /\ Serial' /\ ReadIsCurrent' /\ RowMatches'
  BY DEF AcceptFails, Active, At, Bound, ReadIsCurrent, ReqOK, RowMatches, Serial,
     SocketsReleased
<1> QED BY <1>1, <1>2, <1>3, <1>4

\* the loop returns when no handler is left.
LEMMA ServeReturnsStep ==
  ASSUME IInv, NEW i \in Inst, ServeReturns(i)
  PROVE  IInv'
<1> USE ListenerSetAssumption DEF IInv
<1>1. TypeOK'
  BY DEF ServeReturns, TypeOK, history
<1>2. Waited'
  BY DEF ServeReturns, InFlight, Waited
<1>3. Drained'
  BY DEF ServeReturns, At, Drained
<1>4. ReqOK' /\ Bound' /\ SocketsReleased' /\ Serial' /\ ReadIsCurrent' /\ RowMatches'
  BY DEF Active, At, Bound, ReadIsCurrent, ReqOK, RowMatches, Serial, ServeReturns,
     SocketsReleased, history
<1> QED BY <1>1, <1>2, <1>3, <1>4

\* the watcher closes the socket of a cancelled context.
LEMMA WatcherClosesStep ==
  ASSUME IInv, NEW i \in Inst, WatcherCloses(i)
  PROVE  IInv'
<1> USE ListenerSetAssumption DEF IInv
<1>1. TypeOK'
  BY DEF WatcherCloses, TypeOK, history
<1>2. Bound'
  BY DEF WatcherCloses, At, Bound
<1>3. SocketsReleased'
  <2> SUFFICES ASSUME NEW j \in Inst, socket'[j] = "open"
               PROVE  \/ j = cur
                      \/ \E r \in Reqs : At(r, "close") /\ req[r].took = j
                      \/ main' = "close" /\ took = j
    BY DEF SocketsReleased, WatcherCloses, At
  <2>1. socket[j] = "open"
    BY DEF WatcherCloses
  <2> QED BY <2>1 DEF SocketsReleased, WatcherCloses
<1>4. ReqOK' /\ Waited' /\ Drained' /\ Serial' /\ ReadIsCurrent' /\ RowMatches'
  BY DEF Active, At, Drained, ReadIsCurrent, ReqOK, RowMatches, Serial, Waited,
     WatcherCloses, history
<1> QED BY <1>1, <1>2, <1>3, <1>4

\* a handler ends.
LEMMA HandshakeEndsStep ==
  ASSUME IInv, NEW c \in Conns, HandshakeEnds(c)
  PROVE  IInv'
<1> USE ListenerSetAssumption DEF IInv
<1>1. TypeOK'
  BY DEF HandshakeEnds, TypeOK, history, proxy
<1>2. Waited'
  BY DEF HandshakeEnds, Waited, proxy
<1>3. ReqOK' /\ Bound' /\ Drained' /\ SocketsReleased' /\ Serial' /\ ReadIsCurrent' /\ RowMatches'
  BY DEF Active, At, Bound, Drained, HandshakeEnds, ReadIsCurrent, ReqOK, RowMatches,
     Serial, SocketsReleased, history, proxy
<1> QED BY <1>1, <1>2, <1>3

\* a handler registers its connection.
LEMMA RegisterStep ==
  ASSUME IInv, NEW c \in Conns, Register(c)
  PROVE  IInv'
<1> USE ListenerSetAssumption DEF IInv
<1>1. TypeOK'
  BY DEF Register, TypeOK, history, proxy
<1>2. Waited'
  BY DEF Register, Waited, proxy
<1>3. ReqOK' /\ Bound' /\ Drained' /\ SocketsReleased' /\ Serial' /\ ReadIsCurrent' /\ RowMatches'
  BY DEF Active, At, Bound, Drained, ReadIsCurrent, Register, ReqOK, RowMatches, Serial,
     SocketsReleased, history, proxy
<1> QED BY <1>1, <1>2, <1>3

\* a tunnel ends.
LEMMA PeerEndsStep ==
  ASSUME IInv, NEW c \in Conns, PeerEnds(c)
  PROVE  IInv'
<1> USE ListenerSetAssumption DEF IInv
<1>1. TypeOK'
  BY DEF PeerEnds, TypeOK, history, proxy
<1>2. Waited'
  BY DEF PeerEnds, Waited, proxy
<1>3. ReqOK' /\ Bound' /\ Drained' /\ SocketsReleased' /\ Serial' /\ ReadIsCurrent' /\ RowMatches'
  BY DEF Active, At, Bound, Drained, PeerEnds, ReadIsCurrent, ReqOK, RowMatches, Serial,
     SocketsReleased, history, proxy
<1> QED BY <1>1, <1>2, <1>3

\* a cut tunnel ends.
LEMMA TornDownStep ==
  ASSUME IInv, NEW c \in Conns, TornDown(c)
  PROVE  IInv'
<1> USE ListenerSetAssumption DEF IInv
<1>1. TypeOK'
  BY DEF TornDown, TypeOK, history, proxy
<1>2. Waited'
  BY DEF TornDown, Waited, proxy
<1>3. ReqOK' /\ Bound' /\ Drained' /\ SocketsReleased' /\ Serial' /\ ReadIsCurrent' /\ RowMatches'
  BY DEF Active, At, Bound, Drained, ReadIsCurrent, ReqOK, RowMatches, Serial,
     SocketsReleased, TornDown, history, proxy
<1> QED BY <1>1, <1>2, <1>3

\* the context is cancelled.
LEMMA ShutdownStep ==
  ASSUME IInv, Shutdown
  PROVE  IInv'
<1> USE ListenerSetAssumption DEF IInv
<1>1. TypeOK'
  BY DEF Shutdown, TypeOK, history, proxy
<1>2. SocketsReleased'
  BY DEF Shutdown, At, SocketsReleased, proxy
<1>3. ReqOK' /\ Bound' /\ Waited' /\ Drained' /\ Serial' /\ ReadIsCurrent' /\ RowMatches'
  BY DEF Active, At, Bound, Drained, ReadIsCurrent, ReqOK, RowMatches, Serial, Shutdown,
     Waited, history, proxy
<1> QED BY <1>1, <1>2, <1>3

\* the registered connections are cut; their handlers still run.
LEMMA HammerStep ==
  ASSUME IInv, Hammer
  PROVE  IInv'
<1> USE ListenerSetAssumption DEF IInv
<1>1. TypeOK'
  BY DEF Hammer, TypeOK, history, proxy
<1>2. Waited'
  BY DEF Hammer, Waited, proxy
<1>3. SocketsReleased'
  BY DEF Hammer, At, SocketsReleased, proxy
<1>4. ReqOK' /\ Bound' /\ Drained' /\ Serial' /\ ReadIsCurrent' /\ RowMatches'
  BY DEF Active, At, Bound, Drained, Hammer, ReadIsCurrent, ReqOK, RowMatches, Serial,
     history, proxy
<1> QED BY <1>1, <1>2, <1>3, <1>4

\* the shutdown takes the current instance.
LEMMA MainTakesStep ==
  ASSUME IInv, MainTakes
  PROVE  IInv'
<1> USE ListenerSetAssumption DEF IInv
<1>1. TypeOK'
  BY DEF MainTakes, TypeOK, history
<1>2. Bound'
  BY DEF MainTakes, At, Bound
<1>3. SocketsReleased'
  BY DEF MainTakes, At, SocketsReleased
<1>4. ReadIsCurrent'
  BY DEF MainTakes, At, ReadIsCurrent, history
<1>5. RowMatches'
  BY DEF MainTakes, RowMatches
<1>6. ReqOK' /\ Waited' /\ Drained' /\ Serial'
  BY DEF Active, At, Drained, MainTakes, ReqOK, Serial, Waited, history
<1> QED BY <1>1, <1>2, <1>3, <1>4, <1>5, <1>6

\* the shutdown closes the socket of the instance it has taken.
LEMMA MainClosesStep ==
  ASSUME IInv, MainCloses
  PROVE  IInv'
<1> USE ListenerSetAssumption DEF IInv
<1>1. TypeOK'
  BY DEF MainCloses, TypeOK, history
<1>2. Bound'
  BY DEF MainCloses, At, Bound
<1>3. SocketsReleased'
  <2> SUFFICES ASSUME NEW j \in Inst, socket'[j] = "open"
               PROVE  \/ j = cur
                      \/ \E r \in Reqs : At(r, "close") /\ req[r].took = j
                      \/ main' = "close" /\ took = j
    BY DEF SocketsReleased, MainCloses, At
  <2>1. socket[j] = "open" /\ j # took
    BY DEF MainCloses, TypeOK, Inst
  <2> QED BY <2>1 DEF SocketsReleased
<1>4. ReqOK' /\ Waited' /\ Drained' /\ Serial' /\ ReadIsCurrent' /\ RowMatches'
  BY DEF Active, At, Drained, MainCloses, ReadIsCurrent, ReqOK, RowMatches, Serial, Waited,
     history
<1> QED BY <1>1, <1>2, <1>3, <1>4

\* the process ends with everything in it.
LEMMA MainExitsStep ==
  ASSUME IInv, MainExits
  PROVE  IInv'
<1> USE ListenerSetAssumption DEF IInv
<1>1. TypeOK'
  BY DEF MainExits, Gone, TypeOK, history
<1>2. ReqOK'
  BY DEF MainExits, Gone, Idle, NoReq, ReqOK
<1>3. Bound'
  BY DEF MainExits, Bound, Gone, Idle, Inst, StopReq, TypeOK
<1>4. Waited'
  BY DEF MainExits, Gone, Waited
<1>5. Drained'
  BY DEF MainExits, Drained, Gone, Idle, StopReq
<1>6. SocketsReleased'
  BY DEF MainExits, SocketsReleased
<1>7. Serial'
  BY DEF MainExits, Active, Final, Gone, Idle, Serial
<1>8. ReadIsCurrent'
  BY DEF MainExits, At, Gone, Idle, ReadIsCurrent
<1>9. RowMatches'
  BY DEF MainExits, RowMatches
<1> QED BY <1>1, <1>2, <1>3, <1>4, <1>5, <1>6, <1>7, <1>8, <1>9

\* a boot starts from the row alone.
LEMMA RestartStep ==
  ASSUME IInv, Restart
  PROVE  IInv'
<1> USE ListenerSetAssumption DEF IInv
<1>1. TypeOK'
  <2>1. PICK up \in {FALSE, settings.enabled} : Boots(up) BY DEF Restart, Boots
  <2>2. 1 \in Inst /\ 1 \in 0..MaxInst /\ 0 \in 0..MaxInst BY DEF Inst
  <2>3. /\ cur' \in 0..MaxInst /\ addr' \in [Inst -> Addrs]
        /\ socket' \in [Inst -> {"none", "open", "closed"}]
        /\ serve' \in [Inst -> {"none", "accepting", "draining", "returned"}]
    BY <2>1, <2>2 DEF Boots, BootState, TypeOK
  <2>4. conn' \in [Conns -> [pc : {"idle", "handshake", "live", "cut", "ended"}, of : 0..MaxInst]]
    BY <2>2 DEF Restart, Gone, TypeOK
  <2>5. /\ settings' \in [addr : Addrs, enabled : BOOLEAN] /\ took' \in 0..MaxInst
        /\ main' \in {"up", "grace", "stop", "close", "wait", "exited"}
        /\ failures' \in Nat /\ restarts' \in Nat
    BY <2>2 DEF Restart, TypeOK
  <2>6. overlap' \in BOOLEAN BY DEF Restart
  <2> QED BY <2>2, <2>3, <2>4, <2>5, <2>6 DEF TypeOK
<1>2. ReqOK'
  BY DEF Restart, Gone, Idle, NoReq, ReqOK
<1>3. Bound'
  BY DEF Restart, BootState, Bound, Gone, Idle, Inst, StopReq
<1>4. Waited'
  BY DEF Restart, Gone, Waited
<1>5. Drained'
  BY DEF Restart, Drained, Gone, Idle, StopReq
<1>6. SocketsReleased'
  BY DEF Restart, BootState, SocketsReleased
<1>7. Serial'
  BY DEF Restart, Active, Final, Gone, Idle, Serial
<1>8. ReadIsCurrent'
  BY DEF Restart, At, Gone, Idle, ReadIsCurrent
<1>9. RowMatches'
  <2>1. PICK up \in {FALSE, settings.enabled} : Boots(up) BY DEF Restart, Boots
  <2>2. CASE up
    <3>1. settings.enabled /\ settings' = settings BY <2>2 DEF Restart
    <3>2. cur' = 1 /\ addr'[1] = settings.addr /\ 1 \in Inst
      BY <2>1, <2>2 DEF Boots, BootState, Inst
    <3> QED BY <3>1, <3>2 DEF RowMatches
  <2>3. CASE ~up
    BY <2>1, <2>3 DEF Boots, BootState, RowMatches
  <2> QED BY <2>1, <2>2, <2>3
<1> QED BY <1>1, <1>2, <1>3, <1>4, <1>5, <1>6, <1>7, <1>8, <1>9
-----------------------------------------------------------------------------
\* Every step of the handlers, the accept loops and the shutdown keeps the
\* invariant.
LEMMA StepIInv == IInv /\ [Next]_vars => IInv'
<1> SUFFICES ASSUME IInv, [Next]_vars PROVE IInv'
  OBVIOUS
<1>1. ASSUME NEW r \in Reqs, Receive(r) \/ HandlerStep(r) PROVE IInv'
  BY <1>1, ReceiveStep, LoadStep, StartBindsStep, StartIsRunningStep, StartRefusedStep,
     EnableStep, StopTakesStep, StopClosesStep, StopWaitsStep, DisableStep,
     CheckRunningStep, UpdateStep DEF HandlerStep
<1>2. ASSUME NEW i \in Inst, ServeStep(i) \/ AcceptFails(i) PROVE IInv'
  BY <1>2, AcceptClosedStep, ServeReturnsStep, WatcherClosesStep, AcceptFailsStep DEF
     ServeStep
<1>3. ASSUME NEW i \in Inst, NEW c \in Conns, Accept(i, c) PROVE IInv'
  BY <1>3, AcceptStep
<1>4. ASSUME NEW c \in Conns, HandshakeEnds(c) \/ Register(c) \/ PeerEnds(c) \/ TornDown(c)
      PROVE  IInv'
  BY <1>4, HandshakeEndsStep, RegisterStep, PeerEndsStep, TornDownStep
<1>5. CASE Shutdown \/ MainStep \/ Restart
  BY <1>5, ShutdownStep, HammerStep, MainTakesStep, MainClosesStep, MainExitsStep, RestartStep DEF
     MainStep
<1>6. CASE UNCHANGED vars
  <2> USE <1>6 DEF vars, proxy, history
  <2>1. TypeOK' /\ ReqOK' BY DEF IInv, TypeOK, ReqOK
  <2>2. Bound' /\ Waited' /\ Drained' BY DEF IInv, Bound, Waited, Drained, At
  <2>3. SocketsReleased' BY DEF IInv, SocketsReleased, At
  <2>4. Serial' /\ ReadIsCurrent' /\ RowMatches'
    BY DEF IInv, Serial, ReadIsCurrent, RowMatches, At, Active
  <2> QED BY <2>1, <2>2, <2>3, <2>4 DEF IInv
<1> QED BY <1>1, <1>2, <1>3, <1>4, <1>5, <1>6 DEF Next

\* The inductive invariant holds of every behaviour of the daemon.
THEOREM Invariance == Spec => []IInv
  BY InitIInv, StepIInv, PTL DEF Spec

\* The state keeps its types, and every handler the variables of its step.
THEOREM TypeCorrect == Spec => [](TypeOK /\ ReqOK)
<1>1. IInv => TypeOK /\ ReqOK BY DEF IInv
<1> QED BY <1>1, Invariance, PTL

\* listenerSet.Stop and the shutdown "release the socket fully": an open
\* socket belongs to the current instance, or to one that a Stop has taken
\* and is about to close.
THEOREM OpenSocketsAreOwned == Spec => []SocketsReleased
<1>1. IInv => SocketsReleased BY DEF IInv
<1> QED BY <1>1, Invariance, PTL

\* A stop that has been answered waited for the accept loop, and that for
\* every handler it started: nothing of the instance runs on.
THEOREM AnsweredStopsDrained == Spec => []StopDrains
<1>1. IInv => StopDrains
  <2> SUFFICES ASSUME IInv, NEW r \in Reqs, At(r, "ok"), req[r].kind = "stop", req[r].took # 0
               PROVE  serve[req[r].took] = "returned" /\ InFlight(req[r].took) = {}
    BY DEF StopDrains
  <2>1. req[r] \in StopReq
    BY DEF IInv, ReqOK, At, NoReq, LoadStart, StartReq, LoadSettings, PutReq, TakeStop
  <2>2. serve[req[r].took] = "returned" BY <2>1 DEF IInv, Drained
  <2> QED BY <2>2 DEF IInv, Waited, InFlight
<1> QED BY <1>1, Invariance, PTL

\* While handlers come one at a time, the row that Enable, Disable and
\* UpdateSettings write agrees with the running proxy whenever no request is
\* in progress: a crash there loses nothing that runDaemon would not restore.
THEOREM RowRestores == Spec => []RestartRestores
<1>1. IInv => RestartRestores
  BY DEF IInv, RestartRestores, Quiet, Active, At, Final, RowMatches
<1> QED BY <1>1, Invariance, PTL
=============================================================================
