----------------------------- MODULE ListenerSet -----------------------------
(***************************************************************************)
(* internal/cli.listenerSet and what moves it: the settings row, the       *)
(* handlers behind POST /proxy/start, POST /proxy/stop and PUT /settings,  *)
(* the accept loop of listener.UnifiedProxy with its handlers, and the     *)
(* shutdown sequence at the end of runDaemon.                              *)
(*                                                                         *)
(* Every successful bind makes a new proxy instance, numbered from 1.  The *)
(* mutex of listenerSet is held for one action at a time: Stop closes the  *)
(* socket and waits for the accept loop after releasing it.                *)
(***************************************************************************)
EXTENDS Naturals

CONSTANTS
  Addrs,       \* addresses the settings may name
  Respelled,   \* those a bound socket reports in another form: 0.0.0.0, localhost
  Reqs,        \* requests; each is served once
  Kinds,       \* the handlers this instance exercises
  Conns,       \* client connections; each is opened once
  MaxInst,     \* bound on the proxy instances
  MaxFailures, \* bound on the failures of Accept
  MaxRestarts  \* bound on the crashes and restarts of the daemon

ASSUME ListenerSetAssumption ==
  /\ Respelled \subseteq Addrs
  /\ Kinds \subseteq {"start", "stop", "settings"}
  /\ MaxInst \in Nat \ {0} /\ MaxFailures \in Nat /\ MaxRestarts \in Nat

VARIABLES
  settings,   \* the settings row: proxy_bind and proxy_port, proxy_enabled
  cur,        \* listenerSet.proxy: an instance, 0 when stopped
  addr,       \* per instance: the address it was bound to
  socket,     \* per instance: "none", "open" or "closed"
  serve,      \* per instance: "none", "accepting", "draining" or "returned"
  req,        \* per request: where its handler is
  conn,       \* per connection: where its goroutine is, and of which instance
  main,       \* runDaemon: "up", or where its shutdown is
  took,       \* the instance that the shutdown's Stop took
  overlap,    \* history: were two requests in progress at the same time since the boot?
  failures, restarts

proxy == <<cur, took, addr, socket, serve>>
history == <<overlap, failures, restarts>>
vars == <<settings, proxy, req, conn, main, history>>

Inst == 1..MaxInst
Fresh == {i \in Inst : socket[i] = "none"}
At(r, pc) == req[r].pc = pc
Final == {"idle", "ok", "err"}
Active(r) == req[r].pc \notin Final
Quiet == main = "up" /\ \A r \in Reqs : ~Active(r)
Idle == [pc |-> "idle"]
Step(r, pc) == req' = [req EXCEPT ![r].pc = pc]
InFlight(i) == {c \in Conns : conn[c].of = i /\ conn[c].pc \in {"handshake", "live", "cut"}}

-----------------------------------------------------------------------------
(* listenerSet.Start, under its mutex. *)

\* Bind succeeds: a new instance, and its accept loop.  No two open sockets
\* share an address.
Bind(a) ==
  /\ \A i \in Inst : socket[i] = "open" => addr[i] # a
  /\ \E i \in Fresh :
       /\ \A j \in Fresh : i <= j
       /\ cur' = i
       /\ addr' = [addr EXCEPT ![i] = a]
       /\ socket' = [socket EXCEPT ![i] = "open"]
       /\ serve' = [serve EXCEPT ![i] = "accepting"]
  /\ UNCHANGED took

\* "Already running on this addr": the bound socket's own spelling is what
\* is compared.
SameAddr(a) == addr[cur] = a /\ a \notin Respelled

-----------------------------------------------------------------------------
(* Requests. *)

Receive(r) ==
  /\ At(r, "idle") /\ main # "exited"
  /\ overlap' = (overlap \/ \E q \in Reqs : Active(q))
  /\ \/ /\ "start" \in Kinds /\ req' = [req EXCEPT ![r] = [pc |-> "load", kind |-> "start"]]
     \/ /\ "stop" \in Kinds /\ req' = [req EXCEPT ![r] = [pc |-> "stop", kind |-> "stop"]]
     \/ /\ "settings" \in Kinds
        /\ \E a \in Addrs :
             req' = [req EXCEPT ![r] = [pc |-> "load", kind |-> "settings", new |-> a]]
  /\ UNCHANGED <<settings, proxy, conn, main, failures, restarts>>

\* Both StartProxy and putSettings begin with LoadSettings.
Load(r) ==
  /\ At(r, "load")
  /\ req' = [req EXCEPT ![r] =
       IF @.kind = "start" THEN [pc |-> "start", kind |-> "start", read |-> settings]
       ELSE [pc |-> "check", kind |-> "settings", new |-> @.new, read |-> settings]]
  /\ UNCHANGED <<settings, proxy, conn, main, history>>

StartBinds(r) ==
  /\ At(r, "start") /\ cur = 0
  /\ Bind(req[r].read.addr)
  /\ Step(r, "enable")
  /\ UNCHANGED <<settings, conn, main, history>>

StartIsRunning(r) ==
  /\ At(r, "start") /\ cur # 0 /\ SameAddr(req[r].read.addr)
  /\ Step(r, "enable")
  /\ UNCHANGED <<settings, proxy, conn, main, history>>

\* The bind fails (somebody holds the port), or the proxy runs elsewhere.
StartRefused(r) ==
  /\ At(r, "start")
  /\ cur # 0 => ~SameAddr(req[r].read.addr)
  /\ Step(r, "err")
  /\ UNCHANGED <<settings, proxy, conn, main, history>>

Enable(r) ==
  /\ At(r, "enable")
  /\ settings' = [settings EXCEPT !.enabled = TRUE]
  /\ Step(r, "ok")
  /\ UNCHANGED <<proxy, conn, main, history>>

\* listenerSet.Stop under its mutex: take the instance and forget it.
StopTakes(r) ==
  /\ At(r, "stop")
  /\ cur' = 0
  /\ req' = [req EXCEPT ![r] = [pc |-> IF cur = 0 THEN "disable" ELSE "close",
                                kind |-> "stop", took |-> cur]]
  /\ UNCHANGED <<settings, took, addr, socket, serve, conn, main, history>>

\* Mutant: the field is read again after the unlock, when it is nil.
StopCloses_Current(r) ==
  /\ At(r, "close")
  /\ socket' = IF cur = 0 THEN socket ELSE [socket EXCEPT ![cur] = "closed"]
  /\ Step(r, "wait")
  /\ UNCHANGED <<settings, cur, took, addr, serve, conn, main, history>>

StopCloses(r) ==
  /\ At(r, "close")
  /\ socket' = [socket EXCEPT ![req[r].took] = "closed"]
  /\ Step(r, "wait")
  /\ UNCHANGED <<settings, cur, took, addr, serve, conn, main, history>>

\* "<-done": Serve has returned.
StopWaits(r) ==
  /\ At(r, "wait") /\ serve[req[r].took] = "returned"
  /\ Step(r, "disable")
  /\ UNCHANGED <<settings, proxy, conn, main, history>>

Disable(r) ==
  /\ At(r, "disable")
  /\ settings' = [settings EXCEPT !.enabled = FALSE]
  /\ Step(r, "ok")
  /\ UNCHANGED <<proxy, conn, main, history>>

\* putSettings: a new address is refused while the proxy is running ...
CheckRunning(r) ==
  /\ At(r, "check")
  /\ Step(r, IF req[r].new # req[r].read.addr /\ cur # 0 THEN "err" ELSE "update")
  /\ UNCHANGED <<settings, proxy, conn, main, history>>

\* Mutant: proxy_enabled is taken from the body, which does not carry it.
Update_FromBody(r) ==
  /\ At(r, "update")
  /\ settings' = [addr |-> req[r].new, enabled |-> FALSE]
  /\ Step(r, "ok")
  /\ UNCHANGED <<proxy, conn, main, history>>

\* ... and the whole row is written, proxy_enabled as it was read.
Update(r) ==
  /\ At(r, "update")
  /\ settings' = [addr |-> req[r].new, enabled |-> req[r].read.enabled]
  /\ Step(r, "ok")
  /\ UNCHANGED <<proxy, conn, main, history>>

-----------------------------------------------------------------------------
(* UnifiedProxy.Serve and its handlers. *)

Accept(i, c) ==
  /\ serve[i] = "accepting" /\ socket[i] = "open" /\ conn[c].pc = "idle"
  /\ conn' = [conn EXCEPT ![c] = [pc |-> "handshake", of |-> i]]
  /\ UNCHANGED <<settings, proxy, req, main, history>>

\* Accept reports that the socket was closed.
AcceptClosed(i) ==
  /\ serve[i] = "accepting" /\ socket[i] = "closed"
  /\ serve' = [serve EXCEPT ![i] = "draining"]
  /\ UNCHANGED <<settings, cur, took, addr, socket, req, conn, main, history>>

\* Accept fails for another reason (out of file descriptors): the loop ends
\* and leaves the socket open.
AcceptFails(i) ==
  /\ serve[i] = "accepting" /\ socket[i] = "open" /\ failures < MaxFailures
  /\ failures' = failures + 1
  /\ serve' = [serve EXCEPT ![i] = "draining"]
  /\ UNCHANGED <<settings, cur, took, addr, socket, req, conn, main, overlap, restarts>>

\* Mutant: Serve returns without wg.Wait.
ServeReturns_NoWait(i) ==
  /\ serve[i] = "draining"
  /\ serve' = [serve EXCEPT ![i] = "returned"]
  /\ UNCHANGED <<settings, cur, took, addr, socket, req, conn, main, history>>

\* wg.Wait, then done is closed.
ServeReturns(i) ==
  /\ serve[i] = "draining" /\ InFlight(i) = {}
  /\ serve' = [serve EXCEPT ![i] = "returned"]
  /\ UNCHANGED <<settings, cur, took, addr, socket, req, conn, main, history>>

\* The watcher of Serve: the daemon's context is cancelled.
WatcherCloses(i) ==
  /\ main # "up" /\ socket[i] = "open" /\ serve[i] # "returned"
  /\ socket' = [socket EXCEPT ![i] = "closed"]
  /\ UNCHANGED <<settings, cur, took, addr, serve, req, conn, main, history>>

\* Denied, not authenticated, or out of time before it registers.
HandshakeEnds(c) ==
  /\ conn[c].pc = "handshake"
  /\ conn' = [conn EXCEPT ![c].pc = "ended"]
  /\ UNCHANGED <<settings, proxy, req, main, history>>

Register(c) ==
  /\ conn[c].pc = "handshake"
  /\ conn' = [conn EXCEPT ![c].pc = "live"]
  /\ UNCHANGED <<settings, proxy, req, main, history>>

PeerEnds(c) ==
  /\ conn[c].pc = "live"
  /\ conn' = [conn EXCEPT ![c].pc = "ended"]
  /\ UNCHANGED <<settings, proxy, req, main, history>>

TornDown(c) ==
  /\ conn[c].pc = "cut"
  /\ conn' = [conn EXCEPT ![c].pc = "ended"]
  /\ UNCHANGED <<settings, proxy, req, main, history>>

-----------------------------------------------------------------------------
(* The end of runDaemon. *)

\* SIGTERM, SIGINT or POST /shutdown cancels the daemon's context.
Shutdown ==
  /\ main = "up"
  /\ main' = "grace"
  /\ UNCHANGED <<settings, proxy, req, conn, history>>

\* Mutant: the connections are not cut.
Hammer_Skipped ==
  /\ main = "grace"
  /\ main' = "stop"
  /\ UNCHANGED <<settings, proxy, req, conn, history>>

\* The registry is empty or the 5 s are over: cut every registered conn.
Hammer ==
  /\ main = "grace"
  /\ conn' = [c \in Conns |-> IF conn[c].pc = "live" THEN [conn[c] EXCEPT !.pc = "cut"]
                              ELSE conn[c]]
  /\ main' = "stop"
  /\ UNCHANGED <<settings, proxy, req, history>>

\* lset.Stop: take the instance, close its socket, wait for its accept loop.
MainTakes ==
  /\ main = "stop"
  /\ cur' = 0 /\ took' = cur
  /\ main' = "close"
  /\ UNCHANGED <<settings, addr, socket, serve, req, conn, history>>

MainCloses ==
  /\ main = "close"
  /\ socket' = IF took = 0 THEN socket ELSE [socket EXCEPT ![took] = "closed"]
  /\ main' = "wait"
  /\ UNCHANGED <<settings, cur, took, addr, serve, req, conn, history>>

\* The process ends, and every goroutine with it.
Gone ==
  /\ req' = [r \in Reqs |-> IF At(r, "idle") THEN Idle ELSE [pc |-> "err"]]
  /\ conn' = [c \in Conns |-> IF conn[c].pc = "idle" THEN conn[c] ELSE [pc |-> "ended", of |-> 0]]

MainExits ==
  /\ main = "wait" /\ (took # 0 => serve[took] = "returned")
  /\ main' = "exited" /\ cur' = 0
  /\ socket' = [i \in Inst |-> IF socket[i] = "open" THEN "closed" ELSE socket[i]]
  /\ serve' = [i \in Inst |-> IF serve[i] = "none" THEN "none" ELSE "returned"]
  /\ Gone
  /\ UNCHANGED <<settings, took, addr, history>>

\* runDaemon starts: with proxy_enabled the proxy is started before any
\* request is served, and a failure to bind is logged and ignored.
BootState(s, up) ==
  [cur |-> IF up THEN 1 ELSE 0,
   addr |-> [i \in Inst |-> s.addr],
   socket |-> [i \in Inst |-> IF up /\ i = 1 THEN "open" ELSE "none"],
   serve |-> [i \in Inst |-> IF up /\ i = 1 THEN "accepting" ELSE "none"]]

\* A crash, or a new start after an orderly exit.
Restart ==
  /\ restarts < MaxRestarts
  /\ restarts' = restarts + 1
  /\ \E up \in {FALSE, settings.enabled} :
       LET b == BootState(settings, up)
       IN  cur' = b.cur /\ addr' = b.addr /\ socket' = b.socket /\ serve' = b.serve
  /\ took' = 0 /\ main' = "up" /\ overlap' = FALSE
  /\ Gone
  /\ UNCHANGED <<settings, failures>>

Init ==
  /\ settings \in [addr : Addrs, enabled : BOOLEAN]
  /\ \E up \in {FALSE, settings.enabled} :
       LET b == BootState(settings, up)
       IN  cur = b.cur /\ addr = b.addr /\ socket = b.socket /\ serve = b.serve
  /\ took = 0 /\ main = "up"
  /\ req = [r \in Reqs |-> Idle]
  /\ conn = [c \in Conns |-> [pc |-> "idle", of |-> 0]]
  /\ overlap = FALSE /\ failures = 0 /\ restarts = 0

HandlerStep(r) ==
  \/ Load(r) \/ StartBinds(r) \/ StartIsRunning(r) \/ StartRefused(r) \/ Enable(r)
  \/ StopTakes(r) \/ StopCloses(r) \/ StopWaits(r) \/ Disable(r)
  \/ CheckRunning(r) \/ Update(r)

ServeStep(i) == AcceptClosed(i) \/ ServeReturns(i) \/ WatcherCloses(i)
MainStep == Hammer \/ MainTakes \/ MainCloses \/ MainExits

Next ==
  \/ \E r \in Reqs : Receive(r) \/ HandlerStep(r)
  \/ \E i \in Inst : ServeStep(i) \/ AcceptFails(i) \/ \E c \in Conns : Accept(i, c)
  \/ \E c \in Conns : HandshakeEnds(c) \/ Register(c) \/ PeerEnds(c) \/ TornDown(c)
  \/ Shutdown \/ MainStep \/ Restart

Spec == Init /\ [][Next]_vars

\* The daemon's own goroutines run on; a handshake has deadlines of 10 s, a
\* cancelled tunnel ends; a tunnel its peers keep open may last for ever.
Fairness ==
  /\ WF_vars(MainStep)
  /\ \A i \in Inst : WF_vars(ServeStep(i))
  /\ \A c \in Conns : WF_vars(HandshakeEnds(c) \/ Register(c)) /\ WF_vars(TornDown(c))

FairSpec == Spec /\ Fairness

-----------------------------------------------------------------------------
(* Properties. *)

\* The type invariant.
TypeOK ==
  /\ settings \in [addr : Addrs, enabled : BOOLEAN]
  /\ cur \in 0..MaxInst /\ took \in 0..MaxInst
  /\ addr \in [Inst -> Addrs]
  /\ socket \in [Inst -> {"none", "open", "closed"}]
  /\ serve \in [Inst -> {"none", "accepting", "draining", "returned"}]
  /\ conn \in [Conns -> [pc : {"idle", "handshake", "live", "cut", "ended"}, of : 0..MaxInst]]
  /\ main \in {"up", "grace", "stop", "close", "wait", "exited"}
  /\ overlap \in BOOLEAN /\ failures \in Nat /\ restarts \in Nat

\* Stop "releases the socket fully", however starts, stops, failing accept
\* loops and the shutdown interleave: an open socket is that of the current
\* instance or of one somebody has taken and is about to close.
SocketsReleased ==
  \A i \in Inst : socket[i] = "open" =>
    \/ i = cur
    \/ \E r \in Reqs : At(r, "close") /\ req[r].took = i
    \/ main = "close" /\ took = i

\* A stop that has been answered left nothing of the instance behind: no
\* accept loop, no handler, and none appears later.
StopDrains ==
  \A r \in Reqs : At(r, "ok") /\ req[r].kind = "stop" /\ req[r].took # 0 =>
    serve[req[r].took] = "returned" /\ InFlight(req[r].took) = {}

\* Handlers one at a time, with a crash between any two of their steps: a
\* restart would bring back the proxy that is running, where it is running.
RestartRestores ==
  Quiet /\ cur # 0 /\ ~overlap => settings.enabled /\ settings.addr = addr[cur]

\* A tunnel that is open when the shutdown begins ends, whatever its peers do.
ShutdownEndsTunnels ==
  \A c \in Conns : (main = "grace" /\ conn[c].pc = "live") ~> (conn[c].pc = "ended")

-----------------------------------------------------------------------------
(* What the repository's comments say and the code does not do. *)

\* listenerset.go:29 "running is true iff proxy is bound and has a Serve
\* goroutine alive".
RunningIsServing ==
  Quiet /\ cur # 0 => socket[cur] = "open" /\ serve[cur] = "accepting"

\* server.go:759 "proxy_enabled is intentionally not honored here": once the
\* requests are done, a proxy that was started is enabled.
RunningIsEnabled == Quiet /\ cur # 0 => settings.enabled

\* listenerset.go:22 "settings are not editable while running".
BoundAsConfigured == Quiet /\ cur # 0 => settings.addr = addr[cur]

\* listenerset.go:37 "Idempotent on the (running && same addr) case".
StartIdempotent ==
  [][\A r \in Reqs :
       At(r, "start") /\ cur # 0 /\ addr[cur] = req[r].read.addr => req'[r].pc # "err"]_req

\* run.go:408 "5s grace, then force-close remaining conns": the shutdown
\* comes to its end.
ShutdownEnds == (main # "up") ~> (main = "exited")
=============================================================================
