-------------------------------- MODULE Hub ---------------------------------
(***************************************************************************)
(* internal/ws.Hub: events fanned out to WebSocket clients.  Broadcast and *)
(* Close run under Hub.mu; each client c has a bounded channel and a pump  *)
(* goroutine (ServeHTTP) that ranges over it and writes to the socket      *)
(* outside the lock.  Events are numbered in the order of their Broadcast. *)
(* Its specification is HubSpec: nothing here has the name of a definition *)
(* of Extension, so that one module can extend both.                       *)
(***************************************************************************)
EXTENDS Naturals, Sequences

CONSTANTS
  Clients,    \* WebSocket clients; each connects once
  Capacity,   \* buffer of a client's channel (64)
  MaxEvents   \* bound on the events broadcast

ASSUME HubAssumption == Capacity \in Nat \ {0} /\ MaxEvents \in Nat

VARIABLES
  hubOpen,   \* has Close not run yet?
  sent,      \* number of the last event broadcast
  registered,\* Hub.clients
  buf,       \* per client: the events in its channel
  closed,    \* per client: is its channel closed?
  pump,      \* per client: where its pump is
  writing,   \* per client: the event its pump is writing, or 0
  socket,    \* per client: "open", "gone" (the peer left), "shut" (by us)
  joined,    \* history: the last event before the client was registered
  received   \* history: the events its peer was sent

hub == <<hubOpen, sent, registered>>
chan == <<buf, closed>>
hist == <<joined, received>>
hubVars == <<hub, chan, pump, writing, socket, hist>>

-----------------------------------------------------------------------------
\* Upgrade, make the channel and register it.
Connect(c) ==
  /\ hubOpen /\ pump[c] = "none"
  /\ registered' = registered \cup {c}
  /\ pump' = [pump EXCEPT ![c] = "range"]
  /\ socket' = [socket EXCEPT ![c] = "open"]
  /\ joined' = [joined EXCEPT ![c] = sent]
  /\ UNCHANGED <<hubOpen, sent, chan, writing, received>>

Full(c) == Len(buf[c]) = Capacity

\* Mutant: an event that does not fit is dropped instead of the client.
Broadcast_DropsEvent ==
  /\ hubOpen /\ sent < MaxEvents
  /\ sent' = sent + 1
  /\ buf' = [c \in Clients |->
               IF c \in registered /\ ~Full(c) THEN Append(buf[c], sent + 1) ELSE buf[c]]
  /\ UNCHANGED <<hubOpen, registered, closed, pump, writing, socket, hist>>

\* Mutant: the slow client's channel is closed but stays in the map.
Broadcast_KeepsClient ==
  /\ hubOpen /\ sent < MaxEvents
  /\ sent' = sent + 1
  /\ buf' = [c \in Clients |->
               IF c \in registered /\ ~Full(c) THEN Append(buf[c], sent + 1) ELSE buf[c]]
  /\ closed' = [c \in Clients |-> closed[c] \/ (c \in registered /\ Full(c))]
  /\ UNCHANGED <<hubOpen, registered, pump, writing, socket, hist>>

\* Mutant: the slow client is removed but its channel stays open.
Broadcast_NoClose ==
  /\ hubOpen /\ sent < MaxEvents
  /\ sent' = sent + 1
  /\ buf' = [c \in Clients |->
               IF c \in registered /\ ~Full(c) THEN Append(buf[c], sent + 1) ELSE buf[c]]
  /\ registered' = {c \in registered : ~Full(c)}
  /\ UNCHANGED <<hubOpen, closed, pump, writing, socket, hist>>

\* Broadcast: queue the event for every client; a client whose channel is
\* full is dropped.
Broadcast ==
  /\ hubOpen /\ sent < MaxEvents
  /\ sent' = sent + 1
  /\ buf' = [c \in Clients |->
               IF c \in registered /\ ~Full(c) THEN Append(buf[c], sent + 1) ELSE buf[c]]
  /\ closed' = [c \in Clients |-> closed[c] \/ (c \in registered /\ Full(c))]
  /\ registered' = {c \in registered : ~Full(c)}
  /\ UNCHANGED <<hubOpen, pump, writing, socket, hist>>

\* The pump takes the next event, or finds the channel closed and drained.
Receive(c) ==
  /\ pump[c] = "range" /\ buf[c] # <<>>
  /\ writing' = [writing EXCEPT ![c] = Head(buf[c])]
  /\ buf' = [buf EXCEPT ![c] = Tail(@)]
  /\ pump' = [pump EXCEPT ![c] = "write"]
  /\ UNCHANGED <<hub, closed, socket, hist>>

RangeEnds(c) ==
  /\ pump[c] = "range" /\ buf[c] = <<>> /\ closed[c]
  /\ pump' = [pump EXCEPT ![c] = "cleanup"]
  /\ UNCHANGED <<hub, chan, writing, socket, hist>>

\* WriteJSON returns without error; the kernel may take the bytes although
\* the peer is gone.
WriteDone(c) ==
  /\ pump[c] = "write" /\ socket[c] # "shut"
  /\ received' = [received EXCEPT ![c] =
                    IF socket[c] = "open" THEN Append(@, writing[c]) ELSE @]
  /\ writing' = [writing EXCEPT ![c] = 0]
  /\ pump' = [pump EXCEPT ![c] = "range"]
  /\ UNCHANGED <<hub, chan, socket, joined>>

\* ... or fails: the socket is closed, the peer gone or stalled for 5 s.
WriteFails(c) ==
  /\ pump[c] = "write"
  /\ writing' = [writing EXCEPT ![c] = 0]
  /\ pump' = [pump EXCEPT ![c] = "cleanup"]
  /\ UNCHANGED <<hub, chan, socket, hist>>

\* "select { case <-ch: default: close(ch) }": closes only an empty channel;
\* a buffered event is consumed in its place.
TakeOrClose(S) ==
  /\ buf' = [c \in Clients |-> IF c \in S /\ buf[c] # <<>> THEN Tail(buf[c]) ELSE buf[c]]
  /\ closed' = [c \in Clients |-> closed[c] \/ (c \in S /\ buf[c] = <<>>)]

\* The pump's deferred function.
Cleanup(c) ==
  /\ pump[c] = "cleanup"
  /\ registered' = registered \ {c}
  /\ TakeOrClose({c} \cap registered)
  /\ socket' = [socket EXCEPT ![c] = "shut"]
  /\ pump' = [pump EXCEPT ![c] = "ended"]
  /\ UNCHANGED <<hubOpen, sent, writing, hist>>

\* The peer leaves; the reader goroutine ends and tells nobody.
PeerLeaves(c) ==
  /\ socket[c] = "open"
  /\ socket' = [socket EXCEPT ![c] = "gone"]
  /\ UNCHANGED <<hub, chan, pump, writing, hist>>

\* Hub.Close, when runDaemon returns.
Close ==
  /\ hubOpen
  /\ hubOpen' = FALSE
  /\ registered' = {}
  /\ TakeOrClose(registered)
  /\ socket' = [c \in Clients |-> IF c \in registered THEN "shut" ELSE socket[c]]
  /\ UNCHANGED <<sent, pump, writing, hist>>

HubInit ==
  /\ hubOpen = TRUE /\ sent = 0 /\ registered = {}
  /\ buf = [c \in Clients |-> <<>>] /\ closed = [c \in Clients |-> FALSE]
  /\ pump = [c \in Clients |-> "none"] /\ writing = [c \in Clients |-> 0]
  /\ socket = [c \in Clients |-> "none"]
  /\ joined = [c \in Clients |-> 0] /\ received = [c \in Clients |-> <<>>]

PumpStep(c) == Receive(c) \/ RangeEnds(c) \/ WriteDone(c) \/ WriteFails(c) \/ Cleanup(c)

HubNext ==
  \/ Broadcast \/ Close
  \/ \E c \in Clients : Connect(c) \/ PeerLeaves(c) \/ PumpStep(c)

HubSpec == HubInit /\ [][HubNext]_hubVars

\* A pump that can go on does: its write has a deadline of 5 s.
Fairness == \A c \in Clients : WF_hubVars(PumpStep(c))
FairSpec == HubSpec /\ Fairness

-----------------------------------------------------------------------------
(* Properties. *)

\* The type invariant.
HubTypeOK ==
  /\ hubOpen \in BOOLEAN /\ sent \in Nat /\ registered \subseteq Clients
  /\ buf \in [Clients -> Seq(Nat)] /\ closed \in [Clients -> BOOLEAN]
  /\ pump \in [Clients -> {"none", "range", "write", "cleanup", "ended"}]
  /\ writing \in [Clients -> Nat]
  /\ socket \in [Clients -> {"none", "open", "gone", "shut"}]
  /\ joined \in [Clients -> Nat] /\ received \in [Clients -> Seq(Nat)]

\* A registered channel is open: Broadcast never sends on a closed channel
\* and nobody closes one twice; either would panic the daemon.
RegisteredIsOpen == \A c \in registered : ~closed[c]

\* A client misses no event while it is served: what it received, what is
\* being written and what is buffered continue the event it joined at
\* without a gap, until its pump gives up as a whole.
Served(c) == socket[c] = "open" /\ pump[c] \in {"range", "write"}
Stream(c) ==
  IF Served(c)
  THEN received[c] \o (IF writing[c] = 0 THEN <<>> ELSE <<writing[c]>>) \o buf[c]
  ELSE received[c]
NoGap == \A c \in Clients : \A i \in DOMAIN Stream(c) : Stream(c)[i] = joined[c] + i

\* A client dropped as slow is let go: its pump drains what is buffered,
\* finds the channel closed and ends.
DroppedClientsEnd ==
  \A c \in Clients : (pump[c] = "range" /\ c \notin registered /\ hubOpen) ~> (pump[c] = "ended")

\* hub.go:114 "Close shuts down all subscribers".
CloseEndsAll == \A c \in Clients : (pump[c] # "none" /\ ~hubOpen) ~> (pump[c] = "ended")
=============================================================================
