---------------------------- MODULE Tunnel_proofs ----------------------------
(***************************************************************************)
(* Theorems about Tunnel, for every set of protocols and any amount of     *)
(* data: types, nothing is left by a handler that has returned, an open    *)
(* connection to an upstream is listed, and the connection is a Pipe.      *)
(*                                                                         *)
(* That the pieces delivered are an unbroken run in order is a matter of   *)
(* positions in the stream: while a copy may still go on, what was read of *)
(* it is what was lost, what was delivered and the piece in the copy's     *)
(* hand, and nothing else (Streamed); a copy is never started twice.  What *)
(* is left behind, and what is listed, depends on where the handler is:    *)
(* SocketsKnown and TasksKnown say what it may hold at each of its places. *)
(***************************************************************************)
EXTENDS Tunnel, TLAPS

-----------------------------------------------------------------------------
(* The invariant.  The first five parts are TypeOK, variable by variable.  *)

ControlTyped ==
  /\ front \in Fronts /\ hop \in Hops
  /\ pc \in {"gate", "head", "auth", "request", "register", "dial", "tls", "handshake",
             "failed", "reply", "bridge", "send", "answer", "unwatch", "close", "leave", "done"}
  /\ ctx \in BOOLEAN /\ registered \in BOOLEAN /\ woken \in BOOLEAN

SocketsTyped ==
  /\ sock \in [Sides -> {"none", "open", "closed"}]
  /\ past \in [Sides -> {"no", "read", "both"}]

TasksTyped == task \in [Copies \cup Helpers -> {"off", "read", "write", "armed", "ended"}]

PeersTyped ==
  /\ peer \in [Sides -> {"away", "on", "fin", "rst"}]
  /\ reading \in [Sides -> BOOLEAN]

DataTyped ==
  /\ sent \in [Sides -> 0..MaxData] /\ taken \in [Sides -> 0..MaxData]
  /\ lost \in [Sides -> 0..MaxData] /\ hand \in [Sides -> 0..MaxData]
  /\ got \in [Sides -> Seq(1..MaxData)]

\* What was read of a stream, as long as its copy has not ended: the pieces that
\* were lost, those delivered, and the one that the copy is writing.
Streamed == \A s \in Sides :
  /\ lost[s] <= taken[s] /\ taken[s] <= sent[s]
  /\ task[s] \in {"off", "read"} => taken[s] = Delivered(s)
  /\ task[s] = "write" => taken[s] = Delivered(s) + 1 /\ hand[s] = taken[s]

\* Where each socket may be open, and where the registry lists them.
Unlisted == {"gate", "head", "auth", "request", "register"}
SocketsKnown ==
  /\ pc \in Unlisted \cup {"dial"} => sock["origin"] = "none"
  /\ pc = "failed" => sock["origin"] # "open"
  /\ pc \in {"leave", "done"} => sock["client"] # "open" /\ sock["origin"] # "open"
  /\ registered <=> pc \notin Unlisted \cup {"done"}

\* Where each goroutine may be running, and where no copy has been started yet.
Fresh == {"gate", "head", "auth", "request", "register", "dial", "tls", "handshake",
          "failed", "reply"}
TasksKnown ==
  /\ pc \in Fresh => task["client"] = "off"
  /\ pc \in Fresh \cup {"send"} => task["origin"] = "off"
  /\ task["client"] \in {"off", "ended"} \/ pc \in {"bridge", "send"}
  /\ task["origin"] \in {"off", "ended"} \/ pc \in {"bridge", "answer"}
  /\ task["watch"] \in {"off", "ended"} \/ pc \in {"answer", "unwatch"}
  /\ task["watch"] = "off" \/ task["client"] = "ended"

IInv ==
  /\ ControlTyped /\ SocketsTyped /\ TasksTyped /\ PeersTyped /\ DataTyped
  /\ Streamed /\ SocketsKnown /\ TasksKnown

\* The parts are the type invariant.
LEMMA TypesAreParts ==
  TypeOK <=> ControlTyped /\ SocketsTyped /\ TasksTyped /\ PeersTyped /\ DataTyped
  BY DEF TypeOK, ControlTyped, SocketsTyped, TasksTyped, PeersTyped, DataTyped

-----------------------------------------------------------------------------
(* The streams.                                                            *)

\* Reading a protocol head moves the position in one stream and the loss in it
\* by as much.
LEMMA HeadReads ==
  ASSUME IInv, NEW s \in Sides, NEW buffered \in BOOLEAN, ReadHeadOf(s, buffered)
  PROVE  /\ DataTyped' /\ UNCHANGED <<sent, hand, got>>
         /\ \A t \in Sides \ {s} : taken'[t] = taken[t] /\ lost'[t] = lost[t]
         /\ taken'[s] - lost'[s] = taken[s] - lost[s]
         /\ lost[s] <= lost'[s] /\ lost'[s] <= taken'[s] /\ taken'[s] <= sent[s]
<1>1. PICK n \in 0..(IF buffered THEN Unread(s) ELSE 0) :
        /\ taken' = [taken EXCEPT ![s] = @ + n]
        /\ lost' = [lost EXCEPT ![s] = @ + n]
  BY DEF ReadHeadOf
<1>2. UNCHANGED <<sent, hand, got>>
  BY DEF ReadHeadOf
<1>3. /\ sent[s] \in 0..MaxData /\ taken[s] \in 0..MaxData /\ lost[s] \in 0..MaxData
      /\ lost[s] <= taken[s] /\ taken[s] <= sent[s] /\ MaxData \in Nat
  BY TunnelAssumption DEF IInv, DataTyped, Streamed
<1>4. n \in Nat /\ taken[s] + n <= sent[s] /\ lost[s] + n <= taken[s] + n
  BY <1>1, <1>3 DEF Unread
<1>5. taken[s] + n \in 0..MaxData /\ lost[s] + n \in 0..MaxData
  BY <1>3, <1>4
<1>6. taken' \in [Sides -> 0..MaxData] /\ lost' \in [Sides -> 0..MaxData]
  BY <1>1, <1>5 DEF IInv, DataTyped
<1>7. taken'[s] = taken[s] + n /\ lost'[s] = lost[s] + n
  BY <1>1 DEF IInv, DataTyped
<1>8. \A t \in Sides \ {s} : taken'[t] = taken[t] /\ lost'[t] = lost[t]
  BY <1>1 DEF IInv, DataTyped
<1>9. DataTyped'
  BY <1>2, <1>6 DEF IInv, DataTyped
<1>10. /\ taken'[s] - lost'[s] = taken[s] - lost[s]
       /\ lost[s] <= lost'[s] /\ lost'[s] <= taken'[s] /\ taken'[s] <= sent[s]
  BY <1>3, <1>4, <1>7
<1> QED
  BY <1>2, <1>8, <1>9, <1>10

\* A step that reads at most a head keeps the streams, if it starts only copies
\* that were never started, and none is writing of whose stream it reads the head.
LEMMA StreamsKept ==
  ASSUME IInv, NEW s \in Sides, NEW buffered \in BOOLEAN,
         ReadHeadOf(s, buffered) \/ UNCHANGED data,
         task[s] # "write" \/ UNCHANGED data,
         \A t \in Sides : \/ task'[t] = task[t] \/ task'[t] = "ended"
                          \/ task[t] = "off" /\ task'[t] = "read"
  PROVE  Streamed'
<1> SUFFICES ASSUME NEW t \in Sides
             PROVE  /\ lost'[t] <= taken'[t] /\ taken'[t] <= sent'[t]
                    /\ task'[t] \in {"off", "read"} => taken'[t] = Delivered(t)'
                    /\ task'[t] = "write" => taken'[t] = Delivered(t)' + 1 /\ hand'[t] = taken'[t]
  BY DEF Streamed
<1>1. /\ lost[t] <= taken[t] /\ taken[t] <= sent[t]
      /\ task[t] \in {"off", "read"} => taken[t] = lost[t] + Len(got[t])
      /\ task[t] = "write" => taken[t] = lost[t] + Len(got[t]) + 1 /\ hand[t] = taken[t]
  BY DEF IInv, Streamed, Delivered
<1>2. taken[t] \in Nat /\ lost[t] \in Nat /\ sent[t] \in Nat /\ Len(got[t]) \in Nat
  BY TunnelAssumption DEF IInv, DataTyped
<1>3. CASE UNCHANGED data
  BY <1>1, <1>3 DEF data, Delivered
<1>4. CASE ReadHeadOf(s, buffered) /\ task[s] # "write"
  <2>1. /\ UNCHANGED <<sent, hand, got>> /\ DataTyped'
        /\ \A u \in Sides \ {s} : taken'[u] = taken[u] /\ lost'[u] = lost[u]
        /\ taken'[s] - lost'[s] = taken[s] - lost[s]
        /\ lost'[s] <= taken'[s] /\ taken'[s] <= sent[s]
    BY <1>4, HeadReads
  <2>2. taken'[t] \in Nat /\ lost'[t] \in Nat
    BY <2>1, TunnelAssumption DEF DataTyped
  <2>3. CASE t = s
    <3>1. got' = got /\ hand' = hand /\ sent' = sent /\ taken'[s] - lost'[s] = taken[s] - lost[s]
      BY <2>1
    <3>2. task[s] # "write" /\ task'[t] # "write"
      BY <1>4, <2>3
    <3>3. task'[t] \in {"off", "read"} => task[t] \in {"off", "read"}
      BY <3>2
    <3>4. task'[t] \in {"off", "read"} => taken'[t] = lost'[t] + Len(got[t])
      BY <1>1, <1>2, <2>2, <2>3, <3>1, <3>3
    <3> QED
      BY <2>1, <2>3, <3>1, <3>2, <3>4 DEF Delivered
  <2>4. CASE t # s
    BY <1>1, <1>2, <2>1, <2>4 DEF Delivered
  <2> QED
    BY <2>3, <2>4
<1> QED
  BY <1>3, <1>4

-----------------------------------------------------------------------------
(* Every step keeps the invariant.                                         *)

\* A step of the handler.
LEMMA HandlerKeeps == ASSUME IInv, Handler PROVE IInv'
<1>1. CASE Refuse
  <2>1. ControlTyped'
    BY <1>1 DEF IInv, Refuse, ControlTyped
  <2>2. SocketsTyped'
    BY <1>1 DEF IInv, Refuse, SocketsTyped, Closed
  <2>3. SocketsKnown'
    BY <1>1 DEF IInv, Refuse, SocketsKnown, Unlisted, SocketsTyped, Closed, Sides
  <2>4. TasksKnown'
    BY <1>1 DEF IInv, Refuse, TasksKnown, Fresh
  <2>5. TasksTyped' /\ PeersTyped' /\ DataTyped' /\ Streamed'
    BY <1>1 DEF IInv, Refuse, TasksTyped, PeersTyped, DataTyped, Streamed, Delivered, peers, data
  <2> QED
    BY <2>1, <2>2, <2>3, <2>4, <2>5 DEF IInv
<1>2. CASE Admit
  <2>1. ControlTyped'
    BY <1>2 DEF IInv, Admit, Goto, ControlTyped
  <2>2. SocketsKnown'
    BY <1>2 DEF IInv, Admit, Goto, SocketsKnown, Unlisted, sockets
  <2>3. TasksKnown'
    BY <1>2 DEF IInv, Admit, Goto, TasksKnown, Fresh
  <2>4. SocketsTyped' /\ TasksTyped' /\ PeersTyped' /\ DataTyped' /\ Streamed'
    BY <1>2 DEF IInv, Admit, SocketsTyped, TasksTyped, PeersTyped, DataTyped, Streamed, Delivered,
          sockets, peers, data
  <2> QED
    BY <2>1, <2>2, <2>3, <2>4 DEF IInv
<1>3. CASE ReadHead
  <2>1. ControlTyped'
    BY <1>3 DEF IInv, ReadHead, Goto, ControlTyped
  <2>2. DataTyped'
    BY <1>3, HeadReads DEF ReadHead, Sides
  <2>3. Streamed'
    BY <1>3, StreamsKept DEF IInv, ReadHead, Goto, Sides, TasksKnown, Fresh
  <2>4. SocketsKnown'
    BY <1>3 DEF IInv, ReadHead, Goto, SocketsKnown, Unlisted, sockets
  <2>5. TasksKnown'
    BY <1>3 DEF IInv, ReadHead, Goto, TasksKnown, Fresh
  <2>6. SocketsTyped' /\ TasksTyped' /\ PeersTyped'
    BY <1>3 DEF IInv, ReadHead, SocketsTyped, TasksTyped, PeersTyped, sockets, peers
  <2> QED
    BY <2>1, <2>2, <2>3, <2>4, <2>5, <2>6 DEF IInv
<1>4. CASE Grant
  <2>1. ControlTyped'
    BY <1>4 DEF IInv, Grant, Goto, ControlTyped
  <2>2. SocketsKnown'
    BY <1>4 DEF IInv, Grant, Goto, SocketsKnown, Unlisted, sockets
  <2>3. TasksKnown'
    BY <1>4 DEF IInv, Grant, Goto, TasksKnown, Fresh
  <2>4. SocketsTyped' /\ TasksTyped' /\ PeersTyped' /\ DataTyped' /\ Streamed'
    BY <1>4 DEF IInv, Grant, SocketsTyped, TasksTyped, PeersTyped, DataTyped, Streamed, Delivered,
          sockets, peers, data
  <2> QED
    BY <2>1, <2>2, <2>3, <2>4 DEF IInv
<1>5. CASE ReadRequest
  <2>1. ControlTyped'
    BY <1>5 DEF IInv, ReadRequest, Goto, ControlTyped
  <2>2. DataTyped'
    BY <1>5, HeadReads DEF ReadRequest, Sides
  <2>3. Streamed'
    BY <1>5, StreamsKept DEF IInv, ReadRequest, Goto, Sides, TasksKnown, Fresh
  <2>4. SocketsKnown'
    BY <1>5 DEF IInv, ReadRequest, Goto, SocketsKnown, Unlisted, sockets
  <2>5. TasksKnown'
    BY <1>5 DEF IInv, ReadRequest, Goto, TasksKnown, Fresh
  <2>6. SocketsTyped' /\ TasksTyped' /\ PeersTyped'
    BY <1>5 DEF IInv, ReadRequest, SocketsTyped, TasksTyped, PeersTyped, sockets, peers
  <2> QED
    BY <2>1, <2>2, <2>3, <2>4, <2>5, <2>6 DEF IInv
<1>6. CASE Register
  <2>1. ControlTyped'
    BY <1>6 DEF IInv, Register, Goto, ControlTyped
  <2>2. SocketsKnown'
    BY <1>6 DEF IInv, Register, Goto, SocketsKnown, Unlisted, sockets
  <2>3. TasksKnown'
    BY <1>6 DEF IInv, Register, Goto, TasksKnown, Fresh
  <2>4. SocketsTyped' /\ TasksTyped' /\ PeersTyped' /\ DataTyped' /\ Streamed'
    BY <1>6 DEF IInv, Register, SocketsTyped, TasksTyped, PeersTyped, DataTyped, Streamed,
          Delivered, sockets, peers, data
  <2> QED
    BY <2>1, <2>2, <2>3, <2>4 DEF IInv
<1>7. CASE DialFails
  <2>1. ControlTyped'
    BY <1>7 DEF IInv, DialFails, ControlTyped
  <2>2. SocketsTyped'
    BY <1>7 DEF IInv, DialFails, SocketsTyped, Closed
  <2>3. SocketsKnown'
    BY <1>7 DEF IInv, DialFails, SocketsKnown, Unlisted, SocketsTyped, Closed, Sides
  <2>4. TasksKnown'
    BY <1>7 DEF IInv, DialFails, TasksKnown, Fresh
  <2>5. TasksTyped' /\ PeersTyped' /\ DataTyped' /\ Streamed'
    BY <1>7 DEF IInv, DialFails, TasksTyped, PeersTyped, DataTyped, Streamed, Delivered, peers, data
  <2> QED
    BY <2>1, <2>2, <2>3, <2>4, <2>5 DEF IInv
<1>8. CASE Dial
  <2>1. ControlTyped'
    BY <1>8 DEF IInv, Dial, Dialled, ControlTyped
  <2>2. SocketsTyped'
    BY <1>8 DEF IInv, Dial, Sides, SocketsTyped, Closed
  <2>3. TasksTyped'
    BY <1>8 DEF IInv, Dial, Dialled, Sides, TasksTyped, Copies, Helpers
  <2>4. PeersTyped'
    BY <1>8 DEF IInv, Dial, Dialled, Sides, PeersTyped
  <2>5. Streamed'
    <3>1. task["client"] = "off" /\ task["origin"] = "off" /\ UNCHANGED data
      BY <1>8 DEF IInv, Dial, TasksKnown, Fresh
    <3>2. \A t \in Sides : task'[t] = task[t] \/ (task[t] = "off" /\ task'[t] = "read")
      BY <1>8, <3>1 DEF IInv, Dial, Dialled, TasksTyped, Copies, Helpers, Sides
    <3> QED
      BY <3>1, <3>2, StreamsKept DEF Sides
  <2>6. SocketsKnown'
    BY <1>8 DEF IInv, Dial, Dialled, Sides, SocketsKnown, Unlisted, SocketsTyped, Closed
  <2>7. TasksKnown'
    BY <1>8 DEF IInv, Dial, Dialled, Sides, TasksKnown, Fresh, TasksTyped, Copies, Helpers
  <2>8. DataTyped'
    BY <1>8 DEF IInv, Dial, Dialled, DataTyped, data
  <2> QED
    BY <2>1, <2>2, <2>3, <2>4, <2>5, <2>6, <2>7, <2>8 DEF IInv
<1>9. CASE HandshakeTLS
  <2>1. ControlTyped'
    BY <1>9 DEF IInv, HandshakeTLS, Goto, ControlTyped
  <2>2. SocketsKnown'
    BY <1>9 DEF IInv, HandshakeTLS, Goto, SocketsKnown, Unlisted, sockets
  <2>3. TasksKnown'
    BY <1>9 DEF IInv, HandshakeTLS, Goto, TasksKnown, Fresh
  <2>4. SocketsTyped' /\ TasksTyped' /\ PeersTyped' /\ DataTyped' /\ Streamed'
    BY <1>9 DEF IInv, HandshakeTLS, SocketsTyped, TasksTyped, PeersTyped, DataTyped, Streamed,
          Delivered, sockets, peers, data
  <2> QED
    BY <2>1, <2>2, <2>3, <2>4 DEF IInv
<1>10. CASE ReadAnswer
  <2>1. ControlTyped'
    BY <1>10 DEF IInv, ReadAnswer, Dialled, ControlTyped
  <2>2. TasksTyped'
    BY <1>10 DEF IInv, ReadAnswer, Dialled, Sides, TasksTyped, Copies, Helpers
  <2>3. DataTyped'
    <3>1. ReadHeadOf("origin", hop \in {"http", "https"}) /\ (hop \in {"http", "https"}) \in BOOLEAN
      BY <1>10 DEF ReadAnswer
    <3>2. \A b \in BOOLEAN : ReadHeadOf("origin", b) => DataTyped'
      BY HeadReads DEF Sides
    <3> QED
      BY <3>1, <3>2
  <2>4. Streamed'
    <3>1. task["client"] = "off" /\ task["origin"] = "off"
      BY <1>10 DEF IInv, ReadAnswer, TasksKnown, Fresh
    <3>2. \A t \in Sides : task'[t] = task[t] \/ (task[t] = "off" /\ task'[t] = "read")
      BY <1>10, <3>1 DEF IInv, ReadAnswer, Dialled, TasksTyped, Copies, Helpers, Sides
    <3>3. ReadHeadOf("origin", hop \in {"http", "https"}) /\ (hop \in {"http", "https"}) \in BOOLEAN
      BY <1>10 DEF ReadAnswer
    <3>4. \A b \in BOOLEAN : ReadHeadOf("origin", b) => Streamed'
      BY <3>1, <3>2, StreamsKept DEF Sides
    <3> QED
      BY <3>3, <3>4
  <2>5. SocketsKnown'
    BY <1>10 DEF IInv, ReadAnswer, Dialled, SocketsKnown, Unlisted, sockets
  <2>6. TasksKnown'
    BY <1>10 DEF IInv, ReadAnswer, Dialled, Sides, TasksKnown, Fresh, TasksTyped, Copies, Helpers
  <2>7. SocketsTyped' /\ PeersTyped'
    BY <1>10 DEF IInv, ReadAnswer, Dialled, SocketsTyped, PeersTyped, sockets, peers
  <2> QED
    BY <2>1, <2>2, <2>3, <2>4, <2>5, <2>6, <2>7 DEF IInv
<1>11. CASE AnswerFailure
  <2>1. ControlTyped'
    BY <1>11 DEF IInv, AnswerFailure, Goto, ControlTyped
  <2>2. SocketsTyped'
    BY <1>11 DEF IInv, AnswerFailure, SocketsTyped, Closed
  <2>3. SocketsKnown'
    BY <1>11 DEF IInv, AnswerFailure, Goto, SocketsKnown, Unlisted, SocketsTyped, Closed, Sides
  <2>4. TasksKnown'
    BY <1>11 DEF IInv, AnswerFailure, Goto, TasksKnown, Fresh
  <2>5. TasksTyped' /\ PeersTyped' /\ DataTyped' /\ Streamed'
    BY <1>11 DEF IInv, AnswerFailure, TasksTyped, PeersTyped, DataTyped, Streamed, Delivered,
          peers, data
  <2> QED
    BY <2>1, <2>2, <2>3, <2>4, <2>5 DEF IInv
<1>12. CASE AnswerSuccess
  <2>1. ControlTyped'
    BY <1>12 DEF IInv, AnswerSuccess, ControlTyped
  <2>2. SocketsTyped'
    BY <1>12 DEF IInv, AnswerSuccess, SocketsTyped, Closed
  <2>3. TasksTyped'
    BY <1>12 DEF IInv, AnswerSuccess, TasksTyped, Copies, Helpers
  <2>4. Streamed'
    <3>1. task["client"] = "off" /\ task["origin"] = "off" /\ UNCHANGED data
      BY <1>12 DEF IInv, AnswerSuccess, TasksKnown, Fresh
    <3>2. \A t \in Sides : task'[t] = task[t] \/ (task[t] = "off" /\ task'[t] = "read")
      BY <1>12, <3>1 DEF IInv, AnswerSuccess, TasksTyped, Copies, Helpers, Sides
    <3> QED
      BY <3>1, <3>2, StreamsKept DEF Sides
  <2>5. SocketsKnown'
    BY <1>12 DEF IInv, AnswerSuccess, SocketsKnown, Unlisted, SocketsTyped, Closed, Sides
  <2>6. TasksKnown'
    BY <1>12 DEF IInv, AnswerSuccess, TasksKnown, Fresh, TasksTyped, Copies, Helpers, Sides
  <2>7. PeersTyped' /\ DataTyped'
    BY <1>12 DEF IInv, AnswerSuccess, PeersTyped, DataTyped, peers, data
  <2> QED
    BY <2>1, <2>2, <2>3, <2>4, <2>5, <2>6, <2>7 DEF IInv
<1>13. CASE BridgeReturns
  <2>1. ControlTyped'
    BY <1>13 DEF IInv, BridgeReturns, Goto, ControlTyped
  <2>2. SocketsTyped'
    BY <1>13 DEF IInv, BridgeReturns, SocketsTyped, Closed
  <2>3. SocketsKnown'
    BY <1>13 DEF IInv, BridgeReturns, Goto, SocketsKnown, Unlisted, SocketsTyped, Closed, Sides
  <2>4. TasksKnown'
    BY <1>13 DEF IInv, BridgeReturns, Goto, TasksKnown, Fresh, Copies, Sides
  <2>5. TasksTyped' /\ PeersTyped' /\ DataTyped' /\ Streamed'
    BY <1>13 DEF IInv, BridgeReturns, TasksTyped, PeersTyped, DataTyped, Streamed, Delivered,
          peers, data
  <2> QED
    BY <2>1, <2>2, <2>3, <2>4, <2>5 DEF IInv
<1>14. CASE SendBreaks
  <2>1. ControlTyped'
    BY <1>14 DEF IInv, SendBreaks, Goto, ControlTyped
  <2>2. TasksTyped'
    BY <1>14 DEF IInv, SendBreaks, TasksTyped, Copies, Helpers
  <2>3. Streamed'
    BY <1>14, TunnelAssumption DEF IInv, SendBreaks, Streamed, DataTyped, Delivered, TasksTyped,
          Copies, data
  <2>4. SocketsKnown'
    BY <1>14 DEF IInv, SendBreaks, Goto, SocketsKnown, Unlisted, sockets
  <2>5. TasksKnown'
    BY <1>14 DEF IInv, SendBreaks, Goto, TasksKnown, Fresh, TasksTyped, Copies, Helpers, Sides
  <2>6. SocketsTyped' /\ PeersTyped' /\ DataTyped'
    BY <1>14 DEF IInv, SendBreaks, SocketsTyped, PeersTyped, DataTyped, sockets, peers, data
  <2> QED
    BY <2>1, <2>2, <2>3, <2>4, <2>5, <2>6 DEF IInv
<1>15. CASE AnswerBreaks
  <2>1. ControlTyped'
    BY <1>15 DEF IInv, AnswerBreaks, Goto, StopWatch, ControlTyped
  <2>2. SocketsTyped'
    BY <1>15 DEF IInv, AnswerBreaks, StopWatch, SocketsTyped
  <2>3. TasksTyped'
    BY <1>15 DEF IInv, AnswerBreaks, StopWatch, TasksTyped, Copies, Helpers
  <2>4. Streamed'
    BY <1>15, TunnelAssumption DEF IInv, AnswerBreaks, StopWatch, Streamed, DataTyped, Delivered,
          TasksTyped, Copies, data
  <2>5. SocketsKnown'
    BY <1>15 DEF IInv, AnswerBreaks, Goto, StopWatch, SocketsKnown, Unlisted
  <2>6. TasksKnown'
    BY <1>15 DEF IInv, AnswerBreaks, Goto, StopWatch, TasksKnown, Fresh, TasksTyped, Copies, Helpers,
          Sides
  <2>7. PeersTyped' /\ DataTyped'
    BY <1>15 DEF IInv, AnswerBreaks, StopWatch, PeersTyped, DataTyped, peers, data
  <2> QED
    BY <2>1, <2>2, <2>3, <2>4, <2>5, <2>6, <2>7 DEF IInv
<1>16. CASE Unwatched
  <2>1. ControlTyped'
    BY <1>16 DEF IInv, Unwatched, Goto, ControlTyped
  <2>2. SocketsKnown'
    BY <1>16 DEF IInv, Unwatched, Goto, SocketsKnown, Unlisted, sockets
  <2>3. TasksKnown'
    BY <1>16 DEF IInv, Unwatched, Goto, TasksKnown, Fresh
  <2>4. SocketsTyped' /\ TasksTyped' /\ PeersTyped' /\ DataTyped' /\ Streamed'
    BY <1>16 DEF IInv, Unwatched, SocketsTyped, TasksTyped, PeersTyped, DataTyped, Streamed,
          Delivered, sockets, peers, data
  <2> QED
    BY <2>1, <2>2, <2>3, <2>4 DEF IInv
<1>17. CASE CloseBoth
  <2>1. ControlTyped'
    BY <1>17 DEF IInv, CloseBoth, Goto, ControlTyped
  <2>2. SocketsTyped'
    BY <1>17 DEF IInv, CloseBoth, SocketsTyped, Closed
  <2>3. TasksTyped'
    BY <1>17 DEF IInv, CloseBoth, TasksTyped, Copies, Helpers
  <2>4. Streamed'
    BY <1>17, TunnelAssumption DEF IInv, CloseBoth, Streamed, DataTyped, Delivered, TasksTyped,
          Copies, data
  <2>5. SocketsKnown'
    BY <1>17 DEF IInv, CloseBoth, Goto, SocketsKnown, Unlisted, SocketsTyped, Closed, Sides
  <2>6. TasksKnown'
    BY <1>17 DEF IInv, CloseBoth, Goto, TasksKnown, Fresh, TasksTyped, Copies, Helpers, Sides
  <2>7. PeersTyped' /\ DataTyped'
    BY <1>17 DEF IInv, CloseBoth, PeersTyped, DataTyped, peers, data
  <2> QED
    BY <2>1, <2>2, <2>3, <2>4, <2>5, <2>6, <2>7 DEF IInv
<1>18. CASE Leave
  <2>1. ControlTyped'
    BY <1>18 DEF IInv, Leave, Goto, ControlTyped
  <2>2. SocketsKnown'
    BY <1>18 DEF IInv, Leave, Goto, SocketsKnown, Unlisted, sockets
  <2>3. TasksKnown'
    BY <1>18 DEF IInv, Leave, Goto, TasksKnown, Fresh
  <2>4. SocketsTyped' /\ TasksTyped' /\ PeersTyped' /\ DataTyped' /\ Streamed'
    BY <1>18 DEF IInv, Leave, SocketsTyped, TasksTyped, PeersTyped, DataTyped, Streamed, Delivered,
          sockets, peers, data
  <2> QED
    BY <2>1, <2>2, <2>3, <2>4 DEF IInv
<1> QED
  BY <1>1, <1>2, <1>3, <1>4, <1>5, <1>6, <1>7, <1>8, <1>9, <1>10, <1>11, <1>12,
     <1>13, <1>14, <1>15, <1>16, <1>17, <1>18 DEF Handler

\* A step of a copy.
LEMMA CopyKeeps == ASSUME IInv, NEW s \in Sides, Copy(s) PROVE IInv'
<1>1. CASE Take(s)
  <2>1. TasksTyped'
    BY <1>1 DEF IInv, Take, TasksTyped, Copies, Helpers
  <2>2. DataTyped'
    <3>1. /\ taken[s] + 1 \in 0..MaxData /\ UNCHANGED <<sent, lost, got>>
          /\ taken' = [taken EXCEPT ![s] = @ + 1] /\ hand' = [hand EXCEPT ![s] = taken[s] + 1]
      BY <1>1, TunnelAssumption DEF IInv, Take, Readable, Unread, DataTyped
    <3> QED
      BY <3>1 DEF IInv, DataTyped
  <2>3. Streamed'
    <3>1. taken[s] + 1 <= sent[s]
      BY <1>1, TunnelAssumption DEF IInv, Take, Readable, Unread, DataTyped
    <3>2. task[s] = "read" /\ UNCHANGED <<sent, lost, got>>
      BY <1>1 DEF Take
    <3>3. /\ taken' = [taken EXCEPT ![s] = @ + 1] /\ hand' = [hand EXCEPT ![s] = taken[s] + 1]
          /\ task' = [task EXCEPT ![s] = "write"]
      BY <1>1 DEF Take
    <3>4. \A t \in Sides : /\ taken[t] \in Nat /\ lost[t] \in Nat /\ sent[t] \in Nat
                           /\ Len(got[t]) \in Nat
      BY TunnelAssumption DEF IInv, DataTyped
    <3>5. taken \in [Sides -> 0..MaxData] /\ hand \in [Sides -> 0..MaxData] /\ TasksTyped /\ Streamed
      BY DEF IInv, DataTyped
    <3> QED
      BY <3>1, <3>2, <3>3, <3>4, <3>5 DEF Streamed, Delivered, TasksTyped, Copies
  <2>4. TasksKnown'
    BY <1>1 DEF IInv, Take, TasksKnown, Fresh, TasksTyped, Copies, Helpers, Sides
  <2>5. ControlTyped' /\ SocketsTyped' /\ PeersTyped' /\ SocketsKnown'
    BY <1>1 DEF IInv, Take, Readable, ControlTyped, SocketsTyped, PeersTyped, SocketsKnown,
          sockets, peers
  <2> QED
    BY <2>1, <2>2, <2>3, <2>4, <2>5 DEF IInv
<1>2. CASE Give(s)
  <2>1. TasksTyped'
    BY <1>2 DEF IInv, Give, TasksTyped, Copies, Helpers
  <2>2. DataTyped'
    BY <1>2, TunnelAssumption DEF IInv, Give, DataTyped, Streamed, Delivered
  <2>3. Streamed'
    BY <1>2, TunnelAssumption DEF IInv, Give, Streamed, DataTyped, Delivered, TasksTyped, Copies
  <2>4. TasksKnown'
    BY <1>2 DEF IInv, Give, TasksKnown, Fresh, TasksTyped, Copies, Helpers, Sides
  <2>5. ControlTyped' /\ SocketsTyped' /\ PeersTyped' /\ SocketsKnown'
    BY <1>2 DEF IInv, Give, ControlTyped, SocketsTyped, PeersTyped, SocketsKnown, sockets, peers
  <2> QED
    BY <2>1, <2>2, <2>3, <2>4, <2>5 DEF IInv
<1>3. CASE RelayEnds(s)
  <2>1. ControlTyped'
    BY <1>3 DEF IInv, RelayEnds, ControlTyped
  <2>2. TasksTyped'
    BY <1>3 DEF IInv, RelayEnds, TasksTyped, Copies, Helpers
  <2>3. Streamed'
    BY <1>3, TunnelAssumption DEF IInv, RelayEnds, Streamed, DataTyped, Delivered, TasksTyped,
          Copies, data
  <2>4. TasksKnown'
    BY <1>3 DEF IInv, RelayEnds, TasksKnown, Fresh, TasksTyped, Copies, Helpers, Sides
  <2>5. SocketsTyped' /\ PeersTyped' /\ DataTyped' /\ SocketsKnown'
    BY <1>3 DEF IInv, RelayEnds, SocketsTyped, PeersTyped, DataTyped, SocketsKnown, sockets,
          peers, data
  <2> QED
    BY <2>1, <2>2, <2>3, <2>4, <2>5 DEF IInv
<1> QED
  BY <1>1, <1>2, <1>3 DEF Copy

\* A step of the watcher, of the watch or of the AfterFunc, or a message's end.
LEMMA HelpersKeep == ASSUME IInv, Watcher \/ Watch \/ AfterRuns \/ Complete PROVE IInv'
<1>1. CASE Trip
  <2>1. SocketsTyped'
    BY <1>1 DEF IInv, Trip, SocketsTyped
  <2>2. TasksTyped'
    BY <1>1 DEF IInv, Trip, TasksTyped, Copies, Helpers
  <2>3. Streamed'
    BY <1>1, TunnelAssumption DEF IInv, Trip, Streamed, DataTyped, Delivered, TasksTyped, Copies,
          data
  <2>4. TasksKnown'
    BY <1>1 DEF IInv, Trip, TasksKnown, Fresh, TasksTyped, Copies, Helpers, Sides
  <2>5. ControlTyped' /\ PeersTyped' /\ DataTyped' /\ SocketsKnown'
    BY <1>1 DEF IInv, Trip, ControlTyped, PeersTyped, DataTyped, SocketsKnown, peers, data
  <2> QED
    BY <2>1, <2>2, <2>3, <2>4, <2>5 DEF IInv
<1>2. CASE WatcherQuits
  <2>1. TasksTyped'
    BY <1>2 DEF IInv, WatcherQuits, TasksTyped, Copies, Helpers
  <2>2. Streamed'
    BY <1>2, TunnelAssumption DEF IInv, WatcherQuits, Streamed, DataTyped, Delivered, TasksTyped,
          Copies, data
  <2>3. TasksKnown'
    BY <1>2 DEF IInv, WatcherQuits, TasksKnown, Fresh, TasksTyped, Copies, Helpers, Sides
  <2>4. ControlTyped' /\ SocketsTyped' /\ PeersTyped' /\ DataTyped' /\ SocketsKnown'
    BY <1>2 DEF IInv, WatcherQuits, ControlTyped, SocketsTyped, PeersTyped, DataTyped,
          SocketsKnown, sockets, peers, data
  <2> QED
    BY <2>1, <2>2, <2>3, <2>4 DEF IInv
<1>3. CASE WatchDrops
  <2>1. DataTyped'
    <3>1. /\ taken["client"] + 1 \in 0..MaxData /\ UNCHANGED <<sent, lost, hand, got>>
          /\ taken' = [taken EXCEPT !["client"] = @ + 1]
      BY <1>3, TunnelAssumption DEF IInv, WatchDrops, Readable, Unread, DataTyped, Sides
    <3> QED
      BY <3>1 DEF IInv, DataTyped
  <2>2. Streamed'
    <3>1. taken["client"] + 1 <= sent["client"]
      BY <1>3, TunnelAssumption DEF IInv, WatchDrops, Readable, Unread, DataTyped, Sides
    <3>2. task["client"] = "ended" /\ UNCHANGED <<sent, lost, hand, got, task>>
      BY <1>3 DEF IInv, WatchDrops, TasksKnown, Fresh
    <3>3. taken' = [taken EXCEPT !["client"] = @ + 1]
      BY <1>3 DEF WatchDrops
    <3>4. \A t \in Sides : taken[t] \in Nat /\ lost[t] \in Nat /\ sent[t] \in Nat
      BY TunnelAssumption DEF IInv, DataTyped
    <3>5. taken \in [Sides -> 0..MaxData] /\ Streamed
      BY DEF IInv, DataTyped
    <3> QED
      BY <3>1, <3>2, <3>3, <3>4, <3>5 DEF Streamed, Delivered
  <2>3. ControlTyped' /\ SocketsTyped' /\ TasksTyped' /\ PeersTyped' /\ SocketsKnown' /\ TasksKnown'
    BY <1>3 DEF IInv, WatchDrops, Readable, ControlTyped, SocketsTyped, TasksTyped, PeersTyped,
          SocketsKnown, TasksKnown, Fresh, sockets, peers
  <2> QED
    BY <2>1, <2>2, <2>3 DEF IInv
<1>4. CASE WatchEnds
  <2>1. SocketsTyped'
    BY <1>4 DEF IInv, WatchEnds, SocketsTyped, Closed
  <2>2. TasksTyped'
    BY <1>4 DEF IInv, WatchEnds, TasksTyped, Copies, Helpers
  <2>3. Streamed'
    BY <1>4, TunnelAssumption DEF IInv, WatchEnds, Streamed, DataTyped, Delivered, TasksTyped,
          Copies, data
  <2>4. SocketsKnown'
    BY <1>4 DEF IInv, WatchEnds, SocketsKnown, Unlisted, SocketsTyped, Closed, Sides
  <2>5. TasksKnown'
    BY <1>4 DEF IInv, WatchEnds, TasksKnown, Fresh, TasksTyped, Copies, Helpers, Sides
  <2>6. ControlTyped' /\ PeersTyped' /\ DataTyped'
    BY <1>4 DEF IInv, WatchEnds, ControlTyped, PeersTyped, DataTyped, peers, data
  <2> QED
    BY <2>1, <2>2, <2>3, <2>4, <2>5, <2>6 DEF IInv
<1>5. CASE AfterRuns
  <2>1. SocketsTyped'
    BY <1>5 DEF IInv, AfterRuns, SocketsTyped, Closed
  <2>2. TasksTyped'
    BY <1>5 DEF IInv, AfterRuns, TasksTyped, Copies, Helpers
  <2>3. Streamed'
    BY <1>5, TunnelAssumption DEF IInv, AfterRuns, Streamed, DataTyped, Delivered, TasksTyped,
          Copies, data
  <2>4. SocketsKnown'
    BY <1>5 DEF IInv, AfterRuns, SocketsKnown, Unlisted, SocketsTyped, Closed, Sides
  <2>5. TasksKnown'
    BY <1>5 DEF IInv, AfterRuns, TasksKnown, Fresh, TasksTyped, Copies, Helpers, Sides
  <2>6. ControlTyped' /\ PeersTyped' /\ DataTyped'
    BY <1>5 DEF IInv, AfterRuns, ControlTyped, PeersTyped, DataTyped, peers, data
  <2> QED
    BY <2>1, <2>2, <2>3, <2>4, <2>5, <2>6 DEF IInv
<1>6. CASE SendCompletes
  <2>1. ControlTyped'
    BY <1>6 DEF IInv, SendCompletes, Goto, ControlTyped
  <2>2. TasksTyped'
    BY <1>6 DEF IInv, SendCompletes, TasksTyped, Copies, Helpers
  <2>3. Streamed'
    <3>1. task["origin"] = "off" /\ UNCHANGED data
      BY <1>6 DEF IInv, SendCompletes, Goto, TasksKnown
    <3>2. \A t \in Sides :
            task'[t] = task[t] \/ task'[t] = "ended" \/ (task[t] = "off" /\ task'[t] = "read")
      BY <1>6, <3>1 DEF IInv, SendCompletes, TasksTyped, Copies, Helpers, Sides
    <3> QED
      BY <3>1, <3>2, StreamsKept DEF Sides
  <2>4. SocketsKnown'
    BY <1>6 DEF IInv, SendCompletes, Goto, SocketsKnown, Unlisted, sockets
  <2>5. TasksKnown'
    BY <1>6 DEF IInv, SendCompletes, Goto, TasksKnown, Fresh, TasksTyped, Copies, Helpers, Sides
  <2>6. SocketsTyped' /\ PeersTyped' /\ DataTyped'
    BY <1>6 DEF IInv, SendCompletes, SocketsTyped, PeersTyped, DataTyped, sockets, peers, data
  <2> QED
    BY <2>1, <2>2, <2>3, <2>4, <2>5, <2>6 DEF IInv
<1>7. CASE AnswerCompletes
  <2>1. ControlTyped'
    BY <1>7 DEF IInv, AnswerCompletes, Goto, StopWatch, ControlTyped
  <2>2. SocketsTyped'
    BY <1>7 DEF IInv, AnswerCompletes, StopWatch, SocketsTyped
  <2>3. TasksTyped'
    BY <1>7 DEF IInv, AnswerCompletes, StopWatch, TasksTyped, Copies, Helpers
  <2>4. Streamed'
    BY <1>7, TunnelAssumption DEF IInv, AnswerCompletes, StopWatch, Streamed, DataTyped, Delivered,
          TasksTyped, Copies, data
  <2>5. SocketsKnown'
    BY <1>7 DEF IInv, AnswerCompletes, Goto, StopWatch, SocketsKnown, Unlisted
  <2>6. TasksKnown'
    BY <1>7 DEF IInv, AnswerCompletes, Goto, StopWatch, TasksKnown, Fresh, TasksTyped, Copies,
          Helpers, Sides
  <2>7. PeersTyped' /\ DataTyped'
    BY <1>7 DEF IInv, AnswerCompletes, StopWatch, PeersTyped, DataTyped, peers, data
  <2> QED
    BY <2>1, <2>2, <2>3, <2>4, <2>5, <2>6, <2>7 DEF IInv
<1> QED
  BY <1>1, <1>2, <1>3, <1>4, <1>5, <1>6, <1>7 DEF Watcher, Watch, Complete

\* A step of a peer or of a request that cancels.
LEMMA EnvironmentKeeps == ASSUME IInv, Environment PROVE IInv'
<1>1. ASSUME NEW s \in Sides, PeerSends(s) PROVE IInv'
  <2>1. DataTyped'
    BY <1>1, TunnelAssumption DEF IInv, PeerSends, CanSend, DataTyped, Streamed, Delivered
  <2>2. Streamed'
    BY <1>1, TunnelAssumption DEF IInv, PeerSends, CanSend, Streamed, DataTyped, Delivered
  <2>3. ControlTyped' /\ SocketsTyped' /\ TasksTyped' /\ PeersTyped' /\ SocketsKnown' /\ TasksKnown'
    BY <1>1 DEF IInv, PeerSends, CanSend, ControlTyped, SocketsTyped, TasksTyped, PeersTyped,
          SocketsKnown, TasksKnown, Fresh, sockets, peers
  <2> QED
    BY <2>1, <2>2, <2>3 DEF IInv
<1>2. ASSUME NEW s \in Sides, PeerEnds(s) PROVE IInv'
  <2>1. PeersTyped'
    BY <1>2 DEF IInv, PeerEnds, PeersTyped
  <2>2. DataTyped'
    BY <1>2 DEF IInv, PeerEnds, DataTyped, data
  <2>3. Streamed'
    BY <1>2 DEF IInv, PeerEnds, Streamed, Delivered, data
  <2>4. ControlTyped' /\ SocketsTyped' /\ TasksTyped' /\ SocketsKnown' /\ TasksKnown'
    BY <1>2 DEF IInv, PeerEnds, ControlTyped, SocketsTyped, TasksTyped, SocketsKnown,
          TasksKnown, Fresh, sockets
  <2> QED
    BY <2>1, <2>2, <2>3, <2>4 DEF IInv
<1>3. ASSUME NEW s \in Sides, PeerStalls(s) PROVE IInv'
  <2>1. PeersTyped'
    BY <1>3 DEF IInv, PeerStalls, PeersTyped
  <2>2. /\ ControlTyped' /\ SocketsTyped' /\ TasksTyped' /\ DataTyped'
        /\ Streamed' /\ SocketsKnown' /\ TasksKnown'
    BY <1>3 DEF IInv, PeerStalls, ControlTyped, SocketsTyped, TasksTyped, DataTyped, Streamed,
          SocketsKnown, TasksKnown, Fresh, Delivered, sockets, data
  <2> QED
    BY <2>1, <2>2 DEF IInv
<1>4. CASE UpstreamConnects
  <2>1. PeersTyped'
    BY <1>4 DEF IInv, UpstreamConnects, Sides, PeersTyped
  <2>2. /\ ControlTyped' /\ SocketsTyped' /\ TasksTyped' /\ DataTyped'
        /\ Streamed' /\ SocketsKnown' /\ TasksKnown'
    BY <1>4 DEF IInv, UpstreamConnects, ControlTyped, SocketsTyped, TasksTyped, DataTyped,
          Streamed, SocketsKnown, TasksKnown, Fresh, Delivered, sockets, data
  <2> QED
    BY <2>1, <2>2 DEF IInv
<1>5. CASE Cancel
  <2>1. ControlTyped'
    BY <1>5 DEF IInv, Cancel, ControlTyped
  <2>2. /\ SocketsTyped' /\ TasksTyped' /\ PeersTyped' /\ DataTyped'
        /\ Streamed' /\ SocketsKnown' /\ TasksKnown'
    BY <1>5 DEF IInv, Cancel, SocketsTyped, TasksTyped, PeersTyped, DataTyped, Streamed,
          SocketsKnown, TasksKnown, Fresh, Delivered, sockets, peers, data
  <2> QED
    BY <2>1, <2>2 DEF IInv
<1> QED
  BY <1>1, <1>2, <1>3, <1>4, <1>5 DEF Environment

LEMMA InitHolds == Init => IInv
<1> SUFFICES ASSUME Init PROVE IInv
  OBVIOUS
<1>1. ControlTyped
  BY DEF Init, ControlTyped
<1>2. PeersTyped
  BY DEF Init, PeersTyped, Sides
<1>3. SocketsTyped /\ SocketsKnown
  BY DEF Init, SocketsTyped, SocketsKnown, Sides, Unlisted
<1>4. TasksTyped /\ TasksKnown
  BY DEF Init, TasksTyped, TasksKnown, Fresh, Copies, Helpers, Sides
<1>5. DataTyped /\ Streamed
  BY TunnelAssumption DEF Init, DataTyped, Streamed, Delivered, Copies, Helpers
<1> QED
  BY <1>1, <1>2, <1>3, <1>4, <1>5 DEF IInv

LEMMA NextKeeps == IInv /\ [Next]_vars => IInv'
<1> SUFFICES ASSUME IInv, [Next]_vars PROVE IInv'
  OBVIOUS
<1>1. CASE Next
  BY <1>1, HandlerKeeps, CopyKeeps, HelpersKeep, EnvironmentKeeps DEF Next
<1>2. CASE UNCHANGED vars
  <2>1. ControlTyped' /\ SocketsTyped' /\ TasksTyped' /\ PeersTyped' /\ DataTyped'
    BY <1>2 DEF IInv, vars, sockets, peers, data, ControlTyped, SocketsTyped, TasksTyped,
          PeersTyped, DataTyped
  <2>2. Streamed' /\ SocketsKnown' /\ TasksKnown'
    BY <1>2 DEF IInv, vars, sockets, data, Streamed, Delivered, SocketsKnown, TasksKnown, Fresh
  <2> QED
    BY <2>1, <2>2 DEF IInv
<1> QED
  BY <1>1, <1>2

LEMMA Invariance == Spec => []IInv
  BY InitHolds, NextKeeps, PTL DEF Spec

-----------------------------------------------------------------------------
(* What the invariant says.                                                *)

\* Every variable keeps its type; in particular no copy reads past what the peer
\* has sent, however the copies interleave.
THEOREM TypeCorrect == Spec => []TypeOK
<1>1. IInv => TypeOK
  BY TypesAreParts DEF IInv
<1> QED
  BY <1>1, Invariance, PTL

\* A handler that has returned, on whichever of its many paths, has closed both
\* sockets, has left the registry and has ended its copies and its watch.
THEOREM NothingIsLeft == Spec => []NothingLeft
<1>1. IInv => NothingLeft
  BY DEF IInv, NothingLeft, SocketsKnown, TasksKnown, Fresh, Unlisted, Sides, Copies
<1> QED
  BY <1>1, Invariance, PTL

\* A connection to an upstream is open only while the registry lists the
\* connection, so that a sweep of the registry finds it.
THEOREM OpenListed == Spec => []OpenIsListed
<1>1. IInv => OpenIsListed
  BY DEF IInv, OpenIsListed, SocketsKnown, Unlisted, ControlTyped
<1> QED
  BY <1>1, Invariance, PTL

-----------------------------------------------------------------------------
(* The tunnel is a Pipe.                                                   *)

LEMMA PipeStates ==
  ASSUME ControlTyped
  PROVE  /\ PipeState = "open" <=> pc \in {"bridge", "send", "answer"}
         /\ PipeState = "shut" <=> pc \in {"unwatch", "close", "leave", "done"}
         /\ PipeState \in {"new", "open", "shut"}
  BY DEF PipeState, ControlTyped

\* What a protocol head takes along is lost early data, or nothing.
LEMMA HeadLoses ==
  ASSUME IInv, NEW s \in Sides, NEW buffered \in BOOLEAN, ReadHeadOf(s, buffered)
  PROVE  /\ UNCHANGED <<sent, got>>
         /\ lost' \in {[lost EXCEPT ![s] = n] : n \in lost[s]..sent[s]}
         /\ ~buffered => lost' = lost
<1>1. PICK n \in 0..(IF buffered THEN Unread(s) ELSE 0) : lost' = [lost EXCEPT ![s] = @ + n]
  BY DEF ReadHeadOf
<1>2. Unread(s) \in Nat /\ lost[s] \in Nat /\ sent[s] \in Nat
  BY TunnelAssumption DEF IInv, DataTyped, Streamed, Unread
<1>3. lost[s] + Unread(s) <= sent[s]
  BY TunnelAssumption DEF IInv, Streamed, DataTyped, Unread
<1>4. lost[s] + n \in lost[s]..sent[s]
  BY <1>1, <1>2, <1>3
<1>5. lost' \in {[lost EXCEPT ![s] = m] : m \in lost[s]..sent[s]}
  BY <1>1, <1>4
<1>6. ~buffered => lost' = lost
  BY <1>1, <1>2 DEF IInv, DataTyped
<1> QED
  BY <1>5, <1>6 DEF ReadHeadOf

\* Each step of the handler opens the pipe, shuts it, loses early data or is
\* not seen.
LEMMA HandlerMaps == ASSUME IInv, IInv', Handler PROVE [P!Next]_P!vars
<1> USE DEF P!vars, P!Next
<1>0. UNCHANGED Buffered
  BY DEF Handler, Buffered, Refuse, Admit, ReadHead, Grant, ReadRequest, Register, DialFails, Dial,
         HandshakeTLS, ReadAnswer, AnswerFailure, AnswerSuccess, BridgeReturns, SendBreaks,
         AnswerBreaks, StopWatch, Unwatched, CloseBoth, Leave
<1>s. ControlTyped /\ ControlTyped'
  BY DEF IInv
<1>t. /\ PipeState' = "open" <=> pc' \in {"bridge", "send", "answer"}
      /\ PipeState' = "shut" <=> pc' \in {"unwatch", "close", "leave", "done"}
      /\ PipeState' \in {"new", "open", "shut"}
  BY <1>s DEF PipeState, ControlTyped
<1>1. CASE Admit \/ Grant \/ Register \/ DialFails \/ HandshakeTLS \/ Unwatched \/ CloseBoth \/ Leave
  <2>1. UNCHANGED PipeState
    BY <1>1, <1>s, <1>t, PipeStates
       DEF Admit, Grant, Register, DialFails, HandshakeTLS, Unwatched, CloseBoth, Leave, Goto
  <2>2. UNCHANGED data
    BY <1>1 DEF Admit, Grant, Register, DialFails, HandshakeTLS, Unwatched, CloseBoth, Leave
  <2> QED
    BY <1>0, <2>1, <2>2 DEF data
<1>2. CASE Refuse \/ AnswerFailure \/ BridgeReturns \/ SendBreaks \/ AnswerBreaks
  <2>1. PipeState # "shut" /\ PipeState' = "shut"
    BY <1>2, <1>s, <1>t, PipeStates
       DEF Refuse, AnswerFailure, BridgeReturns, SendBreaks, AnswerBreaks, StopWatch, Goto
  <2>2. UNCHANGED data
    BY <1>2 DEF Refuse, AnswerFailure, BridgeReturns, SendBreaks, AnswerBreaks, StopWatch
  <2> QED
    BY <1>0, <2>1, <2>2 DEF data, P!Shut
<1>3. CASE AnswerSuccess
  <2>1. PipeState = "new" /\ PipeState' \in {"open", "shut"}
    BY <1>3, <1>s, <1>t, PipeStates DEF AnswerSuccess
  <2>2. UNCHANGED data
    BY <1>3 DEF AnswerSuccess
  <2> QED
    BY <1>0, <2>1, <2>2 DEF data, P!Open, P!Shut
<1>4. CASE Dial
  <2>1. PipeState = "new" /\ PipeState' \in {"new", "open"}
    BY <1>4, <1>s, <1>t, PipeStates DEF Dial, Dialled
  <2>2. UNCHANGED data
    BY <1>4 DEF Dial
  <2> QED
    BY <1>0, <2>1, <2>2 DEF data, P!Open
<1>5. CASE ReadHead
  <2>1. PipeState = "new" /\ PipeState' = "new"
    BY <1>5, <1>s, <1>t, PipeStates DEF ReadHead, Goto
  <2>2. ReadHeadOf("client", front = "connect")
    BY <1>5 DEF ReadHead
  <2>3. front = "connect" => "client" \in Buffered
    BY DEF Buffered, Sides
  <2> QED
    BY <1>0, <2>1, <2>2, <2>3, HeadLoses DEF P!Lose, Sides
<1>6. CASE ReadRequest
  <2>1. UNCHANGED PipeState
    BY <1>6, <1>s, <1>t, PipeStates DEF ReadRequest, Goto
  <2>2. UNCHANGED <<sent, lost, got>>
    BY <1>6, HeadLoses DEF ReadRequest, Sides
  <2> QED
    BY <1>0, <2>1, <2>2
<1>7. CASE ReadAnswer
  <2>1. PipeState = "new" /\ PipeState' \in {"new", "open"}
    BY <1>7, <1>s, <1>t, PipeStates DEF ReadAnswer, Dialled
  <2>2. ReadHeadOf("origin", hop \in {"http", "https"})
    BY <1>7 DEF ReadAnswer
  <2>3. hop \in {"http", "https"} => "origin" \in Buffered
    BY DEF Buffered, Sides
  <2>4. CASE hop \in {"http", "https"}
    BY <1>0, <2>1, <2>2, <2>3, <2>4, HeadLoses DEF P!Lose, P!LoseAndOpen, Sides
  <2>5. CASE hop \notin {"http", "https"}
    <3>1. (hop \in {"http", "https"}) = FALSE
      BY <2>5
    <3>2. UNCHANGED <<sent, lost, got>>
      BY <2>2, <3>1, HeadLoses DEF Sides
    <3> QED
      BY <1>0, <2>1, <3>2 DEF P!Open
  <2> QED
    BY <2>4, <2>5
<1> QED
  BY <1>1, <1>2, <1>3, <1>4, <1>5, <1>6, <1>7 DEF Handler

\* A piece is given while the pipe is open, and follows the one given last.
LEMMA CopyMaps == ASSUME IInv, NEW s \in Sides, Copy(s) PROVE [P!Next]_P!vars
<1> USE DEF P!vars, P!Next
<1>0. UNCHANGED <<Buffered, PipeState>>
  BY DEF Copy, Take, Give, RelayEnds, Buffered, PipeState
<1>1. CASE Take(s) \/ RelayEnds(s)
  BY <1>0, <1>1 DEF Take, RelayEnds, data
<1>2. CASE Give(s)
  <2>1. task[s] = "write" /\ UNCHANGED <<sent, lost>>
    BY <1>2 DEF Give
  <2>2. got' = [got EXCEPT ![s] = Append(@, hand[s])]
    BY <1>2 DEF Give
  <2>3. PipeState = "open"
    BY <2>1, PipeStates DEF IInv, TasksKnown, Fresh, Sides
  <2>4. hand[s] = lost[s] + Len(got[s]) + 1 /\ hand[s] <= sent[s]
    BY <2>1 DEF IInv, Streamed, Delivered
  <2> QED
    BY <1>0, <2>1, <2>2, <2>3, <2>4 DEF P!Deliver
<1> QED
  BY <1>1, <1>2 DEF Copy

\* Of the helpers only the end of the answer is seen: it shuts the pipe.
LEMMA HelpersMap ==
  ASSUME IInv, IInv', Watcher \/ Watch \/ AfterRuns \/ Complete PROVE [P!Next]_P!vars
<1> USE DEF P!vars, P!Next
<1>0. UNCHANGED <<Buffered, sent, lost, got>>
  BY DEF Watcher, Trip, WatcherQuits, Watch, WatchDrops, WatchEnds, AfterRuns, Complete,
         SendCompletes, AnswerCompletes, StopWatch, Buffered, data
<1>1. CASE Watcher \/ Watch \/ AfterRuns
  <2>1. UNCHANGED PipeState
    BY <1>1 DEF Watcher, Trip, WatcherQuits, Watch, WatchDrops, WatchEnds, AfterRuns, PipeState
  <2> QED
    BY <1>0, <2>1
<1>2. CASE SendCompletes
  <2>1. UNCHANGED PipeState
    BY <1>2 DEF SendCompletes, Goto, PipeState
  <2> QED
    BY <1>0, <2>1
<1>3. CASE AnswerCompletes
  <2>1. PipeState = "open" /\ PipeState' = "shut"
    BY <1>3 DEF AnswerCompletes, StopWatch, Goto, PipeState
  <2> QED
    BY <1>0, <2>1 DEF P!Shut
<1> QED
  BY <1>1, <1>2, <1>3 DEF Complete

\* Of the environment only what a peer sends is seen.
LEMMA EnvironmentMaps == ASSUME IInv, Environment PROVE [P!Next]_P!vars
<1> USE DEF P!vars, P!Next
<1>0. UNCHANGED <<Buffered, PipeState>>
  BY DEF Environment, PeerSends, PeerEnds, PeerStalls, UpstreamConnects, Cancel, Buffered, PipeState
<1>1. ASSUME NEW s \in Sides, PeerSends(s) PROVE P!Send(s)
  BY <1>0, <1>1 DEF PeerSends, P!Send
<1>2. ASSUME NEW s \in Sides, PeerEnds(s) \/ PeerStalls(s) PROVE UNCHANGED <<sent, lost, got>>
  BY <1>2 DEF PeerEnds, PeerStalls, data
<1>3. CASE UpstreamConnects \/ Cancel
  BY <1>0, <1>3 DEF UpstreamConnects, Cancel, data
<1> QED
  BY <1>0, <1>1, <1>2, <1>3 DEF Environment

\* Whatever the protocols on either side, the connection keeps the promise of
\* Pipe: what is delivered is an unbroken run in order, each piece once and only
\* while data is carried, and only what arrives early from an end that speaks
\* HTTP is missing before it.
THEOREM TunnelImplementsPipe == Spec => Implements
<1>1. Init => P!Init
  <2> SUFFICES ASSUME Init PROVE P!Init
    OBVIOUS
  <2>1. PipeState = "new"
    BY DEF Init, PipeState
  <2>2. Buffered \subseteq Sides
    BY DEF Buffered
  <2> QED
    BY <2>1, <2>2 DEF Init, P!Init
<1>2. IInv /\ IInv' /\ [Next]_vars => [P!Next]_P!vars
  <2> SUFFICES ASSUME IInv, IInv', [Next]_vars PROVE [P!Next]_P!vars
    OBVIOUS
  <2>1. CASE Next
    BY <2>1, HandlerMaps, CopyMaps, HelpersMap, EnvironmentMaps DEF Next
  <2>2. CASE UNCHANGED vars
    BY <2>2 DEF vars, data, P!vars, Buffered, PipeState
  <2> QED
    BY <2>1, <2>2
<1> QED
  BY <1>1, <1>2, Invariance, PTL DEF Spec, Implements, P!Spec

=============================================================================
