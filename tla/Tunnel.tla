------------------------------- MODULE Tunnel -------------------------------
(***************************************************************************)
(* The life of one connection of the proxy port: the handler from the      *)
(* deny gate to its return (HTTPProxy.handleConn, handleConnect and        *)
(* handleAbsoluteForm, SOCKS5Proxy.handleConn), the dial through the       *)
(* upstream (tunnel.Manager.DialUpstream), and the goroutines that carry   *)
(* the data: tunnel.Bridge's two relays and its watcher, or the watch on   *)
(* the client and the AfterFunc of a plain HTTP request.                   *)
(*                                                                         *)
(* A socket is named after the peer at its other end: "client", and        *)
(* "origin" for the connection to the upstream, which stands for the       *)
(* target behind it.  The data that a peer sends is a stream of numbered   *)
(* pieces, read from the socket in order; the heads of the protocols are   *)
(* not data.                                                               *)
(***************************************************************************)
EXTENDS Naturals, Sequences, FiniteSets

CONSTANTS
  Fronts,  \* what clients speak: subset of {"connect", "plain", "socks5"}
  Hops,    \* how upstreams are reached: subset of {"direct", "http", "https", "socks5"}
  MaxData  \* bound on the pieces each peer sends

ASSUME TunnelAssumption ==
  /\ Fronts \subseteq {"connect", "plain", "socks5"}
  /\ Hops \subseteq {"direct", "http", "https", "socks5"}
  /\ MaxData \in Nat

Sides == {"client", "origin"}
Other(s) == IF s = "client" THEN "origin" ELSE "client"

VARIABLES
  front, hop,  \* the protocol of the client, the protocol of the upstream
  pc,          \* where the handler is
  ctx,         \* connCtx or the CancelGroup it derives from is cancelled
  registered,  \* the connection is in the registry
  sock,        \* per socket: "none", "open" or "closed"
  past,        \* per socket: which of its deadlines are in the past
  task,        \* the goroutines of the exchange: the copies, named after the
               \* side they read, and the helpers "trip", "watch" and "after"
  woken,       \* Bridge's own context is cancelled
  peer,        \* per side: "away", "on", "fin" (half-closed) or "rst"
  reading,     \* per side: the peer still takes data
  sent,        \* per side: how many pieces the peer has sent
  taken,       \* per socket: how many of them have been read
  lost,        \* per side: how many were read along with a protocol head and dropped
  hand,        \* per side: the piece that its copy read last
  got          \* per side: the pieces written to the other side

sockets == <<sock, past>>
data == <<sent, taken, lost, hand, got>>
peers == <<peer, reading>>
vars == <<front, hop, pc, ctx, registered, sockets, task, woken, peers, data>>

Copies == Sides
Helpers == {"trip", "watch", "after"}

TypeOK ==
  /\ front \in Fronts /\ hop \in Hops
  /\ pc \in {"gate", "head", "auth", "request", "register", "dial", "tls", "handshake",
             "failed", "reply", "bridge", "send", "answer", "unwatch", "close", "leave", "done"}
  /\ ctx \in BOOLEAN /\ registered \in BOOLEAN /\ woken \in BOOLEAN
  /\ sock \in [Sides -> {"none", "open", "closed"}]
  /\ past \in [Sides -> {"no", "read", "both"}]
  /\ task \in [Copies \cup Helpers -> {"off", "read", "write", "armed", "ended"}]
  /\ peer \in [Sides -> {"away", "on", "fin", "rst"}]
  /\ reading \in [Sides -> BOOLEAN]
  /\ \A count \in {sent, taken, lost, hand} : count \in [Sides -> 0..MaxData]
  /\ got \in [Sides -> Seq(1..MaxData)]

Init ==
  /\ front \in Fronts /\ hop \in Hops
  /\ pc = "gate" /\ ctx = FALSE /\ registered = FALSE /\ woken = FALSE
  /\ sock = [client |-> "open", origin |-> "none"]
  /\ past = [s \in Sides |-> "no"]
  /\ task = [t \in Copies \cup Helpers |-> "off"]
  /\ peer = [client |-> "on", origin |-> "away"]
  /\ reading = [s \in Sides |-> TRUE]
  /\ sent = [s \in Sides |-> 0] /\ taken = sent /\ lost = sent /\ hand = sent
  /\ got = [s \in Sides |-> <<>>]

-----------------------------------------------------------------------------
(* Sockets, as net.Conn behaves.                                           *)

Unread(s) == sent[s] - taken[s]
ReadFails(s) == sock[s] = "closed" \/ past[s] # "no" \/ peer[s] = "rst"
WriteFails(s) == sock[s] = "closed" \/ past[s] = "both" \/ peer[s] = "rst"
Readable(s) == ~ReadFails(s) /\ Unread(s) > 0
AtEnd(s) == ReadFails(s) \/ (peer[s] = "fin" /\ Unread(s) = 0)
\* A blocked read ends with os.ErrDeadlineExceeded rather than another error.
DeadlineExceeded(s) == sock[s] = "open" /\ past[s] # "no"

Closed(S) == [s \in Sides |-> IF s \in S /\ sock[s] = "open" THEN "closed" ELSE sock[s]]

Goto(from, to) == pc = from /\ pc' = to

\* Reading a protocol head of socket s.  net/http parses from a bufio.Reader
\* that is dropped afterwards with what it read beyond the head; the SOCKS5
\* code reads exactly the bytes of each message.
ReadHeadOf(s, buffered) ==
  \E n \in 0..(IF buffered THEN Unread(s) ELSE 0) :
    /\ taken' = [taken EXCEPT ![s] = @ + n]
    /\ lost' = [lost EXCEPT ![s] = @ + n]
    /\ UNCHANGED <<sent, hand, got>>

-----------------------------------------------------------------------------
(* The peers.  The client sends when it likes; the origin once the upstream *)
(* has connected to it and, as an HTTP server, once it has a request.      *)

CanSend(s) ==
  /\ peer[s] = "on" /\ sock[s] = "open" /\ sent[s] < MaxData
  /\ s = "origin" /\ front = "plain" => pc \in {"send", "answer"}

PeerSends(s) ==
  /\ CanSend(s)
  /\ sent' = [sent EXCEPT ![s] = @ + 1]
  /\ UNCHANGED <<front, hop, pc, ctx, registered, sockets, task, woken, peers>>
  /\ UNCHANGED <<taken, lost, hand, got>>

\* A peer ends its stream, or is gone altogether: then the socket fails, and
\* what it had sent and nobody has read is gone as well.
PeerEnds(s) ==
  /\ \/ peer[s] = "on" /\ peer' = [peer EXCEPT ![s] = "fin"]
     \/ peer[s] \in {"on", "fin"} /\ peer' = [peer EXCEPT ![s] = "rst"]
  /\ UNCHANGED <<front, hop, pc, ctx, registered, sockets, task, woken, reading, data>>

\* A peer takes no more data, and the buffers on the way to it are full;
\* nobody knows before there is something to write.
PeerStalls(s) ==
  /\ peer[s] \in {"on", "fin"} /\ reading[s] /\ task[Other(s)] = "write"
  /\ reading' = [reading EXCEPT ![s] = FALSE]
  /\ UNCHANGED <<front, hop, pc, ctx, registered, sockets, task, woken, peer, data>>

\* The upstream has connected to the target and answered so.
UpstreamConnects ==
  /\ pc = "handshake" /\ peer["origin"] = "away"
  /\ peer' = [peer EXCEPT !["origin"] = "on"]
  /\ UNCHANGED <<front, hop, pc, ctx, registered, sockets, task, woken, reading, data>>

\* A request cancels the user's CancelGroup or, once the connection is in
\* the registry, the connection.
Cancel ==
  /\ pc \notin {"gate", "head", "auth", "done"} /\ ~ctx
  /\ ctx' = TRUE
  /\ UNCHANGED <<front, hop, pc, registered, sockets, task, woken, peers, data>>

Environment ==
  \/ \E s \in Sides : PeerSends(s) \/ PeerEnds(s) \/ PeerStalls(s)
  \/ UpstreamConnects
  \/ Cancel

-----------------------------------------------------------------------------
(* The handler up to the dial.                                             *)

\* The gate, a head or request that is malformed or late, and credentials
\* that Acquire refuses: an answer and the end of the connection.
Refuse ==
  /\ pc \in {"gate", "head", "auth", "request"} /\ pc' = "done"
  /\ sock' = Closed({"client"})
  /\ UNCHANGED <<front, hop, ctx, registered, past, task, woken, peers, data>>

Admit ==
  /\ Goto("gate", "head")
  /\ UNCHANGED <<front, hop, ctx, registered, sockets, task, woken, peers, data>>

\* The sniffed byte and the HTTP request head, or the SOCKS5 negotiation.
\* A plain request keeps its reader for the body, a CONNECT drops it.
ReadHead ==
  /\ Goto("head", "auth") /\ ~ReadFails("client")
  /\ ReadHeadOf("client", front = "connect")
  /\ UNCHANGED <<front, hop, ctx, registered, sockets, task, woken, peers>>

\* Acquire grants: an HTTP client has said where it wants to go, a SOCKS5
\* client is told so and asked.
Grant ==
  /\ Goto("auth", IF front = "socks5" THEN "request" ELSE "register")
  /\ UNCHANGED <<front, hop, ctx, registered, sockets, task, woken, peers, data>>

ReadRequest ==
  /\ Goto("request", "register") /\ ~ReadFails("client")
  /\ ReadHeadOf("client", FALSE)
  /\ UNCHANGED <<front, hop, ctx, registered, sockets, task, woken, peers>>

\* Mutant: the connection is registered only when it carries data.
Register_Late ==
  /\ Goto("register", "dial") /\ registered' = FALSE
  /\ UNCHANGED <<front, hop, ctx, sockets, task, woken, peers, data>>

Register ==
  /\ Goto("register", "dial") /\ registered' = TRUE
  /\ UNCHANGED <<front, hop, ctx, sockets, task, woken, peers, data>>

-----------------------------------------------------------------------------
(* DialUpstream.                                                           *)

\* Mutant: a refused handshake leaves the upstream connection behind.
DialFails_Leaks ==
  /\ pc \in {"dial", "tls", "handshake"} /\ pc' = "failed"
  /\ UNCHANGED <<front, hop, ctx, registered, sockets, task, woken, peers, data>>

\* No connection, a TLS or proxy handshake that is refused, broken, late or
\* (dial and TLS) cancelled, or a plain request without a host.
DialFails ==
  /\ pc \in {"dial", "tls", "handshake"} /\ pc' = "failed"
  /\ sock' = Closed({"origin"})
  /\ UNCHANGED <<front, hop, ctx, registered, past, task, woken, peers, data>>

\* The handler has its upstream connection, all deadlines cleared: a plain
\* request arms the AfterFunc and is sent, the others are answered first.
Dialled ==
  IF front = "plain"
  THEN /\ pc' = "send"
       /\ task' = [task EXCEPT !["after"] = "armed", !["client"] = "read"]
  ELSE pc' = "reply" /\ UNCHANGED task

\* DialContext connects: to the target itself, or to an upstream that is
\* then spoken to.
Dial ==
  /\ pc = "dial" /\ ~ctx
  /\ sock' = [sock EXCEPT !["origin"] = "open"]
  /\ \/ hop = "direct" /\ Dialled /\ peer' = [peer EXCEPT !["origin"] = "on"]
     \/ /\ hop # "direct" /\ pc' = (IF hop = "https" THEN "tls" ELSE "handshake")
        /\ UNCHANGED <<task, peer>>
  /\ UNCHANGED <<front, hop, ctx, registered, past, woken, reading, data>>

HandshakeTLS ==
  /\ Goto("tls", "handshake") /\ ~ctx
  /\ UNCHANGED <<front, hop, ctx, registered, sockets, task, woken, peers, data>>

\* Mutant: the SOCKS5 answer is read through a buffer as well.
ReadAnswer_Buffered ==
  /\ pc = "handshake" /\ peer["origin"] # "away" /\ ~ReadFails("origin")
  /\ ReadHeadOf("origin", TRUE)
  /\ Dialled
  /\ UNCHANGED <<front, hop, ctx, registered, sockets, woken, peers>>

\* The end of finishHTTPConnect or dialViaSOCKS5: nothing but the deadline of
\* the handshake interrupts it, the cancellation of ctx does not.
ReadAnswer ==
  /\ pc = "handshake" /\ peer["origin"] # "away" /\ ~ReadFails("origin")
  /\ ReadHeadOf("origin", hop \in {"http", "https"})
  /\ Dialled
  /\ UNCHANGED <<front, hop, ctx, registered, sockets, woken, peers>>

\* 502 or general failure to the client.
AnswerFailure ==
  /\ Goto("failed", "leave")
  /\ sock' = Closed({"client"})
  /\ UNCHANGED <<front, hop, ctx, registered, past, task, woken, peers, data>>

\* "200 Connection established" or "succeeded", and into Bridge.
AnswerSuccess ==
  /\ pc = "reply"
  /\ \/ /\ ~WriteFails("client") /\ pc' = "bridge"
        /\ task' = [task EXCEPT !["client"] = "read", !["origin"] = "read", !["trip"] = "armed"]
        /\ UNCHANGED sock
     \/ /\ WriteFails("client") /\ pc' = "leave"
        /\ sock' = Closed(Sides) /\ UNCHANGED task
  /\ UNCHANGED <<front, hop, ctx, registered, past, woken, peers, data>>

-----------------------------------------------------------------------------
(* Copying, by Bridge's relays or by the handler of a plain request.       *)

Take(s) ==
  /\ task[s] = "read" /\ Readable(s)
  /\ task' = [task EXCEPT ![s] = "write"]
  /\ taken' = [taken EXCEPT ![s] = @ + 1] /\ hand' = [hand EXCEPT ![s] = taken[s] + 1]
  /\ UNCHANGED <<front, hop, pc, ctx, registered, sockets, woken, peers, sent, lost, got>>

\* Mutant: a write that was cut short passes for a whole one.
Give_Drops(s) ==
  /\ task[s] = "write" /\ ~WriteFails(Other(s)) /\ reading[Other(s)]
  /\ task' = [task EXCEPT ![s] = "read"]
  /\ got' \in {got, [got EXCEPT ![s] = Append(@, hand[s])]}
  /\ UNCHANGED <<front, hop, pc, ctx, registered, sockets, woken, peers>>
  /\ UNCHANGED <<sent, taken, lost, hand>>

Give(s) ==
  /\ task[s] = "write" /\ ~WriteFails(Other(s)) /\ reading[Other(s)]
  /\ task' = [task EXCEPT ![s] = "read"]
  /\ got' = [got EXCEPT ![s] = Append(@, hand[s])]
  /\ UNCHANGED <<front, hop, pc, ctx, registered, sockets, woken, peers>>
  /\ UNCHANGED <<sent, taken, lost, hand>>

\* Mutant: a peer that has ended its stream is not read to the end.
Broken_Early(s) ==
  \/ task[s] = "read" /\ (ReadFails(s) \/ peer[s] = "fin")
  \/ task[s] = "write" /\ WriteFails(Other(s))

\* The copy of what s sends can go no further.
Broken(s) ==
  \/ task[s] = "read" /\ AtEnd(s)
  \/ task[s] = "write" /\ WriteFails(Other(s))

\* Mutant: the relay that ends does not wake the other.
RelayEnds_Silently(s) ==
  /\ pc = "bridge" /\ Broken(s)
  /\ task' = [task EXCEPT ![s] = "ended"] /\ woken' = woken
  /\ UNCHANGED <<front, hop, pc, ctx, registered, sockets, peers, data>>

RelayEnds(s) ==
  /\ pc = "bridge" /\ Broken(s)
  /\ task' = [task EXCEPT ![s] = "ended"] /\ woken' = TRUE
  /\ UNCHANGED <<front, hop, pc, ctx, registered, sockets, peers, data>>

\* Mutant: only the reads are interrupted.
Trip_ReadsOnly ==
  /\ task["trip"] = "armed" /\ (ctx \/ woken)
  /\ past' = [s \in Sides |-> IF sock[s] = "open" THEN "read" ELSE past[s]]
  /\ task' = [task EXCEPT !["trip"] = "ended"]
  /\ UNCHANGED <<front, hop, pc, ctx, registered, sock, woken, peers, data>>

\* Bridge's watcher: deadlines in the past on both sockets.
Trip ==
  /\ task["trip"] = "armed" /\ (ctx \/ woken)
  /\ past' = [s \in Sides |-> IF sock[s] = "open" THEN "both" ELSE past[s]]
  /\ task' = [task EXCEPT !["trip"] = "ended"]
  /\ UNCHANGED <<front, hop, pc, ctx, registered, sock, woken, peers, data>>

\* ... or Bridge has returned first, closing "done".
WatcherQuits ==
  /\ task["trip"] = "armed" /\ pc \in {"leave", "done"}
  /\ task' = [task EXCEPT !["trip"] = "ended"]
  /\ UNCHANGED <<front, hop, pc, ctx, registered, sockets, woken, peers, data>>

BridgeReturns ==
  /\ Goto("bridge", "leave") /\ \A s \in Copies : task[s] = "ended"
  /\ sock' = Closed(Sides)
  /\ UNCHANGED <<front, hop, ctx, registered, past, task, woken, peers, data>>

-----------------------------------------------------------------------------
(* A plain request: sent, watched, answered.                               *)

\* The body breaks off, or the upstream does: 502.
SendBreaks ==
  /\ Goto("send", "close") /\ Broken("client")
  /\ task' = [task EXCEPT !["client"] = "ended"]
  /\ UNCHANGED <<front, hop, ctx, registered, sockets, woken, peers, data>>

\* The body is complete: the client is watched while the answer is copied.
SendCompletes ==
  /\ Goto("send", "answer") /\ task["client"] = "read"
  /\ task' = [task EXCEPT !["client"] = "ended", !["origin"] = "read", !["watch"] = "read"]
  /\ UNCHANGED <<front, hop, ctx, registered, sockets, woken, peers, data>>

\* Both ends of the copy of the answer trip the watch off the client.
StopWatch ==
  /\ Goto("answer", "unwatch")
  /\ past' = [past EXCEPT !["client"] = IF sock["client"] = "open" THEN "read" ELSE @]
  /\ task' = [task EXCEPT !["origin"] = "ended"]
  /\ UNCHANGED <<front, hop, ctx, registered, sock, woken, peers, data>>

AnswerBreaks == Broken("origin") /\ StopWatch

\* The answer is complete, or no HTTP answer.
AnswerCompletes == task["origin"] = "read" /\ StopWatch

\* Whatever the client still sends is dropped.
WatchDrops ==
  /\ task["watch"] = "read" /\ Readable("client")
  /\ taken' = [taken EXCEPT !["client"] = @ + 1]
  /\ UNCHANGED <<front, hop, pc, ctx, registered, sockets, task, woken, peers>>
  /\ UNCHANGED <<sent, lost, hand, got>>

\* Mutant: a client that goes away is noticed and nothing is done.
WatchEnds_Idle ==
  /\ task["watch"] = "read" /\ AtEnd("client")
  /\ task' = [task EXCEPT !["watch"] = "ended"]
  /\ sock' = sock
  /\ UNCHANGED <<front, hop, pc, ctx, registered, past, woken, peers, data>>

\* The client is gone, which frees the upstream, or the watch is called off.
WatchEnds ==
  /\ task["watch"] = "read" /\ AtEnd("client")
  /\ task' = [task EXCEPT !["watch"] = "ended"]
  /\ sock' = IF DeadlineExceeded("client") THEN sock ELSE Closed({"origin"})
  /\ UNCHANGED <<front, hop, pc, ctx, registered, past, woken, peers, data>>

Unwatched ==
  /\ Goto("unwatch", "close") /\ task["watch"] = "ended"
  /\ UNCHANGED <<front, hop, ctx, registered, sockets, task, woken, peers, data>>

\* The AfterFunc of a cancelled request, in a goroutine of its own.
AfterRuns ==
  /\ task["after"] = "armed" /\ ctx
  /\ task' = [task EXCEPT !["after"] = "ended"]
  /\ sock' = Closed(Sides)
  /\ UNCHANGED <<front, hop, pc, ctx, registered, past, woken, peers, data>>

\* The defers of handleAbsoluteForm; stop() fails once ctx is cancelled.
CloseBoth ==
  /\ Goto("close", "leave")
  /\ task' = [task EXCEPT !["after"] = IF ctx THEN @ ELSE "ended"]
  /\ sock' = Closed(Sides)
  /\ UNCHANGED <<front, hop, ctx, registered, past, woken, peers, data>>

\* The defers of handleConn.
Leave ==
  /\ Goto("leave", "done") /\ registered' = FALSE
  /\ UNCHANGED <<front, hop, ctx, sockets, task, woken, peers, data>>

-----------------------------------------------------------------------------
\* Steps that do not wait for a peer without limit: deadlines bound the
\* reading of heads and the handshakes, and the rest is the daemon's own.
Handler ==
  \/ Refuse \/ Admit \/ ReadHead \/ Grant \/ ReadRequest \/ Register
  \/ DialFails \/ Dial \/ HandshakeTLS \/ ReadAnswer \/ AnswerFailure \/ AnswerSuccess
  \/ BridgeReturns \/ SendBreaks \/ AnswerBreaks \/ Unwatched \/ CloseBoth \/ Leave

Copy(s) == Take(s) \/ Give(s) \/ RelayEnds(s)
Watcher == Trip \/ WatcherQuits
Watch == WatchDrops \/ WatchEnds
\* Where an HTTP message ends, which its sender decides.
Complete == SendCompletes \/ AnswerCompletes

Next ==
  \/ Handler \/ Watcher \/ Watch \/ AfterRuns \/ Complete
  \/ \E s \in Sides : Copy(s)
  \/ Environment

Fairness ==
  /\ WF_vars(Handler) /\ WF_vars(Watcher) /\ WF_vars(Watch) /\ WF_vars(AfterRuns)
  /\ \A s \in Sides : WF_vars(Copy(s))

Spec == Init /\ [][Next]_vars /\ Fairness

-----------------------------------------------------------------------------
(* Properties.                                                             *)

\* A handler that has returned leaves nothing behind: neither socket is open,
\* the registry does not list the connection, and no copy or watch is left
\* (http_proxy.go:130, socks5.go:133: every error path closes by hand).
NothingLeft ==
  pc = "done" =>
    /\ "open" \notin {sock[s] : s \in Sides} /\ ~registered
    /\ \A t \in Copies \cup {"watch"} : task[t] \in {"off", "ended"}

\* Every connection to an upstream is one that a sweep of the registry finds:
\* it is listed before the dial and until both sockets are closed
\* (tunnel.go:457-458, "expected to register the connection ... before calling
\* and to deregister after return").
OpenIsListed == sock["origin"] = "open" => registered

\* No data is lost at the start, whatever the upstream: the connection that
\* DialUpstream returns is "ready for byte-stream bridging" (tunnel.go:116-118).
BridgeStartsClean == lost["origin"] = 0

\* Cancelling a connection ends it, whatever it is doing and whatever its
\* peers do, stalled ones included: the handler returns and its goroutines
\* are gone (tunnel.go:448-450).
Quiet == pc = "done" /\ \A t \in Copies \cup Helpers : task[t] \in {"off", "ended"}
CancelEnds == ctx ~> Quiet

\* A peer that is gone ends the connection, unless the copy is stuck in a
\* write to a peer that takes nothing (tunnel.go:451-454, http_proxy.go:283-285).
\* A plain request is not watched while its body is being sent.
Carrying(s) == pc \in IF s = "client" THEN {"bridge", "send", "answer"} ELSE {"bridge", "answer"}
EitherEndEnds ==
  \A s \in Sides :
    Carrying(s) /\ peer[s] \in {"fin", "rst"} ~> pc = "done" \/ \E t \in Sides : ~reading[t]

\* What an end has sent arrives, also when it has ended its stream since, while
\* nobody cancels, the sender is not reset, and the other end neither ends its
\* stream nor stops reading: the relay that ends first has read to the end, and
\* only then does its end interrupt the other (tunnel.go:487-499).
Delivered(s) == lost[s] + Len(got[s])
Hindered(s) == ctx \/ peer[s] = "rst" \/ peer[Other(s)] # "on" \/ ~reading[Other(s)]
SentArrives ==
  \A s \in Sides, n \in 1..MaxData :
    pc = "bridge" /\ n <= sent[s] ~> n <= Delivered(s) \/ Hindered(s)

\* The connection is a Pipe: it opens once it carries data, and is shut once it
\* is being taken down.  Of what an end sends, the other is given an unbroken
\* run in order: a copy never skips or repeats a piece, and one that stops (at
\* a reset, a cancellation, the end of the other relay or of a request's body)
\* is not taken up again.  Pieces before that run are lost only before it opens,
\* and only from an end whose protocol is HTTP: SOCKS5 is read "so the bridge
\* starts at a clean offset" (tunnel.go:412-413).
PipeState ==
  CASE pc \in {"bridge", "send", "answer"} -> "open"
    [] pc \in {"unwatch", "close", "leave", "done"} -> "shut"
    [] OTHER -> "new"
Buffered ==
  {s \in Sides : IF s = "client" THEN front = "connect" ELSE hop \in {"http", "https"}}
P == INSTANCE Pipe WITH state <- PipeState, buffered <- Buffered
Implements == P!Spec

=============================================================================
