--------------------------- MODULE Browser_proofs ---------------------------
(***************************************************************************)
(* Theorems about the two components with a browser at their other end:    *)
(* the Chrome extension, and the hub of the admin page's WebSockets.  They *)
(* have no state in common.                                                *)
(*                                                                         *)
(* Extension, for any proxies, requests, clicks and ends of the worker: no *)
(* request is offered rejected credentials twice by one worker, the last   *)
(* switch takes effect, and the icon shows what is stored.                 *)
(*                                                                         *)
(* The two queues decide.  A handler has one call on its way at a time, so *)
(* the browser serves the handlers in turns, and of two handlers in the    *)
(* browser's queue the one that is more calls away from painting the icon  *)
(* paints it last.  The handler that reads or writes the stored state last *)
(* enters that queue last, and is at least as far away as all before it.   *)
(*                                                                         *)
(* Hub, for any clients, any capacity of their channels and any number of  *)
(* events: no send on a closed channel, and no gap in what a client is     *)
(* served.  NoGap says where each event of a stream belongs; that the next *)
(* event of Broadcast continues the stream rests on where the stream of a  *)
(* registered client ends: at the last event broadcast (UpToDate).         *)
(***************************************************************************)
EXTENDS Extension, Hub, SequenceTheorems, TLAPS

-----------------------------------------------------------------------------
(* The Chrome extension. *)


Handlers == {Boot} \cup Commands
Makers == {Gone} \cup Handlers \cup Requests
Values == Proxies \cup {Off}
Calls == [op : {"set", "colour", "text", "title"}, val : Values]
         \cup [op : {"setting"}, val : {"fixed", "direct"}]
         \cup [op : {"get", "flush"}, val : {Off}]
Entries == [by : Makers, call : Calls]

Stored == calls["storage"]
Browser == calls["browser"]

Types ==
  /\ TypeOK
  /\ calls \in [Queues -> Seq(Entries)] /\ todo \in [Handlers -> Seq(Calls)]
  /\ commands \in 0..MaxCommands /\ kills \in Nat /\ offers \in [Requests -> Nat]
  /\ cut \in BOOLEAN /\ overtaken \in BOOLEAN /\ crossed \in BOOLEAN

\* A handler that runs has one call on its way, one that does not makes none.
In(h, s) == \E i \in DOMAIN s : s[i].by = h
Once(s) ==
  \A i, j \in DOMAIN s : s[i].by = s[j].by /\ s[i].by \in Handlers => i = j
Own ==
  /\ Once(Stored) /\ Once(Browser)
  /\ \A h \in Handlers : ~(In(h, Stored) /\ In(h, Browser))
Quiet == \A h \in Handlers : In(h, Stored) \/ In(h, Browser) \/ todo[h] = <<>>
Early == \A h \in Commands : In(h, Stored) \/ In(h, Browser) => h <= commands
Down ==
  ~up => /\ \A i \in DOMAIN Stored : Stored[i].by = Gone
         /\ \A i \in DOMAIN Browser : Browser[i].by = Gone

\* What a command makes of the browser once it has stored the proxy v.
Rest(v) == IF v = Off THEN Tail(ClearProxy) ELSE Tail(ApplyProxy(v))

\* Who waits for the storage, and for what.
StoredEntry(e) ==
  /\ e.call.op \in {"get", "set"}
  /\ e.by \in Requests \cup {Boot} => e.call.op = "get"
  /\ e.by = Boot => todo[Boot] = <<>>
  /\ e.by \in Commands => e.call.op = "set" /\ todo[e.by] = Rest(e.call.val)
StoredShape == \A i \in DOMAIN Stored : StoredEntry(Stored[i])

\* Who waits for the browser, and how far from painting: a handler with a flush
\* to make, an apply, is at most one call further away than any other.
Flushes(h) == \E k \in DOMAIN todo[h] : todo[h][k].op = "flush"
Remaining(h) ==
  /\ \A k \in DOMAIN todo[h] :
       /\ todo[h][k].op \in {"colour", "text", "title", "flush"}
       /\ todo[h][k].op = "text" => k <= 2 /\ (k = 2 => Flushes(h))
       /\ todo[h][k].op = "title" => k <= 3 /\ (k = 3 => Flushes(h))
  /\ h = Boot => ~Flushes(h)
BrowserEntry(e) ==
  /\ e.by \notin Requests /\ e.call.op \notin {"get", "set"}
  /\ e.by \in Handlers => Remaining(e.by)
BrowserShape == \A i \in DOMAIN Browser : BrowserEntry(Browser[i])

Shape == Own /\ Quiet /\ Early /\ Down /\ StoredShape /\ BrowserShape

-----------------------------------------------------------------------------
(* Facts about the data. *)

\* Boot, Gone, the commands and the requests are told apart.
LEMMA Constants ==
  /\ Boot \in Handlers /\ Boot \notin Commands /\ Commands \subseteq Handlers
  /\ Gone \notin Handlers /\ Gone \notin Requests /\ Requests \cap Handlers = {}
  /\ Off \notin Proxies /\ "storage" \in Queues /\ "browser" \in Queues
  /\ \A q \in Queues : q = "storage" \/ q = "browser"
  /\ \A h \in Handlers : h = Boot \/ h \in Commands
  /\ Commands \subseteq Nat
  BY ExtensionAssumption DEF Handlers, Boot, Gone, Commands, Queues

\* What a queue is after its first entry is gone, after another has entered,
\* and after both.
Popped(s, t) ==
  Len(s) > 0 /\ Len(t) = Len(s) - 1 /\ \A i \in 1..Len(t) : t[i] = s[i + 1]
Pushed(s, t, e) ==
  Len(t) = Len(s) + 1 /\ t[Len(t)] = e /\ \A i \in 1..Len(s) : t[i] = s[i]
Cycled(s, t, e) ==
  Len(s) > 0 /\ Len(t) = Len(s) /\ t[Len(s)] = e /\ \A i \in 1..(Len(s) - 1) : t[i] = s[i + 1]

\* What a sequence is.
LEMMA Queue ==
  ASSUME NEW S, NEW s \in Seq(S)
  PROVE  /\ Len(s) \in Nat /\ DOMAIN s = 1..Len(s)
         /\ \A i \in DOMAIN s : s[i] \in S
         /\ s # <<>> <=> Len(s) > 0
  BY EmptySeq, LenProperties

\* Tail takes the first entry, Append adds one, both together turn the queue.
LEMMA Pop ==
  ASSUME NEW S, NEW s \in Seq(S), s # <<>>
  PROVE  Tail(s) \in Seq(S) /\ Popped(s, Tail(s)) /\ Head(s) = s[1]
<1>1. Len(s) > 0 BY Queue
<1>2. /\ Tail(s) \in Seq(S) /\ Len(Tail(s)) = Len(s) - 1
      /\ \A i \in 1..Len(Tail(s)) : Tail(s)[i] = s[i + 1]
  BY HeadTailProperties
<1>3. Head(s) = s[1] OBVIOUS
<1> QED BY <1>1, <1>2, <1>3 DEF Popped

LEMMA Push ==
  ASSUME NEW S, NEW s \in Seq(S), NEW e \in S
  PROVE  Append(s, e) \in Seq(S) /\ Pushed(s, Append(s, e), e)
<1>1. /\ Append(s, e) \in Seq(S) /\ Len(Append(s, e)) = Len(s) + 1
      /\ Append(s, e)[Len(s) + 1] = e
      /\ \A i \in 1..Len(s) : Append(s, e)[i] = s[i]
  BY AppendProperties
<1> QED BY <1>1 DEF Pushed

LEMMA Cycle ==
  ASSUME NEW S, NEW s \in Seq(S), s # <<>>, NEW e \in S
  PROVE  /\ Append(Tail(s), e) \in Seq(S) /\ Cycled(s, Append(Tail(s), e), e)
<1>1. PICK t \in Seq(S) : t = Tail(s) /\ Popped(s, t) BY Pop
<1>2. PICK u \in Seq(S) : u = Append(t, e) /\ Pushed(t, u, e) BY Push
<1>3. Len(s) \in Nat /\ Len(t) \in Nat /\ Len(u) \in Nat BY Queue
<1>4. Cycled(s, u, e)
  <2>1. Len(s) > 0 /\ Len(t) = Len(s) - 1 /\ \A i \in 1..Len(t) : t[i] = s[i + 1]
    BY <1>1 DEF Popped
  <2>2. Len(u) = Len(t) + 1 /\ u[Len(u)] = e /\ \A i \in 1..Len(t) : u[i] = t[i]
    BY <1>2 DEF Pushed
  <2> QED BY <1>3, <2>1, <2>2 DEF Cycled
<1> QED BY <1>1, <1>2, <1>4

\* The scripts, call by call.
LEMMA CallTypes ==
  /\ \A v \in Values, op \in {"set", "colour", "text", "title"} : Call(op, v) \in Calls
  /\ \A v \in {"fixed", "direct"} : Call("setting", v) \in Calls
  /\ Call("get", Off) \in Calls /\ Call("flush", Off) \in Calls
  BY DEF Calls, Call, Values

\* reflectState, clearProxy and applyProxy: how many calls, and which.
LEMMA ReflectScript ==
  ASSUME NEW p \in Values
  PROVE  /\ Reflect(p) \in Seq(Calls)
         /\ p # Off => /\ Len(Reflect(p)) = 3 /\ Reflect(p)[1] = Call("colour", p)
                       /\ Reflect(p)[2] = Call("text", p) /\ Reflect(p)[3] = Call("title", p)
         /\ p = Off => /\ Len(Reflect(p)) = 2
                       /\ Reflect(p)[1] = Call("text", p) /\ Reflect(p)[2] = Call("title", p)
<1>1. CASE p # Off
  <2> DEFINE a == Call("colour", p)  b == Call("text", p)  c == Call("title", p)
  <2>1. Reflect(p) = <<a, b, c>> BY <1>1 DEF Reflect
  <2>2. a \in Calls /\ b \in Calls /\ c \in Calls BY CallTypes
  <2> HIDE DEF a, b, c
  <2>3. Reflect(p) \in Seq(Calls) BY <2>1, <2>2
  <2>4. Len(Reflect(p)) = 3 /\ Reflect(p)[1] = a /\ Reflect(p)[2] = b /\ Reflect(p)[3] = c
    BY <2>1
  <2> QED BY <1>1, <2>3, <2>4 DEF a, b, c
<1>2. CASE p = Off
  <2> DEFINE b == Call("text", p)  c == Call("title", p)
  <2>1. Reflect(p) = <<b, c>> BY <1>2 DEF Reflect
  <2>2. b \in Calls /\ c \in Calls BY CallTypes
  <2> HIDE DEF b, c
  <2>3. Reflect(p) \in Seq(Calls) BY <2>1, <2>2
  <2>4. Len(Reflect(p)) = 2 /\ Reflect(p)[1] = b /\ Reflect(p)[2] = c BY <2>1
  <2> QED BY <1>2, <2>3, <2>4 DEF b, c
<1> QED BY <1>1, <1>2

LEMMA TwoCalls ==
  ASSUME NEW a \in Calls, NEW b \in Calls, NEW s \in Seq(Calls)
  PROVE  /\ <<a, b>> \o s \in Seq(Calls) /\ Len(<<a, b>> \o s) = Len(s) + 2
         /\ (<<a, b>> \o s)[1] = a /\ (<<a, b>> \o s)[2] = b
         /\ \A i \in 1..Len(s) : (<<a, b>> \o s)[i + 2] = s[i]
<1>1. <<a, b>> \in Seq(Calls) OBVIOUS
<1>2. Len(<<a, b>>) = 2 /\ <<a, b>>[1] = a /\ <<a, b>>[2] = b OBVIOUS
<1>3. PICK t \in Seq(Calls) : t = <<a, b>> BY <1>1
<1>4. Len(t) = 2 /\ t[1] = a /\ t[2] = b BY <1>2, <1>3
<1>5. /\ t \o s \in Seq(Calls) /\ Len(t \o s) = Len(t) + Len(s)
      /\ \A i \in 1..(Len(t) + Len(s)) : (t \o s)[i] = IF i <= Len(t) THEN t[i] ELSE s[i - Len(t)]
  BY ConcatProperties
<1>6. Len(s) \in Nat BY LenProperties
<1>7. (t \o s)[1] = a /\ (t \o s)[2] = b BY <1>4, <1>5, <1>6
<1>8. ASSUME NEW i \in 1..Len(s) PROVE (t \o s)[i + 2] = s[i]
  <2>1. i + 2 \in 1..(Len(t) + Len(s)) /\ ~(i + 2 <= Len(t)) /\ i + 2 - Len(t) = i
    BY <1>4, <1>6
  <2> QED BY <1>5, <2>1
<1>9. Len(t \o s) = Len(s) + 2 BY <1>4, <1>5, <1>6
<1> QED BY <1>3, <1>5, <1>7, <1>8, <1>9

LEMMA OneCall ==
  ASSUME NEW c \in Calls, NEW s \in Seq(Calls)
  PROVE  /\ s \o <<c>> \in Seq(Calls) /\ Len(s \o <<c>>) = Len(s) + 1
         /\ (s \o <<c>>)[Len(s) + 1] = c
         /\ \A i \in 1..Len(s) : (s \o <<c>>)[i] = s[i]
<1>1. s \o <<c>> = Append(s, c) BY AppendIsConcat
<1>2. Pushed(s, Append(s, c), c) /\ Append(s, c) \in Seq(Calls) BY Push
<1> QED BY <1>1, <1>2 DEF Pushed

LEMMA ClearScript ==
  /\ ClearProxy \in Seq(Calls) /\ Len(ClearProxy) = 4
  /\ ClearProxy[1] = Call("set", Off) /\ ClearProxy[2] = Call("setting", "direct")
  /\ ClearProxy[3] = Call("text", Off) /\ ClearProxy[4] = Call("title", Off)
<1>1. PICK a \in Calls, b \in Calls : a = Call("set", Off) /\ b = Call("setting", "direct")
  BY CallTypes DEF Values
<1>2. PICK s \in Seq(Calls) :
        /\ s = Reflect(Off) /\ Len(s) = 2
        /\ s[1] = Call("text", Off) /\ s[2] = Call("title", Off)
  BY ReflectScript DEF Values
<1>3. ClearProxy = <<a, b>> \o s BY <1>1, <1>2 DEF ClearProxy
<1>4. PICK t : t = <<a, b>> \o s OBVIOUS
<1>5. /\ t \in Seq(Calls) /\ Len(t) = Len(s) + 2 /\ t[1] = a /\ t[2] = b
      /\ \A i \in 1..Len(s) : t[i + 2] = s[i]
  BY TwoCalls, <1>4
<1>6. 1 \in 1..Len(s) /\ 2 \in 1..Len(s) /\ Len(t) = 4 BY <1>2, <1>5
<1>7. t[1 + 2] = s[1] /\ t[2 + 2] = s[2] BY <1>5, <1>6
<1>8. ClearProxy = t BY <1>3, <1>4
<1> QED BY <1>1, <1>2, <1>5, <1>6, <1>7, <1>8

LEMMA ApplyScript ==
  ASSUME NEW p \in Proxies
  PROVE  /\ ApplyProxy(p) \in Seq(Calls) /\ Len(ApplyProxy(p)) = 6
         /\ ApplyProxy(p)[1] = Call("set", p) /\ ApplyProxy(p)[2] = Call("setting", "fixed")
         /\ ApplyProxy(p)[3] = Call("colour", p) /\ ApplyProxy(p)[4] = Call("text", p)
         /\ ApplyProxy(p)[5] = Call("title", p) /\ ApplyProxy(p)[6] = Call("flush", Off)
<1>1. PICK a \in Calls, b \in Calls, c \in Calls :
        a = Call("set", p) /\ b = Call("setting", "fixed") /\ c = Call("flush", Off)
  BY CallTypes DEF Values
<1>2. PICK s \in Seq(Calls) :
        /\ s = Reflect(p) /\ Len(s) = 3
        /\ s[1] = Call("colour", p) /\ s[2] = Call("text", p) /\ s[3] = Call("title", p)
  BY ReflectScript, Constants DEF Values
<1>3. ApplyProxy(p) = <<a, b>> \o s \o <<c>> BY <1>1, <1>2 DEF ApplyProxy
<1>4. PICK t : t = <<a, b>> \o s OBVIOUS
<1>5. /\ t \in Seq(Calls) /\ Len(t) = Len(s) + 2 /\ t[1] = a /\ t[2] = b
      /\ \A i \in 1..Len(s) : t[i + 2] = s[i]
  BY TwoCalls, <1>4
<1>6. 1 \in 1..Len(s) /\ 2 \in 1..Len(s) /\ 3 \in 1..Len(s) /\ Len(t) = 5
  BY <1>2, <1>5
<1>7. t[1 + 2] = s[1] /\ t[2 + 2] = s[2] /\ t[3 + 2] = s[3] BY <1>5, <1>6
<1>8. PICK w : w = t \o <<c>> OBVIOUS
<1>9. /\ w \in Seq(Calls) /\ Len(w) = Len(t) + 1 /\ w[Len(t) + 1] = c
      /\ \A i \in 1..Len(t) : w[i] = t[i]
  BY OneCall, <1>5, <1>8
<1>10. Len(w) = 6 /\ w[6] = c /\ \A i \in 1..5 : w[i] = t[i] BY <1>6, <1>9
<1>11. w[1] = a /\ w[2] = b /\ w[3] = s[1] /\ w[4] = s[2] /\ w[5] = s[3]
  BY <1>5, <1>7, <1>10
<1>12. ApplyProxy(p) = w BY <1>3, <1>4, <1>8
<1> QED BY <1>1, <1>2, <1>9, <1>10, <1>11, <1>12

\* What is left of a command once it has stored v, and once it is at the
\* browser as well.
LEMMA RestScript ==
  ASSUME NEW v \in Values
  PROVE  /\ Rest(v) \in Seq(Calls) /\ Rest(v) # <<>> /\ Tail(Rest(v)) \in Seq(Calls)
         /\ v = Off =>
              /\ Len(Rest(v)) = 3 /\ Rest(v)[1] = Call("setting", "direct")
              /\ Rest(v)[2] = Call("text", Off) /\ Rest(v)[3] = Call("title", Off)
              /\ Len(Tail(Rest(v))) = 2 /\ Tail(Rest(v))[1] = Call("text", Off)
              /\ Tail(Rest(v))[2] = Call("title", Off)
         /\ v # Off =>
              /\ Len(Rest(v)) = 5 /\ Rest(v)[1] = Call("setting", "fixed")
              /\ Rest(v)[2] = Call("colour", v) /\ Rest(v)[3] = Call("text", v)
              /\ Rest(v)[4] = Call("title", v) /\ Rest(v)[5] = Call("flush", Off)
              /\ Len(Tail(Rest(v))) = 4 /\ Tail(Rest(v))[1] = Call("colour", v)
              /\ Tail(Rest(v))[2] = Call("text", v) /\ Tail(Rest(v))[3] = Call("title", v)
              /\ Tail(Rest(v))[4] = Call("flush", Off)
<1>1. CASE v = Off
  <2>1. PICK s \in Seq(Calls) : s = ClearProxy /\ Len(s) = 4 BY ClearScript
  <2>2. /\ s[2] = Call("setting", "direct") /\ s[3] = Call("text", Off)
        /\ s[4] = Call("title", Off)
    BY ClearScript, <2>1
  <2>3. s # <<>> BY <2>1, EmptySeq
  <2>4. PICK t \in Seq(Calls) : t = Tail(s) /\ Popped(s, t) BY Pop, <2>3
  <2>5. Popped(s, t) BY <2>4
  <2>6. Len(t) = 3 /\ \A i \in 1..3 : t[i] = s[i + 1] BY <2>1, <2>5 DEF Popped
  <2>7. t[1] = s[2] /\ t[2] = s[3] /\ t[3] = s[4] BY <2>6
  <2>8. Len(t) > 0 BY <2>6
  <2>9. t # <<>> BY <2>8, EmptySeq
  <2>10. PICK u \in Seq(Calls) : u = Tail(t) /\ Popped(t, u) BY Pop, <2>9
  <2>11. Popped(t, u) BY <2>10
  <2>12. Len(u) = 2 /\ \A i \in 1..2 : u[i] = t[i + 1] BY <2>6, <2>11 DEF Popped
  <2>13. u[1] = t[2] /\ u[2] = t[3] BY <2>12
  <2>14. Rest(v) = t BY <1>1, <2>1, <2>4 DEF Rest
  <2> QED BY <1>1, <2>2, <2>6, <2>7, <2>9, <2>10, <2>12, <2>13, <2>14
<1>2. CASE v # Off
  <2>1. v \in Proxies BY <1>2 DEF Values
  <2>2. PICK s \in Seq(Calls) : s = ApplyProxy(v) /\ Len(s) = 6 BY ApplyScript, <2>1
  <2>3. /\ s[2] = Call("setting", "fixed") /\ s[3] = Call("colour", v)
        /\ s[4] = Call("text", v) /\ s[5] = Call("title", v) /\ s[6] = Call("flush", Off)
    BY ApplyScript, <2>1, <2>2
  <2>4. s # <<>> BY <2>2, EmptySeq
  <2>5. PICK t \in Seq(Calls) : t = Tail(s) /\ Popped(s, t) BY Pop, <2>4
  <2>6. Popped(s, t) BY <2>5
  <2>7. Len(t) = 5 /\ \A i \in 1..5 : t[i] = s[i + 1] BY <2>2, <2>6 DEF Popped
  <2>8. t[1] = s[2] /\ t[2] = s[3] /\ t[3] = s[4] /\ t[4] = s[5] /\ t[5] = s[6] BY <2>7
  <2>9. Len(t) > 0 BY <2>7
  <2>10. t # <<>> BY <2>9, EmptySeq
  <2>11. PICK u \in Seq(Calls) : u = Tail(t) /\ Popped(t, u) BY Pop, <2>10
  <2>12. Popped(t, u) BY <2>11
  <2>13. Len(u) = 4 /\ \A i \in 1..4 : u[i] = t[i + 1] BY <2>7, <2>12 DEF Popped
  <2>14. u[1] = t[2] /\ u[2] = t[3] /\ u[3] = t[4] /\ u[4] = t[5] BY <2>13
  <2>15. Rest(v) = t BY <1>2, <2>2, <2>5 DEF Rest
  <2> QED BY <1>2, <2>3, <2>7, <2>8, <2>10, <2>11, <2>13, <2>14, <2>15
<1> QED BY <1>1, <1>2

\* What is left of reflectState after its first call.
LEMMA ReflectTail ==
  ASSUME NEW p \in Values
  PROVE  /\ Reflect(p) # <<>> /\ Tail(Reflect(p)) \in Seq(Calls)
         /\ p # Off => /\ Len(Tail(Reflect(p))) = 2
                       /\ Tail(Reflect(p))[1] = Call("text", p)
                       /\ Tail(Reflect(p))[2] = Call("title", p)
         /\ p = Off => /\ Len(Tail(Reflect(p))) = 1
                       /\ Tail(Reflect(p))[1] = Call("title", p)
<1>1. PICK s \in Seq(Calls) : s = Reflect(p) BY ReflectScript
<1>2. /\ p # Off => Len(s) = 3 /\ s[2] = Call("text", p) /\ s[3] = Call("title", p)
      /\ p = Off => Len(s) = 2 /\ s[2] = Call("title", p)
  BY <1>1, ReflectScript
<1>3. Len(s) > 0 BY <1>2
<1>4. s # <<>> BY <1>3, EmptySeq
<1>5. PICK t \in Seq(Calls) : t = Tail(s) /\ Popped(s, t) BY <1>4, Pop
<1>6. Popped(s, t) BY <1>5
<1>7. p # Off => Len(t) = 2 /\ t[1] = s[2] /\ t[2] = s[3] BY <1>2, <1>6 DEF Popped
<1>8. p = Off => Len(t) = 1 /\ t[1] = s[2] BY <1>2, <1>6 DEF Popped
<1> QED BY <1>1, <1>2, <1>4, <1>5, <1>7, <1>8

-----------------------------------------------------------------------------
(* Types. *)

\* The types hold at first, and after each action.
LEMMA InitTypes == Init => Types
<1> SUFFICES ASSUME Init PROVE Types OBVIOUS
<1>1. TypeOK BY DEF Init, TypeOK
<1>2. calls \in [Queues -> Seq(Entries)] /\ todo \in [Handlers -> Seq(Calls)]
  BY EmptySeq DEF Init, Handlers
<1>3. 0 \in 0..MaxCommands BY ExtensionAssumption
<1> QED BY <1>1, <1>2, <1>3 DEF Init, Types

\* A call that goes to the end of its queue.
LEMMA GoesTypes ==
  ASSUME calls \in [Queues -> Seq(Entries)], todo \in [Handlers -> Seq(Calls)],
         NEW h \in Makers, NEW script \in Seq(Calls), script # <<>> => h \in Handlers,
         NEW queues \in [Queues -> Seq(Entries)], Goes(h, script, queues)
  PROVE  calls' \in [Queues -> Seq(Entries)] /\ todo' \in [Handlers -> Seq(Calls)]
<1>1. CASE script = <<>> BY <1>1 DEF Goes
<1>2. CASE script # <<>>
  <2>1. Head(script) \in Calls /\ Tail(script) \in Seq(Calls) BY <1>2, Pop, Queue
  <2>2. PICK q \in Queues : q = QueueOf(Head(script)) BY DEF QueueOf, Queues
  <2>3. Made(h, Head(script)) \in Entries BY <2>1 DEF Made, Entries
  <2>4. PICK t \in Seq(Entries) : t = Append(queues[q], Made(h, Head(script)))
    BY <2>3, Push
  <2>5. calls' = [queues EXCEPT ![q] = t] /\ todo' = [todo EXCEPT ![h] = Tail(script)]
    BY <1>2, <2>2, <2>4 DEF Goes
  <2> QED BY <1>2, <2>1, <2>5
<1> QED BY <1>1, <1>2

LEMMA BootTypes == ASSUME Types, BootWorker PROVE Types'
<1>1. PICK c \in Calls : c = Call("get", Off) BY CallTypes
<1>2. <<c>> \in Seq(Calls) OBVIOUS
<1>3. PICK script \in Seq(Calls) : script = <<Call("get", Off)>> BY <1>1, <1>2
<1>4. Goes(Boot, script, calls) BY <1>3 DEF BootWorker
<1>5. Boot \in Makers /\ Boot \in Handlers BY DEF Makers, Handlers
<1>6. calls' \in [Queues -> Seq(Entries)] /\ todo' \in [Handlers -> Seq(Calls)]
  BY <1>4, <1>5, GoesTypes DEF Types
<1> QED
  BY <1>6 DEF Types, TypeOK, BootWorker, storage, chrome, requests, counters, history

LEMMA CommandTypes ==
  ASSUME Types, NEW script \in Seq(Calls), Command(script),
         overtaken' \in BOOLEAN, crossed' \in BOOLEAN
  PROVE  Types'
<1>1. commands < MaxCommands /\ commands' = commands + 1 /\ Goes(commands + 1, script, calls)
  BY DEF Command, Click
<1>2. commands + 1 \in Commands BY <1>1, ExtensionAssumption DEF Types, Commands
<1>3. commands + 1 \in Makers /\ commands + 1 \in Handlers BY <1>2 DEF Makers, Handlers
<1>4. calls' \in [Queues -> Seq(Entries)] /\ todo' \in [Handlers -> Seq(Calls)]
  BY <1>1, <1>3, GoesTypes DEF Types
<1>5. commands' \in 0..MaxCommands BY <1>1, <1>2, ExtensionAssumption DEF Commands
<1> QED BY <1>4, <1>5 DEF Types, TypeOK, Command, storage, chrome, requests

LEMMA KillTypes == ASSUME Types, Kill PROVE Types'
<1>1. calls' \in [Queues -> Seq(Entries)]
  <2>1. ASSUME NEW q \in Queues
        PROVE  [i \in DOMAIN calls[q] |-> [calls[q][i] EXCEPT !.by = Gone]] \in Seq(Entries)
    <3>1. PICK s \in Seq(Entries) : s = calls[q] BY <2>1 DEF Types
    <3>2. Len(s) \in Nat /\ DOMAIN s = 1..Len(s) /\ \A i \in DOMAIN s : s[i] \in Entries
      BY Queue
    <3>3. \A e \in Entries : [e EXCEPT !.by = Gone] \in Entries BY DEF Entries, Makers
    <3> QED BY <3>1, <3>2, <3>3
  <2> QED BY <2>1 DEF Kill
<1>2. todo' \in [Handlers -> Seq(Calls)] BY EmptySeq DEF Kill, Types
<1>3. req' \in [Requests -> [at : {"new", "sent", "challenged", "asked", "answered", "over"},
                             as : Proxies \cup {Off}]]
  <2>1. req \in [Requests -> [at : {"new", "sent", "challenged", "asked", "answered", "over"},
                              as : Proxies \cup {Off}]]
    BY DEF Types, TypeOK
  <2>2. req' = [r \in Requests |->
                  IF req[r].at = "asked" THEN [req[r] EXCEPT !.at = "over"] ELSE req[r]]
    BY DEF Kill
  <2> QED BY ONLY <2>1, <2>2
<1>4. kills' \in Nat /\ cut' \in BOOLEAN BY DEF Kill, Types
<1> QED BY <1>1, <1>2, <1>3, <1>4 DEF Types, TypeOK, Kill, storage, chrome

LEMMA ServeTypes == ASSUME Types, NEW q \in Queues, Serve(q) PROVE Types'
<1>1. PICK s \in Seq(Entries) : s = calls[q] /\ s # <<>> BY DEF Serve, Types
<1>2. s[1] \in Entries /\ Tail(s) \in Seq(Entries) BY <1>1, Queue, Pop
<1>3. PICK h \in Makers, call \in Calls : s[1].by = h /\ s[1].call = call
  BY <1>2 DEF Entries
<1>4. First(q).by = h /\ First(q).call = call BY <1>1, <1>3 DEF First
<1>5. h # Gone => h \in Handlers BY <1>4 DEF Serve, Makers
<1>6. PICK script \in Seq(Calls) :
        script = IF h = Gone THEN <<>> ELSE IF call.op = "get" THEN Reflect(active) ELSE todo[h]
  BY <1>5, ReflectScript, EmptySeq DEF Types, TypeOK, Values
<1>7. PICK left \in [Queues -> Seq(Entries)] : left = [calls EXCEPT ![q] = Tail(@)]
  BY <1>1, <1>2 DEF Types
<1>8. Goes(h, script, left) BY <1>4, <1>6, <1>7 DEF Serve
<1>9. script # <<>> => h \in Handlers BY <1>5, <1>6
<1>10. calls' \in [Queues -> Seq(Entries)] /\ todo' \in [Handlers -> Seq(Calls)]
  BY <1>8, <1>9, GoesTypes DEF Types
<1>11. /\ active' = (IF call.op = "set" THEN call.val ELSE active)
       /\ setting' = (IF call.op = "setting" THEN call.val ELSE setting)
       /\ icon' = (IF call.op \in {"text", "title"} THEN [icon EXCEPT ![call.op] = call.val] ELSE icon)
       /\ cache' = (IF call.op = "flush" THEN Off ELSE cache)
       /\ crossed' \in BOOLEAN
  BY <1>4 DEF Serve, Types
<1>12. active' \in Proxies \cup {Off} BY <1>11 DEF Types, TypeOK, Calls, Values
<1>13. setting' \in {"direct", "fixed"} BY <1>11 DEF Types, TypeOK, Calls, Values
<1>14. icon' \in [text : Proxies \cup {Off}, title : Proxies \cup {Off}]
  <2>1. call.op \in {"text", "title"} => call.val \in Proxies \cup {Off} BY DEF Calls, Values
  <2> QED BY <1>11, <2>1 DEF Types, TypeOK
<1>15. cache' \in Proxies \cup {Off} BY <1>11 DEF Types, TypeOK
<1> QED
  BY <1>10, <1>11, <1>12, <1>13, <1>14, <1>15
  DEF Types, TypeOK, Serve, requests, counters

LEMMA RequestTypes ==
  ASSUME Types, NEW r \in Requests,
         \/ RequestStarts(r) \/ RequestEnds(r) \/ Reject(r)
         \/ OnAuthRequired(r) \/ Offer(r) \/ TakeAnswer(r)
  PROVE  Types'
<1> DEFINE Ats == {"new", "sent", "challenged", "asked", "answered", "over"}
<1>1. ASSUME NEW at \in Ats, NEW as \in Values, Becomes(r, at, as)
      PROVE  req' \in [Requests -> [at : Ats, as : Values]]
  <2>1. [at |-> at, as |-> as] \in [at : Ats, as : Values] OBVIOUS
  <2>2. req \in [Requests -> [at : Ats, as : Values]] BY DEF Types, TypeOK, Values
  <2>3. req' = [req EXCEPT ![r] = [at |-> at, as |-> as]] BY <1>1 DEF Becomes
  <2> HIDE DEF Ats
  <2> QED BY ONLY <2>1, <2>2, <2>3
<1>2. req[r].as \in Values /\ cache \in Values /\ active \in Values /\ Off \in Values
  BY DEF Types, TypeOK, Values
<1>3. req' \in [Requests -> [at : Ats, as : Values]]
  BY <1>1, <1>2 DEF RequestStarts, RequestEnds, Reject, OnAuthRequired, Offer, TakeAnswer
<1>4. calls' \in [Queues -> Seq(Entries)]
  <2>1. CASE OnAuthRequired(r)
    <3>1. PICK s \in Seq(Entries) : s = calls["storage"] BY Constants DEF Types
    <3>2. Made(r, Call("get", Off)) \in Entries BY CallTypes DEF Made, Entries, Makers
    <3>3. Append(s, Made(r, Call("get", Off))) \in Seq(Entries) BY <3>2, Push
    <3> QED BY <2>1, <3>1, <3>3 DEF OnAuthRequired, Types
  <2>2. CASE Offer(r)
    <3>1. PICK s \in Seq(Entries) : s = calls["storage"] /\ s # <<>>
      BY <2>2, Constants DEF Types, Offer
    <3>2. Tail(s) \in Seq(Entries) BY <3>1, Pop
    <3> QED BY <2>2, <3>1, <3>2 DEF Offer, Types
  <2> QED
    BY <2>1, <2>2 DEF Types, RequestStarts, RequestEnds, Reject, TakeAnswer, worker
<1>5. todo' = todo /\ up' = up
  BY DEF RequestStarts, RequestEnds, Reject, OnAuthRequired, Offer, TakeAnswer, worker
<1>6. cache' \in Values
  BY <1>2 DEF RequestStarts, RequestEnds, Reject, OnAuthRequired, Offer, TakeAnswer, chrome
<1>7. offers' \in [Requests -> Nat]
  BY DEF Types, RequestStarts, RequestEnds, Reject, OnAuthRequired, Offer, TakeAnswer
<1>8. credentialed' \in SUBSET Requests
  BY DEF Types, TypeOK, RequestStarts, RequestEnds, Reject, OnAuthRequired, Offer, TakeAnswer,
         worker
<1>9. UNCHANGED <<storage, setting, icon, refreshing, counters, history>>
  BY DEF RequestStarts, RequestEnds, Reject, OnAuthRequired, Offer, TakeAnswer, chrome
<1> QED
  BY <1>3, <1>4, <1>5, <1>6, <1>7, <1>8, <1>9
  DEF Types, TypeOK, storage, counters, history, Values

LEMMA PopupTypes ==
  ASSUME Types,
         \/ AddSubscription \/ RemoveSubscription
         \/ RefreshBegins \/ RefreshStores \/ PopupCloses
  PROVE  Types'
<1>1. UNCHANGED others /\ subscribed' \in BOOLEAN /\ refreshing' \in BOOLEAN
  BY DEF Types, TypeOK, AddSubscription, RemoveSubscription, RefreshBegins, RefreshStores,
         PopupCloses
<1>2. commands' \in 0..MaxCommands
  BY ExtensionAssumption
  DEF Types, AddSubscription, RemoveSubscription, RefreshBegins, RefreshStores, PopupCloses,
      Click
<1> QED BY <1>1, <1>2 DEF Types, TypeOK, others, chrome, worker, requests, history

LEMMA NextTypes == ASSUME Types, [Next]_vars PROVE Types'
<1>1. CASE BootWorker BY <1>1, BootTypes
<1>2. CASE Kill BY <1>2, KillTypes
<1>3. CASE DisableProxy
  BY <1>3, CommandTypes, ClearScript DEF DisableProxy, Types
<1>4. CASE \E p \in Proxies : SelectProxy(p)
  BY <1>4, CommandTypes, ApplyScript DEF SelectProxy
<1>5. CASE \/ AddSubscription \/ RemoveSubscription
           \/ RefreshBegins \/ RefreshStores \/ PopupCloses
  BY <1>5, PopupTypes
<1>6. CASE \E q \in Queues : Serve(q) BY <1>6, ServeTypes
<1>7. CASE \E r \in Requests :
             \/ RequestStarts(r) \/ RequestEnds(r) \/ Reject(r)
             \/ OnAuthRequired(r) \/ Offer(r) \/ TakeAnswer(r)
  BY <1>7, RequestTypes
<1>8. CASE UNCHANGED vars
  BY <1>8 DEF Types, TypeOK, vars, storage, chrome, worker, requests, counters, history
<1> QED BY <1>1, <1>2, <1>3, <1>4, <1>5, <1>6, <1>7, <1>8 DEF Next

\* Storage, settings, icon, credential cache and requests keep their types.
THEOREM ExtensionTypes == Spec => []TypeOK
<1>1. Types => TypeOK BY DEF Types
<1>2. Types /\ [Next]_vars => Types' BY NextTypes
<1> QED BY <1>1, <1>2, InitTypes, PTL DEF Spec

-----------------------------------------------------------------------------
(* Offers. *)

\* A request that the running worker has offered credentials is marked, or over.
OfferInv ==
  \A r \in Requests :
    /\ \/ offers[r] <= kills
       \/ (offers[r] = kills + 1 /\ (r \in credentialed \/ req[r].at = "over"))
    /\ req[r].at = "asked" => r \notin credentialed

\* Each action keeps OfferInv: a marked request is offered nothing.
LEMMA OfferStep == ASSUME Types, OfferInv, [Next]_vars PROVE OfferInv'
<1>1. kills \in Nat /\ \A x \in Requests : offers[x] \in Nat BY DEF Types
<1>2. CASE UNCHANGED <<offers, kills, credentialed, req>>
  BY <1>2 DEF OfferInv
<1>3. CASE Kill
  <2>1. /\ kills' = kills + 1 /\ offers' = offers /\ credentialed' = {}
    BY <1>3 DEF Kill
  <2> QED BY <1>1, <2>1 DEF OfferInv
<1>4. ASSUME NEW r \in Requests,
             \/ RequestStarts(r) \/ RequestEnds(r) \/ Reject(r)
             \/ OnAuthRequired(r) \/ Offer(r) \/ TakeAnswer(r)
      PROVE  OfferInv'
  <2>1. kills' = kills
    BY <1>4 DEF RequestStarts, RequestEnds, Reject, OnAuthRequired, Offer, TakeAnswer, counters
  <2>2. ASSUME NEW x \in Requests, x # r
        PROVE  /\ req'[x] = req[x] /\ offers'[x] = offers[x]
               /\ x \in credentialed' <=> x \in credentialed
    <3>1. req'[x] = req[x]
      BY <1>4, <2>2 DEF RequestStarts, RequestEnds, Reject, OnAuthRequired, Offer, TakeAnswer,
                        Becomes, Types, TypeOK
    <3>2. offers'[x] = offers[x]
      BY <1>4, <2>2 DEF RequestStarts, RequestEnds, Reject, OnAuthRequired, Offer, TakeAnswer,
                        Types
    <3>3. x \in credentialed' <=> x \in credentialed
      BY <1>4, <2>2 DEF RequestStarts, RequestEnds, Reject, OnAuthRequired, Offer, TakeAnswer,
                        worker
    <3> QED BY <3>1, <3>2, <3>3
  <2>3. \A at, as : Becomes(r, at, as) => req'[r].at = at BY DEF Becomes, Types, TypeOK
  <2>4. /\ \/ offers'[r] <= kills
           \/ (offers'[r] = kills + 1 /\ (r \in credentialed' \/ req'[r].at = "over"))
        /\ req'[r].at = "asked" => r \notin credentialed'
    <3>1. CASE RequestStarts(r) \/ Reject(r) \/ TakeAnswer(r)
      BY <3>1, <2>3 DEF RequestStarts, Reject, TakeAnswer, OfferInv, worker
    <3>2. CASE RequestEnds(r)
      BY <3>2, <2>3 DEF RequestEnds, OfferInv
    <3>3. CASE OnAuthRequired(r)
      BY <3>3, <2>3 DEF OnAuthRequired, OfferInv
    <3>4. CASE Offer(r)
      <4>1. CASE req[r].at = "asked" /\ active # Off
        <5>1. offers'[r] = offers[r] + 1 BY <3>4, <4>1 DEF Offer, Types
        <5>2. offers[r] <= kills BY <4>1 DEF OfferInv
        <5>3. r \in credentialed' /\ req'[r].at = "answered"
          BY <3>4, <4>1, <2>3 DEF Offer
        <5> QED BY <1>1, <5>1, <5>2, <5>3
      <4>2. CASE ~(req[r].at = "asked" /\ active # Off)
        BY <3>4, <4>2, <2>3 DEF Offer, OfferInv
      <4> QED BY <4>1, <4>2
    <3> QED BY <1>4, <3>1, <3>2, <3>3, <3>4
  <2> QED BY <2>1, <2>2, <2>4 DEF OfferInv
<1>5. CASE BootWorker BY <1>5, <1>2 DEF BootWorker, requests, counters
<1>6. CASE DisableProxy BY <1>6, <1>2 DEF DisableProxy, Command, requests
<1>7. CASE \E p \in Proxies : SelectProxy(p)
  BY <1>7, <1>2 DEF SelectProxy, Command, requests
<1>8. CASE \/ AddSubscription \/ RemoveSubscription
           \/ RefreshBegins \/ RefreshStores \/ PopupCloses
  BY <1>8, <1>2
  DEF AddSubscription, RemoveSubscription, RefreshBegins, RefreshStores, PopupCloses, others,
      worker, requests
<1>9. CASE \E q \in Queues : Serve(q) BY <1>9, <1>2 DEF Serve, requests, counters
<1>10. CASE UNCHANGED vars BY <1>10, <1>2 DEF vars, worker, requests, counters
<1> QED BY <1>3, <1>4, <1>5, <1>6, <1>7, <1>8, <1>9, <1>10 DEF Next

\* Rejected credentials are not sent again for the same request by one worker
\* (background.js:16-20 and 117-150): an answer that leaves marks the request, and
\* only its cancellation, its end or that of the worker takes the mark away.
THEOREM CredentialsOfferedOnce == Spec => []OfferedOnce
<1>1. Init => Types /\ OfferInv
  <2>1. Init => OfferInv BY DEF Init, OfferInv
  <2> QED BY <2>1, InitTypes
<1>2. Types /\ OfferInv /\ [Next]_vars => (Types /\ OfferInv)'
  BY NextTypes, OfferStep
<1>3. Types /\ OfferInv => OfferedOnce
  <2> SUFFICES ASSUME Types, OfferInv, NEW r \in Requests PROVE offers[r] <= 1 + kills
    BY DEF OfferedOnce
  <2>1. offers[r] \in Nat /\ kills \in Nat BY DEF Types
  <2>2. offers[r] <= kills \/ offers[r] = kills + 1 BY DEF OfferInv
  <2> QED BY ONLY <2>1, <2>2
<1> QED BY <1>1, <1>2, <1>3, PTL DEF Spec

-----------------------------------------------------------------------------
(* The steps, as the two queues see them. *)

NoNewAnswer ==
  \A r \in Requests : req'[r].at = "answered" => req'[r] = req[r] \/ req'[r].as = active

BootEnters ==
  /\ ~up /\ up' = TRUE /\ Pushed(Stored, Stored', Made(Boot, Call("get", Off)))
  /\ Browser' = Browser /\ todo' = [todo EXCEPT ![Boot] = <<>>]
  /\ UNCHANGED <<active, chrome, req, commands, history>>

CommandEnters(h, v) ==
  /\ up /\ h = commands + 1 /\ commands' = h
  /\ Pushed(Stored, Stored', Made(h, Call("set", v)))
  /\ Browser' = Browser /\ todo' = [todo EXCEPT ![h] = Rest(v)]
  /\ cut' = FALSE /\ (overtaken' <=> v = Off /\ \E g \in Commands : Applying(g))
  /\ UNCHANGED <<active, chrome, up, req>>

RequestEnters(r) ==
  /\ up /\ Pushed(Stored, Stored', Made(r, Call("get", Off))) /\ Browser' = Browser
  /\ NoNewAnswer /\ UNCHANGED <<active, chrome, up, todo, commands, history>>

RequestLeaves(r) ==
  /\ Popped(Stored, Stored') /\ Stored[1].by = r /\ Browser' = Browser
  /\ NoNewAnswer /\ UNCHANGED <<active, chrome, up, todo, commands, history>>

\* A call of a worker that has ended.
LateLeaves ==
  /\ Popped(Stored, Stored') /\ Stored[1].by = Gone /\ Browser' = Browser
  /\ active' = (IF Stored[1].call.op = "set" THEN Stored[1].call.val ELSE active)
  /\ UNCHANGED <<chrome, up, todo, req, commands, history>>

BootMoves ==
  /\ Popped(Stored, Stored') /\ Stored[1].by = Boot
  /\ Pushed(Browser, Browser', Made(Boot, Reflect(active)[1]))
  /\ todo' = [todo EXCEPT ![Boot] = Tail(Reflect(active))]
  /\ UNCHANGED <<active, chrome, up, req, commands, history>>

CommandMoves(h, v) ==
  /\ Popped(Stored, Stored') /\ Stored[1] = Made(h, Call("set", v)) /\ todo[h] = Rest(v)
  /\ Pushed(Browser, Browser', Made(h, Rest(v)[1]))
  /\ todo' = [todo EXCEPT ![h] = Tail(Rest(v))] /\ active' = v
  /\ UNCHANGED <<chrome, up, req, commands, history>>

\* What the browser's first call does.
Effect(call) ==
  /\ setting' = (IF call.op = "setting" THEN call.val ELSE setting)
  /\ icon' = (IF call.op \in {"text", "title"} THEN [icon EXCEPT ![call.op] = call.val] ELSE icon)
  /\ cache' = (IF call.op = "flush" THEN Off ELSE cache)
  /\ crossed' <=> \/ crossed
                  \/ /\ call.op = "flush"
                     /\ \E r \in Requests : req[r].at = "answered" /\ req[r].as # active

BrowserLeaves ==
  /\ Popped(Browser, Browser') /\ Stored' = Stored /\ todo' = todo
  /\ Browser[1].by \in Handlers => todo[Browser[1].by] = <<>>
  /\ Effect(Browser[1].call)
  /\ UNCHANGED <<active, up, req, commands, cut, overtaken>>

BrowserTurns(h) ==
  /\ Browser[1].by = h /\ todo[h] # <<>> /\ Cycled(Browser, Browser', Made(h, todo[h][1]))
  /\ Stored' = Stored /\ todo' = [todo EXCEPT ![h] = Tail(todo[h])]
  /\ Effect(Browser[1].call)
  /\ UNCHANGED <<active, up, req, commands, cut, overtaken>>

\* Nothing that concerns the queues.
Elsewhere ==
  /\ UNCHANGED <<active, setting, icon, up, calls, todo, history>> /\ commands' >= commands
  /\ NoNewAnswer
  /\ cache' \in {cache, Off} \/ \E r \in Requests : req[r].at = "answered" /\ cache' = req[r].as

Step ==
  \/ Kill \/ BootEnters \/ LateLeaves \/ BootMoves \/ BrowserLeaves \/ Elsewhere
  \/ \E h \in Commands, v \in Values : CommandEnters(h, v) \/ CommandMoves(h, v)
  \/ \E r \in Requests : RequestEnters(r) \/ RequestLeaves(r)
  \/ \E h \in Handlers : BrowserTurns(h)

\* The queues hold entries, before a step and after it.
LEMMA QueueTypes ==
  ASSUME Types
  PROVE  /\ Stored \in Seq(Entries) /\ Browser \in Seq(Entries)
         /\ \A h \in Handlers : todo[h] \in Seq(Calls)
  BY Constants DEF Types, Stored, Browser

LEMMA NextQueues ==
  ASSUME Types'
  PROVE  /\ Stored' \in Seq(Entries) /\ Browser' \in Seq(Entries)
         /\ \A h \in Handlers : todo'[h] \in Seq(Calls)
  BY Constants DEF Types, Stored, Browser

\* One queue changes.
LEMMA CallsExcept ==
  ASSUME Types, NEW t
  PROVE  /\ calls' = [calls EXCEPT !["storage"] = t] => Stored' = t /\ Browser' = Browser
         /\ calls' = [calls EXCEPT !["browser"] = t] => Browser' = t /\ Stored' = Stored
  BY Constants DEF Types, Stored, Browser

\* The actions, each as one of these steps.
LEMMA BootStep == ASSUME Types, BootWorker PROVE BootEnters
<1>1. PICK c \in Calls : c = Call("get", Off) BY CallTypes
<1>2. PICK e \in Entries : e = Made(Boot, c) BY DEF Made, Entries, Makers, Handlers
<1>3. PICK t \in Seq(Entries) : t = Append(Stored, e) /\ Pushed(Stored, t, e)
  BY Push, QueueTypes
<1>4. calls' = [calls EXCEPT !["storage"] = t] /\ todo' = [todo EXCEPT ![Boot] = <<>>]
  <2>1. PICK s : s = <<c>> OBVIOUS
  <2>2. s # <<>> /\ Head(s) = c /\ Tail(s) = <<>> BY <2>1
  <2>3. Goes(Boot, s, calls) BY <1>1, <2>1 DEF BootWorker
  <2>4. QueueOf(c) = "storage" BY <1>1 DEF QueueOf, Call
  <2> QED BY <1>2, <1>3, <2>2, <2>3, <2>4 DEF Goes, Stored
<1>5. Stored' = t /\ Browser' = Browser BY <1>4, CallsExcept
<1>6. Pushed(Stored, Stored', Made(Boot, Call("get", Off))) BY <1>1, <1>2, <1>3, <1>5
<1> QED
  BY <1>4, <1>5, <1>6 DEF BootEnters, BootWorker, storage, requests, counters, history

\* The script of a command is "set" and the rest.
LEMMA CommandStep ==
  ASSUME Types, NEW v \in Values, NEW script \in Seq(Calls), script # <<>>,
         script[1] = Call("set", v), Tail(script) = Rest(v), Command(script),
         overtaken' <=> v = Off /\ \E h \in Commands : Applying(h)
  PROVE  \E h \in Commands : CommandEnters(h, v)
<1>1. PICK h \in Commands : h = commands + 1
  BY ExtensionAssumption DEF Types, Commands, Command, Click
<1>2. PICK e \in Entries : e = Made(h, Call("set", v))
  BY CallTypes DEF Made, Entries, Makers, Handlers
<1>3. PICK t \in Seq(Entries) : t = Append(Stored, e) /\ Pushed(Stored, t, e)
  BY Push, QueueTypes
<1>4. calls' = [calls EXCEPT !["storage"] = t] /\ todo' = [todo EXCEPT ![h] = Rest(v)]
  <2>1. Goes(h, script, calls) BY <1>1 DEF Command
  <2>2. Head(script) = Call("set", v) BY Pop
  <2>3. QueueOf(Head(script)) = "storage" BY <2>2 DEF QueueOf, Call
  <2> QED BY <1>2, <1>3, <2>1, <2>2, <2>3 DEF Goes, Stored
<1>5. Stored' = t /\ Browser' = Browser BY <1>4, CallsExcept
<1>6. Pushed(Stored, Stored', Made(h, Call("set", v))) BY <1>2, <1>3, <1>5
<1>7. CommandEnters(h, v)
  BY <1>1, <1>4, <1>5, <1>6 DEF CommandEnters, Command, Click, storage, requests
<1> QED BY <1>7

\* The browser serves a call to the storage.
LEMMA StorageStep ==
  ASSUME Types, Shape, Serve("storage")
  PROVE  LateLeaves \/ BootMoves \/ \E h \in Commands, v \in Values : CommandMoves(h, v)
<1>1. Stored # <<>> /\ Stored \in Seq(Entries) BY QueueTypes DEF Serve, Stored
<1>2. PICK t \in Seq(Entries) : t = Tail(Stored) /\ Popped(Stored, t) BY Pop, <1>1
<1>3. 1 \in DOMAIN Stored BY <1>1, Queue
<1>4. PICK e \in Entries : e = Stored[1] BY <1>1, <1>3, Queue
<1>5. PICK h \in Makers, call \in Calls : h = e.by /\ call = e.call BY DEF Entries
<1>6. First("storage") = e BY <1>4 DEF First, Stored
<1>7. StoredEntry(e) BY <1>3, <1>4 DEF Shape, StoredShape
<1>8. call.op \in {"get", "set"} BY <1>5, <1>7 DEF StoredEntry
<1>9. PICK left : left = [calls EXCEPT !["storage"] = Tail(@)] OBVIOUS
<1>10. PICK script \in Seq(Calls) :
         script = IF h = Gone THEN <<>> ELSE IF call.op = "get" THEN Reflect(active) ELSE todo[h]
  <2>1. h # Gone => h \in Handlers BY <1>5, <1>6 DEF Serve, Makers
  <2> QED BY <2>1, ReflectScript, EmptySeq DEF Types, TypeOK, Values
<1>11. Goes(h, script, left) BY <1>5, <1>6, <1>9, <1>10 DEF Serve
<1>12. /\ active' = (IF call.op = "set" THEN call.val ELSE active)
       /\ UNCHANGED <<chrome, crossed>>
  BY <1>5, <1>6, <1>8 DEF Serve, chrome, Types
<1>13. UNCHANGED <<up, req, commands, cut, overtaken>>
  BY DEF Serve, requests, counters
<1>14. left = [calls EXCEPT !["storage"] = t] BY <1>2, <1>9 DEF Stored
<1>15. CASE h = Gone
  <2>1. calls' = [calls EXCEPT !["storage"] = t] /\ todo' = todo
    BY <1>10, <1>11, <1>14, <1>15 DEF Goes
  <2>2. Stored' = t /\ Browser' = Browser BY <2>1, CallsExcept
  <2> QED
    BY <1>2, <1>4, <1>5, <1>12, <1>13, <1>15, <2>1, <2>2 DEF LateLeaves, history
<1>16. ASSUME h # Gone, script # <<>>, QueueOf(Head(script)) = "browser"
       PROVE  /\ Popped(Stored, Stored') /\ Pushed(Browser, Browser', Made(h, script[1]))
              /\ todo' = [todo EXCEPT ![h] = Tail(script)]
  <2>1. h \in Handlers BY <1>5, <1>6, <1>16 DEF Serve, Makers
  <2>2. Head(script) = script[1] /\ script[1] \in Calls BY <1>16, Pop, Queue
  <2>3. PICK m \in Entries : m = Made(h, script[1]) BY <2>2 DEF Made, Entries
  <2>4. PICK u \in Seq(Entries) : u = Append(Browser, m) /\ Pushed(Browser, u, m)
    BY Push, QueueTypes
  <2>5. /\ calls' = [left EXCEPT !["browser"] = Append(@, m)]
        /\ todo' = [todo EXCEPT ![h] = Tail(script)]
    BY <1>11, <1>16, <2>2, <2>3 DEF Goes
  <2>6. left["browser"] = Browser /\ left["storage"] = t /\ "browser" \in DOMAIN left
    BY <1>14, Constants DEF Types, Browser
  <2>7. calls'["browser"] = u /\ calls'["storage"] = t
    BY <1>14, <2>4, <2>5, <2>6, Constants DEF Types
  <2> QED BY <1>2, <2>3, <2>4, <2>5, <2>7 DEF Stored, Browser
<1>17. CASE h = Boot
  <2>1. call.op = "get" /\ h # Gone
    BY <1>5, <1>7, <1>17, Constants DEF StoredEntry
  <2>2. PICK p \in Values : p = active BY DEF Types, TypeOK, Values
  <2>3. script = Reflect(p) BY <1>10, <2>1, <2>2
  <2>4. Len(script) > 0 /\ (script[1] = Call("colour", p) \/ script[1] = Call("text", p))
    BY <2>3, ReflectScript
  <2>5. script # <<>> BY <2>4, EmptySeq
  <2>6. script # <<>> /\ script[1].op \in {"colour", "text"} BY <2>4, <2>5 DEF Call
  <2>7. QueueOf(Head(script)) = "browser" BY <2>6, Pop DEF QueueOf
  <2>8. active' = active BY <1>12, <2>1
  <2> QED
    BY <1>4, <1>5, <1>12, <1>13, <1>16, <1>17, <2>1, <2>2, <2>3, <2>6, <2>7, <2>8
    DEF BootMoves, history
<1>18. CASE h \in Commands
  <2>1. call.op = "set" /\ h # Gone /\ todo[h] = Rest(call.val)
    BY <1>5, <1>7, <1>18, Constants DEF StoredEntry
  <2>2. PICK v \in Values : v = call.val BY <2>1 DEF Calls
  <2>3. script = Rest(v) /\ todo[h] = Rest(v) BY <1>10, <2>1, <2>2
  <2>4. script # <<>> /\ \E x : script[1] = Call("setting", x) BY <2>3, RestScript
  <2>5. script # <<>> /\ script[1].op = "setting" BY <2>4 DEF Call
  <2>6. QueueOf(Head(script)) = "browser" BY <2>5, Pop DEF QueueOf
  <2>7. call = Call("set", v) BY <2>1, <2>2 DEF Calls, Call
  <2>8. Stored[1] = Made(h, Call("set", v)) BY <1>4, <1>5, <2>7 DEF Made, Entries
  <2>9. active' = v BY <1>12, <2>1, <2>2
  <2>10. CommandMoves(h, v)
    BY <1>12, <1>13, <1>16, <2>1, <2>3, <2>5, <2>6, <2>8, <2>9 DEF CommandMoves, history
  <2> QED BY <1>18, <2>10
<1>19. h = Gone \/ h = Boot \/ h \in Commands
  BY <1>5, <1>6, Constants DEF Serve, Makers
<1> QED BY <1>15, <1>17, <1>18, <1>19

\* ... and one of the others.
LEMMA BrowserStep ==
  ASSUME Types, Shape, Serve("browser")
  PROVE  BrowserLeaves \/ \E h \in Handlers : BrowserTurns(h)
<1>1. Browser # <<>> /\ Browser \in Seq(Entries) BY QueueTypes DEF Serve, Browser
<1>2. PICK t \in Seq(Entries) : t = Tail(Browser) /\ Popped(Browser, t) BY Pop, <1>1
<1>3. 1 \in DOMAIN Browser BY <1>1, Queue
<1>4. PICK e \in Entries : e = Browser[1] BY <1>1, <1>3, Queue
<1>5. PICK h \in Makers, call \in Calls : h = e.by /\ call = e.call BY DEF Entries
<1>6. First("browser") = e BY <1>4 DEF First, Browser
<1>7. BrowserEntry(e) BY <1>3, <1>4 DEF Shape, BrowserShape
<1>8. call.op \notin {"get", "set"} BY <1>5, <1>7 DEF BrowserEntry
<1>9. PICK left : left = [calls EXCEPT !["browser"] = t] OBVIOUS
<1>10. PICK script : script = IF h = Gone THEN <<>> ELSE todo[h] OBVIOUS
<1>11. Goes(h, script, left)
  <2>1. left = [calls EXCEPT !["browser"] = Tail(@)] BY <1>2, <1>9 DEF Browser
  <2> QED BY <1>5, <1>6, <1>8, <1>10, <2>1 DEF Serve
<1>12. active' = active /\ Effect(call) BY <1>5, <1>6, <1>8 DEF Serve, Effect
<1>13. UNCHANGED <<up, req, commands, cut, overtaken>>
  BY DEF Serve, requests, counters
<1>14. h # Gone => h \in Handlers BY <1>5, <1>6 DEF Serve, Makers
<1>15. CASE script = <<>>
  <2>1. calls' = [calls EXCEPT !["browser"] = t] /\ todo' = todo
    BY <1>9, <1>11, <1>15 DEF Goes
  <2>2. Stored' = Stored /\ Browser' = t BY <2>1, CallsExcept
  <2>3. Browser[1].by \in Handlers => todo[Browser[1].by] = <<>>
    BY <1>4, <1>5, <1>10, <1>15, Constants
  <2> QED
    BY <1>2, <1>4, <1>5, <1>12, <1>13, <2>1, <2>2, <2>3 DEF BrowserLeaves
<1>16. CASE script # <<>>
  <2>1. h # Gone /\ h \in Handlers /\ script = todo[h] /\ script \in Seq(Calls)
    BY <1>10, <1>14, <1>16, QueueTypes
  <2>2. Head(script) = script[1] /\ script[1] \in Calls /\ 1 \in DOMAIN script
    BY <1>16, <2>1, Pop, Queue
  <2>3. script[1].op \in {"colour", "text", "title", "flush"}
    BY <1>5, <1>7, <2>1, <2>2 DEF BrowserEntry, Remaining
  <2>4. QueueOf(Head(script)) = "browser" BY <2>2, <2>3 DEF QueueOf
  <2>5. PICK m \in Entries : m = Made(h, script[1]) BY <2>2 DEF Made, Entries
  <2>6. PICK u \in Seq(Entries) :
          u = Append(Tail(Browser), m) /\ Cycled(Browser, u, m)
    BY Cycle, <1>1
  <2>7. /\ calls' = [left EXCEPT !["browser"] = Append(@, m)]
        /\ todo' = [todo EXCEPT ![h] = Tail(script)]
    BY <1>11, <1>16, <2>2, <2>4, <2>5 DEF Goes
  <2>8. left["browser"] = t BY <1>9, Constants DEF Types
  <2>9. calls' = [calls EXCEPT !["browser"] = u] BY <1>2, <1>9, <2>6, <2>7, <2>8
  <2>10. Stored' = Stored /\ Browser' = u BY <2>9, CallsExcept
  <2>11. BrowserTurns(h)
    BY <1>4, <1>5, <1>12, <1>13, <1>16, <2>1, <2>5, <2>6, <2>7, <2>10 DEF BrowserTurns
  <2> QED BY <2>1, <2>11
<1> QED BY <1>15, <1>16

\* A request enters or leaves the storage queue, or moves elsewhere.
LEMMA RequestStep ==
  ASSUME Types, NEW r \in Requests,
         \/ RequestStarts(r) \/ RequestEnds(r) \/ Reject(r)
         \/ OnAuthRequired(r) \/ Offer(r) \/ TakeAnswer(r)
  PROVE  Elsewhere \/ RequestEnters(r) \/ RequestLeaves(r)
<1>1. \A at, as : Becomes(r, at, as) =>
        /\ req'[r].at = at /\ req'[r].as = as
        /\ \A x \in Requests : x # r => req'[x] = req[x]
  BY DEF Becomes, Types, TypeOK
<1>2. NoNewAnswer
  BY <1>1 DEF RequestStarts, RequestEnds, Reject, OnAuthRequired, Offer, TakeAnswer,
              NoNewAnswer
<1>3. /\ UNCHANGED <<active, setting, icon, up, todo, commands, history>>
      /\ commands' >= commands
  BY DEF RequestStarts, RequestEnds, Reject, OnAuthRequired, Offer, TakeAnswer, storage,
         chrome, worker, counters, Types
<1>4. CASE RequestStarts(r) \/ RequestEnds(r) \/ Reject(r) \/ TakeAnswer(r)
  <2>1. calls' = calls BY <1>4 DEF RequestStarts, RequestEnds, Reject, TakeAnswer, worker
  <2>2. cache' \in {cache, Off}
        \/ \E x \in Requests : req[x].at = "answered" /\ cache' = req[x].as
    BY <1>4 DEF RequestStarts, RequestEnds, Reject, TakeAnswer, chrome
  <2> QED BY <1>2, <1>3, <2>1, <2>2 DEF Elsewhere
<1>5. CASE OnAuthRequired(r)
  <2>1. cache' = cache /\ up BY <1>5 DEF OnAuthRequired, chrome
  <2>2. CASE calls' = calls BY <1>2, <1>3, <2>1, <2>2 DEF Elsewhere
  <2>3. CASE calls' = [calls EXCEPT !["storage"] = Append(@, Made(r, Call("get", Off)))]
    <3>1. PICK e \in Entries : e = Made(r, Call("get", Off))
      BY CallTypes DEF Made, Entries, Makers
    <3>2. PICK t \in Seq(Entries) : t = Append(Stored, e) /\ Pushed(Stored, t, e)
      BY Push, QueueTypes
    <3>3. calls' = [calls EXCEPT !["storage"] = t] BY <2>3, <3>1, <3>2 DEF Stored
    <3>4. Stored' = t /\ Browser' = Browser BY <3>3, CallsExcept
    <3>5. RequestEnters(r)
      BY <1>2, <1>3, <2>1, <3>1, <3>2, <3>4 DEF RequestEnters, chrome
    <3> QED BY <3>5
  <2> QED BY <1>5, <2>2, <2>3 DEF OnAuthRequired
<1>6. CASE Offer(r)
  <2>1. Stored # <<>> /\ Stored \in Seq(Entries) BY <1>6, QueueTypes DEF Offer, Stored
  <2>2. PICK t \in Seq(Entries) : t = Tail(Stored) /\ Popped(Stored, t) BY Pop, <2>1
  <2>3. calls' = [calls EXCEPT !["storage"] = t] BY <1>6, <2>2 DEF Offer, Stored
  <2>4. Stored' = t /\ Browser' = Browser BY <2>3, CallsExcept
  <2>5. Stored[1].by = r BY <1>6 DEF Offer, First, Stored
  <2>6. cache' = cache BY <1>6 DEF Offer, chrome
  <2>7. RequestLeaves(r)
    BY <1>2, <1>3, <2>2, <2>4, <2>5, <2>6 DEF RequestLeaves, chrome
  <2> QED BY <2>7
<1> QED BY <1>4, <1>5, <1>6

\* The popup calls no queue.
LEMMA PopupStep ==
  ASSUME Types,
         \/ AddSubscription \/ RemoveSubscription
         \/ RefreshBegins \/ RefreshStores \/ PopupCloses
  PROVE  Elsewhere
<1>1. UNCHANGED others
  BY DEF AddSubscription, RemoveSubscription, RefreshBegins, RefreshStores, PopupCloses
<1>2. commands' >= commands
  BY ExtensionAssumption
  DEF Types, AddSubscription, RemoveSubscription, RefreshBegins, RefreshStores, PopupCloses,
      Click
<1> QED BY <1>1, <1>2 DEF Elsewhere, others, chrome, worker, requests, NoNewAnswer

\* Every step of the program is one of these.
LEMMA Steps == ASSUME Types, Shape, [Next]_vars PROVE Step
<1>1. CASE BootWorker BY <1>1, BootStep DEF Step
<1>2. CASE Kill BY <1>2 DEF Step
<1>3. CASE DisableProxy
  <2>1. PICK s \in Seq(Calls) : s = ClearProxy /\ Len(s) = 4 /\ s[1] = Call("set", Off)
    BY ClearScript
  <2>2. Len(s) > 0 BY <2>1
  <2>3. s # <<>> BY <2>2, EmptySeq
  <2>4. s # <<>> /\ Tail(s) = Rest(Off) /\ Off \in Values BY <2>1, <2>3 DEF Rest, Values
  <2>5. Command(s) /\ (overtaken' <=> Off = Off /\ \E h \in Commands : Applying(h))
    BY <1>3, <2>1 DEF DisableProxy
  <2>6. \E h \in Commands : CommandEnters(h, Off) BY <2>1, <2>4, <2>5, CommandStep
  <2> QED BY <2>4, <2>6 DEF Step
<1>4. ASSUME NEW p \in Proxies, SelectProxy(p) PROVE Step
  <2>1. PICK s \in Seq(Calls) : s = ApplyProxy(p) /\ Len(s) = 6 /\ s[1] = Call("set", p)
    BY ApplyScript
  <2>2. p # Off /\ p \in Values BY Constants DEF Values
  <2>3. Len(s) > 0 BY <2>1
  <2>4. s # <<>> BY <2>3, EmptySeq
  <2>5. s # <<>> /\ Tail(s) = Rest(p) BY <2>1, <2>2, <2>4 DEF Rest
  <2>6. Command(s) /\ (overtaken' <=> p = Off /\ \E h \in Commands : Applying(h))
    BY <1>4, <2>1, <2>2 DEF SelectProxy
  <2>7. \E h \in Commands : CommandEnters(h, p) BY <2>1, <2>2, <2>5, <2>6, CommandStep
  <2> QED BY <2>2, <2>7 DEF Step
<1>5. CASE \/ AddSubscription \/ RemoveSubscription
           \/ RefreshBegins \/ RefreshStores \/ PopupCloses
  BY <1>5, PopupStep DEF Step
<1>6. CASE \E q \in Queues : Serve(q)
  BY <1>6, StorageStep, BrowserStep, Constants DEF Step
<1>7. CASE \E r \in Requests :
             \/ RequestStarts(r) \/ RequestEnds(r) \/ Reject(r)
             \/ OnAuthRequired(r) \/ Offer(r) \/ TakeAnswer(r)
  BY <1>7, RequestStep DEF Step
<1>8. CASE UNCHANGED vars
  BY <1>8
  DEF Step, Elsewhere, NoNewAnswer, vars, storage, chrome, worker, requests, counters, history,
      Types
<1> QED BY <1>1, <1>2, <1>3, <1>4, <1>5, <1>6, <1>7, <1>8 DEF Next

-----------------------------------------------------------------------------
(* The shape of the queues. *)

\* An entry leaves a queue.
LEMMA PopQueue ==
  ASSUME NEW s \in Seq(Entries), NEW t \in Seq(Entries), Popped(s, t)
  PROVE  /\ 1 \in DOMAIN s /\ s[1] \in Entries
         /\ \A i \in DOMAIN t : i \in Nat /\ i > 0 /\ i + 1 \in DOMAIN s /\ t[i] = s[i + 1]
         /\ \A i \in DOMAIN s : i = 1 \/ (i \in Nat /\ i > 1 /\ i - 1 \in DOMAIN t /\ t[i - 1] = s[i])
         /\ \A h : In(h, s) <=> s[1].by = h \/ In(h, t)
         /\ Once(s) => Once(t) /\ (s[1].by \in Handlers => ~In(s[1].by, t))
<1>1. /\ Len(s) \in Nat /\ DOMAIN s = 1..Len(s) /\ Len(t) \in Nat /\ DOMAIN t = 1..Len(t)
  BY LenProperties
<1>2. Len(s) > 0 /\ Len(t) = Len(s) - 1 /\ \A i \in 1..Len(t) : t[i] = s[i + 1]
  BY DEF Popped
<1>3. 1 \in DOMAIN s BY <1>1, <1>2
<1>4. s[1] \in Entries BY <1>3, Queue
<1>5. \A i \in DOMAIN t : i \in Nat /\ i > 0 /\ i + 1 \in DOMAIN s /\ t[i] = s[i + 1]
  BY <1>1, <1>2
<1>6. ASSUME NEW i \in DOMAIN s, i # 1
      PROVE  i \in Nat /\ i > 1 /\ i - 1 \in DOMAIN t /\ t[i - 1] = s[i]
  <2>1. i \in Nat /\ i > 1 /\ i - 1 \in DOMAIN t /\ (i - 1) + 1 = i BY <1>1, <1>2, <1>6
  <2> QED BY <1>5, <2>1
<1>7. \A h : In(h, s) <=> s[1].by = h \/ In(h, t)
  BY <1>3, <1>5, <1>6 DEF In
<1>8. ASSUME Once(s) PROVE Once(t) /\ (s[1].by \in Handlers => ~In(s[1].by, t))
  <2>1. Once(t)
    <3> SUFFICES ASSUME NEW i \in DOMAIN t, NEW j \in DOMAIN t, t[i].by = t[j].by,
                        t[i].by \in Handlers
                 PROVE  i = j
      BY DEF Once
    <3>1. i + 1 = j + 1 BY <1>5, <1>8 DEF Once
    <3> QED BY <1>5, <3>1
  <2>2. ASSUME s[1].by \in Handlers, NEW i \in DOMAIN t, t[i].by = s[1].by PROVE FALSE
    <3>1. i + 1 = 1 BY <1>3, <1>5, <1>8, <2>2 DEF Once
    <3> QED BY <1>5, <3>1
  <2> QED BY <2>1, <2>2 DEF In
<1> QED BY <1>3, <1>4, <1>5, <1>6, <1>7, <1>8

\* An entry enters a queue.
LEMMA PushQueue ==
  ASSUME NEW s \in Seq(Entries), NEW t \in Seq(Entries), NEW e, Pushed(s, t, e)
  PROVE  /\ Len(t) \in DOMAIN t /\ t[Len(t)] = e /\ Len(t) \in Nat
         /\ \A i \in DOMAIN s : i \in Nat /\ i \in DOMAIN t /\ t[i] = s[i] /\ i < Len(t)
         /\ \A i \in DOMAIN t : i = Len(t) \/ i \in DOMAIN s
         /\ \A h : In(h, t) <=> e.by = h \/ In(h, s)
         /\ Once(s) /\ ~(e.by \in Handlers /\ In(e.by, s)) => Once(t)
<1>1. /\ Len(s) \in Nat /\ DOMAIN s = 1..Len(s) /\ Len(t) \in Nat /\ DOMAIN t = 1..Len(t)
  BY LenProperties
<1>2. Len(t) = Len(s) + 1 /\ t[Len(t)] = e /\ \A i \in 1..Len(s) : t[i] = s[i]
  BY DEF Pushed
<1>3. Len(t) \in DOMAIN t BY <1>1, <1>2
<1>4. \A i \in DOMAIN s : i \in Nat /\ i \in DOMAIN t /\ t[i] = s[i] /\ i < Len(t)
  BY <1>1, <1>2
<1>5. \A i \in DOMAIN t : i = Len(t) \/ i \in DOMAIN s BY <1>1, <1>2
<1>6. \A h : In(h, t) <=> e.by = h \/ In(h, s) BY <1>2, <1>3, <1>4, <1>5 DEF In
<1>7. ASSUME Once(s), ~(e.by \in Handlers /\ In(e.by, s)) PROVE Once(t)
  <2> SUFFICES ASSUME NEW i \in DOMAIN t, NEW j \in DOMAIN t, t[i].by = t[j].by,
                      t[i].by \in Handlers
               PROVE  i = j
    BY DEF Once
  <2>1. CASE i \in DOMAIN s /\ j \in DOMAIN s BY <1>4, <1>7, <2>1 DEF Once
  <2>2. CASE i \notin DOMAIN s \/ j \notin DOMAIN s
    BY <1>2, <1>4, <1>5, <1>7, <2>2 DEF In
  <2> QED BY <2>1, <2>2
<1> QED BY <1>1, <1>2, <1>3, <1>4, <1>5, <1>6, <1>7

\* A queue turns: the first handler makes its next call.
LEMMA CycleQueue ==
  ASSUME NEW s \in Seq(Entries), NEW t \in Seq(Entries), NEW e, Cycled(s, t, e)
  PROVE  /\ 1 \in DOMAIN s /\ Len(t) \in DOMAIN t /\ t[Len(t)] = e /\ Len(t) \in Nat
         /\ \A i \in DOMAIN t : /\ i \in Nat /\ i > 0 /\ i <= Len(t)
                                /\ i = Len(t) \/ (i + 1 \in DOMAIN s /\ t[i] = s[i + 1])
         /\ \A i \in DOMAIN s :
              i = 1 \/ (/\ i \in Nat /\ i > 1 /\ i - 1 \in DOMAIN t /\ t[i - 1] = s[i]
                        /\ i - 1 < Len(t))
         /\ s[1].by = e.by => (\A h : In(h, t) <=> In(h, s)) /\ (Once(s) => Once(t))
<1>1. /\ Len(s) \in Nat /\ DOMAIN s = 1..Len(s) /\ Len(t) \in Nat /\ DOMAIN t = 1..Len(t)
  BY LenProperties
<1>2. /\ Len(s) > 0 /\ Len(t) = Len(s) /\ t[Len(t)] = e
      /\ \A i \in 1..(Len(s) - 1) : t[i] = s[i + 1]
  BY DEF Cycled
<1>3. 1 \in DOMAIN s /\ Len(t) \in DOMAIN t BY <1>1, <1>2
<1>4. ASSUME NEW i \in DOMAIN t
      PROVE  /\ i \in Nat /\ i > 0 /\ i <= Len(t)
             /\ i = Len(t) \/ (i + 1 \in DOMAIN s /\ t[i] = s[i + 1])
  BY <1>1, <1>2
<1>5. ASSUME NEW i \in DOMAIN s, i # 1
      PROVE  i \in Nat /\ i > 1 /\ i - 1 \in DOMAIN t /\ t[i - 1] = s[i] /\ i - 1 < Len(t)
  <2>1. /\ i \in Nat /\ i > 1 /\ i - 1 \in DOMAIN t /\ i - 1 < Len(t) /\ (i - 1) + 1 = i
        /\ i - 1 # Len(t)
    BY <1>1, <1>2, <1>5
  <2> QED BY <1>4, <2>1
<1>6. ASSUME s[1].by = e.by
      PROVE  (\A h : In(h, t) <=> In(h, s)) /\ (Once(s) => Once(t))
  <2>1. ASSUME NEW h PROVE In(h, t) <=> In(h, s)
    <3>1. ASSUME NEW i \in DOMAIN t, t[i].by = h PROVE \E j \in DOMAIN s : s[j].by = h
      BY <1>2, <1>3, <1>4, <1>6, <3>1
    <3>2. ASSUME NEW j \in DOMAIN s, s[j].by = h PROVE \E i \in DOMAIN t : t[i].by = h
      <4>1. CASE j = 1 BY <1>2, <1>3, <1>6, <3>2, <4>1
      <4>2. CASE j # 1 BY <1>5, <3>2, <4>2
      <4> QED BY <4>1, <4>2
    <3> QED BY <3>1, <3>2 DEF In
  <2>2. ASSUME Once(s) PROVE Once(t)
    <3> SUFFICES ASSUME NEW i \in DOMAIN t, NEW j \in DOMAIN t, t[i].by = t[j].by,
                        t[i].by \in Handlers
                 PROVE  i = j
      BY DEF Once
    <3> DEFINE from(k) == IF k = Len(t) THEN 1 ELSE k + 1
    <3>1. /\ from(i) \in DOMAIN s /\ s[from(i)].by = t[i].by
          /\ from(j) \in DOMAIN s /\ s[from(j)].by = t[j].by
      BY <1>2, <1>3, <1>4, <1>6
    <3>2. from(i) = from(j) BY <2>2, <3>1 DEF Once
    <3> QED BY <1>4, <3>2
  <2> QED BY <2>1, <2>2
<1> QED BY <1>1, <1>2, <1>3, <1>4, <1>5, <1>6

\* The worker ends: no handler goes on, every call stays.
LEMMA KillQueues ==
  ASSUME Types, Kill
  PROVE  /\ DOMAIN Stored' = DOMAIN Stored /\ DOMAIN Browser' = DOMAIN Browser
         /\ \A i \in DOMAIN Stored :
              Stored'[i].by = Gone /\ Stored'[i].call = Stored[i].call
         /\ \A i \in DOMAIN Browser :
              Browser'[i].by = Gone /\ Browser'[i].call = Browser[i].call
         /\ \A h \in Handlers : todo'[h] = <<>>
<1>1. /\ Stored' = [i \in DOMAIN Stored |-> [Stored[i] EXCEPT !.by = Gone]]
      /\ Browser' = [i \in DOMAIN Browser |-> [Browser[i] EXCEPT !.by = Gone]]
  BY Constants DEF Kill, Stored, Browser
<1>2. /\ \A i \in DOMAIN Stored : Stored[i] \in Entries
      /\ \A i \in DOMAIN Browser : Browser[i] \in Entries
  BY QueueTypes, Queue
<1>3. \A e \in Entries : [e EXCEPT !.by = Gone].by = Gone
                         /\ [e EXCEPT !.by = Gone].call = e.call
  BY DEF Entries
<1>4. \A h \in Handlers : todo'[h] = <<>> BY DEF Kill, Types
<1> QED BY <1>1, <1>2, <1>3, <1>4

\* One handler's calls change.
LEMMA TodoExcept ==
  ASSUME Types, NEW h \in Handlers, NEW t, todo' = [todo EXCEPT ![h] = t]
  PROVE  todo'[h] = t /\ \A g \in Handlers : g # h => todo'[g] = todo[g]
  BY DEF Types

\* An entry stays as it was with the calls that its handler has left.
LEMMA EntryStays ==
  ASSUME NEW e, e.by \in Handlers => todo'[e.by] = todo[e.by]
  PROVE  (StoredEntry(e) => StoredEntry(e)') /\ (BrowserEntry(e) => BrowserEntry(e)')
<1>1. StoredEntry(e) => StoredEntry(e)' BY Constants DEF StoredEntry, Rest
<1>2. e.by \in Handlers /\ Remaining(e.by) => Remaining(e.by)'
  BY DEF Remaining, Flushes
<1>3. BrowserEntry(e) => BrowserEntry(e)' BY <1>2 DEF BrowserEntry
<1> QED BY <1>1, <1>3

\* Shape, step by step: a boot enters.
LEMMA BootShape == ASSUME Types, Types', Shape, BootEnters PROVE Shape'
<1> DEFINE e == Made(Boot, Call("get", Off))
<1>1. ~up /\ up' = TRUE /\ Pushed(Stored, Stored', e) /\ Browser' = Browser
      /\ commands' = commands
  BY DEF BootEnters
<1>2. /\ \A i \in DOMAIN Stored : Stored[i].by = Gone
      /\ \A i \in DOMAIN Browser : Browser[i].by = Gone
  BY <1>1 DEF Shape, Down
<1>3. \A h \in Handlers : ~In(h, Stored) /\ ~In(h, Browser)
  BY <1>2, Constants DEF In
<1>4. todo'[Boot] = <<>> /\ \A g \in Handlers : g # Boot => todo'[g] = todo[g]
  BY TodoExcept, Constants DEF BootEnters
<1>5. e.by = Boot /\ e.call.op = "get" BY DEF Made, Call
<1> HIDE DEF e
<1>6. /\ Len(Stored') \in DOMAIN Stored' /\ Stored'[Len(Stored')] = e
      /\ \A i \in DOMAIN Stored : i \in DOMAIN Stored' /\ Stored'[i] = Stored[i]
      /\ \A i \in DOMAIN Stored' : i = Len(Stored') \/ i \in DOMAIN Stored
      /\ \A h : In(h, Stored') <=> e.by = h \/ In(h, Stored)
      /\ Once(Stored) /\ ~(e.by \in Handlers /\ In(e.by, Stored)) => Once(Stored')
  BY <1>1, PushQueue, QueueTypes, NextQueues
<1>7. Own' BY <1>1, <1>3, <1>5, <1>6, Constants DEF Shape, Own
<1>8. Quiet' BY <1>1, <1>3, <1>4, <1>5, <1>6 DEF Shape, Quiet
<1>9. Early' BY <1>1, <1>3, <1>5, <1>6, Constants DEF Early
<1>10. Down' BY <1>1 DEF Down
<1>11. StoredShape'
  <2> SUFFICES ASSUME NEW i \in DOMAIN Stored' PROVE StoredEntry(Stored[i])'
    BY DEF StoredShape
  <2>1. CASE i \in DOMAIN Stored
    <3>1. PICK x : x = Stored[i] /\ x.by = Gone BY <1>2, <2>1
    <3>2. StoredEntry(x) BY <2>1, <3>1 DEF Shape, StoredShape
    <3>3. StoredEntry(x)' BY <3>1, <3>2, EntryStays, Constants
    <3> QED BY <1>6, <2>1, <3>1, <3>3 DEF StoredEntry
  <2>2. CASE i = Len(Stored')
    BY <1>4, <1>5, <1>6, <2>2, Constants DEF StoredEntry
  <2> QED BY <1>6, <2>1, <2>2
<1>12. BrowserShape'
  BY <1>1, <1>2, Constants DEF Shape, BrowserShape, BrowserEntry
<1> QED BY <1>7, <1>8, <1>9, <1>10, <1>11, <1>12 DEF Shape

\* A command enters.
LEMMA CommandShape ==
  ASSUME Types, Types', Shape, NEW h \in Commands, NEW v \in Values, CommandEnters(h, v)
  PROVE  Shape'
<1> DEFINE e == Made(h, Call("set", v))
<1>1. up /\ up' = up /\ h = commands + 1 /\ commands' = h /\ Pushed(Stored, Stored', e)
      /\ Browser' = Browser
  BY DEF CommandEnters
<1>2. ~In(h, Stored) /\ ~In(h, Browser)
  <2>1. ~(h <= commands) BY <1>1 DEF Types
  <2> QED BY <2>1 DEF Shape, Early
<1>3. h \in Handlers /\ h # Boot /\ h \notin Requests BY Constants
<1>4. todo'[h] = Rest(v) /\ \A g \in Handlers : g # h => todo'[g] = todo[g]
  BY <1>3, TodoExcept DEF CommandEnters
<1>5. e.by = h /\ e.call.op = "set" /\ e.call.val = v BY DEF Made, Call
<1> HIDE DEF e
<1>6. /\ Len(Stored') \in DOMAIN Stored' /\ Stored'[Len(Stored')] = e
      /\ \A i \in DOMAIN Stored : i \in DOMAIN Stored' /\ Stored'[i] = Stored[i]
      /\ \A i \in DOMAIN Stored' : i = Len(Stored') \/ i \in DOMAIN Stored
      /\ \A g : In(g, Stored') <=> e.by = g \/ In(g, Stored)
      /\ Once(Stored) /\ ~(e.by \in Handlers /\ In(e.by, Stored)) => Once(Stored')
  BY <1>1, PushQueue, QueueTypes, NextQueues
<1>7. Own' BY <1>1, <1>2, <1>5, <1>6 DEF Shape, Own
<1>8. Quiet' BY <1>1, <1>4, <1>5, <1>6 DEF Shape, Quiet
<1>9. Early'
  <2> SUFFICES ASSUME NEW g \in Commands, In(g, Stored') \/ In(g, Browser')
               PROVE  g <= commands'
    BY DEF Early
  <2>1. g \in Nat /\ h \in Nat BY Constants
  <2>2. CASE g = h BY <1>1, <2>1, <2>2
  <2>3. CASE g # h
    <3>1. g <= commands BY <1>1, <1>5, <1>6, <2>3 DEF Shape, Early
    <3> QED BY <1>1, <2>1, <3>1 DEF Types
  <2> QED BY <2>2, <2>3
<1>10. Down' BY <1>1 DEF Down
<1>11. StoredShape'
  <2> SUFFICES ASSUME NEW i \in DOMAIN Stored' PROVE StoredEntry(Stored[i])'
    BY DEF StoredShape
  <2>1. CASE i \in DOMAIN Stored
    <3>1. PICK x : x = Stored[i] OBVIOUS
    <3>2. x.by # h BY <1>2, <2>1, <3>1 DEF In
    <3>3. StoredEntry(x) BY <2>1, <3>1 DEF Shape, StoredShape
    <3>4. StoredEntry(x)' BY <1>4, <3>2, <3>3, EntryStays
    <3> QED BY <1>6, <2>1, <3>1, <3>4 DEF StoredEntry
  <2>2. CASE i = Len(Stored')
    BY <1>3, <1>4, <1>5, <1>6, <2>2 DEF StoredEntry, Rest
  <2> QED BY <1>6, <2>1, <2>2
<1>12. BrowserShape'
  <2> SUFFICES ASSUME NEW i \in DOMAIN Browser' PROVE BrowserEntry(Browser[i])'
    BY DEF BrowserShape
  <2>1. PICK x : x = Browser[i] /\ x.by # h BY <1>1, <1>2 DEF In
  <2>2. BrowserEntry(x) BY <1>1, <2>1 DEF Shape, BrowserShape
  <2>3. BrowserEntry(x)' BY <1>4, <2>1, <2>2, EntryStays
  <2> QED BY <1>1, <2>1, <2>3 DEF BrowserEntry
<1> QED BY <1>7, <1>8, <1>9, <1>10, <1>11, <1>12 DEF Shape

\* A request enters the storage queue.
LEMMA RequestEntersShape ==
  ASSUME Types, Types', Shape, NEW r \in Requests, RequestEnters(r)
  PROVE  Shape'
<1> DEFINE e == Made(r, Call("get", Off))
<1>1. up /\ up' = up /\ commands' = commands /\ Pushed(Stored, Stored', e)
      /\ Browser' = Browser /\ todo' = todo
  BY DEF RequestEnters
<1>2. e.by = r /\ e.call.op = "get" /\ r \notin Handlers BY Constants DEF Made, Call
<1> HIDE DEF e
<1>3. /\ Len(Stored') \in DOMAIN Stored' /\ Stored'[Len(Stored')] = e
      /\ \A i \in DOMAIN Stored : i \in DOMAIN Stored' /\ Stored'[i] = Stored[i]
      /\ \A i \in DOMAIN Stored' : i = Len(Stored') \/ i \in DOMAIN Stored
      /\ \A h : In(h, Stored') <=> e.by = h \/ In(h, Stored)
      /\ Once(Stored) /\ ~(e.by \in Handlers /\ In(e.by, Stored)) => Once(Stored')
  BY <1>1, PushQueue, QueueTypes, NextQueues
<1>4. Own' BY <1>1, <1>2, <1>3 DEF Shape, Own
<1>5. Quiet' BY <1>1, <1>3 DEF Shape, Quiet
<1>6. Early' BY <1>1, <1>2, <1>3, Constants DEF Shape, Early
<1>7. Down' BY <1>1 DEF Down
<1>8. StoredShape'
  <2> SUFFICES ASSUME NEW i \in DOMAIN Stored' PROVE StoredEntry(Stored[i])'
    BY DEF StoredShape
  <2>1. CASE i \in DOMAIN Stored
    BY <1>1, <1>3, <2>1 DEF Shape, StoredShape, StoredEntry, Rest
  <2>2. CASE i = Len(Stored')
    BY <1>2, <1>3, <2>2, Constants DEF StoredEntry
  <2> QED BY <1>3, <2>1, <2>2
<1>9. BrowserShape'
  BY <1>1 DEF Shape, BrowserShape, BrowserEntry, Remaining, Flushes
<1> QED BY <1>4, <1>5, <1>6, <1>7, <1>8, <1>9 DEF Shape

\* A call is served of a request, or of a worker that has ended.
LEMMA LeavesShape ==
  ASSUME Types, Types', Shape, Popped(Stored, Stored'), Stored[1].by \notin Handlers,
         Browser' = Browser, UNCHANGED <<up, todo, commands>>
  PROVE  Shape'
<1>1. /\ \A i \in DOMAIN Stored' : i + 1 \in DOMAIN Stored /\ Stored'[i] = Stored[i + 1]
      /\ \A h : In(h, Stored) <=> Stored[1].by = h \/ In(h, Stored')
      /\ Once(Stored) => Once(Stored')
  BY PopQueue, QueueTypes, NextQueues
<1>2. Own' BY <1>1 DEF Shape, Own
<1>3. Quiet' BY <1>1 DEF Shape, Quiet
<1>4. Early' BY <1>1, Constants DEF Shape, Early
<1>5. Down' BY <1>1 DEF Shape, Down
<1>6. StoredShape'
  BY <1>1 DEF Shape, StoredShape, StoredEntry, Rest
<1>7. BrowserShape'
  BY DEF Shape, BrowserShape, BrowserEntry, Remaining, Flushes
<1> QED BY <1>2, <1>3, <1>4, <1>5, <1>6, <1>7 DEF Shape

\* The worker ends.
LEMMA KillShape == ASSUME Types, Types', Shape, Kill PROVE Shape'
<1>1. /\ DOMAIN Stored' = DOMAIN Stored /\ DOMAIN Browser' = DOMAIN Browser
      /\ \A i \in DOMAIN Stored :
           Stored'[i].by = Gone /\ Stored'[i].call = Stored[i].call
      /\ \A i \in DOMAIN Browser :
           Browser'[i].by = Gone /\ Browser'[i].call = Browser[i].call
      /\ \A h \in Handlers : todo'[h] = <<>>
  BY KillQueues
<1>2. \A h \in Handlers : ~In(h, Stored') /\ ~In(h, Browser') BY <1>1, Constants DEF In
<1>3. Own' BY <1>1, <1>2, Constants DEF Own, Once
<1>4. Quiet' BY <1>1 DEF Quiet
<1>5. Early' BY <1>2, Constants DEF Early
<1>6. Down' BY <1>1 DEF Down
<1>7. StoredShape'
  <2> SUFFICES ASSUME NEW i \in DOMAIN Stored' PROVE StoredEntry(Stored[i])'
    BY DEF StoredShape
  <2>1. Stored[i].call.op \in {"get", "set"}
    BY <1>1 DEF Shape, StoredShape, StoredEntry
  <2>2. Stored'[i].call.op \in {"get", "set"} /\ Stored'[i].by = Gone BY <1>1, <2>1
  <2> QED BY <2>2, Constants DEF StoredEntry
<1>8. BrowserShape' BY <1>1, Constants DEF Shape, BrowserShape, BrowserEntry
<1> QED BY <1>3, <1>4, <1>5, <1>6, <1>7, <1>8 DEF Shape

\* What is left to do of a boot, and of a command that has stored its proxy.
LEMMA ScriptsRemain ==
  ASSUME NEW v \in Values
  PROVE  /\ todo'[Boot] = Tail(Reflect(v)) => Remaining(Boot)'
         /\ \A h \in Commands : todo'[h] = Tail(Rest(v)) => Remaining(h)'
<1>1. ASSUME todo'[Boot] = Tail(Reflect(v)) PROVE Remaining(Boot)'
  <2>1. PICK t \in Seq(Calls) : t = Tail(Reflect(v)) /\ DOMAIN t = 1..Len(t)
    BY ReflectTail, Queue
  <2>2. \A op, x : Call(op, x).op = op BY DEF Call
  <2>3. \/ Len(t) = 2 /\ t[1] = Call("text", v) /\ t[2] = Call("title", v)
        \/ Len(t) = 1 /\ t[1] = Call("title", v)
    BY <2>1, ReflectTail
  <2>4. \/ Len(t) = 2 /\ t[1].op = "text" /\ t[2].op = "title"
        \/ Len(t) = 1 /\ t[1].op = "title"
    BY <2>2, <2>3
  <2>5. \A k \in DOMAIN t : /\ t[k].op \in {"text", "title"} /\ k <= 2
                            /\ t[k].op = "text" => k = 1
    BY <2>1, <2>4
  <2> QED BY <1>1, <2>1, <2>5 DEF Remaining, Flushes
<1>2. ASSUME NEW h \in Commands, todo'[h] = Tail(Rest(v)) PROVE Remaining(h)'
  <2>1. PICK t \in Seq(Calls) : t = Tail(Rest(v)) /\ DOMAIN t = 1..Len(t)
    BY RestScript, Queue
  <2>2. h # Boot BY Constants
  <2>3. \A op, x : Call(op, x).op = op BY DEF Call
  <2>4. CASE v = Off
    <3>1. Len(t) = 2 /\ t[1] = Call("text", Off) /\ t[2] = Call("title", Off)
      BY <2>1, <2>4, RestScript
    <3>2. Len(t) = 2 /\ t[1].op = "text" /\ t[2].op = "title" BY <2>3, <3>1
    <3>3. \A k \in DOMAIN t : /\ t[k].op \in {"text", "title"} /\ k <= 2
                              /\ t[k].op = "text" => k = 1
      BY <2>1, <3>2
    <3> QED BY <1>2, <2>1, <2>2, <3>3 DEF Remaining, Flushes
  <2>5. CASE v # Off
    <3>1. /\ Len(t) = 4 /\ t[1] = Call("colour", v) /\ t[2] = Call("text", v)
          /\ t[3] = Call("title", v) /\ t[4] = Call("flush", Off)
      BY <2>1, <2>5, RestScript
    <3>2. /\ Len(t) = 4 /\ t[1].op = "colour" /\ t[2].op = "text" /\ t[3].op = "title"
          /\ t[4].op = "flush"
      BY <2>3, <3>1
    <3>3. \A k \in DOMAIN t : /\ t[k].op \in {"colour", "text", "title", "flush"}
                              /\ t[k].op = "text" => k = 2
                              /\ t[k].op = "title" => k = 3
      BY <2>1, <3>2
    <3>4. Len(t) = 4 BY <3>2
    <3>5. DOMAIN t = 1..4 BY <2>1, <3>4
    <3>6. 4 \in DOMAIN t BY ONLY <3>5
    <3>7. \E k \in DOMAIN t : t[k].op = "flush" BY <3>2, <3>6
    <3> QED BY <1>2, <2>1, <2>2, <3>3, <3>7 DEF Remaining, Flushes
  <2> QED BY <2>4, <2>5
<1> QED BY <1>1, <1>2

\* A handler goes from the storage to the browser.
LEMMA MovesShape ==
  ASSUME Types, Types', Shape, NEW h \in Handlers, NEW call, Popped(Stored, Stored'),
         Stored[1].by = h, Pushed(Browser, Browser', Made(h, call)),
         call.op \notin {"get", "set"}, Remaining(h)',
         \A g \in Handlers : g # h => todo'[g] = todo[g], UNCHANGED <<up, commands>>
  PROVE  Shape'
<1> DEFINE e == Made(h, call)
<1>1. e.by = h /\ e.call = call BY DEF Made
<1>2. Pushed(Browser, Browser', e) OBVIOUS
<1> HIDE DEF e
<1>3. /\ \A i \in DOMAIN Stored' : i + 1 \in DOMAIN Stored /\ Stored'[i] = Stored[i + 1]
      /\ 1 \in DOMAIN Stored
      /\ \A g : In(g, Stored) <=> Stored[1].by = g \/ In(g, Stored')
      /\ Once(Stored) => Once(Stored') /\ (Stored[1].by \in Handlers => ~In(Stored[1].by, Stored'))
  BY PopQueue, QueueTypes, NextQueues
<1>4. /\ \A i \in DOMAIN Browser : i \in DOMAIN Browser' /\ Browser'[i] = Browser[i]
      /\ \A i \in DOMAIN Browser' : i = Len(Browser') \/ i \in DOMAIN Browser
      /\ Browser'[Len(Browser')] = e
      /\ \A g : In(g, Browser') <=> e.by = g \/ In(g, Browser)
      /\ Once(Browser) /\ ~(e.by \in Handlers /\ In(e.by, Browser)) => Once(Browser')
  BY <1>2, PushQueue, QueueTypes, NextQueues
<1>5. In(h, Stored) /\ ~In(h, Browser) /\ ~In(h, Stored')
  BY <1>3 DEF Shape, Own
<1>6. up BY <1>3, Constants DEF Shape, Down
<1>7. Own' BY <1>1, <1>3, <1>4, <1>5 DEF Shape, Own
<1>8. Quiet' BY <1>1, <1>3, <1>4 DEF Shape, Quiet
<1>9. Early' BY <1>1, <1>3, <1>4, <1>5, Constants DEF Shape, Early
<1>10. Down' BY <1>6 DEF Down
<1>11. StoredShape'
  <2> SUFFICES ASSUME NEW i \in DOMAIN Stored' PROVE StoredEntry(Stored[i])'
    BY DEF StoredShape
  <2>1. PICK x : x = Stored[i + 1] OBVIOUS
  <2>2. Stored'[i] = x BY <1>3, <2>1
  <2>3. x.by # h BY <1>5, <2>2 DEF In
  <2>4. StoredEntry(x) BY <1>3, <2>1 DEF Shape, StoredShape
  <2>5. StoredEntry(x)' BY <2>3, <2>4, EntryStays
  <2> QED BY <2>2, <2>5 DEF StoredEntry
<1>12. BrowserShape'
  <2> SUFFICES ASSUME NEW i \in DOMAIN Browser' PROVE BrowserEntry(Browser[i])'
    BY DEF BrowserShape
  <2>1. CASE i \in DOMAIN Browser
    <3>1. PICK x : x = Browser[i] /\ x.by # h BY <1>5, <2>1 DEF In
    <3>2. BrowserEntry(x) BY <2>1, <3>1 DEF Shape, BrowserShape
    <3>3. BrowserEntry(x)' BY <3>1, <3>2, EntryStays
    <3> QED BY <1>4, <2>1, <3>1, <3>3 DEF BrowserEntry
  <2>2. CASE i = Len(Browser')
    BY <1>1, <1>4, <2>2, Constants DEF BrowserEntry
  <2> QED BY <1>4, <2>1, <2>2
<1> QED BY <1>7, <1>8, <1>9, <1>10, <1>11, <1>12 DEF Shape

\* A boot moves from the storage queue to the browser's, or is done.
LEMMA BootMovesShape == ASSUME Types, Types', Shape, BootMoves PROVE Shape'
<1>1. PICK p \in Values : p = active BY DEF Types, TypeOK, Values
<1>2. PICK call : call = Reflect(p)[1] OBVIOUS
<1>3. call = Call("colour", p) \/ call = Call("text", p) BY <1>2, ReflectScript
<1>4. call.op \notin {"get", "set"} BY <1>3 DEF Call
<1>5. todo'[Boot] = Tail(Reflect(p)) /\ \A g \in Handlers : g # Boot => todo'[g] = todo[g]
  <2>1. todo' = [todo EXCEPT ![Boot] = Tail(Reflect(p))] BY <1>1 DEF BootMoves
  <2> QED BY <2>1, TodoExcept, Constants
<1>6. Remaining(Boot)' BY <1>5, ScriptsRemain
<1> QED BY <1>1, <1>2, <1>4, <1>5, <1>6, MovesShape, Constants DEF BootMoves

\* A command has stored, and goes to the browser.
LEMMA CommandMovesShape ==
  ASSUME Types, Types', Shape, NEW h \in Commands, NEW v \in Values, CommandMoves(h, v)
  PROVE  Shape'
<1>1. PICK call : call = Rest(v)[1] OBVIOUS
<1>2. \E x : call = Call("setting", x) BY <1>1, RestScript
<1>3. call.op \notin {"get", "set"} BY <1>2 DEF Call
<1>4. h \in Handlers BY Constants
<1>5. todo'[h] = Tail(Rest(v)) /\ \A g \in Handlers : g # h => todo'[g] = todo[g]
  BY <1>4, TodoExcept DEF CommandMoves
<1>6. Remaining(h)' BY <1>5, ScriptsRemain
<1>7. Stored[1].by = h BY DEF CommandMoves, Made
<1> QED BY <1>1, <1>3, <1>4, <1>5, <1>6, <1>7, MovesShape DEF CommandMoves

\* The browser serves a call after which nobody calls.
LEMMA BrowserLeavesShape == ASSUME Types, Types', Shape, BrowserLeaves PROVE Shape'
<1>1. /\ Popped(Browser, Browser') /\ Stored' = Stored /\ todo' = todo
      /\ Browser[1].by \in Handlers => todo[Browser[1].by] = <<>>
      /\ UNCHANGED <<up, commands>>
  BY DEF BrowserLeaves
<1>2. /\ \A i \in DOMAIN Browser' : i + 1 \in DOMAIN Browser /\ Browser'[i] = Browser[i + 1]
      /\ \A h : In(h, Browser) <=> Browser[1].by = h \/ In(h, Browser')
      /\ Once(Browser) => Once(Browser')
  BY <1>1, PopQueue, QueueTypes, NextQueues
<1>3. Own' BY <1>1, <1>2 DEF Shape, Own
<1>4. Quiet' BY <1>1, <1>2 DEF Shape, Quiet
<1>5. Early' BY <1>1, <1>2 DEF Shape, Early
<1>6. Down' BY <1>1, <1>2 DEF Shape, Down
<1>7. StoredShape' BY <1>1 DEF Shape, StoredShape, StoredEntry, Rest
<1>8. BrowserShape'
  <2> SUFFICES ASSUME NEW i \in DOMAIN Browser' PROVE BrowserEntry(Browser[i])'
    BY DEF BrowserShape
  <2>1. PICK x : x = Browser[i + 1] /\ x = Browser'[i] BY <1>2
  <2>2. BrowserEntry(x) BY <1>2, <2>1 DEF Shape, BrowserShape
  <2>3. BrowserEntry(x)' BY <1>1, <2>2, EntryStays
  <2> QED BY <2>1, <2>3 DEF BrowserEntry
<1> QED BY <1>3, <1>4, <1>5, <1>6, <1>7, <1>8 DEF Shape

\* What its handler has left to do after another call to the browser.
LEMMA Turned ==
  ASSUME Types, NEW h \in Handlers, BrowserTurns(h)
  PROVE  /\ 1 \in DOMAIN todo[h] /\ todo[h][1] \in Calls
         /\ \A k \in DOMAIN todo'[h] :
              k \in Nat /\ k > 0 /\ k + 1 \in DOMAIN todo[h] /\ todo'[h][k] = todo[h][k + 1]
         /\ \A k \in DOMAIN todo[h] :
              \/ k = 1
              \/ k \in Nat /\ k > 1 /\ k - 1 \in DOMAIN todo'[h] /\ todo'[h][k - 1] = todo[h][k]
         /\ \A g \in Handlers : g # h => todo'[g] = todo[g]
<1>1. todo[h] # <<>> /\ todo' = [todo EXCEPT ![h] = Tail(todo[h])] BY DEF BrowserTurns
<1>2. todo'[h] = Tail(todo[h]) /\ \A g \in Handlers : g # h => todo'[g] = todo[g]
  BY <1>1, TodoExcept
<1>3. PICK s \in Seq(Calls) : s = todo[h] /\ s # <<>> BY <1>1, QueueTypes
<1>4. PICK t \in Seq(Calls) : t = Tail(s) /\ Popped(s, t) BY <1>3, Pop
<1>5. 1 \in DOMAIN s /\ s[1] \in Calls BY <1>3, Queue
<1>6. Popped(s, t) BY <1>4
<1>7. DOMAIN s = 1..Len(s) /\ DOMAIN t = 1..Len(t) /\ Len(s) \in Nat /\ Len(t) \in Nat
  BY Queue
<1>8. \A k \in DOMAIN t : k \in Nat /\ k > 0 /\ k + 1 \in DOMAIN s /\ t[k] = s[k + 1]
  BY <1>6, <1>7 DEF Popped
<1>9. ASSUME NEW k \in DOMAIN s, k # 1
      PROVE  k \in Nat /\ k > 1 /\ k - 1 \in DOMAIN t /\ t[k - 1] = s[k]
  <2>1. k \in Nat /\ k > 1 /\ k - 1 \in DOMAIN t /\ (k - 1) + 1 = k
    BY <1>6, <1>7, <1>9 DEF Popped
  <2> QED BY <1>8, <2>1
<1>10. todo'[h] = t BY <1>2, <1>3, <1>4
<1> QED BY <1>2, <1>3, <1>5, <1>8, <1>9, <1>10

\* The browser serves a call and its handler makes the next one.
LEMMA BrowserTurnsShape ==
  ASSUME Types, Types', Shape, NEW h \in Handlers, BrowserTurns(h)
  PROVE  Shape'
<1> DEFINE e == Made(h, todo[h][1])
<1>1. /\ Browser[1].by = h /\ todo[h] # <<>> /\ Cycled(Browser, Browser', e)
      /\ Stored' = Stored /\ UNCHANGED <<up, commands>>
  BY DEF BrowserTurns
<1>2. e.by = h /\ e.call = todo[h][1] BY DEF Made
<1> HIDE DEF e
<1>3. /\ 1 \in DOMAIN Browser /\ Browser'[Len(Browser')] = e
      /\ \A i \in DOMAIN Browser' :
           i = Len(Browser') \/ (i + 1 \in DOMAIN Browser /\ Browser'[i] = Browser[i + 1])
      /\ \A i \in DOMAIN Browser' : i > 0
  BY <1>1, CycleQueue, QueueTypes, NextQueues
<1>4. (\A g : In(g, Browser') <=> In(g, Browser)) /\ (Once(Browser) => Once(Browser'))
  BY <1>1, <1>2, CycleQueue, QueueTypes, NextQueues
<1>5. In(h, Browser) BY <1>1, <1>3 DEF In
<1>6. \A g \in Handlers : g # h => todo'[g] = todo[g] BY Turned
<1>7. up BY <1>1, <1>3, Constants DEF Shape, Down
<1>8. Own' BY <1>1, <1>4 DEF Shape, Own
<1>9. Quiet' BY <1>1, <1>4, <1>5, <1>6 DEF Shape, Quiet
<1>10. Early' BY <1>1, <1>4 DEF Shape, Early
<1>11. Down' BY <1>1, <1>7 DEF Down
<1>12. StoredShape'
  <2> SUFFICES ASSUME NEW i \in DOMAIN Stored' PROVE StoredEntry(Stored[i])'
    BY DEF StoredShape
  <2>1. PICK x : x = Stored[i] OBVIOUS
  <2>2. x.by # h BY <1>1, <1>5, <2>1 DEF Shape, Own, In
  <2>3. StoredEntry(x) BY <1>1, <2>1 DEF Shape, StoredShape
  <2>4. StoredEntry(x)' BY <1>6, <2>2, <2>3, EntryStays
  <2> QED BY <1>1, <2>1, <2>4 DEF StoredEntry
<1>13. Remaining(h)
  BY <1>1, <1>3 DEF Shape, BrowserShape, BrowserEntry
<1>14. 1 \in DOMAIN todo[h] BY Turned
<1>15. \A k \in DOMAIN todo'[h] :
         /\ k \in Nat /\ k > 0 /\ k + 1 \in DOMAIN todo[h] /\ todo'[h][k] = todo[h][k + 1]
  BY Turned
<1>16. Remaining(h)'
  <2> SUFFICES ASSUME NEW k \in DOMAIN todo'[h]
               PROVE  /\ todo'[h][k].op \in {"colour", "text", "title", "flush"}
                      /\ todo'[h][k].op = "text" => k < 2
                      /\ todo'[h][k].op = "title" => k < 3
                      /\ h = Boot => todo'[h][k].op # "flush"
    BY <1>15 DEF Remaining, Flushes
  <2>1. PICK l \in Nat : l = k + 1 /\ l \in DOMAIN todo[h] /\ todo'[h][k] = todo[h][l] /\ k \in Nat
    BY <1>15
  <2>2. /\ todo[h][l].op \in {"colour", "text", "title", "flush"}
        /\ todo[h][l].op = "text" => l <= 2
        /\ todo[h][l].op = "title" => l <= 3
        /\ h = Boot => todo[h][l].op # "flush"
    BY <1>13, <2>1 DEF Remaining, Flushes
  <2> QED BY <2>1, <2>2
<1>17. BrowserShape'
  <2> SUFFICES ASSUME NEW i \in DOMAIN Browser' PROVE BrowserEntry(Browser[i])'
    BY DEF BrowserShape
  <2>1. CASE i = Len(Browser')
    <3>1. todo[h][1].op \in {"colour", "text", "title", "flush"}
      BY <1>13, <1>14 DEF Remaining
    <3> QED BY <1>2, <1>3, <1>16, <2>1, <3>1, Constants DEF BrowserEntry
  <2>2. CASE i # Len(Browser')
    <3>1. PICK x : x = Browser[i + 1] /\ Browser'[i] = x /\ i + 1 \in DOMAIN Browser
      BY <1>3, <2>2
    <3>2. BrowserEntry(x) BY <3>1 DEF Shape, BrowserShape
    <3>3. CASE x.by = h BY <1>16, <3>1, <3>2, <3>3 DEF BrowserEntry
    <3>4. CASE x.by # h
      <4>1. BrowserEntry(x)' BY <1>6, <3>2, <3>4, EntryStays
      <4> QED BY <3>1, <4>1 DEF BrowserEntry
    <3> QED BY <3>3, <3>4
  <2> QED BY <2>1, <2>2
<1> QED BY <1>8, <1>9, <1>10, <1>11, <1>12, <1>17 DEF Shape

\* The queues are empty at first.
LEMMA InitShape == Init => Shape
<1> SUFFICES ASSUME Init PROVE Shape OBVIOUS
<1>1. Stored = <<>> /\ Browser = <<>> BY Constants DEF Init, Stored, Browser
<1>2. DOMAIN Stored = {} /\ DOMAIN Browser = {} BY <1>1
<1>3. \A h \in Handlers : todo[h] = <<>> BY DEF Init, Handlers
<1> QED
  BY <1>2, <1>3
  DEF Shape, Own, Once, In, Quiet, Early, Down, StoredShape, BrowserShape

\* Every step keeps Shape.
LEMMA ShapeStep == ASSUME Types, Types', Shape, Step PROVE Shape'
<1>1. CASE Kill BY <1>1, KillShape
<1>2. CASE BootEnters BY <1>2, BootShape
<1>3. CASE LateLeaves BY <1>3, LeavesShape, Constants DEF LateLeaves
<1>4. CASE BootMoves BY <1>4, BootMovesShape
<1>5. CASE BrowserLeaves BY <1>5, BrowserLeavesShape
<1>6. CASE Elsewhere
  <2>1. /\ Stored' = Stored /\ Browser' = Browser /\ todo' = todo /\ up' = up
        /\ commands' >= commands
    BY <1>6 DEF Elsewhere, Stored, Browser
  <2>2. Own' /\ Quiet' /\ Down' BY <2>1 DEF Shape, Own, Quiet, Down
  <2>3. Early'
    <3> SUFFICES ASSUME NEW g \in Commands, In(g, Stored') \/ In(g, Browser')
                 PROVE  g <= commands'
      BY DEF Early
    <3>1. g <= commands /\ g \in Nat /\ commands \in Int /\ commands' \in Int
      BY <2>1, Constants DEF Shape, Early, Types
    <3> QED BY <2>1, <3>1
  <2>4. StoredShape' BY <2>1 DEF Shape, StoredShape, StoredEntry, Rest
  <2>5. BrowserShape' BY <2>1 DEF Shape, BrowserShape, BrowserEntry, Remaining, Flushes
  <2> QED BY <2>2, <2>3, <2>4, <2>5 DEF Shape
<1>7. ASSUME NEW h \in Commands, NEW v \in Values, CommandEnters(h, v) \/ CommandMoves(h, v)
      PROVE  Shape'
  BY <1>7, CommandShape, CommandMovesShape
<1>8. ASSUME NEW r \in Requests, RequestEnters(r) \/ RequestLeaves(r) PROVE Shape'
  <2>1. CASE RequestEnters(r) BY <2>1, RequestEntersShape
  <2>2. CASE RequestLeaves(r)
    BY <2>2, LeavesShape, Constants DEF RequestLeaves
  <2> QED BY <1>8, <2>1, <2>2
<1>9. ASSUME NEW h \in Handlers, BrowserTurns(h) PROVE Shape' BY <1>9, BrowserTurnsShape
<1> QED BY <1>1, <1>2, <1>3, <1>4, <1>5, <1>6, <1>7, <1>8, <1>9 DEF Step

-----------------------------------------------------------------------------
(* Writes to the storage that outlive their worker. *)

LiveSet == \E i \in DOMAIN Stored : Stored[i].by \in Commands

GoneSet(e) == e.by = Gone /\ e.call.op = "set"
FollowedBy(s, S) ==
  \A i \in DOMAIN s : GoneSet(s[i]) => \E j \in DOMAIN s : j > i /\ s[j].by \in S

\* After the write of a worker that has ended comes that of the last command,
\* and somebody who reads or writes the stored state and paints it.
Covered == ~cut => FollowedBy(Stored, Commands)
Repainted == up => FollowedBy(Stored, Handlers)

\* A later entry leaves the writes before it followed.
LEMMA FollowedPush ==
  ASSUME NEW s \in Seq(Entries), NEW t \in Seq(Entries), NEW e, NEW S, Pushed(s, t, e),
         e.by # Gone, FollowedBy(s, S) \/ e.by \in S
  PROVE  FollowedBy(t, S)
<1>1. /\ Len(t) \in DOMAIN t /\ t[Len(t)] = e
      /\ \A i \in DOMAIN s : i \in DOMAIN t /\ t[i] = s[i] /\ i < Len(t) /\ i \in Nat
      /\ \A i \in DOMAIN t : i = Len(t) \/ i \in DOMAIN s
      /\ Len(t) \in Nat
  BY PushQueue
<1> SUFFICES ASSUME NEW i \in DOMAIN t, GoneSet(t[i])
             PROVE  \E j \in DOMAIN t : j > i /\ t[j].by \in S
  BY DEF FollowedBy
<1>2. i \in DOMAIN s /\ t[i] = s[i] /\ Len(t) > i BY <1>1 DEF GoneSet
<1>3. CASE e.by \in S BY <1>1, <1>2, <1>3
<1>4. CASE FollowedBy(s, S)
  <2>1. PICK j \in DOMAIN s : j > i /\ s[j].by \in S BY <1>2, <1>4 DEF FollowedBy
  <2> QED BY <1>1, <2>1
<1> QED BY <1>3, <1>4

\* ... and so does the first entry's leaving.
LEMMA FollowedPop ==
  ASSUME NEW s \in Seq(Entries), NEW t \in Seq(Entries), NEW S, Popped(s, t),
         FollowedBy(s, S)
  PROVE  FollowedBy(t, S) /\ (GoneSet(s[1]) => \E j \in DOMAIN t : t[j].by \in S)
<1>1. /\ 1 \in DOMAIN s
      /\ \A i \in DOMAIN t : i \in Nat /\ i > 0 /\ i + 1 \in DOMAIN s /\ t[i] = s[i + 1]
      /\ \A i \in DOMAIN s :
           i = 1 \/ (i \in Nat /\ i > 1 /\ i - 1 \in DOMAIN t /\ t[i - 1] = s[i])
  BY PopQueue
<1>2. ASSUME NEW i \in DOMAIN t, GoneSet(t[i])
      PROVE  \E j \in DOMAIN t : j > i /\ t[j].by \in S
  <2>1. i + 1 \in DOMAIN s /\ GoneSet(s[i + 1]) /\ i \in Nat /\ i > 0
    BY <1>1, <1>2
  <2>2. PICK j \in DOMAIN s : j > i + 1 /\ s[j].by \in S BY <2>1 DEF FollowedBy
  <2>3. j # 1 BY <2>1, <2>2
  <2>4. j \in Nat /\ j - 1 \in DOMAIN t /\ t[j - 1] = s[j] BY <1>1, <2>3
  <2>5. j - 1 > i BY <2>1, <2>2, <2>4
  <2> QED BY <2>2, <2>4, <2>5
<1>3. ASSUME GoneSet(s[1]) PROVE \E j \in DOMAIN t : t[j].by \in S
  <2>1. PICK j \in DOMAIN s : j > 1 /\ s[j].by \in S BY <1>1, <1>3 DEF FollowedBy
  <2>2. j # 1 BY <2>1
  <2> QED BY <1>1, <2>1, <2>2
<1> QED BY <1>2, <1>3 DEF FollowedBy

\* The end of the worker within a command is noted.
LEMMA KillCut ==
  ASSUME Types, Shape, Kill, ~cut'
  PROVE  /\ ~cut
         /\ \A i \in DOMAIN Stored : Stored[i].by \notin Commands
         /\ \A i \in DOMAIN Browser : Browser[i].by \notin Commands
         /\ \A h \in Commands : todo[h] = <<>>
<1>1. ~cut /\ \A h \in Commands : ~Running(h) BY DEF Kill, Types
<1>2. \A h \in Commands : ~In(h, Stored) /\ ~In(h, Browser)
  BY <1>1, Constants DEF Running, In, Stored, Browser
<1> QED BY <1>1, <1>2, Constants DEF In, Shape, Quiet

\* An entry has its maker and its call.
LEMMA MadeBy == \A h, c : Made(h, c).by = h /\ Made(h, c).call = c
  BY DEF Made

\* Every step keeps the late writes followed.
LEMMA FollowedStep ==
  ASSUME Types, Types', Shape, Covered, Repainted, Step
  PROVE  Covered' /\ Repainted'
<1>1. Gone \notin Commands /\ Gone \notin Handlers /\ Gone \notin Requests /\ Boot # Gone
  BY Constants
<1>2. CASE Kill
  <2>1. Repainted' BY <1>2 DEF Kill, Repainted
  <2>2. ASSUME ~cut', NEW i \in DOMAIN Stored', GoneSet(Stored'[i])
        PROVE  \E j \in DOMAIN Stored' : j > i /\ Stored'[j].by \in Commands
    <3>1. i \in DOMAIN Stored /\ Stored[i].call.op = "set"
      BY <1>2, <2>2, KillQueues DEF GoneSet
    <3>2. ~cut /\ Stored[i].by \notin Commands /\ \A j \in DOMAIN Stored : Stored[j].by \notin Commands
      BY <1>2, <2>2, <3>1, KillCut
    <3>3. StoredEntry(Stored[i]) /\ Stored[i] \in Entries
      BY <3>1, QueueTypes, Queue DEF Shape, StoredShape
    <3>4. Stored[i].by = Gone
      BY <3>1, <3>2, <3>3, Constants DEF StoredEntry, Entries, Makers
    <3>5. GoneSet(Stored[i]) BY <3>1, <3>4 DEF GoneSet
    <3> QED BY <3>1, <3>2, <3>5 DEF Covered, FollowedBy
  <2> QED BY <2>1, <2>2 DEF Covered, FollowedBy
<1>3. CASE BootEnters
  <2>1. Pushed(Stored, Stored', Made(Boot, Call("get", Off))) /\ cut' = cut
    BY <1>3 DEF BootEnters, history
  <2> QED
    BY <1>1, <2>1, FollowedPush, MadeBy, QueueTypes, NextQueues, Constants
    DEF Covered, Repainted
<1>4. ASSUME NEW h \in Commands, NEW v \in Values, CommandEnters(h, v)
      PROVE  Covered' /\ Repainted'
  <2>1. Pushed(Stored, Stored', Made(h, Call("set", v))) BY <1>4 DEF CommandEnters
  <2> QED
    BY <1>1, <2>1, FollowedPush, MadeBy, QueueTypes, NextQueues, Constants
    DEF Covered, Repainted
<1>5. ASSUME NEW r \in Requests, RequestEnters(r) PROVE Covered' /\ Repainted'
  <2>1. Pushed(Stored, Stored', Made(r, Call("get", Off))) /\ cut' = cut /\ up' = up
    BY <1>5 DEF RequestEnters, history
  <2> QED
    BY <1>1, <2>1, FollowedPush, MadeBy, QueueTypes, NextQueues DEF Covered, Repainted
<1>6. ASSUME Popped(Stored, Stored'), cut' = cut, up' = up PROVE Covered' /\ Repainted'
  BY <1>6, FollowedPop, QueueTypes, NextQueues DEF Covered, Repainted
<1>7. ASSUME Stored' = Stored, cut' = cut, up' = up PROVE Covered' /\ Repainted'
  BY <1>7 DEF Covered, Repainted
<1>8. CASE LateLeaves BY <1>6, <1>8 DEF LateLeaves, history
<1>9. CASE BootMoves BY <1>6, <1>9 DEF BootMoves, history
<1>10. CASE BrowserLeaves BY <1>7, <1>10 DEF BrowserLeaves
<1>11. CASE Elsewhere BY <1>7, <1>11 DEF Elsewhere, history, Stored
<1>12. ASSUME NEW h \in Commands, NEW v \in Values, CommandMoves(h, v)
       PROVE  Covered' /\ Repainted'
  BY <1>6, <1>12 DEF CommandMoves, history
<1>13. ASSUME NEW r \in Requests, RequestLeaves(r) PROVE Covered' /\ Repainted'
  BY <1>6, <1>13 DEF RequestLeaves, history
<1>14. ASSUME NEW h \in Handlers, BrowserTurns(h) PROVE Covered' /\ Repainted'
  BY <1>7, <1>14 DEF BrowserTurns
<1> QED
  BY <1>2, <1>3, <1>4, <1>5, <1>8, <1>9, <1>10, <1>11, <1>12, <1>13, <1>14 DEF Step

\* The browser serves its first call: everybody moves up, and the handler may
\* have made another call.
LEMMA OneServed ==
  ASSUME Types, Types', Shape, BrowserLeaves \/ \E h \in Handlers : BrowserTurns(h)
  PROVE  /\ 1 \in DOMAIN Browser /\ Effect(Browser[1].call)
         /\ \A i \in DOMAIN Browser' :
              /\ i \in Nat /\ i > 0
              /\ \/ i + 1 \in DOMAIN Browser /\ Browser'[i] = Browser[i + 1]
                 \/ Browser'[i].call.op \in {"colour", "text", "title", "flush"}
         /\ \A i \in DOMAIN Browser :
              i = 1 \/ (i \in Nat /\ i > 1 /\ i - 1 \in DOMAIN Browser' /\ Browser'[i - 1] = Browser[i])
         /\ Stored' = Stored /\ UNCHANGED <<active, up, req, cut, overtaken>>
<1>1. CASE BrowserLeaves
  <2>1. Popped(Browser, Browser') /\ Effect(Browser[1].call) /\ Stored' = Stored
        /\ UNCHANGED <<active, up, req, cut, overtaken>>
    BY <1>1 DEF BrowserLeaves
  <2> QED BY <2>1, PopQueue, QueueTypes, NextQueues
<1>2. ASSUME NEW h \in Handlers, BrowserTurns(h)
      PROVE  /\ 1 \in DOMAIN Browser /\ Effect(Browser[1].call)
             /\ \A i \in DOMAIN Browser' :
                  /\ i \in Nat /\ i > 0
                  /\ \/ i + 1 \in DOMAIN Browser /\ Browser'[i] = Browser[i + 1]
                     \/ Browser'[i].call.op \in {"colour", "text", "title", "flush"}
             /\ \A i \in DOMAIN Browser :
                  \/ i = 1
                  \/ i \in Nat /\ i > 1 /\ i - 1 \in DOMAIN Browser' /\ Browser'[i - 1] = Browser[i]
             /\ Stored' = Stored /\ UNCHANGED <<active, up, req, cut, overtaken>>
  <2>1. /\ Cycled(Browser, Browser', Made(h, todo[h][1])) /\ Effect(Browser[1].call)
        /\ Stored' = Stored /\ UNCHANGED <<active, up, req, cut, overtaken>>
        /\ Browser[1].by = h /\ todo[h] # <<>>
    BY <1>2 DEF BrowserTurns
  <2>2. /\ 1 \in DOMAIN Browser /\ Browser'[Len(Browser')] = Made(h, todo[h][1])
        /\ \A i \in DOMAIN Browser' :
             /\ i \in Nat /\ i > 0
             /\ i = Len(Browser') \/ (i + 1 \in DOMAIN Browser /\ Browser'[i] = Browser[i + 1])
        /\ \A i \in DOMAIN Browser :
             \/ i = 1
             \/ i \in Nat /\ i > 1 /\ i - 1 \in DOMAIN Browser' /\ Browser'[i - 1] = Browser[i]
    BY <2>1, CycleQueue, QueueTypes, NextQueues
  <2>3. todo[h][1].op \in {"colour", "text", "title", "flush"}
    <3>1. Remaining(h) BY <2>1, <2>2 DEF Shape, BrowserShape, BrowserEntry
    <3>2. 1 \in DOMAIN todo[h] BY <2>1, QueueTypes, Queue
    <3> QED BY <3>1, <3>2 DEF Remaining
  <2> QED BY <2>1, <2>2, <2>3, MadeBy
<1> QED BY <1>1, <1>2

-----------------------------------------------------------------------------
(* Where the browser goes. *)

Fits(s) == s = "fixed" <=> active # Off
Sets(e) == e.call.op = "setting"
SettingWillFit ==
  \/ Fits(setting) /\ \A i \in DOMAIN Browser : ~Sets(Browser[i])
  \/ \E i \in DOMAIN Browser :
       /\ Sets(Browser[i]) /\ Fits(Browser[i].call.val)
       /\ \A j \in DOMAIN Browser : j > i => ~Sets(Browser[j])
SettingInv == ~cut => LiveSet \/ SettingWillFit

\* The setting that the browser's queue arrives at stays the same as it serves.
LEMMA SettingServed ==
  ASSUME Types, Types', Shape, SettingWillFit,
         BrowserLeaves \/ \E h \in Handlers : BrowserTurns(h)
  PROVE  SettingWillFit'
<1>1. /\ 1 \in DOMAIN Browser /\ active' = active
      /\ setting' = IF Sets(Browser[1]) THEN Browser[1].call.val ELSE setting
      /\ \A i \in DOMAIN Browser' :
           /\ i \in Nat /\ i > 0
           /\ Sets(Browser'[i]) => i + 1 \in DOMAIN Browser /\ Browser'[i] = Browser[i + 1]
      /\ \A i \in DOMAIN Browser :
           i = 1 \/ (i \in Nat /\ i > 1 /\ i - 1 \in DOMAIN Browser' /\ Browser'[i - 1] = Browser[i])
  BY OneServed DEF Effect, Sets
<1>2. \A x : Fits(x)' <=> Fits(x) BY <1>1 DEF Fits
<1>3. CASE Fits(setting) /\ \A i \in DOMAIN Browser : ~Sets(Browser[i])
  <2>1. setting' = setting BY <1>1, <1>3
  <2>2. Fits(setting)' BY <1>1, <1>3, <2>1 DEF Fits
  <2>3. \A i \in DOMAIN Browser' : ~Sets(Browser'[i]) BY <1>1, <1>3
  <2> QED BY <2>2, <2>3 DEF SettingWillFit, Sets
<1>4. ASSUME NEW i \in DOMAIN Browser, Sets(Browser[i]), Fits(Browser[i].call.val),
             \A j \in DOMAIN Browser : j > i => ~Sets(Browser[j])
      PROVE  SettingWillFit'
  <2>1. CASE i = 1
    <3>1. setting' = Browser[1].call.val BY <1>1, <1>4, <2>1
    <3>2. Fits(setting)' BY <1>1, <1>4, <2>1, <3>1 DEF Fits
    <3>3. \A j \in DOMAIN Browser' : ~Sets(Browser'[j])
      <4> SUFFICES ASSUME NEW j \in DOMAIN Browser', Sets(Browser'[j]) PROVE FALSE OBVIOUS
      <4>1. j \in Nat /\ j > 0 /\ j + 1 \in DOMAIN Browser /\ Browser'[j] = Browser[j + 1]
        BY <1>1
      <4>2. j + 1 > i BY <2>1, <4>1
      <4> QED BY <1>4, <4>1, <4>2
    <3> QED BY <3>2, <3>3 DEF SettingWillFit, Sets
  <2>2. CASE i # 1
    <3>1. i \in Nat /\ i - 1 \in DOMAIN Browser' /\ Browser'[i - 1] = Browser[i]
      BY <1>1, <2>2
    <3>2. Sets(Browser'[i - 1]) /\ Fits(Browser[i - 1].call.val)'
      BY <1>1, <1>4, <3>1 DEF Fits, Sets
    <3>3. \A j \in DOMAIN Browser' : j > i - 1 => ~Sets(Browser'[j])
      <4> SUFFICES ASSUME NEW j \in DOMAIN Browser', j > i - 1, Sets(Browser'[j]) PROVE FALSE
        OBVIOUS
      <4>1. j \in Nat /\ j + 1 \in DOMAIN Browser /\ Browser'[j] = Browser[j + 1] BY <1>1
      <4>2. j + 1 > i BY <3>1, <4>1
      <4> QED BY <1>4, <4>1, <4>2
    <3> QED BY <3>1, <3>2, <3>3 DEF SettingWillFit, Sets, Fits
  <2> QED BY <2>1, <2>2
<1> QED BY <1>3, <1>4 DEF SettingWillFit

\* A handler comes from the storage to the browser.
LEMMA SettingPushed ==
  ASSUME Types, Types', NEW e, Pushed(Browser, Browser', e), setting' = setting,
         Sets(e) => Fits(e.call.val)',
         Sets(e) \/ (SettingWillFit /\ active' = active)
  PROVE  SettingWillFit'
<1>1. /\ Len(Browser') \in DOMAIN Browser' /\ Browser'[Len(Browser')] = e
      /\ Len(Browser') \in Nat
      /\ \A i \in DOMAIN Browser :
           i \in Nat /\ i \in DOMAIN Browser' /\ Browser'[i] = Browser[i] /\ i < Len(Browser')
      /\ \A i \in DOMAIN Browser' : i = Len(Browser') \/ i \in DOMAIN Browser
  BY PushQueue, QueueTypes, NextQueues
<1>2. CASE Sets(e)
  <2>1. \A j \in DOMAIN Browser' : ~(j > Len(Browser')) BY <1>1
  <2>2. Fits(Browser[Len(Browser)].call.val)' BY <1>1, <1>2 DEF Fits
  <2>3. Sets(Browser'[Len(Browser')]) BY <1>1, <1>2
  <2> QED BY <1>1, <2>1, <2>2, <2>3 DEF SettingWillFit, Sets, Fits
<1>3. CASE ~Sets(e)
  <2>1. SettingWillFit /\ active' = active BY <1>3
  <2>2. CASE Fits(setting) /\ \A i \in DOMAIN Browser : ~Sets(Browser[i])
    <3>1. Fits(setting)' BY <2>1, <2>2 DEF Fits
    <3>2. \A i \in DOMAIN Browser' : ~Sets(Browser'[i]) BY <1>1, <1>3, <2>2
    <3> QED BY <3>1, <3>2 DEF SettingWillFit, Sets
  <2>3. ASSUME NEW i \in DOMAIN Browser, Sets(Browser[i]), Fits(Browser[i].call.val),
               \A j \in DOMAIN Browser : j > i => ~Sets(Browser[j])
        PROVE  SettingWillFit'
    <3>1. i \in DOMAIN Browser' /\ Browser'[i] = Browser[i] BY <1>1
    <3>2. Sets(Browser'[i]) /\ Fits(Browser[i].call.val)'
      BY <2>1, <2>3, <3>1 DEF Fits, Sets
    <3>3. \A j \in DOMAIN Browser' : j > i => ~Sets(Browser'[j]) BY <1>1, <1>3, <2>3
    <3> QED BY <3>1, <3>2, <3>3 DEF SettingWillFit, Sets, Fits
  <2> QED BY <2>1, <2>2, <2>3 DEF SettingWillFit
<1> QED BY <1>2, <1>3

\* A command enters the storage queue, or stays in it as another entry leaves.
LEMMA LivePush ==
  ASSUME Types, Types', NEW e, Pushed(Stored, Stored', e), LiveSet \/ e.by \in Commands
  PROVE  LiveSet'
<1>1. /\ Len(Stored') \in DOMAIN Stored' /\ Stored'[Len(Stored')] = e
      /\ \A i \in DOMAIN Stored : i \in DOMAIN Stored' /\ Stored'[i] = Stored[i]
  BY PushQueue, QueueTypes, NextQueues
<1> QED BY <1>1 DEF LiveSet

LEMMA LivePop ==
  ASSUME Types, Types', Popped(Stored, Stored'), LiveSet, Stored[1].by \notin Commands
  PROVE  LiveSet'
<1>1. \A i \in DOMAIN Stored :
        i = 1 \/ (i - 1 \in DOMAIN Stored' /\ Stored'[i - 1] = Stored[i])
  BY PopQueue, QueueTypes, NextQueues
<1> QED BY <1>1 DEF LiveSet

\* The write of a worker that has ended is not the last one.
LEMMA LateCovered ==
  ASSUME Types, Types', LateLeaves, Covered, ~cut, Stored[1].call.op = "set"
  PROVE  LiveSet'
<1>1. FollowedBy(Stored, Commands) /\ GoneSet(Stored[1]) /\ Popped(Stored, Stored')
  BY DEF Covered, LateLeaves, GoneSet
<1>2. \E j \in DOMAIN Stored' : Stored'[j].by \in Commands
  BY <1>1, FollowedPop, QueueTypes, NextQueues
<1> QED BY <1>2 DEF LiveSet

\* Every step keeps SettingInv: clearProxy and applyProxy set the proxy first.
LEMMA SettingStep ==
  ASSUME Types, Types', Shape, Covered, SettingInv, Step
  PROVE  SettingInv'
<1> SUFFICES ASSUME ~cut' PROVE (LiveSet \/ SettingWillFit)' BY DEF SettingInv
<1>1. Gone \notin Commands /\ Boot \notin Commands /\ Requests \cap Commands = {}
  BY Constants
<1>2. CASE Kill
  <2>1. ~cut /\ \A i \in DOMAIN Stored : Stored[i].by \notin Commands BY <1>2, KillCut
  <2>2. SettingWillFit BY <2>1 DEF SettingInv, LiveSet
  <2>3. /\ DOMAIN Browser' = DOMAIN Browser
        /\ \A i \in DOMAIN Browser : Browser'[i].call = Browser[i].call
    BY <1>2, KillQueues
  <2>4. active' = active /\ setting' = setting BY <1>2 DEF Kill, storage, chrome
  <2>5. SettingWillFit' BY <2>2, <2>3, <2>4 DEF SettingWillFit, Sets, Fits
  <2> QED BY <2>5
<1>3. ASSUME Browser' = Browser, setting' = setting, active' = active, SettingWillFit
      PROVE  SettingWillFit'
  BY <1>3 DEF SettingWillFit, Sets, Fits
<1>4. CASE BootEnters
  <2>1. Pushed(Stored, Stored', Made(Boot, Call("get", Off))) /\ Browser' = Browser
        /\ UNCHANGED <<active, setting, cut>>
    BY <1>4 DEF BootEnters, chrome, history
  <2>2. LiveSet \/ SettingWillFit BY <2>1 DEF SettingInv
  <2> QED BY <1>3, <2>1, <2>2, LivePush
<1>5. ASSUME NEW h \in Commands, NEW v \in Values, CommandEnters(h, v) PROVE LiveSet'
  <2>1. Pushed(Stored, Stored', Made(h, Call("set", v))) BY <1>5 DEF CommandEnters
  <2> QED BY <2>1, MadeBy, LivePush
<1>6. ASSUME NEW r \in Requests, RequestEnters(r) PROVE (LiveSet \/ SettingWillFit)'
  <2>1. Pushed(Stored, Stored', Made(r, Call("get", Off))) /\ Browser' = Browser
        /\ UNCHANGED <<active, setting, cut>>
    BY <1>6 DEF RequestEnters, chrome, history
  <2>2. LiveSet \/ SettingWillFit BY <2>1 DEF SettingInv
  <2> QED BY <1>3, <2>1, <2>2, LivePush
<1>7. ASSUME NEW r \in Requests, RequestLeaves(r) PROVE (LiveSet \/ SettingWillFit)'
  <2>1. Popped(Stored, Stored') /\ Stored[1].by = r /\ Browser' = Browser
        /\ UNCHANGED <<active, setting, cut>>
    BY <1>7 DEF RequestLeaves, chrome, history
  <2>2. LiveSet \/ SettingWillFit BY <2>1 DEF SettingInv
  <2> QED BY <1>1, <1>3, <2>1, <2>2, LivePop
<1>8. CASE LateLeaves
  <2>1. /\ Popped(Stored, Stored') /\ Stored[1].by = Gone /\ Browser' = Browser
        /\ setting' = setting /\ cut' = cut
        /\ active' = (IF Stored[1].call.op = "set" THEN Stored[1].call.val ELSE active)
    BY <1>8 DEF LateLeaves, chrome, history
  <2>2. LiveSet \/ SettingWillFit BY <2>1 DEF SettingInv
  <2>3. CASE Stored[1].call.op = "set" BY <1>8, <2>1, <2>3, LateCovered
  <2>4. CASE Stored[1].call.op # "set"
    BY <1>1, <1>3, <2>1, <2>2, <2>4, LivePop
  <2> QED BY <2>3, <2>4
<1>9. CASE BootMoves
  <2>1. /\ Popped(Stored, Stored') /\ Stored[1].by = Boot
        /\ Pushed(Browser, Browser', Made(Boot, Reflect(active)[1]))
        /\ UNCHANGED <<active, setting, cut>>
    BY <1>9 DEF BootMoves, chrome, history
  <2>2. LiveSet \/ SettingWillFit BY <2>1 DEF SettingInv
  <2>3. PICK e : e = Made(Boot, Reflect(active)[1]) OBVIOUS
  <2>4. ~Sets(e)
    <3>1. PICK p \in Values : p = active BY DEF Types, TypeOK, Values
    <3>2. Reflect(p)[1] = Call("colour", p) \/ Reflect(p)[1] = Call("text", p)
      BY ReflectScript
    <3>3. e.call = Call("colour", p) \/ e.call = Call("text", p)
      BY <2>3, <3>1, <3>2, MadeBy
    <3> QED BY <3>3 DEF Sets, Call
  <2> QED BY <1>1, <2>1, <2>2, <2>3, <2>4, LivePop, SettingPushed
<1>10. ASSUME NEW h \in Commands, NEW v \in Values, CommandMoves(h, v)
      PROVE  SettingWillFit'
  <2>1. Pushed(Browser, Browser', Made(h, Rest(v)[1])) /\ setting' = setting /\ active' = v
    BY <1>10 DEF CommandMoves, chrome
  <2>2. PICK e : e = Made(h, Rest(v)[1]) OBVIOUS
  <2>3. e.call = Call("setting", IF v = Off THEN "direct" ELSE "fixed")
    BY <2>2, MadeBy, RestScript
  <2>4. Sets(e) /\ e.call.val = (IF v = Off THEN "direct" ELSE "fixed")
    BY <2>3 DEF Sets, Call
  <2>5. Fits(e.call.val)' BY <2>1, <2>4 DEF Fits
  <2> QED BY <2>1, <2>2, <2>4, <2>5, SettingPushed
<1>11. CASE BrowserLeaves \/ \E h \in Handlers : BrowserTurns(h)
  <2>1. Stored' = Stored /\ cut' = cut BY <1>11, OneServed
  <2>2. LiveSet \/ SettingWillFit BY <2>1 DEF SettingInv
  <2>3. CASE LiveSet BY <2>1, <2>3 DEF LiveSet
  <2> QED BY <1>11, <2>2, <2>3, SettingServed
<1>12. CASE Elsewhere
  <2>1. Stored' = Stored /\ Browser' = Browser /\ UNCHANGED <<active, setting, cut>>
    BY <1>12 DEF Elsewhere, Stored, Browser, history
  <2>2. LiveSet \/ SettingWillFit BY <2>1 DEF SettingInv
  <2>3. CASE LiveSet BY <2>1, <2>3 DEF LiveSet
  <2> QED BY <1>3, <2>1, <2>2, <2>3
<1> QED
  BY <1>2, <1>4, <1>5, <1>6, <1>7, <1>8, <1>9, <1>10, <1>11, <1>12 DEF Step

-----------------------------------------------------------------------------
(* The credentials that the browser has cached. *)

CacheFits ==
  /\ cache \in {Off, active}
  /\ \A r \in Requests : req[r].at = "answered" => req[r].as = active
CacheInv ==
  ~cut /\ ~crossed /\ active # Off => LiveSet \/ (\E h \in Commands : Applying(h)) \/ CacheFits

\* An apply goes on applying until the browser serves its flush.
LEMMA ApplyingServed ==
  ASSUME Types, Types', Shape, NEW h \in Commands,
         BrowserLeaves \/ \E g \in Handlers : BrowserTurns(g)
  PROVE  /\ Applying(h)' => Applying(h)
         /\ Applying(h) /\ Browser[1].call.op # "flush" => Applying(h)'
<1> DEFINE f == Made(h, Call("flush", Off))
<1>1. f.call.op = "flush" /\ f.by = h /\ h \in Handlers BY MadeBy, Constants DEF Call
<1>2. CASE BrowserLeaves
  <2>1. Popped(Browser, Browser') /\ todo' = todo BY <1>2 DEF BrowserLeaves
  <2>2. /\ \A i \in DOMAIN Browser' : i + 1 \in DOMAIN Browser /\ Browser'[i] = Browser[i + 1]
        /\ \A i \in DOMAIN Browser :
             i = 1 \/ (i - 1 \in DOMAIN Browser' /\ Browser'[i - 1] = Browser[i])
    BY <2>1, PopQueue, QueueTypes, NextQueues
  <2> HIDE DEF f
  <2>3. ASSUME Applying(h)' PROVE Applying(h)
    BY <2>1, <2>2, <2>3 DEF Applying, Browser
  <2>4. ASSUME Applying(h), Browser[1].call.op # "flush" PROVE Applying(h)'
    <3>1. CASE \E i \in DOMAIN todo[h] : todo[h][i].op = "flush"
      BY <2>1, <3>1 DEF Applying
    <3>2. ASSUME NEW i \in DOMAIN Browser, Browser[i] = f PROVE Applying(h)'
      <4>1. i # 1 BY <1>1, <2>4, <3>2
      <4>2. i - 1 \in DOMAIN Browser' /\ Browser'[i - 1] = f BY <2>2, <3>2, <4>1
      <4> QED BY <4>2 DEF Applying, Browser, f
    <3> QED BY <2>4, <3>1, <3>2 DEF Applying, Browser, f
  <2> QED BY <2>3, <2>4
<1>3. ASSUME NEW g \in Handlers, BrowserTurns(g)
      PROVE  /\ Applying(h)' => Applying(h)
             /\ Applying(h) /\ Browser[1].call.op # "flush" => Applying(h)'
  <2> DEFINE e == Made(g, todo[g][1])
  <2>1. /\ Cycled(Browser, Browser', e) /\ todo[g] # <<>>
        /\ todo' = [todo EXCEPT ![g] = Tail(todo[g])] /\ Browser[1].by = g
    BY <1>3 DEF BrowserTurns
  <2>2. e.by = g /\ e.call = todo[g][1] BY MadeBy
  <2> HIDE DEF e
  <2>3. /\ Len(Browser') \in DOMAIN Browser' /\ Browser'[Len(Browser')] = e
        /\ \A i \in DOMAIN Browser' :
             i = Len(Browser') \/ (i + 1 \in DOMAIN Browser /\ Browser'[i] = Browser[i + 1])
        /\ \A i \in DOMAIN Browser :
             i = 1 \/ (i - 1 \in DOMAIN Browser' /\ Browser'[i - 1] = Browser[i])
    BY <2>1, CycleQueue, QueueTypes, NextQueues
  <2>4. \A x \in Handlers : x # g => todo'[x] = todo[x] BY <1>3, Turned
  <2>5. PICK s : s = todo[g] OBVIOUS
  <2>6. 1 \in DOMAIN s /\ s[1] \in Calls BY <1>3, <2>5, Turned
  <2>7. /\ \A k \in DOMAIN todo'[g] : k + 1 \in DOMAIN s /\ todo'[g][k] = s[k + 1]
        /\ \A k \in DOMAIN s : k = 1 \/ (k - 1 \in DOMAIN todo'[g] /\ todo'[g][k - 1] = s[k])
    BY <1>3, <2>5, Turned
  <2>8. ASSUME Applying(h)' PROVE Applying(h)
    <3>1. ASSUME NEW k \in DOMAIN todo'[h], todo'[h][k].op = "flush" PROVE Applying(h)
      <4>1. CASE h = g BY <2>5, <2>7, <3>1, <4>1 DEF Applying
      <4>2. CASE h # g BY <1>1, <2>4, <3>1, <4>2 DEF Applying
      <4> QED BY <4>1, <4>2
    <3>2. ASSUME NEW i \in DOMAIN Browser', Browser'[i] = f PROVE Applying(h)
      <4>1. CASE i = Len(Browser')
        <5>1. e = f BY <2>3, <3>2, <4>1
        <5>2. g = h /\ s[1].op = "flush" BY <1>1, <2>2, <2>5, <5>1
        <5> QED BY <2>5, <2>6, <5>2 DEF Applying
      <4>2. CASE i # Len(Browser')
        <5>1. i + 1 \in DOMAIN Browser /\ Browser[i + 1] = f BY <2>3, <3>2, <4>2
        <5> QED BY <5>1 DEF Applying, Browser
      <4> QED BY <4>1, <4>2
    <3> QED BY <2>8, <3>1, <3>2 DEF Applying, Browser
  <2>9. ASSUME Applying(h), Browser[1].call.op # "flush" PROVE Applying(h)'
    <3>1. ASSUME NEW k \in DOMAIN todo[h], todo[h][k].op = "flush" PROVE Applying(h)'
      <4>1. CASE h # g BY <1>1, <2>4, <3>1, <4>1 DEF Applying
      <4>2. CASE h = g /\ k = 1
        <5>1. s[1] \in Calls /\ s[1].op = "flush" BY <2>5, <2>6, <3>1, <4>2
        <5>2. s[1] = Call("flush", Off) BY <5>1 DEF Calls, Call
        <5>3. e = f BY <2>5, <4>2, <5>2 DEF e
        <5> QED BY <2>3, <5>3 DEF Applying, Browser
      <4>3. CASE h = g /\ k # 1 BY <2>5, <2>7, <3>1, <4>3 DEF Applying
      <4> QED BY <4>1, <4>2, <4>3
    <3>2. ASSUME NEW i \in DOMAIN Browser, Browser[i] = f PROVE Applying(h)'
      <4>1. i # 1 BY <1>1, <2>9, <3>2
      <4>2. i - 1 \in DOMAIN Browser' /\ Browser'[i - 1] = f BY <2>3, <3>2, <4>1
      <4> QED BY <4>2 DEF Applying, Browser
    <3> QED BY <2>9, <3>1, <3>2 DEF Applying, Browser
  <2> QED BY <2>8, <2>9
<1> QED BY <1>2, <1>3

\* ... and the steps at the storage do not disturb it.
LEMMA ApplyingElsewhere ==
  ASSUME Types, Types', NEW h \in Commands, todo'[h] = todo[h],
         Browser' = Browser \/ \E e : Pushed(Browser, Browser', e) /\ e.call.op # "flush"
  PROVE  Applying(h)' <=> Applying(h)
<1> DEFINE f == Made(h, Call("flush", Off))
<1>1. f.call.op = "flush" BY MadeBy DEF Call
<1>2. CASE Browser' = Browser BY <1>2 DEF Applying, Browser
<1>3. ASSUME NEW e, Pushed(Browser, Browser', e), e.call.op # "flush"
      PROVE  Applying(h)' <=> Applying(h)
  <2>1. /\ Browser'[Len(Browser')] = e
        /\ \A i \in DOMAIN Browser : i \in DOMAIN Browser' /\ Browser'[i] = Browser[i]
        /\ \A i \in DOMAIN Browser' : i = Len(Browser') \/ i \in DOMAIN Browser
    BY <1>3, PushQueue, QueueTypes, NextQueues
  <2>2. (\E i \in DOMAIN Browser' : Browser'[i] = f) <=> (\E i \in DOMAIN Browser : Browser[i] = f)
    BY <1>1, <1>3, <2>1
  <2> QED BY <2>2 DEF Applying, Browser
<1> QED BY <1>2, <1>3

\* The first call of a handler at the browser is not a flush.
LEMMA FirstCalls ==
  ASSUME NEW v \in Values
  PROVE  Reflect(v)[1].op # "flush" /\ Rest(v)[1].op # "flush"
<1>1. Reflect(v)[1] = Call("colour", v) \/ Reflect(v)[1] = Call("text", v)
  BY ReflectScript
<1>2. \E x : Rest(v)[1] = Call("setting", x) BY RestScript
<1> QED BY <1>1, <1>2 DEF Call

\* Every step keeps CacheInv: a flush ends each apply.
LEMMA CacheStep ==
  ASSUME Types, Types', Shape, Covered, CacheInv, Step
  PROVE  CacheInv'
<1> SUFFICES ASSUME ~cut', ~crossed', active' # Off
             PROVE  LiveSet' \/ (\E h \in Commands : Applying(h)') \/ CacheFits'
  BY DEF CacheInv
<1>1. /\ Gone \notin Commands /\ Boot \notin Commands /\ Requests \cap Commands = {}
      /\ Commands \subseteq Handlers
  BY Constants
<1>2. CASE Kill
  <2>1. /\ ~cut /\ \A i \in DOMAIN Stored : Stored[i].by \notin Commands
        /\ \A i \in DOMAIN Browser : Browser[i].by \notin Commands
        /\ \A h \in Commands : todo[h] = <<>>
    BY <1>2, KillCut
  <2>2. \A h \in Commands : ~Applying(h)
    <3> SUFFICES ASSUME NEW h \in Commands, Applying(h) PROVE FALSE OBVIOUS
    <3>1. DOMAIN todo[h] = {} BY <2>1
    <3>2. PICK i \in DOMAIN Browser : Browser[i] = Made(h, Call("flush", Off))
      BY <3>1 DEF Applying, Browser
    <3>3. Browser[i].by = h BY <3>2, MadeBy
    <3> QED BY <2>1, <3>3
  <2>3. ~crossed /\ active' = active /\ cache' = cache
    BY <1>2 DEF Kill, storage, chrome
  <2>4. CacheFits BY <2>1, <2>2, <2>3 DEF CacheInv, LiveSet
  <2>5. \A r \in Requests : req'[r].at = "answered" => req'[r] = req[r]
    BY <1>2 DEF Kill, Types, TypeOK
  <2>6. CacheFits' BY <2>3, <2>4, <2>5 DEF CacheFits
  <2> QED BY <2>6
<1>3. ASSUME UNCHANGED <<active, cut, crossed>>
      PROVE  LiveSet \/ (\E h \in Commands : Applying(h)) \/ CacheFits
  BY <1>3 DEF CacheInv
<1>4. ASSUME NoNewAnswer, UNCHANGED <<active, cache>>, CacheFits PROVE CacheFits'
  BY <1>4 DEF NoNewAnswer, CacheFits
<1>5. ASSUME UNCHANGED <<active, cache, req>>, CacheFits PROVE CacheFits'
  BY <1>5 DEF CacheFits
<1>6. CASE BootEnters
  <2>1. /\ Pushed(Stored, Stored', Made(Boot, Call("get", Off))) /\ Browser' = Browser
        /\ todo' = [todo EXCEPT ![Boot] = <<>>] /\ UNCHANGED <<active, cache, req, cut, crossed>>
    BY <1>6 DEF BootEnters, chrome, history
  <2>2. \A h \in Commands : todo'[h] = todo[h] BY <1>1, <2>1, TodoExcept, Constants
  <2>3. \A h \in Commands : Applying(h) => Applying(h)' BY <2>1, <2>2, ApplyingElsewhere
  <2>4. LiveSet => LiveSet' BY <2>1, LivePush
  <2> QED BY <1>3, <1>5, <2>1, <2>3, <2>4
<1>7. ASSUME NEW h \in Commands, NEW v \in Values, CommandEnters(h, v) PROVE LiveSet'
  <2>1. Pushed(Stored, Stored', Made(h, Call("set", v))) BY <1>7 DEF CommandEnters
  <2> QED BY <2>1, MadeBy, LivePush
<1>8. ASSUME NEW r \in Requests, RequestEnters(r) \/ RequestLeaves(r)
      PROVE  LiveSet' \/ (\E h \in Commands : Applying(h)') \/ CacheFits'
  <2>1. /\ Browser' = Browser /\ todo' = todo /\ NoNewAnswer
        /\ UNCHANGED <<active, cache, cut, crossed>>
    BY <1>8 DEF RequestEnters, RequestLeaves, chrome, history
  <2>2. \A h \in Commands : Applying(h) => Applying(h)' BY <2>1, ApplyingElsewhere
  <2>3. LiveSet => LiveSet'
    BY <1>1, <1>8, LivePush, LivePop DEF RequestEnters, RequestLeaves
  <2> QED BY <1>3, <1>4, <2>1, <2>2, <2>3
<1>9. CASE LateLeaves
  <2>1. /\ Popped(Stored, Stored') /\ Stored[1].by = Gone /\ Browser' = Browser /\ todo' = todo
        /\ UNCHANGED <<cache, req, cut, crossed>>
        /\ Stored[1].call.op # "set" => active' = active
    BY <1>9 DEF LateLeaves, chrome, history
  <2>2. CASE Stored[1].call.op = "set" BY <1>9, <2>1, <2>2, LateCovered
  <2>3. CASE Stored[1].call.op # "set"
    <3>1. \A h \in Commands : Applying(h) => Applying(h)' BY <2>1, ApplyingElsewhere
    <3>2. LiveSet => LiveSet' BY <1>1, <2>1, LivePop
    <3> QED BY <1>3, <1>5, <2>1, <2>3, <3>1, <3>2
  <2> QED BY <2>2, <2>3
<1>10. CASE BootMoves
  <2>1. /\ Popped(Stored, Stored') /\ Stored[1].by = Boot
        /\ Pushed(Browser, Browser', Made(Boot, Reflect(active)[1]))
        /\ todo' = [todo EXCEPT ![Boot] = Tail(Reflect(active))]
        /\ UNCHANGED <<active, cache, req, cut, crossed>>
    BY <1>10 DEF BootMoves, chrome, history
  <2>2. \A h \in Commands : todo'[h] = todo[h] BY <1>1, <2>1, TodoExcept, Constants
  <2>3. PICK e : e = Made(Boot, Reflect(active)[1]) OBVIOUS
  <2>4. e.call.op # "flush"
    BY <2>3, FirstCalls, MadeBy DEF Types, TypeOK, Values
  <2>5. \A h \in Commands : Applying(h) => Applying(h)'
    BY <2>1, <2>2, <2>3, <2>4, ApplyingElsewhere
  <2>6. LiveSet => LiveSet' BY <1>1, <2>1, LivePop
  <2> QED BY <1>3, <1>5, <2>1, <2>5, <2>6
<1>11. ASSUME NEW h \in Commands, NEW v \in Values, CommandMoves(h, v)
       PROVE  Applying(h)'
  <2>1. active' = v /\ todo' = [todo EXCEPT ![h] = Tail(Rest(v))] BY <1>11 DEF CommandMoves
  <2>2. todo'[h] = Tail(Rest(v)) BY <1>1, <2>1, TodoExcept
  <2>3. PICK t \in Seq(Calls) : t = todo'[h] /\ Len(t) = 4 /\ t[4] = Call("flush", Off)
    BY <2>1, <2>2, RestScript
  <2>4. DOMAIN t = 1..Len(t) /\ Len(t) = 4 BY <2>3, Queue
  <2>5. DOMAIN t = 1..4 BY ONLY <2>4
  <2>6. 4 \in DOMAIN t BY ONLY <2>5
  <2>7. t[4].op = "flush" BY <2>3 DEF Call
  <2> QED BY <2>3, <2>6, <2>7 DEF Applying
<1>12. CASE BrowserLeaves \/ \E h \in Handlers : BrowserTurns(h)
  <2>1. /\ Effect(Browser[1].call) /\ Stored' = Stored
        /\ UNCHANGED <<active, req, cut>>
    BY <1>12, OneServed
  <2>2. CASE Browser[1].call.op = "flush"
    <3>1. cache' = Off /\ ~\E r \in Requests : req[r].at = "answered" /\ req[r].as # active
      BY <2>1, <2>2 DEF Effect
    <3> QED BY <2>1, <3>1 DEF CacheFits
  <2>3. CASE Browser[1].call.op # "flush"
    <3>1. cache' = cache /\ ~crossed BY <2>1, <2>3 DEF Effect
    <3>2. LiveSet \/ (\E h \in Commands : Applying(h)) \/ CacheFits
      BY <2>1, <3>1 DEF CacheInv
    <3>3. LiveSet => LiveSet' BY <2>1 DEF LiveSet
    <3>4. \A h \in Commands : Applying(h) => Applying(h)' BY <1>12, <2>3, ApplyingServed
    <3>5. CacheFits => CacheFits' BY <1>5, <2>1, <3>1
    <3> QED BY <3>2, <3>3, <3>4, <3>5
  <2> QED BY <2>2, <2>3
<1>13. CASE Elsewhere
  <2>1. /\ Stored' = Stored /\ Browser' = Browser /\ todo' = todo /\ NoNewAnswer
        /\ UNCHANGED <<active, cut, crossed>>
        /\ \/ cache' \in {cache, Off}
           \/ \E r \in Requests : req[r].at = "answered" /\ cache' = req[r].as
    BY <1>13 DEF Elsewhere, Stored, Browser, history
  <2>2. \A h \in Commands : Applying(h) => Applying(h)' BY <2>1, ApplyingElsewhere
  <2>3. LiveSet => LiveSet' BY <2>1 DEF LiveSet
  <2>4. CacheFits => CacheFits' BY <2>1 DEF NoNewAnswer, CacheFits
  <2> QED BY <1>3, <2>1, <2>2, <2>3, <2>4
<1> QED
  BY <1>2, <1>6, <1>7, <1>8, <1>9, <1>10, <1>11, <1>12, <1>13 DEF Step

\* What holds of the queues whatever is asked of them.
Base == Types /\ Shape /\ Covered /\ Repainted

\* The base holds at first, and every step keeps it.
LEMMA InitBase == Init => Base
<1>1. Init => Covered /\ Repainted
  <2> SUFFICES ASSUME Init PROVE Covered /\ Repainted OBVIOUS
  <2>1. Stored = <<>> BY Constants DEF Init, Stored
  <2>2. DOMAIN Stored = {} BY <2>1
  <2> QED BY <2>2 DEF Covered, Repainted, FollowedBy
<1> QED BY <1>1, InitTypes, InitShape DEF Base

LEMMA BaseStep == ASSUME Base, [Next]_vars PROVE Base' /\ Step
<1>1. Types' BY NextTypes DEF Base
<1>2. Step BY Steps DEF Base
<1>3. Shape' BY <1>1, <1>2, ShapeStep DEF Base
<1>4. Covered' /\ Repainted' BY <1>1, <1>2, FollowedStep DEF Base
<1> QED BY <1>1, <1>2, <1>3, <1>4 DEF Base

\* A worker that has nothing to do has no call on its way.
LEMMA IdleEmpty ==
  ASSUME Idle
  PROVE  up /\ DOMAIN Stored = {} /\ DOMAIN Browser = {}
<1>1. Stored = <<>> /\ Browser = <<>> BY Constants DEF Idle, Stored, Browser
<1> QED BY <1>1 DEF Idle

\* After the last command the browser goes where the storage says, and not with
\* the credentials of an earlier proxy, but for a worker that ended within the
\* command and an answer on its way during the flush (background.js:63-76).
THEOREM SwitchesTakeEffect == Spec => []SwitchTakesEffect
<1>1. Init => Base /\ SettingInv /\ CacheInv
  <2> SUFFICES ASSUME Init PROVE SettingInv /\ CacheInv BY InitBase
  <2>1. Browser = <<>> BY Constants DEF Init, Browser
  <2>2. DOMAIN Browser = {} BY <2>1
  <2>3. SettingWillFit BY <2>2 DEF Init, SettingWillFit, Fits
  <2>4. CacheFits BY DEF Init, CacheFits
  <2> QED BY <2>3, <2>4 DEF SettingInv, CacheInv
<1>2. Base /\ SettingInv /\ CacheInv /\ [Next]_vars => (Base /\ SettingInv /\ CacheInv)'
  <2> SUFFICES ASSUME Base, SettingInv, CacheInv, [Next]_vars
               PROVE  Base' /\ SettingInv' /\ CacheInv'
    OBVIOUS
  <2>1. Base' /\ Step BY BaseStep
  <2> QED BY <2>1, SettingStep, CacheStep DEF Base
<1>3. Base /\ SettingInv /\ CacheInv => SwitchTakesEffect
  <2> SUFFICES ASSUME Base, SettingInv, CacheInv, Idle, ~cut
               PROVE  /\ setting = "fixed" <=> active # Off
                      /\ active # Off /\ ~crossed /\ (\A r \in Requests : req[r].at # "answered")
                           => cache \in {Off, active}
    BY DEF SwitchTakesEffect
  <2>1. DOMAIN Stored = {} /\ DOMAIN Browser = {} BY IdleEmpty
  <2>2. ~LiveSet BY <2>1 DEF LiveSet
  <2>3. Fits(setting) BY <2>1, <2>2 DEF SettingInv, SettingWillFit
  <2>4. \A h \in Commands : todo[h] = <<>>
    BY <2>1, Constants DEF Base, Shape, Quiet, In
  <2>5. \A h \in Commands : ~Applying(h)
    <3> SUFFICES ASSUME NEW h \in Commands PROVE ~Applying(h) OBVIOUS
    <3>1. DOMAIN todo[h] = {} BY <2>4
    <3> QED BY <2>1, <3>1 DEF Applying, Browser
  <2> QED BY <2>2, <2>3, <2>5 DEF Fits, CacheInv, CacheFits
<1> QED BY <1>1, <1>2, <1>3, PTL DEF Spec

-----------------------------------------------------------------------------
(* Who paints the icon last. *)

\* A boot that has yet to read the state has the queues to itself.
BootFirst ==
  \A i \in DOMAIN Stored : Stored[i].by = Boot =>
    /\ \A j \in DOMAIN Stored : j < i => Stored[j].by = Gone
    /\ \A j \in DOMAIN Browser : Browser[j].by = Gone

\* A "Disable" that has yet to store is followed by a command, or the applies
\* before it are done, unless it overtook one.
ClearLast ==
  ~overtaken => \A i \in DOMAIN Stored :
    Stored[i].by \in Commands /\ Stored[i].call.val = Off =>
      \/ \E j \in DOMAIN Stored : j > i /\ Stored[j].by \in Commands
      \/ \A h \in Commands : ~Applying(h)

\* Every step keeps BootFirst: a worker boots before it takes a message.
LEMMA BootFirstStep ==
  ASSUME Types, Types', Shape, BootFirst, Step
  PROVE  BootFirst'
<1>1. /\ Gone # Boot /\ Boot \notin Commands /\ Boot \notin Requests /\ Gone \notin Handlers
      /\ Boot \in Handlers /\ Gone \notin Requests /\ Gone \notin Commands
  BY Constants
<1>2. CASE Kill BY <1>1, <1>2, KillQueues DEF BootFirst
<1>3. CASE BootEnters
  <2>1. ~up /\ Pushed(Stored, Stored', Made(Boot, Call("get", Off))) /\ Browser' = Browser
    BY <1>3 DEF BootEnters
  <2>2. /\ \A i \in DOMAIN Stored : Stored[i].by = Gone
        /\ \A i \in DOMAIN Browser : Browser[i].by = Gone
    BY <2>1 DEF Shape, Down
  <2>3. /\ \A i \in DOMAIN Stored : Stored'[i] = Stored[i] /\ i < Len(Stored') /\ i \in Nat
        /\ \A i \in DOMAIN Stored' : i = Len(Stored') \/ i \in DOMAIN Stored
        /\ Len(Stored') \in Nat
    BY <2>1, PushQueue, QueueTypes, NextQueues
  <2>4. \A i \in DOMAIN Stored' : Stored'[i].by = Boot => i = Len(Stored')
    BY <1>1, <2>2, <2>3
  <2>5. \A j \in DOMAIN Stored' : j < Len(Stored') => Stored'[j].by = Gone
    BY <2>2, <2>3
  <2> QED BY <2>1, <2>2, <2>4, <2>5 DEF BootFirst
<1>4. ASSUME NEW e, Pushed(Stored, Stored', e), e.by # Boot, Browser' = Browser
      PROVE  BootFirst'
  <2>1. /\ \A i \in DOMAIN Stored : Stored'[i] = Stored[i] /\ i < Len(Stored') /\ i \in Nat
        /\ \A i \in DOMAIN Stored' : i = Len(Stored') \/ i \in DOMAIN Stored
        /\ Stored'[Len(Stored')] = e /\ Len(Stored') \in Nat
    BY <1>4, PushQueue, QueueTypes, NextQueues
  <2> SUFFICES ASSUME NEW i \in DOMAIN Stored', Stored'[i].by = Boot
               PROVE  /\ \A j \in DOMAIN Stored' : j < i => Stored'[j].by = Gone
                      /\ \A j \in DOMAIN Browser' : Browser'[j].by = Gone
    BY DEF BootFirst
  <2>2. i \in DOMAIN Stored /\ Stored[i].by = Boot BY <1>4, <2>1
  <2>3. \A j \in DOMAIN Stored' : j < i => j \in DOMAIN Stored BY <2>1, <2>2
  <2> QED BY <1>4, <2>1, <2>2, <2>3 DEF BootFirst
<1>5. ASSUME Popped(Stored, Stored'), Stored[1].by = Gone => Browser' = Browser
      PROVE  BootFirst'
  <2>1. /\ 1 \in DOMAIN Stored
        /\ \A i \in DOMAIN Stored' :
             i \in Nat /\ i > 0 /\ i + 1 \in DOMAIN Stored /\ Stored'[i] = Stored[i + 1]
    BY <1>5, PopQueue, QueueTypes, NextQueues
  <2> SUFFICES ASSUME NEW i \in DOMAIN Stored', Stored'[i].by = Boot
               PROVE  /\ \A j \in DOMAIN Stored' : j < i => Stored'[j].by = Gone
                      /\ \A j \in DOMAIN Browser' : Browser'[j].by = Gone
    BY DEF BootFirst
  <2>2. i + 1 \in DOMAIN Stored /\ Stored[i + 1].by = Boot /\ 1 < i + 1 BY <2>1
  <2>3. /\ \A j \in DOMAIN Stored : j < i + 1 => Stored[j].by = Gone
        /\ \A j \in DOMAIN Browser : Browser[j].by = Gone
    BY <2>2 DEF BootFirst
  <2>4. Browser' = Browser BY <1>5, <2>1, <2>2, <2>3
  <2>5. ASSUME NEW j \in DOMAIN Stored', j < i PROVE Stored'[j].by = Gone
    <3>1. j + 1 < i + 1 /\ j + 1 \in DOMAIN Stored /\ Stored'[j] = Stored[j + 1]
      BY <2>1, <2>5
    <3> QED BY <2>3, <3>1
  <2> QED BY <2>3, <2>4, <2>5
<1>6. CASE LateLeaves BY <1>5, <1>6 DEF LateLeaves
<1>7. CASE BootMoves BY <1>1, <1>5, <1>7 DEF BootMoves
<1>8. CASE BrowserLeaves
  <2>1. Stored' = Stored /\ Popped(Browser, Browser') BY <1>8 DEF BrowserLeaves
  <2>2. \A i \in DOMAIN Browser' : i + 1 \in DOMAIN Browser /\ Browser'[i] = Browser[i + 1]
    BY <2>1, PopQueue, QueueTypes, NextQueues
  <2> QED BY <2>1, <2>2 DEF BootFirst
<1>9. CASE Elsewhere
  <2>1. Stored' = Stored /\ Browser' = Browser BY <1>9 DEF Elsewhere, Stored, Browser
  <2> QED BY <2>1 DEF BootFirst
<1>10. ASSUME NEW h \in Commands, NEW v \in Values, CommandEnters(h, v) PROVE BootFirst'
  <2>1. Pushed(Stored, Stored', Made(h, Call("set", v))) /\ Browser' = Browser
    BY <1>10 DEF CommandEnters
  <2> QED BY <1>1, <1>4, <2>1, MadeBy
<1>11. ASSUME NEW h \in Commands, NEW v \in Values, CommandMoves(h, v) PROVE BootFirst'
  <2>1. Popped(Stored, Stored') /\ Stored[1].by = h BY <1>11, MadeBy DEF CommandMoves
  <2> QED BY <1>1, <1>5, <2>1
<1>12. ASSUME NEW r \in Requests, RequestEnters(r) PROVE BootFirst'
  <2>1. Pushed(Stored, Stored', Made(r, Call("get", Off))) /\ Browser' = Browser
    BY <1>12 DEF RequestEnters
  <2> QED BY <1>1, <1>4, <2>1, MadeBy
<1>13. ASSUME NEW r \in Requests, RequestLeaves(r) PROVE BootFirst'
  BY <1>5, <1>13 DEF RequestLeaves
<1>14. ASSUME NEW h \in Handlers, BrowserTurns(h) PROVE BootFirst'
  <2>1. Stored' = Stored /\ Browser[1].by = h /\ 1 \in DOMAIN Browser
    BY <1>14, OneServed DEF BrowserTurns
  <2>2. \A i \in DOMAIN Stored : Stored[i].by # Boot BY <1>1, <2>1 DEF BootFirst
  <2> QED BY <2>1, <2>2 DEF BootFirst
<1> QED
  BY <1>2, <1>3, <1>6, <1>7, <1>8, <1>9, <1>10, <1>11, <1>12, <1>13, <1>14 DEF Step

\* Only the click of an apply makes its handler one that applies.
LEMMA ApplyingNew ==
  ASSUME Types, Types', Shape, NEW g \in Commands, NEW v \in Values, CommandEnters(g, v),
         NEW h \in Commands, Applying(h)'
  PROVE  Applying(h) \/ (h = g /\ v # Off)
<1>1. Browser' = Browser /\ todo' = [todo EXCEPT ![g] = Rest(v)] /\ h = commands + 1 <=> h = g
  BY DEF CommandEnters
<1>2. g \in Handlers /\ h \in Handlers BY Constants
<1>3. todo'[g] = Rest(v) /\ \A x \in Handlers : x # g => todo'[x] = todo[x]
  BY <1>1, <1>2, TodoExcept DEF CommandEnters
<1>4. CASE h # g BY <1>2, <1>3, <1>4, ApplyingElsewhere DEF CommandEnters
<1>5. CASE h = g /\ v = Off
  <2>1. PICK t \in Seq(Calls) : t = Rest(v) /\ DOMAIN t = 1..Len(t) BY RestScript, Queue
  <2>2. /\ Len(t) = 3 /\ t[1] = Call("setting", "direct") /\ t[2] = Call("text", Off)
        /\ t[3] = Call("title", Off)
    BY <1>5, <2>1, RestScript
  <2>3. Len(t) = 3 /\ t[1].op # "flush" /\ t[2].op # "flush" /\ t[3].op # "flush"
    BY <2>2 DEF Call
  <2>4. DOMAIN t = 1..3 BY <2>1, <2>3
  <2>5. \A k \in DOMAIN t : t[k].op # "flush" BY <2>3, <2>4
  <2>6. \A k \in DOMAIN todo'[h] : todo'[h][k].op # "flush" BY <1>3, <1>5, <2>1, <2>5
  <2>7. PICK i \in DOMAIN Browser' : Browser'[i] = Made(h, Call("flush", Off))
    BY <2>6 DEF Applying, Browser
  <2> QED BY <2>7 DEF Applying, Browser, CommandEnters
<1> QED BY <1>4, <1>5

\* No other step makes a handler apply.
LEMMA ApplyingBack ==
  ASSUME Types, Types', Shape, NEW h \in Commands, Applying(h)',
         \/ Kill \/ BootEnters \/ LateLeaves \/ BootMoves \/ BrowserLeaves \/ Elsewhere
         \/ \E g \in Commands, v \in Values : CommandMoves(g, v)
         \/ \E r \in Requests : RequestEnters(r) \/ RequestLeaves(r)
         \/ \E g \in Handlers : BrowserTurns(g)
  PROVE  Applying(h)
<1>1. h \in Handlers /\ h # Boot /\ h # Gone /\ Boot \in Handlers BY Constants
<1>2. CASE Kill
  <2>1. todo'[h] = <<>> /\ DOMAIN Browser' = DOMAIN Browser
        /\ \A i \in DOMAIN Browser : Browser'[i].by = Gone
    BY <1>1, <1>2, KillQueues
  <2>2. DOMAIN todo'[h] = {} BY <2>1
  <2>3. PICK i \in DOMAIN Browser' : Browser'[i] = Made(h, Call("flush", Off))
    BY <2>2 DEF Applying, Browser
  <2> QED BY <1>1, <2>1, <2>3, MadeBy
<1>3. CASE BootEnters
  <2>1. todo'[h] = todo[h] /\ Browser' = Browser
    BY <1>1, <1>3, TodoExcept DEF BootEnters
  <2> QED BY <2>1, ApplyingElsewhere
<1>4. CASE LateLeaves BY <1>4, ApplyingElsewhere DEF LateLeaves
<1>5. CASE BootMoves
  <2>1. todo'[h] = todo[h] /\ Pushed(Browser, Browser', Made(Boot, Reflect(active)[1]))
    BY <1>1, <1>5, TodoExcept DEF BootMoves
  <2>2. PICK e : e = Made(Boot, Reflect(active)[1]) OBVIOUS
  <2>3. e.call.op # "flush" BY <2>2, FirstCalls, MadeBy DEF Types, TypeOK, Values
  <2> QED BY <2>1, <2>2, <2>3, ApplyingElsewhere
<1>6. CASE BrowserLeaves \/ \E g \in Handlers : BrowserTurns(g) BY <1>6, ApplyingServed
<1>7. CASE Elsewhere
  <2>1. todo' = todo /\ Browser' = Browser BY <1>7 DEF Elsewhere, Browser
  <2> QED BY <2>1, ApplyingElsewhere
<1>8. ASSUME NEW r \in Requests, RequestEnters(r) \/ RequestLeaves(r) PROVE Applying(h)
  <2>1. todo' = todo /\ Browser' = Browser BY <1>8 DEF RequestEnters, RequestLeaves
  <2> QED BY <2>1, ApplyingElsewhere
<1>9. ASSUME NEW g \in Commands, NEW v \in Values, CommandMoves(g, v) PROVE Applying(h)
  <2>1. /\ Pushed(Browser, Browser', Made(g, Rest(v)[1])) /\ todo[g] = Rest(v)
        /\ todo' = [todo EXCEPT ![g] = Tail(Rest(v))]
    BY <1>9 DEF CommandMoves
  <2>2. PICK e : e = Made(g, Rest(v)[1]) OBVIOUS
  <2>3. e.call.op # "flush" BY <2>2, FirstCalls, MadeBy
  <2>4. g \in Handlers BY Constants
  <2>5. CASE h # g
    <3>1. todo'[h] = todo[h] BY <1>1, <2>1, <2>4, <2>5, TodoExcept
    <3> QED BY <2>1, <2>2, <2>3, <3>1, ApplyingElsewhere
  <2>6. CASE h = g /\ v # Off
    <3>1. PICK s \in Seq(Calls) : s = todo[h] /\ Len(s) = 5 /\ s[5] = Call("flush", Off)
      BY <2>1, <2>6, RestScript
    <3>2. DOMAIN s = 1..Len(s) /\ Len(s) = 5 BY <3>1, Queue
    <3>3. DOMAIN s = 1..5 BY ONLY <3>2
    <3>4. 5 \in DOMAIN s BY ONLY <3>3
    <3>5. s[5].op = "flush" BY <3>1 DEF Call
    <3> QED BY <3>1, <3>4, <3>5 DEF Applying
  <2>7. CASE h = g /\ v = Off
    <3>1. todo'[h] = Tail(Rest(v)) BY <2>1, <2>4, <2>7, TodoExcept
    <3>2. PICK t \in Seq(Calls) : t = todo'[h] /\ t = Tail(Rest(v)) /\ DOMAIN t = 1..Len(t)
      BY <3>1, RestScript, Queue
    <3>3. Len(t) = 2 /\ t[1] = Call("text", Off) /\ t[2] = Call("title", Off)
      BY <2>7, <3>2, RestScript
    <3>4. Len(t) = 2 /\ t[1].op # "flush" /\ t[2].op # "flush" BY <3>3 DEF Call
    <3>5. DOMAIN t = 1..2 BY <3>2, <3>4
    <3>6. \A k \in DOMAIN t : t[k].op # "flush" BY <3>4, <3>5
    <3>7. PICK i \in DOMAIN Browser' : Browser'[i] = Made(h, Call("flush", Off))
      BY <3>2, <3>6 DEF Applying, Browser
    <3>8. Browser'[i].call.op = "flush" BY <3>7, MadeBy DEF Call
    <3>9. /\ Browser'[Len(Browser')] = e
          /\ \A j \in DOMAIN Browser' : j = Len(Browser') \/ j \in DOMAIN Browser
          /\ \A j \in DOMAIN Browser : Browser'[j] = Browser[j]
      BY <2>1, <2>2, PushQueue, QueueTypes, NextQueues
    <3>10. i \in DOMAIN Browser /\ Browser[i] = Made(h, Call("flush", Off))
      BY <2>3, <3>7, <3>8, <3>9
    <3> QED BY <3>10 DEF Applying, Browser
  <2> QED BY <2>5, <2>6, <2>7
<1> QED BY <1>2, <1>3, <1>4, <1>5, <1>6, <1>7, <1>8, <1>9

\* Every step keeps ClearLast: a click that would break it sets overtaken.
LEMMA ClearLastStep ==
  ASSUME Types, Types', Shape, ClearLast, Step
  PROVE  ClearLast'
<1> SUFFICES ASSUME ~overtaken', NEW i \in DOMAIN Stored',
                    Stored'[i].by \in Commands, Stored'[i].call.val = Off
             PROVE  \/ \E j \in DOMAIN Stored' : j > i /\ Stored'[j].by \in Commands
                    \/ \A h \in Commands : ~Applying(h)'
  BY DEF ClearLast
<1>1. Gone \notin Commands /\ Boot \notin Commands /\ Requests \cap Commands = {}
  BY Constants
<1>2. CASE Kill BY <1>1, <1>2, KillQueues
<1>3. ASSUME NEW g \in Commands, NEW v \in Values, CommandEnters(g, v)
      PROVE  \/ \E j \in DOMAIN Stored' : j > i /\ Stored'[j].by \in Commands
             \/ \A h \in Commands : ~Applying(h)'
  <2>1. /\ Pushed(Stored, Stored', Made(g, Call("set", v)))
        /\ overtaken' <=> v = Off /\ \E h \in Commands : Applying(h)
    BY <1>3 DEF CommandEnters
  <2>2. /\ Len(Stored') \in DOMAIN Stored' /\ Stored'[Len(Stored')] = Made(g, Call("set", v))
        /\ \A j \in DOMAIN Stored : j < Len(Stored') /\ j \in Nat
        /\ \A j \in DOMAIN Stored' : j = Len(Stored') \/ j \in DOMAIN Stored
        /\ Len(Stored') \in Nat
    BY <2>1, PushQueue, QueueTypes, NextQueues
  <2>3. Stored'[Len(Stored')].by = g /\ Stored'[Len(Stored')].call.val = v
    BY <2>2, MadeBy DEF Call
  <2>4. CASE i # Len(Stored')
    <3>1. Len(Stored') > i BY <2>2, <2>4
    <3> QED BY <2>2, <2>3, <3>1
  <2>5. CASE i = Len(Stored')
    <3>1. v = Off /\ \A h \in Commands : ~Applying(h) BY <2>1, <2>3, <2>5
    <3> QED BY <1>3, <3>1, ApplyingNew
  <2> QED BY <2>4, <2>5
<1>4. ASSUME \/ BootEnters \/ LateLeaves \/ BootMoves \/ BrowserLeaves \/ Elsewhere
             \/ \E g \in Commands, v \in Values : CommandMoves(g, v)
             \/ \E r \in Requests : RequestEnters(r) \/ RequestLeaves(r)
             \/ \E g \in Handlers : BrowserTurns(g)
      PROVE  \/ \E j \in DOMAIN Stored' : j > i /\ Stored'[j].by \in Commands
             \/ \A h \in Commands : ~Applying(h)'
  <2>1. \A h \in Commands : Applying(h)' => Applying(h) BY <1>4, ApplyingBack
  <2>2. overtaken' = overtaken
    BY <1>4 DEF BootEnters, LateLeaves, BootMoves, BrowserLeaves, Elsewhere, CommandMoves,
                RequestEnters, RequestLeaves, BrowserTurns, history
  <2>3. \/ Stored' = Stored
        \/ Popped(Stored, Stored')
        \/ \E e : Pushed(Stored, Stored', e) /\ e.by \notin Commands
    <3>1. CASE BootEnters BY <1>1, <3>1, MadeBy DEF BootEnters
    <3>2. CASE \E r \in Requests : RequestEnters(r)
      BY <1>1, <3>2, MadeBy DEF RequestEnters
    <3>3. CASE ~BootEnters /\ ~\E r \in Requests : RequestEnters(r)
      BY <1>4, <3>3
      DEF LateLeaves, BootMoves, BrowserLeaves, Elsewhere, CommandMoves, RequestLeaves,
          BrowserTurns, Stored
    <3> QED BY <3>1, <3>2, <3>3
  <2>4. CASE Stored' = Stored BY <2>1, <2>2, <2>4 DEF ClearLast
  <2>5. CASE Popped(Stored, Stored')
    <3>1. /\ \A j \in DOMAIN Stored' :
               j \in Nat /\ j > 0 /\ j + 1 \in DOMAIN Stored /\ Stored'[j] = Stored[j + 1]
          /\ \A j \in DOMAIN Stored :
               \/ j = 1
               \/ j \in Nat /\ j > 1 /\ j - 1 \in DOMAIN Stored' /\ Stored'[j - 1] = Stored[j]
      BY <2>5, PopQueue, QueueTypes, NextQueues
    <3>2. \/ \E j \in DOMAIN Stored : j > i + 1 /\ Stored[j].by \in Commands
          \/ \A h \in Commands : ~Applying(h)
      BY <2>2, <3>1 DEF ClearLast
    <3>3. ASSUME NEW j \in DOMAIN Stored, j > i + 1, Stored[j].by \in Commands
          PROVE  \E k \in DOMAIN Stored' : k > i /\ Stored'[k].by \in Commands
      <4>1. i \in Nat /\ i > 0 BY <3>1
      <4>2. j # 1 BY <3>3, <4>1
      <4>3. j \in Nat /\ j - 1 \in DOMAIN Stored' /\ Stored'[j - 1] = Stored[j]
        BY <3>1, <4>2
      <4>4. j - 1 > i BY <3>3, <4>1, <4>3
      <4> QED BY <3>3, <4>3, <4>4
    <3> QED BY <2>1, <3>2, <3>3
  <2>6. ASSUME NEW e, Pushed(Stored, Stored', e), e.by \notin Commands
        PROVE  \/ \E j \in DOMAIN Stored' : j > i /\ Stored'[j].by \in Commands
               \/ \A h \in Commands : ~Applying(h)'
    <3>1. /\ Stored'[Len(Stored')] = e
          /\ \A j \in DOMAIN Stored : j \in DOMAIN Stored' /\ Stored'[j] = Stored[j]
          /\ \A j \in DOMAIN Stored' : j = Len(Stored') \/ j \in DOMAIN Stored
      BY <2>6, PushQueue, QueueTypes, NextQueues
    <3>2. i \in DOMAIN Stored /\ Stored'[i] = Stored[i] BY <2>6, <3>1
    <3> QED BY <2>1, <2>2, <3>1, <3>2 DEF ClearLast
  <2> QED BY <2>3, <2>4, <2>5, <2>6
<1> QED BY <1>2, <1>3, <1>4 DEF Step

-----------------------------------------------------------------------------
(* What the icon will show. *)

Turns == Nat \ {0}

\* The call that the handler at place i of the browser's queue makes in its
\* l-th turn from now.
Has(i, l) ==
  l = 1 \/ (l > 1 /\ Browser[i].by \in Handlers /\ l - 1 \in DOMAIN todo[Browser[i].by])
Turn(i, l) == IF l = 1 THEN Browser[i].call ELSE todo[Browser[i].by][l - 1]
Writes(op, i, l) == Has(i, l) /\ Turn(i, l).op = op

\* The stored proxy is painted, and nobody paints after that.
Paints(op) ==
  \/ /\ icon[op] = active
     /\ \A i \in DOMAIN Browser, l \in Turns : ~Writes(op, i, l)
  \/ \E i \in DOMAIN Browser, l \in Turns :
       /\ Writes(op, i, l) /\ Turn(i, l).val = active
       /\ \A j \in DOMAIN Browser, m \in Turns :
            Writes(op, j, m) => m < l \/ (m = l /\ j <= i)

Waited == \E i \in DOMAIN Stored : Stored[i].by \in Handlers
IconInv == up /\ ~overtaken => Waited \/ (Paints("text") /\ Paints("title"))

\* A turn of the queue brings everybody one call nearer.
LEMMA ServedWrites ==
  ASSUME Types, Types', Shape, BrowserLeaves \/ \E h \in Handlers : BrowserTurns(h),
         NEW op \in {"text", "title"}, NEW n, n = Len(Browser')
  PROVE  /\ \A j \in DOMAIN Browser', m \in Turns : Writes(op, j, m)' =>
              /\ j \in Nat /\ j <= n
              /\ (j + 1 \in DOMAIN Browser /\ Writes(op, j + 1, m)) \/ Writes(op, 1, m + 1)
         /\ \A i \in DOMAIN Browser, l \in Turns : i # 1 /\ Writes(op, i, l) =>
              /\ i \in Nat /\ i - 1 \in DOMAIN Browser'
              /\ Writes(op, i - 1, l)' /\ Turn(i - 1, l)' = Turn(i, l)
         /\ \A l \in Turns : l # 1 /\ Writes(op, 1, l) =>
              /\ n \in DOMAIN Browser'
              /\ Writes(op, n, l - 1)' /\ Turn(n, l - 1)' = Turn(1, l)
<1>1. CASE BrowserLeaves
  <2>1. /\ Popped(Browser, Browser') /\ todo' = todo
        /\ Browser[1].by \in Handlers => todo[Browser[1].by] = <<>>
    BY <1>1 DEF BrowserLeaves
  <2>2. /\ \A i \in DOMAIN Browser' : i + 1 \in DOMAIN Browser /\ Browser'[i] = Browser[i + 1]
        /\ \A i \in DOMAIN Browser :
             i = 1 \/ (i \in Nat /\ i - 1 \in DOMAIN Browser' /\ Browser'[i - 1] = Browser[i])
    BY <2>1, PopQueue, QueueTypes, NextQueues
  <2>3. \A j \in DOMAIN Browser' : j \in Nat /\ j <= n
    BY NextQueues, Queue
  <2>4. \A j \in DOMAIN Browser', m \in Turns : Writes(op, j, m)' =>
          j + 1 \in DOMAIN Browser /\ Writes(op, j + 1, m)
    BY <2>1, <2>2 DEF Writes, Has, Turn
  <2>5. \A i \in DOMAIN Browser, l \in Turns : i # 1 /\ Writes(op, i, l) =>
          /\ i \in Nat /\ i - 1 \in DOMAIN Browser'
          /\ Writes(op, i - 1, l)' /\ Turn(i - 1, l)' = Turn(i, l)
    BY <2>1, <2>2 DEF Writes, Has, Turn
  <2>6. \A l \in Turns : l # 1 /\ Writes(op, 1, l) => FALSE
    BY <2>1 DEF Writes, Has
  <2> QED BY <2>3, <2>4, <2>5, <2>6
<1>2. ASSUME NEW h \in Handlers, BrowserTurns(h)
      PROVE  /\ \A j \in DOMAIN Browser', m \in Turns : Writes(op, j, m)' =>
                  /\ j \in Nat /\ j <= n
                  /\ (j + 1 \in DOMAIN Browser /\ Writes(op, j + 1, m)) \/ Writes(op, 1, m + 1)
             /\ \A i \in DOMAIN Browser, l \in Turns : i # 1 /\ Writes(op, i, l) =>
                  /\ i \in Nat /\ i - 1 \in DOMAIN Browser'
                  /\ Writes(op, i - 1, l)' /\ Turn(i - 1, l)' = Turn(i, l)
             /\ \A l \in Turns : l # 1 /\ Writes(op, 1, l) =>
                  /\ n \in DOMAIN Browser'
                  /\ Writes(op, n, l - 1)' /\ Turn(n, l - 1)' = Turn(1, l)
  <2> DEFINE e == Made(h, todo[h][1])
  <2>1. Cycled(Browser, Browser', e) /\ Browser[1].by = h BY <1>2 DEF BrowserTurns
  <2>2. e.by = h /\ e.call = todo[h][1] BY MadeBy
  <2> HIDE DEF e
  <2>3. /\ 1 \in DOMAIN Browser
        /\ n \in DOMAIN Browser' /\ Browser'[n] = e
        /\ \A i \in DOMAIN Browser' :
             /\ i \in Nat /\ i > 0 /\ i <= n
             /\ i = n \/ (i + 1 \in DOMAIN Browser /\ Browser'[i] = Browser[i + 1])
        /\ \A i \in DOMAIN Browser :
             \/ i = 1
             \/ /\ i \in Nat /\ i > 1 /\ i - 1 \in DOMAIN Browser'
                /\ Browser'[i - 1] = Browser[i]
    BY <2>1, CycleQueue, QueueTypes, NextQueues
  <2>4. /\ 1 \in DOMAIN todo[h]
        /\ \A k \in DOMAIN todo'[h] :
             k \in Nat /\ k > 0 /\ k + 1 \in DOMAIN todo[h] /\ todo'[h][k] = todo[h][k + 1]
        /\ \A k \in DOMAIN todo[h] :
             \/ k = 1
             \/ k \in Nat /\ k > 1 /\ k - 1 \in DOMAIN todo'[h] /\ todo'[h][k - 1] = todo[h][k]
        /\ \A g \in Handlers : g # h => todo'[g] = todo[g]
    BY <1>2, Turned
  <2>5. \A i \in DOMAIN Browser : i # 1 => Browser[i].by # h
    BY <2>1, <2>3 DEF Shape, Own, Once
  \* The others.
  <2>6. ASSUME NEW i \in DOMAIN Browser, i # 1, NEW l \in Turns
        PROVE  /\ Writes(op, i - 1, l)' <=> Writes(op, i, l)
               /\ Writes(op, i, l) => Turn(i - 1, l)' = Turn(i, l)
    <3>1. Browser'[i - 1] = Browser[i] BY <2>3, <2>6
    <3>2. Browser[i].by \in Handlers => todo'[Browser[i].by] = todo[Browser[i].by]
      BY <2>4, <2>5, <2>6
    <3> QED BY <3>1, <3>2 DEF Writes, Has, Turn
  \* The handler itself.
  <2>7. ASSUME NEW l \in Turns
        PROVE  /\ Writes(op, n, l)' <=> Writes(op, 1, l + 1)
               /\ Writes(op, 1, l + 1) => Turn(n, l)' = Turn(1, l + 1)
    <3>1. l \in Nat /\ l > 0 /\ l + 1 > 1 /\ l + 1 # 1 /\ (l + 1) - 1 = l BY DEF Turns
    <3>2. Has(1, l + 1) <=> l \in DOMAIN todo[h] BY <2>1, <3>1 DEF Has
    <3>3. Turn(1, l + 1) = todo[h][l] BY <2>1, <3>1 DEF Turn
    <3>4. CASE l = 1
      <4>1. Has(n, l)' /\ Turn(n, l)' = todo[h][1]
        BY <2>2, <2>3, <3>4 DEF Has, Turn
      <4> QED BY <2>4, <3>2, <3>3, <3>4, <4>1 DEF Writes
    <3>5. CASE l # 1
      <4>1. l - 1 \in DOMAIN todo'[h] <=> l \in DOMAIN todo[h]
        <5>1. ASSUME l - 1 \in DOMAIN todo'[h] PROVE l \in DOMAIN todo[h]
          <6>1. (l - 1) + 1 \in DOMAIN todo[h] BY <2>4, <5>1
          <6> QED BY <3>1, <6>1
        <5>2. ASSUME l \in DOMAIN todo[h] PROVE l - 1 \in DOMAIN todo'[h]
          BY <2>4, <3>5, <5>2
        <5> QED BY <5>1, <5>2
      <4>2. l \in DOMAIN todo[h] => todo'[h][l - 1] = todo[h][l] BY <2>4, <3>5
      <4>3. Has(n, l)' <=> l - 1 \in DOMAIN todo'[h]
        BY <2>2, <2>3, <3>1, <3>5 DEF Has
      <4>4. Turn(n, l)' = todo'[h][l - 1]
        BY <2>2, <2>3, <3>5 DEF Turn
      <4> QED BY <3>2, <3>3, <4>1, <4>2, <4>3, <4>4 DEF Writes
    <3> QED BY <3>4, <3>5
  <2>8. ASSUME NEW j \in DOMAIN Browser', NEW m \in Turns, Writes(op, j, m)'
        PROVE  /\ j \in Nat /\ j <= n
               /\ (j + 1 \in DOMAIN Browser /\ Writes(op, j + 1, m)) \/ Writes(op, 1, m + 1)
    <3>1. CASE j = n
      <4>1. Writes(op, n, m)' BY <2>8, <3>1
      <4> QED BY <2>3, <2>7, <4>1
    <3>2. CASE j # n
      <4>1. j \in Nat /\ j > 0 /\ j + 1 \in DOMAIN Browser /\ j + 1 # 1 /\ (j + 1) - 1 = j
        BY <2>3, <3>2
      <4>2. Writes(op, (j + 1) - 1, m)' BY <2>8, <4>1
      <4>3. Writes(op, j + 1, m) BY <2>6, <4>1, <4>2
      <4> QED BY <2>3, <4>1, <4>3
    <3> QED BY <3>1, <3>2
  <2>9. ASSUME NEW l \in Turns, l # 1, Writes(op, 1, l)
        PROVE  /\ n \in DOMAIN Browser'
               /\ Writes(op, n, l - 1)' /\ Turn(n, l - 1)' = Turn(1, l)
    <3>1. l - 1 \in Turns /\ (l - 1) + 1 = l BY <2>9 DEF Turns
    <3>2. Writes(op, 1, (l - 1) + 1) BY <2>9, <3>1
    <3> QED BY <2>3, <2>7, <3>1, <3>2
  <2> QED BY <2>3, <2>6, <2>8, <2>9
<1> QED BY <1>1, <1>2

\* The one who paints last still does after the browser has served a call.
LEMMA PaintsServed ==
  ASSUME Types, Types', Shape, BrowserLeaves \/ \E h \in Handlers : BrowserTurns(h),
         NEW op \in {"text", "title"}, Paints(op)
  PROVE  Paints(op)'
<1>1. Effect(Browser[1].call) /\ active' = active /\ 1 \in DOMAIN Browser BY OneServed
<1>2. 1 \in Turns /\ Writes(op, 1, 1) <=> Browser[1].call.op = op
  BY DEF Turns, Writes, Has, Turn
<1>3. icon'[op] = IF Browser[1].call.op = op THEN Browser[1].call.val ELSE icon[op]
  BY <1>1 DEF Effect, Types, TypeOK
<1>4. CASE icon[op] = active /\ \A i \in DOMAIN Browser, l \in Turns : ~Writes(op, i, l)
  <2>1. icon'[op] = active' BY <1>1, <1>2, <1>3, <1>4
  <2>2. ASSUME NEW j \in DOMAIN Browser', NEW m \in Turns PROVE ~Writes(op, j, m)'
    <3>1. m + 1 \in Turns BY DEF Turns
    <3> QED BY <1>1, <1>4, <3>1, ServedWrites
  <2> QED BY <2>1, <2>2 DEF Paints
<1>5. ASSUME NEW i \in DOMAIN Browser, NEW l \in Turns, Writes(op, i, l),
             Turn(i, l).val = active,
             \A j \in DOMAIN Browser, m \in Turns :
               Writes(op, j, m) => m < l \/ (m = l /\ j <= i)
      PROVE  Paints(op)'
  <2>1. l \in Nat /\ l > 0 BY DEF Turns
  <2>2. CASE i = 1 /\ l = 1
    <3>1. icon'[op] = active'
      BY <1>1, <1>2, <1>3, <1>5, <2>2 DEF Turn
    <3>2. ASSUME NEW j \in DOMAIN Browser', NEW m \in Turns, Writes(op, j, m)' PROVE FALSE
      <4>1. m \in Nat /\ m > 0 /\ m + 1 \in Turns BY DEF Turns
      <4>2. j \in Nat /\ ((j + 1 \in DOMAIN Browser /\ Writes(op, j + 1, m)) \/ Writes(op, 1, m + 1))
        BY <3>2, ServedWrites
      <4>3. CASE j + 1 \in DOMAIN Browser /\ Writes(op, j + 1, m)
        <5>1. m < 1 \/ j + 1 <= 1 BY <1>5, <2>2, <4>3
        <5>2. j > 0 BY OneServed
        <5> QED BY <4>1, <4>2, <5>1, <5>2
      <4>4. CASE Writes(op, 1, m + 1)
        <5>1. m + 1 < 1 \/ m + 1 = 1 BY <1>1, <1>5, <2>2, <4>1, <4>4
        <5> QED BY <4>1, <5>1
      <4> QED BY <4>2, <4>3, <4>4
    <3> QED BY <3>1, <3>2 DEF Paints
  <2>3. CASE i = 1 /\ l # 1
    <3>1. PICK n : n = Len(Browser') OBVIOUS
    <3>2. n \in DOMAIN Browser' /\ Writes(op, n, l - 1)' /\ Turn(n, l - 1)' = Turn(1, l)
      BY <1>5, <2>3, <3>1, ServedWrites
    <3>3. l - 1 \in Turns BY <2>1, <2>3 DEF Turns
    <3>4. Turn(n, l - 1)'.val = active' BY <1>1, <1>5, <2>3, <3>2
    <3>5. ASSUME NEW j \in DOMAIN Browser', NEW m \in Turns, Writes(op, j, m)'
          PROVE  m < l - 1 \/ (m = l - 1 /\ j <= n)
      <4>1. m \in Nat /\ m > 0 /\ m + 1 \in Turns BY DEF Turns
      <4>2. /\ j \in Nat /\ j <= n
            /\ (j + 1 \in DOMAIN Browser /\ Writes(op, j + 1, m)) \/ Writes(op, 1, m + 1)
        BY <3>1, <3>5, ServedWrites
      <4>3. CASE j + 1 \in DOMAIN Browser /\ Writes(op, j + 1, m)
        <5>1. m < l \/ j + 1 <= 1 BY <1>5, <2>3, <4>3
        <5>2. j > 0 BY OneServed
        <5>3. m <= l - 1 BY <2>1, <4>1, <4>2, <5>1, <5>2
        <5> QED BY <2>1, <4>1, <4>2, <5>3
      <4>4. CASE Writes(op, 1, m + 1)
        <5>1. m + 1 <= l BY <1>1, <1>5, <2>1, <2>3, <4>1, <4>4
        <5>2. m <= l - 1 BY <2>1, <4>1, <5>1
        <5> QED BY <2>1, <4>1, <4>2, <5>2
      <4> QED BY <4>2, <4>3, <4>4
    <3> QED BY <3>2, <3>3, <3>4, <3>5 DEF Paints
  <2>4. CASE i # 1
    <3>1. i \in Nat /\ i - 1 \in DOMAIN Browser' /\ Writes(op, i - 1, l)'
          /\ Turn(i - 1, l)' = Turn(i, l)
      BY <1>5, <2>4, ServedWrites
    <3>2. Turn(i - 1, l)'.val = active' BY <1>1, <1>5, <3>1
    <3>3. ASSUME NEW j \in DOMAIN Browser', NEW m \in Turns, Writes(op, j, m)'
          PROVE  m < l \/ (m = l /\ j <= i - 1)
      <4>1. m \in Nat /\ m > 0 /\ m + 1 \in Turns BY DEF Turns
      <4>2. /\ j \in Nat
            /\ (j + 1 \in DOMAIN Browser /\ Writes(op, j + 1, m)) \/ Writes(op, 1, m + 1)
        BY <3>3, ServedWrites
      <4>3. CASE j + 1 \in DOMAIN Browser /\ Writes(op, j + 1, m)
        <5>1. m < l \/ (m = l /\ j + 1 <= i) BY <1>5, <4>3
        <5> QED BY <3>1, <4>2, <5>1
      <4>4. CASE Writes(op, 1, m + 1)
        <5>1. m + 1 < l \/ m + 1 = l BY <1>1, <1>5, <4>1, <4>4
        <5> QED BY <2>1, <4>1, <5>1
      <4> QED BY <4>2, <4>3, <4>4
    <3> QED BY <3>1, <3>2, <3>3 DEF Paints
  <2> QED BY <2>2, <2>3, <2>4
<1> QED BY <1>4, <1>5 DEF Paints

\* Its place in the script of an apply, one before in that of "Disable".
Place(op) == IF op = "text" THEN 3 ELSE 4

\* Nobody at the browser is further from painting than an apply that enters.
LEMMA WritesBound ==
  ASSUME Types, Shape, NEW j \in DOMAIN Browser, NEW op \in {"text", "title"},
         NEW m \in Turns, Writes(op, j, m)
  PROVE  /\ m <= Place(op)
         /\ m = Place(op) => \E h \in Commands : Applying(h)
         /\ Browser[j].by \notin Handlers => m = 1
<1>1. m \in Nat /\ m > 0 BY DEF Turns
<1>2. CASE m = 1 BY <1>2 DEF Place
<1>3. CASE m # 1
  <2>1. /\ Browser[j].by \in Handlers /\ m - 1 \in DOMAIN todo[Browser[j].by]
        /\ todo[Browser[j].by][m - 1].op = op
    BY <1>3 DEF Writes, Has, Turn
  <2>2. PICK h \in Handlers : h = Browser[j].by BY <2>1
  <2>3. Remaining(h) BY <2>2 DEF Shape, BrowserShape, BrowserEntry
  <2>4. PICK k : k = m - 1 OBVIOUS
  <2>5. k \in DOMAIN todo[h] /\ todo[h][k].op = op BY <2>1, <2>2, <2>4
  <2>6. /\ op = "text" => k <= 2 /\ (k = 2 => Flushes(h))
        /\ op = "title" => k <= 3 /\ (k = 3 => Flushes(h))
    BY <2>3, <2>5 DEF Remaining
  <2>7. m <= Place(op) /\ (m = Place(op) => Flushes(h)) BY <1>1, <2>4, <2>6 DEF Place
  <2>8. Flushes(h) => h \in Commands /\ Applying(h)
    BY <2>3, Constants DEF Remaining, Flushes, Applying
  <2> QED BY <2>1, <2>7, <2>8
<1> QED BY <1>2, <1>3

\* A handler comes to the browser that paints the stored proxy last, with the
\* call it makes at once (k = 0) or with the k-th after that.
LEMMA PaintsPushed ==
  ASSUME Types, Types', NEW h \in Handlers, NEW c, Pushed(Browser, Browser', Made(h, c)),
         ~In(h, Browser), NEW t, todo'[h] = t,
         \A g \in Handlers : g # h => todo'[g] = todo[g],
         NEW op \in {"text", "title"}, NEW k \in Nat,
         \A j \in DOMAIN Browser, m \in Turns : Writes(op, j, m) => m <= k + 1,
         \/ k = 0 /\ c.op = op /\ c.val = active'
         \/ k > 0 /\ k \in DOMAIN t /\ t[k].op = op /\ t[k].val = active',
         \A x \in DOMAIN t : x \in Nat /\ (t[x].op = op => x <= k)
  PROVE  Paints(op)'
<1> DEFINE e == Made(h, c)
<1>1. Pushed(Browser, Browser', e) /\ e.by = h /\ e.call = c BY MadeBy
<1> HIDE DEF e
<1>2. PICK n : n = Len(Browser') OBVIOUS
<1>3. /\ n \in DOMAIN Browser' /\ Browser'[n] = e /\ n \in Nat
      /\ \A i \in DOMAIN Browser : i \in Nat /\ Browser'[i] = Browser[i] /\ i < n
      /\ \A i \in DOMAIN Browser' : i = n \/ i \in DOMAIN Browser
  BY <1>1, <1>2, PushQueue, QueueTypes, NextQueues
<1>4. PICK l \in Turns : l = k + 1 BY DEF Turns
<1>5. Writes(op, n, l)' /\ Turn(n, l)'.val = active'
  <2>1. CASE k = 0
    BY <1>1, <1>3, <1>4, <2>1 DEF Writes, Has, Turn
  <2>2. CASE k > 0
    <3>1. l > 1 /\ l # 1 /\ l - 1 = k BY <1>4, <2>2
    <3> QED BY <1>1, <1>3, <2>2, <3>1 DEF Writes, Has, Turn
  <2> QED BY <2>1, <2>2
<1>6. ASSUME NEW j \in DOMAIN Browser', NEW m \in Turns, Writes(op, j, m)'
      PROVE  m < l \/ (m = l /\ j <= n)
  <2>1. m \in Nat /\ m > 0 BY DEF Turns
  <2>2. CASE j = n
    <3>1. CASE m = 1 BY <1>4, <1>3, <2>2, <3>1
    <3>2. CASE m # 1
      <4>1. m - 1 \in DOMAIN t /\ t[m - 1].op = op
        BY <1>1, <1>3, <1>6, <2>2, <3>2 DEF Writes, Has, Turn
      <4>2. m - 1 <= k BY <4>1
      <4> QED BY <1>3, <1>4, <2>1, <2>2, <4>2
    <3> QED BY <3>1, <3>2
  <2>3. CASE j # n
    <3>1. j \in DOMAIN Browser /\ Browser'[j] = Browser[j] /\ j < n /\ j \in Nat
      BY <1>3, <2>3
    <3>2. Browser[j].by # h BY <3>1 DEF In
    <3>3. Writes(op, j, m) BY <1>6, <3>1, <3>2 DEF Writes, Has, Turn
    <3>4. m <= l BY <1>4, <3>1, <3>3
    <3> QED BY <1>3, <1>4, <2>1, <3>1, <3>4
  <2> QED BY <2>2, <2>3
<1> QED BY <1>3, <1>5, <1>6 DEF Paints

\* A boot that has read the state.
LEMMA BootPaints ==
  ASSUME Types, Types', Shape, BootFirst, BootMoves, NEW op \in {"text", "title"}
  PROVE  Paints(op)'
<1>1. PICK p \in Values : p = active /\ p = active' BY DEF Types, TypeOK, Values, BootMoves
<1>2. PICK c : c = Reflect(p)[1] OBVIOUS
<1>3. Pushed(Browser, Browser', Made(Boot, c)) /\ Popped(Stored, Stored') /\ Stored[1].by = Boot
      /\ todo' = [todo EXCEPT ![Boot] = Tail(Reflect(p))]
  BY <1>1, <1>2 DEF BootMoves
<1>4. 1 \in DOMAIN Stored BY <1>3, PopQueue, QueueTypes, NextQueues
<1>5. \A j \in DOMAIN Browser : Browser[j].by = Gone BY <1>3, <1>4 DEF BootFirst
<1>6. ~In(Boot, Browser) /\ Boot \in Handlers BY <1>5, Constants DEF In
<1>7. \A j \in DOMAIN Browser, m \in Turns : Writes(op, j, m) => m = 1
  BY <1>5, WritesBound, Constants
<1>8. todo'[Boot] = Tail(Reflect(p)) /\ \A g \in Handlers : g # Boot => todo'[g] = todo[g]
  BY <1>3, <1>6, TodoExcept
<1>9. PICK t \in Seq(Calls) : t = Tail(Reflect(p)) /\ DOMAIN t = 1..Len(t)
  BY ReflectTail, Queue
<1>10. \A o, x : Call(o, x).op = o /\ Call(o, x).val = x BY DEF Call
<1>11. todo'[Boot] = t BY <1>8, <1>9
<1>12. CASE p # Off
  <2>1. Len(t) = 2 /\ t[1] = Call("text", p) /\ t[2] = Call("title", p)
    BY <1>9, <1>12, ReflectTail
  <2>2. /\ Len(t) = 2 /\ t[1].op = "text" /\ t[1].val = p
        /\ t[2].op = "title" /\ t[2].val = p
    BY <1>10, <2>1
  <2>3. DOMAIN t = 1..2 BY <1>9, <2>2
  <2>4. CASE op = "text"
    <3>1. 1 \in DOMAIN t /\ t[1].op = op /\ t[1].val = p BY <2>2, <2>3, <2>4
    <3>2. \A k \in DOMAIN t : k \in Nat /\ (t[k].op = op => k <= 1) BY <2>2, <2>3, <2>4
    <3>3. \A j \in DOMAIN Browser, m \in Turns : Writes(op, j, m) => m <= 1 + 1 BY <1>7
    <3> QED
      BY <1>1, <1>3, <1>6, <1>8, <1>11, <3>1, <3>2, <3>3, PaintsPushed
  <2>5. CASE op = "title"
    <3>1. 2 \in DOMAIN t /\ t[2].op = op /\ t[2].val = p BY <2>2, <2>3, <2>5
    <3>2. \A k \in DOMAIN t : k \in Nat /\ (t[k].op = op => k <= 2) BY <2>2, <2>3, <2>5
    <3>3. \A j \in DOMAIN Browser, m \in Turns : Writes(op, j, m) => m <= 2 + 1 BY <1>7
    <3> QED
      BY <1>1, <1>3, <1>6, <1>8, <1>11, <3>1, <3>2, <3>3, PaintsPushed
  <2> QED BY <2>4, <2>5
<1>13. CASE p = Off
  <2>1. Len(t) = 1 /\ t[1] = Call("title", p) /\ c = Call("text", p)
    BY <1>2, <1>9, <1>13, ReflectTail, ReflectScript
  <2>2. Len(t) = 1 /\ t[1].op = "title" /\ t[1].val = p /\ c.op = "text" /\ c.val = p
    BY <1>10, <2>1
  <2>3. DOMAIN t = 1..1 BY <1>9, <2>2
  <2>4. CASE op = "text"
    <3>1. c.op = op /\ c.val = active' BY <1>1, <2>2, <2>4
    <3>2. \A k \in DOMAIN t : k \in Nat /\ (t[k].op = op => k <= 0) BY <2>2, <2>3, <2>4
    <3>3. \A j \in DOMAIN Browser, m \in Turns : Writes(op, j, m) => m <= 0 + 1 BY <1>7
    <3> QED
      BY <1>3, <1>6, <1>8, <1>11, <3>1, <3>2, <3>3, PaintsPushed
  <2>5. CASE op = "title"
    <3>1. 1 \in DOMAIN t /\ t[1].op = op /\ t[1].val = p BY <2>2, <2>3, <2>5
    <3>2. \A k \in DOMAIN t : k \in Nat /\ (t[k].op = op => k <= 1) BY <2>2, <2>3, <2>5
    <3>3. \A j \in DOMAIN Browser, m \in Turns : Writes(op, j, m) => m <= 1 + 1 BY <1>7
    <3> QED
      BY <1>1, <1>3, <1>6, <1>8, <1>11, <3>1, <3>2, <3>3, PaintsPushed
  <2> QED BY <2>4, <2>5
<1> QED BY <1>12, <1>13

\* A command that has stored its proxy.
LEMMA CommandPaints ==
  ASSUME Types, Types', Shape, ClearLast, ~overtaken, NEW h \in Commands, NEW v \in Values,
         CommandMoves(h, v), NEW op \in {"text", "title"}
  PROVE  (\E i \in DOMAIN Stored' : Stored'[i].by \in Handlers) \/ Paints(op)'
<1>1. PICK c : c = Rest(v)[1] OBVIOUS
<1>2. /\ Pushed(Browser, Browser', Made(h, c)) /\ Popped(Stored, Stored')
      /\ Stored[1] = Made(h, Call("set", v)) /\ todo' = [todo EXCEPT ![h] = Tail(Rest(v))]
      /\ active' = v
  BY <1>1 DEF CommandMoves
<1>3. \A o, x : Call(o, x).op = o /\ Call(o, x).val = x BY DEF Call
<1>4. /\ 1 \in DOMAIN Stored
      /\ \A i \in DOMAIN Stored :
           i = 1 \/ (i - 1 \in DOMAIN Stored' /\ Stored'[i - 1] = Stored[i])
  BY <1>2, PopQueue, QueueTypes, NextQueues
<1>5. Stored[1].by = h /\ Stored[1].call.val = v BY <1>2, <1>3, MadeBy
<1>6. h \in Handlers /\ Commands \subseteq Handlers BY Constants
<1>7. ~In(h, Browser) BY <1>4, <1>5, <1>6 DEF Shape, Own, In
<1>8. todo'[h] = Tail(Rest(v)) /\ \A g \in Handlers : g # h => todo'[g] = todo[g]
  BY <1>2, <1>6, TodoExcept
<1>9. PICK t \in Seq(Calls) : t = Tail(Rest(v)) /\ DOMAIN t = 1..Len(t)
  BY RestScript, Queue
<1>10. todo'[h] = t BY <1>8, <1>9
<1>11. CASE v # Off
  <2>1. /\ Len(t) = 4 /\ t[1] = Call("colour", v) /\ t[2] = Call("text", v)
        /\ t[3] = Call("title", v) /\ t[4] = Call("flush", Off)
    BY <1>9, <1>11, RestScript
  <2>2. /\ Len(t) = 4 /\ t[1].op = "colour" /\ t[2].op = "text" /\ t[2].val = v
        /\ t[3].op = "title" /\ t[3].val = v /\ t[4].op = "flush"
    BY <1>3, <2>1
  <2>3. DOMAIN t = 1..4 BY <1>9, <2>2
  <2>4. CASE op = "text"
    <3>1. 2 \in DOMAIN t /\ t[2].op = op /\ t[2].val = active'
      BY <1>2, <2>2, <2>3, <2>4
    <3>2. \A k \in DOMAIN t : k \in Nat /\ (t[k].op = op => k <= 2) BY <2>2, <2>3, <2>4
    <3>3. \A j \in DOMAIN Browser, m \in Turns : Writes(op, j, m) => m <= 2 + 1
      BY <2>4, WritesBound DEF Place
    <3> QED
      BY <1>2, <1>6, <1>7, <1>8, <1>10, <3>1, <3>2, <3>3, PaintsPushed
  <2>5. CASE op = "title"
    <3>1. 3 \in DOMAIN t /\ t[3].op = op /\ t[3].val = active'
      BY <1>2, <2>2, <2>3, <2>5
    <3>2. \A k \in DOMAIN t : k \in Nat /\ (t[k].op = op => k <= 3) BY <2>2, <2>3, <2>5
    <3>3. \A j \in DOMAIN Browser, m \in Turns : Writes(op, j, m) => m <= 3 + 1
      BY <2>5, WritesBound DEF Place
    <3> QED
      BY <1>2, <1>6, <1>7, <1>8, <1>10, <3>1, <3>2, <3>3, PaintsPushed
  <2> QED BY <2>4, <2>5
<1>12. CASE v = Off
  <2>1. Len(t) = 2 /\ t[1] = Call("text", Off) /\ t[2] = Call("title", Off)
    BY <1>9, <1>12, RestScript
  <2>2. /\ Len(t) = 2 /\ t[1].op = "text" /\ t[1].val = v
        /\ t[2].op = "title" /\ t[2].val = v
    BY <1>3, <1>12, <2>1
  <2>3. DOMAIN t = 1..2 BY <1>9, <2>2
  <2>4. ASSUME NEW i \in DOMAIN Stored, i > 1, Stored[i].by \in Commands
        PROVE  \E k \in DOMAIN Stored' : Stored'[k].by \in Handlers
    <3>1. i # 1 BY <2>4
    <3> QED BY <1>4, <1>6, <2>4, <3>1
  <2>5. CASE \A g \in Commands : ~Applying(g)
    <3>1. \A j \in DOMAIN Browser, m \in Turns :
            Writes(op, j, m) => m <= Place(op) /\ m # Place(op)
      BY <2>5, WritesBound
    <3>2. CASE op = "text"
      <4>1. 1 \in DOMAIN t /\ t[1].op = op /\ t[1].val = active'
        BY <1>2, <2>2, <2>3, <3>2
      <4>2. \A k \in DOMAIN t : k \in Nat /\ (t[k].op = op => k <= 1)
        BY <2>2, <2>3, <3>2
      <4>3. \A j \in DOMAIN Browser, m \in Turns : Writes(op, j, m) => m <= 1 + 1
        BY <3>1, <3>2 DEF Place, Turns
      <4> QED
        BY <1>2, <1>6, <1>7, <1>8, <1>10, <4>1, <4>2, <4>3, PaintsPushed
    <3>3. CASE op = "title"
      <4>1. 2 \in DOMAIN t /\ t[2].op = op /\ t[2].val = active'
        BY <1>2, <2>2, <2>3, <3>3
      <4>2. \A k \in DOMAIN t : k \in Nat /\ (t[k].op = op => k <= 2)
        BY <2>2, <2>3, <3>3
      <4>3. \A j \in DOMAIN Browser, m \in Turns : Writes(op, j, m) => m <= 2 + 1
        BY <3>1, <3>3 DEF Place, Turns
      <4> QED
        BY <1>2, <1>6, <1>7, <1>8, <1>10, <4>1, <4>2, <4>3, PaintsPushed
    <3> QED BY <3>2, <3>3
  <2> QED BY <1>4, <1>5, <1>12, <2>4, <2>5 DEF ClearLast
<1> QED BY <1>11, <1>12

\* Every step keeps IconInv.
LEMMA IconStep ==
  ASSUME Types, Types', Shape, Repainted, BootFirst, ClearLast, IconInv, Step
  PROVE  IconInv'
<1> SUFFICES ASSUME up', ~overtaken' PROVE Waited' \/ (Paints("text")' /\ Paints("title")')
  BY DEF IconInv
<1>1. /\ Gone \notin Handlers /\ Requests \cap Handlers = {} /\ Boot \in Handlers
      /\ Commands \subseteq Handlers
  BY Constants
<1>2. ASSUME UNCHANGED <<up, overtaken>>
      PROVE  Waited \/ (Paints("text") /\ Paints("title"))
  BY <1>2 DEF IconInv
<1>3. ASSUME Browser' = Browser, UNCHANGED <<active, icon, todo>>, NEW op, Paints(op)
      PROVE  Paints(op)'
  BY <1>3 DEF Paints, Writes, Has, Turn
<1>4. ASSUME NEW e, Pushed(Stored, Stored', e), Waited \/ e.by \in Handlers PROVE Waited'
  <2>1. /\ Len(Stored') \in DOMAIN Stored' /\ Stored'[Len(Stored')] = e
        /\ \A i \in DOMAIN Stored : i \in DOMAIN Stored' /\ Stored'[i] = Stored[i]
    BY <1>4, PushQueue, QueueTypes, NextQueues
  <2> QED BY <1>4, <2>1 DEF Waited
<1>5. ASSUME Popped(Stored, Stored'), Waited, Stored[1].by \notin Handlers PROVE Waited'
  <2>1. \A i \in DOMAIN Stored :
          i = 1 \/ (i - 1 \in DOMAIN Stored' /\ Stored'[i - 1] = Stored[i])
    BY <1>5, PopQueue, QueueTypes, NextQueues
  <2> QED BY <1>5, <2>1 DEF Waited
<1>6. CASE Kill BY <1>6 DEF Kill
<1>7. CASE BootEnters
  <2>1. Pushed(Stored, Stored', Made(Boot, Call("get", Off))) BY <1>7 DEF BootEnters
  <2> QED BY <1>1, <1>4, <2>1, MadeBy
<1>8. ASSUME NEW h \in Commands, NEW v \in Values, CommandEnters(h, v) PROVE Waited'
  <2>1. Pushed(Stored, Stored', Made(h, Call("set", v))) BY <1>8 DEF CommandEnters
  <2> QED BY <1>1, <1>4, <2>1, MadeBy
<1>9. ASSUME NEW r \in Requests, RequestEnters(r) \/ RequestLeaves(r)
      PROVE  Waited' \/ (Paints("text")' /\ Paints("title")')
  <2>1. /\ Browser' = Browser /\ UNCHANGED <<active, icon, todo>> /\ UNCHANGED <<up, overtaken>>
        /\ \/ Popped(Stored, Stored') /\ Stored[1].by = r
           \/ \E e : Pushed(Stored, Stored', e)
    BY <1>9 DEF RequestEnters, RequestLeaves, chrome, history
  <2>2. Waited => Waited' BY <1>1, <1>4, <1>5, <2>1
  <2> QED BY <1>2, <1>3, <2>1, <2>2
<1>10. CASE LateLeaves
  <2>1. /\ Popped(Stored, Stored') /\ Stored[1].by = Gone /\ Browser' = Browser
        /\ UNCHANGED <<icon, todo>> /\ UNCHANGED <<up, overtaken>>
        /\ Stored[1].call.op # "set" => active' = active
    BY <1>10 DEF LateLeaves, chrome, history
  <2>2. CASE Stored[1].call.op = "set"
    <3>1. FollowedBy(Stored, Handlers) /\ GoneSet(Stored[1])
      BY <2>1, <2>2 DEF Repainted, GoneSet
    <3> QED BY <2>1, <3>1, FollowedPop, QueueTypes, NextQueues DEF Waited
  <2>3. CASE Stored[1].call.op # "set"
    <3>1. Waited => Waited' BY <1>1, <1>5, <2>1
    <3> QED BY <1>2, <1>3, <2>1, <2>3, <3>1
  <2> QED BY <2>2, <2>3
<1>11. CASE BootMoves BY <1>11, BootPaints
<1>12. ASSUME NEW h \in Commands, NEW v \in Values, CommandMoves(h, v)
       PROVE  Waited' \/ (Paints("text")' /\ Paints("title")')
  <2>1. ~overtaken BY <1>12 DEF CommandMoves, history
  <2> QED BY <1>12, <2>1, CommandPaints DEF Waited
<1>13. CASE BrowserLeaves \/ \E h \in Handlers : BrowserTurns(h)
  <2>1. Stored' = Stored /\ UNCHANGED <<up, overtaken>> BY <1>13, OneServed
  <2>2. Waited => Waited' BY <2>1 DEF Waited
  <2> QED BY <1>2, <1>13, <2>1, <2>2, PaintsServed
<1>14. CASE Elsewhere
  <2>1. Stored' = Stored /\ Browser' = Browser /\ UNCHANGED <<active, icon, todo>>
        /\ UNCHANGED <<up, overtaken>>
    BY <1>14 DEF Elsewhere, Stored, Browser, history
  <2>2. Waited => Waited' BY <2>1 DEF Waited
  <2> QED BY <1>2, <1>3, <2>1, <2>2
<1> QED
  BY <1>6, <1>7, <1>8, <1>9, <1>10, <1>11, <1>12, <1>13, <1>14 DEF Step

\* When the worker has nothing left to do the icon shows the stored state, after
\* commands, the end of a worker within one and the boot of the next, unless
\* "Disable" overtook an apply (background.js:23-26, 106-108).
THEOREM IconsShowStored == Spec => []IconShowsStored
<1> DEFINE I == Base /\ BootFirst /\ ClearLast /\ IconInv
<1>1. Init => I
  <2> SUFFICES ASSUME Init PROVE BootFirst /\ ClearLast /\ IconInv BY InitBase
  <2>1. Stored = <<>> BY Constants DEF Init, Stored
  <2>2. DOMAIN Stored = {} BY <2>1
  <2>3. ~up BY DEF Init
  <2> QED BY <2>2, <2>3 DEF BootFirst, ClearLast, IconInv
<1>2. I /\ [Next]_vars => I'
  <2> SUFFICES ASSUME Base, BootFirst, ClearLast, IconInv, [Next]_vars
               PROVE  Base' /\ BootFirst' /\ ClearLast' /\ IconInv'
    OBVIOUS
  <2>1. Base' /\ Step BY BaseStep
  <2> QED BY <2>1, BootFirstStep, ClearLastStep, IconStep DEF Base
<1>3. I => IconShowsStored
  <2> SUFFICES ASSUME Base, IconInv, Idle, ~overtaken
               PROVE  icon = [text |-> active, title |-> active]
    BY DEF IconShowsStored
  <2>1. up /\ DOMAIN Stored = {} /\ DOMAIN Browser = {} BY IdleEmpty
  <2>2. Paints("text") /\ Paints("title") BY <2>1 DEF IconInv, Waited
  <2>3. icon["text"] = active /\ icon["title"] = active BY <2>1, <2>2 DEF Paints
  <2> QED BY <2>3 DEF Base, Types, TypeOK
<1> QED BY <1>1, <1>2, <1>3, PTL DEF Spec

-----------------------------------------------------------------------------
(* The WebSocket hub. *)

\* How many events of the stream the peer has been sent or is being sent.
Taken(c) == IF pump[c] = "write" THEN Len(received[c]) + 1 ELSE Len(received[c])

\* The three parts of a stream, each in its place.
ReceivedInPlace ==
  \A c \in Clients : \A i \in 1..Len(received[c]) : received[c][i] = joined[c] + i
WritingInPlace ==
  \A c \in Clients :
    /\ pump[c] # "write" => writing[c] = 0
    /\ Served(c) /\ pump[c] = "write" => writing[c] = joined[c] + Taken(c)
BufferedInPlace ==
  \A c \in Clients : Served(c) =>
    \A i \in 1..Len(buf[c]) : buf[c][i] = joined[c] + Taken(c) + i

\* The stream of a registered client ends with the last event.
UpToDate ==
  \A c \in registered : Served(c) => joined[c] + Taken(c) + Len(buf[c]) = sent

\* A client that has not connected has received nothing and is not known, one
\* whose pump has ended is no longer.
Life ==
  \A c \in Clients :
    /\ pump[c] = "none" =>
         /\ buf[c] = <<>> /\ received[c] = <<>> /\ ~closed[c] /\ socket[c] = "none"
    /\ pump[c] = "ended" => socket[c] = "shut"
    /\ c \in registered => pump[c] \notin {"none", "ended"}

HubInv ==
  /\ HubTypeOK /\ RegisteredIsOpen
  /\ ReceivedInPlace /\ WritingInPlace /\ BufferedInPlace /\ UpToDate /\ Life
-----------------------------------------------------------------------------
\* The first event of a channel is the one its pump receives.
LEMMA HeadIsFirst ==
  ASSUME NEW s \in Seq(Nat), s # <<>>
  PROVE  Head(s) = s[1] /\ 1 \in 1..Len(s)
  BY EmptySeq

\* Init: the hub starts with no client and no event.
LEMMA HubStarts == HubInit => HubInv
  BY EmptySeq DEF HubInit, HubInv, HubTypeOK, RegisteredIsOpen, ReceivedInPlace,
     WritingInPlace, BufferedInPlace, UpToDate, Life, Served, Taken

\* Counts: what a peer has taken and what its channel holds.
LEMMA Counts ==
  ASSUME HubTypeOK, NEW c \in Clients
  PROVE  /\ Taken(c) \in Nat /\ joined[c] \in Nat /\ sent \in Nat
         /\ Len(buf[c]) \in Nat /\ Len(received[c]) \in Nat
         /\ buf[c] \in Seq(Nat) /\ received[c] \in Seq(Nat)
<1>1. /\ buf[c] \in Seq(Nat) /\ received[c] \in Seq(Nat)
      /\ joined[c] \in Nat /\ sent \in Nat
  BY DEF HubTypeOK
<1>2. Len(buf[c]) \in Nat /\ Len(received[c]) \in Nat BY <1>1, LenProperties
<1> QED BY <1>1, <1>2 DEF Taken

\* Broadcast: the next event continues the stream of every client it is queued for.
LEMMA BroadcastStep ==
  ASSUME HubInv, Broadcast
  PROVE  HubInv'
<1> USE DEF HubInv
<1>1. HubTypeOK'
  BY DEF Broadcast, Full, hist, HubTypeOK
<1>2. RegisteredIsOpen'
  BY DEF Broadcast, Full, hist, RegisteredIsOpen, HubTypeOK, Life
<1>3. ReceivedInPlace'
  BY DEF Broadcast, hist, ReceivedInPlace
<1>4. WritingInPlace'
  BY DEF Broadcast, Full, hist, WritingInPlace, Taken, Served, Life, HubTypeOK
<1>5. BufferedInPlace'
  <2> SUFFICES ASSUME NEW d \in Clients, Served(d)'
               PROVE  \A i \in 1..Len(buf'[d]) : buf'[d][i] = (joined[d] + Taken(d) + i)
    BY DEF BufferedInPlace, Broadcast, Taken, hist
  <2>1. Served(d) /\ buf[d] \in Seq(Nat) BY DEF Broadcast, Served, HubTypeOK
  <2>2. CASE d \in registered /\ ~Full(d)
    <3>1. buf'[d] = Append(buf[d], sent + 1) BY <2>2 DEF Broadcast
    <3>2. sent = joined[d] + Taken(d) + Len(buf[d]) BY <2>1, <2>2 DEF UpToDate
    <3>3. sent + 1 \in Nat BY Counts
    <3>4. SUFFICES ASSUME NEW i \in 1..Len(buf'[d])
                   PROVE  buf'[d][i] = joined[d] + Taken(d) + i
      OBVIOUS
    <3>5. Taken(d) \in Nat /\ joined[d] \in Nat /\ sent \in Nat /\ Len(buf[d]) \in Nat BY Counts
    <3>6. i \in 1..(Len(buf[d]) + 1) BY <2>1, <3>1, <3>3, AppendProperties
    <3>7. CASE i \in 1..Len(buf[d])
      <4>1. buf'[d][i] = buf[d][i] BY <2>1, <3>1, <3>3, <3>7, AppendProperties
      <4> QED BY <2>1, <3>7, <4>1 DEF BufferedInPlace
    <3>8. CASE i = Len(buf[d]) + 1
      <4>1. buf'[d][i] = sent + 1 BY <2>1, <3>1, <3>3, <3>8, AppendProperties
      <4>2. PICK j \in Nat, t \in Nat, n \in Nat :
              j = joined[d] /\ t = Taken(d) /\ n = Len(buf[d])
        BY <3>5
      <4>3. sent = j + t + n /\ i = n + 1 BY ONLY <3>2, <3>8, <4>2
      <4>4. sent + 1 = j + t + i BY ONLY <4>3
      <4> QED BY ONLY <4>1, <4>2, <4>4
    <3> QED BY <3>2, <3>6, <3>7, <3>8, <3>5
  <2>3. CASE ~(d \in registered /\ ~Full(d))
    BY <2>1, <2>3 DEF Broadcast, BufferedInPlace
  <2> QED BY <2>2, <2>3
<1>6. UpToDate'
  <2> SUFFICES ASSUME NEW d \in registered', Served(d)'
               PROVE  joined[d] + Taken(d) + Len(buf'[d]) = sent + 1
    BY DEF UpToDate, Broadcast, Taken, hist
  <2>1. d \in registered /\ ~Full(d) /\ d \in Clients BY DEF Broadcast, HubTypeOK
  <2>2. Served(d) /\ buf[d] \in Seq(Nat) BY <2>1 DEF Broadcast, Served, HubTypeOK
  <2>3. buf'[d] = Append(buf[d], sent + 1) BY <2>1 DEF Broadcast
  <2>4. sent = joined[d] + Taken(d) + Len(buf[d]) BY <2>1, <2>2 DEF UpToDate
  <2>5. Len(buf'[d]) = Len(buf[d]) + 1 BY <2>2, <2>3, Counts, AppendProperties
  <2>6. Taken(d) \in Nat /\ joined[d] \in Nat /\ sent \in Nat /\ Len(buf[d]) \in Nat BY <2>1, Counts
  <2>7. PICK j \in Nat, t \in Nat, n \in Nat :
          j = joined[d] /\ t = Taken(d) /\ n = Len(buf[d])
    BY <2>6
  <2>8. Len(buf'[d]) = n + 1 /\ sent = j + t + n BY ONLY <2>4, <2>5, <2>7
  <2>9. j + t + (n + 1) = sent + 1 BY ONLY <2>8
  <2> QED BY ONLY <2>7, <2>8, <2>9
<1>7. Life'
  BY DEF Broadcast, Full, hist, Life, HubTypeOK
<1> QED BY <1>1, <1>2, <1>3, <1>4, <1>5, <1>6, <1>7

\* Close: Hub.Close closes channels of registered clients only, and empties the map.
LEMMA CloseStep ==
  ASSUME HubInv, Close
  PROVE  HubInv'
<1> USE DEF HubInv
<1>1. HubTypeOK'
  <2>1. \A d \in Clients : buf[d] # <<>> => Tail(buf[d]) \in Seq(Nat)
    BY HeadTailProperties, Counts
  <2>2. buf' \in [Clients -> Seq(Nat)] BY <2>1, Counts DEF Close, TakeOrClose
  <2>3. closed' \in [Clients -> BOOLEAN] /\ socket' \in [Clients -> {"none", "open", "gone", "shut"}]
    BY DEF Close, TakeOrClose, HubTypeOK
  <2> QED BY <2>2, <2>3 DEF Close, HubTypeOK, hist
<1>2. RegisteredIsOpen'
  BY DEF Close, TakeOrClose, hist, RegisteredIsOpen, HubTypeOK, Life
<1>3. ReceivedInPlace'
  BY DEF Close, hist, ReceivedInPlace
<1>4. WritingInPlace'
  BY DEF Close, TakeOrClose, hist, WritingInPlace, Taken, Served, Life, HubTypeOK
<1>5. BufferedInPlace'
  BY DEF Close, TakeOrClose, hist, BufferedInPlace, Taken, Served, Life, HubTypeOK
<1>6. UpToDate'
  BY DEF Close, TakeOrClose, hist, UpToDate, Taken, Served, Life, HubTypeOK
<1>7. Life'
  BY DEF Close, TakeOrClose, hist, Life, HubTypeOK
<1> QED BY <1>1, <1>2, <1>3, <1>4, <1>5, <1>6, <1>7

\* Connect: a new client starts with an empty stream at the last event.
LEMMA ConnectStep ==
  ASSUME NEW c \in Clients, HubInv, Connect(c)
  PROVE  HubInv'
<1> USE DEF HubInv
<1>1. HubTypeOK'
  BY DEF Connect, chan, HubTypeOK
<1>2. RegisteredIsOpen'
  BY DEF Connect, chan, RegisteredIsOpen, HubTypeOK, Life
<1>3. ReceivedInPlace'
  <2> SUFFICES ASSUME NEW d \in Clients
               PROVE  \A i \in 1..Len(received[d]) : received[d][i] = joined'[d] + i
    BY DEF ReceivedInPlace, Connect
  <2>1. CASE d = c
    <3>1. received[d] = <<>> BY <2>1 DEF Connect, Life
    <3> QED BY <3>1, EmptySeq
  <2>2. CASE d # c
    <3>1. joined'[d] = joined[d] BY <2>2 DEF Connect, HubTypeOK
    <3> QED BY <3>1 DEF ReceivedInPlace
  <2> QED BY <2>1, <2>2
<1>4. WritingInPlace'
  BY DEF Connect, chan, WritingInPlace, Taken, Served, Life, HubTypeOK
<1>5. BufferedInPlace'
  <2> SUFFICES ASSUME NEW d \in Clients, Served(d)'
               PROVE  \A i \in 1..Len(buf[d]) : buf[d][i] = joined'[d] + Taken(d)' + i
    BY DEF BufferedInPlace, Connect, chan
  <2>1. CASE d = c
    BY <2>1, EmptySeq DEF Connect, Life
  <2>2. CASE d # c
    <3>1. Served(d) /\ joined'[d] = joined[d] /\ Taken(d)' = Taken(d)
      BY <2>2 DEF Connect, Served, Taken, HubTypeOK
    <3> QED BY <3>1 DEF BufferedInPlace
  <2> QED BY <2>1, <2>2
<1>6. UpToDate'
  <2> SUFFICES ASSUME NEW d \in registered', Served(d)'
               PROVE  joined'[d] + Taken(d)' + Len(buf[d]) = sent
    BY DEF UpToDate, Connect, chan
  <2>1. CASE d = c
    <3>1. received'[c] = <<>> /\ buf[c] = <<>> BY DEF Connect, Life
    <3>2. joined'[c] = sent /\ pump'[c] = "range" BY DEF Connect, HubTypeOK
    <3> QED BY <2>1, <3>1, <3>2, EmptySeq DEF Taken, HubTypeOK
  <2>2. CASE d # c
    <3>1. d \in registered /\ d \in Clients BY <2>2 DEF Connect, HubTypeOK
    <3>2. Served(d) /\ joined'[d] = joined[d] /\ Taken(d)' = Taken(d)
      BY <2>2, <3>1 DEF Connect, Served, Taken, HubTypeOK
    <3> QED BY <3>1, <3>2 DEF UpToDate
  <2> QED BY <2>1, <2>2
<1>7. Life'
  BY DEF Connect, chan, Life, HubTypeOK
<1> QED BY <1>1, <1>2, <1>3, <1>4, <1>5, <1>6, <1>7

\* PeerLeaves: a peer that leaves is no longer served.
LEMMA PeerLeavesStep ==
  ASSUME NEW c \in Clients, HubInv, PeerLeaves(c)
  PROVE  HubInv'
<1> USE DEF HubInv
<1>1. HubTypeOK'
  BY DEF PeerLeaves, hub, chan, hist, HubTypeOK
<1>2. RegisteredIsOpen'
  BY DEF PeerLeaves, hub, chan, hist, RegisteredIsOpen, HubTypeOK, Life
<1>3. ReceivedInPlace'
  BY DEF PeerLeaves, hist, ReceivedInPlace
<1>4. WritingInPlace'
  BY DEF PeerLeaves, hub, chan, hist, WritingInPlace, Taken, Served, Life, HubTypeOK
<1>5. BufferedInPlace'
  BY DEF PeerLeaves, hub, chan, hist, BufferedInPlace, Taken, Served, Life, HubTypeOK
<1>6. UpToDate'
  BY DEF PeerLeaves, hub, chan, hist, UpToDate, Taken, Served, Life, HubTypeOK
<1>7. Life'
  BY DEF PeerLeaves, hub, chan, hist, Life, HubTypeOK
<1> QED BY <1>1, <1>2, <1>3, <1>4, <1>5, <1>6, <1>7

\* Receive: the first buffered event becomes the one being written.
LEMMA ReceiveStep ==
  ASSUME NEW c \in Clients, HubInv, Receive(c)
  PROVE  HubInv'
<1> USE DEF HubInv
<1>1. HubTypeOK'
  BY DEF Receive, hub, hist, HubTypeOK
<1>2. RegisteredIsOpen'
  BY DEF Receive, hub, hist, RegisteredIsOpen, HubTypeOK, Life
<1>3. ReceivedInPlace'
  BY DEF Receive, hist, ReceivedInPlace
<1>4. WritingInPlace'
  <2> SUFFICES ASSUME NEW d \in Clients
               PROVE  /\ pump'[d] # "write" => writing'[d] = 0
                      /\ Served(d)' /\ pump'[d] = "write" => writing'[d] = joined'[d] + Taken(d)'
    BY DEF WritingInPlace
  <2>1. CASE d = c
    <3>1. writing'[c] = Head(buf[c]) /\ pump'[c] = "write" BY DEF Receive, HubTypeOK
    <3>2. Taken(c)' = Taken(c) + 1 BY <3>1 DEF Receive, Taken, HubTypeOK, hist
    <3>3. Served(c)' => writing'[c] = joined[c] + Taken(c) + 1
      <4> SUFFICES ASSUME Served(c)' PROVE buf[c][1] = joined[c] + Taken(c) + 1
        BY <3>1, HeadIsFirst DEF Receive, HubTypeOK
      <4>1. Served(c) BY DEF Receive, Served
      <4>2. 1 \in 1..Len(buf[c]) BY HeadIsFirst DEF Receive, HubTypeOK
      <4> QED BY <4>1, <4>2 DEF BufferedInPlace
    <3> QED BY <2>1, <3>1, <3>2, <3>3 DEF Receive, hist, HubTypeOK, Taken
  <2>2. CASE d # c
    BY <2>2 DEF Receive, WritingInPlace, Served, Taken, HubTypeOK, hist
  <2> QED BY <2>1, <2>2
<1>5. BufferedInPlace'
  <2> SUFFICES ASSUME NEW d \in Clients, Served(d)'
               PROVE  \A i \in 1..Len(buf'[d]) : buf'[d][i] = joined[d] + Taken(d)' + i
    BY DEF BufferedInPlace, Receive, hist
  <2>1. CASE d = c
    <3>1. Taken(d)' = Taken(d) + 1 /\ Taken(d)' \in Nat
      BY <2>1, Counts DEF Receive, Taken, HubTypeOK, hist
    <3>2. Served(d) BY <2>1 DEF Receive, Served
    <3>3. buf'[d] = Tail(buf[d]) /\ buf[d] \in Seq(Nat) /\ buf[d] # <<>>
      BY <2>1 DEF Receive, HubTypeOK
    <3>4. SUFFICES ASSUME NEW i \in 1..Len(buf'[d])
                   PROVE  buf'[d][i] = joined[d] + Taken(d)' + i
      BY <2>1
    <3>5. buf'[d][i] = buf[d][i + 1] /\ i + 1 \in 1..Len(buf[d])
      BY <3>3, HeadTailProperties
    <3>6. Taken(d) \in Nat /\ joined[d] \in Nat BY Counts
    <3>7. buf[d][i + 1] = joined[d] + Taken(d) + (i + 1) BY <3>2, <3>5 DEF BufferedInPlace
    <3>8. i \in Nat BY <3>5, LenProperties DEF Receive, HubTypeOK
    <3>9. joined[d] + Taken(d) + (i + 1) = joined[d] + Taken(d)' + i BY <3>1, <3>6, <3>8
    <3> QED BY <3>5, <3>7, <3>9, Zenon
  <2>2. CASE d # c
    BY <2>2 DEF Receive, BufferedInPlace, Served, Taken, HubTypeOK, hist
  <2> QED BY <2>1, <2>2
<1>6. UpToDate'
  <2> SUFFICES ASSUME NEW d \in registered, d \in Clients, Served(d)'
               PROVE  joined[d] + Taken(d)' + Len(buf'[d]) = sent
    BY DEF UpToDate, Receive, hist, hub, HubTypeOK
  <2>1. CASE d = c
    <3>1. Taken(d)' = Taken(d) + 1 /\ Taken(d)' \in Nat
      BY <2>1, Counts DEF Receive, Taken, HubTypeOK, hist
    <3>2. Served(d) BY <2>1 DEF Receive, Served
    <3>3. Len(buf'[d]) = Len(buf[d]) - 1 /\ Len(buf[d]) \in Nat /\ Len(buf'[d]) \in Int
      BY <2>1, HeadTailProperties DEF Receive, HubTypeOK
    <3>4. joined[d] + Taken(d) + Len(buf[d]) = sent BY <2>1, <3>2 DEF UpToDate
    <3>5. Taken(d) \in Nat /\ joined[d] \in Nat /\ sent \in Nat BY Counts
    <3>6. PICK j \in Nat, t \in Nat, n \in Nat, k \in Int :
            j = joined[d] /\ t = Taken(d) /\ n = Len(buf[d]) /\ k = Len(buf'[d])
      BY <3>3, <3>5
    <3>7. k = n - 1 /\ Taken(d)' = t + 1 /\ j + t + n = sent BY ONLY <3>1, <3>3, <3>4, <3>6
    <3>8. j + (t + 1) + k = sent BY ONLY <3>7
    <3> QED BY ONLY <3>6, <3>7, <3>8
  <2>2. CASE d # c
    BY <2>2 DEF Receive, UpToDate, Served, Taken, HubTypeOK, hist
  <2> QED BY <2>1, <2>2
<1>7. Life'
  BY DEF Receive, hub, hist, Life, HubTypeOK
<1> QED BY <1>1, <1>2, <1>3, <1>4, <1>5, <1>6, <1>7

\* RangeEnds: the pump that finds its channel closed leaves the loop.
LEMMA RangeEndsStep ==
  ASSUME NEW c \in Clients, HubInv, RangeEnds(c)
  PROVE  HubInv'
<1> USE DEF HubInv
<1>1. HubTypeOK'
  BY DEF RangeEnds, hub, chan, hist, HubTypeOK
<1>2. RegisteredIsOpen'
  BY DEF RangeEnds, hub, chan, hist, RegisteredIsOpen, HubTypeOK, Life
<1>3. ReceivedInPlace'
  BY DEF RangeEnds, hist, ReceivedInPlace
<1>4. WritingInPlace'
  BY DEF RangeEnds, hub, chan, hist, WritingInPlace, Taken, Served, Life, HubTypeOK
<1>5. BufferedInPlace'
  BY DEF RangeEnds, hub, chan, hist, BufferedInPlace, Taken, Served, Life, HubTypeOK
<1>6. UpToDate'
  BY DEF RangeEnds, hub, chan, hist, UpToDate, Taken, Served, Life, HubTypeOK
<1>7. Life'
  BY DEF RangeEnds, hub, chan, hist, Life, HubTypeOK
<1> QED BY <1>1, <1>2, <1>3, <1>4, <1>5, <1>6, <1>7

\* A write that succeeds moves the event from the pump to the peer: what a
\* client still served has taken stays the same.
LEMMA ServedKeepsTaken ==
  ASSUME NEW c \in Clients, HubInv, WriteDone(c), NEW d \in Clients, Served(d)'
  PROVE  Served(d) /\ Taken(d)' = Taken(d)
<1> USE DEF HubInv
<1>1. CASE d = c
  <2>1. socket[c] = "open" /\ pump[c] = "write" /\ pump'[c] = "range"
    BY <1>1 DEF WriteDone, Served, HubTypeOK
  <2>2. received'[c] = Append(received[c], writing[c]) BY <2>1 DEF WriteDone, HubTypeOK
  <2>3. Len(received'[c]) = Len(received[c]) + 1 BY <2>2, AppendProperties DEF HubTypeOK
  <2> QED BY <1>1, <2>1, <2>3 DEF Served, Taken, HubTypeOK
<1>2. CASE d # c
  BY <1>2 DEF WriteDone, Served, Taken, HubTypeOK
<1> QED BY <1>1, <1>2

\* WriteDone: the event written becomes the last one received.
LEMMA WriteDoneStep ==
  ASSUME NEW c \in Clients, HubInv, WriteDone(c)
  PROVE  HubInv'
<1> USE DEF HubInv
<1>1. HubTypeOK'
  BY DEF WriteDone, hub, chan, HubTypeOK
<1>2. RegisteredIsOpen'
  BY DEF WriteDone, hub, chan, RegisteredIsOpen, HubTypeOK, Life
<1>3. ReceivedInPlace'
  BY DEF WriteDone, hub, chan, ReceivedInPlace, WritingInPlace, Served, Taken, Life, HubTypeOK
<1>4. WritingInPlace'
  BY DEF WriteDone, hub, chan, WritingInPlace, Taken, Served, Life, HubTypeOK
<1>5. BufferedInPlace'
  <2> SUFFICES ASSUME NEW d \in Clients, Served(d)'
               PROVE  Served(d) /\ Taken(d)' = Taken(d)
    BY DEF BufferedInPlace, WriteDone, chan
  <2> QED BY ServedKeepsTaken
<1>6. UpToDate'
  <2> SUFFICES ASSUME NEW d \in registered, d \in Clients, Served(d)'
               PROVE  Served(d) /\ Taken(d)' = Taken(d)
    BY DEF UpToDate, WriteDone, chan, hub, HubTypeOK
  <2> QED BY ServedKeepsTaken
<1>7. Life'
  BY DEF WriteDone, hub, chan, Life, HubTypeOK
<1> QED BY <1>1, <1>2, <1>3, <1>4, <1>5, <1>6, <1>7

\* WriteFails: a failed write ends the service of the client.
LEMMA WriteFailsStep ==
  ASSUME NEW c \in Clients, HubInv, WriteFails(c)
  PROVE  HubInv'
<1> USE DEF HubInv
<1>1. HubTypeOK'
  BY DEF WriteFails, hub, chan, hist, HubTypeOK
<1>2. RegisteredIsOpen'
  BY DEF WriteFails, hub, chan, hist, RegisteredIsOpen, HubTypeOK, Life
<1>3. ReceivedInPlace'
  BY DEF WriteFails, hist, ReceivedInPlace
<1>4. WritingInPlace'
  BY DEF WriteFails, hub, chan, hist, WritingInPlace, Taken, Served, Life, HubTypeOK
<1>5. BufferedInPlace'
  BY DEF WriteFails, hub, chan, hist, BufferedInPlace, Taken, Served, Life, HubTypeOK
<1>6. UpToDate'
  BY DEF WriteFails, hub, chan, hist, UpToDate, Taken, Served, Life, HubTypeOK
<1>7. Life'
  BY DEF WriteFails, hub, chan, hist, Life, HubTypeOK
<1> QED BY <1>1, <1>2, <1>3, <1>4, <1>5, <1>6, <1>7

\* Cleanup: the pump's deferred function takes its client off the map.
LEMMA CleanupStep ==
  ASSUME NEW c \in Clients, HubInv, Cleanup(c)
  PROVE  HubInv'
<1> USE DEF HubInv
<1>1. HubTypeOK'
  BY DEF Cleanup, TakeOrClose, hist, HubTypeOK
<1>2. RegisteredIsOpen'
  BY DEF Cleanup, TakeOrClose, hist, RegisteredIsOpen, HubTypeOK, Life
<1>3. ReceivedInPlace'
  BY DEF Cleanup, hist, ReceivedInPlace
<1>4. WritingInPlace'
  BY DEF Cleanup, TakeOrClose, hist, WritingInPlace, Taken, Served, Life, HubTypeOK
<1>5. BufferedInPlace'
  BY DEF Cleanup, TakeOrClose, hist, BufferedInPlace, Taken, Served, Life, HubTypeOK
<1>6. UpToDate'
  BY DEF Cleanup, TakeOrClose, hist, UpToDate, Taken, Served, Life, HubTypeOK
<1>7. Life'
  BY DEF Cleanup, TakeOrClose, hist, Life, HubTypeOK
<1> QED BY <1>1, <1>2, <1>3, <1>4, <1>5, <1>6, <1>7

-----------------------------------------------------------------------------
\* Every step of the hub, its pumps and the peers keeps the invariant.
LEMMA HubStepInv == HubInv /\ [HubNext]_hubVars => HubInv'
<1> SUFFICES ASSUME HubInv, [HubNext]_hubVars PROVE HubInv'
  OBVIOUS
<1>1. CASE Broadcast BY <1>1, BroadcastStep
<1>2. CASE Close BY <1>2, CloseStep
<1>3. ASSUME NEW c \in Clients, Connect(c) \/ PeerLeaves(c) \/ PumpStep(c)
      PROVE  HubInv'
  BY <1>3, ConnectStep, PeerLeavesStep, ReceiveStep, RangeEndsStep, WriteDoneStep,
     WriteFailsStep, CleanupStep DEF PumpStep
<1>4. CASE UNCHANGED hubVars
  BY <1>4 DEF HubInv, HubTypeOK, RegisteredIsOpen, ReceivedInPlace, WritingInPlace,
     BufferedInPlace, UpToDate, Life, Served, Taken, hubVars, hub, chan, hist
<1> QED BY <1>1, <1>2, <1>3, <1>4 DEF HubNext

\* The parts of a served stream, one behind the other, have no gap: Broadcast,
\* the pump's range loop and WriteJSON each keep the order of the channel.
LEMMA HubNoGap == HubInv => NoGap
<1> SUFFICES ASSUME HubInv, NEW c \in Clients, NEW i \in DOMAIN Stream(c)
             PROVE  Stream(c)[i] = joined[c] + i
  BY DEF NoGap
<1> USE DEF HubInv
<1>1. /\ received[c] \in Seq(Nat) /\ buf[c] \in Seq(Nat)
      /\ Taken(c) \in Nat /\ joined[c] \in Nat /\ writing[c] \in Nat
      /\ Len(received[c]) \in Nat /\ Len(buf[c]) \in Nat
  BY Counts DEF HubTypeOK
<1>2. CASE ~Served(c)
  BY <1>1, <1>2, LenProperties DEF Stream, ReceivedInPlace
<1>3. CASE Served(c)
  <2>1. \E rw \in Seq(Nat) :
          /\ Stream(c) = rw \o buf[c] /\ Len(rw) = Taken(c)
          /\ \A j \in 1..Len(rw) : rw[j] = joined[c] + j
    <3>1. CASE writing[c] = 0
      <4>1. Stream(c) = received[c] \o buf[c]
        BY <1>1, <1>3, <3>1, ConcatEmptySeq DEF Stream
      <4>2. Taken(c) = Len(received[c])
        BY <1>1, <1>3, <3>1 DEF WritingInPlace, Taken
      <4> QED BY <1>1, <4>1, <4>2 DEF ReceivedInPlace
    <3>2. CASE writing[c] # 0
      <4> DEFINE rw == Append(received[c], writing[c])
      <4>1. Stream(c) = rw \o buf[c]
        BY <1>1, <1>3, <3>2, AppendIsConcat DEF Stream
      <4>2. pump[c] = "write" /\ Taken(c) = Len(received[c]) + 1
        BY <3>2 DEF WritingInPlace, Taken
      <4>3. writing[c] = joined[c] + Taken(c)
        BY <1>3, <4>2 DEF WritingInPlace
      <4>4. rw \in Seq(Nat) /\ Len(rw) = Taken(c)
        BY <1>1, <4>2, AppendProperties
      <4>5. ASSUME NEW j \in 1..Len(rw) PROVE rw[j] = joined[c] + j
        <5>1. CASE j \in 1..Len(received[c])
          BY <1>1, <5>1, AppendProperties DEF ReceivedInPlace
        <5>2. CASE j = Len(received[c]) + 1
          BY <1>1, <4>2, <4>3, <5>2, AppendProperties
        <5> QED BY <1>1, <4>2, <4>4, <5>1, <5>2
      <4> QED BY <4>1, <4>4, <4>5
    <3> QED BY <3>1, <3>2
  <2>2. PICK rw \in Seq(Nat) :
          /\ Stream(c) = rw \o buf[c] /\ Len(rw) = Taken(c)
          /\ \A j \in 1..Len(rw) : rw[j] = joined[c] + j
    BY <2>1
  <2>3. /\ i \in 1..(Len(rw) + Len(buf[c]))
        /\ Stream(c)[i] = IF i <= Len(rw) THEN rw[i] ELSE buf[c][i - Len(rw)]
    BY <1>1, <2>2, ConcatProperties, LenProperties
  <2>4. CASE i <= Len(rw)
    BY <1>1, <2>2, <2>3, <2>4
  <2>5. CASE ~(i <= Len(rw))
    <3>1. i - Len(rw) \in 1..Len(buf[c])
      <4>1. PICK n \in Nat, k \in Nat : n = Len(rw) /\ k = Len(buf[c]) BY <1>1, <2>2
      <4>2. i \in 1..(n + k) /\ ~(i <= n) BY ONLY <2>3, <2>5, <4>1
      <4>3. i - n \in 1..k BY ONLY <4>2
      <4> QED BY ONLY <4>1, <4>3
    <3>2. buf[c][i - Len(rw)] = joined[c] + Taken(c) + (i - Len(rw))
      BY <1>3, <3>1 DEF BufferedInPlace
    <3> QED BY <1>1, <2>2, <2>3, <2>5, <3>2
  <2> QED BY <2>4, <2>5
<1> QED BY <1>2, <1>3

\* The inductive invariant holds of every behaviour of the hub.
THEOREM HubInvariance == HubSpec => []HubInv
  BY HubStarts, HubStepInv, PTL DEF HubSpec

\* The state keeps its types: every channel holds a sequence of events, every
\* pump is at one of its steps.
THEOREM HubTypes == HubSpec => []HubTypeOK
<1>1. HubInv => HubTypeOK BY DEF HubInv
<1> QED BY <1>1, HubInvariance, PTL

\* Broadcast never sends on a closed channel and no channel is closed twice:
\* whoever closes a channel (a Broadcast that drops the client, the pump's
\* deferred function, Hub.Close) takes it off the map under the same lock.
THEOREM NoSendOnClosed == HubSpec => []RegisteredIsOpen
<1>1. HubInv => RegisteredIsOpen BY DEF HubInv
<1> QED BY <1>1, HubInvariance, PTL

\* A client misses no event while it is served: what its peer received, what
\* its pump is writing and what its channel holds follow on each other.
THEOREM StreamsHaveNoGap == HubSpec => []NoGap
  BY HubInvariance, HubNoGap, PTL
=============================================================================
