--------------------------- MODULE LiveConnections ---------------------------
(***************************************************************************)
(* What a connection registry promises, with no word on how it is indexed: *)
(* the set of the connections that are open, each under the login and the  *)
(* upstream it was opened with, and close requests.  What tells one        *)
(* connection from another is its CancelFunc, which belongs to it alone.   *)
(* A close request owes a call to that of every connection that was open   *)
(* and matched when it looked, and of no other; it returns when it owes    *)
(* nothing.                                                                *)
(***************************************************************************)
CONSTANTS Cancels, Logins, Upstreams, Closers

VARIABLES
  live,    \* the open connections
  opened,  \* the CancelFuncs of the connections opened so far
  cut,     \* those that were called
  busy,    \* the closers with a request in progress
  owed     \* per closer: those it still has to call

vars == <<live, opened, cut, busy, owed>>

Connection == [cancel : Cancels, login : Logins, up : Upstreams]

\* The three ways to name what is to be closed.
Selections ==
  [by : {"pair"}, login : Logins, up : Upstreams]
  \cup [by : {"upstream"}, up : Upstreams]
  \cup [by : {"username"}, login : Logins]

Selects(s, c) ==
  CASE s.by = "pair" -> c.login = s.login /\ c.up = s.up
    [] s.by = "upstream" -> c.up = s.up
    [] s.by = "username" -> c.login = s.login

Init ==
  /\ live = {} /\ opened = {} /\ cut = {}
  /\ busy = {} /\ owed = [k \in Closers |-> {}]

Open(c) ==
  /\ c.cancel \notin opened
  /\ live' = live \cup {c}
  /\ opened' = opened \cup {c.cancel}
  /\ UNCHANGED <<cut, busy, owed>>

End(c) == live' = live \ {c} /\ UNCHANGED <<opened, cut, busy, owed>>

Close(k, s) ==
  /\ k \notin busy
  /\ busy' = busy \cup {k}
  /\ owed' = [owed EXCEPT ![k] = {c.cancel : c \in {d \in live : Selects(s, d)}}]
  /\ UNCHANGED <<live, opened, cut>>

Cancel(k, f) ==
  /\ k \in busy /\ f \in owed[k]
  /\ cut' = cut \cup {f}
  /\ owed' = [owed EXCEPT ![k] = @ \ {f}]
  /\ UNCHANGED <<live, opened, busy>>

Return(k) ==
  /\ k \in busy /\ owed[k] = {}
  /\ busy' = busy \ {k}
  /\ UNCHANGED <<live, opened, cut, owed>>

Next ==
  \/ \E c \in Connection : Open(c)
  \/ \E c \in live : End(c)
  \/ \E k \in Closers :
       \/ \E s \in Selections : Close(k, s)
       \/ \E f \in Cancels : Cancel(k, f)
       \/ Return(k)

Spec == Init /\ [][Next]_vars
=============================================================================
