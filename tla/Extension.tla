----------------------------- MODULE Extension ------------------------------
(***************************************************************************)
(* The Chrome extension: its service worker (background.js), the commands  *)
(* and the subscription of its popup (popup.js), and of the browser what   *)
(* they talk to.  Every proxy of a PIO server has the same host and port,  *)
(* so a proxy here is the name that a 407 challenge is answered with.      *)
(*                                                                         *)
(* The worker awaits one call to the browser after the other, several      *)
(* handlers at a time.  The browser serves the calls to chrome.storage in  *)
(* the order they were made, and those to proxy.settings, action and       *)
(* browsingData as well.  It may end the worker at any moment and boots it *)
(* again for the next event.                                               *)
(***************************************************************************)
EXTENDS Integers, Sequences

CONSTANTS
  Proxies,      \* the names in the subscription
  Off,          \* no proxy
  Requests,     \* requests of the browser
  MaxCommands,  \* bound on the clicks in the popup
  MaxKills      \* bound on the ends of the worker

ASSUME ExtensionAssumption ==
  /\ Off \notin Proxies /\ MaxCommands \in Nat /\ MaxKills \in Nat
  /\ Requests \cap Int = {}  \* the handlers have numbers

VARIABLES
  active,        \* storage: activeProxy
  subscribed,    \* storage: there is a subscription
  setting,       \* chrome.proxy.settings: "direct" or "fixed"
  icon,          \* badge text and title of the toolbar icon
  cache,         \* the proxy credentials that Chrome has cached, or Off
  up,            \* the worker runs
  calls,         \* calls on their way, per queue: who made it, and what
  todo,          \* per handler: the calls it makes afterwards
  credentialed,  \* credentialedRequests
  req,           \* per request: where it is, the credentials it has
  refreshing,    \* the popup is fetching the subscription anew
  commands, kills,
  offers,        \* history: answers with credentials, per request
  cut,           \* history: the worker ended during the last command
  overtaken,     \* history: "Disable" was clicked before an earlier apply was done
  crossed        \* history: the cache was flushed with an older answer on its way

storage == <<active, subscribed>>
chrome == <<setting, icon, cache>>
worker == <<up, calls, todo, credentialed>>
requests == <<req, offers>>
counters == <<commands, kills>>
history == <<cut, overtaken, crossed>>
vars == <<storage, chrome, worker, requests, refreshing, counters, history>>

Boot == 0                    \* the handler that runs when the worker boots
Commands == 1..MaxCommands   \* ... and those of the popup's messages
Gone == -1                   \* the maker of a call that has ended since
Queues == {"storage", "browser"}
Call(op, val) == [op |-> op, val |-> val]
QueueOf(call) == IF call.op \in {"get", "set"} THEN "storage" ELSE "browser"

TypeOK ==
  /\ active \in Proxies \cup {Off} /\ subscribed \in BOOLEAN /\ refreshing \in BOOLEAN
  /\ setting \in {"direct", "fixed"} /\ cache \in Proxies \cup {Off}
  /\ up \in BOOLEAN /\ credentialed \subseteq Requests
  /\ icon \in [text : Proxies \cup {Off}, title : Proxies \cup {Off}]
  /\ req \in [Requests -> [at : {"new", "sent", "challenged", "asked", "answered", "over"},
                           as : Proxies \cup {Off}]]

\* The browser has just started, or the extension has been updated: what the
\* user last chose, perhaps with the credentials in the cache, a plain icon.
Init ==
  /\ active \in Proxies \cup {Off} /\ setting = (IF active = Off THEN "direct" ELSE "fixed")
  /\ subscribed = TRUE /\ refreshing = FALSE
  /\ icon = [text |-> Off, title |-> Off] /\ cache \in {Off, active}
  /\ up = FALSE /\ calls = [q \in Queues |-> <<>>]
  /\ todo = [h \in {Boot} \cup Commands |-> <<>>] /\ credentialed = {}
  /\ req = [r \in Requests |-> [at |-> "new", as |-> Off]]
  /\ offers = [r \in Requests |-> 0]
  /\ commands = 0 /\ kills = 0 /\ cut = FALSE /\ overtaken = FALSE /\ crossed = FALSE

-----------------------------------------------------------------------------
(* The handlers of the worker, each the calls it awaits in turn.           *)

\* reflectState.
Reflect(p) ==
  IF p # Off THEN <<Call("colour", p), Call("text", p), Call("title", p)>>
  ELSE <<Call("text", Off), Call("title", Off)>>

\* Mutant: the cached credentials stay.
ApplyProxy_Unflushed(p) ==
  <<Call("set", p), Call("setting", "fixed")>> \o Reflect(p)

\* Mutant: the icon is painted with the first call.
ApplyProxy_PaintsFirst(p) ==
  Reflect(p) \o <<Call("set", p), Call("setting", "fixed"), Call("flush", Off)>>

ApplyProxy(p) ==
  <<Call("set", p), Call("setting", "fixed")>> \o Reflect(p) \o <<Call("flush", Off)>>

ClearProxy == <<Call("set", Off), Call("setting", "direct")>> \o Reflect(Off)

Made(by, call) == [by |-> by, call |-> call]
Running(h) == \E q \in Queues : \E i \in DOMAIN calls[q] : calls[q][i].by = h
\* The flush is the last call of an apply, and of no other handler.
Applying(h) ==
  \/ \E i \in DOMAIN todo[h] : todo[h][i].op = "flush"
  \/ \E i \in DOMAIN calls["browser"] :
       calls["browser"][i] = Made(h, Call("flush", Off))

\* Handler h makes the first of its calls and keeps the rest for later.
Goes(h, script, queues) ==
  IF script = <<>> THEN calls' = queues /\ UNCHANGED todo
  ELSE /\ calls' = [queues EXCEPT ![QueueOf(Head(script))] = Append(@, Made(h, Head(script)))]
       /\ todo' = [todo EXCEPT ![h] = Tail(script)]

BootWorker ==
  /\ ~up /\ up' = TRUE
  /\ Goes(Boot, <<Call("get", Off)>>, calls)
  /\ UNCHANGED <<storage, chrome, credentialed, requests, refreshing, counters, history>>

\* The end of the worker: what it has asked for still happens, but nobody
\* goes on from there; a request that waits for its answer goes without.
Kill ==
  /\ up /\ kills < MaxKills /\ kills' = kills + 1
  /\ up' = FALSE /\ credentialed' = {}
  /\ cut' = (cut \/ \E h \in Commands : Running(h))
  /\ calls' = [q \in Queues |-> [i \in DOMAIN calls[q] |-> [calls[q][i] EXCEPT !.by = Gone]]]
  /\ todo' = [h \in DOMAIN todo |-> <<>>]
  /\ req' = [r \in Requests |-> IF req[r].at = "asked" THEN [req[r] EXCEPT !.at = "over"] ELSE req[r]]
  /\ UNCHANGED <<storage, chrome, offers, refreshing, commands, overtaken, crossed>>

-----------------------------------------------------------------------------
(* The popup.                                                              *)

Click == commands < MaxCommands /\ commands' = commands + 1

\* A message that the worker answers with the calls of a script.
Command(script) ==
  /\ up /\ Click
  /\ Goes(commands + 1, script, calls)
  /\ cut' = FALSE
  /\ UNCHANGED <<storage, chrome, up, credentialed, requests, refreshing, kills>>

SelectProxy(p) ==
  /\ subscribed /\ Command(ApplyProxy(p))
  /\ overtaken' = FALSE /\ crossed' = FALSE

\* The button is there as the popup was rendered before a running command.
DisableProxy ==
  /\ active # Off \/ \E h \in Commands : Running(h)
  /\ Command(ClearProxy)
  /\ overtaken' = \E h \in Commands : Applying(h)
  /\ UNCHANGED crossed

others == <<active, chrome, worker, requests, kills, history>>

AddSubscription ==
  ~subscribed /\ subscribed' = TRUE /\ Click /\ UNCHANGED <<refreshing, others>>
RemoveSubscription ==
  subscribed /\ subscribed' = FALSE /\ Click /\ UNCHANGED <<refreshing, others>>

\* getState, then the fetch; a popup that is closed meanwhile stores nothing.
RefreshBegins ==
  subscribed /\ ~refreshing /\ refreshing' = TRUE /\ Click /\ UNCHANGED <<subscribed, others>>
RefreshStores ==
  refreshing /\ refreshing' = FALSE /\ subscribed' = TRUE /\ UNCHANGED <<commands, others>>
PopupCloses ==
  refreshing /\ refreshing' = FALSE /\ UNCHANGED <<subscribed, commands, others>>

-----------------------------------------------------------------------------
(* The browser serves the calls.                                           *)

First(q) == calls[q][1]

\* A call of an awaiting handler: its effect, and the handler goes on.
Serve(q) ==
  /\ calls[q] # <<>> /\ First(q).by \notin Requests
  /\ LET call == First(q).call
         h == First(q).by
         script == IF h = Gone THEN <<>> ELSE IF call.op = "get" THEN Reflect(active) ELSE todo[h]
         left == [calls EXCEPT ![q] = Tail(@)]
     IN  /\ active' = (IF call.op = "set" THEN call.val ELSE active)
         /\ setting' = (IF call.op = "setting" THEN call.val ELSE setting)
         /\ icon' = (IF call.op \in {"text", "title"} THEN [icon EXCEPT ![call.op] = call.val] ELSE icon)
         /\ cache' = (IF call.op = "flush" THEN Off ELSE cache)
         /\ crossed' = \/ crossed
                       \/ /\ call.op = "flush"
                          /\ \E r \in Requests : req[r].at = "answered" /\ req[r].as # active
         /\ Goes(h, script, left)
  /\ UNCHANGED <<subscribed, up, credentialed, requests, refreshing, counters, cut, overtaken>>

-----------------------------------------------------------------------------
(* Requests, and onAuthRequired.                                           *)

Becomes(r, at, as) == req' = [req EXCEPT ![r] = [at |-> at, as |-> as]]

RequestStarts(r) ==
  /\ setting = "fixed" /\ req[r].at = "new" /\ Becomes(r, "sent", cache)
  /\ UNCHANGED <<storage, chrome, worker, offers, refreshing, counters, history>>

\* A request ends, by its answer or by the user: forgetRequest.
RequestEnds(r) ==
  /\ req[r].at \notin {"new", "over"} /\ Becomes(r, "over", Off)
  /\ credentialed' = credentialed \ {r}
  /\ UNCHANGED <<storage, chrome, up, calls, todo, offers, refreshing, counters, history>>

\* PIO answers 407, to a request without credentials or with old ones.
Reject(r) ==
  /\ req[r].at = "sent" /\ Becomes(r, "challenged", Off)
  /\ cache' = (IF cache = req[r].as THEN Off ELSE cache)
  /\ UNCHANGED <<storage, setting, icon, worker, offers, refreshing, counters, history>>

\* Mutant: a request is answered however often it asks.
OnAuthRequired_Again(r) ==
  /\ up /\ req[r].at = "challenged" /\ Becomes(r, "asked", Off)
  /\ calls' = [calls EXCEPT !["storage"] = Append(@, Made(r, Call("get", Off)))]
  /\ UNCHANGED <<storage, chrome, up, todo, credentialed, offers, refreshing, counters, history>>

\* A challenge that comes back after credentials cancels the request.
OnAuthRequired(r) ==
  /\ up /\ req[r].at = "challenged"
  /\ IF r \in credentialed
     THEN Becomes(r, "over", Off) /\ credentialed' = credentialed \ {r} /\ UNCHANGED calls
     ELSE /\ Becomes(r, "asked", Off) /\ UNCHANGED credentialed
          /\ calls' = [calls EXCEPT !["storage"] = Append(@, Made(r, Call("get", Off)))]
  /\ UNCHANGED <<storage, chrome, up, todo, offers, refreshing, counters, history>>

\* The rest of onAuthRequired, once it has the active proxy; the request may
\* have ended in the meantime.  Without a proxy the browser asks its user.
Offer(r) ==
  /\ calls["storage"] # <<>> /\ First("storage").by = r
  /\ calls' = [calls EXCEPT !["storage"] = Tail(@)]
  /\ credentialed' = IF active # Off THEN credentialed \cup {r} ELSE credentialed
  /\ IF req[r].at = "asked" /\ active # Off
     THEN Becomes(r, "answered", active) /\ offers' = [offers EXCEPT ![r] = @ + 1]
     ELSE Becomes(r, "over", Off) /\ UNCHANGED offers
  /\ UNCHANGED <<storage, chrome, up, todo, refreshing, counters, history>>

\* Chrome takes the answer: it caches the credentials and sends them.
TakeAnswer(r) ==
  /\ req[r].at = "answered" /\ Becomes(r, "sent", req[r].as)
  /\ cache' = req[r].as
  /\ UNCHANGED <<storage, setting, icon, worker, offers, refreshing, counters, history>>

-----------------------------------------------------------------------------
Next ==
  \/ BootWorker \/ Kill
  \/ DisableProxy \/ \E p \in Proxies : SelectProxy(p)
  \/ AddSubscription \/ RemoveSubscription \/ RefreshBegins \/ RefreshStores \/ PopupCloses
  \/ \E q \in Queues : Serve(q)
  \/ \E r \in Requests :
       \/ RequestStarts(r) \/ RequestEnds(r) \/ Reject(r)
       \/ OnAuthRequired(r) \/ Offer(r) \/ TakeAnswer(r)

Spec == Init /\ [][Next]_vars

-----------------------------------------------------------------------------
(* Properties.                                                             *)

\* The worker runs and has nothing left to do.
Idle == up /\ \A q \in Queues : calls[q] = <<>>

\* Rejected credentials are not sent again for the same request, whatever the
\* commands and requests meanwhile, but by a new worker, which has forgotten;
\* the proxy's deny-list counts them (background.js:16-20).
OfferedOnce == \A r \in Requests : offers[r] <= 1 + kills

\* After the last command the browser goes where the storage says, and not
\* with the credentials of an earlier proxy (background.js:63-76): commands may
\* overlap each other and any request.  The two exceptions: a worker that ended
\* within the command, and an answer that was on its way during the flush.
SwitchTakesEffect ==
  Idle /\ ~cut =>
    /\ setting = "fixed" <=> active # Off
    /\ active # Off /\ ~crossed /\ (\A r \in Requests : req[r].at # "answered")
         => cache \in {Off, active}

\* The icon shows the stored state, after commands, the end of a worker within
\* one, and a boot that read the state just before a command changed it
\* (background.js:23-26, 106-108), unless "Disable" overtook an apply.
IconShowsStored ==
  Idle /\ ~overtaken => icon = [text |-> active, title |-> active]

\* The icon shows the stored state even then (background.js:106-108).
IconAlwaysTrue == Idle => icon = [text |-> active, title |-> active]

\* A switch takes effect at once, whatever answer was on its way
\* (background.js:63-64).
CacheAlwaysFlushed ==
  Idle /\ ~cut /\ active # Off /\ (\A r \in Requests : req[r].at # "answered")
    => cache \in {Off, active}
\* "am I proxied", after a worker that ended within a command as well
\* (background.js:25-26).
IconTellsProxied == Idle => (icon.text # Off <=> setting = "fixed")

\* Ids of finished requests do not stay, "so credentialedRequests stays bounded"
\* (background.js:152).
CredentialedBounded == Idle => \A r \in credentialed : req[r].at # "over"

\* A subscription that was removed is not back unless somebody adds it
\* (popup.js:94-97, 192-194).
RemovedStaysRemoved == [][~subscribed /\ subscribed' => refreshing' = refreshing]_vars

=============================================================================
