# Verification of pio

TLA+ models of `piod`, the daemon of this repository, and of the Chrome extension that goes with it. The
daemon is a forward proxy that maps local users to upstream proxies, keeps the mapping in SQLite, routes
connections from an in-memory snapshot, and can change the mapping while connections are open. The
interesting part is concurrency: REST handlers, a sync ticker, several goroutines per connection, an
accept loop and a WebSocket hub share a table, a registry, a deny-list and a database, and each step of
one may meet any step of another, or the end of the process.

Line numbers refer to `src/`. TLC checks the modules on small instances (`MC*.tla`, `MC*.cfg`); TLAPS
proves the theorems of `*_proofs.tla` for every value of the constants. `PROJECT.json` lists the runs,
the mutated definitions that show each property can fail, and the lines every definition stands for.

    tlc -workers 2 -config MCHub.cfg MCHub
    tlapm Registry_proofs.tla

## The system

| Part | State | Operations | What is hard |
|---|---|---|---|
| Database (`internal/repo`, `internal/store`) | `upstream_proxies`, `local_users`, `settings`, `api_keys` | one statement or transaction per call; `ON DELETE SET NULL` on a user's upstream | checks made in a statement before the transaction that relies on them |
| Routing table (`internal/routing`) | an immutable `RoutingState` behind a pointer; a `CancelGroup` per user; `mappingChangeMu` | `Hydrate` (three reads, no mutex), `SwapUserMapping`, `RebuildAfterSync`, `RebuildForUpstreamChange` | lost updates, torn reads, which tunnels a change must end |
| REST API (`internal/api`) | none | users, keys, manual proxies, settings, start/stop | every handler is a chain of database, table and registry calls that others interleave with, and that a departed client cuts short |
| Sync (`internal/cli/run.go`, `internal/sync`) | one row per proxy, its number in the display name; `last_sync_error` | `SyncKey` by the ticker, by `POST /keys/{id}/sync` and by the loop after a replacement; then a rebuild | nothing keeps two syncs of one key apart; names of two forms, and edited ones; rows that disappear and return |
| Webshare client (`internal/webshare`) | none | `ListProxies` page by page with retries, `Replace` once | the account changes between two pages, and shifts them; a replacement is carried out later, or after its answer was lost |
| Proxy protocols (`internal/listener`) | one handler goroutine per connection | gate, sniff, authenticate, `Acquire`, `Register`, dial, `Bridge` or plain exchange, `Deregister` | a connection is invisible to sweeps between `Acquire` and `Register`; a dozen error paths that close sockets by hand |
| Tunnels (`internal/tunnel`) | two sockets, two relays and a watcher per tunnel | `DialUpstream` directly or through an HTTP, HTTPS or SOCKS5 proxy; `Bridge` | half-close, reset and stalled peers; a cancellation in any phase; data that comes before the bridge |
| Connection registry (`internal/registry`) | a map by id and an index by user and upstream | `Register`, `Deregister`, three `CloseBy...` | two maps in step; cancel functions called after the unlock, of connections that have come and gone since |
| Deny-list (`internal/auth`) | failure stamps and ban starts per address | `IsDenied`, `RecordFailure` | clocks read outside the lock |
| Listener set (`internal/cli/listenerset.go`) | the running proxy | `Start`, `Stop`, settings, boot, shutdown | sockets closed outside the mutex, waits for handlers |
| Hub (`internal/ws`) | a bounded channel per WebSocket client | `Broadcast`, pump, cleanup, `Close` | closing channels other goroutines send on |
| Data directory (`internal/store`, `internal/crypto`) | `master.key`, the record of applied migrations, the user rows and their positions | `LoadOrCreate`, `Open`, seeding, users and their order | `piod add-key` may open it beside the daemon; either may die between two steps; three files rebuild a table that users refer to |
| Chrome extension (`extension`) | `chrome.storage.local`, proxy setting, icon, credential cache, `credentialedRequests` | apply, clear, boot, `onAuthRequired`; the popup's commands and subscription | handlers interleave at every `await`; the browser ends the worker at will |
| Admin web, macOS app | sessions; a child process | login, launch | see "Not modelled" |

## Modules

* **RoutingTable** — pure: the shape of a `RoutingState` and how `Hydrate`, `SwapUserMapping` and the
  rebuilds compute the next one; `buildDisplayNameRoutes`; `tunnel.Acquire`. An upstream row is its
  connection tuple (an element of `Defs`) and its display name. A `CancelGroup` is the pair of a user
  and the number of the build that made it.
* **HotSwitch** — extends RoutingTable with the database (`dbUp`, `dbUser`, `dbUniv`, `dbKey`), the
  published snapshot (`mem`), the mutex (`mu`), requests and connections. A request is one handler
  goroutine (or one tick of the sync loop); `req[r].pc` is where it is, `local` what it has read. Its
  steps are split wherever another goroutine can run in between with an effect: at every database
  statement, at the lock, at the swap, at the callbacks. `Lock` includes the snapshot that follows it,
  `CancelOld` includes the unlock. `Abort` is the cancellation of the request's context when its client
  leaves; it strikes only where the code passes the context on. `Restart` is a crash and a new start.
* **LiveConnections** — what a connection registry promises, with no index.
* **Registry** — `internal/registry` split at the mutex and at each `CancelFunc`; it implements
  LiveConnections under the mapping written at the head of the module. A connection carries the
  CancelFunc of its own context (`CancelFuncs`: the goroutine and the number of its connection), which
  is what a close call takes out of the lock, as `registry.go:93-96` does, and what the abstract
  registry is about; an id is drawn from the atomic counter and only names an entry. The code's index
  key is the string `user + "|" + upstream`; the model uses the pair, which is the same thing because no
  upstream id contains `|`.
* **DenyList** — `internal/auth` with callers that read the clock, are delayed by at most `Delay`, and
  then take the lock; the proxy port passes the gate twice (`unified.go:141`, `http_proxy.go:133`,
  `socks5.go:135`), the subscription once.
* **ListenerSet** — the listener lifecycle: `listenerSet`, the handlers around it, the accept loop, its
  watcher and its handlers, and the end of `runDaemon`. Every successful bind is a new instance. The
  environment overrides at boot (`run.go:90-97`) only choose the initial settings row.
* **Hub** — `internal/ws`: `Broadcast` and `Close` are atomic under `Hub.mu`; each client's pump is not.
* **KeySync** — `SyncKey` of one API key and the loop after a replacement. The Webshare account
  (`account`, `geo`, `pending`) changes on its own; `rows` is the table's part of this key; `call[s]` is
  how far the call of a goroutine is: `list` (a page per step; how Webshare's `next` selects a page is
  external, and the model takes the positions after those already read, in the list as it is at the
  fetch, as `page_size` suggests: a proxy that leaves an earlier page moves the later ones forward, one
  that joins there moves them back, so one may be missed and one listed twice), `write` (the
  transaction, one step, because SQLite makes it one), and for a replacement `resync`, `check` and
  `report`. A name is its three parts, so the regular expressions become "the middle part is a country"
  and "the first part is a country". `Numberings` is every result the calls of `next` can have, whatever
  the order of the list. A table that earlier versions left behind (`OldTables`) may hold old-form and
  edited names, and each number once per country.
* **Pipe** — what a tunnel promises its two ends. The pieces an end sends are numbered; what the other
  end is given is at any time an unbroken run of them, in order. It starts with the first piece, unless
  the end is read through a buffer and lost some before the tunnel opened. Nothing passes before the
  opening or after the shutting. A tunnel may stop with pieces on their way, and then nothing that
  follows them passes.
* **Tunnel** — one connection of the proxy port, from the gate to the last `defer`: the handler (`pc`)
  of a CONNECT, a plain request or a SOCKS5 client, the dial over any of the four kinds of upstream, and
  the goroutines of the exchange (`task`): the two copies, Bridge's watcher (`trip`), and the watch and
  the AfterFunc of a plain request. Sockets have deadlines (`past`), peers send, end, reset, or stop
  reading, and data is a stream of numbered pieces: how far it was read (`taken`), the piece a copy is
  writing (`hand`) and those delivered (`got`), so a copy that skipped or repeated one would be seen. It
  implements Pipe; the credentials, the deny gate and the table, which only decide whether a handler
  goes on, are in DenyList and HotSwitch.
* **Store** — the data directory over installations, upgrades, crashes and two processes: the key file
  (its creation and its write are two steps), each migration with its record in one transaction, the
  seeded row, and what a migration does to `local_users`. A schema is the set of what the files add,
  less what they remove. An old installation is the state any earlier release in `OldReleases` may have
  left.
* **Extension** — the service worker as a set of handlers, each the list of calls it awaits in turn
  (`todo`); the browser serves calls to storage and calls to its other interfaces in the order they were
  made, per interface (an assumption about Chrome). `Kill` ends the worker with its memory; calls
  already made still happen. A request is challenged by PIO, answered by `onAuthRequired`, and rejected
  when the credentials are old. Every PIO proxy has the same host and port, so a proxy is its user name.
* **Registry_proofs**, **HotSwitch_proofs**, **KeySync_proofs**, **Tunnel_proofs**,
  **ListenerSet_proofs**, **Store_proofs**, **DenyList_proofs** — theorems and lemmas, each about the
  component in its name. **Browser_proofs** — those about the two components with a browser at the other
  end: it extends both, which is why Hub's specification is called `HubSpec`.

Definitions whose name ends in `_Something` after the name of another (`Lock_SkipsFence`) are mutated
versions of it, marked "Mutant". They appear in no specification.

## Runs

| Run | What is asked | Instance |
|---|---|---|
| `locked` | `TableMatchesDb`, `PublishedIsDurable` | three requests of ten kinds, two users, four upstream ids, a restart at any step; kinds that hydrate run alone (`HydratesOverlap = FALSE`), the others overlap |
| `teardown` | `TypeOK`, `SurvivorsRegisteredLate`, `StaleTunnelsEnd`, `RequestsEnd` | two overlapping requests of the kinds `remap`, `patchManual`, `deleteManual` and `syncTick`, two users (one mapped to the Webshare proxy, which a sync may remove), one connection, fairness |
| `handlers` | `SnapshotCoherent`, `DbConsistent` | three overlapping requests, hydrating ones, `DELETE /keys` and `PATCH /upstreams` included, one abort, proxies that come back |
| `registry` | `IndexConsistent`, `Implements` | two registering goroutines, one closer, two users, two upstreams, four ids |
| `denylist` | `NoMissedBan`, `BanJustified`, `BanHolds` | four goroutines of one address, threshold 2, window 3, ban 4, delay 1, clock to 7 |
| `listeners` | `SocketsReleased`, `StopDrains`, `RestartRestores`, `ShutdownEndsTunnels` | two requests of three kinds, two addresses, one connection, one failing `Accept`, one restart, fairness |
| `hub` | `RegisteredIsOpen`, `NoGap`, `DroppedClientsEnd` | two clients, channels of 2, five events, fairness |
| `sync` | `NamesDistinct`, `SlotReclaimed`, `DeletionsExplained`, `Mirrored`, `ReplaceEnds` | the ticker and a replacement on one key, three proxies in two countries, one to a page, two or all three of them in the account at the start, an old-form name in the table, one change from outside (a proxy joins, leaves, is relocated, or its row is renamed), one failure, two attempts, fairness |
| `tunnel` | `NothingLeft`, `OpenIsListed`, `Implements`, `SentArrives`, `CancelEnds`, `EitherEndEnds` | three kinds of client over four kinds of upstream, two pieces of data from each peer, one cancellation, fairness |
| `store` | `SchemaCurrent`, `SecretsReadable`, `OrderAsArranged`, `MappingsKept`, `BootsInTheEnd` | a fresh directory or one of the releases 3, 9 and 10; the daemon and a command, two ends of a process, three changes, three users, fairness |
| `extension` | `OfferedOnce`, `SwitchTakesEffect`, `IconShowsStored` | two proxies, three commands that may overlap, one request, one end of the worker |
| `hydrate_race` | `AddedUserKnown` **fails** | a remap and an addUser |

The failing run states what a comment of the repository says; `PROJECT.json` quotes the line beside what
the code does. Its counterexample is short and was read against the code.

Why these bounds: a lost update needs two writers of the table, a torn `Hydrate` needs three requests
(one hydrating, one that inserts an upstream, one that maps a user to it), and a missed teardown needs a
connection and two requests. Two definitions (`t1`, `t2`), two names and an initial database with a
mapped manual proxy (`m1`), a mapped Webshare proxy (`w1`, its name edited away) and a free id (`m2`)
make every branch of the rebuilds happen. In the deny-list three failures reach a threshold of 2 before
and after a ban, with stamps out of order; MaxTime lets a ban expire and be re-imposed. In the hub a
buffer of 2 and five events fill a channel while its pump is writing, and drain it again. In `sync` two
callers are enough for a list fetched early to be applied late; of the three proxies two share a
country, so that a number can be contested, and sit on different pages, so that a listing can be torn
and shifted (the code's pages have 100). Beside the bounded changes from outside, a replacement changes
the account as well. Two attempts stand for the six of the code: one that finds the old proxy and one
that ends the loop. In `tunnel` one connection suffices, because connections share nothing but what
HotSwitch and Registry model; of two pieces per direction one can be lost with a head, or be stuck in a
write, while the other waits in a buffer. In `store` releases 3, 9 and 10 are those from before each of
the three files that rebuild the table; a second end of a process allows a crash during the recovery
from a crash. In `extension` three commands are what it takes to switch, switch back and disable while a
request is being answered.

`regVer` and `ver` (HotSwitch), `since` and `until` (DenyList), `joined` and `received` (Hub) and
`overlap` (ListenerSet), `absent`, `departed` and `moved` (KeySync), `got` (Tunnel), `arranged` and
`added` (Store), `offers`, `cut`, `overtaken` and `crossed` (Extension) are history: no action depends
on them. Requests, connections and commands are finite, each is served once, so the systems stop and
deadlock is not checked; that no request is stuck is `RequestsEnd`.

`remap` and `password` are `PATCH /users/{username}` with one of its two fields. With both in one body
the handler hydrates and then remaps; that instance (`Kinds` with `patchUser`) passes as well but takes
several minutes, so the listed runs use the two restrictions.

### What the code does not promise

Further statements of comments or documents that the code does not keep. They are stated at the end of
the modules, each with a configuration that shows the counterexample. They are not among the runs, which
are about what the system does keep (with `-continue` TLC reports each of those that share a
configuration).

| Statement | Where | Configuration |
|---|---|---|
| `NoTunnelToOldTarget`: a connection that has acquired but not yet registered survives a remap on its old target | `README.md:57`, `listener/http_proxy.go:158` | `MCHotSwitch_claims.cfg` |
| `RemovedUpstreamDrained`: the rebuild after an edit of a manual proxy publishes the removals of a sync as well but cancels the tunnels of the edited proxy only; the sync's rebuild finds the users broken already and passes them over | `routing/swap.go:129`, `routing/swap.go:163` | `MCHotSwitch_claims.cfg` |
| `SurvivorsRegisteredLate` when a client leaves (the `teardown` instance with one abort): the request's context ends between the commit and the rebuild, and a later rebuild publishes the edit without cancelling the tunnels to the old tuple | `api/server.go:421` | `MCHotSwitch_abort.cfg` |
| `UniversalPasswordInEffect`: a rebuild republishes the universal password it captured | `api/server.go:705`, `routing/swap.go:179` | `MCHotSwitch_claims.cfg` |
| `UnmappedIsBroken`: a proxy that is dropped and returns before the next rebuild un-breaks its unmapped user in memory | `sync/sync.go:173`, `routing/swap.go:154` | `MCHotSwitch_claims.cfg` |
| `SharedNameNotRouted`: a rename does not rebuild the table | `README.md:29`, `api/server.go:507` | `MCHotSwitch_claims.cfg` |
| `RunningIsServing`: after a failing `Accept` the set still reports running | `cli/listenerset.go:29`, `listener/unified.go:117` | `MCListenerSet_accept.cfg` |
| `RunningIsEnabled`: `PUT /settings` writes back a `proxy_enabled` that a start has changed since | `api/server.go:759` | `MCListenerSet_settings.cfg` |
| `BoundAsConfigured`: the test of running and the write of the address are two steps | `cli/listenerset.go:22`, `api/server.go:743` | `MCListenerSet_settings.cfg` |
| `StartIdempotent`: `0.0.0.0` and `localhost` never equal the bound address | `cli/listenerset.go:37` | `MCListenerSet_idempotent.cfg` |
| `DeletedHasLeft`: two syncs of one key, the older list applied last, delete the row of a proxy that is in the account, with all of the account on one page (its user is unmapped; the next sync brings the row back, not the mapping) | `sync/sync.go:42` | `MCKeySync_overlap.cfg` |
| `OnlyAbsentDeleted`: the first page is read and its proxy leaves the account; the second page now starts behind the proxy that has moved up, and the transaction deletes the row of that one, which never left (its user is unmapped; the next sync brings the row back, not the mapping). A `next` that did not count positions would not shift | `sync/sync.go:171`, `webshare/client.go:194` | `MCKeySync_shift.cfg` |
| `NameStableAcrossReplace`: a replacement takes a lower number that an earlier departure left free | `sync/displayname.go:86` | `MCKeySync_gap.cfg` |
| `ErrorRecorded`: a failing transaction leaves `last_sync_error` as it was | `sync/sync.go:71` | `MCKeySync_claims.cfg` |
| `FreshNameUnused`: a number is taken from the rows of the new country only, so a renamed row of another one may bear the name already | `sync/sync.go:263` | `MCKeySync_claims.cfg` |
| `ShutdownEnds`: a handler that registers after the sweep of a shutdown keeps the daemon alive | `cli/run.go:408` | `MCListenerSet_hang.cfg` |
| `BridgeStartsClean`: what a target sends along with the answer to CONNECT is dropped with the reader | `tunnel/tunnel.go:116`, `tunnel/tunnel.go:275` | `MCTunnel_early.cfg` |
| `SecretsReadable` when the very first start is not alone: both processes generate a key | `crypto/master_key.go:21` | `MCStore_two_starts.cfg` |
| `UpgradeKeepsMappings`: files 4 and 10 unmap every user (the foreign key acts on `DROP TABLE`) | `0004_manual_proxies.sql:11`, `0010_direct_proxy.sql:11` | `MCStore_upgrade.cfg` |
| `UnmappedIsFlagged`: they leave `broken` at 0 | `0001_init.sql:50` | `MCStore_claims.cfg` |
| `UnlistedFollow`: users that a reorder leaves out keep positions among the listed ones | `repo/users.go:112` | `MCStore_claims.cfg` |
| `IconAlwaysTrue`: a "Disable" that overtakes an apply leaves the icon of the proxy | `background.js:106` | `MCExtension_claims.cfg` |
| `CacheAlwaysFlushed`: an answer that was on its way during the flush fills the cache with the old name | `background.js:63` | `MCExtension_claims.cfg` |
| `IconTellsProxied`: a worker that ended between storage and setting is not repaired at boot | `background.js:25` | `MCExtension_claims.cfg` |
| `CredentialedBounded`: an id is added after its request has ended | `background.js:152` | `MCExtension_claims.cfg` |
| `RemovedStaysRemoved`: a refresh that was under way brings a removed subscription back | `popup.js:94` | `MCExtension_claims.cfg` |
| `CloseEndsAll`: `Close` takes an event from a non-empty channel instead of closing it | `ws/hub.go:114` | `MCHub_close.cfg` |

## Fairness

* HotSwitch: strong fairness of each handler. A handler blocked on `mappingChangeMu` is enabled again
  and again while others pass; Go's mutex hands itself to a waiter that has starved for 1 ms. Weak
  fairness of `TornDown`: a cancelled context sets deadlines on both sockets (`tunnel.go:444-502`). None
  for clients, administrators, `Abort` or `Restart`.
* Hub: weak fairness of each pump; a write has a deadline of 5 s (`hub.go:98`). None for `Broadcast`,
  `Close` or the peers.
* ListenerSet: weak fairness of the daemon's own goroutines and of handshakes, which have deadlines of
  10 s. None for the peers of an established tunnel: it may last for ever.
* KeySync: weak fairness of the ticker's own steps (`run.go:381-403`) and of the replacement handler's,
  each of whose waits has a limit. None for `POST /keys/{id}/sync`, for Webshare, for administrators or
  for failures. `Mirrored` is about runs whose changes end; the bound on changes says they do, and
  `ReplaceEnds` holds whether or not Webshare carries the replacement out.
* Tunnel: weak fairness of the handler's steps (every wait for a head, a handshake or a dial has a
  deadline), of each copy and of the helpers, which are goroutines of their own. None for the peers, for
  the end of an HTTP message, or for `Cancel`. `SentArrives` excepts what no relay can help: a
  cancellation, a sender that is reset, a receiver that has ended its own stream or stops reading.
  `EitherEndEnds` therefore excepts a peer that takes no data: a blocked write has no deadline by
  itself, only a cancellation sets one.
* Store: the daemon is started again whenever it has ended, and a process that runs goes on. None for
  the command, for ends of a process or for administrators.
* Extension: none; its properties are safety, about moments when the worker has nothing left to do.

## Proofs

`Registry_proofs` proves `TypeOK`, `IndexConsistent` and that Registry implements LiveConnections, for
any sets of goroutines, users and upstreams. `IndexConsistent` is not inductive by itself: that a drawn
id is not yet in the map, that two owners never hold the same id and that a registered owner's entry is
the one it stored is `OwnersHold`. For the refinement `CancelsHold` adds that the entry of an owner has
the CancelFunc of that owner's latest connection. Every action is mapped: `DrawId` is invisible (a
connection counts as opened once it is stored), `Store` is `Open`, `Deregister` is `End`, `Collect` is
`Close`, and each `CancelFunc` is one `Cancel`; that `Collect` through the index selects what a scan
would (`CollectedIsSelected`) rests on `IndexConsistent`.

`HotSwitch_proofs` proves `TypeOK`, `DbConsistent` and `SnapshotCoherent` of the whole control plane:
any number of requests, aborts and crashes. Coherence of the published table depends on what is still in
flight, so the invariant follows every request: `DbPart` (types and consistency of the database),
`MemPart` (the published table is coherent), `ReqPart` (each request holds, at each step, the locals of
that step; a captured table is coherent; the victims of a rebuild were users of it) and `ConnPart`. A
mapping that `SwapUserMapping` installs is that of an upstream the captured table had, which is why
coherence survives although the database may have lost the row. No ordering between Hydrate's three
reads is needed: the guard at `routing.go:211` is enough.

The second half of `HotSwitch_proofs` relates the two tables and the tunnels, again for any number of
requests, users, upstreams, connections and crashes: `PublishedIsDurable`, `TableMatchesDb` and
`SurvivorsRegisteredLate`. Each speaks of moments when no handler is at work (or of the next crash), so
what is inductive is about handlers in the middle of theirs, on top of `Inv`:

* `Control`: a handler from `persist` to `cancel` holds the mutex; the table it captured is still the
  published one; a handler that hydrates is alone, where the instance says so.
* `Following`: a user's published upstream is that of its row, or of a row that is gone and has unmapped
  it, or a remap is between its write and its publication; a user or universal password that differs is
  that of a handler whose hydration is ahead; what a handler has read still holds.
* `Fresh`: the published upstreams are the database's, or a rebuild is still to list them, or has just
  listed them so. Who listed too early has somebody waiting for the mutex behind it.
* `Edited`: the tuple of a manual proxy in the table, or in a listing, lags behind the database only
  while the handler that edited the row has its own rebuild ahead. An edit of somebody else's cannot
  hide it.
* `Tunnels`: a tunnel registered in time leaves where the table routes it, or it is cut, or some handler
  is still to sweep it (by its `CancelGroup`, by user and upstream, or by upstream).

Their hypotheses are about constants, that is, about the instance; each is needed, and a configuration
shows what happens otherwise:

| Hypothesis | Theorems | Without it |
|---|---|---|
| handlers that hydrate run alone (`~HydratesOverlap`) | `PublishedSurvivesCrash`, `TableFollowsDatabase` | `hydrate_race`; `UniversalPasswordInEffect` |
| Webshare's ids do not come back (`~IdsReturn`) | `PublishedSurvivesCrash`, `TableFollowsDatabase` | `UnmappedIsBroken` |
| no client leaves midway (`MaxAborts = 0`) | `PublishedSurvivesCrash`, `TableFollowsDatabase` | a departed client's change is in the database and not in the table |
| no `deleteKey`, no `patchUpstream` (`Rebuilding`) | `TableFollowsDatabase` | neither rebuilds the table: `SharedNameNotRouted` |
| no client leaves midway, or no manual proxy is edited or deleted (`EditsComplete`) | `StaleTunnelsReached` | `MCHotSwitch_abort.cfg`: the rebuild that would have closed the tunnels of an edited proxy is not run |
| no kind that hydrates | `StaleTunnelsReached` | a deleted user's tunnels are closed before the table forgets the user, so one may come in between |

`SurvivorsRegisteredLate` excepts `OrphanedByEdit`, the tunnels `RemovedUpstreamDrained` is about, which
the proof attempt brought to light; in an instance without `patchManual` it excepts none.

`KeySync_proofs` proves of any account, any table an earlier version may have left, any number of
overlapping callers: `TypeOK`; `NamesDistinct`, if administrators give only names that have no generated
form (`RenamesPlain`; `MCKeySync_claims.cfg` shows what happens otherwise); `SlotReclaimed`, under the
same hypothesis (an administrator who gives a name of that form takes the freed number away); and
`DeletionsExplained`. Two rows with one name are two rows with one country and one number, unless the
name was given, so what is inductive is about numbers: `NumbersDistinct` (rows of one country with
generated names, of either form, have different numbers) together with `Placed` and `RowsPlaced` (a row,
and an entry of a list, is in the country where its proxy is, unless it was relocated) and `Listed`
(what a call has not listed was out of the account at some moment since it began, or is behind the pages
it has read, or one with a lower `Rank` has left and shifted it), on which `DeletionsExplained` rests:
as long as nobody ahead of a proxy leaves, its position never falls. `SlotReclaimed` is about one step,
a commit that deletes a row and inserts another: what is left of the country's rows after the deletion
has no row with the freed number (`NumbersDistinct`), so that number is the lowest free one when no
lower one is. TLC has checked these conjuncts before the proof.

`Tunnel_proofs` proves, for every protocol on either side and any amount of data, `TypeOK`,
`NothingLeft`, `OpenIsListed` and that Tunnel implements Pipe. None is inductive. `Streamed` says where
the pieces that were read from a stream are, as long as its copy has not ended: lost, delivered, or in
the hands of the copy that is writing the next one. It gives the types of the data and, in the
refinement, that a delivery is of the piece after the last one. `SocketsKnown` and `TasksKnown` say, per
place of the handler, which sockets may be open, whether the registry lists it and which goroutines may
run: that a copy in the middle of a write finds the pipe open rests on the latter. For the refinement
reading a head is `Lose`, or `LoseAndOpen` when it is the last thing before a plain request is sent; a
dial or the success answer is `Open`, `Give` is `Deliver`, and every way out of the exchange is `Shut`.

`Browser_proofs` proves of Hub, for any clients, capacity of the channels and number of events,
`RegisteredIsOpen` (so no broadcast sends on a closed channel) and `NoGap`. A stream is three parts,
each of which continues the one before: what the peer has received, what the pump is writing, what the
channel holds (`ReceivedInPlace`, `WritingInPlace`, `BufferedInPlace`). That the next event continues
the last of them is `UpToDate`: the stream of a registered client ends with the last event broadcast.
`Life` says in which combinations of pump, channel and map a client can be, on which the first property
rests.

Of Extension it proves `OfferedOnce`, `SwitchTakesEffect` and `IconShowsStored`, for any proxies,
requests, clicks and ends of the worker. The last two are about moments when the worker has nothing left
to do, so what is inductive says who will have the last word while calls are on their way. `Steps` maps
every action to one of a few moves: an entry enters a queue, leaves it, or turns (its handler makes the
next call). On these:

* `Shape`: a handler that runs has one call on its way (`Own`, `Quiet`), and what it has left to do is a
  rest of `applyProxy`, `clearProxy` or `reflectState` (`StoredShape`, `BrowserShape`).
* `Covered` and `Repainted`: the write of a worker that has ended is followed in the queue by that of a
  command, unless the worker ended within the last one (`cut`), and by somebody who will paint the icon.
* `SettingInv`: a command has still to store, or the last setting in the browser's queue fits the stored
  proxy.
* `CacheInv`: a command has still to store, or an apply has still to be flushed, or the cache and every
  answer under way are those of the stored proxy; an older answer that passes the flush is `crossed`.
* `IconInv`: a handler has still to read or write the stored state, or the stored proxy is painted last
  (`Paints`). The browser serves the handlers in turns, so of two of them the one with more calls before
  its paint paints last, and the later one in the queue if they are level. A handler that comes from the
  storage comes last and is at least as far from its paint as the others, for which two cases need a
  reason: a boot skips the first call of a command, but has the queues to itself (`BootFirst`), and a
  "Disable" has one call less than an apply (`ClearLast`: then it has overtaken one, which the property
  excepts).

`ListenerSet_proofs` proves `SocketsReleased`, `StopDrains` and `RestartRestores` for any requests,
addresses, connections, instances, failing accepts and restarts. The invariant follows an instance:
`Bound` (whatever the set or a stop holds has been bound), `Waited` (a handler runs only while the
accept loop of its instance has not returned), `Drained` (behind the wait of a stop its loop has). For
the row, `Serial` (while no two requests overlap), `ReadIsCurrent` (a handler's copy of the settings is
the row's) and `RowMatches` (the row has the address of what runs and enables it, or a start is about
to) say where in its chain of steps each kind of request restores the agreement.

`Store_proofs` proves `SchemaCurrent`, `MappingsKept`, `OrderAsArranged` and, if the first start is
alone (`Alone`), `SecretsReadable`, for any finite set of users, any old releases, any number of crashes
and changes. The files applied are always the first ones and the schema is theirs (`Prefix`), and a
process that migrates still has to apply whatever the database lacks (`Pending`). The key file has three
phases (`KeyInv`): while there is none, one process runs at most and nothing is stored; an empty one
belongs to the process that is about to write it; a written one holds the key every process carries and
every secret has. `MCStore_two_starts.cfg` shows why `Alone` is needed. `OrderAsArranged` needs no
hypothesis. Positions have gaps after a deletion and are renumbered for the listed users only; what is
inductive (`OrderInv`) is that a listed user has its place in the list as its position (`Arranged`),
that one added since has a larger one than all who were there (`Behind`: `MAX` and not the number of
rows), and that a database in which somebody has arranged or added anything has all its files applied
(`Settled`), so that no start runs file 2 again.

`DenyList_proofs` proves `NoMissedBan`, `BanJustified` and `BanHolds` for any addresses, goroutines,
threshold, window, ban and delay, and without an end of time. The history `since` has every failure
since the last ban, while the code keeps a list it trims from the front, whose order the delays have
disturbed. The invariant compares the two: the list is the rest of the history (`Rest`), what was
dropped is too old to share a window with any failure still to come (`Forgotten`), and no stamp is out
of order by more than a delay (`Ordered`). So a window that holds the new failure lies in the list,
whose length is below the threshold when there is no ban (`WindowsStayShort`); and the list the code
trips on begins inside the window, so what follows is in it but for a delay (`JustifiedStep`). `Banned`
says that the ban on record ends at most a delay before the longest one, and that a ban which was
forgotten is over but for a delay: these are the two delays of `BanHolds`. `Timely`, that a goroutine
takes the lock within a delay of reading the clock, is the only hypothesis about time, and the guard of
`Tick` is where the model makes it.

TLC checks these invariants too, on the instances of the runs (a module that extends the MC module and
the proofs, with the conjuncts as INVARIANTS; `DbOK` and `ProcOK` of Store are infinite sets of
functions. `Browser_proofs` has the variables of two systems, so there it takes a copy of the conjuncts
of one).

The assumptions are the named `ASSUME`s of the modules: the sentinels are not values, ids of different
sources are disjoint, bounds are natural numbers, at least one instance may be bound, the users of Store
are finitely many and not none, the requests of Extension are not the numbers that name its handlers.
The theorems about Hub need no assumption on its constants.

Out of the prover's reach, and left to TLC: the liveness properties and `ENABLED`, and whatever depends
on them (`StaleTunnelsEnd`, `RequestsEnd`, `ShutdownEndsTunnels`, `DroppedClientsEnd`, `Mirrored`,
`ReplaceEnds`, `SentArrives`, `CancelEnds`, `EitherEndEnds`, `BootsInTheEnd`). Every other property of
the passing runs is a theorem, each with the hypotheses named above.

## Plan

Done: RoutingTable, HotSwitch, LiveConnections, Registry, DenyList, Hub, ListenerSet, KeySync, Pipe,
Tunnel, Store, Extension; the eight proof modules, with every safety property of the runs. What is left:

1. Two keys over one account in KeySync: the StableID is the primary key, so the second insert fails.
2. The register gap closed by construction in a variant of HotSwitch (a second look at the `CancelGroup`
   after `Register`), to see that it would be enough.

## Not modelled

* **Admin web server and sessions.** A request is admitted by one lookup under a mutex and then
  forwarded to the API, whose handlers are modelled; sessions live in memory and meet nothing else. (A
  WebSocket that was admitted outlives its session; the code has no statement about it.)
* **Latency probes.** Eight dials at a time, each with a deadline, write a column that only pages read.
* **Encryption.** A pure function over a library cipher; Store has which key a secret was written with.
* **Web page, macOS app, lock audit.** Views and clients of the REST API; a launcher that starts `piod`
  and polls for its port; a debugging aid behind a build tag.
* **Parsing** of HTTP, SOCKS5, proxy URLs and pasted lines: a head is read or refused as a whole.
* `Clear`, `ClearAll` and `Banned` of the deny-list have no caller outside tests. Of `Hydrate` the
  decryption errors, of the REST handlers the validation of bodies, are left out: they end a request
  before it changes anything. KeySync leaves out that the key itself is deleted during a sync (HotSwitch
  has `DELETE /keys/{id}`), dry runs of a replacement, and labels that contain hyphens, for which the
  two name forms can be read in more than one way. Extension leaves out a flush that fails, which the
  code documents ("switch applies on next reload").

Three traits of the code that the models keep and that a reader may take for mistakes: the end of one
direction ends the other, so half-closed streams are cut (`tunnel.go:451-454`); the client of a plain
request is watched only once its body has been sent (`http_proxy.go:278-298`); and the cancellation of a
connection during a proxy handshake waits for the deadline of the handshake (`tunnel.go:250-256`).
