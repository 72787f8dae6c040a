# NevermoreEngine, verified: data stores and the TypeScript tools

NevermoreEngine (https://github.com/Quenty/NevermoreEngine) is a monorepo of
some 280 Luau packages for Roblox games and of the TypeScript tools that build,
test, deploy and drive them. This directory holds TLA+ models of the parts of it
in which a mistake costs most and tests reach least: the `datastore` package,
which keeps what players own, and the tools `studio-bridge` and
`nevermore-cli` with `nevermore-deploy`, in which processes, sockets, services
and retries cross each other. TLC checks the models on small instances; TLAPS
proves safety properties of them for every value of the constants.

Paths in section 1 and 2 are relative to `src/src/<package>/src` for Luau and to
`src/tools` for TypeScript.

## 1. Inventory

### The datastore package

| Part | State | Operations | Talks to |
|---|---|---|---|
| `Server/DataStore.lua` | `_firstLoadPromise`, `_loadedOk`, `_saveMaid` (one request), `_sessionClosedPromise`, `_promiseSessionLockingFailed` | `PromiseViewUpToDate`, `Save`, `SaveAndCloseSession`, `Sync`, the autosave loop, `Destroy` | Roblox `GlobalDataStore`, its stages, its lock helper |
| `Server/Modules/DataStoreStage.lua` | what was seen in the datastore, what is staged, the view, sub-stores | `Store`, `Delete`, `Wipe`, `Overwrite`, `GetSubStore`, `MergeDiffSnapshot`, `MarkDataAsSaved` | parent and sub-stages |
| `Server/Modules/DataStoreWriter.lua` | a snapshot of what is staged | `WriteMerge`, `ComputeDiffSnapshot`, `IsCompleteWipe` | used in the transform of `UpdateAsync` |
| `Server/DataStoreLockHelper.lua`, `Modules/DataStoreLockUtils.lua` | the session id; the lock lives in the stored profile | `ToUnlockedProfile`, `AcquireLock`, `ToLockedProfile` | called inside transforms |
| `Server/DataStoreMessageHelper.lua` | requests to close, by session | `PromiseCloseSessionGraceful` | `MessagingService`, other servers |
| `Server/PlayerDataStoreManager.lua`, `PlayerDataStoreHandle.lua` | stores, removals, pending saves and handle counts per user | `PromiseDataStore`, `PromiseDataStoreHandle`, `RemovePlayerDataStore`, `PromiseAllSaves` | `Players`, `BindToCloseService`, a `DataStore` per user |
| `Server/GameDataStoreService.lua`, `PrivateServerDataStoreService.lua` | one `DataStore`, no lock | `PromiseDataStore` | many servers share the key and converge by `Sync` |

A game stages data at any time. A `DataStore` takes a writer of its stages and
hands `UpdateAsync` a transform; Roblox reads the profile, runs the transform,
writes the result only if nobody wrote in between, and otherwise runs the
transform again. The transform does more than compute: it checks the lock, marks
data as saved, merges what it read and resolves promises, each time it runs.
What is hard comes from the time between the transform and the write. What makes
the parts correct: only the owner of a lock writes; a lock is lost only by
closing, by age, by a ladder of retries that has run out, or by a wipe; of saves
that overlap the newest stays (but for a wipe it replaced); what was stored is
written or still held; a write touches only what it staged; a player has one
live store on a server; a closing server waits for everything.

### studio-bridge

| Part | State | Operations | Talks to |
|---|---|---|---|
| `src/bridge/bridge-connection.ts`, `internal/environment-detection.ts`, `internal/hand-off.ts` | role, connected, who has the port, runs of the hand-off | `connectAsync`, `disconnectAsync`, detection, hand-off | the port, other processes of the tool |
| `internal/bridge-host.ts`, `internal/session-tracker.ts`, `internal/transport-server.ts` | plugins, clients, sessions, pending relays | register, relay, notify, drain, idle exit | plugins and clients, over WebSockets |
| `internal/bridge-client.ts`, `internal/transport-client.ts`, `bridge-session.ts` | the list of sessions as the client knows it, pending requests, a reconnect timer | relay an action, sync the action modules, reconnect | the host |
| `src/server/studio-bridge-server.ts` | one Studio, its plugin, its client socket, scripts | `startAsync`, `executeAsync`, `stopAsync` | Studio, its plugin |
| `src/server/web-socket-protocol.ts`, `internal/host-protocol.ts` | none | decode, encode, relay | everything above |
| `src/commands/playtest` | the playtest of a Studio | start, run, restart, stop, players | Studio through sessions |

Hard here: processes that race for one port after a crash; a plugin that
reconnects before its old socket has closed; events that reach a client before
the answer they belong to; timeouts that race late answers; ids that are used
again. Correct means: what a connection or a list reports is true; every request
is answered, rejected or timed out; a stop gives everything back; a command acts
on the session its user meant.

### nevermore-cli and nevermore-deploy

| Part | State | Operations | Talks to |
|---|---|---|---|
| `utils/open-cloud/rate-limiter.ts`, `open-cloud-client.ts`, `utils/job-context/cloud-job-context.ts` | slots, queue, quotas, a call's requests | upload, run a task, read its logs, download, resolve versions, assets | Open Cloud |
| `commands/batch-command`, `utils/batch`, `utils/bundle`, `utils/job-context` | items, shared builds, merged places, chunks, temporary directories | `batch test`, `batch deploy`, `batch bundle` | the limiter, Rojo, Studio or Open Cloud |
| `utils/testing/parsers`, `utils/testing/runner` | none | sections, verdicts, rendered logs, splitting places | the log of a run |
| `commands/deploy-command`, `nevermore-deploy/src` | pins, the lock of versions, registered watches | deploy, upgrade, promote | Open Cloud, the watch service |
| `utils/watch` | a stream, its handlers, what was built | `deploy run --watch` | the watch service |

Hard here: slots handed on without being given back; a poll that goes on after
its caller has timed out; files shared by items of which some fail; logs of
which the head is missing and lines are out of order; a base place that moves
between a notification, the question about it and the build. Correct means:
nothing passes that failed; what the tool records as built was built; a failure
reaches the exit code; a lock says what was shipped.

### The rest of the repository

Packages that stay outside are listed with their reasons in section 7 and, file
by file, in `PROJECT.json`, which also lists under `hazards` the lines where the
modelled parts can go wrong, with the properties that would tell.

## 2. The modules

| Module | What it is |
|---|---|
| `DataStoreLock` | the lock envelope of a profile and the decisions on it, as operators |
| `DataStoreSession` | extends it: sessions load, save, sync, wipe and close one locked key |
| `SessionLock` | abstract: what session locking promises, owner and value |
| `PlayerDataStoreManager` | the stores of one player on one server |
| `DataStoreStage` | stages and writers as operators |
| `SharedDataStore` | extends it: servers keep one unlocked key in step |
| `BridgeRoles` | processes that share a port: detection, host, clients, hand-off |
| `SessionSelection` | how a command finds its session, as operators |
| `BridgeRelay` | extends it: one host, its plugins and clients, relayed actions |
| `StudioServer` | one launched Studio: handshake, scripts, stop |
| `WireProtocol` | the messages, their decoders and the relaying schema |
| `SessionRequests` | extends it: what each operation of a session asks and returns |
| `RateLimiter` | slots, queue, quotas and retries |
| `OpenCloud` | extends it: every operation as a chain of requests |
| `VersionScan` | the newest version of a place from a paged history |
| `BatchLog`, `LogReport` | verdicts, the rendered log and annotations from a damaged log |
| `CombinedPlaces` | splitting packages into places; the manifest of a bundle |
| `BatchRun` | `batch test` and `batch deploy` |
| `DeployBundles` | which places a batch run takes; bundles of places, written and read |
| `WatchLoop` | `deploy run --watch` |
| `Deployments` | deploy, upgrade and promote over pins, lock and monitors |
| `Playtests` | the playtest commands |
| `MC...` | the constants of a run, and the properties that are not stated beside the module they are about |
| `...Proofs` | theorems and their proofs |

Modules are composed where the code's parts meet in one state:
`DataStoreSession` runs the decisions of `DataStoreLock` inside its transforms,
`SharedDataStore` the operators of `DataStoreStage`, `BridgeRelay` those of
`SessionSelection`, and every call of `OpenCloud` goes through the one
`RateLimiter`. The host of `BridgeRelay` is what `BridgeRoles` calls a listener
as "bridge"; the sessions of `Playtests` and the plugin of `StudioServer` speak
the messages of `WireProtocol`.

Definitions marked "Mutant" are what a plausible bug would make of the
definition they stand before. No specification uses them; put in the place of
that definition, each breaks one property.

### State and actions

*The datastore service* is Roblox's. The models assume what the code relies on:
a transform runs on the value read, the write lands if the key still holds that
value, otherwise the transform runs again; a request may be refused at any point
before it lands; `GetAsync` may answer late; a request cannot be withdrawn.

*DataStoreSession.* A session is one `DataStore` object on some server. `stored`
is the profile `{value, holder, stale}`; `load` is the retry ladder of
`_promiseGetAsyncNoCache`, `save` the requests of `_doDataSync`, `mail` the
messages to holders. `TransformSave`, `SaveStolen` and `SaveSuperseded` are the
ways through the transform, `CommitSave` and `CommitRemove` the writes,
`Destroy` a destroyed store or a server that stops.

*PlayerDataStoreManager.* `phase` follows a store from `open` through
`callbacks` and `closing` to `settled`. `RemovePlayerDataStoreNow` is
`_removePlayerDataStore`, from wherever it is called; `Settle` is its `Finally`.

*SharedDataStore.* `base` and `staged` are the snapshots of each server,
`orphan` a request that a newer one has replaced and that may still land. `due`
and `lost` are history variables.

*BridgeRoles.* `listener` says who has the port and as what: a probe, a bridge
host, or one that shuts down. `step` is a process on its way through
`connectAsync`; `role` and `connected` are what it reports; `handOff` holds its
runs of `onHostDisconnectedAsync`, `rejoin` the transport's own timer.
`HostLost` is the close handler with all that hangs on it: the hand-off starts,
the timer is armed, or the process dies of an 'error' event nobody listens to.

*BridgeRelay.* A plugin connects more than once under one id; a connection is
registered, replaced or closed. The host's messages to a client are one ordered
queue. A command is one action of a `BridgeSession`, with the sync of the action
modules before it. `Stop` is the host's end after its drain.

*StudioServer.* `state` is `_state`; `boot` and `stop` are where `startAsync`
and `stopAsync` are between two awaits; `held` is what has to be given back. A
call that finds the action modules synced goes on after an await all the same
(`Resumes`), so calls of one turn pass the check of "ready" together.

*WireProtocol.* A message is its type, whether it has an id, and which payload
fields are there and well typed. `DecodePluginMessage`, `DecodeServerMessage`
and `Relayed` map messages to messages or to nothing. *SessionRequests* is a
table of the methods of `BridgeSession`; `Outcome` is what a caller gets.

*OpenCloud.* `call` is where a call is in its chain of requests, `req` its
request in the limiter. `Fetch`, `Release`, `CheckQuota` and `Answered` are the
limiter's methods; a slot goes to the head of the queue without being counted
down.

*BatchRun.* `item` is a package on its way through build, merge, upload and run;
`shared` a build and its users; `chunk` a place of an aggregated run; `dirs` the
temporary directories. *BatchLog* and *LogReport* compute verdicts and the
rendered log as functions of the lines that arrived; a line is what it says,
whose it is, and where it stood. *CombinedPlaces* is the loop that splits until
every place fits; what the merge of a group comes to is an input.

*DeployBundles.* `DiscoverTargets` selects the packages of a checkout and the
places of a target, for a deploy, a test and a bundle alike. A bundle is a
sequence of entries, one of them the manifest; `WriteBundle` makes it,
`ReadPrebuiltDeployBundle` reads one that nobody vouches for, and
`ResolveBundleTargets` finds its places in the checkout that reads it. Whatever
throws is `Refused`. `DeployRun` is what is deployed where, and what each build
says of itself.

*WatchLoop.* `link` is the stream's connection, `tail` the frames whose handlers
have not run, `job` what the handler and the poll are at, `watch` and `polled`
their records of what was built. An abort settles the link while its socket is
still `closing`: what it hears then is "late", is chained to a tail nobody waits
for, and is handled beside whatever follows, the poll and its rebuilds too.
`overlapped` remembers that two passes ran at a time. The service and the
artists who move base places are part of the model.

*Deployments.* The config's pins, the lock, the monitors and what was shipped; a
command resolves its places one by one while base places may move.

*Playtests.* One Studio, of which the caller sees replies and sessions; either
may come first, late or never.

## 3. The runs

Twelve runs, one for each group of modules and, for the session, one for each
question that needs other bounds.

| Run | Instance | Checks |
|---|---|---|
| `session_saves` | 2 sessions, 2 requests in flight each, values and wipes, 1 attempt before stealing, 3 calls, 1 failure | `NoOutdatedWrite`, `OwnLockOnly` |
| `session_settles` | 2 sessions with messaging, 2 attempts, values and wipes, 1 failure, crash or lost message; fair | `ImplementsSessionLock`, `LoadSettles` |
| `manager` | two handles and a plain caller, raising callbacks, 1 save, 1 failure; fair | `OneLiveStore`, `NoSaveLeftBehind`, `CloseEnds` |
| `shared_data_store` | 2 servers, a key in the root and one in the sub-store, 2 acts of the games, 2 refused requests; fair | `StoredIsHeld`, `WritesItsOwn`, `AllAgree` |
| `bridge_roles` | 3 processes, 2 crashes or disconnects, 1 health retry, 2 attempts, 2 reconnects; fair | `ReportsAreTrue`, `HandOffEnds`, `RejoinsHost` |
| `bridge_relay` | 3 plugins with 2 connections each, a client's command and the host's own; fair | `ListsAreTrue`, `RelaysPending`, `ResolvesWhatIsMeant`, `CommandsEnd` |
| `studio_server` | 2 scripts, 2 plugin sockets; every message of the protocol; fair | `StopReleases`, `OwnResult`, `MessagesSurvive`, `CallsEnd` |
| `open_cloud` | a caller of any operation and one that runs a script, 1 slot, 2 attempts; every history of up to 4 versions; fair | `SlotsKept`, `NewestVersion`, `CallsEnd` |
| `batch` | 3 packages of which two share a project, 2 at a time, 2 failures; every outcome, cut and displacement of a log of 2 packages; every split of up to 4; every pair of small checkouts, at most 3 places in a bundle | `BuildsKept`, `ExitTells`, `VerdictsTell`, `LogShown`, `SplitsFit`, `RightPlaces` |
| `watch_loop` | 2 base places, 2 moves, 1 fault or sources unreadable from the start, deploys of both or of one, late handlers beside the poll; fair | `SettledIsShipped`, `Follows`, `InterruptEnds` |
| `deployments` | 3 places of 2 targets on one base place, 3 commands, 1 move, 1 failure | `OneVersion`, `UpgradeHeals`, `LockTells`, `RegistersAll` |
| `playtests` | 2 callers, one of them with all commands, 2 start attempts, 1 fault; fair | `OwnSessions`, `RunCleans`, `CommandsEnd` |

Every run sets `CHECK_DEADLOCK FALSE`: users, games and services act, and fail,
a bounded number of times, and when the bounds are used up and every call has
returned nothing is left to do. What must still happen by then is a liveness
property.

### What the properties say

* `OwnLockOnly`: an update lands only on a profile that is free or the session's
  own, although the lock is checked in the transform, long before.
  `NoOutdatedWrite`: once the newest save has landed, of those it replaced only
  a complete wipe can still land. `ImplementsSessionLock`: the stored profile
  behaves like `SessionLock`. `LoadSettles`: a first load ends, whoever does not
  answer.
* `OneLiveStore`: the many ways to begin and end a removal never leave two
  stores of a player alive. `NoSaveLeftBehind`, `CloseEnds`: `PromiseAllSaves`
  resolves, and not before every store it found is destroyed.
* `StoredIsHeld`: what a game stored is staged or in flight until a profile has
  held it, but for what `lost` records. `WritesItsOwn`: another server's keys
  survive a write. `AllAgree`: once the games are quiet, every server comes to
  show the datastore.
* `ReportsAreTrue`: a connected host serves the port, and a connected client has
  a socket and lost none before. `HandOffEnds`, `RejoinsHost`: every hand-off
  ends, and when a host serves for good everybody whose command goes on reaches
  it, whichever way its hand-off went.
* `ListsAreTrue`: the host and, once it has received what is on its way, the
  client list exactly the plugins that are registered. `RelaysPending`: the
  count that a disconnecting host waits for is that of the relays it has not
  answered. `ResolvesWhatIsMeant`: what a target resolves to is what an
  unambiguous user meant. `CommandsEnd`: every command returns.
* `StopReleases`: after a stop or a failed start nothing is held. `OwnResult`: a
  script that had its socket for itself gets no other script's result.
  `MessagesSurvive`: decoders and relay keep what the interfaces declare,
  nothing passes that they forbid, and so end to end: what an operation sends
  arrives, what it gets is returned, and another answer is told as a failure.
  `CallsEnd`: every call comes to an end.
* `SlotsKept`: slots are neither lost nor doubled, and nobody waits while one is
  free. `CallsEnd`: every call returns while polls of timed-out runs go on.
  `NewestVersion`: a version that is resolved is the newest of its kind, and one
  within the pages of a scan is resolved.
* `BuildsKept`: files live as long as anybody may use them, and go. `ExitTells`:
  the exit code and the registration of watches tell of every failure.
  `VerdictsTell` is `WindowTells` (`NoFalsePass` and `CountsSurvive`), the
  verdicts from a log without its head, and `DisplacedTells`, those from a whole
  log with one message out of order. There a failure is missed only when its
  traceback has left its section, or when a script without results that died has
  another's report in its own; a sound package fails only when another's failure
  has got into its section, or when it returned no counts and its report is
  gone; and without a returned summary everything may fail when the printed one
  is torn apart. A marker out of place hands no package's text to another.
  `LogShown`: the rendered log loses and repeats nothing. `SplitsFit`: splitting
  ends with places that fit, hold each package once, and make a bundle that is
  accepted.
* `RightPlaces` joins what `MCDeployBundles` says of bundles. `BundleIsTheRun`:
  the bundle of a checkout leads to what a deploy from that checkout would have
  deployed. `TestsAreTheRun`: a bundle of tests holds what a run of the tests
  would test, and is never deployed. `StaysHome`: read by a checkout with other
  packages, every place goes where this one puts the place of its name, saying
  the commit it was built from, or nothing is deployed. `DamageIsRefused`: a
  bundle with an entry lost, doubled or changed is refused, one in another order
  is not. `SelectorsNarrow`: the selector that a refusal suggests is accepted.
* `SettledIsShipped`: what the loop takes as settled was built, and what it
  records as built was shipped. `Follows`: a base place that moved is rebuilt at
  last. Once two passes have overlapped, the older of which may end last, the
  first keeps only its half about what is settled, and the second takes a place
  of the poll as followed that the poll records as built. `InterruptEnds`:
  Ctrl-C ends the loop that hears it.
* `OneVersion`: places that ask alike are built from one version. `LockTells`:
  the lock says what was shipped. `UpgradeHeals`: after an upgrade a frozen
  deploy is not refused. `RegistersAll`: a registration lists the whole target.
* `OwnSessions`: a caller gets sessions of its own playtest, not of one before
  it that used the same ids. `RunCleans`: `run` leaves no playtest behind.
  `CommandsEnd`: every playtest command returns.

Some of them (`MessagesSurvive`, `NewestVersion`, and in `batch` `VerdictsTell`,
`LogShown`, `SplitsFit` and `RightPlaces`) are about pure functions. They depend
on no state, and are stated of one first state of the run, over every input
within their bounds.

### Bounds, and why they are enough

* Two sessions or servers: the hazards of the datastore are about a request of
  one store crossing one other party. `MaxCalls` of 3 lets two requests of one
  session overlap while the other saves; `MaxAttempts` of 2 gives the ladder a
  first and a stealing step (the code's default is 6; the steps between are
  alike, and the proofs hold for any number). `MaxFaults` is one failure of any
  kind at any point.
* Three processes: one host and two that race for its port, or one that starts
  meanwhile. Two ends let the next host be lost too. `StaleRetries`, `Attempts`
  and `Reconnects` are the code's loops with one or two turns; the proofs hold
  for any.
* Two connections of a plugin: the late close of the first is the case. Two
  commands: one relayed, one of the host, on one plugin.
* Two sockets and two scripts: a stale completion needs a script before and one
  after, a replaced plugin needs two.
* One slot and two callers: everybody waits for everybody. More slots and
  callers are covered by the proof. `MaxPages`, `MaxPolls`, `MaxLogs` and
  `MaxCdn` let each loop of a call turn once and end.
* Three packages, two of them of one project: a shared build with two users, and
  an item that has nothing to do with them. Two failures: a step and its retry.
* Logs of two packages with every outcome of each, cut at every line, with any
  one message moved anywhere; notifications of up to four lines of Jest output.
  A package's section borders only on the one before and the one after.
* Versions: histories of up to four entries in pages of two, scanned for one
  page.
* Up to four packages and limits of two to four: every size up to the limit,
  for sizes that add up, and for equal packages every table of what their groups
  merge into, at the limit, just above it, or three times it.
* Two packages in a checkout, each without a configuration, with one that is
  broken, or with one or two places, named, unnamed or oddly named; a run on a
  pull request, on a damaged payload, and on a branch. Two packages of two
  places are one more than `MaxPlaces` allows.
* Two moves of two base places: one before and one during a rebuild. One queued
  frame: the next waits as it would in the socket. Sources that cannot be read
  from the start (which is the fault then), or of which the last one fails, give
  the stream up; the service reads one again while the socket closes, and
  notifies. Two moves give the late handler and the poll a version each to
  build: without their exceptions `SettledIsShipped` and `Follows` fail in this
  run.
* One move, three commands: a deploy, an upgrade or a promotion between, and a
  deploy after.
* Two callers and two players: a second caller restarts or stops what the first
  has started.

### Fairness

Failures are never fair; they are bounded. Fair is what the event loop, a timer
or the service's contract brings about:

* `DataStoreSession`: `UpdateAsync` answers, the graceful close has a timeout,
  the waits are timers. Messages need not arrive and holders need not live.
* `PlayerDataStoreManager`: removing callbacks settle (the manager waits for
  them without a timeout, so this is an assumption about the game), loads end
  (`LoadSettles` is what justifies it), requests are answered.
* `SharedDataStore`: the same, and the autosave loop goes on calling `Sync`.
* `BridgeRoles`: what a process awaits is served, and its timers fire. Nobody
  has to start, disconnect, crash or exit.
* `BridgeRelay`: messages on a socket arrive, requests have timeouts, a host
  that stops goes on. Plugins need never answer.
* `StudioServer`: `startAsync`, the cleanup and calls between two awaits go on,
  syncs fail and scripts time out at last; the plugin may do anything or
  nothing.
* `OpenCloud`: requests are answered or lost, sleeps end, quotas are reset, the
  client's timeout fires.
* `WatchLoop`: the stream, its handlers and the poll go on, each by itself. The
  socket of an aborted link may stay open. The service retires a link some time,
  and its polling is strongly fair: it does not wait for the client's handlers,
  whose queue is bounded here.
* `Playtests`: a caller's own steps and timeouts; Studio may never answer.
* `BatchRun` and `Deployments` state no liveness.

## 4. Proofs

A `...Proofs` module extends the modules it proves about: the parts of one
program share one, and their names tell the parts apart. Its theorems hold for
every value of the constants that satisfies the named assumptions of the modules
(`...Assumption`: sets are finite where they are counted, bounds are natural
numbers, the values that mean "nothing" are not among the others). For each
module the inductive invariant is the type invariant with a few named parts;
proved are `Init => IInv`, `IInv /\ [Next]_vars => IInv'` with one step for each
action, and what follows from `IInv`.

*DataStoreSessionProofs.* `IInv` is `TypeOK` with `LoadSound`, `SaveSound` and
`BackoffSound`. `OwnLockOnly` is not inductive: a request that commits was
checked long before. `SaveSound` keeps what was seen then with each request in
flight: its transform found the profile free or the session's own, and as the
write lands only on what was read, that is still true. From it follow
`UpdatesOwnLockOnly`, `LockIsHeld` (how a session may lose its lock at all) and
`Refinement`, which maps every step to one of `SessionLock` or to a stutter.
`NewestSaveStays` adds `OutdatedSound` (of the requests in flight, the one whose
promise `_saveMaid` holds was sent last) and `OutdatedWaits` (a request that was
overtaken does not have its transform behind it, and the next one is refused); a
complete wipe has no transform, so the theorem excepts it. `RequestersAnswered`
is about the messages.

*PlayerDataStoreManagerProofs.* `IInv` is `TypeOK` with `Stores`, `Closes`,
`Counts` and `Awaits`: the tables of the manager agree with the phase of each
store, and whoever `PromiseAllSaves` waits for was among them when it was
called. `OneStoreAtATime`, `ServerWaitsForSaves`, `HandlesCleanUp` and
`LastHandleCloses` follow.

*SharedDataStoreProofs.* First lemmas about the operators of `DataStoreStage`:
what staging, differences, merging and marking return, and `ReadsBringUpToDate`:
merging the difference to a profile gives that profile. The invariant then
follows a stored value through `staged`, the writers in flight and the profile;
`ServersWriteTheirOwn` and `StoredDataIsHeld` need it.

*OpenCloudProofs.* `IInv` is `TypeOK`, `KeyFirst` (the requests of a call come
in its order) and `SlotsKept`. The work is in the counting: `FetchTakes` and
`ReleaseGives` say what the two methods do to the slots taken and the queue,
`OthersKeepSlots` that nothing else touches them; facts on cardinalities come
from `FiniteSetTheorems`. `ResolvesNewest` is about `VersionScan`, for any
histories and pages. Neighbours are compared, and any two entries are meant:
`NeighboursDecide` takes the first entry that is not below an earlier one, which
the well-founded order of the numbers gives, and finds its neighbour before it
in the way. `PageHolds` is the arithmetic of pages, `ReadWithin` and
`ReadsToMatch` say how far a scan reads.

*BridgeProofs.* For the roles, `RolesInv` is `RolesTypeOK` and, for each
process, `Roles` (what it reports fits the step it is at), `Quiet` (a process
that is not running has nothing), `Socket`, `Port` and `Tries`. `ReportsAreTrue`
alone is not inductive: it must be known that a host that is not there any more
was heard to close by all who had a socket to it. `OthersKeepTheirs` covers the
processes an action is not about. `OneProcessHosts`: two never both serve.

For the relay, `IInv` is `TypeOK` with `HostSound`, `CommandsSound` and
`ClientsSound`. `ListsAreTrue` alone is not inductive: what a client lists is
right only once it has handled what is on its way, so `CacheSound` follows the
queue: the events in it turn the client's list into the host's, before the
answer to its first question as well as after it. `RelaysPending` needs that a
request is pending only on the connection its session has (`Sound`), so that
replacing or closing a connection cancels just what is pending there, and that
each answer in a queue is awaited by a command of that client and is the only
one (`AnswersAwaited`), so that handling it ends no other command. A client is
cut only by a host that has stopped, and a host that has stopped lists nothing
and has nothing pending. `ListsTrue`, `RelaysArePending` and `ResolvesMeant`
follow; the last rests on lemmas about the operators of `SessionSelection`.

*StudioProofs.* For the server, `ServerInv` is `ServerTypeOK` with
`SocketsSound` (without a server no socket is open, and what is waited for is a
socket that has been opened), `EndsSound` (where a start and a stop can be
together, and that whichever of them ends the server has given everything back
by then) and `AloneSound` (an execution that has its socket for itself is the
only one whose script runs there). `OwnResult` needs the last, `StopReleases`
follows from `EndsSound`, and both are theorems.

For the playtests, `PlaytestsInv` is `PlaytestsTypeOK` with, for each caller,
`InCommand`, `Gathered`, `UpWhenSaid`, `Requested` and `Holding`, and with
`OwnIds`. `OwnSessions` and `RunCleans` alone are not inductive: a caller goes
on with what it had gathered before an await, so `Gathered` says of which
playtest its sessions are, `Requested` that one whose request Studio has not
taken has no playtest on, and `Holding` that a run whose playtest is on still
has a session to end it with.

*CliProofs.* For the deployments, `IInv` is `TypeOK` with `Deploying`,
`Registering` and `Healed`. `OneVersion` and `LockTells` are about places that
are resolved one after the other while base places move. `CopyOf` says how the
copy of the lock that a deploy works on differs from the lock: only at base
places that one of its lookups has claimed, and there it is what that lookup
found. `Asks` says what a place still has to find out, `Got` that its version is
its pin's, the lookup's, or that of an entry which no lookup with its keyword
replaces. From these follow `BuiltFromOneVersion` and, once the lock is written,
`LockIsTold`; `Registering` carries the latter to the registration of watches
(`RegistrationsListAll`), and `Healed` says that after an upgrade no later
deploy takes an answer out of the lock (`UpgradesHeal`).

For the batch, `BatchInv` is `BatchTypeOK` with `ChunksSound`, `ExitSound`,
`Kept` and `Disposed`. Files stay because users are counted: `BuildSound` says
that a build has as many users as places made from it and items that wait for
it, so that the last release is that of the last user, and `PlacesSound` and
`ItemSound` that each item has the one place its step needs, of this attempt and
not of the one before. `LeftSound` counts what nobody owns any more: a directory
that a place or a build does not own was left by a step that failed, and no
failure leaves two. `BuildsKept` follows. `ExitTells` needs that while the items
run nothing is decided, and that afterwards neither a late failure of another
place nor the clean-up changes what was (`ExitSound`, `ChunksSound`).
`ResultsDecide` is about `BatchLog`: for any log at all, in any order, a package
passes only on what its script returned, or on a report in its own section.

`VerdictsHold` needs what the sections of a log hold, and so what two recursive
functions compute: the fold of the tokens and the log of a run. That such a
function exists (`FoldExists`, `LogExists`), and what each of its values is, is
shown for the least number for which it would be otherwise (`LeastNumber`).
`Read` is the invariant of the fold: the open section began at the BEGIN of its
package, with no other BEGIN and no END of it since; no marker stands before a
head that can still be claimed; and every END that closed a section made it
known. From it, `SectionsAreOwn` holds of any tokens in any order. `LogUpTo`
says what a log of the first packages is, and `NextPackage` that one more keeps
it: lines of a package stand together, and each line that is not an END has the
END of its package after it. Both outlive the loss of the head (`TailOfLog`), so
a section in such a log holds all its package wrote that is left
(`SectionsOfWindow`), and a package without a section has left nothing
(`NothingLeft`). `VerdictDecided` reduces a verdict to its section, and the rest
goes by the kinds of scripts.

`PlacesHold` is an instance of `PlacesAreFound`, which is about any number of
packages and any limit. The sums, the partition and the rounds are recursive
functions as well; that they exist, and step by step, is an instance of one
lemma (`IterationExists`). `Packs` is the invariant of `partitionBySize`: the
groups are runs of the packages in their order, a group of two or more is within
the budget, and equally large packages are spread over no fewer groups than
parts were asked for, or one group each (`Spread`). `RoundsGoOn` is that of the
rounds: after `r` of them every place fits, or there are more than `r` places;
so after as many rounds as packages each stands alone, and alone it fits. For
sizes that add up the first split is the last: the guess of `NextCount` makes
the budget no larger than the limit (`FirstSplitFits`). The hypothesis is that
each package fits alone and that either packages merge into places as large as
they are together, or all are equally large as built and merge into anything.
Without it the loop may not end, which is one of the findings.

*WatchLoopProofs.* `IInv` is `TypeOK` with `Records`, `Tokens`, `Overlaps`, and
`Found` and `Resolved` of the handler and of the poll. `SettledIsShipped` alone
is not inductive: both hold tokens and versions from before an await. `Tokens`
says that every token on its way is of a version that exists, `Found` that a
runner remembers no less than its token and than what it has built, and
`Resolved` that a pass resolves every base place when it begins, so that it
ships no less than was shipped before it: until another pass has begun beside
it, which `Overlaps` says is remembered.

### Only model-checked

* Liveness (`LoadSettles`, `CloseEnds`, `AllAgree`, `HandOffEnds`,
  `RejoinsHost`, `CommandsEnd`, `CallsEnd`, `Follows`, `InterruptEnds`):
  fairness and ENABLED are beyond the prover.
* `DisplacedTells`: `SectionsAreOwn` holds of a log in any order too, but which
  lines one displaced message brings together is left to every displacement in a
  log of two packages. `LogShown`, and `RightPlaces` with its filters,
  flattening and look-ups in sequences: each needs an existence proof and an
  invariant for every fold in it, as `WindowTells` and `SplitsFit` did, and the
  library's operators for folds take an operator as a parameter, which the
  provers do not instantiate.
* `MessagesSurvive` speaks of a finite set of messages: TLC evaluates all of it.

## 5. Findings

While the code was modelled, places were found at which it does not do what a
comment, a test or a document of the repository says. The models have the code's
behaviour; where a property would fail for it, the property names the case it
leaves out. `PROJECT.json` quotes each with its lines. The ones that matter
most:

*Data stores.* A robbed session whose save comes after the thief has closed
writes old data over the thief's (`DataStoreLockHelper.lua:85`). A load whose
transform runs twice shows what it saw the first time (`DataStore.lua:757`). A
removal resolves although its close was rejected, or while another save is in
flight (`PlayerDataStoreManager.lua:675`). A complete wipe that a newer save has
replaced may land after it and erases it (`DataStore.lua:580`). A sync marks
data as saved before it is written, and a newer sync can make that final
(`DataStore.lua:641`). A wipe does not reach a sub-store that holds data
(`DataStoreStage.lua:768`).

*studio-bridge.* A promoted process starts no host (`hand-off.ts:179`). A client
that reconnects goes on reporting that it is not connected
(`bridge-connection.ts:801`). A client takes an error for synced modules
(`bridge-session.ts:615`). The host's forced close closes nothing
(`bridge-host.ts:283`). A server whose plugin has disconnected releases nothing
on stop (`studio-bridge-server.ts:740`), may call itself ready without a client
(line 421), and takes a late completion for the next script's (line 792).
Decoders and the relaying schema drop declared fields
(`web-socket-protocol.ts:1227`, `host-protocol.ts:278`). A playtest may be left
running: when its edit session is lost while it boots
(`playtest-sessions.ts:118`), and when its server session has dropped its
connection for a moment (`run.ts:151`); an error of the stop is lost behind the
script's (`run.ts:119`).

*nevermore-cli and nevermore-deploy.* Splitting places may not end
(`combined-project-generator.ts:171`). Retries of a failed combined build get
the same rejection (`batch-script-job-context.ts:283`), and a failed merge
leaves its directory (`base-job-context.ts:207`). One END out of order behind a
missing head claims another package's lines (`batch-log-parser.ts:849`), and a
traceback counts against the package whose section it stands in
(`traceback-parser.ts:27`). A place that `--limit` parts from an unnamed one of
the same package is deployed where the last of them is, when it comes out of a
bundle (`batch-deploy-command.ts:554`). A 4xx of the CDN is tried again
(`open-cloud-client.ts:1089`), and a caller that wakes deletes a quota that is
spent (`rate-limiter.ts:223`). Ctrl-C while a rebuild drains is lost
(`websocket-watch-stream.ts:145`), a late handler rebuilds beside the polling
that follows and may leave the older build (line 276), a partial snapshot keeps
the stream (`stream-watch-loop.ts:154`), polling starts from an old baseline
(`deploy-command/index.ts:860`), and a narrowed deploy records siblings as built
(line 782). Two keywords on one base place pass unseen or churn the lock
(`base-place-resolver.ts:127`, `version-command.ts:269`), a later run registers
a version that was never shipped (`batch-deploy-command.ts:509`), and two
unnamed places keep one watch name (`register-notify-watches.ts:198`).

## 6. Hazards without a property

Five of the hazards `PROJECT.json` lists have none, each with its reason there.
Two are what the code does and what the first findings say: the save of a robbed
session, and a load that is told before the lock is written. The age of a lock
is an external step that may happen to a live session too. Handles are counted
per user and not per store: proved (`HandlesCleanUp`, `LastHandleCloses`), not
checked. A value stored after a wipe replaces the wipe: the code says nowhere
that it means otherwise. Nor does it of a player who leaves while a call waits
for the last removal, and gets a store all the same; the properties of the
manager hold of that store.

## 7. Not modelled, and why

*Within the modelled parts.*

* Session: stores without session locking, user id lists and metadata, saving
  callbacks, the age of a lock as a clock.
* Stages: trees deeper than one sub-store, sub-stores created or loaded late,
  values that are no tables, `OverwriteMerge`, the observers of the view.
* Manager: the tools that read, clear and write a raw lock, and calls from
  inside a removing callback.
* Shared store: saving callbacks, user ids, the end of a server.
* Roles: a remote host and the devcontainer detection, which only skip the
  probe. Relay: pushes without an answer, waiting for sessions to settle, more
  than one action of a command. Server: a kill of Studio that fails. Playtests:
  standalone servers and what is printed.
* Batch: recompression, what reporters show. Logs: timings and file positions.
* Bundles: the tar format, reading git, the injection of the metadata. Three
  things a bundle does not carry: a selector narrower than a target, more places
  than `MAX_PLACES`, and names that are doubled or odd are written, and refused
  when the bundle is read. A package of which any target is broken is left out
  without a word, of a run and of a bundle alike.
* Watch and deploy: durations and back-off, a link that is aborted before its
  first frame has come, prompts, place assets, locks of several packages.

*Parts that stay outside.*

* What is sequential input and output: `nevermore-cli init`, `install`, `login`,
  linting, source maps, posting results; place assets, recompression;
  scaffolding; reporters and tables; the command line, console,
  explorer and process commands of `studio-bridge`.
* What the operating system or Studio drives: launching and closing Studio,
  Linux and Docker, the MCP client, the plugin. The modules that meet it let it
  do anything its protocol allows.
* Libraries that keep one thread's state and have unit tests: `Maid`, `Signal`,
  `Brio`, `Rx`, `ObservableCollection`, `ThrottledFunction`, `Queue`,
  `LRUCache`, `Cooldown`, `UndoStack`, `StateStack`. `Promise` settles once and
  runs its continuations then; the modules rely on no more.
* What the engine defines and the source does not: `Binder`, `Tie`, `Remoting`,
  `MessagingService` subscriptions, soft shutdowns, teleports, clocks; and the
  geometry and rendering of cameras, animation, physics, input and interfaces.
* Configuration of a game (`GameConfig`, `Settings`, `RogueProperties`,
  `Permissions`): derived state without concurrency.

*What could come next*, in this order: the live comment of a run on GitHub
(`cli-output-helpers`), whose throttled updates may land after the final one;
`ReceiptProcessingService`, in which several handlers decide on one receipt;
`SaveSlot` over a player's store; `ServiceBag` and its order of initialisation.
