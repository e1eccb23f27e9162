# A verification project for sogame-netbird

sogame-netbird lets friends share a private NetBird network. A server, the
*room API* (`room-api/`), creates a room as a NetBird group, a setup key and a
policy, hands its code out and exchanges codes for setup keys. A Windows client
(`client/`) enrols the local NetBird daemon into one room, keeps it connected
and leaves it again. Neither side has a transaction that spans the systems it
writes to; what is hard in this code is what happens when it stops half-way, is
asked twice, or is asked by two callers at once. That is what is modelled here.

    tlc -config ProvisionFaults.cfg MCRoomApiClient.tla        check a run
    tlapm SessionProofs.tla                                    check the proofs

`PROJECT.json` lists the components, the runs, a mutant per property, the source
lines of every definition, the hazards and the theorems.

## 1. Inventory

### Server (`room-api/`)

| component | state it keeps | operations | talks to |
|---|---|---|---|
| `httpapi.Server` | three rate limiters (a map of windows each), provisioning slots | POST /rooms, /rooms/join, GET peers, POST disable; the checks in front of each | `rooms.Service`, one goroutine per request |
| `rooms.Service` | none of its own; all in store and NetBird | Create, Join, Peers, Disable, Reconcile | store, NetBird Management API |
| `store.Store` | tables rooms and operations (SQLite) | one statement per call, no transaction spans two | - |
| `netbird.Client` | none | groups, keys, policies, peers; any call may fail or lose its answer | Management server |
| `config`, `crypto`, `audit` | none | read environment; random codes; log | - |

*Hard behaviours.* Requests run concurrently and share only rows; an
`Idempotency-Key` is looked up, reset and begun in separate statements. A room
takes three NetBird calls and four writes, each of which may fail; failure undoes
a different prefix at each point. A client that disconnects cancels the context
that the failure handling itself uses. A restart runs `Reconcile` once, over the
operations that are still `creating`. The limiter reads the clock before it takes
its mutex, and a slot must be given back on every way out.

*What makes it correct.* A key yields one room. A room a client was given has
its group, key and policy, and nothing destroys it. A failed creation leaves
nothing behind. A key does not stay locked. A disabled room admits nobody. A
client is refused for its own requests only.

### Client (`client/`)

| component | state it keeps | operations | talks to |
|---|---|---|---|
| `app.Controller` | the snapshot shown, busy command | UI commands, start-up and repair refreshes | session, service inspector |
| `session.Service` | busy flag, machine | Create, Join, Leave, Switch, Connect, Disconnect, View | room API client, daemon adapter, secure store |
| `session.Machine` | state, path, revision | Apply, Snapshot, the pure `Derive` | - |
| `session.PeerRefresher` | the last list of peers and its stale mark | Refresh (asked by `Service.View`), Watch (only by a test) | room API client, room code file |
| `netbird` adapter, profile store, version gate | none; each call is a sequence of requests | profiles, Login, Up, Down, Logout, Status | NetBird daemon over gRPC |
| `netbird.RecoveryMonitor` | retry counters of a watch | Resume, Watch | adapter |
| `roomapi.Client` | the intents under way and their keys | Create, Join, Peers with retries and a deadline | room API |
| `securestore`, `diagnostics.Writer` | files `room.json`, `room.code`; bundles and crash logs | Load, Save (write, flush, close, move), Clear | file system |
| `platform`, `cmd/sogame-helper` | none | inspect the Windows service, ask for elevation, verify and run the MSI | Windows, the daemon |
| frontend, tray, redaction | display only | - | controller |

*Hard behaviours.* A room is saved in two files, a daemon profile and a
registered peer; an enrollment writes them in one order and Leave removes them in
another, and each of eight steps may fail, be applied without an answer, or be
the last before the application is killed. `View` runs beside commands without
the busy flag. The controller merges snapshots of commands, views and repairs.
The daemon is shared with other programs, which may act between any two requests
of a call, an installer may replace it, and it may take a request and never answer. A create that got no answer is sent
again while its handler may still run. A repair ends when its helper was
started. One list of peers serves all rooms.

*What makes it correct.* There is at most one managed profile; the two files name
one room; a saved room can be reconnected without a setup key; what is reported as left or
undone is gone; a peer is never left registered without the profile that could
deregister it; what the user is shown is the session's state; the user's other
profiles are left alone, and a connection of the user's own ends only where the client puts its profile in its place; no daemon of another version is asked to change
anything; a file is never torn; a create ends with the room of its key.

## 2. The modules

| module | what it is | code |
|---|---|---|
| `RoomProvisioning` | creation of rooms, Reconcile, restarts | `rooms/service.go` Create, fail, Reconcile; `store.go`; `netbird/client.go`; `httpapi` createRoom |
| `IdempotentCreation` | abstract: what a key promises | - |
| `RoomApiClient` | the client's attempts, retries and deadline, composed with `RoomProvisioning` | `roomapi/client.go` Create |
| `RoomAccess` | Join, Peers, Disable, enrolment of guests | `rooms/service.go` Join, Peers, Disable |
| `Admission` | limiter windows, provisioning slots, the order of checks | `httpapi/server.go` |
| `Session` | the client's commands over files, daemon and Management | `session/service.go`, `monitor.go` Resume |
| `OneRoomClient` | abstract: one room at a time, and left for good | - |
| `AtomicFiles` | abstract: files that change in one piece | - |
| `RoomFiles` | the calls that write them | `securestore/*`, `diagnostics/bundle.go` |
| `DaemonMessages` | the daemon's messages, their getters, and `normalize.go` | `rpc/daemon.pb.go`, `normalize.go` |
| `DaemonAdapter` | the adapter's calls, request by request, against a shared daemon | `profile.go`, `rpc_adapter.go`, `version.go`, `rpc/daemon_grpc.pb.go` |
| `ConnectionState` | the pure `Derive`: the state and path shown for a set of facts | `session/state.go` |
| `Controller` | the application controller and the page's copy of its snapshot | `app/controller.go`, `frontend/src/App.tsx` |
| `RoomView` | views, the peer refresher and the list on display | `session/peers.go`, `service.go` View, `roomapi/client.go` Peers, `controller.go` |
| `ServiceRepair` | inspection of the Windows service, repair, the elevated helper | `platform/*`, `controller.go`, `cmd/sogame-helper` |
| `RecoveryMonitor` | the watch loop over the daemon's status and events | `netbird/monitor.go` Watch, `rpc_adapter.go` Subscribe |
| `...Proofs` | theorems, section 4 | |
| `MC...` | values and symmetry sets for TLC | |

How they fit together. `RoomApiClient` EXTENDS `RoomProvisioning`: both sides run
in one specification. `RoomProvisioning` implements `IdempotentCreation`,
`Session` implements `OneRoomClient`, `RoomFiles` implements `AtomicFiles`. `Session` uses the stores as `AtomicFiles`
describes them and takes as one step what `DaemonAdapter` does request by request.
`Controller` and `ServiceRepair` share the controller's snapshot, of which each
models its own fields; `Controller` takes a command of the session as one step,
which `Session` models; `RoomView` models the peers, which `Controller` leaves
out, and reduces the session to the room it has saved.

### RoomProvisioning

Every request is a process with a program counter; every store statement and
every NetBird call of `Service.Create` is an action, since another request, the
client's disconnection or the death of the process may come between any two.
`status`, `room` and `op` variables are the rows of the two tables; the NetBird
side is the set of groups, keys and policies that exist, with the room each
belongs to. A room *is* the request that created it: codes and ids are fresh
random values. A call has three outcomes: it succeeds, fails, or is applied
and its answer lost (`FaultOf`); `CallFails` is the failure path of each step and
`AfterFailure` says which compensation the code runs there, in its order, and
whether `fail` follows. `Cancel` is a client that goes away: from then on every
call of its handler fails without being sent, which is what Go's context does.
`Crash` empties the handlers and starts `Reconcile`, which is modelled per call;
`main` serves only when it has ended.

`IdempotentCreation` knows keys, requests and the room a key is bound to:
`Submit`, `Bind`, `Answer`. The refinement maps a key to the room its saved
response names.

### RoomApiClient

A key is the one an intent minted, and requests are the attempts made under it.
The client knows of an attempt what it is answered or that the transport
failed; it cannot tell whether a handler it lost ever ran or still goes on. `Lost`
is what the network does: the answer is lost or garbled, the connection breaks
while the handler runs, the call's deadline passes. What the client does
then follows `doAttempt` and `retryable`: 429, 5xx and transport errors are tried
again, up to `Retries` times; 409, an unreadable body and the deadline end the
call. Delays are a state without a length. A handler whose client is gone is
cancelled some time later, or never (`Abandoned`). `OpenSpec` adds clients that
send no `Idempotency-Key` beside this one.

### RoomAccess

Starts from active rooms, which is where `Service.Create` ends. A Disable reads
the row, revokes the key, deletes the policy and stores the state, each a step
that may fail or lose its answer; Joins and Peers read the row in one step and
answer in another; a guest may use any key it ever got. NetBird's enrolment is
external: it needs a key that is not revoked, and the guest is *in* the room as
long as the policy connects it.

### Admission

`Allow` reads the clock, then takes the mutex: a request may be decided by a
stamp that is older than the clock, by at most `Lag`, and older than the window it
is counted in. `entry` are the limiters' maps, `used` the length of the channel
of slots. `admitted` and `window` are history: when a request was let
through and in which window it was counted. The checks of each
endpoint come in the order of `routes` and the handlers. What a handler does once
it is let through is `RoomProvisioning`'s and `RoomAccess`'s.

### Session

Two levels of faults that look alike to the code are told apart: a daemon call
that fails, and one that is applied but unanswered ("lost"). The files are either
there or not (`securestore` writes a temporary file and renames it); `meta` and
`code` name the enrollment whose data they hold. Ids are minted by the daemon
and identify the room, the profile and the peer of one enrollment. Create and Join
differ only in the Room API call and are one action, `Obtain`. The state of the
machine keeps what properties tell apart; the five states a saved room may be
in are one, `InRoom`. Each store or daemon call is an action; the calls of `Resume`
(up to five attempts) and of `Remove` (validate, switch to default, remove) are one
each, with every outcome of the sequence.

`leaving` is a history variable: the enrollments a command set out to undo. It
is what separates "the room is broken because the user was leaving it" from "the
room is broken".

`OneRoomClient` is what the user may rely on: `Enter` a room from none, `Leave` one
for good, and of a room left, or not entered in the end, the traces `Vanish` and stay
away. The refinement puts the client into a room when `room.json` is written, the
last of an enrollment's steps that can fail, and out of it when a Leave or a
Switch has loaded what it will remove (or an enrollment's compensation begins): from
then on the room may work no longer, and no later step makes it the client's room again.

### RoomFiles

A Save is seven calls of the file system: create a temporary file, write, flush,
close, look at its size, move it to its name, and, if one of them failed, remove it. Every
one may fail, the application may be killed between two, and the machine may
lose power. `file` is what the system shows, `disk` what is left after a loss of
power: what was flushed, and what `MOVEFILE_WRITE_THROUGH` moved. Reports are
moved by `os.Rename` and files cleared by `os.Remove`, which reach the disk later
(`WriteBack`). The refinement maps a call to one moment in which it takes effect.

### DaemonAdapter and DaemonMessages

A call of the adapter (`op`) is a sequence of requests (`rpc`); a request is sent,
served by the daemon and answered in three steps. Between any two of them the
user may switch or remove profiles with another program and an installer
may replace the daemon (`since` records what others changed since the call
looked at it). The daemon is external and does what
`docs/netbird-v0.74.7-contract.md` confirms of it. It runs one engine, that of the
selected profile: Select, Disconnect, Enroll and Connect put the managed profile in
place and so end a connection the user had with another one. What the client does not
do is in `ForeignUntouched` (their names and identities stay, and none of them is selected)
and `UserEngineYields` (an engine of theirs is stopped for the managed profile only, never
for "default"). `owned` is the profile the session made and `enrolling` that
it is still to be enrolled, which the session tries once. `DaemonMessages` has the fields the client sets and reads,
Go's getters on nil messages (`GetFrom`), and the normalisation of states, paths
and profiles.

### Controller

Every Wails call runs in a goroutine of its own, so each call of the page is a
process, and so are the three tasks of the start-up: the page's one `getState`
(`"mount"`), the view of the saved room (`"startup"`) and the inspection of the
service (`"service"`). `shown` is the controller's snapshot, `ui` the page's copy;
what is written under one hold of the controller's lock is one action, and the
session, the daemon and the Room API are asked between two. A command goes
through `Begin`, `Execute` (the whole of the session's command, which
`Session` models step by step), the view (`ReadRoom`, `ReadStatus`, `Store`) and
`Finish`, which merges the command's own result over the view's. The state and
the path are those `Derive` computes from the facts the code passes it at
that place. `hung` are the calls and tasks the daemon leaves waiting for ever: `runCommand`
passes the application's context on, which has no deadline, and the adapter adds
none. What such a command has changed by then stays changed, its busy mark included. The error of the
snapshot has many writers and is modelled here alone. Peers of the Room API, texts and the revision are left out.

### RoomView

A view reads the saved room, the status, the code and then the list, which the
refresher stores before anyone looks whose room it is of. The user's view runs
after a command; views for diagnostics run beside commands. A list is the room it
was given for and a version, which is how often the room's list had
changed. `Exports` is empty in the Windows build, where
`bootstrap_windows.go:69` loses the diagnostics writer; the run has one all the
same, since the controller's code admits it.

### ServiceRepair

An inspection looks the service up, and asks the daemon for its version if it
runs; the service may change in between. `RepairService` asks for elevation and
inspects again at once; the helper, which verifies the artifact and runs the MSI,
is a process that nobody waits for. `seen`, `moved` and `told` are history: during which
inspections the service was ready, during which it changed, and whether it is
unchanged since the one that was stored last. Of the snapshot it has the flag
`RepairRequired` only, which nothing else writes: the error and the busy mark
beside it are written by every command and are in `Controller`. The start of the application is an
inspection too, beside those of repairs; without a daemon that can be dialled there is no
probe and no session.

### RecoveryMonitor

The watcher's position is `select`, or the call it is in: `status` (the daemon is
asked), `snapshot` and `event` (a send that may wait for the reader), `closed`.
Each case of the `select` is an action. `stream` is the subscription
together with the goroutine of the adapter that feeds it: `none` are the nil
channels, `ended` is a failure or a close waiting to be taken. The two channels
are counts, their readers and the daemon are free. Time is not counted. The one thing the
delays could be used for is stated at `RetryTimer`: that a poll comes before the
last retry. The last delay and the poll interval are both 2 s, so that nothing
is promised, and the run does not rely on it (`"early"` is in its `StreamFaults`).

## 3. The runs

| run | question | bounds | distinct states |
|---|---|---|---|
| `ProvisionFaults` | does a delivered room stay whole, whatever overlaps and fails? | `OpenSpec`: 2 requests with one key or none, 1 retry, all losses, failed intents used again, all faults, 2 restarts | 3,659,910 |
| `ClientCreates` | does a create end with the room of its key, or with nothing? Does the server keep its promise to this client, clean up, and free its keys? (refinement, liveness) | 3 attempts, 1 key, 2 retries, failing NetBird calls, disconnections, 1 restart; requests refused, answers lost or garbled, deadlines | 44,157 |
| `AccessFaults` | is a disabled room closed, and do concurrent Disables take effect? (liveness) | 2 rooms, 3 Disables, 1 guest, failing and lost calls | 60,657 |
| `Admission` | how many get through in a minute, and is nobody refused for others? | 3 requests, 2 clients, 4 endpoints (three limited, and disable), windows of 2, stamps that are 1 late, 1 slot, clock to 5 | 1,209,543 |
| `SessionFaults` | one profile, usable saved room, true reports, one room at a time? (refinement) | 2 callers, 2 enrollments, all faults, any number of restarts | 394,003 |
| `RoomFiles` | do files change in one piece, and does every call return? (refinement, liveness) | 2 callers, 1 store, 1 report, 2 values, failing calls, 2 kills or losses of power | 49,830 |
| `DaemonCalls` | are versions checked, are the user's profiles and connection left alone, does success mean done? | 2 profiles to add, 2 of the user's, 2 versions, lost answers, a user and an installer beside every request | 740,868 |
| `ControllerSettles` | is the room shown the room saved, and is the page given back? (liveness) | 1 call at a time, 2 rooms, every command, failing commands, a daemon that changes or never answers | 52,616 |
| `ViewsOverlap` | whose peers are shown, and how old? (liveness) | 2 rooms, 1 view for diagnostics beside the user's, 1 retry, lists that change once, all faults | 494,400 |
| `ServiceHealth` | was "ready" true, and is a needed repair flagged? | 2 repairs and the start, 2 versions, failing look-ups and probes, others who change the service | 373,695 |
| `MonitorFollows` | does the watcher keep its stream, go on polling, and end when cancelled? (liveness) | 2 retries, channels of 2, all faults, no reader assumed | 4,200 |

and one that ends in a violation: `ReconcileActive`. A crash between the two
writes that end a creation (`service.go:173` and 183) makes `Reconcile` tear an
active room down, although "active rooms are never modified".

*Why the bounds are enough.* The server's races need a first request that fails
and one or two that retry it; what holds for several keys and any number of
requests the theorems say. Two restarts let `Reconcile` act on what an interrupted
`Reconcile` left. Two retries are a first, a middle and a last attempt. For
Disable, three requests meet each partial state an earlier one can leave. The
limiter's worst case is a window's end against the next one's beginning, which three
requests and a limit of one or two show; the clock runs through two windows and a half. In the client the lock admits one
command at a time, so two callers show every interleaving of a command with a
refused one and with a `View`, and two enrollments show every relation of an old
room to a new one. Two callers of a store contend for its mutex, and
two stops let one interrupt what another left. The daemon needs two ids to show
two managed profiles, and one profile of the user's beside "default" for the user to
switch to. The page disables its buttons while a call is under way, so one call at
a time is its normal life. Two rooms and one version of their lists tell whose
list is shown and whether it is old. Two repairs overlap each other and the
inspection of the start. Two places in a channel make one that is empty, partly filled and
full. `Enrollments` and `NewIDs` bound the profiles the daemon mints,
`MaxCrashes`, `MaxStops`, `MaxTime` and `MaxVersion` the counters of those names.
Deadlock is not checked where all requests end and nothing is left to do
(`ProvisionFaults`, `ClientCreates`, `AccessFaults`, `Admission`), or where the
watch has ended; the other runs check it.

*Fairness.* `ProvisionFaults`, `Admission`, `SessionFaults`, `DaemonCalls` and
`ServiceHealth` assume none. `ClientCreates`: weak fairness of the client's call,
of the steps of a running handler and of `Reconcile`: goroutines are scheduled,
timers fire, and every call has a time-out (the HTTP client's) so that it ends.
Losses, deadlines, faults, disconnections and crashes are never fair, so that
`CallEnds` needs no deadline. `AccessFaults`: weak fairness of a Disable that was
begun. `RoomFiles`: fairness of the calls under way, strong for taking a mutex,
which Go's starvation mode grants to a caller that waits. `ControllerSettles` and
`ViewsOverlap`: weak fairness of each call, view and start-up task, none of the
user's clicks or of the daemon. In `ControllerSettles` a call the daemon leaves
waiting owes no step, and `BusyEnds` excepts it, since nothing in the code bounds
that wait; `ViewsOverlap` assumes that the daemon answers the status of a view (section 5). `MonitorFollows`: weak fairness of the
watcher inside a call and of the adapter, strong fairness of the cases of its
`select`, since Go picks uniformly among the ready ones and so takes a case that
is ready again and again; none of the daemon, of events, of `Cancel` or of a reader.

### Promises that are not kept

The modules state more than the runs check: promises of the repository's texts
that the code does not keep. Put in place of a run's properties, with the change to its cfg
that is named, TLC finds each violated, most within seconds:

| property | in the cfg of | what happens |
|---|---|---|
| `LeaveRepairs` | `SessionFaults` | "enters a repair or leave flow" (`client-secret-protection/spec.md:40-42`): a kill between two file operations leaves one file; every command, the Leave that should repair it included, is refused from then on (`session/service.go:345`). |
| `ListIsOfTheRoom` | `ViewsOverlap` | "peer membership from the Room API" (`desktop-room-client/spec.md:95`): after a switch whose first peer query fails, the former room's list is handed out as the last known one under the new room (`peers.go:61`). |
| `NeverOlder` | `ViewsOverlap` | a view for diagnostics that ends late replaces the last known list by an older one. |
| `OneRoomPerKey` | `ClientCreates`, with the loss `"break"` | A connection that breaks while the handler runs is retried; a retry that read the failed operation resets one that meanwhile succeeded (`service.go:79`, 107, 115): one key, two rooms. It takes half a minute; without `"break"` the property holds. |
| `InterruptedIsRemoved` | `ProvisionFaults` | "Reconcile removes resources left by an interrupted provisioning attempt" (`service.go:204`): a crash before the ids are stored (line 152) leaves a group and an unlimited key in NetBird for ever. |
| `FailureRecorded` | `ProvisionFaults` | "records a recoverable error" (`room-control-api/spec.md:20`): a disconnecting client makes its request fail and the recording of its failure too (`service.go:245`). |
| `StreamComesBack` | `MonitorFollows`, with `ReadSpec` | `TestRecoveryMonitorReopensEventStreamAfterDaemonReturns` promises that the stream is reopened: the last failure of the stream taken from the `select` after the status call that saw the daemon's return gives it up with nothing left to reopen it (`monitor.go:145`). |
| `OneCommand` | `ControllerSettles` | a repair clears the busy mark of a running command, and a second one is let in (`controller.go:124`); the session's own flag refuses it. Without `"repair"` in `Kinds` it holds. |
| `SettledIsTrue` | `ControllerSettles`, with the fault `"half"` | a Switch that left the old room and could not enter the new one answers with an error, and the old room stays on display (`session/service.go:227`). With the fault `"status"` a daemon that cannot be reached at the start hides the saved room (`controller.go:394`). |
| `BusyEnds` | `ControllerSettles`, with the fault `"late"` | the reply to the page's first read, read while a command ran and delivered after its reply, leaves the buttons off. |
| `RepairIsOffered` | `ControllerSettles` | "refuses room networking operations and offers a repair flow" (`netbird-daemon-integration/spec.md:23`): a command clears the error (`controller.go:340`, 366) and leaves `RepairRequired`; the page has the repair button inside the banner of the error (`App.tsx:193`) and shows neither. |
| `WaitingIsShown` | `ControllerSettles` | "the client displays `WaitingForPeer`" (`desktop-room-client/spec.md`): `runCommand` overwrites the state its own view derived (`controller.go:364`). |
| `RoomIsRestored` | `ControllerSettles` | "it restores the single room" (`client-secret-protection/spec.md:36`): the page may read the snapshot before the start-up has viewed the room; it offers to create a room and is never told otherwise. |
| `LostTunnelIsShown` | `ControllerSettles` | "Daemon RPC events trigger immediate local state updates" (`design.md:90`): nothing follows the daemon (no caller starts the monitor), and a lost tunnel stays on the page. |

What was seen in the code beside them and no property states:

* `room-control-api/spec.md:100` asks for per-client and global rate limits;
  there are only per-client ones, and the limiter's map never shrinks.
* A creation without an `Idempotency-Key` leaves no operation row, so `Reconcile`
  never sees what it left.
* Go's `http.Transport` may itself send a request with an `Idempotency-Key` again
  on a connection that turned out to be closed, which to the server is an overlapping retry.
* The bootstrap gives the diagnostics writer to a controller that it then
  replaces (`bootstrap_windows.go:48`, 69).
* `design.md:53` says that unrelated profiles are never selected;
  `profile.go:99-110` selects "default" before it removes the managed one, and
  selecting the managed one stops the engine of whichever was selected.
* The intervals of `design.md:90` for the peers are in `PeerRefresher.Watch`,
  which only a test calls.
* An invalid request marks the machine failed while another command runs
  (`session/service.go:260`).
* A repair's reply is taken before the service is inspected again, and nothing
  inspects it when the helper has ended.
* Temporary files that a kill leaves are never removed.

## 4. What is proved

With TLAPS, for every value of the constants (any number of requests, keys,
rooms, clients, callers, files, profiles, calls and enrollments, any set of
faults). Every safety property of the passing runs is a theorem, and so are the refinements; the module of
a part extends the modules it is about:

| module | about | theorems |
|---|---|---|
| `RoomCreationProofs` | `RoomProvisioning`, `RoomApiClient` | creation, its promise, the client with the server |
| `RoomApiProofs` | `Admission`, `RoomAccess` | limiter and slots; disabled rooms |
| `SessionProofs` | `Session` | profile, saved room, reports, peers; one room at a time |
| `RoomFilesProofs` | `RoomFiles` | files change in one piece |
| `DaemonProofs` | `DaemonAdapter`, `RecoveryMonitor` | the adapter's calls; the watcher's stream |
| `RoomViewProofs` | `RoomView` | whose list is shown |
| `ServiceRepairProofs` | `ServiceRepair` | what is said of the service |
| `ControllerProofs` | `Controller`, `ConnectionState` | what the application settles on |

*Assumptions.* They are named in the modules, TLC evaluates them in the runs, and
they say no more than: faults and kinds are known ones; bounds are naturals;
limits are positive; names, ids and values are apart (`NilIsNoMessage` and
`NilIsNoAnswer`: a nil pointer is no message; a call of the page is none of the
start-up's tasks). Three theorems have a hypothesis about the environment
besides, and each hypothesis is needed: `CreatingFails` (deleting calls and the
store do not fail), `Serialising` (no connection breaks under a running handler,
an intent ends with its deadline) and `Orderly` (the user awaits the start-up, the
daemon refuses no view its status, a switch does not fail between its halves).
The counterexamples without them are in the table above.

*The arguments.* A property is seldom inductive; what has to be added to it is
the reason why the code works:

* **Provisioning.** `[]TypeOK`, `[]DeliveredUsable`, `[]DeliveredOutOfReach`. A delivered
  room is safe because *earlier*, when its handler answered, its row, its
  operation and its NetBird resources were complete, and because whatever may
  still run for the same key can only touch other rooms. `IInv` says, for each
  program counter, which resources the request's own room has by then.
  `Compensates`: `CompensationComplete`, under `CreatingFails`; `LeftToUndo` says
  what is still to be undone at each step of a failing handler.
* **One room per key.** `SerialRetries => (Spec => []OneRoomPerKey)`
  and `SerialRetries => (Spec => KeepsPromise)`, the refinement of
  `IdempotentCreation`. Overlapping retries
  are a counterexample. `SerialInv` adds that at most one
  handler per key is past the lookup, so that the row it read is still the row.
* **The client and the server together.** What
  `SerialRetries` assumes of clients, this client does. Under `Serialising`
  the composition implements the server under serial retries
  (`ClientIsSerial`), the room a create ended with works and is the only active one of its
  key (`ClientGetsTheRoom`), all answers under a key name one room
  (`OneRoomForTheClient`), and the composition implements `IdempotentCreation`
  (`ClientKeepsPromise`). `RoomInv` adds to `SerialInv` that every running handler
  is the one awaited, or was cut off by a deadline that ended its intent
  (`AttemptsAccounted`), and that an active room is the one its operation points
  to (`BoundRooms`). `FailureIsClean`: a create whose attempts were all
  answered and that failed left nothing, under `CreatingFails`: no handler of its
  key runs, none of its attempts delivered (`AttemptsRead`), and what a handler left
  on its way out is `LeftToUndo`. `DeliveredStaysWhole` needs no hypothesis: it holds with
  every loss and with clients that send no key.
* **Disable.** A room reported disabled is dead, its code is
  refused by every request that starts later, and no guest enters it, whatever
  keys were handed out before.
* **Admission.** No client is let through more than twice the limit in any
  span of a window's length, three times if stamps may be late (`RateBound`); who
  is refused was refused for its own requests (`QuotaIsOwn`), or because all slots
  are held by others (`BusyIsTrue`). `IInv` counts: an entry's count is the number of
  requests counted in its window, no window has more than the limit, and the windows of a client lie a window
  apart. The bound follows since a span meets at most two or three of them.
* **Session.** One managed profile and files that agree
  (`OneRoom`), a saved room that works (`SavedRoomsAreUsable`), true reports
  (`ReportsAreTrue`), and the action property that the profile of a saved room is
  removed only after its peer was deregistered (`PeersAreNotStranded`).
  `IInv` is a conjunction of named parts: `Locked` (one command at a time),
  `Minted` (ids are fresh), `Enrolling`, `Undoing`, `Leaving` (what files and
  daemon hold at each step of the three procedures) and `Reported` (what was
  reported gone does not come back: ids are never reused). The parts about files
  and daemon hold without a running command as well, which is why a kill keeps
  them. `SessionIsOneRoomClient` is the refinement of `OneRoomClient`, one lemma for
  each group of steps: `TracesOnly` says of the steps that remove something that
  no trace of a left room comes back, `TunnelHasProfile` that the engine that is up
  is that of a profile, so that a Disconnect leaves no room more gone than it was.
* **Files.** `Spec => WritesAreAtomic`, the refinement of
  `AtomicFiles`, through failures, kills and losses of power. `FilesInv`: who is
  inside a store holds its mutex, and the temporary file that is moved is whole
  and flushed.
* **The daemon's calls.** All six properties of `DaemonCalls`, three of them
  about steps (`ForeignUntouched`, `UserEngineYields`, `OkMeansDone`). A call is a chain of requests,
  and `IInv` says what the client knows at each: which requests its operation makes
  (`StepsOf`), that nothing is asked after the version unless it was the expected one
  (`VersionChecked`), that a profile is added only after a list without one
  (`AddedAlone`), and what an answer means as long as it has not been read
  (`Effective`). Each statement about the daemon is one about now, or about
  what `since` names as changed by others. A lost answer is no case of its own: the
  effect is there and the answer is not, and what the next Ensure lists is what it
  finds.
* **Recovery monitor.** `WatchTypeOK` (channels within their
  capacity, failures at most one more than the delays) and `StreamInSight`
  (exactly one of subscription, timer and resignation, for any number of
  retries). Each needs the other, and together they are inductive.
* **Views.** `FreshIsTheirs`. Nothing can be said of the refresher's own list,
  which any view may have replaced. What the user's view shows is the copy it was
  handed under the refresher's lock: its own answer, or stale (`GotTheirs`); and the
  answer is for the room it found, because no command ends before its view does
  (`AsksForTheirs`).
* **The service.** `ReadyWasTrue` and `NeedIsShown`, for any number of repairs
  beside each other. A verdict of "ready" is held with every change since
  (`VerdictsHold`); a repair clears the flag from the snapshot, but owes an
  inspection (`NeedIsPending`). That the need is also offered for repair is not so: `RepairIsOffered`.
* **The application.** `SettlesOnTheTruth`: once nothing is under way the
  controller and the page show the room that is saved, under `Orderly`. Three writers
  fill the snapshot: the announcement of a command, the view after it, and the
  merge of the command's own answer over the view's. It is behind between the
  effect of a command and its merge (`Behind`), for ever if the daemon left the command waiting, and in between two things that may
  disagree about anything else agree about the room: what the session answered
  and what the view reads (`ViewIsTrue`). That nobody else writes in
  between is the page's doing, whose buttons are off (`OneAtATime`).
  `OneCommandAtATime` needs no such user: with late reads and two calls beside
  each other the controller still lets one command at a time into the session and
  is marked busy exactly as long, if nobody repairs the service meanwhile. With
  repairs it is one of the promises above that are not kept.

*Only model-checked*: the liveness properties (`CallEnds`, `KeyUnlocks`,
`DisableTakesEffect`, `CallsReturn`, `CancelEnds`, `PollGoesOn`, `BusyEnds`, `ViewsEnd`), since
liveness under fairness is out of the prover's reach. The violations are TLC's.

## 5. Not modelled

* `crypto`, `config`, `audit`, redaction, the collection of a diagnostic report:
  pure conversions or output, without state.
* `PeerRefresher.Watch` and its intervals: only a test calls it. `NormalizeEvent`:
  an event only triggers another status, whatever it says.
* The content of a file and its encryption (DPAPI): a value that is known or
  torn.
* The removal of the daemon by the installer, which nothing in the application
  calls, and the parsing of release metadata. The check of the MSI's signature is
  one outcome.
* Frontend and tray, beyond the page's copy of the snapshot and the buttons it
  offers: rendering, the clipboard, the tray's window messages.
* The rest of the daemon's generated interface, which the client does not use, and the vendored
  SQLite driver: modelled by how the code uses them.
* The daemon, the Management server, Windows and msiexec are external: their
  behaviour is the weakest the code relies on (a fresh id for each profile; duplicate names
  allowed; Login and Up only with an existing profile; the active profile is not removed;
  a removed profile's peer may or may not be logged out).
* Daemon calls that never return, except in `Controller` (`hung`): the daemon's unary calls
  have no deadline but the caller's, and the session's only for its compensations.
  `ViewsEnd` and `PollGoesOn` assume that a status is answered.
* The wiping of the Setup Key: the session (`session/service.go:280`), the enrollment
  (`roomapi/client.go:102`) and the adapter (`rpc_adapter.go:132`) each clear it in a
  deferred call of the one goroutine that has it; no other actor and no order of steps
  is involved, and a unit test of each layer shows it.
* Two instances of the application: nothing prevents them, and `Session` has one.

## 6. Plan

Done, in this order: provisioning and its promise, room access, the client
session, the connection state, the controller with its page, the recovery monitor;
the Room API client composed with the server, admission, the files, the daemon's
calls, the service and its repair, the room's view; a theorem for every safety
property of the runs, and for the three abstract specifications. Next, most important first:

1. What `Session` takes as one step of the daemon, `DaemonAdapter` does request by
   request: an abstract daemon with one step for each call, implemented by the one
   and used by the other, would put the two together.
2. What a settled controller shows when the user did not wait for the start-up, or
   the daemon did not answer a view: what is left of `SettledIsTrue` there, as a
   property of its own with a theorem.
