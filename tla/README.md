# A verification project for Jackadi

Jackadi runs tasks on many nodes from one manager. Nodes open a bidirectional
gRPC stream to the manager, the manager sends task requests down the stream,
and answers come back on it. This directory holds TLA+ modules translated from
the Go sources, the TLC configurations that model-check them on small
instances, and TLAPS proofs for every value of the constants.

Paths below are relative to `src/internal` unless they start with `src/`.

## 1. The system

| Component | State it keeps | Operations | Talks to |
|---|---|---|---|
| Stream handlers (`manager/server/server.go`) | `shutdownRequest` map, per call: a handler and a responder goroutine, `responsesCh` | `ExecTask`, `dispatchRequestsToNode`, `dispatchNodeResponse`, `RequestShutdown` | dispatcher, inventory, job database, node |
| Dispatcher (`manager/forwarder/dispatcher.go`) | `dispatch` (task channels), `dispatchableNodes`, one RWMutex | `RegisterNode`, `UnregisterNode`, `Close`, `Forget`, `Send`, `GetTasksChannel`, `TargetedNodes` | handlers, forwarder, inventory (specs) |
| Inventory (`manager/inventory`) | accepted, candidates, rejected, node states, registry file | `AddCandidate`, `Register`, `Reject`, `Remove`, `Mark...`, matching, load and save | handshake, management API, handlers |
| Handshake (`manager/server/handshake.go`) | none | `Handshake` | inventory |
| Management API (`manager/management/node.go`) | none | `AcceptNode`, `RejectNode`, `RemoveNode`, `ListNodes` | inventory, `RequestShutdown` |
| Forwarder (`manager/forwarder/forwarder.go`) | results of one request | `ExecTask`, `storeRequest` | dispatcher, job database |
| Job database and results (`manager/database`, `manager/management/result.go`) | requests, results, groups, TTLs | `storeResult`, `GetResults`, `ListResults` | handlers, forwarder |
| Node executor (`node/node.go`) | request queue, executor slots, write slot, exclusive lock | `ListenTaskRequest`, `doTask` | stream, plugins |
| Node process (`src/cmd/node/main.go`) | none | handshake, listen, reconnect, shut down | executor, plugins |
| Plugins on the node (`node/plugins.go`, `plugin/loader/hcplugin`, `plugin/inventory`, `plugin/builtin/plugin_mgmt.go`) | loaded plugins, registry, files | `DownloadPlugins`, `Update`, `sync`, `KillAll` | executor, specs collector |
| Specs (`node/specs.go`, `CollectNodesSpecs`) | specs of a node | collection on the node, on the manager | plugins, inventory, dispatcher |
| Plugin policies (`manager/server/plugin_list.go`) | cache of the policy file | `ListNodePlugins` | files |
| HTTP API (`api`) | users, permissions | authorisation of a request | gRPC API |
| HTTP gateway (`proto/api.pb.gw.go`) | none | routes to the gRPC services | gRPC API |
| Manager process (`src/cmd/manager`) | four servers, database, socket file, a shared `err` | `run`, its deferred calls, restart by systemd | every part of the manager |
| SDK (`src/sdk`) | tasks and specs functions a plugin registers | `MustRegisterTask`, `Do`, `CollectSpecs`, `GetTaskLockMode` | the node, through a plugin's process |
| Command line (`src/cmd/jack`) | none | `run`, `nodes`, `results` | gRPC API |
| Configuration, generated messages | none that changes | | |

### What is hard about it

* **Three maps, one key.** The dispatcher's channels, the server's shutdown
  channels and the inventory are keyed by node ID and guarded by three locks.
  Two goroutines per stream, any number of streams with one ID (a node that
  reconnects before its old stream ended, a second daemon with the same ID) and
  operators touch all three, in every order. A wrong `close()` panics the
  whole manager.
* **Check, then act.** Handshake, AcceptNode, RejectNode and RemoveNode read the
  inventory's lists in one critical section and act in later ones.
* **A file written in place.** Saves may fail or be cut short; the manager starts
  again from what the file holds.
* **Timers against answers.** Forwarder, dispatcher, handler and executor each
  have a timer of their own for the same task.
* **Bounded resources** on the node: queue, slots, an exclusive lock, unbuffered
  channels between the plugin goroutine, the sync task and the specs collector.

### What makes each component correct

* Stream handlers: one session per node; no `close()` of a nil or closed channel;
  no goroutine left behind; a session ends once it has to.
* Dispatcher: what targeting reports and what `Send` finds agree; every task gets
  one answer or an error.
* Inventory: an identity is in one list; a rejection holds; a change that was
  confirmed survives a restart; an ID never changes hands unnoticed.
* Executor: exclusive tasks run alone, write tasks one at a time, a place in the
  queue is always given back, every request is answered.
* Plugins: the registry has what runs, and what runs is what the directory holds,
  whatever fails in between; sync ends.
* Job database: a stored group names the results of its tasks.
* Authorisation: what runs is what was permitted.
* Tasks: a plugin is not replaced under a task that runs in it; an answer without
  an error tells of a task that ended.
* Manager process: the database outlives the servers that use it; one server that
  stops takes the whole process down; a manager that failed comes back.

`PROJECT.json` lists every hazard at the line where it bites, with the
properties that would catch it going wrong, or the reason why there is none.

## 2. The plan

| Order | Module | Composes | Abstract specification or reference | Proofs |
|---|---|---|---|---|
| 1 | `NodeSession` | handlers, dispatcher, shutdown, operators | `NodeSlot` | safety, refinement |
| 2 | `Inventory`, `NodeIdentity` | handshake, management API, registry file | | safety |
| 3 | `NodeExecutor` | receive loop, queue, slots, lock, timers, reconnection | `TaskLocks` | safety, refinement |
| 4 | `TaskRouting` | `Targeting`, `JobStore`, forwarder, `Send`, handler, responder | `TaskDelivery`; `Satisfies`; pages of the listing | safety, refinement, queries, pages |
| 5 | `PluginSync`, `SpecCollection` | sync task, plugin goroutine, loader, specs collector | | safety |
| 6 | `PluginTasks` | `NodeExecutor`, `TaskCall`, `Command`, `WebApi` | `NodeExecutor` | safety, refinement |
| 7 | `ManagerProcess` | `run`, its servers, signals, restart | | safety |

All of it is done. Runs are few: one per module, two where the liveness run needs
another instance, and one per real disagreement between a document and the code.
No module declares a RECURSIVE operator: loops over queries and keys are recursive
functions, which the proofs can unfold. `NatRecursion` has the induction they need.

## 3. What is modelled

### `NodeSession` and `NodeSlot`

One action is one critical section or one blocking operation.

| Code | Model |
|---|---|
| `ExecTask` up to the goroutine | `Open`, `WaitRegistered`, `RegisterNode` or `RegisterDuplicate`, `MarkUp` |
| `dispatchRequestsToNode` | `GetTasksChannel`, `SendTask`, `StreamSend`, `DispatchEnds` |
| responder goroutine | `Capture`, `Recv`, then `StopReceiving` or `HandleAnswer`, `Close`, and `Join` for `errCh` |
| deferred functions | `UnregisterNode`, `MarkDown`, `DeleteShutdown` |
| `RequestShutdown`, `RejectNode`, `RemoveNode` | `RejectNode`, `RemoveNode`, `RejectShutdown`, `RemoveShutdown`, `RejectSave`, `RemoveSave` |
| node and network | `Handshake`, `Open`, `StreamBreaks` |

`pc` and `rpc` are where the two goroutines of a call are, `dispatch`,
`dispatchable` and `shutdownRequest` the maps ("absent" is a missing key, "nil"
a nil channel), `held` and `shut` the local variables that keep what was read
from them. A channel is named by the call that made it, and a name is used
again only when nothing refers to it.

Abstracted: what tasks and answers carry (`asked` counts requests without
answer), the identity behind an ID (one per ID here; `Inventory` has several),
the time stamps of a node's state, and the time `Send` holds the read lock while
it waits (it gives up after its timeout, so it delays the other operations and
does not stop them). `stream.Send` fails only on a broken stream; flow control is
not modelled. `Dispatcher.Close` is enabled only where `close()` does not panic,
and `ClosesOwnOpenChannel` says that it is always enabled when it is reached.
`Accept` stands for every way a node is registered.

`NodeSlot` is the promise: the place of a node is taken by one stream, is shut
before it is freed, and is free before it is taken again.

### `Inventory` and `NodeIdentity`

One action is one critical section of `inventory.Nodes`, so `Handshake`,
`AcceptNode`, `RejectNode` and `RemoveNode` are several actions each, with what
they read kept in `calls`. `Reject` and `Remove` save twice; `Save` has the
outcomes of `os.WriteFile`, and `StopsMidway` is the early return after the
first. `Restart` may happen at any point, also inside a section that saves
(`Interrupted`), and loads the file as `LoadRegistry` does. The rejected slice
may hold an identity several times and is a count of copies; the order within
slices is abstracted. `banned` is a history variable: what RejectNode reported as
rejected and nobody lifted.

Abstracted: a request is the set of identities it matches (`Queries`), and an
identity an element of a set; `NodeIdentity` says what both are made of.
`RequestShutdown` succeeds
or fails freely here; `NodeSession` says when. Node states in the file are part
of `NodeSession` (`connected` starts as anything the file may hold).

`NodeIdentity` is what the manager reads from a connection: `UniqueKey` is
`GetMetadataUniqueKey`, `HasSignature` and `Signature` are `signatureFromContext`,
with and without mTLS. `AcceptCommand`, `RejectCommand` and `RemoveCommand` are what
the commands of `jack nodes` ask for, and `Matches` is the loop that the three
`GetMatching...` methods share. `MC_Inventory` computes the identities and the
queries of the run from connections and commands with these operators.

### `NodeExecutor` and `TaskLocks`

One action is one blocking operation of `ListenTaskRequest`, of the goroutine it
starts per request, or of that request's timer and watcher.

| Code | Model |
|---|---|
| loop of `src/cmd/node/main.go`, new channels and lock | `Connect`, `Drained` |
| receive loop | `Receive`, `Refuse` and `InstantPing` with `Reply`, `RecvFails` |
| `select` for a slot | `TakeSlot`, `WaitTimeout`, `DropRequest` |
| `exclusiveLock` | `Lock` or `RLock`, `Start` once it is granted, `Unlock` |
| `doTask`, `stream.Send` | `Finish`, `Answer` |
| deferred functions, last in first out | `Unlock`, `FreeSlot`, `Leave` |
| timer and watcher | `TimerExpires`, `WatcherFires`, `WatcherEnds`, `WatcherSends` |
| signal, graceful shutdown, restart | `Shutdown`, `Quit` |

`queue`, `tasks` and `writeTasks` are the lengths of the three channels; the
count of `wg` moves with `queue`, in the same two places, and is not a variable
of its own. `writer` and `readers` are the RWMutex as Go documents it: a writer
that announced itself holds back new readers, and its `Unlock` admits the readers
that wait. A timer that was stopped leaves no value behind (go.mod asks for Go
1.25, whose timers work so). `told` records which requests were answered.

Abstracted: what a task does (it ends some time), the lookup of its lock mode (any
mode, chosen when the request is read), what an answer says: `PluginTasks` has these. A mode
that is unspecified takes the write slot and the read lock, which is "write" here. A
process that is killed without running its deferred functions is not modelled:
its plugins are processes of their own and may survive it.

`TaskLocks` is the promise of the lock modes in `src/sdk/task.go`.

### `TaskRouting`, `TaskDelivery`, `JobStore` and `Targeting`

A task's way through the manager. Each call of the forwarder is made once; its
worker for node `n` is the task `<<c, n>>`, which is the request's ID on the wire.

| Code | Model |
|---|---|
| `GRPCForwarder.ExecTask`: `TargetedNodes`, `storeRequest`, the workers | `ExecTask`, with `StoreRequest` and `StartWorkers` |
| `CollectNodesSpecs`, one round; `SetSpec` | `CollectNodesSpecs`, `CollectSpecs`, `SetSpec` |
| `Dispatcher.Send` | `Send`, then `TakeTask` or `SendTimeout` |
| a worker's wait for its answer | `ReceiveResponse`, `WaitTimeout` |
| `RegisterNode`, `UnregisterNode`, `Close` under the lock | `Announce`, then `RegisterNode`, `UnregisterNode`, `Close` |
| `dispatchRequestsToNode` | `GetTasksChannel`, `TakeTask`, `SendTask`, `AddRoute`, `LeaveLoop` |
| its cleanup goroutine | `CleanUpRoute` |
| responder, `storeResult`, `dispatchNodeResponse` | `Receive`, `Route`, `StopReceiving` |
| a node's answers; the stream's end | `due`, `LinkBreaks` |

`pc`, `res` and `ch` are a worker's place, its report and its response channel;
`Readers` are the workers that hold the RWMutex while they offer, `writer` who has
announced `Lock`. A timer may fire at any time, at once included, and the messages
of a stream arrive in any order: what a node may still say of a task is the set
`due`. `NodeSession` has the details of a stream that are left out here (duplicate
streams, the shutdown channel, operators).

`TaskDelivery` is the promise made to callers: a task is delivered at most once; its
answer is recorded or lost, once and after delivery, possibly after its caller gave
up; and the caller is told one thing, once, that agrees with both: "disconnected" or
"disconnecting" only of what was not and will not be delivered, an answer only when it
is recorded or its loss was logged. Only a timeout says nothing: the task may be
delivered after it, because a worker waits from the moment the handler took its task
(`TakeTask`), and the handler sends it later (`SendTask`). In `TaskRouting` a task was
asked for when its worker was started, delivered when it is in `sent`, recorded when
it has a result, expired or not, lost when it is in `unrecorded`, and `res` is what
its caller was told.

`JobStore` has the database. `StoreRequest` and `StoreResult` are each one transaction
that is written (`WriteRequest`; `WriteResult`, the result and its group) or fails
(`FailToWrite`), which is only logged: what could not be written is in `unrecorded`.
`storeResult` runs under `dbMutex` (`manager/server/server.go:92`), so that two results
of one group do not conflict, but `db.Update` fails when the answer cannot be encoded,
the disk is full or the database closed. `ExpireOldest` is the TTL, which is the same
for requests and results: entries go in the order in which they were written, and
the entry of a group goes only while it has the TTL it was created with. `RequestIDOf`
and `Shown` are what `jack results get` follows, `ListResults` has its filters, offset
and limit, `ListRequest` the flags of `jack results list`. Request IDs are UnixNano
readings: `IdOrders` are the orders in which they may be drawn, and they are
distinct. Entries are read by key, iteration is by descending key.

`Targeting` is the dispatcher's evaluation of a target: exact, list, glob, regular
expression, and the query language with its OR groups and AND conditions on IDs and
specs. A glob or an expression is the set of names it matches, or one that does
not compile. `Satisfies` says what a filter means, independently of the code.

### `PluginSync` and `SpecCollection`

| Code | Model |
|---|---|
| `plugins:sync`, hand-over on unbuffered channels | `Ask`, `TakeRequest`, `Respond` |
| `updatePlugins`: `ListNodePlugins` with its cache | `ListPlugins`, `LoadPluginsPolicies` |
| `DownloadPlugins` | `Download`, file by file |
| `Loader.Update`: discovery, new and outdated files, removal | `Discover`, `InstallNew`, `Kill`, `Unregister`, `Reload`, `Installed`, `Keep`, `Remove`, `Removed` |
| the wake-up of the collector | `Notify` |
| `StartSpecCollector` | `Names`, `CollectSpecs`, `Collected`, `Tick`, `EndCollector` |
| process start, signal, end, crash | `Start`, `Stop`, `Exit`, `Crash`, `Restart` |
| administrator | `Administrate`: files and `plugins.yaml` change meanwhile |

Each step of `Update` may fail where the code can return an error: the query, a
download (which may leave a part of the file, `Partial`), the rename, the load.
Between `Kill` and `Unregister` the registry serves a plugin that was stopped: the
collector may come to it there, and has nothing of it (`CollectSpecs`).
`disk` survives the process, `loaded` and `registry` do not. `Remove` ends the
process: that is what the code does (see the findings).

Abstracted: a plugin's name and its file are one (updates keep the name and no
builtin has it); a version is its own checksum; patterns of `plugins.yaml` are the
files they give.

`SpecCollection` says what the collector gets of one plugin: which functions
`MustRegisterSpecCollector` takes, what calling them may do, and what `CollectSpecs`
returns of values, errors and panics. `MC_PluginSync` computes with it which
versions gather specs at all.

### `PluginTasks`, `TaskCall`, `Command` and `WebApi`

`PluginTasks` EXTENDS `NodeExecutor` and gives its requests something to run:
`Read` settles the lock mode when the request is read (`EffectiveLockMode`; the
instant ping, which is answered at once, is the whole name "health:instant-ping"),
`LookUp` is the second look at the registry in `doTask`, `Call` is `Do`, in the
node's process for a builtin and over gRPC for the others, `Replace` what
`plugins:sync` does to the registry while it runs (`RegistryStable` of `PluginSync`
is what allows this abstraction), `QuitTasks` the next process. The builtins `cmd`,
`health`, `plugins` and `specs` have the lock modes and the ways of ending that
their code declares.

`TaskCall` is the SDK: `Registrable` and `Served` for what a plugin registers,
`HandleInputs` for the conversion of arguments and options by reflection, `Do` for
what a call returns, panics included, `DoOverGRPC` for what is left of it over the
wire. A type is what the conversion can tell apart: its kind, and which values
already have it or convert to it.

`Command` turns the command line of `jack run` into the request: positional words and
options (`ParseArgs`), the targeting flags, the lock mode. `WebApi` is what the HTTP
API lets through: htpasswd, roles and permissions, the two handlers, and the
gateway's routes, so that what was judged and the call it becomes can be compared.

### `ManagerProcess`

The steps of `run` in the order of the code, each with its failure; the four
servers, which may fail at any point and send a notice on `closeCh`; the signal;
the last select; the deferred calls in reverse order (`Deferred`); the socket file,
which outlives the process; the variable `err` that two goroutines of servers share
with `run`; and systemd, which starts what ended with a failure. `socket = "left"`
marks a file whose process could not close it, `"stray"` one that could have.

## 4. What is checked

| Run | Question | Result |
|---|---|---|
| `NodeSession` | `OneSessionPerNode`, `ClosesOwnOpenChannel`, `ResponderWithinSession`, `ShutdownChannelIsOpen`, `DispatchableMatchesChannel`, `ConnectedHasSession`, refinement `ImplementsSlot`; under fairness `SessionEnds` | holds, 615,117 states |
| `NodeSession_reconnect` | "after a node disconnects and reconnects, tasks are routed correctly again" | violated: `range` over a nil channel keeps the place for ever |
| `Inventory_safety` | types, `CandidateNotRejected`, `RejectionHolds`, `FileIsCurrent`, `NoIdentitySwap` | holds, 598,866 states |
| `Inventory_torn` | "A rejected node cannot register anymore unless explicitly accepted", with truncated files | violated: an empty file forgets the rejection |
| `NodeExecutor` | `ModesRespected`, `PlacesAccounted`, refinement `ImplementsTaskLocks`; under fairness `EveryRequestAnswered`, `ListenerReturns` | holds, 58,814 states |
| `TaskRouting_safety` | types, `ReportedIsStored`, `KeptIsListedOnce`, `ResponderNeverWaits`, `QuerySelectsSatisfying`, `ResultLeadsToRequest`, refinement `ImplementsDelivery` | holds, 2,625,636 states |
| `TaskRouting_live` | `PagesCoverListing`; under fairness `CallReturns`, `PlaceIsFreed` | holds, 183,206 states |
| `PluginSync` | `RegistryServesLive`, `AliveRunsDiskVersion`, `RegistryStable`; under fairness `SyncAnswered`, `GoroutinesEnd`, `StaleSpecsLeave` | holds, 93,163 states |
| `PluginSync_removal` | "It adds, updates and removes the plugins following the manager configuration" | violated: a removal panics the node |
| `PluginTasks` | `TaskKeepsPlugin`, `OnlyPermittedRun`, `SuccessMeansEnded` | holds, 762,865 states |
| `PluginTasks_lockmode` | "Precedence order: override from request, default mode set at task level" | violated: the manager does not pass the override on |
| `ManagerProcess` | `DatabaseOutlivesServers`; under fairness `OneStopsAll`, `ComesBack` | holds, 2,075 states |

Each property of a passing run has a fault it catches: the operators marked
`fault:` are plausible slips (a result not awaited, a key not cleared, an
off-by-one) in place of the definition that follows them.

### Bounds

* `NodeSession`: one node, two streams, one operator, at most one unanswered task.
  Actions relate streams only through the map entries of their common node, and two
  streams already give a live session and a newcomer at every point of the other;
  a slot is used again without limit, so runs of any number of reconnections are
  covered. The proofs cover every number.
* `Inventory`: one ID, two identities of it (two addresses, one key), two overlapping
  requests, queries by ID (by address too in `Inventory_torn`; the proofs have any
  queries), two copies in the rejected list
  (`MaxCopies` blocks a third `Reject`; two is where "one copy left" differs from
  "none left"). Identities with different IDs share only the file. Restarts and
  failed saves are not bounded.
* `NodeExecutor`: two requests of any mode, one slot for ordinary tasks and two
  places in the queue: a task and one that waits for its slot or for the lock.
  Streams, shutdowns and restarts are not bounded. The proofs cover every number.
* `TaskRouting`: one call beside one round of the collector, to two nodes (safety) and
  to one (liveness), two streams (`MaxSessions`), two workers that set out
  (`MaxWorkers`) and one write that fails (`MaxFailures`): enough for a node that goes
  away and is back while a task is on its way, for two answers of one group of which
  one, or whose request, could not be written, and for a full response channel.
  Entries expire when no worker runs. The listing is looked at in every state of the
  liveness run: at most three entries (the group of the call, its task, the
  collector's task) in pages of two, under two orders of the IDs; the listings cut at
  a limit, skip an offset, choose dates and choose a node. Its proof has any number
  of entries. Calls end and streams are counted, so
  that this model may stop: the two runs do not look for deadlock.
* `PluginSync`: one file, two versions, three changes of the administrator
  (`MaxChanges`), which may come between the listing and the download; the run for
  the removal has two files and one change. Files share only the directory's listing
  and the loops of `Update` over them, of which the proofs have any number. Stops,
  crashes, restarts and synchronisations are not bounded.
* `PluginTasks`: two requests, of which one may be `plugins:sync`; one plugin with
  programs of which two are served, one of them registered under one name twice; users
  with a right, an old, an empty password, other methods and paths; commands for the
  plugin, for the synchronisation and for the instant ping, with positional words and
  options that fit, that do not, and that panic.
* `ManagerProcess`: three failures in a history of any length, with the HTTP API on.
  One for a server that fails while `run` starts, one for a kill, one for the start
  that follows.
* Symmetry is used in safety runs only, over nodes, requests, calls or addresses
  none of which an action or property names. With `IdOrders`, closed under swapping
  nodes, the IDs of `TaskRouting` name none either.

### Fairness

`NodeSession`: a goroutine that can go on does (weak fairness of each call's two
goroutines), and every dispatchable node is sent a task again and again:
`CollectNodesSpecs` does so every minute. `Recv` returns in the end when a request is
unanswered: a node answers every request, with a timeout if need be, and the server's
keepalive breaks the stream of a node that is gone. Nothing is assumed of nodes
connecting, of connections breaking, or of operators' calls. `SessionEnds` is about a
node's place, whichever of its streams has it, and starts from a handler that ranges
over its own channel; `BrokenStreamFreesNode` shows that the restriction is needed.

`NodeExecutor`: goroutines go on, timers expire, and tasks end (`TasksEnd`): the
code does not enforce the last, so both liveness properties rest on it. No fairness
among the senders on a channel is needed, as a request that never gets a slot times
out.

`TaskRouting`: workers, handlers, responders go on, timers fire. Go's RWMutex
admits an announced writer when its readers left, and readers after it, so weak
fairness is enough. Nothing is assumed of nodes: they may never answer.
`PlaceIsFreed` excepts the handler that fetched a closed channel, which is the
finding of `NodeSession_reconnect`.

`PluginSync`: the two goroutines go on, and a `select` with two ready cases takes
each in the end (strong fairness of the ends of the two, whose context case competes
with the others). Calls to the manager and to a plugin's process end: they have
timeouts, or their connection breaks.

`ManagerProcess`: `run` goes on, systemd restarts, and downloads end; `Shutdown` has
no limit of its own for the last.

### Findings

| Run | What the code does |
|---|---|
| `NodeSession_reconnect` | a stream that is broken when its handler starts leaves the handler on a nil channel, and the node is refused as a duplicate until the manager restarts |
| `Inventory_torn` | a registry save that is cut short forgets every rejection at the next start |
| `PluginSync_removal` | the first plugin to be removed crashes the node, which loads it again when it is restarted |
| `PluginTasks_lockmode` | `--lock-mode` never reaches the node |

## 5. What is proved

Seven modules `*_proofs`, one per state machine, for every value of the constants
that the named assumptions allow: every safety property of the passing runs, and each
of their refinements. `NatRecursion` has what they need of numbers: least and greatest
elements, induction over a set of numbers (`SetInduction`, in the place of the
library's induction over an operator), and that a recursion over an interval defines
a function (`RecursionExists`). With these, what a recursive function computes is
proved for every input.

`NodeSession_proofs`: every safety property of the run and the refinement of
`NodeSlot`, for any sets of nodes, streams and operators and any bound on tasks. The
properties are not inductive one by one: that `Close` finds its own open channel
depends on no other call having registered the node, which depends on the entry
staying in the map until `UnregisterNode`, which depends on the handler waiting for
its responder. `SessionInv` states these together:

* `Together`: a responder runs exactly while its handler is between starting it
  and reading `errCh`;
* `EntryOfSession` and `SessionOfEntry`: the entry of a node in session is the
  call's channel until `Close`, nil afterwards, and an open entry has a session;
* `ClosedIsReported`, `FlagIsEntry`: closed channels are those of responders about
  to report, and the flag follows the entry;
* with `OneSessionPerNode`, `ShutdownChannelIsOpen` and `ConnectedHasSession`.

The assumptions are `StreamNames` (the markers "nil" and "absent" are no streams)
and `TaskBound`. The refinement maps `RegisterNode` to `Take`, `Close` to `Shut`,
`UnregisterNode` to `Free` and every other step to a stutter.

`Inventory_proofs`: the properties of `Inventory_safety` for any IDs, identities,
queries and number of overlapping requests, by way of `StepEffect`: whatever requests
do, a step changes the lists by one method of `inventory.Nodes`, or is a restart.
`RejectionSurvives` assumes that saves are not torn (`~TornWrites`), which
`Inventory_torn` shows is needed; its invariant `BanInv` says that memory *and* file
have the identity out, so that older images left by failed saves, and the image
between two saves, have it out as well. The assumptions are `IdsAssumption` and
`BoundAssumption`.

`NodeExecutor_proofs`: the safety properties and the refinement of `TaskLocks`, for
any finite set of requests and any positive limits (`RequestsAssumption`,
`LimitsAssumption`). `ExecutorInv` ties the counters and the lock to the program
counters: `PlacesAccounted` counts who has a place, `LockOwners` and `LockHeld` say
who announced, got and still has the lock, and `NothingWhileOffline` that the
listener waited for everybody, which is what makes new channels and a new lock
safe. Two writers are kept apart by the one write slot (`OneWriteSlot`), an
exclusive task and any other by the lock.

`TaskRouting_proofs` rests on three invariants, for any calls, nodes, requests, filters
and orders of the IDs.

* `RoutingInv` follows a task: a worker without a report has told nothing, and what
  was sent was taken from a worker (`WorkersInOrder`); what a handler has taken and not
  sent yet was not refused (`HandedOver`), and a refused task was not sent
  (`RefusedNeverSent`); an answer was recorded, or its write failed, from the moment it
  was received (`AnswersRecorded`); and a channel with a route, or one the handler is
  about to add, is empty (`RoutesLeadToRoom`). `ReportedIsStored` and `ResponderNeverWaits` follow.
* `StoreInv` follows a call in the job database: a request that is kept has the nodes
  of the workers that set out as connected (`AskedIsRecorded`) and goes before the
  results of its call, none of which has expired (`RequestsExpireFirst`); a task that
  was not sent has no result and lost none, nor has one whose answer is still to come
  (`AnsweredOnce`); of what waits for expiry, each task was recorded
  (`OrderHasResults`); a group names results of its own call, each once, and has a TTL
  only while it names no other than the result that ends it (`GroupsNameResults`); and
  every kept result is named (`KeptIsMember`). `TypeOK`, `KeptIsListedOnce` and
  `ResultLeadsToRequest` follow. `AnsweredOnce` is what makes a member of a group
  appear once, and the bound on the TTL is what keeps an expiry from taking a group
  with kept members. A request may have expired, or never been written, while its
  answers are kept: `ResultLeadsToRequest` then says that no other is shown.
* `SentInv` follows a node's word: no report, channel or responder holds an answer to
  a task that was not sent.

Together they give the refinement, `DeliveryRefined`: `ExecTask` and the collector's
round are `Ask` (`CallsAsk`), each end of a worker is `Tell` (`WorkerTells`), `SendTask`
is `Deliver` when the stream takes the request (`HandlerDelivers`), `Receive` is
`Record` or `Lose` for an answer (`ResponderRecords`), and every other step, `TakeTask`
and expiry included, is a stutter.

Two results are about pure functions. `QueriesSelect`: the loops over groups and
conditions are shown equal to a set by induction over their length (`AndGroupSelects`,
`QueryMerges`), so that a query selects what satisfies it. `PagesCover`: the i-th key
of a listing is the one with i - 1 newer ones (`KeysByPlace`: distinct IDs in a finite
set take every place, `PlacesTaken`), and `PageHolds` says what the loop of
`ListResults` holds after each key. The assumptions are on constants:
`CollectorAssumption`, `KeysAssumption`, `IdAssumption` (IDs are distinct and a group's
comes before its tasks'), `PageAssumption`, `FailuresAssumption`, `FiniteAssumption`, `EntriesAssumption` and
`NoneAssumption` (the marker None is no value), `BoundAssumption`, `SpecsAssumption`,
`RequestAssumption` (Nodes has every name a request gives), `QueriesAssumption` (a
filter is a sequence of sequences), `ListingsAssumption` (offsets, limits and dates are
numbers that are not negative: the code takes a negative one for 0).

`PluginSync_proofs`: `RegistryServesLive`, `AliveRunsDiskVersion` and
`RegistryStable`, for any files and versions (`ContentsAssumption`,
`PublishedAssumption`, `ChangesAssumption`). `RegistryServesLive` says where a stopped plugin
may be met in the registry: between `Kill` and `Unregister`, under a task that waits.
`SyncInv` adds that the keeper works for a task that waits (`WorksForCaller`) and that
what it reloads was stopped and unregistered (`ReloadsStopped`).

`PluginTasks_proofs`: `ExecutorRefined`, the executor with its plugins behaves like
the executor alone, so that `ModesHold` follows from `NodeExecutor_proofs` without a
new argument; then `TaskKeepsPlugin`, from `TasksInv`: a plugin in use is that of a
task that runs (`UseInRun`), and `plugins:sync` has the exclusive mode whatever its
request says (`SyncIsExclusive`), hence runs alone. `OnlyPermittedRun` comes from
`UnderWayWasForwarded` and from what `WebApi` forwards. `CallsArePermitted` says of
the other calls of the gateway that each was judged under its own name.
`SuccessMeansEnded` comes from `OutcomesInv`, which keeps that what a request runs is
a plugin that was served or a builtin, and from `DoEnds`: whatever the arguments, `Do`
and what gRPC leaves of it return an error or the end of the function, unless the call
may panic. The assumptions are those of the executor, `NamesAssumption` (no plugin has
a builtin's name: the registry refuses it), `ProgramsAssumption` and
`InputsAssumption` (programs and inputs are lists of what their types say).

`ManagerProcess_proofs`: types and `DatabaseOutlivesServers`, with
where `run` is while each of the two servers serves (`ClusterSpan`, `RelaySpan`)
and that it has the database from its first step to the last (`OpenWhileRunning`).

Only model-checked:

* liveness, which needs fairness and ENABLED: `SessionEnds`, `EveryRequestAnswered`,
  `ListenerReturns`, `CallReturns`, `PlaceIsFreed`, `SyncAnswered`, `GoroutinesEnd`,
  `StaleSpecsLeave`, `OneStopsAll`, `ComesBack`.

The runs named `..._torn`, `..._reconnect`, `..._removal` and `..._lockmode` show
that what they check does not hold; nothing is proved of them.

## 6. What is not modelled

* Configuration, logging, TLS settings: read once; what bounds something is a
  constant of a module.
* Generated code for messages and gRPC stubs: encoding and plumbing. Only the
  gateway's routes decide something, and `WebApi` has them.
* The command line's rendering, its completion, `nodes list`, and its dialling: they
  print what they got.
* The HTTP transport of the gateway and of the file server, and the gRPC plumbing to a
  plugin's process, but for its failures (`DoOverGRPC`).
* Running a plugin by hand, help texts, and the demo plugin.
* `stdplugin`: Go's own `.so` plugins, which the node loads once, at its start, into
  its own process, and which never change after that.
* The time stamps of a node's state, which only `nodes list` shows.
* Clocks: IDs that collide because two readings of the clock are equal.
* `dbGC`, which only reclaims space.

`PROJECT.json` has the reason per component.

## 7. What was seen while modelling

What the code does in corners that no run holds against a document. Paths as above.

**Sessions and inventory.** A shutdown requested before the responder read its
channel, or between the wait for registration and `RegisterNode`, is lost, and the
rejected node keeps its session (`manager/server/server.go:197`). `RejectNode` skips
an accepted node that has no stream (`manager/management/node.go:151`). `Handshake`
may leave an identity both accepted and candidate
(`manager/server/handshake.go:78`). The node's listener returns for good when the
manager answers `codes.Canceled` (`src/cmd/node/main.go:112`).

**Routing and results.** `Send` holds the read lock up to the task's timeout
(`manager/forwarder/dispatcher.go:107`), so that a worker may wait for two timeouts
while the command line waits for one and a second. An answer that is faster than the
registration of its channel is stored, and its caller told of a timeout. A caller may
be told of a timeout although its task is sent only after that, when the handler had
taken it (`manager/server/server.go:161`, `:163`). A result that cannot be written is
only logged, and its answer goes to the caller (`:149`); so is a request
(`manager/forwarder/forwarder.go:65`). A group's
entry is updated without a TTL (`manager/server/server.go:141`); a request's entry
expires before its results, and a group that was updated does not expire at all; `results get` of a group fails once a member expired.
One OR group of a query that matches nothing fails the whole query
(`dispatcher.go:239`).

**Plugins.** A download that breaks leaves a part of the file, which the update
takes for a new version without looking at its checksum
(`plugin/loader/hcplugin/hcplugin.go:195`). After a failed reload a stopped plugin
whose old version is wanted again counts as up to date (`:219`). A plugin that is
replaced is stopped before it is unregistered (`:277`): the collector, and the lookup of
a lock mode, may call it while its process is gone. The answer of
`plugins:sync` does not tell of the errors of single files. A request for a
synchronisation that is not taken up waits without a timeout
(`plugin/builtin/plugin_mgmt.go:93`). A graceful end of the node does not stop the
plugins' processes when its goroutines end in time.

**Tasks.** The recover in `Plugin.Do` answers a panic with an empty response and no
error (`src/sdk/task.go:222`), so that it reads as a success: `cmd:run` of a comment
does that. The same recover in `CollectSpecs` loses all specs of a plugin for one
function that panics. `MustRegisterTask` does not look at the first two parameters.
A composite argument is only taken as a string of JSON. When the lock mode cannot be
asked for, the task runs without a lock (`node/node.go:327`). A request that has its
slot and waits for the lock gets no timeout answer (`node/node.go:253`).
`plugins:sync` would not run alone if a request's lock mode were passed on and were
"none": `TaskKeepsPlugin` would not survive the simple repair of the lock mode.

**Manager.** A manager that was killed leaves its socket file, and every later start
fails on it (`src/cmd/manager/cli_handler.go:17`); so does one whose `run` takes the
plugin server's error for that of its listener (`src/cmd/manager/main.go:162`).
`ComesBack` excepts both, so that what it catches is a start that leaves its file for
another reason, as one that cannot secure it. `run` returns nil when a server
failed, so that `Restart=on-failure` does not restart it. `err` is written by two
goroutines without synchronisation (`src/cmd/manager/main.go:146`, `:162`, `:170`).
The permissions of the packaged `src/sandbox/authorization.yaml` are written with a
colon, while `parsePermission` (`api/permission.go:36`) takes only a dot.
