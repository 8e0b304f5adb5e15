# SharX: models, checks and proofs

SharX is a panel that manages a fleet of Xray servers: a Go program with a
PostgreSQL database, worker agents on other hosts, balancer agents, a mesh
overlay (WireGuard and etcd), a subscription service and a Next.js front end.
This directory holds TLA+ models of the parts whose correctness depends on the
order of things: what is interrupted, retried, done by two actors at once, or
undone after a crash, on the server (Go) and in the browser (TypeScript), and of
the algorithms on layouts and documents these parts rest on. Paths are relative to
`src/`.

## Inventory

| Component | State it keeps | Operations | What is hard, and what makes it correct |
|---|---|---|---|
| **Docker update job** `web/service/docker_update_job.go` | `dockerUpdateRunner.job/running`; the same job as JSON in a setting | `Start`, `Resume` (8 s after boot), `run`, one goroutine per node and balancer, `flagStuckNodes`, `updatePanel` | the panel is killed in the middle of its own job; parallel workers save snapshots outside the lock; late trigger answers. One run at a time, triggers persisted before they are sent, verdicts from facts, the panel last and once, every job closed |
| **Mesh relays** `mesh/relay.go` | `relays.json` and its copy in memory, forwarding rules on every entry, host rows of the database | `setRelay`, `finishRelay`, `reconcileRelays`, `update`, `remove` | a multi-step change over a database, files and several agents, each step of which may fail; the operator edits the same hosts. Published relays are backed by rules; originals are given back |
| **Mesh cycle** `mesh/reconcile.go`, `mesh/controller.go` | flags, observations, `ip-pending.json`, health | `cycle`, `reconcileIPs`, `reconcileBalancer`, `probe` | journaled changes of IP cross relay operations; errors end a pass |
| **Mesh membership** `mesh/membership.go` | `operation.json`, `bootstrap.json`, etcd members | bootstrap, add, promote, remove, records | at most one journaled operation, resumed by the cycle; quorum kept; at least three voters stay |
| **Mesh agent and protocol** `mesh/agent`, `mesh/protocol`, `mesh/embedded` | routes, peers, probe windows | `NextHops`, `Tracker.Update`, forwarding | no routing loops, hysteresis without flapping |
| **Bundles, hosts, HostSync** `web/service/bundle.go`, `bundle_hosts.go`, `host_sync.go` | bundles, placements, hosts, client access | recompute, sync, update/reset/delete of a host | sync must not overwrite edits; triggers are coalesced; a diff must equal recomputation |
| **Balancer** `web/service/balancer.go`, `balancer_weight.go`, `balancer/engine` | spec and hashes in the database; the agent's files, child process and rendered spec | apply, reconcile, auto weights; engine apply, reload, supervise, restore | a restart that sleeps races an apply; a reload that fails after the file is swapped; pushes the panel has given up; an agent that dies in between. One engine, which serves what the agent reports and ends up serving what the panel wants |
| **Worker agents** `node/` | Xray, AmneziaWG and telemt processes, pulled configuration, log buffers | process managers, config pull, log pusher | restarts against configuration pushes |
| **Clients and traffic** `web/service/client*.go`, `web/job` | counters, limits, sessions in SQL | traffic collection, limits, blocks, resets | deltas of several nodes, resets against collection |
| **Authentication and RBAC** `web/authn`, `web/rbac`, `web/service/sso*.go` | roles, sessions, provider rules | login, resync, evaluation | rules over external providers |
| **Subscription service** `sub/` | none of its own (reads hosts, clients) | render a subscription | formatting |
| **Dashboard grid engine** `panel/lib/dashboardGrid.ts` | none: pure functions on lists of placed tiles | reconcile, compact, move, resize, add, remove and fill, auto-arrange, derive for tablet and phone, validate | one gesture displaces many tiles; limits differ per tile and per width. Never an overlap, a lost tile or a tile out of bounds; the tile in hand goes where it was dragged |
| **Dashboard board** `GridBoard.tsx`, `DashboardPage.tsx` | stored layout, tiles on screen, the gesture with its base and preview | drag, resize, keyboard, tile menu, drop, cancel, write-back effect, arrange, insert, remove | handlers hold the layout of an older render; tiles hide and come back under a gesture; the write-back must settle |
| **Workspace autosave** `DashboardPage.tsx`, `dashboardBuilder.ts`, `uiPrefs.ts` | workspace of boards, the board on screen, the label, a timer, requests under way; the preference on the panel | open, restore, switch, add and remove boards, edit, post after 500 ms, `Done` | requests overlap, fail, or answer late; a failed read looks like a fresh install. Boards are never lost or mixed up, "Saved" is true |
| **Designer library** `designer/useLibrary.ts`, `lib/subLayout/library.ts` | items with versions and tombstones in memory and in localStorage, a dirty flag, a timer, a running sync; the panel's copy | save, update, delete, duplicate, import, sync, reopen | many browsers and no version check; failures and reloads between any two steps. No edit is lost, "saved" is true |
| **Designer document and history** `lib/subLayout/tree.ts`, `designer/state.ts`, `SubDesigner.tsx`, `Canvas.tsx`, `Layers.tsx` | document tree, selection, past, future, clipboard, a drag, a save under way | insert, move, wrap, unwrap, duplicate, paste, shift, restyle, import, undo, redo, drag and drop, save | a drag holds what it saw at pointerdown while the keyboard goes on working. The tree stays a tree; the history is an undo list |
| **Live lists** `web/websocket/hub.go`, `web/controller/websocket.go`, `panel/lib/useWebSocket.ts`, `InboundsPage.tsx` | clients, their buffers and the channels of the hub; pumps of each connection; a socket client; the rows of a page | register, unregister, broadcast, throttle; reconnect; load, show | broadcasts are skipped, dropped, made from old reads, or sent to a dead connection; register and unregister are not ordered. The page catches up, dead connections are forgotten |
| **Panel: other pages and forms, public page** `panel/components` | fetched rows, form state | fetch, poll, edit, submit | forms over the API |
| **Logger, other jobs, migrations, vendored telemt** | buffers, schema | rotate, migrate | no core state, or third party |

How they interact: the controller of the mesh calls the panel through an RPC
bridge in the same process (`hosts`, `ports`, `node-ip`, `host-patch`) and the
agents over HTTP or SSH; operators and HostSync write the same host rows in
between. The update job calls agents over HTTP, and one of these calls ends in
the panel's own process being recreated. The panel's balancer service calls the
agent, whose supervisor acts on its own. The subscription service reads what all
of them left in the database. The browser keeps the dashboard and the designer's
library as JSON preferences of the panel, which stores what it is sent and compares
nothing: two tabs or browsers meet only there. Whoever changes the inbounds broadcasts
the list through the hub, and a job does so every second. The board calls the grid engine in
every render and handler; the page saves what the board commits.

## Modules

| Module | Models | Uses |
|---|---|---|
| `DockerUpdate` | the update job, with its workers, saves, restarts of the panel and of the units | |
| `MeshRelay` | relays, their journal, the cycle around them, hosts and their other writers | |
| `DashboardGrid` | the grid engine as operators on sequences of places | |
| `GridBoard` | the board: rendering, gestures, write-back | `DashboardGrid` |
| `TilePacking` | abstract: each tile is put in a free place where it rests | |
| `GridPacking` | the loops of `compact` and `settle`, one step per iteration | refines `TilePacking` |
| `DashboardSave` | the boards of a user, their autosave, the panel's preference | |
| `DesignerLibrary` | the library in several browsers and on the panel | |
| `DesignerTree` | the document tree and its operations, as operators | |
| `UndoList` | abstract: a list of states with a current position, bounded | |
| `DesignerHistory` | the reducer: document, selection, past, future, bursts | refines `UndoList` |
| `DesignerDoc` | the designer: every command, drag and save | `DesignerHistory`, `DesignerTree` |
| `LiveInbounds` | the hub, the connections, the socket client and the page of the inbounds | |
| `BalancerEngine` | the panel's pushes to one balancer, the agent's engine manager, its engine processes and files | |
| `MCMeshRelay`, `MCBalancerEngine`, `MCGridBoard`, `MCGridPacking`, `MCDashboardSave`, `MCDesignerLibrary`, `MCDesignerDoc` | constants of the runs | their module |
| `DockerUpdate_proofs`, `MeshRelay_proofs`, `GridBoard_proofs`, `DashboardSave_proofs`, `GridPacking_proofs`, `DesignerLibrary_proofs`, `DesignerHistory_proofs`, `BalancerEngine_proofs` | theorems | their module, `TLAPS` |

In each module an operator named `...AsPhase`, `...Never`, `...Blindly` and so on,
under a comment that starts with "Fault:", is a plausible mistake in the
definition that follows it. It is not part of the specification: it is what
`PROJECT.json` substitutes to see that a property can fail.

### DockerUpdate

`job`, `running` and `disk` are the runner's fields and the persisted setting.
A *run* is an execution of `run`, started by a caller of `Start` or by `Resume`
(the run `Boot`). Its threads are the goroutine itself (`main`, the phases in the
order of the code) and one goroutine per unit (`wpc`: `updateOneNode`, and
`updateOneBalancer`, which is the same line for line). `call` is the goroutine
that waits for a trigger's answer.

`update()` changes the job under the lock and saves a copy after the unlock:
`Update` hands the copy to `unsaved[run][thread]`, `Save` writes it, and the
thread cannot go on before (`Free`). So saves of different threads are reordered
as they are in the code. Every early return is an action or a disjunct:
`StartFails` (two listing errors), a `Load` that fails in `ResumeLoad`, `NotFound`, the resumed path `VerifyOnly`, a
rejected trigger in `Select`, the three outcomes of a probe, the deadline.

Time is abstracted to what it decides: whether a deadline has passed
(`expired`), whether the settle period has begun (its end is a choice), whether a
persisted job is too old (a choice of `ResumeAbandon` or `ResumeRun`). Versions
are numbers, 0 is the empty string. Phase names, messages and `PrepWorkers` /
`FinishWorkers` (a push of configurations whose error is ignored) are left out.

The world is modelled from what the code observes: a unit goes down and comes up,
with another version only if its updater was asked; the panel's process dies at
any point (`PanelDown`) and is started again. A unit moves only while a goroutine
watches it, because nobody looks at it at other times.

### MeshRelay

`host` and `inb` are rows of the database, `fwd` the rules in force on each entry,
`journal` and `relays` the file `relays.json` and its copy in memory. `pc` is
where the single controller goroutine is: in `reconcileIPs` (`ips...`), finishing
journaled operations (`recover`), deciding an exit (`decide`, which is
`setRelay`), extending a relay to new hosts (`extend`), or inside `finishRelay`
(`push`, `read`, `patch`, `unpush`, `commit`), after which it returns to where it
was called from (`ret`). An operator's change of mode runs the same code from
`update` (`pass`). Any call or save may fail, which ends the pass (`PassFails`);
an entry whose answer is lost has the new rules all the same (`PushForward`).
`Restart` forgets the memory and reads the journal.

Between any two steps the operator edits hosts (`Toggle`, `Move`, `Reset`,
`Delete`), changes an inbound's port, or sets a mode, and `HostSync` rewrites
hosts nobody customized and creates those of new placements. A disabled host, a
host with a raw port of its own and a host that inherits its inbound's port are
distinguished because the code treats them differently.

Ports are small numbers and stand for their stable index in `ports.json`;
`RelayPort` is the code's formula `55000 + 100*slot + index`. Health of a path is
any verdict or none (`Wanted`, and the third alternative of `Decide`), which
covers every history of probes. Settings, enrolment and removal of members, the
etcd registry and the balancer exclusion layer are not part of this module.

### DashboardGrid, GridBoard

A layout is a sequence of `[id, x, y, w, h]`; each operator is one function of
`dashboardGrid.ts` with its order of tiles, since many of them depend on it
(`PlaceWithPriority` settles the tile in hand first, `Reconcile` keeps the stored
order, `Reflow` shelves in reading order). Sizes in pixels, CSS, parsing of stored
layouts, migrations of old versions, the presets and the `phone` option of classic tiles
(a full row on the phone, with rows of their own) are left out; `DefaultSize` and
`Limits` stand for the catalogue's `defaultLayout` and constraints.

`GridBoard` keeps what React keeps: `panels` and `grid` (the layout of the page),
`visible` (which tiles have data), `bp`, `editing`, and `gesture`, which has the
layout at pointerdown (`base`) and the preview computed from it at each pointer
move. `desktop`, `shownDesktop`, `baseLayout` and `shown` are the values of one
render. `WriteBack` is the effect that stores a reconciled layout; it runs when one
of its inputs has changed (`due`). `Commit` is the one exit of all handlers to the
page. Handlers take `live`, the layout they close over.

### GridPacking, TilePacking

`compact` sorts the tiles, settles each onto those already placed, first pushing it
down past colliders (`Jump`, at most `placed.length + 2` times), then letting it
fall up to the lowest floor, and sweeps twice. `GridPacking` steps through these
loops: `Take` (any order of tiles the sort leaves equal), `LookForCollider`, `Jump`,
`NoCollider`, `LookForFloor`, `Float`, `SweepAgain`, `Return`. `TilePacking` is the
promise: a tile is put into a free place above which it cannot go; `RefinesPacking`
maps the placed tiles of the first sweep, then the untouched board of the second.

### DashboardSave

`workspace`, `layout`, `layoutReady` and `layoutSaved` are the state of
`DashboardPage`. `Rendered` is the effect that restarts the 500 ms timer after each
change, `TimerFires` and `Done` send the whole document, `PanelStores` and `Answer`
are the two halves of a request (`posts`), `PostFails` loses it or its answer.
`Open`, `PanelReads`, `Restore`, `Shown` and `Language` are the effect that reads the
preference, which runs again when the language changes. A read that fails restores the
default; settings that throw before it skip the restore (`RestoreSkipped`), and the page
is shown all the same, with the default on screen and `layoutReady` false: no timer
starts, but `Done` posts. `blind` is history: this page could not read the boards.
`Close` leaves the page: the timer is cleared and requests go on. A layout is its place
in the history of edits.
One page per user: a second tab overwrites the first one's document, whole.

### DesignerLibrary

Per browser `t`: `lib`, `dirty`, `status`, `timer` (the debounce), `queue` and
`phase` (the chain of syncs and where the running one is), `cache` (localStorage).
A sync fetches (`PanelReads`), merges by id (`Fetched`, which may be refused for an
unreadable copy, or end because nothing is dirty), posts (`PanelStores`) and takes
the answer (`Saved`, `Fails`). `Reopen` is a reload: memory is gone, the cache is
read. `Mutate` is every change of an item. A version is `[at, rev, data, dead]`; a
tombstone is dropped by merges after `TombstoneAge`. `WriteCache` may be refused by
localStorage (quota, a private window), silently, as in the code. The user edits at any
time, also between a post and its answer. Three histories say what he may count on:
`made`, his last version of each item, `kept`, what of it the cache has taken, and
`late`, the versions he made while a save was on its way. Two tabs of one browser, which
share localStorage, are left out.

### DesignerTree, DesignerHistory, DesignerDoc

A document is a function from ids to nodes `[kind, flow, kids]`; styles, texts and
variables are one `look`. The operators of `DesignerTree` are those of `tree.ts` and
return the document and whether it is a new one, since the reducer treats an
unchanged document differently. `Normalize` is the repair done at loading.
`DesignerHistory` is the reducer: `Commit` pushes the old document unless it
continues a burst of the same key, `Undo`, `Redo`, `Pause` (the end of a burst),
`MarkSaved`. `DesignerDoc` adds the commands (`AddSub` ... `Import`), the drags of the
canvas (`Grab`, `FollowPointer`, `DropBeside`, `DropIn`, `DropNew`) and of the layers
(`GrabLayer`, `DropLayer`), which use the ids or the document of the moment of the
grab, and saves, which may overlap (Ctrl+S does not look) and during which editing goes
on. Geometry is a choice among the targets the code offers. `nid()` never returns an id
somebody still refers to. An element of the library is inserted as it is: `validSubtree`
looks at the shape of its nodes only, so children may be missing, shared or unreachable.
`foreign` is history: such an element was inserted. What the canvas and the layers show,
and the pointer reaches, is `Shown`; `Duplicate` and `Copy` throw on a node with a
missing child (`Copied`). Left out are elements with a cycle below their root, on which
the designer's own walks do not end, and missing ids that a later node happens to get.

### LiveInbounds

The list is its version, `db`. `sender` is what a handler that has changed it, or the
job, does next: read the list (`ReadList`), then `Broadcast` it, which the throttle
(`recent`, 100 ms) or a full channel may suppress. `queue`, `registers` and
`unregisters` are the three channels among which `Hub.Run` selects: `HubRegisters`,
`HubUnregisters`, `HubBroadcasts`. A connection has a buffer (`send`), a `link`, and
two pumps: `Receive` and `WriterEnds` are `writePump`, `ReaderEnds` is `readPump`.
`ws` and `timer` are the client of the browser with its reconnection, `Upgrade` and
`Closed` what its `onopen` and `onclose` do, `resync` and `rows` belong to the page,
`asked` and `answers` to its `load()` calls. A new connection may take the identity of
one that nobody refers to any longer. Left out: closing the client (a page of the
panel stays inside the provider), messages to one user or topic, redaction, lists over
1 MB (which are never broadcast), and the capacity of the two registration channels.

### BalancerEngine

On the panel: `desired` is what `buildSpecFor` makes of the rows now, `due` an `Apply`
that waits for the balancer's mutex (after an edit, or `Reconcile`'s), `call` the POST
it waits for, `config` and `applied` the two hashes of the row, `tried` the throttle
of 30 s. `GiveUp` is the client's timeout of 15 s or a broken connection: the agent may
still be at work (`late`), and cancels the request's context when its server notices that
the connection is closed (`Notice`). A POST is a record of its spec, what it was resolved
to, its answer, whether it holds the lock (`checked`), and what history says of it.

On the agent: `engine`, `rendered`, `cmd`, `want` are fields of `Manager`, `live` and
`stored` its config files and `spec.json`. `Manager.Apply` resolves host names without
the lock (`Resolve`; only nginx needs it) and holds the lock from the comparison of
the texts to the end (`Locked`). `Check` ends with the engine's check (`AlreadyRuns`,
`Rejected`, or `Passes`), the only part the context can stop; `Land` is the rename, the
start or reload and the memory of it (`Lands`, with `StartNew` or `Reload`). A POST given
up takes the same steps (`ResolveLate`, `CheckLate`, `LandLate`): one that has passed the
check lands. The panel's mutex allows one `call` at a time.
Supervision runs beside it: `Supervise` is the return of `cmd.Wait`, `sleepers` the
goroutines that sleep for two seconds with the path they captured, `Wake` what they do
then. `AgentCrash` may hit the middle of a landing; `AgentBoot` is `Restore`.

A process has the program (`bin`) and the file (`path`) it was started with, the
configuration it has read (`conf`), and signals that wait for it (`sig`, `term`):
signals are asynchronous, so it reads its file again in a later step and serves the
old configuration until then. A process that is starting dies of a reload signal, of
a port its predecessor still holds, or of a file that is not its engine's. A spec is a
model value; with the addresses its names resolved to it stands for the rendered text
and for the hash of the resolved spec. `Resolutions` says which lists there may be,
`{}` for an nginx spec that has no pool, which the agent refuses.

Left out: errors of file writes and of `cmd.Start`, `lastErr`, probes of the status
page, weights, `enable`, and the shutdown by `Stop`. Three timings are assumed: an engine
started on the other one's file exits before the next restart wakes (`NoneFailing`),
goroutines that sleep equally long wake in order, and, where `CancelsInTime`, the agent's
server notices a closed connection before the panel's next POST.

## Runs

| Run | Expect | Checks | Bounds, and why they suffice |
|---|---|---|---|
| `docker_update` | pass | `TypeOK`, `VerdictFromFacts`, `PanelTriggeredOnce`, `NoNodeLeftBehind`, `PanelLast`, `LocalAfterRemote`, `TriggerIsPersisted`, `VerdictStands` | one remote node, one on the panel's host, one job, one restart of the panel, two versions, each unit down at most once; the remote node has no stored version, and the listings of `Start` and the load of `Resume` may fail. Both kinds of node, hence both phases; a restart between any two steps; one node ahead of the other |
| `docker_resume` | pass | `OneRunAtATime`, `DoneMeansDone`, `JobEnds` | two balancers, one of them disabled, single-node mode, two jobs, one restart, listings and loads that may fail: Start races Resume, jobs follow each other, the node phases are skipped |
| `mesh_relay` | pass | `TypeOK`, `RelayBacked`, `OriginalKept`, `ManualKept` | two exits (one whose IP changes), two entries, three hosts (one created later, one with a raw port), one edit of any kind, two changes of mode, one failure or restart. Two exits because rules are global; two entries because a push can be half done |
| `mesh_restore` | pass | `JournalKept`, `RestoreCompletes` | the same with one entry and two hosts, under fairness |
| `grid_board` | pass | `ShownValid`, `MovedWhereAsked`, `ReadingOrderKept`, `WriteBackSettles`, `ArrangeFills` | three columns, three stored boards (fresh, stored under older limits with empty rows, a tile beside two others), up to three tiles, one of them with a minimal width and one with a row limit on the phone; one committed change, one tile that hides or shows, one pointer move per gesture (a preview depends on the last one only). Three tiles, so that a push chains |
| `grid_packing` | pass | `Compacted`, `RefinesPacking` | all layouts of three tiles on three columns, rows 0..1, sizes 1..2, overlapping or not |
| `dashboard_save` | pass | `SettledIsStored`, `OnlyBlindLoses`, `SavesSettle` | one page opened any number of times, nothing stored or two boards, `MAX_BOARDS` 3, three changes or presses of `Done`, two requests at once, one fault (a failed read, a skipped restore, a failed save, a page that is left), one change of language, after which the boards are read again; requests arrive in order |
| `designer_library` | pass | `EditSurvives`, `SavedMeansStored`, `SaveIsDue`, `UnreadableKept` | two browsers, two ids (one on the panel at first), two edits at any time, one failed request or reload, one refused write of localStorage, one tick, and tombstones that expire at it. Two edits, so that one can be in the post and one behind it; a refusal, a reload and a merge meet |
| `designer_doc` | pass | `DocLoads`, `MovesAsAsked`, `RefinesUndoList` | a page with a row, a free frame and two leaves; two edits of any kind, one click, grab or save, a library element with a missing child, a shared one and an orphan, an imported document with a cycle besides; `LIMIT` 1, so that the history is cut |
| `live_inbounds` | pass | `CatchesUp`, `DeadForgotten` | two connections (an old one and its successor), one handler and the job, buffers of one message (so that they fill), one change, one fault: a cut, a connection or a request that fails, or a restart of the panel; one `load()` at a time. The page is opened at any moment |
| `balancer_engine` | pass | `StatusHonest`, `SingleEngine`, `LandsInOrder`, `Converges` | two good specs and a refused one for HAProxy, one for nginx with a host name and one without a pool, one edit (the first push counts as another), two faults of any kind, three processes (old, new, and one still dying), one sleeping restart when the panel reconciles (several may pile up otherwise). No engine exits behind an apply (`ExitsUnseen = FALSE`), and closed connections are noticed before the next POST (`CancelsInTime = TRUE`). Two faults, so that two POSTs can be given up, or one of them and the agent's crash meet |
| `balancer_failed_reload` | violation | `StatusHonest` | the same, `ExitsUnseen = TRUE` |

What the passing runs show is stated above each property in its module. What they
assume, the findings say why: one caller of `Start` at a time, probes that fail only for
units that are down, at most one worker saving at a time where the order of saves
matters; inbounds that keep their ports while a relay journal mentions them; requests of
the dashboard that arrive in order; no engine that exits while an apply of its balancer
holds the lock. `CancelsInTime` is no finding, since no comment promises it: the panel
closes the connection when it gives a request up, and the agent's server sees that at
about the time the next POST can arrive at the earliest. Where it does not (a connection
that dies without a word), an older spec may land last, which the next reconcile repairs:
`Converges` holds
without the assumption (checked with `Specs = {h1, h2}` and `{h1, n1}`). Saves of the job that fail are ignored by it
(`docker_update_job.go:189`); `SaveCanFail` adds them, and is off in every run because
each persistence property is then lost by design.

Properties that are stated and belong to no passing run (`JobAlwaysEnds`, `EditKept`,
`KeptInThisBrowser`, `DeletionStays`, `HiddenKeepsPlace`, `DocLoadsAlways`,
`CleanMeansStored`, `BoardsStay`, `SavedIsTheScreen`, `DriftClears`) are what a comment of the
code or its docs says and the code does not do; the findings name the constants that
show it. `GuardNeverBinds` and `NothingLost` of `GridPacking` are proved and belong to
no run: a step that broke one of them would break `Compacted` or `RefinesPacking`,
which are checked.

Every run but those of the mesh turns the deadlock check off: a closed job, or edits
and requests that are used up, are a legitimate end. The mesh runs keep it on: the
cycle never stops.

### Findings

`balancer_failed_reload` is a run of its own. The others are reproduced by running TLC with the
constants named, and the one property.

1. `OneRunAtATime`, `docker_resume` with two `Callers` and no restart: the claim in
   `Start` tests `running && job != nil` (`docker_update_job.go:220`), but the first
   job is installed only after the nodes have been listed; until then a second
   `Start` claims too.
2. `JobAlwaysEnds`, `docker_resume` with `LoadCanFail = FALSE`: a `Start` in the boot
   window that then fails makes `Resume` return (`docker_update_job.go:309`); the
   interrupted job stays "running" in the database.
3. `JobAlwaysEnds`, `docker_resume` with `ListCanFail = FALSE`: so it does when `Resume`
   fails to load it (`docker_update_job.go:293`), since `Resume` runs once. `JobEnds`
   excepts these two cases (`Overlooked`) and no other.
4. `TriggerIsPersisted`, `docker_update` with a second remote node
   (`Colocated = {}`, `MaxCrashes = 0`): snapshots are saved after the unlock; with
   two workers the older one may be saved last, and a trigger is sent that the
   database does not know of.
5. `VerdictFromFacts`, `docker_update` with `ReliableProbe = FALSE`: a failed probe is
   taken for a restart, against the file's own header.
6. `EditKept`, `mesh_relay` with `Entries = {e1}`, `Hosts = {h1, h3}`, `Late = {}`,
   `Moving = {}`, `EditKinds = {"toggle"}`, `InboundsMove = TRUE`, `MaxFaults = 0`: restoring a host also restores its old
   `Customized` flag, so an edit made while it was relayed is overwritten by the
   next HostSync.
7. `RestoreCompletes`, `mesh_restore` with `InboundsMove = TRUE`: when an inbound's
   port changes, a host that inherits it counts as "changed manually" and its exit
   can never be restored.
8. `KeptInThisBrowser`, `designer_library` with `MaxRefusals = 0`, no symmetry: the answer to a
   save replaces the library by what was posted and clears the dirty flag, whatever was
   changed meanwhile (`useLibrary.ts:88`).
9. `KeptInThisBrowser`, `designer_library` without symmetry: a change that localStorage has
   refused is in memory only (`useLibrary.ts:55`); a reload before it has reached the
   panel loses it, though the designer says it is kept.
10. `DeletionStays`, `designer_library` without symmetry: two browsers that read before
    either has written; the second one's merge brings back what the first deleted.
11. `HiddenKeepsPlace`, `grid_board`: every commit stores only the tiles on screen, so a
    tile hidden at that moment loses its place (`GridBoard.tsx:248`).
12. `DocLoadsAlways`, `designer_doc`: an element of an imported library file whose children
    are missing, shared or unreachable is inserted as it is (`library.ts:59`); the document
    changes when it is saved and loaded, and the frame cannot be copied or duplicated.
13. `CleanMeansStored`, `designer_doc`: the answer to a save marks the designer clean,
    whatever was edited since it was sent (`SubDesigner.tsx:323`).
14. `BoardsStay`, `dashboard_save` with `MaxLanguages = 0`: a failed read is a null, a null is a
    fresh install, and 500 ms later the default replaces the user's boards.
15. `SavedIsTheScreen`, `dashboard_save` with `MaxLanguages = 0`: when the settings throw,
    the restore of the boards is skipped (`DashboardPage.tsx:491`), and the page says
    "Saved" over the default; `Done` posts it over the user's boards.
16. `SettledIsStored`, `dashboard_save` with `InOrder = FALSE`, `MaxLanguages = 0`: saves
    are not serialised; the panel keeps the one it handles last.
17. `StatusHonest`, run `balancer_failed_reload`: `Apply` swaps the file before it
    signals the engine. If the engine has just exited, the signal fails and the apply
    is refused, but the restart two seconds later runs the new file under the old hash
    (`engine.go:139`). An operator who then goes back to the old spec is told "applied"
    and nothing is reloaded (`Converges` with `Specs = {h1, h2}`, `MaxEdits = 2`,
    `MaxFaults = 1`, `ExitsUnseen = TRUE`); a spec that differs repairs it.
18. `DriftClears`, `balancer_engine` with `Specs = {h1, h2}`, `MaxFaults = 1`: after an answer
    that was lost the agent's hash is right, so `Reconcile` does nothing, and
    `applied_hash`, which the list of balancers compares with `config_hash`, stays old.

Behaviour met on the way that no line of the repository speaks against: a `Resume`
that has read the database and is overtaken by a `Start`'s whole run (nothing is locked
between `docker_update_job.go:292` and `:308`) runs the copy it has read, a job that has
ended meanwhile, again (`VerdictStands` with the constants of `docker_resume` shows it);
opening the
dashboard writes back what it has read 500 ms later, and a second tab overwrites the
first one's boards; a change of the language reads the preference again and drops
what has not been posted (`BoardsStep` allows for it); the label may say "Saved"
while a timer is pending; a failed save of the dashboard and a failed sync of the
library are tried again only with the next change; an empty library on the panel
counts as unreadable for a browser that has items, and items that fail validation
are dropped from a readable one; a drop in the layers panel commits the document of
its pointerdown and so undoes what the keyboard has done since; a socket client that
is closed while its reconnect timer is pending connects again
(`useWebSocket.ts:46-52` tests `shouldReconnect` before the delay only); an nginx balancer
whose last pool is deleted goes on forwarding, since the agent refuses a spec without
pools (`engine.go:96`; HAProxy takes it, and `Deployable` leaves it out); an nginx spec with a
host name never has the hash the panel wants, since the agent hashes what it
resolved, so it is pushed again every 30 s and answered "unchanged"; of two changes
of the inbounds within 100 ms the second is not broadcast, so the page shows the first
until the job's next tick; `broadcastParallel` waits for senders that may themselves wait
for room in the `unregister` channel, which only the waiting hub empties (more than a
hundred full buffers in one broadcast would stop it).

### Fairness

`DockerUpdate!Fairness`: goroutines run (weak fairness of every thread's step and
of its save), deadlines pass, a claimed `Start` goes on, `Resume` runs after boot,
and a panel that went down comes up (the container's restart policy). Nothing is
assumed of units, of updaters, or of trigger calls: a unit that never answers
must not keep a job open, which is what the deadline is for.

`MeshRelay!Fairness`: cycles start (a timer, at least every 15 s) and the
controller's calls return. Recovering and deciding a given exit is strongly fair:
both loops range over Go maps, whose order is random in each pass, so no exit is
behind another one that fails in *every* pass. Nothing is assumed of the operator
or of HostSync.

`BalancerEngine!Fairness`: the panel's goroutines and its reconcile job (every 15 s) run,
the throttle ends, the agent's handlers and restarts run, a dead agent comes up (the
container's restart policy), and a process boots, reads, or exits when told to. A
restart that sleeps with the other engine's path is fair only once no engine on a wrong
file is left, as above. Nothing is assumed of DNS, of connections or of the operator.

`DashboardSave!FairSpec`: timers fire, and the panel takes and answers a request,
which may fail. Nothing is assumed of the user; `SavesSettle` is void once a request
has failed, since nobody repeats it.

`LiveInbounds!FairSpec`: handlers and the job run (a scheduler of one second; with
Xray stopped in single-node mode the job returns early, which is excluded), the hub takes
from each of its channels (Go's `select` chooses at random among those that are ready),
pumps and handshakes go on, dead connections are noticed (pings every 54 s, a deadline
of 60 s), timers fire. Changes and faults are bounded, so they come to an end, which
is what `CatchesUp` needs.

## Proofs

TLAPS proves, for every value of the constants that satisfies the assumptions in
`DockerUpdate` (any nodes, balancers and callers, any number of jobs and of
restarts), in `MeshRelay` (any sets of exits, entries and hosts, any numbers of
edits, changes of mode, failures and restarts), in `DashboardSave` (any
boards, layouts, edits, failures and changes of the language), in `GridBoard` (any tiles
with any limits, any stored boards, any gestures and edits), in `GridPacking` (any number of tiles
of any size), in `DesignerLibrary` (any browsers, items, edits, failures, reloads), in
`DesignerHistory` (any documents, any limit, any order of edits, undos and redos) and in
`BalancerEngine` (any specs, processes, edits and faults):

| Theorem | Statement |
|---|---|
| `DockerUpdate_proofs!TypeCorrect` | `Spec => []TypeOK` |
| `DockerUpdate_proofs!JobIsThere` | `Spec => []JobInv` |
| `DockerUpdate_proofs!OneRun` | `OneCaller` implies `Spec => []OneRunAtATime` |
| `DockerUpdate_proofs!VerdictsAreFacts` | `ReliableProbe` implies `Spec => []VerdictFromFacts` |
| `DockerUpdate_proofs!NobodyLeftBehind` | `OneCaller` implies `Spec => []NoNodeLeftBehind` |
| `DockerUpdate_proofs!DoneIsDone` | `OneCaller` implies `Spec => []DoneMeansDone` |
| `DockerUpdate_proofs!VerdictsOnlyFlagged` | `OneCaller` implies `Spec => [][ResumeRun \/ VerdictStep]_vars` |
| `DockerUpdate_proofs!VerdictsStand` | `OneCaller` implies `Spec /\ []ResumeFirst => VerdictStands` |
| `DockerUpdate_proofs!PanelAskedOnce` | `OneCaller`, `~SaveCanFail` imply `Spec /\ []ResumeFirst => []PanelTriggeredOnce` |
| `DockerUpdate_proofs!PanelGoesLast` | `OneCaller`, `~SaveCanFail` imply `Spec /\ []ResumeFirst => PanelLast` |
| `DockerUpdate_proofs!LocalWaits` | `OneCaller`, `~SaveCanFail` imply `Spec /\ []ResumeFirst /\ []NothingLate => LocalAfterRemote` |
| `DockerUpdate_proofs!TriggersAreKnown` | the same and `~Crowd(Remote)`, `~Crowd(Balancers)` imply `Spec /\ []ResumeFirst /\ []NothingLate => TriggerIsPersisted` |
| `DockerUpdate_proofs!OneJobComesFirst` | `OneCaller`, `MaxJobs = 1` imply `Spec => [](ResumeFirst /\ NothingLate)` |
| `MeshRelay_proofs!TypeCorrect` | `Spec => []TypeOK` |
| `MeshRelay_proofs!JournalIsKept` | `Spec => []JournalKept` |
| `MeshRelay_proofs!RelayIsBacked` | `~InboundsMove` implies `Spec => []RelayBacked` |
| `MeshRelay_proofs!RecordsStayAlike` | `~InboundsMove` implies `Spec => []RecordsInv` |
| `MeshRelay_proofs!OriginalIsKept` | `~InboundsMove` implies `Spec => []OriginalKept` |
| `MeshRelay_proofs!ManualIsKept` | `Spec => ManualKept` |
| `DashboardSave_proofs!TypeCorrect` | `Spec => []TypeOK` |
| `DashboardSave_proofs!SavedIsTrue` | `InOrder` implies `Spec => []SettledIsStored` |
| `DashboardSave_proofs!BoardsLeaveByHand` | `InOrder` implies `Spec => OnlyBlindLoses` |
| `GridBoard_proofs!BoardKept` | `Spec => []BoardInv` |
| `GridBoard_proofs!BoardAlwaysValid` | `Spec => []ShownValid` |
| `GridBoard_proofs!OrderAlwaysKept` | `Spec => []ReadingOrderKept` |
| `GridBoard_proofs!MovedWhereAskedAbove` | `Spec => [](AboveLastRow => MovedWhereAsked)` |
| `GridBoard_proofs!ShallowSettles` | `Spec /\ []Shallow => WriteBackSettles` |
| `GridPacking_proofs!TypeCorrect` | `Spec => []TypeOK` |
| `GridPacking_proofs!CompactionIsCompact` | `Spec => []Compacted` |
| `GridPacking_proofs!GuardIsEnough` | `Spec => []GuardNeverBinds` |
| `GridPacking_proofs!TilesReturn` | `Spec => []NothingLost` |
| `GridPacking_proofs!PackingRefines` | `Spec => RefinesPacking` |
| `DesignerLibrary_proofs!ChangesAreDue` | `Spec => []SaveIsDue` |
| `DesignerLibrary_proofs!UnreadableStays` | `Spec => UnreadableKept` |
| `DesignerLibrary_proofs!SavedIsStored` | `Spec => []SavedMeansStored` |
| `DesignerLibrary_proofs!EditsSurvive` | `Spec => []EditSurvives` |
| `DesignerHistory_proofs!HistoryRefines` | `HistorySpec => RefinesUndoList` |
| `BalancerEngine_proofs!ReportsWhatItServes` | `~ExitsUnseen` implies `Spec => []StatusHonest` |
| `BalancerEngine_proofs!OneEngine` | `~ExitsUnseen` implies `Spec => []SingleEngine` |
| `BalancerEngine_proofs!OvertakenNeverLands` | `CancelsInTime` implies `Spec => LandsInOrder` |
| `DesignerHistory_proofs!LimitIsEnough` | `HistorySpec => [](Len(past) + Len(future) <= LIMIT)` |

*The job's types* need `JobInv`: every edit starts from `r.job`, which is nil in a
fresh process, so one has to know that whoever executes, works on a unit, or is
about to resume has a job. *OneRun* strengthens `OneRunAtATime` to `RunInv`: a run
that executes *or has claimed* is the only one, and `running` is set while there is
one. `OneCaller` (no two callers of `Start` at once) is what finding 1
violates: the claim of a first `Start` is invisible to a second one until the job is
installed, but not to `Resume`, which tests `running` alone. All steps of the run but
the last have one shape (`Phase`), so its actions are treated together.

*The types of the mesh* are inductive once it says that `finishRelay` works on an
operation that is there, of a recorded exit, and that an operation's plans are
among the saved ones (`Sound`, `ControlOK`).

*Verdicts.* The job exists in several copies: in memory, in the database, read by a
Resume, in snapshots on their way to the database. Nothing orders these, so
invariants about them hold of every copy. `FactsInv` says that every copy of the
latest job is right about what its units did (a copy of an older job counts
nothing); two lemmas state once what a step of the run (`RunEdit`) and one of a unit's
goroutine (`UnitEdit`) may write, and `CopiesAfter` where a copy can come from. The
other three need one run at a time (`RunInv`, hence `OneCaller`): then `RunOK` says of
that run that its goroutines work on units without a verdict and in their phase, that
units whose phase has begun have a goroutine or a verdict, and that nodes are in order
after `flagStuckNodes`; so `Seal` finds every verdict, and `CopyInv` carries that to
every copy that says "done". These hold with `SaveCanFail` and any
number of restarts, which the runs switch off or bound. *VerdictsOnlyFlagged* is
`VerdictStands` but for one step; *VerdictsStand* is without the exception where
`Resume` looks first (below).

*Triggers* need more: that the database already has what a trigger or the panel's
update may destroy. Two assumptions are about the order of goroutines. `ResumeFirst`:
nobody starts a job between the boot of the panel and the end of `Resume`'s look, 8 s
later. Without it a `Resume` that has read the database, and is overtaken by a whole
run, runs that job again (see "Behaviour met on the way"). `NothingLate`: no goroutine of
a trigger is still to send it when a later job starts. `docker_update` allows one job,
and then both hold (*OneJobComesFirst*), so its run checks the same thing as the
theorems. `SaveCanFail` is excluded, as in the runs.

The invariant has five parts, each checked with TLC before it was proved, also with
two jobs and two restarts under the two assumptions. `BootInv`: a process without a job
does nothing, and what `Resume` has read is what the database says. `WriterInv`: a
goroutine that works or saves does so in its phase and while the run itself saves
nothing, and local nodes work one at a time. Hence `SerialInv`: in a phase where one
thread at a time can save, all snapshots on their way are the job itself, and if there is
none, the database has the job; this is where the lock that is released before the save
does no harm. It is silent about the phases of several remote nodes or of several
balancers, whose saves do overtake each other (finding 4), and holds again from the
save that opens the next phase. So at the two places that matter, a trigger for the
panel's host and the panel's update, every copy of the job is the same one (`Settled`),
and what it says of verdicts and triggers is only added to by any step until the next
job (`KnownGrows`, `RecordsStay`). `SentInv` and `PanelInv` say this of the triggers about
to leave and of the panel's. `Crowd` is the exact boundary for `TriggersAreKnown`: with
two parallel workers the property is false.

*JournalKept* speaks of the moments between passes. It needs `JournalInv`: the two
copies differ only while a change of IP is journaled in `ip-pending.json` (whose
repetition repairs the difference), and `ForgetIP` is reached only after a
successful save.

*RelayBacked* is far from inductive. `BackedInv` adds, in three parts, why a host
on the relay has its rules everywhere:
`RecordsInv`, what a record of the journal says (plans name their host's inbound
port, a restore is of all saved hosts, memory and journal agree on which hosts are
planned); `RelayedInv`, a host on the relay is planned by an exit that counts when
rules are computed, so no push can drop its rule; and `PushInv`, a push in
progress carries the rules of everything already published and of everything about
to be, entries already pushed have exactly these, and rules are withdrawn only
when the exit has no host left on the relay. `BackedInv` was first checked with
TLC as an invariant. The proof has one lemma per action, and the bookkeeping
actions that leave all of it alone share one.
For *RelayIsBacked*, `~InboundsMove` is needed: without it a host on the relay keeps forwarding to the
port its inbound had (finding 7 has the same cause).

*OriginalKept* says where a host would be restored to; its invariant, `KeptInv`, says
that of everything that can restore it. `LagInv`: what the memory would restore, the
journal would restore as well, up to a change of IP that is being carried out.
`RowsInv` and `PlansInv`: an address off the relay goes with one raw port, and a host has
one plan, which restores such a row. `AddressInv`: a host off the relay is where it
belongs, and every plan of one on it leads there. `MovedInv`: a change of IP is
forgotten only when no row and no plan has the old address. `~InboundsMove` enters where
a host is restored to a port. *ManualKept* is an action property: a patch rewrites a
host only when the row still has an address the plan knows, and what the memory plans
the journal has (`LagInv`); that needs no assumption.

*The dashboard.* `SettleInv`: nothing overtakes (`QueueInv`: what was stored last is the
newest post, if that is stored); once the page has restored its boards, the screen is in
the timer, or is the newest post, or is stored (`OnItsWay`), and each board on it is as the
user last saw it (`AsMade`). `BoardsInv`: along the chain of what is stored and on its way,
boards are only added but for removed ones, posts of blind pages left out (`ChainInv`); a
page that is shown has restored its boards or is blind (`PageInv`); and what is stored or on
its way has no board that a page with eyes has not (`ReadInv`). So what loses a board is a
blind page's post, which is what *BoardsLeaveByHand* says and findings 14 and 15 show. `InOrder`,
the panel takes and answers requests in the order they are sent, is an assumption about the
network and the panel: nothing in the code enforces it, and finding 16 shows what happens
without it. Reads fail and restores are skipped in these theorems as they like.

*The board.* `BoardAssumption` is what `parseLayout` and `parseGrid` leave of a stored
layout (`dashboardBuilder.ts:32`, `dashboardGrid.ts:618`): no panel and no place twice,
whole numbers; places may overlap, float, leave the columns or break the limits. The
limits of a tile are any positive numbers, contradictory ones included: `EffectiveConstraints`
puts them in order and cuts them to the columns (`ConstraintsConsistent`, `EffectiveRanged`).

The state's invariant is small. `BoardInv`: the stored panels and places are without
repetition, and a gesture runs in edit mode on the desktop board, from a `Board` that has its
tile. A `Board` is a list of tiles that are apart, resting, inside the columns and their limits.
The work is in the engine, a chain of folds over lists. `FoldExists` gives the intermediate
results of a fold as a function on `0 .. Len`; there is one `...Fold` lemma per fold, and
`InductionUpTo`, induction over a *set* of numbers, follows the function. So what is
proved of each operator holds for lists of any length:

- `Settle` puts a tile in a free place above which it cannot go (`SettleSits`), and it
  rests on a tile settled before it or on the top; so tiles settled one by one, in any
  order, are a board (`SettledIsBoard`, `Sweep`). Hence `Compact`, `PlaceWithPriority`, `MoveItem`, `ResizeItem`, `Reconcile`,
  `RemoveAndFill` and `AutoArrange` return boards with the tiles they were given
  (`CompactIsBoard`, `PriorityIsBoard`, ..., `AutoArrangeKeeps`), which gives *BoardKept*.
- The tablet and phone boards are laid in shelves. `ShelvesUpTo` is the loop's invariant:
  what is out is laid above row `y`, what waits fits in one shelf. A flushed shelf is
  justified without passing a maximum (`GrownOnceKeeps`), so shelves stay in their columns
  (`ReflowLays`), and *BoardAlwaysValid* follows for all three breakpoints.
- Tiles that are laid in shelves are in the order they came in (`LaidStrictly`), and a
  list has one order (`SortedStays`, `OrderIsUnique`): *OrderAlwaysKept*.
- Settling never takes a tile down unless something is in its way (`StaysClear`,
  `SweepLifts`). The tile in hand is settled first, hence `PriorityLifts`; `Aimed` says
  that a drag is aimed inside the columns: *MovedWhereAskedAbove*.
- A board in its own order is settled to itself (`SettledStays`, `CompactStays`), so
  storing what was reconciled changes nothing a second time (`ReconcileStays`):
  *ShallowSettles*.

`AboveLastRow` and `Shallow` are conditions the code has: `fitItem` cuts a row at
`GRID_MAX_ROWS * 4`, that is 1600, before tiles are settled. A drag below that row is aimed
at it, and a board that goes deeper is cut, settled, and may go deeper again. No screen gets
there, no run does either, and the theorems say where the boundary is.

*Packing.* The heart of `GridPacking_proofs` is that a push never has to be repeated:
a tile that is being settled is below every tile it could collide with, or collides
with the one it is being compared with, and jumps to below it; because tiles are
taken from the top, nothing placed reaches further down than the floor of what it
has passed (`JumpPassesOne`). So each jump passes one more tile, which bounds the
jumps by the tiles placed. What falls up stops at the lowest floor under which it
still fits, hence it rests, and rests for good, since later tiles only come below or
beside it. In the second sweep the board is compact already: no jump, and the float
returns each tile to its row, which is the stutter `PackingRefines` needs. `Matched`
carries each tile of the input to its one image.

*Library.* `SavedInv` says what each phase of a sync knows of the versions in memory,
in the post and on the panel, but for those made while a save was on its way (`late`).
`KeptInv` says that what a user has made (`made`) is, at each moment, in memory or
superseded by a version that is not older, and the same of what the cache has taken
(`kept`) and the cache; so a reload, which goes back to the one, goes back to the other.
Edits at any time and refused writes are steps of both proofs. What the histories leave out
is what the code loses, in findings 8 and 9. `ChangesAreDue` and `UnreadableStays` need no
history.

*History.* `HistoryInv`: `past` and `future` together hold at most `LIMIT` entries, and a
burst can be continued only where `future` is empty. The mapped list is
`past \o << current >> \o future`.

*Balancer.* `StatusHonest` holds of a process that has read its file, so the invariant
`IInv` has to say what there is to read. `Applied`: the config reported last is in the
live file of the manager's engine. `Held`: the process of `m.cmd` runs that engine's
program and was not told to stop; if it is up it was started on that engine's file and
serves that config or has a reload coming (one started on the other engine's file never
comes up, which is why `Held` need not say more of it). `Wanted`: nothing is started
before something was applied. `Applied` is lost in one place, `Reload` with an error,
which `~ExitsUnseen` excludes and finding 17 is about. Between `Check` and `Land` the lock
is held, so nothing but the landing changes the fields of the manager, and its engine does
not exit unseen (`Watched`). *OvertakenNeverLands* rests on the calls alone (`Order`): one
request at a time holds the lock; under `CancelsInTime` every request the panel gave up is
known to be gone while it waits for another; and one that has been overtaken has not passed
the check, which it cannot pass any more.

Only model-checked:

- `ArrangeFills`: which cells `fillGaps` fills depends on the limits and on the order in
  which tiles grow; that tiles of one height leave no cell empty is checked on the boards
  of `grid_board`. `AutoArrangeKeeps` proves that auto-arrange returns a board.
- `DocLoads` and `MovesAsAsked` of `DesignerDoc`: `DesignerTree` walks trees with RECURSIVE
  operators, which the prover does not take. Induction as such is not the obstacle: the
  proofs about the board do it over sets of numbers, for folds.
- liveness under fairness: `JobEnds`, `RestoreCompletes`, `SavesSettle`, `Converges`, and
  `CatchesUp` and `DeadForgotten` of `LiveInbounds`.

## Not modelled

`PROJECT.json` lists every component with the reason. In short: formatting
(subscriptions, Xray and HAProxy configuration, the rendered public page), CRUD over
SQL, forms that validate and submit, and third-party code hold no protocol of their
own. Most of the panel's TypeScript is of this kind: pages, dialogs, tables and texts,
and defaults of protocol forms, which are data. Membership, HostSync's
coalescing and the other live pages of the panel do have one, and are next.

## Plan

1. The other live pages (`ClientsPage`, `NodesPage`), which merge polls with pushed
   messages, and the paging of `useTableData`.
2. The rest of the balancer: automatic weights, `enable`, and the status probes whose
   verdicts the weights follow.
3. `MeshMembership`: bootstrap, add, promote and remove with their journals,
   crashes between any two steps; quorum, one learner, one operation.
4. `HostSync`: the coalescing trigger, and the read-modify-write of host forms.
5. Proofs: the connections of `LiveInbounds`; the trees of `DesignerDoc`, once its walks
   are folds; `fillGaps`, for boards of one height.
