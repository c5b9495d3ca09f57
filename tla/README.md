# Okena in TLA+

Specifications of the parts of Okena in which several actors compete or one
state is kept in many places: the services of a project and the background tasks
that fill them, the PTY layer that runs them, the soft close of a busy terminal,
the files of the workspace, the lists and windows that refer to its projects,
and the layout trees. TLC checks small instances, TLAPS proves the safety
properties for every value of the constants; of the layout trees, which are
recursive, what is done to one node. `PROJECT.json`
maps every definition to the source lines it translates.

    tlc -workers 2 -config MCServiceManager.cfg MCServiceManager
    tlapm ServiceManagerProofs.tla

## 1. Inventory

Okena is a terminal multiplexer: a desktop application (GPUI), a headless server
and remote, web and mobile clients. Almost all state lives in entities of the
GPUI thread. A handler runs to completion on that thread; whatever has to wait
is spawned as a task of its executor and comes back later with an `update`.
Reader, writer and teardown threads of the PTYs report back through channels.
The hard behaviour is therefore what may happen *between* a handler and the task
it spawned, and between a thread's event and its handling.

| Component | State | Operations | Interacts with | What is hard, what makes it correct |
|---|---|---|---|---|
| Okena services (`okena-services/src/manager`) | configs, instances (status, terminal, restart count), terminal-to-service routes | load, unload, reload, start, stop, restart, exit | PTY manager (create, kill), registry of UI terminals, workspace observer | delayed restarts, restarts in three steps, late exits. No process without owner, no service stuck or shown as running without a process |
| PTY manager (`okena-terminal/src/pty_manager.rs`) | handles, threads, teardown queue | create, kill, cleanup after exit, detach all | event loop (`PtyEvent`), session backends | two threads report one end; kill is asynchronous; an attach client may end before its session |
| Soft close (`soft_close.rs`, twice) | pending closes, breadcrumbs of undos, timers, toasts | begin, finalize, undo, cancel, reap, drain | layout, registry, event loop, quit | seven events decide one close. Nothing leaks, nothing is lost, an undo changes nothing else |
| Event loop and kill queue (`src/app/mod.rs`) | PTY event channel | drain a batch, route exits, drain kills, quit | all of the above | batches, duplicates, exits of what is already gone |
| Action dispatch (`action_dispatch.rs`, `workspace/actions/execute`) | none | user and remote actions | services, workspace | one path for local and remote actions |
| Docker Compose services (`docker.rs`) | pollers with cancel flags, Docker instances | load, reload, poll, logs | services, subprocesses | asynchronous results applied after an unload; pollers that stop for ever |
| Port detection (`port_detection.rs`) | services under detection, running flag | register, poll | services | results of an old process applied to a new one |
| Persistence and auto-save (`persistence.rs`, observer in `app/mod.rs`) | pending flag, last saved version, files | debounced save, load, recover, lock | workspace | concurrent saves, a crash between two renames |
| Workspace, layout, windows (`okena-workspace`, `okena-layout`, `okena-state`) | projects, folders, layout trees, windows, focus | create, move, close, normalise | everything | tree normalisation, references to removed projects |
| Worktrees, hooks (`okena-hooks`, `worktree_sync.rs`) | closing projects, waiting hooks | create, remove, notify exit | git, PTY manager | a removal that waits for a hook that never ends |
| Remote server (`src/remote`) | tokens, streams, bridge channel | authenticate, forward, stream | action dispatch, PTY output | streams that lag or drop |
| Remote client (`okena-core/src/client`, `okena-remote-client`) | connection, tokens, subscriptions | connect, retry, apply snapshots | remote server, workspace | reconnection, stale snapshots |
| Subprocess bus (`okena-core/src/process/bus.rs`) | lanes with slots | run a command in a lane | git, docker | starvation of one lane by another |
| Emulation, UI, git, files, themes, extensions, updater, CLI, web, mobile | views and data | render, parse, fetch | | data and presentation, no shared control |

## 2. What is modelled

| Module | Code | Content |
|---|---|---|
| `PtyManager` | `pty_manager.rs`, exits in `app/mod.rs` | processes, handles, reader threads, teardown jobs, Exit events; `PtyUpdate` is what a handler does to its terminals, `PtyNext` what processes, threads and workers do on their own |
| `ServiceManager` | `manager/{mod,lifecycle,commands}.rs`, `sync_services`, event loop | one action per handler and per deferred step; composed with `PtyManager` by `EXTENDS` and `PtyUpdate` |
| `SoftClose` | both `soft_close.rs`, `toast.rs`, `move_ops.rs`, `delete_project`, `remove_stale_worktree`, `handle_switch_workspace`, kill queue, quit | one action per handler; composed with `PtyManager` in the same way |
| `ServiceSlots` | what `manager/commands.rs` promises of processes | the abstract specification: a service has one slot, and a terminal takes it once |
| `SoftCloseDecision` | what both `soft_close.rs` promise | the abstract specification: a terminal is open, pending, lost or gone, and who may end its shell when |
| `WorkspaceStore` | what `persistence.rs` promises | the abstract specification: an atomic durable store of one workspace |
| `AutoSave` | `persistence.rs`, the observers in `app/mod.rs` and `app/headless.rs`, `main.rs` | load, debounced saves on a thread pool, flush on quit, file by file, with failures and crashes; implements `WorkspaceStore` |
| `Workspace` | `okena-workspace/src/{actions,lifecycle,worktree_sync,persistence}`, `okena-state/src/windows.rs`, sidebar | which list holds a project, what every window hides, worktrees and their background tasks, repair at load |
| `ServiceDiscovery` | `manager/{docker,port_detection}.rs`, the Docker side of `lifecycle.rs` and `commands.rs` | lists, status poller with its cancel flag, port scan, all three answering late |
| `LayoutNode` | `okena-layout/src/lib.rs`, `actions/layout/*.rs` | one node of a layout tree: children that go, come and move, and the active tab; not recursive |
| `LayoutTree` | `okena-layout/src/lib.rs`, `actions/layout/*.rs` | layout trees and the functions on them, which apply `LayoutNode` along paths; pure and recursive |
| `Layout` | `actions/layout/*.rs`, `actions/{project,worktree,soft_close,focus}.rs`, `persistence.rs` | one action per operation that changes a tree, of several projects |
| `MC*` | | symmetry and values of the constants for TLC |
| `*Proofs` | | theorems and their lemmas |

**PtyManager.** `process[t]` is the process that runs in terminal `t`: under a
session backend it is the session's, and `ClientExit` is the end of its attach
client alone. `handles` is the map `PtyManager.terminals`. A reader either sends
an Exit event or stops silently when the terminal is marked broken, and which of
the two happens is left open where the code races (`read_loop` tests the flag
only at the top of its loop and after a read). `WriterFail` is the writer's own
Exit after a failed write, so one terminal may report its end twice.
`Teardown(t, kind)` runs one job of the worker pool; the workers take the jobs
in any order, as four threads on one queue do.

**ServiceManager.** A service is one (project, name) pair. `status`,
`terminal_id`, `restart_count` and `restart_on_crash` are the fields of
`ServiceInstance`, with "absent" for a missing instance. `Starting` is set and
left within `start_okena_service` and never seen between two actions.
`LoadConfig`, `Unload` and `ReloadConfig` are the lifecycle functions, the
contents of `okena.yaml` are any element of `Configs`. A crash leaves a timer
(`timers[s]`, fired by `CrashTimer`). A manual restart is three steps:
`RestartService` takes the terminal (`taken[t] = "pids"`), `RestartKill` kills
it after the pids were collected ("waiting"), `RestartStart` starts the service
if its status still is Restarting. `bare[s]` counts restarts of services that
had no terminal. `HandleExit` takes any non-empty set of the terminal's Exit
events as one batch. `owner` (which service a terminal was made for) and
`overlapped` (a service was started while a manual restart was collecting pids)
are history variables. Invariants about routes and processes exempt overlapped
services: the code gives them up there, which run `service_overlap` shows.

**ServiceSlots.** What remains of the service manager for an observer who sees
only which terminals have a `PtyHandle`. Each service has one slot; a terminal
takes it when it is created (`Take`), and gives it up (`GiveUp`) when it is
killed or its Exit is handled, for ever, since ids are used once. The only gap is
the one the code has: a manual restart lets go of the terminal (`Restart`)
before it kills it (`Kill`), and a start in between puts the service into
`shared`, of which nothing is promised any more. The refinement maps the slot to
`handles` and the terminals that leave to `taken = "pids"`; it says of starts,
timers, reloads and late exits in any order that none of them puts a second
terminal into a slot or brings one back.

**SoftClose.** A layout tree is represented by the set of its terminals: an undo
that restores the tree and one that appends the pane to a changed tree then
differ only in the set they give, which is what can go wrong. `timers` and
`toasts` hold closes as (terminal, toast id), since neither the timer nor the
buttons know more. `ToastGone` stands for expiry, dismissal and trimming.
Closing several terminals at once is a sequence of closes; a project may be
deleted, a pane moved to another project, the workspace switched and the app
quit at any moment. A pane is soft-closed when its shell has a foreground
process. Under a session backend the code finds that process by the name of the
session, so that a terminal without `PtyHandle` and without registry entry may
be soft-closed as well; without one it looks at the handle. An observer's turn
(draining the kill queue) belongs to the action whose notification triggers it.

The code loses panes without ending their shells, and `lost` holds those
terminals: a drop on a tab group that is not found again takes the pane out and
puts it nowhere (`LoseDrop`; run `layout_drop` shows it on trees), the watcher
takes out a worktree whose directory is gone with its panes
(`RemoveStaleWorktree`, which neither kills nor drains the pending closes of the
project), and the undo of a close in such a project finds no layout. Such a shell
runs on without a pane. Its terminal stays in the registry, and only its own exit
or a switch of the workspace ends it. Which projects are worktrees is the
constant `Worktrees`.

`SoftCloseDecision` is the same system for an observer who sees of each terminal
its place and its shell only: `place` is open while a layout has it, pending
while a record does, lost when it has neither and was not ended, gone after that;
`shell` is live, has reported its end (an Exit event is queued), is being ended
(a teardown job that ends the process) or is dead. `Place` and `ShellOf` are the
refinement mapping. The decision leaves open which of timer, button, project,
workspace and exit decides, and forbids what no order of them may do: end a
shell that can still come back, or bring back what was decided to go; a lost pane
leaves its shell alone.

**AutoSave and WorkspaceStore.** The four files `workspace.json`, `.bak`, `.tmp`
and `.corrupt` are variables; a workspace is a number, larger for later ones, a
file is missing, torn or one workspace. The initial state has every content of
the files, as any earlier crash may have left them. `pc[s]` walks through
`save_workspace`: `TakeLock` (with both protection layers), `BackUp`,
`CreateTmp`, `WriteTmp`, `RenameTmp`, and `SaveFails` at each of them; `Crash`
may happen before each step and keeps the files. The start is two steps, the
copy of the backup over a missing file and the load, because a crash in the copy
leaves a torn file. `WorkspaceStore` has one stored workspace, a save takes
effect at one instant (`Commit`) or not (`Abort`), a start gets what is stored
or runs protected. `version` is `data_version`: `Edit` bumps it, `replace_data`,
the switch to the workspace of a session, changes the data and does not, so that
its observer may queue no save (the data reach the file with the next change or
the quit). `cloned_version[s]` is the version a pool thread was given, which is
what `last_saved` becomes when its save succeeds. Timers are as many as changes
ask for; those that share a flag find it down. The refinement maps the file, or
else the backup, to `stored`, and a save before its rename to a pending one.
Which of two pending saves commits last is open in the store because the lock
keeps no order: two pool threads that take it in the opposite order leave the
older workspace on disk with `last_saved_version` at the newer, until the next
change or the quit, and a save of the pool may overtake the flush of the quit as
well (hazard at `app/mod.rs:275`; section 4 says what is left).

**Workspace.** A project id is used once. `parent`, `worktree_ids`,
`project_order` and `project_ids` are the lists that have to agree, `hidden` and
`filter` the state of a window; lists are sets, column widths go with `hidden`
and collapsed folders with `filter`, for the same code scrubs them. Most clicks
take place on what exists; drags, toggles of visibility and of folder filters,
commands of remote clients and background tasks may name an id that is gone, as
in the code (a test of the repository, `project.rs:907-927`, asserts that an
unknown id is hidden). So a window may hide what does not exist, and what is
promised is that no removal leaves such an id behind (`WindowsAreScrubbed`) and
that a load drops them (`LoadRepairs`). `MaxGone` bounds the ids that are named
although they are gone. Only a dialog of a worktree registers a pending close.
`watch_collect` and `watch_remove` are the two turns of the sync watcher with
the thread in between, `register_worktree` the end of a quick creation in the
background, whose window and parent may be gone by then. `restart` is
`validate_workspace_data` on the present state. `Drawn` is what the sidebar
shows. What the code does and the properties name as exceptions: a move into a
folder that is gone takes the project off every list until the next load
(`folder.rs:103`); `remove_stale_worktree` gives the worktrees of the worktree
no new place and leaves its id in its parent's list; a worktree of a worktree,
or one discovered under a parent that is gone, is drawn nowhere. Seen and not a
property: a worktree in a folder whose parent is deleted is then listed in the
folder and at the top level, although the comment at `folder.rs:128` says a
project is in one of them.

**ServiceDiscovery.** One project with several service names, since projects
share nothing but the scan, which knows services by key. `listings` counts the
lists under way, a poll task is waiting or asked, `cancelled` are the tasks
whose flag is set, `docker_poller` is the one the project knows. A report is any
set of names with any state: the snapshot is cached and may be older than the
instance. `stop_all` and `start_all` are sequences of single starts and stops;
stopped, crashed and restarting are one state, `idle`, for no task tells them
apart. `overtaken` (polls asked before an unload or a reload) is a history
variable. Late answers the code accepts and the model makes: a list that arrives
after the project was closed brings its Docker services and a poller back
(`docker.rs:67`); a scan may show the ports of the old process on a restarted
service (`port_detection.rs:143`); the poller ends for ever with the first
report that names no service (`docker.rs:272`). `docs` speak of `docker compose
ps` every 3 s where the code reads a `docker ps -a` snapshot every 5 s; the
model has neither command nor period.

**Layout.** A tree is a pane, a split or a tab group, a path a sequence of
positions (from 1). `LayoutTree` has what the code computes, `Layout` makes
handlers of it. Inputs are those of the present trees, what a view shows or a
client knows, and any index as the active tab: `set_active_tab` stores what a
client sends. A group whose active index is behind its last tab draws nothing
(`Visible`), and the next split, drop or load puts it right. A new pane has its
terminal at once (the code fills it in within the same turn). Not among the
inputs, because a stale request of a remote client is needed for it: a target
that is gone (the moved pane is lost then, `move_ops.rs:91`). Seen and not a
property: a move out of a group does not shift the active tab of the group it
leaves; a drop behind the last tab of the pane's own group is refused by
`move_tab`; a group whose first tab is a group gets the pane in the inner one.

## 3. Runs

| Run | Instance | States | Shows |
|---|---|---|---|
| `service_manager` | 1 service, 3 terminals, no session backend, one PTY that may refuse writes, 1 automatic restart, `okena.yaml` with the service or without | 673 k | all safety properties of services; refinement of the slots |
| `service_manager_live` | 1 service, 2 terminals, session backend, fair | 152 k | restarts end, taken processes end, exits are noticed |
| `soft_close` | 2 terminals, a project and a worktree, 2 closes, session backend, fair | 358 k | safety of soft closes; refinement of the decision; every close is decided |
| `auto_save` | 2 pool threads and the main thread, 3 changes, 1 timer, fair | 522 k | refinement of the store, the backup, no change forgotten, quitting ends |
| `workspace` | 3 projects, 1 folder, 2 windows, 1 stale worktree, 1 waiting close and 1 name of what is gone at a time | 850 k | lists in step, windows scrubbed, nothing vanishes, repair at load |
| `service_discovery` | 2 names, 2 poll tasks, 2 lists under way, 3 polls of a detection | 1.0 M | late answers go nowhere, detection goes on |
| `layout` | 2 projects, 4 terminals, any active index | 2160 (up to symmetry) | well-formed trees, drops land, shown stays shown |
| `service_stop`, `service_overlap`, `service_session`, `soft_close_grace`, `layout_drop` | as above | | a statement of a doc or comment that the code breaks |

Bounds. `Terminals`: an id is used once, so the number of terminals bounds the
starts in a behaviour; with three, an old process, its successor and the
successor's successor coexist, which is what late exits and overlapping restarts
need. When the ids run out `create_terminal` only fails, which the code handles
too (`Crashed`). `MAX_RESTART_COUNT` is 1 instead of 5: the restart that is
allowed, the one that is not and a timer that outlives a manual restart all
occur. In `service_manager` the service is listed with both of its flags or not
at all; the other service runs also have it listed with neither, which adds a
start as stopped and a crash that is not restarted, as after the last allowed
restart; the proofs cover every content of the file. `MaxBare` bounds pending
restarts of a service without terminal, `MaxCloses` the soft closes; two are
enough for close, undo and close again, and for two closes in different
projects. `Codes` has one element because no handler tests the code
(`docs/services.md` says that a service is restarted when it exits with a
non-zero code, `commands.rs:393` restarts it after any exit). Soft closes are
checked under a session backend, where more can go wrong: an exit of the client
leaves the process. Safety of services is checked with one service; that
operations on several services keep apart is what the proofs show for every set
of them, by the lemma on exchanged terminals (section 4). `AutoSave`: two pool
threads and the main thread are the most that can meet, since a third pool
thread would wait for the same lock; three changes give each saver a workspace
of its own. `MaxTimers` bounds the notifications without a change, not the
changes: three changes have three timers on one flag, a notification starts one
only when none is waiting. `Workspace`: three projects are a parent, its
worktree and a worktree of that or a stranger; two windows are the one of the
click and another; `MaxGone` is 1, because lists, windows and closes are
scrubbed id by id. `SoftClose`: one of the projects is a worktree, and a pane
may be lost by a drop in both. `ServiceDiscovery`: two poll tasks are the
current and a cancelled one; `Polls` is 3 instead of 10, so that a detection can
end by its stable count and by its limit (4 was checked as well). `Layout`: with
four panes there is a group with a split in it beside a pane that moves, and
every pair of nested containers; an active index may be that of a tab or one
that no group has, and all of those do the same. The two properties about
handlers were also evaluated once on every one of the 5958 trees with at most
five panes whose groups all show a tab. `CHECK_DEADLOCK FALSE` stands in the
soft-close configurations only: after `Quit` and the workers' last job nothing
happens any more.

The properties:

* Services: `RestartingIsPending`, `RoutesAgree`, `RunningIsBacked`, `NoOrphan`,
  `RegistryHasOwners`, `OneProcess` (invariants), `IsSlots` (refinement),
  `RestartingEnds`, `TakenIsEnded`, `ExitIsNoticed` (liveness).
* Soft close: `OnePlace`, `CanBeUndone`, `NoLeak` (invariants), `UndoIsLocal`
  (action), `IsDecision` (refinement), `SoftCloseIsDecided`, `DoomedIsReaped`
  (liveness).
* Persistence: `RenamesItsOwn` (a save never renames another's temporary file),
  `BackupStaysWhole` (action), `IsStore` (refinement), `ChangeIsTried`,
  `QuitEnds` (liveness).
* Workspace: `ListsAgree` (invariant), `WindowsAreScrubbed`, `NothingVanishes`,
  `NewIsPlaced` (a new project is drawn, in one open window at most),
  `LoadRepairs`, `WatcherSparesBusy` (actions).
* Discovery: `NoPortsWithoutProcess`, `DetectionGoesOn` (invariants),
  `PollIsCurrent`, `ServiceIsNotLost` (actions).
* Layout: `MoveLandsBeside`, `ShownStaysShown`. They say of the present trees
  what every input of a handler would make of them, so that the run checks each
  function on every tree the operations reach, against a reference that knows
  only the sequence of panes, neighbours and what is shown.

Every property has at least one mutant: a changed definition, a plausible slip
in the same code, under which TLC finds it violated.

**Fairness.** Weak fairness for what the scheduling guarantees and nothing else:
the executor's tasks and timers (`CrashTimer`, `RestartKill`, `RestartStart`,
`BareRestart`, `GraceOver`), the event loop (`HandleExit`: it awaits the channel
for ever and yields after 256 KiB, dropping nothing) and the teardown workers.
In `SoftClose` the workers are fair while the app runs only: at its exit
teardown is best effort (`pty_manager.rs:1138-1144`), so that
`SoftCloseIsDecided` and `DoomedIsReaped` promise nothing after `Quit`. The
user, the processes and the failures are never fair. `RestartStart` is enabled
by a timeout (100 polls of 50 ms) even when the old process never dies, so its
fairness needs nothing of the process. In `AutoSave` fair are the debounce
timers, the steps of a save (a step either succeeds or fails, the lock is handed
on), the continuation on the main thread, the flush and the exit of the main
loop; a crash never has to happen and a change neither.

**What the violation runs show.**

* `service_stop`: a crash, then Stop, and the timer of the crash starts the
  stopped service again (`commands.rs:402-410`).
* `service_overlap`: between taking and killing the old terminal a restart
  awaits pids; a start in that window gives the service two processes
  (`commands.rs:34-37`, `276-303`).
* `service_session`: under dtach or tmux the exit of the attach client restarts
  the service and nothing ends the session (`commands.rs:393-398`). For other
  terminals the event loop kills the session for exactly this reason.
* `layout_drop`: the group a pane is dropped on is found again as the parent of
  its first pane. If the first tab is a split, that parent is the split, and the
  function returns after it took the pane out of its tree (`move_ops.rs:386`,
  `413-415`; across projects likewise): the terminal runs on without a pane
  (`LoseDrop` of `SoftClose`).
* `soft_close_grace`: the grace timer knows only the terminal, so that of a
  close which was undone ends the next close early
  (`src/soft_close.rs:172-182`).

## 4. Proofs

`ServiceManagerProofs`: `Spec => []IInv` for every set of services, projects,
terminals and configurations. The checked invariants are not inductive alone.
`RoutesAgree` needs that a terminal belongs to one service for ever
(`ShownIsOwned`, `RoutedIsOwned`, `TakenIsOwned`): otherwise dropping the route
of a terminal could hit the route of another service. It needs that an instance
never shows what a restart holds, that a service whose restart collects pids
shows no terminal (`CollectingHasNone`), and that created ids are fresh.
`RestartingIsPending` needs that only loaded projects have instances
(`PresentIsLoaded`): the timer looks the path up and gives up without one.
Start, load, stop, reload and unload have one form, some services give up their
terminals and some get new ones, so their cases are one lemma
(`ExchangeKeepsShape`). From `IInv` follow `TypeCorrect`, `RestartingPends`,
`RoutesStayRight` and, for the action property, `RunningIsKept`.

`ServiceTerminalsProofs`: a second invariant on top of that one, `Care`. An
unused terminal is idle; a running service is *heard*, that is, its reader is at
work or an Exit event is under way, and no job of the teardown pool is queued
for it (`RunningIsHeard`: a silent reader needs the broken mark, which only a
job of the teardown or a failed write sets, and the latter sends its own Exit);
what is in the registry is shown or held (`RegisteredIsHeld`); one restart per
service collects pids (`OneCollected`). The link between processes and services
is the handle: a terminal with one is shown by its service, or held by a restart
that is still collecting (`HandleIsHeld`), and in the registry
(`HandleIsRegistered`). These hold for every backend. With plain PTYs a live
process has its handle or a job that ends it (`LiveIsHandled`), and so the same
facts speak of processes. The exchange lemma carries start, load, stop, reload
and unload again. Theorems, for every backend: `CareIsTaken`, `RunningBacked`,
`RegistryOwned`, `HandlesOwned` (`HandlesAreOwned`), `OneHandleOpen`
(`OneHandle`), and under `Sessions = FALSE` `NoOrphans` and `OneProcessRuns`.
With session backends the last two are false and not merely unproved: an exit of
the attach client takes the handle and leaves the session's process, which run
`service_session` shows of `NoOrphan`, and the restart that follows makes it two
processes.

`SlotsRefinement` (`Spec => IsSlots`), for every backend. The initial states
agree, and each action is one of four steps of the slots or a stutter: whatever
launches is `Take` (`LaunchStep`: by `HandleIsHeld` the slot of a service that can
be started is free, unless a restart is collecting), what withdraws or
handles an exit is `GiveUp` (`WithdrawStep`, `ExitStep`), `RestartService` is
`Restart` and `RestartKill` is `Kill`. A reload withdraws and a start launches
through the same operators, so that the lemmas are few.

`WaitedForEnds` is the safety half of the liveness property `TakenIsEnded`, with
session backends too: what a manual restart waits for is dead or has a kill in
the queue that no stop, unload, reload or late exit takes back.

`AutoSaveProofs`: the invariant adds mutual exclusion of the locked steps, that
only a process that is not protected holds the lock, that such a process never
finds a torn file, and that a restore has a whole backup. From it follow
`TypeCorrect`, `SavesRenameTheirOwn`, `BackupSafe` and `Refinement` (`Spec =>
IsStore`): each step is a step of the store or a stutter; a rename is `Commit`,
every failure is `Abort` or happens where the backup already holds what the file
held. A second invariant, `Held` (`HeldAlways`): the flag of the debounce is up
only while a timer runs, and nobody holds a workspace that was not made. The
latter is needed for `ChangesAreHeld`, the safety half of `ChangeIsTried`: later
workspaces have larger numbers, so a newer change keeps an older one waiting,
and the clone of the timer that takes the flag contains it.

A third one, `Ahead`, says what the open order of the lock may cost.
`MemoryStaysAhead`: a process that may save is never behind what is stored, so
that it only replaces what it has read or made; this is what the guard of
`loaded_from_default` is for, and without it a fallback workspace would be saved
over a good one. `FlushIsLast`: when the flush of a quit has succeeded, the last
workspace is on disk, or that of a save of the pool which was under way at the
quit. The second case is real (TLC finds it): the flush does not wait for saves
that are queued for the lock. `FlushComesNearer` is the safety half of
`QuitEnds`: while the flush waits, no step queues another save and every step
brings one save nearer to its end, by a variant over the steps of
`save_workspace`; so the flush is overtaken finitely often.

`WorkspaceProofs`: `TypeOK /\ ListsAgree` is inductive, and the action
properties follow from it action by action (`TypeCorrect`, `ListsStayInStep`,
`WindowsStayClean`, `SidebarKeepsProjects`, `NewProjectsArePlaced`,
`LoadingRepairs`, `WatcherLooksAgain`). A lemma on the way: in reachable states
the migration at load that fills empty worktree lists has nothing to do.

`ServiceDiscoveryProofs`: `TypeOK`, `NoPortsWithoutProcess` and
`DetectionGoesOn` need `OnePoller`: a task that is not cancelled is the one the
project knows, and an overtaken poll is cancelled. `PollsAreCurrent` and
`ServicesAreNotLost` follow step by step. `ClosedProjectsAreQuiet` bounds the
late list that brings Docker instances back into a closed project: an okena
service is there only while `okena.yaml` lists it, so a closed project has none,
and it has no terminal and nothing that is starting.

`SoftCloseProofs`: `Spec => []IInv` for every set of projects, worktrees and
terminals, with and without session backends. `OnePlace` needs that a fresh id
is nowhere yet (`PlacedIsUsed`), `UndoIsLocal` that the two snapshots differ by
the closed terminal only (`SnapshotsAgree`), `NoLeak` that every live process
that nobody ends is accounted for, by a pane, a pending close or as lost, and is
in the registry, where a workspace switch and an undo look for it
(`LiveIsTracked`, `HandleIsRegistered`). None of it rests on a guard of the soft
close: a terminal without handle may be soft-closed, and then its shell is dead
or being ended. From it follow `TypeCorrect`, `OnePlaceAlways`,
`PendingCanBeUndone`, `NothingLeaks` and `UndoStaysLocal`.

`Refinement` (`Spec => IsDecision`) needs more than where a terminal is: that the
shell of a close that an undo would accept is not being ended, and that the step
which ends it is the one that decides. This is `Tended` (`TendedAlways`): a pane
brought back and still shown has its handle, as every terminal in the registry
has (an undo looks there); and what has a handle is heard, so no job is queued
that would end it. The handle is the link, since the handlers take it in the step
that queues the job. Every handler changes the PTY
layer by one `PtyUpdate` of terminals in use (`HandlerUpdate`), which makes each
lemma about shells one for all handlers; then each action of `SoftClose` is
shown to be one action of the decision or a stutter (`...Decides`), closings and
kills of several terminals `Decide(S)`, the workers' steps `Report` and `Die`.
`UndoneIsSparedAndHeard` is the safety half of `SoftCloseIsDecided` and
`DoomedIsReaped`: nobody ends a shell that can come back or was brought back, and
its own end has an event on its way.

`LayoutNodeProofs`: what the operations do to one node, for groups and splits of
any length and children of any kind. `TabMoveKeepsActive`,
`TabCloseKeepsActive`, `TabInsertShowsIt`: the active tab is followed wherever
the tabs go, the others keep their order, the index stays in range; a close puts
one that was out of range back into it. `LastTabReplacesGroup` says when this
fails, and that it fails in no other case: the last tab is a group itself, the
closed tab stood before it, and it was the one shown (`close.rs:40-47`).
`ClampRepairs`, `SplitKeepsOthers`. They rest on three lemmas about what
`RemoveAt` and `InsertAt` do to each place of a sequence.

`PtyManagerProofs` has the lemmas about the shared layer: what `PtyUpdate` and
`PtyNext` preserve, and that a live process which is being ended stays so until
it is dead, and that a terminal with a handle is heard (`HandledIsHeard`,
`HandledStaysHeard`), which both services and soft closes need.

Assumptions: those stated as `ASSUME` in the modules (kinds of the constants,
`NoService` and `NoTerminal` are no services or terminals, bounds are naturals).

Only model-checked: every liveness property, since liveness under fairness is
beyond the proof system (of most the safety half is proved: what has to
happen is pending until it happens); the properties of `Layout` (`TypeOK`,
`MoveLandsBeside`, `ShownStaysShown`), whose functions recurse along trees, which
the provers cannot unfold, beyond what is proved of one node. Every other
property of a passing run is a theorem.

## 5. Not modelled, and why

* Docker: which services of a compose file are extra, the backoff of failing
  polls, the parsing of the output and the snapshot shared by projects are
  choices of the model. What a port scan finds is a choice as well.
* Restarts of the app in the service and soft-close modules. Their runs are one
  life of the app; a saved service that is reconnected gets a fresh terminal id
  in the model, where the code reuses the saved one. Nothing here compares ids
  across lives. `AutoSave` restarts the process, `Workspace` reloads its state.
* Persistence: the instance lock (`persistence.rs:86`), `settings.json`, named
  sessions, the migration of versions.
* Workspace: positions in lists, the order of worktrees, focus managers, names
  and colours, projects of remote connections.
* Creation of the same id twice: a pane that is rendered without a terminal asks
  for its old id again while a kill of that id may still be queued. This needs
  the rendering of panes and is left out.
* Hook terminals and `on_close` hooks in the exit path.
* Failures of the operating system after the child was spawned
  (`create_terminal_with_id`), and the race between the exit of the app and the
  teardown workers: the code declares the latter best effort.
* Layout: sizes, the minimised, detached and zoom fields, focus, and
  `merge_visual_state`. `close_tab`, `close_other_tabs` and
  `close_tabs_to_right` have no caller.
* Remote server and client: authentication, streams and reconnection are mostly
  the behaviour of HTTP and WebSocket libraries; the state they share with the
  rest is a channel whose commands are those of action dispatch.
* Hooks: a synchronous hook blocks a thread until an Exit or its time limit;
  there is no second actor beside the two.
* The subprocess bus: semaphores per lane, without state of its own.
* User interface, terminal emulation, git, files, themes, extensions, updater,
  command line, web and mobile clients: presentation, data and input/output.

## 6. Plan

Done: all modules above, in the order PTYs, services, soft closes, persistence,
workspace, discovery, layout; the safety of all is proved, of layout as far as it
is not recursive; three abstract specifications are shown to be implemented.

Worth doing next, in this order:

1. `RemoteClient`: connection states, token refresh, resubscription, snapshots
   applied in order; composed with the epoch of workspace replacement.
2. `ServiceSlots` with the status of a service: the life cycle
   `docs/services.md` describes, as far as the findings leave it.
3. The instance lock with two processes, beside `AutoSave`.
4. Focus managers of several windows, beside `Workspace`.
5. Stale requests of remote clients as inputs of `Layout`.
