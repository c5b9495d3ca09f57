---------------------------- MODULE ServiceManager ----------------------------
(***************************************************************************)
(* ServiceManager of crates/okena-services, for the services of kind Okena *)
(* (commands that run in a PTY), with the event loop's Exit handling.      *)
(*                                                                         *)
(* Every handler runs to completion on the GPUI thread, so it is one       *)
(* action.  What it defers with cx.spawn is an action of its own: the      *)
(* delayed restart of a crashed service (timers), and a manual restart,    *)
(* which first collects the old process's pids, then kills it, then waits  *)
(* for it to die and only then starts the service again (taken, bare).     *)
(*                                                                         *)
(* A service is one (project, name) pair.  ServiceStatus::Starting is set  *)
(* and left again inside start_okena_service, so no state here has it.     *)
(* Listening-port detection and Docker Compose services are left out.      *)
(***************************************************************************)
EXTENDS Naturals, PtyManager

CONSTANTS
  Services,           \* (project, name) pairs
  Projects,           \* project ids
  ProjectOf,          \* the project of each service
  Configs,            \* the contents okena.yaml may have, see ConfigsAssumption
  NoService,          \* no key: the terminal belongs to no service
  NoTerminal,         \* terminal_id: None
  MAX_RESTART_COUNT,  \* 5 in the code
  WaitTimesOut,       \* TRUE: the 5 s wait for the old process may run out
  MaxBare             \* bound: pending manual restarts of a service without terminal

\* listed: the services of the file; auto_start, restart_on_crash: those with the flag
Config == [listed : SUBSET Services, auto_start : SUBSET Services,
           restart_on_crash : SUBSET Services]

ASSUME ConfigsAssumption == Configs \subseteq Config
ASSUME ProjectOfAssumption == ProjectOf \in [Services -> Projects]
ASSUME NoneAssumption == NoService \notin Services /\ NoTerminal \notin Terminals
ASSUME BoundsAssumption ==
  MAX_RESTART_COUNT \in Nat /\ MaxBare \in Nat /\ WaitTimesOut \in BOOLEAN

VARIABLES
  known,                \* sync_services: projects already loaded once
  project_paths,        \* projects that are loaded
  configs,              \* services listed by the last okena.yaml read
  status,               \* instances: "absent" where there is no entry
  terminal_id,          \* instances: the PTY of the service
  restart_count,        \* instances: automatic restarts so far
  restart_on_crash,     \* instances: those whose definition has the flag
  terminal_to_service,  \* the service an Exit event is routed to
  terminals,            \* TerminalsRegistry: ids with a UI Terminal
  timers,               \* pending restart_delay timers of a service
  taken,                \* manual restart holding a terminal: "no", "pids", "waiting"
  bare,                 \* manual restarts of a service that had no terminal
  owner,                \* the service each terminal was created for (never changes)
  overlapped            \* history: started while a manual restart collected pids

instanceVars == <<status, terminal_id, restart_count, restart_on_crash>>
projectVars == <<known, project_paths, configs>>
routeVars == <<terminal_to_service, terminals, owner>>
deferredVars == <<timers, taken, bare>>
vars == <<projectVars, instanceVars, routeVars, deferredVars, overlapped, ptyVars>>

Status == {"absent", "stopped", "running", "crashed", "restarting"}

ServicesOf(p) == {s \in Services : ProjectOf[s] = p}
Present(s) == status[s] # "absent"
Loaded(s) == ProjectOf[s] \in project_paths
TerminalsOf(S) == {terminal_id[s] : s \in S} \ {NoTerminal}

\* A manual restart of s holds its terminal and has not killed it yet.
CollectingPids(s) == \E t \in Terminals : taken[t] = "pids" /\ owner[t] = s

TypeOK ==
  /\ PtyTypeOK
  /\ known \subseteq Projects
  /\ project_paths \subseteq Projects
  /\ configs \subseteq Services
  /\ status \in [Services -> Status]
  /\ terminal_id \in [Services -> Terminals \cup {NoTerminal}]
  /\ restart_count \in [Services -> 0 .. MAX_RESTART_COUNT]
  /\ restart_on_crash \subseteq Services
  /\ terminal_to_service \in [Terminals -> Services \cup {NoService}]
  /\ terminals \subseteq Terminals
  /\ timers \in [Services -> Nat]
  /\ taken \in [Terminals -> {"no", "pids", "waiting"}]
  /\ bare \in [Services -> Nat]
  /\ owner \in [Terminals -> Services \cup {NoService}]
  /\ overlapped \subseteq Services

Init ==
  /\ PtyInit
  /\ known = {}
  /\ project_paths = {}
  /\ configs = {}
  /\ status = [s \in Services |-> "absent"]
  /\ terminal_id = [s \in Services |-> NoTerminal]
  /\ restart_count = [s \in Services |-> 0]
  /\ restart_on_crash = {}
  /\ terminal_to_service = [t \in Terminals |-> NoService]
  /\ terminals = {}
  /\ timers = [s \in Services |-> 0]
  /\ taken = [t \in Terminals |-> "no"]
  /\ bare = [s \in Services |-> 0]
  /\ owner = [t \in Terminals |-> NoService]
  /\ overlapped = {}

-------------------------------------------------------------------------------
(* Effects shared by the handlers. *)

\* What create_terminal may answer for each service of S: a fresh id, or Err.
Spawns(S) ==
  {f \in [S -> Terminals \cup {NoTerminal}] :
     \A s \in S : f[s] # NoTerminal =>
       /\ process[f[s]] = "none"
       /\ \A r \in S : f[r] = f[s] => r = s}

NoSpawn == [s \in {} |-> NoTerminal]
Created(f) == {f[s] : s \in DOMAIN f} \ {NoTerminal}

ServiceOf(f, t) == CHOOSE s \in DOMAIN f : f[s] = t

\* Mutant of Routes: a dropped terminal keeps its entry in terminal_to_service.
RoutesKeepsEntry(f, dropped) ==
  /\ terminal_to_service' =
       [t \in Terminals |-> IF t \in Created(f) THEN ServiceOf(f, t) ELSE terminal_to_service[t]]
  /\ terminals' = (terminals \ dropped) \cup Created(f)
  /\ owner' = [t \in Terminals |-> IF t \in Created(f) THEN ServiceOf(f, t) ELSE owner[t]]
  /\ overlapped' = overlapped \cup {s \in DOMAIN f : f[s] # NoTerminal /\ CollectingPids(s)}

\* Mutant of Routes: a dropped terminal stays in the registry.
RoutesKeepsTerminal(f, dropped) ==
  /\ terminal_to_service' =
       [t \in Terminals |-> IF t \in Created(f) THEN ServiceOf(f, t)
                            ELSE IF t \in dropped THEN NoService
                            ELSE terminal_to_service[t]]
  /\ terminals' = terminals \cup Created(f)
  /\ owner' = [t \in Terminals |-> IF t \in Created(f) THEN ServiceOf(f, t) ELSE owner[t]]
  /\ overlapped' = overlapped \cup {s \in DOMAIN f : f[s] # NoTerminal /\ CollectingPids(s)}

\* The terminals of f enter the registry and the routing table, dropped leave both.
Routes(f, dropped) ==
  LET new == Created(f) IN
  /\ terminal_to_service' =
       [t \in Terminals |-> IF t \in new THEN ServiceOf(f, t)
                            ELSE IF t \in dropped THEN NoService
                            ELSE terminal_to_service[t]]
  /\ terminals' = (terminals \ dropped) \cup new
  /\ owner' = [t \in Terminals |-> IF t \in new THEN ServiceOf(f, t) ELSE owner[t]]
  /\ overlapped' = overlapped \cup {s \in DOMAIN f : f[s] # NoTerminal /\ CollectingPids(s)}

Unmap(t) == terminal_to_service' = [terminal_to_service EXCEPT ![t] = NoService]

\* The status of a service whose create_terminal answered x.
Started(x) == IF x = NoTerminal THEN "crashed" ELSE "running"

\* Mutant of CanStart: a running service may be started again.
CanStartTwice(s) == status[s] # "absent"

\* start_service returns at once for a missing or a running instance.
CanStart(s) == status[s] \notin {"absent", "running"}

\* start_okena_service for the services of f: a terminal kept from a crash is
\* dropped (not killed), the new one takes its place.
Launch(f) ==
  LET S == DOMAIN f IN
  /\ status' = [s \in Services |-> IF s \in S THEN Started(f[s]) ELSE status[s]]
  /\ terminal_id' = [s \in Services |-> IF s \in S THEN f[s] ELSE terminal_id[s]]
  /\ Routes(f, TerminalsOf(S))
  /\ PtyUpdate(Created(f), {}, {}, {})
  /\ UNCHANGED <<restart_count, restart_on_crash>>

\* Mutant of Withdraw: the terminal is forgotten without being killed.
WithdrawWithoutKill(S) ==
  /\ terminal_id' = [s \in Services |-> IF s \in S THEN NoTerminal ELSE terminal_id[s]]
  /\ Routes(NoSpawn, TerminalsOf(S))
  /\ PtyUpdate({}, {}, {}, {})

\* Each instance of S gives up its terminal: killed, out of registry and routes.
Withdraw(S) ==
  /\ terminal_id' = [s \in Services |-> IF s \in S THEN NoTerminal ELSE terminal_id[s]]
  /\ Routes(NoSpawn, TerminalsOf(S))
  /\ PtyUpdate({}, TerminalsOf(S), {}, {})

SetStatus(S, st) == status' = [s \in Services |-> IF s \in S THEN st ELSE status[s]]
ResetCount(S) == restart_count' = [s \in Services |-> IF s \in S THEN 0 ELSE restart_count[s]]

-------------------------------------------------------------------------------
(* Projects: sync_services loads each project of the workspace once, and   *)
(* unloads it when it is gone.                                             *)

ConfigsFor(p) == {c \in Configs : c.listed \subseteq ServicesOf(p)}

\* okena.yaml was read: saved are the listed services whose persisted terminal
\* was reconnected; those to auto-start are created after them.
LoadConfig(p, c, saved, f) ==
  /\ status' = [s \in Services |-> IF s \in DOMAIN f THEN Started(f[s])
                                   ELSE IF s \in c.listed THEN "stopped" ELSE status[s]]
  /\ terminal_id' = [s \in Services |-> IF s \in DOMAIN f THEN f[s]
                                        ELSE IF s \in c.listed THEN NoTerminal
                                        ELSE terminal_id[s]]
  /\ ResetCount(c.listed)
  /\ restart_on_crash' = (restart_on_crash \ c.listed) \cup (c.restart_on_crash \cap c.listed)
  /\ configs' = (configs \ ServicesOf(p)) \cup c.listed
  /\ project_paths' = project_paths \cup {p}
  /\ Routes(f, {})
  /\ PtyUpdate(Created(f), {}, {}, {})

OpenProject(p) ==
  /\ p \notin known
  /\ known' = known \cup {p}
  /\ \/ \E c \in ConfigsFor(p) : \E saved \in SUBSET c.listed :
          \E f \in Spawns(saved \cup (c.auto_start \cap c.listed)) :
            /\ \A s \in saved : f[s] # NoTerminal
            /\ LoadConfig(p, c, saved, f)
     \/ \* no okena.yaml: only the path is recorded
        /\ project_paths' = project_paths \cup {p}
        /\ UNCHANGED <<configs, instanceVars, routeVars, overlapped, ptyVars>>
     \/ \* okena.yaml cannot be read or parsed
        UNCHANGED <<project_paths, configs, instanceVars, routeVars, overlapped, ptyVars>>
  /\ UNCHANGED deferredVars

\* unload_project_services: deferred restarts are not cancelled.
Unload(p) ==
  LET S == {s \in ServicesOf(p) : Present(s)} IN
  /\ SetStatus(S, "absent")
  /\ ResetCount(S)
  /\ restart_on_crash' = restart_on_crash \ S
  /\ Withdraw(S)
  /\ configs' = configs \ ServicesOf(p)
  /\ project_paths' = project_paths \ {p}
  /\ UNCHANGED deferredVars

CloseProject(p) ==
  /\ p \in known
  /\ known' = known \ {p}
  /\ Unload(p)

\* reload_project_services: a service still listed keeps its process.
ReloadConfig(p, c) ==
  LET removed == {s \in ServicesOf(p) : Present(s)} \ c.listed
      added == {s \in c.listed : ~Present(s)}
  IN
  /\ status' = [s \in Services |-> IF s \in removed THEN "absent"
                                   ELSE IF s \in added THEN "stopped" ELSE status[s]]
  /\ ResetCount(removed)
  /\ restart_on_crash' =
       (restart_on_crash \ (removed \cup c.listed)) \cup (c.restart_on_crash \cap c.listed)
  /\ Withdraw(removed)
  /\ configs' = (configs \ ServicesOf(p)) \cup c.listed
  /\ UNCHANGED <<known, project_paths, deferredVars>>

ReloadServices(p) ==
  /\ p \in project_paths
  /\ \/ \E c \in ConfigsFor(p) : ReloadConfig(p, c)
     \/ Unload(p) /\ UNCHANGED known  \* okena.yaml is gone

-------------------------------------------------------------------------------
(* Commands of the user: sidebar, panel, remote client. *)

StartService(s) ==
  /\ Loaded(s) /\ CanStart(s)
  /\ \E f \in Spawns({s}) : Launch(f)
  /\ UNCHANGED <<projectVars, deferredVars>>

StartAll(p) ==
  LET S == {s \in ServicesOf(p) : CanStart(s)} IN
  /\ p \in project_paths /\ S # {}
  /\ \E f \in Spawns(S) : Launch(f)
  /\ UNCHANGED <<projectVars, deferredVars>>

\* stop_service on each of S: a pending restart of a crashed service stays pending.
Stop(S) ==
  /\ SetStatus(S, "stopped")
  /\ ResetCount(S)
  /\ Withdraw(S)
  /\ UNCHANGED <<restart_on_crash, projectVars, deferredVars>>

StopService(s) == Present(s) /\ Stop({s})

StopAll(p) ==
  LET S == {s \in ServicesOf(p) : Present(s)} IN S # {} /\ Stop(S)

\* restart_service: the instance gives up its terminal to the continuation, which
\* has yet to collect pids and kill it.
RestartService(s) ==
  LET t == terminal_id[s] IN
  /\ Loaded(s) /\ Present(s)
  /\ SetStatus({s}, "restarting")
  /\ ResetCount({s})
  /\ terminal_id' = [terminal_id EXCEPT ![s] = NoTerminal]
  /\ \/ /\ t # NoTerminal
        /\ taken' = [taken EXCEPT ![t] = "pids"]
        /\ UNCHANGED bare
     \/ /\ t = NoTerminal
        /\ bare[s] < MaxBare
        /\ bare' = [bare EXCEPT ![s] = @ + 1]
        /\ UNCHANGED taken
  /\ UNCHANGED <<restart_on_crash, timers, projectVars, routeVars, overlapped, ptyVars>>

-------------------------------------------------------------------------------
(* Deferred steps of the executor. *)

\* Mutant of RestartKill: a service that is no longer Restarting is left alone.
RestartKillIfRestarting(t) ==
  /\ taken[t] = "pids"
  /\ taken' = [taken EXCEPT ![t] = "waiting"]
  /\ IF status[owner[t]] = "restarting"
     THEN Routes(NoSpawn, {t}) /\ PtyUpdate({}, {t}, {}, {})
     ELSE UNCHANGED <<routeVars, overlapped, ptyVars>>
  /\ UNCHANGED <<instanceVars, projectVars, timers, bare>>

\* The pids are there: kill the old terminal and forget its route.
RestartKill(t) ==
  /\ taken[t] = "pids"
  /\ taken' = [taken EXCEPT ![t] = "waiting"]
  /\ Routes(NoSpawn, {t})
  /\ PtyUpdate({}, {t}, {}, {})
  /\ UNCHANGED <<instanceVars, projectVars, timers, bare>>

\* Mutant of Resume: the status test is inverted.
ResumeUnlessRestarting(s) ==
  IF status[s] # "restarting"
  THEN \E f \in Spawns({s}) : Launch(f)
  ELSE UNCHANGED <<instanceVars, routeVars, overlapped, ptyVars>>

\* The last update of a manual restart: start unless someone changed the status.
Resume(s) ==
  IF status[s] = "restarting"
  THEN \E f \in Spawns({s}) : Launch(f)
  ELSE UNCHANGED <<instanceVars, routeVars, overlapped, ptyVars>>

RestartStart(t) ==
  /\ taken[t] = "waiting"
  /\ process[t] = "dead" \/ WaitTimesOut
  /\ taken' = [taken EXCEPT ![t] = "no"]
  /\ Resume(owner[t])
  /\ UNCHANGED <<projectVars, timers, bare>>

BareRestart(s) ==
  /\ bare[s] > 0
  /\ bare' = [bare EXCEPT ![s] = @ - 1]
  /\ Resume(s)
  /\ UNCHANGED <<projectVars, timers, taken>>

\* Mutants of TimerStarts: only a stopped service is started; a running one too.
TimerStartsStopped(s) == Loaded(s) /\ status[s] = "stopped"
TimerStartsAny(s) == Loaded(s) /\ Present(s)

\* The restart_delay of a crashed service is over: start_service, whatever the
\* status has become in the meantime.
TimerStarts(s) == Loaded(s) /\ CanStart(s)

CrashTimer(s) ==
  /\ timers[s] > 0
  /\ timers' = [timers EXCEPT ![s] = @ - 1]
  /\ IF TimerStarts(s)
     THEN \E f \in Spawns({s}) : Launch(f)
     ELSE UNCHANGED <<instanceVars, routeVars, overlapped, ptyVars>>
  /\ UNCHANGED <<projectVars, taken, bare>>

-------------------------------------------------------------------------------
(* The event loop receives the Exit events of t that are in one batch: each *)
(* first cleans up the PtyHandle, then handle_service_exit decides.         *)

\* Not (or no longer) routed to a service: an ordinary terminal, kill it.
ExitOfOther(t, received) ==
  /\ terminal_to_service[t] = NoService
  /\ Routes(NoSpawn, {t})
  /\ PtyUpdate({}, {t}, {t}, received)
  /\ UNCHANGED <<instanceVars, deferredVars>>

\* Routed to a service that has no instance any more.
ExitOfRemoved(t, received) ==
  /\ terminal_to_service[t] \in Services
  /\ ~Present(terminal_to_service[t])
  /\ Unmap(t)
  /\ PtyUpdate({}, {}, {t}, received)
  /\ UNCHANGED <<terminals, owner, overlapped, instanceVars, deferredVars>>

\* Mutant of MayAutoRestart: one restart too many.
MayAutoRestartOnceMore(s) == s \in restart_on_crash /\ restart_count[s] <= MAX_RESTART_COUNT

MayAutoRestart(s) == s \in restart_on_crash /\ restart_count[s] < MAX_RESTART_COUNT

ExitRestarts(t, received) ==
  LET s == terminal_to_service[t] IN
  /\ s \in Services /\ Present(s) /\ MayAutoRestart(s)
  /\ SetStatus({s}, "restarting")
  /\ terminal_id' = [terminal_id EXCEPT ![s] = NoTerminal]
  /\ restart_count' = [restart_count EXCEPT ![s] = @ + 1]
  /\ timers' = [timers EXCEPT ![s] = @ + 1]
  /\ Routes(NoSpawn, {t})
  /\ PtyUpdate({}, {}, {t}, received)
  /\ UNCHANGED <<restart_on_crash, taken, bare>>

\* The terminal stays with the instance and in the registry, to show the output.
ExitCrashes(t, received) ==
  LET s == terminal_to_service[t] IN
  /\ s \in Services /\ Present(s) /\ ~MayAutoRestart(s)
  /\ SetStatus({s}, "crashed")
  /\ Unmap(t)
  /\ PtyUpdate({}, {}, {t}, received)
  /\ UNCHANGED <<terminal_id, restart_count, restart_on_crash, terminals, owner,
                 overlapped, deferredVars>>

HandleExit(t) ==
  /\ \E received \in (SUBSET EventsOf(t)) \ {{}} :
       \/ ExitOfOther(t, received)
       \/ ExitOfRemoved(t, received)
       \/ ExitRestarts(t, received)
       \/ ExitCrashes(t, received)
  /\ UNCHANGED projectVars

\* Processes, PTY threads and teardown workers.
PtyStep == PtyNext /\ UNCHANGED <<projectVars, instanceVars, routeVars, deferredVars, overlapped>>

-------------------------------------------------------------------------------
Next ==
  \/ \E p \in Projects :
       OpenProject(p) \/ CloseProject(p) \/ ReloadServices(p) \/ StartAll(p) \/ StopAll(p)
  \/ \E s \in Services :
       StartService(s) \/ StopService(s) \/ RestartService(s) \/ BareRestart(s) \/ CrashTimer(s)
  \/ \E t \in Terminals : RestartKill(t) \/ RestartStart(t) \/ HandleExit(t)
  \/ PtyStep

Spec == Init /\ [][Next]_vars

\* The executor runs every deferred task and timer, the event loop drains its
\* channel and the workers their queue; nobody is obliged to type or to crash.
Fairness ==
  /\ \A s \in Services : WF_vars(BareRestart(s)) /\ WF_vars(CrashTimer(s))
  /\ \A t \in Terminals :
       /\ WF_vars(RestartKill(t)) /\ WF_vars(RestartStart(t)) /\ WF_vars(HandleExit(t))
       /\ \A kind \in JobKind :
            WF_vars(Teardown(t, kind) /\ UNCHANGED <<projectVars, instanceVars, routeVars,
                                                     deferredVars, overlapped>>)

FairSpec == Spec /\ Fairness

-------------------------------------------------------------------------------
(* Properties. *)

HeldBy(s, t) == terminal_id[s] = t \/ (taken[t] # "no" /\ owner[t] = s)

\* A service shown as Restarting will be restarted: a delay timer or a manual
\* restart is pending for it, through every interleaving of crashes, stops,
\* reloads and manual restarts (handle_service_exit, restart_service).
RestartingIsPending ==
  \A s \in Services : status[s] = "restarting" =>
    \/ timers[s] > 0
    \/ bare[s] > 0
    \/ \E t \in Terminals : taken[t] # "no" /\ owner[t] = s

\* The routing table and the instances agree: an Exit event is routed to a service
\* only for the terminal the instance shows or a manual restart still holds, and a
\* running service is always routed, so that its exit cannot be lost.
RoutesAgree ==
  \A s \in Services \ overlapped :
    /\ \A t \in Terminals : terminal_to_service[t] = s =>
         terminal_id[s] = t \/ (taken[t] = "pids" /\ owner[t] = s)
    /\ status[s] = "running" => terminal_to_service[terminal_id[s]] = s

\* A service shown as Running has a process, or the Exit event that will say that
\* it has none is on its way; its UI Terminal is in the registry.
RunningIsBacked ==
  \A s \in Services \ overlapped : status[s] = "running" =>
    /\ terminal_id[s] \in terminals
    /\ Alive(terminal_id[s]) \/ EventsOf(terminal_id[s]) # {}

\* No process of a service runs without an owner: it belongs to the instance, is
\* held by a manual restart, or a worker is about to end it.
NoOrphan ==
  \A t \in Terminals : Alive(t) /\ owner[t] \notin overlapped =>
    HeldBy(owner[t], t) \/ BeingEnded(t)

\* The registry keeps no UI Terminal of a service that nobody shows any more.
RegistryHasOwners ==
  \A t \in terminals : owner[t] \notin overlapped => HeldBy(owner[t], t)

\* At most one process of a service is not on its way out, unless a start came
\* while a manual restart was still collecting pids.
OneProcess ==
  \A t, u \in Terminals :
    /\ t # u /\ Alive(t) /\ Alive(u) /\ owner[t] = owner[u]
    => owner[t] \in overlapped \/ BeingEnded(t) \/ BeingEnded(u)

\* A running service never changes its process in one step: start, reload and the
\* deferred restarts leave it alone, only a crash, a stop or a restart ends it.
RunningKeepsProcess ==
  [][\A s \in Services : status[s] = "running" /\ status'[s] = "running" =>
       terminal_id'[s] = terminal_id[s]]_vars

(* Each service has one slot for a process, whatever starts, crashes, stops,  *)
(* reloads and restarts interleave: the PtyHandle is what holds it.        *)
Slots == INSTANCE ServiceSlots WITH
  holder  <- owner,
  open    <- handles,
  leaving <- {t \in Terminals : taken[t] = "pids"},
  shared  <- overlapped

\* A start, a reload or a deferred restart never creates a second process next to
\* one that nobody has killed and whose end nobody has noticed, and a terminal that
\* was given up never comes back; the exception is a start in the gap between a
\* manual restart and its kill (start_okena_service, restart_service).
IsSlots == Slots!Spec

\* Restarting ends: the service runs, has crashed, was stopped or removed.
RestartingEnds ==
  \A s \in Services : status[s] = "restarting" ~> status[s] # "restarting"

\* A terminal taken over by a manual restart is ended even when the service is
\* stopped, removed or started by a timer in the meantime.
TakenIsEnded == \A t \in Terminals : taken[t] # "no" ~> process[t] = "dead"

\* The end of a process is always noticed: no service stays Running on a dead one.
ExitIsNoticed ==
  \A s \in Services, t \in Terminals :
    status[s] = "running" /\ terminal_id[s] = t /\ process[t] = "dead"
      ~> ~(status[s] = "running" /\ terminal_id[s] = t)

-------------------------------------------------------------------------------
(* Statements of the documentation and the comments that the code breaks. *)

\* docs/services.md: Stopped is "Not running", only Restarting is waiting to
\* restart.  So the delay timer of an earlier crash leaves a stopped service alone.
StoppedStaysStopped ==
  [][\A s \in Services : timers'[s] < timers[s] /\ status[s] = "stopped"
       => status'[s] = "stopped"]_vars

\* restart_service: "kill the old process, wait for it to die, then start a new
\* one".  So nothing starts the service while the process that a manual restart
\* took over is still alive.
OldProcessDiesFirst ==
  [][\A t, u \in Terminals :
       /\ taken[t] # "no" /\ Alive(t)
       /\ process[u] = "none" /\ process'[u] = "alive"
       => owner'[u] # owner[t]]_vars

===============================================================================
