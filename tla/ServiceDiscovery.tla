-------------------------- MODULE ServiceDiscovery --------------------------
(***************************************************************************)
(* The background tasks that fill the services of a project                *)
(* (crates/okena-services/src/manager/{docker,port_detection,lifecycle,    *)
(* commands}.rs).                                                          *)
(*                                                                         *)
(* A project has services of two kinds in one table: those of okena.yaml   *)
(* and those Docker Compose lists.  The list of the Docker services comes  *)
(* from a subprocess and arrives after the project may have been reloaded  *)
(* or closed; a poller then asks for the state of the containers until it  *)
(* is cancelled, and looks at its flag before and after each question; one *)
(* more task scans the ports of all okena services that were just started. *)
(*                                                                         *)
(* Of the life of an okena service only what these tasks see is kept: the  *)
(* module ServiceManager has the rest.  Projects share nothing but the     *)
(* port scan, which knows services by key, so that one project with        *)
(* several services is modelled.                                           *)
(***************************************************************************)
EXTENDS Integers

CONSTANTS
  Name,          \* the names of services
  Poll,          \* ids of poll tasks (bound): the tasks alive at once
  PortSets,      \* the sets of ports a scan or Docker may report
  None,          \* no kind, no ports, no poller, no detection
  Polls,         \* polls_remaining at the start: 10 in the code
  MaxListings    \* bound on the lists of Docker services under way

ASSUME ConstantsAssumption ==
  /\ None \notin Poll \cup PortSets \cup {"okena", "docker"}
  /\ Polls \in Nat \ {0}
  /\ MaxListings \in Nat

(* Idle is stopped, crashed or restarting: the background tasks and        *)
(* start_service do not tell these apart.                                  *)
Status == {"idle", "starting", "running"}

Detection == [polls_remaining : 1..Polls, found_any : BOOLEAN, stable_count : 0..1]

VARIABLES
  known,         \* sync_services has loaded the project
  loaded,        \* the project has an entry in project_paths
  configs,       \* the services okena.yaml lists
  kind,          \* the kind of each instance, None where there is none
  status,        \* of the instance
  terminal,      \* whether it has a terminal: its process, or a log viewer
  ports,         \* detected_ports
  listings,      \* lists of Docker services under way
  docker_poller, \* the poll task whose cancel flag docker_pollers holds
  polls,         \* what each poll task does: none, waiting, asked
  cancelled,     \* the poll tasks whose cancel flag is set
  overtaken,     \* history: asked, then the project was unloaded or reloaded
  detection,     \* port_detection_active
  port_detection_running,
  detector,      \* what the detection task does: none, waiting, scanning
  scanned        \* the services of the scan under way

project == <<known, loaded, configs>>
instances == <<kind, status, terminal, ports>>
polling == <<docker_poller, polls, cancelled, overtaken>>
detecting == <<detection, port_detection_running, detector, scanned>>
vars == <<project, instances, listings, polling, detecting>>

Init ==
  /\ known = FALSE /\ loaded = FALSE /\ configs = {}
  /\ kind = [n \in Name |-> None] /\ status = [n \in Name |-> "idle"]
  /\ terminal = [n \in Name |-> FALSE] /\ ports = [n \in Name |-> None]
  /\ listings = 0
  /\ docker_poller = None /\ polls = [t \in Poll |-> "none"]
  /\ cancelled = {} /\ overtaken = {}
  /\ detection = [n \in Name |-> None]
  /\ port_detection_running = FALSE /\ detector = "none" /\ scanned = {}

-----------------------------------------------------------------------------
(* Port detection.                                                         *)

(* start_port_detection for the services S: one task serves them all.      *)
Register(S) ==
  /\ detection' = [n \in Name |-> IF n \in S
       THEN [polls_remaining |-> Polls, found_any |-> FALSE, stable_count |-> 0]
       ELSE detection[n]]
  /\ port_detection_running' = (port_detection_running \/ S # {})
  /\ detector' = IF S = {} \/ port_detection_running THEN detector ELSE "waiting"
  /\ UNCHANGED scanned

Awaiting == {n \in Name : detection[n] # None}

(* The services the next scan is for.                                      *)
Scannable == {n \in Awaiting : kind[n] # None /\ status[n] = "running" /\ terminal[n]}

\* Mutant of Retire: the flag stays set, so that no task is started again.
RetireSilently == detector' = "none" /\ UNCHANGED port_detection_running

Retire == detector' = "none" /\ port_detection_running' = FALSE

detection_collects ==
  /\ detector = "waiting"
  /\ scanned' = Scannable
  /\ IF Scannable = {}
       THEN Retire /\ detection' = [n \in Name |-> None]
       ELSE detector' = "scanning" /\ UNCHANGED <<detection, port_detection_running>>
  /\ UNCHANGED <<project, instances, listings, polling>>

\* Mutant of Shows: the ports are shown whatever became of the service.
ShowsAnyway(n, found) == found # None /\ kind[n] # None

(* Whether what a scan found for n is written to its instance.             *)
Shows(n, found) == found # None /\ kind[n] # None /\ status[n] = "running"

(* One poll of the detection of n: it ends when the polls are used up or   *)
(* the ports were the same for a second time after the first find.         *)
Polled(n, found) ==
  LET d == detection[n]
      steady == found # None /\ d.found_any /\ ~(Shows(n, found) /\ ports[n] # found)
  IN  IF d = None THEN None
      ELSE IF d.polls_remaining = 1 \/ (steady /\ d.stable_count = 1) THEN None
      ELSE [polls_remaining |-> d.polls_remaining - 1,
            found_any |-> d.found_any \/ found # None,
            stable_count |-> IF found = None THEN d.stable_count ELSE IF steady THEN 1 ELSE 0]

(* The result of a scan, written by name; the detection may have ended, or *)
(* begun anew, since the scan.                                             *)
detection_delivers ==
  /\ detector = "scanning"
  /\ \E found \in [scanned -> PortSets \cup {None}] :
       /\ ports' = [n \in Name |-> IF n \in scanned \cap Awaiting /\ Shows(n, found[n])
                                     THEN found[n] ELSE ports[n]]
       /\ detection' = [n \in Name |-> IF n \in scanned THEN Polled(n, found[n])
                                                        ELSE detection[n]]
  /\ scanned' = {}
  /\ IF detection' = [n \in Name |-> None]
       THEN Retire
       ELSE detector' = "waiting" /\ UNCHANGED port_detection_running
  /\ UNCHANGED <<project, kind, status, terminal, listings, polling>>

-----------------------------------------------------------------------------
(* Docker Compose.                                                         *)

(* load_docker_compose_services: nothing when Docker is disabled or there  *)
(* is no compose file.                                                     *)
List ==
  \/ UNCHANGED listings
  \/ listings < MaxListings /\ listings' = listings + 1

(* Set the flag that docker_pollers held; the task may have ended before.  *)
Cancel(t) == cancelled' = cancelled \cup {u \in Poll : u = t /\ polls[u] # "none"}

Asked == {t \in Poll : polls[t] = "asked"}

StopPolling ==
  /\ Cancel(docker_poller)
  /\ docker_poller' = None
  /\ overtaken' = overtaken \cup Asked
  /\ UNCHANGED polls

(* The list of Docker services arrives, whatever became of the project:    *)
(* names that have no instance get one, and a new poller replaces the old. *)
listing_arrives ==
  /\ listings > 0
  /\ listings' = listings - 1
  /\ UNCHANGED <<project, terminal, detecting>>
  /\ \/ UNCHANGED <<instances, polling>>  \* no docker compose, or it failed
     \/ \E S \in SUBSET Name, t \in Poll :
          /\ polls[t] = "none" /\ t # docker_poller
          /\ kind' = [n \in Name |-> IF n \in S /\ kind[n] = None THEN "docker" ELSE kind[n]]
          /\ Cancel(docker_poller)
          /\ docker_poller' = t
          /\ polls' = [polls EXCEPT ![t] = "waiting"]
          /\ UNCHANGED <<status, ports, overtaken>>

TaskEnds(t) ==
  /\ polls' = [polls EXCEPT ![t] = "none"]
  /\ cancelled' = cancelled \ {t}
  /\ overtaken' = overtaken \ {t}
  /\ UNCHANGED docker_poller

\* Mutant of Wanted: the flag is not looked at.
AlwaysWanted(t) == TRUE

Wanted(t) == t \notin cancelled

poll_wakes(t) ==
  /\ polls[t] = "waiting"
  /\ \/ ~Wanted(t) /\ TaskEnds(t)
     \/ /\ Wanted(t)
        /\ polls' = [polls EXCEPT ![t] = "asked"]
        /\ UNCHANGED <<docker_poller, cancelled, overtaken>>
  /\ UNCHANGED <<project, instances, listings, detecting>>

(* What docker ps and map_docker_state say of the containers of the        *)
(* project; Docker publishes ports of running containers only.             *)
Container == {[status |-> "idle", ports |-> None]}
               \cup [status : {"running"}, ports : PortSets \cup {None}]
Report == UNION {[S -> Container] : S \in SUBSET Name}

(* The poller ends at the first report that names none of the services.    *)
poll_answers(t) ==
  /\ polls[t] = "asked"
  /\ UNCHANGED <<project, kind, terminal, listings, detecting>>
  /\ \/ ~Wanted(t) /\ TaskEnds(t) /\ UNCHANGED instances
     \/ /\ Wanted(t)  \* docker failed: try again
        /\ polls' = [polls EXCEPT ![t] = "waiting"]
        /\ overtaken' = overtaken \ {t}
        /\ UNCHANGED <<docker_poller, cancelled, instances>>
     \/ /\ Wanted(t)
        /\ \E report \in Report :
             LET mine == {n \in DOMAIN report : kind[n] = "docker"} IN
             /\ status' = [n \in Name |-> IF n \in mine THEN report[n].status ELSE status[n]]
             /\ ports' = [n \in Name |-> IF n \in mine THEN report[n].ports ELSE ports[n]]
             /\ IF mine = {} THEN TaskEnds(t)
                ELSE /\ polls' = [polls EXCEPT ![t] = "waiting"]
                     /\ overtaken' = overtaken \ {t}
                     /\ UNCHANGED <<docker_poller, cancelled>>

(* open_docker_logs: the panel asks for it when there is no viewer yet; it *)
(* may fail to open.                                                       *)
open_docker_logs(n) ==
  /\ kind[n] = "docker" /\ loaded /\ ~terminal[n]
  /\ terminal' = [terminal EXCEPT ![n] = TRUE]
  /\ UNCHANGED <<project, kind, status, ports, listings, polling, detecting>>

logs_exit(n) ==
  /\ kind[n] = "docker" /\ terminal[n]
  /\ terminal' = [terminal EXCEPT ![n] = FALSE]
  /\ UNCHANGED <<project, kind, status, ports, listings, polling, detecting>>

-----------------------------------------------------------------------------
(* Commands.                                                               *)

CanStart(n) == kind[n] # None /\ status[n] \notin {"starting", "running"}

(* start_service: a command, or the delayed start of a crashed or          *)
(* restarting service.  Docker starts on its own, an okena service at once *)
(* or not at all.                                                          *)
start_service(n) ==
  /\ loaded /\ CanStart(n)
  /\ \/ /\ kind[n] = "docker"
        /\ status' = [status EXCEPT ![n] = "starting"]
        /\ UNCHANGED <<terminal, detecting>>
     \/ /\ kind[n] = "okena"
        /\ status' = [status EXCEPT ![n] = "running"]
        /\ terminal' = [terminal EXCEPT ![n] = TRUE]
        /\ Register({n})
     \/ /\ kind[n] = "okena"
        /\ terminal' = [terminal EXCEPT ![n] = FALSE]
        /\ UNCHANGED <<status, detecting>>
  /\ UNCHANGED <<project, kind, ports, listings, polling>>

(* stop_service, and restart_service up to its delayed start: both take    *)
(* the terminal, a process or a log viewer.                                *)
stop_service(n) ==
  /\ kind[n] # None
  /\ status' = [status EXCEPT ![n] = "idle"]
  /\ terminal' = [terminal EXCEPT ![n] = FALSE]
  /\ ports' = [ports EXCEPT ![n] = None]
  /\ UNCHANGED <<project, kind, listings, polling, detecting>>

(* handle_service_exit of an okena service.  ServiceManager says which     *)
(* exits restart and which leave the terminal to be looked at.             *)
handle_service_exit(n) ==
  /\ kind[n] = "okena" /\ status[n] = "running"
  /\ status' = [status EXCEPT ![n] = "idle"]
  /\ terminal' \in {terminal, [terminal EXCEPT ![n] = FALSE]}
  /\ ports' = [ports EXCEPT ![n] = None]
  /\ UNCHANGED <<project, kind, listings, polling, detecting>>

-----------------------------------------------------------------------------
(* The set of services.                                                    *)

\* Mutant of Withdrawn: the terminals of what is removed stay.
WithdrawnButTerminals(k) ==
  /\ kind' = k
  /\ status' = [n \in Name |-> IF k[n] = None THEN "idle" ELSE status[n]]
  /\ ports' = [n \in Name |-> IF k[n] = None THEN None ELSE ports[n]]
  /\ UNCHANGED terminal

(* Afterwards the kinds are k: an instance that goes takes its terminal    *)
(* with it, and one that is new is stopped.                                *)
Withdrawn(k) ==
  /\ kind' = k
  /\ status' = [n \in Name |-> IF k[n] = None THEN "idle" ELSE status[n]]
  /\ ports' = [n \in Name |-> IF k[n] = None THEN None ELSE ports[n]]
  /\ terminal' = [n \in Name |-> k[n] # None /\ terminal[n]]

(* load_project_services.  The okena services replace what has their name; *)
(* some are reconnected or started at once.                                *)
load_project_services ==
  /\ ~known /\ known' = TRUE
  /\ UNCHANGED polling
  /\ \/ UNCHANGED <<loaded, configs, instances, listings, detecting>>  \* okena.yaml is invalid
     \/ /\ loaded' = TRUE /\ List  \* there is no okena.yaml
        /\ UNCHANGED <<configs, instances, detecting>>
     \/ /\ loaded' = TRUE /\ List
        /\ \E C \in SUBSET Name : \E first \in [C -> {"idle", "running"}] :
             /\ configs' = C
             /\ kind' = [n \in Name |-> IF n \in C THEN "okena" ELSE kind[n]]
             /\ status' = [n \in Name |-> IF n \in C THEN first[n] ELSE status[n]]
             /\ terminal' = [n \in Name |-> IF n \in C THEN first[n] = "running" ELSE terminal[n]]
             /\ ports' = [n \in Name |-> IF n \in C THEN None ELSE ports[n]]
             /\ Register({n \in C : first[n] = "running"})

Unload ==
  /\ StopPolling
  /\ Withdrawn([n \in Name |-> None])
  /\ loaded' = FALSE /\ configs' = {}
  /\ UNCHANGED <<listings, detecting>>

(* unload_project_services, when the project is removed.                   *)
unload_project_services == known /\ known' = FALSE /\ Unload

\* Mutant of Kept: the Docker reload removes the services of both kinds.
KeptNone(C) == [n \in Name |-> None]

(* The kinds after a reload with the services C in okena.yaml: an instance *)
(* that is there is taken for the service of that name, and then removed   *)
(* if it was Docker's.                                                     *)
Kept(C) == [n \in Name |-> IF n \in C /\ kind[n] # "docker" THEN "okena" ELSE None]

(* reload_project_services and, in its end, reload_docker_compose_services.*)
reload_project_services ==
  /\ loaded
  /\ \/ Unload  \* okena.yaml is gone
     \/ \E C \in SUBSET Name :
          /\ configs' = C
          /\ Withdrawn(Kept(C))
          /\ StopPolling
          /\ List
          /\ UNCHANGED <<loaded, detecting>>
  /\ UNCHANGED known

-----------------------------------------------------------------------------
Next ==
  \/ detection_collects
  \/ detection_delivers
  \/ listing_arrives
  \/ \E t \in Poll : poll_wakes(t)
  \/ \E t \in Poll : poll_answers(t)
  \/ \E n \in Name : open_docker_logs(n)
  \/ \E n \in Name : logs_exit(n)
  \/ \E n \in Name : start_service(n)
  \/ \E n \in Name : stop_service(n)
  \/ \E n \in Name : handle_service_exit(n)
  \/ load_project_services
  \/ unload_project_services
  \/ reload_project_services

Spec == Init /\ [][Next]_vars

-----------------------------------------------------------------------------
(* The variables have their types; what has no instance has left neither   *)
(* terminal nor ports, and what has none is known under its state at rest. *)
TypeOK ==
  /\ known \in BOOLEAN /\ loaded \in BOOLEAN /\ (loaded => known)
  /\ configs \subseteq Name /\ (~loaded => configs = {})
  /\ kind \in [Name -> {None, "okena", "docker"}]
  /\ status \in [Name -> Status]
  /\ terminal \in [Name -> BOOLEAN]
  /\ ports \in [Name -> PortSets \cup {None}]
  /\ \A n \in Name : kind[n] = None => status[n] = "idle" /\ ~terminal[n] /\ ports[n] = None
  /\ listings \in 0..MaxListings
  /\ docker_poller \in Poll \cup {None}
  /\ polls \in [Poll -> {"none", "waiting", "asked"}]
  /\ cancelled \subseteq {t \in Poll : polls[t] # "none"}
  /\ overtaken \subseteq Asked
  /\ detection \in [Name -> Detection \cup {None}]
  /\ port_detection_running \in BOOLEAN
  /\ detector \in {"none", "waiting", "scanning"}
  /\ scanned \subseteq Name

(* A poll that was asked before an unload or a reload changes nothing when *)
(* its answer comes: neither the services of the next load nor anything    *)
(* that another list of services has brought since.                        *)
PollIsCurrent ==
  [][\A t \in overtaken : polls'[t] # "asked" => UNCHANGED instances]_vars

(* A service of okena.yaml has an instance as long as it is listed there.  *)
(* One thing breaks this: a reload that finds a Docker service under a     *)
(* name that is new in okena.yaml lists the service and has no instance.   *)
ServiceIsNotLost ==
  [][\A n \in configs' : kind'[n] = None =>
       \/ kind[n] = "docker"
       \/ n \in configs /\ kind[n] = None /\ ~reload_project_services]_vars

(* An okena service shows ports only while it runs: what a scan finds is   *)
(* not shown when the service ended during the scan.                       *)
NoPortsWithoutProcess ==
  \A n \in Name : kind[n] = "okena" /\ ports[n] # None => status[n] = "running"

(* Whatever starts, ends and uses up its polls meanwhile, a service that   *)
(* waits for detection has the one task that scans, and a task that is     *)
(* shown as running is there to see the next service.                      *)
DetectionGoesOn ==
  /\ Awaiting # {} => detector # "none"
  /\ port_detection_running <=> detector # "none"
=============================================================================
