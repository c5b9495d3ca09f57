----------------------- MODULE ServiceDiscoveryProofs -----------------------
(***************************************************************************)
(* Proofs about ServiceDiscovery, for every set of names, poll tasks and   *)
(* ports.                                                                  *)
(***************************************************************************)
EXTENDS ServiceDiscovery, TLAPS

(* One poller: a task whose flag is not set is the one docker_pollers      *)
(* names, so that an unload or a reload reaches it; and every question     *)
(* that was overtaken by one has its flag set.                             *)
OnePoller ==
  /\ \A t \in Poll : polls[t] # "none" /\ t \notin cancelled => docker_poller = t
  /\ overtaken \subseteq cancelled

IInv == TypeOK /\ OnePoller /\ NoPortsWithoutProcess /\ DetectionGoesOn

LEMMA InitOK == Init => IInv
<1> SUFFICES ASSUME Init PROVE IInv
  OBVIOUS
<1>1. terminal = [n \in Name |-> FALSE] /\ \A n \in Name : ~terminal[n]
  BY DEF Init
<1>2. TypeOK
  <2>1. terminal \in [Name -> BOOLEAN]
    BY <1>1
  <2>2. \A n \in Name : status[n] = "idle" /\ ports[n] = None
    BY DEF Init
  <2>3. detection \in [Name -> Detection \cup {None}]
    BY DEF Init
  <2>4. /\ kind \in [Name -> {None, "okena", "docker"}]
        /\ status \in [Name -> Status]
        /\ ports \in [Name -> PortSets \cup {None}]
        /\ polls \in [Poll -> {"none", "waiting", "asked"}]
    BY DEF Init, Status
  <2>5. /\ known = FALSE /\ loaded = FALSE /\ configs = {} /\ listings \in 0..MaxListings
        /\ docker_poller = None /\ cancelled = {} /\ overtaken = {}
        /\ port_detection_running = FALSE /\ detector = "none" /\ scanned = {}
    BY ConstantsAssumption DEF Init
  <2> QED BY <1>1, <2>1, <2>2, <2>3, <2>4, <2>5 DEF TypeOK
<1>3. OnePoller
  BY DEF Init, OnePoller
<1>4. NoPortsWithoutProcess
  BY DEF Init, NoPortsWithoutProcess
<1>5. DetectionGoesOn
  BY DEF Init, DetectionGoesOn, Awaiting
<1> QED BY <1>2, <1>3, <1>4, <1>5 DEF IInv

-----------------------------------------------------------------------------
(* The shared steps.                                                       *)

(* A registration leaves a detection task behind, if it is needed.         *)
LEMMA RegisterOK ==
  ASSUME TypeOK, DetectionGoesOn, NEW S \in SUBSET Name, Register(S)
  PROVE  /\ detection' \in [Name -> Detection \cup {None}]
         /\ port_detection_running' \in BOOLEAN
         /\ detector' \in {"none", "waiting", "scanning"}
         /\ scanned' = scanned
         /\ DetectionGoesOn'
<1>1. [polls_remaining |-> Polls, found_any |-> FALSE, stable_count |-> 0] \in Detection
  BY ConstantsAssumption DEF Detection
<1>2. detection' \in [Name -> Detection \cup {None}]
  BY <1>1 DEF Register, TypeOK
<1>3. /\ port_detection_running' \in BOOLEAN
      /\ detector' \in {"none", "waiting", "scanning"}
      /\ scanned' = scanned
  BY DEF Register, TypeOK
<1>4. DetectionGoesOn'
  <2>1. CASE S = {}
    <3>1. detection' = detection
      BY <2>1 DEF Register, TypeOK
    <3> QED BY <2>1, <3>1 DEF Register, DetectionGoesOn, Awaiting
  <2>2. CASE S # {}
    BY <2>2 DEF Register, DetectionGoesOn, TypeOK
  <2> QED BY <2>1, <2>2
<1> QED BY <1>2, <1>3, <1>4

(* An unload or a reload sets the flag of every task, and of every         *)
(* question.                                                               *)
LEMMA StopPollingOK ==
  ASSUME TypeOK, OnePoller, StopPolling
  PROVE  /\ docker_poller' \in Poll \cup {None}
         /\ polls' \in [Poll -> {"none", "waiting", "asked"}]
         /\ cancelled' \subseteq {t \in Poll : polls'[t] # "none"}
         /\ overtaken' \subseteq Asked'
         /\ OnePoller'
<1>1. cancelled' = {t \in Poll : polls[t] # "none"}
  BY DEF StopPolling, Cancel, OnePoller, TypeOK
<1> QED BY <1>1 DEF StopPolling, OnePoller, TypeOK, Asked

(* The end of a task.                                                      *)
LEMMA TaskEndsOK ==
  ASSUME TypeOK, OnePoller, NEW t \in Poll, TaskEnds(t)
  PROVE  /\ docker_poller' \in Poll \cup {None}
         /\ polls' \in [Poll -> {"none", "waiting", "asked"}]
         /\ cancelled' \subseteq {u \in Poll : polls'[u] # "none"}
         /\ overtaken' \subseteq Asked'
         /\ OnePoller'
  BY DEF TaskEnds, OnePoller, TypeOK, Asked

(* The instances after an unload or a reload.                              *)
LEMMA WithdrawnOK ==
  ASSUME TypeOK, NoPortsWithoutProcess,
         NEW k \in [Name -> {None, "okena", "docker"}], Withdrawn(k),
         \A n \in Name : k[n] = "okena" => kind[n] \in {None, "okena"}
  PROVE  /\ kind' \in [Name -> {None, "okena", "docker"}]
         /\ status' \in [Name -> Status]
         /\ terminal' \in [Name -> BOOLEAN]
         /\ ports' \in [Name -> PortSets \cup {None}]
         /\ \A n \in Name :
              kind'[n] = None => status'[n] = "idle" /\ ~terminal'[n] /\ ports'[n] = None
         /\ NoPortsWithoutProcess'
<1>1. \A n \in Name : terminal'[n] <=> (k[n] # None /\ terminal[n])
  BY DEF Withdrawn
<1>2. \A n \in Name : /\ kind'[n] = k[n]
                      /\ status'[n] = IF k[n] = None THEN "idle" ELSE status[n]
                      /\ ports'[n] = IF k[n] = None THEN None ELSE ports[n]
  BY DEF Withdrawn
<1>3. /\ kind' \in [Name -> {None, "okena", "docker"}]
      /\ status' \in [Name -> Status]
      /\ ports' \in [Name -> PortSets \cup {None}]
  BY DEF Withdrawn, TypeOK, Status
<1>4. terminal' \in [Name -> BOOLEAN]
  BY DEF Withdrawn, TypeOK
<1>5. NoPortsWithoutProcess'
  BY <1>2, ConstantsAssumption DEF NoPortsWithoutProcess, TypeOK
<1> QED BY <1>1, <1>2, <1>3, <1>4, <1>5

(* The bound on the lists under way.                                       *)
LEMMA ListOK == ASSUME TypeOK, List PROVE listings' \in 0..MaxListings
  BY ConstantsAssumption DEF TypeOK, List

(* The result of one poll of a detection is a detection or its end.        *)
LEMMA PolledOK ==
  ASSUME TypeOK, NEW n \in Name, NEW found
  PROVE  Polled(n, found) \in Detection \cup {None}
<1> DEFINE d == detection[n]
<1> DEFINE steady == found # None /\ d.found_any /\ ~(Shows(n, found) /\ ports[n] # found)
<1>1. CASE d = None
  BY <1>1 DEF Polled
<1>2. CASE d # None /\ (d.polls_remaining = 1 \/ (steady /\ d.stable_count = 1))
  BY <1>2 DEF Polled
<1>3. CASE d # None /\ ~(d.polls_remaining = 1 \/ (steady /\ d.stable_count = 1))
  <2>1. d \in Detection
    BY <1>3 DEF TypeOK
  <2>2. d.polls_remaining - 1 \in 1..Polls
    BY <1>3, <2>1, ConstantsAssumption DEF Detection
  <2>3. (d.found_any \/ found # None) \in BOOLEAN
    BY <2>1 DEF Detection
  <2>4. (IF found = None THEN d.stable_count ELSE IF steady THEN 1 ELSE 0) \in 0..1
    BY <2>1 DEF Detection
  <2>5. Polled(n, found) = [polls_remaining |-> d.polls_remaining - 1,
                            found_any |-> d.found_any \/ found # None,
                            stable_count |-> IF found = None THEN d.stable_count
                                             ELSE IF steady THEN 1 ELSE 0]
    BY <1>3 DEF Polled
  <2> HIDE DEF d, steady
  <2> QED BY <2>2, <2>3, <2>4, <2>5 DEF Detection
<1> QED BY <1>1, <1>2, <1>3

-----------------------------------------------------------------------------
(* Every step keeps the invariant.                                         *)

LEMMA NextOK == IInv /\ [Next]_vars => IInv'
<1> SUFFICES ASSUME IInv, [Next]_vars PROVE IInv'
  OBVIOUS
<1> USE DEF IInv
<1>1. CASE detection_collects
  <2>1. CASE Scannable = {}
    <3>1. /\ detection' = [n \in Name |-> None]
          /\ detector' = "none" /\ port_detection_running' = FALSE /\ scanned' = {}
      BY <1>1, <2>1 DEF detection_collects, Retire
    <3>2. Awaiting' = {}
      BY <3>1 DEF Awaiting
    <3>3. DetectionGoesOn'
      BY <3>1, <3>2 DEF DetectionGoesOn
    <3>4. UNCHANGED <<project, instances, listings, polling>>
      BY <1>1 DEF detection_collects
    <3>5. detection' \in [Name -> Detection \cup {None}]
      BY <3>1
    <3> QED BY <3>1, <3>3, <3>4, <3>5
          DEF project, instances, polling, TypeOK, OnePoller, NoPortsWithoutProcess, Asked
  <2>2. CASE Scannable # {}
    <3>1. detector = "waiting" /\ detector' = "scanning" /\ scanned' = Scannable
      BY <1>1, <2>2 DEF detection_collects
    <3>2. UNCHANGED <<project, instances, listings, polling, detection, port_detection_running>>
      BY <1>1, <2>2 DEF detection_collects
    <3>3. DetectionGoesOn'
      BY <3>1, <3>2 DEF DetectionGoesOn, Awaiting
    <3>4. scanned' \subseteq Name
      BY <3>1 DEF Scannable, Awaiting
    <3> QED BY <3>1, <3>2, <3>3, <3>4
          DEF project, instances, polling, TypeOK, OnePoller, NoPortsWithoutProcess, Asked
  <2> QED BY <2>1, <2>2
<1>2. CASE detection_delivers
  <2>1. PICK found \in [scanned -> PortSets \cup {None}] :
          /\ ports' = [n \in Name |-> IF n \in scanned \cap Awaiting /\ Shows(n, found[n])
                                         THEN found[n] ELSE ports[n]]
          /\ detection' = [n \in Name |-> IF n \in scanned THEN Polled(n, found[n])
                                                            ELSE detection[n]]
    BY <1>2 DEF detection_delivers
  <2>2. /\ UNCHANGED <<project, kind, status, terminal, listings, polling>>
        /\ scanned' = {}
    BY <1>2 DEF detection_delivers
  <2>3. detection' \in [Name -> Detection \cup {None}]
    BY <2>1, PolledOK DEF TypeOK
  <2>4. ports' \in [Name -> PortSets \cup {None}]
    BY <2>1 DEF TypeOK
  <2>5. \A n \in Name : ports'[n] # ports[n] => kind[n] # None /\ status[n] = "running"
    BY <2>1 DEF Shows
  <2>6. NoPortsWithoutProcess'
    BY <2>2, <2>5 DEF NoPortsWithoutProcess
  <2>7. /\ port_detection_running' \in BOOLEAN
        /\ detector' \in {"none", "waiting", "scanning"}
        /\ DetectionGoesOn'
    <3>1. CASE detection' = [n \in Name |-> None]
      <4>1. Awaiting' = {}
        BY <3>1 DEF Awaiting
      <4> QED BY <1>2, <3>1, <4>1 DEF detection_delivers, Retire, DetectionGoesOn
    <3>2. CASE detection' # [n \in Name |-> None]
      BY <1>2, <3>2 DEF detection_delivers, DetectionGoesOn, TypeOK
    <3> QED BY <3>1, <3>2
  <2>8. \A n \in Name : kind'[n] = None =>
          status'[n] = "idle" /\ ~terminal'[n] /\ ports'[n] = None
    BY <2>2, <2>5 DEF TypeOK
  <2> QED BY <2>2, <2>3, <2>4, <2>6, <2>7, <2>8 DEF project, polling, TypeOK, OnePoller, Asked
<1>3. CASE listing_arrives
  <2>1. UNCHANGED <<project, terminal, detecting>> /\ listings' \in 0..MaxListings
    BY <1>3, ConstantsAssumption DEF listing_arrives, TypeOK
  <2>2. CASE UNCHANGED <<instances, polling>>
    BY <2>1, <2>2 DEF project, instances, polling, detecting, TypeOK, OnePoller,
         NoPortsWithoutProcess, DetectionGoesOn, Asked, Awaiting
  <2>3. CASE \E S \in SUBSET Name, t \in Poll :
          /\ polls[t] = "none" /\ t # docker_poller
          /\ kind' = [n \in Name |-> IF n \in S /\ kind[n] = None THEN "docker" ELSE kind[n]]
          /\ Cancel(docker_poller)
          /\ docker_poller' = t
          /\ polls' = [polls EXCEPT ![t] = "waiting"]
          /\ UNCHANGED <<status, ports, overtaken>>
    <3>1. PICK S \in SUBSET Name, t \in Poll :
            /\ polls[t] = "none" /\ t # docker_poller
            /\ kind' = [n \in Name |-> IF n \in S /\ kind[n] = None THEN "docker" ELSE kind[n]]
            /\ Cancel(docker_poller)
            /\ docker_poller' = t
            /\ polls' = [polls EXCEPT ![t] = "waiting"]
            /\ UNCHANGED <<status, ports, overtaken>>
      BY <2>3
    <3>2. kind' \in [Name -> {None, "okena", "docker"}]
      BY <3>1 DEF TypeOK
    <3>3. \A n \in Name : kind'[n] = kind[n] \/ kind'[n] = "docker"
      BY <3>1
    <3>4. \A n \in Name : kind'[n] = None => kind[n] = None
      BY <3>3, ConstantsAssumption
    <3>5. NoPortsWithoutProcess'
      BY <3>1, <3>3 DEF NoPortsWithoutProcess
    <3>6. /\ polls' \in [Poll -> {"none", "waiting", "asked"}]
          /\ cancelled' = cancelled \cup {u \in Poll : u = docker_poller /\ polls[u] # "none"}
          /\ \A u \in Poll : polls'[u] = IF u = t THEN "waiting" ELSE polls[u]
      BY <3>1 DEF Cancel, TypeOK
    <3>7. cancelled' \subseteq {u \in Poll : polls'[u] # "none"}
      BY <3>6 DEF TypeOK
    <3>8. overtaken' \subseteq Asked'
      BY <3>1, <3>6 DEF TypeOK, Asked
    <3>9. OnePoller'
      BY <3>1, <3>6 DEF OnePoller, TypeOK
    <3> QED BY <2>1, <3>1, <3>2, <3>4, <3>5, <3>6, <3>7, <3>8, <3>9
          DEF project, detecting, TypeOK, DetectionGoesOn, Awaiting
  <2> QED BY <1>3, <2>2, <2>3 DEF listing_arrives
<1>4. ASSUME NEW t \in Poll, poll_wakes(t) PROVE IInv'
  <2>1. UNCHANGED <<project, instances, listings, detecting>>
    BY <1>4 DEF poll_wakes
  <2>2. /\ docker_poller' \in Poll \cup {None}
        /\ polls' \in [Poll -> {"none", "waiting", "asked"}]
        /\ cancelled' \subseteq {u \in Poll : polls'[u] # "none"}
        /\ overtaken' \subseteq Asked'
        /\ OnePoller'
    <3>1. CASE TaskEnds(t)
      BY <3>1, TaskEndsOK
    <3>2. CASE /\ polls[t] = "waiting" /\ polls' = [polls EXCEPT ![t] = "asked"]
               /\ UNCHANGED <<docker_poller, cancelled, overtaken>>
      BY <3>2 DEF TypeOK, OnePoller, Asked
    <3> QED BY <1>4, <3>1, <3>2 DEF poll_wakes
  <2> QED BY <2>1, <2>2 DEF project, instances, detecting, TypeOK, NoPortsWithoutProcess,
        DetectionGoesOn, Awaiting
<1>5. ASSUME NEW t \in Poll, poll_answers(t) PROVE IInv'
  <2>1. UNCHANGED <<project, kind, terminal, listings, detecting>>
    BY <1>5 DEF poll_answers
  <2> DEFINE pollingOK ==
        /\ docker_poller' \in Poll \cup {None}
        /\ polls' \in [Poll -> {"none", "waiting", "asked"}]
        /\ cancelled' \subseteq {u \in Poll : polls'[u] # "none"}
        /\ overtaken' \subseteq Asked'
        /\ OnePoller'
  <2> DEFINE again ==
        /\ polls[t] = "asked"
        /\ polls' = [polls EXCEPT ![t] = "waiting"]
        /\ overtaken' = overtaken \ {t}
        /\ UNCHANGED <<docker_poller, cancelled>>
  <2> DEFINE instancesOK ==
        /\ status' \in [Name -> Status]
        /\ ports' \in [Name -> PortSets \cup {None}]
        /\ \A n \in Name : kind[n] # "docker" => status'[n] = status[n] /\ ports'[n] = ports[n]
  <2>2. again => pollingOK
    BY DEF TypeOK, OnePoller, Asked
  <2>3. TaskEnds(t) => pollingOK
    BY TaskEndsOK
  <2>4. UNCHANGED instances => instancesOK
    BY DEF instances, TypeOK
  <2>5. pollingOK /\ instancesOK
    <3>1. CASE ~Wanted(t) /\ TaskEnds(t) /\ UNCHANGED instances
      BY <3>1, <2>3, <2>4
    <3>2. CASE /\ polls' = [polls EXCEPT ![t] = "waiting"]
               /\ overtaken' = overtaken \ {t}
               /\ UNCHANGED <<docker_poller, cancelled, instances>>
      <4>1. again /\ UNCHANGED instances
        BY <1>5, <3>2 DEF poll_answers
      <4> QED BY <4>1, <2>2, <2>4
    <3>3. ASSUME NEW report \in Report, NEW mine,
                 mine = {n \in DOMAIN report : kind[n] = "docker"},
                 status' = [n \in Name |-> IF n \in mine THEN report[n].status ELSE status[n]],
                 ports' = [n \in Name |-> IF n \in mine THEN report[n].ports ELSE ports[n]],
                 IF mine = {} THEN TaskEnds(t)
                 ELSE /\ polls' = [polls EXCEPT ![t] = "waiting"]
                      /\ overtaken' = overtaken \ {t}
                      /\ UNCHANGED <<docker_poller, cancelled>>
          PROVE  pollingOK /\ instancesOK
      <4>1. pollingOK
        <5>1. CASE mine = {}
          BY <3>3, <5>1, <2>3
        <5>2. CASE mine # {}
          <6>1. again
            BY <1>5, <3>3, <5>2 DEF poll_answers
          <6> QED BY <6>1, <2>2
        <5> QED BY <5>1, <5>2
      <4>2. \A n \in mine : report[n].status \in Status /\ report[n].ports \in PortSets \cup {None}
        <5>1. \A c \in Container : c.status \in Status /\ c.ports \in PortSets \cup {None}
          BY DEF Container, Status
        <5>2. PICK S \in SUBSET Name : report \in [S -> Container]
          BY DEF Report
        <5> QED BY <3>3, <5>1, <5>2
      <4>3. instancesOK
        BY <3>3, <4>2 DEF TypeOK
      <4> QED BY <4>1, <4>3
    <3> HIDE DEF pollingOK, instancesOK
    <3> QED BY <1>5, <3>1, <3>2, <3>3 DEF poll_answers
  <2>6. NoPortsWithoutProcess'
    BY <2>1, <2>5 DEF NoPortsWithoutProcess
  <2>7. \A n \in Name : kind'[n] = None =>
          status'[n] = "idle" /\ ~terminal'[n] /\ ports'[n] = None
    BY <2>1, <2>5, ConstantsAssumption DEF TypeOK
  <2> QED BY <2>1, <2>5, <2>6, <2>7 DEF project, detecting, TypeOK, DetectionGoesOn, Awaiting
<1>6. ASSUME NEW n \in Name,
             /\ kind[n] # None
             /\ terminal' \in [Name -> BOOLEAN]
             /\ \A m \in Name \ {n} : terminal'[m] = terminal[m]
             /\ UNCHANGED <<project, kind, status, ports, listings, polling, detecting>>
      PROVE  IInv'
  <2>1. \A m \in Name : kind'[m] = None => ~terminal'[m]
    BY <1>6 DEF TypeOK
  <2>2. TypeOK'
    BY <1>6, <2>1 DEF project, polling, detecting, TypeOK, Asked
  <2> QED BY <1>6, <2>2 DEF project, polling, detecting, OnePoller,
        NoPortsWithoutProcess, DetectionGoesOn, Awaiting
<1>7. ASSUME NEW n \in Name, open_docker_logs(n) PROVE IInv'
  BY <1>6, <1>7, ConstantsAssumption DEF open_docker_logs, TypeOK
<1>8. ASSUME NEW n \in Name, logs_exit(n) PROVE IInv'
  BY <1>6, <1>8, ConstantsAssumption DEF logs_exit, TypeOK
<1>9. ASSUME NEW n \in Name, start_service(n) PROVE IInv'
  <2>1. UNCHANGED <<project, kind, ports, listings, polling>> /\ kind[n] # None
    BY <1>9 DEF start_service, CanStart
  <2>2. /\ status' \in [Name -> Status] /\ terminal' \in [Name -> BOOLEAN]
        /\ \A m \in Name \ {n} : status'[m] = status[m] /\ terminal'[m] = terminal[m]
        /\ status'[n] = "running" \/ status'[n] = status[n] \/ kind[n] = "docker"
    BY <1>9 DEF start_service, TypeOK, Status
  <2>3. /\ detection' \in [Name -> Detection \cup {None}]
        /\ port_detection_running' \in BOOLEAN
        /\ detector' \in {"none", "waiting", "scanning"}
        /\ scanned' \subseteq Name
        /\ DetectionGoesOn'
    <3>1. CASE Register({n})
      BY <3>1, RegisterOK DEF TypeOK
    <3>2. CASE UNCHANGED detecting
      BY <3>2 DEF detecting, TypeOK, DetectionGoesOn, Awaiting
    <3> QED BY <1>9, <3>1, <3>2 DEF start_service
  <2>4. NoPortsWithoutProcess'
    BY <2>1, <2>2 DEF NoPortsWithoutProcess
  <2>5. \A m \in Name : kind'[m] = None =>
          status'[m] = "idle" /\ ~terminal'[m] /\ ports'[m] = None
    BY <2>1, <2>2 DEF TypeOK
  <2> QED BY <2>1, <2>2, <2>3, <2>4, <2>5 DEF project, polling, TypeOK, OnePoller, Asked
<1>10. ASSUME NEW n \in Name,
              /\ kind[n] # None
              /\ status' = [status EXCEPT ![n] = "idle"]
              /\ terminal' \in {terminal, [terminal EXCEPT ![n] = FALSE]}
              /\ ports' = [ports EXCEPT ![n] = None]
              /\ UNCHANGED <<project, kind, listings, polling, detecting>>
       PROVE  IInv'
  <2>1. /\ status' \in [Name -> Status] /\ terminal' \in [Name -> BOOLEAN]
        /\ ports' \in [Name -> PortSets \cup {None}]
    BY <1>10 DEF TypeOK, Status
  <2>2. \A m \in Name \ {n} : status'[m] = status[m] /\ terminal'[m] = terminal[m]
                              /\ ports'[m] = ports[m]
    BY <1>10 DEF TypeOK
  <2>3. NoPortsWithoutProcess'
    BY <1>10, <2>2 DEF NoPortsWithoutProcess, TypeOK
  <2>4. \A m \in Name : kind'[m] = None =>
          status'[m] = "idle" /\ ~terminal'[m] /\ ports'[m] = None
    BY <1>10, <2>2 DEF TypeOK
  <2> QED BY <1>10, <2>1, <2>3, <2>4 DEF project, polling, detecting, TypeOK, OnePoller, Asked,
        DetectionGoesOn, Awaiting
<1>11. ASSUME NEW n \in Name, stop_service(n) PROVE IInv'
  BY <1>10, <1>11 DEF stop_service
<1>12. ASSUME NEW n \in Name, handle_service_exit(n) PROVE IInv'
  BY <1>10, <1>12, ConstantsAssumption DEF handle_service_exit
<1>13. CASE load_project_services
  <2>1. known' = TRUE /\ UNCHANGED polling
    BY <1>13 DEF load_project_services
  <2>2. CASE UNCHANGED <<loaded, configs, instances, listings, detecting>>
    BY <2>1, <2>2 DEF polling, instances, detecting, TypeOK, OnePoller, NoPortsWithoutProcess,
         DetectionGoesOn, Asked, Awaiting
  <2>3. CASE loaded' = TRUE /\ List /\ UNCHANGED <<configs, instances, detecting>>
    BY <2>1, <2>3, ListOK DEF polling, instances, detecting, TypeOK, OnePoller,
         NoPortsWithoutProcess, DetectionGoesOn, Asked, Awaiting
  <2>4. ASSUME loaded' = TRUE, List, NEW C \in SUBSET Name,
               NEW first \in [C -> {"idle", "running"}],
               configs' = C,
               kind' = [n \in Name |-> IF n \in C THEN "okena" ELSE kind[n]],
               status' = [n \in Name |-> IF n \in C THEN first[n] ELSE status[n]],
               terminal' = [n \in Name |-> IF n \in C THEN first[n] = "running" ELSE terminal[n]],
               ports' = [n \in Name |-> IF n \in C THEN None ELSE ports[n]],
               Register({n \in C : first[n] = "running"})
        PROVE  IInv'
    <3>1. /\ detection' \in [Name -> Detection \cup {None}]
          /\ port_detection_running' \in BOOLEAN
          /\ detector' \in {"none", "waiting", "scanning"}
          /\ scanned' \subseteq Name
          /\ DetectionGoesOn'
      <4>1. {n \in C : first[n] = "running"} \in SUBSET Name
        OBVIOUS
      <4> QED BY <2>4, <4>1, RegisterOK DEF TypeOK
    <3>2. /\ kind' \in [Name -> {None, "okena", "docker"}]
          /\ status' \in [Name -> Status]
          /\ ports' \in [Name -> PortSets \cup {None}]
      BY <2>4 DEF TypeOK, Status
    <3>3. terminal' \in [Name -> BOOLEAN]
      BY <2>4 DEF TypeOK
    <3>4. \A n \in Name \ C : /\ kind'[n] = kind[n] /\ status'[n] = status[n]
                              /\ ports'[n] = ports[n] /\ terminal'[n] = terminal[n]
      BY <2>4
    <3>5. \A n \in C : kind'[n] = "okena" /\ ports'[n] = None
      BY <2>4
    <3>6. NoPortsWithoutProcess'
      BY <3>4, <3>5 DEF NoPortsWithoutProcess
    <3>7. \A n \in Name : kind'[n] = None =>
            status'[n] = "idle" /\ ~terminal'[n] /\ ports'[n] = None
      BY <3>4, <3>5, ConstantsAssumption DEF TypeOK
    <3>8. listings' \in 0..MaxListings
      BY <2>4, ListOK
    <3> QED BY <2>1, <2>4, <3>1, <3>2, <3>3, <3>6, <3>7, <3>8 DEF polling, TypeOK, OnePoller, Asked
  <2> QED BY <1>13, <2>2, <2>3, <2>4 DEF load_project_services
<1>14. ASSUME Unload, known' \in BOOLEAN PROVE IInv'
  <2> DEFINE k == [n \in Name |-> None]
  <2>1. k \in [Name -> {None, "okena", "docker"}] /\ \A n \in Name : k[n] # "okena"
    BY ConstantsAssumption
  <2>2. Withdrawn(k) /\ StopPolling
    BY <1>14 DEF Unload
  <2>3. /\ UNCHANGED <<listings, detecting>> /\ loaded' = FALSE /\ configs' = {}
    BY <1>14 DEF Unload
  <2> HIDE DEF k
  <2> QED BY <1>14, <2>1, <2>2, <2>3, WithdrawnOK, StopPollingOK
        DEF detecting, TypeOK, DetectionGoesOn, Awaiting
<1>15. CASE unload_project_services
  BY <1>14, <1>15 DEF unload_project_services
<1>16. CASE reload_project_services
  <2>1. loaded /\ known' = known
    BY <1>16 DEF reload_project_services
  <2>2. CASE Unload
    BY <1>14, <2>1, <2>2 DEF TypeOK
  <2>3. ASSUME NEW C \in SUBSET Name, configs' = C, Withdrawn(Kept(C)), StopPolling, List,
               UNCHANGED <<loaded, detecting>>
        PROVE  IInv'
    <3>1. /\ Kept(C) \in [Name -> {None, "okena", "docker"}]
          /\ \A n \in Name : Kept(C)[n] = "okena" => kind[n] \in {None, "okena"}
      BY ConstantsAssumption DEF Kept, TypeOK
    <3> QED BY <2>1, <2>3, <3>1, WithdrawnOK, StopPollingOK, ListOK
          DEF detecting, TypeOK, DetectionGoesOn, Awaiting
  <2> QED BY <1>16, <2>2, <2>3 DEF reload_project_services
<1>17. CASE UNCHANGED vars
  BY <1>17 DEF vars, project, instances, polling, detecting, TypeOK, OnePoller,
       NoPortsWithoutProcess, DetectionGoesOn, Asked, Awaiting
<1> QED BY <1>1, <1>2, <1>3, <1>4, <1>5, <1>7, <1>8, <1>9, <1>11, <1>12, <1>13, <1>15, <1>16,
      <1>17 DEF Next

-----------------------------------------------------------------------------
(* The invariant of the specification: a poller that is not cancelled is   *)
(* the one the project knows, a service that waits for detection has its   *)
(* task, and ports are shown of what runs.                                 *)
THEOREM Invariant == Spec => []IInv
<1>1. Init => IInv
  BY InitOK
<1>2. IInv /\ [Next]_vars => IInv'
  BY NextOK
<1> QED BY <1>1, <1>2, PTL DEF Spec

(* The variables have their types, and what has no instance leaves nothing *)
(* behind in the tables.                                                   *)
THEOREM TypeCorrect == Spec => []TypeOK
<1>1. IInv => TypeOK
  BY DEF IInv
<1> QED BY <1>1, Invariant, PTL

(* No answer of a port scan shows ports on an okena service that ended     *)
(* during the scan.                                                        *)
THEOREM PortsNeedAProcess == Spec => []NoPortsWithoutProcess
<1>1. IInv => NoPortsWithoutProcess
  BY DEF IInv
<1> QED BY <1>1, Invariant, PTL

(* No interleaving of starts, scans and exits leaves a service waiting for *)
(* a detection task that has ended.                                        *)
THEOREM DetectionIsServed == Spec => []DetectionGoesOn
<1>1. IInv => DetectionGoesOn
  BY DEF IInv
<1> QED BY <1>1, Invariant, PTL

(* A poll that an unload or a reload overtook writes nothing.              *)
THEOREM PollsAreCurrent == Spec => PollIsCurrent
<1> DEFINE A == \A t \in overtaken : polls'[t] # "asked" => UNCHANGED instances
<1>1. ASSUME IInv, Next PROVE A
  <2> SUFFICES ASSUME NEW t \in overtaken, polls'[t] # "asked" PROVE UNCHANGED instances
    OBVIOUS
  <2>1. t \in Poll /\ polls[t] = "asked" /\ t \in cancelled
    BY <1>1 DEF IInv, TypeOK, OnePoller, Asked
  <2>2. polls \in [Poll -> {"none", "waiting", "asked"}]
    BY <1>1 DEF IInv, TypeOK
  <2>3. polls' # polls
    BY <2>1
  <2>4. ASSUME NEW u \in Poll, poll_answers(u) PROVE UNCHANGED instances
    <3>1. polls' = [polls EXCEPT ![u] = "none"] \/ polls' = [polls EXCEPT ![u] = "waiting"]
      BY <2>4 DEF poll_answers, TaskEnds
    <3>2. u = t
      BY <2>1, <2>2, <3>1
    <3> QED BY <2>1, <2>4, <3>2 DEF poll_answers, Wanted
  <2>5. ASSUME NEW u \in Poll, poll_wakes(u) PROVE UNCHANGED instances
    BY <2>5 DEF poll_wakes
  <2>6. CASE listing_arrives
    <3>1. CASE UNCHANGED <<instances, polling>>
      BY <3>1
    <3>2. CASE \E u \in Poll : polls[u] = "none" /\ polls' = [polls EXCEPT ![u] = "waiting"]
      BY <2>1, <2>2, <3>2
    <3> QED BY <2>6, <3>1, <3>2 DEF listing_arrives
  <2>7. ~(StopPolling \/ UNCHANGED polling)
    BY <2>3 DEF StopPolling, polling
  <2> QED BY <1>1, <2>4, <2>5, <2>6, <2>7 DEF Next, detection_collects, detection_delivers,
        open_docker_logs, logs_exit, start_service, stop_service, handle_service_exit,
        load_project_services, unload_project_services, reload_project_services, Unload
<1>2. IInv /\ [Next]_vars => [A]_vars
  BY <1>1
<1> QED BY <1>2, Invariant, PTL DEF Spec, PollIsCurrent

(* A reload or a late list of Docker services never takes a service of     *)
(* okena.yaml off the table, but for the collision of names.               *)
THEOREM ServicesAreNotLost == Spec => ServiceIsNotLost
<1> DEFINE A == \A n \in configs' : kind'[n] = None =>
                  \/ kind[n] = "docker"
                  \/ n \in configs /\ kind[n] = None /\ ~reload_project_services
<1>1. ASSUME IInv, Next PROVE A
  <2> SUFFICES ASSUME NEW n \in configs', kind'[n] = None
               PROVE  \/ kind[n] = "docker"
                      \/ n \in configs /\ kind[n] = None /\ ~reload_project_services
    OBVIOUS
  <2>1. CASE reload_project_services
    <3>1. configs' # {}
      OBVIOUS
    <3>2. PICK C \in SUBSET Name : configs' = C /\ Withdrawn(Kept(C))
      BY <2>1, <3>1 DEF reload_project_services, Unload
    <3>3. kind'[n] = IF kind[n] # "docker" THEN "okena" ELSE None
      BY <3>2 DEF Withdrawn, Kept
    <3> QED BY <3>3, ConstantsAssumption
  <2>2. CASE ~reload_project_services
    <3>1. CASE kind' = kind /\ configs' = configs
      BY <2>2, <3>1
    <3>2. CASE listing_arrives
      <4>1. configs' = configs
        BY <3>2 DEF listing_arrives, project
      <4>2. n \in Name
        BY <1>1, <4>1 DEF IInv, TypeOK
      <4>3. kind'[n] = kind[n] \/ kind'[n] = "docker"
        BY <3>2, <4>2 DEF listing_arrives, instances
      <4> QED BY <2>2, <4>1, <4>3, ConstantsAssumption
    <3>3. CASE load_project_services
      <4>1. CASE UNCHANGED <<configs, instances>>
        BY <3>1, <4>1 DEF instances
      <4>2. ASSUME NEW C \in SUBSET Name, configs' = C,
                   kind' = [m \in Name |-> IF m \in C THEN "okena" ELSE kind[m]]
            PROVE  FALSE
        BY <4>2, ConstantsAssumption
      <4> QED BY <3>3, <4>1, <4>2 DEF load_project_services
    <3>4. CASE unload_project_services
      BY <3>4 DEF unload_project_services, Unload
    <3> QED BY <1>1, <2>2, <3>1, <3>2, <3>3, <3>4 DEF Next, detection_collects,
          detection_delivers, poll_wakes, poll_answers, open_docker_logs, logs_exit,
          start_service, stop_service, handle_service_exit, project, instances
  <2> QED BY <2>1, <2>2
<1>2. IInv /\ [Next]_vars => [A]_vars
  BY <1>1
<1> QED BY <1>2, Invariant, PTL DEF Spec, ServiceIsNotLost

-----------------------------------------------------------------------------
(* What a closed project keeps.                                            *)

\* An okena service has an instance only while okena.yaml lists it.
OkenaIsListed == \A n \in Name : kind[n] = "okena" => n \in configs

(* A list of Docker services may arrive after its project was closed and   *)
(* bring instances back (docker.rs, load_docker_compose_services), but     *)
(* those are all: none is an okena service, none has a terminal, and none  *)
(* is being started, whatever polls and commands follow.                   *)
ClosedIsQuiet ==
  ~loaded => \A n \in Name : kind[n] # "okena" /\ ~terminal[n] /\ status[n] # "starting"

Quiet == OkenaIsListed /\ ClosedIsQuiet

LEMMA InitQuiet == Init => Quiet
<1> SUFFICES ASSUME Init PROVE Quiet
  OBVIOUS
<1>1. ASSUME NEW n \in Name
      PROVE  kind[n] # "okena" /\ ~terminal[n] /\ status[n] = "idle"
  BY ConstantsAssumption DEF Init
<1> QED BY <1>1 DEF Quiet, OkenaIsListed, ClosedIsQuiet

\* The steps that leave the set of services as it is.
LEMMA TaskQuiet ==
  ASSUME IInv, Quiet,
         \/ detection_collects \/ detection_delivers
         \/ \E t \in Poll : poll_wakes(t) \/ poll_answers(t)
         \/ \E n \in Name : open_docker_logs(n) \/ logs_exit(n) \/ start_service(n)
                           \/ stop_service(n) \/ handle_service_exit(n)
  PROVE  Quiet'
<1> USE DEF IInv, TypeOK, Quiet, OkenaIsListed, ClosedIsQuiet
<1>1. UNCHANGED <<loaded, configs, kind>>
  BY DEF detection_collects, detection_delivers, poll_wakes, poll_answers, open_docker_logs,
     logs_exit, start_service, stop_service, handle_service_exit, project, instances
<1>2. ASSUME ~loaded, NEW n \in Name
      PROVE  ~terminal'[n] /\ status'[n] # "starting"
  <2>1. CASE detection_collects \/ detection_delivers \/ \E t \in Poll : poll_wakes(t)
    BY <1>2, <2>1 DEF detection_collects, detection_delivers, poll_wakes, instances
  <2>2. ASSUME NEW t \in Poll, poll_answers(t)
        PROVE  ~terminal'[n] /\ status'[n] # "starting"
    <3>1. terminal' = terminal
      BY <2>2 DEF poll_answers, instances
    <3>2. CASE status' = status
      BY <1>2, <3>1, <3>2
    <3>3. ASSUME NEW report \in Report,
                 status' = [m \in Name |-> IF m \in {k \in DOMAIN report : kind[k] = "docker"}
                                              THEN report[m].status ELSE status[m]]
          PROVE  status'[n] # "starting"
      <4>1. \A m \in DOMAIN report : report[m].status # "starting"
        BY DEF Report, Container
      <4> QED BY <1>2, <3>3, <4>1
    <3> QED BY <1>2, <2>2, <3>1, <3>2, <3>3 DEF poll_answers, instances
  <2>3. ASSUME NEW m \in Name,
               open_docker_logs(m) \/ logs_exit(m) \/ stop_service(m) \/ handle_service_exit(m)
        PROVE  ~terminal'[n] /\ status'[n] # "starting"
    BY <1>2, <2>3 DEF open_docker_logs, logs_exit, stop_service, handle_service_exit
  <2>4. ASSUME NEW m \in Name, start_service(m)
        PROVE  FALSE
    BY <1>2, <2>4 DEF start_service
  <2> QED BY <2>1, <2>2, <2>3, <2>4
<1> QED BY <1>1, <1>2

\* The steps that change the set of services.
LEMMA TableQuiet ==
  ASSUME IInv, Quiet,
         \/ listing_arrives \/ load_project_services
         \/ unload_project_services \/ reload_project_services
  PROVE  Quiet'
<1> USE DEF IInv, TypeOK, Quiet, OkenaIsListed, ClosedIsQuiet
<1>1. CASE listing_arrives
  <2>1. UNCHANGED <<loaded, configs, terminal, status>>
    BY <1>1 DEF listing_arrives, project, instances
  <2>2. \A n \in Name : kind'[n] = kind[n] \/ kind'[n] = "docker"
    BY <1>1 DEF listing_arrives, instances
  <2> QED BY <2>1, <2>2
<1>2. CASE load_project_services
  <2>1. ~loaded
    BY <1>2 DEF load_project_services
  <2>2. \A n \in Name : kind[n] # "okena"
    BY <2>1
  <2>3. CASE UNCHANGED <<loaded, configs, instances>>
    BY <2>3 DEF instances
  <2>4. CASE loaded' /\ UNCHANGED <<configs, instances>>
    BY <2>4 DEF instances
  <2>5. ASSUME NEW C \in SUBSET Name, loaded', configs' = C,
               kind' = [n \in Name |-> IF n \in C THEN "okena" ELSE kind[n]]
        PROVE  Quiet'
    BY <2>2, <2>5
  <2> QED BY <1>2, <2>3, <2>4, <2>5 DEF load_project_services
<1>3. ASSUME Unload
      PROVE  Quiet'
  <2>1. \A n \in Name : kind'[n] = None /\ status'[n] = "idle" /\ ~terminal'[n]
    BY <1>3 DEF Unload, Withdrawn
  <2> QED BY <2>1, ConstantsAssumption
<1>4. ASSUME NEW C \in SUBSET Name, loaded', configs' = C, Withdrawn(Kept(C))
      PROVE  Quiet'
  <2>1. \A n \in Name : kind'[n] = "okena" => n \in C
    BY <1>4, ConstantsAssumption DEF Withdrawn, Kept
  <2> QED BY <1>4, <2>1
<1> QED BY <1>1, <1>2, <1>3, <1>4 DEF unload_project_services, reload_project_services

(* A closed project runs nothing and can start nothing, although a late    *)
(* list may show Docker services for it again.                             *)
THEOREM ClosedProjectsAreQuiet == Spec => []ClosedIsQuiet
<1>1. Init => Quiet
  BY InitQuiet
<1>2. IInv /\ Quiet /\ [Next]_vars => Quiet'
  <2>1. ASSUME Quiet, UNCHANGED vars PROVE Quiet'
    BY <2>1 DEF vars, project, instances, Quiet, OkenaIsListed, ClosedIsQuiet
  <2> QED BY <2>1, TaskQuiet, TableQuiet DEF Next
<1>3. Quiet => ClosedIsQuiet
  BY DEF Quiet
<1> QED BY <1>1, <1>2, <1>3, Invariant, PTL DEF Spec
=============================================================================
