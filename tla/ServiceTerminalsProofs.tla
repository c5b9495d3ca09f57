------------------------ MODULE ServiceTerminalsProofs ------------------------
(***************************************************************************)
(* More proofs about ServiceManager, for every set of services, projects,  *)
(* terminals and okena.yaml contents: what becomes of the terminals and    *)
(* their processes.  They build on the invariant IInv of                   *)
(* ServiceManagerProofs.                                                   *)
(***************************************************************************)
EXTENDS ServiceManagerProofs

(***************************************************************************)
(* The strengthening.  The PtyHandle is what ties a process to its owner:  *)
(* the instance has it while it runs, a manual restart until it kills the  *)
(* terminal, and nobody else; it goes in the step that queues a job or     *)
(* receives the Exit.  So an instance that is not running shows at most    *)
(* the terminal kept from a crash, which has no handle any more, and the   *)
(* terminal of a running service still has all it takes to report its end. *)
(***************************************************************************)
RunningIsHeard ==
  \A s \in Services \ overlapped, t \in Terminals : status[s] = "running" /\ terminal_id[s] = t =>
    t \in terminals /\ Heard(t)
RegisteredIsHeld ==
  \A t \in terminals :
    /\ owner[t] \in Services
    /\ owner[t] \notin overlapped => terminal_id[owner[t]] = t \/ taken[t] = "pids"
OneCollected ==
  \A t, u \in Terminals :
    taken[t] = "pids" /\ taken[u] = "pids" /\ owner[t] = owner[u] /\ owner[t] \notin overlapped
    => t = u
HandleIsHeld ==
  \A t \in handles :
    /\ owner[t] \in Services
    /\ owner[t] \notin overlapped =>
         \/ terminal_id[owner[t]] = t /\ status[owner[t]] = "running"
         \/ taken[t] = "pids"
HandleIsRegistered == \A t \in handles : owner[t] \notin overlapped => t \in terminals

Care ==
  /\ UnusedIsIdle /\ RunningIsHeard /\ RegisteredIsHeld /\ OneCollected
  /\ HandleIsHeld /\ HandleIsRegistered
  /\ ~Sessions => LiveIsHandled  \* without a session backend every job ends the process

-------------------------------------------------------------------------------
(* The handlers. *)

(* Start, load, stop, reload and unload, as in ServiceManagerProofs: the     *)
(* services of L give up their terminals, those that run to be killed, and   *)
(* those of S, among them, get the ones of f.                                *)
LEMMA ExchangeKeepsCare ==
  ASSUME IInv, Care, NEW L \in SUBSET Services, NEW S \in SUBSET L, NEW f \in Spawns(S),
         NEW K \in SUBSET TerminalsOf(L), Created(f) = {} \/ K = {},
         Routes(f, TerminalsOf(L)), PtyUpdate(Created(f), K, {}, {}),
         terminal_id' = [s \in Services |-> IF s \in S THEN f[s]
                                            ELSE IF s \in L THEN NoTerminal ELSE terminal_id[s]],
         \A s \in S : status'[s] = "running" <=> f[s] # NoTerminal,
         \A s \in Services \ S : status'[s] = "running" <=> s \notin L /\ status[s] = "running",
         \A s \in L : status[s] = "running" => terminal_id[s] \in K,
         TakenKept
  PROVE  Care'
<1> USE NoneAssumption DEF IInv, Shape
<1>1. TerminalsOf(L) \subseteq Used /\ TerminalsOf(L) \subseteq Terminals
  BY DEF TerminalsOf, TypeOK, ShownIsOwned, Used
<1>2. Created(f) \subseteq Terminals /\ Created(f) \cap Used = {}
  BY SpawnsEffect DEF Used
<1>3. /\ UnusedIsIdle'
      /\ \A t \in Created(f) : Heard(t)'
      /\ \A t \in Terminals \ (Created(f) \cup K) : Heard(t) => Heard(t)'
  <2>1. K \in SUBSET Terminals /\ K \cup {} \subseteq Used /\ {} \in SUBSET exit_events
    BY <1>1
  <2>2. PtyTypeOK /\ UnusedIsIdle
    BY DEF TypeOK, Care
  <2> HIDE DEF IInv, Shape
  <2>3. /\ UnusedIsIdle'
        /\ \A t \in Created(f) : Heard(t)'
        /\ \A t \in Terminals \ (Created(f) \cup K \cup {}) :
             Heard(t) /\ EventsOf(t) \cap {} = {} => Heard(t)'
    BY <1>2, <2>1, <2>2, PtyUpdateFrame
  <2> QED BY <2>3
<1>5. /\ \A t \in Created(f) : owner'[t] \in S /\ terminal_id'[owner'[t]] = t
      /\ \A t \in Terminals \ Created(f) : owner'[t] = owner[t]
      /\ \A s \in S : f[s] = NoTerminal \/ f[s] \in Created(f)
      /\ overlapped \subseteq overlapped'
  BY <1>1, RoutesEffect, SpawnsEffect
<1>6. terminals' = (terminals \ TerminalsOf(L)) \cup Created(f)
  BY DEF Routes
<1>7. \A t \in Terminals : taken'[t] = "pids" <=> taken[t] = "pids"
  BY DEF TakenKept
<1>8. \A t \in Created(f) : process[t] = "none" /\ taken[t] = "no" /\ \A s \in Services : terminal_id[s] # t
  BY <1>2 DEF Used, TypeOK, TakenIsOwned, ShownIsOwned
<1>9. \A s \in L : terminal_id[s] = NoTerminal \/ terminal_id[s] \in TerminalsOf(L)
  BY DEF TerminalsOf
<1>10. RunningIsHeard'
  <2> SUFFICES ASSUME NEW s \in Services \ overlapped', NEW t \in Terminals,
                      status'[s] = "running", terminal_id'[s] = t
               PROVE  t \in terminals' /\ Heard(t)'
    BY DEF RunningIsHeard
  <2>1. CASE s \in S
    BY <1>3, <1>5, <1>6, <2>1
  <2>2. CASE s \notin S
    <3>1. s \notin L /\ status[s] = "running" /\ terminal_id[s] = t
      BY <2>2
    <3>2. t \notin TerminalsOf(L)
      BY <3>1 DEF TerminalsOf, ShownIsOwned
    <3> QED BY <1>3, <1>5, <1>6, <1>8, <3>1, <3>2 DEF Care, RunningIsHeard
  <2> QED BY <2>1, <2>2
<1>12. RegisteredIsHeld'
  <2> SUFFICES ASSUME NEW t \in terminals'
               PROVE  /\ owner'[t] \in Services
                      /\ owner'[t] \notin overlapped' =>
                           terminal_id'[owner'[t]] = t \/ taken'[t] = "pids"
    BY DEF RegisteredIsHeld
  <2>1. CASE t \in Created(f)
    BY <1>5, <2>1
  <2>2. CASE t \notin Created(f)
    <3>1. t \in terminals /\ t \in Terminals /\ t \notin TerminalsOf(L) /\ owner'[t] = owner[t]
      BY <1>5, <1>6, <2>2 DEF TypeOK
    <3>2. terminal_id[owner[t]] = t => owner[t] \notin L
      BY <3>1 DEF TerminalsOf
    <3> QED BY <1>5, <1>7, <3>1, <3>2 DEF Care, RegisteredIsHeld
  <2> QED BY <2>1, <2>2
<1>13. OneCollected'
  <2>1. \A t \in Terminals : taken'[t] = "pids" => taken[t] = "pids" /\ owner'[t] = owner[t]
    BY <1>5, <1>7, <1>8
  <2> QED BY <1>5, <2>1 DEF Care, OneCollected
<1>14. ASSUME NEW t \in handles', t \notin Created(f)
       PROVE  t \in handles /\ t \in Terminals /\ t \notin K /\ owner'[t] = owner[t]
  BY <1>5, <1>14 DEF PtyUpdate, TypeOK, PtyTypeOK
<1>15. \A t \in Created(f) : t \notin K
  BY <1>1, <1>2
<1>16. HandleIsHeld'
  <2> SUFFICES ASSUME NEW t \in handles'
               PROVE  /\ owner'[t] \in Services
                      /\ owner'[t] \notin overlapped' =>
                           \/ terminal_id'[owner'[t]] = t /\ status'[owner'[t]] = "running"
                           \/ taken'[t] = "pids"
    BY DEF HandleIsHeld
  <2>1. CASE t \in Created(f)
    <3>1. owner'[t] \in S /\ terminal_id'[owner'[t]] = t
      BY <1>5, <2>1
    <3>2. f[owner'[t]] = t /\ t # NoTerminal
      BY <1>2, <2>1, <3>1
    <3> QED BY <3>1, <3>2
  <2>2. CASE t \notin Created(f)
    <3>1. owner[t] \in Services /\ owner'[t] = owner[t]
      BY <1>14, <2>2 DEF Care, HandleIsHeld
    <3>2. CASE owner[t] \notin overlapped /\ terminal_id[owner[t]] = t /\ status[owner[t]] = "running"
      BY <1>14, <2>2, <3>1, <3>2
    <3> QED BY <1>5, <1>7, <1>14, <2>2, <3>1, <3>2 DEF Care, HandleIsHeld
  <2> QED BY <2>1, <2>2
<1>17. HandleIsRegistered'
  <2> SUFFICES ASSUME NEW t \in handles', owner'[t] \notin overlapped'
               PROVE  t \in terminals'
    BY DEF HandleIsRegistered
  <2>1. CASE t \in Created(f)
    BY <1>6, <2>1
  <2>2. CASE t \notin Created(f)
    <3>1. t \in handles /\ t \in Terminals /\ t \notin K /\ owner[t] \notin overlapped
      BY <1>5, <1>14, <2>2
    <3>2. t \notin TerminalsOf(L)
      BY <3>1 DEF TerminalsOf, ShownIsOwned, TakenIsOwned, Care, HandleIsHeld
    <3> QED BY <1>6, <3>1, <3>2 DEF Care, HandleIsRegistered
  <2> QED BY <2>1, <2>2
<1>18. ASSUME ~Sessions PROVE LiveIsHandled'
  BY <1>1, <1>2, <1>15, <1>18, PtyUpdatePlain DEF TypeOK, Care
<1> QED BY <1>3, <1>10, <1>12, <1>13, <1>16, <1>17, <1>18 DEF Care

\* Services that are not running are started.
LEMMA LaunchKeepsCare ==
  ASSUME IInv, Care, NEW S \in SUBSET Services, NEW f \in Spawns(S), Launch(f), TakenKept,
         \A s \in S : status[s] # "running"
  PROVE  Care'
<1>1. DOMAIN f = S
  BY SpawnsEffect
<1>2. /\ Routes(f, TerminalsOf(S)) /\ PtyUpdate(Created(f), {}, {}, {})
      /\ terminal_id' = [s \in Services |-> IF s \in S THEN f[s]
                                            ELSE IF s \in S THEN NoTerminal ELSE terminal_id[s]]
  BY <1>1 DEF Launch
<1>3. /\ \A s \in S : status'[s] = "running" <=> f[s] # NoTerminal
      /\ \A s \in Services \ S : status'[s] = "running" <=> s \notin S /\ status[s] = "running"
  BY <1>1 DEF Launch, Started
<1> QED BY <1>2, <1>3, ExchangeKeepsCare

\* Services are stopped, unloaded or removed by a reload.
LEMMA WithdrawKeepsCare ==
  ASSUME IInv, Care, NEW S \in SUBSET Services, Withdraw(S), UNCHANGED taken,
         \A s \in Services : status'[s] = "running" <=> s \notin S /\ status[s] = "running"
  PROVE  Care'
<1>1. NoSpawn \in Spawns({}) /\ Created(NoSpawn) = {}
  BY NoSpawnEffect DEF NoSpawn, Spawns
<1>2. /\ Routes(NoSpawn, TerminalsOf(S)) /\ PtyUpdate(Created(NoSpawn), TerminalsOf(S), {}, {})
      /\ terminal_id' = [s \in Services |-> IF s \in {} THEN NoSpawn[s]
                                            ELSE IF s \in S THEN NoTerminal ELSE terminal_id[s]]
  BY <1>1 DEF Withdraw
<1>3. \A s \in S : status[s] = "running" => terminal_id[s] \in TerminalsOf(S)
  BY NoneAssumption DEF TerminalsOf, IInv, Shape, RunningHasTerminal
<1>4. TakenKept
  BY DEF TakenKept, IInv, TypeOK
<1> QED BY <1>1, <1>2, <1>3, <1>4, ExchangeKeepsCare

\* Nothing but the deferred work changes.
LEMMA IdleKeepsCare ==
  ASSUME IInv, Care, UNCHANGED <<status, terminal_id, routeVars, overlapped, ptyVars>>, TakenKept
  PROVE  Care'
<1> USE DEF routeVars, ptyVars
<1>1. UnusedIsIdle' /\ RunningIsHeard'
  BY DEF Care, UnusedIsIdle, RunningIsHeard, Heard, EventsOf, Alive
<1>2. \A t \in Terminals : taken'[t] = "pids" <=> taken[t] = "pids"
  BY DEF TakenKept
<1>3. RegisteredIsHeld' /\ OneCollected' /\ HandleIsHeld' /\ HandleIsRegistered'
  BY <1>2 DEF Care, RegisteredIsHeld, OneCollected, HandleIsHeld, HandleIsRegistered, IInv, TypeOK,
     PtyTypeOK
<1>4. ~Sessions => LiveIsHandled'
  BY DEF Care, LiveIsHandled, Alive, BeingEnded
<1> QED BY <1>1, <1>3, <1>4 DEF Care

\* A manual restart resumes, or finds that it has nothing to do.
LEMMA ResumeKeepsCare ==
  ASSUME IInv, Care, NEW s \in Services, Resume(s), TakenKept
  PROVE  Care'
<1>1. CASE status[s] = "restarting"
  <2>1. PICK f \in Spawns({s}) : Launch(f)
    BY <1>1 DEF Resume
  <2> QED BY <1>1, <2>1, LaunchKeepsCare
<1>2. CASE status[s] # "restarting"
  BY <1>2, IdleKeepsCare DEF Resume, instanceVars
<1> QED BY <1>1, <1>2

\* The terminal of s passes from the instance to the manual restart.
LEMMA RestartServiceKeepsCare ==
  ASSUME IInv, Care, NEW s \in Services, RestartService(s)
  PROVE  Care'
<1> USE NoneAssumption DEF IInv, Shape
<1>1. /\ \A r \in Services : status'[r] = IF r = s THEN "restarting" ELSE status[r]
      /\ \A r \in Services : terminal_id'[r] = IF r = s THEN NoTerminal ELSE terminal_id[r]
      /\ \A t \in Terminals : taken'[t] = IF t = terminal_id[s] THEN "pids" ELSE taken[t]
      /\ UNCHANGED <<terminal_to_service, terminals, owner, overlapped>>
      /\ UNCHANGED <<process, handles, readers, broken, teardown, exit_events>>
  BY DEF RestartService, SetStatus, TypeOK, routeVars, ptyVars
<1>2. UnusedIsIdle' /\ RunningIsHeard'
  BY <1>1 DEF Care, UnusedIsIdle, RunningIsHeard, Heard, EventsOf, Alive
<1>3. RegisteredIsHeld' /\ HandleIsRegistered'
  BY <1>1 DEF Care, RegisteredIsHeld, HandleIsRegistered, TypeOK
<1>4. OneCollected'
  <2>1. \A t \in Terminals : t = terminal_id[s] => owner[t] = s
    BY DEF ShownIsOwned
  <2>2. \A u \in Terminals : taken[u] = "pids" /\ owner[u] = s /\ s \notin overlapped =>
          terminal_id[s] \notin Terminals
    BY DEF CollectingHasNone
  <2> QED BY <1>1, <2>1, <2>2 DEF Care, OneCollected
<1>5. HandleIsHeld'
  BY <1>1 DEF Care, HandleIsHeld, TypeOK, PtyTypeOK
<1>6. ~Sessions => LiveIsHandled'
  BY <1>1 DEF Care, LiveIsHandled, Alive, BeingEnded
<1> QED BY <1>2, <1>3, <1>4, <1>5, <1>6 DEF Care

\* The restart kills the terminal that it holds.
LEMMA RestartKillKeepsCare ==
  ASSUME IInv, Care, NEW t \in Terminals, RestartKill(t)
  PROVE  Care'
<1> USE DEF IInv, Shape
<1>1. /\ taken[t] = "pids" /\ \A u \in Terminals : taken'[u] = IF u = t THEN "waiting" ELSE taken[u]
      /\ Routes(NoSpawn, {t}) /\ PtyUpdate({}, {t}, {}, {})
      /\ UNCHANGED <<status, terminal_id>>
  BY DEF RestartKill, instanceVars, TypeOK
<1>2. owner' = owner /\ overlapped \subseteq overlapped' /\ terminals' = terminals \ {t}
  <2>1. terminals' = terminals \ {t}
    BY <1>1, NoSpawnEffect DEF Routes
  <2> QED BY <1>1, <2>1, UnrouteEffect
<1>3. process[t] # "none" /\ \A s \in Services : terminal_id[s] # t
  BY <1>1 DEF TakenIsOwned
<1>4. /\ UnusedIsIdle'
      /\ \A u \in Terminals \ {t} : Heard(u) => Heard(u)'
  <2> PICK C \in SUBSET Terminals, K \in SUBSET Terminals, R \in SUBSET Terminals,
           V \in SUBSET exit_events :
        PtyUpdate(C, K, R, V) /\ C \subseteq {} /\ K \cup R \subseteq {t} /\ V \subseteq {}
    BY <1>1
  <2>1. K \cup R \subseteq Used /\ C \cap Used = {}
    BY <1>3 DEF Used
  <2>2. PtyTypeOK /\ UnusedIsIdle
    BY DEF TypeOK, Care
  <2> HIDE DEF IInv, Shape
  <2>3. /\ UnusedIsIdle'
        /\ \A u \in Terminals \ (C \cup K \cup R) :
             Heard(u) /\ EventsOf(u) \cap V = {} => Heard(u)'
    BY <2>1, <2>2, PtyUpdateFrame
  <2> QED BY <2>3
<1>6. RunningIsHeard'
  BY <1>1, <1>2, <1>3, <1>4 DEF Care, RunningIsHeard
<1>7. RegisteredIsHeld' /\ OneCollected'
  BY <1>1, <1>2 DEF Care, RegisteredIsHeld, OneCollected, TypeOK
<1>8. HandleIsHeld' /\ HandleIsRegistered'
  <2>1. handles' = handles \ {t}
    BY <1>1 DEF PtyUpdate
  <2> QED BY <1>1, <1>2, <2>1 DEF Care, HandleIsHeld, HandleIsRegistered, TypeOK, PtyTypeOK
<1>9. ASSUME ~Sessions PROVE LiveIsHandled'
  BY <1>1, <1>9, PtyUpdatePlain DEF TypeOK, Care
<1> QED BY <1>4, <1>6, <1>7, <1>8, <1>9 DEF Care

\* What an Exit event of t does to the instances: one that runs on another terminal
\* keeps it, and only t is taken from one.
ExitForm(t) ==
  /\ owner' = owner /\ taken' = taken /\ overlapped \subseteq overlapped'
  /\ terminals \ {t} \subseteq terminals' /\ terminals' \subseteq terminals
  /\ \A s \in Services \ overlapped :
       /\ status'[s] = "running" => status[s] = "running" /\ terminal_id[s] # t
       /\ status[s] = "running" /\ terminal_id[s] # t => status'[s] = "running"
       /\ \/ terminal_id'[s] = terminal_id[s]
          \/ /\ terminal_id'[s] = NoTerminal
             /\ terminal_id[s] \in {t, NoTerminal} /\ t \notin terminals'

\* An Exit event of t is routed to the service that runs on t, if one does.
LEMMA ExitHasForm ==
  ASSUME IInv, NEW t \in Terminals, HandleExit(t)
  PROVE  ExitForm(t)
<1> USE NoneAssumption DEF IInv, Shape
<1> PICK received \in SUBSET EventsOf(t) :
       \/ ExitOfOther(t, received)
       \/ ExitOfRemoved(t, received)
       \/ ExitRestarts(t, received)
       \/ ExitCrashes(t, received)
  BY DEF HandleExit
<1>1. \A s \in Services \ overlapped :
        /\ status[s] = "running" /\ terminal_id[s] = t => terminal_to_service[t] = s
        /\ terminal_to_service[t] = s => terminal_id[s] \in {t, NoTerminal}
  BY DEF RoutesAgree, CollectingHasNone
<1>2. CASE ExitOfOther(t, received)
  <2>1. terminals' = terminals \ {t}
    BY <1>2, NoSpawnEffect DEF ExitOfOther, Routes
  <2>2. owner' = owner /\ overlapped \subseteq overlapped'
    BY <1>2, UnrouteEffect DEF ExitOfOther
  <2> QED BY <1>1, <1>2, <2>1, <2>2 DEF ExitOfOther, ExitForm, instanceVars, deferredVars
<1>3. CASE ExitOfRemoved(t, received)
  BY <1>1, <1>3 DEF ExitOfRemoved, ExitForm, instanceVars, deferredVars, Present
<1>4. CASE ExitRestarts(t, received)
  <2> PICK s \in Services : s = terminal_to_service[t]
    BY <1>4 DEF ExitRestarts
  <2>1. terminals' = terminals \ {t}
    BY <1>4, NoSpawnEffect DEF ExitRestarts, Routes
  <2>2. owner' = owner /\ overlapped \subseteq overlapped'
    BY <1>4, UnrouteEffect DEF ExitRestarts
  <2>3. /\ \A r \in Services : status'[r] = IF r = s THEN "restarting" ELSE status[r]
        /\ \A r \in Services : terminal_id'[r] = IF r = s THEN NoTerminal ELSE terminal_id[r]
        /\ taken' = taken
    BY <1>4 DEF ExitRestarts, SetStatus, TypeOK
  <2>4. \A r \in Services \ overlapped : r # s /\ status[r] = "running" => terminal_id[r] # t
    BY <1>1
  <2>5. status[s] = "running" /\ terminal_id[s] # t => s \in overlapped
    BY <1>1 DEF RunningHasTerminal
  <2> QED BY <1>1, <2>1, <2>2, <2>3, <2>4, <2>5 DEF ExitForm
<1>5. CASE ExitCrashes(t, received)
  <2> PICK s \in Services : s = terminal_to_service[t]
    BY <1>5 DEF ExitCrashes
  <2>1. /\ \A r \in Services : status'[r] = IF r = s THEN "crashed" ELSE status[r]
        /\ UNCHANGED <<terminal_id, terminals, owner, overlapped, taken>>
    BY <1>5 DEF ExitCrashes, SetStatus, deferredVars, TypeOK
  <2>2. \A r \in Services \ overlapped : r # s /\ status[r] = "running" => terminal_id[r] # t
    BY <1>1
  <2>3. status[s] = "running" /\ terminal_id[s] # t => s \in overlapped
    BY <1>1 DEF RunningHasTerminal
  <2> QED BY <2>1, <2>2, <2>3 DEF ExitForm
<1> QED BY <1>2, <1>3, <1>4, <1>5

LEMMA ExitKeepsCare ==
  ASSUME IInv, Care, NEW t \in Terminals, HandleExit(t)
  PROVE  Care'
<1> USE NoneAssumption DEF IInv, Shape
<1> PICK C \in SUBSET Terminals, K \in SUBSET Terminals, R \in SUBSET Terminals,
         received \in SUBSET EventsOf(t) :
      PtyUpdate(C, K, R, received) /\ C \subseteq {} /\ K \subseteq {t} /\ R \subseteq {t} /\ t \in R
      /\ received # {}
  <2>1. PICK received \in SUBSET EventsOf(t) :
          /\ received # {}
          /\ \/ PtyUpdate({}, {t}, {t}, received)
             \/ PtyUpdate({}, {}, {t}, received)
    BY DEF HandleExit, ExitOfOther, ExitOfRemoved, ExitRestarts, ExitCrashes
  <2> QED BY <2>1
<1>1. ExitForm(t)
  BY ExitHasForm
<1>2. PtyTypeOK /\ UnusedIsIdle
  BY DEF TypeOK, Care
<1>3. process[t] # "none" /\ received \in SUBSET exit_events
  BY <1>2 DEF UnusedIsIdle, EventsOf
<1>4. /\ UnusedIsIdle'
      /\ \A u \in Terminals \ {t} : Heard(u) => Heard(u)'
  <2>1. K \cup R \subseteq Used /\ C \cap Used = {}
    BY <1>3 DEF Used
  <2>2. \A u \in Terminals \ {t} : EventsOf(u) \cap received = {}
    BY DEF EventsOf
  <2> HIDE DEF IInv, Shape
  <2>3. /\ UnusedIsIdle'
        /\ \A u \in Terminals \ (C \cup K \cup R) :
             Heard(u) /\ EventsOf(u) \cap received = {} => Heard(u)'
    BY <1>2, <1>3, <2>1, PtyUpdateFrame
  <2> QED BY <2>2, <2>3
<1>6. RunningIsHeard'
  BY <1>1, <1>4 DEF Care, RunningIsHeard, ExitForm
<1>7. RegisteredIsHeld' /\ OneCollected'
  BY <1>1 DEF Care, RegisteredIsHeld, OneCollected, ExitForm, TypeOK
<1>8. \A u \in handles' : u \in handles /\ u \in Terminals /\ u # t
  BY DEF PtyUpdate, TypeOK, PtyTypeOK
<1>9. HandleIsHeld'
  <2> SUFFICES ASSUME NEW u \in handles'
               PROVE  /\ owner'[u] \in Services
                      /\ owner'[u] \notin overlapped' =>
                           \/ terminal_id'[owner'[u]] = u /\ status'[owner'[u]] = "running"
                           \/ taken'[u] = "pids"
    BY DEF HandleIsHeld
  <2>1. owner'[u] = owner[u] /\ owner[u] \in Services
    BY <1>1, <1>8 DEF Care, HandleIsHeld, ExitForm
  <2>2. CASE owner[u] \notin overlapped /\ terminal_id[owner[u]] = u /\ status[owner[u]] = "running"
    BY <1>1, <1>8, <2>1, <2>2 DEF ExitForm
  <2> QED BY <1>1, <1>8, <2>1, <2>2 DEF Care, HandleIsHeld, ExitForm
<1>10. HandleIsRegistered'
  BY <1>1, <1>8 DEF Care, HandleIsRegistered, ExitForm
<1>11. ASSUME ~Sessions PROVE LiveIsHandled'
  BY <1>2, <1>3, <1>11, PtyUpdatePlain DEF Care
<1> QED BY <1>4, <1>6, <1>7, <1>9, <1>10, <1>11 DEF Care

\* The processes, threads and workers.
LEMMA PtyStepKeepsCare ==
  ASSUME IInv, Care, PtyStep
  PROVE  Care'
<1> USE DEF IInv
<1>1. /\ PtyNext
      /\ UNCHANGED <<status, terminal_id, taken, terminals, owner, overlapped>>
  BY DEF PtyStep, instanceVars, deferredVars, routeVars
<1>2. /\ UnusedIsIdle'
      /\ \A t \in Terminals : Heard(t) => Heard(t)'
      /\ ~Sessions /\ LiveIsHandled => LiveIsHandled'
  BY <1>1, PtyNextHeard DEF TypeOK, Care
<1>3. handles' = handles
  BY <1>1 DEF PtyNext, ProcessExit, ClientExit, WriterFail, Teardown
<1>4. RunningIsHeard' /\ RegisteredIsHeld' /\ OneCollected' /\ HandleIsHeld' /\ HandleIsRegistered'
  BY <1>1, <1>2, <1>3 DEF Care, RunningIsHeard, RegisteredIsHeld, OneCollected, HandleIsHeld,
     HandleIsRegistered
<1> QED BY <1>2, <1>4 DEF Care

\* sync_services opens a project, none of whose services has an instance.
LEMMA OpenKeepsCare ==
  ASSUME IInv, Care, NEW p \in Projects, OpenProject(p)
  PROVE  Care'
<1>1. TakenKept
  BY DEF TakenKept, OpenProject, deferredVars, IInv, TypeOK
<1>2. ASSUME NEW c \in ConfigsFor(p), NEW saved \in SUBSET c.listed,
             NEW f \in Spawns(saved \cup (c.auto_start \cap c.listed)), LoadConfig(p, c, saved, f)
      PROVE  Care'
  <2> DEFINE S == saved \cup (c.auto_start \cap c.listed)
             L == c.listed
  <2>1. S \subseteq L /\ L \subseteq Services /\ \A s \in L : ProjectOf[s] = p
    BY ConfigsAssumption DEF ConfigsFor, Config, ServicesOf
  <2>2. f \in Spawns(S) /\ S \subseteq Services /\ DOMAIN f = S
    BY <2>1, SpawnsEffect
  <2>3. /\ status' = [s \in Services |-> IF s \in S THEN Started(f[s])
                                         ELSE IF s \in L THEN "stopped" ELSE status[s]]
        /\ terminal_id' = [s \in Services |-> IF s \in S THEN f[s]
                                              ELSE IF s \in L THEN NoTerminal ELSE terminal_id[s]]
        /\ Routes(f, {}) /\ PtyUpdate(Created(f), {}, {}, {})
    BY <1>2, <2>2 DEF LoadConfig
  <2>4. \A s \in L : ~Present(s) /\ terminal_id[s] = NoTerminal
    BY <2>1 DEF OpenProject, IInv, PresentIsLoaded, Loaded
  <2> HIDE DEF S, L
  <2>5. TerminalsOf(L) = {}
    BY <2>4 DEF TerminalsOf
  <2>6. Routes(f, TerminalsOf(L)) /\ {} \in SUBSET TerminalsOf(L)
    BY <2>3, <2>5
  <2>7. \A s \in S : status'[s] = "running" <=> f[s] # NoTerminal
    BY <2>1, <2>3 DEF Started
  <2>8. \A s \in Services \ S : status'[s] = "running" <=> s \notin L /\ status[s] = "running"
    BY <2>3
  <2>9. \A s \in L : status[s] = "running" => terminal_id[s] \in {}
    BY <2>4 DEF Present
  <2> QED BY <1>1, <2>1, <2>2, <2>3, <2>6, <2>7, <2>8, <2>9, ExchangeKeepsCare
<1>3. CASE UNCHANGED <<instanceVars, routeVars, overlapped, ptyVars>>
  BY <1>1, <1>3, IdleKeepsCare DEF instanceVars
<1> QED BY <1>2, <1>3 DEF OpenProject

\* unload_project_services takes the terminals of all instances of the project.
LEMMA UnloadKeepsCare ==
  ASSUME IInv, Care, NEW p \in Projects, Unload(p)
  PROVE  Care'
<1> DEFINE S == {s \in ServicesOf(p) : Present(s)}
<1>1. S \subseteq Services /\ Withdraw(S) /\ UNCHANGED taken
  BY DEF Unload, ServicesOf, deferredVars
<1>2. \A s \in Services : status'[s] = IF s \in S THEN "absent" ELSE status[s]
  BY DEF Unload, SetStatus
<1> HIDE DEF S
<1> QED BY <1>1, <1>2, WithdrawKeepsCare

\* A reload takes those of the services that it removes.
LEMMA ReloadKeepsCare ==
  ASSUME IInv, Care, NEW p \in Projects, ReloadServices(p)
  PROVE  Care'
<1>1. ASSUME NEW c \in ConfigsFor(p), ReloadConfig(p, c) PROVE Care'
  <2> DEFINE R == {s \in ServicesOf(p) : Present(s)} \ c.listed
             A == {s \in c.listed : ~Present(s)}
  <2>1. R \subseteq Services /\ Withdraw(R) /\ UNCHANGED taken
    BY <1>1 DEF ReloadConfig, ServicesOf, deferredVars
  <2>2. \A s \in Services : status'[s] = IF s \in R THEN "absent"
                                         ELSE IF s \in A THEN "stopped" ELSE status[s]
    BY <1>1 DEF ReloadConfig
  <2>3. \A s \in A : status[s] = "absent"
    BY DEF Present
  <2> HIDE DEF R, A
  <2> QED BY <2>1, <2>2, <2>3, WithdrawKeepsCare
<1>2. CASE Unload(p)
  BY <1>2, UnloadKeepsCare
<1> QED BY <1>1, <1>2 DEF ReloadServices

\* stop_service on some services.
LEMMA StopKeepsCare ==
  ASSUME IInv, Care, NEW S \in SUBSET Services, Stop(S)
  PROVE  Care'
<1>1. \A s \in Services : status'[s] = IF s \in S THEN "stopped" ELSE status[s]
  BY DEF Stop, SetStatus
<1>2. Withdraw(S) /\ UNCHANGED taken
  BY DEF Stop, deferredVars
<1> QED BY <1>1, <1>2, WithdrawKeepsCare

\* The delay of an automatic restart is over.
LEMMA CrashTimerKeepsCare ==
  ASSUME IInv, Care, NEW s \in Services, CrashTimer(s)
  PROVE  Care'
<1>1. TakenKept
  BY DEF TakenKept, CrashTimer, IInv, TypeOK
<1>2. CASE TimerStarts(s)
  <2>1. PICK f \in Spawns({s}) : Launch(f)
    BY <1>2 DEF CrashTimer
  <2> QED BY <1>1, <1>2, <2>1, LaunchKeepsCare DEF TimerStarts, CanStart
<1>3. CASE ~TimerStarts(s)
  BY <1>1, <1>3, IdleKeepsCare DEF CrashTimer, instanceVars
<1> QED BY <1>2, <1>3

-------------------------------------------------------------------------------
(* The invariant. *)

LEMMA InitCare == Init => Care
BY DEF Init, PtyInit, Care, UnusedIsIdle, EventsOf, RunningIsHeard, Alive, RegisteredIsHeld,
       OneCollected, HandleIsHeld, HandleIsRegistered, LiveIsHandled

LEMMA NextKeepsCare == IInv /\ Care /\ [Next]_vars => Care'
<1> SUFFICES ASSUME IInv, Care, [Next]_vars PROVE Care'
  OBVIOUS
<1>1. ASSUME NEW p \in Projects, OpenProject(p) PROVE Care'
  BY <1>1, OpenKeepsCare
<1>2. ASSUME NEW p \in Projects, CloseProject(p) PROVE Care'
  BY <1>2, UnloadKeepsCare DEF CloseProject
<1>3. ASSUME NEW p \in Projects, ReloadServices(p) PROVE Care'
  BY <1>3, ReloadKeepsCare
<1>4. ASSUME NEW p \in Projects, StartAll(p) PROVE Care'
  <2> DEFINE S == {s \in ServicesOf(p) : CanStart(s)}
  <2>1. S \subseteq Services /\ \A s \in S : status[s] # "running"
    BY DEF ServicesOf, CanStart
  <2>2. PICK f \in Spawns(S) : Launch(f)
    BY <1>4 DEF StartAll
  <2>3. TakenKept
    BY <1>4 DEF StartAll, TakenKept, deferredVars, IInv, TypeOK
  <2> HIDE DEF S
  <2> QED BY <2>1, <2>2, <2>3, LaunchKeepsCare
<1>5. ASSUME NEW p \in Projects, StopAll(p) PROVE Care'
  <2>1. PICK S \in SUBSET Services : Stop(S)
    BY <1>5 DEF StopAll, ServicesOf
  <2> QED BY <2>1, StopKeepsCare
<1>6. ASSUME NEW s \in Services, StartService(s) PROVE Care'
  <2>1. PICK f \in Spawns({s}) : Launch(f)
    BY <1>6 DEF StartService
  <2>2. TakenKept
    BY <1>6 DEF StartService, TakenKept, deferredVars, IInv, TypeOK
  <2> QED BY <1>6, <2>1, <2>2, LaunchKeepsCare DEF StartService, CanStart
<1>7. ASSUME NEW s \in Services, StopService(s) PROVE Care'
  BY <1>7, StopKeepsCare DEF StopService
<1>8. ASSUME NEW s \in Services, RestartService(s) PROVE Care'
  BY <1>8, RestartServiceKeepsCare
<1>9. ASSUME NEW s \in Services, BareRestart(s) PROVE Care'
  <2>1. TakenKept
    BY <1>9 DEF TakenKept, BareRestart, IInv, TypeOK
  <2> QED BY <1>9, <2>1, ResumeKeepsCare DEF BareRestart
<1>10. ASSUME NEW s \in Services, CrashTimer(s) PROVE Care'
  BY <1>10, CrashTimerKeepsCare
<1>11. ASSUME NEW t \in Terminals, RestartKill(t) PROVE Care'
  BY <1>11, RestartKillKeepsCare
<1>12. ASSUME NEW t \in Terminals, RestartStart(t) PROVE Care'
  <2>1. owner[t] \in Services
    BY <1>12 DEF RestartStart, IInv, Shape, TakenIsOwned
  <2>2. TakenKept
    BY <1>12 DEF TakenKept, RestartStart, IInv, TypeOK
  <2> QED BY <1>12, <2>1, <2>2, ResumeKeepsCare DEF RestartStart
<1>13. ASSUME NEW t \in Terminals, HandleExit(t) PROVE Care'
  BY <1>13, ExitKeepsCare
<1>14. CASE PtyStep
  BY <1>14, PtyStepKeepsCare
<1>15. CASE UNCHANGED vars
  <2>1. TakenKept
    BY <1>15 DEF TakenKept, vars, deferredVars, IInv, TypeOK
  <2> QED BY <1>15, <2>1, IdleKeepsCare DEF vars, instanceVars
<1> QED BY <1>1, <1>2, <1>3, <1>4, <1>5, <1>6, <1>7, <1>8, <1>9, <1>10, <1>11, <1>12, <1>13,
           <1>14, <1>15 DEF Next

\* The care that is taken of terminals and processes is inductive, next to IInv.
THEOREM CareIsTaken == Spec => [](IInv /\ Care)
<1>1. Spec => []IInv
  BY InductiveInvariant
<1> QED BY <1>1, InitCare, NextKeepsCare, PTL DEF Spec

\* A running service has a process or an Exit event on its way: the reader, a failed
\* write or the teardown of its own handle cannot end it without a word.
THEOREM RunningBacked == Spec => []RunningIsBacked
<1>1. IInv /\ Care => RunningIsBacked
  BY DEF IInv, Shape, RunningHasTerminal, Care, RunningIsHeard, Heard, RunningIsBacked
<1> QED BY <1>1, CareIsTaken, PTL

\* What leaves an instance or a restart leaves the registry in the same step.
THEOREM RegistryOwned == Spec => []RegistryHasOwners
<1>1. IInv /\ Care => RegistryHasOwners
  BY DEF Care, RegisteredIsHeld, RegistryHasOwners, HeldBy
<1> QED BY <1>1, CareIsTaken, PTL

(* Under every session backend the PtyHandle of a service's terminal has   *)
(* an owner that will give it up: the running instance or a manual restart *)
(* that has not killed it yet.  So a process without an owner (the finding *)
(* of service_session) has lost its handle with its attach client, and     *)
(* start_service, stop, reload and the restarts leak none                  *)
(* (manager/commands.rs, pty_manager.rs: kill, cleanup_exited).            *)
HandlesAreOwned ==
  \A t \in handles : owner[t] \notin overlapped => HeldBy(owner[t], t) /\ t \in terminals

THEOREM HandlesOwned == Spec => []HandlesAreOwned
<1>1. IInv /\ Care => HandlesAreOwned
  BY DEF Care, HandleIsHeld, HandleIsRegistered, HandlesAreOwned, HeldBy, IInv, TypeOK, PtyTypeOK
<1> QED BY <1>1, CareIsTaken, PTL

(* A service has at most one handle, whatever starts, stops, crashes and   *)
(* restarts interleave, unless it was started in the gap of a manual       *)
(* restart (overlapped).                                                   *)
OneHandle ==
  \A t, u \in handles : owner[t] = owner[u] => t = u \/ owner[t] \in overlapped

THEOREM OneHandleOpen == Spec => []OneHandle
<1>1. IInv /\ Care => OneHandle
  <2> SUFFICES ASSUME IInv, Care, NEW t \in handles, NEW u \in handles,
                      owner[t] = owner[u], owner[t] \notin overlapped
               PROVE  t = u
    BY DEF OneHandle
  <2>1. t \in Terminals /\ u \in Terminals
    BY DEF IInv, TypeOK, PtyTypeOK
  <2>2. \A x \in {t, u} : terminal_id[owner[t]] = x \/ taken[x] = "pids"
    BY DEF Care, HandleIsHeld
  <2>3. \A x \in {t, u} : taken[x] = "pids" => terminal_id[owner[t]] = NoTerminal
    BY <2>1 DEF IInv, Shape, CollectingHasNone
  <2> QED BY <2>1, <2>2, <2>3, NoneAssumption DEF Care, OneCollected
<1> QED BY <1>1, CareIsTaken, PTL

\* Without a session backend every live process of a service has an owner or a job
\* that ends it (service_session shows that the assumption is needed).
THEOREM NoOrphans ==
  ASSUME Sessions = FALSE
  PROVE  Spec => []NoOrphan
<1>1. IInv /\ Care => NoOrphan
  BY DEF Care, LiveIsHandled, HandleIsHeld, NoOrphan, HeldBy, IInv, TypeOK, PtyTypeOK
<1> QED BY <1>1, CareIsTaken, PTL

\* Nor do two processes of a service run, unless it was started in the gap of a
\* manual restart (overlapped): each has the service's only handle.
THEOREM OneProcessRuns ==
  ASSUME Sessions = FALSE
  PROVE  Spec => []OneProcess
<1>1. Care /\ OneHandle => OneProcess
  BY DEF Care, LiveIsHandled, OneHandle, OneProcess
<1> QED BY <1>1, CareIsTaken, OneHandleOpen, PTL

-------------------------------------------------------------------------------
(* What a manual restart waits for, with any session backend.              *)

\* A handler starts no used terminal again and calls off no teardown.
LEMMA HandlerSparesTeardown ==
  ASSUME IInv, NEW C \in SUBSET Terminals, NEW K \in SUBSET Terminals,
         NEW R \in SUBSET Terminals, NEW V \in SUBSET exit_events, PtyUpdate(C, K, R, V),
         NEW t \in Terminals, process[t] # "none", \A u \in C : process[u] = "none"
  PROVE  /\ Alive(t)' => Alive(t)
         /\ BeingEnded(t) => BeingEnded(t)'
  BY PtyUpdateEnds DEF IInv, TypeOK

\* Nor does any other step, until the process is dead.
LEMMA NextSparesTeardown ==
  ASSUME IInv, [Next]_vars, NEW t \in Terminals, process[t] # "none"
  PROVE  /\ Alive(t)' => Alive(t)
         /\ Alive(t)' /\ BeingEnded(t) => BeingEnded(t)'
<1> DEFINE Goal == /\ Alive(t)' => Alive(t)
                   /\ Alive(t)' /\ BeingEnded(t) => BeingEnded(t)'
<1>1. ASSUME NEW S \in SUBSET Services, NEW f \in Spawns(S), PtyUpdate(Created(f), {}, {}, {})
      PROVE  Goal
  <2>1. Created(f) \in SUBSET Terminals /\ \A u \in Created(f) : process[u] = "none"
    BY SpawnsEffect
  <2>2. {} \in SUBSET Terminals /\ {} \in SUBSET exit_events
    OBVIOUS
  <2> QED BY <1>1, <2>1, <2>2, HandlerSparesTeardown
<1>2. ASSUME NEW K \in SUBSET Terminals, NEW R \in SUBSET Terminals,
             NEW V \in SUBSET exit_events, PtyUpdate({}, K, R, V)
      PROVE  Goal
  <2>1. {} \in SUBSET Terminals /\ \A u \in {} : process[u] = "none"
    OBVIOUS
  <2> QED BY <1>2, <2>1, HandlerSparesTeardown
<1>3. ASSUME NEW S \in SUBSET Services, Withdraw(S) PROVE Goal
  <2>1. TerminalsOf(S) \in SUBSET Terminals /\ {} \in SUBSET Terminals /\ {} \in SUBSET exit_events
    BY DEF TerminalsOf, IInv, TypeOK
  <2>2. PtyUpdate({}, TerminalsOf(S), {}, {})
    BY <1>3 DEF Withdraw
  <2> QED BY <1>2, <2>1, <2>2
<1>4. CASE UNCHANGED ptyVars
  BY <1>4 DEF ptyVars, Alive, BeingEnded
<1>5. ASSUME NEW s \in Services, NEW f \in Spawns({s}), Launch(f) PROVE Goal
  BY <1>1, <1>5 DEF Launch
<1>6. ASSUME NEW s \in Services, Resume(s) PROVE Goal
  BY <1>4, <1>5, <1>6 DEF Resume
<1>7. ASSUME NEW p \in Projects, Unload(p) PROVE Goal
  BY <1>3, <1>7 DEF Unload, ServicesOf
<1>8. ASSUME NEW p \in Projects, OpenProject(p) PROVE Goal
  <2>1. ASSUME NEW c \in ConfigsFor(p), NEW saved \in SUBSET c.listed,
               NEW f \in Spawns(saved \cup (c.auto_start \cap c.listed)),
               LoadConfig(p, c, saved, f)
        PROVE  Goal
    <3>1. saved \cup (c.auto_start \cap c.listed) \in SUBSET Services
      BY ConfigsAssumption DEF ConfigsFor, Config, ServicesOf
    <3> QED BY <1>1, <2>1, <3>1 DEF LoadConfig
  <2> QED BY <1>4, <1>8, <2>1 DEF OpenProject
<1>9. ASSUME NEW p \in Projects, ReloadServices(p) PROVE Goal
  <2>1. ASSUME NEW c \in ConfigsFor(p), ReloadConfig(p, c) PROVE Goal
    BY <1>3, <2>1 DEF ReloadConfig, ServicesOf
  <2> QED BY <1>7, <1>9, <2>1 DEF ReloadServices
<1>10. ASSUME NEW p \in Projects, StartAll(p) PROVE Goal
  <2>1. PICK f \in Spawns({s \in ServicesOf(p) : CanStart(s)}) : Launch(f)
    BY <1>10 DEF StartAll
  <2>2. {s \in ServicesOf(p) : CanStart(s)} \in SUBSET Services
    BY DEF ServicesOf
  <2> QED BY <1>1, <2>1, <2>2 DEF Launch
<1>11. ASSUME NEW S \in SUBSET Services, Stop(S) PROVE Goal
  BY <1>3, <1>11 DEF Stop
<1>12. ASSUME NEW u \in Terminals, RestartKill(u) PROVE Goal
  <2>1. {u} \in SUBSET Terminals /\ {} \in SUBSET Terminals /\ {} \in SUBSET exit_events
    OBVIOUS
  <2> QED BY <1>2, <1>12, <2>1 DEF RestartKill
<1>13. ASSUME NEW u \in Terminals, HandleExit(u) PROVE Goal
  <2>1. PICK received \in SUBSET EventsOf(u) :
          PtyUpdate({}, {u}, {u}, received) \/ PtyUpdate({}, {}, {u}, received)
    BY <1>13 DEF HandleExit, ExitOfOther, ExitOfRemoved, ExitRestarts, ExitCrashes
  <2>2. received \in SUBSET exit_events /\ {u} \in SUBSET Terminals /\ {} \in SUBSET Terminals
    BY DEF EventsOf
  <2> QED BY <1>2, <2>1, <2>2
<1>14. CASE PtyStep
  BY <1>14, PtyNextEnds DEF PtyStep, IInv, TypeOK
<1>15. ASSUME NEW p \in Projects,
              OpenProject(p) \/ CloseProject(p) \/ ReloadServices(p) \/ StartAll(p) \/ StopAll(p)
       PROVE  Goal
  BY <1>7, <1>8, <1>9, <1>10, <1>11, <1>15 DEF CloseProject, StopAll, ServicesOf
<1>16. ASSUME NEW s \in Services,
              \/ StartService(s) \/ StopService(s) \/ RestartService(s)
              \/ BareRestart(s) \/ CrashTimer(s)
       PROVE  Goal
  <2>1. CASE StartService(s) \/ CrashTimer(s)
    BY <1>4, <1>5, <2>1 DEF StartService, CrashTimer
  <2>2. CASE StopService(s)
    BY <1>11, <2>2 DEF StopService
  <2>3. CASE RestartService(s)
    BY <1>4, <2>3 DEF RestartService
  <2>4. CASE BareRestart(s)
    BY <1>6, <2>4 DEF BareRestart
  <2> QED BY <1>16, <2>1, <2>2, <2>3, <2>4
<1>17. ASSUME NEW u \in Terminals, RestartStart(u) PROVE Goal
  <2>1. owner[u] \in Services
    BY <1>17 DEF RestartStart, IInv, Shape, TakenIsOwned
  <2> QED BY <1>6, <1>17, <2>1 DEF RestartStart
<1>18. CASE UNCHANGED vars
  BY <1>4, <1>18 DEF vars
<1> QED BY <1>12, <1>13, <1>14, <1>15, <1>16, <1>17, <1>18 DEF Next

(* A manual restart that waits for the death of its terminal has sent a    *)
(* kill that nothing takes back: a stop, an unload, a reload, a second     *)
(* restart and the exits that arrive meanwhile leave the job queued until  *)
(* the process is dead, sessions included (manager/commands.rs,            *)
(* restart_service; pty_manager.rs, kill).                                 *)
WaitedForIsEnded == \A t \in Terminals : taken[t] = "waiting" /\ Alive(t) => BeingEnded(t)

LEMMA NextKeepsWaitedFor == IInv /\ WaitedForIsEnded /\ [Next]_vars => WaitedForIsEnded'
<1> SUFFICES ASSUME IInv, WaitedForIsEnded, [Next]_vars, NEW t \in Terminals,
                    taken'[t] = "waiting", Alive(t)'
             PROVE  BeingEnded(t)'
  BY DEF WaitedForIsEnded
<1>1. CASE taken[t] = "waiting"
  <2>1. process[t] # "none"
    BY <1>1 DEF IInv, Shape, TakenIsOwned
  <2> QED BY <1>1, <2>1, NextSparesTeardown DEF WaitedForIsEnded
<1>2. CASE taken[t] # "waiting"
  <2>0. \A u \in Terminals : taken' = [taken EXCEPT ![u] = "waiting"] => u = t
    BY <1>2 DEF IInv, TypeOK
  <2>1. RestartKill(t)
    <3>1. ~UNCHANGED taken
      BY <1>2
    <3>2. \A p \in Projects : ~(OpenProject(p) \/ CloseProject(p) \/ ReloadServices(p)
                                \/ StartAll(p) \/ StopAll(p))
      BY <3>1 DEF OpenProject, CloseProject, Unload, ReloadServices, ReloadConfig, StartAll,
         StopAll, Stop, deferredVars
    <3>3. \A s \in Services : ~(StartService(s) \/ StopService(s) \/ BareRestart(s) \/ CrashTimer(s))
      BY <3>1 DEF StartService, StopService, Stop, BareRestart, CrashTimer, deferredVars
    <3>4. \A s \in Services : ~RestartService(s)
      BY <1>2, <3>1 DEF RestartService, IInv, TypeOK
    <3>5. \A u \in Terminals : ~RestartStart(u)
      BY <1>2 DEF RestartStart, IInv, TypeOK
    <3>6. \A u \in Terminals : ~HandleExit(u)
      BY <3>1 DEF HandleExit, ExitOfOther, ExitOfRemoved, ExitRestarts, ExitCrashes, deferredVars
    <3>7. ~PtyStep /\ ~UNCHANGED vars
      BY <3>1 DEF PtyStep, vars, deferredVars
    <3>8. PICK u \in Terminals : RestartKill(u)
      BY <3>2, <3>3, <3>4, <3>5, <3>6, <3>7 DEF Next
    <3> QED BY <2>0, <3>8 DEF RestartKill
  <2>2. PtyUpdate({}, {t}, {}, {}) /\ {t} \in SUBSET Terminals
    BY <2>1 DEF RestartKill
  <2>3. {} \in SUBSET Terminals /\ {} \in SUBSET exit_events
    OBVIOUS
  <2> QED BY <2>2, <2>3, PtyUpdateEnds DEF IInv, TypeOK
<1> QED BY <1>1, <1>2

\* The safety half of TakenIsEnded, which service_live checks.
THEOREM WaitedForEnds == Spec => []WaitedForIsEnded
<1>1. Init => WaitedForIsEnded
  BY DEF Init, WaitedForIsEnded
<1>2. Spec => []IInv
  BY InductiveInvariant
<1> QED BY <1>1, <1>2, NextKeepsWaitedFor, PTL DEF Spec

-------------------------------------------------------------------------------
(* The refinement: ServiceManager implements ServiceSlots.                 *)

\* A terminal is for no service until it is created.
UnusedIsFree == \A t \in Terminals : process[t] = "none" => owner[t] = NoService

Leaving == {t \in Terminals : taken[t] = "pids"}

\* What a handler that creates no terminal leaves of the handles.
LEMMA GiveUpStep ==
  ASSUME UnusedIsFree, handles' \subseteq handles, UNCHANGED <<owner, overlapped>>,
         Leaving' = Leaving, Used \subseteq Used'
  PROVE  UnusedIsFree' /\ [Slots!Next]_(Slots!vars)
<1>1. UnusedIsFree'
  BY DEF UnusedIsFree, Used
<1>2. Slots!GiveUp
  BY DEF Slots!GiveUp, Leaving
<1> QED BY <1>1, <1>2 DEF Slots!Next

\* Services that are not running are started: their slots are free, or a manual
\* restart is about to kill what is in them.
LEMMA TakeStep ==
  ASSUME IInv, Care, UnusedIsFree, NEW S \in SUBSET Services, NEW f \in Spawns(S),
         NEW D \in SUBSET Terminals, Routes(f, D), PtyUpdate(Created(f), {}, {}, {}),
         \A s \in S : status[s] # "running", Leaving' = Leaving
  PROVE  UnusedIsFree' /\ [Slots!Next]_(Slots!vars)
<1> DEFINE new == Created(f)
           service == [t \in new |-> ServiceOf(f, t)]
<1>1. /\ new \subseteq Terminals /\ \A t \in new : process[t] = "none"
      /\ \A t \in new : service[t] \in S /\ f[service[t]] = t
      /\ \A s \in S : f[s] # NoTerminal => f[s] \in new /\ service[f[s]] = s
      /\ DOMAIN f = S
  BY SpawnsEffect
<1>2. new \in SUBSET Slots!Unused /\ service \in [new -> Services]
  BY <1>1 DEF UnusedIsFree, Slots!Unused
<1>3. /\ owner' = [t \in Terminals |-> IF t \in new THEN service[t] ELSE owner[t]]
      /\ handles' = handles \cup new
  BY DEF Routes, PtyUpdate
<1>4. \A s \in Services : Slots!Leaves(s) <=> CollectingPids(s)
  BY DEF Slots!Leaves, CollectingPids
<1>5. overlapped' = overlapped \cup {s \in Services : Slots!Leaves(s) /\ \E t \in new : service[t] = s}
  <2>1. ASSUME NEW s \in S
        PROVE  f[s] # NoTerminal <=> \E t \in new : service[t] = s
    <3>1. f[s] # NoTerminal => f[s] \in new /\ service[f[s]] = s
      BY <1>1
    <3>2. \A t \in new : service[t] = s => f[s] = t /\ t # NoTerminal
      BY <1>1, NoneAssumption
    <3> HIDE DEF new, service
    <3> QED BY <3>1, <3>2
  <2>2. \A s \in Services : (\E t \in new : service[t] = s) => s \in S
    BY <1>1
  <2>3. overlapped' = overlapped \cup {s \in S : f[s] # NoTerminal /\ CollectingPids(s)}
    BY <1>1 DEF Routes
  <2> QED BY <1>4, <2>1, <2>2, <2>3
<1>6. ASSUME NEW t \in new
      PROVE  \/ Slots!Slot(service[t]) = {} \/ Slots!Leaves(service[t])
             \/ service[t] \in overlapped
  <2>1. service[t] \in S /\ status[service[t]] # "running"
    BY <1>1
  <2>2. \A u \in handles : owner[u] = service[t] /\ service[t] \notin overlapped =>
          u \in Terminals /\ taken[u] = "pids"
    BY <2>1 DEF Care, HandleIsHeld, IInv, TypeOK, PtyTypeOK
  <2> QED BY <2>2 DEF Slots!Slot, Slots!Leaves
<1>7. UnusedIsFree'
  <2>1. \A t \in Terminals : process'[t] = "none" => t \notin new /\ process[t] = "none"
    BY DEF PtyUpdate
  <2> QED BY <1>1, <1>3, <2>1 DEF UnusedIsFree
<1>8. \A t, u \in new : service[t] = service[u] => t = u
  BY <1>1
<1> HIDE DEF new, service
<1>9. Slots!Take(new, service)
  BY <1>3, <1>5, <1>6, <1>8 DEF Slots!Take, Leaving
<1> QED BY <1>2, <1>7, <1>9 DEF Slots!Next

LEMMA LaunchStep ==
  ASSUME IInv, Care, UnusedIsFree, NEW S \in SUBSET Services, NEW f \in Spawns(S), Launch(f),
         \A s \in S : status[s] # "running", Leaving' = Leaving
  PROVE  UnusedIsFree' /\ [Slots!Next]_(Slots!vars)
<1>1. Routes(f, TerminalsOf(S)) /\ PtyUpdate(Created(f), {}, {}, {})
  BY SpawnsEffect DEF Launch
<1>2. TerminalsOf(S) \subseteq Terminals
  BY DEF TerminalsOf, IInv, TypeOK
<1> QED BY <1>1, <1>2, TakeStep

\* Terminals are killed or reaped, and leave the registry.
LEMMA DropStep ==
  ASSUME IInv, UnusedIsFree, NEW K \in SUBSET Terminals, NEW R \in SUBSET Terminals,
         NEW V \in SUBSET exit_events, PtyUpdate({}, K, R, V),
         \/ UNCHANGED <<owner, overlapped>>
         \/ \E D \in SUBSET Terminals : Routes(NoSpawn, D)
  PROVE  /\ UNCHANGED <<owner, overlapped>> /\ handles' = handles \ (K \cup R)
         /\ Used \subseteq Used'
         /\ Leaving' = Leaving => UnusedIsFree' /\ [Slots!Next]_(Slots!vars)
<1>1. UNCHANGED <<owner, overlapped>>
  <2>1. ASSUME NEW D \in SUBSET Terminals, Routes(NoSpawn, D)
        PROVE  owner' = owner /\ overlapped' = overlapped
    BY <2>1, NoSpawnEffect DEF Routes, IInv, TypeOK
  <2> QED BY <2>1
<1>2. handles' = handles \ (K \cup R)
  BY DEF PtyUpdate
<1>3. Used \subseteq Used'
  BY DEF Used, PtyUpdate
<1> QED BY <1>1, <1>2, <1>3, GiveUpStep

LEMMA WithdrawStep ==
  ASSUME IInv, UnusedIsFree, NEW S \in SUBSET Services, Withdraw(S), UNCHANGED taken
  PROVE  UnusedIsFree' /\ [Slots!Next]_(Slots!vars)
<1>1. TerminalsOf(S) \in SUBSET Terminals /\ {} \in SUBSET Terminals /\ {} \in SUBSET exit_events
  BY DEF TerminalsOf, IInv, TypeOK
<1>2. Routes(NoSpawn, TerminalsOf(S)) /\ PtyUpdate({}, TerminalsOf(S), {}, {}) /\ Leaving' = Leaving
  BY DEF Withdraw, Leaving
<1> QED BY <1>1, <1>2, DropStep

\* Nothing happens to the terminals.
LEMMA QuietStep ==
  ASSUME UnusedIsFree, UNCHANGED <<owner, overlapped, handles>>, Used \subseteq Used',
         Leaving' = Leaving
  PROVE  UnusedIsFree' /\ [Slots!Next]_(Slots!vars)
BY DEF UnusedIsFree, Used, Leaving, Slots!vars

LEMMA ResumeStep ==
  ASSUME IInv, Care, UnusedIsFree, NEW s \in Services, Resume(s), Leaving' = Leaving
  PROVE  UnusedIsFree' /\ [Slots!Next]_(Slots!vars)
<1>1. CASE status[s] = "restarting"
  <2>1. PICK f \in Spawns({s}) : Launch(f)
    BY <1>1 DEF Resume
  <2> QED BY <1>1, <2>1, LaunchStep
<1>2. CASE status[s] # "restarting"
  BY <1>2, QuietStep DEF Resume, routeVars, ptyVars, Used
<1> QED BY <1>1, <1>2

\* A manual restart takes the terminal from the instance.
LEMMA RestartServiceStep ==
  ASSUME IInv, Care, UnusedIsFree, NEW s \in Services, RestartService(s)
  PROVE  UnusedIsFree' /\ [Slots!Next]_(Slots!vars)
<1> USE NoneAssumption DEF IInv, Shape
<1>1. UNCHANGED <<owner, overlapped, handles, process>>
  BY DEF RestartService, routeVars, ptyVars
<1>2. CASE terminal_id[s] = NoTerminal
  BY <1>1, <1>2, QuietStep DEF RestartService, Leaving, Used
<1>3. CASE terminal_id[s] # NoTerminal
  <2> PICK t \in Terminals : t = terminal_id[s]
    BY <1>3 DEF TypeOK
  <2>1. Leaving' = Leaving \cup {t}
    BY <1>3 DEF RestartService, Leaving, TypeOK
  <2>2. owner[t] = s
    BY DEF ShownIsOwned
  <2>3. ASSUME s \notin overlapped
        PROVE  Slots!Slot(s) \subseteq {t} /\ ~Slots!Leaves(s)
    <3>1. \A u \in Terminals : ~(taken[u] = "pids" /\ owner[u] = s)
      BY <2>3 DEF CollectingHasNone
    <3>2. \A u \in handles : owner[u] = s => u = t
      BY <2>3, <3>1 DEF Care, HandleIsHeld, TypeOK, PtyTypeOK
    <3> QED BY <3>1, <3>2 DEF Slots!Slot, Slots!Leaves
  <2>4. Slots!Restart(t)
    BY <1>1, <2>1, <2>2, <2>3 DEF Slots!Restart, Leaving
  <2>5. UnusedIsFree'
    BY <1>1 DEF UnusedIsFree
  <2> QED BY <2>4, <2>5 DEF Slots!Next
<1> QED BY <1>2, <1>3

\* It kills it.
LEMMA RestartKillStep ==
  ASSUME IInv, UnusedIsFree, NEW t \in Terminals, RestartKill(t)
  PROVE  UnusedIsFree' /\ [Slots!Next]_(Slots!vars)
<1>1. Routes(NoSpawn, {t}) /\ PtyUpdate({}, {t}, {}, {}) /\ taken[t] = "pids"
  BY DEF RestartKill
<1>2. /\ {t} \in SUBSET Terminals /\ {} \in SUBSET Terminals /\ {} \in SUBSET exit_events
  OBVIOUS
<1>3. UNCHANGED <<owner, overlapped>> /\ handles' = handles \ {t} /\ Used \subseteq Used'
  <2>1. handles' = handles \ ({t} \cup {}) /\ UNCHANGED <<owner, overlapped>> /\ Used \subseteq Used'
    BY <1>1, <1>2, DropStep
  <2> QED BY <2>1
<1>4. Leaving' = Leaving \ {t} /\ t \in Leaving
  BY <1>1 DEF RestartKill, Leaving, IInv, TypeOK
<1>5. Slots!Kill(t)
  BY <1>3, <1>4 DEF Slots!Kill, Leaving
<1>6. UnusedIsFree'
  BY <1>3 DEF UnusedIsFree, Used
<1> QED BY <1>5, <1>6 DEF Slots!Next

\* An Exit event takes the handle of its terminal.
LEMMA ExitStep ==
  ASSUME IInv, UnusedIsFree, NEW t \in Terminals, HandleExit(t)
  PROVE  UnusedIsFree' /\ [Slots!Next]_(Slots!vars)
<1>1. PICK received \in SUBSET EventsOf(t) :
        \/ ExitOfOther(t, received)
        \/ ExitOfRemoved(t, received)
        \/ ExitRestarts(t, received)
        \/ ExitCrashes(t, received)
  BY DEF HandleExit
<1>2. received \in SUBSET exit_events /\ {t} \in SUBSET Terminals /\ {} \in SUBSET Terminals
  BY DEF EventsOf
<1>3. Leaving' = Leaving
  BY <1>1 DEF ExitOfOther, ExitOfRemoved, ExitRestarts, ExitCrashes, deferredVars, Leaving
<1>4. CASE ExitOfOther(t, received)
  BY <1>2, <1>3, <1>4, DropStep DEF ExitOfOther
<1>5. CASE ExitOfRemoved(t, received) \/ ExitCrashes(t, received)
  <2>1. PtyUpdate({}, {}, {t}, received) /\ UNCHANGED <<owner, overlapped>>
    BY <1>5 DEF ExitOfRemoved, ExitCrashes
  <2> QED BY <1>2, <1>3, <2>1, DropStep
<1>6. CASE ExitRestarts(t, received)
  BY <1>2, <1>3, <1>6, DropStep DEF ExitRestarts
<1> QED BY <1>1, <1>4, <1>5, <1>6

\* sync_services opens a project: none of its services has an instance.
LEMMA OpenStep ==
  ASSUME IInv, Care, UnusedIsFree, NEW p \in Projects, OpenProject(p)
  PROVE  UnusedIsFree' /\ [Slots!Next]_(Slots!vars)
<1>1. Leaving' = Leaving
  BY DEF OpenProject, deferredVars, Leaving
<1>2. ASSUME NEW c \in ConfigsFor(p), NEW saved \in SUBSET c.listed,
             NEW f \in Spawns(saved \cup (c.auto_start \cap c.listed)), LoadConfig(p, c, saved, f)
      PROVE  UnusedIsFree' /\ [Slots!Next]_(Slots!vars)
  <2> DEFINE S == saved \cup (c.auto_start \cap c.listed)
  <2>1. S \subseteq Services /\ \A s \in S : ProjectOf[s] = p
    BY ConfigsAssumption DEF ConfigsFor, Config, ServicesOf
  <2>2. \A s \in S : status[s] # "running"
    BY <2>1 DEF OpenProject, IInv, PresentIsLoaded, Loaded, Present
  <2>3. Routes(f, {}) /\ PtyUpdate(Created(f), {}, {}, {})
    BY <1>2 DEF LoadConfig
  <2> HIDE DEF S
  <2> QED BY <1>1, <2>1, <2>2, <2>3, TakeStep DEF S
<1>3. CASE UNCHANGED <<routeVars, overlapped, ptyVars>>
  BY <1>1, <1>3, QuietStep DEF routeVars, ptyVars, Used
<1> QED BY <1>2, <1>3 DEF OpenProject

LEMMA SlotsStep ==
  IInv /\ Care /\ UnusedIsFree /\ [Next]_vars => UnusedIsFree' /\ [Slots!Next]_(Slots!vars)
<1> SUFFICES ASSUME IInv, Care, UnusedIsFree, [Next]_vars
             PROVE  UnusedIsFree' /\ [Slots!Next]_(Slots!vars)
  OBVIOUS
<1> DEFINE Goal == UnusedIsFree' /\ [Slots!Next]_(Slots!vars)
<1>1. ASSUME NEW p \in Projects, Unload(p) PROVE Goal
  BY <1>1, WithdrawStep DEF Unload, ServicesOf, deferredVars
<1>2. ASSUME NEW p \in Projects, ReloadServices(p) PROVE Goal
  <2>1. ASSUME NEW c \in ConfigsFor(p), ReloadConfig(p, c) PROVE Goal
    BY <2>1, WithdrawStep DEF ReloadConfig, ServicesOf, deferredVars
  <2> QED BY <1>1, <1>2, <2>1 DEF ReloadServices
<1>3. ASSUME NEW S \in SUBSET Services, Stop(S) PROVE Goal
  BY <1>3, WithdrawStep DEF Stop, deferredVars
<1>4. ASSUME NEW p \in Projects, StartAll(p) PROVE Goal
  <2> DEFINE S == {s \in ServicesOf(p) : CanStart(s)}
  <2>1. S \subseteq Services /\ \A s \in S : status[s] # "running"
    BY DEF ServicesOf, CanStart
  <2>2. PICK f \in Spawns(S) : Launch(f)
    BY <1>4 DEF StartAll
  <2>3. Leaving' = Leaving
    BY <1>4 DEF StartAll, deferredVars, Leaving
  <2> HIDE DEF S
  <2> QED BY <2>1, <2>2, <2>3, LaunchStep
<1>5. ASSUME NEW s \in Services, CanStart(s), NEW f \in Spawns({s}), Launch(f), Leaving' = Leaving
      PROVE  Goal
  BY <1>5, LaunchStep DEF CanStart
<1>6. ASSUME NEW s \in Services, StartService(s) PROVE Goal
  BY <1>5, <1>6 DEF StartService, deferredVars, Leaving
<1>7. ASSUME NEW s \in Services, CrashTimer(s) PROVE Goal
  <2>1. Leaving' = Leaving
    BY <1>7 DEF CrashTimer, Leaving
  <2>2. CASE TimerStarts(s)
    BY <1>5, <1>7, <2>1, <2>2 DEF CrashTimer, TimerStarts
  <2>3. CASE ~TimerStarts(s)
    BY <1>7, <2>1, <2>3, QuietStep DEF CrashTimer, routeVars, ptyVars, Used
  <2> QED BY <2>2, <2>3
<1>8. ASSUME NEW s \in Services, BareRestart(s) PROVE Goal
  BY <1>8, ResumeStep DEF BareRestart, Leaving
<1>9. ASSUME NEW t \in Terminals, RestartStart(t) PROVE Goal
  <2>1. owner[t] \in Services
    BY <1>9 DEF RestartStart, IInv, Shape, TakenIsOwned
  <2>2. Leaving' = Leaving
    BY <1>9 DEF RestartStart, Leaving, IInv, TypeOK
  <2> QED BY <1>9, <2>1, <2>2, ResumeStep DEF RestartStart
<1>10. CASE PtyStep
  <2>1. handles' = handles
    BY <1>10 DEF PtyStep, PtyNext, ProcessExit, ClientExit, WriterFail, Teardown
  <2>2. Used \subseteq Used'
    BY <1>10, PtyNextEffect DEF PtyStep, IInv, TypeOK
  <2> QED BY <1>10, <2>1, <2>2, QuietStep DEF PtyStep, routeVars, deferredVars, Leaving
<1>11. CASE UNCHANGED vars
  BY <1>11, QuietStep DEF vars, routeVars, deferredVars, ptyVars, Leaving, Used
<1>12. ASSUME NEW p \in Projects,
              OpenProject(p) \/ CloseProject(p) \/ ReloadServices(p) \/ StartAll(p) \/ StopAll(p)
       PROVE  Goal
  BY <1>1, <1>2, <1>3, <1>4, <1>12, OpenStep DEF CloseProject, StopAll, ServicesOf
<1>13. ASSUME NEW s \in Services,
              \/ StartService(s) \/ StopService(s) \/ RestartService(s)
              \/ BareRestart(s) \/ CrashTimer(s)
       PROVE  Goal
  BY <1>3, <1>6, <1>7, <1>8, <1>13, RestartServiceStep DEF StopService
<1>14. ASSUME NEW t \in Terminals, RestartKill(t) \/ RestartStart(t) \/ HandleExit(t)
       PROVE  Goal
  BY <1>9, <1>14, RestartKillStep, ExitStep
<1> QED BY <1>10, <1>11, <1>12, <1>13, <1>14 DEF Next

(* Whatever users, crashes, timers, reloads and late Exit events           *)
(* interleave, and with any session backend, each step gives free slots to *)
(* new terminals, takes them back, or changes no slot.                     *)
THEOREM SlotsRefinement == Spec => IsSlots
<1>1. Init => Slots!Init /\ UnusedIsFree
  BY DEF Init, PtyInit, Slots!Init, UnusedIsFree
<1>2. IInv /\ Care /\ UnusedIsFree /\ [Next]_vars => UnusedIsFree' /\ [Slots!Next]_(Slots!vars)
  BY SlotsStep
<1> QED BY <1>1, <1>2, CareIsTaken, PTL DEF Spec, IsSlots, Slots!Spec

===============================================================================
