-------------------------- MODULE ServiceManagerProofs --------------------------
(***************************************************************************)
(* Proofs about ServiceManager, for every set of services, projects,       *)
(* terminals and okena.yaml contents.                                      *)
(***************************************************************************)
EXTENDS ServiceManager, PtyManagerProofs

(***************************************************************************)
(* The inductive invariant.  A terminal belongs to one service for ever    *)
(* (owner); the instance that shows it, the routing table and the manual   *)
(* restart that took it over never disagree about which one, and an        *)
(* instance never shows what a manual restart holds.  Only loaded projects *)
(* have instances, and only known projects are loaded.                     *)
(***************************************************************************)
ShownIsOwned ==
  \A s \in Services, t \in Terminals :
    terminal_id[s] = t => owner[t] = s /\ process[t] # "none"
RoutedIsOwned ==
  \A t \in Terminals : terminal_to_service[t] \in Services =>
    owner[t] = terminal_to_service[t] /\ process[t] # "none"
TakenIsOwned ==
  \A t \in Terminals : taken[t] # "no" =>
    /\ owner[t] \in Services /\ process[t] # "none"
    /\ \A s \in Services : terminal_id[s] # t
PresentIsLoaded ==
  /\ project_paths \subseteq known
  /\ \A s \in Services : IF Present(s) THEN Loaded(s) ELSE terminal_id[s] = NoTerminal
RunningHasTerminal == \A s \in Services : status[s] = "running" => terminal_id[s] \in Terminals
CollectingHasNone ==
  \A t \in Terminals : taken[t] = "pids" /\ owner[t] \notin overlapped =>
    terminal_id[owner[t]] = NoTerminal

Shape ==
  /\ ShownIsOwned
  /\ RoutedIsOwned
  /\ TakenIsOwned
  /\ RunningHasTerminal
  /\ CollectingHasNone
  /\ RoutesAgree

IInv == TypeOK /\ PresentIsLoaded /\ Shape /\ RestartingIsPending

-------------------------------------------------------------------------------
(* Effects shared by the handlers. *)

\* The terminals created for f: unused so far, each for one service of f.
LEMMA SpawnsEffect ==
  ASSUME NEW S \in SUBSET Services, NEW f \in Spawns(S)
  PROVE  /\ Created(f) \subseteq Terminals
         /\ \A t \in Created(f) : process[t] = "none"
         /\ \A t \in Created(f) : ServiceOf(f, t) \in S /\ f[ServiceOf(f, t)] = t
         /\ \A s \in S : f[s] = NoTerminal \/ f[s] \in Created(f)
         /\ \A s \in S : f[s] \in Created(f) => ServiceOf(f, f[s]) = s
         /\ DOMAIN f = S
<1>1. /\ f \in [S -> Terminals \cup {NoTerminal}]
      /\ \A s \in S : f[s] # NoTerminal =>
           process[f[s]] = "none" /\ \A r \in S : f[r] = f[s] => r = s
  BY DEF Spawns
<1>2. Created(f) \subseteq Terminals
  BY <1>1 DEF Created
<1>3. \A t \in Created(f) : process[t] = "none"
  BY <1>1 DEF Created
<1>4. ASSUME NEW t \in Created(f)
      PROVE  ServiceOf(f, t) \in S /\ f[ServiceOf(f, t)] = t
  <2>1. \E s \in DOMAIN f : f[s] = t
    BY DEF Created
  <2> QED BY <1>1, <2>1 DEF ServiceOf
<1>5. \A s \in S : f[s] = NoTerminal \/ f[s] \in Created(f)
  BY <1>1 DEF Created
<1>6. ASSUME NEW s \in S, f[s] \in Created(f)
      PROVE  ServiceOf(f, f[s]) = s
  <2>1. f[s] # NoTerminal
    BY <1>6, <1>2, NoneAssumption
  <2> QED BY <1>1, <1>4, <1>6, <2>1
<1> QED BY <1>1, <1>2, <1>3, <1>4, <1>5, <1>6

\* A handler that creates no terminal.
LEMMA NoSpawnEffect == Created(NoSpawn) = {} /\ DOMAIN NoSpawn = {}
BY DEF Created, NoSpawn

\* Routes maps the created terminals to their services, forever in owner, and
\* unmaps the dropped ones.
LEMMA RoutesEffect ==
  ASSUME TypeOK, NEW S \in SUBSET Services, NEW f \in Spawns(S), NEW D \in SUBSET Terminals,
         Routes(f, D)
  PROVE  /\ terminal_to_service' \in [Terminals -> Services \cup {NoService}]
         /\ terminals' \subseteq Terminals
         /\ owner' \in [Terminals -> Services \cup {NoService}]
         /\ overlapped \subseteq overlapped' /\ overlapped' \subseteq Services
         /\ \A t \in Created(f) :
              terminal_to_service'[t] = ServiceOf(f, t) /\ owner'[t] = ServiceOf(f, t)
         /\ \A t \in Terminals \ Created(f) :
              /\ owner'[t] = owner[t]
              /\ terminal_to_service'[t] = IF t \in D THEN NoService ELSE terminal_to_service[t]
         /\ \A s \in S : f[s] # NoTerminal /\ CollectingPids(s) => s \in overlapped'
<1> USE SpawnsEffect
<1>1. terminal_to_service' \in [Terminals -> Services \cup {NoService}]
  BY DEF TypeOK, Routes
<1>2. terminals' \subseteq Terminals
  BY DEF TypeOK, Routes
<1>3. owner' \in [Terminals -> Services \cup {NoService}]
  BY DEF TypeOK, Routes
<1>4. overlapped \subseteq overlapped' /\ overlapped' \subseteq Services
  BY DEF TypeOK, Routes
<1>5. \A t \in Created(f) :
        terminal_to_service'[t] = ServiceOf(f, t) /\ owner'[t] = ServiceOf(f, t)
  BY DEF Routes
<1>6. \A t \in Terminals \ Created(f) :
        /\ owner'[t] = owner[t]
        /\ terminal_to_service'[t] = IF t \in D THEN NoService ELSE terminal_to_service[t]
  BY DEF Routes
<1>7. \A s \in S : f[s] # NoTerminal /\ CollectingPids(s) => s \in overlapped'
  BY DEF Routes
<1> QED BY <1>1, <1>2, <1>3, <1>4, <1>5, <1>6, <1>7

\* A deferred manual restart may only come to its end.
TakenKept ==
  /\ taken' \in [Terminals -> {"no", "pids", "waiting"}]
  /\ \A t \in Terminals : taken'[t] = taken[t] \/ (taken[t] = "waiting" /\ taken'[t] = "no")

(* Start, load, stop, reload and unload all have this form: the services of L *)
(* give up their terminals and those of S, among them, get the ones of f.     *)
LEMMA ExchangeKeepsShape ==
  ASSUME IInv, NEW L \in SUBSET Services, NEW S \in SUBSET L, NEW f \in Spawns(S),
         NEW K \in SUBSET Terminals,
         Routes(f, TerminalsOf(L)), PtyUpdate(Created(f), K, {}, {}),
         terminal_id' = [s \in Services |-> IF s \in S THEN f[s]
                                            ELSE IF s \in L THEN NoTerminal ELSE terminal_id[s]],
         \A s \in S : status'[s] = "running" => f[s] # NoTerminal,
         \A s \in Services \ S : status'[s] = "running" => s \notin L /\ status[s] = "running",
         TakenKept
  PROVE  Shape'
<1>1. TerminalsOf(L) \subseteq Terminals
  BY DEF TerminalsOf, IInv, TypeOK
<1>2. PtyTypeOK' /\ Used' = Used \cup Created(f)
  BY <1>1, PtyUpdateEffect, SpawnsEffect DEF IInv, TypeOK
<1>3. \A t \in Terminals : process[t] # "none" => t \notin Created(f) /\ process'[t] # "none"
  BY <1>2, SpawnsEffect DEF Used
<1>4. \A t \in Created(f) : process'[t] # "none"
  BY <1>2, SpawnsEffect DEF Used
<1>5. \A s \in Services : terminal_id'[s] \in Created(f) => s \in S /\ terminal_id'[s] = f[s]
  <2> TAKE s \in Services
  <2>1. CASE s \in S
    BY <2>1
  <2>2. CASE s \notin S
    <3>1. terminal_id'[s] = NoTerminal \/ terminal_id'[s] = terminal_id[s]
      BY <2>2
    <3>2. SUFFICES ASSUME terminal_id'[s] \in Created(f) PROVE FALSE
      OBVIOUS
    <3> QED BY <1>3, <3>1, <3>2, SpawnsEffect, NoneAssumption DEF IInv, Shape, ShownIsOwned
  <2> QED BY <2>1, <2>2
<1>6. \A s \in Services : terminal_id'[s] \in Terminals =>
        \/ s \in S /\ terminal_id'[s] = f[s] /\ f[s] \in Created(f)
        \/ s \notin L /\ terminal_id'[s] = terminal_id[s] /\ terminal_id[s] \notin Created(f)
  BY <1>3, SpawnsEffect, NoneAssumption DEF IInv, Shape, ShownIsOwned
<1>10. ShownIsOwned'
  <2> SUFFICES ASSUME NEW s \in Services, NEW t \in Terminals, terminal_id'[s] = t
               PROVE  owner'[t] = s /\ process'[t] # "none"
    BY DEF ShownIsOwned
  <2>1. CASE s \in S /\ t = f[s] /\ t \in Created(f)
    BY <1>4, <2>1, <1>1, RoutesEffect, SpawnsEffect DEF IInv
  <2>2. CASE t = terminal_id[s] /\ t \notin Created(f)
    BY <1>1, <1>3, <2>2, RoutesEffect DEF IInv, Shape, ShownIsOwned
  <2> QED BY <1>6, <2>1, <2>2
<1>11. RoutedIsOwned'
  <2> SUFFICES ASSUME NEW t \in Terminals, terminal_to_service'[t] \in Services
               PROVE  owner'[t] = terminal_to_service'[t] /\ process'[t] # "none"
    BY DEF RoutedIsOwned
  <2>1. CASE t \in Created(f)
    BY <1>1, <1>4, <2>1, RoutesEffect DEF IInv
  <2>2. CASE t \notin Created(f)
    BY <1>1, <1>3, <2>2, RoutesEffect, NoneAssumption DEF IInv, Shape, RoutedIsOwned
  <2> QED BY <2>1, <2>2
<1>12. TakenIsOwned'
  <2> SUFFICES ASSUME NEW t \in Terminals, taken'[t] # "no"
               PROVE  /\ owner'[t] \in Services /\ process'[t] # "none"
                      /\ \A s \in Services : terminal_id'[s] # t
    BY DEF TakenIsOwned
  <2>1. taken[t] # "no"
    BY DEF TakenKept
  <2>2. t \notin Created(f) /\ process'[t] # "none"
    BY <1>3, <2>1 DEF IInv, Shape, TakenIsOwned
  <2>3. owner'[t] \in Services
    BY <1>1, <2>1, <2>2, RoutesEffect DEF IInv, Shape, TakenIsOwned
  <2>4. \A s \in Services : terminal_id'[s] # t
    BY <1>6, <2>1, <2>2 DEF IInv, Shape, TakenIsOwned
  <2> QED BY <2>2, <2>3, <2>4
<1>13. RunningHasTerminal'
  <2> SUFFICES ASSUME NEW s \in Services, status'[s] = "running"
               PROVE  terminal_id'[s] \in Terminals
    BY DEF RunningHasTerminal
  <2>1. CASE s \in S
    BY <2>1, SpawnsEffect
  <2>2. CASE s \notin S
    BY <2>2 DEF IInv, Shape, RunningHasTerminal
  <2> QED BY <2>1, <2>2
<1>14. CollectingHasNone'
  <2> SUFFICES ASSUME NEW t \in Terminals, taken'[t] = "pids", owner'[t] \notin overlapped'
               PROVE  terminal_id'[owner'[t]] = NoTerminal
    BY DEF CollectingHasNone
  <2>1. taken[t] = "pids"
    BY DEF TakenKept
  <2>2. t \notin Created(f) /\ owner[t] \in Services
    BY <1>3, <2>1 DEF IInv, Shape, TakenIsOwned
  <2>3. owner'[t] = owner[t] /\ overlapped \subseteq overlapped'
    BY <1>1, <2>2, RoutesEffect DEF IInv
  <2>4. terminal_id[owner[t]] = NoTerminal
    BY <2>1, <2>3 DEF IInv, Shape, CollectingHasNone
  <2>5. CASE owner[t] \in S
    <3>1. CollectingPids(owner[t])
      BY <2>1 DEF CollectingPids
    <3>2. f[owner[t]] = NoTerminal
      BY <1>1, <2>3, <2>5, <3>1, RoutesEffect DEF IInv
    <3> QED BY <2>3, <2>5, <3>2
  <2>6. CASE owner[t] \notin S
    BY <2>2, <2>3, <2>4, <2>6
  <2> QED BY <2>5, <2>6
<1>15. RoutesAgree'
  <2> SUFFICES ASSUME NEW s \in Services, s \notin overlapped'
               PROVE  /\ \A t \in Terminals : terminal_to_service'[t] = s =>
                            terminal_id'[s] = t \/ (taken'[t] = "pids" /\ owner'[t] = s)
                      /\ status'[s] = "running" => terminal_to_service'[terminal_id'[s]] = s
    BY DEF RoutesAgree
  <2>1. s \notin overlapped
    BY <1>1, RoutesEffect DEF IInv
  <2>2. ASSUME NEW t \in Terminals, terminal_to_service'[t] = s
        PROVE  terminal_id'[s] = t \/ (taken'[t] = "pids" /\ owner'[t] = s)
    <3>1. CASE t \in Created(f)
      <4>1. s = ServiceOf(f, t)
        BY <1>1, <2>2, <3>1, RoutesEffect DEF IInv
      <4> QED BY <3>1, <4>1, SpawnsEffect
    <3>2. CASE t \notin Created(f)
      <4>1. /\ terminal_to_service[t] = s /\ t \notin TerminalsOf(L) /\ owner'[t] = owner[t]
        BY <1>1, <2>2, <3>2, RoutesEffect, NoneAssumption DEF IInv
      <4>2. terminal_id[s] = t \/ (taken[t] = "pids" /\ owner[t] = s)
        BY <2>1, <4>1 DEF IInv, Shape, RoutesAgree
      <4>3. CASE taken[t] = "pids" /\ owner[t] = s
        BY <4>1, <4>3 DEF TakenKept
      <4>4. CASE terminal_id[s] = t
        <5>1. s \notin L
          BY <4>1, <4>4, NoneAssumption DEF TerminalsOf
        <5> QED BY <4>4, <5>1
      <4> QED BY <4>2, <4>3, <4>4
    <3> QED BY <3>1, <3>2
  <2>3. ASSUME status'[s] = "running"
        PROVE  terminal_to_service'[terminal_id'[s]] = s
    <3>1. CASE s \in S
      <4>1. f[s] \in Created(f) /\ ServiceOf(f, f[s]) = s
        BY <2>3, <3>1, SpawnsEffect
      <4> QED BY <1>1, <3>1, <4>1, RoutesEffect DEF IInv
    <3>2. CASE s \notin S
      <4>1. /\ s \notin L /\ status[s] = "running" /\ terminal_id'[s] = terminal_id[s]
            /\ terminal_id[s] \in Terminals
        BY <2>3, <3>2 DEF IInv, Shape, RunningHasTerminal
      <4>2. terminal_to_service[terminal_id[s]] = s
        BY <2>1, <4>1 DEF IInv, Shape, RoutesAgree
      <4>3. terminal_id[s] \notin Created(f)
        BY <1>6, <4>1, <3>2
      <4>4. terminal_id[s] \notin TerminalsOf(L)
        BY <4>1 DEF TerminalsOf, IInv, Shape, ShownIsOwned
      <4> QED BY <1>1, <4>1, <4>2, <4>3, <4>4, RoutesEffect DEF IInv
    <3> QED BY <3>1, <3>2
  <2> QED BY <2>2, <2>3
<1> QED BY <1>10, <1>11, <1>12, <1>13, <1>14, <1>15 DEF Shape

(* Steps that only advance the processes or a manual restart. *)
LEMMA IdleKeepsShape ==
  ASSUME IInv, UNCHANGED <<terminal_id, terminal_to_service, owner, overlapped>>,
         \A s \in Services : status'[s] = "running" => status[s] = "running",
         Used \subseteq Used', TakenKept
  PROVE  Shape'
<1>1. \A t \in Terminals : process[t] # "none" => process'[t] # "none"
  BY DEF Used
<1>2. ShownIsOwned' /\ RoutedIsOwned'
  BY <1>1 DEF IInv, Shape, ShownIsOwned, RoutedIsOwned
<1>3. TakenIsOwned'
  BY <1>1 DEF IInv, Shape, TakenIsOwned, TakenKept
<1>4. RunningHasTerminal'
  BY DEF IInv, Shape, RunningHasTerminal
<1>5. CollectingHasNone'
  BY DEF IInv, Shape, CollectingHasNone, TakenKept
<1>6. RoutesAgree'
  BY DEF IInv, Shape, RoutesAgree, TakenKept
<1> QED BY <1>2, <1>3, <1>4, <1>5, <1>6 DEF Shape

\* Starting the services of S, none of which is running.
LEMMA LaunchEffect ==
  ASSUME IInv, NEW S \in SUBSET Services, NEW f \in Spawns(S), Launch(f), TakenKept
  PROVE  /\ Shape' /\ PtyTypeOK'
         /\ \A s \in S : status'[s] # "restarting"
         /\ \A s \in Services : status'[s] \in {status[s], "running", "crashed"}
         /\ \A s \in Services \ S : status'[s] = status[s] /\ terminal_id'[s] = terminal_id[s]
         /\ status' \in [Services -> Status]
         /\ terminal_id' \in [Services -> Terminals \cup {NoTerminal}]
         /\ terminal_to_service' \in [Terminals -> Services \cup {NoService}]
         /\ terminals' \subseteq Terminals
         /\ owner' \in [Terminals -> Services \cup {NoService}]
         /\ overlapped' \subseteq Services
         /\ \A t \in Terminals : process[t] # "none" => owner'[t] = owner[t]
<1>1. DOMAIN f = S /\ f \in [S -> Terminals \cup {NoTerminal}]
  BY SpawnsEffect DEF Spawns
<1>2. /\ status' = [s \in Services |-> IF s \in S THEN Started(f[s]) ELSE status[s]]
      /\ terminal_id' = [s \in Services |-> IF s \in S THEN f[s] ELSE terminal_id[s]]
      /\ Routes(f, TerminalsOf(S)) /\ PtyUpdate(Created(f), {}, {}, {})
  BY <1>1 DEF Launch
<1>3. TerminalsOf(S) \subseteq Terminals
  BY DEF TerminalsOf, IInv, TypeOK
<1>4. PtyTypeOK'
  BY <1>2, PtyUpdateEffect, SpawnsEffect DEF IInv, TypeOK
<1>5. \A s \in S : status'[s] = "running" => f[s] # NoTerminal
  BY <1>2 DEF Started
<1>6. Shape'
  BY <1>2, <1>5, ExchangeKeepsShape
<1>7. /\ terminal_to_service' \in [Terminals -> Services \cup {NoService}]
      /\ terminals' \subseteq Terminals
      /\ owner' \in [Terminals -> Services \cup {NoService}]
      /\ overlapped' \subseteq Services
      /\ \A t \in Terminals : process[t] # "none" => owner'[t] = owner[t]
  BY <1>2, <1>3, RoutesEffect, SpawnsEffect DEF IInv
<1>8. /\ \A s \in S : status'[s] # "restarting"
      /\ \A s \in Services : status'[s] \in {status[s], "running", "crashed"}
      /\ \A s \in Services \ S : status'[s] = status[s] /\ terminal_id'[s] = terminal_id[s]
  BY <1>2 DEF Started
<1>9. /\ status' \in [Services -> Status]
      /\ terminal_id' \in [Services -> Terminals \cup {NoTerminal}]
  BY <1>1, <1>2 DEF Started, Status, IInv, TypeOK
<1> QED BY <1>4, <1>6, <1>7, <1>8, <1>9

\* Taking their terminals from the services of S.
LEMMA WithdrawEffect ==
  ASSUME IInv, NEW S \in SUBSET Services, Withdraw(S),
         \A s \in Services : status'[s] = "running" => s \notin S /\ status[s] = "running",
         UNCHANGED taken
  PROVE  /\ Shape' /\ PtyTypeOK'
         /\ \A s \in S : terminal_id'[s] = NoTerminal
         /\ \A s \in Services \ S : terminal_id'[s] = terminal_id[s]
         /\ terminal_id' \in [Services -> Terminals \cup {NoTerminal}]
         /\ terminal_to_service' \in [Terminals -> Services \cup {NoService}]
         /\ terminals' \subseteq Terminals
         /\ owner' = owner
         /\ overlapped' \subseteq Services
<1>1. NoSpawn \in Spawns({}) /\ Created(NoSpawn) = {}
  BY NoSpawnEffect DEF NoSpawn, Spawns
<1>2. TerminalsOf(S) \subseteq Terminals
  BY DEF TerminalsOf, IInv, TypeOK
<1>3. PtyTypeOK'
  BY <1>2, PtyUpdateEffect DEF IInv, TypeOK, Withdraw
<1>4. TakenKept
  BY DEF TakenKept, IInv, TypeOK
<1>5. Shape'
  <2>1. PtyUpdate(Created(NoSpawn), TerminalsOf(S), {}, {}) /\ Routes(NoSpawn, TerminalsOf(S))
    BY <1>1 DEF Withdraw
  <2>2. terminal_id' = [s \in Services |-> IF s \in {} THEN NoSpawn[s]
                                           ELSE IF s \in S THEN NoTerminal ELSE terminal_id[s]]
    BY DEF Withdraw
  <2> QED BY <1>1, <1>2, <1>4, <2>1, <2>2, ExchangeKeepsShape
<1>6. /\ terminal_to_service' \in [Terminals -> Services \cup {NoService}]
      /\ terminals' \subseteq Terminals
      /\ owner' \in [Terminals -> Services \cup {NoService}]
      /\ overlapped' \subseteq Services
      /\ \A t \in Terminals : owner'[t] = owner[t]
  BY <1>1, <1>2, RoutesEffect DEF IInv, Withdraw
<1>7. owner' = owner
  BY <1>6 DEF IInv, TypeOK
<1>8. /\ \A s \in S : terminal_id'[s] = NoTerminal
      /\ \A s \in Services \ S : terminal_id'[s] = terminal_id[s]
      /\ terminal_id' \in [Services -> Terminals \cup {NoTerminal}]
  BY DEF Withdraw, IInv, TypeOK
<1> QED BY <1>3, <1>5, <1>6, <1>7, <1>8

-------------------------------------------------------------------------------
(* Every action preserves the inductive invariant. *)

\* The invariant holds when no project is loaded yet.
LEMMA InitIInv == Init => IInv
<1> SUFFICES ASSUME Init PROVE IInv
  OBVIOUS
<1>1. TypeOK
  BY BoundsAssumption DEF Init, PtyInit, TypeOK, PtyTypeOK, Status
<1>2. PresentIsLoaded
  BY DEF Init, PresentIsLoaded, Present
<1>3. Shape
  BY NoneAssumption DEF Init, PtyInit, Shape, ShownIsOwned, RoutedIsOwned, TakenIsOwned,
     RunningHasTerminal, CollectingHasNone, RoutesAgree
<1>4. RestartingIsPending
  BY DEF Init, RestartingIsPending
<1> QED BY <1>1, <1>2, <1>3, <1>4 DEF IInv

\* What a handler that launches the services of S leaves to prove.
LEMMA LaunchKeepsIInv ==
  ASSUME IInv, NEW S \in SUBSET Services, NEW f \in Spawns(S), Launch(f), TakenKept,
         \A s \in S : Loaded(s) /\ Present(s), UNCHANGED projectVars,
         timers' \in [Services -> Nat], bare' \in [Services -> Nat],
         \A s \in Services \ S : timers'[s] = timers[s] /\ bare'[s] = bare[s],
         \A t \in Terminals : taken'[t] = taken[t] \/ owner[t] \in S
  PROVE  IInv'
<1>1. TypeOK'
  BY LaunchEffect DEF IInv, TypeOK, TakenKept, Launch, projectVars
<1>2. PresentIsLoaded'
  <2>1. \A s \in S : Loaded(s)'
    BY DEF Loaded, projectVars
  <2> QED BY <2>1, LaunchEffect DEF IInv, PresentIsLoaded, Present, Loaded, projectVars
<1>3. Shape'
  BY LaunchEffect
<1>4. RestartingIsPending'
  <2> SUFFICES ASSUME NEW s \in Services, status'[s] = "restarting"
               PROVE  \/ timers'[s] > 0
                      \/ bare'[s] > 0
                      \/ \E t \in Terminals : taken'[t] # "no" /\ owner'[t] = s
    BY DEF RestartingIsPending
  <2>1. s \notin S /\ status[s] = "restarting"
    BY LaunchEffect
  <2>2. CASE timers[s] > 0 \/ bare[s] > 0
    BY <2>1, <2>2
  <2>3. ASSUME NEW t \in Terminals, taken[t] # "no", owner[t] = s
        PROVE  taken'[t] # "no" /\ owner'[t] = s
    BY <2>1, <2>3, LaunchEffect DEF IInv, Shape, TakenIsOwned
  <2> QED BY <2>1, <2>2, <2>3 DEF IInv, RestartingIsPending
<1> QED BY <1>1, <1>2, <1>3, <1>4 DEF IInv

\* A deferred step that finds nothing to start.
LEMMA IdleKeepsIInv ==
  ASSUME IInv, NEW r \in Services, status[r] # "restarting", TakenKept,
         UNCHANGED <<projectVars, instanceVars, routeVars, overlapped, ptyVars>>,
         timers' \in [Services -> Nat], bare' \in [Services -> Nat],
         \A s \in Services \ {r} : timers'[s] = timers[s] /\ bare'[s] = bare[s],
         \A t \in Terminals : taken'[t] = taken[t] \/ owner[t] = r
  PROVE  IInv'
<1> USE DEF projectVars, instanceVars, routeVars, ptyVars
<1>1. TypeOK'
  BY DEF IInv, TypeOK, PtyTypeOK, TakenKept
<1>2. PresentIsLoaded'
  BY DEF IInv, PresentIsLoaded, Present, Loaded
<1>3. Shape'
  BY IdleKeepsShape DEF Used
<1>4. RestartingIsPending'
  BY DEF IInv, RestartingIsPending
<1> QED BY <1>1, <1>2, <1>3, <1>4 DEF IInv

\* StartService, StartAll
LEMMA StartKeepsIInv ==
  ASSUME IInv, UNCHANGED <<projectVars, deferredVars>>,
         NEW S \in SUBSET Services, \A s \in S : Loaded(s) /\ CanStart(s),
         NEW f \in Spawns(S), Launch(f)
  PROVE  IInv'
<1>1. TakenKept
  BY DEF TakenKept, deferredVars, IInv, TypeOK
<1>2. timers' \in [Services -> Nat] /\ bare' \in [Services -> Nat]
  BY DEF deferredVars, IInv, TypeOK
<1> QED BY <1>1, <1>2, LaunchKeepsIInv DEF deferredVars, CanStart, Present

\* StopService, StopAll
LEMMA StopKeepsIInv ==
  ASSUME IInv, NEW S \in SUBSET Services, \A s \in S : Present(s), Stop(S)
  PROVE  IInv'
<1>1. \A s \in Services : status'[s] = IF s \in S THEN "stopped" ELSE status[s]
  BY DEF Stop, SetStatus
<1>2. UNCHANGED taken
  BY DEF Stop, deferredVars
<1> USE <1>1, <1>2, WithdrawEffect DEF Stop, deferredVars, projectVars
<1>3. TypeOK'
  BY BoundsAssumption DEF IInv, TypeOK, SetStatus, ResetCount, Status
<1>4. PresentIsLoaded'
  BY DEF IInv, PresentIsLoaded, Present, Loaded
<1>5. Shape'
  OBVIOUS
<1>6. RestartingIsPending'
  BY DEF IInv, RestartingIsPending
<1> QED BY <1>3, <1>4, <1>5, <1>6 DEF IInv

\* CloseProject and the reload of a project whose okena.yaml is gone.
LEMMA UnloadKeepsIInv ==
  ASSUME IInv, NEW p \in Projects, Unload(p), known' \subseteq known, known \ {p} \subseteq known'
  PROVE  IInv'
<1> DEFINE S == {s \in ServicesOf(p) : Present(s)}
<1>1. S \subseteq Services /\ \A s \in S : ProjectOf[s] = p
  BY DEF ServicesOf
<1>2. \A s \in Services : status'[s] = IF s \in S THEN "absent" ELSE status[s]
  BY DEF Unload, SetStatus
<1>3. Withdraw(S) /\ UNCHANGED taken
  BY DEF Unload, deferredVars
<1> HIDE DEF S
<1>4. /\ Shape' /\ PtyTypeOK'
      /\ \A s \in S : terminal_id'[s] = NoTerminal
      /\ \A s \in Services \ S : terminal_id'[s] = terminal_id[s]
      /\ terminal_id' \in [Services -> Terminals \cup {NoTerminal}]
      /\ terminal_to_service' \in [Terminals -> Services \cup {NoService}]
      /\ terminals' \subseteq Terminals
      /\ owner' = owner
      /\ overlapped' \subseteq Services
  BY <1>1, <1>2, <1>3, WithdrawEffect
<1>5. /\ status' \in [Services -> Status]
      /\ restart_count' \in [Services -> 0 .. MAX_RESTART_COUNT]
      /\ restart_on_crash' \subseteq Services /\ configs' \subseteq Services
      /\ project_paths' \subseteq Projects /\ known' \subseteq Projects
  BY BoundsAssumption DEF Unload, SetStatus, ResetCount, IInv, TypeOK, Status
<1>6. TypeOK'
  BY <1>4, <1>5 DEF TypeOK, IInv, Unload, deferredVars
<1>7. PresentIsLoaded'
  <2>1. project_paths' \subseteq known'
    BY DEF Unload, IInv, PresentIsLoaded
  <2>2. ASSUME NEW s \in Services
        PROVE  (IF Present(s) THEN Loaded(s) ELSE terminal_id[s] = NoTerminal)'
    <3>1. CASE s \in S
      BY <1>2, <1>4, <3>1 DEF Present
    <3>2. CASE s \notin S
      <4>1. ProjectOf[s] = p => ~Present(s)
        BY <3>2 DEF S, ServicesOf
      <4> QED BY <1>2, <1>4, <3>2, <4>1 DEF IInv, PresentIsLoaded, Present, Loaded, Unload
    <3> QED BY <3>1, <3>2
  <2> QED BY <2>1, <2>2 DEF PresentIsLoaded
<1>8. RestartingIsPending'
  BY <1>2, <1>4 DEF IInv, RestartingIsPending, Unload, deferredVars
<1> QED BY <1>4, <1>6, <1>7, <1>8 DEF IInv

\* The reload of a project whose okena.yaml is still there.
LEMMA ReloadKeepsIInv ==
  ASSUME IInv, NEW p \in project_paths, NEW c \in ConfigsFor(p), ReloadConfig(p, c)
  PROVE  IInv'
<1> DEFINE R == {s \in ServicesOf(p) : Present(s)} \ c.listed
           A == {s \in c.listed : ~Present(s)}
<1>1. /\ R \subseteq Services /\ \A s \in R : ProjectOf[s] = p
      /\ A \subseteq Services /\ \A s \in A : ProjectOf[s] = p
      /\ c.listed \subseteq Services /\ c.restart_on_crash \subseteq Services
  BY ConfigsAssumption DEF ServicesOf, ConfigsFor, Config
<1>2. \A s \in Services : status'[s] = IF s \in R THEN "absent"
                                       ELSE IF s \in A THEN "stopped" ELSE status[s]
  BY DEF ReloadConfig
<1>3. Withdraw(R) /\ UNCHANGED taken
  BY DEF ReloadConfig, deferredVars
<1>4. \A s \in A : ~Present(s) /\ s \notin R
  OBVIOUS
<1>5. R = {s \in ServicesOf(p) : Present(s)} \ c.listed
  OBVIOUS
<1>6. status' \in [Services -> Status]
  BY DEF ReloadConfig, IInv, TypeOK, Status
<1>7. /\ restart_count' \in [Services -> 0 .. MAX_RESTART_COUNT]
      /\ restart_on_crash' \subseteq Services /\ configs' \subseteq Services
  BY <1>1, BoundsAssumption DEF ReloadConfig, ResetCount, IInv, TypeOK
<1> HIDE DEF R, A
<1>8. /\ Shape' /\ PtyTypeOK'
      /\ \A s \in R : terminal_id'[s] = NoTerminal
      /\ \A s \in Services \ R : terminal_id'[s] = terminal_id[s]
      /\ terminal_id' \in [Services -> Terminals \cup {NoTerminal}]
      /\ terminal_to_service' \in [Terminals -> Services \cup {NoService}]
      /\ terminals' \subseteq Terminals
      /\ owner' = owner
      /\ overlapped' \subseteq Services
  BY <1>1, <1>2, <1>3, WithdrawEffect
<1>9. TypeOK'
  BY <1>6, <1>7, <1>8 DEF TypeOK, IInv, ReloadConfig, deferredVars
<1>10. PresentIsLoaded'
  <2>1. project_paths' \subseteq known'
    BY DEF ReloadConfig, IInv, PresentIsLoaded
  <2>2. ASSUME NEW s \in Services
        PROVE  (IF Present(s) THEN Loaded(s) ELSE terminal_id[s] = NoTerminal)'
    <3>1. CASE s \in R
      BY <1>2, <1>8, <3>1 DEF Present
    <3>2. CASE s \in A
      BY <1>1, <1>2, <1>4, <3>2 DEF Present, Loaded, ReloadConfig
    <3>3. CASE s \notin R /\ s \notin A
      BY <1>2, <1>8, <3>3 DEF IInv, PresentIsLoaded, Present, Loaded, ReloadConfig
    <3> QED BY <3>1, <3>2, <3>3
  <2> QED BY <2>1, <2>2 DEF PresentIsLoaded
<1>11. RestartingIsPending'
  BY <1>2, <1>8 DEF IInv, RestartingIsPending, ReloadConfig, deferredVars
<1> QED BY <1>8, <1>9, <1>10, <1>11 DEF IInv

\* OpenProject: with an okena.yaml, without one, with one that cannot be read.
LEMMA OpenKeepsIInv ==
  ASSUME IInv, NEW p \in Projects, OpenProject(p)
  PROVE  IInv'
<1>1. TakenKept /\ UNCHANGED deferredVars
  BY DEF TakenKept, OpenProject, deferredVars, IInv, TypeOK
<1>2. ASSUME NEW c \in ConfigsFor(p), NEW saved \in SUBSET c.listed,
             NEW f \in Spawns(saved \cup (c.auto_start \cap c.listed)), LoadConfig(p, c, saved, f)
      PROVE  IInv'
  <2> DEFINE S == saved \cup (c.auto_start \cap c.listed)
             L == c.listed
  <2>1. /\ S \subseteq L /\ L \subseteq Services /\ c.restart_on_crash \subseteq Services
        /\ \A s \in L : ProjectOf[s] = p
    BY ConfigsAssumption DEF ConfigsFor, Config, ServicesOf
  <2>2. /\ f \in Spawns(S) /\ S \subseteq Services /\ DOMAIN f = S
        /\ f \in [S -> Terminals \cup {NoTerminal}]
    BY <2>1, SpawnsEffect DEF Spawns
  <2>3. /\ status' = [s \in Services |-> IF s \in S THEN Started(f[s])
                                         ELSE IF s \in L THEN "stopped" ELSE status[s]]
        /\ terminal_id' = [s \in Services |-> IF s \in S THEN f[s]
                                              ELSE IF s \in L THEN NoTerminal ELSE terminal_id[s]]
        /\ Routes(f, {}) /\ PtyUpdate(Created(f), {}, {}, {})
    BY <1>2, <2>2 DEF LoadConfig
  <2>4. \A s \in L : ~Present(s) /\ terminal_id[s] = NoTerminal
    BY <2>1 DEF OpenProject, IInv, PresentIsLoaded, Loaded
  <2>5. restart_count' \in [Services -> 0 .. MAX_RESTART_COUNT]
    BY <1>2, BoundsAssumption DEF LoadConfig, ResetCount, IInv, TypeOK
  <2>6. restart_on_crash' \subseteq Services /\ configs' \subseteq Services
    BY <1>2, <2>1 DEF LoadConfig, IInv, TypeOK
  <2>7. known' = known \cup {p} /\ project_paths' = project_paths \cup {p}
    BY <1>2 DEF LoadConfig, OpenProject
  <2> HIDE DEF S, L
  <2>8. TerminalsOf(L) = {}
    BY <2>4 DEF TerminalsOf
  <2>9. PtyTypeOK'
    BY <2>2, <2>3, PtyUpdateEffect, SpawnsEffect DEF IInv, TypeOK
  <2>10. Shape'
    <3>1. \A s \in S : status'[s] = "running" => f[s] # NoTerminal
      BY <2>2, <2>3 DEF Started
    <3>2. \A s \in Services \ S : status'[s] = "running" => s \notin L /\ status[s] = "running"
      BY <2>3
    <3>3. Routes(f, TerminalsOf(L))
      BY <2>3, <2>8
    <3> QED BY <1>1, <2>1, <2>2, <2>3, <3>1, <3>2, <3>3, ExchangeKeepsShape
  <2>11. /\ terminal_to_service' \in [Terminals -> Services \cup {NoService}]
         /\ terminals' \subseteq Terminals
         /\ owner' \in [Terminals -> Services \cup {NoService}]
         /\ overlapped' \subseteq Services
         /\ \A t \in Terminals : process[t] # "none" => owner'[t] = owner[t]
    BY <2>2, <2>3, RoutesEffect, SpawnsEffect DEF IInv
  <2>12. /\ status' \in [Services -> Status]
         /\ terminal_id' \in [Services -> Terminals \cup {NoTerminal}]
    BY <2>2, <2>3 DEF IInv, TypeOK, Started, Status
  <2>13. TypeOK'
    BY <1>1, <2>5, <2>6, <2>7, <2>9, <2>11, <2>12 DEF IInv, TypeOK, deferredVars
  <2>14. PresentIsLoaded'
    <3>1. ASSUME NEW s \in Services
          PROVE  (IF Present(s) THEN Loaded(s) ELSE terminal_id[s] = NoTerminal)'
      <4>1. CASE s \in L
        BY <2>1, <2>2, <2>3, <2>7, <4>1 DEF Loaded, Present, Started
      <4>2. CASE s \notin L
        BY <2>1, <2>3, <2>7, <4>2 DEF Loaded, Present, IInv, PresentIsLoaded
      <4> QED BY <4>1, <4>2
    <3> QED BY <2>7, <3>1 DEF IInv, PresentIsLoaded
  <2>15. RestartingIsPending'
    <3> SUFFICES ASSUME NEW s \in Services, status'[s] = "restarting"
                 PROVE  \/ timers'[s] > 0
                        \/ bare'[s] > 0
                        \/ \E t \in Terminals : taken'[t] # "no" /\ owner'[t] = s
      BY DEF RestartingIsPending
    <3>1. status[s] = "restarting"
      BY <2>3 DEF Started
    <3>2. ASSUME NEW t \in Terminals, taken[t] # "no" PROVE owner'[t] = owner[t]
      BY <2>11, <3>2 DEF IInv, Shape, TakenIsOwned
    <3> QED BY <1>1, <3>1, <3>2 DEF IInv, RestartingIsPending, deferredVars
  <2> QED BY <2>10, <2>13, <2>14, <2>15 DEF IInv
<1>3. ASSUME project_paths' \in {project_paths, project_paths \cup {p}},
             UNCHANGED <<configs, instanceVars, routeVars, overlapped, ptyVars>>
      PROVE  IInv'
  <2> USE <1>1, <1>3 DEF instanceVars, routeVars, ptyVars, deferredVars
  <2>1. known' = known \cup {p}
    BY DEF OpenProject
  <2>2. TypeOK'
    BY <2>1 DEF IInv, TypeOK, PtyTypeOK
  <2>3. PresentIsLoaded'
    BY <2>1 DEF IInv, PresentIsLoaded, Present, Loaded
  <2>4. Shape'
    BY IdleKeepsShape DEF Used
  <2>5. RestartingIsPending'
    BY DEF IInv, RestartingIsPending
  <2> QED BY <2>2, <2>3, <2>4, <2>5 DEF IInv
<1> QED BY <1>2, <1>3 DEF OpenProject

\* RestartService: the terminal passes from the instance to the manual restart.
LEMMA RestartServiceKeepsIInv ==
  ASSUME IInv, NEW s \in Services, RestartService(s)
  PROVE  IInv'
<1> USE NoneAssumption
<1>1. /\ \A r \in Services : status'[r] = IF r = s THEN "restarting" ELSE status[r]
      /\ \A r \in Services : terminal_id'[r] = IF r = s THEN NoTerminal ELSE terminal_id[r]
      /\ \A t \in Terminals : taken'[t] = IF t = terminal_id[s] THEN "pids" ELSE taken[t]
      /\ \A r \in Services : bare'[r] >= bare[r]
      /\ terminal_id[s] = NoTerminal => bare'[s] > 0
  BY DEF RestartService, SetStatus, IInv, TypeOK
<1>2. TypeOK'
  <2>1. PtyTypeOK'
    BY DEF RestartService, IInv, TypeOK, PtyTypeOK, ptyVars
  <2>2. bare' \in [Services -> Nat] /\ taken' \in [Terminals -> {"no", "pids", "waiting"}]
    BY DEF RestartService, IInv, TypeOK
  <2>3. /\ status' \in [Services -> Status]
        /\ terminal_id' \in [Services -> Terminals \cup {NoTerminal}]
        /\ restart_count' \in [Services -> 0 .. MAX_RESTART_COUNT]
    BY BoundsAssumption DEF RestartService, SetStatus, ResetCount, IInv, TypeOK, Status
  <2> QED BY <2>1, <2>2, <2>3 DEF RestartService, IInv, TypeOK, projectVars, routeVars
<1>3. PresentIsLoaded'
  BY <1>1 DEF RestartService, IInv, PresentIsLoaded, Present, Loaded, projectVars
<1> USE DEF RestartService, routeVars, ptyVars, IInv, Shape
<1>4. ShownIsOwned' /\ RoutedIsOwned'
  BY <1>1 DEF ShownIsOwned, RoutedIsOwned
<1>5. TakenIsOwned'
  BY <1>1 DEF TakenIsOwned, ShownIsOwned
<1>6. RunningHasTerminal'
  BY <1>1 DEF RunningHasTerminal
<1>7. CollectingHasNone'
  BY <1>1 DEF CollectingHasNone, ShownIsOwned, TakenIsOwned
<1>8. RoutesAgree'
  BY <1>1 DEF RoutesAgree, ShownIsOwned
<1>9. RestartingIsPending'
  <2> SUFFICES ASSUME NEW r \in Services, status'[r] = "restarting"
               PROVE  \/ timers'[r] > 0
                      \/ bare'[r] > 0
                      \/ \E t \in Terminals : taken'[t] # "no" /\ owner'[t] = r
    BY DEF RestartingIsPending
  <2>1. CASE r = s
    BY <1>1, <2>1 DEF TypeOK, ShownIsOwned
  <2>2. CASE r # s
    <3>1. bare[r] > 0 => bare'[r] > 0
      BY <1>1, <1>2 DEF TypeOK
    <3>2. \A t \in Terminals : taken[t] # "no" => taken'[t] # "no" /\ owner'[t] = owner[t]
      BY <1>1
    <3> QED BY <1>1, <2>2, <3>1, <3>2 DEF RestartingIsPending
  <2> QED BY <2>1, <2>2
<1> QED BY <1>2, <1>3, <1>4, <1>5, <1>6, <1>7, <1>8, <1>9

\* What a step that unmaps t and creates nothing does to the routes.
LEMMA UnrouteEffect ==
  ASSUME IInv, NEW t \in Terminals, Routes(NoSpawn, {t})
  PROVE  /\ terminal_to_service' \in [Terminals -> Services \cup {NoService}]
         /\ terminals' \subseteq Terminals /\ overlapped' \subseteq Services
         /\ overlapped \subseteq overlapped'
         /\ owner' = owner
         /\ \A u \in Terminals :
              terminal_to_service'[u] = IF u = t THEN NoService ELSE terminal_to_service[u]
<1>1. NoSpawn \in Spawns({}) /\ Created(NoSpawn) = {}
  BY NoSpawnEffect DEF NoSpawn, Spawns
<1>2. \A u \in Terminals :
        /\ owner'[u] = owner[u]
        /\ terminal_to_service'[u] = IF u = t THEN NoService ELSE terminal_to_service[u]
  BY <1>1, RoutesEffect DEF IInv
<1>3. /\ terminal_to_service' \in [Terminals -> Services \cup {NoService}]
      /\ terminals' \subseteq Terminals /\ overlapped' \subseteq Services
      /\ owner' \in [Terminals -> Services \cup {NoService}]
      /\ overlapped \subseteq overlapped'
  BY <1>1, RoutesEffect DEF IInv
<1>4. owner' = owner
  BY <1>2, <1>3 DEF IInv, TypeOK
<1> QED BY <1>2, <1>3, <1>4

\* RestartKill: the manual restart kills the terminal that it holds.
LEMMA RestartKillKeepsIInv ==
  ASSUME IInv, NEW t \in Terminals, RestartKill(t)
  PROVE  IInv'
<1> USE NoneAssumption
<1>1. PtyTypeOK' /\ Used' = Used
  <2>1. PICK C \in SUBSET Terminals, K \in SUBSET Terminals, R \in SUBSET Terminals,
             V \in SUBSET exit_events : C = {} /\ PtyUpdate(C, K, R, V)
    BY DEF RestartKill
  <2>2. PtyTypeOK' /\ Used' = Used \cup {}
    BY <2>1, PtyUpdateEffect DEF IInv, TypeOK
  <2> QED BY <2>2
<1>2. /\ terminal_to_service' \in [Terminals -> Services \cup {NoService}]
      /\ terminals' \subseteq Terminals /\ overlapped' \subseteq Services
      /\ overlapped \subseteq overlapped'
      /\ owner' = owner
      /\ \A u \in Terminals :
           terminal_to_service'[u] = IF u = t THEN NoService ELSE terminal_to_service[u]
  BY UnrouteEffect DEF RestartKill
<1>3. taken[t] = "pids" /\ taken' = [taken EXCEPT ![t] = "waiting"]
  BY DEF RestartKill
<1>4. TypeOK'
  BY <1>1, <1>2, <1>3 DEF RestartKill, IInv, TypeOK, instanceVars, projectVars
<1> USE DEF RestartKill, instanceVars, projectVars, IInv, Shape
<1>5. PresentIsLoaded'
  BY DEF PresentIsLoaded, Present, Loaded
<1>6. ShownIsOwned' /\ RoutedIsOwned' /\ TakenIsOwned' /\ RunningHasTerminal'
  BY <1>1, <1>2, <1>3
     DEF ShownIsOwned, RoutedIsOwned, TakenIsOwned, RunningHasTerminal, Used, TypeOK
<1>7. CollectingHasNone'
  BY <1>2, <1>3 DEF CollectingHasNone, TypeOK
<1>8. RoutesAgree'
  BY <1>2, <1>3 DEF RoutesAgree, TakenIsOwned, RunningHasTerminal, TypeOK
<1>9. RestartingIsPending'
  BY <1>2, <1>3 DEF RestartingIsPending, TypeOK
<1> QED BY <1>4, <1>5, <1>6, <1>7, <1>8, <1>9

\* The last update of a manual restart, in either form.
LEMMA ResumeKeepsIInv ==
  ASSUME IInv, NEW s \in Services, Resume(s), TakenKept, UNCHANGED <<projectVars, timers>>,
         bare' \in [Services -> Nat], \A r \in Services \ {s} : bare'[r] = bare[r],
         \A t \in Terminals : taken'[t] = taken[t] \/ owner[t] = s
  PROVE  IInv'
<1>1. timers' \in [Services -> Nat]
  BY DEF IInv, TypeOK
<1>2. CASE status[s] = "restarting"
  <2>1. PICK f \in Spawns({s}) : Launch(f)
    BY <1>2 DEF Resume
  <2>2. Present(s) /\ Loaded(s)
    BY <1>2 DEF Present, IInv, PresentIsLoaded
  <2> QED BY <1>1, <2>1, <2>2, LaunchKeepsIInv
<1>3. CASE status[s] # "restarting"
  BY <1>1, <1>3, IdleKeepsIInv DEF Resume
<1> QED BY <1>2, <1>3

\* RestartStart: the manual restart lets its terminal go and resumes.
LEMMA RestartStartKeepsIInv ==
  ASSUME IInv, NEW t \in Terminals, RestartStart(t)
  PROVE  IInv'
<1>1. owner[t] \in Services
  BY DEF RestartStart, IInv, Shape, TakenIsOwned
<1>2. TakenKept /\ \A u \in Terminals : taken'[u] = taken[u] \/ owner[u] = owner[t]
  BY DEF TakenKept, RestartStart, IInv, TypeOK
<1> QED BY <1>1, <1>2, ResumeKeepsIInv DEF RestartStart, IInv, TypeOK

\* BareRestart: the manual restart of a service without terminal resumes.
LEMMA BareRestartKeepsIInv ==
  ASSUME IInv, NEW s \in Services, BareRestart(s)
  PROVE  IInv'
<1>1. TakenKept
  BY DEF TakenKept, BareRestart, IInv, TypeOK
<1>2. bare' \in [Services -> Nat] /\ \A r \in Services \ {s} : bare'[r] = bare[r]
  BY DEF BareRestart, IInv, TypeOK
<1> QED BY <1>1, <1>2, ResumeKeepsIInv DEF BareRestart

\* CrashTimer: the delay of an automatic restart is over.
LEMMA CrashTimerKeepsIInv ==
  ASSUME IInv, NEW s \in Services, CrashTimer(s)
  PROVE  IInv'
<1>1. TakenKept
  BY DEF TakenKept, CrashTimer, IInv, TypeOK
<1>2. /\ timers' \in [Services -> Nat] /\ bare' \in [Services -> Nat]
      /\ \A r \in Services \ {s} : timers'[r] = timers[r] /\ bare'[r] = bare[r]
  BY DEF CrashTimer, IInv, TypeOK
<1>3. CASE TimerStarts(s)
  <2>1. PICK f \in Spawns({s}) : Launch(f)
    BY <1>3 DEF CrashTimer
  <2> QED BY <1>1, <1>2, <1>3, <2>1, LaunchKeepsIInv
          DEF CrashTimer, TimerStarts, CanStart, Present
<1>4. CASE ~TimerStarts(s)
  <2>1. status[s] # "restarting"
    BY <1>4 DEF TimerStarts, CanStart, IInv, PresentIsLoaded, Present
  <2> QED BY <1>1, <1>2, <1>4, <2>1, IdleKeepsIInv DEF CrashTimer
<1> QED BY <1>3, <1>4

\* The four outcomes of an Exit event of t.
LEMMA ExitKeepsIInv ==
  ASSUME IInv, NEW t \in Terminals, HandleExit(t)
  PROVE  IInv'
<1> PICK received \in SUBSET EventsOf(t) :
       \/ ExitOfOther(t, received)
       \/ ExitOfRemoved(t, received)
       \/ ExitRestarts(t, received)
       \/ ExitCrashes(t, received)
  BY DEF HandleExit
<1>1. UNCHANGED projectVars
  BY DEF HandleExit
<1>2. PtyTypeOK' /\ Used' = Used
  <2>1. PICK K \in SUBSET Terminals : PtyUpdate({}, K, {t}, received)
    BY DEF ExitOfOther, ExitOfRemoved, ExitRestarts, ExitCrashes
  <2>2. received \subseteq exit_events /\ PtyTypeOK
    BY DEF EventsOf, IInv, TypeOK
  <2>3. PtyTypeOK' /\ Used' = Used \cup {}
    BY <2>1, <2>2, PtyUpdateEffect
  <2> QED BY <2>3
<1> USE <1>1 DEF projectVars, deferredVars
<1>3. CASE ExitOfOther(t, received)
  <2> USE <1>2, <1>3, UnrouteEffect DEF ExitOfOther, instanceVars
  <2>1. TypeOK'
    BY DEF IInv, TypeOK
  <2>2. PresentIsLoaded'
    BY DEF IInv, PresentIsLoaded, Present, Loaded
  <2>3. owner' = owner /\ \A u \in Terminals : terminal_to_service'[u] = terminal_to_service[u]
    OBVIOUS
  <2>4. ShownIsOwned' /\ RoutedIsOwned' /\ TakenIsOwned' /\ RunningHasTerminal'
    BY <2>3 DEF IInv, Shape, ShownIsOwned, RoutedIsOwned, TakenIsOwned, RunningHasTerminal, Used
  <2>5. CollectingHasNone' /\ RoutesAgree'
    BY <2>3 DEF IInv, Shape, CollectingHasNone, RoutesAgree, RunningHasTerminal
  <2>6. RestartingIsPending'
    BY DEF IInv, RestartingIsPending
  <2> QED BY <2>1, <2>2, <2>4, <2>5, <2>6 DEF IInv, Shape
<1>4. CASE ExitOfRemoved(t, received) \/ ExitCrashes(t, received)
  <2> PICK s \in Services : s = terminal_to_service[t]
    BY <1>4 DEF ExitOfRemoved, ExitCrashes
  <2>1. /\ \A u \in Terminals :
             terminal_to_service'[u] = IF u = t THEN NoService ELSE terminal_to_service[u]
        /\ terminal_to_service' \in [Terminals -> Services \cup {NoService}]
        /\ UNCHANGED <<terminal_id, owner, taken, overlapped, timers, bare, terminals>>
        /\ UNCHANGED <<restart_count, restart_on_crash>>
    BY <1>4 DEF ExitOfRemoved, ExitCrashes, Unmap, instanceVars, IInv, TypeOK
  <2>2. /\ status' \in [Services -> Status]
        /\ \A r \in Services \ {s} : status'[r] = status[r]
        /\ status'[s] \notin {"running", "restarting"}
        /\ Present(s) <=> Present(s)'
    BY <1>4, <2>1 DEF ExitOfRemoved, ExitCrashes, SetStatus, instanceVars, IInv, TypeOK,
                      Status, Present
  <2>3. TypeOK'
    BY <1>2, <2>1, <2>2 DEF IInv, TypeOK
  <2>4. PresentIsLoaded'
    BY <2>1, <2>2 DEF IInv, PresentIsLoaded, Present, Loaded
  <2>5. ShownIsOwned' /\ RoutedIsOwned' /\ TakenIsOwned' /\ RunningHasTerminal'
    BY <1>2, <2>1, <2>2, NoneAssumption
       DEF IInv, Shape, ShownIsOwned, RoutedIsOwned, TakenIsOwned, RunningHasTerminal, Used
  <2>6. CollectingHasNone'
    BY <2>1 DEF IInv, Shape, CollectingHasNone
  <2>7. RoutesAgree'
    BY <2>1, <2>2, NoneAssumption DEF IInv, Shape, RoutesAgree, RunningHasTerminal
  <2>8. RestartingIsPending'
    BY <2>1, <2>2 DEF IInv, RestartingIsPending
  <2> QED BY <2>3, <2>4, <2>5, <2>6, <2>7, <2>8 DEF IInv, Shape
<1>5. CASE ExitRestarts(t, received)
  <2> PICK s \in Services : s = terminal_to_service[t]
    BY <1>5 DEF ExitRestarts
  <2>1. /\ Present(s) /\ s \in restart_on_crash
        /\ restart_count[s] < MAX_RESTART_COUNT
        /\ \A r \in Services : status'[r] = IF r = s THEN "restarting" ELSE status[r]
        /\ status' \in [Services -> Status]
    BY <1>5 DEF ExitRestarts, SetStatus, MayAutoRestart, IInv, TypeOK, Status
  <2>2. /\ \A r \in Services : terminal_id'[r] = IF r = s THEN NoTerminal ELSE terminal_id[r]
        /\ terminal_id' \in [Services -> Terminals \cup {NoTerminal}]
    BY <1>5, <2>1 DEF ExitRestarts, IInv, TypeOK
  <2>3. /\ \A r \in Services : timers'[r] = IF r = s THEN timers[r] + 1 ELSE timers[r]
        /\ timers' \in [Services -> Nat]
    BY <1>5, <2>1 DEF ExitRestarts, IInv, TypeOK
  <2>4. restart_count' \in [Services -> 0 .. MAX_RESTART_COUNT]
    BY <1>5, <2>1, BoundsAssumption DEF ExitRestarts, IInv, TypeOK
  <2>5. /\ terminal_to_service' \in [Terminals -> Services \cup {NoService}]
        /\ terminals' \subseteq Terminals /\ overlapped' \subseteq Services
        /\ overlapped \subseteq overlapped'
        /\ owner' = owner
        /\ \A u \in Terminals :
             terminal_to_service'[u] = IF u = t THEN NoService ELSE terminal_to_service[u]
    BY <1>5, UnrouteEffect DEF ExitRestarts
  <2>6. UNCHANGED <<restart_on_crash, taken, bare>>
    BY <1>5 DEF ExitRestarts
  <2>7. owner[t] = s
    BY <2>1 DEF IInv, Shape, RoutedIsOwned
  <2>8. s \notin overlapped => terminal_id[s] = t \/ (taken[t] = "pids" /\ terminal_id[s] = NoTerminal)
    BY <2>1, <2>7 DEF IInv, Shape, RoutesAgree, CollectingHasNone
  <2>9. TypeOK'
    BY <1>2, <2>1, <2>2, <2>3, <2>4, <2>5, <2>6 DEF IInv, TypeOK
  <2>10. PresentIsLoaded'
    BY <2>1, <2>2 DEF IInv, PresentIsLoaded, Present, Loaded
  <2>11. RestartingIsPending'
    BY <2>1, <2>3, <2>5, <2>6 DEF IInv, TypeOK, RestartingIsPending
  <2>12. ShownIsOwned' /\ RoutedIsOwned' /\ TakenIsOwned' /\ RunningHasTerminal'
    BY <1>2, <2>1, <2>2, <2>5, <2>6, NoneAssumption
       DEF IInv, Shape, ShownIsOwned, RoutedIsOwned, TakenIsOwned, RunningHasTerminal, Used
  <2>13. CollectingHasNone'
    BY <2>2, <2>5, <2>6 DEF IInv, Shape, CollectingHasNone, TakenIsOwned
  <2>14. RoutesAgree'
    <3> SUFFICES ASSUME NEW r \in Services, r \notin overlapped'
                 PROVE  /\ \A u \in Terminals : terminal_to_service'[u] = r =>
                             terminal_id'[r] = u \/ (taken'[u] = "pids" /\ owner'[u] = r)
                        /\ status'[r] = "running" => terminal_to_service'[terminal_id'[r]] = r
      BY DEF RoutesAgree
    <3>1. /\ r \notin overlapped
          /\ \A u \in Terminals : terminal_to_service[u] = r =>
               terminal_id[r] = u \/ (taken[u] = "pids" /\ owner[u] = r)
          /\ status[r] = "running" => terminal_to_service[terminal_id[r]] = r
      BY <2>5 DEF IInv, Shape, RoutesAgree
    <3>2. CASE r = s
      BY <2>1, <2>2, <2>5, <2>6, <2>8, <3>1, <3>2, NoneAssumption
    <3>3. CASE r # s
      BY <2>1, <2>2, <2>5, <2>6, <3>1, <3>3, NoneAssumption
         DEF IInv, Shape, RunningHasTerminal
    <3> QED BY <3>2, <3>3
  <2> QED BY <2>9, <2>10, <2>11, <2>12, <2>13, <2>14 DEF IInv, Shape
<1> QED BY <1>3, <1>4, <1>5

\* PtyStep: processes, threads and workers on their own.
LEMMA PtyStepKeepsIInv == IInv /\ PtyStep => IInv'
<1> SUFFICES ASSUME IInv, PtyStep PROVE IInv'
  OBVIOUS
<1> USE DEF PtyStep, projectVars, instanceVars, routeVars, deferredVars
<1>1. PtyTypeOK' /\ Used \subseteq Used'
  BY PtyNextEffect DEF IInv, TypeOK
<1>2. TypeOK'
  BY <1>1 DEF IInv, TypeOK
<1>3. PresentIsLoaded' /\ RestartingIsPending'
  BY DEF IInv, PresentIsLoaded, Present, Loaded, RestartingIsPending
<1>4. Shape'
  BY <1>1, IdleKeepsShape DEF TakenKept, IInv, TypeOK
<1> QED BY <1>2, <1>3, <1>4 DEF IInv

\* Every step, action by action.
LEMMA NextKeepsIInv == IInv /\ [Next]_vars => IInv'
<1> SUFFICES ASSUME IInv, [Next]_vars PROVE IInv'
  OBVIOUS
<1>1. ASSUME NEW p \in Projects, OpenProject(p) PROVE IInv'
  BY <1>1, OpenKeepsIInv
<1>2. ASSUME NEW p \in Projects, CloseProject(p) PROVE IInv'
  BY <1>2, UnloadKeepsIInv DEF CloseProject
<1>3. ASSUME NEW p \in Projects, ReloadServices(p) PROVE IInv'
  <2>1. p \in project_paths
    BY <1>3 DEF ReloadServices
  <2>2. CASE \E c \in ConfigsFor(p) : ReloadConfig(p, c)
    BY <2>1, <2>2, ReloadKeepsIInv
  <2>3. CASE Unload(p) /\ UNCHANGED known
    BY <2>3, UnloadKeepsIInv
  <2> QED BY <1>3, <2>2, <2>3 DEF ReloadServices
<1>4. ASSUME NEW p \in Projects, StartAll(p) PROVE IInv'
  <2> DEFINE S == {s \in ServicesOf(p) : CanStart(s)}
  <2>1. S \subseteq Services /\ \A s \in S : Loaded(s) /\ CanStart(s)
    BY <1>4 DEF StartAll, ServicesOf, Loaded
  <2>2. PICK f \in Spawns(S) : Launch(f)
    BY <1>4 DEF StartAll
  <2>3. UNCHANGED <<projectVars, deferredVars>>
    BY <1>4 DEF StartAll
  <2> HIDE DEF S
  <2> QED BY <2>1, <2>2, <2>3, StartKeepsIInv
<1>5. ASSUME NEW p \in Projects, StopAll(p) PROVE IInv'
  <2>1. PICK S \in SUBSET Services : Stop(S) /\ \A s \in S : Present(s)
    BY <1>5 DEF StopAll, ServicesOf
  <2> QED BY <2>1, StopKeepsIInv
<1>6. ASSUME NEW s \in Services, StartService(s) PROVE IInv'
  <2>1. PICK f \in Spawns({s}) : Launch(f)
    BY <1>6 DEF StartService
  <2> QED BY <1>6, <2>1, StartKeepsIInv DEF StartService
<1>7. ASSUME NEW s \in Services, StopService(s) PROVE IInv'
  BY <1>7, StopKeepsIInv DEF StopService
<1>8. ASSUME NEW s \in Services, RestartService(s) PROVE IInv'
  BY <1>8, RestartServiceKeepsIInv
<1>9. ASSUME NEW s \in Services, BareRestart(s) PROVE IInv'
  BY <1>9, BareRestartKeepsIInv
<1>10. ASSUME NEW s \in Services, CrashTimer(s) PROVE IInv'
  BY <1>10, CrashTimerKeepsIInv
<1>11. ASSUME NEW t \in Terminals, RestartKill(t) PROVE IInv'
  BY <1>11, RestartKillKeepsIInv
<1>12. ASSUME NEW t \in Terminals, RestartStart(t) PROVE IInv'
  BY <1>12, RestartStartKeepsIInv
<1>13. ASSUME NEW t \in Terminals, HandleExit(t) PROVE IInv'
  BY <1>13, ExitKeepsIInv
<1>14. CASE PtyStep
  BY <1>14, PtyStepKeepsIInv
<1>15. CASE UNCHANGED vars
  <2> USE <1>15 DEF vars, projectVars, instanceVars, routeVars, deferredVars, ptyVars
  <2>1. TypeOK'
    BY DEF IInv, TypeOK, PtyTypeOK
  <2>2. PresentIsLoaded' /\ RestartingIsPending'
    BY DEF IInv, PresentIsLoaded, Present, Loaded, RestartingIsPending
  <2>3. Shape'
    BY IdleKeepsShape DEF TakenKept, IInv, TypeOK, Used
  <2> QED BY <2>1, <2>2, <2>3 DEF IInv
<1> QED BY <1>1, <1>2, <1>3, <1>4, <1>5, <1>6, <1>7, <1>8, <1>9, <1>10, <1>11, <1>12, <1>13,
           <1>14, <1>15 DEF Next

\* The ownership of terminals, the routing table, the instances and the pending
\* restarts never disagree, whatever the handlers and the deferred steps do.
THEOREM InductiveInvariant == Spec => []IInv
BY InitIInv, NextKeepsIInv, PTL DEF Spec

\* The variables keep their types, whatever the services, projects and terminals.
THEOREM TypeCorrect == Spec => []TypeOK
<1>1. IInv => TypeOK
  BY DEF IInv
<1> QED BY <1>1, InductiveInvariant, PTL

\* A service shown as Restarting always has a timer or a manual restart pending
\* that will resume it (handle_service_exit, restart_service).
THEOREM RestartingPends == Spec => []RestartingIsPending
<1>1. IInv => RestartingIsPending
  BY DEF IInv
<1> QED BY <1>1, InductiveInvariant, PTL

\* Exit events are routed to a service only for the terminal it shows or a manual
\* restart is about to kill, and those of a running service always are.
THEOREM RoutesStayRight == Spec => []RoutesAgree
<1>1. IInv => RoutesAgree
  BY DEF IInv, Shape
<1> QED BY <1>1, InductiveInvariant, PTL

-------------------------------------------------------------------------------
(* A running service keeps its terminal until it leaves Running. *)

RunningKeeps ==
  \A s \in Services : status[s] = "running" /\ status'[s] = "running" =>
    terminal_id'[s] = terminal_id[s]

\* Starting services none of which is running.
LEMMA LaunchSparesRunning ==
  ASSUME IInv, NEW S \in SUBSET Services, NEW f \in Spawns(S), Launch(f),
         \A s \in S : CanStart(s)
  PROVE  RunningKeeps
<1>1. DOMAIN f = S
  BY SpawnsEffect
<1> QED BY <1>1 DEF Launch, RunningKeeps, CanStart

\* The last update of a manual restart starts a Restarting service only.
LEMMA ResumeSparesRunning ==
  ASSUME IInv, NEW s \in Services, Resume(s)
  PROVE  RunningKeeps
<1>1. CASE status[s] = "restarting"
  <2>1. PICK f \in Spawns({s}) : Launch(f)
    BY <1>1 DEF Resume
  <2> QED BY <1>1, <2>1, LaunchSparesRunning DEF CanStart
<1>2. CASE status[s] # "restarting"
  BY <1>2 DEF Resume, RunningKeeps, instanceVars
<1> QED BY <1>1, <1>2

\* Services that give up their terminals do not stay running.
LEMMA WithdrawSparesRunning ==
  ASSUME NEW S \in SUBSET Services, Withdraw(S), \A s \in S : status'[s] # "running"
  PROVE  RunningKeeps
BY DEF Withdraw, RunningKeeps

\* A project is loaded when it has no instances: no running service is touched.
LEMMA OpenSparesRunning ==
  ASSUME IInv, NEW p \in Projects, OpenProject(p)
  PROVE  RunningKeeps
<1>1. \A s \in Services : status[s] = "running" => ProjectOf[s] # p
  BY DEF OpenProject, IInv, PresentIsLoaded, Present, Loaded
<1>2. ASSUME NEW c \in ConfigsFor(p), NEW saved \in SUBSET c.listed,
             NEW f \in Spawns(saved \cup (c.auto_start \cap c.listed)), LoadConfig(p, c, saved, f)
      PROVE  RunningKeeps
  <2>1. c.listed \subseteq ServicesOf(p)
    BY DEF ConfigsFor
  <2>2. saved \cup (c.auto_start \cap c.listed) \subseteq c.listed
    OBVIOUS
  <2>3. DOMAIN f = saved \cup (c.auto_start \cap c.listed)
    BY DEF Spawns
  <2> QED BY <1>1, <1>2, <2>1, <2>2, <2>3 DEF LoadConfig, RunningKeeps, ServicesOf
<1>3. CASE UNCHANGED instanceVars
  BY <1>3 DEF RunningKeeps, instanceVars
<1> QED BY <1>2, <1>3 DEF OpenProject

\* A reload withdraws only the services that it removes.
LEMMA ReloadSparesRunning ==
  ASSUME IInv, NEW p \in Projects, ReloadServices(p)
  PROVE  RunningKeeps
<1>1. ASSUME NEW c \in ConfigsFor(p), ReloadConfig(p, c) PROVE RunningKeeps
  <2> DEFINE R == {s \in ServicesOf(p) : Present(s)} \ c.listed
  <2>1. R \subseteq Services /\ Withdraw(R) /\ \A s \in R : status'[s] # "running"
    BY <1>1 DEF ReloadConfig, ServicesOf
  <2> QED BY <2>1, WithdrawSparesRunning
<1>2. CASE Unload(p)
  <2> DEFINE S == {s \in ServicesOf(p) : Present(s)}
  <2>1. S \subseteq Services /\ Withdraw(S) /\ \A s \in S : status'[s] # "running"
    BY <1>2 DEF Unload, ServicesOf, SetStatus
  <2> QED BY <2>1, WithdrawSparesRunning
<1> QED BY <1>1, <1>2 DEF ReloadServices

\* A stopped service is not running.
LEMMA StopSparesRunning ==
  ASSUME NEW S \in SUBSET Services, Stop(S)
  PROVE  RunningKeeps
<1>1. \A s \in S : status'[s] # "running"
  BY DEF Stop, SetStatus
<1> QED BY <1>1, WithdrawSparesRunning DEF Stop

\* An Exit event restarts or crashes the service that it is routed to.
LEMMA ExitSparesRunning ==
  ASSUME IInv, NEW t \in Terminals, HandleExit(t)
  PROVE  RunningKeeps
<1> PICK received \in SUBSET EventsOf(t) :
       \/ ExitOfOther(t, received)
       \/ ExitOfRemoved(t, received)
       \/ ExitRestarts(t, received)
       \/ ExitCrashes(t, received)
  BY DEF HandleExit
<1>1. CASE ExitOfOther(t, received) \/ ExitOfRemoved(t, received) \/ ExitCrashes(t, received)
  BY <1>1 DEF ExitOfOther, ExitOfRemoved, ExitCrashes, instanceVars, RunningKeeps
<1>2. CASE ExitRestarts(t, received)
  BY <1>2 DEF ExitRestarts, SetStatus, RunningKeeps, IInv, TypeOK
<1> QED BY <1>1, <1>2

\* Start, start all, reload, both deferred restarts and Exit events leave a running
\* service alone or end it.
LEMMA NextSparesRunning ==
  ASSUME IInv, Next
  PROVE  RunningKeeps
<1>1. ASSUME NEW p \in Projects,
             OpenProject(p) \/ CloseProject(p) \/ ReloadServices(p) \/ StartAll(p) \/ StopAll(p)
      PROVE  RunningKeeps
  <2>1. CASE OpenProject(p)
    BY <2>1, OpenSparesRunning
  <2>2. CASE CloseProject(p)
    <3> DEFINE S == {s \in ServicesOf(p) : Present(s)}
    <3>1. S \subseteq Services /\ Withdraw(S) /\ \A s \in S : status'[s] # "running"
      BY <2>2 DEF CloseProject, Unload, ServicesOf, SetStatus
    <3> QED BY <3>1, WithdrawSparesRunning
  <2>3. CASE ReloadServices(p)
    BY <2>3, ReloadSparesRunning
  <2>4. CASE StartAll(p)
    <3> DEFINE S == {s \in ServicesOf(p) : CanStart(s)}
    <3>1. PICK f \in Spawns(S) : Launch(f)
      BY <2>4 DEF StartAll
    <3>2. S \subseteq Services /\ \A s \in S : CanStart(s)
      BY DEF ServicesOf
    <3> HIDE DEF S
    <3> QED BY <3>1, <3>2, LaunchSparesRunning
  <2>5. CASE StopAll(p)
    <3>1. PICK S \in SUBSET Services : Stop(S)
      BY <2>5 DEF StopAll, ServicesOf
    <3> QED BY <3>1, StopSparesRunning
  <2> QED BY <1>1, <2>1, <2>2, <2>3, <2>4, <2>5
<1>2. ASSUME NEW s \in Services,
             \/ StartService(s) \/ StopService(s) \/ RestartService(s)
             \/ BareRestart(s) \/ CrashTimer(s)
      PROVE  RunningKeeps
  <2>1. CASE StartService(s)
    <3>1. PICK f \in Spawns({s}) : Launch(f)
      BY <2>1 DEF StartService
    <3> QED BY <2>1, <3>1, LaunchSparesRunning DEF StartService
  <2>2. CASE StopService(s)
    BY <2>2, StopSparesRunning DEF StopService
  <2>3. CASE RestartService(s)
    BY <2>3 DEF RestartService, SetStatus, RunningKeeps, IInv, TypeOK
  <2>4. CASE BareRestart(s)
    BY <2>4, ResumeSparesRunning DEF BareRestart
  <2>5. CASE CrashTimer(s)
    <3>1. CASE TimerStarts(s)
      <4>1. PICK f \in Spawns({s}) : Launch(f)
        BY <2>5, <3>1 DEF CrashTimer
      <4> QED BY <3>1, <4>1, LaunchSparesRunning DEF TimerStarts
    <3>2. CASE ~TimerStarts(s)
      BY <2>5, <3>2 DEF CrashTimer, RunningKeeps, instanceVars
    <3> QED BY <3>1, <3>2
  <2> QED BY <1>2, <2>1, <2>2, <2>3, <2>4, <2>5
<1>3. ASSUME NEW t \in Terminals, RestartKill(t) \/ RestartStart(t) \/ HandleExit(t)
      PROVE  RunningKeeps
  <2>1. CASE RestartKill(t)
    BY <2>1 DEF RestartKill, RunningKeeps, instanceVars
  <2>2. CASE RestartStart(t)
    <3>1. owner[t] \in Services
      BY <2>2 DEF RestartStart, IInv, Shape, TakenIsOwned
    <3> QED BY <2>2, <3>1, ResumeSparesRunning DEF RestartStart
  <2>3. CASE HandleExit(t)
    BY <2>3, ExitSparesRunning
  <2> QED BY <1>3, <2>1, <2>2, <2>3
<1>4. CASE PtyStep
  BY <1>4 DEF PtyStep, RunningKeeps, instanceVars
<1> QED BY <1>1, <1>2, <1>3, <1>4 DEF Next

\* No step gives a running service another terminal.
THEOREM RunningIsKept == Spec => RunningKeepsProcess
<1>1. IInv /\ [Next]_vars => [RunningKeeps]_vars
  BY NextSparesRunning
<1>2. Spec => [][RunningKeeps]_vars
  BY <1>1, InductiveInvariant, PTL DEF Spec
<1> QED BY <1>2 DEF RunningKeepsProcess, RunningKeeps
===============================================================================
