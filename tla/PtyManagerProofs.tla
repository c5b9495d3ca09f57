--------------------------- MODULE PtyManagerProofs ---------------------------
(***************************************************************************)
(* Lemmas about PtyManager, for the proofs of the components that use it:  *)
(* the types, that an id once used is never unused again, that a terminal  *)
(* that is being ended stays so until its process is dead, and that the    *)
(* end of a terminal with a handle cannot go unheard.                      *)
(***************************************************************************)
EXTENDS PtyManager, TLAPS

Used == {t \in Terminals : process[t] # "none"}

\* PtyUpdate keeps the types of the PTY variables and uses exactly the created ids.
LEMMA PtyUpdateEffect ==
  ASSUME PtyTypeOK, NEW C \in SUBSET Terminals, NEW K \in SUBSET Terminals,
         NEW R \in SUBSET Terminals, NEW V \in SUBSET exit_events, PtyUpdate(C, K, R, V)
  PROVE  PtyTypeOK' /\ Used' = Used \cup C
<1>1. process' \in [Terminals -> {"none", "alive", "dead"}]
  BY DEF PtyTypeOK, PtyUpdate
<1>2. handles' \subseteq Terminals /\ readers' \subseteq Terminals /\ broken' \subseteq Terminals
  BY DEF PtyTypeOK, PtyUpdate
<1>3. KillJobs(K) \cup ReapJobs(R) \subseteq Terminals \X JobKind
  BY DEF KillJobs, ReapJobs, Unended, JobKind
<1>4. teardown' \subseteq Terminals \X JobKind /\ exit_events' \subseteq ExitEvent
  BY <1>3 DEF PtyTypeOK, PtyUpdate
<1>5. Used' = Used \cup C
  BY DEF Used, PtyUpdate, PtyTypeOK
<1> QED BY <1>1, <1>2, <1>4, <1>5 DEF PtyTypeOK

\* So do the steps that the reader keeps the types of.
LEMMA ReaderEndsType ==
  ASSUME PtyTypeOK, NEW t \in Terminals, NEW c \in ExitCode, NEW b, ReaderEnds(t, c, b)
  PROVE  readers' \subseteq Terminals /\ exit_events' \subseteq ExitEvent
BY DEF PtyTypeOK, ReaderEnds, ExitEvent

\* The steps of processes, threads and workers keep the types and use no id.
LEMMA PtyNextEffect ==
  ASSUME PtyTypeOK, PtyNext
  PROVE  PtyTypeOK' /\ Used \subseteq Used'
<1> PICK t \in Terminals :
       \/ \E code \in Codes : ProcessExit(t, code)
       \/ ClientExit(t)
       \/ WriterFail(t)
       \/ \E kind \in JobKind : Teardown(t, kind)
  BY DEF PtyNext
<1>1. ASSUME NEW code \in Codes, ProcessExit(t, code)
      PROVE  PtyTypeOK' /\ Used \subseteq Used'
  <2>1. code \in ExitCode
    BY CodesAssumption
  <2>2. readers' \subseteq Terminals /\ exit_events' \subseteq ExitEvent
    BY <1>1, <2>1, ReaderEndsType DEF ProcessExit
  <2> QED BY <1>1, <2>2 DEF PtyTypeOK, ProcessExit, Used
<1>2. ASSUME ClientExit(t)
      PROVE  PtyTypeOK' /\ Used \subseteq Used'
  <2>1. readers' \subseteq Terminals /\ exit_events' \subseteq ExitEvent
    BY <1>2, ReaderEndsType DEF ClientExit, ExitCode
  <2> QED BY <1>2, <2>1 DEF PtyTypeOK, ClientExit, Used
<1>3. ASSUME WriterFail(t)
      PROVE  PtyTypeOK' /\ Used \subseteq Used'
  BY <1>3 DEF PtyTypeOK, WriterFail, Used, ExitEvent, ExitCode
<1>4. ASSUME NEW kind \in JobKind, Teardown(t, kind)
      PROVE  PtyTypeOK' /\ Used \subseteq Used'
  <2>1. readers' \subseteq Terminals /\ exit_events' \subseteq ExitEvent
    BY <1>4, ReaderEndsType DEF Teardown, ExitCode
  <2> QED BY <1>4, <2>1 DEF PtyTypeOK, Teardown, Used
<1> QED BY <1>1, <1>2, <1>3, <1>4

\* PtyUpdate makes only the created terminals alive, ends nothing at once, and every
\* live process it kills is being ended from then on.
LEMMA PtyUpdateEnds ==
  ASSUME PtyTypeOK, NEW C \in SUBSET Terminals, NEW K \in SUBSET Terminals,
         NEW R \in SUBSET Terminals, NEW V \in SUBSET exit_events, PtyUpdate(C, K, R, V),
         NEW t \in Terminals
  PROVE  /\ Alive(t)' => t \in C \/ Alive(t)
         /\ BeingEnded(t) => BeingEnded(t)'
         /\ t \in K /\ Alive(t) => BeingEnded(t)'
<1>1. Alive(t)' => t \in C \/ Alive(t)
  BY DEF Alive, PtyUpdate
<1>2. BeingEnded(t) => BeingEnded(t)'
  BY DEF BeingEnded, PtyUpdate
<1>3. ASSUME t \in K, Alive(t)
      PROVE  BeingEnded(t)'
  <2>1. <<t, "kill">> \in KillJobs(K)
    BY <1>3 DEF KillJobs, Unended, Ended, Alive
  <2>2. <<t, "kill">> \in teardown' /\ "kill" \in JobKind /\ EndsProcess("kill")
    BY <2>1 DEF PtyUpdate, JobKind, EndsProcess
  <2> QED BY <2>2 DEF BeingEnded
<1> QED BY <1>1, <1>2, <1>3

\* No process comes back to life, and the job that will end one is not lost.
LEMMA PtyNextEnds ==
  ASSUME PtyTypeOK, PtyNext, NEW t \in Terminals
  PROVE  /\ Alive(t)' => Alive(t)
         /\ Alive(t)' /\ BeingEnded(t) => BeingEnded(t)'
<1> PICK u \in Terminals :
       \/ \E code \in Codes : ProcessExit(u, code)
       \/ ClientExit(u)
       \/ WriterFail(u)
       \/ \E kind \in JobKind : Teardown(u, kind)
  BY DEF PtyNext
<1>1. CASE \E code \in Codes : ProcessExit(u, code)
  BY <1>1 DEF ProcessExit, Alive, BeingEnded, PtyTypeOK
<1>2. CASE ClientExit(u) \/ WriterFail(u)
  BY <1>2 DEF ClientExit, WriterFail, Alive, BeingEnded
<1>3. ASSUME NEW kind \in JobKind, Teardown(u, kind)
      PROVE  /\ Alive(t)' => Alive(t)
             /\ Alive(t)' /\ BeingEnded(t) => BeingEnded(t)'
  <2>1. Alive(t)' => Alive(t)
    BY <1>3 DEF Teardown, Alive, PtyTypeOK
  <2>2. ASSUME Alive(t)', NEW k \in JobKind, <<t, k>> \in teardown, EndsProcess(k)
        PROVE  <<t, k>> \in teardown'
    <3>1. u = t => k # kind
      BY <1>3, <2>2 DEF Teardown, Alive, PtyTypeOK
    <3> QED BY <1>3, <2>2, <3>1 DEF Teardown
  <2> QED BY <2>1, <2>2 DEF BeingEnded
<1> QED BY <1>1, <1>2, <1>3

-------------------------------------------------------------------------------
(* What a terminal needs to report its end.  Nothing is under way for an   *)
(* unused one; a heard one has its reader at work or an Exit event on its  *)
(* way, and no job is queued that could silence it; the handle goes in the *)
(* step that queues a job, so a terminal with a handle is heard.           *)

UnusedIsIdle ==
  \A t \in Terminals : process[t] = "none" =>
    /\ t \notin handles \cup readers \cup broken
    /\ EventsOf(t) = {}
    /\ \A kind \in JobKind : <<t, kind>> \notin teardown

Heard(t) ==
  /\ (Alive(t) /\ t \in readers) \/ EventsOf(t) # {}
  /\ t \in broken => EventsOf(t) # {}
  /\ \A kind \in JobKind : <<t, kind>> \notin teardown

LiveIsHandled == \A t \in Terminals : Alive(t) => t \in handles \/ BeingEnded(t)

HandledIsHeard == \A t \in handles : Heard(t)

\* PtyUpdate touches only the terminals that it is given; a created one is heard.
LEMMA PtyUpdateFrame ==
  ASSUME PtyTypeOK, UnusedIsIdle, NEW C \in SUBSET Terminals, NEW K \in SUBSET Terminals,
         NEW R \in SUBSET Terminals, NEW V \in SUBSET exit_events, PtyUpdate(C, K, R, V),
         C \cap Used = {}, K \cup R \subseteq Used
  PROVE  /\ UnusedIsIdle'
         /\ \A t \in C : Heard(t)'
         /\ \A t \in Terminals \ (C \cup K \cup R) :
              Heard(t) /\ EventsOf(t) \cap V = {} => Heard(t)'
<1> USE DEF PtyTypeOK
<1>1. \A t \in Terminals : EventsOf(t)' = EventsOf(t) \ V
  BY DEF PtyUpdate, EventsOf
<1>2. \A t \in Terminals, kind \in JobKind :
        t \notin K \cup R => (<<t, kind>> \in teardown' <=> <<t, kind>> \in teardown)
  BY DEF PtyUpdate, KillJobs, ReapJobs, Unended
<1>3. \A t \in Terminals :
        /\ process'[t] = IF t \in C THEN "alive" ELSE process[t]
        /\ t \in readers' <=> t \in readers \cup C
        /\ t \in broken' => t \in broken
        /\ t \in handles' => t \in handles \cup C
  BY DEF PtyUpdate
<1>4. UnusedIsIdle'
  <2> SUFFICES ASSUME NEW t \in Terminals, process'[t] = "none"
               PROVE  /\ t \notin handles' \cup readers' \cup broken'
                      /\ EventsOf(t)' = {}
                      /\ \A kind \in JobKind : <<t, kind>> \notin teardown'
    BY DEF UnusedIsIdle
  <2>1. t \notin C /\ process[t] = "none" /\ t \notin K \cup R
    BY <1>3 DEF Used
  <2> QED BY <1>1, <1>2, <1>3, <2>1 DEF UnusedIsIdle
<1>5. ASSUME NEW t \in C PROVE Heard(t)'
  <2>1. process[t] = "none" /\ t \notin K \cup R
    BY DEF Used
  <2> QED BY <1>1, <1>2, <1>3, <2>1 DEF UnusedIsIdle, Heard, Alive
<1>6. ASSUME NEW t \in Terminals \ (C \cup K \cup R), Heard(t), EventsOf(t) \cap V = {}
      PROVE  Heard(t)'
  BY <1>1, <1>2, <1>3, <1>6 DEF Heard, Alive
<1> QED BY <1>4, <1>5, <1>6

\* Without a session backend, killing and reaping end every live process that they
\* are given, and a live process keeps its handle until then.
LEMMA PtyUpdatePlain ==
  ASSUME PtyTypeOK, ~Sessions, LiveIsHandled,
         NEW C \in SUBSET Terminals, NEW K \in SUBSET Terminals,
         NEW R \in SUBSET Terminals, NEW V \in SUBSET exit_events, PtyUpdate(C, K, R, V),
         C \cap (K \cup R) = {}
  PROVE  /\ LiveIsHandled'
         /\ \A t \in K \cup R : Alive(t) => BeingEnded(t)'
<1>1. ASSUME NEW t \in R, Alive(t) PROVE BeingEnded(t)'
  <2>1. CASE t \in handles
    <3>1. <<t, "reap">> \in ReapJobs(R)
      BY <1>1, <2>1 DEF ReapJobs, Unended, Ended, Alive
    <3> QED BY <3>1 DEF PtyUpdate, BeingEnded, EndsProcess, JobKind
  <2>2. CASE BeingEnded(t)
    BY <2>2, PtyUpdateEnds
  <2> QED BY <1>1, <2>1, <2>2 DEF LiveIsHandled
<1>2. \A t \in K \cup R : Alive(t) => BeingEnded(t)'
  BY <1>1, PtyUpdateEnds
<1>3. ASSUME NEW t \in Terminals, Alive(t)', t \notin K \cup R
      PROVE  t \in handles' \/ BeingEnded(t)'
  <2>1. CASE t \in C
    BY <2>1 DEF PtyUpdate
  <2>2. CASE t \notin C
    <3>1. Alive(t)
      BY <1>3, <2>2, PtyUpdateEnds
    <3>2. t \in handles => t \in handles'
      BY <1>3 DEF PtyUpdate
    <3> QED BY <3>1, <3>2, PtyUpdateEnds DEF LiveIsHandled
  <2> QED BY <2>1, <2>2
<1>4. ASSUME NEW t \in K \cup R, Alive(t)' PROVE BeingEnded(t)'
  BY <1>2, <1>4, PtyUpdateEnds
<1> QED BY <1>2, <1>3, <1>4 DEF LiveIsHandled

\* A terminal that is heard stays so whatever the processes, threads and workers do.
LEMMA PtyNextHeard ==
  ASSUME PtyTypeOK, UnusedIsIdle, PtyNext
  PROVE  /\ UnusedIsIdle'
         /\ \A t \in Terminals : Heard(t) => Heard(t)'
         /\ ~Sessions /\ LiveIsHandled => LiveIsHandled'
<1> USE DEF PtyTypeOK
<1> PICK u \in Terminals :
       \/ \E code \in Codes : ProcessExit(u, code)
       \/ ClientExit(u)
       \/ WriterFail(u)
       \/ \E kind \in JobKind : Teardown(u, kind)
  BY DEF PtyNext
<1>1. ASSUME exit_events \subseteq exit_events', \A e \in exit_events' \ exit_events : e[1] = u,
             u \in readers \/ exit_events' = exit_events
      PROVE  /\ \A t \in Terminals : EventsOf(t) \subseteq EventsOf(t)'
             /\ \A t \in Terminals \ {u} : EventsOf(t)' = EventsOf(t)
             /\ u \notin readers => EventsOf(u)' = EventsOf(u)
  BY <1>1 DEF EventsOf
<1>2. ASSUME NEW code \in Codes, ProcessExit(u, code)
      PROVE  /\ UnusedIsIdle'
             /\ \A t \in Terminals : Heard(t) => Heard(t)'
             /\ ~Sessions /\ LiveIsHandled => LiveIsHandled'
  <2>1. /\ readers' = readers \ {u}
        /\ \A t \in Terminals : EventsOf(t) \subseteq EventsOf(t)'
        /\ \A t \in Terminals \ {u} : EventsOf(t)' = EventsOf(t)
        /\ u \in readers /\ u \notin broken => EventsOf(u)' # {}
    <3>1. /\ exit_events \subseteq exit_events' /\ \A e \in exit_events' \ exit_events : e[1] = u
          /\ u \in readers \/ exit_events' = exit_events
          /\ readers' = readers \ {u}
          /\ u \in readers /\ u \notin broken => <<u, "reader", code>> \in exit_events'
      BY <1>2 DEF ProcessExit, ReaderEnds
    <3>2. u \in readers /\ u \notin broken => EventsOf(u)' # {}
      BY <3>1 DEF EventsOf
    <3> QED BY <1>1, <3>1, <3>2
  <2>2. /\ UNCHANGED <<handles, broken, teardown>> /\ Alive(u)
        /\ \A t \in Terminals : process'[t] = IF t = u THEN "dead" ELSE process[t]
    BY <1>2 DEF ProcessExit
  <2>3. UnusedIsIdle'
    BY <2>1, <2>2 DEF UnusedIsIdle
  <2>4. \A t \in Terminals : Heard(t) => Heard(t)'
    BY <2>1, <2>2 DEF Heard, Alive
  <2> QED BY <2>2, <2>3, <2>4 DEF LiveIsHandled, BeingEnded, Alive
<1>3. CASE ClientExit(u)
  <2>1. /\ readers' = readers \ {u}
        /\ \A t \in Terminals : EventsOf(t) \subseteq EventsOf(t)'
        /\ \A t \in Terminals \ {u} : EventsOf(t)' = EventsOf(t)
        /\ u \in readers /\ u \notin broken => EventsOf(u)' # {}
    <3>1. /\ exit_events \subseteq exit_events' /\ \A e \in exit_events' \ exit_events : e[1] = u
          /\ u \in readers \/ exit_events' = exit_events
          /\ readers' = readers \ {u}
          /\ u \in readers /\ u \notin broken => <<u, "reader", "ok">> \in exit_events'
      BY <1>3 DEF ClientExit, ReaderEnds
    <3>2. u \in readers /\ u \notin broken => EventsOf(u)' # {}
      BY <3>1 DEF EventsOf
    <3> QED BY <1>1, <3>1, <3>2
  <2>2. UNCHANGED <<process, handles, broken, teardown>> /\ Alive(u) /\ Sessions
    BY <1>3 DEF ClientExit
  <2>3. UnusedIsIdle'
    BY <2>1, <2>2 DEF UnusedIsIdle, Alive
  <2>4. \A t \in Terminals : Heard(t) => Heard(t)'
    BY <2>1, <2>2 DEF Heard, Alive
  <2> QED BY <2>2, <2>3, <2>4
<1>4. CASE WriterFail(u)
  <2>1. /\ u \in handles /\ broken' = broken \cup {u}
        /\ UNCHANGED <<process, handles, readers, teardown>>
        /\ <<u, "writer", "none">> \in EventsOf(u)'
        /\ \A t \in Terminals : EventsOf(t) \subseteq EventsOf(t)'
        /\ \A t \in Terminals \ {u} : EventsOf(t)' = EventsOf(t)
    BY <1>4 DEF WriterFail, EventsOf
  <2>2. UnusedIsIdle'
    BY <2>1 DEF UnusedIsIdle
  <2>3. \A t \in Terminals : Heard(t) => Heard(t)'
    BY <2>1 DEF Heard, Alive
  <2> QED BY <2>1, <2>2, <2>3 DEF LiveIsHandled, BeingEnded, Alive
<1>5. ASSUME NEW kind \in JobKind, Teardown(u, kind)
      PROVE  /\ UnusedIsIdle'
             /\ \A t \in Terminals : Heard(t) => Heard(t)'
             /\ ~Sessions /\ LiveIsHandled => LiveIsHandled'
  <2>1. /\ readers' = readers \ {u}
        /\ \A t \in Terminals : EventsOf(t) \subseteq EventsOf(t)'
        /\ \A t \in Terminals \ {u} : EventsOf(t)' = EventsOf(t)
        /\ u \notin readers => EventsOf(u)' = EventsOf(u)
    <3>1. /\ exit_events \subseteq exit_events' /\ \A e \in exit_events' \ exit_events : e[1] = u
          /\ u \in readers \/ exit_events' = exit_events
          /\ readers' = readers \ {u}
      BY <1>5 DEF Teardown, ReaderEnds
    <3> QED BY <1>1, <3>1
  <2>2. /\ <<u, kind>> \in teardown /\ broken' = broken \ {u} /\ handles' = handles
        /\ teardown' = teardown \ {<<u, kind>>}
        /\ \A t \in Terminals \ {u} : process'[t] = process[t]
        /\ process'[u] = IF EndsProcess(kind) THEN "dead" ELSE process[u]
    BY <1>5 DEF Teardown
  <2>3. process[u] # "none"
    BY <2>2 DEF UnusedIsIdle
  <2>4. UnusedIsIdle'
    BY <2>1, <2>2, <2>3 DEF UnusedIsIdle
  <2>5. \A t \in Terminals : Heard(t) => Heard(t)'
    BY <2>1, <2>2 DEF Heard, Alive
  <2>6. ~Sessions /\ LiveIsHandled => LiveIsHandled'
    BY <2>2, PtyNextEnds DEF LiveIsHandled
  <2> QED BY <2>4, <2>5, <2>6
<1> QED BY <1>2, <1>3, <1>4, <1>5

\* Until a handler queues a job for a terminal or receives its Exit, and takes its
\* handle in the same step, the end of the terminal cannot go unheard.
LEMMA HandledStaysHeard ==
  ASSUME PtyTypeOK, UnusedIsIdle, HandledIsHeard,
         \/ PtyNext
         \/ \E C, K, R \in SUBSET Terminals, V \in SUBSET exit_events :
              /\ PtyUpdate(C, K, R, V) /\ C \cap Used = {} /\ K \cup R \subseteq Used
              /\ \A e \in V : e[1] \in K \cup R
  PROVE  UnusedIsIdle' /\ HandledIsHeard'
<1>1. CASE PtyNext
  <2>1. UnusedIsIdle' /\ \A t \in Terminals : Heard(t) => Heard(t)'
    BY <1>1, PtyNextHeard
  <2>2. handles' = handles
    BY <1>1 DEF PtyNext, ProcessExit, ClientExit, WriterFail, Teardown
  <2> QED BY <2>1, <2>2 DEF HandledIsHeard, PtyTypeOK
<1>2. ASSUME NEW C \in SUBSET Terminals, NEW K \in SUBSET Terminals,
             NEW R \in SUBSET Terminals, NEW V \in SUBSET exit_events,
             PtyUpdate(C, K, R, V), C \cap Used = {}, K \cup R \subseteq Used,
             \A e \in V : e[1] \in K \cup R
      PROVE  UnusedIsIdle' /\ HandledIsHeard'
  <2>1. /\ UnusedIsIdle'
        /\ \A t \in C : Heard(t)'
        /\ \A t \in Terminals \ (C \cup K \cup R) :
             Heard(t) /\ EventsOf(t) \cap V = {} => Heard(t)'
    BY <1>2, PtyUpdateFrame
  <2>2. ASSUME NEW t \in handles' PROVE Heard(t)'
    <3>1. t \in Terminals /\ t \notin K \cup R /\ (t \in C \/ t \in handles)
      BY <1>2, <2>2 DEF PtyUpdate, PtyTypeOK, Used
    <3>2. EventsOf(t) \cap V = {}
      BY <1>2, <3>1 DEF EventsOf
    <3> QED BY <2>1, <3>1, <3>2 DEF HandledIsHeard
  <2> QED BY <2>1, <2>2 DEF HandledIsHeard
<1> QED BY <1>1, <1>2

===============================================================================
