------------------------------ MODULE PtyManager ------------------------------
(***************************************************************************)
(* The process side of a terminal: PtyManager of crates/okena-terminal.    *)
(* A terminal id is a fresh uuid; creating it spawns a child process and   *)
(* two threads, a reader and a writer, that report the end of the terminal *)
(* to the event loop by an Exit event.  Killing and reaping only enqueue a *)
(* job: a pool of workers ends the process some time later.                *)
(*                                                                         *)
(* This module owns the PTY variables.  The components that create and     *)
(* kill terminals (ServiceManager) conjoin PtyUpdate to their own actions; *)
(* what the processes, threads and workers do on their own are the actions *)
(* of PtyNext.                                                             *)
(***************************************************************************)
EXTENDS FiniteSets

CONSTANTS
  Terminals,  \* terminal ids (uuids; each is created at most once)
  Sessions,   \* TRUE under dtach/tmux: the process outlives its attach client
  Codes,      \* exit codes with which a process may end by itself
  Unwritable  \* terminals whose PTY may refuse a write

ExitCode == {"ok", "fail", "none"}  \* Some(0), Some(non-zero), None

ASSUME SessionsAssumption == Sessions \in BOOLEAN
ASSUME CodesAssumption == Codes \subseteq ExitCode
ASSUME UnwritableAssumption == Unwritable \subseteq Terminals

VARIABLES
  process,     \* the service's process: "none" (id unused), "alive" or "dead"
  handles,     \* PtyManager.terminals: ids that still have a PtyHandle
  readers,     \* ids whose reader thread still runs
  broken,      \* ids whose PtyShutdownState is marked broken
  teardown,    \* TeardownJobs queued for the workers
  exit_events  \* Exit events sent to the event loop and not yet received

ptyVars == <<process, handles, readers, broken, teardown, exit_events>>

ExitEvent == Terminals \X {"reader", "writer"} \X ExitCode
JobKind == {"kill", "reap"}         \* KillSession, ReapOnly

EventsOf(t) == {e \in exit_events : e[1] = t}

Alive(t) == process[t] = "alive"

\* Process and reader have ended: the teardown of t has nothing left to do.
Ended(t) == process[t] = "dead" /\ t \notin readers

PtyTypeOK ==
  /\ process \in [Terminals -> {"none", "alive", "dead"}]
  /\ handles \subseteq Terminals
  /\ readers \subseteq Terminals
  /\ broken \subseteq Terminals
  /\ teardown \subseteq Terminals \X JobKind
  /\ exit_events \subseteq ExitEvent

PtyInit ==
  /\ process = [t \in Terminals |-> "none"]
  /\ handles = {}
  /\ readers = {}
  /\ broken = {}
  /\ teardown = {}
  /\ exit_events = {}

-------------------------------------------------------------------------------
(* What a handler on the GPUI thread does to its terminals, in one step. *)

\* A job on an ended terminal would change nothing and is not recorded.
Unended(S) == {t \in S : ~Ended(t)}

\* kill() enqueues a KillSession job whether or not there still is a handle.
KillJobs(S) == {<<t, "kill">> : t \in Unended(S)}

\* cleanup_exited() enqueues a ReapOnly job only for a handle it removed.
ReapJobs(S) == {<<t, "reap">> : t \in Unended(S \cap handles)}

(* created, killed and reaped are sets of ids, received the Exit events    *)
(* taken from the channel.                                                 *)
PtyUpdate(created, killed, reaped, received) ==
  /\ process' = [t \in Terminals |-> IF t \in created THEN "alive" ELSE process[t]]
  /\ handles' = (handles \cup created) \ (killed \cup reaped)
  /\ readers' = readers \cup created
  /\ teardown' = teardown \cup KillJobs(killed) \cup ReapJobs(reaped)
  /\ exit_events' = exit_events \ received
  /\ broken' = {t \in broken : Ended(t) => t \notin killed \cup reaped}

-------------------------------------------------------------------------------
\* Mutant of ReaderEnds: the reader may stop without a word on any terminal.
ReaderEndsSilently(t, code, isBroken) ==
  \/ /\ t \in readers
     /\ readers' = readers \ {t}
     /\ exit_events' = exit_events \cup {<<t, "reader", code>>}
  \/ readers' = readers \ {t} /\ UNCHANGED exit_events

(* The reader thread leaves its loop: on EOF or a read error it sends Exit *)
(* even for a broken terminal; at the top of the loop, or after a last     *)
(* read, it stops without a word if the terminal is marked broken.         *)
ReaderEnds(t, code, isBroken) ==
  \/ /\ t \in readers
     /\ readers' = readers \ {t}
     /\ exit_events' = exit_events \cup {<<t, "reader", code>>}
  \/ /\ t \in readers => isBroken
     /\ readers' = readers \ {t}
     /\ UNCHANGED exit_events

(* The process ends by itself. *)
ProcessExit(t, code) ==
  /\ Alive(t)
  /\ process' = [process EXCEPT ![t] = "dead"]
  /\ ReaderEnds(t, code, t \in broken)
  /\ UNCHANGED <<handles, broken, teardown>>

(* The attach client ends (detached, its server gone) and the session's    *)
(* process lives on: the reader cannot tell the difference.                *)
ClientExit(t) ==
  /\ Sessions
  /\ Alive(t)
  /\ t \in readers
  /\ ReaderEnds(t, "ok", t \in broken)
  /\ UNCHANGED <<process, handles, broken, teardown>>

(* A write to the PTY fails: the writer thread marks the terminal broken,  *)
(* sends an Exit of its own and ends.                                      *)
WriterFail(t) ==
  /\ t \in (handles \cap Unwritable) \ broken
  /\ broken' = broken \cup {t}
  /\ exit_events' = exit_events \cup {<<t, "writer", "none">>}
  /\ UNCHANGED <<process, handles, readers, teardown>>

(* A worker runs one job: shutdown_handle marks the terminal broken, kills *)
(* the child and waits for the reader; a KillSession job also ends the     *)
(* session.  A reaped attach client leaves the session's process alive.    *)
EndsProcess(kind) == kind = "kill" \/ ~Sessions
BeingEnded(t) == \E kind \in JobKind : <<t, kind>> \in teardown /\ EndsProcess(kind)

Teardown(t, kind) ==
  /\ <<t, kind>> \in teardown
  /\ teardown' = teardown \ {<<t, kind>>}
  /\ process' = [process EXCEPT ![t] = IF EndsProcess(kind) THEN "dead" ELSE @]
  /\ broken' = broken \ {t}  \* the flag goes with the handle
  /\ ReaderEnds(t, "none", TRUE)
  /\ UNCHANGED handles

PtyNext ==
  \E t \in Terminals :
    \/ \E code \in Codes : ProcessExit(t, code)
    \/ ClientExit(t)
    \/ WriterFail(t)
    \/ \E kind \in JobKind : Teardown(t, kind)

===============================================================================
