------------------------------- MODULE SoftClose -------------------------------
(***************************************************************************)
(* The soft close of a busy terminal: soft_close.rs of the desktop and of  *)
(* crates/okena-workspace, with the layout operations, the toast actions   *)
(* and the event loop's Exit handling that it interleaves with.            *)
(*                                                                         *)
(* A soft close takes the pane out of the layout and keeps the PTY for a   *)
(* grace period, in which a toast offers to undo it.  A timer per close,   *)
(* the toast's buttons, the end of the shell, the deletion of the project, *)
(* a workspace switch and the app's exit all compete to decide it.         *)
(*                                                                         *)
(* The code also loses panes without ending their shells: by a drop that   *)
(* does not land, by the watcher that takes out a worktree whose directory *)
(* is gone, and by the undo of a close whose project the watcher took.     *)
(* Their terminals are lost: nobody shows them, and only the end of the    *)
(* shell or a workspace switch ends them.                                  *)
(*                                                                         *)
(* A handler and the observer its notification triggers (which drains the  *)
(* queue of terminals to kill) run in one turn of the GPUI thread and are  *)
(* one action.  Of a layout tree only the set of its terminals is kept:    *)
(* restoring the tree as it was and appending the pane to a tree of other  *)
(* shape give the same set.                                                *)
(***************************************************************************)
EXTENDS Naturals, PtyManager

CONSTANTS
  Projects,   \* project ids
  Worktrees,  \* the projects that are worktrees: the watcher may take them out
  MaxCloses   \* bound: soft closes in one behaviour

ASSUME WorktreesAssumption == Worktrees \subseteq Projects
ASSUME MaxClosesAssumption == MaxCloses \in Nat

VARIABLES
  running,          \* the app has not quit
  projects,         \* projects of the workspace
  layout,           \* the terminals with a pane in each project's layout
  terminals,        \* TerminalsRegistry: ids with a UI Terminal
  pending_closes,   \* PendingClose records
  restored_closes,  \* RestoredClose breadcrumbs
  toasts,           \* undo toasts on the screen
  timers,           \* grace timers that have not fired
  closes,           \* soft closes so far: the last one's toast id
  lost              \* terminals that lost their pane and were not killed since

workspaceVars == <<projects, layout, pending_closes, restored_closes>>
screenVars == <<terminals, toasts, timers, closes, lost, running>>
vars == <<workspaceVars, screenVars, ptyVars>>

\* The terminal and the toast id of one soft close: what its toast's buttons and
\* its timer know.  The buttons and the timer look at the terminal only.
Close == [terminal_id : Terminals, toast_id : 1 .. MaxCloses]
PendingClose ==
  [terminal_id : Terminals, toast_id : 1 .. MaxCloses, project_id : Projects,
   pre_close_layout : SUBSET Terminals, post_close_layout : SUBSET Terminals]
RestoredClose == [terminal_id : Terminals, project_id : Projects]

CloseOf(c) == [terminal_id |-> c.terminal_id, toast_id |-> c.toast_id]
RecordsOf(records, t) == {c \in records : c.terminal_id = t}
Pending(t) == RecordsOf(pending_closes, t) # {}
Shown(t) == \E p \in Projects : t \in layout[p]
Toasts(records) == {CloseOf(c) : c \in records}

TypeOK ==
  /\ PtyTypeOK
  /\ running \in BOOLEAN
  /\ projects \subseteq Projects
  /\ layout \in [Projects -> SUBSET Terminals]
  /\ \A p \in Projects \ projects : layout[p] = {}
  /\ terminals \subseteq Terminals
  /\ pending_closes \subseteq PendingClose
  /\ restored_closes \subseteq RestoredClose
  /\ toasts \subseteq Close
  /\ timers \subseteq Close
  /\ closes \in 0 .. MaxCloses
  /\ lost \subseteq Terminals

Init ==
  /\ PtyInit
  /\ running = TRUE
  /\ projects = Projects
  /\ layout = [p \in Projects |-> {}]
  /\ terminals = {}
  /\ pending_closes = {}
  /\ restored_closes = {}
  /\ toasts = {}
  /\ timers = {}
  /\ closes = 0
  /\ lost = {}

\* S is killed and leaves the registry.
Kill(S) ==
  /\ terminals' = terminals \ S
  /\ lost' = lost \ S
  /\ PtyUpdate({}, S, {}, {})

-------------------------------------------------------------------------------
(* Layout operations. *)

CreateTerminal(p, t) ==
  /\ running /\ p \in projects /\ process[t] = "none"
  /\ layout' = [layout EXCEPT ![p] = @ \cup {t}]
  /\ terminals' = terminals \cup {t}
  /\ PtyUpdate({t}, {}, {}, {})
  /\ UNCHANGED <<running, projects, pending_closes, restored_closes, toasts, timers, closes, lost>>

\* The immediate close: an idle terminal, a remote client, no grace period.
CloseTerminal(p, t) ==
  /\ running /\ t \in layout[p]
  /\ layout' = [layout EXCEPT ![p] = @ \ {t}]
  /\ Kill({t})
  /\ UNCHANGED <<running, projects, pending_closes, restored_closes, toasts, timers, closes>>

\* Mutant of MovePane: the target project need not exist.
MovePaneAnywhere(p, q, t) ==
  /\ running /\ p # q
  /\ t \in layout[p]
  /\ layout' = [layout EXCEPT ![p] = @ \ {t}, ![q] = @ \cup {t}]
  /\ UNCHANGED <<projects, pending_closes, restored_closes, screenVars, ptyVars>>

\* A pane is dropped on a pane or a tab group of another project and lands there.
MovePane(p, q, t) ==
  /\ running /\ p # q /\ q \in projects
  /\ t \in layout[p] /\ layout[q] # {}
  /\ layout' = [layout EXCEPT ![p] = @ \ {t}, ![q] = @ \cup {t}]
  /\ UNCHANGED <<projects, pending_closes, restored_closes, screenVars, ptyVars>>

\* A pane is dropped on a tab group of its own or of another project, is taken out of
\* its tree and put nowhere: after the extraction the code does not find the group
\* by the terminal it remembered (LayoutTree shows when).
LoseDrop(p, q, t) ==
  /\ running /\ q \in projects
  /\ t \in layout[p] /\ layout[q] \ {t} # {}
  /\ layout' = [layout EXCEPT ![p] = @ \ {t}]
  /\ lost' = lost \cup {t}
  /\ UNCHANGED <<running, projects, terminals, pending_closes, restored_closes, toasts, timers,
                 closes, ptyVars>>

\* Mutant of ClosedIn: the soft-closed terminals of the project are overlooked.
ClosedInNone(p) == {}

\* drain_pending_closes_for_project
ClosedIn(p) == {c \in pending_closes : c.project_id = p}

DeleteProject(p) ==
  /\ running /\ p \in projects
  /\ projects' = projects \ {p}
  /\ layout' = [layout EXCEPT ![p] = {}]
  /\ pending_closes' = pending_closes \ ClosedIn(p)
  /\ Kill(layout[p] \cup {c.terminal_id : c \in ClosedIn(p)})
  /\ UNCHANGED <<running, restored_closes, toasts, timers, closes>>

\* The watcher finds the directory of a worktree gone: the project goes, and nothing
\* is killed or drained.
RemoveStaleWorktree(p) ==
  /\ running /\ p \in projects \cap Worktrees
  /\ projects' = projects \ {p}
  /\ layout' = [layout EXCEPT ![p] = {}]
  /\ lost' = lost \cup layout[p]
  /\ UNCHANGED <<running, terminals, pending_closes, restored_closes, toasts, timers, closes,
                 ptyVars>>

\* handle_switch_workspace kills what is in the registry, then replace_data drops
\* the pending closes.  The workspace switched to has no terminals yet.
SwitchWorkspace ==
  /\ running
  /\ Kill(terminals)
  /\ projects' = Projects
  /\ layout' = [p \in Projects |-> {}]
  /\ pending_closes' = {}
  /\ restored_closes' = {}
  /\ UNCHANGED <<running, toasts, timers, closes>>

-------------------------------------------------------------------------------
(* The soft close and what decides it. *)

\* try_begin, begin_soft_close: the terminal has a foreground process.  A session is
\* found by the id of the terminal, a plain PTY by its handle.
SoftClose(p, t) ==
  LET close == [terminal_id |-> t, toast_id |-> closes + 1] IN
  /\ running /\ closes < MaxCloses
  /\ t \in layout[p] /\ Alive(t) /\ (Sessions \/ t \in handles)
  /\ closes' = closes + 1
  /\ layout' = [layout EXCEPT ![p] = @ \ {t}]
  /\ pending_closes' = pending_closes \cup
       {[terminal_id |-> t, toast_id |-> closes + 1, project_id |-> p,
         pre_close_layout |-> layout[p], post_close_layout |-> layout[p] \ {t}]}
  /\ restored_closes' = restored_closes \ RecordsOf(restored_closes, t)
  /\ toasts' = toasts \cup {close}
  /\ timers' = timers \cup {close}
  /\ UNCHANGED <<running, projects, terminals, lost, ptyVars>>

\* Mutant of Finalize: the record goes, the terminal is not killed.
FinalizeWithoutKill(t) ==
  /\ pending_closes' = pending_closes \ RecordsOf(pending_closes, t)
  /\ UNCHANGED <<terminals, lost, ptyVars>>

\* Mutant of Finalize: the terminal is killed although its close is decided already.
FinalizeAnyway(t) ==
  /\ pending_closes' = pending_closes \ RecordsOf(pending_closes, t)
  /\ Kill({t})

\* finalize_soft_close, without effect if the close is decided already.
Finalize(t) ==
  IF Pending(t)
  THEN /\ pending_closes' = pending_closes \ RecordsOf(pending_closes, t)
       /\ Kill({t})
  ELSE UNCHANGED <<pending_closes, terminals, lost, ptyVars>>

\* Mutant of GraceOver: only a close whose toast is still on the screen is final.
GraceOverIfToast(c) ==
  /\ running /\ c \in timers
  /\ timers' = timers \ {c}
  /\ IF c \in toasts THEN Finalize(c.terminal_id)
     ELSE UNCHANGED <<pending_closes, terminals, lost, ptyVars>>
  /\ toasts' = toasts \ {c}
  /\ UNCHANGED <<running, projects, layout, restored_closes, closes>>

\* The grace period of close c is over.
GraceOver(c) ==
  /\ running /\ c \in timers
  /\ timers' = timers \ {c}
  /\ toasts' = IF Pending(c.terminal_id) THEN toasts \ {c} ELSE toasts
  /\ Finalize(c.terminal_id)
  /\ UNCHANGED <<running, projects, layout, restored_closes, closes>>

\* "Close now" on the toast of close c.
CloseNow(c) ==
  /\ running /\ c \in toasts
  /\ toasts' = toasts \ {c}
  /\ Finalize(c.terminal_id)
  /\ UNCHANGED <<running, projects, layout, restored_closes, timers, closes>>

\* Mutant of Restored: the layout from before the close, whatever it is now.
RestoredSnapshot(record) ==
  [layout EXCEPT ![record.project_id] = record.pre_close_layout]

\* The old tree if nothing else touched it, else the pane is appended to the tree.
Restored(record) ==
  IF record.project_id \in projects
  THEN [layout EXCEPT ![record.project_id] =
          IF @ = record.post_close_layout THEN record.pre_close_layout
          ELSE @ \cup {record.terminal_id}]
  ELSE layout

\* Mutant of UndoSoftClose: the close stays pending.
UndoKeepsRecord(t) ==
  /\ UNCHANGED pending_closes
  /\ IF t \in terminals /\ Pending(t)
     THEN \E record \in RecordsOf(pending_closes, t) :
            /\ layout' = Restored(record)
            /\ restored_closes' = (restored_closes \ RecordsOf(restored_closes, t))
                   \cup {[terminal_id |-> t, project_id |-> record.project_id]}
     ELSE UNCHANGED <<layout, restored_closes>>
  /\ UNCHANGED lost

\* undo_soft_close: a terminal that left the registry cannot be restored.  If the
\* project is gone the pane goes nowhere, and a breadcrumb is left all the same.
UndoSoftClose(t) ==
  IF Pending(t)
  THEN /\ pending_closes' = pending_closes \ RecordsOf(pending_closes, t)
       /\ IF t \in terminals
          THEN \E record \in RecordsOf(pending_closes, t) :
                 /\ layout' = Restored(record)
                 /\ restored_closes' =
                      (restored_closes \ RecordsOf(restored_closes, t))
                        \cup {[terminal_id |-> t, project_id |-> record.project_id]}
                 /\ lost' = IF record.project_id \in projects THEN lost ELSE lost \cup {t}
          ELSE UNCHANGED <<layout, restored_closes, lost>>
  ELSE UNCHANGED <<layout, pending_closes, restored_closes, lost>>

\* "Undo" on the toast of close c.
Undo(c) ==
  /\ running /\ c \in toasts
  /\ toasts' = toasts \ {c}
  /\ UndoSoftClose(c.terminal_id)
  /\ UNCHANGED <<running, projects, terminals, timers, closes, ptyVars>>

\* The toast expires, is dismissed, or gives way to later ones.
ToastGone(c) ==
  /\ running /\ c \in toasts
  /\ toasts' = toasts \ {c}
  /\ UNCHANGED <<workspaceVars, terminals, timers, closes, lost, running, ptyVars>>

\* cancel_pending_close: the shell ended by itself, there is nothing left to undo.
CancelPending(t) ==
  /\ pending_closes' = pending_closes \ RecordsOf(pending_closes, t)
  /\ toasts' = toasts \ Toasts(RecordsOf(pending_closes, t))

\* Mutant of ReapRestored: the breadcrumb goes, the pane stays.
ReapRestoredNot(t) ==
  /\ restored_closes' = restored_closes \ RecordsOf(restored_closes, t)
  /\ UNCHANGED layout

\* reap_restored_close: an undo that raced the exit brought back a doomed pane.
ReapRestored(t) ==
  /\ restored_closes' = restored_closes \ RecordsOf(restored_closes, t)
  /\ layout' = [p \in Projects |->
                  IF \E r \in RecordsOf(restored_closes, t) : r.project_id = p
                  THEN layout[p] \ {t} ELSE layout[p]]

\* The event loop receives Exit events of t: reap the handle, kill the session,
\* forget the Terminal, then settle a soft close or an undo of it.
HandleExit(t) ==
  /\ running
  /\ \E received \in (SUBSET EventsOf(t)) \ {{}} : PtyUpdate({}, {t}, {t}, received)
  /\ terminals' = terminals \ {t}
  /\ lost' = lost \ {t}
  /\ CancelPending(t)
  /\ ReapRestored(t)
  /\ UNCHANGED <<running, projects, timers, closes>>

\* The app quits: no timer will fire any more.  The workers may still run jobs of
\* their queue, as many as the exit of the process leaves them time for.
Quit ==
  /\ running
  /\ running' = FALSE
  /\ Kill({c.terminal_id : c \in pending_closes})
  /\ pending_closes' = {}
  /\ UNCHANGED <<projects, layout, restored_closes, toasts, timers, closes>>

PtyStep == PtyNext /\ UNCHANGED <<workspaceVars, screenVars>>

-------------------------------------------------------------------------------
Next ==
  \/ \E p \in Projects, t \in Terminals :
       CreateTerminal(p, t) \/ CloseTerminal(p, t) \/ SoftClose(p, t)
  \/ \E p, q \in Projects, t \in Terminals : MovePane(p, q, t) \/ LoseDrop(p, q, t)
  \/ \E p \in Projects : DeleteProject(p) \/ RemoveStaleWorktree(p)
  \/ \E c \in timers : GraceOver(c)
  \/ \E c \in toasts : CloseNow(c) \/ Undo(c) \/ ToastGone(c)
  \/ \E t \in Terminals : HandleExit(t)
  \/ SwitchWorkspace
  \/ Quit
  \/ PtyStep

Spec == Init /\ [][Next]_vars

\* As long as the app runs the executor runs timers that are over, the event loop
\* drains its channel and the workers their queue, in whatever order: there are
\* finitely many of each.  The user may do nothing.
Fairness ==
  /\ WF_vars(\E c \in timers : GraceOver(c))
  /\ WF_vars(\E t \in Terminals : HandleExit(t))
  /\ WF_vars(/\ running
             /\ \E t \in Terminals, kind \in JobKind : Teardown(t, kind)
             /\ UNCHANGED <<workspaceVars, screenVars>>)

FairSpec == Spec /\ Fairness

-------------------------------------------------------------------------------
(* Properties. *)

\* A terminal is in one place: in the layout of one project, soft-closed, once, or
\* lost, through closes, undos, moves and removals of projects.
OnePlace ==
  \A t \in Terminals :
    /\ \A p, q \in Projects : t \in layout[p] /\ t \in layout[q] => p = q
    /\ \A c, d \in RecordsOf(pending_closes, t) : c = d
    /\ Pending(t) => ~Shown(t)
    /\ t \in lost => ~Shown(t) /\ ~Pending(t)

\* As long as a close is pending and nobody has ended the shell the terminal can be
\* brought back: it is in the registry, and its project is there unless the watcher
\* may take it; and as long as the app runs a timer is left that will decide it.
CanBeUndone ==
  \A c \in pending_closes :
    /\ Alive(c.terminal_id) /\ ~BeingEnded(c.terminal_id) => c.terminal_id \in terminals
    /\ c.project_id \in projects \cup Worktrees
    /\ running => CloseOf(c) \in timers

\* No PTY leaks but those whose pane was lost: a live process has a pane, waits out
\* its grace period or is being ended, also when its project is deleted or the app
\* has quit; and one that lost its pane is still in the registry, where a workspace
\* switch and the handling of its exit find it.
NoLeak ==
  \A t \in Terminals :
    Alive(t) => Shown(t) \/ Pending(t) \/ BeingEnded(t) \/ t \in lost \cap terminals

\* An undo brings back its own pane and changes no other: the snapshot that it may
\* restore neither drops panes opened since the close nor revives closed ones.
UndoIsLocal ==
  [][\A c \in pending_closes :
       c.terminal_id \in layout'[c.project_id] =>
         \A p \in Projects : layout'[p] \ {c.terminal_id} = layout[p]]_vars

\* What a user sees of a terminal, and what becomes of its shell.
Place(t) ==
  CASE process[t] = "none" -> "unused"
    [] process[t] # "none" /\ Shown(t) -> "open"
    [] process[t] # "none" /\ Pending(t) /\ ~Shown(t) -> "pending"
    [] process[t] # "none" /\ t \in lost /\ ~Pending(t) /\ ~Shown(t) -> "lost"
    [] process[t] # "none" /\ t \notin lost /\ ~Pending(t) /\ ~Shown(t) -> "gone"

ShellOf(t) ==
  CASE ~Alive(t) -> process[t]
    [] Alive(t) /\ BeingEnded(t) -> "ending"
    [] Alive(t) /\ ~BeingEnded(t) -> IF EventsOf(t) # {} THEN "reported" ELSE "live"

Decision == INSTANCE SoftCloseDecision WITH
  place <- [t \in Terminals |-> Place(t)],
  shell <- [t \in Terminals |-> ShellOf(t)]

\* All that competes to decide a soft close (timers, toast buttons, exits, removed
\* projects, a workspace switch, the app's exit) comes to one decision per close:
\* no other step ends a shell whose close can be undone, and what is gone stays so.
IsDecision == Decision!Spec

\* As long as the app runs every soft close is decided: its terminal is back in a
\* layout, ended, or lost with the project it was to come back to.
SoftCloseIsDecided ==
  \A t \in Terminals :
    Pending(t) ~> Shown(t) \/ process[t] = "dead" \/ t \in lost \/ ~running

\* A pane that an undo brought back on a dead process does not stay where it was
\* put, as long as the app runs and nobody moves it to another project, where the
\* breadcrumb does not lead (RestoredClose, reap_restored_close).
Doomed(t) ==
  process[t] = "dead" /\ \E r \in RecordsOf(restored_closes, t) : t \in layout[r.project_id]
MovedOn(t) == \E r \in RecordsOf(restored_closes, t) : t \notin layout[r.project_id]

DoomedIsReaped == \A t \in Terminals : Doomed(t) ~> ~Shown(t) \/ MovedOn(t) \/ ~running

-------------------------------------------------------------------------------
(* A statement of a comment that the code breaks. *)

\* try_begin: "If the user already undid or force-closed, finalize_soft_close
\* returns false".  So the timer of an earlier close leaves a later one alone.
GraceIsFull ==
  [][\A c \in timers \ timers' : \A d \in pending_closes :
       d.terminal_id = c.terminal_id /\ d.toast_id # c.toast_id => d \in pending_closes']_vars

===============================================================================
