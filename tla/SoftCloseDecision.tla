--------------------------- MODULE SoftCloseDecision ---------------------------
(***************************************************************************)
(* What the soft close of a terminal promises, whatever competes to decide *)
(* it (soft_close.rs of the desktop and of crates/okena-workspace): a      *)
(* terminal is open, or soft-closed and can come back, or gone for good,   *)
(* unless its pane is lost.  Its shell is ended only by the step that      *)
(* makes it go, or after the shell itself reported its end; so nobody ends *)
(* it in its grace period, and neither a terminal that was decided to go   *)
(* nor a shell that is being ended ever comes back.                        *)
(***************************************************************************)
CONSTANT Terminals

VARIABLES
  place,    \* "unused", "open", "pending" (soft-closed), "lost" (its pane) or "gone"
  shell,    \* "none", "live", "reported" (its end, to the app), "ending" or "dead"
  running   \* the app has not quit

vars == <<place, shell, running>>

Init ==
  /\ place = [t \in Terminals |-> "unused"]
  /\ shell = [t \in Terminals |-> "none"]
  /\ running = TRUE

\* The shells of S are ended from now on, those that are not dead already.
End(S) ==
  shell' = [t \in Terminals |-> IF t \in S /\ shell[t] # "dead" THEN "ending" ELSE shell[t]]

PutAll(S, where) == place' = [t \in Terminals |-> IF t \in S THEN where ELSE place[t]]
Placed == {t \in Terminals : place[t] \in {"open", "pending"}}
Lost == {t \in Terminals : place[t] = "lost"}

-------------------------------------------------------------------------------
Create(t) ==
  /\ running /\ place[t] = "unused"
  /\ place' = [place EXCEPT ![t] = "open"]
  /\ shell' = [shell EXCEPT ![t] = "live"]
  /\ UNCHANGED running

\* A session that is being ended is still busy: its pane can be closed like that too.
SoftClose(t) ==
  /\ running /\ place[t] = "open" /\ shell[t] \in {"live", "reported", "ending"}
  /\ place' = [place EXCEPT ![t] = "pending"]
  /\ UNCHANGED <<shell, running>>

\* Only the close of a shell that nobody is ending can be undone.
Undo(t) ==
  /\ running /\ place[t] = "pending" /\ shell[t] # "ending"
  /\ place' = [place EXCEPT ![t] = "open"]
  /\ UNCHANGED <<shell, running>>

\* The grace period is over, "Close now", an immediate close, the project or the
\* whole workspace goes: what is decided is final, and its shells are ended.
Decide(S) ==
  /\ running
  /\ PutAll(S, "gone") /\ End(S)
  /\ UNCHANGED running

\* Panes are lost; nobody ends their shells.
Lose(S) ==
  /\ running
  /\ PutAll(S, "lost")
  /\ UNCHANGED <<shell, running>>

\* The app learns that the shell has ended: a soft close of it is settled, a pane
\* stays to show the output or, if it was brought back, goes.
Exited(t) ==
  /\ running /\ shell[t] \in {"reported", "ending", "dead"}
  /\ PutAll({t}, "gone") \/ (place[t] # "pending" /\ UNCHANGED place)
  /\ End({t})
  /\ UNCHANGED running

\* No timer fires after the exit of the app: it decides what is pending.
Quit ==
  LET S == {t \in Terminals : place[t] = "pending"} IN
  /\ running /\ running' = FALSE
  /\ PutAll(S, "gone") /\ End(S)

\* The shell ends or its terminal reports so; the app runs or has quit.
Report(t) ==
  /\ shell[t] = "live"
  /\ shell' = [shell EXCEPT ![t] = "reported"]
  /\ UNCHANGED <<place, running>>

Die(t) ==
  /\ shell[t] \in {"live", "reported", "ending"}
  /\ shell' = [shell EXCEPT ![t] = "dead"]
  /\ UNCHANGED <<place, running>>

Next ==
  \/ \E t \in Terminals :
       Create(t) \/ SoftClose(t) \/ Undo(t) \/ Exited(t) \/ Report(t) \/ Die(t)
  \/ \E S \in SUBSET (Placed \cup Lost) : Decide(S)
  \/ \E S \in SUBSET Placed : Lose(S)
  \/ Quit

Spec == Init /\ [][Next]_vars
===============================================================================
