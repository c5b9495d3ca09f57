--------------------------- MODULE WorkspaceStore ---------------------------
(***************************************************************************)
(* What the persistence of the workspace promises                          *)
(* (crates/okena-workspace/src/persistence.rs): an atomic, durable store   *)
(* of one workspace.  A save takes effect at one instant between its call  *)
(* and its return, or not at all; a crash at any point loses nothing that  *)
(* took effect; a start gets back the stored workspace, or runs protected, *)
(* on a default workspace that never replaces what is stored.              *)
(***************************************************************************)
EXTENDS Integers

CONSTANT Savers     \* the threads that may run a save

None    == -1       \* no workspace
Default == 0        \* default_workspace()

Contents == Nat     \* a workspace is known by a number

VARIABLES
  stored,           \* the workspace a start would find, or None
  current,          \* the workspace in memory (Default while down)
  mode,             \* "down", "ready" or "protected"
  saving            \* saving[s]: the workspace s is to store, or None

vars == <<stored, current, mode, saving>>

NothingSaving == [s \in Savers |-> None]

Init ==
  /\ stored \in Contents \cup {None}
  /\ current = Default
  /\ mode = "down"
  /\ saving = NothingSaving

-----------------------------------------------------------------------------
(* The process starts with what is stored, with a default workspace when   *)
(* nothing is, or protected.                                               *)
Start ==
  /\ mode = "down"
  /\ \/ /\ mode' = "ready"
        /\ current' = IF stored = None THEN Default ELSE stored
     \/ /\ mode' = "protected"
        /\ current' = Default
  /\ UNCHANGED <<stored, saving>>

Edit ==
  /\ mode # "down"
  /\ current' \in Contents
  /\ UNCHANGED <<stored, mode, saving>>

Begin(s) ==
  /\ mode # "down"
  /\ saving[s] = None
  /\ saving' = [saving EXCEPT ![s] = current]
  /\ UNCHANGED <<stored, current, mode>>

(* The instant at which a save takes effect: never while protected.        *)
Commit(s) ==
  /\ mode = "ready"
  /\ saving[s] # None
  /\ stored' = saving[s]
  /\ saving' = [saving EXCEPT ![s] = None]
  /\ UNCHANGED <<current, mode>>

(* A save is skipped or fails.                                             *)
Abort(s) ==
  /\ saving[s] # None
  /\ saving' = [saving EXCEPT ![s] = None]
  /\ UNCHANGED <<stored, current, mode>>

(* The process exits or dies: only what is stored stays.                   *)
Stop ==
  /\ mode # "down"
  /\ mode' = "down"
  /\ current' = Default
  /\ saving' = NothingSaving
  /\ UNCHANGED stored

Next ==
  \/ Start
  \/ Edit
  \/ Stop
  \/ \E s \in Savers : Begin(s) \/ Commit(s) \/ Abort(s)

Spec == Init /\ [][Next]_vars
=============================================================================
