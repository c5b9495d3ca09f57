------------------------------ MODULE AutoSave ------------------------------
(***************************************************************************)
(* Loading and saving workspace.json, step by step                         *)
(* (crates/okena-workspace/src/persistence.rs, src/app/mod.rs,             *)
(* src/app/headless.rs, src/main.rs).                                      *)
(*                                                                         *)
(* Every change of the workspace starts a 500 ms timer; the timer clones   *)
(* the workspace and hands it to a thread of a pool that runs              *)
(* save_workspace: rename the file to its backup, write and sync a         *)
(* temporary file, rename that one to the file.  Quitting saves once more  *)
(* on the main thread.  The process may die between any two steps, and     *)
(* every file operation may fail.                                          *)
(***************************************************************************)
EXTENDS Integers, FiniteSets

CONSTANTS
  Threads,     \* the threads of the pool of smol::unblock (bound)
  Main,        \* the main thread, which saves when the application quits
  MaxEdits,    \* bound on the changes of the workspace
  MaxTimers    \* bound on the timers a notification without a change adds to

Savers == Threads \cup {Main}

ASSUME SaversAssumption == Main \notin Threads
ASSUME BoundsAssumption == MaxEdits \in Nat /\ MaxTimers \in Nat

Missing == -2   \* there is no such file
Torn    == -1   \* the file is there and does not parse: half written, damaged
Default == 0    \* default_workspace()
Seen    == 1    \* the workspace an earlier process left on disk

Whole(c) == c >= 0

VARIABLES
  path,                 \* workspace.json: Missing, Torn or a workspace
  bak,                  \* workspace.json.bak
  tmp,                  \* workspace.json.tmp
  corrupt,              \* workspace.json.corrupt
  app,                  \* what the process does
  loaded_from_default,  \* LOADED_FROM_DEFAULT
  data,                 \* the workspace in memory
  version,              \* data_version: what the observer takes for a change
  last_saved,           \* last_saved_version
  save_pending,         \* the flag the debounce timers share
  timers,               \* debounce timers that have not fired
  cloned_version,       \* cloned_version[s]: the version of the auto-save of s
  pc,                   \* pc[s]: where thread s is in save_workspace
  clone,                \* clone[s]: the workspace thread s is to save
  edits                 \* the last workspace made (every change makes a new one)

disk == <<path, bak, tmp, corrupt>>
memory == <<data, version, last_saved, save_pending, timers, cloned_version>>
saves == <<pc, clone>>
vars == <<disk, app, loaded_from_default, memory, saves, edits>>

-----------------------------------------------------------------------------
AppStates == {"down", "restoring", "loading", "running", "quitting", "exiting"}

(* The steps of save_workspace that hold WORKSPACE_LOCK, and all its steps *)
(* up to the rename that makes the save take effect.                       *)
Locked == {"backup", "create", "write", "rename"}
Unsaved == Locked \cup {"queued"}
SaveStates == Unsaved \cup {"idle", "ok", "failed"}

Up == app \in {"running", "quitting", "exiting"}

(* The main thread is not inside a synchronous save_workspace.             *)
MainFree == Up /\ pc[Main] = "idle"

\* Mutant of LockFree: no lock.
NoLock == TRUE

LockFree == \A s \in Savers : pc[s] \notin Locked

-----------------------------------------------------------------------------
(* A process that has just started, or has just gone: no memory of the     *)
(* workspace, no timers, no saves.                                         *)
NoProcess ==
  /\ data' = Default
  /\ version' = 0
  /\ last_saved' = 0
  /\ save_pending' = FALSE
  /\ timers' = 0
  /\ cloned_version' = [s \in Threads |-> 0]
  /\ pc' = [s \in Savers |-> "idle"]
  /\ clone' = [s \in Savers |-> Default]
  /\ loaded_from_default' = FALSE

Init ==
  /\ path \in {Missing, Torn, Seen}
  /\ bak \in {Missing, Seen}
  /\ tmp = Missing
  /\ corrupt = Missing
  /\ app = "down"
  /\ loaded_from_default = FALSE
  /\ data = Default
  /\ version = 0
  /\ last_saved = 0
  /\ save_pending = FALSE
  /\ timers = 0
  /\ cloned_version = [s \in Threads |-> 0]
  /\ pc = [s \in Savers |-> "idle"]
  /\ clone = [s \in Savers |-> Default]
  /\ edits = Seen

-----------------------------------------------------------------------------
(* load_workspace                                                          *)

(* The process starts.  A missing file is restored from the backup by a    *)
(* copy, which creates the file first and may fail before or after that.   *)
Start ==
  /\ app = "down"
  /\ \/ /\ path = Missing /\ bak # Missing
        /\ path' = Torn
        /\ app' = "restoring"
     \/ /\ app' = "loading"
        /\ UNCHANGED path
  /\ UNCHANGED <<bak, tmp, corrupt, loaded_from_default, memory, saves, edits>>

(* The copy ends, or fails and leaves what it wrote.                       *)
RestoreCopied ==
  /\ app = "restoring"
  /\ app' = "loading"
  /\ path' \in {bak, Torn}
  /\ UNCHANGED <<bak, tmp, corrupt, loaded_from_default, memory, saves, edits>>

(* The versions start at 0 with every process, that of the last save too.  *)
Loaded(content, fallback) ==
  /\ app' = "running"
  /\ data' = content
  /\ version' = 0 /\ last_saved' = 0
  /\ loaded_from_default' = fallback
  /\ UNCHANGED <<path, tmp, save_pending, timers, cloned_version, saves, edits>>

(* No file: a first start, or a restore that failed and blocks the saves.  *)
LoadMissing ==
  /\ app = "loading"
  /\ path = Missing
  /\ Loaded(Default, bak # Missing)
  /\ UNCHANGED <<bak, corrupt>>

LoadWhole ==
  /\ app = "loading"
  /\ Whole(path)
  /\ Loaded(path, FALSE)
  /\ UNCHANGED <<bak, corrupt>>

(* The file cannot be read now.                                            *)
LoadUnreadable ==
  /\ app = "loading"
  /\ path # Missing
  /\ Loaded(Default, TRUE)
  /\ UNCHANGED <<bak, corrupt>>

\* Mutant of LoadCorrupt: the backup is copied aside, not the file.
LoadCorruptWrongFile ==
  /\ app = "loading"
  /\ path = Torn
  /\ IF bak = Missing
       THEN bak' \in {Missing, Torn} /\ UNCHANGED corrupt
       ELSE corrupt' \in {corrupt, bak} /\ UNCHANGED bak
  /\ Loaded(Default, TRUE)

\* Mutant of LoadCorrupt: the damaged file always becomes the backup.
LoadCorruptOverBackup ==
  /\ app = "loading"
  /\ path = Torn
  /\ bak' \in {bak, Torn}
  /\ UNCHANGED corrupt
  /\ Loaded(Default, TRUE)

(* The file does not parse: it is copied (if the copy works) to the        *)
(* backup, or beside it when there is a backup.                            *)
LoadCorrupt ==
  /\ app = "loading"
  /\ path = Torn
  /\ IF bak = Missing
       THEN bak' \in {Missing, Torn} /\ UNCHANGED corrupt
       ELSE corrupt' \in {corrupt, Torn} /\ UNCHANGED bak
  /\ Loaded(Default, TRUE)

-----------------------------------------------------------------------------
(* The debounced auto-save                                                 *)

\* Mutant of Observe: a save in flight is taken to cover the change.
ObserveUnlessSaving ==
  IF version' = last_saved
    THEN UNCHANGED <<save_pending, timers>>
    ELSE /\ save_pending' = TRUE
         /\ timers' = IF \E s \in Savers : pc[s] # "idle" THEN timers ELSE timers + 1

(* The observer of the workspace, run after every notification.            *)
Observe ==
  IF version' = last_saved
    THEN UNCHANGED <<save_pending, timers>>
    ELSE save_pending' = TRUE /\ timers' = timers + 1

(* A notification: the workspace becomes content, under the number new.    *)
Notification(content, new) ==
  /\ app = "running" /\ MainFree
  /\ data' = content
  /\ version' = new
  /\ Observe
  /\ UNCHANGED <<disk, app, loaded_from_default, last_saved, cloned_version, saves>>

(* A change of the workspace that is to be saved.                          *)
Edit ==
  /\ edits < MaxEdits
  /\ edits' = edits + 1
  /\ Notification(edits + 1, version + 1)

(* The switch to the workspace of a session: the data are others, under    *)
(* the same version.                                                       *)
replace_data ==
  /\ edits < MaxEdits
  /\ edits' = edits + 1
  /\ Notification(edits + 1, version)

(* A notification that changes nothing that is saved.                      *)
Notify ==
  /\ timers < MaxTimers
  /\ Notification(data, version)
  /\ UNCHANGED edits

(* Thread s is given the workspace as it is now.                           *)
Submit(s) ==
  /\ pc' = [pc EXCEPT ![s] = "queued"]
  /\ clone' = [clone EXCEPT ![s] = data]

(* A timer fires: the first one after a change takes the flag, clones the  *)
(* workspace and gives it to the pool; the others find the flag down.      *)
TimerFires(s) ==
  /\ MainFree
  /\ timers > 0
  /\ timers' = timers - 1
  /\ save_pending' = FALSE
  /\ IF save_pending
       THEN /\ pc[s] = "idle"
            /\ Submit(s)
            /\ cloned_version' = [cloned_version EXCEPT ![s] = version]
       ELSE UNCHANGED <<saves, cloned_version>>
  /\ UNCHANGED <<disk, app, loaded_from_default, data, version, last_saved, edits>>

(* The continuation of an auto-save on the main thread.                    *)
SaveReturns(s) ==
  /\ MainFree
  /\ pc[s] \in {"ok", "failed"}
  /\ last_saved' = IF pc[s] = "ok" THEN cloned_version[s] ELSE last_saved
  /\ pc' = [pc EXCEPT ![s] = "idle"]
  /\ clone' = [clone EXCEPT ![s] = Default]
  /\ cloned_version' = [cloned_version EXCEPT ![s] = 0]
  /\ UNCHANGED <<disk, app, loaded_from_default, data, version, save_pending, timers, edits>>

-----------------------------------------------------------------------------
(* save_workspace                                                          *)

Goto(s, next) == pc' = [pc EXCEPT ![s] = next]

SaveStep(s, from) ==
  /\ pc[s] = from
  /\ UNCHANGED <<app, loaded_from_default, memory, clone, edits, corrupt>>

\* Mutant of TakeLock: the fallback workspace is saved too.
TakeLockUnprotected(s) ==
  /\ SaveStep(s, "queued")
  /\ LockFree
  /\ Goto(s, "backup")
  /\ UNCHANGED <<path, bak, tmp>>

(* The lock is taken; a process that fell back to the default workspace    *)
(* saves nothing and reports success.                                      *)
TakeLock(s) ==
  /\ SaveStep(s, "queued")
  /\ LockFree
  /\ Goto(s, IF loaded_from_default THEN "ok" ELSE "backup")
  /\ UNCHANGED <<path, bak, tmp>>

(* The file, if there is one, becomes the backup; a failure is only logged.*)
BackUp(s) ==
  /\ SaveStep(s, "backup")
  /\ \/ path # Missing /\ bak' = path /\ path' = Missing
     \/ UNCHANGED <<path, bak>>
  /\ Goto(s, "create")
  /\ UNCHANGED tmp

CreateTmp(s) ==
  /\ SaveStep(s, "create")
  /\ tmp' = Torn
  /\ Goto(s, "write")
  /\ UNCHANGED <<path, bak>>

WriteTmp(s) ==
  /\ SaveStep(s, "write")
  /\ tmp' = clone[s]
  /\ Goto(s, "rename")
  /\ UNCHANGED <<path, bak>>

RenameTmp(s) ==
  /\ SaveStep(s, "rename")
  /\ path' = tmp
  /\ tmp' = Missing
  /\ Goto(s, "ok")
  /\ UNCHANGED bak

(* Creating the directory or the temporary file, writing it or renaming it *)
(* fails: save_workspace returns the error.                                *)
SaveFails(s) ==
  /\ \E from \in Locked : SaveStep(s, from)
  /\ Goto(s, "failed")
  /\ UNCHANGED <<path, bak, tmp>>

Save(s) ==
  \/ TakeLock(s)
  \/ BackUp(s)
  \/ CreateTmp(s)
  \/ WriteTmp(s)
  \/ RenameTmp(s)
  \/ SaveFails(s)

-----------------------------------------------------------------------------
(* Quitting                                                                *)

(* The Quit action and a change of profile save on the main thread, then   *)
(* ask the application to quit.                                            *)
Quit ==
  /\ app = "running" /\ MainFree
  /\ app' = "quitting"
  /\ Submit(Main)
  /\ UNCHANGED <<disk, loaded_from_default, memory, edits>>

(* on_app_quit: every way to quit saves on the main thread.                *)
OnAppQuit ==
  /\ app \in {"running", "quitting"} /\ MainFree
  /\ app' = "exiting"
  /\ Submit(Main)
  /\ UNCHANGED <<disk, loaded_from_default, memory, edits>>

\* Mutant of FlushReturns: the main thread retries a failed save.
FlushReturnsOnSuccess ==
  /\ pc[Main] = "ok"
  /\ pc' = [pc EXCEPT ![Main] = "idle"]
  /\ clone' = [clone EXCEPT ![Main] = Default]
  /\ UNCHANGED <<disk, app, loaded_from_default, memory, edits>>

(* The synchronous save of the main thread returns; an error is logged.    *)
FlushReturns ==
  /\ pc[Main] \in {"ok", "failed"}
  /\ pc' = [pc EXCEPT ![Main] = "idle"]
  /\ clone' = [clone EXCEPT ![Main] = Default]
  /\ UNCHANGED <<disk, app, loaded_from_default, memory, edits>>

(* The process ends; the saves that still run in the pool end with it.     *)
Exit ==
  /\ app = "exiting" /\ MainFree
  /\ app' = "down"
  /\ NoProcess
  /\ UNCHANGED <<disk, edits>>

(* The process dies.                                                       *)
Crash ==
  /\ app # "down"
  /\ app' = "down"
  /\ NoProcess
  /\ UNCHANGED <<disk, edits>>

-----------------------------------------------------------------------------
Load == RestoreCopied \/ LoadMissing \/ LoadWhole \/ LoadUnreadable \/ LoadCorrupt

Next ==
  \/ Start
  \/ Load
  \/ Edit
  \/ replace_data
  \/ Notify
  \/ \E s \in Threads : TimerFires(s) \/ SaveReturns(s)
  \/ \E s \in Savers : Save(s)
  \/ Quit
  \/ OnAppQuit
  \/ FlushReturns
  \/ Exit
  \/ Crash

Spec == Init /\ [][Next]_vars

(* Timers fire, the pool runs its saves and the main thread its callbacks: *)
(* the executor's promise.  Nothing makes the user act or a process die.   *)
Fairness ==
  /\ WF_vars(\E s \in Threads : TimerFires(s))
  /\ \A s \in Threads : WF_vars(SaveReturns(s))
  /\ \A s \in Savers : WF_vars(Save(s))
  /\ WF_vars(FlushReturns)
  /\ WF_vars(Exit)

FairSpec == Spec /\ Fairness
-----------------------------------------------------------------------------
TypeOK ==
  /\ path \in Nat \cup {Missing, Torn}
  /\ bak \in Nat \cup {Missing, Torn}
  /\ tmp \in Nat \cup {Missing, Torn}
  /\ corrupt \in {Missing, Torn}
  /\ app \in AppStates
  /\ loaded_from_default \in BOOLEAN
  /\ data \in Nat /\ edits \in Nat
  /\ version \in Nat /\ last_saved \in Nat
  /\ save_pending \in BOOLEAN
  /\ timers \in Nat
  /\ pc \in [Savers -> SaveStates]
  /\ clone \in [Savers -> Nat]
  /\ cloned_version \in [Threads -> Nat]

(* Saves share one temporary file.  What a save is about to rename to      *)
(* workspace.json is the whole workspace it was given, never the half      *)
(* written file or the workspace of another save: what WORKSPACE_LOCK is   *)
(* for (persistence.rs, save_workspace).                                   *)
RenamesItsOwn ==
  \A s \in Savers : pc[s] = "rename" => tmp = clone[s]

(* The backup may be the last good copy: once it is a whole workspace, no  *)
(* save, failed save, load of a damaged file, crash or restore turns it    *)
(* into a torn file or removes it (persistence.rs, rolling backup of       *)
(* save_workspace and the corrupt-file branch of load_workspace).          *)
BackupStaysWhole == [][Whole(bak) => Whole(bak')]_vars

(* The workspace that is on disk, or -1.                                   *)
OnDisk == IF Whole(path) THEN path ELSE IF Whole(bak) THEN bak ELSE -1

(* Persistence is an atomic durable store: the file, or the backup when    *)
(* the file is missing or torn, is what is stored; a save is pending until *)
(* its rename; a process that fell back to the default is protected.       *)
Store == INSTANCE WorkspaceStore WITH
  stored  <- OnDisk,
  current <- data,
  mode    <- IF ~Up THEN "down"
             ELSE IF loaded_from_default THEN "protected" ELSE "ready",
  saving  <- [s \in Savers |-> IF pc[s] \in Unsaved THEN clone[s] ELSE -1]

(* Whatever the interleaving of saves, failures, crashes and restarts, the *)
(* four files behave as that store: no reachable step of load_workspace or *)
(* save_workspace loses what an earlier save stored, stores what nobody    *)
(* asked to save, or overwrites it with the fallback workspace.            *)
IsStore == Store!Spec

(* The debounce loses no change: each version of the workspace is handed   *)
(* to save_workspace, by an auto-save of that version or of a later one,   *)
(* although the timers share one flag and saves overtake each other and    *)
(* fail, unless the process ends (app/mod.rs, the observer and its timer). *)
ChangeIsTried ==
  \A v \in 1 .. MaxEdits :
    (app = "running" /\ version = v /\ save_pending)
      ~> (~Up \/ last_saved >= v
              \/ \E s \in Threads : pc[s] # "idle" /\ cloned_version[s] >= v)

(* The main thread waits in on_app_quit for the lock that the saves of the *)
(* pool hold, errors included, and always gets it: quitting ends.          *)
QuitEnds == app = "exiting" ~> app = "down"
=============================================================================
