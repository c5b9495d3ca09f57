--------------------------- MODULE AutoSaveProofs ---------------------------
(***************************************************************************)
(* Proofs about AutoSave, for every set of threads and every bound.        *)
(***************************************************************************)
EXTENDS AutoSave, TLAPS

(***************************************************************************)
(* The inductive invariant.  The refinement needs that a save that may     *)
(* still take effect belongs to a process that is up, that one past the    *)
(* lock belongs to one that did not fall back to the default workspace,    *)
(* and that such a process never finds a torn file: its load read a whole  *)
(* one or none, and only whole ones are renamed to it.                     *)
(***************************************************************************)
MutualExclusion ==
  \A s, t \in Savers : pc[s] \in Locked /\ pc[t] \in Locked => s = t
LockedIsReady ==
  \A s \in Savers : pc[s] \in Locked => ~loaded_from_default
ReadyFileIsWhole == Up /\ ~loaded_from_default => path # Torn
DownIsIdle ==
  ~Up => /\ \A s \in Savers : pc[s] = "idle"
         /\ data = Default /\ ~loaded_from_default
         /\ \A s \in Threads : cloned_version[s] = 0
RestoringHasBackup == app = "restoring" => path = Torn

IInv ==
  /\ TypeOK
  /\ RenamesItsOwn
  /\ MutualExclusion
  /\ LockedIsReady
  /\ ReadyFileIsWhole
  /\ DownIsIdle
  /\ RestoringHasBackup

USE DEF Missing, Torn, Default, Seen

-----------------------------------------------------------------------------
LEMMA InitInvariant == Init => IInv
<1> SUFFICES ASSUME Init PROVE IInv
  OBVIOUS
<1>1. /\ pc \in [Savers -> SaveStates] /\ clone \in [Savers -> Nat]
      /\ \A s \in Savers : pc[s] = "idle"
  BY DEF Init, SaveStates
<1>2. loaded_from_default \in BOOLEAN /\ save_pending \in BOOLEAN /\ ~loaded_from_default
  BY DEF Init
<1>3. QED
  BY <1>1, <1>2 DEF Init, IInv, TypeOK, RenamesItsOwn, MutualExclusion, LockedIsReady,
     ReadyFileIsWhole, DownIsIdle, RestoringHasBackup, AppStates, Locked, Up

\* A step of one save that takes no lock leaves its neighbours alone.
LEMMA StepOfOne ==
  ASSUME TypeOK, NEW s \in Savers, NEW next \in SaveStates, Goto(s, next)
  PROVE  /\ pc' \in [Savers -> SaveStates]
         /\ pc'[s] = next
         /\ \A t \in Savers \ {s} : pc'[t] = pc[t]
  BY DEF TypeOK, Goto

LEMMA SubmitOfOne ==
  ASSUME TypeOK, NEW s \in Savers, Submit(s)
  PROVE  /\ pc' \in [Savers -> SaveStates] /\ clone' \in [Savers -> Nat]
         /\ pc'[s] = "queued" /\ clone'[s] = data
         /\ \A t \in Savers \ {s} : pc'[t] = pc[t] /\ clone'[t] = clone[t]
  BY DEF TypeOK, Submit, SaveStates, Unsaved

\* Starting and loading: no save exists yet.
LEMMA LoadInvariant ==
  ASSUME IInv, Start \/ Load
  PROVE  IInv'
<1> USE DEF IInv, TypeOK, RenamesItsOwn, MutualExclusion, LockedIsReady,
        ReadyFileIsWhole, DownIsIdle, RestoringHasBackup, AppStates, SaveStates,
        Unsaved, Locked, Up, memory, saves, disk
<1>1. CASE Start
  BY <1>1 DEF Start
<1>2. CASE RestoreCopied
  BY <1>2 DEF RestoreCopied
<1>3. CASE LoadMissing
  BY <1>3 DEF LoadMissing, Loaded
<1>4. CASE LoadWhole
  <2>1. path \in Nat
    <3>1. Whole(path)
      BY <1>4 DEF LoadWhole
    <3>2. QED
      BY <3>1 DEF Whole
  <2>2. loaded_from_default' = FALSE
    BY <1>4 DEF LoadWhole, Loaded
  <2>3. /\ app' = "running" /\ data' = path /\ version' = 0 /\ last_saved' = 0
        /\ UNCHANGED <<disk, save_pending, timers, cloned_version, saves, edits>>
    BY <1>4 DEF LoadWhole, Loaded
  <2>4. /\ loaded_from_default' \in BOOLEAN
        /\ \A s \in Savers : pc[s] = "idle"
    BY <1>4, <2>2 DEF LoadWhole
  <2>5. QED
    BY <2>1, <2>3, <2>4
<1>5. CASE LoadUnreadable
  BY <1>5 DEF LoadUnreadable, Loaded
<1>6. CASE LoadCorrupt
  BY <1>6 DEF LoadCorrupt, Loaded
<1>7. QED
  BY <1>1, <1>2, <1>3, <1>4, <1>5, <1>6 DEF Load

\* The steps of the main thread: what is queued or returns holds no lock.
LEMMA MainInvariant ==
  ASSUME IInv,
         \/ Edit \/ replace_data \/ Notify \/ Quit \/ OnAppQuit \/ FlushReturns
         \/ \E s \in Threads : TimerFires(s) \/ SaveReturns(s)
  PROVE  IInv'
<1> USE DEF IInv, RenamesItsOwn, MutualExclusion, LockedIsReady,
        ReadyFileIsWhole, DownIsIdle, RestoringHasBackup, Up, disk
<1>1. CASE Edit \/ replace_data \/ Notify
  <2>1. /\ data' \in Nat /\ version' \in Nat /\ edits' \in Nat /\ timers' \in Nat
        /\ UNCHANGED <<disk, app, loaded_from_default, last_saved, cloned_version, saves>>
        /\ Up
    BY <1>1 DEF Edit, replace_data, Notify, Notification, Observe, TypeOK
  <2>2. save_pending' \in BOOLEAN
    BY <1>1 DEF Edit, replace_data, Notify, Notification, Observe, TypeOK
  <2>3. QED
    BY <2>1, <2>2 DEF TypeOK, saves
<1>2. CASE Quit \/ OnAppQuit
  <2>1. Submit(Main) /\ Main \in Savers /\ pc[Main] = "idle"
    BY <1>2 DEF Quit, OnAppQuit, Savers, MainFree
  <2>2. TypeOK'
    BY <1>2, <2>1, SubmitOfOne DEF Quit, OnAppQuit, TypeOK, AppStates, memory
  <2>3. QED
    BY <1>2, <2>1, <2>2, SubmitOfOne DEF Quit, OnAppQuit, MainFree, Locked, memory, AppStates
<1>3. CASE FlushReturns
  <2>1. Main \in Savers /\ pc[Main] \in {"ok", "failed"} /\ app \in AppStates
    BY <1>3 DEF FlushReturns, Savers, TypeOK
  <2>2. TypeOK'
    BY <1>3, <2>1 DEF FlushReturns, TypeOK, SaveStates, memory
  <2>3. \A t \in Savers : pc'[t] # "idle" => pc'[t] = pc[t] /\ clone'[t] = clone[t]
    BY <1>3, <2>1 DEF FlushReturns, TypeOK
  <2>4. QED
    BY <1>3, <2>1, <2>2, <2>3 DEF FlushReturns, Locked, memory
<1>4. ASSUME NEW s \in Threads, TimerFires(s)
      PROVE  IInv'
  <2>0. timers' \in Nat /\ save_pending' \in BOOLEAN
    <3>1. timers \in Nat /\ timers > 0 /\ timers' = timers - 1
      BY <1>4 DEF TimerFires, TypeOK
    <3>2. timers' \in Nat
      BY <3>1
    <3>3. save_pending' = FALSE
      BY <1>4 DEF TimerFires
    <3>4. QED
      BY <3>2, <3>3
  <2>1. s \in Savers
    BY DEF Savers
  <2>2. CASE save_pending
    <3>1. Submit(s) /\ pc[s] = "idle"
      BY <1>4, <2>2 DEF TimerFires
    <3>2. TypeOK'
      BY <1>4, <2>0, <2>1, <3>1, SubmitOfOne DEF TimerFires, TypeOK
    <3>3. QED
      BY <1>4, <2>1, <3>1, <3>2, SubmitOfOne DEF TimerFires, MainFree, Locked
  <2>3. CASE ~save_pending
    BY <1>4, <2>0, <2>3 DEF TimerFires, TypeOK, saves
  <2>4. QED
    BY <2>2, <2>3
<1>5. ASSUME NEW s \in Threads, SaveReturns(s)
      PROVE  IInv'
  <2>1. s \in Savers /\ pc[s] \in {"ok", "failed"}
    BY <1>5 DEF SaveReturns, Savers
  <2>2. TypeOK'
    BY <1>5, <2>1 DEF SaveReturns, TypeOK, SaveStates
  <2>3. \A t \in Savers : pc'[t] # "idle" => pc'[t] = pc[t] /\ clone'[t] = clone[t]
    BY <1>5, <2>1 DEF SaveReturns, TypeOK
  <2>4. QED
    BY <1>5, <2>1, <2>2, <2>3 DEF SaveReturns, MainFree, Locked
<1>6. QED
  BY <1>1, <1>2, <1>3, <1>4, <1>5

\* The steps of save_workspace.
LEMMA SaveInvariant ==
  ASSUME IInv, NEW s \in Savers, Save(s)
  PROVE  IInv'
<1> USE DEF IInv
<1>0. Up /\ app \in AppStates
  BY DEF Save, TakeLock, BackUp, CreateTmp, WriteTmp, RenameTmp, SaveFails, SaveStep,
         DownIsIdle, Locked, TypeOK
<1>1. CASE TakeLock(s)
  <2>1. PICK next \in {"ok", "backup"} :
          Goto(s, next) /\ (next = "backup" => ~loaded_from_default)
    BY <1>1 DEF TakeLock
  <2>2. next \in SaveStates
    BY <2>1 DEF SaveStates, Unsaved, Locked
  <2>3. /\ pc' \in [Savers -> SaveStates] /\ pc'[s] = next
        /\ \A t \in Savers \ {s} : pc'[t] = pc[t] /\ pc[t] \notin Locked
    BY <1>1, <2>1, <2>2, StepOfOne DEF TakeLock, LockFree
  <2>4. QED
    BY <1>0, <1>1, <2>1, <2>3 DEF TakeLock, SaveStep, TypeOK, RenamesItsOwn,
       MutualExclusion, LockedIsReady, ReadyFileIsWhole, DownIsIdle,
       RestoringHasBackup, Up, memory, Locked
<1>2. ASSUME ~TakeLock(s)
      PROVE  IInv'
  <2>1. PICK next \in {"create", "write", "rename", "ok", "failed"} :
          /\ Goto(s, next)
          /\ pc[s] \in Locked
          /\ UNCHANGED <<app, loaded_from_default, data, version, last_saved,
                         save_pending, timers, cloned_version, clone, edits, corrupt>>
    BY <1>2 DEF Save, BackUp, CreateTmp, WriteTmp, RenameTmp, SaveFails, SaveStep,
       memory, Locked
  <2>2. next \in SaveStates
    BY <2>1 DEF SaveStates, Unsaved, Locked
  <2>3. /\ pc' \in [Savers -> SaveStates] /\ pc'[s] = next
        /\ \A t \in Savers \ {s} : pc'[t] = pc[t] /\ pc[t] \notin Locked
    BY <2>1, <2>2, StepOfOne DEF MutualExclusion
  <2>4. /\ path' \in Nat \cup {Missing, Torn} /\ bak' \in Nat \cup {Missing, Torn}
        /\ tmp' \in Nat \cup {Missing, Torn}
        /\ path' # Torn
        /\ next = "rename" => tmp' = clone[s]
    <3>1. path # Torn /\ clone[s] \in Nat
      BY <1>0, <2>1 DEF ReadyFileIsWhole, LockedIsReady, TypeOK
    <3>2. CASE BackUp(s)
      BY <2>1, <2>3, <3>1, <3>2 DEF BackUp, SaveStep, TypeOK, Goto
    <3>3. CASE CreateTmp(s) \/ WriteTmp(s)
      BY <2>1, <2>3, <3>1, <3>3 DEF CreateTmp, WriteTmp, SaveStep, TypeOK, Goto
    <3>4. CASE RenameTmp(s)
      BY <2>1, <2>3, <3>1, <3>4 DEF RenameTmp, SaveStep, TypeOK, Goto, RenamesItsOwn
    <3>5. CASE SaveFails(s)
      BY <2>1, <2>3, <3>1, <3>5 DEF SaveFails, SaveStep, TypeOK, Goto
    <3>6. QED
      BY <1>2, <3>2, <3>3, <3>4, <3>5 DEF Save
  <2>5. QED
    BY <1>0, <2>1, <2>3, <2>4 DEF TypeOK, RenamesItsOwn, MutualExclusion, LockedIsReady,
       ReadyFileIsWhole, DownIsIdle, RestoringHasBackup, Up, Locked
<1>3. QED
  BY <1>1, <1>2

LEMMA StopInvariant ==
  ASSUME IInv, Exit \/ Crash
  PROVE  IInv'
<1>1. NoProcess /\ app' = "down" /\ UNCHANGED <<disk, edits>>
  BY DEF Exit, Crash
<1>2. /\ pc' \in [Savers -> SaveStates] /\ clone' \in [Savers -> Nat]
      /\ \A s \in Savers : pc'[s] = "idle"
  BY <1>1 DEF NoProcess, SaveStates
<1>3. loaded_from_default' \in BOOLEAN /\ save_pending' \in BOOLEAN /\ ~loaded_from_default'
  BY <1>1 DEF NoProcess
<1>4. QED
  BY <1>1, <1>2, <1>3 DEF NoProcess, disk, IInv, TypeOK, RenamesItsOwn, MutualExclusion,
     LockedIsReady, ReadyFileIsWhole, DownIsIdle, RestoringHasBackup, AppStates, Locked, Up

LEMMA StutterInvariant ==
  ASSUME IInv, UNCHANGED vars
  PROVE  IInv'
  BY DEF vars, disk, memory, saves, IInv, TypeOK, RenamesItsOwn, MutualExclusion,
     LockedIsReady, ReadyFileIsWhole, DownIsIdle, RestoringHasBackup, Up

LEMMA NextInvariant == IInv /\ [Next]_vars => IInv'
  BY LoadInvariant, MainInvariant, SaveInvariant, StopInvariant, StutterInvariant DEF Next

(* The invariant from which the other theorems follow: what the lock, the  *)
(* protection layers and the restore guarantee together.                   *)
THEOREM Invariant == Spec => []IInv
<1>1. Init => IInv
  BY InitInvariant
<1>2. IInv /\ [Next]_vars => IInv'
  BY NextInvariant
<1>3. QED
  BY <1>1, <1>2, PTL DEF Spec

(* Every file is missing, torn or one whole workspace, and every saver is  *)
(* at one of its steps, whatever fails and wherever the process dies.      *)
THEOREM TypeCorrect == Spec => []TypeOK
<1>1. IInv => TypeOK
  BY DEF IInv
<1>2. QED
  BY <1>1, Invariant, PTL

\* What a save renames to workspace.json is the workspace it was given.
THEOREM SavesRenameTheirOwn == Spec => []RenamesItsOwn
<1>1. IInv => RenamesItsOwn
  BY DEF IInv
<1>2. QED
  BY <1>1, Invariant, PTL

-----------------------------------------------------------------------------
(* The backup.  It changes only when a whole workspace is renamed to it,   *)
(* or when there was none.                                                 *)
LEMMA BackupStep == IInv /\ [Next]_vars => (Whole(bak) => Whole(bak'))
<1> SUFFICES ASSUME IInv, [Next]_vars, Whole(bak), bak' # bak
             PROVE  Whole(bak')
  OBVIOUS
<1>1. bak # Missing
  BY DEF Whole
<1>2. ~LoadCorrupt
  BY <1>1 DEF LoadCorrupt
<1>3. PICK s \in Savers : BackUp(s)
  BY <1>2 DEF Next, vars, disk, Start, Load, RestoreCopied, LoadMissing, LoadWhole,
     LoadUnreadable, Edit, replace_data, Notify, Notification, TimerFires, SaveReturns,
     Save, TakeLock, CreateTmp, WriteTmp, RenameTmp, SaveFails, Quit, OnAppQuit,
     FlushReturns, Exit, Crash
<1>4. bak' = path /\ path # Missing /\ pc[s] = "backup"
  BY <1>3 DEF BackUp, SaveStep
<1>5. path # Torn /\ path \in Nat \cup {Missing, Torn}
  BY <1>4 DEF IInv, TypeOK, ReadyFileIsWhole, LockedIsReady, DownIsIdle, Locked
<1>6. path \in Nat
  BY <1>4, <1>5
<1>7. QED
  BY <1>4, <1>6 DEF Whole

\* Nothing turns a whole backup into a torn one.
THEOREM BackupSafe == Spec => BackupStaysWhole
  BY Invariant, BackupStep, PTL DEF Spec, BackupStaysWhole

-----------------------------------------------------------------------------
(* The safety half of ChangeIsTried: between the notification of a change  *)
(* and the save that holds it, the change is never dropped.                *)

\* The flag is up only while a timer that will take it down runs.
PendingHasTimer == save_pending => timers > 0

\* No file, save or process holds a workspace later than the last one made, and
\* no version is later than that of the workspace.
NothingLater ==
  /\ path <= edits /\ bak <= edits /\ tmp <= edits
  /\ data <= edits
  /\ \A s \in Savers : clone[s] <= edits
  /\ last_saved <= version
  /\ \A s \in Threads : cloned_version[s] <= version

Held == PendingHasTimer /\ NothingLater

\* Workspace n under version v, or a later one, is in memory and waits for a timer.
Waits(n, v) == Up /\ save_pending /\ data >= n /\ version >= v

\* A save of that workspace, or of a later one, has been given to the pool.
Given(s, n, v) == pc[s] = "queued" /\ clone[s] >= n /\ cloned_version[s] >= v

(* A change that waits for a timer waits on until a save of it, or of a    *)
(* later one, is queued, or the process ends: neither another change, nor  *)
(* a timer that finds the flag down, nor the return of an older save or    *)
(* its failure makes it forgotten (app/mod.rs, the observer and its timer).*)
ChangeIsHeld ==
  [][\A n, v \in Nat :
       Waits(n, v) => Waits(n, v)' \/ ~Up' \/ \E s \in Threads : Given(s, n, v)']_vars

LEMMA InitHeld == Init => Held
  BY DEF Init, Held, PendingHasTimer, NothingLater

\* The actions of the main thread.
LEMMA MainHeld ==
  ASSUME IInv, Held,
         \/ Edit \/ replace_data \/ Notify \/ Quit \/ OnAppQuit \/ FlushReturns
         \/ \E s \in Threads : TimerFires(s) \/ SaveReturns(s)
  PROVE  Held'
<1> USE DEF IInv, TypeOK, Held, PendingHasTimer, NothingLater, disk, memory, saves
<1>1. CASE Edit \/ replace_data \/ Notify
  BY <1>1 DEF Edit, replace_data, Notify, Notification, Observe
<1>2. CASE Quit \/ OnAppQuit
  <2>1. Main \in Savers /\ Submit(Main)
    BY <1>2 DEF Quit, OnAppQuit, Savers
  <2>2. QED
    BY <1>2, <2>1, SubmitOfOne DEF Quit, OnAppQuit
<1>3. CASE FlushReturns
  BY <1>3 DEF FlushReturns
<1>4. ASSUME NEW s \in Threads, TimerFires(s)
      PROVE  Held'
  <2>1. /\ save_pending' = FALSE /\ s \in Savers
        /\ UNCHANGED <<disk, data, version, last_saved, edits>>
    BY <1>4 DEF TimerFires, Savers
  <2>2. CASE save_pending
    <3>1. Submit(s) /\ cloned_version' = [cloned_version EXCEPT ![s] = version]
      BY <1>4, <2>2 DEF TimerFires
    <3>2. QED
      BY <2>1, <3>1, SubmitOfOne
  <2>3. CASE ~save_pending
    BY <1>4, <2>1, <2>3 DEF TimerFires
  <2>4. QED
    BY <2>2, <2>3
<1>5. ASSUME NEW s \in Threads, SaveReturns(s)
      PROVE  Held'
  BY <1>5 DEF SaveReturns, Savers
<1>6. QED
  BY <1>1, <1>2, <1>3, <1>4, <1>5

\* Loads, saves and the end of the process: they copy what is there.
LEMMA OtherHeld ==
  ASSUME IInv, Held,
         Start \/ Load \/ Exit \/ Crash \/ \E s \in Savers : Save(s)
  PROVE  Held'
<1> USE DEF IInv, TypeOK, Held, PendingHasTimer, NothingLater, disk, memory, saves
<1>1. CASE Start
  BY <1>1 DEF Start
<1>2. CASE Load
  BY <1>2 DEF Load, RestoreCopied, LoadMissing, LoadWhole, LoadUnreadable, LoadCorrupt,
     Loaded, DownIsIdle, Up
<1>3. CASE Exit \/ Crash
  BY <1>3 DEF Exit, Crash, NoProcess
<1>4. ASSUME NEW s \in Savers, Save(s)
      PROVE  Held'
  BY <1>4 DEF Save, TakeLock, BackUp, CreateTmp, WriteTmp, RenameTmp, SaveFails, SaveStep
<1>5. QED
  BY <1>1, <1>2, <1>3, <1>4

LEMMA NextHeld == IInv /\ Held /\ [Next]_vars => Held'
<1>1. ASSUME Held, UNCHANGED vars
      PROVE  Held'
  BY <1>1 DEF Held, PendingHasTimer, NothingLater, vars, disk, memory, saves
<1>2. QED
  BY <1>1, MainHeld, OtherHeld DEF Next

(* Nothing is stored, loaded or saved that was not made, and no change     *)
(* waits for a timer that does not run.                                    *)
THEOREM HeldAlways == Spec => []Held
<1>1. Init => Held
  BY InitHeld
<1>2. IInv /\ Held /\ [Next]_vars => Held'
  BY NextHeld
<1>3. QED
  BY <1>1, <1>2, Invariant, PTL DEF Spec

LEMMA HeldStep ==
  ASSUME IInv, Held, [Next]_vars, NEW n \in Nat, NEW v \in Nat, Waits(n, v)
  PROVE  Waits(n, v)' \/ ~Up' \/ \E s \in Threads : Given(s, n, v)'
<1> USE DEF Waits
<1>1. CASE UNCHANGED <<app, save_pending, data, version>>
  BY <1>1 DEF Up
<1>2. CASE Start \/ Load
  BY <1>2 DEF Start, Load, RestoreCopied, LoadMissing, LoadWhole, LoadUnreadable,
     LoadCorrupt, Up
<1>3. CASE Edit \/ replace_data \/ Notify
  <2>1. /\ data <= edits /\ data \in Nat /\ edits \in Nat /\ version \in Nat
        /\ data' = data \/ data' = edits + 1
        /\ version' = version \/ version' = version + 1
    BY <1>3 DEF Edit, replace_data, Notify, Notification, Held, NothingLater, IInv, TypeOK
  <2>2. data' >= n /\ version' >= v
    BY <2>1
  <2>3. Up' /\ save_pending'
    BY <1>3 DEF Edit, replace_data, Notify, Notification, Observe, Up
  <2>4. QED
    BY <2>2, <2>3
<1>5. ASSUME NEW s \in Threads, TimerFires(s)
      PROVE  \E t \in Threads : Given(t, n, v)'
  <2>1. /\ Submit(s) /\ s \in Savers
        /\ cloned_version' = [cloned_version EXCEPT ![s] = version]
    BY <1>5 DEF TimerFires, Savers
  <2>2. pc'[s] = "queued" /\ clone'[s] = data /\ cloned_version'[s] = version
    BY <2>1, SubmitOfOne DEF IInv, TypeOK
  <2>3. QED
    BY <2>2 DEF Given
<1>6. CASE Quit \/ OnAppQuit
  BY <1>6 DEF Quit, OnAppQuit, memory, Up
<1>7. CASE Exit \/ Crash
  BY <1>7 DEF Exit, Crash, Up
<1>8. CASE \/ FlushReturns
           \/ \E s \in Threads : SaveReturns(s)
           \/ \E s \in Savers : Save(s)
  BY <1>1, <1>8 DEF FlushReturns, SaveReturns, Save, TakeLock, BackUp, CreateTmp,
     WriteTmp, RenameTmp, SaveFails, SaveStep, memory
<1>9. QED
  BY <1>1, <1>2, <1>3, <1>5, <1>6, <1>7, <1>8 DEF Next, vars, memory

(* No change is dropped between its notification and its save.             *)
THEOREM ChangesAreHeld == Spec => ChangeIsHeld
<1>1. IInv /\ Held /\ [Next]_vars
      => [\A n, v \in Nat :
            Waits(n, v) => Waits(n, v)' \/ ~Up' \/ \E s \in Threads : Given(s, n, v)']_vars
  BY HeldStep
<1>2. QED
  BY <1>1, Invariant, HeldAlways, PTL DEF Spec, ChangeIsHeld

-----------------------------------------------------------------------------
(* What is on disk.  A save changes it at its rename and at no other step. *)
LEMMA SaveOnDisk ==
  ASSUME IInv, NEW s \in Savers, Save(s)
  PROVE  \/ /\ RenameTmp(s)
            /\ pc[s] = "rename" /\ pc'[s] = "ok"
            /\ OnDisk' = clone[s]
         \/ /\ ~RenameTmp(s)
            /\ OnDisk' = OnDisk
<1> USE DEF IInv
<1>1. CASE RenameTmp(s)
  <2>1. pc[s] = "rename" /\ pc'[s] = "ok" /\ path' = clone[s] /\ clone[s] \in Nat
    BY <1>1 DEF RenameTmp, SaveStep, Goto, RenamesItsOwn, TypeOK
  <2>2. OnDisk' = clone[s]
    BY <2>1 DEF OnDisk, Whole
  <2>3. QED
    BY <1>1, <2>1, <2>2
<1>2. CASE BackUp(s) /\ ~RenameTmp(s)
  <2>1. pc[s] = "backup" /\ path \in Nat \cup {Missing, Torn}
    BY <1>2 DEF BackUp, SaveStep, TypeOK
  <2>2. path = Missing \/ path \in Nat
    BY <2>1 DEF LockedIsReady, ReadyFileIsWhole, DownIsIdle, Locked
  <2>3. CASE UNCHANGED <<path, bak>>
    BY <1>2, <2>3 DEF OnDisk
  <2>4. CASE path \in Nat /\ bak' = path /\ path' = Missing
    BY <1>2, <2>4 DEF OnDisk, Whole
  <2>5. QED
    BY <1>2, <2>2, <2>3, <2>4 DEF BackUp
<1>3. CASE (TakeLock(s) \/ CreateTmp(s) \/ WriteTmp(s) \/ SaveFails(s)) /\ ~RenameTmp(s)
  BY <1>3 DEF TakeLock, CreateTmp, WriteTmp, SaveFails, OnDisk
<1>4. QED
  BY <1>1, <1>2, <1>3 DEF Save

\* What a step of a save leaves of the rest.
LEMMA SaveFrame ==
  ASSUME IInv, NEW s \in Savers, Save(s)
  PROVE  /\ Up /\ pc[s] \in Unsaved /\ pc'[s] # "idle"
         /\ UNCHANGED <<app, loaded_from_default, memory, clone, edits>>
         /\ \A t \in Savers \ {s} : pc'[t] = pc[t]
         /\ pc'[s] = "ok" => RenameTmp(s) \/ loaded_from_default
<1> USE DEF IInv
<1>1. /\ Up /\ pc[s] \in Unsaved
      /\ UNCHANGED <<app, loaded_from_default, memory, clone, edits>>
  BY DEF Save, TakeLock, BackUp, CreateTmp, WriteTmp, RenameTmp, SaveFails, SaveStep,
     Unsaved, Locked, DownIsIdle
<1>2. PICK next \in SaveStates \ {"idle"} :
        Goto(s, next) /\ (next = "ok" => RenameTmp(s) \/ loaded_from_default)
  <2>1. CASE TakeLock(s) /\ loaded_from_default
    BY <2>1 DEF TakeLock, SaveStates
  <2>2. CASE TakeLock(s) /\ ~loaded_from_default
    BY <2>2 DEF TakeLock, SaveStates, Unsaved, Locked
  <2>3. CASE BackUp(s) \/ CreateTmp(s) \/ WriteTmp(s) \/ SaveFails(s)
    BY <2>3 DEF BackUp, CreateTmp, WriteTmp, SaveFails, SaveStates, Unsaved, Locked
  <2>4. CASE RenameTmp(s)
    BY <2>4 DEF RenameTmp, SaveStates
  <2>5. QED
    BY <2>1, <2>2, <2>3, <2>4 DEF Save
<1>3. pc'[s] = next /\ \A t \in Savers \ {s} : pc'[t] = pc[t]
  BY <1>2, StepOfOne
<1>4. QED
  BY <1>1, <1>2, <1>3

(* A process that is not protected has read what was stored, so that none  *)
(* of its saves takes back a change of an earlier process: no file that    *)
(* counts and no save under way is ahead of the workspace in memory        *)
(* (load_workspace and the guard at the head of save_workspace).           *)
Ready == Up /\ ~loaded_from_default
MemoryIsAhead ==
  Ready => /\ OnDisk <= data
           /\ \A s \in Savers : pc[s] # "idle" => clone[s] <= data

\* The save of on_app_quit is one of the last workspace.
FlushHasAll == app = "exiting" /\ pc[Main] # "idle" => clone[Main] = data

(* When the flush of a quit has succeeded, the last workspace is on disk,  *)
(* or that of a save of the pool which was under way when the application  *)
(* quit and took the lock after the flush (main.rs, on_app_quit).          *)
FlushIsOvertaken ==
  app = "exiting" /\ pc[Main] = "ok" /\ ~loaded_from_default
    => \/ OnDisk = data
       \/ \E s \in Threads : pc[s] = "ok" /\ OnDisk = clone[s]

Ahead == MemoryIsAhead /\ FlushHasAll /\ FlushIsOvertaken

LEMMA InitAhead == Init => Ahead
  BY DEF Init, Ahead, MemoryIsAhead, FlushHasAll, FlushIsOvertaken, Ready, Up

\* A load that does not fall back reads what is stored.
LEMMA LoadAhead ==
  ASSUME IInv, Start \/ Load
  PROVE  Ahead'
<1> USE DEF IInv, TypeOK
<1>1. /\ UNCHANGED saves /\ app' # "exiting"
      /\ \A s \in Savers : pc[s] = "idle"
  BY DEF Start, Load, RestoreCopied, LoadMissing, LoadWhole, LoadUnreadable, LoadCorrupt,
     Loaded, DownIsIdle, Up
<1>2. CASE Start \/ RestoreCopied
  BY <1>1, <1>2 DEF Start, RestoreCopied, Ahead, MemoryIsAhead, FlushHasAll,
     FlushIsOvertaken, Ready, Up
<1>3. CASE LoadMissing \/ LoadWhole \/ LoadUnreadable \/ LoadCorrupt
  <2>1. Ready' => OnDisk' <= data' /\ data' \in Nat
    <3>1. CASE LoadMissing
      <4>1. Ready' => bak = Missing /\ bak' = bak /\ path' = Missing
        BY <3>1 DEF LoadMissing, Loaded, Ready
      <4>2. data' = Default
        BY <3>1 DEF LoadMissing, Loaded
      <4>3. QED
        BY <4>1, <4>2 DEF OnDisk, Whole
    <3>2. CASE LoadWhole
      BY <3>2 DEF LoadWhole, Loaded, OnDisk, Whole
    <3>3. CASE LoadUnreadable \/ LoadCorrupt
      BY <3>3 DEF LoadUnreadable, LoadCorrupt, Loaded, Ready
    <3>4. QED
      BY <1>3, <3>1, <3>2, <3>3
  <2>2. QED
    BY <1>1, <2>1 DEF saves, Ahead, MemoryIsAhead, FlushHasAll, FlushIsOvertaken
<1>4. QED
  BY <1>2, <1>3 DEF Load

\* The main thread queues what is in memory and has nothing under way while it does.
LEMMA MainAhead ==
  ASSUME IInv, Held, Ahead,
         \/ Edit \/ replace_data \/ Notify \/ Quit \/ OnAppQuit \/ FlushReturns
         \/ \E s \in Threads : TimerFires(s) \/ SaveReturns(s)
  PROVE  Ahead'
<1> USE DEF IInv, Ahead
<1>0. Main \in Savers /\ Threads \subseteq Savers /\ \A s \in Threads : s # Main
  BY SaversAssumption DEF Savers
<1>1. OnDisk' = OnDisk /\ loaded_from_default' = loaded_from_default
  BY DEF Edit, replace_data, Notify, Notification, Quit, OnAppQuit, FlushReturns,
     TimerFires, SaveReturns, disk, OnDisk
<1>2. Up
  BY <1>0 DEF Edit, replace_data, Notify, Notification, Quit, OnAppQuit, FlushReturns,
     TimerFires, SaveReturns, MainFree, DownIsIdle
<1>3. OnDisk \in Int /\ data \in Nat /\ clone \in [Savers -> Nat]
  BY DEF TypeOK, OnDisk, Whole
<1>4. CASE Edit \/ replace_data \/ Notify
  <2>1. UNCHANGED <<app, pc, clone>> /\ app = "running"
    BY <1>4 DEF Edit, replace_data, Notify, Notification, saves
  <2>2. data <= data' /\ data' \in Nat
    BY <1>4 DEF Edit, replace_data, Notify, Notification, Held, NothingLater, TypeOK
  <2>3. MemoryIsAhead'
    BY <1>1, <1>2, <1>3, <2>1, <2>2 DEF MemoryIsAhead, Ready
  <2>4. QED
    BY <2>1, <2>3 DEF FlushHasAll, FlushIsOvertaken
<1>5. ASSUME NEW s \in Savers, Submit(s), UNCHANGED data,
             s = Main \/ (app' = app /\ pc[Main] = "idle")
      PROVE  Ahead'
  <2>1. /\ pc'[s] = "queued" /\ clone'[s] = data
        /\ \A t \in Savers \ {s} : pc'[t] = pc[t] /\ clone'[t] = clone[t]
    BY <1>5, SubmitOfOne
  <2>2. MemoryIsAhead'
    BY <1>1, <1>2, <1>3, <1>5, <2>1 DEF MemoryIsAhead, Ready
  <2>3. pc'[Main] # "ok" /\ (pc'[Main] # "idle" => clone'[Main] = data')
    BY <1>0, <1>5, <2>1
  <2>4. QED
    BY <2>2, <2>3 DEF FlushHasAll, FlushIsOvertaken
<1>6. CASE Quit \/ OnAppQuit
  BY <1>0, <1>5, <1>6 DEF Quit, OnAppQuit, memory
<1>7. ASSUME NEW s \in Threads, TimerFires(s)
      PROVE  Ahead'
  <2>1. UNCHANGED <<app, data>> /\ pc[Main] = "idle"
    BY <1>7 DEF TimerFires, MainFree
  <2>2. CASE save_pending
    BY <1>0, <1>5, <1>7, <2>1, <2>2 DEF TimerFires
  <2>3. CASE ~save_pending
    BY <1>1, <1>2, <1>7, <2>1, <2>3 DEF TimerFires, saves, MemoryIsAhead, Ready,
       FlushHasAll, FlushIsOvertaken
  <2>4. QED
    BY <2>2, <2>3
<1>8. ASSUME NEW s \in Savers, pc' = [pc EXCEPT ![s] = "idle"],
             clone' = [clone EXCEPT ![s] = Default], UNCHANGED <<app, data>>,
             s = Main \/ pc[Main] = "idle"
      PROVE  Ahead'
  <2>1. /\ pc'[s] = "idle" /\ pc'[Main] = "idle"
        /\ \A t \in Savers \ {s} : pc'[t] = pc[t] /\ clone'[t] = clone[t]
    BY <1>0, <1>8 DEF TypeOK
  <2>2. MemoryIsAhead'
    BY <1>1, <1>2, <1>8, <2>1 DEF MemoryIsAhead, Ready
  <2>3. QED
    BY <2>1, <2>2 DEF FlushHasAll, FlushIsOvertaken
<1>9. CASE FlushReturns
  BY <1>0, <1>8, <1>9 DEF FlushReturns, memory
<1>10. ASSUME NEW s \in Threads, SaveReturns(s)
       PROVE  Ahead'
  BY <1>0, <1>8, <1>10 DEF SaveReturns, MainFree
<1>11. QED
  BY <1>4, <1>6, <1>7, <1>9, <1>10

\* A rename puts on disk what its save was given.
LEMMA SaveAhead ==
  ASSUME IInv, Ahead, NEW s \in Savers, Save(s)
  PROVE  Ahead'
<1> USE DEF Ahead
<1>0. Main \in Savers /\ Threads = Savers \ {Main}
  BY SaversAssumption DEF Savers
<1>1. /\ pc[s] \in Unsaved /\ pc'[s] # "idle" /\ pc[s] # "idle" /\ pc[s] # "ok" /\ Up
      /\ UNCHANGED <<app, loaded_from_default, data, clone>>
      /\ \A t \in Savers \ {s} : pc'[t] = pc[t]
      /\ pc'[s] = "ok" => RenameTmp(s) \/ loaded_from_default
  BY SaveFrame DEF memory, Unsaved, Locked
<1>2. \/ RenameTmp(s) /\ pc'[s] = "ok" /\ OnDisk' = clone[s]
      \/ ~RenameTmp(s) /\ OnDisk' = OnDisk
  BY SaveOnDisk
<1>3. MemoryIsAhead'
  BY <1>1, <1>2 DEF MemoryIsAhead, Ready, Up
<1>4. FlushHasAll'
  BY <1>0, <1>1 DEF FlushHasAll
<1>5. FlushIsOvertaken'
  <2>1. SUFFICES ASSUME app = "exiting", pc'[Main] = "ok", ~loaded_from_default
                 PROVE  \/ OnDisk' = data
                        \/ \E t \in Threads : pc'[t] = "ok" /\ OnDisk' = clone[t]
    BY <1>1 DEF FlushIsOvertaken
  <2>2. CASE s = Main
    BY <1>1, <1>2, <2>1, <2>2 DEF FlushHasAll
  <2>3. CASE s # Main /\ RenameTmp(s)
    BY <1>0, <1>2, <2>3
  <2>4. CASE s # Main /\ ~RenameTmp(s)
    <3>1. pc[Main] = "ok" /\ OnDisk' = OnDisk
      BY <1>0, <1>1, <1>2, <2>1, <2>4
    <3>2. CASE OnDisk = data
      BY <3>1, <3>2
    <3>3. ASSUME NEW t \in Threads, pc[t] = "ok", OnDisk = clone[t]
          PROVE  pc'[t] = "ok" /\ OnDisk' = clone[t]
      BY <1>0, <1>1, <3>1, <3>3
    <3>4. QED
      BY <2>1, <3>1, <3>2, <3>3 DEF FlushIsOvertaken
  <2>5. QED
    BY <2>2, <2>3, <2>4
<1>6. QED
  BY <1>3, <1>4, <1>5

LEMMA NextAhead == IInv /\ Held /\ Ahead /\ [Next]_vars => Ahead'
<1>1. ASSUME Exit \/ Crash
      PROVE  Ahead'
  BY <1>1 DEF Exit, Crash, Ahead, MemoryIsAhead, FlushHasAll, FlushIsOvertaken, Ready, Up
<1>2. ASSUME Ahead, UNCHANGED vars
      PROVE  Ahead'
  BY <1>2 DEF vars, disk, memory, saves, OnDisk, Ahead, MemoryIsAhead, FlushHasAll,
     FlushIsOvertaken, Ready, Up
<1>3. QED
  BY <1>1, <1>2, LoadAhead, MainAhead, SaveAhead DEF Next

\* What a quit leaves on disk, and what its saves may have overtaken.
LEMMA AheadAlways == Spec => []Ahead
<1>1. Init => Ahead
  BY InitAhead
<1>2. IInv /\ Held /\ Ahead /\ [Next]_vars => Ahead'
  BY NextAhead
<1>3. QED
  BY <1>1, <1>2, Invariant, HeldAlways, PTL DEF Spec

(* A process that may save is never behind what is stored: whatever fails, *)
(* is retried or is restarted, no save replaces a workspace that its       *)
(* process has not read or made itself.                                    *)
THEOREM MemoryStaysAhead == Spec => []MemoryIsAhead
<1>1. Ahead => MemoryIsAhead
  BY DEF Ahead
<1>2. QED
  BY <1>1, AheadAlways, PTL

(* The flush of a quit saves the last workspace, and only a save that was  *)
(* under way at the quit can put an older one over it.                     *)
THEOREM FlushIsLast == Spec => [](FlushHasAll /\ FlushIsOvertaken)
<1>1. Ahead => FlushHasAll /\ FlushIsOvertaken
  BY DEF Ahead
<1>2. QED
  BY <1>1, AheadAlways, PTL

-----------------------------------------------------------------------------
(* The safety half of QuitEnds: while the main thread waits in the flush,  *)
(* every step of the process brings one save nearer to its end.            *)
Steps(state) ==
  CASE state = "queued" -> 6
    [] state = "backup" -> 5
    [] state = "create" -> 4
    [] state = "write"  -> 3
    [] state = "rename" -> 2
    [] state \in {"ok", "failed"} -> 1
    [] state = "idle"   -> 0

(* No timer, change or callback queues another save before the flush has   *)
(* returned, and no save goes back, fails twice or waits for the main      *)
(* thread: the flush is overtaken by the saves under way at the quit only, *)
(* and after a bounded number of steps it has returned, or the process has *)
(* died (on_app_quit is synchronous, save_workspace has no retry).         *)
FlushNears ==
  [][app = "exiting" /\ pc[Main] # "idle" =>
       \/ ~Up'
       \/ /\ app' = "exiting"
          /\ \E s \in Savers : /\ Steps(pc'[s]) < Steps(pc[s])
                              /\ \A t \in Savers \ {s} : pc'[t] = pc[t]]_vars

LEMMA SaveNears ==
  ASSUME IInv, NEW s \in Savers, Save(s)
  PROVE  Steps(pc'[s]) < Steps(pc[s])
<1> USE DEF IInv, TypeOK, Goto, Steps
<1>1. CASE TakeLock(s)
  BY <1>1 DEF TakeLock, SaveStep
<1>2. CASE BackUp(s) \/ CreateTmp(s)
  BY <1>2 DEF BackUp, CreateTmp, SaveStep
<1>3. CASE WriteTmp(s) \/ RenameTmp(s)
  BY <1>3 DEF WriteTmp, RenameTmp, SaveStep
<1>4. CASE SaveFails(s)
  BY <1>4 DEF SaveFails, SaveStep, Locked
<1>5. QED
  BY <1>1, <1>2, <1>3, <1>4 DEF Save

LEMMA FlushStep ==
  ASSUME IInv, Next, app = "exiting", pc[Main] # "idle"
  PROVE  \/ ~Up'
         \/ /\ app' = "exiting"
            /\ \E s \in Savers : /\ Steps(pc'[s]) < Steps(pc[s])
                                /\ \A t \in Savers \ {s} : pc'[t] = pc[t]
<1>1. ASSUME NEW s \in Savers, Save(s)
      PROVE  /\ app' = "exiting"
             /\ Steps(pc'[s]) < Steps(pc[s]) /\ \A t \in Savers \ {s} : pc'[t] = pc[t]
  BY <1>1, SaveNears, SaveFrame
<1>2. CASE FlushReturns
  <2>1. /\ Main \in Savers /\ pc[Main] \in {"ok", "failed"} /\ app' = "exiting"
        /\ pc'[Main] = "idle" /\ \A t \in Savers \ {Main} : pc'[t] = pc[t]
    BY <1>2 DEF FlushReturns, IInv, TypeOK, Savers
  <2>2. Steps(pc'[Main]) < Steps(pc[Main])
    BY <2>1 DEF Steps
  <2>3. QED
    BY <2>1, <2>2
<1>3. CASE Crash
  BY <1>3 DEF Crash, Up
<1>4. QED
  BY <1>1, <1>2, <1>3 DEF Next, Start, Load, RestoreCopied, LoadMissing, LoadWhole,
     LoadUnreadable, LoadCorrupt, Edit, replace_data, Notify, Notification, TimerFires,
     SaveReturns, Quit, OnAppQuit, Exit, MainFree

\* The flush of a quit comes nearer to its end with every step of the process.
THEOREM FlushComesNearer == Spec => FlushNears
<1>1. IInv /\ [Next]_vars
      => [app = "exiting" /\ pc[Main] # "idle" =>
            \/ ~Up'
            \/ /\ app' = "exiting"
               /\ \E s \in Savers : /\ Steps(pc'[s]) < Steps(pc[s])
                                   /\ \A t \in Savers \ {s} : pc'[t] = pc[t]]_vars
  BY FlushStep
<1>2. QED
  BY <1>1, Invariant, PTL DEF Spec, FlushNears

-----------------------------------------------------------------------------
(* The refinement: AutoSave implements WorkspaceStore.                     *)
Mode == IF ~Up THEN "down" ELSE IF loaded_from_default THEN "protected" ELSE "ready"
Saving == [s \in Savers |-> IF pc[s] \in Unsaved THEN clone[s] ELSE -1]

LEMMA StoreInit == Init => Store!Init
<1> SUFFICES ASSUME Init PROVE Store!Init
  OBVIOUS
<1>1. OnDisk \in Nat \cup {-1}
  BY DEF Init, OnDisk, Whole
<1>2. ~Up
  BY DEF Init, Up
<1>3. Saving = [s \in Savers |-> -1]
  BY DEF Init, Saving, Unsaved, Locked
<1>4. QED
  BY <1>1, <1>2, <1>3 DEF Init, Store!Init, Store!NothingSaving, Store!Contents,
     Store!None, Store!Default, Saving

\* The store sees of a step only what it changes on disk, in memory, and of the saves.
LEMMA Stutter ==
  ASSUME OnDisk' = OnDisk, data' = data, Mode' = Mode, Saving' = Saving
  PROVE  UNCHANGED Store!vars
  BY DEF Store!vars, Mode, Saving

\* One save moves on; the others keep their workspaces.
LEMMA SavingOfOne ==
  ASSUME NEW s \in Savers,
         \A t \in Savers \ {s} : pc'[t] = pc[t] /\ clone'[t] = clone[t]
  PROVE  Saving' = [Saving EXCEPT ![s] =
                      IF pc'[s] \in Unsaved THEN clone'[s] ELSE -1]
  BY DEF Saving

\* A load ends: the process has what was stored, or is protected.
LEMMA LoadSteps ==
  ASSUME IInv, Start \/ Load
  PROVE  [Store!Next]_(Store!vars)
<1> USE DEF IInv, TypeOK
<1>1. ~Up
  BY DEF Start, Load, RestoreCopied, LoadMissing, LoadWhole, LoadUnreadable,
     LoadCorrupt, Up
<1>2. Saving' = Saving
  BY DEF Start, Load, RestoreCopied, LoadMissing, LoadWhole, LoadUnreadable,
     LoadCorrupt, Loaded, saves, Saving
<1>3. CASE Start
  <2>1. OnDisk' = OnDisk
    BY <1>3 DEF Start, OnDisk, Whole
  <2>2. data' = data /\ ~Up'
    BY <1>3 DEF Start, memory, Up
  <2>3. QED
    BY <1>1, <1>2, <2>1, <2>2, Stutter DEF Mode
<1>4. CASE RestoreCopied
  <2>1. OnDisk' = OnDisk
    BY <1>4 DEF RestoreCopied, RestoringHasBackup, OnDisk, Whole
  <2>2. data' = data /\ ~Up'
    BY <1>4 DEF RestoreCopied, memory, Up
  <2>3. QED
    BY <1>1, <1>2, <2>1, <2>2, Stutter DEF Mode
<1>5. CASE LoadMissing \/ LoadWhole \/ LoadUnreadable \/ LoadCorrupt
  <2>1. OnDisk' = OnDisk /\ Up'
    BY <1>5 DEF LoadMissing, LoadWhole, LoadUnreadable, LoadCorrupt, Loaded, OnDisk,
       Whole, Up
  <2>2. \/ data' = Default /\ loaded_from_default'
        \/ data' = (IF OnDisk = -1 THEN Default ELSE OnDisk) /\ ~loaded_from_default'
    <3>1. CASE LoadMissing
      <4>1. data' = Default /\ path = Missing /\ loaded_from_default' = (bak # Missing)
        BY <3>1 DEF LoadMissing, Loaded
      <4>2. bak = Missing => OnDisk = -1
        BY <4>1 DEF OnDisk, Whole
      <4>3. loaded_from_default' \/ (~loaded_from_default' /\ bak = Missing)
        BY <4>1
      <4>4. QED
        BY <4>1, <4>2, <4>3
    <3>2. CASE LoadWhole
      BY <3>2 DEF LoadWhole, Loaded, OnDisk, Whole
    <3>3. CASE LoadUnreadable \/ LoadCorrupt
      BY <3>3 DEF LoadUnreadable, LoadCorrupt, Loaded
    <3>4. QED
      BY <1>5, <3>1, <3>2, <3>3
  <2>3. Store!Start
    BY <1>1, <1>2, <2>1, <2>2 DEF Store!Start, Store!None, Store!Default, Saving
  <2>4. QED
    BY <2>3 DEF Store!Next
<1>6. QED
  BY <1>3, <1>4, <1>5 DEF Load

\* The main thread: edits, saves that begin, saves that have returned.
LEMMA MainSteps ==
  ASSUME IInv,
         \/ Edit \/ replace_data \/ Notify \/ Quit \/ OnAppQuit \/ FlushReturns
         \/ \E s \in Threads : TimerFires(s) \/ SaveReturns(s)
  PROVE  [Store!Next]_(Store!vars)
<1> USE DEF IInv
<1>1. OnDisk' = OnDisk
  BY DEF Edit, replace_data, Notify, Notification, Quit, OnAppQuit, FlushReturns,
     TimerFires, SaveReturns, disk, OnDisk
<1>2. Up /\ Up' /\ loaded_from_default' = loaded_from_default /\ Mode' = Mode
  BY DEF Edit, replace_data, Notify, Notification, Quit, OnAppQuit, FlushReturns,
     TimerFires, SaveReturns, MainFree, Up, Mode, DownIsIdle, Savers
<1>3. CASE Edit \/ replace_data \/ Notify
  <2>1. Saving' = Saving /\ data' \in Nat
    BY <1>3 DEF Edit, replace_data, Notify, Notification, saves, Saving, TypeOK
  <2>2. Store!Edit
    BY <1>1, <1>2, <2>1 DEF Store!Edit, Store!Contents, Saving, Mode
  <2>3. QED
    BY <2>2 DEF Store!Next
<1>4. ASSUME NEW s \in Savers, pc[s] = "idle", Submit(s), data' = data
      PROVE  [Store!Next]_(Store!vars)
  <2>1. /\ pc'[s] = "queued" /\ clone'[s] = data
        /\ \A t \in Savers \ {s} : pc'[t] = pc[t] /\ clone'[t] = clone[t]
    BY <1>4, SubmitOfOne
  <2>2. Saving[s] = -1 /\ Saving' = [Saving EXCEPT ![s] = data]
    BY <1>4, <2>1, SavingOfOne DEF Saving, Unsaved, Locked
  <2>3. Store!Begin(s)
    BY <1>1, <1>2, <1>4, <2>2 DEF Store!Begin, Store!None, Saving, Mode
  <2>4. QED
    BY <2>3 DEF Store!Next
<1>5. ASSUME NEW s \in Savers, pc[s] \in {"ok", "failed"}, data' = data,
             pc' = [pc EXCEPT ![s] = "idle"], clone' = [clone EXCEPT ![s] = Default]
      PROVE  [Store!Next]_(Store!vars)
  <2>1. /\ pc'[s] = "idle"
        /\ \A t \in Savers \ {s} : pc'[t] = pc[t] /\ clone'[t] = clone[t]
    BY <1>5 DEF TypeOK
  <2>2. Saving' = Saving
    BY <1>5, <2>1 DEF Saving, Unsaved, Locked
  <2>3. QED
    BY <1>1, <1>2, <1>5, <2>2, Stutter
<1>6. CASE Quit \/ OnAppQuit
  BY <1>4, <1>6 DEF Quit, OnAppQuit, Savers, MainFree, memory
<1>7. CASE FlushReturns
  BY <1>5, <1>7 DEF FlushReturns, Savers, memory
<1>8. ASSUME NEW s \in Threads, TimerFires(s)
      PROVE  [Store!Next]_(Store!vars)
  <2>1. CASE save_pending
    BY <1>4, <1>8, <2>1 DEF TimerFires, Savers
  <2>2. CASE ~save_pending
    <3>1. Saving' = Saving /\ data' = data
      BY <1>8, <2>2 DEF TimerFires, saves, Saving
    <3>2. QED
      BY <1>1, <1>2, <3>1, Stutter
  <2>3. QED
    BY <2>1, <2>2
<1>9. ASSUME NEW s \in Threads, SaveReturns(s)
      PROVE  [Store!Next]_(Store!vars)
  BY <1>5, <1>9 DEF SaveReturns, Savers
<1>10. QED
  BY <1>3, <1>6, <1>7, <1>8, <1>9

\* A save takes effect at its rename, is aborted by the guard or an error, and its
\* other steps change nothing the store can see.
LEMMA SaveSteps ==
  ASSUME IInv, NEW s \in Savers, Save(s)
  PROVE  [Store!Next]_(Store!vars)
<1> USE DEF IInv
<1>1. /\ data' = data /\ clone' = clone /\ Mode' = Mode
      /\ Up /\ pc[s] \in Unsaved
  BY DEF Save, TakeLock, BackUp, CreateTmp, WriteTmp, RenameTmp, SaveFails, SaveStep,
     memory, Mode, Up, Unsaved, Locked, DownIsIdle
<1>2. PICK next \in SaveStates : Goto(s, next)
  BY DEF Save, TakeLock, BackUp, CreateTmp, WriteTmp, RenameTmp, SaveFails,
     SaveStates, Unsaved, Locked
<1>3. pc'[s] = next /\ \A t \in Savers \ {s} : pc'[t] = pc[t] /\ clone'[t] = clone[t]
  BY <1>1, <1>2, StepOfOne
<1>4. clone[s] \in Nat /\ Saving[s] = clone[s]
  BY <1>1 DEF TypeOK, Saving
<1>5. ASSUME pc'[s] \in Unsaved, OnDisk' = OnDisk
      PROVE  [Store!Next]_(Store!vars)
  <2>1. Saving' = Saving
    BY <1>1, <1>3, <1>5 DEF Saving
  <2>2. QED
    BY <1>1, <1>5, <2>1, Stutter
<1>6. ASSUME pc'[s] \notin Unsaved
      PROVE  Saving' = [Saving EXCEPT ![s] = -1]
  BY <1>3, <1>6, SavingOfOne
<1>7. ASSUME pc'[s] \notin Unsaved, OnDisk' = OnDisk
      PROVE  [Store!Next]_(Store!vars)
  <2>1. Store!Abort(s)
    BY <1>1, <1>4, <1>6, <1>7 DEF Store!Abort, Store!None, Saving, Mode
  <2>2. QED
    BY <2>1 DEF Store!Next
<1>8. CASE ~RenameTmp(s)
  BY <1>5, <1>7, <1>8, SaveOnDisk
<1>9. CASE RenameTmp(s)
  <2>1. OnDisk' = clone[s] /\ pc[s] = "rename" /\ pc'[s] \notin Unsaved
    BY <1>9, SaveOnDisk DEF Unsaved, Locked
  <2>2. Mode = "ready"
    BY <1>1, <2>1 DEF Mode, LockedIsReady, Locked
  <2>3. Store!Commit(s)
    BY <1>1, <1>4, <1>6, <2>1, <2>2 DEF Store!Commit, Store!None, Saving, Mode
  <2>4. QED
    BY <2>3 DEF Store!Next
<1>10. QED
  BY <1>8, <1>9

\* The process ends: only the disk stays.
LEMMA StopSteps ==
  ASSUME IInv, Exit \/ Crash
  PROVE  [Store!Next]_(Store!vars)
<1>1. NoProcess /\ ~Up' /\ OnDisk' = OnDisk /\ data' = Default
  BY DEF Exit, Crash, NoProcess, Up, disk, OnDisk
<1>2. Saving' = [s \in Savers |-> -1]
  BY <1>1 DEF NoProcess, Saving, Unsaved, Locked
<1>3. CASE Up
  <2>1. Store!Stop
    BY <1>1, <1>2, <1>3 DEF Store!Stop, Store!NothingSaving, Store!None, Store!Default,
       Saving
  <2>2. QED
    BY <2>1 DEF Store!Next
<1>4. CASE ~Up
  <2>1. Saving = [s \in Savers |-> -1] /\ data = Default
    BY <1>4 DEF IInv, DownIsIdle, Saving, Unsaved, Locked
  <2>2. QED
    BY <1>1, <1>2, <1>4, <2>1, Stutter DEF Mode
<1>5. QED
  BY <1>3, <1>4

LEMMA StoreStep == IInv /\ [Next]_vars => [Store!Next]_(Store!vars)
<1>1. ASSUME IInv, UNCHANGED vars
      PROVE  UNCHANGED Store!vars
  <2>1. OnDisk' = OnDisk /\ data' = data /\ Mode' = Mode /\ Saving' = Saving
    BY <1>1 DEF vars, disk, memory, saves, OnDisk, Mode, Up, Saving
  <2>2. QED
    BY <2>1, Stutter
<1>2. QED
  BY <1>1, LoadSteps, MainSteps, SaveSteps, StopSteps DEF Next

\* The files of the workspace are an atomic, durable store.
THEOREM Refinement == Spec => IsStore
<1>1. Init => Store!Init
  BY StoreInit
<1>2. IInv /\ [Next]_vars => [Store!Next]_(Store!vars)
  BY StoreStep
<1>3. QED
  BY <1>1, <1>2, Invariant, PTL DEF Spec, IsStore, Store!Spec
=============================================================================
