---------------------------- MODULE SoftCloseProofs ----------------------------
(***************************************************************************)
(* Proofs about SoftClose, for every set of projects and terminals.        *)
(***************************************************************************)
EXTENDS SoftClose, PtyManagerProofs

(***************************************************************************)
(* The inductive invariant.  OnePlace needs that a fresh terminal is       *)
(* nowhere yet (PlacedIsUsed); UndoIsLocal needs that the two snapshots of *)
(* a close differ by its terminal only; CanBeUndone and NoLeak need that a *)
(* live process that nobody ends is in the registry, where a workspace     *)
(* switch and an undo look for it.  The registry of UI terminals and the   *)
(* PtyHandles of the PtyManager are two tables that agree.                 *)
(***************************************************************************)
\* Something accounts for t: it has a pane, is soft-closed or has lost its pane.
Kept(t) == Shown(t) \/ Pending(t) \/ t \in lost

PlacedIsUsed == \A t \in Terminals : Kept(t) => process[t] # "none"
SnapshotsAgree ==
  \A c \in pending_closes : c.pre_close_layout = c.post_close_layout \cup {c.terminal_id}
LiveIsTracked ==
  \A t \in Terminals : Alive(t) => BeingEnded(t) \/ (t \in terminals /\ Kept(t))

HandleIsRegistered == handles = terminals

IInv ==
  /\ TypeOK
  /\ OnePlace
  /\ CanBeUndone
  /\ PlacedIsUsed
  /\ SnapshotsAgree
  /\ LiveIsTracked
  /\ HandleIsRegistered

-------------------------------------------------------------------------------
(* Effects shared by the actions. *)

\* What creating C and killing S does to the PTY layer.
LEMMA UpdateEffect ==
  ASSUME TypeOK, NEW C \in SUBSET Terminals, NEW S \in SUBSET Terminals,
         NEW R \in SUBSET Terminals, NEW V \in SUBSET exit_events, PtyUpdate(C, S, R, V)
  PROVE  /\ PtyTypeOK' /\ Used' = Used \cup C
         /\ \A t \in Terminals :
              /\ Alive(t)' => t \in C \/ Alive(t)
              /\ BeingEnded(t) => BeingEnded(t)'
              /\ t \in S /\ Alive(t) => BeingEnded(t)'
<1>1. PtyTypeOK
  BY DEF TypeOK
<1>2. PtyTypeOK' /\ Used' = Used \cup C
  BY <1>1, PtyUpdateEffect
<1>3. ASSUME NEW t \in Terminals
      PROVE  /\ Alive(t)' => t \in C \/ Alive(t)
             /\ BeingEnded(t) => BeingEnded(t)'
             /\ t \in S /\ Alive(t) => BeingEnded(t)'
  BY <1>1, PtyUpdateEnds
<1> QED BY <1>2, <1>3

\* What killing S does to the PTY layer.
LEMMA KillEffect ==
  ASSUME TypeOK, NEW S \in SUBSET Terminals, NEW R \in SUBSET Terminals,
         NEW V \in SUBSET exit_events, PtyUpdate({}, S, R, V)
  PROVE  /\ PtyTypeOK' /\ Used' = Used
         /\ \A t \in Terminals :
              /\ Alive(t)' => Alive(t)
              /\ BeingEnded(t) => BeingEnded(t)'
              /\ t \in S /\ Alive(t) => BeingEnded(t)'
BY UpdateEffect

\* Nothing is placed anew and a live process loses its place only by being ended.
LEMMA PlacesKept ==
  ASSUME IInv, Used \subseteq Used',
         \A t \in Terminals :
           /\ Kept(t)' => Kept(t)
           /\ Alive(t)' => Alive(t)
           /\ Alive(t)' /\ BeingEnded(t) => BeingEnded(t)'
           /\ Alive(t)' =>
                \/ BeingEnded(t)'
                \/ (t \in terminals => t \in terminals') /\ (Kept(t) => Kept(t)')
  PROVE  PlacedIsUsed' /\ LiveIsTracked'
<1>1. PlacedIsUsed'
  BY DEF IInv, PlacedIsUsed, Used
<1>2. LiveIsTracked'
  BY DEF IInv, LiveIsTracked
<1> QED BY <1>1, <1>2

\* A step that leaves the PTY layer alone.
LEMMA PtyUnchanged ==
  ASSUME UNCHANGED ptyVars
  PROVE  /\ PtyTypeOK => PtyTypeOK'
         /\ Used' = Used
         /\ \A t \in Terminals : Alive(t)' = Alive(t) /\ BeingEnded(t)' = BeingEnded(t)
BY DEF ptyVars, PtyTypeOK, Used, Alive, BeingEnded

\* RecordsOf picks from the records it is given.
LEMMA RecordsType ==
  ASSUME NEW t
  PROVE  /\ RecordsOf(pending_closes, t) \subseteq pending_closes
         /\ RecordsOf(restored_closes, t) \subseteq restored_closes
BY DEF RecordsOf

-------------------------------------------------------------------------------
(* Every action preserves the inductive invariant. *)

\* The invariant holds in the empty workspace.
LEMMA InitIInv == Init => IInv
<1> SUFFICES ASSUME Init PROVE IInv
  OBVIOUS
<1>1. TypeOK
  BY MaxClosesAssumption DEF Init, TypeOK, PtyInit, PtyTypeOK
<1>2. \A t \in Terminals : ~Kept(t) /\ ~Shown(t) /\ ~Pending(t) /\ ~Alive(t)
  BY DEF Init, PtyInit, Kept, Shown, Pending, RecordsOf, Alive
<1> QED BY <1>1, <1>2 DEF IInv, Init, PtyInit, OnePlace, CanBeUndone, PlacedIsUsed,
                          SnapshotsAgree, LiveIsTracked, HandleIsRegistered, RecordsOf

\* Closes are decided or forgotten: records leave, the registry only loses what is
\* killed, the layouts stay.
LEMMA DropKeepsIInv ==
  ASSUME IInv, NEW S \in SUBSET Terminals,
         NEW R \in SUBSET Terminals, NEW V \in SUBSET exit_events, PtyUpdate({}, S, R, V),
         R \subseteq S,
         \A t \in S : ~Pending(t)',
         pending_closes' \subseteq pending_closes,
         \A c \in pending_closes \ pending_closes' : c.terminal_id \in S,
         terminals' = terminals \ S, lost' = lost \ S,
         restored_closes' \subseteq restored_closes,
         layout' \in [Projects -> SUBSET Terminals],
         \A p \in Projects : layout'[p] \subseteq layout[p] /\ layout[p] \ layout'[p] \subseteq S,
         toasts' \subseteq toasts, timers' \subseteq timers,
         \A c \in pending_closes' : running' => CloseOf(c) \in timers',
         running' \in BOOLEAN, UNCHANGED <<projects, closes>>
  PROVE  IInv'
<1>1. /\ PtyTypeOK' /\ Used' = Used
      /\ \A u \in Terminals :
           /\ Alive(u)' => Alive(u)
           /\ BeingEnded(u) => BeingEnded(u)'
           /\ u \in S /\ Alive(u) => BeingEnded(u)'
  BY KillEffect DEF IInv
<1>2. TypeOK'
  BY <1>1 DEF IInv, TypeOK
<1>3. \A u \in Terminals :
        /\ RecordsOf(pending_closes, u)' \subseteq RecordsOf(pending_closes, u)
        /\ u \notin S => RecordsOf(pending_closes, u)' = RecordsOf(pending_closes, u)
  BY DEF RecordsOf
<1>4. \A u \in Terminals :
        /\ Pending(u)' => Pending(u)
        /\ u \notin S => Pending(u)' = Pending(u)
  BY <1>3 DEF Pending
<1>5. \A u \in Terminals :
        /\ Shown(u)' => Shown(u)
        /\ u \notin S => Shown(u)' = Shown(u)
  BY DEF Shown, IInv, TypeOK
<1>6. OnePlace'
  <2>1. \A u \in Terminals : \A q, r \in Projects : u \in layout'[q] /\ u \in layout'[r] => q = r
    BY DEF IInv, OnePlace, TypeOK
  <2>2. \A u \in Terminals : \A c, d \in RecordsOf(pending_closes, u)' : c = d
    BY <1>3 DEF IInv, OnePlace
  <2>3. \A u \in Terminals : /\ Pending(u)' => ~Shown(u)'
                             /\ u \in lost' => ~Shown(u)' /\ ~Pending(u)'
    BY <1>4, <1>5 DEF IInv, OnePlace
  <2> QED BY <2>1, <2>2, <2>3 DEF OnePlace
<1>7. SnapshotsAgree'
  BY DEF IInv, SnapshotsAgree
<1>8. PlacedIsUsed' /\ LiveIsTracked'
  <2>1. \A u \in Terminals : (Kept(u)' => Kept(u)) /\ (u \notin S => Kept(u)' = Kept(u))
    BY <1>4, <1>5 DEF Kept
  <2> QED BY <1>1, <2>1, PlacesKept
<1>9. CanBeUndone'
  <2>1. \A c \in pending_closes' :
          c.project_id \in projects' \cup Worktrees /\ (running' => CloseOf(c) \in timers')
    BY DEF IInv, CanBeUndone
  <2> QED BY <1>2, <1>8, <2>1 DEF CanBeUndone, LiveIsTracked, TypeOK, PendingClose
<1>10. HandleIsRegistered'
  BY DEF IInv, HandleIsRegistered, PtyUpdate
<1> QED BY <1>2, <1>6, <1>7, <1>8, <1>9, <1>10 DEF IInv

\* CreateTerminal: the fresh terminal has no place yet.
LEMMA CreateKeepsIInv ==
  ASSUME IInv, NEW p \in Projects, NEW t \in Terminals, CreateTerminal(p, t)
  PROVE  IInv'
<1> USE DEF CreateTerminal
<1>1. /\ PtyTypeOK' /\ Used' = Used \cup {t}
      /\ \A u \in Terminals :
           /\ Alive(u)' => u \in {t} \/ Alive(u)
           /\ BeingEnded(u) => BeingEnded(u)'
  <2>1. TypeOK /\ PtyUpdate({t}, {}, {}, {})
    BY DEF IInv
  <2>2. {t} \in SUBSET Terminals /\ {} \in SUBSET Terminals /\ {} \in SUBSET exit_events
    OBVIOUS
  <2> QED BY <2>1, <2>2, UpdateEffect
<1>2. TypeOK'
  BY <1>1 DEF IInv, TypeOK
<1>3. ~Shown(t) /\ ~Pending(t) /\ t \notin lost
  BY DEF IInv, PlacedIsUsed, Kept
<1>4. \A u \in Terminals : Pending(u)' = Pending(u)
  BY DEF Pending, RecordsOf
<1>5. \A u \in Terminals : u # t => Shown(u)' = Shown(u)
  BY DEF Shown, IInv, TypeOK
<1>6. Shown(t)'
  BY DEF Shown, IInv, TypeOK
<1>7. OnePlace'
  BY <1>3, <1>4, <1>5 DEF IInv, TypeOK, OnePlace, RecordsOf, Shown
<1>8. SnapshotsAgree'
  BY DEF IInv, SnapshotsAgree
<1>9. PlacedIsUsed'
  BY <1>1, <1>4, <1>5 DEF IInv, PlacedIsUsed, Used, Kept
<1>10. LiveIsTracked'
  BY <1>1, <1>4, <1>5, <1>6 DEF IInv, LiveIsTracked, Kept
<1>11. CanBeUndone'
  <2>1. \A c \in pending_closes' :
          c.project_id \in projects' \cup Worktrees /\ (running' => CloseOf(c) \in timers')
    BY DEF IInv, CanBeUndone
  <2> QED BY <1>2, <1>10, <2>1 DEF CanBeUndone, LiveIsTracked, TypeOK, PendingClose
<1>12. HandleIsRegistered'
  BY DEF IInv, HandleIsRegistered, PtyUpdate
<1> QED BY <1>2, <1>7, <1>8, <1>9, <1>10, <1>11, <1>12 DEF IInv

\* CloseTerminal: the pane goes and its process is being ended.
LEMMA CloseKeepsIInv ==
  ASSUME IInv, NEW p \in Projects, NEW t \in Terminals, CloseTerminal(p, t)
  PROVE  IInv'
<1>1. PtyUpdate({}, {t}, {}, {}) /\ terminals' = terminals \ {t} /\ lost' = lost \ {t}
  BY DEF CloseTerminal, Kill
<1>2. t \in layout[p] /\ layout' = [layout EXCEPT ![p] = @ \ {t}]
  BY DEF CloseTerminal
<1>3. UNCHANGED <<running, projects, pending_closes, restored_closes, toasts, timers, closes>>
  BY DEF CloseTerminal
<1>4. /\ {t} \in SUBSET Terminals /\ {} \in SUBSET Terminals /\ {} \in SUBSET exit_events
      /\ {} \subseteq {t}
  OBVIOUS
<1>5. \A u \in {t} : ~Pending(u)'
  BY <1>2, <1>3 DEF IInv, OnePlace, Shown, Pending, RecordsOf
<1>6. /\ layout' \in [Projects -> SUBSET Terminals]
      /\ \A q \in Projects : layout'[q] \subseteq layout[q] /\ layout[q] \ layout'[q] \subseteq {t}
  BY <1>2 DEF IInv, TypeOK
<1>7. \A c \in pending_closes' : running' => CloseOf(c) \in timers'
  BY <1>3 DEF IInv, CanBeUndone
<1>8. running' \in BOOLEAN
  BY <1>3 DEF IInv, TypeOK
<1> HIDE DEF CloseTerminal
<1> QED BY <1>1, <1>3, <1>4, <1>5, <1>6, <1>7, <1>8, DropKeepsIInv

\* MovePane: the terminal changes its project.
LEMMA MoveKeepsIInv ==
  ASSUME IInv, NEW p \in Projects, NEW q \in Projects, NEW t \in Terminals, MovePane(p, q, t)
  PROVE  IInv'
<1> USE DEF MovePane, screenVars
<1>1. /\ PtyTypeOK' /\ Used' = Used
      /\ \A u \in Terminals : Alive(u)' = Alive(u) /\ BeingEnded(u)' = BeingEnded(u)
  BY PtyUnchanged DEF IInv, TypeOK
<1>2. TypeOK'
  BY <1>1 DEF IInv, TypeOK
<1>3. \A u \in Terminals : Pending(u)' = Pending(u) /\ Shown(u)' = Shown(u)
  BY DEF Pending, RecordsOf, Shown, IInv, TypeOK
<1>4. OnePlace'
  BY <1>3 DEF IInv, TypeOK, OnePlace, RecordsOf
<1>5. CanBeUndone' /\ SnapshotsAgree'
  BY <1>1 DEF IInv, CanBeUndone, SnapshotsAgree, CloseOf, TypeOK, PendingClose
<1>6. PlacedIsUsed' /\ LiveIsTracked'
  BY <1>1, <1>3, PlacesKept DEF Kept
<1>7. HandleIsRegistered'
  BY DEF IInv, HandleIsRegistered, ptyVars
<1> QED BY <1>2, <1>4, <1>5, <1>6, <1>7 DEF IInv

\* Panes are lost, their shells go on: a drop that does not land, a worktree whose
\* directory is gone.
LEMMA LoseKeepsIInv ==
  ASSUME IInv, NEW S \in SUBSET Terminals, \A t \in S : Shown(t),
         layout' \in [Projects -> SUBSET Terminals],
         \A p \in Projects : layout'[p] = layout[p] \ S,
         lost' = lost \cup S,
         projects' \subseteq projects, projects \ projects' \subseteq Worktrees,
         \A p \in Projects \ projects' : layout'[p] = {},
         UNCHANGED <<running, terminals, pending_closes, restored_closes, toasts, timers, closes,
                     ptyVars>>
  PROVE  IInv'
<1>1. /\ PtyTypeOK' /\ Used' = Used
      /\ \A u \in Terminals : Alive(u)' = Alive(u) /\ BeingEnded(u)' = BeingEnded(u)
  BY PtyUnchanged DEF IInv, TypeOK
<1>2. TypeOK'
  BY <1>1 DEF IInv, TypeOK
<1>3. \A u \in Terminals : /\ RecordsOf(pending_closes, u)' = RecordsOf(pending_closes, u)
                           /\ Pending(u)' = Pending(u)
                           /\ Shown(u)' <=> (Shown(u) /\ u \notin S)
  BY DEF Pending, RecordsOf, Shown
<1>4. OnePlace'
  BY <1>3 DEF IInv, TypeOK, OnePlace
<1>5. CanBeUndone' /\ SnapshotsAgree'
  BY <1>1 DEF IInv, CanBeUndone, SnapshotsAgree, CloseOf, TypeOK, PendingClose
<1>6. PlacedIsUsed' /\ LiveIsTracked'
  <2>1. \A u \in Terminals : Kept(u)' <=> Kept(u)
    BY <1>3 DEF Kept
  <2> QED BY <1>1, <2>1, PlacesKept
<1>7. HandleIsRegistered'
  BY DEF IInv, HandleIsRegistered, ptyVars
<1> QED BY <1>2, <1>4, <1>5, <1>6, <1>7 DEF IInv

\* What a lost drop and the watcher do, in the terms of LoseKeepsIInv.
Loses(S) ==
  /\ S \in SUBSET Terminals /\ \A t \in S : Shown(t)
  /\ layout' \in [Projects -> SUBSET Terminals]
  /\ \A p \in Projects : layout'[p] = layout[p] \ S
  /\ lost' = lost \cup S
  /\ projects' \subseteq projects /\ projects \ projects' \subseteq Worktrees
  /\ \A p \in Projects \ projects' : layout'[p] = {}
  /\ running
  /\ UNCHANGED <<running, terminals, pending_closes, restored_closes, toasts, timers, closes,
                 ptyVars>>

LEMMA LoseDropLoses ==
  ASSUME IInv, NEW p \in Projects, NEW q \in Projects, NEW t \in Terminals, LoseDrop(p, q, t)
  PROVE  Loses({t})
BY DEF LoseDrop, Loses, IInv, TypeOK, OnePlace, Shown

LEMMA RemoveStaleLoses ==
  ASSUME IInv, NEW p \in Projects, RemoveStaleWorktree(p)
  PROVE  Loses(layout[p])
BY DEF RemoveStaleWorktree, Loses, IInv, TypeOK, OnePlace, Shown

LEMMA LosesKeepsIInv ==
  ASSUME IInv, NEW S, Loses(S)
  PROVE  IInv'
BY LoseKeepsIInv DEF Loses

\* DeleteProject: what is killed is what is shown or soft-closed in the project.
LEMMA DeleteKeepsIInv ==
  ASSUME IInv, NEW p \in Projects, DeleteProject(p)
  PROVE  IInv'
<1> DEFINE S == layout[p] \cup {c.terminal_id : c \in ClosedIn(p)}
<1> USE DEF DeleteProject, Kill
<1>1. S \in SUBSET Terminals
  BY DEF IInv, TypeOK, ClosedIn, PendingClose
<1>2. /\ PtyTypeOK' /\ Used' = Used
      /\ \A u \in Terminals :
           /\ Alive(u)' => Alive(u)
           /\ BeingEnded(u) => BeingEnded(u)'
           /\ u \in S /\ Alive(u) => BeingEnded(u)'
  <2>1. TypeOK /\ PtyUpdate({}, S, {}, {})
    BY DEF IInv
  <2>2. {} \in SUBSET Terminals /\ {} \in SUBSET exit_events
    OBVIOUS
  <2> HIDE DEF S
  <2> QED BY <1>1, <2>1, <2>2, KillEffect
<1>3. TypeOK'
  BY <1>2 DEF IInv, TypeOK
<1>4. \A u \in Terminals :
        /\ Pending(u)' => Pending(u)
        /\ Shown(u)' => Shown(u)
        /\ u \notin S => (Pending(u) => Pending(u)') /\ (Shown(u) => Shown(u)')
  BY DEF Pending, RecordsOf, Shown, ClosedIn, IInv, TypeOK
<1>5. OnePlace'
  BY <1>4 DEF IInv, TypeOK, OnePlace, RecordsOf
<1>6. \A c \in pending_closes' : c \in pending_closes /\ c.project_id # p
  BY DEF ClosedIn
<1>7. SnapshotsAgree'
  BY <1>6 DEF IInv, SnapshotsAgree
<1>8. PlacedIsUsed' /\ LiveIsTracked'
  <2>1. \A u \in Terminals : (Kept(u)' => Kept(u)) /\ (u \notin S /\ Kept(u) => Kept(u)')
    BY <1>4 DEF Kept
  <2> QED BY <1>2, <2>1, PlacesKept
<1>9. CanBeUndone'
  <2>1. \A c \in pending_closes' :
          c.project_id \in projects' \cup Worktrees /\ (running' => CloseOf(c) \in timers')
    BY <1>6 DEF IInv, CanBeUndone
  <2> QED BY <1>3, <1>8, <2>1 DEF CanBeUndone, LiveIsTracked, TypeOK, PendingClose
<1>10. HandleIsRegistered'
  BY DEF IInv, HandleIsRegistered, PtyUpdate
<1> QED BY <1>3, <1>5, <1>7, <1>8, <1>9, <1>10 DEF IInv

\* SwitchWorkspace: every live process is in the registry or being ended already.
LEMMA SwitchKeepsIInv ==
  ASSUME IInv, SwitchWorkspace
  PROVE  IInv'
<1> USE DEF SwitchWorkspace, Kill
<1>1. /\ PtyTypeOK' /\ Used' = Used
      /\ \A u \in Terminals :
           /\ Alive(u)' => Alive(u)
           /\ BeingEnded(u) => BeingEnded(u)'
           /\ u \in terminals /\ Alive(u) => BeingEnded(u)'
  <2>1. TypeOK /\ PtyUpdate({}, terminals, {}, {})
    BY DEF IInv
  <2>2. /\ terminals \in SUBSET Terminals
        /\ {} \in SUBSET Terminals /\ {} \in SUBSET exit_events
    BY <2>1 DEF TypeOK
  <2> QED BY <2>1, <2>2, KillEffect
<1>2. TypeOK'
  BY <1>1 DEF IInv, TypeOK
<1>3. \A u \in Terminals : ~Pending(u)' /\ ~Shown(u)'
  BY DEF Pending, RecordsOf, Shown
<1>4. OnePlace' /\ CanBeUndone' /\ SnapshotsAgree' /\ PlacedIsUsed'
  BY <1>1, <1>3 DEF IInv, OnePlace, CanBeUndone, SnapshotsAgree, PlacedIsUsed, RecordsOf, Kept,
                    Used
<1>5. LiveIsTracked'
  BY <1>1 DEF IInv, LiveIsTracked
<1>6. HandleIsRegistered'
  BY DEF IInv, HandleIsRegistered, PtyUpdate, TypeOK, PtyTypeOK
<1> QED BY <1>2, <1>4, <1>5, <1>6 DEF IInv

\* SoftClose: the pane moves from the layout to the pending closes.
LEMMA SoftCloseKeepsIInv ==
  ASSUME IInv, NEW p \in Projects, NEW t \in Terminals, SoftClose(p, t)
  PROVE  IInv'
<1> DEFINE record == [terminal_id |-> t, toast_id |-> closes + 1, project_id |-> p,
                      pre_close_layout |-> layout[p], post_close_layout |-> layout[p] \ {t}]
<1> DEFINE close == [terminal_id |-> t, toast_id |-> closes + 1]
<1>1. /\ PtyTypeOK' /\ Used' = Used
      /\ \A u \in Terminals : Alive(u)' = Alive(u) /\ BeingEnded(u)' = BeingEnded(u)
  BY PtyUnchanged DEF IInv, TypeOK, SoftClose
<1>2. closes + 1 \in 1 .. MaxCloses
  BY MaxClosesAssumption DEF IInv, TypeOK, SoftClose
<1>3. record \in PendingClose /\ close \in Close
  BY <1>2 DEF PendingClose, Close, IInv, TypeOK
<1>4. /\ pending_closes' = pending_closes \cup {record}
      /\ timers' = timers \cup {close} /\ toasts' = toasts \cup {close}
      /\ restored_closes' \subseteq restored_closes
      /\ closes' = closes + 1
      /\ UNCHANGED <<running, projects, terminals, lost, ptyVars>>
  BY RecordsType DEF SoftClose
<1>5. t \in layout[p] /\ layout' = [layout EXCEPT ![p] = @ \ {t}]
  BY DEF SoftClose
<1>6. /\ record.terminal_id = t /\ record.project_id = p /\ CloseOf(record) = close
      /\ record.pre_close_layout = record.post_close_layout \cup {t}
  BY <1>5 DEF CloseOf
<1> HIDE DEF record, close
<1>7. Shown(t) /\ ~Pending(t) /\ (\A q \in Projects : q # p => t \notin layout[q])
  BY <1>5 DEF IInv, OnePlace, Shown
<1>8. p \in projects
  BY <1>5 DEF IInv, TypeOK
<1>9. TypeOK'
  <2>1. closes' \in 0 .. MaxCloses
    BY <1>2, <1>4
  <2> QED BY <1>1, <1>3, <1>4, <1>5, <2>1 DEF IInv, TypeOK
<1>10. \A u \in Terminals : u # t => RecordsOf(pending_closes, u)' = RecordsOf(pending_closes, u)
  BY <1>4, <1>6 DEF RecordsOf
<1>11. RecordsOf(pending_closes, t)' = {record}
  BY <1>4, <1>6, <1>7 DEF RecordsOf, Pending
<1>12. \A u \in Terminals : Pending(u)' <=> (Pending(u) \/ u = t)
  BY <1>10, <1>11 DEF Pending
<1>13. \A u \in Terminals : Shown(u)' <=> (Shown(u) /\ u # t)
  BY <1>5, <1>7 DEF Shown, IInv, TypeOK
<1>14. OnePlace'
  <2>1. \A u \in Terminals : \A q, r \in Projects : u \in layout'[q] /\ u \in layout'[r] => q = r
    BY <1>5 DEF IInv, OnePlace, TypeOK
  <2>2. \A u \in Terminals : \A c, d \in RecordsOf(pending_closes, u)' : c = d
    BY <1>10, <1>11 DEF IInv, OnePlace
  <2>3. \A u \in Terminals : /\ Pending(u)' => ~Shown(u)'
                             /\ u \in lost' => ~Shown(u)' /\ ~Pending(u)'
    BY <1>4, <1>7, <1>12, <1>13 DEF IInv, OnePlace
  <2> QED BY <2>1, <2>2, <2>3 DEF OnePlace
<1>15. SnapshotsAgree'
  BY <1>4, <1>6 DEF IInv, SnapshotsAgree
<1>16. PlacedIsUsed' /\ LiveIsTracked'
  <2>1. \A u \in Terminals : Kept(u)' <=> Kept(u)
    BY <1>4, <1>7, <1>12, <1>13 DEF Kept
  <2> QED BY <1>1, <1>4, <2>1, PlacesKept
<1>17. CanBeUndone'
  <2>1. \A c \in pending_closes' :
          c.project_id \in projects' \cup Worktrees /\ (running' => CloseOf(c) \in timers')
    BY <1>4, <1>6, <1>8 DEF IInv, CanBeUndone
  <2> QED BY <1>9, <1>16, <2>1 DEF CanBeUndone, LiveIsTracked, TypeOK, PendingClose
<1>18. HandleIsRegistered'
  BY <1>4 DEF IInv, HandleIsRegistered, ptyVars
<1> QED BY <1>9, <1>14, <1>15, <1>16, <1>17, <1>18 DEF IInv

\* A step that only loses toasts, timers or breadcrumbs.
LEMMA ForgetKeepsIInv ==
  ASSUME IInv, UNCHANGED <<running, projects, layout, terminals, pending_closes, closes, lost,
                           ptyVars>>,
         restored_closes' \subseteq restored_closes, toasts' \subseteq toasts, timers' \subseteq timers,
         \A c \in pending_closes : running => CloseOf(c) \in timers'
  PROVE  IInv'
<1>1. /\ PtyTypeOK' /\ Used' = Used
      /\ \A u \in Terminals : Alive(u)' = Alive(u) /\ BeingEnded(u)' = BeingEnded(u)
  BY PtyUnchanged DEF IInv, TypeOK
<1>2. TypeOK'
  BY <1>1 DEF IInv, TypeOK
<1>3. \A u \in Terminals : /\ RecordsOf(pending_closes, u)' = RecordsOf(pending_closes, u)
                           /\ Pending(u)' = Pending(u) /\ Shown(u)' = Shown(u)
  BY DEF Pending, RecordsOf, Shown
<1>4. OnePlace'
  BY <1>3 DEF IInv, OnePlace
<1>5. SnapshotsAgree' /\ HandleIsRegistered'
  BY DEF IInv, SnapshotsAgree, HandleIsRegistered, ptyVars
<1>6. PlacedIsUsed' /\ LiveIsTracked'
  BY <1>1, <1>3, PlacesKept DEF Kept
<1>7. CanBeUndone'
  <2>1. \A c \in pending_closes' :
          c.project_id \in projects' \cup Worktrees /\ (running' => CloseOf(c) \in timers')
    BY DEF IInv, CanBeUndone
  <2> QED BY <1>2, <1>6, <2>1 DEF CanBeUndone, LiveIsTracked, TypeOK, PendingClose
<1> QED BY <1>2, <1>4, <1>5, <1>6, <1>7 DEF IInv

\* finalize_soft_close, from the timer or from the toast.
LEMMA FinalizeKeepsIInv ==
  ASSUME IInv, NEW t \in Terminals, Finalize(t),
         UNCHANGED <<running, projects, layout, restored_closes, closes>>,
         toasts' \subseteq toasts, timers' \subseteq timers,
         \A c \in timers \ timers' : c.terminal_id = t
  PROVE  IInv'
<1>1. \A c \in pending_closes : c.terminal_id # t => (running => CloseOf(c) \in timers')
  <2>1. \A c \in pending_closes : running => CloseOf(c) \in timers
    BY DEF IInv, CanBeUndone
  <2>2. \A c \in pending_closes : c.terminal_id = CloseOf(c).terminal_id
    BY DEF CloseOf
  <2> QED BY <2>1, <2>2
<1>2. CASE Pending(t)
  <2>1. /\ pending_closes' = pending_closes \ RecordsOf(pending_closes, t)
        /\ PtyUpdate({}, {t}, {}, {}) /\ terminals' = terminals \ {t} /\ lost' = lost \ {t}
    BY <1>2 DEF Finalize, Kill
  <2>2. /\ {t} \in SUBSET Terminals /\ {} \in SUBSET Terminals /\ {} \in SUBSET exit_events
        /\ {} \subseteq {t}
    OBVIOUS
  <2>3. /\ \A u \in {t} : ~Pending(u)'
        /\ pending_closes' \subseteq pending_closes
        /\ \A c \in pending_closes \ pending_closes' : c.terminal_id \in {t}
        /\ \A c \in pending_closes' : c.terminal_id # t
    BY <2>1 DEF Pending, RecordsOf
  <2>4. /\ layout' \in [Projects -> SUBSET Terminals] /\ running' \in BOOLEAN
        /\ \A p \in Projects : layout'[p] \subseteq layout[p] /\ layout[p] \ layout'[p] \subseteq {t}
    BY DEF IInv, TypeOK
  <2>5. \A c \in pending_closes' : running' => CloseOf(c) \in timers'
    BY <1>1, <2>3
  <2> QED BY <2>1, <2>2, <2>3, <2>4, <2>5, DropKeepsIInv
<1>3. CASE ~Pending(t)
  <2>1. UNCHANGED <<pending_closes, terminals, lost, ptyVars>>
    BY <1>3 DEF Finalize
  <2>2. \A c \in pending_closes : c.terminal_id # t
    BY <1>3 DEF Pending, RecordsOf
  <2> QED BY <1>1, <2>1, <2>2, ForgetKeepsIInv
<1> QED BY <1>2, <1>3

\* GraceOver: the timer of this close goes, which only its own terminal needs.
LEMMA GraceOverKeepsIInv ==
  ASSUME IInv, NEW c \in timers, GraceOver(c)
  PROVE  IInv'
<1>1. c.terminal_id \in Terminals
  BY DEF IInv, TypeOK, Close
<1>2. toasts' \subseteq toasts /\ timers' \subseteq timers
  BY DEF GraceOver
<1>3. \A d \in timers \ timers' : d.terminal_id = c.terminal_id
  BY DEF GraceOver
<1> QED BY <1>1, <1>2, <1>3, FinalizeKeepsIInv DEF GraceOver

\* CloseNow
LEMMA CloseNowKeepsIInv ==
  ASSUME IInv, NEW c \in toasts, CloseNow(c)
  PROVE  IInv'
<1>1. c.terminal_id \in Terminals
  BY DEF IInv, TypeOK, Close
<1>2. toasts' \subseteq toasts /\ timers' = timers
  BY DEF CloseNow
<1> QED BY <1>1, <1>2, FinalizeKeepsIInv DEF CloseNow

\* Quit: what is pending is killed, the panes keep their sessions.
LEMMA QuitKeepsIInv == IInv /\ Quit => IInv'
<1> SUFFICES ASSUME IInv, Quit PROVE IInv'
  OBVIOUS
<1> DEFINE S == {c.terminal_id : c \in pending_closes}
<1>1. S \in SUBSET Terminals
  BY DEF IInv, TypeOK, PendingClose
<1>2. PtyUpdate({}, S, {}, {}) /\ terminals' = terminals \ S /\ lost' = lost \ S
  BY DEF Quit, Kill
<1>3. /\ {} \in SUBSET Terminals /\ {} \in SUBSET exit_events /\ {} \subseteq S
      /\ pending_closes' = {} /\ running' \in BOOLEAN
      /\ UNCHANGED <<projects, layout, restored_closes, toasts, timers, closes>>
  BY DEF Quit
<1>4. \A c \in pending_closes \ pending_closes' : c.terminal_id \in S
  OBVIOUS
<1> HIDE DEF S
<1>5. \A t \in S : ~Pending(t)'
  BY <1>3 DEF Pending, RecordsOf
<1>6. /\ layout' \in [Projects -> SUBSET Terminals]
      /\ \A p \in Projects : layout'[p] \subseteq layout[p] /\ layout[p] \ layout'[p] \subseteq S
  BY <1>3 DEF IInv, TypeOK
<1> QED BY <1>1, <1>2, <1>3, <1>4, <1>5, <1>6, DropKeepsIInv

\* HandleExit: the terminal is killed, its close is off, a doomed pane goes.
LEMMA ExitKeepsIInv ==
  ASSUME IInv, NEW t \in Terminals, HandleExit(t)
  PROVE  IInv'
<1>1. PICK V \in SUBSET exit_events : PtyUpdate({}, {t}, {t}, V)
  BY DEF HandleExit, EventsOf
<1>2. /\ terminals' = terminals \ {t} /\ lost' = lost \ {t}
      /\ UNCHANGED <<running, projects, timers, closes>>
  BY DEF HandleExit
<1>3. /\ pending_closes' = pending_closes \ RecordsOf(pending_closes, t)
      /\ toasts' \subseteq toasts
      /\ restored_closes' \subseteq restored_closes
      /\ layout' = [p \in Projects |->
                      IF \E r \in RecordsOf(restored_closes, t) : r.project_id = p
                      THEN layout[p] \ {t} ELSE layout[p]]
  BY DEF HandleExit, CancelPending, ReapRestored
<1>4. /\ {t} \in SUBSET Terminals /\ {t} \subseteq {t}
      /\ \A u \in {t} : ~Pending(u)'
      /\ pending_closes' \subseteq pending_closes
      /\ \A c \in pending_closes \ pending_closes' : c.terminal_id \in {t}
  BY <1>3 DEF Pending, RecordsOf
<1>5. /\ layout' \in [Projects -> SUBSET Terminals] /\ running' \in BOOLEAN
      /\ \A p \in Projects : layout'[p] \subseteq layout[p] /\ layout[p] \ layout'[p] \subseteq {t}
  BY <1>2, <1>3 DEF IInv, TypeOK
<1>6. \A c \in pending_closes' : running' => CloseOf(c) \in timers'
  BY <1>2, <1>4 DEF IInv, CanBeUndone
<1> QED BY <1>1, <1>2, <1>3, <1>4, <1>5, <1>6, DropKeepsIInv

\* Either way, restoring a close adds its terminal to the layout of its project, if
\* the project is still there.
LEMMA RestoredAdds ==
  ASSUME IInv, NEW c \in pending_closes
  PROVE  Restored(c) = IF c.project_id \in projects
                       THEN [layout EXCEPT ![c.project_id] = @ \cup {c.terminal_id}]
                       ELSE layout
<1>1. c.pre_close_layout = c.post_close_layout \cup {c.terminal_id}
  BY DEF IInv, SnapshotsAgree
<1>2. layout[c.project_id] = c.post_close_layout
        => c.pre_close_layout = layout[c.project_id] \cup {c.terminal_id}
  BY <1>1
<1> QED BY <1>1, <1>2 DEF Restored

\* The three outcomes of the undo of a pending close: too late, the pane is back in
\* project q, or project q is gone and the pane is lost.
UndoneTooLate(t) == t \notin terminals /\ UNCHANGED <<layout, restored_closes, lost>>
Crumbs(t, q) ==
  restored_closes' = (restored_closes \ RecordsOf(restored_closes, t))
                        \cup {[terminal_id |-> t, project_id |-> q]}
UndoneInto(t, q) ==
  /\ t \in terminals /\ q \in projects /\ Crumbs(t, q)
  /\ layout' = [layout EXCEPT ![q] = @ \cup {t}] /\ UNCHANGED lost
UndoneNowhere(t, q) ==
  t \in terminals /\ Crumbs(t, q) /\ UNCHANGED layout /\ lost' = lost \cup {t}

LEMMA UndoEffect ==
  ASSUME IInv, NEW t \in Terminals, UndoSoftClose(t), Pending(t)
  PROVE  /\ pending_closes' = pending_closes \ RecordsOf(pending_closes, t)
         /\ UndoneTooLate(t) \/ \E q \in Projects : UndoneInto(t, q) \/ UndoneNowhere(t, q)
<1>1. pending_closes' = pending_closes \ RecordsOf(pending_closes, t)
  BY DEF UndoSoftClose
<1>2. CASE t \notin terminals
  BY <1>1, <1>2 DEF UndoSoftClose, UndoneTooLate
<1>3. CASE t \in terminals
  <2>1. PICK c \in RecordsOf(pending_closes, t) :
          /\ layout' = Restored(c)
          /\ restored_closes' = (restored_closes \ RecordsOf(restored_closes, t))
               \cup {[terminal_id |-> t, project_id |-> c.project_id]}
          /\ lost' = IF c.project_id \in projects THEN lost ELSE lost \cup {t}
    BY <1>3 DEF UndoSoftClose
  <2>2. c \in pending_closes /\ c.terminal_id = t /\ c.project_id \in Projects
    BY DEF RecordsOf, IInv, TypeOK, PendingClose
  <2>3. UndoneInto(t, c.project_id) \/ UndoneNowhere(t, c.project_id)
    BY <1>3, <2>1, <2>2, RestoredAdds DEF UndoneInto, UndoneNowhere, Crumbs
  <2> QED BY <1>1, <2>2, <2>3
<1> QED BY <1>2, <1>3

\* What a terminal that leaves the pending closes may become.
LEMMA UndonePlaces ==
  ASSUME IInv, NEW t \in Terminals, UndoSoftClose(t), Pending(t), UNCHANGED ptyVars
  PROVE  /\ ~Pending(t)' /\ ~Shown(t) /\ t \notin lost
         /\ \A u \in Terminals :
              /\ RecordsOf(pending_closes, u)' \subseteq RecordsOf(pending_closes, u)
              /\ u # t => /\ Pending(u)' = Pending(u) /\ Shown(u)' = Shown(u)
                          /\ u \in lost' <=> u \in lost
         /\ \/ UndoneTooLate(t) /\ ~Shown(t)' /\ t \notin lost' /\ t \notin terminals
            \/ \E q \in Projects : UndoneInto(t, q) /\ Shown(t)' /\ t \notin lost'
            \/ \E q \in Projects : UndoneNowhere(t, q) /\ ~Shown(t)' /\ t \in lost'
<1>1. pending_closes' = pending_closes \ RecordsOf(pending_closes, t)
  BY UndoEffect
<1>2. ~Shown(t) /\ t \notin lost
  BY DEF IInv, OnePlace
<1>3. \A u \in Terminals :
        /\ RecordsOf(pending_closes, u)' \subseteq RecordsOf(pending_closes, u)
        /\ u # t => RecordsOf(pending_closes, u)' = RecordsOf(pending_closes, u)
        /\ RecordsOf(pending_closes, t)' = {}
  BY <1>1 DEF RecordsOf
<1>4. ~Pending(t)' /\ \A u \in Terminals : u # t => Pending(u)' = Pending(u)
  BY <1>3 DEF Pending
<1>5. CASE UndoneTooLate(t)
  BY <1>2, <1>3, <1>4, <1>5 DEF UndoneTooLate, Shown
<1>6. ASSUME NEW q \in Projects, UndoneInto(t, q)
      PROVE  /\ \A u \in Terminals : u # t => Shown(u)' = Shown(u) /\ (u \in lost' <=> u \in lost)
             /\ Shown(t)' /\ t \notin lost'
  BY <1>2, <1>6 DEF UndoneInto, Shown, IInv, TypeOK
<1>7. ASSUME NEW q \in Projects, UndoneNowhere(t, q)
      PROVE  /\ \A u \in Terminals : u # t => Shown(u)' = Shown(u) /\ (u \in lost' <=> u \in lost)
             /\ ~Shown(t)' /\ t \in lost'
  BY <1>2, <1>7 DEF UndoneNowhere, Shown
<1>8. UndoneTooLate(t) \/ \E q \in Projects : UndoneInto(t, q) \/ UndoneNowhere(t, q)
  BY UndoEffect
<1> QED BY <1>2, <1>3, <1>4, <1>5, <1>6, <1>7, <1>8

\* Undo: the terminal leaves the pending closes, or nothing but the toast goes.
LEMMA UndoKeepsIInv ==
  ASSUME IInv, NEW c \in toasts, Undo(c)
  PROVE  IInv'
<1> DEFINE t == c.terminal_id
<1>1. t \in Terminals
  BY DEF IInv, TypeOK, Close
<1>2. /\ toasts' \subseteq toasts /\ UndoSoftClose(t)
      /\ UNCHANGED <<running, projects, terminals, timers, closes>> /\ UNCHANGED ptyVars
  BY DEF Undo
<1> HIDE DEF t
<1>3. CASE ~Pending(t)
  <2>1. UNCHANGED <<layout, pending_closes, restored_closes, lost>>
    BY <1>2, <1>3 DEF UndoSoftClose
  <2>2. \A d \in pending_closes : running => CloseOf(d) \in timers'
    BY <1>2 DEF IInv, CanBeUndone
  <2> QED BY <1>2, <2>1, <2>2, ForgetKeepsIInv
<1>4. CASE Pending(t)
  <2>1. /\ pending_closes' = pending_closes \ RecordsOf(pending_closes, t)
        /\ UndoneTooLate(t) \/ \E q \in Projects : UndoneInto(t, q) \/ UndoneNowhere(t, q)
    BY <1>1, <1>2, <1>4, UndoEffect
  <2>2. /\ ~Pending(t)' /\ ~Shown(t) /\ t \notin lost
        /\ \A u \in Terminals :
             /\ RecordsOf(pending_closes, u)' \subseteq RecordsOf(pending_closes, u)
             /\ u # t => /\ Pending(u)' = Pending(u) /\ Shown(u)' = Shown(u)
                         /\ u \in lost' <=> u \in lost
        /\ \/ ~Shown(t)' /\ t \notin lost' /\ t \notin terminals
           \/ Shown(t)' /\ t \notin lost'
           \/ ~Shown(t)' /\ t \in lost'
    BY <1>1, <1>2, <1>4, UndonePlaces
  <2>3. /\ PtyTypeOK' /\ Used' = Used
        /\ \A u \in Terminals : Alive(u)' = Alive(u) /\ BeingEnded(u)' = BeingEnded(u)
    BY <1>2, PtyUnchanged DEF IInv, TypeOK
  <2>4. TypeOK'
    <3>1. restored_closes' \subseteq RestoredClose
      BY <1>1, <2>1 DEF UndoneTooLate, UndoneInto, UndoneNowhere, Crumbs, IInv, TypeOK, RestoredClose
    <3>2. /\ layout' \in [Projects -> SUBSET Terminals]
          /\ \A p \in Projects \ projects : layout'[p] = {}
          /\ lost' \subseteq Terminals
      BY <1>1, <2>1 DEF UndoneTooLate, UndoneInto, UndoneNowhere, IInv, TypeOK
    <3> QED BY <1>2, <2>1, <2>3, <3>1, <3>2 DEF IInv, TypeOK
  <2>5. OnePlace'
    <3>1. \A u \in Terminals : \A q, r \in Projects : u \in layout'[q] /\ u \in layout'[r] => q = r
      BY <2>1, <2>2 DEF UndoneTooLate, UndoneInto, UndoneNowhere, IInv, OnePlace, TypeOK, Shown
    <3>2. \A u \in Terminals : \A x, y \in RecordsOf(pending_closes, u)' : x = y
      BY <2>2 DEF IInv, OnePlace
    <3>3. \A u \in Terminals : /\ Pending(u)' => ~Shown(u)'
                               /\ u \in lost' => ~Shown(u)' /\ ~Pending(u)'
      BY <2>2 DEF IInv, OnePlace
    <3> QED BY <3>1, <3>2, <3>3 DEF OnePlace
  <2>6. SnapshotsAgree'
    BY <2>1 DEF IInv, SnapshotsAgree
  <2>7. PlacedIsUsed' /\ LiveIsTracked'
    <3>1. \A u \in Terminals : u # t => Kept(u)' = Kept(u)
      BY <2>2 DEF Kept
    <3>2. Kept(t) /\ (t \notin terminals \/ Kept(t)')
      BY <1>4, <2>2 DEF Kept
    <3>3. t \notin terminals /\ Alive(t) => BeingEnded(t)
      BY <1>1 DEF IInv, LiveIsTracked
    <3> QED BY <1>1, <1>2, <2>3, <3>1, <3>2, <3>3, PlacesKept
  <2>8. CanBeUndone'
    <3>1. \A d \in pending_closes' :
            d.project_id \in projects' \cup Worktrees /\ (running' => CloseOf(d) \in timers')
      BY <1>2, <2>1 DEF IInv, CanBeUndone
    <3> QED BY <2>4, <2>7, <3>1 DEF CanBeUndone, LiveIsTracked, TypeOK, PendingClose
  <2>9. HandleIsRegistered'
    BY <1>2 DEF IInv, HandleIsRegistered, ptyVars
  <2> QED BY <2>4, <2>5, <2>6, <2>7, <2>8, <2>9 DEF IInv
<1> QED BY <1>3, <1>4

\* ToastGone
LEMMA ToastGoneKeepsIInv ==
  ASSUME IInv, NEW c \in toasts, ToastGone(c)
  PROVE  IInv'
<1>1. /\ toasts' \subseteq toasts
      /\ UNCHANGED <<workspaceVars, terminals, timers, closes, lost, running, ptyVars>>
  BY DEF ToastGone
<1>2. \A d \in pending_closes : running => CloseOf(d) \in timers'
  BY <1>1 DEF IInv, CanBeUndone
<1> QED BY <1>1, <1>2, ForgetKeepsIInv DEF workspaceVars

\* PtyStep: processes, threads and workers on their own.
LEMMA PtyStepKeepsIInv == IInv /\ PtyStep => IInv'
<1> SUFFICES ASSUME IInv, PtyStep PROVE IInv'
  OBVIOUS
<1> USE DEF PtyStep, workspaceVars, screenVars
<1>1. PtyTypeOK' /\ Used \subseteq Used'
  BY PtyNextEffect DEF IInv, TypeOK
<1>2. ASSUME NEW u \in Terminals
      PROVE  (Alive(u)' => Alive(u)) /\ (Alive(u)' /\ BeingEnded(u) => BeingEnded(u)')
  BY PtyNextEnds DEF IInv, TypeOK
<1>3. TypeOK'
  BY <1>1 DEF IInv, TypeOK
<1>4. \A u \in Terminals : /\ RecordsOf(pending_closes, u)' = RecordsOf(pending_closes, u)
                           /\ Pending(u)' = Pending(u) /\ Shown(u)' = Shown(u)
  BY DEF Pending, RecordsOf, Shown
<1>5. OnePlace'
  BY <1>4 DEF IInv, OnePlace
<1>6. SnapshotsAgree'
  BY DEF IInv, SnapshotsAgree
<1>7. PlacedIsUsed' /\ LiveIsTracked'
  BY <1>1, <1>2, <1>4, PlacesKept DEF Kept
<1>8. CanBeUndone'
  <2>1. \A c \in pending_closes' :
          c.project_id \in projects' \cup Worktrees /\ (running' => CloseOf(c) \in timers')
    BY DEF IInv, CanBeUndone
  <2> QED BY <1>3, <1>7, <2>1 DEF CanBeUndone, LiveIsTracked, TypeOK, PendingClose
<1>9. HandleIsRegistered'
  BY DEF IInv, HandleIsRegistered, PtyNext, ProcessExit, ClientExit, WriterFail, Teardown
<1> QED BY <1>3, <1>5, <1>6, <1>7, <1>8, <1>9 DEF IInv

\* Every step, action by action.
LEMMA NextKeepsIInv == IInv /\ [Next]_vars => IInv'
<1> SUFFICES ASSUME IInv, [Next]_vars PROVE IInv'
  OBVIOUS
<1>1. CASE UNCHANGED vars
  <2>1. \A d \in pending_closes : running => CloseOf(d) \in timers'
    BY <1>1 DEF IInv, CanBeUndone, vars, screenVars
  <2> QED BY <1>1, <2>1, ForgetKeepsIInv DEF vars, workspaceVars, screenVars
<1>2. ASSUME NEW p \in Projects, NEW t \in Terminals,
             CreateTerminal(p, t) \/ CloseTerminal(p, t) \/ SoftClose(p, t)
      PROVE  IInv'
  BY <1>2, CreateKeepsIInv, CloseKeepsIInv, SoftCloseKeepsIInv
<1>3. ASSUME NEW p \in Projects, NEW q \in Projects, NEW t \in Terminals,
             MovePane(p, q, t) \/ LoseDrop(p, q, t)
      PROVE  IInv'
  BY <1>3, MoveKeepsIInv, LoseDropLoses, LosesKeepsIInv
<1>4. ASSUME NEW p \in Projects, DeleteProject(p) \/ RemoveStaleWorktree(p)
      PROVE  IInv'
  BY <1>4, DeleteKeepsIInv, RemoveStaleLoses, LosesKeepsIInv
<1>5. ASSUME NEW c \in timers, GraceOver(c)
      PROVE  IInv'
  BY <1>5, GraceOverKeepsIInv
<1>6. ASSUME NEW c \in toasts, CloseNow(c) \/ Undo(c) \/ ToastGone(c)
      PROVE  IInv'
  BY <1>6, CloseNowKeepsIInv, UndoKeepsIInv, ToastGoneKeepsIInv
<1>7. ASSUME NEW t \in Terminals, HandleExit(t)
      PROVE  IInv'
  BY <1>7, ExitKeepsIInv
<1>8. CASE SwitchWorkspace
  BY <1>8, SwitchKeepsIInv
<1>9. CASE Quit
  BY <1>9, QuitKeepsIInv
<1>10. CASE PtyStep
  BY <1>10, PtyStepKeepsIInv
<1> QED BY <1>1, <1>2, <1>3, <1>4, <1>5, <1>6, <1>7, <1>8, <1>9, <1>10 DEF Next

-------------------------------------------------------------------------------
(* Theorems. *)

\* The places of a terminal, its registry entry, its handle, the snapshots and the
\* timers of its closes agree, whatever decides a close or loses a pane.
THEOREM InductiveInvariant == Spec => []IInv
BY InitIInv, NextKeepsIInv, PTL DEF Spec

\* Every variable keeps its type, in particular no deleted project has a layout.
THEOREM TypeCorrect == Spec => []TypeOK
<1>1. IInv => TypeOK
  BY DEF IInv
<1> QED BY <1>1, InductiveInvariant, PTL

\* A terminal is in the layout of one project, soft-closed once, or lost, never two of
\* them.
THEOREM OnePlaceAlways == Spec => []OnePlace
<1>1. IInv => OnePlace
  BY DEF IInv
<1> QED BY <1>1, InductiveInvariant, PTL

\* A pending close that nobody has ended can be brought back, its project is there
\* unless the watcher may take it, and a timer is left to decide it.
THEOREM PendingCanBeUndone == Spec => []CanBeUndone
<1>1. IInv => CanBeUndone
  BY DEF IInv
<1> QED BY <1>1, InductiveInvariant, PTL

\* No PTY leaks but by a lost pane: a live process has a pane, waits out its grace
\* period, is being ended, or lost its pane and is still in the registry, through
\* removals of projects, drops that do not land, switches of workspace and quit.
THEOREM NothingLeaks == Spec => []NoLeak
<1>1. IInv => NoLeak
  BY DEF IInv, LiveIsTracked, Kept, NoLeak
<1> QED BY <1>1, InductiveInvariant, PTL

\* What UndoIsLocal says of one step.
UndoStep ==
  \A c \in pending_closes :
    c.terminal_id \in layout'[c.project_id] =>
      \A p \in Projects : layout'[p] \ {c.terminal_id} = layout[p]

\* Only an undo puts a soft-closed terminal into a layout, and it adds nothing else.
LEMMA NextUndoStep == IInv /\ [Next]_vars => UndoStep
<1> SUFFICES ASSUME IInv, [Next]_vars, NEW c \in pending_closes,
                    c.terminal_id \in layout'[c.project_id]
             PROVE  \A p \in Projects : layout'[p] \ {c.terminal_id} = layout[p]
  BY DEF UndoStep
<1>1. /\ c.terminal_id \in Terminals /\ c.project_id \in Projects
      /\ layout \in [Projects -> SUBSET Terminals]
  BY DEF IInv, TypeOK, PendingClose
<1>2. Pending(c.terminal_id) /\ (\A p \in Projects : c.terminal_id \notin layout[p])
  BY <1>1 DEF IInv, OnePlace, Pending, RecordsOf, Shown
<1>3. ASSUME \A p \in Projects : layout'[p] \subseteq layout[p]
      PROVE  FALSE
  BY <1>1, <1>2, <1>3
<1>4. ASSUME NEW p \in Projects, NEW t \in Terminals,
             CreateTerminal(p, t) \/ CloseTerminal(p, t) \/ SoftClose(p, t)
      PROVE  FALSE
  <2>1. process[c.terminal_id] # "none"
    BY <1>1, <1>2 DEF IInv, PlacedIsUsed, Kept
  <2>2. CASE CreateTerminal(p, t)
    BY <1>1, <1>2, <2>1, <2>2 DEF CreateTerminal
  <2>3. CASE CloseTerminal(p, t) \/ SoftClose(p, t)
    BY <1>1, <1>3, <2>3 DEF CloseTerminal, SoftClose
  <2> QED BY <1>4, <2>2, <2>3
<1>5. ASSUME NEW p \in Projects, NEW q \in Projects, NEW t \in Terminals,
             MovePane(p, q, t) \/ LoseDrop(p, q, t)
      PROVE  FALSE
  BY <1>1, <1>2, <1>5 DEF MovePane, LoseDrop
<1>6. ASSUME NEW d \in toasts, Undo(d)
      PROVE  \A p \in Projects : layout'[p] \ {c.terminal_id} = layout[p]
  <2>1. d.terminal_id \in Terminals /\ UndoSoftClose(d.terminal_id)
    BY <1>6 DEF IInv, TypeOK, Close, Undo
  <2>2. CASE Pending(d.terminal_id)
    <3>1. CASE UNCHANGED layout
      BY <1>3, <3>1
    <3>2. ASSUME NEW q \in Projects, layout' = [layout EXCEPT ![q] = @ \cup {d.terminal_id}]
          PROVE  \A p \in Projects : layout'[p] \ {c.terminal_id} = layout[p]
      <4>1. d.terminal_id = c.terminal_id
        BY <1>1, <1>2, <3>2
      <4> QED BY <1>1, <1>2, <3>2, <4>1
    <3> QED BY <2>1, <2>2, <3>1, <3>2, UndoEffect DEF UndoneTooLate, UndoneInto, UndoneNowhere
  <2>3. CASE ~Pending(d.terminal_id)
    BY <1>3, <2>1, <2>3 DEF UndoSoftClose
  <2> QED BY <2>2, <2>3
<1>7. CASE UNCHANGED layout
  BY <1>3, <1>7
<1>8. CASE \E p \in Projects : DeleteProject(p) \/ RemoveStaleWorktree(p)
  BY <1>1, <1>3, <1>8 DEF DeleteProject, RemoveStaleWorktree
<1>9. CASE \E t \in Terminals : HandleExit(t)
  BY <1>1, <1>3, <1>9 DEF HandleExit, ReapRestored
<1>10. CASE SwitchWorkspace
  BY <1>1, <1>2, <1>10 DEF SwitchWorkspace
<1>11. CASE \/ UNCHANGED vars \/ Quit \/ PtyStep
            \/ \E d \in timers : GraceOver(d)
            \/ \E d \in toasts : CloseNow(d) \/ ToastGone(d)
  BY <1>7, <1>11 DEF vars, workspaceVars, Quit, PtyStep, GraceOver, CloseNow, ToastGone
<1> QED BY <1>4, <1>5, <1>6, <1>8, <1>9, <1>10, <1>11 DEF Next

\* An undo brings back its own pane and changes no other, however the layouts have
\* changed since the close.
THEOREM UndoStaysLocal == Spec => UndoIsLocal
<1>1. IInv /\ [Next]_vars => [UndoStep]_vars
  BY NextUndoStep
<1>2. Spec => [][UndoStep]_vars
  BY <1>1, InductiveInvariant, PTL DEF Spec
<1> QED BY <1>2 DEF UndoIsLocal, UndoStep


-------------------------------------------------------------------------------
(* The refinement: SoftClose implements SoftCloseDecision.  It needs that    *)
(* nothing is under way for an unused terminal, that a terminal with a       *)
(* handle is ended by nobody and heard of (HandledIsHeard of the PTY layer), *)
(* and that one that was brought back and is shown still has its handle.     *)

RegisteredIsUsed == terminals \subseteq Used
RestoredIsHandled == \A r \in restored_closes : Shown(r.terminal_id) => r.terminal_id \in handles

Tended == UnusedIsIdle /\ HandledIsHeard /\ RegisteredIsUsed /\ RestoredIsHandled

\* What a handler does to the PTY layer: it ends only terminals that were created,
\* and takes the handle and the registry entry of those that it ends.
HandlerUpdate(C, K, R, V) ==
  /\ C \in SUBSET Terminals /\ K \in SUBSET Terminals /\ R \in SUBSET Terminals
  /\ V \in SUBSET exit_events
  /\ PtyUpdate(C, K, R, V)
  /\ C \cap Used = {} /\ K \subseteq Used /\ R \subseteq K
  /\ \A e \in V : e[1] \in K

LEMMA IdleUpdate ==
  ASSUME TypeOK, UNCHANGED ptyVars
  PROVE  HandlerUpdate({}, {}, {}, {})
<1>1. process' = [t \in Terminals |-> IF t \in {} THEN "alive" ELSE process[t]]
  BY DEF TypeOK, PtyTypeOK, ptyVars
<1>2. broken' = {t \in broken : Ended(t) => t \notin {} \cup {}}
  BY DEF ptyVars
<1> QED BY <1>1, <1>2 DEF HandlerUpdate, PtyUpdate, KillJobs, ReapJobs, Unended, ptyVars

\* A handler keeps the terminals tended if it ends none that was restored and is shown.
LEMMA HandlerKeepsTended ==
  ASSUME IInv, Tended, NEW C, NEW K, NEW R, NEW V, HandlerUpdate(C, K, R, V),
         terminals' \subseteq terminals \cup C,
         \A r \in restored_closes' : Shown(r.terminal_id)' =>
           r.terminal_id \in (handles \cup C) \ K
  PROVE  Tended'
<1>1. PtyTypeOK /\ C \in SUBSET Terminals /\ K \in SUBSET Terminals /\ R \in SUBSET Terminals
  BY DEF IInv, TypeOK, HandlerUpdate
<1>2. UnusedIsIdle' /\ HandledIsHeard'
  BY <1>1, HandledStaysHeard DEF HandlerUpdate, Tended
<1>3. Used' = Used \cup C
  BY <1>1, PtyUpdateEffect DEF HandlerUpdate
<1>4. handles' = (handles \cup C) \ K
  BY DEF HandlerUpdate, PtyUpdate
<1> QED BY <1>2, <1>3, <1>4 DEF Tended, RegisteredIsUsed, RestoredIsHandled

\* What becomes of the shells.
LEMMA ShellsAfterHandler ==
  ASSUME IInv, Tended, NEW C, NEW K, NEW R, NEW V, HandlerUpdate(C, K, R, V), NEW t \in Terminals
  PROVE  /\ process'[t] = IF t \in C THEN "alive" ELSE process[t]
         /\ ShellOf(t)' = IF t \in C THEN "live"
                         ELSE IF t \in K /\ ShellOf(t) # "dead" THEN "ending"
                         ELSE ShellOf(t)
<1>1. /\ process'[t] = IF t \in C THEN "alive" ELSE process[t]
      /\ EventsOf(t)' = EventsOf(t) \ V
      /\ t \notin K => EventsOf(t)' = EventsOf(t)
  BY DEF HandlerUpdate, PtyUpdate, EventsOf
<1>2. t \notin K => (BeingEnded(t)' <=> BeingEnded(t))
  BY DEF HandlerUpdate, PtyUpdate, BeingEnded, KillJobs, ReapJobs, Unended
<1>3. t \in K /\ Alive(t) => BeingEnded(t)'
  BY PtyUpdateEnds DEF HandlerUpdate, IInv, TypeOK
<1>4. CASE t \in C
  <2>1. process[t] = "none" /\ t \notin K
    BY <1>4 DEF HandlerUpdate, Used
  <2>2. ~BeingEnded(t)' /\ EventsOf(t)' = {}
    BY <1>1, <1>2, <2>1 DEF Tended, UnusedIsIdle, BeingEnded
  <2> QED BY <1>1, <1>4, <2>2 DEF ShellOf, Alive
<1>5. CASE t \notin C /\ t \notin K
  BY <1>1, <1>2, <1>5 DEF ShellOf, Alive
<1>6. CASE t \in K
  <2>1. t \notin C /\ process[t] \in {"alive", "dead"}
    BY <1>6 DEF HandlerUpdate, Used, IInv, TypeOK, PtyTypeOK
  <2> QED BY <1>1, <1>3, <1>6, <2>1 DEF ShellOf, Alive
<1> QED BY <1>1, <1>4, <1>5, <1>6

\* A step that places no terminal elsewhere and leaves the shells alone.
LEMMA SamePlaces ==
  ASSUME \A t \in Terminals : Place(t)' = Place(t) /\ ShellOf(t)' = ShellOf(t),
         running' = running
  PROVE  UNCHANGED Decision!vars
BY DEF Decision!vars

\* Where a terminal is, from what shows it and what keeps it.
LEMMA PlaceOf ==
  ASSUME IInv, NEW t \in Terminals
  PROVE  /\ Place(t) = "unused" <=> process[t] = "none"
         /\ Place(t) = "open" <=> Shown(t)
         /\ Place(t) = "pending" <=> Pending(t)
         /\ Place(t) = "lost" <=> t \in lost
         /\ Place(t) = "gone" <=> t \in Used /\ ~Kept(t)
BY DEF IInv, PlacedIsUsed, OnePlace, Place, Used, Kept

SamePlace(t) ==
  Shown(t)' = Shown(t) /\ Pending(t)' = Pending(t) /\ (t \in lost' <=> t \in lost)

\* A step decides the terminals of S: they lose their place and their shells end, if
\* they had not been ended before.
LEMMA DecideStep ==
  ASSUME IInv, IInv', Tended, NEW S \in SUBSET Terminals,
         NEW K, NEW R, NEW V, HandlerUpdate({}, K, R, V),
         \A t \in S : Kept(t) /\ ~Kept(t)',
         \A t \in Terminals \ S : SamePlace(t),
         \A t \in S : t \in K \/ ShellOf(t) \in {"ending", "dead"},
         \A t \in K \ S : ShellOf(t) \in {"ending", "dead"}
  PROVE  /\ S \in SUBSET (Decision!Placed \cup Decision!Lost)
         /\ Decision!PutAll(S, "gone") /\ Decision!End(S)
<1>1. \A t \in Terminals : process'[t] = process[t]
  BY ShellsAfterHandler
<1>2. \A t \in Terminals : Place(t)' = IF t \in S THEN "gone" ELSE Place(t)
  <2> SUFFICES ASSUME NEW t \in Terminals
               PROVE  Place(t)' = IF t \in S THEN "gone" ELSE Place(t)
    OBVIOUS
  <2>1. CASE t \in S
    <3>1. process'[t] # "none"
      BY <1>1, <2>1 DEF IInv, PlacedIsUsed
    <3> QED BY <2>1, <3>1 DEF Place, Kept
  <2>2. CASE t \notin S
    BY <1>1, <2>2 DEF Place, SamePlace
  <2> QED BY <2>1, <2>2
<1>3. \A t \in Terminals :
        ShellOf(t)' = IF t \in S /\ ShellOf(t) # "dead" THEN "ending" ELSE ShellOf(t)
  <2> SUFFICES ASSUME NEW t \in Terminals
               PROVE  ShellOf(t)' = IF t \in S /\ ShellOf(t) # "dead" THEN "ending" ELSE ShellOf(t)
    OBVIOUS
  <2>1. ShellOf(t)' = IF t \in K /\ ShellOf(t) # "dead" THEN "ending" ELSE ShellOf(t)
    BY ShellsAfterHandler
  <2> QED BY <2>1
<1>4. S \in SUBSET (Decision!Placed \cup Decision!Lost)
  <2>1. \A t \in S : Place(t) \in {"open", "pending", "lost"}
    BY PlaceOf DEF Kept
  <2> QED BY <2>1 DEF Decision!Placed, Decision!Lost
<1>5. Decision!PutAll(S, "gone")
  BY <1>2 DEF Decision!PutAll
<1>6. Decision!End(S)
  BY <1>3 DEF Decision!End
<1> QED BY <1>4, <1>5, <1>6

\* A terminal that nothing accounts for, or that is not in the registry, has been ended
\* before.
LEMMA UntrackedIsEnded ==
  ASSUME IInv, NEW t \in Used, t \notin terminals \/ ~Kept(t)
  PROVE  ShellOf(t) \in {"ending", "dead"}
BY DEF IInv, LiveIsTracked, TypeOK, PtyTypeOK, Used, ShellOf, Alive

-------------------------------------------------------------------------------
(* Every action keeps the terminals tended and is a step of the decision.    *)

LEMMA CreateDecides ==
  ASSUME IInv, IInv', Tended, NEW p \in Projects, NEW t \in Terminals, CreateTerminal(p, t)
  PROVE  Tended' /\ Decision!Next
<1>1. HandlerUpdate({t}, {}, {}, {})
  BY DEF CreateTerminal, HandlerUpdate, Used
<1>2. \A u \in Terminals :
        /\ Pending(u)' = Pending(u) /\ (u # t => Shown(u)' = Shown(u)) /\ Shown(t)'
        /\ u \in lost' <=> u \in lost
  BY DEF CreateTerminal, Pending, RecordsOf, Shown, IInv, TypeOK
<1>3. Tended'
  <2>1. \A r \in restored_closes' : Shown(r.terminal_id)' => r.terminal_id \in handles \cup {t}
    BY <1>2 DEF CreateTerminal, Tended, RestoredIsHandled, IInv, TypeOK, RestoredClose
  <2>2. terminals' \subseteq terminals \cup {t}
    BY DEF CreateTerminal
  <2> QED BY <1>1, <2>1, <2>2, HandlerKeepsTended
<1>4. \A u \in Terminals :
        /\ process'[u] = IF u = t THEN "alive" ELSE process[u]
        /\ ShellOf(u)' = IF u = t THEN "live" ELSE ShellOf(u)
  BY <1>1, ShellsAfterHandler
<1>5. Place(t) = "unused" /\ \A u \in Terminals : Place(u)' = IF u = t THEN "open" ELSE Place(u)
  BY <1>2, <1>4 DEF CreateTerminal, Place
<1>6. Decision!Create(t)
  BY <1>4, <1>5 DEF Decision!Create, CreateTerminal
<1> QED BY <1>3, <1>6 DEF Decision!Next

LEMMA CloseDecides ==
  ASSUME IInv, IInv', Tended, NEW p \in Projects, NEW t \in Terminals, CloseTerminal(p, t)
  PROVE  Tended' /\ Decision!Next
<1>1. Shown(t) /\ Kept(t) /\ t \in Used
  BY DEF CloseTerminal, Shown, IInv, PlacedIsUsed, Used, Kept
<1>2. HandlerUpdate({}, {t}, {}, {})
  BY <1>1 DEF CloseTerminal, Kill, HandlerUpdate
<1>3. \A u \in Terminals :
        /\ Pending(u)' = Pending(u) /\ (u # t => Shown(u)' = Shown(u)) /\ ~Shown(t)' /\ ~Pending(t)
        /\ u \in lost' <=> u \in lost \ {t}
  BY DEF CloseTerminal, Kill, Pending, RecordsOf, Shown, IInv, TypeOK, OnePlace
<1>4. Tended'
  <2>1. \A r \in restored_closes' : Shown(r.terminal_id)' =>
          r.terminal_id \in (handles \cup {}) \ {t}
    BY <1>3 DEF CloseTerminal, Tended, RestoredIsHandled, IInv, TypeOK, RestoredClose
  <2>2. terminals' \subseteq terminals \cup {}
    BY DEF CloseTerminal, Kill
  <2> QED BY <1>2, <2>1, <2>2, HandlerKeepsTended
<1>5. /\ {t} \in SUBSET (Decision!Placed \cup Decision!Lost)
      /\ Decision!PutAll({t}, "gone") /\ Decision!End({t})
  <2>1. ~Kept(t)' /\ \A u \in Terminals \ {t} : SamePlace(u)
    BY <1>3 DEF Kept, SamePlace
  <2> QED BY <1>1, <1>2, <2>1, DecideStep
<1>6. Decision!Decide({t})
  BY <1>5 DEF Decision!Decide, CloseTerminal
<1> QED BY <1>4, <1>5, <1>6 DEF Decision!Next

LEMMA MoveDecides ==
  ASSUME IInv, IInv', Tended, NEW p \in Projects, NEW q \in Projects, NEW t \in Terminals,
         MovePane(p, q, t)
  PROVE  Tended' /\ UNCHANGED Decision!vars
<1>1. HandlerUpdate({}, {}, {}, {})
  BY IdleUpdate DEF IInv, MovePane
<1>2. \A u \in Terminals : Pending(u)' = Pending(u) /\ Shown(u)' = Shown(u)
  BY DEF MovePane, Pending, RecordsOf, Shown, IInv, TypeOK
<1>3. UNCHANGED <<terminals, restored_closes, running, lost>>
  BY DEF MovePane, screenVars
<1>4. Tended'
  <2>1. \A r \in restored_closes' : Shown(r.terminal_id)' =>
          r.terminal_id \in (handles \cup {}) \ {}
    BY <1>2, <1>3 DEF Tended, RestoredIsHandled, IInv, TypeOK, RestoredClose
  <2> QED BY <1>1, <1>3, <2>1, HandlerKeepsTended
<1>5. \A u \in Terminals : process'[u] = process[u] /\ ShellOf(u)' = ShellOf(u)
  BY <1>1, ShellsAfterHandler
<1>6. \A u \in Terminals : Place(u)' = Place(u)
  BY <1>2, <1>3, <1>5 DEF Place
<1> QED BY <1>3, <1>4, <1>5, <1>6, SamePlaces

\* A lost pane leaves its shell alone.
LEMMA LosesDecides ==
  ASSUME IInv, IInv', Tended, NEW S, Loses(S)
  PROVE  Tended' /\ Decision!Next
<1> USE DEF Loses
<1>1. HandlerUpdate({}, {}, {}, {})
  BY IdleUpdate DEF IInv
<1>2. \A u \in Terminals : /\ Pending(u)' = Pending(u)
                           /\ Shown(u)' <=> (Shown(u) /\ u \notin S)
  BY DEF Pending, RecordsOf, Shown
<1>3. Tended'
  <2>1. \A r \in restored_closes' : Shown(r.terminal_id)' =>
          r.terminal_id \in (handles \cup {}) \ {}
    BY <1>2 DEF Tended, RestoredIsHandled, IInv, TypeOK, RestoredClose
  <2> QED BY <1>1, <2>1, HandlerKeepsTended
<1>4. \A u \in Terminals : process'[u] = process[u] /\ ShellOf(u)' = ShellOf(u)
  BY <1>1, ShellsAfterHandler
<1>5. \A u \in Terminals : Place(u)' = IF u \in S THEN "lost" ELSE Place(u)
  <2> SUFFICES ASSUME NEW u \in Terminals
               PROVE  Place(u)' = IF u \in S THEN "lost" ELSE Place(u)
    OBVIOUS
  <2>1. CASE u \in S
    <3>1. process'[u] # "none" /\ ~Shown(u)' /\ ~Pending(u)'
      BY <1>2, <1>4, <2>1 DEF IInv, PlacedIsUsed, OnePlace, Kept
    <3> QED BY <2>1, <3>1 DEF Place
  <2>2. CASE u \notin S
    BY <1>2, <1>4, <2>2 DEF Place
  <2> QED BY <2>1, <2>2
<1>6. S \in SUBSET Decision!Placed
  <2>1. \A u \in S : Place(u) = "open"
    BY PlaceOf
  <2> QED BY <2>1 DEF Decision!Placed
<1>7. Decision!Lose(S)
  BY <1>4, <1>5 DEF Decision!Lose, Decision!PutAll
<1> QED BY <1>3, <1>6, <1>7 DEF Decision!Next

\* The steps that decide: what they end besides S has no place and is ended already.
LEMMA DecideTends ==
  ASSUME IInv, IInv', Tended, NEW S \in SUBSET Terminals,
         NEW K, HandlerUpdate({}, K, {}, {}),
         \A t \in S : Kept(t) /\ ~Kept(t)',
         \A t \in Terminals \ S : SamePlace(t),
         \A t \in S \ K : t \notin terminals,
         \A t \in K \ S : ~Kept(t),
         terminals' \subseteq terminals, restored_closes' \subseteq restored_closes
  PROVE  /\ Tended'
         /\ S \in SUBSET (Decision!Placed \cup Decision!Lost)
         /\ Decision!PutAll(S, "gone") /\ Decision!End(S)
<1>1. \A t \in Terminals : Shown(t)' => Shown(t) /\ t \notin K
  BY DEF Kept, SamePlace
<1>2. \A r \in restored_closes' : Shown(r.terminal_id)' => r.terminal_id \in (handles \cup {}) \ K
  BY <1>1 DEF Tended, RestoredIsHandled, IInv, TypeOK, RestoredClose
<1>3. Tended'
  BY <1>2, HandlerKeepsTended
<1>4. S \subseteq Used /\ K \subseteq Used
  BY DEF HandlerUpdate, IInv, PlacedIsUsed, Used
<1>5. \A t \in S : t \in K \/ ShellOf(t) \in {"ending", "dead"}
  BY <1>4, UntrackedIsEnded
<1>6. \A t \in K \ S : ShellOf(t) \in {"ending", "dead"}
  BY <1>4, UntrackedIsEnded
<1> QED BY <1>3, <1>5, <1>6, DecideStep

LEMMA DeleteDecides ==
  ASSUME IInv, IInv', Tended, NEW p \in Projects, DeleteProject(p)
  PROVE  Tended' /\ Decision!Next
<1> DEFINE S == layout[p] \cup {c.terminal_id : c \in ClosedIn(p)}
<1>1. S \in SUBSET Terminals /\ \A t \in S : Shown(t) \/ Pending(t)
  BY DEF IInv, TypeOK, ClosedIn, PendingClose, Shown, Pending, RecordsOf
<1>2. /\ PtyUpdate({}, S, {}, {}) /\ terminals' = terminals \ S /\ lost' = lost \ S
      /\ layout' = [layout EXCEPT ![p] = {}]
      /\ pending_closes' = pending_closes \ ClosedIn(p)
      /\ running /\ UNCHANGED <<running, restored_closes>>
  BY DEF DeleteProject, Kill
<1>3. \A t \in S : ~Shown(t)' /\ ~Pending(t)'
  <2>1. ASSUME NEW t \in S PROVE ~Shown(t)'
    <3>1. CASE t \in layout[p]
      BY <1>2, <3>1 DEF Shown, IInv, TypeOK, OnePlace
    <3>2. CASE t \notin layout[p]
      <4>1. Pending(t)
        BY <3>2 DEF ClosedIn, Pending, RecordsOf
      <4> QED BY <1>1, <1>2, <4>1 DEF Shown, IInv, TypeOK, OnePlace
    <3> QED BY <3>1, <3>2
  <2>2. ASSUME NEW t \in S PROVE ~Pending(t)'
    <3>1. CASE t \in layout[p]
      BY <1>2, <3>1 DEF Shown, Pending, RecordsOf, IInv, TypeOK, OnePlace
    <3>2. CASE t \notin layout[p]
      <4>1. PICK c \in ClosedIn(p) : c.terminal_id = t
        BY <3>2
      <4>2. c \in RecordsOf(pending_closes, t) /\ t \in Terminals
        BY <1>1, <4>1 DEF ClosedIn, RecordsOf
      <4>3. \A d \in RecordsOf(pending_closes, t) : d = c
        BY <4>2 DEF IInv, OnePlace
      <4> QED BY <1>2, <4>1, <4>3 DEF Pending, RecordsOf
    <3> QED BY <3>1, <3>2
  <2> QED BY <2>1, <2>2
<1>4. \A t \in Terminals \ S : SamePlace(t)
  BY <1>2 DEF SamePlace, Pending, RecordsOf, Shown, ClosedIn, IInv, TypeOK
<1> HIDE DEF S
<1>5. HandlerUpdate({}, S, {}, {})
  BY <1>1, <1>2 DEF HandlerUpdate, IInv, PlacedIsUsed, Used, Kept
<1>6. /\ Tended' /\ S \in SUBSET (Decision!Placed \cup Decision!Lost)
      /\ Decision!PutAll(S, "gone") /\ Decision!End(S)
  <2>1. terminals' \subseteq terminals /\ restored_closes' \subseteq restored_closes
    BY <1>2
  <2>2. (\A t \in S \ S : t \notin terminals) /\ \A t \in S \ S : ~Kept(t)
    OBVIOUS
  <2>3. \A t \in S : Kept(t) /\ ~Kept(t)'
    BY <1>1, <1>2, <1>3 DEF Kept
  <2> QED BY <1>1, <1>4, <1>5, <2>1, <2>2, <2>3, DecideTends
<1>7. Decision!Decide(S)
  BY <1>2, <1>6 DEF Decision!Decide
<1> QED BY <1>6, <1>7 DEF Decision!Next

LEMMA SwitchDecides ==
  ASSUME IInv, IInv', Tended, SwitchWorkspace
  PROVE  Tended' /\ Decision!Next
<1> DEFINE S == {t \in Terminals : Shown(t) \/ Pending(t) \/ t \in lost \cap terminals}
<1>1. /\ PtyUpdate({}, terminals, {}, {}) /\ terminals' = terminals \ terminals
      /\ lost' = lost \ terminals
      /\ pending_closes' = {} /\ restored_closes' = {} /\ running /\ UNCHANGED running
      /\ layout' = [q \in Projects |-> {}]
  BY DEF SwitchWorkspace, Kill
<1>2. \A t \in Terminals : ~Shown(t)' /\ ~Pending(t)'
  BY <1>1 DEF Shown, Pending, RecordsOf
<1>3. HandlerUpdate({}, terminals, {}, {})
  BY <1>1 DEF HandlerUpdate, IInv, TypeOK, Tended, RegisteredIsUsed
<1>4. /\ S \in SUBSET Terminals
      /\ \A t \in S : Kept(t) /\ ~Kept(t)'
      /\ \A t \in Terminals \ S : SamePlace(t)
      /\ \A t \in S \ terminals : t \notin terminals
      /\ \A t \in terminals \ S : ~Kept(t)
      /\ terminals' \subseteq terminals /\ restored_closes' \subseteq restored_closes
  <2>1. \A t \in Terminals \ S : Shown(t)' = FALSE /\ Shown(t) = FALSE
    BY <1>2 DEF Shown
  <2>2. \A t \in Terminals \ S : Pending(t)' = FALSE /\ Pending(t) = FALSE
    BY <1>2 DEF Pending
  <2>3. \A t \in Terminals \ S : SamePlace(t)
    BY <1>1, <2>1, <2>2 DEF SamePlace
  <2>4. \A t \in S : Kept(t) /\ ~Kept(t)'
    BY <1>1, <1>2 DEF Kept, IInv, OnePlace
  <2>5. \A t \in terminals \ S : ~Kept(t)
    BY DEF Kept, IInv, TypeOK
  <2> QED BY <1>1, <2>3, <2>4, <2>5
<1> HIDE DEF S
<1>5. /\ Tended' /\ S \in SUBSET (Decision!Placed \cup Decision!Lost)
      /\ Decision!PutAll(S, "gone") /\ Decision!End(S)
  BY <1>3, <1>4, DecideTends
<1>6. Decision!Decide(S)
  BY <1>1, <1>5 DEF Decision!Decide
<1> QED BY <1>5, <1>6 DEF Decision!Next

\* A terminal with a handle is ended by nobody: only the close of such a one can be
\* undone.
LEMMA HandledShell ==
  ASSUME IInv, Tended, NEW t \in handles
  PROVE  ShellOf(t) # "ending" /\ (Alive(t) => ShellOf(t) \in {"live", "reported"})
<1>1. ~BeingEnded(t) /\ process[t] # "ending"
  BY DEF IInv, TypeOK, PtyTypeOK, Tended, HandledIsHeard, Heard, BeingEnded
<1> QED BY <1>1 DEF ShellOf

LEMMA SoftCloseDecides ==
  ASSUME IInv, IInv', Tended, NEW p \in Projects, NEW t \in Terminals, SoftClose(p, t)
  PROVE  Tended' /\ Decision!Next
<1>1. HandlerUpdate({}, {}, {}, {})
  BY IdleUpdate DEF IInv, SoftClose
<1>2. t \in layout[p] /\ Alive(t) /\ running
  BY DEF SoftClose
<1>3. /\ UNCHANGED <<terminals, running, lost>> /\ restored_closes' \subseteq restored_closes
      /\ layout' = [layout EXCEPT ![p] = @ \ {t}]
  BY RecordsType DEF SoftClose
<1>4. \E record : record.terminal_id = t /\ pending_closes' = pending_closes \cup {record}
  BY DEF SoftClose
<1>5. \A u \in Terminals : Pending(u)' <=> (Pending(u) \/ u = t)
  BY <1>4 DEF Pending, RecordsOf
<1>6. \A u \in Terminals : Shown(u)' <=> (Shown(u) /\ u # t)
  BY <1>2, <1>3 DEF Shown, IInv, TypeOK, OnePlace
<1>7. Tended'
  <2>1. \A r \in restored_closes' : Shown(r.terminal_id)' =>
          r.terminal_id \in (handles \cup {}) \ {}
    BY <1>3, <1>6 DEF Tended, RestoredIsHandled, IInv, TypeOK, RestoredClose
  <2> QED BY <1>1, <1>3, <2>1, HandlerKeepsTended
<1>8. \A u \in Terminals : process'[u] = process[u] /\ ShellOf(u)' = ShellOf(u)
  BY <1>1, ShellsAfterHandler
<1>9. \A u \in Terminals : Place(u)' = IF u = t THEN "pending" ELSE Place(u)
  <2>1. process[t] # "none"
    BY <1>2 DEF Alive
  <2> QED BY <1>3, <1>5, <1>6, <1>8, <2>1 DEF Place
<1>10. Place(t) = "open" /\ ShellOf(t) \in {"live", "reported", "ending"}
  BY <1>2, PlaceOf DEF Shown, ShellOf
<1>11. Decision!SoftClose(t)
  BY <1>2, <1>3, <1>8, <1>9, <1>10 DEF Decision!SoftClose
<1> QED BY <1>7, <1>11 DEF Decision!Next

\* A step that forgets toasts, timers or breadcrumbs only.
LEMMA ForgetDecides ==
  ASSUME IInv, Tended, UNCHANGED <<running, layout, terminals, pending_closes, lost, ptyVars>>,
         restored_closes' \subseteq restored_closes
  PROVE  Tended' /\ UNCHANGED Decision!vars
<1>1. HandlerUpdate({}, {}, {}, {})
  BY IdleUpdate DEF IInv
<1>2. \A u \in Terminals : Pending(u)' = Pending(u) /\ Shown(u)' = Shown(u)
  BY DEF Pending, RecordsOf, Shown
<1>3. Tended'
  <2>1. \A r \in restored_closes' : Shown(r.terminal_id)' =>
          r.terminal_id \in (handles \cup {}) \ {}
    BY <1>2 DEF Tended, RestoredIsHandled, IInv, TypeOK, RestoredClose
  <2> QED BY <1>1, <2>1, HandlerKeepsTended
<1>4. \A u \in Terminals : process'[u] = process[u] /\ ShellOf(u)' = ShellOf(u)
  BY <1>1, ShellsAfterHandler
<1>5. \A u \in Terminals : Place(u)' = Place(u)
  BY <1>2, <1>4 DEF Place
<1> QED BY <1>3, <1>4, <1>5, SamePlaces

\* The timer and "Close now" decide a pending close and leave any other terminal, also
\* one whose close was undone, alone.
LEMMA FinalizeDecides ==
  ASSUME IInv, IInv', Tended, NEW t \in Terminals, running, Finalize(t),
         UNCHANGED <<running, layout, restored_closes>>
  PROVE  Tended' /\ (Decision!Next \/ UNCHANGED Decision!vars)
<1>1. CASE Pending(t)
  <2>1. /\ pending_closes' = pending_closes \ RecordsOf(pending_closes, t)
        /\ PtyUpdate({}, {t}, {}, {}) /\ terminals' = terminals \ {t} /\ lost' = lost \ {t}
    BY <1>1 DEF Finalize, Kill
  <2>2. HandlerUpdate({}, {t}, {}, {})
    BY <1>1, <2>1 DEF HandlerUpdate, IInv, PlacedIsUsed, Used, Kept
  <2>3. /\ {t} \in SUBSET Terminals
        /\ \A u \in {t} : Kept(u) /\ ~Kept(u)'
        /\ \A u \in Terminals \ {t} : SamePlace(u)
        /\ \A u \in {t} \ {t} : u \notin terminals
        /\ \A u \in {t} \ {t} : ~Kept(u)
        /\ terminals' \subseteq terminals /\ restored_closes' \subseteq restored_closes
    BY <1>1, <2>1 DEF Pending, RecordsOf, Shown, IInv, OnePlace, Kept, SamePlace
  <2>4. /\ Tended' /\ {t} \in SUBSET (Decision!Placed \cup Decision!Lost)
        /\ Decision!PutAll({t}, "gone") /\ Decision!End({t})
    BY <2>2, <2>3, DecideTends
  <2>5. Decision!Decide({t})
    BY <2>4 DEF Decision!Decide
  <2> QED BY <2>4, <2>5 DEF Decision!Next
<1>2. CASE ~Pending(t)
  BY <1>2, ForgetDecides DEF Finalize
<1> QED BY <1>1, <1>2

LEMMA QuitDecides ==
  ASSUME IInv, IInv', Tended, Quit
  PROVE  Tended' /\ Decision!Next
<1> DEFINE S == {c.terminal_id : c \in pending_closes}
<1>1. S = {t \in Terminals : Pending(t)}
  BY DEF Pending, RecordsOf, IInv, TypeOK, PendingClose
<1>2. /\ PtyUpdate({}, S, {}, {}) /\ terminals' = terminals \ S /\ lost' = lost \ S
      /\ running /\ running' = FALSE /\ pending_closes' = {}
      /\ UNCHANGED <<layout, restored_closes>>
  BY DEF Quit, Kill
<1> HIDE DEF S
<1>3. HandlerUpdate({}, S, {}, {})
  BY <1>1, <1>2 DEF HandlerUpdate, IInv, PlacedIsUsed, Used, Kept
<1>4. /\ S \in SUBSET Terminals
      /\ \A t \in S : Kept(t) /\ ~Kept(t)'
      /\ \A t \in Terminals \ S : SamePlace(t)
      /\ \A t \in S \ S : t \notin terminals
      /\ \A t \in S \ S : ~Kept(t)
      /\ terminals' \subseteq terminals /\ restored_closes' \subseteq restored_closes
  BY <1>1, <1>2 DEF Pending, RecordsOf, Shown, IInv, OnePlace, Kept, SamePlace
<1>5. Tended' /\ Decision!PutAll(S, "gone") /\ Decision!End(S)
  BY <1>3, <1>4, DecideTends
<1>6. S = {t \in Terminals : Place(t) = "pending"}
  BY <1>1, PlaceOf
<1>7. Decision!Quit
  BY <1>2, <1>5, <1>6 DEF Decision!Quit
<1> QED BY <1>5, <1>7 DEF Decision!Next

LEMMA UndoDecides ==
  ASSUME IInv, IInv', Tended, NEW c \in toasts, Undo(c)
  PROVE  Tended' /\ (Decision!Next \/ UNCHANGED Decision!vars)
<1> DEFINE t == c.terminal_id
<1>1. /\ t \in Terminals /\ UndoSoftClose(t) /\ running
      /\ UNCHANGED <<running, terminals>> /\ UNCHANGED ptyVars
  BY DEF Undo, IInv, TypeOK, Close
<1> HIDE DEF t
<1>2. CASE Pending(t)
  <2>1. HandlerUpdate({}, {}, {}, {})
    BY <1>1, IdleUpdate DEF IInv
  <2>2. /\ ~Pending(t)' /\ ~Shown(t) /\ t \notin lost
        /\ \A u \in Terminals :
             u # t => /\ Pending(u)' = Pending(u) /\ Shown(u)' = Shown(u)
                      /\ u \in lost' <=> u \in lost
        /\ \/ UndoneTooLate(t) /\ ~Shown(t)' /\ t \notin lost' /\ t \notin terminals
           \/ \E q \in Projects : UndoneInto(t, q) /\ Shown(t)' /\ t \notin lost'
           \/ \E q \in Projects : UndoneNowhere(t, q) /\ ~Shown(t)' /\ t \in lost'
    BY <1>1, <1>2, UndonePlaces
  <2>3. t \in terminals => t \in handles
    BY DEF IInv, HandleIsRegistered
  <2>4. Tended'
    <3>1. \A r \in restored_closes' : Shown(r.terminal_id)' =>
            r.terminal_id \in (handles \cup {}) \ {}
      <4> SUFFICES ASSUME NEW r \in restored_closes', Shown(r.terminal_id)'
                   PROVE  r.terminal_id \in handles
        OBVIOUS
      <4>1. CASE r.terminal_id = t
        BY <2>2, <2>3, <4>1 DEF UndoneInto
      <4>2. CASE r.terminal_id # t
        <5>1. r \in restored_closes /\ r.terminal_id \in Terminals
          BY <2>2, <4>2 DEF UndoneTooLate, UndoneInto, UndoneNowhere, Crumbs, IInv, TypeOK,
                            RestoredClose
        <5> QED BY <2>2, <4>2, <5>1 DEF Tended, RestoredIsHandled
      <4> QED BY <4>1, <4>2
    <3> QED BY <1>1, <2>1, <3>1, HandlerKeepsTended
  <2>5. \A u \in Terminals : process'[u] = process[u] /\ ShellOf(u)' = ShellOf(u)
    BY <2>1, ShellsAfterHandler
  <2>6. \A u \in Terminals : u # t => Place(u)' = Place(u)
    BY <2>2, <2>5 DEF Place
  <2>7. Place(t) = "pending" /\ process'[t] # "none"
    BY <1>1, <1>2, <2>5, PlaceOf DEF IInv, PlacedIsUsed, Kept
  <2>8. CASE UndoneTooLate(t) /\ ~Shown(t)' /\ t \notin lost' /\ t \notin terminals
    <3>1. ShellOf(t) \in {"ending", "dead"}
      BY <1>1, <1>2, <2>8, UntrackedIsEnded DEF IInv, PlacedIsUsed, Kept, Used
    <3>2. Place(t)' = "gone"
      BY <2>2, <2>7, <2>8 DEF Place
    <3>3. Decision!Decide({t})
      BY <1>1, <2>5, <2>6, <3>1, <3>2 DEF Decision!Decide, Decision!PutAll, Decision!End
    <3>4. {t} \in SUBSET (Decision!Placed \cup Decision!Lost)
      BY <1>1, <2>7 DEF Decision!Placed
    <3> QED BY <2>4, <3>3, <3>4 DEF Decision!Next
  <2>9. CASE \E q \in Projects : UndoneInto(t, q) /\ Shown(t)' /\ t \notin lost'
    <3>1. ShellOf(t) # "ending"
      BY <1>1, <2>3, <2>9, HandledShell DEF UndoneInto
    <3>2. \A u \in Terminals : Place(u)' = IF u = t THEN "open" ELSE Place(u)
      BY <2>6, <2>7, <2>9 DEF Place
    <3>3. Decision!Undo(t)
      BY <1>1, <2>5, <2>7, <3>1, <3>2 DEF Decision!Undo
    <3> QED BY <1>1, <2>4, <3>3 DEF Decision!Next
  <2>10. CASE \E q \in Projects : UndoneNowhere(t, q) /\ ~Shown(t)' /\ t \in lost'
    <3>1. Place(t)' = "lost"
      BY <2>2, <2>7, <2>10 DEF Place
    <3>2. Decision!Lose({t})
      BY <1>1, <2>5, <2>6, <3>1 DEF Decision!Lose, Decision!PutAll
    <3>3. {t} \in SUBSET Decision!Placed
      BY <1>1, <2>7 DEF Decision!Placed
    <3> QED BY <2>4, <3>2, <3>3 DEF Decision!Next
  <2> QED BY <2>2, <2>8, <2>9, <2>10
<1>3. CASE ~Pending(t)
  <2>1. UNCHANGED <<running, layout, terminals, pending_closes, lost, restored_closes>>
    BY <1>1, <1>3 DEF UndoSoftClose
  <2> QED BY <1>1, <2>1, ForgetDecides
<1> QED BY <1>2, <1>3

LEMMA ExitDecides ==
  ASSUME IInv, IInv', Tended, NEW t \in Terminals, HandleExit(t)
  PROVE  Tended' /\ Decision!Next
<1>1. PICK V \in (SUBSET EventsOf(t)) \ {{}} : PtyUpdate({}, {t}, {t}, V)
  BY DEF HandleExit
<1>2. /\ running /\ UNCHANGED running /\ terminals' = terminals \ {t} /\ lost' = lost \ {t}
      /\ pending_closes' = pending_closes \ RecordsOf(pending_closes, t)
      /\ restored_closes' = restored_closes \ RecordsOf(restored_closes, t)
      /\ \A p \in Projects : layout'[p] = layout[p] \/ layout'[p] = layout[p] \ {t}
  BY DEF HandleExit, CancelPending, ReapRestored
<1>3. EventsOf(t) # {} /\ V \in SUBSET exit_events /\ \A e \in V : e[1] = t
  BY DEF EventsOf
<1>4. t \in Used
  BY <1>3 DEF Tended, UnusedIsIdle, Used
<1>5. HandlerUpdate({}, {t}, {t}, V)
  BY <1>1, <1>3, <1>4 DEF HandlerUpdate
<1>6. \A u \in Terminals : Pending(u)' <=> (Pending(u) /\ u # t)
  BY <1>2 DEF Pending, RecordsOf
<1>7. \A u \in Terminals : /\ Shown(u)' => Shown(u)
                           /\ u # t => Shown(u)' = Shown(u)
  BY <1>2 DEF Shown
<1>8. Tended'
  <2>1. \A r \in restored_closes' : Shown(r.terminal_id)' =>
          r.terminal_id \in (handles \cup {}) \ {t}
    BY <1>2, <1>7 DEF Tended, RestoredIsHandled, RecordsOf, IInv, TypeOK, RestoredClose
  <2> QED BY <1>2, <1>5, <2>1, HandlerKeepsTended
<1>9. \A u \in Terminals : process'[u] = process[u]
  BY <1>5, ShellsAfterHandler
<1>10. \A u \in Terminals \ {t} : Place(u)' = Place(u)
  BY <1>2, <1>6, <1>7, <1>9 DEF Place
<1>11. Place(t)' = "gone" \/ (Place(t) # "pending" /\ Place(t)' = Place(t))
  <2>1. process'[t] # "none" /\ ~Pending(t)'
    BY <1>4, <1>6, <1>9 DEF Used
  <2>2. CASE Shown(t)'
    <3>1. Place(t)' = "open"
      BY <2>1, <2>2 DEF Place
    <3>2. Place(t) = "open"
      BY <1>7, <2>2, PlaceOf
    <3> QED BY <3>1, <3>2
  <2>3. CASE ~Shown(t)'
    BY <1>2, <2>1, <2>3 DEF Place
  <2> QED BY <2>2, <2>3
<1>12. Decision!PutAll({t}, "gone") \/ (Place(t) # "pending" /\ \A u \in Terminals : Place(u)' = Place(u))
  BY <1>10, <1>11 DEF Decision!PutAll
<1>13. Decision!End({t})
  BY <1>5, ShellsAfterHandler DEF Decision!End
<1>14. ShellOf(t) \in {"reported", "ending", "dead"}
  BY <1>3, <1>4 DEF ShellOf, Used, Alive, IInv, TypeOK, PtyTypeOK
<1>15. Decision!Exited(t)
  BY <1>2, <1>12, <1>13, <1>14 DEF Decision!Exited
<1> QED BY <1>8, <1>15 DEF Decision!Next

\* What processes, threads and workers do on their own is seen of one shell at most:
\* it is reported, or it dies.
LEMMA ShellsAfterPtyNext ==
  ASSUME IInv, Tended, PtyNext
  PROVE  \E u \in Terminals :
           /\ \A t \in Terminals : process'[t] = "none" <=> process[t] = "none"
           /\ \A t \in Terminals \ {u} : ShellOf(t)' = ShellOf(t)
           /\ \/ ShellOf(u)' = ShellOf(u)
              \/ ShellOf(u) = "live" /\ ShellOf(u)' = "reported"
              \/ ShellOf(u) \in {"live", "reported", "ending"} /\ ShellOf(u)' = "dead"
<1> USE DEF IInv, TypeOK, PtyTypeOK
<1> PICK u \in Terminals :
       \/ \E code \in Codes : ProcessExit(u, code)
       \/ ClientExit(u)
       \/ WriterFail(u)
       \/ \E kind \in JobKind : Teardown(u, kind)
  BY DEF PtyNext
<1>1. ASSUME exit_events \subseteq exit_events', \A e \in exit_events' \ exit_events : e[1] = u
      PROVE  /\ \A t \in Terminals \ {u} : EventsOf(t)' = EventsOf(t)
             /\ EventsOf(u) \subseteq EventsOf(u)'
  BY <1>1 DEF EventsOf
<1>2. ASSUME NEW code \in Codes, ProcessExit(u, code)
      PROVE  /\ \A t \in Terminals : process'[t] = "none" <=> process[t] = "none"
             /\ \A t \in Terminals \ {u} : ShellOf(t)' = ShellOf(t)
             /\ ShellOf(u) \in {"live", "reported", "ending"} /\ ShellOf(u)' = "dead"
  <2>1. /\ Alive(u) /\ process' = [process EXCEPT ![u] = "dead"] /\ teardown' = teardown
        /\ \A t \in Terminals \ {u} : EventsOf(t)' = EventsOf(t)
    BY <1>1, <1>2 DEF ProcessExit, ReaderEnds
  <2>2. \A t \in Terminals : BeingEnded(t)' <=> BeingEnded(t)
    BY <2>1 DEF BeingEnded
  <2> QED BY <2>1, <2>2 DEF ShellOf, Alive
<1>3. CASE ClientExit(u) \/ WriterFail(u)
  <2>1. /\ UNCHANGED <<process, teardown>>
        /\ \A t \in Terminals \ {u} : EventsOf(t)' = EventsOf(t)
        /\ EventsOf(u) \subseteq EventsOf(u)'
    BY <1>1, <1>3 DEF ClientExit, WriterFail, ReaderEnds
  <2>2. \A t \in Terminals : BeingEnded(t)' <=> BeingEnded(t)
    BY <2>1 DEF BeingEnded
  <2>3. ShellOf(u)' = ShellOf(u) \/ (ShellOf(u) = "live" /\ ShellOf(u)' = "reported")
    BY <2>1, <2>2 DEF ShellOf, Alive
  <2>4. \A t \in Terminals \ {u} : ShellOf(t)' = ShellOf(t)
    BY <2>1, <2>2 DEF ShellOf, Alive
  <2> QED BY <2>1, <2>3, <2>4
<1>4. ASSUME NEW kind \in JobKind, Teardown(u, kind)
      PROVE  /\ \A t \in Terminals : process'[t] = "none" <=> process[t] = "none"
             /\ \A t \in Terminals \ {u} : ShellOf(t)' = ShellOf(t)
             /\ \/ ShellOf(u)' = ShellOf(u)
                \/ ShellOf(u) = "live" /\ ShellOf(u)' = "reported"
                \/ ShellOf(u) \in {"live", "reported", "ending"} /\ ShellOf(u)' = "dead"
  <2>1. /\ <<u, kind>> \in teardown /\ teardown' = teardown \ {<<u, kind>>}
        /\ process' = [process EXCEPT ![u] = IF EndsProcess(kind) THEN "dead" ELSE @]
        /\ \A t \in Terminals \ {u} : EventsOf(t)' = EventsOf(t)
        /\ EventsOf(u) \subseteq EventsOf(u)'
    BY <1>1, <1>4 DEF Teardown, ReaderEnds
  <2>2. process[u] \in {"alive", "dead"}
    BY <2>1 DEF Tended, UnusedIsIdle
  <2>3. \A t \in Terminals \ {u} : BeingEnded(t)' <=> BeingEnded(t)
    BY <2>1 DEF BeingEnded
  <2>4. \A t \in Terminals \ {u} : process'[t] = process[t] /\ ShellOf(t)' = ShellOf(t)
    BY <2>1, <2>3 DEF ShellOf, Alive
  <2>5. CASE EndsProcess(kind)
    <3>1. process'[u] = "dead" /\ BeingEnded(u)
      BY <2>1, <2>5 DEF BeingEnded
    <3>2. ShellOf(u)' = "dead" /\ ShellOf(u) \in {"ending", "dead"}
      BY <2>2, <3>1 DEF ShellOf, Alive
    <3> QED BY <2>2, <2>4, <3>1, <3>2
  <2>6. CASE ~EndsProcess(kind)
    <3>1. process' = process /\ (BeingEnded(u)' <=> BeingEnded(u))
      BY <2>1, <2>6 DEF BeingEnded
    <3>2. ShellOf(u)' = ShellOf(u) \/ (ShellOf(u) = "live" /\ ShellOf(u)' = "reported")
      BY <2>1, <3>1 DEF ShellOf, Alive
    <3> QED BY <2>4, <3>1, <3>2
  <2> QED BY <2>5, <2>6
<1> QED BY <1>2, <1>3, <1>4

LEMMA PtyStepDecides ==
  ASSUME IInv, Tended, PtyStep
  PROVE  Tended' /\ (Decision!Next \/ UNCHANGED Decision!vars)
<1>1. PtyNext /\ UNCHANGED <<running, layout, terminals, pending_closes, restored_closes, lost>>
  BY DEF PtyStep, workspaceVars, screenVars
<1>2. \A u \in Terminals : Pending(u)' = Pending(u) /\ Shown(u)' = Shown(u)
  BY <1>1 DEF Pending, RecordsOf, Shown
<1>3. Tended'
  <2>1. UnusedIsIdle' /\ HandledIsHeard' /\ Used \subseteq Used'
    BY <1>1, HandledStaysHeard, PtyNextEffect DEF Tended, IInv, TypeOK
  <2>2. handles' = handles
    BY <1>1 DEF PtyNext, ProcessExit, ClientExit, WriterFail, Teardown
  <2>3. RestoredIsHandled'
    BY <1>1, <1>2, <2>2 DEF Tended, RestoredIsHandled, IInv, TypeOK, RestoredClose
  <2> QED BY <1>1, <2>1, <2>3 DEF Tended, RegisteredIsUsed
<1>4. PICK u \in Terminals :
        /\ \A t \in Terminals : process'[t] = "none" <=> process[t] = "none"
        /\ \A t \in Terminals \ {u} : ShellOf(t)' = ShellOf(t)
        /\ \/ ShellOf(u)' = ShellOf(u)
           \/ ShellOf(u) = "live" /\ ShellOf(u)' = "reported"
           \/ ShellOf(u) \in {"live", "reported", "ending"} /\ ShellOf(u)' = "dead"
  BY <1>1, ShellsAfterPtyNext
<1>5. \A t \in Terminals : Place(t)' = Place(t)
  <2> SUFFICES ASSUME NEW t \in Terminals PROVE Place(t)' = Place(t)
    OBVIOUS
  <2>1. CASE process[t] = "none"
    BY <1>4, <2>1 DEF Place
  <2>2. CASE process[t] # "none"
    BY <1>1, <1>2, <1>4, <2>2 DEF Place
  <2> QED BY <2>1, <2>2
<1>6. CASE ShellOf(u)' = ShellOf(u)
  BY <1>1, <1>3, <1>4, <1>5, <1>6, SamePlaces
<1>7. CASE ShellOf(u) = "live" /\ ShellOf(u)' = "reported"
  <2>1. \A t \in Terminals : ShellOf(t)' = IF t = u THEN "reported" ELSE ShellOf(t)
    BY <1>4, <1>7
  <2>2. UNCHANGED running /\ UNCHANGED [t \in Terminals |-> Place(t)]
    BY <1>1, <1>5
  <2>3. Decision!Report(u)
    BY <1>7, <2>1, <2>2 DEF Decision!Report
  <2> QED BY <1>3, <2>3 DEF Decision!Next
<1>8. CASE ShellOf(u) \in {"live", "reported", "ending"} /\ ShellOf(u)' = "dead"
  <2>1. \A t \in Terminals : ShellOf(t)' = IF t = u THEN "dead" ELSE ShellOf(t)
    BY <1>4, <1>8
  <2>2. UNCHANGED running /\ UNCHANGED [t \in Terminals |-> Place(t)]
    BY <1>1, <1>5
  <2>3. Decision!Die(u)
    BY <1>8, <2>1, <2>2 DEF Decision!Die
  <2> QED BY <1>3, <2>3 DEF Decision!Next
<1> QED BY <1>4, <1>6, <1>7, <1>8

\* Every step, action by action.
LEMMA NextDecides ==
  IInv /\ IInv' /\ Tended /\ [Next]_vars => Tended' /\ [Decision!Next]_(Decision!vars)
<1> SUFFICES ASSUME IInv, IInv', Tended, [Next]_vars
             PROVE  Tended' /\ (Decision!Next \/ UNCHANGED Decision!vars)
  OBVIOUS
<1>1. CASE UNCHANGED vars
  <2>1. UNCHANGED <<running, layout, terminals, pending_closes, lost, ptyVars, restored_closes>>
    BY <1>1 DEF vars, workspaceVars, screenVars
  <2> QED BY <2>1, ForgetDecides
<1>2. ASSUME NEW p \in Projects, NEW t \in Terminals,
             CreateTerminal(p, t) \/ CloseTerminal(p, t) \/ SoftClose(p, t)
      PROVE  Tended' /\ Decision!Next
  BY <1>2, CreateDecides, CloseDecides, SoftCloseDecides
<1>3. ASSUME NEW p \in Projects, NEW q \in Projects, NEW t \in Terminals,
             MovePane(p, q, t) \/ LoseDrop(p, q, t)
      PROVE  Tended' /\ (Decision!Next \/ UNCHANGED Decision!vars)
  BY <1>3, MoveDecides, LoseDropLoses, LosesDecides
<1>4. ASSUME NEW p \in Projects, DeleteProject(p) \/ RemoveStaleWorktree(p)
      PROVE  Tended' /\ Decision!Next
  BY <1>4, DeleteDecides, RemoveStaleLoses, LosesDecides
<1>5. ASSUME NEW c \in timers, GraceOver(c)
      PROVE  Tended' /\ (Decision!Next \/ UNCHANGED Decision!vars)
  <2>1. c.terminal_id \in Terminals
    BY DEF IInv, TypeOK, Close
  <2> QED BY <1>5, <2>1, FinalizeDecides DEF GraceOver
<1>6. ASSUME NEW c \in toasts, CloseNow(c) \/ Undo(c) \/ ToastGone(c)
      PROVE  Tended' /\ (Decision!Next \/ UNCHANGED Decision!vars)
  <2>1. CASE CloseNow(c)
    <3>1. c.terminal_id \in Terminals
      BY DEF IInv, TypeOK, Close
    <3> QED BY <2>1, <3>1, FinalizeDecides DEF CloseNow
  <2>2. CASE ToastGone(c)
    BY <2>2, ForgetDecides DEF ToastGone, workspaceVars
  <2> QED BY <1>6, <2>1, <2>2, UndoDecides
<1>7. ASSUME NEW t \in Terminals, HandleExit(t)
      PROVE  Tended' /\ Decision!Next
  BY <1>7, ExitDecides
<1>8. CASE SwitchWorkspace
  BY <1>8, SwitchDecides
<1>9. CASE Quit
  BY <1>9, QuitDecides
<1>10. CASE PtyStep
  BY <1>10, PtyStepDecides
<1> QED BY <1>1, <1>2, <1>3, <1>4, <1>5, <1>6, <1>7, <1>8, <1>9, <1>10 DEF Next

LEMMA InitDecides == Init => Tended /\ Decision!Init
<1> SUFFICES ASSUME Init PROVE Tended /\ Decision!Init
  OBVIOUS
<1> USE DEF Init, PtyInit
<1>1. UnusedIsIdle /\ HandledIsHeard /\ RegisteredIsUsed
  BY DEF UnusedIsIdle, EventsOf, HandledIsHeard, RegisteredIsUsed
<1>2. RestoredIsHandled
  BY DEF RestoredIsHandled
<1>3. \A t \in Terminals : Place(t) = "unused" /\ ShellOf(t) = "none"
  BY DEF Place, ShellOf, Alive
<1> QED BY <1>1, <1>2, <1>3 DEF Tended, Decision!Init

\* What the refinement needs besides IInv, whatever decides a close.
THEOREM TendedAlways == Spec => []Tended
<1>1. IInv /\ IInv' /\ Tended /\ [Next]_vars => Tended'
  BY NextDecides
<1> QED BY <1>1, InitDecides, InductiveInvariant, PTL DEF Spec

\* Timers, toast buttons, exits, removals of projects, a switch of workspace and the
\* exit of the app together decide a close once: only the step that decides it ends
\* the shell, a lost pane leaves its shell alone, and what is gone stays gone.
THEOREM Refinement == Spec => IsDecision
<1>1. Spec => Decision!Init
  BY InitDecides, PTL DEF Spec
<1>2. Spec => [][Decision!Next]_(Decision!vars)
  BY NextDecides, InductiveInvariant, TendedAlways, PTL DEF Spec
<1> QED BY <1>1, <1>2, PTL DEF IsDecision, Decision!Spec

\* Nobody ends a shell whose close can be undone (an undo looks in the registry) or was
\* undone while it is shown where it was restored, and its own end cannot go unheard:
\* its reader is at work, or its Exit event, which settles the close or reaps the pane,
\* is on its way.
SparedAndHeard ==
  \A t \in Terminals :
    (Pending(t) /\ t \in terminals) \/ (Shown(t) /\ RecordsOf(restored_closes, t) # {}) =>
      /\ ShellOf(t) # "ending"
      /\ (Alive(t) /\ t \in readers) \/ EventsOf(t) # {}

THEOREM UndoneIsSparedAndHeard == Spec => []SparedAndHeard
<1>1. ASSUME IInv, Tended, NEW t \in Terminals,
             (Pending(t) /\ t \in terminals) \/ (Shown(t) /\ RecordsOf(restored_closes, t) # {})
      PROVE  ShellOf(t) # "ending" /\ ((Alive(t) /\ t \in readers) \/ EventsOf(t) # {})
  <2>1. t \in handles
    BY <1>1 DEF IInv, HandleIsRegistered, Tended, RestoredIsHandled, RecordsOf
  <2> QED BY <1>1, <2>1, HandledShell DEF Tended, HandledIsHeard, Heard
<1>2. IInv /\ Tended => SparedAndHeard
  BY <1>1 DEF SparedAndHeard
<1> QED BY <1>2, InductiveInvariant, TendedAlways, PTL

===============================================================================
