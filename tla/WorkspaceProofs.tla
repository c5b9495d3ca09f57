-------------------------- MODULE WorkspaceProofs --------------------------
(***************************************************************************)
(* Proofs about Workspace: its invariant, and that what the sidebar draws  *)
(* does not vanish.                                                        *)
(***************************************************************************)
EXTENDS Workspace, TLAPS

(* The inductive invariant: the two invariants hold one another up.        *)
(* ListsAgree needs that ids are given out once (TypeOK).                  *)
IInv == TypeOK /\ ListsAgree

-----------------------------------------------------------------------------
(* In the initial state every list is empty.                               *)
LEMMA InitIInv == Init => IInv
BY NamesAssumption DEF Init, IInv, TypeOK, ListsAgree, Window

(* A restart finds no worktree_ids to fill: in the states the operations   *)
(* reach, an empty list means that there are no worktrees.                 *)
LEMMA NothingToPopulate == ASSUME IInv PROVE Populated = worktree_ids
<1>1. ASSUME NEW p \in projects, worktree_ids[p] = {}
      PROVE  {w \in projects : parent[w] = p} = {}
  BY <1>1 DEF IInv, ListsAgree
<1>2. worktree_ids = [p \in Project |-> worktree_ids[p]]
  BY DEF IInv, TypeOK
<1> QED
  BY <1>1, <1>2 DEF Populated

-----------------------------------------------------------------------------
(* The deletion of a project, by the user or at the end of a background    *)
(* close or creation.                                                      *)
LEMMA DeleteIInv ==
  ASSUME IInv, NEW p \in Project, Delete(p), creating' \subseteq creating
  PROVE  IInv'
<1> USE DEF IInv, Delete, OutOfFolders, Rehomed
<1>1. TypeOK'
  BY NamesAssumption DEF TypeOK, Window
<1>2. ListsAgree'
  <2>1. folders \cap Project = {}
    BY NamesAssumption DEF TypeOK
  <2>2. (folders \subseteq project_order)'
    BY <2>1 DEF ListsAgree
  <2>3. ASSUME NEW q \in projects', NEW r \in projects'
        PROVE  ((r \in worktree_ids[q]) <=> (parent[r] = q))'
    BY <2>3 DEF ListsAgree, TypeOK
  <2> QED
    BY <2>2, <2>3 DEF ListsAgree, TypeOK
<1> QED
  BY <1>1, <1>2

(* The arrival of a project: under a parent q or, when q is None, at the   *)
(* top level.                                                              *)
LEMMA PushIInv ==
  ASSUME IInv, NEW p \in Project, NEW q \in used \cup {None}, NEW w \in Window,
         Push(p), HideElsewhere(p, w),
         parent' = [parent EXCEPT ![p] = q],
         worktree_ids' = IF q \in projects THEN ListUnder(p, q) ELSE worktree_ids,
         project_order' \subseteq project_order \cup {p},
         project_order \subseteq project_order',
         creating' \subseteq creating \cup {p},
         UNCHANGED <<project_ids, folders, extra_windows, filter, closing, stale>>
  PROVE  IInv'
<1> USE DEF IInv
<1>1. TypeOK'
  <2>1. hidden' \in [Window -> SUBSET Project]
    BY DEF TypeOK, HideElsewhere
  <2>2. ASSUME NEW v \in Extra \ extra_windows' PROVE hidden'[v] = {} /\ filter'[v] = None
    BY <2>2, NamesAssumption DEF TypeOK, HideElsewhere, Open, Window
  <2>3. ASSUME NEW r \in Project \ projects' PROVE parent'[r] = None /\ worktree_ids'[r] = {}
    BY <2>3 DEF TypeOK, Push, ListUnder
  <2>4. /\ parent' \in [Project -> used' \cup {None}]
        /\ worktree_ids' \in [Project -> SUBSET used']
    BY DEF TypeOK, Push, ListUnder
  <2> QED
    BY <2>1, <2>2, <2>3, <2>4 DEF TypeOK, Push
<1>2. ListsAgree'
  <2>1. p \notin projects /\ p \in Project /\ projects \subseteq Project /\ None \notin Project
    BY NamesAssumption DEF TypeOK, Push
  <2>2. \A r \in projects : p \notin worktree_ids[r] /\ parent[r] # p
    BY <2>1, NamesAssumption DEF TypeOK, Push
  <2>3. worktree_ids[p] = {} /\ q # p
    BY <2>1, NamesAssumption DEF TypeOK, Push
  <2>4. ASSUME NEW r \in projects', NEW s \in projects'
        PROVE  ((s \in worktree_ids[r]) <=> (parent[s] = r))'
    <3>1. CASE r = p
      <4>1. worktree_ids'[p] = {}
        BY <2>1, <2>3 DEF TypeOK, ListUnder
      <4>2. parent'[s] # p
        BY <2>1, <2>2, <2>3, <2>4 DEF TypeOK, Push
      <4> QED
        BY <3>1, <4>1, <4>2
    <3>2. CASE r # p /\ s = p
      <4>1. r \in projects /\ parent'[p] = q
        BY <3>2, <2>4, <2>1 DEF Push, TypeOK
      <4>2. p \in worktree_ids'[r] <=> r = q
        BY <4>1, <2>1, <2>2 DEF ListUnder, TypeOK
      <4> QED
        BY <3>2, <4>1, <4>2
    <3>3. CASE r # p /\ s # p
      <4>1. r \in projects /\ s \in projects /\ parent'[s] = parent[s]
        BY <3>3, <2>4 DEF Push, TypeOK
      <4>2. s \in worktree_ids'[r] <=> s \in worktree_ids[r]
        BY <4>1, <3>3, <2>1 DEF ListUnder, TypeOK
      <4> QED
        BY <4>1, <4>2 DEF ListsAgree
    <3> QED
      BY <3>1, <3>2, <3>3
  <2>5. ASSUME NEW r \in projects' PROVE (r \notin worktree_ids[r])'
    BY <2>1, <2>3, <2>5 DEF ListsAgree, Push, ListUnder, TypeOK
  <2> QED
    BY <2>4, <2>5 DEF ListsAgree
<1> QED
  BY <1>1, <1>2

-----------------------------------------------------------------------------
(* Every step keeps the invariant.                                         *)
LEMMA NextIInv == IInv /\ [Next]_vars => IInv'
<1> SUFFICES ASSUME IInv, [Next]_vars PROVE IInv'
  OBVIOUS
<1> USE DEF IInv
<1>0. None \notin projects /\ projects \subseteq Project /\ used \subseteq Project
  BY NamesAssumption DEF TypeOK
<1>1. ASSUME NEW p \in Project, NEW w \in Window, add_project(p, w) PROVE IInv'
  <2>1. p \notin projects /\ parent = [parent EXCEPT ![p] = None]
    BY <1>1 DEF add_project, Push, TypeOK
  <2> QED
    BY <1>1, <1>0, <2>1, PushIInv DEF add_project, lifecycle
<1>2. ASSUME NEW f \in Folder, create_folder(f) PROVE IInv'
  BY <1>2 DEF create_folder, TypeOK, ListsAgree, windows, lifecycle
<1>3. ASSUME NEW f \in folders, delete_folder(f) PROVE IInv'
  <2>1. TypeOK'
    BY <1>3, NamesAssumption DEF delete_folder, TypeOK, Spliced, ScrubFilter, lifecycle, Window
  <2> QED
    BY <2>1, <1>3 DEF delete_folder, TypeOK, ListsAgree, Spliced, ScrubFilter
<1>4. ASSUME NEW p \in Project, NEW f \in Folder, move_project_to_folder(p, f) PROVE IInv'
  <2>1. TypeOK'
    BY <1>4 DEF move_project_to_folder, OutOfFolders, TypeOK, windows, lifecycle
  <2>2. p \notin folders
    BY NamesAssumption DEF TypeOK
  <2> QED
    BY <2>1, <2>2, <1>4 DEF move_project_to_folder, ListsAgree, windows
<1>5. ASSUME NEW p \in Project, move_project(p) PROVE IInv'
  <2>1. TypeOK'
    BY <1>5 DEF move_project, OutOfFolders, TypeOK, windows, lifecycle
  <2> QED
    BY <2>1, <1>5 DEF move_project, ListsAgree, windows
<1>6. ASSUME NEW p \in Project, delete_project(p) PROVE IInv'
  BY <1>6, DeleteIInv DEF delete_project
<1>7. CASE watch_collect
  BY <1>7 DEF watch_collect, TypeOK, ListsAgree, lists, windows, lifecycle
<1>8. CASE watch_remove
  <2> DEFINE S == Removable(stale)
  <2>1. S \subseteq projects
    BY DEF Removable
  <2>2. TypeOK'
    <3>1. /\ project_order' \subseteq used' \cup folders'
          /\ parent' \in [Project -> used' \cup {None}]
          /\ worktree_ids' \in [Project -> SUBSET used']
          /\ project_ids' \in [Folder -> SUBSET used']
          /\ hidden' \in [Window -> SUBSET Project]
      BY <1>8 DEF watch_remove, TypeOK, Scrubbed
    <3>2. \A p \in Project \ projects' : parent'[p] = None /\ worktree_ids'[p] = {}
      BY <1>8 DEF watch_remove, TypeOK
    <3>3. /\ \A f \in Folder \ folders' : project_ids'[f] = {}
          /\ \A w \in Extra \ extra_windows' : hidden'[w] = {} /\ filter'[w] = None
      BY <1>8 DEF watch_remove, TypeOK, Scrubbed, Window
    <3> QED
      BY <1>8, <3>1, <3>2, <3>3 DEF watch_remove, TypeOK, lifecycle
  <2>3. ListsAgree'
    <3>1. folders \cap S = {}
      BY <2>1, NamesAssumption DEF TypeOK
    <3>2. ASSUME NEW q \in projects', NEW r \in projects'
          PROVE  ((r \in worktree_ids[q]) <=> (parent[r] = q))'
      BY <1>8, <3>2, <1>0 DEF watch_remove, ListsAgree
    <3> QED
      BY <1>8, <3>1, <3>2, <1>0 DEF watch_remove, ListsAgree
  <2> QED
    BY <2>2, <2>3
<1>9. ASSUME NEW p \in Project, NEW q \in Project, NEW w \in Window,
             NEW background \in BOOLEAN, register_worktree(p, q, w, background)
      PROVE  IInv'
  <2>1. q \in used /\ creating' \subseteq creating \cup {p}
    BY <1>9 DEF register_worktree, TypeOK
  <2> QED
    BY <1>9, <2>1, PushIInv DEF register_worktree
<1>10. ASSUME NEW p \in Project, creation_ends(p) PROVE IInv'
  <2>1. CASE Delete(p)
    BY <1>10, <2>1, DeleteIInv DEF creation_ends
  <2>2. CASE UNCHANGED <<used, projects, lists, folders, windows, closing, stale>>
    BY <1>10, <2>2 DEF creation_ends, TypeOK, ListsAgree, lists, windows
  <2> QED
    BY <1>10, <2>1, <2>2 DEF creation_ends
<1>11. ASSUME NEW p \in Project, NEW q \in Project, NEW w \in Window,
              add_discovered_worktree(p, q, w)
       PROVE  IInv'
  BY <1>11, PushIInv DEF add_discovered_worktree, lifecycle
<1>12. ASSUME NEW p \in Project, register_pending_close(p) PROVE IInv'
  BY <1>12 DEF register_pending_close, TypeOK, ListsAgree, lists, windows
<1>13. ASSUME NEW p \in Project, close_ends(p) PROVE IInv'
  <2>1. CASE Delete(p)
    BY <1>13, <2>1, DeleteIInv DEF close_ends
  <2>2. CASE closing' = closing \ {p}
             /\ UNCHANGED <<used, projects, lists, folders, windows, stale>>
    BY <1>13, <2>2 DEF close_ends, TypeOK, ListsAgree, lists, windows
  <2> QED
    BY <1>13, <2>1, <2>2 DEF close_ends
<1>14. ASSUME NEW w \in Window, NEW p \in Project, toggle_hidden(w, p) PROVE IInv'
  <2>1. TypeOK'
    BY <1>14, NamesAssumption DEF toggle_hidden, TypeOK, Open, Window, lists, lifecycle
  <2> QED
    BY <2>1, <1>14 DEF toggle_hidden, TypeOK, ListsAgree, lists
<1>15. ASSUME NEW w \in Window, NEW f \in Folder, toggle_folder_focus(w, f) PROVE IInv'
  <2>1. TypeOK'
    BY <1>15, NamesAssumption DEF toggle_folder_focus, TypeOK, Open, Window, lists, lifecycle
  <2> QED
    BY <2>1, <1>15 DEF toggle_folder_focus, TypeOK, ListsAgree, lists
<1>16. ASSUME NEW w \in Extra, spawn_extra_window(w) PROVE IInv'
  <2>1. TypeOK'
    BY <1>16, <1>0 DEF spawn_extra_window, TypeOK, Window, lists, lifecycle
  <2> QED
    BY <2>1, <1>16 DEF spawn_extra_window, TypeOK, ListsAgree, Window, lists
<1>17. ASSUME NEW w \in Extra, close_extra_window(w) PROVE IInv'
  <2>1. TypeOK'
    BY <1>17 DEF close_extra_window, Forgotten, TypeOK, Window, lists, lifecycle
  <2> QED
    BY <2>1, <1>17 DEF close_extra_window, Forgotten, TypeOK, ListsAgree, Window, lists
<1>18. CASE restart
  <2>0. worktree_ids' = worktree_ids
    BY <1>18, NothingToPopulate DEF restart
  <2> DEFINE children == AllWorktreeIds(projects, worktree_ids)
  <2>1. children \subseteq used
    BY DEF AllWorktreeIds, TypeOK
  <2>2. project_order' = Placed(children) \cap (projects \cup folders)
    BY <1>18, NothingToPopulate DEF restart
  <2>3. TypeOK'
    BY <1>18, <2>0, <2>2 DEF restart, TypeOK, Window
  <2>4. (folders \subseteq project_order)'
    <3>1. folders \cap children = {}
      BY <2>1, <1>0, NamesAssumption DEF TypeOK
    <3> QED
      BY <1>18, <2>2, <3>1 DEF restart, Placed, ListsAgree
  <2>5. ListsAgree'
    BY <1>18, <2>0, <2>4 DEF restart, ListsAgree
  <2> QED
    BY <2>3, <2>5
<1>19. CASE UNCHANGED vars
  BY <1>19 DEF vars, TypeOK, ListsAgree, lists, windows, lifecycle
<1> QED
  BY <1>1, <1>2, <1>3, <1>4, <1>5, <1>6, <1>7, <1>8, <1>9, <1>10, <1>11, <1>12, <1>13,
     <1>14, <1>15, <1>16, <1>17, <1>18, <1>19 DEF Next

(* The workspace is well formed in every reachable state: types, the two   *)
(* directions of the worktree relation, and the place of every folder.     *)
THEOREM Invariant == Spec => []IInv
BY InitIInv, NextIInv, PTL DEF Spec

(* A closed window has no state, a project that is gone no parent and no   *)
(* list, and every id that a list still holds was a project's once.        *)
THEOREM TypeCorrect == Spec => []TypeOK
BY Invariant, PTL DEF IInv

(* The worktree relation of parent references and worktree_ids, and the    *)
(* place of every folder at the top level.                                 *)
THEOREM ListsStayInStep == Spec => []ListsAgree
BY Invariant, PTL DEF IInv

-----------------------------------------------------------------------------
(* The step of WindowsAreScrubbed.                                         *)
LEMMA StepScrubs ==
  ASSUME IInv, [Next]_vars, NEW w \in Window
  PROVE  /\ \/ hidden'[w] \ projects' \subseteq hidden[w] \ projects
            \/ \E p \in used \ projects : toggle_hidden(w, p)
         /\ \/ filter'[w] \in folders' \cup {None}
            \/ filter'[w] = filter[w] /\ filter[w] \notin folders
            \/ \E f \in Folder \ folders : toggle_folder_focus(w, f)
<1> DEFINE HiddenClean == hidden'[w] \ projects' \subseteq hidden[w] \ projects
           FilterClean == \/ filter'[w] \in folders' \cup {None}
                          \/ filter'[w] = filter[w] /\ filter[w] \notin folders
<1> USE DEF IInv, TypeOK
<1>1. CASE projects' = projects /\ hidden' = hidden /\ filter' = filter /\ folders' = folders
  BY <1>1
<1>2. ASSUME NEW p \in Project, Delete(p) PROVE HiddenClean /\ FilterClean
  BY <1>2 DEF Delete
<1>3. ASSUME NEW p \in Project, NEW v \in Window, Push(p), HideElsewhere(p, v),
             UNCHANGED <<folders, filter>>
      PROVE  HiddenClean /\ FilterClean
  BY <1>3 DEF Push, HideElsewhere
<1>4. CASE \E p \in Project, v \in Window :
             \/ add_project(p, v)
             \/ \E q \in Project : \/ add_discovered_worktree(p, q, v)
                                 \/ \E background \in BOOLEAN : register_worktree(p, q, v, background)
  BY <1>3, <1>4 DEF add_project, add_discovered_worktree, register_worktree
<1>5. CASE \E p \in Project : delete_project(p) \/ creation_ends(p) \/ close_ends(p)
  BY <1>1, <1>2, <1>5 DEF delete_project, creation_ends, close_ends, windows
<1>6. CASE \/ \E f \in Folder : create_folder(f)
           \/ \E f \in folders : delete_folder(f)
  BY <1>6 DEF create_folder, delete_folder, ScrubFilter, windows
<1>7. CASE \/ \E p \in Project, f \in Folder : move_project_to_folder(p, f)
           \/ \E p \in Project : move_project(p) \/ register_pending_close(p)
           \/ watch_collect \/ UNCHANGED vars
  BY <1>1, <1>7 DEF move_project_to_folder, move_project, register_pending_close,
                    watch_collect, vars, windows
<1>8. CASE watch_remove
  BY <1>8 DEF watch_remove, Scrubbed, Removable
<1>9. ASSUME NEW v \in Window, NEW p \in Project, toggle_hidden(v, p)
      PROVE  (HiddenClean \/ \E q \in used \ projects : toggle_hidden(w, q)) /\ FilterClean
  <2>1. FilterClean /\ projects' = projects /\ p \in used
    BY <1>9 DEF toggle_hidden
  <2>2. CASE v = w /\ p \notin projects
    BY <1>9, <2>1, <2>2
  <2>3. CASE v # w \/ p \in projects
    BY <1>9, <2>1, <2>3 DEF toggle_hidden
  <2> QED
    BY <2>1, <2>2, <2>3
<1>10. ASSUME NEW v \in Window, NEW f \in Folder, toggle_folder_focus(v, f)
       PROVE  HiddenClean /\ (FilterClean \/ \E g \in Folder \ folders : toggle_folder_focus(w, g))
  <2>1. HiddenClean /\ folders' = folders
    BY <1>10 DEF toggle_folder_focus
  <2>2. CASE v = w /\ f \notin folders
    BY <1>10, <2>1, <2>2
  <2>3. CASE v # w \/ f \in folders
    BY <1>10, <2>1, <2>3 DEF toggle_folder_focus
  <2> QED
    BY <2>1, <2>2, <2>3
<1>11. CASE \E v \in Extra : spawn_extra_window(v) \/ close_extra_window(v)
  BY <1>11 DEF spawn_extra_window, close_extra_window, Forgotten, Window
<1>12. CASE restart
  BY <1>12 DEF restart
<1> QED
  BY <1>4, <1>5, <1>6, <1>7, <1>8, <1>9, <1>10, <1>11, <1>12 DEF Next

(* No removal of a project or a folder leaves a window hiding or filtered  *)
(* by it, and no other step brings a window an id that is gone: only a     *)
(* click on something that is gone by then does.                           *)
THEOREM WindowsStayClean == Spec => WindowsAreScrubbed
<1>1. IInv /\ [Next]_vars
        => [\A w \in Window :
              /\ \/ hidden'[w] \ projects' \subseteq hidden[w] \ projects
                 \/ \E p \in used \ projects : toggle_hidden(w, p)
              /\ \/ filter'[w] \in folders' \cup {None}
                 \/ filter'[w] = filter[w] /\ filter[w] \notin folders
                 \/ \E f \in Folder \ folders : toggle_folder_focus(w, f)]_<<projects, folders, windows>>
  BY StepScrubs
<1> QED
  BY <1>1, Invariant, PTL DEF Spec, WindowsAreScrubbed

-----------------------------------------------------------------------------
(* A project drawn at the top that is still there and still listed is      *)
(* still drawn at the top: the id of its parent is not given out again.    *)
LEMMA TopStays ==
  ASSUME IInv, IInv', projects' \cap used \subseteq projects,
         NEW x \in TopDrawn \cap projects', parent'[x] = parent[x], x \in Listed'
  PROVE  x \in TopDrawn'
<1>1. x \in projects /\ parent[x] \notin projects /\ parent[x] \in used \cup {None}
  BY DEF TopDrawn, IInv, TypeOK
<1>2. None \notin projects'
  BY NamesAssumption DEF IInv, TypeOK
<1> QED
  BY <1>1, <1>2 DEF TopDrawn

(* What is drawn stays drawn in a step that keeps the parents, the top     *)
(* places and the worktrees listed under those, and draws the worktrees of *)
(* the projects it removes.                                                *)
LEMMA DrawnStays ==
  ASSUME IInv, IInv',
         projects' \cap used \subseteq projects,
         \A x \in projects \cap projects' : parent'[x] = parent[x],
         TopDrawn \cap projects' \subseteq Listed',
         \A q \in TopDrawn \cap projects' : worktree_ids[q] \cap projects' \subseteq worktree_ids'[q],
         \A q \in TopDrawn \ projects' : worktree_ids[q] \cap projects' \subseteq Drawn'
  PROVE  Drawn \cap projects' \subseteq Drawn'
<1>1. ASSUME NEW x \in TopDrawn \cap projects' PROVE x \in TopDrawn'
  <2>1. parent'[x] = parent[x] /\ x \in Listed'
    BY DEF TopDrawn
  <2> QED
    BY <2>1, TopStays
<1>2. ASSUME NEW p \in projects \cap projects', NEW q \in TopDrawn, p \in worktree_ids[q]
      PROVE  p \in Drawn'
  <2>1. CASE q \in projects'
    <3>1. q \in TopDrawn' /\ p \in worktree_ids'[q]
      BY <1>1, <1>2, <2>1
    <3> QED
      BY <3>1 DEF Drawn, AllWorktreeIds
  <2>2. CASE q \notin projects'
    BY <1>2, <2>2
  <2> QED
    BY <2>1, <2>2
<1>3. ASSUME NEW p \in Drawn \cap projects' PROVE p \in Drawn'
  BY <1>1, <1>2, <1>3 DEF Drawn, AllWorktreeIds, TopDrawn
<1> QED
  BY <1>3

(* The deletion of a project: the worktrees it listed take a place at the  *)
(* top level.                                                              *)
LEMMA DeleteKeepsDrawn ==
  ASSUME IInv, IInv', NEW p \in Project, Delete(p)
  PROVE  Drawn \cap projects' \subseteq Drawn'
<1> USE DEF Delete
<1>1. ASSUME NEW q \in TopDrawn \ projects', NEW r \in worktree_ids[q] \cap projects'
      PROVE  r \in Drawn'
  <2>1. q = p /\ q \in projects
    BY <1>1 DEF TopDrawn
  <2>2. r \in projects /\ r # p /\ parent[r] = p
    BY <1>1, <2>1 DEF IInv, ListsAgree
  <2>3. r \in project_order' /\ parent'[r] = p
    BY <1>1, <2>1, <2>2 DEF Rehomed, IInv, TypeOK
  <2> QED
    BY <2>1, <2>3 DEF Drawn, TopDrawn, Listed
<1>2. TopDrawn \cap projects' \subseteq Listed'
  <2>1. p \notin folders
    BY NamesAssumption DEF IInv, TypeOK
  <2> QED
    BY <2>1 DEF TopDrawn, Listed, OutOfFolders, IInv, TypeOK
<1>3. \A x \in projects \cap projects' : parent'[x] = parent[x]
  BY DEF IInv, TypeOK
<1>4. \A q \in TopDrawn \cap projects' : worktree_ids[q] \cap projects' \subseteq worktree_ids'[q]
  BY DEF TopDrawn, IInv, TypeOK
<1> QED
  BY <1>1, <1>2, <1>3, <1>4, DrawnStays

(* A step that touches neither the projects nor their lists.               *)
LEMMA SameDrawn ==
  UNCHANGED <<projects, lists, folders>> => Drawn' = Drawn
BY DEF lists, Drawn, TopDrawn, Listed, AllWorktreeIds

(* A move into a folder that exists.                                       *)
LEMMA MoveKeepsDrawn ==
  ASSUME IInv, IInv', NEW p \in Project, NEW f \in folders, move_project_to_folder(p, f)
  PROVE  Drawn \cap projects' \subseteq Drawn'
<1> USE DEF move_project_to_folder
<1>1. f \in Folder /\ f \in project_order /\ p \notin folders /\ p # f
  BY NamesAssumption DEF IInv, TypeOK, ListsAgree
<1>2. \A x \in Listed : x \in Listed'
  <2>1. f \in (folders \cap project_order)' /\ p \in project_ids'[f]
    BY <1>1 DEF OutOfFolders, IInv, TypeOK
  <2>2. ASSUME NEW x \in Listed, x # p PROVE x \in Listed'
    <3>1. CASE x \in project_order
      BY <2>2, <3>1 DEF Listed
    <3>2. ASSUME NEW g \in folders \cap project_order, x \in project_ids[g] PROVE x \in Listed'
      <4>1. g \in (folders \cap project_order)' /\ g \in Folder
        BY <1>1, <3>2 DEF IInv, TypeOK
      <4>2. x \in project_ids'[g]
        BY <2>2, <3>2, <4>1 DEF OutOfFolders, IInv, TypeOK
      <4> QED
        BY <4>1, <4>2 DEF Listed
    <3> QED
      BY <2>2, <3>1, <3>2 DEF Listed
  <2> QED
    BY <2>1, <2>2 DEF Listed
<1> QED
  BY <1>2, DrawnStays DEF TopDrawn

(* The watcher: what it removes at the top loses its worktrees.            *)
LEMMA WatchKeepsDrawn ==
  ASSUME IInv, IInv', watch_remove, NEW p \in Drawn \cap projects'
  PROVE  p \in Drawn' \/ parent[p] \in projects \cap Removable(stale)
<1> DEFINE S == Removable(stale)
<1> USE DEF watch_remove
<1>1. /\ projects' = projects \ S /\ S \subseteq projects
      /\ \A x \in projects' : parent'[x] = parent[x] /\ worktree_ids'[x] = worktree_ids[x]
  BY DEF Removable, IInv, TypeOK
<1>2. ASSUME NEW x \in TopDrawn \cap projects' PROVE x \in TopDrawn'
  <2>1. folders \cap S = {}
    BY <1>1, NamesAssumption DEF IInv, TypeOK
  <2>2. x \in Listed'
    BY <1>1, <1>2, <2>1 DEF TopDrawn, Listed, IInv, TypeOK
  <2> QED
    BY <1>1, <1>2, <2>2, TopStays
<1>3. CASE p \in TopDrawn
  BY <1>2, <1>3 DEF Drawn
<1>4. ASSUME NEW q \in TopDrawn, p \in worktree_ids[q]
      PROVE  p \in Drawn' \/ parent[p] \in projects \cap S
  <2>1. q \in projects /\ p \in projects /\ parent[p] = q
    BY <1>1, <1>4 DEF TopDrawn, IInv, ListsAgree
  <2>2. CASE q \in S
    BY <2>1, <2>2
  <2>3. CASE q \notin S
    <3>1. q \in TopDrawn' /\ p \in worktree_ids'[q]
      BY <1>1, <1>2, <1>4, <2>1, <2>3
    <3> QED
      BY <3>1 DEF Drawn, AllWorktreeIds
  <2> QED
    BY <2>2, <2>3
<1> QED
  BY <1>3, <1>4 DEF Drawn, AllWorktreeIds

(* A load: what was drawn at the top is in no worktree_ids.                *)
LEMMA RestartKeepsDrawn ==
  ASSUME IInv, IInv', restart
  PROVE  Drawn \cap projects' \subseteq Drawn'
<1> DEFINE children == AllWorktreeIds(projects, worktree_ids)
<1>0. /\ worktree_ids' = worktree_ids
      /\ project_order' = Placed(children) \cap (projects \cup folders)
      /\ project_ids' = [f \in Folder |-> (project_ids[f] \ children) \cap projects]
      /\ UNCHANGED <<used, projects, parent, folders>>
  BY NothingToPopulate DEF restart
<1>1. ASSUME NEW x \in TopDrawn PROVE x \in Listed'
  <2>1. x \in projects /\ x \notin children
    BY DEF TopDrawn, AllWorktreeIds, IInv, ListsAgree
  <2>2. CASE x \in project_order
    BY <1>0, <2>1, <2>2 DEF Placed, Listed
  <2>3. ASSUME NEW f \in folders \cap project_order, x \in project_ids[f] PROVE x \in Listed'
    <3>1. f \in Folder /\ f \in (folders \cap project_order)'
      BY <1>0, <2>3 DEF IInv, TypeOK, ListsAgree
    <3>2. x \in project_ids'[f]
      BY <1>0, <2>1, <2>3, <3>1
    <3> QED
      BY <3>1, <3>2 DEF Listed
  <2> QED
    BY <2>2, <2>3 DEF TopDrawn, Listed
<1> QED
  BY <1>0, <1>1, DrawnStays DEF TopDrawn

(* The arrival of a project moves no other.                                *)
LEMMA PushKeepsDrawn ==
  ASSUME IInv, IInv', NEW p \in Project, NEW q \in used \cup {None}, Push(p),
         parent' = [parent EXCEPT ![p] = q],
         worktree_ids' = IF q \in projects THEN ListUnder(p, q) ELSE worktree_ids,
         project_order \subseteq project_order',
         UNCHANGED <<project_ids, folders>>
  PROVE  Drawn \cap projects' \subseteq Drawn'
<1>1. projects' \cap used \subseteq projects /\ projects \subseteq projects' /\ p \notin projects
  BY DEF Push, IInv, TypeOK
<1>2. \A x \in projects \cap projects' : parent'[x] = parent[x]
  BY <1>1 DEF IInv, TypeOK
<1>3. \A x \in projects : worktree_ids[x] \subseteq worktree_ids'[x]
  BY DEF ListUnder, IInv, TypeOK
<1> QED
  BY <1>1, <1>2, <1>3, DrawnStays DEF TopDrawn, Listed

-----------------------------------------------------------------------------
(* The step of NothingVanishes, action by action.                          *)
LEMMA StepKeepsDrawn ==
  ASSUME IInv, IInv', [Next]_vars, NEW p \in Drawn \cap projects'
  PROVE  p \in Drawn' \/ MovedNowhere(p) \/ parent[p] \in projects \cap Removable(stale)
<1>1. ASSUME NEW r \in Project, NEW w \in Window, add_project(r, w) PROVE p \in Drawn'
  <2>1. parent' = [parent EXCEPT ![r] = None] /\ None \notin projects
    BY <1>1, NamesAssumption DEF add_project, Push, IInv, TypeOK
  <2> QED
    BY <1>1, <2>1, PushKeepsDrawn DEF add_project
<1>2. ASSUME NEW f \in Folder, create_folder(f) PROVE p \in Drawn'
  <2>1. \A x \in Listed : x \in Listed'
    BY <1>2 DEF create_folder, Listed
  <2> QED
    BY <1>2, <2>1, DrawnStays DEF create_folder, TopDrawn
<1>3. ASSUME NEW f \in folders, delete_folder(f) PROVE p \in Drawn'
  <2>1. f \in Folder /\ f \in project_order /\ f \notin projects
    BY NamesAssumption DEF IInv, TypeOK, ListsAgree
  <2>2. ASSUME NEW x \in TopDrawn PROVE x \in Listed'
    <3>1. CASE x \in project_order
      BY <1>3, <2>1, <2>2, <3>1 DEF delete_folder, Spliced, Listed, TopDrawn
    <3>2. ASSUME NEW g \in folders \cap project_order, x \in project_ids[g] PROVE x \in Listed'
      <4>1. CASE g = f
        BY <1>3, <2>1, <3>2, <4>1 DEF delete_folder, Spliced, Listed
      <4>2. CASE g # f
        <5>1. g \in (folders \cap project_order)' /\ x \in project_ids'[g]
          BY <1>3, <2>1, <3>2, <4>2 DEF delete_folder, Spliced, IInv, TypeOK
        <5> QED
          BY <5>1 DEF Listed
      <4> QED
        BY <4>1, <4>2
    <3> QED
      BY <3>1, <3>2 DEF TopDrawn, Listed
  <2> QED
    BY <1>3, <2>2, DrawnStays DEF delete_folder, TopDrawn
<1>4. ASSUME NEW r \in Project, NEW f \in Folder, move_project_to_folder(r, f)
      PROVE  p \in Drawn' \/ MovedNowhere(p)
  <2>1. CASE f \in folders
    BY <1>4, <2>1, MoveKeepsDrawn
  <2>2. CASE f \notin folders
    <3>1. CASE r = p \/ parent[p] = r
      BY <1>4, <2>2, <3>1, NamesAssumption DEF MovedNowhere
    <3>2. CASE r # p /\ parent[p] # r
      <4>1. ASSUME NEW x \in TopDrawn, x # r PROVE x \in TopDrawn'
        <5>1. r \notin folders /\ x \in Listed
          BY <4>1, NamesAssumption DEF TopDrawn, IInv, TypeOK
        <5>2. CASE x \in project_order
          BY <1>4, <4>1, <5>2 DEF move_project_to_folder, TopDrawn, Listed
        <5>3. ASSUME NEW g \in folders \cap project_order, x \in project_ids[g]
              PROVE  x \in TopDrawn'
          <6>1. g \in Folder /\ g # r
            BY <5>1, <5>3 DEF IInv, TypeOK
          <6>2. g \in (folders \cap project_order)' /\ x \in project_ids'[g]
            BY <1>4, <2>2, <4>1, <5>3, <6>1 DEF move_project_to_folder, OutOfFolders
          <6> QED
            BY <1>4, <4>1, <6>2 DEF move_project_to_folder, TopDrawn, Listed
        <5> QED
          BY <5>1, <5>2, <5>3 DEF Listed
      <4>2. CASE p \in TopDrawn
        BY <3>2, <4>1, <4>2 DEF Drawn
      <4>3. ASSUME NEW q \in TopDrawn, p \in worktree_ids[q] PROVE p \in Drawn'
        <5>1. p \in projects /\ q \in projects
          BY <1>4, <4>3 DEF move_project_to_folder, TopDrawn
        <5>2. q # r
          BY <3>2, <4>3, <5>1 DEF IInv, ListsAgree
        <5>3. q \in TopDrawn' /\ p \in worktree_ids'[q] /\ p \in projects'
          BY <1>4, <4>1, <4>3, <5>1, <5>2 DEF move_project_to_folder
        <5> QED
          BY <5>3 DEF Drawn, AllWorktreeIds
      <4> QED
        BY <4>2, <4>3 DEF Drawn, AllWorktreeIds
    <3> QED
      BY <3>1, <3>2
  <2> QED
    BY <2>1, <2>2
<1>5. ASSUME NEW r \in Project, move_project(r) PROVE p \in Drawn'
  <2>1. \A x \in Listed : x \in Listed'
    BY <1>5 DEF move_project, OutOfFolders, Listed, IInv, TypeOK
  <2> QED
    BY <1>5, <2>1, DrawnStays DEF move_project, TopDrawn
<1>6. ASSUME NEW r \in Project, delete_project(r) PROVE p \in Drawn'
  BY <1>6, DeleteKeepsDrawn DEF delete_project
<1>7. CASE watch_remove
  BY <1>7, WatchKeepsDrawn
<1>8. ASSUME NEW r \in Project, NEW q \in Project, NEW w \in Window,
             NEW background \in BOOLEAN, register_worktree(r, q, w, background)
      PROVE  p \in Drawn'
  BY <1>8, PushKeepsDrawn DEF register_worktree, IInv, TypeOK
<1>9. ASSUME NEW r \in Project, creation_ends(r) PROVE p \in Drawn'
  BY <1>9, DeleteKeepsDrawn, SameDrawn DEF creation_ends
<1>10. ASSUME NEW r \in Project, NEW q \in Project, NEW w \in Window,
              add_discovered_worktree(r, q, w)
       PROVE  p \in Drawn'
  BY <1>10, PushKeepsDrawn DEF add_discovered_worktree
<1>11. ASSUME NEW r \in Project, close_ends(r) PROVE p \in Drawn'
  BY <1>11, DeleteKeepsDrawn, SameDrawn DEF close_ends
<1>12. CASE restart
  BY <1>12, RestartKeepsDrawn
<1>13. CASE UNCHANGED <<projects, lists, folders>>
  BY <1>13, SameDrawn
<1>14. CASE watch_collect \/ (\E r \in Project : register_pending_close(r)) \/ UNCHANGED vars
  BY <1>13, <1>14 DEF watch_collect, register_pending_close, vars
<1>15. CASE \/ \E w \in Window, r \in Project : toggle_hidden(w, r)
            \/ \E w \in Window, f \in Folder : toggle_folder_focus(w, f)
            \/ \E w \in Extra : spawn_extra_window(w)
            \/ \E w \in Extra : close_extra_window(w)
  BY <1>13, <1>15 DEF toggle_hidden, toggle_folder_focus, spawn_extra_window, close_extra_window
<1> QED
  BY <1>1, <1>2, <1>3, <1>4, <1>5, <1>6, <1>7, <1>8, <1>9, <1>10, <1>11, <1>12, <1>14, <1>15
     DEF Next

(* A project the sidebar draws is drawn until it is removed, but for the   *)
(* two exceptions NothingVanishes names.                                   *)
THEOREM SidebarKeepsProjects == Spec => NothingVanishes
<1>1. IInv /\ IInv' /\ [Next]_vars
        => [\A p \in Drawn \cap projects' :
              p \in Drawn' \/ MovedNowhere(p) \/ parent[p] \in projects \cap Removable(stale)]_<<projects, lists, folders>>
  BY StepKeepsDrawn
<1> QED
  BY <1>1, Invariant, NextIInv, InitIInv, PTL DEF Spec, NothingVanishes

-----------------------------------------------------------------------------
(* Only three actions bring a project.                                     *)
LEMMA NewComesFrom ==
  ASSUME IInv, [Next]_vars, NEW p \in projects' \ projects
  PROVE  \E w \in Window :
           \/ add_project(p, w)
           \/ \E q \in Project : \/ add_discovered_worktree(p, q, w)
                               \/ \E background \in BOOLEAN : register_worktree(p, q, w, background)
<1>1. ASSUME NEW r \in Project, Delete(r) PROVE FALSE
  BY <1>1 DEF Delete
<1>2. CASE UNCHANGED projects
  BY <1>2
<1>3. CASE watch_remove
  BY <1>3 DEF watch_remove
<1>4. ASSUME NEW r \in Project,
             delete_project(r) \/ creation_ends(r) \/ close_ends(r) PROVE FALSE
  BY <1>1, <1>2, <1>4 DEF delete_project, creation_ends, close_ends
<1>5. CASE \/ \E f \in Folder : create_folder(f)
           \/ \E f \in folders : delete_folder(f)
           \/ \E r \in Project, f \in Folder : move_project_to_folder(r, f)
           \/ \E r \in Project : move_project(r) \/ register_pending_close(r)
           \/ watch_collect \/ restart \/ UNCHANGED vars
  BY <1>2, <1>5 DEF create_folder, delete_folder, move_project_to_folder, move_project,
                    register_pending_close, watch_collect, restart, vars
<1>6. CASE \/ \E w \in Window, r \in Project : toggle_hidden(w, r)
           \/ \E w \in Window, f \in Folder : toggle_folder_focus(w, f)
           \/ \E w \in Extra : spawn_extra_window(w)
           \/ \E w \in Extra : close_extra_window(w)
  BY <1>2, <1>6 DEF toggle_hidden, toggle_folder_focus, spawn_extra_window, close_extra_window
<1>7. ASSUME NEW r \in Project, NEW w \in Window, add_project(r, w) PROVE r = p
  BY <1>7 DEF add_project, Push
<1>8. ASSUME NEW r \in Project, NEW q \in Project, NEW w \in Window,
             \/ add_discovered_worktree(r, q, w)
             \/ \E background \in BOOLEAN : register_worktree(r, q, w, background)
      PROVE  r = p
  BY <1>8 DEF add_discovered_worktree, register_worktree, Push
<1> QED
  BY <1>3, <1>4, <1>5, <1>6, <1>7, <1>8 DEF Next

(* The step of NewIsPlaced: the lists.                                     *)
LEMMA StepNewIsDrawn ==
  ASSUME IInv, IInv', [Next]_vars, NEW p \in projects' \ projects
  PROVE  p \in Drawn' \/ parent'[p] \notin {None} \cup TopDrawn
<1>1. p \in Project /\ parent \in [Project -> used \cup {None}] /\ None \notin projects'
  BY NamesAssumption DEF IInv, TypeOK
<1>2. ASSUME NEW w \in Window, add_project(p, w) PROVE p \in Drawn'
  <2>1. p \in project_order' /\ parent'[p] = None
    BY <1>1, <1>2 DEF add_project, Push, IInv, TypeOK
  <2> QED
    BY <1>1, <2>1 DEF Drawn, TopDrawn, Listed
<1>3. ASSUME NEW q \in Project, NEW w \in Window,
             \/ add_discovered_worktree(p, q, w)
             \/ \E background \in BOOLEAN : register_worktree(p, q, w, background)
      PROVE  p \in Drawn' \/ parent'[p] \notin {None} \cup TopDrawn
  <2>1. parent' = [parent EXCEPT ![p] = q] /\ parent'[p] = q /\ q # None
    BY <1>1, <1>3, NamesAssumption DEF add_discovered_worktree, register_worktree
  <2>2. Push(p) /\ UNCHANGED <<project_order, project_ids, folders>>
    BY <1>3 DEF add_discovered_worktree, register_worktree
  <2>3. CASE q \in TopDrawn
    <3>1. q \in projects /\ worktree_ids' = ListUnder(p, q)
      BY <1>3, <2>3 DEF TopDrawn, add_discovered_worktree, register_worktree
    <3>2. p \in worktree_ids'[q]
      BY <3>1 DEF ListUnder, IInv, TypeOK
    <3>3. q # p /\ parent'[q] = parent[q]
      BY <1>1, <2>1, <2>2, <3>1 DEF Push, IInv, TypeOK
    <3>4. q \in projects' /\ q \in Listed' /\ projects' \cap used \subseteq projects
      BY <2>2, <2>3, <3>1 DEF Push, TopDrawn, Listed
    <3>5. q \in TopDrawn'
      BY <2>3, <3>3, <3>4, TopStays
    <3> QED
      BY <3>2, <3>5 DEF Drawn, AllWorktreeIds
  <2>4. CASE q \notin TopDrawn
    BY <2>1, <2>4
  <2> QED
    BY <2>3, <2>4
<1> QED
  BY <1>2, <1>3, NewComesFrom

(* The step of NewIsPlaced: the windows.                                   *)
LEMMA StepNewShowsOnce ==
  ASSUME IInv, [Next]_vars, NEW p \in projects' \ projects, NEW v \in Open', NEW u \in Open',
         p \notin hidden'[v], p \notin hidden'[u]
  PROVE  v = u
<1>1. PICK w \in Window : HideElsewhere(p, w) /\ UNCHANGED extra_windows
  <2>1. ASSUME NEW w \in Window,
               \/ add_project(p, w)
               \/ \E q \in Project : \/ add_discovered_worktree(p, q, w)
                                     \/ \E background \in BOOLEAN : register_worktree(p, q, w, background)
        PROVE  HideElsewhere(p, w) /\ UNCHANGED extra_windows
    BY <2>1 DEF add_project, add_discovered_worktree, register_worktree
  <2> QED
    BY <2>1, NewComesFrom
<1>2. v \in Window /\ u \in Window /\ v \in Open /\ u \in Open
  BY <1>1 DEF Open, Window, IInv, TypeOK
<1>3. v = w /\ u = w
  BY <1>1, <1>2 DEF HideElsewhere
<1> QED
  BY <1>3

(* A new project is drawn at once, unless its parent is gone or drawn      *)
(* under another project, and it shows in the window it was made from, if  *)
(* that is still open, and in no other.                                    *)
THEOREM NewProjectsArePlaced == Spec => NewIsPlaced
<1>1. IInv /\ IInv' /\ [Next]_vars
        => [\A p \in projects' \ projects :
              /\ p \in Drawn' \/ parent'[p] \notin {None} \cup TopDrawn
              /\ \A v, w \in Open' : p \notin hidden'[v] /\ p \notin hidden'[w] => v = w]_projects
  BY StepNewIsDrawn, StepNewShowsOnce
<1> QED
  BY <1>1, Invariant, NextIInv, InitIInv, PTL DEF Spec, NewIsPlaced

-----------------------------------------------------------------------------
(* The step of LoadRepairs.                                                *)
LEMMA StepLoadRepairs ==
  ASSUME IInv, restart
  PROVE  /\ \A p \in projects : p \in Drawn' \/ parent[p] \in projects \ TopDrawn'
         /\ project_order' \subseteq projects \cup folders
         /\ \A f \in folders : project_ids'[f] \subseteq projects
         /\ AllWorktreeIds(projects, worktree_ids')
              \cap (project_order' \cup UNION {project_ids'[f] : f \in folders}) = {}
         /\ \A w \in Window : hidden'[w] \subseteq projects /\ filter'[w] \in folders \cup {None}
<1> DEFINE children == AllWorktreeIds(projects, worktree_ids)
<1>0. /\ worktree_ids' = worktree_ids
      /\ project_order' = Placed(children) \cap (projects \cup folders)
      /\ project_ids' = [f \in Folder |-> (project_ids[f] \ children) \cap projects]
      /\ UNCHANGED <<used, projects, parent, folders>>
      /\ folders \subseteq Folder
  BY NothingToPopulate DEF restart, IInv, TypeOK
<1>1. ASSUME NEW p \in projects PROVE p \in Drawn' \/ parent[p] \in projects \ TopDrawn'
  <2>1. ASSUME NEW q \in projects, p \in worktree_ids[q]
        PROVE  p \in Drawn' \/ parent[p] \in projects \ TopDrawn'
    <3>1. parent[p] = q
      BY <2>1 DEF IInv, ListsAgree
    <3> QED
      BY <1>0, <2>1, <3>1 DEF Drawn, AllWorktreeIds
  <2>2. CASE p \notin children
    <3>1. parent[p] \notin projects
      BY <2>2 DEF AllWorktreeIds, IInv, ListsAgree
    <3>2. CASE p \in project_order'
      BY <1>0, <3>1, <3>2 DEF Drawn, TopDrawn, Listed
    <3>3. CASE p \notin project_order'
      <4>1. PICK f \in folders : p \in project_ids[f]
        BY <1>0, <2>2, <3>3 DEF Placed
      <4>2. f \in project_order'
        <5>1. f \notin children
          BY <1>0, NamesAssumption DEF AllWorktreeIds, IInv, TypeOK
        <5> QED
          BY <1>0, <5>1 DEF Placed, IInv, ListsAgree
      <4>3. p \in project_ids'[f]
        BY <1>0, <2>2, <4>1
      <4> QED
        BY <1>0, <3>1, <4>1, <4>2, <4>3 DEF Drawn, TopDrawn, Listed
    <3> QED
      BY <3>2, <3>3
  <2> QED
    BY <2>1, <2>2 DEF AllWorktreeIds
<1>2. children \cap (project_order' \cup UNION {project_ids'[f] : f \in folders}) = {}
  BY <1>0 DEF Placed
<1>3. \A w \in Window : hidden'[w] \subseteq projects /\ filter'[w] \in folders \cup {None}
  BY DEF restart
<1> QED
  BY <1>0, <1>1, <1>2, <1>3

(* Loading draws again whatever was lost, except a worktree of a worktree, *)
(* and leaves no list with what is gone or is listed elsewhere.            *)
THEOREM LoadingRepairs == Spec => LoadRepairs
<1>1. IInv /\ [Next]_vars
        => [restart =>
              /\ \A p \in projects : p \in Drawn' \/ parent[p] \in projects \ TopDrawn'
              /\ project_order' \subseteq projects \cup folders
              /\ \A f \in folders : project_ids'[f] \subseteq projects
              /\ AllWorktreeIds(projects, worktree_ids')
                   \cap (project_order' \cup UNION {project_ids'[f] : f \in folders}) = {}
              /\ \A w \in Window :
                   hidden'[w] \subseteq projects /\ filter'[w] \in folders \cup {None}]_vars
  BY StepLoadRepairs
<1> QED
  BY <1>1, Invariant, PTL DEF Spec, LoadRepairs

(* The watcher looks again before it removes: it takes nothing that is     *)
(* being created or closed.                                                *)
THEOREM WatcherLooksAgain == Spec => WatcherSparesBusy
<1>1. [Next]_vars => [watch_remove => projects \cap (creating \cup closing) \subseteq projects']_stale
  BY DEF watch_remove, Removable, Idle
<1> QED
  BY <1>1, PTL DEF Spec, WatcherSparesBusy
=============================================================================
