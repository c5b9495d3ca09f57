----------------------------- MODULE Workspace -----------------------------
(***************************************************************************)
(* Where every project is kept and where it shows                          *)
(* (crates/okena-workspace/src/actions, state.rs, lifecycle.rs,            *)
(* worktree_sync.rs, persistence.rs; crates/okena-state/src/windows.rs).   *)
(*                                                                         *)
(* A project is listed at the top level, in a folder, or, when it is a     *)
(* worktree, under its parent; every window keeps a set of hidden projects *)
(* and a folder filter.  The lists refer to projects by id and are kept    *)
(* apart, so each operation has to keep them in step: the user's, those of *)
(* a remote client, the background creation and closing of worktrees, the  *)
(* watcher that drops worktrees whose directory is gone, and the repair    *)
(* done when a workspace is loaded.                                        *)
(*                                                                         *)
(* A list is modelled by the set of its members: positions are left out.   *)
(* Column widths go with the hidden set, and collapsed folders with the    *)
(* filter: the same code fills and scrubs them.                            *)
(***************************************************************************)
EXTENDS Integers, FiniteSets

CONSTANTS
  Project,  \* project ids (bound): each is given out once, as a uuid is
  Folder,   \* folder ids (bound)
  Main,     \* the main window
  Extra,    \* the ids of extra windows (bound)
  None,     \* no parent, no filter
  MaxStale, \* bound on the worktrees one round of the watcher finds gone
  MaxCloses,\* bound on the closes that wait for their hooks at once
  MaxGone   \* bound on what the lists, windows and closes name although it is gone

Window == {Main} \cup Extra

ASSUME NamesAssumption ==
  /\ None \notin Project \cup Folder
  /\ Project \cap Folder = {}
  /\ Main \notin Extra

VARIABLES
  used,           \* the project ids given out so far
  projects,       \* data.projects
  parent,         \* worktree_info.parent_project_id, None for a plain project
  worktree_ids,   \* worktree_ids[p]: the worktrees listed under p
  project_order,  \* the top level: projects and folders
  folders,        \* data.folders
  project_ids,    \* project_ids[f]: the projects listed in folder f
  extra_windows,  \* the extra windows that are open
  hidden,         \* hidden_project_ids of each window
  filter,         \* folder_filter of each window
  creating,       \* worktrees git is still making
  closing,        \* worktrees whose close waits for a hook
  stale           \* the list the sync watcher has made and not yet gone through

lists == <<parent, worktree_ids, project_order, project_ids>>
windows == <<extra_windows, hidden, filter>>
lifecycle == <<creating, closing>>
vars == <<used, projects, lists, folders, windows, lifecycle, stale>>

-----------------------------------------------------------------------------
Open == {Main} \cup extra_windows

AllWorktreeIds(ps, kids) == UNION {kids[p] : p \in ps}

(* What the sidebar draws: what is listed at the top level or in a folder  *)
(* there, unless its parent is a project; and under those, the projects of *)
(* their worktree_ids.                                                     *)
Listed == project_order \cup UNION {project_ids[f] : f \in folders \cap project_order}

TopDrawn == {p \in projects \cap Listed : parent[p] \notin projects}

Drawn == TopDrawn \cup (projects \cap AllWorktreeIds(TopDrawn, worktree_ids))

-----------------------------------------------------------------------------
Init ==
  /\ used = {} /\ projects = {} /\ folders = {} /\ project_order = {}
  /\ parent = [p \in Project |-> None]
  /\ worktree_ids = [p \in Project |-> {}]
  /\ project_ids = [f \in Folder |-> {}]
  /\ extra_windows = {}
  /\ hidden = [w \in Window |-> {}]
  /\ filter = [w \in Window |-> None]
  /\ creating = {} /\ closing = {} /\ stale = {}

(* The id of a project that is pushed to data.projects.                    *)
Push(p) ==
  /\ p \notin used
  /\ used' = used \cup {p}
  /\ projects' = projects \cup {p}

\* Mutant of HideElsewhere: the extra windows are forgotten.
HideInMainOnly(p, w) == hidden' = [hidden EXCEPT ![Main] = IF w = Main THEN @ ELSE @ \cup {p}]

(* add_project_hide_in_other_windows: w may have been closed meanwhile.    *)
HideElsewhere(p, w) ==
  hidden' = [v \in Window |-> IF v \in Open \ {w} THEN hidden[v] \cup {p} ELSE hidden[v]]

add_project(p, w) ==
  /\ w \in Open
  /\ Push(p)
  /\ project_order' = project_order \cup {p}
  /\ HideElsewhere(p, w)
  /\ UNCHANGED <<parent, worktree_ids, project_ids, folders, extra_windows, filter,
                 lifecycle, stale>>

-----------------------------------------------------------------------------
(* Folders.                                                                *)

create_folder(f) ==
  /\ f \notin folders
  /\ folders' = folders \cup {f}
  /\ project_order' = project_order \cup {f}
  /\ UNCHANGED <<used, projects, parent, worktree_ids, project_ids, windows, lifecycle, stale>>

(* The top level after the deletion of f: its projects take its place.     *)
Spliced(f) ==
  IF f \in project_order THEN (project_order \ {f}) \cup project_ids[f] ELSE project_order

(* delete_folder_scrub_all_windows.                                        *)
ScrubFilter(f) == filter' = [w \in Window |-> IF filter[w] = f THEN None ELSE filter[w]]

delete_folder(f) ==
  /\ project_order' = Spliced(f)
  /\ folders' = folders \ {f}
  /\ project_ids' = [project_ids EXCEPT ![f] = {}]
  /\ ScrubFilter(f)
  /\ UNCHANGED <<used, projects, parent, worktree_ids, extra_windows, hidden, lifecycle, stale>>

(* The projects and folders that are gone and yet stand at the top level   *)
(* or in a folder, are hidden in a window, are its filter or wait for the  *)
(* hook of a close.  A click, a drag or a dialog may come to its end after *)
(* the thing has gone; the bound on those.                                 *)
GoneReferences ==
  (project_order \cup UNION {project_ids[f] : f \in folders} \cup closing
     \cup UNION {hidden[w] : w \in Window} \cup {filter[w] : w \in Window})
  \ (projects \cup folders \cup {None})

MayBeGone(id) == id \in projects \cup folders \/ Cardinality(GoneReferences) < MaxGone

(* The folder lists without p.                                             *)
OutOfFolders(p) == [f \in Folder |-> project_ids[f] \ {p}]

(* move_project_to_folder.  The target may be unknown: a remote client     *)
(* names it.  The project may be gone: a drag outlives it.                 *)
move_project_to_folder(p, f) ==
  /\ p \in used /\ (f \in folders => MayBeGone(p))
  /\ project_order' = project_order \ {p}
  /\ project_ids' = IF f \in folders THEN [OutOfFolders(p) EXCEPT ![f] = @ \cup {p}]
                                     ELSE OutOfFolders(p)
  /\ UNCHANGED <<used, projects, parent, worktree_ids, folders, windows, lifecycle, stale>>

(* move_project and move_project_out_of_folder put the project at the top  *)
(* level, whether it was listed or not, and whether it still exists or not.*)
move_project(p) ==
  /\ p \in used /\ MayBeGone(p)
  /\ project_order' = project_order \cup {p}
  /\ project_ids' = OutOfFolders(p)
  /\ UNCHANGED <<used, projects, parent, worktree_ids, folders, windows, lifecycle, stale>>

-----------------------------------------------------------------------------
(* Removal.                                                                *)

\* Mutant of Rehomed: the worktrees of a deleted project are not put back.
NotRehomed(p) == {}

(* The worktrees of p that take a place at the top level when p is deleted.*)
Rehomed(p) == (worktree_ids[p] \cap projects) \ {p}

(* delete_project; p may be gone, when a background close or creation ends *)
(* after the user deleted it.                                              *)
Delete(p) ==
  /\ projects' = projects \ {p}
  /\ parent' = [parent EXCEPT ![p] = None]
  /\ worktree_ids' = [q \in Project |-> IF q = p THEN {} ELSE worktree_ids[q] \ {p}]
  /\ project_order' = (project_order \ {p}) \cup Rehomed(p)
  /\ project_ids' = OutOfFolders(p)
  /\ hidden' = [w \in Window |-> hidden[w] \ {p}]
  /\ closing' = closing \ {p}
  /\ UNCHANGED <<used, folders, extra_windows, filter, stale>>

delete_project(p) ==
  /\ p \in projects
  /\ Delete(p)
  /\ UNCHANGED creating

(* The sync watcher: it lists the worktrees nobody is working on, looks on *)
(* another thread which directories are gone, and removes those.  Which    *)
(* are gone is up to the world outside.                                    *)
Idle(p) == p \notin closing \cup creating

watch_collect ==
  /\ stale = {}
  /\ \E S \in SUBSET {p \in projects : parent[p] # None /\ Idle(p)} :
       Cardinality(S) <= MaxStale /\ stale' = S
  /\ UNCHANGED <<used, projects, lists, folders, windows, lifecycle>>

\* Mutant of Removable: what happened since the list was made is not looked at.
ListedIsRemovable(S) == {p \in S \cap projects : parent[p] # None}

(* What remove_stale_worktree removes of S: it looks again.                *)
Removable(S) == {p \in S \cap projects : Idle(p) /\ parent[p] # None}

\* Mutant of Scrubbed: the windows keep what is removed.
NotScrubbed(S) == hidden

Scrubbed(S) == [w \in Window |-> hidden[w] \ S]

(* remove_stale_worktree for the whole list; worktree_ids keep the ids.    *)
watch_remove ==
  LET S == Removable(stale) IN
  /\ stale # {}
  /\ projects' = projects \ S
  /\ project_order' = project_order \ S
  /\ project_ids' = [f \in Folder |-> project_ids[f] \ S]
  /\ parent' = [p \in Project |-> IF p \in S THEN None ELSE parent[p]]
  /\ worktree_ids' = [p \in Project |-> IF p \in S THEN {} ELSE worktree_ids[p]]
  /\ hidden' = Scrubbed(S)
  /\ stale' = {}
  /\ UNCHANGED <<used, folders, extra_windows, filter, lifecycle>>

-----------------------------------------------------------------------------
(* Worktrees.                                                              *)

\* Mutant of ListUnder: the parent does not list its new worktree.
NotListed(p, q) == worktree_ids

ListUnder(p, q) == [worktree_ids EXCEPT ![q] = @ \cup {p}]

(* register_worktree_project_inner; the quick creation goes on with git in *)
(* the background and marks the project, the dialog has run git before.    *)
(* Both have waited for git: the window w may be closed by now.            *)
register_worktree(p, q, w, background) ==
  /\ q \in projects
  /\ Push(p)
  /\ parent' = [parent EXCEPT ![p] = q]
  /\ worktree_ids' = ListUnder(p, q)
  /\ HideElsewhere(p, w)
  /\ creating' = IF background THEN creating \cup {p} ELSE creating
  /\ UNCHANGED <<project_order, project_ids, folders, extra_windows, filter, closing, stale>>

(* The end of the background creation: fire_worktree_hooks when it worked, *)
(* delete_project when it did not.  The user may have deleted p meanwhile. *)
creation_ends(p) ==
  /\ p \in creating
  /\ creating' = creating \ {p}
  /\ \/ UNCHANGED <<used, projects, lists, folders, windows, closing, stale>>
     \/ Delete(p)

(* A click in the list of git worktrees: add_discovered_worktree, then     *)
(* add_to_worktree_ids, which takes p off the top level in any case.  The  *)
(* project q the list was opened for may be gone.                          *)
add_discovered_worktree(p, q, w) ==
  /\ w \in Open /\ q \in used
  /\ Push(p)
  /\ parent' = [parent EXCEPT ![p] = q]
  /\ worktree_ids' = IF q \in projects THEN ListUnder(p, q) ELSE worktree_ids
  /\ HideElsewhere(p, w)
  /\ UNCHANGED <<project_order, project_ids, folders, extra_windows, filter, lifecycle, stale>>

(* register_pending_worktree_close: the dialog, which is one for worktrees, *)
(* has merged and pushed in the background before, so that p may be gone.  *)
register_pending_close(p) ==
  /\ p \in used /\ (p \in projects => parent[p] # None) /\ MayBeGone(p)
  /\ Cardinality(closing) < MaxCloses
  /\ closing' = closing \cup {p}
  /\ UNCHANGED <<used, projects, lists, folders, windows, creating, stale>>

(* The hook terminal of the close exits: delete_project if it succeeded.   *)
(* A failure, or its dismissal by the user, only takes the mark off.       *)
close_ends(p) ==
  /\ p \in closing
  /\ UNCHANGED creating
  /\ \/ Delete(p)
     \/ /\ closing' = closing \ {p}
        /\ UNCHANGED <<used, projects, lists, folders, windows, stale>>

-----------------------------------------------------------------------------
(* Windows.                                                                *)

(* The project may be gone: only one of the two entry points looks.        *)
toggle_hidden(w, p) ==
  /\ w \in Open /\ p \in used
  /\ p \in hidden[w] \/ MayBeGone(p)
  /\ hidden' = [hidden EXCEPT ![w] = IF p \in @ THEN @ \ {p} ELSE @ \cup {p}]
  /\ UNCHANGED <<used, projects, lists, folders, extra_windows, filter, lifecycle, stale>>

(* toggle_folder_focus: the folder may be gone.                            *)
toggle_folder_focus(w, f) ==
  /\ w \in Open
  /\ f = filter[w] \/ MayBeGone(f)
  /\ filter' = [filter EXCEPT ![w] = IF @ = f THEN None ELSE f]
  /\ UNCHANGED <<used, projects, lists, folders, extra_windows, hidden, lifecycle, stale>>

(* spawn_extra_window: every project there is starts hidden in it.         *)
spawn_extra_window(w) ==
  /\ w \notin extra_windows
  /\ extra_windows' = extra_windows \cup {w}
  /\ hidden' = [hidden EXCEPT ![w] = projects]
  /\ UNCHANGED <<used, projects, lists, folders, filter, lifecycle, stale>>

\* Mutant of Forgotten: a closed window's state stays.
Kept(state, w, value) == state

Forgotten(state, w, value) == [state EXCEPT ![w] = value]

close_extra_window(w) ==
  /\ w \in extra_windows
  /\ extra_windows' = extra_windows \ {w}
  /\ hidden' = Forgotten(hidden, w, {})
  /\ filter' = Forgotten(filter, w, None)
  /\ UNCHANGED <<used, projects, lists, folders, lifecycle, stale>>

-----------------------------------------------------------------------------
(* validate_workspace_data.                                                *)

(* Empty worktree_ids are filled from the worktrees' own reference.        *)
Populated ==
  [p \in Project |->
     IF p \in projects /\ worktree_ids[p] = {}
       THEN {w \in projects : parent[w] = p} ELSE worktree_ids[p]]

\* Mutant of Placed: a project that is in no list is left there.
NotPlaced(children) == project_order \ children

(* The top level: no worktree a parent lists, and every project that is in *)
(* no other list.                                                          *)
Placed(children) ==
  LET inFolders == UNION {project_ids[f] : f \in folders}
  IN  (project_order \cup (projects \ inFolders)) \ children

(* A restart: what was saved is loaded and repaired; nothing is under way. *)
restart ==
  LET children == AllWorktreeIds(projects, Populated) IN
  /\ creating' = {} /\ closing' = {} /\ stale' = {}
  /\ worktree_ids' = Populated
  /\ project_order' = Placed(children) \cap (projects \cup folders)
  /\ project_ids' = [f \in Folder |-> (project_ids[f] \ children) \cap projects]
  /\ hidden' = [w \in Window |-> hidden[w] \cap projects]
  /\ filter' = [w \in Window |-> IF filter[w] \in folders THEN filter[w] ELSE None]
  /\ UNCHANGED <<used, projects, parent, folders, extra_windows>>

-----------------------------------------------------------------------------
Next ==
  \/ \E p \in Project, w \in Window : add_project(p, w)
  \/ \E f \in Folder : create_folder(f)
  \/ \E f \in folders : delete_folder(f)
  \/ \E p \in Project, f \in Folder : move_project_to_folder(p, f)
  \/ \E p \in Project : move_project(p)
  \/ \E p \in Project : delete_project(p)
  \/ watch_collect
  \/ watch_remove
  \/ \E p, q \in Project, w \in Window, background \in BOOLEAN :
       register_worktree(p, q, w, background)
  \/ \E p \in Project : creation_ends(p)
  \/ \E p, q \in Project, w \in Window : add_discovered_worktree(p, q, w)
  \/ \E p \in Project : register_pending_close(p)
  \/ \E p \in Project : close_ends(p)
  \/ \E w \in Window, p \in Project : toggle_hidden(w, p)
  \/ \E w \in Window, f \in Folder : toggle_folder_focus(w, f)
  \/ \E w \in Extra : spawn_extra_window(w)
  \/ \E w \in Extra : close_extra_window(w)
  \/ restart

Spec == Init /\ [][Next]_vars

-----------------------------------------------------------------------------
(* The variables have their types, and what is not there has left nothing: *)
(* a closed window no state, a project that is gone no parent and no list. *)
TypeOK ==
  /\ used \subseteq Project /\ projects \subseteq used
  /\ folders \subseteq Folder /\ extra_windows \subseteq Extra
  /\ parent \in [Project -> used \cup {None}]
  /\ worktree_ids \in [Project -> SUBSET used]
  /\ project_order \subseteq used \cup folders
  /\ project_ids \in [Folder -> SUBSET used]
  /\ hidden \in [Window -> SUBSET Project]
  /\ filter \in [Window -> Folder \cup {None}]
  /\ creating \cup closing \cup stale \subseteq used
  /\ \A p \in Project \ projects : parent[p] = None /\ worktree_ids[p] = {}
  /\ \A f \in Folder \ folders : project_ids[f] = {}
  /\ \A w \in Extra \ extra_windows : hidden[w] = {} /\ filter[w] = None

(* The two directions of the worktree relation are kept apart and agree: a *)
(* project lists exactly its worktrees (and ids that are gone), and no     *)
(* project is its own worktree.  Every folder stands at the top level, so  *)
(* that its projects come back when it is deleted.                         *)
ListsAgree ==
  /\ \A p, q \in projects : (q \in worktree_ids[p]) <=> (parent[q] = p)
  /\ \A p \in projects : p \notin worktree_ids[p]
  /\ folders \subseteq project_order

(* No removal leaves a window hiding, or filtered by, what it took away:   *)
(* each scrubs every window, the ones opened since the removal began too,  *)
(* and a window opened or a project added later brings no id that is gone. *)
(* Only a click on what is gone by then puts such an id there.             *)
WindowsAreScrubbed ==
  [][\A w \in Window :
       /\ \/ hidden'[w] \ projects' \subseteq hidden[w] \ projects
          \/ \E p \in used \ projects : toggle_hidden(w, p)
       /\ \/ filter'[w] \in folders' \cup {None}
          \/ filter'[w] = filter[w] /\ filter[w] \notin folders
          \/ \E f \in Folder \ folders : toggle_folder_focus(w, f)]_<<projects, folders, windows>>

(* A project the sidebar draws is drawn until it is removed.  There are    *)
(* two ways to lose one: a move into a folder that does not exist takes it *)
(* (and its worktrees) off every list; and the watcher does not put the    *)
(* worktrees of a stale worktree anywhere.                                 *)
MovedNowhere(p) ==
  \E f \in Folder \ folders :
    move_project_to_folder(p, f) \/ (parent[p] # None /\ move_project_to_folder(parent[p], f))

NothingVanishes ==
  [][\A p \in Drawn \cap projects' :
       p \in Drawn' \/ MovedNowhere(p) \/ parent[p] \in projects \cap Removable(stale)]_<<projects, lists, folders>>

(* A new project is drawn at once, unless it is a worktree of a project    *)
(* that is gone or that is itself drawn under another one, and it shows in *)
(* one open window at most, whatever was opened, closed and deleted while  *)
(* it was made.                                                            *)
NewIsPlaced ==
  [][\A p \in projects' \ projects :
       /\ p \in Drawn' \/ parent'[p] \notin {None} \cup TopDrawn
       /\ \A v, w \in Open' : p \notin hidden'[v] /\ p \notin hidden'[w] => v = w]_projects

(* A load repairs what the operations left: whatever was lost is drawn     *)
(* again, except a worktree of a worktree; the top level and the folders   *)
(* hold what exists, and no worktree its parent lists as well; no window   *)
(* hides, or is filtered by, what is gone.                                 *)
LoadRepairs ==
  [][restart =>
       /\ \A p \in projects : p \in Drawn' \/ parent[p] \in projects \ TopDrawn'
       /\ project_order' \subseteq projects \cup folders
       /\ \A f \in folders : project_ids'[f] \subseteq projects
       /\ AllWorktreeIds(projects, worktree_ids')
            \cap (project_order' \cup UNION {project_ids'[f] : f \in folders}) = {}
       /\ \A w \in Window : hidden'[w] \subseteq projects /\ filter'[w] \in folders \cup {None}]_vars

(* The watcher takes no project that is being created or closed, even when *)
(* that began after it had looked for the directory.                       *)
WatcherSparesBusy ==
  [][watch_remove => projects \cap (creating \cup closing) \subseteq projects']_stale
=============================================================================
