------------------------------- MODULE Layout -------------------------------
(***************************************************************************)
(* The layouts of the projects and every operation that changes them: each *)
(* is one turn of the GPUI thread, asked for by a key, a drag, a remote    *)
(* client or another part of the program.  Paths and positions are those   *)
(* of the present tree, as a view or a client shows it, except the index a *)
(* client makes the active tab: it is stored unseen.  The terminal a pane  *)
(* is dropped beside is still there.                                       *)
(***************************************************************************)
EXTENDS LayoutTree, FiniteSets

CONSTANTS Project, Terminal

ASSUME NoneIsNoTerminal == None \notin Terminal

\* A project without layout is a bookmark: None.
VARIABLE layouts

Ids(t) == IF t = None THEN {} ELSE ToSet(Panes(t))

Placed == UNION {Ids(layouts[p]) : p \in Project}

Unplaced == Terminal \ Placed

HasLayout == {p \in Project : layouts[p] # None}

\* What a client may ask for: every index of a group, and one that no group has.
\* Larger ones do what that one does.
TabIndex == 1..(Cardinality(Terminal) + 1)

GroupPaths(t) == {path \in Paths(t) : GetAt(t, path).kind = "tabs"}

\* Projects as they are added without a terminal; AddTerminal makes the first one.
Init == layouts = [p \in Project |-> None]

-----------------------------------------------------------------------------
(* New panes *)

AddTerminal(p, id) ==
  layouts' = [layouts EXCEPT ![p] = IF @ = None THEN Pane(id) ELSE WrapRoot(@, id)]

SplitTerminal(p, path, direction, id) ==
  layouts' = [layouts EXCEPT ![p] = SplitAt(@, path, direction, id)]

AddTab(p, path, id) ==
  layouts' = [layouts EXCEPT ![p] = AddTabAt(@, path, id)]

AddTabToGroup(p, path, id) ==
  layouts' = [layouts EXCEPT ![p] = AddTabToGroupAt(@, path, id)]

\* A worktree starts with panes of its own in the shape of its parent's layout.
CloneFromParent(p, parent) ==
  /\ layouts[p] = None
  /\ \E clone \in [Ids(layouts[parent]) -> Unplaced] :
       /\ \A a, b \in DOMAIN clone : clone[a] = clone[b] => a = b
       /\ layouts' = [layouts EXCEPT ![p] = CloneStructure(layouts[parent], clone)]

\* The undo of a soft close, in a tree that has changed since: the module
\* SoftClose has the other case, which gives a tree back that was there before.
UndoSoftClose(p, id) ==
  layouts' = [layouts EXCEPT ![p] = IF @ = None THEN Pane(id) ELSE AppendToRoot(@, Pane(id))]

(* Panes that go *)

CloseTerminal(p, id) ==
  layouts' = [layouts EXCEPT ![p] = CloseAt(@, PathOf(@, id))]

DeleteProject(p) == layouts' = [layouts EXCEPT ![p] = None]

(* Panes that stay *)

\* The handler does not look whether the group has the tab (tabs.rs:82-89).
SetActiveTab(p, path, i) ==
  layouts' = [layouts EXCEPT ![p] = PutAt(@, path, [GetAt(@, path) EXCEPT !.active = i])]

MoveTab(p, path, from, to) ==
  layouts' = [layouts EXCEPT ![p] = MoveTabAt(@, path, from, to)]

FocusTerminalById(p, id) ==
  layouts' = [layouts EXCEPT ![p] = ActivateAlong(@, PathOf(@, id))]

\* Every project the window shows.
ToggleProjectLayoutMode(shown) ==
  layouts' = [p \in Project |-> IF p \in shown THEN Transpose(layouts[p]) ELSE layouts[p]]

Load == layouts' = [p \in Project |-> IF layouts[p] = None THEN None ELSE Normalize(layouts[p])]

(* Panes that move *)

AfterMovePane(p, source, q, target, zone) ==
  IF p = q
  THEN [layouts EXCEPT ![p] = MovePaneInTree(@, source, target, zone)]
  ELSE [layouts EXCEPT ![p] = Extract(@, PathOf(@, source)),
                       ![q] = InsertBeside(@, Pane(source), target, zone)]

MovePane(p, source, q, target, zone) ==
  layouts' = AfterMovePane(p, source, q, target, zone)

AfterMoveToTabGroup(p, id, q, path, position) ==
  IF p = q
  THEN [layouts EXCEPT ![p] = MoveToGroupInTree(@, id, path, position)]
  ELSE [layouts EXCEPT ![p] = Extract(@, PathOf(@, id)),
                       ![q] = InsertInGroupOf(@, Panes(GetAt(@, path))[1], Pane(id), position)]

MoveTerminalToTabGroup(p, id, q, path, position) ==
  layouts' = AfterMoveToTabGroup(p, id, q, path, position)

-----------------------------------------------------------------------------
Next ==
  \/ \E p \in Project, id \in Unplaced : AddTerminal(p, id) \/ UndoSoftClose(p, id)
  \/ \E p \in Project, parent \in HasLayout : CloneFromParent(p, parent)
  \/ \E p \in HasLayout :
       \/ DeleteProject(p)
       \/ \E path \in Paths(layouts[p]), id \in Unplaced :
            \/ GetAt(layouts[p], path).kind = "pane" /\ AddTab(p, path, id)
            \/ \E direction \in Direction : SplitTerminal(p, path, direction, id)
       \/ \E path \in GroupPaths(layouts[p]) :
            \/ \E id \in Unplaced : AddTabToGroup(p, path, id)
            \/ \E i \in TabIndex : SetActiveTab(p, path, i)
            \/ \E i, j \in DOMAIN GetAt(layouts[p], path).children : MoveTab(p, path, i, j)
       \/ \E id \in Ids(layouts[p]) : CloseTerminal(p, id) \/ FocusTerminalById(p, id)
  \/ \E shown \in SUBSET HasLayout : ToggleProjectLayoutMode(shown)
  \/ Load
  \/ \E p, q \in HasLayout : \E id \in Ids(layouts[p]) :
       \/ \E target \in Ids(layouts[q]), zone \in DropZone : MovePane(p, id, q, target, zone)
       \/ \E path \in GroupPaths(layouts[q]) :
            \E position \in 1..(Len(GetAt(layouts[q], path).children) + 1) :
              MoveTerminalToTabGroup(p, id, q, path, position)

Spec == Init /\ [][Next]_layouts

-----------------------------------------------------------------------------
(* Properties.  Those about a handler say what it would make of the present
   layouts, for every input it could get now. *)

Nodes(t) == {GetAt(t, path) : path \in Paths(t)}

WellFormed(t) ==
  /\ IsInjective(Panes(t))
  /\ Ids(t) \subseteq Terminal
  /\ \A n \in Nodes(t) :
       /\ n.kind # "pane" => Len(n.children) >= 2
       /\ n.kind = "tabs" => n.active \in TabIndex
       /\ n.kind = "split" => n.direction \in Direction

\* Every group has the tab that is to be shown.
ShowsATab(t) ==
  \A n \in Nodes(t) : n.kind = "tabs" => n.active \in DOMAIN n.children

(* A pane is in one place of one layout, and no container is empty or has a single
   child.  The active index of a group need not be that of a tab: what reads it
   clamps it (lib.rs:466-471, 543-545) or finds nothing there. *)
TypeOK ==
  /\ \A p \in HasLayout : WellFormed(layouts[p])
  /\ \A p, q \in Project : p # q => Ids(layouts[p]) \cap Ids(layouts[q]) = {}

Flat(t) ==
  \A n \in Nodes(t) : n.kind = "split" =>
    \A i \in DOMAIN n.children :
      ~(n.children[i].kind = "split" /\ n.children[i].direction = n.direction)

Without(t, id) == IF t = None THEN <<>> ELSE SelectSeq(Panes(t), LAMBDA other : other # id)

\* The tree has the pane, nothing else is lost or made up, and the others keep
\* their order.  An active index that was out of range is back in it.
Rearranged(t, moved, id) ==
  /\ WellFormed(moved) /\ Flat(moved) /\ ShowsATab(moved)
  /\ id \in Ids(moved) /\ Without(moved, id) = Without(t, id)

\* The project the pane comes from keeps its other panes and their order.
LeftBehind(t, left, id) ==
  IF left = None THEN Ids(t) = {id}
  ELSE WellFormed(left) /\ Flat(left) /\ ShowsATab(left) /\ Panes(left) = Without(t, id)

Neighbours(t, direction, left, right) ==
  \E n \in Nodes(t) :
    /\ n.kind = "split" /\ n.direction = direction
    /\ \E i \in 1..(Len(n.children) - 1) :
         n.children[i] = Pane(left) /\ n.children[i + 1] = Pane(right)

Beside(t, source, target, zone) ==
  CASE zone = "top"    -> Neighbours(t, "horizontal", source, target)
    [] zone = "bottom" -> Neighbours(t, "horizontal", target, source)
    [] zone = "left"   -> Neighbours(t, "vertical", source, target)
    [] zone = "right"  -> Neighbours(t, "vertical", target, source)
    [] zone = "center" -> Tabs(<<Pane(target), Pane(source)>>, 2) \in Nodes(t)

\* The pane is the shown tab at the position, among the panes of the group.
JoinedGroup(moved, group, id, position) ==
  \E n \in Nodes(moved) :
    /\ n.kind = "tabs" /\ n.active = position /\ n.children[position] = Pane(id)
    /\ Ids(n) = Ids(group) \cup {id}

FirstTabIsPane(group) == group.children[1].kind = "pane"

DroppedOnPane(p, source, q, target, zone) ==
  LET after == AfterMovePane(p, source, q, target, zone)
  IN /\ Rearranged(layouts[q], after[q], source)
     /\ Beside(after[q], source, target, zone)
     /\ p # q => LeftBehind(layouts[p], after[p], source)

DroppedOnGroup(p, id, q, path, position) ==
  LET after == AfterMoveToTabGroup(p, id, q, path, position)
  IN /\ Rearranged(layouts[q], after[q], id)
     /\ JoinedGroup(after[q], GetAt(layouts[q], path), id, position)
     /\ p # q => LeftBehind(layouts[p], after[p], id)

(* A pane that is dropped on a side of another one, of its own project or of
   another one, ends up beside it in the direction of that side, a pane dropped
   on a tab bar is the shown tab at that place, and nothing else is lost,
   duplicated or reordered: although taking the pane out collapses its old
   container, which moves the paths of the target, and the normalisation merges
   splits.  A tab group is found again by the parent of its first pane, so the
   second part is about groups whose first tab is a pane; for the others see
   DropJoinsGroup. *)
MoveLandsBeside ==
  \A p, q \in HasLayout : \A moved \in Ids(layouts[p]) :
    /\ \A target \in Ids(layouts[q]) \ {moved}, zone \in DropZone :
         DroppedOnPane(p, moved, q, target, zone)
    /\ \A path \in GroupPaths(layouts[q]) :
         LET group == GetAt(layouts[q], path)
         IN FirstTabIsPane(group) /\ Pane(moved) \notin ToSet(group.children) =>
              \A position \in 1..(Len(group.children) + 1) :
                DroppedOnGroup(p, moved, q, path, position)

(* move_ops.rs:280-282: the pane is inserted into the tab group it is dropped
   on.  The code breaks this: if the first tab of the group is a split, the parent
   of the group's first pane is no group, and the function ends after it has
   taken the pane out of the tree (move_ops.rs:408-416). *)
DropJoinsGroup ==
  \A p, q \in HasLayout : \A id \in Ids(layouts[p]), path \in GroupPaths(layouts[q]) :
    LET group == GetAt(layouts[q], path)
    IN id \notin Ids(group) =>
         id \in Ids(AfterMoveToTabGroup(p, id, q, path, Len(group.children) + 1)[q])

\* The last tab a group is left with is itself a group, with its own active tab.
LeavesInnerGroup(t, path) ==
  /\ InTabs(t, path)
  /\ LET group == GetAt(t, Front(path))
     IN /\ Len(group.children) = 2 /\ Last(path) < group.active
        /\ group.children[2].kind = "tabs"

\* A close, a split and a new tab at a pane of t.  Some other terminal is new.
ShownAfter(t, id, new) ==
  LET path == PathOf(t, id)
      closed == CloseAt(t, path)
      tabbed == AddTabAt(t, path, new)
  IN /\ path # <<>> =>
          /\ WellFormed(closed) /\ Panes(closed) = Without(t, id)
          /\ ShowsATab(t) => ShowsATab(closed)
          /\ ~LeavesInnerGroup(t, path) => Visible(t) \ {id} \subseteq Visible(closed)
     /\ id \in Visible(ActivateAlong(t, path))
     /\ id \in Visible(t) => new \in Visible(tabbed)
     /\ \A direction \in Direction :
          LET split == SplitAt(t, path, direction, new)
          IN /\ Rearranged(t, split, new)
             /\ Visible(t) \subseteq Visible(split)
             /\ ShowsATab(t) => Visible(split) \ {new} = Visible(t)
             /\ id \in Visible(t) => new \in Visible(split)

(* Every pane that is shown and not closed is still shown after a pane was
   closed, a tab moved within its group, the tree normalised or split: the active
   tab is followed when it shifts or its group collapses.  The exception is
   a closed tab before a group that is left alone: the code takes the inner
   inner group for the outer one and changes its active tab (close.rs:40-47, whose
   comment says that it skips a collapsed parent).  A new pane is shown when the
   pane it was made at is, and one that is looked for or brought back is shown.
   A group whose active index a client has set out of range shows nothing: a split,
   a drop or a load repairs it, and no close and no reordering makes one. *)
ShownStaysShown ==
  \A t \in {layouts[p] : p \in HasLayout} :
    /\ LET n == Normalize(t)
       IN /\ WellFormed(n) /\ Flat(n) /\ ShowsATab(n) /\ Normalize(n) = n
          /\ Panes(n) = Panes(t) /\ Visible(t) \subseteq Visible(n)
          /\ ShowsATab(t) => Visible(n) = Visible(t)
    /\ \A id \in Ids(t), new \in Unplaced : ShownAfter(t, id, new)
    /\ \A new \in Unplaced : new \in Visible(AppendToRoot(t, Pane(new)))
    /\ \A path \in GroupPaths(t) : \A from, to \in DOMAIN GetAt(t, path).children :
         LET moved == MoveTabAt(t, path, from, to)
         IN /\ WellFormed(moved) /\ Visible(moved) = Visible(t)
            /\ ShowsATab(t) => ShowsATab(moved)
            /\ GetAt(moved, path).children[to] = GetAt(t, path).children[from]
=============================================================================
