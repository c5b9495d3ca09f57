----------------------------- MODULE LayoutTree -----------------------------
(***************************************************************************)
(* The layout tree of a project and the functions that change it: what     *)
(* okena-layout/src/lib.rs and the layout actions of okena-workspace       *)
(* compute.  The module Layout makes the handlers' steps of them.          *)
(*                                                                         *)
(* What changes in one node is in LayoutNode.  A new pane has its terminal *)
(* at once, as spawn_uninitialized_terminals gives it one in the same      *)
(* turn.                                                                   *)
(***************************************************************************)
EXTENDS LayoutNode

CONSTANT None

-----------------------------------------------------------------------------
(* Reading and replacing parts of a tree *)

RECURSIVE GetAt(_, _)
GetAt(t, path) ==
  IF path = <<>> THEN t ELSE GetAt(t.children[Head(path)], Tail(path))

RECURSIVE PutAt(_, _, _)
PutAt(t, path, node) ==
  IF path = <<>> THEN node
  ELSE [t EXCEPT !.children[Head(path)] = PutAt(@, Tail(path), node)]

RECURSIVE Panes(_)
Panes(t) ==
  IF t.kind = "pane" THEN <<t.id>>
  ELSE FlattenSeq([i \in DOMAIN t.children |-> Panes(t.children[i])])

\* The path of every node of the tree.
RECURSIVE Paths(_)
Paths(t) ==
  {<<>>} \cup
    IF t.kind = "pane" THEN {}
    ELSE UNION {{<<i>> \o path : path \in Paths(t.children[i])} : i \in DOMAIN t.children}

\* An id occurs once in a tree, so the first path the code finds is the only one.
PathOf(t, id) == CHOOSE path \in Paths(t) : GetAt(t, path) = Pane(id)

\* A tab is what a path in front of it leads to.
InTabs(t, path) == path # <<>> /\ GetAt(t, Front(path)).kind = "tabs"

\* A group draws the tab at its active index, and an empty area if there is none.
RECURSIVE Visible(_)
Visible(t) ==
  CASE t.kind = "pane"  -> {t.id}
    [] t.kind = "split" -> UNION {Visible(t.children[i]) : i \in DOMAIN t.children}
    [] t.kind = "tabs"  ->
         IF t.active \in DOMAIN t.children THEN Visible(t.children[t.active]) ELSE {}

-----------------------------------------------------------------------------
(* okena-layout: the functions of LayoutNode *)

RemoveNode(t, path) ==
  PutAt(t, Front(path), WithoutChild(GetAt(t, Front(path)), Last(path)))

Spliced(direction, children) ==
  FlattenSeq([i \in DOMAIN children |->
    IF children[i].kind = "split" /\ children[i].direction = direction
    THEN children[i].children
    ELSE <<children[i]>>])

\* Inner nodes first.  An empty container becomes a pane without a terminal.
RECURSIVE Normalize(_)
Normalize(t) ==
  IF t.kind = "pane" THEN t
  ELSE
    LET children == [i \in DOMAIN t.children |-> Normalize(t.children[i])]
    IN CASE Len(children) = 0  -> Pane(None)
         [] Len(children) = 1  -> children[1]
         [] t.kind = "tabs"    -> ClampActive([t EXCEPT !.children = children])
         [] OTHER              -> [t EXCEPT !.children = Spliced(t.direction, children)]

RECURSIVE ActivateAlong(_, _)
ActivateAlong(t, path) ==
  IF path = <<>> \/ t.kind = "pane" THEN t
  ELSE
    LET i == Head(path)
        led == [t EXCEPT !.children[i] = ActivateAlong(@, Tail(path))]
    IN IF t.kind = "tabs" THEN [led EXCEPT !.active = i] ELSE led

RECURSIVE Transpose(_)
Transpose(t) ==
  IF t.kind = "pane" THEN t
  ELSE
    LET turned == [t EXCEPT !.children = [i \in DOMAIN @ |-> Transpose(@[i])]]
    IN IF t.kind = "tabs" THEN turned
       ELSE [turned EXCEPT !.direction = CHOOSE d \in Direction : d # t.direction]

\* The same shape with other panes.
RECURSIVE CloneStructure(_, _)
CloneStructure(t, clone) ==
  IF t.kind = "pane" THEN Pane(clone[t.id])
  ELSE [t EXCEPT !.children = [i \in DOMAIN @ |-> CloneStructure(@[i], clone)]]

-----------------------------------------------------------------------------
(* okena-workspace: the layout actions, as functions of the project's tree *)

WrapRoot(t, id) == Split("vertical", <<t, Pane(id)>>)

\* A pane that is a tab: the whole group is split, not the tab.
SplitPath(t, path) == IF InTabs(t, path) THEN Front(path) ELSE path

SplitAt(t, path, direction, id) ==
  LET at == SplitPath(t, path)
  IN Normalize(PutAt(t, at, Split(direction, <<GetAt(t, at), Pane(id)>>)))

AddTabToGroupAt(t, path, id) ==
  PutAt(t, path, AppendToRoot(GetAt(t, path), Pane(id)))

AddTabAt(t, path, id) ==
  IF InTabs(t, path) THEN AddTabToGroupAt(t, Front(path), id)
  ELSE PutAt(t, path, Tabs(<<GetAt(t, path), Pane(id)>>, 2))

MoveTabAt(t, path, from, to) ==
  LET group == GetAt(t, path)
  IN IF from \notin DOMAIN group.children \/ to \notin DOMAIN group.children THEN t
     ELSE PutAt(t, path, WithTabMoved(group, from, to))

\* Closing the root leaves a project without layout: None.
CloseAt(t, path) ==
  IF path = <<>> THEN None
  ELSE
    LET group == GetAt(t, Front(path))
    IN PutAt(t, Front(path),
         Followed(WithoutChild(group, Last(path)), group, Last(path)))

InsertBeside(t, node, id, zone) ==
  LET path == PathOf(t, id)
  IN Normalize(PutAt(t, path, DropZoneWrapper(node, GetAt(t, path), zone)))

\* A plausible slip: the target is where it was before the source was removed.
MovePaneByOldPath(t, source, target, zone) ==
  IF source = target \/ Len(Panes(t)) <= 1 THEN t
  ELSE
    LET path == PathOf(t, target)
        removed == RemoveNode(t, PathOf(t, source))
    IN IF path \notin Paths(removed) THEN removed
       ELSE Normalize(PutAt(removed, path,
              DropZoneWrapper(Pane(source), GetAt(removed, path), zone)))

\* The target is looked up after the removal, and the move ends there without it.
MovePaneInTree(t, source, target, zone) ==
  IF source = target \/ Len(Panes(t)) <= 1 THEN t
  ELSE
    LET removed == RemoveNode(t, PathOf(t, source))
    IN IF Contains(Panes(removed), target)
       THEN InsertBeside(removed, Pane(source), target, zone)
       ELSE removed

\* What a pane that moves to another project leaves behind.
Extract(t, path) == IF path = <<>> THEN None ELSE Normalize(RemoveNode(t, path))

\* The group is the parent of a pane that was in it before.  If that parent is
\* no group the function ends, with the moved pane taken out already.
InsertInGroupOf(t, reference, node, position) ==
  LET path == PathOf(t, reference)
      group == GetAt(t, Front(path))
  IN IF ~InTabs(t, path) THEN t
     ELSE Normalize(PutAt(t, Front(path), WithTab(group, position, node)))

\* position is one past the last tab for a drop behind all of them.
MoveToGroupInTree(t, id, path, position) ==
  LET from == PathOf(t, id)
      others == SelectSeq(Panes(GetAt(t, path)), LAMBDA other : other # id)
  IN CASE from = <<>> -> t
       [] from # <<>> /\ Front(from) = path -> MoveTabAt(t, path, Last(from), position)
       [] OTHER -> IF others = <<>> THEN t
                   ELSE InsertInGroupOf(RemoveNode(t, from), others[1], Pane(id), position)
=============================================================================
