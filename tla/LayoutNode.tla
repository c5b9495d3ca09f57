----------------------------- MODULE LayoutNode -----------------------------
(***************************************************************************)
(* One node of a layout tree, and what the functions of okena-layout and   *)
(* the layout actions of okena-workspace do to one node and its children.  *)
(* The module LayoutTree applies them along paths.                         *)
(*                                                                         *)
(* Left out: sizes, minimised and detached panes, shells, the zoom, focus, *)
(* and the names and hidden flags of panes that move along.  Positions     *)
(* count from 1, in the code from 0.                                       *)
(***************************************************************************)
EXTENDS Integers, SequencesExt

Direction == {"horizontal", "vertical"}
DropZone == {"top", "bottom", "left", "right", "center"}

Pane(id) == [kind |-> "pane", id |-> id]
Split(direction, children) ==
  [kind |-> "split", direction |-> direction, children |-> children]
Tabs(children, active) ==
  [kind |-> "tabs", children |-> children, active |-> active]

AtMost(i, n) == IF i > n THEN n ELSE i

\* The active tab may be any index a client has asked for, one that the group does
\* not have included.
ClampActive(group) == [group EXCEPT !.active = AtMost(@, Len(group.children))]

-----------------------------------------------------------------------------
(* Children that go *)

\* A plausible slip: a container that is left with a single child stays.
LeavesContainer(parent, i) == [parent EXCEPT !.children = RemoveAt(@, i)]

\* What becomes of a container without its child i: a single child replaces it.
WithoutChild(parent, i) ==
  LET rest == RemoveAt(parent.children, i)
      kept == [parent EXCEPT !.children = rest]
  IN IF Len(rest) = 1 THEN rest[1]
     ELSE IF parent.kind = "tabs" THEN ClampActive(kept)
     ELSE kept

\* A plausible slip: the tab that was active is not followed when it shifts.
NotFollowed(now, group, i) == now

\* Closing a tab before the active one shifts the active one to the left.  What
\* stands where the group stood may be another group: if only one tab was left.
Followed(now, group, i) ==
  IF group.kind = "tabs" /\ i < group.active /\ now.kind = "tabs"
  THEN [now EXCEPT !.active = AtMost(group.active - 1, Len(now.children))]
  ELSE now

(* Children that come *)

\* The new tab is the active one; a position behind all tabs is the last.
WithTab(group, position, node) ==
  LET at == AtMost(position, Len(group.children) + 1)
  IN Tabs(InsertAt(group.children, at, node), at)

AppendToRoot(t, node) ==
  CASE t.kind = "pane"  -> Split("horizontal", <<t, node>>)
    [] t.kind = "split" -> [t EXCEPT !.children = Append(@, node)]
    [] t.kind = "tabs"  -> Tabs(Append(t.children, node), Len(t.children) + 1)

DropZoneWrapper(source, target, zone) ==
  CASE zone = "top"    -> Split("horizontal", <<source, target>>)
    [] zone = "bottom" -> Split("horizontal", <<target, source>>)
    [] zone = "left"   -> Split("vertical", <<source, target>>)
    [] zone = "right"  -> Split("vertical", <<target, source>>)
    [] zone = "center" -> Tabs(<<target, source>>, 2)

(* Children that move *)

\* The active tab stays the same one, moved or shifted.  One that is not there is
\* behind both places and stays what it is.
ActiveAfterMove(active, from, to) ==
  CASE active = from                  -> to
    [] from < active /\ to >= active  -> active - 1
    [] from > active /\ to <= active  -> active + 1
    [] OTHER                          -> active

WithTabMoved(group, from, to) ==
  Tabs(InsertAt(RemoveAt(group.children, from), to, group.children[from]),
       ActiveAfterMove(group.active, from, to))
=============================================================================
