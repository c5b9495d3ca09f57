--------------------------- MODULE LayoutNodeProofs ---------------------------
(***************************************************************************)
(* What the functions of LayoutNode keep of a container, for every number  *)
(* of children and whatever the children are: no child is lost, doubled or *)
(* reordered, and the tab that was active stays the active one.  The run   *)
(* of Layout checks the same of whole trees, with four panes.              *)
(***************************************************************************)
EXTENDS LayoutNode, SequenceTheorems, TLAPS

-----------------------------------------------------------------------------
(* Removing and inserting an element of a sequence *)

LEMMA RemovedElements ==
  ASSUME NEW Node, NEW s \in Seq(Node), NEW i \in 1 .. Len(s)
  PROVE  /\ RemoveAt(s, i) \in Seq(Node)
         /\ Len(RemoveAt(s, i)) = Len(s) - 1
         /\ \A j \in 1 .. Len(s) - 1 :
              RemoveAt(s, i)[j] = IF j < i THEN s[j] ELSE s[j + 1]
<1> DEFINE before == SubSeq(s, 1, i - 1)
           after == SubSeq(s, i + 1, Len(s))
<1>1. /\ before \in Seq(Node) /\ Len(before) = i - 1
      /\ \A j \in 1 .. i - 1 : before[j] = s[j]
  BY SubSeqProperties
<1>2. /\ after \in Seq(Node) /\ Len(after) = Len(s) - i
      /\ \A j \in 1 .. Len(s) - i : after[j] = s[i + j]
  <2>1. \A j \in i + 1 .. Len(s) : s[j] \in Node
    OBVIOUS
  <2>2. /\ after \in Seq(Node)
        /\ Len(after) = IF i + 1 <= Len(s) THEN Len(s) - (i + 1) + 1 ELSE 0
        /\ \A j \in 1 .. Len(s) - (i + 1) + 1 : after[j] = s[i + 1 + j - 1]
    BY <2>1, SubSeqProperties
  <2> QED BY <2>2
<1> HIDE DEF before, after
<1>3. RemoveAt(s, i) = before \o after
  BY DEF RemoveAt, before, after
<1>4. /\ before \o after \in Seq(Node) /\ Len(before \o after) = Len(before) + Len(after)
      /\ \A j \in 1 .. Len(before) + Len(after) :
           (before \o after)[j] = IF j <= Len(before) THEN before[j] ELSE after[j - Len(before)]
  BY <1>1, <1>2, ConcatProperties
<1> QED BY <1>1, <1>2, <1>3, <1>4

LEMMA InsertedElements ==
  ASSUME NEW Node, NEW s \in Seq(Node), NEW i \in 1 .. Len(s) + 1, NEW e \in Node
  PROVE  /\ InsertAt(s, i, e) \in Seq(Node)
         /\ Len(InsertAt(s, i, e)) = Len(s) + 1
         /\ \A j \in 1 .. Len(s) + 1 :
              InsertAt(s, i, e)[j] =
                IF j < i THEN s[j] ELSE IF j = i THEN e ELSE s[j - 1]
<1> DEFINE before == SubSeq(s, 1, i - 1)
           first == before \o <<e>>
           after == SubSeq(s, i, Len(s))
<1>1. /\ before \in Seq(Node) /\ Len(before) = i - 1
      /\ \A j \in 1 .. i - 1 : before[j] = s[j]
  <2>1. \A j \in 1 .. i - 1 : s[j] \in Node
    OBVIOUS
  <2>2. /\ before \in Seq(Node)
        /\ Len(before) = IF 1 <= i - 1 THEN i - 1 - 1 + 1 ELSE 0
        /\ \A j \in 1 .. i - 1 - 1 + 1 : before[j] = s[1 + j - 1]
    BY <2>1, SubSeqProperties
  <2> QED BY <2>2
<1>2. /\ after \in Seq(Node) /\ Len(after) = Len(s) - i + 1
      /\ \A j \in 1 .. Len(s) - i + 1 : after[j] = s[i + j - 1]
  <2>1. \A j \in i .. Len(s) : s[j] \in Node
    OBVIOUS
  <2>2. /\ after \in Seq(Node)
        /\ Len(after) = IF i <= Len(s) THEN Len(s) - i + 1 ELSE 0
        /\ \A j \in 1 .. Len(s) - i + 1 : after[j] = s[i + j - 1]
    BY <2>1, SubSeqProperties
  <2> QED BY <2>2
<1> HIDE DEF before, after
<1>3. /\ first \in Seq(Node) /\ Len(first) = i
      /\ \A j \in 1 .. i : first[j] = IF j < i THEN s[j] ELSE e
  <2>1. <<e>> \in Seq(Node) /\ Len(<<e>>) = 1 /\ <<e>>[1] = e
    OBVIOUS
  <2>2. /\ first \in Seq(Node) /\ Len(first) = Len(before) + Len(<<e>>)
        /\ \A j \in 1 .. Len(before) + Len(<<e>>) :
             first[j] = IF j <= Len(before) THEN before[j] ELSE <<e>>[j - Len(before)]
    BY <1>1, <2>1, ConcatProperties
  <2> QED BY <1>1, <2>1, <2>2
<1>4. InsertAt(s, i, e) = first \o after
  BY DEF InsertAt, before, after
<1> HIDE DEF first
<1>5. /\ first \o after \in Seq(Node) /\ Len(first \o after) = Len(first) + Len(after)
      /\ \A j \in 1 .. Len(first) + Len(after) :
           (first \o after)[j] = IF j <= Len(first) THEN first[j] ELSE after[j - Len(first)]
  BY <1>2, <1>3, ConcatProperties
<1> QED BY <1>2, <1>3, <1>4, <1>5
-----------------------------------------------------------------------------
(* Tab groups.  Their children may be any nodes, in particular groups.       *)

\* Where the tab i is after the move of the tab from to the place to.
Place(i, from, to) == ActiveAfterMove(i, from, to)

LEMMA PlacesAreKept ==
  ASSUME NEW n \in Nat, NEW from \in 1 .. n, NEW to \in 1 .. n, NEW i \in 1 .. n, NEW j \in 1 .. n
  PROVE  /\ Place(i, from, to) \in 1 .. n
         /\ Place(from, from, to) = to
         /\ Place(i, from, to) = Place(j, from, to) => i = j
         /\ i # from /\ j # from /\ i < j => Place(i, from, to) < Place(j, from, to)
<1>1. \A k \in 1 .. n :
        Place(k, from, to) = IF k = from THEN to
                             ELSE IF from < k /\ to >= k THEN k - 1
                             ELSE IF from > k /\ to <= k THEN k + 1
                             ELSE k
  BY DEF Place, ActiveAfterMove
<1> HIDE DEF Place
<1> QED BY <1>1

\* A tab that is dragged within its group lands where it was dropped, the other tabs
\* keep their order, and the tab that was active is the active one still.
THEOREM TabMoveKeepsActive ==
  ASSUME NEW Node, NEW children \in Seq(Node), NEW active \in 1 .. Len(children),
         NEW from \in 1 .. Len(children), NEW to \in 1 .. Len(children)
  PROVE  LET moved == WithTabMoved(Tabs(children, active), from, to) IN
         /\ moved.children \in Seq(Node) /\ Len(moved.children) = Len(children)
         /\ \A i \in 1 .. Len(children) : moved.children[Place(i, from, to)] = children[i]
         /\ \A i, j \in (1 .. Len(children)) \ {from} :
              i < j => Place(i, from, to) < Place(j, from, to)
         /\ moved.children[to] = children[from]
         /\ moved.active \in 1 .. Len(children)
         /\ moved.children[moved.active] = children[active]
<1> DEFINE rest == RemoveAt(children, from)
           tab == children[from]
           moved == InsertAt(rest, to, tab)
<1>1. /\ rest \in Seq(Node) /\ Len(rest) = Len(children) - 1
      /\ \A j \in 1 .. Len(children) - 1 :
           rest[j] = IF j < from THEN children[j] ELSE children[j + 1]
  BY RemovedElements
<1>2. tab \in Node /\ Len(children) \in Nat /\ Len(children) >= 1
  OBVIOUS
<1> HIDE DEF rest, tab
<1>3. /\ moved \in Seq(Node) /\ Len(moved) = Len(children)
      /\ \A j \in 1 .. Len(children) :
           moved[j] = IF j < to THEN rest[j] ELSE IF j = to THEN tab ELSE rest[j - 1]
  <2>1. to \in 1 .. Len(rest) + 1 /\ Len(rest) + 1 = Len(children)
    BY <1>1, <1>2
  <2>2. /\ moved \in Seq(Node) /\ Len(moved) = Len(rest) + 1
        /\ \A j \in 1 .. Len(rest) + 1 :
             moved[j] = IF j < to THEN rest[j] ELSE IF j = to THEN tab ELSE rest[j - 1]
    BY <1>1, <1>2, <2>1, InsertedElements
  <2> QED BY <2>1, <2>2
<1> HIDE DEF moved
<1>4. \A i \in 1 .. Len(children) :
        Place(i, from, to) = IF i = from THEN to
                             ELSE IF from < i /\ to >= i THEN i - 1
                             ELSE IF from > i /\ to <= i THEN i + 1
                             ELSE i
  BY DEF Place, ActiveAfterMove
<1>5. \A i \in 1 .. Len(children) : moved[Place(i, from, to)] = children[i]
  <2> SUFFICES ASSUME NEW i \in 1 .. Len(children)
               PROVE  moved[Place(i, from, to)] = children[i]
    OBVIOUS
  <2>1. CASE i = from
    BY <1>1, <1>2, <1>3, <1>4, <2>1 DEF tab
  <2>2. CASE from < i /\ to >= i
    <3>1. Place(i, from, to) = i - 1 /\ i - 1 \in 1 .. Len(children) - 1 /\ i - 1 < to
      BY <1>2, <1>4, <2>2
    <3>2. moved[i - 1] = rest[i - 1] /\ rest[i - 1] = children[i - 1 + 1]
      BY <1>1, <1>2, <1>3, <2>2, <3>1
    <3> QED BY <3>1, <3>2
  <2>3. CASE from > i /\ to <= i
    <3>1. Place(i, from, to) = i + 1 /\ i + 1 \in 1 .. Len(children) /\ i + 1 > to
      BY <1>2, <1>4, <2>3
    <3>2. moved[i + 1] = rest[i] /\ rest[i] = children[i]
      BY <1>1, <1>2, <1>3, <2>3, <3>1
    <3> QED BY <3>1, <3>2
  <2>4. CASE i # from /\ ~(from < i /\ to >= i) /\ ~(from > i /\ to <= i)
    <3>1. Place(i, from, to) = i
      BY <1>4, <2>4
    <3>2. (i < from /\ i < to) \/ (i > from /\ i > to)
      BY <1>2, <2>4
    <3>3. CASE i < from /\ i < to
      <4>1. moved[i] = rest[i] /\ rest[i] = children[i]
        BY <1>1, <1>2, <1>3, <3>3
      <4> QED BY <3>1, <4>1
    <3>4. CASE i > from /\ i > to
      <4>1. moved[i] = rest[i - 1] /\ rest[i - 1] = children[i - 1 + 1]
        BY <1>1, <1>2, <1>3, <3>4
      <4> QED BY <3>1, <4>1
    <3> QED BY <3>2, <3>3, <3>4
  <2> QED BY <2>1, <2>2, <2>3, <2>4
<1>6. \A i, j \in (1 .. Len(children)) \ {from} :
        i < j => Place(i, from, to) < Place(j, from, to)
  BY <1>2, PlacesAreKept
<1>7. Place(from, from, to) = to /\ Place(active, from, to) \in 1 .. Len(children)
  BY <1>2, PlacesAreKept
<1>8. WithTabMoved(Tabs(children, active), from, to) = Tabs(moved, Place(active, from, to))
  BY DEF WithTabMoved, Tabs, Place, moved, rest, tab
<1>9. /\ WithTabMoved(Tabs(children, active), from, to).children = moved
      /\ WithTabMoved(Tabs(children, active), from, to).active = Place(active, from, to)
  BY <1>8 DEF Tabs
<1> QED BY <1>1, <1>2, <1>3, <1>5, <1>6, <1>7, <1>9 DEF tab

\* A tab that is closed in a group of three or more leaves the others as they were,
\* and the tab that was active is the active one still; if it was closed itself, the
\* next one is, or the last.  An active index that no tab had becomes the last one's.
THEOREM TabCloseKeepsActive ==
  ASSUME NEW Node, NEW children \in Seq(Node), Len(children) >= 3,
         NEW active \in Nat \ {0}, NEW i \in 1 .. Len(children)
  PROVE  LET group == Tabs(children, active)
             closed == Followed(WithoutChild(group, i), group, i) IN
         /\ closed.kind = "tabs"
         /\ closed.children \in Seq(Node) /\ Len(closed.children) = Len(children) - 1
         /\ \A j \in 1 .. Len(children) : j # i =>
              closed.children[IF j < i THEN j ELSE j - 1] = children[j]
         /\ closed.active \in 1 .. Len(children) - 1
         /\ i # active /\ active <= Len(children) =>
              closed.children[closed.active] = children[active]
         /\ active > Len(children) => closed.active = Len(children) - 1
         /\ i = active => closed.active = IF i < Len(children) THEN i ELSE i - 1
<1> DEFINE rest == RemoveAt(children, i)
           group == Tabs(children, active)
           closed == Followed(WithoutChild(group, i), group, i)
           shown == IF i < active THEN AtMost(active - 1, Len(rest)) ELSE AtMost(active, Len(rest))
<1>1. /\ rest \in Seq(Node) /\ Len(rest) = Len(children) - 1 /\ Len(children) \in Nat
      /\ \A j \in 1 .. Len(children) - 1 :
           rest[j] = IF j < i THEN children[j] ELSE children[j + 1]
  BY RemovedElements
<1>2. closed = Tabs(rest, shown)
  <2>1. group = [kind |-> "tabs", children |-> children, active |-> active]
    BY DEF Tabs
  <2>2. WithoutChild(group, i) = [kind |-> "tabs", children |-> rest,
                                  active |-> AtMost(active, Len(rest))]
    <3>1. group.children = children /\ group.kind = "tabs"
      BY <2>1
    <3>2. [group EXCEPT !.children = rest]
            = [kind |-> "tabs", children |-> rest, active |-> active]
      BY <2>1
    <3>3. Len(rest) # 1
      BY <1>1
    <3> HIDE DEF group, rest
    <3>4. WithoutChild(group, i) = ClampActive([group EXCEPT !.children = rest])
      BY <3>1, <3>3 DEF WithoutChild, rest
    <3> QED BY <3>2, <3>4 DEF ClampActive
  <2> HIDE DEF group, rest
  <2>3. closed = [kind |-> "tabs", children |-> rest, active |-> shown]
    BY <2>1, <2>2 DEF Followed
  <2> QED BY <2>3 DEF Tabs
<1> HIDE DEF rest
<1>3. /\ Len(children) \in Nat
      /\ active > Len(children) => shown = Len(children) - 1
      /\ active <= Len(children) =>
           shown = IF i < active \/ active = Len(children) THEN active - 1 ELSE active
  <2>1. Len(children) \in Nat /\ Len(rest) = Len(children) - 1
    BY <1>1
  <2> HIDE DEF group
  <2> QED BY <2>1 DEF AtMost
<1>4. \A j \in 1 .. Len(children) : j # i => rest[IF j < i THEN j ELSE j - 1] = children[j]
  BY <1>1
<1>5. shown \in 1 .. Len(children) - 1
  BY <1>3
<1>6. i # active /\ active <= Len(children) => rest[shown] = children[active]
  BY <1>1, <1>3
<1>7. i = active => shown = IF i < Len(children) THEN i ELSE i - 1
  BY <1>3
<1> HIDE DEF closed, shown
<1>8. closed.kind = "tabs" /\ closed.children = rest /\ closed.active = shown
  BY <1>2 DEF Tabs
<1> QED BY <1>1, <1>3, <1>4, <1>5, <1>6, <1>7, <1>8 DEF closed

\* The last tab of a group replaces it.  If it is a group of its own, it loses its
\* active tab to its first one when the closed tab was in front of it and it was the
\* one shown: the code takes it for the group that was there before.
THEOREM LastTabReplacesGroup ==
  ASSUME NEW Node, NEW children \in Seq(Node), Len(children) = 2,
         NEW active \in 1 .. 2, NEW i \in 1 .. 2
  PROVE  LET group == Tabs(children, active)
             other == children[3 - i]
             closed == Followed(WithoutChild(group, i), group, i) IN
         /\ other.kind # "tabs" => closed = other
         /\ \A inner \in Seq(Node), shown \in Nat :
              other = Tabs(inner, shown) /\ shown \in 1 .. Len(inner) =>
                closed = Tabs(inner, IF i = 1 /\ active = 2 THEN 1 ELSE shown)
<1> DEFINE rest == RemoveAt(children, i)
           group == Tabs(children, active)
           other == children[3 - i]
           closed == Followed(WithoutChild(group, i), group, i)
<1>1. Len(rest) = 1 /\ rest[1] = other
  <2>1. /\ Len(rest) = Len(children) - 1
        /\ \A j \in 1 .. Len(children) - 1 :
             rest[j] = IF j < i THEN children[j] ELSE children[j + 1]
    <3>1. i \in 1 .. Len(children)
      OBVIOUS
    <3> QED BY <3>1, RemovedElements
  <2> HIDE DEF rest
  <2>2. rest[1] = IF 1 < i THEN children[1] ELSE children[2]
    BY <2>1
  <2> QED BY <2>1, <2>2
<1>2. group.kind = "tabs" /\ group.children = children /\ group.active = active
  BY DEF Tabs
<1> HIDE DEF group, rest, other
<1>3. WithoutChild(group, i) = other
  BY <1>1, <1>2 DEF WithoutChild, rest
<1>4. closed = IF i < active /\ other.kind = "tabs"
               THEN [other EXCEPT !.active = AtMost(active - 1, Len(other.children))]
               ELSE other
  BY <1>2, <1>3 DEF Followed
<1> HIDE DEF closed
<1>5. ASSUME NEW inner \in Seq(Node), NEW shown \in Nat, other = Tabs(inner, shown),
             shown \in 1 .. Len(inner)
      PROVE  closed = Tabs(inner, IF i = 1 /\ active = 2 THEN 1 ELSE shown)
  <2>1. other = [kind |-> "tabs", children |-> inner, active |-> shown]
    BY <1>5 DEF Tabs
  <2>2. i < active <=> i = 1 /\ active = 2
    OBVIOUS
  <2>3. CASE i < active
    <3>1. AtMost(active - 1, Len(inner)) = 1
      BY <1>5, <2>2, <2>3 DEF AtMost
    <3> QED BY <1>4, <2>1, <2>2, <2>3, <3>1 DEF Tabs
  <2>4. CASE ~(i < active)
    BY <1>4, <1>5, <2>2, <2>4
  <2> QED BY <2>3, <2>4
<1> QED BY <1>4, <1>5 DEF closed, group, other

\* A tab that is dropped into a group is the active one, at the place where it was
\* dropped or behind all others, and these keep their order.
THEOREM TabInsertShowsIt ==
  ASSUME NEW Node, NEW children \in Seq(Node), NEW active \in 1 .. Len(children),
         NEW position \in Nat \ {0}, NEW node \in Node
  PROVE  LET group == WithTab(Tabs(children, active), position, node) IN
         /\ group.children \in Seq(Node) /\ Len(group.children) = Len(children) + 1
         /\ group.active \in 1 .. Len(children) + 1
         /\ group.children[group.active] = node
         /\ position <= Len(children) => group.active = position
         /\ \A j \in 1 .. Len(children) :
              group.children[IF j < group.active THEN j ELSE j + 1] = children[j]
<1> DEFINE at == AtMost(position, Len(children) + 1)
           with == InsertAt(children, at, node)
<1>1. at \in 1 .. Len(children) + 1 /\ (position <= Len(children) => at = position)
  BY DEF AtMost
<1> HIDE DEF at
<1>2. /\ with \in Seq(Node) /\ Len(with) = Len(children) + 1
      /\ \A j \in 1 .. Len(children) + 1 :
           with[j] = IF j < at THEN children[j] ELSE IF j = at THEN node ELSE children[j - 1]
  BY <1>1, InsertedElements
<1> HIDE DEF with
<1>3. \A j \in 1 .. Len(children) : with[IF j < at THEN j ELSE j + 1] = children[j]
  BY <1>1, <1>2
<1>4. WithTab(Tabs(children, active), position, node) = Tabs(with, at)
  BY DEF WithTab, Tabs, with, at
<1>5. /\ WithTab(Tabs(children, active), position, node).children = with
      /\ WithTab(Tabs(children, active), position, node).active = at
  BY <1>4 DEF Tabs
<1> QED BY <1>1, <1>2, <1>3, <1>5

\* Clamping repairs the active tab of a damaged file or of a group that has lost its
\* last tab, and changes no other.
THEOREM ClampRepairs ==
  ASSUME NEW Node, NEW children \in Seq(Node), children # <<>>, NEW active \in Nat \ {0}
  PROVE  LET group == ClampActive(Tabs(children, active)) IN
         /\ group.kind = "tabs" /\ group.children = children
         /\ group.active \in 1 .. Len(children)
         /\ active \in 1 .. Len(children) => group = Tabs(children, active)
<1>1. ClampActive(Tabs(children, active)) = Tabs(children, AtMost(active, Len(children)))
  BY DEF ClampActive, Tabs
<1>2. Len(children) \in Nat \ {0}
  OBVIOUS
<1>3. /\ AtMost(active, Len(children)) \in 1 .. Len(children)
      /\ active \in 1 .. Len(children) => AtMost(active, Len(children)) = active
  BY <1>2 DEF AtMost
<1> QED BY <1>1, <1>3 DEF Tabs

-----------------------------------------------------------------------------
(* Splits *)

\* A split that loses a child keeps its direction and the others in their order, or
\* is replaced by the one that is left.
THEOREM SplitKeepsOthers ==
  ASSUME NEW Node, NEW children \in Seq(Node), NEW direction \in Direction,
         Len(children) >= 2, NEW i \in 1 .. Len(children)
  PROVE  LET left == WithoutChild(Split(direction, children), i) IN
         /\ Len(children) = 2 => left = children[3 - i]
         /\ Len(children) >= 3 =>
              /\ left = Split(direction, left.children)
              /\ left.children \in Seq(Node) /\ Len(left.children) = Len(children) - 1
              /\ \A j \in 1 .. Len(children) : j # i =>
                   left.children[IF j < i THEN j ELSE j - 1] = children[j]
<1> DEFINE rest == RemoveAt(children, i)
           split == [kind |-> "split", direction |-> direction, children |-> children]
           left == WithoutChild(split, i)
<1>1. /\ rest \in Seq(Node) /\ Len(rest) = Len(children) - 1 /\ Len(children) \in Nat
      /\ \A j \in 1 .. Len(children) - 1 :
           rest[j] = IF j < i THEN children[j] ELSE children[j + 1]
  BY RemovedElements
<1>2. left = IF Len(rest) = 1 THEN rest[1]
             ELSE [kind |-> "split", direction |-> direction, children |-> rest]
  BY DEF WithoutChild
<1> HIDE DEF rest, left
<1>3. \A j \in 1 .. Len(children) : j # i => rest[IF j < i THEN j ELSE j - 1] = children[j]
  BY <1>1
<1>4. Len(children) = 2 => left = children[3 - i]
  BY <1>1, <1>2
<1>5. Len(children) >= 3 => left = Split(direction, rest) /\ left.children = rest
  BY <1>1, <1>2 DEF Split
<1>6. WithoutChild(Split(direction, children), i) = left
  BY DEF Split, left
<1> QED BY <1>1, <1>3, <1>4, <1>5, <1>6
=============================================================================
