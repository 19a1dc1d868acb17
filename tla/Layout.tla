------------------------------- MODULE Layout -------------------------------
(* The geometry of one window through docking, moving away, reshaping and    *)
(* giving back: layout.go, eqAssign of equalize.go, leaveLayout and the      *)
(* width of the sidebar of dock.go.                                          *)
(*                                                                           *)
(* A layout is a tree.  Positions follow from sizes and are left out.  tmux  *)
(* itself rescales a window as it likes, in whole cells of at least one.     *)
EXTENDS Integers, Sequences, FiniteSets, FiniteSetsExt, SequencesExt

CONSTANTS
  Shapes,      \* the layouts the user builds, before they have a size
  Sizes,       \* the sizes a client can have: records of x and y
  Counts,      \* what nvim shows: the columns and rows inside each pane
  FirstSize,   \* the size of the client at first
  FirstWidth,  \* the width of the sidebar at first
  Widths,      \* the widths it may be dragged to (18 to 80 in the code)
  MaxMoves,    \* bound: what the user does
  None         \* nothing

ASSUME LayoutAssumption ==
  /\ FirstSize \in Sizes /\ FirstWidth \in Widths /\ Widths \subseteq Nat \ {0}
  /\ \A s \in Sizes : s.x \in Nat /\ s.y \in Nat /\ \A w \in Widths : s.x > w + 2
  /\ MaxMoves \in Nat

-----------------------------------------------------------------------------
(* Cells shared out.                                                         *)

Total(s) == FoldLeft(+, 0, s)
Largest(s) == SelectInSeq(s, LAMBDA n : \A i \in DOMAIN s : s[i] <= n)

\* The largest gives cells up, one at a time, until the sum fits or all are one.
RECURSIVE Trimmed(_, _)
Trimmed(s, avail) ==
  IF Total(s) <= avail \/ s[Largest(s)] <= 1 THEN s
  ELSE Trimmed([s EXCEPT ![Largest(s)] = @ - 1], avail)

\* Largest remainders.  The code compares them in floating point, where equal ones
\* may come in any order.
Remainders(weights, avail) ==
  LET sum  == Total(weights)
      rem  == [i \in DOMAIN weights |-> (avail * weights[i]) % sum]
      base == [i \in DOMAIN weights |-> Max({1, (avail * weights[i]) \div sum})]
      short == avail - Total(base)
  IN  IF short < 0 THEN {Trimmed(base, avail)}
      ELSE {[i \in DOMAIN base |-> base[i] + IF i \in more THEN 1 ELSE 0] :
              more \in {m \in kSubset(short, DOMAIN base) :
                          \A i \in m, j \in DOMAIN base \ m : rem[i] >= rem[j]}}

apportion(old, avail) ==
  IF avail < Len(old) THEN {[i \in DOMAIN old |-> 1]} ELSE Remainders(old, avail)

eqAllocate(total, weights) == Remainders(weights, Max({total, Len(weights)}))

-----------------------------------------------------------------------------
(* Trees.                                                                    *)

Leaf(p) == [kind |-> "leaf", pane |-> p, size |-> [x |-> 1, y |-> 1], kids |-> <<>>]
Row(ks) == [kind |-> "x", pane |-> "", size |-> [x |-> 1, y |-> 1], kids |-> ks]
Column(ks) == [Row(ks) EXCEPT !.kind = "y"]

SideBar(w, h) == [Leaf("side") EXCEPT !.size = [x |-> w, y |-> h]]

Along(n, axis) == [i \in DOMAIN n.kids |-> n.kids[i].size[axis]]
Resized(n, axis, to, kids) == [n EXCEPT !.size[axis] = to, !.kids = kids]

\* The sequences with one element of each of a sequence of sets.
OneOfEach(sets) == FoldLeft(LAMBDA acc, S : {Append(a, e) : a \in acc, e \in S}, {<<>>}, sets)

\* Every pane has a cell, siblings fill their parent with a border between two.
RECURSIVE Tiles(_)
Tiles(n) ==
  /\ n.size.x > 0 /\ n.size.y > 0
  /\ \A i \in DOMAIN n.kids : Tiles(n.kids[i])
  /\ n.kind # "leaf" =>
       LET across == IF n.kind = "x" THEN "y" ELSE "x"
       IN  /\ Total(Along(n, n.kind)) + Len(n.kids) - 1 = n.size[n.kind]
           /\ \A i \in DOMAIN n.kids : n.kids[i].size[across] = n.size[across]

RECURSIVE Compositions(_, _)
Compositions(n, k) ==
  IF k = 1 THEN {<<n>>}
  ELSE UNION {{<<m>> \o c : c \in Compositions(n - m, k - 1)} : m \in 1..(n - k + 1)}

\* The ways to lay a tree out in so many cells.
RECURSIVE Tilings(_, _, _)
Tilings(n, axis, to) ==
  IF n.kind = axis
  THEN UNION {{Resized(n, axis, to, ks) :
                 ks \in OneOfEach([i \in DOMAIN n.kids |-> Tilings(n.kids[i], axis, c[i])])} :
                c \in Compositions(to - Len(n.kids) + 1, Len(n.kids))}
  ELSE {Resized(n, axis, to, ks) :
          ks \in OneOfEach([i \in DOMAIN n.kids |-> Tilings(n.kids[i], axis, to)])}

\* Every pane is at least two columns wide.
RECURSIVE Broad(_)
Broad(n) == n.size.x >= 2 /\ \A i \in DOMAIN n.kids : Broad(n.kids[i])

\* One tree has the shape of the other and, in every row, each of its columns is within
\* a cell of its share; so for heights.
RECURSIVE Similar(_, _)
Similar(n, m) ==
  LET a == Along(n, n.kind)  b == Along(m, m.kind)
  IN  n.kind = "leaf" \/
      /\ \A i \in DOMAIN a : LET off == a[i] * Total(b) - b[i] * Total(a)
                             IN  -Total(b) < off /\ off < Total(b)
      /\ \A i \in DOMAIN a : Similar(n.kids[i], m.kids[i])

\* tmux rescales about in proportion, in its own way of rounding.
Rescaled(n, axis, to) ==
  LET free == Tilings(n, axis, to)
      near == {m \in free : Similar(m, n)}
  IN  IF near = {} THEN free ELSE near

Fitted(n, s) == UNION {Rescaled(m, "y", s.y) : m \in Rescaled(n, "x", s.x)}

\* scaleX and scaleY.
RECURSIVE Scaled(_, _, _)
Scaled(n, axis, to) ==
  IF n.kind = axis
  THEN UNION {{Resized(n, axis, to, ks) :
                 ks \in OneOfEach([i \in DOMAIN n.kids |-> Scaled(n.kids[i], axis, s[i])])} :
                s \in apportion(Along(n, axis), to - Len(n.kids) + 1)}
  ELSE {Resized(n, axis, to, ks) :
          ks \in OneOfEach([i \in DOMAIN n.kids |-> Scaled(n.kids[i], axis, to)])}

\* How many columns, or rows, a subtree shows.
RECURSIVE eqWeight(_, _, _)
eqWeight(n, axis, count) ==
  LET each == [i \in DOMAIN n.kids |-> eqWeight(n.kids[i], axis, count)]
  IN  IF n.pane \in DOMAIN count THEN count[n.pane][axis]
      ELSE IF n.kind = "leaf" THEN 1
      ELSE IF n.kind = axis THEN Total(each)
      ELSE Max(Range(each))

RECURSIVE eqAssign(_, _, _, _)
eqAssign(n, axis, to, count) ==
  IF n.kind = axis
  THEN LET weights == [i \in DOMAIN n.kids |-> eqWeight(n.kids[i], axis, count)]
       IN  UNION {{Resized(n, axis, to, ks) :
                     ks \in OneOfEach([i \in DOMAIN n.kids |-> eqAssign(n.kids[i], axis, s[i], count)])} :
                    s \in eqAllocate(to - Len(n.kids) + 1, weights)}
  ELSE {Resized(n, axis, to, ks) :
          ks \in OneOfEach([i \in DOMAIN n.kids |-> eqAssign(n.kids[i], axis, to, count)])}

Equalized(n, count) ==
  UNION {eqAssign(m, "y", n.size.y, count) : m \in eqAssign(n, "x", n.size.x, count)}

-----------------------------------------------------------------------------
(* The window, and what winch knows of it.                                   *)

VARIABLES
  client,   \* the size of the client
  tree,     \* the layout of the window, with what winch has put in
  held,     \* what stands at its left edge: nothing, the sidebar, a spacer
  dirty,    \* @winch_layout_dirty
  snap,     \* the layout to give back (winSnap, carveState.orig)
  width,    \* dockW: the width of the sidebar
  hostW,    \* the window's width when the dock last looked
  moves,    \* bound: what the user has done
  \* history
  reshaped, \* where the user has equalized the window since it was taken
  stale,    \* the mark is left over from a dock that ended without an undock
  gave,     \* the docked layout that was last given back, while nothing has changed since
  dragged,  \* the sidebar's border was dragged, and the dock has not looked since
  drift     \* its pane has been rescaled, and the width of the window does not show it

vars == <<client, tree, held, dirty, snap, width, hostW, moves, reshaped, stale, gave, dragged, drift>>

Laid(n, s) == UNION {Tilings(m, "y", s.y) : m \in Tilings(n, "x", s.x)}

\* Bound: at first no pane is a single column.
Init ==
  /\ client = FirstSize
  /\ \E n \in Shapes : tree \in {m \in Laid(n, client) : Broad(m)}
  /\ held = None /\ snap = None /\ gave = None /\ reshaped = {}
  /\ width = FirstWidth /\ hostW = client.x /\ moves = 0
  /\ dirty = FALSE /\ stale = FALSE /\ dragged = FALSE /\ drift = FALSE

-----------------------------------------------------------------------------
(* The column at the left edge.                                              *)

\* split-window -hb -f: beside a row that is the root, or beside the root in a new row.
WithSide(n, w) ==
  LET s == SideBar(w, n.size.y)
      r == IF n.kind = "x" THEN [n EXCEPT !.kids = <<s>> \o @] ELSE Row(<<s, n>>)
  IN  [r EXCEPT !.size = [x |-> n.size.x + w + 1, y |-> n.size.y]]

\* sansSidebar, before it rescales: the root without the column, which is gone when one
\* child remains.
Mains(n) == IF Len(n.kids) = 2 THEN n.kids[2] ELSE [n EXCEPT !.kids = Tail(@)]
SideWidth == tree.kids[1].size.x

sansSidebar(n) == Scaled(Mains(n), "x", n.size.x)

\* Mutant: the layout is replayed as it was saved.
Unfitted(n, s) == {n}

\* A layout already of that size is left as it is.
fitLayout(n, s) ==
  IF n.size = s THEN {n} ELSE UNION {Scaled(m, "y", s.y) : m \in Scaled(n, "x", s.x)}

\* tmux refuses a layout that does not add up, and expands into the hole as it likes.
Lands(n, free) == IF Tiles(n) THEN {n} ELSE free

\* Split as tmux does it: the rest gets narrower somehow.
Split(n) == {WithSide(m, width) : m \in Rescaled(n, "x", n.size.x - width - 1)}

\* Mutant: the split is left as tmux makes it.
Unpinned(n) == Split(n)

\* dockOpen pins what is left to the widths that scaleX gives.
Pinned(n) ==
  UNION {Lands(WithSide(m, width), Split(n)) : m \in Scaled(n, "x", n.size.x - width - 1)}

\* leaveLayout, and the line that applies it.
GivenBack ==
  UNION {Lands(n, Laid(Mains(tree), tree.size)) :
           n \in UNION {fitLayout(s, tree.size) : s \in IF dirty THEN sansSidebar(tree) ELSE {snap}}}

-----------------------------------------------------------------------------
(* The dock comes and goes.                                                  *)

\* dockOpen, in the window the client looks at.
DockOpen ==
  /\ held = None /\ tree.size = client
  /\ Split(tree) # {}
  /\ held' = "sidebar" /\ snap' = tree /\ tree' \in Pinned(tree)
  /\ hostW' = client.x /\ reshaped' = {} /\ stale' = dirty /\ dragged' = FALSE /\ drift' = FALSE
  /\ gave' = None
  /\ UNCHANGED <<client, dirty, width, moves>>

\* A window is taken while the dock is in another: for its billboard, or by dockMove,
\* in a line that first resizes it.  A billboard's carve saves the layout it then has.
Take(what) ==
  /\ held = None
  /\ \E n \in IF tree.size = client THEN {tree} ELSE Fitted(tree, client) :
       /\ tree' \in Split(n)
       /\ snap' = IF what = "spacer" THEN n ELSE tree
  /\ held' = what /\ reshaped' = {} /\ stale' = dirty /\ gave' = None
  /\ hostW' \in {hostW, client.x} /\ dragged' = FALSE /\ drift' = (hostW' # client.x)
  /\ UNCHANGED <<client, dirty, width, moves>>

\* dockMove away: the spacer takes the place of the sidebar.
Leave ==
  /\ held = "sidebar" /\ held' = "spacer"
  /\ UNCHANGED <<client, tree, dirty, snap, width, hostW, moves, reshaped, stale, gave, dragged, drift>>

\* dockMove to a window that has a spacer; tmux resizes it when the client arrives.
Enter ==
  /\ held = "spacer" /\ held' = "sidebar"
  /\ tree' \in IF tree.size = client THEN {tree} ELSE Fitted(tree, client)
  /\ hostW' \in {hostW, client.x}
  /\ dragged' = FALSE /\ drift' = (drift \/ SideWidth # width \/ tree.size # client)
  /\ gave' = None
  /\ UNCHANGED <<client, dirty, snap, width, moves, reshaped, stale>>

\* dockClose where it is, or at the window it came from, and releaseOne.
GiveBack ==
  /\ held # None /\ held' = None
  /\ tree' \in GivenBack /\ snap' = None /\ dirty' = FALSE
  /\ gave' = IF dirty /\ held = "sidebar" THEN tree ELSE None
  /\ UNCHANGED <<client, width, hostW, moves, reshaped, stale, dragged, drift>>

\* The pane is gone without an undock: its user closed it, or a new daemon swept it.
\* What is next to it takes its cells.
Abandon ==
  /\ held # None /\ moves < MaxMoves /\ moves' = moves + 1
  /\ held' = None /\ snap' = None /\ gave' = None
  /\ tree' \in {n \in Tilings(Mains(tree), "x", tree.size.x) :
                  Mains(tree).kind = "x" =>
                    \A i \in 2..Len(n.kids) : n.kids[i] = Mains(tree).kids[i]}
  /\ UNCHANGED <<client, dirty, width, hostW, reshaped, stale, dragged, drift>>

-----------------------------------------------------------------------------
(* The user reshapes.                                                        *)

\* equalizeWindow.  Only a pane marked @winch_sidebar is left as it is and leaves the mark.
Equalize ==
  /\ moves < MaxMoves /\ moves' = moves + 1
  /\ \E count \in Counts :
       IF held = "sidebar"
       THEN LET main == [Row(Tail(tree.kids)) EXCEPT !.size = [x |-> tree.size.x - SideWidth - 1, y |-> tree.size.y]]
            IN  tree' \in UNION {Lands([tree EXCEPT !.kids = <<Head(@)>> \o n.kids],
                                       {m \in Laid(tree, tree.size) : m.kids[1] = tree.kids[1]}) :
                                   n \in Equalized(main, count)}
       ELSE tree' \in UNION {Lands(n, Laid(tree, tree.size)) : n \in Equalized(tree, count)}
  /\ dirty' = (dirty \/ held = "sidebar")
  /\ reshaped' = IF held = None THEN reshaped ELSE reshaped \union {held}
  /\ gave' = None
  /\ UNCHANGED <<client, held, snap, width, hostW, stale, dragged, drift>>

\* A border is dragged by hand: the sidebar's or another.
Drag ==
  /\ moves < MaxMoves /\ moves' = moves + 1
  /\ held # "spacer"
  /\ tree' \in {n \in Tilings(tree, "x", tree.size.x) \ {tree} :
                  \E b \in 1..(Len(tree.kids) - 1) :
                    \A i \in DOMAIN tree.kids \ {b, b + 1} : n.kids[i] = tree.kids[i]}
  /\ dragged' = (dragged \/ (held = "sidebar" /\ tree'.kids[1] # tree.kids[1]))
  /\ gave' = None
  /\ UNCHANGED <<client, held, dirty, snap, width, hostW, reshaped, stale, drift>>

\* The client changes its size; a window that it looks at changes with it.
Resize ==
  /\ moves < MaxMoves /\ moves' = moves + 1
  /\ client' \in Sizes \ {client}
  /\ IF held = "sidebar" THEN tree' \in Fitted(tree, client') ELSE tree' = tree
  /\ drift' = (drift \/ (held = "sidebar" /\ client'.x = hostW))
  /\ gave' = None
  /\ UNCHANGED <<held, dirty, snap, width, hostW, reshaped, stale, dragged>>

\* The client comes to look at a window that has kept an old size.
View ==
  /\ held = None /\ tree.size # client
  /\ tree' \in Fitted(tree, client) /\ gave' = None
  /\ UNCHANGED <<client, held, dirty, snap, width, hostW, moves, reshaped, stale, dragged, drift>>

-----------------------------------------------------------------------------
(* The width of the sidebar: the end of checkDock, the command "winch".      *)

SideAt(w) == {n \in Tilings(tree, "x", tree.size.x) : n.kids[1].size.x = w}

\* Mutant: whatever width the pane has is taken for the user's.
AdoptsWhatever ==
  /\ held = "sidebar" /\ (tree.size.x # hostW \/ SideWidth # width)
  /\ IF SideWidth \in Widths
     THEN width' = SideWidth /\ UNCHANGED tree
     ELSE UNCHANGED width /\ IF SideWidth = width THEN UNCHANGED tree ELSE tree' \in SideAt(width)
  /\ hostW' = tree.size.x /\ dragged' = FALSE /\ drift' = FALSE
  /\ gave' = None
  /\ UNCHANGED <<client, held, dirty, snap, moves, reshaped, stale>>

CheckWidth ==
  /\ held = "sidebar" /\ (tree.size.x # hostW \/ SideWidth # width)
  /\ IF tree.size.x = hostW /\ SideWidth \in Widths
     THEN width' = SideWidth /\ UNCHANGED tree
     ELSE UNCHANGED width /\ IF SideWidth = width THEN UNCHANGED tree ELSE tree' \in SideAt(width)
  /\ hostW' = tree.size.x /\ dragged' = FALSE /\ drift' = FALSE
  /\ gave' = None
  /\ UNCHANGED <<client, held, dirty, snap, moves, reshaped, stale>>

Next ==
  \/ DockOpen \/ Leave \/ Enter \/ GiveBack \/ Abandon
  \/ \E what \in {"sidebar", "spacer"} : Take(what)
  \/ Equalize \/ Drag \/ Resize \/ View
  \/ CheckWidth

Spec == Init /\ [][Next]_vars

-----------------------------------------------------------------------------
(* Properties.                                                               *)

TypeOK ==
  /\ client \in Sizes /\ tree.size \in Sizes /\ Tiles(tree)
  /\ held \in {None, "sidebar", "spacer"} /\ (snap = None) = (held = None)
  /\ width \in Widths /\ hostW \in {s.x : s \in Sizes} /\ moves \in 0..MaxMoves
  /\ {dirty, stale, dragged, drift} \subseteq BOOLEAN
  /\ reshaped \subseteq {"sidebar", "spacer"}

\* A docked layout that was given back in proportion, since the user had made it so,
\* comes back to the column with the next dock (dock.go:735-740), if no pane is a
\* single column.
RoundTrip ==
  [][gave # None /\ DockOpen /\ gave.size = client /\ gave.kids[1].size.x = width
       /\ Broad(gave) => tree' = gave]_vars

\* Exact to the column with panes of one column, too (dock.go:737-740).
ToTheColumn ==
  [][gave # None /\ DockOpen /\ gave.size = client /\ gave.kids[1].size.x = width
       => tree' = gave]_vars

Restored == IF reshaped = {} /\ snap.size = tree.size THEN tree' = snap
            ELSE tree'.size = tree.size /\ Similar(tree', IF reshaped = {} THEN snap ELSE Mains(tree))

GivingBack == held # None /\ held' = None /\ moves' = moves
Wide == Broad(snap) /\ Broad(Mains(tree)) /\ Broad(tree')

\* A window is given back in its present size, as it was when it was taken, to the cell
\* if that was its size; or in the proportions its user has given it beside the sidebar.
GivesBack ==
  [][GivingBack /\ Wide /\ ~stale /\ "spacer" \notin reshaped => Restored]_vars

\* Wherever in winch's hands the user has equalized it (dock.go:47-50).
EqualizeKept == [][GivingBack /\ Wide /\ ~stale => Restored]_vars

\* The sidebar's width is changed by a drag of its border, not by what a resize has
\* done to its pane (dock.go:1744-1747), unless the dock had no way to tell.
WidthIsChosen == [][width' # width => dragged \/ drift]_vars

\* However the client's size has changed (dock.go:1744-1747).
DriftIsUndone == [][width' # width => dragged]_vars
=============================================================================
