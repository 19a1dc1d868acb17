------------------------------ MODULE JumpList ------------------------------
(***************************************************************************)
(* The jumplist (jumplist.go): per client, the windows it was in and the   *)
(* place in that history it has walked back to.                            *)
(*                                                                         *)
(* The daemon learns where a client is from re-lists, which run some time  *)
(* after the change; a jump re-lists first, then moves the client, by      *)
(* tmux's own commands or with the dock, and tmux may have changed again.  *)
(* The dock is here what a jump can tell of it: the window it is in.       *)
(***************************************************************************)
EXTENDS Naturals, Sequences

CONSTANTS
  Client, Session, Window,
  SessOf,      \* the session of each window
  Pane,        \* panes that may move and die; a window also has one of its name
  None,
  Own,         \* a pane of winch: the sidebar or a spacer
  JumpCap,     \* jumpCap (100 in the code)
  MaxChanges   \* bound on the changes made by users

\* jumpLoc, jumpList, the part of dockState that a jump asks for, and a step taken.
Entry   == [win : Window, pane : Pane \cup Window \cup {None, Own}]
History == [locs : Seq(Entry), cur : 1..JumpCap]
DockAt  == [client : Client, win : Window]
Going   == [client : Client, was : 1..JumpCap, to : Entry]

ASSUME JumpListAssumption ==
  /\ SessOf \in [Window -> Session] /\ JumpCap \in Nat \ {0, 1} /\ MaxChanges \in Nat
  /\ None \notin Client \cup Session \cup Window \cup Pane
  /\ Own \notin Window \cup Pane \cup {None}
  /\ None \notin History /\ None \notin DockAt /\ None \notin Going

VARIABLES
  alive,     \* the windows there are
  home,      \* the window of each pane, or None: it has died
  actw,      \* the active window of each session, or None: there is no such session
  actp,      \* the active pane of each window
  on,        \* the session each client is attached to, or None
  changes,   \* number of changes made by users
  dock,      \* d.dock: its client and window, or None
  lists,     \* d.jumps.lists: for each client its history, or None
  enabled,   \* d.jumps.on
  going,     \* a jump under way: the client, where its history was, the target
  fresh,     \* history: the clients nobody has moved, but by a jump of their own, since a
             \* re-list found them, and the dock, in step
  kept       \* history: the last pane each client was seen in, for each window

tmux == <<alive, home, actw, actp, on>>
vars == <<tmux, changes, dock, lists, enabled, going, fresh, kept>>

-----------------------------------------------------------------------------
Living   == {s \in Session : actw[s] # None}
Where(c) == IF on[c] = None THEN None ELSE actw[on[c]]
Home(p)  == IF p \in Window THEN p ELSE home[p]
HasPane(p, w) == p \in Pane \cup Window /\ Home(p) = w

Wins(l) == {l.locs[i].win : i \in DOMAIN l.locs}
Here(l) == l.locs[l.cur]
Empty   == [locs |-> <<>>, cur |-> 0]

\* What is left of the first entries of a history without those of some windows.
Rest(l, gone) ==
  LET upto[i \in 0..Len(l.locs)] ==
        IF i = 0 THEN <<>>
        ELSE IF l.locs[i].win \in gone THEN upto[i - 1]
        ELSE Append(upto[i - 1], l.locs[i])
  IN  upto

\* remove, of the entries of some windows: the place stays on its entry, or falls
\* back to the one before.
Removed(l, gone) ==
  LET rest   == Rest(l, gone)[Len(l.locs)]
      before == Len(Rest(l, gone)[l.cur])
  IN  [locs |-> rest, cur |-> IF before = 0 /\ rest # <<>> THEN 1 ELSE before]

\* prune: an entry forgets a pane that has gone.
Checked(e) == IF HasPane(e.pane, e.win) THEN e ELSE [e EXCEPT !.pane = None]

Prune(l) ==
  LET left == Removed(l, Window \ alive)
  IN  [left EXCEPT !.locs = [i \in DOMAIN left.locs |-> Checked(left.locs[i])]]

\* The newest entries of a history, at the last of them.
Newest(locs) ==
  LET n == IF Len(locs) > JumpCap THEN JumpCap ELSE Len(locs)
  IN  [locs |-> SubSeq(locs, Len(locs) - n + 1, Len(locs)), cur |-> n]

Refresh(l, loc) ==
  IF loc.pane = None THEN l ELSE [l EXCEPT !.locs[l.cur].pane = loc.pane]

\* A blank pane is that of the older copy of the window, if there is one.
Inherit(l, loc) ==
  IF loc.pane # None \/ loc.win \notin Wins(l) THEN loc
  ELSE CHOOSE e \in {l.locs[i] : i \in DOMAIN l.locs} : e.win = loc.win

\* Mutant: the entries after the place are cut, as a stack does.
JumpStack(l, loc) ==
  Newest(SelectSeq(SubSeq(l.locs, 1, l.cur), LAMBDA e : e.win # loc.win) \o <<Inherit(l, loc)>>)

\* Mutant: the entry that is left stays where it is.
JumpAway(l, loc) == Newest(Removed(l, {loc.win}).locs \o <<Inherit(l, loc)>>)

\* Mutant: an older copy goes with what it remembers.
JumpAfresh(l, loc) == Newest(Removed(l, {Here(l).win, loc.win}).locs \o <<Here(l), loc>>)

\* The entry that is left moves to the end, and the new one follows it.
Jump(l, loc) ==
  Newest(Removed(l, {Here(l).win, loc.win}).locs \o <<Here(l), Inherit(l, loc)>>)

Arrive(l, loc) ==
  IF l.locs = <<>> THEN Newest(<<loc>>)
  ELSE IF Here(l).win = loc.win THEN Refresh(l, loc)
  ELSE Jump(l, loc)

\* jumpLocOf: the panes of the dock d leave the pane blank.
Loc(c, d) == [win |-> Where(c), pane |-> IF actp[Where(c)] = Own /\ d # None THEN None
                                         ELSE actp[Where(c)]]

\* recordJumps, with the world of this moment and the dock d.
Recorded(d) ==
  [c \in Client |->
     IF on[c] = None THEN None
     ELSE Arrive(Prune(IF lists[c] = None THEN Empty ELSE lists[c]), Loc(c, d))]

Remembers(new, d) ==
  kept' = [c \in Client |-> [w \in Window |->
    IF ~(new[c] # None /\ w \in Wins(new[c])) THEN None
    ELSE IF w = Where(c) /\ Loc(c, d).pane # None THEN Loc(c, d).pane
    ELSE IF HasPane(kept[c][w], w) THEN kept[c][w] ELSE None]]

Record(d) ==
  IF enabled THEN lists' = Recorded(d) /\ Remembers(lists', d) ELSE UNCHANGED <<lists, kept>>

-----------------------------------------------------------------------------
Init ==
  /\ alive = Window /\ home \in [Pane -> Window]
  /\ actw \in {a \in [Session -> Window] : \A s \in Session : SessOf[a[s]] = s}
  /\ actp = [w \in Window |-> w]
  /\ on \in [Client -> Session] /\ changes = 0
  /\ dock = None /\ lists = [c \in Client |-> None] /\ enabled = TRUE /\ going = None
  /\ fresh = {} /\ kept = [c \in Client |-> [w \in Window |-> None]]

\* The panes of a dock that goes go with it.
Without == [w \in Window |-> IF actp[w] = Own THEN w ELSE actp[w]]

\* A re-list: checkDock drops the dock, or follows its client unless that fails, and
\* then the world it was called with is recorded.
Relist ==
  /\ going = None
  /\ dock' \in IF dock # None /\ on[dock.client] # None /\ dock.win \in alive
               THEN {dock, [dock EXCEPT !.win = Where(dock.client)]} ELSE {None}
  /\ actp' = IF dock' = None THEN Without ELSE actp
  /\ Record(dock')
  /\ fresh' = {c \in Client : dock' # None /\ dock'.client = c => dock'.win = Where(c)}
  /\ UNCHANGED <<alive, home, actw, on, changes, enabled, going>>

Step(c, back) == IF back THEN Recorded(dock)[c].cur - 1 ELSE Recorded(dock)[c].cur + 1
Ends(c, back) == ~(on[c] # None /\ Step(c, back) \in DOMAIN Recorded(dock)[c].locs)

\* A jump up to the commands it sends, and one at an end of the history.
JumpSteps(c, back) ==
  /\ going = None /\ enabled /\ ~Ends(c, back)
  /\ LET l == Recorded(dock)[c]
     IN  /\ lists' = [Recorded(dock) EXCEPT ![c].cur = Step(c, back)]
         /\ going' = [client |-> c, was |-> l.cur, to |-> l.locs[Step(c, back)]]
  /\ Remembers(lists', dock)
  /\ UNCHANGED <<tmux, changes, dock, enabled, fresh>>

JumpEnds(c, back) ==
  /\ going = None /\ enabled /\ Ends(c, back) /\ Record(dock)
  /\ UNCHANGED <<tmux, changes, dock, enabled, going, fresh>>

\* Mutant: the place in the history is not put back.
UndoneNot(l, was) == l

\* What a jump that failed makes of the history.
Undone(l, was) == [l EXCEPT !.cur = was]

\* Whoever else is in the session of w is taken along.
Drags(c, w) == fresh' = {d \in fresh : d = c \/ on[d] # SessOf[w]}

Lands == going' = None /\ UNCHANGED lists
Fails ==
  /\ going' = None
  /\ lists' = [lists EXCEPT ![going.client] = Undone(@, going.was)]

\* The client that jumps is the one the dock is for.
Docked == dock # None /\ going # None /\ dock.client = going.client

\* The client shows window w of its session, and with a pane that one is active.
Shows(w, p) ==
  /\ actw' = [actw EXCEPT ![SessOf[w]] = w]
  /\ actp' = IF p = None THEN actp ELSE [actp EXCEPT ![Home(p)] = p]

\* The three commands of an undocked jump, up to the first that fails.
JumpMoves ==
  /\ going # None /\ ~Docked
  /\ LET c == going.client  w == going.to.win  p == going.to.pane
     IN  \/ /\ ~(on[c] # None /\ SessOf[w] \in Living)
            /\ Fails /\ UNCHANGED <<tmux, fresh>>
         \/ /\ on[c] # None /\ SessOf[w] \in Living /\ w \notin alive
            /\ on' = [on EXCEPT ![c] = SessOf[w]]
            /\ Fails /\ UNCHANGED <<alive, home, actw, actp, fresh>>
         \/ /\ on[c] # None /\ w \in alive /\ Drags(c, w)
            /\ on' = [on EXCEPT ![c] = SessOf[w]]
            /\ IF p # None /\ ~(p # Own /\ Home(p) \in alive)
               THEN Shows(w, None) /\ Fails
               ELSE Shows(w, p) /\ Lands
            /\ UNCHANGED <<alive, home>>
  /\ UNCHANGED <<changes, dock, enabled, kept>>

\* A docked jump is a move of the dock, or the end of a scrub: neither moves the client
\* when the dock is there already, and it changes session when the dock does.
JumpDocks ==
  /\ going # None /\ Docked
  /\ LET c == going.client  w == going.to.win  p == going.to.pane
     IN  \/ /\ w = dock.win
            /\ actp' \in {actp, IF HasPane(p, w) THEN [actp EXCEPT ![w] = p] ELSE actp}
            /\ Lands \/ Fails
            /\ UNCHANGED <<alive, home, actw, on, dock, fresh>>
         \/ w # dock.win /\ Fails /\ UNCHANGED <<tmux, dock, fresh>>
         \/ /\ w # dock.win /\ w \in alive /\ on[c] # None /\ Drags(c, w)
            /\ dock' = [dock EXCEPT !.win = w]
            /\ on' = IF SessOf[w] # SessOf[dock.win] THEN [on EXCEPT ![c] = SessOf[w]] ELSE on
            /\ Shows(w, IF HasPane(p, w) THEN p ELSE None) /\ Lands
            /\ UNCHANGED <<alive, home>>
  /\ UNCHANGED <<changes, enabled, kept>>

-----------------------------------------------------------------------------
(* Commands that dock and undock, a reload of the configuration, and users.  *)

Dock(c) ==
  /\ going = None /\ dock = None /\ on[c] # None
  /\ dock' = [client |-> c, win |-> Where(c)]
  /\ UNCHANGED <<tmux, changes, lists, enabled, going, fresh, kept>>

Undock ==
  /\ going = None /\ dock # None
  /\ dock' = None /\ actp' = Without
  /\ UNCHANGED <<alive, home, actw, on, changes, lists, enabled, going, fresh, kept>>

\* loadJumplist
LoadJumplist ==
  /\ going = None /\ enabled' = ~enabled
  /\ IF enabled THEN /\ lists' = [c \in Client |-> None]
                     /\ kept' = [c \in Client |-> [w \in Window |-> None]]
     ELSE UNCHANGED <<lists, kept>>
  /\ fresh' = {}
  /\ UNCHANGED <<tmux, changes, dock, going>>

User ==
  /\ changes < MaxChanges /\ changes' = changes + 1 /\ fresh' = {}
  /\ UNCHANGED <<dock, lists, enabled, going, kept>>

SelectsWindow(w) ==
  /\ User /\ w \in alive /\ actw' = [actw EXCEPT ![SessOf[w]] = w]
  /\ UNCHANGED <<alive, home, actp, on>>

\* The sidebar can be selected where it is.
SelectsPane(p) ==
  /\ User
  /\ LET w == IF p # Own THEN Home(p) ELSE IF dock # None THEN dock.win ELSE None
     IN  w \in alive /\ actp' = [actp EXCEPT ![w] = p]
  /\ UNCHANGED <<alive, home, actw, on>>

Attaches(c, s) ==
  /\ User /\ on[c] # s /\ s \in {None} \cup Living
  /\ on' = [on EXCEPT ![c] = s] /\ UNCHANGED <<alive, home, actw, actp>>

\* A pane dies, or moves to another window.
PaneGoes(p, w) ==
  /\ User /\ home[p] \notin {None, w} /\ w \in alive \cup {None}
  /\ actp' = [actp EXCEPT ![home[p]] = IF @ = p THEN home[p] ELSE @]
  /\ home' = [home EXCEPT ![p] = w] /\ UNCHANGED <<alive, actw, on>>

\* A window dies with its panes; a session without windows leaves its clients to
\* another one, or to none.
WindowDies(w) ==
  /\ User /\ w \in alive /\ alive' = alive \ {w}
  /\ home' = [p \in Pane |-> IF home[p] = w THEN None ELSE home[p]]
  /\ LET s    == SessOf[w]
         left == {x \in alive' : SessOf[x] = s}
     IN  /\ \E x \in IF left = {} THEN {None} ELSE left :
              actw' = [actw EXCEPT ![s] = IF @ = w THEN x ELSE @]
         /\ \E t \in {None} \cup (IF left = {} THEN Living \ {s} ELSE {}) :
              on' = [c \in Client |-> IF on[c] = s /\ left = {} THEN t ELSE on[c]]
  /\ UNCHANGED actp

Next ==
  \/ Relist \/ JumpMoves \/ JumpDocks \/ Undock \/ LoadJumplist
  \/ \E c \in Client : Dock(c) \/ \E back \in BOOLEAN : JumpSteps(c, back) \/ JumpEnds(c, back)
  \/ \E w \in Window : SelectsWindow(w) \/ WindowDies(w)
  \/ \E p \in Pane \cup Window \cup {Own} : SelectsPane(p)
  \/ \E c \in Client, s \in Session \cup {None} : Attaches(c, s)
  \/ \E p \in Pane, w \in Window \cup {None} : PaneGoes(p, w)

Spec == Init /\ [][Next]_vars

-----------------------------------------------------------------------------
TypeOK ==
  /\ alive \subseteq Window /\ home \in [Pane -> Window \cup {None}]
  /\ actw \in [Session -> Window \cup {None}]
  /\ actp \in [Window -> Pane \cup Window \cup {Own}]
  /\ on \in [Client -> Session \cup {None}] /\ changes \in 0..MaxChanges
  /\ dock \in {None} \cup DockAt /\ going \in {None} \cup Going
  /\ lists \in [Client -> {None} \cup History]
  /\ \A c \in Client : lists[c] # None =>
       Len(lists[c].locs) <= JumpCap /\ lists[c].cur <= Len(lists[c].locs)
  /\ kept \in [Client -> [Window -> Pane \cup Window \cup {None, Own}]]
  /\ enabled \in BOOLEAN /\ fresh \subseteq Client

\* Histories have each window once, however often it is visited or moved to the end.
NoDuplicates ==
  \A c \in Client : lists[c] # None =>
    \A i, j \in DOMAIN lists[c].locs : lists[c].locs[i].win = lists[c].locs[j].win => i = j

\* Between jumps the place in the history is where the client is, unless somebody
\* else has moved it since the last re-list: jumps, failed or not, keep the two together.
PlaceIsWhere ==
  going = None =>
    \A c \in fresh : lists[c] # None => on[c] # None /\ Here(lists[c]).win = Where(c)

\* An entry returns to the last pane its client was seen in there, if that is still
\* in the window: not when the window is moved, or visited in a pane of winch.
PaneRemembered ==
  \A c \in Client : lists[c] # None =>
    \A i \in DOMAIN lists[c].locs :
      LET e == lists[c].locs[i] IN e.pane = kept[c][e.win]

\* After a jump elsewhere, going back returns to where the client was, whatever the
\* place in the history it had walked to.
BackReturns ==
  [][\A c \in Client :
       (lists[c] # None /\ lists'[c] # None /\ going = None /\ going' = None) =>
         LET l == lists[c]  new == lists'[c]
         IN  Here(new).win # Here(l).win /\ Here(l).win \in alive
               => new.cur > 1 /\ new.locs[new.cur - 1].win = Here(l).win]_vars

\* Window v has an entry after that of window u.
Follows(l, u, v) ==
  \E i, j \in DOMAIN l.locs : i < j /\ l.locs[i].win = u /\ l.locs[j].win = v

\* Entries are lost to the death of their window or to the cap, the oldest first, and
\* else only change order by what the client leaves and where it arrives.  (One whose
\* window has died under it leaves the entry before.)
RestKept ==
  [][\A c \in Client :
       (lists[c] # None /\ lists'[c] # None) =>
         LET old == lists[c]  new == lists'[c]  rest == alive \ {Here(old).win, Where(c)}
         IN  /\ Here(old).win \in alive =>
                  \A u \in rest \cap Wins(new) :
                    u \in Wins(old) /\ \A v \in rest : Follows(new, u, v) <=> Follows(old, u, v)
             /\ (Wins(old) \cap alive \subseteq Wins(new) \/ Len(new.locs) = JumpCap)]_vars

-----------------------------------------------------------------------------
(* What the comments claim and the code does not keep.                       *)

\* jumplist.go:210: a jump walks from where the client is, even if no re-list has
\* seen it there yet, so one that succeeds brings it where its history then says.
JumpBrings ==
  [][(going # None /\ going' = None) =>
       LET c == going.client IN
         lists'[c].cur # going.was => on'[c] # None /\ actw'[on'[c]] = Here(lists'[c]).win]_vars
=============================================================================
