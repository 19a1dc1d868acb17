-------------------------------- MODULE Dock --------------------------------
(***************************************************************************)
(* The life of the sidebar and of its spacers (dock.go, with the carve of  *)
(* preview.go, the callers in router.go and the loop of daemon.go).        *)
(*                                                                         *)
(* The sidebar is a pane of the window the client is on.  A spacer holds   *)
(* its slot in every other window it has visited or billboarded, until it  *)
(* is released after the undock.  The daemon's commands, its re-lists and  *)
(* its timers run one at a time; the user works on tmux between any two.   *)
(*                                                                         *)
(* The daemon sends tmux lines of commands.  tmux runs a line command by   *)
(* command and drops the rest at the first error, so a line is folded over *)
(* what tmux holds.                                                        *)
(*                                                                         *)
(* One client docks the sidebar.  The others only have a terminal, which   *)
(* they keep as long as their session is there.                            *)
(***************************************************************************)
EXTENDS Naturals, FiniteSets, Sequences

CONSTANTS
  Window,     \* windows of the server; a window that closes never comes back
  SessOf,     \* the session of each window
  Spacer,     \* ids of spacer panes, a bound on how many live at once
  Sidebar,    \* ids of sidebar panes, likewise
  Named,      \* windows whose user set automatic-rename: replaying it can fail
  Roomy,      \* windows wide enough to split a column off
  Other,      \* the clients besides the one that docks
  None,
  MaxUser     \* bound on the disturbances by the user

Pane == Spacer \cup Sidebar

Session == {SessOf[w] : w \in Window}

MaybeSpacers == [Window -> Spacer \cup {None}]

\* dockState, and what is left to do after a dock in two phases.
Docks    == [pane : Sidebar, win : Window, origin : Window, scrub : BOOLEAN, carved : MaybeSpacers]
Closings == [pane : Sidebar, win : Window, carved : MaybeSpacers, owed : SUBSET Window]

ASSUME DockAssumption ==
  /\ None \notin Window \cup Spacer \cup Sidebar \cup Session
  /\ None \notin Docks /\ None \notin Closings
  /\ Spacer \cap Sidebar = {}
  /\ Named \subseteq Window /\ Roomy \subseteq Window
  /\ MaxUser \in Nat

VARIABLES
  tmux,     \* the panes, windows and client of the server
  up,       \* the daemon is running
  dock,     \* d.dock, or None
  closing,  \* d.pendingClose, or None
  queue,    \* d.pendingRelease: the spacer of each window that has one waiting
  claims,   \* the windows whose options the registry owns
  armed,    \* the release timer is set
  kick,     \* tmux has changed since the last re-list
  rough,    \* history: windows somebody else than an orderly undock reshaped
  broke,    \* history: a line died halfway, leaving a pane or a layout behind
  user,     \* number of disturbances so far
  also,     \* the session of each other client, None if it has no terminal
  input     \* what the release timer would find of the users' input

daemon == <<up, dock, closing, queue, claims, armed>>
vars   == <<tmux, daemon, kick, rough, broke, user, also, input>>

\* Nothing lately, a key less than releaseIdleSecs ago, or a command that is queued.
Inputs == {"quiet", "typing", "commands"}

-----------------------------------------------------------------------------
(* What tmux holds: where each pane of winch is (at), the windows with a     *)
(* pane of the user's own (real), the shape of each window (shape: "own" as  *)
(* the user left it, "docked" with a column split off, "torn" when that      *)
(* column went and the layout was not replayed), and the client's window.    *)

In(t, w)   == {p \in Pane : t.at[p] = w}
Live(t, w) == w \in t.real \/ In(t, w) # {}

\* A client whose window closes stays in the session while it has windows.
Settle(t) ==
  LET rest == {w \in Window : Live(t, w) /\ SessOf[w] = SessOf[t.cur]}
  IN  IF t.cur = None \/ Live(t, t.cur) THEN t
      ELSE [t EXCEPT !.cur = IF rest = {} THEN None ELSE CHOOSE w \in rest : TRUE]

Possible(c, t) ==
  CASE c.do = "kill"   -> t.at[c.pane] # None
    [] c.do = "split"  -> Live(t, c.win) /\ c.win \in Roomy
    [] c.do = "swap"   -> t.at[c.pane] # None /\ t.at[c.with] # None
    [] c.do = "layout" -> c.win \in t.real /\ In(t, c.win) = {}
    [] c.do = "mark"   -> \A w \in c.wins : Live(t, w)
    [] c.do = "replay" -> \A w \in c.wins \cap Named : Live(t, w)
    [] c.do = "select" -> Live(t, c.win)
    [] c.do = "switch" -> t.cur # None /\ Live(t, c.win)
    [] c.do = "focus"  -> c.ok

Effect(c, t) ==
  CASE c.do = "kill"   -> Settle([t EXCEPT !.at[c.pane] = None,
                                          !.shape[t.at[c.pane]] = "torn"])
    [] c.do = "split"  -> [t EXCEPT !.at[c.pane] = c.win, !.shape[c.win] = "docked"]
    [] c.do = "swap"   -> [t EXCEPT !.at[c.pane] = t.at[c.with], !.at[c.with] = t.at[c.pane]]
    [] c.do = "layout" -> [t EXCEPT !.shape[c.win] = "own"]
    [] c.do = "select" -> IF t.cur # None /\ SessOf[t.cur] = SessOf[c.win]
                          THEN [t EXCEPT !.cur = c.win] ELSE t
    [] c.do = "switch" -> [t EXCEPT !.cur = c.win]
    [] OTHER           -> t

\* runSeq: what tmux holds afterwards, and whether the whole line ran.
After(a, c) ==
  IF a.ok /\ Possible(c, a.t) THEN [t |-> Effect(c, a.t), ok |-> TRUE]
                              ELSE [t |-> a.t, ok |-> FALSE]

Running(line, t) ==
  LET upto[i \in 0..Len(line)] ==
        IF i = 0 THEN [t |-> t, ok |-> TRUE] ELSE After(upto[i - 1], line[i])
  IN  upto
Run(line, t) == Running(line, t)[Len(line)]

Kill(p)         == <<[do |-> "kill", pane |-> p]>>
Split(w, p)     == <<[do |-> "split", win |-> w, pane |-> p]>>
Swap(p, s)      == <<[do |-> "swap", pane |-> p, with |-> s]>>
Layout(w)       == <<[do |-> "layout", win |-> w]>>
Mark(W)         == <<[do |-> "mark", wins |-> W]>>
Replay(W)       == <<[do |-> "replay", wins |-> W]>>
Select(w)       == <<[do |-> "select", win |-> w]>>
Switch(w)       == <<[do |-> "switch", win |-> w]>>
Focus(ok)       == <<[do |-> "focus", ok |-> ok]>>

-----------------------------------------------------------------------------
(* The operations of the daemon, as functions of all it may change.          *)

Nobody == [w \in Window |-> None]
Holding(c) == {w \in Window : c[w] # None}

Now == [t |-> tmux, dock |-> dock, closing |-> closing, queue |-> queue,
        claims |-> claims, armed |-> armed, broke |-> broke]

\* Zooming the sidebar for a scrub changes a layout, which tmux announces too.
Zoomed(d)  == d # None /\ d.scrub
Changed(s) == s.t # tmux \/ Zoomed(s.dock) # Zoomed(dock)

Becomes(s) ==
  /\ tmux' = s.t /\ dock' = s.dock /\ closing' = s.closing /\ queue' = s.queue
  /\ claims' = s.claims /\ armed' = s.armed /\ broke' = s.broke
  /\ kick' = (kick \/ Changed(s))

\* A session that has no window left takes its clients' terminals along.
Staying(where, t) ==
  [c \in Other |-> IF \E w \in Window : Live(t, w) /\ SessOf[w] = where[c]
                   THEN where[c] ELSE None]

\* The input counts while something waits for its release.
InputFor(q) == IF q = Nobody THEN "quiet" ELSE input

\* The panes the daemon has on record: the sidebar, and the spacers of the
\* windows carved, being closed or waiting for their release.
Known(s) ==
  LET docks == {s.dock, s.closing} \ {None}
  IN  ({d.pane : d \in docks}
       \cup {c[w] : w \in Window, c \in {s.queue} \cup {d.carved : d \in docks}}) \ {None}

\* tmux never uses an id twice; here an id that no pane has and nobody remembers
\* stands for a new one, and which one it is makes no difference.
Unused(s, P) == {p \in P : s.t.at[p] = None} \ Known(s)
NewSpacer    == CHOOSE p \in Unused(Now, Spacer) : TRUE
NewSidebar   == CHOOSE p \in Unused(Now, Sidebar) : TRUE

\* Mutant: the timer is only armed by the code that handles it.
DeferUnarmed(s, carved) ==
  [s EXCEPT !.queue = [w \in Window |-> IF carved[w] # None THEN carved[w] ELSE s.queue[w]]]

\* deferReleases: what was carved waits for the release timer.
DeferReleases(s, carved) ==
  LET q == [w \in Window |-> IF carved[w] # None THEN carved[w] ELSE s.queue[w]]
  IN  [s EXCEPT !.queue = q, !.armed = s.armed \/ q # Nobody]

\* A line that leads with restores is lost when one of them cannot be replayed.
Strands(t, W) == \E w \in W \cap Named : ~Live(t, w)

\* flushPendingClose
Flush(s) ==
  LET c    == s.closing
      line == Replay(c.owed) \o Kill(c.pane) \o Layout(c.win)
  IN  IF c = None THEN s
      ELSE DeferReleases([s EXCEPT !.closing = None, !.t = Run(line, s.t).t,
                                   !.broke = s.broke \/ Strands(s.t, c.owed)], c.carved)

\* Mutant: the column is killed and the layout left to tmux.
ReleaseOneBare(s, w) ==
  [s EXCEPT !.t = Run(Kill(s.queue[w]), s.t).t, !.queue[w] = None]

\* releaseOne
ReleaseOne(s, w) ==
  [s EXCEPT !.t = Run(Kill(s.queue[w]) \o Layout(w), s.t).t, !.queue[w] = None]

\* Mutant: the releases still waiting are cancelled, and their spacers forgotten.
OpenAtAfresh(s, w) ==
  LET done == Run(Mark({w} \ s.claims) \o Split(w, NewSidebar), s.t)
  IN  IF done.ok
      THEN [s EXCEPT !.t = done.t, !.queue = Nobody, !.claims = {w},
                     !.dock = [pane |-> NewSidebar, win |-> w, origin |-> w, scrub |-> FALSE,
                               carved |-> Nobody]]
      ELSE [s EXCEPT !.t = done.t]

\* dockOpen: adopts the releases still waiting, except the one of this window,
\* unless the flush took the client's last window with it.
OpenAt(s, w) ==
  LET r    == IF s.queue[w] # None THEN ReleaseOne(s, w) ELSE s
      held == Holding(r.queue) \cup {w}
      done == Run(Mark(held \ r.claims) \o Split(w, NewSidebar), r.t)
      next == [r EXCEPT !.t = done.t, !.queue = Nobody]
  IN  IF done.ok
      THEN [next EXCEPT !.claims = held,
                        !.dock = [pane |-> NewSidebar, win |-> w, origin |-> w, scrub |-> FALSE,
                                  carved |-> r.queue]]
      ELSE [next EXCEPT !.broke = r.broke \/ r.queue # Nobody]

Open(s) ==
  LET f == Flush(s)
  IN  IF f.t.cur = None THEN f ELSE OpenAt(f, f.t.cur)

\* One attempt of dockMove, by swapping with a spacer or by a first split.
Attempt(s, w, spacer, tail) ==
  Run(Mark({w} \ s.claims)
      \o (IF spacer # None THEN Swap(s.dock.pane, spacer)
          ELSE Split(w, NewSpacer) \o Swap(s.dock.pane, NewSpacer))
      \o Select(w)
      \o (IF SessOf[w] # SessOf[s.dock.win] THEN Switch(w) ELSE <<>>)
      \o Focus(tail), s.t)

\* Mutant: the entry of the window entered stays.
LandedKeeps(s, t, w, spacer) ==
  LET c == [s.dock.carved EXCEPT ![s.dock.win] = spacer]
  IN  [s EXCEPT !.t = t, !.claims = Holding(c) \cup {w},
                !.dock = [s.dock EXCEPT !.win = w, !.scrub = FALSE, !.carved = c]]

Landed(s, t, w, spacer) ==
  LET d == s.dock
      c == [d.carved EXCEPT ![d.win] = spacer, ![w] = None]
  IN  [s EXCEPT !.t = t, !.claims = Holding(c) \cup {w},
                !.dock = [d EXCEPT !.win = w, !.scrub = FALSE, !.carved = c]]

\* What fails leaves a split column behind, which is taken back.
Undone(t) == IF t.at[NewSpacer] # None THEN Run(Kill(NewSpacer), t).t ELSE t
Failed(s, t) == [s EXCEPT !.t = t, !.broke = s.broke \/ t # s.t]

Visited(s, w, try) ==
  IF try.ok THEN Landed(s, try.t, w, NewSpacer) ELSE Failed(s, Undone(try.t))

FirstVisit(s, w, tail) ==
  IF ~(Live(s.t, w) /\ Live(s.t, s.dock.win)) THEN s
  ELSE Visited(s, w, Attempt(s, w, None, tail))

\* dockMove: a swap that fails is taken for a spacer the user closed, and the
\* move is tried again as a first visit.
Revisited(s, w, spacer, try, again) ==
  IF try.ok THEN Landed(s, try.t, w, spacer)
  ELSE FirstVisit([s EXCEPT !.t = try.t, !.dock.carved[w] = None,
                            !.broke = s.broke \/ s.t.at[spacer] # None], w, again)

Move(s, w, tail, again) ==
  LET spacer == s.dock.carved[w]
  IN  IF w = s.dock.win \/ ~(Live(s.t, w) /\ Live(s.t, s.dock.win)) THEN s
      ELSE IF spacer = None THEN FirstVisit(s, w, tail)
      ELSE Revisited(s, w, spacer, Attempt(s, w, spacer, tail), again)

\* dockClose without moving; onto an agent pane, in two phases.
CloseHere(s, agent) ==
  LET d    == s.dock
      gone == [s EXCEPT !.dock = None, !.claims = {},
                        !.closing = [pane |-> d.pane, win |-> d.win, carved |-> d.carved,
                                     owed |-> s.claims]]
  IN  IF agent THEN gone ELSE Flush(gone)

\* dockClose back to the origin.
CloseAway(s) ==
  LET d    == s.dock
      o    == d.origin
      mine == d.carved[o]
      land == Run(Replay(s.claims)
                  \o (IF mine # None THEN Kill(mine) \o Layout(o) ELSE <<>>)
                  \o Select(o) \o Switch(o), s.t)
      back == {w \in Window : Live(land.t, w) /\ SessOf[w] = SessOf[o]}
      t    == IF land.ok \/ back = {} THEN land.t
              ELSE Run(Switch(CHOOSE w \in back : TRUE), land.t).t
      left == Run(Kill(d.pane) \o Layout(d.win), t).t
  IN  DeferReleases([s EXCEPT !.t = left, !.dock = None, !.claims = {},
                              !.broke = s.broke \/ (mine # None /\ Strands(s.t, s.claims))],
                    [d.carved EXCEPT ![o] = None])

Close(s, toOrigin, agent) ==
  IF toOrigin /\ s.dock.origin # s.dock.win THEN CloseAway(s) ELSE CloseHere(s, agent)

\* dockAbandon: no layout is replayed.
Abandon(s) ==
  DeferReleases([s EXCEPT !.dock = None, !.claims = {}], s.dock.carved)

\* Mutant: only the entries whose spacer is gone are looked at.
ReapStale(s) ==
  [s EXCEPT !.dock.carved = [w \in Window |->
     IF @[w] = None \/ s.t.at[@[w]] # w THEN None ELSE @[w]]]

\* reapEmptyCarves: a carve whose spacer is gone is dropped and the options
\* planned anew, a window that only its spacer holds open is closed.
Reap(s) ==
  LET d     == s.dock
      lone  == {w \in Holding(d.carved) : s.t.at[d.carved[w]] = w
                                         /\ w \notin s.t.real /\ Cardinality(In(s.t, w)) = 1}
      stale == {w \in Holding(d.carved) : s.t.at[d.carved[w]] # w}
      keep  == [w \in Window |-> IF w \in lone \cup stale THEN None ELSE d.carved[w]]
      t     == Settle([s.t EXCEPT !.at = [p \in Pane |-> IF s.t.at[p] \in lone THEN None
                                                        ELSE s.t.at[p]]])
      owned == s.claims \ lone
      held  == Holding(keep) \cup {d.win}
  IN  [s EXCEPT !.t = t, !.dock.carved = keep,
                !.claims = IF stale # {} /\ Run(Mark(held \ owned) \o Replay(owned \ held), t).ok
                           THEN held ELSE owned]

\* The carve of a preview, on the first billboard of a window.
Carve(s, w) ==
  LET held == Holding(s.dock.carved) \cup {s.dock.win, w}
      done == Run(Mark(held \ s.claims) \o Split(w, NewSpacer), s.t)
  IN  IF s.dock.carved[w] # None THEN s
      ELSE IF done.ok THEN [s EXCEPT !.t = done.t, !.claims = held, !.dock.carved[w] = NewSpacer]
      ELSE s

-----------------------------------------------------------------------------
(* The commands and the loop of the daemon.                                  *)

Init ==
  /\ \E w \in Window :
       tmux = [at |-> [p \in Pane |-> None], real |-> Window,
               shape |-> [x \in Window |-> "own"], cur |-> w]
  /\ up = TRUE /\ dock = None /\ closing = None /\ queue = Nobody
  /\ claims = {} /\ armed = FALSE /\ kick = FALSE
  /\ rough = {} /\ broke = FALSE /\ user = 0
  /\ also = [c \in Other |-> None] /\ input = "quiet"

Docked == up /\ dock # None

\* What the user's own acts count for is left alone by the daemon.
Shifts(s, where) ==
  /\ Becomes(s) /\ UNCHANGED <<up, rough, user>>
  /\ also' = Staying(where, s.t) /\ input' = InputFor(s.queue)
Steps(s) == Shifts(s, also)

\* What the daemon cannot foresee is left open only where it makes a difference: the
\* second try of a move, where the first is by a spacer.
Maybe(cond) == IF cond THEN BOOLEAN ELSE {FALSE}
Retries(W)  == dock # None /\ \E w \in W : dock.carved[w] # None

\* toggle, browse, find, agents: none is docked.
DockOpen ==
  /\ up /\ dock = None /\ tmux.cur # None
  /\ Unused(Now, Sidebar) # {}
  /\ Steps(Open(Now))

\* toggle on the dock's window from the sidebar itself, or from elsewhere; the
\* close of q; and a toggle while scrubbing with nothing to land on.
DockClose ==
  /\ Docked
  /\ \E toOrigin, agent \in BOOLEAN :
       /\ dock.scrub => ~toOrigin
       /\ Steps(Close(Now, toOrigin, agent))

\* toggle while scrubbing: lands on the target, then closes.
ToggleOnTarget(w) ==
  /\ Docked /\ dock.scrub /\ w # dock.win /\ Live(tmux, w)
  /\ Unused(Now, Spacer) # {}
  /\ \E tail, again \in Maybe(Retries({w})), agent \in BOOLEAN :
       LET moved == Move(Now, w, tail, again)
       IN  IF dock.carved[w] = None
           THEN Steps(Close([Now EXCEPT !.dock.origin = w], TRUE, agent))
           ELSE Steps(IF moved.dock.win = w THEN Close(moved, FALSE, agent) ELSE moved)

\* nav, jump, and the Enter that commits a scrub: the last resets the origin.
MoveTo(w) ==
  /\ Docked /\ w # dock.win /\ Live(tmux, w)
  /\ Unused(Now, Spacer) # {}
  /\ \E tail \in BOOLEAN, again \in Maybe(Retries({w})), commit \in Maybe(dock.scrub) :
       LET moved == Move(Now, w, tail, again)
       IN  Steps(IF commit /\ moved.dock.win = w THEN [moved EXCEPT !.dock.origin = w]
                 ELSE moved)

\* preview: selecting another window starts the scrub, and carves the window
\* unless another client is there or its scrollback is too long.
Preview(w) ==
  /\ Docked /\ Live(tmux, w) /\ Live(tmux, dock.win)
  /\ w # dock.win /\ Unused(Now, Spacer) # {}
  /\ \E carve \in BOOLEAN :
       LET s == IF carve THEN Carve(Now, w) ELSE Now
       IN  Steps([s EXCEPT !.dock.scrub = @ \/ tmux.at[dock.pane] # None])

\* close while scrubbing, and the Enter on the docked window, which also makes
\* it the origin.
EndScrub ==
  /\ Docked /\ dock.scrub
  /\ \E commit \in BOOLEAN :
       Steps([Now EXCEPT !.dock.scrub = FALSE,
                         !.dock.origin = IF commit THEN dock.win ELSE @])

\* Mutant: the dock waits for the command that takes it along.
CheckDockStays(s, tail, again, agent, unzoomed) ==
  LET reaped == IF s.dock.scrub THEN s ELSE Reap(s)
  IN  IF s.t.at[s.dock.pane] = None THEN Abandon(s)
      ELSE IF s.t.cur = None THEN Close(s, FALSE, agent)
      ELSE IF unzoomed THEN [reaped EXCEPT !.dock.scrub = FALSE] ELSE reaped

\* checkDock, after every re-list.
CheckDock(s, tail, again, agent, unzoomed) ==
  LET d      == s.dock
      reaped == IF d.scrub THEN s ELSE Reap(s)
      r      == IF unzoomed THEN [reaped EXCEPT !.dock.scrub = FALSE] ELSE reaped
      alone  == s.t.at[d.pane] = d.win /\ d.win \notin s.t.real /\ In(s.t, d.win) = {d.pane}
      let_go == Abandon(s)
  IN  IF s.t.at[d.pane] = None THEN Abandon(s)
      ELSE IF s.t.cur = None THEN Close(s, FALSE, agent)
      ELSE IF ~d.scrub /\ alone THEN [let_go EXCEPT !.t = Run(Kill(d.pane), s.t).t]
      ELSE IF s.t.cur # d.win THEN Move(r, s.t.cur, tail, again)
      ELSE r

Relist ==
  /\ up /\ kick /\ UNCHANGED <<rough, user>>
  /\ \/ dock = None /\ kick' = FALSE /\ UNCHANGED <<tmux, daemon, broke>>
     \/ /\ dock # None /\ Unused(Now, Spacer) # {}
        /\ \E tail \in Maybe(tmux.cur # dock.win), again \in Maybe(Retries({tmux.cur} \ {None})),
              agent \in Maybe(tmux.cur = None), unzoomed \in Maybe(dock.scrub) :
             LET s == CheckDock(Now, tail, again, agent, unzoomed)
             IN  /\ tmux' = s.t /\ dock' = s.dock /\ closing' = s.closing
                 /\ queue' = s.queue /\ claims' = s.claims /\ armed' = s.armed
                 /\ broke' = s.broke /\ kick' = Changed(s) /\ UNCHANGED up
  /\ also' = Staying(also, tmux') /\ input' = InputFor(queue')

\* The close timer.
CloseTimer == up /\ closing # None /\ Steps(Flush(Now))

\* A window that some client has in front of it: the clients of a session share one.
Watched(w) ==
  \/ w = tmux.cur
  \/ (tmux.cur # None => SessOf[w] # SessOf[tmux.cur]) /\ \E c \in Other : also[c] = SessOf[w]

\* Mutant: it waits for nobody to type, whatever is looked at.
MayOnceQuiet(w) == queue[w] # None /\ input = "quiet"

\* A window that a client looks at goes first, whether anybody types or not; else any,
\* since deferReleases walks a Go map, once nobody does.
May(w) ==
  /\ queue[w] # None
  /\ \/ input = "quiet" /\ tmux.cur \notin Holding(queue)
     \/ input # "commands" /\ Watched(w)

\* Input puts the timer off.  An empty queue lets it rest.
ReleaseTimer ==
  /\ up /\ armed
  /\ \/ queue = Nobody /\ Steps([Now EXCEPT !.armed = FALSE])
     \/ \E w \in Window :
          LET s == ReleaseOne(Now, w)
          IN  May(w) /\ Steps([s EXCEPT !.armed = s.queue # Nobody])
     \/ /\ queue # Nobody /\ input # "quiet"
        /\ input = "typing" => tmux.cur \notin Holding(queue)
        /\ UNCHANGED vars

-----------------------------------------------------------------------------
(* Killing from the sidebar, and the click on a notification.                *)

\* pickRefuge: a window that stays, of the client's own session while it has one.
Refuges(s, doomed) ==
  LET stay == {w \in Window : Live(s.t, w)} \ doomed
      near == {w \in stay : s.dock # None /\ s.t.cur # None /\ SessOf[w] = SessOf[s.t.cur]}
  IN  IF near # {} THEN near ELSE stay

\* Billboards of what is to die end, and its carves are forgotten if they die with it.
Disarmed(s, doomed, ends, forget) ==
  IF s.dock = None THEN s
  ELSE [s EXCEPT !.dock.scrub = @ /\ ~ends /\ s.dock.win \notin doomed,
                 !.dock.carved = [w \in Window |-> IF forget /\ w \in doomed THEN None ELSE @[w]],
                 !.claims = IF forget THEN @ \ (doomed \cap Holding(s.dock.carved)) ELSE @]

\* The sidebar leaves what is to die and takes its client along.  Only when it has not
\* gone are the clients looked through that are there (strays: among the others).
Cleared(s, moved, doomed, refuge, strays) ==
  LET gone == moved.dock # None /\ moved.dock.win = refuge /\ s.dock.win # refuge
      line == IF s.t.cur \in doomed THEN Select(refuge) \o Switch(refuge)
              ELSE IF strays THEN Select(refuge) ELSE <<>>
  IN  IF gone THEN moved ELSE [moved EXCEPT !.t = Run(line, moved.t).t]

Evacuated(s, doomed, refuge, tail, again, strays) ==
  Cleared(s, IF s.dock # None /\ s.dock.win \in doomed THEN Move(s, refuge, tail, again) ELSE s,
          doomed, refuge, strays)

\* killTarget up to the kill itself: what is doomed is left, if there is a way.
WaysOut(s, doomed) == IF Refuges(s, doomed) = {} THEN {None} ELSE Refuges(s, doomed)

\* Mutant: the client is left to the sidebar, which is not always there.
SparedDockOnly(s, doomed, refuge, tail, again, agent, strays) ==
  IF s.dock = None \/ s.dock.win \notin doomed \/ refuge = None THEN s
  ELSE Move(s, refuge, tail, again)

Spared(s, doomed, refuge, tail, again, agent, strays) ==
  IF refuge # None THEN Evacuated(s, doomed, refuge, tail, again, strays)
  ELSE IF s.dock # None /\ s.dock.win \in doomed THEN Close(s, FALSE, agent) ELSE s

\* The window in front in the session of w, where the other clients of it are.
Fronts(w) ==
  IF tmux.cur # None /\ SessOf[tmux.cur] = SessOf[w] THEN {tmux.cur}
  ELSE {x \in Window : Live(tmux, x) /\ SessOf[x] = SessOf[w]}

Strays(w, doomed, front) == {c \in Other : front \in doomed /\ also[c] = SessOf[w]}
Straying(w, doomed) == {Strays(w, doomed, front) : front \in Fronts(w)}

\* Mutant: only the client of the dock is taken along.
EscortedNone(s, strays, refuge) == also

\* Where the other clients are then: nobody looks after them once the sidebar has moved.
Escorted(s, strays, refuge) ==
  LET moved == dock # None /\ s.dock # None /\ s.dock.win # dock.win
  IN  [c \in Other |-> IF c \in strays /\ refuge # None /\ ~moved
                       THEN SessOf[refuge] ELSE also[c]]

Uproots(doomed)  == dock # None /\ dock.win \in doomed
Relocates(doomed) == Uproots(doomed) /\ Refuges(Now, doomed) # {}

\* kill-session
SessionGone(t, doomed) ==
  Settle([t EXCEPT !.real = @ \ doomed,
                   !.at = [p \in Pane |-> IF @[p] \in doomed THEN None ELSE @[p]]])

KillSession(w) ==
  LET doomed == {x \in Window : SessOf[x] = SessOf[w] /\ Live(tmux, x)}
  IN  /\ up /\ w \in doomed /\ Unused(Now, Spacer) # {}
      /\ \E ends \in Maybe(Zoomed(dock) /\ ~Uproots(doomed)), tail \in Maybe(Relocates(doomed)),
            again \in Maybe(Relocates(doomed) /\ Retries(Refuges(Now, doomed))),
            agent \in Maybe(Uproots(doomed) /\ ~Relocates(doomed)), strays \in Straying(w, doomed) :
           LET d == Disarmed(Now, doomed, ends, TRUE)
           IN  \E refuge \in WaysOut(d, doomed) :
                 LET s == Spared(d, doomed, refuge, tail, again, agent, strays # {})
                 IN  Shifts([s EXCEPT !.t = SessionGone(@, doomed)], Escorted(s, strays, refuge))

\* kill-pane, of a pane of the user's
PanesGone(t, w) == Settle([t EXCEPT !.real = @ \ {w}])

\* lastRealPane: of the panes that are not the user's, only a carve's spacer is
\* known for one.
TakesWindow(w) ==
  In(tmux, w) \subseteq (IF dock = None THEN {} ELSE {dock.carved[w]})

\* The last of the user's panes in w; killing another changes nothing here.
KillPane(w) ==
  LET doomed == IF TakesWindow(w) THEN {w} ELSE {}
  IN  /\ up /\ w \in tmux.real /\ Unused(Now, Spacer) # {}
      /\ \E ends \in Maybe(Zoomed(dock) /\ doomed # {} /\ ~Uproots(doomed)),
            tail \in Maybe(Relocates(doomed)),
            again \in Maybe(Relocates(doomed) /\ Retries(Refuges(Now, doomed))),
            agent \in Maybe(Uproots(doomed) /\ ~Relocates(doomed)), strays \in Straying(w, doomed) :
           LET d == Disarmed(Now, doomed, ends, FALSE)
           IN  \E refuge \in WaysOut(d, doomed) :
                 LET s == Spared(d, doomed, refuge, tail, again, agent, strays # {})
                 IN  Shifts([s EXCEPT !.t = PanesGone(@, w)], Escorted(s, strays, refuge))

\* gotoPane: every client is taken there, and the sidebar follows at the next re-list.
GotoPane(w) ==
  /\ up /\ w \in tmux.real
  /\ Shifts([Now EXCEPT !.t = Run((IF tmux.cur = None THEN <<>> ELSE Switch(w)) \o Select(w), tmux).t],
            [c \in Other |-> IF also[c] = None THEN None ELSE SessOf[w]])

-----------------------------------------------------------------------------
(* The user, and the end of the daemon.                                      *)

\* By a path winch does not route: choose-tree, another terminal, attaching.
Walks(w) ==
  /\ Live(tmux, w) /\ w # tmux.cur
  /\ tmux' = [tmux EXCEPT !.cur = w]
  /\ kick' = TRUE
  /\ UNCHANGED <<daemon, rough, broke, user, also, input>>

Disturbs(t, torn) ==
  /\ user < MaxUser /\ user' = user + 1
  /\ tmux' = Settle(t) /\ also' = Staying(also, tmux')
  /\ rough' = rough \cup torn
  /\ kick' = TRUE

Detaches == tmux.cur # None /\ Disturbs([tmux EXCEPT !.cur = None], {})
            /\ UNCHANGED <<daemon, broke, input>>

\* The panes of the user in w exit; without a pane of winch the window closes.
ClosesPanes(w) ==
  /\ w \in tmux.real
  /\ Disturbs([tmux EXCEPT !.real = @ \ {w}], {})
  /\ UNCHANGED <<daemon, broke, input>>

ClosesWindow(w) ==
  /\ w \in tmux.real /\ In(tmux, w) # {}
  /\ Disturbs([tmux EXCEPT !.real = @ \ {w},
                           !.at = [p \in Pane |-> IF @[p] = w THEN None ELSE @[p]]], {})
  /\ UNCHANGED <<daemon, broke, input>>

ClosesPane(p) ==
  /\ tmux.at[p] # None
  /\ Disturbs(Effect(Kill(p)[1], tmux), {tmux.at[p]})
  /\ UNCHANGED <<daemon, broke, input>>

\* Another client attaches, goes to another session or detaches.
AnotherGoes(c) ==
  /\ user < MaxUser /\ user' = user + 1
  /\ \E s \in {SessOf[w] : w \in {x \in Window : Live(tmux, x)}} \cup {None} :
       s # also[c] /\ also' = [also EXCEPT ![c] = s]
  /\ kick' = TRUE
  /\ UNCHANGED <<tmux, daemon, rough, broke, input>>

\* Keys, and commands, arrive or stop arriving while the release timer runs.
GivesInput ==
  /\ queue # Nobody
  /\ \E i \in Inputs : i # input /\ input' = i
  /\ UNCHANGED <<tmux, daemon, kick, rough, broke, user, also>>

Without(P) ==
  [tmux EXCEPT !.at = [p \in Pane |-> IF p \in P THEN None ELSE @[p]],
               !.shape = [w \in Window |-> IF In(tmux, w) \cap P # {} THEN "torn" ELSE @[w]]]

\* The sidebar's program exits with its connection.
Crash ==
  /\ up
  /\ up' = FALSE /\ dock' = None /\ closing' = None /\ queue' = Nobody
  /\ claims' = {} /\ armed' = FALSE
  /\ Disturbs(Without(Sidebar), {w \in Window : In(tmux, w) # {}})
  /\ input' = "quiet"
  /\ UNCHANGED broke

\* sweepSpacers of the next daemon.
Start ==
  /\ ~up
  /\ up' = TRUE
  /\ tmux' = Settle(Without(Spacer)) /\ also' = Staying(also, tmux')
  /\ kick' = TRUE
  /\ UNCHANGED <<dock, closing, queue, claims, armed, rough, broke, user, input>>

\* The control connection dies and the daemon attaches again, sweeping too.
Reattach ==
  /\ up
  /\ Disturbs(Without(Spacer), {})
  /\ broke' = (broke \/ \E p \in Spacer : tmux.at[p] # None)
  /\ UNCHANGED <<daemon, input>>

\* A behaviour is followed to its first broken line.
Next ==
  /\ ~broke
  /\ \/ DockOpen \/ DockClose \/ EndScrub
     \/ \E w \in Window : ToggleOnTarget(w) \/ MoveTo(w) \/ Preview(w)
     \/ \E w \in Window : KillSession(w) \/ KillPane(w) \/ GotoPane(w)
     \/ Relist \/ CloseTimer \/ ReleaseTimer
     \/ \E w \in Window : Walks(w) \/ ClosesPanes(w) \/ ClosesWindow(w)
     \/ \E p \in Pane : ClosesPane(p)
     \/ \E c \in Other : AnotherGoes(c)
     \/ GivesInput
     \/ Detaches \/ Crash \/ Start \/ Reattach

Spec == Init /\ [][Next]_vars

\* Weak fairness of the re-list and of the two timers, with the guard of each
\* written out in the place of its ENABLED: the timer that releases goes off again and
\* again, and acts if it always finds that it may.
Goes == up /\ ~broke
Due  == queue = Nobody \/ \E w \in Window : May(w)

FairSpec ==
  /\ Spec
  /\ <>[](Goes /\ kick) => []<><<Relist>>_vars
  /\ <>[](Goes /\ closing # None) => []<><<CloseTimer>>_vars
  /\ <>[](Goes /\ armed /\ Due) => []<><<ReleaseTimer>>_vars

-----------------------------------------------------------------------------
Tmux == [at : [Pane -> Window \cup {None}], real : SUBSET Window,
         shape : [Window -> {"own", "docked", "torn"}], cur : Window \cup {None}]

TypeOK ==
  /\ tmux \in Tmux /\ up \in BOOLEAN
  /\ dock \in {None} \cup Docks /\ closing \in {None} \cup Closings
  /\ queue \in MaybeSpacers
  /\ claims \subseteq Window /\ rough \subseteq Window
  /\ armed \in BOOLEAN /\ kick \in BOOLEAN /\ broke \in BOOLEAN
  /\ user \in 0..MaxUser
  /\ also \in [Other -> Session \cup {None}] /\ input \in Inputs

\* One thing at a time: a sidebar docks only when no close is under way and no
\* release waits, and a release that waits has its timer (dock.go:656).
OneOwner ==
  /\ dock # None => closing = None /\ queue = Nobody
  /\ closing # None => queue = Nobody
  /\ queue # Nobody => armed

\* No pane of winch is forgotten: it is the sidebar, or the registered spacer of
\* a window that is carved, being closed or waiting for its release.
NoOrphans ==
  (up /\ ~broke) =>
    \A p \in Pane : tmux.at[p] # None => p \in Known(Now)

\* Every pane is where the daemon believes it is, if it is anywhere.
PanesInPlace ==
  ~broke =>
    /\ \A d \in {dock, closing} \ {None} :
         /\ tmux.at[d.pane] \in {d.win, None} /\ d.carved[d.win] = None
         /\ \A w \in Holding(d.carved) : tmux.at[d.carved[w]] \in {w, None}
    /\ \A w \in Holding(queue) : tmux.at[queue[w]] \in {w, None}

\* A window the daemon has let go of has the shape its user gave it.
WindowsWhole ==
  ~broke => \A w \in tmux.real \ rough : In(tmux, w) = {} => tmux.shape[w] = "own"

\* A kill by the sidebar costs its client no terminal while a window stays anywhere,
\* nor any other client, as long as the sidebar itself need not move.
Deserted == \A w \in Window : ~Live(tmux, w)
KillCarriesClient ==
  [][tmux'.real # tmux.real /\ user' = user /\ ~Deserted' =>
       /\ tmux.cur # None => tmux'.cur # None
       /\ (dock # None /\ dock' # None => dock'.win = dock.win) =>
            \A c \in Other : also[c] # None => also'[c] # None]_vars

\* No spacer waits for ever: all are released, or taken back by a dock, unless commands
\* keep coming, or somebody keeps typing and the client is where none waits.
QueueDrains ==
  (queue # Nobody)
    ~> \/ queue = Nobody \/ broke \/ input = "commands"
       \/ input = "typing" /\ tmux.cur \notin Holding(queue)

\* The sidebar comes along when its client goes to a window with room for it.
FollowsClient ==
  (dock # None /\ tmux.cur \in Roomy \ {IF dock = None THEN None ELSE dock.win})
    ~> (dock = None \/ tmux.cur \notin Roomy \/ broke \/ tmux.cur = dock.win)

\* A window that its user has closed does not stay open for its spacer's sake.
EmptyWindowsClose ==
  \A w \in Window :
    (dock # None /\ w \notin tmux.real /\ (dock # None => dock.carved[w] # None))
      ~> (dock = None \/ Zoomed(dock) \/ broke \/ (dock # None => dock.carved[w] = None))

-----------------------------------------------------------------------------
(* What the documents claim and the code does not keep.                      *)

\* dock.go:379: "sweepSpacers kills spacer panes a previous daemon left behind":
\* not the ones the running daemon has in use.
SweepsOnlyLeaks ==
  [][Reattach => \A p \in Known(Now) : tmux'.at[p] = tmux.at[p]]_vars

\* router.go:480: a kill has "first carried anything that lives there somewhere safe",
\* and :586 "a client in the blast radius that the sidebar move did not already carry".
CarriesEveryClient ==
  [][tmux'.real # tmux.real /\ user' = user /\ ~Deserted' =>
       \A c \in Other : also[c] # None => also'[c] # None]_vars

\* router.go:488-493: a kill "could cost you both your sidebar and your terminal",
\* therefore "move first, then kill": a sidebar that had a window with room to go to
\* is not left where nothing of the user's is.
MovesFirst ==
  [][user' = user /\ dock # None /\ dock.win \in tmux.real \ tmux'.real
       /\ Refuges(Now, tmux.real \ tmux'.real) \cap Roomy \cap tmux.real # {} =>
     dock' = None \/ dock'.win \in tmux'.real]_vars
=============================================================================
