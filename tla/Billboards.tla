----------------------------- MODULE Billboards -----------------------------
(***************************************************************************)
(* Scrubbing: the sidebar asks for the window its selection is on, and the *)
(* daemon shows it as a billboard and keeps it live (preview.go, the       *)
(* commands of router.go, the event loop of tui.go).                       *)
(*                                                                         *)
(* Commands wait in one queue; the daemon drains it, drops the previews    *)
(* that are out of date and runs the rest.  A preview is two round trips   *)
(* to tmux, and a stream repeats the one of the target.  Windows go on     *)
(* printing meanwhile.  The sidebar keeps a cache of frames that the       *)
(* daemon knows only by what it has sent.                                  *)
(*                                                                         *)
(* Panes, docks that fail and the user's own moves are the module Dock's;  *)
(* that nothing sent is lost is the module Hub's.                          *)
(***************************************************************************)
EXTENDS Naturals, Sequences, SequencesExt, FiniteSets

CONSTANTS
  Window,      \* windows, each a row of the list
  Row, Glyph,  \* rows of a window and what a row may show
  None,
  MaxKeys,     \* bound on the keys pressed
  MaxChanges,  \* bound on what windows print
  MaxSecs      \* bound on the clock

\* The rows of a window, a capture that is remembered (shot), and a frame in the cache.
Texts  == [Row -> Glyph]
Memory == [ids : Nat, text : Texts, act : 0..MaxSecs, at : 0..MaxSecs]
Cached == [gen : Nat, ids : Nat, text : Texts]

\* A preview under way.
Job == [win : Window, kind : {"start", "show", "stream", "prefetch"}, ids : Nat,
        act : 0..MaxSecs, text : Texts \cup {None}]

ASSUME BillboardsAssumption ==
  /\ Window # {} /\ Glyph # {} /\ IsFiniteSet(Window)
  /\ None \notin Window /\ None \notin Texts
  /\ None \notin Memory /\ None \notin Cached /\ None \notin Job
  /\ MaxKeys \in Nat /\ MaxChanges \in Nat /\ MaxSecs \in Nat \ {0}

VARIABLES
  screen,   \* of each window its panes (ids), its text, the second it last printed (act)
  now,      \* the second it is
  dock,     \* d.dock.win, or None
  scrub,    \* d.dock.scrubbing
  chosen,   \* the selection the hub has on record: a window, and whether quietly
  pv,       \* d.pv
  job,      \* the preview under way, or None
  batch,    \* what is left of the commands handleCmd has drained
  cmds,     \* h.cmds
  wire,     \* what has been sent to the sidebar
  tui,      \* the sidebar
  keys, changes,   \* number of keys pressed, and of changes of windows
  late,     \* history: an output came between a capture and its stamp, unseen by the gate
  failed    \* history: a preview was given up

vars == <<screen, now, dock, scrub, chosen, pv, job, batch, cmds, wire, tui, keys, changes, late, failed>>

-----------------------------------------------------------------------------
NoWarm == [w \in Window |-> None]

\* reset: the next preview is captured and shipped whole, whatever was before.
Reset(p) == [p EXCEPT !.last = None, !.warm = NoWarm]

Preview(w)  == [do |-> "preview", win |-> w]
Prefetch(w) == [do |-> "prefetch", win |-> w]
Order(what) == [do |-> what, win |-> None]
Hello(life) == [do |-> "hello", win |-> None, by |-> life]
Commit(w)   == [do |-> "commit", win |-> w]

\* requestFrames: the selected row, and its neighbours while billboards show.
Requests(t, w) ==
  LET others == SetToSeq(Window \ {w})
  IN  <<Preview(w)>> \o IF t.wide THEN [i \in DOMAIN others |-> Prefetch(others[i])] ELSE <<>>

\* The commands of a batch at some of its places.
Kept(b, places) ==
  LET upto[i \in 0..Len(b)] ==
        IF i = 0 THEN <<>>
        ELSE IF i \in places THEN Append(upto[i - 1], b[i]) ELSE upto[i - 1]
  IN  upto

IsFrames(c) == c.do \in {"preview", "prefetch"}

\* Mutant: the first preview of a batch is the one that runs.
StillMattersFirst(b) ==
  Kept(b, {i \in DOMAIN b :
             IsFrames(b[i]) => b[i].do = "preview" /\ \A k \in 1..(i - 1) : b[k].do # "preview"})[Len(b)]

\* handleCmd: all that is not a preview, the newest preview, the prefetches after it.
StillMatters(b) ==
  Kept(b, {i \in DOMAIN b :
             IsFrames(b[i]) => \A k \in (i + 1)..Len(b) : b[k].do # "preview"})[Len(b)]

Frame(w, gen, j)     == [type |-> "frame", win |-> w, gen |-> gen, ids |-> j.ids, text |-> j.text]
Fresh(w)             == [type |-> "fresh", win |-> w]
Select(w, quiet)     == [type |-> "select", win |-> w, quiet |-> quiet]
Surface(wide)        == [type |-> "surface", wide |-> wide]
Delta(w, base, j, l) ==
  LET rows == {r \in Row : j.text[r] # l.text[r]}
  IN  [type |-> "delta", win |-> w, base |-> base, gen |-> base + 1, ids |-> j.ids,
       rows |-> [r \in rows |-> j.text[r]]]

\* sendRole: only a sidebar that has said hello is sent anything.
Sends(msgs) == wire' = IF tui.up = "here" THEN wire \o msgs ELSE wire

\* pushSelect: on record for the sidebar that comes, and sent to the one that is.
Pushes(msgs, w, quiet) ==
  /\ chosen' = [win |-> w, quiet |-> quiet]
  /\ Sends(msgs \o <<Select(w, quiet)>>)

-----------------------------------------------------------------------------
(* A preview, in three steps: the geometry is asked for and the gates are    *)
(* tried, the panes are captured, and the frame is stamped and shipped.      *)

\* Mutant: a capture made in the same second as the last output is good enough.
GatedSameSecond(seen, w) ==
  seen # None /\ seen.ids = screen[w].ids /\ seen.act = screen[w].act

\* The gates: nothing new since the capture, which was made in a later second.
Gated(seen, w) ==
  /\ seen # None
  /\ seen.ids = screen[w].ids /\ seen.act = screen[w].act
  /\ seen.at > seen.act

Asked(w, kind) ==
  [win |-> w, kind |-> kind, ids |-> screen[w].ids, act |-> screen[w].act, text |-> None]

Asks(w, kind, p) ==
  /\ pv' = p
  /\ job' = IF \/ kind = "stream" /\ Gated(p.last, w)
               \/ kind = "prefetch" /\ Gated(p.warm[w], w)
            THEN None ELSE Asked(w, kind)
  /\ Sends(IF kind = "prefetch" /\ Gated(p.warm[w], w) THEN <<Fresh(w)>> ELSE <<>>)

\* A pane that is gone by now is an error, and the preview is given up.
Captures ==
  /\ job # None /\ job.text = None
  /\ job' = IF job.ids = screen[job.win].ids
            THEN [job EXCEPT !.text = screen[job.win].text] ELSE None
  /\ failed' = (failed \/ job' = None)
  /\ UNCHANGED <<screen, now, dock, scrub, chosen, pv, batch, cmds, wire, tui, keys, changes, late>>

Shot(j) == [ids |-> j.ids, text |-> j.text, act |-> j.act, at |-> now]

\* Mutant: a prefetch becomes what the stream compares with.
WarmedAsLast(p, j) == [p EXCEPT !.warm[j.win] = Shot(j), !.last = Shot(j)]

Warmed(p, j) == [p EXCEPT !.warm[j.win] = Shot(j)]

Showing(p, j, gen) == [p EXCEPT !.last = Shot(j), !.gen = gen, !.target = j.win]

Ships ==
  LET j    == job
      same == pv.last # None /\ pv.last.ids = j.ids
      row  == j.kind = "stream" /\ same
      idle == row /\ pv.last.text = j.text
  IN  /\ j # None /\ j.text # None
      /\ job' = None
      /\ IF j.kind = "prefetch"
         THEN /\ pv' = Warmed(pv, j)
              /\ Sends(<<Frame(j.win, 0, j)>>)
         ELSE /\ pv' = Showing(pv, j, IF idle THEN pv.gen ELSE pv.gen + 1)
              /\ Sends((IF idle THEN <<>>
                        ELSE IF row THEN <<Delta(j.win, pv.gen, j, pv.last)>>
                        ELSE <<Frame(j.win, pv.gen + 1, j)>>)
                       \o IF j.kind = "start" THEN <<Surface(TRUE)>> ELSE <<>>)
      /\ scrub' = (scrub \/ j.kind = "start")
      /\ late' = (late \/ /\ screen[j.win].text # j.text
                          /\ screen[j.win].act = j.act /\ now > j.act)
      /\ UNCHANGED <<screen, now, dock, chosen, batch, cmds, tui, keys, changes, failed>>

\* The ticker of the stream, which yields to commands.
Tick ==
  /\ job = None /\ batch = <<>> /\ cmds = <<>>
  /\ scrub /\ pv.target # None
  /\ Asks(pv.target, "stream", pv)
  /\ UNCHANGED <<screen, now, dock, scrub, chosen, batch, cmds, tui, keys, changes, late, failed>>

-----------------------------------------------------------------------------
(* The commands, as runCmd dispatches them. *)

Drain ==
  /\ job = None /\ batch = <<>> /\ cmds # <<>>
  /\ batch' = StillMatters(cmds)
  /\ cmds' = <<>>
  /\ UNCHANGED <<screen, now, dock, scrub, chosen, pv, job, wire, tui, keys, changes, late, failed>>

\* The command at the head of the batch is run, and is one of these.
Runs(what) ==
  /\ job = None /\ batch # <<>> /\ Head(batch).do = what
  /\ batch' = Tail(batch)
  /\ UNCHANGED <<screen, now, cmds, keys, changes, late, failed>>

Nothing == UNCHANGED <<dock, scrub, chosen, pv, job, wire, tui>>

\* scrubStart: the first frame is captured and shipped whole, then the sidebar zooms.
StartsScrub(w) == Asks(w, "start", Reset(pv))

\* scrubEnd: the sidebar is told that its pane is narrow again.
Unzoomed == <<Surface(FALSE)>>

\* While billboards show, a preview is one more; before that, it starts them.
RunPreview ==
  /\ Runs("preview")
  /\ LET w == Head(batch).win
     IN  \/ dock # None /\ scrub /\ Asks(w, "show", pv)
         \/ dock # None /\ ~scrub /\ w # dock /\ StartsScrub(w)
         \/ (dock # None => ~scrub /\ w = dock) /\ UNCHANGED <<pv, job, wire>>
  /\ UNCHANGED <<dock, scrub, chosen, tui>>

\* Abandoned when fresher input is queued.
RunPrefetch ==
  /\ Runs("prefetch")
  /\ IF dock # None /\ scrub /\ cmds = <<>>
     THEN Asks(Head(batch).win, "prefetch", pv)
     ELSE UNCHANGED <<pv, job, wire>>
  /\ UNCHANGED <<dock, scrub, chosen, tui>>

\* commitScrub, or dockCommit: not while billboards show, the window is not looked at.
RunCommit ==
  /\ Runs("commit")
  /\ LET w == Head(batch).win
     IN  \/ /\ dock # None /\ scrub /\ w = dock
            /\ Sends(Unzoomed)
            /\ scrub' = FALSE
            /\ UNCHANGED <<dock, chosen>>
         \/ /\ dock # None /\ scrub /\ w # dock
            /\ dock' = w /\ scrub' = FALSE
            /\ Pushes(Unzoomed, w, FALSE)
         \/ (dock = None \/ ~scrub) /\ UNCHANGED <<dock, scrub, chosen, wire>>
  /\ UNCHANGED <<pv, job, tui>>

Sidebar(up, life) ==
  [up |-> up, life |-> life, sel |-> None, unasked |-> FALSE, wide |-> FALSE, shrink |-> FALSE,
   cache |-> [w \in Window |-> None]]

\* dockOpen: a sidebar is spawned in w, and is to be born with a window selected.
Opens(w, win, quiet) ==
  /\ dock' = w
  /\ chosen' = [win |-> win, quiet |-> quiet]
  /\ tui' = Sidebar("born", tui.life + 1)
  /\ wire' = <<>>

\* dockClose: the pane of the sidebar is killed, what was on its way is lost.
Closes ==
  /\ dock' = None /\ scrub' = FALSE
  /\ pv' = [Reset(pv) EXCEPT !.target = None]
  /\ tui' = Sidebar("dead", tui.life)
  /\ wire' = <<>>
  /\ UNCHANGED <<chosen, job>>

RunClose ==
  /\ Runs("close")
  /\ \/ /\ dock # None /\ scrub
        /\ scrub' = FALSE
        /\ Pushes(Unzoomed, dock, FALSE)
        /\ UNCHANGED <<dock, pv, job, tui>>
     \/ dock # None /\ ~scrub /\ Closes
     \/ dock = None /\ Nothing

\* toggle: opens; closes, dismissing billboards; or gives the sidebar the keyboard.
Toggles ==
  \/ \E w \in Window : dock = None /\ Opens(w, w, FALSE) /\ UNCHANGED <<scrub, pv, job>>
  \/ dock # None /\ Closes
  \/ dock # None /\ ~scrub /\ Nothing

RunToggle == Runs("toggle") /\ Toggles

\* browseOpen: opens if need be, and billboards the window it is docked in.
RunBrowse ==
  /\ Runs("browse")
  /\ \/ \E w \in Window : /\ dock = None
                          /\ Opens(w, w, FALSE)
                          /\ pv' = Reset(pv) /\ job' = Asked(w, "start")
     \/ dock # None /\ ~scrub /\ StartsScrub(dock) /\ UNCHANGED <<dock, chosen, tui>>
     \/ dock # None /\ scrub /\ Nothing
  /\ UNCHANGED scrub

\* agentsOpen: the sidebar opens, or is given the keyboard, with an agent offered.
RunAgents ==
  /\ Runs("agents")
  /\ \/ \E w, agent \in Window : /\ dock = None /\ Opens(w, agent, TRUE)
                                 /\ UNCHANGED <<scrub, pv, job>>
     \/ \E agent \in Window : /\ dock # None /\ ~scrub /\ Pushes(<<>>, agent, TRUE)
                             /\ UNCHANGED <<dock, scrub, pv, job, tui>>
     \/ Toggles

\* Mutant: the width of the billboards is told once, when they begin.
HelloNoSurface(frame) == <<Select(chosen.win, chosen.quiet)>> \o frame

HelloReplay(frame) ==
  (IF scrub THEN <<Surface(TRUE)>> ELSE <<>>) \o <<Select(chosen.win, chosen.quiet)>> \o frame

\* hello-list: a sidebar that has painted is told what it missed.
RunHello ==
  /\ Runs("hello")
  /\ IF dock # None /\ tui.up = "here" /\ Head(batch).by = tui.life
     THEN wire' = wire \o HelloReplay(IF scrub /\ pv.last # None
                                      THEN <<Frame(pv.target, pv.gen, pv.last)>> ELSE <<>>)
     ELSE UNCHANGED wire
  /\ UNCHANGED <<dock, scrub, chosen, pv, job, tui>>

RunCmd == \/ RunPreview \/ RunPrefetch \/ RunCommit \/ RunClose
          \/ RunToggle \/ RunBrowse \/ RunAgents \/ RunHello

-----------------------------------------------------------------------------
(* The sidebar. *)

\* Painted from its snapshot, which carries the selection on record, it says hello.
SaysHello ==
  /\ tui.up = "born"
  /\ tui' = [tui EXCEPT !.up = "here", !.sel = chosen.win, !.unasked = chosen.quiet]
  /\ cmds' = Append(cmds, Hello(tui.life))
  /\ UNCHANGED <<screen, now, dock, scrub, chosen, pv, job, batch, wire, keys, changes, late, failed>>

\* applyDelta, when it is of the lineage that is cached.
Patches(t, m) == LET c == t.cache[m.win] IN c # None /\ c.gen = m.base /\ c.ids = m.ids

Patched(c, m) ==
  [gen |-> m.gen, ids |-> c.ids,
   text |-> [r \in Row |-> IF r \in DOMAIN m.rows THEN m.rows[r] ELSE c.text[r]]]

\* framesEqual: the ids of the panes are not compared.
SameContent(c, m) == c # None /\ c.text = m.text

\* What the sidebar is after a message.
Received(t, m) ==
  LET c == t.cache[m.win]
  IN  CASE m.type = "select" -> [t EXCEPT !.sel = m.win, !.unasked = m.quiet \/ t.shrink]
        [] m.type = "surface" -> [t EXCEPT !.wide = m.wide]
        [] m.type = "frame" ->
             IF SameContent(c, m) THEN [t EXCEPT !.cache[m.win].gen = m.gen]
             ELSE [t EXCEPT !.cache[m.win] = [gen |-> m.gen, ids |-> m.ids, text |-> m.text]]
        [] m.type = "delta" /\ Patches(t, m) ->
             [t EXCEPT !.cache[m.win] = Patched(c, m)]
        [] OTHER -> t

\* Whether it then asks for the frames of its selection.
Resyncs(t, m) ==
  \/ m.type = "select" /\ ~m.quiet /\ ~t.shrink
  \/ m.type = "delta" /\ ~Patches(t, m) /\ m.win = t.sel

Reads ==
  /\ tui.up = "here" /\ wire # <<>>
  /\ LET t == Received(tui, Head(wire))
     IN  IF Resyncs(tui, Head(wire))
         THEN tui' = [t EXCEPT !.unasked = FALSE] /\ cmds' = cmds \o Requests(t, t.sel)
         ELSE tui' = t /\ UNCHANGED cmds
  /\ wire' = Tail(wire)
  /\ UNCHANGED <<screen, now, dock, scrub, chosen, pv, job, batch, keys, changes, late, failed>>

Presses ==
  /\ keys < MaxKeys /\ keys' = keys + 1
  /\ UNCHANGED <<screen, now, dock, scrub, chosen, pv, job, batch, wire, changes, late, failed>>

\* moveSel: nothing is asked for while the pane is expected to shrink.
MoveSel(w) ==
  /\ Presses
  /\ tui.up = "here" /\ w # tui.sel
  /\ tui' = [tui EXCEPT !.sel = w, !.unasked = tui.shrink]
  /\ cmds' = IF tui.shrink THEN cmds ELSE cmds \o Requests(tui, w)

Enter ==
  /\ Presses
  /\ tui.up = "here"
  /\ tui' = [tui EXCEPT !.shrink = tui.wide]
  /\ cmds' = Append(cmds, Commit(tui.sel))

Quit ==
  /\ Presses
  /\ tui.up = "here"
  /\ tui' = [tui EXCEPT !.shrink = tui.wide]
  /\ cmds' = Append(cmds, Order("close"))

\* A key of tmux's own: winch toggle, browse or agents.
Calls(what) ==
  /\ Presses
  /\ cmds' = Append(cmds, Order(what))
  /\ UNCHANGED tui

\* The pane changed its size: the shrink has landed.
Winch ==
  /\ tui.shrink
  /\ tui' = [tui EXCEPT !.shrink = FALSE]
  /\ UNCHANGED <<screen, now, dock, scrub, chosen, pv, job, batch, cmds, wire, keys, changes, late, failed>>

-----------------------------------------------------------------------------
(* The windows, and the clock. *)

\* Bound: windows change only while one is billboarded; nobody looks before.
Changes ==
  /\ changes < MaxChanges /\ changes' = changes + 1
  /\ pv.target # None \/ job # None
  /\ UNCHANGED <<now, dock, scrub, chosen, pv, job, batch, cmds, wire, tui, keys, late, failed>>

Output(w, r, g) ==
  /\ Changes
  /\ screen[w].text[r] # g
  /\ screen' = [screen EXCEPT ![w].text[r] = g, ![w].act = now]

\* A pane of the window is replaced by another, of the same place and content.
Respawn(w) ==
  /\ Changes
  /\ screen' = [screen EXCEPT ![w].ids = @ + 1]

\* Bound: only the order of outputs and captures is told from the clock, and a
\* second without output changes none.
Second ==
  /\ \E w \in Window : screen[w].act = now
  /\ now < MaxSecs /\ now' = now + 1
  /\ UNCHANGED <<screen, dock, scrub, chosen, pv, job, batch, cmds, wire, tui, keys, changes, late, failed>>

-----------------------------------------------------------------------------
\* The sidebar has just been docked, by toggle or by browse, and says nothing yet;
\* the windows have printed this second.
\* Windows and glyphs are alike, so that it may be this one, and these texts.
Init ==
  /\ screen = [w \in Window |-> [ids |-> 0, act |-> 1,
                                 text |-> [r \in Row |-> CHOOSE g \in Glyph : TRUE]]]
  /\ now = 1 /\ keys = 0 /\ changes = 0 /\ late = FALSE /\ failed = FALSE
  /\ dock = CHOOSE w \in Window : TRUE
  /\ scrub = FALSE /\ chosen = [win |-> dock, quiet |-> FALSE]
  /\ pv = [target |-> None, last |-> None, gen |-> 0, warm |-> NoWarm]
  /\ job \in {None, Asked(dock, "start")}
  /\ batch = <<>> /\ cmds = <<>> /\ wire = <<>>
  /\ tui = Sidebar("born", 0)

Daemon == Drain \/ RunCmd \/ Captures \/ Ships \/ Tick

Next ==
  \/ Daemon \/ SaysHello \/ Reads \/ Winch \/ Second \/ Enter \/ Quit
  \/ \E w \in Window : MoveSel(w) \/ Respawn(w)
  \/ \E w \in Window, r \in Row, g \in Glyph : Output(w, r, g)
  \/ \E what \in {"toggle", "browse", "agents"} : Calls(what)

Spec == Init /\ [][Next]_vars

-----------------------------------------------------------------------------
Command ==
  [do : {"preview", "prefetch", "commit"}, win : Window]
    \cup [do : {"close", "toggle", "browse", "agents"}, win : {None}]
    \cup [do : {"hello"}, win : {None}, by : Nat]

Message ==
  [type : {"select"}, win : Window, quiet : BOOLEAN]
    \cup [type : {"surface"}, wide : BOOLEAN]
    \cup [type : {"fresh"}, win : Window]
    \cup [type : {"frame"}, win : Window, gen : Nat, ids : Nat, text : Texts]
    \cup [type : {"delta"}, win : Window, base : Nat, gen : Nat, ids : Nat,
          rows : UNION {[rows -> Glyph] : rows \in SUBSET Row}]

Views ==
  [target : Window \cup {None}, last : Memory \cup {None}, gen : Nat,
   warm : [Window -> Memory \cup {None}]]

Tui ==
  [up : {"dead", "born", "here"}, life : Nat, sel : Window \cup {None}, unasked : BOOLEAN,
   wide : BOOLEAN, shrink : BOOLEAN, cache : [Window -> Cached \cup {None}]]

\* The types of the variables: without a dock there is no sidebar, and one that is there
\* is on a window.
TypeOK ==
  /\ screen \in [Window -> [ids : Nat, act : 0..MaxSecs, text : Texts]]
  /\ now \in 0..MaxSecs /\ keys \in 0..MaxKeys /\ changes \in 0..MaxChanges
  /\ dock \in Window \cup {None} /\ scrub \in BOOLEAN /\ late \in BOOLEAN /\ failed \in BOOLEAN
  /\ chosen \in [win : Window, quiet : BOOLEAN]
  /\ pv \in Views
  /\ job \in Job \cup {None}
  /\ batch \in Seq(Command) /\ cmds \in Seq(Command) /\ wire \in Seq(Message)
  /\ tui \in Tui /\ (tui.up = "here" => tui.sel \in Window)
  /\ (dock = None <=> tui.up = "dead") /\ (scrub \/ job # None => dock # None)

\* A sidebar that has read some messages.
After(t, msgs) ==
  LET upto[i \in 0..Len(msgs)] == IF i = 0 THEN t ELSE Received(upto[i - 1], msgs[i])
  IN  upto

\* The sidebar as it will be when it has read all that was sent.
Reached == After(tui, wire)[Len(wire)]

AtRest == job = None /\ batch = <<>> /\ cmds = <<>> /\ wire = <<>> /\ tui.up = "here"

\* A delta is made from what the daemon last shipped: the sidebar that has that
\* generation of the target has that content, so that the delta patches it rightly.
LineageHolds ==
  LET c == Reached.cache[pv.target]
  IN  tui.up = "here" /\ pv.last # None /\ pv.target # None =>
        (c # None /\ c.gen = pv.gen => c.text = pv.last.text)

\* When all is quiet the billboards show the window of the selection, and without
\* billboards the selection is on the docked window: unless the daemon placed it,
\* or it moved while the pane was to shrink, or a preview failed.
FollowsSelection ==
  AtRest /\ ~tui.unasked /\ ~failed =>
    tui.sel = IF scrub THEN pv.target ELSE dock

\* When all is quiet the sidebar lays itself out wide exactly while billboards show.
WideWithBillboards == AtRest => tui.wide = scrub

\* A sidebar told that its frame of a window is still current holds what the window
\* shows, or nothing: in preview.go's words, never wrong content. Not after a preview
\* that failed, nor after output that came between a capture and the stamp of it.
FreshIsTrue ==
  [][\A w \in Window : wire' = Append(wire, Fresh(w)) =>
       \/ late \/ failed
       \/ Reached.cache[w] = None \/ Reached.cache[w].text = screen[w].text]_vars

\* The same, whatever failed: "an evicted cache can only cost a missed instant paint,
\* never wrong content" (preview.go), of the cache a replayed frame overwrites as well.
NeverWrong ==
  [][\A w \in Window : wire' = Append(wire, Fresh(w)) =>
       late \/ Reached.cache[w] = None \/ Reached.cache[w].text = screen[w].text]_vars

\* agentsOpen selects the agent's window quietly: "The row is selected and the list
\* scrolls to it; Enter is what goes there" (router.go).
EnterGoesThere ==
  [][\A w \in Window :
       batch # <<>> /\ Head(batch) = Commit(w) /\ batch' = Tail(batch)
         /\ dock # None /\ chosen = [win |-> w, quiet |-> TRUE] => dock' = w]_vars
=============================================================================
