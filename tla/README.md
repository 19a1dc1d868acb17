# winch, verified: TLA+ models, checks and proofs

winch is a tmux companion in Go. A daemon holds one control connection
(`tmux -C`), mirrors the sessions, windows and panes of the server, detects the
coding agents that run in its panes, and serves a Unix socket. A sidebar program
is a client of that socket, and runs in a real tmux pane that the daemon moves
around ("the dock").

This directory models the parts of winch whose correctness is about order:
what happens when a line of commands stops halfway, a timer meets a command, the
user acts between two re-lists, a subscriber is slow, two daemons start at once,
or the daemon dies; and the one piece of arithmetic that order interacts with,
the sizes of the panes.
Modules carry the names of the code where TLA+ allows it. `PROJECT.json` maps each
definition to the lines it models. All paths below are under `src/cmd/winch/`
unless they say otherwise.

## 1. Inventory

### How the parts interact

`daemon.go:consume` is one loop in one goroutine. It waits on the control
connection (a *kick*, or its end), commands from the hub, and timers (preview
tick, detection tick, git tick, debounced re-list, close, focus, release). All
state of the dock, the options registry, detection and the jumplist belongs to
this loop, so two of its cases never overlap. What interleaves is

- **tmux and its user**, who act between any two cases, and between two lines of
  commands of one case; the daemon learns of it by a re-list, later;
- **the goroutines of the hub**: one that accepts, and a reader and a writer per
  connection, which share `h.mu`, the channel of commands and a channel per
  subscriber with the loop;
- **the reader of the control connection**, a goroutine that hands out replies and nudges the loop;
- **the sidebar**, whose keys race the daemon's messages;
- **the next daemon**, which finds in tmux and at the socket's path whatever the last one left, and
  may be starting while another does.

The loop talks to tmux in lines. tmux runs the commands of one line in order
and drops the rest at the first error; nothing is rolled back.

### Components

| Component | State | Operations | What is hard | What makes it correct |
|---|---|---|---|---|
| **Option registry** `owned.go` | `saved`, `installed`; marks `@winch_saved_*` in tmux | `plan`, `commit`, `releaseAll`, `releaseWindow`, `forgetWindow`, the sweep of a successor | a line stops between mark and value; objects die under their claims; crash; re-attach; a close in two phases | the user's value can be recovered from tmux alone at every moment; a restore never replays winch's own value |
| **Dock and spacers** `dock.go`, `preview.go` | `d.dock`, `pendingClose`, `pendingRelease`, timers | open, move, close, scrub, carve, checkDock, reap, adopt, release, sweep | lines that fail halfway; the user switches, closes panes and windows; undock followed by dock before all spacers went | one owner at a time; no pane forgotten; each pane where it is believed to be; windows get their layout back; every spacer is released |
| **Agent detection** `detect.go`, `notify.go` | `agentState` per pane, notes waiting, what was published | detection tick, `checkSeen`, grace, publication, arming and firing of notifications | confirmation counts against alternating verdicts; notes that outlive their state; two paths that publish | turns end on evidence; one notification per turn; done is unseen; what is shown is what is found |
| **Hub** `server.go`, `model.go:diffWorlds` | the published world, subscribers, roles, selection | subscribe, broadcast, send, drop, hello, resync | bounded queues, several locks, three goroutines per connection, an unreading client | a subscriber that is kept misses nothing; one that is dropped learns of it; it shows only published worlds, in order |
| **Sidebar** `tui.go` | the store, rows, selection, prompt, text field, finder, half an escape sequence, cache of frames | apply, hello, keys, mouse, paint | keys ahead of answers, a pane that is about to shrink, deltas against a base, an index into rows that every message rebuilds, four owners of one keyboard | it shows what the hub published; what is billboarded is what is selected; the selection stays on its session or agent; one thing owns the keyboard, and is on the screen |
| **Jumplist** `jumplist.go` | entries and a place per client | record, prune, back, forward | dead windows, the cap, a walk in the middle, jumps that fail or are followed late, the dock | one entry per window; the place is where the client is; back returns to where it was |
| **Event loop** `daemon.go` | the timers, debounce, `lastSeen` | `runDaemon`, `consume`, `onRelist` | re-attachment with live state; kicks that coalesce | every change is followed by a re-list; nothing waits on itself |
| **Command router** `router.go` | `pendingSel`, coalescing of a batch | toggle, preview, commit, close, browse, find, kill, go to pane, new session, agents | previews dropped around commands that are not; killing the last pane of a session that has clients | commands keep their order; the newest preview wins; a client is never left without a session |
| **Control connection** `control.go` | queue of waiters, the block owed to the attach, `kick`, `done` | `run`, `runSeq`, `runPipelined`, `deliver`, the end of the stream, dial | replies are matched by order only; an error drops the rest of a line; the end races a caller that registers; one kick for many changes | each caller gets the whole reply to its own line; nobody waits for ever; an announced change is listed |
| **World mirror** `model.go` | last world | `fetchWorld`, `diffWorlds` | three lists read one after the other | the mirror is a world tmux was in, once quiet |
| **Preview frames** `preview.go` | target, last frame shipped, generation, warm prefetches | preview, tick, prefetch, delta, carve | a delta on the wrong base, an activity gate with the granularity of a second, prefetches into the same cache | the sidebar's cache holds what the window shows, or what it will be told |
| **Layout arithmetic** `layout.go` | none of its own; the layouts saved per window, the width | parse, scale, fit, apportion, drop the sidebar, pin | rounding and minimums; a layout saved at another size; a drag told from a resize | a window gets its own layout back, in its present size; a docked layout survives an undock; only the user changes the width |
| **Equalize** `equalize.go`, `nvimrpc.go` | the mark `@winch_layout_dirty` in tmux | weigh, allocate, apply | it may run on the sidebar's window, a billboard's or a free one; the mark outlives the dock | the shares it has given are what the window is given back with |
| **Configuration** `config.go` | tmux global options | read, write, order of sessions across renames | a rename between two lists | the order survives |
| **Manifest rules** `manifest.go` | compiled rules | load, evaluate | priority between rules | the verdict is that of the first rule that matches |
| **Shadow geometry** `shadow.go`, `emulate.go`, `width.go` | none | predict the cells of a carved window | tmux's own reflow | equal to tmux |
| **Client commands and start-up** `client.go`, `socket.go`, `main.go`, `daemon.go:runDaemon` | the path of the socket | dial, spawn, retry; bind, probe, steal, serve, unlink | two clients spawn at once; a socket bound and not yet listening; a daemon that leaves unlinks what is there by then | one daemon per server; a client that gets through finds a world; who keeps asking is answered |
| **Git identity** `git.go`, **Doctor** `doctor.go`, **Agent rows and fuzzy** `agentrows.go`, `fuzzy.go`, **Notification delivery** `notify_darwin.go`, `notify_other.go`, `platform/` | caches | poll, report, score, deliver | little order to get wrong | — |

The hazards, line by line and with the properties that watch for them, are the
list `hazards` of `PROJECT.json`. Those without a property say why.

## 2. Modules

| Module | What it is |
|---|---|
| `OwnedOptions` | the registry, tmux's options and marks, crashes and sweeps |
| `Dock` | the sidebar, the spacers, the windows they stand in |
| `DockProofs` | what a line does to tmux, its inductive invariant and seven theorems |
| `Detect` | one detection pass, publication, notes |
| `DetectProofs` | its inductive invariant and seven theorems |
| `Hub` | hub, subscribers, connections, sidebars' hello |
| `HubProofs` | its inductive invariant, six theorems, the refinement of `Feed` among them |
| `Feed` | what the hub promises a subscriber; `Hub` implements it |
| `JumpList` | histories of places per client, and the jumps |
| `JumpListProofs` | its inductive invariant and seven theorems |
| `Billboards` | scrubbing: commands and their coalescing, previews, the sidebar's selection and cache |
| `BillboardsProofs` | its inductive invariants and six theorems |
| `Control` | the control connection, its callers, the kick and the re-list |
| `ControlProofs` | its inductive invariants and five theorems |
| `Startup` | clients that start daemons, the path of the socket, daemons that start, fail and leave |
| `DaemonProofs` | the inductive invariants of `OwnedOptions` and of `Startup`, which it extends both, and ten theorems |
| `Sidebar` | rows, selection and keyboard of the sidebar |
| `SidebarProofs` | its inductive invariant and five theorems |
| `Layout` | one window's sizes through docks, moves, equalizing, drags and resizes |
| `MC*` | constants for TLC, one per run or family of runs |

`Dock` and `OwnedOptions` overlap on purpose. A dock carries its claims in the
same lines as its panes: `OwnedOptions` has the lines' options and a flag for "the
rest of the line worked", `Dock` has the lines' panes and only *which* windows
are claimed. Each is exhaustive on its own half; the join is the failure of a
restore on a dead window (`Strands` in `Dock`, `Mislaid` in `OwnedOptions`).
`Layout` is the third view of the same lines: their sizes, for one window. `Control`
is what lies under all of them, the pipe a line goes through; its abstraction of a handler
(any sequence of lines that may fail) contains the lines of the others. `Billboards` and
`Sidebar` share the sidebar: the first its requests, the second its list.

### OwnedOptions ↔ owned.go, and the lines of dock.go that carry a plan

A *key* is an option of a session or a window (`optKey`). `opt` and `mark` are what
tmux holds, `saved` and `installed` the registry, `deferred` the restores that a close
in two phases has still to send. `orig` is a history variable: what the user last
set. `lost` (history) names the keys whose original the protocol has given up, in
two ways: the user writes an option while winch still means to replay an older
value over it (`UserSets`), or a plan claims a key whose leftover mark it then
overwrites with winch's own value, or rewrites one whose mark is gone (`Mislaid`).
Properties that speak of originals are about the keys not in `lost`; finding 3
is what the second way means to a user.

`OpenDock`, `Carve` and `Move` build a plan, send it, and commit it if the line ran
to its end; `tail` says whether the rest of the line (split, swap, select) worked.
`Replan` is the re-plan of an idle dock, `Undock` and `UndockLater` are
`releaseAll` in one and in two phases, `FlushPendingClose` the second phase, `Reap` is
`reapEmptyCarves`. `Crash`, `Start` and `Reattach` are the ends and beginnings of
`runDaemon`; the latter two sweep.

Abstracted: a value is a token (the pad, the scrub, the style each one value).
Reading an option and installing winch's value are one action; in the code one
round trip lies between, listed as a hazard without a property.

### Dock ↔ dock.go, preview.go's carve, the commands of router.go

`tmux` is a record: the window of every pane of winch (`at`), the windows where the
user has a pane (`real`), the shape of every window and the client's window. A line
is a sequence of commands; `Run` folds it over that record and stops at the first
command that is not `Possible`, as tmux does. Every operation is a function from
what the daemon holds to what it holds next, so that one that calls another
(`dockOpen` adopts, `dockClose` releases, `checkDock` moves) composes. The
actions are the cases of the loop: the commands, `Relist` (with `checkDock`, reap
and prune, always in the same step), `CloseTimer`, `ReleaseTimer`.

`shape` abstracts layout strings: `own` as the user left it, `docked` with a
column split off, `torn` when the column went and nothing was replayed.
`rough` (history) names the windows that somebody other than an orderly undock
reshaped: a pane of winch killed by hand, a crash. `also` is the session of each other client, `None` without a terminal:
they ask winch for nothing, share the window of their session, and lose their terminal with its last window
(`Staying`). `input` is what the release timer would find: nothing lately, keys (of any client), or commands queued. `broke` (history) is set when
a line has stopped after it had changed something; a behaviour ends there, because
the code has no repair for it but the next daemon's sweep, and every property would
only repeat that one fact.

`KillSession` and `KillPane` are `killTarget`: `Disarmed` (billboards end, carves of what dies
are forgotten), `Refuges` (`pickRefuge`), `Evacuated` and `Cleared` (the sidebar leaves, and the client if it
was not carried), `Escorted` (the other clients, who are looked through only if the sidebar has not moved) and the kill.
`front` is the window in front in the doomed session, by which `clientDoomed` judges its clients. Only the kill of the *last* of the user's panes in a window is an
action, the others change nothing that is modelled. `Refuges` is a set where the code takes
the lowest index of the first session. `GotoPane` is the click on a notification; it takes every client along.

`ReleaseTimer` is its handler with `releasePick`: a window that some client has in front goes first, typing or not;
else any window, once nobody has typed for two seconds; queued commands come before either; and when none may go, the timer is set
again and nothing else happens. `GivesInput` lets keys and commands come and go at any time while something waits.

Abstracted: sizes, which are `Layout`'s; rows; order of windows in a session; which of the user's panes has the focus.
Not modelled: when the user sets the width, `setWidth` resizes the spacers along with the sidebar (`dock.go:1797-1803`); no pane
comes, goes or moves by it, and the sizes of windows other than one are outside `Layout` as well. Idealised: every change of tmux reaches the control client, so it
sets the kick (`control.go:137` lists the exceptions; in `Control` a change may go unannounced).

### Detect ↔ detect.go, notify.go's policy

`Tick` is a whole detection pass, for all panes: scans, `applyVerdict` with its
counters, `markDone`, disappearance, publication, then the notes that are ripe.
The verdict of a manifest on a screen is an input: any state, motion or not, or
nothing. `Relist` is `checkSeen` and its publication, `Reattach` the world that a
re-attachment publishes, `GraceEnds` the end of the start-up grace by wall clock.
Time is counted in ticks, and the delay of a notification is `Delay` of them.
`still`, `proof`, `held`, `told`, `turns` and `stray` are history.

### Hub ↔ server.go, tui.go's store

`chan` is the buffered channel of each subscriber, `wire` its socket buffer, `cmds`
`h.cmds`, all three bounded. Each critical section of `h.mu` is an action.
`pushSelection` takes the lock twice and is two (`PushRecords`,
`PushSends`). The reader of a connection blocks on `h.cmds` (`Hears`, then
`Queues`), a drop closes the channel, the writer drains it and closes the socket
(`Shuts`), the reader's end removes the subscription (`Removes`). `Replays` is the
daemon's answer to `hello list`: role and selection. Every other command is one
anonymous entry of `cmds` (`OthersQueue`, `OtherRuns`).

`replica` is what the client shows, and the place in the log of published
worlds it comes from; the messages carry that place as a ghost, nothing reads it.

### JumpList ↔ jumplist.go

`actw` and `actp` are tmux's active window per session and pane per window, `on`
the session of each client. `Relist` is `recordJumps` after `checkDock`.
A jump is two steps, because the user acts between its re-list and its commands:
`JumpSteps` records and walks, then `JumpDocks` (when the client has the dock:
`dockMove`) or `JumpMoves` (switch, select), which puts the place back if it fails.
`JumpEnds` is a jump at an end of the history, which only records.
`Own` stands for a pane of winch, and a window's name for the pane it always has.
`kept` and `fresh` are history: `fresh` are the clients that nobody has moved since their place was recorded. A
jump of the docked client may move others with it (`Drags`: clients of one session share its window), and those
are not fresh any more.

Idealised: no window is linked into two sessions or moved between them; of winch's
panes only the sidebar can have the focus.

### Billboards ↔ preview.go, the coalescing of router.go, the selection of tui.go

While the sidebar is docked its user walks a list of windows; for each the sidebar asks for
a preview, and the daemon shows it as a billboard and keeps it live. `cmds` is `h.cmds`,
`batch` what `handleCmd` has drained and `StillMatters` has not dropped, `wire` what was sent to
the sidebar (that nothing on it is lost is `Hub`'s subject). A preview is three steps, because
windows print between its round trips: `Asks` (geometry, and the gate that may spare the capture),
`Captures`, and `Ships` (stamp, then a full frame, a delta or nothing). Other cases
of the loop cannot come between them, as in the code; tmux and the sidebar can.
`pv` is `previewState`: `last` and `gen` for the stream, `warm` for prefetches.

`tui` is the sidebar: born with the selection the hub has on record, then told and driven.
`wide` is the width it lays itself out in, `shrink` is `shrinkExpected`, `cache` its frames
with their generations. `unasked` says that the selection was placed by the daemon, or moved while
nothing is asked for. `screen` is what tmux would answer: the panes of each window, their
text, and the second it last printed in (`window_activity`).

History: `late`, an output came between a capture and its stamp, so that the gate takes it for
seen; `failed`, a preview was given up because a pane had gone. Both are real, described
under findings, and what a property excepts.

Abstracted: panes within a window are one; time-to-live and eviction of cached frames (a cache
that holds less asks for more); docks that fail, and the user's moves in tmux, which are `Dock`'s.

### Control ↔ control.go, the loop's end of it in daemon.go

`lines` are the lines written on a connection, each with the number of commands tmux will run (`cmds`)
and of blocks its caller waits for (`n`); `stream` is what tmux has written, `read` how much of it the reader has
taken. `first`, `got` and `part` are `c.pending` and its foremost waiter. Block 1 answers the attach itself
(`hello`). `Runs` is a command of tmux; an error ends its line (`IsLast`, `Upcoming`). `ReadsBlock` is
`deliver`; `ReadsNews` the kick of capacity one; `ReadsEnd` and `ClosesDone` the two steps of the reader's end,
between which a caller may register; `Takes` a caller, which may choose its reply or `c.done` when
both are there, as Go's select does. `Send` registers and writes under one lock, and may fail.
`Fires` is the debounced re-list, `Serves` a client's command, `Redials` the re-attachment.

`Calls` are what handlers send: sequences of lines. `WellFormed` says that each line that is
written waits for as many blocks as it has commands; the run assumes it of its four calls (one command, a line
of two, two lines in one write, a diff that is empty on one side), the theorems of any. The run `own_reply`
has the one call of the code that is not so.

Abstracted: the payload of a block is its identity. `fetchWorld`'s three listings are one line, and a
listing that answers between two changes is one that is stale; a torn listing is not modelled.

### Startup ↔ client.go, daemon.go:runDaemon and listenExclusive

`path` is what the path of the socket names: the socket of a living daemon, a stale one, nothing.
`bind` and `listen` are two steps (`Binds`, `Serves`), as are the probe of a socket in the way, its removal and
the second bind (`Probes`, `Steals`, `Rebinds`). A daemon whose socket was unlinked goes on serving who is
connected. `Dials` is `dialEnsure`; its two seconds may be over at any time (`GivesUp`). `Crashes` leaves the
socket, `Signalled` and `GivesUpServer` go through the deferred `os.Remove`, which does not look whose socket it is.
`contended` (history) is set when two daemons are exposed at once, between the first look at the path and
`listen`, or before the last removal. Faults (crashes, signals, lost connections, a second `winch run`) are bounded together.

### Sidebar ↔ tui.go

`rows` is an operator of the state, as `store.rows` and `filterRows` are: what is not a session, an agent or a match
is inert. `sel` is the index. The owners of the keyboard are the list, `confirm`, `edit` and `filtering`;
`esc` is how much of an escape sequence has been read (the bytes of an arrow may come in two reads).
`Diff`, `Order`, `Select` and `Find` are messages of the daemon; the rest are keys and clicks, each with all of
its rebuild: `Refind` looks for the row of the same entity and `Clamp`s otherwise. The ranking of the finder is any
sequence of what lives.

Abstracted: painting, the paging through an entity's windows, the dragging of the border, the mouse on the
canvas, the commands that keys send (`Billboards`, `Dock`).

### Layout ↔ layout.go, equalize.go, and the geometry of dock.go and preview.go

A layout is a tree of sizes; positions follow. `tree` is one window with what winch has put in, `held` what stands at its
left edge. `DockOpen` splits and pins (`eqLeafResizes` over `scaleX`); `Take` is the carve of a billboard and dockMove's first
visit; `Leave` and `Enter` are the swaps of dockMove; `GiveBack` is `leaveLayout` at the undock and in `releaseOne`;
`Equalize` has both ways of `equalizeWindow`; `CheckWidth` is the end of `checkDock` and the command by which the
sidebar reports its width. `Drag`, `Resize`, `View` and `Abandon` are tmux and its user.

Shares are sets: where the code breaks ties of floating-point remainders, any order is allowed. tmux's own
rescaling is any tiling within a cell of proportion (`Rescaled`), and a layout that does not add up is refused
(`Lands`). History: `reshaped`, where the user has equalized since the window was taken; `stale`, the mark is a leftover;
`gave`, what was last given back, as it was when docked; `dragged` and `drift`, which of the two changed the
sidebar's width since the dock last looked (`drift` only if the window's width does not tell).

## 3. Runs

`tlc -workers 2 -config X.cfg M`, each within three minutes.

| Run | Module, cfg | States | What it shows |
|---|---|---|---|
| `owned_options` | `MCOwnedOptions` | 135,974 | recovery from tmux alone, restores, sweeps, the end of closes |
| `dock` | `MCDock` | 45,048 | panes, layouts, release, kills, following the client |
| `detect` | `MCDetect` | 133,644 | turns, notes, publication |
| `hub` | `MCHub` | 319,033 | streams, selection, drops, hello, the refinement of `Feed` |
| `jumplist` | `MCJumpList` | 352,805 | histories and jumps |
| `billboards` | `MCBillboards` | 2,184,807 | selection and billboard, width, deltas, the gates |
| `control` | `MCControl` | 392,818 | own replies, no hang, no announced change lost |
| `own_reply` | `MCUnsplit`, `MCOwnReply.cfg` | violation | finding 1 |
| `startup` | `MCStartup` | 133,414 | one daemon, and that it comes up |
| `sidebar` | `MCSidebar` | 34,260 | selection and keyboard |
| `layout` | `MCLayout` | 62,751 | layouts given back, round trips, the width |
| `equalize_kept` | `MCLayout`, `MCEqualizeKept.cfg` | violation | finding 2 |

The other `.cfg` files reproduce the counterexamples of findings 3 to 14, but for `MCDockTogether`: the run `dock` with room in the two
windows of one session, instead of one in each, which passes (41,036 states). `MCNeverWrong` follows one schedule, of four keys,
which is out of reach of the bounds of `MCBillboards`.

### Properties

- **OwnedOptions.** `ExactRecovery`: at every moment a successor finds the user's value in
  tmux (the mark if there is one, else the option), for every key not in `lost`: a
  line that aborts, a crash or a death of an object loses nothing by itself.
  `RestoresAreOriginals`: what would be replayed is the user's.
  `AgreesUnlessFault`: claims and marks correspond as long as no line aborted.
  `StartupHeals`: a daemon that starts leaves nothing behind.
  `CloseCompletes`: a close in two phases ends.
- **Dock.** `NoOrphans`, `PanesInPlace`, `WindowsWhole`; `KillCarriesClient` (a kill from
  the sidebar leaves its client in a window while there is one, and, as long as the sidebar itself does not move, every
  other client too: finding 13 is what happens when it does); and the liveness of
  `QueueDrains` (all spacers that wait are released or adopted, unless commands keep coming, or somebody keeps
  typing and the client is in a window where none waits), `FollowsClient`
  and `EmptyWindowsClose` (a window whose last pane of the user exits closes although
  a spacer stands in it).
- **Detect.** `CompletesOnEvidence`: a turn ends on visible evidence, at once, or on three still samples. That the evidence needs no
  hold is what the code does; a comment and a document say otherwise (finding 14).
  `OncePerTurn`, `DoneIsUnseen`, `PublishedState`, `ToldWhatLasts`.
- **Hub.** `StreamsAgree` and `SelectionAgrees`: what a subscriber shows after all that is on
  its way is the world, and the selection. `DroppedLearns`, `HelloAnswered`.
  `FollowsPublished`: the hub implements `Feed`, by the mapping of `pos` and `shown` to
  what the replica shows.
- **JumpList.** `PlaceIsWhere`, `PaneRemembered`, `BackReturns`, `RestKept`.
- **Billboards.** `LineageHolds`: a delta is applied to the content it was made from, or to nothing.
  `FollowsSelection`, `WideWithBillboards`: once all is quiet the billboard is the selection's, and the
  sidebar has the width the daemon has given its pane. `FreshIsTrue`: when the
  daemon spares a capture the sidebar already has what the window shows, up to a preview that fails (finding 12).
- **Control.** `OwnReply`: whoever is answered has all the blocks of his own line and none of another's. `Answered`: the
  loop never waits for ever. `AnnouncedIsSeen`: a change that tmux has announced is listed, whatever it falls into.
- **Startup.** `OneUnlessContended`: as long as no two daemons have been exposed at once there is one, and the path is
  its. `ComesUp`: once faults have come to an end, who keeps asking is answered.
- **Sidebar.** `OwnerIsDrawn`: one thing owns the keyboard, and a prompt is on the row of what it would kill.
  `SelectionSticks`: no rebuild of the rows moves the selection off a session or agent that is still there, if it was
  found in the list.
- **Layout.** `GivesBack`: a window is given back as it was taken, to the cell in its old size, in proportion in another, or in the
  proportions its user gave it beside the sidebar. `RoundTrip`: a reshaped docked layout comes back with the next
  dock. `WidthIsChosen`: the width changes only by a drag, or where the code could not tell. The first two except windows
  with a pane of one column, `GivesBack` also a leftover mark and windows equalized in a spacer's hands: findings 2 and 10, and below.

Type invariants are proved, except `Layout`'s, and in no cfg. Five more are proved and in no cfg: `OneOwner` (`Dock`), `NoDuplicates`
(`JumpList`), `OnSomething` (`Sidebar`), and two on which liveness rests: `NewsKept` (`Control`), what `AnnouncedIsSeen`
must not lose on the way, and `QueuedOnce` (`Hub`), the same of `HelloAnswered`.

Each one fails under at least one plausible bug in the code it is about, which
`PROJECT.json` lists under `mutants` as a replacement of one definition by another of
the same module (marked `Mutant:` there).

### Bounds, and why they are enough

- `OwnedOptions`: two sessions, a window in one of them, an option on each of the three:
  a line then has a command before and one after any that fails, and an object
  can die alone or with its session. One user value besides "unset" and one user write: the
  hazards are about one write that comes between two steps. The theorems have no such bound.
- `Dock`: three windows in two sessions (a move within and between), two
  spacers (one in each window that the sidebar is not in; a third reaches the same states), two sidebars (one in use and one closing), one window whose options
  cannot be replayed when it is gone (`Named`), one too narrow (`Roomy`), one client that docks and one that only
  has a session (`Other`; the theorems have any number of these). One client docks: the code has one dock too, but which client
  docks may change, and here it does not. One
  disturbance by the user per behaviour besides any number of moves of the client (two in the
  counterexamples of findings 4 and 5). Ids of panes are re-used when
  nobody remembers them, so a behaviour may dock any number of times.
- `Detect`: one pane, two kinds (a pane may change programs), two windows and
  "nowhere" for the client, 3 confirmations as in the code, a delay of two ticks, one move
  of the pane. Panes do not interact in a pass but through the flag that
  something changed.
- `Hub`: one client, two entities, three published worlds, two selections, a queue of two
  messages, a wire and a command queue of one. Subscribers share nothing but
  the lock; the others' commands are `OthersQueue`. A queue of two fills in the middle
  of a resync.
- `Billboards`: two windows of one row (so that every walk is between the docked window and another,
  and a commit is either), two keys, one change of a window, two seconds: the least with which a preview is
  overtaken by a key, a capture by an output, and an output falls into the second of a capture or
  after it. Windows and texts are alike in `Init`. A window changes only while one is billboarded,
  since nobody looks at it otherwise, and the clock moves only past a second with output, since the gate
  only compares.
- `JumpList`: two clients, four windows in two sessions, one pane that moves, a cap of
  three (so that four windows overflow it), three disturbances. Two clients, because those of one session share its
  window, and the jump of one takes the other along. The clients are interchangeable, and so are the windows of the first
  session: no definition names one, and the properties are safety, so the symmetry is sound.

- `Control`: the four calls above, two changes of the world, two commands, one connection that ends. A line of two is the
  least in which an error can drop something, two connections the least with a re-dial.
- `Startup`: two clients, one of them `winch ls`, three daemons, two faults: two daemons that race and one that is there.
- `Sidebar`: two sessions, one with a second line and with two (symmetric) agents, two messages that change the world,
  queries of one character, two matches.
- `Layout`: windows of 12x3 and 10x4 cells, widths of one and two, two shapes (a row of three, and a pane beside a column whose top is
  a row: the least with a nested scale in both directions), one answer of nvim, two moves of the user, no pane of one
  column at first. At these sizes every share is rounded, clamps and ties happen at once, and a resize moves every border.

Deadlock is checked in `Detect`, `JumpList` and `Startup`. It is off in `OwnedOptions`, `Dock`,
`Hub`, `Billboards`, `Control`, `Sidebar` and `Layout`, where a behaviour can come to rest when its bounds are used up (and, in
`Dock`, at the first broken line).

### Fairness

- `OwnedOptions`, `Dock`: a timer that is armed fires, and the loop receives it; a kick is
  followed by a re-list. The loop waits for all its channels at once, none of its
  cases blocks for ever, and Go's select chooses among the ready ones at random. In
  `Dock` the condition is written with the guard of each action in place of ENABLED,
  which is the same and cheaper. The release timer in `Dock` goes off again and again, each time it has put a release off; what is assumed is that it
  acts if it always finds that it may (`Due`). Nothing is assumed of the user: users are not taken to stop typing, nor clients to stop sending
  commands, and `QueueDrains` lets go where one of them never does. Nothing is assumed of crashes either.
- `Hub`: the goroutines run (weak fairness of each); for `Queues`, which waits for room in
  `h.cmds`, strong fairness, because senders that wait on a Go channel are served
  first come, first served. `Reads` is fair too: the client reads, or leaves.
  A client that neither reads nor leaves keeps its own writer waiting, and nothing else.
- `Control`: tmux runs what it has been sent unless the connection has ended; each step of the reader, which is a goroutine of
  its own; each case of the loop, as above. `Takes` needs no more than the reply or `c.done`. Nothing is assumed of errors, changes or ends.
- `Startup`: each daemon's next step, each client's next step; a user whom winch has refused tries again. Faults are bounded, not fair.
- `Detect`, `JumpList`, `Sidebar`, `Layout`, `Billboards`: none; their properties are safety. `FollowsSelection` speaks of the
  moments when all is quiet; that such a moment comes is not checked (with fairness the run
  takes too long).

### Findings

Statements of the comments and documents that the code does not keep. The first two are runs; each of the others
has a cfg that reproduces it: `tlc -config MC<name>.cfg M` with the module in brackets.

1. **`NothingForeign`**, run `own_reply` (`control.go:28`: replies are "correlated FIFO"; `:52`: a line "gets one
   %begin/%end block PER command"). The handler of hello-list (`router.go:221`) joins two commands
   with `" ; "` itself and passes them to `run`, which waits for one block. If the next caller has registered by the time the second block arrives,
   `deliver` hands it that block, and its own goes to the one after, as long as somebody waits each time; the first block that nobody waits
   for is dropped (`control.go:174-177`), and the order is right again. The run shows the first foreign block.
2. **`EqualizeKept`**, run `equalize_kept` (`dock.go:47`: a window reshaped while docked gets a proportional give-back).
   `equalizeWindow` leaves the mark only in a window with the sidebar's own pane. One that a spacer holds, a billboard's
   above all, is equalized spacer and all, and its release undoes it.
3. **`GoesBackExactly`** [`MCOwnedOptions`] (`owned.go:12`: "every one of them has to go back exactly as it
   was"). When the split at the end of dockOpen's line fails, the marks and values before it
   are in place and the registry does not know. The next plan reads winch's own value as the
   user's and overwrites the mark with it; the undock leaves winch's value. This is
   the moment `Mislaid` records; up to it the mark still holds the user's value, and
   a daemon that starts instead puts it back.
4. **`SweepsOnlyLeaks`** [`MCDock`] (`dock.go:379`). A daemon that attaches again after its control
   connection was lost sweeps the spacers of its own dock (`daemon.go:252`).
5. **`MovesFirst`** [`MCDock`] (`router.go:493`, "move first, then kill"). `lastRealPane` discounts the spacer of a
   carve, and the window of the dock has the sidebar in the spacer's place: the kill of the user's
   last pane there does not count as taking the window. Nothing is moved, and the sidebar
   stays behind alone until the next re-list lets go of it, window and all.
6. **`AnnouncesBackground`** [`MCDetect`] (`detect.go:259`). The notification of a turn that ends with
   side work still going is armed for the state `done` and dropped, since the state
   is `background`.
7. **`EnterGoesThere`** [`MCBillboards`] (`router.go:845`, "Enter is what goes there"). The switcher selects an agent's
   row quietly, which starts no billboard; Enter then commits while nothing is scrubbed,
   and that commit ignores the window it names.
8. **`JumpBrings`** [`MCJumpList`] (`jumplist.go:210`). A docked client that has left the dock's window by
   tmux's own keys and jumps back to it at once is not brought there.
9. **`OneDaemon`** [`MCStartup`] (`main.go:3`; `daemon.go:415`: exactly one). A socket that is bound and not yet listening refuses
   the probe like a stale one: a second daemon that looks then removes it and binds (`daemon.go:427`); a daemon that
   leaves late unlinks its successor's. Both need two daemons that start or stop at the same moment.
10. **`ToTheColumn`** [`MCLayout`] (`dock.go:737`: scaleX down is "scaleX up's exact inverse ... to the column"). A cell that is
   clamped to one column keeps its remainder and can win another cell with it: widths 1, 5 and 152 do not survive 158 → 199 → 158.
11. **`DriftIsUndone`** [`MCLayout`] (`dock.go:1744`: on a resize "the chosen width gets re-asserted"). Two resizes between
   two re-lists that leave the window as wide as it was, or a spacer-held window that tmux rescales when the client
   arrives, are taken for a drag of the border.
12. **`NeverWrong`** [`MCNeverWrong`] (`preview.go:501`: the marker "can only cost a missed instant paint, never wrong content"). The
   marker is sent by what was last prefetched (`markWarm`), and the handler of hello-list replays what was last streamed into the same
   cache (`router.go:262`). They are of one window when a preview in between has failed: requests of an old sidebar wait while browse
   opens the next one, the preview among them fails because a pane has died, the prefetch after it sends the new
   sidebar something newer of the window it shows, and the replay for the sidebar's hello puts the older frame in its place. The next
   prefetch then finds nothing new, and the sidebar keeps a frame that is out of date until that window prints again.
13. **`CarriesEveryClient`** [`MCDock`] (`router.go:586`, "A client in the blast radius that the sidebar move did not already carry"; `:480`,
   a kill has "first carried anything that lives there somewhere safe"). When the sidebar is in what dies and `dockMove`
   has taken it and its own client away, `moved` skips the loop over all clients (`router.go:588`): a second client
   in the doomed session is not moved and loses its terminal.
14. **`HeldOnEvidence`** [`MCDetect`] (`detect.go:781`: working -> idle "must survive idleConfirms CONSECUTIVE samples ... even with visible
   idle evidence"; `docs/architecture.md:92`). The body takes positive evidence at once (`detect.go:802`), and says why (`:790`); a test
   asks for that too (`detect_test.go:589`). The doc comment and the document are out of date.

Met while modelling, and not checked by a run:

- a claim on a window or session that is gone makes the undock's line of restores abort; the registry
  has forgotten all of its claims ("gives back everything winch owns", `owned.go:233`), and the
  options after it keep winch's values until the next sweep (`Strands`, `faulted`);
- `dockOpen` empties the queue of releases before it can fail (`dock.go:669`); the spacers
  then wait for nobody, where `docs/architecture.md:108` has them released one per tick;
- killing the user's last pane in a window whose spacer waits for its release does not count as
  taking the window either: no carve knows that spacer any more;
- `stamp` and `markWarm` read the clock after the capture (`preview.go:519`, `:640`): an output in between
  is taken for seen, and shows only with the next one;
- previews of *b*, a commit of *b* and a preview of *a* drained in one batch drop the first: with nothing
  scrubbed the commit then does nothing (`router.go:44`);
- the sidebar compares full frames without their pane ids (`tui.go:framesEqual`), and a delta that does not
  fit leaves the cached frame in place although the comment says "drop it";
- a preview that is given up because a pane has gone is not tried again until the selection moves;
- when dockMove's line fails, the restores at its head have run and the registry keeps the
  claims (`dock.go:998` against `:1070`);
- a jump without a dock that fails at its second command leaves the client half moved
  (`jumplist.go:245`);
- `recordJumps` runs after `checkDock`, which may have dropped the dock, and can then record
  winch's own pane as a place;
- when the current window dies the place moves to the entry before it, and the next arrival
  moves that entry to the end;
- `sendRole` counts a subscriber that it has just dropped;
- an agent that exits in its start-up grace stays published as a kind without a state
  (`detect.go:365`), which is why `PublishedState` is about states;
- a re-attachment publishes a world without agents, until the next re-list;
- the rows of agents in the finder are not those of the list: a diff while it is open, or leaving it, can put the
  selection on another row (`tui.go:1391`, `:1144`; `SelectionAlwaysSticks` in `Sidebar`); with an empty query agents that tie come in map order;
- a lone ESC in the list is remembered, and the next `/` opens the finder and closes it at once (`tui.go:1937`; `SlashOpens`);
- a select message moves the cursor off the row of an armed prompt (`tui.go:295`);
- a rename field whose session dies keeps the keyboard and is not drawn any more;
- arrows and the wheel begin with ESC, and so cancel a prompt or a field;
- the order of sessions (`config.go:472`) takes the last place of a name that is in it twice; a nudge before a rename's diff has
  arrived sends the old name; the re-list of `publishAgents` (`detect.go:445`) and a re-attachment skip `syncOrderRenames`;
- `@winch_layout_dirty` survives a crash and a sidebar pane that is closed by hand: the next give-back is proportional,
  although nothing was reshaped (`stale`);
- a nested row that is scaled into fewer cells than it has panes gives a layout that does not add up, which tmux refuses (`Lands`).

## 4. Proofs

Eight modules, `tlapm <module>.tla` on each; no bound of a run is used in any of them. Assumed are the named assumptions of
the modules, which TLC evaluates on every run, and, in `ControlProofs`, `WellFormed`, as a hypothesis of each
theorem. Beyond the types of constants they say that `None` is none of the values it is told from (a window, a pane,
a record, an option's value), that a bound is a number, and that queues, caps and the log are not empty
by construction; in `Billboards` that there is a window and a glyph, and that windows are finitely many, as sessions and agents are in `Sidebar`.

| Module, theorem | |
|---|---|
| `DaemonProofs!Invariance`, `TypeCorrect` | `Spec => []IInv`, `Spec => []TypeOK` |
| `RecoveryIsExact` | `Spec => []ExactRecovery` |
| `RestoresOriginals` | `Spec => []RestoresAreOriginals` |
| `StartupGivesBack` | `Spec => StartupHeals` |
| `Agreement` | `Spec => []AgreesUnlessFault` |
| `AloneInvariance`, `AloneTypeCorrect` | `StartupSpec => []AloneInv`, `StartupSpec => []StartupTypeOK` |
| `SnapshotsAreTruthful` | `StartupSpec => []TruthfulSnapshot` |
| `AloneUnlessContended` | `StartupSpec => []OneUnlessContended` |
| `ControlProofs!Invariance`, `TypeCorrect` | `Spec => []IInv`, `Spec => []TypeOK` |
| `RepliesAreOwn` | `Spec => []OwnReply` |
| `NoStrayBlock` | no block comes while nobody waits: `deliver` never has to drop one |
| `NewsKeptHolds` | `Spec => []NewsKept` |
| `DockProofs!Inductive`, `TypeCorrect` | `Spec => []IInv`, `Spec => []TypeOK` |
| `OneOwnerHolds` | `Spec => [](~broke => OneOwner)` |
| `NoOrphansHolds`, `PanesInPlaceHolds`, `WindowsWholeHolds` | `Spec => []NoOrphans`, `[]PanesInPlace`, `[]WindowsWhole` |
| `KillCarries` | `Spec => KillCarriesClient` (action property), for any number of clients |
| `DetectProofs!Inductive`, `TypeCorrect` | `Spec => []IInv`, `Spec => []TypeOK` |
| `DoneIsUnseenHolds`, `PublishedStateHolds`, `OncePerTurnHolds` | `Spec => []DoneIsUnseen`, `[]PublishedState`, `[]OncePerTurn` |
| `CompletesOnEvidenceHolds`, `ToldWhatLastsHolds` | `Spec => CompletesOnEvidence`, `ToldWhatLasts` (action properties) |
| `HubProofs!Inductive`, `TypeCorrect` | `Spec => []IInv`, `Spec => []TypeOK` |
| `StreamsAgreeHolds`, `SelectionAgreesHolds` | `Spec => []StreamsAgree`, `[]SelectionAgrees` |
| `QueuedOnceHolds` | `Spec => []QueuedOnce` |
| `Implements` | `Spec => FollowsPublished`: `Hub` implements `Feed` |
| `JumpListProofs!Inductive`, `TypeCorrect` | `Spec => []IInv`, `Spec => []TypeOK` |
| `NoDuplicatesHolds`, `PlaceHolds`, `PaneHolds` | `Spec => []NoDuplicates`, `[]PlaceIsWhere`, `[]PaneRemembered` |
| `BackHolds`, `RestHolds` | `Spec => BackReturns`, `RestKept` (action properties) |
| `BillboardsProofs!Inductive`, `TypeCorrect` | `Spec => []IInv`, `Spec => []TypeOK` |
| `LineageKept`, `WideAtRest` | `Spec => []LineageHolds`, `[]WideWithBillboards` |
| `FollowsKept` | `Spec => []FollowsSelection` |
| `FreshHolds` | `Spec => FreshIsTrue` (action property) |
| `SidebarProofs!Inductive`, `TypeCorrect` | `Spec => []IInv`, `Spec => []TypeOK` |
| `OwnerHolds`, `OnSomethingHolds` | `Spec => []OwnerIsDrawn`, `[]OnSomething` |
| `SticksHolds` | `Spec => SelectionSticks` (action property) |

Lines, queues and histories are folded by recursive functions (`Run`, `Reading`, `Prune`'s `Rest`, `Kept`, `After`, `Without`). What such a
function computes is proved in three steps, in each module that needs it: every inhabited set of numbers
has a least one (`Least`, from `NatLessThanWellFounded` and `WFMin`), hence a set that starts at 0 and goes on
holds all numbers up to a bound (`UpTo`), hence the equation that defines the function has a solution
and its CHOOSE is one. Sets take the place of the predicates of the library's induction
theorems, which the provers cannot instantiate.

### DaemonProofs: what it takes and gives back

The theorems about `OwnedOptions` hold for any number of sessions, windows, options and user writes.

The inductive invariant is

    IInv == TypeOK /\ Shape /\ ExactRecovery /\ RestoresAreOriginals

Neither of the last two is inductive alone. A restore writes what the registry
holds, so that tmux tells the truth afterwards only if the registry did
(`RestoresAreOriginals`); a claim saves what tmux holds, so that the registry
tells the truth only if tmux did (`ExactRecovery`). `Shape` says what a step may
count on: a daemon that is down remembers nothing, a claim needs a dock, and no dock
opens over a close that is still under way. Lemmas on the pieces of a line (`MarksFacts`,
`ValuesFacts`, `GivenBackFacts`, `LineIsSafe`) say what tmux holds after any
prefix of a plan; `PlanInv`, `ReleaseInv`, `RecoveryInv`, `DestroyInv` and `UserInv` take one family of
actions each, and `NextInv` puts them together. `Agreement` rests on `IInv` with one
more part, as long as no fault has been noted.

### DaemonProofs: that it is alone

The theorems about `Startup`, for any number of clients, daemons and faults. The inductive invariant is

    AloneInv == StartupTypeOK /\ Populated /\ PathIsBound /\ Orderly

`Populated` is why a snapshot is truthful: the hub has a world before the path is bound, and who is connected is connected
to somebody who listens. `Orderly` is `OneUnlessContended` made inductive: while the flag is down, one daemon at most is
exposed, who has bound is at the path, and nobody listens while a socket is being stolen; the probe of a stale socket then
says the truth.

### ControlProofs

For any calls, lines, errors, changes and broken connections. The inductive invariant is

    IInv == TypeOK /\ Order /\ OwnReply

`OwnReply` speaks of what callers hold, and the reader decides by its place in a queue. `Order` ties the two: every block of the
stream is of a line that was sent (`InRange`), blocks follow one another as tmux runs commands (`InOrder`), those of
a line are together and after the last of them comes none (`Grouped`), and the reader's place in the queue is that of
the last block it has read (`AtReader`). A block that completes a waiter is then the last of the waiter's own line,
and what has been collected is all of it. The step is `DeliverTo`; everything else leaves the matter
alone or appends at the far end. That empty lines are left out of a call (`SelectSeq`, which tlapm does not define)
is taken with `WellFormed`.

`NewsKept` is about the way from an announcement to the mirror: the pipe, the kick of capacity one, the timer, the listing. It needs

    KInv == IInv /\ Len(lines) >= 1 /\ Versions /\ EndedFirst /\ NewsKept

`Versions` orders what has happened, was announced, listed and mirrored, so that a listing that is mirrored never goes back and one
that is answered now (`RunsKeeps`) has all that was announced. `EndedFirst` is that nobody is told of an end before it: the loop that takes a reply
and the connection whole has a listing in its hand (`TakesKeeps`), and by `OwnReply` tmux has answered it. A line just written has no block yet
(`SendFresh`), hence a listing that starts is ahead of whatever tmux says.

### DockProofs

For any windows, spacers, sidebars, and any user. First what a line does: `RunConcat` says that a line is run part by
part up to the first command that tmux refuses, and from it follow the effects of the lines the daemon sends (a split and its
pin, a kill and the layout it replays, a swap). Every operation is a function from what
the daemon holds to what it holds next, so the invariant is about such a record:

    Good(s, D) == s \in State /\ (~s.broke => Sound(s, D))

`Sound` is what the next operation counts on. One of the dock, a close under way and the queue has the
spacers; what waits has its timer; each pane on record is in its slot or is gone; each pane *outside the windows `D`* is on
record; and the windows nobody else reshaped are whole. `D` is what makes the handlers compose: `dockMove`, `dockClose` and
`checkDock` pass through states in which a pane they still have in hand is on no record yet, and each helper says which windows it
may leave so. `IInv` asks for `D = {}` while a daemon is up; after its end only spacers are left, in windows
that are `rough`. There is one lemma per handler, and the theorems read off a part of `Sound` each.

`KillCarries` is about the user's own windows, and needs that the client, if there is one, is in a window that is
there (`Seated`), and that every other client is in a session that is (`Housed`). A line that splits nothing off keeps that (`RunSeated`), and so does the split of a pane of winch, so every
handler does, and none but a kill takes one of the user's windows away (`Sits`). A move brings the client along or leaves it
where it is (`MoveBrings`); hence just before the kill it is in a window outside `doomed`, or there is no such window
(`EvacuatedBrings`, `ReadyKeeps`), and the kill itself takes the windows in `doomed` only
(`KillSessionKeeps`, `KillPaneKeeps`). The others are in sessions, so it has to be known as well that what leads up to the kill closes
no window outside `doomed` (`MoveStays`): the session of one who is not among the strays then stays,
because it keeps a window or the one in front in it is not doomed, and the strays are in the refuge's (`EscortedIs`).

### DetectProofs

For any panes, windows, programs, verdicts and thresholds. `DoneIsUnseen` and `PublishedState` are inductive with `Watching`
(the daemon knows where the client is, or a re-list is due). `OncePerTurn` is not: that a note is sent once needs
that none is armed for a turn that was announced (`Once`), and the action properties need what the daemon's
counters have to do with what happened: the votes for an end are no more than the samples that held still
(`Evidence`), a note about the present state is no older than the state (`Young`). `Verdict` splits
what a pass makes of a pane into its cases, once; each part of the invariant follows by them.

### HubProofs

For any subscribers, worlds, sizes of queues and interleavings of the goroutines. The inductive invariant

    IInv == TypeOK /\ Roles /\ Sound /\ Chosen

speaks of *every* reading a client has ahead of it, not only of the last: a diff on its way is right only for the
world before it there. `Sound`: reading on, a client shows worlds that were published, whole, none older than the one before, and
if it is still subscribed the last is the newest. `Chosen` is the same of the selection, from the hello on; `Roles` what
a connection that is not there yet has. `Shift`, `ReadingAppend` and their like say that sending adds a reading at the end and
that reading takes one off at the front. The refinement (`Implements`) maps what a client shows to `Feed`'s `pos` and `shown`: a read is a step
of `Feed` if it shows a later world, and a stutter otherwise, because `Sound` allows nothing else.

`QueuedOnce` is inductive with the types: a hello joins the queue once (`JoinsLine`) and leaves it from the front (`LeavesLine`), and
the daemon, which does not look at `hello` before it answers, can therefore not answer one twice.

### JumpListProofs

For any clients, sessions, windows, panes and any cap. The lemmas on histories come first: what `Prune`, `Arrive` and a cut at the
cap leave is a history without duplicates, whose place is what it was (`PruneIs`, `ArriveIs`). The inductive invariant ties the lists to tmux:

    IInv == TypeOK /\ Histories /\ OnlyEnabled /\ Attached /\ Places /\ Jumping /\ InStep

`Histories` has `NoDuplicates`, the cap and `PaneRemembered`; `Places` is `PlaceIsWhere` with the place a jump under way has left
(`PlaceOf`), since a jump that fails puts it back; `Jumping` says that the jump's target is the entry it is at and
can be gone to unless somebody has moved something; `InStep` that the dock is with its client. The proof showed the property to be
wrong for two clients: the jump of the docked one takes another along that is in the same session, whose place is then
not where it is. The code cannot know; the statement now excepts clients moved by others' jumps (`Drags`), and the run has two clients.

`RestKept` compares a history with the one before it, entry by entry: `Leads(h, u, v)` says that the two windows are in `h` and *u* before *v*.
What is left of a history is left in its order (`RestLeads`), hence pruning (`PruneLeads`), the cut at the cap
(`NewestLeads`) and an arrival, of all but the entry that arrives (`ArriveLeads`), keep it. That nothing is put in a new order either is
the converse, and follows from it since two windows of a history come in one order only (`OneOrder`).

### BillboardsProofs

For any windows, rows, glyphs, keys and interleavings. What counts is the sidebar as it *will* be (`Reached`: `After` all
that is on its way), and the first lemmas are about that: messages are read one after the other (`ReadConcat`), the next one
makes no difference to it (`ReadOn`), and the cache and the width it comes to do not depend on the selection (`ReadAlike`). The inductive
invariant is

    IInv == TypeOK /\ Streams /\ Unpainted /\ Lineage /\ Wide

`Lineage` is `LineageHolds` of the sidebar reached: it has no generation that is to come, that of the target only with what was
last shipped, so that the next delta patches rightly; a prefetch, being of generation 0, disturbs nothing, and a respawn or a late hello only
forgets. `Wide` says that the sidebar is about to be wide only while billboards show, and then is, unless its hello waits; that no coalescing
drops a hello is `MattersIs`. `Unpainted` is why one that is just born may be sent nothing.

`FollowsSelection` needs the queue as well:

    FInv == IInv /\ Shows /\ Follows

A sidebar that is up and no capture of whose failed has not asked yet, or its hello or another selection is on its way, or the queue `Arrives`: every
preview and commit that waits is of its selection or has a preview after it (`Settled`), and a preview waits or what is
shown, once the capture under way is (`Final`), is the selection. `KeptInOrder` says what coalescing leaves of a
batch and in which order, `SettledDrain` that what it leaves still arrives: the last preview is always kept.

`FreshIsTrue` is about what the gate vouches for when it answers "still current" without a capture:

    GInv == IInv /\ Led(cmds) /\ LedOn /\ Ahead /\ Stamped /\ Vouching

`Vouching` is the point: a window for which the gate would vouch (`Vouched`) has the text it shows in all that is kept of it, the
sidebar's cache, the daemon's `last` and the capture about to be shipped (`Honest`). Output and respawned panes break `Honest`, and
disarm the gate by the same step, as nothing remembered is newer than now or of panes that are yet to come (`Stamped`). A stamp arms it,
and what is stamped was shipped just before; except that a prefetch of the *target* would put in the cache what `last` does not have. That it never is of the
target is no check of the code: it holds because a prefetch is queued behind a preview of another window, and coalescing keeps
the two together or drops both (`Led`, `LedDrain`), through the batch (`LedOn`) and the capture (`Ahead`). A preview that
fails breaks this chain, which is the `failed` of `FreshIsTrue` and finding 12; output between a capture and its stamp is `late`.

### SidebarProofs

For any sessions, agents, queries and interleavings of messages and keys. First what the rows are: `TreeIs` and `FindsIs` say that the list has a row for each
session and agent and nothing else that can be entered, and the finder one for each match (from `FlattenIs`, as cards are put one after the other); then what a
rebuild does with the index: `ClampIs`, that it ends on a row that can be entered if there is one, and `RefindIs`, that a row which was there before is found
again. The inductive invariant is

    IInv == Typed /\ One /\ Drawn /\ Placed(rows, sel)

`One` has prompt, field and finder exclude each other, and `Drawn` is the row of the prompt. A diff disarms a prompt and a key ends it, so that only
the `Order` of sessions builds new rows under one that stays: it lists the same sessions (`ReverseIs`, `OrderKeeps`). `Placed` is `OnSomething`, with
the index in the list. `SelectionSticks` follows from the invariant before and after a step: the row of the same entity is found (`FoundAgain`, from
`RefindIs`), which no row of another kind shares its id with, and every rebuild looks for it (`RebuildSticks`). The finder is why it
says *in the list*: its rows are not those of agents (`SelectionAlwaysSticks` in section 3).

### Only model-checked

- Liveness, all of it, as the provers have no fairness to reason with (the safety it rests on is proved for `QueueDrains` in
  `OneOwner`, for `HelloAnswered` in `QueuedOnce`, for `AnnouncedIsSeen` in `NewsKept`): `CloseCompletes`, `Answered`, `AnnouncedIsSeen`, `ComesUp`,
  `QueueDrains`, `FollowsClient`, `EmptyWindowsClose`, `DroppedLearns`, `HelloAnswered`.
- `Layout` (`RoundTrip`, `GivesBack`, `WidthIsChosen`), whose trees are recursive: what its operators compute is an induction over trees.

## 5. Plan

Done, in this order: `OwnedOptions` and its proofs, `Dock`, `Detect`, `Hub` with `Feed`,
`JumpList`, `Billboards`, in `Dock` the kill and its refuge, `Control` and `Startup` with their proofs, `Sidebar`, `Layout`;
then the proofs of `Hub` and of its refinement of `Feed`, of `Detect`, `Dock`, `JumpList`, `Billboards` and `Sidebar`. Next:

1. **SessionOrder** (`config.go`, and the nudges and renames that race it), **Rules** (priority in a
   manifest), creating a session (`router.go:createSession`).
2. A clock for the skip-scan of quiet panes (`detect.go:359`), which says nothing at a granularity of a second.
3. Liveness of `Billboards` on a smaller instance, and an abstract specification of what a billboard
   promises, implemented by it: a picture of the selected window, each at least as new as the last.

## 6. Not modelled, and why

Text: SGR folding, painting, the parsing of lists and of layout strings, cards and scores
(`agentrows.go`, `fuzzy.go`): functions of data with no order to get wrong, best
served by the tests beside them. The prediction of tmux's reflow (`shadow.go`, `emulate.go`, `width.go`) is right or wrong against
tmux, which is not in the repository. One-shot tools and pure input and output: the flags of `main.go`,
the derivation of a path in `socket.go`, `doctor.go`, `nvimrpc.go`, delivery of notifications.
`git.go` is a cache that only adds to a publication. What is planned instead
(section 5) is marked `partly` or `not_modelled` in `PROJECT.json` with a note.
