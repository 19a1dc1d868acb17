------------------------------- MODULE Control -------------------------------
(***************************************************************************)
(* The control connection (control.go) and what the loop of the daemon     *)
(* does with it (daemon.go): lines of commands go down one pipe, and the   *)
(* blocks that come back carry nothing that says whose they are.  They are *)
(* given to the callers in the order in which the lines were written.      *)
(*                                                                         *)
(* A line has `cmds' commands for tmux, and its caller waits for `n'       *)
(* blocks.  tmux answers each command with a block and drops the rest of   *)
(* the line at the first error.  Lines are numbered from 1 on each         *)
(* connection.  Block 1 of a connection is the one that answers the attach *)
(* itself, as if there were a line 0.                                      *)
(***************************************************************************)
EXTENDS Naturals, Sequences

CONSTANTS
  Calls,      \* what the handlers ask for: sequences of lines
  MaxWorld,   \* bound: how often tmux's world changes
  MaxAsks,    \* bound: commands of clients, one call each
  MaxEnds     \* bound: connections that tmux ends

Line == [n : Nat, cmds : Nat]

ASSUME CallsAssumption == Calls \subseteq Seq(Line)
ASSUME BoundsAssumption == MaxWorld \in Nat /\ MaxAsks \in Nat /\ MaxEnds \in Nat

VARIABLES
  lines,    \* the lines of this connection, registered and written in one step
  first,    \* c.pending holds the waiters of lines first..Len(lines)
  got,      \* how many blocks the foremost of them has got: p.got
  part,     \* those blocks: p.lines
  hello,    \* c.hello: the unsolicited block is still owed
  stream,   \* the blocks tmux has written, in order
  read,     \* how many of them the reader has taken
  news,     \* notifications are in the pipe
  ended,    \* tmux has closed the connection
  reader,   \* "reads", "failed" the waiters, "gone": c.done is closed
  kick,     \* c.kick, of capacity 1
  replies,  \* what each caller has in its channel or has returned with
  await,    \* the first line whose caller has not returned
  task,     \* what the loop is doing
  fire,     \* the debounce timer of the re-list runs
  asks,     \* commands waiting in h.cmds
  asked,    \* how many there have been
  ends,     \* connections that have ended
  world,    \* the version of tmux's world
  told,     \* the last version announced to this or an earlier connection
  listed,   \* the version tmux answered the current listing with
  seen      \* the version the daemon mirrors

conn == <<lines, first, got, part, hello, stream, read, ended, reader, replies, await>>
loop == <<task, fire, asks, asked>>
mirror == <<world, told, listed, seen>>
vars == <<conn, news, kick, loop, ends, mirror>>

-----------------------------------------------------------------------------
(* Lines, blocks, replies.                                                   *)

Block == [line : Nat, nth : Nat, err : BOOLEAN]

Waiting == [kind |-> "waiting"]
Closed  == [kind |-> "closed"]
Answer(blocks, err) == [kind |-> "answer", blocks |-> blocks, err |-> err]

\* An empty command list is not a command: it is never written.
Written(line) == line.n > 0
Live(call) == SelectSeq(call, Written)

\* fetchWorld: its listings, one after another, count as one.
Listing == <<[n |-> 1, cmds |-> 1]>>

\* The block tmux writes last for its line: an error, or the last command's.
IsLast(b) == b.err \/ b.line = 0 \/ b.nth = lines[b.line].cmds

\* The command tmux runs next: its line and its place there.
Upcoming ==
  IF stream = <<>> THEN <<0, 1>>
  ELSE LET b == stream[Len(stream)]
       IN  IF IsLast(b) THEN <<b.line + 1, 1>> ELSE <<b.line, b.nth + 1>>

-----------------------------------------------------------------------------
(* tmux and its user.                                                        *)

\* Only what a handler asks for can fail: a listing names no target.
Runs ==
  /\ ~ended /\ Upcoming[1] <= Len(lines)
  /\ \E err \in BOOLEAN :
       /\ err => Upcoming[1] > 0 /\ task = "serve"
       /\ stream' = Append(stream, [line |-> Upcoming[1], nth |-> Upcoming[2], err |-> err])
  /\ listed' = IF Upcoming[1] > 0 /\ task # "serve" THEN world ELSE listed
  /\ UNCHANGED <<lines, first, got, part, hello, read, ended, reader, replies, await,
                 news, kick, loop, ends, world, told, seen>>

\* The world changes.  tmux announces it to the client that is attached, but
\* not every kind of change.
Changes ==
  /\ world < MaxWorld
  /\ world' = world + 1
  /\ \/ ~ended /\ stream # <<>> /\ told' = world' /\ news' = TRUE
     \/ UNCHANGED <<told, news>>
  /\ UNCHANGED <<conn, kick, loop, ends, listed, seen>>

\* The session that the daemon is attached to dies, or the server.
Ends ==
  /\ ~ended /\ ends < MaxEnds
  /\ ended' = TRUE /\ ends' = ends + 1
  /\ UNCHANGED <<lines, first, got, part, hello, stream, read, reader, replies, await,
                 news, kick, loop, mirror>>

\* A client sends a command.
Asks ==
  /\ asked < MaxAsks
  /\ asks' = asks + 1 /\ asked' = asked + 1
  /\ UNCHANGED <<conn, news, kick, task, fire, ends, mirror>>

-----------------------------------------------------------------------------
(* The reader.                                                               *)

\* Mutant: an error does not complete the line.
DeliverNoAbort(b) ==
  LET blocks == part \union {b} IN
  IF got + 1 < lines[first].n
  THEN /\ got' = got + 1 /\ part' = blocks
       /\ UNCHANGED <<first, replies>>
  ELSE /\ first' = first + 1 /\ got' = 0 /\ part' = {}
       /\ replies' = IF first < await THEN replies
                     ELSE [replies EXCEPT ![first] = Answer(blocks, b.err)]

\* deliver, for the foremost waiter.  A caller that has returned (its write
\* failed) has left its channel behind.
DeliverTo(b) ==
  LET blocks == part \union {b} IN
  IF ~b.err /\ got + 1 < lines[first].n
  THEN /\ got' = got + 1 /\ part' = blocks
       /\ UNCHANGED <<first, replies>>
  ELSE /\ first' = first + 1 /\ got' = 0 /\ part' = {}
       /\ replies' = IF first < await THEN replies
                     ELSE [replies EXCEPT ![first] = Answer(blocks, b.err)]

ReadsBlock ==
  /\ reader = "reads" /\ read < Len(stream)
  /\ read' = read + 1
  /\ \/ hello /\ hello' = FALSE /\ UNCHANGED <<first, got, part, replies>>
     \/ ~hello /\ first > Len(lines) /\ UNCHANGED <<hello, first, got, part, replies>>
     \/ ~hello /\ first <= Len(lines) /\ DeliverTo(stream[read + 1]) /\ UNCHANGED hello
  /\ UNCHANGED <<lines, stream, ended, reader, await, news, kick, loop, ends, mirror>>

\* Mutant: what comes while the loop is in a call is taken for its own doing.
ReadsNewsWhenIdle ==
  /\ reader = "reads" /\ news
  /\ news' = FALSE /\ kick' = (kick \/ task = "idle")
  /\ UNCHANGED <<conn, loop, ends, mirror>>

\* Any other line outside of a block: nudge the loop, never wait for it.
ReadsNews ==
  /\ reader = "reads" /\ news
  /\ news' = FALSE /\ kick' = TRUE
  /\ UNCHANGED <<conn, loop, ends, mirror>>

\* The end of the stream: every waiter in c.pending is told.
ReadsEnd ==
  /\ reader = "reads" /\ ended /\ read = Len(stream) /\ ~news
  /\ reader' = "failed"
  /\ replies' = [l \in DOMAIN replies |->
                   IF l >= first /\ l >= await THEN Closed ELSE replies[l]]
  /\ first' = Len(lines) + 1 /\ got' = 0 /\ part' = {}
  /\ UNCHANGED <<lines, hello, stream, read, ended, await, news, kick, loop, ends, mirror>>

\* close(c.done), once c.mu has been given back.
ClosesDone ==
  /\ reader = "failed"
  /\ reader' = "gone"
  /\ UNCHANGED <<lines, first, got, part, hello, stream, read, ended, replies, await,
                 news, kick, loop, ends, mirror>>

-----------------------------------------------------------------------------
(* The loop.                                                                 *)

\* runSeq, runPipelined: register the waiters in the order of the lines and
\* write them, under one lock.  A write to a dead pipe may fail, or not yet.
Send(new, t) ==
  /\ lines' = lines \o new
  /\ \/ /\ replies' = replies \o [i \in DOMAIN new |-> Waiting]
        /\ task' = t
        /\ UNCHANGED await
     \/ /\ ended
        /\ replies' = replies \o [i \in DOMAIN new |-> Closed]
        /\ await' = Len(lines') + 1
        /\ task' = "idle"
  /\ UNCHANGED <<first, got, part, hello, stream, read, ended, reader>>

\* What comes of a call whose last reply is in.  Without a listing the daemon
\* that attaches gives up; the loop leaves it to the end of the connection.
Concludes(reply) ==
  /\ task' = IF task = "attach" /\ reply = Closed THEN "over" ELSE "idle"
  /\ seen' = IF task \in {"attach", "relist"} /\ reply # Closed THEN listed ELSE seen

\* Mutant: the caller waits for the reply alone.
TakesReplyOnly ==
  /\ await <= Len(lines)
  /\ replies[await] # Waiting
  /\ await' = await + 1
  /\ IF await = Len(lines) THEN Concludes(replies[await]) ELSE UNCHANGED <<task, seen>>
  /\ UNCHANGED <<lines, first, got, part, hello, stream, read, ended, reader, replies, news,
                 kick, fire, asks, asked, ends, world, told, listed>>

\* The caller waits for its lines in turn: for the reply or for c.done, and
\* for any of the two when both are there.
Takes ==
  /\ await <= Len(lines)
  /\ \E reply \in {replies[await], Closed} :
       /\ reply # Waiting
       /\ reply = replies[await] \/ reader = "gone"
       /\ replies' = [replies EXCEPT ![await] = reply]
       /\ await' = await + 1
       /\ IF await = Len(lines) THEN Concludes(reply) ELSE UNCHANGED <<task, seen>>
  /\ UNCHANGED <<lines, first, got, part, hello, stream, read, ended, reader, news, kick,
                 fire, asks, asked, ends, world, told, listed>>

TakesKick ==
  /\ task = "idle" /\ kick
  /\ kick' = FALSE /\ fire' = TRUE
  /\ UNCHANGED <<conn, news, task, asks, asked, ends, mirror>>

\* The debounce has run out.  It is wound again while clients have commands.
Fires ==
  /\ task = "idle" /\ fire /\ asks = 0
  /\ fire' = FALSE
  /\ Send(Listing, "relist")
  /\ UNCHANGED <<news, kick, asks, asked, ends, mirror>>

\* handleCmd, as one call.
Serves ==
  /\ task = "idle" /\ asks > 0
  /\ asks' = asks - 1
  /\ \E call \in Calls : Send(Live(call), "serve")
  /\ UNCHANGED <<news, kick, fire, asked, ends, mirror>>

\* A new connection, whose first call is the listing.
Dialled ==
  /\ lines' = Listing /\ replies' = <<Waiting>> /\ await' = 1 /\ task' = "attach"
  /\ first' = 1 /\ got' = 0 /\ part' = {} /\ hello' = TRUE
  /\ stream' = <<>> /\ read' = 0 /\ news' = FALSE
  /\ ended' = FALSE /\ reader' = "reads"
  /\ kick' = FALSE /\ fire' = FALSE

\* consume has seen c.done: runDaemon attaches again.
Redials ==
  /\ task = "idle" /\ reader = "gone"
  /\ Dialled
  /\ UNCHANGED <<asks, asked, ends, mirror>>

-----------------------------------------------------------------------------
\* What the matching by order rests on: a line that is written has as many
\* commands as its caller waits for.
WellFormed ==
  \A call \in Calls : /\ Live(call) \in Seq(Line)
                      /\ Live(call) # <<>>
                      /\ \A i \in DOMAIN Live(call) :
                           Live(call)[i].n >= 1 /\ Live(call)[i].n = Live(call)[i].cmds

Init ==
  /\ lines = Listing /\ replies = <<Waiting>> /\ await = 1 /\ task = "attach"
  /\ first = 1 /\ got = 0 /\ part = {} /\ hello = TRUE
  /\ stream = <<>> /\ read = 0 /\ news = FALSE
  /\ ended = FALSE /\ reader = "reads"
  /\ kick = FALSE /\ fire = FALSE
  /\ asks = 0 /\ asked = 0 /\ ends = 0
  /\ world = 0 /\ told = 0 /\ listed = 0 /\ seen = 0

Tmux   == Runs \/ Changes \/ Ends \/ Asks
Reader == ReadsBlock \/ ReadsNews \/ ReadsEnd \/ ClosesDone
Loop   == Takes \/ TakesKick \/ Fires \/ Serves \/ Redials
Next   == Tmux \/ Reader \/ Loop

Spec == Init /\ [][Next]_vars

\* tmux answers what it has been sent unless it ends, the reader is a
\* goroutine of its own, and select leaves no ready case of the loop behind.
FairSpec ==
  /\ Spec
  /\ WF_vars(Runs)
  /\ WF_vars(ReadsBlock) /\ WF_vars(ReadsNews) /\ WF_vars(ReadsEnd) /\ WF_vars(ClosesDone)
  /\ WF_vars(Takes) /\ WF_vars(TakesKick) /\ WF_vars(Fires) /\ WF_vars(Serves)
  /\ WF_vars(Redials)

-----------------------------------------------------------------------------
(* Properties.                                                               *)

Reply == {Waiting, Closed} \union [kind : {"answer"}, blocks : SUBSET Block, err : BOOLEAN]

\* Every variable has its type (control.go:34-47).
TypeOK ==
  /\ lines \in Seq(Line) /\ replies \in Seq(Reply) /\ Len(replies) = Len(lines)
  /\ first \in Nat /\ got \in Nat /\ part \subseteq Block /\ hello \in BOOLEAN
  /\ stream \in Seq(Block) /\ read \in 0..Len(stream)
  /\ news \in BOOLEAN /\ ended \in BOOLEAN /\ kick \in BOOLEAN /\ fire \in BOOLEAN
  /\ reader \in {"reads", "failed", "gone"}
  /\ await \in Nat /\ task \in {"attach", "idle", "relist", "serve", "over"}
  /\ asks \in Nat /\ asked \in Nat /\ ends \in Nat
  /\ world \in Nat /\ told \in Nat /\ listed \in Nat /\ seen \in Nat

BlocksOf(l) == {stream[k] : k \in {j \in 1..Len(stream) : stream[j].line = l}}

\* A caller that gets an answer gets all the blocks tmux wrote for its line and
\* none of another's, and an error exactly if its own line stopped at one
\* (control.go:50-53), whatever was sent ahead of it, failed or was cut off.
OwnReply ==
  \A l \in 1..Len(lines) : replies[l].kind = "answer" =>
    /\ replies[l].blocks = BlocksOf(l)
    /\ \E b \in BlocksOf(l) : IsLast(b) /\ (replies[l].err <=> b.err)

\* Replies stay correlated, first in, first out, with the lines (control.go:28-29):
\* nobody is handed a block of a line that is not his.
NothingForeign ==
  \A l \in 1..Len(lines) : replies[l].kind = "answer" => replies[l].blocks \subseteq BlocksOf(l)

\* The loop never waits for a reply for ever: not when the connection ends with
\* lines unanswered, nor when it ends between the last waiter that is told and
\* the caller that registers next (control.go:157-165, 212-218).
Answered == (task # "idle") ~> (task \in {"idle", "over"})

\* What tmux has announced and the daemon does not mirror is never forgotten: it is in
\* the pipe, the kick, the timer or a listing that tmux has not answered before it, or
\* the connection has ended and a new one lists (control.go:145-150, daemon.go:300-335).
NewsKept ==
  told > seen =>
    \/ ended \/ news \/ kick \/ fire
    \/ /\ task \in {"attach", "relist"}
       /\ BlocksOf(Len(lines)) = {} \/ told <= listed

\* What tmux has announced the daemon comes to know, however many notifications
\* one kick stands for, and whichever of them come while it lists
\* (control.go:36-38, daemon.go:300-335), unless it has to exit.
AnnouncedIsSeen ==
  \A v \in 1..MaxWorld : (told >= v) ~> (seen >= v \/ task = "over")
=============================================================================
