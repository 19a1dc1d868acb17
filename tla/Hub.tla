-------------------------------- MODULE Hub --------------------------------
(***************************************************************************)
(* The hub and its subscribers (server.go, with the store of tui.go, the   *)
(* diffs of model.go, and the selection of dock.go and router.go).         *)
(*                                                                         *)
(* The hub holds the published world behind a mutex.  A subscriber gets a  *)
(* snapshot when it connects and diffs from then on, through a bounded     *)
(* queue, a writer goroutine and its socket; one whose queue is full is    *)
(* dropped and learns of it from the end of its stream.  A sidebar says    *)
(* hello once it has painted, from then on it hears what is addressed to   *)
(* its role, and the daemon replays to it the selection it may have missed.*)
(***************************************************************************)
EXTENDS Naturals, Sequences, SequencesExt

CONSTANTS
  Sub,         \* connections of clients
  Entity, Value, None,   \* a world gives every entity a value, or none
  First,       \* the worlds the daemon may find at its start
  Target,      \* what the selection may be on
  ChanCap,     \* the queue of a subscriber (256 in the code)
  WireCap,     \* what a socket holds of a client that does not read
  CmdCap,      \* the queue of commands (16 in the code)
  MaxLog,      \* bound on the worlds published
  MaxPushes    \* bound on the selections pushed

ASSUME HubAssumption ==
  /\ None \notin Value \cup Target \cup Sub
  /\ First \subseteq [Entity -> Value \cup {None}]
  /\ {ChanCap, WireCap, CmdCap, MaxLog} \subseteq Nat \ {0}
  /\ MaxPushes \in Nat

VARIABLES
  log,       \* the worlds published so far: the last is h.world
  subs,      \* h.subs
  chan,      \* the queue of each subscriber, which outlives its subscription
  role,      \* the subscribers with the role "list"
  sel,       \* h.selWin, or None
  pushing,   \* a selection recorded and not broadcast yet, or None
  cmds,      \* h.cmds: the subscribers whose hello waits, None for other commands
  wire,      \* the socket of each connection
  conn,      \* "none", "open", "shut" by the daemon, "gone": the client has left
  hello,     \* "unsent", "sent", "heard" by the reader, "queued", "done"
  replica,   \* what each client shows: a world, its place in log, a selection
  pushes     \* number of selections pushed

daemon == <<log, subs, chan, sel, pushing, pushes>>
vars   == <<daemon, role, cmds, wire, conn, hello, replica>>

-----------------------------------------------------------------------------
Worlds == [Entity -> Value \cup {None}]
World  == Last(log)

Snapshot(w, s, n) == [type |-> "snapshot", world |-> w, sel |-> s, n |-> n]
Diff(ops, n)      == [type |-> "diff", ops |-> ops, n |-> n]
Select(x)         == [type |-> "select", sel |-> x]
Reply             == [type |-> "reply"]

\* Mutant: what is gone is not part of a diff.
OpsPutOnly(old, new) == [e \in {x \in Entity : new[x] \notin {None, old[x]}} |-> new[e]]

\* diffWorlds: the entities that changed, with what they are now.
Ops(old, new) == [e \in {x \in Entity : old[x] # new[x]} |-> new[e]]

\* store.apply, and the select of the sidebar.
Apply(r, m) ==
  CASE m.type = "snapshot" -> [r EXCEPT !.world = m.world, !.n = m.n,
                                        !.sel = IF @ = None THEN m.sel ELSE @]
    [] m.type = "diff"     -> [r EXCEPT !.n = m.n,
                                 !.world = [e \in Entity |-> IF e \in DOMAIN m.ops THEN m.ops[e]
                                                             ELSE @[e]]]
    [] m.type = "select"   -> [r EXCEPT !.sel = m.sel]
    [] m.type = "reply"    -> r

Full(s) == Len(chan[s]) >= ChanCap

\* Mutant: a message too many for a queue is the one that is dropped.
SendLossy(S, m) ==
  /\ chan' = [s \in Sub |-> IF s \in S \cap subs /\ ~Full(s) THEN Append(chan[s], m)
                            ELSE chan[s]]
  /\ subs' = subs

\* sendLocked, to each of the subscribers in S: dropped if its queue is full.
Send(S, m) ==
  /\ chan' = [s \in Sub |-> IF s \in S \cap subs /\ ~Full(s) THEN Append(chan[s], m)
                            ELSE chan[s]]
  /\ subs' = subs \ {s \in S : Full(s)}

-----------------------------------------------------------------------------
Init ==
  /\ log \in {<<w>> : w \in First}
  /\ subs = {} /\ role = {} /\ cmds = <<>> /\ sel = None /\ pushing = None /\ pushes = 0
  /\ chan = [s \in Sub |-> <<>>] /\ wire = [s \in Sub |-> <<>>]
  /\ conn = [s \in Sub |-> "none"] /\ hello = [s \in Sub |-> "unsent"]
  /\ replica = [s \in Sub |-> [world |-> [e \in Entity |-> None], n |-> 0, sel |-> None]]

\* add: the snapshot is queued under the lock that registers the subscriber.
Connect(s) ==
  /\ conn[s] = "none" /\ conn' = [conn EXCEPT ![s] = "open"]
  /\ subs' = subs \cup {s}
  /\ chan' = [chan EXCEPT ![s] = <<Snapshot(World, sel, Len(log))>>]
  /\ UNCHANGED <<log, role, sel, pushing, cmds, wire, hello, replica, pushes>>

\* setWorld after a re-list or a tick: one that changes nothing sends nothing.
Publish(w) ==
  /\ pushing = None /\ Len(log) < MaxLog /\ w # World
  /\ log' = Append(log, w)
  /\ Send(subs, Diff(Ops(World, w), Len(log) + 1))
  /\ UNCHANGED <<role, sel, pushing, cmds, wire, conn, hello, replica, pushes>>

\* setWorld after the control connection was lost: what it missed is unknown.
Resync(w) ==
  /\ pushing = None /\ Len(log) < MaxLog
  /\ log' = Append(log, w)
  /\ Send(subs, Snapshot(w, None, Len(log) + 1))
  /\ UNCHANGED <<role, sel, pushing, cmds, wire, conn, hello, replica, pushes>>

\* pushSelect records under the lock and broadcasts under it again.
PushRecords(x) ==
  /\ pushing = None /\ pushes < MaxPushes
  /\ sel' = x /\ pushing' = x /\ pushes' = pushes + 1
  /\ UNCHANGED <<log, subs, chan, role, cmds, wire, conn, hello, replica>>

PushSends ==
  /\ pushing # None /\ pushing' = None
  /\ Send(role, Select(pushing))
  /\ UNCHANGED <<log, role, sel, cmds, wire, conn, hello, replica, pushes>>

\* Mutant: the snapshot the client was born with is thought to be enough.
AnswerBare == <<Reply>>

\* What a hello is answered with: the selection, if there is one, and the reply.
Answer == IF sel = None THEN <<Reply>> ELSE <<Select(sel), Reply>>

\* hello-list, a send per message: the one that finds the queue full ends it.
Replays(s) ==
  /\ pushing = None /\ cmds # <<>> /\ s = Head(cmds)
  /\ cmds' = Tail(cmds) /\ hello' = [hello EXCEPT ![s] = "done"]
  /\ LET room == ChanCap - Len(chan[s])
     IN  \/ /\ s \in subs /\ room >= Len(Answer)
            /\ chan' = [chan EXCEPT ![s] = @ \o Answer] /\ UNCHANGED subs
         \/ /\ s \in subs /\ room < Len(Answer)
            /\ chan' = [chan EXCEPT ![s] = @ \o SubSeq(Answer, 1, room)]
            /\ subs' = subs \ {s}
         \/ s \notin subs /\ UNCHANGED <<chan, subs>>
  /\ UNCHANGED <<log, role, sel, pushing, wire, conn, replica, pushes>>

\* The commands of the other connections share the queue.
OthersQueue ==
  /\ Len(cmds) < CmdCap /\ cmds' = Append(cmds, None)
  /\ UNCHANGED <<daemon, role, wire, conn, hello, replica>>

OtherRuns ==
  /\ pushing = None /\ cmds # <<>> /\ Head(cmds) = None /\ cmds' = Tail(cmds)
  /\ UNCHANGED <<daemon, role, wire, conn, hello, replica>>

-----------------------------------------------------------------------------
(* The goroutines of a connection: its reader and its writer.                *)

\* The role is set at once, the command waits for room in the queue.
Hears(s) ==
  /\ hello[s] = "sent" /\ hello' = [hello EXCEPT ![s] = "heard"]
  /\ conn[s] # "shut"
  /\ role' = role \cup {s}
  /\ UNCHANGED <<daemon, cmds, wire, conn, replica>>

\* Mutant: the reader does not wait for room.
QueuesOrNot(s) ==
  /\ hello[s] = "heard" /\ hello' = [hello EXCEPT ![s] = "queued"]
  /\ cmds' = IF Len(cmds) < CmdCap THEN Append(cmds, s) ELSE cmds
  /\ UNCHANGED <<daemon, role, wire, conn, replica>>

Queues(s) ==
  /\ hello[s] = "heard" /\ Len(cmds) < CmdCap
  /\ hello' = [hello EXCEPT ![s] = "queued"] /\ cmds' = Append(cmds, s)
  /\ UNCHANGED <<daemon, role, wire, conn, replica>>

\* The reader meets the end of the connection, or the writer cannot write.
Removes(s) ==
  /\ conn[s] = "gone" /\ s \in subs
  /\ subs' = subs \ {s}
  /\ UNCHANGED <<log, chan, role, sel, pushing, cmds, wire, conn, hello, replica, pushes>>

Writes(s) ==
  /\ conn[s] = "open" /\ chan[s] # <<>> /\ Len(wire[s]) < WireCap
  /\ wire' = [wire EXCEPT ![s] = Append(@, Head(chan[s]))]
  /\ chan' = [chan EXCEPT ![s] = Tail(@)]
  /\ UNCHANGED <<log, subs, role, sel, pushing, cmds, conn, hello, replica, pushes>>

\* Mutant: a writer that finds out only when it has something to write.
ShutsAtMessage(s) ==
  /\ conn[s] = "open" /\ s \notin subs /\ chan[s] # <<>>
  /\ conn' = [conn EXCEPT ![s] = "shut"]
  /\ UNCHANGED <<daemon, role, cmds, wire, hello, replica>>

\* A writer whose queue is closed and empty closes the connection.
Shuts(s) ==
  /\ conn[s] = "open" /\ s \notin subs /\ chan[s] = <<>>
  /\ conn' = [conn EXCEPT ![s] = "shut"]
  /\ UNCHANGED <<daemon, role, cmds, wire, hello, replica>>

-----------------------------------------------------------------------------
(* The client.                                                               *)

Reads(s) ==
  /\ conn[s] \in {"open", "shut"} /\ wire[s] # <<>>
  /\ replica' = [replica EXCEPT ![s] = Apply(@, Head(wire[s]))]
  /\ wire' = [wire EXCEPT ![s] = Tail(@)]
  /\ UNCHANGED <<daemon, role, cmds, conn, hello>>

\* A sidebar, once it has painted its first world; other clients never do.
SaysHello(s) ==
  /\ conn[s] = "open" /\ replica[s].n > 0 /\ hello[s] = "unsent"
  /\ hello' = [hello EXCEPT ![s] = "sent"]
  /\ UNCHANGED <<daemon, role, cmds, wire, conn, replica>>

\* It leaves when its stream has ended, or its pane was killed.
Leaves(s) ==
  /\ conn[s] \in {"open", "shut"} /\ conn' = [conn EXCEPT ![s] = "gone"]
  /\ wire' = [wire EXCEPT ![s] = <<>>]
  /\ UNCHANGED <<daemon, role, cmds, hello, replica>>

LearnsOfEnd(s) == conn[s] = "shut" /\ wire[s] = <<>> /\ Leaves(s)

Next ==
  \/ \E w \in Worlds : Publish(w) \/ Resync(w)
  \/ OthersQueue \/ OtherRuns
  \/ PushSends \/ \E x \in Target : PushRecords(x)
  \/ \E s \in Sub :
       \/ Connect(s) \/ Replays(s) \/ Hears(s) \/ Queues(s) \/ Removes(s) \/ Writes(s)
       \/ Shuts(s) \/ Reads(s) \/ SaysHello(s) \/ Leaves(s)

Spec == Init /\ [][Next]_vars

\* The daemon's loop and goroutines run, and those that wait for room in a channel of
\* Go get it in the order they came; a client reads, and sees its stream end.
FairSpec ==
  /\ Spec /\ WF_vars(PushSends) /\ WF_vars(OtherRuns)
  /\ \A s \in Sub :
       /\ WF_vars(Replays(s)) /\ WF_vars(conn[s] = "open" /\ Hears(s)) /\ SF_vars(Queues(s))
       /\ WF_vars(Writes(s)) /\ WF_vars(Shuts(s))
       /\ WF_vars(Reads(s)) /\ WF_vars(LearnsOfEnd(s))

-----------------------------------------------------------------------------
Message ==
  [type : {"snapshot"}, world : Worlds, sel : Target \cup {None}, n : 1..MaxLog]
    \cup [type : {"diff"}, ops : UNION {[E -> Value \cup {None}] : E \in SUBSET Entity},
          n : 1..MaxLog]
    \cup [type : {"select"}, sel : Target] \cup {Reply}

TypeOK ==
  /\ log \in Seq(Worlds) /\ Len(log) \in 1..MaxLog
  /\ subs \subseteq Sub /\ role \subseteq Sub
  /\ chan \in [Sub -> Seq(Message)] /\ wire \in [Sub -> Seq(Message)]
  /\ \A s \in Sub : Len(chan[s]) <= ChanCap /\ Len(wire[s]) <= WireCap
  /\ sel \in Target \cup {None} /\ pushing \in {None, sel}
  /\ cmds \in Seq(Sub \cup {None}) /\ Len(cmds) <= CmdCap
  /\ conn \in [Sub -> {"none", "open", "shut", "gone"}]
  /\ hello \in [Sub -> {"unsent", "sent", "heard", "queued", "done"}]
  /\ replica \in [Sub -> [world : Worlds, n : 0..MaxLog, sel : Target \cup {None}]]
  /\ pushes \in 0..MaxPushes

\* What a client that shows b will show after each of the messages of q.
Reading(b, q) ==
  LET r[i \in 0..Len(q)] == IF i = 0 THEN b ELSE Apply(r[i - 1], q[i]) IN r

\* What is on its way to a subscriber, and what it will show once it has read all of it.
OnWay(s)    == wire[s] \o chan[s]
Eventual(s) == Reading(replica[s], OnWay(s))[Len(OnWay(s))]

\* A subscriber that is kept has not missed a thing: in order, or disconnected.
StreamsAgree == \A s \in subs : conn[s] = "open" => Eventual(s).world = World

\* Nor has a sidebar missed where the selection is, although it is subscribed before
\* it has its role and the daemon records and broadcasts in two steps.
SelectionAgrees ==
  \A s \in subs :
    conn[s] = "open" /\ hello[s] = "done" /\ pushing = None => Eventual(s).sel = sel

\* A client that is dropped and reads on learns of it.
DroppedLearns ==
  \A s \in Sub : (conn[s] = "open" /\ s \notin subs) ~> (conn[s] = "gone")

\* The hello of a sidebar is acted upon, even if the queues were full, unless its
\* connection ends first: once heard it no longer depends on the connection.
HelloAnswered ==
  \A s \in Sub : /\ (hello[s] = "sent") ~> (hello[s] # "sent" \/ conn[s] # "open")
                 /\ (hello[s] = "heard") ~> (hello[s] = "done")

\* A hello that waits is in the queue of commands, once, and none but those is: what the
\* reader has handed over is answered one time, although the two share no lock
\* (server.go:205-217).
QueuedOnce ==
  \A s \in Sub :
    /\ hello[s] = "queued" <=> \E i \in 1..Len(cmds) : cmds[i] = s
    /\ \A i, j \in 1..Len(cmds) : cmds[i] = s /\ cmds[j] = s => i = j

Published == INSTANCE Feed WITH pos   <- [s \in Sub |-> replica[s].n],
                                shown <- [s \in Sub |-> replica[s].world]

\* The hub implements the feed of published worlds: a client shows only what was
\* published, whole, and never what is older than what it has shown.
FollowsPublished == Published!Spec
=============================================================================
