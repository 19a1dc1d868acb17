---------------------------- MODULE MCNeverWrong ----------------------------
(* One long behaviour of Billboards, and the few that differ from it by what *)
(* an action leaves open: the specification of MCBillboards with more keys,  *)
(* along a schedule.                                                         *)
EXTENDS Billboards

CONSTANTS a, b

VARIABLE done    \* how much of the schedule is behind

\* The one of the schedule that is next.
Named(name) ==
  \/ name = "hello" /\ SaysHello
  \/ name = "captures" /\ Captures
  \/ name = "ships" /\ Ships
  \/ name = "reads" /\ Reads
  \/ name = "drain" /\ Drain
  \/ name = "run" /\ RunCmd
  \/ name \in {"toggle", "browse"} /\ Calls(name)
  \/ name = "move" /\ \E w \in Window : MoveSel(w)
  \/ name = "respawn" /\ \E w \in Window : Respawn(w)
  \/ name = "output" /\ \E w \in Window, r \in Row, g \in Glyph : Output(w, r, g)
  \/ name = "second" /\ Second

Previewed == <<"run", "captures", "ships">>

\* The sidebar that browse opened shows its own window, and warms the other.
Opened ==
  <<"captures", "ships", "hello", "drain", "run", "reads", "reads", "reads">>
    \o <<"drain">> \o Previewed \o Previewed \o <<"reads", "reads">>

\* It is closed and browse opens another, while the requests of its last key wait.
Reopened ==
  <<"toggle", "browse", "drain", "move", "run", "run", "captures", "ships", "hello", "drain">>

\* The preview fails, as a pane of its window has died; the prefetch after it sees
\* output that came in between; the hello after both replays the frame before it.
Replayed ==
  <<"run", "respawn", "captures", "output", "second">> \o Previewed \o <<"run">>
    \o [i \in 1..8 |-> "reads"]

\* The next key has the same window prefetched.
MovedOn == <<"move", "drain">> \o Previewed \o <<"run">>

Schedule == Opened \o Reopened \o Replayed \o MovedOn

ScheduledNext ==
  /\ done < Len(Schedule)
  /\ \/ Named(Schedule[done + 1])
     \/ Schedule[done + 1] = "reads" /\ wire = <<>> /\ UNCHANGED vars
  /\ done' = done + 1

ScheduledSpec == Init /\ done = 0 /\ [][ScheduledNext]_<<vars, done>>
=============================================================================
