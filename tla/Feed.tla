-------------------------------- MODULE Feed --------------------------------
(***************************************************************************)
(* What the daemon promises a subscriber: it shows worlds that were        *)
(* published, whole, and never goes back to an older one.  It may skip     *)
(* some, lag behind, or leave.                                             *)
(***************************************************************************)
EXTENDS Naturals, Sequences

CONSTANT Sub, Worlds

VARIABLES
  log,    \* the worlds published, in order
  pos,    \* the place in it of the world each subscriber shows, or 0
  shown   \* that world
  
vars == <<log, pos, shown>>

Init ==
  /\ \E w \in Worlds : log = <<w>>
  /\ pos = [s \in Sub |-> 0] /\ shown \in [Sub -> Worlds]

Publish(w) == log' = Append(log, w) /\ UNCHANGED <<pos, shown>>

Follow(s, i) ==
  /\ i > pos[s]
  /\ pos' = [pos EXCEPT ![s] = i]
  /\ shown' = [shown EXCEPT ![s] = log[i]]
  /\ UNCHANGED log

Next ==
  \/ \E w \in Worlds : Publish(w)
  \/ \E s \in Sub, i \in 1..Len(log) : Follow(s, i)

Spec == Init /\ [][Next]_vars
=============================================================================
