---------------------------- MODULE DetectProofs ----------------------------
(***************************************************************************)
(* Proofs about detection, for every set of panes, windows and agents, and *)
(* every number of samples and ticks that the confirmation of an end and   *)
(* the delay of a notification may be set to.                              *)
(*                                                                         *)
(* The inductive invariant ties what the daemon keeps of a pane to its     *)
(* history: the votes for an end to the samples that held still            *)
(* (Evidence), the age of a notification to the time the state has lasted  *)
(* (Young), what is armed to the turn it is about (Once), and what the     *)
(* daemon believes of the client to the re-list that is due (Watching).    *)
(***************************************************************************)
EXTENDS Detect, TLAPS

\* The votes for an end are samples that held still, and only a turn has votes.
Evidence(p) ==
  agents[p] # None =>
    /\ agents[p].pending # 0 => agents[p].state \in Turning
    /\ agents[p].want = "idle" => agents[p].pending <= still[p]

\* A notification about the present state is no older than that state.
Young(p) == note[p] # None /\ note[p].state = State(agents[p]) => note[p].age <= held[p]

\* While the agent works nothing was announced, nor while an announcement is armed.
Once(p) ==
  /\ turns[p] \in {0, 1}
  /\ State(agents[p]) \in {"working", "blocked"} => turns[p] = 0
  /\ note[p] # None /\ note[p].state = "done" => turns[p] = 0

\* The daemon knows where the client is, or a re-list is due.
Watching == vis = cur \/ kick

IInv ==
  /\ TypeOK /\ Watching /\ DoneIsUnseen /\ PublishedState
  /\ \A p \in Pane : Evidence(p) /\ Young(p) /\ Once(p)

-----------------------------------------------------------------------------
(* Verdicts.                                                                 *)

\* What a sample says, and what it asks for.
LEMMA SampleType ==
  ASSUME NEW s \in Sample
  PROVE  /\ s.says \in {"nothing", "idle", "prompt", "blocked", "working", "background"}
         /\ s.says = "nothing" => s = Nothing
         /\ s.moved \in BOOLEAN /\ s.late \in BOOLEAN
         /\ s.says # "nothing" => Want(s) \in {"idle", "blocked", "working", "background"}
<1>1. s.says = "nothing" => s.moved = FALSE /\ s.late = FALSE
  BY DEF Sample, Turning
<1> QED
  BY <1>1 DEF Sample, Turning, Nothing, Want

\* A pane has an agent's record or none.
LEMMA AgentType == ASSUME TypeOK, NEW p \in Pane PROVE agents[p] \in {None} \cup Agent
  BY DEF TypeOK

\* A sample says nothing, it votes, or it decides.
Applied(a, s, watched, b) ==
  \/ b = a /\ (s = Nothing \/ (a.state = "done" /\ Want(s) = "idle"))
  \/ /\ s.says # "nothing" /\ Waits(a, s)
     /\ b = [a EXCEPT !.pending = Votes(a, s), !.want = Want(s)]
  \/ /\ s.says # "nothing" /\ ~Waits(a, s) /\ ~(a.state = "done" /\ Want(s) = "idle")
     /\ b = [a EXCEPT !.pending = 0, !.want = "", !.state = Lands(a, s, watched)]

\* What a sample makes of an agent that is judged.
LEMMA ApplyCases ==
  ASSUME NEW a \in Agent, NEW s \in Sample, NEW watched \in BOOLEAN
  PROVE  Applied(a, s, watched, Apply(a, s, watched))
  BY SampleType DEF Apply, Applied

\* The votes are counted in samples.
LEMMA VotesType == ASSUME NEW a \in Agent, NEW s \in Sample PROVE Votes(a, s) \in Nat
  BY SampleType, DetectAssumption DEF Votes, Agent

\* Only work and a question end in "done", and only when nobody watches.
LEMMA LandsType ==
  ASSUME NEW a \in Agent, NEW s \in Sample, NEW watched \in BOOLEAN, s.says # "nothing"
  PROVE  /\ Lands(a, s, watched) \in {"idle", "blocked", "working", "background", "done"}
         /\ Lands(a, s, watched) = "done" => a.state \in {"working", "blocked"} /\ ~watched
         /\ Lands(a, s, watched) \in {"idle", "done"} => Want(s) = "idle"
  BY SampleType DEF Lands

\* A pane of a pass: no agent or a new one; the same state as before, with the same
\* votes or one more; or another state.
Outcome(p, s, new) ==
  LET old == agents[p]
  IN  /\ new \in {None} \cup Agent
      /\ \/ State(new) = "" /\ (new # None => new.pending = 0 /\ new.want = "")
         \/ /\ old \in Agent /\ old # None /\ new \in Agent /\ new.kind = old.kind
            /\ \/ /\ new.state = old.state /\ new.pending = old.pending /\ new.want = old.want
                  /\ s = Nothing \/ (old.state = "done" /\ Want(s) = "idle")
               \/ /\ s.says # "nothing" /\ Waits(old, s) /\ new.state = old.state
                  /\ new.pending = Votes(old, s) /\ new.want = Want(s)
               \/ /\ s.says # "nothing" /\ ~Waits(old, s)
                  /\ ~(old.state = "done" /\ Want(s) = "idle")
                  /\ new.pending = 0 /\ new.want = ""
                  /\ new.state = Lands(old, s, at[p] = vis)

\* What the pass makes of a pane has one of these outcomes.
LEMMA Verdict ==
  ASSUME TypeOK, NEW p \in Pane, NEW s \in Sample, s # Nothing => Judged(p)
  PROVE  Outcome(p, s, Classify(p, s))
<1> DEFINE old == agents[p]
           new == Classify(p, s)
           a   == [old EXCEPT !.win = at[p]]
           w   == (at[p] = vis)
<1>4. 0 \in 0..(Confirms - 1)
  BY DetectAssumption
<1>0. old \in {None} \cup Agent /\ at[p] \in Window /\ prog[p] \in Kind \cup {None}
  BY AgentType DEF TypeOK
<1>1. CASE prog[p] = None
  BY <1>1 DEF Classify, State, Outcome
<1>2. CASE prog[p] # None /\ KindOf(old) # prog[p]
  <2>1. new = New(prog[p], at[p])
    BY <1>2 DEF Classify
  <2>2. New(prog[p], at[p]) \in Agent
    BY <1>0, <1>2, <1>4 DEF New, Agent, States
  <2>3. /\ New(prog[p], at[p]).state = "" /\ New(prog[p], at[p]).pending = 0
        /\ New(prog[p], at[p]).want = ""
    BY DEF New
  <2> HIDE DEF new
  <2>4. new \in Agent /\ State(new) = "" /\ new.pending = 0 /\ new.want = ""
    BY <2>1, <2>2, <2>3 DEF State
  <2> QED
    BY <2>4 DEF new, Outcome
<1>3. CASE prog[p] # None /\ KindOf(old) = prog[p]
  <2>1. old # None /\ old \in Agent
    BY <1>0, <1>3 DEF KindOf
  <2>2. new = Apply(a, s, w)
    BY <1>3 DEF Classify
  <2>3. a \in Agent /\ a.kind = old.kind /\ a.state = old.state /\ a.pending = old.pending /\ a.want = old.want
    BY <1>0, <2>1 DEF Agent
  <2>4. Waits(a, s) = Waits(old, s) /\ Votes(a, s) = Votes(old, s) /\ Lands(a, s, w) = Lands(old, s, w)
    BY <2>3 DEF Waits, Votes, Lands
  <2>5. Votes(a, s) \in Nat /\ (Waits(a, s) => Votes(a, s) \in 0..(Confirms - 1))
    BY <2>3, VotesType, DetectAssumption DEF Waits
  <2>6. s.says # "nothing" => Want(s) \in States /\ Lands(a, s, w) \in States
    BY <2>3, SampleType, LandsType DEF States
  <2> HIDE DEF a, w, old, new
  <2>7. \/ new = a /\ (s = Nothing \/ (a.state = "done" /\ Want(s) = "idle"))
        \/ /\ s.says # "nothing" /\ Waits(a, s)
           /\ new = [a EXCEPT !.pending = Votes(a, s), !.want = Want(s)]
        \/ /\ s.says # "nothing" /\ ~Waits(a, s) /\ ~(a.state = "done" /\ Want(s) = "idle")
           /\ new = [a EXCEPT !.pending = 0, !.want = "", !.state = Lands(a, s, w)]
    <3>1. w \in BOOLEAN
      BY DEF w
    <3>2. a \in Agent
      BY <2>3
    <3>3. Applied(a, s, w, Apply(a, s, w))
      BY <3>1, <3>2, ApplyCases
    <3> QED
      BY <2>2, <3>3 DEF Applied
  <2>8. new \in Agent /\ new.kind = old.kind
    <3>1. "" \in States
      BY DEF States
    <3>2. CASE new = a
      BY <2>3, <3>2
    <3>3. CASE /\ s.says # "nothing" /\ Waits(a, s)
               /\ new = [a EXCEPT !.pending = Votes(a, s), !.want = Want(s)]
      BY <2>3, <2>5, <2>6, <3>3 DEF Agent
    <3>4. CASE /\ s.says # "nothing"
               /\ new = [a EXCEPT !.pending = 0, !.want = "", !.state = Lands(a, s, w)]
      BY <1>4, <2>3, <2>6, <3>1, <3>4 DEF Agent
    <3> QED
      BY <2>7, <3>2, <3>3, <3>4
  <2>9. CASE new = a /\ (s = Nothing \/ (a.state = "done" /\ Want(s) = "idle"))
    BY <2>1, <2>3, <2>8, <2>9 DEF old, new, Outcome
  <2>10. CASE /\ s.says # "nothing" /\ Waits(a, s)
              /\ new = [a EXCEPT !.pending = Votes(a, s), !.want = Want(s)]
    <3>1. new.state = old.state /\ new.pending = Votes(old, s) /\ new.want = Want(s)
      BY <2>3, <2>4, <2>10 DEF Agent
    <3> QED
      BY <2>1, <2>4, <2>8, <2>10, <3>1 DEF old, new, Outcome
  <2>11. CASE /\ s.says # "nothing" /\ ~Waits(a, s) /\ ~(a.state = "done" /\ Want(s) = "idle")
              /\ new = [a EXCEPT !.pending = 0, !.want = "", !.state = Lands(a, s, w)]
    <3>1. new.state = Lands(old, s, w) /\ new.pending = 0 /\ new.want = ""
      BY <2>3, <2>4, <2>11 DEF Agent
    <3> QED
      BY <2>1, <2>3, <2>4, <2>8, <2>11, <3>1 DEF old, new, w, Outcome
  <2> QED
    BY <2>7, <2>9, <2>10, <2>11
<1> QED
  BY <1>1, <1>2, <1>3

-----------------------------------------------------------------------------
(* One pane of a pass.                                                       *)

\* A pass with these samples, what it publishes left aside.
Learns(s) ==
  LET new == [p \in Pane |-> Classify(p, s[p])]
      n   == [p \in Pane |-> Armed(p, agents[p], new[p])]
  IN  /\ \A p \in Pane : s[p] # Nothing => Judged(p)
      /\ agents' = new
      /\ note' = [p \in Pane |-> IF Drops(n[p], new[p]) THEN None ELSE n[p]]
      /\ Records(s, new, n)

\* The notification of a pane, before it fires or is dropped.
Pending(p) == Armed(p, agents[p], agents'[p])

\* What a pass does to one pane.
LEMMA Learnt ==
  ASSUME NEW s \in [Pane -> Sample], Learns(s), NEW p \in Pane
  PROVE  LET old == agents[p]  new == agents'[p]  n == Pending(p)
             stayed == (State(new) = State(old))
         IN
         /\ s[p] \in Sample /\ (s[p] # Nothing => Judged(p))
         /\ new = Classify(p, s[p])
         /\ note'[p] = IF Drops(n, new) THEN None ELSE n
         /\ still'[p] = IF KindOf(new) # KindOf(old) THEN 0
                        ELSE IF s[p] = Nothing THEN still[p]
                        ELSE IF s[p].says = "idle" /\ ~s[p].moved
                             THEN Upto(still[p] + 1, Confirms) ELSE 0
         /\ proof'[p] = (\/ s[p].says = "prompt"
                         \/ /\ s[p].says = "idle"
                            /\ still'[p] = Confirms \/ (s[p].late /\ still'[p] > 1))
         /\ held'[p] = IF stayed THEN Upto(held[p] + 1, Delay) ELSE 0
         /\ told'[p] = (Fires(n, new) \/ (stayed /\ told[p]))
         /\ turns'[p] = IF State(new) \in {"", "working", "blocked"} THEN 0
                        ELSE IF Fires(n, new) /\ n.state = "done" THEN Upto(turns[p] + 1, 2)
                        ELSE turns[p]
  BY DEF Learns, Records, Pending

\* The state of an agent is a state, and it is none only where there is no agent.
LEMMA StateType ==
  ASSUME NEW a \in {None} \cup Agent
  PROVE  State(a) \in States /\ (a # None => State(a) = a.state) /\ (State(a) # "" => a # None)
  BY DEF State, Agent, States

\* The votes of a pane remain samples that held still.
LEMMA EvidenceKept ==
  ASSUME TypeOK, NEW s \in [Pane -> Sample], Learns(s), NEW p \in Pane, Evidence(p)
  PROVE  Evidence(p)' /\ still'[p] \in 0..Confirms
<1> DEFINE old == agents[p]  new == agents'[p]  x == s[p]
<1>1. x \in Sample /\ (x # Nothing => Judged(p)) /\ new = Classify(p, x)
  BY Learnt
<1>2. old \in {None} \cup Agent
  BY AgentType
<1>3. still'[p] = IF KindOf(new) # KindOf(old) THEN 0
                  ELSE IF x = Nothing THEN still[p]
                  ELSE IF x.says = "idle" /\ ~x.moved THEN Upto(still[p] + 1, Confirms) ELSE 0
  BY Learnt
<1>4. Confirms \in Nat \ {0, 1} /\ still[p] \in 0..Confirms
  BY DetectAssumption DEF TypeOK
<1>5. still'[p] \in 0..Confirms
  BY <1>3, <1>4 DEF Upto
<1>6. /\ new \in {None} \cup Agent
      /\ \/ State(new) = "" /\ (new # None => new.pending = 0 /\ new.want = "")
         \/ /\ old \in Agent /\ old # None /\ new \in Agent /\ new.kind = old.kind
            /\ \/ /\ new.state = old.state /\ new.pending = old.pending /\ new.want = old.want
                  /\ x = Nothing \/ (old.state = "done" /\ Want(x) = "idle")
               \/ /\ x.says # "nothing" /\ Waits(old, x) /\ new.state = old.state
                  /\ new.pending = Votes(old, x) /\ new.want = Want(x)
               \/ /\ x.says # "nothing" /\ ~Waits(old, x)
                  /\ ~(old.state = "done" /\ Want(x) = "idle")
                  /\ new.pending = 0 /\ new.want = ""
                  /\ new.state = Lands(old, x, at[p] = vis)
  <2> HIDE DEF new, x
  <2>1. Outcome(p, x, new)
    BY <1>1, Verdict
  <2> QED
    BY <2>1 DEF Outcome, old
<1>7. old # None => /\ old.pending # 0 => old.state \in Turning
                    /\ old.want = "idle" => old.pending <= still[p]
  BY DEF Evidence
<1> HIDE DEF old, new, x
<1>8. \/ new = None
      \/ /\ new.pending # 0 => new.state \in Turning
         /\ new.want = "idle" => new.pending <= still'[p]
  <2>1. CASE State(new) = "" /\ (new # None => new.pending = 0 /\ new.want = "")
    BY <2>1
  <2>2. CASE /\ old \in Agent /\ old # None /\ new \in Agent /\ new.kind = old.kind
             /\ new.state = old.state /\ new.pending = old.pending /\ new.want = old.want
             /\ x = Nothing \/ (old.state = "done" /\ Want(x) = "idle")
    <3>1. new # None => KindOf(new) = KindOf(old)
      BY <2>2 DEF KindOf
    <3>2. CASE x = Nothing
      BY <1>3, <1>7, <2>2, <3>1, <3>2
    <3>3. CASE old.state = "done"
      BY <1>5, <1>7, <2>2, <3>3 DEF Turning
    <3> QED
      BY <2>2, <3>2, <3>3
  <2>3. CASE /\ old \in Agent /\ old # None /\ new \in Agent /\ new.kind = old.kind
             /\ x.says # "nothing" /\ Waits(old, x) /\ new.state = old.state
             /\ new.pending = Votes(old, x) /\ new.want = Want(x)
    <3>1. new # None => KindOf(new) = KindOf(old)
      BY <2>3 DEF KindOf
    <3>2. old.state \in Turning /\ x.says # "prompt" /\ Votes(old, x) < Confirms
      BY <2>3 DEF Waits, Hold
    <3>3. ASSUME new # None, new.want = "idle" PROVE new.pending <= still'[p]
      <4>1. x.says = "idle" /\ Want(x) = "idle" /\ x # Nothing
        BY <2>3, <3>2, <3>3 DEF Want, Nothing
      <4>2. CASE x.moved
        <5>1. Votes(old, x) = 0
          BY <4>1, <4>2 DEF Votes, NeedStill
        <5> QED
          BY <1>5, <2>3, <5>1
      <4>3. CASE ~x.moved
        <5>1. still'[p] = Upto(still[p] + 1, Confirms)
          BY <1>3, <3>1, <3>3, <4>1, <4>3
        <5>2. Votes(old, x) = (IF old.want = "idle" THEN old.pending ELSE 0) + 1
          BY <4>1, <4>3 DEF Votes
        <5>3. Votes(old, x) <= still[p] + 1
          <6>1. old.pending \in Nat
            BY <2>3, <1>4 DEF Agent
          <6> QED
            BY <1>4, <1>7, <2>3, <5>2, <6>1
        <5>4. Votes(old, x) \in Nat
          BY <1>1, <2>3, VotesType
        <5> QED
          BY <1>4, <2>3, <3>2, <5>1, <5>3, <5>4 DEF Upto
      <4> QED
        BY <4>2, <4>3
    <3> QED
      BY <2>3, <3>2, <3>3
  <2>4. CASE new.pending = 0 /\ new.want = ""
    BY <2>4
  <2> QED
    BY <1>6, <2>1, <2>2, <2>3, <2>4
<1> QED
  BY <1>5, <1>8 DEF Evidence, new

\* A turn that a pass takes for over has the evidence of it.
LEMMA EndHasEvidence ==
  ASSUME TypeOK, NEW s \in [Pane -> Sample], Learns(s), NEW p \in Pane, Evidence(p),
         State(agents[p]) \in Turning, State(agents'[p]) \in {"idle", "done"}
  PROVE  proof'[p]
<1> DEFINE old == agents[p]  new == agents'[p]  x == s[p]
<1>1. x \in Sample /\ (x # Nothing => Judged(p)) /\ new = Classify(p, x)
  BY Learnt
<1>2. old \in {None} \cup Agent
  BY AgentType
<1>3. still'[p] = IF KindOf(new) # KindOf(old) THEN 0
                  ELSE IF x = Nothing THEN still[p]
                  ELSE IF x.says = "idle" /\ ~x.moved THEN Upto(still[p] + 1, Confirms) ELSE 0
  BY Learnt
<1>4. Confirms \in Nat \ {0, 1} /\ still[p] \in 0..Confirms
  BY DetectAssumption DEF TypeOK
<1>5. proof'[p] = (\/ x.says = "prompt"
                   \/ /\ x.says = "idle"
                      /\ still'[p] = Confirms \/ (x.late /\ still'[p] > 1))
  BY Learnt
<1>6. /\ new \in {None} \cup Agent
      /\ \/ State(new) = "" /\ (new # None => new.pending = 0 /\ new.want = "")
         \/ /\ old \in Agent /\ old # None /\ new \in Agent /\ new.kind = old.kind
            /\ \/ /\ new.state = old.state /\ new.pending = old.pending /\ new.want = old.want
                  /\ x = Nothing \/ (old.state = "done" /\ Want(x) = "idle")
               \/ /\ x.says # "nothing" /\ Waits(old, x) /\ new.state = old.state
                  /\ new.pending = Votes(old, x) /\ new.want = Want(x)
               \/ /\ x.says # "nothing" /\ ~Waits(old, x)
                  /\ ~(old.state = "done" /\ Want(x) = "idle")
                  /\ new.pending = 0 /\ new.want = ""
                  /\ new.state = Lands(old, x, at[p] = vis)
  <2> HIDE DEF new, x
  <2>1. Outcome(p, x, new)
    BY <1>1, Verdict
  <2> QED
    BY <2>1 DEF Outcome, old
<1>7. old # None => (old.want = "idle" => old.pending <= still[p])
  BY DEF Evidence
<1>8. State(old) \in Turning /\ State(new) \in {"idle", "done"}
  OBVIOUS
<1>9. (at[p] = vis) \in BOOLEAN
  OBVIOUS
<1> HIDE DEF old, new, x
<1>10. /\ old \in Agent /\ old # None /\ old.state \in Turning
       /\ new \in Agent /\ new # None /\ new.kind = old.kind
       /\ new.state \in {"idle", "done"}
  BY <1>2, <1>6, <1>8 DEF State, Turning
<1>11. x.says # "nothing" /\ ~Waits(old, x) /\ new.state = Lands(old, x, at[p] = vis)
  BY <1>6, <1>8, <1>10 DEF State, Turning
<1>12. Want(x) = "idle"
  BY <1>1, <1>9, <1>10, <1>11, LandsType
<1>13. x.says \in {"prompt", "idle"} /\ x # Nothing
  BY <1>11, <1>12 DEF Want, Nothing
<1>14. CASE x.says = "idle"
  <2>1. Votes(old, x) >= Confirms \/ (x.late /\ Votes(old, x) > 1)
    <3>1. Votes(old, x) \in Nat
      BY <1>1, <1>10, VotesType
    <3> QED
      BY <1>4, <1>10, <1>11, <1>12, <1>14, <3>1 DEF Waits, Hold
  <2>2. ~x.moved
    BY <1>4, <1>12, <2>1 DEF Votes, NeedStill
  <2>3. Votes(old, x) = (IF old.want = "idle" THEN old.pending ELSE 0) + 1
    BY <1>12, <2>2 DEF Votes
  <2>4. old.pending \in Nat
    BY <1>10, <1>4 DEF Agent
  <2>5. still'[p] = Upto(still[p] + 1, Confirms)
    <3>1. KindOf(new) = KindOf(old)
      BY <1>10 DEF KindOf
    <3> QED
      BY <1>3, <1>13, <1>14, <2>2, <3>1
  <2>6. Votes(old, x) <= still[p] + 1
    BY <1>4, <1>7, <1>10, <2>3, <2>4
  <2>7. still'[p] = Confirms \/ (x.late /\ still'[p] > 1)
    <3>1. Votes(old, x) \in Nat
      BY <1>1, <1>10, VotesType
    <3> QED
      BY <1>4, <2>1, <2>5, <2>6, <3>1 DEF Upto
  <2> QED
    BY <1>5, <1>14, <2>7
<1> QED
  BY <1>5, <1>13, <1>14

\* Only work and a question, in a pane that is not in sight, become "done".
LEMMA BecomesDone ==
  ASSUME TypeOK, NEW s \in [Pane -> Sample], Learns(s), NEW p \in Pane,
         State(agents'[p]) = "done", State(agents[p]) # "done"
  PROVE  State(agents[p]) \in {"working", "blocked"} /\ at[p] # vis
<1> DEFINE old == agents[p]  new == agents'[p]  x == s[p]
<1>1. x \in Sample /\ Outcome(p, x, new)
  <2>1. x \in Sample /\ (x # Nothing => Judged(p)) /\ new = Classify(p, x)
    BY Learnt
  <2> HIDE DEF new, x
  <2> QED
    BY <2>1, Verdict
<1>2. State(new) = "done" /\ State(old) # "done" /\ (at[p] = vis) \in BOOLEAN
  OBVIOUS
<1> HIDE DEF new, x
<1>3. /\ old \in Agent /\ old # None /\ new \in Agent
      /\ \/ new.state = old.state
         \/ x.says # "nothing" /\ new.state = Lands(old, x, at[p] = vis)
  BY <1>1, <1>2 DEF Outcome
<1>4. new.state = "done" /\ old.state # "done" /\ State(old) = old.state
  BY <1>2, <1>3 DEF State
<1> HIDE DEF old
<1> QED
  BY <1>1, <1>2, <1>3, <1>4, LandsType DEF old

\* A notification about the present state was armed in it, and has aged no more
\* than the state has lasted.
LEMMA NoteLasts ==
  ASSUME TypeOK, NEW s \in [Pane -> Sample], Learns(s), NEW p \in Pane, Young(p)
  PROVE  /\ Pending(p) # None => Pending(p) \in Note
         /\ held'[p] \in 0..Delay
         /\ Pending(p) # None /\ Pending(p).state = State(agents'[p]) => Pending(p).age <= held'[p]
<1> DEFINE old == agents[p]  new == agents'[p]  n == Pending(p)  arms == Arms(old, new)
<1>1. held'[p] = IF State(new) = State(old) THEN Upto(held[p] + 1, Delay) ELSE 0
  BY Learnt
<1>2. held[p] \in 0..Delay /\ note[p] \in {None} \cup Note /\ Delay \in Nat
  BY DetectAssumption DEF TypeOK
<1>3. held'[p] \in 0..Delay
  BY <1>1, <1>2 DEF Upto
<1>4. /\ arms \in {None, "blocked", "done"}
      /\ State(new) \in {"blocked", "done"} /\ State(new) # State(old) => arms # None
  BY DetectAssumption DEF Arms
<1>5. note[p] # None /\ note[p].state = State(old) => note[p].age <= held[p]
  BY DEF Young
<1>6. n = IF arms # None THEN [state |-> arms, age |-> 0]
          ELSE IF note[p] = None THEN None
          ELSE [note[p] EXCEPT !.age = IF @ < Delay THEN @ + 1 ELSE @]
  BY DEF Pending, Armed
<1> HIDE DEF old, new, n, arms
<1>7. /\ n # None => n \in Note
      /\ n # None /\ n.state = State(new) => n.age <= held'[p]
  <2>1. CASE arms # None
    <3>1. n \in Note /\ n.age = 0
      BY <1>2, <1>4, <1>6, <2>1 DEF Note
    <3> QED
      BY <1>3, <3>1
  <2>2. CASE arms = None /\ note[p] # None
    <3>1. /\ n \in Note /\ n.state = note[p].state
          /\ n.age = Upto(note[p].age + 1, Delay) /\ note[p].age \in 0..Delay
      BY <1>2, <1>6, <2>2 DEF Note, Upto
    <3>2. ASSUME n.state = State(new) PROVE n.age <= held'[p]
      <4>1. State(new) = State(old)
        BY <1>4, <2>2, <3>1, <3>2 DEF Note
      <4>2. held'[p] = Upto(held[p] + 1, Delay) /\ note[p].age <= held[p]
        BY <1>1, <1>5, <2>2, <3>1, <3>2, <4>1
      <4> QED
        BY <1>2, <3>1, <4>2 DEF Upto
    <3> QED
      BY <3>1, <3>2
  <2> QED
    BY <1>6, <2>1, <2>2
<1> QED
  BY <1>3, <1>7 DEF n, new

\* A notification fires about a state that has lasted as long as the delay asks.
LEMMA FiresLate ==
  ASSUME TypeOK, NEW s \in [Pane -> Sample], Learns(s), NEW p \in Pane, Young(p),
         told'[p], ~told[p]
  PROVE  held'[p] = Delay
<1>1. Fires(Pending(p), agents'[p])
  BY Learnt
<1>2. /\ Pending(p) # None /\ Pending(p).state = State(agents'[p])
      /\ Pending(p).age >= Delay
  BY <1>1 DEF Fires
<1>3. /\ Pending(p) \in Note /\ held'[p] \in 0..Delay
      /\ Pending(p).age <= held'[p]
  BY <1>2, NoteLasts
<1>4. Pending(p).age \in Nat /\ Delay \in Nat
  BY <1>3, DetectAssumption DEF Note
<1> HIDE DEF Pending
<1> QED
  BY <1>2, <1>3, <1>4

\* What remains armed after a pass is about the present, and has not fired.
LEMMA NoteKept ==
  ASSUME TypeOK, NEW s \in [Pane -> Sample], Learns(s), NEW p \in Pane, Young(p), Once(p)
  PROVE  /\ Young(p)' /\ Once(p)' /\ turns'[p] \in 0..2
         /\ note'[p] \in {None} \cup Note
         /\ held'[p] \in 0..Delay /\ told'[p] \in BOOLEAN
<1> DEFINE old == agents[p]  new == agents'[p]  n == Pending(p)
<1>1. /\ note'[p] = IF Drops(n, new) THEN None ELSE n
      /\ turns'[p] = IF State(new) \in {"", "working", "blocked"} THEN 0
                     ELSE IF Fires(n, new) /\ n.state = "done" THEN Upto(turns[p] + 1, 2)
                     ELSE turns[p]
      /\ told'[p] \in BOOLEAN
  BY Learnt
<1>2. /\ n # None => n \in Note
      /\ held'[p] \in 0..Delay
      /\ n # None /\ n.state = State(new) => n.age <= held'[p]
  BY NoteLasts
<1>3. turns[p] \in {0, 1}
  BY DEF Once
\* A completion is armed or fires only where none was announced.
<1>4. ASSUME n # None, n.state = "done", State(new) = "done" PROVE turns[p] = 0
  <2>1. CASE State(old) # "done"
    BY <1>4, <2>1, BecomesDone DEF Once
  <2>2. CASE State(old) = "done"
    <3>1. Arms(old, new) = None
      BY <1>4, <2>2 DEF Arms
    <3>2. note[p] # None /\ n = [note[p] EXCEPT !.age = IF @ < Delay THEN @ + 1 ELSE @]
      BY <1>4, <3>1 DEF Pending, Armed
    <3>3. note[p] \in Note
      BY <3>2 DEF TypeOK
    <3>4. note[p].state = "done"
      BY <1>4, <3>2, <3>3 DEF Note
    <3> QED
      BY <3>2, <3>4 DEF Once
  <2> QED
    BY <2>1, <2>2
<1> HIDE DEF old, n
<1>5. note'[p] # None => note'[p] = n /\ n # None /\ n.state = State(new) /\ ~Fires(n, new)
  BY <1>1, <1>2 DEF Drops, Fires
<1>6. Young(p)'
  BY <1>2, <1>5 DEF Young
<1>7. note'[p] \in {None} \cup Note
  BY <1>1, <1>2
<1>8. turns'[p] \in {0, 1}
  <2>1. CASE Fires(n, new) /\ n.state = "done"
    BY <1>1, <1>4, <2>1 DEF Fires, Upto
  <2>2. CASE ~(Fires(n, new) /\ n.state = "done")
    BY <1>1, <1>3, <2>2
  <2> QED
    BY <2>1, <2>2
<1>9. note'[p] # None /\ note'[p].state = "done" => turns'[p] = 0
  BY <1>1, <1>4, <1>5
<1>10. Once(p)'
  BY <1>1, <1>8, <1>9 DEF Once
<1>11. turns'[p] \in 0..2
  BY <1>8
<1>12. held'[p] \in 0..Delay /\ told'[p] \in BOOLEAN
  BY <1>1, <1>2
<1> QED
  BY <1>6, <1>7, <1>10, <1>11, <1>12

-----------------------------------------------------------------------------
(* The invariant.                                                            *)

\* Where the program starts: no agent is known, and nothing is armed.
LEMMA InitInv == Init => IInv
<1> SUFFICES ASSUME Init PROVE IInv
  OBVIOUS
<1>1. Delay \in Nat /\ Confirms \in Nat \ {0, 1} /\ MaxMoves \in Nat
  BY DetectAssumption
<1>2. \A p \in Pane : agents[p] = None /\ note[p] = None /\ turns[p] = 0
  BY DEF Init
<1>3. pub = [p \in Pane |-> [kind |-> None, state |-> ""]]
  BY <1>2 DEF Init, Shown, KindOf, State
<1>4. TypeOK
  <2>1. pub \in [Pane -> [kind : Kind \cup {None}, state : States]]
    BY <1>3 DEF States
  <2>2. /\ still \in [Pane -> 0..Confirms] /\ held \in [Pane -> 0..Delay]
        /\ turns \in [Pane -> 0..2] /\ moves \in 0..MaxMoves
    BY <1>1 DEF Init
  <2>3. /\ prog \in [Pane -> Kind \cup {None}] /\ at \in [Pane -> Window]
        /\ {cur, vis} \subseteq Window \cup {None} /\ kick \in BOOLEAN /\ stray \subseteq Pane
        /\ proof \in [Pane -> BOOLEAN] /\ told \in [Pane -> BOOLEAN]
    BY DEF Init
  <2>4. /\ agents \in [Pane -> {None} \cup Agent] /\ note \in [Pane -> {None} \cup Note]
    BY DEF Init
  <2> QED
    BY <2>1, <2>2, <2>3, <2>4 DEF TypeOK
<1>5. DoneIsUnseen /\ PublishedState
  BY <1>2, <1>3 DEF DoneIsUnseen, PublishedState, State
<1>6. Watching
  BY DEF Init, Watching
<1>7. \A p \in Pane : Evidence(p) /\ Young(p) /\ Once(p)
  BY <1>2 DEF Evidence, Young, Once
<1> QED
  BY <1>4, <1>5, <1>6, <1>7 DEF IInv

\* What subscribers are shown of agents is an agent and a state.
LEMMA ShownType ==
  ASSUME NEW as \in [Pane -> {None} \cup Agent]
  PROVE  /\ Shown(as) \in [Pane -> [kind : Kind \cup {None}, state : States]]
         /\ \A p \in Pane : Shown(as)[p].state = State(as[p])
<1>1. ASSUME NEW p \in Pane PROVE KindOf(as[p]) \in Kind \cup {None} /\ State(as[p]) \in States
  <2>1. as[p] \in {None} \cup Agent
    OBVIOUS
  <2> HIDE DEF Agent
  <2>2. State(as[p]) \in States
    BY <2>1, StateType
  <2>3. KindOf(as[p]) \in Kind \cup {None}
    BY <2>1 DEF KindOf, Agent
  <2> QED
    BY <2>2, <2>3
<1> QED
  BY <1>1 DEF Shown

\* A pass keeps the invariant.
LEMMA TickStep == ASSUME IInv, Tick PROVE IInv'
<1>1. PICK s \in [Pane -> Sample] :
        LET new == [p \in Pane |-> Classify(p, s[p])]
            n   == [p \in Pane |-> Armed(p, agents[p], new[p])]
        IN  /\ \A p \in Pane : s[p] # Nothing => Judged(p)
            /\ agents' = new
            /\ \/ /\ pub' = Shown(new) /\ (Changed(agents, new) \/ \E p \in Pane : Judged(p))
                  /\ vis' \in {vis, IF Appears(new) THEN cur ELSE vis}
               \/ UNCHANGED <<pub, vis>> /\ ~Changed(agents, new)
            /\ note' = [p \in Pane |-> IF Drops(n[p], new[p]) THEN None ELSE n[p]]
            /\ Records(s, new, n)
            /\ UNCHANGED <<tmux, kick, stray>>
  BY DEF Tick
<1>2. Learns(s)
  BY <1>1 DEF Learns
<1>3. /\ \/ pub' = Shown(agents') /\ vis' \in {vis, cur}
         \/ UNCHANGED <<pub, vis>> /\ ~Changed(agents, agents')
      /\ UNCHANGED <<prog, at, cur, moves, kick, stray>>
  BY <1>1 DEF tmux
<1>4. TypeOK /\ \A p \in Pane : Evidence(p) /\ Young(p) /\ Once(p)
  BY DEF IInv
<1>5. /\ agents' = [p \in Pane |-> agents'[p]] /\ note' = [p \in Pane |-> note'[p]]
      /\ still' = [p \in Pane |-> still'[p]] /\ proof' = [p \in Pane |-> proof'[p]]
      /\ held' = [p \in Pane |-> held'[p]] /\ told' = [p \in Pane |-> told'[p]]
      /\ turns' = [p \in Pane |-> turns'[p]]
  BY <1>1 DEF Records
<1>6. ASSUME NEW p \in Pane
      PROVE  /\ Evidence(p)' /\ Young(p)' /\ Once(p)'
             /\ agents'[p] \in {None} \cup Agent /\ note'[p] \in {None} \cup Note
             /\ still'[p] \in 0..Confirms /\ proof'[p] \in BOOLEAN
             /\ held'[p] \in 0..Delay /\ told'[p] \in BOOLEAN /\ turns'[p] \in 0..2
  <2>1. Evidence(p)' /\ still'[p] \in 0..Confirms
    BY <1>2, <1>4, EvidenceKept
  <2>2. /\ Young(p)' /\ Once(p)' /\ turns'[p] \in 0..2 /\ note'[p] \in {None} \cup Note
        /\ held'[p] \in 0..Delay /\ told'[p] \in BOOLEAN
    BY <1>2, <1>4, NoteKept
  <2>3. agents'[p] \in {None} \cup Agent
    <3>1. s[p] \in Sample /\ (s[p] # Nothing => Judged(p)) /\ agents'[p] = Classify(p, s[p])
      BY <1>2, Learnt
    <3> QED
      BY <1>4, <3>1, Verdict DEF Outcome
  <2>4. proof'[p] \in BOOLEAN
    BY <1>2, Learnt
  <2> QED
    BY <2>1, <2>2, <2>3, <2>4
<1>7. agents' \in [Pane -> {None} \cup Agent]
  BY <1>5, <1>6
<1>8. /\ note' \in [Pane -> {None} \cup Note]
      /\ still' \in [Pane -> 0..Confirms] /\ proof' \in [Pane -> BOOLEAN]
      /\ held' \in [Pane -> 0..Delay] /\ told' \in [Pane -> BOOLEAN] /\ turns' \in [Pane -> 0..2]
  BY <1>5, <1>6
<1>9. TypeOK'
  <2>1. pub' \in [Pane -> [kind : Kind \cup {None}, state : States]]
    BY <1>3, <1>4, <1>7, ShownType DEF TypeOK
  <2>2. {cur', vis'} \subseteq Window \cup {None}
    BY <1>3, <1>4 DEF TypeOK
  <2> QED
    BY <1>3, <1>4, <1>7, <1>8, <2>1, <2>2 DEF TypeOK
<1>10. Watching'
  BY <1>3 DEF IInv, Watching
<1>11. PublishedState'
  <2>1. ASSUME NEW p \in Pane, ~kick' PROVE pub'[p].state = State(agents'[p])
    <3>1. CASE pub' = Shown(agents')
      BY <1>7, <3>1, ShownType
    <3>2. CASE pub' = pub /\ ~Changed(agents, agents')
      BY <1>3, <2>1, <3>2 DEF Changed, IInv, PublishedState
    <3> QED
      BY <1>3, <3>1, <3>2
  <2> QED
    BY <2>1 DEF PublishedState
<1>12. DoneIsUnseen'
  <2>1. ASSUME NEW p \in Pane \ stray, State(agents'[p]) = "done", at[p] = cur PROVE kick
    <3>1. CASE State(agents[p]) = "done"
      BY <2>1, <3>1 DEF IInv, DoneIsUnseen
    <3>2. CASE State(agents[p]) # "done"
      BY <1>2, <1>4, <2>1, <3>2, BecomesDone DEF IInv, Watching
    <3> QED
      BY <3>1, <3>2
  <2> QED
    BY <1>3, <2>1 DEF DoneIsUnseen
<1> QED
  BY <1>6, <1>9, <1>10, <1>11, <1>12 DEF IInv

\* A re-list keeps it: only an agent that is in sight loses its flag.
LEMMA RelistStep == ASSUME IInv, Relist PROVE IInv'
<1>1. /\ kick' = FALSE /\ vis' = cur /\ pub' = Shown(agents')
      /\ agents' = [p \in Pane |-> IF agents[p] = None THEN None ELSE Seen(agents[p])]
      /\ stray' = {p \in Pane : agents[p] # None /\ (agents[p] # None => agents[p].win # at[p])}
      /\ held' = [p \in Pane |-> IF State(agents'[p]) = State(agents[p]) THEN held[p] ELSE 0]
      /\ told' = [p \in Pane |-> told[p] /\ State(agents'[p]) = State(agents[p])]
      /\ UNCHANGED <<prog, at, cur, moves, note, still, proof, turns>>
  BY DEF Relist, tmux
<1>2. TypeOK /\ \A p \in Pane : Evidence(p) /\ Young(p) /\ Once(p)
  BY DEF IInv
<1>3. ASSUME NEW p \in Pane
      PROVE  \/ agents'[p] = agents[p] /\ ~(agents[p] # None /\ State(agents[p]) = "done" /\ agents[p].win = cur)
             \/ /\ agents[p] # None /\ State(agents[p]) = "done" /\ agents[p].win = cur
                /\ agents[p] \in Agent
                /\ agents'[p] = [agents[p] EXCEPT !.state = "idle"]
  <2>1. agents[p] \in {None} \cup Agent
    BY <1>2, AgentType
  <2> QED
    BY <1>1, <2>1 DEF Seen
<1>4. ASSUME NEW p \in Pane, agents'[p] # agents[p]
      PROVE  /\ agents[p] # None /\ agents[p].state = "done" /\ agents[p].win = cur
             /\ agents[p] \in Agent /\ agents'[p] \in Agent
             /\ agents'[p].state = "idle" /\ State(agents'[p]) \in {"", "idle"}
             /\ agents'[p].pending = agents[p].pending /\ agents'[p].want = agents[p].want
  BY <1>3, <1>4 DEF State, Agent, States
<1>5. agents' \in [Pane -> {None} \cup Agent]
  <2>1. \A p \in Pane : agents[p] \in {None} \cup Agent
    BY <1>2, AgentType
  <2>2. \A p \in Pane : agents'[p] \in {None} \cup Agent
    BY <1>4, <2>1
  <2> QED
    BY <1>1, <2>2
<1>6. TypeOK'
  <2>1. pub' \in [Pane -> [kind : Kind \cup {None}, state : States]]
    BY <1>1, <1>5, ShownType
  <2>2. held' \in [Pane -> 0..Delay] /\ told' \in [Pane -> BOOLEAN]
    BY <1>1, <1>2, DetectAssumption DEF TypeOK
  <2>3. stray' \subseteq Pane
    BY <1>1
  <2> QED
    BY <1>1, <1>2, <1>5, <2>1, <2>2, <2>3 DEF TypeOK
<1>7. Watching'
  BY <1>1 DEF Watching
<1>8. PublishedState'
  BY <1>1, <1>5, ShownType DEF PublishedState
<1>9. DoneIsUnseen'
  <2>1. ASSUME NEW p \in Pane, p \notin stray', State(agents'[p]) = "done", at[p] = cur PROVE FALSE
    <3>1. agents'[p] = agents[p]
      BY <1>4, <2>1
    <3>2. agents[p] # None
      BY <2>1, <3>1 DEF State
    <3>3. agents[p].win = cur
      BY <1>1, <2>1, <3>2
    <3>4. agents[p] \in Agent /\ agents[p].state = "done" /\ State(agents[p]) = "done"
      BY <1>2, <2>1, <3>1, <3>2, AgentType DEF State
    <3>5. agents'[p] = [agents[p] EXCEPT !.state = "idle"]
      BY <1>3, <3>2, <3>3, <3>4
    <3> QED
      BY <3>1, <3>4, <3>5 DEF Agent
  <2> QED
    BY <1>1, <2>1 DEF DoneIsUnseen
<1>10. ASSUME NEW p \in Pane PROVE Evidence(p)' /\ Young(p)' /\ Once(p)'
  <2>1. note'[p] = note[p] /\ turns'[p] = turns[p] /\ still'[p] = still[p]
    BY <1>1
  <2>2. CASE agents'[p] = agents[p]
    <3>1. held'[p] = held[p]
      BY <1>1, <2>2
    <3> QED
      BY <1>2, <2>1, <2>2, <3>1 DEF Evidence, Young, Once
  <2>3. CASE agents'[p] # agents[p]
    <3>1. Evidence(p)'
      <4>1. agents[p].pending = 0
        BY <1>2, <1>4, <2>3 DEF Evidence, Turning
      <4>2. still'[p] \in 0..Confirms /\ Confirms \in Nat
        BY <1>2, <2>1, DetectAssumption DEF TypeOK
      <4>3. 0 <= still'[p]
        BY <4>2
      <4>4. agents'[p].pending = 0
        BY <1>4, <2>3, <4>1
      <4> QED
        BY <4>3, <4>4 DEF Evidence
    <3>2. Once(p)'
      <4>1. /\ turns[p] \in {0, 1}
            /\ note[p] # None /\ note[p].state = "done" => turns[p] = 0
        BY <1>2 DEF Once
      <4>2. State(agents'[p]) \notin {"working", "blocked"}
        BY <1>4, <2>3
      <4> QED
        BY <2>1, <4>1, <4>2 DEF Once
    <3>3. Young(p)'
      <4>1. note[p] # None => note[p].state \in {"blocked", "done"}
        BY <1>2 DEF TypeOK, Note
      <4> QED
        BY <1>4, <2>1, <2>3, <4>1 DEF Young
    <3> QED
      BY <3>1, <3>2, <3>3
  <2> QED
    BY <2>2, <2>3
<1> QED
  BY <1>6, <1>7, <1>8, <1>9, <1>10 DEF IInv

\* The end of a grace period changes nothing that the invariant speaks of.
LEMMA GraceStep == ASSUME IInv, NEW q \in Pane, GraceEnds(q) PROVE IInv'
<1>1. /\ agents[q] # None /\ agents' = [agents EXCEPT ![q].grace = FALSE]
      /\ UNCHANGED <<tmux, kick, vis, note, pub, history>>
  BY DEF GraceEnds
<1>2. TypeOK /\ \A p \in Pane : Evidence(p) /\ Young(p) /\ Once(p)
  BY DEF IInv
<1>3. UNCHANGED <<prog, at, cur, moves, kick, vis, note, pub, still, proof, held, told, turns, stray>>
  BY <1>1 DEF tmux, history
<1>4. ASSUME NEW p \in Pane
      PROVE  \/ agents'[p] = agents[p]
             \/ /\ agents[p] \in Agent /\ agents[p] # None /\ agents'[p] \in Agent /\ agents'[p] # None
                /\ agents'[p].state = agents[p].state /\ agents'[p].pending = agents[p].pending
                /\ agents'[p].want = agents[p].want
  <2>1. agents[p] \in {None} \cup Agent
    BY <1>2, AgentType
  <2>2. agents'[p] = IF p = q THEN [agents[p] EXCEPT !.grace = FALSE] ELSE agents[p]
    BY <1>1, <1>2 DEF TypeOK
  <2>3. CASE p = q
    <3>1. agents[p] \in Agent
      BY <1>1, <2>1, <2>3
    <3>2. agents'[p] \in Agent
      BY <2>2, <2>3, <3>1 DEF Agent
    <3>3. None \notin Agent
      BY DetectAssumption
    <3>4. /\ agents'[p].state = agents[p].state /\ agents'[p].pending = agents[p].pending
          /\ agents'[p].want = agents[p].want
      BY <2>2, <2>3, <3>1 DEF Agent
    <3> QED
      BY <3>1, <3>2, <3>3, <3>4
  <2> QED
    BY <2>2, <2>3
<1>5. agents' \in [Pane -> {None} \cup Agent]
  <2>1. \A p \in Pane : agents[p] \in {None} \cup Agent
    BY <1>2, AgentType
  <2>2. \A p \in Pane : agents'[p] \in {None} \cup Agent
    BY <1>4, <2>1
  <2> QED
    BY <1>1, <1>2, <2>2 DEF TypeOK
<1>6. TypeOK'
  BY <1>2, <1>3, <1>5 DEF TypeOK
<1>7. \A p \in Pane : State(agents'[p]) = State(agents[p])
  BY <1>4 DEF State
<1>8. Watching' /\ DoneIsUnseen' /\ PublishedState'
  BY <1>3, <1>7 DEF IInv, Watching, DoneIsUnseen, PublishedState
<1>9. ASSUME NEW p \in Pane PROVE Evidence(p)' /\ Young(p)' /\ Once(p)'
  <2>1. Evidence(p)'
    BY <1>2, <1>3, <1>4 DEF Evidence
  <2>2. Young(p)' /\ Once(p)'
    BY <1>2, <1>3, <1>7 DEF Young, Once
  <2> QED
    BY <2>1, <2>2
<1> QED
  BY <1>6, <1>8, <1>9 DEF IInv

\* The type of the state, the relation of what the daemon keeps to its history, and
\* what the three properties say of a state hold initially and after every step.
LEMMA StepInv == IInv /\ [Next]_vars => IInv'
<1> SUFFICES ASSUME IInv, [Next]_vars PROVE IInv'
  OBVIOUS
<1>0. TypeOK /\ \A p \in Pane : Evidence(p) /\ Young(p) /\ Once(p)
  BY DEF IInv
\* The agents, what is armed and their histories are those of before.
<1>1. ASSUME UNCHANGED <<agents, note, still, held, turns>>
      PROVE  \A p \in Pane : Evidence(p)' /\ Young(p)' /\ Once(p)'
  BY <1>0, <1>1 DEF Evidence, Young, Once
<1>2. CASE Tick
  BY <1>2, TickStep
<1>3. CASE Relist
  BY <1>3, RelistStep
<1>4. CASE Reattach
  <2>1. /\ vis' = cur /\ kick' = TRUE
        /\ pub' = [p \in Pane |-> [kind |-> None, state |-> ""]]
        /\ UNCHANGED <<prog, at, cur, moves, agents, note, still, proof, held, told, turns, stray>>
    BY <1>4 DEF Reattach, tmux, history
  <2>2. TypeOK'
    BY <1>0, <2>1 DEF TypeOK, States
  <2>3. Watching' /\ DoneIsUnseen' /\ PublishedState'
    BY <2>1 DEF Watching, DoneIsUnseen, PublishedState
  <2> QED
    BY <1>1, <2>1, <2>2, <2>3 DEF IInv
<1>5. CASE \E p \in Pane : GraceEnds(p)
  BY <1>5, GraceStep
<1>6. CASE \E p \in Pane, k \in Kind \cup {None} : Runs(p, k)
  <2>1. PICK p \in Pane, k \in Kind \cup {None} : Runs(p, k)
    BY <1>6
  <2>2. /\ prog' = [prog EXCEPT ![p] = k]
        /\ UNCHANGED <<at, cur, moves, kick, vis, agents, note, pub, still, proof, held, told, turns, stray>>
    BY <2>1 DEF Runs, daemon, history
  <2>3. TypeOK'
    BY <1>0, <2>1, <2>2 DEF TypeOK
  <2>4. Watching' /\ DoneIsUnseen' /\ PublishedState'
    BY <2>2 DEF IInv, Watching, DoneIsUnseen, PublishedState
  <2> QED
    BY <1>1, <2>2, <2>3, <2>4 DEF IInv
<1>7. CASE \E w \in Window \cup {None} : ClientMoves(w)
  <2>1. PICK w \in Window \cup {None} : ClientMoves(w)
    BY <1>7
  <2>2. /\ cur' = w /\ kick' = TRUE
        /\ UNCHANGED <<prog, at, moves, vis, agents, note, pub, still, proof, held, told, turns, stray>>
    BY <2>1 DEF ClientMoves, daemon, history
  <2>3. TypeOK'
    BY <1>0, <2>1, <2>2 DEF TypeOK
  <2>4. Watching' /\ DoneIsUnseen' /\ PublishedState'
    BY <2>2 DEF Watching, DoneIsUnseen, PublishedState
  <2> QED
    BY <1>1, <2>2, <2>3, <2>4 DEF IInv
<1>8. CASE \E p \in Pane, w \in Window : PaneMoves(p, w)
  <2>1. PICK p \in Pane, w \in Window : PaneMoves(p, w)
    BY <1>8
  <2>2. /\ moves < MaxMoves /\ at' = [at EXCEPT ![p] = w] /\ moves' = moves + 1 /\ kick' = TRUE
        /\ UNCHANGED <<prog, cur, vis, agents, note, pub, still, proof, held, told, turns, stray>>
    BY <2>1 DEF PaneMoves, daemon, history
  <2>3. TypeOK'
    <3>1. moves' \in 0..MaxMoves
      BY <1>0, <2>2, DetectAssumption DEF TypeOK
    <3> QED
      BY <1>0, <2>1, <2>2, <3>1 DEF TypeOK
  <2>4. Watching' /\ DoneIsUnseen' /\ PublishedState'
    BY <2>2 DEF Watching, DoneIsUnseen, PublishedState
  <2> QED
    BY <1>1, <2>2, <2>3, <2>4 DEF IInv
<1>9. CASE UNCHANGED vars
  <2>1. UNCHANGED <<prog, at, cur, moves, kick, vis, agents, note, pub, still, proof, held, told, turns, stray>>
    BY <1>9 DEF vars, tmux, daemon, history
  <2>2. TypeOK'
    BY <1>0, <2>1 DEF TypeOK
  <2>3. Watching' /\ DoneIsUnseen' /\ PublishedState'
    BY <2>1 DEF IInv, Watching, DoneIsUnseen, PublishedState
  <2> QED
    BY <1>1, <2>1, <2>2, <2>3 DEF IInv
<1> QED
  BY <1>2, <1>3, <1>4, <1>5, <1>6, <1>7, <1>8, <1>9 DEF Next

-----------------------------------------------------------------------------
(* What follows for every execution.                                         *)

\* The invariant holds in every state (the loop of detection, detect.go:221, and the
\* re-list of daemon.go:304).
THEOREM Inductive == Spec => []IInv
<1>1. Init => IInv
  BY InitInv
<1>2. IInv /\ [Next]_vars => IInv'
  BY StepInv
<1> QED
  BY <1>1, <1>2, PTL DEF Spec

\* No vote exceeds what the confirmation asks for, no notification the delay.
THEOREM TypeCorrect == Spec => []TypeOK
<1>1. IInv => TypeOK
  BY DEF IInv
<1> QED
  BY <1>1, Inductive, PTL

\* An agent in sight is not flagged unseen once the re-list that is due has run.
THEOREM DoneIsUnseenHolds == Spec => []DoneIsUnseen
<1>1. IInv => DoneIsUnseen
  BY DEF IInv
<1> QED
  BY <1>1, Inductive, PTL

\* Subscribers are shown what detection has found, once the re-list has run.
THEOREM PublishedStateHolds == Spec => []PublishedState
<1>1. IInv => PublishedState
  BY DEF IInv
<1> QED
  BY <1>1, Inductive, PTL

\* One turn is announced once at most, whatever the order of its ends.
THEOREM OncePerTurnHolds == Spec => []OncePerTurn
<1>1. IInv => OncePerTurn
  BY DEF IInv, Once, OncePerTurn
<1> QED
  BY <1>1, Inductive, PTL

\* A step that is no pass of detection takes no turn for over and notifies nobody.
LEMMA OnlyPasses ==
  ASSUME IInv, [Next]_vars, NEW p \in Pane
  PROVE  \/ Tick
         \/ /\ told'[p] => told[p]
            /\ ~(State(agents[p]) \in Turning /\ State(agents'[p]) \in {"idle", "done"})
<1>1. CASE Relist
  <2>1. /\ agents' = [q \in Pane |-> IF agents[q] = None THEN None ELSE Seen(agents[q])]
        /\ told' = [q \in Pane |-> told[q] /\ State(agents'[q]) = State(agents[q])]
    BY <1>1 DEF Relist
  <2>2. State(agents[p]) \in Turning => agents'[p] = agents[p]
    BY <2>1 DEF Seen, Turning, State
  <2> QED
    BY <2>1, <2>2 DEF Turning
<1>2. CASE \E q \in Pane : GraceEnds(q)
  <2>1. PICK q \in Pane : GraceEnds(q)
    BY <1>2
  <2>2. agents' = [agents EXCEPT ![q].grace = FALSE] /\ told' = told
    BY <2>1 DEF GraceEnds, history
  <2>3. State(agents[p]) \in Turning => agents[p] \in Agent /\ State(agents[p]) = agents[p].state
    BY AgentType DEF IInv, State, Turning
  <2>4. State(agents[p]) \in Turning => State(agents'[p]) \in {"", agents[p].state}
    BY <2>2, <2>3 DEF State, Agent, IInv, TypeOK
  <2> QED
    BY <2>2, <2>3, <2>4 DEF Turning
<1>3. CASE UNCHANGED <<agents, told>>
  BY <1>3 DEF Turning
<1>4. \/ Reattach \/ (\E q \in Pane, k \in Kind \cup {None} : Runs(q, k))
      \/ (\E w \in Window \cup {None} : ClientMoves(w))
      \/ (\E q \in Pane, w \in Window : PaneMoves(q, w)) \/ UNCHANGED vars
      => UNCHANGED <<agents, told>>
  BY DEF Reattach, Runs, ClientMoves, PaneMoves, vars, daemon, history
<1> QED
  BY <1>1, <1>2, <1>3, <1>4 DEF Next

\* A turn is over on positive evidence or after enough consecutive samples that
\* hold still, never because of a pause or of verdicts that alternate.
THEOREM CompletesOnEvidenceHolds == Spec => CompletesOnEvidence
<1>1. ASSUME IInv, [Next]_vars
      PROVE  \A p \in Pane : State(agents[p]) \in Turning /\ State(agents'[p]) \in {"idle", "done"}
                             => proof'[p]
  <2> SUFFICES ASSUME NEW p \in Pane,
                      State(agents[p]) \in Turning, State(agents'[p]) \in {"idle", "done"}
               PROVE  proof'[p]
    OBVIOUS
  <2>1. Tick
    BY <1>1, OnlyPasses
  <2>2. PICK s \in [Pane -> Sample] : Learns(s)
    BY <2>1 DEF Tick, Learns
  <2>3. TypeOK /\ Evidence(p)
    BY <1>1 DEF IInv
  <2> QED
    BY <2>2, <2>3, EndHasEvidence
<1>2. IInv /\ [Next]_vars =>
        [\A p \in Pane : State(agents[p]) \in Turning /\ State(agents'[p]) \in {"idle", "done"}
                         => proof'[p]]_vars
  BY <1>1
<1> QED
  BY <1>2, Inductive, PTL DEF Spec, CompletesOnEvidence

\* A notification fires about a state that has lasted as long as the delay asks.
THEOREM ToldWhatLastsHolds == Spec => ToldWhatLasts
<1>1. ASSUME IInv, [Next]_vars
      PROVE  \A p \in Pane : told'[p] /\ ~told[p] => held'[p] = Delay
  <2> SUFFICES ASSUME NEW p \in Pane, told'[p], ~told[p] PROVE held'[p] = Delay
    OBVIOUS
  <2>1. Tick
    BY <1>1, OnlyPasses
  <2>2. PICK s \in [Pane -> Sample] : Learns(s)
    BY <2>1 DEF Tick, Learns
  <2>3. TypeOK /\ Young(p)
    BY <1>1 DEF IInv
  <2> QED
    BY <2>2, <2>3, FiresLate
<1>2. IInv /\ [Next]_vars => [\A p \in Pane : told'[p] /\ ~told[p] => held'[p] = Delay]_vars
  BY <1>1
<1> QED
  BY <1>2, Inductive, PTL DEF Spec, ToldWhatLasts
=============================================================================
