------------------------------- MODULE Detect -------------------------------
(***************************************************************************)
(* Detection of the coding agents (detect.go, with the policy of the       *)
(* notifications of notify.go and the re-list of daemon.go).               *)
(*                                                                         *)
(* A tick reads which program every pane runs and what its screen says.    *)
(* The verdict of one screen is not to be trusted: a transition that rests *)
(* on the absence of evidence must be confirmed over several samples.  A   *)
(* turn that ends unwatched is "done" until its window is visited, and a   *)
(* state that lasts is notified once.  A re-list, which follows the        *)
(* notifications of tmux, is what learns where the client is.              *)
(*                                                                         *)
(* Time is counted in ticks.  The verdicts of the manifests are inputs.    *)
(***************************************************************************)
EXTENDS Naturals, FiniteSets

CONSTANTS
  Pane, Window,
  Kind,       \* the agents there are manifests for
  None,
  Confirms,   \* idleConfirms: the samples a held transition needs
  Delay,      \* the notification delay, in ticks
  MaxMoves    \* bound on the panes that move to another window

States == {"", "working", "background", "blocked", "idle", "done"}

\* agentInfo
Agent == [kind : Kind, state : States, grace : BOOLEAN,
          pending : 0..(Confirms - 1), want : States, win : Window]

\* pendingNote
Note == [state : {"blocked", "done"}, age : 0..Delay]

ASSUME DetectAssumption ==
  /\ None \notin Kind /\ None \notin {"blocked", "done"} /\ None \notin Agent
  /\ Confirms \in Nat \ {0, 1} /\ Delay \in Nat /\ MaxMoves \in Nat

VARIABLES
  prog,     \* the agent each pane runs, or None
  at,       \* the window of each pane
  cur,      \* the window the client looks at, or None
  moves,    \* number of panes that have moved
  kick,     \* tmux has announced a change since the last re-list
  vis,      \* the window the client was on at the last re-list
  agents,   \* d.det.agents: what is known of each pane, or None
  note,     \* d.det.pending: the state that armed it and its age, or None
  pub,      \* the agent and the state of each pane in the published world
  still,    \* history: consecutive samples of an idle screen that held still
  proof,    \* history: the last sample completes the evidence that a turn is over
  held,     \* history: ticks since the agent entered its state
  told,     \* history: notified since it entered its state
  turns,    \* history: completions notified since it last worked or blocked
  stray     \* history: panes a re-list found elsewhere than detection believed

tmux    == <<prog, at, cur, moves>>
daemon  == <<vis, agents, note, pub>>
history == <<still, proof, held, told, turns, stray>>
vars    == <<tmux, kick, daemon, history>>

-----------------------------------------------------------------------------
(* What one tick learns of a pane.  "prompt" is positive evidence of idle;    *)
(* "nothing" is a screen that is not read (unchanged, an overlay, no answer). *)
(* late: the run of votes is older than idleCap.                              *)

Nothing == [says |-> "nothing", moved |-> FALSE, late |-> FALSE]

Turning == {"working", "background"}

Sample ==
  {s \in [says : {"nothing", "prompt", "blocked", "idle"} \cup Turning,
          moved : BOOLEAN, late : BOOLEAN] :
     (s.moved => s.says = "idle" /\ ~s.late) /\ (s.late => s.says \in Turning \cup {"idle"})}

\* holdRule
Hold(from, want) ==
  \/ want = "idle" /\ from \in Turning
  \/ from \in Turning /\ want \in Turning /\ from # want
NeedStill(want) == want = "idle"

Want(s) == IF s.says = "prompt" THEN "idle" ELSE s.says

\* The samples that vote for the transition, this one included.
Votes(a, s) ==
  LET before == IF a.want = Want(s) THEN a.pending ELSE 0
  IN  IF s.moved /\ NeedStill(Want(s)) THEN 0 ELSE before + 1

\* Mutant: the age of a run outlives the motion that ended it.
WaitsByTheClock(a, s) ==
  /\ Hold(a.state, Want(s)) /\ s.says # "prompt"
  /\ Votes(a, s) < Confirms
  /\ ~s.late

Waits(a, s) ==
  /\ Hold(a.state, Want(s)) /\ s.says # "prompt"
  /\ Votes(a, s) < Confirms
  /\ ~(s.late /\ Votes(a, s) > 1)

Lands(a, s, watched) ==
  IF Want(s) = "idle" /\ a.state \in {"working", "blocked"} /\ ~watched THEN "done"
  ELSE Want(s)

\* applyAgentState: done is idle, flagged unseen, and keeps its flag.
Apply(a, s, watched) ==
  CASE s.says = "nothing" -> a
    [] s.says # "nothing" /\ Want(s) = "idle" /\ a.state = "done" -> a
    [] OTHER ->
         IF Waits(a, s) THEN [a EXCEPT !.pending = Votes(a, s), !.want = Want(s)]
         ELSE [a EXCEPT !.pending = 0, !.want = "", !.state = Lands(a, s, watched)]

State(a) == IF a = None THEN "" ELSE a.state
KindOf(a) == IF a = None THEN None ELSE a.kind

New(k, w) == [kind |-> k, state |-> "", grace |-> TRUE, pending |-> 0, want |-> "", win |-> w]

\* One pane of a detection pass: an agent that is new, or another than before, is
\* given a grace period.
Classify(p, s) ==
  LET a == agents[p]
  IN  IF prog[p] = None THEN None
      ELSE IF KindOf(a) # prog[p] THEN New(prog[p], at[p])
      ELSE Apply([a EXCEPT !.win = at[p]], s, at[p] = vis)

\* Mutant: only the agents that are there are compared.
ChangedLive(old, new) ==
  \E p \in Pane : new[p] # None /\ (State(old[p]) # State(new[p]) \/ KindOf(old[p]) # KindOf(new[p]))

\* An agent that goes without ever having had a state goes unpublished.
Changed(old, new) ==
  \E p \in Pane :
    \/ State(old[p]) # State(new[p])
    \/ new[p] # None /\ KindOf(old[p]) # KindOf(new[p])

Shown(as) == [p \in Pane |-> [kind |-> KindOf(as[p]), state |-> State(as[p])]]

\* The transitions that arm a notification, and the state they arm it for.
Arms(old, new) ==
  LET was == State(old)  is == State(new)
  IN  IF is = was THEN None
      ELSE IF is \in {"blocked", "done"} THEN is
      ELSE IF is = "background" /\ was \in {"working", "blocked"} /\ new.win # vis THEN "done"
      ELSE None

\* notifyRipe: fired once the state has lasted, dropped as soon as it has not.
Armed(p, old, new) ==
  IF Arms(old, new) # None THEN [state |-> Arms(old, new), age |-> 0]
  ELSE IF note[p] = None THEN None
  ELSE [note[p] EXCEPT !.age = IF @ < Delay THEN @ + 1 ELSE @]

\* Mutant: the state the notification is about is not looked at again.
FiresBlindly(n, new) == n # None /\ n.age >= Delay

\* Mutant: what has fired stays armed.
DropsStale(n, new) == n # None /\ n.state # State(new)

Fires(n, new) == n # None /\ n.state = State(new) /\ n.age >= Delay
Drops(n, new) == n # None /\ (n.state # State(new) \/ n.age >= Delay)

-----------------------------------------------------------------------------
Init ==
  /\ prog = [p \in Pane |-> None] /\ at \in [Pane -> Window] /\ cur \in Window
  /\ moves = 0 /\ kick = FALSE /\ vis = cur
  /\ agents = [p \in Pane |-> None] /\ note = [p \in Pane |-> None]
  /\ pub = Shown(agents)
  /\ still = [p \in Pane |-> 0] /\ proof = [p \in Pane |-> FALSE]
  /\ held = [p \in Pane |-> 0] /\ told = [p \in Pane |-> FALSE]
  /\ turns = [p \in Pane |-> 0] /\ stray = {}

Upto(n, limit) == IF n < limit THEN n ELSE limit

\* What a pass adds to the histories.
Records(s, new, n) ==
  LET fired(p)  == Fires(n[p], new[p])
      stayed(p) == State(new[p]) = State(agents[p])
  IN
  /\ still' = [p \in Pane |->
       IF KindOf(new[p]) # KindOf(agents[p]) THEN 0
       ELSE IF s[p] = Nothing THEN still[p]
       ELSE IF s[p].says = "idle" /\ ~s[p].moved THEN Upto(still[p] + 1, Confirms) ELSE 0]
  /\ proof' = [p \in Pane |->
       \/ s[p].says = "prompt"
       \/ s[p].says = "idle" /\ (still'[p] = Confirms \/ (s[p].late /\ still'[p] > 1))]
  /\ held' = [p \in Pane |-> IF stayed(p) THEN Upto(held[p] + 1, Delay) ELSE 0]
  /\ told' = [p \in Pane |-> fired(p) \/ (stayed(p) /\ told[p])]
  /\ turns' = [p \in Pane |->
       IF State(new[p]) \in {"", "working", "blocked"} THEN 0
       ELSE IF fired(p) /\ n[p].state = "done" THEN Upto(turns[p] + 1, 2) ELSE turns[p]]

\* Past its grace period, an agent is judged.
Judged(p) == agents[p] # None /\ (agents[p] # None => prog[p] = agents[p].kind /\ ~agents[p].grace)

\* An agent in a pane that tmux never announced: publishAgents reads the world anew.
Appears(new) == \E p \in Pane : agents[p] = None /\ new[p] # None

\* detectTickRun.  What is published without a change of state is another name
\* for a conversation, or another reason for a state.
Tick ==
  \E s \in [Pane -> Sample] :
    LET new == [p \in Pane |-> Classify(p, s[p])]
        n   == [p \in Pane |-> Armed(p, agents[p], new[p])]
    IN  /\ \A p \in Pane : s[p] # Nothing => Judged(p)
        /\ agents' = new
        /\ \/ /\ pub' = Shown(new) /\ (Changed(agents, new) \/ \E p \in Pane : Judged(p))
              /\ vis' \in {vis, IF Appears(new) THEN cur ELSE vis}
           \/ UNCHANGED <<pub, vis>> /\ ~Changed(agents, new)
        /\ note' = [p \in Pane |-> IF Drops(n[p], new[p]) THEN None ELSE n[p]]
        /\ Records(s, new, n)
        /\ UNCHANGED <<tmux, kick, stray>>

\* Mutant: what is in sight is asked of the world before the re-list.
SeenBefore(a) == IF State(a) = "done" /\ a.win = vis THEN [a EXCEPT !.state = "idle"] ELSE a

\* checkSeen, with the world the re-list has just read.
Seen(a) == IF State(a) = "done" /\ a.win = cur THEN [a EXCEPT !.state = "idle"] ELSE a

Relist ==
  /\ kick /\ kick' = FALSE
  /\ vis' = cur
  /\ agents' = [p \in Pane |-> IF agents[p] = None THEN None ELSE Seen(agents[p])]
  /\ pub' = Shown(agents')
  /\ stray' = {p \in Pane : agents[p] # None /\ (agents[p] # None => agents[p].win # at[p])}
  /\ held' = [p \in Pane |-> IF State(agents'[p]) = State(agents[p]) THEN held[p] ELSE 0]
  /\ told' = [p \in Pane |-> told[p] /\ State(agents'[p]) = State(agents[p])]
  /\ UNCHANGED <<tmux, note, still, proof, turns>>

\* The control connection was lost and runDaemon attaches again: the world it
\* publishes is fetched without the agents, and tmux announces the attachment.
Reattach ==
  /\ vis' = cur /\ kick' = TRUE
  /\ pub' = [p \in Pane |-> [kind |-> None, state |-> ""]]
  /\ UNCHANGED <<tmux, agents, note, history>>

GraceEnds(p) ==
  /\ agents[p] # None /\ (agents[p] # None => agents[p].grace)
  /\ agents' = [agents EXCEPT ![p].grace = FALSE]
  /\ UNCHANGED <<tmux, kick, vis, note, pub, history>>

\* A program starts or ends in a pane: tmux announces neither.
Runs(p, k) ==
  /\ prog[p] # k
  /\ prog' = [prog EXCEPT ![p] = k]
  /\ UNCHANGED <<at, cur, moves, kick, daemon, history>>

ClientMoves(w) ==
  /\ cur # w /\ cur' = w /\ kick' = TRUE
  /\ UNCHANGED <<prog, at, moves, daemon, history>>

PaneMoves(p, w) ==
  /\ at[p] # w /\ moves < MaxMoves
  /\ at' = [at EXCEPT ![p] = w] /\ moves' = moves + 1 /\ kick' = TRUE
  /\ UNCHANGED <<prog, cur, daemon, history>>

Next ==
  \/ Tick \/ Relist \/ Reattach
  \/ \E p \in Pane : GraceEnds(p)
  \/ \E p \in Pane, k \in Kind \cup {None} : Runs(p, k)
  \/ \E w \in Window \cup {None} : ClientMoves(w)
  \/ \E p \in Pane, w \in Window : PaneMoves(p, w)

Spec == Init /\ [][Next]_vars

-----------------------------------------------------------------------------
TypeOK ==
  /\ prog \in [Pane -> Kind \cup {None}] /\ at \in [Pane -> Window]
  /\ {cur, vis} \subseteq Window \cup {None}
  /\ kick \in BOOLEAN /\ moves \in 0..MaxMoves /\ stray \subseteq Pane
  /\ agents \in [Pane -> {None} \cup Agent] /\ note \in [Pane -> {None} \cup Note]
  /\ pub \in [Pane -> [kind : Kind \cup {None}, state : States]]
  /\ still \in [Pane -> 0..Confirms] /\ proof \in [Pane -> BOOLEAN]
  /\ held \in [Pane -> 0..Delay] /\ told \in [Pane -> BOOLEAN] /\ turns \in [Pane -> 0..2]

\* A turn is over on positive evidence, or after enough consecutive samples of an
\* idle screen that holds still: a pause, a stream of text, or two verdicts that
\* alternate never look like an end (detect.go:790-802).  That positive evidence is
\* taken at once is what the code does; the comment above it denies it (HeldOnEvidence).
CompletesOnEvidence ==
  [][\A p \in Pane :
       State(agents[p]) \in Turning /\ State(agents'[p]) \in {"idle", "done"} => proof'[p]]_vars

\* A notification is about the present: the agent has been in that state without
\* interruption for as long as the delay asks.
ToldWhatLasts ==
  [][\A p \in Pane : told'[p] /\ ~told[p] => held'[p] = Delay]_vars

\* One turn, one notification, whatever the end of its side work looks like.
OncePerTurn == \A p \in Pane : turns[p] < 2

\* An agent whose window is in sight is not flagged unseen, once the re-list that
\* is due has run, but for a pane that changed windows between two ticks.
DoneIsUnseen ==
  \A p \in Pane \ stray : State(agents[p]) = "done" /\ at[p] = cur => kick

\* What subscribers are shown of the states is what detection has found, once the
\* re-list that is due has run: what one publishes no other loses.
PublishedState == \A p \in Pane : pub[p].state = State(agents[p]) \/ kick

-----------------------------------------------------------------------------
(* What the comments claim and the code does not keep.                       *)

\* detect.go:259: "A turn that ends with side work still going is a turn that
\* ended": entering background unwatched is announced, at once or later.
AnnouncesBackground ==
  [][\A p \in Pane :
       /\ State(agents[p]) = "working" /\ State(agents'[p]) = "background"
       /\ agents'[p].win # vis
       => note'[p] # None \/ told'[p]]_vars

\* detect.go:781: "working -> idle must survive idleConfirms CONSECUTIVE samples (or
\* idleCap of wall time) first - even with visible idle evidence", and likewise
\* docs/architecture.md:92: the first sample that says so never ends a turn.
HeldOnEvidence ==
  [][\A p \in Pane :
       State(agents[p]) = "working" /\ State(agents'[p]) \in {"idle", "done"}
       => agents[p].want = "idle" /\ agents[p].pending > 0]_vars
=============================================================================
