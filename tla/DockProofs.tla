----------------------------- MODULE DockProofs -----------------------------
(***************************************************************************)
(* Proofs about the dock, for every set of windows, sessions and panes,    *)
(* and every number of disturbances by the user.                           *)
(*                                                                         *)
(* Every operation of the daemon is a function of all that it may change,  *)
(* so the invariant is stated of such a record (Good), and every operation *)
(* has a lemma: from good to good, whatever operations it is composed of.  *)
(* Between the steps of a kill the panes in the windows that are about to  *)
(* die may be unknown, which is why Good is told which windows those are.  *)
(*                                                                         *)
(* The last part is about the client: no handler takes its window away,    *)
(* and a kill only after a move that has brought it to another.            *)
(***************************************************************************)
EXTENDS Dock, SequenceTheorems, WellFoundedInduction, TLAPS

-----------------------------------------------------------------------------
(* Induction on the naturals, over a set in the place of a predicate.        *)

\* A set of naturals that is not empty has a least element.
LEMMA Least == ASSUME NEW T, T \subseteq Nat, T # {} PROVE \E x \in T : \A y \in T : x <= y
<1> DEFINE R == {p \in Nat \X Nat : p[1] < p[2]}
<1>1. IsWellFoundedOn(R, Nat)
  BY NatLessThanWellFounded DEF OpToRel
<1> HIDE DEF R
<1>2. PICK x \in T : \A y \in T : <<y, x>> \notin R
  BY <1>1, WFMin
<1>3. \A y \in T : ~(y < x)
  BY <1>2 DEF R
<1>4. ASSUME NEW y \in T PROVE x <= y
  <2>1. x \in Nat /\ y \in Nat
    OBVIOUS
  <2> QED
    BY <1>3, <2>1
<1> QED
  BY <1>4

\* A set with 0 in it that goes on from each number below n holds all of them.
LEMMA UpTo ==
  ASSUME NEW n \in Nat, NEW P, 0 \in P, \A i \in 0..n : i < n /\ i \in P => i + 1 \in P
  PROVE  \A i \in 0..n : i \in P
<1> DEFINE T == {i \in 0..n : i \notin P}
<1> SUFFICES ASSUME T # {} PROVE FALSE
  OBVIOUS
<1>1. PICK x \in T : \A y \in T : x <= y
  BY Least, T \subseteq Nat
<1>2. x \in 0..n /\ x # 0 /\ x \notin P
  OBVIOUS
<1>3. x - 1 \in 0..n /\ x - 1 < n /\ (x - 1) + 1 = x /\ ~(x <= x - 1)
  BY <1>2
<1>4. x - 1 \in P
  BY <1>1, <1>3
<1> QED
  BY <1>2, <1>3, <1>4

-----------------------------------------------------------------------------
(* Lines of commands.                                                        *)

\* The equation that defines a run has a solution, whatever the line.
LEMMA RunningDef ==
  ASSUME NEW line, NEW t, Len(line) \in Nat
  PROVE  Running(line, t) = [i \in 0..Len(line) |->
           IF i = 0 THEN [t |-> t, ok |-> TRUE] ELSE After(Running(line, t)[i - 1], line[i])]
<1> DEFINE b == [t |-> t, ok |-> TRUE]
           Solves(r, n) == r = [i \in 0..n |-> IF i = 0 THEN b ELSE After(r[i - 1], line[i])]
           P == {n \in 0..Len(line) : \E r : Solves(r, n)}
<1> HIDE DEF b
<1>1. 0 \in P
  <2>1. Solves([i \in 0..0 |-> b], 0)
    OBVIOUS
  <2> HIDE DEF Solves
  <2>2. \E r : Solves(r, 0)
    BY <2>1
  <2> QED
    BY <2>2
<1>2. ASSUME NEW n \in 0..Len(line), n < Len(line), n \in P PROVE n + 1 \in P
  <2>1. PICK r : Solves(r, n)
    BY <1>2
  <2> DEFINE u == [i \in 0..(n + 1) |-> IF i = 0 THEN b ELSE After(r[i - 1], line[i])]
  <2>2. ASSUME NEW i \in 0..(n + 1), i # 0 PROVE u[i - 1] = r[i - 1]
    <3>1. i - 1 \in 0..n /\ i - 1 \in 0..(n + 1)
      BY <2>2
    <3>2. r[i - 1] = IF i - 1 = 0 THEN b ELSE After(r[(i - 1) - 1], line[i - 1])
      BY <2>1, <3>1
    <3> QED
      BY <3>1, <3>2
  <2>3. Solves(u, n + 1)
    BY <2>2
  <2> HIDE DEF Solves, u
  <2>4. \E r2 : Solves(r2, n + 1)
    BY <2>3
  <2> QED
    BY <1>2, <2>4
<1>3. Len(line) \in P
  <2> HIDE DEF P
  <2>1. \A i \in 0..Len(line) : i \in P
    BY <1>1, <1>2, UpTo
  <2> QED
    BY <2>1
<1>4. \E r : Solves(r, Len(line))
  BY <1>3
<1> QED
  BY <1>4 DEF Running, b

\* It starts from what tmux holds, and takes one command after the other.
LEMMA RunningStep ==
  ASSUME NEW line, NEW t, Len(line) \in Nat
  PROVE  /\ Running(line, t)[0] = [t |-> t, ok |-> TRUE]
         /\ \A i \in 1..Len(line) : Running(line, t)[i] = After(Running(line, t)[i - 1], line[i])
<1> DEFINE r == Running(line, t)
           b == [t |-> t, ok |-> TRUE]
<1>1. r = [i \in 0..Len(line) |-> IF i = 0 THEN b ELSE After(r[i - 1], line[i])]
  BY RunningDef
<1> HIDE DEF r, b
<1>2. r[0] = b /\ \A i \in 1..Len(line) : r[i] = After(r[i - 1], line[i])
  BY <1>1
<1> QED
  BY <1>2 DEF r, b

\* What tmux holds after a line, and whether all of it ran.
LEMMA RunShape ==
  ASSUME NEW line, NEW t, Len(line) \in Nat
  PROVE  Run(line, t).ok \in BOOLEAN /\ Run(line, t) = [t |-> Run(line, t).t, ok |-> Run(line, t).ok]
<1> DEFINE r == Running(line, t)
           a == Run(line, t)
<1>1. r[0] = [t |-> t, ok |-> TRUE] /\ \A i \in 1..Len(line) : r[i] = After(r[i - 1], line[i])
  BY RunningStep
<1>2. a = r[Len(line)]
  BY DEF Run
<1> HIDE DEF r, a
<1>3. \E u, v : v \in BOOLEAN /\ a = [t |-> u, ok |-> v]
  <2>1. CASE Len(line) = 0
    BY <1>1, <1>2, <2>1
  <2>2. CASE Len(line) # 0
    <3>1. a = After(r[Len(line) - 1], line[Len(line)])
      BY <1>1, <1>2, <2>2
    <3> QED
      BY <3>1 DEF After
  <2> QED
    BY <2>1, <2>2
<1>4. a.ok \in BOOLEAN /\ a = [t |-> a.t, ok |-> a.ok]
  BY <1>3
<1> QED
  BY <1>4 DEF a

\* An empty line does nothing.
LEMMA RunNone == ASSUME NEW t PROVE Run(<<>>, t) = [t |-> t, ok |-> TRUE]
<1>1. Len(<<>>) = 0
  OBVIOUS
<1>2. Running(<<>>, t)[0] = [t |-> t, ok |-> TRUE]
  BY <1>1, RunningStep
<1> QED
  BY <1>1, <1>2 DEF Run

\* One command runs or is an error.
LEMMA RunOne ==
  ASSUME NEW c, NEW t
  PROVE  Run(<<c>>, t) = IF Possible(c, t) THEN [t |-> Effect(c, t), ok |-> TRUE]
                                           ELSE [t |-> t, ok |-> FALSE]
<1> DEFINE l == <<c>>
<1>1. Len(l) = 1 /\ l[1] = c
  OBVIOUS
<1> HIDE DEF l
<1>2. Running(l, t)[0] = [t |-> t, ok |-> TRUE] /\ Running(l, t)[1] = After(Running(l, t)[1 - 1], l[1])
  <2>1. /\ Running(l, t)[0] = [t |-> t, ok |-> TRUE]
        /\ \A i \in 1..Len(l) : Running(l, t)[i] = After(Running(l, t)[i - 1], l[i])
    BY <1>1, RunningStep
  <2> QED
    BY <1>1, <2>1
<1>3. Run(l, t) = After([t |-> t, ok |-> TRUE], c)
  BY <1>1, <1>2 DEF Run
<1> QED
  BY <1>3 DEF After, l

\* A line that goes on: its second part runs where the first has run whole.
LEMMA RunConcat ==
  ASSUME NEW S, NEW l \in Seq(S), NEW m \in Seq(S), NEW t
  PROVE  Run(l \o m, t) = IF Run(l, t).ok THEN Run(m, Run(l, t).t) ELSE Run(l, t)
<1> DEFINE o == l \o m
           a == Run(l, t)
           r == Running(o, t)
           x == Running(l, t)
           y == Running(m, a.t)
           P == {i \in 0..Len(l) : r[i] = x[i]}
           Q == {j \in 0..Len(m) : r[Len(l) + j] = IF a.ok THEN y[j] ELSE a}
<1>1. /\ Len(l) \in Nat /\ Len(m) \in Nat /\ o \in Seq(S) /\ Len(o) = Len(l) + Len(m)
      /\ \A i \in 1..(Len(l) + Len(m)) : o[i] = IF i <= Len(l) THEN l[i] ELSE m[i - Len(l)]
  BY ConcatProperties, LenProperties
<1>2. x[0] = [t |-> t, ok |-> TRUE] /\ \A i \in 1..Len(l) : x[i] = After(x[i - 1], l[i])
  BY <1>1, RunningStep
<1>3. y[0] = [t |-> a.t, ok |-> TRUE] /\ \A i \in 1..Len(m) : y[i] = After(y[i - 1], m[i])
  BY <1>1, RunningStep
<1>4. a.ok \in BOOLEAN /\ a = [t |-> a.t, ok |-> a.ok] /\ a = x[Len(l)]
  BY <1>1, RunShape DEF Run
<1> HIDE DEF o
<1>5. r[0] = [t |-> t, ok |-> TRUE] /\ \A i \in 1..Len(o) : r[i] = After(r[i - 1], o[i])
  <2>1. Len(o) \in Nat
    BY <1>1
  <2> QED
    BY <2>1, RunningStep
<1> HIDE DEF a, r, x, y
<1>6. ASSUME NEW i \in 0..Len(l), i < Len(l), i \in P PROVE i + 1 \in P
  <2>1. i + 1 \in 1..Len(l) /\ i + 1 \in 1..Len(o) /\ (i + 1) - 1 = i /\ i + 1 \in 0..Len(l)
    BY <1>1, <1>6
  <2>2. o[i + 1] = l[i + 1]
    BY <1>1, <2>1
  <2>3. r[i + 1] = After(r[i], o[i + 1]) /\ x[i + 1] = After(x[i], l[i + 1])
    BY <1>2, <1>5, <2>1
  <2> QED
    BY <1>6, <2>1, <2>2, <2>3
<1>7. r[Len(l)] = x[Len(l)]
  <2>1. 0 \in P
    BY <1>1, <1>2, <1>5
  <2> HIDE DEF P
  <2>2. \A i \in 0..Len(l) : i \in P
    BY <1>1, <1>6, <2>1, UpTo
  <2>3. Len(l) \in P
    BY <1>1, <2>2
  <2> QED
    BY <2>3 DEF P
<1>8. ASSUME NEW j \in 0..Len(m), j < Len(m), j \in Q PROVE j + 1 \in Q
  <2>1. /\ j + 1 \in 1..Len(m) /\ Len(l) + (j + 1) \in 1..Len(o) /\ Len(l) + (j + 1) \in 1..(Len(l) + Len(m))
        /\ (Len(l) + (j + 1)) - 1 = Len(l) + j /\ (Len(l) + (j + 1)) - Len(l) = j + 1
        /\ ~(Len(l) + (j + 1) <= Len(l)) /\ (j + 1) - 1 = j /\ j + 1 \in 0..Len(m)
    BY <1>1, <1>8
  <2>2. o[Len(l) + (j + 1)] = m[j + 1]
    BY <1>1, <2>1
  <2>3. r[Len(l) + (j + 1)] = After(r[Len(l) + j], m[j + 1])
    BY <1>5, <2>1, <2>2
  <2>4. y[j + 1] = After(y[j], m[j + 1])
    BY <1>3, <2>1
  <2>5. r[Len(l) + j] = IF a.ok THEN y[j] ELSE a
    BY <1>8
  <2>6. ~a.ok => After(a, m[j + 1]) = a
    BY <1>4 DEF After
  <2> QED
    BY <1>4, <2>1, <2>3, <2>4, <2>5, <2>6
<1>9. r[Len(l) + Len(m)] = IF a.ok THEN y[Len(m)] ELSE a
  <2>1. 0 \in Q
    <3>1. Len(l) + 0 = Len(l) /\ 0 \in 0..Len(m)
      BY <1>1
    <3>2. a.ok => y[0] = a
      BY <1>3, <1>4
    <3>3. r[Len(l) + 0] = a
      BY <1>4, <1>7, <3>1
    <3> QED
      BY <3>1, <3>2, <3>3
  <2> HIDE DEF Q
  <2>2. \A j \in 0..Len(m) : j \in Q
    BY <1>1, <1>8, <2>1, UpTo
  <2>3. Len(m) \in Q
    BY <1>1, <2>2
  <2> QED
    BY <2>3 DEF Q
<1>10. Run(o, t) = r[Len(l) + Len(m)] /\ Run(m, a.t) = y[Len(m)]
  BY <1>1 DEF Run, r, y
<1> QED
  BY <1>9, <1>10 DEF a, o

-----------------------------------------------------------------------------
(* Commands.                                                                 *)

Cmd == [do : {"kill"}, pane : Pane] \cup [do : {"split"}, win : Window, pane : Pane]
       \cup [do : {"swap"}, pane : Pane, with : Pane]
       \cup [do : {"layout", "select", "switch"}, win : Window]
       \cup [do : {"mark", "replay"}, wins : SUBSET Window] \cup [do : {"focus"}, ok : BOOLEAN]

\* The lines that the daemon sends are made of commands.
LEMMA Lines ==
  /\ <<>> \in Seq(Cmd) /\ \A b \in BOOLEAN : Focus(b) \in Seq(Cmd)
  /\ \A p \in Pane : Kill(p) \in Seq(Cmd)
  /\ \A p \in Pane, w \in Window : Split(w, p) \in Seq(Cmd)
  /\ \A p, q \in Pane : Swap(p, q) \in Seq(Cmd)
  /\ \A w \in Window : Layout(w) \in Seq(Cmd) /\ Select(w) \in Seq(Cmd) /\ Switch(w) \in Seq(Cmd)
  /\ \A W \in SUBSET Window : Mark(W) \in Seq(Cmd) /\ Replay(W) \in Seq(Cmd)
<1>1. /\ \A p \in Pane : [do |-> "kill", pane |-> p] \in Cmd
      /\ \A p \in Pane, w \in Window : [do |-> "split", win |-> w, pane |-> p] \in Cmd
      /\ \A p, q \in Pane : [do |-> "swap", pane |-> p, with |-> q] \in Cmd
  BY DEF Cmd
<1>2. \A w \in Window : /\ [do |-> "layout", win |-> w] \in Cmd
                        /\ [do |-> "select", win |-> w] \in Cmd
                        /\ [do |-> "switch", win |-> w] \in Cmd
  BY DEF Cmd
<1>3. /\ \A W \in SUBSET Window : /\ [do |-> "mark", wins |-> W] \in Cmd
                                  /\ [do |-> "replay", wins |-> W] \in Cmd
      /\ \A b \in BOOLEAN : [do |-> "focus", ok |-> b] \in Cmd
  BY DEF Cmd
<1> HIDE DEF Cmd
<1>4. <<>> \in Seq(Cmd) /\ \A c \in Cmd : <<c>> \in Seq(Cmd)
  OBVIOUS
<1>5. ASSUME NEW p \in Pane
      PROVE  /\ Kill(p) \in Seq(Cmd) /\ \A w \in Window : Split(w, p) \in Seq(Cmd)
             /\ \A q \in Pane : Swap(p, q) \in Seq(Cmd)
  BY <1>1, <1>4 DEF Kill, Split, Swap
<1>6. ASSUME NEW w \in Window
      PROVE  Layout(w) \in Seq(Cmd) /\ Select(w) \in Seq(Cmd) /\ Switch(w) \in Seq(Cmd)
  BY <1>2, <1>4 DEF Layout, Select, Switch
<1>7. ASSUME NEW W \in SUBSET Window PROVE Mark(W) \in Seq(Cmd) /\ Replay(W) \in Seq(Cmd)
  BY <1>3, <1>4 DEF Mark, Replay
<1>8. ASSUME NEW b \in BOOLEAN PROVE Focus(b) \in Seq(Cmd)
  BY <1>3, <1>4 DEF Focus
<1> QED
  BY <1>4, <1>5, <1>6, <1>7, <1>8

\* u has the panes, the windows and the shapes of t; the client may be elsewhere.
Alike(t, u) == u \in Tmux /\ u.at = t.at /\ u.real = t.real /\ u.shape = t.shape

\* A client that loses its window is all that changes.
LEMMA SettleAlike == ASSUME NEW t \in Tmux PROVE Alike(t, Settle(t))
<1> DEFINE rest == {w \in Window : Live(t, w) /\ SessOf[w] = SessOf[t.cur]}
<1>1. (CHOOSE w \in rest : TRUE) \in Window \/ rest = {}
  OBVIOUS
<1>2. Settle(t) = t \/ \E x \in Window \cup {None} : Settle(t) = [t EXCEPT !.cur = x]
  BY <1>1 DEF Settle
<1> QED
  BY <1>2 DEF Tmux, Alike

\* kill-pane: the window is torn, if there is a pane to kill.
LEMMA RunKill ==
  ASSUME NEW t \in Tmux, NEW p \in Pane
  PROVE  LET r == Run(Kill(p), t) IN
         /\ t.at[p] = None => r.t = t /\ ~r.ok
         /\ t.at[p] # None =>
              /\ r.ok /\ r.t \in Tmux /\ r.t.at = [t.at EXCEPT ![p] = None] /\ r.t.real = t.real
              /\ r.t.shape = [t.shape EXCEPT ![t.at[p]] = "torn"]
<1> DEFINE c == [do |-> "kill", pane |-> p]
           u == [t EXCEPT !.at[p] = None, !.shape[t.at[p]] = "torn"]
<1>1. c.do = "kill" /\ c.pane = p
  OBVIOUS
<1> HIDE DEF c
<1>2. Possible(c, t) = (t.at[p] # None)
  BY <1>1 DEF Possible
<1>3. Effect(c, t) = Settle(u)
  BY <1>1 DEF Effect
<1>4. Run(Kill(p), t) = IF Possible(c, t) THEN [t |-> Effect(c, t), ok |-> TRUE]
                                          ELSE [t |-> t, ok |-> FALSE]
  BY RunOne DEF Kill, c
<1>5. ASSUME t.at[p] # None
      PROVE  /\ u \in Tmux /\ u.at = [t.at EXCEPT ![p] = None] /\ u.real = t.real
             /\ u.shape = [t.shape EXCEPT ![t.at[p]] = "torn"]
  BY <1>5 DEF Tmux
<1> HIDE DEF u
<1>6. CASE t.at[p] = None
  <2>1. Run(Kill(p), t) = [t |-> t, ok |-> FALSE]
    BY <1>2, <1>4, <1>6
  <2> QED
    BY <1>6, <2>1
<1>7. CASE t.at[p] # None
  <2>1. Run(Kill(p), t) = [t |-> Settle(u), ok |-> TRUE]
    BY <1>2, <1>3, <1>4, <1>7
  <2>2. Alike(u, Settle(u))
    BY <1>5, <1>7, SettleAlike
  <2> QED
    BY <1>5, <1>7, <2>1, <2>2 DEF Alike
<1> QED
  BY <1>6, <1>7

\* r is what comes of a split at t.
Splits(r, t, w, p) ==
  /\ r.t \in Tmux /\ r.t.real = t.real
  /\ ~r.ok => r.t = t
  /\ r.ok => /\ r.t.at = [t.at EXCEPT ![p] = w] /\ r.t.shape = [t.shape EXCEPT ![w] = "docked"]
             /\ r.t.cur = t.cur

\* r is what comes of a swap at t.
Swaps(r, t, p, q) ==
  /\ r.t \in Tmux /\ r.t.real = t.real /\ r.t.shape = t.shape
  /\ ~r.ok => r.t = t
  /\ r.ok => /\ t.at[p] # None /\ t.at[q] # None
             /\ r.t.at = [t.at EXCEPT ![p] = t.at[q], ![q] = t.at[p]] /\ r.t.cur = t.cur

\* split-window: a pane that is new is in the window, which has a column.
LEMMA RunSplit ==
  ASSUME NEW t \in Tmux, NEW p \in Pane, NEW w \in Window
  PROVE  Splits(Run(Split(w, p), t), t, w, p)
<1> DEFINE c == [do |-> "split", win |-> w, pane |-> p]
           u == [t EXCEPT !.at[p] = w, !.shape[w] = "docked"]
<1>1. c.do = "split" /\ c.pane = p /\ c.win = w
  OBVIOUS
<1> HIDE DEF c
<1>2. Effect(c, t) = u
  BY <1>1 DEF Effect
<1>3. Run(Split(w, p), t) = IF Possible(c, t) THEN [t |-> Effect(c, t), ok |-> TRUE]
                                              ELSE [t |-> t, ok |-> FALSE]
  BY RunOne DEF Split, c
<1>4. /\ u \in Tmux /\ u.at = [t.at EXCEPT ![p] = w] /\ u.real = t.real
      /\ u.shape = [t.shape EXCEPT ![w] = "docked"] /\ u.cur = t.cur
  BY DEF Tmux
<1> HIDE DEF u
<1> QED
  BY <1>2, <1>3, <1>4 DEF Splits

\* swap-pane: two panes that are there change places.
LEMMA RunSwap ==
  ASSUME NEW t \in Tmux, NEW p \in Pane, NEW q \in Pane
  PROVE  Swaps(Run(Swap(p, q), t), t, p, q)
<1> DEFINE c == [do |-> "swap", pane |-> p, with |-> q]
           u == [t EXCEPT !.at[p] = t.at[q], !.at[q] = t.at[p]]
<1>1. c.do = "swap" /\ c.pane = p /\ c.with = q
  OBVIOUS
<1> HIDE DEF c
<1>2. Effect(c, t) = u
  BY <1>1 DEF Effect
<1>3. Possible(c, t) => t.at[p] # None /\ t.at[q] # None
  BY <1>1 DEF Possible
<1>4. Run(Swap(p, q), t) = IF Possible(c, t) THEN [t |-> Effect(c, t), ok |-> TRUE]
                                             ELSE [t |-> t, ok |-> FALSE]
  BY RunOne DEF Swap, c
<1>5. /\ u \in Tmux /\ u.at = [t.at EXCEPT ![p] = t.at[q], ![q] = t.at[p]]
      /\ u.real = t.real /\ u.shape = t.shape /\ u.cur = t.cur
  BY DEF Tmux
<1> HIDE DEF u
<1> QED
  BY <1>2, <1>3, <1>4, <1>5 DEF Swaps

\* select-layout: the panes of the user have the shape that was recorded, once no
\* pane of winch is among them.
LEMMA RunLayout ==
  ASSUME NEW t \in Tmux, NEW w \in Window
  PROVE  LET r == Run(Layout(w), t) IN
         /\ r.t \in Tmux /\ r.t.real = t.real
         /\ ~r.ok => r.t = t /\ ~(w \in t.real /\ In(t, w) = {})
         /\ r.ok => /\ r.t \in Tmux /\ r.t.at = t.at /\ r.t.real = t.real
                    /\ r.t.shape = [t.shape EXCEPT ![w] = "own"]
<1> DEFINE c == [do |-> "layout", win |-> w]
           u == [t EXCEPT !.shape[w] = "own"]
<1>1. c.do = "layout" /\ c.win = w
  OBVIOUS
<1> HIDE DEF c
<1>2. Effect(c, t) = u
  BY <1>1 DEF Effect
<1>3. Possible(c, t) = (w \in t.real /\ In(t, w) = {})
  BY <1>1 DEF Possible
<1>4. Run(Layout(w), t) = IF Possible(c, t) THEN [t |-> Effect(c, t), ok |-> TRUE]
                                            ELSE [t |-> t, ok |-> FALSE]
  BY RunOne DEF Layout, c
<1>5. u \in Tmux /\ u.at = t.at /\ u.real = t.real /\ u.shape = [t.shape EXCEPT ![w] = "own"]
  BY DEF Tmux
<1> HIDE DEF u
<1>6. CASE w \in t.real /\ In(t, w) = {}
  <2>1. Run(Layout(w), t) = [t |-> u, ok |-> TRUE]
    BY <1>2, <1>3, <1>4, <1>6
  <2> QED
    BY <1>5, <1>6, <2>1
<1>7. CASE ~(w \in t.real /\ In(t, w) = {})
  <2>1. Run(Layout(w), t) = [t |-> t, ok |-> FALSE]
    BY <1>3, <1>4, <1>7
  <2> QED
    BY <1>7, <2>1
<1> QED
  BY <1>6, <1>7

\* Options change no pane; a restore is an error for a named window that is gone.
LEMMA RunOptions ==
  ASSUME NEW t, NEW W \in SUBSET Window, NEW b \in BOOLEAN
  PROVE  /\ Run(Mark(W), t).t = t /\ Run(Focus(b), t).t = t
         /\ Run(Replay(W), t).t = t /\ (Run(Replay(W), t).ok <=> ~Strands(t, W))
<1> DEFINE c == [do |-> "mark", wins |-> W]
           d == [do |-> "replay", wins |-> W]
           e == [do |-> "focus", ok |-> b]
<1>1. c.do = "mark" /\ d.do = "replay" /\ e.do = "focus" /\ d.wins = W
  OBVIOUS
<1> HIDE DEF c, d, e
<1>2. Effect(c, t) = t /\ Effect(d, t) = t /\ Effect(e, t) = t
  BY <1>1 DEF Effect
<1>3. Possible(d, t) <=> ~Strands(t, W)
  BY <1>1 DEF Possible, Strands
<1>4. /\ Run(Mark(W), t) = IF Possible(c, t) THEN [t |-> Effect(c, t), ok |-> TRUE]
                                             ELSE [t |-> t, ok |-> FALSE]
      /\ Run(Replay(W), t) = IF Possible(d, t) THEN [t |-> Effect(d, t), ok |-> TRUE]
                                               ELSE [t |-> t, ok |-> FALSE]
      /\ Run(Focus(b), t) = IF Possible(e, t) THEN [t |-> Effect(e, t), ok |-> TRUE]
                                              ELSE [t |-> t, ok |-> FALSE]
  BY RunOne DEF Mark, Replay, Focus, c, d, e
<1>5. Run(Mark(W), t).t = t /\ Run(Focus(b), t).t = t /\ Run(Replay(W), t).t = t
  BY <1>2, <1>4
<1>6. Run(Replay(W), t).ok <=> ~Strands(t, W)
  <2>1. CASE Possible(d, t)
    BY <1>3, <1>4, <2>1
  <2>2. CASE ~Possible(d, t)
    BY <1>3, <1>4, <2>2
  <2> QED
    BY <2>1, <2>2
<1> QED
  BY <1>5, <1>6

\* select-window and switch-client move the client at most.
LEMMA RunMoves ==
  ASSUME NEW t \in Tmux, NEW w \in Window
  PROVE  Alike(t, Run(Select(w), t).t) /\ Alike(t, Run(Switch(w), t).t)
<1> DEFINE c == [do |-> "select", win |-> w]
           d == [do |-> "switch", win |-> w]
           u == [t EXCEPT !.cur = w]
<1>1. c.do = "select" /\ d.do = "switch" /\ c.win = w /\ d.win = w
  OBVIOUS
<1> HIDE DEF c, d
<1>2. Effect(c, t) \in {t, u} /\ Effect(d, t) = u
  BY <1>1 DEF Effect
<1>3. Alike(t, t) /\ Alike(t, u)
  BY DEF Alike, Tmux
<1>4. /\ Run(Select(w), t) = IF Possible(c, t) THEN [t |-> Effect(c, t), ok |-> TRUE]
                                               ELSE [t |-> t, ok |-> FALSE]
      /\ Run(Switch(w), t) = IF Possible(d, t) THEN [t |-> Effect(d, t), ok |-> TRUE]
                                               ELSE [t |-> t, ok |-> FALSE]
  BY RunOne DEF Select, Switch, c, d
<1> HIDE DEF u
<1> QED
  BY <1>2, <1>3, <1>4

\* A command keeps the type of what tmux holds, and closes no window of the user.
LEMMA OneType ==
  ASSUME NEW t \in Tmux, NEW c \in Cmd
  PROVE  Run(<<c>>, t).t \in Tmux /\ Run(<<c>>, t).t.real = t.real
<1>1. CASE c \in [do : {"kill"}, pane : Pane]
  <2>1. PICK p \in Pane : c = [do |-> "kill", pane |-> p]
    BY <1>1
  <2>2. <<c>> = Kill(p)
    BY <2>1 DEF Kill
  <2>3. Run(Kill(p), t).t \in Tmux /\ Run(Kill(p), t).t.real = t.real
    BY RunKill
  <2>4. Run(<<c>>, t) = Run(Kill(p), t)
    BY <2>2
  <2> QED
    BY <2>3, <2>4
<1>2. CASE c \in [do : {"split"}, win : Window, pane : Pane]
  <2>1. PICK w \in Window, p \in Pane : c = [do |-> "split", win |-> w, pane |-> p]
    BY <1>2
  <2>2. <<c>> = Split(w, p)
    BY <2>1 DEF Split
  <2>3. Splits(Run(Split(w, p), t), t, w, p)
    BY RunSplit
  <2>4. Run(<<c>>, t) = Run(Split(w, p), t)
    BY <2>2
  <2> QED
    BY <2>3, <2>4 DEF Splits
<1>3. CASE c \in [do : {"swap"}, pane : Pane, with : Pane]
  <2>1. PICK p, q \in Pane : c = [do |-> "swap", pane |-> p, with |-> q]
    BY <1>3
  <2>2. <<c>> = Swap(p, q)
    BY <2>1 DEF Swap
  <2>3. Swaps(Run(Swap(p, q), t), t, p, q)
    BY RunSwap
  <2>4. Run(<<c>>, t) = Run(Swap(p, q), t)
    BY <2>2
  <2> QED
    BY <2>3, <2>4 DEF Swaps
<1>4. CASE c \in [do : {"layout", "select", "switch"}, win : Window]
  <2>1. PICK w \in Window : \/ c = [do |-> "layout", win |-> w] \/ c = [do |-> "select", win |-> w]
                            \/ c = [do |-> "switch", win |-> w]
    BY <1>4
  <2>2. <<c>> \in {Layout(w), Select(w), Switch(w)}
    BY <2>1 DEF Layout, Select, Switch
  <2>3. Run(Layout(w), t).t \in Tmux /\ Run(Layout(w), t).t.real = t.real
    BY RunLayout
  <2>4. Alike(t, Run(Select(w), t).t) /\ Alike(t, Run(Switch(w), t).t)
    BY RunMoves
  <2>5. Run(<<c>>, t) \in {Run(Layout(w), t), Run(Select(w), t), Run(Switch(w), t)}
    BY <2>2
  <2> QED
    BY <2>3, <2>4, <2>5 DEF Alike
<1>5. CASE c \in [do : {"mark", "replay"}, wins : SUBSET Window]
  <2>1. PICK W \in SUBSET Window : c = [do |-> "mark", wins |-> W] \/ c = [do |-> "replay", wins |-> W]
    BY <1>5
  <2>2. <<c>> = Mark(W) \/ <<c>> = Replay(W)
    BY <2>1 DEF Mark, Replay
  <2>3. Run(Mark(W), t).t = t /\ Run(Replay(W), t).t = t
    BY RunOptions, TRUE \in BOOLEAN
  <2>4. Run(<<c>>, t) = Run(Mark(W), t) \/ Run(<<c>>, t) = Run(Replay(W), t)
    BY <2>2
  <2> QED
    BY <2>3, <2>4
<1>6. CASE c \in [do : {"focus"}, ok : BOOLEAN]
  <2>1. PICK b \in BOOLEAN : c = [do |-> "focus", ok |-> b]
    BY <1>6
  <2>2. <<c>> = Focus(b)
    BY <2>1 DEF Focus
  <2> QED
    BY <2>2, RunOptions
<1> QED
  BY <1>1, <1>2, <1>3, <1>4, <1>5, <1>6 DEF Cmd

\* So does a line.
LEMMA RunType ==
  ASSUME NEW t \in Tmux, NEW l \in Seq(Cmd)
  PROVE  Run(l, t).t \in Tmux /\ Run(l, t).t.real = t.real
<1> DEFINE r == Running(l, t)
           P == {i \in 0..Len(l) : r[i].t \in Tmux /\ r[i].t.real = t.real}
<1>1. Len(l) \in Nat /\ \A i \in 1..Len(l) : l[i] \in Cmd
  BY LenProperties
<1>2. r[0] = [t |-> t, ok |-> TRUE] /\ \A i \in 1..Len(l) : r[i] = After(r[i - 1], l[i])
  BY <1>1, RunningStep
<1> HIDE DEF r
<1>3. ASSUME NEW i \in 0..Len(l), i < Len(l), i \in P PROVE i + 1 \in P
  <2>1. i + 1 \in 1..Len(l) /\ (i + 1) - 1 = i /\ i + 1 \in 0..Len(l)
    BY <1>1, <1>3
  <2> DEFINE c == l[i + 1]
             u == r[i].t
  <2>2. c \in Cmd /\ u \in Tmux /\ u.real = t.real /\ r[i + 1] = After(r[i], c)
    BY <1>1, <1>2, <1>3, <2>1
  <2>3. r[i + 1].t \in {u, Effect(c, u)}
    BY <2>2 DEF After
  <2>4. r[i + 1].t = u \/ (Possible(c, u) /\ r[i + 1].t = Effect(c, u))
    BY <2>2 DEF After
  <2> HIDE DEF c, u
  <2>5. Run(<<c>>, u).t \in Tmux /\ Run(<<c>>, u).t.real = u.real
    BY <2>2, OneType
  <2>6. Possible(c, u) => Run(<<c>>, u).t = Effect(c, u)
    <3>1. Run(<<c>>, u) = IF Possible(c, u) THEN [t |-> Effect(c, u), ok |-> TRUE]
                                            ELSE [t |-> u, ok |-> FALSE]
      BY RunOne
    <3> QED
      BY <3>1
  <2>7. r[i + 1].t \in Tmux /\ r[i + 1].t.real = t.real
    BY <2>2, <2>4, <2>5, <2>6
  <2> QED
    BY <2>1, <2>7
<1>4. Len(l) \in P
  <2>1. 0 \in P
    BY <1>1, <1>2
  <2> HIDE DEF P
  <2>2. \A i \in 0..Len(l) : i \in P
    BY <1>1, <1>3, <2>1, UpTo
  <2> QED
    BY <1>1, <2>2
<1> QED
  BY <1>4 DEF Run, r

-----------------------------------------------------------------------------
(* Lines that the operations have in common.                                 *)

\* What tmux owes the user of one window.
WholeAt(t, w) == w \in t.real /\ In(t, w) = {} => t.shape[w] = "own"

\* The panes, the windows and what is owed stay.
Tidy(t, u) == u.real = t.real /\ \A w \in Window : WholeAt(t, w) => WholeAt(u, w)

\* A client that moves leaves everything in order.
LEMMA AlikeTidy == ASSUME NEW t, NEW u, Alike(t, u) PROVE Tidy(t, u)
  BY DEF Alike, Tidy, WholeAt, In

\* A pane that is killed, where it was split off, and the layout after it leave the
\* window in order.
LEMMA KillLayout ==
  ASSUME NEW t \in Tmux, NEW p \in Pane, NEW w \in Window, t.at[p] \in {w, None}
  PROVE  LET r == Run(Kill(p) \o Layout(w), t)
         IN  /\ r.t \in Tmux /\ r.t.at = [t.at EXCEPT ![p] = None] /\ Tidy(t, r.t)
             /\ t.at[p] = None => r.t = t /\ ~r.ok
<1> DEFINE a == Run(Kill(p), t)
           b == Run(Layout(w), a.t)
           r == Run(Kill(p) \o Layout(w), t)
<1>1. r = IF a.ok THEN b ELSE a
  <2>1. Kill(p) \in Seq(Cmd) /\ Layout(w) \in Seq(Cmd)
    BY Lines
  <2> HIDE DEF Cmd
  <2> QED
    BY <2>1, RunConcat
<1>2. /\ t.at[p] = None => a.t = t /\ ~a.ok
      /\ t.at[p] # None =>
           /\ a.ok /\ a.t \in Tmux /\ a.t.at = [t.at EXCEPT ![p] = None] /\ a.t.real = t.real
           /\ a.t.shape = [t.shape EXCEPT ![t.at[p]] = "torn"]
  BY RunKill
<1>3. a.t \in Tmux =>
        /\ ~b.ok => b.t = a.t /\ ~(w \in a.t.real /\ In(a.t, w) = {})
        /\ b.ok => /\ b.t \in Tmux /\ b.t.at = a.t.at /\ b.t.real = a.t.real
                   /\ b.t.shape = [a.t.shape EXCEPT ![w] = "own"]
  BY RunLayout
<1>4. t.at \in [Pane -> Window \cup {None}] /\ t.shape \in [Window -> {"own", "docked", "torn"}]
  BY DEF Tmux
<1> HIDE DEF a, b, r
<1>5. CASE t.at[p] = None
  <2>1. t.at = [t.at EXCEPT ![p] = None]
    BY <1>4, <1>5
  <2>2. r.t = t /\ ~r.ok
    BY <1>1, <1>2, <1>5
  <2>3. Tidy(t, t)
    BY DEF Tidy
  <2> QED
    BY <2>1, <2>2, <2>3 DEF r
<1>6. CASE t.at[p] # None
  <2>1. /\ a.ok /\ a.t \in Tmux /\ a.t.at = [t.at EXCEPT ![p] = None] /\ a.t.real = t.real
        /\ a.t.shape = [t.shape EXCEPT ![w] = "torn"] /\ t.at[p] = w
    BY <1>2, <1>6
  <2>2. r = b
    BY <1>1, <2>1
  <2>3. b.t \in Tmux /\ b.t.at = [t.at EXCEPT ![p] = None] /\ b.t.real = t.real
    BY <1>3, <2>1
  <2>4. ASSUME NEW x \in Window, WholeAt(t, x) PROVE WholeAt(b.t, x)
    <3>1. In(b.t, x) = In(a.t, x)
      BY <2>1, <2>3 DEF In
    <3>2. CASE x # w
      <4>1. In(b.t, x) = In(t, x)
        BY <1>4, <2>1, <2>3, <3>2, DockAssumption DEF In
      <4>2. b.t.shape[x] = t.shape[x]
        BY <1>3, <1>4, <2>1, <3>2
      <4> QED
        BY <2>3, <2>4, <4>1, <4>2 DEF WholeAt
    <3>3. CASE x = w
      <4>1. CASE b.ok
        BY <1>3, <1>4, <2>1, <3>3, <4>1 DEF WholeAt
      <4>2. CASE ~b.ok
        BY <1>3, <2>1, <3>1, <3>3, <4>2 DEF WholeAt
      <4> QED
        BY <4>1, <4>2
    <3> QED
      BY <3>2, <3>3
  <2> QED
    BY <1>6, <2>2, <2>3, <2>4 DEF Tidy, r
<1> QED
  BY <1>5, <1>6

\* A line that restores options first does the same, unless a window is gone.
LEMMA ReplayKill ==
  ASSUME NEW t \in Tmux, NEW p \in Pane, NEW w \in Window, t.at[p] \in {w, None},
         NEW W \in SUBSET Window, ~Strands(t, W)
  PROVE  LET r == Run(Replay(W) \o Kill(p) \o Layout(w), t)
         IN  r.t \in Tmux /\ r.t.at = [t.at EXCEPT ![p] = None] /\ Tidy(t, r.t)
<1> DEFINE a == Run(Replay(W) \o Kill(p), t)
           k == Run(Kill(p), t)
<1>1. Replay(W) \in Seq(Cmd) /\ Kill(p) \in Seq(Cmd) /\ Layout(w) \in Seq(Cmd)
  BY Lines
<1>2. Replay(W) \o Kill(p) \in Seq(Cmd)
  BY <1>1, ConcatProperties
<1>3. Run(Replay(W), t).t = t /\ Run(Replay(W), t).ok
  BY RunOptions
<1>4. a = k
  <2>1. a = IF Run(Replay(W), t).ok THEN Run(Kill(p), Run(Replay(W), t).t) ELSE Run(Replay(W), t)
    BY <1>1, RunConcat
  <2> QED
    BY <1>3, <2>1
<1>5. Run(Replay(W) \o Kill(p) \o Layout(w), t) = IF a.ok THEN Run(Layout(w), a.t) ELSE a
  BY <1>1, <1>2, RunConcat
<1>6. Run(Kill(p) \o Layout(w), t) = IF k.ok THEN Run(Layout(w), k.t) ELSE k
  BY <1>1, RunConcat
<1>7. Run(Replay(W) \o Kill(p) \o Layout(w), t) = Run(Kill(p) \o Layout(w), t)
  BY <1>4, <1>5, <1>6
<1> QED
  BY <1>7, KillLayout

-----------------------------------------------------------------------------
(* The invariant.                                                            *)

\* All that an operation of the daemon may change.
State == [t : Tmux, dock : {None} \cup Docks, closing : {None} \cup Closings, queue : MaybeSpacers,
          claims : SUBSET Window, armed : BOOLEAN, broke : BOOLEAN]

Has(c, p) == \E w \in Window : c[w] = p

\* The pane p is on record: Known, with its sets written out.
Keeps(s, p) ==
  \/ s.dock # None /\ (p = s.dock.pane \/ Has(s.dock.carved, p))
  \/ s.closing # None /\ (p = s.closing.pane \/ Has(s.closing.carved, p))
  \/ Has(s.queue, p)

\* The spacers of c are where they should be, if anywhere.
InSlots(t, c) == \A w \in Window : c[w] # None => t.at[c[w]] \in {w, None}

\* So are the pane and the spacers of a dock, or of a close under way.
Placed(t, d) == t.at[d.pane] \in {d.win, None} /\ d.carved[d.win] = None /\ InSlots(t, d.carved)

Whole(t) == \A w \in Window \ rough : WholeAt(t, w)

\* One thing at a time, everything in its place, every pane on record outside of
\* the windows D, and every window that nobody else reshaped whole.
Sound(s, D) ==
  /\ s.dock # None => s.closing = None /\ s.queue = Nobody /\ Placed(s.t, s.dock)
  /\ s.closing # None => s.queue = Nobody /\ Placed(s.t, s.closing)
  /\ (s.queue # Nobody => s.armed) /\ InSlots(s.t, s.queue)
  /\ \A p \in Pane : s.t.at[p] \notin D \cup {None} => Keeps(s, p)
  /\ Whole(s.t)

Good(s, D) == s \in State /\ (~s.broke => Sound(s, D))

\* Without a daemon nothing is on record, and what is left are the spacers of
\* windows that its end has made rough.
IInv ==
  /\ TypeOK
  /\ Good(Now, IF up THEN {} ELSE Window)
  /\ ~up => /\ dock = None /\ closing = None /\ queue = Nobody
            /\ \A p \in Pane : tmux.at[p] # None => p \in Spacer /\ tmux.at[p] \in rough

\* None is no pane, no window, no dock and no close.
LEMMA NoneIsNot ==
  /\ None \notin Pane /\ None \notin Window /\ None \notin Docks /\ None \notin Closings
  /\ Spacer \subseteq Pane /\ Sidebar \subseteq Pane /\ \A p \in Spacer, q \in Sidebar : p # q
  BY DockAssumption DEF Pane

\* Nobody holds no pane.
LEMMA NobodyIs ==
  Nobody \in MaybeSpacers /\ (\A w \in Window : Nobody[w] = None) /\ \A p \in Pane : ~Has(Nobody, p)
  BY NoneIsNot DEF Nobody, MaybeSpacers, Has

\* What Known computes is what is on record.
LEMMA KnownIs == ASSUME NEW s \in State, NEW p \in Pane PROVE p \in Known(s) <=> Keeps(s, p)
<1> DEFINE docks == {s.dock, s.closing} \ {None}
           records == {s.queue} \cup {d.carved : d \in docks}
<1>1. Known(s) = ({d.pane : d \in docks} \cup {c[w] : w \in Window, c \in records}) \ {None}
  BY DEF Known
<1>2. p # None
  BY NoneIsNot
<1>3. p \in {d.pane : d \in docks} <=>
        (s.dock # None /\ p = s.dock.pane) \/ (s.closing # None /\ p = s.closing.pane)
  OBVIOUS
<1>4. (\E c \in records : Has(c, p)) <=>
        \/ Has(s.queue, p) \/ (s.dock # None /\ Has(s.dock.carved, p))
        \/ (s.closing # None /\ Has(s.closing.carved, p))
  <2> HIDE DEF docks
  <2>1. (\E c \in records : Has(c, p)) <=> Has(s.queue, p) \/ \E d \in docks : Has(d.carved, p)
    OBVIOUS
  <2> QED
    BY <2>1 DEF docks
<1>5. p \in {c[w] : w \in Window, c \in records} <=> \E c \in records : Has(c, p)
  <2> HIDE DEF records
  <2> QED
    BY DEF Has
<1> QED
  BY <1>1, <1>2, <1>3, <1>4, <1>5 DEF Keeps

\* What is deferred is all that is queued, when nothing was.
LEMMA DeferIs ==
  ASSUME NEW s \in State, NEW c \in MaybeSpacers
  PROVE  /\ DeferReleases(s, c) \in State
         /\ DeferReleases(s, c).t = s.t /\ DeferReleases(s, c).dock = s.dock
         /\ DeferReleases(s, c).closing = s.closing /\ DeferReleases(s, c).broke = s.broke
         /\ DeferReleases(s, c).claims = s.claims
         /\ DeferReleases(s, c).queue # Nobody => DeferReleases(s, c).armed
         /\ s.queue = Nobody => DeferReleases(s, c).queue = c
<1> DEFINE q == [w \in Window |-> IF c[w] # None THEN c[w] ELSE s.queue[w]]
           n == DeferReleases(s, c)
<1>1. q \in MaybeSpacers /\ (s.queue = Nobody => q = c)
  <2>1. s.queue \in MaybeSpacers
    BY DEF State
  <2>2. q \in MaybeSpacers
    BY <2>1 DEF MaybeSpacers
  <2>3. ASSUME s.queue = Nobody PROVE q = c
    <3>1. \A w \in Window : s.queue[w] = None
      BY <2>3, NobodyIs
    <3>2. \A w \in Window : q[w] = c[w]
      BY <3>1
    <3> QED
      BY <3>2 DEF MaybeSpacers
  <2> QED
    BY <2>2, <2>3
<1>2. n = [s EXCEPT !.queue = q, !.armed = s.armed \/ q # Nobody]
  BY DEF DeferReleases
<1> HIDE DEF q, n
<1>3. s = [t |-> s.t, dock |-> s.dock, closing |-> s.closing, queue |-> s.queue,
           claims |-> s.claims, armed |-> s.armed, broke |-> s.broke]
  BY DEF State
<1>4. /\ n.t = s.t /\ n.dock = s.dock /\ n.closing = s.closing /\ n.broke = s.broke
      /\ n.claims = s.claims /\ n.queue = q /\ n.armed = (s.armed \/ q # Nobody)
  BY <1>2, <1>3
<1>5. n \in State
  BY <1>1, <1>2 DEF State
<1>6. n.queue # Nobody => n.armed
  BY <1>4
<1> QED
  BY <1>1, <1>4, <1>5, <1>6 DEF n

\* What was carved is all that is left to do: the spacers of c, in their slots,
\* are all the panes there are.
Left(s, c, D) ==
  /\ s.dock = None /\ s.closing = None /\ s.queue = Nobody
  /\ InSlots(s.t, c) /\ Whole(s.t)
  /\ \A p \in Pane : s.t.at[p] \notin D \cup {None} => Has(c, p)

\* Spacers handed to the release queue stay on record (dock.go:212).
LEMMA DeferGood ==
  ASSUME NEW s \in State, NEW c \in MaybeSpacers, NEW D, ~s.broke => Left(s, c, D)
  PROVE  Good(DeferReleases(s, c), D)
<1> DEFINE n == DeferReleases(s, c)
<1>1. /\ n \in State /\ n.t = s.t /\ n.dock = s.dock /\ n.closing = s.closing
      /\ n.broke = s.broke /\ (n.queue # Nobody => n.armed) /\ (s.queue = Nobody => n.queue = c)
  BY DeferIs
<1> HIDE DEF n
<1>2. ASSUME ~n.broke PROVE Sound(n, D)
  BY <1>1, <1>2 DEF Left, Sound, Keeps
<1> QED
  BY <1>1, <1>2 DEF Good, n

-----------------------------------------------------------------------------
(* Closing, releasing and opening.                                           *)

\* Panes have gone from t to u, and nobody's window is the worse for it.
Fewer(t, u) == u \in Tmux /\ Tidy(t, u) /\ \A p \in Pane : u.at[p] \in {t.at[p], None}

\* What was in order before panes went is so after.
LEMMA FewerKeeps ==
  ASSUME NEW t \in Tmux, NEW u, Fewer(t, u)
  PROVE  /\ \A c \in MaybeSpacers : InSlots(t, c) => InSlots(u, c)
         /\ Whole(t) => Whole(u)
         /\ \A D, p \in Pane : u.at[p] \notin D \cup {None} => t.at[p] \notin D \cup {None}
<1>1. ASSUME NEW c \in MaybeSpacers, InSlots(t, c) PROVE InSlots(u, c)
  <2>1. ASSUME NEW w \in Window, c[w] # None PROVE u.at[c[w]] \in {w, None}
    <3>1. c[w] \in Pane
      BY <2>1, NoneIsNot DEF MaybeSpacers
    <3> QED
      BY <1>1, <2>1, <3>1 DEF InSlots, Fewer
  <2> QED
    BY <2>1 DEF InSlots
<1>2. Whole(t) => Whole(u)
  BY DEF Whole, Fewer, Tidy
<1>3. \A D, p \in Pane : u.at[p] \notin D \cup {None} => t.at[p] \notin D \cup {None}
  BY DEF Fewer
<1> QED
  BY <1>1, <1>2, <1>3

\* Killing one pane makes them fewer.
LEMMA GoneFewer ==
  ASSUME NEW t \in Tmux, NEW p \in Pane, NEW u, u \in Tmux, Tidy(t, u),
         u.at = [t.at EXCEPT ![p] = None]
  PROVE  Fewer(t, u) /\ u.at[p] = None
  BY DEF Fewer, Tmux

\* What leaves a pane out, followed by what only moves the client.
LEMMA FewerAlike ==
  ASSUME NEW t \in Tmux, NEW u, NEW v, Fewer(t, u), Alike(u, v)
  PROVE  Fewer(t, v) /\ v.at = u.at
  BY AlikeTidy DEF Fewer, Alike, Tidy

\* Panes gone twice over are panes gone.
LEMMA FewerTwice ==
  ASSUME NEW t \in Tmux, NEW u, NEW v, Fewer(t, u), Fewer(u, v)
  PROVE  Fewer(t, v)
  BY DEF Fewer, Tidy

\* Nothing gone is the least of it.
LEMMA FewerSame == ASSUME NEW t \in Tmux PROVE Fewer(t, t)
  BY DEF Fewer, Tidy

\* flushPendingClose finishes the close, whatever it is the close of.
LEMMA FlushGood ==
  ASSUME NEW D, NEW s, Good(s, D)
  PROVE  /\ Good(Flush(s), D) /\ Flush(s).closing = None /\ Flush(s).dock = s.dock
         /\ ~Flush(s).broke => ~s.broke
         /\ \A p \in Pane : ~Flush(s).broke /\ s.t.at[p] = None => Flush(s).t.at[p] = None
<1> DEFINE c == s.closing
           n == Flush(s)
           line == Replay(c.owed) \o Kill(c.pane) \o Layout(c.win)
           u == Run(line, s.t).t
           m == [s EXCEPT !.closing = None, !.t = u, !.broke = s.broke \/ Strands(s.t, c.owed)]
<1>1. s \in State /\ s.t \in Tmux
  BY DEF Good, State
<1>2. CASE c = None
  <2>1. n = s
    BY <1>2 DEF Flush
  <2> HIDE DEF n
  <2> QED
    BY <1>2, <2>1 DEF n
<1>3. CASE c # None
  <2>1. c \in Closings
    BY <1>1, <1>3 DEF State
  <2>2. c.pane \in Pane /\ c.win \in Window /\ c.owed \in SUBSET Window /\ c.carved \in MaybeSpacers
    BY <2>1, NoneIsNot DEF Closings
  <2>3. line \in Seq(Cmd)
    <3>1. Replay(c.owed) \in Seq(Cmd) /\ Kill(c.pane) \in Seq(Cmd) /\ Layout(c.win) \in Seq(Cmd)
      BY <2>2, Lines
    <3> HIDE DEF Cmd, c
    <3>2. Replay(c.owed) \o Kill(c.pane) \in Seq(Cmd)
      BY <3>1, ConcatProperties
    <3> QED
      BY <3>1, <3>2, ConcatProperties
  <2>4. u \in Tmux
    <3> HIDE DEF line, Cmd
    <3> QED
      BY <1>1, <2>3, RunType
  <2>5. n = DeferReleases(m, c.carved)
    BY <1>3 DEF Flush
  <2> HIDE DEF u
  <2>6. m \in State /\ m.closing = None /\ m.t = u /\ m.dock = s.dock /\ m.queue = s.queue
        /\ (m.broke <=> s.broke \/ Strands(s.t, c.owed))
    BY <1>1, <2>4 DEF State
  <2> HIDE DEF m, n, c
  <2>7. ASSUME ~m.broke PROVE Fewer(s.t, u) /\ Left(m, c.carved, D)
    <3>1. ~s.broke /\ ~Strands(s.t, c.owed)
      BY <2>6, <2>7
    <3>2. Sound(s, D) /\ Placed(s.t, c)
      BY <1>3, <3>1 DEF Good, Sound, c
    <3>3. s.t.at[c.pane] \in {c.win, None}
      BY <3>2 DEF Placed
    <3>4. u \in Tmux /\ u.at = [s.t.at EXCEPT ![c.pane] = None] /\ Tidy(s.t, u)
      BY <1>1, <2>2, <3>1, <3>3, ReplayKill DEF u, line
    <3>5. Fewer(s.t, u) /\ u.at[c.pane] = None
      BY <1>1, <2>2, <3>4, GoneFewer
    <3>6. InSlots(u, c.carved) /\ Whole(u)
      BY <1>1, <2>2, <3>2, <3>5, FewerKeeps DEF Placed, Sound
    <3>7. s.dock = None /\ s.queue = Nobody
      BY <1>3, <3>2 DEF Sound, c
    <3>8. ASSUME NEW p \in Pane, u.at[p] \notin D \cup {None} PROVE Has(c.carved, p)
      <4>1. s.t.at[p] \notin D \cup {None} /\ p # c.pane
        BY <1>1, <3>5, <3>8 DEF Fewer
      <4>2. Keeps(s, p)
        BY <3>2, <4>1 DEF Sound
      <4> QED
        BY <3>7, <4>1, <4>2, NobodyIs DEF Keeps, c
    <3> QED
      BY <2>6, <3>5, <3>6, <3>7, <3>8 DEF Left
  <2>8. Good(n, D)
    BY <2>2, <2>5, <2>6, <2>7, DeferGood
  <2>9. n.t = m.t /\ n.dock = m.dock /\ n.closing = m.closing /\ n.broke = m.broke
    BY <2>2, <2>5, <2>6, DeferIs
  <2>10. ASSUME NEW p \in Pane, ~n.broke, s.t.at[p] = None PROVE n.t.at[p] = None
    BY <2>6, <2>7, <2>9, <2>10 DEF Fewer
  <2> QED
    BY <2>6, <2>8, <2>9, <2>10 DEF n
<1> QED
  BY <1>2, <1>3

\* releaseOne lets one window go: its spacer, and its entry.
LEMMA ReleaseOneGood ==
  ASSUME NEW D, NEW s, Good(s, D), NEW w \in Window, s.queue[w] # None
  PROVE  /\ Good([ReleaseOne(s, w) EXCEPT !.armed = ReleaseOne(s, w).queue # Nobody], D)
         /\ Good(ReleaseOne(s, w), D)
         /\ ReleaseOne(s, w).dock = s.dock /\ ReleaseOne(s, w).closing = s.closing
         /\ ReleaseOne(s, w).broke = s.broke /\ ReleaseOne(s, w).queue[w] = None
         /\ ReleaseOne(s, w).claims = s.claims
         /\ \A p \in Pane : ~s.broke /\ s.t.at[p] = None => ReleaseOne(s, w).t.at[p] = None
<1> DEFINE q == s.queue[w]
           u == Run(Kill(q) \o Layout(w), s.t).t
           n == ReleaseOne(s, w)
           m == [n EXCEPT !.armed = n.queue # Nobody]
<1>1. s \in State /\ s.t \in Tmux /\ s.queue \in MaybeSpacers /\ q \in Pane
  BY NoneIsNot DEF Good, State, MaybeSpacers
<1>2. u \in Tmux
  <2>1. Kill(q) \o Layout(w) \in Seq(Cmd)
    <3>1. Kill(q) \in Seq(Cmd) /\ Layout(w) \in Seq(Cmd)
      BY <1>1, Lines
    <3> HIDE DEF Cmd, q
    <3> QED
      BY <3>1, ConcatProperties
  <2> HIDE DEF Cmd
  <2> QED
    BY <1>1, <2>1, RunType
<1>3. n = [s EXCEPT !.t = u, !.queue[w] = None]
  BY DEF ReleaseOne
<1> HIDE DEF u, n
<1>4. /\ n.t = u /\ n.dock = s.dock /\ n.closing = s.closing /\ n.broke = s.broke
      /\ n.queue = [s.queue EXCEPT ![w] = None] /\ n.armed = s.armed /\ n.claims = s.claims
  BY <1>1, <1>3 DEF State
<1>5. n.queue \in MaybeSpacers /\ n.queue[w] = None
  BY <1>1, <1>4 DEF MaybeSpacers
<1>6. n \in State
  BY <1>1, <1>2, <1>3, <1>5 DEF State, MaybeSpacers
<1>7. ASSUME ~s.broke
      PROVE  /\ s.dock = None /\ s.closing = None /\ s.armed /\ InSlots(u, n.queue) /\ Whole(u)
             /\ Fewer(s.t, u)
             /\ \A p \in Pane : u.at[p] \notin D \cup {None} => Has(n.queue, p)
  <2>1. Sound(s, D)
    BY <1>7 DEF Good
  <2>2. s.queue # Nobody
    BY NobodyIs
  <2>3. s.t.at[q] \in {w, None}
    BY <2>1 DEF Sound, InSlots
  <2>4. u \in Tmux /\ u.at = [s.t.at EXCEPT ![q] = None] /\ Tidy(s.t, u)
    BY <1>1, <2>3, KillLayout DEF u
  <2>5. Fewer(s.t, u) /\ u.at[q] = None
    BY <1>1, <2>4, GoneFewer
  <2>6. InSlots(u, s.queue) /\ Whole(u)
    BY <1>1, <2>1, <2>5, FewerKeeps DEF Sound
  <2>7. InSlots(u, n.queue)
    BY <1>1, <1>4, <2>6 DEF InSlots, MaybeSpacers
  <2>8. s.dock = None /\ s.closing = None /\ s.armed
    BY <2>1, <2>2 DEF Sound
  <2>9. ASSUME NEW p \in Pane, u.at[p] \notin D \cup {None} PROVE Has(n.queue, p)
    <3>1. s.t.at[p] \notin D \cup {None} /\ p # q
      BY <1>1, <2>5, <2>9 DEF Fewer
    <3>2. Has(s.queue, p)
      BY <2>1, <2>8, <3>1 DEF Sound, Keeps
    <3> QED
      BY <1>1, <1>4, <3>1, <3>2 DEF Has, MaybeSpacers
  <2> QED
    BY <2>5, <2>6, <2>7, <2>8, <2>9
<1>8. ASSUME ~n.broke PROVE Sound(n, D)
  BY <1>4, <1>7, <1>8 DEF Sound, Keeps
<1> HIDE DEF m
<1>9. m \in State /\ (~m.broke => Sound(m, D))
  <2>1. /\ m \in State /\ m.t = n.t /\ m.dock = n.dock /\ m.closing = n.closing /\ m.broke = n.broke
        /\ m.queue = n.queue /\ (m.armed <=> n.queue # Nobody)
    BY <1>6 DEF State, m
  <2>2. ASSUME ~m.broke PROVE Sound(m, D)
    BY <1>4, <1>7, <2>1, <2>2 DEF Sound, Keeps
  <2> QED
    BY <2>1, <2>2
<1>10. \A p \in Pane : ~s.broke /\ s.t.at[p] = None => n.t.at[p] = None
  BY <1>4, <1>7 DEF Fewer
<1> QED
  BY <1>4, <1>5, <1>6, <1>8, <1>9, <1>10 DEF Good, n, m

\* A line of options and a split: all of it has run, or nothing has.
LEMMA MarkSplit ==
  ASSUME NEW t \in Tmux, NEW W \in SUBSET Window, NEW w \in Window, NEW p \in Pane
  PROVE  Splits(Run(Mark(W) \o Split(w, p), t), t, w, p)
<1> DEFINE a == Run(Mark(W), t)
           b == Run(Split(w, p), t)
           r == Run(Mark(W) \o Split(w, p), t)
<1>1. Mark(W) \in Seq(Cmd) /\ Split(w, p) \in Seq(Cmd)
  BY Lines
<1>2. r = IF a.ok THEN Run(Split(w, p), a.t) ELSE a
  <2> HIDE DEF Cmd
  <2> QED
    BY <1>1, RunConcat
<1>3. a.t = t
  BY RunOptions
<1>4. Splits(b, t, w, p)
  BY RunSplit
<1>5. (a.ok /\ r = b) \/ (~a.ok /\ r = a)
  BY <1>2, <1>3
<1> HIDE DEF a, b, r
<1> QED
  BY <1>3, <1>4, <1>5 DEF Splits, r

\* A pane that is new in a window: the windows are in order, and the others of
\* winch are where they were.
LEMMA SplitKeeps ==
  ASSUME NEW t \in Tmux, NEW r, NEW w \in Window, NEW p \in Pane, Splits(r, t, w, p),
         t.at[p] = None, r.ok
  PROVE  /\ r.t.at[p] = w /\ (Whole(t) => Whole(r.t))
         /\ \A q \in Pane : q # p => r.t.at[q] = t.at[q]
<1>1. /\ r.t \in Tmux /\ r.t.real = t.real /\ r.t.at = [t.at EXCEPT ![p] = w]
      /\ r.t.shape = [t.shape EXCEPT ![w] = "docked"]
  BY DEF Splits
<1>2. t.at \in [Pane -> Window \cup {None}] /\ t.shape \in [Window -> {"own", "docked", "torn"}]
  BY DEF Tmux
<1>3. r.t.at[p] = w /\ \A q \in Pane : q # p => r.t.at[q] = t.at[q]
  BY <1>1, <1>2
<1>4. ASSUME NEW x \in Window, WholeAt(t, x) PROVE WholeAt(r.t, x)
  <2>1. CASE x = w
    BY <1>3, <2>1 DEF WholeAt, In
  <2>2. CASE x # w
    <3>1. In(r.t, x) = In(t, x)
      BY <1>3, <2>2, NoneIsNot DEF In
    <3>2. r.t.shape[x] = t.shape[x]
      BY <1>1, <1>2, <2>2
    <3> QED
      BY <1>1, <1>4, <3>1, <3>2 DEF WholeAt
  <2> QED
    BY <2>1, <2>2
<1> QED
  BY <1>3, <1>4 DEF Whole

\* The id of a pane that is about to be split off is a new one.
Fresh(s, p) == s.t.at[p] = None /\ ~Keeps(s, p)

\* dockOpen adopts the spacers that wait.
LEMMA OpenAtGood ==
  ASSUME NEW D, NEW s, Good(s, D), s.dock = None, s.closing = None, NEW w \in Window,
         NewSidebar \in Sidebar, ~s.broke => s.t.at[NewSidebar] = None
  PROVE  Good(OpenAt(s, w), D)
<1> DEFINE r == IF s.queue[w] # None THEN ReleaseOne(s, w) ELSE s
           b == NewSidebar
           held == Holding(r.queue) \cup {w}
           done == Run(Mark(held \ r.claims) \o Split(w, b), r.t)
           d == [pane |-> b, win |-> w, origin |-> w, scrub |-> FALSE, carved |-> r.queue]
           next == [r EXCEPT !.t = done.t, !.queue = Nobody]
           n1 == [next EXCEPT !.claims = held, !.dock = d]
           n2 == [next EXCEPT !.broke = r.broke \/ r.queue # Nobody]
<1>1. /\ Good(r, D) /\ r.dock = None /\ r.closing = None /\ r.broke = s.broke /\ r.queue[w] = None
      /\ ~s.broke => r.t.at[b] = None
  <2>1. b \in Pane
    BY NoneIsNot
  <2> HIDE DEF b
  <2>2. CASE s.queue[w] # None
    <3>1. r = ReleaseOne(s, w)
      BY <2>2
    <3> HIDE DEF r
    <3>2. /\ Good(ReleaseOne(s, w), D)
          /\ ReleaseOne(s, w).dock = s.dock /\ ReleaseOne(s, w).closing = s.closing
          /\ ReleaseOne(s, w).broke = s.broke /\ ReleaseOne(s, w).queue[w] = None
          /\ \A p \in Pane : ~s.broke /\ s.t.at[p] = None => ReleaseOne(s, w).t.at[p] = None
      BY <2>2, ReleaseOneGood
    <3> QED
      BY <2>1, <3>1, <3>2 DEF b
  <2>3. CASE s.queue[w] = None
    <3>1. r = s
      BY <2>3
    <3> HIDE DEF r
    <3> QED
      BY <2>3, <3>1 DEF b
  <2> QED
    BY <2>2, <2>3
<1> HIDE DEF r
<1>2. /\ r \in State /\ r.t \in Tmux /\ r.queue \in MaybeSpacers /\ held \in SUBSET Window /\ b \in Pane
      /\ b \in Sidebar
  BY <1>1, NoneIsNot DEF Good, State, Holding
<1>3. OpenAt(s, w) = IF done.ok THEN n1 ELSE n2
  BY DEF OpenAt, r
<1> HIDE DEF b, held
<1>4. Splits(done, r.t, w, b)
  <2>1. held \ r.claims \in SUBSET Window
    BY <1>2
  <2> QED
    BY <1>2, <2>1, MarkSplit
<1> HIDE DEF done
<1>5. CASE done.ok
  <2>1. d \in Docks /\ d \in {None} \cup Docks /\ d # None
    <3>1. d \in Docks
      BY <1>2 DEF Docks
    <3> HIDE DEF d
    <3> QED
      BY <3>1, NoneIsNot
  <2>2. d.pane = b /\ d.win = w /\ d.carved = r.queue
    OBVIOUS
  <2>3. done.t \in Tmux
    BY <1>4 DEF Splits
  <2> HIDE DEF d
  <2>4. n1 \in State /\ n1.t = done.t /\ n1.dock = d /\ n1.closing = None /\ n1.queue = Nobody
        /\ n1.broke = r.broke
    BY <1>1, <1>2, <2>1, <2>3, NobodyIs DEF State
  <2> HIDE DEF n1
  <2>5. ASSUME ~n1.broke PROVE Sound(n1, D)
    <3>1. Sound(r, D) /\ r.t.at[b] = None
      BY <1>1, <2>4, <2>5 DEF Good
    <3>2. /\ done.t.at[b] = w /\ Whole(done.t)
          /\ \A q \in Pane : q # b => done.t.at[q] = r.t.at[q]
      BY <1>2, <1>4, <1>5, <3>1, SplitKeeps DEF Sound
    <3>3. InSlots(done.t, r.queue)
      BY <1>2, <3>1, <3>2, NoneIsNot DEF InSlots, Sound, MaybeSpacers
    <3>4. Placed(done.t, d)
      BY <1>1, <2>2, <3>2, <3>3 DEF Placed
    <3>5. InSlots(done.t, Nobody)
      BY NobodyIs DEF InSlots
    <3>6. ASSUME NEW p \in Pane, done.t.at[p] \notin D \cup {None} PROVE p = b \/ Has(r.queue, p)
      <4>1. CASE p # b
        BY <1>1, <3>1, <3>2, <3>6, <4>1 DEF Sound, Keeps
      <4> QED
        BY <4>1
    <3> QED
      BY <2>1, <2>2, <2>4, <3>2, <3>4, <3>5, <3>6 DEF Sound, Keeps
  <2> QED
    BY <1>3, <1>5, <2>4, <2>5 DEF Good
<1>6. CASE ~done.ok
  <2>1. done.t = r.t
    BY <1>4, <1>6 DEF Splits
  <2>2. /\ n2 \in State /\ n2.t = r.t /\ n2.dock = None /\ n2.closing = None /\ n2.queue = Nobody
        /\ (n2.broke <=> r.broke \/ r.queue # Nobody)
    BY <1>1, <1>2, <2>1, NobodyIs DEF State
  <2> HIDE DEF n2
  <2>3. ASSUME ~n2.broke PROVE Sound(n2, D)
    <3>1. Sound(r, D) /\ r.queue = Nobody
      BY <1>1, <2>2, <2>3 DEF Good
    <3> QED
      BY <1>1, <2>2, <3>1 DEF Sound, Keeps
  <2> QED
    BY <1>3, <1>6, <2>2, <2>3 DEF Good
<1> QED
  BY <1>5, <1>6

\* So does the whole of dockOpen, which first finishes a close that is under way.
LEMMA OpenGood ==
  ASSUME NEW D, NEW s, Good(s, D), s.dock = None,
         NewSidebar \in Sidebar, ~s.broke => s.t.at[NewSidebar] = None
  PROVE  Good(Open(s), D)
<1> DEFINE f == Flush(s)
           b == NewSidebar
<1>1. /\ Good(f, D) /\ f.closing = None /\ f.dock = None
      /\ ~f.broke => ~s.broke
      /\ ~f.broke /\ ~s.broke => f.t.at[b] = None
  <2>1. b \in Pane
    BY NoneIsNot
  <2>2. /\ Good(Flush(s), D) /\ Flush(s).closing = None /\ Flush(s).dock = s.dock
        /\ ~Flush(s).broke => ~s.broke
        /\ \A p \in Pane : ~Flush(s).broke /\ s.t.at[p] = None => Flush(s).t.at[p] = None
    BY FlushGood
  <2> HIDE DEF f
  <2>3. f = Flush(s)
    BY DEF f
  <2> QED
    BY <2>1, <2>2, <2>3
<1>2. f.t.cur = None \/ f.t.cur \in Window
  BY <1>1 DEF Good, State, Tmux
<1>3. Open(s) = IF f.t.cur = None THEN f ELSE OpenAt(f, f.t.cur)
  BY DEF Open
<1> HIDE DEF f
<1>4. CASE f.t.cur = None
  BY <1>1, <1>3, <1>4
<1>5. CASE f.t.cur # None
  BY <1>1, <1>2, <1>3, <1>5, OpenAtGood
<1> QED
  BY <1>4, <1>5

-----------------------------------------------------------------------------
(* Moving.                                                                   *)

\* r is what comes of a line that begins like a's and ends with moves of the client.
Follows(r, a) == (a.ok => Alike(a.t, r.t)) /\ (~a.ok => r = a)

\* The ends of a line that only move the client add up.
LEMMA FollowsThrough ==
  ASSUME NEW a, NEW b, NEW c, Follows(b, a), Follows(c, b)
  PROVE  Follows(c, a)
<1>1. CASE a.ok
  <2>1. Alike(a.t, b.t)
    BY <1>1 DEF Follows
  <2>2. Alike(a.t, c.t)
    BY <2>1 DEF Follows, Alike
  <2> QED
    BY <1>1, <2>2 DEF Follows
<1>2. CASE ~a.ok
  BY <1>2 DEF Follows
<1> QED
  BY <1>1, <1>2

\* A line that goes on with moves of the client follows the line it goes on from.
LEMMA ThenMoves ==
  ASSUME NEW t \in Tmux, NEW l \in Seq(Cmd), NEW m \in Seq(Cmd),
         \A u \in Tmux : Alike(u, Run(m, u).t)
  PROVE  Follows(Run(l \o m, t), Run(l, t))
<1>1. Run(l \o m, t) = IF Run(l, t).ok THEN Run(m, Run(l, t).t) ELSE Run(l, t)
  <2> HIDE DEF Cmd
  <2> QED
    BY RunConcat
<1>2. Run(l, t).t \in Tmux
  <2> HIDE DEF Cmd
  <2> QED
    BY RunType
<1>3. CASE Run(l, t).ok
  BY <1>1, <1>2, <1>3 DEF Follows
<1>4. CASE ~Run(l, t).ok
  BY <1>1, <1>4 DEF Follows
<1> QED
  BY <1>3, <1>4

\* How a line that takes the sidebar to w ends: the client goes there too.
LEMMA TailFollows ==
  ASSUME NEW t \in Tmux, NEW l \in Seq(Cmd), NEW w \in Window, NEW b \in BOOLEAN,
         NEW m, m = Switch(w) \/ m = <<>>
  PROVE  /\ Follows(Run(l \o Select(w) \o m \o Focus(b), t), Run(l, t))
         /\ l \o Select(w) \o m \o Focus(b) \in Seq(Cmd)
<1>1. Select(w) \in Seq(Cmd) /\ Switch(w) \in Seq(Cmd) /\ Focus(b) \in Seq(Cmd) /\ <<>> \in Seq(Cmd)
  BY Lines
<1>2. m \in Seq(Cmd)
  BY <1>1
<1>3. \A u \in Tmux : Alike(u, Run(Select(w), u).t) /\ Alike(u, Run(Switch(w), u).t)
  BY RunMoves
<1>4. \A u \in Tmux : Alike(u, u)
  BY DEF Alike
<1>5. \A u \in Tmux : Alike(u, Run(Focus(b), u).t)
  BY <1>4, RunOptions
<1>6. \A u \in Tmux : Alike(u, Run(m, u).t)
  <2>1. \A u : Run(<<>>, u).t = u
    BY RunNone
  <2>2. CASE m = <<>>
    BY <1>4, <2>1, <2>2
  <2>3. CASE m = Switch(w)
    BY <1>3, <2>3
  <2> QED
    BY <2>2, <2>3
<1> DEFINE l1 == l \o Select(w)
           l2 == l1 \o m
           l3 == l2 \o Focus(b)
<1> HIDE DEF Cmd
<1>7. l1 \in Seq(Cmd) /\ Follows(Run(l1, t), Run(l, t))
  BY <1>1, <1>3, ThenMoves, ConcatProperties
<1> HIDE DEF l1
<1>8. l2 \in Seq(Cmd) /\ Follows(Run(l2, t), Run(l1, t))
  BY <1>2, <1>6, <1>7, ThenMoves, ConcatProperties
<1> HIDE DEF l2
<1>9. l3 \in Seq(Cmd) /\ Follows(Run(l3, t), Run(l2, t))
  BY <1>1, <1>5, <1>8, ThenMoves, ConcatProperties
<1> HIDE DEF l3
<1>10. Follows(Run(l3, t), Run(l, t))
  BY <1>7, <1>8, <1>9, FollowsThrough
<1> QED
  BY <1>9, <1>10 DEF l1, l2, l3

\* What a move of the sidebar p to w does, where the pane q takes its place: the
\* other panes stay, and so does the shape of the other windows.
Moved(t, u, p, q, w) ==
  /\ u \in Tmux /\ u.real = t.real /\ t.at[p] # None
  /\ u.at[p] = w /\ u.at[q] = t.at[p]
  /\ \A x \in Pane \ {p, q} : u.at[x] = t.at[x]
  /\ \A x \in Window \ {w, t.at[p]} : u.shape[x] = t.shape[x] /\ In(u, x) = In(t, x)

\* A swap with a pane in w is a move there.
LEMMA SwapMoves ==
  ASSUME NEW t \in Tmux, NEW p \in Pane, NEW q \in Pane, p # q, NEW w \in Window,
         NEW r, Swaps(r, t, p, q), r.ok, t.at[q] = w
  PROVE  Moved(t, r.t, p, q, w)
<1>1. /\ r.t \in Tmux /\ r.t.real = t.real /\ r.t.shape = t.shape /\ t.at[p] # None
      /\ r.t.at = [t.at EXCEPT ![p] = t.at[q], ![q] = t.at[p]]
  BY DEF Swaps
<1>2. t.at \in [Pane -> Window \cup {None}]
  BY DEF Tmux
<1>3. r.t.at[p] = w /\ r.t.at[q] = t.at[p] /\ \A x \in Pane \ {p, q} : r.t.at[x] = t.at[x]
  BY <1>1, <1>2
<1>4. ASSUME NEW x \in Window \ {w, t.at[p]} PROVE In(r.t, x) = In(t, x)
  BY <1>3, <1>4 DEF In
<1> QED
  BY <1>1, <1>3, <1>4 DEF Moved

\* So is a split in w and a swap with the pane that is new.
LEMMA SplitMoves ==
  ASSUME NEW t \in Tmux, NEW p \in Pane, NEW q \in Pane, p # q, NEW w \in Window,
         NEW a, Splits(a, t, w, q), a.ok, t.at[q] = None,
         NEW r, Swaps(r, a.t, p, q), r.ok
  PROVE  Moved(t, r.t, p, q, w)
<1>1. /\ a.t \in Tmux /\ a.t.real = t.real /\ a.t.at = [t.at EXCEPT ![q] = w]
      /\ a.t.shape = [t.shape EXCEPT ![w] = "docked"]
  BY DEF Splits
<1>2. t.at \in [Pane -> Window \cup {None}] /\ t.shape \in [Window -> {"own", "docked", "torn"}]
  BY DEF Tmux
<1>3. a.t.at[q] = w /\ (\A x \in Pane \ {q} : a.t.at[x] = t.at[x])
  BY <1>1, <1>2
<1>4. Moved(a.t, r.t, p, q, w)
  BY <1>1, <1>3, SwapMoves
<1>5. ASSUME NEW x \in Window \ {w} PROVE a.t.shape[x] = t.shape[x] /\ In(a.t, x) = In(t, x)
  BY <1>1, <1>2, <1>3, <1>5, NoneIsNot DEF In
<1> QED
  BY <1>1, <1>3, <1>4, <1>5 DEF Moved

\* A client that follows makes no difference.
LEMMA MovedAlike ==
  ASSUME NEW t, NEW u, NEW v, NEW p, NEW q, NEW w, Moved(t, u, p, q, w), Alike(u, v)
  PROVE  Moved(t, v, p, q, w)
  BY DEF Moved, Alike, In

\* One attempt: when all of it ran the sidebar has moved; where the spacer is gone
\* nothing has.
LEMMA AttemptIs ==
  ASSUME NEW s \in State, s.dock # None, NEW w \in Window, NEW q \in Spacer \cup {None},
         NEW tail \in BOOLEAN, NewSpacer \in Spacer
  PROVE  /\ Attempt(s, w, q, tail).t \in Tmux
         /\ Attempt(s, w, q, tail).ok /\ q = None /\ s.t.at[NewSpacer] = None
              => Moved(s.t, Attempt(s, w, q, tail).t, s.dock.pane, NewSpacer, w)
         /\ Attempt(s, w, q, tail).ok /\ q # None /\ s.t.at[q] \in {w, None}
              => Moved(s.t, Attempt(s, w, q, tail).t, s.dock.pane, q, w)
         /\ q # None /\ s.t.at[q] = None
              => ~Attempt(s, w, q, tail).ok /\ Attempt(s, w, q, tail).t = s.t
<1> DEFINE t == s.t
           p == s.dock.pane
           n == NewSpacer
           K == Mark({w} \ s.claims)
           X == IF q # None THEN Swap(p, q) ELSE Split(w, n) \o Swap(p, n)
           m == IF SessOf[w] # SessOf[s.dock.win] THEN Switch(w) ELSE <<>>
           l == K \o X
           r == Attempt(s, w, q, tail)
           a == Run(l, t)
           x == Run(X, t)
           b == Run(Split(w, n), t)
           c == Run(Swap(p, n), b.t)
           d == Run(Swap(p, q), t)
<1>1. t \in Tmux /\ p \in Pane /\ p \in Sidebar /\ n \in Pane /\ n \in Spacer /\ p # n
  BY NoneIsNot DEF State, Docks
<1>2. q # None => q \in Pane /\ p # q
  BY <1>1, NoneIsNot
<1>3. r = Run(l \o Select(w) \o m \o Focus(tail), t)
  BY DEF Attempt
<1> HIDE DEF t, p, n
<1>4. K \in Seq(Cmd) /\ \A i, j \in Pane : Swap(i, j) \in Seq(Cmd) /\ Split(w, j) \in Seq(Cmd)
  <2>1. {w} \ s.claims \in SUBSET Window
    OBVIOUS
  <2> QED
    BY <2>1, Lines
<1> HIDE DEF K
<1>5. X \in Seq(Cmd) /\ (q = None => X = Split(w, n) \o Swap(p, n)) /\ (q # None => X = Swap(p, q))
  <2> HIDE DEF Cmd
  <2>1. Split(w, n) \o Swap(p, n) \in Seq(Cmd)
    BY <1>1, <1>4, ConcatProperties
  <2> QED
    BY <1>1, <1>2, <1>4, <2>1
<1> HIDE DEF X
<1>6. l \in Seq(Cmd) /\ a = IF Run(K, t).ok THEN Run(X, Run(K, t).t) ELSE Run(K, t)
  <2> HIDE DEF Cmd
  <2> QED
    BY <1>4, <1>5, RunConcat, ConcatProperties
<1>7. Run(K, t).t = t
  <2>1. {w} \ s.claims \in SUBSET Window
    OBVIOUS
  <2> QED
    BY <2>1, RunOptions DEF K
<1>8. (a.ok => a = x) /\ (a = x \/ (a.t = t /\ ~a.ok))
  BY <1>6, <1>7
<1>9. m = Switch(w) \/ m = <<>>
  OBVIOUS
<1> HIDE DEF l, m
<1>10. Follows(r, a)
  <2> HIDE DEF Cmd, a, r
  <2> QED
    BY <1>1, <1>3, <1>6, <1>9, TailFollows DEF a
<1>11. a.t \in Tmux
  <2> HIDE DEF Cmd
  <2> QED
    BY <1>1, <1>6, RunType
<1>12. CASE q = None
  <2>1. x = IF b.ok THEN c ELSE b
    <3>1. Split(w, n) \in Seq(Cmd) /\ Swap(p, n) \in Seq(Cmd)
      BY <1>1, <1>4
    <3> HIDE DEF Cmd, x
    <3>2. Run(Split(w, n) \o Swap(p, n), t) = IF b.ok THEN c ELSE b
      BY <3>1, RunConcat
    <3> QED
      BY <1>5, <1>12, <3>2 DEF x
  <2>2. Splits(b, t, w, n)
    BY <1>1, RunSplit
  <2>3. b.t \in Tmux
    BY <2>2 DEF Splits
  <2>4. Swaps(c, b.t, p, n)
    BY <1>1, <2>3, RunSwap
  <2> HIDE DEF a, b, c, x, r
  <2>5. ASSUME a.ok, t.at[n] = None PROVE Moved(t, a.t, p, n, w)
    <3>1. a = x /\ x.ok
      BY <1>8, <2>5
    <3>2. b.ok /\ c.ok /\ x = c
      BY <2>1, <3>1
    <3> QED
      BY <1>1, <2>2, <2>4, <2>5, <3>1, <3>2, SplitMoves
  <2>6. ASSUME r.ok, t.at[n] = None PROVE Moved(t, r.t, p, n, w)
    <3>1. a.ok /\ Alike(a.t, r.t)
      BY <1>10, <2>6 DEF Follows
    <3> QED
      BY <2>5, <2>6, <3>1, MovedAlike
  <2>7. r.t \in Tmux
    BY <1>10, <1>11 DEF Follows, Alike
  <2> QED
    BY <1>12, <2>6, <2>7 DEF r, t, p, n
<1>13. CASE q # None
  <2>1. x = d
    BY <1>5, <1>13
  <2>2. Swaps(d, t, p, q)
    BY <1>1, <1>2, <1>13, RunSwap
  <2> HIDE DEF a, d, x, r
  <2>3. ASSUME a.ok, t.at[q] \in {w, None} PROVE Moved(t, a.t, p, q, w)
    <3>1. a = d /\ d.ok
      BY <1>8, <2>1, <2>3
    <3>2. t.at[q] = w
      BY <2>2, <2>3, <3>1 DEF Swaps
    <3> QED
      BY <1>1, <1>2, <1>13, <2>2, <3>1, <3>2, SwapMoves
  <2>4. ASSUME r.ok, t.at[q] \in {w, None} PROVE Moved(t, r.t, p, q, w)
    <3>1. a.ok /\ Alike(a.t, r.t)
      BY <1>10, <2>4 DEF Follows
    <3> QED
      BY <2>3, <2>4, <3>1, MovedAlike
  <2>5. ASSUME t.at[q] = None PROVE ~r.ok /\ r.t = t
    <3>1. ~d.ok /\ d.t = t
      BY <2>2, <2>5 DEF Swaps
    <3>2. ~a.ok /\ a.t = t
      BY <1>8, <2>1, <3>1
    <3> QED
      BY <1>10, <3>2 DEF Follows
  <2>6. r.t \in Tmux
    BY <1>10, <1>11 DEF Follows, Alike
  <2> QED
    BY <1>13, <2>4, <2>5, <2>6 DEF r, t, p, n
<1> QED
  BY <1>12, <1>13

\* A move that has landed: the spacer is registered for the window left, and what
\* held the window entered no longer is.
LEMMA LandedGood ==
  ASSUME NEW D, NEW s, Good(s, D), s.dock # None, NEW w \in Window, w # s.dock.win,
         NEW q \in Spacer, NEW t \in Tmux,
         ~s.broke => /\ Moved(s.t, t, s.dock.pane, q, w)
                     /\ \/ s.dock.carved[w] = q /\ s.t.at[q] # None
                        \/ s.dock.carved[w] = None /\ Fresh(s, q)
  PROVE  Good(Landed(s, t, w, q), D) /\ Landed(s, t, w, q).dock # None
<1> DEFINE d == s.dock
           c == [d.carved EXCEPT ![d.win] = q, ![w] = None]
           held == Holding(c) \cup {w}
           e == [d EXCEPT !.win = w, !.scrub = FALSE, !.carved = c]
           n == [s EXCEPT !.t = t, !.claims = held, !.dock = e]
<1>1. s \in State /\ d \in Docks /\ s.t \in Tmux
  BY DEF Good, State
<1>2. d.carved \in MaybeSpacers /\ d.win \in Window /\ d.pane \in Sidebar /\ d.pane \in Pane /\ q \in Pane
      /\ d.pane # q
  BY <1>1, NoneIsNot DEF Docks
<1>3. /\ c \in MaybeSpacers /\ c[w] = None /\ c[d.win] = q
      /\ \A x \in Window \ {w, d.win} : c[x] = d.carved[x]
  BY <1>2 DEF MaybeSpacers
<1>4. Landed(s, t, w, q) = n
  BY DEF Landed
<1>5. held \in SUBSET Window
  BY DEF Holding
<1> HIDE DEF c, held
<1>6. e \in Docks /\ e.pane = d.pane /\ e.win = w /\ e.carved = c
  BY <1>1, <1>3 DEF Docks
<1> HIDE DEF e
<1>7. n \in State /\ n.t = t /\ n.dock = e /\ n.closing = s.closing /\ n.queue = s.queue
      /\ n.broke = s.broke
  BY <1>1, <1>5, <1>6 DEF State
<1>8. e # None
  BY <1>6, NoneIsNot
<1> HIDE DEF n
<1>9. ASSUME ~s.broke PROVE Sound(n, D)
  <2>1. s.closing = None /\ s.queue = Nobody /\ Placed(s.t, d) /\ Whole(s.t)
        /\ \A p \in Pane : s.t.at[p] \notin D \cup {None} => Keeps(s, p)
    BY <1>9 DEF Good, Sound
  <2>2. /\ t.real = s.t.real /\ s.t.at[d.pane] # None /\ t.at[d.pane] = w /\ t.at[q] = s.t.at[d.pane]
        /\ \A x \in Pane \ {d.pane, q} : t.at[x] = s.t.at[x]
        /\ \A x \in Window \ {w, s.t.at[d.pane]} : t.shape[x] = s.t.shape[x] /\ In(t, x) = In(s.t, x)
    BY <1>9 DEF Moved
  <2>3. s.t.at[d.pane] = d.win
    BY <2>1, <2>2 DEF Placed
  <2>4. \A x \in Window : x # w /\ d.carved[x] # None => d.carved[x] # q
    <3>1. CASE d.carved[w] = q /\ s.t.at[q] # None
      <4>1. s.t.at[q] \in {w, None}
        BY <1>2, <2>1, <3>1, NoneIsNot DEF Placed, InSlots
      <4>2. ASSUME NEW x \in Window, x # w, d.carved[x] = q PROVE FALSE
        <5>1. s.t.at[q] = None
          BY <1>2, <2>1, <4>1, <4>2, NoneIsNot DEF Placed, InSlots
        <5> QED
          BY <3>1, <5>1
      <4> QED
        BY <4>2
    <3>2. CASE d.carved[w] = None /\ Fresh(s, q)
      BY <3>2 DEF Fresh, Keeps, Has
    <3> QED
      BY <1>9, <3>1, <3>2
  <2>5. InSlots(t, c)
    <3>1. ASSUME NEW x \in Window, c[x] # None PROVE t.at[c[x]] \in {x, None}
      <4>1. CASE x = d.win
        BY <1>3, <2>2, <2>3, <4>1
      <4>2. CASE x # d.win
        <5>1. x # w /\ c[x] = d.carved[x] /\ c[x] # q
          BY <1>3, <2>4, <3>1, <4>2
        <5>2. c[x] \in Pane \ {d.pane, q}
          BY <1>2, <1>3, <3>1, <5>1, NoneIsNot DEF MaybeSpacers
        <5> QED
          BY <2>1, <2>2, <3>1, <5>1, <5>2 DEF Placed, InSlots
      <4> QED
        BY <4>1, <4>2
    <3> QED
      BY <3>1 DEF InSlots
  <2>6. Placed(t, e)
    BY <1>3, <1>6, <2>2, <2>5 DEF Placed
  <2>7. ASSUME NEW x \in Window, WholeAt(s.t, x) PROVE WholeAt(t, x)
    <3>1. CASE x \in {w, d.win}
      BY <1>2, <2>2, <2>3, <3>1 DEF WholeAt, In
    <3>2. CASE x \notin {w, d.win}
      BY <2>2, <2>3, <2>7, <3>2 DEF WholeAt
    <3> QED
      BY <3>1, <3>2
  <2>8. ASSUME NEW p \in Pane, t.at[p] \notin D \cup {None} PROVE p = e.pane \/ Has(e.carved, p)
    <3>1. CASE p = d.pane
      BY <1>6, <3>1
    <3>2. CASE p = q
      BY <1>2, <1>3, <1>6, <3>2 DEF Has
    <3>3. CASE p \notin {d.pane, q}
      <4>1. Keeps(s, p)
        BY <2>1, <2>2, <2>8, <3>3
      <4>2. Has(d.carved, p)
        BY <2>1, <3>3, <4>1, NobodyIs DEF Keeps
      <4>3. PICK x \in Window : d.carved[x] = p
        BY <4>2 DEF Has
      <4>4. x # w /\ x # d.win
        <5>1. d.carved[w] \in {q, None} /\ d.carved[d.win] = None
          BY <1>9, <2>1 DEF Placed
        <5> QED
          BY <3>3, <4>3, <5>1, NoneIsNot
      <4> QED
        BY <1>3, <1>6, <4>3, <4>4 DEF Has
    <3> QED
      BY <3>1, <3>2, <3>3
  <2>9. InSlots(t, Nobody)
    BY NobodyIs DEF InSlots
  <2> QED
    BY <1>7, <1>8, <2>1, <2>6, <2>7, <2>8, <2>9 DEF Sound, Whole, Keeps
<1> QED
  BY <1>4, <1>7, <1>8, <1>9 DEF Good, n

\* A move to a window without a spacer, which splits one off.
LEMMA FirstVisitGood ==
  ASSUME NEW D, NEW s, Good(s, D), s.dock # None, NEW w \in Window, w # s.dock.win,
         NEW tail \in BOOLEAN, NewSpacer \in Spacer,
         ~s.broke => s.dock.carved[w] = None /\ Fresh(s, NewSpacer)
  PROVE  Good(FirstVisit(s, w, tail), D) /\ FirstVisit(s, w, tail).dock # None
<1> DEFINE q == NewSpacer
           try == Attempt(s, w, None, tail)
           t == IF try.t.at[q] # None THEN Run(Kill(q), try.t).t ELSE try.t
           n == [s EXCEPT !.t = t, !.broke = s.broke \/ t # s.t]
<1>1. s \in State /\ q \in Pane
  BY NoneIsNot DEF Good
<1>2. try.t \in Tmux /\ (try.ok /\ s.t.at[q] = None => Moved(s.t, try.t, s.dock.pane, q, w))
  <2>1. None \in Spacer \cup {None}
    OBVIOUS
  <2> HIDE DEF q
  <2> QED
    BY <1>1, <2>1, AttemptIs DEF q
<1>3. FirstVisit(s, w, tail) = IF ~(Live(s.t, w) /\ Live(s.t, s.dock.win)) THEN s
                               ELSE IF try.ok THEN Landed(s, try.t, w, q) ELSE n
  BY DEF FirstVisit, Visited, Failed, Undone
<1> HIDE DEF try, q
<1>4. t \in Tmux
  <2>1. Kill(q) \in Seq(Cmd)
    BY <1>1, Lines
  <2> HIDE DEF Cmd
  <2>2. Run(Kill(q), try.t).t \in Tmux
    BY <1>2, <2>1, RunType
  <2> QED
    BY <1>2, <2>2
<1> HIDE DEF t
<1>5. CASE ~(Live(s.t, w) /\ Live(s.t, s.dock.win))
  BY <1>3, <1>5
<1>6. CASE Live(s.t, w) /\ Live(s.t, s.dock.win) /\ try.ok
  <2>1. q \in Spacer
    BY DEF q
  <2>2. ~s.broke => Moved(s.t, try.t, s.dock.pane, q, w) /\ s.dock.carved[w] = None /\ Fresh(s, q)
    BY <1>2, <1>6 DEF Fresh, q
  <2>3. Good(Landed(s, try.t, w, q), D) /\ Landed(s, try.t, w, q).dock # None
    BY <1>2, <2>1, <2>2, LandedGood
  <2> QED
    BY <1>3, <1>6, <2>3
<1>7. CASE Live(s.t, w) /\ Live(s.t, s.dock.win) /\ ~try.ok
  <2>1. /\ n \in State /\ n.t = t /\ n.dock = s.dock /\ n.closing = s.closing /\ n.queue = s.queue
        /\ n.armed = s.armed /\ (n.broke <=> s.broke \/ t # s.t)
    BY <1>1, <1>4 DEF State
  <2> HIDE DEF n
  <2>2. ASSUME ~n.broke PROVE Sound(n, D)
    <3>1. Sound(s, D) /\ t = s.t
      BY <2>1, <2>2 DEF Good
    <3> QED
      BY <2>1, <3>1 DEF Sound, Keeps
  <2> QED
    BY <1>3, <1>7, <2>1, <2>2 DEF Good
<1> QED
  BY <1>5, <1>6, <1>7

\* dockMove: also when the spacer it counted on is gone.
LEMMA MoveGood ==
  ASSUME NEW D, NEW s, Good(s, D), s.dock # None, NEW w \in Window,
         NEW tail \in BOOLEAN, NEW again \in BOOLEAN,
         NewSpacer \in Spacer, ~s.broke => Fresh(s, NewSpacer)
  PROVE  Good(Move(s, w, tail, again), D) /\ Move(s, w, tail, again).dock # None
<1> DEFINE q == s.dock.carved[w]
           try == Attempt(s, w, q, tail)
           n == [s EXCEPT !.t = try.t, !.dock.carved[w] = None,
                          !.broke = s.broke \/ s.t.at[q] # None]
           m == Move(s, w, tail, again)
           c == [s.dock.carved EXCEPT ![w] = None]
           e == [s.dock EXCEPT !.carved = c]
<1>1. s \in State /\ s.dock \in Docks /\ s.dock.carved \in MaybeSpacers /\ q \in Spacer \cup {None}
      /\ s.t \in Tmux
  BY DEF Good, State, Docks, MaybeSpacers
<1>2. m = IF w = s.dock.win \/ ~(Live(s.t, w) /\ Live(s.t, s.dock.win)) THEN s
          ELSE IF q = None THEN FirstVisit(s, w, tail)
          ELSE IF try.ok THEN Landed(s, try.t, w, q)
          ELSE FirstVisit(n, w, again)
  BY DEF Move, Revisited
<1>3. /\ try.t \in Tmux
      /\ try.ok /\ q # None /\ s.t.at[q] \in {w, None} => Moved(s.t, try.t, s.dock.pane, q, w)
      /\ q # None /\ s.t.at[q] = None => ~try.ok /\ try.t = s.t
  <2> HIDE DEF q
  <2> QED
    BY <1>1, AttemptIs DEF q
<1>4. ASSUME ~s.broke, q # None PROVE s.t.at[q] \in {w, None}
  BY <1>4 DEF Good, Sound, Placed, InSlots
<1> HIDE DEF m, try
<1>5. CASE w = s.dock.win \/ ~(Live(s.t, w) /\ Live(s.t, s.dock.win))
  BY <1>2, <1>5 DEF m
<1> DEFINE goes == w # s.dock.win /\ Live(s.t, w) /\ Live(s.t, s.dock.win)
<1>6. CASE goes /\ q = None
  <2>1. m = FirstVisit(s, w, tail)
    BY <1>2, <1>6
  <2>2. Good(FirstVisit(s, w, tail), D) /\ FirstVisit(s, w, tail).dock # None
    BY <1>6, FirstVisitGood
  <2> QED
    BY <2>1, <2>2 DEF m
<1>7. CASE goes /\ q # None /\ try.ok
  <2>1. m = Landed(s, try.t, w, q)
    BY <1>2, <1>7
  <2>2. q \in Spacer
    BY <1>1, <1>7
  <2>3. ~s.broke => Moved(s.t, try.t, s.dock.pane, q, w) /\ s.dock.carved[w] = q /\ s.t.at[q] # None
    BY <1>3, <1>4, <1>7
  <2> HIDE DEF q
  <2>4. Good(Landed(s, try.t, w, q), D) /\ Landed(s, try.t, w, q).dock # None
    BY <1>3, <1>7, <2>2, <2>3, LandedGood
  <2> QED
    BY <2>1, <2>4 DEF m
<1>8. CASE goes /\ q # None /\ ~try.ok
  <2>1. m = FirstVisit(n, w, again)
    BY <1>2, <1>8
  <2>2. /\ c \in MaybeSpacers /\ c[w] = None /\ \A x \in Window : x # w => c[x] = s.dock.carved[x]
    BY <1>1 DEF MaybeSpacers
  <2>3. e \in Docks /\ e.pane = s.dock.pane /\ e.win = s.dock.win /\ e.carved = c
    <3> HIDE DEF c
    <3> QED
      BY <1>1, <2>2 DEF Docks
  <2>4. n = [s EXCEPT !.t = try.t, !.dock = e, !.broke = s.broke \/ s.t.at[q] # None]
    BY <1>1 DEF State, Docks
  <2> HIDE DEF c, e, n
  <2>5. /\ n \in State /\ n.t = try.t /\ n.dock = e /\ n.closing = s.closing /\ n.queue = s.queue
        /\ n.armed = s.armed /\ (n.broke <=> s.broke \/ s.t.at[q] # None)
    <3> HIDE DEF q
    <3> QED
      BY <1>1, <1>3, <2>3, <2>4 DEF State
  <2>6. e # None
    BY <2>3, NoneIsNot
  <2>7. ASSUME ~n.broke PROVE Sound(n, D) /\ Fresh(n, NewSpacer)
    <3>1. Sound(s, D) /\ Fresh(s, NewSpacer) /\ s.t.at[q] = None /\ n.t = s.t
      BY <1>3, <1>8, <2>5, <2>7 DEF Good
    <3>2. s.closing = None /\ s.queue = Nobody /\ Placed(s.t, s.dock)
      BY <3>1 DEF Sound
    <3>3. Placed(s.t, e)
      <4>1. InSlots(s.t, c)
        BY <2>2, <3>2 DEF Placed, InSlots
      <4>2. s.dock.win \in Window
        BY <1>1 DEF Docks
      <4>3. c[s.dock.win] = None
        BY <2>2, <3>2, <4>2 DEF Placed
      <4> QED
        BY <2>3, <3>2, <4>1, <4>3 DEF Placed
    <3>4. \A p \in Pane : Has(c, p) => Has(s.dock.carved, p)
      BY <2>2, NoneIsNot DEF Has
    <3>5. \A p \in Pane : Has(s.dock.carved, p) => Has(c, p) \/ p = q
      BY <2>2 DEF Has
    <3>6. Fresh(n, NewSpacer)
      <4>1. NewSpacer \in Pane
        BY NoneIsNot
      <4> QED
        BY <2>3, <2>5, <2>6, <3>1, <3>4, <4>1 DEF Fresh, Keeps
    <3>7. ASSUME NEW p \in Pane, s.t.at[p] \notin D \cup {None} PROVE Keeps(n, p)
      <4>1. Keeps(s, p) /\ p # q
        BY <3>1, <3>7 DEF Sound
      <4> QED
        BY <2>3, <2>5, <2>6, <3>5, <4>1 DEF Keeps
    <3> HIDE DEF q
    <3> QED
      BY <2>5, <2>6, <3>1, <3>2, <3>3, <3>6, <3>7 DEF Sound
  <2>8. Good(n, D)
    BY <2>5, <2>7 DEF Good
  <2>9. n.dock # None /\ w # n.dock.win /\ n.dock.carved[w] = None
    BY <1>8, <2>2, <2>3, <2>5, <2>6
  <2>10. Good(FirstVisit(n, w, again), D) /\ FirstVisit(n, w, again).dock # None
    BY <2>7, <2>8, <2>9, FirstVisitGood
  <2> QED
    BY <2>1, <2>10 DEF m
<1> QED
  BY <1>5, <1>6, <1>7, <1>8 DEF m

-----------------------------------------------------------------------------
(* Closing a dock.                                                           *)

\* A dock on record, in full.
LEMMA DockIs ==
  ASSUME NEW s \in State, s.dock # None
  PROVE  /\ s.dock \in Docks /\ s.dock.pane \in Pane /\ s.dock.pane \in Sidebar
         /\ s.dock.win \in Window /\ s.dock.origin \in Window /\ s.dock.carved \in MaybeSpacers
         /\ s.dock.scrub \in BOOLEAN
  BY NoneIsNot DEF State, Docks

\* dockClose where the sidebar is, in one phase or in two.
LEMMA CloseHereGood ==
  ASSUME NEW D, NEW s, Good(s, D), s.dock # None, NEW agent \in BOOLEAN
  PROVE  Good(CloseHere(s, agent), D)
<1> DEFINE d == s.dock
           c == [pane |-> d.pane, win |-> d.win, carved |-> d.carved, owed |-> s.claims]
           n == [s EXCEPT !.dock = None, !.claims = {}, !.closing = c]
<1>1. s \in State
  BY DEF Good
<1>2. /\ d \in Docks /\ d.pane \in Pane /\ d.pane \in Sidebar /\ d.win \in Window
      /\ d.carved \in MaybeSpacers /\ s.claims \in SUBSET Window
  BY <1>1, DockIs DEF State
<1>3. CloseHere(s, agent) = IF agent THEN n ELSE Flush(n)
  BY DEF CloseHere
<1> HIDE DEF d
<1>4. c \in Closings /\ c.pane = d.pane /\ c.win = d.win /\ c.carved = d.carved
  BY <1>2 DEF Closings
<1> HIDE DEF c
<1>5. /\ n \in State /\ n.t = s.t /\ n.dock = None /\ n.closing = c /\ n.queue = s.queue
      /\ n.armed = s.armed /\ n.broke = s.broke
  BY <1>1, <1>4 DEF State
<1>6. c # None
  BY <1>4, NoneIsNot
<1> HIDE DEF n
<1>7. ASSUME ~n.broke PROVE Sound(n, D)
  <2>1. Sound(s, D) /\ s.queue = Nobody /\ Placed(s.t, d)
    BY <1>5, <1>7 DEF Good, Sound, d
  <2>2. Placed(s.t, c)
    BY <1>4, <2>1 DEF Placed
  <2>3. ASSUME NEW p \in Pane, s.t.at[p] \notin D \cup {None} PROVE Keeps(n, p)
    <3>1. Keeps(s, p) /\ s.closing = None
      BY <2>1, <2>3 DEF Sound
    <3> QED
      BY <1>4, <1>5, <1>6, <2>1, <3>1, NobodyIs DEF Keeps, d
  <2> QED
    BY <1>5, <1>6, <2>1, <2>2, <2>3 DEF Sound
<1>8. Good(n, D)
  BY <1>5, <1>7 DEF Good
<1>9. Good(Flush(n), D)
  BY <1>8, FlushGood
<1> QED
  BY <1>3, <1>8, <1>9

\* What is left when the dock d goes: its pane is dead, its spacers are all there is.
LEMMA LetGo ==
  ASSUME NEW D, NEW s, Good(s, D), s.dock # None,
         NEW u, NEW c \in MaybeSpacers, NEW n \in State,
         n.t = u, n.dock = None, n.closing = s.closing, n.queue = s.queue,
         ~n.broke => /\ ~s.broke /\ Fewer(s.t, u) /\ u.at[s.dock.pane] = None
                     /\ \A w \in Window : c[w] \in {s.dock.carved[w], None}
                     /\ \A w \in Window : s.dock.carved[w] # None /\ c[w] = None
                                            => u.at[s.dock.carved[w]] = None
  PROVE  Good(DeferReleases(n, c), D)
<1>1. s \in State /\ s.t \in Tmux
  BY DEF Good, State
<1>2. s.dock.pane \in Pane /\ s.dock.carved \in MaybeSpacers
  BY <1>1, DockIs
<1>3. ASSUME ~n.broke PROVE Left(n, c, D)
  <2>1. /\ Fewer(s.t, u) /\ u.at[s.dock.pane] = None
        /\ \A w \in Window : c[w] \in {s.dock.carved[w], None}
        /\ \A w \in Window : s.dock.carved[w] # None /\ c[w] = None => u.at[s.dock.carved[w]] = None
    BY <1>3
  <2>2. Sound(s, D)
    BY <1>3 DEF Good
  <2>3. s.closing = None /\ s.queue = Nobody /\ InSlots(s.t, s.dock.carved)
    BY <2>2 DEF Sound, Placed
  <2>4. InSlots(u, s.dock.carved) /\ Whole(u)
    BY <1>1, <1>2, <2>1, <2>2, <2>3, FewerKeeps DEF Sound
  <2>5. InSlots(u, c)
    BY <2>1, <2>4 DEF InSlots
  <2>6. ASSUME NEW p \in Pane, u.at[p] \notin D \cup {None} PROVE Has(c, p)
    <3>1. s.t.at[p] \notin D \cup {None} /\ p # s.dock.pane
      BY <1>1, <2>1, <2>6 DEF Fewer
    <3>2. Has(s.dock.carved, p)
      BY <2>2, <2>3, <3>1, NobodyIs DEF Sound, Keeps
    <3>3. PICK w \in Window : s.dock.carved[w] = p
      BY <3>2 DEF Has
    <3>4. c[w] = p
      BY <2>1, <2>6, <3>3, NoneIsNot
    <3> QED
      BY <3>4 DEF Has
  <2> QED
    BY <2>3, <2>4, <2>5, <2>6 DEF Left
<1> QED
  BY <1>3, DeferGood

\* dockAbandon, of a sidebar that is gone or goes with its window.
LEMMA AbandonGood ==
  ASSUME NEW D, NEW s, Good(s, D), s.dock # None, NEW u \in Tmux,
         ~s.broke => Fewer(s.t, u) /\ u.at[s.dock.pane] = None
  PROVE  Good([Abandon(s) EXCEPT !.t = u], D)
<1> DEFINE c == s.dock.carved
           m == [s EXCEPT !.dock = None, !.claims = {}]
           n == [m EXCEPT !.t = u]
           a == Abandon(s)
           b == DeferReleases(n, c)
<1>1. s \in State /\ c \in MaybeSpacers
  BY DockIs DEF Good
<1>2. m \in State /\ n \in State /\ n.t = u /\ n.dock = None /\ n.closing = s.closing
      /\ n.queue = s.queue /\ n.broke = s.broke /\ m.queue = s.queue /\ m.armed = s.armed
      /\ n.armed = s.armed /\ m.t = s.t
  BY <1>1 DEF State
<1>3. Good(b, D)
  <2>1. \A w \in Window : c[w] \in {s.dock.carved[w], None}
    OBVIOUS
  <2>2. \A w \in Window : ~(s.dock.carved[w] # None /\ c[w] = None)
    OBVIOUS
  <2> HIDE DEF n, c
  <2> QED
    BY <1>1, <1>2, <2>1, <2>2, LetGo
<1>4. [a EXCEPT !.t = u] = b
  <2> DEFINE q == [w \in Window |-> IF c[w] # None THEN c[w] ELSE s.queue[w]]
  <2>1. a = [m EXCEPT !.queue = q, !.armed = m.armed \/ q # Nobody]
    BY DEF Abandon, DeferReleases
  <2>2. b = [n EXCEPT !.queue = q, !.armed = n.armed \/ q # Nobody]
    BY DEF DeferReleases
  <2> HIDE DEF q, a, b, c
  <2> QED
    BY <1>1, <2>1, <2>2 DEF State
<1> QED
  BY <1>3, <1>4

\* Going back: options are restored, the spacer at the origin goes, and the client follows.
LEMMA LandIs ==
  ASSUME NEW t \in Tmux, NEW W \in SUBSET Window, NEW o \in Window, NEW q \in Spacer \cup {None}
  PROVE  LET line == Replay(W) \o (IF q # None THEN Kill(q) \o Layout(o) ELSE <<>>)
                       \o Select(o) \o Switch(o)
         IN  /\ Run(line, t).t \in Tmux
             /\ q = None => Fewer(t, Run(line, t).t)
             /\ q # None /\ ~Strands(t, W) /\ t.at[q] \in {o, None} =>
                  Fewer(t, Run(line, t).t) /\ Run(line, t).t.at[q] = None
<1> DEFINE Y == IF q # None THEN Kill(q) \o Layout(o) ELSE <<>>
           R == Replay(W)
           l == R \o Y
           l1 == l \o Select(o)
           l2 == l1 \o Switch(o)
           a == Run(l, t)
           y == Run(Y, t)
           r == Run(l2, t)
<1>1. R \in Seq(Cmd) /\ Select(o) \in Seq(Cmd) /\ Switch(o) \in Seq(Cmd)
  BY Lines
<1>2. Y \in Seq(Cmd)
  <2>1. CASE q = None
    BY <2>1, Lines
  <2>2. CASE q # None
    <3>1. q \in Pane
      BY <2>2, NoneIsNot
    <3>2. Kill(q) \in Seq(Cmd) /\ Layout(o) \in Seq(Cmd)
      BY <3>1, Lines
    <3> HIDE DEF Cmd
    <3>3. Kill(q) \o Layout(o) \in Seq(Cmd)
      BY <3>2, ConcatProperties
    <3> QED
      BY <2>2, <3>3
  <2> QED
    BY <2>1, <2>2
<1>3. Run(R, t).t = t /\ (Run(R, t).ok <=> ~Strands(t, W))
  BY RunOptions
<1>4. \A u \in Tmux : Alike(u, Run(Select(o), u).t) /\ Alike(u, Run(Switch(o), u).t)
  BY RunMoves
<1>5. y = Run(IF q # None THEN Kill(q) \o Layout(o) ELSE <<>>, t)
  OBVIOUS
<1> HIDE DEF Cmd, Y, R
<1>6. l \in Seq(Cmd) /\ a = IF Run(R, t).ok THEN Run(Y, Run(R, t).t) ELSE Run(R, t)
  BY <1>1, <1>2, RunConcat, ConcatProperties
<1> HIDE DEF l
<1>7. l1 \in Seq(Cmd) /\ Follows(Run(l1, t), Run(l, t))
  BY <1>1, <1>4, <1>6, ThenMoves, ConcatProperties
<1> HIDE DEF l1
<1>8. l2 \in Seq(Cmd) /\ Follows(r, Run(l1, t))
  BY <1>1, <1>4, <1>7, ThenMoves, ConcatProperties
<1> HIDE DEF l2
<1>9. Follows(r, a)
  <2> HIDE DEF r
  <2> QED
    BY <1>7, <1>8, FollowsThrough
<1>10. r.t \in Tmux /\ a.t \in Tmux
  BY <1>6, <1>8, RunType
<1> HIDE DEF a, r, y
<1>11. ASSUME Fewer(t, a.t) PROVE Fewer(t, r.t) /\ r.t.at = a.t.at
  <2>1. CASE a.ok
    BY <1>9, <1>11, <2>1, FewerAlike DEF Follows
  <2>2. CASE ~a.ok
    BY <1>9, <1>11, <2>2 DEF Follows
  <2> QED
    BY <2>1, <2>2
<1>12. ASSUME q = None PROVE Fewer(t, r.t)
  <2>1. y.t = t
    BY <1>5, <1>12, RunNone
  <2>2. a.t = t
    BY <1>3, <1>6, <2>1 DEF y
  <2> QED
    BY <1>11, <2>2, FewerSame
<1>13. ASSUME q # None, ~Strands(t, W), t.at[q] \in {o, None} PROVE Fewer(t, r.t) /\ r.t.at[q] = None
  <2>1. q \in Pane
    BY <1>13, NoneIsNot
  <2>2. a = y
    BY <1>3, <1>6, <1>13 DEF y
  <2>3. y = Run(Kill(q) \o Layout(o), t)
    BY <1>5, <1>13
  <2>4. a.t \in Tmux /\ a.t.at = [t.at EXCEPT ![q] = None] /\ Tidy(t, a.t)
    BY <1>13, <2>1, <2>2, <2>3, KillLayout
  <2>5. Fewer(t, a.t) /\ a.t.at[q] = None
    BY <2>1, <2>4, GoneFewer
  <2> QED
    BY <1>11, <2>5
<1> QED
  BY <1>10, <1>12, <1>13 DEF r, l2, l1, l, Y, R

\* dockClose back to the origin: the spacer there goes with the sidebar.
LEMMA CloseAwayGood ==
  ASSUME NEW D, NEW s, Good(s, D), s.dock # None
  PROVE  Good(CloseAway(s), D)
<1> DEFINE d == s.dock
           o == d.origin
           q == d.carved[o]
           land == Run(Replay(s.claims) \o (IF q # None THEN Kill(q) \o Layout(o) ELSE <<>>)
                         \o Select(o) \o Switch(o), s.t)
           back == {w \in Window : Live(land.t, w) /\ SessOf[w] = SessOf[o]}
           x == CHOOSE w \in back : TRUE
           t == IF land.ok \/ back = {} THEN land.t ELSE Run(Switch(x), land.t).t
           left == Run(Kill(d.pane) \o Layout(d.win), t).t
           c == [d.carved EXCEPT ![o] = None]
           n == [s EXCEPT !.t = left, !.dock = None, !.claims = {},
                          !.broke = s.broke \/ (q # None /\ Strands(s.t, s.claims))]
<1>1. s \in State /\ s.t \in Tmux /\ s.claims \in SUBSET Window
  BY DEF Good, State
<1>2. /\ d.pane \in Pane /\ d.pane \in Sidebar /\ d.win \in Window /\ o \in Window
      /\ d.carved \in MaybeSpacers
  BY <1>1, DockIs
<1>3. q \in Spacer \cup {None}
  BY <1>2 DEF MaybeSpacers
<1>4. CloseAway(s) = DeferReleases(n, c)
  BY DEF CloseAway
<1>5. /\ c \in MaybeSpacers /\ \A w \in Window : c[w] \in {d.carved[w], None}
      /\ \A w \in Window : d.carved[w] # None /\ c[w] = None => w = o
  BY <1>2 DEF MaybeSpacers
<1> HIDE DEF d, o, q, c
<1>6. /\ land.t \in Tmux
      /\ q = None => Fewer(s.t, land.t)
      /\ q # None /\ ~Strands(s.t, s.claims) /\ s.t.at[q] \in {o, None} =>
           Fewer(s.t, land.t) /\ land.t.at[q] = None
  BY <1>1, <1>2, <1>3, LandIs
<1>7. x \in Window \/ back = {}
  OBVIOUS
<1> HIDE DEF land, back, x
<1>8. Alike(land.t, t)
  <2>1. Alike(land.t, land.t)
    BY <1>6 DEF Alike
  <2>2. back # {} => Alike(land.t, Run(Switch(x), land.t).t)
    BY <1>6, <1>7, RunMoves
  <2> QED
    BY <2>1, <2>2
<1> HIDE DEF t
<1>9. left \in Tmux
  <2>1. Kill(d.pane) \in Seq(Cmd) /\ Layout(d.win) \in Seq(Cmd)
    BY <1>2, Lines
  <2> HIDE DEF Cmd
  <2>2. Kill(d.pane) \o Layout(d.win) \in Seq(Cmd)
    BY <2>1, ConcatProperties
  <2> QED
    BY <1>8, <2>2, RunType DEF Alike
<1> HIDE DEF left
<1>10. /\ n \in State /\ n.t = left /\ n.dock = None /\ n.closing = s.closing /\ n.queue = s.queue
       /\ (n.broke <=> s.broke \/ (q # None /\ Strands(s.t, s.claims)))
  BY <1>1, <1>9 DEF State
<1> HIDE DEF n
<1>11. ASSUME ~n.broke
       PROVE  /\ ~s.broke /\ Fewer(s.t, left) /\ left.at[d.pane] = None
              /\ q # None => left.at[q] = None
  <2>1. Sound(s, D) /\ ~s.broke /\ ~(q # None /\ Strands(s.t, s.claims))
    BY <1>10, <1>11 DEF Good
  <2>2. Placed(s.t, d)
    BY <2>1 DEF Sound, d
  <2>3. s.t.at[d.pane] \in {d.win, None} /\ (q # None => s.t.at[q] \in {o, None})
    BY <1>2, <2>2 DEF Placed, InSlots, q
  <2>4. Fewer(s.t, land.t) /\ (q # None => land.t.at[q] = None)
    BY <1>6, <2>1, <2>3
  <2>5. Fewer(s.t, t) /\ t.at = land.t.at
    BY <1>1, <1>8, <2>4, FewerAlike
  <2>6. t \in Tmux /\ t.at[d.pane] \in {d.win, None}
    BY <1>2, <2>3, <2>5 DEF Fewer
  <2>7. left \in Tmux /\ left.at = [t.at EXCEPT ![d.pane] = None] /\ Tidy(t, left)
    BY <1>2, <2>6, KillLayout DEF left
  <2>8. Fewer(t, left) /\ left.at[d.pane] = None
    BY <1>2, <2>6, <2>7, GoneFewer
  <2>9. Fewer(s.t, left)
    BY <1>1, <2>5, <2>8, FewerTwice
  <2>10. ASSUME q # None PROVE left.at[q] = None
    <3>1. q \in Pane
      BY <1>3, <2>10, NoneIsNot
    <3> QED
      BY <2>4, <2>5, <2>8, <2>10, <3>1 DEF Fewer
  <2> QED
    BY <2>1, <2>8, <2>9, <2>10
<1>12. ~n.broke => /\ ~s.broke /\ Fewer(s.t, left) /\ left.at[s.dock.pane] = None
                   /\ \A w \in Window : c[w] \in {s.dock.carved[w], None}
                   /\ \A w \in Window : s.dock.carved[w] # None /\ c[w] = None
                                          => left.at[s.dock.carved[w]] = None
  BY <1>5, <1>11 DEF d, q
<1>13. Good(DeferReleases(n, c), D)
  BY <1>5, <1>10, <1>12, LetGo
<1> QED
  BY <1>4, <1>13

\* dockClose, all of it.
LEMMA CloseGood ==
  ASSUME NEW D, NEW s, Good(s, D), s.dock # None, NEW toOrigin \in BOOLEAN, NEW agent \in BOOLEAN
  PROVE  Good(Close(s, toOrigin, agent), D)
  BY CloseHereGood, CloseAwayGood DEF Close

-----------------------------------------------------------------------------
(* The re-list and the preview.                                              *)

\* A client that moves disturbs nothing that the daemon relies on.
LEMMA ClientMoves ==
  ASSUME NEW D, NEW s, Good(s, D), NEW u, Alike(s.t, u)
  PROVE  Good([s EXCEPT !.t = u], D)
<1> DEFINE n == [s EXCEPT !.t = u]
<1>1. s \in State /\ u \in Tmux
  BY DEF Good, Alike
<1>2. /\ n \in State /\ n.t = u /\ n.dock = s.dock /\ n.closing = s.closing /\ n.queue = s.queue
      /\ n.armed = s.armed /\ n.broke = s.broke
  BY <1>1 DEF State
<1> HIDE DEF n
<1>3. ASSUME ~s.broke PROVE Sound(n, D)
  <2>1. Sound(s, D) /\ u.at = s.t.at
    BY <1>3 DEF Good, Alike
  <2>2. Whole(u)
    BY <2>1, AlikeTidy DEF Sound, Whole, Tidy
  <2> QED
    BY <1>2, <2>1, <2>2 DEF Sound, Placed, InSlots, Keeps
<1> QED
  BY <1>2, <1>3 DEF Good, n

\* Nor does a change of the dock that leaves its panes alone.
LEMMA DockMarked ==
  ASSUME NEW D, NEW s, Good(s, D), s.dock # None, NEW e \in Docks,
         e.pane = s.dock.pane, e.win = s.dock.win, e.carved = s.dock.carved
  PROVE  /\ Good([s EXCEPT !.dock = e], D) /\ [s EXCEPT !.dock = e].dock # None
         /\ [s EXCEPT !.dock = e].t = s.t /\ [s EXCEPT !.dock = e].broke = s.broke
         /\ \A p : Fresh(s, p) => Fresh([s EXCEPT !.dock = e], p)
<1> DEFINE n == [s EXCEPT !.dock = e]
<1>1. s \in State
  BY DEF Good
<1>2. /\ n \in State /\ n.t = s.t /\ n.dock = e /\ n.closing = s.closing /\ n.queue = s.queue
      /\ n.armed = s.armed /\ n.broke = s.broke
  BY <1>1 DEF State
<1>3. e # None
  BY NoneIsNot
<1> HIDE DEF n
<1>4. \A p : Keeps(n, p) <=> Keeps(s, p)
  BY <1>2, <1>3 DEF Keeps
<1>5. ASSUME ~s.broke PROVE Sound(n, D)
  BY <1>2, <1>3, <1>4, <1>5 DEF Good, Sound, Placed
<1> QED
  BY <1>2, <1>3, <1>4, <1>5 DEF Good, Fresh, n

\* reapEmptyCarves drops what is dead, and closes what nobody else holds open.
LEMMA ReapGood ==
  ASSUME NEW D, NEW s, Good(s, D), s.dock # None
  PROVE  /\ Good(Reap(s), D) /\ Reap(s).dock # None /\ Reap(s).broke = s.broke
         /\ \A p \in Pane : Fresh(s, p) => Fresh(Reap(s), p)
<1> DEFINE d == s.dock
           lone == {w \in Holding(d.carved) : s.t.at[d.carved[w]] = w
                                         /\ w \notin s.t.real /\ Cardinality(In(s.t, w)) = 1}
           stale == {w \in Holding(d.carved) : s.t.at[d.carved[w]] # w}
           keep == [w \in Window |-> IF w \in lone \cup stale THEN None ELSE d.carved[w]]
           at == [p \in Pane |-> IF s.t.at[p] \in lone THEN None ELSE s.t.at[p]]
           u == [s.t EXCEPT !.at = at]
           t == Settle(u)
           owned == s.claims \ lone
           held == Holding(keep) \cup {d.win}
           owns == IF stale # {} /\ Run(Mark(held \ owned) \o Replay(owned \ held), t).ok
                   THEN held ELSE owned
           e == [d EXCEPT !.carved = keep]
           n == [s EXCEPT !.t = t, !.dock = e, !.claims = owns]
<1>1. s \in State /\ s.t \in Tmux /\ s.claims \in SUBSET Window
  BY DEF Good, State
<1>2. /\ d \in Docks /\ d.pane \in Pane /\ d.pane \in Sidebar /\ d.win \in Window
      /\ d.carved \in MaybeSpacers
  BY <1>1, DockIs
<1>3. Reap(s) = n
  BY <1>1, <1>2 DEF Reap, State, Docks
<1>4. /\ \A w \in lone : w \in Window /\ w \notin s.t.real
      /\ \A w \in stale : w \in Window /\ d.carved[w] # None /\ s.t.at[d.carved[w]] # w
  BY DEF Holding
<1>5. owns \in SUBSET Window
  <2>1. held \in SUBSET Window
    BY <1>2 DEF Holding
  <2>2. owned \in SUBSET Window
    BY <1>1
  <2> HIDE DEF held, owned
  <2> QED
    BY <2>1, <2>2
<1> HIDE DEF d, lone, stale, owns
<1>6. /\ keep \in MaybeSpacers /\ \A w \in Window : keep[w] \in {d.carved[w], None}
      /\ \A w \in Window \ (lone \cup stale) : keep[w] = d.carved[w]
  BY <1>2 DEF MaybeSpacers
<1>7. /\ at \in [Pane -> Window \cup {None}]
      /\ \A p \in Pane : at[p] = IF s.t.at[p] \in lone THEN None ELSE s.t.at[p]
  BY <1>1 DEF Tmux
<1> HIDE DEF keep, at
<1>8. u \in Tmux /\ u.at = at /\ u.real = s.t.real /\ u.shape = s.t.shape
  BY <1>1, <1>7 DEF Tmux
<1> HIDE DEF u
<1>9. Alike(u, t)
  BY <1>8, SettleAlike
<1> HIDE DEF t
<1>10. Fewer(s.t, t) /\ t.at = at
  <2>1. ASSUME NEW x \in Window, WholeAt(s.t, x) PROVE WholeAt(u, x)
    <3>1. CASE x \in lone
      BY <1>4, <1>8, <3>1 DEF WholeAt
    <3>2. CASE x \notin lone
      <4>1. In(u, x) = In(s.t, x)
        BY <1>7, <1>8, <3>2, NoneIsNot DEF In
      <4> QED
        BY <1>8, <2>1, <4>1 DEF WholeAt
    <3> QED
      BY <3>1, <3>2
  <2>2. Fewer(s.t, u)
    BY <1>7, <1>8, <2>1 DEF Fewer, Tidy
  <2> QED
    BY <1>1, <1>8, <1>9, <2>2, FewerAlike
<1>11. e \in Docks /\ e.pane = d.pane /\ e.win = d.win /\ e.carved = keep
  BY <1>2, <1>6 DEF Docks
<1>12. e # None
  BY <1>11, NoneIsNot
<1> HIDE DEF e
<1>13. /\ n \in State /\ n.t = t /\ n.dock = e /\ n.closing = s.closing /\ n.queue = s.queue
       /\ n.armed = s.armed /\ n.broke = s.broke
  BY <1>1, <1>5, <1>10, <1>11 DEF State, Fewer
<1> HIDE DEF n
<1>14. ASSUME ~s.broke PROVE Sound(n, D)
  <2>1. Sound(s, D) /\ s.closing = None /\ s.queue = Nobody /\ Placed(s.t, d)
    BY <1>14 DEF Good, Sound, d
  <2>2. InSlots(t, d.carved) /\ Whole(t)
    BY <1>1, <1>2, <1>10, <2>1, FewerKeeps DEF Sound, Placed
  <2>3. t.at[d.pane] \in {d.win, None}
    BY <1>2, <1>10, <2>1 DEF Fewer, Placed
  <2>4. Placed(t, e)
    BY <1>2, <1>6, <1>11, <2>1, <2>2, <2>3 DEF Placed, InSlots
  <2>5. ASSUME NEW p \in Pane, t.at[p] \notin D \cup {None} PROVE p = e.pane \/ Has(e.carved, p)
    <3>1. s.t.at[p] \notin D \cup {None} /\ s.t.at[p] \notin lone
      BY <1>7, <1>10, <2>5
    <3>2. CASE p = d.pane
      BY <1>11, <3>2
    <3>3. CASE p # d.pane
      <4>1. Has(d.carved, p)
        BY <2>1, <3>1, <3>3, NobodyIs DEF Sound, Keeps, d
      <4>2. PICK x \in Window : d.carved[x] = p
        BY <4>1 DEF Has
      <4>3. s.t.at[p] = x
        BY <2>1, <3>1, <4>2, NoneIsNot DEF Placed, InSlots
      <4>4. x \notin lone \cup stale
        BY <1>4, <3>1, <4>2, <4>3
      <4> QED
        BY <1>6, <1>11, <4>2, <4>4 DEF Has
    <3> QED
      BY <3>2, <3>3
  <2>6. InSlots(t, Nobody)
    BY NobodyIs DEF InSlots
  <2> QED
    BY <1>12, <1>13, <2>1, <2>2, <2>4, <2>5, <2>6 DEF Sound, Keeps
<1>15. ASSUME NEW p \in Pane, Fresh(s, p) PROVE Fresh(n, p)
  <2>1. t.at[p] = None
    BY <1>10, <1>15 DEF Fresh, Fewer
  <2>2. Has(keep, p) => Has(d.carved, p)
    BY <1>6, NoneIsNot DEF Has
  <2> QED
    BY <1>11, <1>12, <1>13, <1>15, <2>1, <2>2 DEF Fresh, Keeps, d
<1> QED
  BY <1>3, <1>12, <1>13, <1>14, <1>15 DEF Good

\* The carve of a preview registers the spacer that it splits off.
LEMMA CarveGood ==
  ASSUME NEW D, NEW s, Good(s, D), s.dock # None, NEW w \in Window, w # s.dock.win,
         NewSpacer \in Spacer, ~s.broke => Fresh(s, NewSpacer)
  PROVE  Good(Carve(s, w), D) /\ Carve(s, w).dock # None
<1> DEFINE d == s.dock
           q == NewSpacer
           held == Holding(d.carved) \cup {d.win, w}
           done == Run(Mark(held \ s.claims) \o Split(w, q), s.t)
           c == [d.carved EXCEPT ![w] = q]
           e == [d EXCEPT !.carved = c]
           n == [s EXCEPT !.t = done.t, !.claims = held, !.dock = e]
<1>1. s \in State /\ s.t \in Tmux
  BY DEF Good, State
<1>2. /\ d \in Docks /\ d.pane \in Pane /\ d.pane \in Sidebar /\ d.win \in Window
      /\ d.carved \in MaybeSpacers /\ q \in Pane /\ q \in Spacer /\ d.pane # q
  BY <1>1, DockIs, NoneIsNot
<1>3. Carve(s, w) = IF d.carved[w] # None THEN s ELSE IF done.ok THEN n ELSE s
  BY <1>1, <1>2 DEF Carve, State, Docks
<1>4. held \in SUBSET Window
  BY <1>2 DEF Holding
<1> HIDE DEF d, held
<1>5. Splits(done, s.t, w, q)
  <2>1. held \ s.claims \in SUBSET Window
    BY <1>4
  <2> HIDE DEF q
  <2> QED
    BY <1>1, <1>2, <2>1, MarkSplit
<1> HIDE DEF done, q
<1>6. /\ c \in MaybeSpacers /\ c[w] = q /\ \A x \in Window : x # w => c[x] = d.carved[x]
  BY <1>2 DEF MaybeSpacers
<1> HIDE DEF c
<1>7. e \in Docks /\ e.pane = d.pane /\ e.win = d.win /\ e.carved = c
  BY <1>2, <1>6 DEF Docks
<1>8. e # None /\ done.t \in Tmux
  BY <1>5, <1>7, NoneIsNot DEF Splits
<1> HIDE DEF e
<1>9. /\ n \in State /\ n.t = done.t /\ n.dock = e /\ n.closing = s.closing /\ n.queue = s.queue
      /\ n.armed = s.armed /\ n.broke = s.broke
  BY <1>1, <1>4, <1>7, <1>8 DEF State
<1> HIDE DEF n
<1>10. ASSUME done.ok, d.carved[w] = None, ~s.broke PROVE Sound(n, D)
  <2>1. Sound(s, D) /\ s.closing = None /\ s.queue = Nobody /\ Placed(s.t, d) /\ Fresh(s, q)
    BY <1>10 DEF Good, Sound, d, q
  <2>2. /\ done.t.at[q] = w /\ Whole(done.t)
        /\ \A p \in Pane : p # q => done.t.at[p] = s.t.at[p]
    BY <1>1, <1>2, <1>5, <1>10, <2>1, SplitKeeps DEF Sound, Fresh
  <2>3. \A x \in Window : d.carved[x] # q
    BY <2>1 DEF Fresh, Keeps, Has, d
  <2>4. ASSUME NEW x \in Window, c[x] # None PROVE done.t.at[c[x]] \in {x, None}
    <3>1. CASE x = w
      BY <1>6, <2>2, <3>1
    <3>2. CASE x # w
      <4>1. c[x] = d.carved[x] /\ d.carved[x] \in Pane
        BY <1>2, <1>6, <2>4, <3>2, NoneIsNot DEF MaybeSpacers
      <4> QED
        BY <2>1, <2>2, <2>3, <2>4, <4>1 DEF Placed, InSlots
    <3> QED
      BY <3>1, <3>2
  <2>5. c[d.win] = None
    BY <1>2, <1>6, <2>1 DEF Placed, d
  <2>6. Placed(done.t, e)
    BY <1>2, <1>7, <2>1, <2>2, <2>4, <2>5 DEF Placed, InSlots
  <2>7. ASSUME NEW p \in Pane, done.t.at[p] \notin D \cup {None} PROVE p = e.pane \/ Has(e.carved, p)
    <3>1. CASE p = q
      BY <1>6, <1>7, <3>1 DEF Has
    <3>2. CASE p # q
      <4>1. p = d.pane \/ Has(d.carved, p)
        BY <2>1, <2>2, <2>7, <3>2, NobodyIs DEF Sound, Keeps, d
      <4>2. Has(d.carved, p) => Has(c, p)
        BY <1>6, <1>10, NoneIsNot DEF Has
      <4> QED
        BY <1>7, <4>1, <4>2
    <3> QED
      BY <3>1, <3>2
  <2>8. InSlots(done.t, Nobody)
    BY NobodyIs DEF InSlots
  <2> QED
    BY <1>8, <1>9, <2>1, <2>2, <2>6, <2>7, <2>8 DEF Sound, Keeps
<1>11. CASE d.carved[w] = None /\ done.ok
  BY <1>3, <1>8, <1>9, <1>10, <1>11 DEF Good
<1>12. CASE d.carved[w] # None \/ ~done.ok
  BY <1>3, <1>12
<1> QED
  BY <1>11, <1>12

\* The dock that the zoom no longer covers, or that has another origin.
LEMMA MarkIs ==
  ASSUME NEW D, NEW s, Good(s, D), s.dock # None, NEW b \in BOOLEAN, NEW o \in Window
  PROVE  /\ Good([s EXCEPT !.dock.scrub = b], D) /\ [s EXCEPT !.dock.scrub = b].dock # None
         /\ [s EXCEPT !.dock.scrub = b].broke = s.broke
         /\ \A p : Fresh(s, p) => Fresh([s EXCEPT !.dock.scrub = b], p)
         /\ Good([s EXCEPT !.dock.origin = o], D) /\ [s EXCEPT !.dock.origin = o].dock # None
         /\ Good([s EXCEPT !.dock.scrub = b, !.dock.origin = o], D)
<1> DEFINE e1 == [s.dock EXCEPT !.scrub = b]
           e2 == [s.dock EXCEPT !.origin = o]
           e3 == [s.dock EXCEPT !.scrub = b, !.origin = o]
<1>1. s \in State /\ s.dock \in Docks
  BY DockIs DEF Good
<1>2. /\ e1 \in Docks /\ e1.pane = s.dock.pane /\ e1.win = s.dock.win /\ e1.carved = s.dock.carved
      /\ e2 \in Docks /\ e2.pane = s.dock.pane /\ e2.win = s.dock.win /\ e2.carved = s.dock.carved
      /\ e3 \in Docks /\ e3.pane = s.dock.pane /\ e3.win = s.dock.win /\ e3.carved = s.dock.carved
  BY <1>1 DEF Docks
<1>3. /\ [s EXCEPT !.dock.scrub = b] = [s EXCEPT !.dock = e1]
      /\ [s EXCEPT !.dock.origin = o] = [s EXCEPT !.dock = e2]
      /\ [s EXCEPT !.dock.scrub = b, !.dock.origin = o] = [s EXCEPT !.dock = e3]
  BY <1>1 DEF State, Docks
<1> HIDE DEF e1, e2, e3
<1>4. /\ Good([s EXCEPT !.dock = e1], D) /\ [s EXCEPT !.dock = e1].dock # None
      /\ [s EXCEPT !.dock = e1].broke = s.broke
      /\ \A p : Fresh(s, p) => Fresh([s EXCEPT !.dock = e1], p)
  BY <1>2, DockMarked
<1>5. Good([s EXCEPT !.dock = e2], D) /\ [s EXCEPT !.dock = e2].dock # None
  BY <1>2, DockMarked
<1>6. Good([s EXCEPT !.dock = e3], D)
  BY <1>2, DockMarked
<1> QED
  BY <1>3, <1>4, <1>5, <1>6

\* checkDock: whatever it finds.
LEMMA CheckDockGood ==
  ASSUME NEW D, NEW s, Good(s, D), s.dock # None, NEW tail \in BOOLEAN, NEW again \in BOOLEAN,
         NEW agent \in BOOLEAN, NEW unzoomed \in BOOLEAN,
         NewSpacer \in Spacer, ~s.broke => Fresh(s, NewSpacer)
  PROVE  Good(CheckDock(s, tail, again, agent, unzoomed), D)
<1> DEFINE d == s.dock
           reaped == IF d.scrub THEN s ELSE Reap(s)
           z == [reaped EXCEPT !.dock.scrub = FALSE]
           r == IF unzoomed THEN z ELSE reaped
           alone == s.t.at[d.pane] = d.win /\ d.win \notin s.t.real /\ In(s.t, d.win) = {d.pane}
           u == Run(Kill(d.pane), s.t).t
           w == s.t.cur
           n == CheckDock(s, tail, again, agent, unzoomed)
<1>1. s \in State /\ s.t \in Tmux /\ d.pane \in Pane /\ d.win \in Window /\ NewSpacer \in Pane
  BY DockIs, NoneIsNot DEF Good, State
<1>2. n = IF s.t.at[d.pane] = None THEN Abandon(s)
          ELSE IF s.t.cur = None THEN Close(s, FALSE, agent)
          ELSE IF ~d.scrub /\ alone THEN [Abandon(s) EXCEPT !.t = u]
          ELSE IF s.t.cur # d.win THEN Move(r, w, tail, again)
          ELSE r
  BY DEF CheckDock
<1>3. /\ Good(reaped, D) /\ reaped.dock # None /\ reaped.broke = s.broke
      /\ Fresh(s, NewSpacer) => Fresh(reaped, NewSpacer)
  <2>1. /\ Good(Reap(s), D) /\ Reap(s).dock # None /\ Reap(s).broke = s.broke
        /\ \A p \in Pane : Fresh(s, p) => Fresh(Reap(s), p)
    BY ReapGood
  <2> QED
    BY <1>1, <2>1
<1> HIDE DEF reaped
<1>4. /\ Good(z, D) /\ z.dock # None /\ z.broke = reaped.broke
      /\ \A p : Fresh(reaped, p) => Fresh(z, p)
  <2>1. d.win \in Window
    BY <1>1
  <2> HIDE DEF d
  <2> QED
    BY <1>3, <2>1, MarkIs
<1> HIDE DEF z
<1>5. Good(r, D) /\ r.dock # None /\ (~r.broke => Fresh(r, NewSpacer))
  BY <1>3, <1>4
<1> HIDE DEF r, n
<1>6. CASE s.t.at[d.pane] = None
  <2>1. Abandon(s) = [Abandon(s) EXCEPT !.t = s.t]
    <3> DEFINE m == [s EXCEPT !.dock = None, !.claims = {}]
    <3>1. m \in State /\ m.t = s.t
      BY <1>1 DEF State
    <3>2. d.carved \in MaybeSpacers
      BY <1>1, DockIs
    <3>3. Abandon(s) = DeferReleases(m, d.carved)
      BY DEF Abandon
    <3> HIDE DEF m, d
    <3>4. Abandon(s) \in State /\ Abandon(s).t = s.t
      BY <3>1, <3>2, <3>3, DeferIs
    <3> QED
      BY <3>4 DEF State
  <2>2. Good([Abandon(s) EXCEPT !.t = s.t], D)
    BY <1>1, <1>6, FewerSame, AbandonGood
  <2> QED
    BY <1>2, <1>6, <2>1, <2>2 DEF n
<1>7. CASE s.t.at[d.pane] # None /\ s.t.cur = None
  BY <1>2, <1>7, CloseGood DEF n
<1>8. CASE s.t.at[d.pane] # None /\ s.t.cur # None /\ ~d.scrub /\ alone
  <2>1. u \in Tmux /\ u.at = [s.t.at EXCEPT ![d.pane] = None] /\ u.real = s.t.real
        /\ u.shape = [s.t.shape EXCEPT ![s.t.at[d.pane]] = "torn"]
    BY <1>1, <1>8, RunKill
  <2>2. s.t.at \in [Pane -> Window \cup {None}] /\ s.t.shape \in [Window -> {"own", "docked", "torn"}]
    BY <1>1 DEF Tmux
  <2> HIDE DEF u
  <2>3. ASSUME NEW x \in Window, WholeAt(s.t, x) PROVE WholeAt(u, x)
    <3>1. CASE x = d.win
      BY <1>8, <2>1, <3>1 DEF WholeAt
    <3>2. CASE x # d.win
      <4>1. In(u, x) = In(s.t, x) /\ u.shape[x] = s.t.shape[x]
        BY <1>1, <1>8, <2>1, <2>2, <3>2, NoneIsNot DEF In
      <4> QED
        BY <2>1, <2>3, <4>1 DEF WholeAt
    <3> QED
      BY <3>1, <3>2
  <2>4. Fewer(s.t, u) /\ u.at[d.pane] = None
    <3> DEFINE p == d.pane
               t == s.t
    <3>1. Tidy(t, u)
      BY <2>1, <2>3 DEF Tidy
    <3>2. t \in Tmux /\ p \in Pane /\ u \in Tmux /\ u.at = [t.at EXCEPT ![p] = None]
      BY <1>1, <2>1
    <3> HIDE DEF p, t
    <3>3. Fewer(t, u) /\ u.at[p] = None
      BY <3>1, <3>2, GoneFewer
    <3> QED
      BY <3>3 DEF p, t
  <2>5. Good([Abandon(s) EXCEPT !.t = u], D)
    BY <2>1, <2>4, AbandonGood
  <2> QED
    BY <1>2, <1>8, <2>5 DEF n
<1>9. CASE s.t.at[d.pane] # None /\ s.t.cur # None /\ ~(~d.scrub /\ alone) /\ s.t.cur # d.win
  <2>1. w \in Window
    BY <1>1, <1>9 DEF Tmux
  <2>2. n = Move(r, w, tail, again)
    BY <1>2, <1>9
  <2> HIDE DEF w
  <2>3. Good(Move(r, w, tail, again), D)
    BY <1>5, <2>1, MoveGood
  <2> QED
    BY <2>2, <2>3 DEF n
<1>10. CASE s.t.at[d.pane] # None /\ s.t.cur # None /\ ~(~d.scrub /\ alone) /\ s.t.cur = d.win
  <2>1. n = r
    BY <1>2, <1>10
  <2> QED
    BY <1>5, <2>1 DEF n
<1> HIDE DEF alone
<1> QED
  BY <1>6, <1>7, <1>8, <1>9, <1>10

-----------------------------------------------------------------------------
(* Killing.                                                                  *)

\* What the daemon forgets before a kill is in the windows that die.
LEMMA DisarmedGood ==
  ASSUME NEW s, Good(s, {}), NEW doomed \in SUBSET Window, NEW ends \in BOOLEAN,
         NEW forget \in BOOLEAN, NEW D, forget => D = doomed, ~forget => D = {}
  PROVE  /\ Good(Disarmed(s, doomed, ends, forget), D)
         /\ Disarmed(s, doomed, ends, forget).broke = s.broke
         /\ \A p \in Pane : Fresh(s, p) => Fresh(Disarmed(s, doomed, ends, forget), p)
<1> DEFINE d == s.dock
           c == [w \in Window |-> IF forget /\ w \in doomed THEN None ELSE d.carved[w]]
           owns == IF forget THEN s.claims \ (doomed \cap Holding(d.carved)) ELSE s.claims
           b == d.scrub /\ ~ends /\ d.win \notin doomed
           e == [d EXCEPT !.scrub = b, !.carved = c]
           n == [s EXCEPT !.dock = e, !.claims = owns]
<1>1. s \in State /\ s.t \in Tmux
  BY DEF Good, State
<1>2. ASSUME NEW p \in Pane, s.t.at[p] \notin D \cup {None}
      PROVE  s.t.at[p] \notin {} \cup {None} /\ (forget => s.t.at[p] \notin doomed)
  BY <1>2
<1>3. CASE s.dock = None
  <2>1. Disarmed(s, doomed, ends, forget) = s
    BY <1>3 DEF Disarmed
  <2>2. ~s.broke => Sound(s, D)
    BY <1>2 DEF Good, Sound
  <2> QED
    BY <1>1, <2>1, <2>2 DEF Good
<1>4. CASE s.dock # None
  <2>1. /\ d \in Docks /\ d.pane \in Pane /\ d.win \in Window /\ d.carved \in MaybeSpacers
        /\ s.claims \in SUBSET Window
    BY <1>1, <1>4, DockIs DEF State
  <2>2. Disarmed(s, doomed, ends, forget) = n
    BY <1>1, <1>4, <2>1 DEF Disarmed, State, Docks
  <2>3. owns \in SUBSET Window /\ b \in BOOLEAN
    BY <2>1
  <2>4. /\ c \in MaybeSpacers /\ \A w \in Window : c[w] \in {d.carved[w], None}
        /\ \A w \in Window : ~(forget /\ w \in doomed) => c[w] = d.carved[w]
    BY <2>1 DEF MaybeSpacers
  <2> HIDE DEF c, owns, b, d
  <2>5. e \in Docks /\ e.pane = d.pane /\ e.win = d.win /\ e.carved = c
    BY <2>1, <2>3, <2>4 DEF Docks
  <2>6. e # None
    BY <2>5, NoneIsNot
  <2> HIDE DEF e
  <2>7. /\ n \in State /\ n.t = s.t /\ n.dock = e /\ n.closing = s.closing /\ n.queue = s.queue
        /\ n.armed = s.armed /\ n.broke = s.broke
    BY <1>1, <2>3, <2>5 DEF State
  <2> HIDE DEF n
  <2>8. ASSUME ~s.broke PROVE Sound(n, D)
    <3>1. Sound(s, {}) /\ s.closing = None /\ s.queue = Nobody /\ Placed(s.t, d)
      BY <1>4, <2>8 DEF Good, Sound, d
    <3>2. Placed(s.t, e)
      BY <2>1, <2>4, <2>5, <3>1 DEF Placed, InSlots
    <3>3. ASSUME NEW p \in Pane, s.t.at[p] \notin D \cup {None} PROVE p = e.pane \/ Has(e.carved, p)
      <4>1. p = d.pane \/ Has(d.carved, p)
        BY <1>2, <3>1, <3>3, NobodyIs DEF Sound, Keeps, d
      <4>2. CASE Has(d.carved, p)
        <5>1. PICK x \in Window : d.carved[x] = p
          BY <4>2 DEF Has
        <5>2. s.t.at[p] = x
          BY <3>1, <3>3, <5>1, NoneIsNot DEF Placed, InSlots
        <5> QED
          BY <1>2, <2>4, <2>5, <3>3, <5>1, <5>2 DEF Has
      <4> QED
        BY <2>5, <4>1, <4>2
    <3> QED
      BY <2>6, <2>7, <3>1, <3>2, <3>3 DEF Sound, Keeps
  <2>9. ASSUME NEW p \in Pane, Fresh(s, p) PROVE Fresh(n, p)
    <3>1. Has(c, p) => Has(d.carved, p)
      BY <2>4, NoneIsNot DEF Has
    <3> QED
      BY <2>5, <2>6, <2>7, <2>9, <3>1, <1>4 DEF Fresh, Keeps, d
  <2> QED
    BY <2>2, <2>7, <2>8, <2>9 DEF Good
<1> QED
  BY <1>3, <1>4

\* Where windows have what they had, the same ones are there.
LEMMA LiveAlike ==
  ASSUME NEW t, NEW u, u.at = t.at, u.real = t.real
  PROVE  \A x : Live(u, x) <=> Live(t, x)
  BY DEF Live, In

\* select-window takes a client of the session along, switch-client any.
LEMMA ClientGoes ==
  ASSUME NEW t \in Tmux, NEW w \in Window
  PROVE  LET a == Run(Select(w), t)
             b == Run(Switch(w), t)
         IN  /\ Alike(t, a.t) /\ (a.ok <=> Live(t, w))
             /\ a.t.cur = IF Live(t, w) /\ t.cur # None /\ SessOf[t.cur] = SessOf[w] THEN w ELSE t.cur
             /\ Alike(t, b.t) /\ (b.ok <=> t.cur # None /\ Live(t, w))
             /\ b.t.cur = IF t.cur # None /\ Live(t, w) THEN w ELSE t.cur
<1> DEFINE c == [do |-> "select", win |-> w]
           d == [do |-> "switch", win |-> w]
           u == [t EXCEPT !.cur = w]
<1>1. c.do = "select" /\ d.do = "switch" /\ c.win = w /\ d.win = w
  OBVIOUS
<1> HIDE DEF c, d
<1>2. /\ Effect(c, t) = IF t.cur # None /\ SessOf[t.cur] = SessOf[w] THEN u ELSE t
      /\ Effect(d, t) = u /\ (Possible(c, t) <=> Live(t, w))
      /\ (Possible(d, t) <=> t.cur # None /\ Live(t, w))
  BY <1>1 DEF Effect, Possible
<1>3. /\ Run(Select(w), t) = IF Possible(c, t) THEN [t |-> Effect(c, t), ok |-> TRUE]
                                               ELSE [t |-> t, ok |-> FALSE]
      /\ Run(Switch(w), t) = IF Possible(d, t) THEN [t |-> Effect(d, t), ok |-> TRUE]
                                               ELSE [t |-> t, ok |-> FALSE]
  BY RunOne DEF Select, Switch, c, d
<1>4. u.cur = w
  BY DEF Tmux
<1> HIDE DEF u
<1>5. /\ Run(Select(w), t).ok <=> Live(t, w)
      /\ Run(Switch(w), t).ok <=> t.cur # None /\ Live(t, w)
  BY <1>2, <1>3
<1>6. Run(Select(w), t).t = IF Live(t, w) /\ t.cur # None /\ SessOf[t.cur] = SessOf[w] THEN u ELSE t
  BY <1>2, <1>3
<1>7. Run(Switch(w), t).t = IF t.cur # None /\ Live(t, w) THEN u ELSE t
  BY <1>2, <1>3
<1>8. Alike(t, Run(Select(w), t).t) /\ Alike(t, Run(Switch(w), t).t)
  BY RunMoves
<1> QED
  BY <1>4, <1>5, <1>6, <1>7, <1>8

\* A way out is a window that stays; without one only what is doomed is there.
LEMMA WayOut ==
  ASSUME NEW s, NEW doomed, NEW refuge \in WaysOut(s, doomed)
  PROVE  /\ refuge # None => refuge \in Window \ doomed /\ Live(s.t, refuge)
         /\ refuge = None => \A x \in Window : Live(s.t, x) => x \in doomed
<1> DEFINE stay == {w \in Window : Live(s.t, w)} \ doomed
           near == {w \in stay : s.dock # None /\ s.t.cur # None /\ SessOf[w] = SessOf[s.t.cur]}
<1>1. Refuges(s, doomed) = IF near # {} THEN near ELSE stay
  BY DEF Refuges
<1>2. Refuges(s, doomed) \subseteq stay /\ (Refuges(s, doomed) = {} => stay = {})
  BY <1>1
<1>3. None \notin stay
  BY NoneIsNot
<1> HIDE DEF stay, near
<1>4. refuge # None => refuge \in stay
  BY <1>2 DEF WaysOut
<1>5. refuge = None => stay = {}
  BY <1>2, <1>3 DEF WaysOut
<1> QED
  BY <1>4, <1>5 DEF stay

\* What the clients that are not carried do, before a kill: nothing but the client of
\* the dock moves.
LEMMA LeaveAlike ==
  ASSUME NEW t \in Tmux, NEW w \in Window, NEW l \in {Select(w) \o Switch(w), Select(w), <<>>}
  PROVE  /\ Alike(t, Run(l, t).t)
         /\ Live(t, w) /\ t.cur # None => Run(l, t).t.cur \in {t.cur, w}
         /\ Live(t, w) /\ t.cur # None /\ l = Select(w) \o Switch(w) => Run(l, t).t.cur = w
<1> DEFINE a == Run(Select(w), t)
           b == Run(Select(w) \o Switch(w), t)
<1>1. Select(w) \in Seq(Cmd) /\ Switch(w) \in Seq(Cmd)
  BY Lines
<1> HIDE DEF Cmd
<1>2. b = IF a.ok THEN Run(Switch(w), a.t) ELSE a
  BY <1>1, RunConcat
<1>3. /\ Alike(t, a.t) /\ (a.ok <=> Live(t, w))
      /\ a.t.cur = IF Live(t, w) /\ t.cur # None /\ SessOf[t.cur] = SessOf[w] THEN w ELSE t.cur
  BY ClientGoes
<1> HIDE DEF a
<1>4. /\ Alike(a.t, Run(Switch(w), a.t).t)
      /\ Run(Switch(w), a.t).t.cur = IF a.t.cur # None /\ Live(a.t, w) THEN w ELSE a.t.cur
  BY <1>3, ClientGoes DEF Alike
<1>5. w # None /\ (Live(a.t, w) <=> Live(t, w))
  BY <1>3, LiveAlike, NoneIsNot DEF Alike
<1> HIDE DEF b
<1>6. Alike(t, b.t) /\ (Live(t, w) /\ t.cur # None => b.t.cur = w)
  BY <1>2, <1>3, <1>4, <1>5 DEF Alike
<1>7. Run(<<>>, t).t = t /\ Alike(t, t)
  BY RunNone DEF Alike
<1> DEFINE n == Run(<<>>, t)
<1>8. Run(l, t) = a \/ Run(l, t) = b \/ Run(l, t) = n
  BY DEF a, b
<1>9. l = Select(w) \o Switch(w) => Run(l, t) = b
  BY DEF b
<1> HIDE DEF n
<1> QED
  BY <1>3, <1>6, <1>7, <1>8, <1>9 DEF n

\* The sidebar and the client leave, or the dock is closed.
LEMMA SparedGood ==
  ASSUME NEW D, NEW s, Good(s, D), NEW doomed \in SUBSET Window,
         NEW refuge \in WaysOut(s, doomed), NEW strays \in BOOLEAN,
         NEW tail \in BOOLEAN, NEW again \in BOOLEAN, NEW agent \in BOOLEAN,
         NewSpacer \in Spacer, ~s.broke => Fresh(s, NewSpacer)
  PROVE  Good(Spared(s, doomed, refuge, tail, again, agent, strays), D)
<1> DEFINE n == Spared(s, doomed, refuge, tail, again, agent, strays)
<1>1. CASE refuge # None
  <2> DEFINE moved == IF s.dock # None /\ s.dock.win \in doomed
                      THEN Move(s, refuge, tail, again) ELSE s
             gone == moved.dock # None /\ moved.dock.win = refuge /\ s.dock.win # refuge
             line == IF s.t.cur \in doomed THEN Select(refuge) \o Switch(refuge)
                     ELSE IF strays THEN Select(refuge) ELSE <<>>
             u == Run(line, moved.t).t
  <2>1. n = IF gone THEN moved ELSE [moved EXCEPT !.t = u]
    BY <1>1 DEF Spared, Evacuated, Cleared
  <2>2. refuge \in Window
    BY <1>1, WayOut
  <2>3. Good(moved, D)
    BY <2>2, MoveGood
  <2>4. line \in {Select(refuge) \o Switch(refuge), Select(refuge), <<>>}
    OBVIOUS
  <2> HIDE DEF moved, line, gone
  <2>5. Alike(moved.t, u)
    BY <2>2, <2>3, <2>4, LeaveAlike DEF Good, State
  <2> HIDE DEF u
  <2>6. Good([moved EXCEPT !.t = u], D)
    BY <2>3, <2>5, ClientMoves
  <2> QED
    BY <2>1, <2>3, <2>6
<1>2. CASE refuge = None
  <2>1. n = IF s.dock # None /\ s.dock.win \in doomed THEN Close(s, FALSE, agent) ELSE s
    BY <1>2 DEF Spared
  <2> QED
    BY <2>1, CloseGood
<1> QED
  BY <1>1, <1>2

\* The windows D and all that is in them are gone.
LEMMA SessionGoneGood ==
  ASSUME NEW doomed \in SUBSET Window, NEW s, Good(s, doomed)
  PROVE  Good([s EXCEPT !.t = SessionGone(@, doomed)], {})
<1> DEFINE at == [p \in Pane |-> IF s.t.at[p] \in doomed THEN None ELSE s.t.at[p]]
           v == [s.t EXCEPT !.real = @ \ doomed, !.at = at]
           u == Settle(v)
           n == [s EXCEPT !.t = u]
<1>1. s \in State /\ s.t \in Tmux
  BY DEF Good, State
<1>2. [s EXCEPT !.t = SessionGone(@, doomed)] = n
  BY DEF SessionGone
<1>3. /\ at \in [Pane -> Window \cup {None}]
      /\ \A p \in Pane : at[p] = IF s.t.at[p] \in doomed THEN None ELSE s.t.at[p]
  BY <1>1 DEF Tmux
<1> HIDE DEF at
<1>4. v \in Tmux /\ v.at = at /\ v.real = s.t.real \ doomed /\ v.shape = s.t.shape
  BY <1>1, <1>3 DEF Tmux
<1> HIDE DEF v
<1>5. Alike(v, u)
  BY <1>4, SettleAlike
<1> HIDE DEF u
<1>6. u \in Tmux /\ u.at = at /\ u.real = s.t.real \ doomed /\ u.shape = s.t.shape
  BY <1>4, <1>5 DEF Alike
<1>7. /\ n \in State /\ n.t = u /\ n.dock = s.dock /\ n.closing = s.closing /\ n.queue = s.queue
      /\ n.armed = s.armed /\ n.broke = s.broke
  BY <1>1, <1>6 DEF State
<1> HIDE DEF n
<1>8. ASSUME ~s.broke PROVE Sound(n, {})
  <2>1. Sound(s, doomed)
    BY <1>8 DEF Good
  <2>2. \A c \in MaybeSpacers : InSlots(s.t, c) => InSlots(u, c)
    <3>1. ASSUME NEW c \in MaybeSpacers, NEW w \in Window, c[w] # None, s.t.at[c[w]] \in {w, None}
          PROVE  u.at[c[w]] \in {w, None}
      <4>1. c[w] \in Pane
        BY <3>1, NoneIsNot DEF MaybeSpacers
      <4> QED
        BY <1>3, <1>6, <3>1, <4>1
    <3> QED
      BY <3>1 DEF InSlots
  <2>3. s.dock # None => Placed(u, s.dock)
    <3>1. ASSUME s.dock # None PROVE Placed(u, s.dock)
      <4>1. Placed(s.t, s.dock) /\ s.dock.pane \in Pane /\ s.dock.carved \in MaybeSpacers
        BY <1>1, <2>1, <3>1, DockIs DEF Sound
      <4> QED
        BY <1>3, <1>6, <2>2, <4>1 DEF Placed
    <3> QED
      BY <3>1
  <2>4. s.closing # None => Placed(u, s.closing)
    <3>1. ASSUME s.closing # None PROVE Placed(u, s.closing)
      <4>1. Placed(s.t, s.closing) /\ s.closing.pane \in Pane /\ s.closing.carved \in MaybeSpacers
        BY <1>1, <2>1, <3>1, NoneIsNot DEF Sound, State, Closings
      <4> QED
        BY <1>3, <1>6, <2>2, <4>1 DEF Placed
    <3> QED
      BY <3>1
  <2>5. InSlots(u, s.queue)
    BY <1>1, <2>1, <2>2 DEF Sound, State
  <2>6. ASSUME NEW x \in Window, WholeAt(s.t, x) PROVE WholeAt(u, x)
    <3>1. CASE x \in doomed
      BY <1>6, <3>1 DEF WholeAt
    <3>2. CASE x \notin doomed
      <4>1. In(u, x) = In(s.t, x)
        BY <1>3, <1>6, <3>2, NoneIsNot DEF In
      <4> QED
        BY <1>6, <2>6, <4>1 DEF WholeAt
    <3> QED
      BY <3>1, <3>2
  <2>7. ASSUME NEW p \in Pane, u.at[p] \notin {} \cup {None} PROVE Keeps(n, p)
    <3>1. s.t.at[p] \notin doomed \cup {None}
      BY <1>3, <1>6, <2>7
    <3> QED
      BY <1>7, <2>1, <3>1 DEF Sound, Keeps
  <2> QED
    BY <1>7, <2>1, <2>3, <2>4, <2>5, <2>6, <2>7 DEF Sound, Whole
<1> QED
  BY <1>2, <1>7, <1>8 DEF Good

\* The user's own panes in w are gone.
LEMMA RealGoneGood ==
  ASSUME NEW D, NEW s, Good(s, D), NEW w \in Window
  PROVE  Good([s EXCEPT !.t = PanesGone(@, w)], D)
<1> DEFINE v == [s.t EXCEPT !.real = @ \ {w}]
           n == [s EXCEPT !.t = v]
<1>1. s \in State /\ s.t \in Tmux
  BY DEF Good, State
<1>2. v \in Tmux /\ v.at = s.t.at /\ v.real = s.t.real \ {w} /\ v.shape = s.t.shape
  BY <1>1 DEF Tmux
<1>3. [s EXCEPT !.t = PanesGone(@, w)] = [s EXCEPT !.t = Settle(v)]
  BY DEF PanesGone
<1> HIDE DEF v
<1>4. /\ n \in State /\ n.t = v /\ n.dock = s.dock /\ n.closing = s.closing /\ n.queue = s.queue
      /\ n.armed = s.armed /\ n.broke = s.broke
  BY <1>1, <1>2 DEF State
<1>5. [s EXCEPT !.t = Settle(v)] = [n EXCEPT !.t = Settle(v)]
  BY <1>1, <1>4 DEF State
<1> HIDE DEF n
<1>6. ASSUME ~s.broke PROVE Sound(n, D)
  <2>1. Sound(s, D)
    BY <1>6 DEF Good
  <2>2. Whole(v)
    BY <1>2, <2>1 DEF Sound, Whole, WholeAt, In
  <2> QED
    BY <1>2, <1>4, <2>1, <2>2 DEF Sound, Placed, InSlots, Keeps
<1>7. Good(n, D) /\ Alike(n.t, Settle(v))
  BY <1>2, <1>4, <1>6, SettleAlike DEF Good
<1>8. Good([n EXCEPT !.t = Settle(v)], D)
  BY <1>7, ClientMoves
<1> QED
  BY <1>3, <1>5, <1>8

-----------------------------------------------------------------------------
(* The steps.                                                                *)

\* An id that is not in use is that of a new pane.
LEMMA NewIsFresh ==
  ASSUME TypeOK
  PROVE  /\ Now \in State
         /\ Unused(Now, Spacer) # {} => NewSpacer \in Spacer /\ Fresh(Now, NewSpacer)
         /\ Unused(Now, Sidebar) # {} => NewSidebar \in Sidebar /\ Now.t.at[NewSidebar] = None
<1>1. Now \in State
  BY DEF TypeOK, Now, State
<1>2. ASSUME Unused(Now, Spacer) # {} PROVE NewSpacer \in Spacer /\ Fresh(Now, NewSpacer)
  <2>1. NewSpacer \in Unused(Now, Spacer)
    BY <1>2 DEF NewSpacer
  <2>2. NewSpacer \in Spacer /\ Now.t.at[NewSpacer] = None /\ NewSpacer \notin Known(Now)
    BY <2>1 DEF Unused
  <2>3. NewSpacer \in Pane
    BY <2>2, NoneIsNot
  <2> QED
    BY <1>1, <2>2, <2>3, KnownIs DEF Fresh
<1>3. ASSUME Unused(Now, Sidebar) # {} PROVE NewSidebar \in Sidebar /\ Now.t.at[NewSidebar] = None
  <2>1. NewSidebar \in Unused(Now, Sidebar)
    BY <1>3 DEF NewSidebar
  <2> QED
    BY <2>1 DEF Unused
<1> QED
  BY <1>1, <1>2, <1>3

\* A step of the daemon to something good keeps the invariant.
LEMMA DaemonStep ==
  ASSUME IInv, up, NEW s, Good(s, {}), UNCHANGED <<up, rough, user>>, kick' \in BOOLEAN,
         also' \in [Other -> Session \cup {None}], input' \in Inputs, tmux' = s.t, dock' = s.dock, closing' = s.closing, queue' = s.queue,
         claims' = s.claims, armed' = s.armed, broke' = s.broke
  PROVE  IInv'
<1>1. s \in State
  BY DEF Good
<1>2. Now' = s
  BY <1>1 DEF Now, State
<1>3. TypeOK'
  BY <1>1 DEF IInv, TypeOK, State
<1>4. Good(Now, {})'
  BY <1>2 DEF Good, Sound, Whole
<1> QED
  BY <1>3, <1>4 DEF IInv

\* The other clients are in sessions that are there, whatever becomes of these.
LEMMA StayingIs ==
  ASSUME NEW where, NEW t
  PROVE  /\ Staying(where, t) \in [Other -> Session \cup {None}]
         /\ \A c \in Other : Staying(where, t)[c] # None =>
              \E x \in Window : Live(t, x) /\ SessOf[x] = Staying(where, t)[c]
         /\ \A c \in Other : (\E x \in Window : Live(t, x) /\ SessOf[x] = where[c]) =>
              Staying(where, t)[c] # None
<1>1. ASSUME NEW c \in Other, NEW x \in Window, SessOf[x] = where[c]
      PROVE  where[c] \in Session /\ where[c] # None
  BY <1>1, DockAssumption DEF Session
<1> QED
  BY <1>1 DEF Staying

\* The input is of a kind.
LEMMA InputIs == ASSUME TypeOK, NEW q PROVE InputFor(q) \in Inputs
  BY DEF TypeOK, InputFor, Inputs

\* An action that takes over a good state is a good step.
LEMMA ShiftsStep ==
  ASSUME IInv, up, NEW s, Good(s, {}), NEW where, Shifts(s, where)
  PROVE  IInv'
<1>1. kick' \in BOOLEAN
  BY DEF Shifts, Becomes, Changed, IInv, TypeOK
<1>2. also' \in [Other -> Session \cup {None}] /\ input' \in Inputs
  BY StayingIs, InputIs DEF Shifts, IInv
<1> QED
  BY <1>1, <1>2, DaemonStep DEF Shifts, Becomes

\* So is one that leaves the other clients where they are.
LEMMA StepsStep == ASSUME IInv, up, NEW s, Good(s, {}), Steps(s) PROVE IInv'
  BY ShiftsStep DEF Steps

\* A step that takes panes of winch away, and may leave windows that are rough.
LEMMA UserStep ==
  ASSUME IInv, UNCHANGED daemon, tmux' \in Tmux,
         \A p \in Pane : tmux'.at[p] \in {tmux.at[p], None},
         rough \subseteq rough', rough' \subseteq Window, kick' \in BOOLEAN, user' \in 0..MaxUser,
         also' \in [Other -> Session \cup {None}], input' \in Inputs,
         broke' \in BOOLEAN, broke => broke',
         ~broke' => \A x \in Window \ rough' : WholeAt(tmux, x) => WholeAt(tmux', x)
  PROVE  IInv'
<1> DEFINE D == IF up THEN {} ELSE Window
<1>1. /\ up' = up /\ dock' = dock /\ closing' = closing /\ queue' = queue
      /\ claims' = claims /\ armed' = armed
  BY DEF daemon
<1>2. TypeOK'
  BY <1>1 DEF IInv, TypeOK
<1>3. Now \in State /\ Now' \in State
  BY <1>2 DEF IInv, TypeOK, Now, State
<1>4. /\ Now.t = tmux /\ Now.dock = dock /\ Now.closing = closing /\ Now.queue = queue
      /\ Now.armed = armed /\ Now.broke = broke
  BY DEF Now
<1>5. /\ Now'.t = tmux' /\ Now'.dock = dock /\ Now'.closing = closing /\ Now'.queue = queue
      /\ Now'.armed = armed /\ Now'.broke = broke'
  BY <1>1 DEF Now
<1>6. ASSUME ~broke' PROVE Sound(Now, D)'
  <2>1. Sound(Now, D)
    BY <1>4, <1>6 DEF IInv, Good
  <2>2. \A c \in MaybeSpacers : InSlots(tmux, c) => InSlots(tmux', c)
    <3>1. ASSUME NEW c \in MaybeSpacers, NEW w \in Window, c[w] # None, tmux.at[c[w]] \in {w, None}
          PROVE  tmux'.at[c[w]] \in {w, None}
      <4>1. c[w] \in Pane
        BY <3>1, NoneIsNot DEF MaybeSpacers
      <4> QED
        BY <3>1, <4>1
    <3> QED
      BY <3>1 DEF InSlots
  <2>3. dock # None => Placed(tmux', dock)
    <3>1. ASSUME dock # None PROVE Placed(tmux', dock)
      <4>1. Placed(tmux, dock) /\ dock.pane \in Pane /\ dock.carved \in MaybeSpacers
        BY <1>3, <1>4, <2>1, <3>1, DockIs DEF Sound
      <4> QED
        BY <2>2, <4>1 DEF Placed
    <3> QED
      BY <3>1
  <2>4. closing # None => Placed(tmux', closing)
    <3>1. ASSUME closing # None PROVE Placed(tmux', closing)
      <4>1. closing \in Closings
        BY <3>1 DEF IInv, TypeOK
      <4>2. Placed(tmux, closing) /\ closing.pane \in Pane /\ closing.carved \in MaybeSpacers
        BY <1>4, <2>1, <3>1, <4>1, NoneIsNot DEF Sound, Closings
      <4> QED
        BY <2>2, <4>2 DEF Placed
    <3> QED
      BY <3>1
  <2>5. InSlots(tmux', queue)
    BY <1>4, <2>1, <2>2 DEF Sound, IInv, TypeOK
  <2>6. ASSUME NEW p \in Pane, tmux'.at[p] \notin D \cup {None} PROVE Keeps(Now', p)
    <3>1. tmux.at[p] \notin D \cup {None}
      BY <2>6
    <3>2. Keeps(Now, p)
      BY <1>4, <2>1, <3>1 DEF Sound
    <3> QED
      BY <1>4, <1>5, <3>2 DEF Keeps
  <2>7. \A x \in Window \ rough' : WholeAt(tmux', x)
    BY <1>4, <1>6, <2>1 DEF Sound, Whole
  <2>8. /\ dock # None => closing = None /\ queue = Nobody
        /\ closing # None => queue = Nobody
        /\ queue # Nobody => armed
    BY <1>4, <2>1 DEF Sound
  <2>9. D' = D
    BY <1>1
  <2> HIDE DEF D
  <2> QED
    BY <1>5, <2>3, <2>4, <2>5, <2>6, <2>7, <2>8, <2>9 DEF Sound, Whole
<1>7. Good(Now, IF up THEN {} ELSE Window)'
  BY <1>3, <1>5, <1>6 DEF Good
<1>8. ~up' => /\ dock' = None /\ closing' = None /\ queue' = Nobody'
              /\ \A p \in Pane : tmux'.at[p] # None => p \in Spacer /\ tmux'.at[p] \in rough'
  <2>1. Nobody' = Nobody
    BY DEF Nobody
  <2> QED
    BY <1>1, <2>1 DEF IInv
<1> QED
  BY <1>2, <1>7, <1>8 DEF IInv

\* A step in which nothing happens.
LEMMA SameStep == ASSUME IInv, UNCHANGED vars PROVE IInv'
<1>1. /\ tmux' = tmux /\ UNCHANGED daemon /\ kick' = kick /\ rough' = rough
      /\ broke' = broke /\ user' = user /\ also' = also /\ input' = input
  BY DEF vars
<1>2. /\ tmux \in Tmux /\ rough \subseteq Window /\ kick \in BOOLEAN /\ broke \in BOOLEAN
      /\ user \in 0..MaxUser /\ also \in [Other -> Session \cup {None}] /\ input \in Inputs
  BY DEF IInv, TypeOK
<1> QED
  BY <1>1, <1>2, UserStep

\* The commands of the sidebar and the loop.
LEMMA CommandSteps ==
  ASSUME IInv
  PROVE  DockOpen \/ DockClose \/ EndScrub \/ CloseTimer \/ ReleaseTimer \/ Relist => IInv'
<1>1. /\ Now \in State /\ (up => Good(Now, {})) /\ TypeOK
      /\ Now.t = tmux /\ Now.dock = dock /\ Now.queue = queue /\ Now.closing = closing
      /\ Now.broke = broke
  BY NewIsFresh DEF IInv, Now
<1>2. ASSUME DockOpen PROVE IInv'
  <2>1. up /\ Steps(Open(Now)) /\ Now.dock = None
    BY <1>1, <1>2 DEF DockOpen
  <2>2. NewSidebar \in Sidebar /\ Now.t.at[NewSidebar] = None
    BY <1>1, <1>2, NewIsFresh DEF DockOpen
  <2>3. Good(Open(Now), {})
    BY <1>1, <2>1, <2>2, OpenGood
  <2> QED
    BY <2>1, <2>3, StepsStep
<1>3. ASSUME DockClose PROVE IInv'
  <2>1. PICK toOrigin \in BOOLEAN, agent \in BOOLEAN : Steps(Close(Now, toOrigin, agent))
    BY <1>3 DEF DockClose
  <2>2. up /\ Now.dock # None
    BY <1>1, <1>3 DEF DockClose, Docked
  <2>3. Good(Close(Now, toOrigin, agent), {})
    BY <1>1, <2>2, CloseGood
  <2> QED
    BY <2>1, <2>2, <2>3, StepsStep
<1>4. ASSUME EndScrub PROVE IInv'
  <2>1. up /\ Now.dock # None /\ dock # None
    BY <1>1, <1>4 DEF EndScrub, Docked
  <2>2. dock.win \in Window /\ dock.origin \in Window
    BY <1>1, <2>1, DockIs
  <2>3. PICK o \in Window : Steps([Now EXCEPT !.dock.scrub = FALSE, !.dock.origin = o])
    <3>1. PICK commit \in BOOLEAN :
            Steps([Now EXCEPT !.dock.scrub = FALSE,
                              !.dock.origin = IF commit THEN dock.win ELSE @])
      BY <1>4 DEF EndScrub
    <3>2. [Now EXCEPT !.dock.scrub = FALSE, !.dock.origin = IF commit THEN dock.win ELSE @]
            = [Now EXCEPT !.dock.scrub = FALSE,
                          !.dock.origin = IF commit THEN dock.win ELSE dock.origin]
      <4>1. Now.dock.origin = dock.origin
        BY <1>1
      <4> QED
        BY <1>1, <2>1, <4>1 DEF State, Docks
    <3> QED
      BY <2>2, <3>1, <3>2
  <2>4. Good([Now EXCEPT !.dock.scrub = FALSE, !.dock.origin = o], {})
    BY <1>1, <2>1, MarkIs
  <2> QED
    BY <2>1, <2>3, <2>4, StepsStep
<1>5. ASSUME CloseTimer PROVE IInv'
  <2>1. up /\ Steps(Flush(Now))
    BY <1>5 DEF CloseTimer
  <2>2. Good(Flush(Now), {})
    BY <1>1, <2>1, FlushGood
  <2> QED
    BY <2>1, <2>2, StepsStep
<1>6. ASSUME ReleaseTimer PROVE IInv'
  <2>1. up
    BY <1>6 DEF ReleaseTimer
  <2>2. CASE queue = Nobody /\ Steps([Now EXCEPT !.armed = FALSE])
    <3> DEFINE n == [Now EXCEPT !.armed = FALSE]
    <3>1. Steps(n)
      BY <2>2
    <3>2. /\ n \in State /\ n.t = tmux /\ n.dock = dock /\ n.closing = closing /\ n.queue = queue
          /\ n.broke = broke
      BY <1>1 DEF State
    <3> HIDE DEF n
    <3>3. Good(n, {})
      BY <1>1, <2>1, <2>2, <3>2 DEF Good, Sound, Keeps
    <3> QED
      BY <2>1, <3>1, <3>3, StepsStep
  <2>3. ASSUME NEW w \in Window, May(w),
               Steps([ReleaseOne(Now, w) EXCEPT !.armed = ReleaseOne(Now, w).queue # Nobody])
        PROVE  IInv'
    <3>1. Now.queue[w] # None
      BY <1>1, <2>3 DEF May
    <3>2. Good([ReleaseOne(Now, w) EXCEPT !.armed = ReleaseOne(Now, w).queue # Nobody], {})
      BY <1>1, <2>1, <3>1, ReleaseOneGood
    <3> QED
      BY <2>1, <2>3, <3>2, StepsStep
  <2>4. CASE UNCHANGED vars
    BY <2>4, SameStep
  <2> QED
    BY <1>6, <2>2, <2>3, <2>4 DEF ReleaseTimer
<1>7. ASSUME Relist PROVE IInv'
  <2> DEFINE s(tail, again, agent, unzoomed) == CheckDock(Now, tail, again, agent, unzoomed)
             Checks(n) ==
               /\ tmux' = n.t /\ dock' = n.dock /\ closing' = n.closing
               /\ queue' = n.queue /\ claims' = n.claims /\ armed' = n.armed
               /\ broke' = n.broke /\ kick' = Changed(n) /\ UNCHANGED up
  <2>1. /\ up /\ UNCHANGED <<rough, user>>
        /\ also' = Staying(also, tmux') /\ input' = InputFor(queue')
        /\ \/ dock = None /\ kick' = FALSE /\ UNCHANGED <<tmux, daemon, broke>>
           \/ /\ dock # None /\ Unused(Now, Spacer) # {}
              /\ \E tail \in Maybe(tmux.cur # dock.win), again \in Maybe(Retries({tmux.cur} \ {None})),
                    agent \in Maybe(tmux.cur = None), unzoomed \in Maybe(dock.scrub) : Checks(s(tail, again, agent, unzoomed))
    BY <1>7 DEF Relist
  <2>4. also' \in [Other -> Session \cup {None}] /\ input' \in Inputs
    BY <1>1, <2>1, StayingIs, InputIs
  <2> HIDE DEF s
  <2>2. CASE dock = None /\ kick' = FALSE /\ UNCHANGED <<tmux, daemon, broke>>
    <3>1. /\ tmux' = Now.t /\ dock' = Now.dock /\ closing' = Now.closing /\ queue' = Now.queue
          /\ claims' = Now.claims /\ armed' = Now.armed /\ broke' = Now.broke
      BY <2>2 DEF daemon, Now
    <3>2. Good(Now, {}) /\ kick' \in BOOLEAN /\ UNCHANGED <<up, rough, user>>
      BY <1>1, <2>1, <2>2 DEF daemon
    <3> QED
      BY <2>1, <2>4, <3>1, <3>2, DaemonStep
  <2>3. CASE dock # None
    <3>1. /\ Unused(Now, Spacer) # {}
          /\ \E tail \in Maybe(tmux.cur # dock.win), again \in Maybe(Retries({tmux.cur} \ {None})),
                agent \in Maybe(tmux.cur = None), unzoomed \in Maybe(dock.scrub) : Checks(s(tail, again, agent, unzoomed))
      BY <2>1, <2>3
    <3> HIDE DEF Checks
    <3>2. \A cond : Maybe(cond) \subseteq BOOLEAN
      BY DEF Maybe
    <3>3. PICK tail \in BOOLEAN, again \in BOOLEAN, agent \in BOOLEAN, unzoomed \in BOOLEAN :
            Checks(s(tail, again, agent, unzoomed))
      BY <3>1, <3>2
    <3>4. NewSpacer \in Spacer /\ Fresh(Now, NewSpacer)
      BY <1>1, <3>1, NewIsFresh
    <3> DEFINE n == s(tail, again, agent, unzoomed)
    <3>5. Good(n, {})
      BY <1>1, <2>1, <2>3, <3>4, CheckDockGood DEF s
    <3> HIDE DEF n
    <3>6. /\ tmux' = n.t /\ dock' = n.dock /\ closing' = n.closing /\ queue' = n.queue
          /\ claims' = n.claims /\ armed' = n.armed /\ broke' = n.broke
          /\ kick' = Changed(n) /\ up' = up
      BY <3>3 DEF n, Checks
    <3>7. kick' \in BOOLEAN /\ UNCHANGED <<up, rough, user>>
      BY <2>1, <3>6 DEF Changed
    <3> QED
      BY <2>1, <2>4, <3>5, <3>6, <3>7, DaemonStep
  <2> QED
    BY <2>1, <2>2, <2>3
<1> QED
  BY <1>2, <1>3, <1>4, <1>5, <1>6, <1>7

\* A choice that makes no difference is not offered.
LEMMA MaybeIs == \A cond : Maybe(cond) \subseteq BOOLEAN
  BY DEF Maybe

\* A toggle on the target moves, and closes or stays.
LEMMA ToggleIs ==
  ASSUME NEW w \in Window, ToggleOnTarget(w)
  PROVE  /\ Docked /\ Unused(Now, Spacer) # {}
         /\ \E tail \in BOOLEAN, again \in BOOLEAN, agent \in BOOLEAN :
              IF dock.carved[w] = None
              THEN Steps(Close([Now EXCEPT !.dock.origin = w], TRUE, agent))
              ELSE Steps(IF Move(Now, w, tail, again).dock.win = w
                         THEN Close(Move(Now, w, tail, again), FALSE, agent)
                         ELSE Move(Now, w, tail, again))
<1> DEFINE Does(tail, again, agent) ==
             IF dock.carved[w] = None
             THEN Steps(Close([Now EXCEPT !.dock.origin = w], TRUE, agent))
             ELSE Steps(IF Move(Now, w, tail, again).dock.win = w
                        THEN Close(Move(Now, w, tail, again), FALSE, agent)
                        ELSE Move(Now, w, tail, again))
<1>1. /\ Docked /\ Unused(Now, Spacer) # {}
      /\ \E tail, again \in Maybe(Retries({w})), agent \in BOOLEAN : Does(tail, again, agent)
  BY DEF ToggleOnTarget
<1> HIDE DEF Does
<1>2. \E tail \in BOOLEAN, again \in BOOLEAN, agent \in BOOLEAN : Does(tail, again, agent)
  BY <1>1, MaybeIs
<1> QED
  BY <1>1, <1>2 DEF Does

\* A move goes there, and commits or not.
LEMMA MoveToIs ==
  ASSUME NEW w \in Window, MoveTo(w)
  PROVE  /\ Docked /\ Unused(Now, Spacer) # {}
         /\ \E tail \in BOOLEAN, again \in BOOLEAN, commit \in BOOLEAN :
              Steps(IF commit /\ Move(Now, w, tail, again).dock.win = w
                    THEN [Move(Now, w, tail, again) EXCEPT !.dock.origin = w]
                    ELSE Move(Now, w, tail, again))
<1> DEFINE Does(tail, again, commit) ==
             Steps(IF commit /\ Move(Now, w, tail, again).dock.win = w
                   THEN [Move(Now, w, tail, again) EXCEPT !.dock.origin = w]
                   ELSE Move(Now, w, tail, again))
<1>1. /\ Docked /\ Unused(Now, Spacer) # {}
      /\ \E tail \in BOOLEAN, again \in Maybe(Retries({w})), commit \in Maybe(dock.scrub) :
           Does(tail, again, commit)
  BY DEF MoveTo
<1> HIDE DEF Does
<1>2. \E tail \in BOOLEAN, again \in BOOLEAN, commit \in BOOLEAN : Does(tail, again, commit)
  BY <1>1, MaybeIs
<1> QED
  BY <1>1, <1>2 DEF Does

\* The commands that name a window.
LEMMA WindowSteps ==
  ASSUME IInv, NEW w \in Window
  PROVE  ToggleOnTarget(w) \/ MoveTo(w) \/ Preview(w) \/ GotoPane(w) => IInv'
<1>1. /\ Now \in State /\ (up => Good(Now, {})) /\ TypeOK
      /\ Now.t = tmux /\ Now.dock = dock /\ Now.queue = queue /\ Now.closing = closing
      /\ Now.broke = broke
  BY NewIsFresh DEF IInv, Now
<1>2. ASSUME ToggleOnTarget(w) PROVE IInv'
  <2>1. PICK tail \in BOOLEAN, again \in BOOLEAN, agent \in BOOLEAN :
          /\ Unused(Now, Spacer) # {}
          /\ IF dock.carved[w] = None
             THEN Steps(Close([Now EXCEPT !.dock.origin = w], TRUE, agent))
             ELSE Steps(IF Move(Now, w, tail, again).dock.win = w
                        THEN Close(Move(Now, w, tail, again), FALSE, agent)
                        ELSE Move(Now, w, tail, again))
    BY <1>2, ToggleIs
  <2>2. up /\ Now.dock # None /\ NewSpacer \in Spacer /\ Fresh(Now, NewSpacer)
    BY <1>1, <1>2, <2>1, NewIsFresh DEF ToggleOnTarget, Docked
  <2> DEFINE moved == Move(Now, w, tail, again)
             a == [Now EXCEPT !.dock.origin = w]
  <2>3. Good(moved, {}) /\ moved.dock # None
    BY <1>1, <2>2, MoveGood
  <2>4. Good(a, {}) /\ a.dock # None
    <3>1. TRUE \in BOOLEAN
      OBVIOUS
    <3> QED
      BY <1>1, <2>2, <3>1, MarkIs
  <2> HIDE DEF moved, a
  <2>5. Good(Close(a, TRUE, agent), {}) /\ Good(Close(moved, FALSE, agent), {})
    BY <2>3, <2>4, CloseGood
  <2>6. Steps(Close(a, TRUE, agent)) \/ Steps(Close(moved, FALSE, agent)) \/ Steps(moved)
    BY <2>1 DEF a, moved
  <2> QED
    BY <2>2, <2>3, <2>5, <2>6, StepsStep
<1>3. ASSUME MoveTo(w) PROVE IInv'
  <2>1. PICK tail \in BOOLEAN, again \in BOOLEAN, commit \in BOOLEAN :
          /\ Unused(Now, Spacer) # {}
          /\ Steps(IF commit /\ Move(Now, w, tail, again).dock.win = w
                   THEN [Move(Now, w, tail, again) EXCEPT !.dock.origin = w]
                   ELSE Move(Now, w, tail, again))
    BY <1>3, MoveToIs
  <2>2. up /\ Now.dock # None /\ NewSpacer \in Spacer /\ Fresh(Now, NewSpacer)
    BY <1>1, <1>3, <2>1, NewIsFresh DEF MoveTo, Docked
  <2> DEFINE moved == Move(Now, w, tail, again)
             a == [moved EXCEPT !.dock.origin = w]
  <2>3. Good(moved, {}) /\ moved.dock # None
    BY <1>1, <2>2, MoveGood
  <2> HIDE DEF moved
  <2>4. Good(a, {})
    <3>1. TRUE \in BOOLEAN
      OBVIOUS
    <3> QED
      BY <2>3, <3>1, MarkIs
  <2>5. Steps(a) \/ Steps(moved)
    BY <2>1 DEF moved
  <2> QED
    BY <2>2, <2>3, <2>4, <2>5, StepsStep
<1>4. ASSUME Preview(w) PROVE IInv'
  <2>1. PICK carve \in BOOLEAN :
          /\ Unused(Now, Spacer) # {}
          /\ Steps([IF carve THEN Carve(Now, w) ELSE Now
                      EXCEPT !.dock.scrub = @ \/ tmux.at[dock.pane] # None])
    BY <1>4 DEF Preview
  <2>2. up /\ Now.dock # None /\ NewSpacer \in Spacer /\ Fresh(Now, NewSpacer) /\ w # Now.dock.win
    BY <1>1, <1>4, <2>1, NewIsFresh DEF Preview, Docked
  <2> DEFINE s == IF carve THEN Carve(Now, w) ELSE Now
             b == s.dock.scrub \/ tmux.at[dock.pane] # None
             n == [s EXCEPT !.dock.scrub = b]
  <2>3. Good(s, {}) /\ s.dock # None
    <3>1. Good(Carve(Now, w), {}) /\ Carve(Now, w).dock # None
      BY <1>1, <2>2, CarveGood
    <3> QED
      BY <1>1, <2>2, <3>1
  <2>4. Steps(n)
    BY <2>1
  <2> HIDE DEF s
  <2>5. b \in BOOLEAN
    BY <2>3, DockIs DEF Good
  <2> HIDE DEF b
  <2>6. Good(n, {})
    BY <2>3, <2>5, MarkIs, w \in Window
  <2> QED
    BY <2>2, <2>4, <2>6, StepsStep
<1>5. ASSUME GotoPane(w) PROVE IInv'
  <2> DEFINE K == IF tmux.cur = None THEN <<>> ELSE Switch(w)
             l == K \o Select(w)
             u == Run(l, tmux).t
             where == [c \in Other |-> IF also[c] = None THEN None ELSE SessOf[w]]
  <2>1. up /\ Shifts([Now EXCEPT !.t = u], where)
    BY <1>5 DEF GotoPane
  <2> HIDE DEF where
  <2>2. tmux \in Tmux
    BY <1>1 DEF TypeOK
  <2>3. Alike(tmux, u)
    <3> DEFINE a == Run(K, tmux)
               b == Run(l, tmux)
    <3>1. Select(w) \in Seq(Cmd) /\ Switch(w) \in Seq(Cmd) /\ <<>> \in Seq(Cmd)
      BY Lines
    <3>2. \A v \in Tmux : Alike(v, Run(Select(w), v).t) /\ Alike(v, Run(Switch(w), v).t)
      BY RunMoves
    <3>3. Alike(tmux, Run(<<>>, tmux).t)
      BY <2>2, RunNone DEF Alike
    <3>4. K \in Seq(Cmd) /\ Alike(tmux, a.t)
      <4> HIDE DEF Cmd
      <4> QED
        BY <2>2, <3>1, <3>2, <3>3
    <3> HIDE DEF Cmd, K
    <3>5. Follows(b, a)
      BY <2>2, <3>1, <3>2, <3>4, ThenMoves
    <3> HIDE DEF a, b
    <3>6. Alike(tmux, b.t)
      BY <3>4, <3>5 DEF Follows, Alike
    <3> QED
      BY <3>6 DEF b
  <2> HIDE DEF u
  <2>4. Good([Now EXCEPT !.t = u], {})
    BY <1>1, <2>1, <2>3, ClientMoves
  <2> QED
    BY <2>1, <2>4, ShiftsStep
<1> QED
  BY <1>2, <1>3, <1>4, <1>5

\* What tmux holds when all the panes of P are gone.
LEMMA WithoutIs ==
  ASSUME tmux \in Tmux, NEW P
  PROVE  /\ Without(P) \in Tmux /\ Without(P).real = tmux.real
         /\ \A p \in Pane : Without(P).at[p] = IF p \in P THEN None ELSE tmux.at[p]
         /\ \A x \in Window : Without(P).shape[x] =
              IF In(tmux, x) \cap P # {} THEN "torn" ELSE tmux.shape[x]
<1> DEFINE at == [p \in Pane |-> IF p \in P THEN None ELSE tmux.at[p]]
           shape == [w \in Window |-> IF In(tmux, w) \cap P # {} THEN "torn" ELSE tmux.shape[w]]
           t == [tmux EXCEPT !.at = at, !.shape = shape]
<1>1. Without(P) = t
  BY DEF Without
<1>2. at \in [Pane -> Window \cup {None}] /\ shape \in [Window -> {"own", "docked", "torn"}]
  BY DEF Tmux
<1>3. /\ \A p \in Pane : at[p] = IF p \in P THEN None ELSE tmux.at[p]
      /\ \A x \in Window : shape[x] = IF In(tmux, x) \cap P # {} THEN "torn" ELSE tmux.shape[x]
  OBVIOUS
<1> HIDE DEF at, shape
<1>4. t \in Tmux /\ t.real = tmux.real /\ t.at = at /\ t.shape = shape
  BY <1>2 DEF Tmux
<1> QED
  BY <1>1, <1>3, <1>4

\* What a kill comes to: s is how the daemon stands when what is doomed has been left for
\* the refuge, of a pane of w whose session shows the window in front.
Ready(D, doomed, w, front, refuge, s) ==
  /\ front \in Fronts(w)
  /\ \E d, tail, again, agent :
       /\ Good(d, D) /\ d.broke = broke /\ Fresh(d, NewSpacer) /\ d.t = tmux
       /\ (d.dock = None <=> dock = None) /\ (dock # None => d.dock.win = dock.win)
       /\ tail \in BOOLEAN /\ again \in BOOLEAN /\ agent \in BOOLEAN
       /\ refuge \in WaysOut(d, doomed)
       /\ s = Spared(d, doomed, refuge, tail, again, agent, Strays(w, doomed, front) # {})

\* What the daemon forgets before a kill changes nothing in tmux, nor where the dock is.
LEMMA DisarmedIs ==
  ASSUME NEW s \in State, NEW doomed \in SUBSET Window, NEW ends \in BOOLEAN, NEW forget \in BOOLEAN
  PROVE  LET n == Disarmed(s, doomed, ends, forget)
         IN  /\ n.t = s.t /\ (n.dock = None <=> s.dock = None)
             /\ s.dock # None => n.dock.win = s.dock.win
<1> DEFINE d == s.dock
           c == [w \in Window |-> IF forget /\ w \in doomed THEN None ELSE d.carved[w]]
           owns == IF forget THEN s.claims \ (doomed \cap Holding(d.carved)) ELSE s.claims
           b == d.scrub /\ ~ends /\ d.win \notin doomed
           e == [d EXCEPT !.scrub = b, !.carved = c]
           n == [s EXCEPT !.dock = e, !.claims = owns]
<1>1. CASE s.dock = None
  BY <1>1 DEF Disarmed
<1>2. CASE s.dock # None
  <2>1. d \in Docks /\ d.carved \in MaybeSpacers
    BY <1>2, DockIs
  <2>2. Disarmed(s, doomed, ends, forget) = n
    BY <1>2, <2>1 DEF Disarmed, State, Docks
  <2>3. c \in MaybeSpacers /\ b \in BOOLEAN
    BY <2>1 DEF MaybeSpacers
  <2> HIDE DEF c, owns, b, d
  <2>4. e \in Docks /\ e.win = d.win
    BY <2>1, <2>3 DEF Docks
  <2>5. e # None
    BY <2>4, NoneIsNot
  <2> HIDE DEF e
  <2>6. n.t = s.t /\ n.dock = e
    BY DEF State
  <2> QED
    BY <1>2, <2>2, <2>4, <2>5, <2>6 DEF d
<1> QED
  BY <1>1, <1>2

\* A session.
Doomed(w) == {x \in Window : SessOf[x] = SessOf[w] /\ Live(tmux, x)}

\* killTarget for a session: what has been made ready is killed.
LEMMA KillSessionIs ==
  ASSUME IInv, NEW w \in Window, KillSession(w)
  PROVE  /\ up /\ NewSpacer \in Spacer
         /\ \E s, front, refuge :
              /\ Ready(Doomed(w), Doomed(w), w, front, refuge, s)
              /\ Shifts([s EXCEPT !.t = SessionGone(@, Doomed(w))],
                        Escorted(s, Strays(w, Doomed(w), front), refuge))
<1> DEFINE doomed == Doomed(w)
           d(ends) == Disarmed(Now, doomed, ends, TRUE)
           Kills(ends, tail, again, agent, strays) ==
             \E refuge \in WaysOut(d(ends), doomed) :
               LET s == Spared(d(ends), doomed, refuge, tail, again, agent, strays # {})
               IN  Shifts([s EXCEPT !.t = SessionGone(@, doomed)], Escorted(s, strays, refuge))
<1>1. /\ up /\ Unused(Now, Spacer) # {}
      /\ \E ends \in Maybe(Zoomed(dock) /\ ~Uproots(doomed)), tail \in Maybe(Relocates(doomed)),
            again \in Maybe(Relocates(doomed) /\ Retries(Refuges(Now, doomed))),
            agent \in Maybe(Uproots(doomed) /\ ~Relocates(doomed)),
            strays \in Straying(w, doomed) : Kills(ends, tail, again, agent, strays)
  BY DEF KillSession, Doomed
<1>2. doomed \in SUBSET Window
  BY DEF Doomed
<1> HIDE DEF doomed, Kills
<1>3. \A cond : Maybe(cond) \subseteq BOOLEAN
  BY DEF Maybe
<1>4. PICK ends \in BOOLEAN, tail \in BOOLEAN, again \in BOOLEAN, agent \in BOOLEAN,
           front \in Fronts(w) : Kills(ends, tail, again, agent, Strays(w, doomed, front))
  BY <1>1, <1>3 DEF Straying
<1>5. PICK refuge \in WaysOut(d(ends), doomed) :
        LET strays == Strays(w, doomed, front)
            s == Spared(d(ends), doomed, refuge, tail, again, agent, strays # {})
        IN  Shifts([s EXCEPT !.t = SessionGone(@, doomed)], Escorted(s, strays, refuge))
  BY <1>4 DEF Kills
<1>6. Now \in State /\ Good(Now, {}) /\ Now.t = tmux /\ Now.dock = dock /\ Now.broke = broke
  BY <1>1, NewIsFresh DEF IInv, Now
<1>7. NewSpacer \in Spacer /\ NewSpacer \in Pane /\ Fresh(Now, NewSpacer)
  BY <1>1, NewIsFresh, NoneIsNot DEF IInv
<1>8. Good(d(ends), doomed) /\ d(ends).broke = Now.broke /\ Fresh(d(ends), NewSpacer)
  BY <1>2, <1>6, <1>7, DisarmedGood, TRUE \in BOOLEAN
<1>9. /\ d(ends).t = tmux /\ (d(ends).dock = None <=> dock = None)
      /\ dock # None => d(ends).dock.win = dock.win
  BY <1>2, <1>6, DisarmedIs, TRUE \in BOOLEAN
<1> HIDE DEF d
<1>10. Ready(doomed, doomed, w, front, refuge,
             Spared(d(ends), doomed, refuge, tail, again, agent, Strays(w, doomed, front) # {}))
  BY <1>5, <1>6, <1>8, <1>9 DEF Ready
<1> QED
  BY <1>1, <1>5, <1>7, <1>10 DEF doomed

\* A pane of the user's.
Taken(w) == IF TakesWindow(w) THEN {w} ELSE {}

\* killTarget for a pane.
LEMMA KillPaneIs ==
  ASSUME IInv, NEW w \in Window, KillPane(w)
  PROVE  /\ up /\ NewSpacer \in Spacer /\ w \in tmux.real
         /\ \E s, front, refuge :
              /\ Ready({}, Taken(w), w, front, refuge, s)
              /\ Shifts([s EXCEPT !.t = PanesGone(@, w)],
                        Escorted(s, Strays(w, Taken(w), front), refuge))
<1> DEFINE doomed == Taken(w)
           d(ends) == Disarmed(Now, doomed, ends, FALSE)
           Kills(ends, tail, again, agent, strays) ==
             \E refuge \in WaysOut(d(ends), doomed) :
               LET s == Spared(d(ends), doomed, refuge, tail, again, agent, strays # {})
               IN  Shifts([s EXCEPT !.t = PanesGone(@, w)], Escorted(s, strays, refuge))
<1>1. /\ up /\ w \in tmux.real /\ Unused(Now, Spacer) # {}
      /\ \E ends \in Maybe(Zoomed(dock) /\ doomed # {} /\ ~Uproots(doomed)),
            tail \in Maybe(Relocates(doomed)),
            again \in Maybe(Relocates(doomed) /\ Retries(Refuges(Now, doomed))),
            agent \in Maybe(Uproots(doomed) /\ ~Relocates(doomed)),
            strays \in Straying(w, doomed) : Kills(ends, tail, again, agent, strays)
  BY DEF KillPane, Taken
<1>2. doomed \in SUBSET Window
  BY DEF Taken
<1> HIDE DEF doomed, Kills
<1>3. \A cond : Maybe(cond) \subseteq BOOLEAN
  BY DEF Maybe
<1>4. PICK ends \in BOOLEAN, tail \in BOOLEAN, again \in BOOLEAN, agent \in BOOLEAN,
           front \in Fronts(w) : Kills(ends, tail, again, agent, Strays(w, doomed, front))
  BY <1>1, <1>3 DEF Straying
<1>5. PICK refuge \in WaysOut(d(ends), doomed) :
        LET strays == Strays(w, doomed, front)
            s == Spared(d(ends), doomed, refuge, tail, again, agent, strays # {})
        IN  Shifts([s EXCEPT !.t = PanesGone(@, w)], Escorted(s, strays, refuge))
  BY <1>4 DEF Kills
<1>6. Now \in State /\ Good(Now, {}) /\ Now.t = tmux /\ Now.dock = dock /\ Now.broke = broke
  BY <1>1, NewIsFresh DEF IInv, Now
<1>7. NewSpacer \in Spacer /\ NewSpacer \in Pane /\ Fresh(Now, NewSpacer)
  BY <1>1, NewIsFresh, NoneIsNot DEF IInv
<1>8. Good(d(ends), {}) /\ d(ends).broke = Now.broke /\ Fresh(d(ends), NewSpacer)
  BY <1>2, <1>6, <1>7, DisarmedGood, FALSE \in BOOLEAN
<1>9. /\ d(ends).t = tmux /\ (d(ends).dock = None <=> dock = None)
      /\ dock # None => d(ends).dock.win = dock.win
  BY <1>2, <1>6, DisarmedIs, FALSE \in BOOLEAN
<1> HIDE DEF d
<1>10. Ready({}, doomed, w, front, refuge,
             Spared(d(ends), doomed, refuge, tail, again, agent, Strays(w, doomed, front) # {}))
  BY <1>5, <1>6, <1>8, <1>9 DEF Ready
<1> QED
  BY <1>1, <1>5, <1>7, <1>10 DEF doomed

\* The daemon is in order when all that is left is the kill.
LEMMA ReadyGood ==
  ASSUME NEW D, NEW doomed \in SUBSET Window, NEW w, NEW front, NEW refuge, NEW s,
         NewSpacer \in Spacer, Ready(D, doomed, w, front, refuge, s)
  PROVE  Good(s, D)
<1>1. PICK d, tail, again, agent :
        /\ Good(d, D) /\ d.broke = broke /\ Fresh(d, NewSpacer)
        /\ tail \in BOOLEAN /\ again \in BOOLEAN /\ agent \in BOOLEAN
        /\ refuge \in WaysOut(d, doomed)
        /\ s = Spared(d, doomed, refuge, tail, again, agent, Strays(w, doomed, front) # {})
  BY DEF Ready
<1>2. (Strays(w, doomed, front) # {}) \in BOOLEAN
  OBVIOUS
<1> QED
  BY <1>1, <1>2, SparedGood

\* Killing from the sidebar.
LEMMA KillSteps ==
  ASSUME IInv, NEW w \in Window
  PROVE  (KillSession(w) => IInv') /\ (KillPane(w) => IInv')
<1>1. ASSUME KillSession(w) PROVE IInv'
  <2>1. PICK s, front, refuge :
          /\ Ready(Doomed(w), Doomed(w), w, front, refuge, s)
          /\ Shifts([s EXCEPT !.t = SessionGone(@, Doomed(w))],
                    Escorted(s, Strays(w, Doomed(w), front), refuge))
    BY <1>1, KillSessionIs
  <2>2. up /\ NewSpacer \in Spacer /\ Doomed(w) \in SUBSET Window
    BY <1>1, KillSessionIs DEF Doomed
  <2>3. Good(s, Doomed(w))
    BY <2>1, <2>2, ReadyGood
  <2>4. Good([s EXCEPT !.t = SessionGone(@, Doomed(w))], {})
    BY <2>2, <2>3, SessionGoneGood
  <2> QED
    BY <2>1, <2>2, <2>4, ShiftsStep
<1>2. ASSUME KillPane(w) PROVE IInv'
  <2>1. PICK s, front, refuge :
          /\ Ready({}, Taken(w), w, front, refuge, s)
          /\ Shifts([s EXCEPT !.t = PanesGone(@, w)],
                    Escorted(s, Strays(w, Taken(w), front), refuge))
    BY <1>2, KillPaneIs
  <2>2. up /\ NewSpacer \in Spacer /\ Taken(w) \in SUBSET Window
    BY <1>2, KillPaneIs DEF Taken
  <2>3. Good(s, {})
    BY <2>1, <2>2, ReadyGood
  <2>4. Good([s EXCEPT !.t = PanesGone(@, w)], {})
    BY <2>3, RealGoneGood
  <2> QED
    BY <2>1, <2>2, <2>4, ShiftsStep
<1> QED
  BY <1>1, <1>2

\* What the user does takes panes away at most.
LEMMA UserSteps ==
  ASSUME IInv
  PROVE  /\ \A w \in Window : Walks(w) \/ ClosesPanes(w) \/ ClosesWindow(w) => IInv'
         /\ \A p \in Pane : ClosesPane(p) => IInv'
         /\ Detaches \/ Reattach \/ GivesInput => IInv'
         /\ \A c \in Other : AnotherGoes(c) => IInv'
<1>1. /\ tmux \in Tmux /\ TypeOK
      /\ tmux.at \in [Pane -> Window \cup {None}] /\ tmux.shape \in [Window -> {"own", "docked", "torn"}]
      /\ rough \subseteq Window /\ user \in Nat /\ MaxUser \in Nat /\ user <= MaxUser
  BY DockAssumption DEF IInv, TypeOK, Tmux
<1>2. ASSUME NEW t \in Tmux, NEW torn \in SUBSET Window, Disturbs(t, torn), UNCHANGED <<daemon, input>>,
             broke' \in BOOLEAN, broke => broke',
             \A p \in Pane : t.at[p] \in {tmux.at[p], None},
             ~broke' => \A x \in Window \ (rough \cup torn) : WholeAt(tmux, x) => WholeAt(t, x)
      PROVE  IInv'
  <2>1. Alike(t, tmux')
    BY <1>2, SettleAlike DEF Disturbs
  <2>2. rough' = rough \cup torn /\ kick' = TRUE /\ user' = user + 1 /\ user < MaxUser
    BY <1>2 DEF Disturbs
  <2>3. user' \in 0..MaxUser
    BY <1>1, <2>2
  <2>4. tmux' \in Tmux /\ tmux'.at = t.at /\ \A x : WholeAt(t, x) => WholeAt(tmux', x)
    BY <2>1 DEF Alike, WholeAt, In
  <2>5. also' \in [Other -> Session \cup {None}]
    BY <1>2, StayingIs DEF Disturbs
  <2>6. input' \in Inputs
    BY <1>1, <1>2 DEF TypeOK
  <2> QED
    BY <1>1, <1>2, <2>2, <2>3, <2>4, <2>5, <2>6, UserStep
<1>3. ASSUME NEW w \in Window, Walks(w) PROVE IInv'
  <2>1. /\ tmux' = [tmux EXCEPT !.cur = w] /\ kick' = TRUE
        /\ UNCHANGED daemon /\ rough' = rough /\ broke' = broke /\ user' = user
        /\ also' = also /\ input' = input
    BY <1>3 DEF Walks
  <2>2. Alike(tmux, tmux')
    BY <1>1, <2>1 DEF Alike, Tmux
  <2>3. tmux' \in Tmux /\ tmux'.at = tmux.at /\ \A x : WholeAt(tmux, x) => WholeAt(tmux', x)
    BY <2>2 DEF Alike, WholeAt, In
  <2>4. /\ user' \in 0..MaxUser /\ broke' \in BOOLEAN
        /\ also' \in [Other -> Session \cup {None}] /\ input' \in Inputs
    BY <1>1, <2>1 DEF TypeOK
  <2> QED
    BY <1>1, <2>1, <2>3, <2>4, UserStep
<1>4. broke \in BOOLEAN /\ {} \in SUBSET Window
  BY <1>1 DEF TypeOK
<1>5. ASSUME NEW w \in Window, ClosesPanes(w) PROVE IInv'
  <2> DEFINE t == [tmux EXCEPT !.real = @ \ {w}]
  <2>1. t \in Tmux /\ t.at = tmux.at /\ t.real = tmux.real \ {w} /\ t.shape = tmux.shape
    BY <1>1 DEF Tmux
  <2>2. Disturbs(t, {}) /\ UNCHANGED <<daemon, input>> /\ broke' = broke
    BY <1>5 DEF ClosesPanes
  <2> HIDE DEF t
  <2>3. \A x \in Window : WholeAt(tmux, x) => WholeAt(t, x)
    BY <2>1 DEF WholeAt, In
  <2> QED
    BY <1>2, <1>4, <2>1, <2>2, <2>3
<1>6. ASSUME NEW w \in Window, ClosesWindow(w) PROVE IInv'
  <2> DEFINE at == [p \in Pane |-> IF tmux.at[p] = w THEN None ELSE tmux.at[p]]
             t == [tmux EXCEPT !.real = @ \ {w}, !.at = at]
  <2>1. Disturbs(t, {}) /\ UNCHANGED <<daemon, input>> /\ broke' = broke
    BY <1>6 DEF ClosesWindow
  <2>2. /\ at \in [Pane -> Window \cup {None}]
        /\ \A p \in Pane : at[p] = IF tmux.at[p] = w THEN None ELSE tmux.at[p]
    BY <1>1
  <2> HIDE DEF at
  <2>3. t \in Tmux /\ t.at = at /\ t.real = tmux.real \ {w} /\ t.shape = tmux.shape
    BY <1>1, <2>2 DEF Tmux
  <2> HIDE DEF t
  <2>4. ASSUME NEW x \in Window, WholeAt(tmux, x) PROVE WholeAt(t, x)
    <3>1. CASE x = w
      BY <2>3, <3>1 DEF WholeAt
    <3>2. CASE x # w
      <4>1. In(t, x) = In(tmux, x)
        BY <2>2, <2>3, <3>2, NoneIsNot DEF In
      <4> QED
        BY <2>3, <2>4, <4>1 DEF WholeAt
    <3> QED
      BY <3>1, <3>2
  <2>5. \A p \in Pane : t.at[p] \in {tmux.at[p], None}
    BY <2>2, <2>3
  <2> QED
    BY <1>2, <1>4, <2>1, <2>3, <2>4, <2>5
<1>7. ASSUME NEW p \in Pane, ClosesPane(p) PROVE IInv'
  <2> DEFINE t == Effect(Kill(p)[1], tmux)
  <2>1. Disturbs(t, {tmux.at[p]}) /\ UNCHANGED <<daemon, input>> /\ broke' = broke /\ tmux.at[p] # None
    BY <1>7 DEF ClosesPane
  <2>2. t \in Tmux /\ t.at = [tmux.at EXCEPT ![p] = None] /\ t.real = tmux.real
        /\ t.shape = [tmux.shape EXCEPT ![tmux.at[p]] = "torn"]
    <3> DEFINE c == Kill(p)[1]
    <3>1. <<c>> = Kill(p) /\ c = [do |-> "kill", pane |-> p]
      BY DEF Kill
    <3>2. Possible(c, tmux)
      BY <2>1, <3>1 DEF Possible
    <3> HIDE DEF c
    <3>3. Run(<<c>>, tmux) = IF Possible(c, tmux) THEN [t |-> Effect(c, tmux), ok |-> TRUE]
                                                  ELSE [t |-> tmux, ok |-> FALSE]
      BY RunOne
    <3>4. Run(Kill(p), tmux).t = Effect(c, tmux)
      BY <3>1, <3>2, <3>3
    <3>5. /\ Run(Kill(p), tmux).t \in Tmux /\ Run(Kill(p), tmux).t.at = [tmux.at EXCEPT ![p] = None]
          /\ Run(Kill(p), tmux).t.real = tmux.real
          /\ Run(Kill(p), tmux).t.shape = [tmux.shape EXCEPT ![tmux.at[p]] = "torn"]
      BY <1>1, <2>1, RunKill
    <3> QED
      BY <3>4, <3>5 DEF c
  <2> HIDE DEF t
  <2>3. {tmux.at[p]} \in SUBSET Window
    BY <1>1, <2>1
  <2>4. \A q \in Pane : t.at[q] \in {tmux.at[q], None}
    BY <1>1, <2>2
  <2>5. ASSUME NEW x \in Window \ {tmux.at[p]}, WholeAt(tmux, x) PROVE WholeAt(t, x)
    <3>1. In(t, x) = In(tmux, x)
      BY <1>1, <2>2, <2>5, NoneIsNot DEF In
    <3>2. t.shape[x] = tmux.shape[x]
      BY <1>1, <2>2, <2>5
    <3> QED
      BY <2>2, <2>5, <3>1, <3>2 DEF WholeAt
  <2> QED
    BY <1>2, <1>4, <2>1, <2>2, <2>3, <2>4, <2>5
<1>8. ASSUME Detaches PROVE IInv'
  <2> DEFINE t == [tmux EXCEPT !.cur = None]
  <2>1. Disturbs(t, {}) /\ UNCHANGED <<daemon, input>> /\ broke' = broke
    BY <1>8 DEF Detaches
  <2>2. t \in Tmux /\ t.at = tmux.at /\ t.real = tmux.real /\ t.shape = tmux.shape
    BY <1>1 DEF Tmux
  <2> HIDE DEF t
  <2>3. \A x \in Window : WholeAt(tmux, x) => WholeAt(t, x)
    BY <2>2 DEF WholeAt, In
  <2> QED
    BY <1>2, <1>4, <2>1, <2>2, <2>3
<1>9. ASSUME Reattach PROVE IInv'
  <2> DEFINE t == Without(Spacer)
  <2>1. Disturbs(t, {}) /\ UNCHANGED <<daemon, input>> /\ broke' = (broke \/ \E p \in Spacer : tmux.at[p] # None)
    BY <1>9 DEF Reattach
  <2>2. broke' \in BOOLEAN /\ (broke => broke')
    BY <1>4, <2>1
  <2>3. /\ t \in Tmux /\ \A p \in Pane : t.at[p] = IF p \in Spacer THEN None ELSE tmux.at[p]
        /\ t.real = tmux.real
        /\ \A x \in Window : t.shape[x] = IF In(tmux, x) \cap Spacer # {} THEN "torn" ELSE tmux.shape[x]
    BY <1>1, WithoutIs
  <2> HIDE DEF t
  <2>4. ASSUME ~broke', NEW x \in Window, WholeAt(tmux, x) PROVE WholeAt(t, x)
    <3>1. \A p \in Spacer : tmux.at[p] = None
      BY <2>1, <2>4
    <3>2. In(t, x) = In(tmux, x) /\ In(tmux, x) \cap Spacer = {}
      BY <2>3, <3>1, NoneIsNot DEF In
    <3> QED
      BY <2>3, <2>4, <3>2 DEF WholeAt
  <2>5. \A p \in Pane : t.at[p] \in {tmux.at[p], None}
    BY <2>3
  <2> QED
    BY <1>2, <1>4, <2>1, <2>2, <2>3, <2>4, <2>5
<1>10. /\ also \in [Other -> Session \cup {None}] /\ kick \in BOOLEAN /\ input \in Inputs
       /\ \A t : t = tmux => /\ t \in Tmux /\ \A p \in Pane : t.at[p] \in {tmux.at[p], None}
                              /\ \A x \in Window : WholeAt(tmux, x) => WholeAt(t, x)
  BY <1>1 DEF TypeOK
<1>11. ASSUME GivesInput PROVE IInv'
  <2>1. /\ tmux' = tmux /\ UNCHANGED daemon /\ kick' = kick /\ rough' = rough
        /\ broke' = broke /\ user' = user /\ also' = also /\ input' \in Inputs
    BY <1>11 DEF GivesInput
  <2>2. user' \in 0..MaxUser
    BY <1>1, <2>1 DEF TypeOK
  <2> QED
    BY <1>1, <1>4, <1>10, <2>1, <2>2, UserStep
<1>12. ASSUME NEW c \in Other, AnotherGoes(c) PROVE IInv'
  <2>1. /\ tmux' = tmux /\ UNCHANGED daemon /\ kick' = TRUE /\ rough' = rough
        /\ broke' = broke /\ user < MaxUser /\ user' = user + 1 /\ input' = input
        /\ \E s \in Session \cup {None} : also' = [also EXCEPT ![c] = s]
    BY <1>12 DEF AnotherGoes, Session
  <2>2. user' \in 0..MaxUser
    BY <1>1, <2>1
  <2>3. also' \in [Other -> Session \cup {None}]
    BY <1>10, <2>1
  <2> QED
    BY <1>1, <1>4, <1>10, <2>1, <2>2, <2>3, UserStep
<1> QED
  BY <1>3, <1>5, <1>6, <1>7, <1>8, <1>9, <1>11, <1>12

\* The end of the daemon, and the next one.
LEMMA LifeSteps == ASSUME IInv PROVE Crash \/ Start => IInv'
<1>1. /\ tmux \in Tmux /\ TypeOK
      /\ rough \subseteq Window /\ user \in Nat /\ MaxUser \in Nat /\ user <= MaxUser
      /\ \A p \in Pane : tmux.at[p] \in Window \cup {None}
  BY DockAssumption DEF IInv, TypeOK, Tmux
<1>2. ASSUME Crash PROVE IInv'
  <2> DEFINE t == Without(Sidebar)
             torn == {w \in Window : In(tmux, w) # {}}
  <2>1. /\ up' = FALSE /\ dock' = None /\ closing' = None /\ queue' = Nobody
        /\ claims' = {} /\ armed' = FALSE /\ broke' = broke /\ tmux' = Settle(t)
        /\ rough' = rough \cup torn /\ kick' = TRUE /\ user' = user + 1 /\ user < MaxUser
    BY <1>2 DEF Crash, Disturbs
  <2>2. /\ t \in Tmux /\ \A p \in Pane : t.at[p] = IF p \in Sidebar THEN None ELSE tmux.at[p]
        /\ t.real = tmux.real
        /\ \A x \in Window : t.shape[x] = IF In(tmux, x) \cap Sidebar # {} THEN "torn" ELSE tmux.shape[x]
    BY <1>1, WithoutIs
  <2>3. torn \subseteq Window /\ (\A x \in Window \ torn : In(tmux, x) = {})
        /\ \A p \in Pane : tmux.at[p] # None => tmux.at[p] \in torn
    BY <1>1 DEF In
  <2> HIDE DEF t, torn
  <2>4. tmux' \in Tmux /\ tmux'.at = t.at /\ tmux'.real = t.real /\ tmux'.shape = t.shape
    BY <2>1, <2>2, SettleAlike DEF Alike
  <2>5. user' \in 0..MaxUser /\ broke \in BOOLEAN
    BY <1>1, <2>1 DEF TypeOK
  <2>12. also' \in [Other -> Session \cup {None}] /\ input' \in Inputs
    BY <1>2, StayingIs DEF Crash, Disturbs, Inputs
  <2>6. TypeOK'
    BY <1>1, <2>1, <2>3, <2>4, <2>5, <2>12, NobodyIs DEF TypeOK
  <2>7. /\ Now'.t = tmux' /\ Now'.dock = None /\ Now'.closing = None /\ Now'.queue = Nobody
        /\ Now'.broke = broke /\ Now' \in State
    BY <2>1, <2>6 DEF Now, TypeOK, State
  <2>8. ASSUME ~broke, NEW x \in Window \ rough' PROVE WholeAt(tmux', x)
    <3>1. Whole(tmux)
      BY <2>8 DEF IInv, Good, Sound, Now
    <3>2. x \notin rough /\ In(tmux, x) = {}
      BY <2>1, <2>3, <2>8
    <3>3. WholeAt(tmux, x)
      BY <3>1, <3>2, <2>8 DEF Whole
    <3> QED
      BY <2>2, <2>4, <2>8, <3>2, <3>3 DEF WholeAt
  <2>9. \A p \in Pane : tmux'.at[p] # None => p \in Spacer /\ tmux'.at[p] \in Window /\ tmux'.at[p] \in rough'
    BY <1>1, <2>1, <2>2, <2>3, <2>4 DEF Pane
  <2>10. Good(Now, Window)'
    <3>1. InSlots(tmux', Nobody)
      BY NobodyIs DEF InSlots
    <3>2. Nobody' = Nobody
      BY DEF Nobody
    <3> QED
      BY <2>7, <2>8, <2>9, <3>1, <3>2 DEF Good, Sound, Whole
  <2>11. Nobody' = Nobody
    BY DEF Nobody
  <2> QED
    BY <2>1, <2>6, <2>9, <2>10, <2>11 DEF IInv
<1>3. ASSUME Start PROVE IInv'
  <2> DEFINE t == Without(Spacer)
  <2>1. /\ ~up /\ up' = TRUE /\ tmux' = Settle(t) /\ kick' = TRUE
        /\ dock' = dock /\ closing' = closing /\ queue' = queue /\ claims' = claims
        /\ armed' = armed /\ rough' = rough /\ broke' = broke /\ user' = user
    BY <1>3 DEF Start
  <2>2. /\ dock = None /\ closing = None /\ queue = Nobody
        /\ \A p \in Pane : tmux.at[p] # None => p \in Spacer /\ tmux.at[p] \in rough
    BY <2>1 DEF IInv
  <2>3. /\ t \in Tmux /\ \A p \in Pane : t.at[p] = IF p \in Spacer THEN None ELSE tmux.at[p]
        /\ t.real = tmux.real
        /\ \A x \in Window : t.shape[x] = IF In(tmux, x) \cap Spacer # {} THEN "torn" ELSE tmux.shape[x]
    BY <1>1, WithoutIs
  <2> HIDE DEF t
  <2>4. tmux' \in Tmux /\ tmux'.at = t.at /\ tmux'.real = t.real /\ tmux'.shape = t.shape
    BY <2>1, <2>3, SettleAlike DEF Alike
  <2>10. also' \in [Other -> Session \cup {None}] /\ input' = input
    BY <1>3, StayingIs DEF Start
  <2>5. TypeOK'
    BY <1>1, <2>1, <2>4, <2>10 DEF TypeOK
  <2>6. /\ Now'.t = tmux' /\ Now'.dock = None /\ Now'.closing = None /\ Now'.queue = Nobody
        /\ Now'.broke = broke /\ Now' \in State
    BY <2>1, <2>2, <2>5 DEF Now, TypeOK, State
  <2>7. \A p \in Pane : tmux'.at[p] = None
    BY <2>2, <2>3, <2>4
  <2>8. ASSUME ~broke, NEW x \in Window \ rough PROVE WholeAt(tmux', x)
    <3>1. Whole(tmux)
      BY <2>8 DEF IInv, Good, Sound, Now
    <3>2. In(tmux, x) = {}
      BY <2>2, <2>8, NoneIsNot DEF In
    <3> QED
      BY <2>3, <2>4, <2>8, <3>1, <3>2 DEF WholeAt, Whole
  <2>9. Good(Now, {})'
    <3>1. InSlots(tmux', Nobody)
      BY NobodyIs DEF InSlots
    <3>2. Nobody' = Nobody
      BY DEF Nobody
    <3> QED
      BY <2>1, <2>6, <2>7, <2>8, <3>1, <3>2 DEF Good, Sound, Whole
  <2> QED
    BY <2>1, <2>5, <2>9 DEF IInv
<1> QED
  BY <1>2, <1>3

-----------------------------------------------------------------------------
(* The theorems.                                                             *)

\* A daemon that starts on a server without a pane of winch.
LEMMA InitInv == Init => IInv
<1> SUFFICES ASSUME Init PROVE IInv
  OBVIOUS
<1>1. PICK w \in Window :
        tmux = [at |-> [p \in Pane |-> None], real |-> Window,
                shape |-> [x \in Window |-> "own"], cur |-> w]
  BY DEF Init
<1>2. /\ tmux.at = [p \in Pane |-> None] /\ tmux.real = Window
      /\ tmux.shape = [x \in Window |-> "own"] /\ tmux.cur = w
  BY <1>1
<1>3. tmux \in Tmux
  BY <1>1 DEF Tmux
<1>4. TypeOK
  <2>1. user \in 0..MaxUser
    BY DockAssumption DEF Init
  <2>2. queue \in MaybeSpacers
    BY NobodyIs DEF Init
  <2> QED
    BY <1>3, <2>1, <2>2 DEF Init, TypeOK, Inputs
<1>5. /\ Now.t = tmux /\ Now.dock = None /\ Now.closing = None /\ Now.queue = Nobody
      /\ Now \in State
  BY <1>4 DEF Init, Now, TypeOK, State
<1>6. Good(Now, {})
  <2>1. InSlots(tmux, Nobody)
    BY NobodyIs DEF InSlots
  <2>2. Whole(tmux)
    BY <1>2 DEF Whole, WholeAt
  <2> QED
    BY <1>2, <1>5, <2>1, <2>2 DEF Good, Sound
<1> QED
  BY <1>4, <1>6 DEF Init, IInv

\* Every step of the daemon, the user and tmux keeps the invariant.
LEMMA StepInv == IInv /\ [Next]_vars => IInv'
<1> SUFFICES ASSUME IInv, [Next]_vars PROVE IInv'
  OBVIOUS
<1>1. CASE UNCHANGED vars
  BY <1>1, SameStep
<1>2. CASE DockOpen \/ DockClose \/ EndScrub \/ Relist \/ CloseTimer \/ ReleaseTimer
  BY <1>2, CommandSteps
<1>3. ASSUME NEW w \in Window, ToggleOnTarget(w) \/ MoveTo(w) \/ Preview(w) \/ GotoPane(w) PROVE IInv'
  BY <1>3, WindowSteps
<1>4. ASSUME NEW w \in Window, KillSession(w) \/ KillPane(w) PROVE IInv'
  BY <1>4, KillSteps
<1>5. ASSUME NEW w \in Window, Walks(w) \/ ClosesPanes(w) \/ ClosesWindow(w) PROVE IInv'
  BY <1>5, UserSteps
<1>6. ASSUME NEW p \in Pane, ClosesPane(p) PROVE IInv'
  BY <1>6, UserSteps
<1>7. CASE Detaches \/ Reattach \/ GivesInput \/ \E c \in Other : AnotherGoes(c)
  BY <1>7, UserSteps
<1>8. CASE Crash \/ Start
  BY <1>8, LifeSteps
<1> QED
  BY <1>1, <1>2, <1>3, <1>4, <1>5, <1>6, <1>7, <1>8 DEF Next

\* The invariant holds in every state of every behaviour: whatever the commands, the
\* timers, the user and the crashes do, and in whatever order.
THEOREM Inductive == Spec => []IInv
  BY InitInv, StepInv, PTL DEF Spec

\* What the daemon keeps has its type.
THEOREM TypeCorrect == Spec => []TypeOK
<1>1. IInv => TypeOK
  BY DEF IInv
<1> QED
  BY <1>1, Inductive, PTL

\* Only one of the dock, a close under way and the releases that wait owns the
\* spacers, and a release that waits has its timer (dock.go:656).
THEOREM OneOwnerHolds == Spec => [](~broke => OneOwner)
<1>1. IInv => (~broke => OneOwner)
  BY DEF IInv, Good, Sound, Now, OneOwner
<1> QED
  BY <1>1, Inductive, PTL

\* No spacer and no sidebar is ever forgotten while the daemon runs: each is on the
\* record of the dock, of the close under way or of the releases that wait.
THEOREM NoOrphansHolds == Spec => []NoOrphans
<1>1. ASSUME IInv PROVE NoOrphans
  <2>1. ASSUME up, ~broke, NEW p \in Pane, tmux.at[p] # None PROVE p \in Known(Now)
    <3>1. Now \in State /\ Keeps(Now, p)
      BY <1>1, <2>1 DEF IInv, Good, Sound, Now
    <3> QED
      BY <3>1, KnownIs
  <2> QED
    BY <2>1 DEF NoOrphans
<1> QED
  BY <1>1, Inductive, PTL

\* Every pane on the daemon's record is in the window of its entry, or nowhere.
THEOREM PanesInPlaceHolds == Spec => []PanesInPlace
<1>1. ASSUME IInv PROVE PanesInPlace
  <2>1. ASSUME ~broke, dock # None PROVE Placed(tmux, dock)
    BY <1>1, <2>1 DEF IInv, Good, Sound, Now
  <2>2. ASSUME ~broke, closing # None PROVE Placed(tmux, closing)
    BY <1>1, <2>2 DEF IInv, Good, Sound, Now
  <2>3. ASSUME ~broke PROVE InSlots(tmux, queue)
    BY <1>1, <2>3 DEF IInv, Good, Sound, Now
  <2> QED
    BY <2>1, <2>2, <2>3 DEF PanesInPlace, Placed, InSlots, Holding
<1> QED
  BY <1>1, Inductive, PTL

\* A window without a pane of winch, which nobody but winch has reshaped, has the
\* shape that its user gave it.
THEOREM WindowsWholeHolds == Spec => []WindowsWhole
<1>1. ASSUME IInv PROVE WindowsWhole
  <2>1. ASSUME ~broke PROVE Whole(tmux)
    BY <1>1, <2>1 DEF IInv, Good, Sound, Now
  <2>2. tmux.real \subseteq Window
    BY <1>1 DEF IInv, TypeOK, Tmux
  <2> QED
    BY <2>1, <2>2 DEF WindowsWhole, Whole, WholeAt
<1> QED
  BY <1>1, Inductive, PTL

-----------------------------------------------------------------------------
(* The client.                                                               *)

\* The client, if there is one, is in a window that is there.
Seated(t) == t.cur # None => Live(t, t.cur)

\* A client whose window is gone is taken to another, or has none.
LEMMA SettleSeated ==
  ASSUME NEW t \in Tmux
  PROVE  Seated(Settle(t)) /\ (Seated(t) => Settle(t) = t)
<1> DEFINE rest == {w \in Window : Live(t, w) /\ SessOf[w] = SessOf[t.cur]}
           c == CHOOSE w \in rest : TRUE
           x == IF rest = {} THEN None ELSE c
           u == [t EXCEPT !.cur = x]
<1>1. Settle(t) = IF t.cur = None \/ Live(t, t.cur) THEN t ELSE u
  BY DEF Settle
<1>2. rest # {} => c \in Window /\ Live(t, c)
  <2>1. rest # {} => c \in rest
    OBVIOUS
  <2> QED
    BY <2>1
<1>3. u.at = t.at /\ u.real = t.real /\ u.cur = x
  BY DEF Tmux
<1>4. x # None => Live(t, x)
  BY <1>2
<1> HIDE DEF x, u
<1>5. Live(u, x) <=> Live(t, x)
  BY <1>3, LiveAlike
<1>6. Seated(u)
  BY <1>3, <1>4, <1>5 DEF Seated
<1> QED
  BY <1>1, <1>6 DEF Seated

\* tmux settles a client whose window closes with the pane that is killed.
LEMMA KillSettles ==
  ASSUME NEW t \in Tmux, NEW p \in Pane, t.at[p] # None
  PROVE  \E u \in Tmux : /\ Run(Kill(p), t).t = Settle(u) /\ u.at = [t.at EXCEPT ![p] = None]
                         /\ u.real = t.real /\ u.cur = t.cur
<1> DEFINE c == [do |-> "kill", pane |-> p]
           u == [t EXCEPT !.at[p] = None, !.shape[t.at[p]] = "torn"]
<1>1. c.do = "kill" /\ c.pane = p
  OBVIOUS
<1> HIDE DEF c
<1>2. Possible(c, t) /\ Effect(c, t) = Settle(u)
  BY <1>1 DEF Possible, Effect
<1>3. Run(Kill(p), t) = IF Possible(c, t) THEN [t |-> Effect(c, t), ok |-> TRUE]
                                          ELSE [t |-> t, ok |-> FALSE]
  BY RunOne DEF Kill, c
<1>4. u \in Tmux /\ u.at = [t.at EXCEPT ![p] = None] /\ u.real = t.real /\ u.cur = t.cur
  BY DEF Tmux
<1> HIDE DEF u
<1>5. Run(Kill(p), t).t = Settle(u)
  BY <1>2, <1>3
<1> QED
  BY <1>4, <1>5

\* A swap leaves no window empty.
LEMMA SwapLive ==
  ASSUME NEW t \in Tmux, NEW r, NEW p \in Pane, NEW q \in Pane, Swaps(r, t, p, q)
  PROVE  \A x : Live(t, x) => Live(r.t, x)
<1>1. t.at \in [Pane -> Window \cup {None}]
  BY DEF Tmux
<1>2. ASSUME NEW x, Live(t, x) PROVE Live(r.t, x)
  <2>1. CASE r.ok
    <3>1. r.t.real = t.real /\ r.t.at = [t.at EXCEPT ![p] = t.at[q], ![q] = t.at[p]]
      BY <2>1 DEF Swaps
    <3>2. CASE x \in t.real
      BY <3>1, <3>2 DEF Live
    <3>3. ASSUME NEW o \in Pane, t.at[o] = x PROVE \E i \in Pane : r.t.at[i] = x
      BY <1>1, <3>1, <3>3
    <3> QED
      BY <1>2, <3>2, <3>3 DEF Live, In
  <2> QED
    BY <1>2, <2>1 DEF Swaps
<1> QED
  BY <1>2

\* Nor does a pane that is new.
LEMMA SplitLive ==
  ASSUME NEW t \in Tmux, NEW r, NEW p \in Pane, NEW w \in Window, Splits(r, t, w, p), t.at[p] = None
  PROVE  \A x \in Window : Live(t, x) => Live(r.t, x)
<1>1. t.at \in [Pane -> Window \cup {None}]
  BY DEF Tmux
<1>2. ASSUME NEW x \in Window, Live(t, x) PROVE Live(r.t, x)
  <2>1. CASE r.ok
    <3>1. r.t.real = t.real /\ r.t.at = [t.at EXCEPT ![p] = w]
      BY <2>1 DEF Splits
    <3>2. CASE x \in t.real
      BY <3>1, <3>2 DEF Live
    <3>3. ASSUME NEW o \in Pane, t.at[o] = x PROVE \E i \in Pane : r.t.at[i] = x
      BY <1>1, <3>1, <3>3, NoneIsNot
    <3> QED
      BY <1>2, <3>2, <3>3 DEF Live, In
  <2> QED
    BY <1>2, <2>1 DEF Splits
<1> QED
  BY <1>2

\* Commands that add no pane.
Calm == {c \in Cmd : c.do # "split"}

\* The lines of such commands.
LEMMA CalmLines ==
  /\ <<>> \in Seq(Calm) /\ \A b \in BOOLEAN : Focus(b) \in Seq(Calm)
  /\ \A p \in Pane : Kill(p) \in Seq(Calm)
  /\ \A p, q \in Pane : Swap(p, q) \in Seq(Calm)
  /\ \A w \in Window : Layout(w) \in Seq(Calm) /\ Select(w) \in Seq(Calm) /\ Switch(w) \in Seq(Calm)
  /\ \A W \in SUBSET Window : Mark(W) \in Seq(Calm) /\ Replay(W) \in Seq(Calm)
<1>1. /\ \A p \in Pane : [do |-> "kill", pane |-> p] \in Calm
      /\ \A p, q \in Pane : [do |-> "swap", pane |-> p, with |-> q] \in Calm
      /\ \A w \in Window : /\ [do |-> "layout", win |-> w] \in Calm
                           /\ [do |-> "select", win |-> w] \in Calm
                           /\ [do |-> "switch", win |-> w] \in Calm
  BY DEF Cmd, Calm
<1>2. /\ \A W \in SUBSET Window : /\ [do |-> "mark", wins |-> W] \in Calm
                                  /\ [do |-> "replay", wins |-> W] \in Calm
      /\ \A b \in BOOLEAN : [do |-> "focus", ok |-> b] \in Calm
  BY DEF Cmd, Calm
<1> HIDE DEF Calm
<1>3. <<>> \in Seq(Calm) /\ \A c \in Calm : <<c>> \in Seq(Calm)
  OBVIOUS
<1>4. ASSUME NEW p \in Pane PROVE Kill(p) \in Seq(Calm) /\ \A q \in Pane : Swap(p, q) \in Seq(Calm)
  BY <1>1, <1>3 DEF Kill, Swap
<1>5. ASSUME NEW w \in Window
      PROVE  Layout(w) \in Seq(Calm) /\ Select(w) \in Seq(Calm) /\ Switch(w) \in Seq(Calm)
  BY <1>1, <1>3 DEF Layout, Select, Switch
<1>6. ASSUME NEW W \in SUBSET Window PROVE Mark(W) \in Seq(Calm) /\ Replay(W) \in Seq(Calm)
  BY <1>2, <1>3 DEF Mark, Replay
<1>7. ASSUME NEW b \in BOOLEAN PROVE Focus(b) \in Seq(Calm)
  BY <1>2, <1>3 DEF Focus
<1> QED
  BY <1>3, <1>4, <1>5, <1>6, <1>7

\* Such a command leaves the client in a window that is there.
LEMMA OneSeated ==
  ASSUME NEW t \in Tmux, Seated(t), NEW c \in Calm, Possible(c, t)
  PROVE  Effect(c, t) \in Tmux /\ Seated(Effect(c, t))
<1>1. Effect(c, t) = Run(<<c>>, t).t
  <2>1. Run(<<c>>, t) = [t |-> Effect(c, t), ok |-> TRUE]
    BY RunOne
  <2> QED
    BY <2>1
<1>2. Effect(c, t) \in Tmux
  BY <1>1, OneType DEF Calm
<1>3. CASE c \in [do : {"kill"}, pane : Pane]
  <2>1. PICK p \in Pane : c = [do |-> "kill", pane |-> p]
    BY <1>3
  <2>2. <<c>> = Kill(p)
    BY <2>1 DEF Kill
  <2>3. t.at[p] # None
    BY <2>1 DEF Possible
  <2>4. PICK u \in Tmux : Run(Kill(p), t).t = Settle(u)
    BY <2>3, KillSettles
  <2>5. Seated(Settle(u))
    BY SettleSeated
  <2> QED
    BY <1>1, <1>2, <2>2, <2>4, <2>5
<1>4. CASE c \in [do : {"swap"}, pane : Pane, with : Pane]
  <2>1. PICK p, q \in Pane : c = [do |-> "swap", pane |-> p, with |-> q]
    BY <1>4
  <2>2. <<c>> = Swap(p, q)
    BY <2>1 DEF Swap
  <2>3. Swaps(Run(<<c>>, t), t, p, q)
    BY <2>2, RunSwap
  <2>4. \A x : Live(t, x) => Live(Run(<<c>>, t).t, x)
    BY <2>3, SwapLive
  <2>5. Run(<<c>>, t).t.cur = t.cur
    BY <2>3 DEF Swaps
  <2> QED
    BY <1>1, <1>2, <2>4, <2>5 DEF Seated
<1>5. CASE c \in [do : {"layout", "select", "switch"}, win : Window]
  <2>1. PICK w \in Window : \/ c = [do |-> "layout", win |-> w] \/ c = [do |-> "select", win |-> w]
                            \/ c = [do |-> "switch", win |-> w]
    BY <1>5
  <2>2. CASE c.do = "layout"
    <3>1. Effect(c, t) = [t EXCEPT !.shape[c.win] = "own"]
      BY <2>2 DEF Effect
    <3>2. Effect(c, t).at = t.at /\ Effect(c, t).real = t.real /\ Effect(c, t).cur = t.cur
      BY <3>1 DEF Tmux
    <3> QED
      BY <1>2, <3>2, LiveAlike DEF Seated
  <2>3. CASE c.do # "layout"
    <3>1. <<c>> = Select(w) \/ <<c>> = Switch(w)
      BY <2>1, <2>3 DEF Select, Switch
    <3> DEFINE u == Run(<<c>>, t).t
    <3>2. Alike(t, u) /\ (u.cur = t.cur \/ (u.cur = w /\ Live(t, w)))
      <4>1. CASE <<c>> = Select(w)
        BY <4>1, ClientGoes
      <4>2. CASE <<c>> = Switch(w)
        BY <4>2, ClientGoes
      <4> QED
        BY <3>1, <4>1, <4>2
    <3> HIDE DEF u
    <3>3. Seated(u)
      BY <3>2, LiveAlike DEF Seated, Alike
    <3> QED
      BY <1>1, <1>2, <3>3 DEF u
  <2> QED
    BY <2>2, <2>3
<1>6. CASE c \in [do : {"mark", "replay"}, wins : SUBSET Window] \cup [do : {"focus"}, ok : BOOLEAN]
  <2>1. c.do \in {"mark", "replay", "focus"}
    BY <1>6
  <2>2. Effect(c, t) = t
    BY <2>1 DEF Effect
  <2> QED
    BY <2>2
<1> QED
  BY <1>3, <1>4, <1>5, <1>6 DEF Calm, Cmd

\* So does a line of them.
LEMMA RunSeated ==
  ASSUME NEW t \in Tmux, Seated(t), NEW l \in Seq(Calm)
  PROVE  Run(l, t).t \in Tmux /\ Seated(Run(l, t).t)
<1> DEFINE r == Running(l, t)
           P == {i \in 0..Len(l) : r[i].t \in Tmux /\ Seated(r[i].t)}
<1>1. Len(l) \in Nat /\ \A i \in 1..Len(l) : l[i] \in Calm
  BY LenProperties
<1>2. r[0] = [t |-> t, ok |-> TRUE] /\ \A i \in 1..Len(l) : r[i] = After(r[i - 1], l[i])
  BY <1>1, RunningStep
<1> HIDE DEF r
<1>3. ASSUME NEW i \in 0..Len(l), i < Len(l), i \in P PROVE i + 1 \in P
  <2>1. i + 1 \in 1..Len(l) /\ (i + 1) - 1 = i /\ i + 1 \in 0..Len(l)
    BY <1>1, <1>3
  <2> DEFINE c == l[i + 1]
             u == r[i].t
  <2>2. c \in Calm /\ u \in Tmux /\ Seated(u) /\ r[i + 1] = After(r[i], c)
    BY <1>1, <1>2, <1>3, <2>1
  <2>3. r[i + 1].t = u \/ (Possible(c, u) /\ r[i + 1].t = Effect(c, u))
    BY <2>2 DEF After
  <2> HIDE DEF c, u
  <2>4. Possible(c, u) => Effect(c, u) \in Tmux /\ Seated(Effect(c, u))
    BY <2>2, OneSeated
  <2>5. r[i + 1].t \in Tmux /\ Seated(r[i + 1].t)
    BY <2>2, <2>3, <2>4
  <2> QED
    BY <2>1, <2>5
<1>4. Len(l) \in P
  <2>1. 0 \in P
    BY <1>1, <1>2
  <2> HIDE DEF P
  <2>2. \A i \in 0..Len(l) : i \in P
    BY <1>1, <1>3, <2>1, UpTo
  <2> QED
    BY <1>1, <2>2
<1> QED
  BY <1>4 DEF Run, r

-----------------------------------------------------------------------------
(* A move takes the client along.                                            *)

\* From t to u the client stays or comes to w; it comes if w is in its session, or in
\* another than the window the sidebar came from.
Along(t, u, w, from) ==
  /\ u.cur \in {t.cur, w}
  /\ SessOf[t.cur] = SessOf[w] \/ SessOf[w] # SessOf[from] => u.cur = w

\* The end of a line that takes the sidebar to w, after a part a that has run whole.
LEMMA TailAlong ==
  ASSUME NEW t \in Tmux, NEW l \in Seq(Cmd), NEW w \in Window, NEW from \in Window, NEW b \in BOOLEAN,
         NEW m, SessOf[w] # SessOf[from] => m = Switch(w), SessOf[w] = SessOf[from] => m = <<>>,
         Run(l, t).ok, Live(Run(l, t).t, w), Run(l, t).t.cur # None
  PROVE  LET r == Run(l \o Select(w) \o m \o Focus(b), t)
         IN  Alike(Run(l, t).t, r.t) /\ Along(Run(l, t).t, r.t, w, from)
<1> DEFINE a == Run(l, t).t
           l1 == l \o Select(w)
           l2 == l1 \o m
           l3 == l2 \o Focus(b)
           b1 == Run(l1, t)
           b2 == Run(l2, t)
           b3 == Run(l3, t)
<1>1. Select(w) \in Seq(Cmd) /\ m \in Seq(Cmd) /\ Focus(b) \in Seq(Cmd)
  <2>1. Select(w) \in Seq(Cmd) /\ Switch(w) \in Seq(Cmd) /\ <<>> \in Seq(Cmd) /\ Focus(b) \in Seq(Cmd)
    BY Lines
  <2>2. m = Switch(w) \/ m = <<>>
    OBVIOUS
  <2> HIDE DEF Cmd
  <2> QED
    BY <2>1, <2>2
<1>2. a \in Tmux
  <2> HIDE DEF Cmd
  <2> QED
    BY RunType
<1> HIDE DEF Cmd
<1>3. b1 = Run(Select(w), a) /\ l1 \in Seq(Cmd)
  BY <1>1, RunConcat, ConcatProperties
<1> HIDE DEF l1
<1>4. b2 = (IF b1.ok THEN Run(m, b1.t) ELSE b1) /\ l2 \in Seq(Cmd)
  <2>1. l1 \in Seq(Cmd) /\ m \in Seq(Cmd)
    BY <1>1, <1>3
  <2>2. Run(l1 \o m, t) = IF Run(l1, t).ok THEN Run(m, Run(l1, t).t) ELSE Run(l1, t)
    BY <2>1, RunConcat
  <2>3. l2 \in Seq(Cmd)
    BY <2>1, ConcatProperties
  <2> QED
    BY <2>2, <2>3
<1> HIDE DEF l2
<1>5. b3 = (IF b2.ok THEN Run(Focus(b), b2.t) ELSE b2)
  BY <1>1, <1>4, RunConcat
<1>6. b3.t = b2.t
  <2>1. Run(Focus(b), b2.t).t = b2.t
    BY RunOptions, {} \in SUBSET Window
  <2> QED
    BY <1>5, <2>1
<1> DEFINE v == b1.t
<1>7. Live(a, w) /\ a.cur # None
  OBVIOUS
<1> HIDE DEF a
<1>8. Alike(a, v) /\ b1.ok /\ v.cur = IF SessOf[a.cur] = SessOf[w] THEN w ELSE a.cur
  BY <1>2, <1>3, <1>7, ClientGoes
<1>9. b2 = Run(m, v)
  BY <1>4, <1>8
<1>10. v \in Tmux /\ Live(v, w) /\ v.cur # None
  BY <1>7, <1>8, LiveAlike, NoneIsNot DEF Alike
<1> HIDE DEF b1, v, b2
<1>11. CASE SessOf[w] # SessOf[from]
  <2>1. b2 = Run(Switch(w), v)
    BY <1>9, <1>11
  <2>2. Alike(v, b2.t) /\ b2.t.cur = w
    BY <1>10, <2>1, ClientGoes
  <2> QED
    BY <1>6, <1>8, <1>11, <2>2 DEF Alike, Along, a, l1, l2, b2
<1>12. CASE SessOf[w] = SessOf[from]
  <2>1. b2.t = v
    BY <1>9, <1>12, RunNone
  <2> QED
    BY <1>6, <1>8, <1>12, <2>1 DEF Alike, Along, a, l1, l2, b2
<1> QED
  BY <1>11, <1>12

\* Only a pane in w has been split off, and the client is where it was.
SplitOnly(t, u, q, w) ==
  u \in Tmux /\ u.real = t.real /\ u.at = [t.at EXCEPT ![q] = w] /\ u.cur = t.cur

\* An attempt that fails halfway has done nothing, split only, or moved all but the rest
\* of its line; where the sidebar has moved the client has come along.
LEMMA AttemptAlong ==
  ASSUME NEW s \in State, s.dock # None, NEW w \in Window, NEW q \in Spacer \cup {None},
         NEW tail \in BOOLEAN, NewSpacer \in Spacer, Live(s.t, w),
         q = None => s.t.at[NewSpacer] = None, q # None => s.t.at[q] \in {w, None}
  PROVE  LET r == Attempt(s, w, q, tail)
             n == IF q = None THEN NewSpacer ELSE q
         IN  /\ \A x \in Window : Live(s.t, x) => Live(r.t, x)
             /\ \/ ~r.ok /\ r.t = s.t
                \/ ~r.ok /\ q = None /\ SplitOnly(s.t, r.t, n, w)
                \/ /\ Moved(s.t, r.t, s.dock.pane, n, w)
                   /\ s.t.cur # None => Along(s.t, r.t, w, s.dock.win)
<1> DEFINE t == s.t
           p == s.dock.pane
           n == NewSpacer
           from == s.dock.win
           K == Mark({w} \ s.claims)
           X == IF q # None THEN Swap(p, q) ELSE Split(w, n) \o Swap(p, n)
           m == IF SessOf[w] # SessOf[from] THEN Switch(w) ELSE <<>>
           l == K \o X
           r == Attempt(s, w, q, tail)
           a == Run(l, t)
           x == Run(X, t)
           b == Run(Split(w, n), t)
           c == Run(Swap(p, n), b.t)
           d == Run(Swap(p, q), t)
<1>1. /\ t \in Tmux /\ p \in Pane /\ p \in Sidebar /\ n \in Pane /\ n \in Spacer /\ p # n
      /\ from \in Window
  BY NoneIsNot DEF State, Docks
<1>2. q # None => q \in Pane /\ p # q
  BY <1>1, NoneIsNot
<1>3. r = Run(l \o Select(w) \o m \o Focus(tail), t)
  BY DEF Attempt
<1>4. Live(t, w) /\ (q = None => t.at[n] = None) /\ (q # None => t.at[q] \in {w, None})
  OBVIOUS
<1> HIDE DEF t, p, n, from
<1>5. K \in Seq(Cmd) /\ \A i, j \in Pane : Swap(i, j) \in Seq(Cmd) /\ Split(w, j) \in Seq(Cmd)
  <2>1. {w} \ s.claims \in SUBSET Window
    OBVIOUS
  <2> QED
    BY <2>1, Lines
<1>6. Run(K, t).t = t
  <2>1. {w} \ s.claims \in SUBSET Window
    OBVIOUS
  <2> QED
    BY <2>1, RunOptions DEF K
<1> HIDE DEF K
<1>7. X \in Seq(Cmd) /\ (q = None => X = Split(w, n) \o Swap(p, n)) /\ (q # None => X = Swap(p, q))
  <2> HIDE DEF Cmd
  <2>1. Split(w, n) \o Swap(p, n) \in Seq(Cmd)
    BY <1>1, <1>5, ConcatProperties
  <2> QED
    BY <1>1, <1>2, <1>5, <2>1
<1> HIDE DEF X
<1>8. l \in Seq(Cmd) /\ a = IF Run(K, t).ok THEN Run(X, Run(K, t).t) ELSE Run(K, t)
  <2> HIDE DEF Cmd
  <2> QED
    BY <1>5, <1>7, RunConcat, ConcatProperties
<1>9. (a.ok => a = x) /\ (a = x \/ (a.t = t /\ ~a.ok))
  BY <1>6, <1>8
<1> HIDE DEF l, m
<1>10. Follows(r, a)
  <2>1. m = Switch(w) \/ m = <<>>
    BY DEF m
  <2> HIDE DEF Cmd, a, r
  <2> QED
    BY <1>1, <1>3, <1>8, <2>1, TailFollows DEF a
<1>11. ASSUME a.ok, Live(a.t, w), a.t.cur = t.cur
       PROVE  Alike(a.t, r.t) /\ (t.cur # None => Along(t, r.t, w, from))
  <2>1. ASSUME t.cur # None PROVE Along(a.t, r.t, w, from)
    <3> HIDE DEF Cmd, r
    <3> QED
      BY <1>1, <1>3, <1>4, <1>8, <1>11, <2>1, TailAlong DEF m
  <2> QED
    BY <1>10, <1>11, <2>1 DEF Along, Follows
<1>12. ASSUME NEW u, Alike(u, r.t), \A y \in Window : Live(t, y) => Live(u, y)
       PROVE  \A y \in Window : Live(t, y) => Live(r.t, y)
  BY <1>12, LiveAlike DEF Alike
<1>13. CASE q = None
  <2>1. x = IF b.ok THEN c ELSE b
    <3>1. Split(w, n) \in Seq(Cmd) /\ Swap(p, n) \in Seq(Cmd)
      BY <1>1, <1>5
    <3> HIDE DEF Cmd, x
    <3>2. Run(Split(w, n) \o Swap(p, n), t) = IF b.ok THEN c ELSE b
      BY <3>1, RunConcat
    <3> QED
      BY <1>7, <1>13, <3>2 DEF x
  <2>2. Splits(b, t, w, n)
    BY <1>1, RunSplit
  <2>3. b.t \in Tmux
    BY <2>2 DEF Splits
  <2>4. Swaps(c, b.t, p, n)
    BY <1>1, <2>3, RunSwap
  <2>5. t.at[n] = None
    BY <1>4, <1>13
  <2> HIDE DEF a, b, c, x, r
  <2>6. (\A y \in Window : Live(t, y) => Live(b.t, y)) /\ \A y \in Window : Live(b.t, y) => Live(c.t, y)
    <3>1. \A y \in Window : Live(t, y) => Live(b.t, y)
      BY <1>1, <2>2, <2>5, SplitLive
    <3>2. \A y : Live(b.t, y) => Live(c.t, y)
      BY <1>1, <2>3, <2>4, SwapLive
    <3> QED
      BY <3>1, <3>2
  <2>7. CASE a.ok
    <3>1. a = c /\ b.ok /\ c.ok
      BY <1>9, <2>1, <2>7
    <3>2. a.t.cur = t.cur /\ Live(a.t, w)
      BY <1>4, <2>2, <2>4, <2>6, <3>1 DEF Splits, Swaps
    <3>3. Alike(a.t, r.t) /\ (t.cur # None => Along(t, r.t, w, from))
      BY <1>11, <2>7, <3>2
    <3>4. Moved(t, a.t, p, n, w)
      BY <1>1, <2>2, <2>4, <2>5, <3>1, SplitMoves
    <3>5. Moved(t, r.t, p, n, w)
      BY <3>3, <3>4, MovedAlike
    <3>6. \A y \in Window : Live(t, y) => Live(r.t, y)
      BY <1>12, <2>6, <3>1, <3>3
    <3> QED
      BY <1>13, <3>3, <3>5, <3>6 DEF r, t, p, n, from
  <2>8. CASE ~a.ok
    <3>1. r = a
      BY <1>10, <2>8 DEF Follows
    <3>2. CASE a.t = t
      BY <2>8, <3>1, <3>2 DEF r, t
    <3>3. CASE a.t # t
      <4>1. a = c /\ b.ok /\ ~c.ok
        BY <1>9, <2>1, <2>2, <2>8, <3>3 DEF Splits
      <4>2. a.t = b.t
        BY <2>4, <4>1 DEF Swaps
      <4>3. SplitOnly(t, r.t, n, w)
        BY <2>2, <3>1, <4>1, <4>2 DEF Splits, SplitOnly
      <4>4. \A y \in Window : Live(t, y) => Live(r.t, y)
        BY <2>6, <3>1, <4>2
      <4> QED
        BY <1>13, <2>8, <3>1, <4>3, <4>4 DEF r, t, n
    <3> QED
      BY <3>2, <3>3
  <2> QED
    BY <2>7, <2>8
<1>14. CASE q # None
  <2>1. x = d
    BY <1>7, <1>14
  <2>2. Swaps(d, t, p, q) /\ q \in Pane
    BY <1>1, <1>2, <1>14, RunSwap
  <2> HIDE DEF a, d, x, r
  <2>3. \A y : Live(t, y) => Live(d.t, y)
    BY <1>1, <2>2, SwapLive
  <2>4. CASE a.ok
    <3>1. a = d /\ d.ok
      BY <1>9, <2>1, <2>4
    <3>2. a.t.cur = t.cur /\ Live(a.t, w) /\ t.at[q] = w
      BY <1>4, <1>14, <2>2, <2>3, <3>1 DEF Swaps
    <3>3. Alike(a.t, r.t) /\ (t.cur # None => Along(t, r.t, w, from))
      BY <1>11, <2>4, <3>2
    <3>4. Moved(t, a.t, p, q, w)
      BY <1>1, <1>2, <1>14, <2>2, <3>1, <3>2, SwapMoves
    <3>5. Moved(t, r.t, p, q, w)
      BY <3>3, <3>4, MovedAlike
    <3>6. \A y \in Window : Live(t, y) => Live(r.t, y)
      BY <1>12, <2>3, <3>1, <3>3
    <3> QED
      BY <1>14, <3>3, <3>5, <3>6 DEF r, t, p, from
  <2>5. CASE ~a.ok
    <3>1. r = a
      BY <1>10, <2>5 DEF Follows
    <3>2. a.t = t
      BY <1>9, <2>1, <2>2, <2>5 DEF Swaps
    <3> QED
      BY <2>5, <3>1, <3>2 DEF r, t
  <2> QED
    BY <2>4, <2>5
<1> QED
  BY <1>13, <1>14

\* An attempt to swap with a spacer that is in its slot, or gone, moves the sidebar or
\* does nothing.
LEMMA AttemptEnds ==
  ASSUME NEW s \in State, s.dock # None, NEW w \in Window, NEW q \in Spacer, q # None,
         NEW tail \in BOOLEAN, NewSpacer \in Spacer, s.t.at[q] \in {w, None}
  PROVE  Attempt(s, w, q, tail).t = s.t \/ Moved(s.t, Attempt(s, w, q, tail).t, s.dock.pane, q, w)
<1> DEFINE t == s.t
           p == s.dock.pane
           K == Mark({w} \ s.claims)
           m == IF SessOf[w] # SessOf[s.dock.win] THEN Switch(w) ELSE <<>>
           l == K \o Swap(p, q)
           r == Attempt(s, w, q, tail)
           a == Run(l, t)
           d == Run(Swap(p, q), t)
<1>1. t \in Tmux /\ p \in Pane /\ q \in Pane /\ p # q /\ {w} \ s.claims \in SUBSET Window
  BY NoneIsNot DEF State, Docks
<1>2. r = Run(l \o Select(w) \o m \o Focus(tail), t) /\ (m = Switch(w) \/ m = <<>>)
  BY DEF Attempt
<1>3. t.at[q] \in {w, None}
  OBVIOUS
<1> HIDE DEF t, p, m
<1>4. K \in Seq(Cmd) /\ Swap(p, q) \in Seq(Cmd)
  BY <1>1, Lines
<1>5. Run(K, t).t = t
  BY <1>1, RunOptions, TRUE \in BOOLEAN
<1> HIDE DEF Cmd, K
<1>6. l \in Seq(Cmd) /\ a = IF Run(K, t).ok THEN Run(Swap(p, q), Run(K, t).t) ELSE Run(K, t)
  BY <1>4, RunConcat, ConcatProperties
<1> HIDE DEF l
<1>7. Follows(r, a)
  <2> HIDE DEF r, a
  <2> QED
    BY <1>1, <1>2, <1>6, TailFollows DEF a
<1>8. Swaps(d, t, p, q)
  BY <1>1, RunSwap
<1>9. a = d \/ (~a.ok /\ a.t = t)
  BY <1>5, <1>6
<1> HIDE DEF a, d, r
<1>10. CASE a.ok
  <2>1. Swaps(a, t, p, q) /\ Alike(a.t, r.t)
    BY <1>7, <1>8, <1>9, <1>10 DEF Follows
  <2>2. t.at[q] = w
    BY <1>3, <1>10, <2>1 DEF Swaps
  <2>3. Moved(t, a.t, p, q, w)
    BY <1>1, <1>10, <2>1, <2>2, SwapMoves
  <2> QED
    BY <2>1, <2>3, MovedAlike DEF t, p, r
<1>11. CASE ~a.ok
  <2>1. r = a /\ a.t = t
    BY <1>7, <1>8, <1>9, <1>11 DEF Follows, Swaps
  <2> QED
    BY <2>1 DEF t, r
<1> QED
  BY <1>10, <1>11

\* Where a move to w from `from' has brought the client: it is in a window that is there,
\* and so is w; the sidebar being there, the client has come along.
Brought(t, u, w, from, there) ==
  /\ u \in Tmux /\ u.cur \in {t.cur, w} /\ Live(u, u.cur) /\ Live(u, w)
  /\ there => Along(t, u, w, from)

\* Killing the spacer of an attempt that failed undoes the split, or takes a pane away
\* from where the client is not.
LEMMA UndoneSeated ==
  ASSUME NEW t \in Tmux, NEW u \in Tmux, NEW p \in Pane, NEW q \in Pane, p # q, NEW w \in Window,
         NEW from \in Window, t.at[q] = None, t.at[p] \in {from, w, None},
         t.cur # None, Live(t, t.cur), Live(t, w),
         SplitOnly(t, u, q, w) \/ (Moved(t, u, p, q, w) /\ Along(t, u, w, from))
  PROVE  u.at[q] # None /\ Brought(t, Run(Kill(q), u).t, w, from, FALSE)
<1>1. t.at \in [Pane -> Window \cup {None}] /\ t.cur \in Window /\ u.real = t.real
  BY DEF Tmux, SplitOnly, Moved
<1>2. u.at[q] # None
  <2>1. CASE SplitOnly(t, u, q, w)
    BY <1>1, <2>1, NoneIsNot DEF SplitOnly
  <2>2. CASE Moved(t, u, p, q, w)
    BY <2>2 DEF Moved
  <2> QED
    BY <2>1, <2>2
<1>3. PICK k \in Tmux : /\ Run(Kill(q), u).t = Settle(k) /\ k.at = [u.at EXCEPT ![q] = None]
                        /\ k.real = u.real /\ k.cur = u.cur
  BY <1>2, KillSettles
<1>4. u.at \in [Pane -> Window \cup {None}]
  BY DEF Tmux
<1>5. Brought(t, k, w, from, FALSE)
  <2>1. CASE SplitOnly(t, u, q, w)
    <3>1. k.at = t.at /\ k.real = t.real /\ k.cur = t.cur
      BY <1>1, <1>3, <1>4, <2>1 DEF SplitOnly
    <3> QED
      BY <3>1, LiveAlike DEF Brought
  <2>2. CASE Moved(t, u, p, q, w) /\ Along(t, u, w, from)
    <3>1. k.at[p] = w /\ \A o \in Pane \ {p, q} : k.at[o] = t.at[o]
      BY <1>3, <1>4, <2>2 DEF Moved
    <3>2. Live(k, w)
      BY <3>1 DEF Live, In
    <3>3. ASSUME NEW y \in Window, Live(t, y), y # t.at[p] PROVE Live(k, y)
      <4>1. CASE y \in t.real
        BY <1>1, <1>3, <4>1 DEF Live
      <4>2. CASE y \notin t.real
        <5>1. PICK o \in Pane : t.at[o] = y
          BY <3>3, <4>2 DEF Live, In
        <5>2. o # p /\ o # q
          BY <3>3, <5>1, NoneIsNot
        <5> QED
          BY <3>1, <5>1, <5>2 DEF Live, In
      <4> QED
        BY <4>1, <4>2
    <3>4. k.cur \in {t.cur, w}
      BY <1>3, <2>2 DEF Along
    <3>5. Live(k, k.cur)
      <4>1. CASE k.cur = w
        BY <3>2, <4>1
      <4>2. CASE k.cur # w
        <5>1. k.cur = t.cur /\ SessOf[t.cur] # SessOf[w] /\ SessOf[w] = SessOf[from]
          BY <1>3, <2>2, <3>4, <4>2 DEF Along
        <5>2. t.at[p] # t.cur
          BY <4>2, <5>1
        <5> QED
          BY <1>1, <3>3, <5>1, <5>2
      <4> QED
        BY <4>1, <4>2
    <3> QED
      BY <3>2, <3>4, <3>5 DEF Brought
  <2> QED
    BY <2>1, <2>2
<1>6. Settle(k) = k
  BY <1>5, SettleSeated DEF Seated, Brought
<1> QED
  BY <1>2, <1>3, <1>5, <1>6

\* What two moves bring is what the second brings.
LEMMA BroughtTwice ==
  ASSUME NEW t, NEW u, NEW v, NEW w, NEW from, NEW there, Along(t, u, w, from),
         Brought(u, v, w, from, there)
  PROVE  Brought(t, v, w, from, there)
  BY DEF Brought, Along

\* A first visit brings the client along, or undoes what it has begun.
LEMMA FirstVisitBrings ==
  ASSUME NEW s \in State, s.dock # None, NEW w \in Window, w # s.dock.win, NEW tail \in BOOLEAN,
         NewSpacer \in Spacer, s.t.at[NewSpacer] = None,
         s.t.at[s.dock.pane] \in {s.dock.win, w, None},
         s.t.cur # None, Live(s.t, s.t.cur), Live(s.t, w)
  PROVE  LET f == FirstVisit(s, w, tail)
         IN  Brought(s.t, f.t, w, s.dock.win, f.dock.win = w)
<1> DEFINE q == NewSpacer
           p == s.dock.pane
           from == s.dock.win
           t == s.t
           try == Attempt(s, w, None, tail)
           u == IF try.t.at[q] # None THEN Run(Kill(q), try.t).t ELSE try.t
           n == [s EXCEPT !.t = u, !.broke = s.broke \/ u # s.t]
           f == FirstVisit(s, w, tail)
<1>1. /\ t \in Tmux /\ p \in Pane /\ q \in Pane /\ p # q /\ from \in Window /\ from # w
      /\ t.cur # None /\ Live(t, t.cur) /\ Live(t, w) /\ t.at[q] = None /\ t.at[p] \in {from, w, None}
      /\ t.cur \in Window
  BY NoneIsNot DEF State, Docks, Tmux
<1>2. /\ \A x \in Window : Live(t, x) => Live(try.t, x)
      /\ \/ ~try.ok /\ try.t = t
         \/ ~try.ok /\ SplitOnly(t, try.t, q, w)
         \/ Moved(t, try.t, p, q, w) /\ Along(t, try.t, w, from)
  <2>1. None \in Spacer \cup {None}
    OBVIOUS
  <2> HIDE DEF try
  <2> QED
    BY <2>1, AttemptAlong DEF try
<1>3. f = IF ~(Live(s.t, w) /\ Live(s.t, s.dock.win)) THEN s
          ELSE IF try.ok THEN Landed(s, try.t, w, q) ELSE n
  BY DEF FirstVisit, Visited, Failed, Undone
<1>4. Brought(t, t, w, from, FALSE)
  BY <1>1 DEF Brought
<1>5. try.t \in Tmux
  BY <1>1, <1>2 DEF SplitOnly, Moved
<1> HIDE DEF try, f
<1>6. CASE ~(Live(s.t, w) /\ Live(s.t, s.dock.win))
  <2>1. f.t = t /\ f.dock.win = from
    BY <1>3, <1>6
  <2> QED
    BY <1>1, <1>4, <2>1 DEF Brought, f, t, from
<1>7. CASE Live(s.t, w) /\ Live(s.t, s.dock.win) /\ try.ok
  <2>1. f = Landed(s, try.t, w, q)
    BY <1>3, <1>7
  <2>2. f.t = try.t
    BY <2>1 DEF Landed, State
  <2>3. Along(t, try.t, w, from)
    BY <1>2, <1>7
  <2>4. Brought(t, try.t, w, from, TRUE)
    BY <1>1, <1>2, <1>5, <2>3 DEF Along, Brought
  <2> QED
    BY <2>2, <2>4 DEF Brought, f, t, from
<1>8. CASE Live(s.t, w) /\ Live(s.t, s.dock.win) /\ ~try.ok
  <2>1. f = n
    BY <1>3, <1>8
  <2> HIDE DEF u
  <2>2. f.t = u /\ f.dock = s.dock
    BY <2>1 DEF State
  <2>3. Brought(t, u, w, from, FALSE)
    <3>1. CASE try.t = t
      BY <1>1, <1>4, <3>1 DEF u
    <3>2. CASE try.t # t
      <4>1. SplitOnly(t, try.t, q, w) \/ (Moved(t, try.t, p, q, w) /\ Along(t, try.t, w, from))
        BY <1>2, <3>2
      <4> HIDE DEF t, p, q, from
      <4>2. try.t.at[q] # None /\ Brought(t, Run(Kill(q), try.t).t, w, from, FALSE)
        BY <1>1, <1>5, <4>1, UndoneSeated
      <4> QED
        BY <4>2 DEF u
    <3> QED
      BY <3>1, <3>2
  <2> QED
    BY <1>1, <2>2, <2>3 DEF Brought, f, t, from
<1> QED
  BY <1>6, <1>7, <1>8

\* dockMove brings the client along, with the spacer it counted on, without one, and
\* when that spacer is gone or the line ends badly.
LEMMA MoveBrings ==
  ASSUME NEW D, NEW s, Good(s, D), ~s.broke, s.dock # None, NEW w \in Window,
         NEW tail \in BOOLEAN, NEW again \in BOOLEAN, w # s.dock.win,
         NewSpacer \in Spacer, Fresh(s, NewSpacer),
         s.t.cur # None, Live(s.t, s.t.cur), Live(s.t, w)
  PROVE  LET m == Move(s, w, tail, again)
         IN  Brought(s.t, m.t, w, s.dock.win, m.dock.win = w)
<1> DEFINE q == s.dock.carved[w]
           t == s.t
           p == s.dock.pane
           from == s.dock.win
           try == Attempt(s, w, q, tail)
           n == [s EXCEPT !.t = try.t, !.dock.carved[w] = None,
                          !.broke = s.broke \/ s.t.at[q] # None]
           m == Move(s, w, tail, again)
           c == [s.dock.carved EXCEPT ![w] = None]
           e == [s.dock EXCEPT !.carved = c]
<1>1. s \in State /\ s.dock \in Docks /\ s.dock.carved \in MaybeSpacers /\ q \in Spacer \cup {None}
      /\ s.t \in Tmux /\ from \in Window /\ p \in Sidebar /\ p \in Pane
  BY NoneIsNot DEF Good, State, Docks, MaybeSpacers
<1>2. m = IF w = s.dock.win \/ ~(Live(s.t, w) /\ Live(s.t, s.dock.win)) THEN s
          ELSE IF q = None THEN FirstVisit(s, w, tail)
          ELSE IF try.ok THEN Landed(s, try.t, w, q)
          ELSE FirstVisit(n, w, again)
  BY DEF Move, Revisited
<1>3. t.at[p] \in {from, None} /\ (q # None => t.at[q] \in {w, None}) /\ t.at[NewSpacer] = None
  BY <1>1 DEF Good, Sound, Placed, InSlots, Fresh
<1>4. /\ \A x \in Window : Live(t, x) => Live(try.t, x)
      /\ q # None => \/ ~try.ok /\ try.t = t
                     \/ Moved(t, try.t, p, q, w) /\ Along(t, try.t, w, from)
  <2>1. CASE q # None
    <3> HIDE DEF q
    <3>1. LET r == Attempt(s, w, q, tail)
          IN  /\ \A x \in Window : Live(s.t, x) => Live(r.t, x)
              /\ \/ ~r.ok /\ r.t = s.t
                 \/ /\ Moved(s.t, r.t, s.dock.pane, q, w)
                    /\ s.t.cur # None => Along(s.t, r.t, w, s.dock.win)
      BY <1>1, <1>3, <2>1, AttemptAlong
    <3> QED
      BY <2>1, <3>1
  <2>2. CASE q = None
    <3>1. LET r == Attempt(s, w, None, tail)
          IN  \A x \in Window : Live(s.t, x) => Live(r.t, x)
      <4>1. None \in Spacer \cup {None}
        OBVIOUS
      <4> QED
        BY <1>1, <1>3, <4>1, AttemptAlong
    <3> QED
      BY <2>2, <3>1
  <2> QED
    BY <2>1, <2>2
<1>5. try.t \in Tmux
  <2> HIDE DEF q
  <2> QED
    BY <1>1, AttemptIs DEF q
<1>6. t.cur # None /\ t.cur \in Window /\ Live(t, t.cur) /\ Live(t, w) /\ from # w
  BY <1>1 DEF Tmux
<1> HIDE DEF m, try
<1>7. CASE ~(Live(s.t, w) /\ Live(s.t, s.dock.win))
  <2>1. m = s
    BY <1>2, <1>7
  <2> QED
    BY <1>1, <1>6, <2>1 DEF Brought, m
<1> DEFINE goes == Live(s.t, w) /\ Live(s.t, s.dock.win)
<1>8. CASE goes /\ q = None
  <2>1. m = FirstVisit(s, w, tail)
    BY <1>2, <1>6, <1>8
  <2>2. LET f == FirstVisit(s, w, tail) IN Brought(s.t, f.t, w, s.dock.win, f.dock.win = w)
    BY <1>1, <1>3, <1>6, FirstVisitBrings
  <2> QED
    BY <2>1, <2>2 DEF m
<1>9. CASE goes /\ q # None /\ try.ok
  <2>1. m = Landed(s, try.t, w, q)
    BY <1>2, <1>6, <1>9
  <2>2. m.t = try.t
    BY <1>1, <2>1 DEF Landed, State
  <2>3. Along(t, try.t, w, from)
    BY <1>4, <1>9
  <2>4. Brought(t, try.t, w, from, TRUE)
    BY <1>4, <1>5, <1>6, <2>3 DEF Along, Brought
  <2> QED
    BY <2>2, <2>4 DEF Brought, m
<1>10. CASE goes /\ q # None /\ ~try.ok
  <2>1. m = FirstVisit(n, w, again)
    BY <1>2, <1>6, <1>10
  <2>2. c \in MaybeSpacers
    BY <1>1 DEF MaybeSpacers
  <2>3. e \in Docks /\ e.pane = p /\ e.win = from /\ e.carved = c
    <3> HIDE DEF c
    <3> QED
      BY <1>1, <2>2 DEF Docks
  <2>4. n = [s EXCEPT !.t = try.t, !.dock = e, !.broke = s.broke \/ s.t.at[q] # None]
    BY <1>1 DEF State, Docks
  <2> HIDE DEF c, e, n
  <2>5. n \in State /\ n.t = try.t /\ n.dock = e
    <3> HIDE DEF q
    <3> QED
      BY <1>1, <1>5, <2>3, <2>4 DEF State
  <2>6. n.dock # None
    BY <2>3, <2>5, NoneIsNot
  <2>7. NewSpacer # p /\ (q # None => NewSpacer # q)
    <3>1. NewSpacer # p
      BY <1>1, NoneIsNot
    <3>2. q # None => Keeps(s, q)
      BY <1>1 DEF Keeps, Has
    <3> QED
      BY <3>1, <3>2 DEF Fresh
  <2>8. n.t.at[NewSpacer] = None /\ n.t.at[p] \in {from, w, None}
    <3>1. CASE try.t = t
      BY <1>3, <2>5, <3>1
    <3>2. CASE Moved(t, try.t, p, q, w)
      BY <1>3, <2>5, <2>7, <3>2, NoneIsNot DEF Moved
    <3> QED
      BY <1>4, <1>10, <3>1, <3>2
  <2>9. n.t.cur \in {t.cur, w} /\ (try.t = t \/ Along(t, n.t, w, from))
    <3>1. CASE try.t = t
      BY <2>5, <3>1
    <3>2. CASE Along(t, try.t, w, from)
      BY <2>5, <3>2 DEF Along
    <3> QED
      BY <1>4, <1>10, <3>1, <3>2
  <2>10. n.t.cur # None /\ Live(n.t, n.t.cur) /\ Live(n.t, w)
    BY <1>4, <1>6, <2>5, <2>9, NoneIsNot
  <2>11. LET f == FirstVisit(n, w, again) IN Brought(n.t, f.t, w, from, f.dock.win = w)
    <3>1. n.dock.win = from /\ n.dock.pane = p /\ w # n.dock.win
      BY <1>6, <2>3, <2>5
    <3> HIDE DEF p, from, t
    <3>2. LET f == FirstVisit(n, w, again) IN Brought(n.t, f.t, w, n.dock.win, f.dock.win = w)
      BY <2>5, <2>6, <2>8, <2>10, <3>1, FirstVisitBrings
    <3> QED
      BY <3>1, <3>2
  <2>12. Brought(n.t, m.t, w, from, m.dock.win = w)
    BY <2>1, <2>11
  <2>13. CASE try.t = t
    BY <2>5, <2>12, <2>13 DEF m
  <2>14. CASE Along(t, n.t, w, from)
    BY <2>12, <2>14, BroughtTwice DEF m
  <2> QED
    BY <2>9, <2>13, <2>14
<1> QED
  BY <1>7, <1>8, <1>9, <1>10

-----------------------------------------------------------------------------
(* A move costs no window but the one that is left.                          *)

\* From t to u the windows that are there stay, apart from `from'.
Stays(t, u, from) ==
  u \in Tmux /\ \A x \in Window : Live(t, x) /\ x # from => Live(u, x)

\* One after the other.
LEMMA StaysTwice ==
  ASSUME NEW t, NEW u, NEW v, NEW from, Stays(t, u, from), Stays(u, v, from)
  PROVE  Stays(t, v, from)
  BY DEF Stays

\* Killing the spacer of an attempt that failed empties at most the window left.
LEMMA UndoneStays ==
  ASSUME NEW t \in Tmux, NEW u \in Tmux, NEW p \in Pane, NEW q \in Pane, p # q, NEW w \in Window,
         NEW from \in Window, t.at[q] = None, t.at[p] \in {from, w, None},
         SplitOnly(t, u, q, w) \/ Moved(t, u, p, q, w)
  PROVE  Stays(t, Run(Kill(q), u).t, from)
<1>1. t.at \in [Pane -> Window \cup {None}] /\ u.real = t.real
  BY DEF Tmux, SplitOnly, Moved
<1>2. u.at[q] # None
  <2>1. CASE SplitOnly(t, u, q, w)
    BY <1>1, <2>1, NoneIsNot DEF SplitOnly
  <2>2. CASE Moved(t, u, p, q, w)
    BY <2>2 DEF Moved
  <2> QED
    BY <2>1, <2>2
<1>3. PICK k \in Tmux : /\ Run(Kill(q), u).t = Settle(k) /\ k.at = [u.at EXCEPT ![q] = None]
                        /\ k.real = u.real /\ k.cur = u.cur
  BY <1>2, KillSettles
<1>4. u.at \in [Pane -> Window \cup {None}]
  BY DEF Tmux
<1>5. Stays(t, k, from)
  <2>1. CASE SplitOnly(t, u, q, w)
    <3>1. k.at = t.at /\ k.real = t.real
      BY <1>1, <1>3, <1>4, <2>1 DEF SplitOnly
    <3> QED
      BY <3>1, LiveAlike DEF Stays
  <2>2. CASE Moved(t, u, p, q, w)
    <3>1. k.at[p] = w /\ \A o \in Pane \ {p, q} : k.at[o] = t.at[o]
      BY <1>3, <1>4, <2>2 DEF Moved
    <3>2. Live(k, w)
      BY <3>1 DEF Live, In
    <3>3. ASSUME NEW y \in Window, Live(t, y), y # from, y # w PROVE Live(k, y)
      <4>1. CASE y \in t.real
        BY <1>1, <1>3, <4>1 DEF Live
      <4>2. CASE y \notin t.real
        <5>1. PICK o \in Pane : t.at[o] = y
          BY <3>3, <4>2 DEF Live, In
        <5>2. o # p /\ o # q
          BY <3>3, <5>1, NoneIsNot
        <5> QED
          BY <3>1, <5>1, <5>2 DEF Live, In
      <4> QED
        BY <4>1, <4>2
    <3> QED
      BY <3>2, <3>3 DEF Stays
  <2> QED
    BY <2>1, <2>2
<1>6. Alike(k, Settle(k))
  BY SettleAlike
<1> QED
  BY <1>3, <1>5, <1>6, LiveAlike DEF Stays, Alike

\* A first visit.
LEMMA FirstVisitStays ==
  ASSUME NEW s \in State, s.dock # None, NEW w \in Window, NEW tail \in BOOLEAN,
         NewSpacer \in Spacer, s.t.at[NewSpacer] = None,
         s.t.at[s.dock.pane] \in {s.dock.win, w, None}
  PROVE  Stays(s.t, FirstVisit(s, w, tail).t, s.dock.win)
<1> DEFINE q == NewSpacer
           p == s.dock.pane
           from == s.dock.win
           t == s.t
           try == Attempt(s, w, None, tail)
           u == IF try.t.at[q] # None THEN Run(Kill(q), try.t).t ELSE try.t
           n == [s EXCEPT !.t = u, !.broke = s.broke \/ u # s.t]
           f == FirstVisit(s, w, tail)
<1>1. /\ t \in Tmux /\ p \in Pane /\ q \in Pane /\ p # q /\ from \in Window
      /\ t.at[q] = None /\ t.at[p] \in {from, w, None}
  BY NoneIsNot DEF State, Docks
<1>2. f = IF ~(Live(s.t, w) /\ Live(s.t, s.dock.win)) THEN s
          ELSE IF try.ok THEN Landed(s, try.t, w, q) ELSE n
  BY DEF FirstVisit, Visited, Failed, Undone
<1>3. CASE ~(Live(s.t, w) /\ Live(s.t, s.dock.win))
  BY <1>1, <1>2, <1>3 DEF Stays
<1>4. CASE Live(s.t, w) /\ Live(s.t, s.dock.win)
  <2>1. /\ \A x \in Window : Live(t, x) => Live(try.t, x)
        /\ \/ ~try.ok /\ try.t = t
           \/ SplitOnly(t, try.t, q, w)
           \/ Moved(t, try.t, p, q, w)
    <3>1. None \in Spacer \cup {None}
      OBVIOUS
    <3> HIDE DEF try
    <3> QED
      BY <1>4, <3>1, AttemptAlong DEF try
  <2>2. try.t \in Tmux
    BY <1>1, <2>1 DEF SplitOnly, Moved
  <2> HIDE DEF try, f
  <2>3. Stays(t, try.t, from)
    BY <2>1, <2>2 DEF Stays
  <2>4. Stays(t, u, from)
    <3>1. CASE try.t = t
      BY <1>1, <2>3, <3>1
    <3>2. CASE try.t # t
      <4> HIDE DEF t, p, q, from
      <4>1. Stays(t, Run(Kill(q), try.t).t, from)
        BY <1>1, <2>1, <2>2, <3>2, UndoneStays
      <4> QED
        BY <2>3, <4>1
    <3> QED
      BY <3>1, <3>2
  <2> HIDE DEF u
  <2>5. n.t = u /\ Landed(s, try.t, w, q).t = try.t
    BY DEF State, Landed
  <2> HIDE DEF n
  <2> QED
    BY <1>2, <1>4, <2>3, <2>4, <2>5 DEF f
<1> QED
  BY <1>3, <1>4

\* dockMove, whichever line of it fails.
LEMMA MoveStays ==
  ASSUME NEW D, NEW s, Good(s, D), ~s.broke, s.dock # None, NEW w \in Window,
         NEW tail \in BOOLEAN, NEW again \in BOOLEAN, NewSpacer \in Spacer, Fresh(s, NewSpacer)
  PROVE  Stays(s.t, Move(s, w, tail, again).t, s.dock.win)
<1> DEFINE q == s.dock.carved[w]
           t == s.t
           p == s.dock.pane
           from == s.dock.win
           try == Attempt(s, w, q, tail)
           n == [s EXCEPT !.t = try.t, !.dock.carved[w] = None,
                          !.broke = s.broke \/ s.t.at[q] # None]
           c == [s.dock.carved EXCEPT ![w] = None]
           e == [s.dock EXCEPT !.carved = c]
           goes == w # s.dock.win /\ Live(s.t, w) /\ Live(s.t, s.dock.win)
<1>1. /\ s \in State /\ s.dock \in Docks /\ s.dock.carved \in MaybeSpacers
      /\ q \in Spacer \cup {None} /\ s.t \in Tmux /\ from \in Window /\ p \in Sidebar /\ p \in Pane
  BY NoneIsNot DEF Good, State, Docks, MaybeSpacers
<1>2. Move(s, w, tail, again) =
        IF ~goes THEN s
        ELSE IF q = None THEN FirstVisit(s, w, tail)
        ELSE IF try.ok THEN Landed(s, try.t, w, q)
        ELSE FirstVisit(n, w, again)
  BY DEF Move, Revisited
<1>3. t.at[p] \in {from, None} /\ (q # None => t.at[q] \in {w, None}) /\ t.at[NewSpacer] = None
  BY <1>1 DEF Good, Sound, Placed, InSlots, Fresh
<1>4. ASSUME goes, q # None
      PROVE  /\ Stays(t, try.t, from)
             /\ ~try.ok => try.t = t \/ Moved(t, try.t, p, q, w)
  <2> HIDE DEF q
  <2>1. LET r == Attempt(s, w, q, tail)
        IN  /\ \A x \in Window : Live(s.t, x) => Live(r.t, x)
            /\ r.t = s.t \/ Moved(s.t, r.t, s.dock.pane, q, w)
    BY <1>1, <1>3, <1>4, AttemptAlong
  <2>2. try.t \in Tmux
    BY <1>1, AttemptIs
  <2> HIDE DEF try
  <2> QED
    BY <2>1, <2>2 DEF Stays, try
<1>5. ASSUME q = None PROVE Stays(t, FirstVisit(s, w, tail).t, from)
  BY <1>1, <1>3, FirstVisitStays
<1>6. ASSUME goes, q # None, ~try.ok PROVE Stays(t, FirstVisit(n, w, again).t, from)
  <2>1. Stays(t, try.t, from) /\ (try.t = t \/ Moved(t, try.t, p, q, w))
    BY <1>4, <1>6
  <2>2. c \in MaybeSpacers
    BY <1>1 DEF MaybeSpacers
  <2>3. e \in Docks /\ e.pane = p /\ e.win = from
    <3> HIDE DEF c
    <3> QED
      BY <1>1, <2>2 DEF Docks
  <2>4. n = [s EXCEPT !.t = try.t, !.dock = e, !.broke = s.broke \/ s.t.at[q] # None]
    BY <1>1 DEF State, Docks
  <2>5. (s.broke \/ s.t.at[q] # None) \in BOOLEAN /\ try.t \in Tmux
    BY <1>1, <2>1 DEF State, Stays
  <2> HIDE DEF try
  <2>6. try.t.at[NewSpacer] = None /\ try.t.at[p] \in {from, w, None}
    <3>1. NewSpacer # p /\ NewSpacer # q /\ NewSpacer \in Pane
      <4>1. NewSpacer # p
        BY <1>1, NoneIsNot
      <4>2. Keeps(s, q)
        BY <1>1, <1>6 DEF Keeps, Has
      <4> QED
        BY <4>1, <4>2, NoneIsNot DEF Fresh
    <3> QED
      BY <1>3, <2>1, <3>1 DEF Moved
  <2> HIDE DEF c, e, n
  <2>7. n \in State /\ n.t = try.t /\ n.dock = e /\ n.dock # None
    <3> HIDE DEF q
    <3> QED
      BY <1>1, <2>3, <2>4, <2>5, NoneIsNot DEF State
  <2>8. Stays(n.t, FirstVisit(n, w, again).t, from)
    <3>1. n.dock.win = from /\ n.dock.pane = p
      BY <2>3, <2>7
    <3> HIDE DEF p, from, t
    <3> QED
      BY <2>6, <2>7, <3>1, FirstVisitStays
  <2> QED
    BY <2>1, <2>7, <2>8, StaysTwice
<1>7. Landed(s, try.t, w, q).t = try.t
  BY <1>1 DEF Landed, State
<1>8. Stays(t, t, from)
  BY <1>1 DEF Stays
<1> HIDE DEF q, try, n, t, goes
<1> QED
  BY <1>2, <1>4, <1>5, <1>6, <1>7, <1>8 DEF t

-----------------------------------------------------------------------------
(* A kill takes nobody's terminal.                                           *)

\* From t to u panes of winch may have gone, and the client with its window.
Shrinks(t, u) == u \in Tmux /\ u.real = t.real /\ \A p \in Pane : u.at[p] \in {t.at[p], None}

\* The line that ends a dock takes panes away at most, and settles the client.
LEMMA EndingShrinks ==
  ASSUME NEW t \in Tmux, NEW W \in SUBSET Window, NEW p \in Pane, NEW w \in Window
  PROVE  LET u == Run(Replay(W) \o Kill(p) \o Layout(w), t).t
         IN  Shrinks(t, u) /\ (Seated(t) => Seated(u))
<1> DEFINE l == Replay(W) \o Kill(p)
           a == Run(Replay(W), t)
           b == Run(l, t)
           c == Run(l \o Layout(w), t)
<1>1. /\ Replay(W) \in Seq(Cmd) /\ Kill(p) \in Seq(Cmd) /\ Layout(w) \in Seq(Cmd)
      /\ Replay(W) \in Seq(Calm) /\ Kill(p) \in Seq(Calm) /\ Layout(w) \in Seq(Calm)
  BY Lines, CalmLines
<1> HIDE DEF Cmd, Calm
<1>2. b = (IF a.ok THEN Run(Kill(p), a.t) ELSE a) /\ l \in Seq(Cmd) /\ l \in Seq(Calm)
  BY <1>1, RunConcat, ConcatProperties
<1>3. a.t = t
  BY RunOptions, TRUE \in BOOLEAN
<1>4. Shrinks(t, b.t)
  <2>1. Shrinks(t, t)
    BY DEF Shrinks
  <2>2. Shrinks(t, Run(Kill(p), t).t)
    <3> DEFINE k == Run(Kill(p), t)
    <3>1. /\ t.at[p] = None => k.t = t
          /\ t.at[p] # None => k.t \in Tmux /\ k.t.at = [t.at EXCEPT ![p] = None] /\ k.t.real = t.real
      BY RunKill
    <3> HIDE DEF k
    <3>2. t.at \in [Pane -> Window \cup {None}]
      BY DEF Tmux
    <3>3. CASE t.at[p] # None
      BY <3>1, <3>2, <3>3 DEF Shrinks, k
    <3>4. CASE t.at[p] = None
      BY <2>1, <3>1, <3>4 DEF k
    <3> QED
      BY <3>3, <3>4
  <2>3. b.t = t \/ b.t = Run(Kill(p), t).t
    BY <1>2, <1>3
  <2> QED
    BY <2>1, <2>2, <2>3
<1> HIDE DEF l, a
<1>5. c = IF b.ok THEN Run(Layout(w), b.t) ELSE b
  BY <1>1, <1>2, RunConcat
<1>6. Shrinks(t, c.t)
  <2>1. b.t \in Tmux
    BY <1>4 DEF Shrinks
  <2> DEFINE r == Run(Layout(w), b.t)
  <2>2. r.t \in Tmux /\ r.t.real = b.t.real /\ (~r.ok => r.t = b.t) /\ (r.ok => r.t.at = b.t.at)
    BY <2>1, RunLayout
  <2>3. r.t.at = b.t.at
    BY <2>2
  <2> HIDE DEF b
  <2>4. CASE b.ok
    BY <1>4, <1>5, <2>2, <2>3, <2>4 DEF Shrinks
  <2>5. CASE ~b.ok
    BY <1>4, <1>5, <2>5
  <2> QED
    BY <2>4, <2>5
<1>7. ASSUME Seated(t) PROVE Seated(c.t)
  <2>1. l \o Layout(w) \in Seq(Calm)
    BY <1>1, <1>2, ConcatProperties
  <2> QED
    BY <1>7, <2>1, RunSeated
<1> QED
  BY <1>6, <1>7 DEF c, l

\* flushPendingClose is such a line, or nothing.
LEMMA FlushShrinks ==
  ASSUME NEW s \in State
  PROVE  Shrinks(s.t, Flush(s).t) /\ (Seated(s.t) => Seated(Flush(s).t))
<1> DEFINE c == s.closing
           u == Run(Replay(c.owed) \o Kill(c.pane) \o Layout(c.win), s.t).t
           m == [s EXCEPT !.closing = None, !.t = u, !.broke = s.broke \/ Strands(s.t, c.owed)]
<1>1. s.t \in Tmux
  BY DEF State
<1>2. CASE c = None
  <2>1. Flush(s) = s
    BY <1>2 DEF Flush
  <2> QED
    BY <1>1, <2>1 DEF Shrinks
<1>3. CASE c # None
  <2>1. c \in Closings
    BY <1>3 DEF State
  <2>2. c.pane \in Pane /\ c.win \in Window /\ c.owed \in SUBSET Window /\ c.carved \in MaybeSpacers
    BY <2>1, NoneIsNot DEF Closings
  <2>3. Flush(s) = DeferReleases(m, c.carved)
    BY <1>3 DEF Flush
  <2> HIDE DEF c
  <2>4. Shrinks(s.t, u) /\ (Seated(s.t) => Seated(u))
    BY <1>1, <2>2, EndingShrinks
  <2> HIDE DEF u
  <2>5. m \in State /\ m.t = u
    BY <2>4 DEF State, Shrinks
  <2> HIDE DEF m
  <2>6. Flush(s).t = u
    BY <2>2, <2>3, <2>5, DeferIs
  <2> QED
    BY <2>4, <2>6
<1> QED
  BY <1>2, <1>3

\* So is a close where the sidebar is.
LEMMA CloseHereShrinks ==
  ASSUME NEW s \in State, s.dock # None, NEW agent \in BOOLEAN
  PROVE  /\ Shrinks(s.t, CloseHere(s, agent).t)
         /\ Seated(s.t) => Seated(CloseHere(s, agent).t)
<1> DEFINE d == s.dock
           c == [pane |-> d.pane, win |-> d.win, carved |-> d.carved, owed |-> s.claims]
           n == [s EXCEPT !.dock = None, !.claims = {}, !.closing = c]
<1>1. /\ d.pane \in Sidebar /\ d.win \in Window /\ d.carved \in MaybeSpacers
      /\ s.claims \in SUBSET Window
  BY DockIs DEF State
<1>2. CloseHere(s, agent) = IF agent THEN n ELSE Flush(n)
  BY DEF CloseHere
<1> HIDE DEF d
<1>3. c \in Closings
  BY <1>1 DEF Closings
<1> HIDE DEF c
<1>4. n \in State /\ n.t = s.t
  BY <1>3 DEF State
<1> HIDE DEF n
<1>5. Shrinks(n.t, Flush(n).t) /\ (Seated(n.t) => Seated(Flush(n).t))
  BY <1>4, FlushShrinks
<1>6. Shrinks(n.t, n.t)
  BY <1>4 DEF Shrinks, State
<1> QED
  BY <1>2, <1>4, <1>5, <1>6

\* The client leaves what is doomed, with the sidebar or without it, for a window that
\* is there; windows that die together are of one session.  The others stay.
LEMMA EvacuatedBrings ==
  ASSUME NEW D, NEW s, Good(s, D), ~s.broke, NEW doomed \in SUBSET Window,
         \A x, y \in doomed : SessOf[x] = SessOf[y], NEW w \in Window \ doomed, Live(s.t, w),
         NEW tail \in BOOLEAN, NEW again \in BOOLEAN, NEW strays \in BOOLEAN,
         NewSpacer \in Spacer, Fresh(s, NewSpacer)
  PROVE  LET v == Evacuated(s, doomed, w, tail, again, strays).t
         IN  /\ v \in Tmux
             /\ \A x \in Window \ doomed : Live(s.t, x) => Live(v, x)
             /\ s.t.cur # None /\ Live(s.t, s.t.cur) => v.cur \in Window \ doomed /\ Live(v, v.cur)
<1> DEFINE t == s.t
           moved == IF s.dock # None /\ s.dock.win \in doomed THEN Move(s, w, tail, again) ELSE s
           gone == moved.dock # None /\ moved.dock.win = w /\ s.dock.win # w
           line == IF t.cur \in doomed THEN Select(w) \o Switch(w)
                   ELSE IF strays THEN Select(w) ELSE <<>>
           u == Run(line, moved.t).t
           n == Evacuated(s, doomed, w, tail, again, strays)
           sits == t.cur # None /\ Live(t, t.cur)
<1>1. s \in State /\ t \in Tmux /\ t.cur \in Window \cup {None}
  BY DEF Good, State, Tmux
<1>2. n = IF gone THEN moved ELSE [moved EXCEPT !.t = u]
  BY DEF Evacuated, Cleared
<1>3. /\ moved \in State /\ moved.t \in Tmux /\ \A x \in Window \ doomed : Live(t, x) => Live(moved.t, x)
      /\ sits => /\ moved.t.cur \in {t.cur, w} /\ Live(moved.t, moved.t.cur)
                 /\ gone => moved.t.cur \notin doomed
  <2>1. CASE s.dock # None /\ s.dock.win \in doomed
    <3>1. w # s.dock.win /\ moved = Move(s, w, tail, again)
      BY <2>1
    <3>2. Good(moved, D)
      BY <2>1, <3>1, MoveGood
    <3>3. Stays(t, moved.t, s.dock.win)
      BY <2>1, <3>1, MoveStays
    <3>4. ASSUME sits PROVE Brought(t, moved.t, w, s.dock.win, moved.dock.win = w)
      <4> HIDE DEF moved
      <4>1. LET m == Move(s, w, tail, again) IN Brought(s.t, m.t, w, s.dock.win, m.dock.win = w)
        BY <2>1, <3>1, <3>4, MoveBrings
      <4> QED
        BY <3>1, <4>1
    <3> HIDE DEF moved
    <3>5. ASSUME sits, gone PROVE moved.t.cur \notin doomed
      <4>1. Along(t, moved.t, w, s.dock.win)
        BY <3>4, <3>5 DEF Brought
      <4>2. CASE moved.t.cur = w
        BY <4>2
      <4>3. CASE moved.t.cur # w
        <5>1. moved.t.cur = t.cur /\ SessOf[t.cur] # SessOf[w] /\ SessOf[w] = SessOf[s.dock.win]
          BY <4>1, <4>3 DEF Along
        <5> QED
          BY <2>1, <5>1
      <4> QED
        BY <4>2, <4>3
    <3> HIDE DEF gone
    <3> QED
      BY <2>1, <3>2, <3>3, <3>4, <3>5 DEF Brought, Good, State, Stays
  <2>2. CASE ~(s.dock # None /\ s.dock.win \in doomed)
    <3>1. moved = s
      BY <2>2
    <3>2. ~gone
      BY <3>1
    <3> HIDE DEF moved, gone
    <3> QED
      BY <1>1, <3>1, <3>2
  <2> QED
    BY <2>1, <2>2
<1> HIDE DEF moved, gone
<1>4. CASE gone
  BY <1>1, <1>2, <1>3, <1>4
<1>5. CASE ~gone
  <2>1. line \in {Select(w) \o Switch(w), Select(w), <<>>}
    OBVIOUS
  <2>2. t.cur \in doomed => line = Select(w) \o Switch(w)
    OBVIOUS
  <2> HIDE DEF line
  <2>3. /\ Alike(moved.t, u)
        /\ Live(moved.t, w) /\ moved.t.cur # None => u.cur \in {moved.t.cur, w}
        /\ Live(moved.t, w) /\ moved.t.cur # None /\ line = Select(w) \o Switch(w) => u.cur = w
    <3>1. moved.t \in Tmux /\ w \in Window
      BY <1>3
    <3> HIDE DEF t, n, sits
    <3>2. Alike(moved.t, Run(line, moved.t).t)
      BY <2>1, <3>1, LeaveAlike
    <3>3. Live(moved.t, w) /\ moved.t.cur # None => Run(line, moved.t).t.cur \in {moved.t.cur, w}
      BY <2>1, <3>1, LeaveAlike
    <3>4. Live(moved.t, w) /\ moved.t.cur # None /\ line = Select(w) \o Switch(w)
            => Run(line, moved.t).t.cur = w
      BY <2>1, <3>1, LeaveAlike
    <3> QED
      BY <3>2, <3>3, <3>4
  <2>4. Live(moved.t, w)
    BY <1>3
  <2> HIDE DEF u
  <2>5. n.t = u
    <3>1. n = [moved EXCEPT !.t = u]
      BY <1>2, <1>5
    <3> HIDE DEF n
    <3> QED
      BY <1>3, <3>1 DEF State
  <2>6. u \in Tmux /\ \A x : Live(moved.t, x) <=> Live(u, x)
    BY <2>3, LiveAlike DEF Alike
  <2>7. ASSUME sits PROVE u.cur \in Window \ doomed /\ Live(u, u.cur)
    <3>1. moved.t.cur # None /\ t.cur \in Window
      BY <1>1, <1>3, <2>7, NoneIsNot
    <3>2. CASE t.cur \in doomed
      BY <2>2, <2>3, <2>4, <2>6, <3>1, <3>2
    <3>3. CASE t.cur \notin doomed
      BY <1>3, <2>3, <2>4, <2>6, <2>7, <3>1, <3>3
    <3> QED
      BY <3>2, <3>3
  <2> HIDE DEF n
  <2> QED
    BY <1>3, <2>5, <2>6, <2>7 DEF n
<1> QED
  BY <1>4, <1>5

\* While a window stays anywhere the client is in one.
Kept(t) == t.cur # None \/ \A x \in Window : ~Live(t, x)

\* A client whose window stays is kept.
LEMMA SettleKept ==
  ASSUME NEW t \in Tmux, t.cur # None, Live(t, t.cur)
  PROVE  Kept(Settle(t))
  BY SettleSeated DEF Seated, Kept

\* Without a window there is none to be in.
LEMMA SettleGone ==
  ASSUME NEW t \in Tmux, \A x \in Window : ~Live(t, x)
  PROVE  Kept(Settle(t))
<1>1. Alike(t, Settle(t))
  BY SettleAlike
<1> QED
  BY <1>1, LiveAlike DEF Kept, Alike

\* What is spared of a kill, of what tmux held at t: with a refuge what is not doomed, and
\* the client is away from what is; without one all that has happened is that the dock
\* was closed.
Spares(t, v, doomed, refuge) ==
  /\ v \in Tmux
  /\ refuge # None =>
       /\ refuge \in Window \ doomed /\ Live(t, refuge)
       /\ \A x \in Window \ doomed : Live(t, x) => Live(v, x)
       /\ t.cur # None /\ Live(t, t.cur) => v.cur \in Window \ doomed /\ Live(v, v.cur)
  /\ refuge = None =>
       /\ \A x \in Window : Live(t, x) => x \in doomed
       /\ Shrinks(t, v)
       /\ v = t \/ (dock # None /\ dock.win \in doomed)

\* What killTarget makes ready spares all that need not die.
LEMMA ReadyKeeps ==
  ASSUME ~broke, NEW D, NEW doomed \in SUBSET Window, \A x, y \in doomed : SessOf[x] = SessOf[y],
         NEW w, NEW front, NEW refuge, NEW s, NewSpacer \in Spacer,
         Ready(D, doomed, w, front, refuge, s)
  PROVE  /\ Spares(tmux, s.t, doomed, refuge)
         /\ doomed = {} /\ refuge # None => s.t = tmux
<1> DEFINE strays == Strays(w, doomed, front) # {}
<1>1. PICK d, tail, again, agent :
        /\ Good(d, D) /\ d.broke = broke /\ Fresh(d, NewSpacer) /\ d.t = tmux
        /\ (d.dock = None <=> dock = None) /\ (dock # None => d.dock.win = dock.win)
        /\ tail \in BOOLEAN /\ again \in BOOLEAN /\ agent \in BOOLEAN
        /\ refuge \in WaysOut(d, doomed)
        /\ s = Spared(d, doomed, refuge, tail, again, agent, strays)
  BY DEF Ready
<1>2. d \in State /\ d.t \in Tmux
  BY <1>1 DEF Good, State
<1>3. strays \in BOOLEAN /\ (doomed = {} => ~strays)
  BY DEF Strays
<1> HIDE DEF strays
<1>4. CASE refuge # None
  <2>1. refuge \in Window \ doomed /\ Live(d.t, refuge)
    BY <1>1, <1>4, WayOut
  <2>2. s = Evacuated(d, doomed, refuge, tail, again, strays)
    BY <1>1, <1>4 DEF Spared
  <2>3. LET v == Evacuated(d, doomed, refuge, tail, again, strays).t
        IN  /\ v \in Tmux
            /\ \A x \in Window \ doomed : Live(d.t, x) => Live(v, x)
            /\ d.t.cur # None /\ Live(d.t, d.t.cur) => v.cur \in Window \ doomed /\ Live(v, v.cur)
    BY <1>1, <1>3, <2>1, EvacuatedBrings
  <2>4. ASSUME doomed = {} PROVE s.t = tmux
    <3>1. s = [d EXCEPT !.t = Run(<<>>, d.t).t]
      BY <1>3, <2>2, <2>4 DEF Evacuated, Cleared
    <3>2. Run(<<>>, d.t).t = d.t
      BY RunNone
    <3> QED
      BY <1>1, <1>2, <3>1, <3>2 DEF State
  <2> QED
    BY <1>1, <1>4, <2>1, <2>2, <2>3, <2>4 DEF Spares
<1>5. CASE refuge = None
  <2>1. s = IF d.dock # None /\ d.dock.win \in doomed THEN Close(d, FALSE, agent) ELSE d
    BY <1>1, <1>5 DEF Spared
  <2>2. Close(d, FALSE, agent) = CloseHere(d, agent)
    BY DEF Close
  <2>3. d.dock # None => Shrinks(d.t, CloseHere(d, agent).t)
    BY <1>1, <1>2, CloseHereShrinks
  <2>4. Shrinks(d.t, d.t)
    BY <1>2 DEF Shrinks
  <2>5. \A x \in Window : Live(d.t, x) => x \in doomed
    BY <1>1, <1>5, WayOut
  <2>6. Shrinks(tmux, s.t) /\ (s.t = tmux \/ (dock # None /\ dock.win \in doomed))
    BY <1>1, <2>1, <2>2, <2>3, <2>4
  <2> QED
    BY <1>1, <1>5, <2>5, <2>6 DEF Spares, Shrinks
<1> QED
  BY <1>4, <1>5

\* The other clients are each in a session that is there.
Housed == \A c \in Other : also[c] # None => \E x \in Window : Live(tmux, x) /\ SessOf[x] = also[c]

\* A client that is not among the strays, or has nowhere to go, stays in its session;
\* else it is in the refuge's, unless the sidebar has moved.
LEMMA EscortedIs ==
  ASSUME NEW s, NEW strays, NEW refuge, NEW c \in Other, dock' = s.dock,
         dock # None /\ dock' # None => dock'.win = dock.win
  PROVE  /\ c \notin strays \/ refuge = None => Escorted(s, strays, refuge)[c] = also[c]
         /\ c \in strays /\ refuge # None => Escorted(s, strays, refuge)[c] = SessOf[refuge]
  BY DEF Escorted

\* What is left when the windows of a session are gone.
LEMMA SessionGoneIs ==
  ASSUME NEW v \in Tmux, NEW doomed \in SUBSET Window
  PROVE  \E k \in Tmux : /\ SessionGone(v, doomed) = Settle(k) /\ k.real = v.real \ doomed
                         /\ k.cur = v.cur
                         /\ \A p \in Pane : k.at[p] = IF v.at[p] \in doomed THEN None ELSE v.at[p]
<1> DEFINE at == [p \in Pane |-> IF v.at[p] \in doomed THEN None ELSE v.at[p]]
           k == [v EXCEPT !.real = @ \ doomed, !.at = at]
<1>1. SessionGone(v, doomed) = Settle(k)
  BY DEF SessionGone
<1>2. /\ at \in [Pane -> Window \cup {None}]
      /\ \A p \in Pane : at[p] = IF v.at[p] \in doomed THEN None ELSE v.at[p]
  BY DEF Tmux
<1> HIDE DEF at
<1>3. k \in Tmux /\ k.real = v.real \ doomed /\ k.cur = v.cur /\ k.at = at
  BY <1>2 DEF Tmux
<1> HIDE DEF k
<1> QED
  BY <1>1, <1>2, <1>3

\* A session that is killed takes no client along that could be elsewhere.
LEMMA KillSessionKeeps ==
  ASSUME IInv, ~broke, Seated(tmux), Housed, NEW w \in Window, KillSession(w)
  PROVE  /\ tmux.cur # None => Kept(tmux')
         /\ (dock # None /\ dock' # None => dock'.win = dock.win) /\ ~Deserted' =>
              \A c \in Other : also[c] # None => also'[c] # None
<1> DEFINE doomed == Doomed(w)
<1>1. PICK s, front, refuge :
        /\ Ready(doomed, doomed, w, front, refuge, s)
        /\ Shifts([s EXCEPT !.t = SessionGone(@, doomed)],
                  Escorted(s, Strays(w, doomed, front), refuge))
  BY KillSessionIs
<1>2. /\ NewSpacer \in Spacer /\ doomed \in SUBSET Window
      /\ \A x, y \in doomed : SessOf[x] = SessOf[y]
      /\ \A x \in Window : x \in doomed <=> SessOf[x] = SessOf[w] /\ Live(tmux, x)
  BY KillSessionIs DEF Doomed
<1> HIDE DEF doomed
<1> DEFINE v == s.t
           e == Escorted(s, Strays(w, doomed, front), refuge)
<1>3. Spares(tmux, v, doomed, refuge)
  BY <1>1, <1>2, ReadyKeeps
<1>4. s \in State /\ v \in Tmux
  BY <1>1, <1>2, ReadyGood DEF Good, State
<1>5. tmux' = SessionGone(v, doomed) /\ dock' = s.dock /\ also' = Staying(e, tmux')
  <2>1. [s EXCEPT !.t = SessionGone(@, doomed)].t = SessionGone(v, doomed)
        /\ [s EXCEPT !.t = SessionGone(@, doomed)].dock = s.dock
    BY <1>4 DEF State
  <2> QED
    BY <1>1, <2>1 DEF Shifts, Becomes
<1>6. v.at \in [Pane -> Window \cup {None}] /\ v.real \subseteq Window
  BY <1>4 DEF Tmux
<1>7. front \in Fronts(w)
  BY <1>1 DEF Ready
<1> HIDE DEF v, e
<1>8. PICK k \in Tmux : /\ tmux' = Settle(k) /\ k.real = v.real \ doomed /\ k.cur = v.cur
                        /\ \A p \in Pane : k.at[p] = IF v.at[p] \in doomed THEN None ELSE v.at[p]
  BY <1>2, <1>4, <1>5, SessionGoneIs
<1>9. \A x \in Window \ doomed : Live(v, x) => Live(k, x)
  BY <1>8, NoneIsNot DEF Live, In
<1>10. \A x : Live(k, x) <=> Live(tmux', x)
  BY <1>8, SettleAlike, LiveAlike DEF Alike
<1>11. ASSUME refuge = None PROVE \A x \in Window : ~Live(k, x)
  <2>1. ASSUME NEW x \in Window PROVE ~Live(k, x)
    <3>1. /\ \A y \in Window : Live(tmux, y) => y \in doomed
          /\ v.real = tmux.real /\ \A p \in Pane : v.at[p] \in {tmux.at[p], None}
      BY <1>3, <1>11 DEF Spares, Shrinks
    <3>2. x \notin k.real
      BY <1>8, <3>1 DEF Live
    <3>3. ASSUME NEW p \in Pane, k.at[p] = x PROVE FALSE
      <4>1. v.at[p] = x /\ x \notin doomed
        BY <1>8, <3>3, NoneIsNot
      <4>2. tmux.at[p] = x
        BY <3>1, <4>1, NoneIsNot
      <4> QED
        BY <3>1, <4>1, <4>2 DEF Live, In
    <3> QED
      BY <3>2, <3>3 DEF Live, In
  <2> QED
    BY <2>1
<1>12. ASSUME tmux.cur # None PROVE Kept(tmux')
  <2>1. CASE refuge # None
    <3>1. v.cur \in Window \ doomed /\ Live(v, v.cur)
      BY <1>3, <1>12, <2>1 DEF Spares, Seated
    <3>2. k.cur # None /\ Live(k, k.cur)
      BY <1>8, <1>9, <3>1, NoneIsNot
    <3> QED
      BY <1>8, <3>2, SettleKept
  <2>2. CASE refuge = None
    BY <1>8, <1>11, <2>2, SettleGone
  <2> QED
    BY <2>1, <2>2
<1>13. ASSUME dock # None /\ dock' # None => dock'.win = dock.win, ~Deserted',
              NEW c \in Other, also[c] # None
       PROVE  also'[c] # None
  <2>1. refuge # None
    BY <1>10, <1>11, <1>13 DEF Deserted
  <2>2. /\ refuge \in Window \ doomed /\ Live(tmux, refuge)
        /\ \A x \in Window \ doomed : Live(tmux, x) => Live(v, x)
    BY <1>3, <2>1 DEF Spares
  <2>3. \A x \in Window \ doomed : Live(tmux, x) => Live(tmux', x)
    BY <1>9, <1>10, <2>2
  <2>4. /\ c \notin Strays(w, doomed, front) => e[c] = also[c]
        /\ c \in Strays(w, doomed, front) => e[c] = SessOf[refuge]
    BY <1>5, <1>13, <2>1, EscortedIs DEF e
  <2>5. CASE c \in Strays(w, doomed, front)
    <3>1. Live(tmux', refuge) /\ SessOf[refuge] = e[c]
      BY <2>2, <2>3, <2>4, <2>5
    <3> QED
      BY <1>5, <2>2, <3>1, StayingIs
  <2>6. CASE c \notin Strays(w, doomed, front)
    <3>1. PICK x \in Window : Live(tmux, x) /\ SessOf[x] = also[c]
      BY <1>13 DEF Housed
    <3>2. front \in doomed
      <4>1. tmux.cur \in Window \cup {None}
        BY DEF IInv, TypeOK, Tmux
      <4>2. front \in Window /\ Live(tmux, front) /\ SessOf[front] = SessOf[w]
        BY <1>7, <4>1 DEF Fronts, Seated
      <4> QED
        BY <1>2, <4>2
    <3>3. also[c] # SessOf[w]
      BY <2>6, <3>2 DEF Strays
    <3>4. Live(tmux', x) /\ SessOf[x] = e[c]
      BY <1>2, <2>3, <2>4, <2>6, <3>1, <3>3
    <3> QED
      BY <1>5, <3>4, StayingIs
  <2> QED
    BY <2>5, <2>6
<1> QED
  BY <1>12, <1>13

\* Nor does a pane that is killed, whether its window goes with it or not.
LEMMA KillPaneKeeps ==
  ASSUME IInv, ~broke, Seated(tmux), Housed, NEW w \in Window, KillPane(w)
  PROVE  /\ tmux.cur # None => Kept(tmux')
         /\ (dock # None /\ dock' # None => dock'.win = dock.win) /\ ~Deserted' =>
              \A c \in Other : also[c] # None => also'[c] # None
<1> DEFINE doomed == Taken(w)
<1>1. PICK s, front, refuge :
        /\ Ready({}, doomed, w, front, refuge, s)
        /\ Shifts([s EXCEPT !.t = PanesGone(@, w)],
                  Escorted(s, Strays(w, doomed, front), refuge))
  BY KillPaneIs
<1>2. /\ NewSpacer \in Spacer /\ doomed \in SUBSET Window
      /\ \A x, y \in doomed : SessOf[x] = SessOf[y]
      /\ (TakesWindow(w) => doomed = {w}) /\ (~TakesWindow(w) => doomed = {})
      /\ up /\ w \in tmux.real
  BY KillPaneIs DEF Taken
<1> HIDE DEF doomed
<1> DEFINE v == s.t
           e == Escorted(s, Strays(w, doomed, front), refuge)
           k == [v EXCEPT !.real = @ \ {w}]
<1>3. Spares(tmux, v, doomed, refuge) /\ (doomed = {} /\ refuge # None => v = tmux)
  BY <1>1, <1>2, ReadyKeeps
<1>4. s \in State /\ v \in Tmux
  BY <1>1, <1>2, ReadyGood DEF Good, State
<1>5. tmux' = PanesGone(v, w) /\ dock' = s.dock /\ also' = Staying(e, tmux')
  <2>1. [s EXCEPT !.t = PanesGone(@, w)].t = PanesGone(v, w)
        /\ [s EXCEPT !.t = PanesGone(@, w)].dock = s.dock
    BY <1>4 DEF State
  <2> QED
    BY <1>1, <2>1 DEF Shifts, Becomes
<1>6. v.real \subseteq Window /\ front \in Fronts(w)
  BY <1>1, <1>4 DEF Tmux, Ready
<1> HIDE DEF v, e
<1>7. tmux' = Settle(k)
  BY <1>5 DEF PanesGone
<1>8. k \in Tmux /\ k.real = v.real \ {w} /\ k.at = v.at /\ k.cur = v.cur
  BY <1>4 DEF Tmux
<1> HIDE DEF k
<1>9. ASSUME NEW x, Live(v, x), x # w \/ In(v, w) # {} PROVE Live(k, x)
  BY <1>8, <1>9 DEF Live, In
<1>10. \A x : Live(k, x) <=> Live(tmux', x)
  BY <1>7, <1>8, SettleAlike, LiveAlike DEF Alike
<1>11. refuge = None => doomed = {w}
  <2>1. Live(tmux, w)
    BY <1>2 DEF Live
  <2> QED
    BY <1>2, <1>3, <2>1 DEF Spares
<1>12. doomed = {} => v = tmux /\ In(v, w) # {}
  BY <1>2, <1>3, <1>11 DEF TakesWindow
<1>13. ASSUME refuge = None
       PROVE  (\A x \in Window : ~Live(k, x)) \/ (In(v, w) # {} /\ v = tmux)
  <2>1. /\ \A x \in Window : Live(tmux, x) => x = w
        /\ v.real = tmux.real /\ \A p \in Pane : v.at[p] \in {tmux.at[p], None}
        /\ v = tmux \/ (dock # None /\ dock.win = w)
    BY <1>3, <1>11, <1>13 DEF Spares, Shrinks
  <2>2. ASSUME In(v, w) = {}, NEW x \in Window PROVE ~Live(k, x)
    <3>1. x # w => ~Live(tmux, x)
      BY <2>1
    <3>2. x \notin k.real
      BY <1>8, <2>1, <3>1 DEF Live
    <3>3. ASSUME NEW p \in Pane, k.at[p] = x PROVE FALSE
      <4>1. v.at[p] = x /\ x # w
        BY <1>8, <2>2, <3>3 DEF In
      <4>2. tmux.at[p] = x
        BY <2>1, <4>1, NoneIsNot
      <4> QED
        BY <3>1, <4>1, <4>2 DEF Live, In
    <3> QED
      BY <3>2, <3>3 DEF Live, In
  <2>3. ASSUME dock # None, dock.win = w PROVE In(v, w) = {}
    <3>1. In(tmux, w) \subseteq {dock.carved[w]}
      BY <1>2, <1>11, <1>13, <2>3 DEF TakesWindow
    <3>2. Good(Now, {}) /\ Now.t = tmux /\ Now.dock = dock /\ Now.broke = broke
      BY <1>2 DEF IInv, Now
    <3>3. dock.carved[w] = None
      BY <2>3, <3>2 DEF Good, Sound, Placed
    <3>4. In(tmux, w) = {}
      BY <3>1, <3>3, NoneIsNot DEF In
    <3> QED
      BY <2>1, <3>4, NoneIsNot DEF In
  <2> QED
    BY <2>1, <2>2, <2>3
<1>14. ASSUME refuge # None, NEW x \in Window \ doomed, Live(tmux, x) PROVE Live(k, x)
  <2>1. Live(v, x)
    BY <1>3, <1>14 DEF Spares
  <2> QED
    BY <1>2, <1>9, <1>12, <1>14, <2>1
<1>15. ASSUME tmux.cur # None PROVE Kept(tmux')
  <2>1. CASE refuge # None
    <3>1. v.cur \in Window \ doomed /\ Live(v, v.cur)
      BY <1>3, <1>15, <2>1 DEF Spares, Seated
    <3>2. k.cur # None /\ Live(k, k.cur)
      BY <1>2, <1>8, <1>9, <1>12, <3>1, NoneIsNot
    <3> QED
      BY <1>7, <1>8, <3>2, SettleKept
  <2>2. CASE refuge = None /\ \A x \in Window : ~Live(k, x)
    BY <1>7, <1>8, <2>2, SettleGone
  <2>3. CASE refuge = None /\ In(v, w) # {} /\ v = tmux
    <3>1. Live(k, k.cur) /\ k.cur # None
      BY <1>8, <1>9, <1>15, <2>3 DEF Seated
    <3> QED
      BY <1>7, <1>8, <3>1, SettleKept
  <2> QED
    BY <1>13, <2>1, <2>2, <2>3
<1>16. ASSUME dock # None /\ dock' # None => dock'.win = dock.win, ~Deserted',
              NEW c \in Other, also[c] # None
       PROVE  also'[c] # None
  <2>1. PICK x \in Window : Live(tmux, x) /\ SessOf[x] = also[c]
    BY <1>16 DEF Housed
  <2>2. /\ c \notin Strays(w, doomed, front) \/ refuge = None => e[c] = also[c]
        /\ c \in Strays(w, doomed, front) /\ refuge # None => e[c] = SessOf[refuge]
    BY <1>5, <1>16, EscortedIs DEF e
  <2>3. CASE refuge = None
    <3>1. In(v, w) # {} /\ v = tmux
      BY <1>10, <1>13, <1>16, <2>3 DEF Deserted
    <3>2. Live(tmux', x) /\ SessOf[x] = e[c]
      BY <1>9, <1>10, <2>1, <2>2, <2>3, <3>1
    <3> QED
      BY <1>5, <3>2, StayingIs
  <2>4. CASE refuge # None /\ c \in Strays(w, doomed, front)
    <3>1. refuge \in Window \ doomed /\ Live(tmux, refuge)
      BY <1>3, <2>4 DEF Spares
    <3>2. Live(tmux', refuge) /\ SessOf[refuge] = e[c]
      BY <1>10, <1>14, <2>2, <2>4, <3>1
    <3> QED
      BY <1>5, <3>1, <3>2, StayingIs
  <2>5. CASE refuge # None /\ c \notin Strays(w, doomed, front)
    <3>1. \E y \in Window \ doomed : Live(tmux, y) /\ SessOf[y] = also[c]
      <4>1. CASE x \notin doomed
        BY <2>1, <4>1
      <4>2. CASE x \in doomed
        <5>1. x = w /\ doomed = {w} /\ SessOf[w] = also[c]
          BY <1>2, <2>1, <4>2
        <5>2. tmux.cur \in Window \cup {None}
          BY DEF IInv, TypeOK, Tmux
        <5>3. front \in Window /\ Live(tmux, front) /\ SessOf[front] = SessOf[w]
          BY <1>6, <5>2 DEF Fronts, Seated
        <5>4. front \notin doomed
          BY <2>5, <5>1 DEF Strays
        <5> QED
          BY <5>1, <5>3, <5>4
      <4> QED
        BY <4>1, <4>2
    <3>2. PICK y \in Window \ doomed : Live(tmux, y) /\ SessOf[y] = also[c]
      BY <3>1
    <3>3. Live(tmux', y) /\ SessOf[y] = e[c]
      BY <1>10, <1>14, <2>2, <2>5, <3>2
    <3> QED
      BY <1>5, <3>3, StayingIs
  <2> QED
    BY <2>3, <2>4, <2>5
<1> QED
  BY <1>15, <1>16

-----------------------------------------------------------------------------
(* While the daemon works the client keeps a window.                         *)

\* No window of the user's is touched, and a client in a window stays in one.
Sits(t, u) == u \in Tmux /\ u.real = t.real /\ (Seated(t) => Seated(u))

\* One after the other.
LEMMA SitsTwice == ASSUME NEW t, NEW u, NEW v, Sits(t, u), Sits(u, v) PROVE Sits(t, v)
  BY DEF Sits

\* A line that splits nothing off.
LEMMA CalmSits ==
  ASSUME NEW t \in Tmux, NEW l \in Seq(Calm), l \in Seq(Cmd)
  PROVE  Sits(t, Run(l, t).t)
  BY RunSeated, RunType DEF Sits

\* Such a line after another line.
LEMMA SitsThen ==
  ASSUME NEW t \in Tmux, NEW l \in Seq(Cmd), NEW m \in Seq(Calm), m \in Seq(Cmd),
         Sits(t, Run(l, t).t)
  PROVE  Sits(t, Run(l \o m, t).t) /\ l \o m \in Seq(Cmd)
<1> DEFINE a == Run(l, t)
           r == Run(l \o m, t)
<1> HIDE DEF Cmd, Calm
<1>1. r = (IF a.ok THEN Run(m, a.t) ELSE a) /\ l \o m \in Seq(Cmd)
  BY RunConcat, ConcatProperties
<1>2. Sits(a.t, Run(m, a.t).t)
  BY CalmSits DEF Sits
<1> HIDE DEF a, r
<1>3. Sits(t, r.t)
  <2>1. CASE a.ok
    BY <1>1, <1>2, <2>1, SitsTwice DEF a
  <2>2. CASE ~a.ok
    BY <1>1, <2>2 DEF a
  <2> QED
    BY <2>1, <2>2
<1> QED
  BY <1>1, <1>3 DEF r

\* A pane that is new.
LEMMA SplitSits ==
  ASSUME NEW t \in Tmux, NEW r, NEW p \in Pane, NEW w \in Window, Splits(r, t, w, p), t.at[p] = None
  PROVE  Sits(t, r.t)
<1>1. r.t \in Tmux /\ r.t.real = t.real /\ r.t.cur = t.cur
  BY DEF Splits
<1>2. \A x \in Window : Live(t, x) => Live(r.t, x)
  BY SplitLive
<1> QED
  BY <1>1, <1>2 DEF Sits, Seated, Tmux

\* A pane that is new, after options that are marked.
LEMMA MarkSplitSits ==
  ASSUME NEW t \in Tmux, NEW p \in Pane, NEW w \in Window, NEW W \in SUBSET Window, t.at[p] = None
  PROVE  Sits(t, Run(Mark(W) \o Split(w, p), t).t) /\ Mark(W) \o Split(w, p) \in Seq(Cmd)
<1> DEFINE a == Run(Mark(W), t)
           b == Run(Split(w, p), t)
           r == Run(Mark(W) \o Split(w, p), t)
<1>1. Mark(W) \in Seq(Cmd) /\ Split(w, p) \in Seq(Cmd)
  BY Lines
<1> HIDE DEF Cmd
<1>2. r = (IF a.ok THEN Run(Split(w, p), a.t) ELSE a) /\ Mark(W) \o Split(w, p) \in Seq(Cmd)
  BY <1>1, RunConcat, ConcatProperties
<1>3. a.t = t
  BY RunOptions, TRUE \in BOOLEAN
<1>4. Sits(t, b.t)
  BY RunSplit, SplitSits
<1> HIDE DEF a, b, r
<1>5. r.t = t \/ r.t = b.t
  BY <1>2, <1>3 DEF b
<1>6. Sits(t, r.t)
  BY <1>4, <1>5 DEF Sits
<1> QED
  BY <1>2, <1>6 DEF r

\* A line that takes the sidebar to a window.
LEMMA AttemptSits ==
  ASSUME NEW s \in State, s.dock # None, NEW w \in Window, NEW q \in Spacer \cup {None},
         NEW tail \in BOOLEAN, NewSpacer \in Spacer, q = None => s.t.at[NewSpacer] = None
  PROVE  Sits(s.t, Attempt(s, w, q, tail).t)
<1> DEFINE t == s.t
           p == s.dock.pane
           n == NewSpacer
           K == Mark({w} \ s.claims)
           X == IF q # None THEN Swap(p, q) ELSE Split(w, n) \o Swap(p, n)
           m == IF SessOf[w] # SessOf[s.dock.win] THEN Switch(w) ELSE <<>>
           l == K \o X
           a == Run(l, t)
<1>1. /\ t \in Tmux /\ p \in Pane /\ n \in Pane /\ {w} \ s.claims \in SUBSET Window
      /\ (q # None => q \in Pane) /\ (q = None => t.at[n] = None)
  BY NoneIsNot DEF State, Docks
<1>2. Attempt(s, w, q, tail) = Run(l \o Select(w) \o m \o Focus(tail), t)
  BY DEF Attempt
<1>3. X = (IF q # None THEN Swap(p, q) ELSE Split(w, n) \o Swap(p, n)) /\ (m = Switch(w) \/ m = <<>>)
  OBVIOUS
<1>4. /\ K \in Seq(Cmd) /\ Split(w, n) \in Seq(Cmd) /\ Swap(p, n) \in Seq(Cmd)
      /\ (q # None => Swap(p, q) \in Seq(Cmd)) /\ Select(w) \in Seq(Cmd) /\ Switch(w) \in Seq(Cmd)
      /\ <<>> \in Seq(Cmd) /\ Focus(tail) \in Seq(Cmd)
  BY <1>1, Lines
<1>5. /\ K \in Seq(Calm) /\ Swap(p, n) \in Seq(Calm)
      /\ (q # None => Swap(p, q) \in Seq(Calm)) /\ Select(w) \in Seq(Calm) /\ Switch(w) \in Seq(Calm)
      /\ <<>> \in Seq(Calm) /\ Focus(tail) \in Seq(Calm)
  BY <1>1, CalmLines
<1>6. Run(K, t).t = t
  BY <1>1, RunOptions, TRUE \in BOOLEAN
<1> HIDE DEF Cmd, Calm, t, p, n, K, X, m
<1>7. Sits(t, a.t) /\ l \in Seq(Cmd)
  <2>1. Sits(t, Run(K, t).t)
    BY <1>1, <1>6 DEF Sits
  <2>2. CASE q # None
    <3>1. Sits(t, Run(K \o Swap(p, q), t).t) /\ K \o Swap(p, q) \in Seq(Cmd)
      BY <1>1, <1>4, <1>5, <2>1, <2>2, SitsThen
    <3> QED
      BY <1>3, <2>2, <3>1
  <2>3. CASE q = None
    <3> DEFINE b == Split(w, n) \o Swap(p, n)
    <3>1. Sits(t, Run(Split(w, n), t).t)
      BY <1>1, <2>3, RunSplit, SplitSits
    <3>2. Sits(t, Run(b, t).t) /\ b \in Seq(Cmd)
      BY <1>1, <1>4, <1>5, <3>1, SitsThen
    <3> HIDE DEF b
    <3>3. a = (IF Run(K, t).ok THEN Run(b, Run(K, t).t) ELSE Run(K, t)) /\ l \in Seq(Cmd)
      <4>1. X = b
        BY <1>3, <2>3 DEF b
      <4> QED
        BY <1>4, <3>2, <4>1, RunConcat, ConcatProperties
    <3>4. a.t = t \/ a.t = Run(b, t).t
      <4> HIDE DEF a
      <4> QED
        BY <1>6, <3>3
    <3> QED
      BY <1>1, <3>2, <3>3, <3>4 DEF Sits
  <2> QED
    BY <2>2, <2>3
<1> HIDE DEF l
<1> DEFINE l1 == l \o Select(w)
           l2 == l1 \o m
           l3 == l2 \o Focus(tail)
<1>8. Sits(t, Run(l1, t).t) /\ l1 \in Seq(Cmd)
  BY <1>1, <1>4, <1>5, <1>7, SitsThen
<1> HIDE DEF l1
<1>9. Sits(t, Run(l2, t).t) /\ l2 \in Seq(Cmd)
  BY <1>1, <1>3, <1>4, <1>5, <1>8, SitsThen
<1> HIDE DEF l2
<1>10. Sits(t, Run(l3, t).t)
  BY <1>1, <1>4, <1>5, <1>9, SitsThen
<1> QED
  BY <1>2, <1>10 DEF l3, l2, l1, t

\* A pane of winch that is killed.
LEMMA KillSits == ASSUME NEW t \in Tmux, NEW p \in Pane PROVE Sits(t, Run(Kill(p), t).t)
  BY CalmSits, CalmLines, Lines

\* A first visit.
LEMMA FirstVisitSits ==
  ASSUME NEW s \in State, s.dock # None, NEW w \in Window, NEW tail \in BOOLEAN,
         NewSpacer \in Spacer, s.t.at[NewSpacer] = None
  PROVE  Sits(s.t, FirstVisit(s, w, tail).t)
<1> DEFINE try == Attempt(s, w, None, tail)
           u == IF try.t.at[NewSpacer] # None THEN Run(Kill(NewSpacer), try.t).t ELSE try.t
           n == [s EXCEPT !.t = u, !.broke = s.broke \/ u # s.t]
<1>1. s.t \in Tmux /\ NewSpacer \in Pane
  BY NoneIsNot DEF State
<1>2. Sits(s.t, try.t)
  <2>1. None \in Spacer \cup {None}
    OBVIOUS
  <2> QED
    BY <2>1, AttemptSits
<1>3. FirstVisit(s, w, tail) = IF ~(Live(s.t, w) /\ Live(s.t, s.dock.win)) THEN s
                               ELSE IF try.ok THEN Landed(s, try.t, w, NewSpacer) ELSE n
  BY DEF FirstVisit, Visited, Failed, Undone
<1> HIDE DEF try
<1>4. Sits(s.t, u)
  <2>1. Sits(try.t, Run(Kill(NewSpacer), try.t).t)
    BY <1>1, <1>2, KillSits DEF Sits
  <2> QED
    BY <1>2, <2>1, SitsTwice
<1> HIDE DEF u
<1>5. n.t = u /\ Landed(s, try.t, w, NewSpacer).t = try.t
  BY DEF State, Landed
<1>6. Sits(s.t, s.t)
  BY <1>1 DEF Sits
<1> HIDE DEF n
<1> QED
  BY <1>2, <1>3, <1>4, <1>5, <1>6

\* dockMove.
LEMMA MoveSits ==
  ASSUME NEW D, NEW s, Good(s, D), ~s.broke, s.dock # None, NEW w \in Window,
         NEW tail \in BOOLEAN, NEW again \in BOOLEAN, NewSpacer \in Spacer, Fresh(s, NewSpacer)
  PROVE  Sits(s.t, Move(s, w, tail, again).t)
<1> DEFINE q == s.dock.carved[w]
           t == s.t
           p == s.dock.pane
           try == Attempt(s, w, q, tail)
           n == [s EXCEPT !.t = try.t, !.dock.carved[w] = None,
                          !.broke = s.broke \/ s.t.at[q] # None]
           c == [s.dock.carved EXCEPT ![w] = None]
           e == [s.dock EXCEPT !.carved = c]
<1>1. /\ s \in State /\ s.dock \in Docks /\ s.dock.carved \in MaybeSpacers
      /\ q \in Spacer \cup {None} /\ s.t \in Tmux /\ p \in Sidebar /\ p \in Pane
  BY NoneIsNot DEF Good, State, Docks, MaybeSpacers
<1>2. Move(s, w, tail, again) =
        IF w = s.dock.win \/ ~(Live(s.t, w) /\ Live(s.t, s.dock.win)) THEN s
        ELSE IF q = None THEN FirstVisit(s, w, tail)
        ELSE IF try.ok THEN Landed(s, try.t, w, q)
        ELSE FirstVisit(n, w, again)
  BY DEF Move, Revisited
<1>3. (q # None => t.at[q] \in {w, None}) /\ t.at[NewSpacer] = None
  BY <1>1 DEF Good, Sound, Placed, InSlots, Fresh
<1>4. Sits(t, try.t)
  <2> HIDE DEF q
  <2> QED
    BY <1>1, <1>3, AttemptSits
<1>5. Sits(t, t) /\ try.t \in Tmux
  BY <1>1, <1>4 DEF Sits
<1>6. Landed(s, try.t, w, q).t = try.t
  BY <1>1 DEF Landed, State
<1>7. ASSUME q = None PROVE Sits(t, FirstVisit(s, w, tail).t)
  BY <1>1, <1>3, FirstVisitSits
<1>8. ASSUME q # None, ~try.ok PROVE Sits(t, FirstVisit(n, w, again).t)
  <2>1. c \in MaybeSpacers
    BY <1>1 DEF MaybeSpacers
  <2>2. e \in Docks
    <3> HIDE DEF c
    <3> QED
      BY <1>1, <2>1 DEF Docks
  <2>3. n = [s EXCEPT !.t = try.t, !.dock = e, !.broke = s.broke \/ s.t.at[q] # None]
    BY <1>1 DEF State, Docks
  <2>4. (s.broke \/ s.t.at[q] # None) \in BOOLEAN
    BY <1>1 DEF State
  <2> HIDE DEF try
  <2>5. try.t.at[NewSpacer] = None
    <3>1. NewSpacer # p /\ NewSpacer # q
      <4>1. NewSpacer # p
        BY <1>1, NoneIsNot
      <4>2. Keeps(s, q)
        BY <1>1, <1>8 DEF Keeps, Has
      <4> QED
        BY <4>1, <4>2 DEF Fresh
    <3>2. try.t = t \/ Moved(t, try.t, p, q, w)
      BY <1>1, <1>3, <1>8, AttemptEnds DEF try
    <3>3. NewSpacer \in Pane
      BY NoneIsNot
    <3> QED
      BY <1>3, <3>1, <3>2, <3>3 DEF Moved
  <2> HIDE DEF c, e, n
  <2>6. n \in State /\ n.t = try.t /\ n.dock = e
    <3> HIDE DEF q
    <3> QED
      BY <1>1, <1>5, <2>2, <2>3, <2>4 DEF State
  <2>7. n.dock # None
    BY <2>2, <2>6, NoneIsNot
  <2>8. Sits(n.t, FirstVisit(n, w, again).t)
    BY <2>5, <2>6, <2>7, FirstVisitSits
  <2> QED
    BY <1>4, <2>6, <2>8, SitsTwice
<1> HIDE DEF q, try, n, t
<1> QED
  BY <1>2, <1>4, <1>5, <1>6, <1>7, <1>8 DEF t

\* releaseOne.
LEMMA ReleaseOneSits ==
  ASSUME NEW s \in State, NEW w \in Window, s.queue[w] # None
  PROVE  /\ Sits(s.t, ReleaseOne(s, w).t)
         /\ Sits(s.t, [ReleaseOne(s, w) EXCEPT !.armed = ReleaseOne(s, w).queue # Nobody].t)
         /\ \A p \in Pane : s.t.at[p] = None => ReleaseOne(s, w).t.at[p] = None
<1> DEFINE q == s.queue[w]
           l == Kill(q) \o Layout(w)
           u == Run(l, s.t).t
           n == [s EXCEPT !.t = u, !.queue[w] = None]
           m == [n EXCEPT !.armed = n.queue # Nobody]
<1>1. s.t \in Tmux /\ q \in Pane
  BY NoneIsNot DEF State, MaybeSpacers
<1>2. ReleaseOne(s, w) = n
  BY DEF ReleaseOne
<1> HIDE DEF q
<1>3. /\ Kill(q) \in Seq(Cmd) /\ Layout(w) \in Seq(Cmd)
      /\ Kill(q) \in Seq(Calm) /\ Layout(w) \in Seq(Calm)
  BY <1>1, Lines, CalmLines
<1> HIDE DEF Cmd, Calm
<1>4. l \in Seq(Cmd) /\ l \in Seq(Calm)
  BY <1>3, ConcatProperties
<1>5. Sits(s.t, u)
  <2> HIDE DEF l
  <2> QED
    BY <1>1, <1>4, CalmSits
<1>6. \A p \in Pane : s.t.at[p] = None => u.at[p] = None
  <2> DEFINE a == Run(Kill(q), s.t)
             b == Run(Layout(w), a.t)
             r == Run(l, s.t)
  <2>1. r = IF a.ok THEN b ELSE a
    BY <1>3, RunConcat
  <2>2. a.t \in Tmux /\ (a.t = s.t \/ a.t.at = [s.t.at EXCEPT ![q] = None])
    BY <1>1, RunKill
  <2>3. b.t = a.t \/ b.t.at = a.t.at
    BY <2>2, RunLayout
  <2>4. s.t.at \in [Pane -> Window \cup {None}]
    BY <1>1 DEF Tmux
  <2> HIDE DEF a, b, r
  <2>5. r.t.at = s.t.at \/ r.t.at = [s.t.at EXCEPT ![q] = None]
    BY <2>1, <2>2, <2>3
  <2> QED
    BY <2>4, <2>5 DEF r
<1> HIDE DEF u
<1>7. n.t = u /\ m.t = u
  BY DEF State
<1> HIDE DEF n
<1> QED
  BY <1>2, <1>5, <1>6, <1>7

\* flushPendingClose.
LEMMA FlushSits == ASSUME NEW s \in State PROVE Sits(s.t, Flush(s).t)
  BY FlushShrinks DEF Sits, Shrinks

\* dockOpen.
LEMMA OpenSits ==
  ASSUME NEW D, NEW s, Good(s, D), s.dock = None, NewSidebar \in Sidebar, s.t.at[NewSidebar] = None
  PROVE  Sits(s.t, Open(s).t)
<1> DEFINE f == Flush(s)
           w == f.t.cur
           r == IF f.queue[w] # None THEN ReleaseOne(f, w) ELSE f
           b == NewSidebar
           held == Holding(r.queue) \cup {w}
           W == held \ r.claims
           done == Run(Mark(W) \o Split(w, b), r.t)
           next == [r EXCEPT !.t = done.t, !.queue = Nobody]
           d == [pane |-> b, win |-> w, origin |-> w, scrub |-> FALSE, carved |-> r.queue]
           n1 == [next EXCEPT !.claims = held, !.dock = d]
           n2 == [next EXCEPT !.broke = r.broke \/ r.queue # Nobody]
<1>1. s \in State /\ b \in Pane
  BY NoneIsNot DEF Good
<1>2. Good(f, D)
  BY FlushGood
<1>3. f \in State /\ f.t \in Tmux
  BY <1>2 DEF Good, State
<1>4. Sits(s.t, f.t) /\ f.t.at[b] = None
  <2>1. Shrinks(s.t, Flush(s).t)
    BY <1>1, FlushShrinks
  <2> QED
    BY <1>1, <2>1, FlushSits DEF Shrinks
<1>5. Open(s) = IF f.t.cur = None THEN f ELSE OpenAt(f, w)
  BY DEF Open
<1> HIDE DEF f
<1>6. CASE f.t.cur = None
  BY <1>4, <1>5, <1>6
<1>7. CASE f.t.cur # None
  <2>1. w \in Window
    BY <1>3, <1>7 DEF Tmux
  <2>2. OpenAt(f, w) = IF done.ok THEN n1 ELSE n2
    BY DEF OpenAt
  <2> HIDE DEF w
  <2>3. Sits(f.t, r.t) /\ r.t.at[b] = None /\ r \in State
    <3>1. CASE f.queue[w] # None
      <4>1. Good(ReleaseOne(f, w), D)
        BY <1>2, <2>1, <3>1, ReleaseOneGood
      <4>2. Sits(f.t, ReleaseOne(f, w).t) /\ ReleaseOne(f, w).t.at[b] = None
        <5> HIDE DEF b
        <5> QED
          BY <1>1, <1>3, <1>4, <2>1, <3>1, ReleaseOneSits
      <4> QED
        BY <3>1, <4>1, <4>2 DEF Good
    <3>2. CASE f.queue[w] = None
      BY <1>3, <1>4, <3>2 DEF Sits
    <3> QED
      BY <3>1, <3>2
  <2> HIDE DEF r
  <2>4. W \in SUBSET Window /\ r.t \in Tmux
    BY <2>1, <2>3 DEF State, Holding
  <2> HIDE DEF W, b
  <2>5. Sits(r.t, done.t)
    BY <1>1, <2>1, <2>3, <2>4, MarkSplitSits
  <2> HIDE DEF done
  <2>6. n1.t = done.t /\ n2.t = done.t
    BY <2>3 DEF State
  <2> HIDE DEF n1, n2
  <2>7. OpenAt(f, w).t = done.t
    BY <2>2, <2>6
  <2>8. Sits(s.t, done.t)
    BY <1>4, <2>3, <2>5, SitsTwice
  <2> QED
    BY <1>5, <1>7, <2>7, <2>8
<1> QED
  BY <1>6, <1>7

\* dockClose back to the origin.
LEMMA CloseAwaySits ==
  ASSUME NEW s \in State, s.dock # None
  PROVE  Sits(s.t, CloseAway(s).t)
<1> DEFINE d == s.dock
           o == d.origin
           q == d.carved[o]
           y == IF q # None THEN Kill(q) \o Layout(o) ELSE <<>>
           l == Replay(s.claims) \o y
           l1 == l \o Select(o)
           l2 == l1 \o Switch(o)
           land == Run(l2, s.t)
           back == {w \in Window : Live(land.t, w) /\ SessOf[w] = SessOf[o]}
           x == CHOOSE w \in back : TRUE
           t == IF land.ok \/ back = {} THEN land.t ELSE Run(Switch(x), land.t).t
           z == Kill(d.pane) \o Layout(d.win)
           left == Run(z, t).t
           c == [d.carved EXCEPT ![o] = None]
           n == [s EXCEPT !.t = left, !.dock = None, !.claims = {},
                          !.broke = s.broke \/ (q # None /\ Strands(s.t, s.claims))]
<1>1. s.t \in Tmux /\ s.claims \in SUBSET Window
  BY DEF State
<1>2. d.pane \in Pane /\ d.win \in Window /\ o \in Window /\ d.carved \in MaybeSpacers
  BY DockIs
<1>3. q \in Pane \cup {None} /\ c \in MaybeSpacers
  BY <1>2, NoneIsNot DEF MaybeSpacers
<1>4. CloseAway(s) = DeferReleases(n, c)
  BY DEF CloseAway
<1> HIDE DEF d, o, q, c
<1>5. /\ Replay(s.claims) \in Seq(Cmd) /\ Replay(s.claims) \in Seq(Calm)
      /\ \A p \in Pane : Kill(p) \in Seq(Cmd) /\ Kill(p) \in Seq(Calm)
      /\ \A w \in Window : /\ Layout(w) \in Seq(Cmd) /\ Layout(w) \in Seq(Calm)
                           /\ Select(w) \in Seq(Cmd) /\ Select(w) \in Seq(Calm)
                           /\ Switch(w) \in Seq(Cmd) /\ Switch(w) \in Seq(Calm)
      /\ <<>> \in Seq(Cmd) /\ <<>> \in Seq(Calm)
  BY <1>1, Lines, CalmLines
<1> HIDE DEF Cmd, Calm
<1>6. y \in Seq(Cmd) /\ y \in Seq(Calm)
  <2>1. CASE q = None
    BY <1>5, <2>1
  <2>2. CASE q # None
    BY <1>2, <1>3, <1>5, <2>2, ConcatProperties
  <2> QED
    BY <2>1, <2>2
<1> HIDE DEF y
<1>7. l \in Seq(Cmd) /\ l \in Seq(Calm)
  BY <1>5, <1>6, ConcatProperties
<1> HIDE DEF l
<1>8. l1 \in Seq(Cmd) /\ l1 \in Seq(Calm)
  BY <1>2, <1>5, <1>7, ConcatProperties
<1> HIDE DEF l1
<1>9. l2 \in Seq(Cmd) /\ l2 \in Seq(Calm)
  BY <1>2, <1>5, <1>8, ConcatProperties
<1> HIDE DEF l2
<1>10. Sits(s.t, land.t)
  BY <1>1, <1>9, CalmSits
<1>11. x \in Window \/ back = {}
  OBVIOUS
<1>12. t = land.t \/ (back # {} /\ t = Run(Switch(x), land.t).t)
  OBVIOUS
<1> HIDE DEF land, back, x, t
<1>13. Sits(s.t, t)
  <2>1. CASE t = land.t
    BY <1>10, <2>1
  <2>2. CASE back # {} /\ t = Run(Switch(x), land.t).t
    <3>1. Sits(land.t, t)
      BY <1>5, <1>10, <1>11, <2>2, CalmSits DEF Sits
    <3> QED
      BY <1>10, <3>1, SitsTwice
  <2> QED
    BY <1>12, <2>1, <2>2
<1>14. z \in Seq(Cmd) /\ z \in Seq(Calm)
  BY <1>2, <1>5, ConcatProperties
<1> HIDE DEF z
<1>15. Sits(s.t, left)
  <2>1. Sits(t, left)
    BY <1>13, <1>14, CalmSits DEF Sits
  <2> QED
    BY <1>13, <2>1, SitsTwice
<1>16. left \in Tmux
  BY <1>15 DEF Sits
<1> HIDE DEF left
<1>17. n \in State /\ n.t = left
  BY <1>16 DEF State
<1> HIDE DEF n
<1>18. DeferReleases(n, c).t = left
  BY <1>3, <1>17, DeferIs
<1> QED
  BY <1>4, <1>15, <1>18

\* dockClose.
LEMMA CloseSits ==
  ASSUME NEW s \in State, s.dock # None, NEW toOrigin \in BOOLEAN, NEW agent \in BOOLEAN
  PROVE  Sits(s.t, Close(s, toOrigin, agent).t)
<1>1. Sits(s.t, CloseHere(s, agent).t)
  BY CloseHereShrinks DEF Sits, Shrinks
<1>2. Sits(s.t, CloseAway(s).t)
  BY CloseAwaySits
<1> QED
  BY <1>1, <1>2 DEF Close

\* The carve of a preview.
LEMMA CarveSits ==
  ASSUME NEW s \in State, s.dock # None, NEW w \in Window, NewSpacer \in Spacer,
         s.t.at[NewSpacer] = None
  PROVE  Sits(s.t, Carve(s, w).t)
<1> DEFINE held == Holding(s.dock.carved) \cup {s.dock.win, w}
           W == held \ s.claims
           done == Run(Mark(W) \o Split(w, NewSpacer), s.t)
           n == [s EXCEPT !.t = done.t, !.claims = held, !.dock.carved[w] = NewSpacer]
<1>1. s.t \in Tmux /\ NewSpacer \in Pane
  BY NoneIsNot DEF State
<1>2. W \in SUBSET Window
  BY DockIs DEF Holding
<1>3. Carve(s, w) = IF s.dock.carved[w] # None THEN s ELSE IF done.ok THEN n ELSE s
  BY DEF Carve
<1> HIDE DEF W
<1>4. Sits(s.t, done.t)
  BY <1>1, <1>2, MarkSplitSits
<1> HIDE DEF done, held
<1>5. n.t = done.t
  BY DEF State
<1>6. Sits(s.t, s.t)
  BY <1>1 DEF Sits
<1> HIDE DEF n
<1> QED
  BY <1>3, <1>4, <1>5, <1>6

\* reapEmptyCarves: the client leaves a window that it closes.
LEMMA ReapSits ==
  ASSUME NEW s \in State, s.dock # None
  PROVE  Sits(s.t, Reap(s).t)
<1> DEFINE d == s.dock
           lone == {w \in Holding(d.carved) : s.t.at[d.carved[w]] = w
                                         /\ w \notin s.t.real /\ Cardinality(In(s.t, w)) = 1}
           stale == {w \in Holding(d.carved) : s.t.at[d.carved[w]] # w}
           keep == [w \in Window |-> IF w \in lone \cup stale THEN None ELSE d.carved[w]]
           at == [p \in Pane |-> IF s.t.at[p] \in lone THEN None ELSE s.t.at[p]]
           u == [s.t EXCEPT !.at = at]
           t == Settle(u)
           owned == s.claims \ lone
           held == Holding(keep) \cup {d.win}
           owns == IF stale # {} /\ Run(Mark(held \ owned) \o Replay(owned \ held), t).ok
                   THEN held ELSE owned
           n == [s EXCEPT !.t = t, !.dock.carved = keep, !.claims = owns]
<1>1. s.t \in Tmux /\ s.t.at \in [Pane -> Window \cup {None}]
  BY DEF State, Tmux
<1>2. Reap(s) = n
  BY DEF Reap
<1> HIDE DEF lone, owns, keep
<1>3. at \in [Pane -> Window \cup {None}]
  BY <1>1
<1> HIDE DEF at
<1>4. u \in Tmux /\ u.real = s.t.real
  BY <1>1, <1>3 DEF Tmux
<1> HIDE DEF u
<1>5. Seated(t) /\ Alike(u, t)
  BY <1>4, SettleSeated, SettleAlike
<1> HIDE DEF t
<1>6. n.t = t
  BY DEF State
<1> HIDE DEF n
<1> QED
  BY <1>2, <1>4, <1>5, <1>6 DEF Sits, Alike

\* checkDock, all of it.
LEMMA CheckDockSits ==
  ASSUME NEW D, NEW s, Good(s, D), ~s.broke, s.dock # None, NEW tail \in BOOLEAN,
         NEW again \in BOOLEAN, NEW agent \in BOOLEAN, NEW unzoomed \in BOOLEAN,
         NewSpacer \in Spacer, Fresh(s, NewSpacer)
  PROVE  Sits(s.t, CheckDock(s, tail, again, agent, unzoomed).t)
<1> DEFINE d == s.dock
           reaped == IF d.scrub THEN s ELSE Reap(s)
           z == [reaped EXCEPT !.dock.scrub = FALSE]
           r == IF unzoomed THEN z ELSE reaped
           alone == s.t.at[d.pane] = d.win /\ d.win \notin s.t.real /\ In(s.t, d.win) = {d.pane}
           m == [s EXCEPT !.dock = None, !.claims = {}]
           a == Abandon(s)
           u == Run(Kill(d.pane), s.t).t
           w == s.t.cur
           n == CheckDock(s, tail, again, agent, unzoomed)
<1>1. /\ s \in State /\ s.t \in Tmux /\ d.pane \in Pane /\ d.win \in Window
      /\ d.carved \in MaybeSpacers /\ NewSpacer \in Pane
  BY DockIs, NoneIsNot DEF Good, State
<1>2. n = IF s.t.at[d.pane] = None THEN a
          ELSE IF s.t.cur = None THEN Close(s, FALSE, agent)
          ELSE IF ~d.scrub /\ alone THEN [a EXCEPT !.t = u]
          ELSE IF s.t.cur # d.win THEN Move(r, w, tail, again)
          ELSE r
  BY DEF CheckDock
<1>3. /\ Good(reaped, D) /\ reaped.dock # None /\ reaped.broke = s.broke
      /\ Fresh(reaped, NewSpacer) /\ Sits(s.t, reaped.t)
  <2>1. /\ Good(Reap(s), D) /\ Reap(s).dock # None /\ Reap(s).broke = s.broke
        /\ \A p \in Pane : Fresh(s, p) => Fresh(Reap(s), p)
    BY ReapGood
  <2>2. Sits(s.t, s.t) /\ Sits(s.t, Reap(s).t)
    BY <1>1, ReapSits DEF Sits
  <2> QED
    BY <1>1, <2>1, <2>2
<1> HIDE DEF reaped
<1>4. /\ Good(z, D) /\ z.dock # None /\ z.broke = reaped.broke
      /\ Fresh(z, NewSpacer) /\ z.t = reaped.t
  <2>1. d.win \in Window
    BY <1>1
  <2>2. z.t = reaped.t
    BY <1>3 DEF Good, State
  <2> HIDE DEF d, z
  <2>3. /\ Good(z, D) /\ z.dock # None /\ z.broke = reaped.broke
        /\ \A p : Fresh(reaped, p) => Fresh(z, p)
    BY <1>3, <2>1, MarkIs DEF z
  <2> QED
    BY <1>3, <2>2, <2>3
<1> HIDE DEF z
<1>5. Good(r, D) /\ r.dock # None /\ ~r.broke /\ Fresh(r, NewSpacer) /\ Sits(s.t, r.t)
  BY <1>3, <1>4
<1>6. a \in State /\ a.t = s.t
  <2>1. m \in State /\ m.t = s.t
    BY <1>1 DEF State
  <2>2. a = DeferReleases(m, d.carved)
    BY DEF Abandon
  <2> HIDE DEF m, d, a
  <2> QED
    BY <1>1, <2>1, <2>2, DeferIs
<1>7. Sits(s.t, s.t) /\ Sits(s.t, u)
  BY <1>1, KillSits DEF Sits
<1>8. Sits(s.t, Close(s, FALSE, agent).t)
  BY <1>1, CloseSits, FALSE \in BOOLEAN
<1> HIDE DEF r, u, a, n
<1>9. [a EXCEPT !.t = u].t = u
  BY <1>6 DEF State
<1>10. ASSUME s.t.cur # None PROVE Sits(s.t, Move(r, w, tail, again).t)
  <2>1. w \in Window
    BY <1>1, <1>10 DEF Tmux
  <2> HIDE DEF w
  <2>2. Sits(r.t, Move(r, w, tail, again).t)
    BY <1>5, <2>1, MoveSits
  <2> QED
    BY <1>5, <2>2, SitsTwice
<1> HIDE DEF alone, w
<1> QED
  BY <1>2, <1>5, <1>6, <1>7, <1>8, <1>9, <1>10 DEF n

\* Every command, re-list and timer of the daemon, apart from the kills.
LEMMA CommandSits ==
  ASSUME IInv, ~broke
  PROVE  DockOpen \/ DockClose \/ EndScrub \/ CloseTimer \/ ReleaseTimer \/ Relist
           => Sits(tmux, tmux')
<1>1. /\ Now \in State /\ (up => Good(Now, {})) /\ TypeOK /\ tmux \in Tmux
      /\ Now.t = tmux /\ Now.dock = dock /\ Now.queue = queue /\ Now.closing = closing
      /\ Now.broke = broke
  BY NewIsFresh DEF IInv, Now, TypeOK
<1>2. \A s : Steps(s) => tmux' = s.t
  BY DEF Steps, Shifts, Becomes
<1>3. Sits(tmux, tmux)
  BY <1>1 DEF Sits
<1>4. ASSUME DockOpen PROVE Sits(tmux, tmux')
  <2>1. up /\ Steps(Open(Now)) /\ Now.dock = None
    BY <1>1, <1>4 DEF DockOpen
  <2>2. NewSidebar \in Sidebar /\ Now.t.at[NewSidebar] = None
    BY <1>1, <1>4, NewIsFresh DEF DockOpen
  <2>3. Sits(Now.t, Open(Now).t)
    BY <1>1, <2>1, <2>2, OpenSits
  <2> QED
    BY <1>1, <1>2, <2>1, <2>3
<1>5. ASSUME DockClose PROVE Sits(tmux, tmux')
  <2>1. PICK toOrigin \in BOOLEAN, agent \in BOOLEAN : Steps(Close(Now, toOrigin, agent))
    BY <1>5 DEF DockClose
  <2>2. Now.dock # None
    BY <1>1, <1>5 DEF DockClose, Docked
  <2>3. Sits(Now.t, Close(Now, toOrigin, agent).t)
    BY <1>1, <2>2, CloseSits
  <2> QED
    BY <1>1, <1>2, <2>1, <2>3
<1>6. ASSUME EndScrub PROVE Sits(tmux, tmux')
  <2>1. PICK o : Steps([Now EXCEPT !.dock.scrub = FALSE, !.dock.origin = o])
    <3>1. PICK commit \in BOOLEAN :
            Steps([Now EXCEPT !.dock.scrub = FALSE,
                              !.dock.origin = IF commit THEN dock.win ELSE @])
      BY <1>6 DEF EndScrub
    <3> DEFINE z == [Now EXCEPT !.dock.scrub = FALSE,
                                !.dock.origin = IF commit THEN dock.win ELSE dock.origin]
    <3>2. [Now EXCEPT !.dock.scrub = FALSE, !.dock.origin = IF commit THEN dock.win ELSE @] = z
      <4>1. Now.dock.origin = dock.origin
        BY <1>1
      <4>2. dock # None /\ dock \in Docks
        BY <1>1, <1>6, DockIs DEF EndScrub, Docked
      <4> QED
        BY <1>1, <4>1, <4>2 DEF State, Docks
    <3> QED
      BY <3>1, <3>2
  <2>2. [Now EXCEPT !.dock.scrub = FALSE, !.dock.origin = o].t = Now.t
    BY <1>1 DEF State
  <2> QED
    BY <1>1, <1>2, <1>3, <2>1, <2>2
<1>7. ASSUME CloseTimer PROVE Sits(tmux, tmux')
  <2>1. Steps(Flush(Now))
    BY <1>7 DEF CloseTimer
  <2>2. Sits(Now.t, Flush(Now).t)
    BY <1>1, FlushSits
  <2> QED
    BY <1>1, <1>2, <2>1, <2>2
<1>8. ASSUME ReleaseTimer PROVE Sits(tmux, tmux')
  <2>1. ASSUME Steps([Now EXCEPT !.armed = FALSE]) PROVE Sits(tmux, tmux')
    <3>1. [Now EXCEPT !.armed = FALSE].t = Now.t
      BY <1>1 DEF State
    <3> QED
      BY <1>1, <1>2, <1>3, <2>1, <3>1
  <2>2. ASSUME NEW w \in Window, queue[w] # None,
                Steps([ReleaseOne(Now, w) EXCEPT !.armed = ReleaseOne(Now, w).queue # Nobody])
         PROVE  Sits(tmux, tmux')
    <3>1. Sits(Now.t, [ReleaseOne(Now, w) EXCEPT !.armed = ReleaseOne(Now, w).queue # Nobody].t)
      BY <1>1, <2>2, ReleaseOneSits
    <3> QED
      BY <1>1, <1>2, <2>2, <3>1
  <2>3. CASE UNCHANGED tmux
    BY <1>3, <2>3
  <2> QED
    BY <1>8, <2>1, <2>2, <2>3 DEF ReleaseTimer, May, vars
<1>9. ASSUME Relist PROVE Sits(tmux, tmux')
  <2> DEFINE s(tail, again, agent, unzoomed) == CheckDock(Now, tail, again, agent, unzoomed)
  <2>1. CASE UNCHANGED tmux
    BY <1>3, <2>1 DEF Sits, Seated, Live, In
  <2>2. CASE ~UNCHANGED tmux
    <3> DEFINE Checks(n) ==
                 /\ tmux' = n.t /\ dock' = n.dock /\ closing' = n.closing
                 /\ queue' = n.queue /\ claims' = n.claims /\ armed' = n.armed
                 /\ broke' = n.broke /\ kick' = Changed(n) /\ UNCHANGED up
    <3>1. /\ up /\ dock # None /\ Unused(Now, Spacer) # {}
          /\ \E tail \in Maybe(tmux.cur # dock.win), again \in Maybe(Retries({tmux.cur} \ {None})),
                agent \in Maybe(tmux.cur = None), unzoomed \in Maybe(dock.scrub) : Checks(s(tail, again, agent, unzoomed))
      <4> HIDE DEF s
      <4> QED
        BY <1>9, <2>2 DEF Relist, s
    <3>2. /\ up /\ dock # None /\ Unused(Now, Spacer) # {}
          /\ \E tail \in Maybe(tmux.cur # dock.win), again \in Maybe(Retries({tmux.cur} \ {None})),
                agent \in Maybe(tmux.cur = None), unzoomed \in Maybe(dock.scrub) : tmux' = s(tail, again, agent, unzoomed).t
      BY <3>1
    <3> HIDE DEF s
    <3>3. \A cond : Maybe(cond) \subseteq BOOLEAN
      BY DEF Maybe
    <3>4. PICK tail \in BOOLEAN, again \in BOOLEAN, agent \in BOOLEAN, unzoomed \in BOOLEAN :
            tmux' = s(tail, again, agent, unzoomed).t
      BY <3>2, <3>3
    <3>5. NewSpacer \in Spacer /\ Fresh(Now, NewSpacer)
      BY <1>1, <3>2, NewIsFresh
    <3>6. Sits(Now.t, CheckDock(Now, tail, again, agent, unzoomed).t)
      BY <1>1, <3>2, <3>5, CheckDockSits
    <3> QED
      BY <1>1, <3>4, <3>6 DEF s
  <2> QED
    BY <2>1, <2>2
<1> QED
  BY <1>4, <1>5, <1>6, <1>7, <1>8, <1>9

\* The commands that name a window.
LEMMA WindowSits ==
  ASSUME IInv, ~broke, NEW w \in Window
  PROVE  ToggleOnTarget(w) \/ MoveTo(w) \/ Preview(w) \/ GotoPane(w) => Sits(tmux, tmux')
<1>1. /\ Now \in State /\ (up => Good(Now, {})) /\ TypeOK /\ tmux \in Tmux
      /\ Now.t = tmux /\ Now.dock = dock /\ Now.queue = queue /\ Now.closing = closing
      /\ Now.broke = broke
  BY NewIsFresh DEF IInv, Now, TypeOK
<1>2. /\ \A s : Steps(s) => tmux' = s.t
      /\ \A s, where : Shifts(s, where) => tmux' = s.t
  BY DEF Steps, Shifts, Becomes
<1>3. \A u : u = tmux => Sits(tmux, u)
  BY <1>1 DEF Sits
<1>4. ASSUME up, Now.dock # None, Unused(Now, Spacer) # {}, NEW tail \in BOOLEAN, NEW again \in BOOLEAN
      PROVE  LET m == Move(Now, w, tail, again)
             IN  Sits(tmux, m.t) /\ m \in State /\ m.dock # None
  <2>1. NewSpacer \in Spacer /\ Fresh(Now, NewSpacer)
    BY <1>1, <1>4, NewIsFresh
  <2>2. Good(Move(Now, w, tail, again), {}) /\ Move(Now, w, tail, again).dock # None
    BY <1>1, <1>4, <2>1, MoveGood
  <2>3. Sits(Now.t, Move(Now, w, tail, again).t)
    BY <1>1, <1>4, <2>1, MoveSits
  <2> QED
    BY <1>1, <2>2, <2>3 DEF Good
<1>5. ASSUME ToggleOnTarget(w) PROVE Sits(tmux, tmux')
  <2>1. PICK tail \in BOOLEAN, again \in BOOLEAN, agent \in BOOLEAN :
          /\ Unused(Now, Spacer) # {}
          /\ IF dock.carved[w] = None
             THEN Steps(Close([Now EXCEPT !.dock.origin = w], TRUE, agent))
             ELSE Steps(IF Move(Now, w, tail, again).dock.win = w
                        THEN Close(Move(Now, w, tail, again), FALSE, agent)
                        ELSE Move(Now, w, tail, again))
    BY <1>5, ToggleIs
  <2>2. up /\ Now.dock # None
    BY <1>1, <1>5 DEF ToggleOnTarget, Docked
  <2> DEFINE m == Move(Now, w, tail, again)
             a == [Now EXCEPT !.dock.origin = w]
  <2>3. Sits(tmux, m.t) /\ m \in State /\ m.dock # None
    BY <1>4, <2>1, <2>2
  <2>4. a \in State /\ a.dock # None /\ a.t = tmux
    <3>1. TRUE \in BOOLEAN
      OBVIOUS
    <3>2. Good(a, {}) /\ a.dock # None
      BY <1>1, <2>2, <3>1, MarkIs
    <3>3. a.t = Now.t
      BY <1>1 DEF State
    <3> QED
      BY <1>1, <3>2, <3>3 DEF Good
  <2>5. Steps(Close(a, TRUE, agent)) \/ Steps(Close(m, FALSE, agent)) \/ Steps(m)
    BY <2>1
  <2> HIDE DEF m, a
  <2>6. Sits(a.t, Close(a, TRUE, agent).t) /\ Sits(m.t, Close(m, FALSE, agent).t)
    BY <2>3, <2>4, CloseSits, TRUE \in BOOLEAN, FALSE \in BOOLEAN
  <2>7. Sits(tmux, Close(a, TRUE, agent).t) /\ Sits(tmux, Close(m, FALSE, agent).t)
    BY <2>3, <2>4, <2>6, SitsTwice
  <2> DEFINE e == Close(a, TRUE, agent)
             f == Close(m, FALSE, agent)
  <2> HIDE DEF e, f
  <2>8. (Steps(e) \/ Steps(f) \/ Steps(m)) /\ Sits(tmux, e.t) /\ Sits(tmux, f.t)
    BY <2>5, <2>7 DEF e, f
  <2>9. tmux' = e.t \/ tmux' = f.t \/ tmux' = m.t
    BY <1>2, <2>8
  <2> QED
    BY <2>3, <2>8, <2>9
<1>6. ASSUME MoveTo(w) PROVE Sits(tmux, tmux')
  <2>1. PICK tail \in BOOLEAN, again \in BOOLEAN, commit \in BOOLEAN :
          /\ Unused(Now, Spacer) # {}
          /\ Steps(IF commit /\ Move(Now, w, tail, again).dock.win = w
                   THEN [Move(Now, w, tail, again) EXCEPT !.dock.origin = w]
                   ELSE Move(Now, w, tail, again))
    BY <1>6, MoveToIs
  <2>2. up /\ Now.dock # None
    BY <1>1, <1>6 DEF MoveTo, Docked
  <2> DEFINE m == Move(Now, w, tail, again)
             a == [m EXCEPT !.dock.origin = w]
  <2>3. Sits(tmux, m.t) /\ m \in State
    BY <1>4, <2>1, <2>2
  <2>4. Steps(a) \/ Steps(m)
    BY <2>1
  <2> HIDE DEF m
  <2>5. a.t = m.t
    BY <2>3 DEF State
  <2> HIDE DEF a
  <2> QED
    BY <1>2, <2>3, <2>4, <2>5
<1>7. ASSUME Preview(w) PROVE Sits(tmux, tmux')
  <2>1. PICK carve \in BOOLEAN :
          /\ Unused(Now, Spacer) # {}
          /\ Steps([IF carve THEN Carve(Now, w) ELSE Now
                      EXCEPT !.dock.scrub = @ \/ tmux.at[dock.pane] # None])
    BY <1>7 DEF Preview
  <2>2. up /\ Now.dock # None /\ NewSpacer \in Spacer /\ Fresh(Now, NewSpacer) /\ w # Now.dock.win
    BY <1>1, <1>7, <2>1, NewIsFresh DEF Preview, Docked
  <2> DEFINE s == IF carve THEN Carve(Now, w) ELSE Now
             b == s.dock.scrub \/ tmux.at[dock.pane] # None
             n == [s EXCEPT !.dock.scrub = b]
  <2>3. s \in State /\ Sits(tmux, s.t)
    <3>1. Good(Carve(Now, w), {})
      BY <1>1, <2>2, CarveGood
    <3>2. Sits(Now.t, Carve(Now, w).t)
      BY <1>1, <2>2, CarveSits DEF Fresh
    <3> QED
      BY <1>1, <1>3, <3>1, <3>2 DEF Good
  <2>4. Steps(n)
    BY <2>1
  <2> HIDE DEF s, b
  <2>5. n.t = s.t
    BY <2>3 DEF State
  <2> HIDE DEF n
  <2> QED
    BY <1>2, <2>3, <2>4, <2>5
<1>8. ASSUME GotoPane(w) PROVE Sits(tmux, tmux')
  <2> DEFINE K == IF tmux.cur = None THEN <<>> ELSE Switch(w)
             l == K \o Select(w)
             u == Run(l, tmux).t
  <2>1. PICK where : Shifts([Now EXCEPT !.t = u], where)
    BY <1>8 DEF GotoPane
  <2>2. /\ Switch(w) \in Seq(Cmd) /\ Select(w) \in Seq(Cmd) /\ <<>> \in Seq(Cmd)
        /\ Switch(w) \in Seq(Calm) /\ Select(w) \in Seq(Calm) /\ <<>> \in Seq(Calm)
    BY Lines, CalmLines
  <2> HIDE DEF Cmd, Calm
  <2>3. K \in Seq(Cmd) /\ K \in Seq(Calm)
    BY <2>2
  <2> HIDE DEF K
  <2>4. l \in Seq(Cmd) /\ l \in Seq(Calm)
    BY <2>2, <2>3, ConcatProperties
  <2> HIDE DEF l
  <2>5. Sits(tmux, u)
    BY <1>1, <2>4, CalmSits
  <2> HIDE DEF u
  <2>6. [Now EXCEPT !.t = u].t = u
    BY <1>1 DEF State
  <2> QED
    BY <1>2, <2>1, <2>5, <2>6
<1> QED
  BY <1>5, <1>6, <1>7, <1>8

\* A kill ends with a client that has settled.
LEMMA KillsSeated ==
  ASSUME IInv, NEW w \in Window, KillSession(w) \/ KillPane(w)
  PROVE  Seated(tmux')
<1>1. \A s, where : Shifts(s, where) => tmux' = s.t
  BY DEF Shifts, Becomes
<1>2. Doomed(w) \in SUBSET Window /\ Taken(w) \in SUBSET Window
  BY DEF Doomed, Taken
<1>3. CASE KillSession(w)
  <2>1. PICK s, front, refuge :
          /\ Ready(Doomed(w), Doomed(w), w, front, refuge, s)
          /\ Shifts([s EXCEPT !.t = SessionGone(@, Doomed(w))],
                    Escorted(s, Strays(w, Doomed(w), front), refuge))
    BY <1>3, KillSessionIs
  <2>2. Good(s, Doomed(w))
    BY <1>2, <1>3, <2>1, ReadyGood, KillSessionIs
  <2>3. s \in State /\ s.t \in Tmux
    BY <2>2 DEF Good, State
  <2>4. tmux' = SessionGone(s.t, Doomed(w))
    <3>1. tmux' = [s EXCEPT !.t = SessionGone(@, Doomed(w))].t
      BY <1>1, <2>1
    <3> QED
      BY <2>3, <3>1 DEF State
  <2> QED
    BY <1>2, <2>3, <2>4, SessionGoneIs, SettleSeated
<1>4. CASE KillPane(w)
  <2>1. PICK s, front, refuge :
          /\ Ready({}, Taken(w), w, front, refuge, s)
          /\ Shifts([s EXCEPT !.t = PanesGone(@, w)],
                    Escorted(s, Strays(w, Taken(w), front), refuge))
    BY <1>4, KillPaneIs
  <2>2. Good(s, {})
    BY <1>2, <1>4, <2>1, ReadyGood, KillPaneIs
  <2> DEFINE k == [s.t EXCEPT !.real = @ \ {w}]
  <2>3. s \in State /\ s.t \in Tmux
    BY <2>2 DEF Good, State
  <2>4. tmux' = Settle(k)
    <3>1. tmux' = [s EXCEPT !.t = PanesGone(@, w)].t
      BY <1>1, <2>1
    <3>2. tmux' = PanesGone(s.t, w)
      BY <2>3, <3>1 DEF State
    <3> QED
      BY <3>2 DEF PanesGone
  <2>5. k \in Tmux
    BY <2>3 DEF Tmux
  <2> HIDE DEF k
  <2> QED
    BY <2>4, <2>5, SettleSeated
<1> QED
  BY <1>3, <1>4

\* The user may take the client anywhere, and what the user takes away settles it.
LEMMA UserSeated ==
  ASSUME IInv
  PROVE  /\ \A w \in Window : Walks(w) => Seated(tmux') /\ tmux'.real = tmux.real
         /\ Start => Seated(tmux') /\ tmux'.real = tmux.real
         /\ \A w \in Window : ClosesPanes(w) \/ ClosesWindow(w) => Seated(tmux') /\ user' # user
         /\ \A p \in Pane : ClosesPane(p) => Seated(tmux') /\ user' # user
         /\ Detaches \/ Reattach \/ Crash => Seated(tmux') /\ user' # user
<1>1. tmux \in Tmux /\ tmux.at \in [Pane -> Window \cup {None}] /\ user \in Nat
  BY DockAssumption DEF IInv, TypeOK, Tmux
<1>2. ASSUME NEW t \in Tmux, NEW torn, Disturbs(t, torn) PROVE Seated(tmux') /\ user' # user
  <2>1. tmux' = Settle(t) /\ user' = user + 1
    BY <1>2 DEF Disturbs
  <2> QED
    BY <1>1, <1>2, <2>1, SettleSeated
<1>3. ASSUME NEW w \in Window, Walks(w) PROVE Seated(tmux') /\ tmux'.real = tmux.real
  <2>1. tmux' = [tmux EXCEPT !.cur = w] /\ Live(tmux, w)
    BY <1>3 DEF Walks
  <2>2. tmux'.cur = w /\ tmux'.real = tmux.real /\ tmux'.at = tmux.at
    BY <1>1, <2>1 DEF Tmux
  <2> QED
    BY <2>1, <2>2 DEF Seated, Live, In
<1>4. ASSUME Start PROVE Seated(tmux') /\ tmux'.real = tmux.real
  <2>1. tmux' = Settle(Without(Spacer))
    BY <1>4 DEF Start
  <2>2. Without(Spacer) \in Tmux /\ Without(Spacer).real = tmux.real
    BY <1>1, WithoutIs
  <2> QED
    BY <2>1, <2>2, SettleSeated, SettleAlike DEF Alike
<1>5. ASSUME NEW w \in Window, ClosesPanes(w) PROVE Seated(tmux') /\ user' # user
  <2> DEFINE t == [tmux EXCEPT !.real = @ \ {w}]
  <2>1. t \in Tmux /\ Disturbs(t, {})
    BY <1>1, <1>5 DEF Tmux, ClosesPanes
  <2> QED
    BY <1>2, <2>1
<1>6. ASSUME NEW w \in Window, ClosesWindow(w) PROVE Seated(tmux') /\ user' # user
  <2> DEFINE at == [p \in Pane |-> IF tmux.at[p] = w THEN None ELSE tmux.at[p]]
             t == [tmux EXCEPT !.real = @ \ {w}, !.at = at]
  <2>1. Disturbs(t, {})
    BY <1>6 DEF ClosesWindow
  <2>2. at \in [Pane -> Window \cup {None}]
    BY <1>1
  <2> HIDE DEF at
  <2>3. t \in Tmux
    BY <1>1, <2>2 DEF Tmux
  <2> HIDE DEF t
  <2> QED
    BY <1>2, <2>1, <2>3
<1>7. ASSUME NEW p \in Pane, ClosesPane(p) PROVE Seated(tmux') /\ user' # user
  <2> DEFINE c == Kill(p)[1]
  <2>1. Disturbs(Effect(c, tmux), {tmux.at[p]}) /\ tmux.at[p] # None
    BY <1>7 DEF ClosesPane
  <2>2. <<c>> = Kill(p) /\ c = [do |-> "kill", pane |-> p]
    BY DEF Kill
  <2>3. Possible(c, tmux)
    BY <2>1, <2>2 DEF Possible
  <2> HIDE DEF c
  <2>4. Run(<<c>>, tmux) = IF Possible(c, tmux) THEN [t |-> Effect(c, tmux), ok |-> TRUE]
                                                ELSE [t |-> tmux, ok |-> FALSE]
    BY RunOne
  <2>5. Effect(c, tmux) \in Tmux
    <3>1. Run(Kill(p), tmux).t = Effect(c, tmux)
      BY <2>2, <2>3, <2>4
    <3>2. Run(Kill(p), tmux).t \in Tmux
      BY <1>1, <2>1, RunKill
    <3> QED
      BY <3>1, <3>2
  <2> QED
    BY <1>2, <2>1, <2>5
<1>8. ASSUME Detaches PROVE Seated(tmux') /\ user' # user
  <2> DEFINE t == [tmux EXCEPT !.cur = None]
  <2>1. t \in Tmux /\ Disturbs(t, {})
    BY <1>1, <1>8 DEF Tmux, Detaches
  <2> QED
    BY <1>2, <2>1
<1>9. ASSUME Reattach PROVE Seated(tmux') /\ user' # user
  <2>1. Without(Spacer) \in Tmux /\ Disturbs(Without(Spacer), {})
    BY <1>1, <1>9, WithoutIs DEF Reattach
  <2> QED
    BY <1>2, <2>1
<1>10. ASSUME Crash PROVE Seated(tmux') /\ user' # user
  <2>1. Without(Sidebar) \in Tmux /\ Disturbs(Without(Sidebar), {w \in Window : In(tmux, w) # {}})
    BY <1>1, <1>10, WithoutIs DEF Crash
  <2> QED
    BY <1>2, <2>1
<1> QED
  BY <1>3, <1>4, <1>5, <1>6, <1>7, <1>8, <1>9, <1>10

\* A client is in a window that is there, whoever acts; and only the user, or a kill that
\* keeps the clients, takes the user's panes away.
LEMMA StepSeated ==
  ASSUME IInv, Seated(tmux), Housed, [Next]_vars
  PROVE  /\ Seated(tmux')
         /\ tmux'.real # tmux.real /\ user' = user =>
              /\ tmux.cur # None => Kept(tmux')
              /\ (dock # None /\ dock' # None => dock'.win = dock.win) /\ ~Deserted' =>
                   \A c \in Other : also[c] # None => also'[c] # None
<1>1. CASE UNCHANGED tmux
  BY <1>1 DEF Seated, Live, In
<1>2. CASE ~broke /\ \E w \in Window : KillSession(w) \/ KillPane(w)
  <2>1. PICK w \in Window : KillSession(w) \/ KillPane(w)
    BY <1>2
  <2>2. Seated(tmux')
    BY <2>1, KillsSeated
  <2>3. /\ tmux.cur # None => Kept(tmux')
        /\ (dock # None /\ dock' # None => dock'.win = dock.win) /\ ~Deserted' =>
             \A c \in Other : also[c] # None => also'[c] # None
    BY <1>2, <2>1, KillSessionKeeps, KillPaneKeeps
  <2> QED
    BY <2>2, <2>3
<1>3. CASE Sits(tmux, tmux')
  BY <1>3 DEF Sits
<1>4. CASE ~broke /\ (DockOpen \/ DockClose \/ EndScrub \/ Relist \/ CloseTimer \/ ReleaseTimer)
  BY <1>3, <1>4, CommandSits
<1>5. CASE ~broke /\ \E w \in Window : ToggleOnTarget(w) \/ MoveTo(w) \/ Preview(w) \/ GotoPane(w)
  BY <1>3, <1>5, WindowSits
<1>6. CASE (\E w \in Window : Walks(w)) \/ Start
  BY <1>6, UserSeated
<1>7. CASE \/ \E w \in Window : ClosesPanes(w) \/ ClosesWindow(w)
           \/ \E p \in Pane : ClosesPane(p)
           \/ Detaches \/ Reattach \/ Crash
  BY <1>7, UserSeated
<1>8. CASE (\E c \in Other : AnotherGoes(c)) \/ GivesInput
  BY <1>1, <1>8 DEF AnotherGoes, GivesInput
<1>9. CASE UNCHANGED vars
  BY <1>1, <1>9 DEF vars
<1> QED
  BY <1>2, <1>4, <1>5, <1>6, <1>7, <1>8, <1>9 DEF Next

\* What a step of the daemon, or a window that closes, leaves of the other clients is
\* what tmux makes of it.
LEMMA StepStays ==
  ASSUME IInv, [Next]_vars
  PROVE  \/ \E where : also' = Staying(where, tmux')
         \/ also' = also /\ tmux'.at = tmux.at /\ tmux'.real = tmux.real
         \/ \E c \in Other : AnotherGoes(c)
<1> DEFINE Stay == \E where : also' = Staying(where, tmux')
           Same == also' = also /\ tmux'.at = tmux.at /\ tmux'.real = tmux.real
<1>1. \A s, where : Shifts(s, where) => Stay
  BY DEF Shifts, Becomes
<1>2. \A s : Steps(s) => Stay
  BY <1>1 DEF Steps
<1>3. \A t, torn : Disturbs(t, torn) => Stay
  BY DEF Disturbs
<1>4. UNCHANGED <<tmux, also>> => Same
  OBVIOUS
<1>5. Relist \/ Start => Stay
  BY DEF Relist, Start
<1> HIDE DEF Stay
<1>6. DockOpen \/ DockClose \/ EndScrub \/ CloseTimer => Stay
  BY <1>2 DEF DockOpen, DockClose, EndScrub, CloseTimer
<1>7. ReleaseTimer => Stay \/ Same
  BY <1>2, <1>4 DEF ReleaseTimer, vars
<1>8. ASSUME NEW w \in Window, ToggleOnTarget(w) \/ MoveTo(w) \/ Preview(w) \/ GotoPane(w)
      PROVE  Stay
  BY <1>1, <1>2, <1>8 DEF ToggleOnTarget, MoveTo, Preview, GotoPane
<1>9. ASSUME NEW w \in Window, KillSession(w) \/ KillPane(w) PROVE Stay
  BY <1>1, <1>9, KillSessionIs, KillPaneIs
<1>10. ASSUME NEW w \in Window, Walks(w) PROVE Same
  <2>1. tmux' = [tmux EXCEPT !.cur = w] /\ tmux \in Tmux /\ also' = also
    BY <1>10 DEF Walks, IInv, TypeOK
  <2> QED
    BY <2>1 DEF Tmux
<1>11. /\ \A w \in Window : ClosesPanes(w) \/ ClosesWindow(w) => Stay
       /\ \A p \in Pane : ClosesPane(p) => Stay
       /\ Detaches \/ Reattach \/ Crash => Stay
  BY <1>3 DEF ClosesPanes, ClosesWindow, ClosesPane, Detaches, Reattach, Crash
<1>12. GivesInput \/ UNCHANGED vars => Same
  BY <1>4 DEF GivesInput, vars
<1> HIDE DEF Same
<1>13. Stay \/ Same \/ \E c \in Other : AnotherGoes(c)
  BY <1>5, <1>6, <1>7, <1>8, <1>9, <1>10, <1>11, <1>12 DEF Next
<1> QED
  BY <1>13 DEF Stay, Same

\* The other clients too are in sessions that are there, whoever acts.
LEMMA HousedStep ==
  ASSUME IInv, Housed, [Next]_vars
  PROVE  \A c \in Other : also'[c] # None => \E x \in Window : Live(tmux', x) /\ SessOf[x] = also'[c]
<1>1. ASSUME NEW where, also' = Staying(where, tmux')
      PROVE  \A c \in Other : also'[c] # None =>
               \E x \in Window : Live(tmux', x) /\ SessOf[x] = also'[c]
  BY <1>1, StayingIs
<1>2. CASE tmux'.at = tmux.at /\ tmux'.real = tmux.real
  <2>1. \A x \in Window : Live(tmux', x) <=> Live(tmux, x)
    BY <1>2 DEF Live, In
  <2>2. CASE also' = also
    BY <2>1, <2>2 DEF Housed
  <2>3. ASSUME NEW c \in Other, AnotherGoes(c), NEW e \in Other, also'[e] # None
        PROVE  \E x \in Window : Live(tmux', x) /\ SessOf[x] = also'[e]
    <3>1. also \in [Other -> Session \cup {None}]
      BY DEF IInv, TypeOK
    <3>2. PICK s \in {SessOf[w] : w \in {x \in Window : Live(tmux, x)}} \cup {None} :
            also' = [also EXCEPT ![c] = s]
      BY <2>3 DEF AnotherGoes
    <3>3. also'[e] = IF e = c THEN s ELSE also[e]
      BY <3>1, <3>2
    <3> QED
      BY <2>1, <2>3, <3>2, <3>3 DEF Housed
  <2> QED
    BY <1>1, <2>2, <2>3, StepStays
<1>3. ASSUME NEW c \in Other, AnotherGoes(c) PROVE tmux'.at = tmux.at /\ tmux'.real = tmux.real
  BY <1>3 DEF AnotherGoes
<1> QED
  BY <1>1, <1>2, <1>3, StepStays

\* A kill by the sidebar never leaves its client without a terminal while a window stays
\* anywhere: it is moved to a refuge first, with the sidebar or on its own, whichever
\* line of that move fails; and as long as the sidebar itself need not move, or lets the
\* window go, every other client of the doomed session is taken to the refuge as well
\* (router.go:488, killTarget).
THEOREM KillCarries == Spec => KillCarriesClient
<1> DEFINE A == tmux'.real # tmux.real /\ user' = user /\ ~Deserted' =>
                  /\ tmux.cur # None => tmux'.cur # None
                  /\ (dock # None /\ dock' # None => dock'.win = dock.win) =>
                       \A c \in Other : also[c] # None => also'[c] # None
           SInv == IInv /\ Seated(tmux) /\ Housed
<1>1. Init => SInv
  <2>1. Init => IInv
    BY InitInv
  <2>2. ASSUME Init PROVE Seated(tmux) /\ Housed
    <3>1. PICK w \in Window :
            tmux = [at |-> [p \in Pane |-> None], real |-> Window,
                    shape |-> [x \in Window |-> "own"], cur |-> w]
      BY <2>2 DEF Init
    <3>2. tmux.cur \in tmux.real
      BY <3>1
    <3>3. \A c \in Other : also[c] = None
      BY <2>2 DEF Init
    <3> QED
      BY <3>2, <3>3 DEF Seated, Live, Housed
  <2> QED
    BY <2>1, <2>2
<1>2. SInv /\ [Next]_vars => SInv'
  <2>1. ASSUME SInv, [Next]_vars PROVE Seated(tmux') /\ IInv'
    BY <2>1, StepSeated, StepInv
  <2>2. Seated(tmux)' <=> Seated(tmux')
    BY DEF Seated, Live, In
  <2>3. ASSUME SInv, [Next]_vars PROVE Housed'
    BY <2>3, HousedStep DEF Housed, Live, In
  <2> QED
    BY <2>1, <2>2, <2>3
<1>3. SInv /\ [Next]_vars => [A]_vars
  <2>1. ASSUME SInv, [Next]_vars, ~Deserted', tmux'.real # tmux.real, user' = user
        PROVE  A
    <3>1. Kept(tmux') => tmux'.cur # None
      BY <2>1 DEF Kept, Deserted, Live, In
    <3> QED
      BY <2>1, <3>1, StepSeated
  <2> QED
    BY <2>1
<1> HIDE DEF SInv, A
<1>4. Spec => [][A]_vars
  BY <1>1, <1>2, <1>3, PTL DEF Spec
<1> QED
  BY <1>4 DEF KillCarriesClient, A
=============================================================================
