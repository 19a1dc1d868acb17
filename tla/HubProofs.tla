----------------------------- MODULE HubProofs -----------------------------
(***************************************************************************)
(* Proofs about the hub, for every set of subscribers, every world, every  *)
(* capacity of the queues and the sockets, and every number of worlds      *)
(* published and selections pushed.                                        *)
(*                                                                         *)
(* The inductive invariant speaks of every reading a client has ahead of   *)
(* it, not only of the last: each of them is a world that was published,   *)
(* whole, and none is older than the one before.  A diff on its way is     *)
(* only right for the world that precedes it there, so that neither        *)
(* StreamsAgree nor what a client shows next is inductive by itself.       *)
(***************************************************************************)
EXTENDS Hub, SequenceTheorems, WellFoundedInduction, TLAPS

Replica == [world : Worlds, n : 0..MaxLog, sel : Target \cup {None}]

\* What r shows, if anything, is a world of l.
Truthful(r, l) == r.n \in 0..Len(l) /\ (r.n # 0 => r.world = l[r.n])

\* From r to t a client goes on to a later world or stays where it is.
Onward(r, t) == r.n < t.n \/ (t.n = r.n /\ t.world = r.world)

\* What a client that shows b will show once it has read all of q.
End(b, q) == Reading(b, q)[Len(q)]

\* So is everything a client that shows b will show while it reads q.
InOrder(b, q, l) ==
  /\ \A i \in 0..Len(q) : Reading(b, q)[i] \in Replica /\ Truthful(Reading(b, q)[i], l)
  /\ \A i \in 1..Len(q) : Onward(Reading(b, q)[i - 1], Reading(b, q)[i])

\* A connection that is not there yet, and whose role and hello count.
Roles ==
  /\ \A s \in Sub :
       /\ conn[s] = "none" =>
            /\ s \notin subs \cup role /\ hello[s] = "unsent" /\ wire[s] = <<>> /\ chan[s] = <<>>
            /\ replica[s].n = 0 /\ replica[s].sel = None
       /\ conn[s] = "shut" => s \notin subs
       /\ hello[s] \in {"heard", "queued", "done"} => s \in role
  /\ \A i \in 1..Len(cmds) : cmds[i] \in role \cup {None}

\* Nothing on its way is out of order, and to a subscriber nothing is missing.
SoundAt(s) ==
  conn[s] \in {"open", "shut"} =>
    /\ InOrder(replica[s], OnWay(s), log)
    /\ s \in subs => Eventual(s).n = Len(log)

Sound == \A s \in Sub : SoundAt(s)

\* Before the first selection nobody shows one, after the hello everyone does.
ChosenAt(s) ==
  conn[s] = "open" /\ s \in subs =>
    /\ sel = None => Eventual(s).sel = None
    /\ hello[s] = "done" /\ pushing = None => Eventual(s).sel = sel

Chosen == \A s \in Sub : ChosenAt(s)

IInv == TypeOK /\ Roles /\ Sound /\ Chosen

-----------------------------------------------------------------------------
(* Induction on the naturals, over a set in the place of a predicate.        *)

\* A set of numbers that is not empty has a least one.
LEMMA Least == ASSUME NEW T, T \subseteq Nat, T # {} PROVE \E x \in T : \A y \in T : x <= y
<1> DEFINE R == {p \in Nat \X Nat : p[1] < p[2]}
<1>1. IsWellFoundedOn(R, Nat)
  BY NatLessThanWellFounded DEF OpToRel
<1> HIDE DEF R
<1>2. PICK x \in T : \A y \in T : <<y, x>> \notin R
  BY <1>1, WFMin
<1>3. \A y \in T : ~(y < x)
  BY <1>2 DEF R
<1>4. ASSUME NEW y \in T PROVE x <= y
  <2>1. x \in Nat /\ y \in Nat
    OBVIOUS
  <2> QED
    BY <1>3, <2>1
<1> QED
  BY <1>4

\* A set with 0 in it that goes on from each number below n holds all of them.
LEMMA UpTo ==
  ASSUME NEW n \in Nat, NEW P, 0 \in P, \A i \in 0..n : i < n /\ i \in P => i + 1 \in P
  PROVE  \A i \in 0..n : i \in P
<1> DEFINE T == {i \in 0..n : i \notin P}
<1> SUFFICES ASSUME T # {} PROVE FALSE
  OBVIOUS
<1>1. PICK x \in T : \A y \in T : x <= y
  BY Least, T \subseteq Nat
<1>2. x \in 0..n /\ x # 0 /\ x \notin P
  OBVIOUS
<1>3. x - 1 \in 0..n /\ x - 1 < n /\ (x - 1) + 1 = x /\ ~(x <= x - 1)
  BY <1>2
<1>4. x - 1 \in P
  BY <1>1, <1>3
<1> QED
  BY <1>2, <1>3, <1>4

-----------------------------------------------------------------------------
(* What a client shows while it reads.                                       *)

\* The equation that defines Reading has a solution, whatever is read.
LEMMA ReadingDef ==
  ASSUME NEW b, NEW q, Len(q) \in Nat
  PROVE  Reading(b, q) = [i \in 0..Len(q) |-> IF i = 0 THEN b ELSE Apply(Reading(b, q)[i - 1], q[i])]
<1> DEFINE Solves(r, n) == r = [i \in 0..n |-> IF i = 0 THEN b ELSE Apply(r[i - 1], q[i])]
           P            == {n \in 0..Len(q) : \E r : Solves(r, n)}
<1>1. 0 \in P
  <2>1. Solves([i \in 0..0 |-> b], 0)
    OBVIOUS
  <2> HIDE DEF Solves
  <2>2. \E r : Solves(r, 0)
    BY <2>1
  <2> QED
    BY <2>2
<1>2. ASSUME NEW n \in 0..Len(q), n < Len(q), n \in P PROVE n + 1 \in P
  <2>1. PICK r : Solves(r, n)
    BY <1>2
  <2> DEFINE t == [i \in 0..(n + 1) |-> IF i = 0 THEN b ELSE Apply(r[i - 1], q[i])]
  <2>2. ASSUME NEW i \in 0..(n + 1), i # 0 PROVE t[i - 1] = r[i - 1]
    <3>1. i - 1 \in 0..n /\ i - 1 \in 0..(n + 1)
      BY <2>2
    <3>2. r[i - 1] = IF i - 1 = 0 THEN b ELSE Apply(r[(i - 1) - 1], q[i - 1])
      BY <2>1, <3>1
    <3> QED
      BY <3>1, <3>2
  <2>3. Solves(t, n + 1)
    BY <2>2
  <2> HIDE DEF Solves, t
  <2>4. \E u : Solves(u, n + 1)
    BY <2>3
  <2> QED
    BY <1>2, <2>4
<1>3. Len(q) \in P
  <2> HIDE DEF P
  <2>1. \A i \in 0..Len(q) : i \in P
    BY <1>1, <1>2, UpTo
  <2> QED
    BY <2>1
<1>4. \E r : Solves(r, Len(q))
  BY <1>3
<1> QED
  BY <1>4 DEF Reading

\* It starts from what it shows, and applies one message after the other.
LEMMA ReadingStep ==
  ASSUME NEW b, NEW q, Len(q) \in Nat
  PROVE  /\ Reading(b, q)[0] = b
         /\ \A i \in 1..Len(q) : Reading(b, q)[i] = Apply(Reading(b, q)[i - 1], q[i])
<1> DEFINE r == Reading(b, q)
<1>1. r = [i \in 0..Len(q) |-> IF i = 0 THEN b ELSE Apply(r[i - 1], q[i])]
  BY ReadingDef
<1> HIDE DEF r
<1>2. r[0] = b /\ \A i \in 1..Len(q) : r[i] = Apply(r[i - 1], q[i])
  BY <1>1
<1> QED
  BY <1>2 DEF r

\* A message more changes nothing of what is read before it.
LEMMA ReadingAppend ==
  ASSUME NEW S, NEW b, NEW q \in Seq(S), NEW m \in S
  PROVE  /\ \A i \in 0..Len(q) : Reading(b, Append(q, m))[i] = Reading(b, q)[i]
         /\ Reading(b, Append(q, m))[Len(q) + 1] = Apply(Reading(b, q)[Len(q)], m)
<1> DEFINE r == Reading(b, q)
           t == Reading(b, Append(q, m))
           P == {i \in 0..Len(q) : t[i] = r[i]}
<1>1. /\ Len(q) \in Nat /\ Len(Append(q, m)) = Len(q) + 1
      /\ \A i \in 1..Len(q) : Append(q, m)[i] = q[i]
      /\ Append(q, m)[Len(q) + 1] = m
  BY LenProperties, AppendProperties
<1>2. r[0] = b /\ \A i \in 1..Len(q) : r[i] = Apply(r[i - 1], q[i])
  BY <1>1, ReadingStep
<1>3. t[0] = b /\ \A i \in 1..(Len(q) + 1) : t[i] = Apply(t[i - 1], Append(q, m)[i])
  <2> DEFINE p == Append(q, m)
  <2>1. Len(p) \in Nat
    BY <1>1
  <2> HIDE DEF p
  <2>2. Reading(b, p)[0] = b /\ \A i \in 1..Len(p) : Reading(b, p)[i] = Apply(Reading(b, p)[i - 1], p[i])
    BY <2>1, ReadingStep
  <2> QED
    BY <1>1, <2>2 DEF p
<1> HIDE DEF r, t
<1>4. ASSUME NEW i \in 0..Len(q), i < Len(q), i \in P PROVE i + 1 \in P
  <2>1. i + 1 \in 1..Len(q) /\ i + 1 \in 1..(Len(q) + 1) /\ (i + 1) - 1 = i
    BY <1>1, <1>4
  <2>2. r[i + 1] = Apply(r[i], q[i + 1]) /\ t[i + 1] = Apply(t[i], q[i + 1])
    BY <1>1, <1>2, <1>3, <2>1
  <2> QED
    BY <1>4, <2>1, <2>2
<1>5. \A i \in 0..Len(q) : i \in P
  <2>1. 0 \in P
    BY <1>1, <1>2, <1>3
  <2> HIDE DEF P
  <2> QED
    BY <1>1, <1>4, <2>1, UpTo
<1>6. t[Len(q) + 1] = Apply(r[Len(q)], m)
  <2>1. Len(q) + 1 \in 1..(Len(q) + 1) /\ (Len(q) + 1) - 1 = Len(q) /\ Len(q) \in 0..Len(q)
    BY <1>1
  <2> QED
    BY <1>1, <1>3, <1>5, <2>1
<1> QED
  BY <1>5, <1>6 DEF r, t

\* Once the first message is read, what was ahead is one message nearer.
LEMMA ReadingTail ==
  ASSUME NEW S, NEW b, NEW q \in Seq(S), q # <<>>
  PROVE  /\ Len(Tail(q)) = Len(q) - 1
         /\ \A i \in 0..Len(Tail(q)) : Reading(Apply(b, Head(q)), Tail(q))[i] = Reading(b, q)[i + 1]
<1> DEFINE r == Reading(b, q)
           t == Reading(Apply(b, Head(q)), Tail(q))
           P == {i \in 0..Len(Tail(q)) : t[i] = r[i + 1]}
<1>1. /\ Len(q) \in Nat \ {0} /\ Len(Tail(q)) = Len(q) - 1 /\ Len(Tail(q)) \in Nat
      /\ Head(q) = q[1]
      /\ \A i \in 1..Len(Tail(q)) : Tail(q)[i] = q[i + 1]
  BY EmptySeq, HeadTailProperties
<1>2. r[0] = b /\ \A i \in 1..Len(q) : r[i] = Apply(r[i - 1], q[i])
  BY <1>1, ReadingStep
<1>3. t[0] = Apply(b, Head(q)) /\ \A i \in 1..Len(Tail(q)) : t[i] = Apply(t[i - 1], Tail(q)[i])
  <2> DEFINE a == Apply(b, Head(q))
             p == Tail(q)
  <2>1. Len(p) \in Nat
    BY <1>1
  <2> HIDE DEF a, p
  <2>2. Reading(a, p)[0] = a /\ \A i \in 1..Len(p) : Reading(a, p)[i] = Apply(Reading(a, p)[i - 1], p[i])
    BY <2>1, ReadingStep
  <2> QED
    BY <2>2 DEF a, p
<1> HIDE DEF r, t
<1>4. ASSUME NEW i \in 0..Len(Tail(q)), i < Len(Tail(q)), i \in P PROVE i + 1 \in P
  <2>1. /\ i + 1 \in 1..Len(Tail(q)) /\ i + 2 \in 1..Len(q)
        /\ (i + 1) - 1 = i /\ (i + 2) - 1 = i + 1 /\ (i + 1) + 1 = i + 2
    BY <1>1, <1>4
  <2>2. t[i + 1] = Apply(t[i], q[i + 2])
    BY <1>1, <1>3, <2>1
  <2>3. r[i + 2] = Apply(r[i + 1], q[i + 2])
    BY <1>2, <2>1
  <2> QED
    BY <1>4, <2>1, <2>2, <2>3
<1>5. 0 \in P
  <2>1. 1 \in 1..Len(q) /\ 1 - 1 = 0 /\ 0 \in 0..Len(Tail(q)) /\ 0 + 1 = 1
    BY <1>1
  <2> QED
    BY <1>1, <1>2, <1>3, <2>1
<1>6. \A i \in 0..Len(Tail(q)) : i \in P
  <2> HIDE DEF P
  <2> QED
    BY <1>1, <1>4, <1>5, UpTo
<1> QED
  BY <1>1, <1>6 DEF r, t

-----------------------------------------------------------------------------
(* The messages.                                                             *)

\* Each message is one, and each does to a client what it is sent for.
LEMMA Snapshots ==
  ASSUME NEW r \in Replica, NEW w \in Worlds, NEW x \in Target \cup {None}, NEW n \in 1..MaxLog
  PROVE  /\ Snapshot(w, x, n) \in Message /\ Apply(r, Snapshot(w, x, n)) \in Replica
         /\ Apply(r, Snapshot(w, x, n)).world = w /\ Apply(r, Snapshot(w, x, n)).n = n
         /\ Apply(r, Snapshot(w, x, n)).sel = IF r.sel = None THEN x ELSE r.sel
<1>1. Snapshot(w, x, n) \in Message
  BY DEF Message, Snapshot
<1>2. n \in 0..MaxLog
  BY HubAssumption
<1> QED
  BY <1>1, <1>2 DEF Snapshot, Apply, Replica

\* A diff makes the second world of the first.
LEMMA Diffs ==
  ASSUME NEW r \in Replica, NEW w \in Worlds, NEW n \in 1..MaxLog
  PROVE  /\ Diff(Ops(r.world, w), n) \in Message /\ Apply(r, Diff(Ops(r.world, w), n)) \in Replica
         /\ Apply(r, Diff(Ops(r.world, w), n)).world = w /\ Apply(r, Diff(Ops(r.world, w), n)).n = n
         /\ Apply(r, Diff(Ops(r.world, w), n)).sel = r.sel
<1> DEFINE E   == {x \in Entity : r.world[x] # w[x]}
           ops == Ops(r.world, w)
           m   == Diff(ops, n)
<1>1. r.world \in [Entity -> Value \cup {None}] /\ w \in [Entity -> Value \cup {None}]
  BY DEF Replica, Worlds
<1>2. ops = [e \in E |-> w[e]]
  BY DEF Ops
<1>3. ops \in [E -> Value \cup {None}] /\ E \in SUBSET Entity
  BY <1>1, <1>2
<1>4. m \in Message
  <2>1. ops \in UNION {[D -> Value \cup {None}] : D \in SUBSET Entity}
    BY <1>3
  <2> HIDE DEF ops
  <2> QED
    BY <2>1 DEF Diff, Message
<1>5. [e \in Entity |-> IF e \in DOMAIN ops THEN ops[e] ELSE r.world[e]] = w
  BY <1>1, <1>2
<1>6. n \in 0..MaxLog
  BY HubAssumption
<1> HIDE DEF ops
<1>7. Apply(r, m) = [r EXCEPT !.n = n, !.world = w]
  BY <1>5 DEF Diff, Apply
<1> QED
  BY <1>4, <1>6, <1>7 DEF Replica, ops

\* A selection and a reply leave the world alone.
LEMMA Selects ==
  ASSUME NEW r \in Replica, NEW x \in Target
  PROVE  /\ Select(x) \in Message /\ Apply(r, Select(x)) \in Replica
         /\ Apply(r, Select(x)).world = r.world /\ Apply(r, Select(x)).n = r.n
         /\ Apply(r, Select(x)).sel = x
<1>1. Select(x) \in Message
  BY DEF Message, Select
<1> QED
  BY <1>1 DEF Select, Apply, Replica

\* A reply changes nothing of what a client shows.
LEMMA Replies == ASSUME NEW r PROVE Reply \in Message /\ Apply(r, Reply) = r
  BY DEF Message, Reply, Apply

-----------------------------------------------------------------------------
(* What is on its way.                                                       *)

\* What is queued is on its way after what is in the socket.
LEMMA QueueLast ==
  ASSUME NEW S, NEW u \in Seq(S), NEW v \in Seq(S), NEW m \in S
  PROVE  u \o Append(v, m) = Append(u \o v, m)
<1>1. Append(v, m) \in Seq(S) /\ u \o v \in Seq(S)
  BY AppendProperties, ConcatProperties
<1>2. Append(v, m) = v \o <<m>> /\ Append(u \o v, m) = (u \o v) \o <<m>>
  BY <1>1, AppendIsConcat
<1>3. <<m>> \in Seq(S)
  OBVIOUS
<1> QED
  BY <1>2, <1>3, ConcatAssociative

\* The writer moves a message from the one to the other.
LEMMA WriteNext ==
  ASSUME NEW S, NEW u \in Seq(S), NEW v \in Seq(S), v # <<>>
  PROVE  Append(u, Head(v)) \o Tail(v) = u \o v
<1> DEFINE a == Append(u, Head(v))
           t == Tail(v)
<1>1. /\ Head(v) \in S /\ t \in Seq(S) /\ Len(t) = Len(v) - 1
      /\ \A i \in 1..Len(t) : t[i] = v[i + 1]
      /\ Head(v) = v[1] /\ Len(v) \in Nat \ {0} /\ Len(u) \in Nat
  BY HeadTailProperties, EmptySeq, LenProperties
<1>2. /\ a \in Seq(S) /\ Len(a) = Len(u) + 1
      /\ \A i \in 1..Len(u) : a[i] = u[i]
      /\ a[Len(u) + 1] = v[1]
  BY <1>1, AppendProperties
<1> HIDE DEF a, t
<1>3. /\ a \o t \in Seq(S) /\ Len(a \o t) = Len(u) + Len(v)
      /\ \A i \in 1..(Len(u) + Len(v)) : (a \o t)[i] = IF i <= Len(a) THEN a[i] ELSE t[i - Len(a)]
  <2>1. Len(a) + Len(t) = Len(u) + Len(v)
    BY <1>1, <1>2
  <2>2. /\ a \o t \in Seq(S) /\ Len(a \o t) = Len(a) + Len(t)
        /\ \A i \in 1..(Len(a) + Len(t)) : (a \o t)[i] = IF i <= Len(a) THEN a[i] ELSE t[i - Len(a)]
    BY <1>1, <1>2, ConcatProperties
  <2> QED
    BY <2>1, <2>2
<1>4. /\ u \o v \in Seq(S) /\ Len(u \o v) = Len(u) + Len(v)
      /\ \A i \in 1..(Len(u) + Len(v)) : (u \o v)[i] = IF i <= Len(u) THEN u[i] ELSE v[i - Len(u)]
  BY ConcatProperties
<1>5. ASSUME NEW i \in 1..(Len(u) + Len(v)) PROVE (a \o t)[i] = (u \o v)[i]
  <2> DEFINE o == a \o t
             p == u \o v
  <2>0. /\ o[i] = IF i <= Len(a) THEN a[i] ELSE t[i - Len(a)]
        /\ p[i] = IF i <= Len(u) THEN u[i] ELSE v[i - Len(u)]
    BY <1>3, <1>4
  <2> SUFFICES o[i] = p[i]
    OBVIOUS
  <2> HIDE DEF o, p
  <2>1. CASE i <= Len(u)
    BY <1>1, <1>2, <2>0, <2>1
  <2>2. CASE i = Len(u) + 1
    BY <1>1, <1>2, <2>0, <2>2
  <2>3. CASE i > Len(u) + 1
    <3>1. Len(u) \in Nat /\ Len(v) \in Nat /\ Len(a) = Len(u) + 1 /\ Len(t) = Len(v) - 1
      BY <1>1, <1>2
    <3>2. i - Len(a) \in 1..Len(t) /\ (i - Len(a)) + 1 = i - Len(u)
      BY <2>3, <3>1
    <3>3. t[i - Len(a)] = v[i - Len(u)]
      BY <1>1, <3>2
    <3> QED
      BY <2>0, <2>3, <3>1, <3>3
  <2>4. Len(u) \in Nat /\ Len(v) \in Nat /\ i \in Nat
    BY <1>1
  <2> QED
    BY <2>1, <2>2, <2>3, <2>4
<1>6. a \o t = u \o v
  BY <1>3, <1>4, <1>5, SeqEqual
<1> QED
  BY <1>6 DEF a, t

\* The client reads from the socket.
LEMMA ReadNext ==
  ASSUME NEW S, NEW u \in Seq(S), NEW v \in Seq(S), u # <<>>
  PROVE  u \o v # <<>> /\ Head(u \o v) = Head(u) /\ Tail(u \o v) = Tail(u) \o v
<1> DEFINE q == u \o v
           t == Tail(u)
<1>1. /\ t \in Seq(S) /\ Len(t) = Len(u) - 1 /\ \A i \in 1..Len(t) : t[i] = u[i + 1]
      /\ Head(u) = u[1] /\ Len(u) \in Nat \ {0} /\ Len(v) \in Nat
  BY HeadTailProperties, EmptySeq, LenProperties
<1>2. /\ q \in Seq(S) /\ Len(q) = Len(u) + Len(v)
      /\ \A i \in 1..(Len(u) + Len(v)) : q[i] = IF i <= Len(u) THEN u[i] ELSE v[i - Len(u)]
  BY ConcatProperties
<1> HIDE DEF t, q
<1>3. /\ t \o v \in Seq(S) /\ Len(t \o v) = Len(t) + Len(v)
      /\ \A i \in 1..(Len(t) + Len(v)) : (t \o v)[i] = IF i <= Len(t) THEN t[i] ELSE v[i - Len(t)]
  BY <1>1, ConcatProperties
<1>4. q # <<>> /\ Head(q) = Head(u)
  BY <1>1, <1>2, EmptySeq
<1>5. /\ Tail(q) \in Seq(S) /\ Len(Tail(q)) = Len(q) - 1
      /\ \A i \in 1..Len(Tail(q)) : Tail(q)[i] = q[i + 1]
  BY <1>2, <1>4, HeadTailProperties
<1>6. ASSUME NEW i \in 1..Len(Tail(q)) PROVE Tail(q)[i] = (t \o v)[i]
  <2>1. i + 1 \in 1..(Len(u) + Len(v)) /\ i \in 1..(Len(t) + Len(v)) /\ (i + 1) - Len(u) = i - Len(t)
    BY <1>1, <1>2, <1>5
  <2> QED
    BY <1>1, <1>2, <1>3, <1>5, <2>1
<1>7. Tail(q) = t \o v
  <2> DEFINE p == Tail(q)
             o == t \o v
  <2>1. p \in Seq(S) /\ o \in Seq(S) /\ \A i \in 1..Len(p) : p[i] = o[i]
    BY <1>3, <1>5, <1>6
  <2>2. Len(p) = Len(o)
    BY <1>1, <1>2, <1>3, <1>5
  <2> HIDE DEF p, o
  <2>3. p = o
    BY <2>1, <2>2, SeqEqual
  <2> QED
    BY <2>3 DEF p, o
<1> QED
  BY <1>4, <1>7 DEF q, t

\* Where its reading ends a client shows a world that was published, or none yet.
LEMMA EndShows ==
  ASSUME NEW b, NEW q \in Seq(Message), NEW l, InOrder(b, q, l)
  PROVE  End(b, q) \in Replica /\ Truthful(End(b, q), l)
<1>1. Len(q) \in 0..Len(q)
  BY LenProperties
<1> QED
  BY <1>1 DEF InOrder, End

\* A message that leads on from the end keeps what is on its way in order.
LEMMA Extend ==
  ASSUME NEW b, NEW q \in Seq(Message), NEW m \in Message, NEW l, InOrder(b, q, l),
         Apply(End(b, q), m) \in Replica, Truthful(Apply(End(b, q), m), l),
         Onward(End(b, q), Apply(End(b, q), m))
  PROVE  InOrder(b, Append(q, m), l) /\ End(b, Append(q, m)) = Apply(End(b, q), m)
<1> DEFINE r == Reading(b, q)
           t == Reading(b, Append(q, m))
           n == Len(q)
<1>1. n \in Nat /\ Len(Append(q, m)) = n + 1
  BY LenProperties, AppendProperties
<1>2. (\A i \in 0..n : t[i] = r[i]) /\ t[n + 1] = Apply(r[n], m)
  BY ReadingAppend
<1>3. r[n] = End(b, q)
  BY DEF End
<1>4. /\ \A i \in 0..n : r[i] \in Replica /\ Truthful(r[i], l)
      /\ \A i \in 1..n : Onward(r[i - 1], r[i])
  BY DEF InOrder
<1> HIDE DEF r, t, n
<1>5. ASSUME NEW i \in 0..(n + 1) PROVE t[i] \in Replica /\ Truthful(t[i], l)
  <2>1. CASE i \in 0..n
    BY <1>2, <1>4, <2>1
  <2>2. CASE i = n + 1
    BY <1>2, <1>3, <2>2
  <2> QED
    BY <1>1, <2>1, <2>2
<1>6. ASSUME NEW i \in 1..(n + 1) PROVE Onward(t[i - 1], t[i])
  <2>1. CASE i \in 1..n
    <3>1. i \in 0..n /\ i - 1 \in 0..n
      BY <1>1, <2>1
    <3> QED
      BY <1>2, <1>4, <2>1, <3>1
  <2>2. CASE i = n + 1
    <3>1. i - 1 = n /\ n \in 0..n
      BY <1>1, <2>2
    <3> QED
      BY <1>2, <1>3, <2>2, <3>1
  <2> QED
    BY <1>1, <2>1, <2>2
<1>7. t[n + 1] = Apply(End(b, q), m)
  BY <1>2, <1>3
<1> QED
  BY <1>1, <1>5, <1>6, <1>7 DEF InOrder, End, t

\* So it is when the client has read the first of it, and the end is the same.
LEMMA Shift ==
  ASSUME NEW b, NEW q \in Seq(Message), NEW l, InOrder(b, q, l), q # <<>>
  PROVE  /\ InOrder(Apply(b, Head(q)), Tail(q), l) /\ End(Apply(b, Head(q)), Tail(q)) = End(b, q)
         /\ Onward(b, Apply(b, Head(q)))
         /\ Apply(b, Head(q)) \in Replica /\ Truthful(Apply(b, Head(q)), l)
<1> DEFINE r == Reading(b, q)
           a == Apply(b, Head(q))
           u == Tail(q)
           t == Reading(a, u)
<1>1. Len(q) \in Nat \ {0} /\ Head(q) = q[1] /\ Len(u) = Len(q) - 1 /\ Len(u) \in Nat
  BY EmptySeq, HeadTailProperties
<1>2. \A i \in 0..Len(u) : t[i] = r[i + 1]
  BY ReadingTail
<1>3. r[0] = b /\ r[1] = a
  <2>1. r[0] = b /\ \A i \in 1..Len(q) : r[i] = Apply(r[i - 1], q[i])
    BY <1>1, ReadingStep
  <2>2. 1 \in 1..Len(q) /\ 1 - 1 = 0
    BY <1>1
  <2> QED
    BY <1>1, <2>1, <2>2
<1>4. /\ \A i \in 0..Len(q) : r[i] \in Replica /\ Truthful(r[i], l)
      /\ \A i \in 1..Len(q) : Onward(r[i - 1], r[i])
  BY DEF InOrder
<1> HIDE DEF r, t, a, u
<1>5. ASSUME NEW i \in 0..Len(u) PROVE t[i] \in Replica /\ Truthful(t[i], l)
  <2>1. i + 1 \in 0..Len(q)
    BY <1>1
  <2> QED
    BY <1>2, <1>4, <2>1
<1>6. ASSUME NEW i \in 1..Len(u) PROVE Onward(t[i - 1], t[i])
  <2>1. i + 1 \in 1..Len(q) /\ i \in 0..Len(u) /\ i - 1 \in 0..Len(u) /\ (i - 1) + 1 = i /\ (i + 1) - 1 = i
    BY <1>1
  <2> QED
    BY <1>2, <1>4, <2>1
<1>7. t[Len(u)] = r[Len(q)]
  <2>1. Len(u) \in 0..Len(u) /\ Len(u) + 1 = Len(q)
    BY <1>1
  <2> QED
    BY <1>2, <2>1
<1>8. Onward(b, a) /\ a \in Replica /\ Truthful(a, l)
  <2>1. 1 \in 1..Len(q) /\ 1 \in 0..Len(q) /\ 1 - 1 = 0
    BY <1>1
  <2> QED
    BY <1>3, <1>4, <2>1
<1>9. InOrder(a, u, l) /\ End(a, u) = End(b, q)
  BY <1>5, <1>6, <1>7 DEF InOrder, End, t, r
<1> QED
  BY <1>8, <1>9 DEF a, u

\* A client that shows what was published shows it still when more is.
LEMMA GrowLog ==
  ASSUME NEW b, NEW q \in Seq(Message), NEW l \in Seq(Worlds), NEW w \in Worlds, InOrder(b, q, l)
  PROVE  InOrder(b, q, Append(l, w))
<1> DEFINE k == Append(l, w)
<1>1. /\ k \in Seq(Worlds) /\ Len(k) = Len(l) + 1 /\ Len(l) \in Nat
      /\ \A i \in 1..Len(l) : k[i] = l[i]
  BY AppendProperties, LenProperties
<1> HIDE DEF k
<1>2. ASSUME NEW r, Truthful(r, l) PROVE Truthful(r, k)
  BY <1>1, <1>2 DEF Truthful
<1>3. InOrder(b, q, k)
  BY <1>2 DEF InOrder
<1> QED
  BY <1>3 DEF k

\* The diff to a new world, after the last world before it.
LEMMA ExtendDiff ==
  ASSUME NEW b, NEW q \in Seq(Message), NEW l \in Seq(Worlds), NEW w \in Worlds,
         InOrder(b, q, l), Len(l) \in 1..(MaxLog - 1), End(b, q).n = Len(l)
  PROVE  LET m == Diff(Ops(Last(l), w), Len(l) + 1)
             t == Append(q, m)
         IN  /\ m \in Message /\ InOrder(b, t, Append(l, w))
             /\ End(b, t).n = Len(l) + 1 /\ End(b, t).sel = End(b, q).sel
<1> DEFINE m == Diff(Ops(Last(l), w), Len(l) + 1)
           e == End(b, q)
           a == Apply(e, m)
           k == Append(l, w)
           n == Len(l) + 1
<1>1. /\ k \in Seq(Worlds) /\ Len(k) = n /\ k[n] = w /\ Len(l) \in Nat
      /\ n \in 1..MaxLog /\ n # 0 /\ n \in 0..n /\ Len(l) # 0 /\ Len(l) < n
  BY AppendProperties, LenProperties, HubAssumption
<1>2. e \in Replica /\ Truthful(e, l)
  BY EndShows
<1>3. e.world = Last(l)
  BY <1>1, <1>2 DEF Truthful, Last
<1> HIDE DEF e, k, n
<1>4. m \in Message /\ a \in Replica /\ a.world = w /\ a.n = n /\ a.sel = e.sel
  BY <1>1, <1>2, <1>3, Diffs DEF n
<1>5. e.n = Len(l)
  BY DEF e
<1> HIDE DEF m, a
<1>6. Truthful(a, k)
  BY <1>1, <1>4 DEF Truthful
<1>7. Onward(e, a)
  BY <1>1, <1>4, <1>5 DEF Onward
<1>8. InOrder(b, q, k)
  BY GrowLog DEF k
<1>9. InOrder(b, Append(q, m), k) /\ End(b, Append(q, m)) = a
  BY <1>4, <1>6, <1>7, <1>8, Extend DEF e, a
<1> QED
  BY <1>4, <1>9 DEF m, n, e, k

\* A snapshot of the last world, to a client that has not got so far.
LEMMA ExtendSnapshot ==
  ASSUME NEW b, NEW q \in Seq(Message), NEW l \in Seq(Worlds), NEW x \in Target \cup {None},
         InOrder(b, q, l), Len(l) \in 1..MaxLog, End(b, q).n < Len(l)
  PROVE  LET m == Snapshot(Last(l), x, Len(l))
             t == Append(q, m)
         IN  /\ m \in Message /\ InOrder(b, t, l) /\ End(b, t).n = Len(l)
             /\ End(b, t).sel = IF End(b, q).sel = None THEN x ELSE End(b, q).sel
<1> DEFINE m == Snapshot(Last(l), x, Len(l))
           e == End(b, q)
           a == Apply(e, m)
<1>1. e \in Replica /\ Truthful(e, l)
  BY EndShows
<1>2. Last(l) = l[Len(l)] /\ Last(l) \in Worlds
  BY ElementOfSeq, LenProperties DEF Last
<1> DEFINE w == Last(l)
           n == Len(l)
<1>3. e.n < n /\ n \in 1..MaxLog /\ w \in Worlds /\ w = l[n]
  BY <1>2
<1> HIDE DEF e, w, n
<1>4. /\ m \in Message /\ a \in Replica /\ a.world = w /\ a.n = n
      /\ a.sel = IF e.sel = None THEN x ELSE e.sel
  BY <1>1, <1>3, Snapshots DEF w, n
<1> HIDE DEF m, a
<1>5. Truthful(a, l) /\ Onward(e, a)
  BY <1>3, <1>4 DEF Truthful, Onward, n
<1>6. InOrder(b, Append(q, m), l) /\ End(b, Append(q, m)) = a
  BY <1>4, <1>5, Extend DEF e, a
<1> QED
  BY <1>4, <1>6 DEF m, e, n

\* A selection.
LEMMA ExtendSelect ==
  ASSUME NEW b, NEW q \in Seq(Message), NEW l, NEW x \in Target, InOrder(b, q, l)
  PROVE  LET t == Append(q, Select(x))
         IN  InOrder(b, t, l) /\ End(b, t).n = End(b, q).n /\ End(b, t).sel = x
<1> DEFINE e == End(b, q)
           a == Apply(e, Select(x))
<1>1. e \in Replica /\ Truthful(e, l)
  BY EndShows
<1> HIDE DEF e
<1>2. Select(x) \in Message /\ a \in Replica /\ a.world = e.world /\ a.n = e.n /\ a.sel = x
  BY <1>1, Selects
<1> HIDE DEF a
<1>3. Truthful(a, l) /\ Onward(e, a)
  BY <1>1, <1>2 DEF Truthful, Onward
<1>4. InOrder(b, Append(q, Select(x)), l) /\ End(b, Append(q, Select(x))) = a
  BY <1>2, <1>3, Extend DEF e, a
<1> QED
  BY <1>2, <1>4 DEF e

\* A reply.
LEMMA ExtendReply ==
  ASSUME NEW b, NEW q \in Seq(Message), NEW l, InOrder(b, q, l)
  PROVE  InOrder(b, Append(q, Reply), l) /\ End(b, Append(q, Reply)) = End(b, q)
<1>1. End(b, q) \in Replica /\ Truthful(End(b, q), l)
  BY EndShows
<1>2. Reply \in Message /\ Apply(End(b, q), Reply) = End(b, q)
  BY Replies
<1>3. Onward(End(b, q), End(b, q))
  BY DEF Onward
<1> QED
  BY <1>1, <1>2, <1>3, Extend

-----------------------------------------------------------------------------
(* What the steps of the hub do to the queues.                               *)

\* Who is still a subscriber after a send has the message, nobody else has it.
LEMMA SendEffect ==
  ASSUME TypeOK, NEW S \in SUBSET Sub, NEW m \in Message, Send(S, m)
  PROVE  /\ subs' \subseteq subs /\ chan' \in [Sub -> Seq(Message)]
         /\ \A s \in Sub : Len(chan'[s]) <= ChanCap
         /\ \A s \in Sub : chan'[s] = IF s \in subs' \cap S THEN Append(chan[s], m) ELSE chan[s]
<1>1. /\ chan \in [Sub -> Seq(Message)] /\ \A s \in Sub : Len(chan[s]) \in Nat /\ Len(chan[s]) <= ChanCap
      /\ ChanCap \in Nat
  BY LenProperties, HubAssumption DEF TypeOK
<1>2. \A s \in Sub : Append(chan[s], m) \in Seq(Message) /\ Len(Append(chan[s], m)) = Len(chan[s]) + 1
  BY <1>1, AppendProperties
<1>3. chan' \in [Sub -> Seq(Message)]
  BY <1>1, <1>2 DEF Send
<1>4. ASSUME NEW s \in Sub
      PROVE  chan'[s] = IF s \in subs' \cap S THEN Append(chan[s], m) ELSE chan[s]
  BY DEF Send
<1>5. ASSUME NEW s \in Sub PROVE Len(chan'[s]) <= ChanCap
  <2>1. CASE s \in S \cap subs /\ ~Full(s)
    <3>1. Len(chan[s]) < ChanCap
      BY <1>1, <2>1 DEF Full
    <3>2. chan'[s] = Append(chan[s], m)
      BY <2>1 DEF Send
    <3> QED
      BY <1>1, <1>2, <3>1, <3>2
  <2>2. CASE ~(s \in S \cap subs /\ ~Full(s))
    BY <1>1, <2>2 DEF Send
  <2> QED
    BY <2>1, <2>2
<1>6. subs' \subseteq subs
  BY DEF Send
<1> QED
  BY <1>3, <1>4, <1>5, <1>6

\* The sequence of two elements and its first one.
LEMMA TwoOf ==
  ASSUME NEW S, NEW a \in S, NEW b \in S
  PROVE  Append(<<a>>, b) = <<a, b>> /\ SubSeq(<<a, b>>, 1, 1) = <<a>>
<1> DEFINE u == <<a>>
           v == <<a, b>>
<1>1. /\ u \in Seq(S) /\ Len(u) = 1 /\ u[1] = a
      /\ v \in Seq(S) /\ Len(v) = 2 /\ v[1] = a /\ v[2] = b
  OBVIOUS
<1> HIDE DEF u, v
<1>2. Append(u, b) = v
  <2> DEFINE w == Append(u, b)
  <2>0. u \in Seq(S)
    BY <1>1
  <2>1. w \in Seq(S) /\ Len(w) = Len(u) + 1 /\ (\A i \in 1..Len(u) : w[i] = u[i]) /\ w[Len(u) + 1] = b
    BY <2>0, AppendProperties
  <2> HIDE DEF w
  <2>2. Len(w) = 2 /\ w[1] = a /\ w[2] = b
    BY <1>1, <2>1
  <2>3. w = v
    BY <1>1, <2>1, <2>2, SeqEqual
  <2> QED
    BY <2>3 DEF w
<1>3. SubSeq(v, 1, 1) = u
  <2> DEFINE w == SubSeq(v, 1, 1)
  <2>1. w \in Seq(S) /\ Len(w) = 1 /\ w[1] = a
    BY <1>1, SubSeqProperties
  <2> HIDE DEF w
  <2>2. w = u
    BY <1>1, <2>1, SeqEqual
  <2> QED
    BY <2>2 DEF w
<1> QED
  BY <1>2, <1>3 DEF u, v

\* A hello is answered in full, or its subscriber is one no more.
LEMMA ReplayEffect ==
  ASSUME TypeOK, NEW s \in Sub, Replays(s)
  PROVE  LET bare == Append(chan[s], Reply)
             told == Append(chan[s], Select(sel))
         IN  /\ subs' \subseteq subs /\ subs \subseteq subs' \cup {s}
             /\ chan' \in [Sub -> Seq(Message)] /\ Len(chan'[s]) <= ChanCap
             /\ \A t \in Sub \ {s} : chan'[t] = chan[t]
             /\ s \in subs' => chan'[s] = IF sel = None THEN bare ELSE Append(told, Reply)
             /\ s \notin subs' => chan'[s] = chan[s] \/ (sel # None /\ chan'[s] = told)
<1> DEFINE c    == chan[s]
           room == ChanCap - Len(c)
           bare == Append(c, Reply)
           told == Append(c, Select(sel))
<1>1. /\ c \in Seq(Message) /\ Len(c) \in Nat /\ Len(c) <= ChanCap /\ ChanCap \in Nat
      /\ room \in Nat /\ Len(c) + room = ChanCap
  BY LenProperties, HubAssumption DEF TypeOK
<1>2. Reply \in Message /\ (sel # None => Select(sel) \in Message)
  BY DEF TypeOK, Message, Reply, Select
<1>3. /\ bare \in Seq(Message) /\ Len(bare) = Len(c) + 1
      /\ sel # None => /\ told \in Seq(Message) /\ Len(told) = Len(c) + 1
                       /\ Append(told, Reply) \in Seq(Message) /\ Len(Append(told, Reply)) = Len(c) + 2
  BY <1>1, <1>2, AppendProperties
<1>4. /\ sel = None => Answer = <<Reply>> /\ Len(Answer) = 1
      /\ sel # None => Answer = <<Select(sel), Reply>> /\ Len(Answer) = 2
  BY DEF Answer
<1>5. c \o Answer = IF sel = None THEN bare ELSE Append(told, Reply)
  <2>1. CASE sel = None
    BY <1>1, <1>2, <1>4, <2>1, AppendIsConcat
  <2>2. CASE sel # None
    <3>1. <<Select(sel)>> \in Seq(Message)
      BY <1>2, <2>2
    <3>2. Append(<<Select(sel)>>, Reply) = <<Select(sel), Reply>>
      BY <1>2, <2>2, TwoOf
    <3> HIDE DEF c
    <3>3. c \o Append(<<Select(sel)>>, Reply) = Append(c \o <<Select(sel)>>, Reply)
      BY <1>1, <1>2, <3>1, QueueLast
    <3>4. c \o <<Select(sel)>> = told
      BY <1>1, <1>2, <2>2, AppendIsConcat
    <3> QED
      BY <1>4, <2>2, <3>2, <3>3, <3>4, Zenon
  <2> QED
    BY <2>1, <2>2
<1>6. ASSUME room < Len(Answer)
      PROVE  \/ c \o SubSeq(Answer, 1, room) = c
             \/ sel # None /\ room = 1 /\ c \o SubSeq(Answer, 1, room) = told
  <2>1. CASE room = 0
    <3>1. SubSeq(Answer, 1, room) = <<>>
      BY <2>1, SubSeqEmpty
    <3> QED
      BY <1>1, <3>1, ConcatEmptySeq
  <2>2. CASE room # 0
    <3> HIDE DEF c, room
    <3>0. room \in Nat /\ Len(Answer) = IF sel = None THEN 1 ELSE 2
      BY <1>1, <1>4, Zenon
    <3>1. sel # None /\ room = 1
      BY <1>6, <2>2, <3>0
    <3>2. SubSeq(Answer, 1, room) = <<Select(sel)>>
      BY <1>2, <1>4, <3>1, TwoOf
    <3>3. c \o <<Select(sel)>> = told
      BY <1>1, <1>2, <3>1, AppendIsConcat
    <3> QED
      BY <3>1, <3>2, <3>3
  <2> QED
    BY <2>1, <2>2
<1>7. \/ s \in subs /\ room >= Len(Answer) /\ chan' = [chan EXCEPT ![s] = c \o Answer] /\ subs' = subs
      \/ /\ s \in subs /\ room < Len(Answer) /\ subs' = subs \ {s}
         /\ chan' = [chan EXCEPT ![s] = c \o SubSeq(Answer, 1, room)]
      \/ s \notin subs /\ chan' = chan /\ subs' = subs
  BY DEF Replays
<1> HIDE DEF c, room, bare, told
<1>8. chan \in [Sub -> Seq(Message)] /\ c = chan[s]
  BY DEF TypeOK, c
<1>9. CASE s \in subs /\ room >= Len(Answer) /\ chan' = [chan EXCEPT ![s] = c \o Answer] /\ subs' = subs
  <2>1. c \o Answer \in Seq(Message) /\ Len(c \o Answer) <= ChanCap
    <3> DEFINE o == c \o Answer
               n == Len(Answer)
    <3>1. n = IF sel = None THEN 1 ELSE 2
      BY <1>4, Zenon
    <3>2. o = IF sel = None THEN bare ELSE Append(told, Reply)
      BY <1>5
    <3>3. n <= room
      BY <1>1, <1>9, <3>1
    <3> HIDE DEF o, n
    <3>4. o \in Seq(Message) /\ Len(o) = Len(c) + n
      BY <1>3, <3>1, <3>2
    <3>5. Len(o) <= ChanCap
      BY <1>1, <3>1, <3>3, <3>4
    <3> QED
      BY <3>4, <3>5 DEF o
  <2>2. chan'[s] = c \o Answer /\ chan' \in [Sub -> Seq(Message)] /\ \A t \in Sub \ {s} : chan'[t] = chan[t]
    BY <1>8, <1>9, <2>1
  <2> QED
    BY <1>5, <1>9, <2>1, <2>2 DEF bare, told, c
<1>10. CASE /\ s \in subs /\ room < Len(Answer) /\ subs' = subs \ {s}
            /\ chan' = [chan EXCEPT ![s] = c \o SubSeq(Answer, 1, room)]
  <2> DEFINE d == c \o SubSeq(Answer, 1, room)
  <2>1. d = c \/ (sel # None /\ room = 1 /\ d = told)
    BY <1>6, <1>10
  <2> HIDE DEF d
  <2>2. d \in Seq(Message) /\ Len(d) <= ChanCap
    BY <1>1, <1>3, <2>1
  <2>3. chan' = [chan EXCEPT ![s] = d]
    BY <1>10 DEF d
  <2>4. chan'[s] = d /\ chan' \in [Sub -> Seq(Message)] /\ \A t \in Sub \ {s} : chan'[t] = chan[t]
    BY <1>8, <2>2, <2>3
  <2> QED
    BY <1>10, <2>1, <2>2, <2>4 DEF told, c
<1>11. CASE s \notin subs /\ chan' = chan /\ subs' = subs
  BY <1>1, <1>8, <1>11 DEF c
<1> QED
  BY <1>7, <1>9, <1>10, <1>11

-----------------------------------------------------------------------------
(* The type invariant.                                                       *)

\* The newest world in the log is a world.
LEMMA LogType ==
  ASSUME TypeOK
  PROVE  /\ Last(log) \in Worlds /\ Last(log) = log[Len(log)]
         /\ Len(log) \in Nat \ {0} /\ log \in Seq(Worlds)
  BY ElementOfSeq, LenProperties DEF TypeOK, Last

\* What a world more is announced with is a message.
LEMMA NewsType ==
  ASSUME TypeOK, NEW w \in Worlds, Len(log) < MaxLog
  PROVE  /\ Diff(Ops(World, w), Len(log) + 1) \in Message
         /\ Snapshot(w, None, Len(log) + 1) \in Message
         /\ Len(log) + 1 \in 1..MaxLog
<1>1. Len(log) + 1 \in 1..MaxLog
  BY LogType, HubAssumption
<1>2. Diff(Ops(World, w), Len(log) + 1) \in Message
  <2> DEFINE r == [world |-> World, n |-> 0, sel |-> None]
  <2>1. r \in Replica /\ r.world = World
    BY LogType, HubAssumption DEF Replica, World
  <2> HIDE DEF r
  <2> QED
    BY <1>1, <2>1, Diffs
<1>3. Snapshot(w, None, Len(log) + 1) \in Message
  BY <1>1 DEF Snapshot, Message
<1> QED
  BY <1>1, <1>2, <1>3

\* Type correctness at the start.
LEMMA InitType == Init => TypeOK
<1> SUFFICES ASSUME Init PROVE TypeOK
  OBVIOUS
<1>1. PICK w \in First : log = <<w>>
  BY DEF Init
<1>2. log \in Seq(Worlds) /\ Len(log) \in 1..MaxLog
  BY <1>1, HubAssumption DEF Worlds
<1>3. chan \in [Sub -> Seq(Message)] /\ wire \in [Sub -> Seq(Message)]
  BY DEF Init
<1>4. \A s \in Sub : Len(chan[s]) <= ChanCap /\ Len(wire[s]) <= WireCap
  BY HubAssumption DEF Init
<1>5. cmds \in Seq(Sub \cup {None}) /\ Len(cmds) <= CmdCap
  BY HubAssumption DEF Init
<1>6. replica \in [Sub -> [world : Worlds, n : 0..MaxLog, sel : Target \cup {None}]]
  BY HubAssumption DEF Init, Worlds
<1> QED
  BY <1>2, <1>3, <1>4, <1>5, <1>6, HubAssumption DEF Init, TypeOK

\* What a subscriber has room for keeps to the bounds of its socket.
LEMMA TypeStep == ASSUME IInv, [Next]_vars PROVE TypeOK'
<1>0. TypeOK
  BY DEF IInv
<1>1. ASSUME NEW w \in Worlds, Publish(w) \/ Resync(w) PROVE TypeOK'
  <2>1. log' \in Seq(Worlds) /\ Len(log') \in 1..MaxLog
    <3>1. log' = Append(log, w) /\ log \in Seq(Worlds) /\ Len(log) + 1 \in 1..MaxLog
      BY <1>0, <1>1, NewsType DEF TypeOK, Publish, Resync
    <3> QED
      BY <3>1, AppendProperties
  <2>2. PICK m \in Message : Send(subs, m)
    BY <1>0, <1>1, NewsType DEF Publish, Resync
  <2>3. subs' \subseteq subs /\ chan' \in [Sub -> Seq(Message)] /\ \A s \in Sub : Len(chan'[s]) <= ChanCap
    BY <1>0, <2>2, SendEffect DEF TypeOK
  <2>4. UNCHANGED <<role, sel, pushing, cmds, wire, conn, hello, replica, pushes>>
    BY <1>1 DEF Publish, Resync
  <2> QED
    BY <1>0, <2>1, <2>3, <2>4 DEF TypeOK
<1>2. CASE OthersQueue
  <2>1. cmds' \in Seq(Sub \cup {None}) /\ Len(cmds') = Len(cmds) + 1 /\ Len(cmds) \in Nat
    BY <1>0, <1>2, AppendProperties, LenProperties DEF TypeOK, OthersQueue
  <2>2. Len(cmds') <= CmdCap
    BY <1>2, <2>1, HubAssumption DEF OthersQueue
  <2> QED
    BY <1>0, <1>2, <2>1, <2>2 DEF TypeOK, OthersQueue, daemon
<1>3. ASSUME cmds # <<>>, cmds' = Tail(cmds)
      PROVE  cmds' \in Seq(Sub \cup {None}) /\ Len(cmds') <= CmdCap
  <2>1. cmds \in Seq(Sub \cup {None}) /\ Len(cmds) \in Nat /\ Len(cmds) <= CmdCap
    BY <1>0, LenProperties DEF TypeOK
  <2>2. Tail(cmds) \in Seq(Sub \cup {None}) /\ Len(Tail(cmds)) = Len(cmds) - 1
    BY <1>3, <2>1, HeadTailProperties
  <2> QED
    BY <1>3, <2>1, <2>2, HubAssumption
<1>4. CASE OtherRuns
  BY <1>0, <1>3, <1>4 DEF TypeOK, OtherRuns, daemon
<1>5. CASE PushSends
  <2>1. pushing \in Target /\ Select(pushing) \in Message
    BY <1>0, <1>5 DEF TypeOK, PushSends, Select, Message
  <2>2. subs' \subseteq subs /\ chan' \in [Sub -> Seq(Message)] /\ \A s \in Sub : Len(chan'[s]) <= ChanCap
    BY <1>0, <1>5, <2>1, SendEffect DEF TypeOK, PushSends
  <2> QED
    BY <1>0, <1>5, <2>2 DEF TypeOK, PushSends
<1>6. ASSUME NEW x \in Target, PushRecords(x) PROVE TypeOK'
  BY <1>0, <1>6, HubAssumption DEF TypeOK, PushRecords
<1>7. ASSUME NEW s \in Sub, Connect(s) PROVE TypeOK'
  <2> DEFINE m == Snapshot(World, sel, Len(log))
  <2>1. m \in Message
    BY <1>0, LogType DEF TypeOK, World, Snapshot, Message
  <2> HIDE DEF m
  <2>2. <<m>> \in Seq(Message) /\ Len(<<m>>) = 1
    BY <2>1
  <2>3. chan' = [chan EXCEPT ![s] = <<m>>]
    BY <1>7 DEF Connect, m
  <2>4. chan' \in [Sub -> Seq(Message)] /\ \A t \in Sub : Len(chan'[t]) <= ChanCap
    BY <1>0, <2>2, <2>3, HubAssumption DEF TypeOK
  <2>5. conn' \in [Sub -> {"none", "open", "shut", "gone"}] /\ subs' \subseteq Sub
    BY <1>0, <1>7 DEF TypeOK, Connect
  <2>6. UNCHANGED <<log, role, sel, pushing, cmds, wire, hello, replica, pushes>>
    BY <1>7 DEF Connect
  <2> QED
    BY <1>0, <2>4, <2>5, <2>6 DEF TypeOK
<1>8. ASSUME NEW s \in Sub, Replays(s) PROVE TypeOK'
  <2>1. cmds' \in Seq(Sub \cup {None}) /\ Len(cmds') <= CmdCap
    BY <1>3, <1>8 DEF Replays
  <2>2. subs' \subseteq subs /\ chan' \in [Sub -> Seq(Message)] /\ \A t \in Sub : Len(chan'[t]) <= ChanCap
    BY <1>0, <1>8, ReplayEffect DEF TypeOK
  <2>3. hello' \in [Sub -> {"unsent", "sent", "heard", "queued", "done"}]
    BY <1>0, <1>8 DEF TypeOK, Replays
  <2>4. UNCHANGED <<log, role, sel, pushing, wire, conn, replica, pushes>>
    BY <1>8 DEF Replays
  <2> QED
    BY <1>0, <2>1, <2>2, <2>3, <2>4 DEF TypeOK
<1>9. ASSUME NEW s \in Sub, Hears(s) PROVE TypeOK'
  BY <1>0, <1>9 DEF TypeOK, Hears, daemon
<1>10. ASSUME NEW s \in Sub, Queues(s) PROVE TypeOK'
  <2>1. cmds' \in Seq(Sub \cup {None}) /\ Len(cmds') = Len(cmds) + 1 /\ Len(cmds) \in Nat
    BY <1>0, <1>10, AppendProperties, LenProperties DEF TypeOK, Queues
  <2>2. Len(cmds') <= CmdCap
    BY <1>10, <2>1, HubAssumption DEF Queues
  <2> QED
    BY <1>0, <1>10, <2>1, <2>2 DEF TypeOK, Queues, daemon
<1>11. ASSUME NEW s \in Sub, Removes(s) PROVE TypeOK'
  BY <1>0, <1>11 DEF TypeOK, Removes
<1>12. ASSUME NEW s \in Sub, Writes(s) PROVE TypeOK'
  <2>1. /\ chan[s] \in Seq(Message) /\ wire[s] \in Seq(Message) /\ Len(chan[s]) \in Nat
        /\ Len(wire[s]) \in Nat /\ Len(chan[s]) <= ChanCap /\ Len(wire[s]) < WireCap
    BY <1>0, <1>12, LenProperties DEF TypeOK, Writes
  <2>2. /\ Head(chan[s]) \in Message /\ Tail(chan[s]) \in Seq(Message)
        /\ Len(Tail(chan[s])) = Len(chan[s]) - 1
    BY <1>12, <2>1, HeadTailProperties DEF Writes
  <2>3. /\ Append(wire[s], Head(chan[s])) \in Seq(Message)
        /\ Len(Append(wire[s], Head(chan[s]))) = Len(wire[s]) + 1
    BY <2>1, <2>2, AppendProperties
  <2>4. chan' \in [Sub -> Seq(Message)] /\ \A t \in Sub : Len(chan'[t]) <= ChanCap
    <3>1. Len(Tail(chan[s])) <= ChanCap
      BY <2>1, <2>2, HubAssumption
    <3> QED
      BY <1>0, <1>12, <2>2, <3>1 DEF TypeOK, Writes
  <2>5. wire' \in [Sub -> Seq(Message)] /\ \A t \in Sub : Len(wire'[t]) <= WireCap
    <3>1. Len(Append(wire[s], Head(chan[s]))) <= WireCap
      BY <2>1, <2>3, HubAssumption
    <3> QED
      BY <1>0, <1>12, <2>3, <3>1 DEF TypeOK, Writes
  <2> QED
    BY <1>0, <1>12, <2>4, <2>5 DEF TypeOK, Writes
<1>13. ASSUME NEW s \in Sub, Shuts(s) PROVE TypeOK'
  BY <1>0, <1>13 DEF TypeOK, Shuts, daemon
<1>14. ASSUME NEW s \in Sub, Reads(s) PROVE TypeOK'
  <2>1. wire[s] \in Seq(Message) /\ chan[s] \in Seq(Message) /\ wire[s] # <<>> /\ Len(wire[s]) <= WireCap
    BY <1>0, <1>14 DEF TypeOK, Reads
  <2>2. Apply(replica[s], Head(wire[s])) \in Replica
    <3>1. InOrder(replica[s], OnWay(s), log) /\ OnWay(s) \in Seq(Message)
      BY <1>14, <2>1, ConcatProperties DEF IInv, Sound, SoundAt, Reads, OnWay
    <3>2. OnWay(s) # <<>> /\ Head(OnWay(s)) = Head(wire[s])
      BY <2>1, ReadNext DEF OnWay
    <3> HIDE DEF OnWay
    <3>3. Apply(replica[s], Head(OnWay(s))) \in Replica
      BY <3>1, <3>2, Shift
    <3> QED
      BY <3>2, <3>3
  <2>3. Tail(wire[s]) \in Seq(Message) /\ Len(Tail(wire[s])) <= WireCap
    <3>1. Tail(wire[s]) \in Seq(Message) /\ Len(Tail(wire[s])) = Len(wire[s]) - 1 /\ Len(wire[s]) \in Nat
      BY <2>1, HeadTailProperties, LenProperties
    <3> QED
      BY <2>1, <3>1, HubAssumption
  <2>4. replica' \in [Sub -> [world : Worlds, n : 0..MaxLog, sel : Target \cup {None}]]
    BY <1>0, <1>14, <2>2 DEF TypeOK, Reads, Replica
  <2>5. wire' \in [Sub -> Seq(Message)] /\ \A t \in Sub : Len(wire'[t]) <= WireCap
    BY <1>0, <1>14, <2>3 DEF TypeOK, Reads
  <2>6. UNCHANGED <<daemon, role, cmds, conn, hello>>
    BY <1>14 DEF Reads
  <2> QED
    BY <1>0, <2>4, <2>5, <2>6 DEF TypeOK, daemon
<1>15. ASSUME NEW s \in Sub, SaysHello(s) PROVE TypeOK'
  BY <1>0, <1>15 DEF TypeOK, SaysHello, daemon
<1>16. ASSUME NEW s \in Sub, Leaves(s) PROVE TypeOK'
  <2>1. wire' \in [Sub -> Seq(Message)] /\ \A t \in Sub : Len(wire'[t]) <= WireCap
    BY <1>0, <1>16, HubAssumption DEF TypeOK, Leaves
  <2> QED
    BY <1>0, <1>16, <2>1 DEF TypeOK, Leaves, daemon
<1>17. CASE UNCHANGED vars
  BY <1>0, <1>17 DEF TypeOK, vars, daemon
<1> QED
  BY <1>1, <1>2, <1>4, <1>5, <1>6, <1>7, <1>8, <1>9, <1>10, <1>11, <1>12, <1>13, <1>14, <1>15,
     <1>16, <1>17 DEF Next

-----------------------------------------------------------------------------
(* Connections, roles and hellos.                                            *)

\* Every step keeps what a connection, a role and a hello say of each other.
LEMMA RolesStep == ASSUME IInv, [Next]_vars PROVE Roles'
<1>0. TypeOK /\ Roles
  BY DEF IInv
<1>1. ASSUME NEW S \in SUBSET Sub, NEW m \in Message, Send(S, m),
             UNCHANGED <<role, cmds, wire, conn, hello, replica>>
      PROVE  Roles'
  <2>1. subs' \subseteq subs /\ \A s \in Sub : s \notin subs => chan'[s] = chan[s]
    BY <1>0, <1>1, SendEffect
  <2> QED
    BY <1>0, <1>1, <2>1 DEF Roles
<1>2. ASSUME NEW w \in Worlds, Publish(w) \/ Resync(w) PROVE Roles'
  <2>1. PICK m \in Message : Send(subs, m)
    BY <1>0, <1>2, NewsType DEF Publish, Resync
  <2> QED
    BY <1>0, <1>1, <1>2, <2>1 DEF Publish, Resync, TypeOK
<1>3. CASE PushSends
  <2>1. pushing \in Target /\ Select(pushing) \in Message
    BY <1>0, <1>3 DEF TypeOK, PushSends, Select, Message
  <2> QED
    BY <1>0, <1>1, <1>3, <2>1 DEF PushSends, TypeOK
<1>4. ASSUME NEW c \in role \cup {None}, cmds' = Append(cmds, c), role' = role
      PROVE  \A i \in 1..Len(cmds') : cmds'[i] \in role' \cup {None}
  <2>1. /\ Len(cmds') = Len(cmds) + 1 /\ Len(cmds) \in Nat /\ cmds'[Len(cmds) + 1] = c
        /\ \A i \in 1..Len(cmds) : cmds'[i] = cmds[i]
    BY <1>0, <1>4, AppendProperties, LenProperties DEF TypeOK
  <2> QED
    BY <1>0, <1>4, <2>1 DEF Roles
<1>5. ASSUME cmds # <<>>, cmds' = Tail(cmds), role' = role
      PROVE  /\ \A i \in 1..Len(cmds') : cmds'[i] \in role' \cup {None}
             /\ Head(cmds) \in role \cup {None}
  <2>1. /\ Len(cmds') = Len(cmds) - 1 /\ Len(cmds) \in Nat \ {0} /\ Head(cmds) = cmds[1]
        /\ \A i \in 1..Len(cmds') : cmds'[i] = cmds[i + 1]
    BY <1>0, <1>5, HeadTailProperties, EmptySeq DEF TypeOK
  <2>2. \A i \in 1..Len(cmds') : i + 1 \in 1..Len(cmds)
    BY <2>1
  <2>3. 1 \in 1..Len(cmds)
    BY <2>1
  <2> QED
    BY <1>0, <1>5, <2>1, <2>2, <2>3 DEF Roles
<1>6. CASE OthersQueue
  <2>1. \A i \in 1..Len(cmds') : cmds'[i] \in role' \cup {None}
    BY <1>4, <1>6 DEF OthersQueue
  <2> QED
    BY <1>0, <1>6, <2>1 DEF OthersQueue, Roles, daemon
<1>7. CASE OtherRuns
  <2>1. \A i \in 1..Len(cmds') : cmds'[i] \in role' \cup {None}
    BY <1>5, <1>7 DEF OtherRuns
  <2> QED
    BY <1>0, <1>7, <2>1 DEF OtherRuns, Roles, daemon
<1>8. ASSUME NEW x \in Target, PushRecords(x) PROVE Roles'
  BY <1>0, <1>8 DEF Roles, PushRecords
<1>9. ASSUME NEW s \in Sub, Connect(s) PROVE Roles'
  BY <1>0, <1>9 DEF TypeOK, Roles, Connect
<1>10. ASSUME NEW s \in Sub, Replays(s) PROVE Roles'
  <2>1. s \in role /\ \A i \in 1..Len(cmds') : cmds'[i] \in role' \cup {None}
    <3>1. s # None
      BY HubAssumption
    <3> QED
      BY <1>5, <1>10, <3>1 DEF Replays
  <2>2. subs' \subseteq subs /\ \A t \in Sub \ {s} : chan'[t] = chan[t]
    BY <1>0, <1>10, ReplayEffect
  <2>3. conn[s] # "none"
    BY <1>0, <1>10, <2>1 DEF Roles, Replays
  <2>4. /\ UNCHANGED <<role, wire, conn, replica>> /\ hello' = [hello EXCEPT ![s] = "done"]
        /\ hello \in [Sub -> {"unsent", "sent", "heard", "queued", "done"}]
    BY <1>0, <1>10 DEF TypeOK, Replays
  <2> QED
    BY <1>0, <2>1, <2>2, <2>3, <2>4 DEF Roles
<1>11. ASSUME NEW s \in Sub, Hears(s) PROVE Roles'
  BY <1>0, <1>11 DEF TypeOK, Roles, Hears, daemon
<1>12. ASSUME NEW s \in Sub, Queues(s) PROVE Roles'
  <2>1. s \in role /\ \A i \in 1..Len(cmds') : cmds'[i] \in role' \cup {None}
    BY <1>0, <1>4, <1>12 DEF Queues, Roles
  <2> QED
    BY <1>0, <1>12, <2>1 DEF TypeOK, Roles, Queues, daemon
<1>13. ASSUME NEW s \in Sub, Removes(s) PROVE Roles'
  BY <1>0, <1>13 DEF Roles, Removes
<1>14. ASSUME NEW s \in Sub, Writes(s) PROVE Roles'
  BY <1>0, <1>14 DEF TypeOK, Roles, Writes
<1>15. ASSUME NEW s \in Sub, Shuts(s) PROVE Roles'
  BY <1>0, <1>15 DEF TypeOK, Roles, Shuts, daemon
<1>16. ASSUME NEW s \in Sub, Reads(s) PROVE Roles'
  BY <1>0, <1>16 DEF TypeOK, Roles, Reads, daemon
<1>17. ASSUME NEW s \in Sub, SaysHello(s) PROVE Roles'
  BY <1>0, <1>17 DEF TypeOK, Roles, SaysHello, daemon
<1>18. ASSUME NEW s \in Sub, Leaves(s) PROVE Roles'
  BY <1>0, <1>18 DEF TypeOK, Roles, Leaves, daemon
<1>19. CASE UNCHANGED vars
  BY <1>0, <1>19 DEF Roles, vars, daemon
<1> QED
  BY <1>2, <1>3, <1>6, <1>7, <1>8, <1>9, <1>10, <1>11, <1>12, <1>13, <1>14, <1>15, <1>16, <1>17,
     <1>18, <1>19 DEF Next

-----------------------------------------------------------------------------
(* The streams.                                                              *)

\* What is on its way to a subscriber is a sequence of messages.
LEMMA OnWayType ==
  ASSUME TypeOK, NEW s \in Sub
  PROVE  OnWay(s) \in Seq(Message) /\ Eventual(s) = End(replica[s], OnWay(s))
  BY ConcatProperties DEF TypeOK, OnWay, Eventual, End

\* A message in the queue of a subscriber is the last thing on its way.
LEMMA Queued ==
  ASSUME TypeOK, NEW s \in Sub, NEW m \in Message, wire'[s] = wire[s],
         chan'[s] = Append(chan[s], m)
  PROVE  OnWay(s)' = Append(OnWay(s), m)
<1> DEFINE u == wire[s]
           v == chan[s]
<1>1. u \in Seq(Message) /\ v \in Seq(Message)
  BY DEF TypeOK
<1> HIDE DEF u, v
<1>2. u \o Append(v, m) = Append(u \o v, m)
  BY <1>1, QueueLast
<1>3. OnWay(s) = u \o v /\ OnWay(s)' = u \o Append(v, m)
  BY DEF OnWay, u, v
<1> QED
  BY <1>2, <1>3

\* A connection whose stream does not change, and about which no more is to be said.
LEMMA Frame ==
  ASSUME NEW s \in Sub, SoundAt(s), ChosenAt(s), UNCHANGED <<log, sel>>,
         replica'[s] = replica[s], OnWay(s)' = OnWay(s), pushing' \in {pushing, sel'},
         conn'[s] = "shut" => conn[s] \in {"open", "shut"}, conn'[s] = "open" => conn[s] = "open",
         s \in subs' => s \in subs, hello'[s] = "done" => hello[s] = "done",
         pushing' = None => pushing = None
  PROVE  SoundAt(s)' /\ ChosenAt(s)'
<1>1. Eventual(s)' = Eventual(s)
  BY DEF Eventual
<1>2. SoundAt(s)'
  BY <1>1 DEF SoundAt
<1>3. ChosenAt(s)'
  BY <1>1 DEF ChosenAt
<1> QED
  BY <1>2, <1>3

\* A world more, sent to every subscriber that is kept.
LEMMA StreamsGrow ==
  ASSUME IInv, NEW w \in Worlds, Publish(w) \/ Resync(w), NEW s \in Sub
  PROVE  SoundAt(s)' /\ ChosenAt(s)'
<1>0. TypeOK /\ Roles /\ SoundAt(s) /\ ChosenAt(s)
  BY DEF IInv, Sound, Chosen
<1>1. /\ log' = Append(log, w) /\ log \in Seq(Worlds) /\ Len(log) \in Nat \ {0} /\ Len(log) < MaxLog
      /\ Len(log') = Len(log) + 1 /\ log' \in Seq(Worlds) /\ Last(log') = w
      /\ UNCHANGED <<sel, pushing, wire, conn, hello, replica>>
  <2>1. log' = Append(log, w) /\ Len(log) < MaxLog
    BY <1>0, LogType DEF Publish, Resync
  <2>2. UNCHANGED <<sel, pushing, wire, conn, hello, replica>>
    BY DEF Publish, Resync
  <2>3. log \in Seq(Worlds) /\ Len(log) \in Nat \ {0}
    BY <1>0, LogType
  <2>4. Len(log') = Len(log) + 1 /\ log' \in Seq(Worlds) /\ log'[Len(log) + 1] = w
    BY <2>1, <2>3, AppendProperties
  <2> QED
    BY <2>1, <2>2, <2>3, <2>4 DEF Last
<1> DEFINE b == replica[s]
           q == OnWay(s)
<1>2. q \in Seq(Message) /\ Eventual(s) = End(b, q)
  BY <1>0, OnWayType
<1>3. CASE conn[s] \notin {"open", "shut"}
  BY <1>1, <1>3 DEF SoundAt, ChosenAt
<1>4. CASE conn[s] \in {"open", "shut"}
  <2>1. InOrder(b, q, log)
    BY <1>0, <1>4 DEF SoundAt
  <2>2. InOrder(b, q, log')
    BY <1>1, <1>2, <2>1, GrowLog
  <2>3. CASE s \notin subs'
    <3>1. PICK m \in Message : Send(subs, m)
      BY <1>0, <1>1, NewsType DEF Publish, Resync
    <3>2. chan'[s] = chan[s]
      BY <1>0, <2>3, <3>1, SendEffect DEF TypeOK
    <3>3. OnWay(s)' = q
      BY <1>1, <3>2 DEF OnWay
    <3> QED
      BY <1>1, <2>2, <2>3, <3>3 DEF SoundAt, ChosenAt
  <2>4. ASSUME NEW m \in Message, Send(subs, m), s \in subs'
        PROVE  s \in subs /\ OnWay(s)' = Append(q, m)
    <3>1. subs \in SUBSET Sub
      BY <1>0 DEF TypeOK
    <3>2. /\ subs' \subseteq subs
          /\ chan'[s] = IF s \in subs' \cap subs THEN Append(chan[s], m) ELSE chan[s]
      BY <1>0, <2>4, <3>1, SendEffect
    <3>3. s \in subs /\ chan'[s] = Append(chan[s], m)
      BY <2>4, <3>2
    <3> QED
      BY <1>0, <1>1, <2>4, <3>3, Queued
  <2>5. s \in subs => End(b, q).n = Len(log)
    BY <1>0, <1>2, <1>4 DEF SoundAt
  <2>6. ASSUME InOrder(b, OnWay(s)', log'), End(b, OnWay(s)').n = Len(log'),
               End(b, OnWay(s)').sel = End(b, q).sel, s \in subs
        PROVE  SoundAt(s)' /\ ChosenAt(s)'
    <3>1. Eventual(s)' = End(b, OnWay(s)')
      BY <1>1 DEF Eventual, End
    <3>2. SoundAt(s)'
      BY <1>1, <2>6, <3>1 DEF SoundAt
    <3>3. ChosenAt(s)'
      BY <1>0, <1>1, <1>2, <2>6, <3>1 DEF ChosenAt
    <3> QED
      BY <3>2, <3>3
  <2>7. CASE s \in subs' /\ Publish(w)
    <3> DEFINE m == Diff(Ops(World, w), Len(log) + 1)
    <3>1. Send(subs, m) /\ m \in Message
      BY <1>0, <1>1, <2>7, NewsType DEF Publish
    <3>2. s \in subs /\ OnWay(s)' = Append(q, m)
      BY <2>4, <2>7, <3>1
    <3>3. Len(log) \in 1..(MaxLog - 1)
      BY <1>1, HubAssumption
    <3> HIDE DEF b, q
    <3>4. /\ InOrder(b, Append(q, m), Append(log, w)) /\ End(b, Append(q, m)).n = Len(log) + 1
          /\ End(b, Append(q, m)).sel = End(b, q).sel
      BY <1>1, <1>2, <2>1, <2>5, <3>2, <3>3, ExtendDiff DEF World
    <3> QED
      BY <1>1, <2>6, <3>2, <3>4
  <2>8. CASE s \in subs' /\ Resync(w)
    <3> DEFINE m == Snapshot(w, None, Len(log) + 1)
    <3>1. Send(subs, m) /\ m \in Message
      BY <1>0, <1>1, <2>8, NewsType DEF Resync
    <3>2. s \in subs /\ OnWay(s)' = Append(q, m)
      BY <2>4, <2>8, <3>1
    <3>3. Len(log') \in 1..MaxLog /\ End(b, q).n < Len(log')
      BY <1>1, <2>5, <3>2, HubAssumption
    <3> HIDE DEF b, q
    <3>4. m = Snapshot(Last(log'), None, Len(log'))
      BY <1>1
    <3> HIDE DEF m
    <3>5. None \in Target \cup {None} /\ log' \in Seq(Worlds)
      BY <1>1
    <3>6. LET k == Snapshot(Last(log'), None, Len(log'))
              t == Append(q, k)
          IN  /\ k \in Message /\ InOrder(b, t, log') /\ End(b, t).n = Len(log')
              /\ End(b, t).sel = IF End(b, q).sel = None THEN None ELSE End(b, q).sel
      BY <1>2, <2>2, <3>3, <3>5, ExtendSnapshot, Zenon
    <3> QED
      BY <2>6, <3>2, <3>4, <3>6
  <2> QED
    BY <2>3, <2>7, <2>8
<1> QED
  BY <1>3, <1>4

\* A selection broadcast to the sidebars that have said hello.
LEMMA StreamsSelect == ASSUME IInv, PushSends, NEW s \in Sub PROVE SoundAt(s)' /\ ChosenAt(s)'
<1>0. TypeOK /\ Roles /\ SoundAt(s) /\ ChosenAt(s)
  BY DEF IInv, Sound, Chosen
<1>1. /\ pushing \in Target /\ sel = pushing /\ Select(pushing) \in Message /\ sel # None
      /\ Send(role, Select(pushing)) /\ UNCHANGED <<log, sel, wire, conn, hello, replica>>
      /\ role \in SUBSET Sub
  BY <1>0, HubAssumption DEF TypeOK, PushSends, Select, Message
<1>2. /\ subs' \subseteq subs
      /\ chan'[s] = IF s \in subs' \cap role THEN Append(chan[s], Select(pushing)) ELSE chan[s]
  BY <1>0, <1>1, SendEffect
<1> DEFINE b == replica[s]
           q == OnWay(s)
<1>3. q \in Seq(Message) /\ Eventual(s) = End(b, q)
  BY <1>0, OnWayType
<1>4. CASE s \notin subs' \cap role
  <2>1. OnWay(s)' = q
    BY <1>1, <1>2, <1>4 DEF OnWay
  <2>2. Eventual(s)' = Eventual(s)
    BY <1>1, <2>1 DEF Eventual
  <2>3. SoundAt(s)'
    BY <1>0, <1>1, <1>2, <2>1, <2>2 DEF SoundAt
  <2>4. s \in subs' => hello[s] # "done"
    BY <1>0, <1>4 DEF Roles
  <2>5. ChosenAt(s)'
    BY <1>1, <2>4 DEF ChosenAt
  <2> QED
    BY <2>3, <2>5
<1>5. CASE s \in subs' \cap role /\ conn[s] = "open"
  <2>1. OnWay(s)' = Append(q, Select(pushing))
    BY <1>0, <1>1, <1>2, <1>5, Queued
  <2>2. InOrder(b, q, log) /\ End(b, q).n = Len(log)
    BY <1>0, <1>2, <1>3, <1>5 DEF SoundAt
  <2>3. Eventual(s)' = End(b, Append(q, Select(pushing)))
    BY <1>1, <2>1 DEF Eventual, End
  <2> HIDE DEF b, q
  <2>4. LET t == Append(q, Select(pushing))
        IN  InOrder(b, t, log) /\ End(b, t).n = Len(log) /\ End(b, t).sel = pushing
    BY <1>1, <1>3, <2>2, ExtendSelect
  <2>5. SoundAt(s)'
    BY <1>1, <2>1, <2>3, <2>4 DEF SoundAt, b
  <2>6. ChosenAt(s)'
    BY <1>1, <2>3, <2>4 DEF ChosenAt
  <2> QED
    BY <2>5, <2>6
<1>6. CASE s \in subs' /\ conn[s] # "open"
  BY <1>0, <1>1, <1>2, <1>6 DEF Roles, SoundAt, ChosenAt
<1> QED
  BY <1>4, <1>5, <1>6

\* The first snapshot.
LEMMA StreamsConnect == ASSUME IInv, NEW s \in Sub, Connect(s) PROVE SoundAt(s)' /\ ChosenAt(s)'
<1>0. TypeOK /\ Roles
  BY DEF IInv
<1> DEFINE b == replica[s]
           m == Snapshot(World, sel, Len(log))
<1>1. /\ b \in Replica /\ b.n = 0 /\ b.sel = None /\ wire[s] = <<>> /\ chan[s] = <<>>
      /\ hello[s] = "unsent"
  BY <1>0 DEF TypeOK, Roles, Connect, Replica
<1>2. /\ UNCHANGED <<log, sel, pushing, wire, hello, replica>> /\ chan'[s] = <<m>>
  BY <1>0 DEF TypeOK, Connect
<1>3. Len(log) \in 1..MaxLog /\ log \in Seq(Worlds) /\ sel \in Target \cup {None}
  BY <1>0 DEF TypeOK
<1>4. <<>> \in Seq(Message) /\ Len(<<>>) = 0
  BY EmptySeq
<1>5. End(b, <<>>) = b /\ InOrder(b, <<>>, log)
  <2>1. Reading(b, <<>>)[0] = b
    BY <1>4, ReadingStep
  <2>2. Truthful(b, log)
    BY <1>1, <1>3 DEF Truthful
  <2> QED
    BY <1>1, <1>4, <2>1, <2>2 DEF End, InOrder
<1>6. m = Snapshot(Last(log), sel, Len(log))
  BY DEF World
<1> HIDE DEF b, m
<1>7. LET t == Append(<<>>, m)
      IN  m \in Message /\ InOrder(b, t, log) /\ End(b, t).n = Len(log) /\ End(b, t).sel = sel
  <2>1. End(b, <<>>).n < Len(log) /\ End(b, <<>>).sel = None
    BY <1>1, <1>3, <1>5
  <2> QED
    BY <1>3, <1>4, <1>5, <1>6, <2>1, ExtendSnapshot
<1>8. OnWay(s)' = Append(<<>>, m)
  <2>1. m \in Message /\ Append(<<>>, m) = <<m>>
    BY <1>4, <1>7, AppendIsConcat, ConcatEmptySeq
  <2>2. <<m>> \in Seq(Message)
    BY <2>1
  <2>3. OnWay(s)' = <<>> \o <<m>>
    BY <1>1, <1>2 DEF OnWay
  <2> QED
    BY <2>1, <2>2, <2>3, ConcatEmptySeq
<1>9. Eventual(s)' = End(b, Append(<<>>, m))
  BY <1>2, <1>8 DEF Eventual, End, b
<1>10. SoundAt(s)'
  BY <1>2, <1>7, <1>8, <1>9 DEF SoundAt, b
<1>11. ChosenAt(s)'
  BY <1>1, <1>2, <1>7, <1>9 DEF ChosenAt
<1> QED
  BY <1>10, <1>11

\* The answer to a hello.
LEMMA StreamsReplay == ASSUME IInv, NEW s \in Sub, Replays(s) PROVE SoundAt(s)' /\ ChosenAt(s)'
<1>0. TypeOK /\ Roles /\ SoundAt(s) /\ ChosenAt(s)
  BY DEF IInv, Sound, Chosen
<1> DEFINE b    == replica[s]
           q    == OnWay(s)
           told == Append(q, Select(sel))
<1>1. /\ UNCHANGED <<log, sel, pushing, wire, conn, replica>> /\ subs' \subseteq subs
      /\ pushing = None /\ sel \in Target \cup {None}
  BY <1>0, ReplayEffect DEF Replays, TypeOK
<1>2. /\ q \in Seq(Message) /\ Eventual(s) = End(b, q) /\ chan[s] \in Seq(Message) /\ Reply \in Message
      /\ sel # None => Select(sel) \in Message
  BY <1>0, <1>1, OnWayType, Replies DEF TypeOK, Message, Select
<1>3. CASE conn[s] \notin {"open", "shut"}
  BY <1>1, <1>3 DEF SoundAt, ChosenAt
<1>4. CASE conn[s] \in {"open", "shut"}
  <2>1. InOrder(b, q, log)
    BY <1>0, <1>4 DEF SoundAt
  <2>2. sel # None => InOrder(b, told, log) /\ End(b, told).n = End(b, q).n /\ End(b, told).sel = sel
    BY <1>1, <1>2, <2>1, ExtendSelect
  <2>3. CASE s \notin subs'
    <3>1. chan'[s] = chan[s] \/ (sel # None /\ chan'[s] = Append(chan[s], Select(sel)))
      BY <1>0, <2>3, ReplayEffect
    <3>2. OnWay(s)' = q \/ (sel # None /\ OnWay(s)' = told)
      <4>1. CASE chan'[s] = chan[s]
        BY <1>1, <4>1 DEF OnWay
      <4>2. CASE sel # None /\ chan'[s] = Append(chan[s], Select(sel))
        BY <1>0, <1>1, <1>2, <4>2, Queued
      <4> QED
        BY <3>1, <4>1, <4>2
    <3>3. InOrder(b, OnWay(s)', log)
      BY <2>1, <2>2, <3>2
    <3> QED
      BY <1>1, <2>3, <3>3 DEF SoundAt, ChosenAt
  <2>4. CASE s \in subs'
    <3> DEFINE u == IF sel = None THEN q ELSE told
    <3>1. u \in Seq(Message)
      BY <1>2, AppendProperties
    <3>2. OnWay(s)' = Append(u, Reply)
      <4>1. CASE sel = None
        <5>1. chan'[s] = Append(chan[s], Reply)
          BY <1>0, <2>4, <4>1, ReplayEffect
        <5> QED
          BY <1>0, <1>1, <1>2, <4>1, <5>1, Queued
      <4>2. CASE sel # None
        <5> DEFINE z == wire[s]
                   v == chan[s]
                   d == Append(v, Select(sel))
        <5>1. OnWay(s)' = z \o Append(d, Reply) /\ q = z \o v
          BY <1>0, <1>1, <2>4, <4>2, ReplayEffect DEF OnWay
        <5>2. z \in Seq(Message) /\ v \in Seq(Message) /\ d \in Seq(Message)
          BY <1>0, <1>2, <4>2, AppendProperties DEF TypeOK
        <5> HIDE DEF z, v, q
        <5>3. z \o d = Append(z \o v, Select(sel))
          BY <1>2, <4>2, <5>2, QueueLast
        <5> HIDE DEF d
        <5>4. z \o Append(d, Reply) = Append(z \o d, Reply)
          BY <1>2, <5>2, QueueLast
        <5> QED
          BY <4>2, <5>1, <5>3, <5>4
      <4> QED
        BY <4>1, <4>2
    <3>3. s \in subs /\ conn[s] = "open"
      BY <1>0, <1>1, <1>4, <2>4 DEF Roles
    <3>4. End(b, q).n = Len(log) /\ (sel = None => End(b, q).sel = None)
      BY <1>0, <1>2, <1>4, <3>3 DEF SoundAt, ChosenAt
    <3>5. InOrder(b, u, log) /\ End(b, u).n = Len(log) /\ End(b, u).sel = sel
      BY <2>1, <2>2, <3>4
    <3> HIDE DEF b, u
    <3>6. InOrder(b, Append(u, Reply), log) /\ End(b, Append(u, Reply)) = End(b, u)
      BY <3>1, <3>5, ExtendReply
    <3>7. Eventual(s)' = End(b, Append(u, Reply))
      BY <1>1, <3>2 DEF Eventual, End, b
    <3>8. SoundAt(s)'
      BY <1>1, <3>2, <3>5, <3>6, <3>7 DEF SoundAt, b
    <3>9. ChosenAt(s)'
      BY <1>1, <3>5, <3>6, <3>7 DEF ChosenAt
    <3> QED
      BY <3>8, <3>9
  <2> QED
    BY <2>3, <2>4
<1> QED
  BY <1>3, <1>4

\* The writer and the client move along what is on its way.
LEMMA StreamsRead == ASSUME IInv, NEW s \in Sub, Reads(s) PROVE SoundAt(s)' /\ ChosenAt(s)'
<1>0. TypeOK /\ SoundAt(s) /\ ChosenAt(s)
  BY DEF IInv, Sound, Chosen
<1> DEFINE b == replica[s]
           q == OnWay(s)
<1>1. /\ conn[s] \in {"open", "shut"} /\ wire[s] # <<>> /\ replica'[s] = Apply(b, Head(wire[s]))
      /\ wire'[s] = Tail(wire[s]) /\ UNCHANGED <<log, subs, chan, sel, pushing, conn, hello>>
  BY <1>0 DEF TypeOK, Reads, daemon
<1>2. q # <<>> /\ Head(q) = Head(wire[s]) /\ Tail(q) = Tail(wire[s]) \o chan[s]
  BY <1>0, <1>1, ReadNext DEF TypeOK, OnWay
<1>3. q \in Seq(Message) /\ Eventual(s) = End(b, q)
  BY <1>0, OnWayType
<1>4. InOrder(b, q, log)
  BY <1>0, <1>1 DEF SoundAt
<1>5. OnWay(s)' = Tail(q) /\ replica'[s] = Apply(b, Head(q))
  BY <1>1, <1>2 DEF OnWay
<1> HIDE DEF b, q
<1>6. InOrder(Apply(b, Head(q)), Tail(q), log) /\ End(Apply(b, Head(q)), Tail(q)) = End(b, q)
  BY <1>2, <1>3, <1>4, Shift
<1>7. Eventual(s)' = Eventual(s)
  BY <1>3, <1>5, <1>6 DEF Eventual, End
<1>8. SoundAt(s)'
  BY <1>0, <1>1, <1>5, <1>6, <1>7 DEF SoundAt
<1>9. ChosenAt(s)'
  BY <1>0, <1>1, <1>7 DEF ChosenAt
<1> QED
  BY <1>8, <1>9

\* Every step keeps the stream and the selection of every subscriber.
LEMMA StreamsStep == ASSUME IInv, [Next]_vars, NEW s \in Sub PROVE SoundAt(s)' /\ ChosenAt(s)'
<1>0. TypeOK /\ Roles /\ SoundAt(s) /\ ChosenAt(s)
  BY DEF IInv, Sound, Chosen
<1>1. ASSUME UNCHANGED <<log, sel, pushing>>, replica'[s] = replica[s], wire'[s] = wire[s],
             chan'[s] = chan[s], conn'[s] = conn[s], subs' \subseteq subs,
             hello'[s] = "done" => hello[s] = "done"
      PROVE  SoundAt(s)' /\ ChosenAt(s)'
  <2>1. OnWay(s)' = OnWay(s)
    BY <1>1 DEF OnWay
  <2> QED
    BY <1>0, <1>1, <2>1, Frame
<1>2. ASSUME NEW w \in Worlds, Publish(w) \/ Resync(w) PROVE SoundAt(s)' /\ ChosenAt(s)'
  BY <1>2, StreamsGrow
<1>3. CASE OthersQueue
  BY <1>1, <1>3 DEF OthersQueue, daemon
<1>4. CASE OtherRuns
  BY <1>1, <1>4 DEF OtherRuns, daemon
<1>5. CASE PushSends
  BY <1>5, StreamsSelect
<1>6. ASSUME NEW x \in Target, PushRecords(x) PROVE SoundAt(s)' /\ ChosenAt(s)'
  <2>1. sel' # None /\ pushing' # None
    BY <1>6, HubAssumption DEF PushRecords
  <2>2. UNCHANGED <<log, subs, chan, wire, conn, hello, replica>>
    BY <1>6 DEF PushRecords
  <2>3. OnWay(s)' = OnWay(s) /\ Eventual(s)' = Eventual(s)
    BY <2>2 DEF OnWay, Eventual
  <2> QED
    BY <1>0, <2>1, <2>2, <2>3 DEF SoundAt, ChosenAt
<1>7. ASSUME NEW t \in Sub, Connect(t) PROVE SoundAt(s)' /\ ChosenAt(s)'
  <2>1. CASE s = t
    BY <1>7, <2>1, StreamsConnect
  <2>2. CASE s # t
    <3>1. /\ UNCHANGED <<log, sel, pushing, wire, hello, replica>>
          /\ chan'[s] = chan[s] /\ conn'[s] = conn[s] /\ (s \in subs' => s \in subs)
      BY <1>0, <1>7, <2>2 DEF TypeOK, Connect
    <3>2. OnWay(s)' = OnWay(s)
      BY <3>1 DEF OnWay
    <3> QED
      BY <1>0, <3>1, <3>2, Frame
  <2> QED
    BY <2>1, <2>2
<1>8. ASSUME NEW t \in Sub, Replays(t) PROVE SoundAt(s)' /\ ChosenAt(s)'
  <2>1. CASE s = t
    BY <1>8, <2>1, StreamsReplay
  <2>2. CASE s # t
    <3>1. chan'[s] = chan[s] /\ subs' \subseteq subs
      BY <1>0, <1>8, <2>2, ReplayEffect
    <3>2. hello'[s] = hello[s] /\ UNCHANGED <<log, sel, pushing, wire, conn, replica>>
      BY <1>0, <1>8, <2>2 DEF TypeOK, Replays
    <3> QED
      BY <1>1, <3>1, <3>2
  <2> QED
    BY <2>1, <2>2
<1>9. ASSUME NEW t \in Sub, Hears(t) PROVE SoundAt(s)' /\ ChosenAt(s)'
  BY <1>0, <1>1, <1>9 DEF TypeOK, Hears, daemon
<1>10. ASSUME NEW t \in Sub, Queues(t) PROVE SoundAt(s)' /\ ChosenAt(s)'
  BY <1>0, <1>1, <1>10 DEF TypeOK, Queues, daemon
<1>11. ASSUME NEW t \in Sub, Removes(t) PROVE SoundAt(s)' /\ ChosenAt(s)'
  BY <1>1, <1>11 DEF Removes
<1>12. ASSUME NEW t \in Sub, Writes(t) PROVE SoundAt(s)' /\ ChosenAt(s)'
  <2>1. UNCHANGED <<log, subs, role, sel, pushing, cmds, conn, hello, replica>>
    BY <1>12 DEF Writes
  <2>2. CASE s = t
    <3> DEFINE u == wire[s]
               v == chan[s]
    <3>1. u \in Seq(Message) /\ v \in Seq(Message) /\ v # <<>>
      BY <1>0, <1>12, <2>2 DEF TypeOK, Writes
    <3>2. OnWay(s) = u \o v /\ OnWay(s)' = Append(u, Head(v)) \o Tail(v)
      BY <1>0, <1>12, <2>2 DEF TypeOK, Writes, OnWay
    <3> HIDE DEF u, v
    <3>3. Append(u, Head(v)) \o Tail(v) = u \o v
      BY <3>1, WriteNext
    <3>4. OnWay(s)' = OnWay(s)
      BY <3>2, <3>3
    <3> QED
      BY <1>0, <2>1, <3>4, Frame
  <2>3. CASE s # t
    <3>1. chan'[s] = chan[s] /\ wire'[s] = wire[s]
      BY <1>0, <1>12, <2>3 DEF TypeOK, Writes
    <3> QED
      BY <1>1, <2>1, <3>1
  <2> QED
    BY <2>2, <2>3
<1>13. ASSUME NEW t \in Sub, Shuts(t) PROVE SoundAt(s)' /\ ChosenAt(s)'
  <2>1. UNCHANGED <<log, subs, chan, sel, pushing, wire, hello, replica>>
    BY <1>13 DEF Shuts, daemon
  <2>2. OnWay(s)' = OnWay(s)
    BY <2>1 DEF OnWay
  <2>3. /\ conn'[s] = "shut" => conn[s] \in {"open", "shut"}
        /\ conn'[s] = "open" => conn[s] = "open"
    BY <1>0, <1>13 DEF TypeOK, Shuts
  <2> QED
    BY <1>0, <2>1, <2>2, <2>3, Frame
<1>14. ASSUME NEW t \in Sub, Reads(t) PROVE SoundAt(s)' /\ ChosenAt(s)'
  <2>1. CASE s = t
    BY <1>14, <2>1, StreamsRead
  <2>2. CASE s # t
    BY <1>0, <1>1, <1>14, <2>2 DEF TypeOK, Reads, daemon
  <2> QED
    BY <2>1, <2>2
<1>15. ASSUME NEW t \in Sub, SaysHello(t) PROVE SoundAt(s)' /\ ChosenAt(s)'
  BY <1>0, <1>1, <1>15 DEF TypeOK, SaysHello, daemon
<1>16. ASSUME NEW t \in Sub, Leaves(t) PROVE SoundAt(s)' /\ ChosenAt(s)'
  <2>1. CASE s = t
    <3>1. conn'[s] = "gone"
      BY <1>0, <1>16, <2>1 DEF TypeOK, Leaves
    <3> QED
      BY <3>1 DEF SoundAt, ChosenAt
  <2>2. CASE s # t
    BY <1>0, <1>1, <1>16, <2>2 DEF TypeOK, Leaves, daemon
  <2> QED
    BY <2>1, <2>2
<1>17. CASE UNCHANGED vars
  BY <1>1, <1>17 DEF vars, daemon
<1> QED
  BY <1>2, <1>3, <1>4, <1>5, <1>6, <1>7, <1>8, <1>9, <1>10, <1>11, <1>12, <1>13, <1>14, <1>15,
     <1>16, <1>17 DEF Next

-----------------------------------------------------------------------------
(* The theorems.                                                             *)

\* The inductive invariant: at every moment each message in a queue or a socket of the hub
\* leads on from the one before it, to a world that was published.
THEOREM Inductive == Spec => []IInv
<1>1. Init => IInv
  <2> SUFFICES ASSUME Init PROVE IInv
    OBVIOUS
  <2>1. TypeOK
    BY InitType
  <2>2. Roles
    BY DEF Init, Roles
  <2>3. Sound /\ Chosen
    BY DEF Init, Sound, SoundAt, Chosen, ChosenAt
  <2> QED
    BY <2>1, <2>2, <2>3 DEF IInv
<1>2. IInv /\ [Next]_vars => IInv'
  <2> SUFFICES ASSUME IInv, [Next]_vars PROVE IInv'
    OBVIOUS
  <2>1. TypeOK'
    BY TypeStep
  <2>2. Roles'
    BY RolesStep
  <2>3. Sound' /\ Chosen'
    BY StreamsStep DEF Sound, Chosen
  <2> QED
    BY <2>1, <2>2, <2>3 DEF IInv
<1> QED
  BY <1>1, <1>2, PTL DEF Spec

\* The queues, the sockets and the queue of commands keep to their bounds and their types.
THEOREM TypeCorrect == Spec => []TypeOK
<1>1. IInv => TypeOK
  BY DEF IInv
<1> QED
  BY <1>1, Inductive, PTL

\* A subscriber that is kept ends up with the world of the daemon, whatever it has missed,
\* been sent twice or not read yet: sendLocked drops the subscriber, never a message.
THEOREM StreamsAgreeHolds == Spec => []StreamsAgree
<1>1. IInv => StreamsAgree
  <2> SUFFICES ASSUME IInv, NEW s \in subs, conn[s] = "open" PROVE Eventual(s).world = World
    BY DEF StreamsAgree
  <2>1. TypeOK /\ s \in Sub /\ SoundAt(s)
    BY DEF IInv, TypeOK, Sound
  <2>2. OnWay(s) \in Seq(Message) /\ Eventual(s) = End(replica[s], OnWay(s))
    BY <2>1, OnWayType
  <2>3. InOrder(replica[s], OnWay(s), log) /\ Eventual(s).n = Len(log)
    BY <2>1 DEF SoundAt
  <2>4. Truthful(Eventual(s), log)
    BY <2>2, <2>3, EndShows
  <2> QED
    BY <2>1, <2>3, <2>4, LogType DEF Truthful, World
<1> QED
  BY <1>1, Inductive, PTL

\* A sidebar whose hello was answered ends up on the selection of the daemon, in whatever
\* order the snapshot, the hello and the pushes came.
THEOREM SelectionAgreesHolds == Spec => []SelectionAgrees
<1>1. IInv => SelectionAgrees
  BY DEF IInv, TypeOK, Chosen, ChosenAt, SelectionAgrees
<1> QED
  BY <1>1, Inductive, PTL

\* The hub implements the feed: what a client shows is a world that was published, whole,
\* and never one older than what it has shown.
THEOREM Implements == Spec => FollowsPublished
<1>1. Init => Published!Init
  <2> SUFFICES ASSUME Init PROVE Published!Init
    OBVIOUS
  <2>1. \E w \in Worlds : log = <<w>>
    BY HubAssumption DEF Init, Worlds
  <2>2. [s \in Sub |-> replica[s].n] = [s \in Sub |-> 0]
    BY DEF Init
  <2>3. [s \in Sub |-> replica[s].world] \in [Sub -> Worlds]
    BY HubAssumption DEF Init, Worlds
  <2> QED
    BY <2>1, <2>2, <2>3 DEF Published!Init
<1>2. ASSUME IInv, [Next]_vars PROVE [Published!Next]_(Published!vars)
  <2>0. TypeOK
    BY <1>2 DEF IInv
  <2> DEFINE pos   == [s \in Sub |-> replica[s].n]
             shown == [s \in Sub |-> replica[s].world]
  <2>1. CASE UNCHANGED <<log, replica>>
    BY <2>1 DEF Published!vars
  <2>2. ASSUME NEW w \in Worlds, Publish(w) \/ Resync(w) PROVE Published!Next
    <3>1. log' = Append(log, w) /\ UNCHANGED replica
      BY <2>2 DEF Publish, Resync
    <3>2. Published!Publish(w)
      BY <3>1 DEF Published!Publish
    <3> QED
      BY <3>2 DEF Published!Next
  <2>3. ASSUME NEW s \in Sub, Reads(s) PROVE [Published!Next]_(Published!vars)
    <3> DEFINE b == replica[s]
               q == OnWay(s)
               a == Apply(b, Head(q))
    <3>1. q # <<>> /\ Head(q) = Head(wire[s]) /\ q \in Seq(Message)
      <4>1. wire[s] \in Seq(Message) /\ chan[s] \in Seq(Message) /\ wire[s] # <<>>
        BY <2>0, <2>3 DEF TypeOK, Reads
      <4> QED
        BY <4>1, ReadNext, ConcatProperties DEF OnWay
    <3>2. InOrder(b, q, log)
      BY <1>2, <2>3 DEF IInv, Sound, SoundAt, Reads
    <3> HIDE DEF b, q
    <3>3. Onward(b, a) /\ a \in Replica /\ Truthful(a, log)
      BY <3>1, <3>2, Shift
    <3> HIDE DEF a
    <3>4. replica' = [replica EXCEPT ![s] = a] /\ UNCHANGED log
      BY <2>3, <3>1 DEF Reads, daemon, a, b
    <3>5. b \in Replica /\ b.n \in Nat /\ a.n \in Nat
      BY <2>0, <3>3, HubAssumption DEF TypeOK, b, Replica
    <3>6. pos' = [pos EXCEPT ![s] = a.n] /\ shown' = [shown EXCEPT ![s] = a.world] /\ pos[s] = b.n
      BY <2>0, <3>4 DEF TypeOK, b
    <3>7. CASE b.n < a.n
      <4>1. a.n \in 1..Len(log) /\ a.world = log[a.n]
        BY <2>0, <3>3, <3>5, <3>7, LogType DEF Truthful
      <4>2. a.n > pos[s] /\ shown' = [shown EXCEPT ![s] = log[a.n]]
        BY <3>5, <3>6, <3>7, <4>1
      <4> DEFINE i == a.n
      <4> HIDE DEF i
      <4>3. i \in 1..Len(log) /\ i > pos[s]
        BY <4>1, <4>2 DEF i
      <4>4. pos' = [pos EXCEPT ![s] = i] /\ shown' = [shown EXCEPT ![s] = log[i]] /\ UNCHANGED log
        BY <3>4, <3>6, <4>2 DEF i
      <4>5. Published!Next
        BY <4>3, <4>4 DEF Published!Next, Published!Follow
      <4> QED
        BY <4>5
    <3>8. CASE a.n = b.n /\ a.world = b.world
      <4>1. pos' = pos /\ shown' = shown
        BY <2>0, <3>4, <3>8 DEF TypeOK, b
      <4> QED
        BY <3>4, <4>1 DEF Published!vars
    <3> QED
      BY <3>3, <3>7, <3>8 DEF Onward
  <2>4. \/ \E w \in Worlds : Publish(w) \/ Resync(w)
        \/ \E s \in Sub : Reads(s)
        \/ UNCHANGED <<log, replica>>
    BY <1>2 DEF Next, vars, daemon, OthersQueue, OtherRuns, PushSends, PushRecords, Connect, Replays,
                Hears, Queues, Removes, Writes, Shuts, SaysHello, Leaves
  <2> QED
    BY <2>1, <2>2, <2>3, <2>4
<1> QED
  BY <1>1, <1>2, Inductive, PTL DEF Spec, FollowsPublished, Published!Spec
-----------------------------------------------------------------------------
(* Every hello that is handed over waits in one place.                       *)

\* A queue that loses its head keeps the others, a place further to the front.
LEMMA NextInLine ==
  ASSUME NEW S, NEW q \in Seq(S), q # <<>>
  PROVE  /\ Len(q) \in Nat \ {0} /\ Head(q) = q[1]
         /\ Len(Tail(q)) = Len(q) - 1
         /\ \A i \in 1..(Len(q) - 1) : Tail(q)[i] = q[i + 1]
<1>1. Len(q) \in Nat /\ Len(q) # 0
  BY LenProperties, EmptySeq
<1> QED
  BY <1>1, HeadTailProperties

\* Whoever leaves the queue was there once, and the others stay.
LEMMA LeavesLine ==
  ASSUME TypeOK, QueuedOnce, NEW s \in Sub, cmds # <<>>, cmds' = Tail(cmds)
  PROVE  /\ \A i, j \in 1..Len(cmds') : cmds'[i] = s /\ cmds'[j] = s => i = j
         /\ Head(cmds) # s => ((\E i \in 1..Len(cmds') : cmds'[i] = s) <=> hello[s] = "queued")
         /\ Head(cmds) = s => ~ \E i \in 1..Len(cmds') : cmds'[i] = s
<1>1. /\ Len(cmds) \in Nat \ {0} /\ Head(cmds) = cmds[1] /\ Len(cmds') = Len(cmds) - 1
      /\ \A i \in 1..(Len(cmds) - 1) : cmds'[i] = cmds[i + 1]
  BY NextInLine DEF TypeOK
<1>2. \A i \in 1..Len(cmds') : i + 1 \in 1..Len(cmds) /\ cmds'[i] = cmds[i + 1]
  BY <1>1
<1>3. \A i, j \in 1..Len(cmds') : cmds'[i] = s /\ cmds'[j] = s => i = j
  <2> SUFFICES ASSUME NEW i \in 1..Len(cmds'), NEW j \in 1..Len(cmds'), cmds'[i] = s, cmds'[j] = s
               PROVE  i = j
    OBVIOUS
  <2>1. i + 1 = j + 1
    BY <1>2 DEF QueuedOnce
  <2> QED
    BY <1>1, <2>1
<1>4. ASSUME Head(cmds) = s, NEW i \in 1..Len(cmds'), cmds'[i] = s PROVE FALSE
  <2>1. i + 1 = 1
    BY <1>1, <1>2, <1>4 DEF QueuedOnce
  <2> QED
    BY <1>1, <2>1
<1>5. ASSUME Head(cmds) # s, hello[s] = "queued" PROVE \E i \in 1..Len(cmds') : cmds'[i] = s
  <2>1. PICK k \in 1..Len(cmds) : cmds[k] = s
    BY <1>5 DEF QueuedOnce
  <2>2. k # 1
    BY <1>1, <1>5, <2>1
  <2>3. k - 1 \in 1..Len(cmds') /\ (k - 1) + 1 = k
    BY <1>1, <2>2
  <2> QED
    BY <1>2, <2>1, <2>3
<1>6. ASSUME NEW i \in 1..Len(cmds'), cmds'[i] = s PROVE hello[s] = "queued"
  BY <1>2, <1>6 DEF QueuedOnce
<1> QED
  BY <1>3, <1>4, <1>5, <1>6

\* Whoever joins the queue is its last.
LEMMA JoinsLine ==
  ASSUME TypeOK, QueuedOnce, NEW s \in Sub, NEW x \in Sub \cup {None}, cmds' = Append(cmds, x)
  PROVE  /\ x # s => /\ (\E i \in 1..Len(cmds') : cmds'[i] = s) <=> hello[s] = "queued"
                     /\ \A i, j \in 1..Len(cmds') : cmds'[i] = s /\ cmds'[j] = s => i = j
         /\ x = s /\ hello[s] # "queued" =>
              /\ \E i \in 1..Len(cmds') : cmds'[i] = s
              /\ \A i, j \in 1..Len(cmds') : cmds'[i] = s /\ cmds'[j] = s => i = j
<1>1. Len(cmds) \in Nat
  BY LenProperties DEF TypeOK
<1>2. /\ Len(cmds') = Len(cmds) + 1 /\ cmds'[Len(cmds) + 1] = x
      /\ \A i \in 1..Len(cmds) : cmds'[i] = cmds[i]
  BY AppendProperties DEF TypeOK
<1>3. \A i \in 1..Len(cmds') : i \in 1..Len(cmds) \/ i = Len(cmds) + 1
  BY <1>1, <1>2
<1>4. CASE x # s
  <2>1. \A i \in 1..Len(cmds') : cmds'[i] = s => i \in 1..Len(cmds) /\ cmds[i] = s
    BY <1>2, <1>3, <1>4
  <2>2. \A i \in 1..Len(cmds) : i \in 1..Len(cmds') /\ cmds'[i] = cmds[i]
    BY <1>1, <1>2
  <2>3. (\E i \in 1..Len(cmds') : cmds'[i] = s) <=> hello[s] = "queued"
    BY <2>1, <2>2 DEF QueuedOnce
  <2>4. \A i, j \in 1..Len(cmds') : cmds'[i] = s /\ cmds'[j] = s => i = j
    BY <2>1 DEF QueuedOnce
  <2> QED
    BY <1>4, <2>3, <2>4
<1>5. CASE x = s /\ hello[s] # "queued"
  <2>1. \A i \in 1..Len(cmds) : cmds[i] # s
    BY <1>5 DEF QueuedOnce
  <2>2. \A i \in 1..Len(cmds') : cmds'[i] = s <=> i = Len(cmds) + 1
    BY <1>2, <1>3, <1>5, <2>1
  <2>3. Len(cmds) + 1 \in 1..Len(cmds')
    BY <1>1, <1>2
  <2> QED
    BY <1>5, <2>2, <2>3
<1> QED
  BY <1>4, <1>5

\* Every step leaves each hello that waits in one place.
LEMMA LineStep == ASSUME TypeOK, QueuedOnce, [Next]_vars PROVE QueuedOnce'
<1>1. SUFFICES ASSUME NEW s \in Sub
               PROVE  /\ hello'[s] = "queued" <=> \E i \in 1..Len(cmds') : cmds'[i] = s
                      /\ \A i, j \in 1..Len(cmds') : cmds'[i] = s /\ cmds'[j] = s => i = j
  BY DEF QueuedOnce
<1>2. CASE cmds' = cmds /\ (hello'[s] = "queued" <=> hello[s] = "queued")
  BY <1>2 DEF QueuedOnce
<1>3. ASSUME NEW t \in Sub, Hears(t) \/ SaysHello(t)
      PROVE  cmds' = cmds /\ (hello'[s] = "queued" <=> hello[s] = "queued")
  BY <1>3 DEF Hears, SaysHello, TypeOK
<1>4. ASSUME NEW t \in Sub, Queues(t)
      PROVE  /\ hello'[s] = "queued" <=> \E i \in 1..Len(cmds') : cmds'[i] = s
             /\ \A i, j \in 1..Len(cmds') : cmds'[i] = s /\ cmds'[j] = s => i = j
  <2>1. hello[t] # "queued" /\ cmds' = Append(cmds, t) /\ hello'[s] = IF s = t THEN "queued" ELSE hello[s]
    BY <1>4 DEF Queues, TypeOK
  <2>2. CASE s = t
    BY <2>1, <2>2, JoinsLine
  <2>3. CASE s # t
    BY <2>1, <2>3, JoinsLine
  <2> QED
    BY <2>2, <2>3
<1>5. CASE OthersQueue
  <2>1. cmds' = Append(cmds, None) /\ hello' = hello /\ None # s
    BY <1>5, HubAssumption DEF OthersQueue
  <2> QED
    BY <2>1, JoinsLine
<1>6. CASE OtherRuns
  <2>1. cmds # <<>> /\ Head(cmds) # s /\ cmds' = Tail(cmds) /\ hello' = hello
    BY <1>6, HubAssumption DEF OtherRuns
  <2> QED
    BY <2>1, LeavesLine
<1>7. ASSUME NEW t \in Sub, Replays(t)
      PROVE  /\ hello'[s] = "queued" <=> \E i \in 1..Len(cmds') : cmds'[i] = s
             /\ \A i, j \in 1..Len(cmds') : cmds'[i] = s /\ cmds'[j] = s => i = j
  <2>1. /\ cmds # <<>> /\ Head(cmds) = t /\ cmds' = Tail(cmds)
        /\ hello'[s] = IF s = t THEN "done" ELSE hello[s]
    BY <1>7 DEF Replays, TypeOK
  <2>2. CASE s = t
    BY <2>1, <2>2, LeavesLine
  <2>3. CASE s # t
    BY <2>1, <2>3, LeavesLine
  <2> QED
    BY <2>2, <2>3
<1>8. \/ cmds' = cmds /\ (hello'[s] = "queued" <=> hello[s] = "queued")
      \/ \E t \in Sub : Hears(t) \/ SaysHello(t)
      \/ \E t \in Sub : Queues(t)
      \/ OthersQueue \/ OtherRuns
      \/ \E t \in Sub : Replays(t)
  BY DEF Next, vars, daemon, Publish, Resync, PushSends, PushRecords, Connect, Removes, Writes, Shuts, Reads, Leaves
<1> QED
  BY <1>2, <1>3, <1>4, <1>5, <1>6, <1>7, <1>8

\* A hello that the reader has handed over is in the queue exactly once until the daemon
\* answers it, and is answered one time (server.go:211-215).
THEOREM QueuedOnceHolds == Spec => []QueuedOnce
<1>1. Init => QueuedOnce
  BY EmptySeq DEF Init, QueuedOnce
<1>2. TypeOK /\ QueuedOnce /\ [Next]_vars => QueuedOnce'
  BY LineStep
<1> QED
  BY <1>1, <1>2, TypeCorrect, PTL DEF Spec
=============================================================================
