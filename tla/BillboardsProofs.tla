-------------------------- MODULE BillboardsProofs --------------------------
(***************************************************************************)
(* Proofs about billboards: the deltas that keep one live are made from    *)
(* what the sidebar has, the sidebar is wide as long as one shows, and in  *)
(* the end it is the selected window that shows; for any windows, rows and *)
(* glyphs.                                                                 *)
(*                                                                         *)
(* The first part is about the two sequences the model folds: the commands *)
(* of a batch that still matter, and the messages on their way.  Then it   *)
(* is shown where queued commands lead; and last, that a sidebar told its  *)
(* frame of a window is still current has what that window shows.          *)
(***************************************************************************)
EXTENDS Billboards, FiniteSetTheorems, SequenceTheorems, WellFoundedInduction, TLAPS

-----------------------------------------------------------------------------
(* Counting up.                                                              *)

\* Every inhabited set of numbers has a least one.
LEMMA Least == ASSUME NEW T, T \subseteq Nat, T # {} PROVE \E x \in T : \A y \in T : x <= y
<1> DEFINE R == {p \in Nat \X Nat : p[1] < p[2]}
<1>1. IsWellFoundedOn(R, Nat)
  BY NatLessThanWellFounded DEF OpToRel
<1> HIDE DEF R
<1>2. PICK x \in T : \A y \in T : <<y, x>> \notin R
  BY <1>1, WFMin
<1>3. \A y \in T : ~(y < x)
  BY <1>2 DEF R
<1>4. ASSUME NEW y \in T PROVE x <= y
  <2>1. x \in Nat /\ y \in Nat
    OBVIOUS
  <2> QED
    BY <1>3, <2>1
<1> QED
  BY <1>4

\* A set with 0 in it that goes on from each number below n holds all of them.
LEMMA UpTo ==
  ASSUME NEW n \in Nat, NEW P, 0 \in P, \A i \in 0..n : i < n /\ i \in P => i + 1 \in P
  PROVE  \A i \in 0..n : i \in P
<1> DEFINE T == {i \in 0..n : i \notin P}
<1> SUFFICES ASSUME T # {} PROVE FALSE
  OBVIOUS
<1>1. PICK x \in T : \A y \in T : x <= y
  BY Least, T \subseteq Nat
<1>2. x \in 0..n /\ x # 0 /\ x \notin P
  OBVIOUS
<1>3. x - 1 \in 0..n /\ x - 1 < n /\ (x - 1) + 1 = x /\ ~(x <= x - 1)
  BY <1>2
<1>4. x - 1 \in P
  BY <1>1, <1>3
<1> QED
  BY <1>2, <1>3, <1>4

-----------------------------------------------------------------------------
(* The commands that still matter.                                           *)

\* One more command is looked at.
More(q, b, i, places) == IF i \in places THEN Append(q, b[i]) ELSE q

\* The equation that defines what is kept has a solution.
LEMMA KeptDef ==
  ASSUME NEW b, NEW places, Len(b) \in Nat
  PROVE  Kept(b, places) = [i \in 0..Len(b) |->
           IF i = 0 THEN <<>> ELSE More(Kept(b, places)[i - 1], b, i, places)]
<1> DEFINE N == Len(b)
           Solves(r, n) == r = [i \in 0..n |-> IF i = 0 THEN <<>> ELSE More(r[i - 1], b, i, places)]
           P == {n \in 0..N : \E r : Solves(r, n)}
<1>1. 0 \in P
  <2>1. Solves([i \in 0..0 |-> <<>>], 0)
    OBVIOUS
  <2> HIDE DEF Solves
  <2>2. \E r : Solves(r, 0)
    BY <2>1
  <2> QED
    BY <2>2
<1>2. ASSUME NEW n \in 0..N, n < N, n \in P PROVE n + 1 \in P
  <2>1. PICK r : Solves(r, n)
    BY <1>2
  <2> DEFINE u == [i \in 0..(n + 1) |-> IF i = 0 THEN <<>> ELSE More(r[i - 1], b, i, places)]
  <2>2. ASSUME NEW i \in 0..(n + 1), i # 0 PROVE u[i - 1] = r[i - 1]
    <3>1. i - 1 \in 0..n /\ i - 1 \in 0..(n + 1)
      BY <2>2
    <3>2. r[i - 1] = IF i - 1 = 0 THEN <<>> ELSE More(r[(i - 1) - 1], b, i - 1, places)
      BY <2>1, <3>1
    <3> QED
      BY <3>1, <3>2
  <2>3. Solves(u, n + 1)
    BY <2>2
  <2> HIDE DEF Solves, u
  <2>4. \E r2 : Solves(r2, n + 1)
    BY <2>3
  <2> QED
    BY <1>2, <2>4
<1>3. N \in P
  <2> HIDE DEF P
  <2>1. \A i \in 0..N : i \in P
    BY <1>1, <1>2, UpTo
  <2> QED
    BY <2>1
<1>4. \E r : Solves(r, N)
  BY <1>3
<1> QED
  BY <1>4 DEF Kept, More

\* A command is somewhere in a queue.
Waits(q, c) == \E i \in 1..Len(q) : q[i] = c

\* What is kept of a batch is commands, and has what is at the places that are kept.
LEMMA KeptIs ==
  ASSUME NEW b \in Seq(Command), NEW places, NEW n \in 0..Len(b)
  PROVE  /\ Kept(b, places)[n] \in Seq(Command)
         /\ \A i \in 1..n : i \in places => Waits(Kept(b, places)[n], b[i])
<1> DEFINE N == Len(b)
           k == Kept(b, places)
           P == {i \in 0..N : /\ k[i] \in Seq(Command)
                              /\ \A j \in 1..i : j \in places => Waits(k[i], b[j])}
<1>1. N \in Nat
  BY LenProperties
<1>2. k[0] = <<>> /\ \A i \in 1..N : k[i] = More(k[i - 1], b, i, places)
  <2>1. k = [i \in 0..N |-> IF i = 0 THEN <<>> ELSE More(k[i - 1], b, i, places)]
    BY <1>1, KeptDef
  <2> HIDE DEF k, N
  <2> QED
    BY <1>1, <2>1
<1>3. n \in 0..N
  OBVIOUS
<1> HIDE DEF k, N
<1>4. 0 \in P
  <2>1. k[0] \in Seq(Command) /\ 0 \in 0..N /\ ~\E j \in 1..0 : TRUE
    BY <1>1, <1>2
  <2> QED
    BY <2>1
<1>5. ASSUME NEW i \in 0..N, i < N, i \in P PROVE i + 1 \in P
  <2>1. /\ i + 1 \in 1..N /\ i + 1 \in 0..N /\ (i + 1) - 1 = i
        /\ \A j \in 1..(i + 1) : j \in 1..i \/ j = i + 1
    BY <1>1, <1>5
  <2>2. k[i + 1] = More(k[i], b, i + 1, places)
    BY <1>2, <2>1
  <2>3. k[i] \in Seq(Command) /\ \A j \in 1..i : j \in places => Waits(k[i], b[j])
    BY <1>5
  <2>4. b[i + 1] \in Command
    BY <2>1, ElementOfSeq DEF N
  <2>5. CASE i + 1 \in places
    <3>1. k[i + 1] = Append(k[i], b[i + 1])
      BY <2>2, <2>5 DEF More
    <3>2. /\ Append(k[i], b[i + 1]) \in Seq(Command)
          /\ Len(Append(k[i], b[i + 1])) = Len(k[i]) + 1
          /\ Append(k[i], b[i + 1])[Len(k[i]) + 1] = b[i + 1]
          /\ \A j \in 1..Len(k[i]) : Append(k[i], b[i + 1])[j] = k[i][j]
      BY <2>3, <2>4, AppendProperties
    <3>3. Len(k[i]) \in Nat
      BY <2>3, LenProperties
    <3>4. Waits(k[i + 1], b[i + 1])
      <4>1. Len(k[i]) + 1 \in 1..Len(k[i + 1])
        BY <3>1, <3>2, <3>3
      <4> QED
        BY <3>1, <3>2, <4>1 DEF Waits
    <3>5. ASSUME NEW j \in 1..i, j \in places PROVE Waits(k[i + 1], b[j])
      <4>1. PICK m \in 1..Len(k[i]) : k[i][m] = b[j]
        BY <2>3, <3>5 DEF Waits
      <4>2. m \in 1..Len(k[i + 1]) /\ k[i + 1][m] = b[j]
        BY <3>1, <3>2, <3>3, <4>1
      <4> QED
        BY <4>2 DEF Waits
    <3> QED
      BY <2>1, <3>1, <3>2, <3>4, <3>5
  <2>6. CASE i + 1 \notin places
    <3>1. k[i + 1] = k[i]
      BY <2>2, <2>6 DEF More
    <3> QED
      BY <2>1, <2>3, <2>6, <3>1
  <2> QED
    BY <2>5, <2>6
<1>6. n \in P
  <2> HIDE DEF P
  <2>1. \A i \in 0..N : i \in P
    BY <1>1, <1>4, <1>5, UpTo
  <2> QED
    BY <1>3, <2>1
<1> QED
  BY <1>6 DEF k

\* handleCmd keeps whatever is not a preview.
LEMMA MattersIs ==
  ASSUME NEW b \in Seq(Command)
  PROVE  /\ StillMatters(b) \in Seq(Command)
         /\ \A c : Waits(b, c) /\ ~IsFrames(c) => Waits(StillMatters(b), c)
<1> DEFINE places == {i \in DOMAIN b :
                        IsFrames(b[i]) => \A k \in (i + 1)..Len(b) : b[k].do # "preview"}
<1>1. Len(b) \in Nat /\ DOMAIN b = 1..Len(b) /\ StillMatters(b) = Kept(b, places)[Len(b)]
  BY LenProperties DEF StillMatters
<1>2. \A i \in 1..Len(b) : ~IsFrames(b[i]) => i \in places
  BY <1>1
<1> HIDE DEF places
<1>3. /\ Kept(b, places)[Len(b)] \in Seq(Command)
      /\ \A i \in 1..Len(b) : i \in places => Waits(Kept(b, places)[Len(b)], b[i])
  <2>1. Len(b) \in 0..Len(b)
    BY <1>1
  <2> QED
    BY <2>1, KeptIs
<1> QED
  BY <1>1, <1>2, <1>3 DEF Waits

\* What waits goes on waiting as more is queued,
LEMMA WaitsOn ==
  ASSUME NEW q \in Seq(Command), NEW s \in Seq(Command), NEW c, Waits(q, c)
  PROVE  Waits(q \o s, c)
<1>1. PICK i \in 1..Len(q) : q[i] = c
  BY DEF Waits
<1>2. Len(q) \in Nat /\ Len(s) \in Nat
  BY LenProperties
<1>3. Len(q \o s) = Len(q) + Len(s) /\ \A j \in 1..(Len(q) + Len(s)) : (q \o s)[j] = IF j <= Len(q) THEN q[j] ELSE s[j - Len(q)]
  BY ConcatProperties
<1>4. i \in 1..(Len(q) + Len(s)) /\ i <= Len(q)
  BY <1>2
<1> QED
  BY <1>1, <1>3, <1>4 DEF Waits

\* and as something else is run.
LEMMA WaitsAfter ==
  ASSUME NEW q \in Seq(Command), q # <<>>, NEW c, Waits(q, c), Head(q) # c
  PROVE  Waits(Tail(q), c)
<1>1. PICK i \in 1..Len(q) : q[i] = c
  BY DEF Waits
<1>2. /\ Len(q) \in Nat /\ Len(q) # 0 /\ Head(q) = q[1] /\ Len(Tail(q)) = Len(q) - 1
      /\ \A j \in 1..(Len(q) - 1) : Tail(q)[j] = q[j + 1]
  BY HeadTailProperties, EmptySeq, LenProperties
<1>3. i # 1
  BY <1>1, <1>2
<1>4. i - 1 \in 1..(Len(q) - 1) /\ (i - 1) + 1 = i
  BY <1>2, <1>3
<1> QED
  BY <1>1, <1>2, <1>4 DEF Waits

-----------------------------------------------------------------------------
(* Messages on their way.                                                    *)

\* What a sidebar is when it has read some messages.
Read(t, msgs) == After(t, msgs)[Len(msgs)]

\* The equation that defines it has a solution.
LEMMA AfterDef ==
  ASSUME NEW t, NEW msgs, Len(msgs) \in Nat
  PROVE  After(t, msgs) = [i \in 0..Len(msgs) |->
           IF i = 0 THEN t ELSE Received(After(t, msgs)[i - 1], msgs[i])]
<1> DEFINE N == Len(msgs)
           Solves(r, n) == r = [i \in 0..n |-> IF i = 0 THEN t ELSE Received(r[i - 1], msgs[i])]
           P == {n \in 0..N : \E r : Solves(r, n)}
<1>1. 0 \in P
  <2>1. Solves([i \in 0..0 |-> t], 0)
    OBVIOUS
  <2> HIDE DEF Solves
  <2>2. \E r : Solves(r, 0)
    BY <2>1
  <2> QED
    BY <2>2
<1>2. ASSUME NEW n \in 0..N, n < N, n \in P PROVE n + 1 \in P
  <2>1. PICK r : Solves(r, n)
    BY <1>2
  <2> DEFINE u == [i \in 0..(n + 1) |-> IF i = 0 THEN t ELSE Received(r[i - 1], msgs[i])]
  <2>2. ASSUME NEW i \in 0..(n + 1), i # 0 PROVE u[i - 1] = r[i - 1]
    <3>1. i - 1 \in 0..n /\ i - 1 \in 0..(n + 1)
      BY <2>2
    <3>2. r[i - 1] = IF i - 1 = 0 THEN t ELSE Received(r[(i - 1) - 1], msgs[i - 1])
      BY <2>1, <3>1
    <3> QED
      BY <3>1, <3>2
  <2>3. Solves(u, n + 1)
    BY <2>2
  <2> HIDE DEF Solves, u
  <2>4. \E r2 : Solves(r2, n + 1)
    BY <2>3
  <2> QED
    BY <1>2, <2>4
<1>3. N \in P
  <2> HIDE DEF P
  <2>1. \A i \in 0..N : i \in P
    BY <1>1, <1>2, UpTo
  <2> QED
    BY <2>1
<1>4. \E r : Solves(r, N)
  BY <1>3
<1> QED
  BY <1>4 DEF After

\* It is the sidebar to begin with, and takes one message after the other.
LEMMA AfterStep ==
  ASSUME NEW t, NEW msgs, Len(msgs) \in Nat
  PROVE  /\ After(t, msgs)[0] = t
         /\ \A i \in 1..Len(msgs) : After(t, msgs)[i] = Received(After(t, msgs)[i - 1], msgs[i])
<1> DEFINE r == After(t, msgs)
<1>1. r = [i \in 0..Len(msgs) |-> IF i = 0 THEN t ELSE Received(r[i - 1], msgs[i])]
  BY AfterDef
<1> HIDE DEF r
<1>2. r[0] = t /\ \A i \in 1..Len(msgs) : r[i] = Received(r[i - 1], msgs[i])
  BY <1>1
<1> QED
  BY <1>2 DEF r

\* Messages are read one after the other, however they were sent.
LEMMA ReadConcat ==
  ASSUME NEW t, NEW s \in Seq(Message), NEW u \in Seq(Message)
  PROVE  Read(t, s \o u) = Read(Read(t, s), u)
<1> DEFINE m == Len(s)  n == Len(u)  v == s \o u
           a == After(t, s)  b == After(a[m], u)  c == After(t, v)
           P == {i \in 0..m : c[i] = a[i]}
           Q == {i \in 0..n : c[m + i] = b[i]}
<1>1. m \in Nat /\ n \in Nat
  BY LenProperties
<1>2. /\ v \in Seq(Message) /\ Len(v) = m + n
      /\ \A i \in 1..(m + n) : v[i] = IF i <= m THEN s[i] ELSE u[i - m]
  BY ConcatProperties
<1>3. /\ a[0] = t /\ \A i \in 1..m : a[i] = Received(a[i - 1], s[i])
      /\ b[0] = a[m] /\ \A i \in 1..n : b[i] = Received(b[i - 1], u[i])
  BY <1>1, AfterStep
<1>4. c[0] = t /\ \A i \in 1..(m + n) : c[i] = Received(c[i - 1], v[i])
  <2>1. Len(v) \in Nat /\ 1..Len(v) = 1..(m + n)
    BY <1>1, <1>2
  <2> HIDE DEF v
  <2>2. c[0] = t /\ \A i \in 1..Len(v) : c[i] = Received(c[i - 1], v[i])
    BY <2>1, AfterStep
  <2> QED
    BY <2>1, <2>2
<1> HIDE DEF a, b, c, v, m, n
<1>5. c[m] = a[m]
  <2>1. 0 \in P
    BY <1>1, <1>3, <1>4
  <2>2. ASSUME NEW i \in 0..m, i < m, i \in P PROVE i + 1 \in P
    <3>1. /\ i + 1 \in 1..m /\ i + 1 \in 0..m /\ i + 1 \in 1..(m + n) /\ (i + 1) - 1 = i
          /\ i + 1 <= m
      BY <1>1, <2>2
    <3>2. c[i + 1] = Received(c[i], s[i + 1]) /\ a[i + 1] = Received(a[i], s[i + 1])
      BY <1>2, <1>3, <1>4, <3>1
    <3> QED
      BY <2>2, <3>1, <3>2
  <2> HIDE DEF P
  <2>3. \A i \in 0..m : i \in P
    BY <1>1, <2>1, <2>2, UpTo
  <2> USE DEF P
  <2> QED
    BY <1>1, <2>3
<1>6. c[m + n] = b[n]
  <2>1. 0 \in Q
    BY <1>1, <1>3, <1>5
  <2>2. ASSUME NEW i \in 0..n, i < n, i \in Q PROVE i + 1 \in Q
    <3>1. /\ i + 1 \in 1..n /\ i + 1 \in 0..n /\ m + (i + 1) \in 1..(m + n) /\ (i + 1) - 1 = i
          /\ ~(m + (i + 1) <= m) /\ (m + (i + 1)) - m = i + 1 /\ (m + (i + 1)) - 1 = m + i
      BY <1>1, <2>2
    <3>2. c[m + (i + 1)] = Received(c[m + i], u[i + 1]) /\ b[i + 1] = Received(b[i], u[i + 1])
      BY <1>2, <1>3, <1>4, <3>1
    <3> QED
      BY <2>2, <3>1, <3>2
  <2> HIDE DEF Q
  <2>3. \A i \in 0..n : i \in Q
    BY <1>1, <2>1, <2>2, UpTo
  <2> USE DEF Q
  <2> QED
    BY <1>1, <2>3
<1> QED
  BY <1>2, <1>6 DEF Read, a, b, c, v, m, n

\* Nothing, and one message.
LEMMA ReadFew == ASSUME NEW t PROVE Read(t, <<>>) = t /\ \A m : Read(t, <<m>>) = Received(t, m)
<1>1. Len(<<>>) = 0 /\ \A m : Len(<<m>>) = 1 /\ <<m>>[1] = m
  OBVIOUS
<1>2. Read(t, <<>>) = t
  <2>1. Len(<<>>) \in Nat
    OBVIOUS
  <2> QED
    BY <1>1, <2>1, AfterStep DEF Read
<1>3. ASSUME NEW m PROVE Read(t, <<m>>) = Received(t, m)
  <2> DEFINE s == <<m>>
  <2>1. Len(s) = 1 /\ s[1] = m
    OBVIOUS
  <2> HIDE DEF s
  <2>2. After(t, s)[0] = t /\ \A i \in 1..1 : After(t, s)[i] = Received(After(t, s)[i - 1], s[i])
    BY <2>1, AfterStep
  <2>3. After(t, s)[1] = Received(t, m)
    BY <2>1, <2>2
  <2> QED
    BY <2>1, <2>3 DEF Read, s
<1> QED
  BY <1>2, <1>3

\* To read one message is to be about to read the others.
LEMMA ReadOn ==
  ASSUME NEW t, NEW s \in Seq(Message), s # <<>>
  PROVE  Read(Received(t, Head(s)), Tail(s)) = Read(t, s)
<1>1. /\ Head(s) \in Message /\ Tail(s) \in Seq(Message) /\ <<Head(s)>> \o Tail(s) = s
  BY HeadTailProperties
<1>2. <<Head(s)>> \in Seq(Message)
  BY <1>1
<1>3. Read(t, <<Head(s)>> \o Tail(s)) = Read(Read(t, <<Head(s)>>), Tail(s))
  BY <1>1, <1>2, ReadConcat
<1> QED
  BY <1>1, <1>3, ReadFew

-----------------------------------------------------------------------------
(* A message.                                                                *)

\* Only frames and deltas change the cache, only the width of a surface the width.
LEMMA ReceivedIs ==
  ASSUME NEW t \in Tui, NEW m \in Message
  PROVE  /\ Received(t, m) \in Tui
         /\ Received(t, m).up = t.up /\ Received(t, m).life = t.life
         /\ Received(t, m).shrink = t.shrink
         /\ t.sel \in Window => Received(t, m).sel \in Window
         /\ Received(t, m).wide = IF m.type = "surface" THEN m.wide ELSE t.wide
         /\ m.type \in {"select", "surface", "fresh"} => Received(t, m).cache = t.cache
         /\ m.type = "frame" =>
              /\ \A w \in Window \ {m.win} : Received(t, m).cache[w] = t.cache[w]
              /\ Received(t, m).cache[m.win] # None
              /\ Received(t, m).cache[m.win].gen = m.gen
              /\ Received(t, m).cache[m.win].text = m.text
         /\ m.type = "delta" =>
              /\ \A w \in Window \ {m.win} : Received(t, m).cache[w] = t.cache[w]
              /\ Received(t, m).cache[m.win] =
                   IF Patches(t, m) THEN Patched(t.cache[m.win], m) ELSE t.cache[m.win]
<1>0. /\ t = [up |-> t.up, life |-> t.life, sel |-> t.sel, unasked |-> t.unasked, wide |-> t.wide,
              shrink |-> t.shrink, cache |-> t.cache]
      /\ t.cache \in [Window -> Cached \cup {None}]
  BY DEF Tui
<1>1. CASE m.type = "select"
  <2>1. Received(t, m) = [t EXCEPT !.sel = m.win, !.unasked = m.quiet \/ t.shrink]
    BY <1>1 DEF Received
  <2>2. m.win \in Window /\ m.quiet \in BOOLEAN /\ t.shrink \in BOOLEAN
    BY <1>1 DEF Message, Tui
  <2> QED
    BY <1>0, <1>1, <2>1, <2>2 DEF Tui
<1>2. CASE m.type = "surface"
  <2>1. Received(t, m) = [t EXCEPT !.wide = m.wide]
    BY <1>2 DEF Received
  <2>2. m.wide \in BOOLEAN
    BY <1>2 DEF Message
  <2> QED
    BY <1>0, <1>2, <2>1, <2>2 DEF Tui
<1>3. CASE m.type = "fresh"
  <2>1. Received(t, m) = t
    BY <1>3 DEF Received
  <2> QED
    BY <1>3, <2>1
<1>4. CASE m.type = "frame"
  <2> DEFINE e == IF SameContent(t.cache[m.win], m) THEN [t.cache[m.win] EXCEPT !.gen = m.gen]
                  ELSE [gen |-> m.gen, ids |-> m.ids, text |-> m.text]
  <2>1. Received(t, m) = [t EXCEPT !.cache = [t.cache EXCEPT ![m.win] = e]]
    <3>1. CASE SameContent(t.cache[m.win], m)
      <4>1. Received(t, m) = [t EXCEPT !.cache[m.win].gen = m.gen]
        BY <1>4, <3>1 DEF Received
      <4> QED
        BY <3>1, <4>1
    <3>2. CASE ~SameContent(t.cache[m.win], m)
      <4>1. Received(t, m) = [t EXCEPT !.cache[m.win] = [gen |-> m.gen, ids |-> m.ids, text |-> m.text]]
        BY <1>4, <3>2 DEF Received
      <4> QED
        BY <3>2, <4>1
    <3> QED
      BY <3>1, <3>2
  <2>2. m.win \in Window /\ m.gen \in Nat /\ m.ids \in Nat /\ m.text \in Texts
    BY <1>4 DEF Message
  <2>3. e \in Cached /\ e.gen = m.gen /\ e.text = m.text
    <3>1. CASE SameContent(t.cache[m.win], m)
      <4>1. t.cache[m.win] \in Cached /\ t.cache[m.win].text = m.text
        BY <1>0, <2>2, <3>1 DEF SameContent
      <4> QED
        BY <2>2, <3>1, <4>1 DEF Cached
    <3>2. CASE ~SameContent(t.cache[m.win], m)
      BY <2>2, <3>2 DEF Cached
    <3> QED
      BY <3>1, <3>2
  <2>4. e # None
    BY <2>3, BillboardsAssumption
  <2> HIDE DEF e
  <2>5. /\ [t.cache EXCEPT ![m.win] = e] \in [Window -> Cached \cup {None}]
        /\ [t.cache EXCEPT ![m.win] = e][m.win] = e
        /\ \A w \in Window \ {m.win} : [t.cache EXCEPT ![m.win] = e][w] = t.cache[w]
    BY <1>0, <2>2, <2>3
  <2> QED
    BY <1>0, <1>4, <2>1, <2>3, <2>4, <2>5 DEF Tui
<1>5. CASE m.type = "delta"
  <2> DEFINE e == Patched(t.cache[m.win], m)
  <2>1. Received(t, m) = IF Patches(t, m) THEN [t EXCEPT !.cache = [t.cache EXCEPT ![m.win] = e]] ELSE t
    BY <1>5 DEF Received
  <2>2. /\ m.win \in Window /\ m.gen \in Nat
        /\ \E R \in SUBSET Row : m.rows \in [R -> Glyph]
    BY <1>5 DEF Message
  <2>3. ASSUME Patches(t, m) PROVE e \in Cached
    <3>1. t.cache[m.win] \in Cached
      BY <1>0, <2>2, <2>3 DEF Patches
    <3>2. [r \in Row |-> IF r \in DOMAIN m.rows THEN m.rows[r] ELSE t.cache[m.win].text[r]] \in Texts
      BY <2>2, <3>1 DEF Cached, Texts
    <3> QED
      BY <2>2, <3>1, <3>2 DEF Patched, Cached
  <2> HIDE DEF e
  <2>4. ASSUME Patches(t, m)
        PROVE  /\ [t.cache EXCEPT ![m.win] = e] \in [Window -> Cached \cup {None}]
               /\ [t.cache EXCEPT ![m.win] = e][m.win] = e
               /\ \A w \in Window \ {m.win} : [t.cache EXCEPT ![m.win] = e][w] = t.cache[w]
    BY <1>0, <2>2, <2>3, <2>4
  <2>5. CASE Patches(t, m)
    BY <1>0, <1>5, <2>1, <2>4, <2>5 DEF Tui, e
  <2>6. CASE ~Patches(t, m)
    BY <1>5, <2>1, <2>6
  <2> QED
    BY <2>5, <2>6
<1>6. m.type \in {"select", "surface", "fresh", "frame", "delta"}
  BY DEF Message
<1> QED
  BY <1>1, <1>2, <1>3, <1>4, <1>5, <1>6

\* What has been read leaves a sidebar one.
LEMMA ReadType ==
  ASSUME NEW t \in Tui, NEW s \in Seq(Message)
  PROVE  /\ Read(t, s) \in Tui /\ Read(t, s).up = t.up
         /\ t.sel \in Window => Read(t, s).sel \in Window
<1> DEFINE n == Len(s)  a == After(t, s)
           P == {i \in 0..n : /\ a[i] \in Tui /\ a[i].up = t.up
                              /\ t.sel \in Window => a[i].sel \in Window}
<1>1. n \in Nat
  BY LenProperties
<1>2. a[0] = t /\ \A i \in 1..n : a[i] = Received(a[i - 1], s[i])
  BY <1>1, AfterStep
<1>3. \A i \in 1..n : s[i] \in Message
  BY ElementOfSeq
<1> HIDE DEF a, n
<1>4. 0 \in P
  BY <1>1, <1>2
<1>5. ASSUME NEW i \in 0..n, i < n, i \in P PROVE i + 1 \in P
  <2>1. i + 1 \in 1..n /\ i + 1 \in 0..n /\ (i + 1) - 1 = i
    BY <1>1, <1>5
  <2>2. a[i + 1] = Received(a[i], s[i + 1]) /\ s[i + 1] \in Message
    BY <1>2, <1>3, <2>1
  <2>3. a[i] \in Tui /\ a[i].up = t.up /\ (t.sel \in Window => a[i].sel \in Window)
    BY <1>5
  <2>4. /\ a[i + 1] \in Tui /\ a[i + 1].up = t.up
        /\ t.sel \in Window => a[i + 1].sel \in Window
    <3>1. PICK x \in Tui, m \in Message : x = a[i] /\ m = s[i + 1]
      BY <2>2, <2>3
    <3>2. /\ Received(x, m) \in Tui /\ Received(x, m).up = x.up
          /\ x.sel \in Window => Received(x, m).sel \in Window
      BY ReceivedIs
    <3> QED
      BY <2>2, <2>3, <3>1, <3>2
  <2> QED
    BY <2>1, <2>4
<1>6. n \in P
  <2> HIDE DEF P
  <2>1. \A i \in 0..n : i \in P
    BY <1>1, <1>4, <1>5, UpTo
  <2> QED
    BY <1>1, <2>1
<1> QED
  BY <1>6 DEF Read, a, n

\* Two sidebars with one cache and width come to have one cache and width, wherever
\* their selections are.
LEMMA ReadAlike ==
  ASSUME NEW t \in Tui, NEW u \in Tui, t.cache = u.cache, t.wide = u.wide, NEW s \in Seq(Message)
  PROVE  Read(t, s).cache = Read(u, s).cache /\ Read(t, s).wide = Read(u, s).wide
<1> DEFINE n == Len(s)  a == After(t, s)  b == After(u, s)
           P == {i \in 0..n : /\ a[i] \in Tui /\ b[i] \in Tui
                              /\ a[i].cache = b[i].cache /\ a[i].wide = b[i].wide}
<1>1. n \in Nat
  BY LenProperties
<1>2. /\ a[0] = t /\ \A i \in 1..n : a[i] = Received(a[i - 1], s[i])
      /\ b[0] = u /\ \A i \in 1..n : b[i] = Received(b[i - 1], s[i])
  BY <1>1, AfterStep
<1>3. \A i \in 1..n : s[i] \in Message
  BY ElementOfSeq
<1> HIDE DEF a, b, n
<1>4. 0 \in P
  BY <1>1, <1>2
<1>5. ASSUME NEW i \in 0..n, i < n, i \in P PROVE i + 1 \in P
  <2>1. i + 1 \in 1..n /\ i + 1 \in 0..n /\ (i + 1) - 1 = i
    BY <1>1, <1>5
  <2>2. PICK m \in Message : m = s[i + 1]
    BY <1>3, <2>1
  <2>3. PICK x \in Tui, y \in Tui : x = a[i] /\ y = b[i] /\ x.cache = y.cache /\ x.wide = y.wide
    BY <1>5
  <2>4. a[i + 1] = Received(x, m) /\ b[i + 1] = Received(y, m)
    BY <1>2, <2>1, <2>2, <2>3
  <2>5. Received(x, m) \in Tui /\ Received(y, m) \in Tui /\ Received(x, m).wide = Received(y, m).wide
    BY <2>3, ReceivedIs
  <2>6. Received(x, m).cache = Received(y, m).cache
    <3>1. Patches(x, m) <=> Patches(y, m)
      BY <2>3 DEF Patches
    <3>2. SameContent(x.cache[m.win], m) <=> SameContent(y.cache[m.win], m)
      BY <2>3
    <3>3. DOMAIN Received(x, m).cache = Window /\ DOMAIN Received(y, m).cache = Window
      BY <2>5 DEF Tui
    <3>4. x = [up |-> x.up, life |-> x.life, sel |-> x.sel, unasked |-> x.unasked, wide |-> x.wide,
               shrink |-> x.shrink, cache |-> x.cache]
          /\ y = [up |-> y.up, life |-> y.life, sel |-> y.sel, unasked |-> y.unasked, wide |-> y.wide,
               shrink |-> y.shrink, cache |-> y.cache]
      BY DEF Tui
    <3>5. CASE m.type \in {"select", "surface", "fresh"}
      BY <2>3, <3>5, ReceivedIs
    <3>6. CASE m.type = "frame"
      <4>1. CASE SameContent(x.cache[m.win], m)
        BY <2>3, <3>2, <3>4, <3>6, <4>1 DEF Received
      <4>2. CASE ~SameContent(x.cache[m.win], m)
        BY <2>3, <3>2, <3>4, <3>6, <4>2 DEF Received
      <4> QED
        BY <4>1, <4>2
    <3>7. CASE m.type = "delta"
      BY <2>3, <3>1, <3>4, <3>7 DEF Received
    <3>8. m.type \in {"select", "surface", "fresh", "frame", "delta"}
      BY DEF Message
    <3> QED
      BY <3>5, <3>6, <3>7, <3>8
  <2> QED
    BY <2>1, <2>4, <2>5, <2>6
<1>6. n \in P
  <2> HIDE DEF P
  <2>1. \A i \in 0..n : i \in P
    BY <1>1, <1>4, <1>5, UpTo
  <2> QED
    BY <1>1, <2>1
<1> QED
  BY <1>6 DEF Read, a, b, n

-----------------------------------------------------------------------------
(* The inductive invariant.                                                  *)

\* The hello of the sidebar there is has not been answered yet.
HelloWaits == Waits(batch, Hello(tui.life)) \/ Waits(cmds, Hello(tui.life))

\* A stream repeats the one of the target, and what has been shipped has a generation.
Streams ==
  /\ job # None => (job.kind = "stream" => job.win = pv.target)
  /\ pv.last # None => pv.gen # 0 /\ pv.target # None

\* Before it has said hello a sidebar knows nothing, and is sent nothing.
Unpainted ==
  tui.up # "here" => wire = <<>> /\ tui.wide = FALSE /\ \A w \in Window : tui.cache[w] = None

\* A sidebar has no generation that is to come, and if it has that of the target, then
\* what was last shipped.
Behind(t, p) ==
  \A w \in Window : t.cache[w] # None =>
    /\ t.cache[w].gen <= p.gen
    /\ p.last # None /\ w = p.target /\ t.cache[w].gen = p.gen => t.cache[w].text = p.last.text

Lineage == tui.up = "here" => Behind(Reached, pv)

\* A sidebar is about to be wide only while billboards show, and then is, unless it has
\* yet to be told what it missed.
Wide ==
  tui.up = "here" => (Reached.wide => scrub) /\ (scrub => Reached.wide \/ HelloWaits)

IInv == TypeOK /\ Streams /\ Unpainted /\ Lineage /\ Wide

-----------------------------------------------------------------------------
(* What steps have in common.                                                *)

\* The sidebar reached is a sidebar.
LEMMA ReachedType == ASSUME TypeOK PROVE Reached \in Tui /\ Reached = Read(tui, wire)
  BY ReadType DEF TypeOK, Reached, Read

\* What is sent is read last, by a sidebar that is there.
LEMMA SendsIs ==
  ASSUME TypeOK, NEW msgs \in Seq(Message), Sends(msgs), tui' = tui
  PROVE  /\ wire' \in Seq(Message)
         /\ tui.up = "here" => Reached' = Read(Reached, msgs)
         /\ tui.up # "here" => wire' = wire
<1>1. wire' = IF tui.up = "here" THEN wire \o msgs ELSE wire
  BY DEF Sends
<1>2. wire \in Seq(Message) /\ wire \o msgs \in Seq(Message)
  BY ConcatProperties DEF TypeOK
<1>3. ASSUME tui.up = "here" PROVE Reached' = Read(Reached, msgs)
  <2>1. Read(tui, wire \o msgs) = Read(Read(tui, wire), msgs)
    BY <1>2, ReadConcat
  <2>2. Reached' = Read(tui, wire \o msgs)
    BY <1>1, <1>3 DEF Reached, Read
  <2> QED
    BY <2>1, <2>2, ReachedType
<1> QED
  BY <1>1, <1>2, <1>3

\* A step that tells the same sidebar something.
LEMMA Told ==
  ASSUME IInv, TypeOK', Streams', tui' = tui, NEW msgs \in Seq(Message), Sends(msgs),
         tui.up = "here" =>
           /\ Behind(Read(Reached, msgs), pv')
           /\ Read(Reached, msgs).wide => scrub'
           /\ scrub' => Read(Reached, msgs).wide \/ HelloWaits'
  PROVE  IInv'
<1>1. /\ tui.up = "here" => Reached' = Read(Reached, msgs)
      /\ tui.up # "here" => wire' = wire
  BY SendsIs DEF IInv
<1>2. Unpainted'
  BY <1>1 DEF IInv, Unpainted
<1>3. Lineage' /\ Wide'
  BY <1>1 DEF Lineage, Wide, Behind
<1> QED
  BY <1>2, <1>3 DEF IInv

\* A step that leaves what a sidebar is to be as it is.
LEMMA Carries ==
  ASSUME IInv, TypeOK', Streams', Unpainted', scrub' = scrub,
         pv'.gen = pv.gen, pv'.last = None \/ (pv'.last = pv.last /\ pv'.target = pv.target),
         tui'.up = tui.up, HelloWaits => HelloWaits',
         tui.up = "here" => Reached'.cache = Reached.cache /\ Reached'.wide = Reached.wide
  PROVE  IInv'
<1>1. Lineage'
  BY DEF IInv, Lineage, Behind
<1>2. Wide'
  BY DEF IInv, Wide
<1> QED
  BY <1>1, <1>2 DEF IInv

\* One that does not touch the sidebar, nor what is on its way.
LEMMA Aside ==
  ASSUME IInv, TypeOK', Streams', UNCHANGED <<scrub, tui, wire>>,
         pv'.gen = pv.gen, pv'.last = None \/ (pv'.last = pv.last /\ pv'.target = pv.target),
         HelloWaits => HelloWaits'
  PROVE  IInv'
<1>1. Reached' = Reached /\ tui' = tui /\ scrub' = scrub
  BY DEF Reached
<1>2. Unpainted'
  BY DEF IInv, Unpainted
<1> QED
  BY <1>1, <1>2, Carries

\* A step of asking for a geometry sends nothing that tells of frames.
LEMMA AsksIs ==
  ASSUME TypeOK, NEW w \in Window, NEW kind \in {"start", "show", "stream", "prefetch"},
         NEW p \in Views, Asks(w, kind, p)
  PROVE  /\ pv' = p /\ job' \in Job \cup {None}
         /\ job' # None => job'.kind = kind /\ job'.win = w
         /\ \E msgs \in {<<>>, <<Fresh(w)>>} : msgs \in Seq(Message) /\ Sends(msgs)
<1>1. Asked(w, kind) \in Job
  BY DEF Asked, Job, TypeOK
<1>2. Fresh(w) \in Message
  BY DEF Fresh, Message
<1>3. <<Fresh(w)>> \in Seq(Message) /\ <<>> \in Seq(Message)
  BY <1>2
<1>4. \E msgs \in {<<>>, <<Fresh(w)>>} : Sends(msgs)
  BY DEF Asks
<1>5. pv' = p /\ job' \in {None, Asked(w, kind)}
  BY DEF Asks
<1> QED
  BY <1>1, <1>3, <1>4, <1>5 DEF Asked

\* Asking keeps the invariant, if what was last shipped is kept or forgotten.
LEMMA AsksHolds ==
  ASSUME IInv, TypeOK', NEW w \in Window, NEW kind \in {"start", "show", "stream", "prefetch"},
         NEW p \in Views, Asks(w, kind, p), tui' = tui, scrub' = scrub, HelloWaits => HelloWaits',
         p.gen = pv.gen, p.last = None \/ (p.last = pv.last /\ p.target = pv.target),
         kind = "stream" => w = p.target
  PROVE  IInv'
<1>1. TypeOK
  BY DEF IInv
<1>2. /\ pv' = p /\ job' \in Job \cup {None} /\ (job' # None => job'.kind = kind /\ job'.win = w)
      /\ \E msgs \in {<<>>, <<Fresh(w)>>} : msgs \in Seq(Message) /\ Sends(msgs)
  BY <1>1, AsksIs
<1>3. Streams'
  BY <1>2 DEF IInv, Streams
<1>4. PICK msgs \in Seq(Message) : msgs \in {<<>>, <<Fresh(w)>>} /\ Sends(msgs)
  BY <1>2
<1>5. PICK t \in Tui : t = Reached
  BY <1>1, ReachedType
<1>6. Read(t, msgs).cache = t.cache /\ Read(t, msgs).wide = t.wide
  <2>1. Fresh(w) \in Message /\ Fresh(w).type = "fresh"
    BY DEF Fresh, Message
  <2>2. Received(t, Fresh(w)).cache = t.cache /\ Received(t, Fresh(w)).wide = t.wide
    BY <2>1, ReceivedIs
  <2> QED
    BY <1>4, <2>1, <2>2, ReadFew
<1>7. ASSUME tui.up = "here"
      PROVE  /\ Behind(Read(t, msgs), pv')
             /\ Read(t, msgs).wide => scrub'
             /\ scrub' => Read(t, msgs).wide \/ HelloWaits'
  <2>1. Behind(t, pv) /\ (t.wide => scrub) /\ (scrub => t.wide \/ HelloWaits)
    BY <1>5, <1>7 DEF IInv, Lineage, Wide
  <2> QED
    BY <1>2, <1>6, <2>1 DEF Behind
<1> QED
  BY <1>3, <1>4, <1>5, <1>7, Told

-----------------------------------------------------------------------------
(* Commands.                                                                 *)

\* The type of what commands do not touch.
LEMMA RunsIs ==
  ASSUME TypeOK, NEW what, Runs(what)
  PROVE  /\ job = None /\ Head(batch) \in Command /\ Head(batch).do = what
         /\ batch' \in Seq(Command) /\ cmds' = cmds /\ screen' = screen /\ now' = now
         /\ keys' = keys /\ changes' = changes /\ late' = late /\ failed' = failed
         /\ tui'.life = tui.life /\ Head(batch) # Hello(tui.life) => (HelloWaits => HelloWaits')
<1>1. /\ job = None /\ batch # <<>> /\ Head(batch).do = what /\ batch' = Tail(batch)
      /\ cmds' = cmds /\ screen' = screen /\ now' = now
      /\ keys' = keys /\ changes' = changes /\ late' = late /\ failed' = failed
  BY DEF Runs
<1>2. batch \in Seq(Command)
  BY DEF TypeOK
<1>3. Head(batch) \in Command /\ Tail(batch) \in Seq(Command)
  BY <1>1, <1>2, HeadTailProperties
<1>4. ASSUME tui'.life = tui.life, Head(batch) # Hello(tui.life), HelloWaits PROVE HelloWaits'
  <2>1. PICK h : h = Hello(tui.life) /\ h = Hello(tui'.life)
    BY <1>4
  <2>2. Waits(batch, h) \/ Waits(cmds, h)
    BY <1>4, <2>1 DEF HelloWaits
  <2>3. CASE Waits(batch, h)
    <3>1. Waits(Tail(batch), h)
      BY <1>1, <1>2, <1>4, <2>1, <2>3, WaitsAfter
    <3> QED
      BY <1>1, <2>1, <3>1 DEF HelloWaits
  <2>4. CASE Waits(cmds, h)
    BY <1>1, <2>1, <2>4 DEF HelloWaits
  <2> QED
    BY <2>2, <2>3, <2>4
<1> QED
  BY <1>1, <1>3, <1>4

\* The types after a command.
LEMMA RunsType ==
  ASSUME TypeOK, NEW what, Runs(what),
         dock' \in Window \cup {None}, scrub' \in BOOLEAN, chosen' \in [win : Window, quiet : BOOLEAN],
         pv' \in Views, job' \in Job \cup {None}, wire' \in Seq(Message), tui' \in Tui,
         tui'.up = "here" => tui'.sel \in Window, dock' = None <=> tui'.up = "dead",
         scrub' \/ job' # None => dock' # None
  PROVE  TypeOK'
  BY RunsIs DEF TypeOK

\* A billboard is asked for, or the first one, or the window is the docked one.
LEMMA RunPreviewStep == ASSUME IInv, RunPreview PROVE IInv'
<1>1. TypeOK
  BY DEF IInv
<1>2. PICK w : w = Head(batch).win
  OBVIOUS
<1>3. /\ Runs("preview") /\ dock' = dock /\ scrub' = scrub /\ chosen' = chosen /\ tui' = tui
      /\ \/ dock # None /\ scrub /\ Asks(w, "show", pv)
         \/ dock # None /\ ~scrub /\ w # dock /\ Asks(w, "start", Reset(pv))
         \/ pv' = pv /\ job' = job /\ wire' = wire
  BY <1>2 DEF RunPreview, StartsScrub
<1>4. /\ job = None /\ Head(batch) \in Command /\ Head(batch).do = "preview"
      /\ HelloWaits => HelloWaits'
  BY <1>1, <1>3, RunsIs DEF Hello
<1>5. w \in Window
  BY <1>2, <1>4 DEF Command
<1>6. Reset(pv) \in Views /\ Reset(pv).gen = pv.gen /\ Reset(pv).last = None /\ pv \in Views
  BY <1>1 DEF TypeOK, Reset, Views, NoWarm
<1>7. CASE \/ dock # None /\ scrub /\ Asks(w, "show", pv)
           \/ dock # None /\ ~scrub /\ w # dock /\ Asks(w, "start", Reset(pv))
  <2>1. PICK kind \in {"show", "start"}, p \in Views :
          Asks(w, kind, p) /\ p.gen = pv.gen
          /\ (p.last = None \/ (p.last = pv.last /\ p.target = pv.target))
    BY <1>6, <1>7
  <2>2. /\ pv' = p /\ job' \in Job \cup {None}
        /\ \E msgs \in {<<>>, <<Fresh(w)>>} : msgs \in Seq(Message) /\ Sends(msgs)
    BY <1>1, <1>5, <2>1, AsksIs
  <2>3. wire' \in Seq(Message)
    BY <1>1, <1>3, <2>2, SendsIs
  <2>4. TypeOK'
    BY <1>1, <1>3, <1>7, <2>2, <2>3, RunsType DEF TypeOK
  <2> QED
    BY <1>3, <1>4, <1>5, <2>1, <2>4, AsksHolds
<1>8. CASE pv' = pv /\ job' = job /\ wire' = wire
  <2>1. TypeOK'
    BY <1>1, <1>3, <1>8, RunsType DEF TypeOK
  <2>2. Streams'
    BY <1>8 DEF IInv, Streams
  <2> QED
    BY <1>3, <1>4, <1>8, <2>1, <2>2, Aside
<1> QED
  BY <1>3, <1>7, <1>8

\* A frame is asked for ahead of the selection, or no longer.
LEMMA RunPrefetchStep == ASSUME IInv, RunPrefetch PROVE IInv'
<1>1. TypeOK
  BY DEF IInv
<1>2. PICK w : w = Head(batch).win
  OBVIOUS
<1>3. /\ Runs("prefetch") /\ dock' = dock /\ scrub' = scrub /\ chosen' = chosen /\ tui' = tui
      /\ \/ dock # None /\ Asks(w, "prefetch", pv)
         \/ pv' = pv /\ job' = job /\ wire' = wire
  BY <1>2 DEF RunPrefetch
<1>4. /\ job = None /\ Head(batch) \in Command /\ Head(batch).do = "prefetch"
      /\ HelloWaits => HelloWaits'
  BY <1>1, <1>3, RunsIs DEF Hello
<1>5. w \in Window /\ pv \in Views
  BY <1>1, <1>2, <1>4 DEF Command, TypeOK
<1>6. CASE dock # None /\ Asks(w, "prefetch", pv)
  <2>2. /\ pv' = pv /\ job' \in Job \cup {None}
        /\ \E msgs \in {<<>>, <<Fresh(w)>>} : msgs \in Seq(Message) /\ Sends(msgs)
    BY <1>1, <1>5, <1>6, AsksIs
  <2>3. wire' \in Seq(Message)
    BY <1>1, <1>3, <2>2, SendsIs
  <2>4. TypeOK'
    BY <1>1, <1>3, <1>5, <1>6, <2>2, <2>3, RunsType DEF TypeOK
  <2> QED
    BY <1>3, <1>4, <1>5, <1>6, <2>4, AsksHolds
<1>7. CASE pv' = pv /\ job' = job /\ wire' = wire
  <2>1. TypeOK'
    BY <1>1, <1>3, <1>7, RunsType DEF TypeOK
  <2>2. Streams'
    BY <1>7 DEF IInv, Streams
  <2> QED
    BY <1>3, <1>4, <1>7, <2>1, <2>2, Aside
<1> QED
  BY <1>3, <1>6, <1>7

\* A message alone can be sent.
LEMMA OneIs == ASSUME NEW m \in Message PROVE <<m>> \in Seq(Message)
  OBVIOUS

\* The messages of commands.
LEMMA MessagesAre ==
  /\ \A b \in BOOLEAN : Surface(b) \in Message /\ Surface(b).type = "surface" /\ Surface(b).wide = b
  /\ \A w \in Window, b \in BOOLEAN : Select(w, b) \in Message /\ Select(w, b).type = "select"
  BY DEF Surface, Select, Message

\* What the end of billboards sends is messages.
LEMMA UnzoomedType ==
  /\ Unzoomed \in Seq(Message) /\ Unzoomed \o <<>> = Unzoomed
  /\ \A w \in Window, quiet \in BOOLEAN :
       <<Select(w, quiet)>> \in Seq(Message) /\ Unzoomed \o <<Select(w, quiet)>> \in Seq(Message)
<1>1. Unzoomed \in Seq(Message)
  <2>1. Surface(FALSE) \in Message
    BY MessagesAre
  <2> QED
    BY <2>1, OneIs DEF Unzoomed
<1>2. ASSUME NEW w \in Window, NEW quiet \in BOOLEAN PROVE <<Select(w, quiet)>> \in Seq(Message)
  <2>1. Select(w, quiet) \in Message
    BY MessagesAre
  <2> QED
    BY <2>1, OneIs
<1>3. Unzoomed \o <<>> = Unzoomed
  BY <1>1, ConcatEmptySeq
<1> QED
  BY <1>1, <1>2, <1>3, ConcatProperties

\* Billboards end: the sidebar is told that it is narrow, and maybe what is selected.
LEMMA Narrows ==
  ASSUME IInv, TypeOK', pv' = pv, job' = None, tui' = tui, scrub' = FALSE,
         NEW s \in Seq(Message), s = <<>> \/ (\E w \in Window, quiet \in BOOLEAN : s = <<Select(w, quiet)>>),
         Sends(Unzoomed \o s)
  PROVE  IInv'
<1>1. TypeOK
  BY DEF IInv
<1> DEFINE m == Surface(FALSE)
<1>2. m \in Message /\ m.type = "surface" /\ m.wide = FALSE
  BY MessagesAre
<1>3. <<m>> \in Seq(Message) /\ Unzoomed = <<m>>
  BY <1>2, OneIs DEF Unzoomed
<1> HIDE DEF m
<1>4. PICK t \in Tui : t = Reached
  BY <1>1, ReachedType
<1> DEFINE u == Received(t, m)
<1>5. u \in Tui /\ u.cache = t.cache /\ u.wide = FALSE
  BY <1>2, ReceivedIs
<1>6. Read(t, <<m>> \o s) = Read(u, s)
  <2>1. Read(t, <<m>> \o s) = Read(Read(t, <<m>>), s)
    BY <1>3, ReadConcat
  <2> QED
    BY <2>1, ReadFew
<1> HIDE DEF u
<1>7. Read(u, s).cache = u.cache /\ Read(u, s).wide = u.wide
  <2>1. CASE s = <<>>
    BY <1>5, <2>1, ReadFew
  <2>2. CASE \E w \in Window, quiet \in BOOLEAN : s = <<Select(w, quiet)>>
    <3>1. PICK n \in Message : n.type = "select" /\ s = <<n>>
      BY <2>2, MessagesAre
    <3>2. Read(u, s) = Received(u, n)
      BY <3>1, ReadFew
    <3>3. Received(u, n).cache = u.cache /\ Received(u, n).wide = u.wide
      BY <1>5, <3>1, ReceivedIs
    <3> QED
      BY <3>2, <3>3
  <2> QED
    BY <2>1, <2>2
<1>8. PICK msgs \in Seq(Message) : msgs = <<m>> \o s /\ Sends(msgs)
  BY <1>3, ConcatProperties
<1>9. Streams'
  BY DEF IInv, Streams
<1>10. ASSUME tui.up = "here"
       PROVE  /\ Behind(Read(Reached, msgs), pv')
              /\ Read(Reached, msgs).wide => scrub'
              /\ scrub' => Read(Reached, msgs).wide \/ HelloWaits'
  <2>1. Behind(t, pv)
    BY <1>4, <1>10 DEF IInv, Lineage
  <2>2. Read(Reached, msgs).cache = t.cache /\ Read(Reached, msgs).wide = FALSE
    BY <1>4, <1>5, <1>6, <1>7, <1>8
  <2> QED
    BY <2>1, <2>2 DEF Behind
<1> QED
  BY <1>8, <1>9, <1>10, Told

\* The dock goes where the billboards are, and those end.
LEMMA RunCommitStep == ASSUME IInv, RunCommit PROVE IInv'
<1>1. TypeOK
  BY DEF IInv
<1>2. PICK w : w = Head(batch).win
  OBVIOUS
<1>3. /\ Runs("commit") /\ pv' = pv /\ job' = job /\ tui' = tui
      /\ \/ /\ dock # None /\ w = dock /\ Sends(Unzoomed) /\ scrub' = FALSE
            /\ dock' = dock /\ chosen' = chosen
         \/ dock # None /\ dock' = w /\ scrub' = FALSE /\ Pushes(Unzoomed, w, FALSE)
         \/ dock' = dock /\ scrub' = scrub /\ chosen' = chosen /\ wire' = wire
  BY <1>2 DEF RunCommit
<1>4. /\ job = None /\ Head(batch) \in Command /\ Head(batch).do = "commit"
      /\ HelloWaits => HelloWaits'
  BY <1>1, <1>3, RunsIs DEF Hello
<1>5. w \in Window /\ w # None
  BY <1>2, <1>4, BillboardsAssumption DEF Command
<1>6. CASE /\ dock # None /\ w = dock /\ Sends(Unzoomed) /\ scrub' = FALSE
           /\ dock' = dock /\ chosen' = chosen
  <2>1. <<>> \in Seq(Message) /\ Sends(Unzoomed \o <<>>) /\ Unzoomed \in Seq(Message)
    BY <1>6, UnzoomedType
  <2>2. wire' \in Seq(Message)
    BY <1>1, <1>3, <1>6, <2>1, SendsIs
  <2>3. TypeOK'
    BY <1>1, <1>3, <1>4, <1>6, <2>2, RunsType DEF TypeOK
  <2> QED
    BY <1>3, <1>4, <1>6, <2>1, <2>3, Narrows
<1>7. CASE dock # None /\ dock' = w /\ scrub' = FALSE /\ Pushes(Unzoomed, w, FALSE)
  <2>1. PICK s \in Seq(Message) : s = <<Select(w, FALSE)>>
    BY <1>5, UnzoomedType
  <2>2. Unzoomed \o s \in Seq(Message) /\ Sends(Unzoomed \o s) /\ chosen' = [win |-> w, quiet |-> FALSE]
    BY <1>5, <1>7, <2>1, UnzoomedType DEF Pushes
  <2>3. wire' \in Seq(Message)
    BY <1>1, <1>3, <2>2, SendsIs
  <2>4. TypeOK'
    BY <1>1, <1>3, <1>4, <1>5, <1>7, <2>2, <2>3, RunsType DEF TypeOK
  <2> QED
    BY <1>3, <1>4, <1>5, <1>7, <2>1, <2>2, <2>4, Narrows
<1>8. CASE dock' = dock /\ scrub' = scrub /\ chosen' = chosen /\ wire' = wire
  <2>1. TypeOK'
    BY <1>1, <1>3, <1>8, RunsType DEF TypeOK
  <2>2. Streams'
    BY <1>3 DEF IInv, Streams
  <2> QED
    BY <1>3, <1>4, <1>8, <2>1, <2>2, Aside
<1> QED
  BY <1>3, <1>6, <1>7, <1>8

\* A sidebar that is spawned, or killed, has nothing.
LEMMA SidebarIs ==
  ASSUME NEW up \in {"dead", "born"}, NEW life \in Nat
  PROVE  /\ Sidebar(up, life) \in Tui /\ Sidebar(up, life).up = up /\ Sidebar(up, life).life = life
         /\ Sidebar(up, life).wide = FALSE /\ \A w \in Window : Sidebar(up, life).cache[w] = None
<1> DEFINE none == [w \in Window |-> None]
<1>1. none \in [Window -> Cached \cup {None}] /\ \A w \in Window : none[w] = None
  OBVIOUS
<1> HIDE DEF none
<1>2. Sidebar(up, life) = [up |-> up, life |-> life, sel |-> None, unasked |-> FALSE, wide |-> FALSE,
                           shrink |-> FALSE, cache |-> none]
  BY DEF Sidebar, none
<1> QED
  BY <1>1, <1>2 DEF Tui

\* Where there is no sidebar that has said hello, there is nothing to keep.
LEMMA Anew ==
  ASSUME TypeOK', Streams', tui'.up # "here", wire' = <<>>, tui'.wide = FALSE,
         \A w \in Window : tui'.cache[w] = None
  PROVE  IInv'
  BY DEF IInv, Unpainted, Lineage, Wide

\* The dock opens, and a sidebar is spawned.
LEMMA OpensStep ==
  ASSUME IInv, NEW what, Runs(what), NEW w \in Window, NEW win \in Window, NEW quiet \in BOOLEAN,
         Opens(w, win, quiet), scrub' = scrub, pv' \in {pv, Reset(pv)},
         job' \in {job, Asked(w, "start")}
  PROVE  IInv'
<1>1. TypeOK /\ job = None
  BY RunsIs DEF IInv
<1>2. /\ dock' = w /\ chosen' = [win |-> win, quiet |-> quiet] /\ wire' = <<>>
      /\ tui' = Sidebar("born", tui.life + 1)
  BY DEF Opens
<1>3. tui.life + 1 \in Nat
  BY <1>1 DEF TypeOK, Tui
<1>4. /\ tui' \in Tui /\ tui'.up = "born" /\ tui'.wide = FALSE
      /\ \A x \in Window : tui'.cache[x] = None
  BY <1>2, <1>3, SidebarIs
<1>5. /\ pv' \in Views /\ pv'.target = pv.target
      /\ pv'.last # None => pv'.last = pv.last /\ pv'.gen = pv.gen
  <2>1. Reset(pv) \in Views /\ Reset(pv).last = None /\ Reset(pv).target = pv.target
    BY <1>1 DEF TypeOK, Reset, Views, NoWarm
  <2>2. CASE pv' = pv
    BY <1>1, <2>2 DEF TypeOK
  <2>3. CASE pv' = Reset(pv)
    BY <2>1, <2>3
  <2> QED
    BY <2>2, <2>3
<1>6. job' \in Job \cup {None} /\ (job' # None => job'.kind = "start")
  <2>1. Asked(w, "start") \in Job /\ Asked(w, "start").kind = "start"
    BY <1>1 DEF Asked, Job, TypeOK
  <2> QED
    BY <1>1, <2>1
<1>7. TypeOK'
  <2>1. w # None /\ <<>> \in Seq(Message) /\ chosen' \in [win : Window, quiet : BOOLEAN]
    BY <1>2, BillboardsAssumption
  <2> QED
    BY <1>1, <1>2, <1>4, <1>5, <1>6, <2>1, RunsType DEF TypeOK
<1>8. Streams'
  BY <1>5, <1>6 DEF IInv, Streams
<1> QED
  BY <1>2, <1>4, <1>7, <1>8, Anew

\* The dock closes, and its sidebar is killed.
LEMMA ClosesStep == ASSUME IInv, NEW what, Runs(what), Closes PROVE IInv'
<1>1. TypeOK /\ job = None
  BY RunsIs DEF IInv
<1>2. /\ dock' = None /\ scrub' = FALSE /\ chosen' = chosen /\ job' = None /\ wire' = <<>>
      /\ pv' = [Reset(pv) EXCEPT !.target = None] /\ tui' = Sidebar("dead", tui.life)
  BY <1>1 DEF Closes
<1>3. tui.life \in Nat
  BY <1>1 DEF TypeOK, Tui
<1>4. /\ tui' \in Tui /\ tui'.up = "dead" /\ tui'.wide = FALSE
      /\ \A x \in Window : tui'.cache[x] = None
  BY <1>2, <1>3, SidebarIs
<1>5. pv' \in Views /\ pv'.last = None
  <2>1. Reset(pv) \in Views /\ Reset(pv).last = None
    BY <1>1 DEF TypeOK, Reset, Views, NoWarm
  <2> QED
    BY <1>2, <2>1 DEF Views
<1>6. TypeOK'
  <2>1. <<>> \in Seq(Message) /\ chosen' \in [win : Window, quiet : BOOLEAN]
    BY <1>1, <1>2 DEF TypeOK
  <2> QED
    BY <1>1, <1>2, <1>4, <1>5, <2>1, RunsType
<1>7. Streams'
  BY <1>2, <1>5 DEF Streams
<1> QED
  BY <1>2, <1>4, <1>6, <1>7, Anew

\* A command finds nothing to do.
LEMMA NothingStep ==
  ASSUME IInv, NEW what, Runs(what), what # "hello", Nothing PROVE IInv'
<1>1. TypeOK
  BY DEF IInv
<1>2. /\ dock' = dock /\ scrub' = scrub /\ chosen' = chosen /\ pv' = pv /\ job' = job
      /\ wire' = wire /\ tui' = tui
  BY DEF Nothing
<1>3. HelloWaits => HelloWaits'
  BY <1>1, <1>2, RunsIs DEF Hello
<1>4. TypeOK'
  BY <1>1, <1>2, RunsType DEF TypeOK
<1>5. Streams'
  BY <1>2 DEF IInv, Streams
<1> QED
  BY <1>2, <1>3, <1>4, <1>5, Aside

\* close: billboards are dismissed first, then the dock.
LEMMA RunCloseStep == ASSUME IInv, RunClose PROVE IInv'
<1>1. TypeOK /\ Runs("close")
  BY DEF IInv, RunClose
<1>2. CASE /\ dock # None /\ scrub' = FALSE /\ Pushes(Unzoomed, dock, FALSE)
           /\ UNCHANGED <<dock, pv, job, tui>>
  <2>1. PICK w \in Window : w = dock
    BY <1>1, <1>2 DEF TypeOK
  <2>2. PICK s \in Seq(Message) : s = <<Select(w, FALSE)>>
    BY UnzoomedType
  <2>3. Unzoomed \o s \in Seq(Message) /\ Sends(Unzoomed \o s) /\ chosen' = [win |-> w, quiet |-> FALSE]
    BY <1>2, <2>1, <2>2, UnzoomedType DEF Pushes
  <2>4. wire' \in Seq(Message) /\ job = None
    BY <1>1, <1>2, <2>3, SendsIs, RunsIs
  <2>5. TypeOK'
    BY <1>1, <1>2, <2>3, <2>4, RunsType DEF TypeOK
  <2> QED
    BY <1>2, <2>2, <2>3, <2>4, <2>5, Narrows
<1>3. CASE Closes
  BY <1>1, <1>3, ClosesStep
<1>4. CASE Nothing
  BY <1>1, <1>4, NothingStep
<1> QED
  BY <1>2, <1>3, <1>4 DEF RunClose

\* toggle: the dock opens or closes, or the sidebar is given the keyboard.
LEMMA TogglesStep ==
  ASSUME IInv, NEW what, Runs(what), what # "hello", Toggles PROVE IInv'
<1>1. CASE \E w \in Window : Opens(w, w, FALSE) /\ UNCHANGED <<scrub, pv, job>>
  BY <1>1, OpensStep
<1>2. CASE Closes
  BY <1>2, ClosesStep
<1>3. CASE Nothing
  BY <1>3, NothingStep
<1> QED
  BY <1>1, <1>2, <1>3 DEF Toggles

\* browse: the dock opens if need be, and the first billboard is asked for.
LEMMA RunBrowseStep == ASSUME IInv, RunBrowse PROVE IInv'
<1>1. TypeOK /\ Runs("browse") /\ scrub' = scrub
  BY DEF IInv, RunBrowse
<1>2. CASE \E w \in Window : /\ Opens(w, w, FALSE)
                             /\ pv' = Reset(pv) /\ job' = Asked(w, "start")
  BY <1>1, <1>2, OpensStep
<1>3. CASE /\ dock # None /\ StartsScrub(dock) /\ UNCHANGED <<dock, chosen, tui>>
  <2>1. PICK w \in Window : w = dock
    BY <1>1, <1>3 DEF TypeOK
  <2>2. Asks(w, "start", Reset(pv))
    BY <1>3, <2>1 DEF StartsScrub
  <2>3. Reset(pv) \in Views /\ Reset(pv).gen = pv.gen /\ Reset(pv).last = None
    BY <1>1 DEF TypeOK, Reset, Views, NoWarm
  <2>4. /\ pv' = Reset(pv) /\ job' \in Job \cup {None}
        /\ \E msgs \in {<<>>, <<Fresh(w)>>} : msgs \in Seq(Message) /\ Sends(msgs)
    BY <1>1, <2>2, <2>3, AsksIs
  <2>5. wire' \in Seq(Message)
    BY <1>1, <1>3, <2>4, SendsIs
  <2>6. TypeOK'
    BY <1>1, <1>3, <2>3, <2>4, <2>5, RunsType DEF TypeOK
  <2>7. HelloWaits => HelloWaits'
    BY <1>1, <1>3, RunsIs DEF Hello
  <2> QED
    BY <1>1, <1>3, <2>2, <2>3, <2>6, <2>7, AsksHolds
<1>4. CASE Nothing
  BY <1>1, <1>4, NothingStep
<1> QED
  BY <1>2, <1>3, <1>4 DEF RunBrowse

\* agents: an agent is offered, by a sidebar that may have to be spawned.
LEMMA RunAgentsStep == ASSUME IInv, RunAgents PROVE IInv'
<1>1. TypeOK /\ Runs("agents")
  BY DEF IInv, RunAgents
<1>2. CASE \E w, agent \in Window : Opens(w, agent, TRUE) /\ UNCHANGED <<scrub, pv, job>>
  BY <1>1, <1>2, OpensStep
<1>3. CASE \E agent \in Window : Pushes(<<>>, agent, TRUE) /\ UNCHANGED <<dock, scrub, pv, job, tui>>
  <2>1. PICK w \in Window : Pushes(<<>>, w, TRUE) /\ UNCHANGED <<dock, scrub, pv, job, tui>>
    BY <1>3
  <2>2. PICK m \in Message : m = Select(w, TRUE) /\ m.type = "select"
    BY MessagesAre
  <2>3. <<m>> \in Seq(Message) /\ <<>> \o <<m>> = <<m>>
    BY OneIs, ConcatEmptySeq
  <2>4. PICK msgs \in Seq(Message) : msgs = <<m>>
    BY <2>3
  <2>5. Sends(msgs) /\ chosen' = [win |-> w, quiet |-> TRUE]
    BY <2>1, <2>2, <2>3, <2>4 DEF Pushes
  <2>6. wire' \in Seq(Message)
    BY <1>1, <2>1, <2>5, SendsIs
  <2>7. TypeOK'
    BY <1>1, <2>1, <2>5, <2>6, RunsType DEF TypeOK
  <2>8. HelloWaits => HelloWaits'
    BY <1>1, <2>1, RunsIs DEF Hello
  <2>9. PICK t \in Tui : t = Reached
    BY <1>1, ReachedType
  <2>10. Read(t, msgs).cache = t.cache /\ Read(t, msgs).wide = t.wide
    <3>1. Read(t, msgs) = Received(t, m)
      BY <2>4, ReadFew
    <3>2. Received(t, m).cache = t.cache /\ Received(t, m).wide = t.wide
      BY <2>2, ReceivedIs
    <3> QED
      BY <3>1, <3>2
  <2>11. Streams'
    BY <2>1 DEF IInv, Streams
  <2>12. ASSUME tui.up = "here"
         PROVE  /\ Behind(Read(Reached, msgs), pv')
                /\ Read(Reached, msgs).wide => scrub'
                /\ scrub' => Read(Reached, msgs).wide \/ HelloWaits'
    <3>1. Behind(t, pv) /\ (t.wide => scrub) /\ (scrub => t.wide \/ HelloWaits)
      BY <2>9, <2>12 DEF IInv, Lineage, Wide
    <3> QED
      BY <2>1, <2>8, <2>9, <2>10, <3>1 DEF Behind
  <2> QED
    BY <2>1, <2>5, <2>7, <2>11, <2>12, Told
<1>4. CASE Toggles
  BY <1>1, <1>4, TogglesStep
<1> QED
  BY <1>2, <1>3, <1>4 DEF RunAgents

\* What is shipped has the types of a frame.
LEMMA FrameIs ==
  ASSUME NEW w \in Window, NEW gen \in Nat, NEW j, j.ids \in Nat, j.text \in Texts
  PROVE  /\ Frame(w, gen, j) \in Message /\ Frame(w, gen, j).type = "frame"
         /\ Frame(w, gen, j).win = w /\ Frame(w, gen, j).gen = gen /\ Frame(w, gen, j).text = j.text
  BY DEF Frame, Message

\* hello-list: a sidebar is told of the billboard, and of its width.
LEMMA RunHelloStep == ASSUME IInv, RunHello PROVE IInv'
<1>1. TypeOK /\ Streams
  BY DEF IInv
<1>2. /\ Runs("hello") /\ dock' = dock /\ scrub' = scrub /\ chosen' = chosen /\ pv' = pv
      /\ job' = job /\ tui' = tui
  BY DEF RunHello
<1>3. /\ job = None /\ Head(batch) \in Command /\ Head(batch).do = "hello"
      /\ Head(batch) # Hello(tui.life) => (HelloWaits => HelloWaits')
  BY <1>1, <1>2, RunsIs
<1>4. Streams'
  BY <1>2 DEF IInv, Streams
<1>5. CASE dock # None /\ tui.up = "here" /\ Head(batch).by = tui.life
  <2> DEFINE f == IF scrub /\ pv.last # None THEN <<Frame(pv.target, pv.gen, pv.last)>> ELSE <<>>
             h == IF scrub THEN <<Surface(TRUE)>> ELSE <<>>
             m == Select(chosen.win, chosen.quiet)
  <2>1. wire' = wire \o HelloReplay(f)
    BY <1>5 DEF RunHello
  <2>2. m \in Message /\ m.type = "select" /\ <<m>> \in Seq(Message)
    <3>1. chosen.win \in Window /\ chosen.quiet \in BOOLEAN
      BY <1>1 DEF TypeOK
    <3>2. m \in Message /\ m.type = "select"
      BY <3>1, MessagesAre
    <3> QED
      BY <3>2, OneIs
  <2>3. /\ h \in Seq(Message)
        /\ \A t \in Tui : Read(t, h) \in Tui /\ Read(t, h).cache = t.cache
        /\ \A t \in Tui : Read(t, h).wide = IF scrub THEN TRUE ELSE t.wide
    <3> DEFINE n == Surface(TRUE)
    <3>1. n \in Message /\ n.type = "surface" /\ n.wide = TRUE
      BY MessagesAre
    <3>2. <<n>> \in Seq(Message)
      BY <3>1, OneIs
    <3>3. h = IF scrub THEN <<n>> ELSE <<>>
      OBVIOUS
    <3> HIDE DEF n, h
    <3>4. h \in Seq(Message)
      BY <3>2, <3>3
    <3>5. ASSUME NEW t \in Tui
          PROVE  Read(t, h) \in Tui /\ Read(t, h).cache = t.cache
                 /\ Read(t, h).wide = IF scrub THEN TRUE ELSE t.wide
      <4>1. Received(t, n) \in Tui /\ Received(t, n).cache = t.cache /\ Received(t, n).wide = TRUE
        BY <3>1, ReceivedIs
      <4>2. CASE scrub
        <5>1. Read(t, h) = Received(t, n)
          BY <3>3, <4>2, ReadFew
        <5> QED
          BY <4>1, <4>2, <5>1
      <4>3. CASE ~scrub
        <5>1. Read(t, h) = t
          BY <3>3, <4>3, ReadFew
        <5> QED
          BY <4>3, <5>1
      <4> QED
        BY <4>2, <4>3
    <3> QED
      BY <3>4, <3>5
  <2>4. /\ f \in Seq(Message)
        /\ \A t \in Tui : Read(t, f).wide = t.wide /\ (Behind(t, pv) => Behind(Read(t, f), pv))
    <3>1. CASE scrub /\ pv.last # None
      <4> DEFINE w == pv.target  n == Frame(pv.target, pv.gen, pv.last)
      <4>1. /\ w \in Window /\ pv.gen \in Nat /\ pv.last.ids \in Nat /\ pv.last.text \in Texts
        BY <1>1, <3>1 DEF TypeOK, Views, Memory, Streams
      <4>2. n \in Message /\ n.type = "frame" /\ n.win = w /\ n.gen = pv.gen /\ n.text = pv.last.text
        BY <4>1, FrameIs
      <4>3. <<n>> \in Seq(Message) /\ f = <<n>>
        BY <3>1, <4>2, OneIs
      <4> HIDE DEF n, w, f
      <4>4. ASSUME NEW t \in Tui
            PROVE  Read(t, f).wide = t.wide /\ (Behind(t, pv) => Behind(Read(t, f), pv))
        <5>1. Read(t, f) = Received(t, n)
          BY <4>3, ReadFew
        <5>2. /\ Received(t, n).wide = t.wide
              /\ \A x \in Window \ {w} : Received(t, n).cache[x] = t.cache[x]
              /\ Received(t, n).cache[w].gen = pv.gen
              /\ Received(t, n).cache[w].text = pv.last.text
          BY <4>2, ReceivedIs
        <5>3. Behind(t, pv) => Behind(Received(t, n), pv)
          BY <4>1, <5>2 DEF Behind
        <5> QED
          BY <5>1, <5>2, <5>3
      <4> QED
        BY <4>3, <4>4
    <3>2. CASE ~(scrub /\ pv.last # None)
      <4>1. f = <<>>
        BY <3>2
      <4> HIDE DEF f
      <4>2. \A t \in Tui : Read(t, f) = t
        BY <4>1, ReadFew
      <4> QED
        BY <4>1, <4>2
    <3> QED
      BY <3>1, <3>2
  <2>5. wire' = wire \o ((h \o <<m>>) \o f)
    BY <2>1 DEF HelloReplay
  <2> HIDE DEF f, h, m
  <2>6. PICK a \in Seq(Message), msgs \in Seq(Message) : a = h \o <<m>> /\ msgs = a \o f
    BY <2>2, <2>3, <2>4, ConcatProperties
  <2>7. Sends(msgs)
    BY <1>5, <2>5, <2>6 DEF Sends
  <2>8. PICK t \in Tui : t = Reached
    BY <1>1, ReachedType
  <2>9. PICK u \in Tui : u = Received(Read(t, h), m) /\ u.cache = t.cache /\ u.wide = IF scrub THEN TRUE ELSE t.wide
    <3>1. PICK v \in Tui : v = Read(t, h) /\ v.cache = t.cache /\ v.wide = IF scrub THEN TRUE ELSE t.wide
      BY <2>3
    <3>2. Received(v, m) \in Tui /\ Received(v, m).cache = v.cache /\ Received(v, m).wide = v.wide
      BY <2>2, ReceivedIs
    <3> QED
      BY <3>1, <3>2
  <2>10. Read(t, msgs) = Read(u, f)
    <3>1. Read(t, a \o f) = Read(Read(t, a), f)
      BY <2>4, <2>6, ReadConcat
    <3>2. Read(t, h \o <<m>>) = Read(Read(t, h), <<m>>)
      BY <2>2, <2>3, ReadConcat
    <3>3. Read(Read(t, h), <<m>>) = Received(Read(t, h), m)
      BY ReadFew
    <3> QED
      BY <2>6, <2>9, <3>1, <3>2, <3>3
  <2>11. Behind(t, pv) /\ (t.wide => scrub)
    BY <1>5, <2>8 DEF IInv, Lineage, Wide
  <2>12. Behind(Read(t, msgs), pv) /\ (Read(t, msgs).wide <=> scrub)
    <3>1. Behind(u, pv)
      BY <2>9, <2>11 DEF Behind
    <3>2. Behind(Read(u, f), pv) /\ Read(u, f).wide = u.wide
      BY <2>4, <3>1
    <3>3. u.wide <=> scrub
      BY <2>9, <2>11
    <3> QED
      BY <2>10, <3>1, <3>2, <3>3
  <2>13. wire' \in Seq(Message)
    BY <1>1, <1>2, <2>7, SendsIs
  <2>14. TypeOK'
    BY <1>1, <1>2, <2>13, RunsType DEF TypeOK
  <2> QED
    BY <1>2, <1>4, <2>7, <2>8, <2>12, <2>14, Told
<1>6. CASE ~(dock # None /\ tui.up = "here" /\ Head(batch).by = tui.life)
  <2>1. wire' = wire
    BY <1>6 DEF RunHello
  <2>2. TypeOK'
    BY <1>1, <1>2, <2>1, RunsType DEF TypeOK
  <2>3. CASE tui.up = "here"
    <3>1. Head(batch) # Hello(tui.life)
      BY <1>1, <1>6, <2>3 DEF TypeOK, Hello
    <3> QED
      BY <1>2, <1>3, <1>4, <2>1, <2>2, <3>1, Aside
  <2>4. CASE tui.up # "here"
    BY <1>1, <1>2, <1>4, <2>1, <2>2, <2>4, Anew DEF IInv, Unpainted
  <2> QED
    BY <2>3, <2>4
<1> QED
  BY <1>5, <1>6

\* Whatever command is next.
LEMMA RunCmdStep == ASSUME IInv, RunCmd PROVE IInv'
<1>1. CASE RunToggle
  BY <1>1, TogglesStep DEF RunToggle
<1> QED
  BY <1>1, RunPreviewStep, RunPrefetchStep, RunCommitStep, RunCloseStep, RunBrowseStep, RunAgentsStep,
     RunHelloStep DEF RunCmd

-----------------------------------------------------------------------------
(* The rest of the daemon.                                                   *)

\* handleCmd: the hello is among what still matters.
LEMMA DrainStep == ASSUME IInv, Drain PROVE IInv'
<1>1. TypeOK
  BY DEF IInv
<1>2. /\ batch = <<>> /\ batch' = StillMatters(cmds) /\ cmds' = <<>>
      /\ UNCHANGED <<screen, now, dock, scrub, chosen, pv, job, wire, tui, keys, changes, late, failed>>
  BY DEF Drain
<1>3. cmds \in Seq(Command) /\ <<>> \in Seq(Command)
  BY <1>1 DEF TypeOK
<1>4. batch' \in Seq(Command)
  BY <1>2, <1>3, MattersIs
<1>5. HelloWaits => HelloWaits'
  <2>1. PICK h : h = Hello(tui.life) /\ h = Hello(tui'.life)
    BY <1>2
  <2>2. ~IsFrames(h) /\ ~Waits(<<>>, h)
    BY <2>1 DEF IsFrames, Hello, Waits
  <2>3. Waits(cmds, h) => Waits(StillMatters(cmds), h)
    BY <1>3, <2>2, MattersIs
  <2> QED
    BY <1>2, <2>1, <2>2, <2>3 DEF HelloWaits
<1>6. TypeOK'
  BY <1>1, <1>2, <1>3, <1>4 DEF TypeOK
<1>7. Streams'
  BY <1>2 DEF IInv, Streams
<1> QED
  BY <1>2, <1>5, <1>6, <1>7, Aside

\* The panes are captured, or one of them is gone.
LEMMA CapturesStep == ASSUME IInv, Captures PROVE IInv'
<1>1. TypeOK
  BY DEF IInv
<1>2. /\ job # None
      /\ job' = IF job.ids = screen[job.win].ids
                THEN [job EXCEPT !.text = screen[job.win].text] ELSE None
      /\ failed' = (failed \/ job' = None)
      /\ UNCHANGED <<screen, now, dock, scrub, chosen, pv, batch, cmds, wire, tui, keys, changes, late>>
  BY DEF Captures
<1>3. PICK j \in Job : j = job
  BY <1>1, <1>2 DEF TypeOK
<1>4. screen[j.win].text \in Texts
  BY <1>1 DEF TypeOK, Job
<1>5. /\ [j EXCEPT !.text = screen[j.win].text] \in Job
      /\ [j EXCEPT !.text = screen[j.win].text].kind = j.kind
      /\ [j EXCEPT !.text = screen[j.win].text].win = j.win
  BY <1>4 DEF Job
<1>6. job' \in Job \cup {None} /\ (job' # None => job'.kind = job.kind /\ job'.win = job.win)
  BY <1>2, <1>3, <1>5
<1>7. TypeOK'
  <2>1. failed' \in BOOLEAN /\ dock' # None
    BY <1>1, <1>2 DEF TypeOK
  <2> QED
    BY <1>1, <1>2, <1>6, <2>1 DEF TypeOK
<1>8. Streams'
  BY <1>2, <1>6 DEF IInv, Streams
<1>9. HelloWaits => HelloWaits'
  BY <1>2 DEF HelloWaits
<1> QED
  BY <1>2, <1>7, <1>8, <1>9, Aside

\* The ticker asks for the target again.
LEMMA TickStep == ASSUME IInv, Tick PROVE IInv'
<1>1. TypeOK
  BY DEF IInv
<1>2. /\ job = None /\ scrub /\ pv.target # None /\ Asks(pv.target, "stream", pv)
      /\ UNCHANGED <<screen, now, dock, scrub, chosen, batch, cmds, tui, keys, changes, late, failed>>
  BY DEF Tick
<1>3. pv \in Views
  BY <1>1 DEF TypeOK
<1>4. PICK w \in Window : w = pv.target
  BY <1>2, <1>3 DEF Views
<1>5. /\ pv' = pv /\ job' \in Job \cup {None}
      /\ \E msgs \in {<<>>, <<Fresh(w)>>} : msgs \in Seq(Message) /\ Sends(msgs)
  BY <1>1, <1>2, <1>3, <1>4, AsksIs
<1>6. wire' \in Seq(Message)
  BY <1>1, <1>2, <1>5, SendsIs
<1>7. TypeOK'
  BY <1>1, <1>2, <1>5, <1>6 DEF TypeOK
<1>8. HelloWaits => HelloWaits'
  BY <1>2 DEF HelloWaits
<1> QED
  BY <1>2, <1>3, <1>4, <1>7, <1>8, AsksHolds

\* A delta has the types of one, and mends what it was made from.
LEMMA DeltaIs ==
  ASSUME NEW w \in Window, NEW base \in Nat, NEW j, j.ids \in Nat, j.text \in Texts,
         NEW l, l.text \in Texts
  PROVE  /\ Delta(w, base, j, l) \in Message /\ Delta(w, base, j, l).type = "delta"
         /\ Delta(w, base, j, l).win = w /\ Delta(w, base, j, l).base = base
         /\ \A c : c.text = l.text =>
              /\ Patched(c, Delta(w, base, j, l)).gen = base + 1
              /\ Patched(c, Delta(w, base, j, l)).text = j.text
<1> DEFINE R == {r \in Row : j.text[r] # l.text[r]}
           rows == [r \in R |-> j.text[r]]
<1>1. rows \in [R -> Glyph] /\ R \in SUBSET Row /\ DOMAIN rows = R
  BY DEF Texts
<1>2. \A r \in R : rows[r] = j.text[r]
  OBVIOUS
<1>3. \A r \in Row : r \notin R => l.text[r] = j.text[r]
  OBVIOUS
<1>4. Delta(w, base, j, l) = [type |-> "delta", win |-> w, base |-> base, gen |-> base + 1,
                              ids |-> j.ids, rows |-> rows]
  BY DEF Delta
<1> HIDE DEF rows, R
<1>5. rows \in UNION {[S -> Glyph] : S \in SUBSET Row}
  BY <1>1
<1>6. Delta(w, base, j, l) \in Message
  BY <1>4, <1>5 DEF Message
<1>7. ASSUME NEW c, c.text = l.text
      PROVE  /\ Patched(c, Delta(w, base, j, l)).gen = base + 1
             /\ Patched(c, Delta(w, base, j, l)).text = j.text
  <2>1. [r \in Row |-> IF r \in R THEN rows[r] ELSE l.text[r]] = j.text
    BY <1>2, <1>3 DEF Texts
  <2> QED
    BY <1>1, <1>4, <1>7, <2>1 DEF Patched
<1> QED
  BY <1>4, <1>6, <1>7

\* The first half of a frame that is shipped: nothing new, the rows that changed, or all of it.
Body(j, p) ==
  IF j.kind = "stream" /\ p.last # None /\ p.last.ids = j.ids
  THEN IF p.last.text = j.text THEN <<>> ELSE <<Delta(j.win, p.gen, j, p.last)>>
  ELSE <<Frame(j.win, p.gen + 1, j)>>

\* Whichever it is, a sidebar that was behind the last frame is behind this one.
LEMMA BodyIs ==
  ASSUME NEW p \in Views, NEW j \in Job, j.text \in Texts, NEW f, f = Body(j, p),
         j.kind = "stream" => j.win = p.target,
         NEW q, q.last # None, q.last.text = j.text, q.target = j.win,
         q.gen = IF f = <<>> THEN p.gen ELSE p.gen + 1
  PROVE  /\ f \in Seq(Message)
         /\ \A t \in Tui : /\ Read(t, f).wide = t.wide
                           /\ Behind(t, p) => Behind(Read(t, f), q)
<1>1. j.win \in Window /\ j.ids \in Nat /\ p.gen \in Nat /\ p.gen + 1 \in Nat
  BY DEF Job, Views
<1>2. \A t \in Tui, w \in Window : t.cache[w] # None => t.cache[w].gen \in Nat
  BY DEF Tui, Cached
<1>3. CASE /\ j.kind = "stream" /\ p.last # None /\ p.last.text = j.text /\ f = <<>>
  <2>1. \A t \in Tui : Read(t, f) = t
    BY <1>3, ReadFew
  <2>2. \A t \in Tui : Behind(t, p) => Behind(t, q)
    BY <1>3 DEF Behind
  <2>3. f \in Seq(Message)
    BY <1>3
  <2> QED
    BY <2>1, <2>2, <2>3
<1>4. CASE /\ j.kind = "stream" /\ p.last # None /\ f = <<Delta(j.win, p.gen, j, p.last)>>
  <2>1. PICK m : m = Delta(j.win, p.gen, j, p.last)
    OBVIOUS
  <2>2. p.last.text \in Texts
    BY <1>4 DEF Views, Memory
  <2>3. /\ m \in Message /\ m.type = "delta" /\ m.win = j.win /\ m.base = p.gen
        /\ \A c : c.text = p.last.text => Patched(c, m).gen = p.gen + 1 /\ Patched(c, m).text = j.text
    BY <1>1, <2>1, <2>2, DeltaIs
  <2>4. f \in Seq(Message) /\ f = <<m>>
    BY <1>4, <2>1, <2>3, OneIs
  <2>5. q.gen = p.gen + 1
    BY <2>4
  <2>6. ASSUME NEW t \in Tui
        PROVE  Read(t, f).wide = t.wide /\ (Behind(t, p) => Behind(Read(t, f), q))
    <3>1. Read(t, f) = Received(t, m)
      BY <2>4, ReadFew
    <3>2. /\ Received(t, m).wide = t.wide
          /\ \A w \in Window \ {j.win} : Received(t, m).cache[w] = t.cache[w]
          /\ Received(t, m).cache[j.win] =
               IF Patches(t, m) THEN Patched(t.cache[j.win], m) ELSE t.cache[j.win]
      BY <2>3, ReceivedIs
    <3>3. ASSUME Behind(t, p) PROVE Behind(Received(t, m), q)
      <4>1. \A w \in Window : t.cache[w] # None => t.cache[w].gen <= p.gen
        BY <3>3 DEF Behind
      <4>2. Patches(t, m) => t.cache[j.win].text = p.last.text
        BY <1>1, <1>4, <2>3, <3>3 DEF Behind, Patches
      <4>3. Patches(t, m) => /\ Received(t, m).cache[j.win].gen = p.gen + 1
                             /\ Received(t, m).cache[j.win].text = j.text
        BY <2>3, <3>2, <4>2
      <4>4. ASSUME NEW w \in Window, Received(t, m).cache[w] # None
            PROVE  /\ Received(t, m).cache[w].gen <= q.gen
                   /\ w = q.target /\ Received(t, m).cache[w].gen = q.gen
                        => Received(t, m).cache[w].text = q.last.text
        <5>1. CASE w = j.win /\ Patches(t, m)
          BY <1>1, <2>5, <4>3, <5>1
        <5>2. CASE ~(w = j.win /\ Patches(t, m))
          <6>1. Received(t, m).cache[w] = t.cache[w]
            BY <3>2, <5>2
          <6>2. PICK g \in Nat : g = t.cache[w].gen
            BY <1>2, <4>4, <6>1
          <6>3. g <= p.gen
            BY <4>1, <4>4, <6>1, <6>2
          <6> QED
            BY <1>1, <2>5, <6>1, <6>2, <6>3
        <5> QED
          BY <5>1, <5>2
      <4> QED
        BY <4>4 DEF Behind
    <3> QED
      BY <3>1, <3>2, <3>3
  <2> QED
    BY <2>4, <2>6
<1>5. CASE f = <<Frame(j.win, p.gen + 1, j)>>
  <2>1. PICK m : m = Frame(j.win, p.gen + 1, j)
    OBVIOUS
  <2>2. m \in Message /\ m.type = "frame" /\ m.win = j.win /\ m.gen = p.gen + 1 /\ m.text = j.text
    BY <1>1, <2>1, FrameIs
  <2>3. f \in Seq(Message) /\ f = <<m>>
    BY <1>5, <2>1, <2>2, OneIs
  <2>4. q.gen = p.gen + 1
    BY <2>3
  <2>5. ASSUME NEW t \in Tui
        PROVE  Read(t, f).wide = t.wide /\ (Behind(t, p) => Behind(Read(t, f), q))
    <3>1. Read(t, f) = Received(t, m)
      BY <2>3, ReadFew
    <3>2. /\ Received(t, m).wide = t.wide
          /\ \A w \in Window \ {j.win} : Received(t, m).cache[w] = t.cache[w]
          /\ Received(t, m).cache[j.win].gen = p.gen + 1
          /\ Received(t, m).cache[j.win].text = j.text
      BY <2>2, ReceivedIs
    <3>3. ASSUME Behind(t, p) PROVE Behind(Received(t, m), q)
      <4>1. ASSUME NEW w \in Window, Received(t, m).cache[w] # None
            PROVE  /\ Received(t, m).cache[w].gen <= q.gen
                   /\ w = q.target /\ Received(t, m).cache[w].gen = q.gen
                        => Received(t, m).cache[w].text = q.last.text
        <5>1. CASE w = j.win
          BY <1>1, <2>4, <3>2, <5>1
        <5>2. CASE w # j.win
          <6>1. Received(t, m).cache[w] = t.cache[w]
            BY <3>2, <5>2
          <6>2. t.cache[w].gen \in Nat
            BY <1>2, <4>1, <6>1
          <6>3. t.cache[w].gen <= p.gen
            BY <3>3, <4>1, <6>1 DEF Behind
          <6> QED
            BY <1>1, <2>4, <5>2, <6>1, <6>2, <6>3
        <5> QED
          BY <5>1, <5>2
      <4> QED
        BY <4>1 DEF Behind
    <3> QED
      BY <3>1, <3>2, <3>3
  <2> QED
    BY <2>3, <2>5
<1> QED
  BY <1>3, <1>4, <1>5 DEF Body

\* A capture that is remembered.
LEMMA ShotIs ==
  ASSUME TypeOK, NEW j \in Job, j.text \in Texts
  PROVE  Shot(j) \in Memory /\ Shot(j) # None /\ Shot(j).text = j.text
<1>1. Shot(j) \in Memory
  BY DEF Shot, Memory, Job, TypeOK
<1> QED
  BY <1>1, BillboardsAssumption DEF Shot

\* A frame ahead of the selection is of no generation that is followed.
LEMMA ShipsAhead ==
  ASSUME IInv, Ships, job.kind = "prefetch"
  PROVE  IInv'
<1>1. TypeOK /\ Streams
  BY DEF IInv
<1>2. /\ job # None /\ job.text # None /\ job' = None /\ pv' = Warmed(pv, job)
      /\ Sends(<<Frame(job.win, 0, job)>>) /\ scrub' = (scrub \/ job.kind = "start")
      /\ late' \in BOOLEAN
      /\ UNCHANGED <<screen, now, dock, chosen, batch, cmds, tui, keys, changes, failed>>
  BY DEF Ships
<1>3. PICK j \in Job : j = job /\ j.text \in Texts
  BY <1>1, <1>2 DEF TypeOK, Job
<1>4. PICK m : m = Frame(j.win, 0, j)
  OBVIOUS
<1>5. m \in Message /\ m.type = "frame" /\ m.win = j.win /\ m.gen = 0
  BY <1>3, <1>4, FrameIs DEF Job
<1>6. PICK msgs \in Seq(Message) : msgs = <<m>> /\ Sends(msgs)
  BY <1>2, <1>3, <1>4, <1>5, OneIs
<1>7. wire' \in Seq(Message)
  BY <1>1, <1>2, <1>6, SendsIs
<1>8. pv' \in Views /\ pv'.gen = pv.gen /\ pv'.last = pv.last /\ pv'.target = pv.target
  <2>1. Shot(j) \in Memory
    BY <1>1, <1>3, ShotIs
  <2>2. pv' = [pv EXCEPT !.warm = [pv.warm EXCEPT ![j.win] = Shot(j)]]
    BY <1>2, <1>3 DEF Warmed
  <2>3. [pv.warm EXCEPT ![j.win] = Shot(j)] \in [Window -> Memory \cup {None}]
    BY <1>1, <2>1 DEF TypeOK, Views
  <2> QED
    BY <1>1, <2>2, <2>3 DEF TypeOK, Views
<1>9. scrub' = scrub
  BY <1>1, <1>2 DEF TypeOK
<1>10. TypeOK'
  BY <1>1, <1>2, <1>7, <1>8, <1>9 DEF TypeOK
<1>11. Streams'
  BY <1>1, <1>2, <1>8 DEF Streams
<1>12. HelloWaits => HelloWaits'
  BY <1>2 DEF HelloWaits
<1>13. PICK t \in Tui : t = Reached
  BY <1>1, ReachedType
<1>14. Read(t, msgs) = Received(t, m)
  BY <1>6, ReadFew
<1>15. /\ Received(t, m).wide = t.wide /\ Received(t, m).cache[j.win].gen = 0
       /\ \A w \in Window \ {j.win} : Received(t, m).cache[w] = t.cache[w]
  BY <1>5, ReceivedIs
<1>16. ASSUME Behind(t, pv) PROVE Behind(Received(t, m), pv')
  <2>1. pv.gen \in Nat /\ (pv.last # None => pv.gen # 0)
    BY <1>1 DEF TypeOK, Views, Streams
  <2> QED
    BY <1>8, <1>15, <1>16, <2>1 DEF Behind
<1>17. ASSUME tui.up = "here"
       PROVE  /\ Behind(Read(Reached, msgs), pv')
              /\ Read(Reached, msgs).wide => scrub'
              /\ scrub' => Read(Reached, msgs).wide \/ HelloWaits'
  <2>1. Behind(t, pv) /\ (t.wide => scrub) /\ (scrub => t.wide \/ HelloWaits)
    BY <1>13, <1>17 DEF IInv, Lineage, Wide
  <2> QED
    BY <1>9, <1>12, <1>13, <1>14, <1>15, <1>16, <2>1
<1> QED
  BY <1>2, <1>6, <1>10, <1>11, <1>17, Told

\* A frame of the target, and with the first the width it is for.
LEMMA ShipsTarget ==
  ASSUME IInv, Ships, job.kind # "prefetch"
  PROVE  IInv'
<1>1. TypeOK /\ Streams
  BY DEF IInv
<1>2. job # None /\ job.text # None
  BY DEF Ships
<1>3. PICK j \in Job : j = job /\ j.text \in Texts
  BY <1>1, <1>2 DEF TypeOK, Job
<1>4. PICK f : f = Body(j, pv)
  OBVIOUS
<1> DEFINE s == IF j.kind = "start" THEN <<Surface(TRUE)>> ELSE <<>>
           gen == IF f = <<>> THEN pv.gen ELSE pv.gen + 1
<1>5. /\ job' = None /\ pv' = Showing(pv, j, gen) /\ Sends(f \o s)
      /\ scrub' = (scrub \/ j.kind = "start") /\ late' \in BOOLEAN
      /\ UNCHANGED <<screen, now, dock, chosen, batch, cmds, tui, keys, changes, failed>>
  BY <1>3, <1>4 DEF Ships, Body
<1>6. gen \in Nat /\ gen # 0 /\ gen = IF f = <<>> THEN pv.gen ELSE pv.gen + 1
  <2>1. pv.gen \in Nat /\ (pv.last # None => pv.gen # 0)
    BY <1>1 DEF TypeOK, Views, Streams
  <2>2. f = <<>> => pv.last # None
    BY <1>4 DEF Body
  <2> QED
    BY <2>1, <2>2
<1>7. s \in Seq(Message) /\ \A t \in Tui : /\ Read(t, s).cache = t.cache
                                           /\ Read(t, s).wide = (t.wide \/ j.kind = "start")
  <2>1. PICK m \in Message : m = Surface(TRUE) /\ m.type = "surface" /\ m.wide = TRUE
    BY MessagesAre
  <2>2. s = IF j.kind = "start" THEN <<m>> ELSE <<>>
    BY <2>1
  <2> HIDE DEF s
  <2>3. s \in Seq(Message)
    BY <2>2, OneIs
  <2>4. ASSUME NEW t \in Tui
        PROVE  Read(t, s).cache = t.cache /\ Read(t, s).wide = (t.wide \/ j.kind = "start")
    <3>1. t.wide \in BOOLEAN
      BY DEF Tui
    <3>2. CASE j.kind = "start"
      <4>1. Read(t, s) = Received(t, m)
        BY <2>2, <3>2, ReadFew
      <4>2. Received(t, m).cache = t.cache /\ Received(t, m).wide = TRUE
        BY <2>1, ReceivedIs
      <4> QED
        BY <3>2, <4>1, <4>2
    <3>3. CASE j.kind # "start"
      <4>1. Read(t, s) = t
        BY <2>2, <3>3, ReadFew
      <4> QED
        BY <3>1, <3>3, <4>1
    <3> QED
      BY <3>2, <3>3
  <2> QED
    BY <2>3, <2>4
<1> HIDE DEF gen, s
<1>8. /\ pv' \in Views /\ pv'.last # None /\ pv'.last.text = j.text /\ pv'.target = j.win
      /\ pv'.gen = gen /\ j.win \in Window /\ j.win # None
  <2>1. PICK k \in Memory : k = Shot(j) /\ k # None /\ k.text = j.text
    BY <1>1, <1>3, ShotIs
  <2>2. pv' = [pv EXCEPT !.last = k, !.gen = gen, !.target = j.win]
    BY <1>5, <2>1 DEF Showing
  <2>3. j.win \in Window /\ j.win # None
    BY BillboardsAssumption DEF Job
  <2> QED
    BY <1>1, <1>6, <2>1, <2>2, <2>3 DEF TypeOK, Views
<1>9. /\ f \in Seq(Message)
      /\ \A t \in Tui : Read(t, f).wide = t.wide /\ (Behind(t, pv) => Behind(Read(t, f), pv'))
  <2>1. PICK q : q = pv'
    OBVIOUS
  <2>2. pv \in Views /\ (j.kind = "stream" => j.win = pv.target)
    BY <1>1, <1>2, <1>3 DEF TypeOK, Streams
  <2> QED
    BY <1>3, <1>4, <1>6, <1>8, <2>1, <2>2, BodyIs
<1>10. PICK msgs \in Seq(Message) : msgs = f \o s /\ Sends(msgs)
  BY <1>5, <1>7, <1>9, ConcatProperties
<1>11. wire' \in Seq(Message)
  BY <1>1, <1>5, <1>10, SendsIs
<1>12. TypeOK'
  <2>1. scrub' \in BOOLEAN /\ dock' # None
    BY <1>1, <1>2, <1>5 DEF TypeOK
  <2> QED
    BY <1>1, <1>5, <1>8, <1>11, <2>1 DEF TypeOK
<1>13. Streams'
  BY <1>5, <1>6, <1>8 DEF Streams
<1>14. HelloWaits => HelloWaits'
  BY <1>5 DEF HelloWaits
<1>15. PICK t \in Tui : t = Reached
  BY <1>1, ReachedType
<1>16. PICK u \in Tui : u = Read(t, f)
  BY <1>9, ReadType
<1>17. Read(t, msgs) = Read(u, s)
  BY <1>7, <1>9, <1>10, <1>16, ReadConcat
<1>18. ASSUME tui.up = "here"
       PROVE  /\ Behind(Read(Reached, msgs), pv')
              /\ Read(Reached, msgs).wide => scrub'
              /\ scrub' => Read(Reached, msgs).wide \/ HelloWaits'
  <2>1. Behind(t, pv) /\ (t.wide => scrub) /\ (scrub => t.wide \/ HelloWaits)
    BY <1>15, <1>18 DEF IInv, Lineage, Wide
  <2>2. Behind(u, pv') /\ u.wide = t.wide
    BY <1>9, <1>16, <2>1
  <2>3. Read(u, s).cache = u.cache /\ Read(u, s).wide = (u.wide \/ j.kind = "start")
    BY <1>7
  <2>4. Behind(Read(u, s), pv')
    BY <2>2, <2>3 DEF Behind
  <2> QED
    BY <1>5, <1>14, <1>15, <1>17, <2>1, <2>2, <2>3, <2>4
<1> QED
  BY <1>5, <1>10, <1>12, <1>13, <1>18, Told

-----------------------------------------------------------------------------
(* The sidebar.                                                              *)

\* More commands are queued, and the sidebar there is stays that one.
LEMMA Queued ==
  ASSUME TypeOK, NEW s \in Seq(Command), cmds' = cmds \o s, batch' = batch, tui'.life = tui.life
  PROVE  cmds' \in Seq(Command) /\ (HelloWaits => HelloWaits')
<1>1. cmds \in Seq(Command)
  BY DEF TypeOK
<1>2. cmds \o s \in Seq(Command)
  BY <1>1, ConcatProperties
<1>3. PICK h : h = Hello(tui.life) /\ h = Hello(tui'.life)
  OBVIOUS
<1>4. Waits(cmds, h) => Waits(cmds \o s, h)
  BY <1>1, WaitsOn
<1> QED
  BY <1>2, <1>3, <1>4 DEF HelloWaits

\* A command is put at the end of a queue.
LEMMA AppendIs ==
  ASSUME NEW q \in Seq(Command), NEW c \in Command
  PROVE  <<c>> \in Seq(Command) /\ Append(q, c) = q \o <<c>>
<1>1. <<c>> \in Seq(Command)
  OBVIOUS
<1> QED
  BY <1>1, AppendIsConcat

\* What a selection asks for: its own frame first, and then only frames ahead of it
\* (windows are finite, so can be counted up).
LEMMA RequestsIs ==
  ASSUME NEW w \in Window, NEW t
  PROVE  /\ Requests(t, w) \in Seq(Command) /\ Requests(t, w) # <<>>
         /\ Requests(t, w)[1] = Preview(w)
         /\ \A i \in 2..Len(Requests(t, w)) :
              Requests(t, w)[i].do = "prefetch" /\ Requests(t, w)[i].win # w
<1> DEFINE S == Window \ {w}
           others == SetToSeq(S)
           more == [i \in DOMAIN others |-> Prefetch(others[i])]
<1>1. IsFiniteSet(S)
  <2>1. IsFiniteSet(Window) /\ S \subseteq Window
    BY BillboardsAssumption
  <2> QED
    BY <2>1, FS_Subset
<1>2. Cardinality(S) \in Nat /\ ExistsBijection(1..Cardinality(S), S)
  BY <1>1, FS_CardinalityType
<1>3. \E f \in [1..Cardinality(S) -> S] : IsInjective(f)
  <2>1. PICK f \in Bijection(1..Cardinality(S), S) : TRUE
    BY <1>2 DEF ExistsBijection
  <2>2. f \in Injection(1..Cardinality(S), S)
    BY <2>1 DEF Bijection
  <2>3. f \in [1..Cardinality(S) -> S] /\ IsInjective(f)
    BY <2>2 DEF Injection
  <2> QED
    BY <2>3
<1>4. others \in [1..Cardinality(S) -> S]
  BY <1>3 DEF SetToSeq
<1>5. \A v \in Window : /\ Preview(v) \in Command
                        /\ Prefetch(v) \in Command /\ Prefetch(v).do = "prefetch"
                        /\ Prefetch(v).win = v
  BY DEF Preview, Prefetch, Command
<1> HIDE DEF others
<1>6. /\ more \in [1..Cardinality(S) -> Command]
      /\ \A i \in 1..Cardinality(S) : more[i].do = "prefetch" /\ more[i].win # w
  BY <1>4, <1>5
<1>7. PICK u : u = more
  OBVIOUS
<1> HIDE DEF more
<1>8. PICK m \in Seq(Command) : m = u /\ \A i \in 1..Len(m) : m[i].do = "prefetch" /\ m[i].win # w
  <2>1. u \in Seq(Command)
    BY <1>2, <1>6, <1>7, SeqDef
  <2>2. Len(u) = Cardinality(S)
    BY <1>2, <1>6, <1>7
  <2> QED
    BY <1>6, <1>7, <2>1, <2>2
<1>9. PICK p \in Seq(Command) : p = <<Preview(w)>> /\ Len(p) = 1 /\ p[1] = Preview(w)
  <2>1. PICK c \in Command : c = Preview(w)
    BY <1>5
  <2>2. PICK q \in Seq(Command) : TRUE
    BY EmptySeq
  <2>3. <<c>> \in Seq(Command)
    BY <2>1, <2>2, AppendIs
  <2>4. Len(<<c>>) = 1 /\ <<c>>[1] = c
    OBVIOUS
  <2> QED
    BY <2>1, <2>3, <2>4
<1>10. /\ p \o m \in Seq(Command) /\ p \o m # <<>> /\ (p \o m)[1] = Preview(w)
       /\ \A i \in 2..Len(p \o m) : (p \o m)[i].do = "prefetch" /\ (p \o m)[i].win # w
  <2>1. /\ p \o m \in Seq(Command) /\ Len(p \o m) = 1 + Len(m) /\ Len(m) \in Nat
        /\ \A i \in 1..(1 + Len(m)) : (p \o m)[i] = IF i <= 1 THEN p[i] ELSE m[i - 1]
    BY <1>9, ConcatProperties, LenProperties
  <2>2. 1 \in 1..(1 + Len(m)) /\ \A i \in 2..(1 + Len(m)) : /\ i \in 1..(1 + Len(m)) /\ ~(i <= 1)
                                                          /\ i - 1 \in 1..Len(m)
    BY <2>1
  <2>3. p \o m # <<>>
    BY <2>1, EmptySeq
  <2> QED
    BY <1>8, <1>9, <2>1, <2>2, <2>3
<1>11. /\ p \o <<>> = p /\ p # <<>>
       /\ \A i \in 2..Len(p) : p[i].do = "prefetch" /\ p[i].win # w
  BY <1>9, ConcatEmptySeq
<1>12. Requests(t, w) \in {p \o m, p \o <<>>}
  BY <1>7, <1>8, <1>9 DEF Requests, more, others
<1>13. CASE Requests(t, w) = p \o m
  <2>1. PICK r : r = p \o m
    OBVIOUS
  <2> QED
    BY <1>10, <1>13, <2>1
<1>14. CASE Requests(t, w) = p \o <<>>
  BY <1>9, <1>11, <1>14
<1> QED
  BY <1>12, <1>13, <1>14

\* Only the cache and the width matter for what a sidebar is to be.
LEMMA Alike ==
  ASSUME TypeOK, tui' \in Tui, tui'.cache = tui.cache, tui'.wide = tui.wide, wire' = wire
  PROVE  Reached'.cache = Reached.cache /\ Reached'.wide = Reached.wide
<1>1. PICK t \in Tui, u \in Tui, s \in Seq(Message) : t = tui /\ u = tui' /\ s = wire /\ s = wire'
  BY DEF TypeOK
<1>2. Reached = Read(t, s) /\ Reached' = Read(u, s)
  BY <1>1 DEF Reached, Read
<1>3. Read(u, s).cache = Read(t, s).cache /\ Read(u, s).wide = Read(t, s).wide
  BY <1>1, ReadAlike
<1> QED
  BY <1>2, <1>3

\* A sidebar that has painted says hello, and is yet to be told what it missed.
LEMMA SaysHelloStep == ASSUME IInv, SaysHello PROVE IInv'
<1>1. TypeOK /\ Streams
  BY DEF IInv
<1>2. /\ tui.up = "born" /\ cmds' = Append(cmds, Hello(tui.life))
      /\ tui' = [tui EXCEPT !.up = "here", !.sel = chosen.win, !.unasked = chosen.quiet]
      /\ UNCHANGED <<screen, now, dock, scrub, chosen, pv, job, batch, wire, keys, changes, late, failed>>
  BY DEF SaysHello
<1>3. /\ tui' \in Tui /\ tui'.up = "here" /\ tui'.sel \in Window /\ tui'.life = tui.life
      /\ tui'.cache = tui.cache /\ tui'.wide = tui.wide
  <2>1. chosen.win \in Window /\ chosen.quiet \in BOOLEAN /\ tui \in Tui
    BY <1>1 DEF TypeOK
  <2> QED
    BY <1>2, <2>1 DEF Tui
<1>4. wire = <<>> /\ tui.wide = FALSE /\ \A w \in Window : tui.cache[w] = None
  BY <1>2 DEF IInv, Unpainted
<1>5. Hello(tui.life) \in Command /\ cmds \in Seq(Command)
  BY <1>1 DEF Hello, Command, TypeOK, Tui
<1>6. cmds' \in Seq(Command) /\ HelloWaits'
  <2>1. /\ Append(cmds, Hello(tui.life)) \in Seq(Command)
        /\ Len(Append(cmds, Hello(tui.life))) = Len(cmds) + 1
        /\ Append(cmds, Hello(tui.life))[Len(cmds) + 1] = Hello(tui.life)
    BY <1>5, AppendProperties
  <2>2. Len(cmds) + 1 \in 1..(Len(cmds) + 1)
    <3>1. Len(cmds) \in Nat
      BY <1>5, LenProperties
    <3> QED
      BY <3>1
  <2>3. Waits(cmds', Hello(tui'.life))
    BY <1>2, <1>3, <2>1, <2>2 DEF Waits
  <2> QED
    BY <1>2, <2>1, <2>3 DEF HelloWaits
<1>7. TypeOK'
  BY <1>1, <1>2, <1>3, <1>6 DEF TypeOK
<1>8. Streams'
  BY <1>1, <1>2 DEF Streams
<1>9. Reached' = tui'
  <2>1. PICK t : t = tui'
    OBVIOUS
  <2>2. Reached' = Read(t, <<>>)
    BY <1>2, <1>4, <2>1 DEF Reached, Read
  <2> QED
    BY <2>1, <2>2, ReadFew
<1>10. Unpainted'
  BY <1>3 DEF Unpainted
<1>11. Lineage'
  BY <1>3, <1>4, <1>9 DEF Lineage, Behind
<1>12. Wide'
  BY <1>3, <1>4, <1>6, <1>9 DEF Wide
<1> QED
  BY <1>7, <1>8, <1>10, <1>11, <1>12 DEF IInv

\* The sidebar reads a message, and may ask for the frames of its selection.
LEMMA ReadsStep == ASSUME IInv, Reads PROVE IInv'
<1>1. TypeOK /\ Streams
  BY DEF IInv
<1>2. PICK t : t = Received(tui, Head(wire))
  OBVIOUS
<1>3. /\ tui.up = "here" /\ wire # <<>> /\ wire' = Tail(wire)
      /\ \/ tui' = [t EXCEPT !.unasked = FALSE] /\ cmds' = cmds \o Requests(t, t.sel)
         \/ tui' = t /\ cmds' = cmds
      /\ UNCHANGED <<screen, now, dock, scrub, chosen, pv, job, batch, keys, changes, late, failed>>
  BY <1>2 DEF Reads
<1>4. Head(wire) \in Message /\ Tail(wire) \in Seq(Message) /\ wire \in Seq(Message)
  BY <1>1, <1>3, HeadTailProperties DEF TypeOK
<1>5. t \in Tui /\ t.up = tui.up /\ t.life = tui.life /\ t.sel \in Window
  <2>1. tui \in Tui /\ tui.sel \in Window
    BY <1>1, <1>3 DEF TypeOK
  <2> QED
    BY <1>2, <1>4, <2>1, ReceivedIs
<1>6. /\ tui' \in Tui /\ tui'.up = "here" /\ tui'.life = tui.life /\ tui'.sel \in Window
      /\ tui'.cache = t.cache /\ tui'.wide = t.wide
  <2>1. CASE tui' = t
    BY <1>3, <1>5, <2>1
  <2>2. CASE tui' = [t EXCEPT !.unasked = FALSE]
    BY <1>3, <1>5, <2>2 DEF Tui
  <2> QED
    BY <1>3, <2>1, <2>2
<1>7. cmds' \in Seq(Command) /\ (HelloWaits => HelloWaits')
  <2>1. CASE cmds' = cmds
    BY <1>1, <1>3, <1>6, <2>1 DEF TypeOK, HelloWaits
  <2>2. CASE cmds' = cmds \o Requests(t, t.sel)
    <3>1. Requests(t, t.sel) \in Seq(Command)
      BY <1>5, RequestsIs
    <3> QED
      BY <1>1, <1>3, <1>6, <2>2, <3>1, Queued
  <2> QED
    BY <1>3, <2>1, <2>2
<1>8. Reached'.cache = Reached.cache /\ Reached'.wide = Reached.wide
  <2>1. PICK u \in Tui, s \in Seq(Message) : u = tui' /\ s = Tail(wire)
    BY <1>4, <1>6
  <2>2. Reached' = Read(u, s)
    BY <1>3, <2>1 DEF Reached, Read
  <2>3. Reached = Read(t, s)
    BY <1>1, <1>2, <1>3, <1>4, <2>1, ReachedType, ReadOn
  <2>4. Read(u, s).cache = Read(t, s).cache /\ Read(u, s).wide = Read(t, s).wide
    BY <1>5, <1>6, <2>1, ReadAlike
  <2> QED
    BY <2>2, <2>3, <2>4
<1>9. TypeOK'
  BY <1>1, <1>3, <1>4, <1>6, <1>7 DEF TypeOK
<1>10. Streams' /\ Unpainted'
  BY <1>1, <1>3, <1>6 DEF Streams, Unpainted
<1> QED
  BY <1>3, <1>6, <1>7, <1>8, <1>9, <1>10, Carries

\* A key or a new size changes neither the cache nor the width of a sidebar.
LEMMA KeysStep ==
  ASSUME IInv, NEW s \in Seq(Command), cmds' = cmds \o s,
         UNCHANGED <<screen, now, dock, scrub, chosen, pv, job, batch, wire, changes, late, failed>>,
         keys' \in 0..MaxKeys, tui' \in Tui, tui'.up = tui.up, tui'.life = tui.life,
         tui'.up = "here" => tui'.sel \in Window,
         tui'.cache = tui.cache, tui'.wide = tui.wide
  PROVE  IInv'
<1>1. TypeOK /\ Streams
  BY DEF IInv
<1>2. cmds' \in Seq(Command) /\ (HelloWaits => HelloWaits')
  BY <1>1, Queued
<1>3. TypeOK'
  BY <1>1, <1>2 DEF TypeOK
<1>4. Streams'
  BY <1>1 DEF Streams
<1>5. Unpainted'
  BY DEF IInv, Unpainted
<1>6. Reached'.cache = Reached.cache /\ Reached'.wide = Reached.wide
  BY <1>1, Alike
<1> QED
  BY <1>2, <1>3, <1>4, <1>5, <1>6, Carries

\* The keys are counted.
LEMMA PressesIs ==
  ASSUME TypeOK, Presses
  PROVE  /\ keys' \in 0..MaxKeys
         /\ UNCHANGED <<screen, now, dock, scrub, chosen, pv, job, batch, wire, changes, late, failed>>
  BY BillboardsAssumption DEF TypeOK, Presses

\* The selection moves.
LEMMA MoveSelStep == ASSUME IInv, NEW w \in Window, MoveSel(w) PROVE IInv'
<1>1. TypeOK
  BY DEF IInv
<1>2. /\ Presses /\ tui.up = "here" /\ tui' = [tui EXCEPT !.sel = w, !.unasked = tui.shrink]
      /\ cmds' = IF tui.shrink THEN cmds ELSE cmds \o Requests(tui, w)
  BY DEF MoveSel
<1>3. /\ tui' \in Tui /\ tui'.up = tui.up /\ tui'.life = tui.life /\ tui'.sel \in Window
      /\ tui'.cache = tui.cache /\ tui'.wide = tui.wide
  BY <1>1, <1>2 DEF TypeOK, Tui
<1>4. PICK s \in Seq(Command) : cmds' = cmds \o s
  <2>1. cmds \in Seq(Command)
    BY <1>1 DEF TypeOK
  <2>2. cmds \o <<>> = cmds /\ <<>> \in Seq(Command) /\ Requests(tui, w) \in Seq(Command)
    BY <2>1, ConcatEmptySeq, RequestsIs
  <2> QED
    BY <1>2, <2>2
<1> QED
  BY <1>1, <1>2, <1>3, <1>4, PressesIs, KeysStep

\* The selection is gone to, or the billboards are dismissed.
LEMMA LeavesStep ==
  ASSUME IInv, Presses, NEW c \in Command, cmds' = Append(cmds, c),
         tui' \in {tui, [tui EXCEPT !.shrink = tui.wide]}
  PROVE  IInv'
<1>1. TypeOK
  BY DEF IInv
<1>2. /\ tui' \in Tui /\ tui'.up = tui.up /\ tui'.life = tui.life /\ tui'.sel = tui.sel
      /\ tui'.cache = tui.cache /\ tui'.wide = tui.wide
  <2>1. tui \in Tui
    BY <1>1 DEF TypeOK
  <2>2. CASE tui' = tui
    BY <2>1, <2>2
  <2>3. CASE tui' = [tui EXCEPT !.shrink = tui.wide]
    BY <2>1, <2>3 DEF Tui
  <2> QED
    BY <2>2, <2>3
<1>3. tui'.up = "here" => tui'.sel \in Window
  BY <1>1, <1>2 DEF TypeOK
<1>4. PICK s \in Seq(Command) : cmds' = cmds \o s
  <2>1. cmds \in Seq(Command)
    BY <1>1 DEF TypeOK
  <2> QED
    BY <2>1, AppendIs
<1> QED
  BY <1>1, <1>2, <1>3, <1>4, PressesIs, KeysStep

\* The keys that do.
LEMMA OrdersStep ==
  ASSUME IInv, Enter \/ Quit \/ \E what \in {"toggle", "browse", "agents"} : Calls(what)
  PROVE  IInv'
<1>1. TypeOK
  BY DEF IInv
<1>2. CASE Enter
  <2>1. tui.sel \in Window
    BY <1>1, <1>2 DEF Enter, TypeOK
  <2>2. Commit(tui.sel) \in Command
    BY <2>1 DEF Commit, Command
  <2> QED
    BY <1>2, <2>2, LeavesStep DEF Enter
<1>3. CASE Quit
  <2>1. Order("close") \in Command
    BY DEF Order, Command
  <2> QED
    BY <1>3, <2>1, LeavesStep DEF Quit
<1>4. CASE \E what \in {"toggle", "browse", "agents"} : Calls(what)
  <2>1. PICK what \in {"toggle", "browse", "agents"} : Calls(what)
    BY <1>4
  <2>2. Order(what) \in Command
    BY DEF Order, Command
  <2> QED
    BY <2>1, <2>2, LeavesStep DEF Calls
<1> QED
  BY <1>2, <1>3, <1>4

\* The pane has shrunk.
LEMMA WinchStep == ASSUME IInv, Winch PROVE IInv'
<1>1. TypeOK
  BY DEF IInv
<1>2. /\ tui' = [tui EXCEPT !.shrink = FALSE]
      /\ UNCHANGED <<screen, now, dock, scrub, chosen, pv, job, batch, cmds, wire, keys, changes, late, failed>>
  BY DEF Winch
<1>3. /\ tui' \in Tui /\ tui'.up = tui.up /\ tui'.life = tui.life /\ tui'.sel = tui.sel
      /\ tui'.cache = tui.cache /\ tui'.wide = tui.wide
  BY <1>1, <1>2 DEF TypeOK, Tui
<1>4. tui'.up = "here" => tui'.sel \in Window
  BY <1>1, <1>3 DEF TypeOK
<1>5. PICK s \in Seq(Command) : cmds' = cmds \o s
  <2>1. cmds \in Seq(Command)
    BY <1>1 DEF TypeOK
  <2>2. cmds \o <<>> = cmds /\ <<>> \in Seq(Command)
    BY <2>1, ConcatEmptySeq
  <2> QED
    BY <1>2, <2>2
<1>6. keys' \in 0..MaxKeys
  BY <1>1, <1>2 DEF TypeOK
<1> QED
  BY <1>2, <1>3, <1>4, <1>5, <1>6, KeysStep

-----------------------------------------------------------------------------
(* The windows and the clock.                                                *)

\* A step of the world.
LEMMA WorldStep ==
  ASSUME IInv, UNCHANGED <<dock, scrub, chosen, pv, job, batch, cmds, wire, tui, keys, late, failed>>,
         screen' \in [Window -> [ids : Nat, act : 0..MaxSecs, text : Texts]],
         now' \in 0..MaxSecs, changes' \in 0..MaxChanges
  PROVE  IInv'
<1>1. TypeOK'
  BY DEF IInv, TypeOK
<1>2. Streams'
  BY DEF IInv, Streams
<1>3. HelloWaits => HelloWaits'
  BY DEF HelloWaits
<1> QED
  BY <1>1, <1>2, <1>3, Aside

\* Changes are counted.
LEMMA ChangesIs ==
  ASSUME TypeOK, Changes
  PROVE  changes' \in 0..MaxChanges /\ now' \in 0..MaxSecs
<1>1. changes \in 0..MaxChanges /\ changes < MaxChanges /\ changes' = changes + 1
  BY DEF TypeOK, Changes
<1>2. changes' \in 0..MaxChanges
  BY <1>1, BillboardsAssumption
<1> QED
  BY <1>2 DEF TypeOK, Changes

\* A window prints.
LEMMA OutputStep ==
  ASSUME IInv, NEW w \in Window, NEW r \in Row, NEW g \in Glyph, Output(w, r, g) PROVE IInv'
<1>1. TypeOK
  BY DEF IInv
<1>2. /\ changes < MaxChanges /\ changes' = changes + 1
      /\ UNCHANGED <<now, dock, scrub, chosen, pv, job, batch, cmds, wire, tui, keys, late, failed>>
      /\ screen' = [screen EXCEPT ![w].text[r] = g, ![w].act = now]
  BY DEF Output, Changes
<1>3. screen[w] \in [ids : Nat, act : 0..MaxSecs, text : Texts] /\ now \in 0..MaxSecs
  BY <1>1 DEF TypeOK
<1>4. PICK text \in Texts : text = [screen[w].text EXCEPT ![r] = g]
  BY <1>3 DEF Texts
<1>5. screen' = [screen EXCEPT ![w] = [screen[w] EXCEPT !.text = text, !.act = now]]
  BY <1>1, <1>2, <1>4 DEF TypeOK
<1>6. [screen[w] EXCEPT !.text = text, !.act = now] \in [ids : Nat, act : 0..MaxSecs, text : Texts]
  BY <1>3
<1>7. screen' \in [Window -> [ids : Nat, act : 0..MaxSecs, text : Texts]]
  BY <1>1, <1>5, <1>6 DEF TypeOK
<1>8. changes' \in 0..MaxChanges /\ now' \in 0..MaxSecs
  BY <1>1, ChangesIs DEF Output
<1> QED
  BY <1>2, <1>7, <1>8, WorldStep

\* A pane is replaced.
LEMMA RespawnStep == ASSUME IInv, NEW w \in Window, Respawn(w) PROVE IInv'
<1>1. TypeOK
  BY DEF IInv
<1>2. /\ changes < MaxChanges /\ changes' = changes + 1
      /\ UNCHANGED <<now, dock, scrub, chosen, pv, job, batch, cmds, wire, tui, keys, late, failed>>
      /\ screen' = [screen EXCEPT ![w].ids = @ + 1]
  BY DEF Respawn, Changes
<1>3. screen' \in [Window -> [ids : Nat, act : 0..MaxSecs, text : Texts]]
  <2>1. screen[w] \in [ids : Nat, act : 0..MaxSecs, text : Texts]
    BY <1>1 DEF TypeOK
  <2>2. PICK e : e = [screen[w] EXCEPT !.ids = screen[w].ids + 1]
    OBVIOUS
  <2>3. e \in [ids : Nat, act : 0..MaxSecs, text : Texts]
    BY <2>1, <2>2
  <2>4. screen' = [screen EXCEPT ![w] = e]
    BY <1>1, <1>2, <2>2 DEF TypeOK
  <2> QED
    BY <1>1, <2>3, <2>4 DEF TypeOK
<1>4. changes' \in 0..MaxChanges /\ now' \in 0..MaxSecs
  BY <1>1, ChangesIs DEF Respawn
<1> QED
  BY <1>2, <1>3, <1>4, WorldStep

\* A second passes.
LEMMA SecondStep == ASSUME IInv, Second PROVE IInv'
<1>1. TypeOK
  BY DEF IInv
<1>2. /\ now < MaxSecs /\ now' = now + 1
      /\ UNCHANGED <<screen, dock, scrub, chosen, pv, job, batch, cmds, wire, tui, keys, changes, late, failed>>
  BY DEF Second
<1>3. /\ now' \in 0..MaxSecs /\ changes' \in 0..MaxChanges
      /\ screen' \in [Window -> [ids : Nat, act : 0..MaxSecs, text : Texts]]
  BY <1>1, <1>2, BillboardsAssumption DEF TypeOK
<1> QED
  BY <1>2, <1>3, WorldStep

\* Nothing happens.
LEMMA StutterStep == ASSUME IInv, UNCHANGED vars PROVE IInv'
<1>1. TypeOK
  BY DEF IInv
<1>2. /\ UNCHANGED <<dock, scrub, chosen, pv, job, batch, cmds, wire, tui, keys, late, failed>>
      /\ screen' = screen /\ now' = now /\ changes' = changes
  BY DEF vars
<1> QED
  BY <1>1, <1>2, WorldStep DEF TypeOK

-----------------------------------------------------------------------------
(* The theorems.                                                             *)

\* The sidebar that has just been docked.
LEMMA InitInv == ASSUME Init PROVE IInv
<1>1. dock \in Window /\ dock # None
  BY BillboardsAssumption DEF Init
<1>2. screen \in [Window -> [ids : Nat, act : 0..MaxSecs, text : Texts]] /\ now \in 0..MaxSecs
  <2>1. [r \in Row |-> CHOOSE g \in Glyph : TRUE] \in Texts
    BY BillboardsAssumption DEF Texts
  <2>2. 1 \in 0..MaxSecs
    BY BillboardsAssumption
  <2> QED
    BY <2>1, <2>2 DEF Init
<1>3. pv \in Views /\ pv.last = None
  <2>1. NoWarm \in [Window -> Memory \cup {None}]
    BY DEF NoWarm
  <2> QED
    BY <2>1 DEF Init, Views
<1>4. job \in Job \cup {None} /\ (job # None => job.kind = "start")
  <2>1. Asked(dock, "start") \in Job /\ Asked(dock, "start").kind = "start"
    BY <1>1, <1>2 DEF Asked, Job
  <2> QED
    BY <2>1 DEF Init
<1>5. /\ tui \in Tui /\ tui.up = "born" /\ tui.wide = FALSE
      /\ \A w \in Window : tui.cache[w] = None
  BY SidebarIs DEF Init
<1>6. TypeOK
  <2>1. batch \in Seq(Command) /\ cmds \in Seq(Command) /\ wire \in Seq(Message)
    BY DEF Init
  <2>2. /\ scrub = FALSE /\ chosen \in [win : Window, quiet : BOOLEAN]
        /\ late = FALSE /\ failed = FALSE /\ keys \in 0..MaxKeys /\ changes \in 0..MaxChanges
    BY <1>1, BillboardsAssumption DEF Init
  <2> QED
    BY <1>1, <1>2, <1>3, <1>4, <1>5, <2>1, <2>2 DEF TypeOK
<1>7. Streams /\ Unpainted /\ Lineage /\ Wide
  BY <1>3, <1>4, <1>5 DEF Streams, Unpainted, Lineage, Wide, Init
<1> QED
  BY <1>6, <1>7 DEF IInv

\* Every step keeps the invariant.
LEMMA StepInv == ASSUME IInv, [Next]_vars PROVE IInv'
<1>1. CASE Daemon
  <2>1. CASE Ships
    BY <2>1, ShipsAhead, ShipsTarget
  <2> QED
    BY <1>1, <2>1, DrainStep, RunCmdStep, CapturesStep, TickStep DEF Daemon
<1>2. CASE SaysHello
  BY <1>2, SaysHelloStep
<1>3. CASE Reads
  BY <1>3, ReadsStep
<1>4. CASE Winch
  BY <1>4, WinchStep
<1>5. CASE Second
  BY <1>5, SecondStep
<1>6. CASE Enter \/ Quit \/ \E what \in {"toggle", "browse", "agents"} : Calls(what)
  BY <1>6, OrdersStep
<1>7. CASE \E w \in Window : MoveSel(w) \/ Respawn(w)
  BY <1>7, MoveSelStep, RespawnStep
<1>8. CASE \E w \in Window, r \in Row, g \in Glyph : Output(w, r, g)
  BY <1>8, OutputStep
<1>9. CASE UNCHANGED vars
  BY <1>9, StutterStep
<1> QED
  BY <1>1, <1>2, <1>3, <1>4, <1>5, <1>6, <1>7, <1>8, <1>9 DEF Next

\* The invariant holds in every state of every behaviour.
THEOREM Inductive == Spec => []IInv
<1>1. Init => IInv
  BY InitInv
<1>2. IInv /\ [Next]_vars => IInv'
  BY StepInv
<1> QED
  BY <1>1, <1>2, PTL DEF Spec

\* Every variable keeps its type (the structs of preview.go, router.go and tui.go).
THEOREM TypeCorrect == Spec => []TypeOK
<1>1. IInv => TypeOK
  BY DEF IInv
<1> QED
  BY <1>1, Inductive, PTL

\* A delta patches the content it was made from (shipFrame and applyDelta): whatever is
\* still on its way, the sidebar that is at the daemon's generation of the target is to
\* have what the daemon last shipped.
THEOREM LineageKept == Spec => []LineageHolds
<1>1. IInv => LineageHolds
  <2> SUFFICES ASSUME IInv, tui.up = "here", pv.last # None, pv.target # None,
                      Reached.cache[pv.target] # None, Reached.cache[pv.target].gen = pv.gen
               PROVE  Reached.cache[pv.target].text = pv.last.text
    BY DEF LineageHolds, IInv, Streams
  <2>1. pv.target \in Window
    BY DEF IInv, TypeOK, Views
  <2> QED
    BY <2>1 DEF IInv, Lineage, Behind
<1> QED
  BY <1>1, Inductive, PTL

\* A sidebar that has been told everything is laid out wide exactly while billboards show
\* (scrubStart, scrubEnd, and the surface that handleHello repeats).
THEOREM WideAtRest == Spec => []WideWithBillboards
<1>1. IInv => WideWithBillboards
  <2> SUFFICES ASSUME IInv, AtRest PROVE tui.wide = scrub
    BY DEF WideWithBillboards
  <2>1. TypeOK /\ tui.up = "here" /\ wire = <<>> /\ batch = <<>> /\ cmds = <<>>
    BY DEF IInv, AtRest
  <2>2. Reached = tui
    BY <2>1, ReachedType, ReadFew
  <2>3. ~HelloWaits
    <3>1. \A h : ~Waits(<<>>, h)
      BY DEF Waits
    <3> QED
      BY <2>1, <3>1 DEF HelloWaits
  <2>4. tui.wide <=> scrub
    BY <2>1, <2>2, <2>3 DEF IInv, Wide
  <2>5. tui.wide \in BOOLEAN /\ scrub \in BOOLEAN
    BY <2>1 DEF TypeOK, Tui
  <2> QED
    BY <2>4, <2>5
<1> QED
  BY <1>1, Inductive, PTL

-----------------------------------------------------------------------------
(* Where the commands that wait will lead.                                   *)

\* Whatever previews or commits waits is of a window, or a preview comes after it.
Settled(q, w) ==
  \A i \in 1..Len(q) : q[i].do \in {"preview", "commit"} =>
    q[i].win = w \/ \E k \in (i + 1)..Len(q) : q[k].do = "preview"

\* A preview waits.
Asking(q) == \E i \in 1..Len(q) : q[i].do = "preview"

\* A queue has commands of the first n of a batch, in the order they have there.
InOrder(k, b, places, n) ==
  \A m \in 1..Len(k) : \E j \in 1..n :
    /\ k[m] = b[j]
    /\ \A l \in (j + 1)..n : l \in places => \E o \in (m + 1)..Len(k) : k[o] = b[l]

\* What is kept of a batch keeps its order: whatever is kept of later places comes later.
LEMMA KeptInOrder ==
  ASSUME NEW b \in Seq(Command), NEW places, NEW n \in 0..Len(b)
  PROVE  InOrder(Kept(b, places)[n], b, places, n)
<1> DEFINE N == Len(b)
           k == Kept(b, places)
           Ordered(i, m, j) == /\ k[i][m] = b[j]
                               /\ \A l \in (j + 1)..i : l \in places =>
                                    \E o \in (m + 1)..Len(k[i]) : k[i][o] = b[l]
           P == {i \in 0..N : \A m \in 1..Len(k[i]) : \E j \in 1..i : Ordered(i, m, j)}
<1>1. N \in Nat
  BY LenProperties
<1>2. k[0] = <<>> /\ \A i \in 1..N : k[i] = More(k[i - 1], b, i, places)
  <2>1. k = [i \in 0..N |-> IF i = 0 THEN <<>> ELSE More(k[i - 1], b, i, places)]
    BY <1>1, KeptDef
  <2> HIDE DEF k, N
  <2> QED
    BY <1>1, <2>1
<1>3. \A i \in 0..N : k[i] \in Seq(Command)
  BY KeptIs
<1>4. n \in 0..N
  OBVIOUS
<1> HIDE DEF k, N
<1>5. 0 \in P
  <2>1. Len(k[0]) = 0 /\ 0 \in 0..N /\ ~\E m \in 1..0 : TRUE
    BY <1>1, <1>2
  <2> QED
    BY <2>1
<1>6. ASSUME NEW i \in 0..N, i < N, i \in P PROVE i + 1 \in P
  <2>1. /\ i \in Nat /\ i + 1 \in 1..N /\ i + 1 \in 0..N /\ (i + 1) - 1 = i
    BY <1>1, <1>6
  <2>2. k[i + 1] = More(k[i], b, i + 1, places) /\ k[i] \in Seq(Command)
    BY <1>2, <1>3, <2>1
  <2>3. \A m \in 1..Len(k[i]) : \E j \in 1..i : Ordered(i, m, j)
    BY <1>6
  <2>4. Len(k[i]) \in Nat
    BY <2>2, LenProperties
  <2>5. CASE i + 1 \in places
    <3>1. k[i + 1] = Append(k[i], b[i + 1])
      BY <2>2, <2>5 DEF More
    <3>2. b[i + 1] \in Command
      BY <2>1, ElementOfSeq DEF N
    <3>3. /\ Len(k[i + 1]) = Len(k[i]) + 1 /\ k[i + 1][Len(k[i]) + 1] = b[i + 1]
          /\ \A m \in 1..Len(k[i]) : k[i + 1][m] = k[i][m]
      BY <2>2, <3>1, <3>2, AppendProperties
    <3>4. ASSUME NEW m \in 1..Len(k[i]) PROVE \E j \in 1..(i + 1) : Ordered(i + 1, m, j)
      <4>1. PICK j \in 1..i : Ordered(i, m, j)
        BY <2>3
      <4>2. ASSUME NEW l \in (j + 1)..(i + 1), l \in places
            PROVE  \E o \in (m + 1)..Len(k[i + 1]) : k[i + 1][o] = b[l]
        <5>1. CASE l = i + 1
          <6>1. Len(k[i]) + 1 \in (m + 1)..Len(k[i + 1])
            BY <2>4, <3>3
          <6> QED
            BY <3>3, <5>1, <6>1
        <5>2. CASE l # i + 1
          <6>1. l \in (j + 1)..i
            BY <2>1, <5>2
          <6>2. PICK o \in (m + 1)..Len(k[i]) : k[i][o] = b[l]
            BY <4>1, <4>2, <6>1
          <6>3. o \in 1..Len(k[i]) /\ o \in (m + 1)..Len(k[i + 1])
            BY <2>4, <3>3, <6>2
          <6> QED
            BY <3>3, <6>2, <6>3
        <5> QED
          BY <5>1, <5>2
      <4>3. j \in 1..(i + 1)
        BY <2>1
      <4> QED
        BY <3>3, <4>1, <4>2, <4>3
    <3>5. Ordered(i + 1, Len(k[i]) + 1, i + 1) /\ i + 1 \in 1..(i + 1)
      <4>1. ~\E l \in ((i + 1) + 1)..(i + 1) : TRUE
        BY <2>1
      <4> QED
        BY <2>1, <3>3, <4>1
    <3>6. \A m \in 1..Len(k[i + 1]) : m \in 1..Len(k[i]) \/ m = Len(k[i]) + 1
      BY <2>4, <3>3
    <3> QED
      BY <2>1, <3>4, <3>5, <3>6
  <2>6. CASE i + 1 \notin places
    <3>1. k[i + 1] = k[i]
      BY <2>2, <2>6 DEF More
    <3>2. ASSUME NEW m \in 1..Len(k[i]) PROVE \E j \in 1..(i + 1) : Ordered(i + 1, m, j)
      <4>1. PICK j \in 1..i : Ordered(i, m, j)
        BY <2>3
      <4>2. j \in 1..(i + 1) /\ \A l \in (j + 1)..(i + 1) : l \in places => l \in (j + 1)..i
        BY <2>1, <2>6
      <4> QED
        BY <3>1, <4>1, <4>2
    <3> QED
      BY <2>1, <3>1, <3>2
  <2> QED
    BY <2>5, <2>6
<1>7. n \in P
  <2> HIDE DEF P
  <2>1. \A i \in 0..N : i \in P
    BY <1>1, <1>5, <1>6, UpTo
  <2> QED
    BY <1>4, <2>1
<1> QED
  BY <1>7 DEF k, InOrder

\* Of the previews from a place on, one is the last.
LEMMA LastPreview ==
  ASSUME NEW q, Len(q) \in Nat, NEW i \in 1..Len(q), q[i].do = "preview"
  PROVE  \E l \in i..Len(q) : /\ q[l].do = "preview"
                              /\ \A k \in (l + 1)..Len(q) : q[k].do # "preview"
<1> DEFINE N == Len(q)
           T == {d \in 0..(N - i) : q[N - d].do = "preview"}
<1>1. N \in Nat /\ i \in 1..N /\ N - i \in 0..(N - i) /\ N - (N - i) = i
  OBVIOUS
<1> HIDE DEF N
<1>2. T \subseteq Nat /\ T # {}
  <2>1. N - i \in T
    BY <1>1
  <2> QED
    BY <2>1
<1>3. PICK d \in T : \A e \in T : d <= e
  <2> HIDE DEF T
  <2> QED
    BY <1>2, Least
<1>4. N - d \in i..N /\ q[N - d].do = "preview" /\ d \in 0..(N - i)
  BY <1>1
<1>5. ASSUME NEW k \in ((N - d) + 1)..N PROVE q[k].do # "preview"
  <2>1. N - k \in 0..(N - i) /\ N - (N - k) = k /\ ~(d <= N - k)
    BY <1>1, <1>4
  <2>2. N - k \notin T
    BY <1>3, <2>1
  <2> QED
    BY <2>1, <2>2
<1> QED
  BY <1>4, <1>5 DEF N

\* handleCmd: what is dropped makes no difference to where a batch leads.
LEMMA SettledDrain ==
  ASSUME NEW b \in Seq(Command)
  PROVE  /\ \A w : Settled(b, w) => Settled(StillMatters(b), w)
         /\ Asking(b) => Asking(StillMatters(b))
<1> DEFINE places == {i \in DOMAIN b :
                        IsFrames(b[i]) => \A k \in (i + 1)..Len(b) : b[k].do # "preview"}
           N == Len(b)
           s == Kept(b, places)[N]
<1>1. N \in Nat /\ N \in 0..N /\ DOMAIN b = 1..N /\ StillMatters(b) = s
  <2>1. N \in Nat /\ DOMAIN b = 1..N
    BY LenProperties
  <2> QED
    BY <2>1 DEF StillMatters
<1>2. \A l \in 1..N : (\A k \in (l + 1)..N : b[k].do # "preview") => l \in places
  BY <1>1
<1> HIDE DEF places
<1>3. \A i \in 1..N : i \in places => Waits(s, b[i])
  BY <1>1, KeptIs
<1>4. \A m \in 1..Len(s) : \E j \in 1..N :
        /\ s[m] = b[j]
        /\ \A l \in (j + 1)..N : l \in places => \E o \in (m + 1)..Len(s) : s[o] = b[l]
  <2>1. InOrder(s, b, places, N)
    BY <1>1, KeptInOrder
  <2> HIDE DEF s, N
  <2> QED
    BY <2>1 DEF InOrder
<1> HIDE DEF s, N
<1>5. ASSUME NEW w, Settled(b, w) PROVE Settled(s, w)
  <2> SUFFICES ASSUME NEW m \in 1..Len(s), s[m].do \in {"preview", "commit"}, s[m].win # w
               PROVE  \E o \in (m + 1)..Len(s) : s[o].do = "preview"
    BY DEF Settled
  <2>1. PICK j \in 1..N :
          /\ s[m] = b[j]
          /\ \A l \in (j + 1)..N : l \in places => \E o \in (m + 1)..Len(s) : s[o] = b[l]
    BY <1>4
  <2>2. PICK k \in (j + 1)..N : b[k].do = "preview"
    BY <1>5, <2>1 DEF Settled, N
  <2>3. k \in 1..N
    BY <1>1
  <2>4. PICK l \in k..N : b[l].do = "preview" /\ \A i \in (l + 1)..N : b[i].do # "preview"
    BY <1>1, <2>2, <2>3, LastPreview DEF N
  <2>5. l \in 1..N /\ l \in (j + 1)..N
    BY <1>1, <2>3
  <2> QED
    BY <1>2, <2>1, <2>4, <2>5
<1>6. ASSUME Asking(b) PROVE Asking(s)
  <2>1. PICK k \in 1..N : b[k].do = "preview"
    BY <1>6 DEF Asking, N
  <2>2. PICK l \in k..N : b[l].do = "preview" /\ \A i \in (l + 1)..N : b[i].do # "preview"
    BY <1>1, <2>1, LastPreview DEF N
  <2>3. l \in 1..N
    BY <1>1
  <2>4. Waits(s, b[l])
    BY <1>2, <1>3, <2>2, <2>3
  <2> QED
    BY <2>2, <2>4 DEF Asking, Waits
<1> QED
  BY <1>1, <1>5, <1>6

\* The next command is run: it is of the window, or it is not the last word.
LEMMA SettledTail ==
  ASSUME NEW q \in Seq(Command), q # <<>>
  PROVE  /\ \A w : Settled(q, w) =>
              /\ Settled(Tail(q), w)
              /\ Head(q).do \in {"preview", "commit"} => Head(q).win = w \/ Asking(Tail(q))
         /\ Asking(q) => Head(q).do = "preview" \/ Asking(Tail(q))
<1> DEFINE r == Tail(q)  N == Len(q)
<1>1. /\ N \in Nat /\ N # 0 /\ Len(r) = N - 1 /\ Head(q) = q[1]
      /\ \A i \in 1..(N - 1) : r[i] = q[i + 1]
  BY HeadTailProperties, EmptySeq, LenProperties
<1> HIDE DEF r, N
<1>2. ASSUME NEW k \in 2..N PROVE k - 1 \in 1..(N - 1) /\ r[k - 1] = q[k]
  <2>1. k - 1 \in 1..(N - 1) /\ (k - 1) + 1 = k
    BY <1>1
  <2> QED
    BY <1>1, <2>1
<1>3. ASSUME NEW w, Settled(q, w) PROVE Settled(r, w)
  <2> SUFFICES ASSUME NEW i \in 1..(N - 1), r[i].do \in {"preview", "commit"}, r[i].win # w
               PROVE  \E k \in (i + 1)..(N - 1) : r[k].do = "preview"
    BY <1>1 DEF Settled
  <2>1. i + 1 \in 1..N /\ q[i + 1] = r[i]
    BY <1>1
  <2>2. PICK k \in ((i + 1) + 1)..N : q[k].do = "preview"
    BY <1>3, <2>1 DEF Settled, N
  <2>3. k \in 2..N /\ k - 1 \in (i + 1)..(N - 1)
    BY <1>1
  <2> QED
    BY <1>2, <2>2, <2>3
<1>4. ASSUME NEW w, Settled(q, w), Head(q).do \in {"preview", "commit"}
      PROVE  Head(q).win = w \/ Asking(r)
  <2>1. 1 \in 1..N
    BY <1>1
  <2>2. CASE \E k \in 2..N : q[k].do = "preview"
    BY <1>1, <1>2, <2>2 DEF Asking
  <2>3. q[1].win = w \/ \E k \in (1 + 1)..N : q[k].do = "preview"
    BY <1>1, <1>4, <2>1 DEF Settled, N
  <2> QED
    BY <1>1, <2>2, <2>3
<1>5. ASSUME Asking(q) PROVE Head(q).do = "preview" \/ Asking(r)
  <2>1. PICK k \in 1..N : q[k].do = "preview"
    BY <1>5 DEF Asking, N
  <2>2. k = 1 \/ k \in 2..N
    BY <1>1
  <2> QED
    BY <1>1, <1>2, <2>1, <2>2 DEF Asking
<1> QED
  BY <1>3, <1>4, <1>5 DEF r

\* What two queues have when one is put behind the other.
LEMMA ConcatIs ==
  ASSUME NEW q \in Seq(Command), NEW s \in Seq(Command)
  PROVE  /\ q \o s \in Seq(Command) /\ Len(q) \in Nat /\ Len(s) \in Nat
         /\ Len(q \o s) = Len(q) + Len(s)
         /\ \A i \in 1..Len(q) : i \in 1..(Len(q) + Len(s)) /\ (q \o s)[i] = q[i]
         /\ \A i \in 1..Len(s) : Len(q) + i \in 1..(Len(q) + Len(s)) /\ (q \o s)[Len(q) + i] = s[i]
         /\ \A i \in 1..(Len(q) + Len(s)) :
              i \in 1..Len(q) \/ \E k \in 1..Len(s) : i = Len(q) + k
<1> DEFINE u == q \o s  m == Len(q)  n == Len(s)
<1>1. m \in Nat /\ n \in Nat
  BY LenProperties
<1>2. /\ u \in Seq(Command) /\ Len(u) = m + n
      /\ \A i \in 1..(m + n) : u[i] = IF i <= m THEN q[i] ELSE s[i - m]
  BY ConcatProperties
<1> HIDE DEF u, m, n
<1>3. ASSUME NEW i \in 1..m PROVE i \in 1..(m + n) /\ u[i] = q[i]
  BY <1>1, <1>2
<1>4. ASSUME NEW i \in 1..n PROVE m + i \in 1..(m + n) /\ u[m + i] = s[i]
  <2>1. m + i \in 1..(m + n) /\ ~(m + i <= m) /\ (m + i) - m = i
    BY <1>1
  <2> QED
    BY <1>2, <2>1
<1>5. ASSUME NEW i \in 1..(m + n), i \notin 1..m PROVE \E k \in 1..n : i = m + k
  <2>1. i - m \in 1..n /\ i = m + (i - m)
    BY <1>1, <1>5
  <2> QED
    BY <2>1
<1> QED
  BY <1>1, <1>2, <1>3, <1>4, <1>5 DEF u, m, n

\* More is queued: a preview of a window first and no other after it has the last word,
LEMMA SettledAsked ==
  ASSUME NEW q \in Seq(Command), NEW s \in Seq(Command), NEW w,
         s # <<>>, s[1] = Preview(w), \A i \in 2..Len(s) : s[i].do = "prefetch"
  PROVE  Settled(q \o s, w) /\ Asking(q \o s)
<1> DEFINE u == q \o s  m == Len(q)  n == Len(s)
<1>1. /\ m \in Nat /\ n \in Nat /\ Len(u) = m + n
      /\ \A i \in 1..m : u[i] = q[i]
      /\ \A i \in 1..n : m + i \in 1..(m + n) /\ u[m + i] = s[i]
      /\ \A i \in 1..(m + n) : i \in 1..m \/ \E k \in 1..n : i = m + k
  BY ConcatIs
<1>2. n # 0
  BY EmptySeq
<1>3. s[1].do = "preview" /\ s[1].win = w
  BY DEF Preview
<1>4. \A i \in 2..n : s[i].do = "prefetch"
  OBVIOUS
<1> HIDE DEF u, m, n
<1>5. 1 \in 1..n /\ m + 1 \in 1..(m + n) /\ u[m + 1].do = "preview"
  BY <1>1, <1>2, <1>3
<1>6. ASSUME NEW i \in 1..Len(u), u[i].do \in {"preview", "commit"}, u[i].win # w
      PROVE  \E k \in (i + 1)..Len(u) : u[k].do = "preview"
  <2>1. CASE i \in 1..m
    <3>1. m + 1 \in (i + 1)..Len(u)
      BY <1>1, <1>2, <2>1
    <3> QED
      BY <1>5, <3>1
  <2>2. CASE \E k \in 1..n : i = m + k
    <3>1. PICK k \in 1..n : i = m + k /\ u[i] = s[k]
      BY <1>1, <2>2
    <3>2. k = 1 \/ k \in 2..n
      BY <1>1
    <3> QED
      BY <1>3, <1>4, <1>6, <3>1, <3>2
  <2> QED
    BY <1>1, <2>1, <2>2
<1> QED
  BY <1>1, <1>5, <1>6 DEF Settled, Asking, u

\* and what is neither a preview nor a commit of another window changes nothing.
LEMMA SettledMore ==
  ASSUME NEW q \in Seq(Command), NEW c \in Command, NEW w,
         c.do \in {"preview", "commit"} => c.win = w
  PROVE  /\ Settled(q, w) => Settled(q \o <<c>>, w)
         /\ Asking(q) => Asking(q \o <<c>>)
<1>1. PICK s \in Seq(Command) : s = <<c>> /\ Len(s) = 1 /\ s[1] = c
  BY AppendIs
<1> DEFINE u == q \o s  m == Len(q)
<1>2. /\ m \in Nat /\ Len(u) = m + 1
      /\ \A i \in 1..m : i \in 1..(m + 1) /\ u[i] = q[i]
      /\ \A i \in 1..1 : u[m + i] = s[i]
  BY <1>1, ConcatIs
<1> HIDE DEF u, m
<1>3. u[m + 1] = c
  BY <1>1, <1>2
<1>4. ASSUME Settled(q, w), NEW i \in 1..Len(u), u[i].do \in {"preview", "commit"}, u[i].win # w
      PROVE  \E k \in (i + 1)..Len(u) : u[k].do = "preview"
  <2>1. i \in 1..m
    <3>1. i # m + 1
      BY <1>3, <1>4
    <3> QED
      BY <1>2, <3>1
  <2>2. PICK k \in (i + 1)..m : q[k].do = "preview"
    BY <1>2, <1>4, <2>1 DEF Settled, m
  <2>3. k \in 1..m /\ k \in (i + 1)..Len(u)
    BY <1>2, <2>1
  <2> QED
    BY <1>2, <2>2, <2>3
<1>5. Asking(q) => Asking(u)
  BY <1>2 DEF Asking, m
<1> QED
  BY <1>1, <1>4, <1>5 DEF Settled, u

-----------------------------------------------------------------------------
(* The billboard follows the selection.                                      *)

\* What is shown when the preview under way is: that, or the billboard, or the docked window.
Final ==
  IF job # None /\ job.kind \in {"start", "show"} THEN job.win
  ELSE IF scrub THEN pv.target ELSE dock

\* A billboard is replaced or repeated only while one shows.
Shows == job # None /\ job.kind \in {"show", "stream"} => scrub

\* A new selection is on its way to the sidebar.
SelectWaits == \E i \in 1..Len(wire) : wire[i].type = "select"

\* What is queued leads to the selection, or has nothing more to say and it is there.
Arrives ==
  Settled(batch \o cmds, tui.sel) /\ (Asking(batch \o cmds) \/ Final = tui.sel)

\* The sidebar's selection is what is shown or will be, or it will hear of another, or
\* has not asked.
Follows ==
  tui.up = "here" /\ ~failed => tui.unasked \/ HelloWaits \/ SelectWaits \/ Arrives

FInv == IInv /\ Shows /\ Follows

\* A step that leaves a sidebar where it is, and the queue leading there.
LEMMA FollowsOn ==
  ASSUME Follows, tui'.up = "here" => tui.up = "here", ~failed' => ~failed,
         tui.unasked => tui'.unasked, HelloWaits => HelloWaits', SelectWaits => SelectWaits',
         Arrives => Arrives'
  PROVE  Follows'
  BY DEF Follows

\* A selection is sent.
LEMMA SendsMore ==
  ASSUME TypeOK, NEW msgs \in Seq(Message), Sends(msgs)
  PROVE  /\ SelectWaits => SelectWaits'
         /\ tui.up = "here" /\ (\E i \in 1..Len(msgs) : msgs[i].type = "select") => SelectWaits'
<1>1. wire' = IF tui.up = "here" THEN wire \o msgs ELSE wire
  BY DEF Sends
<1>2. PICK s \in Seq(Message) : s = wire
  BY DEF TypeOK
<1> DEFINE u == s \o msgs  m == Len(s)  n == Len(msgs)
<1>3. /\ m \in Nat /\ n \in Nat /\ Len(u) = m + n
      /\ \A i \in 1..(m + n) : u[i] = IF i <= m THEN s[i] ELSE msgs[i - m]
  BY ConcatProperties, LenProperties
<1> HIDE DEF u, m, n
<1>4. ASSUME NEW i \in 1..m PROVE i \in 1..Len(u) /\ u[i] = s[i]
  BY <1>3
<1>5. ASSUME NEW i \in 1..n PROVE m + i \in 1..Len(u) /\ u[m + i] = msgs[i]
  <2>1. m + i \in 1..(m + n) /\ ~(m + i <= m) /\ (m + i) - m = i
    BY <1>3
  <2> QED
    BY <1>3, <2>1
<1>6. ASSUME tui.up = "here" PROVE wire' = u
  BY <1>1, <1>2, <1>6 DEF u
<1>7. ASSUME SelectWaits PROVE SelectWaits'
  <2>1. PICK i \in 1..m : s[i].type = "select"
    BY <1>2, <1>7 DEF SelectWaits, m
  <2>2. CASE tui.up = "here"
    BY <1>4, <1>6, <2>1, <2>2 DEF SelectWaits
  <2>3. CASE tui.up # "here"
    BY <1>1, <1>7, <2>3 DEF SelectWaits
  <2> QED
    BY <2>2, <2>3
<1>8. ASSUME tui.up = "here", NEW i \in 1..n, msgs[i].type = "select" PROVE SelectWaits'
  BY <1>5, <1>6, <1>8 DEF SelectWaits
<1> QED
  BY <1>7, <1>8 DEF n

\* The daemon selects a window, whatever else it sends.
LEMMA PushesMore ==
  ASSUME TypeOK, NEW msgs \in Seq(Message), NEW w \in Window, NEW quiet \in BOOLEAN,
         Pushes(msgs, w, quiet)
  PROVE  tui.up = "here" => SelectWaits'
<1>1. PICK m \in Message : m = Select(w, quiet) /\ m.type = "select"
  BY MessagesAre
<1>2. PICK s \in Seq(Message) : s = <<m>> /\ Len(s) = 1 /\ s[1] = m
  BY <1>1, OneIs
<1>3. PICK u \in Seq(Message) : u = msgs \o s
  BY ConcatProperties
<1>4. Sends(u)
  BY <1>1, <1>2, <1>3 DEF Pushes
<1>5. \E i \in 1..Len(u) : u[i].type = "select"
  <2>1. Len(msgs) \in Nat
    BY LenProperties
  <2>2. Len(u) = Len(msgs) + 1 /\ u[Len(msgs) + 1] = m
    <3>1. /\ Len(msgs \o s) = Len(msgs) + Len(s)
          /\ \A i \in 1..(Len(msgs) + Len(s)) :
               (msgs \o s)[i] = IF i <= Len(msgs) THEN msgs[i] ELSE s[i - Len(msgs)]
      BY ConcatProperties
    <3>2. /\ Len(msgs) + 1 \in 1..(Len(msgs) + Len(s)) /\ ~(Len(msgs) + 1 <= Len(msgs))
          /\ (Len(msgs) + 1) - Len(msgs) = 1
      BY <1>2, <2>1
    <3> QED
      BY <1>2, <1>3, <3>1, <3>2
  <2>3. Len(msgs) + 1 \in 1..Len(u)
    BY <2>1, <2>2
  <2> QED
    BY <1>1, <2>2, <2>3
<1> QED
  BY <1>4, <1>5, SendsMore

\* Asking for a geometry takes no selection back.
LEMMA AsksMore ==
  ASSUME TypeOK, NEW w \in Window, NEW kind \in {"start", "show", "stream", "prefetch"},
         NEW p \in Views, Asks(w, kind, p)
  PROVE  SelectWaits => SelectWaits'
  BY AsksIs, SendsMore

\* The queue while a command is run: it is the first, and the others stay.
LEMMA QueueRuns ==
  ASSUME TypeOK, NEW what, Runs(what)
  PROVE  /\ batch \o cmds \in Seq(Command) /\ batch \o cmds # <<>>
         /\ Head(batch \o cmds) = Head(batch) /\ Tail(batch \o cmds) = batch' \o cmds'
         /\ Head(batch) \in Command /\ Head(batch).do = what
<1>1. /\ batch # <<>> /\ batch' = Tail(batch) /\ cmds' = cmds /\ Head(batch).do = what
  BY DEF Runs
<1>2. PICK q \in Seq(Command), s \in Seq(Command) : q = batch /\ s = cmds
  BY DEF TypeOK
<1>3. PICK c \in Command, r \in Seq(Command) : c = Head(q) /\ r = Tail(q)
  BY <1>1, <1>2, HeadTailProperties
<1>4. <<c>> \in Seq(Command) /\ q = <<c>> \o r
  <2>1. <<c>> \in Seq(Command)
    OBVIOUS
  <2>2. q = <<c>> \o r
    BY <1>1, <1>2, <1>3
  <2> QED
    BY <2>1, <2>2
<1>5. q \o s = <<c>> \o (r \o s) /\ r \o s \in Seq(Command)
  BY <1>4, ConcatAssociative, ConcatProperties
<1>6. PICK u \in Seq(Command) : u = r \o s
  BY <1>5
<1>7. /\ <<c>> \o u \in Seq(Command) /\ <<c>> \o u # <<>>
      /\ Head(<<c>> \o u) = c /\ Tail(<<c>> \o u) = u
  OBVIOUS
<1> QED
  BY <1>1, <1>2, <1>3, <1>5, <1>6, <1>7

\* More is queued.
LEMMA QueueMore ==
  ASSUME TypeOK, NEW s \in Seq(Command), cmds' = cmds \o s, batch' = batch
  PROVE  batch \o cmds \in Seq(Command) /\ batch' \o cmds' = (batch \o cmds) \o s
<1>1. PICK q \in Seq(Command), r \in Seq(Command) : q = batch /\ r = cmds
  BY DEF TypeOK
<1>2. (q \o r) \o s = q \o (r \o s) /\ q \o r \in Seq(Command)
  BY ConcatAssociative, ConcatProperties
<1> QED
  BY <1>1, <1>2

\* A step that touches neither the sidebar nor the queue, and changes what is shown only
\* if it fails.
LEMMA FollowsAside ==
  ASSUME FInv, UNCHANGED <<batch, cmds, tui>>, ~failed' => ~failed,
         SelectWaits => SelectWaits', ~failed' => Final' = Final
  PROVE  Follows'
<1>1. HelloWaits => HelloWaits'
  BY DEF HelloWaits
<1>2. ~failed' => (Arrives => Arrives')
  BY DEF Arrives
<1> QED
  BY <1>1, <1>2 DEF FInv, Follows

\* A command that leaves the sidebar where it is, and what is shown; or makes it its own window.
LEMMA RunsOn ==
  ASSUME FInv, NEW what, Runs(what), what # "hello", tui'.up = "here" => tui' = tui,
         SelectWaits => SelectWaits',
         tui'.up = "here" =>
           \/ what # "preview" /\ Final' = Final
           \/ what \in {"preview", "commit"} /\ (Head(batch).win = tui.sel => Final' = tui.sel)
  PROVE  Follows'
<1>1. TypeOK /\ Follows
  BY DEF FInv, IInv
<1>2. failed' = failed /\ (tui'.up = "here" => (HelloWaits => HelloWaits'))
  BY <1>1, RunsIs DEF Hello
<1>3. PICK q, r : /\ q \in Seq(Command) /\ q = batch \o cmds /\ q # <<>> /\ Head(q) = Head(batch)
                  /\ r = batch' \o cmds' /\ Tail(q) = r /\ Head(batch).do = what
  BY <1>1, QueueRuns
<1>4. ASSUME tui'.up = "here", Arrives PROVE Arrives'
  <2>1. tui' = tui /\ Settled(q, tui.sel) /\ (Asking(q) \/ Final = tui.sel)
    BY <1>3, <1>4 DEF Arrives
  <2>2. /\ Settled(r, tui.sel)
        /\ what \in {"preview", "commit"} => Head(batch).win = tui.sel \/ Asking(r)
        /\ Asking(q) => what = "preview" \/ Asking(r)
    BY <1>3, <2>1, SettledTail
  <2>3. Asking(r) \/ Final' = tui.sel
    BY <1>4, <2>1, <2>2
  <2>4. Arrives' <=> Settled(r, tui'.sel) /\ (Asking(r) \/ Final' = tui'.sel)
    BY <1>3 DEF Arrives
  <2> QED
    BY <2>1, <2>2, <2>3, <2>4
<1> QED
  BY <1>1, <1>2, <1>4 DEF Follows

\* A sidebar that will hear of a new selection, or is not there, or will be told all.
LEMMA FollowsAnew ==
  ASSUME tui'.up = "here" => SelectWaits' \/ HelloWaits' \/ tui'.unasked \/ Arrives' PROVE Follows'
  BY DEF Follows

\* What asking makes of what is shown.
LEMMA FinalAsked ==
  ASSUME TypeOK, job = None, NEW w \in Window, NEW kind \in {"start", "show", "stream", "prefetch"},
         NEW p \in Views, Asks(w, kind, p), scrub' = scrub, dock' = dock
  PROVE  /\ kind \in {"start", "show"} => Final' = w
         /\ kind \in {"stream", "prefetch"} /\ p.target = pv.target => Final' = Final
<1>1. Asked(w, kind) \in Job /\ Asked(w, kind).win = w /\ Asked(w, kind).kind = kind
  BY DEF Asked, Job, TypeOK
<1>2. Asked(w, kind) # None
  BY <1>1, BillboardsAssumption
<1>3. pv' = p /\ job' \in {None, Asked(w, kind)}
      /\ (kind \in {"start", "show"} => job' = Asked(w, kind))
  BY DEF Asks
<1>4. ASSUME kind \in {"start", "show"} PROVE Final' = w
  BY <1>1, <1>2, <1>3, <1>4 DEF Final
<1>5. ASSUME kind \in {"stream", "prefetch"}, p.target = pv.target PROVE Final' = Final
  BY <1>1, <1>2, <1>3, <1>5 DEF Final
<1> QED
  BY <1>4, <1>5

\* A preview shows its window, or its window is the docked one.
LEMMA RunPreviewFollows == ASSUME FInv, RunPreview PROVE Shows' /\ Follows'
<1>1. TypeOK
  BY DEF FInv, IInv
<1>2. PICK w : w = Head(batch).win
  OBVIOUS
<1>3. /\ Runs("preview") /\ dock' = dock /\ scrub' = scrub /\ chosen' = chosen /\ tui' = tui
      /\ \/ dock # None /\ scrub /\ Asks(w, "show", pv)
         \/ dock # None /\ ~scrub /\ w # dock /\ Asks(w, "start", Reset(pv))
         \/ (dock # None => ~scrub /\ w = dock) /\ pv' = pv /\ job' = job /\ wire' = wire
  BY <1>2 DEF RunPreview, StartsScrub
<1>4. job = None /\ w \in Window
  BY <1>1, <1>2, <1>3, RunsIs DEF Command
<1>5. Reset(pv) \in Views /\ pv \in Views
  BY <1>1 DEF TypeOK, Reset, Views, NoWarm
<1>6. CASE \/ dock # None /\ scrub /\ Asks(w, "show", pv)
           \/ dock # None /\ ~scrub /\ w # dock /\ Asks(w, "start", Reset(pv))
  <2>1. PICK kind \in {"show", "start"}, p \in Views : Asks(w, kind, p) /\ (kind = "show" => scrub)
    BY <1>5, <1>6
  <2>2. job' # None => job'.kind = kind
    BY <2>1 DEF Asks, Asked
  <2>3. SelectWaits => SelectWaits'
    BY <1>1, <1>4, <2>1, AsksMore
  <2>4. Final' = w
    BY <1>1, <1>3, <1>4, <2>1, FinalAsked
  <2>5. Shows'
    BY <1>3, <2>1, <2>2 DEF Shows
  <2> QED
    BY <1>2, <1>3, <2>3, <2>4, <2>5, RunsOn
<1>7. CASE (dock # None => ~scrub /\ w = dock) /\ pv' = pv /\ job' = job /\ wire' = wire
  <2>1. Shows'
    BY <1>4, <1>7 DEF Shows
  <2>2. SelectWaits => SelectWaits'
    BY <1>7 DEF SelectWaits
  <2>3. tui'.up = "here" => Final' = w
    <3>1. tui.up = "here" => dock # None
      BY <1>1 DEF TypeOK
    <3> QED
      BY <1>3, <1>4, <1>7, <3>1 DEF Final
  <2> QED
    BY <1>2, <1>3, <2>1, <2>2, <2>3, RunsOn
<1> QED
  BY <1>3, <1>6, <1>7

\* A frame ahead of the selection shows nothing else.
LEMMA RunPrefetchFollows == ASSUME FInv, RunPrefetch PROVE Shows' /\ Follows'
<1>1. TypeOK
  BY DEF FInv, IInv
<1>2. PICK w : w = Head(batch).win
  OBVIOUS
<1>3. /\ Runs("prefetch") /\ dock' = dock /\ scrub' = scrub /\ chosen' = chosen /\ tui' = tui
      /\ \/ Asks(w, "prefetch", pv)
         \/ pv' = pv /\ job' = job /\ wire' = wire
  BY <1>2 DEF RunPrefetch
<1>4. job = None /\ w \in Window /\ pv \in Views
  BY <1>1, <1>2, <1>3, RunsIs DEF Command, TypeOK
<1>5. CASE Asks(w, "prefetch", pv)
  <2>1. job' # None => job'.kind = "prefetch"
    BY <1>1, <1>4, <1>5, AsksIs
  <2>2. SelectWaits => SelectWaits'
    BY <1>1, <1>4, <1>5, AsksMore
  <2>3. Final' = Final
    BY <1>1, <1>3, <1>4, <1>5, FinalAsked
  <2> QED
    BY <1>3, <2>1, <2>2, <2>3, RunsOn DEF Shows
<1>6. CASE pv' = pv /\ job' = job /\ wire' = wire
  <2>1. Final' = Final /\ (SelectWaits => SelectWaits') /\ Shows'
    BY <1>3, <1>4, <1>6 DEF Final, SelectWaits, Shows
  <2> QED
    BY <1>3, <2>1, RunsOn
<1> QED
  BY <1>3, <1>5, <1>6

\* A commit goes where the queue leads, or tells the sidebar where it went.
LEMMA RunCommitFollows == ASSUME FInv, RunCommit PROVE Shows' /\ Follows'
<1>1. TypeOK
  BY DEF FInv, IInv
<1>2. PICK w : w = Head(batch).win
  OBVIOUS
<1>3. /\ Runs("commit") /\ pv' = pv /\ job' = job /\ tui' = tui
      /\ \/ w = dock /\ Sends(Unzoomed) /\ scrub' = FALSE /\ dock' = dock
         \/ Pushes(Unzoomed, w, FALSE)
         \/ dock' = dock /\ scrub' = scrub /\ wire' = wire
  BY <1>2 DEF RunCommit
<1>4. job = None /\ w \in Window
  BY <1>1, <1>2, <1>3, RunsIs DEF Command
<1>5. Shows'
  BY <1>3, <1>4 DEF Shows
<1>6. Unzoomed \in Seq(Message)
  BY UnzoomedType
<1>7. CASE w = dock /\ Sends(Unzoomed) /\ scrub' = FALSE /\ dock' = dock
  <2>1. SelectWaits => SelectWaits'
    BY <1>1, <1>6, <1>7, SendsMore
  <2>2. Final' = w
    BY <1>3, <1>4, <1>7 DEF Final
  <2> QED
    BY <1>2, <1>3, <1>5, <2>1, <2>2, RunsOn
<1>8. CASE Pushes(Unzoomed, w, FALSE)
  <2>1. tui.up = "here" => SelectWaits'
    BY <1>1, <1>4, <1>6, <1>8, PushesMore
  <2> QED
    BY <1>3, <1>5, <2>1, FollowsAnew
<1>9. CASE dock' = dock /\ scrub' = scrub /\ wire' = wire
  <2>1. Final' = Final /\ (SelectWaits => SelectWaits')
    BY <1>3, <1>9 DEF Final, SelectWaits
  <2> QED
    BY <1>3, <1>5, <2>1, RunsOn
<1> QED
  BY <1>3, <1>7, <1>8, <1>9

\* Without a sidebar that has said hello there is nothing to follow.
LEMMA OpensFollows ==
  ASSUME TypeOK, NEW w, NEW win, NEW quiet, Opens(w, win, quiet) PROVE Follows'
<1>1. tui'.up = "born"
  <2>1. tui.life + 1 \in Nat
    BY DEF TypeOK, Tui
  <2> QED
    BY <2>1, SidebarIs DEF Opens
<1> QED
  BY <1>1, FollowsAnew

\* The same when it is killed.
LEMMA ClosesFollows == ASSUME TypeOK, Closes PROVE Follows'
<1>1. tui'.up = "dead"
  <2>1. tui.life \in Nat
    BY DEF TypeOK, Tui
  <2> QED
    BY <2>1, SidebarIs DEF Closes
<1> QED
  BY <1>1, FollowsAnew

\* A command that finds nothing to do, and is not a preview, leaves all as it is.
LEMMA NothingFollows ==
  ASSUME FInv, NEW what, Runs(what), what \notin {"hello", "preview"}, Nothing PROVE Follows'
<1>1. /\ dock' = dock /\ scrub' = scrub /\ pv' = pv /\ job' = job /\ wire' = wire /\ tui' = tui
  BY DEF Nothing
<1>2. Final' = Final /\ (SelectWaits => SelectWaits')
  BY <1>1 DEF Final, SelectWaits
<1> QED
  BY <1>1, <1>2, RunsOn

\* toggle, whichever it is.
LEMMA TogglesFollows ==
  ASSUME FInv, NEW what, Runs(what), what \notin {"hello", "preview"}, Toggles PROVE Shows' /\ Follows'
<1>1. TypeOK /\ job = None
  BY RunsIs DEF FInv, IInv
<1>2. job' = job
  BY DEF Toggles, Closes, Nothing
<1>3. Shows'
  BY <1>1, <1>2 DEF Shows
<1>4. Follows'
  BY <1>1, OpensFollows, ClosesFollows, NothingFollows DEF Toggles
<1> QED
  BY <1>3, <1>4

\* close tells the sidebar that it is back where it is docked.
LEMMA RunCloseFollows == ASSUME FInv, RunClose PROVE Shows' /\ Follows'
<1>1. TypeOK /\ Runs("close") /\ job = None
  BY RunsIs DEF FInv, IInv, RunClose
<1>2. job' = job
  BY DEF RunClose, Closes, Nothing
<1>3. Shows'
  BY <1>1, <1>2 DEF Shows
<1>4. CASE dock # None /\ Pushes(Unzoomed, dock, FALSE) /\ tui' = tui
  <2>1. dock \in Window /\ Unzoomed \in Seq(Message)
    BY <1>1, <1>4, UnzoomedType DEF TypeOK
  <2>2. tui.up = "here" => SelectWaits'
    BY <1>1, <1>4, <2>1, PushesMore
  <2> QED
    BY <1>3, <1>4, <2>2, FollowsAnew
<1>5. CASE Closes
  BY <1>1, <1>3, <1>5, ClosesFollows
<1>6. CASE Nothing
  BY <1>1, <1>3, <1>6, NothingFollows
<1> QED
  BY <1>4, <1>5, <1>6 DEF RunClose

\* browse billboards the docked window, which is what is shown anyway.
LEMMA RunBrowseFollows == ASSUME FInv, RunBrowse PROVE Shows' /\ Follows'
<1>1. TypeOK /\ Runs("browse") /\ job = None /\ scrub' = scrub
  BY RunsIs DEF FInv, IInv, RunBrowse
<1>2. CASE \E w \in Window : Opens(w, w, FALSE) /\ job' = Asked(w, "start")
  <2>1. Follows'
    BY <1>1, <1>2, OpensFollows
  <2>2. job'.kind = "start"
    BY <1>2 DEF Asked
  <2> QED
    BY <2>1, <2>2 DEF Shows
<1>3. CASE dock # None /\ ~scrub /\ StartsScrub(dock) /\ UNCHANGED <<dock, chosen, tui>>
  <2>1. PICK w \in Window : w = dock
    BY <1>1, <1>3 DEF TypeOK
  <2>2. Asks(w, "start", Reset(pv)) /\ Reset(pv) \in Views
    BY <1>1, <1>3, <2>1 DEF StartsScrub, TypeOK, Reset, Views, NoWarm
  <2>3. Final' = w /\ (SelectWaits => SelectWaits')
    BY <1>1, <1>3, <2>2, FinalAsked, AsksMore
  <2>4. Final = w
    BY <1>1, <1>3, <2>1 DEF Final
  <2>5. job' # None => job'.kind = "start"
    BY <1>1, <2>2, AsksIs
  <2> QED
    BY <1>1, <1>3, <2>3, <2>4, <2>5, RunsOn DEF Shows
<1>4. CASE Nothing
  <2>1. Shows'
    BY <1>1, <1>4 DEF Nothing, Shows
  <2> QED
    BY <1>1, <1>4, <2>1, NothingFollows
<1> QED
  BY <1>2, <1>3, <1>4 DEF RunBrowse

\* agents tells the sidebar of the agent.
LEMMA RunAgentsFollows == ASSUME FInv, RunAgents PROVE Shows' /\ Follows'
<1>1. TypeOK /\ Runs("agents") /\ job = None
  BY RunsIs DEF FInv, IInv, RunAgents
<1>2. CASE \E w, agent \in Window : Opens(w, agent, TRUE) /\ UNCHANGED <<scrub, pv, job>>
  BY <1>1, <1>2, OpensFollows DEF Shows
<1>3. CASE \E agent \in Window : Pushes(<<>>, agent, TRUE) /\ UNCHANGED <<dock, scrub, pv, job, tui>>
  <2>1. PICK s \in Seq(Message) : s = <<>>
    BY EmptySeq
  <2>2. tui.up = "here" => SelectWaits'
    BY <1>1, <1>3, <2>1, PushesMore
  <2> QED
    BY <1>1, <1>3, <2>2, FollowsAnew DEF Shows
<1>4. CASE Toggles
  BY <1>1, <1>4, TogglesFollows
<1> QED
  BY <1>2, <1>3, <1>4 DEF RunAgents

\* The hello is answered with the selection on record.
LEMMA RunHelloFollows == ASSUME FInv, RunHello PROVE Shows' /\ Follows'
<1>1. TypeOK
  BY DEF FInv, IInv
<1>2. /\ Runs("hello") /\ dock' = dock /\ scrub' = scrub /\ pv' = pv /\ job' = job /\ tui' = tui
  BY DEF RunHello
<1>3. job = None /\ failed' = failed
  BY <1>1, <1>2, RunsIs
<1>4. Shows'
  BY <1>2, <1>3 DEF Shows
<1>5. CASE tui.up = "here" /\ Head(batch).by = tui.life
  <2> DEFINE f == IF scrub /\ pv.last # None THEN <<Frame(pv.target, pv.gen, pv.last)>> ELSE <<>>
             h == IF scrub THEN <<Surface(TRUE)>> ELSE <<>>
             m == Select(chosen.win, chosen.quiet)
  <2>1. wire' = wire \o ((h \o <<m>>) \o f)
    BY <1>1, <1>5 DEF RunHello, HelloReplay, TypeOK
  <2>2. m \in Message /\ m.type = "select"
    BY <1>1, MessagesAre DEF TypeOK
  <2>3. f \in Seq(Message)
    <3>1. CASE scrub /\ pv.last # None
      <4>1. pv.target \in Window /\ pv.gen \in Nat /\ pv.last.ids \in Nat /\ pv.last.text \in Texts
        BY <1>1, <3>1 DEF TypeOK, Views, Memory, FInv, IInv, Streams
      <4>2. Frame(pv.target, pv.gen, pv.last) \in Message
        BY <4>1, FrameIs
      <4> QED
        BY <3>1, <4>2, OneIs
    <3>2. CASE ~(scrub /\ pv.last # None)
      BY <3>2
    <3> QED
      BY <3>1, <3>2
  <2>4. h \in Seq(Message)
    <3>1. PICK n \in Message : n = Surface(TRUE)
      BY MessagesAre
    <3>2. <<n>> \in Seq(Message)
      BY OneIs
    <3>3. <<>> \in Seq(Message)
      OBVIOUS
    <3> QED
      BY <3>1, <3>2, <3>3
  <2> HIDE DEF f, h, m
  <2>5. PICK a \in Seq(Message), n \in Message, u \in Seq(Message) :
          a = h /\ n = m /\ n.type = "select" /\ u = f
    BY <2>2, <2>3, <2>4
  <2>6. PICK s \in Seq(Message) : s = <<n>> /\ Len(s) = 1 /\ s[1] = n
    BY <2>5, OneIs
  <2>7. /\ (a \o s) \o u \in Seq(Message)
        /\ \E i \in 1..Len((a \o s) \o u) : ((a \o s) \o u)[i].type = "select"
    <3>1. PICK c \in Seq(Message) : c = a \o s /\ Len(a) \in Nat /\ Len(u) \in Nat
      BY ConcatProperties, LenProperties
    <3>2. /\ Len(c) = Len(a) + Len(s)
          /\ \A i \in 1..(Len(a) + Len(s)) : c[i] = IF i <= Len(a) THEN a[i] ELSE s[i - Len(a)]
      BY <3>1, ConcatProperties
    <3>3. /\ Len(a) + 1 \in 1..(Len(a) + Len(s)) /\ ~(Len(a) + 1 <= Len(a))
          /\ (Len(a) + 1) - Len(a) = 1
      BY <2>6, <3>1
    <3>4. c[Len(a) + 1] = n
      BY <2>6, <3>2, <3>3
    <3>5. /\ c \o u \in Seq(Message) /\ Len(c \o u) = Len(c) + Len(u)
          /\ \A i \in 1..(Len(c) + Len(u)) : (c \o u)[i] = IF i <= Len(c) THEN c[i] ELSE u[i - Len(c)]
      BY ConcatProperties
    <3>6. Len(a) + 1 \in 1..(Len(c) + Len(u)) /\ Len(a) + 1 <= Len(c)
      BY <2>6, <3>1, <3>2
    <3>7. Len(a) + 1 \in 1..Len(c \o u) /\ (c \o u)[Len(a) + 1] = n
      BY <3>4, <3>5, <3>6
    <3>8. \E i \in 1..Len(c \o u) : (c \o u)[i].type = "select"
      BY <2>5, <3>7
    <3> QED
      BY <3>1, <3>5, <3>8
  <2>8. PICK msgs \in Seq(Message) : msgs = (a \o s) \o u /\ Sends(msgs)
    BY <1>5, <2>1, <2>5, <2>6, <2>7 DEF Sends
  <2>9. SelectWaits'
    BY <1>1, <1>5, <2>7, <2>8, SendsMore
  <2> QED
    BY <1>4, <2>9, FollowsAnew
<1>6. CASE ~(tui.up = "here" /\ Head(batch).by = tui.life)
  <2>1. wire' = wire
    BY <1>6 DEF RunHello
  <2>2. CASE tui.up = "here"
    <3>1. Head(batch) # Hello(tui.life)
      BY <1>6, <2>2 DEF Hello
    <3>2. HelloWaits => HelloWaits'
      BY <1>1, <1>2, <3>1, RunsIs
    <3>3. Final' = Final /\ (SelectWaits => SelectWaits')
      BY <1>2, <2>1 DEF Final, SelectWaits
    <3>4. PICK q, r : /\ q \in Seq(Command) /\ q = batch \o cmds /\ q # <<>> /\ Head(q).do = "hello"
                      /\ r = batch' \o cmds' /\ Tail(q) = r
      BY <1>1, <1>2, QueueRuns
    <3>5. Arrives => Arrives'
      <4>1. \A w : Settled(q, w) => Settled(r, w)
        BY <3>4, SettledTail
      <4>2. Asking(q) => Asking(r)
        BY <3>4, SettledTail
      <4>3. Arrives <=> Settled(q, tui.sel) /\ (Asking(q) \/ Final = tui.sel)
        BY <3>4 DEF Arrives
      <4>4. Arrives' <=> Settled(r, tui'.sel) /\ (Asking(r) \/ Final' = tui'.sel)
        BY <3>4 DEF Arrives
      <4> QED
        BY <1>2, <3>3, <4>1, <4>2, <4>3, <4>4
    <3> QED
      BY <1>2, <1>3, <1>4, <3>2, <3>3, <3>5, FollowsOn DEF FInv
  <2>3. CASE tui.up # "here"
    BY <1>2, <1>4, <2>3, FollowsAnew
  <2> QED
    BY <2>2, <2>3
<1> QED
  BY <1>5, <1>6

\* Whatever command is next.
LEMMA RunCmdFollows == ASSUME FInv, RunCmd PROVE Shows' /\ Follows'
<1>1. CASE RunToggle
  BY <1>1, TogglesFollows DEF RunToggle
<1> QED
  BY <1>1, RunPreviewFollows, RunPrefetchFollows, RunCommitFollows, RunCloseFollows, RunBrowseFollows,
     RunAgentsFollows, RunHelloFollows DEF RunCmd

\* The batch leads where the queue did.
LEMMA DrainFollows == ASSUME FInv, Drain PROVE Shows' /\ Follows'
<1>1. TypeOK
  BY DEF FInv, IInv
<1>2. /\ batch = <<>> /\ batch' = StillMatters(cmds) /\ cmds' = <<>>
      /\ UNCHANGED <<screen, now, dock, scrub, chosen, pv, job, wire, tui, keys, changes, late, failed>>
  BY DEF Drain
<1>3. PICK q \in Seq(Command), r \in Seq(Command) : q = cmds /\ r = batch' /\ r = StillMatters(q)
  BY <1>1, <1>2, MattersIs DEF TypeOK
<1>4. batch \o cmds = q /\ batch' \o cmds' = r
  BY <1>2, <1>3, ConcatEmptySeq
<1>5. (\A w : Settled(q, w) => Settled(r, w)) /\ (Asking(q) => Asking(r))
  BY <1>3, SettledDrain
<1>6. Final' = Final /\ (SelectWaits => SelectWaits') /\ Shows'
  BY <1>2 DEF Final, SelectWaits, Shows, FInv
<1>7. Arrives => Arrives'
  <2>1. Arrives <=> Settled(q, tui.sel) /\ (Asking(q) \/ Final = tui.sel)
    BY <1>4 DEF Arrives
  <2>2. Arrives' <=> Settled(r, tui'.sel) /\ (Asking(r) \/ Final' = tui'.sel)
    BY <1>4 DEF Arrives
  <2> QED
    BY <1>2, <1>5, <1>6, <2>1, <2>2
<1>8. HelloWaits => HelloWaits'
  <2>1. PICK h : h = Hello(tui.life) /\ h = Hello(tui'.life)
    BY <1>2
  <2>2. ~IsFrames(h) /\ ~Waits(<<>>, h)
    BY <2>1 DEF IsFrames, Hello, Waits
  <2>3. Waits(q, h) => Waits(r, h)
    BY <1>3, <2>2, MattersIs
  <2> QED
    BY <1>2, <1>3, <2>1, <2>2, <2>3 DEF HelloWaits
<1> QED
  BY <1>2, <1>6, <1>7, <1>8, FollowsOn DEF FInv

\* A capture goes on with what is under way, or it is given up.
LEMMA CapturesFollows == ASSUME FInv, Captures PROVE Shows' /\ Follows'
<1>1. TypeOK
  BY DEF FInv, IInv
<1>2. /\ job # None
      /\ job' = IF job.ids = screen[job.win].ids
                THEN [job EXCEPT !.text = screen[job.win].text] ELSE None
      /\ failed' = (failed \/ job' = None)
      /\ UNCHANGED <<screen, now, dock, scrub, chosen, pv, batch, cmds, wire, tui, keys, changes, late>>
  BY DEF Captures
<1>3. PICK j \in Job : j = job
  BY <1>1, <1>2 DEF TypeOK
<1>4. job' # None => job'.kind = j.kind /\ job'.win = j.win
  BY <1>2, <1>3 DEF Job
<1>5. Shows'
  BY <1>2, <1>3, <1>4 DEF Shows, FInv
<1>6. SelectWaits => SelectWaits'
  BY <1>2 DEF SelectWaits
<1>7. ~failed' => Final' = Final
  BY <1>2, <1>3, <1>4 DEF Final
<1> QED
  BY <1>2, <1>5, <1>6, <1>7, FollowsAside

\* What is shipped is messages.
LEMMA ShipsIs ==
  ASSUME TypeOK, Ships
  PROVE  /\ \E msgs \in Seq(Message) : Sends(msgs)
         /\ job # None /\ job' = None /\ scrub' = (scrub \/ job.kind = "start") /\ failed' = failed
         /\ UNCHANGED <<dock, batch, cmds, tui>>
         /\ pv'.target = IF job.kind = "prefetch" THEN pv.target ELSE job.win
<1>1. PICK j \in Job : j = job /\ j.text \in Texts /\ j.text # None
  BY DEF Ships, TypeOK, Job
<1>2. pv \in Views /\ pv.gen \in Nat /\ pv.gen + 1 \in Nat /\ j.win \in Window /\ j.ids \in Nat
  <2>1. pv \in Views /\ pv.gen \in Nat /\ j.win \in Window /\ j.ids \in Nat
    BY <1>1 DEF TypeOK, Views, Job
  <2> QED
    BY <2>1
<1>3. PICK f : f = Body(j, pv)
  OBVIOUS
<1> DEFINE gen == IF f = <<>> THEN pv.gen ELSE pv.gen + 1
           s == IF j.kind = "start" THEN <<Surface(TRUE)>> ELSE <<>>
<1>4. /\ job' = None /\ scrub' = (scrub \/ j.kind = "start") /\ failed' = failed
      /\ UNCHANGED <<dock, batch, cmds, tui>>
      /\ IF j.kind = "prefetch" THEN pv' = Warmed(pv, j) /\ Sends(<<Frame(j.win, 0, j)>>)
         ELSE pv' = Showing(pv, j, gen) /\ Sends(f \o s)
  BY <1>1, <1>3 DEF Ships, Body
<1> HIDE DEF gen
<1>5. Warmed(pv, j).target = pv.target /\ Showing(pv, j, gen).target = j.win
  BY <1>2 DEF Warmed, Showing, Views
<1>6. <<Frame(j.win, 0, j)>> \in Seq(Message)
  <2>1. Frame(j.win, 0, j) \in Message
    BY <1>1, <1>2, FrameIs
  <2> QED
    BY <2>1, OneIs
<1>7. f \in Seq(Message)
  <2>1. <<Frame(j.win, pv.gen + 1, j)>> \in Seq(Message)
    <3>1. Frame(j.win, pv.gen + 1, j) \in Message
      BY <1>1, <1>2, FrameIs
    <3> QED
      BY <3>1, OneIs
  <2>2. ASSUME pv.last # None PROVE <<Delta(j.win, pv.gen, j, pv.last)>> \in Seq(Message)
    <3>1. pv.last.text \in Texts
      BY <1>2, <2>2 DEF Views, Memory
    <3>2. Delta(j.win, pv.gen, j, pv.last) \in Message
      BY <1>1, <1>2, <3>1, DeltaIs
    <3> QED
      BY <3>2, OneIs
  <2>3. <<>> \in Seq(Message)
    OBVIOUS
  <2> QED
    BY <1>3, <2>1, <2>2, <2>3 DEF Body
<1>8. s \in Seq(Message)
  <2>1. PICK n \in Message : n = Surface(TRUE)
    BY MessagesAre
  <2>2. <<n>> \in Seq(Message)
    BY OneIs
  <2>3. <<>> \in Seq(Message)
    OBVIOUS
  <2> QED
    BY <2>1, <2>2, <2>3
<1> HIDE DEF s
<1>9. f \o s \in Seq(Message)
  BY <1>7, <1>8, ConcatProperties
<1>10. \E msgs \in Seq(Message) : Sends(msgs)
  BY <1>4, <1>6, <1>9
<1>11. job # None
  BY DEF Ships
<1> QED
  BY <1>1, <1>4, <1>5, <1>10, <1>11

\* A frame that is shipped is of what was to be shown.
LEMMA ShipsFollows == ASSUME FInv, Ships PROVE Shows' /\ Follows'
<1>1. TypeOK /\ Streams /\ Shows
  BY DEF FInv, IInv
<1>2. /\ \E msgs \in Seq(Message) : Sends(msgs)
      /\ job # None /\ job' = None /\ scrub' = (scrub \/ job.kind = "start") /\ failed' = failed
      /\ UNCHANGED <<dock, batch, cmds, tui>>
      /\ pv'.target = IF job.kind = "prefetch" THEN pv.target ELSE job.win
  BY <1>1, ShipsIs
<1>3. job.kind \in {"start", "show", "stream", "prefetch"} /\ scrub \in BOOLEAN
  BY <1>1, <1>2 DEF TypeOK, Job
<1>4. SelectWaits => SelectWaits'
  BY <1>1, <1>2, SendsMore
<1>5. Final' = Final
  <2>1. Final' = IF scrub' THEN pv'.target ELSE dock
    BY <1>2 DEF Final
  <2>2. CASE job.kind \in {"start", "show"}
    BY <1>1, <1>2, <2>1, <2>2 DEF Final, Shows
  <2>3. CASE job.kind = "stream"
    BY <1>1, <1>2, <1>3, <2>1, <2>3 DEF Final, Shows, Streams
  <2>4. CASE job.kind = "prefetch"
    BY <1>1, <1>2, <1>3, <2>1, <2>4 DEF Final
  <2> QED
    BY <1>3, <2>2, <2>3, <2>4
<1>6. Shows'
  BY <1>2 DEF Shows
<1> QED
  BY <1>2, <1>4, <1>5, <1>6, FollowsAside

\* The stream repeats what is shown.
LEMMA TickFollows == ASSUME FInv, Tick PROVE Shows' /\ Follows'
<1>1. TypeOK
  BY DEF FInv, IInv
<1>2. /\ job = None /\ scrub /\ pv.target # None /\ Asks(pv.target, "stream", pv)
      /\ UNCHANGED <<screen, now, dock, scrub, chosen, batch, cmds, tui, keys, changes, late, failed>>
  BY DEF Tick
<1>3. pv \in Views
  BY <1>1 DEF TypeOK
<1>4. PICK w \in Window : w = pv.target /\ Asks(w, "stream", pv)
  BY <1>2, <1>3 DEF Views
<1>5. Final' = Final /\ (SelectWaits => SelectWaits')
  BY <1>1, <1>2, <1>3, <1>4, FinalAsked, AsksMore
<1>6. Shows'
  BY <1>2 DEF Shows
<1> QED
  BY <1>2, <1>5, <1>6, FollowsAside

\* A hello waits to be answered.
LEMMA SaysHelloFollows == ASSUME FInv, SaysHello PROVE Shows' /\ Follows'
<1>1. TypeOK
  BY DEF FInv, IInv
<1>2. /\ cmds' = Append(cmds, Hello(tui.life))
      /\ tui' = [tui EXCEPT !.up = "here", !.sel = chosen.win, !.unasked = chosen.quiet]
      /\ job' = job /\ scrub' = scrub /\ batch' = batch
  BY DEF SaysHello
<1>3. tui'.life = tui.life
  BY <1>1, <1>2 DEF TypeOK, Tui
<1>4. Hello(tui.life) \in Command /\ cmds \in Seq(Command)
  BY <1>1 DEF Hello, Command, TypeOK, Tui
<1>5. HelloWaits'
  <2>1. /\ Len(Append(cmds, Hello(tui.life))) = Len(cmds) + 1
        /\ Append(cmds, Hello(tui.life))[Len(cmds) + 1] = Hello(tui.life)
    BY <1>4, AppendProperties
  <2>2. Len(cmds) \in Nat
    BY <1>4, LenProperties
  <2>3. Len(cmds) + 1 \in 1..(Len(cmds) + 1)
    BY <2>2
  <2>4. Waits(cmds', Hello(tui'.life))
    BY <1>2, <1>3, <2>1, <2>3 DEF Waits
  <2> QED
    BY <2>4 DEF HelloWaits
<1>6. Shows'
  BY <1>2 DEF FInv, Shows
<1> QED
  BY <1>5, <1>6, FollowsAnew

\* What is asked for has the last word, and is the selection's.
LEMMA AsksFor ==
  ASSUME TypeOK, NEW w \in Window, NEW t, cmds' = cmds \o Requests(t, w), batch' = batch, tui'.sel = w
  PROVE  Arrives'
<1>1. PICK s \in Seq(Command) : /\ s = Requests(t, w) /\ s # <<>> /\ s[1] = Preview(w)
                                /\ \A i \in 2..Len(s) : s[i].do = "prefetch"
  BY RequestsIs
<1>2. PICK q, r : q \in Seq(Command) /\ q = batch \o cmds /\ r = batch' \o cmds' /\ r = q \o s
  BY <1>1, QueueMore
<1>3. Settled(r, w) /\ Asking(r)
  BY <1>1, <1>2, SettledAsked
<1>4. Arrives' <=> Settled(r, tui'.sel) /\ (Asking(r) \/ Final' = tui'.sel)
  BY <1>2 DEF Arrives
<1> QED
  BY <1>3, <1>4

\* The sidebar hears of a selection and asks for it; a quiet one it does not ask for.
LEMMA ReadsFollows == ASSUME FInv, Reads PROVE Shows' /\ Follows'
<1>1. TypeOK
  BY DEF FInv, IInv
<1>2. PICK m, t : m = Head(wire) /\ t = Received(tui, m)
  OBVIOUS
<1>3. /\ tui.up = "here" /\ wire # <<>> /\ wire' = Tail(wire)
      /\ IF Resyncs(tui, m) THEN tui' = [t EXCEPT !.unasked = FALSE] /\ cmds' = cmds \o Requests(t, t.sel)
         ELSE tui' = t /\ cmds' = cmds
      /\ UNCHANGED <<screen, now, dock, scrub, chosen, pv, job, batch, keys, changes, late, failed>>
  BY <1>2 DEF Reads
<1>4. m \in Message /\ wire \in Seq(Message) /\ tui \in Tui /\ tui.sel \in Window
  BY <1>1, <1>2, <1>3, HeadTailProperties DEF TypeOK
<1>5. t \in Tui /\ t.life = tui.life /\ t.sel \in Window
  BY <1>2, <1>4, ReceivedIs
<1>6. Shows' /\ Final' = Final
  BY <1>3 DEF FInv, Shows, Final
<1>7. CASE Resyncs(tui, m)
  <2>1. tui'.sel = t.sel
    BY <1>3, <1>5, <1>7 DEF Tui
  <2>2. Arrives'
    BY <1>1, <1>3, <1>5, <1>7, <2>1, AsksFor
  <2> QED
    BY <1>6, <2>2, FollowsAnew
<1>8. CASE ~Resyncs(tui, m) /\ m.type = "select"
  <2>1. t.unasked
    <3>1. t = [tui EXCEPT !.sel = m.win, !.unasked = m.quiet \/ tui.shrink]
      BY <1>2, <1>8 DEF Received
    <3>2. m.quiet \/ tui.shrink
      BY <1>8 DEF Resyncs
    <3> QED
      BY <1>4, <3>1, <3>2 DEF Tui
  <2> QED
    BY <1>3, <1>6, <1>8, <2>1, FollowsAnew
<1>9. CASE ~Resyncs(tui, m) /\ m.type # "select"
  <2>1. t.sel = tui.sel /\ t.unasked = tui.unasked
    <3>1. CASE m.type \in {"surface", "fresh", "frame"}
      BY <1>2, <1>4, <3>1 DEF Received, Tui
    <3>2. CASE m.type = "delta"
      BY <1>2, <1>4, <3>2 DEF Received, Tui
    <3>3. m.type \in {"select", "surface", "fresh", "frame", "delta"}
      BY <1>4 DEF Message
    <3> QED
      BY <1>9, <3>1, <3>2, <3>3
  <2>2. SelectWaits => SelectWaits'
    <3>1. ASSUME SelectWaits PROVE SelectWaits'
      <4>1. PICK i \in 1..Len(wire) : wire[i].type = "select"
        BY <3>1 DEF SelectWaits
      <4>2. /\ Len(wire) \in Nat /\ Len(wire) # 0 /\ m = wire[1] /\ Len(Tail(wire)) = Len(wire) - 1
            /\ \A j \in 1..(Len(wire) - 1) : Tail(wire)[j] = wire[j + 1]
        BY <1>2, <1>3, <1>4, HeadTailProperties, EmptySeq, LenProperties
      <4>3. i # 1
        BY <1>9, <4>1, <4>2
      <4>4. i - 1 \in 1..(Len(wire) - 1) /\ (i - 1) + 1 = i
        BY <4>2, <4>3
      <4> QED
        BY <1>3, <4>1, <4>2, <4>4 DEF SelectWaits
    <3> QED
      BY <3>1
  <2>3. tui' = t /\ cmds' = cmds /\ batch' = batch
    BY <1>3, <1>9
  <2>4. HelloWaits => HelloWaits'
    BY <1>5, <2>3 DEF HelloWaits
  <2>5. Arrives => Arrives'
    BY <1>6, <2>1, <2>3 DEF Arrives
  <2> QED
    BY <1>3, <1>6, <2>1, <2>2, <2>3, <2>4, <2>5, FollowsOn DEF FInv
<1> QED
  BY <1>7, <1>8, <1>9

\* A command is queued that leads to the selection, or nowhere.
LEMMA QueuesFollows ==
  ASSUME FInv, Presses, NEW c \in Command, cmds' = Append(cmds, c),
         c.do \in {"preview", "commit"} => tui.up = "here" /\ c.win = tui.sel,
         tui' \in {tui, [tui EXCEPT !.shrink = tui.wide]}
  PROVE  Shows' /\ Follows'
<1>1. TypeOK
  BY DEF FInv, IInv
<1>2. UNCHANGED <<screen, now, dock, scrub, chosen, pv, job, batch, wire, changes, late, failed>>
  BY DEF Presses
<1>3. tui'.up = tui.up /\ tui'.life = tui.life /\ tui'.sel = tui.sel /\ tui'.unasked = tui.unasked
  <2>1. tui \in Tui
    BY <1>1 DEF TypeOK
  <2>2. CASE tui' = tui
    BY <2>2
  <2>3. CASE tui' = [tui EXCEPT !.shrink = tui.wide]
    BY <2>1, <2>3 DEF Tui
  <2> QED
    BY <2>2, <2>3
<1>4. PICK s \in Seq(Command) : s = <<c>> /\ cmds' = cmds \o s
  <2>1. cmds \in Seq(Command)
    BY <1>1 DEF TypeOK
  <2> QED
    BY <2>1, AppendIs
<1>5. PICK q, r : q \in Seq(Command) /\ q = batch \o cmds /\ r = batch' \o cmds' /\ r = q \o <<c>>
  BY <1>1, <1>2, <1>4, QueueMore
<1>6. HelloWaits => HelloWaits'
  BY <1>1, <1>2, <1>3, <1>4, Queued
<1>7. Shows' /\ Final' = Final /\ (SelectWaits => SelectWaits')
  BY <1>2 DEF FInv, Shows, Final, SelectWaits
<1>8. Arrives => Arrives'
  <2>1. (Settled(q, tui.sel) => Settled(r, tui.sel)) /\ (Asking(q) => Asking(r))
    BY <1>5, SettledMore
  <2>2. Arrives <=> Settled(q, tui.sel) /\ (Asking(q) \/ Final = tui.sel)
    BY <1>5 DEF Arrives
  <2>3. Arrives' <=> Settled(r, tui'.sel) /\ (Asking(r) \/ Final' = tui'.sel)
    BY <1>5 DEF Arrives
  <2> QED
    BY <1>3, <1>7, <2>1, <2>2, <2>3
<1> QED
  BY <1>2, <1>3, <1>6, <1>7, <1>8, FollowsOn DEF FInv

\* The keys that leave.
LEMMA OrdersFollow ==
  ASSUME FInv, Enter \/ Quit \/ \E what \in {"toggle", "browse", "agents"} : Calls(what)
  PROVE  Shows' /\ Follows'
<1>1. TypeOK
  BY DEF FInv, IInv
<1>2. CASE Enter
  <2>1. tui.sel \in Window /\ tui.up = "here"
    BY <1>1, <1>2 DEF Enter, TypeOK
  <2>2. Commit(tui.sel) \in Command /\ Commit(tui.sel).win = tui.sel
    BY <2>1 DEF Commit, Command
  <2> QED
    BY <1>2, <2>1, <2>2, QueuesFollows DEF Enter
<1>3. CASE Quit
  <2>1. Order("close") \in Command /\ Order("close").do = "close"
    BY DEF Order, Command
  <2> QED
    BY <1>3, <2>1, QueuesFollows DEF Quit
<1>4. CASE \E what \in {"toggle", "browse", "agents"} : Calls(what)
  <2>1. PICK what \in {"toggle", "browse", "agents"} : Calls(what)
    BY <1>4
  <2>2. Order(what) \in Command /\ Order(what).do = what
    BY DEF Order, Command
  <2> QED
    BY <2>1, <2>2, QueuesFollows DEF Calls
<1> QED
  BY <1>2, <1>3, <1>4

\* The selection moves, and asks, unless it is expected to be moved back.
LEMMA MoveSelFollows == ASSUME FInv, NEW w \in Window, MoveSel(w) PROVE Shows' /\ Follows'
<1>1. TypeOK
  BY DEF FInv, IInv
<1>2. /\ job' = job /\ scrub' = scrub /\ batch' = batch
      /\ tui' = [tui EXCEPT !.sel = w, !.unasked = tui.shrink]
      /\ cmds' = IF tui.shrink THEN cmds ELSE cmds \o Requests(tui, w)
  BY DEF MoveSel, Presses
<1>3. tui'.sel = w /\ tui'.unasked = tui.shrink
  BY <1>1, <1>2 DEF TypeOK, Tui
<1>4. Shows'
  BY <1>2 DEF FInv, Shows
<1>5. CASE tui.shrink
  BY <1>3, <1>4, <1>5, FollowsAnew
<1>6. CASE ~tui.shrink
  <2>1. Arrives'
    BY <1>1, <1>2, <1>3, <1>6, AsksFor
  <2> QED
    BY <1>4, <2>1, FollowsAnew
<1> QED
  BY <1>5, <1>6

\* What has nothing to do with it.
LEMMA OthersFollow ==
  ASSUME FInv, UNCHANGED <<dock, scrub, pv, job, batch, cmds, wire, failed>>,
         tui' \in {tui, [tui EXCEPT !.shrink = FALSE]}
  PROVE  Shows' /\ Follows'
<1>1. tui'.up = tui.up /\ tui'.life = tui.life /\ tui'.sel = tui.sel /\ tui'.unasked = tui.unasked
  <2>1. tui \in Tui
    BY DEF FInv, IInv, TypeOK
  <2>2. CASE tui' = tui
    BY <2>2
  <2>3. CASE tui' = [tui EXCEPT !.shrink = FALSE]
    BY <2>1, <2>3 DEF Tui
  <2> QED
    BY <2>2, <2>3
<1>2. Shows' /\ Final' = Final /\ (SelectWaits => SelectWaits')
  BY DEF FInv, Shows, Final, SelectWaits
<1>3. HelloWaits => HelloWaits'
  BY <1>1 DEF HelloWaits
<1>4. Arrives => Arrives'
  BY <1>1, <1>2 DEF Arrives
<1> QED
  BY <1>1, <1>2, <1>3, <1>4, FollowsOn DEF FInv

\* Every step.
LEMMA StepFollows == ASSUME FInv, [Next]_vars PROVE FInv'
<1>1. IInv'
  BY StepInv DEF FInv
<1>2. CASE Daemon
  <2>1. Shows' /\ Follows'
    BY <1>2, DrainFollows, RunCmdFollows, CapturesFollows, ShipsFollows, TickFollows DEF Daemon
  <2> QED
    BY <1>1, <2>1 DEF FInv
<1>3. CASE SaysHello \/ Reads
  BY <1>1, <1>3, SaysHelloFollows, ReadsFollows DEF FInv
<1>4. CASE Enter \/ Quit \/ \E what \in {"toggle", "browse", "agents"} : Calls(what)
  BY <1>1, <1>4, OrdersFollow DEF FInv
<1>5. CASE \E w \in Window : MoveSel(w)
  BY <1>1, <1>5, MoveSelFollows DEF FInv
<1>6. CASE \/ Winch \/ Second \/ UNCHANGED vars
           \/ \E w \in Window : Respawn(w)
           \/ \E w \in Window, r \in Row, g \in Glyph : Output(w, r, g)
  <2>1. /\ UNCHANGED <<dock, scrub, pv, job, batch, cmds, wire, failed>>
        /\ tui' \in {tui, [tui EXCEPT !.shrink = FALSE]}
    BY <1>6 DEF Winch, Second, vars, Respawn, Output, Changes
  <2> QED
    BY <1>1, <2>1, OthersFollow DEF FInv
<1> QED
  BY <1>2, <1>3, <1>4, <1>5, <1>6 DEF Next

\* When all is quiet the billboard, or without one the dock, is where the selection is
\* (moveSel and applySelect, which ask; stillMatters, which keeps what they ask last;
\* commitScrub and scrubEnd, which tell where they went).
THEOREM FollowsKept == Spec => []FollowsSelection
<1>1. Init => FInv
  <2> SUFFICES ASSUME Init PROVE FInv
    OBVIOUS
  <2>1. IInv
    BY InitInv
  <2>2. tui.up = "born"
    BY SidebarIs DEF Init
  <2>3. Shows
    BY DEF Init, Shows, Asked
  <2> QED
    BY <2>1, <2>2, <2>3 DEF FInv, Follows
<1>2. FInv /\ [Next]_vars => FInv'
  BY StepFollows
<1>3. FInv => FollowsSelection
  <2> SUFFICES ASSUME FInv, AtRest, ~tui.unasked, ~failed
               PROVE  tui.sel = IF scrub THEN pv.target ELSE dock
    BY DEF FollowsSelection
  <2>1. job = None /\ batch = <<>> /\ cmds = <<>> /\ wire = <<>> /\ tui.up = "here"
    BY DEF AtRest
  <2>2. ~HelloWaits /\ ~SelectWaits
    <3>1. \A h : ~Waits(<<>>, h)
      BY DEF Waits
    <3> QED
      BY <2>1, <3>1 DEF HelloWaits, SelectWaits
  <2>3. Arrives
    BY <2>1, <2>2 DEF FInv, Follows
  <2>4. ~Asking(batch \o cmds)
    <3>1. batch \o cmds = <<>>
      BY <2>1
    <3> QED
      BY <3>1 DEF Asking
  <2> QED
    BY <2>1, <2>3, <2>4 DEF Arrives, Final
<1> QED
  BY <1>1, <1>2, <1>3, PTL DEF Spec

-----------------------------------------------------------------------------
(* Which window a prefetch is ahead of.                                      *)

\* The places of a batch that something kept of it comes from, one after the other.
Placed(f, k, b, places, n) ==
  /\ f \in [1..Len(k) -> 1..n]
  /\ \A m \in 1..Len(k) : f[m] \in places /\ k[m] = b[f[m]]
  /\ \A m \in 1..Len(k), o \in 1..Len(k) : m < o => f[m] < f[o]
  /\ \A l \in 1..n : l \in places => \E m \in 1..Len(k) : f[m] = l

\* Nothing is kept but what is at the places kept, and in its order.
LEMMA KeptFrom ==
  ASSUME NEW b \in Seq(Command), NEW places, NEW n \in 0..Len(b)
  PROVE  \E f : Placed(f, Kept(b, places)[n], b, places, n)
<1> DEFINE N == Len(b)
           k == Kept(b, places)
           P == {i \in 0..N : \E f : Placed(f, k[i], b, places, i)}
<1>1. N \in Nat
  BY LenProperties
<1>2. k[0] = <<>> /\ \A i \in 1..N : k[i] = More(k[i - 1], b, i, places)
  <2>1. k = [i \in 0..N |-> IF i = 0 THEN <<>> ELSE More(k[i - 1], b, i, places)]
    BY <1>1, KeptDef
  <2> HIDE DEF k, N
  <2> QED
    BY <1>1, <2>1
<1>3. \A i \in 0..N : k[i] \in Seq(Command)
  BY KeptIs
<1>4. n \in 0..N
  OBVIOUS
<1> HIDE DEF k, N
<1>5. 0 \in P
  <2>1. Len(k[0]) = 0 /\ 0 \in 0..N /\ ~\E m \in 1..0 : TRUE
    BY <1>1, <1>2
  <2>2. PICK f : f = [m \in 1..0 |-> 1]
    OBVIOUS
  <2>3. f \in [1..0 -> 1..0]
    BY <2>1, <2>2
  <2>4. Placed(f, k[0], b, places, 0)
    BY <2>1, <2>3 DEF Placed
  <2> QED
    BY <2>1, <2>4
<1>6. ASSUME NEW i \in 0..N, i < N, i \in P PROVE i + 1 \in P
  <2>1. /\ i \in Nat /\ i + 1 \in 1..N /\ i + 1 \in 0..N /\ (i + 1) - 1 = i
    BY <1>1, <1>6
  <2>2. k[i + 1] = More(k[i], b, i + 1, places) /\ k[i] \in Seq(Command)
    BY <1>2, <1>3, <2>1
  <2>3. PICK f : Placed(f, k[i], b, places, i)
    BY <1>6
  <2>4. PICK c \in Nat : c = Len(k[i])
    BY <2>2, LenProperties
  <2>5. /\ f \in [1..c -> 1..i] /\ \A m \in 1..c : f[m] \in places /\ k[i][m] = b[f[m]]
        /\ \A m \in 1..c, o \in 1..c : m < o => f[m] < f[o]
        /\ \A l \in 1..i : l \in places => \E m \in 1..c : f[m] = l
    BY <2>3, <2>4 DEF Placed
  <2>6. \A l \in 1..(i + 1) : l \in 1..i \/ l = i + 1
    BY <2>1
  <2>7. CASE i + 1 \in places
    <3>1. k[i + 1] = Append(k[i], b[i + 1])
      BY <2>2, <2>7 DEF More
    <3>2. b[i + 1] \in Command
      BY <2>1, ElementOfSeq DEF N
    <3>3. /\ Len(k[i + 1]) = c + 1 /\ k[i + 1][c + 1] = b[i + 1]
          /\ \A m \in 1..c : k[i + 1][m] = k[i][m]
      <4>1. PICK q \in Seq(Command) : q = k[i] /\ Len(q) = c
        BY <2>2, <2>4
      <4>2. k[i + 1] = Append(q, b[i + 1])
        BY <3>1, <4>1
      <4>3. /\ Len(Append(q, b[i + 1])) = c + 1 /\ Append(q, b[i + 1])[c + 1] = b[i + 1]
            /\ \A m \in 1..c : Append(q, b[i + 1])[m] = q[m]
        BY <3>2, <4>1, AppendProperties
      <4> QED
        BY <4>1, <4>2, <4>3
    <3>4. PICK g : g = [m \in 1..(c + 1) |-> IF m = c + 1 THEN i + 1 ELSE f[m]]
      OBVIOUS
    <3>5. /\ \A m \in 1..(c + 1) : m \in 1..c \/ m = c + 1
          /\ \A m \in 1..c : m # c + 1 /\ m \in 1..(c + 1) /\ m < c + 1 /\ ~(c + 1 < m)
          /\ c + 1 \in 1..(c + 1) /\ ~(c + 1 < c + 1)
      BY <2>4
    <3>6. g[c + 1] = i + 1 /\ \A m \in 1..c : g[m] = f[m]
      BY <3>4, <3>5
    <3>7. \A m \in 1..c : f[m] \in 1..i /\ f[m] \in 1..(i + 1) /\ f[m] < i + 1
      BY <2>1, <2>5
    <3>8. g \in [1..(c + 1) -> 1..(i + 1)]
      <4>1. \A m \in 1..(c + 1) : g[m] \in 1..(i + 1)
        BY <2>1, <3>5, <3>6, <3>7
      <4> QED
        BY <3>4, <4>1
    <3>9. \A m \in 1..(c + 1) : g[m] \in places /\ k[i + 1][m] = b[g[m]]
      BY <2>5, <2>7, <3>3, <3>5, <3>6
    <3>10. ASSUME NEW m \in 1..(c + 1), NEW o \in 1..(c + 1), m < o PROVE g[m] < g[o]
      <4>1. m \in 1..c
        BY <2>4, <3>10
      <4>2. g[m] = f[m] /\ f[m] < i + 1
        BY <3>6, <3>7, <4>1
      <4>3. CASE o \in 1..c
        <5>1. g[o] = f[o] /\ f[m] < f[o]
          BY <2>5, <3>6, <3>10, <4>1, <4>3
        <5> QED
          BY <4>2, <5>1
      <4>4. CASE o = c + 1
        BY <3>6, <4>2, <4>4
      <4> QED
        BY <3>5, <4>3, <4>4
    <3>11. \A l \in 1..(i + 1) : l \in places => \E m \in 1..(c + 1) : g[m] = l
      BY <2>5, <2>6, <3>5, <3>6
    <3>12. Placed(g, k[i + 1], b, places, i + 1)
      BY <3>3, <3>8, <3>9, <3>10, <3>11 DEF Placed
    <3> QED
      BY <2>1, <3>12
  <2>8. CASE i + 1 \notin places
    <3>1. k[i + 1] = k[i]
      BY <2>2, <2>8 DEF More
    <3>2. f \in [1..c -> 1..(i + 1)]
      <4>1. \A m \in 1..c : f[m] \in 1..(i + 1)
        BY <2>1, <2>5
      <4> QED
        BY <2>5, <4>1
    <3>3. \A l \in 1..(i + 1) : l \in places => \E m \in 1..c : f[m] = l
      BY <2>5, <2>6, <2>8
    <3>4. Placed(f, k[i + 1], b, places, i + 1)
      BY <2>4, <2>5, <3>1, <3>2, <3>3 DEF Placed
    <3> QED
      BY <2>1, <3>4
  <2> QED
    BY <2>7, <2>8
<1>7. n \in P
  <2> HIDE DEF P
  <2>1. \A i \in 0..N : i \in P
    BY <1>1, <1>5, <1>6, UpTo
  <2> QED
    BY <1>4, <2>1
<1> QED
  BY <1>7 DEF k

\* A prefetch of a queue comes after a preview of another window, with only
\* prefetches in between.
LedIn(q, i) ==
  \E k \in 1..(i - 1) : /\ q[k].do = "preview" /\ q[k].win # q[i].win
                        /\ \A m \in (k + 1)..(i - 1) : q[m].do = "prefetch"

Led(q) == \A i \in 1..Len(q) : q[i].do = "prefetch" => LedIn(q, i)

\* handleCmd: the newest preview is kept with its prefetches, and those of no other.
LEMMA LedDrain == ASSUME NEW b \in Seq(Command), Led(b) PROVE Led(StillMatters(b))
<1> DEFINE places == {i \in DOMAIN b :
                        IsFrames(b[i]) => \A k \in (i + 1)..Len(b) : b[k].do # "preview"}
           N == Len(b)
           s == Kept(b, places)[N]
<1>1. N \in Nat /\ N \in 0..N /\ StillMatters(b) = s
  <2>1. N \in Nat
    BY LenProperties
  <2> QED
    BY <2>1 DEF StillMatters
<1>2. DOMAIN b = 1..N
  BY LenProperties
<1>3. \A i \in 1..N : i \in places <=> (IsFrames(b[i]) => \A k \in (i + 1)..N : b[k].do # "preview")
  BY <1>2
<1> HIDE DEF places
<1>4. s \in Seq(Command)
  BY <1>1, KeptIs
<1>5. \E f : Placed(f, s, b, places, N)
  BY <1>1, KeptFrom
<1> HIDE DEF s
<1>6. PICK c \in Nat : c = Len(s)
  BY <1>4, LenProperties
<1>7. PICK f :
        /\ f \in [1..c -> 1..N] /\ \A m \in 1..c : f[m] \in places /\ s[m] = b[f[m]]
        /\ \A m \in 1..c, o \in 1..c : m < o => f[m] < f[o]
        /\ \A l \in 1..N : l \in places => \E m \in 1..c : f[m] = l
  BY <1>5, <1>6 DEF Placed
<1>8. ASSUME NEW i \in 1..c, s[i].do = "prefetch" PROVE LedIn(s, i)
  <2>1. PICK p \in 1..N : p = f[i] /\ p \in places /\ s[i] = b[p]
    BY <1>7
  <2>2. LedIn(b, p)
    BY <1>8, <2>1 DEF Led, N
  <2>3. PICK k \in 1..(p - 1) : /\ b[k].do = "preview" /\ b[k].win # b[p].win
                                /\ \A m \in (k + 1)..(p - 1) : b[m].do = "prefetch"
    BY <2>2 DEF LedIn
  <2>4. k \in 1..N /\ k < p /\ \A x \in (k + 1)..N : x \in (k + 1)..(p - 1) \/ x = p \/ x \in (p + 1)..N
    BY <1>1, <2>3
  <2>5. \A x \in (p + 1)..N : b[x].do # "preview"
    BY <1>3, <1>8, <2>1 DEF IsFrames
  <2>6. k \in places
    BY <1>3, <1>8, <2>1, <2>3, <2>4, <2>5
  <2>7. PICK m \in 1..c : f[m] = k
    BY <1>7, <2>4, <2>6
  <2>8. m \in 1..(i - 1)
    <3>1. m # i
      BY <2>1, <2>4, <2>7
    <3>2. ~(i < m)
      <4>1. ASSUME i < m PROVE FALSE
        <5>1. f[i] < f[m]
          BY <1>7, <4>1
        <5> QED
          BY <1>1, <2>1, <2>4, <2>7, <5>1
      <4> QED
        BY <4>1
    <3> QED
      BY <1>6, <3>1, <3>2
  <2>9. s[m].do = "preview" /\ s[m].win # s[i].win
    BY <1>7, <2>1, <2>3, <2>7
  <2>10. ASSUME NEW o \in (m + 1)..(i - 1) PROVE s[o].do = "prefetch"
    <3>1. o \in 1..c /\ m < o /\ o < i
      BY <1>6
    <3>2. PICK x \in 1..N : x = f[o] /\ s[o] = b[x]
      BY <1>7, <3>1
    <3>3. k < x /\ x < p
      BY <1>7, <2>1, <2>7, <3>1, <3>2
    <3>4. x \in (k + 1)..(p - 1)
      BY <1>1, <2>4, <3>3
    <3> QED
      BY <2>3, <3>2, <3>4
  <2> QED
    BY <2>8, <2>9, <2>10 DEF LedIn
<1> QED
  BY <1>1, <1>6, <1>8 DEF Led

\* Queues of requests that are led make one.
LEMMA LedMore ==
  ASSUME NEW q \in Seq(Command), NEW s \in Seq(Command), Led(q), Led(s)
  PROVE  Led(q \o s)
<1> DEFINE u == q \o s
<1>1. PICK c \in Nat, d \in Nat : c = Len(q) /\ d = Len(s)
  BY LenProperties
<1>2. /\ Len(u) = c + d /\ \A i \in 1..c : u[i] = q[i]
      /\ \A i \in 1..d : u[c + i] = s[i]
      /\ \A i \in 1..(c + d) : i \in 1..c \/ \E k \in 1..d : i = c + k
  BY <1>1, ConcatIs
<1> HIDE DEF u
<1>3. ASSUME NEW i \in 1..c, u[i].do = "prefetch" PROVE LedIn(u, i)
  <2>1. LedIn(q, i)
    BY <1>1, <1>2, <1>3 DEF Led
  <2>2. \A m \in 1..(i - 1) : u[m] = q[m]
    BY <1>1, <1>2
  <2>3. PICK k \in 1..(i - 1) : /\ q[k].do = "preview" /\ q[k].win # q[i].win
                                /\ \A m \in (k + 1)..(i - 1) : q[m].do = "prefetch"
    BY <2>1 DEF LedIn
  <2>4. \A m \in (k + 1)..(i - 1) : m \in 1..(i - 1)
    OBVIOUS
  <2> QED
    BY <1>2, <2>2, <2>3, <2>4 DEF LedIn
<1>4. ASSUME NEW j \in 1..d, u[c + j].do = "prefetch" PROVE LedIn(u, c + j)
  <2>1. LedIn(s, j)
    BY <1>1, <1>2, <1>4 DEF Led
  <2>2. PICK k \in 1..(j - 1) : /\ s[k].do = "preview" /\ s[k].win # s[j].win
                                /\ \A m \in (k + 1)..(j - 1) : s[m].do = "prefetch"
    BY <2>1 DEF LedIn
  <2>3. k \in 1..d /\ c + k \in 1..((c + j) - 1)
    BY <1>1
  <2>4. u[c + k].do = "preview" /\ u[c + k].win # u[c + j].win
    BY <1>2, <2>2, <2>3
  <2>5. ASSUME NEW m \in ((c + k) + 1)..((c + j) - 1) PROVE u[m].do = "prefetch"
    <3>1. m - c \in (k + 1)..(j - 1) /\ m - c \in 1..d /\ m = c + (m - c)
      BY <1>1
    <3> QED
      BY <1>2, <2>2, <3>1
  <2> QED
    BY <2>3, <2>4, <2>5 DEF LedIn
<1>5. ASSUME NEW i \in 1..(c + d), u[i].do = "prefetch" PROVE LedIn(u, i)
  <2>1. CASE i \in 1..c
    BY <1>3, <1>5, <2>1
  <2>2. CASE \E k \in 1..d : i = c + k
    BY <1>4, <1>5, <2>2
  <2> QED
    BY <1>2, <2>1, <2>2
<1>6. \A i \in 1..Len(u) : u[i].do = "prefetch" => LedIn(u, i)
  <2>1. Len(u) = c + d
    BY <1>2
  <2> QED
    BY <1>5, <2>1
<1>7. Led(u)
  BY <1>6 DEF Led
<1> QED
  BY <1>7 DEF u

\* Whoever asks for frames, asks for that of the selection first, and for no other of it.
LEMMA LedRequests == ASSUME NEW w \in Window, NEW t PROVE Led(Requests(t, w))
<1> DEFINE r == Requests(t, w)
<1>1. /\ r \in Seq(Command) /\ r[1] = Preview(w) /\ r # <<>>
      /\ \A i \in 2..Len(r) : r[i].do = "prefetch" /\ r[i].win # w
  BY RequestsIs
<1>2. PICK n \in Nat : n = Len(r)
  BY <1>1, LenProperties
<1>3. r[1].do = "preview" /\ r[1].win = w
  BY <1>1 DEF Preview
<1> HIDE DEF r
<1>4. ASSUME NEW i \in 1..n, r[i].do = "prefetch" PROVE LedIn(r, i)
  <2>1. i # 1
    BY <1>3, <1>4
  <2>2. i \in 2..n /\ 1 \in 1..(i - 1) /\ \A m \in (1 + 1)..(i - 1) : m \in 2..n
    BY <1>2, <2>1
  <2> QED
    BY <1>1, <1>2, <1>3, <2>2 DEF LedIn
<1> QED
  BY <1>2, <1>4 DEF Led, r

\* What is no prefetch is led by nothing.
LEMMA LedOne == ASSUME NEW c \in Command, c.do # "prefetch" PROVE Led(<<c>>) /\ Led(<<>>)
  BY DEF Led

\* The next command is run: what was behind it is now in front, or is led as before.
LEMMA LedTail ==
  ASSUME NEW q \in Seq(Command), q # <<>>, NEW i \in 1..Len(Tail(q))
  PROVE  /\ i + 1 \in 1..Len(q) /\ Tail(q)[i] = q[i + 1]
         /\ LedIn(q, i + 1) =>
              \/ LedIn(Tail(q), i)
              \/ /\ Head(q).do = "preview" /\ Head(q).win # Tail(q)[i].win
                 /\ \A m \in 1..(i - 1) : Tail(q)[m].do = "prefetch"
         /\ (\A m \in 1..i : q[m].do = "prefetch") =>
              Head(q).do = "prefetch" /\ \A m \in 1..(i - 1) : Tail(q)[m].do = "prefetch"
<1> DEFINE r == Tail(q)
<1>1. PICK n \in Nat : n = Len(q) /\ n # 0
  BY LenProperties, EmptySeq
<1>2. Len(r) = n - 1 /\ Head(q) = q[1] /\ \A m \in 1..(n - 1) : r[m] = q[m + 1]
  BY <1>1, HeadTailProperties
<1> HIDE DEF r
<1>3. i \in 1..(n - 1) /\ i + 1 \in 1..n /\ (i + 1) - 1 = i
  BY <1>1, <1>2 DEF r
<1>4. r[i] = q[i + 1]
  BY <1>2, <1>3
<1>5. ASSUME LedIn(q, i + 1)
      PROVE  \/ LedIn(r, i)
             \/ /\ q[1].do = "preview" /\ q[1].win # r[i].win
                /\ \A m \in 1..(i - 1) : r[m].do = "prefetch"
  <2>1. PICK k \in 1..i : /\ q[k].do = "preview" /\ q[k].win # q[i + 1].win
                          /\ \A m \in (k + 1)..i : q[m].do = "prefetch"
    BY <1>3, <1>5 DEF LedIn
  <2>2. ASSUME NEW m \in k..(i - 1), m \in 1..(i - 1) PROVE r[m].do = "prefetch"
    <3>1. m + 1 \in (k + 1)..i /\ m \in 1..(n - 1)
      BY <1>3
    <3> QED
      BY <1>2, <2>1, <3>1
  <2>3. CASE k = 1
    BY <1>4, <2>1, <2>2, <2>3
  <2>4. CASE k # 1
    <3>1. k - 1 \in 1..(i - 1) /\ k - 1 \in 1..(n - 1) /\ (k - 1) + 1 = k
      BY <1>3, <2>4
    <3>2. r[k - 1] = q[k]
      BY <1>2, <3>1
    <3>3. \A m \in ((k - 1) + 1)..(i - 1) : m \in k..(i - 1) /\ m \in 1..(i - 1)
      BY <1>3
    <3> QED
      BY <1>4, <2>1, <2>2, <3>1, <3>2, <3>3 DEF LedIn
  <2> QED
    BY <2>3, <2>4
<1>6. ASSUME \A m \in 1..i : q[m].do = "prefetch"
      PROVE  q[1].do = "prefetch" /\ \A m \in 1..(i - 1) : r[m].do = "prefetch"
  <2>1. 1 \in 1..i
    BY <1>3
  <2>2. ASSUME NEW m \in 1..(i - 1) PROVE r[m].do = "prefetch"
    <3>1. m + 1 \in 1..i /\ m \in 1..(n - 1)
      BY <1>3
    <3> QED
      BY <1>2, <1>6, <3>1
  <2> QED
    BY <1>6, <2>1, <2>2
<1> QED
  BY <1>1, <1>2, <1>3, <1>4, <1>5, <1>6 DEF r

-----------------------------------------------------------------------------
(* What a sidebar is told is still current.                                  *)

\* No preview of a window is left to run before its prefetch does: one of another is
\* under way, or the billboards that show are of another; unless a preview failed.
Elsewhere(w) ==
  \/ failed
  \/ job # None /\ job.kind \in {"start", "show"} /\ job.win # w
  \/ (job # None => job.kind = "prefetch") /\ (scrub => pv.target # w)

\* Every prefetch of the batch runs when the target is another window.
LedOn ==
  \A i \in 1..Len(batch) : batch[i].do = "prefetch" =>
    \/ LedIn(batch, i)
    \/ (\A m \in 1..(i - 1) : batch[m].do = "prefetch") /\ Elsewhere(batch[i].win)

\* And is of another while it is captured.
Ahead == job # None /\ ~failed /\ job.kind = "prefetch" => pv.target # job.win

\* What is remembered has been captured by now, of panes that are there or were.
Stamped ==
  /\ \A w \in Window : pv.warm[w] # None => pv.warm[w].at <= now /\ pv.warm[w].ids <= screen[w].ids
  /\ job # None => job.ids <= screen[job.win].ids

\* The gate would vouch for the frame of a window.
Vouched(w) == Gated(pv.warm[w], w) /\ ~late /\ ~failed

\* Whatever there is of a window is what it shows: in the sidebar that has read
\* everything, in what the daemon keeps of the target, in the capture it is to ship.
Honest(w) ==
  /\ tui.up = "here" => Reached.cache[w] = None \/ Reached.cache[w].text = screen[w].text
  /\ pv.last # None /\ pv.target = w => pv.last.text = screen[w].text
  /\ job # None /\ job.text # None /\ job.win = w => job.text = screen[w].text

Vouching == \A w \in Window : Vouched(w) => Honest(w)

GInv == IInv /\ Led(cmds) /\ LedOn /\ Ahead /\ Stamped /\ Vouching

\* A step gives the sidebar nothing of a window but what is kept of the target.
Shown ==
  tui'.up = "here" => \A w \in Window :
    \/ Reached'.cache[w] = None
    \/ tui.up = "here" /\ Reached'.cache[w] = Reached.cache[w]
    \/ pv.last # None /\ pv.target = w /\ Reached'.cache[w].text = pv.last.text

\* A step forgets what it does not keep.
Forgets ==
  /\ \A w \in Window : pv'.warm[w] \in {None, pv.warm[w]}
  /\ pv'.last = None \/ (pv'.last = pv.last /\ pv'.target = pv.target)

\* A step that captures rightly, and keeps or forgets the rest.
LEMMA VouchOn ==
  ASSUME Vouching, screen' = screen, ~late' => ~late, ~failed' => ~failed, Forgets, Shown,
         \/ job' = None \/ job'.text = None \/ job' = job
         \/ job'.text = screen[job'.win].text
  PROVE  Vouching'
<1> SUFFICES ASSUME NEW w \in Window, Vouched(w)' PROVE Honest(w)'
  BY DEF Vouching
<1>1. pv'.warm[w] = pv.warm[w] /\ Gated(pv.warm[w], w) /\ ~late /\ ~failed
  BY DEF Vouched, Gated, Forgets
<1>2. Honest(w)
  BY <1>1 DEF Vouched, Vouching
<1>3. tui'.up = "here" => Reached'.cache[w] = None \/ Reached'.cache[w].text = screen[w].text
  BY <1>2 DEF Honest, Shown
<1>4. pv'.last # None /\ pv'.target = w => pv'.last.text = screen[w].text
  BY <1>2 DEF Honest, Forgets
<1>5. job' # None /\ job'.text # None /\ job'.win = w => job'.text = screen[w].text
  BY <1>2 DEF Honest
<1> QED
  BY <1>3, <1>4, <1>5 DEF Honest

\* A step that asks for what there is, and keeps or forgets the rest.
LEMMA StampOn ==
  ASSUME TypeOK, TypeOK', Stamped, screen' = screen, now' \in {now, now + 1}, Forgets,
         \/ job' = None \/ job'.ids = screen[job'.win].ids
         \/ job # None /\ job'.ids = job.ids /\ job'.win = job.win
  PROVE  Stamped'
<1>1. ASSUME NEW w \in Window, pv'.warm[w] # None
      PROVE  pv'.warm[w].at <= now' /\ pv'.warm[w].ids <= screen'[w].ids
  <2>1. pv'.warm[w] = pv.warm[w] /\ pv.warm[w].at <= now /\ pv.warm[w].ids <= screen[w].ids
    BY <1>1 DEF Forgets, Stamped
  <2>2. pv.warm[w].at \in Nat /\ now \in Nat
    BY <1>1, <2>1, BillboardsAssumption DEF TypeOK, Views, Memory
  <2>3. pv.warm[w].at <= now'
    BY <2>1, <2>2
  <2> QED
    BY <2>1, <2>3
<1>2. ASSUME job' # None PROVE job'.ids <= screen'[job'.win].ids
  <2>1. job' \in Job
    BY <1>2 DEF TypeOK
  <2>2. screen[job'.win].ids \in Nat
    BY <2>1 DEF TypeOK, Job
  <2> QED
    BY <1>2, <2>2 DEF Stamped
<1> QED
  BY <1>1, <1>2 DEF Stamped

\* The next command is run, and the prefetches behind it stay led.
LEMMA LedRuns ==
  ASSUME TypeOK, LedOn, NEW what, Runs(what),
         what = "preview" => \A w \in Window : w # Head(batch).win => Elsewhere(w)',
         what = "prefetch" => \A w \in Window : Elsewhere(w) => Elsewhere(w)'
  PROVE  LedOn'
<1>1. PICK q \in Seq(Command) : q = batch /\ q # <<>> /\ Head(q).do = what /\ batch' = Tail(q)
  BY DEF TypeOK, Runs
<1>2. PICK r \in Seq(Command) : r = Tail(q)
  BY <1>1, HeadTailProperties
<1>3. ASSUME NEW i \in 1..Len(r), r[i].do = "prefetch"
      PROVE  \/ LedIn(r, i)
             \/ (\A m \in 1..(i - 1) : r[m].do = "prefetch") /\ Elsewhere(r[i].win)'
  <2>1. r[i] \in Command
    BY ElementOfSeq
  <2>2. PICK w \in Window : w = r[i].win
    BY <1>3, <2>1 DEF Command
  <2>3. /\ i + 1 \in 1..Len(q) /\ r[i] = q[i + 1]
        /\ LedIn(q, i + 1) =>
             \/ LedIn(r, i)
             \/ /\ Head(q).do = "preview" /\ Head(q).win # r[i].win
                /\ \A m \in 1..(i - 1) : r[m].do = "prefetch"
        /\ (\A m \in 1..i : q[m].do = "prefetch") =>
             Head(q).do = "prefetch" /\ \A m \in 1..(i - 1) : r[m].do = "prefetch"
    BY <1>1, <1>2, LedTail
  <2>4. \/ LedIn(q, i + 1)
        \/ (\A m \in 1..((i + 1) - 1) : q[m].do = "prefetch") /\ Elsewhere(w)
    BY <1>1, <1>3, <2>2, <2>3 DEF LedOn
  <2>5. (i + 1) - 1 = i
    BY <1>3
  <2>6. CASE LedIn(q, i + 1)
    <3>1. CASE LedIn(r, i)
      BY <3>1
    <3>2. CASE /\ Head(q).do = "preview" /\ Head(q).win # r[i].win
               /\ \A m \in 1..(i - 1) : r[m].do = "prefetch"
      <4>1. Elsewhere(w)'
        BY <1>1, <2>2, <3>2
      <4> QED
        BY <2>2, <3>2, <4>1
    <3> QED
      BY <2>3, <2>6, <3>1, <3>2
  <2>7. CASE (\A m \in 1..((i + 1) - 1) : q[m].do = "prefetch") /\ Elsewhere(w)
    <3>1. Head(q).do = "prefetch" /\ \A m \in 1..(i - 1) : r[m].do = "prefetch"
      BY <2>3, <2>5, <2>7
    <3>2. Elsewhere(w)'
      BY <1>1, <2>7, <3>1
    <3> QED
      BY <2>2, <3>1, <3>2
  <2> QED
    BY <2>4, <2>6, <2>7
<1>4. batch' = r
  BY <1>1, <1>2
<1> QED
  BY <1>3, <1>4 DEF LedOn

-----------------------------------------------------------------------------
(* What is sent, told and shown.                                             *)

\* A step tells the sidebar that its frame of a window is still current only if the gate
\* vouches for that.
Tells ==
  \A w \in Window : wire' = Append(wire, Fresh(w)) => tui.up # "here" \/ Gated(pv.warm[w], w)

\* Messages that leave the cache of whoever reads them.
Quiet(s) == \A t \in Tui : Read(t, s).cache = t.cache

\* What is sent ends with one message.
LEMMA LastIs ==
  ASSUME NEW s \in Seq(Message), NEW m \in Message, NEW u \in Seq(Message), NEW n \in Message,
         Append(s, m) = Append(u, n)
  PROVE  m = n
<1>1. /\ Len(Append(s, m)) = Len(s) + 1 /\ Append(s, m)[Len(s) + 1] = m
      /\ Len(Append(u, n)) = Len(u) + 1 /\ Append(u, n)[Len(u) + 1] = n
  BY AppendProperties
<1>2. Len(s) \in Nat /\ Len(u) \in Nat
  BY LenProperties
<1>3. Len(s) = Len(u)
  BY <1>1, <1>2
<1> QED
  BY <1>1, <1>3

\* What can be said of a window is a message.
LEMMA FreshIs == ASSUME NEW w \in Window PROVE Fresh(w) \in Message /\ Fresh(w).type = "fresh" /\ Fresh(w).win = w
  BY DEF Fresh, Message

\* Nothing is told when nothing is sent.
LEMMA SilentTells ==
  ASSUME TypeOK, \/ wire' = wire \/ wire' = <<>>
                 \/ wire # <<>> /\ wire' = Tail(wire)
  PROVE  Tells
<1> SUFFICES ASSUME NEW w \in Window, wire' = Append(wire, Fresh(w)) PROVE FALSE
  BY DEF Tells
<1>1. PICK s \in Seq(Message), m \in Message : s = wire /\ m = Fresh(w)
  BY FreshIs DEF TypeOK
<1>2. Len(Append(s, m)) = Len(s) + 1 /\ Append(s, m) # <<>> /\ Len(s) \in Nat
  BY AppendProperties, LenProperties
<1>3. Append(s, m) # s
  BY <1>2
<1>4. s # <<>> => Append(s, m) # Tail(s)
  <2>1. s # <<>> => Len(Tail(s)) = Len(s) - 1
    BY HeadTailProperties
  <2> QED
    BY <1>2, <2>1
<1> QED
  BY <1>1, <1>2, <1>3, <1>4

\* Nor when what is sent ends with something else.
LEMMA OtherTells ==
  ASSUME TypeOK, NEW s \in Seq(Message), NEW m \in Message, m.type # "fresh", Sends(s \o <<m>>)
  PROVE  Tells
<1>1. CASE tui.up # "here"
  BY <1>1 DEF Tells
<1>2. CASE tui.up = "here"
  <2> SUFFICES ASSUME NEW w \in Window, wire' = Append(wire, Fresh(w)) PROVE FALSE
    BY DEF Tells
  <2>1. PICK q \in Seq(Message) : q = wire
    BY DEF TypeOK
  <2>2. wire' = q \o (s \o <<m>>)
    BY <1>2, <2>1 DEF Sends
  <2>3. <<m>> \in Seq(Message)
    BY OneIs
  <2>4. q \o (s \o <<m>>) = (q \o s) \o <<m>>
    BY <2>3, ConcatAssociative
  <2>5. PICK u \in Seq(Message) : u = q \o s
    BY ConcatProperties
  <2>6. wire' = Append(u, m)
    BY <2>2, <2>4, <2>5, AppendIsConcat
  <2>7. m = Fresh(w)
    BY <2>1, <2>6, FreshIs, LastIs
  <2> QED
    BY <2>7, FreshIs
<1> QED
  BY <1>1, <1>2

\* What is said of the width, of a selection and of what is current leaves the cache.
LEMMA QuietOne ==
  ASSUME NEW m \in Message, m.type \in {"select", "surface", "fresh"}
  PROVE  <<m>> \in Seq(Message) /\ Quiet(<<m>>)
<1>1. ASSUME NEW t \in Tui PROVE Read(t, <<m>>).cache = t.cache
  <2>1. Read(t, <<m>>) = Received(t, m)
    BY ReadFew
  <2>2. Received(t, m).cache = t.cache
    BY ReceivedIs
  <2> QED
    BY <2>1, <2>2
<1> QED
  BY <1>1, OneIs DEF Quiet

\* One after the other.
LEMMA QuietBoth ==
  ASSUME NEW s \in Seq(Message), Quiet(s), NEW u \in Seq(Message), Quiet(u)
  PROVE  s \o u \in Seq(Message) /\ Quiet(s \o u)
<1>1. ASSUME NEW t \in Tui PROVE Read(t, s \o u).cache = t.cache
  <2>1. Read(t, s \o u) = Read(Read(t, s), u)
    BY ReadConcat
  <2>2. PICK v \in Tui : v = Read(t, s) /\ v.cache = t.cache
    BY ReadType DEF Quiet
  <2> QED
    BY <2>1, <2>2 DEF Quiet
<1> QED
  BY <1>1, ConcatProperties DEF Quiet

\* And nothing.
LEMMA QuietNone == <<>> \in Seq(Message) /\ Quiet(<<>>)
  BY ReadFew DEF Quiet

\* A sidebar that is told such things is shown nothing.
LEMMA QuietShown ==
  ASSUME TypeOK, tui' = tui, NEW s \in Seq(Message), Sends(s), Quiet(s)
  PROVE  Shown
<1>1. ASSUME tui.up = "here" PROVE Reached'.cache = Reached.cache
  <2>1. PICK t \in Tui : t = Reached
    BY ReachedType
  <2>2. Reached' = Read(t, s)
    BY <1>1, <2>1, SendsIs
  <2> QED
    BY <2>1, <2>2 DEF Quiet
<1> QED
  BY <1>1 DEF Shown

\* Nor is one that is told nothing.
LEMMA SameShown == ASSUME tui' = tui, wire' = wire PROVE Shown
<1>1. Reached' = Reached
  BY DEF Reached
<1> QED
  BY <1>1 DEF Shown

\* A preview is asked for, or what is remembered is told to be current.
LEMMA AsksFresh ==
  ASSUME TypeOK, NEW w \in Window, NEW kind \in {"start", "show", "stream", "prefetch"},
         NEW p \in Views, kind = "prefetch" => p = pv, Asks(w, kind, p), tui' = tui
  PROVE  /\ pv' = p /\ job' \in {None, Asked(w, kind)}
         /\ kind \in {"start", "show"} => job' = Asked(w, kind)
         /\ Shown /\ Tells
<1>1. /\ pv' = p /\ job' \in {None, Asked(w, kind)}
      /\ kind \in {"start", "show"} => job' = Asked(w, kind)
  BY DEF Asks
<1>2. CASE Sends(<<>>)
  <2>1. Shown
    BY <1>2, QuietNone, QuietShown
  <2>2. wire' = wire
    <3>1. wire \o <<>> = wire
      BY ConcatEmptySeq DEF TypeOK
    <3> QED
      BY <1>2, <3>1 DEF Sends
  <2> QED
    BY <1>1, <2>1, <2>2, SilentTells
<1>3. CASE kind = "prefetch" /\ Gated(pv.warm[w], w) /\ Sends(<<Fresh(w)>>)
  <2>1. PICK m \in Message : m = Fresh(w) /\ m.type = "fresh" /\ m.win = w
    BY FreshIs
  <2>2. <<m>> \in Seq(Message) /\ Quiet(<<m>>)
    BY <2>1, QuietOne
  <2>3. Shown
    BY <1>3, <2>1, <2>2, QuietShown
  <2>4. ASSUME NEW x \in Window, wire' = Append(wire, Fresh(x)), tui.up = "here" PROVE x = w
    <3>1. PICK q \in Seq(Message) : q = wire
      BY DEF TypeOK
    <3>2. Append(q, m) = Append(q, Fresh(x))
      BY <1>3, <2>1, <2>4, <3>1, AppendIsConcat DEF Sends
    <3>3. m = Fresh(x)
      BY <3>2, FreshIs, LastIs
    <3> QED
      BY <2>1, <3>3, FreshIs
  <2>5. Tells
    BY <1>3, <2>4 DEF Tells
  <2> QED
    BY <1>1, <2>3, <2>5
<1>4. Sends(<<>>) \/ (kind = "prefetch" /\ Gated(pv.warm[w], w) /\ Sends(<<Fresh(w)>>))
  BY DEF Asks
<1> QED
  BY <1>2, <1>3, <1>4

\* The views are as they were, or reset.
LEMMA Forgotten ==
  ASSUME TypeOK, pv' \in {pv, Reset(pv), [Reset(pv) EXCEPT !.target = None]}
  PROVE  Forgets
<1>1. CASE pv' = pv
  BY <1>1 DEF Forgets
<1>2. CASE pv' \in {Reset(pv), [Reset(pv) EXCEPT !.target = None]}
  <2>1. pv'.last = None /\ pv'.warm = NoWarm
    BY <1>2 DEF TypeOK, Views, Reset
  <2> QED
    BY <2>1 DEF Forgets, NoWarm
<1> QED
  BY <1>1, <1>2

\* A preview that is asked for is of what there is, and has captured nothing.
LEMMA AskedIs ==
  ASSUME TypeOK, NEW w \in Window, NEW kind \in {"start", "show", "stream", "prefetch"}
  PROVE  /\ Asked(w, kind) # None /\ Asked(w, kind).win = w /\ Asked(w, kind).kind = kind
         /\ Asked(w, kind).ids = screen[w].ids /\ Asked(w, kind).text = None
<1>1. Asked(w, kind) \in Job
  BY DEF Asked, Job, TypeOK
<1> QED
  BY <1>1, BillboardsAssumption DEF Asked

\* A command that captures nothing, and keeps or forgets what there was.
LEMMA RunsFresh ==
  ASSUME GInv, IInv', NEW what, Runs(what), Shown,
         pv' \in {pv, Reset(pv), [Reset(pv) EXCEPT !.target = None]},
         \/ job' = None
         \/ \E w \in Window, kind \in {"start", "show", "stream", "prefetch"} :
              job' = Asked(w, kind) /\ (kind = "prefetch" => failed \/ pv'.target # w),
         what = "preview" => \A w \in Window : w # Head(batch).win => Elsewhere(w)',
         what = "prefetch" => \A w \in Window : Elsewhere(w) => Elsewhere(w)'
  PROVE  GInv'
<1>1. TypeOK /\ TypeOK' /\ Led(cmds) /\ LedOn /\ Stamped /\ Vouching
  BY DEF GInv, IInv
<1>2. /\ screen' = screen /\ now' = now /\ cmds' = cmds /\ late' = late /\ failed' = failed
  BY DEF Runs
<1>3. Led(cmds)'
  BY <1>1, <1>2
<1>4. LedOn'
  BY <1>1, LedRuns
<1>5. Forgets
  BY <1>1, Forgotten
<1>6. CASE job' = None
  <2>1. Ahead'
    BY <1>6 DEF Ahead
  <2>2. Stamped' /\ Vouching'
    BY <1>1, <1>2, <1>5, <1>6, StampOn, VouchOn
  <2> QED
    BY <1>3, <1>4, <2>1, <2>2 DEF GInv
<1>7. CASE \E w \in Window, kind \in {"start", "show", "stream", "prefetch"} :
             job' = Asked(w, kind) /\ (kind = "prefetch" => failed \/ pv'.target # w)
  <2>1. PICK w \in Window, kind \in {"start", "show", "stream", "prefetch"} :
             job' = Asked(w, kind) /\ (kind = "prefetch" => failed \/ pv'.target # w)
    BY <1>7
  <2>2. /\ job'.win = w /\ job'.kind = kind /\ job'.ids = screen[job'.win].ids /\ job'.text = None
    BY <1>1, <2>1, AskedIs
  <2>3. Ahead'
    BY <1>2, <2>1, <2>2 DEF Ahead
  <2>4. Stamped' /\ Vouching'
    BY <1>1, <1>2, <1>5, <2>2, StampOn, VouchOn
  <2> QED
    BY <1>3, <1>4, <2>3, <2>4 DEF GInv
<1> QED
  BY <1>6, <1>7

-----------------------------------------------------------------------------
(* Commands: what they vouch for.                                            *)

\* A billboard is asked for: the prefetches behind it are of other windows.
LEMMA RunPreviewFresh == ASSUME GInv, IInv', RunPreview PROVE GInv' /\ Tells
<1>1. TypeOK /\ Runs("preview")
  BY DEF GInv, IInv, RunPreview
<1>2. Head(batch) \in Command /\ Head(batch).do = "preview" /\ job = None
  BY <1>1, RunsIs
<1>3. PICK w \in Window : w = Head(batch).win
  BY <1>2 DEF Command
<1>4. /\ scrub' = scrub /\ tui' = tui
      /\ \/ Asks(w, "show", pv)
         \/ Asks(w, "start", Reset(pv))
         \/ (dock # None => ~scrub) /\ pv' = pv /\ job' = job /\ wire' = wire
  BY <1>3 DEF RunPreview, StartsScrub
<1>5. Reset(pv) \in Views /\ pv \in Views
  BY <1>1 DEF TypeOK, Reset, Views, NoWarm
<1>6. CASE Asks(w, "show", pv) \/ Asks(w, "start", Reset(pv))
  <2>1. PICK kind \in {"show", "start"}, p \in Views : Asks(w, kind, p) /\ p \in {pv, Reset(pv)}
    BY <1>5, <1>6
  <2>2. pv' = p /\ job' = Asked(w, kind) /\ Shown /\ Tells
    BY <1>1, <1>4, <2>1, AsksFresh
  <2>3. job' # None /\ job'.kind = kind /\ job'.win = w
    BY <1>1, <2>2, AskedIs
  <2>4. \A x \in Window : x # Head(batch).win => Elsewhere(x)'
    BY <1>3, <2>3 DEF Elsewhere
  <2>5. pv' \in {pv, Reset(pv), [Reset(pv) EXCEPT !.target = None]}
    BY <2>1, <2>2
  <2>6. GInv'
    BY <1>1, <2>2, <2>4, <2>5, RunsFresh
  <2> QED
    BY <2>2, <2>6
<1>7. CASE (dock # None => ~scrub) /\ pv' = pv /\ job' = job /\ wire' = wire
  <2>1. job' = None /\ ~scrub'
    BY <1>1, <1>2, <1>4, <1>7 DEF TypeOK
  <2>2. \A x \in Window : x # Head(batch).win => Elsewhere(x)'
    BY <2>1 DEF Elsewhere
  <2>3. Shown /\ Tells
    BY <1>1, <1>4, <1>7, SameShown, SilentTells
  <2>4. GInv'
    BY <1>1, <1>7, <2>1, <2>2, <2>3, RunsFresh
  <2> QED
    BY <2>3, <2>4
<1> QED
  BY <1>4, <1>6, <1>7

\* A frame is asked for ahead: of another window than the target.
LEMMA RunPrefetchFresh == ASSUME GInv, IInv', RunPrefetch PROVE GInv' /\ Tells
<1>1. TypeOK /\ Runs("prefetch") /\ LedOn
  BY DEF GInv, IInv, RunPrefetch
<1>2. Head(batch) \in Command /\ Head(batch).do = "prefetch" /\ job = None /\ failed' = failed
  BY <1>1, RunsIs
<1>3. PICK w \in Window : w = Head(batch).win
  BY <1>2 DEF Command
<1>4. /\ scrub' = scrub /\ tui' = tui
      /\ \/ scrub /\ Asks(w, "prefetch", pv)
         \/ pv' = pv /\ job' = job /\ wire' = wire
  BY <1>3 DEF RunPrefetch
<1>5. CASE scrub /\ Asks(w, "prefetch", pv)
  <2>1. pv \in Views
    BY <1>1 DEF TypeOK
  <2>2. pv' = pv /\ job' \in {None, Asked(w, "prefetch")} /\ Shown /\ Tells
    BY <1>1, <1>4, <1>5, <2>1, AsksFresh
  <2>3. Elsewhere(w)
    <3>1. PICK q \in Seq(Command) : q = batch /\ q # <<>>
      BY <1>1 DEF TypeOK, Runs
    <3>2. 1 \in 1..Len(q) /\ q[1] = Head(q)
      BY <3>1, LenProperties, EmptySeq
    <3>3. ~LedIn(q, 1)
      BY DEF LedIn
    <3>4. LedIn(q, 1) \/ Elsewhere(q[1].win)
      BY <1>1, <1>2, <3>1, <3>2 DEF LedOn
    <3> QED
      BY <1>3, <3>1, <3>2, <3>3, <3>4
  <2>4. failed \/ pv'.target # w
    BY <1>2, <1>5, <2>2, <2>3 DEF Elsewhere
  <2>5. \A x \in Window : Elsewhere(x) => Elsewhere(x)'
    <3>1. job' # None => job'.kind = "prefetch"
      BY <1>1, <2>2, AskedIs
    <3> QED
      BY <1>2, <1>4, <2>2, <3>1 DEF Elsewhere
  <2>6. \/ job' = None
        \/ \E x \in Window, kind \in {"start", "show", "stream", "prefetch"} :
             job' = Asked(x, kind) /\ (kind = "prefetch" => failed \/ pv'.target # x)
    BY <2>2, <2>4
  <2>7. GInv'
    BY <1>1, <2>2, <2>5, <2>6, RunsFresh
  <2> QED
    BY <2>2, <2>7
<1>6. CASE pv' = pv /\ job' = job /\ wire' = wire
  <2>1. \A x \in Window : Elsewhere(x) => Elsewhere(x)'
    BY <1>2, <1>4, <1>6 DEF Elsewhere
  <2>2. Shown /\ Tells
    BY <1>1, <1>4, <1>6, SameShown, SilentTells
  <2>3. GInv'
    BY <1>1, <1>2, <1>6, <2>1, <2>2, RunsFresh
  <2> QED
    BY <2>2, <2>3
<1> QED
  BY <1>4, <1>5, <1>6

\* What the end of billboards sends shows nothing.
LEMMA NarrowsFresh ==
  ASSUME TypeOK, tui' = tui,
         \/ Sends(Unzoomed)
         \/ \E w \in Window, quiet \in BOOLEAN : Sends(Unzoomed \o <<Select(w, quiet)>>)
  PROVE  Shown /\ Tells
<1>1. PICK m \in Message : m = Surface(FALSE) /\ m.type = "surface" /\ Unzoomed = <<m>>
  BY MessagesAre DEF Unzoomed
<1>2. <<m>> \in Seq(Message) /\ Quiet(<<m>>) /\ <<>> \o <<m>> = <<m>>
  BY <1>1, QuietOne, ConcatEmptySeq
<1>3. CASE Sends(Unzoomed)
  <2>1. Sends(<<m>>) /\ Sends(<<>> \o <<m>>) /\ <<>> \in Seq(Message)
    BY <1>1, <1>2, <1>3
  <2>2. Shown
    BY <1>2, <2>1, QuietShown
  <2>3. Tells
    BY <1>1, <2>1, OtherTells
  <2> QED
    BY <2>2, <2>3
<1>4. CASE \E w \in Window, quiet \in BOOLEAN : Sends(Unzoomed \o <<Select(w, quiet)>>)
  <2>1. PICK n \in Message : n.type = "select" /\ Sends(<<m>> \o <<n>>)
    BY <1>1, <1>4, MessagesAre
  <2>2. <<n>> \in Seq(Message) /\ Quiet(<<n>>)
    BY <2>1, QuietOne
  <2>3. PICK s \in Seq(Message) : s = <<m>> \o <<n>> /\ Quiet(s)
    BY <1>2, <2>2, QuietBoth
  <2>4. Shown
    BY <2>1, <2>3, QuietShown
  <2>5. Tells
    BY <1>2, <2>1, OtherTells
  <2> QED
    BY <2>4, <2>5
<1> QED
  BY <1>3, <1>4

\* The dock goes where the billboards are.
LEMMA RunCommitFresh == ASSUME GInv, IInv', RunCommit PROVE GInv' /\ Tells
<1>1. TypeOK /\ Runs("commit") /\ pv' = pv /\ job' = job /\ tui' = tui
  BY DEF GInv, IInv, RunCommit
<1>2. Head(batch) \in Command /\ Head(batch).do = "commit" /\ job = None
  BY <1>1, RunsIs
<1>3. PICK w \in Window : w = Head(batch).win
  BY <1>2 DEF Command
<1>4. Sends(Unzoomed) \/ Pushes(Unzoomed, w, FALSE) \/ wire' = wire
  BY <1>3 DEF RunCommit
<1>5. Pushes(Unzoomed, w, FALSE) => Sends(Unzoomed \o <<Select(w, FALSE)>>)
  BY DEF Pushes
<1>6. Shown /\ Tells
  BY <1>1, <1>4, <1>5, NarrowsFresh, SameShown, SilentTells
<1>7. GInv'
  BY <1>1, <1>2, <1>6, RunsFresh
<1> QED
  BY <1>6, <1>7

\* The dock opens: its sidebar has nothing.
LEMMA OpensFresh ==
  ASSUME GInv, IInv', NEW what, what \notin {"preview", "prefetch"}, Runs(what),
         NEW w \in Window, NEW win, NEW quiet, Opens(w, win, quiet),
         pv' \in {pv, Reset(pv)}, job' \in {job, Asked(w, "start")}
  PROVE  GInv' /\ Tells
<1>1. TypeOK /\ job = None
  BY RunsIs DEF GInv, IInv
<1>2. wire' = <<>> /\ tui'.up = "born"
  BY DEF Opens, Sidebar
<1>3. Shown /\ Tells
  BY <1>1, <1>2, SilentTells DEF Shown
<1>4. \/ job' = None
      \/ \E x \in Window, kind \in {"start", "show", "stream", "prefetch"} :
           job' = Asked(x, kind) /\ (kind = "prefetch" => failed \/ pv'.target # x)
  BY <1>1
<1>5. GInv'
  BY <1>3, <1>4, RunsFresh
<1> QED
  BY <1>3, <1>5

\* The dock closes.
LEMMA ClosesFresh ==
  ASSUME GInv, IInv', NEW what, what \notin {"preview", "prefetch"}, Runs(what), Closes
  PROVE  GInv' /\ Tells
<1>1. TypeOK /\ job = None
  BY RunsIs DEF GInv, IInv
<1>2. wire' = <<>> /\ tui'.up = "dead" /\ job' = None /\ pv' = [Reset(pv) EXCEPT !.target = None]
  BY <1>1 DEF Closes, Sidebar
<1>3. Shown /\ Tells
  BY <1>1, <1>2, SilentTells DEF Shown
<1>4. GInv'
  BY <1>2, <1>3, RunsFresh
<1> QED
  BY <1>3, <1>4

\* A command finds nothing to do.
LEMMA NothingFresh ==
  ASSUME GInv, IInv', NEW what, what \notin {"preview", "prefetch"}, Runs(what), Nothing
  PROVE  GInv' /\ Tells
<1>1. TypeOK /\ job = None
  BY RunsIs DEF GInv, IInv
<1>2. wire' = wire /\ tui' = tui /\ job' = None /\ pv' = pv
  BY <1>1 DEF Nothing
<1>3. Shown /\ Tells
  BY <1>1, <1>2, SameShown, SilentTells
<1>4. GInv'
  BY <1>2, <1>3, RunsFresh
<1> QED
  BY <1>3, <1>4

\* close.
LEMMA RunCloseFresh == ASSUME GInv, IInv', RunClose PROVE GInv' /\ Tells
<1>1. TypeOK /\ Runs("close")
  BY DEF GInv, IInv, RunClose
<1>2. CASE dock # None /\ Pushes(Unzoomed, dock, FALSE) /\ UNCHANGED <<pv, job, tui>>
  <2>1. PICK w \in Window : w = dock
    BY <1>1, <1>2 DEF TypeOK
  <2>2. Sends(Unzoomed \o <<Select(w, FALSE)>>)
    BY <1>2, <2>1 DEF Pushes
  <2>3. Shown /\ Tells
    BY <1>1, <1>2, <2>2, NarrowsFresh
  <2>4. job' = None
    BY <1>1, <1>2, RunsIs
  <2>5. GInv'
    BY <1>1, <1>2, <2>3, <2>4, RunsFresh
  <2> QED
    BY <2>3, <2>5
<1>3. CASE Closes
  BY <1>1, <1>3, ClosesFresh
<1>4. CASE Nothing
  BY <1>1, <1>4, NothingFresh
<1> QED
  BY <1>2, <1>3, <1>4 DEF RunClose

\* toggle.
LEMMA TogglesFresh ==
  ASSUME GInv, IInv', NEW what, what \notin {"preview", "prefetch"}, Runs(what), Toggles
  PROVE  GInv' /\ Tells
<1>1. CASE \E w \in Window : Opens(w, w, FALSE) /\ UNCHANGED <<scrub, pv, job>>
  BY <1>1, OpensFresh
<1>2. CASE Closes
  BY <1>2, ClosesFresh
<1>3. CASE Nothing
  BY <1>3, NothingFresh
<1> QED
  BY <1>1, <1>2, <1>3 DEF Toggles

\* browse.
LEMMA RunBrowseFresh == ASSUME GInv, IInv', RunBrowse PROVE GInv' /\ Tells
<1>1. TypeOK /\ Runs("browse")
  BY DEF GInv, IInv, RunBrowse
<1>2. CASE \E w \in Window : Opens(w, w, FALSE) /\ pv' = Reset(pv) /\ job' = Asked(w, "start")
  BY <1>1, <1>2, OpensFresh
<1>3. CASE dock # None /\ StartsScrub(dock) /\ UNCHANGED <<dock, chosen, tui>>
  <2>1. PICK w \in Window : w = dock
    BY <1>1, <1>3 DEF TypeOK
  <2>2. Asks(w, "start", Reset(pv)) /\ Reset(pv) \in Views
    BY <1>1, <1>3, <2>1 DEF StartsScrub, TypeOK, Reset, Views, NoWarm
  <2>3. pv' = Reset(pv) /\ job' = Asked(w, "start") /\ Shown /\ Tells
    BY <1>1, <1>3, <2>2, AsksFresh
  <2>4. GInv'
    BY <1>1, <2>3, RunsFresh
  <2> QED
    BY <2>3, <2>4
<1>4. CASE Nothing
  BY <1>1, <1>4, NothingFresh
<1> QED
  BY <1>2, <1>3, <1>4 DEF RunBrowse

\* agents.
LEMMA RunAgentsFresh == ASSUME GInv, IInv', RunAgents PROVE GInv' /\ Tells
<1>1. TypeOK /\ Runs("agents")
  BY DEF GInv, IInv, RunAgents
<1>2. CASE \E w, agent \in Window : Opens(w, agent, TRUE) /\ UNCHANGED <<scrub, pv, job>>
  BY <1>1, <1>2, OpensFresh
<1>3. CASE \E agent \in Window : Pushes(<<>>, agent, TRUE) /\ UNCHANGED <<pv, job, tui>>
  <2>1. PICK m \in Message : m.type = "select" /\ Sends(<<>> \o <<m>>)
    BY <1>3, MessagesAre DEF Pushes
  <2>2. <<m>> \in Seq(Message) /\ Quiet(<<m>>) /\ <<>> \o <<m>> = <<m>> /\ <<>> \in Seq(Message)
    BY <2>1, QuietOne, ConcatEmptySeq
  <2>3. PICK s \in Seq(Message) : s = <<m>> /\ Quiet(s) /\ Sends(s)
    BY <2>1, <2>2
  <2>4. Shown
    BY <1>1, <1>3, <2>3, QuietShown
  <2>5. Tells
    BY <1>1, <2>1, <2>2, OtherTells
  <2>6. job' = None
    BY <1>1, <1>3, RunsIs
  <2>7. GInv'
    BY <1>1, <1>3, <2>4, <2>6, RunsFresh
  <2> QED
    BY <2>5, <2>7
<1>4. CASE Toggles
  BY <1>1, <1>4, TogglesFresh
<1> QED
  BY <1>2, <1>3, <1>4 DEF RunAgents

\* hello-list: a sidebar that missed the billboard is shown what is kept of the target.
LEMMA RunHelloFresh == ASSUME GInv, IInv', RunHello PROVE GInv' /\ Tells
<1>1. TypeOK /\ Streams /\ Runs("hello") /\ pv' = pv /\ job' = job /\ tui' = tui
  BY DEF GInv, IInv, RunHello
<1>2. job' = None
  BY <1>1, RunsIs
<1>3. CASE wire' = wire
  <2>1. Shown /\ Tells
    BY <1>1, <1>3, SameShown, SilentTells
  <2>2. GInv'
    BY <1>1, <1>2, <2>1, RunsFresh
  <2> QED
    BY <2>1, <2>2
<1>4. CASE wire' # wire
  <2> DEFINE f == IF scrub /\ pv.last # None THEN <<Frame(pv.target, pv.gen, pv.last)>> ELSE <<>>
             h == IF scrub THEN <<Surface(TRUE)>> ELSE <<>>
  <2>1. PICK m \in Message : m = Select(chosen.win, chosen.quiet) /\ m.type = "select"
    BY <1>1, MessagesAre DEF TypeOK
  <2>2. tui.up = "here" /\ wire' = wire \o ((h \o <<m>>) \o f)
    BY <1>4, <2>1 DEF RunHello, HelloReplay
  <2>3. h \in Seq(Message) /\ Quiet(h)
    <3>1. PICK n \in Message : n = Surface(TRUE) /\ n.type = "surface"
      BY MessagesAre
    <3>2. h \in {<<n>>, <<>>}
      BY <3>1
    <3> HIDE DEF h
    <3> QED
      BY <3>1, <3>2, QuietOne, QuietNone
  <2>4. \/ f = <<>>
        \/ \E n \in Message : /\ f = <<n>> /\ n.type = "frame" /\ n.win = pv.target
                              /\ n.text = pv.last.text /\ pv.last # None /\ pv.target \in Window
    <3>1. CASE scrub /\ pv.last # None
      <4>1. /\ pv.target \in Window /\ pv.gen \in Nat /\ pv.last.ids \in Nat /\ pv.last.text \in Texts
        BY <1>1, <3>1 DEF TypeOK, Views, Memory, Streams
      <4>2. PICK n \in Message : /\ n = Frame(pv.target, pv.gen, pv.last) /\ n.type = "frame"
                                 /\ n.win = pv.target /\ n.text = pv.last.text
        BY <4>1, FrameIs
      <4> QED
        BY <3>1, <4>1, <4>2
    <3>2. CASE ~(scrub /\ pv.last # None)
      BY <3>2
    <3> QED
      BY <3>1, <3>2
  <2> HIDE DEF f, h
  <2>5. PICK s \in Seq(Message) : s = h \o <<m>> /\ Quiet(s)
    BY <2>1, <2>3, QuietOne, QuietBoth
  <2>6. CASE f = <<>>
    <3>1. s \o <<>> = s
      BY ConcatEmptySeq
    <3>2. Sends(s) /\ Sends(h \o <<m>>)
      BY <2>2, <2>5, <2>6, <3>1 DEF Sends
    <3>3. Shown
      BY <1>1, <2>5, <3>2, QuietShown
    <3>4. Tells
      BY <1>1, <2>1, <2>3, <3>2, OtherTells
    <3>5. GInv'
      BY <1>1, <1>2, <3>3, RunsFresh
    <3> QED
      BY <3>4, <3>5
  <2>7. CASE \E n \in Message : /\ f = <<n>> /\ n.type = "frame" /\ n.win = pv.target
                                /\ n.text = pv.last.text /\ pv.last # None /\ pv.target \in Window
    <3>1. PICK n \in Message : /\ f = <<n>> /\ n.type = "frame" /\ n.win = pv.target
                               /\ n.text = pv.last.text /\ pv.last # None /\ pv.target \in Window
      BY <2>7
    <3>2. <<n>> \in Seq(Message)
      BY OneIs
    <3>3. PICK u \in Seq(Message) : u = s \o <<n>> /\ Sends(u) /\ Sends(s \o <<n>>)
      <4>1. Sends(s \o <<n>>)
        BY <2>2, <2>5, <3>1 DEF Sends
      <4> QED
        BY <3>2, <4>1, ConcatProperties
    <3>4. PICK t \in Tui, v \in Tui : t = Reached /\ v = Read(t, s) /\ v.cache = t.cache
      BY <1>1, <2>5, ReachedType, ReadType DEF Quiet
    <3>5. Reached' = Received(v, n)
      <4>1. Reached' = Read(t, u)
        BY <1>1, <2>2, <3>3, <3>4, SendsIs
      <4>2. Read(t, s \o <<n>>) = Read(v, <<n>>)
        BY <3>2, <3>4, ReadConcat
      <4>3. Read(v, <<n>>) = Received(v, n)
        BY ReadFew
      <4> QED
        BY <3>3, <4>1, <4>2, <4>3
    <3>6. /\ \A w \in Window \ {n.win} : Received(v, n).cache[w] = v.cache[w]
          /\ Received(v, n).cache[n.win].text = n.text
      BY <3>1, ReceivedIs
    <3>7. Shown
      BY <2>2, <3>1, <3>4, <3>5, <3>6 DEF Shown
    <3>8. Tells
      BY <1>1, <3>1, <3>3, OtherTells
    <3>9. GInv'
      BY <1>1, <1>2, <3>7, RunsFresh
    <3> QED
      BY <3>8, <3>9
  <2> QED
    BY <2>4, <2>6, <2>7
<1> QED
  BY <1>3, <1>4

\* Whatever command is next.
LEMMA RunCmdFresh == ASSUME GInv, IInv', RunCmd PROVE GInv' /\ Tells
<1>1. CASE RunToggle
  BY <1>1, TogglesFresh DEF RunToggle
<1> QED
  BY <1>1, RunPreviewFresh, RunPrefetchFresh, RunCommitFresh, RunCloseFresh, RunBrowseFresh,
     RunAgentsFresh, RunHelloFresh DEF RunCmd

\* What is drained is led by what it was asked for with.
LEMMA DrainFresh == ASSUME GInv, IInv', Drain PROVE GInv' /\ Tells
<1>1. TypeOK /\ TypeOK' /\ Stamped /\ Vouching
  BY DEF GInv, IInv
<1>2. /\ job = None /\ batch' = StillMatters(cmds) /\ cmds' = <<>>
      /\ UNCHANGED <<screen, now, pv, job, wire, tui, late, failed>>
  BY DEF Drain
<1>3. Led(batch')
  BY <1>2, LedDrain DEF GInv, IInv, TypeOK
<1>4. LedOn'
  BY <1>3 DEF Led, LedOn
<1>5. Led(cmds)' /\ Ahead'
  BY <1>2 DEF Led, Ahead
<1>6. Forgets /\ Shown /\ Tells
  BY <1>1, <1>2, Forgotten, SameShown, SilentTells
<1>7. Stamped' /\ Vouching'
  BY <1>1, <1>2, <1>6, StampOn, VouchOn
<1> QED
  BY <1>4, <1>5, <1>6, <1>7 DEF GInv

\* The batch stays, and so does what its prefetches are ahead of.
LEMMA LedStill ==
  ASSUME TypeOK, LedOn, batch' = batch, \A w \in Window : Elsewhere(w) => Elsewhere(w)'
  PROVE  LedOn'
<1>1. PICK q \in Seq(Command) : q = batch
  BY DEF TypeOK
<1>2. ASSUME NEW i \in 1..Len(q), q[i].do = "prefetch"
      PROVE  LedIn(q, i) \/ ((\A m \in 1..(i - 1) : q[m].do = "prefetch") /\ Elsewhere(q[i].win)')
  <2>1. q[i] \in Command
    BY ElementOfSeq
  <2>2. PICK w \in Window : w = q[i].win
    BY <1>2, <2>1 DEF Command
  <2>3. LedIn(q, i) \/ ((\A m \in 1..(i - 1) : q[m].do = "prefetch") /\ Elsewhere(w))
    BY <1>1, <1>2, <2>2 DEF LedOn
  <2> QED
    BY <2>2, <2>3
<1> QED
  BY <1>1, <1>2 DEF LedOn

\* The panes are captured as they are, or the preview is given up.
LEMMA CapturesFresh == ASSUME GInv, IInv', Captures PROVE GInv' /\ Tells
<1>1. TypeOK /\ TypeOK' /\ LedOn /\ Ahead /\ Stamped /\ Vouching
  BY DEF GInv, IInv
<1>2. /\ job # None
      /\ job' = IF job.ids = screen[job.win].ids
                THEN [job EXCEPT !.text = screen[job.win].text] ELSE None
      /\ failed' = (failed \/ job' = None)
      /\ UNCHANGED <<screen, now, scrub, pv, batch, cmds, wire, tui, late>>
  BY DEF Captures
<1>3. \/ job' = None /\ failed'
      \/ /\ job'.win = job.win /\ job'.kind = job.kind /\ job'.ids = job.ids
         /\ job'.text = screen[job.win].text /\ (failed => failed') /\ (failed' <=> failed \/ job' = None)
  <2>1. PICK j \in Job : j = job
    BY <1>1, <1>2 DEF TypeOK
  <2>2. PICK text : text = screen[j.win].text
    OBVIOUS
  <2>3. /\ [j EXCEPT !.text = text].win = j.win /\ [j EXCEPT !.text = text].kind = j.kind
        /\ [j EXCEPT !.text = text].ids = j.ids /\ [j EXCEPT !.text = text].text = text
    BY DEF Job
  <2> QED
    BY <1>2, <2>1, <2>2, <2>3
<1>4. ASSUME NEW w \in Window, Elsewhere(w) PROVE Elsewhere(w)'
  BY <1>2, <1>3, <1>4 DEF Elsewhere
<1>5. LedOn'
  BY <1>1, <1>2, <1>4, LedStill
<1>6. Led(cmds)' /\ Ahead'
  <2>1. Ahead'
    BY <1>1, <1>2, <1>3 DEF Ahead
  <2> QED
    BY <1>2, <2>1 DEF GInv
<1>7. Forgets /\ Shown /\ Tells
  BY <1>1, <1>2, Forgotten, SameShown, SilentTells
<1>8. Stamped'
  BY <1>1, <1>2, <1>3, <1>7, StampOn
<1>9. Vouching'
  <2>1. job' = None \/ job'.text = screen[job'.win].text
    BY <1>3
  <2> QED
    BY <1>1, <1>2, <1>3, <1>7, <2>1, VouchOn
<1> QED
  BY <1>5, <1>6, <1>7, <1>8, <1>9 DEF GInv

\* The target is asked for again.
LEMMA TickFresh == ASSUME GInv, IInv', Tick PROVE GInv' /\ Tells
<1>1. TypeOK /\ TypeOK' /\ Stamped /\ Vouching
  BY DEF GInv, IInv
<1>2. /\ batch = <<>> /\ pv.target # None /\ Asks(pv.target, "stream", pv)
      /\ UNCHANGED <<screen, now, batch, cmds, tui, late, failed>>
  BY DEF Tick
<1>3. pv \in Views /\ pv.target \in Window
  BY <1>1, <1>2 DEF TypeOK, Views
<1>4. PICK w \in Window : w = pv.target
  BY <1>3
<1>5. pv' = pv /\ job' \in {None, Asked(w, "stream")} /\ Shown /\ Tells
  BY <1>1, <1>2, <1>3, <1>4, AsksFresh
<1>6. job' # None => job'.kind = "stream" /\ job'.ids = screen[job'.win].ids /\ job'.text = None
  BY <1>1, <1>5, AskedIs
<1>7. Led(cmds)' /\ LedOn' /\ Ahead'
  BY <1>2, <1>6 DEF GInv, LedOn, Ahead
<1>8. Forgets
  BY <1>1, <1>5, Forgotten
<1>9. Stamped' /\ Vouching'
  BY <1>1, <1>2, <1>5, <1>6, <1>8, StampOn, VouchOn
<1> QED
  BY <1>5, <1>7, <1>9 DEF GInv

-----------------------------------------------------------------------------
(* What is shipped, and vouched for.                                         *)

\* A frame ahead of the selection is what the window shows, if the gate is to vouch for it.
LEMMA ShipsAheadFresh == ASSUME GInv, IInv', Ships, job.kind = "prefetch" PROVE GInv' /\ Tells
<1>1. TypeOK /\ TypeOK' /\ LedOn /\ Ahead /\ Stamped /\ Vouching
  BY DEF GInv, IInv
<1>2. /\ job # None /\ job.text # None /\ job' = None /\ pv' = Warmed(pv, job)
      /\ Sends(<<Frame(job.win, 0, job)>>) /\ scrub' = (scrub \/ job.kind = "start")
      /\ late' = (late \/ /\ screen[job.win].text # job.text
                          /\ screen[job.win].act = job.act /\ now > job.act)
      /\ UNCHANGED <<screen, now, batch, cmds, tui, failed>>
  BY DEF Ships
<1>3. PICK j \in Job : j = job /\ j.text \in Texts
  BY <1>1, <1>2 DEF TypeOK, Job
<1>4. PICK k : k = Shot(j) /\ k.ids = j.ids /\ k.act = j.act /\ k.at = now
  <2>1. /\ Shot(j).ids = j.ids /\ Shot(j).act = j.act /\ Shot(j).at = now
    BY DEF Shot
  <2> QED
    BY <2>1
<1>5. /\ j.win \in Window /\ pv'.warm = [pv.warm EXCEPT ![j.win] = k]
      /\ pv'.last = pv.last /\ pv'.target = pv.target
  BY <1>1, <1>2, <1>3, <1>4 DEF Warmed, TypeOK, Views, Job
<1>6. pv'.warm[j.win] = k /\ \A w \in Window : w # j.win => pv'.warm[w] = pv.warm[w]
  <2>1. DOMAIN pv.warm = Window
    BY <1>1 DEF TypeOK, Views
  <2> QED
    BY <1>5, <2>1
<1>7. scrub' <=> scrub
  BY <1>2
<1>8. ASSUME NEW w \in Window, Elsewhere(w) PROVE Elsewhere(w)'
  BY <1>2, <1>5, <1>7, <1>8 DEF Elsewhere
<1>9. Led(cmds)' /\ LedOn' /\ Ahead'
  <2>1. LedOn'
    BY <1>1, <1>2, <1>8, LedStill
  <2> QED
    BY <1>2, <2>1 DEF GInv, Ahead
<1>10. Stamped'
  <2>1. now \in Nat
    BY <1>1 DEF TypeOK
  <2>2. k.at <= now' /\ k.ids <= screen'[j.win].ids
    BY <1>1, <1>2, <1>3, <1>4, <2>1 DEF Stamped
  <2>3. ASSUME NEW w \in Window, pv'.warm[w] # None
        PROVE  pv'.warm[w].at <= now' /\ pv'.warm[w].ids <= screen'[w].ids
    <3>1. CASE w = j.win
      BY <1>6, <2>2, <3>1
    <3>2. CASE w # j.win
      BY <1>1, <1>2, <1>6, <2>3, <3>2 DEF Stamped
    <3> QED
      BY <3>1, <3>2
  <2> QED
    BY <1>2, <2>3 DEF Stamped
<1>11. PICK m \in Message : /\ m = Frame(j.win, 0, j) /\ m.type = "frame" /\ m.win = j.win
                            /\ m.text = j.text
  BY <1>3, <1>5, FrameIs DEF Job
<1>12. <<m>> \in Seq(Message) /\ <<>> \o <<m>> = <<m>> /\ <<>> \in Seq(Message) /\ Sends(<<m>>)
  BY <1>2, <1>3, <1>11, OneIs, ConcatEmptySeq
<1>13. Tells
  <2>1. Sends(<<>> \o <<m>>)
    BY <1>12
  <2> QED
    BY <1>1, <1>11, <1>12, <2>1, OtherTells
<1>14. ASSUME tui.up = "here"
       PROVE  /\ Reached'.cache[j.win].text = j.text
              /\ \A w \in Window : w # j.win => Reached'.cache[w] = Reached.cache[w]
  <2>1. PICK t \in Tui : t = Reached
    BY <1>1, ReachedType
  <2>2. Reached' = Read(t, <<m>>)
    BY <1>1, <1>2, <1>12, <1>14, <2>1, SendsIs
  <2>3. Read(t, <<m>>) = Received(t, m)
    BY ReadFew
  <2>4. /\ Received(t, m).cache[m.win].text = m.text
        /\ \A w \in Window \ {m.win} : Received(t, m).cache[w] = t.cache[w]
    BY <1>11, ReceivedIs
  <2> QED
    BY <1>11, <2>1, <2>2, <2>3, <2>4
<1>15. Vouching'
  <2> SUFFICES ASSUME NEW w \in Window, Vouched(w)' PROVE Honest(w)'
    BY DEF Vouching
  <2>1. ~late' /\ ~late /\ ~failed /\ Gated(pv.warm[w], w)' /\ tui' = tui /\ job' = None
    BY <1>2 DEF Vouched
  <2>2. CASE w = j.win
    <3>1. j.act = screen[w].act /\ now > j.act
      BY <1>2, <1>4, <1>6, <2>1, <2>2 DEF Gated
    <3>2. screen[w].text = j.text
      BY <1>2, <1>3, <2>1, <2>2, <3>1
    <3>3. pv.target # w
      BY <1>1, <1>2, <1>3, <2>1, <2>2 DEF Ahead
    <3> QED
      BY <1>2, <1>5, <1>14, <2>1, <2>2, <3>2, <3>3 DEF Honest
  <2>3. CASE w # j.win
    <3>1. Vouched(w)
      BY <1>2, <1>6, <2>1, <2>3 DEF Vouched, Gated
    <3>2. Honest(w)
      BY <1>1, <3>1 DEF Vouching
    <3> QED
      BY <1>2, <1>5, <1>14, <2>1, <2>3, <3>2 DEF Honest
  <2> QED
    BY <2>2, <2>3
<1> QED
  BY <1>9, <1>10, <1>13, <1>15 DEF GInv

\* A sidebar that reads what is shipped has what it had of a window, or what is shipped.
LEMMA BodyText ==
  ASSUME NEW p \in Views, NEW j \in Job, j.text \in Texts, NEW f, f = Body(j, p),
         j.kind = "stream" => j.win = p.target, NEW t \in Tui, Behind(t, p)
  PROVE  \A w \in Window : \/ Read(t, f).cache[w] = t.cache[w]
                           \/ w = j.win /\ Read(t, f).cache[w].text = j.text
<1>1. j.win \in Window /\ j.ids \in Nat /\ p.gen \in Nat /\ p.gen + 1 \in Nat
  BY DEF Job, Views
<1>2. CASE f = <<>>
  BY <1>2, ReadFew
<1>3. CASE j.kind = "stream" /\ p.last # None /\ f = <<Delta(j.win, p.gen, j, p.last)>>
  <2>1. p.last.text \in Texts
    BY <1>3 DEF Views, Memory
  <2>2. PICK m \in Message :
          /\ m = Delta(j.win, p.gen, j, p.last) /\ m.type = "delta" /\ m.win = j.win /\ m.base = p.gen
          /\ \A c : c.text = p.last.text => Patched(c, m).text = j.text
    BY <1>1, <2>1, DeltaIs
  <2>3. Read(t, f) = Received(t, m)
    BY <1>3, <2>2, ReadFew
  <2>4. /\ \A w \in Window \ {j.win} : Received(t, m).cache[w] = t.cache[w]
        /\ Received(t, m).cache[j.win] =
             IF Patches(t, m) THEN Patched(t.cache[j.win], m) ELSE t.cache[j.win]
    BY <2>2, ReceivedIs
  <2>5. Patches(t, m) => t.cache[j.win].text = p.last.text
    BY <1>1, <1>3, <2>2 DEF Behind, Patches
  <2> QED
    BY <2>2, <2>3, <2>4, <2>5
<1>4. CASE f = <<Frame(j.win, p.gen + 1, j)>>
  <2>1. PICK m \in Message : /\ m = Frame(j.win, p.gen + 1, j) /\ m.type = "frame" /\ m.win = j.win
                             /\ m.text = j.text
    BY <1>1, FrameIs
  <2>2. Read(t, f) = Received(t, m)
    BY <1>4, <2>1, ReadFew
  <2>3. /\ \A w \in Window \ {j.win} : Received(t, m).cache[w] = t.cache[w]
        /\ Received(t, m).cache[j.win].text = j.text
    BY <2>1, ReceivedIs
  <2> QED
    BY <2>2, <2>3
<1> QED
  BY <1>2, <1>3, <1>4 DEF Body

\* What is shipped is messages, and tells nothing to be current.
LEMMA BodyType ==
  ASSUME NEW p \in Views, NEW j \in Job, j.text \in Texts, NEW f, f = Body(j, p)
  PROVE  f = <<>> \/ \E m \in Message : m.type # "fresh" /\ f = <<m>>
<1>1. j.win \in Window /\ j.ids \in Nat /\ p.gen \in Nat /\ p.gen + 1 \in Nat
  BY DEF Job, Views
<1>2. CASE p.last # None /\ f = <<Delta(j.win, p.gen, j, p.last)>>
  <2>1. p.last.text \in Texts
    BY <1>2 DEF Views, Memory
  <2>2. PICK m \in Message : m = Delta(j.win, p.gen, j, p.last) /\ m.type = "delta"
    BY <1>1, <2>1, DeltaIs
  <2> QED
    BY <1>2, <2>2
<1>3. CASE f = <<Frame(j.win, p.gen + 1, j)>>
  <2>1. PICK m \in Message : m = Frame(j.win, p.gen + 1, j) /\ m.type = "frame"
    BY <1>1, FrameIs
  <2> QED
    BY <1>3, <2>1
<1> QED
  BY <1>2, <1>3 DEF Body

\* A frame of the target is what the window shows, if the gate vouches for another frame
\* of it that was captured before.
LEMMA ShipsTargetFresh == ASSUME GInv, IInv', Ships, job.kind # "prefetch" PROVE GInv' /\ Tells
<1>1. TypeOK /\ TypeOK' /\ Streams /\ LedOn /\ Stamped /\ Vouching
  BY DEF GInv, IInv
<1>2. job # None /\ job.text # None
  BY DEF Ships
<1>3. PICK j \in Job : j = job /\ j.text \in Texts
  BY <1>1, <1>2 DEF TypeOK, Job
<1>4. PICK f : f = Body(j, pv)
  OBVIOUS
<1> DEFINE s == IF j.kind = "start" THEN <<Surface(TRUE)>> ELSE <<>>
           gen == IF f = <<>> THEN pv.gen ELSE pv.gen + 1
<1>5. /\ job' = None /\ pv' = Showing(pv, j, gen) /\ Sends(f \o s)
      /\ late => late'
      /\ UNCHANGED <<screen, now, batch, cmds, tui, failed>>
  BY <1>3, <1>4 DEF Ships, Body
<1>6. PICK n \in Message : n = Surface(TRUE) /\ n.type = "surface"
  BY MessagesAre
<1>7. (s = <<n>> \/ s = <<>>) /\ s \in Seq(Message) /\ Quiet(s)
  <2>1. s = <<n>> \/ s = <<>>
    BY <1>6
  <2> HIDE DEF s
  <2> QED
    BY <1>6, <2>1, QuietOne, QuietNone
<1>8. pv'.warm = pv.warm /\ pv'.last.text = j.text /\ pv'.target = j.win /\ j.win \in Window
  <2>1. PICK k : k = Shot(j) /\ k.text = j.text
    BY <1>1, <1>3, ShotIs
  <2>2. pv' = [pv EXCEPT !.last = k, !.gen = gen, !.target = j.win]
    BY <1>5, <2>1 DEF Showing
  <2> HIDE DEF gen
  <2> QED
    BY <1>1, <2>1, <2>2 DEF TypeOK, Views, Job
<1> HIDE DEF gen, s
<1>9. pv \in Views /\ (j.kind = "stream" => j.win = pv.target)
  BY <1>1, <1>2, <1>3 DEF TypeOK, Streams
<1>10. f = <<>> \/ \E m \in Message : m.type # "fresh" /\ f = <<m>>
  BY <1>3, <1>4, <1>9, BodyType
<1>11. f \in Seq(Message)
  <2>1. <<>> \in Seq(Message) /\ \A m \in Message : <<m>> \in Seq(Message)
    BY OneIs
  <2> QED
    BY <1>10, <2>1
<1>12. Tells
  <2>1. CASE s = <<n>>
    BY <1>1, <1>5, <1>6, <1>11, <2>1, OtherTells
  <2>2. CASE s = <<>> /\ f = <<>>
    <3>1. wire \o <<>> = wire /\ <<>> \o <<>> = <<>>
      BY <1>1, ConcatEmptySeq DEF TypeOK
    <3>2. wire' = wire
      BY <1>5, <2>2, <3>1 DEF Sends
    <3> QED
      BY <1>1, <3>2, SilentTells
  <2>3. CASE s = <<>> /\ \E m \in Message : m.type # "fresh" /\ f = <<m>>
    <3>1. PICK m \in Message : m.type # "fresh" /\ f = <<m>>
      BY <2>3
    <3>2. f \o <<>> = f /\ <<>> \o <<m>> = <<m>> /\ <<>> \in Seq(Message)
      BY <1>11, <3>1, ConcatEmptySeq
    <3>3. Sends(<<>> \o <<m>>)
      BY <1>5, <2>3, <3>1, <3>2
    <3> QED
      BY <1>1, <3>1, <3>2, <3>3, OtherTells
  <2> QED
    BY <1>7, <1>10, <2>1, <2>2, <2>3
<1>13. ASSUME tui.up = "here", NEW w \in Window
       PROVE  \/ Reached'.cache[w] = Reached.cache[w]
              \/ w = j.win /\ Reached'.cache[w].text = j.text
  <2>1. PICK t \in Tui : t = Reached /\ Behind(t, pv)
    BY <1>1, <1>13, ReachedType DEF GInv, IInv, Lineage
  <2>2. PICK u \in Tui : u = Read(t, f)
    BY <1>11, ReadType
  <2>3. PICK msgs \in Seq(Message) : msgs = f \o s /\ Sends(msgs)
    BY <1>5, <1>7, <1>11, ConcatProperties
  <2>4. Reached' = Read(t, msgs)
    BY <1>1, <1>5, <1>13, <2>1, <2>3, SendsIs
  <2>5. Read(t, msgs) = Read(u, s) /\ Read(u, s).cache = u.cache
    BY <1>7, <1>11, <2>2, <2>3, ReadConcat DEF Quiet
  <2>6. u.cache[w] = t.cache[w] \/ (w = j.win /\ u.cache[w].text = j.text)
    BY <1>3, <1>4, <1>9, <2>1, <2>2, BodyText
  <2> QED
    BY <2>1, <2>4, <2>5, <2>6
<1>14. ASSUME NEW w \in Window, Elsewhere(w) PROVE Elsewhere(w)'
  BY <1>2, <1>3, <1>5, <1>8, <1>14 DEF Elsewhere
<1>15. Led(cmds)' /\ LedOn' /\ Ahead'
  <2>1. LedOn'
    BY <1>1, <1>5, <1>14, LedStill
  <2> QED
    BY <1>5, <2>1 DEF GInv, Ahead
<1>16. Stamped'
  BY <1>1, <1>5, <1>8 DEF Stamped
<1>17. Vouching'
  <2> SUFFICES ASSUME NEW w \in Window, Vouched(w)' PROVE Honest(w)'
    BY DEF Vouching
  <2>1. Vouched(w)
    BY <1>5, <1>8 DEF Vouched, Gated
  <2>2. Honest(w)
    BY <1>1, <2>1 DEF Vouching
  <2>3. w = j.win => screen[w].text = j.text
    BY <1>2, <1>3, <2>2 DEF Honest
  <2>4. ASSUME tui'.up = "here"
        PROVE  Reached'.cache[w] = None \/ Reached'.cache[w].text = screen'[w].text
    <3>1. tui.up = "here"
      BY <1>5, <2>4
    <3> QED
      BY <1>5, <1>13, <2>2, <2>3, <3>1 DEF Honest
  <2>5. pv'.last # None /\ pv'.target = w => pv'.last.text = screen'[w].text
    BY <1>5, <1>8, <2>3
  <2> QED
    BY <1>5, <2>4, <2>5 DEF Honest
<1> QED
  BY <1>12, <1>15, <1>16, <1>17 DEF GInv

-----------------------------------------------------------------------------
(* The sidebar and the windows: what is still vouched for.                   *)

\* More is asked for, led by what it is asked for with, and nothing is shown.
LEMMA AsksMoreFresh ==
  ASSUME GInv, IInv', NEW s \in Seq(Command), Led(s), cmds' = cmds \o s, Shown,
         UNCHANGED <<screen, now, scrub, pv, job, batch, late, failed>>
  PROVE  GInv'
<1>1. TypeOK /\ TypeOK' /\ LedOn /\ Ahead /\ Stamped /\ Vouching
  BY DEF GInv, IInv
<1>2. Led(cmds)'
  <2>1. PICK q \in Seq(Command) : q = cmds /\ Led(q)
    BY <1>1 DEF GInv, TypeOK
  <2>2. Led(q \o s)
    BY <2>1, LedMore
  <2> QED
    BY <2>1, <2>2
<1>3. LedOn'
  <2>1. \A w \in Window : Elsewhere(w) => Elsewhere(w)'
    BY DEF Elsewhere
  <2> QED
    BY <1>1, <2>1, LedStill
<1>4. Ahead'
  BY <1>1 DEF Ahead
<1>5. Forgets
  BY <1>1, Forgotten
<1>6. Vouching'
  BY <1>1, <1>5, VouchOn
<1>7. Stamped'
  BY <1>1 DEF Stamped
<1> QED
  BY <1>2, <1>3, <1>4, <1>6, <1>7 DEF GInv

\* Nothing more is asked for.
LEMMA NoMore == ASSUME TypeOK PROVE <<>> \in Seq(Command) /\ Led(<<>>) /\ cmds \o <<>> = cmds
<1>1. <<>> \in Seq(Command) /\ cmds \o <<>> = cmds
  BY ConcatEmptySeq DEF TypeOK
<1>2. Led(<<>>)
  BY DEF Led
<1> QED
  BY <1>1, <1>2

\* A sidebar that has painted has nothing yet.
LEMMA SaysHelloFresh == ASSUME GInv, IInv', SaysHello PROVE GInv' /\ Tells
<1>1. TypeOK /\ TypeOK' /\ Unpainted
  BY DEF GInv, IInv
<1>2. /\ tui.up = "born" /\ cmds' = Append(cmds, Hello(tui.life))
      /\ tui' = [tui EXCEPT !.up = "here", !.sel = chosen.win, !.unasked = chosen.quiet]
      /\ UNCHANGED <<screen, now, scrub, pv, job, batch, wire, late, failed>>
  BY DEF SaysHello
<1>3. wire' = <<>> /\ \A w \in Window : tui'.cache[w] = None
  <2>1. tui'.cache = tui.cache
    BY <1>1, <1>2 DEF TypeOK, Tui
  <2> QED
    BY <1>1, <1>2, <2>1 DEF Unpainted
<1>4. Reached' = tui'
  <2>1. PICK t : t = tui'
    OBVIOUS
  <2>2. Reached' = Read(t, <<>>)
    BY <1>3, <2>1 DEF Reached, Read
  <2> QED
    BY <2>1, <2>2, ReadFew
<1>5. Shown /\ Tells
  BY <1>1, <1>2, <1>3, <1>4, SilentTells DEF Shown
<1>6. PICK c \in Command : c = Hello(tui.life) /\ c.do # "prefetch"
  <2>1. Hello(tui.life) \in Command /\ Hello(tui.life).do # "prefetch"
    BY <1>1 DEF Hello, Command, TypeOK, Tui
  <2> QED
    BY <2>1
<1>7. PICK s \in Seq(Command) : cmds' = cmds \o s /\ Led(s)
  <2>1. cmds \in Seq(Command)
    BY <1>1 DEF TypeOK
  <2>2. <<c>> \in Seq(Command) /\ cmds' = cmds \o <<c>> /\ Led(<<c>>)
    BY <1>2, <1>6, <2>1, AppendIs, LedOne
  <2> QED
    BY <2>2
<1>8. GInv'
  BY <1>2, <1>5, <1>7, AsksMoreFresh
<1> QED
  BY <1>5, <1>8

\* A sidebar that reads a message is to have what it was to have.
LEMMA ReadsFresh == ASSUME GInv, IInv', Reads PROVE GInv' /\ Tells
<1>1. TypeOK /\ TypeOK'
  BY DEF GInv, IInv
<1>2. PICK t : t = Received(tui, Head(wire))
  OBVIOUS
<1>3. /\ tui.up = "here" /\ wire # <<>> /\ wire' = Tail(wire)
      /\ \/ tui' = [t EXCEPT !.unasked = FALSE] /\ cmds' = cmds \o Requests(t, t.sel)
         \/ tui' = t /\ cmds' = cmds
      /\ UNCHANGED <<screen, now, scrub, pv, job, batch, late, failed>>
  BY <1>2 DEF Reads
<1>4. Head(wire) \in Message /\ Tail(wire) \in Seq(Message) /\ wire \in Seq(Message)
  BY <1>1, <1>3, HeadTailProperties DEF TypeOK
<1>5. t \in Tui /\ t.sel \in Window
  <2>1. tui \in Tui /\ tui.sel \in Window
    BY <1>1, <1>3 DEF TypeOK
  <2> QED
    BY <1>2, <1>4, <2>1, ReceivedIs
<1>6. tui' \in Tui /\ tui'.cache = t.cache /\ tui'.wide = t.wide
  <2>1. CASE tui' = t
    BY <1>5, <2>1
  <2>2. CASE tui' = [t EXCEPT !.unasked = FALSE]
    BY <1>5, <2>2 DEF Tui
  <2> QED
    BY <1>3, <2>1, <2>2
<1>7. Shown
  <2>1. PICK u \in Tui, s \in Seq(Message) : u = tui' /\ s = Tail(wire)
    BY <1>4, <1>6
  <2>2. Reached' = Read(u, s)
    BY <1>3, <2>1 DEF Reached, Read
  <2>3. Reached = Read(t, s)
    BY <1>1, <1>2, <1>3, <1>4, <2>1, ReachedType, ReadOn
  <2>4. Read(u, s).cache = Read(t, s).cache
    BY <1>5, <1>6, <2>1, ReadAlike
  <2> QED
    BY <1>3, <2>2, <2>3, <2>4 DEF Shown
<1>8. Tells
  BY <1>1, <1>3, SilentTells
<1>9. PICK s \in Seq(Command) : cmds' = cmds \o s /\ Led(s)
  <2>1. CASE cmds' = cmds
    BY <1>1, <2>1, NoMore
  <2>2. CASE cmds' = cmds \o Requests(t, t.sel)
    BY <1>5, <2>2, RequestsIs, LedRequests
  <2> QED
    BY <1>3, <2>1, <2>2
<1>10. GInv'
  BY <1>3, <1>7, <1>9, AsksMoreFresh
<1> QED
  BY <1>8, <1>10

\* A key, or a new size, shows nothing.
LEMMA KeysFresh ==
  ASSUME GInv, IInv', NEW s \in Seq(Command), Led(s), cmds' = cmds \o s,
         UNCHANGED <<screen, now, scrub, pv, job, batch, wire, late, failed>>,
         tui'.up = tui.up, tui'.cache = tui.cache, tui'.wide = tui.wide
  PROVE  GInv' /\ Tells
<1>1. TypeOK /\ TypeOK'
  BY DEF GInv, IInv
<1>2. Reached'.cache = Reached.cache
  BY <1>1, Alike DEF TypeOK
<1>3. Shown
  BY <1>2 DEF Shown
<1>4. Tells
  BY <1>1, SilentTells
<1>5. GInv'
  BY <1>3, AsksMoreFresh
<1> QED
  BY <1>4, <1>5

\* The selection moves: its frame is asked for first.
LEMMA MoveSelFresh == ASSUME GInv, IInv', NEW w \in Window, MoveSel(w) PROVE GInv' /\ Tells
<1>1. TypeOK
  BY DEF GInv, IInv
<1>2. /\ Presses /\ tui' = [tui EXCEPT !.sel = w, !.unasked = tui.shrink]
      /\ cmds' = IF tui.shrink THEN cmds ELSE cmds \o Requests(tui, w)
  BY DEF MoveSel
<1>3. tui'.up = tui.up /\ tui'.cache = tui.cache /\ tui'.wide = tui.wide
  BY <1>1, <1>2 DEF TypeOK, Tui
<1>4. PICK s \in Seq(Command) : cmds' = cmds \o s /\ Led(s)
  BY <1>1, <1>2, NoMore, RequestsIs, LedRequests
<1> QED
  BY <1>1, <1>2, <1>3, <1>4, PressesIs, KeysFresh

\* The other keys ask for no frame.
LEMMA LeavesFresh ==
  ASSUME GInv, IInv', Presses, NEW c \in Command, c.do # "prefetch", cmds' = Append(cmds, c),
         tui' \in {tui, [tui EXCEPT !.shrink = tui.wide]}
  PROVE  GInv' /\ Tells
<1>1. TypeOK /\ cmds \in Seq(Command)
  BY DEF GInv, IInv, TypeOK
<1>2. tui'.up = tui.up /\ tui'.cache = tui.cache /\ tui'.wide = tui.wide
  <2>1. tui \in Tui
    BY <1>1 DEF TypeOK
  <2>2. CASE tui' = tui
    BY <2>2
  <2>3. CASE tui' = [tui EXCEPT !.shrink = tui.wide]
    BY <2>1, <2>3 DEF Tui
  <2> QED
    BY <2>2, <2>3
<1>3. PICK s \in Seq(Command) : cmds' = cmds \o s /\ Led(s)
  <2>1. <<c>> \in Seq(Command) /\ cmds' = cmds \o <<c>> /\ Led(<<c>>)
    BY <1>1, AppendIs, LedOne
  <2> QED
    BY <2>1
<1> QED
  BY <1>1, <1>2, <1>3, PressesIs, KeysFresh

\* Those keys.
LEMMA OrdersFresh ==
  ASSUME GInv, IInv', Enter \/ Quit \/ \E what \in {"toggle", "browse", "agents"} : Calls(what)
  PROVE  GInv' /\ Tells
<1>1. TypeOK
  BY DEF GInv, IInv
<1>2. CASE Enter
  <2>1. tui.sel \in Window
    BY <1>1, <1>2 DEF Enter, TypeOK
  <2>2. Commit(tui.sel) \in Command /\ Commit(tui.sel).do # "prefetch"
    BY <2>1 DEF Commit, Command
  <2> QED
    BY <1>2, <2>2, LeavesFresh DEF Enter
<1>3. CASE Quit
  <2>1. Order("close") \in Command /\ Order("close").do # "prefetch"
    BY DEF Order, Command
  <2> QED
    BY <1>3, <2>1, LeavesFresh DEF Quit
<1>4. CASE \E what \in {"toggle", "browse", "agents"} : Calls(what)
  <2>1. PICK what \in {"toggle", "browse", "agents"} : Calls(what)
    BY <1>4
  <2>2. Order(what) \in Command /\ Order(what).do # "prefetch"
    BY DEF Order, Command
  <2> QED
    BY <2>1, <2>2, LeavesFresh DEF Calls
<1> QED
  BY <1>2, <1>3, <1>4

\* The pane has shrunk.
LEMMA WinchFresh == ASSUME GInv, IInv', Winch PROVE GInv' /\ Tells
<1>1. TypeOK
  BY DEF GInv, IInv
<1>2. /\ tui' = [tui EXCEPT !.shrink = FALSE]
      /\ UNCHANGED <<screen, now, scrub, pv, job, batch, cmds, wire, late, failed>>
  BY DEF Winch
<1>3. tui'.up = tui.up /\ tui'.cache = tui.cache /\ tui'.wide = tui.wide
  BY <1>1, <1>2 DEF TypeOK, Tui
<1>4. PICK s \in Seq(Command) : cmds' = cmds \o s /\ Led(s)
  BY <1>1, <1>2, NoMore
<1> QED
  BY <1>2, <1>3, <1>4, KeysFresh

\* A window changes, and the gate no longer vouches for what was captured of it.
LEMMA ChangesFresh ==
  ASSUME GInv, IInv', NEW w \in Window, Changes, now' = now,
         \A x \in Window : x # w => screen'[x] = screen[x],
         screen'[w].ids \in {screen[w].ids, screen[w].ids + 1}, ~Gated(pv.warm[w], w)'
  PROVE  GInv' /\ Tells
<1>1. TypeOK /\ TypeOK' /\ LedOn /\ Ahead /\ Stamped /\ Vouching
  BY DEF GInv, IInv
<1>2. UNCHANGED <<scrub, pv, job, batch, cmds, wire, tui, late, failed>>
  BY DEF Changes
<1>3. Led(cmds)' /\ LedOn' /\ Ahead'
  <2>1. \A x \in Window : Elsewhere(x) => Elsewhere(x)'
    BY <1>2 DEF Elsewhere
  <2>2. LedOn'
    BY <1>1, <1>2, <2>1, LedStill
  <2> QED
    BY <1>1, <1>2, <2>2 DEF GInv, Ahead
<1>4. ASSUME NEW x \in Window, NEW n \in Nat, n <= screen[x].ids PROVE n <= screen'[x].ids
  <2>1. screen[x].ids \in Nat
    BY <1>1 DEF TypeOK
  <2> QED
    BY <1>4, <2>1
<1>5. Stamped'
  <2>1. ASSUME NEW x \in Window, pv.warm[x] # None PROVE pv.warm[x].ids <= screen'[x].ids
    <3>1. pv.warm[x].ids \in Nat
      BY <1>1, <2>1 DEF TypeOK, Views, Memory
    <3> QED
      BY <1>1, <1>4, <2>1, <3>1 DEF Stamped
  <2>2. ASSUME job # None PROVE job.ids <= screen'[job.win].ids
    <3>1. job.win \in Window /\ job.ids \in Nat
      BY <1>1, <2>2 DEF TypeOK, Job
    <3> QED
      BY <1>1, <1>4, <2>2, <3>1 DEF Stamped
  <2> QED
    BY <1>1, <1>2, <2>1, <2>2 DEF Stamped
<1>6. Reached' = Reached
  BY <1>2 DEF Reached
<1>7. Vouching'
  <2> SUFFICES ASSUME NEW x \in Window, Vouched(x)' PROVE Honest(x)'
    BY DEF Vouching
  <2>1. x # w
    BY <1>2 DEF Vouched, Gated
  <2>2. Vouched(x)
    BY <1>2, <2>1 DEF Vouched, Gated
  <2>3. Honest(x)
    BY <1>1, <2>2 DEF Vouching
  <2> QED
    BY <1>2, <1>6, <2>1, <2>3 DEF Honest
<1>8. Tells
  BY <1>1, <1>2, SilentTells
<1> QED
  BY <1>3, <1>5, <1>7, <1>8 DEF GInv

\* A window prints: in the second that is, which no capture is later than.
LEMMA OutputFresh ==
  ASSUME GInv, IInv', NEW w \in Window, NEW r \in Row, NEW g \in Glyph, Output(w, r, g)
  PROVE  GInv' /\ Tells
<1>1. TypeOK /\ Stamped
  BY DEF GInv, IInv
<1>2. /\ Changes /\ now' = now /\ pv' = pv
      /\ screen' = [screen EXCEPT ![w].text[r] = g, ![w].act = now]
  BY DEF Output, Changes
<1>3. PICK text : text = [screen[w].text EXCEPT ![r] = g]
  OBVIOUS
<1>4. screen' = [screen EXCEPT ![w] = [screen[w] EXCEPT !.text = text, !.act = now]]
  BY <1>1, <1>2, <1>3 DEF TypeOK
<1>5. PICK e : e = [screen[w] EXCEPT !.text = text, !.act = now] /\ e.act = now /\ e.ids = screen[w].ids
  <2>1. screen[w] \in [ids : Nat, act : 0..MaxSecs, text : Texts]
    BY <1>1 DEF TypeOK
  <2>2. /\ [screen[w] EXCEPT !.text = text, !.act = now].act = now
        /\ [screen[w] EXCEPT !.text = text, !.act = now].ids = screen[w].ids
    BY <2>1
  <2> QED
    BY <2>2
<1>6. screen'[w] = e /\ \A x \in Window : x # w => screen'[x] = screen[x]
  BY <1>1, <1>4, <1>5 DEF TypeOK
<1>7. ~Gated(pv.warm[w], w)'
  <2>1. ASSUME pv.warm[w] # None PROVE ~(pv.warm[w].act = now /\ pv.warm[w].at > pv.warm[w].act)
    <3>1. pv.warm[w].at <= now
      BY <1>1, <2>1 DEF Stamped
    <3>2. pv.warm[w].at \in Nat /\ now \in Nat
      BY <1>1, <2>1 DEF TypeOK, Views, Memory
    <3> QED
      BY <3>1, <3>2
  <2> QED
    BY <1>2, <1>5, <1>6, <2>1 DEF Gated
<1> QED
  BY <1>2, <1>5, <1>6, <1>7, ChangesFresh

\* A pane is replaced: by one that was not there at any capture.
LEMMA RespawnFresh == ASSUME GInv, IInv', NEW w \in Window, Respawn(w) PROVE GInv' /\ Tells
<1>1. TypeOK /\ Stamped
  BY DEF GInv, IInv
<1>2. Changes /\ now' = now /\ pv' = pv /\ screen' = [screen EXCEPT ![w].ids = @ + 1]
  <2>1. Changes /\ screen' = [screen EXCEPT ![w].ids = @ + 1]
    BY DEF Respawn
  <2> QED
    BY <2>1 DEF Changes
<1>3. screen'[w].ids = screen[w].ids + 1 /\ \A x \in Window : x # w => screen'[x] = screen[x]
  BY <1>1, <1>2 DEF TypeOK
<1>4. ~Gated(pv.warm[w], w)'
  <2>1. ASSUME pv.warm[w] # None PROVE pv.warm[w].ids # screen[w].ids + 1
    <3>1. pv.warm[w].ids <= screen[w].ids
      BY <1>1, <2>1 DEF Stamped
    <3>2. pv.warm[w].ids \in Nat /\ screen[w].ids \in Nat
      BY <1>1, <2>1 DEF TypeOK, Views, Memory
    <3> QED
      BY <3>1, <3>2
  <2> QED
    BY <1>2, <1>3, <2>1 DEF Gated
<1> QED
  BY <1>2, <1>3, <1>4, ChangesFresh

\* A second passes, or nothing happens.
LEMMA SecondFresh ==
  ASSUME GInv, IInv', now' \in {now, now + 1},
         UNCHANGED <<screen, scrub, pv, job, batch, cmds, wire, tui, late, failed>>
  PROVE  GInv' /\ Tells
<1>1. TypeOK /\ TypeOK' /\ LedOn /\ Ahead /\ Stamped /\ Vouching
  BY DEF GInv, IInv
<1>2. Led(cmds)' /\ LedOn' /\ Ahead'
  <2>1. \A x \in Window : Elsewhere(x) => Elsewhere(x)'
    BY DEF Elsewhere
  <2>2. LedOn'
    BY <1>1, <2>1, LedStill
  <2> QED
    BY <1>1, <2>2 DEF GInv, Ahead
<1>3. Forgets /\ Shown /\ Tells
  BY <1>1, Forgotten, SameShown, SilentTells
<1>4. job' = None \/ (job # None /\ job'.ids = job.ids /\ job'.win = job.win)
  OBVIOUS
<1>5. Stamped' /\ Vouching'
  BY <1>1, <1>3, <1>4, StampOn, VouchOn
<1> QED
  BY <1>2, <1>3, <1>5 DEF GInv

\* Every step keeps the invariant, and tells only what the gate vouches for.
LEMMA StepFresh == ASSUME GInv, [Next]_vars PROVE GInv' /\ Tells
<1>0. IInv'
  BY StepInv DEF GInv
<1>1. CASE Daemon
  <2>1. CASE Ships
    BY <1>0, <2>1, ShipsAheadFresh, ShipsTargetFresh
  <2> QED
    BY <1>0, <1>1, <2>1, DrainFresh, RunCmdFresh, CapturesFresh, TickFresh DEF Daemon
<1>2. CASE SaysHello
  BY <1>0, <1>2, SaysHelloFresh
<1>3. CASE Reads
  BY <1>0, <1>3, ReadsFresh
<1>4. CASE Winch
  BY <1>0, <1>4, WinchFresh
<1>5. CASE Second
  <2>1. /\ now' = now + 1
        /\ UNCHANGED <<screen, scrub, pv, job, batch, cmds, wire, tui, late, failed>>
    BY <1>5 DEF Second
  <2> QED
    BY <1>0, <2>1, SecondFresh
<1>6. CASE Enter \/ Quit \/ \E what \in {"toggle", "browse", "agents"} : Calls(what)
  BY <1>0, <1>6, OrdersFresh
<1>7. CASE \E w \in Window : MoveSel(w) \/ Respawn(w)
  BY <1>0, <1>7, MoveSelFresh, RespawnFresh
<1>8. CASE \E w \in Window, r \in Row, g \in Glyph : Output(w, r, g)
  BY <1>0, <1>8, OutputFresh
<1>9. CASE UNCHANGED vars
  <2>1. /\ now' = now
        /\ UNCHANGED <<screen, scrub, pv, job, batch, cmds, wire, tui, late, failed>>
    BY <1>9 DEF vars
  <2> QED
    BY <1>0, <2>1, SecondFresh
<1> QED
  BY <1>1, <1>2, <1>3, <1>4, <1>5, <1>6, <1>7, <1>8, <1>9 DEF Next

\* To begin with nothing is remembered, and nothing is asked for.
LEMMA InitFresh == ASSUME Init PROVE GInv
<1>1. IInv
  BY InitInv
<1>2. /\ batch = <<>> /\ cmds = <<>> /\ pv.warm = NoWarm
      /\ job # None => job = Asked(dock, "start")
  BY DEF Init
<1>3. Led(cmds) /\ LedOn
  BY <1>2 DEF Led, LedOn
<1>4. job # None => job.kind = "start" /\ job.ids = screen[job.win].ids /\ job.win \in Window
  BY <1>1, <1>2 DEF Asked, IInv, TypeOK, Job
<1>5. Ahead
  BY <1>4 DEF Ahead
<1>6. \A w \in Window : pv.warm[w] = None
  BY <1>2 DEF NoWarm
<1>7. Stamped
  <2>1. job # None => screen[job.win].ids \in Nat
    BY <1>1, <1>4 DEF IInv, TypeOK
  <2> QED
    BY <1>4, <1>6, <2>1 DEF Stamped
<1>8. Vouching
  BY <1>6 DEF Vouching, Vouched, Gated
<1> QED
  BY <1>1, <1>3, <1>5, <1>7, <1>8 DEF GInv

\* A sidebar told that its frame of a window is still current (capturePanes' gate, and the
\* fresh of handlePrefetch) is to have what the window shows, or nothing: unless an output
\* came between a capture and its stamp, or a preview was given up.
THEOREM FreshHolds == Spec => FreshIsTrue
<1>1. ASSUME GInv, [Next]_vars
      PROVE  [\A w \in Window : wire' = Append(wire, Fresh(w)) =>
                \/ late \/ failed
                \/ Reached.cache[w] = None \/ Reached.cache[w].text = screen[w].text]_vars
  <2> SUFFICES ASSUME NEW w \in Window, wire' = Append(wire, Fresh(w)), ~late, ~failed
               PROVE  Reached.cache[w] = None \/ Reached.cache[w].text = screen[w].text
    OBVIOUS
  <2>1. tui.up # "here" \/ Gated(pv.warm[w], w)
    BY <1>1, StepFresh DEF Tells
  <2>2. CASE tui.up # "here"
    <3>1. wire = <<>> /\ tui.cache[w] = None
      BY <1>1, <2>2 DEF GInv, IInv, Unpainted
    <3>2. Reached = Read(tui, <<>>)
      BY <3>1 DEF Reached, Read
    <3>3. Reached = tui
      BY <3>2, ReadFew
    <3> QED
      BY <3>1, <3>3
  <2>3. CASE tui.up = "here" /\ Gated(pv.warm[w], w)
    <3>1. Honest(w)
      BY <1>1, <2>3 DEF GInv, Vouching, Vouched
    <3> QED
      BY <2>3, <3>1 DEF Honest
  <2> QED
    BY <2>1, <2>2, <2>3
<1>2. Init => GInv
  BY InitFresh
<1>3. GInv /\ [Next]_vars => GInv'
  BY StepFresh
<1> QED
  BY <1>1, <1>2, <1>3, PTL DEF Spec, FreshIsTrue

=============================================================================
