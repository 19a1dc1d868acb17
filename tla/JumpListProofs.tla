--------------------------- MODULE JumpListProofs ---------------------------
(***************************************************************************)
(* Proofs about the jumplist: a history knows where its client is, and the *)
(* pane it was last in, for any clients, windows, panes and cap.           *)
(*                                                                         *)
(* The first half is about the operators on one history: what remove,      *)
(* prune and an arrival leave in it, and where they leave its place.       *)
(***************************************************************************)
EXTENDS JumpList, SequenceTheorems, WellFoundedInduction, TLAPS

-----------------------------------------------------------------------------
(* Counting up.                                                              *)

\* Every inhabited set of numbers has a least one.
LEMMA Least == ASSUME NEW T, T \subseteq Nat, T # {} PROVE \E x \in T : \A y \in T : x <= y
<1> DEFINE R == {p \in Nat \X Nat : p[1] < p[2]}
<1>1. IsWellFoundedOn(R, Nat)
  BY NatLessThanWellFounded DEF OpToRel
<1> HIDE DEF R
<1>2. PICK x \in T : \A y \in T : <<y, x>> \notin R
  BY <1>1, WFMin
<1>3. \A y \in T : ~(y < x)
  BY <1>2 DEF R
<1>4. ASSUME NEW y \in T PROVE x <= y
  <2>1. x \in Nat /\ y \in Nat
    OBVIOUS
  <2> QED
    BY <1>3, <2>1
<1> QED
  BY <1>4

\* A set with 0 in it that goes on from each number below n holds all of them.
LEMMA UpTo ==
  ASSUME NEW n \in Nat, NEW P, 0 \in P, \A i \in 0..n : i < n /\ i \in P => i + 1 \in P
  PROVE  \A i \in 0..n : i \in P
<1> DEFINE T == {i \in 0..n : i \notin P}
<1> SUFFICES ASSUME T # {} PROVE FALSE
  OBVIOUS
<1>1. PICK x \in T : \A y \in T : x <= y
  BY Least, T \subseteq Nat
<1>2. x \in 0..n /\ x # 0 /\ x \notin P
  OBVIOUS
<1>3. x - 1 \in 0..n /\ x - 1 < n /\ (x - 1) + 1 = x /\ ~(x <= x - 1)
  BY <1>2
<1>4. x - 1 \in P
  BY <1>1, <1>3
<1> QED
  BY <1>2, <1>3, <1>4

-----------------------------------------------------------------------------
(* What is left of a history.                                                *)

\* One more entry is looked at.
More(q, e, gone) == IF e.win \in gone THEN q ELSE Append(q, e)

\* The equation that defines what is left has a solution.
LEMMA RestDef ==
  ASSUME NEW l, NEW gone, Len(l.locs) \in Nat
  PROVE  Rest(l, gone) = [i \in 0..Len(l.locs) |->
           IF i = 0 THEN <<>> ELSE More(Rest(l, gone)[i - 1], l.locs[i], gone)]
<1> DEFINE N == Len(l.locs)
           Solves(r, n) == r = [i \in 0..n |-> IF i = 0 THEN <<>> ELSE More(r[i - 1], l.locs[i], gone)]
           P == {n \in 0..N : \E r : Solves(r, n)}
<1>1. 0 \in P
  <2>1. Solves([i \in 0..0 |-> <<>>], 0)
    OBVIOUS
  <2> HIDE DEF Solves
  <2>2. \E r : Solves(r, 0)
    BY <2>1
  <2> QED
    BY <2>2
<1>2. ASSUME NEW n \in 0..N, n < N, n \in P PROVE n + 1 \in P
  <2>1. PICK r : Solves(r, n)
    BY <1>2
  <2> DEFINE u == [i \in 0..(n + 1) |-> IF i = 0 THEN <<>> ELSE More(r[i - 1], l.locs[i], gone)]
  <2>2. ASSUME NEW i \in 0..(n + 1), i # 0 PROVE u[i - 1] = r[i - 1]
    <3>1. i - 1 \in 0..n /\ i - 1 \in 0..(n + 1)
      BY <2>2
    <3>2. r[i - 1] = IF i - 1 = 0 THEN <<>> ELSE More(r[(i - 1) - 1], l.locs[i - 1], gone)
      BY <2>1, <3>1
    <3> QED
      BY <3>1, <3>2
  <2>3. Solves(u, n + 1)
    BY <2>2
  <2> HIDE DEF Solves, u
  <2>4. \E r2 : Solves(r2, n + 1)
    BY <2>3
  <2> QED
    BY <1>2, <2>4
<1>3. N \in P
  <2> HIDE DEF P
  <2>1. \A i \in 0..N : i \in P
    BY <1>1, <1>2, UpTo
  <2> QED
    BY <2>1
<1>4. \E r : Solves(r, N)
  BY <1>3
<1> QED
  BY <1>4 DEF Rest, More

\* It starts empty, and takes one entry after the other.
LEMMA RestStep ==
  ASSUME NEW l, NEW gone, Len(l.locs) \in Nat
  PROVE  /\ Rest(l, gone)[0] = <<>>
         /\ \A i \in 1..Len(l.locs) :
              Rest(l, gone)[i] = More(Rest(l, gone)[i - 1], l.locs[i], gone)
<1> DEFINE r == Rest(l, gone)
<1>1. r = [i \in 0..Len(l.locs) |-> IF i = 0 THEN <<>> ELSE More(r[i - 1], l.locs[i], gone)]
  BY RestDef
<1> HIDE DEF r
<1>2. r[0] = <<>> /\ \A i \in 1..Len(l.locs) : r[i] = More(r[i - 1], l.locs[i], gone)
  BY <1>1
<1> QED
  BY <1>2 DEF r

\* r holds, in order, the first n entries of q that are not of a window that is gone.
Filters(r, q, n, gone) ==
  /\ r \in Seq(Entry) /\ Len(r) <= n
  /\ \A j \in 1..Len(r) : \E i \in 1..n : r[j] = q[i] /\ q[i].win \notin gone
  /\ \A i \in 1..n : q[i].win \notin gone => \E j \in 1..Len(r) : r[j] = q[i]

\* No window has two entries.
Distinct(q) == \A i, j \in 1..Len(q) : q[i].win = q[j].win => i = j

\* What is left of the first n entries is the entries that are left.
LEMMA RestIs ==
  ASSUME NEW l, NEW gone, l.locs \in Seq(Entry), NEW n \in 0..Len(l.locs)
  PROVE  /\ Filters(Rest(l, gone)[n], l.locs, n, gone)
         /\ Distinct(l.locs) => Distinct(Rest(l, gone)[n])
<1> DEFINE q == l.locs
           N == Len(q)
           r == Rest(l, gone)
           P == {i \in 0..N : Filters(r[i], q, i, gone) /\ (Distinct(q) => Distinct(r[i]))}
<1>1. q \in Seq(Entry) /\ N \in Nat
  BY LenProperties
<1>2. r[0] = <<>> /\ \A i \in 1..N : r[i] = More(r[i - 1], q[i], gone)
  BY <1>1, RestStep
<1>3. n \in 0..N
  OBVIOUS
<1> HIDE DEF q, r, N
<1>4. 0 \in P
  <2>1. <<>> \in Seq(Entry) /\ Len(<<>>) = 0
    OBVIOUS
  <2>2. Filters(<<>>, q, 0, gone) /\ Distinct(<<>>)
    BY <2>1 DEF Filters, Distinct
  <2> QED
    BY <1>1, <1>2, <2>2
<1>5. ASSUME NEW i \in 0..N, i < N, i \in P PROVE i + 1 \in P
  <2> DEFINE a == r[i]  b == r[i + 1]  e == q[i + 1]
  <2>1. i + 1 \in 1..N /\ (i + 1) - 1 = i /\ i \in Nat
    BY <1>1, <1>5
  <2>2. b = More(a, e, gone)
    BY <1>2, <2>1
  <2>3. Filters(a, q, i, gone) /\ (Distinct(q) => Distinct(a))
    BY <1>5
  <2>4. e \in Entry
    BY <1>1, <2>1, ElementOfSeq DEF N
  <2>5. a \in Seq(Entry) /\ Len(a) \in Nat /\ Len(a) <= i
    BY <2>3, LenProperties DEF Filters
  <2> HIDE DEF a, b, e
  <2>6. CASE e.win \in gone
    <3>1. b = a
      BY <2>2, <2>6 DEF More
    <3>2. Filters(a, q, i + 1, gone)
      <4>1. \A j \in 1..(i + 1) : j \in 1..i \/ j = i + 1
        BY <2>1
      <4>2. \A j \in 1..i : j \in 1..(i + 1)
        BY <2>1
      <4> QED
        BY <2>1, <2>3, <2>5, <2>6, <4>1, <4>2 DEF Filters, e
    <3> QED
      BY <1>1, <2>1, <2>3, <3>1, <3>2 DEF b
  <2>7. CASE e.win \notin gone
    <3>1. b = Append(a, e)
      BY <2>2, <2>7 DEF More
    <3>2. /\ b \in Seq(Entry) /\ Len(b) = Len(a) + 1 /\ b[Len(a) + 1] = e
          /\ \A j \in 1..Len(a) : b[j] = a[j]
      BY <2>4, <2>5, <3>1, AppendProperties
    <3>3. \A j \in 1..Len(b) : j \in 1..Len(a) \/ j = Len(a) + 1
      BY <2>5, <3>2
    <3>4. \A j \in 1..Len(a) : \E k \in 1..i : a[j] = q[k] /\ q[k].win \notin gone
      BY <2>3 DEF Filters
    <3>5. Filters(b, q, i + 1, gone)
      <4>1. ASSUME NEW j \in 1..Len(b) PROVE \E k \in 1..(i + 1) : b[j] = q[k] /\ q[k].win \notin gone
        <5>1. CASE j = Len(a) + 1
          BY <2>1, <2>7, <3>2, <5>1 DEF e
        <5>2. CASE j \in 1..Len(a)
          <6>1. PICK k \in 1..i : a[j] = q[k] /\ q[k].win \notin gone
            BY <3>4, <5>2
          <6> QED
            BY <2>1, <3>2, <5>2, <6>1
        <5> QED
          BY <3>3, <5>1, <5>2
      <4>2. ASSUME NEW k \in 1..(i + 1), q[k].win \notin gone PROVE \E j \in 1..Len(b) : b[j] = q[k]
        <5>1. CASE k = i + 1
          BY <2>5, <3>2, <5>1 DEF e
        <5>2. CASE k # i + 1
          <6>1. k \in 1..i
            BY <2>1, <5>2
          <6>2. PICK j \in 1..Len(a) : a[j] = q[k]
            BY <2>3, <4>2, <6>1 DEF Filters
          <6> QED
            BY <2>5, <3>2, <6>2
        <5> QED
          BY <5>1, <5>2
      <4>3. Len(b) <= i + 1
        BY <2>1, <2>5, <3>2
      <4> QED
        BY <3>2, <4>1, <4>2, <4>3 DEF Filters
    <3>6. ASSUME Distinct(q) PROVE Distinct(b)
      <4>1. ASSUME NEW j \in 1..Len(a) PROVE a[j].win # e.win
        <5>1. PICK k \in 1..i : a[j] = q[k]
          BY <3>4
        <5>2. k \in 1..N /\ k # i + 1
          BY <1>1, <2>1, <5>1
        <5> QED
          BY <2>1, <3>6, <5>1, <5>2 DEF Distinct, e, N
      <4>2. Distinct(a)
        BY <2>3, <3>6
      <4> QED
        BY <3>2, <3>3, <4>1, <4>2 DEF Distinct
    <3> QED
      BY <1>1, <2>1, <3>5, <3>6 DEF b
  <2> QED
    BY <2>6, <2>7
<1>6. \A i \in 0..N : i \in P
  <2> HIDE DEF P
  <2> QED
    BY <1>1, <1>4, <1>5, UpTo
<1> QED
  BY <1>3, <1>6 DEF q, r


\* b begins with a.
Begins(a, b) == Len(a) <= Len(b) /\ \A j \in 1..Len(a) : b[j] = a[j]

\* What is left of fewer entries is where what is left of more of them begins.
LEMMA RestGrows ==
  ASSUME NEW l, NEW gone, l.locs \in Seq(Entry),
         NEW m \in 0..Len(l.locs), NEW n \in 0..m
  PROVE  Begins(Rest(l, gone)[n], Rest(l, gone)[m])
<1> DEFINE N == Len(l.locs)
           r == Rest(l, gone)
           P == {i \in 0..N : n <= i => Begins(r[n], r[i])}
<1>1. N \in Nat /\ n \in 0..N /\ m \in 0..N /\ n <= m
  BY LenProperties
<1>2. r[0] = <<>> /\ \A i \in 1..N : r[i] = More(r[i - 1], l.locs[i], gone)
  BY <1>1, RestStep
<1>3. \A i \in 0..N : r[i] \in Seq(Entry)
  BY RestIs DEF Filters
<1>4. \A i \in 1..N : l.locs[i] \in Entry
  BY ElementOfSeq
<1> HIDE DEF r, N
<1>5. ASSUME NEW a, a \in Seq(Entry) PROVE Begins(a, a)
  BY <1>5, LenProperties DEF Begins
<1>6. 0 \in P
  BY <1>1, <1>3, <1>5
<1>7. ASSUME NEW i \in 0..N, i < N, i \in P PROVE i + 1 \in P
  <2>1. i + 1 \in 1..N /\ (i + 1) - 1 = i /\ i \in Nat
    BY <1>1, <1>7
  <2>2. CASE n = i + 1
    BY <1>1, <1>3, <1>5, <2>1, <2>2
  <2>3. CASE n <= i
    <3> DEFINE a == r[n]  b == r[i]  c == r[i + 1]
    <3>1. Begins(a, b)
      BY <1>7, <2>3
    <3>2. c = More(b, l.locs[i + 1], gone)
      BY <1>2, <2>1
    <3>3. a \in Seq(Entry) /\ b \in Seq(Entry) /\ Len(a) \in Nat /\ Len(b) \in Nat
      BY <1>1, <1>3, LenProperties
    <3>4. l.locs[i + 1] \in Entry
      BY <1>4, <2>1
    <3> HIDE DEF a, b, c
    <3>5. Begins(b, c)
      <4>1. CASE c = b
        BY <1>5, <3>3, <4>1
      <4>2. CASE c = Append(b, l.locs[i + 1])
        BY <3>3, <3>4, <4>2, AppendProperties DEF Begins
      <4> QED
        BY <3>2, <4>1, <4>2 DEF More
    <3>6. Begins(a, c)
      <4>1. Len(c) \in Nat
        <5>1. c \in Seq(Entry)
          BY <1>3, <2>1 DEF c
        <5> QED
          BY <5>1, LenProperties
      <4> QED
        BY <3>1, <3>3, <3>5, <4>1 DEF Begins
    <3> QED
      BY <2>1, <3>6 DEF a, c
  <2>4. CASE n > i + 1
    BY <1>1, <2>1, <2>4
  <2> QED
    BY <1>1, <2>1, <2>2, <2>3, <2>4
<1>8. \A i \in 0..N : i \in P
  <2> HIDE DEF P
  <2> QED
    BY <1>1, <1>6, <1>7, UpTo
<1> QED
  BY <1>1, <1>8 DEF r

-----------------------------------------------------------------------------
(* One history.                                                              *)

\* A history as its operators take it: each window once, a place in it unless empty.
Sound(l) ==
  /\ l = [locs |-> l.locs, cur |-> l.cur]
  /\ l.locs \in Seq(Entry) /\ Distinct(l.locs)
  /\ l.cur \in 0..Len(l.locs) /\ (l.cur = 0 => l.locs = <<>>)

\* The entries of a history.
Entries(q) == {q[i] : i \in 1..Len(q)}

\* remove drops the entries of some windows, and stays on its entry if that is left.
LEMMA RemovedIs ==
  ASSUME NEW l, Sound(l), NEW gone
  PROVE  /\ Sound(Removed(l, gone))
         /\ Entries(Removed(l, gone).locs) = {e \in Entries(l.locs) : e.win \notin gone}
         /\ Len(Removed(l, gone).locs) <= Len(l.locs)
         /\ l.cur # 0 /\ Here(l).win \notin gone =>
              Removed(l, gone).cur # 0 /\ Here(Removed(l, gone)) = Here(l)
<1> DEFINE q == l.locs  c == l.cur  N == Len(q)
           all == Rest(l, gone)[N]  some == Rest(l, gone)[c]
           r == Removed(l, gone)
<1>1. q \in Seq(Entry) /\ N \in Nat /\ c \in 0..N /\ N \in 0..N /\ Distinct(q) /\ (c = 0 => q = <<>>)
  BY LenProperties DEF Sound
<1>2. /\ Filters(all, q, N, gone) /\ Distinct(all) /\ Filters(some, q, c, gone)
      /\ Len(some) <= Len(all) /\ \A j \in 1..Len(some) : all[j] = some[j]
  <2>1. Filters(all, q, N, gone) /\ Distinct(all)
    BY <1>1, RestIs
  <2>2. Filters(some, q, c, gone)
    BY <1>1, RestIs
  <2>3. Begins(some, all)
    BY <1>1, RestGrows
  <2> QED
    BY <2>1, <2>2, <2>3 DEF Begins
<1>3. c # 0 => some = More(Rest(l, gone)[c - 1], q[c], gone)
  BY <1>1, RestStep
<1>4. c # 0 => Rest(l, gone)[c - 1] \in Seq(Entry)
  <2>1. c # 0 => c - 1 \in 0..N
    BY <1>1
  <2> QED
    BY <1>1, <2>1, RestIs DEF Filters
<1>5. r = [locs |-> all, cur |-> IF Len(some) = 0 /\ all # <<>> THEN 1 ELSE Len(some)]
  BY DEF Removed
<1>6. /\ all \in Seq(Entry) /\ Len(all) \in Nat /\ some \in Seq(Entry) /\ Len(some) \in Nat
      /\ Len(all) <= N /\ (all = <<>> <=> Len(all) = 0)
  BY <1>2, LenProperties, EmptySeq DEF Filters
<1> DEFINE prev == Rest(l, gone)[c - 1]
<1>7. c # 0 /\ q[c].win \notin gone => Len(some) # 0 /\ some[Len(some)] = q[c]
  <2> SUFFICES ASSUME c # 0, q[c].win \notin gone PROVE Len(some) # 0 /\ some[Len(some)] = q[c]
    OBVIOUS
  <2>1. prev \in Seq(Entry) /\ some = Append(prev, q[c]) /\ Len(prev) \in Nat
    BY <1>3, <1>4, LenProperties DEF More
  <2>2. q[c] \in Entry
    BY <1>1, ElementOfSeq
  <2> HIDE DEF prev, some, q, c
  <2> QED
    BY <2>1, <2>2, AppendProperties
<1>8. Sound(r) /\ r.locs = all
  BY <1>2, <1>5, <1>6 DEF Sound
<1>9. Entries(all) = {e \in Entries(q) : e.win \notin gone}
  <2>1. ASSUME NEW e \in Entries(all) PROVE e \in Entries(q) /\ e.win \notin gone
    <3>1. PICK j \in 1..Len(all) : e = all[j]
      BY <2>1 DEF Entries
    <3>2. PICK i \in 1..N : all[j] = q[i] /\ q[i].win \notin gone
      BY <1>2, <3>1 DEF Filters
    <3> QED
      BY <3>1, <3>2 DEF Entries
  <2>2. ASSUME NEW e \in Entries(q), e.win \notin gone PROVE e \in Entries(all)
    <3>1. PICK i \in 1..N : e = q[i]
      BY <2>2 DEF Entries
    <3>2. PICK j \in 1..Len(all) : all[j] = q[i]
      BY <1>2, <2>2, <3>1 DEF Filters
    <3> QED
      BY <3>1, <3>2 DEF Entries
  <2> QED
    BY <2>1, <2>2
<1>10. c # 0 /\ q[c].win \notin gone => r.cur # 0 /\ r.locs[r.cur] = q[c]
  <2> SUFFICES ASSUME c # 0, q[c].win \notin gone PROVE r.cur # 0 /\ r.locs[r.cur] = q[c]
    OBVIOUS
  <2>1. Len(some) \in 1..Len(some) /\ r.cur = Len(some)
    BY <1>5, <1>6, <1>7
  <2> QED
    BY <1>2, <1>7, <1>8, <2>1
<1> QED
  BY <1>6, <1>8, <1>9, <1>10 DEF Here


\* What an entry of a pane that has gone is left as.
LEMMA CheckedIs ==
  ASSUME NEW e \in Entry
  PROVE  /\ Checked(e) \in Entry /\ Checked(e).win = e.win
         /\ Checked(e).pane = IF HasPane(e.pane, e.win) THEN e.pane ELSE None
  BY DEF Checked, Entry

\* A function on the numbers up to n is a sequence of that length.
LEMMA IsSeq ==
  ASSUME NEW n \in Nat, NEW q, DOMAIN q = 1..n, q = [i \in 1..n |-> q[i]],
         \A i \in 1..n : q[i] \in Entry
  PROVE  q \in Seq(Entry) /\ Len(q) = n
  OBVIOUS

\* prune leaves the entries of living windows, without panes that have gone.
LEMMA PruneIs ==
  ASSUME NEW l, Sound(l)
  PROVE  /\ Sound(Prune(l)) /\ Len(Prune(l).locs) <= Len(l.locs)
         /\ Entries(Prune(l).locs) = {Checked(e) : e \in {f \in Entries(l.locs) : f.win \in alive}}
         /\ l.cur # 0 /\ Here(l).win \in alive =>
              Prune(l).cur # 0 /\ Here(Prune(l)) = Checked(Here(l))
<1> DEFINE m == Removed(l, Window \ alive)
           p == Prune(l)
           q == m.locs
           N == Len(q)
<1>1. /\ Sound(m) /\ Len(q) <= Len(l.locs)
      /\ Entries(q) = {e \in Entries(l.locs) : e.win \notin Window \ alive}
      /\ l.cur # 0 /\ Here(l).win \notin Window \ alive => m.cur # 0 /\ Here(m) = Here(l)
  BY RemovedIs
<1>2. l.locs \in Seq(Entry) /\ l.cur \in 0..Len(l.locs) /\ q \in Seq(Entry) /\ N \in Nat /\ DOMAIN q = 1..N
  BY <1>1, LenProperties DEF Sound
<1>3. \A i \in 1..N : q[i] \in Entry
  BY <1>2, ElementOfSeq
<1>4. \A e \in Entries(l.locs) : e \in Entry /\ e.win \in Window
  <2>1. \A i \in 1..Len(l.locs) : l.locs[i] \in Entry
    BY <1>2, ElementOfSeq
  <2> QED
    BY <2>1 DEF Entries, Entry
<1> HIDE DEF m
<1>5. p = [locs |-> [i \in 1..N |-> Checked(q[i])], cur |-> m.cur]
  <2>1. m = [locs |-> q, cur |-> m.cur]
    BY <1>1 DEF Sound
  <2>2. p = [m EXCEPT !.locs = [i \in 1..N |-> Checked(q[i])]]
    BY <1>2 DEF Prune, m
  <2> QED
    BY <2>1, <2>2
<1> DEFINE u == p.locs
<1>6. u = [i \in 1..N |-> Checked(q[i])] /\ p.cur = m.cur
  BY <1>5
<1> HIDE DEF p, q, u
<1>7. /\ \A i \in 1..N : u[i] = Checked(q[i]) /\ u[i] \in Entry /\ u[i].win = q[i].win
      /\ u \in Seq(Entry) /\ Len(u) = N
  <2>1. \A i \in 1..N : u[i] = Checked(q[i]) /\ u[i] \in Entry /\ u[i].win = q[i].win
    BY <1>3, <1>6, CheckedIs
  <2>2. DOMAIN u = 1..N /\ u = [i \in 1..N |-> u[i]] /\ N \in Nat
    BY <1>2, <1>6
  <2> HIDE DEF N
  <2>3. u \in Seq(Entry) /\ Len(u) = N
    BY <2>1, <2>2, IsSeq
  <2> QED
    BY <2>1, <2>3
<1>8. Sound(p)
  <2>1. Distinct(u)
    BY <1>1, <1>7 DEF Sound, Distinct, q
  <2>2. p = [locs |-> p.locs, cur |-> p.cur]
    BY <1>5
  <2>3. m.cur \in 0..N /\ (m.cur = 0 => N = 0)
    BY <1>1, <1>2, EmptySeq DEF Sound, q
  <2>4. u # <<>> => N # 0
    BY <1>7, EmptySeq
  <2> QED
    BY <1>6, <1>7, <2>1, <2>2, <2>3, <2>4 DEF Sound, u
<1>9. Entries(u) = {Checked(e) : e \in Entries(q)}
  BY <1>7 DEF Entries
<1>10. Entries(q) = {f \in Entries(l.locs) : f.win \in alive}
  BY <1>1, <1>4 DEF q
<1>11. l.cur # 0 /\ Here(l).win \in alive => p.cur # 0 /\ Here(p) = Checked(Here(l))
  <2> SUFFICES ASSUME l.cur # 0, Here(l).win \in alive PROVE p.cur # 0 /\ Here(p) = Checked(Here(l))
    OBVIOUS
  <2>1. m.cur # 0 /\ Here(m) = Here(l)
    BY <1>1
  <2>2. m.cur \in 1..N
    BY <1>1, <1>2, <2>1 DEF Sound, q
  <2> QED
    BY <1>6, <1>7, <2>1, <2>2 DEF Here, u, q
<1> QED
  BY <1>1, <1>7, <1>8, <1>9, <1>10, <1>11 DEF p, q, u

\* What Newest makes of entries: their last ones, as many as the cap allows.
IsNewest(n, q) ==
  /\ n \in History /\ Sound(n) /\ n.cur = Len(n.locs) /\ n.cur <= JumpCap /\ n.cur # 0
  /\ Entries(n.locs) \subseteq Entries(q)
  /\ n.locs[n.cur] = q[Len(q)]
  /\ Len(q) > 1 => n.cur > 1 /\ n.locs[n.cur - 1] = q[Len(q) - 1]

\* Of a history with a window once each, Newest keeps the last entries, and its end.
LEMMA NewestIs ==
  ASSUME NEW q \in Seq(Entry), Distinct(q), Len(q) # 0
  PROVE  IsNewest(Newest(q), q)
<1> DEFINE N == Len(q)
           k == IF N > JumpCap THEN JumpCap ELSE N
           u == SubSeq(q, N - k + 1, N)
<1>1. /\ N \in Nat \ {0} /\ JumpCap \in Nat \ {0, 1} /\ k \in 1..JumpCap /\ k \in 1..N
      /\ (N > 1 => k > 1) /\ N - k + 1 \in 1..N
  BY LenProperties, JumpListAssumption
<1>2. Newest(q) = [locs |-> u, cur |-> k]
  BY DEF Newest
<1> HIDE DEF k
<1>3. \A i \in 1..N : q[i] \in Entry
  BY ElementOfSeq
<1>4. u \in Seq(Entry) /\ Len(u) = k /\ \A i \in 1..k : u[i] = q[N - k + i]
  <2> DEFINE a == N - k + 1
  <2>1. a \in Int /\ N \in Int /\ a <= N /\ N - a + 1 = k /\ \A i \in a..N : i \in 1..N
    BY <1>1
  <2>2. \A i \in a..N : q[i] \in Entry
    BY <1>3, <2>1
  <2>3. \A i \in 1..k : a + i - 1 = N - k + i
    BY <1>1
  <2> HIDE DEF a, N
  <2>4. /\ SubSeq(q, a, N) \in Seq(Entry) /\ Len(SubSeq(q, a, N)) = k
        /\ \A i \in 1..k : SubSeq(q, a, N)[i] = q[a + i - 1]
    BY <2>1, <2>2, SubSeqProperties
  <2> QED
    BY <2>3, <2>4 DEF a
<1> HIDE DEF u
<1>5. \A i \in 1..k : N - k + i \in 1..N
  BY <1>1
<1>6. Distinct(u)
  <2> SUFFICES ASSUME NEW i \in 1..k, NEW j \in 1..k, u[i].win = u[j].win PROVE i = j
    BY <1>4 DEF Distinct
  <2>1. N - k + i = N - k + j
    <3>1. N - k + i \in 1..N /\ N - k + j \in 1..N /\ q[N - k + i].win = q[N - k + j].win
      BY <1>4, <1>5
    <3> DEFINE x == N - k + i  y == N - k + j
    <3>2. x \in 1..N /\ y \in 1..N /\ q[x].win = q[y].win
      BY <3>1
    <3> HIDE DEF x, y
    <3>3. x = y
      BY <3>2 DEF Distinct
    <3> QED
      BY <3>3 DEF x, y
  <2> QED
    BY <1>1, <2>1
<1>7. Entries(u) \subseteq Entries(q)
  BY <1>4, <1>5 DEF Entries
<1>8. u[k] = q[N] /\ (N > 1 => u[k - 1] = q[N - 1])
  <2>1. N - k + k = N /\ k \in 1..k
    BY <1>1
  <2>2. N > 1 => k - 1 \in 1..k /\ N - k + (k - 1) = N - 1
    BY <1>1
  <2> QED
    BY <1>4, <2>1, <2>2
<1>9. [locs |-> u, cur |-> k] \in History
  BY <1>1, <1>4 DEF History
<1>10. k # 0 /\ k <= JumpCap /\ k \in 0..k /\ (N > 1 => k > 1)
  BY <1>1
<1> QED
  BY <1>2, <1>4, <1>6, <1>7, <1>8, <1>9, <1>10 DEF IsNewest, Sound


\* What an arrival at loc makes of a history: its place is there, the rest is as it
\* was, and where the client came from is one step back.
Arrived(a, l, loc) ==
  /\ a \in History /\ Sound(a) /\ Len(a.locs) <= JumpCap /\ a.cur # 0
  /\ Here(a).win = loc.win
  /\ \A e \in Entries(a.locs) : e.win # loc.win => e \in Entries(l.locs)
  /\ \A e \in Entries(a.locs) : e.win = loc.win =>
       \/ e.pane = loc.pane /\ (loc.pane # None \/ loc.win \notin Wins(l))
       \/ loc.pane = None /\ e \in Entries(l.locs)
  /\ l.cur # 0 /\ Here(l).win # loc.win => a.cur > 1 /\ a.locs[a.cur - 1] = Here(l)

\* The windows of a history are those of its entries.
LEMMA WinsAre ==
  ASSUME NEW l, l.locs \in Seq(Entry)
  PROVE  Wins(l) = {e.win : e \in Entries(l.locs)}
<1>1. DOMAIN l.locs = 1..Len(l.locs)
  BY LenProperties
<1> QED
  BY <1>1 DEF Wins, Entries

\* The first arrival.
LEMMA FirstArrival ==
  ASSUME NEW l, Sound(l), l.locs = <<>>, NEW loc \in Entry
  PROVE  Arrived(Newest(<<loc>>), l, loc)
<1> DEFINE q == <<loc>>  n == Newest(q)
<1>1. q \in Seq(Entry) /\ Len(q) = 1 /\ q[1] = loc
  OBVIOUS
<1> HIDE DEF q
<1>2. Distinct(q) /\ Entries(q) = {loc}
  BY <1>1 DEF Distinct, Entries
<1>3. IsNewest(n, q)
  BY <1>1, <1>2, NewestIs
<1> HIDE DEF n
<1>4. Here(n) = loc
  BY <1>1, <1>3 DEF IsNewest, Here
<1>5. l.cur = 0 /\ Entries(l.locs) = {}
  <2>1. Len(l.locs) = 0
    BY EmptySeq
  <2> QED
    BY <2>1 DEF Sound, Entries
<1>6. Wins(l) = {}
  BY <1>5, WinsAre DEF Sound
<1> QED
  BY <1>2, <1>3, <1>4, <1>5, <1>6 DEF Arrived, IsNewest, q, n

\* An arrival where the place is already refreshes its pane.
LEMMA SamePlace ==
  ASSUME NEW l, Sound(l), l.locs # <<>>, Len(l.locs) <= JumpCap, NEW loc \in Entry,
         Here(l).win = loc.win
  PROVE  Arrived(Refresh(l, loc), l, loc)
<1> DEFINE q == l.locs  c == l.cur  N == Len(q)  a == Refresh(l, loc)
<1>1. /\ q \in Seq(Entry) /\ N \in Nat /\ N # 0 /\ c \in 1..N /\ Distinct(q)
      /\ l = [locs |-> q, cur |-> c] /\ JumpCap \in Nat
  BY LenProperties, EmptySeq, JumpListAssumption DEF Sound
<1>2. q[c] \in Entry /\ q[c].win = loc.win
  BY <1>1, ElementOfSeq DEF Here
<1>3. ASSUME loc.pane = None PROVE Arrived(a, l, loc)
  <2>1. a = l /\ l \in History
    BY <1>1, <1>3 DEF Refresh, History
  <2>2. \A e \in Entries(q) : e.win = loc.win => e \in Entries(q)
    OBVIOUS
  <2> HIDE DEF a
  <2>3. Sound(a) /\ a \in History /\ Len(a.locs) <= JumpCap /\ a.cur # 0 /\ Here(a).win = loc.win
    BY <1>1, <2>1
  <2> QED
    BY <1>1, <1>3, <2>1, <2>3 DEF Arrived
<1>4. ASSUME loc.pane # None PROVE Arrived(a, l, loc)
  <2> DEFINE e == [q[c] EXCEPT !.pane = loc.pane]
             u == [q EXCEPT ![c] = e]
  <2>1. e \in Entry /\ e.win = loc.win /\ e.pane = loc.pane
    BY <1>2 DEF Entry
  <2>2. a = [l EXCEPT !.locs = u]
    BY <1>4 DEF Refresh
  <2> HIDE DEF e
  <2>3. u \in Seq(Entry) /\ Len(u) = N /\ \A j \in 1..N : u[j] = IF j = c THEN e ELSE q[j]
    BY <1>1, <2>1, ExceptSeq
  <2> HIDE DEF u
  <2>4. a = [locs |-> u, cur |-> c]
    BY <1>1, <2>2
  <2> HIDE DEF a
  <2>5. Distinct(u)
    <3>1. \A j \in 1..N : u[j].win = q[j].win
      BY <1>2, <2>1, <2>3
    <3> QED
      BY <1>1, <2>3, <3>1 DEF Distinct
  <2>6. \A f \in Entries(u) : f.win # loc.win => f \in Entries(q)
    BY <2>1, <2>3 DEF Entries
  <2>7. \A f \in Entries(u) : f.win = loc.win => f.pane = loc.pane
    <3> SUFFICES ASSUME NEW j \in 1..N, u[j].win = loc.win PROVE u[j].pane = loc.pane
      BY <2>3 DEF Entries
    <3>1. CASE j = c
      BY <2>1, <2>3, <3>1
    <3>2. CASE j # c
      <4>1. q[j].win = q[c].win
        BY <1>2, <2>3, <3>2
      <4> QED
        BY <1>1, <3>2, <4>1 DEF Distinct
    <3> QED
      BY <3>1, <3>2
  <2>8. a \in History /\ a.cur # 0 /\ Here(a) = e
    <3>1. c \in 1..JumpCap
      BY <1>1
    <3> QED
      BY <1>1, <2>3, <2>4, <3>1 DEF History, Here
  <2>9. Sound(a) /\ Len(a.locs) <= JumpCap
    <3>1. c \in 0..N /\ c # 0
      BY <1>1
    <3> QED
      BY <2>3, <2>4, <2>5, <3>1 DEF Sound
  <2>10. a.locs = u
    BY <2>4
  <2> QED
    BY <1>4, <2>1, <2>6, <2>7, <2>8, <2>9, <2>10 DEF Arrived
<1> QED
  BY <1>3, <1>4

\* A blank pane is that of the older entry of the window.
LEMMA InheritIs ==
  ASSUME NEW l, Sound(l), NEW loc \in Entry
  PROVE  /\ Inherit(l, loc) \in Entry /\ Inherit(l, loc).win = loc.win
         /\ \/ Inherit(l, loc).pane = loc.pane /\ (loc.pane # None \/ loc.win \notin Wins(l))
            \/ loc.pane = None /\ Inherit(l, loc) \in Entries(l.locs)
<1>1. /\ l.locs \in Seq(Entry) /\ DOMAIN l.locs = 1..Len(l.locs)
      /\ Wins(l) = {e.win : e \in Entries(l.locs)}
      /\ {l.locs[i] : i \in DOMAIN l.locs} = Entries(l.locs)
  BY LenProperties, WinsAre DEF Sound, Entries
<1>2. Entries(l.locs) \subseteq Entry
  BY <1>1, ElementOfSeq DEF Entries
<1>3. CASE loc.pane # None \/ loc.win \notin Wins(l)
  BY <1>3 DEF Inherit
<1>4. CASE loc.pane = None /\ loc.win \in Wins(l)
  <2>1. PICK e \in Entries(l.locs) : e.win = loc.win
    BY <1>1, <1>4
  <2>2. Inherit(l, loc) = CHOOSE f \in Entries(l.locs) : f.win = loc.win
    BY <1>1, <1>4 DEF Inherit
  <2>3. Inherit(l, loc) \in Entries(l.locs) /\ Inherit(l, loc).win = loc.win
    BY <2>1, <2>2
  <2> QED
    BY <1>2, <1>4, <2>3
<1> QED
  BY <1>3, <1>4

\* The entries of a history after an arrival elsewhere, before the cap.
Joined(l, loc) == Removed(l, {Here(l).win, loc.win}).locs \o <<Here(l), Inherit(l, loc)>>

\* The entries of other windows, the one that is left, and the new one: each once.
LEMMA JoinedIs ==
  ASSUME NEW l, Sound(l), l.locs # <<>>, NEW loc \in Entry, Here(l).win # loc.win
  PROVE  LET r == Removed(l, {Here(l).win, loc.win}).locs  m == Len(r)  q == Joined(l, loc)
         IN  /\ m \in Nat /\ q \in Seq(Entry) /\ Distinct(q) /\ Len(q) = m + 2
             /\ q[m + 1] = Here(l) /\ q[m + 2] = Inherit(l, loc)
             /\ q[m + 1].win = Here(l).win /\ q[m + 2].win = loc.win
             /\ \A i \in 1..m : q[i] = r[i]
             /\ \A e \in Entries(q) : \/ e = Here(l) \/ e = Inherit(l, loc)
                                      \/ e \in Entries(l.locs) /\ e.win # loc.win
<1> DEFINE c == l.cur
           h == Here(l)
           v == Inherit(l, loc)
           r == Removed(l, {h.win, loc.win}).locs
           m == Len(r)
           q == r \o <<h, v>>
<1>1. /\ l.locs \in Seq(Entry) /\ c \in 1..Len(l.locs) /\ h = l.locs[c] /\ h \in Entries(l.locs)
  BY LenProperties DEF Sound, Here, Entries
<1>2. h \in Entry
  BY <1>1, ElementOfSeq
<1>3. /\ v \in Entry /\ v.win = loc.win
      /\ \/ v.pane = loc.pane /\ (loc.pane # None \/ loc.win \notin Wins(l))
         \/ loc.pane = None /\ v \in Entries(l.locs)
  BY InheritIs
<1>4. /\ r \in Seq(Entry) /\ Distinct(r)
      /\ Entries(r) = {e \in Entries(l.locs) : e.win \notin {h.win, loc.win}}
  BY RemovedIs DEF Sound
<1>5. q = Joined(l, loc)
  BY DEF Joined
<1>6. m \in Nat
  BY <1>4, LenProperties
<1> HIDE DEF h, v, r
<1>7. /\ q \in Seq(Entry) /\ Len(q) = m + 2 /\ q[m + 1] = h /\ q[m + 2] = v
      /\ \A i \in 1..m : q[i] = r[i]
  <2> DEFINE p == <<h, v>>
  <2>1. p \in Seq(Entry) /\ Len(p) = 2 /\ p[1] = h /\ p[2] = v
    BY <1>2, <1>3
  <2> HIDE DEF p
  <2>2. /\ r \o p \in Seq(Entry) /\ Len(r \o p) = m + 2
        /\ \A i \in 1..(m + 2) : (r \o p)[i] = IF i <= m THEN r[i] ELSE p[i - m]
    <3>1. /\ r \o p \in Seq(Entry) /\ Len(r \o p) = Len(r) + Len(p)
          /\ \A i \in 1..(Len(r) + Len(p)) : (r \o p)[i] = IF i <= Len(r) THEN r[i] ELSE p[i - Len(r)]
      <4>1. r \in Seq(Entry) /\ p \in Seq(Entry)
        BY <1>4, <2>1
      <4> QED
        BY <4>1, ConcatProperties
    <3>2. Len(r) + Len(p) = m + 2
      BY <2>1
    <3> QED
      BY <3>1, <3>2
  <2>3. /\ m + 1 \in 1..(m + 2) /\ m + 2 \in 1..(m + 2) /\ (m + 1) - m = 1 /\ (m + 2) - m = 2
        /\ ~(m + 1 <= m) /\ ~(m + 2 <= m) /\ \A i \in 1..m : i \in 1..(m + 2) /\ i <= m
    BY <1>6
  <2> HIDE DEF m
  <2> QED
    BY <2>1, <2>2, <2>3 DEF p
<1> HIDE DEF q
<1>8. \A i \in 1..(m + 2) : i \in 1..m \/ i = m + 1 \/ i = m + 2
  BY <1>6
<1>9. \A i \in 1..m : r[i] \in Entries(l.locs) /\ r[i].win \notin {h.win, loc.win}
  <2>1. \A i \in 1..m : r[i] \in Entries(r)
    BY DEF Entries
  <2> QED
    BY <1>4, <2>1
<1>10. Distinct(q)
  <2> HIDE DEF m
  <2> SUFFICES ASSUME NEW i \in 1..(m + 2), NEW j \in 1..(m + 2), q[i].win = q[j].win PROVE i = j
    BY <1>7 DEF Distinct
  <2>1. h.win # loc.win
    BY DEF h
  <2>2. ASSUME NEW k \in 1..m PROVE q[k].win # h.win /\ q[k].win # loc.win
    BY <1>7, <1>9
  <2>3. q[m + 1].win = h.win /\ q[m + 2].win = loc.win
    BY <1>3, <1>7
  <2>4. CASE i \in 1..m /\ j \in 1..m
    <3>1. r[i].win = r[j].win
      BY <1>7, <2>4
    <3> QED
      BY <1>4, <2>4, <3>1 DEF Distinct, m
  <2> QED
    BY <1>8, <2>1, <2>2, <2>3, <2>4
<1>11. \A e \in Entries(q) : \/ e = h \/ e = v
                             \/ e \in Entries(l.locs) /\ e.win # loc.win
  <2> HIDE DEF m
  <2> QED
    BY <1>7, <1>8, <1>9 DEF Entries
<1>12. q[m + 1].win = Here(l).win /\ q[m + 2].win = loc.win
  BY <1>3, <1>7 DEF h
<1> QED
  BY <1>5, <1>6, <1>7, <1>10, <1>11, <1>12 DEF h, v, r

\* An arrival elsewhere.
LEMMA OtherPlace ==
  ASSUME NEW l, Sound(l), l.locs # <<>>, NEW loc \in Entry, Here(l).win # loc.win
  PROVE  Arrived(Jump(l, loc), l, loc)
<1> DEFINE h == Here(l)
           v == Inherit(l, loc)
           m == Len(Removed(l, {h.win, loc.win}).locs)
           q == Joined(l, loc)
           n == Newest(q)
<1>1. h \in Entries(l.locs)
  BY LenProperties DEF Sound, Here, Entries
<1>2. /\ m \in Nat /\ q \in Seq(Entry) /\ Distinct(q) /\ Len(q) = m + 2
      /\ q[m + 1] = h /\ q[m + 2] = v
      /\ \A e \in Entries(q) : e = h \/ e = v \/ (e \in Entries(l.locs) /\ e.win # loc.win)
  BY JoinedIs
<1>3. /\ v \in Entry /\ v.win = loc.win
      /\ \/ v.pane = loc.pane /\ (loc.pane # None \/ loc.win \notin Wins(l))
         \/ loc.pane = None /\ v \in Entries(l.locs)
  BY InheritIs
<1>4. n = Jump(l, loc)
  BY DEF Jump, Joined
<1> HIDE DEF h, v, m, q
<1>5. IsNewest(n, q)
  <2>1. Len(q) # 0
    BY <1>2
  <2> QED
    BY <1>2, <2>1, NewestIs
<1> HIDE DEF n
<1>6. n.cur > 1 /\ n.locs[n.cur - 1] = h /\ Here(n) = v
  <2>1. Len(q) > 1 /\ Len(q) - 1 = m + 1
    BY <1>2
  <2> QED
    BY <1>2, <1>5, <2>1 DEF IsNewest, Here
<1>7. \A e \in Entries(n.locs) : e \in Entries(q)
  BY <1>5 DEF IsNewest
<1>8. h.win # loc.win
  BY DEF h
<1>9. n \in History /\ Sound(n) /\ Len(n.locs) <= JumpCap /\ n.cur # 0 /\ Here(n).win = loc.win
  BY <1>3, <1>5, <1>6 DEF IsNewest
<1>10. \A e \in Entries(n.locs) : e.win # loc.win => e \in Entries(l.locs)
  BY <1>1, <1>2, <1>3, <1>7
<1>11. \A e \in Entries(n.locs) : e.win = loc.win => e = v
  BY <1>2, <1>7, <1>8
<1> QED
  BY <1>3, <1>4, <1>6, <1>9, <1>10, <1>11 DEF Arrived, h

\* arrive
LEMMA ArriveIs ==
  ASSUME NEW l, Sound(l), Len(l.locs) <= JumpCap, NEW loc \in Entry
  PROVE  Arrived(Arrive(l, loc), l, loc)
  BY FirstArrival, SamePlace, OtherPlace DEF Arrive

-----------------------------------------------------------------------------
(* The order of the entries.                                                 *)

\* An entry of window u comes before one of window v.
Leads(q, u, v) == \E i, j \in 1..Len(q) : i < j /\ q[i].win = u /\ q[j].win = v

\* There is an entry of window u.
Holds(q, u) == \E i \in 1..Len(q) : q[i].win = u

\* What is left of a history is left in its order.
LEMMA RestLeads ==
  ASSUME NEW l, NEW gone, l.locs \in Seq(Entry), NEW u, NEW v, u \notin gone, v \notin gone,
         Leads(l.locs, u, v)
  PROVE  Leads(Rest(l, gone)[Len(l.locs)], u, v)
<1> DEFINE q == l.locs  N == Len(q)  r == Rest(l, gone)
<1>1. q \in Seq(Entry) /\ N \in Nat /\ N \in 0..N
  BY LenProperties
<1>2. PICK i \in 1..N, j \in 1..N : i < j /\ q[i].win = u /\ q[j].win = v
  BY DEF Leads
<1>3. j \in 0..N /\ j - 1 \in 0..N /\ j - 1 \in 0..j /\ i \in 1..(j - 1) /\ j \in 0..N
  BY <1>1, <1>2
<1>4. r[j] = More(r[j - 1], q[j], gone)
  BY <1>1, RestStep
<1>5. Filters(r[j - 1], q, j - 1, gone)
  BY <1>1, <1>3, RestIs
<1>6. Begins(r[j], r[N]) /\ r[N] \in Seq(Entry)
  <2>1. r[N] \in Seq(Entry)
    BY <1>1, RestIs DEF Filters
  <2> QED
    BY <1>1, <1>3, <2>1, RestGrows
<1>7. q[j] \in Entry
  BY <1>1, <1>2, ElementOfSeq
<1> DEFINE a == r[j - 1]  b == r[j]  f == r[N]
<1>8. PICK x \in 1..Len(a) : a[x] = q[i]
  BY <1>2, <1>3, <1>5 DEF Filters
<1>9. a \in Seq(Entry) /\ Len(a) \in Nat
  BY <1>5, LenProperties DEF Filters
<1>10. b = Append(a, q[j])
  BY <1>2, <1>4 DEF More
<1>11. Len(f) \in Nat
  BY <1>6, LenProperties
<1> HIDE DEF a, b, f, q, N, r
<1>12. /\ Len(b) = Len(a) + 1 /\ b[x] = q[i] /\ b[Len(a) + 1] = q[j]
  BY <1>7, <1>8, <1>9, <1>10, AppendProperties
<1>13. x \in 1..Len(f) /\ Len(a) + 1 \in 1..Len(f) /\ x < Len(a) + 1
       /\ x \in 1..Len(b) /\ Len(a) + 1 \in 1..Len(b)
  BY <1>6, <1>8, <1>9, <1>11, <1>12 DEF Begins, b, f
<1>14. f[x] = q[i] /\ f[Len(a) + 1] = q[j]
  BY <1>6, <1>12, <1>13 DEF Begins, b, f
<1>15. Leads(f, u, v)
  BY <1>2, <1>13, <1>14 DEF Leads
<1> QED
  BY <1>15 DEF f, r, N, q

\* remove leaves the order as it was.
LEMMA RemovedLeads ==
  ASSUME NEW l, Sound(l), NEW gone, NEW u, NEW v, u \notin gone, v \notin gone,
         Leads(l.locs, u, v)
  PROVE  Leads(Removed(l, gone).locs, u, v)
<1>1. Leads(Rest(l, gone)[Len(l.locs)], u, v)
  BY RestLeads DEF Sound
<1>2. Removed(l, gone).locs = Rest(l, gone)[Len(l.locs)]
  BY DEF Removed
<1> QED
  BY <1>1, <1>2

\* prune leaves the order of living windows as it was.
LEMMA PruneLeads ==
  ASSUME NEW l, Sound(l), NEW u \in alive, NEW v \in alive, Leads(l.locs, u, v)
  PROVE  Leads(Prune(l).locs, u, v)
<1> DEFINE m == Removed(l, Window \ alive)
           p == Prune(l)
           q == m.locs
           N == Len(q)
<1>1. Leads(q, u, v)
  BY RemovedLeads
<1>2. Sound(m)
  BY RemovedIs
<1>3. q \in Seq(Entry) /\ N \in Nat /\ DOMAIN q = 1..N /\ m = [locs |-> q, cur |-> m.cur]
  BY <1>2, LenProperties DEF Sound
<1>4. \A i \in 1..N : Checked(q[i]).win = q[i].win /\ Checked(q[i]) \in Entry
  BY <1>3, ElementOfSeq, CheckedIs
<1>5. p = [m EXCEPT !.locs = [i \in 1..N |-> Checked(q[i])]]
  BY <1>3 DEF Prune
<1> DEFINE w == [i \in 1..N |-> Checked(q[i])]
<1> HIDE DEF m, p
<1>6. p.locs = w
  <2> HIDE DEF q, w
  <2>1. p = [m EXCEPT !.locs = w]
    BY <1>5 DEF w
  <2>2. m = [locs |-> q, cur |-> m.cur]
    BY <1>3
  <2> QED
    BY <2>1, <2>2
<1> HIDE DEF q, N
<1>7. Len(w) = N /\ \A i \in 1..N : w[i].win = q[i].win
  <2>1. \A i \in 1..N : w[i].win = q[i].win /\ w[i] \in Entry
    BY <1>4
  <2>2. DOMAIN w = 1..N /\ w = [i \in 1..N |-> w[i]]
    OBVIOUS
  <2>3. \A i \in 1..N : w[i] \in Entry
    BY <2>1
  <2> HIDE DEF w
  <2>4. Len(w) = N
    BY <1>3, <2>2, <2>3, IsSeq
  <2> QED
    BY <2>1, <2>4
<1> HIDE DEF w
<1>8. Leads(w, u, v)
  BY <1>1, <1>7 DEF Leads, N
<1> QED
  BY <1>6, <1>8 DEF p

\* The newest entries keep their order, and nothing is lost but to the cap: whoever
\* comes after an entry that is left is left.
LEMMA NewestLeads ==
  ASSUME NEW q \in Seq(Entry), Distinct(q), Len(q) # 0
  PROVE  /\ \A u, v : Leads(q, u, v) /\ Holds(Newest(q).locs, u) => Leads(Newest(q).locs, u, v)
         /\ Len(Newest(q).locs) = JumpCap \/ \A u : Holds(q, u) => Holds(Newest(q).locs, u)
<1> DEFINE N == Len(q)
           k == IF N > JumpCap THEN JumpCap ELSE N
           w == SubSeq(q, N - k + 1, N)
<1>1. /\ N \in Nat \ {0} /\ JumpCap \in Nat \ {0, 1} /\ k \in 1..JumpCap /\ k \in 1..N
      /\ N - k + 1 \in 1..N /\ (k = JumpCap \/ k = N)
  BY LenProperties, JumpListAssumption
<1>2. Newest(q).locs = w
  BY DEF Newest
<1> HIDE DEF k
<1>3. \A i \in 1..N : q[i] \in Entry
  BY ElementOfSeq
<1>4. Len(w) = k /\ \A i \in 1..k : w[i] = q[N - k + i]
  <2> DEFINE a == N - k + 1
  <2>1. a \in Int /\ N \in Int /\ a <= N /\ N - a + 1 = k /\ \A i \in a..N : i \in 1..N
    BY <1>1
  <2>2. \A i \in a..N : q[i] \in Entry
    BY <1>3, <2>1
  <2>3. \A i \in 1..k : a + i - 1 = N - k + i
    BY <1>1
  <2> HIDE DEF a, N
  <2>4. /\ SubSeq(q, a, N) \in Seq(Entry) /\ Len(SubSeq(q, a, N)) = k
        /\ \A i \in 1..k : SubSeq(q, a, N)[i] = q[a + i - 1]
    BY <2>1, <2>2, SubSeqProperties
  <2> QED
    BY <2>3, <2>4 DEF a
<1> HIDE DEF w
<1>5. ASSUME NEW u, NEW v, Leads(q, u, v), Holds(w, u) PROVE Leads(w, u, v)
  <2>1. PICK i \in 1..N, j \in 1..N : i < j /\ q[i].win = u /\ q[j].win = v
    BY <1>5 DEF Leads
  <2>2. PICK x \in 1..k : w[x].win = u
    BY <1>4, <1>5 DEF Holds
  <2> DEFINE y == N - k + x
  <2>3. y \in 1..N /\ q[y].win = u
    BY <1>1, <1>4, <2>2
  <2> HIDE DEF y
  <2>4. y = i
    BY <2>1, <2>3 DEF Distinct
  <2> DEFINE z == j - (N - k)
  <2>5. z \in 1..k /\ x < z /\ N - k + z = j
    BY <1>1, <2>1, <2>4 DEF y
  <2> HIDE DEF z
  <2>6. w[z].win = v
    BY <1>4, <2>1, <2>5
  <2> QED
    BY <1>4, <2>2, <2>5, <2>6 DEF Leads
<1>6. ASSUME k = N, NEW u, Holds(q, u) PROVE Holds(w, u)
  <2>1. PICK i \in 1..N : q[i].win = u
    BY <1>6 DEF Holds
  <2>2. i \in 1..k /\ N - k + i = i
    BY <1>1, <1>6
  <2> QED
    BY <1>4, <2>1, <2>2 DEF Holds
<1> QED
  BY <1>1, <1>2, <1>4, <1>5, <1>6

\* An arrival keeps the order of the entries of other windows than it goes from and to,
\* and loses none but to the cap.
LEMMA ArriveLeads ==
  ASSUME NEW l, Sound(l), Len(l.locs) <= JumpCap, NEW loc \in Entry
  PROVE  /\ \A u, v : /\ u \notin {Here(l).win, loc.win} /\ v \notin {Here(l).win, loc.win}
                      /\ Leads(l.locs, u, v) /\ Holds(Arrive(l, loc).locs, u)
                      => Leads(Arrive(l, loc).locs, u, v)
         /\ \/ Len(Arrive(l, loc).locs) = JumpCap
            \/ \A u : Holds(l.locs, u) => Holds(Arrive(l, loc).locs, u)
<1> DEFINE a == Arrive(l, loc)
<1>1. l.locs \in Seq(Entry) /\ Len(l.locs) \in Nat /\ l = [locs |-> l.locs, cur |-> l.cur]
  BY LenProperties DEF Sound
<1>2. CASE l.locs = <<>>
  <2>1. Len(l.locs) = 0
    BY <1>2, EmptySeq
  <2>2. \A u, v : ~Leads(l.locs, u, v) /\ ~Holds(l.locs, u)
    BY <2>1 DEF Leads, Holds
  <2> QED
    BY <2>2
<1>3. CASE l.locs # <<>> /\ Here(l).win = loc.win
  <2>1. a = Refresh(l, loc)
    BY <1>3 DEF Arrive
  <2>2. Len(a.locs) = Len(l.locs) /\ \A i \in 1..Len(l.locs) : a.locs[i].win = l.locs[i].win
    <3>1. CASE loc.pane = None
      BY <2>1, <3>1 DEF Refresh
    <3>2. CASE loc.pane # None
      <4> DEFINE q == l.locs  c == l.cur  e == [q[c] EXCEPT !.pane = loc.pane]  w == [q EXCEPT ![c] = e]
      <4>1. c \in 1..Len(q) /\ q[c] \in Entry
        <5>1. Len(q) # 0
          BY <1>1, <1>3, EmptySeq
        <5>2. c \in 1..Len(q)
          BY <1>1, <1>3, <5>1 DEF Sound
        <5> QED
          BY <1>1, <5>2, ElementOfSeq
      <4>2. e \in Entry /\ e.win = q[c].win
        BY <4>1 DEF Entry
      <4>3. a = [l EXCEPT !.locs = w]
        BY <2>1, <3>2 DEF Refresh
      <4> HIDE DEF e, a
      <4>4. w \in Seq(Entry) /\ Len(w) = Len(q) /\ \A j \in 1..Len(q) : w[j] = IF j = c THEN e ELSE q[j]
        BY <1>1, <4>1, <4>2, ExceptSeq
      <4> HIDE DEF w
      <4>5. a.locs = w
        BY <1>1, <4>3
      <4> QED
        BY <4>2, <4>4, <4>5
    <3> QED
      BY <3>1, <3>2
  <2> HIDE DEF a
  <2>3. \A u, v : (Leads(l.locs, u, v) => Leads(a.locs, u, v)) /\ (Holds(l.locs, u) => Holds(a.locs, u))
    BY <2>2 DEF Leads, Holds
  <2> QED
    BY <2>3 DEF a
<1>4. CASE l.locs # <<>> /\ Here(l).win # loc.win
  <2> DEFINE h == Here(l).win
             r == Removed(l, {h, loc.win}).locs
             q == Joined(l, loc)
             m == Len(r)
  <2>1. /\ q \in Seq(Entry) /\ Distinct(q) /\ m \in Nat /\ Len(q) = m + 2
        /\ q[m + 1].win = h /\ q[m + 2].win = loc.win /\ \A i \in 1..m : q[i] = r[i]
    BY <1>4, JoinedIs
  <2>2. a = Newest(q)
    BY <1>4 DEF Arrive, Jump, Joined
  <2>3. Len(q) # 0
    BY <2>1
  <2> HIDE DEF q
  <2>4. /\ \A u, v : Leads(q, u, v) /\ Holds(Newest(q).locs, u) => Leads(Newest(q).locs, u, v)
        /\ Len(Newest(q).locs) = JumpCap \/ \A u : Holds(q, u) => Holds(Newest(q).locs, u)
    BY <2>1, <2>3, NewestLeads
  <2> HIDE DEF h
  <2>5. ASSUME NEW u, NEW v, u \notin {h, loc.win}, v \notin {h, loc.win}, Leads(l.locs, u, v)
        PROVE  Leads(q, u, v)
    <3>1. Leads(r, u, v)
      BY <2>5, RemovedLeads
    <3> HIDE DEF r
    <3>2. PICK i \in 1..m, j \in 1..m : i < j /\ r[i].win = u /\ r[j].win = v
      BY <3>1 DEF Leads
    <3>3. i \in 1..Len(q) /\ j \in 1..Len(q)
      BY <2>1, <3>2
    <3> QED
      BY <2>1, <3>2, <3>3 DEF Leads
  <2>6. ASSUME NEW u, Holds(l.locs, u) PROVE Holds(q, u)
    <3>1. CASE u \in {h, loc.win}
      <4>1. m + 1 \in 1..Len(q) /\ m + 2 \in 1..Len(q)
        BY <2>1
      <4> QED
        BY <2>1, <3>1, <4>1 DEF Holds
    <3>2. CASE u \notin {h, loc.win}
      <4>1. PICK i \in 1..Len(l.locs) : l.locs[i].win = u
        BY <2>6 DEF Holds
      <4>2. Entries(r) = {e \in Entries(l.locs) : e.win \notin {h, loc.win}}
        BY RemovedIs
      <4>3. l.locs[i] \in Entries(r)
        BY <3>2, <4>1, <4>2 DEF Entries
      <4> HIDE DEF r
      <4>4. PICK j \in 1..m : r[j] = l.locs[i]
        BY <4>3 DEF Entries
      <4>5. j \in 1..Len(q)
        BY <2>1, <4>4
      <4> QED
        BY <2>1, <4>1, <4>4, <4>5 DEF Holds
    <3> QED
      BY <3>1, <3>2
  <2> HIDE DEF r, m, a
  <2>7. \A u, v : /\ u \notin {h, loc.win} /\ v \notin {h, loc.win}
                  /\ Leads(l.locs, u, v) /\ Holds(a.locs, u)
                  => Leads(a.locs, u, v)
    <3> SUFFICES ASSUME NEW u, NEW v, u \notin {h, loc.win}, v \notin {h, loc.win},
                        Leads(l.locs, u, v), Holds(a.locs, u)
                 PROVE  Leads(a.locs, u, v)
      OBVIOUS
    <3>1. Leads(q, u, v)
      BY <2>5
    <3> QED
      BY <2>2, <2>4, <3>1
  <2>8. Len(a.locs) = JumpCap \/ \A u : Holds(l.locs, u) => Holds(a.locs, u)
    BY <2>2, <2>4, <2>6
  <2> QED
    BY <2>7, <2>8 DEF h, a
<1> QED
  BY <1>2, <1>3, <1>4


-----------------------------------------------------------------------------
(* The inductive invariant.                                                  *)

\* Every history is one, within the cap, and its entries have the panes that their
\* client was last seen in; no pane is kept for a window without an entry.
Remembered(l, k) ==
  /\ Sound(l) /\ l.cur # 0 /\ Len(l.locs) <= JumpCap
  /\ \A e \in Entries(l.locs) : e.pane = k[e.win]
  /\ \A w \in Window : k[w] # None => w \in Wins(l)

Histories ==
  \A c \in Client : IF lists[c] = None THEN \A w \in Window : kept[c][w] = None
                                       ELSE Remembered(lists[c], kept[c])

\* Without the option there are no histories.
OnlyEnabled == enabled \/ (going = None /\ \A c \in Client : lists[c] = None)

\* A client is in a session that is there, and an active window is of its session.
Attached ==
  /\ \A s \in Session : actw[s] # None => actw[s] \in alive /\ SessOf[actw[s]] = s
  /\ \A c \in Client : on[c] # None => actw[on[c]] # None

\* The place from which a client is taken elsewhere, while it is, and else its place.
PlaceOf(c) == IF going # None /\ going.client = c THEN going.was ELSE lists[c].cur

Places ==
  \A c \in fresh : lists[c] # None =>
    on[c] # None /\ lists[c].locs[PlaceOf(c)].win = Where(c)

\* A step under way goes to the entry the history is at, which can be gone to unless
\* somebody has moved the client, or anything, since.
Jumping ==
  going # None =>
    /\ lists[going.client] # None
    /\ going.was \in 1..Len(lists[going.client].locs)
    /\ Here(lists[going.client]) = going.to
    /\ going.client \in fresh =>
         going.to.win \in alive /\ (going.to.pane = None \/ HasPane(going.to.pane, going.to.win))

\* The dock is where its client is.
InStep ==
  dock # None /\ dock.client \in fresh => on[dock.client] # None /\ dock.win = Where(dock.client)

IInv == TypeOK /\ Histories /\ OnlyEnabled /\ Attached /\ Places /\ Jumping /\ InStep


-----------------------------------------------------------------------------
(* Recording.                                                                *)

\* The history of a client as a re-list finds it, without what has gone.
Before(c) == Prune(IF lists[c] = None THEN Empty ELSE lists[c])

\* Where a client stands is an entry.
LEMMA LocIs ==
  ASSUME TypeOK, Attached, NEW c \in Client, on[c] # None, NEW d
  PROVE  /\ Loc(c, d) \in Entry /\ Loc(c, d).win = Where(c)
         /\ Where(c) \in Window /\ Where(c) \in alive /\ Where(c) = actw[on[c]]
<1>1. on[c] \in Session /\ actw[on[c]] # None
  BY DEF TypeOK, Attached
<1>2. Where(c) = actw[on[c]] /\ Where(c) \in Window /\ Where(c) \in alive
  BY <1>1 DEF Where, TypeOK, Attached
<1>3. actp[Where(c)] \in Pane \cup Window \cup {None, Own}
  BY <1>2 DEF TypeOK
<1> QED
  BY <1>2, <1>3 DEF Loc, Entry

\* What pruning leaves of a history: living windows, each with the pane its client
\* was last seen in there, if it is there still.
LEMMA BeforeIs ==
  ASSUME TypeOK, Histories, NEW c \in Client
  PROVE  /\ Sound(Before(c)) /\ Len(Before(c).locs) <= JumpCap
         /\ \A e \in Entries(Before(c).locs) :
              /\ e.win \in alive /\ (e.pane = None \/ HasPane(e.pane, e.win))
              /\ e.pane = IF HasPane(kept[c][e.win], e.win) THEN kept[c][e.win] ELSE None
         /\ \A w \in Window : kept[c][w] # None /\ w \in alive => w \in Wins(Before(c))
         /\ lists[c] # None /\ Here(lists[c]).win \in alive =>
              Before(c).cur # 0 /\ Here(Before(c)).win = Here(lists[c]).win
<1> DEFINE l == IF lists[c] = None THEN Empty ELSE lists[c]
           b == Before(c)
<1>1. JumpCap \in Nat
  BY JumpListAssumption
<1>2. /\ Sound(l) /\ Len(l.locs) <= JumpCap /\ (lists[c] # None => l.cur # 0)
      /\ \A e \in Entries(l.locs) : e.pane = kept[c][e.win]
      /\ \A w \in Window : kept[c][w] # None => w \in Wins(l)
  <2>1. CASE lists[c] = None
    <3>1. l = Empty /\ \A w \in Window : kept[c][w] = None
      BY <2>1 DEF Histories
    <3>2. Empty.locs = <<>> /\ Empty.cur = 0 /\ Len(<<>>) = 0 /\ <<>> \in Seq(Entry)
      BY DEF Empty
    <3>3. Sound(Empty) /\ Entries(Empty.locs) = {}
      BY <3>2 DEF Sound, Distinct, Entries, Empty
    <3> QED
      BY <1>1, <2>1, <3>1, <3>2, <3>3
  <2>2. CASE lists[c] # None
    BY <2>2 DEF Histories, Remembered
  <2> QED
    BY <2>1, <2>2
<1>3. b = Prune(l)
  BY DEF Before
<1> HIDE DEF l, b
<1>4. /\ Sound(b) /\ Len(b.locs) <= Len(l.locs)
      /\ Entries(b.locs) = {Checked(e) : e \in {f \in Entries(l.locs) : f.win \in alive}}
      /\ l.cur # 0 /\ Here(l).win \in alive => b.cur # 0 /\ Here(b) = Checked(Here(l))
  BY <1>2, <1>3, PruneIs
<1>5. /\ l.locs \in Seq(Entry) /\ b.locs \in Seq(Entry)
      /\ Wins(l) = {e.win : e \in Entries(l.locs)} /\ Wins(b) = {e.win : e \in Entries(b.locs)}
  BY <1>2, <1>4, WinsAre DEF Sound
<1>6. \A e \in Entries(l.locs) : /\ e \in Entry /\ Checked(e).win = e.win
                                 /\ Checked(e).pane = IF HasPane(e.pane, e.win) THEN e.pane ELSE None
  <2>1. \A i \in 1..Len(l.locs) : l.locs[i] \in Entry
    BY <1>5, ElementOfSeq
  <2>2. \A e \in Entries(l.locs) : e \in Entry
    BY <2>1 DEF Entries
  <2> QED
    BY <2>2, CheckedIs
<1>7. ASSUME NEW e \in Entries(b.locs)
      PROVE  /\ e.win \in alive /\ (e.pane = None \/ HasPane(e.pane, e.win))
             /\ e.pane = IF HasPane(kept[c][e.win], e.win) THEN kept[c][e.win] ELSE None
  <2>1. PICK f \in Entries(l.locs) : f.win \in alive /\ e = Checked(f)
    BY <1>4, <1>7
  <2> QED
    BY <1>2, <1>6, <2>1
<1>8. ASSUME NEW w \in Window, kept[c][w] # None, w \in alive PROVE w \in Wins(b)
  <2>1. PICK f \in Entries(l.locs) : f.win = w
    BY <1>2, <1>5, <1>8
  <2>2. Checked(f) \in Entries(b.locs) /\ Checked(f).win = w
    BY <1>4, <1>6, <1>8, <2>1
  <2> QED
    BY <1>5, <2>2
<1>9. ASSUME lists[c] # None, Here(lists[c]).win \in alive
      PROVE  b.cur # 0 /\ Here(b).win = Here(lists[c]).win
  <2>1. l = lists[c]
    BY <1>9 DEF l
  <2>2. Here(l) \in Entries(l.locs)
    <3>1. l.cur \in 1..Len(l.locs)
      BY <1>2, <1>9 DEF Sound
    <3> QED
      BY <3>1 DEF Here, Entries
  <2> QED
    BY <1>2, <1>4, <1>6, <1>9, <2>1, <2>2
<1>10. Len(b.locs) <= JumpCap
  <2>1. Len(b.locs) \in Nat /\ Len(l.locs) \in Nat
    BY <1>5, LenProperties
  <2> QED
    BY <1>1, <1>2, <1>4, <2>1
<1> QED
  BY <1>4, <1>7, <1>8, <1>9, <1>10 DEF b

\* What is recorded of a client is its arrival where it stands.
LEMMA RecordedIs ==
  ASSUME TypeOK, Histories, Attached, NEW c \in Client, NEW d
  PROVE  IF on[c] = None THEN Recorded(d)[c] = None
         ELSE Arrived(Recorded(d)[c], Before(c), Loc(c, d))
<1>1. on[c] # None => Recorded(d)[c] = Arrive(Before(c), Loc(c, d))
  BY DEF Recorded, Before
<1>2. on[c] # None => Arrived(Arrive(Before(c), Loc(c, d)), Before(c), Loc(c, d))
  BY BeforeIs, LocIs, ArriveIs
<1> QED
  BY <1>1, <1>2 DEF Recorded

\* The histories new are those that have been recorded, with a place of their own.
Placing(new, d) ==
  /\ new \in [Client -> {None} \cup History]
  /\ \A c \in Client :
       IF on[c] = None THEN new[c] = None
       ELSE new[c].locs = Recorded(d)[c].locs /\ new[c] # None

\* What is remembered of the panes goes with what is recorded.
LEMMA RememberedIs ==
  ASSUME TypeOK, Histories, Attached, NEW d, NEW new, Placing(new, d), Remembers(new, d),
         \A c \in Client : on[c] # None => new[c].cur \in 1..Len(new[c].locs)
  PROVE  /\ \A c \in Client : IF new[c] = None THEN \A w \in Window : kept'[c][w] = None
                                               ELSE Remembered(new[c], kept'[c])
         /\ kept' \in [Client -> [Window -> Pane \cup Window \cup {None, Own}]]
<1>1. kept' = [c \in Client |-> [w \in Window |->
        IF ~(new[c] # None /\ w \in Wins(new[c])) THEN None
        ELSE IF w = Where(c) /\ Loc(c, d).pane # None THEN Loc(c, d).pane
        ELSE IF HasPane(kept[c][w], w) THEN kept[c][w] ELSE None]]
  BY DEF Remembers
<1>2. ASSUME NEW c \in Client, new[c] # None PROVE Remembered(new[c], kept'[c])
  <2> DEFINE a == Recorded(d)[c]  b == Before(c)  loc == Loc(c, d)  l == new[c]
  <2>1. on[c] # None /\ l.locs = a.locs /\ l \in History /\ l.cur \in 1..Len(l.locs)
    BY <1>2 DEF Placing
  <2>2. Arrived(a, b, loc)
    BY <2>1, RecordedIs
  <2>3. /\ loc \in Entry /\ loc.win = Where(c) /\ Where(c) \in Window /\ Where(c) \in alive
    BY <2>1, LocIs
  <2>4. /\ \A e \in Entries(b.locs) :
             e.pane = IF HasPane(kept[c][e.win], e.win) THEN kept[c][e.win] ELSE None
        /\ \A w \in Window : kept[c][w] # None /\ w \in alive => w \in Wins(b)
    BY BeforeIs
  <2>5. \A w \in Window : kept'[c][w] =
          IF w \notin Wins(l) THEN None
          ELSE IF w = Where(c) /\ loc.pane # None THEN loc.pane
          ELSE IF HasPane(kept[c][w], w) THEN kept[c][w] ELSE None
    BY <1>1, <1>2
  <2>6. \A w \in Window : ~HasPane(None, w)
    BY JumpListAssumption DEF HasPane
  <2> HIDE DEF a, b, loc, l
  <2>7. Sound(l) /\ Len(l.locs) <= JumpCap /\ l.cur # 0
    <3>1. Len(l.locs) \in Nat
      BY <2>1, LenProperties DEF History
    <3>2. l = [locs |-> l.locs, cur |-> l.cur]
      BY <2>1 DEF History
    <3>3. l.cur \in 0..Len(l.locs) /\ l.cur # 0
      BY <2>1, <3>1
    <3> QED
      BY <2>1, <2>2, <3>2, <3>3 DEF Arrived, Sound
  <2>8. Wins(l) = {e.win : e \in Entries(l.locs)}
    BY <2>7, WinsAre DEF Sound
  <2>9. ASSUME NEW e \in Entries(l.locs) PROVE e.pane = kept'[c][e.win]
    <3>1. e.win \in Wins(l) /\ e \in Entry /\ e.win \in Window
      <4>1. \A i \in 1..Len(l.locs) : l.locs[i] \in Entry
        BY <2>7, ElementOfSeq DEF Sound
      <4> QED
        BY <2>8, <2>9, <4>1 DEF Entries, Entry
    <3>2. CASE e.win # loc.win
      <4>1. e \in Entries(b.locs)
        BY <2>1, <2>2, <2>9, <3>2 DEF Arrived
      <4> QED
        BY <2>3, <2>4, <2>5, <3>1, <3>2, <4>1
    <3>3. CASE e.win = loc.win /\ loc.pane # None
      <4>1. e.pane = loc.pane
        BY <2>1, <2>2, <2>9, <3>3 DEF Arrived
      <4> QED
        BY <2>3, <2>5, <3>1, <3>3, <4>1
    <3>4. CASE e.win = loc.win /\ loc.pane = None
      <4>1. \/ e.pane = None /\ loc.win \notin Wins(b)
            \/ e \in Entries(b.locs)
        BY <2>1, <2>2, <2>9, <3>4 DEF Arrived
      <4>2. kept'[c][e.win] = IF HasPane(kept[c][e.win], e.win) THEN kept[c][e.win] ELSE None
        BY <2>5, <3>1, <3>4
      <4>3. CASE e.pane = None /\ loc.win \notin Wins(b)
        <5>1. kept[c][e.win] = None
          BY <2>3, <2>4, <3>1, <3>4, <4>3
        <5> QED
          BY <2>6, <3>1, <4>2, <4>3, <5>1
      <4>4. CASE e \in Entries(b.locs)
        BY <2>4, <4>2, <4>4
      <4> QED
        BY <4>1, <4>3, <4>4
    <3> QED
      BY <3>2, <3>3, <3>4
  <2>10. \A w \in Window : kept'[c][w] # None => w \in Wins(l)
    BY <2>5
  <2> QED
    BY <2>7, <2>9, <2>10 DEF Remembered, l
<1>3. ASSUME NEW c \in Client, NEW w \in Window
      PROVE  /\ new[c] = None => kept'[c][w] = None
             /\ kept'[c][w] \in Pane \cup Window \cup {None, Own}
  <2>1. kept[c][w] \in Pane \cup Window \cup {None, Own}
    BY DEF TypeOK
  <2>2. new[c] # None => Loc(c, d).pane \in Pane \cup Window \cup {None, Own}
    <3>1. new[c] # None => on[c] # None
      BY DEF Placing
    <3> QED
      BY <3>1, LocIs DEF Entry
  <2> QED
    BY <1>1, <2>1, <2>2
<1>4. kept' \in [Client -> [Window -> Pane \cup Window \cup {None, Own}]]
  <2>1. kept' = [c \in Client |-> [w \in Window |-> kept'[c][w]]]
    BY <1>1
  <2> QED
    BY <1>3, <2>1
<1> QED
  BY <1>2, <1>3, <1>4


\* A history that is remembered is of its type.
LEMMA RememberedType ==
  ASSUME NEW l, NEW k, Remembered(l, k)
  PROVE  Len(l.locs) <= JumpCap /\ l.cur <= Len(l.locs) /\ l.cur \in 1..Len(l.locs)
<1>1. Len(l.locs) \in Nat
  BY LenProperties DEF Remembered, Sound
<1> QED
  BY <1>1 DEF Remembered, Sound

\* What the option, and what is recorded, make of the histories.
LEMMA RecordGood ==
  ASSUME IInv, NEW d, Record(d)
  PROVE  /\ lists' \in [Client -> {None} \cup History]
         /\ kept' \in [Client -> [Window -> Pane \cup Window \cup {None, Own}]]
         /\ Histories' /\ (~enabled => \A c \in Client : lists'[c] = None)
         /\ \A c \in Client : lists'[c] # None => on[c] # None /\ Here(lists'[c]).win = Where(c)
<1>1. TypeOK /\ Histories /\ Attached
  BY DEF IInv
<1>2. CASE enabled
  <2>1. lists' = Recorded(d) /\ Remembers(lists', d)
    BY <1>2 DEF Record
  <2>2. \A c \in Client : IF on[c] = None THEN lists'[c] = None
                          ELSE Arrived(lists'[c], Before(c), Loc(c, d))
    BY <1>1, <2>1, RecordedIs
  <2>3. \A c \in Client : on[c] # None =>
          /\ lists'[c] \in History /\ lists'[c] # None /\ lists'[c].cur \in 1..Len(lists'[c].locs)
          /\ Here(lists'[c]).win = Where(c)
    <3> SUFFICES ASSUME NEW c \in Client, on[c] # None
                 PROVE  /\ lists'[c] \in History /\ lists'[c] # None
                        /\ lists'[c].cur \in 1..Len(lists'[c].locs)
                        /\ Here(lists'[c]).win = Where(c)
      OBVIOUS
    <3>1. Arrived(lists'[c], Before(c), Loc(c, d)) /\ Loc(c, d).win = Where(c)
      BY <1>1, <2>2, LocIs
    <3>2. lists'[c] \in History /\ lists'[c] # None
      BY <3>1, JumpListAssumption DEF Arrived
    <3>3. lists'[c].cur \in 0..Len(lists'[c].locs) /\ lists'[c].cur # 0
      BY <3>1 DEF Arrived, Sound
    <3>4. Len(lists'[c].locs) \in Nat
      BY <3>2, LenProperties DEF History
    <3> QED
      BY <3>1, <3>2, <3>3, <3>4 DEF Arrived
  <2>4. lists' \in [Client -> {None} \cup History]
    <3>1. lists' = [c \in Client |-> lists'[c]]
      BY <2>1 DEF Recorded
    <3> QED
      BY <2>2, <2>3, <3>1
  <2>5. Placing(lists', d)
    BY <2>1, <2>2, <2>3, <2>4 DEF Placing
  <2>6. \A c \in Client : on[c] # None => lists'[c].cur \in 1..Len(lists'[c].locs)
    BY <2>3
  <2>7. /\ \A c \in Client : IF lists'[c] = None THEN \A w \in Window : kept'[c][w] = None
                                                 ELSE Remembered(lists'[c], kept'[c])
        /\ kept' \in [Client -> [Window -> Pane \cup Window \cup {None, Own}]]
    BY <1>1, <2>1, <2>5, <2>6, RememberedIs
  <2>8. Histories'
    BY <2>7 DEF Histories, Remembered
  <2> QED
    BY <1>2, <2>2, <2>3, <2>4, <2>7, <2>8
<1>3. CASE ~enabled
  <2>1. UNCHANGED <<lists, kept>>
    BY <1>3 DEF Record
  <2>2. \A c \in Client : lists[c] = None
    BY <1>3 DEF IInv, OnlyEnabled
  <2>3. Histories'
    BY <1>1, <2>1 DEF Histories, Remembered
  <2> QED
    BY <1>1, <1>3, <2>1, <2>2, <2>3 DEF TypeOK
<1> QED
  BY <1>2, <1>3 DEF IInv, TypeOK

\* The type of what only users and jumps move.
TmuxType ==
  /\ alive \subseteq Window /\ home \in [Pane -> Window \cup {None}]
  /\ actw \in [Session -> Window \cup {None}]
  /\ actp \in [Window -> Pane \cup Window \cup {Own}]
  /\ on \in [Client -> Session \cup {None}] /\ changes \in 0..MaxChanges

\* The type of the histories follows from their being remembered.
LEMMA TypeFrom ==
  ASSUME TmuxType', dock' \in {None} \cup DockAt, going' \in {None} \cup Going,
         lists' \in [Client -> {None} \cup History], Histories',
         kept' \in [Client -> [Window -> Pane \cup Window \cup {None, Own}]],
         enabled' \in BOOLEAN, fresh' \subseteq Client
  PROVE  TypeOK'
<1>1. ASSUME NEW c \in Client, lists'[c] # None
      PROVE  Len(lists'[c].locs) <= JumpCap /\ lists'[c].cur <= Len(lists'[c].locs)
  <2>1. Remembered(lists'[c], kept'[c])
    BY <1>1 DEF Histories, Remembered
  <2> QED
    BY <2>1, RememberedType
<1> QED
  BY <1>1 DEF TypeOK, TmuxType

\* A re-list that has run.
LEMMA RelistStep == ASSUME IInv, Relist PROVE IInv'
<1>1. TypeOK /\ Histories /\ Attached /\ OnlyEnabled
  BY DEF IInv
<1>2. /\ going = None /\ going' = None
      /\ dock' \in IF dock # None /\ on[dock.client] # None /\ dock.win \in alive
                   THEN {dock, [dock EXCEPT !.win = Where(dock.client)]} ELSE {None}
      /\ actp' = IF dock' = None THEN Without ELSE actp
      /\ Record(dock')
      /\ fresh' = {c \in Client : dock' # None /\ dock'.client = c => dock'.win = Where(c)}
      /\ alive' = alive /\ home' = home /\ actw' = actw /\ on' = on /\ changes' = changes
      /\ enabled' = enabled
  BY DEF Relist
<1>3. /\ lists' \in [Client -> {None} \cup History]
      /\ kept' \in [Client -> [Window -> Pane \cup Window \cup {None, Own}]]
      /\ Histories' /\ (~enabled => \A c \in Client : lists'[c] = None)
      /\ \A c \in Client : lists'[c] # None => on[c] # None /\ Here(lists'[c]).win = Where(c)
  BY <1>2, RecordGood
<1>4. dock' \in {None} \cup DockAt /\ (dock' # None => on[dock'.client] # None)
  <2>1. ASSUME dock # None, on[dock.client] # None
        PROVE  /\ dock \in DockAt
               /\ [dock EXCEPT !.win = Where(dock.client)] \in DockAt
               /\ [dock EXCEPT !.win = Where(dock.client)].client = dock.client
    <3>1. dock \in DockAt /\ dock.client \in Client
      BY <1>1, <2>1 DEF TypeOK, DockAt
    <3>2. Where(dock.client) \in Window
      BY <1>1, <2>1, <3>1, LocIs
    <3> QED
      BY <3>1, <3>2 DEF DockAt
  <2> QED
    BY <1>2, <2>1
<1>5. TypeOK'
  <2>1. actp' \in [Window -> Pane \cup Window \cup {Own}]
    BY <1>1, <1>2 DEF TypeOK, Without
  <2>2. TmuxType'
    BY <1>1, <1>2, <2>1 DEF TypeOK, TmuxType
  <2> QED
    BY <1>1, <1>2, <1>3, <1>4, <2>2, TypeFrom DEF TypeOK
<1>6. \A c \in Client : Where(c)' = Where(c)
  BY <1>2 DEF Where
<1>7. Attached' /\ OnlyEnabled' /\ Jumping'
  BY <1>1, <1>2, <1>3 DEF Attached, OnlyEnabled, Jumping
<1>8. Places'
  <2>1. \A c \in Client : PlaceOf(c)' = lists'[c].cur
    BY <1>2 DEF PlaceOf
  <2>2. \A c \in fresh' : c \in Client
    BY <1>2
  <2> QED
    BY <1>2, <1>3, <1>6, <2>1, <2>2 DEF Places, Here
<1>9. InStep'
  BY <1>2, <1>4, <1>6 DEF InStep
<1> QED
  BY <1>3, <1>5, <1>7, <1>8, <1>9 DEF IInv

\* A jump at an end of the history, which only records.
LEMMA JumpEndsStep == ASSUME IInv, NEW c \in Client, NEW back \in BOOLEAN, JumpEnds(c, back) PROVE IInv'
<1>1. TypeOK /\ Attached /\ OnlyEnabled /\ InStep
  BY DEF IInv
<1>2. /\ going = None /\ going' = None /\ Record(dock) /\ enabled
      /\ alive' = alive /\ home' = home /\ actw' = actw /\ actp' = actp /\ on' = on
      /\ changes' = changes /\ dock' = dock /\ enabled' = enabled /\ fresh' = fresh
  BY DEF JumpEnds, tmux
<1>3. /\ lists' \in [Client -> {None} \cup History]
      /\ kept' \in [Client -> [Window -> Pane \cup Window \cup {None, Own}]]
      /\ Histories'
      /\ \A d \in Client : lists'[d] # None => on[d] # None /\ Here(lists'[d]).win = Where(d)
  BY <1>2, RecordGood
<1>4. TypeOK'
  <2>1. TmuxType'
    BY <1>1, <1>2 DEF TypeOK, TmuxType
  <2> QED
    BY <1>1, <1>2, <1>3, <2>1, TypeFrom DEF TypeOK
<1>5. \A d \in Client : Where(d)' = Where(d) /\ PlaceOf(d)' = lists'[d].cur
  BY <1>2 DEF Where, PlaceOf
<1>6. Attached' /\ OnlyEnabled' /\ Jumping' /\ InStep'
  BY <1>1, <1>2, <1>5 DEF Attached, OnlyEnabled, Jumping, InStep, TypeOK, DockAt
<1>7. Places'
  BY <1>1, <1>2, <1>3, <1>5 DEF Places, Here, TypeOK
<1> QED
  BY <1>3, <1>4, <1>6, <1>7 DEF IInv


-----------------------------------------------------------------------------
(* Jumping.                                                                  *)

\* A jump up to its commands: the place has moved, the client has not.
LEMMA JumpStepsStep ==
  ASSUME IInv, NEW c \in Client, NEW back \in BOOLEAN, JumpSteps(c, back)
  PROVE  IInv' /\ going' # None
<1> DEFINE R == Recorded(dock)
           l == R[c]
           k == Step(c, back)
<1>1. TypeOK /\ Histories /\ Attached /\ OnlyEnabled /\ InStep
  BY DEF IInv
<1>2. /\ going = None /\ enabled /\ on[c] # None /\ k \in DOMAIN l.locs
      /\ lists' = [R EXCEPT ![c].cur = k]
      /\ going' = [client |-> c, was |-> l.cur, to |-> l.locs[k]]
      /\ Remembers(lists', dock)
      /\ alive' = alive /\ home' = home /\ actw' = actw /\ actp' = actp /\ on' = on
      /\ changes' = changes /\ dock' = dock /\ enabled' = enabled /\ fresh' = fresh
  BY DEF JumpSteps, Ends, tmux
<1>3. \A d \in Client : IF on[d] = None THEN R[d] = None
                        ELSE Arrived(R[d], Before(d), Loc(d, dock))
  BY <1>1, RecordedIs
<1>4. k # l.cur
  <2>1. l.cur \in Nat
    BY <1>2, <1>3 DEF Arrived, History
  <2> QED
    BY <2>1 DEF Step
<1>5. \A d \in Client : Where(d)' = Where(d) /\ (on[d] # None => Loc(d, dock).win = Where(d))
  BY <1>1, <1>2, LocIs DEF Where
<1>6. DOMAIN R = Client
  BY DEF Recorded
<1> HIDE DEF R, k
<1>7. Arrived(l, Before(c), Loc(c, dock)) /\ l \in History /\ k \in 1..Len(l.locs) /\ l.cur \in 1..Len(l.locs)
  <2>1. Arrived(l, Before(c), Loc(c, dock))
    BY <1>2, <1>3
  <2>2. l.locs \in Seq(Entry) /\ Len(l.locs) \in Nat /\ DOMAIN l.locs = 1..Len(l.locs)
    BY <2>1, LenProperties DEF Arrived, History
  <2> QED
    BY <1>2, <2>1, <2>2 DEF Arrived, Sound
<1>8. /\ lists'[c].locs = l.locs /\ lists'[c].cur = k /\ lists'[c] \in History /\ lists'[c] # None
      /\ \A d \in Client \ {c} : lists'[d] = R[d]
  <2>1. l = [locs |-> l.locs, cur |-> l.cur] /\ Len(l.locs) <= JumpCap /\ Len(l.locs) \in Nat
    BY <1>7, LenProperties DEF Arrived, Sound
  <2>2. lists'[c] = [l EXCEPT !.cur = k] /\ \A d \in Client \ {c} : lists'[d] = R[d]
    BY <1>2, <1>6
  <2> HIDE DEF l
  <2>3. lists'[c] = [locs |-> l.locs, cur |-> k]
    BY <2>1, <2>2
  <2>4. k \in 1..JumpCap
    BY <1>7, <2>1, JumpListAssumption
  <2>5. lists'[c] \in History
    BY <1>7, <2>3, <2>4 DEF History
  <2> QED
    BY <2>2, <2>3, <2>5, JumpListAssumption
<1>9. lists' \in [Client -> {None} \cup History]
  <2>1. lists' = [d \in Client |-> lists'[d]]
    BY <1>2, <1>6
  <2>2. ASSUME NEW d \in Client PROVE lists'[d] \in {None} \cup History
    <3>1. CASE d = c
      BY <1>8, <3>1
    <3>2. CASE d # c
      BY <1>3, <1>8, <3>2 DEF Arrived
    <3> QED
      BY <3>1, <3>2
  <2> QED
    BY <2>1, <2>2
<1>10. \A d \in Client : on[d] # None =>
         /\ lists'[d] # None /\ lists'[d].locs = R[d].locs
         /\ lists'[d].cur \in 1..Len(lists'[d].locs)
  <2> SUFFICES ASSUME NEW d \in Client \ {c}, on[d] # None
               PROVE  /\ lists'[d] # None /\ lists'[d].locs = R[d].locs
                      /\ lists'[d].cur \in 1..Len(lists'[d].locs)
    BY <1>7, <1>8
  <2>1. lists'[d] = R[d] /\ Arrived(R[d], Before(d), Loc(d, dock))
    BY <1>3, <1>8
  <2>2. Len(R[d].locs) \in Nat /\ R[d].cur \in 0..Len(R[d].locs) /\ R[d].cur # 0 /\ R[d] # None
    BY <2>1, LenProperties, JumpListAssumption DEF Arrived, Sound
  <2> QED
    BY <2>1, <2>2
<1>11. Placing(lists', dock)
  BY <1>2, <1>3, <1>8, <1>9, <1>10 DEF Placing, R
<1>12. /\ \A d \in Client : IF lists'[d] = None THEN \A w \in Window : kept'[d][w] = None
                                                ELSE Remembered(lists'[d], kept'[d])
       /\ kept' \in [Client -> [Window -> Pane \cup Window \cup {None, Own}]]
  BY <1>1, <1>2, <1>10, <1>11, RememberedIs
<1>13. Histories'
  BY <1>12 DEF Histories, Remembered
<1>14. going' \in Going
  <2>1. l.locs[k] \in Entry
    BY <1>7, ElementOfSeq DEF History
  <2> QED
    BY <1>2, <1>7, <2>1 DEF Going, History
<1>15. TypeOK'
  <2>1. TmuxType'
    BY <1>1, <1>2 DEF TypeOK, TmuxType
  <2> QED
    BY <1>1, <1>2, <1>9, <1>12, <1>13, <1>14, <2>1, TypeFrom DEF TypeOK
<1>16. Attached' /\ OnlyEnabled' /\ InStep'
  BY <1>1, <1>2, <1>5 DEF Attached, OnlyEnabled, InStep, TypeOK, DockAt
<1>17. Jumping'
  <2>0. PICK e \in Entry : e = l.locs[k]
    BY <1>7, ElementOfSeq DEF History
  <2>1. e \in Entries(l.locs) /\ e.win # Here(l).win
    <3>1. l.locs[k].win = l.locs[l.cur].win => k = l.cur
      BY <1>7 DEF Arrived, Sound, Distinct
    <3> QED
      BY <1>4, <1>7, <2>0, <3>1 DEF Entries, Here
  <2>2. e.win \in alive /\ (e.pane = None \/ HasPane(e.pane, e.win))
    <3>1. e \in Entries(Before(c).locs)
      BY <1>7, <2>1 DEF Arrived
    <3> QED
      BY <1>1, <3>1, BeforeIs
  <2>3. e.pane = None \/ HasPane(e.pane, e.win)'
    BY <1>2, <2>2 DEF HasPane, Home
  <2>4. going'.client = c /\ going'.was = l.cur /\ going'.to = e
    BY <1>2, <2>0
  <2>5. /\ lists'[going'.client] # None /\ going'.was \in 1..Len(lists'[going'.client].locs)
        /\ lists'[going'.client].locs[lists'[going'.client].cur] = going'.to
    BY <1>7, <1>8, <2>0, <2>4
  <2>6. e.win \in alive'
    BY <1>2, <2>2
  <2>7. (going.to.pane = None \/ HasPane(going.to.pane, going.to.win))'
    BY <2>3, <2>4 DEF HasPane, Home
  <2> QED
    BY <2>4, <2>5, <2>6, <2>7 DEF Jumping, Here
<1>18. Places'
  <2> SUFFICES ASSUME NEW d \in fresh', lists'[d] # None
               PROVE  on'[d] # None /\ lists'[d].locs[PlaceOf(d)'].win = Where(d)'
    BY DEF Places
  <2>0. d \in Client
    BY <1>1, <1>2 DEF TypeOK
  <2>1. on[d] # None /\ Arrived(R[d], Before(d), Loc(d, dock)) /\ Loc(d, dock).win = Where(d)
    BY <1>3, <1>5, <1>11, <2>0 DEF Placing
  <2>2. PlaceOf(d)' = R[d].cur
    <3>1. CASE d = c
      BY <1>2, <1>14, <3>1, JumpListAssumption DEF PlaceOf
    <3>2. CASE d # c
      BY <1>2, <1>8, <2>0, <3>2 DEF PlaceOf
    <3> QED
      BY <3>1, <3>2
  <2> QED
    BY <1>2, <1>5, <1>10, <2>0, <2>1, <2>2 DEF Arrived, Here
<1> QED
  BY <1>13, <1>14, <1>15, <1>16, <1>17, <1>18, JumpListAssumption DEF IInv

\* A jump that lands leaves the histories alone, one that fails goes back in its own.
LEMMA Ended ==
  ASSUME IInv, going # None, Lands \/ Fails, kept' = kept
  PROVE  /\ lists' \in [Client -> {None} \cup History] /\ going' = None /\ Histories'
         /\ \A d \in Client : /\ lists'[d] # None <=> lists[d] # None
                              /\ lists'[d] # None => lists'[d].locs = lists[d].locs
                              /\ d # going.client => lists'[d] = lists[d]
         /\ Lands => lists' = lists
         /\ Fails => lists'[going.client].cur = going.was
         /\ going.client \in Client /\ lists[going.client] # None
<1> DEFINE c == going.client
           l == lists[c]
<1>1. /\ TypeOK /\ Histories /\ Jumping /\ c \in Client /\ l # None /\ l \in History
      /\ going.was \in 1..Len(l.locs) /\ going' = None
  BY DEF IInv, TypeOK, Jumping, Going, Lands, Fails
<1>2. CASE Lands
  <2>1. lists' = lists
    BY <1>2 DEF Lands
  <2>2. Histories'
    BY <1>1, <2>1 DEF Histories, Remembered
  <2>3. Fails => lists'[c].cur = going.was
    <3>1. Fails => lists' = [lists EXCEPT ![c] = [l EXCEPT !.cur = going.was]]
      BY DEF Fails, Undone
    <3>2. l = [locs |-> l.locs, cur |-> l.cur]
      BY <1>1 DEF History
    <3>3. [l EXCEPT !.cur = going.was].cur = going.was
      BY <3>2
    <3>4. lists \in [Client -> {None} \cup History]
      BY <1>1 DEF TypeOK
    <3> QED
      BY <1>1, <3>1, <3>3, <3>4
  <2> QED
    BY <1>1, <2>1, <2>2, <2>3 DEF TypeOK
<1>3. CASE Fails
  <2> DEFINE n == [l EXCEPT !.cur = going.was]
  <2>1. lists' = [lists EXCEPT ![c] = n] /\ lists \in [Client -> {None} \cup History]
    BY <1>1, <1>3 DEF Fails, Undone, TypeOK
  <2>2. n = [locs |-> l.locs, cur |-> going.was]
    BY <1>1 DEF History
  <2>3. Remembered(l, kept[c]) /\ Len(l.locs) \in Nat /\ Len(l.locs) <= JumpCap /\ JumpCap \in Nat
    BY <1>1, LenProperties, JumpListAssumption DEF Histories, Remembered, Sound
  <2> HIDE DEF n
  <2>4. n \in History /\ n # None
    BY <1>1, <2>2, <2>3, JumpListAssumption DEF History
  <2>5. Remembered(n, kept[c])
    <3>1. n.locs = l.locs /\ n.cur = going.was /\ n = [locs |-> n.locs, cur |-> n.cur]
      BY <2>2
    <3>2. n.cur \in 0..Len(n.locs) /\ n.cur # 0
      BY <1>1, <2>3, <3>1
    <3>3. Sound(n)
      BY <2>3, <3>1, <3>2 DEF Remembered, Sound
    <3>4. Wins(n) = Wins(l)
      BY <3>1 DEF Wins
    <3> QED
      BY <2>3, <3>1, <3>2, <3>3, <3>4 DEF Remembered
  <2> HIDE DEF c, l
  <2>6. /\ lists'[c] = n /\ (\A d \in Client \ {c} : lists'[d] = lists[d])
        /\ lists' \in [Client -> {None} \cup History]
    BY <1>1, <2>1, <2>4
  <2>7. ASSUME NEW d \in Client
        PROVE  IF lists'[d] = None THEN \A w \in Window : kept'[d][w] = None
                                   ELSE Remembered(lists'[d], kept'[d])
    <3>1. CASE d = c
      BY <2>4, <2>5, <2>6, <3>1
    <3>2. CASE d # c
      BY <1>1, <2>6, <3>2 DEF Histories
    <3> QED
      BY <3>1, <3>2
  <2>8. Histories'
    BY <2>7 DEF Histories, Remembered
  <2>9. ~Lands \/ lists' = lists
    BY DEF Lands
  <2>10. n.locs = l.locs /\ n.cur = going.was
    BY <2>2
  <2>11. \A d \in Client : /\ lists'[d] # None <=> lists[d] # None
                           /\ lists'[d] # None => lists'[d].locs = lists[d].locs
                           /\ d # c => lists'[d] = lists[d]
    BY <1>1, <2>4, <2>6, <2>10 DEF l
  <2> QED
    BY <1>1, <2>6, <2>8, <2>9, <2>10, <2>11 DEF c, l
<1> QED
  BY <1>2, <1>3


\* A client that is shown window w is in it; nobody else moves but who is in its session.
LEMMA GoesTo ==
  ASSUME TypeOK, Attached, NEW c \in Client, NEW w \in alive,
         actw' = [actw EXCEPT ![SessOf[w]] = w], alive' = alive,
         on' \in {on, [on EXCEPT ![c] = SessOf[w]]}
  PROVE  /\ Attached' /\ actw' \in [Session -> Window \cup {None}]
         /\ on' \in [Client -> Session \cup {None}]
         /\ on'[c] = SessOf[w] => on'[c] # None /\ Where(c)' = w
         /\ \A d \in Client \ {c} :
              on'[d] = on[d] /\ (on[d] # SessOf[w] => Where(d)' = Where(d))
<1>1. /\ w \in Window /\ SessOf[w] \in Session /\ w # None /\ SessOf[w] # None
      /\ actw \in [Session -> Window \cup {None}] /\ on \in [Client -> Session \cup {None}]
  BY JumpListAssumption DEF TypeOK
<1>2. /\ actw'[SessOf[w]] = w /\ \A s \in Session \ {SessOf[w]} : actw'[s] = actw[s]
      /\ actw' \in [Session -> Window \cup {None}] /\ on' \in [Client -> Session \cup {None}]
      /\ on'[c] \in {on[c], SessOf[w]} /\ \A d \in Client \ {c} : on'[d] = on[d]
  BY <1>1
<1>3. Attached'
  <2>1. \A s \in Session : actw'[s] # None => actw'[s] \in alive /\ SessOf[actw'[s]] = s
    BY <1>1, <1>2 DEF Attached
  <2>2. ASSUME NEW d \in Client, on'[d] # None PROVE actw'[on'[d]] # None
    <3>1. on'[d] \in {on[d], SessOf[w]} /\ on'[d] \in Session
      BY <1>2, <2>2
    <3> QED
      BY <1>1, <1>2, <2>2, <3>1 DEF Attached
  <2> QED
    BY <2>1, <2>2 DEF Attached
<1>4. ASSUME on'[c] = SessOf[w] PROVE on'[c] # None /\ Where(c)' = w
  BY <1>1, <1>2, <1>4 DEF Where
<1>5. ASSUME NEW d \in Client \ {c}, on[d] # SessOf[w] PROVE Where(d)' = Where(d)
  <2>1. on'[d] = on[d] /\ (on[d] = None \/ on[d] \in Session \ {SessOf[w]})
    BY <1>1, <1>2, <1>5
  <2> QED
    BY <1>2, <2>1 DEF Where
<1> QED
  BY <1>2, <1>3, <1>4, <1>5

\* The end of a jump, wherever tmux has taken the client, keeps its place where it is.
LEMMA JumpDone ==
  ASSUME IInv, going # None, Lands \/ Fails, UNCHANGED <<kept, enabled>>, TmuxType', Attached',
         dock' \in {None} \cup DockAt, InStep', fresh' \subseteq fresh,
         NEW c \in Client, NEW e \in Entry, c = going.client, e = going.to,
         \A d \in fresh' : d # c /\ on[d] # None => on'[d] # None /\ Where(d)' = Where(d),
         c \in fresh' /\ on[c] # None =>
           \/ Fails /\ on'[c] # None /\ Where(c)' = Where(c)
           \/ Lands /\ on'[c] # None /\ Where(c)' = e.win
  PROVE  IInv'
<1>1. /\ lists' \in [Client -> {None} \cup History] /\ going' = None /\ Histories'
      /\ \A d \in Client : /\ lists'[d] # None <=> lists[d] # None
                           /\ lists'[d] # None => lists'[d].locs = lists[d].locs
                           /\ d # c => lists'[d] = lists[d]
      /\ Lands => lists' = lists
      /\ Fails => lists'[c].cur = going.was
      /\ c \in Client /\ lists[c] # None
  BY Ended
<1>2. TypeOK /\ Places /\ Jumping /\ OnlyEnabled
  BY DEF IInv
<1>3. TypeOK'
  BY <1>1, <1>2, TypeFrom DEF TypeOK
<1>4. OnlyEnabled' /\ Jumping'
  BY <1>1, <1>2 DEF OnlyEnabled, Jumping
<1>5. ASSUME NEW d \in fresh', lists'[d] # None
      PROVE  on'[d] # None /\ lists'[d].locs[PlaceOf(d)'].win = Where(d)'
  <2>1. d \in fresh /\ d \in Client /\ lists[d] # None
    BY <1>1, <1>2, <1>5 DEF TypeOK
  <2>2. on[d] # None /\ lists[d].locs[PlaceOf(d)].win = Where(d)
    BY <1>2, <2>1 DEF Places
  <2>3. PlaceOf(d)' = lists'[d].cur
    BY <1>1 DEF PlaceOf
  <2>4. CASE d # c
    <3>1. PlaceOf(d) = lists[d].cur /\ lists'[d] = lists[d]
      BY <1>1, <2>1, <2>4 DEF PlaceOf
    <3> QED
      BY <1>5, <2>2, <2>3, <2>4, <3>1
  <2>5. CASE d = c
    <3>1. PlaceOf(c) = going.was /\ Here(lists[c]) = e
      BY <1>2 DEF PlaceOf, Jumping
    <3>2. /\ on[c] # None /\ lists[c].locs[going.was].win = Where(c)
          /\ PlaceOf(c)' = lists'[c].cur /\ lists'[c].locs = lists[c].locs
      BY <1>1, <1>5, <2>2, <2>3, <2>5, <3>1
    <3>3. on'[c] # None /\ lists'[c].locs[PlaceOf(c)'].win = Where(c)'
      <4>1. CASE Fails /\ on'[c] # None /\ Where(c)' = Where(c)
        BY <1>1, <3>2, <4>1
      <4>2. CASE Lands /\ on'[c] # None /\ Where(c)' = e.win
        BY <1>1, <3>1, <3>2, <4>2 DEF Here
      <4> QED
        BY <1>5, <2>5, <3>2, <4>1, <4>2
    <3> QED
      BY <2>5, <3>3
  <2> QED
    BY <2>4, <2>5
<1>6. Places'
  BY <1>5 DEF Places
<1> QED
  BY <1>1, <1>3, <1>4, <1>6 DEF IInv

\* An undocked jump.
LEMMA JumpMovesStep == ASSUME IInv, JumpMoves PROVE IInv'
<1>0. PICK c \in Client, e \in Entry : c = going.client /\ e = going.to
  BY DEF IInv, TypeOK, Going, JumpMoves
<1> DEFINE w == e.win  p == e.pane
<1>1. /\ TypeOK /\ Attached /\ Places /\ Jumping /\ InStep
      /\ going # None /\ ~Docked /\ UNCHANGED <<changes, dock, enabled, kept>>
  BY DEF IInv, JumpMoves
<1>2. c \in Client /\ w \in Window /\ p \in Pane \cup Window \cup {None, Own} /\ lists[c] # None
  BY <1>0, <1>1 DEF Entry, Jumping
<1>3. c \in fresh => /\ w \in alive /\ (p = None \/ HasPane(p, w)) /\ on[c] # None
  BY <1>0, <1>1, <1>2 DEF Jumping, Places
<1>4. dock # None => dock.client # c /\ dock.client \in Client /\ dock \in DockAt
  BY <1>0, <1>1 DEF Docked, TypeOK, DockAt
<1>5. CASE Fails /\ UNCHANGED <<tmux, fresh>>
  <2>1. \A d : Where(d)' = Where(d)
    BY <1>5 DEF Where, tmux
  <2>2. TmuxType' /\ Attached'
    BY <1>1, <1>5 DEF TypeOK, TmuxType, Attached, tmux
  <2>3. InStep'
    BY <1>1, <1>4, <1>5, <2>1 DEF InStep, tmux
  <2>4. on' = on /\ fresh' = fresh /\ kept' = kept /\ enabled' = enabled /\ dock' \in {None} \cup DockAt
    BY <1>1, <1>5 DEF tmux, TypeOK
  <2> QED
    BY <1>0, <1>1, <1>2, <1>5, <2>1, <2>2, <2>3, <2>4, JumpDone
<1>6. CASE /\ on[c] # None /\ SessOf[w] \in Living /\ w \notin alive
           /\ on' = [on EXCEPT ![c] = SessOf[w]]
           /\ Fails /\ UNCHANGED <<alive, home, actw, actp, fresh>>
  <2>1. SessOf[w] \in Session /\ actw[SessOf[w]] # None
    BY <1>6 DEF Living
  <2>2. on' \in [Client -> Session \cup {None}] /\ \A d \in Client \ {c} : on'[d] = on[d]
    BY <1>1, <1>2, <1>6, <2>1 DEF TypeOK
  <2>3. \A d \in Client \ {c} : Where(d)' = Where(d)
    BY <1>6, <2>2 DEF Where
  <2>4. Attached'
    <3>1. on'[c] = SessOf[w]
      BY <1>1, <1>2, <1>6 DEF TypeOK
    <3> QED
      BY <1>1, <1>6, <2>1, <2>2, <3>1 DEF Attached
  <2>5. TmuxType'
    BY <1>1, <1>6, <2>2 DEF TypeOK, TmuxType
  <2>6. InStep'
    BY <1>1, <1>4, <1>6, <2>2, <2>3 DEF InStep
  <2>7. c \notin fresh' /\ fresh' \subseteq fresh /\ fresh' \subseteq Client
    BY <1>1, <1>3, <1>6 DEF TypeOK
  <2>8. kept' = kept /\ enabled' = enabled /\ dock' \in {None} \cup DockAt
    BY <1>1 DEF TypeOK
  <2> QED
    BY <1>0, <1>1, <1>2, <1>6, <2>2, <2>3, <2>4, <2>5, <2>6, <2>7, <2>8, JumpDone
<1>7. CASE /\ on[c] # None /\ w \in alive /\ Drags(c, w)
           /\ on' = [on EXCEPT ![c] = SessOf[w]]
           /\ IF p # None /\ ~(p # Own /\ Home(p) \in alive)
              THEN Shows(w, None) /\ Fails
              ELSE Shows(w, p) /\ Lands
           /\ UNCHANGED <<alive, home>>
  <2>1. actw' = [actw EXCEPT ![SessOf[w]] = w] /\ alive' = alive
    BY <1>7 DEF Shows
  <2>2. on'[c] = SessOf[w] /\ on' \in {on, [on EXCEPT ![c] = SessOf[w]]}
    BY <1>1, <1>2, <1>7 DEF TypeOK
  <2>3. /\ Attached' /\ actw' \in [Session -> Window \cup {None}]
        /\ on' \in [Client -> Session \cup {None}] /\ on'[c] # None /\ Where(c)' = w
        /\ \A d \in Client \ {c} :
             on'[d] = on[d] /\ (on[d] # SessOf[w] => Where(d)' = Where(d))
    BY <1>1, <1>2, <1>7, <2>1, <2>2, GoesTo
  <2>4. \A d \in fresh' : d \in fresh /\ d \in Client /\ (d # c => on[d] # SessOf[w])
    BY <1>1, <1>7 DEF Drags, TypeOK
  <2>5. c \in fresh' => Lands
    <3>1. ASSUME c \in fresh' PROVE ~(p # None /\ ~(p # Own /\ Home(p) \in alive))
      BY <1>3, <2>4, <3>1, JumpListAssumption DEF HasPane
    <3> QED
      BY <1>7, <3>1
  <2>6. actp' \in [Window -> Pane \cup Window \cup {Own}]
    <3>1. ASSUME p # None, p # Own, Home(p) \in alive
          PROVE  [actp EXCEPT ![Home(p)] = p] \in [Window -> Pane \cup Window \cup {Own}]
      BY <1>1, <1>2, <3>1 DEF TypeOK
    <3>2. actp \in [Window -> Pane \cup Window \cup {Own}]
      BY <1>1 DEF TypeOK
    <3> QED
      BY <1>7, <3>1, <3>2 DEF Shows
  <2>7. TmuxType'
    BY <1>1, <1>7, <2>3, <2>6 DEF TypeOK, TmuxType
  <2>8. InStep'
    BY <1>1, <1>4, <2>3, <2>4 DEF InStep
  <2>9. (Lands \/ Fails) /\ fresh' \subseteq fresh
    BY <1>7, <2>4
  <2>10. kept' = kept /\ enabled' = enabled /\ dock' \in {None} \cup DockAt
    BY <1>1 DEF TypeOK
  <2> QED
    BY <1>0, <1>1, <1>2, <2>3, <2>4, <2>5, <2>7, <2>8, <2>9, <2>10, JumpDone
<1> QED
  BY <1>0, <1>5, <1>6, <1>7 DEF JumpMoves, Drags, Shows

\* A jump with the dock.
LEMMA JumpDocksStep == ASSUME IInv, JumpDocks PROVE IInv'
<1>0. PICK c \in Client, e \in Entry : c = going.client /\ e = going.to
  BY DEF IInv, TypeOK, Going, JumpDocks
<1> DEFINE w == e.win  p == e.pane
<1>1. /\ TypeOK /\ Attached /\ Places /\ Jumping /\ InStep
      /\ going # None /\ Docked /\ UNCHANGED <<changes, enabled, kept>>
  BY DEF IInv, JumpDocks
<1>2. c \in Client /\ w \in Window /\ p \in Pane \cup Window \cup {None, Own} /\ lists[c] # None
  BY <1>0, <1>1 DEF Entry, Jumping
<1>3. dock # None /\ dock.client = c /\ dock \in DockAt /\ dock.win \in Window
  BY <1>0, <1>1 DEF Docked, TypeOK, DockAt
<1>4. c \in fresh => on[c] # None /\ dock.win = Where(c)
  BY <1>1, <1>3 DEF InStep
<1>5. CASE /\ w = dock.win
           /\ actp' \in {actp, IF HasPane(p, w) THEN [actp EXCEPT ![w] = p] ELSE actp}
           /\ Lands \/ Fails
           /\ UNCHANGED <<alive, home, actw, on, dock, fresh>>
  <2>1. \A d : Where(d)' = Where(d)
    BY <1>5 DEF Where
  <2>2. actp' \in [Window -> Pane \cup Window \cup {Own}]
    BY <1>1, <1>2, <1>5 DEF TypeOK, HasPane
  <2>3. TmuxType' /\ Attached'
    BY <1>1, <1>5, <2>2 DEF TypeOK, TmuxType, Attached
  <2>4. InStep'
    BY <1>1, <1>3, <1>5, <2>1 DEF InStep
  <2>5. on' = on /\ fresh' = fresh /\ kept' = kept /\ enabled' = enabled /\ dock' \in {None} \cup DockAt
    BY <1>1, <1>5 DEF TypeOK
  <2> QED
    BY <1>0, <1>1, <1>2, <1>4, <1>5, <2>1, <2>3, <2>4, <2>5, JumpDone
<1>6. CASE w # dock.win /\ Fails /\ UNCHANGED <<tmux, dock, fresh>>
  <2>1. \A d : Where(d)' = Where(d)
    BY <1>6 DEF Where, tmux
  <2>2. TmuxType' /\ Attached'
    BY <1>1, <1>6 DEF TypeOK, TmuxType, Attached, tmux
  <2>3. InStep'
    BY <1>1, <1>3, <1>6, <2>1 DEF InStep, tmux
  <2>4. on' = on /\ fresh' = fresh /\ kept' = kept /\ enabled' = enabled /\ dock' \in {None} \cup DockAt
    BY <1>1, <1>6 DEF tmux, TypeOK
  <2> QED
    BY <1>0, <1>1, <1>2, <1>6, <2>1, <2>2, <2>3, <2>4, JumpDone
<1>7. CASE /\ w # dock.win /\ w \in alive /\ on[c] # None /\ Drags(c, w)
           /\ dock' = [dock EXCEPT !.win = w]
           /\ on' = IF SessOf[w] # SessOf[dock.win] THEN [on EXCEPT ![c] = SessOf[w]] ELSE on
           /\ Shows(w, IF HasPane(p, w) THEN p ELSE None) /\ Lands
           /\ UNCHANGED <<alive, home>>
  <2>1. actw' = [actw EXCEPT ![SessOf[w]] = w] /\ alive' = alive
    BY <1>7 DEF Shows
  <2>2. on' \in {on, [on EXCEPT ![c] = SessOf[w]]}
    BY <1>7
  <2>3. /\ Attached' /\ actw' \in [Session -> Window \cup {None}]
        /\ on' \in [Client -> Session \cup {None}]
        /\ on'[c] = SessOf[w] => on'[c] # None /\ Where(c)' = w
        /\ \A d \in Client \ {c} :
             on'[d] = on[d] /\ (on[d] # SessOf[w] => Where(d)' = Where(d))
    BY <1>1, <1>2, <1>7, <2>1, <2>2, GoesTo
  <2>4. \A d \in fresh' : d \in fresh /\ d \in Client /\ (d # c => on[d] # SessOf[w])
    BY <1>1, <1>7 DEF Drags, TypeOK
  <2>5. c \in fresh => on'[c] = SessOf[w]
    <3>1. ASSUME c \in fresh, SessOf[w] = SessOf[dock.win] PROVE on[c] = SessOf[w]
      <4>1. on[c] \in Session /\ dock.win = actw[on[c]] /\ actw[on[c]] # None
        BY <1>1, <1>2, <1>4, <3>1 DEF Where, TypeOK, Attached
      <4> QED
        BY <1>1, <3>1, <4>1 DEF Attached
    <3> QED
      BY <1>1, <1>2, <1>7, <3>1 DEF TypeOK
  <2>6. dock' \in DockAt /\ dock'.client = c /\ dock'.win = w
    BY <1>2, <1>3, <1>7 DEF DockAt
  <2>7. actp' \in [Window -> Pane \cup Window \cup {Own}]
    <3>1. ASSUME HasPane(p, w)
          PROVE  Home(p) = w /\ [actp EXCEPT ![Home(p)] = p] \in [Window -> Pane \cup Window \cup {Own}]
      BY <1>1, <1>2, <3>1 DEF TypeOK, HasPane
    <3>2. actp \in [Window -> Pane \cup Window \cup {Own}]
      BY <1>1 DEF TypeOK
    <3> QED
      BY <1>7, <3>1, <3>2 DEF Shows
  <2>8. TmuxType'
    BY <1>1, <1>7, <2>3, <2>7 DEF TypeOK, TmuxType
  <2>9. InStep'
    BY <2>3, <2>4, <2>5, <2>6 DEF InStep
  <2>10. Lands /\ fresh' \subseteq fresh
    BY <1>7, <2>4
  <2>11. kept' = kept /\ enabled' = enabled /\ dock' \in {None} \cup DockAt
    BY <1>1, <2>6
  <2> QED
    BY <1>0, <1>1, <1>2, <2>3, <2>4, <2>5, <2>8, <2>9, <2>10, <2>11, JumpDone
<1> QED
  BY <1>0, <1>5, <1>6, <1>7 DEF JumpDocks, Drags, Shows

-----------------------------------------------------------------------------
(* Commands that dock and undock, a reload of the configuration, and users.  *)

\* The dock opens where its client is.
LEMMA DockStep == ASSUME IInv, NEW c \in Client, Dock(c) PROVE IInv'
<1>1. TypeOK /\ Histories /\ Attached /\ OnlyEnabled /\ Places
  BY DEF IInv
<1>2. /\ going = None /\ going' = None /\ on[c] # None /\ dock' = [client |-> c, win |-> Where(c)]
      /\ alive' = alive /\ home' = home /\ actw' = actw /\ actp' = actp /\ on' = on
      /\ changes' = changes /\ lists' = lists /\ enabled' = enabled /\ fresh' = fresh /\ kept' = kept
  BY DEF Dock, tmux
<1>3. \A d : Where(d)' = Where(d) /\ PlaceOf(d)' = PlaceOf(d)
  BY <1>2 DEF Where, PlaceOf
<1>4. dock' \in DockAt
  BY <1>1, <1>2, LocIs DEF DockAt
<1>5. TypeOK'
  BY <1>1, <1>2, <1>4 DEF TypeOK
<1>6. Histories' /\ Attached' /\ OnlyEnabled' /\ Jumping'
  BY <1>1, <1>2 DEF Histories, Remembered, Attached, OnlyEnabled, Jumping
<1>7. Places'
  BY <1>1, <1>2, <1>3 DEF Places
<1>8. InStep'
  BY <1>2, <1>3 DEF InStep
<1> QED
  BY <1>5, <1>6, <1>7, <1>8 DEF IInv

\* The dock goes with its panes.
LEMMA UndockStep == ASSUME IInv, Undock PROVE IInv'
<1>1. TypeOK /\ Histories /\ Attached /\ OnlyEnabled /\ Places
  BY DEF IInv
<1>2. /\ going = None /\ going' = None /\ dock' = None /\ actp' = Without
      /\ alive' = alive /\ home' = home /\ actw' = actw /\ on' = on
      /\ changes' = changes /\ lists' = lists /\ enabled' = enabled /\ fresh' = fresh /\ kept' = kept
  BY DEF Undock
<1>3. \A d : Where(d)' = Where(d) /\ PlaceOf(d)' = PlaceOf(d)
  BY <1>2 DEF Where, PlaceOf
<1>4. actp' \in [Window -> Pane \cup Window \cup {Own}]
  BY <1>1, <1>2 DEF TypeOK, Without
<1>5. TypeOK'
  BY <1>1, <1>2, <1>4 DEF TypeOK
<1>6. Histories' /\ Attached' /\ OnlyEnabled' /\ Jumping' /\ InStep'
  BY <1>1, <1>2 DEF Histories, Remembered, Attached, OnlyEnabled, Jumping, InStep
<1>7. Places'
  BY <1>1, <1>2, <1>3 DEF Places
<1> QED
  BY <1>5, <1>6, <1>7 DEF IInv

\* The option goes off, and the histories with it, or on.
LEMMA LoadJumplistStep == ASSUME IInv, LoadJumplist PROVE IInv'
<1>1. TypeOK /\ Histories /\ Attached /\ OnlyEnabled
  BY DEF IInv
<1>2. /\ going = None /\ going' = None /\ enabled' = ~enabled /\ fresh' = {}
      /\ IF enabled THEN /\ lists' = [c \in Client |-> None]
                         /\ kept' = [c \in Client |-> [w \in Window |-> None]]
         ELSE lists' = lists /\ kept' = kept
      /\ alive' = alive /\ home' = home /\ actw' = actw /\ actp' = actp /\ on' = on
      /\ changes' = changes /\ dock' = dock
  BY DEF LoadJumplist, tmux
<1>3. \A c \in Client : lists'[c] = None /\ \A w \in Window : kept'[c][w] = None
  BY <1>1, <1>2 DEF OnlyEnabled, Histories
<1>4. /\ lists' \in [Client -> {None} \cup History]
      /\ kept' \in [Client -> [Window -> Pane \cup Window \cup {None, Own}]]
  <2>1. CASE enabled
    BY <1>2, <2>1
  <2>2. CASE ~enabled
    BY <1>1, <1>2, <2>2 DEF TypeOK
  <2> QED
    BY <2>1, <2>2
<1>5. enabled' \in BOOLEAN
  BY <1>2
<1>6. TypeOK'
  BY <1>1, <1>2, <1>3, <1>4, <1>5 DEF TypeOK
<1>7. Attached' /\ Jumping' /\ InStep' /\ Places'
  BY <1>1, <1>2 DEF Attached, Jumping, InStep, Places
<1>8. Histories' /\ OnlyEnabled'
  BY <1>2, <1>3 DEF Histories, OnlyEnabled
<1> QED
  BY <1>6, <1>7, <1>8 DEF IInv

\* What users do to tmux leaves the histories what they were, and vouches for nobody.
LEMMA UserStep == ASSUME IInv, User, TmuxType', Attached' PROVE IInv'
<1>1. TypeOK /\ Histories /\ OnlyEnabled /\ Jumping
  BY DEF IInv
<1>2. /\ fresh' = {} /\ dock' = dock /\ lists' = lists /\ enabled' = enabled /\ going' = going
      /\ kept' = kept
  BY DEF User
<1>3. TypeOK'
  BY <1>1, <1>2 DEF TypeOK, TmuxType
<1>4. Histories' /\ OnlyEnabled'
  BY <1>1, <1>2 DEF Histories, Remembered, OnlyEnabled
<1>5. Jumping'
  BY <1>1, <1>2 DEF Jumping
<1>6. Places' /\ InStep'
  BY <1>2 DEF Places, InStep
<1> QED
  BY <1>3, <1>4, <1>5, <1>6 DEF IInv

\* The bound on changes is kept.
LEMMA CountsUp == ASSUME TypeOK, User PROVE changes' \in 0..MaxChanges
  BY JumpListAssumption DEF TypeOK, User

\* A user goes to another window.
LEMMA SelectsWindowStep == ASSUME IInv, NEW w \in Window, SelectsWindow(w) PROVE IInv'
<1>1. /\ TypeOK /\ Attached /\ User /\ w \in alive /\ w # None /\ SessOf[w] \in Session
      /\ actw' = [actw EXCEPT ![SessOf[w]] = w]
      /\ alive' = alive /\ home' = home /\ actp' = actp /\ on' = on
  BY JumpListAssumption DEF IInv, SelectsWindow
<1>2. TmuxType'
  BY <1>1, CountsUp DEF TypeOK, TmuxType
<1>3. Attached'
  BY <1>1 DEF TypeOK, Attached
<1> QED
  BY <1>1, <1>2, <1>3, UserStep

\* A user goes to another pane, of a window that need not be the active one.
LEMMA SelectsPaneStep ==
  ASSUME IInv, NEW p \in Pane \cup Window \cup {Own}, SelectsPane(p) PROVE IInv'
<1>1. /\ TypeOK /\ Attached /\ User /\ alive' = alive /\ home' = home /\ actw' = actw /\ on' = on
      /\ \E w \in alive : actp' = [actp EXCEPT ![w] = p]
  BY DEF IInv, SelectsPane
<1>2. TmuxType'
  BY <1>1, CountsUp DEF TypeOK, TmuxType
<1>3. Attached'
  BY <1>1 DEF Attached
<1> QED
  BY <1>1, <1>2, <1>3, UserStep

\* A client attaches, changes session or detaches.
LEMMA AttachesStep ==
  ASSUME IInv, NEW c \in Client, NEW s \in Session \cup {None}, Attaches(c, s) PROVE IInv'
<1>1. /\ TypeOK /\ Attached /\ User /\ s \in {None} \cup Living /\ on' = [on EXCEPT ![c] = s]
      /\ alive' = alive /\ home' = home /\ actw' = actw /\ actp' = actp
  BY DEF IInv, Attaches
<1>2. TmuxType'
  BY <1>1, CountsUp DEF TypeOK, TmuxType
<1>3. Attached'
  BY <1>1 DEF TypeOK, Attached, Living
<1> QED
  BY <1>1, <1>2, <1>3, UserStep

\* A pane dies, or moves to another window.
LEMMA PaneGoesStep ==
  ASSUME IInv, NEW p \in Pane, NEW w \in Window \cup {None}, PaneGoes(p, w) PROVE IInv'
<1>1. /\ TypeOK /\ Attached /\ User /\ home[p] # None
      /\ actp' = [actp EXCEPT ![home[p]] = IF actp[home[p]] = p THEN home[p] ELSE actp[home[p]]]
      /\ home' = [home EXCEPT ![p] = w] /\ alive' = alive /\ actw' = actw /\ on' = on
  BY DEF IInv, PaneGoes
<1>2. TmuxType'
  <2>1. home[p] \in Window
    BY <1>1 DEF TypeOK
  <2> QED
    BY <1>1, <2>1, CountsUp DEF TypeOK, TmuxType
<1>3. Attached'
  BY <1>1 DEF Attached
<1> QED
  BY <1>1, <1>2, <1>3, UserStep

\* A window dies, and with the last of a session its clients go elsewhere.
LEMMA WindowDiesStep == ASSUME IInv, NEW w \in Window, WindowDies(w) PROVE IInv'
<1> DEFINE s == SessOf[w]
           left == {x \in alive' : SessOf[x] = s}
<1>1. /\ TypeOK /\ Attached /\ User /\ w \in alive /\ alive' = alive \ {w} /\ actp' = actp
      /\ home' = [p \in Pane |-> IF home[p] = w THEN None ELSE home[p]] /\ s \in Session
  BY JumpListAssumption DEF IInv, WindowDies
<1>2. PICK x \in IF left = {} THEN {None} ELSE left :
        actw' = [actw EXCEPT ![s] = IF actw[s] = w THEN x ELSE actw[s]]
  BY DEF WindowDies
<1>3. PICK t \in {None} \cup (IF left = {} THEN Living \ {s} ELSE {}) :
        on' = [c \in Client |-> IF on[c] = s /\ left = {} THEN t ELSE on[c]]
  BY DEF WindowDies
<1>4. /\ actw \in [Session -> Window \cup {None}] /\ on \in [Client -> Session \cup {None}]
      /\ alive' \subseteq Window /\ None \notin Session /\ None \notin Window
  BY <1>1, JumpListAssumption DEF TypeOK
<1>5. /\ actw'[s] = IF actw[s] = w THEN x ELSE actw[s]
      /\ \A r \in Session \ {s} : actw'[r] = actw[r]
  BY <1>1, <1>2, <1>4
<1>6. (left = {} /\ x = None) \/ (left # {} /\ x \in alive' /\ x \in Window /\ SessOf[x] = s /\ x # None)
  BY <1>2, <1>4
<1>7. TmuxType'
  <2>1. actw' \in [Session -> Window \cup {None}]
    BY <1>2, <1>4, <1>6
  <2>2. on' \in [Client -> Session \cup {None}]
    BY <1>3, <1>4 DEF Living
  <2>3. home' \in [Pane -> Window \cup {None}]
    BY <1>1 DEF TypeOK
  <2> QED
    BY <1>1, <1>4, <2>1, <2>2, <2>3, CountsUp DEF TypeOK, TmuxType
<1>8. \A r \in Session : actw'[r] # None => actw'[r] \in alive' /\ SessOf[actw'[r]] = r
  <2> SUFFICES ASSUME NEW r \in Session, actw'[r] # None
               PROVE  actw'[r] \in alive' /\ SessOf[actw'[r]] = r
    OBVIOUS
  <2>1. CASE r = s
    BY <1>1, <1>4, <1>5, <1>6, <2>1 DEF Attached
  <2>2. CASE r # s
    <3>1. actw'[r] = actw[r] /\ actw[r] \in alive /\ SessOf[actw[r]] = r
      BY <1>1, <1>5, <2>2 DEF Attached
    <3> QED
      BY <1>1, <2>2, <3>1
  <2> QED
    BY <2>1, <2>2
<1>9. ASSUME NEW c \in Client, on'[c] # None PROVE actw'[on'[c]] # None
  <2>1. on'[c] = IF on[c] = s /\ left = {} THEN t ELSE on[c]
    BY <1>3
  <2>2. CASE on[c] = s /\ left = {}
    <3>1. t \in Living \ {s} /\ on'[c] = t
      BY <1>3, <1>9, <2>1, <2>2
    <3> QED
      BY <1>5, <3>1 DEF Living
  <2>3. CASE on[c] = s /\ left # {}
    BY <1>1, <1>4, <1>5, <1>6, <1>9, <2>1, <2>3 DEF Attached
  <2>4. CASE on[c] # s
    <3>1. on'[c] = on[c] /\ on[c] \in Session \ {s}
      BY <1>4, <1>9, <2>1, <2>4
    <3> QED
      BY <1>1, <1>5, <1>9, <3>1 DEF Attached
  <2> QED
    BY <2>2, <2>3, <2>4
<1>10. Attached'
  BY <1>8, <1>9 DEF Attached
<1> QED
  BY <1>1, <1>7, <1>10, UserStep

\* A step that changes nothing.
LEMMA StutterStep == ASSUME IInv, UNCHANGED vars PROVE IInv'
  BY DEF IInv, TypeOK, Histories, Remembered, OnlyEnabled, Attached, Places, PlaceOf, Where, Jumping,
         HasPane, Home, InStep, vars, tmux

-----------------------------------------------------------------------------
(* The theorems.                                                             *)

\* The invariant holds of the first states.
LEMMA InitInv == Init => IInv
<1> SUFFICES ASSUME Init PROVE IInv
  OBVIOUS
<1>1. /\ alive = Window /\ home \in [Pane -> Window] /\ changes = 0 /\ actp = [w \in Window |-> w]
      /\ actw \in [Session -> Window] /\ \A s \in Session : SessOf[actw[s]] = s
      /\ on \in [Client -> Session] /\ dock = None /\ enabled = TRUE /\ going = None /\ fresh = {}
      /\ lists = [c \in Client |-> None] /\ kept = [c \in Client |-> [w \in Window |-> None]]
  BY DEF Init
<1>2. TypeOK
  BY <1>1, JumpListAssumption DEF TypeOK
<1>3. Histories /\ OnlyEnabled
  BY <1>1 DEF Histories, OnlyEnabled
<1>4. Attached
  BY <1>1, JumpListAssumption DEF Attached
<1>5. Places /\ Jumping /\ InStep
  BY <1>1 DEF Places, Jumping, InStep
<1> QED
  BY <1>2, <1>3, <1>4, <1>5 DEF IInv

\* Every step keeps it.
LEMMA StepInv == IInv /\ [Next]_vars => IInv'
<1> SUFFICES ASSUME IInv, [Next]_vars PROVE IInv'
  OBVIOUS
<1>1. CASE Relist
  BY <1>1, RelistStep
<1>2. CASE JumpMoves
  BY <1>2, JumpMovesStep
<1>3. CASE JumpDocks
  BY <1>3, JumpDocksStep
<1>4. CASE Undock
  BY <1>4, UndockStep
<1>5. CASE LoadJumplist
  BY <1>5, LoadJumplistStep
<1>6. ASSUME NEW c \in Client, Dock(c) PROVE IInv'
  BY <1>6, DockStep
<1>7. ASSUME NEW c \in Client, NEW back \in BOOLEAN, JumpSteps(c, back) PROVE IInv'
  BY <1>7, JumpStepsStep
<1>8. ASSUME NEW c \in Client, NEW back \in BOOLEAN, JumpEnds(c, back) PROVE IInv'
  BY <1>8, JumpEndsStep
<1>9. ASSUME NEW w \in Window, SelectsWindow(w) PROVE IInv'
  BY <1>9, SelectsWindowStep
<1>10. ASSUME NEW w \in Window, WindowDies(w) PROVE IInv'
  BY <1>10, WindowDiesStep
<1>11. ASSUME NEW p \in Pane \cup Window \cup {Own}, SelectsPane(p) PROVE IInv'
  BY <1>11, SelectsPaneStep
<1>12. ASSUME NEW c \in Client, NEW s \in Session \cup {None}, Attaches(c, s) PROVE IInv'
  BY <1>12, AttachesStep
<1>13. ASSUME NEW p \in Pane, NEW w \in Window \cup {None}, PaneGoes(p, w) PROVE IInv'
  BY <1>13, PaneGoesStep
<1>14. CASE UNCHANGED vars
  BY <1>14, StutterStep
<1> QED
  BY <1>1, <1>2, <1>3, <1>4, <1>5, <1>6, <1>7, <1>8, <1>9, <1>10, <1>11, <1>12, <1>13, <1>14 DEF Next

\* The strengthening is an invariant: histories as recorded, clients where tmux can have
\* them, and places, a jump under way and the dock in step with whoever nobody has moved.
THEOREM Inductive == Spec => []IInv
<1>1. Init => IInv
  BY InitInv
<1>2. IInv /\ [Next]_vars => IInv'
  BY StepInv
<1> QED
  BY <1>1, <1>2, PTL DEF Spec

\* Histories have their type, with the place in them, and at most JumpCap entries.
THEOREM TypeCorrect == Spec => []TypeOK
<1>1. IInv => TypeOK
  BY DEF IInv
<1> QED
  BY <1>1, Inductive, PTL

\* No history has a window twice, whatever is visited, left, walked back to or dies.
THEOREM NoDuplicatesHolds == Spec => []NoDuplicates
<1>1. IInv => NoDuplicates
  <2> SUFFICES ASSUME IInv, NEW c \in Client, lists[c] # None,
                      NEW i \in DOMAIN lists[c].locs, NEW j \in DOMAIN lists[c].locs,
                      lists[c].locs[i].win = lists[c].locs[j].win
               PROVE  i = j
    BY DEF NoDuplicates
  <2>1. Sound(lists[c])
    BY DEF IInv, Histories, Remembered
  <2>2. DOMAIN lists[c].locs = 1..Len(lists[c].locs)
    BY <2>1, LenProperties DEF Sound
  <2> QED
    BY <2>1, <2>2 DEF Sound, Distinct
<1> QED
  BY <1>1, Inductive, PTL

\* Between jumps the place in a history is where its client is, if nobody has moved it
\* but by a jump of its own: a jump that fails puts the place back, one that lands not.
THEOREM PlaceHolds == Spec => []PlaceIsWhere
<1>1. IInv => PlaceIsWhere
  <2> SUFFICES ASSUME IInv, going = None, NEW c \in fresh, lists[c] # None
               PROVE  on[c] # None /\ Here(lists[c]).win = Where(c)
    BY DEF PlaceIsWhere
  <2>1. PlaceOf(c) = lists[c].cur
    BY DEF PlaceOf
  <2> QED
    BY <2>1 DEF IInv, Places, Here
<1> QED
  BY <1>1, Inductive, PTL

\* An entry has the last pane its client was seen in there, through visits without one,
\* moves of the entry, and panes that come and go.
THEOREM PaneHolds == Spec => []PaneRemembered
<1>1. IInv => PaneRemembered
  <2> SUFFICES ASSUME IInv, NEW c \in Client, lists[c] # None, NEW i \in DOMAIN lists[c].locs
               PROVE  lists[c].locs[i].pane = kept[c][lists[c].locs[i].win]
    BY DEF PaneRemembered
  <2>1. Sound(lists[c]) /\ \A e \in Entries(lists[c].locs) : e.pane = kept[c][e.win]
    BY DEF IInv, Histories, Remembered
  <2>2. lists[c].locs[i] \in Entries(lists[c].locs)
    BY <2>1, LenProperties DEF Sound, Entries
  <2> QED
    BY <2>1, <2>2
<1> QED
  BY <1>1, Inductive, PTL

\* What is recorded of a client found elsewhere has the entry it left before the new one.
LEMMA RecordReturns ==
  ASSUME IInv, NEW d, Record(d), NEW c \in Client, lists[c] # None, lists'[c] # None,
         Here(lists'[c]).win # Here(lists[c]).win, Here(lists[c]).win \in alive
  PROVE  lists'[c].cur > 1 /\ lists'[c].locs[lists'[c].cur - 1].win = Here(lists[c]).win
<1>1. TypeOK /\ Histories /\ Attached
  BY DEF IInv
<1>2. lists' = Recorded(d)
  BY DEF Record, IInv, OnlyEnabled
<1>3. on[c] # None /\ Arrived(lists'[c], Before(c), Loc(c, d))
  BY <1>1, <1>2, RecordedIs
<1>4. Before(c).cur # 0 /\ Here(Before(c)).win = Here(lists[c]).win
  BY <1>1, BeforeIs
<1>5. lists'[c].cur > 1 /\ lists'[c].locs[lists'[c].cur - 1] = Here(Before(c))
  BY <1>3, <1>4 DEF Arrived
<1> QED
  BY <1>4, <1>5

\* Going back from where a client has gone returns it to where it was, if that window is
\* still there, whatever the place in the history it had walked back to.
THEOREM BackHolds == Spec => BackReturns
<1> DEFINE A == \A c \in Client :
                  (lists[c] # None /\ lists'[c] # None /\ going = None /\ going' = None) =>
                    LET l == lists[c]  new == lists'[c]
                    IN  Here(new).win # Here(l).win /\ Here(l).win \in alive
                          => new.cur > 1 /\ new.locs[new.cur - 1].win = Here(l).win
<1>1. IInv /\ [Next]_vars => A
  <2> SUFFICES ASSUME IInv, [Next]_vars, NEW c \in Client,
                      lists[c] # None, lists'[c] # None, going = None, going' = None,
                      Here(lists'[c]).win # Here(lists[c]).win, Here(lists[c]).win \in alive
               PROVE  /\ lists'[c].cur > 1
                      /\ lists'[c].locs[lists'[c].cur - 1].win = Here(lists[c]).win
    BY DEF A
  <2>1. lists' # lists
    OBVIOUS
  <2>2. Relist \/ \E d \in Client, back \in BOOLEAN : JumpEnds(d, back)
    <3>1. UNCHANGED vars => lists' = lists
      BY DEF vars
    <3>2. \A d \in Client, back \in BOOLEAN : JumpSteps(d, back) => going' # None
      BY JumpStepsStep
    <3>3. ~JumpMoves /\ ~JumpDocks
      BY DEF JumpMoves, JumpDocks
    <3>4. \A d \in Client : Dock(d) => lists' = lists
      BY DEF Dock
    <3>5. Undock => lists' = lists
      BY DEF Undock
    <3>6. LoadJumplist => lists' = lists \/ lists'[c] = None
      BY DEF LoadJumplist
    <3>7. User => lists' = lists
      BY DEF User
    <3> QED
      BY <2>1, <3>1, <3>2, <3>3, <3>4, <3>5, <3>6, <3>7
         DEF Next, SelectsWindow, WindowDies, SelectsPane, Attaches, PaneGoes
  <2>3. \E d : Record(d)
    BY <2>2 DEF Relist, JumpEnds
  <2> QED
    BY <2>3, RecordReturns
<1>2. Spec => [][A]_vars
  BY <1>1, Inductive, PTL DEF Spec
<1> QED
  BY <1>2 DEF BackReturns
\* What is kept of the history old of client c by the history new.
Preserves(c, old, new) ==
  LET rest == alive \ {Here(old).win, Where(c)}
  IN  /\ Here(old).win \in alive =>
           \A u \in rest \cap Wins(new) :
             u \in Wins(old) /\ \A v \in rest : Follows(new, u, v) <=> Follows(old, u, v)
      /\ (Wins(old) \cap alive \subseteq Wins(new) \/ Len(new.locs) = JumpCap)

\* A history whose entries are the same has kept them.
LEMMA SamePreserves ==
  ASSUME NEW c, NEW old, NEW new, new.locs = old.locs
  PROVE  Preserves(c, old, new)
<1>1. Wins(new) = Wins(old) /\ \A u, v : Follows(new, u, v) <=> Follows(old, u, v)
  BY DEF Wins, Follows
<1> QED
  BY <1>1 DEF Preserves

\* The windows of a history, and their order.
LEMMA OrderIs ==
  ASSUME NEW l, l.locs \in Seq(Entry)
  PROVE  /\ \A u : u \in Wins(l) <=> Holds(l.locs, u)
         /\ \A u, v : Follows(l, u, v) <=> Leads(l.locs, u, v)
<1>1. DOMAIN l.locs = 1..Len(l.locs)
  BY LenProperties
<1>2. ASSUME NEW u PROVE u \in Wins(l) <=> Holds(l.locs, u)
  BY <1>1 DEF Wins, Holds
<1>3. ASSUME NEW u, NEW v PROVE Follows(l, u, v) <=> Leads(l.locs, u, v)
  BY <1>1 DEF Follows, Leads
<1> QED
  BY <1>2, <1>3

\* Two windows come in one order only.
LEMMA OneOrder ==
  ASSUME NEW q, q \in Seq(Entry), Distinct(q), NEW u, NEW v
  PROVE  /\ ~(Leads(q, u, v) /\ Leads(q, v, u)) /\ (Leads(q, u, v) => u # v)
         /\ Leads(q, u, v) => Holds(q, u) /\ Holds(q, v)
         /\ Holds(q, u) /\ Holds(q, v) /\ u # v => Leads(q, u, v) \/ Leads(q, v, u)
<1>1. Len(q) \in Nat
  BY LenProperties
<1>2. ASSUME Leads(q, u, v), Leads(q, v, u) PROVE FALSE
  <2>1. PICK i \in 1..Len(q), j \in 1..Len(q) : i < j /\ q[i].win = u /\ q[j].win = v
    BY <1>2 DEF Leads
  <2>2. PICK x \in 1..Len(q), y \in 1..Len(q) : x < y /\ q[x].win = v /\ q[y].win = u
    BY <1>2 DEF Leads
  <2>3. i = y /\ j = x
    BY <2>1, <2>2 DEF Distinct
  <2> QED
    BY <1>1, <2>1, <2>2, <2>3
<1>3. ASSUME Holds(q, u), Holds(q, v), u # v PROVE Leads(q, u, v) \/ Leads(q, v, u)
  <2>1. PICK i \in 1..Len(q) : q[i].win = u
    BY <1>3 DEF Holds
  <2>2. PICK j \in 1..Len(q) : q[j].win = v
    BY <1>3 DEF Holds
  <2>3. i # j
    BY <1>3, <2>1, <2>2
  <2>4. i < j \/ j < i
    BY <1>1, <2>3
  <2> QED
    BY <2>1, <2>2, <2>4 DEF Leads
<1>4. ASSUME Leads(q, u, v) PROVE Holds(q, u) /\ Holds(q, v)
  BY <1>4 DEF Leads, Holds
<1>5. ASSUME Leads(q, u, v) PROVE u # v
  BY <1>2, <1>5
<1> QED
  BY <1>2, <1>3, <1>4, <1>5

\* What is recorded of a client keeps its history.
LEMMA RecordedPreserves ==
  ASSUME IInv, NEW c \in Client, NEW d, lists[c] # None, on[c] # None,
         NEW new, new.locs = Recorded(d)[c].locs
  PROVE  Preserves(c, lists[c], new)
<1> DEFINE old == lists[c]
           b == Before(c)
           loc == Loc(c, d)
           a == Arrive(b, loc)
           h == Here(old).win
           w == Where(c)
<1>1. TypeOK /\ Histories /\ Attached
  BY DEF IInv
<1>2. Sound(old) /\ old.cur # 0
  BY <1>1 DEF Histories, Remembered
<1>3. Sound(b) /\ Len(b.locs) <= JumpCap /\ (h \in alive => b.cur # 0 /\ Here(b).win = h)
  BY <1>1, BeforeIs
<1>4. loc \in Entry /\ loc.win = w
  BY <1>1, LocIs
<1>5. b = Prune(old)
  BY DEF Before
<1>6. new.locs = a.locs
  BY DEF Recorded, Before
<1> HIDE DEF old, b, loc, h, w
<1>7. Arrived(a, b, loc)
  BY <1>3, <1>4, ArriveIs
<1> DEFINE p == b.locs  q == old.locs  n == a.locs
<1>8. /\ \A u, v : /\ u \notin {Here(b).win, w} /\ v \notin {Here(b).win, w}
                   /\ Leads(p, u, v) /\ Holds(n, u)
                   => Leads(n, u, v)
      /\ Len(n) = JumpCap \/ \A u : Holds(p, u) => Holds(n, u)
  BY <1>3, <1>4, ArriveLeads
<1>9. \A u \in alive, v \in alive : Leads(q, u, v) => Leads(p, u, v)
  BY <1>2, <1>5, PruneLeads
<1>10. /\ Entries(p) = {Checked(e) : e \in {f \in Entries(q) : f.win \in alive}}
       /\ \A e \in Entries(n) : e.win # w => e \in Entries(p)
  BY <1>2, <1>4, <1>5, <1>7, PruneIs DEF Arrived
<1>11. q \in Seq(Entry) /\ Distinct(q) /\ n \in Seq(Entry) /\ Distinct(n)
  BY <1>2, <1>7 DEF Sound, Arrived
<1>12. \A e \in Entries(q) : Checked(e).win = e.win
  <2>1. \A i \in 1..Len(q) : q[i] \in Entry
    BY <1>11, ElementOfSeq
  <2> QED
    BY <2>1, CheckedIs DEF Entries
<1>13. /\ \A u : (u \in Wins(new) <=> Holds(n, u)) /\ (u \in Wins(old) <=> Holds(q, u))
       /\ \A u, v : (Follows(new, u, v) <=> Leads(n, u, v)) /\ (Follows(old, u, v) <=> Leads(q, u, v))
  BY <1>6, <1>11, OrderIs
<1> HIDE DEF p, q, n, a
<1>14. ASSUME NEW u, Holds(n, u), u # w PROVE Holds(q, u)
  <2>1. PICK i \in 1..Len(n) : n[i].win = u
    BY <1>14 DEF Holds
  <2>2. n[i] \in Entries(p)
    BY <1>10, <1>14, <2>1 DEF Entries
  <2>3. PICK e \in Entries(q) : n[i] = Checked(e)
    BY <1>10, <2>2
  <2>4. e.win = u
    BY <1>12, <2>1, <2>3
  <2> QED
    BY <2>3, <2>4 DEF Entries, Holds
<1>15. ASSUME NEW u \in alive, Holds(q, u) PROVE Holds(p, u)
  <2>1. PICK i \in 1..Len(q) : q[i].win = u
    BY <1>15 DEF Holds
  <2>2. q[i] \in Entries(q)
    BY <2>1 DEF Entries
  <2>3. Checked(q[i]) \in Entries(p) /\ Checked(q[i]).win = u
    BY <1>10, <1>12, <2>1, <2>2
  <2> QED
    BY <2>3 DEF Entries, Holds
<1> DEFINE rest == alive \ {h, w}
<1>16. ASSUME h \in alive, NEW u \in rest, NEW v \in rest, Leads(q, u, v), Holds(n, u)
       PROVE  Leads(n, u, v)
  <2>1. Leads(p, u, v)
    BY <1>9, <1>16
  <2>2. u \notin {Here(b).win, w} /\ v \notin {Here(b).win, w}
    BY <1>3, <1>16
  <2> QED
    BY <1>8, <1>16, <2>1, <2>2
<1>17. ASSUME h \in alive, NEW u \in rest, NEW v \in rest, Leads(n, u, v)
       PROVE  Leads(q, u, v)
  <2>1. u # v /\ Holds(n, u) /\ Holds(n, v) /\ ~Leads(n, v, u)
    BY <1>11, <1>17, OneOrder
  <2>2. Holds(q, u) /\ Holds(q, v)
    BY <1>14, <1>17, <2>1
  <2>3. Leads(q, u, v) \/ Leads(q, v, u)
    BY <1>11, <2>1, <2>2, OneOrder
  <2>4. ~Leads(q, v, u)
    BY <1>16, <1>17, <2>1
  <2> QED
    BY <2>3, <2>4
<1>18. ASSUME h \in alive, NEW u \in rest \cap Wins(new)
       PROVE  u \in Wins(old) /\ \A v \in rest : Follows(new, u, v) <=> Follows(old, u, v)
  <2>1. Holds(n, u) /\ u \in rest
    BY <1>13, <1>18
  <2>2. Holds(q, u)
    BY <1>14, <2>1
  <2>3. \A v \in rest : Leads(n, u, v) <=> Leads(q, u, v)
    BY <1>16, <1>17, <1>18, <2>1
  <2> QED
    BY <1>13, <2>2, <2>3
<1>19. Wins(old) \cap alive \subseteq Wins(new) \/ Len(new.locs) = JumpCap
  <2>1. CASE Len(n) = JumpCap
    BY <1>6, <2>1 DEF n
  <2>2. CASE \A u : Holds(p, u) => Holds(n, u)
    BY <1>13, <1>15, <2>2
  <2> QED
    BY <1>8, <2>1, <2>2
<1> QED
  BY <1>18, <1>19 DEF Preserves, h, w, old, rest

\* Entries are lost to the death of their window or to the cap, the oldest first, and
\* change order only by what the client leaves and where it arrives.
THEOREM RestHolds == Spec => RestKept
<1> DEFINE A == \A c \in Client :
                  (lists[c] # None /\ lists'[c] # None) => Preserves(c, lists[c], lists'[c])
<1>1. IInv /\ [Next]_vars => A
  <2> SUFFICES ASSUME IInv, [Next]_vars, NEW c \in Client, lists[c] # None, lists'[c] # None
               PROVE  Preserves(c, lists[c], lists'[c])
    BY DEF A
  <2>1. enabled /\ TypeOK /\ Histories /\ Attached
    BY DEF IInv, OnlyEnabled
  <2>2. lists \in [Client -> {None} \cup History] /\ lists[c] \in History
    BY <2>1 DEF TypeOK
  <2>3. ASSUME lists' = lists PROVE Preserves(c, lists[c], lists'[c])
    BY <2>3, SamePreserves
  <2>4. ASSUME NEW d, on[c] # None, lists'[c].locs = Recorded(d)[c].locs
        PROVE  Preserves(c, lists[c], lists'[c])
    BY <2>4, RecordedPreserves
  <2>5. ASSUME NEW d, Record(d) PROVE Preserves(c, lists[c], lists'[c])
    <3>1. lists' = Recorded(d)
      BY <2>1, <2>5 DEF Record
    <3>2. on[c] # None
      BY <3>1 DEF Recorded
    <3> QED
      BY <2>4, <3>1, <3>2
  <2>6. ASSUME NEW e \in Client, NEW back \in BOOLEAN, JumpSteps(e, back)
        PROVE  Preserves(c, lists[c], lists'[c])
    <3> DEFINE R == Recorded(dock)  k == Step(e, back)
    <3>1. lists' = [R EXCEPT ![e].cur = k] /\ on[e] # None
      BY <2>6 DEF JumpSteps, Ends
    <3>2. DOMAIN R = Client /\ (on[c] = None => R[c] = None)
      BY DEF Recorded
    <3>3. on[c] # None => R[c] \in History
      BY <2>1, RecordedIs DEF Arrived
    <3> HIDE DEF R, k
    <3>4. lists'[c] = IF c = e THEN [R[c] EXCEPT !.cur = k] ELSE R[c]
      BY <3>1, <3>2
    <3>5. on[c] # None
      BY <3>1, <3>2, <3>4
    <3>6. lists'[c].locs = R[c].locs
      BY <3>3, <3>4, <3>5 DEF History
    <3> QED
      BY <2>4, <3>5, <3>6 DEF R
  <2>7. ASSUME JumpMoves \/ JumpDocks PROVE Preserves(c, lists[c], lists'[c])
    <3>1. Lands \/ Fails
      BY <2>7 DEF JumpMoves, JumpDocks
    <3>2. CASE Lands
      BY <2>3, <3>2 DEF Lands
    <3>3. CASE Fails
      <4>1. lists'[c] = IF c = going.client THEN [lists[c] EXCEPT !.cur = going.was] ELSE lists[c]
        BY <2>2, <3>3 DEF Fails, Undone
      <4>2. lists'[c].locs = lists[c].locs
        BY <2>2, <4>1 DEF History
      <4> QED
        BY <4>2, SamePreserves
    <3> QED
      BY <3>1, <3>2, <3>3
  <2>8. CASE Relist
    BY <2>5, <2>8 DEF Relist
  <2>9. ASSUME NEW e \in Client, NEW back \in BOOLEAN, JumpEnds(e, back)
        PROVE  Preserves(c, lists[c], lists'[c])
    BY <2>5, <2>9 DEF JumpEnds
  <2>10. CASE LoadJumplist
    BY <2>1, <2>10 DEF LoadJumplist
  <2>11. ASSUME UNCHANGED vars \/ Undock \/ User \/ \E e \in Client : Dock(e)
         PROVE  Preserves(c, lists[c], lists'[c])
    <3>1. lists' = lists
      BY <2>11 DEF vars, Undock, User, Dock
    <3> QED
      BY <2>3, <3>1
  <2> QED
    BY <2>6, <2>7, <2>8, <2>9, <2>10, <2>11
       DEF Next, SelectsWindow, WindowDies, SelectsPane, Attaches, PaneGoes
<1>2. Spec => [][A]_vars
  BY <1>1, Inductive, PTL DEF Spec
<1> QED
  BY <1>2 DEF RestKept, Preserves
=============================================================================
