--------------------------- MODULE SidebarProofs ---------------------------
(***************************************************************************)
(* Proofs about the list of the sidebar, for any sessions, agents and      *)
(* queries: who owns the keyboard is on the screen, and the selection      *)
(* stays on what it was on.                                                *)
(***************************************************************************)
EXTENDS Sidebar, SequenceTheorems, FiniteSetTheorems, WellFoundedInduction, TLAPS

-----------------------------------------------------------------------------
(* Counting up.                                                              *)

\* Every inhabited set of numbers has a least one.
LEMMA Least == ASSUME NEW T, T \subseteq Nat, T # {} PROVE \E x \in T : \A y \in T : x <= y
<1> DEFINE R == {p \in Nat \X Nat : p[1] < p[2]}
<1>1. IsWellFoundedOn(R, Nat)
  BY NatLessThanWellFounded DEF OpToRel
<1> HIDE DEF R
<1>2. PICK x \in T : \A y \in T : <<y, x>> \notin R
  BY <1>1, WFMin
<1>3. \A y \in T : ~(y < x)
  BY <1>2 DEF R
<1>4. ASSUME NEW y \in T PROVE x <= y
  <2>1. x \in Nat /\ y \in Nat
    OBVIOUS
  <2> QED
    BY <1>3, <2>1
<1> QED
  BY <1>4

\* A set with 0 in it that goes on from each number below n holds all of them.
LEMMA UpTo ==
  ASSUME NEW n \in Nat, NEW P, 0 \in P, \A i \in 0..n : i < n /\ i \in P => i + 1 \in P
  PROVE  \A i \in 0..n : i \in P
<1> DEFINE T == {i \in 0..n : i \notin P}
<1> SUFFICES ASSUME T # {} PROVE FALSE
  OBVIOUS
<1>1. PICK x \in T : \A y \in T : x <= y
  BY Least, T \subseteq Nat
<1>2. x \in 0..n /\ x # 0 /\ x \notin P
  OBVIOUS
<1>3. x - 1 \in 0..n /\ x - 1 < n /\ (x - 1) + 1 = x /\ ~(x <= x - 1)
  BY <1>2
<1>4. x - 1 \in P
  BY <1>1, <1>3
<1> QED
  BY <1>2, <1>3, <1>4

\* The least number of a set is its Min, and the greatest of one that is bounded
\* its Max.
LEMMA MinIs ==
  ASSUME NEW T, T \subseteq Nat, T # {}
  PROVE  Min(T) \in T /\ \A y \in T : Min(T) <= y
<1>1. PICK x \in T : \A y \in T : x <= y
  BY Least
<1> QED
  BY <1>1 DEF Min

\* The greatest number of an inhabited set up to a bound is its Max.
LEMMA MaxIs ==
  ASSUME NEW n \in Nat, NEW T, T \subseteq 0..n, T # {}
  PROVE  Max(T) \in T /\ \A y \in T : y <= Max(T)
<1> DEFINE U == {n - t : t \in T}
<1>1. U \subseteq Nat /\ U # {}
  <2>1. \A t \in T : n - t \in Nat
    OBVIOUS
  <2> QED
    BY <2>1
<1>2. PICK u \in U : \A v \in U : u <= v
  BY <1>1, Least
<1>3. PICK x \in T : u = n - x
  BY <1>2
<1>4. ASSUME NEW y \in T PROVE y <= x
  <2>1. n - y \in U
    OBVIOUS
  <2>2. n - x <= n - y
    BY <1>2, <1>3, <2>1
  <2>3. x \in 0..n /\ y \in 0..n
    OBVIOUS
  <2> QED
    BY <2>2, <2>3
<1>5. \E z \in T : \A y \in T : z >= y
  <2>1. \A y \in T : x >= y
    BY <1>4
  <2> QED
    BY <2>1
<1>6. Max(T) \in T /\ \A y \in T : Max(T) >= y
  BY <1>5 DEF Max
<1> QED
  BY <1>6

-----------------------------------------------------------------------------
(* Rows.                                                                     *)

\* Whatever the index, the selection is on a row, and on one that can be entered if
\* there is any.
LEMMA ClampIs ==
  ASSUME NEW S, NEW rs \in Seq(S), rs # <<>>, NEW i \in Nat
  PROVE  /\ Clamp(i, rs) \in DOMAIN rs
         /\ (\E j \in DOMAIN rs : ~Inert(rs[j])) => ~Inert(rs[Clamp(i, rs)])
         /\ i \in DOMAIN rs /\ ~Inert(rs[i]) => Clamp(i, rs) = i
<1> DEFINE N == Len(rs)
           low == IF i < 1 THEN 1 ELSE IF i > N THEN N ELSE i
           D == {j \in low..N : j = N \/ ~Inert(rs[j])}
           down == Min(D)
           U == {j \in 1..down : j = 1 \/ ~Inert(rs[j])}
           up == Max(U)
<1>1. N \in Nat /\ N >= 1 /\ DOMAIN rs = 1..N
  BY LenProperties, EmptySeq
<1>2. Clamp(i, rs) = up
  BY DEF Clamp
<1> HIDE DEF N
<1>3. low \in 1..N /\ (i \in 1..N => low = i)
  BY <1>1
<1> HIDE DEF low
<1>4. D \subseteq Nat /\ N \in D
  BY <1>1, <1>3
<1>5. down \in D /\ \A j \in D : down <= j
  BY <1>4, MinIs
<1> HIDE DEF down
<1>6. down \in 1..N /\ down \in Nat
  BY <1>1, <1>3, <1>5
<1>7. U \subseteq 0..down /\ 1 \in U
  BY <1>6
<1>8. up \in U /\ \A j \in U : j <= up
  BY <1>6, <1>7, MaxIs
<1> HIDE DEF up
<1>9. up \in 1..N
  BY <1>1, <1>6, <1>8
<1>10. ASSUME NEW k \in 1..N, ~Inert(rs[k]) PROVE ~Inert(rs[up])
  <2>1. CASE ~Inert(rs[down])
    <3>1. down \in U
      BY <1>6, <2>1
    <3>2. down <= up
      BY <1>8, <3>1
    <3> QED
      BY <1>6, <1>8, <2>1, <3>2
  <2>2. CASE Inert(rs[down])
    <3>1. down = N
      BY <1>5, <2>2
    <3>2. k \in U
      BY <1>1, <1>10, <3>1
    <3>3. up = 1 => k = 1
      BY <1>1, <1>8, <3>2
    <3> QED
      BY <1>8, <1>10, <3>3
  <2> QED
    BY <2>1, <2>2
<1>11. ASSUME i \in 1..N, ~Inert(rs[i]) PROVE up = i
  <2>1. i \in D
    BY <1>1, <1>3, <1>11
  <2>2. down = i
    BY <1>1, <1>3, <1>5, <1>11, <2>1
  <2>3. i \in U
    BY <1>11, <2>2
  <2> QED
    BY <1>8, <1>9, <1>11, <2>2, <2>3
<1> QED
  BY <1>1, <1>2, <1>9, <1>10, <1>11

\* The elements of a sequence.
LEMMA RangeIs ==
  ASSUME NEW S, NEW q \in Seq(S)
  PROVE  /\ Range(q) \subseteq S /\ Range(q) = {q[i] : i \in 1..Len(q)}
         /\ q # <<>> => Range(q) # {}
BY ElementOfSeq, LenProperties, EmptySeq DEF Range

\* Those of two, one after the other.
LEMMA RangeOfBoth ==
  ASSUME NEW S, NEW p \in Seq(S), NEW q \in Seq(S)
  PROVE  p \o q \in Seq(S) /\ Range(p \o q) = Range(p) \union Range(q)
<1>1. /\ p \o q \in Seq(S) /\ Len(p) \in Nat /\ Len(q) \in Nat
      /\ Len(p \o q) = Len(p) + Len(q)
      /\ \A i \in 1..(Len(p) + Len(q)) :
           (p \o q)[i] = IF i <= Len(p) THEN p[i] ELSE q[i - Len(p)]
  BY ConcatProperties, LenProperties
<1>2. /\ Range(p \o q) = {(p \o q)[i] : i \in 1..(Len(p) + Len(q))}
      /\ Range(p) = {p[i] : i \in 1..Len(p)} /\ Range(q) = {q[i] : i \in 1..Len(q)}
  BY <1>1, RangeIs
<1>3. PICK m \in Nat, n \in Nat : m = Len(p) /\ n = Len(q)
  BY <1>1
<1>4. PICK b : b = p \o q
  OBVIOUS
<1>5. ASSUME NEW i \in 1..(m + n) PROVE b[i] \in Range(p) \union Range(q)
  BY <1>1, <1>2, <1>3, <1>4
<1>6. ASSUME NEW i \in 1..m PROVE i \in 1..(m + n) /\ b[i] = p[i]
  BY <1>1, <1>3, <1>4
<1>7. ASSUME NEW i \in 1..n PROVE i + m \in 1..(m + n) /\ b[i + m] = q[i]
  BY <1>1, <1>3, <1>4
<1>8. Range(b) = {b[i] : i \in 1..(m + n)}
  BY <1>2, <1>3, <1>4
<1>9. Range(p) = {p[i] : i \in 1..m} /\ Range(q) = {q[i] : i \in 1..n}
  BY <1>2, <1>3
<1>10. Range(b) \subseteq Range(p) \union Range(q)
  BY <1>5, <1>8
<1>11. Range(p) \subseteq Range(b)
  BY <1>6, <1>8, <1>9
<1>12. Range(q) \subseteq Range(b)
  BY <1>7, <1>8, <1>9
<1> QED
  BY <1>1, <1>4, <1>10, <1>11, <1>12

-----------------------------------------------------------------------------
(* Sequences of sequences.                                                   *)

\* The equation that defines a flattened sequence has a solution.
LEMMA FlattenDef ==
  ASSUME NEW q, NEW N \in Nat, N = Len(q), N >= 1
  PROVE  \E f : /\ f = [i \in 1..N |-> IF i = 1 THEN q[1] ELSE f[i - 1] \o q[i]]
                /\ FlattenSeq(q) = f[N]
<1> DEFINE Solves(f, n) == f = [i \in 1..n |-> IF i = 1 THEN q[i] ELSE f[i - 1] \o q[i]]
           P == {n \in 0..N : n = 0 \/ \E f : Solves(f, n)}
<1>1. 0 \in P
  OBVIOUS
<1>2. ASSUME NEW n \in 0..N, n < N, n \in P PROVE n + 1 \in P
  <2>1. PICK f : n = 0 \/ Solves(f, n)
    BY <1>2
  <2> DEFINE g == [i \in 1..(n + 1) |-> IF i = 1 THEN q[i] ELSE f[i - 1] \o q[i]]
  <2>2. ASSUME NEW i \in 1..(n + 1), i # 1 PROVE g[i - 1] = f[i - 1]
    <3>1. i - 1 \in 1..n /\ i - 1 \in 1..(n + 1) /\ n # 0
      BY <2>2
    <3>2. f[i - 1] = IF i - 1 = 1 THEN q[i - 1] ELSE f[(i - 1) - 1] \o q[i - 1]
      BY <2>1, <3>1
    <3> QED
      BY <3>1, <3>2
  <2>3. Solves(g, n + 1)
    BY <2>2
  <2> HIDE DEF Solves, g
  <2>4. \E h : Solves(h, n + 1)
    BY <2>3
  <2> QED
    BY <1>2, <2>4
<1>3. N \in P
  <2> HIDE DEF P
  <2>1. \A i \in 0..N : i \in P
    BY <1>1, <1>2, UpTo
  <2> QED
    BY <2>1
<1>4. \E f : Solves(f, N)
  <2> HIDE DEF Solves
  <2> QED
    BY <1>3
<1> DEFINE F == CHOOSE f : Solves(f, N)
<1>5. Solves(F, N)
  BY <1>4
<1>6. FlattenSeq(q) = F[N]
  BY DEF FlattenSeq
<1> HIDE DEF F
<1>7. F = [i \in 1..N |-> IF i = 1 THEN q[1] ELSE F[i - 1] \o q[i]]
  BY <1>5
<1> QED
  BY <1>6, <1>7

\* It has what the sequences in it have.
LEMMA FlattenIs ==
  ASSUME NEW S, NEW q \in Seq(Seq(S))
  PROVE  /\ FlattenSeq(q) \in Seq(S)
         /\ \A x : x \in Range(FlattenSeq(q)) <=> \E i \in 1..Len(q) : x \in Range(q[i])
<1>1. PICK N \in Nat : N = Len(q)
  BY LenProperties
<1>2. CASE N = 0
  <2>1. q = <<>> /\ q \in Seq(S)
    BY <1>1, <1>2, EmptySeq
  <2>2. FlattenSeq(q) = q
    BY <1>1, <1>2 DEF FlattenSeq
  <2>3. Range(q) = {} /\ 1..N = {}
    BY <1>2, <2>1 DEF Range
  <2> QED
    BY <1>1, <2>1, <2>2, <2>3
<1>3. CASE N # 0
  <2>1. N >= 1
    BY <1>3
  <2>2. PICK f : /\ f = [i \in 1..N |-> IF i = 1 THEN q[1] ELSE f[i - 1] \o q[i]]
                 /\ FlattenSeq(q) = f[N]
    BY <1>1, <2>1, FlattenDef
  <2>3. \A i \in 1..N : q[i] \in Seq(S)
    BY <1>1, ElementOfSeq
  <2> DEFINE Has(n) == /\ f[n] \in Seq(S)
                       /\ \A x : x \in Range(f[n]) <=> \E i \in 1..n : x \in Range(q[i])
             P == {n \in 0..N : n = 0 \/ Has(n)}
  <2>4. 0 \in P
    OBVIOUS
  <2>5. ASSUME NEW n \in 0..N, n < N, n \in P PROVE n + 1 \in P
    <3>1. CASE n = 0
      <4>1. f[1] = q[1] /\ 1 \in 1..N /\ 1..1 = {1}
        BY <2>1, <2>2
      <4>2. Has(1)
        BY <2>3, <4>1
      <4> HIDE DEF Has
      <4> QED
        BY <2>1, <3>1, <4>2
    <3>2. CASE n # 0
      <4>1. /\ n + 1 \in 1..N /\ n + 1 # 1 /\ (n + 1) - 1 = n /\ n + 1 \in 0..N
            /\ \A i : i \in 1..(n + 1) <=> i \in 1..n \/ i = n + 1
        BY <2>5, <3>2
      <4>2. f[n + 1] = f[n] \o q[n + 1]
        BY <2>2, <4>1
      <4>3. Has(n)
        BY <2>5, <3>2
      <4>4. /\ f[n] \o q[n + 1] \in Seq(S)
            /\ Range(f[n] \o q[n + 1]) = Range(f[n]) \union Range(q[n + 1])
        BY <2>3, <4>1, <4>3, RangeOfBoth
      <4>5. Has(n + 1)
        BY <4>1, <4>2, <4>3, <4>4
      <4> HIDE DEF Has
      <4> QED
        BY <4>1, <4>5
    <3> QED
      BY <3>1, <3>2
  <2>6. N \in P
    <3> HIDE DEF P
    <3>1. \A i \in 0..N : i \in P
      BY <2>4, <2>5, UpTo
    <3> QED
      BY <3>1
  <2>7. Has(N)
    BY <1>3, <2>6
  <2> QED
    BY <1>1, <2>2, <2>7
<1> QED
  BY <1>2, <1>3

-----------------------------------------------------------------------------
(* What is left of a sequence.                                               *)

\* One more element is looked at.
More(r, e, gone) == IF e \in gone THEN r ELSE Append(r, e)

\* The equation that defines what is left has a solution.
LEMMA RestDef ==
  ASSUME NEW q, NEW gone, NEW N \in Nat, N = Len(q)
  PROVE  Rest(q, gone) = [i \in 0..N |->
           IF i = 0 THEN <<>> ELSE More(Rest(q, gone)[i - 1], q[i], gone)]
<1> DEFINE Solves(r, n) == r = [i \in 0..n |-> IF i = 0 THEN <<>> ELSE More(r[i - 1], q[i], gone)]
           P == {n \in 0..N : \E r : Solves(r, n)}
<1>1. 0 \in P
  <2>1. Solves([i \in 0..0 |-> <<>>], 0)
    OBVIOUS
  <2> HIDE DEF Solves
  <2>2. \E r : Solves(r, 0)
    BY <2>1
  <2> QED
    BY <2>2
<1>2. ASSUME NEW n \in 0..N, n < N, n \in P PROVE n + 1 \in P
  <2>1. PICK r : Solves(r, n)
    BY <1>2
  <2> DEFINE u == [i \in 0..(n + 1) |-> IF i = 0 THEN <<>> ELSE More(r[i - 1], q[i], gone)]
  <2>2. ASSUME NEW i \in 0..(n + 1), i # 0 PROVE u[i - 1] = r[i - 1]
    <3>1. i - 1 \in 0..n /\ i - 1 \in 0..(n + 1)
      BY <2>2
    <3>2. r[i - 1] = IF i - 1 = 0 THEN <<>> ELSE More(r[(i - 1) - 1], q[i - 1], gone)
      BY <2>1, <3>1
    <3> QED
      BY <3>1, <3>2
  <2>3. Solves(u, n + 1)
    BY <2>2
  <2> HIDE DEF Solves, u
  <2>4. \E r2 : Solves(r2, n + 1)
    BY <2>3
  <2> QED
    BY <1>2, <2>4
<1>3. N \in P
  <2> HIDE DEF P
  <2>1. \A i \in 0..N : i \in P
    BY <1>1, <1>2, UpTo
  <2> QED
    BY <2>1
<1>4. \E r : Solves(r, N)
  BY <1>3
<1> QED
  BY <1>4 DEF Rest, More

\* It is a sequence of the same elements.
LEMMA WithoutType ==
  ASSUME NEW S, NEW q \in Seq(S), NEW gone
  PROVE  Without(q, gone) \in Seq(S)
<1>1. PICK N \in Nat : N = Len(q)
  BY LenProperties
<1>2. PICK r : r = Rest(q, gone)
  OBVIOUS
<1>3. r[0] = <<>> /\ \A i \in 1..N : r[i] = More(r[i - 1], q[i], gone)
  <2>1. r = [i \in 0..N |-> IF i = 0 THEN <<>> ELSE More(r[i - 1], q[i], gone)]
    BY <1>1, <1>2, RestDef
  <2> QED
    BY <2>1
<1> DEFINE P == {i \in 0..N : r[i] \in Seq(S)}
<1>4. 0 \in P
  <2>1. <<>> \in Seq(S) /\ 0 \in 0..N
    OBVIOUS
  <2>2. r[0] = <<>>
    BY <1>3
  <2> QED
    BY <2>1, <2>2
<1>5. ASSUME NEW i \in 0..N, i < N, i \in P PROVE i + 1 \in P
  <2>1. i + 1 \in 1..N /\ (i + 1) - 1 = i /\ i + 1 \in 0..N
    BY <1>5
  <2>2. r[i + 1] = More(r[i], q[i + 1], gone)
    BY <1>3, <2>1
  <2>3. q[i + 1] \in S
    BY <1>1, <2>1, ElementOfSeq
  <2>4. More(r[i], q[i + 1], gone) \in Seq(S)
    BY <1>5, <2>3, AppendProperties DEF More
  <2> QED
    BY <2>1, <2>2, <2>4
<1>6. \A i \in 0..N : i \in P
  <2> HIDE DEF P
  <2> QED
    BY <1>4, <1>5, UpTo
<1> QED
  BY <1>1, <1>2, <1>6 DEF Without

-----------------------------------------------------------------------------
(* What is drawn.                                                            *)

Kinds == {"head", "field", "create", "gap", "session", "cont", "agap", "agent", "acont", "found"}
Rows == [kind : Kinds, id : Sessions \union Agents \union {Nobody}]

\* A row is a heading, or of a session of ss, or of an agent of as.
IsOf(r, ss, as) ==
  \/ r.kind \in {"head", "field", "create"} /\ r.id = Nobody
  \/ r.kind \in {"gap", "session", "cont"} /\ r.id \in ss
  \/ r.kind \in {"agap", "agent", "acont"} /\ r.id \in as

\* A row is a row.
LEMMA RowIs ==
  ASSUME NEW k \in Kinds, NEW x \in Sessions \union Agents \union {Nobody}
  PROVE  Row(k, x) \in Rows /\ Row(k, x).kind = k /\ Row(k, x).id = x
BY DEF Row, Rows

\* The card of a session has its row and is all its own.
LEMMA SessionCardIs ==
  ASSUME NEW x \in Sessions
  PROVE  /\ SessionCard(x) \in Seq(Rows)
         /\ Row("session", x) \in Range(SessionCard(x))
         /\ \A r \in Range(SessionCard(x)) : r.kind \in {"gap", "session", "cont"} /\ r.id = x
<1>1. PICK a \in Rows, b \in Rows, c \in Rows :
        /\ a = Row("gap", x) /\ b = Row("session", x) /\ c = Row("cont", x)
        /\ a.kind = "gap" /\ b.kind = "session" /\ c.kind = "cont"
        /\ a.id = x /\ b.id = x /\ c.id = x
  <2>1. Row("gap", x) \in Rows /\ Row("gap", x).kind = "gap" /\ Row("gap", x).id = x
    BY RowIs DEF Kinds
  <2>2. Row("session", x) \in Rows /\ Row("session", x).kind = "session" /\ Row("session", x).id = x
    BY RowIs DEF Kinds
  <2>3. Row("cont", x) \in Rows /\ Row("cont", x).kind = "cont" /\ Row("cont", x).id = x
    BY RowIs DEF Kinds
  <2> QED
    BY <2>1, <2>2, <2>3
<1>2. <<a, b>> \in Seq(Rows) /\ <<c>> \in Seq(Rows) /\ <<>> \in Seq(Rows)
  OBVIOUS
<1>3. Range(<<a, b>>) = {a, b} /\ Range(<<c>>) = {c} /\ Range(<<>>) = {}
  BY DEF Range
<1>4. PICK e \in {<<c>>, <<>>} : SessionCard(x) = <<a, b>> \o e
  BY <1>1 DEF SessionCard
<1>5. e \in Seq(Rows) /\ Range(e) \subseteq {c}
  BY <1>2, <1>3
<1>6. <<a, b>> \o e \in Seq(Rows) /\ Range(<<a, b>> \o e) = Range(<<a, b>>) \union Range(e)
  <2>1. PICK p \in Seq(Rows), o \in Seq(Rows) : p = <<a, b>> /\ o = e
    BY <1>2, <1>5
  <2>2. p \o o \in Seq(Rows) /\ Range(p \o o) = Range(p) \union Range(o)
    BY RangeOfBoth
  <2> QED
    BY <2>1, <2>2
<1>7. Range(SessionCard(x)) \subseteq {a, b, c} /\ b \in Range(SessionCard(x))
  BY <1>3, <1>4, <1>5, <1>6
<1> QED
  BY <1>1, <1>4, <1>6, <1>7

\* So is the card of an agent.
LEMMA AgentCardIs ==
  ASSUME NEW x \in Agents
  PROVE  /\ AgentCard(x) \in Seq(Rows)
         /\ Row("agent", x) \in Range(AgentCard(x))
         /\ \A r \in Range(AgentCard(x)) : r.kind \in {"agap", "agent", "acont"} /\ r.id = x
<1>1. PICK a \in Rows, b \in Rows, c \in Rows :
        /\ a = Row("agap", x) /\ b = Row("agent", x) /\ c = Row("acont", x)
        /\ a.kind = "agap" /\ b.kind = "agent" /\ c.kind = "acont"
        /\ a.id = x /\ b.id = x /\ c.id = x
  <2>1. Row("agap", x) \in Rows /\ Row("agap", x).kind = "agap" /\ Row("agap", x).id = x
    BY RowIs DEF Kinds
  <2>2. Row("agent", x) \in Rows /\ Row("agent", x).kind = "agent" /\ Row("agent", x).id = x
    BY RowIs DEF Kinds
  <2>3. Row("acont", x) \in Rows /\ Row("acont", x).kind = "acont" /\ Row("acont", x).id = x
    BY RowIs DEF Kinds
  <2> QED
    BY <2>1, <2>2, <2>3
<1>2. <<a, b, c>> \in Seq(Rows)
  OBVIOUS
<1>3. Range(<<a, b, c>>) = {a, b, c}
  BY DEF Range
<1>4. AgentCard(x) = <<a, b, c>>
  BY <1>1 DEF AgentCard
<1> QED
  BY <1>1, <1>2, <1>3, <1>4

\* The list without a query has the row of every session and agent and no others'.
LEMMA TreeIs ==
  ASSUME NEW ss \in Seq(Sessions), NEW as \in Seq(Agents), NEW creating \in BOOLEAN
  PROVE  /\ Tree(ss, as, creating) \in Seq(Rows) /\ Tree(ss, as, creating) # <<>>
         /\ \A r \in Range(Tree(ss, as, creating)) : IsOf(r, Range(ss), Range(as))
         /\ \A x \in Range(ss) : Row("session", x) \in Range(Tree(ss, as, creating))
         /\ \A x \in Range(as) : Row("agent", x) \in Range(Tree(ss, as, creating))
<1> DEFINE sc == [i \in DOMAIN ss |-> SessionCard(ss[i])]
           ac == [i \in DOMAIN as |-> AgentCard(as[i])]
<1>1. PICK m \in Nat, n \in Nat : m = Len(ss) /\ n = Len(as) /\ DOMAIN ss = 1..m /\ DOMAIN as = 1..n
  BY LenProperties
<1>2. /\ \A i \in 1..m : ss[i] \in Sessions /\ ss[i] \in Range(ss)
      /\ \A i \in 1..n : as[i] \in Agents /\ as[i] \in Range(as)
  BY <1>1, ElementOfSeq DEF Range
<1>3. PICK sq : sq = sc
  OBVIOUS
<1>4. PICK aq : aq = ac
  OBVIOUS
<1>5. /\ sq \in [1..m -> Seq(Rows)] /\ aq \in [1..n -> Seq(Rows)]
      /\ \A i \in 1..m : sq[i] = SessionCard(ss[i])
      /\ \A i \in 1..n : aq[i] = AgentCard(as[i])
  <2>1. \A i \in 1..m : SessionCard(ss[i]) \in Seq(Rows)
    BY <1>2, SessionCardIs
  <2>2. \A i \in 1..n : AgentCard(as[i]) \in Seq(Rows)
    BY <1>2, AgentCardIs
  <2> QED
    BY <1>1, <1>3, <1>4, <2>1, <2>2
<1> HIDE DEF sc, ac
<1>6. /\ sq \in Seq(Seq(Rows)) /\ aq \in Seq(Seq(Rows)) /\ Len(sq) = m /\ Len(aq) = n
  <2>1. sq \in Seq(Seq(Rows)) /\ aq \in Seq(Seq(Rows))
    BY <1>5, SeqDef
  <2>2. DOMAIN sq = 1..m /\ DOMAIN aq = 1..n
    BY <1>5
  <2> QED
    BY <2>1, <2>2, LenProperties
<1>7. PICK fs \in Seq(Rows) : /\ fs = FlattenSeq(sq)
                              /\ \A x : x \in Range(fs) <=> \E i \in 1..m : x \in Range(sq[i])
  BY <1>6, FlattenIs
<1>8. PICK fa \in Seq(Rows) : /\ fa = FlattenSeq(aq)
                              /\ \A x : x \in Range(fa) <=> \E i \in 1..n : x \in Range(aq[i])
  BY <1>6, FlattenIs
<1>9. PICK h \in Rows, c \in Rows : /\ h = Row("head", Nobody) /\ c = Row("create", Nobody)
                                    /\ h.kind = "head" /\ c.kind = "create"
                                    /\ h.id = Nobody /\ c.id = Nobody
  <2>1. Row("head", Nobody) \in Rows /\ Row("head", Nobody).kind = "head" /\ Row("head", Nobody).id = Nobody
    BY RowIs DEF Kinds
  <2>2. Row("create", Nobody) \in Rows /\ Row("create", Nobody).kind = "create" /\ Row("create", Nobody).id = Nobody
    BY RowIs DEF Kinds
  <2> QED
    BY <2>1, <2>2
<1>10. PICK e \in {<<c>>, <<>>} : Tree(ss, as, creating) = ((<<h>> \o e) \o fs) \o fa
  BY <1>3, <1>4, <1>7, <1>8, <1>9 DEF Tree, sc, ac
<1>11. PICK o \in Seq(Rows), u \in Seq(Rows) :
         o = <<h>> /\ u = e /\ Range(o) = {h} /\ Range(u) \subseteq {c}
  <2>1. <<h>> \in Seq(Rows) /\ <<c>> \in Seq(Rows) /\ <<>> \in Seq(Rows)
    OBVIOUS
  <2>2. Range(<<h>>) = {h}
    BY DEF Range
  <2>3. Range(<<c>>) = {c}
    BY DEF Range
  <2>4. Range(<<>>) = {}
    BY DEF Range
  <2>5. e \in Seq(Rows) /\ Range(e) \subseteq {c}
    BY <2>1, <2>3, <2>4
  <2> QED
    BY <2>1, <2>2, <2>5
<1>12. PICK t1 \in Seq(Rows) : t1 = <<h>> \o e /\ Range(t1) = {h} \union Range(u)
  <2>1. o \o u \in Seq(Rows) /\ Range(o \o u) = Range(o) \union Range(u)
    BY RangeOfBoth
  <2> QED
    BY <1>11, <2>1
<1>13. PICK t2 \in Seq(Rows) : t2 = t1 \o fs /\ Range(t2) = Range(t1) \union Range(fs)
  <2>1. t1 \o fs \in Seq(Rows) /\ Range(t1 \o fs) = Range(t1) \union Range(fs)
    BY RangeOfBoth
  <2> QED
    BY <2>1
<1>14. PICK t \in Seq(Rows) : t = t2 \o fa /\ Range(t) = Range(t2) \union Range(fa)
  <2>1. t2 \o fa \in Seq(Rows) /\ Range(t2 \o fa) = Range(t2) \union Range(fa)
    BY RangeOfBoth
  <2> QED
    BY <2>1
<1>15. Tree(ss, as, creating) = t
  BY <1>10, <1>12, <1>13, <1>14
<1>16. h \in Range(t)
  BY <1>12, <1>13, <1>14
<1>17. t # <<>>
  BY <1>16 DEF Range
<1>18. ASSUME NEW r \in Range(t) PROVE IsOf(r, Range(ss), Range(as))
  <2>1. CASE r \in {h, c}
    BY <1>9, <2>1 DEF IsOf
  <2>2. CASE r \in Range(fs)
    <3>1. PICK i \in 1..m : r \in Range(sq[i])
      BY <1>7, <2>2
    <3>2. r.kind \in {"gap", "session", "cont"} /\ r.id = ss[i]
      BY <1>2, <1>5, <3>1, SessionCardIs
    <3> QED
      BY <1>2, <3>2 DEF IsOf
  <2>3. CASE r \in Range(fa)
    <3>1. PICK i \in 1..n : r \in Range(aq[i])
      BY <1>8, <2>3
    <3>2. r.kind \in {"agap", "agent", "acont"} /\ r.id = as[i]
      BY <1>2, <1>5, <3>1, AgentCardIs
    <3> QED
      BY <1>2, <3>2 DEF IsOf
  <2> QED
    BY <1>11, <1>12, <1>13, <1>14, <2>1, <2>2, <2>3
<1>19. ASSUME NEW x \in Range(ss) PROVE Row("session", x) \in Range(t)
  <2>1. PICK i \in 1..m : x = ss[i]
    BY <1>1 DEF Range
  <2>2. Row("session", x) \in Range(sq[i])
    BY <1>2, <1>5, <2>1, SessionCardIs
  <2> QED
    BY <1>7, <1>13, <1>14, <2>2
<1>20. ASSUME NEW x \in Range(as) PROVE Row("agent", x) \in Range(t)
  <2>1. PICK i \in 1..n : x = as[i]
    BY <1>1 DEF Range
  <2>2. as[i] \in Agents /\ aq[i] = AgentCard(as[i])
    BY <1>2, <1>5
  <2>3. Row("agent", x) \in Range(aq[i])
    BY <2>1, <2>2, AgentCardIs
  <2> QED
    BY <1>8, <1>14, <2>3
<1> QED
  BY <1>15, <1>17, <1>18, <1>19, <1>20

\* The finder lists what it has found, below a heading and its field.
LEMMA FindsIs ==
  ASSUME NEW f \in Seq(Sessions \union Agents)
  PROVE  /\ Finds(f) \in Seq(Rows) /\ Finds(f) # <<>> /\ Len(Finds(f)) = Len(f) + 2
         /\ Inert(Finds(f)[1]) /\ Inert(Finds(f)[2])
         /\ Finds(f)[1] = Row("head", Nobody) /\ Finds(f)[2] = Row("field", Nobody)
         /\ \A i \in 1..Len(f) : Finds(f)[i + 2] = FoundRow(f[i])
<1>1. PICK n \in Nat : n = Len(f) /\ DOMAIN f = 1..n
  BY LenProperties
<1>2. \A i \in 1..n : f[i] \in Sessions \union Agents
  BY <1>1, ElementOfSeq
<1>3. \A x \in Sessions \union Agents : FoundRow(x) \in Rows
  BY DEF FoundRow, Row, Rows, Kinds
<1>4. PICK q : q = [i \in DOMAIN f |-> FoundRow(f[i])]
  OBVIOUS
<1>5. q \in [1..n -> Rows] /\ \A i \in 1..n : q[i] = FoundRow(f[i])
  BY <1>1, <1>2, <1>3, <1>4
<1>6. q \in Seq(Rows)
  BY <1>5, SeqDef
<1>7. DOMAIN q = 1..n
  BY <1>5
<1>8. Len(q) = n
  BY <1>6, <1>7, LenProperties
<1>9. PICK h \in Rows, k \in Rows : /\ h = Row("head", Nobody) /\ k = Row("field", Nobody)
                                    /\ h.kind = "head" /\ k.kind = "field"
  <2>1. Row("head", Nobody) \in Rows /\ Row("head", Nobody).kind = "head" /\ Row("head", Nobody).id = Nobody
    BY RowIs DEF Kinds
  <2>2. Row("field", Nobody) \in Rows /\ Row("field", Nobody).kind = "field" /\ Row("field", Nobody).id = Nobody
    BY RowIs DEF Kinds
  <2> QED
    BY <2>1, <2>2
<1>10. PICK p \in Seq(Rows) : p = <<h, k>> /\ Len(p) = 2 /\ p[1] = h /\ p[2] = k
  <2>1. <<h, k>> \in Seq(Rows) /\ Len(<<h, k>>) = 2 /\ <<h, k>>[1] = h /\ <<h, k>>[2] = k
    OBVIOUS
  <2> QED
    BY <2>1
<1>11. Finds(f) = p \o q
  BY <1>4, <1>9, <1>10 DEF Finds
<1>12. PICK t \in Seq(Rows) : /\ t = p \o q /\ Len(t) = 2 + n
                              /\ \A i \in 1..(2 + n) : t[i] = IF i <= 2 THEN p[i] ELSE q[i - 2]
  <2>1. /\ p \o q \in Seq(Rows) /\ Len(p \o q) = Len(p) + Len(q)
        /\ \A i \in 1..(Len(p) + Len(q)) :
             (p \o q)[i] = IF i <= Len(p) THEN p[i] ELSE q[i - Len(p)]
    BY <1>6, ConcatProperties
  <2> QED
    BY <1>8, <1>10, <2>1
<1>13. t[1] = h /\ t[2] = k /\ t # <<>>
  <2>1. 1 \in 1..(2 + n) /\ 2 \in 1..(2 + n) /\ 2 + n # 0
    OBVIOUS
  <2> QED
    BY <1>10, <1>12, <2>1, EmptySeq
<1>14. \A i \in 1..n : t[i + 2] = q[i]
  <2>1. \A i \in 1..n : i + 2 \in 1..(2 + n) /\ ~(i + 2 <= 2) /\ (i + 2) - 2 = i
    OBVIOUS
  <2> QED
    BY <1>12, <2>1
<1>15. Inert(h) /\ Inert(k)
  BY <1>9 DEF Inert
<1>16. Finds(f) = t /\ Len(t) = n + 2
  BY <1>11, <1>12
<1> QED
  BY <1>1, <1>5, <1>9, <1>13, <1>14, <1>15, <1>16

\* What is on the screen.
Shown(on, f, ss, as, what) == IF on THEN Finds(f) ELSE Tree(ss, as, what = "create")

\* Whatever is shown, each row is a heading or of a session or of an agent, and a row
\* that can be entered says of which in one way only.
LEMMA ShownIs ==
  ASSUME NEW on \in BOOLEAN, NEW f \in Seq(Sessions \union Agents),
         NEW ss \in Seq(Sessions), NEW as \in Seq(Agents), NEW what
  PROVE  /\ Shown(on, f, ss, as, what) \in Seq(Rows) /\ Shown(on, f, ss, as, what) # <<>>
         /\ \A r \in Range(Shown(on, f, ss, as, what)) :
              \/ IsOf(r, Sessions, Agents) /\ (on => r.kind \notin {"agap", "agent", "acont"})
              \/ on /\ r.kind = "found" /\ r.id \in Agents
<1>1. CASE on
  <2>1. PICK t \in Seq(Rows) : t = Finds(f)
    BY FindsIs
  <2>2. PICK n \in Nat : n = Len(f)
    BY LenProperties
  <2>3. /\ t # <<>> /\ Len(t) = n + 2 /\ t[1] = Row("head", Nobody) /\ t[2] = Row("field", Nobody)
        /\ \A i \in 1..n : t[i + 2] = FoundRow(f[i])
    BY <2>1, <2>2, FindsIs
  <2>4. ASSUME NEW r \in Range(t)
        PROVE  \/ IsOf(r, Sessions, Agents) /\ r.kind \notin {"agap", "agent", "acont"}
               \/ r.kind = "found" /\ r.id \in Agents
    <3>1. PICK i \in 1..(n + 2) : r = t[i]
      BY <2>3, RangeIs
    <3>2. CASE i = 1
      <4>1. r = Row("head", Nobody)
        BY <2>3, <3>1, <3>2
      <4> QED
        BY <4>1 DEF Row, IsOf
    <3>3. CASE i = 2
      <4>1. r = Row("field", Nobody)
        BY <2>3, <3>1, <3>3
      <4> QED
        BY <4>1 DEF Row, IsOf
    <3>4. CASE i > 2
      <4>1. i - 2 \in 1..n /\ (i - 2) + 2 = i
        BY <3>4
      <4>2. r = FoundRow(f[i - 2]) /\ f[i - 2] \in Sessions \union Agents
        BY <2>2, <2>3, <3>1, <4>1, ElementOfSeq
      <4>3. CASE f[i - 2] \in Sessions
        BY <4>2, <4>3 DEF FoundRow, Row, IsOf
      <4>4. CASE f[i - 2] \notin Sessions
        BY <4>2, <4>4 DEF FoundRow, Row
      <4> QED
        BY <4>3, <4>4
    <3> QED
      BY <3>2, <3>3, <3>4
  <2> QED
    BY <1>1, <2>1, <2>3, <2>4 DEF Shown
<1>2. CASE ~on
  <2>1. PICK t \in Seq(Rows) : t = Tree(ss, as, what = "create")
    BY TreeIs
  <2>2. t # <<>> /\ \A r \in Range(t) : IsOf(r, Range(ss), Range(as))
    BY <2>1, TreeIs
  <2>3. Range(ss) \subseteq Sessions /\ Range(as) \subseteq Agents
    BY RangeIs
  <2>4. \A r \in Range(t) : IsOf(r, Sessions, Agents)
    BY <2>2, <2>3 DEF IsOf
  <2> QED
    BY <1>2, <2>1, <2>2, <2>4 DEF Shown
<1> QED
  BY <1>1, <1>2

-----------------------------------------------------------------------------
(* Where the selection is put.                                               *)

\* An index is on a row, and on one that can be entered if there is any.
Placed(rs, i) ==
  /\ i \in DOMAIN rs
  /\ (\E j \in DOMAIN rs : ~Inert(rs[j])) => ~Inert(rs[i])

\* A row that has been there before is found again.
LEMMA RefindIs ==
  ASSUME NEW rs \in Seq(Rows), rs # <<>>, NEW i \in Nat, NEW p
  PROVE  /\ Placed(rs, Refind(p, i, rs))
         /\ (\E j \in DOMAIN rs : Same(p, rs[j])) => Same(p, rs[Refind(p, i, rs)])
<1> DEFINE same == {j \in DOMAIN rs : Same(p, rs[j])}
<1>1. Refind(p, i, rs) = Clamp(IF same = {} THEN i ELSE Min(same), rs)
  BY DEF Refind, Where
<1>2. CASE same = {}
  <2>1. Refind(p, i, rs) = Clamp(i, rs)
    BY <1>1, <1>2
  <2> QED
    BY <1>2, <2>1, ClampIs DEF Placed
<1>3. CASE same # {}
  <2>1. same \subseteq Nat
    BY LenProperties
  <2>2. Min(same) \in same
    BY <1>3, <2>1, MinIs
  <2>3. PICK k \in Nat : k = Min(same)
    BY <2>1, <2>2
  <2>4. k \in DOMAIN rs /\ Same(p, rs[k]) /\ ~Inert(rs[k])
    BY <2>2, <2>3 DEF Same, Inert
  <2>5. Clamp(k, rs) = k
    BY <2>4, ClampIs
  <2> QED
    BY <1>1, <1>3, <2>3, <2>4, <2>5 DEF Placed
<1> QED
  BY <1>2, <1>3

\* A step up or down is to a row that can be entered, or none at all.
LEMMA SteppedIs ==
  ASSUME NEW rs \in Seq(Rows), NEW i, Placed(rs, i), NEW up \in BOOLEAN
  PROVE  Placed(rs, Stepped(rs, i, up)) /\ Stepped(rs, i, up) \in Nat
<1> DEFINE on == {j \in DOMAIN rs : ~Inert(rs[j])}
           ahead == {j \in on : IF up THEN j < i ELSE j > i}
<1>1. Stepped(rs, i, up) = IF ahead = {} THEN i ELSE IF up THEN Max(ahead) ELSE Min(ahead)
  BY DEF Stepped, Where
<1>2. PICK n \in Nat : DOMAIN rs = 1..n
  BY LenProperties
<1>3. ahead \subseteq 0..n /\ ahead \subseteq Nat
  BY <1>2
<1>4. ahead # {} => Max(ahead) \in ahead /\ Min(ahead) \in ahead
  BY <1>3, MinIs, MaxIs
<1>5. Stepped(rs, i, up) \in ahead \union {i}
  BY <1>1, <1>4
<1> QED
  BY <1>2, <1>5 DEF Placed

\* The first row that can be entered is the one below the two headings.
LEMMA ClampTop ==
  ASSUME NEW rs \in Seq(Rows), NEW n \in Nat, Len(rs) = n + 2, Inert(rs[1]), Inert(rs[2]),
         n > 0 => ~Inert(rs[3])
  PROVE  Clamp(1, rs) = IF n > 0 THEN 3 ELSE 1
<1> DEFINE D == {j \in 1..(n + 2) : j = n + 2 \/ ~Inert(rs[j])}
           down == Min(D)
           U == {j \in 1..down : j = 1 \/ ~Inert(rs[j])}
<1>1. Clamp(1, rs) = Max(U)
  <2> DEFINE low == IF 1 < 1 THEN 1 ELSE IF 1 > Len(rs) THEN Len(rs) ELSE 1
             E == {j \in low..Len(rs) : j = Len(rs) \/ ~Inert(rs[j])}
  <2>1. Clamp(1, rs) = Max({j \in 1..Min(E) : j = 1 \/ ~Inert(rs[j])})
    BY DEF Clamp
  <2>2. low = 1
    OBVIOUS
  <2> HIDE DEF low
  <2>3. E = D
    BY <2>2
  <2> HIDE DEF E, D
  <2> QED
    BY <2>1, <2>3
<1>2. D \subseteq Nat /\ n + 2 \in D
  OBVIOUS
<1>3. down \in D /\ \A j \in D : down <= j
  BY <1>2, MinIs
<1>4. PICK d \in 1..(n + 2) : d = down
  BY <1>3
<1> HIDE DEF down
<1>5. d \in Nat /\ U \subseteq 0..d /\ 1 \in U
  BY <1>4
<1>6. Max(U) \in U /\ \A j \in U : j <= Max(U)
  BY <1>5, MaxIs
<1>7. CASE n > 0
  <2>1. 3 \in D /\ 1 \notin D /\ 2 \notin D
    BY <1>7
  <2>2. d = 3
    BY <1>3, <1>4, <2>1
  <2>3. 3 \in U
    BY <1>4, <1>7, <2>2
  <2>4. Max(U) \in 1..3 /\ 3 <= Max(U)
    BY <1>4, <1>6, <2>2, <2>3
  <2> QED
    BY <1>1, <1>7, <2>4
<1>8. CASE ~(n > 0)
  <2>1. n = 0 /\ d \in 1..2
    BY <1>8
  <2>2. U = {1}
    BY <1>4, <1>5, <2>1
  <2> QED
    BY <1>1, <1>6, <1>8, <2>2
<1> QED
  BY <1>7, <1>8

-----------------------------------------------------------------------------
(* What the finder finds.                                                    *)

\* A set in some order, without repetition.
LEMMA OrderedIs ==
  ASSUME NEW T, NEW S, S \subseteq T, IsFiniteSet(S), NEW f \in SetToSeqs(S)
  PROVE  f \in Seq(T) /\ (f = <<>> <=> S = {})
<1>1. PICK n \in Nat : n = Cardinality(S)
  BY FS_CardinalityType
<1>2. f \in [1..n -> S]
  BY <1>1 DEF SetToSeqs
<1>3. f \in [1..n -> T]
  BY <1>2
<1>4. f \in Seq(T) /\ DOMAIN f = 1..n
  BY <1>3, SeqDef
<1>5. Len(f) = n
  BY <1>4, LenProperties
<1>6. f = <<>> <=> n = 0
  BY <1>4, <1>5, EmptySeq
<1>7. S = {} <=> n = 0
  BY <1>1, FS_EmptySet
<1> QED
  BY <1>4, <1>6, <1>7

\* The elements of a sequence of agents are finitely many, as agents are.
LEMMA RangeFinite ==
  ASSUME NEW T, IsFiniteSet(T), NEW q \in Seq(T)
  PROVE  IsFiniteSet(Range(q)) /\ Range(q) \subseteq T /\ (Range(q) = {} <=> q = <<>>)
<1>1. Range(q) \subseteq T
  BY RangeIs
<1>2. IsFiniteSet(Range(q))
  BY <1>1, FS_Subset
<1>3. q # <<>> => Range(q) # {}
  BY RangeIs
<1>4. q = <<>> => Range(q) = {}
  BY DEF Range
<1> QED
  BY <1>1, <1>2, <1>3, <1>4

\* Every row below the headings of the finder can be entered.
LEMMA FoundRows ==
  ASSUME NEW x PROVE ~Inert(FoundRow(x)) /\ (x \notin Sessions => FoundRow(x).kind = "found")
BY DEF FoundRow, Inert, Row

\* A list of finds with nothing typed: the selection is on a row that can be entered
\* if there is any, however agents that tie are sorted.
LEMMA OpenedIs ==
  ASSUME NEW ss \in Seq(Sessions), NEW as \in Seq(Agents),
         NEW some \in SetToSeqs(Range(as))
  PROVE  /\ ss \o some \in Seq(Sessions \union Agents)
         /\ Placed(Finds(ss \o some), Opened(ss, as))
         /\ Opened(ss, as) \in Nat
<1> DEFINE T == Sessions \union Agents
<1>1. IsFiniteSet(Agents) /\ Sessions \cap Agents = {}
  BY IdsAssumption
<1>2. IsFiniteSet(Range(as)) /\ Range(as) \subseteq Agents /\ (Range(as) = {} <=> as = <<>>)
  <2> HIDE DEF T
  <2>2. IsFiniteSet(Range(as))
    BY <1>1, RangeFinite
  <2>3. Range(as) \subseteq Agents
    BY RangeIs
  <2>4. as # <<>> => Range(as) # {}
    BY RangeIs
  <2>5. as = <<>> => Range(as) = {}
    BY DEF Range
  <2> QED
    BY <2>2, <2>3, <2>4, <2>5
<1>3. some \in Seq(Agents) /\ (some = <<>> <=> as = <<>>)
  BY <1>2, OrderedIs
<1>4. ss \in Seq(T) /\ as \in Seq(T) /\ some \in Seq(T)
  <2>1. \A S \in SUBSET T : Seq(S) \subseteq Seq(T)
    BY SeqDef
  <2> QED
    BY <1>3, <2>1
<1>5. PICK m \in Nat, n \in Nat, k \in Nat : m = Len(ss) /\ n = Len(as) /\ k = Len(some)
  BY <1>4, LenProperties
<1>6. k = 0 <=> n = 0
  <2>1. (k = 0 <=> some = <<>>) /\ (n = 0 <=> as = <<>>)
    BY <1>4, <1>5, EmptySeq
  <2> QED
    BY <1>3, <2>1
<1> HIDE DEF T
<1>7. PICK p \in Seq(T) : /\ p = ss \o as /\ Len(p) = m + n
                          /\ \A i \in 1..(m + n) : p[i] = IF i <= m THEN ss[i] ELSE as[i - m]
  <2>1. /\ ss \o as \in Seq(T) /\ Len(ss \o as) = Len(ss) + Len(as)
        /\ \A i \in 1..(Len(ss) + Len(as)) :
             (ss \o as)[i] = IF i <= Len(ss) THEN ss[i] ELSE as[i - Len(ss)]
    BY <1>4, ConcatProperties
  <2> QED
    BY <1>5, <2>1
<1>8. PICK q \in Seq(T) : /\ q = ss \o some /\ Len(q) = m + k
                          /\ \A i \in 1..(m + k) : q[i] = IF i <= m THEN ss[i] ELSE some[i - m]
  <2>1. /\ ss \o some \in Seq(T) /\ Len(ss \o some) = Len(ss) + Len(some)
        /\ \A i \in 1..(Len(ss) + Len(some)) :
             (ss \o some)[i] = IF i <= Len(ss) THEN ss[i] ELSE some[i - Len(ss)]
    BY <1>4, ConcatProperties
  <2> QED
    BY <1>5, <2>1
<1>9. PICK rp \in Seq(Rows) : /\ rp = Finds(ss \o as) /\ rp # <<>> /\ Len(rp) = (m + n) + 2
                              /\ Inert(rp[1]) /\ Inert(rp[2])
                              /\ \A i \in 1..(m + n) : rp[i + 2] = FoundRow(p[i])
                              /\ rp[1].kind = "head" /\ rp[2].kind = "field"
  <2>1. p \in Seq(Sessions \union Agents)
    BY DEF T
  <2>2. /\ Finds(p) \in Seq(Rows) /\ Finds(p) # <<>> /\ Len(Finds(p)) = Len(p) + 2
        /\ Inert(Finds(p)[1]) /\ Inert(Finds(p)[2])
        /\ Finds(p)[1] = Row("head", Nobody) /\ Finds(p)[2] = Row("field", Nobody)
        /\ \A i \in 1..Len(p) : Finds(p)[i + 2] = FoundRow(p[i])
    BY <2>1, FindsIs
  <2>3. Row("head", Nobody).kind = "head" /\ Row("field", Nobody).kind = "field"
    BY DEF Row
  <2> QED
    BY <1>7, <2>2, <2>3
<1>10. PICK rq \in Seq(Rows) : /\ rq = Finds(ss \o some) /\ rq # <<>> /\ Len(rq) = (m + k) + 2
                               /\ Inert(rq[1]) /\ Inert(rq[2])
                               /\ \A i \in 1..(m + k) : rq[i + 2] = FoundRow(q[i])
  <2>1. q \in Seq(Sessions \union Agents)
    BY DEF T
  <2>2. /\ Finds(q) \in Seq(Rows) /\ Finds(q) # <<>> /\ Len(Finds(q)) = Len(q) + 2
        /\ Inert(Finds(q)[1]) /\ Inert(Finds(q)[2])
        /\ \A i \in 1..Len(q) : Finds(q)[i + 2] = FoundRow(q[i])
    BY <2>1, FindsIs
  <2> QED
    BY <1>8, <2>2
<1> DEFINE here == {j \in DOMAIN rp : rp[j] = Row("session", curSess)}
<1>11. Opened(ss, as) = Clamp(IF here # {} THEN Min(here) ELSE 1, rp)
  BY <1>9 DEF Opened, Where
<1>12. DOMAIN rp = 1..((m + n) + 2) /\ DOMAIN rq = 1..((m + k) + 2)
  BY <1>9, <1>10, LenProperties
<1>13. \A i \in 1..(m + k) : ~Inert(rq[i + 2])
  BY <1>10, FoundRows
<1>14. CASE here # {}
  <2>1. Min(here) \in here
    <3>1. here \subseteq Nat
      BY <1>12
    <3> HIDE DEF here
    <3> QED
      BY <1>14, <3>1, MinIs
  <2>2. PICK h \in 1..((m + n) + 2) : h = Min(here) /\ rp[h] = Row("session", curSess)
    BY <1>12, <2>1
  <2>3. rp[h].kind = "session" /\ ~Inert(rp[h])
    BY <2>2 DEF Row, Inert
  <2>4. h - 2 \in 1..(m + n) /\ (h - 2) + 2 = h
    <3>1. h # 1 /\ h # 2
      BY <1>9, <2>3
    <3> HIDE DEF here
    <3> QED
      BY <2>2, <3>1
  <2>5. rp[h] = FoundRow(p[h - 2])
    BY <1>9, <2>4
  <2>6. p[h - 2] \in Sessions
    BY <2>3, <2>5, FoundRows
  <2>7. h - 2 <= m
    <3> SUFFICES ASSUME ~(h - 2 <= m) PROVE FALSE
      OBVIOUS
    <3> HIDE DEF here
    <3> PICK j \in 1..(m + n) : j = h - 2
      BY <2>4
    <3> ~(j <= m)
      OBVIOUS
    <3>4. j - m \in 1..n
      OBVIOUS
    <3>5. p[j] = IF j <= m THEN ss[j] ELSE as[j - m]
      BY <1>7
    <3>1. p[j] = as[j - m] /\ j - m \in 1..n
      BY <3>4, <3>5
    <3>2. p[j] \in Agents
      BY <1>5, <3>1, ElementOfSeq
    <3>3. p[h - 2] = p[j]
      OBVIOUS
    <3> QED
      BY <1>1, <2>6, <3>2, <3>3
  <2>8. h - 2 \in 1..(m + k) /\ h \in DOMAIN rq /\ h \in Nat /\ h \in DOMAIN rp
    BY <1>12, <2>4, <2>7
  <2>9. ~Inert(rq[h])
    BY <1>13, <2>4, <2>8
  <2>10. Clamp(h, rp) = h
    <3> HIDE DEF here
    <3>1. rp \in Seq(Rows) /\ rp # <<>>
      BY <1>9
    <3> QED
      BY <2>3, <2>8, <3>1, ClampIs
  <2>11. Opened(ss, as) = h
    BY <1>11, <1>14, <2>2, <2>10
  <2>12. Placed(rq, h)
    BY <2>8, <2>9 DEF Placed
  <2> QED
    BY <1>8, <1>10, <2>8, <2>11, <2>12 DEF T
<1>15. CASE here = {}
  <2>1. Opened(ss, as) = Clamp(1, rp)
    BY <1>11, <1>15
  <2>2. PICK l \in Nat : l = m + n
    OBVIOUS
  <2>3. l > 0 => ~Inert(rp[3])
    <3>1. l > 0 => 1 \in 1..(m + n) /\ 1 + 2 = 3
      BY <2>2
    <3> QED
      BY <1>9, <3>1, FoundRows
  <2>4. Len(rp) = l + 2
    BY <1>9, <2>2
  <2>5. Clamp(1, rp) = IF l > 0 THEN 3 ELSE 1
    BY <1>9, <2>3, <2>4, ClampTop
  <2>6. CASE l > 0
    <3>1. 1 \in 1..(m + k) /\ 1 + 2 = 3 /\ 3 \in DOMAIN rq
      BY <1>6, <1>12, <2>2, <2>6
    <3>2. ~Inert(rq[3])
      BY <1>13, <3>1
    <3>3. Placed(rq, 3)
      BY <3>1, <3>2 DEF Placed
    <3> QED
      BY <1>8, <1>10, <2>1, <2>5, <2>6, <3>3 DEF T
  <2>7. CASE ~(l > 0)
    <3>1. DOMAIN rq = {1, 2}
      BY <1>6, <1>12, <2>2, <2>7
    <3>2. Placed(rq, 1)
      BY <1>10, <3>1 DEF Placed
    <3> QED
      BY <1>8, <1>10, <2>1, <2>5, <2>7, <3>2 DEF T
  <2> QED
    BY <2>6, <2>7
<1> QED
  BY <1>14, <1>15

\* The selection of a finder with nothing typed is a row number.
LEMMA OpenedNat ==
  ASSUME NEW ss \in Seq(Sessions), NEW as \in Seq(Agents)
  PROVE  Opened(ss, as) \in Nat
<1>1. ss \o as \in Seq(Sessions \union Agents)
  <2>1. ss \in Seq(Sessions \union Agents) /\ as \in Seq(Sessions \union Agents)
    <3>1. \A T, S : S \subseteq T => Seq(S) \subseteq Seq(T)
      BY SeqDef
    <3> QED
      BY <3>1
  <2> QED
    BY <2>1, ConcatProperties
<1>2. PICK rp \in Seq(Rows) : rp = Finds(ss \o as) /\ rp # <<>>
  BY <1>1, FindsIs
<1> DEFINE here == {j \in DOMAIN rp : rp[j] = Row("session", curSess)}
<1>3. Opened(ss, as) = Clamp(IF here # {} THEN Min(here) ELSE 1, rp)
  BY <1>2 DEF Opened, Where
<1>4. here \subseteq Nat
  BY LenProperties
<1> HIDE DEF here
<1>5. (IF here # {} THEN Min(here) ELSE 1) \in Nat
  BY <1>4, MinIs
<1>6. Clamp(IF here # {} THEN Min(here) ELSE 1, rp) \in DOMAIN rp
  BY <1>2, <1>5, ClampIs
<1> QED
  BY <1>3, <1>6, LenProperties

\* What a query that is not empty finds are sessions and agents.
LEMMA RankedIs ==
  ASSUME sessions' \in Seq(Sessions), agents' \in Seq(Agents), NEW n \in Nat, NEW f, Ranked(n, f)
  PROVE  f \in Seq(Sessions \union Agents)
<1> DEFINE T == Sessions \union Agents
<1>1. CASE n = 0
  <2>1. PICK some \in SetToSeqs(Range(agents')) : f = sessions' \o some
    BY <1>1 DEF Ranked
  <2>2. sessions' \o some \in Seq(Sessions \union Agents)
    BY OpenedIs
  <2> QED
    BY <2>1, <2>2
<1>2. CASE n # 0
  <2>1. PICK some \in SUBSET (Range(sessions') \union Range(agents')) : f \in SetToSeqs(some)
    BY <1>2 DEF Ranked
  <2>2. IsFiniteSet(Sessions) /\ IsFiniteSet(Agents)
    BY IdsAssumption
  <2>3. IsFiniteSet(T)
    BY <2>2, FS_Union
  <2>4. Range(sessions') \subseteq Sessions /\ Range(agents') \subseteq Agents
    BY RangeIs
  <2>5. some \subseteq T
    BY <2>4
  <2>6. IsFiniteSet(some)
    BY <2>3, <2>5, FS_Subset
  <2> HIDE DEF T
  <2>7. f \in Seq(T)
    BY <2>1, <2>5, <2>6, OrderedIs
  <2> QED
    BY <2>7 DEF T
<1> QED
  BY <1>1, <1>2

\* After the query has changed, too: nothing is typed, or the selection is on the best
\* match.
LEMMA RefilteredIs ==
  ASSUME sessions' \in Seq(Sessions), agents' \in Seq(Agents), NEW n \in Nat, Refiltered(n)
  PROVE  /\ found' \in Seq(Sessions \union Agents)
         /\ Placed(Finds(found'), sel')
<1>1. CASE n = 0
  <2>1. PICK some \in SetToSeqs(Range(agents')) : found' = sessions' \o some
    BY <1>1 DEF Refiltered, Ranked
  <2>2. sel' = Opened(sessions', agents')
    BY <1>1 DEF Refiltered
  <2>3. /\ sessions' \o some \in Seq(Sessions \union Agents)
        /\ Placed(Finds(sessions' \o some), Opened(sessions', agents'))
    BY OpenedIs
  <2> QED
    BY <2>1, <2>2, <2>3
<1>2. CASE n # 0
  <2>1. found' \in Seq(Sessions \union Agents)
    BY <1>2, RankedIs DEF Refiltered
  <2>2. sel' = Clamp(1, Finds(found'))
    BY <1>2 DEF Refiltered
  <2>3. Finds(found') \in Seq(Rows) /\ Finds(found') # <<>>
    BY <2>1, FindsIs
  <2>4. Placed(Finds(found'), Clamp(1, Finds(found')))
    BY <2>3, ClampIs DEF Placed
  <2> QED
    BY <2>1, <2>2, <2>4
<1> QED
  BY <1>1, <1>2

-----------------------------------------------------------------------------
(* What the daemon says of the world.                                        *)

\* A sequence backwards has the same elements.
LEMMA ReverseIs ==
  ASSUME NEW S, NEW q \in Seq(S)
  PROVE  Reverse(q) \in Seq(S) /\ Range(Reverse(q)) = Range(q)
<1>1. PICK n \in Nat : n = Len(q) /\ DOMAIN q = 1..n
  BY LenProperties
<1>2. \A i \in 1..n : q[i] \in S /\ (n - i) + 1 \in 1..n /\ (n - ((n - i) + 1)) + 1 = i
  BY <1>1, ElementOfSeq
<1>3. PICK r : r = Reverse(q)
  OBVIOUS
<1>4. r = [i \in 1..n |-> q[(n - i) + 1]]
  BY <1>1, <1>3 DEF Reverse
<1>5. r \in [1..n -> S] /\ \A i \in 1..n : r[i] = q[(n - i) + 1]
  BY <1>2, <1>4
<1>6. r \in Seq(S) /\ DOMAIN r = 1..n
  BY <1>5, SeqDef
<1>7. Range(r) = {r[i] : i \in 1..n} /\ Range(q) = {q[i] : i \in 1..n}
  BY <1>1, <1>6 DEF Range
<1>8. \A i \in 1..n : r[(n - i) + 1] = q[i]
  <2>1. ASSUME NEW i \in 1..n PROVE r[(n - i) + 1] = q[i]
    <3>1. PICK j \in 1..n : j = (n - i) + 1 /\ (n - j) + 1 = i
      BY <1>2
    <3>2. r[j] = q[(n - j) + 1]
      BY <1>5
    <3> QED
      BY <3>1, <3>2
  <2> QED
    BY <2>1
<1>9. Range(r) \subseteq Range(q)
  BY <1>2, <1>5, <1>7
<1>10. Range(q) \subseteq Range(r)
  BY <1>2, <1>7, <1>8
<1> QED
  BY <1>3, <1>6, <1>9, <1>10

\* One more element at some place of a sequence.
LEMMA InsertIs ==
  ASSUME NEW S, NEW q \in Seq(S), NEW x \in S, NEW i \in 0..Len(q)
  PROVE  InsertAt(q, i + 1, x) \in Seq(S)
<1>1. PICK n \in Nat : n = Len(q) /\ \A j \in 1..n : q[j] \in S
  BY LenProperties, ElementOfSeq
<1>2. PICK a \in Seq(S) : a = SubSeq(q, 1, (i + 1) - 1)
  <2>1. (i + 1) - 1 \in Int /\ \A j \in 1..((i + 1) - 1) : q[j] \in S
    BY <1>1
  <2>2. SubSeq(q, 1, (i + 1) - 1) \in Seq(S)
    BY <2>1, SubSeqProperties
  <2> QED
    BY <2>2
<1>3. PICK c \in Seq(S) : c = SubSeq(q, i + 1, Len(q))
  <2>1. i + 1 \in Int /\ n \in Int /\ \A j \in (i + 1)..n : q[j] \in S
    BY <1>1
  <2>2. SubSeq(q, i + 1, n) \in Seq(S)
    BY <2>1, SubSeqProperties
  <2> QED
    BY <1>1, <2>2
<1>4. PICK b \in Seq(S) : b = <<x>>
  <2>1. <<x>> \in Seq(S)
    OBVIOUS
  <2> QED
    BY <2>1
<1>5. (a \o b) \o c \in Seq(S)
  BY ConcatProperties
<1> QED
  BY <1>2, <1>3, <1>4, <1>5 DEF InsertAt

\* The world stays one of sessions and agents.
LEMMA WorldIs ==
  ASSUME sessions \in Seq(Sessions), agents \in Seq(Agents), WorldChanges
  PROVE  sessions' \in Seq(Sessions) /\ agents' \in Seq(Agents)
<1>1. ASSUME NEW s \in Sessions, Comes(s) PROVE sessions' \in Seq(Sessions) /\ agents' \in Seq(Agents)
  BY <1>1, AppendProperties DEF Comes
<1>2. ASSUME NEW s \in Sessions, Goes(s) PROVE sessions' \in Seq(Sessions) /\ agents' \in Seq(Agents)
  BY <1>2, WithoutType DEF Goes
<1>3. ASSUME NEW a \in Agents, Starts(a) PROVE sessions' \in Seq(Sessions) /\ agents' \in Seq(Agents)
  BY <1>3, InsertIs DEF Starts
<1>4. ASSUME NEW a \in Agents, Exits(a) PROVE sessions' \in Seq(Sessions) /\ agents' \in Seq(Agents)
  BY <1>4, WithoutType DEF Exits
<1>5. CASE agents' = Reverse(agents) /\ UNCHANGED sessions
  BY <1>5, ReverseIs
<1> QED
  BY <1>1, <1>2, <1>3, <1>4, <1>5 DEF WorldChanges

-----------------------------------------------------------------------------
(* The inductive invariant.                                                  *)

\* Every variable but the selection has its type.
Typed ==
  /\ sessions \in Seq(Sessions) /\ agents \in Seq(Agents)
  /\ worlds \in 0..MaxWorlds /\ filtering \in BOOLEAN /\ typed \in 0..MaxTyped
  /\ found \in Seq(Sessions \union Agents)
  /\ edit \in {"none", "rename", "create"} /\ renSess \in Sessions \union {Nobody}
  /\ confirm \in Sessions \union Agents \union {Nobody}
  /\ lastSess \in Sessions \union {Nobody} /\ lastAgent \in Agents \union {Nobody}
  /\ curSess \in Sessions /\ esc \in 0..2

\* A prompt is over the list alone, and so is a field.
One ==
  /\ confirm # Nobody => edit = "none" /\ ~filtering
  /\ edit # "none" => ~filtering

\* What a prompt is about has its row.
Drawn == confirm # Nobody => \E r \in Range(rows) : Targets(r)

IInv == Typed /\ One /\ Drawn /\ Placed(rows, sel)

\* What a row can be, with the finder and without.
Either(r, on) ==
  \/ IsOf(r, Sessions, Agents) /\ (on => r.kind \notin {"agap", "agent", "acont"})
  \/ on /\ r.kind = "found" /\ r.id \in Agents

\* The rows of a state.
LEMMA RowsNow ==
  ASSUME Typed
  PROVE  rows \in Seq(Rows) /\ rows # <<>> /\ \A r \in Range(rows) : Either(r, filtering)
<1>1. /\ filtering \in BOOLEAN /\ found \in Seq(Sessions \union Agents)
      /\ sessions \in Seq(Sessions) /\ agents \in Seq(Agents)
  BY DEF Typed
<1>2. rows = Shown(filtering, found, sessions, agents, edit)
  BY DEF rows, Shown
<1> QED
  BY <1>1, <1>2, ShownIs DEF Either

\* Those of the next state.
LEMMA RowsNext ==
  ASSUME Typed'
  PROVE  rows' \in Seq(Rows) /\ rows' # <<>> /\ \A r \in Range(rows') : Either(r, filtering')
<1>1. /\ filtering' \in BOOLEAN /\ found' \in Seq(Sessions \union Agents)
      /\ sessions' \in Seq(Sessions) /\ agents' \in Seq(Agents)
  BY DEF Typed
<1>2. rows' = Shown(filtering', found', sessions', agents', edit')
  BY DEF rows, Shown
<1> QED
  BY <1>1, <1>2, ShownIs DEF Either

\* The selected row is one of them.
LEMMA Selected ==
  ASSUME Typed, Placed(rows, sel)
  PROVE  /\ sel \in Nat /\ rows[sel] \in Rows /\ rows[sel] \in Range(rows)
         /\ Either(rows[sel], filtering)
<1>1. rows \in Seq(Rows) /\ \A r \in Range(rows) : Either(r, filtering)
  BY RowsNow
<1>2. PICK n \in Nat : DOMAIN rows = 1..n /\ n = Len(rows)
  BY <1>1, LenProperties
<1>3. sel \in 1..n
  BY <1>2 DEF Placed
<1>4. rows[sel] \in Range(rows)
  BY <1>2, <1>3 DEF Range
<1> QED
  BY <1>1, <1>2, <1>3, <1>4, ElementOfSeq

\* The same rows, and no new prompt.
LEMMA SameRows ==
  ASSUME IInv, Typed', One', rows' = rows, Placed(rows, sel'), confirm' \in {confirm, Nobody}
  PROVE  IInv'
<1>1. Drawn'
  <2>1. CASE confirm' = Nobody
    BY <2>1 DEF Drawn
  <2>2. CASE confirm' = confirm
    <3>1. ASSUME NEW r \in Range(rows), Targets(r) PROVE Targets(r)'
      BY <2>2, <3>1 DEF Targets
    <3> QED
      BY <2>2, <3>1 DEF IInv, Drawn
  <2> QED
    BY <2>1, <2>2
<1>2. Placed(rows, sel)'
  BY DEF Placed
<1> QED
  BY <1>1, <1>2 DEF IInv

\* Other rows, and no prompt.
LEMMA Unarmed ==
  ASSUME Typed', confirm' = Nobody, edit' # "none" => ~filtering', Placed(rows', sel')
  PROVE  IInv'
<1>1. One' /\ Drawn'
  BY DEF One, Drawn
<1>2. Placed(rows, sel)'
  BY DEF Placed
<1> QED
  BY <1>1, <1>2 DEF IInv

\* The list without the field for a name that is new.
LEMMA UncreatedIs ==
  ASSUME IInv, UNCHANGED <<sessions, agents, finder>>, edit' = "none"
  PROVE  Placed(rows', Uncreated) /\ Uncreated \in Nat
<1>1. Typed /\ One /\ Placed(rows, sel) /\ sel \in Nat
  BY Selected DEF IInv
<1>2. CASE edit = "create"
  <2>1. ~filtering /\ ~filtering'
    BY <1>1, <1>2 DEF One, finder
  <2>2. rows' = Tree(sessions, agents, FALSE)
    BY <2>1 DEF rows
  <2>3. Tree(sessions, agents, FALSE) \in Seq(Rows) /\ Tree(sessions, agents, FALSE) # <<>>
    BY <1>1, TreeIs DEF Typed
  <2>4. PICK t \in Seq(Rows) : t = Tree(sessions, agents, FALSE) /\ t # <<>>
    BY <2>3
  <2>5. Placed(t, Refind(rows[sel], sel, t))
    BY <1>1, <2>4, RefindIs
  <2>6. Uncreated = Refind(rows[sel], sel, t)
    BY <1>2, <2>4 DEF Uncreated
  <2>7. Uncreated \in Nat
    BY <2>5, <2>6, LenProperties DEF Placed
  <2> QED
    BY <2>2, <2>4, <2>5, <2>6, <2>7
<1>3. CASE edit # "create"
  <2>1. rows' = rows
    BY <1>3 DEF rows, finder
  <2> QED
    BY <1>1, <1>3, <2>1 DEF Uncreated
<1> QED
  BY <1>2, <1>3

\* Out of the finder.
LEMMA ExitIs ==
  ASSUME Typed, UNCHANGED <<sessions, agents>>, edit' = "none", NEW p, NEW i \in Nat, ExitFrom(p, i)
  PROVE  Placed(rows', sel')
<1>1. rows' = Tree(sessions, agents, FALSE) /\ sel' = Refind(p, i, Tree(sessions, agents, FALSE))
  BY DEF ExitFrom, rows
<1>2. Tree(sessions, agents, FALSE) \in Seq(Rows) /\ Tree(sessions, agents, FALSE) # <<>>
  BY TreeIs DEF Typed
<1> QED
  BY <1>1, <1>2, RefindIs

-----------------------------------------------------------------------------
(* Messages of the daemon.                                                   *)

\* A snapshot.
LEMMA DiffKeeps == ASSUME IInv, Diff PROVE IInv'
<1>1. Typed /\ One /\ Placed(rows, sel) /\ sel \in Nat
  BY Selected DEF IInv
<1>2. sessions' \in Seq(Sessions) /\ agents' \in Seq(Agents)
  BY <1>1, WorldIs DEF Diff, Typed
<1>3. found' \in Seq(Sessions \union Agents)
  <2>1. typed \in Nat
    BY <1>1, BoundsAssumption DEF Typed
  <2> QED
    BY <1>1, <1>2, <2>1, RankedIs DEF Diff, Relisted, Typed
<1>4. worlds' \in 0..MaxWorlds /\ confirm' \in {confirm, Nobody}
  BY <1>1, BoundsAssumption DEF Diff, Typed
<1>5. UNCHANGED <<filtering, typed, edit, renSess, lastSess, lastAgent, curSess, esc>>
  BY DEF Diff, Relisted, field, keys
<1>6. Typed'
  BY <1>1, <1>2, <1>3, <1>4, <1>5 DEF Typed
<1>7. One'
  BY <1>1, <1>4, <1>5 DEF One
<1>8. Drawn'
  <2>1. confirm' # Nobody => confirm' = confirm /\ \E r \in Range(rows') : Targets(r)
    BY DEF Diff
  <2> QED
    BY <2>1 DEF Drawn, Targets
<1>9. Placed(rows, sel)'
  <2>1. sel' = Refind(rows[sel], sel, rows')
    BY DEF Diff, Relisted
  <2>2. rows' \in Seq(Rows) /\ rows' # <<>>
    BY <1>6, RowsNext
  <2>3. Placed(rows', sel')
    BY <1>1, <2>1, <2>2, RefindIs
  <2> QED
    BY <2>3 DEF Placed
<1> QED
  BY <1>6, <1>7, <1>8, <1>9 DEF IInv

\* Another order of sessions, over a prompt or not.
LEMMA OrderKeeps == ASSUME IInv, Order PROVE IInv'
<1>1. Typed /\ One /\ Drawn /\ Placed(rows, sel) /\ sel \in Nat
  BY Selected DEF IInv
<1>2. /\ sessions' \in Seq(Sessions) /\ Range(sessions') = Range(sessions)
      /\ agents' \in Seq(Agents) /\ agents' = agents
  BY <1>1, ReverseIs DEF Order, Typed
<1>3. found' \in Seq(Sessions \union Agents)
  <2>1. typed \in Nat
    BY <1>1, BoundsAssumption DEF Typed
  <2> QED
    BY <1>1, <1>2, <2>1, RankedIs DEF Order, Relisted, Typed
<1>4. worlds' \in 0..MaxWorlds /\ confirm' = confirm
  BY <1>1, BoundsAssumption DEF Order, Typed
<1>5. UNCHANGED <<filtering, typed, edit, renSess, lastSess, lastAgent, curSess, esc>>
  BY DEF Order, Relisted, field, keys
<1>6. Typed'
  BY <1>1, <1>2, <1>3, <1>4, <1>5 DEF Typed
<1>7. One'
  BY <1>1, <1>4, <1>5 DEF One
<1>8. Drawn'
  <2>1. SUFFICES ASSUME confirm # Nobody PROVE \E r \in Range(rows') : Targets(r)
    BY <1>4 DEF Drawn, Targets
  <2>2. PICK r \in Range(rows) : Targets(r)
    BY <1>1, <2>1 DEF Drawn
  <2>3. ~filtering /\ edit = "none"
    BY <1>1, <2>1 DEF One
  <2>4. rows = Tree(sessions, agents, FALSE) /\ rows' = Tree(sessions', agents', FALSE)
    BY <1>5, <2>3 DEF rows
  <2>5. IsOf(r, Range(sessions), Range(agents))
    BY <1>1, <2>2, <2>4, TreeIs DEF Typed
  <2>6. CASE r.kind = "session"
    <3>1. r.id \in Range(sessions')
      BY <1>2, <2>5, <2>6 DEF IsOf
    <3>2. Row("session", r.id) \in Range(rows')
      BY <1>2, <2>4, <3>1, TreeIs
    <3> QED
      BY <2>2, <3>2 DEF Targets, Row
  <2>7. CASE r.kind = "agent"
    <3>1. r.id \in Range(agents')
      BY <1>2, <2>5, <2>7 DEF IsOf
    <3>2. Row("agent", r.id) \in Range(rows')
      BY <1>2, <2>4, <3>1, TreeIs
    <3> QED
      BY <2>2, <3>2 DEF Targets, Row
  <2> QED
    BY <2>2, <2>6, <2>7 DEF Targets
<1>9. Placed(rows, sel)'
  <2>1. sel' = Refind(rows[sel], sel, rows')
    BY DEF Order, Relisted
  <2>2. rows' \in Seq(Rows) /\ rows' # <<>>
    BY <1>6, RowsNext
  <2>3. Placed(rows', sel')
    BY <1>1, <2>1, <2>2, RefindIs
  <2> QED
    BY <2>3 DEF Placed
<1> QED
  BY <1>6, <1>7, <1>8, <1>9 DEF IInv

\* The daemon puts the selection somewhere.
LEMMA SelectKeeps == ASSUME IInv, Select PROVE IInv'
<1>1. Typed /\ One /\ Placed(rows, sel) /\ sel \in Nat /\ rows \in Seq(Rows) /\ rows # <<>>
  BY Selected, RowsNow DEF IInv
<1>2. PICK s \in Range(sessions) :
        /\ curSess' = s
        /\ \E x \in {s} \union Range(agents) :
             LET hits == Where(rows, LAMBDA r : r = Row(IF x = s THEN "session" ELSE "agent", x))
             IN  sel' = Clamp(IF hits = {} THEN sel ELSE Min(hits), rows)
  BY DEF Select
<1>3. PICK x \in {s} \union Range(agents) :
        LET hits == Where(rows, LAMBDA r : r = Row(IF x = s THEN "session" ELSE "agent", x))
        IN  sel' = Clamp(IF hits = {} THEN sel ELSE Min(hits), rows)
  BY <1>2
<1> DEFINE hits == {j \in DOMAIN rows : rows[j] = Row(IF x = s THEN "session" ELSE "agent", x)}
<1>4. sel' = Clamp(IF hits = {} THEN sel ELSE Min(hits), rows)
  BY <1>3 DEF Where
<1>5. hits \subseteq Nat
  BY <1>1, LenProperties
<1> HIDE DEF hits
<1>6. (IF hits = {} THEN sel ELSE Min(hits)) \in Nat
  BY <1>1, <1>5, MinIs
<1>7. Placed(rows, sel')
  BY <1>1, <1>4, <1>6, ClampIs DEF Placed
<1>8. Range(sessions) \subseteq Sessions
  BY <1>1, RangeIs DEF Typed
<1>9. UNCHANGED <<store, finder, field, confirm, lastSess, lastAgent, esc>>
  BY DEF Select
<1>10. Typed' /\ One' /\ rows' = rows
  BY <1>1, <1>2, <1>8, <1>9 DEF Typed, One, rows, store, finder, field
<1> QED
  BY <1>7, <1>9, <1>10, SameRows

\* The finder is opened.
LEMMA FindKeeps == ASSUME IInv, Find PROVE IInv'
<1>1. Typed
  BY DEF IInv
<1>2. UNCHANGED <<sessions, agents, worlds, edit, renSess, confirm, lastSess, lastAgent, curSess, esc>>
  BY DEF Find, store, field, keys
<1>3. sessions' \in Seq(Sessions) /\ agents' \in Seq(Agents) /\ Refiltered(0)
  BY <1>1, <1>2 DEF Find, Typed
<1>4. found' \in Seq(Sessions \union Agents) /\ Placed(Finds(found'), sel')
  BY <1>3, RefilteredIs
<1>5. filtering' = TRUE /\ typed' = 0 /\ 0 \in 0..MaxTyped /\ edit' = "none" /\ confirm' = Nobody
  BY <1>2, BoundsAssumption DEF Find, Refiltered
<1>6. Typed'
  BY <1>1, <1>2, <1>4, <1>5 DEF Typed
<1>7. rows' = Finds(found')
  BY <1>5 DEF rows
<1> QED
  BY <1>4, <1>5, <1>6, <1>7, Unarmed

-----------------------------------------------------------------------------
(* Keys.                                                                     *)

\* Up and down.
LEMMA StepsKeeps == ASSUME IInv, Steps PROVE IInv'
<1>1. Typed /\ One /\ Placed(rows, sel) /\ sel \in Nat /\ rows \in Seq(Rows) /\ rows # <<>>
  BY Selected, RowsNow DEF IInv
<1>2. UNCHANGED <<store, finder, field, confirm, keys>>
  BY DEF Steps
<1>3. Typed' /\ One' /\ rows' = rows
  BY <1>1, <1>2 DEF Typed, One, rows, store, finder, field, keys
<1>4. Placed(rows, sel')
  BY <1>1, SteppedIs DEF Steps
<1> QED
  BY <1>2, <1>3, <1>4, SameRows

\* What an ESC does besides.
LEMMA CancelsTyped ==
  ASSUME Typed, Cancels, esc' \in 0..2,
         UNCHANGED finder \/ (filtering' = FALSE /\ typed' = 0 /\ found' = <<>>)
  PROVE  Typed' /\ confirm' = Nobody /\ edit' = "none" /\ UNCHANGED <<sessions, agents>>
<1>1. /\ UNCHANGED <<sessions, agents, worlds, lastSess, lastAgent, curSess>>
      /\ confirm' = Nobody /\ edit' = "none" /\ renSess' = Nobody
  BY DEF Cancels, store
<1>2. /\ filtering' \in BOOLEAN /\ typed' \in 0..MaxTyped
      /\ found' \in Seq(Sessions \union Agents)
  <2>1. <<>> \in Seq(Sessions \union Agents) /\ 0 \in 0..MaxTyped
    BY EmptySeq, BoundsAssumption
  <2>2. CASE UNCHANGED finder
    BY <2>2 DEF finder, Typed
  <2>3. CASE filtering' = FALSE /\ typed' = 0 /\ found' = <<>>
    BY <2>1, <2>3
  <2> QED
    BY <2>2, <2>3
<1> QED
  BY <1>1, <1>2 DEF Typed

\* ESC.
LEMMA EscapeKeeps == ASSUME IInv, Escape PROVE IInv'
<1>1. Typed /\ One /\ Placed(rows, sel) /\ sel \in Nat /\ rows \in Seq(Rows) /\ rows # <<>>
  BY Selected, RowsNow DEF IInv
<1>2. Cancels
  BY DEF Escape
<1>3. CASE filtering /\ esc' = 0 /\ ExitFrom(rows[sel], sel)
  <2>1. Typed' /\ confirm' = Nobody /\ edit' = "none" /\ UNCHANGED <<sessions, agents>>
    <3>1. filtering' = FALSE /\ typed' = 0 /\ found' = <<>> /\ esc' \in 0..2
      BY <1>3 DEF ExitFrom
    <3> QED
      BY <1>1, <1>2, <3>1, CancelsTyped
  <2>2. Placed(rows', sel')
    BY <1>1, <1>3, <2>1, ExitIs
  <2> QED
    BY <2>1, <2>2, Unarmed
<1>4. CASE ~filtering /\ esc' = 1 /\ UNCHANGED finder /\ sel' = Uncreated
  <2>1. Typed' /\ confirm' = Nobody /\ edit' = "none" /\ UNCHANGED <<sessions, agents>>
    BY <1>1, <1>2, <1>4, CancelsTyped
  <2>2. Placed(rows', sel')
    BY <1>4, <2>1, UncreatedIs
  <2> QED
    BY <2>1, <2>2, Unarmed
<1> QED
  BY <1>3, <1>4 DEF Escape

\* An arrow.
LEMMA ArrowsKeeps == ASSUME IInv, Arrows PROVE IInv'
<1>1. Typed /\ One /\ Placed(rows, sel) /\ sel \in Nat /\ rows \in Seq(Rows) /\ rows # <<>>
  BY Selected, RowsNow DEF IInv
<1>2. Typed' /\ confirm' = Nobody /\ edit' = "none" /\ UNCHANGED <<sessions, agents, finder>>
  BY <1>1, CancelsTyped DEF Arrows
<1>3. Placed(rows', Uncreated) /\ rows' \in Seq(Rows)
  BY <1>2, UncreatedIs, RowsNext
<1>4. Placed(rows', sel')
  BY <1>3, SteppedIs DEF Arrows
<1> QED
  BY <1>2, <1>4, Unarmed

\* A press.
LEMMA ClicksKeeps == ASSUME IInv, Clicks PROVE IInv'
<1>1. Typed /\ One /\ Placed(rows, sel) /\ sel \in Nat /\ rows \in Seq(Rows) /\ rows # <<>>
  BY Selected, RowsNow DEF IInv
<1>2. Typed' /\ confirm' = Nobody /\ edit' = "none"
  BY <1>1, CancelsTyped DEF Clicks
<1>3. Placed(rows', sel')
  BY DEF Clicks, Where, Placed
<1> QED
  BY <1>2, <1>3, Unarmed

\* The middle of a sequence.
LEMMA BracketsKeeps == ASSUME IInv, Brackets PROVE IInv'
<1>1. Typed /\ One /\ Placed(rows, sel) /\ sel \in Nat /\ rows \in Seq(Rows) /\ rows # <<>>
  BY Selected, RowsNow DEF IInv
<1>2. UNCHANGED <<store, finder, field, confirm, sel, lastSess, lastAgent, curSess>> /\ esc' = 2
  BY DEF Brackets
<1>3. Typed' /\ One' /\ rows' = rows /\ confirm' = confirm /\ sel' = sel
  BY <1>1, <1>2 DEF Typed, One, rows, store, finder, field
<1> QED
  BY <1>1, <1>3, SameRows

\* The end of one.
LEMMA FinishesKeeps == ASSUME IInv, Finishes PROVE IInv'
<1>1. Typed /\ One /\ Placed(rows, sel) /\ sel \in Nat /\ rows \in Seq(Rows) /\ rows # <<>>
  BY Selected, RowsNow DEF IInv
<1>2. UNCHANGED <<store, finder, field, confirm, lastSess, lastAgent, curSess>> /\ esc' = 0
  BY DEF Finishes
<1>3. Typed' /\ One' /\ rows' = rows /\ confirm' = confirm
  BY <1>1, <1>2 DEF Typed, One, rows, store, finder, field
<1>4. Placed(rows, sel')
  BY <1>1, SteppedIs DEF Finishes
<1> QED
  BY <1>3, <1>4, SameRows

\* A key that means nothing.
LEMMA OtherKeyKeeps == ASSUME IInv, OtherKey PROVE IInv'
<1>1. Typed /\ One /\ Placed(rows, sel) /\ sel \in Nat /\ rows \in Seq(Rows) /\ rows # <<>>
  BY Selected, RowsNow DEF IInv
<1>2. UNCHANGED <<store, finder, field, confirm, sel, lastSess, lastAgent, curSess>> /\ esc' = 0
  BY DEF OtherKey
<1>3. Typed' /\ One' /\ rows' = rows /\ confirm' = confirm /\ sel' = sel
  BY <1>1, <1>2 DEF Typed, One, rows, store, finder, field
<1> QED
  BY <1>1, <1>3, SameRows

\* A prompt.
LEMMA ArmsKeeps == ASSUME IInv, Arms PROVE IInv'
<1>1. Typed /\ One /\ Placed(rows, sel) /\ sel \in Nat /\ rows \in Seq(Rows) /\ rows # <<>>
  BY Selected, RowsNow DEF IInv
<1>2. rows[sel] \in Rows /\ rows[sel] \in Range(rows)
  BY <1>1, Selected
<1>3. UNCHANGED <<store, finder, field, sel, keys>> /\ confirm' = rows[sel].id /\ Listens
  BY DEF Arms
<1>4. rows[sel].id \in Sessions \union Agents \union {Nobody}
  BY <1>2 DEF Rows
<1>5. Typed' /\ rows' = rows /\ sel' = sel
  BY <1>1, <1>3, <1>4 DEF Typed, rows, store, finder, field, keys
<1>6. One'
  BY <1>3 DEF Listens, One, finder, field
<1>7. Drawn'
  <2>1. confirm' # Nobody => Targets(rows[sel])'
    BY <1>3, <1>5 DEF Arms, Targets
  <2>2. ASSUME confirm' # Nobody PROVE \E r \in Range(rows') : Targets(r)'
    <3>1. PICK r \in Range(rows) : r = rows[sel]
      BY <1>2
    <3>2. confirm' = r.id /\ r.kind \in {"session", "agent"}
      BY <1>3, <3>1 DEF Arms
    <3> QED
      BY <1>5, <2>2, <3>2 DEF Targets
  <2> QED
    BY <2>2 DEF Drawn
<1>8. Placed(rows, sel)'
  BY <1>1, <1>5 DEF Placed
<1> QED
  BY <1>5, <1>6, <1>7, <1>8 DEF IInv

\* The answer to it.
LEMMA ConfirmsKeeps == ASSUME IInv, Confirms PROVE IInv'
<1>1. Typed /\ One /\ Placed(rows, sel) /\ sel \in Nat /\ rows \in Seq(Rows) /\ rows # <<>>
  BY Selected, RowsNow DEF IInv
<1>2. UNCHANGED <<store, finder, field, sel, keys>> /\ confirm' = Nobody
  BY DEF Confirms
<1>3. Typed' /\ One' /\ rows' = rows /\ sel' = sel
  BY <1>1, <1>2 DEF Typed, One, rows, store, finder, field, keys
<1> QED
  BY <1>1, <1>2, <1>3, SameRows

\* The field for a name.
LEMMA EditsKeeps == ASSUME IInv, Edits PROVE IInv'
<1>1. Typed /\ One /\ Placed(rows, sel) /\ sel \in Nat /\ rows \in Seq(Rows) /\ rows # <<>>
  BY Selected, RowsNow DEF IInv
<1>2. /\ UNCHANGED <<store, finder, confirm, keys>> /\ Listens /\ rows[sel].kind = "session"
      /\ edit' \in {"rename", "create"} /\ renSess' = rows[sel].id
      /\ sel' = IF edit' = "create" THEN Refind(rows[sel], sel, rows') ELSE sel
  BY DEF Edits
<1>3. Either(rows[sel], filtering)
  BY <1>1, Selected
<1>4. renSess' \in Sessions
  BY <1>2, <1>3 DEF Either, IsOf
<1>5. Typed' /\ ~filtering' /\ confirm' = Nobody
  BY <1>1, <1>2, <1>4 DEF Typed, Listens, store, finder, keys
<1>6. CASE edit' = "create"
  <2>1. rows' \in Seq(Rows) /\ rows' # <<>>
    BY <1>5, RowsNext
  <2>2. Placed(rows', sel')
    BY <1>1, <1>2, <1>6, <2>1, RefindIs
  <2> QED
    BY <1>5, <2>2, Unarmed
<1>7. CASE edit' # "create"
  <2>1. rows' = rows /\ sel' = sel
    BY <1>2, <1>7 DEF rows, Listens, store, finder
  <2> QED
    BY <1>1, <1>5, <2>1, Unarmed
<1> QED
  BY <1>6, <1>7

\* Enter in it.
LEMMA SubmitsKeeps == ASSUME IInv, Submits PROVE IInv'
<1>1. Typed /\ One /\ Placed(rows, sel) /\ sel \in Nat /\ rows \in Seq(Rows) /\ rows # <<>>
  BY Selected, RowsNow DEF IInv
<1>2. /\ UNCHANGED <<store, finder, confirm, keys>> /\ confirm = Nobody
      /\ edit' = "none" /\ renSess' = Nobody /\ sel' = Uncreated
  BY DEF Submits
<1>3. Typed' /\ confirm' = Nobody /\ UNCHANGED <<sessions, agents, finder>>
  BY <1>1, <1>2 DEF Typed, store, finder, keys
<1>4. Placed(rows', sel')
  BY <1>2, <1>3, UncreatedIs
<1> QED
  BY <1>2, <1>3, <1>4, Unarmed

\* A session changes places with its neighbour.
LEMMA ReordersKeeps == ASSUME IInv, Reorders PROVE IInv'
<1>1. Typed /\ One /\ Placed(rows, sel) /\ sel \in Nat /\ rows \in Seq(Rows) /\ rows # <<>>
  BY Selected, RowsNow DEF IInv
<1>2. PICK i \in DOMAIN sessions, j \in DOMAIN sessions : sessions' = Swapped(i, j)
  BY DEF Reorders
<1>3. sessions' \in Seq(Sessions)
  <2>1. sessions \in Seq(Sessions)
    BY <1>1 DEF Typed
  <2>2. PICK n \in Nat : DOMAIN sessions = 1..n /\ n = Len(sessions)
    BY <2>1, LenProperties
  <2>3. sessions \in [1..n -> Sessions]
    BY <2>1, <2>2, ElementOfSeq, LenProperties
  <2>4. [sessions EXCEPT ![i] = sessions[j], ![j] = sessions[i]] \in [1..n -> Sessions]
    BY <2>2, <2>3
  <2>5. sessions' \in [1..n -> Sessions]
    BY <1>2, <2>4 DEF Swapped
  <2> QED
    BY <2>5, SeqDef
<1>4. /\ UNCHANGED <<agents, worlds, finder, field, confirm, keys>> /\ Listens
      /\ sel' = Refind(rows[sel], sel, rows')
  BY DEF Reorders
<1>5. Typed' /\ confirm' = Nobody /\ edit' = "none"
  BY <1>1, <1>3, <1>4 DEF Typed, Listens, finder, field, keys
<1>6. rows' \in Seq(Rows) /\ rows' # <<>>
  BY <1>5, RowsNext
<1>7. Placed(rows', sel')
  BY <1>1, <1>4, <1>6, RefindIs
<1> QED
  BY <1>5, <1>7, Unarmed

\* To the other region.
LEMMA JumpsKeeps == ASSUME IInv, Jumps PROVE IInv'
<1>1. Typed /\ One /\ Placed(rows, sel) /\ sel \in Nat /\ rows \in Seq(Rows) /\ rows # <<>>
  BY Selected, RowsNow DEF IInv
<1>2. PICK toAgents \in BOOLEAN :
       LET here  == rows[sel]
           there == Where(rows, LAMBDA r : ~Inert(r) /\ InAgents(r) = toAgents)
           last  == there \cap Where(rows, LAMBDA r : r.id = IF toAgents THEN lastAgent ELSE lastSess)
       IN  /\ InAgents(here) # toAgents
           /\ lastAgent' = IF InAgents(here) THEN here.id ELSE lastAgent
           /\ lastSess'  = IF InAgents(here) THEN lastSess ELSE here.id
           /\ sel' = IF last # {} THEN Min(last) ELSE IF there # {} THEN Min(there) ELSE sel
  BY DEF Jumps
<1> DEFINE there == {j \in DOMAIN rows : ~Inert(rows[j]) /\ InAgents(rows[j]) = toAgents}
           last == there \cap {j \in DOMAIN rows : rows[j].id = IF toAgents THEN lastAgent ELSE lastSess}
<1>3. sel' = IF last # {} THEN Min(last) ELSE IF there # {} THEN Min(there) ELSE sel
  BY <1>2 DEF Where
<1>4. UNCHANGED <<store, finder, field, confirm, curSess, esc>> /\ Listens
  BY DEF Jumps
<1>5. rows' = rows /\ confirm' = confirm
  BY <1>4 DEF rows, store, finder, field
<1>6. Placed(rows, sel')
  <2>1. there \subseteq Nat /\ last \subseteq there
    BY <1>1, LenProperties
  <2>2. \A j \in there : j \in DOMAIN rows /\ ~Inert(rows[j])
    OBVIOUS
  <2> HIDE DEF there, last
  <2>3. last # {} => Min(last) \in there
    BY <2>1, MinIs
  <2>4. there # {} => Min(there) \in there
    BY <2>1, MinIs
  <2>5. sel' \in there \/ sel' = sel
    BY <1>3, <2>3, <2>4
  <2> QED
    BY <1>1, <2>2, <2>5 DEF Placed
<1>7. lastSess' \in Sessions \union {Nobody} /\ lastAgent' \in Agents \union {Nobody}
  <2>1. Either(rows[sel], FALSE)
    <3>1. Either(rows[sel], filtering) /\ ~filtering
      BY <1>1, <1>4, Selected DEF Listens
    <3> QED
      BY <3>1 DEF Either
  <2>2. PICK r : r = rows[sel]
    OBVIOUS
  <2>3. /\ lastAgent' = IF InAgents(r) THEN r.id ELSE lastAgent
        /\ lastSess'  = IF InAgents(r) THEN lastSess ELSE r.id
    BY <1>2, <2>2
  <2>4. InAgents(r) => r.id \in Agents
    BY <2>1, <2>2 DEF Either, IsOf, InAgents
  <2>5. ~InAgents(r) => r.id \in Sessions \union {Nobody}
    BY <2>1, <2>2 DEF Either, IsOf, InAgents
  <2>6. lastSess \in Sessions \union {Nobody} /\ lastAgent \in Agents \union {Nobody}
    BY <1>1 DEF Typed
  <2> QED
    BY <2>3, <2>4, <2>5, <2>6
<1>8. Typed' /\ One'
  BY <1>1, <1>4, <1>7 DEF Typed, One, store, finder, field
<1> QED
  BY <1>5, <1>6, <1>8, SameRows

\* The finder is opened, or opened and closed.
LEMMA SlashKeeps == ASSUME IInv, Slash PROVE IInv'
<1>1. Typed /\ One /\ Placed(rows, sel) /\ sel \in Nat /\ rows \in Seq(Rows) /\ rows # <<>>
  BY Selected, RowsNow DEF IInv
<1>2. /\ UNCHANGED <<store, field, confirm, lastSess, lastAgent, curSess>> /\ Listens
      /\ esc' = 0
  BY DEF Slash
<1>3. /\ UNCHANGED <<sessions, agents, worlds, edit, renSess, confirm, lastSess, lastAgent, curSess>>
      /\ edit' = "none" /\ confirm' = Nobody
  BY <1>2 DEF Listens, store, field
<1>4. sessions' \in Seq(Sessions) /\ agents' \in Seq(Agents)
  BY <1>1, <1>3 DEF Typed
<1>5. CASE filtering' = TRUE /\ Refiltered(0)
  <2>1. found' \in Seq(Sessions \union Agents) /\ Placed(Finds(found'), sel')
    BY <1>4, <1>5, RefilteredIs
  <2>2. typed' = 0 /\ 0 \in 0..MaxTyped
    BY <1>5, BoundsAssumption DEF Refiltered
  <2>3. Typed'
    BY <1>1, <1>2, <1>3, <1>5, <2>1, <2>2 DEF Typed
  <2>4. rows' = Finds(found')
    BY <1>5 DEF rows
  <2> QED
    BY <1>3, <2>1, <2>3, <2>4, Unarmed
<1>6. CASE /\ UNCHANGED finder
           /\ LET i == Opened(sessions, agents)
              IN  sel' = Refind(Finds(sessions \o agents)[i], i, rows)
  <2>1. Opened(sessions, agents) \in Nat
    BY <1>1, OpenedNat DEF Typed
  <2>2. Placed(rows, sel')
    BY <1>1, <1>6, <2>1, RefindIs
  <2>3. Typed' /\ rows' = rows
    BY <1>1, <1>2, <1>3, <1>6 DEF Typed, finder, rows
  <2> QED
    BY <1>3, <2>2, <2>3, Unarmed
<1> QED
  BY <1>5, <1>6 DEF Slash

\* A query.
LEMMA TypesKeeps == ASSUME IInv, Types PROVE IInv'
<1>1. Typed /\ One /\ Placed(rows, sel) /\ sel \in Nat /\ rows \in Seq(Rows) /\ rows # <<>>
  BY Selected, RowsNow DEF IInv
<1>2. PICK n \in {0, typed + 1} \union (IF typed > 0 THEN {typed - 1} ELSE {}) :
        n <= MaxTyped /\ UNCHANGED <<store, filtering, field, confirm, keys>> /\ Refiltered(n)
  BY DEF Types
<1>3. filtering /\ edit = "none" /\ confirm = Nobody
  BY <1>1 DEF Types, One
<1>4. UNCHANGED <<sessions, agents, worlds, filtering, edit, renSess, confirm, lastSess, lastAgent, curSess, esc>>
  BY <1>2 DEF store, field, keys
<1>5. n \in 0..MaxTyped
  <2>1. typed \in 0..MaxTyped /\ MaxTyped \in Nat
    BY <1>1, BoundsAssumption DEF Typed
  <2>2. CASE typed > 0
    BY <1>2, <2>1, <2>2
  <2>3. CASE ~(typed > 0)
    BY <1>2, <2>1, <2>3
  <2> QED
    BY <2>2, <2>3
<1>6. sessions' \in Seq(Sessions) /\ agents' \in Seq(Agents) /\ n \in Nat
  BY <1>1, <1>4, <1>5 DEF Typed
<1>7. found' \in Seq(Sessions \union Agents) /\ Placed(Finds(found'), sel')
  BY <1>2, <1>6, RefilteredIs
<1>8. typed' = n
  BY <1>2 DEF Refiltered
<1>9. Typed'
  BY <1>1, <1>4, <1>5, <1>7, <1>8 DEF Typed
<1>10. rows' = Finds(found')
  BY <1>3, <1>4 DEF rows
<1> QED
  BY <1>3, <1>4, <1>7, <1>9, <1>10, Unarmed

\* What leaves the finder leaves everything as it should be.
LEMMA LeavesTyped ==
  ASSUME IInv, filtering, NEW p, NEW i \in Nat, ExitFrom(p, i), esc' \in 0..2,
         UNCHANGED <<store, field, confirm, lastSess, lastAgent, curSess>>
  PROVE  IInv'
<1>1. Typed /\ edit = "none" /\ confirm = Nobody
  BY DEF IInv, One
<1>2. UNCHANGED <<sessions, agents, worlds, edit, renSess, confirm, lastSess, lastAgent, curSess>>
  BY DEF store, field
<1>3. filtering' = FALSE /\ typed' = 0 /\ found' = <<>>
  BY DEF ExitFrom
<1>4. <<>> \in Seq(Sessions \union Agents) /\ 0 \in 0..MaxTyped
  BY EmptySeq, BoundsAssumption
<1>5. Typed'
  BY <1>1, <1>2, <1>3, <1>4 DEF Typed
<1>6. Placed(rows', sel')
  BY <1>1, <1>2, ExitIs
<1> QED
  BY <1>1, <1>2, <1>5, <1>6, Unarmed

\* Enter in the finder.
LEMMA LeavesFinderKeeps == ASSUME IInv, LeavesFinder PROVE IInv'
<1>1. Typed /\ One /\ Placed(rows, sel) /\ sel \in Nat /\ rows \in Seq(Rows) /\ rows # <<>>
  BY Selected, RowsNow DEF IInv
<1>2. /\ filtering /\ ExitFrom(rows[sel], sel) /\ esc' \in 0..2
      /\ UNCHANGED <<store, field, confirm, lastSess, lastAgent, curSess>>
  BY <1>1 DEF LeavesFinder, keys, Typed
<1> QED
  BY <1>1, <1>2, LeavesTyped

\* A key after half an ESC.
LEMMA SlipsKeeps == ASSUME IInv, Slips PROVE IInv'
<1>1. Typed /\ One /\ Placed(rows, sel) /\ sel \in Nat /\ rows \in Seq(Rows) /\ rows # <<>>
  BY Selected, RowsNow DEF IInv
<1>2. /\ filtering /\ esc' \in 0..2
      /\ UNCHANGED <<store, field, confirm, lastSess, lastAgent, curSess>>
  BY DEF Slips
<1>3. \E p, i : i \in Nat /\ ExitFrom(p, i)
  <2>1. CASE \E i \in {sel, Stepped(rows, sel, TRUE), Stepped(rows, sel, FALSE)} : ExitFrom(rows[i], i)
    <3>1. {sel, Stepped(rows, sel, TRUE), Stepped(rows, sel, FALSE)} \subseteq Nat
      BY <1>1, SteppedIs
    <3> QED
      BY <2>1, <3>1
  <2>2. CASE LET i == Opened(sessions, agents) IN ExitFrom(Finds(sessions \o agents)[i], i)
    <3>1. Opened(sessions, agents) \in Nat
      BY <1>1, OpenedNat DEF Typed
    <3> QED
      BY <2>2, <3>1
  <2>3. CASE \E x \in Live : ExitFrom(FoundRow(x), 3)
    BY <2>3
  <2>4. CASE ExitFrom(Row("head", Nobody), 1)
    BY <2>4
  <2> QED
    BY <2>1, <2>2, <2>3, <2>4 DEF Slips
<1>4. PICK p, i : i \in Nat /\ ExitFrom(p, i)
  BY <1>3
<1> QED
  BY <1>2, <1>4, LeavesTyped

-----------------------------------------------------------------------------
(* The theorems.                                                             *)

\* A sidebar that has just had its first snapshot.
LEMMA InitHolds == ASSUME Init PROVE IInv
<1>1. IsFiniteSet(Sessions) /\ IsFiniteSet(Agents)
  BY IdsAssumption
<1>2. sessions \in Seq(Sessions)
  <2>1. PICK ss \in SUBSET Sessions : sessions \in SetToSeqs(ss)
    BY DEF Init
  <2>2. IsFiniteSet(ss)
    BY <1>1, FS_Subset
  <2> QED
    BY <2>1, <2>2, OrderedIs
<1>3. agents \in Seq(Agents)
  <2>1. PICK as \in SUBSET {a \in Agents : Home[a] \in Range(sessions)} : agents \in SetToSeqs(as)
    BY DEF Init
  <2>2. as \subseteq Agents
    BY <2>1
  <2>3. IsFiniteSet(as)
    BY <1>1, <2>2, FS_Subset
  <2> QED
    BY <2>1, <2>2, <2>3, OrderedIs
<1>4. curSess \in Sessions
  <2>1. Range(sessions) \subseteq Sessions
    BY <1>2, RangeIs
  <2> QED
    BY <2>1 DEF Init
<1>5. Typed
  <2>1. found \in Seq(Sessions \union Agents)
    BY EmptySeq DEF Init
  <2>2. /\ worlds = 0 /\ filtering = FALSE /\ typed = 0 /\ edit = "none" /\ renSess = Nobody
        /\ confirm = Nobody /\ lastSess = Nobody /\ lastAgent = Nobody /\ esc = 0
    BY DEF Init
  <2> QED
    <3>1. worlds \in 0..MaxWorlds /\ typed \in 0..MaxTyped /\ esc \in 0..2
      BY <2>2, BoundsAssumption
    <3>2. filtering \in BOOLEAN
      BY <2>2
    <3> QED
      BY <1>2, <1>3, <1>4, <2>1, <2>2, <3>1, <3>2 DEF Typed
<1>6. One /\ Drawn
  BY DEF Init, One, Drawn
<1>7. Placed(rows, sel)
  BY DEF Init, Where, Placed
<1> QED
  BY <1>5, <1>6, <1>7 DEF IInv

\* A step that changes nothing.
LEMMA StutterKeeps == ASSUME IInv, UNCHANGED vars PROVE IInv'
<1>1. UNCHANGED <<sessions, agents, worlds, filtering, typed, found, edit, renSess, confirm, sel,
                  lastSess, lastAgent, curSess, esc>>
  BY DEF vars, store, finder, field, keys
<1>2. rows' = rows
  BY <1>1 DEF rows
<1>3. Typed' /\ One'
  BY <1>1 DEF IInv, Typed, One
<1>4. Placed(rows, sel')
  BY <1>1 DEF IInv
<1> QED
  BY <1>1, <1>2, <1>3, <1>4, SameRows

\* Every step preserves the invariant.
LEMMA NextKeeps == ASSUME IInv, [Next]_vars PROVE IInv'
<1>1. CASE Message
  BY <1>1, DiffKeeps, OrderKeeps, SelectKeeps, FindKeeps DEF Message
<1>2. CASE Key
  BY <1>2, StepsKeeps, EscapeKeeps, ArrowsKeeps, ClicksKeeps, BracketsKeeps, FinishesKeeps,
     OtherKeyKeeps, ArmsKeeps, ConfirmsKeeps, EditsKeeps, SubmitsKeeps, ReordersKeeps,
     JumpsKeeps, SlashKeeps, TypesKeeps, LeavesFinderKeeps, SlipsKeeps DEF Key
<1>3. CASE UNCHANGED vars
  BY <1>3, StutterKeeps
<1> QED
  BY <1>1, <1>2, <1>3 DEF Next

\* Whatever the daemon says between whatever keys, every variable has its type, one
\* thing owns the keyboard, a prompt has its row, and the selection is on a row that
\* can be entered if there is any.
THEOREM Inductive == Spec => []IInv
<1>1. Init => IInv
  BY InitHolds
<1>2. IInv /\ [Next]_vars => IInv'
  BY NextKeeps
<1> QED
  BY <1>1, <1>2, PTL DEF Spec

\* Every variable has its type; the selection is the number of a row.
THEOREM TypeCorrect == Spec => []TypeOK
<1>1. IInv => TypeOK
  BY DEF IInv, Typed, TypeOK, Placed
<1> QED
  BY <1>1, Inductive, PTL

\* At most one of the prompt, the field and the finder owns the keyboard, and a
\* prompt is on the row of what it would kill.
THEOREM OwnerHolds == Spec => []OwnerIsDrawn
<1>1. IInv => OwnerIsDrawn
  <2> SUFFICES ASSUME IInv PROVE OwnerIsDrawn
    OBVIOUS
  <2> DEFINE owners == {o \in {1, 2, 3} : \/ o = 1 /\ confirm # Nobody
                                          \/ o = 2 /\ edit # "none"
                                          \/ o = 3 /\ filtering}
  <2>1. owners = {} \/ \E o \in {1, 2, 3} : owners = {o}
    <3>1. CASE confirm # Nobody
      BY <3>1 DEF IInv, One
    <3>2. CASE confirm = Nobody /\ edit # "none"
      BY <3>2 DEF IInv, One
    <3>3. CASE confirm = Nobody /\ edit = "none"
      BY <3>3
    <3> QED
      BY <3>1, <3>2, <3>3
  <2>2. Cardinality(owners) <= 1
    <3> HIDE DEF owners
    <3>1. CASE owners = {}
      <4>1. Cardinality(owners) = 0
        BY <3>1, FS_EmptySet
      <4> QED
        BY <4>1
    <3>2. CASE \E o \in {1, 2, 3} : owners = {o}
      <4>1. PICK o \in {1, 2, 3} : owners = {o}
        BY <3>2
      <4>2. Cardinality({o}) = 1
        BY FS_Singleton
      <4>3. Cardinality(owners) = 1
        BY <4>1, <4>2
      <4> QED
        BY <4>3
    <3> QED
      BY <2>1, <3>1, <3>2
  <2> QED
    BY <2>2 DEF IInv, Drawn, OwnerIsDrawn
<1> QED
  BY <1>1, Inductive, PTL

\* The selection is on something that can be entered as long as there is anything.
THEOREM OnSomethingHolds == Spec => []OnSomething
<1>1. IInv => OnSomething
  BY DEF IInv, Placed, OnSomething, Range
<1> QED
  BY <1>1, Inductive, PTL

\* A row that is found again is of what it was before.
LEMMA FoundAgain ==
  ASSUME Typed', NEW p, NEW i \in Nat, p.kind \in {"session", "agent"},
         p.kind = "session" => p.id \in Sessions,
         p.kind = "agent" => ~filtering' /\ p.id \in Agents,
         NEW r \in Range(rows'), r.id = p.id, ~Inert(r)
  PROVE  rows'[Refind(p, i, rows')].id = p.id /\ ~Inert(rows'[Refind(p, i, rows')])
<1>1. rows' \in Seq(Rows) /\ rows' # <<>> /\ Either(r, filtering')
  BY RowsNext
<1>2. Sessions \cap Agents = {}
  BY IdsAssumption
<1>3. r.kind \in {"session", "agent", "found"}
  BY DEF Inert
<1>4. r.kind = p.kind
  BY <1>1, <1>2, <1>3 DEF Either, IsOf
<1>5. PICK j \in DOMAIN rows' : r = rows'[j]
  BY DEF Range
<1>6. Same(p, rows'[j])
  BY <1>4, <1>5 DEF Same
<1>7. Same(p, rows'[Refind(p, i, rows')])
  BY <1>1, <1>6, RefindIs
<1> QED
  BY <1>7 DEF Same, Inert

\* Whatever rebuilds the rows leaves the selection on its session or agent.
LEMMA RebuildSticks ==
  ASSUME IInv, IInv', Rebuilds, NEW p, p = rows[sel], p.kind \in {"session", "agent"},
         NEW r \in Range(rows'), r.id = p.id, ~Inert(r)
  PROVE  rows'[sel'].id = p.id /\ ~Inert(rows'[sel'])
<1>1. Typed /\ One /\ Placed(rows, sel) /\ sel \in Nat /\ Typed' /\ Either(p, filtering)
  BY Selected DEF IInv
<1>2. /\ p.kind = "session" => p.id \in Sessions
      /\ p.kind = "agent" => ~filtering /\ p.id \in Agents
  BY <1>1 DEF Either, IsOf
<1>3. ASSUME sel' = Refind(p, sel, rows'), filtering' = filtering
      PROVE  rows'[sel'].id = p.id /\ ~Inert(rows'[sel'])
  <2>1. p.kind = "agent" => ~filtering' /\ p.id \in Agents
    BY <1>2, <1>3
  <2> QED
    BY <1>1, <1>2, <1>3, <2>1, FoundAgain
<1>4. ASSUME rows' = rows, sel' = sel
      PROVE  rows'[sel'].id = p.id /\ ~Inert(rows'[sel'])
  BY <1>4 DEF Inert
<1>5. ASSUME sel' = Uncreated, edit' = "none", UNCHANGED <<sessions, agents, finder>>
      PROVE  rows'[sel'].id = p.id /\ ~Inert(rows'[sel'])
  <2>1. CASE edit = "create"
    <3>1. ~filtering /\ ~filtering'
      BY <1>1, <1>5, <2>1 DEF One, finder
    <3>2. rows' = Tree(sessions, agents, FALSE)
      BY <1>5, <3>1 DEF rows
    <3>3. sel' = Refind(p, sel, rows') /\ filtering' = filtering
      BY <1>5, <2>1, <3>2 DEF Uncreated, finder
    <3> QED
      BY <1>3, <3>3
  <2>2. CASE edit # "create"
    <3>1. rows' = rows /\ sel' = sel
      BY <1>5, <2>2 DEF rows, finder, Uncreated
    <3> QED
      BY <1>4, <3>1
  <2> QED
    BY <2>1, <2>2
<1>6. CASE Diff
  BY <1>3, <1>6 DEF Diff, Relisted
<1>7. CASE Order
  BY <1>3, <1>7 DEF Order, Relisted
<1>8. CASE Edits
  <2>1. CASE edit' = "create"
    BY <1>3, <1>8, <2>1 DEF Edits, finder
  <2>2. CASE edit' # "create"
    <3>1. rows' = rows /\ sel' = sel
      BY <1>8, <2>2 DEF Edits, Listens, rows, store, finder
    <3> QED
      BY <1>4, <3>1
  <2> QED
    BY <2>1, <2>2
<1>9. CASE Submits
  BY <1>5, <1>9 DEF Submits, store
<1>10. CASE Reorders
  BY <1>3, <1>10 DEF Reorders, finder
<1>11. CASE Escape /\ ~filtering
  BY <1>5, <1>11 DEF Escape, Cancels, store
<1> QED
  BY <1>6, <1>7, <1>8, <1>9, <1>10, <1>11 DEF Rebuilds

\* Messages, the field that comes and goes and a session that is moved leave the
\* selection on the session or agent that it was on, if that is still listed.
THEOREM SticksHolds == Spec => SelectionSticks
<1>1. ASSUME IInv, IInv', [Next]_vars
      PROVE  [\A x \in {rows[sel].id} :
               rows[sel].kind \in {"session", "agent"} /\ Listed(x)' /\ ~Kept(x)' => ~Rebuilds]_vars
  <2>1. ASSUME Rebuilds, rows[sel].kind \in {"session", "agent"}, NEW x, x = rows[sel].id, Listed(x)'
        PROVE  Kept(x)'
    <3>1. PICK p : p = rows[sel]
      OBVIOUS
    <3>2. PICK r \in Range(rows') : r.id = x /\ ~Inert(r)
      BY <2>1 DEF Listed
    <3>3. rows'[sel'].id = p.id /\ ~Inert(rows'[sel'])
      BY <1>1, <2>1, <3>1, <3>2, RebuildSticks
    <3> QED
      BY <2>1, <3>1, <3>3 DEF Kept
  <2> QED
    BY <2>1
<1> QED
  BY <1>1, Inductive, PTL DEF Spec, SelectionSticks
=============================================================================
