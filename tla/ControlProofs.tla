---------------------------- MODULE ControlProofs ----------------------------
(***************************************************************************)
(* Proofs about the control connection, for every set of well-formed calls *)
(* and every number of changes, commands and broken connections.           *)
(*                                                                         *)
(* The inductive invariant says where each block of the stream belongs     *)
(* (InRange, InOrder, Grouped) and that the reader's place in c.pending is *)
(* the place of the last block it has read (AtReader).  That the matching  *)
(* by order is right (OwnReply) is not inductive without it.  At the end:  *)
(* what tmux announces is kept until it is mirrored (KInv).                *)
(***************************************************************************)
EXTENDS Control, SequenceTheorems, TLAPS

LinesMatch == \A l \in 1..Len(lines) : lines[l].n >= 1 /\ lines[l].n = lines[l].cmds

\* The first block answers the attach, every other one a command of a line.
InRange ==
  \A k \in 1..Len(stream) :
    /\ k = 1 => stream[k].line = 0
    /\ k # 1 => stream[k].line \in 1..Len(lines) /\ stream[k].nth \in 1..lines[stream[k].line].cmds

Follows(b, c) ==
  IF IsLast(b) THEN c.line = b.line + 1 /\ c.nth = 1
  ELSE c.line = b.line /\ c.nth = b.nth + 1

InOrder == \A k \in 1..Len(stream) : k + 1 <= Len(stream) => Follows(stream[k], stream[k + 1])

\* After the last block of a line comes no other of it, nor of a line before.
Grouped ==
  \A j, k \in 1..Len(stream) : j < k =>
    \/ stream[j].line < stream[k].line
    \/ stream[j].line = stream[k].line /\ ~IsLast(stream[j])

\* What the reader has read of line l.
ReadOf(l) == {stream[k] : k \in {j \in 1..read : stream[j].line = l}}

AtReader ==
  reader = "reads" =>
    IF read = 0 THEN hello /\ first = 1 /\ got = 0 /\ part = {}
    ELSE /\ ~hello
         /\ IF IsLast(stream[read])
            THEN first = stream[read].line + 1 /\ got = 0 /\ part = {}
            ELSE first = stream[read].line /\ got = stream[read].nth /\ part = ReadOf(first)

Order == LinesMatch /\ InRange /\ InOrder /\ Grouped /\ AtReader

IInv == TypeOK /\ Order /\ OwnReply

core == <<lines, first, got, part, hello, stream, read, reader, replies>>

-----------------------------------------------------------------------------
(* Sequences.                                                                *)

\* Where the elements of a function on 1..n are, it is a sequence of them.
LEMMA FunSeq ==
  ASSUME NEW S, NEW n \in Nat, NEW f \in [1..n -> S]
  PROVE  f \in Seq(S) /\ Len(f) = n
<1>1. f \in Seq(S)
  BY SeqDef
<1>2. Len(f) \in Nat /\ DOMAIN f = 1..Len(f)
  BY <1>1, LenProperties
<1>3. DOMAIN f = 1..n
  OBVIOUS
<1> QED
  BY <1>1, <1>2, <1>3

\* The line of a re-list is one line of one command.
LEMMA ListingType == Listing \in Seq(Line) /\ Len(Listing) = 1 /\ Listing[1] = [n |-> 1, cmds |-> 1]
<1>1. [n |-> 1, cmds |-> 1] \in Line
  BY DEF Line
<1> QED
  BY <1>1 DEF Listing

\* What a caller can be told is told apart by its kind.
LEMMA ReplyType ==
  /\ Waiting \in Reply /\ Closed \in Reply /\ Waiting.kind # "answer" /\ Closed.kind # "answer"
  /\ \A B \in SUBSET Block, e \in BOOLEAN :
       /\ Answer(B, e) \in Reply /\ Answer(B, e).kind = "answer"
       /\ Answer(B, e).blocks = B /\ Answer(B, e).err = e
  BY DEF Reply, Waiting, Closed, Answer

-----------------------------------------------------------------------------
(* The type invariant.                                                       *)

\* The first states have their types.
LEMMA InitType == Init => TypeOK
<1> SUFFICES ASSUME Init PROVE TypeOK
  OBVIOUS
<1>1. lines \in Seq(Line) /\ Len(lines) = 1
  BY ListingType DEF Init
<1>2. replies \in Seq(Reply) /\ Len(replies) = 1
  BY ReplyType DEF Init
<1>3. stream \in Seq(Block) /\ read \in 0..Len(stream)
  BY EmptySeq DEF Init
<1> QED
  BY <1>1, <1>2, <1>3 DEF Init, TypeOK

\* Lines that are written keep the types of what they add to.
LEMMA SendType ==
  ASSUME TypeOK, NEW new \in Seq(Line), NEW t \in {"relist", "serve"}, Send(new, t)
  PROVE  /\ lines' \in Seq(Line) /\ replies' \in Seq(Reply) /\ Len(replies') = Len(lines')
         /\ await' \in Nat /\ task' \in {"attach", "idle", "relist", "serve", "over"}
<1>1. lines' \in Seq(Line) /\ Len(lines') = Len(lines) + Len(new)
  BY ConcatProperties DEF TypeOK, Send
<1>2. ASSUME NEW r \in Reply, NEW s, s = [i \in DOMAIN new |-> r]
      PROVE  s \in Seq(Reply) /\ Len(s) = Len(new)
  <2>1. DOMAIN new = 1..Len(new) /\ Len(new) \in Nat
    BY LenProperties
  <2>2. s \in [1..Len(new) -> Reply]
    BY <1>2, <2>1
  <2> QED
    BY <2>1, <2>2, FunSeq
<1>3. PICK r \in {Waiting, Closed} : replies' = replies \o [i \in DOMAIN new |-> r]
  BY DEF Send
<1>4. r \in Reply
  BY ReplyType
<1>5. replies' \in Seq(Reply) /\ Len(replies') = Len(replies) + Len(new)
  <2> DEFINE s == [i \in DOMAIN new |-> r]
  <2>1. s \in Seq(Reply) /\ Len(s) = Len(new)
    BY <1>2, <1>4
  <2>2. replies' = replies \o s
    BY <1>3
  <2>3. replies \in Seq(Reply)
    BY DEF TypeOK
  <2> HIDE DEF s
  <2>4. replies \o s \in Seq(Reply) /\ Len(replies \o s) = Len(replies) + Len(s)
    BY <2>1, <2>3, ConcatProperties
  <2> QED
    BY <2>1, <2>2, <2>4
<1>6. Len(lines') \in Nat
  BY <1>1, LenProperties
<1> QED
  BY <1>1, <1>5, <1>6 DEF TypeOK, Send

\* Every step keeps the types.
LEMMA TypeStep == ASSUME WellFormed, TypeOK, [Next]_vars PROVE TypeOK'
<1> USE DEF conn, loop, mirror
<1>1. CASE Runs
  <2>1. Upcoming[1] \in Nat /\ Upcoming[2] \in Nat
    <3>1. CASE stream = <<>>
      BY <3>1 DEF Upcoming
    <3>2. CASE stream # <<>>
      <4>1. stream[Len(stream)] \in Block
        BY <3>2, EmptySeq, ElementOfSeq, LenProperties DEF TypeOK
      <4> QED
        BY <3>2, <4>1 DEF Upcoming, Block
    <3> QED
      BY <3>1, <3>2
  <2>2. PICK err \in BOOLEAN :
          stream' = Append(stream, [line |-> Upcoming[1], nth |-> Upcoming[2], err |-> err])
    BY <1>1 DEF Runs
  <2>3. [line |-> Upcoming[1], nth |-> Upcoming[2], err |-> err] \in Block
    BY <2>1 DEF Block
  <2>4. stream' \in Seq(Block) /\ Len(stream') = Len(stream) + 1
    BY <2>2, <2>3, AppendProperties DEF TypeOK
  <2>5. read' \in 0..Len(stream')
    BY <1>1, <2>4, LenProperties DEF Runs, TypeOK
  <2> QED
    BY <1>1, <2>4, <2>5 DEF Runs, TypeOK
<1>2. CASE Changes
  <2>1. world' \in Nat
    BY <1>2 DEF Changes, TypeOK
  <2>2. told' \in {told, world'} /\ news' \in {news, TRUE}
    BY <1>2, Zenon DEF Changes
  <2>3. UNCHANGED <<conn, kick, loop, ends, listed, seen>>
    BY <1>2 DEF Changes
  <2> QED
    BY <2>1, <2>2, <2>3 DEF TypeOK
<1>3. CASE Ends
  BY <1>3 DEF Ends, TypeOK
<1>4. CASE Asks
  BY <1>4 DEF Asks, TypeOK
<1>5. CASE ReadsBlock
  <2>1. read' \in 0..Len(stream')
    BY <1>5, LenProperties DEF ReadsBlock, TypeOK
  <2>2. stream[read + 1] \in Block
    BY <1>5, ElementOfSeq, LenProperties DEF ReadsBlock, TypeOK
  <2>3. CASE UNCHANGED <<first, got, part, replies>>
    BY <1>5, <2>1, <2>3 DEF ReadsBlock, TypeOK
  <2>4. CASE first <= Len(lines) /\ ~hello /\ DeliverTo(stream[read + 1])
    <3>1. part \union {stream[read + 1]} \subseteq Block
      BY <2>2 DEF TypeOK
    <3>2. first' \in Nat /\ got' \in Nat /\ part' \subseteq Block
      BY <2>4, <3>1 DEF DeliverTo, TypeOK
    <3>3. replies' \in Seq(Reply) /\ Len(replies') = Len(replies)
      <4>1. CASE replies' = replies
        BY <4>1 DEF TypeOK
      <4>2. CASE first >= await /\ replies' = [replies EXCEPT ![first] =
                    Answer(part \union {stream[read + 1]}, stream[read + 1].err)]
        <5>1. Answer(part \union {stream[read + 1]}, stream[read + 1].err) \in Reply
          BY <2>2, <3>1, ReplyType DEF Block
        <5>2. CASE first = 0
          <6>1. replies \in Seq(Reply) /\ DOMAIN replies = 1..Len(replies)
            BY LenProperties DEF TypeOK
          <6>2. replies' = replies
            BY <4>2, <5>2, <6>1
          <6> QED
            BY <6>1, <6>2
        <5>3. CASE first \in 1..Len(replies)
          BY <4>2, <5>1, <5>3, ExceptSeq DEF TypeOK
        <5> QED
          BY <2>4, <5>2, <5>3, LenProperties DEF TypeOK
      <4> QED
        BY <2>4, <4>1, <4>2 DEF DeliverTo, TypeOK
    <3> QED
      BY <1>5, <2>1, <3>2, <3>3 DEF ReadsBlock, TypeOK
  <2> QED
    BY <1>5, <2>3, <2>4 DEF ReadsBlock
<1>6. CASE ReadsNews
  BY <1>6 DEF ReadsNews, TypeOK
<1>7. CASE ReadsEnd
  <2>1. DOMAIN replies = 1..Len(replies) /\ Len(replies) \in Nat /\ replies \in [1..Len(replies) -> Reply]
    BY LenProperties DEF TypeOK
  <2>2. replies' \in [1..Len(replies) -> Reply]
    BY <1>7, <2>1, ReplyType DEF ReadsEnd
  <2>3. replies' \in Seq(Reply) /\ Len(replies') = Len(replies)
    BY <2>1, <2>2, FunSeq
  <2> QED
    BY <1>7, <2>3, LenProperties DEF ReadsEnd, TypeOK
<1>8. CASE ClosesDone
  BY <1>8 DEF ClosesDone, TypeOK
<1>9. CASE Takes
  <2>1. PICK reply \in {replies[await], Closed} :
          /\ replies' = [replies EXCEPT ![await] = reply]
          /\ IF await = Len(lines) THEN Concludes(reply) ELSE UNCHANGED <<task, seen>>
    BY <1>9 DEF Takes
  <2>2. replies' \in Seq(Reply) /\ Len(replies') = Len(replies)
    <3>1. DOMAIN replies = 1..Len(replies) /\ Len(replies) \in Nat
      BY LenProperties DEF TypeOK
    <3>2. CASE await = 0
      <4>1. replies' = replies
        BY <2>1, <3>1, <3>2, LenProperties DEF TypeOK
      <4> QED
        BY <4>1 DEF TypeOK
    <3>3. CASE await \in 1..Len(replies)
      <4>1. reply \in Reply
        BY <2>1, <3>3, ElementOfSeq, ReplyType DEF TypeOK
      <4> QED
        BY <2>1, <3>3, <4>1, ExceptSeq DEF TypeOK
    <3> QED
      BY <1>9, <3>1, <3>2, <3>3 DEF Takes, TypeOK
  <2>3. task' \in {"attach", "idle", "relist", "serve", "over"} /\ seen' \in Nat
    BY <2>1 DEF Concludes, TypeOK
  <2>4. await' \in Nat /\ UNCHANGED <<lines, first, got, part, hello, stream, read, ended, reader,
                       news, kick, fire, asks, asked, ends, world, told, listed>>
    BY <1>9 DEF Takes, TypeOK
  <2> QED
    BY <2>2, <2>3, <2>4 DEF TypeOK
<1>10. CASE TakesKick
  BY <1>10 DEF TakesKick, TypeOK
<1>11. CASE Fires
  <2>1. Send(Listing, "relist")
    BY <1>11 DEF Fires
  <2> QED
    BY <1>11, <2>1, SendType, ListingType DEF Fires, Send, TypeOK
<1>12. CASE Serves
  <2>1. PICK call \in Calls : Send(Live(call), "serve")
    BY <1>12 DEF Serves
  <2>2. Live(call) \in Seq(Line)
    BY DEF WellFormed
  <2>3. asks' \in Nat
    BY <1>12 DEF Serves, TypeOK
  <2> QED
    BY <1>12, <2>1, <2>2, <2>3, SendType DEF Serves, Send, TypeOK
<1>13. CASE Redials
  <2>1. lines' \in Seq(Line) /\ Len(lines') = 1
    BY <1>13, ListingType DEF Redials, Dialled
  <2>2. replies' \in Seq(Reply) /\ Len(replies') = 1
    BY <1>13, ReplyType DEF Redials, Dialled
  <2>3. stream' \in Seq(Block) /\ read' \in 0..Len(stream')
    BY <1>13, EmptySeq DEF Redials, Dialled
  <2> QED
    BY <1>13, <2>1, <2>2, <2>3 DEF Redials, Dialled, TypeOK
<1>14. CASE UNCHANGED vars
  BY <1>14 DEF vars, TypeOK
<1> QED
  BY <1>1, <1>2, <1>3, <1>4, <1>5, <1>6, <1>7, <1>8, <1>9, <1>10, <1>11, <1>12, <1>13, <1>14
     DEF Next, Tmux, Reader, Loop

-----------------------------------------------------------------------------
(* Where the blocks are.                                                     *)

\* Lines that are added change nothing for the blocks of those before.
LEMMA LastStays ==
  ASSUME TypeOK, NEW new \in Seq(Line), lines' = lines \o new,
         NEW b \in Block, b.line <= Len(lines)
  PROVE  /\ (b.err \/ b.line = 0 \/ b.nth = lines'[b.line].cmds) <=> IsLast(b)
         /\ b.line > 0 => lines'[b.line] = lines[b.line]
<1>1. b.line > 0 => lines'[b.line] = lines[b.line]
  BY ConcatProperties DEF TypeOK, Block
<1> QED
  BY <1>1 DEF IsLast, Block

\* In the first states nothing is out of order.
LEMMA InitOrder == Init => Order /\ OwnReply
<1> SUFFICES ASSUME Init PROVE Order /\ OwnReply
  OBVIOUS
<1>1. Len(lines) = 1 /\ lines[1] = [n |-> 1, cmds |-> 1]
  BY ListingType DEF Init
<1>2. Len(stream) = 0
  BY EmptySeq DEF Init
<1>3. LinesMatch
  BY <1>1 DEF LinesMatch
<1>4. InRange /\ InOrder /\ Grouped
  BY <1>2 DEF InRange, InOrder, Grouped
<1>5. AtReader
  BY DEF Init, AtReader
<1>6. OwnReply
  BY <1>1, ReplyType DEF Init, OwnReply
<1> QED
  BY <1>3, <1>4, <1>5, <1>6 DEF Order

\* A step that leaves the connection alone keeps the order.
LEMMA CoreStays == ASSUME Order, OwnReply, UNCHANGED core PROVE Order' /\ OwnReply'
<1>1. /\ lines' = lines /\ stream' = stream /\ replies' = replies /\ read' = read
      /\ reader' = reader /\ first' = first /\ got' = got /\ part' = part /\ hello' = hello
  BY DEF core
<1>2. LinesMatch' /\ InRange' /\ InOrder' /\ Grouped'
  BY <1>1 DEF Order, LinesMatch, InRange, InOrder, Grouped, Follows, IsLast
<1>3. \A l : ReadOf(l)' = ReadOf(l) /\ BlocksOf(l)' = BlocksOf(l)
  BY <1>1 DEF ReadOf, BlocksOf
<1>4. AtReader'
  <2>1. AtReader
    BY DEF Order
  <2> QED
    BY <1>1, <1>3, <2>1 DEF AtReader, IsLast
<1>5. OwnReply'
  BY <1>1, <1>3 DEF OwnReply, IsLast
<1> QED
  BY <1>2, <1>4, <1>5 DEF Order

\* tmux writes a block.
LEMMA RunsOrder == ASSUME TypeOK, Order, OwnReply, Runs PROVE Order' /\ OwnReply'
<1> USE DEF Order
<1>1. PICK e \in BOOLEAN :
        /\ e => Upcoming[1] > 0
        /\ stream' = Append(stream, [line |-> Upcoming[1], nth |-> Upcoming[2], err |-> e])
  BY DEF Runs
<1> DEFINE b == [line |-> Upcoming[1], nth |-> Upcoming[2], err |-> e]
<1>2. b.line = Upcoming[1] /\ b.nth = Upcoming[2] /\ b.err = e
  OBVIOUS
<1> HIDE DEF b
<1>3. Len(stream) \in Nat /\ stream \in Seq(Block)
  BY LenProperties DEF TypeOK
<1>4. /\ Len(stream') = Len(stream) + 1
      /\ stream'[Len(stream) + 1] = b
      /\ \A k \in 1..Len(stream) : stream'[k] = stream[k]
  <2>1. \A x : /\ Len(Append(stream, x)) = Len(stream) + 1
               /\ Append(stream, x)[Len(stream) + 1] = x
               /\ \A k \in 1..Len(stream) : Append(stream, x)[k] = stream[k]
    BY <1>3
  <2> QED
    BY <1>1, <2>1 DEF b
<1>5. \A k \in 1..Len(stream) : stream[k] \in Block
  BY <1>3, ElementOfSeq
<1>6. /\ lines' = lines /\ replies' = replies /\ reader' = reader /\ read' = read
      /\ first' = first /\ got' = got /\ part' = part /\ hello' = hello
  BY DEF Runs
<1>7. \A c : IsLast(c) <=> (c.err \/ c.line = 0 \/ c.nth = lines'[c.line].cmds)
  BY <1>6 DEF IsLast
<1>8. read \in 0..Len(stream)
  BY DEF TypeOK
<1>9. CASE Len(stream) = 0
  <2>1. stream = <<>>
    BY <1>3, <1>9, EmptySeq
  <2>2. b.line = 0 /\ ~b.err
    BY <1>1, <1>2, <2>1 DEF Upcoming
  <2>3. InRange'
    BY <1>4, <1>9, <2>2 DEF InRange
  <2>4. InOrder' /\ Grouped'
    BY <1>4, <1>9 DEF InOrder, Grouped
  <2>5. AtReader'
    BY <1>6, <1>8, <1>9 DEF AtReader
  <2>6. OwnReply'
    <3>1. \A l : BlocksOf(l) = {}
      BY <1>9 DEF BlocksOf
    <3> QED
      BY <1>6, <3>1 DEF OwnReply
  <2>7. LinesMatch'
    BY <1>6 DEF LinesMatch
  <2> QED
    BY <2>3, <2>4, <2>5, <2>6, <2>7
<1>10. CASE Len(stream) > 0
  <2> DEFINE a == stream[Len(stream)]
  <2>1. a \in Block /\ stream # <<>>
    BY <1>3, <1>5, <1>10, EmptySeq
  <2>2. Follows(a, b)
    BY <1>2, <2>1 DEF Upcoming, Follows
  <2>3. b.line \in 1..Len(lines) /\ b.nth \in 1..lines[b.line].cmds
    <3>1. b.line <= Len(lines)
      BY <1>2 DEF Runs
    <3>2. CASE IsLast(a)
      <4>1. b.line = a.line + 1 /\ b.nth = 1
        BY <2>2, <3>2 DEF Follows
      <4>2. b.line \in 1..Len(lines)
        BY <2>1, <3>1, <4>1, LenProperties DEF TypeOK, Block
      <4>3. lines[b.line] \in Line /\ lines[b.line].cmds >= 1
        BY <4>2, ElementOfSeq DEF TypeOK, LinesMatch
      <4> QED
        BY <4>1, <4>2, <4>3 DEF Line
    <3>3. CASE ~IsLast(a)
      <4>1. b.line = a.line /\ b.nth = a.nth + 1
        BY <2>2, <3>3 DEF Follows
      <4>2. Len(stream) # 1
        <5> SUFFICES ASSUME Len(stream) = 1 PROVE FALSE
          OBVIOUS
        <5>1. a.line = 0
          BY DEF InRange
        <5> QED
          BY <3>3, <5>1 DEF IsLast
      <4>3. a.line \in 1..Len(lines) /\ a.nth \in 1..lines[a.line].cmds
        <5>1. Len(stream) \in 1..Len(stream) /\ Len(stream) # 1
          BY <1>3, <1>10, <4>2
        <5> QED
          BY <5>1 DEF InRange
      <4>4. lines[a.line] \in Line
        BY <4>3, ElementOfSeq DEF TypeOK
      <4>5. a.nth # lines[a.line].cmds
        BY <3>3 DEF IsLast
      <4> QED
        BY <4>1, <4>3, <4>4, <4>5 DEF Line
    <3> QED
      BY <3>2, <3>3
  <2>4. LinesMatch'
    BY <1>6 DEF LinesMatch
  <2>5. InRange'
    BY <1>3, <1>4, <1>6, <1>10, <2>3 DEF InRange
  <2>6. InOrder'
    BY <1>3, <1>4, <1>6, <1>10, <2>2 DEF InOrder, Follows, IsLast
  <2>7. Grouped'
    <3>1. ASSUME NEW j \in 1..Len(stream)
          PROVE  stream[j].line < b.line \/ (stream[j].line = b.line /\ ~IsLast(stream[j]))
      <4>1. stream[j].line \in Nat /\ a.line \in Nat
        BY <1>5, <2>1 DEF Block
      <4>2. a.line < b.line \/ (a.line = b.line /\ ~IsLast(a))
        BY <2>2, <4>1 DEF Follows
      <4>3. j = Len(stream) \/ stream[j].line < a.line
              \/ (stream[j].line = a.line /\ ~IsLast(stream[j]))
        BY <1>3, <1>10 DEF Grouped
      <4> QED
        BY <2>3, <4>1, <4>2, <4>3
    <3>2. SUFFICES ASSUME NEW j \in 1..(Len(stream) + 1), NEW k \in 1..(Len(stream) + 1), j < k
                   PROVE  \/ stream'[j].line < stream'[k].line
                          \/ stream'[j].line = stream'[k].line /\ ~IsLast(stream'[j])
      BY <1>4, <1>6 DEF Grouped, IsLast
    <3>3. j \in 1..Len(stream) /\ stream'[j] = stream[j]
      BY <1>3, <1>4, <3>2
    <3>4. CASE k = Len(stream) + 1
      BY <1>4, <3>1, <3>3, <3>4
    <3>5. CASE k \in 1..Len(stream)
      BY <1>4, <3>2, <3>3, <3>5 DEF Grouped
    <3> QED
      BY <1>3, <3>4, <3>5
  <2>8. AtReader'
    <3>1. \A l : ReadOf(l)' = ReadOf(l)
      BY <1>3, <1>4, <1>6, <1>8 DEF ReadOf
    <3>2. read # 0 => stream'[read] = stream[read]
      BY <1>4, <1>8
    <3> QED
      BY <1>6, <3>1, <3>2 DEF AtReader, IsLast
  <2>9. OwnReply'
    <3>1. SUFFICES ASSUME NEW l \in 1..Len(lines), replies[l].kind = "answer"
                   PROVE  /\ replies[l].blocks = BlocksOf(l)'
                          /\ \E c \in BlocksOf(l)' : IsLast(c) /\ (replies[l].err <=> c.err)
      BY <1>6 DEF OwnReply, IsLast
    <3>2. PICK c \in BlocksOf(l) : IsLast(c) /\ (replies[l].err <=> c.err)
      BY <3>1 DEF OwnReply
    <3>3. PICK k \in 1..Len(stream) : stream[k] = c /\ c.line = l
      BY <3>2 DEF BlocksOf
    <3>4. b.line # l
      <4>1. a.line \in Nat /\ l \in Nat /\ b.line \in Nat
        BY <2>1, <2>3 DEF Block
      <4>2. l <= a.line /\ (l = a.line => IsLast(a))
        BY <1>3, <1>10, <3>2, <3>3, <4>1 DEF Grouped
      <4> QED
        BY <2>2, <4>1, <4>2 DEF Follows
    <3>5. BlocksOf(l)' = BlocksOf(l)
      BY <1>3, <1>4, <3>4 DEF BlocksOf
    <3> QED
      BY <3>1, <3>2, <3>5 DEF OwnReply
  <2> QED
    BY <2>4, <2>5, <2>6, <2>7, <2>8, <2>9
<1> QED
  BY <1>3, <1>9, <1>10

\* The loop writes lines.
LEMMA SendOrder ==
  ASSUME TypeOK, Order, OwnReply, NEW new \in Seq(Line), NEW t, Send(new, t),
         \A i \in 1..Len(new) : new[i].n >= 1 /\ new[i].n = new[i].cmds
  PROVE  Order' /\ OwnReply'
<1> USE DEF Order
<1>1. /\ lines' = lines \o new /\ stream' = stream /\ reader' = reader /\ read' = read
      /\ first' = first /\ got' = got /\ part' = part /\ hello' = hello
  BY DEF Send
<1>2. /\ Len(lines') = Len(lines) + Len(new)
      /\ \A l \in 1..Len(lines') : lines'[l] = IF l <= Len(lines) THEN lines[l] ELSE new[l - Len(lines)]
      /\ Len(lines) \in Nat /\ Len(new) \in Nat /\ Len(stream) \in Nat
  BY <1>1, ConcatProperties, LenProperties DEF TypeOK
<1>3. \A k \in 1..Len(stream) :
        /\ stream[k] \in Block /\ stream[k].line \in 0..Len(lines)
        /\ IsLast(stream[k])' <=> IsLast(stream[k])
  <2> SUFFICES ASSUME NEW k \in 1..Len(stream)
               PROVE  /\ stream[k] \in Block /\ stream[k].line \in 0..Len(lines)
                      /\ IsLast(stream[k])' <=> IsLast(stream[k])
    OBVIOUS
  <2>1. stream[k] \in Block
    BY ElementOfSeq DEF TypeOK
  <2>2. stream[k].line \in 0..Len(lines)
    BY <1>2 DEF InRange
  <2> QED
    BY <1>1, <2>1, <2>2, LastStays DEF IsLast
<1>4. LinesMatch'
  <2> SUFFICES ASSUME NEW l \in 1..Len(lines') PROVE lines'[l].n >= 1 /\ lines'[l].n = lines'[l].cmds
    BY DEF LinesMatch
  <2>1. CASE l <= Len(lines)
    BY <1>2, <2>1 DEF LinesMatch
  <2>2. CASE l > Len(lines)
    <3>1. l - Len(lines) \in 1..Len(new)
      BY <1>2, <2>2
    <3> QED
      BY <1>2, <2>2, <3>1
  <2> QED
    BY <1>2, <2>1, <2>2
<1>5. InRange'
  <2>1. \A k \in 1..Len(stream) : k # 1 => lines'[stream[k].line] = lines[stream[k].line]
    BY <1>2 DEF InRange
  <2> QED
    BY <1>1, <1>2, <2>1 DEF InRange
<1>6. InOrder' /\ Grouped'
  <2>1. \A k \in 1..Len(stream) : IsLast(stream[k])' <=> IsLast(stream[k])
    BY <1>3, Zenon
  <2>2. \A k \in 1..Len(stream) : k + 1 <= Len(stream) => Follows(stream[k], stream[k + 1])'
    <3> SUFFICES ASSUME NEW k \in 1..Len(stream), k + 1 <= Len(stream)
                 PROVE  Follows(stream[k], stream[k + 1])'
      OBVIOUS
    <3>1. Follows(stream[k], stream[k + 1])
      BY DEF InOrder
    <3>2. stream'[k] = stream[k] /\ stream'[k + 1] = stream[k + 1]
      BY <1>1
    <3> QED
      BY <2>1, <3>1, <3>2 DEF Follows
  <2>3. InOrder'
    BY <1>1, <2>2 DEF InOrder
  <2>4. Grouped'
    BY <1>1, <2>1 DEF Grouped
  <2> QED
    BY <2>3, <2>4
<1>7. AtReader'
  <2>1. \A l : ReadOf(l)' = ReadOf(l)
    BY <1>1 DEF ReadOf
  <2>2. read # 0 => read \in 1..Len(stream)
    BY <1>2 DEF TypeOK
  <2> QED
    BY <1>1, <1>3, <2>1, <2>2 DEF AtReader
<1>8. OwnReply'
  <2>1. \A l : BlocksOf(l)' = BlocksOf(l)
    BY <1>1 DEF BlocksOf
  <2>2. ASSUME NEW l \in 1..Len(lines'), replies'[l].kind = "answer"
        PROVE  l \in 1..Len(lines) /\ replies'[l] = replies[l]
    <3>1. PICK r \in {Waiting, Closed} : replies' = replies \o [i \in DOMAIN new |-> r]
      BY DEF Send
    <3> DEFINE s == [i \in DOMAIN new |-> r]
    <3>2. DOMAIN new = 1..Len(new) /\ r \in Reply /\ r.kind # "answer"
      BY LenProperties, ReplyType
    <3>3. s \in [1..Len(new) -> Reply]
      BY <3>2
    <3>4. s \in Seq(Reply) /\ Len(s) = Len(new) /\ \A i \in 1..Len(new) : s[i] = r
      BY <1>2, <3>2, <3>3, FunSeq
    <3>5. replies' = replies \o s
      BY <3>1
    <3> HIDE DEF s
    <3>6. replies \in Seq(Reply) /\ Len(replies) = Len(lines)
      BY DEF TypeOK
    <3>7. replies'[l] = IF l <= Len(lines) THEN replies[l] ELSE s[l - Len(lines)]
      BY <1>2, <3>4, <3>5, <3>6, ConcatProperties
    <3>8. l <= Len(lines)
      <4> SUFFICES ASSUME l > Len(lines) PROVE FALSE
        BY <1>2
      <4>1. l - Len(lines) \in 1..Len(new)
        BY <1>2
      <4> QED
        BY <1>2, <2>2, <3>2, <3>4, <3>7, <4>1
    <3> QED
      BY <1>2, <3>7, <3>8
  <2>3. SUFFICES ASSUME NEW l \in 1..Len(lines'), replies'[l].kind = "answer"
                 PROVE  /\ replies'[l].blocks = BlocksOf(l)
                        /\ \E c \in BlocksOf(l) : IsLast(c)' /\ (replies'[l].err <=> c.err)
    BY <2>1 DEF OwnReply, IsLast
  <2>4. l \in 1..Len(lines) /\ replies'[l] = replies[l]
    BY <2>2, <2>3
  <2>5. PICK c \in BlocksOf(l) : IsLast(c) /\ (replies[l].err <=> c.err)
    BY <2>3, <2>4 DEF OwnReply
  <2>6. PICK k \in 1..Len(stream) : stream[k] = c
    BY <2>5 DEF BlocksOf
  <2>7. IsLast(stream[k])'
    BY <1>3, <2>5, <2>6
  <2>8. c.err \/ c.line = 0 \/ c.nth = lines'[c.line].cmds
    BY <1>1, <2>6, <2>7 DEF IsLast
  <2> QED
    BY <2>3, <2>4, <2>5, <2>8 DEF OwnReply, IsLast
<1> QED
  BY <1>4, <1>5, <1>6, <1>7, <1>8

\* The reader takes a block.
LEMMA ReadsBlockOrder == ASSUME TypeOK, Order, OwnReply, ReadsBlock PROVE Order' /\ OwnReply'
<1> USE DEF Order
<1> DEFINE b == stream[read + 1]
<1>1. /\ lines' = lines /\ stream' = stream /\ reader' = reader /\ await' = await
      /\ reader = "reads" /\ read' = read + 1 /\ read < Len(stream)
  BY DEF ReadsBlock
<1>2. /\ Len(stream) \in Nat /\ read \in Nat /\ read + 1 \in 1..Len(stream) /\ b \in Block
      /\ Len(lines) \in Nat
  BY <1>1, LenProperties, ElementOfSeq DEF TypeOK
<1>3. LinesMatch' /\ InRange' /\ InOrder' /\ Grouped'
  BY <1>1 DEF LinesMatch, InRange, InOrder, Grouped, Follows, IsLast
<1>4. \A l : BlocksOf(l)' = BlocksOf(l)
  BY <1>1 DEF BlocksOf
<1>5. CASE hello
  <2>1. read = 0
    BY <1>1, <1>5 DEF AtReader
  <2>2. first' = first /\ got' = got /\ part' = part /\ replies' = replies /\ hello' = FALSE
    BY <1>5 DEF ReadsBlock
  <2>3. first = 1 /\ got = 0 /\ part = {}
    BY <1>1, <2>1 DEF AtReader
  <2>4. b.line = 0
    BY <1>2, <2>1 DEF InRange
  <2>5. AtReader'
    BY <1>1, <2>1, <2>2, <2>3, <2>4 DEF AtReader, IsLast
  <2>6. OwnReply'
    BY <1>1, <1>4, <2>2 DEF OwnReply, IsLast
  <2> QED
    BY <1>3, <2>5, <2>6
<1>6. CASE ~hello
  <2> DEFINE a == stream[read]
  <2>1. read # 0 /\ read \in 1..Len(stream) /\ a \in Block
    <3>1. read # 0
      BY <1>1, <1>6 DEF AtReader
    <3> QED
      BY <1>2, <3>1, ElementOfSeq DEF TypeOK
  <2>2. IF IsLast(a) THEN first = a.line + 1 /\ got = 0 /\ part = {}
        ELSE first = a.line /\ got = a.nth /\ part = ReadOf(first)
    BY <1>1, <2>1 DEF AtReader
  <2>3. Follows(a, b)
    BY <1>2, <2>1 DEF InOrder
  <2>4. b.line = first /\ b.nth = got + 1
    BY <2>2, <2>3 DEF Follows
  <2>5. first \in 1..Len(lines) /\ got + 1 \in 1..lines[first].cmds
    BY <1>2, <2>1, <2>4 DEF InRange
  <2>6. lines[first] \in Line /\ lines[first].n = lines[first].cmds
    BY <2>5, ElementOfSeq DEF TypeOK, LinesMatch
  <2>7. part = ReadOf(first)
    <3>1. CASE ~IsLast(a)
      BY <2>2, <3>1
    <3>2. CASE IsLast(a)
      <4>1. \A j \in 1..read : stream[j].line <= a.line
        <5> SUFFICES ASSUME NEW j \in 1..read PROVE stream[j].line <= a.line
          OBVIOUS
        <5>1. stream[j].line \in Nat /\ a.line \in Nat
          <6>1. j \in 1..Len(stream)
            BY <1>2, <2>1
          <6>2. stream[j] \in Block
            BY <6>1, ElementOfSeq DEF TypeOK
          <6> QED
            BY <2>1, <6>2 DEF Block
        <5> QED
          BY <1>2, <2>1, <5>1 DEF Grouped
      <4>2. first = a.line + 1 /\ part = {} /\ a.line \in Nat
        BY <2>1, <2>2, <3>2 DEF Block
      <4>3. \A j \in 1..read : stream[j].line # first
        <5> SUFFICES ASSUME NEW j \in 1..read PROVE stream[j].line # first
          OBVIOUS
        <5>1. stream[j].line \in Nat
          <6>1. j \in 1..Len(stream)
            BY <1>2, <2>1
          <6>2. stream[j] \in Block
            BY <6>1, ElementOfSeq DEF TypeOK
          <6> QED
            BY <2>1, <6>2 DEF Block
        <5> QED
          BY <4>1, <4>2, <5>1
      <4> QED
        BY <4>2, <4>3 DEF ReadOf
    <3> QED
      BY <3>1, <3>2
  <2>8. ReadOf(first)' = {stream[k] : k \in {j \in 1..(read + 1) : stream[j].line = first'}}
    BY <1>1 DEF ReadOf
  <2>9. part \union {b} = {stream[k] : k \in {j \in 1..(read + 1) : stream[j].line = first}}
    <3>1. 1..(read + 1) = 1..read \union {read + 1}
      BY <1>2
    <3> QED
      BY <2>4, <2>7, <3>1 DEF ReadOf
  <2>10. DeliverTo(b) /\ hello' = FALSE
    BY <1>6, <2>5 DEF ReadsBlock
  <2>11. IsLast(b) <=> (b.err \/ got + 1 = lines[first].n)
    BY <2>4, <2>5, <2>6 DEF IsLast
  <2>12. CASE ~IsLast(b)
    <3>1. ~b.err /\ got + 1 < lines[first].n
      BY <1>2, <2>5, <2>6, <2>11, <2>12 DEF Line
    <3>2. got' = got + 1 /\ part' = part \union {b} /\ first' = first /\ replies' = replies
      BY <2>10, <3>1 DEF DeliverTo
    <3>3. part' = ReadOf(first)'
      BY <2>8, <2>9, <3>2
    <3>4. AtReader'
      <4>1. read' # 0 /\ stream'[read'] = b
        BY <1>1, <1>2
      <4>2. ~IsLast(stream[read])'
        BY <1>1, <2>12, <4>1 DEF IsLast
      <4> QED
        BY <2>4, <2>10, <3>2, <3>3, <4>1, <4>2 DEF AtReader
    <3>5. OwnReply'
      BY <1>1, <1>4, <3>2 DEF OwnReply, IsLast
    <3> QED
      BY <1>3, <3>4, <3>5
  <2>13. CASE IsLast(b)
    <3>1. ~(~b.err /\ got + 1 < lines[first].n)
      BY <2>6, <2>11, <2>13 DEF Line
    <3>2. /\ first' = first + 1 /\ got' = 0 /\ part' = {}
          /\ \/ replies' = replies
             \/ replies' = [replies EXCEPT ![first] = Answer(part \union {b}, b.err)]
      BY <2>10, <3>1 DEF DeliverTo
    <3>3. AtReader'
      <4>1. read' # 0 /\ stream'[read'] = b
        BY <1>1, <1>2
      <4>2. IsLast(stream[read])'
        BY <1>1, <2>13, <4>1 DEF IsLast
      <4> QED
        BY <2>4, <2>10, <3>2, <4>1, <4>2 DEF AtReader
    <3>4. part \union {b} = BlocksOf(first)
      <4>1. \A k \in 1..Len(stream) : stream[k].line = first => k \in 1..(read + 1)
        <5> SUFFICES ASSUME NEW k \in 1..Len(stream), stream[k].line = first, k > read + 1 PROVE FALSE
          BY <1>2
        <5> QED
          BY <1>2, <2>4, <2>5, <2>13 DEF Grouped
      <4>2. {j \in 1..Len(stream) : stream[j].line = first}
              = {j \in 1..(read + 1) : stream[j].line = first}
        BY <1>2, <4>1
      <4> QED
        BY <2>9, <4>2 DEF BlocksOf
    <3>5. OwnReply'
      <4>1. CASE replies' = replies
        BY <1>1, <1>4, <4>1 DEF OwnReply, IsLast
      <4>2. CASE replies' = [replies EXCEPT ![first] = Answer(part \union {b}, b.err)]
        <5>1. \A l \in 1..Len(lines) :
                replies'[l] = IF l = first THEN Answer(part \union {b}, b.err) ELSE replies[l]
          BY <4>2, LenProperties DEF TypeOK
        <5>2. /\ Answer(part \union {b}, b.err).blocks = part \union {b}
              /\ Answer(part \union {b}, b.err).err = b.err
          BY DEF Answer
        <5>3. b \in BlocksOf(first)
          BY <3>4
        <5>4. SUFFICES ASSUME NEW l \in 1..Len(lines), replies'[l].kind = "answer"
                       PROVE  /\ replies'[l].blocks = BlocksOf(l)
                              /\ \E c \in BlocksOf(l) : IsLast(c) /\ (replies'[l].err <=> c.err)
          BY <1>1, <1>4 DEF OwnReply, IsLast
        <5>5. CASE l = first
          BY <2>13, <3>4, <5>1, <5>2, <5>3, <5>5
        <5>6. CASE l # first
          BY <5>1, <5>4, <5>6 DEF OwnReply
        <5> QED
          BY <5>5, <5>6
      <4> QED
        BY <3>2, <4>1, <4>2
    <3> QED
      BY <1>3, <3>3, <3>5
  <2> QED
    BY <2>12, <2>13
<1> QED
  BY <1>5, <1>6 DEF TypeOK

\* Answers are not changed by the end of the stream, nor by the caller that
\* takes them or gives up.
LEMMA RepliesOrder ==
  ASSUME TypeOK, Order, OwnReply, lines' = lines, stream' = stream, AtReader',
         \A l \in 1..Len(lines) : replies'[l] = replies[l] \/ replies'[l] = Closed,
         read' = read
  PROVE  Order' /\ OwnReply'
<1>1. LinesMatch' /\ InRange' /\ InOrder' /\ Grouped'
  BY DEF Order, LinesMatch, InRange, InOrder, Grouped, Follows, IsLast
<1>2. \A l : BlocksOf(l)' = BlocksOf(l)
  BY DEF BlocksOf
<1>3. OwnReply'
  BY <1>2, ReplyType DEF OwnReply, IsLast
<1> QED
  BY <1>1, <1>3 DEF Order

-----------------------------------------------------------------------------
(* The invariant and the theorems.                                           *)

\* Every step keeps the order of blocks, and whose answers are whose.
LEMMA OrderStep == ASSUME WellFormed, IInv, [Next]_vars PROVE Order' /\ OwnReply'
<1> USE DEF IInv
<1>1. CASE Runs
  BY <1>1, RunsOrder
<1>2. CASE ReadsBlock
  BY <1>2, ReadsBlockOrder
<1>3. CASE Changes \/ Ends \/ Asks \/ ReadsNews \/ TakesKick \/ UNCHANGED vars
  <2>1. UNCHANGED core
    BY <1>3 DEF Changes, Ends, Asks, ReadsNews, TakesKick, vars, conn, core
  <2> QED
    BY <2>1, CoreStays
<1>4. CASE ClosesDone
  <2>1. AtReader'
    BY <1>4 DEF ClosesDone, AtReader
  <2> QED
    BY <1>4, <2>1, RepliesOrder DEF ClosesDone
<1>5. CASE ReadsEnd
  <2>1. AtReader'
    BY <1>5 DEF ReadsEnd, AtReader
  <2>2. \A l \in 1..Len(lines) : replies'[l] = replies[l] \/ replies'[l] = Closed
    BY <1>5, LenProperties DEF ReadsEnd, TypeOK
  <2> QED
    BY <1>5, <2>1, <2>2, RepliesOrder DEF ReadsEnd
<1>6. CASE Takes
  <2>1. /\ lines' = lines /\ stream' = stream /\ read' = read /\ reader' = reader
        /\ first' = first /\ got' = got /\ part' = part /\ hello' = hello
    BY <1>6 DEF Takes
  <2>2. AtReader'
    <3>1. AtReader
      BY DEF Order
    <3>2. \A l : ReadOf(l)' = ReadOf(l)
      BY <2>1 DEF ReadOf
    <3> QED
      BY <2>1, <3>1, <3>2 DEF AtReader, IsLast
  <2>3. PICK reply \in {replies[await], Closed} : replies' = [replies EXCEPT ![await] = reply]
    BY <1>6 DEF Takes
  <2>4. \A l \in 1..Len(lines) : replies'[l] = replies[l] \/ replies'[l] = Closed
    BY <2>3, LenProperties DEF TypeOK
  <2> QED
    BY <2>1, <2>2, <2>4, RepliesOrder
<1>7. CASE Fires
  <2>1. Send(Listing, "relist")
    BY <1>7 DEF Fires
  <2>2. \A i \in 1..Len(Listing) : Listing[i].n >= 1 /\ Listing[i].n = Listing[i].cmds
    BY ListingType
  <2> QED
    BY <2>1, <2>2, SendOrder, ListingType
<1>8. CASE Serves
  <2>1. PICK call \in Calls : Send(Live(call), "serve")
    BY <1>8 DEF Serves
  <2>2. /\ Live(call) \in Seq(Line)
        /\ \A i \in 1..Len(Live(call)) : Live(call)[i].n >= 1 /\ Live(call)[i].n = Live(call)[i].cmds
    BY LenProperties DEF WellFormed
  <2> QED
    BY <2>1, <2>2, SendOrder
<1>9. CASE Redials
  <2>1. /\ lines' = Listing /\ replies' = <<Waiting>> /\ stream' = <<>> /\ read' = 0
        /\ first' = 1 /\ got' = 0 /\ part' = {} /\ hello' = TRUE
    BY <1>9 DEF Redials, Dialled
  <2>2. LinesMatch'
    BY <2>1, ListingType DEF LinesMatch
  <2>3. InRange' /\ InOrder' /\ Grouped'
    BY <2>1, EmptySeq DEF InRange, InOrder, Grouped
  <2>4. AtReader'
    BY <2>1 DEF AtReader
  <2>5. OwnReply'
    BY <2>1, ListingType, ReplyType DEF OwnReply
  <2> QED
    BY <2>2, <2>3, <2>4, <2>5 DEF Order
<1> QED
  BY <1>1, <1>2, <1>3, <1>4, <1>5, <1>6, <1>7, <1>8, <1>9 DEF Next, Tmux, Reader, Loop

\* The inductive invariant holds of every behaviour: which blocks belong to which line
\* and in which order they come and go (control.go:190-250).
THEOREM Invariance == ASSUME WellFormed PROVE Spec => []IInv
<1>1. Init => IInv
  BY InitType, InitOrder DEF IInv
<1>2. IInv /\ [Next]_vars => IInv'
  BY TypeStep, OrderStep DEF IInv
<1> QED
  BY <1>1, <1>2, PTL DEF Spec

\* Every variable keeps its type (control.go:34-47).
THEOREM TypeCorrect == ASSUME WellFormed PROVE Spec => []TypeOK
<1>1. IInv => TypeOK
  BY DEF IInv
<1> QED
  BY <1>1, Invariance, PTL

\* A reply is all of the caller's own blocks and nothing else (control.go:50-53,
\* 172-199), if every line that is written waits for as many blocks as it has
\* commands.
THEOREM RepliesAreOwn == ASSUME WellFormed PROVE Spec => []OwnReply
<1>1. IInv => OwnReply
  BY DEF IInv
<1> QED
  BY <1>1, Invariance, PTL

\* No block is ever thrown away for want of a waiter (control.go:174-177): while
\* the reader reads, there is one for whatever comes after the hello.
NothingStray == reader = "reads" /\ read < Len(stream) /\ ~hello => first <= Len(lines)

\* While the reader reads, whatever comes after the hello finds a waiter.
THEOREM NoStrayBlock == ASSUME WellFormed PROVE Spec => []NothingStray
<1>1. IInv => NothingStray
  <2> SUFFICES ASSUME IInv, reader = "reads", read < Len(stream), ~hello PROVE first <= Len(lines)
    BY DEF NothingStray
  <2> USE DEF IInv, Order
  <2>1. Len(stream) \in Nat /\ read \in Nat /\ read + 1 \in 1..Len(stream)
    BY LenProperties DEF TypeOK
  <2>2. read # 0
    BY DEF AtReader
  <2>3. stream[read].line \in Nat
    <3>1. stream[read] \in Block
      BY <2>1, <2>2, ElementOfSeq DEF TypeOK
    <3> QED
      BY <3>1 DEF Block
  <2>4. Follows(stream[read], stream[read + 1])
    BY <2>1, <2>2 DEF InOrder
  <2>5. first = stream[read + 1].line
    BY <2>2, <2>4 DEF AtReader, Follows
  <2> QED
    BY <2>1, <2>2, <2>5 DEF InRange
<1> QED
  BY <1>1, Invariance, PTL
-----------------------------------------------------------------------------
(* What tmux has announced is not forgotten.                                 *)

\* What is mirrored was listed, and what is listed or announced has happened.
Versions == seen <= listed /\ listed <= world /\ told <= world

\* Nobody is told of an end before it.
EndedFirst ==
  /\ reader # "reads" => ended
  /\ \A l \in 1..Len(lines) : replies[l] = Closed => ended

KInv == IInv /\ Len(lines) >= 1 /\ Versions /\ EndedFirst /\ NewsKept

\* For a line that has just been written there is no block.
LEMMA SendFresh ==
  ASSUME TypeOK, InRange, NEW new \in Seq(Line), new # <<>>, lines' = lines \o new, stream' = stream
  PROVE  BlocksOf(Len(lines))' = {}
<1>1. Len(lines) \in Nat /\ Len(new) \in Nat /\ Len(new) # 0
  BY LenProperties, EmptySeq DEF TypeOK
<1>2. Len(lines') = Len(lines) + Len(new)
  BY ConcatProperties DEF TypeOK
<1>3. ASSUME NEW k \in 1..Len(stream), stream[k].line = Len(lines') PROVE FALSE
  BY <1>1, <1>2, <1>3 DEF InRange
<1> QED
  BY <1>3 DEF BlocksOf

\* As long as the pipe is good, what is sent is waited for.
LEMMA SendWaits ==
  ASSUME TypeOK, EndedFirst, NEW new \in Seq(Line), NEW t, Send(new, t)
  PROVE  EndedFirst' /\ (ended \/ task' = t)
<1>1. UNCHANGED <<ended, reader>>
  BY DEF Send
<1>2. CASE ended
  BY <1>1, <1>2 DEF EndedFirst
<1>3. CASE ~ended
  <2> DEFINE s == [i \in DOMAIN new |-> Waiting]
  <2>1. replies' = replies \o s /\ lines' = lines \o new /\ task' = t
    BY <1>3 DEF Send
  <2>2. DOMAIN new = 1..Len(new) /\ Len(new) \in Nat /\ Waiting \in Reply /\ Waiting # Closed
    BY LenProperties, ReplyType DEF Waiting, Closed
  <2>3. s \in [1..Len(new) -> Reply]
    BY <2>2
  <2>4. s \in Seq(Reply) /\ Len(s) = Len(new) /\ \A i \in 1..Len(new) : s[i] = Waiting
    BY <2>2, <2>3, FunSeq
  <2> HIDE DEF s
  <2>5. replies \in Seq(Reply) /\ Len(replies) = Len(lines) /\ Len(lines) \in Nat
    BY LenProperties DEF TypeOK
  <2>6. Len(lines') = Len(lines) + Len(new)
    BY <2>1, ConcatProperties DEF TypeOK
  <2>7. ASSUME NEW l \in 1..Len(lines') PROVE replies'[l] # Closed
    <3>1. CASE l <= Len(lines)
      <4>1. replies'[l] = replies[l]
        BY <2>1, <2>2, <2>4, <2>5, <2>6, <3>1, ConcatProperties
      <4> QED
        BY <1>3, <2>5, <3>1, <4>1 DEF EndedFirst
    <3>2. CASE l > Len(lines)
      <4>1. l - Len(lines) \in 1..Len(new) /\ replies'[l] = s[l - Len(lines)]
        BY <2>1, <2>2, <2>4, <2>5, <2>6, <3>2, ConcatProperties
      <4> QED
        BY <2>2, <2>4, <4>1
    <3> QED
      BY <2>5, <2>6, <3>1, <3>2
  <2> QED
    BY <1>1, <1>3, <2>1, <2>7 DEF EndedFirst
<1> QED
  BY <1>2, <1>3

\* tmux runs a command: a listing it answers now tells everything it has announced.
LEMMA RunsKeeps == ASSUME KInv, Runs PROVE Versions' /\ EndedFirst' /\ NewsKept'
<1> USE DEF KInv
<1>1. /\ UNCHANGED <<lines, reader, replies, news, kick, task, fire, world, told, seen, ended>>
      /\ \E e \in BOOLEAN :
           stream' = Append(stream, [line |-> Upcoming[1], nth |-> Upcoming[2], err |-> e])
      /\ listed' = IF Upcoming[1] > 0 /\ task # "serve" THEN world ELSE listed
      /\ ~ended
  BY DEF Runs, loop
<1>2. Versions'
  BY <1>1 DEF Versions, IInv, TypeOK
<1>3. EndedFirst'
  BY <1>1 DEF EndedFirst
<1>4. NewsKept'
  <2> SUFFICES ASSUME told > seen, task \in {"attach", "relist"}, ~news, ~kick, ~fire
               PROVE  BlocksOf(Len(lines))' = {} \/ told <= listed'
    BY <1>1 DEF NewsKept
  <2>1. BlocksOf(Len(lines)) = {} \/ told <= listed
    BY <1>1 DEF NewsKept
  <2>2. CASE Upcoming[1] > 0
    BY <1>1, <2>2 DEF Versions
  <2>3. CASE ~(Upcoming[1] > 0)
    <3>1. listed' = listed
      BY <1>1, <2>3
    <3>2. CASE told <= listed
      BY <3>1, <3>2
    <3>3. CASE BlocksOf(Len(lines)) = {}
      <4>1. Len(lines) \in Nat /\ Len(stream) \in Nat
        BY LenProperties DEF IInv, TypeOK
      <4>2. PICK e \in BOOLEAN :
              stream' = Append(stream, [line |-> Upcoming[1], nth |-> Upcoming[2], err |-> e])
        BY <1>1
      <4> DEFINE b == [line |-> Upcoming[1], nth |-> Upcoming[2], err |-> e]
      <4>3. b.line # Len(lines)
        BY <2>3, <4>1
      <4> HIDE DEF b
      <4>4. stream' = Append(stream, b)
        BY <4>2 DEF b
      <4>5. /\ Len(stream') = Len(stream) + 1 /\ stream'[Len(stream) + 1] = b
            /\ \A k \in 1..Len(stream) : stream'[k] = stream[k]
        BY <4>1, <4>4 DEF IInv, TypeOK
      <4>6. \A k \in 1..Len(stream) : stream[k].line # Len(lines)
        BY <3>3 DEF BlocksOf
      <4>7. \A k \in 1..Len(stream') : stream'[k].line # Len(lines)
        <5> SUFFICES ASSUME NEW k \in 1..Len(stream') PROVE stream'[k].line # Len(lines)
          OBVIOUS
        <5>1. CASE k \in 1..Len(stream)
          BY <4>5, <4>6, <5>1
        <5>2. CASE k = Len(stream) + 1
          BY <4>3, <4>5, <5>2
        <5> QED
          BY <4>1, <4>5, <5>1, <5>2
      <4> QED
        BY <1>1, <4>7 DEF BlocksOf
    <3> QED
      BY <2>1, <3>2, <3>3
  <2> QED
    BY <2>2, <2>3
<1> QED
  BY <1>2, <1>3, <1>4

\* A caller takes its reply: what a listing's answer mirrors is all that was told before it.
LEMMA TakesKeeps == ASSUME KInv, Takes PROVE Versions' /\ EndedFirst' /\ NewsKept'
<1> USE DEF KInv
<1>1. /\ UNCHANGED <<lines, reader, stream, ended, news, kick, fire, world, told, listed>>
      /\ await <= Len(lines)
  BY DEF Takes
<1>2. PICK reply \in {replies[await], Closed} :
        /\ reply # Waiting
        /\ reply = replies[await] \/ reader = "gone"
        /\ replies' = [replies EXCEPT ![await] = reply]
        /\ IF await = Len(lines) THEN Concludes(reply) ELSE UNCHANGED <<task, seen>>
  BY DEF Takes
<1>3. Len(lines) \in Nat /\ DOMAIN replies = 1..Len(lines) /\ await \in Nat
  BY LenProperties DEF IInv, TypeOK
<1>4. seen' \in {seen, listed}
  BY <1>2 DEF Concludes
<1>5. Versions'
  BY <1>1, <1>4 DEF Versions, IInv, TypeOK
<1>6. CASE ended
  BY <1>1, <1>5, <1>6 DEF EndedFirst, NewsKept
<1>7. CASE ~ended
  <2>1. reader = "reads" /\ reply = replies[await]
    BY <1>2, <1>7 DEF EndedFirst
  <2>2. await \in 1..Len(lines) => reply # Closed
    BY <1>7, <2>1 DEF EndedFirst
  <2>3. EndedFirst'
    <3>1. \A l \in 1..Len(lines) : replies'[l] = replies[l]
      BY <1>2, <1>3, <2>1
    <3> QED
      BY <1>1, <1>7, <3>1 DEF EndedFirst
  <2>4. BlocksOf(Len(lines))' = BlocksOf(Len(lines))
    BY <1>1 DEF BlocksOf
  <2>5. CASE await # Len(lines)
    BY <1>1, <1>2, <1>5, <2>3, <2>4, <2>5 DEF NewsKept
  <2>6. CASE await = Len(lines)
    <3>1. await \in 1..Len(lines) /\ reply # Closed
      BY <1>3, <2>2, <2>6
    <3>2. seen' = IF task \in {"attach", "relist"} THEN listed ELSE seen
      BY <1>2, <2>6, <3>1 DEF Concludes
    <3>3. BlocksOf(Len(lines)) # {}
      <4>1. reply \in Reply
        BY <1>3, <2>1, <3>1, ElementOfSeq DEF IInv, TypeOK
      <4>2. replies[Len(lines)].kind = "answer"
        BY <1>2, <2>1, <2>6, <3>1, <4>1 DEF Reply
      <4> QED
        BY <1>3, <2>6, <3>1, <4>2 DEF IInv, OwnReply
    <3>4. told > seen' => told > seen
      BY <3>2 DEF Versions, IInv, TypeOK
    <3>5. ASSUME told > seen', ~news, ~kick, ~fire PROVE FALSE
      <4>1. task \in {"attach", "relist"} /\ told <= listed
        BY <1>7, <3>3, <3>4, <3>5 DEF NewsKept
      <4> QED
        BY <3>2, <3>5, <4>1 DEF IInv, TypeOK
    <3> QED
      BY <1>1, <1>5, <2>3, <3>5 DEF NewsKept
  <2> QED
    BY <2>5, <2>6
<1> QED
  BY <1>6, <1>7

\* Every step keeps what has been announced.
LEMMA NewsStep ==
  ASSUME KInv, [Next]_vars, WellFormed
  PROVE  Len(lines') >= 1 /\ Versions' /\ EndedFirst' /\ NewsKept'
<1> USE DEF KInv, conn, loop, mirror
<1>1. CASE Runs
  BY <1>1, RunsKeeps DEF Runs
<1>2. CASE Changes
  <2>1. UNCHANGED <<lines, replies, reader, ended, stream, task, kick, fire, listed, seen>> /\ world' = world + 1
    BY <1>2 DEF Changes
  <2>2. (told' = world' /\ news' = TRUE) \/ UNCHANGED <<told, news>>
    BY <1>2 DEF Changes
  <2>3. BlocksOf(Len(lines))' = BlocksOf(Len(lines))
    BY <2>1 DEF BlocksOf
  <2>4. Versions'
    BY <2>1, <2>2 DEF Versions, IInv, TypeOK
  <2>5. EndedFirst'
    BY <2>1 DEF EndedFirst
  <2>6. NewsKept'
    BY <2>1, <2>2, <2>3 DEF NewsKept
  <2> QED
    BY <2>1, <2>4, <2>5, <2>6
<1>3. CASE Ends \/ Asks \/ ReadsNews \/ ClosesDone \/ TakesKick \/ UNCHANGED vars
  <2>1. UNCHANGED <<lines, replies, stream, world, told, listed, seen, task>>
    BY <1>3 DEF Ends, Asks, ReadsNews, ClosesDone, TakesKick, vars
  <2>2. (ended => ended') /\ (reader' = "reads" \/ reader # "reads")
    BY <1>3 DEF Ends, Asks, ReadsNews, ClosesDone, TakesKick, vars
  <2>3. news \/ kick \/ fire => news' \/ kick' \/ fire' \/ ended'
    BY <1>3 DEF Ends, Asks, ReadsNews, ClosesDone, TakesKick, vars
  <2>4. BlocksOf(Len(lines))' = BlocksOf(Len(lines))
    BY <2>1 DEF BlocksOf
  <2> QED
    BY <2>1, <2>2, <2>3, <2>4 DEF Versions, EndedFirst, NewsKept
<1>4. CASE ReadsBlock
  <2>1. UNCHANGED <<lines, stream, reader, ended, news, kick, task, fire, world, told, listed, seen>>
    BY <1>4 DEF ReadsBlock
  <2>2. \A l \in 1..Len(lines) : replies'[l] = replies[l] \/ replies'[l] # Closed
    <3>1. CASE replies' = replies
      BY <3>1
    <3>2. CASE DeliverTo(stream[read + 1])
      <4> DEFINE a == Answer(part \union {stream[read + 1]}, stream[read + 1].err)
      <4>1. a # Closed
        BY DEF Answer, Closed
      <4> HIDE DEF a
      <4>2. replies' = replies \/ replies' = [replies EXCEPT ![first] = a]
        BY <3>2 DEF DeliverTo, a
      <4> QED
        BY <4>1, <4>2, LenProperties DEF IInv, TypeOK
    <3> QED
      BY <1>4, <3>1, <3>2 DEF ReadsBlock
  <2>3. BlocksOf(Len(lines))' = BlocksOf(Len(lines))
    BY <2>1 DEF BlocksOf
  <2>4. EndedFirst'
    BY <2>1, <2>2 DEF EndedFirst
  <2> QED
    BY <2>1, <2>3, <2>4 DEF Versions, NewsKept
<1>5. CASE ReadsEnd
  <2>1. UNCHANGED <<lines, stream, ended, world, told, listed, seen>> /\ ended
    BY <1>5 DEF ReadsEnd
  <2> QED
    BY <2>1 DEF Versions, EndedFirst, NewsKept
<1>6. CASE Takes
  BY <1>6, TakesKeeps DEF Takes
<1>7. CASE Fires
  <2>1. Send(Listing, "relist") /\ UNCHANGED <<news, kick, world, told, listed, seen>>
    BY <1>7 DEF Fires
  <2>2. EndedFirst' /\ (ended \/ task' = "relist")
    BY <2>1, SendWaits, ListingType DEF IInv
  <2>3. Listing \in Seq(Line) /\ Listing # <<>>
    BY ListingType DEF Listing
  <2>4. lines' = lines \o Listing /\ UNCHANGED <<stream, ended>>
    BY <2>1 DEF Send
  <2>5. BlocksOf(Len(lines))' = {}
    BY <2>3, <2>4, SendFresh DEF IInv, Order
  <2>6. Len(lines') >= 1
    <3>1. Len(lines') = Len(lines) + Len(Listing) /\ Len(lines) \in Nat
      BY <2>3, <2>4, ConcatProperties, LenProperties DEF IInv, TypeOK
    <3> QED
      BY <3>1, ListingType
  <2> QED
    BY <2>1, <2>2, <2>4, <2>5, <2>6 DEF Versions, NewsKept
<1>8. CASE Serves
  <2>1. PICK call \in Calls : Send(Live(call), "serve")
    BY <1>8 DEF Serves
  <2>2. Live(call) \in Seq(Line)
    BY DEF WellFormed
  <2>3. EndedFirst'
    BY <2>1, <2>2, SendWaits DEF IInv
  <2>4. UNCHANGED <<news, kick, fire, world, told, listed, seen, ended>> /\ task = "idle"
    BY <1>8, <2>1 DEF Serves, Send
  <2>5. Len(lines') >= 1
    <3>1. Len(lines') = Len(lines) + Len(Live(call)) /\ Len(lines) \in Nat /\ Len(Live(call)) \in Nat
      BY <2>1, <2>2, ConcatProperties, LenProperties DEF Send, IInv, TypeOK
    <3> QED
      BY <3>1
  <2> QED
    BY <2>3, <2>4, <2>5 DEF Versions, NewsKept
<1>9. CASE Redials
  <2>1. /\ lines' = Listing /\ replies' = <<Waiting>> /\ stream' = <<>> /\ reader' = "reads"
        /\ task' = "attach" /\ UNCHANGED <<world, told, listed, seen>>
    BY <1>9 DEF Redials, Dialled
  <2>2. BlocksOf(Len(lines))' = {}
    BY <2>1, EmptySeq DEF BlocksOf
  <2>3. EndedFirst'
    BY <2>1, ListingType DEF EndedFirst, Waiting, Closed
  <2> QED
    BY <2>1, <2>2, <2>3, ListingType DEF Versions, NewsKept
<1> QED
  BY <1>1, <1>2, <1>3, <1>4, <1>5, <1>6, <1>7, <1>8, <1>9 DEF Next, Tmux, Reader, Loop

\* What is announced is in the pipe, the kick, the timer or the listing to come until the
\* daemon mirrors it, unless the connection has ended (control.go:145-150,
\* daemon.go:300-335): no order of notifications, calls and listings drops it.
THEOREM NewsKeptHolds == ASSUME WellFormed PROVE Spec => []NewsKept
<1>1. Init => KInv
  <2> SUFFICES ASSUME Init PROVE KInv
    OBVIOUS
  <2>1. IInv
    BY InitType, InitOrder DEF IInv
  <2>2. EndedFirst
    BY ListingType DEF Init, EndedFirst, Waiting, Closed
  <2> QED
    BY <2>1, <2>2, ListingType DEF Init, KInv, Versions, NewsKept
<1>2. KInv /\ [Next]_vars => KInv'
  <2> SUFFICES ASSUME KInv, [Next]_vars PROVE KInv'
    OBVIOUS
  <2>1. IInv'
    BY TypeStep, OrderStep DEF IInv, KInv
  <2>2. Len(lines') >= 1 /\ Versions' /\ EndedFirst' /\ NewsKept'
    BY NewsStep
  <2> QED
    BY <2>1, <2>2 DEF KInv
<1>3. KInv => NewsKept
  BY DEF KInv
<1> QED
  BY <1>1, <1>2, <1>3, PTL DEF Spec
=============================================================================
