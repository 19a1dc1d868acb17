---------------------------- MODULE DaemonProofs ----------------------------
(***************************************************************************)
(* Proofs about a daemon that starts: the options that it takes over from  *)
(* tmux and gives back (OwnedOptions), for every set of sessions, windows, *)
(* options and values, and that it is alone when it does (Startup), for    *)
(* any number of clients, daemons and faults.                              *)
(*                                                                         *)
(* The invariant of the first is                                           *)
(*   TypeOK /\ Shape /\ ExactRecovery /\ RestoresAreOriginals              *)
(* The last two need each other: a restore puts back what the registry     *)
(* holds, and the registry's next claim is what tmux holds.  That of the   *)
(* second is AloneInv, at the end.                                         *)
(***************************************************************************)
EXTENDS OwnedOptions, Startup, TLAPS

\* What goes with what in the daemon: a dead daemon remembers nothing, a claim
\* needs a dock, and a dock never opens over a close under way.
Shape ==
  /\ ~up => ~dock /\ deferred = Nothing
  /\ ~dock => saved = Nothing /\ installed = Nothing
  /\ dock => deferred = Nothing

IInv == TypeOK /\ Shape /\ ExactRecovery /\ RestoresAreOriginals

USE RegistryAssumption

\* A plan asks for arguments only.
LEMMA WantsType == \A w \in Wants : w \in [Key -> Args \cup {None}]
  BY DEF Wants, DesiredOpts

\* The marks a line writes are for keys nobody held, and if every one of their
\* objects lives, all of them are written.
LEMMA MarksFacts ==
  ASSUME NEW w
  PROVE  /\ MarksLanded(w) \subseteq Fresh(w)
         /\ (\A k \in Fresh(w) : Alive(k)) => MarksLanded(w) = Fresh(w)
  BY DEF MarksLanded, Landed

\* A value is written only once every mark of its line has been.
LEMMA ValuesFacts ==
  ASSUME NEW w
  PROVE  /\ ValuesLanded(w) \subseteq Updates(w)
         /\ ValuesLanded(w) \cap Fresh(w) \subseteq MarksLanded(w)
  BY MarksFacts DEF ValuesLanded, Landed

\* A line that fails halfway mislays options only of the keys it claims or updates.
LEMMA MislaidType ==
  ASSUME NEW w PROVE Mislaid(MarksLanded(w), ValuesLanded(w), w) \subseteq Key
<1>1. Fresh(w) \subseteq Key /\ Updates(w) \subseteq Key
  BY DEF Fresh, Updates
<1> QED
  BY <1>1, MarksFacts, ValuesFacts DEF Mislaid

\* A restore line none of whose replays can fail gives everything back.
LEMMA GivenBackFacts ==
  ASSUME NEW S, NEW s
  PROVE  /\ GivenBack(S, s) \subseteq S
         /\ Replayable(S, s) => \A k \in S : Alive(k) => k \in GivenBack(S, s)
  BY DEF GivenBack, Replayable

-----------------------------------------------------------------------------
(* The invariant.                                                           *)

\* A daemon that has not run yet holds nothing, and every option is the user's.
LEMMA InitInv == Init => IInv
<1> SUFFICES ASSUME Init PROVE IInv
  OBVIOUS
<1>1. TypeOK
  <2>1. /\ opt \in [Key -> UserVal \cup {Unset}]
        /\ orig \in [Key -> UserVal \cup {Unset}]
    BY DEF Init
  <2>2. opt \in [Key -> Value]
    BY <2>1 DEF Value
  <2>3. /\ mark \in [Key -> Value \cup {None}]
        /\ saved \in [Key -> Value \cup {None}]
        /\ installed \in [Key -> Args \cup {None}]
        /\ deferred \in [Key -> Value \cup {None}]
    BY DEF Init, Nothing
  <2>4. writes \in 0..MaxWrites
    BY DEF Init
  <2> QED
    BY <2>1, <2>2, <2>3, <2>4, Zenon DEF Init, TypeOK
<1>2. Shape
  BY DEF Init, Shape
<1>3. ExactRecovery
  BY DEF Init, Nothing, ExactRecovery
<1>4. RestoresAreOriginals
  BY DEF Init, Nothing, RestoresAreOriginals, Held
<1> QED
  BY <1>1, <1>2, <1>3, <1>4 DEF IInv

\* What a line may overwrite: a mark is written over the user's own value, and
\* a value only where a mark holds the user's.
LEMMA LineIsSafe ==
  ASSUME IInv, NEW w, NEW k \in Key, Alive(k), k \notin lost,
         k \notin Mislaid(MarksLanded(w), ValuesLanded(w), w)
  PROVE  /\ k \in MarksLanded(w) => ReadOpt(k) = orig[k]
         /\ k \in ValuesLanded(w) /\ k \notin MarksLanded(w) =>
              mark[k] # None /\ mark[k] = orig[k]
<1>1. orig[k] = IF mark[k] = None THEN opt[k] ELSE mark[k]
  BY DEF IInv, ExactRecovery
<1>2. k \in MarksLanded(w) => ReadOpt(k) = orig[k]
  BY <1>1 DEF ReadOpt, Mislaid
<1>3. k \in ValuesLanded(w) /\ k \notin MarksLanded(w) => mark[k] # None /\ mark[k] = orig[k]
  BY <1>1, ValuesFacts DEF Mislaid
<1> QED
  BY <1>2, <1>3

\* The four ways a plan is carried out.
Plan(w) == Replan(w) \/ \E tail \in BOOLEAN : OpenDock(w, tail) \/ Carve(w, tail) \/ Move(w, tail)

\* What they have in common, option by option.
LEMMA PlanEffect ==
  ASSUME TypeOK, NEW w \in Wants, Plan(w)
  PROVE  /\ opt' = [k \in Key |-> opt'[k]] /\ mark' = [k \in Key |-> mark'[k]]
         /\ \A k \in Key :
              \/ /\ k \in Stale(w)
                 /\ opt'[k] = saved[k] /\ mark'[k] = None
              \/ /\ opt'[k] = IF k \in ValuesLanded(w) THEN w[k] ELSE opt[k]
                 /\ mark'[k] = IF k \in MarksLanded(w) THEN ReadOpt(k) ELSE mark[k]
         /\ lost' = lost \cup Mislaid(MarksLanded(w), ValuesLanded(w), w)
         /\ \/ UNCHANGED <<saved, installed>>
            \/ /\ dock' = TRUE
               /\ InstallRuns(w)
               /\ saved' = [k \in Key |-> IF w[k] = None THEN None
                                          ELSE IF Held(k) THEN saved[k] ELSE ReadOpt(k)]
               /\ installed' = w
         /\ up /\ up' /\ dock' \in BOOLEAN /\ faulted' \in BOOLEAN
         /\ (dock' # dock) => dock' = TRUE /\ deferred = Nothing
         /\ UNCHANGED <<live, up, deferred, orig, writes>>
<1>1. CASE Replan(w)
  BY <1>1, GivenBackFacts DEF Replan, Write, Commit, NoteFault, TypeOK
<1>2. CASE \E tail \in BOOLEAN : OpenDock(w, tail)
  BY <1>2 DEF OpenDock, InstallLine, Write, Commit, NoteFault, TypeOK
<1>3. CASE \E tail \in BOOLEAN : Carve(w, tail)
  BY <1>3 DEF Carve, InstallLine, Write, Commit, NoteFault, TypeOK
<1>4. CASE \E tail \in BOOLEAN : Move(w, tail)
  BY <1>4, GivenBackFacts DEF Move, Write, Commit, NoteFault, TypeOK
<1> QED
  BY <1>1, <1>2, <1>3, <1>4 DEF Plan

\* What a plan does to the registry alone: claims are made by a whole line, and keep
\* what was saved before.
LEMMA PlanClaims ==
  ASSUME TypeOK, NEW w \in Wants, Plan(w)
  PROVE  /\ saved' \in [Key -> Value \cup {None}] /\ installed' \in [Key -> Args \cup {None}]
         /\ \A k \in Key :
              \/ saved'[k] = saved[k]
              \/ /\ InstallRuns(w) /\ w[k] # None /\ ~Held(k)
                 /\ saved'[k] = ReadOpt(k)
              \/ saved'[k] = None
         /\ deferred' = deferred /\ orig' = orig
<1>1. /\ \A k \in Key : ReadOpt(k) \in Value \cup {None} /\ saved[k] \in Value \cup {None}
      /\ saved \in [Key -> Value \cup {None}] /\ installed \in [Key -> Args \cup {None}]
      /\ w \in [Key -> Args \cup {None}]
  BY WantsType DEF TypeOK, Value, ReadOpt
<1> DEFINE claims == [k \in Key |-> IF w[k] = None THEN None
                                   ELSE IF Held(k) THEN saved[k] ELSE ReadOpt(k)]
<1>2. \/ UNCHANGED <<saved, installed>>
      \/ InstallRuns(w) /\ saved' = claims /\ installed' = w
  BY PlanEffect
<1>3. claims \in [Key -> Value \cup {None}]
  BY <1>1
<1>4. \A k \in Key : claims[k] = IF w[k] = None THEN None
                                 ELSE IF Held(k) THEN saved[k] ELSE ReadOpt(k)
  OBVIOUS
<1>5. deferred' = deferred /\ orig' = orig
  BY PlanEffect
<1> HIDE DEF claims
<1> QED
  BY <1>1, <1>2, <1>3, <1>4, <1>5

\* A line of a plan keeps the invariant, however far it came.
LEMMA PlanInv == ASSUME IInv, NEW w \in Wants, Plan(w) PROVE IInv'
<1> USE PlanEffect, WantsType DEF IInv
<1>1. TypeOK'
  <2>1. ASSUME NEW k \in Key PROVE opt'[k] \in Value
    <3>1. k \in ValuesLanded(w) => w[k] \in Value
      BY ValuesFacts DEF Updates, Value
    <3>2. k \in Stale(w) => saved[k] \in Value
      BY DEF Stale, Held, TypeOK
    <3>3. opt[k] \in Value
      BY DEF TypeOK
    <3> QED
      BY <3>1, <3>2, <3>3
  <2>2. \A k \in Key : mark'[k] \in Value \cup {None}
    BY DEF TypeOK, Value, ReadOpt
  <2>3. /\ saved' \in [Key -> Value \cup {None}]
        /\ installed' \in [Key -> Args \cup {None}]
    BY PlanClaims
  <2>4. lost' \subseteq Key
    <3>1. Mislaid(MarksLanded(w), ValuesLanded(w), w) \subseteq Key
      BY MislaidType
    <3>2. lost' = lost \cup Mislaid(MarksLanded(w), ValuesLanded(w), w)
      OBVIOUS
    <3> QED
      BY <3>1, <3>2 DEF TypeOK
  <2>5. /\ opt' \in [Key -> Value]
        /\ mark' \in [Key -> Value \cup {None}]
    BY <2>1, <2>2
  <2> QED
    BY <2>3, <2>4, <2>5 DEF TypeOK
<1>2. Shape'
  <2>1. dock \in BOOLEAN
    BY DEF TypeOK
  <2>2. dock' = dock \/ (dock' = TRUE /\ deferred = Nothing)
    OBVIOUS
  <2>3. dock' = FALSE => UNCHANGED <<saved, installed>>
    OBVIOUS
  <2>4. ~up' => ~dock' /\ deferred' = Nothing
    OBVIOUS
  <2>5. ~dock' => saved' = Nothing /\ installed' = Nothing
    BY <2>1, <2>2, <2>3 DEF Shape
  <2>6. dock' => deferred' = Nothing
    BY <2>1, <2>2 DEF Shape
  <2> QED
    BY <2>4, <2>5, <2>6 DEF Shape
<1>3. ASSUME NEW k \in Key \ lost', Alive(k)'
      PROVE  orig'[k] = IF mark'[k] = None THEN opt'[k] ELSE mark'[k]
  <2>1. Alive(k) /\ k \notin lost /\ k \notin Mislaid(MarksLanded(w), ValuesLanded(w), w)
    BY <1>3 DEF Alive
  <2>2. orig[k] = IF mark[k] = None THEN opt[k] ELSE mark[k]
    BY <2>1 DEF ExactRecovery
  <2>3. k \in Stale(w) => saved[k] = orig[k]
    BY <2>1 DEF RestoresAreOriginals, Stale
  <2>4. /\ k \in MarksLanded(w) => ReadOpt(k) = orig[k] /\ k \notin Stale(w)
        /\ k \in ValuesLanded(w) /\ k \notin MarksLanded(w) =>
             mark[k] # None /\ mark[k] = orig[k]
    BY <2>1, LineIsSafe, MarksFacts DEF Fresh, Stale
  <2>5. orig[k] # None
    BY DEF TypeOK
  <2> QED
    BY <2>1, <2>2, <2>3, <2>4, <2>5
<1>4. ASSUME NEW k \in Key \ lost', Alive(k)'
      PROVE  /\ Held(k)' => saved'[k] = orig'[k]
             /\ deferred'[k] # None => deferred'[k] = orig'[k]
  <2>1. Alive(k) /\ k \notin lost /\ k \notin Mislaid(MarksLanded(w), ValuesLanded(w), w)
    BY <1>4 DEF Alive
  <2>2. /\ Held(k) => saved[k] = orig[k]
        /\ deferred[k] # None => deferred[k] = orig[k]
    BY <2>1 DEF RestoresAreOriginals
  <2>3. InstallRuns(w) /\ w[k] # None /\ ~Held(k) => ReadOpt(k) = orig[k]
    BY <2>1, LineIsSafe, MarksFacts DEF Fresh, InstallRuns
  <2> HIDE PlanEffect, WantsType DEF IInv
  <2>4. /\ \/ saved'[k] = saved[k]
           \/ InstallRuns(w) /\ w[k] # None /\ ~Held(k) /\ saved'[k] = ReadOpt(k)
           \/ saved'[k] = None
        /\ deferred' = deferred /\ orig' = orig
    BY PlanClaims DEF IInv
  <2> QED
    BY <2>2, <2>3, <2>4 DEF Held
<1> QED
  BY <1>1, <1>2, <1>3, <1>4 DEF ExactRecovery, RestoresAreOriginals

\* The lines that only give back, and the ends of claims.
LEMMA ReleaseInv ==
  ASSUME IInv, Undock \/ UndockLater \/ FlushPendingClose
  PROVE  IInv'
<1> USE GivenBackFacts
<1>1. CASE Undock
  <2>1. TypeOK'
    <3>1. saved' = Nothing /\ installed' = Nothing /\ dock' = FALSE
      BY <1>1 DEF Undock, ReleaseAll
    <3>2. /\ UNCHANGED <<live, up, deferred, orig, lost, writes>>
          /\ faulted' \in BOOLEAN
      BY <1>1 DEF Undock, NoteFault, IInv, TypeOK
    <3>3. /\ opt' \in [Key -> Value]
          /\ mark' \in [Key -> Value \cup {None}]
      BY <1>1 DEF Undock, Write, Claimed, Held, Nothing, IInv, TypeOK
    <3> QED
      BY <3>1, <3>2, <3>3 DEF IInv, TypeOK, Nothing
  <2>2. Shape'
    BY <1>1 DEF IInv, Shape, Undock, ReleaseAll
  <2>3. ExactRecovery'
    BY <1>1 DEF IInv, TypeOK, ExactRecovery, RestoresAreOriginals, Alive,
                Undock, ReleaseAll, Write, Claimed, Held
  <2>4. RestoresAreOriginals'
    BY <1>1 DEF IInv, RestoresAreOriginals, Alive, Held, Undock, ReleaseAll, Nothing
  <2> QED
    BY <2>1, <2>2, <2>3, <2>4 DEF IInv
<1>2. CASE UndockLater
  <2>1. TypeOK'
    <3>1. saved' = Nothing /\ installed' = Nothing /\ deferred' = saved /\ dock' = FALSE
      BY <1>2 DEF UndockLater, ReleaseAll
    <3>2. UNCHANGED <<live, opt, mark, up, orig, lost, faulted, writes>>
      BY <1>2 DEF UndockLater, tmux
    <3> QED
      BY <3>1, <3>2 DEF IInv, TypeOK, Nothing
  <2>2. Shape'
    BY <1>2 DEF IInv, Shape, UndockLater, ReleaseAll
  <2>3. ExactRecovery'
    BY <1>2 DEF IInv, ExactRecovery, Alive, UndockLater, ReleaseAll, tmux
  <2>4. RestoresAreOriginals'
    BY <1>2 DEF IInv, RestoresAreOriginals, Alive, Held, UndockLater, ReleaseAll, tmux, Nothing
  <2> QED
    BY <2>1, <2>2, <2>3, <2>4 DEF IInv
<1>3. CASE FlushPendingClose
  <2>1. TypeOK'
    BY <1>3 DEF IInv, TypeOK, FlushPendingClose, Write, NoteFault, Pending, Nothing
  <2>2. Shape'
    BY <1>3 DEF IInv, Shape, FlushPendingClose
  <2>3. ExactRecovery'
    BY <1>3 DEF IInv, TypeOK, ExactRecovery, RestoresAreOriginals, Alive,
                FlushPendingClose, Write, Pending
  <2>4. RestoresAreOriginals'
    BY <1>3 DEF IInv, RestoresAreOriginals, Alive, Held, FlushPendingClose, Nothing
  <2> QED
    BY <2>1, <2>2, <2>3, <2>4 DEF IInv
<1> QED
  BY <1>1, <1>2, <1>3

\* A crash, and the sweep of the successor.
LEMMA RecoveryInv ==
  ASSUME IInv, Crash \/ Start \/ Reattach
  PROVE  IInv'
<1>1. CASE Crash
  <2>1. TypeOK'
    BY <1>1 DEF IInv, TypeOK, Crash, tmux, Nothing
  <2>2. Shape'
    BY <1>1 DEF IInv, Shape, Crash
  <2>3. ExactRecovery'
    BY <1>1 DEF IInv, ExactRecovery, Alive, Crash, tmux
  <2>4. RestoresAreOriginals'
    BY <1>1 DEF IInv, RestoresAreOriginals, Alive, Held, Crash, tmux, Nothing
  <2> QED
    BY <2>1, <2>2, <2>3, <2>4 DEF IInv
<1>2. CASE Start \/ Reattach
  <2>1. Sweep(saved) /\ UNCHANGED <<dock, saved, installed, deferred, orig, lost, faulted, writes>>
    BY <1>2 DEF Start, Reattach, daemon
  <2>2. TypeOK'
    <3>1. up' \in BOOLEAN
      BY <1>2 DEF IInv, TypeOK, Start, Reattach, daemon
    <3> QED
      BY <2>1, <3>1 DEF IInv, TypeOK, Sweep, Write, Leftover, Nothing
  <2>3. Shape'
    <3>1. up'
      BY <1>2 DEF Start, Reattach, daemon
    <3> QED
      BY <2>1, <3>1 DEF IInv, Shape
  <2>4. ExactRecovery'
    BY <2>1 DEF IInv, ExactRecovery, Alive, Sweep, Write, Leftover
  <2>5. RestoresAreOriginals'
    BY <2>1 DEF IInv, RestoresAreOriginals, Alive, Held, Sweep
  <2> QED
    BY <2>2, <2>3, <2>4, <2>5 DEF IInv
<1> QED
  BY <1>1, <1>2

\* What dies takes its options along, and nothing else.
LEMMA DestroyInv ==
  ASSUME IInv, NEW o \in Obj, Reap(o) \/ ObjectDies(o)
  PROVE  IInv'
<1>1. /\ Destroy(o)
      /\ UNCHANGED <<up, dock, deferred, faulted, writes>>
      /\ \/ UNCHANGED <<saved, installed>>
         \/ /\ dock
            /\ saved' = [k \in Key |-> IF ObjOf[k] = o THEN None ELSE saved[k]]
            /\ installed' = [k \in Key |-> IF ObjOf[k] = o THEN None ELSE installed[k]]
  BY DEF Reap, ObjectDies, daemon
<1>2. \A k \in Key : Alive(k)' =>
        /\ Alive(k) /\ opt'[k] = opt[k] /\ mark'[k] = mark[k] /\ orig'[k] = orig[k]
        /\ k \notin lost' => k \notin lost
  BY <1>1 DEF Destroy, Alive
<1>3. TypeOK'
  <2>1. /\ saved' \in [Key -> Value \cup {None}]
        /\ installed' \in [Key -> Args \cup {None}]
    BY <1>1 DEF IInv, TypeOK
  <2>2. /\ live' \subseteq Obj /\ lost' \subseteq Key
        /\ opt' \in [Key -> Value]
        /\ mark' \in [Key -> Value \cup {None}]
        /\ orig' \in [Key -> UserVal \cup {Unset}]
    BY <1>1 DEF IInv, TypeOK, Destroy, Value
  <2> QED
    BY <1>1, <2>1, <2>2 DEF IInv, TypeOK
<1>4. Shape'
  BY <1>1 DEF IInv, Shape
<1>5. ExactRecovery'
  BY <1>2 DEF IInv, ExactRecovery
<1>6. RestoresAreOriginals'
  BY <1>1, <1>2 DEF IInv, RestoresAreOriginals, Held
<1> QED
  BY <1>3, <1>4, <1>5, <1>6 DEF IInv

\* A user who sets an option that winch may hold.
LEMMA UserInv ==
  ASSUME IInv, NEW k \in Key, NEW v \in UserVal \cup {Unset}, UserSets(k, v)
  PROVE  IInv'
<1>1. TypeOK'
  BY DEF IInv, TypeOK, Value, UserSets, daemon
<1>2. Shape'
  BY DEF IInv, Shape, UserSets, daemon
<1>3. ExactRecovery'
  BY DEF IInv, TypeOK, ExactRecovery, Alive, UserSets, daemon
<1>4. RestoresAreOriginals'
  BY DEF IInv, TypeOK, RestoresAreOriginals, Alive, Held, UserSets, daemon
<1> QED
  BY <1>1, <1>2, <1>3, <1>4 DEF IInv

\* Every step keeps the invariant.
LEMMA NextInv == IInv /\ [Next]_vars => IInv'
<1> SUFFICES ASSUME IInv, [Next]_vars PROVE IInv'
  OBVIOUS
<1>1. CASE \E w \in Wants : Plan(w)
  BY <1>1, PlanInv
<1>2. CASE Undock \/ UndockLater \/ FlushPendingClose
  BY <1>2, ReleaseInv
<1>3. CASE Crash \/ Start \/ Reattach
  BY <1>3, RecoveryInv
<1>4. CASE \E o \in Obj : Reap(o) \/ ObjectDies(o)
  BY <1>4, DestroyInv
<1>5. CASE \E k \in Key, v \in UserVal \cup {Unset} : UserSets(k, v)
  BY <1>5, UserInv
<1>6. CASE UNCHANGED vars
  BY <1>6 DEF vars, tmux, daemon, IInv, TypeOK, Shape, ExactRecovery, RestoresAreOriginals, Alive, Held
<1> QED
  BY <1>1, <1>2, <1>3, <1>4, <1>5, <1>6 DEF Next, Plan

\* What the daemon holds, what tmux shows and what the user had stay consistent
\* through every line that lands, fails halfway or is cut by a crash.
THEOREM Invariance == Spec => []IInv
  BY InitInv, NextInv, PTL DEF Spec

-----------------------------------------------------------------------------
(* What the registry promises.                                              *)

\* Every variable keeps its type.
THEOREM TypeCorrect == Spec => []TypeOK
  BY Invariance, PTL DEF IInv

\* Whatever ran, failed or crashed so far, tmux alone tells what the user had in
\* every option that is not lost: its mark, or its value when it has none.
THEOREM RecoveryIsExact == Spec => []ExactRecovery
  BY Invariance, PTL DEF IInv

\* What the registry or a close under way means to replay is the user's value.
THEOREM RestoresOriginals == Spec => []RestoresAreOriginals
  BY Invariance, PTL DEF IInv

\* A daemon that starts after a crash gives everything back.
THEOREM StartupGivesBack == Spec => StartupHeals
<1>1. ASSUME IInv, [Next]_vars, ~up /\ up', NEW k \in Key, Alive(k)'
      PROVE  mark'[k] = None /\ (k \notin lost' => opt'[k] = orig'[k])
  <2>1. Start
    <3>1. ASSUME NEW w \in Wants, NEW tail \in BOOLEAN, OpenDock(w, tail) \/ Carve(w, tail) \/ Move(w, tail)
          PROVE  FALSE
      BY <1>1, <3>1 DEF OpenDock, Carve, Move
    <3>2. ASSUME NEW w \in Wants, Replan(w) PROVE FALSE
      BY <1>1, <3>2 DEF Replan
    <3>3. CASE Undock \/ UndockLater \/ FlushPendingClose \/ Crash \/ Reattach
      BY <1>1, <3>3 DEF Undock, UndockLater, ReleaseAll, FlushPendingClose, Crash, Reattach
    <3>4. ASSUME NEW o \in Obj, Reap(o) \/ ObjectDies(o) PROVE FALSE
      BY <1>1, <3>4 DEF Reap, ObjectDies, daemon
    <3>5. ASSUME NEW j \in Key, NEW v \in UserVal \cup {Unset}, UserSets(j, v) PROVE FALSE
      BY <1>1, <3>5 DEF UserSets, daemon
    <3>6. CASE UNCHANGED vars
      BY <1>1, <3>6 DEF vars, daemon
    <3> QED
      BY <1>1, <3>1, <3>2, <3>3, <3>4, <3>5, <3>6 DEF Next
  <2>2. saved = Nothing
    BY <1>1 DEF IInv, Shape
  <2>3. /\ Alive(k) /\ UNCHANGED <<orig, lost>>
        /\ opt'[k] = IF mark[k] # None THEN mark[k] ELSE opt[k]
        /\ mark'[k] = None
    BY <1>1, <2>1, <2>2 DEF IInv, TypeOK, Start, Sweep, Write, Leftover, Nothing, Alive
  <2> QED
    BY <1>1, <2>3 DEF IInv, ExactRecovery
<1>2. IInv /\ [Next]_vars =>
        [(~up /\ up') => \A k \in Key : Alive(k)' =>
           /\ mark'[k] = None
           /\ k \notin lost' => opt'[k] = orig'[k]]_vars
  BY <1>1
<1> QED
  BY <1>2, Invariance, PTL DEF Spec, StartupHeals

-----------------------------------------------------------------------------
(* Registry and tmux agree until a line aborts.  Inductive with Shape: an    *)
(* undock turns claims into a close under way only if none was under way.    *)

\* A plan that lands whole leaves registry and tmux agreeing.
LEMMA AgreePlan ==
  ASSUME IInv, AgreesUnlessFault, NEW w \in Wants, Plan(w)
  PROVE  AgreesUnlessFault'
<1> SUFFICES ASSUME up', ~faulted', NEW k \in Key, Alive(k)'
             PROVE  /\ Held(k)' => mark'[k] = saved'[k]
                    /\ mark'[k] # None => Held(k)' \/ deferred'[k] # None
  BY DEF AgreesUnlessFault
<1>1. /\ InstallRuns(w)
      /\ saved' = [j \in Key |-> IF w[j] = None THEN None
                                 ELSE IF Held(j) THEN saved[j] ELSE ReadOpt(j)]
      /\ k \in Stale(w) => mark'[k] = None
      /\ k \notin Stale(w) => mark'[k] = IF k \in MarksLanded(w) THEN ReadOpt(k) ELSE mark[k]
      /\ UNCHANGED <<live, deferred>>
      /\ up /\ ~faulted
  <2>0. ~faulted /\ Alive(k) /\ TypeOK
    BY PlanEffect DEF IInv, Plan, NoteFault, OpenDock, Carve, InstallLine, Move, Replan, Alive
  <2>1. CASE \E tail \in BOOLEAN : OpenDock(w, tail) \/ Carve(w, tail)
    BY <2>0, <2>1 DEF OpenDock, Carve, InstallLine, NoteFault, Write, Commit, Stale, IInv, Shape, TypeOK
  <2>2. CASE \E tail \in BOOLEAN : Move(w, tail)
    <3>1. InstallRuns(w) /\ Replayable(Stale(w), saved) /\ up
      BY <2>0, <2>2 DEF Move, NoteFault
    <3>2. k \in GivenBack(Stale(w), saved) <=> k \in Stale(w)
      BY <2>0, <3>1, GivenBackFacts
    <3>3. /\ mark' = [j \in Key |-> IF j \in GivenBack(Stale(w), saved) THEN None
                                    ELSE IF j \in MarksLanded(w) THEN ReadOpt(j) ELSE mark[j]]
          /\ UNCHANGED <<live, deferred>>
          /\ Commit(w)
      BY <2>0, <2>2 DEF Move, NoteFault, Write
    <3> QED
      BY <2>0, <3>1, <3>2, <3>3 DEF Commit
  <2>3. CASE Replan(w)
    BY <2>0, <2>3, GivenBackFacts DEF Replan, NoteFault, Write, Commit
  <2> QED
    BY <2>1, <2>2, <2>3 DEF Plan
<1>2. /\ Held(k) => mark[k] = saved[k]
      /\ mark[k] # None => Held(k) \/ deferred[k] # None
  BY <1>1 DEF AgreesUnlessFault, Alive
<1>3. MarksLanded(w) = Fresh(w)
  BY <1>1, MarksFacts DEF InstallRuns
<1> QED
  BY <1>1, <1>2, <1>3 DEF Held, Fresh, Stale

\* So do the steps that give options back.
LEMMA AgreeRelease ==
  ASSUME IInv, AgreesUnlessFault, Undock \/ UndockLater \/ FlushPendingClose
  PROVE  AgreesUnlessFault'
<1> SUFFICES ASSUME up', ~faulted', NEW k \in Key, Alive(k)'
             PROVE  /\ Held(k)' => mark'[k] = saved'[k]
                    /\ mark'[k] # None => Held(k)' \/ deferred'[k] # None
  BY DEF AgreesUnlessFault
<1>1. /\ Alive(k)
      /\ Held(k) => mark[k] = saved[k]
      /\ mark[k] # None => Held(k) \/ deferred[k] # None
  BY DEF AgreesUnlessFault, Alive, Undock, UndockLater, ReleaseAll, FlushPendingClose, NoteFault, tmux
<1>2. CASE Undock
  BY <1>1, <1>2, GivenBackFacts DEF Undock, ReleaseAll, Write, NoteFault, Claimed, Held, Nothing
<1>3. CASE UndockLater
  <2>1. deferred = Nothing
    BY <1>3 DEF IInv, Shape, UndockLater, ReleaseAll
  <2> QED
    BY <1>1, <1>3, <2>1 DEF UndockLater, ReleaseAll, tmux, Held, Nothing
<1>4. CASE FlushPendingClose
  <2>1. up /\ ~dock
    <3>1. dock => Pending = {}
      BY DEF IInv, Shape, Pending, Nothing
    <3> QED
      BY <1>4, <3>1 DEF FlushPendingClose
  <2>2. ~Held(k) /\ ~Held(k)'
    BY <1>4, <2>1 DEF IInv, Shape, FlushPendingClose, Held, Nothing
  <2>3. Replayable(Pending, deferred)
    BY <1>4 DEF FlushPendingClose, NoteFault
  <2>4. deferred[k] # None => k \in GivenBack(Pending, deferred)
    BY <1>1, <2>3, GivenBackFacts DEF Pending
  <2>5. mark'[k] = IF k \in GivenBack(Pending, deferred) THEN None ELSE mark[k]
    BY <1>4 DEF FlushPendingClose, Write
  <2> QED
    BY <1>1, <2>2, <2>4, <2>5
<1> QED
  BY <1>2, <1>3, <1>4

\* So do crashes, restarts, deaths and the user.
LEMMA AgreeOther ==
  ASSUME IInv, AgreesUnlessFault,
         \/ Crash \/ Start \/ Reattach \/ UNCHANGED vars
         \/ \E o \in Obj : Reap(o) \/ ObjectDies(o)
         \/ \E k \in Key, v \in UserVal \cup {Unset} : UserSets(k, v)
  PROVE  AgreesUnlessFault'
<1>1. CASE Crash
  BY <1>1 DEF Crash, AgreesUnlessFault
<1>2. CASE Start
  BY <1>2 DEF Start, Sweep, Write, Leftover, IInv, Shape, Nothing, AgreesUnlessFault, Alive, Held
<1>3. CASE Reattach
  BY <1>3 DEF Reattach, daemon, Sweep, Write, Leftover, AgreesUnlessFault, Alive, Held
<1>4. CASE UNCHANGED vars
  BY <1>4 DEF vars, tmux, daemon, AgreesUnlessFault, Alive, Held
<1>5. CASE \E o \in Obj : Reap(o) \/ ObjectDies(o)
  <2>1. ASSUME NEW o \in Obj, Reap(o) \/ ObjectDies(o), NEW k \in Key, Alive(k)'
        PROVE  /\ Alive(k) /\ mark'[k] = mark[k]
               /\ UNCHANGED <<up, faulted, deferred>>
               /\ saved'[k] = saved[k]
    <3>1. Alive(k) /\ mark'[k] = mark[k] /\ ObjOf[k] # o
      BY <2>1 DEF Reap, ObjectDies, Destroy, Alive
    <3>2. UNCHANGED <<up, faulted, deferred>>
      BY <2>1 DEF Reap, ObjectDies, daemon
    <3>3. saved'[k] = saved[k]
      BY <2>1, <3>1 DEF Reap, ObjectDies, daemon
    <3> QED
      BY <3>1, <3>2, <3>3
  <2> QED
    BY <1>5, <2>1 DEF AgreesUnlessFault, Held
<1>6. CASE \E k \in Key, v \in UserVal \cup {Unset} : UserSets(k, v)
  BY <1>6 DEF UserSets, daemon, AgreesUnlessFault, Alive, Held
<1> QED
  BY <1>1, <1>2, <1>3, <1>4, <1>5, <1>6

\* As long as no line aborted, each claim has its mark and each mark its claim
\* or its close: what leaves them apart is always a failure of a line.
THEOREM Agreement == Spec => []AgreesUnlessFault
<1>1. Init => AgreesUnlessFault
  BY DEF Init, AgreesUnlessFault, Held, Nothing
<1>2. IInv /\ AgreesUnlessFault /\ [Next]_vars => AgreesUnlessFault'
  BY AgreePlan, AgreeRelease, AgreeOther DEF Next, Plan
<1> QED
  BY <1>1, <1>2, Invariance, PTL DEF Spec

-----------------------------------------------------------------------------
(* That a daemon is alone, unless two were contending for the path, and that *)
(* whoever connects finds a world.                                           *)

\* Faults are bounded, and readers are clients.
LEMMA Bounded == MaxFaults \in Nat /\ Readers \subseteq Clients
BY BoundsAssumption

\* No daemon has a name that means that there is none.
LEMMA Named == {Nobody, DeadSocket} \cap Daemons = {}
BY NamesAssumption

\* Past the listing a daemon has a world, and nobody is connected to another.
Populated ==
  /\ \A d \in Daemons : pc[d] \notin {"off", "lists"} => d \in published
  /\ \A c \in Clients : conn[c] # Nobody => conn[c] \in Listening

\* A path names a socket whose daemon has bound it and lives.
PathIsBound == path \in Daemons => path \in Listening \/ pc[path] = "bound"

\* A flag that is not up: one daemon at most is exposed, who has bound is at
\* the path, and who is about to unlink it unlinks nobody's.
Orderly ==
  contended \/ /\ \A d, e \in Exposed : d = e
               /\ \A d \in Daemons : d \in Listening \/ pc[d] = "bound" => path = d
               /\ \A d \in Daemons : pc[d] \in {"steals", "rebinds"} => Listening = {}

AloneInv == StartupTypeOK /\ Populated /\ PathIsBound /\ Orderly

\* The invariant holds at the start.
LEMMA AloneInit == ASSUME StartupInit PROVE AloneInv
<1> USE DEF StartupInit
<1>1. StartupTypeOK
  <2>1. faults \in 0..MaxFaults
    BY Bounded
  <2>2. contended \in BOOLEAN
    OBVIOUS
  <2>3. /\ at \in [Clients -> {"done", "error", "dials", "retries", "waits"}]
        /\ conn \in [Clients -> Daemons \union {Nobody}]
        /\ pc \in [Daemons -> {"off", "lists", "binds", "probes", "steals", "rebinds", "bound",
                               "serves", "redials", "leaves"}]
        /\ published \subseteq Daemons
        /\ path \in Daemons \union {Nobody, DeadSocket}
    OBVIOUS
  <2> QED
    BY <2>1, <2>2, <2>3 DEF StartupTypeOK
<1>2. Listening = {} /\ Exposed = {}
  BY DEF Listening, Exposed
<1>3. path \notin Daemons
  BY Named
<1>4. Populated /\ PathIsBound
  BY <1>2, <1>3 DEF Populated, PathIsBound
<1>5. Orderly
  BY <1>2 DEF Orderly
<1> QED
  BY <1>1, <1>4, <1>5 DEF AloneInv

\* A history flag is a flag.
LEMMA WatchedType == ASSUME StartupTypeOK, Watched PROVE contended' \in BOOLEAN
BY DEF Watched

\* Faults are counted up to their bound.
LEMMA FaultType == ASSUME StartupTypeOK, Fault PROVE faults' \in 0..MaxFaults
BY Bounded DEF StartupTypeOK, Fault

\* Every step keeps the types.
LEMMA AloneTypes ==
  ASSUME StartupTypeOK, [StartupNext]_startup PROVE StartupTypeOK'
<1> USE DEF StartupTypeOK
<1>1. ASSUME NEW c \in Clients, ClientStep(c) PROVE StartupTypeOK'
  BY <1>1 DEF ClientStep, ClientGoesOn, Dials, Redials, GivesUp, Prints, Replied, TimesOut,
              Presses, Connects, Answers, Listening, Free
<1>2. ASSUME NEW d \in Daemons, DaemonStep(d) PROVE StartupTypeOK'
  <2>1. CASE Lists(d)
    BY <2>1, WatchedType DEF Lists
  <2>2. CASE Binds(d) \/ Probes(d) \/ Steals(d) \/ Rebinds(d) \/ Serves(d) \/ Reattaches(d)
             \/ Leaves(d)
    BY <2>2 DEF Binds, Probes, Steals, Rebinds, Serves, Reattaches, Leaves, Dies
  <2> QED
    BY <1>2, <2>1, <2>2 DEF DaemonStep
<1>3. ASSUME NEW d \in Daemons, FaultStep(d) PROVE StartupTypeOK'
  <2>1. faults' \in 0..MaxFaults
    BY <1>3, FaultType DEF FaultStep, Crashes, Signalled, LosesControl, GivesUpServer, RunsByHand
  <2>2. contended' \in BOOLEAN
    BY <1>3, WatchedType DEF FaultStep, Crashes, Signalled, LosesControl, GivesUpServer, RunsByHand
  <2>3. /\ at' \in [Clients -> {"done", "error", "dials", "retries", "waits"}]
        /\ conn' \in [Clients -> Daemons \union {Nobody}]
        /\ published' \subseteq Daemons
        /\ path' \in Daemons \union {Nobody, DeadSocket}
    BY <1>3 DEF FaultStep, Crashes, Signalled, LosesControl, GivesUpServer, RunsByHand, Dies
  <2>4. pc' \in [Daemons -> {"off", "lists", "binds", "probes", "steals", "rebinds", "bound",
                             "serves", "redials", "leaves"}]
    BY <1>3 DEF FaultStep, Crashes, Signalled, LosesControl, GivesUpServer, RunsByHand, Dies
  <2> QED
    BY <2>1, <2>2, <2>3, <2>4
<1>4. CASE UNCHANGED startup
  BY <1>4 DEF startup
<1> QED
  BY <1>1, <1>2, <1>3, <1>4 DEF StartupNext

\* A client's step at most starts a daemon that was off.
LEMMA ClientKeeps ==
  ASSUME AloneInv, NEW c \in Clients, ClientStep(c) PROVE AloneInv'
<1> USE DEF AloneInv, StartupTypeOK, Populated, PathIsBound, Orderly
<1>1. StartupTypeOK'
  BY AloneTypes DEF StartupNext
<1>2. /\ UNCHANGED <<published, path, contended>>
      /\ UNCHANGED pc \/ \E d \in Free : pc' = [pc EXCEPT ![d] = "lists"]
  BY DEF ClientStep, ClientGoesOn, Dials, Redials, GivesUp, Prints, Replied, TimesOut, Presses, Connects
<1>3. Listening' = Listening /\ Exposed' = Exposed
  BY <1>2 DEF Listening, Exposed, Free
<1>4. \A d \in Daemons : (pc[d] = "bound" <=> pc'[d] = "bound")
                         /\ (pc[d] \in {"steals", "rebinds"} <=> pc'[d] \in {"steals", "rebinds"})
                         /\ (pc'[d] \notin {"off", "lists"} => pc[d] \notin {"off", "lists"})
  BY <1>2 DEF Free
<1>5. \A k \in Clients : conn'[k] # Nobody => conn'[k] \in Listening
  BY DEF ClientStep, ClientGoesOn, Dials, Redials, GivesUp, Prints, Replied, TimesOut, Presses,
         Connects, Answers
<1>6. Populated'
  BY <1>2, <1>3, <1>4, <1>5
<1>7. PathIsBound' /\ Orderly'
  BY <1>2, <1>3, <1>4
<1> QED
  BY <1>1, <1>6, <1>7

\* A process that goes leaves the others in order, if the path is not its own
\* any longer.
LEMMA DyingKeeps ==
  ASSUME AloneInv, NEW d \in Daemons, Dies(d), path' # d,
         path' = path \/ path' \notin Daemons,
         ~contended /\ path' # path => Listening \subseteq {d} /\ \A e \in Daemons : pc[e] = "bound" => e = d,
         StartupTypeOK', UNCHANGED contended
  PROVE  AloneInv'
<1> USE DEF AloneInv, StartupTypeOK
<1>1. /\ \A e \in Daemons : pc'[e] = IF e = d THEN "off" ELSE pc[e]
      /\ published' = published \ {d}
      /\ \A c \in Clients : conn'[c] = IF conn[c] = d THEN Nobody ELSE conn[c]
  BY DEF Dies
<1>2. Listening' = Listening \ {d} /\ Exposed' = Exposed \ {d}
  BY <1>1 DEF Listening, Exposed
<1>3. Populated'
  BY <1>1, <1>2 DEF Populated
<1>4. PathIsBound'
  BY <1>1, <1>2 DEF PathIsBound
<1>5. Orderly'
  BY <1>1, <1>2 DEF Orderly
<1> QED
  BY <1>3, <1>4, <1>5

\* One daemon goes from one line to the next, and nobody else moves.
Moves(d, l) ==
  /\ pc' = [pc EXCEPT ![d] = l]
  /\ UNCHANGED <<at, conn>>

\* What that does to the sets of the invariant.
LEMMA MoveSets ==
  ASSUME StartupTypeOK, NEW d \in Daemons, NEW l, Moves(d, l)
  PROVE  /\ UNCHANGED conn
         /\ \A e \in Daemons : pc'[e] = IF e = d THEN l ELSE pc[e]
         /\ Listening' = IF l \in {"serves", "redials", "leaves"}
                         THEN Listening \union {d} ELSE Listening \ {d}
         /\ Exposed' = IF l \in {"binds", "probes", "steals", "rebinds", "bound", "leaves"}
                       THEN Exposed \union {d} ELSE Exposed \ {d}
BY DEF StartupTypeOK, Moves, Listening, Exposed

\* The steps of a daemon keep the invariant.
LEMMA DaemonKeeps ==
  ASSUME AloneInv, NEW d \in Daemons, DaemonStep(d) PROVE AloneInv'
<1> USE DEF AloneInv, StartupTypeOK
<1>0. StartupTypeOK'
  BY AloneTypes DEF StartupNext
<1>1. CASE Lists(d)
  <2>1. Moves(d, "binds") /\ pc[d] = "lists" /\ published' = published \union {d} /\ UNCHANGED path
    BY <1>1 DEF Lists, Moves
  <2>2. d \notin Listening /\ d \notin Exposed
    BY <2>1 DEF Listening, Exposed
  <2>3. Populated' /\ PathIsBound'
    BY <2>1, <2>2, MoveSets DEF Populated, PathIsBound
  <2>4. contended' \/ (~contended /\ Exposed = {})
    BY <1>1 DEF Lists, Watched
  <2>5. Orderly'
    BY <2>1, <2>2, <2>4, MoveSets DEF Orderly
  <2> QED
    BY <1>0, <2>3, <2>5
<1>2. CASE Binds(d)
  <2>1. d \in Exposed /\ d \notin Listening
    BY <1>2 DEF Binds, Exposed, Listening
  <2>2. CASE path = Nobody
    <3>1. Moves(d, "bound") /\ path' = d /\ UNCHANGED <<published, contended>>
      BY <1>2, <2>2 DEF Binds, Moves
    <3>2. ~contended => Listening = {}
      BY <2>2, Named DEF Orderly, Listening
    <3>3. Populated' /\ PathIsBound'
      BY <1>2, <2>1, <3>1, MoveSets DEF Populated, PathIsBound, Binds
    <3>4. Orderly'
      BY <2>1, <3>1, <3>2, MoveSets DEF Orderly, Exposed
    <3> QED
      BY <1>0, <3>3, <3>4
  <2>3. CASE path # Nobody
    <3>1. Moves(d, "probes") /\ UNCHANGED <<path, published, contended>>
      BY <1>2, <2>3 DEF Binds, Moves
    <3>2. Populated' /\ PathIsBound'
      BY <1>2, <2>1, <3>1, MoveSets DEF Populated, PathIsBound, Binds
    <3>3. Orderly'
      BY <2>1, <3>1, MoveSets DEF Orderly
    <3> QED
      BY <1>0, <3>2, <3>3
  <2> QED
    BY <2>2, <2>3
<1>3. CASE Probes(d)
  <2>1. pc[d] = "probes" /\ d \in Exposed /\ d \notin Listening /\ UNCHANGED <<path, contended>>
    BY <1>3 DEF Probes, Exposed, Listening
  <2>2. CASE Answers /\ Dies(d)
    BY <1>0, <2>1, <2>2, DyingKeeps DEF PathIsBound, Answers
  <2>3. CASE ~Answers /\ Moves(d, "steals") /\ UNCHANGED published
    <3>1. Populated' /\ PathIsBound'
      BY <2>1, <2>3, MoveSets DEF Populated, PathIsBound
    <3>2. ~contended => Listening = {}
      BY <2>3 DEF Orderly, Answers, Listening
    <3>3. Orderly'
      BY <2>1, <2>3, <3>2, MoveSets DEF Orderly
    <3> QED
      BY <1>0, <3>1, <3>3
  <2> QED
    BY <1>3, <2>2, <2>3 DEF Probes, Moves
<1>4. CASE Steals(d)
  <2>1. Moves(d, "rebinds") /\ path' = Nobody /\ UNCHANGED <<published, contended>>
    BY <1>4 DEF Steals, Moves
  <2>2. pc[d] = "steals" /\ d \in Exposed /\ d \notin Listening
    BY <1>4 DEF Steals, Exposed, Listening
  <2>3. Populated' /\ PathIsBound'
    BY <2>1, <2>2, MoveSets, Named DEF Populated, PathIsBound
  <2>4. ~contended => Listening = {} /\ \A e \in Daemons : pc[e] # "bound"
    BY <2>2 DEF Orderly, Exposed
  <2>5. Orderly'
    BY <2>1, <2>2, <2>4, MoveSets DEF Orderly
  <2> QED
    BY <1>0, <2>3, <2>5
<1>5. CASE Rebinds(d)
  <2>1. pc[d] = "rebinds" /\ d \in Exposed /\ d \notin Listening /\ UNCHANGED contended
    BY <1>5 DEF Rebinds, Exposed, Listening
  <2>2. CASE path = Nobody /\ Moves(d, "bound") /\ path' = d /\ UNCHANGED published
    <3>1. Populated' /\ PathIsBound'
      BY <2>1, <2>2, MoveSets DEF Populated, PathIsBound
    <3>2. ~contended => Listening = {}
      BY <2>1 DEF Orderly
    <3>3. Orderly'
      BY <2>1, <2>2, <3>2, MoveSets DEF Orderly, Exposed
    <3> QED
      BY <1>0, <3>1, <3>3
  <2>3. CASE path # Nobody /\ Dies(d) /\ UNCHANGED path
    BY <1>0, <2>1, <2>3, DyingKeeps DEF PathIsBound
  <2> QED
    BY <1>5, <2>2, <2>3 DEF Rebinds, Moves
<1>6. CASE Serves(d) \/ Reattaches(d)
  <2>1. Moves(d, "serves") /\ UNCHANGED <<path, published, contended>>
    BY <1>6 DEF Serves, Reattaches, Moves
  <2>2. pc[d] \in {"bound", "redials"}
    BY <1>6 DEF Serves, Reattaches
  <2>3. Populated' /\ PathIsBound'
    BY <2>1, <2>2, MoveSets DEF Populated, PathIsBound
  <2>4. ~contended => path = d
    BY <2>2 DEF Orderly, Listening
  <2>5. ~contended => \A e \in Daemons : pc[e] \notin {"steals", "rebinds"}
    <3>1. CASE pc[d] = "bound"
      BY <3>1 DEF Orderly, Exposed
    <3>2. CASE pc[d] = "redials"
      BY <3>2 DEF Orderly, Listening
    <3> QED
      BY <2>2, <3>1, <3>2
  <2>6. Orderly'
    <3> SUFFICES ASSUME ~contended PROVE Orderly'
      BY <2>1 DEF Orderly
    <3>1. \A e \in Daemons : pc'[e] \notin {"steals", "rebinds"}
      BY <2>1, <2>5, MoveSets
    <3>2. \A e \in Daemons : e \in Listening' \/ pc'[e] = "bound" => path' = e
      BY <2>1, <2>4, MoveSets DEF Orderly
    <3>3. \A e, f \in Exposed' : e = f
      BY <2>1, MoveSets DEF Orderly
    <3> QED
      BY <3>1, <3>2, <3>3 DEF Orderly
  <2> QED
    BY <1>0, <2>3, <2>6
<1>7. CASE Leaves(d)
  <2>1. pc[d] = "leaves" /\ d \in Exposed /\ d \in Listening
        /\ path' = Nobody /\ Dies(d) /\ UNCHANGED contended
    BY <1>7 DEF Leaves, Exposed, Listening
  <2>2. ~contended => Listening \subseteq {d} /\ \A e \in Daemons : pc[e] = "bound" => e = d
    BY <2>1 DEF Orderly, Listening
  <2> QED
    BY <1>0, <2>1, <2>2, DyingKeeps, Named
<1> QED
  BY <1>1, <1>2, <1>3, <1>4, <1>5, <1>6, <1>7 DEF DaemonStep

\* So do the faults.
LEMMA FaultKeeps ==
  ASSUME AloneInv, NEW d \in Daemons, FaultStep(d) PROVE AloneInv'
<1> USE DEF AloneInv, StartupTypeOK
<1>0. StartupTypeOK'
  BY AloneTypes DEF StartupNext
<1>1. CASE Crashes(d)
  <2>1. Dies(d) /\ UNCHANGED contended /\ path' = IF path = d THEN DeadSocket ELSE path
    BY <1>1 DEF Crashes
  <2>2. ~contended /\ path = d => Listening \subseteq {d} /\ \A e \in Daemons : pc[e] = "bound" => e = d
    BY DEF Orderly, Listening
  <2> QED
    BY <1>0, <2>1, <2>2, DyingKeeps, Named
<1>2. CASE Signalled(d) \/ GivesUpServer(d)
  <2>1. Moves(d, "leaves") /\ UNCHANGED <<path, published>>
    BY <1>2 DEF Signalled, GivesUpServer, Moves
  <2>2. pc[d] \in {"serves", "redials"} /\ d \in Listening
    BY <1>2 DEF Signalled, GivesUpServer, Listening
  <2>3. Populated' /\ PathIsBound'
    BY <2>1, <2>2, MoveSets DEF Populated, PathIsBound
  <2>4. contended' \/ (~contended /\ Exposed = {})
    BY <1>2 DEF Signalled, GivesUpServer, Watched
  <2>5. Orderly'
    BY <2>1, <2>2, <2>4, MoveSets DEF Orderly
  <2> QED
    BY <1>0, <2>3, <2>5
<1>3. CASE LosesControl(d)
  <2>1. Moves(d, "redials") /\ pc[d] = "serves" /\ UNCHANGED <<path, published, contended>>
    BY <1>3 DEF LosesControl, Moves
  <2>2. d \in Listening /\ d \notin Exposed
    BY <2>1 DEF Listening, Exposed
  <2>3. Populated' /\ PathIsBound' /\ Orderly'
    BY <2>1, <2>2, MoveSets DEF Populated, PathIsBound, Orderly
  <2> QED
    BY <1>0, <2>3
<1>4. CASE RunsByHand(d)
  <2>1. Moves(d, "lists") /\ pc[d] = "off" /\ UNCHANGED <<path, published, contended>>
    BY <1>4 DEF RunsByHand, Moves
  <2>2. d \notin Listening /\ d \notin Exposed
    BY <2>1 DEF Listening, Exposed
  <2>3. Populated' /\ PathIsBound' /\ Orderly'
    BY <2>1, <2>2, MoveSets DEF Populated, PathIsBound, Orderly
  <2> QED
    BY <1>0, <2>3
<1> QED
  BY <1>1, <1>2, <1>3, <1>4 DEF FaultStep

\* The inductive invariant holds of every behaviour.
THEOREM AloneInvariance == StartupSpec => []AloneInv
<1>1. AloneInv /\ [StartupNext]_startup => AloneInv'
  <2> SUFFICES ASSUME AloneInv, [StartupNext]_startup PROVE AloneInv'
    OBVIOUS
  <2>1. CASE UNCHANGED startup
    BY <2>1 DEF startup, AloneInv, StartupTypeOK, Populated, PathIsBound, Orderly, Listening, Exposed
  <2> QED
    BY <2>1, ClientKeeps, DaemonKeeps, FaultKeeps DEF StartupNext
<1> QED
  BY <1>1, AloneInit, PTL DEF StartupSpec

\* Every variable has its type.
THEOREM AloneTypeCorrect == StartupSpec => []StartupTypeOK
BY AloneInvariance, PTL DEF AloneInv

\* Whoever connects, to the first daemon, to one that has stolen the path or to
\* one that is about to go, finds a world (daemon.go:258-260).
THEOREM SnapshotsAreTruthful == StartupSpec => []TruthfulSnapshot
<1>1. AloneInv => TruthfulSnapshot
  BY DEF AloneInv, StartupTypeOK, Populated, TruthfulSnapshot, Listening
<1> QED
  BY <1>1, AloneInvariance, PTL

\* Without contention for the path there is one daemon and the path is its own,
\* through any number of crashes, signals and second starts (main.go:3,
\* daemon.go:415-416).
THEOREM AloneUnlessContended == StartupSpec => []OneUnlessContended
<1>1. AloneInv => OneUnlessContended
  BY DEF AloneInv, Orderly, OneUnlessContended, Listening
<1> QED
  BY <1>1, AloneInvariance, PTL
=============================================================================
