---------------------------- MODULE OwnedOptions ----------------------------
(***************************************************************************)
(* The registry of options winch takes from the user (owned.go), the tmux  *)
(* server that holds those options, and the four ways the daemon sends a   *)
(* plan to tmux (dock.go, preview.go).                                     *)
(*                                                                         *)
(* tmux runs one control line command by command and drops the rest of the *)
(* line at the first error.  A set-option on an object that is gone is an  *)
(* error, a quiet unset is not; a geometry command of the same line        *)
(* (split-window, swap-pane, switch-client) may fail at any time.          *)
(*                                                                         *)
(* A value is a token that stands for all the show-options lines of one    *)
(* option at one scope.  Tokens of the user and of winch are distinct, so  *)
(* a value tells who wrote it.                                             *)
(***************************************************************************)
EXTENDS Naturals

CONSTANTS
  Key,        \* optKey: one option of one object
  Session,    \* the objects of scope session
  Window,     \* the objects of scope window
  Within,     \* the session a window belongs to
  ObjOf,      \* the object a key belongs to
  Rank,       \* the order of sortKeys and of desiredOpts
  UserVal,    \* values a user may give an option
  Args,       \* values winch may want an option to have
  Off,        \* the one it wants every window option to have
  Unset,      \* nothing set at this scope, the value is inherited
  None,       \* no mark, no claim
  Initially,  \* what the options may hold before winch comes
  MaxWrites   \* bound on the user's writes

Obj == Session \cup Window

ASSUME RegistryAssumption ==
  /\ ObjOf \in [Key -> Obj]
  /\ Rank \in [Key -> Nat]
  /\ Session \cap Window = {}
  /\ Within \in [Window -> Session]
  /\ UserVal \cap Args = {} /\ Off \in Args
  /\ Unset \notin UserVal \cup Args
  /\ None \notin UserVal \cup Args \cup {Unset}
  /\ Initially \subseteq [Key -> UserVal \cup {Unset}]
  /\ MaxWrites \in Nat

Value == UserVal \cup Args \cup {Unset}

VARIABLES
  live,       \* the objects tmux has
  opt,        \* what each option holds at its scope
  mark,       \* @winch_saved_<option>, or None
  up,         \* a daemon is attached
  dock,       \* d.dock # nil
  saved,      \* owner.own[k].saved, None when the key is not claimed
  installed,  \* owner.own[k].installed
  deferred,   \* the restores a two-phase close still has to send
  orig,       \* history: what the user last had there
  lost,       \* history: keys whose original the protocol has lost
  faulted,    \* history: some line has aborted
  writes      \* history: number of writes by the user

tmux   == <<live, opt, mark>>
daemon == <<up, dock, saved, installed, deferred>>
vars   == <<tmux, daemon, orig, lost, faulted, writes>>

Alive(k) == ObjOf[k] \in live
Held(k)  == saved[k] # None
Nothing  == [k \in Key |-> None]

Init ==
  /\ live = Obj
  /\ opt \in Initially
  /\ mark = Nothing
  /\ up = TRUE /\ dock = FALSE
  /\ saved = Nothing /\ installed = Nothing /\ deferred = Nothing
  /\ orig = opt
  /\ lost = {}
  /\ faulted = FALSE
  /\ writes = 0

-----------------------------------------------------------------------------
(* owner.plan: the difference between what is wanted, a value or None for   *)
(* each key, and what is owned.                                             *)

\* desiredOpts: every option of the session that hosts the sidebar, saying what
\* the width and the scrub make it say, and every option of the held windows.
DesiredOpts(sess, held) ==
  {w \in [Key -> Args \cup {None}] :
     \A k \in Key : w[k] \in IF ObjOf[k] = sess THEN Args \ {Off}
                            ELSE IF ObjOf[k] \in held THEN {Off} ELSE {None}}

Wants == UNION {DesiredOpts(sess, held) : sess \in Session, held \in SUBSET Window}

\* dockMove never lets go of a window: it wants all it holds and the new one.
KeepsWindows(w) == \A k \in Key : (Held(k) /\ ObjOf[k] \in Window) => w[k] # None

Fresh(w)   == {k \in Key : w[k] # None /\ ~Held(k)}
Updates(w) == {k \in Key : w[k] # None /\ (~Held(k) \/ installed[k] # w[k])}
Stale(w)   == {k \in Key : Held(k) /\ w[k] = None}

\* Mutant: reads the inherited value of an option that is not set.
ReadEffective(k) == IF opt[k] = Unset THEN CHOOSE v \in UserVal : TRUE ELSE opt[k]

\* readOpts: a read that fails answers nothing, which is saved as unset.
ReadOpt(k) == IF Alive(k) THEN opt[k] ELSE Unset

\* The set-options of S that run before the first one whose object is gone.
Landed(S) == {k \in S : \A j \in S : Alive(j) \/ Rank[k] < Rank[j]}

\* All marks come before the first value, so one failed mark stops every value.
MarksLanded(w)  == Landed(Fresh(w))
ValuesLanded(w) == IF \A k \in Fresh(w) : Alive(k) THEN Landed(Updates(w)) ELSE {}

InstallRuns(w) == \A k \in Fresh(w) \cup Updates(w) : Alive(k)

\* restoreCmds is two quiet unsets and a replay: only the replay can fail.
Replayable(S, s) == \A k \in S : Alive(k) \/ s[k] = Unset

GivenBack(S, s) ==
  {k \in S : /\ Alive(k)
             /\ \A j \in S : (~Alive(j) /\ s[j] # Unset) => Rank[k] < Rank[j]}

\* What tmux holds after the marks of M, the values of V and the restores of G.
Write(M, V, w, G, s) ==
  /\ opt'  = [k \in Key |-> IF k \in G THEN s[k]
                            ELSE IF k \in V THEN w[k] ELSE opt[k]]
  /\ mark' = [k \in Key |-> IF k \in G THEN None
                            ELSE IF k \in M THEN ReadOpt(k) ELSE mark[k]]

\* History: claiming a key whose leftover mark is about to be overwritten with
\* winch's own value, or rewriting a claimed key whose mark is gone.
Mislaid(M, V, w) ==
  {k \in M : mark[k] # None /\ mark[k] # opt[k]} \cup
  {k \in V \ Fresh(w) : mark[k] = None}

NoteFault(ok) == faulted' = (faulted \/ ~ok)

\* Mutant: reads the original again on every plan.
CommitRereads(w) ==
  /\ saved' = [k \in Key |-> IF w[k] = None THEN None ELSE ReadOpt(k)]
  /\ installed' = w

Commit(w) ==
  /\ saved' = [k \in Key |-> IF w[k] = None THEN None
                             ELSE IF Held(k) THEN saved[k] ELSE ReadOpt(k)]
  /\ installed' = w

-----------------------------------------------------------------------------
(* The lines that carry a plan.  tail says whether the geometry commands    *)
(* behind the options succeed.                                              *)

\* dockOpen and the carve of a preview: installs and a split on one line.  The
\* restores of the plan are not sent: both callers want all that is held.
InstallLine(w, tail) ==
  LET ok == InstallRuns(w) /\ tail
  IN  /\ \A k \in Key : Held(k) /\ Alive(k) => w[k] # None
      /\ Write(MarksLanded(w), ValuesLanded(w), w, {}, saved)
      /\ lost' = lost \cup Mislaid(MarksLanded(w), ValuesLanded(w), w)
      /\ NoteFault(ok)
      /\ IF ok THEN Commit(w) ELSE UNCHANGED <<saved, installed>>
      /\ UNCHANGED <<live, up, deferred, orig, writes>>

\* dockOpen: a pending close is flushed before anything is read.
OpenDock(w, tail) ==
  /\ up /\ ~dock /\ deferred = Nothing
  /\ InstallLine(w, tail)
  /\ dock' = (InstallRuns(w) /\ tail)

Carve(w, tail) ==
  /\ up /\ dock
  /\ InstallLine(w, tail)
  /\ UNCHANGED dock

\* dockMove: the critical line and the restores are two lines of one write.  The
\* restores run whatever became of the critical line, which alone decides
\* whether the plan is committed.
Move(w, tail) ==
  LET ok    == InstallRuns(w) /\ tail
      stale == Stale(w)
  IN  /\ up /\ dock
      /\ KeepsWindows(w)
      /\ Write(MarksLanded(w), ValuesLanded(w), w, GivenBack(stale, saved), saved)
      /\ lost' = lost \cup Mislaid(MarksLanded(w), ValuesLanded(w), w)
      /\ NoteFault(ok /\ Replayable(stale, saved))
      /\ IF ok THEN Commit(w) ELSE UNCHANGED <<saved, installed>>
      /\ UNCHANGED <<live, up, dock, deferred, orig, writes>>

\* applyDockPlan: restores and installs on two lines, committed if both ran.
Replan(w) ==
  LET stale == Stale(w)
      ok    == InstallRuns(w) /\ Replayable(stale, saved)
  IN  /\ up /\ dock
      /\ Write(MarksLanded(w), ValuesLanded(w), w, GivenBack(stale, saved), saved)
      /\ lost' = lost \cup Mislaid(MarksLanded(w), ValuesLanded(w), w)
      /\ NoteFault(ok)
      /\ IF ok THEN Commit(w) ELSE UNCHANGED <<saved, installed>>
      /\ UNCHANGED <<live, up, dock, deferred, orig, writes>>

\* releaseAll: every claim is dropped before the restores are sent.
ReleaseAll ==
  /\ up /\ dock
  /\ dock' = FALSE
  /\ saved' = Nothing /\ installed' = Nothing

Claimed == {k \in Key : Held(k)}

\* dockClose in one batch, dockAbandon.
Undock ==
  /\ ReleaseAll
  /\ Write({}, {}, Nothing, GivenBack(Claimed, saved), saved)
  /\ NoteFault(Replayable(Claimed, saved))
  /\ UNCHANGED <<live, up, deferred, orig, lost, writes>>

\* dockClose onto an agent pane: the restores wait for the close timer.
UndockLater ==
  /\ ReleaseAll
  /\ deferred' = saved
  /\ UNCHANGED <<tmux, up, orig, lost, faulted, writes>>

\* Mutant: a close with nothing left to restore stays pending.
PendingAlive == {k \in Key : deferred[k] # None /\ Alive(k)}

Pending == {k \in Key : deferred[k] # None}

FlushPendingClose ==
  /\ up /\ Pending # {}
  /\ Write({}, {}, Nothing, GivenBack(Pending, deferred), deferred)
  /\ NoteFault(Replayable(Pending, deferred))
  /\ deferred' = Nothing
  /\ UNCHANGED <<live, up, dock, saved, installed, orig, lost, writes>>

-----------------------------------------------------------------------------
(* Recovery, and the environment.                                           *)

\* Mutant: takes a mark that says unset for no mark.
LeftoverSet(owned) == {k \in Key : Alive(k) /\ mark[k] \notin {None, Unset} /\ owned[k] = None}

\* Mutant: sweeps the daemon's own live claims.
LeftoverAll(owned) == {k \in Key : Alive(k) /\ mark[k] # None}

\* sweepOwned: every mark of an object that is not a live claim of this daemon.
Leftover(owned) == {k \in Key : Alive(k) /\ mark[k] # None /\ owned[k] = None}

Sweep(owned) ==
  /\ Write({}, {}, Nothing, Leftover(owned), mark)
  /\ UNCHANGED live

\* A crash, a kill or an orderly shutdown: none of them undocks.
Crash ==
  /\ up
  /\ up' = FALSE /\ dock' = FALSE
  /\ saved' = Nothing /\ installed' = Nothing /\ deferred' = Nothing
  /\ UNCHANGED <<tmux, orig, lost, faulted, writes>>

Start ==
  /\ ~up
  /\ up' = TRUE
  /\ Sweep(saved)
  /\ UNCHANGED <<dock, saved, installed, deferred, orig, lost, faulted, writes>>

\* The control connection died and the same daemon attached again.
Reattach ==
  /\ up
  /\ Sweep(saved)
  /\ UNCHANGED <<daemon, orig, lost, faulted, writes>>

\* A session takes its windows with it, and the options die with the object.
Destroy(o) ==
  LET dead == {o} \cup {x \in Window : Within[x] = o}
      gone == {k \in Key : ObjOf[k] \in dead}
  IN  /\ o \in live
      /\ live' = live \ dead
      /\ opt'  = [k \in Key |-> IF k \in gone THEN Unset ELSE opt[k]]
      /\ mark' = [k \in Key |-> IF k \in gone THEN None ELSE mark[k]]
      /\ orig' = [k \in Key |-> IF k \in gone THEN Unset ELSE orig[k]]
      /\ lost' = lost \ gone

\* reapEmptyCarves: kill the window, then forget its claims.
Reap(o) ==
  /\ up /\ dock /\ o \in Window
  /\ Destroy(o)
  /\ saved' = [k \in Key |-> IF ObjOf[k] = o THEN None ELSE saved[k]]
  /\ installed' = [k \in Key |-> IF ObjOf[k] = o THEN None ELSE installed[k]]
  /\ UNCHANGED <<up, dock, deferred, faulted, writes>>

\* The user closes a window or a session.
ObjectDies(o) ==
  /\ Destroy(o)
  /\ UNCHANGED <<daemon, faulted, writes>>

\* A user write is the new original unless winch's mark covers the option.  It
\* is lost when winch still means to replay an older one over it.
UserSets(k, v) ==
  /\ Alive(k) /\ writes < MaxWrites
  /\ writes' = writes + 1
  /\ opt' = [opt EXCEPT ![k] = v]
  /\ orig' = IF mark[k] = None THEN [orig EXCEPT ![k] = v] ELSE orig
  /\ lost' = IF mark[k] # None THEN lost
             ELSE IF Held(k) \/ deferred[k] # None THEN lost \cup {k}
             ELSE lost \ {k}
  /\ UNCHANGED <<live, mark, daemon, faulted>>

Next ==
  \/ \E w \in Wants, tail \in BOOLEAN :
       OpenDock(w, tail) \/ Carve(w, tail) \/ Move(w, tail)
  \/ \E w \in Wants : Replan(w)
  \/ Undock \/ UndockLater \/ FlushPendingClose
  \/ Crash \/ Start \/ Reattach
  \/ \E o \in Obj : Reap(o) \/ ObjectDies(o)
  \/ \E k \in Key, v \in UserVal \cup {Unset} : UserSets(k, v)

Spec == Init /\ [][Next]_vars

\* The close timer always fires, and a fired timer is always received.
FairSpec == Spec /\ WF_vars(FlushPendingClose)

-----------------------------------------------------------------------------
TypeOK ==
  /\ live \subseteq Obj
  /\ opt \in [Key -> Value]
  /\ mark \in [Key -> Value \cup {None}]
  /\ up \in BOOLEAN /\ dock \in BOOLEAN
  /\ saved \in [Key -> Value \cup {None}]
  /\ installed \in [Key -> Args \cup {None}]
  /\ deferred \in [Key -> Value \cup {None}]
  /\ orig \in [Key -> UserVal \cup {Unset}]
  /\ lost \subseteq Key
  /\ faulted \in BOOLEAN
  /\ writes \in 0..MaxWrites

\* What tmux alone can tell a successor daemon: an option without a mark holds
\* the user's value, and a mark holds the user's value (owned.go:12, "exactly
\* as it was, including after a crash").
ExactRecovery ==
  \A k \in Key \ lost : Alive(k) =>
    orig[k] = IF mark[k] = None THEN opt[k] ELSE mark[k]

\* What the registry or a pending close would replay is the user's value, never
\* winch's own (the claim is read once and survives every rewrite).
RestoresAreOriginals ==
  \A k \in Key \ lost : Alive(k) =>
    /\ Held(k) => saved[k] = orig[k]
    /\ deferred[k] # None => deferred[k] = orig[k]

\* As long as no line aborted, registry and tmux agree: a claim has its mark,
\* and a mark belongs to a claim or to a close under way.
AgreesUnlessFault ==
  (up /\ ~faulted) => \A k \in Key : Alive(k) =>
    /\ Held(k) => mark[k] = saved[k]
    /\ mark[k] # None => Held(k) \/ deferred[k] # None

\* A daemon that starts leaves nothing of its predecessor behind, whatever the
\* predecessor was doing when it died.
StartupHeals ==
  [][(~up /\ up') => \A k \in Key : Alive(k)' =>
       /\ mark'[k] = None
       /\ k \notin lost' => opt'[k] = orig'[k]]_vars

\* A two-phase close ends: its restores are sent or, if the daemon dies first,
\* left to the sweep.
CloseCompletes == \A k \in Key : (deferred[k] # None) ~> (deferred[k] = None)

-----------------------------------------------------------------------------
(* What the comments of the code claim and the code does not keep.          *)

\* owned.go:12: every option "has to go back exactly as it was".
GoesBackExactly ==
  up => \A k \in Key : (Alive(k) /\ mark[k] = None /\ ~Held(k) /\ deferred[k] = None)
                         => opt[k] = orig[k]
=============================================================================
