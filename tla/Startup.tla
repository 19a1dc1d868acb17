------------------------------- MODULE Startup -------------------------------
(***************************************************************************)
(* How a daemon comes to life, keeps to itself and goes: the commands that *)
(* start one when nobody answers (client.go), runDaemon up to its loop and *)
(* out of it (daemon.go), and the one thing the processes share, the path  *)
(* of the socket (listenExclusive).                                        *)
(*                                                                         *)
(* A path names the socket of the daemon that bound it, which answers      *)
(* from listen() on; or a stale one, whose daemon is dead; or nothing.  A  *)
(* daemon whose socket was unlinked goes on serving those that are         *)
(* connected.                                                              *)
(*                                                                         *)
(* Its formulas are named for the module, as the proofs read it together   *)
(* with OwnedOptions.                                                      *)
(***************************************************************************)
EXTENDS Naturals

CONSTANTS
  Clients,    \* command lines that the user runs, one at a time each
  Readers,    \* those of them that only want the world: winch ls
  Daemons,    \* bound: daemons that run at the same time
  MaxFaults   \* bound: crashes, signals, lost connections, daemons by hand

ASSUME BoundsAssumption == MaxFaults \in Nat /\ Readers \subseteq Clients

Nobody     == "nobody"
DeadSocket == "dead socket"
ASSUME NamesAssumption == {Nobody, DeadSocket} \cap Daemons = {}

VARIABLES
  at,          \* what a client does
  conn,        \* the daemon it is connected to
  pc,          \* what a daemon does
  published,   \* the daemons whose hub has a world
  path,        \* what the path of the socket names
  faults,      \* how many faults there have been
  contended    \* two daemons have been binding or leaving at once

startup == <<at, conn, pc, published, path, faults, contended>>

Free == {d \in Daemons : pc[d] = "off"}

\* serve accepts as long as the process lives: nobody closes the listener.
Listening == {d \in Daemons : pc[d] \in {"serves", "redials", "leaves"}}
Answers == path \in Listening

\* Between the first look at the path and listen(), or before the last Remove.
Exposed == {d \in Daemons : pc[d] \in {"binds", "probes", "steals", "rebinds", "bound", "leaves"}}

\* History: a daemon gets there while another is.
Watched == contended' = (contended \/ Exposed # {})

-----------------------------------------------------------------------------
(* Clients.                                                                  *)

Connects(c) ==
  /\ Answers
  /\ at' = [at EXCEPT ![c] = "waits"]
  /\ conn' = [conn EXCEPT ![c] = path]

\* dialEnsure: a socket that does not answer has a daemon started.
Dials(c) ==
  /\ at[c] = "dials"
  /\ \/ Connects(c) /\ UNCHANGED pc
     \/ /\ ~Answers
        /\ at' = [at EXCEPT ![c] = "retries"]
        /\ \/ \E d \in Free : pc' = [pc EXCEPT ![d] = "lists"]
           \/ Free = {} /\ UNCHANGED pc
        /\ UNCHANGED conn
  /\ UNCHANGED <<published, path, faults, contended>>

Redials(c) ==
  /\ at[c] = "retries"
  /\ Connects(c)
  /\ UNCHANGED <<pc, published, path, faults, contended>>

\* Two seconds have gone by.
GivesUp(c) ==
  /\ at[c] = "retries"
  /\ at' = [at EXCEPT ![c] = "error"]
  /\ UNCHANGED <<conn, pc, published, path, faults, contended>>

\* cmdLs: the snapshot that every connection starts with is enough.
Prints(c) ==
  /\ at[c] = "waits" /\ c \in Readers
  /\ at' = [at EXCEPT ![c] = "done"] /\ conn' = [conn EXCEPT ![c] = Nobody]
  /\ UNCHANGED <<pc, published, path, faults, contended>>

\* sendCmd: the loop answers.
Replied(c) ==
  /\ at[c] = "waits" /\ c \notin Readers /\ pc[conn[c]] = "serves"
  /\ at' = [at EXCEPT ![c] = "done"] /\ conn' = [conn EXCEPT ![c] = Nobody]
  /\ UNCHANGED <<pc, published, path, faults, contended>>

\* Nobody is in the loop for three seconds.
TimesOut(c) ==
  /\ at[c] = "waits" /\ c \notin Readers /\ pc[conn[c]] # "serves"
  /\ at' = [at EXCEPT ![c] = "error"] /\ conn' = [conn EXCEPT ![c] = Nobody]
  /\ UNCHANGED <<pc, published, path, faults, contended>>

Presses(c) ==
  /\ at[c] \in {"done", "error"}
  /\ at' = [at EXCEPT ![c] = "dials"]
  /\ UNCHANGED <<conn, pc, published, path, faults, contended>>

-----------------------------------------------------------------------------
(* Daemons.                                                                  *)

\* A process goes.  Who was connected to it reads the end of the stream.
Dies(d) ==
  /\ pc' = [pc EXCEPT ![d] = "off"]
  /\ published' = published \ {d}
  /\ at' = [c \in Clients |-> IF conn[c] = d THEN "error" ELSE at[c]]
  /\ conn' = [c \in Clients |-> IF conn[c] = d THEN Nobody ELSE conn[c]]

\* The connection, the configuration, the world, the sweeps.
Lists(d) ==
  /\ pc[d] = "lists"
  /\ pc' = [pc EXCEPT ![d] = "binds"]
  /\ published' = published \union {d}
  /\ UNCHANGED <<at, conn, path, faults>>
  /\ Watched

\* Mutant: whatever is in the way is removed.
BindsByForce(d) ==
  /\ pc[d] = "binds"
  /\ pc' = [pc EXCEPT ![d] = IF path = Nobody THEN "bound" ELSE "steals"]
  /\ path' = IF path = Nobody THEN d ELSE path
  /\ UNCHANGED <<at, conn, published, faults, contended>>

\* listenExclusive: bind() fails on any file.
Binds(d) ==
  /\ pc[d] = "binds"
  /\ pc' = [pc EXCEPT ![d] = IF path = Nobody THEN "bound" ELSE "probes"]
  /\ path' = IF path = Nobody THEN d ELSE path
  /\ UNCHANGED <<at, conn, published, faults, contended>>

\* Mutant: a socket in the way is somebody's.
ProbesNot(d) ==
  /\ pc[d] = "probes"
  /\ Dies(d)
  /\ UNCHANGED <<path, faults, contended>>

\* Somebody answers: "daemon already running".
Probes(d) ==
  /\ pc[d] = "probes"
  /\ \/ Answers /\ Dies(d)
     \/ ~Answers /\ pc' = [pc EXCEPT ![d] = "steals"] /\ UNCHANGED <<at, conn, published>>
  /\ UNCHANGED <<path, faults, contended>>

\* os.Remove takes what is there by now.
Steals(d) ==
  /\ pc[d] = "steals"
  /\ pc' = [pc EXCEPT ![d] = "rebinds"]
  /\ path' = Nobody
  /\ UNCHANGED <<at, conn, published, faults, contended>>

Rebinds(d) ==
  /\ pc[d] = "rebinds"
  /\ \/ /\ path = Nobody
        /\ pc' = [pc EXCEPT ![d] = "bound"] /\ path' = d
        /\ UNCHANGED <<at, conn, published>>
     \/ path # Nobody /\ Dies(d) /\ UNCHANGED path
  /\ UNCHANGED <<faults, contended>>

\* listen(), go serve, and the loop.
Serves(d) ==
  /\ pc[d] = "bound"
  /\ pc' = [pc EXCEPT ![d] = "serves"]
  /\ UNCHANGED <<at, conn, published, path, faults, contended>>

\* The session that the daemon is attached to has died, and the server lives on.
Reattaches(d) ==
  /\ pc[d] = "redials"
  /\ pc' = [pc EXCEPT ![d] = "serves"]
  /\ UNCHANGED <<at, conn, published, path, faults, contended>>

\* The deferred os.Remove, and the end.
Leaves(d) ==
  /\ pc[d] = "leaves"
  /\ path' = Nobody
  /\ Dies(d)
  /\ UNCHANGED <<faults, contended>>

-----------------------------------------------------------------------------
(* Faults.                                                                   *)

Fault == faults < MaxFaults /\ faults' = faults + 1

\* It is killed, or log.Fatal: no deferred call runs.
Crashes(d) ==
  /\ pc[d] # "off" /\ Fault
  /\ Dies(d)
  /\ path' = IF path = d THEN DeadSocket ELSE path
  /\ UNCHANGED contended

\* SIGTERM, which only the loop looks at.
Signalled(d) ==
  /\ pc[d] = "serves" /\ Fault
  /\ pc' = [pc EXCEPT ![d] = "leaves"]
  /\ UNCHANGED <<at, conn, published, path>>
  /\ Watched

LosesControl(d) ==
  /\ pc[d] = "serves" /\ Fault
  /\ pc' = [pc EXCEPT ![d] = "redials"]
  /\ UNCHANGED <<at, conn, published, path, contended>>

\* fetchWorld fails at a later attempt: tmux is taken for gone.
GivesUpServer(d) ==
  /\ pc[d] = "redials" /\ Fault
  /\ pc' = [pc EXCEPT ![d] = "leaves"]
  /\ UNCHANGED <<at, conn, published, path>>
  /\ Watched

\* winch run.
RunsByHand(d) ==
  /\ pc[d] = "off" /\ Fault
  /\ pc' = [pc EXCEPT ![d] = "lists"]
  /\ UNCHANGED <<at, conn, published, path, contended>>

-----------------------------------------------------------------------------
StartupInit ==
  /\ at = [c \in Clients |-> "done"] /\ conn = [c \in Clients |-> Nobody]
  /\ pc = [d \in Daemons |-> "off"] /\ published = {}
  /\ path \in {Nobody, DeadSocket}
  /\ faults = 0 /\ contended = FALSE

ClientGoesOn(c) == \/ Dials(c) \/ Redials(c) \/ GivesUp(c)
                   \/ Prints(c) \/ Replied(c) \/ TimesOut(c)
ClientStep(c) == ClientGoesOn(c) \/ Presses(c)
DaemonStep(d) == \/ Lists(d) \/ Binds(d) \/ Probes(d) \/ Steals(d) \/ Rebinds(d)
                 \/ Serves(d) \/ Reattaches(d) \/ Leaves(d)
FaultStep(d)  == \/ Crashes(d) \/ Signalled(d) \/ LosesControl(d)
                 \/ GivesUpServer(d) \/ RunsByHand(d)

StartupNext ==
  \/ \E c \in Clients : ClientStep(c)
  \/ \E d \in Daemons : DaemonStep(d) \/ FaultStep(d)

StartupSpec == StartupInit /\ [][StartupNext]_startup

\* A process that can go on does.  A user whom winch refuses tries again; one
\* who was served need not.
StartupFairSpec ==
  /\ StartupSpec
  /\ \A d \in Daemons : WF_startup(DaemonStep(d))
  /\ \A c \in Clients :
       /\ WF_startup(ClientGoesOn(c))
       /\ WF_startup(at[c] = "error" /\ Presses(c))

-----------------------------------------------------------------------------
(* Properties.                                                               *)

\* Every variable has its type.
StartupTypeOK ==
  /\ at \in [Clients -> {"done", "error", "dials", "retries", "waits"}]
  /\ conn \in [Clients -> Daemons \union {Nobody}]
  /\ pc \in [Daemons -> {"off", "lists", "binds", "probes", "steals", "rebinds", "bound",
                         "serves", "redials", "leaves"}]
  /\ published \subseteq Daemons
  /\ path \in Daemons \union {Nobody, DeadSocket}
  /\ faults \in 0..MaxFaults /\ contended \in BOOLEAN

\* Whoever gets through to a daemon finds a world behind the socket
\* (daemon.go:258-260), also when it was stolen, or its daemon is going.
TruthfulSnapshot == \A c \in Clients : conn[c] # Nobody => conn[c] \in published

\* There is one daemon, and the path is its (main.go:3, daemon.go:415-416),
\* after any crash, signal or second start, as long as no two have ever been
\* between bind and listen, or before their last Remove, at the same time.
OneUnlessContended ==
  contended \/ \A d \in Listening : path = d

\* Without that proviso.
OneDaemon == \A d, e \in Listening : d = e

\* Once crashes have come to an end, a user who keeps asking is answered,
\* whatever the dead have left at the path and whoever unlinked whose socket.
ComesUp == \A c \in Clients : []<>(at[c] = "done")
=============================================================================
