------------------------------ MODULE AvfRunner ------------------------------
(***************************************************************************)
(* agv-avf-runner: the process that holds the guest of a VM on Apple's     *)
(* Virtualization framework.  It loads its config, binds a control socket, *)
(* boots the guest, and exits when the guest has stopped.                  *)
(*                                                                         *)
(* Simplifications.  The framework may take any call or fail it; a guest   *)
(* may ignore the ACPI request for ever, and may stop at any time.  What   *)
(* `status` answers besides "running" is left out.  `suspend` is refused   *)
(* by the runner and changes nothing.  agv restores no snapshot here: a    *)
(* suspended VM cannot be migrated and an AVF VM cannot be suspended.      *)
(***************************************************************************)
EXTENDS Naturals, FiniteSets

CONSTANTS
  Runners,    \* the process ids the host may give to a runner of this VM
  None        \* no process

ASSUME RunnersAssumption == None \notin Runners

VARIABLES
  phase,      \* per process: how far it is
  asked,      \* the processes whose guest was asked to shut down
  socket,     \* avf-control.sock: the process that bound it, live or dead
  present     \* avf-runner-config.json exists

runnerVars == <<phase, asked, socket, present>>

\* loading: no socket and no signal handlers yet; starting: bound, the guest is
\* on its way up; ending: the guest is gone, the exit is not
Phases == {"none", "loading", "starting", "up", "ending"}

Live == {r \in Runners : phase[r] # "none"}
Bound(r) == phase[r] \in {"starting", "up"}

(* Somebody accepts on the socket. *)
Answers == socket # None /\ phase[socket] \in {"starting", "up", "ending"}

Become(r, p) == phase' = [phase EXCEPT ![r] = p]
Gone(r) == Become(r, "none") /\ asked' = asked \ {r}

(* What a process makes of a request to shut down: asked of the guest, or, *)
(* when the framework refuses to ask, forced.  hasExited: nothing more.    *)
StopRequested(r) ==
  \/ Bound(r) /\ asked' = asked \cup {r} /\ UNCHANGED phase
  \/ Bound(r) /\ Become(r, "ending") /\ UNCHANGED asked
  \/ ~Bound(r) /\ UNCHANGED <<phase, asked>>

StopForced(r) ==
  /\ IF Bound(r) THEN Become(r, "ending") ELSE UNCHANGED phase
  /\ UNCHANGED asked

(* SIGTERM kills a process that has installed no handler yet, which is so  *)
(* until after the socket is bound.                                        *)
Terminated(r) ==
  \/ phase[r] \in {"loading", "starting"} /\ Gone(r)
  \/ phase[r] # "loading" /\ StopRequested(r)

Killed(r) == Gone(r)

(* The config is read, the stale socket removed, the new one bound. *)
Bind(r) ==
  /\ phase[r] = "loading" /\ present
  /\ Become(r, "starting")
  /\ socket' = r
  /\ UNCHANGED <<asked, present>>

(* A config that is gone or does not validate, or a bind that fails. *)
LoadFails(r) ==
  /\ phase[r] = "loading"
  /\ Gone(r)
  /\ UNCHANGED <<socket, present>>

Boot(r) ==
  /\ phase[r] = "starting"
  /\ \/ Become(r, "up")
     \/ Become(r, "ending")      \* the framework does not start the guest
  /\ UNCHANGED <<asked, socket, present>>

(* The guest shuts down, asked or not, or the framework reports an error. *)
GuestEnds(r) ==
  /\ phase[r] = "up"
  /\ Become(r, "ending")
  /\ UNCHANGED <<asked, socket, present>>

(* The timer that misses the config file. *)
VanishedAsks(r) ==
  /\ Bound(r) /\ ~present
  /\ asked' = asked \cup {r}
  /\ UNCHANGED <<phase, socket, present>>

Vanished(r) ==
  /\ Bound(r) /\ ~present
  /\ StopForced(r)
  /\ UNCHANGED <<socket, present>>

(* ControlServer.stop unlinks the path, whoever has bound it since. *)
Exit(r) ==
  /\ phase[r] = "ending"
  /\ Gone(r)
  /\ socket' = None
  /\ UNCHANGED present

(* The process dies of something else; its socket file stays. *)
Crash(r) ==
  /\ phase[r] \in {"starting", "up"}
  /\ Gone(r)
  /\ UNCHANGED <<socket, present>>

RunnerStep(r) ==
  \/ Bind(r) \/ LoadFails(r) \/ Boot(r)
  \/ GuestEnds(r) \/ Vanished(r) \/ Exit(r) \/ Crash(r)

(* A live process gets on, its timer fires, and it exits once its guest    *)
(* has; nothing makes a guest shut down.                                   *)
RunnerFairness(r) ==
  /\ WF_runnerVars(Bind(r) \/ LoadFails(r))
  /\ WF_runnerVars(Boot(r))
  /\ WF_runnerVars(Vanished(r))
  /\ WF_runnerVars(Exit(r))
=============================================================================
