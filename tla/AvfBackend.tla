----------------------------- MODULE AvfBackend -----------------------------
(***************************************************************************)
(* agv's side of one VM on the AVF backend: create, start, --retry, stop,  *)
(* force stop, destroy and the listings, which find the runner through its *)
(* pid file and its control socket, and the move of a VM from QEMU to AVF. *)
(*                                                                         *)
(* Simplifications.  One command at a time (locks.rs), which may be killed *)
(* at the points of CrashAt.  reconcile_status and the gate that reads its *)
(* answer are one step.  How the disk is made is in Disks; what the QEMU   *)
(* backend does between a start and a stop is in VmLifecycle, and here one *)
(* step that leaves the qcow2 disk with the newest data.  An RPC that is   *)
(* answered is obeyed at once.  A pid that outlives its process names      *)
(* nobody.  config.toml is emptied and written again by every save; a save *)
(* that fails half-way leaves what a kill there leaves, and a config that  *)
(* is cut cannot be read.                                                  *)
(***************************************************************************)
EXTENDS AvfRunner

CONSTANT CrashAt    \* the points at which an agv command may be killed

VARIABLES
  status,     \* <inst>/status, "absent" without an instance directory
  pidFile,    \* <inst>/avf-runner.pid
  op, pc, pid,   \* the command under way, its place, the pid it has read
  backend,    \* the backend that config.toml names, or named before it was cut
  torn,       \* config.toml is cut
  disk,       \* disk.qcow2 and disk.raw, each how much of it there is
  newest,     \* the disks that have what the guest wrote last
  abandoned   \* the processes that a start gave up on

command == <<op, pc, pid>>
disks == <<backend, torn, disk, newest>>
backendVars == <<status, pidFile, command, disks, abandoned>>

Statuses == {"absent", "creating", "stopped", "running", "broken"}
Ops == {"idle", "create", "start", "retry", "stop", "force_stop", "destroy", "ls",
        "migrate", "cleanup", "edit"}
Points == {"idle", "config", "unsocket", "spawn", "pidfile", "socket", "state",
           "giveup", "unpid", "broken", "record", "ssh", "rpc", "wait", "term", "kill",
           "forget", "settle", "rmdir", "convert", "converting", "flip", "flipping", "drop",
           "edit"}

ASSUME CrashAssumption == CrashAt \subseteq Points

NoDisk == [d \in {"qcow2", "raw"} |-> "none"]
DiskOf(b) == IF b = "avf" THEN "raw" ELSE "qcow2"

Goto(p) == pc' = p /\ UNCHANGED <<op, pid>>
Finish == op' = "idle" /\ pc' = "idle" /\ pid' = None

(* is_process_alive, read_avf_runner_pid *)
Alive == pidFile # None /\ pidFile \in Live

(* What reconcile_status answers, and what it has then done. *)
Reconciled == IF status = "running" /\ ~Alive THEN "stopped" ELSE status
Reconcile ==
  IF Reconciled # status
  THEN pidFile' = None /\ socket' = None
  ELSE UNCHANGED <<pidFile, socket>>

StartCommand(o, p) == op = "idle" /\ op' = o /\ pc' = p

-----------------------------------------------------------------------------
(* Which command may go on, and where it then is. *)

(* A VM that is to boot at once on QEMU is in VmLifecycle. *)
Create(b, boot) ==
  /\ status = "absent" /\ op = "idle"
  /\ boot => b = "avf"
  /\ status' = IF boot THEN "creating" ELSE "stopped"
  /\ backend' = b /\ torn' = FALSE
  /\ disk' = [NoDisk EXCEPT ![DiskOf(b)] = "whole"]
  /\ newest' = {DiskOf(b)}
  /\ IF boot THEN StartCommand("create", "config") ELSE UNCHANGED <<op, pc>>
  /\ UNCHANGED <<runnerVars, pidFile, pid, abandoned>>

List ==
  /\ op = "idle" /\ Reconciled # status
  /\ status' = Reconciled
  /\ Reconcile
  /\ UNCHANGED <<phase, asked, present, command, disks, abandoned>>

Start ==
  /\ op = "idle" /\ backend = "avf" /\ ~torn
  /\ Reconciled = "stopped"
  /\ status' = "stopped"
  /\ Reconcile
  /\ StartCommand("start", "config")
  /\ UNCHANGED <<phase, asked, present, pid, disks, abandoned>>

(* A broken VM whose runner lives is not booted again. *)
Retry ==
  /\ op = "idle" /\ backend = "avf" /\ ~torn
  /\ status = "broken"
  /\ StartCommand("retry", IF Alive THEN "record" ELSE "config")
  /\ UNCHANGED <<runnerVars, status, pidFile, pid, disks, abandoned>>

Stop(o) ==
  /\ op = "idle" /\ backend = "avf" /\ ~torn
  /\ Reconciled = "running"
  /\ StartCommand(o, "rpc")
  /\ pid' = pidFile
  /\ UNCHANGED <<runnerVars, status, pidFile, disks, abandoned>>

(* Without its config a VM has no backend to ask, and is removed as it is. *)
Destroy ==
  /\ op = "idle" /\ status # "absent"
  /\ status' = Reconciled
  /\ Reconcile
  /\ LET ends == Alive /\ ~torn
     IN /\ StartCommand("destroy", IF ends THEN "rpc" ELSE "rmdir")
        /\ pid' = IF ends THEN pidFile ELSE None
  /\ UNCHANGED <<phase, asked, present, disks, abandoned>>

-----------------------------------------------------------------------------
(* start: the config is written, the socket of an earlier runner removed,  *)
(* the runner spawned and its pid written down.                            *)

WriteRunnerConfig ==
  /\ pc = "config"
  /\ present' = TRUE
  /\ Goto("unsocket")
  /\ UNCHANGED <<phase, asked, socket, status, pidFile, disks, abandoned>>

ClearSocket ==
  /\ pc = "unsocket"
  /\ socket' = None
  /\ Goto("spawn")
  /\ UNCHANGED <<phase, asked, present, status, pidFile, disks, abandoned>>

(* From here on the guest may write to its disk. *)
Spawn(r) ==
  /\ pc = "spawn"
  /\ r \notin Live /\ r # pidFile
  /\ Become(r, "loading")
  /\ pc' = "pidfile" /\ pid' = r /\ UNCHANGED op
  /\ newest' = {"raw"}
  /\ abandoned' = abandoned \ {r}
  /\ UNCHANGED <<asked, socket, present, status, pidFile, backend, torn, disk>>

(* The runner cannot be found, or not be spawned; a create is then broken. *)
SpawnFails ==
  /\ pc = "spawn"
  /\ IF op = "create" THEN Goto("broken") ELSE Finish
  /\ UNCHANGED <<runnerVars, status, pidFile, disks, abandoned>>

WritePid ==
  /\ pc = "pidfile"
  /\ pidFile' = pid
  /\ Goto("socket")
  /\ UNCHANGED <<runnerVars, status, disks, abandoned>>

(* wait_for_avf_socket, for ten seconds or until the process is gone *)
AwaitSocket ==
  /\ pc = "socket"
  /\ IF socket # None THEN Goto("state") ELSE Goto("giveup")
  /\ UNCHANGED <<runnerVars, status, pidFile, disks, abandoned>>

(* wait_for_avf_running: whoever answers on the socket says "running" *)
AwaitRunning ==
  /\ pc = "state"
  /\ \/ Answers /\ phase[socket] = "up" /\ Goto("record")
     \/ Goto("giveup")
  /\ UNCHANGED <<runnerVars, status, pidFile, disks, abandoned>>

(* A start that gives up does not even ask. *)
GiveUpSilently ==
  /\ pc = "giveup"
  /\ abandoned' = abandoned \cup {pid}
  /\ Goto("unpid")
  /\ UNCHANGED <<runnerVars, status, pidFile, disks>>

(* A start that gives up asks the runner to end and does not wait for it. *)
GiveUp ==
  /\ pc = "giveup"
  /\ Terminated(pid)
  /\ abandoned' = abandoned \cup {pid}
  /\ Goto("unpid")
  /\ UNCHANGED <<socket, present, status, pidFile, disks>>

Unpid ==
  /\ pc = "unpid"
  /\ pidFile' = None
  /\ IF op = "create" THEN Goto("broken") ELSE Finish
  /\ UNCHANGED <<runnerVars, status, disks, abandoned>>

Record ==
  /\ pc = "record"
  /\ status' = "running"
  /\ Goto("ssh")
  /\ UNCHANGED <<runnerVars, pidFile, disks, abandoned>>

(* First boot or the wait for SSH, which fail as they like. *)
AwaitSsh ==
  /\ pc = "ssh"
  /\ Finish \/ Goto("broken")
  /\ UNCHANGED <<runnerVars, status, pidFile, disks, abandoned>>

MarkBroken ==
  /\ pc = "broken"
  /\ status' = "broken"
  /\ Finish
  /\ UNCHANGED <<runnerVars, pidFile, disks, abandoned>>

-----------------------------------------------------------------------------
(* stop, force_stop, and destroy, which forces and ignores every error *)

Graceful == op = "stop"

(* The request goes to whoever accepts on the socket, and may fail all the *)
(* same.  A graceful stop waits whether it was answered or not; a forced   *)
(* one goes to the signals at once if it was not.  The pid is there:       *)
(* reconcile_status or is_process_alive has just read it.                  *)
Rpc ==
  /\ pc = "rpc"
  /\ \/ /\ Answers
        /\ IF Graceful THEN StopRequested(socket) ELSE StopForced(socket)
        /\ Goto("wait")
     \/ /\ Goto(IF Graceful THEN "wait" ELSE "term")
        /\ UNCHANGED <<phase, asked>>
  /\ UNCHANGED <<socket, present, status, pidFile, disks, abandoned>>

(* A wait without a deadline. *)
AwaitExitForever ==
  /\ pc = "wait"
  /\ pid \notin Live
  /\ Goto("forget")
  /\ UNCHANGED <<runnerVars, status, pidFile, disks, abandoned>>

(* wait_for_pid_exit, 30 or 5 seconds *)
AwaitExit ==
  /\ pc = "wait"
  /\ Goto(IF pid \in Live THEN "term" ELSE "forget")
  /\ UNCHANGED <<runnerVars, status, pidFile, disks, abandoned>>

(* avf_terminate_runner: SIGTERM, ten seconds, SIGKILL *)
Terminate ==
  /\ pc = "term"
  /\ Terminated(pid)
  /\ Goto("kill")
  /\ UNCHANGED <<socket, present, status, pidFile, disks, abandoned>>

KillRunner ==
  /\ pc = "kill"
  /\ Killed(pid)
  /\ Goto("forget")
  /\ UNCHANGED <<socket, present, status, pidFile, disks, abandoned>>

Forget ==
  /\ pc = "forget"
  /\ pidFile' = None
  /\ Goto(IF op = "destroy" THEN "rmdir" ELSE "settle")
  /\ UNCHANGED <<runnerVars, status, disks, abandoned>>

Settle ==
  /\ pc = "settle"
  /\ status' = "stopped"
  /\ Finish
  /\ UNCHANGED <<runnerVars, pidFile, disks, abandoned>>

RemoveDir ==
  /\ pc = "rmdir"
  /\ status' = "absent" /\ pidFile' = None
  /\ present' = FALSE /\ socket' = None
  /\ disk' = NoDisk /\ newest' = {} /\ torn' = FALSE
  /\ Finish
  /\ UNCHANGED <<phase, asked, backend, abandoned>>

-----------------------------------------------------------------------------
(* agv forward, and the save of agv config set *)

Edit ==
  /\ status # "absent" /\ ~torn
  /\ StartCommand("edit", "edit")
  /\ torn' = TRUE
  /\ UNCHANGED <<runnerVars, status, pidFile, pid, backend, disk, newest, abandoned>>

EditEnds ==
  /\ pc = "edit"
  /\ torn' = FALSE
  /\ Finish
  /\ UNCHANGED <<runnerVars, status, pidFile, backend, disk, newest, abandoned>>

-----------------------------------------------------------------------------
(* migrate-to-avf and backend cleanup *)

(* The VM runs on QEMU for a while. *)
QemuSession ==
  /\ op = "idle" /\ backend = "qemu" /\ ~torn /\ status = "stopped"
  /\ disk.qcow2 = "whole"
  /\ newest' = {"qcow2"}
  /\ UNCHANGED <<runnerVars, status, pidFile, command, backend, torn, disk, abandoned>>

(* A migration that goes on with a raw disk it finds. *)
MigrateReusing ==
  /\ backend = "qemu" /\ ~torn /\ status = "stopped"
  /\ disk.qcow2 # "none"
  /\ StartCommand("migrate", IF disk.raw = "none" THEN "convert" ELSE "flip")
  /\ UNCHANGED <<runnerVars, status, pidFile, pid, disks, abandoned>>

Migrate ==
  /\ backend = "qemu" /\ ~torn /\ status = "stopped"
  /\ disk.qcow2 # "none" /\ disk.raw = "none"
  /\ StartCommand("migrate", "convert")
  /\ UNCHANGED <<runnerVars, status, pidFile, pid, disks, abandoned>>

(* The raw disk grows; a kill here leaves what there is of it. *)
ConvertOpen ==
  /\ pc = "convert"
  /\ disk' = [disk EXCEPT !.raw = "part"]
  /\ Goto("converting")
  /\ UNCHANGED <<runnerVars, status, pidFile, backend, torn, newest, abandoned>>

ConvertEnds ==
  /\ pc = "converting"
  /\ \/ /\ disk' = [disk EXCEPT !.raw = "whole"]
        /\ newest' = newest \cup {"raw"}
        /\ Goto("flip")
     \/ Finish /\ UNCHANGED <<disk, newest>>
  /\ UNCHANGED <<runnerVars, status, pidFile, backend, torn, abandoned>>

(* The seed, which may fail too, and the config. *)
Flip ==
  /\ pc = "flip"
  /\ \/ torn' = TRUE /\ Goto("flipping")
     \/ Finish /\ UNCHANGED torn
  /\ UNCHANGED <<runnerVars, status, pidFile, backend, disk, newest, abandoned>>

FlipEnds ==
  /\ pc = "flipping"
  /\ backend' = "avf" /\ torn' = FALSE
  /\ Goto("drop")
  /\ UNCHANGED <<runnerVars, status, pidFile, disk, newest, abandoned>>

Drop ==
  /\ pc = "drop"
  /\ \/ disk' = [disk EXCEPT !.qcow2 = "none"] /\ newest' = newest \ {"qcow2"}
     \/ UNCHANGED <<disk, newest>>
  /\ Finish
  /\ UNCHANGED <<runnerVars, status, pidFile, backend, torn, abandoned>>

(* What the other backend left: its disk, and for AVF the runner's files.  *)
Other == IF backend = "avf" THEN "qcow2" ELSE "raw"

Sweep(d) ==
  /\ op = "idle" /\ status # "absent" /\ ~torn
  /\ Reconciled # "running" /\ ~Alive
  /\ status' = Reconciled
  /\ disk' = [disk EXCEPT ![d] = "none"] /\ newest' = newest \ {d}
  /\ IF backend = "qemu"
     THEN pidFile' = None /\ socket' = None /\ present' = FALSE
     ELSE Reconcile /\ UNCHANGED present
  /\ UNCHANGED <<phase, asked, command, backend, torn, abandoned>>

Cleanup == Sweep(Other)

-----------------------------------------------------------------------------
Issue ==
  \/ \E b \in {"qemu", "avf"}, boot \in BOOLEAN : Create(b, boot)
  \/ List \/ Start \/ Retry \/ Destroy \/ Migrate \/ Cleanup \/ Edit
  \/ \E o \in {"stop", "force_stop"} : Stop(o)

(* The rest of a command that is under way. *)
Proceed ==
  \/ WriteRunnerConfig \/ ClearSocket \/ SpawnFails \/ WritePid
  \/ \E r \in Runners : Spawn(r)
  \/ AwaitSocket \/ AwaitRunning \/ GiveUp \/ Unpid \/ Record \/ AwaitSsh \/ MarkBroken
  \/ Rpc \/ AwaitExit \/ Terminate \/ KillRunner \/ Forget \/ Settle \/ RemoveDir
  \/ ConvertOpen \/ ConvertEnds \/ Flip \/ FlipEnds \/ Drop \/ EditEnds

(* The one wait without an end of its own: the ssh and scp of a first boot *)
(* and of each probe, which bound the connection only, of a guest that     *)
(* accepts and then says nothing.                                          *)
Waits == pc = "ssh"

(* Ctrl-C, or the end of the terminal; the runner has a group of its own. *)
Interrupt ==
  /\ pc \in CrashAt /\ op # "idle"
  /\ Finish
  /\ UNCHANGED <<runnerVars, status, pidFile, disks, abandoned>>
=============================================================================
