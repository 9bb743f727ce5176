---------------------------- MODULE VmLifecycle ----------------------------
(***************************************************************************)
(* The life of one agv VM on the QEMU backend: its status file, pid file,  *)
(* QMP socket and saved snapshot on disk, the QEMU processes on the host,  *)
(* and the agv commands that change them.  Every command is a process of   *)
(* its own (agv has no daemon): it reads what is on disk, acts, and writes *)
(* back, one step per observable read or write, so that the exit of QEMU,  *)
(* another command or a Ctrl-C can fall between any two steps.             *)
(*                                                                         *)
(* Abstractions.  Provisioning is its three-valued progress (the steps are *)
(* in module Provision); forwards (module Forwards) and the idle watcher   *)
(* (module IdleWatcher) are one bit each;                                  *)
(* the hardware a QEMU is given is added by module Hardware; the rest of   *)
(* the configuration, the SSH port and logs are left out.  A pid that the  *)
(* host gives to a process that is not a QEMU of this VM is not            *)
(* modelled.                                                               *)
(***************************************************************************)
EXTENDS Naturals, FiniteSets

CONSTANTS
    Cmds,            \* concurrent agv invocations against this VM
    Pids,            \* process ids the host may give to a QEMU
    None,            \* "no such file" / "no such directory"
    Ops,             \* the commands that are run
    ListAnytime,     \* may a listing (ls, inspect, ...) overlap other commands
    EditLiveBroken,  \* may `config set` be run while a broken VM's QEMU is up
    CrashAt          \* the points at which an agv command may be killed; at `persist`
                     \* also, at which its write may fail

Statuses == {"creating", "configuring", "running", "stopped", "suspended",
             "broken"}

AllOps == {"create", "create_start", "start", "retry", "stop", "force_stop",
           "suspend", "resume", "rename", "config_set", "forward", "destroy", "ls"}

Labels == {"exists", "mkdir", "prepare",
           "read", "probe", "reap", "sweep", "gate",
           "spawn", "record", "await", "running", "ssh", "first_boot", "broken",
           "forwards", "watch", "entry",
           "teardown", "alive", "readpid", "powerdown", "savevm", "saved", "quit",
           "waitexit", "kill", "settle", "unentry", "rmdir",
           "resize", "edit", "persist"}

ASSUME OpsAssumption ==
    /\ Ops \subseteq AllOps
    /\ CrashAt \subseteq Labels
    /\ ListAnytime \in BOOLEAN
    /\ EditLiveBroken \in BOOLEAN
    /\ None \notin Pids
    /\ None \notin Statuses

(***************************************************************************)
(* What a listing does whose instance directory disappears under it is not *)
(* modelled.                                                               *)
(***************************************************************************)
ASSUME DestroyAssumption == ListAnytime => "destroy" \notin Ops

VARIABLES
    status,    \* <inst>/status, None when the instance directory is absent
    pidFile,   \* <inst>/pid
    socket,    \* the process that listens on <inst>/qmp.sock
    qemu,      \* every QEMU process with this VM's disk
    load,      \* the processes that were given -loadvm
    snapshot,  \* the agv-suspend snapshot in the qcow2 disk
    prov,      \* progress of provisioning
    fwd,       \* forward supervisors are running
    watching,  \* an idle watcher has been spawned and not been stopped
    entry,     \* the managed SSH config has a Host entry
    op, pc, seen, pid  \* per command: what it is, where it is, what it read

disk   == <<snapshot, prov>>
extras == <<fwd, watching, entry>>
local  == <<op, pc, seen, pid>>
vars   == <<status, pidFile, socket, qemu, load, disk, extras, local>>

TypeOK ==
    /\ status \in Statuses \cup {None}
    /\ pidFile \in Pids \cup {None}
    /\ socket \in Pids \cup {None}
    /\ qemu \in [Pids -> {"absent", "booting", "listening", "up"}]
    /\ load \in SUBSET Pids
    /\ snapshot \in {"none", "current", "stale", "lost"}
    /\ prov \in {"fresh", "partial", "complete"}
    /\ fwd \in BOOLEAN /\ watching \in BOOLEAN /\ entry \in BOOLEAN
    /\ op \in [Cmds -> AllOps]
    /\ pc \in [Cmds -> Labels \cup {"idle"}]
    /\ seen \in [Cmds -> Statuses \cup {None}]
    /\ pid \in [Cmds -> Pids \cup {None}]

Init ==
    /\ status = None
    /\ pidFile = None
    /\ socket = None
    /\ qemu = [p \in Pids |-> "absent"]
    /\ load = {}
    /\ snapshot = "none"
    /\ prov = "fresh"
    /\ fwd = FALSE /\ watching = FALSE /\ entry = FALSE
    /\ op = [c \in Cmds |-> "ls"]
    /\ pc = [c \in Cmds |-> "idle"]
    /\ seen = [c \in Cmds |-> None]
    /\ pid = [c \in Cmds |-> None]

Live == {p \in Pids : qemu[p] # "absent"}

Rest == \A c \in Cmds : pc[c] = "idle"

\* kill(pid, 0) on the pid the pid file holds
Alive == pidFile \in Live

\* a QMP connection completes only to a QEMU that serves its monitor
Reachable == socket # None /\ qemu[socket] = "up"

\* An exchange on the monitor comes back: with a reply, or because no process
\* has the socket open any more.  There is no deadline.
Answers == Reachable \/ socket \notin Live

\* QEMU serves its monitor and runs the guest
GuestOn == \E p \in Pids : qemu[p] = "up"

Goto(c, l) == pc' = [pc EXCEPT ![c] = l]

Jump(c, l) == Goto(c, l) /\ UNCHANGED <<op, seen, pid>>

-----------------------------------------------------------------------------
(* Faults.  Each is a variant of the action it is named after with a slip  *)
(* that the code could have; no specification uses them.  They show that   *)
(* the properties below can fail.                                          *)

\* the existing process is not looked for before a retry boots a new one
CheckAliveFault(c) ==
    /\ pc[c] = "alive"
    /\ Jump(c, IF op[c] = "destroy" /\ Alive THEN "kill" ELSE "spawn")
    /\ UNCHANGED <<status, pidFile, socket, qemu, load, disk, extras>>

\* -loadvm is forgotten
SpawnFault(c) ==
    /\ pc[c] = "spawn"
    /\ \E p \in Pids \ Live :
        /\ qemu' = [qemu EXCEPT ![p] = "booting"]
        /\ load' = load \ {p}
        /\ pid' = [pid EXCEPT ![c] = p]
    /\ socket' = None
    /\ Goto(c, "record")
    /\ UNCHANGED <<op, seen, status, pidFile, disk, extras>>

\* the reaped VM keeps its Host entry
ReapFilesFault(c) ==
    /\ pc[c] = "sweep"
    /\ pidFile' = None
    /\ socket' = None
    /\ fwd' = FALSE
    /\ Jump(c, "gate")
    /\ UNCHANGED <<status, qemu, load, disk, watching, entry>>

\* a failed first boot returns without recording it
FirstBootFailsFault(c) ==
    /\ pc[c] = "first_boot"
    /\ Jump(c, "idle")
    /\ UNCHANGED <<status, pidFile, socket, qemu, load, disk, extras>>

\* an unanswered powerdown is taken for a stop
ExitTimeoutFault(c) ==
    /\ pc[c] = "waitexit"
    /\ pid[c] \in Live
    /\ Jump(c, "settle")
    /\ UNCHANGED <<status, pidFile, socket, qemu, load, disk, extras>>

\* the exit of QEMU is polled for without a bound
ExitTimeoutNever(c) == pc[c] = "never" /\ UNCHANGED vars

\* suspend and stop settle alike
SettleFault(c) ==
    /\ pc[c] = "settle"
    /\ status' = "stopped"
    /\ Jump(c, "unentry")
    /\ UNCHANGED <<pidFile, socket, qemu, load, disk, extras>>

-----------------------------------------------------------------------------
(* Issuing a command, and the reconcile step most of them begin with.      *)

\* locks.rs leaves two commands against the same VM at the same time
\* undefined, so at most one command that changes the VM is under way.
MayBegin(o) ==
    \A d \in Cmds : pc[d] # "idle" => ListAnytime /\ "ls" \in {o, op[d]}

Issue(c, o) ==
    /\ pc[c] = "idle"
    /\ MayBegin(o)
    /\ status = None => o \in {"create", "create_start"}
    /\ o = "config_set" /\ status = "broken" /\ Live # {} => EditLiveBroken
    /\ op' = [op EXCEPT ![c] = o]
    /\ Goto(c, IF o \in {"create", "create_start"} THEN "exists" ELSE "read")
    /\ seen' = [seen EXCEPT ![c] = None]
    /\ pid' = [pid EXCEPT ![c] = None]
    /\ UNCHANGED <<status, pidFile, socket, qemu, load, disk, extras>>

ReadStatus(c) ==
    /\ pc[c] = "read"
    /\ seen' = [seen EXCEPT ![c] = status]
    /\ Goto(c, IF status = "running" THEN "probe" ELSE "gate")
    /\ UNCHANGED <<op, pid, status, pidFile, socket, qemu, load, disk, extras>>

ProbeProcess(c) ==
    /\ pc[c] = "probe"
    /\ Jump(c, IF Alive THEN "gate" ELSE "reap")
    /\ UNCHANGED <<status, pidFile, socket, qemu, load, disk, extras>>

\* the recorded process is gone: write `stopped` ...
ReapStatus(c) ==
    /\ pc[c] = "reap"
    /\ status' = "stopped"
    /\ seen' = [seen EXCEPT ![c] = "stopped"]
    /\ Goto(c, "sweep")
    /\ UNCHANGED <<op, pid, pidFile, socket, qemu, load, disk, extras>>

\* ... then remove the runtime files, the supervisors and the Host entry
ReapFiles(c) ==
    /\ pc[c] = "sweep"
    /\ pidFile' = None
    /\ socket' = None
    /\ fwd' = FALSE
    /\ entry' = FALSE
    /\ Jump(c, "gate")
    /\ UNCHANGED <<status, qemu, load, disk, watching>>

\* Where the status a command saw lets it go on to; "idle" is a refusal.
GateOf(o, s) ==
    CASE o = "start"                             -> IF s = "stopped" THEN "spawn" ELSE "idle"
      [] o = "retry"                             -> IF s = "broken" THEN "alive" ELSE "idle"
      [] o \in {"stop", "force_stop", "suspend"} -> IF s = "running" THEN "teardown" ELSE "idle"
      [] o = "resume"                            -> IF s = "suspended" THEN "spawn" ELSE "idle"
      [] o = "rename"                            -> IF s \in {"stopped", "suspended", "broken"}
                                                    THEN "unentry" ELSE "idle"
      [] o = "config_set"                        -> IF s \in {"stopped", "broken"} THEN "resize" ELSE "idle"
      [] o = "forward"                           -> IF s \in {"creating", "configuring"}
                                                    THEN "idle" ELSE "persist"
      [] o = "destroy"                           -> "teardown"
      [] OTHER                                   -> "idle"

\* `config set` announces itself by writing `configuring` as it passes.
Gate(c) ==
    /\ pc[c] = "gate"
    /\ Jump(c, GateOf(op[c], seen[c]))
    /\ status' = IF GateOf(op[c], seen[c]) = "resize" THEN "configuring" ELSE status
    /\ UNCHANGED <<pidFile, socket, qemu, load, disk, extras>>

\* The saved configuration cannot be read, the disk would not grow, or the
\* forwards asked for clash: the command ends before it has written anything.
LoadFails(c) ==
    /\ pc[c] = "gate"
    /\ GateOf(op[c], seen[c]) \in {"spawn", "alive", "resize", "persist"}
    /\ Jump(c, "idle")
    /\ UNCHANGED <<status, pidFile, socket, qemu, load, disk, extras>>

-----------------------------------------------------------------------------
(* create                                                                  *)

CheckAbsent(c) ==
    /\ pc[c] = "exists"
    /\ Jump(c, IF status = None THEN "mkdir" ELSE "idle")
    /\ UNCHANGED <<status, pidFile, socket, qemu, load, disk, extras>>

MakeInstance(c) ==
    /\ pc[c] = "mkdir"
    /\ status' = "creating"
    /\ Jump(c, "prepare")
    /\ UNCHANGED <<pidFile, socket, qemu, load, disk, extras>>

\* config, image, disk, key and seed are in place
PrepareDone(c) ==
    /\ pc[c] = "prepare"
    /\ status' = IF op[c] = "create" THEN "stopped" ELSE status
    /\ Jump(c, IF op[c] = "create" THEN "idle" ELSE "spawn")
    /\ UNCHANGED <<pidFile, socket, qemu, load, disk, extras>>

PrepareFails(c) ==
    /\ pc[c] = "prepare"
    /\ Jump(c, "broken")
    /\ UNCHANGED <<status, pidFile, socket, qemu, load, disk, extras>>

-----------------------------------------------------------------------------
(* Booting QEMU: start, start --retry, resume and create --start.          *)

\* --retry and destroy first look whether the recorded process is alive
CheckAlive(c) ==
    /\ pc[c] = "alive"
    /\ Jump(c, CASE op[c] = "retry" -> IF Alive THEN "running" ELSE "spawn"
                 [] OTHER           -> IF Alive THEN "kill" ELSE "unentry")
    /\ UNCHANGED <<status, pidFile, socket, qemu, load, disk, extras>>

AfterFailedBoot(c) == IF op[c] = "create_start" THEN "broken" ELSE "idle"

\* Remove the old socket and spawn QEMU ...
Spawn(c) ==
    /\ pc[c] = "spawn"
    /\ \E p \in Pids \ Live :
        /\ qemu' = [qemu EXCEPT ![p] = "booting"]
        /\ load' = IF op[c] = "resume" THEN load \cup {p} ELSE load \ {p}
        /\ pid' = [pid EXCEPT ![c] = p]
    /\ socket' = None
    /\ Goto(c, "record")
    /\ UNCHANGED <<op, seen, status, pidFile, disk, extras>>

\* ... and write its pid over the pid file
RecordPid(c) ==
    /\ pc[c] = "record"
    /\ pidFile' = pid[c]
    /\ Jump(c, "await")
    /\ UNCHANGED <<status, socket, qemu, load, disk, extras>>

\* a QEMU whose pid cannot be written is killed
RecordPidFails(c) ==
    /\ pc[c] = "record"
    /\ qemu' = [qemu EXCEPT ![pid[c]] = "absent"]
    /\ pidFile' \in {pidFile, None}
    /\ Jump(c, AfterFailedBoot(c))
    /\ UNCHANGED <<status, socket, load, disk, extras>>

\* no QEMU binary, no free port, no machine type
SpawnFails(c) ==
    /\ pc[c] = "spawn"
    /\ socket' \in {socket, None}
    /\ Jump(c, AfterFailedBoot(c))
    /\ UNCHANGED <<status, pidFile, qemu, load, disk, extras>>

\* the child is alive and somebody answers on the socket
BootReady(c) ==
    /\ pc[c] = "await"
    /\ pid[c] \in Live
    /\ Reachable
    /\ Jump(c, "running")
    /\ UNCHANGED <<status, pidFile, socket, qemu, load, disk, extras>>

\* The child exited, or no process accepts on the socket before the deadline
\* and the child is killed.  A QEMU that has accepted the connection and not
\* answered yet is waited for: the handshake has no timeout of its own.
BootFails(c) ==
    /\ pc[c] = "await"
    /\ pid[c] \notin Live \/ socket \notin Live
    /\ qemu' = [qemu EXCEPT ![pid[c]] = "absent"]
    /\ pidFile' = None
    /\ socket' = None
    /\ Jump(c, AfterFailedBoot(c))
    /\ UNCHANGED <<status, load, disk, extras>>

MarkRunning(c) ==
    /\ pc[c] = "running"
    /\ status' = "running"
    /\ Jump(c, IF op[c] = "resume" \/ prov = "complete" THEN "ssh" ELSE "first_boot")
    /\ UNCHANGED <<pidFile, socket, qemu, load, disk, extras>>

SshReady(c) ==
    /\ pc[c] = "ssh"
    /\ GuestOn
    /\ Jump(c, "forwards")
    /\ UNCHANGED <<status, pidFile, socket, qemu, load, disk, extras>>

\* a resumed VM that does not answer is left as it is; others become broken
SshFails(c) ==
    /\ pc[c] = "ssh"
    /\ Jump(c, IF op[c] = "resume" THEN "idle" ELSE "broken")
    /\ UNCHANGED <<status, pidFile, socket, qemu, load, disk, extras>>

FirstBootStep(c) ==
    /\ pc[c] = "first_boot"
    /\ prov = "fresh"
    /\ prov' = "partial"
    /\ UNCHANGED <<local, status, pidFile, socket, qemu, load, snapshot, extras>>

FirstBootDone(c) ==
    /\ pc[c] = "first_boot"
    /\ GuestOn
    /\ prov = "partial"
    /\ prov' = "complete"
    /\ Jump(c, "forwards")
    /\ UNCHANGED <<status, pidFile, socket, qemu, load, snapshot, extras>>

FirstBootFails(c) ==
    /\ pc[c] = "first_boot"
    /\ Jump(c, "broken")
    /\ UNCHANGED <<status, pidFile, socket, qemu, load, disk, extras>>

\* QEMU is left running for the user to debug.  The provision state is read
\* and written back (Provision!RecordError); a write that fails leaves a file
\* that reads as fresh, unless the marker says that the VM is provisioned.
MarkBroken(c) ==
    /\ pc[c] = "broken"
    /\ status' = "broken"
    /\ prov' \in IF prov = "complete" THEN {prov} ELSE {prov, "fresh"}
    /\ Jump(c, "idle")
    /\ UNCHANGED <<pidFile, socket, qemu, load, snapshot, extras>>

\* The saved configuration may ask for no forwards and for no watcher, and
\* each of the three is best effort.
ApplyForwards(c) ==
    /\ pc[c] = "forwards"
    /\ fwd' \in BOOLEAN
    /\ Jump(c, "watch")
    /\ UNCHANGED <<status, pidFile, socket, qemu, load, disk, watching, entry>>

SpawnWatcher(c) ==
    /\ pc[c] = "watch"
    /\ watching' \in {watching, TRUE}
    /\ Jump(c, "entry")
    /\ UNCHANGED <<status, pidFile, socket, qemu, load, disk, fwd, entry>>

AddEntry(c) ==
    /\ pc[c] = "entry"
    /\ entry' \in {entry, TRUE}
    /\ Jump(c, "idle")
    /\ UNCHANGED <<status, pidFile, socket, qemu, load, disk, fwd, watching>>

-----------------------------------------------------------------------------
(* stop, suspend, destroy, rename                                          *)

Teardown(c) ==
    /\ pc[c] = "teardown"
    /\ watching' = FALSE
    /\ fwd' = FALSE
    /\ Jump(c, CASE op[c] = "force_stop" -> "kill"
                 [] op[c] = "destroy"    -> "alive"
                 [] OTHER                -> "readpid")
    /\ UNCHANGED <<status, pidFile, socket, qemu, load, disk, entry>>

ReadPid(c) ==
    /\ pc[c] = "readpid"
    /\ pid' = [pid EXCEPT ![c] = pidFile]
    /\ Goto(c, IF pidFile = None THEN "idle"
               ELSE IF op[c] = "stop" THEN "powerdown" ELSE "savevm")
    /\ UNCHANGED <<op, seen, status, pidFile, socket, qemu, load, disk, extras>>

\* an error on the monitor, and the command ends there
Powerdown(c) ==
    /\ pc[c] = "powerdown"
    /\ \/ Reachable /\ Jump(c, "waitexit")
       \/ Answers /\ Jump(c, "idle")
    /\ UNCHANGED <<status, pidFile, socket, qemu, load, disk, extras>>

\* QEMU writes the snapshot and runs the guest on ...
SaveVm(c) ==
    /\ pc[c] = "savevm"
    /\ Reachable
    /\ snapshot' = "stale"
    /\ Jump(c, "saved")
    /\ UNCHANGED <<status, pidFile, socket, qemu, load, prov, extras>>

\* ... its reply makes the snapshot the session that the VM will go on from
SaveVmReply(c) ==
    /\ pc[c] = "saved"
    /\ Reachable
    /\ snapshot' = "current"
    /\ Jump(c, "quit")
    /\ UNCHANGED <<status, pidFile, socket, qemu, load, prov, extras>>

\* an error, an output that is taken for one, or a monitor that closes, with
\* the snapshot written or not
SaveVmFails(c) ==
    /\ pc[c] \in {"savevm", "saved"}
    /\ Answers
    /\ Jump(c, "idle")
    /\ UNCHANGED <<status, pidFile, socket, qemu, load, disk, extras>>

\* a `quit` that is not honoured is left to the timeout
Quit(c) ==
    /\ pc[c] = "quit"
    /\ \/ Answers /\ UNCHANGED qemu
       \/ Reachable /\ qemu' = [qemu EXCEPT ![socket] = "absent"]
    /\ Jump(c, "waitexit")
    /\ UNCHANGED <<status, pidFile, socket, load, disk, extras>>

CleanupRuntimeFiles ==
    /\ pidFile' = None
    /\ socket' = None
    /\ fwd' = FALSE

SeesExit(c) ==
    /\ pc[c] = "waitexit"
    /\ pid[c] \notin Live
    /\ CleanupRuntimeFiles
    /\ Jump(c, "settle")
    /\ UNCHANGED <<status, qemu, load, disk, watching, entry>>

ExitTimeout(c) ==
    /\ pc[c] = "waitexit"
    /\ pid[c] \in Live
    /\ Jump(c, "kill")
    /\ UNCHANGED <<status, pidFile, socket, qemu, load, disk, extras>>

\* SIGKILL to whatever the pid file names now
ForceStop(c) ==
    /\ pc[c] = "kill"
    /\ qemu' = [p \in Pids |-> IF p = pidFile THEN "absent" ELSE qemu[p]]
    /\ CleanupRuntimeFiles
    /\ Jump(c, IF op[c] = "destroy" THEN "unentry" ELSE "settle")
    /\ UNCHANGED <<status, load, disk, watching, entry>>

Settle(c) ==
    /\ pc[c] = "settle"
    /\ status' = IF op[c] = "suspend" THEN "suspended" ELSE "stopped"
    /\ Jump(c, "unentry")
    /\ UNCHANGED <<pidFile, socket, qemu, load, disk, extras>>

RemoveEntry(c) ==
    /\ pc[c] = "unentry"
    /\ entry' = FALSE
    /\ Jump(c, IF op[c] = "destroy" THEN "rmdir" ELSE "idle")
    /\ UNCHANGED <<status, pidFile, socket, qemu, load, disk, fwd, watching>>

RemoveInstance(c) ==
    /\ pc[c] = "rmdir"
    /\ status' = None
    /\ pidFile' = None
    /\ socket' = None
    /\ snapshot' = "none"
    /\ prov' = "fresh"
    /\ Jump(c, "idle")
    /\ UNCHANGED <<qemu, load, extras>>

-----------------------------------------------------------------------------
(* config set, after it has written `configuring`                          *)

\* qemu-img needs the write lock that a QEMU with the disk open holds; a
\* change that does not name --disk has nothing to resize
ResizeDone(c) ==
    /\ pc[c] = "resize"
    /\ Jump(c, "edit")
    /\ UNCHANGED <<status, pidFile, socket, qemu, load, disk, extras>>

ResizeFails(c) ==
    /\ pc[c] = "resize"
    /\ status' = seen[c]
    /\ Jump(c, "idle")
    /\ UNCHANGED <<pidFile, socket, qemu, load, disk, extras>>

SaveConfig(c) ==
    /\ pc[c] = "edit"
    /\ status' = "stopped"
    /\ Jump(c, "idle")
    /\ UNCHANGED <<pidFile, socket, qemu, load, disk, extras>>

\* broken if the disk has been grown already, the old status if not
SaveConfigFails(c) ==
    /\ pc[c] = "edit"
    /\ status' \in {"broken", seen[c]}
    /\ Jump(c, "idle")
    /\ UNCHANGED <<pidFile, socket, qemu, load, disk, extras>>

\* a --forwards or --memory value that does not parse returns at once
EditRejected(c) ==
    /\ pc[c] = "edit"
    /\ Jump(c, "idle")
    /\ UNCHANGED <<status, pidFile, socket, qemu, load, disk, extras>>

-----------------------------------------------------------------------------
(* agv forward: the saved forwards always, the supervisors of a VM that    *)
(* runs (module Forwards has the two in their order).                      *)

UpdateForwards(c) ==
    /\ pc[c] = "persist"
    /\ fwd' \in IF seen[c] = "running" THEN BOOLEAN ELSE {fwd}
    /\ Jump(c, "idle")
    /\ UNCHANGED <<status, pidFile, socket, qemu, load, disk, watching, entry>>

-----------------------------------------------------------------------------
(* The host: QEMU's own progress, its exit, and the death of a command.    *)

\* QEMU binds its monitor before it opens the disk
QemuListens(p) ==
    /\ qemu[p] = "booting"
    /\ qemu' = [qemu EXCEPT ![p] = "listening"]
    /\ socket' = p
    /\ UNCHANGED <<status, pidFile, load, disk, extras, local>>

\* the disk's write lock admits one QEMU; -loadvm continues the saved session
QemuServes(p) ==
    /\ qemu[p] = "listening"
    /\ ~GuestOn
    /\ p \in load => snapshot # "none"
    /\ qemu' = [qemu EXCEPT ![p] = "up"]
    /\ snapshot' = CASE snapshot = "current" /\ p \notin load -> "lost"
                     [] snapshot = "current" /\ p \in load    -> "stale"
                     [] OTHER                                 -> snapshot
    /\ UNCHANGED <<status, pidFile, socket, load, prov, extras, local>>

\* the lock is taken, the snapshot is missing, a device fails
QemuGivesUp(p) ==
    /\ qemu[p] = "listening"
    /\ qemu' = [qemu EXCEPT ![p] = "absent"]
    /\ UNCHANGED <<status, pidFile, socket, load, disk, extras, local>>

\* guest poweroff, a crash, or a host that kills it
QemuExits(p) ==
    /\ qemu[p] # "absent"
    /\ qemu' = [qemu EXCEPT ![p] = "absent"]
    /\ UNCHANGED <<status, pidFile, socket, load, disk, extras, local>>

\* Ctrl-C: QEMU is in a process group of its own and survives
Killed(c) ==
    /\ pc[c] \in CrashAt
    /\ Jump(c, "idle")
    /\ UNCHANGED <<status, pidFile, socket, qemu, load, disk, extras>>

Step(c) ==
    \/ ReadStatus(c) \/ ProbeProcess(c) \/ ReapStatus(c) \/ ReapFiles(c)
    \/ Gate(c) \/ LoadFails(c)
    \/ CheckAbsent(c) \/ MakeInstance(c) \/ PrepareDone(c) \/ PrepareFails(c)
    \/ CheckAlive(c) \/ Spawn(c) \/ SpawnFails(c) \/ RecordPid(c) \/ RecordPidFails(c)
    \/ BootReady(c) \/ BootFails(c) \/ MarkRunning(c)
    \/ SshReady(c) \/ SshFails(c)
    \/ FirstBootStep(c) \/ FirstBootDone(c) \/ FirstBootFails(c) \/ MarkBroken(c)
    \/ ApplyForwards(c) \/ SpawnWatcher(c) \/ AddEntry(c)
    \/ Teardown(c) \/ ReadPid(c) \/ Powerdown(c)
    \/ SaveVm(c) \/ SaveVmReply(c) \/ SaveVmFails(c) \/ Quit(c)
    \/ SeesExit(c) \/ ExitTimeout(c) \/ ForceStop(c) \/ Settle(c)
    \/ RemoveEntry(c) \/ RemoveInstance(c)
    \/ ResizeDone(c) \/ ResizeFails(c)
    \/ SaveConfig(c) \/ SaveConfigFails(c) \/ EditRejected(c)
    \/ UpdateForwards(c)

QemuBoots(p) == QemuListens(p) \/ QemuServes(p) \/ QemuGivesUp(p)

Next ==
    \/ \E c \in Cmds, o \in Ops : Issue(c, o)
    \/ \E c \in Cmds : Step(c) \/ Killed(c)
    \/ \E p \in Pids : QemuBoots(p) \/ QemuExits(p)

Spec == Init /\ [][Next]_vars

\* What a command waits for without a deadline of its own: a QEMU that has
\* accepted the connection to its monitor, a guest that has accepted an ssh
\* connection, the server of the image.
Waits(c) ==
    \/ pc[c] \in {"await", "powerdown", "savevm", "saved", "quit"} /\ socket \in Live
    \/ pc[c] \in {"ssh", "first_boot"} /\ Live # {}
    \/ pc[c] = "prepare"

\* A command that has been issued and does not wait takes its next step.
\* Nothing is assumed of QEMU, the guest or a server.
CommandFairness == \A c \in Cmds : WF_vars(~Waits(c) /\ Step(c))

FairSpec == Spec /\ CommandFairness

-----------------------------------------------------------------------------
(* Properties                                                              *)

\* A VM recorded as stopped, suspended or destroyed has no QEMU once the
\* command that recorded it is over: instance.rs calls a stopped VM one that
\* "exists but is not running".
StoppedMeansDown ==
    Rest /\ status \in {"stopped", "suspended", None} => Live = {}

\* Every QEMU of the VM is the one the pid file names, but for the moment in
\* which the command that spawned it writes the file: stop, force_stop, destroy
\* and reconcile find a process in no other way.
NoUnmanageableQemu ==
    \A p \in Live : pidFile = p \/ \E c \in Cmds : pc[c] = "record" /\ pid[c] = p

\* A session that savevm completed stays reachable through `agv resume`, and
\* a VM that offers itself for resume has something to resume.
SavedSessionIsResumable ==
    Rest => /\ snapshot = "current" /\ Live = {} => status = "suspended"
            /\ status = "suspended" => snapshot \in {"current", "stale"}

\* Whatever way a VM went down (stop, suspend, reconcile, a failed boot),
\* nothing keeps pointing at it: no Host entry, no forward supervisors, and
\* after a suspend no idle watcher either.
NoStaleEndpoint ==
    Rest => /\ status \in {"stopped", "suspended", "broken", None} => ~entry /\ ~fwd
            /\ status = "suspended" => ~watching

\* A VM never comes to rest in `running` with its first boot unfinished: a
\* provisioning that fails leaves it broken, where `start --retry` applies.
RunningMeansProvisioned == Rest /\ status = "running" => prov = "complete"

\* The `configuring` status lasts for the duration of `config set`.
ConfiguringOnlyDuringEdit ==
    status = "configuring" => \E c \in Cmds : op[c] = "config_set" /\ pc[c] # "idle"

\* Every command comes to its end, unless it waits for ever for something that
\* has no deadline: a guest that ignores the power button, a quit that is not
\* honoured and a QEMU that does not come up do not hold one up.
CommandsEnd == \A c \in Cmds : []<>(pc[c] = "idle") \/ <>[]Waits(c)

\* The guest's session as a user sees it (module VmSession).
SessionState ==
    IF snapshot = "lost" THEN "lost"
    ELSE IF GuestOn THEN "on"
    ELSE IF status = None THEN "absent"
    ELSE IF snapshot = "current" THEN "saved" ELSE "off"

Session == INSTANCE VmSession WITH session <- SessionState

\* The commands implement the session: no saved session is booted over, no
\* instance directory is removed under a guest that is on.
ImplementsSession == Session!Spec
-----------------------------------------------------------------------------
(* What StoppedMeansDown and NoUnmanageableQemu rest on.                   *)

\* One command at a time, no edit of a broken VM whose QEMU is up, and no
\* command killed from spawning QEMU to recording it as running.
Contract ==
    /\ ~ListAnytime
    /\ ~EditLiveBroken
    /\ CrashAt \cap {"record", "await", "running"} = {}

OneAtATime == \A c, d \in Cmds : pc[c] # "idle" /\ pc[d] # "idle" => c = d

\* what a command saw is still so when it acts on it
SeenHolds ==
    \A c \in Cmds :
        /\ pc[c] \in {"probe", "reap", "sweep", "gate"} => seen[c] = status
        /\ pc[c] \in {"probe", "reap"} => status = "running"
        /\ pc[c] = "sweep" => status = "stopped"

\* the points at which no QEMU exists
DownAt ==
    \A c \in Cmds :
        /\ pc[c] \in {"mkdir", "prepare", "spawn", "reap", "sweep", "settle",
                       "rmdir", "resize", "edit"} => Live = {}
        /\ pc[c] = "unentry" /\ op[c] = "destroy" => Live = {}
        /\ pc[c] \in {"read", "gate"} /\ op[c] = "config_set" /\ status = "broken" =>
               Live = {}

\* the points at which a command knows the only QEMU by its pid
KnownAt ==
    \A c \in Cmds :
        pc[c] \in {"record", "await", "powerdown", "savevm", "saved", "quit", "waitexit"} =>
            Live \subseteq {pid[c]}

\* a QEMU under a status that denies it belongs to a boot under way
BootUnderWay ==
    status \notin {"running", "broken"} /\ Live # {} =>
        \E c \in Cmds : pc[c] \in {"record", "await", "running"}

IInv ==
    /\ TypeOK
    /\ NoUnmanageableQemu
    /\ OneAtATime
    /\ SeenHolds
    /\ DownAt
    /\ KnownAt
    /\ BootUnderWay

-----------------------------------------------------------------------------
(* What the other safety properties and the refinement rest on.            *)

\* ... and no command killed where the next one cannot tell how far it came
Sturdy ==
    /\ Contract
    /\ CrashAt \cap {"sweep", "first_boot", "broken", "quit", "waitexit", "kill",
                     "settle", "unentry"} = {}

\* the commands that reach a point
OpAt ==
    \A c \in Cmds :
        /\ pc[c] \in {"exists", "mkdir", "prepare"} => op[c] \in {"create", "create_start"}
        /\ pc[c] \in {"spawn", "record", "await", "running", "ssh"} =>
               op[c] \in {"create_start", "start", "retry", "resume"}
        /\ pc[c] \in {"first_boot", "broken"} => op[c] # "resume"
        /\ pc[c] = "alive" => op[c] \in {"retry", "destroy"}
        /\ pc[c] = "teardown" => op[c] \in {"stop", "force_stop", "suspend", "destroy"}
        /\ pc[c] \in {"readpid", "waitexit"} => op[c] \in {"stop", "suspend"}
        /\ pc[c] = "powerdown" => op[c] = "stop"
        /\ pc[c] \in {"savevm", "saved", "quit"} => op[c] = "suspend"
        /\ pc[c] = "kill" => op[c] \in {"stop", "force_stop", "suspend", "destroy"}
        /\ pc[c] = "settle" => op[c] \in {"stop", "force_stop", "suspend"}
        /\ pc[c] = "rmdir" => op[c] = "destroy"

BootsFrom(o) ==
    CASE o = "create_start" -> "creating"
      [] o = "start"        -> "stopped"
      [] o = "retry"        -> "broken"
      [] OTHER              -> "suspended"

\* the status on disk while a command is at a point
StatusAt ==
    \A c \in Cmds :
        /\ pc[c] = "mkdir" => status = None
        /\ pc[c] = "prepare" => status = "creating"
        /\ pc[c] \in {"spawn", "record", "await", "running"} => status = BootsFrom(op[c])
        /\ pc[c] \in {"ssh", "first_boot", "forwards", "watch", "entry"} => status = "running"
        /\ pc[c] = "broken" => status \in {"creating", "running"}
        /\ pc[c] = "alive" /\ op[c] = "retry" => status = "broken"
        /\ pc[c] \in {"teardown", "readpid", "powerdown", "savevm", "saved", "quit",
                       "waitexit", "kill", "settle"} /\ op[c] # "destroy" => status = "running"
        /\ pc[c] = "unentry" /\ op[c] # "destroy" => status \in {"stopped", "suspended", "broken"}
        /\ pc[c] \in {"resize", "edit"} =>
               status = "configuring" /\ seen[c] \in {"stopped", "broken"}
        /\ pc[c] = "persist" => status = seen[c] /\ status \notin {"creating", "configuring"}

\* a first boot that is not over has a command that is at it
FirstBootUnderWay ==
    status \in {"running", "suspended"} /\ prov # "complete" =>
        \E c \in Cmds : pc[c] \in {"first_boot", "broken"}

\* a command between savevm and the status that says so
Suspending(c) == op[c] = "suspend" /\ pc[c] \in {"quit", "waitexit", "kill", "settle"}

SessionHeld ==
    /\ snapshot # "lost"
    /\ snapshot = "current" => status = "suspended" \/ \E c \in Cmds : Suspending(c)
    /\ status = "suspended" => snapshot \in {"current", "stale"}
    /\ \A c \in Cmds :
        /\ Suspending(c) => snapshot = "current" /\ \A p \in Live : qemu[p] = "up"
        /\ pc[c] = "running" => snapshot # "current"
    /\ \A p \in Live :
        snapshot = "current" => qemu[p] = "up" \/ p \in load
    /\ \A p \in Live : qemu[p] = "up" /\ snapshot = "current" =>
        \E c \in Cmds : Suspending(c)

\* who still has to remove the Host entry and the supervisors
EndpointsHeld ==
    /\ entry \/ fwd => status = "running" \/ \E c \in Cmds : pc[c] \in {"sweep", "unentry"}
    /\ fwd => status = "running" \/ \E c \in Cmds : pc[c] = "sweep"
    /\ watching => status # "suspended"
    /\ \A c \in Cmds :
        /\ pc[c] \in {"running", "ssh", "first_boot", "broken", "rmdir"} => ~entry /\ ~fwd
        /\ pc[c] \in {"alive", "settle", "unentry"} => ~fwd
        /\ op[c] = "suspend" /\ pc[c] \in {"readpid", "savevm", "saved", "quit", "waitexit",
                                            "kill", "settle"} => ~watching

SInv ==
    /\ IInv
    /\ OpAt
    /\ StatusAt
    /\ FirstBootUnderWay
    /\ SessionHeld
    /\ EndpointsHeld
=============================================================================
