------------------------------- MODULE AvfVm -------------------------------
(***************************************************************************)
(* A VM on the AVF backend: the agv commands of AvfBackend and the runners *)
(* of AvfRunner, which meet in the instance directory only.                *)
(***************************************************************************)
EXTENDS AvfBackend

vars == <<runnerVars, backendVars>>

Init ==
  /\ phase = [r \in Runners |-> "none"] /\ asked = {}
  /\ socket = None /\ present = FALSE
  /\ status = "absent" /\ pidFile = None
  /\ op = "idle" /\ pc = "idle" /\ pid = None
  /\ backend = "qemu" /\ torn = FALSE /\ disk = NoDisk /\ newest = {}
  /\ abandoned = {}

Next ==
  \/ Issue \/ QemuSession \/ Proceed \/ Interrupt
  \/ \E r \in Runners : RunnerStep(r) /\ UNCHANGED backendVars

Spec == Init /\ [][Next]_vars

(* A command that is not killed gets on: every wait but one has a deadline. *)
FairSpec == Spec /\ WF_vars(~Waits /\ Proceed) /\ \A r \in Runners : RunnerFairness(r)

-----------------------------------------------------------------------------
TypeOK ==
  /\ phase \in [Runners -> Phases] /\ asked \subseteq Runners
  /\ socket \in Runners \cup {None} /\ present \in BOOLEAN
  /\ status \in Statuses /\ pidFile \in Runners \cup {None}
  /\ op \in Ops /\ pc \in Points /\ pid \in Runners \cup {None}
  /\ backend \in {"qemu", "avf"} /\ torn \in BOOLEAN
  /\ disk \in [{"qcow2", "raw"} -> {"none", "part", "whole"}]
  /\ newest \subseteq {"qcow2", "raw"}
  /\ abandoned \subseteq Runners

(* Between the spawn and the status that it writes last, a start that is   *)
(* killed leaves a runner that no command looks for; and a config that is  *)
(* cut while the VM runs keeps every command from its runner.              *)
Starting == {"pidfile", "socket", "state", "giveup", "record"}
Fragile == Starting \cup {"edit"}

Booting == {"config", "unsocket", "spawn", "pidfile", "socket", "state", "giveup",
            "unpid", "broken", "record", "ssh"}
Ending == {"rpc", "wait", "term", "kill", "forget", "settle"}
Migrating == {"convert", "converting", "flip", "flipping", "drop"}

\* a runner that a failed start told to end
Told(r) == r \in abandoned /\ (r \in asked \/ phase[r] = "ending")

\* a runner that the next command finds
Tracked(r) == r = pidFile /\ status \notin {"stopped", "absent"}

(* Who answers for a runner while a command is under way. *)
Accounted ==
  \A r \in Live : Told(r) \/ Tracked(r) \/ (r = pid /\ pc \in Starting)

(* What the command that is under way knows of the pid it holds. *)
Holds ==
  /\ op = "idle" <=> pc = "idle"
  /\ op = "idle" => pid = None
  /\ pc \in {"rpc", "wait", "term", "kill", "forget"} => pid # None /\ pid = pidFile
  /\ pc \in {"pidfile", "socket", "state", "giveup", "unpid"} => pid # None
  /\ pc \in {"socket", "state", "giveup", "unpid"} => pid = pidFile
  /\ pc \in {"forget", "settle", "rmdir"} => pid \notin Live
  /\ pc \in {"settle", "rmdir"} => pidFile \notin Live
  /\ pc \in {"config", "unsocket", "spawn", "pidfile"} =>
       pidFile \notin Live \/ Told(pidFile)
  /\ pc = "unpid" => pid \notin Live \/ Told(pid)
  /\ pc = "record" => pid \in {pidFile, None}

(* Which disk a command works on. *)
DisksHeld ==
  /\ pc \in Booting \cup Ending \cup Migrating => status # "absent"
  /\ pc \in Booting \cup {"drop"} => backend = "avf"
  /\ pc \in {"convert", "converting", "flip", "flipping"} => backend = "qemu"
  /\ pc \in {"flip", "flipping"} => disk.raw = "whole" /\ "raw" \in newest
  /\ backend = "qemu" \/ status = "absent" => pidFile = None
  /\ torn <=> pc \in {"edit", "flipping"} \/ (torn /\ pc \in {"idle", "rmdir"})
  /\ torn /\ pc # "edit" => backend = "qemu" /\ disk.raw = "whole" /\ "raw" \in newest

(* Between commands a runner that lives is one that the pid file of a VM   *)
(* that is not stopped names, or one that a failed start told to end.  So  *)
(* no stop, destroy or reconcile leaves a guest that agv has lost.         *)
NoLostRunner ==
  op = "idle" => \A r \in Live : Told(r) \/ Tracked(r)

(* The disk that the VM would boot from is whole and has what the guest    *)
(* wrote last, whatever became of a migration and of the sweep after it.   *)
(* A migration that is killed while it saves the config leaves a VM that   *)
(* boots from neither disk, and leaves both of them whole.                 *)
DiskIsNewest ==
  status # "absent" =>
    \A d \in IF torn /\ op = "idle" THEN {"qcow2", "raw"} ELSE {DiskOf(backend)} :
      disk[d] = "whole" /\ d \in newest

IInv == TypeOK /\ Accounted /\ Holds /\ DisksHeld /\ DiskIsNewest

(* One guest on the disk: what the wait in stop and the refusal to start   *)
(* a VM that is up are for.                                                *)
OneRunner == Cardinality(Live) <= 1

(* Every command ends, with a wedged runner too, unless a guest that has   *)
(* taken an SSH connection leaves it waiting for ever.                     *)
CommandsEnd == []<>(op = "idle") \/ <>[]Waits

(* A runner whose instance directory is gone ends, unless a VM of the same *)
(* name is made again before it has looked.                                *)
OrphanEnds == \A r \in Runners : r \in Live /\ ~present ~> r \notin Live \/ present
=============================================================================
