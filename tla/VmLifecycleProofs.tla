------------------------- MODULE VmLifecycleProofs -------------------------
(***************************************************************************)
(* Proofs about VmLifecycle for every set of commands and pids: its type   *)
(* invariant, and, under Contract, that no QEMU is ever out of reach of    *)
(* the pid file and that a VM recorded as down is down.  Under Sturdy, that*)
(* a saved session stays resumable, that a running VM is provisioned, that *)
(* nothing keeps pointing at a VM that is down, and that every step is a   *)
(* step or a stutter of the session of VmSession.                          *)
(*                                                                         *)
(* The invariant is built in layers on top of IInv: which commands reach a *)
(* point (OpAt), what status is on disk there (StatusAt), and on those two *)
(* the progress of the first boot, the saved session and the endpoints.    *)
(* One lemma per layer takes a command through its steps.                  *)
(***************************************************************************)
EXTENDS Hardware, TLAPS

USE DEF Statuses, AllOps, Labels

LEMMA TypeInit == Init => TypeOK
<1> SUFFICES ASSUME Init PROVE TypeOK
  OBVIOUS
<1>1. op \in [Cmds -> AllOps] /\ pc \in [Cmds -> Labels \cup {"idle"}]
  BY DEF Init
<1> QED
  BY <1>1 DEF Init, TypeOK

LEMMA TypeStep ==
  ASSUME TypeOK, [Next]_vars
  PROVE  TypeOK'
<1>1. CASE UNCHANGED vars
  BY <1>1 DEF TypeOK, vars, disk, extras, local
<1>2. ASSUME NEW c \in Cmds, NEW o \in Ops, Issue(c, o)
      PROVE  TypeOK'
  BY <1>2, OpsAssumption DEF TypeOK, Issue, Goto, disk, extras
<1>3. ASSUME NEW c \in Cmds, Killed(c)
      PROVE  TypeOK'
  BY <1>3 DEF TypeOK, Killed, Jump, Goto, disk, extras
<1>4. ASSUME NEW p \in Pids, QemuBoots(p) \/ QemuExits(p)
      PROVE  TypeOK'
  BY <1>4 DEF TypeOK, QemuBoots, QemuListens, QemuServes, QemuGivesUp, QemuExits,
              disk, extras, local
<1>5. ASSUME NEW c \in Cmds, Step(c)
      PROVE  TypeOK'
  <2> USE DEF TypeOK, Jump, Goto, disk, extras, local
  <2>1. CASE ReadStatus(c)
    BY <2>1 DEF ReadStatus
  <2>2. CASE ProbeProcess(c)
    BY <2>2 DEF ProbeProcess
  <2>3. CASE ReapStatus(c)
    BY <2>3 DEF ReapStatus
  <2>4. CASE ReapFiles(c)
    BY <2>4 DEF ReapFiles
  <2>5. CASE Gate(c) \/ LoadFails(c)
    BY <2>5 DEF Gate, LoadFails, GateOf
  <2>6. CASE CheckAbsent(c)
    BY <2>6 DEF CheckAbsent
  <2>7. CASE MakeInstance(c)
    BY <2>7 DEF MakeInstance
  <2>8. CASE PrepareDone(c)
    BY <2>8 DEF PrepareDone
  <2>9. CASE PrepareFails(c)
    BY <2>9 DEF PrepareFails
  <2>10. CASE CheckAlive(c)
    BY <2>10 DEF CheckAlive
  <2>11. CASE Spawn(c)
    BY <2>11 DEF Spawn, Live
  <2>12. CASE BootReady(c)
    BY <2>12 DEF BootReady
  <2>13. CASE BootFails(c)
    BY <2>13 DEF BootFails, AfterFailedBoot
  <2>14. CASE MarkRunning(c)
    BY <2>14 DEF MarkRunning
  <2>15. CASE SshReady(c)
    BY <2>15 DEF SshReady
  <2>16. CASE SshFails(c)
    BY <2>16 DEF SshFails
  <2>17. CASE FirstBootStep(c)
    BY <2>17 DEF FirstBootStep
  <2>18. CASE FirstBootDone(c)
    BY <2>18 DEF FirstBootDone
  <2>19. CASE FirstBootFails(c)
    BY <2>19 DEF FirstBootFails
  <2>20. CASE MarkBroken(c)
    <3>1. prov' \in {prov, "fresh"}
      BY <2>20 DEF MarkBroken
    <3> QED
      BY <2>20, <3>1 DEF MarkBroken
  <2>21. CASE ApplyForwards(c)
    BY <2>21 DEF ApplyForwards
  <2>22. CASE SpawnWatcher(c)
    <3>1. watching' \in BOOLEAN
      BY <2>22, Zenon DEF SpawnWatcher
    <3> QED
      BY <2>22, <3>1 DEF SpawnWatcher
  <2>23. CASE AddEntry(c)
    <3>1. entry' \in BOOLEAN
      BY <2>23, Zenon DEF AddEntry
    <3> QED
      BY <2>23, <3>1 DEF AddEntry
  <2>24. CASE Teardown(c)
    BY <2>24 DEF Teardown
  <2>25. CASE ReadPid(c)
    BY <2>25 DEF ReadPid
  <2>26. CASE Powerdown(c)
    BY <2>26 DEF Powerdown
  <2>27. CASE SaveVm(c)
    BY <2>27 DEF SaveVm
  <2>28. CASE SaveVmFails(c)
    BY <2>28 DEF SaveVmFails
  <2>29. CASE Quit(c)
    BY <2>29 DEF Quit, Reachable
  <2>30. CASE SeesExit(c)
    BY <2>30 DEF SeesExit, CleanupRuntimeFiles
  <2>31. CASE ExitTimeout(c)
    BY <2>31 DEF ExitTimeout
  <2>32. CASE ForceStop(c)
    BY <2>32 DEF ForceStop, CleanupRuntimeFiles
  <2>33. CASE Settle(c)
    <3>1. status' \in {"suspended", "stopped"}
      BY <2>33 DEF Settle
    <3> QED
      BY <2>33, <3>1 DEF Settle
  <2>34. CASE RemoveEntry(c)
    <3>1. entry' \in BOOLEAN /\ pc' \in [Cmds -> Labels \cup {"idle"}]
      BY <2>34 DEF RemoveEntry
    <3> QED
      BY <2>34, <3>1 DEF RemoveEntry
  <2>35. CASE RemoveInstance(c)
    BY <2>35 DEF RemoveInstance
  <2>36. CASE ResizeDone(c)
    BY <2>36 DEF ResizeDone
  <2>37. CASE ResizeFails(c)
    BY <2>37 DEF ResizeFails
  <2>38. CASE SaveConfig(c)
    BY <2>38 DEF SaveConfig
  <2>39. CASE SaveConfigFails(c)
    BY <2>39 DEF SaveConfigFails
  <2>40. CASE EditRejected(c)
    BY <2>40 DEF EditRejected
  <2>41. CASE SpawnFails(c)
    BY <2>41 DEF SpawnFails, AfterFailedBoot
  <2>42. CASE RecordPid(c)
    BY <2>42 DEF RecordPid
  <2>43. CASE RecordPidFails(c)
    <3>1. pidFile' \in Pids \cup {None}
      BY <2>43, Zenon DEF RecordPidFails
    <3>2. pc' \in [Cmds -> Labels \cup {"idle"}] /\ UNCHANGED <<op, seen, pid>>
      BY <2>43 DEF RecordPidFails, AfterFailedBoot
    <3>3. qemu' \in [Pids -> {"absent", "booting", "listening", "up"}]
      BY <2>43 DEF RecordPidFails
    <3>4. UNCHANGED <<status, socket, load, snapshot, prov, fwd, watching, entry>>
      BY <2>43 DEF RecordPidFails
    <3> QED
      BY <3>1, <3>2, <3>3, <3>4
  <2>44. CASE SaveVmReply(c)
    BY <2>44 DEF SaveVmReply
  <2>45. CASE UpdateForwards(c)
    <3>1. fwd' \in BOOLEAN
      BY <2>45, Zenon DEF UpdateForwards
    <3> QED
      BY <2>45, <3>1 DEF UpdateForwards
  <2> QED
    BY <1>5, <2>1, <2>2, <2>3, <2>4, <2>5, <2>6, <2>7, <2>8, <2>9, <2>10, <2>11,
       <2>12, <2>13, <2>14, <2>15, <2>16, <2>17, <2>18, <2>19, <2>20, <2>21, <2>22,
       <2>23, <2>24, <2>25, <2>26, <2>27, <2>28, <2>29, <2>30, <2>31, <2>32, <2>33,
       <2>34, <2>35, <2>36, <2>37, <2>38, <2>39, <2>40, <2>41,
       <2>42, <2>43, <2>44, <2>45 DEF Step
<1> QED
  BY <1>1, <1>2, <1>3, <1>4, <1>5 DEF Next

\* Every variable keeps its type.  CrashAt, ListAnytime and EditLiveBroken may
\* be anything: a status file never holds what read_status cannot parse.
THEOREM Typing == Spec => []TypeOK
  BY TypeInit, TypeStep, PTL DEF Spec

-----------------------------------------------------------------------------
(* QEMU and the pid file.  A command knows the status it saw and the only  *)
(* QEMU because no other command runs; it leaves that knowledge behind in  *)
(* the pid file and the status.                                            *)

Safe == NoUnmanageableQemu /\ SeenHolds /\ DownAt /\ KnownAt /\ BootUnderWay

\* A command that takes a step is the only one under way.
LEMMA Alone ==
  ASSUME TypeOK, OneAtATime, NEW c \in Cmds, pc[c] # "idle", NEW l, Goto(c, l)
  PROVE  /\ OneAtATime'
         /\ pc'[c] = l
         /\ \A d \in Cmds \ {c} : pc[d] = "idle" /\ pc'[d] = "idle"
  BY DEF TypeOK, OneAtATime, Goto

\* Each step of a command keeps what the next step relies on.
LEMMA CommandStep ==
  ASSUME Contract, TypeOK, OneAtATime, Safe, NEW c \in Cmds, Step(c)
  PROVE  OneAtATime' /\ Safe'
<1> USE DEF TypeOK, Jump, disk, extras, local, Live, OneAtATime, Safe,
   NoUnmanageableQemu, SeenHolds, DownAt, KnownAt, BootUnderWay
<1>1. CASE ReadStatus(c)
  BY <1>1, Alone DEF ReadStatus
<1>2. CASE ProbeProcess(c)
  BY <1>2, Alone DEF ProbeProcess, Alive
<1>3. CASE ReapStatus(c)
  BY <1>3, Alone DEF ReapStatus
<1>4. CASE ReapFiles(c)
  BY <1>4, Alone DEF ReapFiles
<1>5. CASE Gate(c) \/ LoadFails(c)
  BY <1>5, Alone DEF Gate, LoadFails, GateOf
<1>6. CASE CheckAbsent(c)
  BY <1>6, Alone, OpsAssumption DEF CheckAbsent
<1>7. CASE MakeInstance(c)
  BY <1>7, Alone DEF MakeInstance
<1>8. CASE PrepareDone(c)
  BY <1>8, Alone DEF PrepareDone
<1>9. CASE PrepareFails(c)
  BY <1>9, Alone DEF PrepareFails
<1>10. CASE CheckAlive(c)
  BY <1>10, Alone DEF CheckAlive, Alive
<1>11. CASE Spawn(c)
  BY <1>11, Alone DEF Spawn
<1>12. CASE BootReady(c)
  BY <1>12, Alone DEF BootReady
<1>13. CASE BootFails(c)
  BY <1>13, Alone DEF BootFails, AfterFailedBoot
<1>14. CASE MarkRunning(c)
  BY <1>14, Alone DEF MarkRunning
<1>15. CASE SshReady(c)
  BY <1>15, Alone DEF SshReady
<1>16. CASE SshFails(c)
  BY <1>16, Alone DEF SshFails
<1>17. CASE FirstBootStep(c)
  BY <1>17, Alone DEF FirstBootStep
<1>18. CASE FirstBootDone(c)
  BY <1>18, Alone DEF FirstBootDone
<1>19. CASE FirstBootFails(c)
  BY <1>19, Alone DEF FirstBootFails
<1>20. CASE MarkBroken(c)
  BY <1>20, Alone DEF MarkBroken
<1>21. CASE ApplyForwards(c)
  BY <1>21, Alone DEF ApplyForwards
<1>22. CASE SpawnWatcher(c)
  BY <1>22, Alone DEF SpawnWatcher
<1>23. CASE AddEntry(c)
  BY <1>23, Alone DEF AddEntry
<1>24. CASE Teardown(c)
  BY <1>24, Alone DEF Teardown
<1>25. CASE ReadPid(c)
  BY <1>25, Alone DEF ReadPid
<1>26. CASE Powerdown(c)
  BY <1>26, Alone DEF Powerdown
<1>27. CASE SaveVm(c)
  BY <1>27, Alone DEF SaveVm
<1>28. CASE SaveVmFails(c)
  BY <1>28, Alone DEF SaveVmFails
<1>29. CASE Quit(c)
  BY <1>29, Alone DEF Quit, Reachable
<1>30. CASE SeesExit(c)
  BY <1>30, Alone DEF SeesExit, CleanupRuntimeFiles
<1>31. CASE ExitTimeout(c)
  BY <1>31, Alone DEF ExitTimeout
<1>32. CASE ForceStop(c)
  BY <1>32, Alone DEF ForceStop, CleanupRuntimeFiles
<1>33. CASE Settle(c)
  BY <1>33, Alone DEF Settle
<1>34. CASE RemoveEntry(c)
  BY <1>34, Alone DEF RemoveEntry
<1>35. CASE RemoveInstance(c)
  BY <1>35, Alone DEF RemoveInstance
<1>36. CASE ResizeDone(c)
  BY <1>36, Alone DEF ResizeDone
<1>37. CASE ResizeFails(c)
  BY <1>37, Alone DEF ResizeFails
<1>38. CASE SaveConfig(c)
  BY <1>38, Alone DEF SaveConfig
<1>39. CASE SaveConfigFails(c)
  BY <1>39, Alone DEF SaveConfigFails
<1>40. CASE EditRejected(c)
  BY <1>40, Alone DEF EditRejected
<1>41. CASE SpawnFails(c)
  BY <1>41, Alone DEF SpawnFails, AfterFailedBoot
<1>42. CASE RecordPid(c)
  BY <1>42, Alone DEF RecordPid
<1>43. CASE RecordPidFails(c)
  BY <1>43, Alone DEF RecordPidFails, AfterFailedBoot
<1>44. CASE SaveVmReply(c)
  BY <1>44, Alone DEF SaveVmReply
<1>45. CASE UpdateForwards(c)
  BY <1>45, Alone DEF UpdateForwards
<1> QED
  BY <1>1, <1>2, <1>3, <1>4, <1>5, <1>6, <1>7, <1>8, <1>9, <1>10, <1>11, <1>12, <1>13,
     <1>14, <1>15, <1>16, <1>17, <1>18, <1>19, <1>20, <1>21, <1>22, <1>23, <1>24,
     <1>25, <1>26, <1>27, <1>28, <1>29, <1>30, <1>31, <1>32, <1>33, <1>34, <1>35,
     <1>36, <1>37, <1>38, <1>39, <1>40, <1>41, <1>42, <1>43, <1>44, <1>45 DEF Step

\* A command starts when all others are idle.
LEMMA IssueStep ==
  ASSUME Contract, TypeOK, OneAtATime, Safe, NEW c \in Cmds, NEW o \in Ops, Issue(c, o)
  PROVE  OneAtATime' /\ Safe'
<1>1. \A d \in Cmds : pc[d] = "idle"
  BY DEF Issue, MayBegin, Contract
<1> QED
  BY <1>1 DEF Contract, TypeOK, Issue, Goto, disk, extras, Live, OneAtATime,
              Safe, NoUnmanageableQemu, SeenHolds, DownAt, KnownAt, BootUnderWay

\* A command killed elsewhere than from `record` to `running` had no QEMU to record.
LEMMA KilledStep ==
  ASSUME Contract, TypeOK, OneAtATime, Safe, NEW c \in Cmds, Killed(c)
  PROVE  OneAtATime' /\ Safe'
<1>1. pc[c] \notin {"idle", "record", "await", "running"}
  BY OpsAssumption DEF Killed, Contract
<1> QED
  BY <1>1, Alone DEF TypeOK, Killed, Jump, disk, extras, Live, OneAtATime,
              Safe, NoUnmanageableQemu, SeenHolds, DownAt, KnownAt, BootUnderWay

\* QEMU comes up and exits without the help of a command.
LEMMA HostStep ==
  ASSUME TypeOK, OneAtATime, Safe, NEW p \in Pids, QemuBoots(p) \/ QemuExits(p)
  PROVE  OneAtATime' /\ Safe'
<1>1. Live' \subseteq Live /\ UNCHANGED <<status, pidFile, local>>
  BY DEF TypeOK, QemuBoots, QemuListens, QemuServes, QemuGivesUp, QemuExits, Live
<1> QED
  BY <1>1 DEF local, OneAtATime, Safe, NoUnmanageableQemu, SeenHolds, DownAt,
              KnownAt, BootUnderWay

LEMMA Inductive ==
  ASSUME Contract, IInv, [Next]_vars
  PROVE  IInv'
<1> USE DEF IInv, Safe
<1>1. CASE UNCHANGED vars
  BY <1>1 DEF vars, disk, extras, local, TypeOK, OneAtATime, Live,
              NoUnmanageableQemu, SeenHolds, DownAt, KnownAt, BootUnderWay
<1>2. CASE Next
  BY <1>2, TypeStep, IssueStep, CommandStep, KilledStep, HostStep DEF Next
<1> QED
  BY <1>1, <1>2

LEMMA Initially == Init => IInv
  BY TypeInit DEF Init, IInv, OneAtATime, Live, NoUnmanageableQemu, SeenHolds,
                  DownAt, KnownAt, BootUnderWay

LEMMA Invariance == Contract /\ Spec => []IInv
<1> SUFFICES ASSUME Contract PROVE Spec => []IInv
  OBVIOUS
<1> QED
  BY Initially, Inductive, PTL DEF Spec

\* Whatever the commands and however often QEMU exits, hangs or gives up, the
\* pid file names every QEMU of the VM.
THEOREM QemuIsManageable == Contract /\ Spec => []NoUnmanageableQemu
  BY Invariance, PTL DEF IInv

LEMMA DownAtRest == IInv => StoppedMeansDown
  BY OpsAssumption DEF IInv, BootUnderWay, StoppedMeansDown, Rest, Statuses

\* A VM at rest that is recorded as stopped, suspended or destroyed has no QEMU.
THEOREM StoppedIsDown == Contract /\ Spec => []StoppedMeansDown
  BY Invariance, DownAtRest, PTL

-----------------------------------------------------------------------------

\* A command reaches only the points its operation leads to.
LEMMA OpCommand ==
  ASSUME IInv, OpAt, NEW c \in Cmds, Step(c)
  PROVE  OpAt'
<1> USE DEF TypeOK, Jump, Goto, disk, extras, local, IInv, OneAtATime, OpAt
<1>1. CASE ReadStatus(c) \/ ProbeProcess(c) \/ ReapStatus(c) \/ ReapFiles(c)
  BY <1>1, Alone, OpsAssumption DEF ReadStatus, ProbeProcess, ReapStatus, ReapFiles, Alive
<1>2. CASE Gate(c) \/ LoadFails(c)
  BY <1>2, Alone, OpsAssumption DEF Gate, LoadFails, GateOf
<1>3. CASE CheckAbsent(c) \/ MakeInstance(c) \/ PrepareDone(c) \/ PrepareFails(c)
  BY <1>3, Alone, OpsAssumption DEF CheckAbsent, MakeInstance, PrepareDone, PrepareFails,
     Statuses
<1>4. CASE CheckAlive(c)
  BY <1>4, Alone, OpsAssumption DEF CheckAlive, Alive
<1>5. CASE Spawn(c)
  BY <1>5, Alone, OpsAssumption DEF Spawn
<1>6. CASE SpawnFails(c) \/ BootReady(c) \/ BootFails(c) \/ MarkRunning(c)
  BY <1>6, Alone, OpsAssumption DEF SpawnFails, BootReady, BootFails, MarkRunning, AfterFailedBoot,
     Reachable
<1>18. CASE RecordPid(c) \/ RecordPidFails(c)
  BY <1>18, Alone, OpsAssumption DEF RecordPid, RecordPidFails, AfterFailedBoot
<1>7. CASE SshReady(c) \/ SshFails(c)
  BY <1>7, Alone, OpsAssumption DEF SshReady, SshFails
<1>8. CASE FirstBootStep(c) \/ FirstBootDone(c) \/ FirstBootFails(c) \/ MarkBroken(c)
  BY <1>8, Alone, OpsAssumption DEF FirstBootStep, FirstBootDone, FirstBootFails, MarkBroken
<1>9. CASE ApplyForwards(c)
  BY <1>9, Alone, OpsAssumption DEF ApplyForwards
<1>10. CASE SpawnWatcher(c)
  BY <1>10, Alone, OpsAssumption DEF SpawnWatcher
<1>11. CASE AddEntry(c)
  BY <1>11, Alone, OpsAssumption DEF AddEntry
<1>12. CASE Teardown(c) \/ ReadPid(c) \/ Powerdown(c)
  BY <1>12, Alone, OpsAssumption DEF Teardown, ReadPid, Powerdown
<1>13. CASE SaveVm(c) \/ SaveVmReply(c) \/ SaveVmFails(c) \/ Quit(c)
  BY <1>13, Alone, OpsAssumption DEF SaveVm, SaveVmReply, SaveVmFails, Quit, Reachable
<1>14. CASE SeesExit(c) \/ ExitTimeout(c) \/ ForceStop(c) \/ Settle(c)
  BY <1>14, Alone, OpsAssumption DEF SeesExit, ExitTimeout, ForceStop, Settle,
     CleanupRuntimeFiles
<1>15. CASE RemoveEntry(c) \/ RemoveInstance(c)
  BY <1>15, Alone, OpsAssumption DEF RemoveEntry, RemoveInstance, Statuses
<1>16. CASE ResizeDone(c) \/ ResizeFails(c)
  BY <1>16, Alone, OpsAssumption DEF ResizeDone, ResizeFails
<1>17. CASE SaveConfig(c) \/ SaveConfigFails(c) \/ EditRejected(c)
  BY <1>17, Alone, OpsAssumption DEF SaveConfig, SaveConfigFails, EditRejected
<1>19. CASE UpdateForwards(c)
  BY <1>19, Alone, OpsAssumption DEF UpdateForwards
<1> QED
  BY <1>1, <1>2, <1>3, <1>4, <1>5, <1>6, <1>7, <1>8, <1>9, <1>10, <1>11, <1>12, <1>13,
     <1>14, <1>15, <1>16, <1>17, <1>18, <1>19 DEF Step

\* Between two steps of a command the status on disk is the one it left.
LEMMA StatusCommand ==
  ASSUME Contract, IInv, OpAt, StatusAt, NEW c \in Cmds, Step(c)
  PROVE  StatusAt'
<1> USE DEF TypeOK, Jump, Goto, disk, extras, local, IInv, OneAtATime, SeenHolds, OpAt,
     StatusAt, BootsFrom
<1>1. CASE ReadStatus(c) \/ ProbeProcess(c) \/ ReapStatus(c) \/ ReapFiles(c)
  BY <1>1, Alone, OpsAssumption DEF ReadStatus, ProbeProcess, ReapStatus, ReapFiles, Alive
<1>2. CASE Gate(c) \/ LoadFails(c)
  BY <1>2, Alone, OpsAssumption DEF Gate, LoadFails, GateOf
<1>3. CASE CheckAbsent(c) \/ MakeInstance(c) \/ PrepareDone(c) \/ PrepareFails(c)
  BY <1>3, Alone, OpsAssumption DEF CheckAbsent, MakeInstance, PrepareDone, PrepareFails,
     Statuses
<1>4. CASE CheckAlive(c)
  BY <1>4, Alone, OpsAssumption DEF CheckAlive, Alive
<1>5. CASE Spawn(c)
  BY <1>5, Alone, OpsAssumption DEF Spawn
<1>6. CASE SpawnFails(c) \/ BootReady(c) \/ BootFails(c) \/ MarkRunning(c)
  BY <1>6, Alone, OpsAssumption DEF SpawnFails, BootReady, BootFails, MarkRunning, AfterFailedBoot,
     Reachable
<1>18. CASE RecordPid(c) \/ RecordPidFails(c)
  BY <1>18, Alone, OpsAssumption DEF RecordPid, RecordPidFails, AfterFailedBoot
<1>7. CASE SshReady(c) \/ SshFails(c)
  BY <1>7, Alone, OpsAssumption DEF SshReady, SshFails
<1>8. CASE FirstBootStep(c) \/ FirstBootDone(c) \/ FirstBootFails(c) \/ MarkBroken(c)
  BY <1>8, Alone, OpsAssumption DEF FirstBootStep, FirstBootDone, FirstBootFails, MarkBroken
<1>9. CASE ApplyForwards(c)
  BY <1>9, Alone, OpsAssumption DEF ApplyForwards
<1>10. CASE SpawnWatcher(c)
  BY <1>10, Alone, OpsAssumption DEF SpawnWatcher
<1>11. CASE AddEntry(c)
  BY <1>11, Alone, OpsAssumption DEF AddEntry
<1>12. CASE Teardown(c) \/ ReadPid(c) \/ Powerdown(c)
  BY <1>12, Alone, OpsAssumption DEF Teardown, ReadPid, Powerdown
<1>13. CASE SaveVm(c) \/ SaveVmReply(c) \/ SaveVmFails(c) \/ Quit(c)
  BY <1>13, Alone, OpsAssumption DEF SaveVm, SaveVmReply, SaveVmFails, Quit, Reachable
<1>14. CASE SeesExit(c) \/ ExitTimeout(c) \/ ForceStop(c) \/ Settle(c)
  BY <1>14, Alone, OpsAssumption DEF SeesExit, ExitTimeout, ForceStop, Settle,
     CleanupRuntimeFiles
<1>15. CASE RemoveEntry(c) \/ RemoveInstance(c)
  BY <1>15, Alone, OpsAssumption DEF RemoveEntry, RemoveInstance, Statuses
<1>16. CASE ResizeDone(c) \/ ResizeFails(c)
  BY <1>16, Alone, OpsAssumption DEF ResizeDone, ResizeFails
<1>17. CASE SaveConfig(c) \/ SaveConfigFails(c) \/ EditRejected(c)
  BY <1>17, Alone, OpsAssumption DEF SaveConfig, SaveConfigFails, EditRejected
<1>19. CASE UpdateForwards(c)
  BY <1>19, Alone, OpsAssumption DEF UpdateForwards
<1> QED
  BY <1>1, <1>2, <1>3, <1>4, <1>5, <1>6, <1>7, <1>8, <1>9, <1>10, <1>11, <1>12, <1>13,
     <1>14, <1>15, <1>16, <1>17, <1>18, <1>19 DEF Step

\* Only first_boot and broken see a running VM whose provisioning is not over.
LEMMA FirstBootCommand ==
  ASSUME IInv, OpAt, StatusAt, FirstBootUnderWay, NEW c \in Cmds, Step(c)
  PROVE  FirstBootUnderWay'
<1> USE DEF TypeOK, Jump, Goto, disk, extras, local, IInv, OneAtATime, SeenHolds, OpAt,
     StatusAt, FirstBootUnderWay, BootsFrom
<1>1. CASE ReadStatus(c) \/ ProbeProcess(c) \/ ReapStatus(c) \/ ReapFiles(c)
  BY <1>1, Alone, OpsAssumption DEF ReadStatus, ProbeProcess, ReapStatus, ReapFiles, Alive
<1>2. CASE Gate(c) \/ LoadFails(c)
  BY <1>2, Alone, OpsAssumption DEF Gate, LoadFails, GateOf
<1>3. CASE CheckAbsent(c) \/ MakeInstance(c) \/ PrepareDone(c) \/ PrepareFails(c)
  BY <1>3, Alone, OpsAssumption DEF CheckAbsent, MakeInstance, PrepareDone, PrepareFails,
     Statuses
<1>4. CASE CheckAlive(c)
  BY <1>4, Alone, OpsAssumption DEF CheckAlive, Alive
<1>5. CASE Spawn(c)
  BY <1>5, Alone, OpsAssumption DEF Spawn
<1>6. CASE SpawnFails(c) \/ BootReady(c) \/ BootFails(c) \/ MarkRunning(c)
  BY <1>6, Alone, OpsAssumption DEF SpawnFails, BootReady, BootFails, MarkRunning, AfterFailedBoot,
     Reachable
<1>18. CASE RecordPid(c) \/ RecordPidFails(c)
  BY <1>18, Alone, OpsAssumption DEF RecordPid, RecordPidFails, AfterFailedBoot
<1>7. CASE SshReady(c) \/ SshFails(c)
  BY <1>7, Alone, OpsAssumption DEF SshReady, SshFails
<1>8. CASE FirstBootStep(c) \/ FirstBootDone(c) \/ FirstBootFails(c) \/ MarkBroken(c)
  BY <1>8, Alone, OpsAssumption DEF FirstBootStep, FirstBootDone, FirstBootFails, MarkBroken
<1>9. CASE ApplyForwards(c)
  BY <1>9, Alone, OpsAssumption DEF ApplyForwards
<1>10. CASE SpawnWatcher(c)
  BY <1>10, Alone, OpsAssumption DEF SpawnWatcher
<1>11. CASE AddEntry(c)
  BY <1>11, Alone, OpsAssumption DEF AddEntry
<1>12. CASE Teardown(c) \/ ReadPid(c) \/ Powerdown(c)
  BY <1>12, Alone, OpsAssumption DEF Teardown, ReadPid, Powerdown
<1>13. CASE SaveVm(c) \/ SaveVmReply(c) \/ SaveVmFails(c) \/ Quit(c)
  BY <1>13, Alone, OpsAssumption DEF SaveVm, SaveVmReply, SaveVmFails, Quit, Reachable
<1>14. CASE SeesExit(c) \/ ExitTimeout(c) \/ ForceStop(c) \/ Settle(c)
  BY <1>14, Alone, OpsAssumption DEF SeesExit, ExitTimeout, ForceStop, Settle,
     CleanupRuntimeFiles
<1>15. CASE RemoveEntry(c) \/ RemoveInstance(c)
  BY <1>15, Alone, OpsAssumption DEF RemoveEntry, RemoveInstance, Statuses
<1>16. CASE ResizeDone(c) \/ ResizeFails(c)
  BY <1>16, Alone, OpsAssumption DEF ResizeDone, ResizeFails
<1>17. CASE SaveConfig(c) \/ SaveConfigFails(c) \/ EditRejected(c)
  BY <1>17, Alone, OpsAssumption DEF SaveConfig, SaveConfigFails, EditRejected
<1>19. CASE UpdateForwards(c)
  BY <1>19, Alone, OpsAssumption DEF UpdateForwards
<1> QED
  BY <1>1, <1>2, <1>3, <1>4, <1>5, <1>6, <1>7, <1>8, <1>9, <1>10, <1>11, <1>12, <1>13,
     <1>14, <1>15, <1>16, <1>17, <1>18, <1>19 DEF Step

\* A saved session has a suspend that still records it, or is recorded.
LEMMA SessionCommand ==
  ASSUME IInv, OpAt, StatusAt, SessionHeld, NEW c \in Cmds, Step(c)
  PROVE  SessionHeld'
<1> USE DEF TypeOK, Jump, Goto, disk, extras, local, IInv, OneAtATime, SeenHolds,
     DownAt, NoUnmanageableQemu, Live, OpAt, StatusAt, SessionHeld, Suspending,
     BootsFrom
<1>1. CASE ReadStatus(c) \/ ProbeProcess(c) \/ ReapStatus(c) \/ ReapFiles(c)
  BY <1>1, Alone, OpsAssumption DEF ReadStatus, ProbeProcess, ReapStatus, ReapFiles, Alive
<1>2. CASE Gate(c) \/ LoadFails(c)
  BY <1>2, Alone, OpsAssumption DEF Gate, LoadFails, GateOf
<1>3. CASE CheckAbsent(c) \/ MakeInstance(c) \/ PrepareDone(c) \/ PrepareFails(c)
  BY <1>3, Alone, OpsAssumption DEF CheckAbsent, MakeInstance, PrepareDone, PrepareFails,
     Statuses
<1>4. CASE CheckAlive(c)
  BY <1>4, Alone, OpsAssumption DEF CheckAlive, Alive
<1>5. CASE Spawn(c)
  BY <1>5, Alone, OpsAssumption DEF Spawn
<1>6. CASE SpawnFails(c) \/ BootReady(c) \/ BootFails(c) \/ MarkRunning(c)
  BY <1>6, Alone, OpsAssumption DEF SpawnFails, BootReady, BootFails, MarkRunning, AfterFailedBoot,
     Reachable
<1>18. CASE RecordPid(c) \/ RecordPidFails(c)
  BY <1>18, Alone, OpsAssumption DEF RecordPid, RecordPidFails, AfterFailedBoot
<1>7. CASE SshReady(c) \/ SshFails(c)
  BY <1>7, Alone, OpsAssumption DEF SshReady, SshFails
<1>8. CASE FirstBootStep(c) \/ FirstBootDone(c) \/ FirstBootFails(c) \/ MarkBroken(c)
  BY <1>8, Alone, OpsAssumption DEF FirstBootStep, FirstBootDone, FirstBootFails, MarkBroken
<1>9. CASE ApplyForwards(c)
  BY <1>9, Alone, OpsAssumption DEF ApplyForwards
<1>10. CASE SpawnWatcher(c)
  BY <1>10, Alone, OpsAssumption DEF SpawnWatcher
<1>11. CASE AddEntry(c)
  BY <1>11, Alone, OpsAssumption DEF AddEntry
<1>12. CASE Teardown(c) \/ ReadPid(c) \/ Powerdown(c)
  BY <1>12, Alone, OpsAssumption DEF Teardown, ReadPid, Powerdown
<1>13. CASE SaveVm(c) \/ SaveVmReply(c) \/ SaveVmFails(c) \/ Quit(c)
  BY <1>13, Alone, OpsAssumption DEF SaveVm, SaveVmReply, SaveVmFails, Quit, Reachable
<1>14. CASE SeesExit(c) \/ ExitTimeout(c) \/ ForceStop(c) \/ Settle(c)
  BY <1>14, Alone, OpsAssumption DEF SeesExit, ExitTimeout, ForceStop, Settle,
     CleanupRuntimeFiles
<1>15. CASE RemoveEntry(c) \/ RemoveInstance(c)
  BY <1>15, Alone, OpsAssumption DEF RemoveEntry, RemoveInstance, Statuses
<1>16. CASE ResizeDone(c) \/ ResizeFails(c)
  BY <1>16, Alone, OpsAssumption DEF ResizeDone, ResizeFails
<1>17. CASE SaveConfig(c) \/ SaveConfigFails(c) \/ EditRejected(c)
  BY <1>17, Alone, OpsAssumption DEF SaveConfig, SaveConfigFails, EditRejected
<1>19. CASE UpdateForwards(c)
  BY <1>19, Alone, OpsAssumption DEF UpdateForwards
<1> QED
  BY <1>1, <1>2, <1>3, <1>4, <1>5, <1>6, <1>7, <1>8, <1>9, <1>10, <1>11, <1>12, <1>13,
     <1>14, <1>15, <1>16, <1>17, <1>18, <1>19 DEF Step

\* A Host entry or a supervisor outlives `running` only until it is removed.
LEMMA EndpointsCommand ==
  ASSUME IInv, OpAt, StatusAt, EndpointsHeld, NEW c \in Cmds, Step(c)
  PROVE  EndpointsHeld'
<1> USE DEF TypeOK, Jump, Goto, disk, extras, local, IInv, OneAtATime, SeenHolds, OpAt,
     StatusAt, EndpointsHeld, BootsFrom
<1>1. CASE ReadStatus(c) \/ ProbeProcess(c) \/ ReapStatus(c) \/ ReapFiles(c)
  BY <1>1, Alone, OpsAssumption DEF ReadStatus, ProbeProcess, ReapStatus, ReapFiles, Alive
<1>2. CASE Gate(c) \/ LoadFails(c)
  BY <1>2, Alone, OpsAssumption DEF Gate, LoadFails, GateOf
<1>3. CASE CheckAbsent(c) \/ MakeInstance(c) \/ PrepareDone(c) \/ PrepareFails(c)
  BY <1>3, Alone, OpsAssumption DEF CheckAbsent, MakeInstance, PrepareDone, PrepareFails,
     Statuses
<1>4. CASE CheckAlive(c)
  BY <1>4, Alone, OpsAssumption DEF CheckAlive, Alive
<1>5. CASE Spawn(c)
  BY <1>5, Alone, OpsAssumption DEF Spawn
<1>6. CASE SpawnFails(c) \/ BootReady(c) \/ BootFails(c) \/ MarkRunning(c)
  BY <1>6, Alone, OpsAssumption DEF SpawnFails, BootReady, BootFails, MarkRunning, AfterFailedBoot,
     Reachable
<1>18. CASE RecordPid(c) \/ RecordPidFails(c)
  BY <1>18, Alone, OpsAssumption DEF RecordPid, RecordPidFails, AfterFailedBoot
<1>7. CASE SshReady(c) \/ SshFails(c)
  BY <1>7, Alone, OpsAssumption DEF SshReady, SshFails
<1>8. CASE FirstBootStep(c) \/ FirstBootDone(c) \/ FirstBootFails(c) \/ MarkBroken(c)
  BY <1>8, Alone, OpsAssumption DEF FirstBootStep, FirstBootDone, FirstBootFails, MarkBroken
<1>9. CASE ApplyForwards(c)
  BY <1>9, Alone, OpsAssumption DEF ApplyForwards
<1>10. CASE SpawnWatcher(c)
  BY <1>10, Alone, OpsAssumption DEF SpawnWatcher
<1>11. CASE AddEntry(c)
  BY <1>11, Alone, OpsAssumption DEF AddEntry
<1>12. CASE Teardown(c) \/ ReadPid(c) \/ Powerdown(c)
  BY <1>12, Alone, OpsAssumption DEF Teardown, ReadPid, Powerdown
<1>13. CASE SaveVm(c) \/ SaveVmReply(c) \/ SaveVmFails(c) \/ Quit(c)
  BY <1>13, Alone, OpsAssumption DEF SaveVm, SaveVmReply, SaveVmFails, Quit, Reachable
<1>14. CASE SeesExit(c) \/ ExitTimeout(c) \/ ForceStop(c) \/ Settle(c)
  BY <1>14, Alone, OpsAssumption DEF SeesExit, ExitTimeout, ForceStop, Settle,
     CleanupRuntimeFiles
<1>15. CASE RemoveEntry(c) \/ RemoveInstance(c)
  BY <1>15, Alone, OpsAssumption DEF RemoveEntry, RemoveInstance, Statuses
<1>16. CASE ResizeDone(c) \/ ResizeFails(c)
  BY <1>16, Alone, OpsAssumption DEF ResizeDone, ResizeFails
<1>17. CASE SaveConfig(c) \/ SaveConfigFails(c) \/ EditRejected(c)
  BY <1>17, Alone, OpsAssumption DEF SaveConfig, SaveConfigFails, EditRejected
<1>19. CASE UpdateForwards(c)
  BY <1>19, Alone, OpsAssumption DEF UpdateForwards
<1> QED
  BY <1>1, <1>2, <1>3, <1>4, <1>5, <1>6, <1>7, <1>8, <1>9, <1>10, <1>11, <1>12, <1>13,
     <1>14, <1>15, <1>16, <1>17, <1>18, <1>19 DEF Step

\* A command that is issued changes nothing yet.
LEMMA SturdyIssue ==
  ASSUME Contract, SInv, NEW c \in Cmds, NEW o \in Ops, Issue(c, o)
  PROVE  (OpAt /\ StatusAt /\ FirstBootUnderWay /\ SessionHeld /\ EndpointsHeld)'
<1>1. \A d \in Cmds : pc[d] = "idle"
  BY DEF Issue, MayBegin, Contract
<1>2. /\ pc'[c] \in {"exists", "read"}
      /\ \A d \in Cmds \ {c} : pc'[d] = "idle"
      /\ UNCHANGED <<status, pidFile, socket, qemu, load, disk, extras>>
  BY <1>1 DEF Issue, Goto, SInv, IInv, TypeOK
<1>3. pc'[c] = "exists" => op'[c] \in {"create", "create_start"}
  BY DEF Issue, Goto, SInv, IInv, TypeOK
<1> QED
  BY <1>1, <1>2, <1>3 DEF SInv, OpAt, StatusAt, FirstBootUnderWay, SessionHeld, Live,
     Suspending, EndpointsHeld,
                     disk, extras

\* A command killed at a sturdy point had nothing left to record.
LEMMA SturdyKilled ==
  ASSUME Sturdy, SInv, NEW c \in Cmds, Killed(c)
  PROVE  (OpAt /\ StatusAt /\ FirstBootUnderWay /\ SessionHeld /\ EndpointsHeld)'
<1>1. pc[c] \notin {"idle", "sweep", "record", "await", "running", "first_boot", "broken",
                   "quit", "waitexit", "kill", "settle", "unentry"}
  BY OpsAssumption DEF Killed, Sturdy, Contract, Labels
<1>2. /\ \A d \in Cmds : pc'[d] = "idle"
      /\ \A d \in Cmds \ {c} : pc[d] = "idle"
      /\ UNCHANGED <<status, pidFile, socket, qemu, load, disk, extras>>
  BY <1>1, Alone DEF Killed, Jump, SInv, IInv
<1> QED
  BY <1>1, <1>2 DEF SInv, OpAt, StatusAt, FirstBootUnderWay, SessionHeld, Live,
     Suspending, EndpointsHeld,
                     disk, extras

\* QEMU's own steps; only QemuServes touches the saved session.
LEMMA SturdyHost ==
  ASSUME SInv, NEW p \in Pids, QemuBoots(p) \/ QemuExits(p)
  PROVE  (OpAt /\ StatusAt /\ FirstBootUnderWay /\ SessionHeld /\ EndpointsHeld)'
<1> USE DEF SInv, IInv, TypeOK, NoUnmanageableQemu, Live, SessionHeld, Suspending,
     extras, disk, local
<1>1. UNCHANGED <<status, prov, extras, local>>
  BY DEF QemuBoots, QemuListens, QemuServes, QemuGivesUp, QemuExits
<1>2. (OpAt /\ StatusAt /\ FirstBootUnderWay /\ EndpointsHeld)'
  BY <1>1 DEF OpAt, StatusAt, FirstBootUnderWay, EndpointsHeld
<1>3. SessionHeld'
  <2>1. CASE QemuListens(p)
    BY <2>1 DEF QemuListens
  <2>2. CASE QemuServes(p)
    BY <2>2 DEF QemuServes
  <2>3. CASE QemuGivesUp(p)
    BY <2>3 DEF QemuGivesUp
  <2>4. CASE QemuExits(p)
    BY <2>4 DEF QemuExits
  <2> QED
    BY <2>1, <2>2, <2>3, <2>4 DEF QemuBoots
<1> QED
  BY <1>2, <1>3

LEMMA SturdyInit == Init => SInv
  BY Initially, OpsAssumption DEF Init, SInv, OpAt, StatusAt, FirstBootUnderWay,
     SessionHeld, Suspending, Live, EndpointsHeld, Statuses

LEMMA SturdyInductive ==
  ASSUME Sturdy, SInv, [Next]_vars
  PROVE  SInv'
<1> USE DEF SInv
<1>1. IInv'
  BY Inductive DEF Sturdy
<1>2. CASE UNCHANGED vars
  BY <1>1, <1>2 DEF vars, disk, extras, local, OpAt, StatusAt, FirstBootUnderWay,
     SessionHeld, Suspending, Live, EndpointsHeld
<1>3. ASSUME NEW c \in Cmds, Step(c)
      PROVE  SInv'
  BY <1>1, <1>3, OpCommand, StatusCommand, FirstBootCommand, SessionCommand,
     EndpointsCommand DEF Sturdy
<1>4. CASE Next
  BY <1>1, <1>3, <1>4, SturdyIssue, SturdyKilled, SturdyHost DEF Next, Sturdy
<1> QED
  BY <1>2, <1>4

LEMMA SturdyInvariance == Sturdy /\ Spec => []SInv
<1> SUFFICES ASSUME Sturdy PROVE Spec => []SInv
  OBVIOUS
<1> QED
  BY SturdyInit, SturdyInductive, PTL DEF Spec

\* suspend, resume and everything between: once savevm has completed, the VM
\* says `suspended` until the session is resumed, and `suspended` is never said
\* of a VM without a session.
THEOREM SuspendedIsResumable == Sturdy /\ Spec => []SavedSessionIsResumable
<1>1. SInv => SavedSessionIsResumable
  BY DEF SInv, SessionHeld, Suspending, SavedSessionIsResumable, Rest
<1> QED
  BY <1>1, SturdyInvariance, PTL

\* create --start, start and start --retry never leave a VM `running` whose
\* provisioning has not completed.
THEOREM RunningIsProvisioned == Sturdy /\ Spec => []RunningMeansProvisioned
<1>1. SInv => RunningMeansProvisioned
  BY DEF SInv, FirstBootUnderWay, RunningMeansProvisioned, Rest
<1> QED
  BY <1>1, SturdyInvariance, PTL

\* However a VM went down, its Host entry and its forwards went with it.
THEOREM NothingPointsAtIt == Sturdy /\ Spec => []NoStaleEndpoint
<1>1. SInv => NoStaleEndpoint
  BY OpsAssumption DEF SInv, EndpointsHeld, NoStaleEndpoint, Rest, Statuses
<1> QED
  BY <1>1, SturdyInvariance, PTL

-----------------------------------------------------------------------------
(* The commands implement the session of VmSession.                        *)

\* the session without the one value it never takes
SessionValue ==
  /\ GuestOn => SessionState = "on"
  /\ ~GuestOn /\ status = None => SessionState = "absent"
  /\ ~GuestOn /\ status # None /\ snapshot = "current" => SessionState = "saved"
  /\ ~GuestOn /\ status # None /\ snapshot # "current" => SessionState = "off"

LEMMA SessionCases == SInv => SessionValue
<1> SUFFICES ASSUME SInv PROVE SessionValue
  OBVIOUS
<1>1. snapshot # "lost"
  BY DEF SInv, SessionHeld
<1>2. GuestOn => SessionState = "on"
  BY <1>1 DEF SessionState
<1>3. ~GuestOn /\ status = None => SessionState = "absent"
  BY <1>1 DEF SessionState
<1>4. ~GuestOn /\ status # None /\ snapshot = "current" => SessionState = "saved"
  BY <1>1 DEF SessionState
<1>5. ~GuestOn /\ status # None /\ snapshot # "current" => SessionState = "off"
  BY <1>1 DEF SessionState
<1> QED
  BY <1>2, <1>3, <1>4, <1>5 DEF SessionValue

\* a guest that is on has an instance directory
LEMMA OnMeansPresent == SInv /\ GuestOn => status # None
  BY OpsAssumption DEF SInv, IInv, BootUnderWay, StatusAt, BootsFrom, OpAt, Live,
     GuestOn, Statuses

\* what makes a step a step of the session
LEMMA SessionMoves ==
  ASSUME SInv, SInv',
         \/ /\ GuestOn' <=> GuestOn
            /\ status' = None <=> status = None
            /\ snapshot' = "current" <=> snapshot = "current"
         \/ GuestOn /\ (GuestOn' \/ status' # None)
         \/ GuestOn' /\ status # None
         \/ ~GuestOn /\ ~GuestOn' /\ status = None /\ status' # None /\ snapshot' # "current"
         \/ ~GuestOn /\ ~GuestOn' /\ status' = None
  PROVE  [Session!Next]_SessionState
<1>1. SessionValue /\ SessionValue'
  BY SessionCases, PTL
<1> QED
  BY <1>1, OnMeansPresent
     DEF SessionValue, Session!Next, Session!Create, Session!PowerOn, Session!PowerOff, Session!Save,
         Session!Resume, Session!Destroy, Session!Become

LEMMA SessionCommandStep ==
  ASSUME SInv, SInv', NEW c \in Cmds, Step(c)
  PROVE  [Session!Next]_SessionState
<1> USE DEF GuestOn, Jump, Goto, disk, extras, local, SInv, IInv, TypeOK
<1>1. CASE MakeInstance(c)
  <2>1. ~GuestOn /\ status = None /\ snapshot # "current"
    BY <1>1, OpsAssumption DEF MakeInstance, StatusAt, DownAt, Live, SessionHeld,
       OneAtATime, Suspending, Statuses
  <2> QED
    BY <1>1, <2>1, SessionMoves, OpsAssumption DEF MakeInstance, Statuses
<1>2. CASE BootFails(c)
  BY <1>2, SessionMoves, OnMeansPresent DEF BootFails
<1>3. CASE Quit(c)
  BY <1>3, SessionMoves, OnMeansPresent DEF Quit
<1>4. CASE ForceStop(c)
  BY <1>4, SessionMoves, OnMeansPresent DEF ForceStop
<1>5. CASE SaveVm(c) \/ SaveVmReply(c)
  BY <1>5, SessionMoves DEF SaveVm, SaveVmReply, Reachable
<1>19. CASE RecordPidFails(c)
  BY <1>19, SessionMoves, OnMeansPresent DEF RecordPidFails
<1>6. CASE RemoveInstance(c)
  <2>1. ~GuestOn /\ ~GuestOn'
    BY <1>6 DEF RemoveInstance, DownAt, Live
  <2> QED
    BY <1>6, <2>1, SessionMoves DEF RemoveInstance
<1>7. ASSUME status # None, status' # None, UNCHANGED <<qemu, snapshot>>
      PROVE  [Session!Next]_SessionState
  BY <1>7, SessionMoves
<1>8. CASE ReapStatus(c) \/ MarkRunning(c) \/ MarkBroken(c) \/ PrepareDone(c)
  BY <1>7, <1>8, OpsAssumption
     DEF ReapStatus, MarkRunning, MarkBroken, PrepareDone, SeenHolds, OpAt, StatusAt,
         BootsFrom, Statuses
<1>9. CASE Settle(c)
  BY <1>7, <1>9, OpsAssumption DEF Settle, OpAt, StatusAt, Statuses
<1>10. CASE ResizeFails(c) \/ SaveConfig(c) \/ SaveConfigFails(c)
  BY <1>7, <1>10, OpsAssumption DEF ResizeFails, SaveConfig, SaveConfigFails,
     StatusAt, Statuses
<1>11. CASE Gate(c)
  <2>1. CASE GateOf(op[c], seen[c]) = "resize"
    BY <1>7, <1>11, <2>1, OpsAssumption DEF Gate, GateOf, SeenHolds, AllOps, Statuses
  <2>2. CASE GateOf(op[c], seen[c]) # "resize"
    BY <1>11, <2>2, SessionMoves DEF Gate
  <2> QED
    BY <2>1, <2>2
<1>12. ASSUME UNCHANGED <<status, qemu, snapshot>>
       PROVE  [Session!Next]_SessionState
  BY <1>12, SessionMoves
<1>13. CASE \/ ReadStatus(c) \/ ProbeProcess(c) \/ ReapFiles(c) \/ LoadFails(c)
            \/ CheckAbsent(c) \/ PrepareFails(c)
  BY <1>12, <1>13 DEF ReadStatus, ProbeProcess, ReapFiles, LoadFails, CheckAbsent, PrepareFails
<1>14. CASE \/ CheckAlive(c) \/ SpawnFails(c) \/ BootReady(c) \/ SshReady(c) \/ SshFails(c)
            \/ FirstBootStep(c) \/ FirstBootDone(c) \/ FirstBootFails(c)
  BY <1>12, <1>14 DEF CheckAlive, SpawnFails, BootReady, SshReady, SshFails, FirstBootStep,
     FirstBootDone, FirstBootFails
<1>15. CASE ApplyForwards(c) \/ SpawnWatcher(c) \/ AddEntry(c) \/ UpdateForwards(c) \/ RecordPid(c)
  BY <1>12, <1>15 DEF ApplyForwards, SpawnWatcher, AddEntry, UpdateForwards, RecordPid
<1>16. CASE Teardown(c) \/ ReadPid(c) \/ Powerdown(c) \/ SaveVmFails(c)
  BY <1>12, <1>16 DEF Teardown, ReadPid, Powerdown, SaveVmFails
<1>17. CASE SeesExit(c) \/ ExitTimeout(c) \/ RemoveEntry(c) \/ ResizeDone(c) \/ EditRejected(c)
  BY <1>12, <1>17 DEF SeesExit, ExitTimeout, RemoveEntry, ResizeDone, EditRejected
<1>18. CASE Spawn(c)
  <2>1. ~GuestOn /\ ~GuestOn'
    BY <1>18 DEF Spawn, DownAt, Live
  <2> QED
    BY <1>18, <2>1, SessionMoves DEF Spawn
<1> QED
  BY <1>1, <1>2, <1>3, <1>4, <1>5, <1>6, <1>8, <1>9, <1>10, <1>11, <1>13, <1>14, <1>15,
     <1>16, <1>17, <1>18, <1>19 DEF Step

LEMMA SessionHostStep ==
  ASSUME SInv, SInv', NEW p \in Pids, QemuBoots(p) \/ QemuExits(p)
  PROVE  [Session!Next]_SessionState
<1>1. status # None /\ UNCHANGED status
  BY OpsAssumption DEF QemuBoots, QemuListens, QemuServes, QemuGivesUp, QemuExits,
     SInv, IInv, BootUnderWay, StatusAt, OpAt, BootsFrom, Live, Statuses
<1>2. CASE QemuListens(p) \/ QemuGivesUp(p)
  BY <1>1, <1>2, SessionMoves DEF QemuListens, QemuGivesUp, GuestOn, SInv, IInv,
     TypeOK, disk
<1>3. CASE QemuServes(p)
  <2>1. GuestOn'
    BY <1>3 DEF QemuServes, GuestOn, SInv, IInv, TypeOK
  <2> QED
    BY <1>1, <2>1, SessionMoves
<1>4. CASE QemuExits(p)
  BY <1>1, <1>4, SessionMoves DEF QemuExits, GuestOn, SInv, IInv, TypeOK, disk
<1> QED
  BY <1>2, <1>3, <1>4 DEF QemuBoots

LEMMA SessionStep ==
  ASSUME SInv, SInv', [Next]_vars
  PROVE  [Session!Next]_SessionState
<1>1. ASSUME UNCHANGED <<status, qemu, snapshot>>
      PROVE  [Session!Next]_SessionState
  BY <1>1, SessionMoves DEF GuestOn
<1>2. CASE UNCHANGED vars
  BY <1>1, <1>2 DEF vars, disk
<1>3. CASE \E c \in Cmds, o \in Ops : Issue(c, o)
  BY <1>1, <1>3 DEF Issue, disk
<1>4. CASE \E c \in Cmds : Killed(c)
  BY <1>1, <1>4 DEF Killed, disk
<1> QED
  BY <1>2, <1>3, <1>4, SessionCommandStep, SessionHostStep DEF Next

LEMMA SessionInit == Init => Session!Init
  BY DEF Init, Session!Init, SessionState, GuestOn

THEOREM Refinement == Sturdy /\ Spec => ImplementsSession
<1> SUFFICES ASSUME Sturdy PROVE Spec => ImplementsSession
  OBVIOUS
<1> QED
  BY SturdyInvariance, SessionInit, SessionStep, PTL DEF Spec, ImplementsSession,
     Session!Spec

-----------------------------------------------------------------------------
(* The hardware: every step with its effect on the hardware is a step of   *)
(* VmLifecycle, and a session is continued on its machine.                 *)

LEMMA HwStepIsStep ==
  ASSUME [HwNext]_hwVars
  PROVE  [Next]_vars
<1>1. CASE UNCHANGED hwVars
  BY <1>1 DEF hwVars
<1>2. ASSUME NEW c \in Cmds, HwStep(c)
      PROVE  [Next]_vars
  <2>1. CASE SaveNew(c) \/ PinMachine(c)
    BY <2>1 DEF SaveNew, PinMachine
  <2>2. CASE Step(c)
    BY <2>2 DEF Next
  <2>3. CASE LoadConfig(c) \/ Prepared(c)
    BY <2>2, <2>3 DEF LoadConfig, Prepared, Step
  <2>4. CASE BootMachine(c) \/ BootMachineFails(c) \/ SaveMachine(c) \/ RemoveMachine(c)
    BY <2>2, <2>4 DEF BootMachine, BootMachineFails, SaveMachine, RemoveMachine, Step
  <2>5. CASE EditMachine(c) \/ EditMachineFails(c) \/ SaveVmFails(c) \/ EditRejected(c)
    BY <2>2, <2>5 DEF EditMachine, EditMachineFails, Step
  <2> QED
    BY <1>2, <2>1, <2>2, <2>3, <2>4, <2>5 DEF HwStep
<1>3. CASE \E c \in Cmds, o \in Ops : Issue(c, o)
  BY <1>3 DEF Next
<1>4. ASSUME NEW c \in Cmds, HwKilled(c)
      PROVE  [Next]_vars
  BY <1>4 DEF HwKilled, Next
<1>5. ASSUME NEW p \in Pids, HwBoots(p) \/ QemuExits(p)
      PROVE  [Next]_vars
  BY <1>5 DEF HwBoots, Next
<1> QED
  BY <1>1, <1>2, <1>3, <1>4, <1>5 DEF HwNext

\* The commands with the hardware are the commands of VmLifecycle: what holds
\* of every behaviour of VmLifecycle holds with the hardware too.
THEOREM HardwareRefines == HwSpec => Spec
  BY HwStepIsStep, PTL DEF HwSpec, HwInit, Spec

\* What a step leaves as it is that starts no QEMU and completes no savevm.
Undisturbed ==
  /\ \A p \in Pids : qemu'[p] # "absent" => qemu[p] # "absent"
  /\ \A p \in Pids : qemu'[p] = "up" => qemu[p] = "up"
  /\ load' = load
  /\ InUse' => InUse
  /\ SessionKept' => SessionKept

LEMMA UndisturbedStep ==
  ASSUME SInv, NEW c \in Cmds,
         \/ Step(c) /\ pc[c] \notin {"spawn", "savevm"}
         \/ SpawnFails(c) \/ SaveVmFails(c)
  PROVE  Undisturbed
<1> USE DEF TypeOK, Jump, Goto, disk, extras, local, SInv, IInv, OneAtATime, Undisturbed,
        InUse, SessionKept, Suspending, Live
<1>1. CASE ReadStatus(c) \/ ProbeProcess(c) \/ ReapStatus(c) \/ ReapFiles(c)
  BY <1>1, Alone DEF ReadStatus, ProbeProcess, ReapStatus, ReapFiles, SeenHolds
<1>2. CASE Gate(c) \/ LoadFails(c)
  BY <1>2, Alone DEF Gate, LoadFails, GateOf
<1>3. CASE CheckAbsent(c) \/ MakeInstance(c) \/ PrepareDone(c) \/ PrepareFails(c)
  BY <1>3, Alone DEF CheckAbsent, MakeInstance, PrepareDone, PrepareFails
<1>4. CASE CheckAlive(c)
  BY <1>4, Alone DEF CheckAlive, Alive, OpAt
<1>5. CASE SpawnFails(c) \/ BootReady(c)
  BY <1>5, Alone DEF SpawnFails, BootReady, AfterFailedBoot
<1>6. CASE BootFails(c)
  BY <1>6, Alone DEF BootFails, AfterFailedBoot
<1>21. CASE RecordPid(c) \/ RecordPidFails(c)
  BY <1>21, Alone DEF RecordPid, RecordPidFails, AfterFailedBoot
<1>22. CASE SaveVmReply(c)
  BY <1>22, Alone DEF SaveVmReply
<1>23. CASE UpdateForwards(c)
  <2>1. UNCHANGED <<status, qemu, load, op>> /\ pc' = [pc EXCEPT ![c] = "idle"]
    BY <1>23 DEF UpdateForwards
  <2> QED
    BY <2>1
<1>7. CASE MarkRunning(c) \/ SshReady(c) \/ SshFails(c)
  BY <1>7, Alone DEF MarkRunning, SshReady, SshFails
<1>8. CASE FirstBootStep(c) \/ FirstBootDone(c) \/ FirstBootFails(c) \/ MarkBroken(c)
  BY <1>8, Alone DEF FirstBootStep, FirstBootDone, FirstBootFails, MarkBroken
<1>9. CASE ApplyForwards(c)
  <2>1. UNCHANGED <<status, qemu, load, op>> /\ pc' = [pc EXCEPT ![c] = "watch"]
    BY <1>9 DEF ApplyForwards
  <2> QED
    BY <2>1
<1>20. CASE SpawnWatcher(c)
  <2>1. UNCHANGED <<status, qemu, load, op>> /\ pc' = [pc EXCEPT ![c] = "entry"]
    BY <1>20 DEF SpawnWatcher
  <2> QED
    BY <2>1
<1>19. CASE AddEntry(c)
  BY <1>19, Alone DEF AddEntry
<1>18. CASE ReadPid(c)
  BY <1>18, Alone DEF ReadPid
<1>16. CASE Teardown(c)
  BY <1>16, Alone DEF Teardown
<1>10. CASE Powerdown(c) \/ SaveVmFails(c) \/ SeesExit(c) \/ ExitTimeout(c)
  BY <1>10, Alone DEF Powerdown, SaveVmFails, SeesExit, ExitTimeout, OpAt
<1>17. CASE Quit(c)
  BY <1>17, Alone DEF Quit
<1>11. CASE ForceStop(c)
  BY <1>11, Alone DEF ForceStop, OpAt
<1>12. CASE Settle(c)
  BY <1>12, Alone DEF Settle, OpAt, StatusAt
<1>13. CASE RemoveEntry(c) \/ RemoveInstance(c)
  BY <1>13, Alone, OpsAssumption DEF RemoveEntry, RemoveInstance
<1>14. CASE ResizeDone(c) \/ ResizeFails(c)
  BY <1>14, Alone DEF ResizeDone, ResizeFails, StatusAt
<1>15. CASE SaveConfig(c) \/ SaveConfigFails(c) \/ EditRejected(c)
  BY <1>15, Alone DEF SaveConfig, SaveConfigFails, EditRejected, StatusAt
<1> QED
  BY <1>1, <1>2, <1>3, <1>4, <1>5, <1>6, <1>7, <1>8, <1>9, <1>10, <1>11, <1>12, <1>13,
     <1>14, <1>15, <1>16, <1>17, <1>18, <1>19,
     <1>20, <1>21, <1>22, <1>23 DEF Step, Spawn, SaveVm

LEMMA UndisturbedIssue ==
  ASSUME SInv, NEW c \in Cmds, NEW o \in Ops, Issue(c, o)
  PROVE  Undisturbed
<1>1. pc'[c] \in {"exists", "read"} /\ \A d \in Cmds \ {c} : pc'[d] = pc[d] /\ op'[d] = op[d]
  BY DEF Issue, Goto, SInv, IInv, TypeOK
<1>2. UNCHANGED <<status, qemu, load>>
  BY DEF Issue
<1> QED
  BY <1>1, <1>2 DEF Undisturbed, InUse, SessionKept, Suspending, Live

LEMMA UndisturbedKilled ==
  ASSUME SInv, NEW c \in Cmds, Killed(c)
  PROVE  Undisturbed
<1>1. pc'[c] = "idle" /\ \A d \in Cmds \ {c} : pc'[d] = pc[d]
  BY DEF Killed, Jump, Goto, SInv, IInv, TypeOK
<1>2. UNCHANGED <<status, qemu, load, op>>
  BY DEF Killed, Jump
<1> QED
  BY <1>1, <1>2 DEF Undisturbed, InUse, SessionKept, Suspending, Live

\* A machine that nothing uses has no session and no QEMU.
LEMMA NotInUse == SInv /\ ~InUse => ~SessionKept /\ Live = {}
  BY DEF InUse, SessionKept, Suspending, SInv, StatusAt, OpAt

\* A step with no effect on the hardware keeps what is known of it.
LEMMA KeepsStep ==
  ASSUME HwInv, Undisturbed, UNCHANGED <<config, saved>>, DOMAIN args' = Pids,
         \A p \in Pids : qemu'[p] # "absent" => args'[p] = args[p]
  PROVE  HwInv'
<1>1. \A p \in Live' : p \in Live /\ args'[p] = args[p]
  BY DEF Live, Undisturbed
<1>2. load' = load
  BY DEF Undisturbed
<1>3. (InUse => config # None /\ ~Unpinned)'
  BY DEF HwInv, Undisturbed, Unpinned
<1>4. (\A p \in Live : \E kvm \in BOOLEAN : args[p] = BuildQemuArgs(config, kvm))'
  BY <1>1 DEF HwInv
<1>5. (\A p \in Live : qemu[p] = "up" => args[p] = MachineOf(config))'
  BY <1>1 DEF HwInv, Undisturbed, Live, MachineOf
<1>6. (SessionKept \/ load \cap Live # {} => saved = MachineOf(config))'
  BY <1>1, <1>2 DEF HwInv, Undisturbed
<1> QED
  BY <1>3, <1>4, <1>5, <1>6 DEF HwInv

\* So does a step that writes the configuration, if nothing uses the machine.
LEMMA WriteStep ==
  ASSUME SInv', DOMAIN args' = Pids, ~InUse', config' \in Configs \cup {None}
  PROVE  HwInv'
<1>1. (~SessionKept /\ Live = {})'
  BY NotInUse, PTL
<1> QED
  BY <1>1 DEF HwInv

LEMMA HwInitially == HwInit => HwInv
  BY OpsAssumption DEF HwInit, HwInv, Init, InUse, SessionKept, Suspending, Live, Statuses

\* A write of the configuration, whole or torn, that falls where it is
\* unpinned, or inside an edit.
LEMMA TornStep ==
  ASSUME SInv, SInv', HwInv, Undisturbed, args' = args, config' \in Torn,
         Unpinned \/ \E c \in Cmds : pc[c] = "edit"
  PROVE  HwInv'
<1>1. ~InUse
  <2>1. CASE Unpinned
    BY <2>1 DEF HwInv
  <2>2. ASSUME NEW c \in Cmds, pc[c] = "edit"
        PROVE  ~InUse
    BY <2>2 DEF InUse, SInv, IInv, StatusAt, DownAt, OneAtATime
  <2> QED
    BY <2>1, <2>2
<1>2. ~InUse'
  BY <1>1 DEF Undisturbed
<1> QED
  BY <1>2, WriteStep DEF HwInv, Torn

LEMMA BootMachineStep ==
  ASSUME SInv, HwInv, NEW c \in Cmds, BootMachine(c)
  PROVE  HwInv'
<1> USE DEF SInv, IInv
<1>1. PICK p \in Pids \ Live :
        /\ qemu' = [qemu EXCEPT ![p] = "booting"]
        /\ load' = IF op[c] = "resume" THEN load \cup {p} ELSE load \ {p}
        /\ pid' = [pid EXCEPT ![c] = p]
  BY DEF BootMachine, Spawn
<1>2. PICK kvm \in BOOLEAN : args' = [args EXCEPT ![pid'[c]] = BuildQemuArgs(config, kvm)]
  BY DEF BootMachine
<1>3. pid'[c] = p
  BY <1>1 DEF TypeOK
<1>4. UNCHANGED <<config, saved, status, op>> /\ pc[c] = "spawn" /\ pc' = [pc EXCEPT ![c] = "record"]
  BY DEF BootMachine, Spawn, Goto
<1>5. Live = {} /\ Live' = {p}
  BY <1>1, <1>4 DEF DownAt, Live, TypeOK
<1>6. args'[p] = BuildQemuArgs(config, kvm) /\ DOMAIN args' = Pids
  BY <1>2, <1>3 DEF HwInv
<1>7. config # None /\ ~Unpinned /\ ~Unpinned'
  BY <1>4 DEF BootMachine, Unpinned
<1>8. op[c] = "resume" => saved = MachineOf(config)
  BY <1>4 DEF StatusAt, OpAt, BootsFrom, HwInv, SessionKept
<1>9. SessionKept' => SessionKept
  BY <1>4 DEF SessionKept, Suspending, TypeOK
<1>10. (SessionKept \/ load \cap Live # {} => saved = MachineOf(config))'
  BY <1>1, <1>4, <1>5, <1>8, <1>9 DEF HwInv, MachineOf
<1>11. (\A q \in Live : qemu[q] = "up" => args[q] = MachineOf(config))'
  BY <1>1, <1>5 DEF TypeOK
<1>12. (\A q \in Live : \E k \in BOOLEAN : args[q] = BuildQemuArgs(config, k))'
  BY <1>4, <1>5, <1>6
<1> QED
  BY <1>4, <1>6, <1>7, <1>10, <1>11, <1>12 DEF HwInv

LEMMA SaveMachineStep ==
  ASSUME SInv, HwInv, NEW c \in Cmds, SaveMachine(c)
  PROVE  HwInv'
<1> USE DEF SInv, IInv
<1>1. /\ UNCHANGED <<config, args, status, op, qemu, load>>
      /\ pc[c] = "savevm" /\ pc' = [pc EXCEPT ![c] = "saved"]
      /\ socket # None /\ qemu[socket] = "up" /\ saved' = args[socket]
  BY DEF SaveMachine, SaveVm, Jump, Goto, Reachable
<1>2. socket \in Live
  BY <1>1 DEF Live, TypeOK
<1>3. saved' = MachineOf(config)
  BY <1>1, <1>2 DEF HwInv
<1>4. InUse' => InUse
  BY <1>1 DEF InUse, Live, TypeOK
<1> QED
  BY <1>1, <1>3, <1>4 DEF HwInv, Live, Unpinned, MachineOf

LEMMA HwCommandStep ==
  ASSUME SInv, SInv', HwInv, NEW c \in Cmds, HwStep(c)
  PROVE  HwInv'
<1>1. ASSUME Keeps, Undisturbed PROVE HwInv'
  BY <1>1, KeepsStep DEF Keeps, ArgsOfLive
<1>2. CASE pc[c] \notin Elsewhere /\ Step(c) /\ Keeps
  BY <1>1, <1>2, UndisturbedStep DEF Elsewhere
<1>3. CASE LoadConfig(c) \/ Prepared(c)
  <2>1. Keeps /\ Step(c) /\ pc[c] \notin {"spawn", "savevm"}
    BY <1>3 DEF LoadConfig, Prepared, Step, Gate, LoadFails, PrepareDone, PrepareFails
  <2> QED
    BY <1>1, <2>1, UndisturbedStep
<1>4. CASE SaveNew(c) \/ PinMachine(c)
  <2>1. ~InUse
    BY <1>4 DEF SaveNew, PinMachine, HwInv
  <2>2. ~InUse'
    BY <1>4, <2>1 DEF SaveNew, PinMachine, InUse, Live, vars, local
  <2>3. config' \in Configs \cup {None} /\ args' = args
    BY <1>4 DEF SaveNew, PinMachine, HwInv, Configs, Unpinned
  <2> QED
    BY <2>2, <2>3, WriteStep DEF HwInv
<1>5. CASE BootMachine(c)
  BY <1>5, BootMachineStep
<1>6. CASE BootMachineFails(c)
  <2>1. Undisturbed /\ UNCHANGED <<args, saved>>
    BY <1>6, UndisturbedStep DEF BootMachineFails
  <2>2. CASE Unpinned
    BY <1>6, <2>1, <2>2, TornStep DEF BootMachineFails
  <2>3. CASE ~Unpinned
    BY <1>6, <2>1, <2>3, KeepsStep DEF BootMachineFails, HwInv
  <2> QED
    BY <2>2, <2>3
<1>7. CASE SaveMachine(c)
  BY <1>7, SaveMachineStep
<1>8. CASE RemoveMachine(c)
  <2>1. ~InUse'
    <3>1. pc[c] = "rmdir" /\ pc' = [pc EXCEPT ![c] = "idle"] /\ status' = None /\ qemu' = qemu
      BY <1>8 DEF RemoveMachine, RemoveInstance, Jump, Goto
    <3>2. Live = {} /\ \A d \in Cmds \ {c} : pc[d] = "idle"
      BY <3>1 DEF SInv, IInv, DownAt, OneAtATime
    <3> QED
      BY <3>1, <3>2, OpsAssumption DEF InUse, Live, Statuses, SInv, IInv, TypeOK
  <2> QED
    BY <1>8, <2>1, WriteStep DEF RemoveMachine, HwInv
<1>9. CASE EditMachine(c)
  <2>1. pc[c] = "edit" /\ Undisturbed
    BY <1>9, UndisturbedStep DEF EditMachine, SaveConfig, Step
  <2>2. ~InUse
    BY <2>1 DEF InUse, SInv, IInv, StatusAt, DownAt, OneAtATime
  <2>3. config' \in Configs \cup {None} /\ args' = args
    BY <1>9 DEF EditMachine, HwInv, Configs
  <2> QED
    BY <2>1, <2>2, <2>3, WriteStep DEF Undisturbed, HwInv
<1>10. CASE EditMachineFails(c)
  <2>1. pc[c] = "edit" /\ Undisturbed
    BY <1>10, UndisturbedStep DEF EditMachineFails, SaveConfigFails, Step
  <2> QED
    BY <1>10, <2>1, TornStep DEF EditMachineFails
<1>11. CASE (SaveVmFails(c) \/ EditRejected(c)) /\ Keeps
  <2>1. Undisturbed
    BY <1>11, UndisturbedStep DEF EditRejected, Step
  <2> QED
    BY <1>1, <1>11, <2>1
<1> QED
  BY <1>2, <1>3, <1>4, <1>5, <1>6, <1>7, <1>8, <1>9, <1>10, <1>11 DEF HwStep

\* QEMU's own steps start no process, and a process that serves has KVM.
LEMMA HwHostStep ==
  ASSUME SInv, HwInv, NEW p \in Pids, HwBoots(p) \/ (QemuExits(p) /\ Keeps)
  PROVE  HwInv'
<1> USE DEF SInv, IInv
<1>1. UNCHANGED <<config, saved, load, status, op, pc>> /\ DOMAIN args' = Pids
  BY DEF HwBoots, Keeps, ArgsOfLive, QemuBoots, QemuListens, QemuServes, QemuGivesUp, QemuExits,
     local
<1>2. p \in Live /\ \A q \in Pids \ {p} : qemu'[q] = qemu[q]
  BY DEF HwBoots, QemuBoots, QemuListens, QemuServes, QemuGivesUp, QemuExits, Live, TypeOK
<1>3. \A q \in Live' : q \in Live /\ args'[q] = args[q]
  BY <1>2 DEF Live, HwBoots, Keeps, ArgsOfLive
<1>4. qemu'[p] = "up" => args[p].extras = PlatformArgs(TRUE)
  BY DEF HwBoots, QemuExits, TypeOK
<1>5. InUse
  BY <1>2 DEF InUse
<1>6. (InUse => config # None /\ ~Unpinned)'
  BY <1>1, <1>5 DEF HwInv, Unpinned
<1>7. (\A q \in Live : \E kvm \in BOOLEAN : args[q] = BuildQemuArgs(config, kvm))'
  BY <1>1, <1>3 DEF HwInv
<1>8. (\A q \in Live : qemu[q] = "up" => args[q] = MachineOf(config))'
  <2> SUFFICES ASSUME NEW q \in Live', qemu'[q] = "up"
               PROVE  args'[q] = MachineOf(config)
    BY <1>1 DEF MachineOf
  <2>1. CASE q = p
    <3>1. PICK kvm \in BOOLEAN : args[p] = BuildQemuArgs(config, kvm)
      BY <1>2 DEF HwInv
    <3>2. args[p].extras = PlatformArgs(kvm)
      BY <3>1 DEF BuildQemuArgs
    <3>3. PlatformArgs(kvm) = PlatformArgs(TRUE)
      BY <1>4, <2>1, <3>2
    <3>4. args[p] = MachineOf(config)
      BY <3>1, <3>3 DEF BuildQemuArgs, MachineOf
    <3> QED
      BY <1>3, <2>1, <3>4
  <2>2. CASE q # p
    BY <1>2, <1>3, <2>2 DEF HwInv, Live
  <2> QED
    BY <2>1, <2>2
<1>9. SessionKept' => SessionKept
  BY <1>1 DEF SessionKept, Suspending
<1>10. (SessionKept \/ load \cap Live # {} => saved = MachineOf(config))'
  BY <1>1, <1>3, <1>9 DEF HwInv
<1> QED
  BY <1>1, <1>6, <1>7, <1>8, <1>10 DEF HwInv

LEMMA HwInductive ==
  ASSUME HwSturdy, SInv, SInv', HwInv, [HwNext]_hwVars
  PROVE  HwInv'
<1>1. CASE UNCHANGED hwVars
  BY <1>1 DEF hwVars, vars, disk, extras, local, hardware, HwInv, InUse, SessionKept, Suspending,
     Live, Unpinned
<1>2. ASSUME NEW c \in Cmds, NEW o \in Ops, Issue(c, o), Keeps
      PROVE  HwInv'
  BY <1>2, UndisturbedIssue, KeepsStep DEF Keeps, ArgsOfLive
<1>3. ASSUME NEW c \in Cmds, HwKilled(c)
      PROVE  HwInv'
  <2>1. Undisturbed /\ UNCHANGED <<args, saved>>
    BY <1>3, UndisturbedKilled DEF HwKilled
  <2>2. CASE pc[c] = "edit" \/ Unpinned
    BY <1>3, <2>1, <2>2, TornStep DEF HwKilled, Torn
  <2>3. CASE ~(pc[c] = "edit" \/ Unpinned)
    <3>1. ~Rewrites(c)
      BY <1>3, <2>3 DEF Rewrites, HwKilled, Killed, HwSturdy
    <3> QED
      BY <1>3, <2>1, <3>1, KeepsStep DEF HwKilled, HwInv
  <2> QED
    BY <2>2, <2>3
<1> QED
  BY <1>1, <1>2, <1>3, HwCommandStep, HwHostStep DEF HwNext

LEMMA HwInvariance == HwSturdy /\ HwSpec => []HwInv
<1> SUFFICES ASSUME HwSturdy PROVE HwSpec => []HwInv
  OBVIOUS
<1>1. HwSpec => []SInv
  BY HardwareRefines, SturdyInvariance DEF HwSturdy
<1> QED
  BY <1>1, HwInitially, HwInductive, PTL DEF HwSpec

\* suspend, resume, config set and the pin between them: a QEMU given
\* -loadvm runs on the machine the session was saved under.
THEOREM ResumesOnItsMachineTheorem == HwSturdy /\ HwSpec => []ResumesOnItsMachine
<1>2. HwSturdy => Sturdy
  BY DEF HwSturdy
<1>1. SInv /\ HwInv => ResumesOnItsMachine
  BY DEF SInv, IInv, TypeOK, HwInv, ResumesOnItsMachine, Live
<1> QED
  BY <1>1, <1>2, HwInvariance, HardwareRefines, SturdyInvariance, PTL

\* Whatever fails or is killed, but for a kill or a failure inside the write of
\* `agv forward`, the configuration of a suspended VM stays readable, pinned and
\* the one its session needs.
THEOREM SuspendedKeepsItsMachineTheorem == HwSturdy /\ HwSpec => []SuspendedKeepsItsMachine
<1>1. HwInv => SuspendedKeepsItsMachine
  BY DEF HwInv, SuspendedKeepsItsMachine, InUse, SessionKept
<1> QED
  BY <1>1, HwInvariance, PTL
=============================================================================
