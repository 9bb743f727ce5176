----------------------------- MODULE AvfVmProofs -----------------------------
(***************************************************************************)
(* No command loses a runner, and the disk a VM boots from is the newest,  *)
(* for every set of process ids, as long as no start is killed between the *)
(* spawn of its runner and the status it writes last, and no `agv forward` *)
(* or `agv config set` while it saves the config.  A migration may be      *)
(* killed anywhere.                                                        *)
(***************************************************************************)
EXTENDS AvfVm, TLAPS

\* the initial state
LEMMA InitIInv == Init => IInv
<1> SUFFICES ASSUME Init PROVE IInv
  OBVIOUS
<1> USE RunnersAssumption DEF Init
<1>1. TypeOK
  BY DEF TypeOK, NoDisk, Phases, Statuses, Ops, Points
<1>2. Accounted /\ Holds
  BY DEF Accounted, Holds, Live
<1>3. DisksHeld /\ DiskIsNewest
  BY DEF DisksHeld, DiskIsNewest, Booting, Ending, Migrating
<1> QED
  BY <1>1, <1>2, <1>3 DEF IInv

\* SIGTERM: the process is gone, or its guest was asked, or is ending; the others go on
LEMMA TerminatedFacts ==
  ASSUME TypeOK, NEW r \in Runners, Terminated(r)
  PROVE  /\ phase' \in [Runners -> Phases] /\ asked' \subseteq Runners
         /\ Live' \subseteq Live
         /\ r \in Live' => r \in asked' \/ phase'[r] = "ending"
         /\ \A q \in Live' : q # r => phase'[q] = phase[q] /\ (q \in asked <=> q \in asked')
<1> USE DEF TypeOK, Terminated, Gone, Become, StopRequested, Bound, Phases, Live
<1>1. CASE phase[r] \in {"loading", "starting"} /\ Gone(r)
  BY <1>1
<1>2. CASE phase[r] # "loading" /\ StopRequested(r)
  BY <1>2
<1> QED
  BY <1>1, <1>2

\* a step of a runner
LEMMA RunnerKeeps ==
  ASSUME IInv, NEW r \in Runners, RunnerStep(r), UNCHANGED backendVars
  PROVE  IInv'
<1> USE RunnersAssumption DEF backendVars, command, disks, IInv, Gone, Become
<1>1. TypeOK'
  BY DEF TypeOK, RunnerStep, Bind, LoadFails, Boot, GuestEnds, Vanished, StopForced, Exit, Crash,
         Bound, Phases
<1>2. /\ Live' \subseteq Live
      /\ \A q \in Live' : Told(q) => Told(q)'
  BY DEF TypeOK, RunnerStep, Bind, LoadFails, Boot, GuestEnds, Vanished, StopForced, Exit, Crash,
         Bound, Phases, Live, Told
<1>3. Accounted'
  BY <1>2 DEF Accounted, Tracked, Live
<1>4. Holds'
  BY <1>2 DEF Holds
<1>5. DisksHeld' /\ DiskIsNewest'
  BY DEF DisksHeld, DiskIsNewest, DiskOf
<1> QED
  BY <1>1, <1>3, <1>4, <1>5

\* a command begins, or a listing or a cleanup is all of it
LEMMA IssueKeeps ==
  ASSUME IInv,
         Issue
  PROVE  IInv'
<1> USE RunnersAssumption DEF backendVars, runnerVars, command, disks, IInv
<1>1. CASE \E b \in {"qemu", "avf"}, boot \in BOOLEAN : Create(b, boot)
  <2>1. TypeOK'
    <3>1. op' \in Ops /\ pc' \in Points
      BY <1>1 DEF TypeOK, Ops, Points, Create, StartCommand
    <3>2. /\ phase' \in [Runners -> Phases] /\ asked' \subseteq Runners
          /\ socket' \in Runners \cup {None} /\ present' \in BOOLEAN
          /\ status' \in Statuses /\ pidFile' \in Runners \cup {None}
          /\ pid' \in Runners \cup {None} /\ abandoned' \subseteq Runners
          /\ backend' \in {"qemu", "avf"} /\ torn' \in BOOLEAN
          /\ disk' \in [{"qcow2", "raw"} -> {"none", "part", "whole"}]
          /\ newest' \subseteq {"qcow2", "raw"}
      BY <1>1 DEF TypeOK, Statuses, Create, DiskOf, NoDisk
    <3> QED BY <3>1, <3>2 DEF TypeOK
  <2>2. Accounted'
    BY <1>1 DEF TypeOK, Accounted, Holds, DisksHeld, Told, Tracked, Live, Fragile, Starting, Booting,
       Ending, Migrating, Create, StartCommand, DiskOf, NoDisk
  <2>3. Holds'
    BY <1>1 DEF TypeOK, Accounted, Holds, Told, Tracked, Live, Fragile, Starting, Points, Create,
       StartCommand, DiskOf, NoDisk
  <2>4. DisksHeld' /\ DiskIsNewest'
    BY <1>1 DEF TypeOK, Holds, DisksHeld, DiskIsNewest, Booting, Ending, Migrating, Create,
       StartCommand, DiskOf, NoDisk
  <2> QED
    BY <2>1, <2>2, <2>3, <2>4
<1>2. CASE List
  <2>1. TypeOK'
    BY <1>2 DEF TypeOK, Phases, Statuses, Ops, Points, List, Reconciled, Reconcile, Alive
  <2>2. Accounted'
    BY <1>2 DEF TypeOK, Accounted, Holds, DisksHeld, Told, Tracked, Live, Fragile, Starting, Booting,
       Ending, Migrating, List, Reconciled, Reconcile, Alive
  <2>3. Holds'
    BY <1>2 DEF TypeOK, Accounted, Holds, Told, Tracked, Live, Fragile, Starting, Points, List,
       Reconciled, Reconcile, Alive
  <2>4. DisksHeld' /\ DiskIsNewest'
    BY <1>2 DEF TypeOK, Holds, DisksHeld, DiskIsNewest, Booting, Ending, Migrating, List,
       Reconciled, Reconcile, Alive, DiskOf
  <2> QED
    BY <2>1, <2>2, <2>3, <2>4
<1>3. CASE Start
  <2>1. TypeOK'
    BY <1>3 DEF TypeOK, Phases, Statuses, Ops, Points, Start, StartCommand, Reconciled,
       Reconcile, Alive
  <2>2. Accounted'
    BY <1>3 DEF TypeOK, Accounted, Holds, DisksHeld, Told, Tracked, Live, Fragile, Starting, Booting,
       Ending, Migrating, Start, StartCommand, Reconciled, Reconcile, Alive
  <2>3. Holds'
    BY <1>3 DEF TypeOK, Accounted, Holds, Told, Tracked, Live, Fragile, Starting, Points, Start,
       StartCommand, Reconciled, Reconcile, Alive
  <2>4. DisksHeld' /\ DiskIsNewest'
    BY <1>3 DEF TypeOK, Holds, DisksHeld, DiskIsNewest, Booting, Ending, Migrating, Start,
       StartCommand, Reconciled, Reconcile, Alive, DiskOf
  <2> QED
    BY <2>1, <2>2, <2>3, <2>4
<1>4. CASE Retry
  <2>1. TypeOK'
    BY <1>4 DEF TypeOK, Phases, Statuses, Ops, Points, Retry, StartCommand, Alive
  <2>2. Accounted'
    BY <1>4 DEF TypeOK, Accounted, Holds, DisksHeld, Told, Tracked, Live, Fragile, Starting, Booting,
       Ending, Migrating, Retry, StartCommand, Alive
  <2>3. Holds'
    BY <1>4 DEF TypeOK, Accounted, Holds, Told, Tracked, Live, Fragile, Starting, Points, Retry,
       StartCommand, Alive
  <2>4. DisksHeld' /\ DiskIsNewest'
    BY <1>4 DEF TypeOK, Holds, DisksHeld, DiskIsNewest, Booting, Ending, Migrating, Retry,
       StartCommand, Alive, DiskOf
  <2> QED
    BY <2>1, <2>2, <2>3, <2>4
<1>5. CASE Destroy
  <2>1. TypeOK'
    BY <1>5 DEF TypeOK, Phases, Statuses, Ops, Points, Destroy, StartCommand, Alive, Reconciled,
       Reconcile
  <2>2. Accounted'
    BY <1>5 DEF TypeOK, Accounted, Holds, DisksHeld, Told, Tracked, Live, Fragile, Starting, Booting,
       Ending, Migrating, Destroy, StartCommand, Alive, Reconciled, Reconcile
  <2>3. Holds'
    BY <1>5 DEF TypeOK, Holds, DisksHeld, Live, Destroy,
       StartCommand, Alive, Reconciled, Reconcile
  <2>4. DisksHeld' /\ DiskIsNewest'
    BY <1>5 DEF TypeOK, Holds, DisksHeld, DiskIsNewest, Booting, Ending, Migrating, Destroy,
       StartCommand, Alive, Reconciled, Reconcile, DiskOf
  <2> QED
    BY <2>1, <2>2, <2>3, <2>4
<1>6. CASE Migrate
  <2>1. TypeOK'
    BY <1>6 DEF TypeOK, Phases, Statuses, Ops, Points, Migrate, StartCommand
  <2>2. Accounted'
    BY <1>6 DEF TypeOK, Accounted, Holds, DisksHeld, Told, Tracked, Live, Fragile, Starting, Booting,
       Ending, Migrating, Migrate, StartCommand
  <2>3. Holds'
    BY <1>6 DEF TypeOK, Accounted, Holds, Told, Tracked, Live, Fragile, Starting, Points, Migrate,
       StartCommand
  <2>4. DisksHeld' /\ DiskIsNewest'
    BY <1>6 DEF TypeOK, Holds, DisksHeld, DiskIsNewest, Booting, Ending, Migrating, Migrate,
       StartCommand, DiskOf
  <2> QED
    BY <2>1, <2>2, <2>3, <2>4
<1>7. CASE Cleanup
  <2>1. TypeOK'
    BY <1>7 DEF TypeOK, Phases, Statuses, Ops, Points, Cleanup, Other, Sweep, Alive, Reconciled,
       Reconcile
  <2>2. Accounted'
    BY <1>7 DEF TypeOK, Accounted, Holds, DisksHeld, Told, Tracked, Live, Fragile, Starting, Booting,
       Ending, Migrating, Cleanup, Other, Sweep, Alive, Reconciled, Reconcile
  <2>3. Holds'
    BY <1>7 DEF TypeOK, Accounted, Holds, Told, Tracked, Live, Fragile, Starting, Points, Cleanup, Other,
       Sweep, Alive, Reconciled, Reconcile
  <2>4. DisksHeld' /\ DiskIsNewest'
    BY <1>7 DEF TypeOK, Holds, DisksHeld, DiskIsNewest, Booting, Ending, Migrating, Cleanup,
       Other, Sweep, Alive, Reconciled, Reconcile, DiskOf
  <2> QED
    BY <2>1, <2>2, <2>3, <2>4
<1>8. CASE \E o \in {"stop", "force_stop"} : Stop(o)
  <2>1. TypeOK'
    BY <1>8 DEF TypeOK, Phases, Statuses, Ops, Points, Stop, StartCommand, Reconciled, Alive
  <2>2. Accounted'
    BY <1>8 DEF TypeOK, Accounted, Holds, DisksHeld, Told, Tracked, Live, Fragile, Starting, Booting,
       Ending, Migrating, Stop, StartCommand, Reconciled, Alive
  <2>3. Holds'
    BY <1>8 DEF TypeOK, Accounted, Holds, Told, Tracked, Live, Fragile, Starting, Points, Stop,
       StartCommand, Reconciled, Alive
  <2>4. DisksHeld' /\ DiskIsNewest'
    BY <1>8 DEF TypeOK, Holds, DisksHeld, DiskIsNewest, Booting, Ending, Migrating, Stop,
       StartCommand, Reconciled, Alive, DiskOf
  <2> QED
    BY <2>1, <2>2, <2>3, <2>4
<1>9. CASE Edit
  <2>1. TypeOK'
    BY <1>9 DEF TypeOK, Phases, Statuses, Ops, Points, Edit, StartCommand
  <2>2. Accounted'
    BY <1>9 DEF TypeOK, Accounted, Holds, DisksHeld, Told, Tracked, Live, Fragile, Starting, Booting,
       Ending, Migrating, Edit, StartCommand
  <2>3. Holds'
    BY <1>9 DEF TypeOK, Accounted, Holds, Told, Tracked, Live, Fragile, Starting, Points, Edit,
       StartCommand
  <2>4. DisksHeld' /\ DiskIsNewest'
    BY <1>9 DEF TypeOK, Holds, DisksHeld, DiskIsNewest, Booting, Ending, Migrating, Edit,
       StartCommand, DiskOf
  <2> QED
    BY <2>1, <2>2, <2>3, <2>4
<1> QED
  BY <1>1, <1>2, <1>3, <1>4, <1>5, <1>6, <1>7, <1>8, <1>9 DEF Issue

\* a step of a boot
LEMMA BootKeeps ==
  ASSUME IInv,
         \/ WriteRunnerConfig
         \/ ClearSocket
         \/ SpawnFails
         \/ WritePid
         \/ \E r \in Runners : Spawn(r)
         \/ AwaitSocket
         \/ AwaitRunning
         \/ GiveUp
         \/ Unpid
         \/ Record
         \/ AwaitSsh
         \/ MarkBroken
  PROVE  IInv'
<1> USE RunnersAssumption DEF backendVars, runnerVars, command, disks, IInv
<1>1. CASE WriteRunnerConfig
  <2>1. TypeOK'
    BY <1>1 DEF TypeOK, Phases, Statuses, Ops, Points, WriteRunnerConfig, Goto
  <2>2. Accounted'
    BY <1>1 DEF TypeOK, Accounted, Holds, DisksHeld, Told, Tracked, Live, Fragile, Starting, Booting,
       Ending, Migrating, WriteRunnerConfig, Goto
  <2>3. Holds'
    BY <1>1 DEF TypeOK, Accounted, Holds, Told, Tracked, Live, Fragile, Starting, Points,
       WriteRunnerConfig, Goto
  <2>4. DisksHeld' /\ DiskIsNewest'
    BY <1>1 DEF TypeOK, Holds, DisksHeld, DiskIsNewest, Booting, Ending, Migrating,
       WriteRunnerConfig, Goto, DiskOf
  <2> QED
    BY <2>1, <2>2, <2>3, <2>4
<1>2. CASE ClearSocket
  <2>1. TypeOK'
    BY <1>2 DEF TypeOK, Phases, Statuses, Ops, Points, ClearSocket, Goto
  <2>2. Accounted'
    BY <1>2 DEF TypeOK, Accounted, Holds, DisksHeld, Told, Tracked, Live, Fragile, Starting, Booting,
       Ending, Migrating, ClearSocket, Goto
  <2>3. Holds'
    BY <1>2 DEF TypeOK, Accounted, Holds, Told, Tracked, Live, Fragile, Starting, Points, ClearSocket, Goto
  <2>4. DisksHeld' /\ DiskIsNewest'
    BY <1>2 DEF TypeOK, Holds, DisksHeld, DiskIsNewest, Booting, Ending, Migrating, ClearSocket,
       Goto, DiskOf
  <2> QED
    BY <2>1, <2>2, <2>3, <2>4
<1>3. CASE SpawnFails
  <2>1. TypeOK'
    BY <1>3 DEF TypeOK, Phases, Statuses, Ops, Points, SpawnFails, Goto, Finish
  <2>2. Accounted'
    BY <1>3 DEF TypeOK, Accounted, Holds, DisksHeld, Told, Tracked, Live, Fragile, Starting, Booting,
       Ending, Migrating, SpawnFails, Goto, Finish
  <2>3. Holds'
    BY <1>3 DEF TypeOK, Accounted, Holds, Told, Tracked, Live, Fragile, Starting, Points, SpawnFails,
       Goto, Finish
  <2>4. DisksHeld' /\ DiskIsNewest'
    BY <1>3 DEF TypeOK, Holds, DisksHeld, DiskIsNewest, Booting, Ending, Migrating, SpawnFails,
       Goto, Finish, DiskOf
  <2> QED
    BY <2>1, <2>2, <2>3, <2>4
<1>4. CASE WritePid
  <2>1. TypeOK'
    BY <1>4 DEF TypeOK, Phases, Statuses, Ops, Points, WritePid, Goto
  <2>2. Accounted'
    BY <1>4 DEF TypeOK, Accounted, Holds, DisksHeld, Told, Tracked, Live, Fragile, Starting, Booting,
       Ending, Migrating, WritePid, Goto
  <2>3. Holds'
    BY <1>4 DEF TypeOK, Accounted, Holds, Told, Tracked, Live, Fragile, Starting, Points, WritePid, Goto
  <2>4. DisksHeld' /\ DiskIsNewest'
    BY <1>4 DEF TypeOK, Holds, DisksHeld, DiskIsNewest, Booting, Ending, Migrating, WritePid,
       Goto, DiskOf
  <2> QED
    BY <2>1, <2>2, <2>3, <2>4
<1>5. CASE \E r \in Runners : Spawn(r)
  <2>1. TypeOK'
    BY <1>5 DEF TypeOK, Phases, Statuses, Ops, Points, Spawn, Become
  <2>2. Accounted'
    BY <1>5 DEF TypeOK, Accounted, Holds, DisksHeld, Told, Tracked, Live, Fragile, Starting, Booting,
       Ending, Migrating, Spawn, Become
  <2>3. Holds'
    BY <1>5 DEF TypeOK, Accounted, Holds, Told, Tracked, Live, Fragile, Starting, Points, Spawn, Become
  <2>4. DisksHeld' /\ DiskIsNewest'
    BY <1>5 DEF TypeOK, Holds, DisksHeld, DiskIsNewest, Booting, Ending, Migrating, Spawn,
       Become, DiskOf
  <2> QED
    BY <2>1, <2>2, <2>3, <2>4
<1>6. CASE AwaitSocket
  <2>1. TypeOK'
    BY <1>6 DEF TypeOK, Phases, Statuses, Ops, Points, AwaitSocket, Goto
  <2>2. Accounted'
    BY <1>6 DEF TypeOK, Accounted, Holds, DisksHeld, Told, Tracked, Live, Fragile, Starting, Booting,
       Ending, Migrating, AwaitSocket, Goto
  <2>3. Holds'
    BY <1>6 DEF TypeOK, Accounted, Holds, Told, Tracked, Live, Fragile, Starting, Points, AwaitSocket, Goto
  <2>4. DisksHeld' /\ DiskIsNewest'
    BY <1>6 DEF TypeOK, Holds, DisksHeld, DiskIsNewest, Booting, Ending, Migrating, AwaitSocket,
       Goto, DiskOf
  <2> QED
    BY <2>1, <2>2, <2>3, <2>4
<1>7. CASE AwaitRunning
  <2>1. TypeOK'
    BY <1>7 DEF TypeOK, Phases, Statuses, Ops, Points, AwaitRunning, Goto, Answers
  <2>2. Accounted'
    BY <1>7 DEF TypeOK, Accounted, Holds, DisksHeld, Told, Tracked, Live, Fragile, Starting, Booting,
       Ending, Migrating, AwaitRunning, Goto, Answers
  <2>3. Holds'
    BY <1>7 DEF TypeOK, Accounted, Holds, Told, Tracked, Live, Fragile, Starting, Points, AwaitRunning,
       Goto, Answers
  <2>4. DisksHeld' /\ DiskIsNewest'
    BY <1>7 DEF TypeOK, Holds, DisksHeld, DiskIsNewest, Booting, Ending, Migrating,
       AwaitRunning, Goto, Answers, DiskOf
  <2> QED
    BY <2>1, <2>2, <2>3, <2>4
<1>8. CASE GiveUp
  <2> pid \in Runners /\ Terminated(pid)
    BY <1>8 DEF GiveUp, TypeOK, Holds
  <2>1. TypeOK'
    BY <1>8, TerminatedFacts DEF TypeOK, Points, GiveUp, Goto
  <2>2. Accounted'
    BY <1>8, TerminatedFacts DEF TypeOK, Accounted, Holds, Told, Tracked, Fragile, Starting, GiveUp, Goto
  <2>3. Holds'
    BY <1>8, TerminatedFacts DEF TypeOK, Holds, Told, Points, GiveUp, Goto
  <2>4. DisksHeld' /\ DiskIsNewest'
    BY <1>8 DEF TypeOK, Holds, DisksHeld, DiskIsNewest, DiskOf, Booting, Ending, Migrating,
       GiveUp, Goto
  <2> QED
    BY <2>1, <2>2, <2>3, <2>4
<1>9. CASE Unpid
  <2>1. TypeOK'
    BY <1>9 DEF TypeOK, Phases, Statuses, Ops, Points, Unpid, Goto, Finish
  <2>2. Accounted'
    BY <1>9 DEF TypeOK, Accounted, Holds, DisksHeld, Told, Tracked, Live, Fragile, Starting, Booting,
       Ending, Migrating, Unpid, Goto, Finish
  <2>3. Holds'
    BY <1>9 DEF TypeOK, Accounted, Holds, Told, Tracked, Live, Fragile, Starting, Points, Unpid, Goto,
       Finish
  <2>4. DisksHeld' /\ DiskIsNewest'
    BY <1>9 DEF TypeOK, Holds, DisksHeld, DiskIsNewest, Booting, Ending, Migrating, Unpid, Goto,
       Finish, DiskOf
  <2> QED
    BY <2>1, <2>2, <2>3, <2>4
<1>10. CASE Record
  <2>1. TypeOK'
    BY <1>10 DEF TypeOK, Phases, Statuses, Ops, Points, Record, Goto
  <2>2. Accounted'
    BY <1>10 DEF TypeOK, Accounted, Holds, DisksHeld, Told, Tracked, Live, Fragile, Starting, Booting,
       Ending, Migrating, Record, Goto
  <2>3. Holds'
    BY <1>10 DEF TypeOK, Accounted, Holds, Told, Tracked, Live, Fragile, Starting, Points, Record, Goto
  <2>4. DisksHeld' /\ DiskIsNewest'
    BY <1>10 DEF TypeOK, Holds, DisksHeld, DiskIsNewest, Booting, Ending, Migrating, Record,
       Goto, DiskOf
  <2> QED
    BY <2>1, <2>2, <2>3, <2>4
<1>11. CASE AwaitSsh
  <2>1. TypeOK'
    BY <1>11 DEF TypeOK, Phases, Statuses, Ops, Points, AwaitSsh, Goto, Finish
  <2>2. Accounted'
    BY <1>11 DEF TypeOK, Accounted, Holds, DisksHeld, Told, Tracked, Live, Fragile, Starting, Booting,
       Ending, Migrating, AwaitSsh, Goto, Finish
  <2>3. Holds'
    BY <1>11 DEF TypeOK, Accounted, Holds, Told, Tracked, Live, Fragile, Starting, Points, AwaitSsh, Goto,
       Finish
  <2>4. DisksHeld' /\ DiskIsNewest'
    BY <1>11 DEF TypeOK, Holds, DisksHeld, DiskIsNewest, Booting, Ending, Migrating, AwaitSsh,
       Goto, Finish, DiskOf
  <2> QED
    BY <2>1, <2>2, <2>3, <2>4
<1>12. CASE MarkBroken
  <2>1. TypeOK'
    BY <1>12 DEF TypeOK, Phases, Statuses, Ops, Points, MarkBroken, Finish
  <2>2. Accounted'
    BY <1>12 DEF TypeOK, Accounted, Holds, DisksHeld, Told, Tracked, Live, Fragile, Starting, Booting,
       Ending, Migrating, MarkBroken, Finish
  <2>3. Holds'
    BY <1>12 DEF TypeOK, Accounted, Holds, Told, Tracked, Live, Fragile, Starting, Points, MarkBroken,
       Finish
  <2>4. DisksHeld' /\ DiskIsNewest'
    BY <1>12 DEF TypeOK, Holds, DisksHeld, DiskIsNewest, Booting, Ending, Migrating, MarkBroken,
       Finish, DiskOf
  <2> QED
    BY <2>1, <2>2, <2>3, <2>4
<1> QED
  BY <1>1, <1>2, <1>3, <1>4, <1>5, <1>6, <1>7, <1>8, <1>9, <1>10, <1>11, <1>12

\* a step of a stop or a destroy
LEMMA EndKeeps ==
  ASSUME IInv,
         \/ Rpc
         \/ AwaitExit
         \/ Terminate
         \/ KillRunner
         \/ Forget
         \/ Settle
         \/ RemoveDir
  PROVE  IInv'
<1> USE RunnersAssumption DEF backendVars, runnerVars, command, disks, IInv
<1>1. CASE Rpc
  <2>1. TypeOK'
    BY <1>1 DEF TypeOK, Phases, Statuses, Ops, Points, Rpc, Goto, StopRequested, StopForced,
       Answers, Graceful, Bound, Become
  <2>2. Accounted'
    BY <1>1 DEF TypeOK, Accounted, Holds, DisksHeld, Told, Tracked, Live, Fragile, Starting, Booting,
       Ending, Migrating, Rpc, Goto, StopRequested, StopForced, Answers, Graceful, Bound, Become
  <2>3. Holds'
    BY <1>1 DEF TypeOK, Accounted, Holds, Told, Tracked, Live, Fragile, Starting, Points, Rpc, Goto,
       StopRequested, StopForced, Answers, Graceful, Bound, Become
  <2>4. DisksHeld' /\ DiskIsNewest'
    BY <1>1 DEF TypeOK, Holds, DisksHeld, DiskIsNewest, Booting, Ending, Migrating, Rpc, Goto,
       StopRequested, StopForced, Answers, Graceful, Bound, Become, DiskOf
  <2> QED
    BY <2>1, <2>2, <2>3, <2>4
<1>2. CASE AwaitExit
  <2>1. TypeOK'
    BY <1>2 DEF TypeOK, Phases, Statuses, Ops, Points, AwaitExit, Goto
  <2>2. Accounted'
    BY <1>2 DEF TypeOK, Accounted, Holds, DisksHeld, Told, Tracked, Live, Fragile, Starting, Booting,
       Ending, Migrating, AwaitExit, Goto
  <2>3. Holds'
    BY <1>2 DEF TypeOK, Accounted, Holds, Told, Tracked, Live, Fragile, Starting, Points, AwaitExit, Goto
  <2>4. DisksHeld' /\ DiskIsNewest'
    BY <1>2 DEF TypeOK, Holds, DisksHeld, DiskIsNewest, Booting, Ending, Migrating, AwaitExit,
       Goto, DiskOf
  <2> QED
    BY <2>1, <2>2, <2>3, <2>4
<1>3. CASE Terminate
  <2> pid \in Runners /\ Terminated(pid)
    BY <1>3 DEF Terminate, TypeOK, Holds
  <2>1. TypeOK'
    BY <1>3, TerminatedFacts DEF TypeOK, Points, Terminate, Goto
  <2>2. Accounted'
    BY <1>3, TerminatedFacts DEF TypeOK, Accounted, Holds, Told, Tracked, Fragile, Starting, Terminate, Goto
  <2>3. Holds'
    BY <1>3, TerminatedFacts DEF TypeOK, Holds, Told, Points, Terminate, Goto
  <2>4. DisksHeld' /\ DiskIsNewest'
    BY <1>3 DEF TypeOK, Holds, DisksHeld, DiskIsNewest, DiskOf, Booting, Ending, Migrating,
       Terminate, Goto
  <2> QED
    BY <2>1, <2>2, <2>3, <2>4
<1>4. CASE KillRunner
  <2>1. TypeOK'
    <3>1. op' \in Ops /\ pc' \in Points
      BY <1>4 DEF TypeOK, Ops, Points, KillRunner, Goto
    <3>2. /\ phase' \in [Runners -> Phases] /\ asked' \subseteq Runners
          /\ socket' \in Runners \cup {None} /\ present' \in BOOLEAN
          /\ status' \in Statuses /\ pidFile' \in Runners \cup {None}
          /\ pid' \in Runners \cup {None} /\ abandoned' \subseteq Runners
          /\ backend' \in {"qemu", "avf"} /\ torn' \in BOOLEAN
          /\ disk' \in [{"qcow2", "raw"} -> {"none", "part", "whole"}]
          /\ newest' \subseteq {"qcow2", "raw"}
      BY <1>4 DEF TypeOK, Phases, KillRunner, Goto, Killed, Gone, Become
    <3> QED BY <3>1, <3>2 DEF TypeOK
  <2>2. Accounted'
    BY <1>4 DEF TypeOK, Accounted, Holds, DisksHeld, Told, Tracked, Live, Fragile, Starting, Booting,
       Ending, Migrating, KillRunner, Goto, Killed, Gone, Become
  <2>3. Holds'
    BY <1>4 DEF TypeOK, Accounted, Holds, Told, Tracked, Live, Fragile, Starting, Points, KillRunner,
       Goto, Killed, Gone, Become
  <2>4. DisksHeld' /\ DiskIsNewest'
    BY <1>4 DEF TypeOK, Holds, DisksHeld, DiskIsNewest, Booting, Ending, Migrating, KillRunner,
       Goto, Killed, Gone, Become, DiskOf
  <2> QED
    BY <2>1, <2>2, <2>3, <2>4
<1>5. CASE Forget
  <2>1. TypeOK'
    BY <1>5 DEF TypeOK, Phases, Statuses, Ops, Points, Forget, Goto
  <2>2. Accounted'
    BY <1>5 DEF TypeOK, Accounted, Holds, DisksHeld, Told, Tracked, Live, Fragile, Starting, Booting,
       Ending, Migrating, Forget, Goto
  <2>3. Holds'
    BY <1>5 DEF TypeOK, Accounted, Holds, Told, Tracked, Live, Fragile, Starting, Points, Forget, Goto
  <2>4. DisksHeld' /\ DiskIsNewest'
    BY <1>5 DEF TypeOK, Holds, DisksHeld, DiskIsNewest, Booting, Ending, Migrating, Forget,
       Goto, DiskOf
  <2> QED
    BY <2>1, <2>2, <2>3, <2>4
<1>6. CASE Settle
  <2>1. TypeOK'
    BY <1>6 DEF TypeOK, Phases, Statuses, Ops, Points, Settle, Finish
  <2>2. Accounted'
    BY <1>6 DEF TypeOK, Accounted, Holds, DisksHeld, Told, Tracked, Live, Fragile, Starting, Booting,
       Ending, Migrating, Settle, Finish
  <2>3. Holds'
    BY <1>6 DEF TypeOK, Accounted, Holds, Told, Tracked, Live, Fragile, Starting, Points, Settle, Finish
  <2>4. DisksHeld' /\ DiskIsNewest'
    BY <1>6 DEF TypeOK, Holds, DisksHeld, DiskIsNewest, Booting, Ending, Migrating, Settle,
       Finish, DiskOf
  <2> QED
    BY <2>1, <2>2, <2>3, <2>4
<1>7. CASE RemoveDir
  <2>1. TypeOK'
    BY <1>7 DEF TypeOK, Phases, Statuses, Ops, Points, RemoveDir, Finish, NoDisk
  <2>2. Accounted'
    BY <1>7 DEF TypeOK, Accounted, Holds, DisksHeld, Told, Tracked, Live, Fragile, Starting, Booting,
       Ending, Migrating, RemoveDir, Finish, NoDisk
  <2>3. Holds'
    BY <1>7 DEF TypeOK, Accounted, Holds, Told, Tracked, Live, Fragile, Starting, Points, RemoveDir,
       Finish, NoDisk
  <2>4. DisksHeld' /\ DiskIsNewest'
    BY <1>7 DEF TypeOK, Holds, DisksHeld, DiskIsNewest, Booting, Ending, Migrating, RemoveDir,
       Finish, NoDisk, DiskOf
  <2> QED
    BY <2>1, <2>2, <2>3, <2>4
<1> QED
  BY <1>1, <1>2, <1>3, <1>4, <1>5, <1>6, <1>7

\* a step of a migration
LEMMA MigrateKeeps ==
  ASSUME IInv,
         \/ ConvertOpen
         \/ ConvertEnds
         \/ Flip
         \/ FlipEnds
         \/ Drop
  PROVE  IInv'
<1> USE RunnersAssumption DEF backendVars, runnerVars, command, disks, IInv
<1>1. CASE ConvertOpen
  <2>1. TypeOK'
    BY <1>1 DEF TypeOK, Phases, Statuses, Ops, Points, ConvertOpen, Goto
  <2>2. Accounted'
    BY <1>1 DEF TypeOK, Accounted, Holds, DisksHeld, Told, Tracked, Live, Fragile, Starting, Booting,
       Ending, Migrating, ConvertOpen, Goto
  <2>3. Holds'
    BY <1>1 DEF TypeOK, Accounted, Holds, Told, Tracked, Live, Fragile, Starting, Points, ConvertOpen, Goto
  <2>4. DisksHeld' /\ DiskIsNewest'
    BY <1>1 DEF TypeOK, Holds, DisksHeld, DiskIsNewest, Booting, Ending, Migrating, ConvertOpen,
       Goto, DiskOf
  <2> QED
    BY <2>1, <2>2, <2>3, <2>4
<1>2. CASE ConvertEnds
  <2>1. TypeOK'
    BY <1>2 DEF TypeOK, Phases, Statuses, Ops, Points, ConvertEnds, Goto, Finish
  <2>2. Accounted'
    BY <1>2 DEF TypeOK, Accounted, Holds, DisksHeld, Told, Tracked, Live, Fragile, Starting, Booting,
       Ending, Migrating, ConvertEnds, Goto, Finish
  <2>3. Holds'
    BY <1>2 DEF TypeOK, Accounted, Holds, Told, Tracked, Live, Fragile, Starting, Points, ConvertEnds,
       Goto, Finish
  <2>4. DisksHeld' /\ DiskIsNewest'
    BY <1>2 DEF TypeOK, Holds, DisksHeld, DiskIsNewest, Booting, Ending, Migrating, ConvertEnds,
       Goto, Finish, DiskOf
  <2> QED
    BY <2>1, <2>2, <2>3, <2>4
<1>3. CASE Flip
  <2>1. TypeOK'
    <3>1. op' \in Ops /\ pc' \in Points
      BY <1>3 DEF TypeOK, Ops, Points, Flip, Goto, Finish
    <3>2. /\ phase' \in [Runners -> Phases] /\ asked' \subseteq Runners
          /\ socket' \in Runners \cup {None} /\ present' \in BOOLEAN
          /\ status' \in Statuses /\ pidFile' \in Runners \cup {None}
          /\ pid' \in Runners \cup {None} /\ abandoned' \subseteq Runners
          /\ backend' \in {"qemu", "avf"} /\ torn' \in BOOLEAN
          /\ disk' \in [{"qcow2", "raw"} -> {"none", "part", "whole"}]
          /\ newest' \subseteq {"qcow2", "raw"}
      BY <1>3 DEF TypeOK, Flip, Goto, Finish
    <3> QED BY <3>1, <3>2 DEF TypeOK
  <2>2. Accounted'
    BY <1>3 DEF TypeOK, Accounted, Holds, DisksHeld, Told, Tracked, Live, Fragile, Starting, Booting,
       Ending, Migrating, Flip, Goto, Finish
  <2>3. Holds'
    BY <1>3 DEF TypeOK, Accounted, Holds, Told, Tracked, Live, Fragile, Starting, Points, Flip, Goto, Finish
  <2>4. DisksHeld' /\ DiskIsNewest'
    BY <1>3 DEF TypeOK, Holds, DisksHeld, DiskIsNewest, Booting, Ending, Migrating, Flip, Goto,
       Finish, DiskOf
  <2> QED
    BY <2>1, <2>2, <2>3, <2>4
<1>3a. CASE FlipEnds
  <2>1. TypeOK'
    BY <1>3a DEF TypeOK, Phases, Statuses, Ops, Points, FlipEnds, Goto, Finish
  <2>2. Accounted'
    BY <1>3a DEF TypeOK, Accounted, Holds, DisksHeld, Told, Tracked, Live, Fragile, Starting, Booting,
       Ending, Migrating, FlipEnds, Goto, Finish
  <2>3. Holds'
    BY <1>3a DEF TypeOK, Accounted, Holds, Told, Tracked, Live, Fragile, Starting, Points, FlipEnds, Goto, Finish
  <2>4. DisksHeld' /\ DiskIsNewest'
    BY <1>3a DEF TypeOK, Holds, DisksHeld, DiskIsNewest, Booting, Ending, Migrating, FlipEnds, Goto,
       Finish, DiskOf
  <2> QED
    BY <2>1, <2>2, <2>3, <2>4
<1>4. CASE Drop
  <2>1. TypeOK'
    BY <1>4 DEF TypeOK, Phases, Statuses, Ops, Points, Drop, Finish
  <2>2. Accounted'
    BY <1>4 DEF TypeOK, Accounted, Holds, DisksHeld, Told, Tracked, Live, Fragile, Starting, Booting,
       Ending, Migrating, Drop, Finish
  <2>3. Holds'
    BY <1>4 DEF TypeOK, Accounted, Holds, Told, Tracked, Live, Fragile, Starting, Points, Drop, Finish
  <2>4. DisksHeld' /\ DiskIsNewest'
    BY <1>4 DEF TypeOK, Holds, DisksHeld, DiskIsNewest, Booting, Ending, Migrating, Drop,
       Finish, DiskOf
  <2> QED
    BY <2>1, <2>2, <2>3, <2>4
<1> QED
  BY <1>1, <1>2, <1>3, <1>3a, <1>4

\* the QEMU backend at work, and a command that is killed
LEMMA OthersKeep ==
  ASSUME IInv, CrashAt \cap Fragile = {},
         QemuSession \/ EditEnds \/ Interrupt \/ UNCHANGED vars
  PROVE  IInv'
<1> USE RunnersAssumption DEF backendVars, runnerVars, command, disks, IInv
<1>1. CASE QemuSession
  BY <1>1 DEF QemuSession, TypeOK, Accounted, Told, Tracked, Live, Holds, DisksHeld, DiskIsNewest,
     DiskOf, Booting, Ending, Migrating
<1>1a. CASE EditEnds
  <2>1. TypeOK'
    BY <1>1a DEF EditEnds, Finish, TypeOK, Ops, Points
  <2>2. Accounted' /\ Holds'
    BY <1>1a DEF EditEnds, Finish, TypeOK, Accounted, Holds, Told, Tracked, Live, Starting
  <2>3. DisksHeld' /\ DiskIsNewest'
    BY <1>1a DEF EditEnds, Finish, TypeOK, Holds, DisksHeld, DiskIsNewest, DiskOf, Booting, Ending,
       Migrating
  <2> QED
    BY <2>1, <2>2, <2>3
<1>2. CASE Interrupt
  <2>1. TypeOK'
    BY <1>2 DEF Interrupt, Finish, TypeOK, Ops, Points
  <2>2. Accounted' /\ Holds'
    BY <1>2 DEF Interrupt, Finish, TypeOK, Accounted, Holds, Told, Tracked, Live, Fragile, Starting
  <2>3. DisksHeld' /\ DiskIsNewest'
    BY <1>2 DEF Interrupt, Finish, TypeOK, Holds, Fragile, DisksHeld, DiskIsNewest, DiskOf, Booting,
       Ending, Migrating
  <2> QED
    BY <2>1, <2>2, <2>3
<1>3. CASE UNCHANGED vars
  BY <1>3 DEF vars, TypeOK, Accounted, Told, Tracked, Live, Holds, DisksHeld, DiskIsNewest, DiskOf
<1> QED
  BY <1>1, <1>1a, <1>2, <1>3

\* IInv is an invariant: who answers for each runner, what a command knows of the
\* pid it holds, and which disk it works on, if nothing is killed at a fragile point;
\* the save that flips the backend (config.rs save) is none of those.
THEOREM Invariant ==
  ASSUME CrashAt \cap Fragile = {}
  PROVE  Spec => []IInv
<1>1. IInv /\ [Next]_vars => IInv'
  BY RunnerKeeps, IssueKeeps, BootKeeps, EndKeeps, MigrateKeeps, OthersKeep DEF Next, Proceed
<1> QED
  BY <1>1, InitIInv, PTL DEF Spec

\* No stop, destroy, listing or failed start leaves a guest running that no command
\* will find (backend.rs stop, force_stop and the two ways start gives up).
THEOREM NothingLost ==
  ASSUME CrashAt \cap Fragile = {}
  PROVE  Spec => []NoLostRunner
<1>1. IInv => NoLostRunner
  BY RunnersAssumption DEF IInv, TypeOK, Holds, Accounted, NoLostRunner, Fragile, Starting, Live
<1> QED
  BY <1>1, Invariant, PTL

\* Whatever a migration came to, and whatever cleanup swept, the VM boots from a
\* whole disk that has what its guest wrote last; and when the migration was killed in
\* the middle of the save, so that the VM boots from neither, both are whole and have it
\* (mod.rs migrate_to_avf, backend_cleanup; config.rs save).
THEOREM BootsFromNewest ==
  ASSUME CrashAt \cap Fragile = {}
  PROVE  Spec => []DiskIsNewest
<1>1. IInv => DiskIsNewest
  BY DEF IInv
<1> QED
  BY <1>1, Invariant, PTL
=============================================================================
