------------------------- MODULE IdleWatcherProofs -------------------------
(***************************************************************************)
(* Proofs about IdleWatcher for every set of watchers and every threshold, *)
(* under Serial and without Outlive.  IInv is inductive as it stands: its  *)
(* core is that at most one watcher lives at a time and that the pid file  *)
(* names it, so that the command that ends a watcher ends the right one.   *)
(***************************************************************************)
EXTENDS IdleWatcher, FiniteSetTheorems, TLAPS

\* A step of the watcher's loop keeps the invariant.
LEMMA WatcherKeeps ==
  ASSUME Serial, ~Outlive, IInv, NEW w \in Watchers, WatcherStep(w)
  PROVE  IInv'
<1> USE IdleWatcherAssumption DEF IInv, TypeOK, LabelsHold, AloneHolds, ServingHolds,
      SessionHolds, CountHolds, Alive, Serving, Suspending, Labels, Procs, Goto, vm, env, count
<1>1. CASE WritePidFile(w)
  BY <1>1 DEF WritePidFile
<1>2. CASE InstallHandlers(w)
  BY <1>2 DEF InstallHandlers
<1>3. CASE Tick(w)
  BY <1>3 DEF Tick
<1>4. CASE Wake(w)
  BY <1>4 DEF Wake
<1>5. CASE SeeSignal(w)
  BY <1>5 DEF SeeSignal
<1>6. CASE RemoveOwnPidFile(w)
  BY <1>6 DEF RemoveOwnPidFile, Exit
<1>7. CASE Poll(w)
  BY <1>7 DEF Poll, Reconciled
<1>8. CASE ProbeActive(w)
  BY <1>8 DEF ProbeActive
<1>9. CASE ProbeIdle(w)
  BY <1>9 DEF ProbeIdle, CountQuiet
<1>10. CASE ProbeFails(w)
  BY <1>10 DEF ProbeFails
<1>11. CASE HidePidFile(w)
  BY <1>11 DEF HidePidFile
<1>12. CASE SuspendGate(w)
  BY <1>12 DEF SuspendGate, Reconciled
<1>13. CASE RestorePidFile(w)
  BY <1>13 DEF RestorePidFile
<1> QED
  BY <1>1, <1>2, <1>3, <1>4, <1>5, <1>6, <1>7, <1>8, <1>9, <1>10, <1>11, <1>12, <1>13
     DEF WatcherStep

\* So does a step of a teardown, the user's or the watcher's own.
LEMMA SuspendKeeps ==
  ASSUME Serial, ~Outlive, IInv, NEW p \in Procs, Suspend(p)
  PROVE  IInv'
<1> USE IdleWatcherAssumption DEF IInv, TypeOK, LabelsHold, AloneHolds, ServingHolds,
      SessionHolds, CountHolds, Alive, Serving, Suspending, Labels, Procs, Goto, vm, env, count
<1>1. CASE FindNoWatcher(p)
  BY <1>1 DEF FindNoWatcher, AfterStop
<1>2. CASE SignalWatcher(p)
  BY <1>2 DEF SignalWatcher, Signal
<1>3. CASE RemovePidFile(p)
  BY <1>3 DEF RemovePidFile, AfterStop
<1>4. CASE SaveVm(p)
  BY <1>4 DEF SaveVm
<1>5. CASE SaveFails(p)
  BY <1>5 DEF SaveFails, Refusal
<1>6. CASE Quit(p)
  BY <1>6 DEF Quit, GoesDown
<1>7. CASE Record(p)
  BY <1>7 DEF Record, Exit
<1> QED
  BY <1>1, <1>2, <1>3, <1>4, <1>5, <1>6, <1>7 DEF Suspend

\* A VM that is started has no watcher left: one that nobody ended would say
\* that the VM is up.
LEMMA StartKeeps ==
  ASSUME Serial, ~Outlive, IInv, Start
  PROVE  IInv'
<1>1. TypeOK'
  <2> USE IdleWatcherAssumption DEF IInv, TypeOK, Labels, Suspending, Procs, Start,
          MayBegin, Goto, env
  <2>1. status' \in {"running", "stopped", "suspended"}
    OBVIOUS
  <2>2. up' \in BOOLEAN /\ saved' \in BOOLEAN /\ enabled' \in BOOLEAN /\ busy' \in BOOLEAN
    OBVIOUS
  <2>3. pidFile' \in Watchers \cup {None} /\ signalled' \subseteq Watchers
    OBVIOUS
  <2>4. pc' \in [Procs -> Labels]
    OBVIOUS
  <2>5. op' \in {"start", "stop", "suspend"} /\ quiet' \in 0..Threshold
    OBVIOUS
  <2>6. idle' \in [Watchers -> 0..Threshold] /\ probing' \subseteq Watchers
    OBVIOUS
  <2> QED
    BY <2>1, <2>2, <2>3, <2>4, <2>5, <2>6
<1> USE IdleWatcherAssumption DEF IInv, TypeOK, LabelsHold, AloneHolds, ServingHolds,
      SessionHolds, CountHolds, Alive, Serving, Suspending, Labels, Procs, Goto, vm, env, count
<1>2. \A w \in Watchers : ~Alive(w)
  BY DEF Start, MayBegin, Reconciled
<1>3. (LabelsHold /\ AloneHolds /\ ServingHolds)'
  BY <1>2 DEF Start, MayBegin
<1>4. (SessionHolds /\ CountHolds)'
  BY <1>2 DEF Start, MayBegin
<1> QED
  BY <1>1, <1>3, <1>4

\* The other commands, and what the guest does by itself.
LEMMA UserKeeps ==
  ASSUME Serial, ~Outlive, IInv,
         \/ (\E o \in {"stop", "suspend"} : BringDown(o))
         \/ Spawn \/ SpawnFails \/ PowerOff \/ PowerOffFails
         \/ (\E b \in BOOLEAN : SetIdleSuspend(b))
         \/ Activity \/ GuestGoesDown
  PROVE  IInv'
<1> USE IdleWatcherAssumption DEF IInv, TypeOK, LabelsHold, AloneHolds, ServingHolds,
      SessionHolds, CountHolds, Alive, Serving, Suspending, Labels, Procs, Goto, vm, env, count
<1>1. CASE Spawn
  BY <1>1 DEF Spawn
<1>2. CASE SpawnFails
  BY <1>2 DEF SpawnFails
<1>3. CASE PowerOff
  BY <1>3 DEF PowerOff, GoesDown
<1>4. CASE PowerOffFails
  BY <1>4 DEF PowerOffFails
<1>5. CASE Activity
  BY <1>5 DEF Activity
<1>6. CASE GuestGoesDown
  BY <1>6 DEF GuestGoesDown, GoesDown
<1>7. CASE \E o \in {"stop", "suspend"} : BringDown(o)
  BY <1>7 DEF BringDown, MayBegin, Reconciled
<1>8. CASE \E b \in BOOLEAN : SetIdleSuspend(b)
  BY <1>8 DEF SetIdleSuspend, MayBegin, Reconciled
<1> QED
  BY <1>1, <1>2, <1>3, <1>4, <1>5, <1>6, <1>7, <1>8

LEMMA InitInvariant == Init => IInv
<1> SUFFICES ASSUME Init PROVE IInv
  OBVIOUS
<1> USE IdleWatcherAssumption DEF Init, Procs
<1>1. TypeOK
  <2> USE DEF TypeOK, Labels, Suspending
  <2>1. status \in {"running", "stopped", "suspended"}
    OBVIOUS
  <2>2. up \in BOOLEAN /\ saved \in BOOLEAN /\ enabled \in BOOLEAN /\ busy \in BOOLEAN
    OBVIOUS
  <2>3. pidFile \in Watchers \cup {None} /\ signalled \subseteq Watchers
    OBVIOUS
  <2>4. pc \in [Procs -> Labels]
    OBVIOUS
  <2>5. op \in {"start", "stop", "suspend"} /\ quiet \in 0..Threshold
    OBVIOUS
  <2>6. idle \in [Watchers -> 0..Threshold] /\ probing \subseteq Watchers
    OBVIOUS
  <2> QED
    BY <2>1, <2>2, <2>3, <2>4, <2>5, <2>6
<1>2. LabelsHold /\ AloneHolds /\ SessionHolds
  BY DEF LabelsHold, AloneHolds, SessionHolds, Alive, Suspending
<1>3. ServingHolds /\ CountHolds
  BY DEF ServingHolds, CountHolds, Serving, Alive, Suspending
<1> QED
  BY <1>1, <1>2, <1>3 DEF IInv

LEMMA StutterKeeps ==
  ASSUME IInv, UNCHANGED vars
  PROVE  IInv'
  BY DEF IInv, TypeOK, LabelsHold, AloneHolds, ServingHolds, SessionHolds, CountHolds,
     Alive, Serving, vars, vm, env, count

LEMMA StepKeeps ==
  ASSUME Serial, ~Outlive, IInv, [Next]_vars
  PROVE  IInv'
  BY WatcherKeeps, SuspendKeeps, StartKeeps, UserKeeps, StutterKeeps DEF Next

\* At every moment: one watcher lives at a time, and while it serves the pid
\* file names it, its VM runs and asks for one; no status is ahead of the disk
\* and the host; a watcher counts no more idle polls than there were.
THEOREM WatcherInvariance == Serial /\ ~Outlive /\ Spec => []IInv
<1> SUFFICES ASSUME Serial, ~Outlive PROVE Spec => []IInv
  OBVIOUS
<1> QED
  BY InitInvariant, StepKeeps, PTL DEF Spec

-----------------------------------------------------------------------------

LEMMA ServingIsOne == IInv => OneWatcher
<1> SUFFICES ASSUME IInv PROVE OneWatcher
  OBVIOUS
<1>1. CASE Serving = {}
  BY <1>1, FS_EmptySet DEF OneWatcher
<1>2. CASE Serving # {}
  <2> PICK w \in Serving : TRUE
    BY <1>2
  <2>1. Serving = {w}
    BY DEF Serving, IInv, AloneHolds, Alive
  <2> QED
    BY <2>1, FS_Singleton DEF OneWatcher
<1> QED
  BY <1>1, <1>2

\* At most one watcher of a VM is at work, however starts, teardowns and the
\* watcher's own suspend follow each other (idle_watcher::spawn and stop).
THEOREM AtMostOneWatcher == Serial /\ ~Outlive /\ Spec => []OneWatcher
<1> SUFFICES ASSUME Serial, ~Outlive PROVE Spec => []OneWatcher
  OBVIOUS
<1> QED
  BY WatcherInvariance, ServingIsOne, PTL

\* With nothing under way a VM recorded as suspended has its session on disk
\* and no QEMU, and one recorded as stopped has no QEMU.
THEOREM StatusIsTrue == Serial /\ ~Outlive /\ Spec => []StatusHolds
<1>1. IInv => StatusHolds
  BY DEF IInv, SessionHolds, StatusHolds
<1> SUFFICES ASSUME Serial, ~Outlive PROVE Spec => []StatusHolds
  OBVIOUS
<1> QED
  BY <1>1, WatcherInvariance, PTL

\* the one step that begins a watcher's suspend is its gate
LEMMA SuspendIsGated ==
  ASSUME IInv, [Next]_vars, NEW w \in Watchers, BeginsSuspend(w)
  PROVE  quiet = Threshold /\ enabled
  BY DEF BeginsSuspend, IInv, CountHolds, ServingHolds, Alive

\* A watcher suspends a VM only after Threshold idle polls since the boot, the
\* last activity and the last wake of the host.
THEOREM GraceIsGiven == Serial /\ ~Outlive /\ Spec => GraceWindow
<1> SUFFICES ASSUME Serial, ~Outlive PROVE Spec => GraceWindow
  OBVIOUS
<1>1. IInv /\ [Next]_vars =>
        [\A w \in Watchers : BeginsSuspend(w) => quiet = Threshold]_vars
  BY SuspendIsGated
<1> QED
  BY <1>1, WatcherInvariance, PTL DEF Spec, GraceWindow

\* No watcher suspends a VM whose configuration turned the watcher off.
THEOREM DisabledIsKept == Serial /\ ~Outlive /\ Spec => DisabledMeansNever
<1> SUFFICES ASSUME Serial, ~Outlive PROVE Spec => DisabledMeansNever
  OBVIOUS
<1>1. IInv /\ [Next]_vars =>
        [\A w \in Watchers : BeginsSuspend(w) => enabled]_vars
  BY SuspendIsGated
<1> QED
  BY <1>1, WatcherInvariance, PTL DEF Spec, DisabledMeansNever
=============================================================================
