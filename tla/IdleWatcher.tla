---------------------------- MODULE IdleWatcher ----------------------------
(***************************************************************************)
(* The idle watchers of one VM: detached processes that poll the guest     *)
(* once a minute and suspend the VM after Threshold idle polls in a row.   *)
(* A start spawns one; a stop or suspend ends it through the pid in        *)
(* idle_watcher.pid, which each watcher writes and removes by itself.      *)
(* SIGTERM is looked at between two polls and nowhere else.                *)
(*                                                                         *)
(* Abstractions.  The VM is its recorded status, whether its QEMU is up    *)
(* and whether the disk holds a session to resume; VmLifecycle has the     *)
(* commands step by step.  A boot succeeds, a reconcile is one step, and   *)
(* time is the sequence of polls.  An SSH probe that has been started ends *)
(* with the QEMU it talks to.  The user runs one command at a time.        *)
(* Serial is the contract of locks.rs with the watcher's own suspend       *)
(* counted as a command: nothing in the code enforces it.                  *)
(***************************************************************************)
EXTENDS Naturals, FiniteSets

CONSTANTS
    Watchers,        \* processes that may be watchers
    User,            \* the user's command
    None,
    Threshold,       \* idle_suspend_minutes, in polls, when it is not 0
    Serial,          \* commands and suspends by a watcher do not overlap
    Outlive          \* may QEMU exit by itself while it has a watcher or is given one

ASSUME IdleWatcherAssumption ==
    /\ User \notin Watchers
    /\ None \notin Watchers
    /\ Threshold \in Nat \ {0}
    /\ Serial \in BOOLEAN
    /\ Outlive \in BOOLEAN

Procs == Watchers \cup {User}

VARIABLES
    status,     \* the status file
    up,         \* a QEMU runs the guest
    saved,      \* the disk has a session to resume
    enabled,    \* idle_suspend_minutes in config.toml is not 0
    busy,       \* somebody is logged in, or the load is high
    pidFile,    \* idle_watcher.pid
    pc,
    op,         \* what the user's command does
    signalled,  \* the watchers with a SIGTERM they have not looked at
    idle,       \* per watcher: idle_secs, in polls
    probing,    \* the watchers whose probe still has a guest to talk to
    quiet       \* history: idle polls since the last boot, activity or host wake

vm    == <<status, up, saved>>
env   == <<enabled, busy>>
count == <<idle, probing, quiet>>
vars  == <<vm, env, pidFile, pc, op, signalled, count>>

\* vm::suspend, and what a watcher does around it
Suspending == {"unpid", "gate", "wread", "wremove", "save", "quit", "record", "repid"}

Labels == Suspending \cup
    {"idle", "spawn", "power",
     "absent", "new", "unmasked", "sleep", "poll", "probe", "ending"}

TypeOK ==
    /\ status \in {"running", "stopped", "suspended"}
    /\ up \in BOOLEAN /\ saved \in BOOLEAN /\ enabled \in BOOLEAN /\ busy \in BOOLEAN
    /\ pidFile \in Watchers \cup {None}
    /\ pc \in [Procs -> Labels]
    /\ op \in {"start", "stop", "suspend"}
    /\ signalled \subseteq Watchers
    /\ idle \in [Watchers -> 0..Threshold]
    /\ probing \subseteq Watchers
    /\ quiet \in 0..Threshold

\* a VM that has been created and not been started
Init ==
    /\ status = "stopped"
    /\ up = FALSE /\ saved = FALSE /\ enabled = TRUE /\ busy = FALSE
    /\ pidFile = None
    /\ pc = [p \in Procs |-> IF p = User THEN "idle" ELSE "absent"]
    /\ op = "stop"
    /\ signalled = {}
    /\ idle = [w \in Watchers |-> 0]
    /\ probing = {}
    /\ quiet = 0

Goto(p, l) == pc' = [pc EXCEPT ![p] = l]

\* Instance::reconcile_status
Reconciled == IF status = "running" /\ ~up THEN "stopped" ELSE status

\* the watchers that run and that nobody has told to end
Serving == {w \in Watchers : pc[w] # "absent"} \ signalled

\* the watcher's process is over
Exit(w) ==
    /\ Goto(w, "absent")
    /\ signalled' = signalled \ {w}
    /\ idle' = [idle EXCEPT ![w] = 0]

\* QEMU exits, and with it every SSH connection to the guest
GoesDown == up' = FALSE /\ probing' = {}

\* One more idle poll since the VM came up, as far as a watcher can need it.
CountQuiet == quiet' = IF quiet < Threshold THEN quiet + 1 ELSE quiet

\* where a process goes when vm::suspend returns an error
Refusal(p) == IF p = User THEN "idle" ELSE "repid"

\* what follows idle_watcher::stop in spawn, vm::stop and vm::suspend
AfterStop(p) ==
    IF p = User /\ op = "start" THEN "spawn"
    ELSE IF p = User /\ op = "stop" THEN "power" ELSE "save"

-----------------------------------------------------------------------------
(* Faults: each is an operation with one plausible bug in it.              *)

\* stop removes the pid file and signals nobody
SignalFault(w, next) == pc' = next /\ UNCHANGED <<signalled, idle>>

\* the counter survives a host wake
WakeFault(w) ==
    /\ pc[w] = "sleep"
    /\ quiet' = 0
    /\ UNCHANGED <<vm, env, pidFile, pc, op, signalled, idle, probing>>

\* an unanswered probe counts as activity
ProbeFailsFault(w) ==
    /\ pc[w] = "probe"
    /\ idle' = [idle EXCEPT ![w] = 0]
    /\ probing' = probing \ {w}
    /\ Goto(w, "sleep")
    /\ UNCHANGED <<vm, env, pidFile, op, signalled, quiet>>

\* a save that fails is recorded like one that succeeded
SaveFailsFault(p) ==
    /\ pc[p] = "save"
    /\ Goto(p, "record")
    /\ UNCHANGED <<vm, env, pidFile, op, signalled, count>>

\* the setting may be changed on a running VM
SetIdleSuspendFault(b) ==
    /\ pc[User] = "idle"
    /\ enabled' = b
    /\ UNCHANGED <<vm, busy, pidFile, pc, op, signalled, count>>

-----------------------------------------------------------------------------
(* idle_watcher::stop, which spawn and every teardown run                  *)

\* SIGTERM ends a watcher that has not installed its handlers; another one
\* looks at it in its next sleep.
Signal(w, next) ==
    IF pc[w] = "unmasked"
    THEN /\ pc' = [next EXCEPT ![w] = "absent"]
         /\ idle' = [idle EXCEPT ![w] = 0]
         /\ UNCHANGED signalled
    ELSE /\ pc' = next
         /\ signalled' = signalled \cup ({w} \cap Serving)
         /\ UNCHANGED idle

\* no pid file: nobody to signal
FindNoWatcher(p) ==
    /\ pc[p] = "wread"
    /\ pidFile = None
    /\ Goto(p, AfterStop(p))
    /\ UNCHANGED <<vm, env, pidFile, op, signalled, count>>

SignalWatcher(p) ==
    /\ pc[p] = "wread"
    /\ pidFile # None
    /\ Signal(pidFile, [pc EXCEPT ![p] = "wremove"])
    /\ UNCHANGED <<vm, env, pidFile, op, probing, quiet>>

RemovePidFile(p) ==
    /\ pc[p] = "wremove"
    /\ pidFile' = None
    /\ Goto(p, AfterStop(p))
    /\ UNCHANGED <<vm, env, op, signalled, count>>

-----------------------------------------------------------------------------
(* vm::suspend from its gate on, by the user or by a watcher               *)

SaveVm(p) ==
    /\ pc[p] = "save"
    /\ up
    /\ saved' = TRUE
    /\ Goto(p, "quit")
    /\ UNCHANGED <<status, up, env, pidFile, op, signalled, count>>

\* QEMU is gone or refuses savevm: an error, and the status is left
SaveFails(p) ==
    /\ pc[p] = "save"
    /\ Goto(p, Refusal(p))
    /\ UNCHANGED <<vm, env, pidFile, op, signalled, count>>

Quit(p) ==
    /\ pc[p] = "quit"
    /\ GoesDown
    /\ Goto(p, "record")
    /\ UNCHANGED <<status, saved, env, pidFile, op, signalled, idle, quiet>>

\* The status is written; a watcher that has suspended its VM is done.
Record(p) ==
    /\ pc[p] = "record"
    /\ status' = IF p = User /\ op = "stop" THEN "stopped" ELSE "suspended"
    /\ IF p = User THEN Goto(p, "idle") /\ UNCHANGED <<signalled, idle>> ELSE Exit(p)
    /\ UNCHANGED <<up, saved, env, pidFile, op, probing, quiet>>

Suspend(p) ==
    \/ FindNoWatcher(p) \/ SignalWatcher(p) \/ RemovePidFile(p)
    \/ SaveVm(p) \/ SaveFails(p) \/ Quit(p) \/ Record(p)

-----------------------------------------------------------------------------
(* The user's commands                                                     *)

\* Serially, no watcher is suspending the VM or is on its way up or out.
MayBegin ==
    /\ pc[User] = "idle"
    /\ Serial =>
        /\ signalled = {}
        /\ \A w \in Watchers : pc[w] \notin Suspending \cup {"new", "unmasked", "ending"}

\* agv start or resume, up to the boot.  A watcher is spawned only if the
\* configuration asks for one.
Start ==
    /\ MayBegin
    /\ Reconciled \in {"stopped", "suspended"}
    /\ status' = "running" /\ up' = TRUE /\ saved' = FALSE
    /\ quiet' = 0
    /\ op' = "start"
    /\ Goto(User, IF enabled THEN "wread" ELSE "idle")
    /\ UNCHANGED <<env, pidFile, signalled, idle, probing>>

\* agv stop and agv suspend, past their gate
BringDown(o) ==
    /\ MayBegin
    /\ Reconciled = "running"
    /\ op' = o
    /\ Goto(User, "wread")
    /\ UNCHANGED <<vm, env, pidFile, signalled, count>>

\* a detached process, which has done nothing yet
Spawn ==
    /\ pc[User] = "spawn"
    /\ \E w \in Watchers :
        /\ pc[w] = "absent"
        /\ pc' = [pc EXCEPT ![User] = "idle", ![w] = "new"]
    /\ UNCHANGED <<vm, env, pidFile, op, signalled, count>>

\* only a warning: the VM runs without a watcher
SpawnFails ==
    /\ pc[User] = "spawn"
    /\ Goto(User, "idle")
    /\ UNCHANGED <<vm, env, pidFile, op, signalled, count>>

\* the guest shuts down or is killed; stop --force also takes one that is gone
PowerOff ==
    /\ pc[User] = "power"
    /\ GoesDown
    /\ Goto(User, "record")
    /\ UNCHANGED <<status, saved, env, pidFile, op, signalled, idle, quiet>>

\* QEMU is gone already: a graceful stop is an error and leaves the status
PowerOffFails ==
    /\ pc[User] = "power"
    /\ ~up
    /\ Goto(User, "idle")
    /\ UNCHANGED <<vm, env, pidFile, op, signalled, count>>

\* agv config set --idle-suspend-minutes, on a stopped VM
SetIdleSuspend(b) ==
    /\ MayBegin
    /\ Reconciled = "stopped"
    /\ status' = "stopped"
    /\ enabled' = b
    /\ UNCHANGED <<up, saved, busy, pidFile, pc, op, signalled, count>>

-----------------------------------------------------------------------------
(* The watcher, idle_watcher::run                                          *)

WritePidFile(w) ==
    /\ pc[w] = "new"
    /\ pidFile' = w
    /\ Goto(w, "unmasked")
    /\ UNCHANGED <<vm, env, op, signalled, count>>

InstallHandlers(w) ==
    /\ pc[w] = "unmasked"
    /\ Goto(w, "sleep")
    /\ UNCHANGED <<vm, env, pidFile, op, signalled, count>>

\* The minute is over.  A signal that is there as well need not win the select.
Tick(w) ==
    /\ pc[w] = "sleep"
    /\ Goto(w, "poll")
    /\ UNCHANGED <<vm, env, pidFile, op, signalled, count>>

\* The host slept too: the user gets the whole grace window again.
Wake(w) ==
    /\ pc[w] = "sleep"
    /\ idle' = [idle EXCEPT ![w] = 0]
    /\ quiet' = 0
    /\ UNCHANGED <<vm, env, pidFile, pc, op, signalled, probing>>

SeeSignal(w) ==
    /\ pc[w] = "sleep"
    /\ w \in signalled
    /\ Goto(w, "ending")
    /\ UNCHANGED <<vm, env, pidFile, op, signalled, count>>

\* whoever the pid file names by now
RemoveOwnPidFile(w) ==
    /\ pc[w] = "ending"
    /\ pidFile' = None
    /\ Exit(w)
    /\ UNCHANGED <<vm, env, op, probing, quiet>>

\* reconcile_status: a VM that is not running resets the count, and no more
Poll(w) ==
    /\ pc[w] = "poll"
    /\ status' = Reconciled
    /\ IF Reconciled = "running"
       THEN /\ probing' = probing \cup {w}
            /\ Goto(w, "probe")
            /\ UNCHANGED idle
       ELSE /\ idle' = [idle EXCEPT ![w] = 0]
            /\ Goto(w, "sleep")
            /\ UNCHANGED probing
    /\ UNCHANGED <<up, saved, env, pidFile, op, signalled, quiet>>

ProbeActive(w) ==
    /\ pc[w] = "probe" /\ w \in probing /\ busy
    /\ idle' = [idle EXCEPT ![w] = 0]
    /\ quiet' = 0
    /\ probing' = probing \ {w}
    /\ Goto(w, "sleep")
    /\ UNCHANGED <<vm, env, pidFile, op, signalled>>

ProbeIdle(w) ==
    /\ pc[w] = "probe" /\ w \in probing /\ ~busy
    /\ Serial /\ idle[w] + 1 >= Threshold => pc[User] = "idle"
    /\ idle' = [idle EXCEPT ![w] = @ + 1]
    /\ CountQuiet
    /\ probing' = probing \ {w}
    /\ Goto(w, IF idle[w] + 1 >= Threshold THEN "unpid" ELSE "sleep")
    /\ UNCHANGED <<vm, env, pidFile, op, signalled>>

\* no SSH, or nothing that parses: unknown, and the count stays
ProbeFails(w) ==
    /\ pc[w] = "probe"
    /\ probing' = probing \ {w}
    /\ Goto(w, "sleep")
    /\ UNCHANGED <<vm, env, pidFile, op, signalled, idle, quiet>>

\* so that vm::suspend does not signal its own caller
HidePidFile(w) ==
    /\ pc[w] = "unpid"
    /\ pidFile' = None
    /\ Goto(w, "gate")
    /\ UNCHANGED <<vm, env, op, signalled, count>>

\* vm::suspend's reconcile and gate
SuspendGate(w) ==
    /\ pc[w] = "gate"
    /\ status' = Reconciled
    /\ Goto(w, IF Reconciled = "running" THEN "wread" ELSE "repid")
    /\ UNCHANGED <<up, saved, env, pidFile, op, signalled, count>>

RestorePidFile(w) ==
    /\ pc[w] = "repid"
    /\ pidFile' = w
    /\ idle' = [idle EXCEPT ![w] = 0]
    /\ Goto(w, "sleep")
    /\ UNCHANGED <<vm, env, op, signalled, probing, quiet>>

WatcherStep(w) ==
    \/ WritePidFile(w) \/ InstallHandlers(w)
    \/ Tick(w) \/ Wake(w) \/ SeeSignal(w) \/ RemoveOwnPidFile(w)
    \/ Poll(w) \/ ProbeActive(w) \/ ProbeIdle(w) \/ ProbeFails(w)
    \/ HidePidFile(w) \/ SuspendGate(w) \/ RestorePidFile(w)

-----------------------------------------------------------------------------
(* The guest                                                               *)

\* somebody logs in or out, load comes and goes
Activity ==
    /\ up
    /\ busy' = ~busy
    /\ UNCHANGED <<vm, enabled, pidFile, pc, op, signalled, count>>

\* a poweroff in the guest, a crash: no watcher is told
GuestGoesDown ==
    /\ up
    /\ \/ Outlive
       \/ Serving = {} /\ ~(op = "start" /\ pc[User] # "idle")
    /\ GoesDown
    /\ UNCHANGED <<status, saved, env, pidFile, pc, op, signalled, idle, quiet>>

Next ==
    \/ Start \/ (\E o \in {"stop", "suspend"} : BringDown(o))
    \/ Spawn \/ SpawnFails \/ PowerOff \/ PowerOffFails
    \/ \E b \in BOOLEAN : SetIdleSuspend(b)
    \/ \E p \in Procs : Suspend(p)
    \/ \E w \in Watchers : WatcherStep(w)
    \/ Activity \/ GuestGoesDown

Spec == Init /\ [][Next]_vars

\* A watcher's loop goes on, a guest that is probed again and again answers at
\* last, and so does a QEMU that is asked to save.
FairSpec ==
    /\ Spec
    /\ \A w \in Watchers :
        /\ WF_vars(WatcherStep(w) \/ Suspend(w))
        /\ SF_vars(ProbeIdle(w))
        /\ SF_vars(SaveVm(w))

-----------------------------------------------------------------------------
(* Properties                                                              *)

\* At most one watcher of the VM is at work: spawn ends the one before.
OneWatcher == Cardinality(Serving) <= 1

\* Whoever brings the VM down, and in whatever order the user and a watcher
\* record it, the status at rest is what the disk and the host say.
StatusHolds ==
    (\A p \in Procs : pc[p] \in {"idle", "absent"}) =>
        /\ status = "suspended" => saved /\ ~up
        /\ status = "stopped" => ~up

BeginsSuspend(w) == pc[w] = "gate" /\ pc'[w] = "wread"

\* A watcher suspends the VM only after Threshold minutes of confirmed
\* idleness of this very boot, since the last activity and the last host wake.
GraceWindow == [][\A w \in Watchers : BeginsSuspend(w) => quiet = Threshold]_vars

\* A VM whose configuration was set to idle_suspend_minutes = 0 is not
\* suspended by a watcher after the next start.
DisabledMeansNever == [][\A w \in Watchers : BeginsSuspend(w) => enabled]_vars

\* a VM nobody uses, with a watcher at work and no command under way
Unused ==
    /\ status = "running" /\ up /\ ~busy
    /\ pc[User] = "idle"
    /\ Serving # {}

\* An unused VM does not stay up, unless the host keeps going to sleep.
UnusedIsSuspended == []<><<\E w \in Watchers : Wake(w)>>_vars \/ []<>~Unused

-----------------------------------------------------------------------------
(* What the properties rest on, with Serial and without Outlive.           *)

Alive(w) == pc[w] # "absent"

\* the labels each process may be at, and what the user is doing there
LabelsHold ==
    /\ pc[User] \in {"idle", "wread", "wremove", "spawn", "power", "save", "quit", "record"}
    /\ pc[User] = "spawn" => op = "start"
    /\ pc[User] = "power" => op = "stop"
    /\ pc[User] \in {"save", "quit"} => op = "suspend"
    /\ pc[User] = "record" => op # "start"
    /\ \A w \in Watchers : pc[w] \notin {"idle", "spawn", "power", "wremove"}

\* One watcher at a time, and none while the user has one started; a
\* command and a watcher that comes up or suspends do not overlap.
AloneHolds ==
    /\ \A v, w \in Watchers : Alive(v) /\ Alive(w) => v = w
    /\ pc[User] # "idle" => \A w \in Watchers : pc[w] \notin Suspending \cup {"new", "unmasked"}
    /\ pc[User] # "idle" /\ op = "start" =>
         enabled /\ up /\ status = "running" /\ \A w \in Watchers : ~Alive(w)

\* A watcher that was not told to end is named by the pid file, but while it
\* suspends the VM itself; and its VM is up and asks for one.
ServingHolds ==
    /\ \A w \in signalled : Alive(w)
    /\ \A w \in Watchers : Alive(w) => enabled
    /\ \A w \in Watchers : pc[w] = "ending" => w \in signalled
    /\ \A w \in Watchers : pc[w] \in Suspending \ {"unpid"} => pidFile = None
    /\ \A w \in Serving :
         /\ pc[User] \in {"idle", "wread"}
         /\ pc[w] \in {"unmasked", "sleep", "poll", "probe", "unpid"} => pidFile = w
         /\ pc[w] # "record" => up /\ status = "running"

\* A saved session stays until the next start, and no status goes ahead of
\* what it says.
SessionHolds ==
    /\ status = "suspended" => saved /\ ~up
    /\ status = "stopped" => ~up
    /\ \A p \in Procs : pc[p] = "quit" => saved
    /\ \A p \in Procs : pc[p] = "record" => ~up
    /\ \A w \in Watchers : pc[w] = "record" => saved
    /\ pc[User] = "record" /\ op = "suspend" => saved

\* A watcher counts no more idle polls than there were.
CountHolds ==
    \A w \in Watchers :
        /\ idle[w] <= quiet
        /\ ~Alive(w) => idle[w] = 0
        /\ pc[w] \notin Suspending => idle[w] < Threshold
        /\ pc[w] \in {"unpid", "gate"} => quiet = Threshold

IInv == TypeOK /\ LabelsHold /\ AloneHolds /\ ServingHolds /\ SessionHolds /\ CountHolds
=============================================================================
