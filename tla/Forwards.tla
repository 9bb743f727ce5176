------------------------------ MODULE Forwards ------------------------------
(***************************************************************************)
(* The port forwards of one VM: the forwards saved in config.toml, the     *)
(* supervisor processes that keep an ssh tunnel open for each forward of   *)
(* this boot, the list of them in forwards.toml, and the <name>_port file  *)
(* of the auto-allocated one.  A supervisor is a process of its own: it    *)
(* outlives the command that spawned it and the VM, and is ended by the    *)
(* pid in forwards.toml or not at all.                                     *)
(*                                                                         *)
(* Abstractions.  A forward is its host port and the addresses it binds    *)
(* (the default is loopback); guest ports tell nothing apart.  The VM is   *)
(* running, broken, being configured, or down (stopped or suspended).      *)
(* Commands come one at a time, as locks.rs asks, and may be killed at any *)
(* point: both files are truncated and rewritten in place, and a kill, or  *)
(* a failure, inside such a write leaves what `torn` and the cuts below    *)
(* say.  The host gives no pid a second time while forwards.toml still has *)
(* it.  At most one auto-forward is configured.                            *)
(***************************************************************************)
EXTENDS FiniteSets, Naturals

CONSTANTS
    Ports, Addrs, Loopback,
    Sups,       \* pids of supervisors
    None,       \* no forward, no port file
    HasAuto,    \* the configuration has an auto-forward
    Named,      \* bound: the forwards that users name
    MaxList     \* bound: how many of them in one command

Labels == {"open", "reap", "ssh", "apply", "auto", "autolist", "autofile",
           "ports", "power", "record", "set",
           "sweep", "persist", "spawn", "list", "kill", "unlist", "unpersist"}

Specs == [host : Ports, binds : (SUBSET Addrs) \ {{}}]

ASSUME ForwardsAssumption ==
    /\ Loopback \in Addrs
    /\ None \notin Specs /\ None \notin Ports
    /\ HasAuto \in BOOLEAN
    /\ Named \subseteq Specs /\ MaxList \in Nat

Origins == {"config", "adhoc", "auto"}

Entries == [spec : Specs, origin : Origins, pid : Sups]

VARIABLES
    status,    \* the status file
    up,        \* the VM's QEMU is alive
    saved,     \* config.toml: the forwards of every boot
    listed,    \* forwards.toml
    runs,      \* the forward each live supervisor is for
    portFile,  \* <name>_port
    torn,      \* of the two files, those that no longer parse
    stray,     \* history: the supervisors that a killed command left behind
    cut,       \* history: a killed write took forwards out of config.toml, this boot
    pc, op, temporary, args,  \* the command and what it was given
    active,    \* its copy of the list
    todo       \* the forwards it has yet to spawn

files == <<saved, listed, portFile, torn>>
sups  == <<runs, stray>>
local == <<op, temporary, args, active, todo>>
vars  == <<status, up, files, sups, cut, pc, local>>

Ops == {"start", "stop", "list", "add", "rm", "reapply", "config_set"}

Live == {p \in Sups : runs[p] # None}

TypeOK ==
    /\ status \in {"running", "broken", "configuring", "down"}
    /\ up \in BOOLEAN
    /\ saved \subseteq Specs
    /\ listed \subseteq Entries
    /\ runs \in [Sups -> Specs \cup {None}]
    /\ portFile \in Ports \cup {None}
    /\ torn \subseteq {"list", "config"}
    /\ stray \subseteq Live
    /\ cut \in BOOLEAN
    /\ pc \in Labels \cup {"idle"}
    /\ op \in Ops
    /\ temporary \in BOOLEAN
    /\ args \subseteq Specs
    /\ active \subseteq Entries
    /\ todo \subseteq Specs

Init ==
    /\ status = "down" /\ up = FALSE
    /\ saved = {} /\ listed = {} /\ portFile = None
    /\ torn = {} /\ stray = {} /\ cut = FALSE
    /\ runs = [p \in Sups |-> None]
    /\ pc = "idle" /\ op = "list" /\ temporary = FALSE
    /\ args = {} /\ active = {} /\ todo = {}

-----------------------------------------------------------------------------

bind_keys(s) == {<<a, s.host>> : a \in s.binds}

Claimed(specs) == UNION {bind_keys(s) : s \in specs}

SpecsOf(entries) == {e.spec : e \in entries}

Conflicts(specs, others) == Claimed(specs) \cap Claimed(others) # {}

\* no two forwards of a list bind the same address and port
validate_unique(specs) ==
    \A s, t \in specs : s # t => bind_keys(s) \cap bind_keys(t) = {}

Hosts(specs) == {s.host : s \in specs}

TakenFault(entries) ==
    IF args = {} THEN entries ELSE {e \in entries : e.spec \in args}

\* the entries that `rm` takes: all of them, or those with a host port named
Taken(entries) ==
    IF args = {} THEN entries ELSE {e \in entries : e.spec.host \in Hosts(args)}

Free(p) == p \notin Live /\ \A e \in listed \cup active : e.pid # p

\* the supervisors that no kill left behind
Ours == Live \ stray

Readable(f) == f \notin torn

KillSupervisors(entries) ==
    /\ runs' = [p \in Sups |-> IF \E e \in entries : e.pid = p THEN None ELSE runs[p]]
    /\ stray' = {p \in stray : \A e \in entries : e.pid # p}

Entry(s, o, p) == [spec |-> s, origin |-> o, pid |-> p]

Goto(l) == pc' = l /\ UNCHANGED <<op, temporary, args>>

\* the command is over and what it held in memory is gone
End ==
    /\ pc' = "idle"
    /\ args' = {} /\ active' = {} /\ todo' = {}
    /\ op' = "list" /\ temporary' = FALSE

\* a running VM whose QEMU is gone
Dead == status = "running" /\ ~up

\* the commands that act, as the status, the files and what they were given
\* stand; the others are refused before they change anything
Accepted ==
    \/ op \in {"start", "config_set"} /\ status \in {"down", "broken"} /\ Readable("config")
    \/ op = "stop" /\ status = "running"
    \/ op = "list" /\ status = "running" /\ Readable("list")
    \/ op = "reapply" /\ status = "running" /\ torn = {}
    \/ /\ op = "add" /\ args # {}
       /\ status # "configuring"
       /\ status = "running" => Readable("list")
       /\ temporary => status = "running"
       /\ temporary \/ (Readable("config") /\ ~Conflicts(args, saved))
    \/ /\ op = "rm"
       /\ status # "configuring"
       /\ status = "running" => Readable("list")
       /\ temporary => status = "running"
       /\ args # {} => Readable("config")
       /\ Hosts(args) \subseteq
            (IF status = "running" THEN Hosts(SpecsOf(listed)) ELSE {})
              \cup (IF temporary THEN {} ELSE Hosts(saved))

Opened(o) == pc = "open" /\ ~Dead /\ Accepted /\ op = o

Issue(o, t, a) ==
    /\ pc = "idle"
    /\ t => o \in {"add", "rm"}
    /\ a # {} => o \in {"add", "rm", "config_set"}
    /\ validate_unique(a)
    /\ pc' = "open" /\ op' = o /\ temporary' = t /\ args' = a
    /\ UNCHANGED <<status, up, files, sups, cut, active, todo>>

\* reconcile_status: the status first ...
OpenDead ==
    /\ pc = "open" /\ Dead
    /\ status' = "down"
    /\ Goto("reap")
    /\ UNCHANGED <<up, files, sups, cut, active, todo>>

\* ... and then the supervisors, without the port files.  Of a list that does
\* not parse nobody is known, nobody killed, and the file stays.
ReapFault ==
    /\ pc = "reap"
    /\ listed' = {}
    /\ Goto("open")
    /\ UNCHANGED <<status, up, saved, portFile, torn, sups, cut, active, todo>>

Reap ==
    /\ pc = "reap"
    /\ KillSupervisors(listed)
    /\ listed' = {}
    /\ Goto("open")
    /\ UNCHANGED <<status, up, saved, portFile, torn, cut, active, todo>>

Refuse ==
    /\ pc = "open" /\ ~Dead /\ ~Accepted
    /\ End
    /\ UNCHANGED <<status, up, files, sups, cut>>

-----------------------------------------------------------------------------
\* start, start --retry and resume

Boot ==
    /\ Opened("start")
    /\ status' = "running" /\ up' = TRUE
    /\ cut' = FALSE
    /\ Goto("ssh")
    /\ UNCHANGED <<files, sups, active, todo>>

\* a start marks the VM broken, a resume leaves it running
SshFails ==
    /\ pc = "ssh"
    /\ status' \in {"broken", "running"}
    /\ End
    /\ UNCHANGED <<up, files, sups, cut>>

\* nothing to apply: what is listed is forgotten, not killed
ApplyNone ==
    /\ pc = "ssh" /\ up
    /\ saved = {}
    /\ listed' = {} /\ torn' = torn \ {"list"}
    /\ Goto("auto")
    /\ UNCHANGED <<status, up, saved, portFile, sups, cut, active, todo>>

ApplySome ==
    /\ pc = "ssh" /\ up
    /\ saved # {}
    /\ KillSupervisors(listed)
    /\ listed' = {} /\ portFile' = None
    /\ todo' = saved
    /\ Goto("apply")
    /\ UNCHANGED <<status, up, saved, torn, cut, active>>

Spawns(s, o, p) ==
    /\ Free(p)
    /\ runs' = [runs EXCEPT ![p] = s]
    /\ active' = active \cup {Entry(s, o, p)}
    /\ UNCHANGED stray

ApplySpawn(s, p) ==
    /\ pc = "apply" /\ s \in todo
    /\ Spawns(s, "config", p)
    /\ todo' = todo \ {s}
    /\ UNCHANGED <<status, up, files, cut, pc, op, temporary, args>>

ApplySpawnFails(s) ==
    /\ pc = "apply" /\ s \in todo
    /\ todo' = todo \ {s}
    /\ UNCHANGED <<status, up, files, sups, cut, pc, op, temporary, args, active>>

ApplyWrite ==
    /\ pc = "apply" /\ todo = {}
    /\ listed' = active /\ torn' = torn \ {"list"}
    /\ active' = {}
    /\ Goto("auto")
    /\ UNCHANGED <<status, up, saved, portFile, sups, cut, todo>>

\* The port is one that a bind test found free.  Any may be: a supervisor
\* listens only once, and while, its ssh is connected.
AutoSpawn(h, p) ==
    /\ pc = "auto" /\ HasAuto
    /\ Readable("list")
    /\ Free(p)
    /\ LET s == [host |-> h, binds |-> {Loopback}] IN
         /\ runs' = [runs EXCEPT ![p] = s]
         /\ active' = listed \cup {Entry(s, "auto", p)}
    /\ Goto("autolist")
    /\ UNCHANGED <<status, up, files, stray, cut, todo>>

\* none is configured, the list does not parse, or there is no port or supervisor
AutoNone ==
    /\ pc = "auto"
    /\ End
    /\ UNCHANGED <<status, up, files, sups, cut>>

AutoList ==
    /\ pc = "autolist"
    /\ listed' = active
    /\ Goto("autofile")
    /\ UNCHANGED <<status, up, saved, portFile, torn, sups, cut, active, todo>>

AutoFile ==
    /\ pc = "autofile"
    /\ \E e \in active : e.origin = "auto" /\ portFile' = e.spec.host
    /\ End
    /\ UNCHANGED <<status, up, saved, listed, torn, sups, cut>>

-----------------------------------------------------------------------------
\* stop and suspend

Teardown ==
    /\ Opened("stop")
    /\ KillSupervisors(listed)
    /\ listed' = {}
    /\ Goto("ports")
    /\ UNCHANGED <<status, up, saved, portFile, torn, cut, active, todo>>

RemovePortFiles ==
    /\ pc = "ports"
    /\ portFile' = None
    /\ Goto("power")
    /\ UNCHANGED <<status, up, saved, listed, torn, sups, cut, active, todo>>

\* which backend to ask is in config.toml
Power ==
    /\ pc = "power" /\ Readable("config")
    /\ up' = FALSE
    /\ Goto("record")
    /\ UNCHANGED <<status, files, sups, cut, active, todo>>

PowerFails ==
    /\ pc = "power"
    /\ End
    /\ UNCHANGED <<status, up, files, sups, cut>>

Record ==
    /\ pc = "record"
    /\ status' = "down"
    /\ End
    /\ UNCHANGED <<up, files, sups, cut>>

-----------------------------------------------------------------------------
\* config set --forwards

BeginSet ==
    /\ Opened("config_set")
    /\ status' = "configuring"
    /\ Goto("set")
    /\ UNCHANGED <<up, files, sups, cut, active, todo>>

SetForwards ==
    /\ pc = "set"
    /\ saved' = args
    /\ status' = "down"
    /\ End
    /\ UNCHANGED <<up, listed, portFile, torn, sups, cut>>

-----------------------------------------------------------------------------
\* agv forward: add, --reapply, --list

BeginAdd ==
    /\ Opened("add")
    /\ Goto(IF status = "running" THEN "sweep" ELSE "persist")
    /\ UNCHANGED <<status, up, files, sups, cut, active, todo>>

BeginReapply ==
    /\ Opened("reapply")
    /\ Goto("sweep")
    /\ UNCHANGED <<status, up, files, sups, cut, active, todo>>

BeginList ==
    /\ Opened("list")
    /\ Goto("sweep")
    /\ UNCHANGED <<status, up, files, sups, cut, active, todo>>

\* what sweep_dead keeps
LiveEntries == {e \in listed : e.pid \in Live}

SweepToList ==
    /\ pc = "sweep" /\ op = "list"
    /\ listed' = LiveEntries
    /\ End
    /\ UNCHANGED <<status, up, saved, portFile, torn, sups, cut>>

SweepToReapply ==
    /\ pc = "sweep" /\ op = "reapply"
    /\ listed' = LiveEntries /\ active' = LiveEntries
    /\ todo' = saved
    /\ Goto("spawn")
    /\ UNCHANGED <<status, up, saved, portFile, torn, sups, cut>>

SweepToAddFault ==
    /\ pc = "sweep" /\ op = "add"
    /\ listed' = LiveEntries /\ active' = LiveEntries
    /\ todo' = args
    /\ Goto(IF temporary THEN "spawn" ELSE "persist")
    /\ UNCHANGED <<status, up, saved, portFile, torn, sups, cut>>

SweepToAdd ==
    /\ pc = "sweep" /\ op = "add"
    /\ ~Conflicts(args, SpecsOf(LiveEntries))
    /\ listed' = LiveEntries /\ active' = LiveEntries
    /\ todo' = args
    /\ Goto(IF temporary THEN "spawn" ELSE "persist")
    /\ UNCHANGED <<status, up, saved, portFile, torn, sups, cut>>

\* another live forward has the address and port
AddClashes ==
    /\ pc = "sweep" /\ op = "add"
    /\ Conflicts(args, SpecsOf(LiveEntries))
    /\ listed' = LiveEntries
    /\ End
    /\ UNCHANGED <<status, up, saved, portFile, torn, sups, cut>>

Persist ==
    /\ pc = "persist" /\ status = "running"
    /\ saved' = saved \cup args
    /\ Goto("spawn")
    /\ UNCHANGED <<status, up, listed, portFile, torn, sups, cut, active, todo>>

\* a VM that is not running: the saved list is all there is to change
PersistOnly ==
    /\ pc = "persist" /\ status # "running"
    /\ saved' = saved \cup args
    /\ End
    /\ UNCHANGED <<status, up, listed, portFile, torn, sups, cut>>

\* reapply leaves alone what some live forward already claims
Blocked(s) == op = "reapply" /\ Conflicts({s}, SpecsOf(active))

Spawn(s, p) ==
    /\ pc = "spawn" /\ s \in todo
    /\ ~Blocked(s)
    /\ Spawns(s, IF temporary THEN "adhoc" ELSE "config", p)
    /\ todo' = todo \ {s}
    /\ Goto("list")
    /\ UNCHANGED <<status, up, files, cut>>

\* reapply goes on to the next: it is blocked, or its supervisor does not start
Skip(s) ==
    /\ pc = "spawn" /\ s \in todo
    /\ op = "reapply"
    /\ todo' = todo \ {s}
    /\ UNCHANGED <<status, up, files, sups, cut, pc, op, temporary, args, active>>

\* add gives up, with what it spawned so far in place
AddSpawnFails ==
    /\ pc = "spawn" /\ todo # {}
    /\ op = "add"
    /\ End
    /\ UNCHANGED <<status, up, files, sups, cut>>

WriteListFault ==
    /\ pc = "list"
    /\ listed' = IF todo = {} THEN active ELSE listed
    /\ Goto("spawn")
    /\ UNCHANGED <<status, up, saved, portFile, torn, sups, cut, active, todo>>

\* after every spawn
WriteList ==
    /\ pc = "list"
    /\ listed' = active
    /\ Goto("spawn")
    /\ UNCHANGED <<status, up, saved, portFile, torn, sups, cut, active, todo>>

Spawned ==
    /\ pc = "spawn" /\ todo = {}
    /\ End
    /\ UNCHANGED <<status, up, files, sups, cut>>

-----------------------------------------------------------------------------
\* agv forward --rm

BeginRm ==
    /\ Opened("rm")
    /\ Goto(IF status = "running" THEN "kill" ELSE "unpersist")
    /\ UNCHANGED <<status, up, files, sups, cut, active, todo>>

Kill ==
    /\ pc = "kill"
    /\ KillSupervisors(Taken(listed))
    /\ Goto("unlist")
    /\ UNCHANGED <<status, up, files, cut, active, todo>>

Unlist ==
    /\ pc = "unlist"
    /\ listed' = listed \ Taken(listed)
    /\ IF temporary THEN End ELSE Goto("unpersist") /\ UNCHANGED <<active, todo>>
    /\ UNCHANGED <<status, up, saved, portFile, torn, sups, cut>>

\* what persist_clear and persist_remove keep
Kept == IF args = {} THEN {} ELSE {s \in saved : s.host \notin Hosts(args)}

Unpersist ==
    /\ pc = "unpersist" /\ Readable("config")
    /\ saved' = Kept
    /\ End
    /\ UNCHANGED <<status, up, listed, portFile, torn, sups, cut>>

UnpersistFails ==
    /\ pc = "unpersist" /\ ~Readable("config")
    /\ End
    /\ UNCHANGED <<status, up, files, sups, cut>>

-----------------------------------------------------------------------------

QemuExits ==
    /\ up
    /\ up' = FALSE
    /\ UNCHANGED <<status, files, sups, cut, pc, local>>

SupervisorDies(p) ==
    /\ p \in Live
    /\ runs' = [runs EXCEPT ![p] = None] /\ stray' = stray \ {p}
    /\ UNCHANGED <<status, up, files, cut, pc, local>>

\* who is not in a list with its forward
Unlisted(entries) == {p \in Live : \A e \in entries : ~(e.pid = p /\ e.spec = runs[p])}

\* A kill outside the writes.  It leaves supervisors behind where they are
\* spawned and not yet listed, and where a VM is recorded as stopped and they
\* are not yet killed.
Killed ==
    /\ pc # "idle"
    /\ stray' = CASE pc \in {"apply", "autolist", "list"} -> stray \cup Unlisted(listed)
                  [] pc = "reap" -> Live
                  [] OTHER -> stray
    /\ End
    /\ UNCHANGED <<status, up, files, runs, cut>>

\* The list under way to forwards.toml.  sweep_dead writes only if somebody is
\* dead, and an empty list is no write: the file is removed.
NewList ==
    CASE pc = "sweep"  -> LiveEntries
      [] pc = "unlist" -> listed \ Taken(listed)
      [] OTHER         -> active

WritesList ==
    /\ \/ pc \in {"autolist", "list"}
       \/ pc = "apply" /\ todo = {}
       \/ pc = "sweep" /\ LiveEntries # listed
       \/ pc = "unlist" /\ args # {}
    /\ NewList # {}

\* A kill, or a failure, inside the write: the file does not parse, or it does
\* without some of its entries.  A boot goes on after a failure.
CutList ==
    /\ WritesList
    /\ \/ listed' = {} /\ torn' = torn \cup {"list"}
       \/ listed' \in SUBSET NewList /\ torn' = torn \ {"list"}
    /\ stray' = stray \cup Unlisted(listed')
    /\ \/ End
       \/ pc = "apply" /\ active' = {} /\ Goto("auto") /\ UNCHANGED todo
    /\ UNCHANGED <<status, up, saved, portFile, runs, cut>>

NewSaved ==
    CASE pc = "persist" -> saved \cup args
      [] pc = "set"     -> args
      [] OTHER          -> Kept

WritesConfig ==
    \/ pc \in {"persist", "set"}
    \/ pc = "unpersist" /\ Readable("config") /\ Kept # saved

\* The same of config.toml.  config set restores the status it found if the
\* write fails, and leaves `configuring` if it is killed.
CutConfig ==
    /\ WritesConfig
    /\ \/ saved' = {} /\ torn' = torn \cup {"config"}
       \/ saved' \in SUBSET NewSaved /\ UNCHANGED torn
    /\ status' \in IF pc = "set" THEN {"configuring", "down", "broken"} ELSE {status}
    /\ cut' = (status = "running")
    /\ End
    /\ UNCHANGED <<up, listed, portFile, sups>>

Starts ==
    \/ Boot \/ SshFails \/ ApplyNone \/ ApplySome \/ ApplyWrite
    \/ \E s \in Specs : ApplySpawnFails(s) \/ \E p \in Sups : ApplySpawn(s, p)
    \/ \E h \in Ports, p \in Sups : AutoSpawn(h, p)
    \/ AutoNone \/ AutoList \/ AutoFile

Stops == Teardown \/ RemovePortFiles \/ Power \/ PowerFails \/ Record

Edits ==
    \/ BeginSet \/ SetForwards \/ BeginAdd \/ BeginReapply \/ BeginList
    \/ SweepToList \/ SweepToReapply \/ SweepToAdd \/ AddClashes
    \/ Persist \/ PersistOnly
    \/ \E s \in Specs : Skip(s) \/ \E p \in Sups : Spawn(s, p)
    \/ AddSpawnFails \/ WriteList \/ Spawned
    \/ BeginRm \/ Kill \/ Unlist \/ Unpersist \/ UnpersistFails

Next ==
    \/ \E o \in Ops, t \in BOOLEAN, a \in SUBSET Named :
         Cardinality(a) <= MaxList /\ Issue(o, t, a)
    \/ OpenDead \/ Reap \/ Refuse
    \/ Starts \/ Stops \/ Edits
    \/ QemuExits
    \/ \E p \in Sups : SupervisorDies(p)
    \/ Killed \/ CutList \/ CutConfig

Spec == Init /\ [][Next]_vars

-----------------------------------------------------------------------------

AtRest == pc = "idle"

Disjoint(s, t) == bind_keys(s) \cap bind_keys(t) = {}

\* the supervisors of an origin
Of(o) == {e.pid : e \in {f \in listed \cup active : f.origin = o}}

(***************************************************************************)
(* Nobody but forwards.toml knows the pid of a supervisor (forward.rs      *)
(* 520-528): one that is not in it with its forward keeps its port until   *)
(* the host goes down.  Only a kill between a spawn and the write of the   *)
(* list, or inside that write, loses one: whatever else happens, who was   *)
(* not left behind that way is listed whenever no command is under way.    *)
(***************************************************************************)
NoOrphan ==
    AtRest => \A p \in Ours : \E e \in listed : e.pid = p /\ e.spec = runs[p]

(***************************************************************************)
(* Supervisors retry against a VM that is gone for as long as they live    *)
(* (instance.rs 463-465): a VM that is not recorded as running has none    *)
(* but those that a killed command left behind.                            *)
(***************************************************************************)
DownMeansNone == AtRest /\ status # "running" => Ours = {}

(***************************************************************************)
(* Two ssh processes cannot bind the same address and port, and add,       *)
(* reapply and the boot each check their own way: two supervisors are      *)
(* after the same one only if one is the auto-forward's, whose port a      *)
(* single bind test chooses, and the other a configured forward's that was *)
(* not listening then.  An ad-hoc forward clashes with nobody.             *)
(***************************************************************************)
BindsDisjoint ==
    \A p, q \in Ours :
      p = q \/ Disjoint(runs[p], runs[q])
        \/ (p \in Of("auto") /\ q \in Of("config"))
        \/ (q \in Of("auto") /\ p \in Of("config"))

(***************************************************************************)
(* A forward that a supervisor serves as one of the configuration is in    *)
(* the saved list, so that the two halves of add and rm do not drift apart *)
(* (persist_remove, forwarding.rs 136-140), unless a kill cut the saved    *)
(* list short during this boot.                                            *)
(***************************************************************************)
DeclaredIsSaved ==
    cut \/ \A e \in listed : e.origin = "config" /\ e.pid \in Ours => e.spec \in saved

(***************************************************************************)
(* No <name>_port file is left to mislead a reader after the VM is stopped *)
(* (stop_all_for_instance, forwarding.rs 513-523).                         *)
(***************************************************************************)
StoppedHasNoPortFile == AtRest /\ status = "down" => portFile = None

-----------------------------------------------------------------------------
(***************************************************************************)
(* The inductive invariant.                                                *)
(***************************************************************************)

\* the points at which the status is known
StatusAt ==
    /\ pc \in {"ssh", "apply", "auto", "autolist", "autofile", "ports", "power", "record",
               "sweep", "spawn", "list", "kill", "unlist"} => status = "running"
    /\ pc = "reap" => status = "down"
    /\ pc = "set" => status = "configuring"

\* which commands get there, and what they carry
OpAt ==
    /\ pc = "persist" => op = "add" /\ ~temporary
    /\ pc \in {"spawn", "list"} => op \in {"add", "reapply"}
    /\ op = "reapply" => ~temporary
    /\ validate_unique(args)

\* the list in memory against the one on disk
ListAt ==
    /\ pc \notin {"apply", "autolist", "autofile", "persist", "spawn", "list"} => active = {}
    /\ pc = "persist" => active = (IF status = "running" THEN listed ELSE {})
    /\ pc \in {"spawn", "autofile"} => active = listed
    /\ pc \in {"list", "autolist"} => listed \subseteq active
    /\ pc = "apply" => listed = {}
    /\ pc \notin {"apply", "persist", "spawn", "list"} => todo = {}

\* no supervisors: the VM is down, coming up, or torn down
NoneAt ==
    (status # "running" /\ pc # "reap") \/ pc \in {"ssh", "ports", "power", "record"}
      => Ours = {}

\* a supervisor is on disk, or the command that spawned it is about to write it there
Known ==
    \A p \in Ours :
      \E e \in listed \cup (IF pc \in {"apply", "list", "autolist"} THEN active ELSE {}) :
        e.pid = p /\ e.spec = runs[p]

\* a pid is listed once; what a boot has listed so far is of the configuration
EntriesAt ==
    /\ \A e, f \in listed \cup active : e.pid = f.pid => e = f
    /\ pc \in {"apply", "auto"} => \A e \in listed \cup active : e.origin = "config"

\* rm has killed what it is about to take off the lists
TakenAt == pc \in {"unlist", "unpersist"} => \A e \in Taken(listed) : e.pid \notin Ours

\* what is listed, or about to be, as configured
SavedAt ==
    /\ cut \/ \A e \in listed \cup active :
                e.origin = "config" /\ e.pid \in Ours => e.spec \in saved
    /\ cut \/ (pc = "apply" \/ (pc \in {"spawn", "list"} /\ ~temporary) => todo \subseteq saved)
    /\ pc = "persist" => todo \subseteq args

\* no two forwards after the same address and port: saved, live, and still to be spawned
UniqueAt ==
    /\ validate_unique(saved) /\ validate_unique(todo)
    /\ pc = "persist" \/ (pc = "sweep" /\ op = "add" /\ ~temporary) => ~Conflicts(args, saved)
    /\ pc = "apply" \/ (pc \in {"persist", "spawn", "list"} /\ op = "add")
         => \A s \in todo, p \in Ours : Disjoint(s, runs[p])
    /\ BindsDisjoint

IInv ==
    /\ TypeOK /\ StatusAt /\ OpAt /\ ListAt /\ NoneAt /\ Known
    /\ EntriesAt /\ TakenAt /\ SavedAt /\ UniqueAt
=============================================================================
