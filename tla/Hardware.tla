------------------------------ MODULE Hardware ------------------------------
(***************************************************************************)
(* The virtual hardware of the VM of VmLifecycle: what its saved           *)
(* configuration asks for, what each QEMU was spawned with, and what the   *)
(* saved session was running on.  A QEMU given -loadvm restores the device *)
(* state of the session and needs the machine it was saved under, while    *)
(* the user may edit the configuration and the host's QEMU may be upgraded *)
(* between any two commands.                                               *)
(*                                                                         *)
(* Every action is the one of VmLifecycle together with its effect on the  *)
(* hardware; three steps that VmLifecycle has no state for are added       *)
(* (SaveNew, PinMachine and their interruptions).  Memory and vCPUs are    *)
(* one size.  Drives, network, sockets and the serial log are determined   *)
(* by the instance directory and are left out, and so is the EFI firmware, *)
(* whose code image is the host's at each start.  Instances of older       *)
(* versions of agv, which may be suspended without a pin, are not states   *)
(* of this specification.                                                  *)
(***************************************************************************)
EXTENDS VmLifecycle

CONSTANTS
    Sizes,      \* the memory and vCPUs a user may ask for
    Versions,   \* the machine versions QEMUs of the host may have as their default
    Platform    \* what the host is

ASSUME HardwareAssumption ==
    /\ None \notin [size : Sizes, machine : Versions \cup {None}]
    /\ None \notin Versions
    /\ Platform \in {"macos_aarch64", "linux_x86_64", "linux_aarch64"}

VARIABLES
    config,   \* <inst>/config.toml; None when it is absent or cannot be read
    args,     \* per QEMU process, the command line it was spawned with
    saved     \* the hardware the agv-suspend snapshot was saved under

hardware == <<config, args, saved>>
hwVars   == <<vars, hardware>>

Configs == [size : Sizes, machine : Versions \cup {None}]

\* The options that are added to the machine.  Whether the host has KVM is
\* looked up at every start.
PlatformArgs(kvm) ==
    IF Platform = "linux_aarch64" /\ kvm THEN {"virtualization=on"} ELSE {}

\* The part of the command line that the guest sees as its machine.
BuildQemuArgs(cfg, kvm) ==
    [machine |-> cfg.machine, extras |-> PlatformArgs(kvm), size |-> cfg.size]

\* the machine of this VM when QEMU is able to run it
MachineOf(cfg) == BuildQemuArgs(cfg, TRUE)

Unpinned == config # None /\ config.machine = None

\* what is left of the configuration when a write of it does not complete
Torn == {config, None}

HwInit ==
    /\ Init
    /\ config = None
    /\ args = [p \in Pids |-> None]
    /\ saved = None

\* a command line goes with its process
ArgsOfLive == args' = [p \in Pids |-> IF qemu'[p] = "absent" THEN None ELSE args[p]]

Keeps == ArgsOfLive /\ UNCHANGED <<config, saved>>

-----------------------------------------------------------------------------
(* Faults, as in VmLifecycle.                                              *)

\* the machine is resolved anew at every start
PinMachineFault(c) ==
    /\ pc[c] = "spawn"
    /\ config # None
    /\ \E v \in Versions : config' = [config EXCEPT !.machine = v]
    /\ UNCHANGED <<vars, args, saved>>

\* the machine is resolved and used, and not saved
BootMachineFault(c) ==
    /\ config # None
    /\ Spawn(c)
    /\ \E v \in Versions, kvm \in BOOLEAN :
         args' = [args EXCEPT ![pid'[c]] =
                    BuildQemuArgs(IF Unpinned THEN [config EXCEPT !.machine = v] ELSE config, kvm)]
    /\ UNCHANGED <<config, saved>>

-----------------------------------------------------------------------------

\* create_inner begins with the configuration of the command line
SaveNew(c) ==
    /\ pc[c] = "prepare"
    /\ config = None
    /\ config' \in Configs
    /\ UNCHANGED <<vars, args, saved>>

\* ensure_machine_type: an existing pin is kept; else the default of the
\* QEMU that is installed now is saved, before QEMU is spawned.
PinMachine(c) ==
    /\ pc[c] = "spawn"
    /\ Unpinned
    /\ \E v \in Versions : config' = [config EXCEPT !.machine = v]
    /\ UNCHANGED <<vars, args, saved>>

BootMachine(c) ==
    /\ config # None /\ ~Unpinned
    /\ Spawn(c)
    /\ \E kvm \in BOOLEAN : args' = [args EXCEPT ![pid'[c]] = BuildQemuArgs(config, kvm)]
    /\ UNCHANGED <<config, saved>>

\* the save of the pin may be what failed
BootMachineFails(c) ==
    /\ SpawnFails(c)
    /\ config' \in IF Unpinned THEN Torn ELSE {config}
    /\ UNCHANGED <<args, saved>>

SaveMachine(c) ==
    /\ SaveVm(c)
    /\ saved' = args[socket]
    /\ UNCHANGED <<config, args>>

RemoveMachine(c) ==
    /\ RemoveInstance(c)
    /\ config' = None
    /\ saved' = None
    /\ UNCHANGED args

\* any size, and another machine only if --machine-type names one
EditMachine(c) ==
    /\ SaveConfig(c)
    /\ config # None
    /\ config' \in [size : Sizes, machine : Versions \cup {config.machine}]
    /\ UNCHANGED <<args, saved>>

EditMachineFails(c) ==
    /\ SaveConfigFails(c)
    /\ config' \in Torn
    /\ UNCHANGED <<args, saved>>

\* a command that needs the configuration goes on only if it can be read; a
\* readable one turns away an edit whose disk would not grow, and a forward
\* that clashes with one that is there
LoadConfig(c) ==
    \/ /\ Gate(c)
       /\ GateOf(op[c], seen[c]) \in {"spawn", "alive", "resize", "persist"} => config # None
       /\ Keeps
    \/ /\ LoadFails(c)
       /\ config = None \/ op[c] \in {"config_set", "forward"}
       /\ Keeps

Prepared(c) ==
    \/ PrepareDone(c) /\ config # None /\ Keeps
    \/ PrepareFails(c) /\ Keeps

\* every other step leaves the hardware alone
Elsewhere == {"gate", "prepare", "spawn", "savevm", "rmdir", "edit"}

HwStep(c) ==
    \/ /\ pc[c] \notin Elsewhere
       /\ Step(c)
       /\ Keeps
    \/ LoadConfig(c)
    \/ SaveNew(c) \/ Prepared(c)
    \/ PinMachine(c) \/ BootMachine(c) \/ BootMachineFails(c)
    \/ SaveMachine(c) \/ RemoveMachine(c)
    \/ EditMachine(c) \/ EditMachineFails(c)
    \/ (SaveVmFails(c) \/ EditRejected(c)) /\ Keeps

\* A kill inside a write of the configuration leaves it cut off.  `agv forward`
\* writes it too, with the hardware as it is, and whatever the VM's status.
Rewrites(c) == pc[c] \in {"edit", "persist"} \/ (pc[c] = "spawn" /\ Unpinned)

HwKilled(c) ==
    /\ Killed(c)
    /\ config' \in IF Rewrites(c) THEN Torn ELSE {config}
    /\ UNCHANGED <<args, saved>>

\* `-accel kvm` does not start without KVM
HwBoots(p) ==
    /\ QemuBoots(p)
    /\ qemu'[p] = "up" => args[p].extras = PlatformArgs(TRUE)
    /\ Keeps

HwNext ==
    \/ \E c \in Cmds, o \in Ops : Issue(c, o) /\ Keeps
    \/ \E c \in Cmds : HwStep(c) \/ HwKilled(c)
    \/ \E p \in Pids : HwBoots(p) \/ (QemuExits(p) /\ Keeps)

HwSpec == HwInit /\ [][HwNext]_hwVars

HwFairSpec == HwSpec /\ \A c \in Cmds : WF_hwVars(~Waits(c) /\ HwStep(c))

-----------------------------------------------------------------------------
(* Properties                                                              *)

\* A session is continued on the machine it was saved under, whatever was
\* edited, failed, killed or upgraded since it was saved: machine version,
\* machine options, memory and vCPUs.
ResumesOnItsMachine ==
    \A p \in load : qemu[p] = "up" => args[p] = saved

\* The configuration of a VM that is suspended can be read, is pinned, and
\* asks for the machine the session needs: no failed or killed command costs
\* a suspended VM the way back, but for an `agv forward` that is cut short
\* inside its write (HwSturdy).
SuspendedKeepsItsMachine ==
    status = "suspended" =>
        /\ config # None /\ ~Unpinned
        /\ MachineOf(config) = saved
-----------------------------------------------------------------------------
(* What the two rest on.                                                   *)

\* a QEMU is up, is being brought up, or is to be brought back
InUse ==
    \/ status \in {"running", "suspended"}
    \/ Live # {}
    \/ \E c \in Cmds : pc[c] \in {"record", "await", "running"}

\* there is a session to go back to, or a snapshot that is to become one
SessionKept == status = "suspended" \/ \E c \in Cmds : Suspending(c) \/ pc[c] = "saved"

\* ... and no `agv forward` cut short while it rewrites the configuration
HwSturdy == Sturdy /\ "persist" \notin CrashAt

HwInv ==
    /\ config \in Configs \cup {None}
    /\ DOMAIN args = Pids
    /\ InUse => config # None /\ ~Unpinned
    /\ \A p \in Live : \E kvm \in BOOLEAN : args[p] = BuildQemuArgs(config, kvm)
    /\ \A p \in Live : qemu[p] = "up" => args[p] = MachineOf(config)
    /\ SessionKept \/ load \cap Live # {} => saved = MachineOf(config)
=============================================================================
