----------------------------- MODULE SshConfig -----------------------------
(***************************************************************************)
(* The managed SSH config <data>/ssh_config, which the commands against    *)
(* all VMs share: each reads the whole file, takes the block of its VM out *)
(* (and puts a new one in), and writes the whole file back, under an       *)
(* exclusive flock that the kernel releases when the holder dies.          *)
(*                                                                         *)
(* Abstractions.  The file is the set of its Host blocks and a block is    *)
(* the VM's name and port.  Writing is two steps, because tokio::fs::write *)
(* truncates before it writes.  Errors of the file system are left out.    *)
(***************************************************************************)
EXTENDS FiniteSets

CONSTANTS
    Cmds,         \* commands that may run at the same time
    Vms, Ports,
    None,         \* no port (the block is to be removed), no VM, nobody
    CrashInWrite  \* may a command be killed between truncating and writing

ASSUME SshConfigAssumption ==
    /\ None \notin Ports
    /\ None \notin Cmds
    /\ CrashInWrite \in BOOLEAN

VARIABLES
    file,  \* the Host blocks on disk
    lock,  \* the command that holds ssh_config.lock
    pc,
    vm,    \* the VM each command is against, None when it is idle
    port,  \* the port it adds, None if it removes
    text   \* what it will write

local == <<vm, port, text>>
vars  == <<file, lock, pc, local>>

Blocks == [name : Vms, port : Ports]

TypeOK ==
    /\ file \subseteq Blocks
    /\ lock \in Cmds \cup {None}
    /\ pc \in [Cmds -> {"idle", "lock", "read", "truncate", "write", "unlock"}]
    /\ vm \in [Cmds -> Vms \cup {None}]
    /\ port \in [Cmds -> Ports \cup {None}]
    /\ text \in [Cmds -> SUBSET Blocks]

Init ==
    /\ file = {}
    /\ lock = None
    /\ pc = [c \in Cmds |-> "idle"]
    /\ vm = [c \in Cmds |-> None]
    /\ port = [c \in Cmds |-> None]
    /\ text = [c \in Cmds |-> {}]

Goto(c, l) == pc' = [pc EXCEPT ![c] = l]

\* a fault, as those below: the old block of the VM is left in
remove_host_block_fault(blocks, name) == blocks

remove_host_block(blocks, name) == {b \in blocks : b.name # name}

format_host_entry(name, p) == IF p = None THEN {} ELSE {[name |-> name, port |-> p]}

-----------------------------------------------------------------------------
(* Faults, as in module VmLifecycle.                                       *)

\* the guard is dropped before the file is written
TruncateFault(c) ==
    /\ pc[c] = "truncate"
    /\ file' = {}
    /\ lock' = None
    /\ Goto(c, "write")
    /\ UNCHANGED local

-----------------------------------------------------------------------------

\* add_entry after a boot, remove_entry after a stop, suspend, destroy,
\* rename or a reconcile
Begin(c, v, p) ==
    /\ pc[c] = "idle"
    /\ vm' = [vm EXCEPT ![c] = v]
    /\ port' = [port EXCEPT ![c] = p]
    /\ Goto(c, "lock")
    /\ UNCHANGED <<file, lock, text>>

Acquire(c) ==
    /\ pc[c] = "lock"
    /\ lock = None
    /\ lock' = c
    /\ Goto(c, "read")
    /\ UNCHANGED <<file, local>>

\* read, and make the new content
Read(c) ==
    /\ pc[c] = "read"
    /\ text' = [text EXCEPT ![c] =
                    remove_host_block(file, vm[c]) \cup format_host_entry(vm[c], port[c])]
    /\ Goto(c, "truncate")
    /\ UNCHANGED <<file, lock, vm, port>>

Truncate(c) ==
    /\ pc[c] = "truncate"
    /\ file' = {}
    /\ Goto(c, "write")
    /\ UNCHANGED <<lock, local>>

Write(c) ==
    /\ pc[c] = "write"
    /\ file' = text[c]
    /\ Goto(c, "unlock")
    /\ UNCHANGED <<lock, local>>

End(c) ==
    /\ Goto(c, "idle")
    /\ vm' = [vm EXCEPT ![c] = None]
    /\ port' = [port EXCEPT ![c] = None]
    /\ text' = [text EXCEPT ![c] = {}]

Release(c) ==
    /\ pc[c] = "unlock"
    /\ lock' = None
    /\ End(c)
    /\ UNCHANGED file

\* the kernel closes the descriptor and with it drops the flock
Killed(c) ==
    /\ pc[c] # "idle"
    /\ pc[c] = "write" => CrashInWrite
    /\ lock' = IF lock = c THEN None ELSE lock
    /\ End(c)
    /\ UNCHANGED file

Step(c) == Acquire(c) \/ Read(c) \/ Truncate(c) \/ Write(c) \/ Release(c)

Next ==
    \E c \in Cmds :
        \/ \E v \in Vms, p \in Ports \cup {None} : Begin(c, v, p)
        \/ Step(c)
        \/ Killed(c)

Spec == Init /\ [][Next]_vars

-----------------------------------------------------------------------------
(* Properties                                                              *)

\* The file as it is once the write under way is over.
Settled == IF lock # None /\ pc[lock] = "write" THEN text[lock] ELSE file

\* A VM never has two Host blocks: ssh would take the first, which is the
\* one with the older port.
OneBlockPerVm == \A a, b \in file : a.name = b.name => a = b

Hosts == INSTANCE HostEntries WITH hosts <- Settled

\* However the commands of several VMs interleave, and wherever they are
\* killed outside the write itself, no command changes the entry of another
\* VM: the file behaves as one atomic set of entries.
ImplementsEntries == Hosts!Spec

-----------------------------------------------------------------------------
(* What the refinement rests on.                                           *)

Holding == {"read", "truncate", "write", "unlock"}

Exclusive ==
    /\ \A c \in Cmds : pc[c] \in Holding => lock = c
    /\ lock # None => pc[lock] \in Holding

TextIsSound ==
    \A c \in Cmds :
        /\ pc[c] # "idle" => vm[c] \in Vms
        /\ pc[c] \in {"truncate", "write"} =>
               \A a, b \in text[c] : a.name = b.name => a = b

\* what a command is about to write is the file with its own block changed
TextFollowsFile ==
    \A c \in Cmds :
        pc[c] = "truncate" =>
            text[c] = remove_host_block(file, vm[c]) \cup format_host_entry(vm[c], port[c])

\* what holds whoever else writes to the file ...
Sound == TypeOK /\ Exclusive /\ TextIsSound /\ OneBlockPerVm

\* ... and what holds when only the commands do
IInv == Sound /\ TextFollowsFile
=============================================================================
