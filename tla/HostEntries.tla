---------------------------- MODULE HostEntries ----------------------------
(***************************************************************************)
(* What the managed SSH config promises: a set of Host entries, at most    *)
(* one per VM, of which a command adds, replaces or removes the entry of   *)
(* its own VM and leaves every other one alone.                            *)
(***************************************************************************)

CONSTANTS Vms, Ports

VARIABLE hosts

Entry(vm, port) == [name |-> vm, port |-> port]

Without(entries, vm) == {e \in entries : e.name # vm}

Init == hosts = {}

Add(vm, port) == hosts' = Without(hosts, vm) \cup {Entry(vm, port)}

Remove(vm) == hosts' = Without(hosts, vm)

Next == \E vm \in Vms : Remove(vm) \/ \E port \in Ports : Add(vm, port)

Spec == Init /\ [][Next]_hosts
=============================================================================
