------------------------------- MODULE Scans -------------------------------
(***************************************************************************)
(* The calls of agv that walk a list once, or twice, and keep what they    *)
(* have found so far: `agv destroy --label`, the check of the host's       *)
(* memory before a boot, the search for a guest's lease, and the search    *)
(* for the versioned machine type that a VM is pinned to.  A behavior is   *)
(* one call; a step is one element of the list.                            *)
(*                                                                         *)
(* Simplifications.  What is listed (VMs, leases, lines) does not change   *)
(* while it is walked: the code has read it into memory.  The status of a  *)
(* VM is read when the walk reaches it; the walk has no other effect, so   *)
(* the VMs are given with the status that is read.                         *)
(***************************************************************************)
EXTENDS Calls, Labels, HostCapacity, LeaseLookup, MachineHelp

CONSTANTS
  Destroys,     \* the VMs, with the selectors and --force of `agv destroy`
  Boots,        \* the VMs and the host, with the memory and --force of `agv create --start`
  LeaseFiles,   \* the lease files
  Host,         \* the hostname looked for
  Mac,          \* the MAC looked for
  Listings,     \* what QEMU prints of its machine types
  MachineAlias  \* the alias looked for

ASSUME ScansAssumption ==
  /\ \A d \in Destroys : IsList(d.vms) /\ IsList(d.raw) /\ d.force \in BOOLEAN
  /\ \A b \in Boots : /\ IsList(b.vms) /\ b.total \in 0..Word-1 /\ b.force \in BOOLEAN
                      /\ b.memory.num \in Nat
                      /\ \A i \in DOMAIN b.vms : b.vms[i].memory.num \in Nat
  /\ \A s \in DOMAIN Letter : /\ Letter[s] \in DOMAIN Units /\ Letter[s] \in DOMAIN Letter
                              /\ Letter[Letter[s]] = Letter[s]
                              /\ Units[Letter[s]] \in Nat
  /\ \A f \in LeaseFiles : IsList(f) /\ \A i \in DOMAIN f : f[i].at \in Nat
  /\ \A f \in Listings : /\ IsList(f)
                         /\ \A i \in DOMAIN f : f[i].major \in Nat /\ f[i].minor \in Nat
                                                /\ f[i].name # NoName

InitScan ==
  /\ at = 1
  /\ \/ /\ call \in {[kind |-> "destroy", vms |-> d.vms, raw |-> d.raw, force |-> d.force] : d \in Destroys}
        /\ pass = "selectors"
        /\ out = [err |-> "none", want |-> <<>>, destroys |-> {}, gone |-> {}, failed |-> {}]
     \/ /\ call \in {[kind |-> "boot", vms |-> b.vms, total |-> b.total, memory |-> b.memory,
                     force |-> b.force] : b \in Boots}
        /\ pass = "instances"
        /\ out = [allocated |-> 0, boots |-> FALSE]
     \/ /\ call \in {[kind |-> "lease", leases |-> f] : f \in LeaseFiles}
        /\ pass = "name"
        /\ out = NoLease
     \/ /\ call \in {[kind |-> "machine", lines |-> f] : f \in Listings}
        /\ pass = "alias"
        /\ out = NoMachine
-----------------------------------------------------------------------------
(* `agv destroy --label`.                                                  *)

NoTarget ==
  /\ In("destroy", "selectors") /\ call.raw = <<>>
  /\ Done([out EXCEPT !.err = "no_target"])

ParseSelector ==
  /\ In("destroy", "selectors") /\ at <= Len(call.raw)
  /\ IF call.raw[at].key = NoKey
     THEN Done([out EXCEPT !.err = "empty_key"])
     ELSE /\ out' = [out EXCEPT !.want = ParseLabelSelectors(@, call.raw[at])]
          /\ On(call.raw)
          /\ UNCHANGED pass

SelectorsParsed ==
  /\ In("destroy", "selectors") /\ call.raw # <<>> /\ Past(call.raw)
  /\ Walk("instances")
  /\ UNCHANGED out

Matches(vm) == vm.loads /\ InstanceMatchesLabels(vm.labels, out.want)

SelectInstance ==
  /\ In("destroy", "instances") /\ On(call.vms)
  /\ out' = [out EXCEPT !.destroys = IF Matches(call.vms[at]) THEN @ \cup {at} ELSE @]
  /\ UNCHANGED pass

(* Refused if one of them runs; else the prompt, which may be declined. *)
Confirm ==
  /\ In("destroy", "instances") /\ Past(call.vms)
  /\ IF ~call.force /\ \E i \in out.destroys : call.vms[i].status \in {"running", "configuring"}
     THEN Done([out EXCEPT !.err = "running"])
     ELSE \/ Walk("destroy") /\ UNCHANGED out
          \/ out.destroys # {} /\ Done([out EXCEPT !.err = "declined"])

(* One VM that cannot be destroyed does not keep the others.  It is read   *)
(* again under its lock, and may have been started since.                  *)
DestroyInstance ==
  /\ In("destroy", "destroy") /\ On(call.vms)
  /\ \/ at \notin out.destroys /\ UNCHANGED out
     \/ at \in out.destroys /\ out' = [out EXCEPT !.gone = @ \cup {at}]
     \/ at \in out.destroys /\ out' = [out EXCEPT !.failed = @ \cup {at}]
  /\ UNCHANGED pass

Destroyed ==
  /\ In("destroy", "destroy") /\ Past(call.vms)
  /\ Done(out)
-----------------------------------------------------------------------------
(* `agv create --start`, before it makes anything.                         *)

(* A size that does not parse is refused while the config is built; its    *)
(* normal form is what the check sees.                                     *)
RefuseSize ==
  /\ In("boot", "instances") /\ at = 1 /\ ~Parses(call.memory)
  /\ Done(out)

CountInstance ==
  /\ In("boot", "instances") /\ Parses(call.memory) /\ On(call.vms)
  /\ out' = [out EXCEPT !.allocated = ProbeAllocated(@, call.vms[at])]
  /\ UNCHANGED pass

CheckBoot ==
  /\ In("boot", "instances") /\ Parses(call.memory) /\ Past(call.vms)
  /\ Done([out EXCEPT !.boots = CheckCapacity(ParseDiskSize(NormalizeSize(call.memory)),
                                              call.total, out.allocated, call.force)])
-----------------------------------------------------------------------------
(* findGuestIp: by the hostname, and by the MAC only if no lease has the   *)
(* hostname.                                                               *)

Wanted == IF pass = "name" THEN Host ELSE Mac

ReadLease ==
  /\ \E p \in {"name", "mac"} : In("lease", p)
  /\ On(call.leases)
  /\ out' = IterateLeases(out, call.leases[at], pass, Wanted)
  /\ UNCHANGED pass

NameUnknown ==
  /\ In("lease", "name") /\ Past(call.leases) /\ out.ip = NoIp
  /\ Walk("mac")
  /\ out' = NoLease

LeaseFound ==
  /\ \E p \in {"name", "mac"} : In("lease", p)
  /\ Past(call.leases)
  /\ pass = "mac" \/ out.ip # NoIp
  /\ Done(out)
-----------------------------------------------------------------------------
(* current_default_machine_type: what the alias's line says, and the       *)
(* highest version listed only if it says nothing.                         *)

ReadAlias ==
  /\ In("machine", "alias") /\ at <= Len(call.lines)
  /\ IF Annotated(call.lines[at], MachineAlias)
     THEN Done([out EXCEPT !.name = call.lines[at].aliasOf])
     ELSE On(call.lines) /\ UNCHANGED <<pass, out>>

NotAnnotated ==
  /\ In("machine", "alias") /\ Past(call.lines)
  /\ Walk("versions")
  /\ UNCHANGED out

ReadVersion ==
  /\ In("machine", "versions") /\ On(call.lines)
  /\ out' = ParseMachineHelp(out, call.lines[at])
  /\ UNCHANGED pass

MachineFound ==
  /\ In("machine", "versions") /\ Past(call.lines)
  /\ Done(out)
-----------------------------------------------------------------------------
DestroyCommand ==
  \/ NoTarget \/ ParseSelector \/ SelectorsParsed \/ SelectInstance \/ Confirm
  \/ DestroyInstance \/ Destroyed
CheckMemory == RefuseSize \/ CountInstance \/ CheckBoot
FindGuestIp == ReadLease \/ NameUnknown \/ LeaseFound
CurrentDefaultMachineType == ReadAlias \/ NotAnnotated \/ ReadVersion \/ MachineFound

NextScan == DestroyCommand \/ CheckMemory \/ FindGuestIp \/ CurrentDefaultMachineType
-----------------------------------------------------------------------------
(* The filters AND together; a bare one asks for the key alone. *)
PassesAll(raw, v) ==
  v.loads /\ \A i \in DOMAIN raw : /\ raw[i].key \in DOMAIN v.labels
                                 /\ raw[i].value \in {Bare, v.labels[raw[i].key]}
Passing == {n \in DOMAIN call.vms : PassesAll(call.raw, call.vms[n])}

NoKeyTwice == \A i, j \in DOMAIN call.raw : call.raw[i].key = call.raw[j].key => i = j

(* `agv destroy --label` is about every VM that passes all the filters, and *)
(* about no other unless two filters name one key; it takes a running VM   *)
(* only with --force; and unless it is declined it goes through all of     *)
(* them, whichever of them it fails for (destroy_command,                  *)
(* parse_label_selectors).                                                 *)
DestroysWhatMatches ==
  Returned("destroy") /\ out.err \in {"none", "declined"} =>
    /\ Passing \subseteq out.destroys
    /\ NoKeyTwice => out.destroys = Passing
    /\ call.force \/ \A n \in out.destroys : call.vms[n].status # "running"
    /\ out.gone \cup out.failed = (IF out.err = "none" THEN out.destroys ELSE {})

(* "multiple `--label` filters AND together" (cli.rs): no VM is destroyed  *)
(* that does not pass them all.  Of two that name one key, though, the     *)
(* last counts, or the bare one.                                           *)
FiltersAndTogether == Returned("destroy") => out.gone \subseteq Passing

(* A VM is booted without --force only if it and the VMs that run have     *)
(* together at most 90% of the host's memory, as long as each size by      *)
(* itself fits in 64 bits; and it is refused only if they have more        *)
(* (check_capacity, probe_allocated).                                      *)
Bytes(size) == size.num * Units[Letter[size.suffix]]
Uses(vm) == IF vm.loads /\ vm.status \in Committed /\ Parses(vm.memory)
            THEN Bytes(vm.memory) ELSE 0
Needs(vms) == LET upTo[n \in 0..Len(vms)] == IF n = 0 THEN 0 ELSE upTo[n-1] + Uses(vms[n])
              IN upTo[Len(vms)]
BootsWithinHost ==
  /\ Returned("boot") /\ ~call.force /\ call.total > 0
  /\ Parses(call.memory) /\ Bytes(call.memory) < Word
  /\ \A i \in DOMAIN call.vms : Uses(call.vms[i]) < Word
  => out.boots = (10 * (Needs(call.vms) + Bytes(call.memory)) <= 9 * call.total)

(* The address found is that of a lease of this hostname, or of this MAC   *)
(* when no lease has the hostname, and no such lease is fresher; none is   *)
(* found only if there is none (LeaseLookup.findGuestIp).                  *)
FreshestLease ==
  Returned("lease") =>
    LET given == {l \in {call.leases[i] : i \in DOMAIN call.leases} : l.ip # NoIp}
        named == {l \in given : l.name = Host}
        hits == IF named # {} THEN named ELSE {l \in given : l.mac = Mac}
    IN IF hits = {} THEN out.ip = NoIp
       ELSE \E l \in hits : l.ip = out.ip /\ \A k \in hits : k.at <= l.at

(* A VM is pinned to the type that QEMU says the alias stands for; if it   *)
(* does not say, to one of the platform's types that are not deprecated,   *)
(* none of which is newer; and to nothing only if there is none            *)
(* (parse_machine_help).                                                   *)
PinsTheNewest ==
  Returned("machine") =>
    LET lines == call.lines
        annotated == {i \in DOMAIN lines : Annotated(lines[i], MachineAlias)}
        candidates == {i \in DOMAIN lines : lines[i].versioned /\ ~lines[i].deprecated}
    IN IF annotated # {}
       THEN \E i \in annotated : out.name = lines[i].aliasOf /\ \A j \in annotated : i <= j
       ELSE IF candidates = {} THEN out.name = NoName
       ELSE \E i \in candidates : /\ out.name = lines[i].name
                                  /\ \A j \in candidates :
                                       \/ lines[j].major < lines[i].major
                                       \/ /\ lines[j].major = lines[i].major
                                          /\ lines[j].minor <= lines[i].minor
=============================================================================
