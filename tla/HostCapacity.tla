---------------------------- MODULE HostCapacity ----------------------------
(***************************************************************************)
(* Sizes such as 8G, in machine words, and the check of the host's memory  *)
(* before `agv create --start` boots a VM.                                 *)
(***************************************************************************)
EXTENDS Naturals

CONSTANTS
  Word,     \* 2^64: what a u64 holds
  Letter,   \* the unit that a suffix begins with: [suffix |-> letter]
  Units     \* bytes of a unit: [letter |-> bytes]

ASSUME WordAssumption == Word \in Nat \ {0}

(* A size is a number and a suffix, of which the first letter counts.      *)
Parses(size) == size.num < Word /\ size.suffix \in DOMAIN Letter

(* 8GiB, 8gb, 8g: all are 8G. *)
NormalizeSize(size) == [size EXCEPT !.suffix = Letter[@]]

(* The product is not checked in a release build. *)
ParseDiskSize(size) == (size.num * Units[Letter[size.suffix]]) % Word

WrappingAdd(a, b) == (a + b) % Word
SaturatingAdd(a, b) == IF a + b >= Word THEN Word - 1 ELSE a + b

Committed == {"running", "configuring", "creating"}

(* What the VMs that run have of the memory, one more VM looked at; one    *)
(* whose config does not load is passed over, and so is a size that does   *)
(* not parse.                                                              *)
ProbeAllocated(sum, i) ==
  IF i.loads /\ i.status \in Committed /\ Parses(i.memory)
  THEN SaturatingAdd(sum, ParseDiskSize(i.memory))
  ELSE sum

(* 90% of the host, unless the host could not be measured. *)
CheckCapacity(new, total, allocated, force) ==
  force \/ total = 0 \/ SaturatingAdd(allocated, new) <= (total * 9) \div 10
=============================================================================
