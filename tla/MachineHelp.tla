---------------------------- MODULE MachineHelp ----------------------------
(***************************************************************************)
(* Finding the versioned machine type behind an alias such as q35 in what  *)
(* `qemu-system-X -machine help` prints: lines with a name, the type it    *)
(* says it is an alias of (or NoName), whether the type is deprecated, and *)
(* whether the name is that of the platform's family with a version, which *)
(* is then major.minor.                                                    *)
(***************************************************************************)
EXTENDS Naturals

CONSTANT NoName

NoMachine == [name |-> NoName, major |-> 0, minor |-> 0]

(* The alias's own line, with the type in brackets. *)
Annotated(line, alias) == line.name = alias /\ line.aliasOf # NoName

(* Newer in each part. *)
NewerInBoth(a, b) == a.major >= b.major /\ a.minor > b.minor

Newer(a, b) == a.major > b.major \/ (a.major = b.major /\ a.minor > b.minor)

(* The best type after a line: the highest version, of two equal the first *)
ParseMachineHelp(best, line) ==
  IF /\ line.versioned /\ ~line.deprecated
     /\ best.name = NoName \/ Newer(line, best)
  THEN [name |-> line.name, major |-> line.major, minor |-> line.minor]
  ELSE best
=============================================================================
