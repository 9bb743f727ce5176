---------------------------- MODULE LeaseLookup ----------------------------
(***************************************************************************)
(* Finding a guest's address in the lease file of the host's DHCP server:  *)
(* a sequence of leases, each with the hostname and the MAC it was given   *)
(* to, an address (or NoIp) and a time (0 when it has none).               *)
(***************************************************************************)
EXTENDS Naturals

CONSTANT NoIp

NoLease == [ip |-> NoIp, at |-> 0]

(* The match furthest down the file. *)
LastLease(best, l, field, wanted) ==
  IF l[field] = wanted /\ l.ip # NoIp THEN [ip |-> l.ip, at |-> l.at] ELSE best

(* The best match after lease l: the freshest, of two as fresh the first.  *)
IterateLeases(best, l, field, wanted) ==
  IF /\ l[field] = wanted /\ l.ip # NoIp
     /\ best.ip = NoIp \/ l.at > best.at
  THEN [ip |-> l.ip, at |-> l.at]
  ELSE best
=============================================================================
