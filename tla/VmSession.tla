----------------------------- MODULE VmSession -----------------------------
(***************************************************************************)
(* What agv promises about the guest of one VM, without files, processes   *)
(* or commands: there is a guest or there is none, it is off, on, or saved *)
(* to disk.  A saved session is left only by resuming it or by destroying  *)
(* the VM, and a guest is never on without its instance directory.         *)
(***************************************************************************)

VARIABLE session

States == {"absent", "off", "on", "saved"}

Init == session = "absent"

Become(from, to) == session \in from /\ session' = to

Create   == Become({"absent"}, "off")
PowerOn  == Become({"off"}, "on")
PowerOff == Become({"on"}, "off")
Save     == Become({"on"}, "saved")
Resume   == Become({"saved"}, "on")
Destroy  == Become({"off", "saved"}, "absent")

Next == Create \/ PowerOn \/ PowerOff \/ Save \/ Resume \/ Destroy

Spec == Init /\ [][Next]_session
=============================================================================
