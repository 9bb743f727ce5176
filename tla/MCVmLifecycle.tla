--------------------------- MODULE MCVmLifecycle ---------------------------
(***************************************************************************)
(* The instances of VmLifecycle that TLC checks.                           *)
(***************************************************************************)
EXTENDS Hardware

\* Every command that agv offers on one VM.
EveryOp == AllOps

\* Enough to suspend a VM while something lists it.
SuspendAndList == {"create_start", "suspend", "ls"}

\* Where the death of a command leaves work the next command cannot recognise:
\* a QEMU not yet recorded as running, a first boot not yet recorded as failed,
\* a saved session not yet recorded as suspended, files not yet removed; or where
\* it, or a disk that is full, cuts the configuration of a VM in use short.
FragilePoints == {"sweep", "persist", "record", "await", "running", "first_boot",
                  "broken", "quit", "waitexit", "kill", "settle", "unentry"}

SturdyPoints == Labels \ FragilePoints

NoPoint == {}
=============================================================================
