----------------------------- MODULE Provision -----------------------------
(***************************************************************************)
(* First-boot provisioning of one VM and its resumption: the phases        *)
(* ssh_wait, files, setup, provision and complete, the provision_state     *)
(* file that names the next step, the `provisioned` marker beside it, and  *)
(* the runs (create --start, start, start --retry) that move through them. *)
(* A run may fail at the SSH wait or at any step, and the command may be   *)
(* killed anywhere.                                                        *)
(*                                                                         *)
(* Abstractions.  A step is its phase and its index; what it does in the   *)
(* guest is one bit, set when it has completed or been skipped (by the     *)
(* user's answer, or as an optional file that the host does not have).     *)
(* The totals and error texts in the file, the logs and the write of       *)
(* system.md, whose failure is ignored, are left out.                      *)
(***************************************************************************)
EXTENDS Integers

CONSTANTS
    Count,        \* Count[ph]: the entries of files (1), setup (2), provision (3)
    None,         \* no provision_state, or one that does not parse
    SshComesBack, \* once a step has completed, no wait for SSH fails
    TornWrites,   \* a killed write may leave a file that does not parse
    CrashAt       \* the points at which the command may be killed

Labels == {"ssh", "wait", "step", "run", "complete", "marker", "error"}

\* phase 0 is ssh_wait, phase 4 is complete
Places == [phase : 0..4, index : Nat]

ASSUME ProvisionAssumption ==
    /\ Count \in [1..3 -> Nat]
    /\ None \notin Places
    /\ SshComesBack \in BOOLEAN
    /\ TornWrites \in BOOLEAN
    /\ CrashAt \subseteq Labels

At(ph, i) == [phase |-> ph, index |-> i]

Fresh == At(0, 0)
Complete == At(4, 0)

\* the configured steps, in the order of Before
Steps == UNION {{At(ph, i) : i \in 0..(Count[ph] - 1)} : ph \in 1..3}

Before(s, t) ==
    \/ s.phase < t.phase
    \/ s.phase = t.phase /\ s.index < t.index

VARIABLES
    saved,   \* provision_state: the step to run next
    marker,  \* the legacy `provisioned` file exists
    done,    \* the steps that have completed or been skipped
    at,      \* where the command is, "idle" between commands
    cursor   \* the step the run is about to take or taking

vars == <<saved, marker, done, at, cursor>>

TypeOK ==
    /\ saved \in Places \cup {None}
    /\ marker \in BOOLEAN
    /\ done \subseteq Steps
    /\ at \in Labels \cup {"idle"}
    /\ cursor \in Places

Init ==
    /\ saved = None
    /\ marker = FALSE
    /\ done = {}
    /\ at = "idle"
    /\ cursor = Fresh

(* The definitions called ...Fault, here and below: as in VmLifecycle.     *)

\* an unreadable file is taken for a file that says `fresh`
ReadFault == IF saved # None THEN saved ELSE Fresh

\* what read_provision_state makes of the two files
Read == IF saved # None THEN saved ELSE IF marker THEN Complete ELSE Fresh

Provisioned == Read.phase = 4

\* a phase that is resumed counts as done
NextFromFault(p) ==
    LET later == {ph \in 1..3 : ph > p.phase /\ Count[ph] > 0}
    IN  IF p \in Steps /\ p.index = 0 THEN p
        ELSE IF later = {} THEN Complete
        ELSE At(CHOOSE ph \in later : \A q \in later : ph <= q, 0)

\* Place p if there is such a step; else the start of the next phase that has
\* entries: a phase starts at the saved index if it is the saved phase and at 0
\* if it is a later one.
NextFrom(p) ==
    LET later == {ph \in 1..3 : ph > p.phase /\ Count[ph] > 0}
    IN  IF p \in Steps THEN p
        ELSE IF later = {} THEN Complete
        ELSE At(CHOOSE ph \in later : \A q \in later : ph <= q, 0)

Onward(p) == IF NextFrom(p) = Complete THEN "complete" ELSE "step"

-----------------------------------------------------------------------------
(* Faults in the actions.                                                  *)

\* a step that failed is passed over by the retry
StepFailsFault ==
    /\ at = "run"
    /\ saved' = At(cursor.phase, cursor.index + 1)
    /\ at' = "error"
    /\ UNCHANGED <<marker, done, cursor>>

-----------------------------------------------------------------------------
(* A run.                                                                  *)

\* A provisioned VM only waits for SSH.
Begin ==
    /\ at = "idle"
    /\ cursor' = Read
    /\ at' = IF Provisioned THEN "wait" ELSE "ssh"
    /\ UNCHANGED <<saved, marker, done>>

\* the saved phase and index are overwritten before the wait ...
WriteSshWait ==
    /\ at = "ssh"
    /\ saved' = Fresh
    /\ at' = "wait"
    /\ UNCHANGED <<marker, done, cursor>>

\* ... and the run goes on from what it read before
SshReady ==
    /\ at = "wait"
    /\ cursor' = NextFrom(cursor)
    /\ at' = IF Provisioned THEN "idle" ELSE Onward(cursor)
    /\ UNCHANGED <<saved, marker, done>>

SshFails ==
    /\ at = "wait"
    /\ SshComesBack => done = {} \/ Provisioned
    /\ at' = "error"
    /\ UNCHANGED <<saved, marker, done, cursor>>

\* the file names a step before the step runs
WriteStep ==
    /\ at = "step"
    /\ saved' = cursor
    /\ at' = "run"
    /\ UNCHANGED <<marker, done, cursor>>

\* it ran to its end, or was skipped
StepDone ==
    /\ at = "run"
    /\ done' = done \cup {cursor}
    /\ LET after == At(cursor.phase, cursor.index + 1)
       IN  cursor' = NextFrom(after) /\ at' = Onward(after)
    /\ UNCHANGED <<saved, marker>>

\* it failed, or the user quit at its prompt
StepFails ==
    /\ at = "run"
    /\ at' = "error"
    /\ UNCHANGED <<saved, marker, done, cursor>>

WriteComplete ==
    /\ at = "complete"
    /\ saved' = Complete
    /\ at' = "marker"
    /\ UNCHANGED <<marker, done, cursor>>

WriteMarker ==
    /\ at = "marker"
    /\ marker' = TRUE
    /\ at' = "idle"
    /\ UNCHANGED <<saved, done, cursor>>

\* mark_broken_with_error reads the state and writes it back with the error
RecordError ==
    /\ at = "error"
    /\ saved' = Read
    /\ at' = "idle"
    /\ UNCHANGED <<marker, done, cursor>>

Writes == {"ssh", "step", "complete", "error"}

Killed ==
    /\ at \in CrashAt
    /\ \/ UNCHANGED saved
       \/ TornWrites /\ at \in Writes /\ saved' = None
    /\ at' = "idle"
    /\ UNCHANGED <<marker, done, cursor>>

Next ==
    \/ Begin \/ WriteSshWait \/ SshReady \/ SshFails
    \/ WriteStep \/ StepDone \/ StepFails
    \/ WriteComplete \/ WriteMarker \/ RecordError
    \/ Killed

Spec == Init /\ [][Next]_vars

-----------------------------------------------------------------------------
(* Properties                                                              *)

\* Whatever fails, is killed or torn, in any number of runs: a VM that counts
\* as provisioned has every step behind it.
ProvisionedMeansDone == Provisioned => done = Steps

\* No step is ever taken before one that precedes it: a setup step can rely on
\* the files, a provision step on the setup.
InOrder == \A t \in done, s \in Steps : Before(s, t) => s \in done

\* Once the marker exists the VM stays provisioned, also when the command that
\* records a later failure is killed in the middle of its write.
MarkerHolds == marker => Provisioned

\* "A failed provisioning can be resumed from the same point ... instead of
\* restarting from scratch (which would re-run already-completed steps)": no
\* run takes a step that a completed step comes after.
NeverGoesBack == at = "run" => \A t \in done : ~Before(cursor, t)

-----------------------------------------------------------------------------
(* What the properties rest on.                                            *)

\* what lies before place p has been done
Behind(p) == \A s \in Steps : Before(s, p) => s \in done

Progress ==
    /\ TypeOK
    /\ InOrder
    /\ MarkerHolds
    /\ Behind(Read)
    /\ at \in {"ssh", "wait"} => Behind(cursor)
    /\ at \in {"step", "run"} => cursor \in Steps /\ Behind(cursor)
    /\ at = "complete" => Steps \subseteq done
    /\ at = "marker" => Provisioned
    /\ at \in {"ssh", "step", "run", "complete"} => ~marker

\* SSH comes back, and no command is killed while the file says ssh_wait
Steady ==
    /\ SshComesBack
    /\ ~TornWrites
    /\ CrashAt \subseteq {"ssh", "run", "marker", "error"}

\* nothing that comes after place p has been done
Front(p) == \A t \in done : ~Before(p, t)

Frontier ==
    /\ at \in {"idle", "ssh", "run", "marker", "error"} => Front(Read)
    /\ at \in {"ssh", "wait", "step", "run"} => Front(cursor)
=============================================================================
