----------------------------- MODULE SshInclude -----------------------------
(***************************************************************************)
(* The managed SSH config of SshConfig, next to `agv doctor --setup-ssh`   *)
(* and `--remove-ssh`, which put the Include line into the user's own      *)
(* config and take it out, and of which the first also creates the managed *)
(* file: not under its lock.                                               *)
(*                                                                         *)
(* Simplifications.  Of the user's own config there is only whether it has *)
(* the Include block, and it is written in one step.                       *)
(***************************************************************************)
EXTENDS SshConfig

CONSTANTS
    Doctors,      \* `agv doctor` commands that may run at the same time
    SetupAnytime  \* may the managed file be written for the first time while
                  \* a doctor is about to create it

ASSUME SetupAssumption == SetupAnytime \in BOOLEAN

VARIABLES
    included,  \* ~/.ssh/config has the Include block
    managed,   \* the managed file exists
    at         \* where each doctor is

setupVars == <<included, managed, at>>
sharedVars == <<vars, setupVars>>

SharedInit ==
    /\ Init
    /\ included = FALSE
    /\ managed = FALSE
    /\ at = [d \in Doctors |-> "idle"]

SetupTypeOK ==
    /\ included \in BOOLEAN
    /\ managed \in BOOLEAN
    /\ at \in [Doctors -> {"idle", "include", "look", "create"}]

SetupGoto(d, l) == at' = [at EXCEPT ![d] = l]

\* is_include_installed
SetupCheck(d) ==
    /\ at[d] = "idle"
    /\ ~included
    /\ SetupGoto(d, "include")
    /\ UNCHANGED <<vars, included, managed>>

Include(d) ==
    /\ at[d] = "include"
    /\ included' = TRUE
    /\ SetupGoto(d, "look")
    /\ UNCHANGED <<vars, managed>>

LookForManaged(d) ==
    /\ at[d] = "look"
    /\ SetupGoto(d, IF managed THEN "idle" ELSE "create")
    /\ UNCHANGED <<vars, included, managed>>

\* what is in the file by now is gone
CreateManaged(d) ==
    /\ at[d] = "create"
    /\ file' = {}
    /\ managed' = TRUE
    /\ SetupGoto(d, "idle")
    /\ UNCHANGED <<lock, pc, local, included>>

RemoveInclude(d) ==
    /\ at[d] = "idle"
    /\ included
    /\ included' = FALSE
    /\ UNCHANGED <<vars, managed, at>>

DoctorKilled(d) ==
    /\ at[d] # "idle"
    /\ SetupGoto(d, "idle")
    /\ UNCHANGED <<vars, included, managed>>

DoctorStep(d) ==
    \/ SetupCheck(d) \/ Include(d) \/ LookForManaged(d) \/ CreateManaged(d)
    \/ RemoveInclude(d) \/ DoctorKilled(d)

\* a write of add_entry or remove_entry creates the managed file
CommandStep ==
    /\ Next
    /\ LET opened == \E c \in Cmds : pc[c] = "truncate" /\ pc'[c] = "write"
       IN /\ managed' = (managed \/ opened)
          /\ opened => SetupAnytime \/ \A d \in Doctors : at[d] # "create"
    /\ UNCHANGED <<included, at>>

SharedNext == CommandStep \/ \E d \in Doctors : DoctorStep(d)

SharedSpec == SharedInit /\ [][SharedNext]_sharedVars

-----------------------------------------------------------------------------
\* The first setup is over: the managed file exists, no doctor that missed it
\* is left, and no command works on the file as it was before it was created.
SetUp == managed /\ (\A d \in Doctors : at[d] # "create") /\ TextFollowsFile

\* Whatever races with the first setup, once it is over it stays over, and no
\* command or doctor changes the entry of another VM again.
OnceSetUp == [][SetUp => SetUp' /\ [Hosts!Next]_Settled]_sharedVars
=============================================================================
