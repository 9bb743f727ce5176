---------------------------- MODULE MCSshConfig ----------------------------
(***************************************************************************)
(* The instance of SshInclude that TLC checks: three commands, so that one *)
(* can hold the lock, one wait for it and one have been killed, and two    *)
(* doctors.                                                                *)
(***************************************************************************)
EXTENDS SshInclude
=============================================================================
