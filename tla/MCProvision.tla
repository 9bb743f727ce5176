---------------------------- MODULE MCProvision ----------------------------
(***************************************************************************)
(* The instances of Provision that TLC checks: two files to copy, no setup *)
(* step (a phase that is passed) and three provision steps.                *)
(***************************************************************************)
EXTENDS Provision

Entries == <<2, 0, 3>>

AnyPoint == Labels

NoPoint == {}
=============================================================================
