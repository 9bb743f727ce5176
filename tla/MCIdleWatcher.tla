--------------------------- MODULE MCIdleWatcher ---------------------------
(***************************************************************************)
(* The instances of IdleWatcher that TLC checks: two watchers, so that a   *)
(* new one can meet one that has not ended, and a threshold of two polls,  *)
(* so that a count can be kept, reset or come too early.                   *)
(***************************************************************************)
EXTENDS IdleWatcher
=============================================================================
