--------------------------- MODULE PureFunctions ---------------------------
(***************************************************************************)
(* The algorithms of agv that keep no state, next to what they should      *)
(* compute: the walks over a list of Scans, and the resolution of a        *)
(* configuration.  A behavior is one call.                                 *)
(***************************************************************************)
EXTENDS ConfigResolution, Scans

vars == <<call, pass, at, out, chain, stack, reached>>

Init ==
  \/ InitResolve
  \/ InitScan /\ chain = <<>> /\ stack = <<>> /\ reached = <<>>

Next ==
  \/ BuildFromCli
  \/ NextScan /\ UNCHANGED resolution

Spec == Init /\ [][Next]_vars

(* A call goes on until it returns, once its prompt is answered. *)
FairSpec == Spec /\ WF_vars(Next)

(* A circular include is reported only when a mixin includes itself,       *)
(* through others or not (error.rs: "circular include dependency").        *)
CircularMeansCycle ==
  Returned("resolve") /\ out.err = "circular_include"
    => \E n \in Chain(call) : \E m \in Mixins(call, n) : m \in Mixins(call, m)

(* Every call returns, also on layers that derive from or include one      *)
(* another in a circle (resolve_inner, apply_includes: `seen`).            *)
CallsEnd == <>(pass = "done")
=============================================================================
