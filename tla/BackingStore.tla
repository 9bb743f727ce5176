---------------------------- MODULE BackingStore ----------------------------
(***************************************************************************)
(* What the image cache and the templates promise together, whatever the   *)
(* locks and part files behind it: a base appears whole, does not change   *)
(* while it is there, and does not go while a VM's disk stands on it.      *)
(***************************************************************************)
CONSTANTS Bases, VMs, Content, Nothing

VARIABLES
  store,        \* what each base holds for whoever looks it up, or Nothing
  stands        \* the base a VM's disk stands on, or Nothing

Init ==
  /\ store = [b \in Bases |-> Nothing]
  /\ stands = [v \in VMs |-> Nothing]

Publish(b, c) ==
  /\ store[b] = Nothing
  /\ store' = [store EXCEPT ![b] = c]
  /\ UNCHANGED stands

Attach(v, b) ==
  /\ stands[v] = Nothing /\ store[b] # Nothing
  /\ stands' = [stands EXCEPT ![v] = b]
  /\ UNCHANGED store

Detach(v) ==
  /\ stands[v] # Nothing
  /\ stands' = [stands EXCEPT ![v] = Nothing]
  /\ UNCHANGED store

Discard(b) ==
  /\ \A v \in VMs : stands[v] # b
  /\ store[b] # Nothing
  /\ store' = [store EXCEPT ![b] = Nothing]
  /\ UNCHANGED stands

Next ==
  \/ \E b \in Bases, c \in Content : Publish(b, c)
  \/ \E b \in Bases, v \in VMs : Attach(v, b)
  \/ \E v \in VMs : Detach(v)
  \/ \E b \in Bases : Discard(b)

Spec == Init /\ [][Next]_<<store, stands>>
=============================================================================
