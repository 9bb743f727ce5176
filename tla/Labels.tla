------------------------------- MODULE Labels -------------------------------
(***************************************************************************)
(* `--label`: given to a VM by `agv create`, and as a selector by          *)
(* `agv ls` and `agv destroy`.  An entry is a record of a key, NoKey when  *)
(* it is empty, and a value, Bare for an entry without `=`.                *)
(***************************************************************************)
CONSTANTS NoKey, Bare

Put(map, key, value) ==
  [k \in {key} \cup DOMAIN map |-> IF k = key THEN value ELSE map[k]]

(* A map over another one. *)
Over(map, under) ==
  [k \in DOMAIN map \cup DOMAIN under |-> IF k \in DOMAIN map THEN map[k] ELSE under[k]]

(* create: a bare entry has the empty value. *)
ParseLabel(map, e) == Put(map, e.key, IF e.value = Bare THEN "" ELSE e.value)

(* A bare selector read as create reads a label. *)
ParseSelectorsAsLabels(want, e) == ParseLabel(want, e)

(* ls, destroy: what is wanted after one more selector; of those that name *)
(* one key the last counts, but a bare one wins over all of them.          *)
ParseLabelSelectors(want, e) ==
  IF e.key \in DOMAIN want /\ want[e.key] = Bare THEN want
  ELSE Put(want, e.key, e.value)

InstanceMatchesLabels(labels, want) ==
  \A k \in DOMAIN want : k \in DOMAIN labels /\ want[k] \in {Bare, labels[k]}
=============================================================================
