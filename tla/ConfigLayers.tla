---------------------------- MODULE ConfigLayers ----------------------------
(***************************************************************************)
(* The layers that a VM's configuration is made of: the config or the      *)
(* image that `agv create` names, the images it derives from, the mixins   *)
(* that each of them includes, and how a name is looked up.                *)
(*                                                                         *)
(* Simplifications.  The files, setup, provision, notes and manual steps   *)
(* of a layer are one contribution, in the name of the layer; those it has *)
(* for an os_family are another.  memory stands for the fields of [vm]     *)
(* that a spec fills in (memory, cpus, disk), idle for those it does not.  *)
(***************************************************************************)
EXTENDS Naturals, Sequences, FiniteSets, TLC, SequencesExt

CONSTANTS
  None,       \* a field that is not set
  Alias,      \* shorthand for a built-in image: [name |-> canonical name]
  Specs,      \* memory of the hardware specs: [name |-> size]
  Backends,       \* the backends this host knows
  DefaultBackend  \* the one it creates VMs with

(* The [base] section: where the layer stands, what it includes.  *)
BaseSection ==
  [from |-> None, include |-> <<>>, arch |-> FALSE, family |-> None, spec |-> None,
   user |-> None]

(* The [vm] section; vm says whether there is one. *)
VmSection == [vm |-> FALSE, memory |-> None, idle |-> None, backend |-> None]

(* One layer: those two, `supports`, the families it has steps for, its    *)
(* auto_forwards and its labels.                                           *)
Layer ==
  BaseSection @@ VmSection
    @@ [supports |-> None, families |-> {}, autos |-> {}, labels |-> <<>>]

Fields == {"from", "include", "arch", "family", "spec", "user", "vm", "memory", "idle",
           "backend", "supports", "families", "autos", "labels"}

(* A catalogue: the layers that are built in and those in the user's       *)
(* images directory, which win, over an alias too.                         *)
ResolveAlias(name) == IF name \in DOMAIN Alias THEN Alias[name] ELSE name

Known(cat, name) == name \in DOMAIN cat.user \/ ResolveAlias(name) \in DOMAIN cat.builtin
Lookup(cat, name) ==
  IF name \in DOMAIN cat.user THEN cat.user[name] ELSE cat.builtin[ResolveAlias(name)]

(* What a mixin may not set. *)
NotAMixin(layer) ==
  layer.from # None \/ layer.arch \/ layer.spec # None \/ layer.user # None \/ layer.vm

(* Only the families it has steps for count. *)
SupportsIfSteps(layer, family) == layer.families = {} \/ family \in layer.families

(* The families a mixin supports: as it says, else those it has steps for, *)
(* else all of them.                                                       *)
Supports(layer, family) ==
  IF layer.supports # None THEN family \in layer.supports
  ELSE layer.families = {} \/ family \in layer.families
=============================================================================
