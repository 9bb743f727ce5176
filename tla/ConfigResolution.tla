-------------------------- MODULE ConfigResolution --------------------------
(***************************************************************************)
(* build_from_cli: the command line and the layers, resolved into the      *)
(* config that an instance is made from.  The recursion of the code, over  *)
(* the images that a layer derives from and the mixins that each of them   *)
(* includes, is a walk here: `chain` holds the calls of resolve_inner,     *)
(* `stack` those of apply_includes, `reached` their loops and what they    *)
(* have seen.                                                              *)
(*                                                                         *)
(* Simplifications.  A configuration file is given with what it says: that *)
(* a file does not load, that this machine's architecture is none of the   *)
(* two, and the check of the ports of the forwards are left out.           *)
(***************************************************************************)
EXTENDS ConfigLayers, Labels, Calls, SequencesExt

CONSTANTS
  Creates,  \* catalogues of images and mixins, with a command line of `agv create`
  Top,      \* the layer of the command line; nothing else has that name
  BadSizes, \* sizes that normalize_size refuses
  BadNames  \* names that validate_auto_forward_name refuses

VARIABLES
  chain,    \* Top, the image it derives from, and so on; chain[at] is being applied
  stack,    \* that layer and the mixins that are being included for it, innermost last
  reached   \* the include that is next, of the layer and of each mixin seen

resolution == <<chain, stack, reached>>
-----------------------------------------------------------------------------
Or(value, default) == IF value = None THEN default ELSE value

(* The layer that the command line names: a config file, else an image,    *)
(* else the default image; with what the command line sets over it.        *)
Source(args) ==
  IF args.config # None THEN args.config
  ELSE [Layer EXCEPT !.from = Or(args.image, "ubuntu-26.04")]

Overlay(args) ==
  LET c == Source(args) IN
  [c EXCEPT !.vm = TRUE, !.memory = Or(args.memory, @), !.backend = Or(args.backend, @),
            !.include = @ \o args.include, !.spec = Or(args.spec, @)]

Here(c, name) == name = Top \/ Known(c.cat, name)
At(c, name) == IF name = Top THEN Overlay(c.args) ELSE Lookup(c.cat, name)

(* The variables of `{{VAR}}` and `{{VAR:-default}}`, from the weakest     *)
(* source to the strongest: .env beside the config, .env here, --env-file, *)
(* the environment.                                                        *)
Sources == <<"config_dir", "cwd", "env_file", "host">>
Given(args) ==
  {i \in DOMAIN Sources : /\ Sources[i] \in args.env
                          /\ Sources[i] = "config_dir" => args.config # None}
Unset(args) == args.uses = "{{VAR}}" /\ Given(args) = {}
LoadVariables(args, default) ==
  IF Given(args) = {} THEN default
  ELSE Sources[CHOOSE i \in Given(args) : \A j \in Given(args) : j <= i]

(* Every layer is a list of fields, with a list of includes; no layer is   *)
(* called Top, nor derives from Top or includes it.                        *)
IsLayer(l) ==
  /\ DOMAIN l = Fields
  /\ l.from # Top
  /\ IsList(l.include) /\ \A i \in DOMAIN l.include : l.include[i] # Top

Layers(c) == {c.cat.user[n] : n \in DOMAIN c.cat.user}
             \cup {c.cat.builtin[n] : n \in DOMAIN c.cat.builtin} \cup {Source(c.args)}

WellFormed(c) ==
  /\ \A l \in Layers(c) : IsLayer(l)
  /\ IsList(c.args.include) /\ \A i \in DOMAIN c.args.include : c.args.include[i] # Top
  /\ IsList(c.args.labels)

ASSUME ResolutionAssumption == \A c \in Creates : WellFormed(c)
-----------------------------------------------------------------------------
(* The resolved config, with the first error in err.  `given` is what has  *)
(* been read of the labels of the command line.                            *)
Resolved ==
  [err |-> "none", family |-> None, memory |-> None, idle |-> 0, backend |-> None,
   user |-> None, steps |-> <<>>, autos |-> {}, labels |-> <<>>, given |-> <<>>,
   variable |-> None]

Ok(r) == r.err = "none"

(* What a layer adds to the lists. *)
Own(name) == <<name, "own">>
ForFamily(name) == <<name, "family">>
FamilyFirst(name, layer, family) ==
  IF family \in layer.families THEN <<ForFamily(name), Own(name)>> ELSE <<Own(name)>>
StepsOf(name, layer, family) ==
  IF family \in layer.families THEN <<Own(name), ForFamily(name)>> ELSE <<Own(name)>>

(* merge: the child's scalars over the parent's. *)
Merge(parent, child) ==
  [parent EXCEPT !.memory = Or(child.memory, @), !.idle = Or(child.idle, @),
                 !.backend = Or(child.backend, @), !.user = Or(child.user, @),
                 !.family = Or(child.family, @)]

Root(layer) ==
  [Resolved EXCEPT !.family = layer.family, !.memory = Or(layer.memory, 2),
                   !.idle = Or(layer.idle, 0), !.backend = Or(layer.backend, DefaultBackend),
                   !.user = Or(layer.user, "agent")]

(* merge_auto_forwards goes through a layer's names in their order; of two *)
(* that are wrong, which comes first is left open.                         *)
WrongAutos(r, layer) ==
  {error \in {"bad_auto"} : layer.autos \cap BadNames # {}}
    \cup {error \in {"duplicate_auto"} : r.autos \cap layer.autos # {}}

(* What the user's own layer leaves open, the spec fills in; what its      *)
(* parents say of memory counts for nothing.                               *)
FillKeepingParents(r, layer, size) == IF r.memory = 2 THEN [r EXCEPT !.memory = size] ELSE r
FillFromSpec(r, layer, size) == [r EXCEPT !.memory = Or(layer.memory, size)]
-----------------------------------------------------------------------------
Refuse(error) == Done([out EXCEPT !.err = error]) /\ UNCHANGED resolution

InitResolve ==
  /\ call \in {[kind |-> "resolve", cat |-> c.cat, args |-> c.args] : c \in Creates}
  /\ pass = "backend" /\ at = 1 /\ out = Resolved
  /\ chain = <<Top>> /\ stack = <<>> /\ reached = <<>>

(* validate_backend, then a --file without a colon. *)
CheckArguments ==
  /\ In("resolve", "backend")
  /\ IF call.args.backend \notin Backends \cup {None} THEN Refuse("bad_backend")
     ELSE IF call.args.badFile THEN Refuse("bad_file")
     ELSE Walk("parents") /\ UNCHANGED <<out, resolution>>

(* resolve_inner, down to the image that derives from none. *)
FollowFrom ==
  /\ In("resolve", "parents")
  /\ LET from == At(call, chain[at]).from IN
     /\ from # None
     /\ IF from \in ToSet(chain) THEN Refuse("circular_inheritance")
        ELSE IF ~Here(call, from) THEN Refuse("unknown_image")
        ELSE /\ chain' = Append(chain, from)
             /\ at' = at + 1
             /\ UNCHANGED <<pass, out, stack, reached>>

Enter(name) ==
  /\ pass' = "includes"
  /\ stack' = <<name>>
  /\ reached' = [n \in {name} |-> 1]
  /\ UNCHANGED chain

RootImage ==
  /\ In("resolve", "parents")
  /\ LET layer == At(call, chain[at]) IN
     /\ layer.from = None
     /\ IF ~layer.arch THEN Refuse("no_base_image")
        ELSE IF layer.family = None THEN Refuse("no_family")
        ELSE out' = Root(layer) /\ Enter(chain[at]) /\ UNCHANGED at

(* And back up: the child's scalars, its includes, its own steps. *)
MergeChild ==
  /\ In("resolve", "applied") /\ at > 1
  /\ out' = Merge(out, At(call, chain[at-1]))
  /\ Enter(chain[at-1])
  /\ at' = at - 1

(* apply_includes: the next include of the innermost one. *)
Include ==
  /\ In("resolve", "includes")
  /\ LET n == Last(stack)
         includes == At(call, n).include
         m == includes[reached[n]]
     IN /\ reached[n] <= Len(includes)
        /\ IF m \in DOMAIN reached \ {chain[at]} THEN Refuse("circular_include")
           ELSE IF ~Here(call, m) THEN Refuse("unknown_include")
           ELSE IF NotAMixin(At(call, m)) THEN Refuse("not_a_mixin")
           ELSE /\ stack' = Append(stack, m)
                /\ reached' = [k \in DOMAIN reached \cup {m} |->
                                 IF k = m THEN 1 ELSE IF k = n THEN reached[n] + 1 ELSE reached[k]]
                /\ UNCHANGED <<pass, at, out, chain>>

(* What a mixin adds, once what it includes has been added. *)
Contribute ==
  /\ In("resolve", "includes") /\ Len(stack) > 1
  /\ LET m == Last(stack)
         layer == At(call, m)
     IN /\ reached[m] > Len(layer.include)
        /\ IF layer.supports # None /\ ~(layer.families \subseteq layer.supports)
           THEN Refuse("unlisted_family")
           ELSE IF ~Supports(layer, out.family) THEN Refuse("unsupported_family")
           ELSE IF WrongAutos(out, layer) # {} THEN \E e \in WrongAutos(out, layer) : Refuse(e)
           ELSE /\ out' = [out EXCEPT !.steps = @ \o StepsOf(m, layer, out.family),
                                      !.autos = @ \cup layer.autos]
                /\ stack' = Front(stack)
                /\ UNCHANGED <<pass, at, chain, reached>>

ApplyOwn ==
  /\ In("resolve", "includes") /\ Len(stack) = 1
  /\ LET layer == At(call, chain[at]) IN
     /\ reached[chain[at]] > Len(layer.include)
     /\ IF WrongAutos(out, layer) # {} THEN \E e \in WrongAutos(out, layer) : Refuse(e)
        ELSE /\ out' = [out EXCEPT !.steps = Append(@, Own(chain[at])),
                                   !.autos = @ \cup layer.autos,
                                   !.labels = Over(layer.labels, @)]
             /\ pass' = "applied"
             /\ UNCHANGED <<at, resolution>>

(* resolve, expand_config. *)
ApplySpec ==
  /\ In("resolve", "applied") /\ at = 1
  /\ LET layer == At(call, Top)
         spec == Or(layer.spec, "medium")
         filled == FillFromSpec(out, layer, Specs[spec])
     IN IF spec \notin DOMAIN Specs THEN Refuse("unknown_spec")
        ELSE IF filled.memory \in BadSizes THEN Refuse("bad_size")
        ELSE /\ out' = filled
             /\ pass' = "variables"
             /\ UNCHANGED <<at, resolution>>

ExpandConfig ==
  /\ In("resolve", "variables")
  /\ LET args == call.args IN
     IF args.lostEnvFile THEN Refuse("no_env_file")
     ELSE IF Unset(args) THEN Refuse("unset_variable")
     ELSE /\ out' = [out EXCEPT !.variable = IF args.uses = None THEN None
                                             ELSE LoadVariables(args, "default")]
          /\ Walk("labels")
          /\ UNCHANGED resolution

ParseNextLabel ==
  /\ In("resolve", "labels") /\ at <= Len(call.args.labels)
  /\ LET e == call.args.labels[at] IN
     IF e.key = NoKey THEN Refuse("empty_key")
     ELSE IF e.key \in DOMAIN out.given THEN Refuse("duplicate_label")
     ELSE /\ out' = [out EXCEPT !.given = ParseLabel(@, e)]
          /\ On(call.args.labels)
          /\ UNCHANGED <<pass, resolution>>

(* The command line's labels win.  AVF cannot suspend. *)
Build ==
  /\ In("resolve", "labels") /\ Past(call.args.labels)
  /\ IF out.backend = "avf" /\ out.idle > 0 THEN Refuse("avf_idle")
     ELSE Done([out EXCEPT !.labels = Over(out.given, @)]) /\ UNCHANGED resolution

BuildFromCli ==
  \/ CheckArguments \/ FollowFrom \/ RootImage \/ MergeChild \/ Include \/ Contribute
  \/ ApplyOwn \/ ApplySpec \/ ExpandConfig \/ ParseNextLabel \/ Build
-----------------------------------------------------------------------------
(* What the layers of a call are to one another, as a graph.               *)

(* Every layer that is named by some layer. *)
Everyone(c) == Layers(c) \cup {Overlay(c.args)}
Includable(c) == UNION {{l.include[i] : i \in DOMAIN l.include} : l \in Everyone(c)}
Derivable(c) == {l.from : l \in Everyone(c)} \ {None}

(* What is in every set that is closed under `include` and holds the       *)
(* includes of a layer: the mixins it includes, through others too.        *)
Listed(c, n) ==
  IF Here(c, n) THEN {At(c, n).include[i] : i \in DOMAIN At(c, n).include} ELSE {}
Includes(c, S) == \A m \in S : Listed(c, m) \subseteq S
Mixins(c, n) ==
  {m \in Includable(c) : \A S \in SUBSET Includable(c) :
     Includes(c, S) /\ Listed(c, n) \subseteq S => m \in S}

(* The layers that a layer derives from, itself included. *)
Derives(c, S) == \A m \in S : Here(c, m) /\ At(c, m).from # None => At(c, m).from \in S
Above(c, n) ==
  {m \in Derivable(c) \cup {n} : \A S \in SUBSET (Derivable(c) \cup {n}) :
     Derives(c, S) /\ n \in S => m \in S}
Chain(c) == Above(c, Top)

(* What the nearest layer that sets a field sets it to. *)
Nearest(c, n, field, default) ==
  LET setters == {m \in Above(c, n) : Here(c, m) /\ At(c, m)[field] # None}
  IN IF setters = {} THEN default
     ELSE At(c, CHOOSE m \in setters : setters \subseteq Above(c, m))[field]

FamilyAt(c, n) == Nearest(c, n, "family", None)

(* The places where a mixin is included on behalf of a layer. *)
Mentions(c, n) ==
  UNION {{m} \X DOMAIN At(c, m).include : m \in {k \in {n} \cup Mixins(c, n) : Here(c, k)}}
Named(c, mention) == At(c, mention[1]).include[mention[2]]

(* The layers and mixins of a config, each with the layer it is for.       *)
Parts(c) == UNION {{n} \X ({n} \cup Mixins(c, n)) : n \in Chain(c)}
-----------------------------------------------------------------------------
(* Everything that a command line is refused for.  Of what a layer includes: *)
Faulty(c, n) ==
  LET mixins == Mixins(c, n)
      here == {m \in mixins : Here(c, m)}
  IN {cause \in {"circular_include"} :
        \E a, b \in Mentions(c, n) : a # b /\ Named(c, a) = Named(c, b)} \cup
     {cause \in {"unknown_include"} : \E m \in mixins : ~Here(c, m)} \cup
     {cause \in {"not_a_mixin"} : \E m \in here : NotAMixin(At(c, m))} \cup
     {cause \in {"unlisted_family"} :
        \E m \in here : /\ At(c, m).supports # None
                        /\ ~(At(c, m).families \subseteq At(c, m).supports)} \cup
     {cause \in {"unsupported_family"} :
        \E m \in here :
          \/ At(c, m).supports # None /\ FamilyAt(c, n) \notin At(c, m).supports
          \/ /\ At(c, m).supports = None /\ At(c, m).families # {}
             /\ FamilyAt(c, n) \notin At(c, m).families}

(* Of the layers that the config derives from: *)
ChainFaults(c) ==
  {cause \in {"circular_inheritance"} :
     \E n \in Chain(c) : Here(c, n) /\ At(c, n).from # None /\ n \in Above(c, At(c, n).from)} \cup
  {cause \in {"unknown_image"} : \E n \in Chain(c) : ~Here(c, n)} \cup
  {cause \in {"no_base_image"} :
     \E n \in Chain(c) : Here(c, n) /\ At(c, n).from = None /\ ~At(c, n).arch} \cup
  {cause \in {"no_family"} :
     \E n \in Chain(c) : Here(c, n) /\ At(c, n).from = None /\ At(c, n).family = None} \cup
  {cause \in {"duplicate_auto"} :
     \E a, b \in Parts(c) : /\ a # b /\ Here(c, a[2]) /\ Here(c, b[2])
                            /\ At(c, a[2]).autos \cap At(c, b[2]).autos # {}} \cup
  {cause \in {"bad_auto"} :
     \E p \in Parts(c) : Here(c, p[2]) /\ At(c, p[2]).autos \cap BadNames # {}}

(* Of the command line, and of what has been resolved: *)
SpecOf(c) == Or(At(c, Top).spec, "medium")
ArgumentFaults(c) ==
  LET labels == c.args.labels
  IN {cause \in {"bad_backend"} : c.args.backend \notin Backends \cup {None}} \cup
     {cause \in {"bad_file"} : c.args.badFile} \cup
     {cause \in {"unknown_spec"} : SpecOf(c) \notin DOMAIN Specs} \cup
     {cause \in {"bad_size"} :
        SpecOf(c) \in DOMAIN Specs /\ Or(At(c, Top).memory, Specs[SpecOf(c)]) \in BadSizes} \cup
     {cause \in {"no_env_file"} : c.args.lostEnvFile} \cup
     {cause \in {"unset_variable"} : Unset(c.args)} \cup
     {cause \in {"empty_key"} : \E i \in DOMAIN labels : labels[i].key = NoKey} \cup
     {cause \in {"duplicate_label"} :
        \E i, j \in DOMAIN labels : i # j /\ labels[i].key = labels[j].key} \cup
     {cause \in {"avf_idle"} :
        Nearest(c, Top, "backend", DefaultBackend) = "avf" /\ Nearest(c, Top, "idle", 0) > 0}

Causes(c) ==
  ChainFaults(c) \cup ArgumentFaults(c)
    \cup (UNION {Faulty(c, n) : n \in {k \in Chain(c) : Here(c, k)}})

(* A command line is refused exactly when there is something wrong with    *)
(* it, and for a reason it has; whatever the layer that the fault is in,   *)
(* and whatever else is in the way (apply_includes, resolve_inner).        *)
RefusesExactly ==
  Returned("resolve") =>
    IF Causes(call) = {} THEN Ok(out) ELSE out.err \in Causes(call)
-----------------------------------------------------------------------------
Accepted == Returned("resolve") /\ Ok(out)

(* The steps of the mixins that a layer includes: each mixin's once, with  *)
(* those for the VM's os_family, if it has any, right after; after the     *)
(* steps of everything the mixin includes; in the order of the includes.   *)
InOrder(c, n, steps) ==
  LET family == {m \in Mixins(c, n) : FamilyAt(c, n) \in At(c, m).families}
      precedes(a, b) == \A i, j \in DOMAIN steps : steps[i] = Own(a) /\ steps[j] = Own(b) => i < j
  IN /\ ToSet(steps) = {Own(m) : m \in Mixins(c, n)} \cup {ForFamily(m) : m \in family}
     /\ \A i, j \in DOMAIN steps : steps[i] = steps[j] => i = j
     /\ \A i \in DOMAIN steps : \A m \in family :
          steps[i] = Own(m) => i < Len(steps) /\ steps[i+1] = ForFamily(m)
     /\ \A m \in Mixins(c, n) : \A k \in Mixins(c, m) : precedes(k, m)
     /\ \A m \in {n} \cup Mixins(c, n) : \A i, j \in DOMAIN At(c, m).include :
          i < j => LET b == At(c, m).include[j]
                   IN \A k \in {b} \cup Mixins(c, b) : precedes(At(c, m).include[i], k)

(* Every layer takes its own steps once, after those of the layer it       *)
(* derives from; between the two come the steps of the mixins it includes, *)
(* in order (apply_includes, resolve_inner).                               *)
Ordered(c, steps) ==
  LET places(n) == {i \in DOMAIN steps : steps[i] = Own(n)}
      own(n) == CHOOSE i \in places(n) : TRUE
      start(n) == IF At(c, n).from = None THEN 0 ELSE own(At(c, n).from)
  IN /\ \A n \in Chain(c) :
          /\ \E i \in DOMAIN steps : places(n) = {i}
          /\ start(n) < own(n)
          /\ InOrder(c, n, SubSeq(steps, start(n) + 1, own(n) - 1))
     /\ own(Top) = Len(steps)

LayersInOrder == Accepted => Ordered(call, out.steps)

(* What the command line says wins, then the config file, then the images  *)
(* it derives from, nearest first; except that memory comes from the spec  *)
(* (of the command line, of the file, else medium) when neither of the     *)
(* first two gives it, whatever the images say.  A variable has the value  *)
(* of the strongest source that sets it (resolve, merge, load_variables).  *)
Precedence(c, r) ==
  LET args == c.args
      file == Source(args)
      given(k) == {i \in DOMAIN args.labels : args.labels[i].key = k}
      setters(k) == {n \in Chain(c) : k \in DOMAIN At(c, n).labels}
  IN /\ r.memory = Or(args.memory, Or(file.memory, Specs[Or(args.spec, Or(file.spec, "medium"))]))
     /\ r.backend = Or(args.backend, Or(file.backend, Nearest(c, Top, "backend", DefaultBackend)))
     /\ r.idle = Nearest(c, Top, "idle", 0)
     /\ r.user = Nearest(c, Top, "user", "agent")
     /\ \A k \in DOMAIN r.labels : given(k) # {} \/ setters(k) # {}
     /\ \A i \in DOMAIN args.labels :
          LET e == args.labels[i]
          IN e.key \in DOMAIN r.labels
             /\ r.labels[e.key] = (IF e.value = Bare THEN "" ELSE e.value)
     /\ \A n \in Chain(c) : \A k \in DOMAIN At(c, n).labels :
          given(k) = {} /\ setters(k) \subseteq Above(c, n)
            => k \in DOMAIN r.labels /\ r.labels[k] = At(c, n).labels[k]
     /\ args.uses # None =>
          IF Given(args) = {} THEN r.variable = "default"
          ELSE \E i \in Given(args) : r.variable = Sources[i] /\ \A j \in Given(args) : j <= i

CliPrecedence == Accepted => Precedence(call, out)
=============================================================================
