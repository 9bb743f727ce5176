-------------------------- MODULE MCPureFunctions --------------------------
(***************************************************************************)
(* Small catalogues and command lines.  The first family varies how layers *)
(* include and derive from one another, the second what they set; both go  *)
(* through a derived image, "par", and a base image that is named by its   *)
(* alias.                                                                  *)
(***************************************************************************)
EXTENDS PureFunctions

CONSTANTS none, nokey, bare, top

MCAlias == "ubuntu" :> "ubuntu-26.04"
MCSpecs == "small" :> 1 @@ "medium" :> 3 @@ "odd" :> 5
MCBadSizes == {5}
MCBadNames == {"Web"}
MCBackends == {"qemu", "avf"}
MCDefaultBackend == "qemu"

Base == [Layer EXCEPT !.arch = TRUE, !.family = "debian"]
Par == [Layer EXCEPT !.from = "ubuntu", !.autos = {"web"}]
Plain == [config |-> none, image |-> none, memory |-> none, backend |-> none, include |-> <<>>,
          spec |-> none, labels |-> <<>>, env |-> {}, uses |-> none, lostEnvFile |-> FALSE,
          badFile |-> FALSE]
Builtin(mixins) == "ubuntu-26.04" :> Base @@ mixins

Lists(S, n) == UNION {[1..k -> S] : k \in 0..n}

(* Who includes whom. *)
Shapes ==
  {[cat |-> [builtin |-> Builtin("m1" :> [Layer EXCEPT !.include = i1]
                                 @@ "m2" :> [Layer EXCEPT !.include = i2, !.supports = sup,
                                                          !.families = fam]
                                 @@ "m3" :> [Layer EXCEPT !.autos = au]),
             user |-> "par" :> [Par EXCEPT !.include = ip]],
    args |-> [Plain EXCEPT !.config = [Layer EXCEPT !.from = "par", !.include = it],
                           !.include = ic]]
     : it \in Lists({"m1", "m2", "m3"}, 2), ip \in {<<>>, <<"m1">>, <<"m3">>},
       i1 \in {<<>>, <<"m2">>, <<"m3">>, <<"m2", "m3">>}, i2 \in {<<>>, <<"m1">>, <<"m3">>},
       sup \in {none, {"debian"}}, fam \in {{}, {"debian"}, {"fedora"}},
       au \in {{}, {"web"}}, ic \in {<<>>, <<"m3">>}}

(* What is wrong with a layer, and families that a child changes. *)
Faults ==
  {[cat |-> [builtin |-> Builtin("m1" :> m),
             user |-> "par" :> [Par EXCEPT !.from = pf, !.family = pfam, !.include = ip, !.autos = au]
                      @@ "bare" :> [Layer EXCEPT !.family = "debian"]
                      @@ "odd" :> [Layer EXCEPT !.arch = TRUE]],
    args |-> [Plain EXCEPT !.image = img, !.include = ic]]
     : pf \in {"ubuntu", "par", "bare", "odd", "gone"}, pfam \in {none, "fedora"}, au \in {{"web"}, {"Web"}},
       ip \in {<<>>, <<"m1">>},
       m \in {[Layer EXCEPT !.supports = sup, !.families = fam]
                : sup \in {none, {"debian"}, {"debian", "fedora"}}, fam \in {{}, {"fedora"}}}
             \cup {[Layer EXCEPT !.spec = "small"], [Layer EXCEPT !.autos = {"web", "Web"}]},
       img \in {none, "par"}, ic \in {<<>>, <<"m1">>, <<"gone">>, <<"par">>}}

(* Up to two entries of --label. *)
Entries == Lists([key : {"a", nokey}, value : {bare, "new"}], 2)

(* What the layers and the command line set. *)
Sizes ==
  {[cat |-> [builtin |-> Builtin(<<>>), user |-> "par" :> [Par EXCEPT !.memory = m[1], !.vm = TRUE]],
    args |-> [Plain EXCEPT !.config = [Layer EXCEPT !.from = "par", !.memory = m[2],
                                                    !.spec = sp[1]],
                           !.memory = m[3], !.spec = sp[2]]]
     : m \in [1..3 -> {none, 2, 4, 5}], sp \in {none, "small", "huge", "odd"} \X {none, "small"}}

Set(b, i, u, lb) ==
  [cat |-> [builtin |-> Builtin(<<>>),
            user |-> "par" :> [Par EXCEPT !.backend = b[1], !.idle = i, !.user = u,
                                          !.labels = "a" :> "old" @@ "b" :> "kept"]],
   args |-> [Plain EXCEPT !.config = [Layer EXCEPT !.from = "par", !.backend = b[2]],
                          !.backend = b[3], !.labels = lb]]

Others ==
  {Set(b, i, u, <<>>) : b \in {none, "qemu", "avf"} \X {none, "avf"} \X {none, "qemu", "xen"},
                        i \in {none, 0, 5}, u \in {none, "bob"}}
  \cup {Set(<<none, none, none>>, i, none, lb) : i \in {none, 5}, lb \in Entries}

(* Where a variable is set. *)
Variables ==
  {[cat |-> [builtin |-> Builtin(<<>>), user |-> <<>>],
    args |-> [Plain EXCEPT !.config = c, !.uses = u, !.env = e, !.lostEnvFile = l, !.badFile = bf]]
     : c \in {none, [Layer EXCEPT !.from = "ubuntu"]}, u \in {none, "{{VAR}}", "{{VAR:-default}}"},
       e \in SUBSET ToSet(Sources), l \in BOOLEAN, bf \in BOOLEAN}

MCCreates == Shapes \cup Faults \cup Sizes \cup Others \cup Variables

(* VMs with labels on two keys. *)
Labelled == [loads : BOOLEAN, status : {"running", "stopped"},
             labels : {<<>>, "a" :> "x", "a" :> "y", "a" :> "x" @@ "b" :> "x"}]
MCDestroys ==
  [vms : {<<v, w>> : v \in Labelled, w \in {x \in Labelled : x.loads}},
   raw : {<<>>, <<[key |-> nokey, value |-> "x"]>>}
         \cup Lists([key : {"a"}, value : {bare, "x", "y"}], 2)
         \cup {<<[key |-> "a", value |-> "x"], [key |-> "b", value |-> b]>> : b \in {bare, "x"}},
   force : BOOLEAN]

(* Words of 8 bits; K, M and G are 1, 4 and 16 bytes. *)
MCWord == 256
MCLetter == "k" :> "K" @@ "K" :> "K" @@ "M" :> "M" @@ "MB" :> "M"
            @@ "G" :> "G" @@ "GiB" :> "G"
MCUnits == "K" :> 1 @@ "M" :> 4 @@ "G" :> 16
SizesOf == {[num |-> n, suffix |-> x] : n \in {0, 1, 9, 15}, x \in {"k", "MB", "GiB"}}
           \cup {[num |-> n, suffix |-> "k"] : n \in {90, 255}}
MCBoots ==
  [vms : {<<[loads |-> l, status |-> s, memory |-> m], [loads |-> TRUE, status |-> "running", memory |-> k]>>
            : l \in BOOLEAN, s \in {"creating", "stopped"},
              m \in {x \in SizesOf : x.num > 0}, k \in {x \in SizesOf : x.num > 9}},
   total : {0, 100, 255}, force : {FALSE},
   memory : SizesOf \cup {[num |-> 16, suffix |-> "GiB"], [num |-> 256, suffix |-> "k"],
                          [num |-> 1, suffix |-> "x"]}]
  \cup
  [vms : {<<>>}, total : {100}, force : {TRUE}, memory : SizesOf]

MCHost == "vm"
MCMac == "mac"
Leases(i) == [name : {"vm", "other"}, mac : {"mac", "mac2"}, ip : {i, none}, at : 0..2]
MCLeaseFiles == {<<>>} \cup {<<l>> : l \in Leases(1)} \cup {<<l, k>> : l \in Leases(1), k \in Leases(2)}
                \cup {<<l, k, j>> : l \in {x \in Leases(1) : x.ip # none},
                                    k \in {x \in Leases(2) : x.ip # none /\ x.at > 0},
                                    j \in {x \in Leases(3) : x.ip # none /\ x.at > 0}}

(* The line of q35, the one of another platform, and two or three of its   *)
(* own versions.                                                           *)
Line(name) == [name |-> name, aliasOf |-> none, deprecated |-> FALSE, versioned |-> FALSE,
               major |-> 0, minor |-> 0]
Versions == {[Line(n.name) EXCEPT !.versioned = TRUE, !.major = n.major, !.minor = n.minor,
                                  !.deprecated = d]
               : n \in {[name |-> "pc-q35-9.2", major |-> 9, minor |-> 2],
                        [name |-> "pc-q35-9.10", major |-> 9, minor |-> 10],
                        [name |-> "pc-q35-10.0", major |-> 10, minor |-> 0]},
                 d \in BOOLEAN}
MCListings ==
  {<<Line("virt")>> \o vs \o a
     : vs \in Lists(Versions, 3),
       a \in {<<>>, <<Line("q35")>>, <<[Line("q35") EXCEPT !.aliasOf = "pc-q35-10.0"]>>}}
MCMachineAlias == "q35"
=============================================================================
