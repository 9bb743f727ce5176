------------------------ MODULE PureFunctionsProofs ------------------------
(***************************************************************************)
(* Proofs about the resolution of a command line and about the scans: for  *)
(* every catalogue of images and mixins, every command line, and every     *)
(* list that is scanned.                                                   *)
(*                                                                         *)
(* The invariants of the resolution are each about one part of its state:  *)
(* Climbing (the chain of layers), Scalars and Labels (what has been       *)
(* merged), Visiting (the walk over the includes of a layer), Checked and  *)
(* AutosApart (what has been looked at without a fault being found), and   *)
(* Laying (where the steps of each layer are).  What the walks know is     *)
(* related to the graph of the layers, which the properties are about, by  *)
(* the lemmas on Chain, Mixins and Nearest.                                *)
(***************************************************************************)
EXTENDS PureFunctions, SequenceTheorems, TLAPS

-----------------------------------------------------------------------------
(* Lists, the layers of a command line and what they include.              *)

LEMMA ListFacts ==
  ASSUME NEW s, IsList(s)
  PROVE  Len(s) \in Nat /\ DOMAIN s = 1..Len(s)
BY DEF IsList

LEMMA SeqIsList ==
  ASSUME NEW S, NEW s \in Seq(S)
  PROVE  IsList(s)
<1> DEFINE T == {s[i] : i \in DOMAIN s}
<1>1. Len(s) \in Nat /\ DOMAIN s = 1..Len(s) /\ s = [i \in 1..Len(s) |-> s[i]]
  BY SeqDef
<1>2. s \in [1..Len(s) -> T]
  BY <1>1
<1> HIDE DEF T
<1>3. s \in Seq(T)
  BY <1>1, <1>2, SeqDef
<1> QED BY <1>3 DEF IsList, T

LEMMA Concat ==
  ASSUME NEW s, NEW t, IsList(s), IsList(t)
  PROVE  /\ IsList(s \o t)
         /\ \A i \in DOMAIN (s \o t) : (\E j \in DOMAIN s : (s \o t)[i] = s[j]) \/ (\E j \in DOMAIN t : (s \o t)[i] = t[j])
<1> DEFINE S == {s[i] : i \in DOMAIN s}
           T == {t[i] : i \in DOMAIN t}
           u == s \o t
<1>1. s \in Seq(S) /\ t \in Seq(T)
  BY DEF IsList
<1> HIDE DEF S, T
<1>2. s \in Seq(S \cup T) /\ t \in Seq(S \cup T)
  BY <1>1
<1>3. u \in Seq(S \cup T)
  BY <1>2
<1>4. IsList(u)
  BY <1>3, SeqIsList
<1>5. ASSUME NEW i \in DOMAIN u
      PROVE  (\E j \in DOMAIN s : u[i] = s[j]) \/ (\E j \in DOMAIN t : u[i] = t[j])
  <2>1. i \in 1..Len(s) + Len(t) /\ Len(s) \in Nat /\ Len(t) \in Nat
    BY <1>2
  <2>2. CASE i <= Len(s)
    BY <2>1, <2>2, <1>2
  <2>3. CASE i > Len(s)
    <3>1. u[i] = t[i - Len(s)] /\ i - Len(s) \in DOMAIN t
      BY <2>1, <2>3, <1>2
    <3> QED BY <3>1
  <2> QED BY <2>1, <2>2, <2>3
<1> QED BY <1>4, <1>5

LEMMA OverlayIs ==
  ASSUME NEW c, WellFormed(c)
  PROVE  /\ IsLayer(Overlay(c.args)) /\ NotAMixin(Overlay(c.args))
         /\ Overlay(c.args).from = Source(c.args).from
         /\ Overlay(c.args).memory = Or(c.args.memory, Source(c.args).memory)
         /\ Overlay(c.args).backend = Or(c.args.backend, Source(c.args).backend)
         /\ Overlay(c.args).spec = Or(c.args.spec, Source(c.args).spec)
<1> DEFINE s == Source(c.args)
           o == Overlay(c.args)
<1>1. IsLayer(s) /\ IsList(c.args.include) /\ \A i \in DOMAIN c.args.include : c.args.include[i] # Top
  BY DEF WellFormed, Layers
<1>2. o = [s EXCEPT !.vm = TRUE, !.memory = Or(c.args.memory, @), !.backend = Or(c.args.backend, @),
                    !.include = @ \o c.args.include, !.spec = Or(c.args.spec, @)]
  BY DEF Overlay
<1> HIDE DEF s, o
<1>3. DOMAIN s = Fields
  BY <1>1 DEF IsLayer
<1>4. DOMAIN o = Fields
  BY <1>2, <1>3
<1>5. o.vm = TRUE /\ o.from = s.from
  BY <1>2, <1>3 DEF Fields
<1>5a. o.memory = Or(c.args.memory, s.memory) /\ o.spec = Or(c.args.spec, s.spec)
  BY <1>2, <1>3 DEF Fields
<1>5b. o.backend = Or(c.args.backend, s.backend)
  BY <1>2, <1>3 DEF Fields
<1>5c. o.include = s.include \o c.args.include
  BY <1>2, <1>3 DEF Fields
<1>6. IsList(o.include) /\ \A i \in DOMAIN o.include : o.include[i] # Top
  <2>1. IsList(s.include) /\ \A i \in DOMAIN s.include : s.include[i] # Top
    BY <1>1 DEF IsLayer
  <2> DEFINE a == s.include
             b == c.args.include
  <2>2. /\ IsList(a) /\ \A i \in DOMAIN a : a[i] # Top
        /\ IsList(b) /\ \A i \in DOMAIN b : b[i] # Top
    BY <2>1, <1>1
  <2> HIDE DEF a, b
  <2>3. IsList(a \o b) /\ \A i \in DOMAIN (a \o b) : (a \o b)[i] # Top
    BY <2>2, Concat
  <2> QED BY <2>3, <1>5c DEF a, b
<1> QED BY <1>1, <1>4, <1>5, <1>5a, <1>5b, <1>6 DEF IsLayer, NotAMixin, s, o

LEMMA AtIs ==
  ASSUME NEW c, WellFormed(c), NEW n, Here(c, n)
  PROVE  At(c, n) \in Everyone(c) /\ IsLayer(At(c, n))
BY OverlayIs DEF WellFormed, Layers, Everyone, At, Here, Known, Lookup

LEMMA TopIs ==
  ASSUME NEW c, WellFormed(c)
  PROVE  Here(c, Top) /\ NotAMixin(At(c, Top)) /\ At(c, Top) = Overlay(c.args)
BY OverlayIs DEF At, Here

LEMMA ListedIs ==
  ASSUME NEW c, WellFormed(c), NEW n
  PROVE  Listed(c, n) \subseteq Includable(c) /\ Top \notin Listed(c, n)
BY AtIs DEF Listed, Includable, IsLayer

(* The mixins of a layer are the least set that holds what it lists and is *)
(* closed.                                                                 *)
LEMMA MixinsHold ==
  ASSUME NEW c, WellFormed(c), NEW n
  PROVE  /\ Mixins(c, n) \subseteq Includable(c)
         /\ Listed(c, n) \subseteq Mixins(c, n)
         /\ \A m \in Mixins(c, n) : Listed(c, m) \subseteq Mixins(c, n)
<1>1. Listed(c, n) \subseteq Mixins(c, n)
  BY ListedIs DEF Mixins
<1>2. ASSUME NEW m \in Mixins(c, n), NEW k \in Listed(c, m) PROVE k \in Mixins(c, n)
  BY <1>2, ListedIs DEF Mixins, Includes
<1> QED BY <1>1, <1>2 DEF Mixins

LEMMA MixinsLeast ==
  ASSUME NEW c, WellFormed(c), NEW n, NEW S, Listed(c, n) \subseteq S,
         \A m \in S : m \in Mixins(c, n) => Listed(c, m) \subseteq S
  PROVE  Mixins(c, n) \subseteq S
<1> DEFINE T == S \cap Mixins(c, n)
<1>1. T \in SUBSET Includable(c) /\ Includes(c, T) /\ Listed(c, n) \subseteq T
  BY MixinsHold DEF Includes
<1> HIDE DEF T
<1>2. Mixins(c, n) \subseteq T
  BY <1>1 DEF Mixins
<1> QED BY <1>2 DEF T

LEMMA MixinsOfMixins ==
  ASSUME NEW c, WellFormed(c), NEW n, NEW m \in Mixins(c, n)
  PROVE  Mixins(c, m) \subseteq Mixins(c, n)
<1>1. Listed(c, m) \subseteq Mixins(c, n) /\ \A k \in Mixins(c, n) : Listed(c, k) \subseteq Mixins(c, n)
  BY MixinsHold
<1> QED BY <1>1, MixinsLeast

LEMMA MixinsOfListed ==
  ASSUME NEW c, WellFormed(c), NEW n, NEW m \in Listed(c, n)
  PROVE  {m} \cup Mixins(c, m) \subseteq Mixins(c, n)
BY MixinsHold, MixinsOfMixins

LEMMA TopIsNoMixin ==
  ASSUME NEW c, WellFormed(c), NEW n PROVE Top \notin Mixins(c, n)
<1> DEFINE S == Mixins(c, n) \ {Top}
<1>1. Listed(c, n) \subseteq S /\ \A m \in S : Listed(c, m) \subseteq S
  BY MixinsHold, ListedIs
<1>2. Mixins(c, n) \subseteq S
  BY <1>1, MixinsLeast
<1> QED BY <1>2

(* A mixin is listed by somebody. *)
LEMMA SomebodyLists ==
  ASSUME NEW c, WellFormed(c), NEW n, NEW m \in Mixins(c, n)
  PROVE  \E l \in {n} \cup Mixins(c, n) : m \in Listed(c, l)
<1> SUFFICES ASSUME \A l \in {n} \cup Mixins(c, n) : m \notin Listed(c, l) PROVE FALSE
  OBVIOUS
<1> DEFINE S == Mixins(c, n) \ {m}
<1>1. Listed(c, n) \subseteq S /\ \A k \in S : Listed(c, k) \subseteq S
  BY MixinsHold
<1>2. Mixins(c, n) \subseteq S
  BY <1>1, MixinsLeast
<1> QED BY <1>2
-----------------------------------------------------------------------------
LEMMA FromIs ==
  ASSUME NEW c, WellFormed(c), NEW n, Here(c, n), At(c, n).from # None
  PROVE  At(c, n).from \in Derivable(c) /\ At(c, n).from # Top
BY AtIs DEF Derivable, IsLayer

LEMMA AboveHolds ==
  ASSUME NEW c, WellFormed(c), NEW n
  PROVE  /\ n \in Above(c, n)
         /\ \A m \in Above(c, n) : Here(c, m) /\ At(c, m).from # None => At(c, m).from \in Above(c, n)
<1>1. n \in Above(c, n)
  BY DEF Above
<1>2. ASSUME NEW m \in Above(c, n), Here(c, m), At(c, m).from # None PROVE At(c, m).from \in Above(c, n)
  BY <1>2, FromIs DEF Above, Derives
<1> QED BY <1>1, <1>2

LEMMA AboveLeast ==
  ASSUME NEW c, WellFormed(c), NEW n, NEW S, n \in S,
         \A m \in S : Here(c, m) /\ At(c, m).from # None => At(c, m).from \in S
  PROVE  Above(c, n) \subseteq S
<1> DEFINE T == S \cap Above(c, n)
<1>1. T \in SUBSET (Derivable(c) \cup {n}) /\ Derives(c, T) /\ n \in T
  <2>1. T \subseteq Derivable(c) \cup {n}
    BY DEF Above
  <2>2. Derives(c, T)
    BY AboveHolds DEF Derives
  <2> QED BY <2>1, <2>2, AboveHolds
<1> HIDE DEF T
<1>2. Above(c, n) \subseteq T
  BY <1>1 DEF Above
<1> QED BY <1>2 DEF T

-----------------------------------------------------------------------------
(* The chain of layers from the command line to the root.                  *)

Chained(c, s) ==
  /\ s \in Seq(Above(c, Top)) /\ Len(s) >= 1 /\ s[1] = Top
  /\ \A i \in 1..Len(s) : Here(c, s[i])
  /\ \A i \in 1..Len(s)-1 : s[i+1] = At(c, s[i]).from /\ s[i+1] # None
  /\ \A i, j \in 1..Len(s) : s[i] = s[j] => i = j
  /\ \A i \in 1..Len(s) : \A j \in i..Len(s) : s[j] \in Above(c, s[i])

Rooted(c, s) ==
  /\ Chained(c, s)
  /\ LET root == At(c, s[Len(s)]) IN root.from = None /\ root.arch /\ root.family # None

LEMMA ChainStarts ==
  ASSUME NEW c, WellFormed(c)
  PROVE  Chained(c, <<Top>>)
BY AboveHolds, TopIs DEF Chained

LEMMA ChainGrows ==
  ASSUME NEW c, WellFormed(c), NEW s, Chained(c, s), NEW from,
         from = At(c, s[Len(s)]).from, from # None, Here(c, from), from \notin ToSet(s)
  PROVE  Chained(c, Append(s, from))
<1> DEFINE t == Append(s, from)
           n == Len(s)
<1>1. n \in Nat /\ n >= 1 /\ s[n] \in Above(c, Top) /\ Here(c, s[n])
  BY DEF Chained
<1>2. from \in Above(c, Top)
  BY <1>1, AboveHolds
<1>3. t \in Seq(Above(c, Top)) /\ Len(t) = n + 1 /\ t[n+1] = from /\ \A i \in 1..n : t[i] = s[i]
  BY <1>1, <1>2 DEF Chained
<1> HIDE DEF t
<1>4. \A i \in 1..n+1 : Here(c, t[i])
  BY <1>1, <1>3 DEF Chained
<1>5. \A i \in 1..n : t[i+1] = At(c, t[i]).from /\ t[i+1] # None
  <2> SUFFICES ASSUME NEW i \in 1..n PROVE t[i+1] = At(c, t[i]).from /\ t[i+1] # None
    OBVIOUS
  <2>1. CASE i = n
    BY <2>1, <1>3, <1>1
  <2>2. CASE i < n
    BY <2>2, <1>3, <1>1 DEF Chained
  <2> QED BY <2>1, <2>2, <1>1
<1>6. \A i, j \in 1..n+1 : t[i] = t[j] => i = j
  BY <1>1, <1>3 DEF Chained, ToSet
<1>7. \A i \in 1..n+1 : \A j \in i..n+1 : t[j] \in Above(c, t[i])
  <2> SUFFICES ASSUME NEW i \in 1..n+1, NEW j \in i..n+1 PROVE t[j] \in Above(c, t[i])
    OBVIOUS
  <2>1. CASE j <= n
    BY <2>1, <1>3, <1>1 DEF Chained
  <2>2. CASE i = n + 1
    BY <2>2, <1>1, AboveHolds
  <2>3. CASE i <= n /\ j = n + 1
    <3>1. s[n] \in Above(c, s[i]) /\ t[i] = s[i] /\ t[j] = from
      BY <2>3, <1>3, <1>1 DEF Chained
    <3> QED BY <3>1, <1>1, AboveHolds
  <2> QED BY <2>1, <2>2, <2>3, <1>1
<1>8. t[1] = Top
  BY <1>1, <1>3 DEF Chained
<1> QED BY <1>1, <1>3, <1>4, <1>5, <1>6, <1>7, <1>8 DEF Chained, t

(* The layers above one of a chain that has reached its root. *)
LEMMA AboveInChain ==
  ASSUME NEW c, WellFormed(c), NEW s, Rooted(c, s), NEW i \in 1..Len(s)
  PROVE  Above(c, s[i]) = {s[j] : j \in i..Len(s)}
<1> DEFINE S == {s[j] : j \in i..Len(s)}
<1>0. Chained(c, s)
  BY DEF Rooted
<1>1. Len(s) \in Nat /\ Chained(c, s)
  BY <1>0 DEF Chained
<1>2. S \subseteq Above(c, s[i])
  BY <1>1 DEF Chained
<1>3. s[i] \in S
  BY <1>1
<1>4. ASSUME NEW j \in i..Len(s), At(c, s[j]).from # None
      PROVE  At(c, s[j]).from \in S
  <2>1. j < Len(s)
    BY <1>4, <1>1 DEF Rooted
  <2>2. j + 1 \in i..Len(s) /\ s[j+1] = At(c, s[j]).from
    BY <2>1, <1>1 DEF Chained
  <2> QED BY <2>2
<1>5. Above(c, s[i]) \subseteq S
  <2>1. \A m \in S : Here(c, m) /\ At(c, m).from # None => At(c, m).from \in S
    BY <1>4
  <2> QED BY <2>1, <1>3, AboveLeast
<1> QED BY <1>2, <1>5

LEMMA ChainIs ==
  ASSUME NEW c, WellFormed(c), NEW s, Rooted(c, s)
  PROVE  Chain(c) = {s[j] : j \in 1..Len(s)}
<1>1. 1 \in 1..Len(s) /\ s[1] = Top
  BY DEF Rooted, Chained
<1> QED BY <1>1, AboveInChain DEF Chain

(* No layer of a chain can be included. *)
LEMMA LayersAreNoMixins ==
  ASSUME NEW c, WellFormed(c), NEW s, Rooted(c, s), NEW i \in 1..Len(s)
  PROVE  NotAMixin(At(c, s[i]))
<1>1. CASE i = Len(s)
  BY <1>1 DEF Rooted, NotAMixin
<1>2. CASE i # Len(s)
  BY <1>2 DEF Rooted, Chained, NotAMixin
<1> QED BY <1>1, <1>2

LEMMA NearestOfRoot ==
  ASSUME NEW c, WellFormed(c), NEW s, Rooted(c, s), NEW field, NEW default
  PROVE  Nearest(c, s[Len(s)], field, default) = Or(At(c, s[Len(s)])[field], default)
<1> DEFINE r == s[Len(s)]
           setters == {m \in Above(c, r) : Here(c, m) /\ At(c, m)[field] # None}
<1>1. Len(s) \in 1..Len(s) /\ Here(c, r)
  BY DEF Rooted, Chained
<1>2. Above(c, r) = {r}
  <2>1. Above(c, r) = {s[j] : j \in Len(s)..Len(s)}
    BY <1>1, AboveInChain
  <2> QED BY <2>1, <1>1
<1>3. setters = IF At(c, r)[field] # None THEN {r} ELSE {}
  BY <1>1, <1>2
<1>4. Nearest(c, r, field, default)
        = IF setters = {} THEN default
          ELSE At(c, CHOOSE m \in setters : setters \subseteq Above(c, m))[field]
  BY DEF Nearest
<1> HIDE DEF setters
<1>5. CASE At(c, r)[field] # None
  <2>1. setters = {r} /\ setters \subseteq Above(c, r)
    BY <1>3, <1>2, <1>5
  <2>2. (CHOOSE m \in setters : setters \subseteq Above(c, m)) = r
    BY <2>1
  <2> QED BY <2>1, <2>2, <1>4, <1>5 DEF Or
<1>6. CASE At(c, r)[field] = None
  BY <1>3, <1>4, <1>6 DEF Or
<1> QED BY <1>5, <1>6

(* What a layer sets counts, else what counts for the one it derives from. *)
Overrides(c, n, p) ==
  \A field, default : Nearest(c, n, field, default) = Or(At(c, n)[field], Nearest(c, p, field, default))

LEMMA NearestOfChild ==
  ASSUME NEW c, WellFormed(c), NEW s, Rooted(c, s), NEW n \in Chain(c), At(c, n).from # None
  PROVE  Overrides(c, n, At(c, n).from)
<1>a. PICK i \in 1..Len(s) : n = s[i]
  BY ChainIs
<1>b. i \in 1..Len(s)-1 /\ At(c, n).from = s[i+1]
  BY <1>a DEF Rooted, Chained
<1> DEFINE p == s[i+1]
<1> SUFFICES ASSUME NEW field, NEW default
             PROVE  Nearest(c, n, field, default) = Or(At(c, n)[field], Nearest(c, p, field, default))
  BY <1>b DEF Overrides
<1> DEFINE setters == {m \in Above(c, n) : Here(c, m) /\ At(c, m)[field] # None}
           above == {m \in Above(c, p) : Here(c, m) /\ At(c, m)[field] # None}
<1>0. Len(s) \in Nat /\ i \in 1..Len(s) /\ i + 1 \in 1..Len(s) /\ Chained(c, s) /\ n = s[i]
  <2>1. Chained(c, s)
    BY DEF Rooted
  <2>2. Len(s) \in Nat
    BY <2>1 DEF Chained
  <2> QED BY <1>a, <1>b, <2>1, <2>2
<1>1. /\ Above(c, n) = {s[k] : k \in i..Len(s)} /\ Above(c, p) = {s[k] : k \in i+1..Len(s)}
      /\ \A k \in 1..Len(s) : Above(c, s[k]) = {s[l] : l \in k..Len(s)}
  <2>1. \A k \in 1..Len(s) : Above(c, s[k]) = {s[l] : l \in k..Len(s)}
    BY AboveInChain
  <2>2. Above(c, s[i]) = {s[l] : l \in i..Len(s)}
    BY <2>1, <1>0
  <2>3. Above(c, s[i+1]) = {s[l] : l \in i+1..Len(s)}
    BY <2>1, <1>0
  <2> QED BY <2>1, <2>2, <2>3, <1>a
<1>2. Above(c, n) = {n} \cup Above(c, p)
  <2>1. \A k \in i..Len(s) : k = i \/ k \in i+1..Len(s)
    BY <1>0
  <2>2. i \in i..Len(s) /\ \A k \in i+1..Len(s) : k \in i..Len(s)
    BY <1>0
  <2> QED BY <2>1, <2>2, <1>1, <1>a
<1>3. \A m \in Above(c, n) : n \in Above(c, m) => m = n
  <2> SUFFICES ASSUME NEW k \in i..Len(s), n \in Above(c, s[k]) PROVE s[k] = n
    BY <1>1
  <2>a. k \in 1..Len(s)
    BY <1>0
  <2>b. Above(c, s[k]) = {s[l] : l \in k..Len(s)}
    BY <2>a, <1>1
  <2>0. k \in 1..Len(s) /\ n \in {s[l] : l \in k..Len(s)}
    BY <2>a, <2>b
  <2>1. PICK l \in k..Len(s) : n = s[l]
    BY <2>0
  <2>2. l \in 1..Len(s) /\ \A a, b \in 1..Len(s) : s[a] = s[b] => a = b
    <3>1. \A a, b \in 1..Len(s) : s[a] = s[b] => a = b
      BY <1>0 DEF Chained
    <3>2. l \in 1..Len(s)
      BY <2>a, <1>0
    <3> QED BY <3>1, <3>2
  <2>3. l = i
    BY <2>1, <2>2, <1>0
  <2> QED BY <2>1, <2>3, <1>0
<1>4. Nearest(c, n, field, default)
        = IF setters = {} THEN default
          ELSE At(c, CHOOSE m \in setters : setters \subseteq Above(c, m))[field]
  BY DEF Nearest
<1>5. CASE At(c, n)[field] # None
  <2>1. n \in setters /\ setters \subseteq Above(c, n)
    BY <1>5, <1>2, <1>0 DEF Chained
  <2>2. \A m \in setters : setters \subseteq Above(c, m) => m = n
    BY <2>1, <1>3
  <2> HIDE DEF setters
  <2>3. (CHOOSE m \in setters : setters \subseteq Above(c, m)) = n
    BY <2>1, <2>2
  <2> QED BY <2>1, <2>3, <1>4, <1>5 DEF Or
<1>6. CASE At(c, n)[field] = None
  <2>1. setters = above
    BY <1>2, <1>6
  <2>2. Nearest(c, p, field, default)
        = IF above = {} THEN default
          ELSE At(c, CHOOSE m \in above : above \subseteq Above(c, m))[field]
    BY DEF Nearest
  <2> HIDE DEF setters, above
  <2> QED BY <2>1, <2>2, <1>4, <1>6 DEF Or
<1> QED BY <1>5, <1>6

-----------------------------------------------------------------------------
(* The walk over the chain.                                                *)

Working == call.kind = "resolve" /\ pass # "done"

LEMMA ResolveInit ==
  ASSUME Init, call.kind = "resolve"
  PROVE  InitResolve /\ WellFormed(call)
<1>1. InitResolve
  BY DEF Init, InitScan
<1>2. PICK c \in Creates : call = [kind |-> "resolve", cat |-> c.cat, args |-> c.args]
  BY <1>1 DEF InitResolve
<1>3. WellFormed(c) /\ call.cat = c.cat /\ call.args = c.args
  BY <1>2, ResolutionAssumption
<1>4. WellFormed(call)
  BY <1>3 DEF WellFormed, Layers
<1> QED BY <1>1, <1>4

LEMMA ResolveStep ==
  ASSUME [Next]_vars, call'.kind = "resolve"
  PROVE  call' = call /\ (BuildFromCli \/ UNCHANGED vars)
BY DEF Next, vars, NextScan, DestroyCommand, CheckMemory, CurrentDefaultMachineType, FindGuestIp,
       In, BuildFromCli, CheckArguments, FollowFrom, RootImage, MergeChild, Include, Contribute,
       ApplyOwn, ApplySpec, ExpandConfig, ParseNextLabel, Build,
       NoTarget, ParseSelector, SelectorsParsed, SelectInstance, Confirm, DestroyInstance, Destroyed,
       RefuseSize, CountInstance, CheckBoot, ReadLease, NameUnknown, LeaseFound, ReadAlias,
       NotAnnotated, ReadVersion, MachineFound

LEMMA ResolveGoesOn ==
  ASSUME BuildFromCli, pass' # "done"
  PROVE  pass # "done" /\ ~Build
BY DEF BuildFromCli, In, CheckArguments, FollowFrom, RootImage, MergeChild, Include, Contribute,
       ApplyOwn, ApplySpec, ExpandConfig, ParseNextLabel, Build, Refuse, Done
-----------------------------------------------------------------------------
(* Down to the root and back up.                                           *)

Climbing ==
  /\ WellFormed(call) /\ DOMAIN out = DOMAIN Resolved /\ Ok(out)
  /\ pass \in {"backend", "parents", "includes", "applied", "variables", "labels"}
  /\ Chained(call, chain)
  /\ pass \in {"backend", "parents"} => at = Len(chain) /\ out = Resolved
  /\ pass \notin {"backend", "parents"} => Rooted(call, chain)
  /\ pass \in {"includes", "applied"} => at \in 1..Len(chain)
  /\ pass = "backend" => chain = <<Top>>

LEMMA ClimbingStep ==
  ASSUME Climbing, call' = call, BuildFromCli, pass' # "done"
  PROVE  Climbing'
<1> USE DEF Climbing, In
<1>0. Len(chain) \in Nat /\ Len(chain) >= 1
  BY DEF Chained
<1>1. CASE CheckArguments
  BY <1>1 DEF CheckArguments, Refuse, Done, Walk, resolution
<1>2. CASE FollowFrom
  <2> DEFINE from == At(call, chain[at]).from
  <2>1. /\ pass = "parents" /\ from # None /\ from \notin ToSet(chain) /\ Here(call, from)
        /\ chain' = Append(chain, from) /\ at' = at + 1 /\ pass' = pass /\ out' = out
    BY <1>2 DEF FollowFrom, Refuse, Done
  <2>2. Chained(call, chain')
    BY <2>1, ChainGrows
  <2>3. Len(chain') = at + 1
    BY <2>1 DEF Chained
  <2> QED BY <2>1, <2>2, <2>3
<1>3. CASE RootImage
  <2> DEFINE layer == At(call, chain[at])
  <2>1. /\ pass = "parents" /\ layer.from = None /\ layer.arch /\ layer.family # None
        /\ out' = Root(layer) /\ pass' = "includes" /\ chain' = chain /\ at' = at
    BY <1>3 DEF RootImage, Refuse, Done, Enter
  <2>2. Rooted(call, chain)
    BY <2>1 DEF Rooted
  <2>3. DOMAIN out' = DOMAIN Resolved /\ Ok(out')
    BY <2>1 DEF Root, Resolved, Ok
  <2> QED BY <2>1, <2>2, <2>3, <1>0
<1>4. CASE MergeChild
  <2>1. DOMAIN out' = DOMAIN Resolved /\ Ok(out')
    BY <1>4 DEF MergeChild, Merge, Resolved, Ok
  <2> QED BY <2>1, <1>4 DEF MergeChild, Enter
<1>5. CASE Include
  BY <1>5 DEF Include, Refuse, Done
<1>6. CASE Contribute
  <2>1. /\ pass = "includes" /\ UNCHANGED <<pass, at, chain>>
        /\ \E s, a : out' = [out EXCEPT !.steps = s, !.autos = a]
    BY <1>6 DEF Contribute, Refuse, Done
  <2>2. DOMAIN out' = DOMAIN Resolved /\ Ok(out')
    BY <2>1 DEF Resolved, Ok
  <2> QED BY <2>1, <2>2
<1>7. CASE ApplyOwn
  <2>1. /\ pass = "includes" /\ UNCHANGED <<at, chain>> /\ pass' = "applied"
        /\ out' = [out EXCEPT !.steps = Append(@, Own(chain[at])),
                              !.autos = @ \cup At(call, chain[at]).autos,
                              !.labels = Over(At(call, chain[at]).labels, @)]
    BY <1>7 DEF ApplyOwn, Refuse, Done, resolution
  <2>2. DOMAIN out' = DOMAIN Resolved /\ Ok(out')
    BY <2>1 DEF Resolved, Ok
  <2> QED BY <2>1, <2>2
<1>8. CASE ApplySpec
  <2>1. /\ pass = "applied" /\ UNCHANGED <<at, chain>> /\ pass' = "variables"
        /\ \E s : out' = [out EXCEPT !.memory = s]
    BY <1>8 DEF ApplySpec, Refuse, Done, FillFromSpec, resolution
  <2>2. DOMAIN out' = DOMAIN Resolved /\ Ok(out')
    BY <2>1 DEF Resolved, Ok
  <2> QED BY <2>1, <2>2
<1>9. CASE ExpandConfig
  <2>1. /\ pass = "variables" /\ UNCHANGED chain /\ pass' = "labels"
        /\ \E s : out' = [out EXCEPT !.variable = s]
    BY <1>9 DEF ExpandConfig, Refuse, Done, Walk, resolution
  <2>2. DOMAIN out' = DOMAIN Resolved /\ Ok(out')
    BY <2>1 DEF Resolved, Ok
  <2> QED BY <2>1, <2>2
<1>10. CASE ParseNextLabel
  <2>1. /\ pass = "labels" /\ UNCHANGED <<chain, pass>>
        /\ \E s : out' = [out EXCEPT !.given = s]
    BY <1>10 DEF ParseNextLabel, Refuse, Done, On, resolution
  <2>2. DOMAIN out' = DOMAIN Resolved /\ Ok(out')
    BY <2>1 DEF Resolved, Ok
  <2> QED BY <2>1, <2>2
<1> QED BY ResolveGoesOn, <1>1, <1>2, <1>3, <1>4, <1>5, <1>6, <1>7, <1>8, <1>9, <1>10 DEF BuildFromCli

ClimbingHolds == Working => Climbing

LEMMA ClimbingInit == Init => ClimbingHolds
<1> SUFFICES ASSUME Init, Working PROVE Climbing
  BY DEF ClimbingHolds
<1>1. InitResolve /\ WellFormed(call)
  BY ResolveInit DEF Working
<1>2. Chained(call, <<Top>>)
  BY <1>1, ChainStarts
<1> QED BY <1>1, <1>2 DEF InitResolve, Climbing, Resolved, Ok

LEMMA ClimbingAlways == ClimbingHolds /\ [Next]_vars => ClimbingHolds'
<1> SUFFICES ASSUME ClimbingHolds, [Next]_vars, Working' PROVE Climbing'
  BY DEF ClimbingHolds
<1>1. call' = call /\ (BuildFromCli \/ UNCHANGED vars)
  BY ResolveStep DEF Working
<1>2. CASE BuildFromCli
  BY <1>1, <1>2, ResolveGoesOn, ClimbingStep DEF ClimbingHolds, Working
<1>3. CASE UNCHANGED vars
  BY <1>3 DEF vars, ClimbingHolds, Working, Climbing
<1> QED BY <1>1, <1>2, <1>3

-----------------------------------------------------------------------------
(* The scalars that have been merged.                                      *)

(* The layer up to which the walk has come, and the layers that are done.  *)
Current == IF pass \in {"includes", "applied"} THEN at ELSE 1
Left == IF pass = "includes" THEN at ELSE IF pass = "applied" THEN at - 1 ELSE 0
Climbed == pass \in {"includes", "applied", "variables", "labels"}

NearestValues(c, n, r) ==
  /\ r.family = Nearest(c, n, "family", None)
  /\ r.idle = Nearest(c, n, "idle", 0)
  /\ r.backend = Nearest(c, n, "backend", DefaultBackend)
  /\ r.user = Nearest(c, n, "user", "agent")

Scalars ==
  /\ Climbed => NearestValues(call, chain[Current], out)
  /\ pass \in {"variables", "labels"} =>
       LET layer == At(call, Top)
           spec == Or(layer.spec, "medium")
       IN spec \in DOMAIN Specs /\ out.memory = Or(layer.memory, Specs[spec])

ScalarsHold == Working => Scalars

LEMMA ScalarsStep ==
  ASSUME Climbing, Scalars, Climbing', call' = call, BuildFromCli, pass' # "done"
  PROVE  Scalars'
<1> USE DEF In
<1>0. /\ Len(chain) \in Nat /\ Len(chain) >= 1 /\ chain[1] = Top
      /\ DOMAIN out = DOMAIN Resolved
  BY DEF Climbing, Chained
<1>1. CASE CheckArguments
  BY <1>1 DEF CheckArguments, Refuse, Done, Walk, Scalars, Climbed
<1>2. CASE FollowFrom
  BY <1>2 DEF FollowFrom, Refuse, Done, Scalars, Climbed
<1>3. CASE RootImage
  <2> DEFINE layer == At(call, chain[at])
  <2>1. /\ out' = Root(layer) /\ pass' = "includes" /\ chain' = chain /\ at' = at /\ at = Len(chain)
    BY <1>3 DEF RootImage, Refuse, Done, Enter, Climbing
  <2>2. Rooted(call, chain) /\ WellFormed(call)
    BY <2>1 DEF Climbing
  <2>3. /\ Nearest(call, chain[at], "family", None) = Or(layer.family, None)
        /\ Nearest(call, chain[at], "idle", 0) = Or(layer.idle, 0)
        /\ Nearest(call, chain[at], "backend", DefaultBackend) = Or(layer.backend, DefaultBackend)
        /\ Nearest(call, chain[at], "user", "agent") = Or(layer.user, "agent")
    <3>1. \A f, d : Nearest(call, chain[at], f, d) = Or(layer[f], d)
      BY <2>1, <2>2, NearestOfRoot
    <3> QED BY <3>1
  <2>4. /\ out'.family = layer.family /\ out'.idle = Or(layer.idle, 0)
        /\ out'.backend = Or(layer.backend, DefaultBackend) /\ out'.user = Or(layer.user, "agent")
    <3> DEFINE l == At(call, chain[at])
    <3>1. out' = [Resolved EXCEPT !.family = l.family, !.memory = Or(l.memory, 2),
                   !.idle = Or(l.idle, 0), !.backend = Or(l.backend, DefaultBackend),
                   !.user = Or(l.user, "agent")]
      BY <2>1 DEF Root
    <3> HIDE DEF l
    <3>2. out'.family = l.family /\ out'.idle = Or(l.idle, 0)
      BY <3>1 DEF Resolved
    <3>3. out'.backend = Or(l.backend, DefaultBackend) /\ out'.user = Or(l.user, "agent")
      BY <3>1 DEF Resolved
    <3> QED BY <3>2, <3>3 DEF l
  <2>4a. Or(layer.family, None) = layer.family
    BY DEF Or
  <2>4b. NearestValues(call, chain[at], out')
    BY <2>3, <2>4, <2>4a DEF NearestValues
  <2> QED BY <2>1, <2>4b DEF Scalars, Climbed, Current
<1>4. CASE MergeChild
  <2> DEFINE layer == At(call, chain[at-1])
  <2>1. /\ pass = "applied" /\ at > 1 /\ out' = Merge(out, layer) /\ pass' = "includes"
        /\ chain' = chain /\ at' = at - 1 /\ at \in 1..Len(chain)
    BY <1>4 DEF MergeChild, Enter, Climbing
  <2>2. Rooted(call, chain) /\ WellFormed(call) /\ NearestValues(call, chain[at], out)
    BY <2>1 DEF Climbing, Scalars, Climbed, Current
  <2>3. at - 1 \in 1..Len(chain) /\ at - 1 \in 1..Len(chain)-1 /\ at = at - 1 + 1
    BY <2>1, <1>0
  <2>4. \A f, d : Nearest(call, chain[at-1], f, d) = Or(layer[f], Nearest(call, chain[at], f, d))
    <3>1. Chain(call) = {chain[j] : j \in 1..Len(chain)}
      BY <2>2, ChainIs
    <3>2. chain[at-1] \in Chain(call)
      BY <3>1, <2>3
    <3>3. At(call, chain[at-1]).from # None /\ At(call, chain[at-1]).from = chain[at]
      BY <2>2, <2>3 DEF Rooted, Chained
    <3>4. Overrides(call, chain[at-1], chain[at])
      BY <2>2, <3>2, <3>3, NearestOfChild
    <3> QED BY <3>4 DEF Overrides
  <2>5. /\ out'.family = Or(layer.family, out.family) /\ out'.idle = Or(layer.idle, out.idle)
        /\ out'.backend = Or(layer.backend, out.backend) /\ out'.user = Or(layer.user, out.user)
    BY <2>1, <1>0 DEF Merge, Resolved
  <2>6. NearestValues(call, chain[at-1], out')
    BY <2>2, <2>4, <2>5 DEF NearestValues
  <2> QED BY <2>1, <2>6 DEF Scalars, Climbed, Current
<1>5. CASE Include
  BY <1>5 DEF Include, Refuse, Done, Scalars, Climbed, Current
<1>6. CASE Contribute
  <2>1. /\ pass = "includes" /\ UNCHANGED <<pass, at, chain>>
        /\ \E s, a : out' = [out EXCEPT !.steps = s, !.autos = a]
    BY <1>6 DEF Contribute, Refuse, Done
  <2>2. NearestValues(call, chain[at], out')
    BY <2>1, <1>0 DEF Resolved, Scalars, Climbed, Current, NearestValues
  <2> QED BY <2>1, <2>2 DEF Scalars, Climbed, Current
<1>7. CASE ApplyOwn
  <2>1. /\ pass = "includes" /\ UNCHANGED <<at, chain>> /\ pass' = "applied"
        /\ out' = [out EXCEPT !.steps = Append(@, Own(chain[at])),
                              !.autos = @ \cup At(call, chain[at]).autos,
                              !.labels = Over(At(call, chain[at]).labels, @)]
    BY <1>7 DEF ApplyOwn, Refuse, Done, resolution
  <2>2. NearestValues(call, chain[at], out')
    BY <2>1, <1>0 DEF Resolved, Scalars, Climbed, Current, NearestValues
  <2> QED BY <2>1, <2>2 DEF Scalars, Climbed, Current
<1>8. CASE ApplySpec
  <2> DEFINE layer == At(call, Top)
             spec == Or(layer.spec, "medium")
  <2>1. /\ pass = "applied" /\ UNCHANGED <<at, chain>> /\ pass' = "variables" /\ at = 1
        /\ spec \in DOMAIN Specs
        /\ out' = [out EXCEPT !.memory = Or(layer.memory, Specs[spec])]
    BY <1>8 DEF ApplySpec, Refuse, Done, FillFromSpec, resolution
  <2>2. NearestValues(call, chain[1], out')
    BY <2>1, <1>0 DEF Resolved, Scalars, Climbed, Current, NearestValues
  <2>3. out'.memory = Or(layer.memory, Specs[spec])
    BY <2>1, <1>0 DEF Resolved
  <2> QED BY <2>1, <2>2, <2>3 DEF Scalars, Climbed, Current
<1>9. CASE ExpandConfig
  <2>1. /\ pass = "variables" /\ UNCHANGED chain /\ pass' = "labels"
        /\ \E s : out' = [out EXCEPT !.variable = s]
    BY <1>9 DEF ExpandConfig, Refuse, Done, Walk, resolution
  <2>2. NearestValues(call, chain[1], out') /\ out'.memory = out.memory
    BY <2>1, <1>0 DEF Resolved, Scalars, Climbed, Current, NearestValues
  <2> QED BY <2>1, <2>2 DEF Scalars, Climbed, Current
<1>10. CASE ParseNextLabel
  <2>1. /\ pass = "labels" /\ UNCHANGED <<chain, pass>>
        /\ \E s : out' = [out EXCEPT !.given = s]
    BY <1>10 DEF ParseNextLabel, Refuse, Done, On, resolution
  <2>2. NearestValues(call, chain[1], out') /\ out'.memory = out.memory
    BY <2>1, <1>0 DEF Resolved, Scalars, Climbed, Current, NearestValues
  <2> QED BY <2>1, <2>2 DEF Scalars, Climbed, Current
<1> QED BY ResolveGoesOn, <1>1, <1>2, <1>3, <1>4, <1>5, <1>6, <1>7, <1>8, <1>9, <1>10 DEF BuildFromCli

LEMMA ScalarsInit == Init => ScalarsHold
BY ResolveInit DEF Working, ScalarsHold, Scalars, Climbed, InitResolve

LEMMA ScalarsAlways == ClimbingHolds /\ ClimbingHolds' /\ ScalarsHold /\ [Next]_vars => ScalarsHold'
<1> SUFFICES ASSUME ClimbingHolds, ClimbingHolds', ScalarsHold, [Next]_vars, Working' PROVE Scalars'
  BY DEF ScalarsHold
<1>1. call' = call /\ (BuildFromCli \/ UNCHANGED vars)
  BY ResolveStep DEF Working
<1>2. CASE BuildFromCli
  BY <1>1, <1>2, ResolveGoesOn, ScalarsStep DEF ClimbingHolds, ScalarsHold, Working
<1>3. CASE UNCHANGED vars
  BY <1>3 DEF vars, ScalarsHold, Working, Scalars, Climbed, Current
<1> QED BY <1>1, <1>2, <1>3

-----------------------------------------------------------------------------
(* The labels, of the layers and of the command line; the variables.       *)

(* The labels of the layers that are done, the nearest winning; and those  *)
(* of the command line that have been read.                                *)
LabelsOf(j) == DOMAIN At(call, chain[j]).labels

Inherited ==
  /\ \A k \in DOMAIN out.labels : \E j \in Left+1..Len(chain) : k \in LabelsOf(j)
  /\ \A j \in Left+1..Len(chain) : \A k \in LabelsOf(j) :
       k \in DOMAIN out.labels
       /\ ((\A i \in Left+1..j-1 : k \notin LabelsOf(i)) => out.labels[k] = At(call, chain[j]).labels[k])

Text(e) == IF e.value = Bare THEN "" ELSE e.value

ReadSoFar(labels, n, map) ==
  /\ DOMAIN map = {labels[i].key : i \in 1..n}
  /\ \A i \in 1..n : map[labels[i].key] = Text(labels[i]) /\ labels[i].key # NoKey
  /\ \A i, j \in 1..n : labels[i].key = labels[j].key => i = j

Variable(args, v) ==
  args.uses # None =>
    IF Given(args) = {} THEN v = "default"
    ELSE \E i \in Given(args) : v = Sources[i] /\ \A j \in Given(args) : j <= i

Labels ==
  /\ Climbed => Inherited
  /\ pass \notin {"labels"} => DOMAIN out.given = {}
  /\ pass = "labels" => /\ at \in 1..Len(call.args.labels)+1
                        /\ ReadSoFar(call.args.labels, at-1, out.given)
                        /\ Variable(call.args, out.variable)

LabelsHold == Working => Labels

LEMMA Greatest ==
  ASSUME NEW args, Given(args) # {}
  PROVE  \E i \in Given(args) : LoadVariables(args, "default") = Sources[i] /\ \A j \in Given(args) : j <= i
<1> DEFINE top(i) == \A j \in Given(args) : j <= i
<1>1. Given(args) \subseteq 1..4
  BY DEF Given, Sources
<1>2. \E i \in Given(args) : top(i)
  <2>1. CASE 4 \in Given(args)
    BY <1>1, <2>1
  <2>2. CASE 4 \notin Given(args) /\ 3 \in Given(args)
    BY <1>1, <2>2
  <2>3. CASE 4 \notin Given(args) /\ 3 \notin Given(args) /\ 2 \in Given(args)
    BY <1>1, <2>3
  <2>4. CASE 4 \notin Given(args) /\ 3 \notin Given(args) /\ 2 \notin Given(args)
    BY <1>1, <2>4
  <2> QED BY <2>1, <2>2, <2>3, <2>4
<1> HIDE DEF top
<1>3. PICK i \in Given(args) : i = (CHOOSE j \in Given(args) : top(j)) /\ top(i)
  BY <1>2
<1>4. LoadVariables(args, "default") = Sources[CHOOSE j \in Given(args) : top(j)]
  BY DEF LoadVariables, top
<1> QED BY <1>3, <1>4 DEF top

LEMMA LabelsStep ==
  ASSUME Climbing, Labels, call' = call, BuildFromCli, pass' # "done"
  PROVE  Labels'
<1> USE DEF In
<1>0. /\ Len(chain) \in Nat /\ Len(chain) >= 1 /\ chain[1] = Top
      /\ DOMAIN out = DOMAIN Resolved
  BY DEF Climbing, Chained
<1>1. CASE CheckArguments
  BY <1>1 DEF CheckArguments, Refuse, Done, Walk, Labels, Climbed
<1>2. CASE FollowFrom
  BY <1>2 DEF FollowFrom, Refuse, Done, Labels, Climbed
<1>3. CASE RootImage
  <2>1. /\ out' = Root(At(call, chain[at])) /\ pass' = "includes" /\ chain' = chain
        /\ at' = at /\ at = Len(chain)
    BY <1>3 DEF RootImage, Refuse, Done, Enter, Climbing
  <2>2. out'.labels = <<>> /\ out'.given = <<>>
    BY <2>1 DEF Root, Resolved
  <2>3. Left' = Len(chain') /\ DOMAIN out'.labels = {} /\ DOMAIN out'.given = {}
    BY <2>1, <2>2 DEF Left
  <2>4. Inherited'
    BY <2>3, <2>1, <1>0 DEF Inherited
  <2> QED BY <2>1, <2>3, <2>4 DEF Labels
<1>4. CASE MergeChild
  <2>1. /\ pass = "applied" /\ at > 1 /\ out' = Merge(out, At(call, chain[at-1])) /\ pass' = "includes"
        /\ chain' = chain /\ at' = at - 1 /\ at \in 1..Len(chain)
    BY <1>4 DEF MergeChild, Enter, Climbing
  <2>2. out'.labels = out.labels /\ out'.given = out.given
    BY <2>1, <1>0 DEF Merge, Resolved
  <2>3. Left' = Left
    BY <2>1 DEF Left
  <2> QED BY <2>1, <2>2, <2>3 DEF Labels, Climbed, Inherited, LabelsOf
<1>5. CASE Include
  <2>1. pass = "includes" /\ UNCHANGED <<pass, at, out, chain>>
    BY <1>5 DEF Include, Refuse, Done
  <2> QED BY <2>1 DEF Labels, Climbed, Inherited, LabelsOf, Left
<1>6. CASE Contribute
  <2>1. /\ pass = "includes" /\ UNCHANGED <<pass, at, chain>>
        /\ \E s, a : out' = [out EXCEPT !.steps = s, !.autos = a]
    BY <1>6 DEF Contribute, Refuse, Done
  <2>2. out'.labels = out.labels /\ out'.given = out.given
    BY <2>1, <1>0 DEF Resolved
  <2> QED BY <2>1, <2>2 DEF Labels, Climbed, Inherited, LabelsOf, Left
<1>7. CASE ApplyOwn
  <2> DEFINE layer == At(call, chain[at])
  <2>1. /\ pass = "includes" /\ UNCHANGED <<at, chain>> /\ pass' = "applied"
        /\ out' = [out EXCEPT !.steps = Append(@, Own(chain[at])),
                              !.autos = @ \cup layer.autos,
                              !.labels = Over(layer.labels, @)]
    BY <1>7 DEF ApplyOwn, Refuse, Done, resolution
  <2>2. out'.labels = Over(layer.labels, out.labels) /\ out'.given = out.given
    BY <2>1, <1>0 DEF Resolved
  <2>3. Left = at /\ Left' = at - 1 /\ at \in 1..Len(chain)
    BY <2>1 DEF Left, Climbing
  <2>4. Inherited
    BY <2>1 DEF Labels, Climbed
  <2>5. /\ DOMAIN out'.labels = LabelsOf(at) \cup DOMAIN out.labels
        /\ \A k \in DOMAIN out'.labels : out'.labels[k] = IF k \in LabelsOf(at) THEN layer.labels[k] ELSE out.labels[k]
    BY <2>2 DEF Over, LabelsOf
  <2>6. \A j : LabelsOf(j)' = LabelsOf(j)
    BY <2>1 DEF LabelsOf
  <2>7. Inherited'
    <3>1. ASSUME NEW k \in DOMAIN out'.labels PROVE \E j \in at..Len(chain) : k \in LabelsOf(j)
      BY <2>3, <2>4, <2>5 DEF Inherited
    <3>2. ASSUME NEW j \in at..Len(chain), NEW k \in LabelsOf(j)
          PROVE  /\ k \in DOMAIN out'.labels
                 /\ (\A i \in at..j-1 : k \notin LabelsOf(i)) => out'.labels[k] = At(call, chain[j]).labels[k]
      <4>1. CASE j = at
        BY <4>1, <2>5, <3>2
      <4>2. CASE j # at
        <5>1. j \in Left+1..Len(chain) /\ k \in DOMAIN out.labels
          BY <4>2, <2>3, <2>4, <3>2 DEF Inherited
        <5>2. ASSUME \A i \in at..j-1 : k \notin LabelsOf(i)
              PROVE  out'.labels[k] = At(call, chain[j]).labels[k]
          <6>1. k \notin LabelsOf(at) /\ \A i \in Left+1..j-1 : k \notin LabelsOf(i)
            BY <5>2, <5>1, <2>3
          <6> QED BY <6>1, <5>1, <2>4, <2>5 DEF Inherited
        <5> QED BY <5>1, <5>2, <2>5
      <4> QED BY <4>1, <4>2
    <3>3. Left' + 1 = at /\ chain' = chain
      BY <2>1, <2>3
    <3> QED BY <3>1, <3>2, <3>3, <2>1 DEF Inherited, LabelsOf
  <2> QED BY <2>1, <2>2, <2>7 DEF Labels
<1>8. CASE ApplySpec
  <2>1. /\ pass = "applied" /\ UNCHANGED <<at, chain>> /\ pass' = "variables" /\ at = 1
        /\ \E s : out' = [out EXCEPT !.memory = s]
    BY <1>8 DEF ApplySpec, Refuse, Done, FillFromSpec, resolution
  <2>2. out'.labels = out.labels /\ out'.given = out.given
    BY <2>1, <1>0 DEF Resolved
  <2>3. Left' = Left
    BY <2>1 DEF Left
  <2> QED BY <2>1, <2>2, <2>3 DEF Labels, Climbed, Inherited, LabelsOf
<1>9. CASE ExpandConfig
  <2> DEFINE args == call.args
             v == IF args.uses = None THEN None ELSE LoadVariables(args, "default")
  <2>0. out' = [out EXCEPT !.variable = v]
    BY <1>9 DEF ExpandConfig, Refuse, Done, Walk, resolution
  <2>1. pass = "variables" /\ chain' = chain /\ pass' = "labels" /\ at' = 1
    BY <1>9 DEF ExpandConfig, Refuse, Done, Walk, resolution
  <2>2. out'.labels = out.labels /\ out'.given = out.given /\ out'.variable = v
    BY <2>0, <1>0 DEF Resolved
  <2>3. Left' = Left
    BY <2>1 DEF Left
  <2>4. Variable(args, v)
    <3>1. CASE Given(args) = {}
      BY <3>1 DEF Variable, LoadVariables
    <3>2. CASE Given(args) # {}
      BY <3>2, Greatest DEF Variable
    <3> QED BY <3>1, <3>2
  <2>5. Len(call.args.labels) \in Nat
    BY ListFacts DEF Climbing, WellFormed
  <2>6. ReadSoFar(call.args.labels, 0, out'.given)
    <3>1. DOMAIN out'.given = {}
      BY <2>1, <2>2 DEF Labels
    <3>2. 1..0 = {}
      OBVIOUS
    <3> QED BY <3>1, <3>2 DEF ReadSoFar
  <2>7. Inherited'
    <3>1. Inherited
      BY <2>1 DEF Labels, Climbed
    <3> QED BY <2>1, <2>2, <2>3, <3>1 DEF Inherited, LabelsOf
  <2>8. at' \in 1..Len(call.args.labels)+1 /\ at' - 1 = 0
    BY <2>1, <2>5
  <2> QED BY <2>1, <2>2, <2>4, <2>6, <2>7, <2>8 DEF Labels
<1>10. CASE ParseNextLabel
  <2> DEFINE ls == call.args.labels
  <2>1. /\ pass = "labels" /\ UNCHANGED <<chain, pass>> /\ at' = at + 1 /\ at <= Len(ls)
        /\ ls[at].key # NoKey /\ ls[at].key \notin DOMAIN out.given
        /\ out' = [out EXCEPT !.given = ParseLabel(@, ls[at])]
    BY <1>10 DEF ParseNextLabel, Refuse, Done, On, resolution
  <2>2. out'.labels = out.labels /\ out'.given = ParseLabel(out.given, ls[at]) /\ out'.variable = out.variable
    BY <2>1, <1>0 DEF Resolved
  <2>3. Left' = Left
    BY <2>1 DEF Left
  <2>4. Len(ls) \in Nat /\ at \in 1..Len(ls) /\ ReadSoFar(ls, at-1, out.given)
    BY <2>1, ListFacts DEF Climbing, WellFormed, Labels
  <2>5. /\ DOMAIN out'.given = {ls[at].key} \cup DOMAIN out.given
        /\ \A k \in DOMAIN out'.given : out'.given[k] = IF k = ls[at].key THEN Text(ls[at]) ELSE out.given[k]
    BY <2>2 DEF ParseLabel, Put, Text
  <2>6. ReadSoFar(ls, at, out'.given)
    <3> DEFINE n == at - 1
    <3>1. n \in Nat /\ at = n + 1 /\ 1..at = 1..n \cup {at}
      BY <2>4
    <3>2. \A i \in 1..n : ls[i].key # ls[at].key /\ ls[i].key \in DOMAIN out.given
      BY <2>1, <2>4 DEF ReadSoFar
    <3>3. DOMAIN out'.given = {ls[i].key : i \in 1..at}
      BY <2>4, <2>5, <3>1 DEF ReadSoFar
    <3>4. ASSUME NEW i \in 1..at PROVE out'.given[ls[i].key] = Text(ls[i]) /\ ls[i].key # NoKey
      BY <2>1, <2>4, <2>5, <3>1, <3>2, <3>3, ZenonT(60) DEF ReadSoFar
    <3>5. ASSUME NEW i \in 1..at, NEW j \in 1..at, ls[i].key = ls[j].key PROVE i = j
      BY <2>4, <3>1, <3>2, <3>5 DEF ReadSoFar
    <3> QED BY <3>3, <3>4, <3>5 DEF ReadSoFar
  <2>7. at' - 1 = at /\ at' \in 1..Len(ls)+1
    BY <2>1, <2>4
  <2> QED BY <2>1, <2>2, <2>3, <2>6, <2>7 DEF Labels, Climbed, Inherited, LabelsOf
<1> QED BY ResolveGoesOn, <1>1, <1>2, <1>3, <1>4, <1>5, <1>6, <1>7, <1>8, <1>9, <1>10 DEF BuildFromCli

LEMMA LabelsInit == Init => LabelsHold
BY ResolveInit DEF Working, LabelsHold, Labels, Climbed, InitResolve, Resolved

LEMMA LabelsAlways == ClimbingHolds /\ LabelsHold /\ [Next]_vars => LabelsHold'
<1> SUFFICES ASSUME ClimbingHolds, LabelsHold, [Next]_vars, Working' PROVE Labels'
  BY DEF LabelsHold
<1>1. call' = call /\ (BuildFromCli \/ UNCHANGED vars)
  BY ResolveStep DEF Working
<1>2. CASE BuildFromCli
  BY <1>1, <1>2, ResolveGoesOn, LabelsStep DEF ClimbingHolds, LabelsHold, Working
<1>3. CASE UNCHANGED vars
  BY <1>3 DEF vars, LabelsHold, Working, Labels, Climbed, Inherited, LabelsOf, Left
<1> QED BY <1>1, <1>2, <1>3

LEMMA OnlyBuildAccepts ==
  ASSUME Climbing, BuildFromCli, pass' = "done", Ok(out')
  PROVE  /\ pass = "labels" /\ at > Len(call.args.labels)
         /\ ~(out.backend = "avf" /\ out.idle > 0)
         /\ out' = [out EXCEPT !.labels = Over(out.given, @)] /\ chain' = chain
<1>1. ASSUME NEW e, Refuse(e), e # "none" PROVE FALSE
  BY <1>1 DEF Refuse, Done, Ok, Climbing, Resolved
<1>1a. ASSUME NEW r, NEW l, NEW e \in WrongAutos(r, l), Refuse(e) PROVE FALSE
  BY <1>1, <1>1a DEF WrongAutos
<1>2. pass # "done"
  BY DEF Climbing
<1>2a. ~Contribute /\ ~ApplyOwn
  <2>1. ASSUME Contribute PROVE FALSE
    BY <1>1, <1>1a, <1>2, <2>1 DEF Contribute
  <2>2. ASSUME ApplyOwn PROVE FALSE
    BY <1>1a, <2>2 DEF ApplyOwn
  <2> QED BY <2>1, <2>2
<1>3. Build
  BY <1>1, <1>2, <1>2a DEF BuildFromCli, In, CheckArguments, FollowFrom, RootImage, MergeChild,
       Include, ApplySpec, ExpandConfig, ParseNextLabel, Walk, Enter, On
<1> QED BY <1>1, <1>3 DEF Build, In, Past, Done, resolution

LEMMA NearestMonotone ==
  ASSUME NEW c, WellFormed(c), NEW s, Rooted(c, s), NEW i \in 1..Len(s), NEW S,
         S \subseteq Chain(c), S \subseteq Above(c, s[i])
  PROVE  \A j \in 1..i-1 : s[j] \notin S
<1> SUFFICES ASSUME NEW j \in 1..i-1, s[j] \in S PROVE FALSE
  OBVIOUS
<1>1. Above(c, s[i]) = {s[k] : k \in i..Len(s)}
  BY AboveInChain
<1>2. PICK k \in i..Len(s) : s[j] = s[k]
  BY <1>1
<1>3. Len(s) \in Nat /\ \A a, b \in 1..Len(s) : s[a] = s[b] => a = b
  BY DEF Rooted, Chained
<1>4. j = k
  BY <1>2, <1>3
<1> QED BY <1>3, <1>4

LEMMA OrOfOr == \A a, b, d : Or(Or(a, b), d) = Or(a, Or(b, d))
BY DEF Or

LEMMA NearestOfTop ==
  ASSUME NEW c, WellFormed(c), NEW s, Rooted(c, s), s[1] = Top
  PROVE  LET near == Nearest(c, Top, "backend", DefaultBackend)
         IN near = Or(At(c, Top).backend, near)
<1> DEFINE near == Nearest(c, Top, "backend", DefaultBackend)
<1> HIDE DEF near
<1>1. Len(s) \in Nat /\ Len(s) >= 1
  BY DEF Rooted, Chained
<1>2. CASE Len(s) = 1
  <2>1. Nearest(c, s[Len(s)], "backend", DefaultBackend) = Or(At(c, s[Len(s)])["backend"], DefaultBackend)
    BY NearestOfRoot
  <2>2. near = Or(At(c, Top).backend, DefaultBackend)
    BY <1>2, <2>1 DEF near
  <2> QED BY <2>2 DEF Or, near
<1>3. CASE Len(s) # 1
  <2>1. Top \in Chain(c) /\ At(c, Top).from # None
    <3>1. Chain(c) = {s[j] : j \in 1..Len(s)}
      BY ChainIs
    <3>2. 1 \in 1..Len(s)
      BY <1>1
    <3>3. Top \in Chain(c)
      BY <3>1, <3>2
    <3>4. 1 \in 1..Len(s)-1
      BY <1>1, <1>3
    <3>5. At(c, s[1]).from # None
      BY <3>4 DEF Rooted, Chained
    <3> QED BY <3>3, <3>5
  <2>2. Overrides(c, Top, At(c, Top).from)
    BY <2>1, NearestOfChild
  <2> QED BY <2>2 DEF Overrides, Or, near
<1> QED BY <1>2, <1>3

LEMMA PrecedenceStep ==
  ASSUME Climbing, Scalars, Labels, call' = call, BuildFromCli, Accepted'
  PROVE  CliPrecedence'
<1> DEFINE args == call.args
           file == Source(args)
           ls == args.labels
           top == At(call, Top)
           given(k) == {i \in DOMAIN ls : ls[i].key = k}
           setters(k) == {n \in Chain(call) : k \in DOMAIN At(call, n).labels}
<1>1. /\ pass = "labels" /\ at > Len(ls)
      /\ out' = [out EXCEPT !.labels = Over(out.given, @)]
  BY OnlyBuildAccepts DEF Accepted, Returned
<1>2. DOMAIN out = DOMAIN Resolved /\ WellFormed(call) /\ Rooted(call, chain) /\ chain[1] = Top
      /\ IsList(ls)
  BY <1>1 DEF Climbing, Chained, WellFormed
<1>3. /\ out'.memory = out.memory /\ out'.backend = out.backend /\ out'.idle = out.idle
      /\ out'.user = out.user /\ out'.variable = out.variable
      /\ out'.labels = Over(out.given, out.labels)
  BY <1>1, <1>2 DEF Resolved
<1>4. NearestValues(call, Top, out)
  BY <1>1, <1>2 DEF Scalars, Climbed, Current
<1>5. /\ top.memory = Or(args.memory, file.memory) /\ top.spec = Or(args.spec, file.spec)
      /\ top.backend = Or(args.backend, file.backend)
  BY <1>2, OverlayIs, TopIs
<1>6. out'.memory = Or(args.memory, Or(file.memory, Specs[Or(args.spec, Or(file.spec, "medium"))]))
  <2>1. out.memory = Or(top.memory, Specs[Or(top.spec, "medium")])
    BY <1>1 DEF Scalars
  <2>2. Or(top.spec, "medium") = Or(args.spec, Or(file.spec, "medium"))
    BY <1>5, OrOfOr
  <2>3. \A d : Or(top.memory, d) = Or(args.memory, Or(file.memory, d))
    BY <1>5, OrOfOr
  <2> QED BY <2>1, <2>2, <2>3, <1>3
<1>7. Len(ls) \in Nat /\ DOMAIN ls = 1..Len(ls) /\ at - 1 = Len(ls)
  <2>1. Len(ls) \in Nat /\ DOMAIN ls = 1..Len(ls)
    BY <1>2, ListFacts
  <2>2. at \in 1..Len(ls)+1
    BY <1>1 DEF Labels
  <2> QED BY <2>1, <2>2, <1>1
<1>8. ReadSoFar(ls, Len(ls), out.given) /\ Inherited /\ Left = 0 /\ Variable(args, out.variable)
  BY <1>1, <1>7 DEF Labels, Climbed, Left
<1>18. Len(chain) \in Nat /\ Len(chain) >= 1
  BY <1>2 DEF Rooted, Chained
<1>9. Len(chain) \in Nat /\ Len(chain) >= 1 /\ Chain(call) = {chain[j] : j \in 1..Len(chain)}
  <2>1. Len(chain) \in Nat /\ Len(chain) >= 1
    BY <1>18
  <2>2. Chain(call) = {chain[j] : j \in 1..Len(chain)}
    BY <1>2, ChainIs
  <2> QED BY <2>1, <2>2
<1>10. \A k : given(k) = {} <=> k \notin DOMAIN out.given
  BY <1>7, <1>8 DEF ReadSoFar
<1>11. ASSUME NEW k \in DOMAIN out'.labels PROVE given(k) # {} \/ setters(k) # {}
  <2>1. CASE k \in DOMAIN out.given
    BY <2>1, <1>10
  <2>2. CASE k \notin DOMAIN out.given
    <3>1. k \in DOMAIN out.labels
      BY <2>2, <1>3 DEF Over
    <3>2. PICK j \in 1..Len(chain) : k \in LabelsOf(j)
      BY <3>1, <1>8, <1>9 DEF Inherited
    <3>3. chain[j] \in setters(k)
      BY <3>2, <1>9 DEF LabelsOf
    <3> QED BY <3>3
  <2> QED BY <2>1, <2>2
<1>12. ASSUME NEW i \in DOMAIN ls
       PROVE  ls[i].key \in DOMAIN out'.labels
              /\ out'.labels[ls[i].key] = (IF ls[i].value = Bare THEN "" ELSE ls[i].value)
  BY <1>7, <1>8, <1>3 DEF ReadSoFar, Over, Text
<1>13. ASSUME NEW n \in Chain(call), NEW k \in DOMAIN At(call, n).labels,
              given(k) = {}, setters(k) \subseteq Above(call, n)
       PROVE  k \in DOMAIN out'.labels /\ out'.labels[k] = At(call, n).labels[k]
  <2>1. PICK j \in 1..Len(chain) : n = chain[j]
    BY <1>9
  <2> DEFINE S == setters(k)
  <2>2. S \subseteq Chain(call) /\ S \subseteq Above(call, chain[j])
    BY <2>1, <1>13
  <2> HIDE DEF S
  <2>3. \A i \in 1..j-1 : chain[i] \notin S
    BY <2>2, <1>2, NearestMonotone
  <2>4. \A i \in 1..j-1 : k \notin LabelsOf(i)
    BY <2>3, <1>9 DEF S, LabelsOf
  <2>5. k \in LabelsOf(j)
    BY <2>1, <1>13 DEF LabelsOf
  <2>6. k \in DOMAIN out.labels /\ out.labels[k] = At(call, n).labels[k]
    BY <2>1, <2>4, <2>5, <1>8, <1>9 DEF Inherited
  <2> QED BY <2>6, <1>3, <1>10, <1>13 DEF Over
<1>14. out'.backend = Or(args.backend, Or(file.backend, Nearest(call, Top, "backend", DefaultBackend)))
  <2> DEFINE near == Nearest(call, Top, "backend", DefaultBackend)
  <2> HIDE DEF near
  <2>1. near = Or(top.backend, near)
    BY <1>2, NearestOfTop DEF near
  <2>2. out'.backend = near
    BY <1>3, <1>4 DEF NearestValues, near
  <2>3. near = Or(args.backend, Or(file.backend, near))
    BY <2>1, <1>5, OrOfOr
  <2> QED BY <2>2, <2>3 DEF near
<1>15. out'.idle = Nearest(call, Top, "idle", 0) /\ out'.user = Nearest(call, Top, "user", "agent")
  BY <1>3, <1>4 DEF NearestValues
<1>16. args.uses # None =>
         IF Given(args) = {} THEN out'.variable = "default"
         ELSE \E i \in Given(args) : out'.variable = Sources[i] /\ \A j \in Given(args) : j <= i
  BY <1>3, <1>8 DEF Variable
<1>17. Precedence(call, out')
  BY <1>6, <1>11, <1>12, <1>13, <1>14, <1>15, <1>16 DEF Precedence
<1> QED BY <1>17 DEF CliPrecedence

LEMMA PrecedenceAlways ==
  ClimbingHolds /\ ScalarsHold /\ LabelsHold /\ CliPrecedence /\ [Next]_vars => CliPrecedence'
<1> SUFFICES ASSUME ClimbingHolds, ScalarsHold, LabelsHold, CliPrecedence, [Next]_vars, Accepted'
             PROVE  CliPrecedence'
  BY DEF CliPrecedence
<1>1. call' = call /\ call.kind = "resolve" /\ (BuildFromCli \/ UNCHANGED vars)
  BY ResolveStep DEF Accepted, Returned
<1>2. CASE BuildFromCli
  <2>1. pass # "done"
    BY <1>2 DEF BuildFromCli, In, CheckArguments, FollowFrom, RootImage, MergeChild, Include,
       Contribute, ApplyOwn, ApplySpec, ExpandConfig, ParseNextLabel, Build
  <2> QED BY <1>1, <1>2, <2>1, PrecedenceStep DEF ClimbingHolds, ScalarsHold, LabelsHold, Working
<1>3. CASE UNCHANGED vars
  BY <1>3 DEF vars, CliPrecedence, Accepted, Returned
<1> QED BY <1>1, <1>2, <1>3

(* Whatever the layers and the command line set, the command line wins,    *)
(* then the nearest layer; memory comes from the spec unless the user set  *)
(* it; a variable has its strongest value (resolve, merge, build_from_cli).*)
THEOREM CliPrecedenceTheorem == Spec => []CliPrecedence
<1>1. Spec => []ClimbingHolds
  BY ClimbingInit, ClimbingAlways, PTL DEF Spec
<1>2. Spec => []ScalarsHold
  BY <1>1, ScalarsInit, ScalarsAlways, PTL DEF Spec
<1>3. Spec => []LabelsHold
  BY <1>1, LabelsInit, LabelsAlways, PTL DEF Spec
<1>4. Init => CliPrecedence
  BY ResolveInit DEF CliPrecedence, Accepted, Returned, InitResolve
<1> QED BY <1>1, <1>2, <1>3, <1>4, PrecedenceAlways, PTL DEF Spec

-----------------------------------------------------------------------------
(* The walk over the includes of a layer.                                  *)

Name(c, m, i) == At(c, m).include[i]
Count(c, m) == Len(At(c, m).include)

(* Met: the layer and the mixins seen for it. *)
Met(c, n, r) ==
  /\ n \in DOMAIN r
  /\ \A m \in DOMAIN r : Here(c, m) /\ r[m] \in 1..Count(c, m)+1
  /\ \A m \in DOMAIN r \ {n} : m \in Mixins(c, n) /\ ~NotAMixin(At(c, m))

(* Every include that has been read names another mixin, and every mixin   *)
(* seen has been named by one.                                             *)
ReadOnce(c, n, r) ==
  /\ \A m \in DOMAIN r : \A i \in 1..r[m]-1 : Name(c, m, i) \in DOMAIN r \ {n}
  /\ \A m, k \in DOMAIN r : \A i \in 1..r[m]-1, j \in 1..r[k]-1 :
       Name(c, m, i) = Name(c, k, j) => m = k /\ i = j
  /\ \A y \in DOMAIN r \ {n} : \E m \in DOMAIN r : \E i \in 1..r[m]-1 : Name(c, m, i) = y

Open(s) == {s[k] : k \in 1..Len(s)}

Stacked(c, n, s, r) ==
  /\ s \in Seq(DOMAIN r) /\ Len(s) >= 1 /\ s[1] = n
  /\ \A i, j \in 1..Len(s) : s[i] = s[j] => i = j
  /\ \A k \in 1..Len(s)-1 : r[s[k]] > 1 /\ s[k+1] = Name(c, s[k], r[s[k]] - 1)
  /\ \A i, j \in 1..Len(s) : i < j => s[j] \in Mixins(c, s[i])

Finished(c, s, r) ==
  \A m \in DOMAIN r \ Open(s) :
    r[m] = Count(c, m) + 1 /\ \A i \in 1..Count(c, m) : Name(c, m, i) \notin Open(s)

Visit(c, n, s, r) ==
  Met(c, n, r) /\ ReadOnce(c, n, r) /\ Stacked(c, n, s, r) /\ Finished(c, s, r)

LEMMA IncludesAre ==
  ASSUME NEW c, WellFormed(c), NEW m, Here(c, m)
  PROVE  Count(c, m) \in Nat /\ Listed(c, m) = {Name(c, m, i) : i \in 1..Count(c, m)}
<1> DEFINE list == At(c, m).include
<1>1. IsList(list)
  BY AtIs DEF IsLayer
<1>2. Len(list) \in Nat /\ DOMAIN list = 1..Len(list)
  BY <1>1, ListFacts
<1> QED BY <1>2 DEF Count, Name, Listed

LEMMA OpenAppend ==
  ASSUME NEW S, NEW s \in Seq(S), NEW T, S \subseteq T, NEW m \in T
  PROVE  /\ Append(s, m) \in Seq(T) /\ Len(Append(s, m)) = Len(s) + 1 /\ Len(s) \in Nat
         /\ \A k \in 1..Len(s) : Append(s, m)[k] = s[k]
         /\ Append(s, m)[Len(s)+1] = m
         /\ Open(Append(s, m)) = Open(s) \cup {m}
<1>1. s \in Seq(T) /\ Len(s) \in Nat
  OBVIOUS
<1>2. /\ Append(s, m) \in Seq(T) /\ Len(Append(s, m)) = Len(s) + 1
      /\ \A k \in 1..Len(s) : Append(s, m)[k] = s[k]
      /\ Append(s, m)[Len(s)+1] = m
  BY <1>1
<1>3. \A k \in 1..Len(s)+1 : k \in 1..Len(s) \/ k = Len(s) + 1
  BY <1>1
<1>4. Len(s) + 1 \in 1..Len(s)+1 /\ \A k \in 1..Len(s) : k \in 1..Len(s)+1
  BY <1>1
<1>5. Open(Append(s, m)) = Open(s) \cup {m}
  <2> DEFINE a == Append(s, m)
  <2>1. /\ Len(a) = Len(s) + 1 /\ a[Len(s)+1] = m
        /\ \A k \in 1..Len(s) : a[k] = s[k]
    BY <1>2
  <2> HIDE DEF a
  <2>2. Open(a) = Open(s) \cup {m}
    BY <1>3, <1>4, <2>1 DEF Open
  <2> QED BY <2>2 DEF a
<1> QED BY <1>1, <1>2, <1>5

LEMMA OpenOfAppend ==
  ASSUME NEW S, NEW s \in Seq(S), NEW m
  PROVE  Open(Append(s, m)) = Open(s) \cup {m}
<1> DEFINE T == S \cup {m}
<1>1. S \subseteq T /\ m \in T
  OBVIOUS
<1> HIDE DEF T
<1> QED BY <1>1, OpenAppend

LEMMA OpenFront ==
  ASSUME NEW S, NEW s \in Seq(S), Len(s) > 1, \A i, j \in 1..Len(s) : s[i] = s[j] => i = j
  PROVE  /\ Front(s) \in Seq(S) /\ Len(Front(s)) = Len(s) - 1 /\ Len(s) \in Nat
         /\ \A k \in 1..Len(s)-1 : Front(s)[k] = s[k]
         /\ Open(Front(s)) = Open(s) \ {s[Len(s)]}
         /\ s[Len(s)] \in Open(s) /\ Open(s) \subseteq S
<1> DEFINE f == Front(s)
<1>1. Len(s) \in Nat
  OBVIOUS
<1>2. f \in Seq(S) /\ Len(f) = Len(s) - 1 /\ \A k \in 1..Len(s)-1 : f[k] = s[k]
  <2>1. Len(s) - 1 \in Nat /\ 1 <= Len(s) - 1 /\ Len(s) - 1 - 1 + 1 = Len(s) - 1
    BY <1>1
  <2>2. /\ f \in Seq(S) /\ Len(f) = Len(s) - 1 - 1 + 1
        /\ \A k \in 1..Len(s)-1-1+1 : f[k] = s[1 + k - 1]
    BY <2>1, SubSeqProperties DEF Front
  <2>3. \A k \in 1..Len(s)-1 : 1 + k - 1 = k
    OBVIOUS
  <2> HIDE DEF f
  <2> QED BY <2>1, <2>2, <2>3
<1> HIDE DEF f
<1>3. \A k \in 1..Len(s) : k \in 1..Len(s)-1 \/ k = Len(s)
  BY <1>1
<1>4. \A k \in 1..Len(s)-1 : k \in 1..Len(s) /\ k # Len(s)
  BY <1>1
<1>5. Len(s) \in 1..Len(s)
  BY <1>1
<1>6. Open(f) = Open(s) \ {s[Len(s)]}
  <2>1. Open(f) = {s[k] : k \in 1..Len(s)-1}
    BY <1>2 DEF Open
  <2>2. \A k \in 1..Len(s)-1 : s[k] # s[Len(s)]
    BY <1>4, <1>5
  <2>3. {s[k] : k \in 1..Len(s)-1} = {s[k] : k \in 1..Len(s)} \ {s[Len(s)]}
    BY <1>3, <1>4, <1>5, <2>2
  <2> QED BY <2>1, <2>3 DEF Open
<1>7. s[Len(s)] \in Open(s) /\ Open(s) \subseteq S
  BY <1>5 DEF Open
<1> QED BY <1>1, <1>2, <1>6, <1>7 DEF f

LEMMA VisitStarts ==
  ASSUME NEW c, WellFormed(c), NEW n, Here(c, n)
  PROVE  Visit(c, n, <<n>>, [m \in {n} |-> 1]) /\ {n} \ Open(<<n>>) = {}
<1> DEFINE r == [m \in {n} |-> 1]
           s == <<n>>
<1>1. DOMAIN r = {n} /\ r[n] = 1
  OBVIOUS
<1>2. s \in Seq({n}) /\ Len(s) = 1 /\ s[1] = n
  OBVIOUS
<1>3. 1..1-1 = {} /\ 1..1 = {1}
  OBVIOUS
<1> HIDE DEF r, s
<1>4. Count(c, n) \in Nat
  BY IncludesAre
<1>5. Met(c, n, r)
  BY <1>1, <1>4 DEF Met
<1>6. ReadOnce(c, n, r)
  BY <1>1, <1>3 DEF ReadOnce
<1>7. Open(s) = {n}
  BY <1>2, <1>3 DEF Open
<1>8. Stacked(c, n, s, r)
  BY <1>1, <1>2, <1>3 DEF Stacked
<1>9. Finished(c, s, r)
  BY <1>1, <1>7 DEF Finished
<1> QED BY <1>5, <1>6, <1>7, <1>8, <1>9 DEF Visit, r, s

(* Everything that a mixin includes is named among what it lists.          *)
LEMMA OpenFacts ==
  ASSUME NEW c, NEW n, NEW s, NEW r, Stacked(c, n, s, r)
  PROVE  /\ Len(s) \in Nat /\ Len(s) \in 1..Len(s) /\ 1 \in 1..Len(s) /\ s[1] = n
         /\ Open(s) \subseteq DOMAIN r /\ n \in Open(s) /\ s[Len(s)] \in Open(s)
<1>1. Len(s) \in Nat /\ Len(s) >= 1 /\ s[1] = n /\ \A k \in 1..Len(s) : s[k] \in DOMAIN r
  BY DEF Stacked
<1>2. Len(s) \in 1..Len(s) /\ 1 \in 1..Len(s)
  BY <1>1
<1> QED BY <1>1, <1>2 DEF Open

LEMMA VisitEnters ==
  ASSUME NEW c, WellFormed(c), NEW n, NotAMixin(At(c, n)), NEW s, NEW r, Visit(c, n, s, r),
         NEW t, t = s[Len(s)], r[t] <= Count(c, t),
         NEW m, m = Name(c, t, r[t]), m \notin DOMAIN r \ {n}, Here(c, m), ~NotAMixin(At(c, m)),
         NEW q, q = [k \in DOMAIN r \cup {m} |-> IF k = m THEN 1 ELSE IF k = t THEN r[t] + 1 ELSE r[k]]
  PROVE  /\ Visit(c, n, Append(s, m), q)
         /\ m \notin DOMAIN r /\ m \in Mixins(c, n) /\ m \in Listed(c, t)
         /\ DOMAIN q \ Open(Append(s, m)) = DOMAIN r \ Open(s)
<1> DEFINE a == Append(s, m)
           D == DOMAIN r
<1>0. Met(c, n, r) /\ ReadOnce(c, n, r) /\ Stacked(c, n, s, r) /\ Finished(c, s, r)
  BY DEF Visit
<1>1. /\ Len(s) \in Nat /\ Len(s) \in 1..Len(s) /\ 1 \in 1..Len(s) /\ s[1] = n
      /\ Open(s) \subseteq D /\ n \in Open(s) /\ t \in Open(s)
  BY <1>0, OpenFacts
<1>2. m # n /\ m \notin D
  OBVIOUS
<1>3. /\ DOMAIN q = D \cup {m} /\ q[m] = 1 /\ t # m
      /\ q[t] = r[t] + 1 /\ \A k \in D \ {t} : q[k] = r[k]
  BY <1>1, <1>2
<1>4. t \in D /\ Here(c, t) /\ r[t] \in 1..Count(c, t)+1 /\ Count(c, t) \in Nat /\ Count(c, m) \in Nat
  <2>1. t \in D /\ Here(c, t) /\ r[t] \in 1..Count(c, t)+1
    BY <1>0, <1>1 DEF Met
  <2> QED BY <2>1, IncludesAre
<1>5. /\ r[t] \in 1..Count(c, t) /\ r[t] + 1 \in 1..Count(c, t)+1 /\ r[t] + 1 > 1
      /\ r[t] + 1 - 1 = r[t] /\ \A i \in 1..r[t] : i = r[t] \/ i \in 1..r[t]-1
      /\ \A i \in 1..r[t]-1 : i \in 1..r[t] /\ i # r[t]
  BY <1>4
<1>6. m \in Listed(c, t)
  BY <1>4, <1>5, IncludesAre
<1>7. \A k \in Open(s) : m \in Mixins(c, k)
  <2>1. ASSUME NEW i \in 1..Len(s) PROVE m \in Mixins(c, s[i])
    <3>1. CASE i = Len(s)
      BY <3>1, <1>6, MixinsHold
    <3>2. CASE i # Len(s)
      <4>1. t \in Mixins(c, s[i])
        BY <3>2, <1>0, <1>1 DEF Stacked
      <4> QED BY <4>1, <1>6, MixinsHold
    <3> QED BY <3>1, <3>2
  <2> QED BY <2>1 DEF Open
<1>8. /\ a \in Seq(DOMAIN q) /\ Len(a) = Len(s) + 1
      /\ \A k \in 1..Len(s) : a[k] = s[k]
      /\ a[Len(s)+1] = m /\ Open(a) = Open(s) \cup {m}
  <2> DEFINE T == DOMAIN q
  <2>1. s \in Seq(D) /\ D \subseteq T /\ m \in T
    BY <1>0, <1>3 DEF Stacked
  <2> HIDE DEF T, D
  <2>2. a \in Seq(T) /\ Len(a) = Len(s) + 1 /\ \A k \in 1..Len(s) : a[k] = s[k]
    BY <2>1, OpenAppend
  <2>3. a[Len(s)+1] = m
    BY <2>1, OpenAppend
  <2>4. Open(a) = Open(s) \cup {m}
    BY <2>1, OpenOfAppend
  <2> QED BY <2>2, <2>3, <2>4 DEF T
<1> HIDE DEF a, D
<1>9. Met(c, n, q)
  <2>1. n \in DOMAIN q
    BY <1>1, <1>3
  <2>2. ASSUME NEW k \in DOMAIN q PROVE Here(c, k) /\ q[k] \in 1..Count(c, k)+1
    <3>1. CASE k = m
      BY <3>1, <1>3, <1>4
    <3>2. CASE k = t
      BY <3>2, <1>3, <1>4, <1>5
    <3>3. CASE k # m /\ k # t
      BY <3>3, <1>0, <1>3 DEF Met, D
    <3> QED BY <3>1, <3>2, <3>3
  <2>3. ASSUME NEW k \in DOMAIN q \ {n} PROVE k \in Mixins(c, n) /\ ~NotAMixin(At(c, k))
    BY <1>0, <1>1, <1>3, <1>7 DEF Met, D
  <2> QED BY <2>1, <2>2, <2>3 DEF Met
<1>10. \A k \in D \ {t} : q[k] - 1 = r[k] - 1
  BY <1>3
<1>11. q[m] - 1 = 0 /\ 1..0 = {} /\ q[t] - 1 = r[t]
  BY <1>3, <1>5
(* An include that has been read is one that had been, or the new one.     *)
<1>12. \A k \in DOMAIN q : \A i \in 1..q[k]-1 :
         (k \in D /\ i \in 1..r[k]-1) \/ (k = t /\ i = r[t])
  BY <1>3, <1>5, <1>10, <1>11
<1>13. \A k \in D : \A i \in 1..r[k]-1 : k \in DOMAIN q /\ i \in 1..q[k]-1
  BY <1>3, <1>5, <1>10, <1>11
<1>14. \A k \in D : \A i \in 1..r[k]-1 : Name(c, k, i) \in D \ {n}
  BY <1>0 DEF ReadOnce, D
<1>15. t \in DOMAIN q /\ r[t] \in 1..q[t]-1
  BY <1>3, <1>5, <1>1
<1>16. ReadOnce(c, n, q)
  <2>1. \A k \in DOMAIN q : \A i \in 1..q[k]-1 : Name(c, k, i) \in DOMAIN q \ {n}
    <3> SUFFICES ASSUME NEW k \in DOMAIN q, NEW i \in 1..q[k]-1 PROVE Name(c, k, i) \in DOMAIN q \ {n}
      OBVIOUS
    <3>1. CASE k \in D /\ i \in 1..r[k]-1
      BY <3>1, <1>14, <1>3
    <3>2. CASE k = t /\ i = r[t]
      BY <3>2, <1>2, <1>3
    <3> QED BY <3>1, <3>2, <1>12
  <2>2. ASSUME NEW k \in DOMAIN q, NEW l \in DOMAIN q, NEW i \in 1..q[k]-1, NEW j \in 1..q[l]-1,
               Name(c, k, i) = Name(c, l, j)
        PROVE  k = l /\ i = j
    <3>1. CASE k \in D /\ i \in 1..r[k]-1 /\ l \in D /\ j \in 1..r[l]-1
      BY <3>1, <2>2, <1>0 DEF ReadOnce, D
    <3>2. CASE k = t /\ i = r[t] /\ l = t /\ j = r[t]
      BY <3>2
    <3>3. CASE k = t /\ i = r[t] /\ l \in D /\ j \in 1..r[l]-1
      BY <3>3, <2>2, <1>14, <1>2
    <3>4. CASE l = t /\ j = r[t] /\ k \in D /\ i \in 1..r[k]-1
      BY <3>4, <2>2, <1>14, <1>2
    <3> QED BY <3>1, <3>2, <3>3, <3>4, <1>12, ZenonT(60)
  <2>3. ASSUME NEW y \in DOMAIN q \ {n} PROVE \E k \in DOMAIN q : \E i \in 1..q[k]-1 : Name(c, k, i) = y
    <3>1. CASE y = m
      BY <3>1, <1>15
    <3>2. CASE y # m
      <4>1. \E k \in D : \E i \in 1..r[k]-1 : Name(c, k, i) = y
        BY <3>2, <1>0, <1>3 DEF ReadOnce, D
      <4> QED BY <4>1, <1>13
    <3> QED BY <3>1, <3>2
  <2> QED BY <2>1, <2>2, <2>3 DEF ReadOnce
<1>17. \A k \in 1..Len(a) : k \in 1..Len(s) \/ k = Len(s) + 1
  BY <1>1, <1>8
<1>18. \A k \in 1..Len(s) : s[k] \in Open(s) /\ s[k] \in D /\ s[k] # m
  BY <1>1, <1>2 DEF Open
<1>19. Stacked(c, n, a, q)
  <2>1. a \in Seq(DOMAIN q) /\ Len(a) >= 1 /\ a[1] = n
    BY <1>1, <1>8
  <2>2. ASSUME NEW i \in 1..Len(a), NEW j \in 1..Len(a), a[i] = a[j] PROVE i = j
    <3>1. \A x, y \in 1..Len(s) : s[x] = s[y] => x = y
      BY <1>0 DEF Stacked
    <3> QED BY <2>2, <3>1, <1>17, <1>18, <1>8
  <2>3. ASSUME NEW k \in 1..Len(a)-1 PROVE q[a[k]] > 1 /\ a[k+1] = Name(c, a[k], q[a[k]] - 1)
    <3>1. k \in 1..Len(s) /\ a[k] = s[k]
      BY <1>1, <1>8
    <3>2. CASE k = Len(s)
      BY <3>1, <3>2, <1>3, <1>5, <1>8
    <3>3. CASE k # Len(s)
      <4>1. k \in 1..Len(s)-1 /\ k + 1 \in 1..Len(s) /\ a[k+1] = s[k+1]
        BY <3>1, <3>3, <1>1, <1>8
      <4>2. r[s[k]] > 1 /\ s[k+1] = Name(c, s[k], r[s[k]] - 1)
        BY <4>1, <1>0 DEF Stacked
      <4>3. s[k] # t /\ s[k] \in D
        BY <3>1, <3>3, <1>0, <1>1, <1>18 DEF Stacked
      <4>4. q[s[k]] = r[s[k]]
        BY <4>3, <1>3
      <4> QED BY <3>1, <4>1, <4>2, <4>4
    <3> QED BY <3>2, <3>3
  <2>4. ASSUME NEW i \in 1..Len(a), NEW j \in 1..Len(a), i < j PROVE a[j] \in Mixins(c, a[i])
    <3>1. i \in 1..Len(s) /\ a[i] = s[i]
      BY <2>4, <1>1, <1>8
    <3>2. CASE j = Len(s) + 1
      BY <3>1, <3>2, <1>7, <1>8, <1>18
    <3>3. CASE j \in 1..Len(s)
      BY <3>1, <3>3, <2>4, <1>0, <1>8 DEF Stacked
    <3> QED BY <3>2, <3>3, <1>17
  <2> QED BY <2>1, <2>2, <2>3, <2>4 DEF Stacked
<1>20. DOMAIN q \ Open(a) = D \ Open(s)
  BY <1>2, <1>3, <1>8
<1>21. Finished(c, a, q)
  <2> SUFFICES ASSUME NEW k \in D \ Open(s)
               PROVE  q[k] = Count(c, k) + 1 /\ \A i \in 1..Count(c, k) : Name(c, k, i) \notin Open(a)
    BY <1>20 DEF Finished
  <2>1. r[k] = Count(c, k) + 1 /\ \A i \in 1..Count(c, k) : Name(c, k, i) \notin Open(s)
    BY <1>0 DEF Finished, D
  <2>2. k # t /\ q[k] = r[k]
    BY <1>1, <1>3
  <2>3. Here(c, k)
    BY <1>0 DEF Met, D
  <2>4. Count(c, k) \in Nat
    BY <2>3, IncludesAre
  <2>5. Count(c, k) + 1 - 1 = Count(c, k)
    BY <2>4
  <2>6. \A i \in 1..Count(c, k) : Name(c, k, i) \in D
    <3>a. r[k] = Count(c, k) + 1
      BY <2>1
    <3>0. r[k] - 1 = Count(c, k)
      BY <3>a, <2>4
    <3> SUFFICES ASSUME NEW i \in 1..r[k]-1 PROVE Name(c, k, i) \in D
      BY <3>0
    <3>1. k \in D
      OBVIOUS
    <3> QED BY <3>1, <1>14
  <2> QED BY <2>1, <2>2, <2>6, <1>2, <1>8
<1> QED BY <1>2, <1>6, <1>7, <1>1, <1>9, <1>16, <1>19, <1>20, <1>21 DEF Visit, a, D

(* What a mixin includes is no longer open when all of it has been read.   *)
LEMMA ReadToTheEnd ==
  ASSUME NEW c, WellFormed(c), NEW n, NEW s, NEW r, Visit(c, n, s, r),
         NEW m, m = s[Len(s)], r[m] > Count(c, m)
  PROVE  /\ r[m] = Count(c, m) + 1 /\ Here(c, m) /\ Count(c, m) \in Nat
         /\ Listed(c, m) \subseteq DOMAIN r \ Open(s)
<1>0. Met(c, n, r) /\ ReadOnce(c, n, r) /\ Stacked(c, n, s, r) /\ Finished(c, s, r)
  BY DEF Visit
<1>1. /\ Len(s) \in Nat /\ Len(s) \in 1..Len(s) /\ 1 \in 1..Len(s) /\ s[1] = n
      /\ m \in DOMAIN r
  BY <1>0, OpenFacts
<1>2. Here(c, m) /\ r[m] \in 1..Count(c, m)+1
  BY <1>0, <1>1 DEF Met
<1>3. Count(c, m) \in Nat /\ Listed(c, m) = {Name(c, m, i) : i \in 1..Count(c, m)}
  BY <1>2, IncludesAre
<1>4. r[m] = Count(c, m) + 1
  BY <1>2, <1>3
<1>5. ASSUME NEW i \in 1..Count(c, m) PROVE Name(c, m, i) \in DOMAIN r /\ Name(c, m, i) \notin Open(s)
  <2>1. i \in 1..r[m]-1
    BY <1>3, <1>4
  <2>2. Name(c, m, i) \in DOMAIN r \ {n}
    BY <1>0, <1>1, <2>1 DEF ReadOnce
  <2>3. ASSUME NEW k \in 1..Len(s), Name(c, m, i) = s[k] PROVE FALSE
    <3>1. k # 1
      BY <2>2, <2>3, <1>1
    <3> DEFINE l == k - 1
    <3>2. l \in 1..Len(s)-1 /\ l \in 1..Len(s) /\ k = l + 1 /\ l # Len(s)
      BY <3>1, <1>1
    <3> HIDE DEF l
    <3>3. r[s[l]] > 1 /\ s[k] = Name(c, s[l], r[s[l]] - 1)
      BY <3>2, <1>0 DEF Stacked
    <3>4. s[l] \in DOMAIN r
      BY <3>2, <1>0 DEF Stacked
    <3>5. r[s[l]] \in Nat
      <4>1. Here(c, s[l]) /\ r[s[l]] \in 1..Count(c, s[l])+1
        BY <3>4, <1>0 DEF Met
      <4> QED BY <4>1, IncludesAre
    <3>6. r[s[l]] - 1 \in 1..r[s[l]]-1
      BY <3>3, <3>5
    <3>7. m = s[l]
      BY <1>0, <1>1, <2>1, <2>3, <3>3, <3>4, <3>6 DEF ReadOnce
    <3> QED BY <3>7, <3>2, <1>0, <1>1 DEF Stacked
  <2> QED BY <2>2, <2>3 DEF Open
<1> QED BY <1>2, <1>3, <1>4, <1>5

(* m is done, too. *)
Adds(r, s, m, f) == DOMAIN r \ Open(f) = (DOMAIN r \ Open(s)) \cup {m}

LEMMA VisitLeaves ==
  ASSUME NEW c, WellFormed(c), NEW n, NEW s, NEW r, Visit(c, n, s, r), Len(s) > 1,
         NEW m, m = s[Len(s)], r[m] > Count(c, m)
  PROVE  /\ Visit(c, n, Front(s), r) /\ m \in DOMAIN r /\ m # n /\ m \in Open(s)
         /\ Adds(r, s, m, Front(s))
<1> DEFINE f == Front(s)
           D == DOMAIN r
<1>0. Met(c, n, r) /\ ReadOnce(c, n, r) /\ Stacked(c, n, s, r) /\ Finished(c, s, r)
  BY DEF Visit
<1>1. /\ Len(s) \in Nat /\ Len(s) \in 1..Len(s) /\ 1 \in 1..Len(s) /\ s[1] = n
      /\ m \in D /\ m \in Open(s)
  BY <1>0, OpenFacts
<1>2. \A i, j \in 1..Len(s) : s[i] = s[j] => i = j
  BY <1>0 DEF Stacked
<1>3. m # n
  BY <1>1, <1>2
<1>4. s \in Seq(D)
  BY <1>0 DEF Stacked
<1> HIDE DEF D, f
<1>5. f \in Seq(D) /\ Len(f) = Len(s) - 1 /\ \A k \in 1..Len(s)-1 : f[k] = s[k]
  BY <1>4, <1>2, OpenFront DEF f
<1>6. Open(f) = Open(s) \ {m} /\ Open(s) \subseteq D
  BY <1>4, <1>2, OpenFront DEF f
<1>7. D \ Open(f) = (D \ Open(s)) \cup {m}
  BY <1>6, <1>1
<1>8. /\ r[m] = Count(c, m) + 1 /\ Listed(c, m) \subseteq D \ Open(s)
      /\ Here(c, m) /\ Count(c, m) \in Nat
  BY ReadToTheEnd DEF D
<1>9. Finished(c, f, r)
  <2>1. ASSUME NEW k \in D \ Open(f)
        PROVE  r[k] = Count(c, k) + 1 /\ \A i \in 1..Count(c, k) : Name(c, k, i) \notin Open(f)
    <3>1. CASE k = m
      <4>1. \A i \in 1..Count(c, m) : Name(c, m, i) \in Listed(c, m)
        BY <1>8, IncludesAre
      <4> QED BY <3>1, <4>1, <1>6, <1>8
    <3>2. CASE k # m
      BY <3>2, <1>0, <1>6, <1>7 DEF Finished, D
    <3> QED BY <3>1, <3>2
  <2> QED BY <2>1 DEF Finished, D
<1>10. Stacked(c, n, f, r)
  <2>0. \A i \in 1..Len(f) : i \in 1..Len(s) /\ i \in 1..Len(s)-1
    BY <1>1, <1>5
  <2>1. f \in Seq(D) /\ Len(f) >= 1 /\ f[1] = n
    BY <1>1, <1>5
  <2>2. \A i, j \in 1..Len(f) : f[i] = f[j] => i = j
    BY <2>0, <1>2, <1>5
  <2>3. ASSUME NEW k \in 1..Len(f)-1 PROVE r[f[k]] > 1 /\ f[k+1] = Name(c, f[k], r[f[k]] - 1)
    <3>1. k \in 1..Len(s)-1 /\ k + 1 \in 1..Len(s)-1
      BY <1>1, <1>5
    <3>2. r[s[k]] > 1 /\ s[k+1] = Name(c, s[k], r[s[k]] - 1)
      BY <3>1, <1>0 DEF Stacked
    <3> QED BY <3>1, <3>2, <1>5
  <2>4. ASSUME NEW i \in 1..Len(f), NEW j \in 1..Len(f), i < j PROVE f[j] \in Mixins(c, f[i])
    <3>1. s[j] \in Mixins(c, s[i])
      BY <2>0, <2>4, <1>0 DEF Stacked
    <3> QED BY <3>1, <2>0, <1>5
  <2> QED BY <2>1, <2>2, <2>3, <2>4 DEF Stacked, D
<1> QED BY <1>0, <1>1, <1>3, <1>7, <1>9, <1>10 DEF Visit, D, f, Adds

(* What is done is closed under `include`.                                 *)
LEMMA DoneIsClosed ==
  ASSUME NEW c, WellFormed(c), NEW n, NEW s, NEW r, Visit(c, n, s, r),
         NEW l, Listed(c, l) \subseteq DOMAIN r \ Open(s)
  PROVE  Mixins(c, l) \subseteq DOMAIN r \ Open(s)
<1> DEFINE D == DOMAIN r \ Open(s)
<1>0. Met(c, n, r) /\ ReadOnce(c, n, r) /\ Stacked(c, n, s, r) /\ Finished(c, s, r)
  BY DEF Visit
<1>1. ASSUME NEW m \in D PROVE Listed(c, m) \subseteq D
  <2>1. m \in DOMAIN r /\ r[m] = Count(c, m) + 1 /\ \A i \in 1..Count(c, m) : Name(c, m, i) \notin Open(s)
    BY <1>0 DEF Finished
  <2>2. Here(c, m)
    BY <2>1, <1>0 DEF Met
  <2>3. Count(c, m) \in Nat /\ Listed(c, m) = {Name(c, m, i) : i \in 1..Count(c, m)}
    BY <2>2, IncludesAre
  <2>4. r[m] - 1 = Count(c, m)
    BY <2>1, <2>3
  <2>5. \A i \in 1..r[m]-1 : Name(c, m, i) \in DOMAIN r \ {n}
    BY <2>1, <1>0 DEF ReadOnce
  <2> QED BY <2>1, <2>3, <2>4, <2>5
<1> HIDE DEF D
<1>2. Listed(c, l) \subseteq D
  BY DEF D
<1>3. Mixins(c, l) \subseteq D
  BY <1>1, <1>2, MixinsLeast
<1> QED BY <1>3 DEF D

(* A layer whose includes have all been read has met all of its mixins,    *)
(* and each of them through one include.                                   *)
LEMMA VisitDone ==
  ASSUME NEW c, WellFormed(c), NEW n, NEW s, NEW r, Visit(c, n, s, r), Len(s) = 1,
         r[n] > Count(c, n)
  PROVE  /\ Mixins(c, n) = DOMAIN r \ {n} /\ DOMAIN r \ Open(s) = DOMAIN r \ {n}
         /\ \A m \in {n} \cup Mixins(c, n) : Here(c, m) /\ r[m] = Count(c, m) + 1
<1>0. Met(c, n, r) /\ ReadOnce(c, n, r) /\ Stacked(c, n, s, r) /\ Finished(c, s, r)
  BY DEF Visit
<1>1. s[1] = n /\ n \in DOMAIN r
  BY <1>0 DEF Stacked, Met
<1>2. Open(s) = {n}
  <2>1. 1..1 = {1}
    OBVIOUS
  <2> QED BY <1>1, <2>1 DEF Open
<1>3. r[n] = Count(c, n) + 1 /\ Here(c, n) /\ Listed(c, n) \subseteq DOMAIN r \ Open(s)
  BY <1>1, ReadToTheEnd
<1>4. Mixins(c, n) \subseteq DOMAIN r \ Open(s)
  BY <1>3, DoneIsClosed
<1>5. DOMAIN r \ {n} \subseteq Mixins(c, n)
  BY <1>0 DEF Met
<1>6. \A m \in DOMAIN r \ {n} : Here(c, m) /\ r[m] = Count(c, m) + 1
  BY <1>0, <1>2 DEF Met, Finished
<1> QED BY <1>2, <1>3, <1>4, <1>5, <1>6

-----------------------------------------------------------------------------
(* What the walk has checked when it is through with a layer.              *)

Fits(c, m, family) ==
  /\ At(c, m).supports # None => At(c, m).families \subseteq At(c, m).supports
  /\ Supports(At(c, m), family)

LEMMA MentionsAre ==
  ASSUME NEW c, WellFormed(c), NEW n
  PROVE  /\ \A a \in Mentions(c, n) :
              /\ a[1] \in {n} \cup Mixins(c, n) /\ Here(c, a[1]) /\ a[2] \in 1..Count(c, a[1])
              /\ a = <<a[1], a[2]>> /\ Named(c, a) = Name(c, a[1], a[2])
         /\ \A m \in {n} \cup Mixins(c, n) : Here(c, m) => \A i \in 1..Count(c, m) :
              <<m, i>> \in Mentions(c, n) /\ Named(c, <<m, i>>) = Name(c, m, i)
<1>1. ASSUME NEW m, Here(c, m) PROVE DOMAIN At(c, m).include = 1..Count(c, m)
  <2> DEFINE list == At(c, m).include
  <2>1. IsList(list)
    BY <1>1, AtIs DEF IsLayer
  <2>2. DOMAIN list = 1..Len(list)
    BY <2>1, ListFacts
  <2> QED BY <2>2 DEF Count
<1>2. \A a : Named(c, a) = Name(c, a[1], a[2])
  BY DEF Named, Name
<1>3. ASSUME NEW a \in Mentions(c, n)
      PROVE  /\ a[1] \in {n} \cup Mixins(c, n) /\ Here(c, a[1]) /\ a[2] \in 1..Count(c, a[1])
             /\ a = <<a[1], a[2]>>
  <2>1. PICK m \in {n} \cup Mixins(c, n) : Here(c, m) /\ a \in {m} \X DOMAIN At(c, m).include
    BY DEF Mentions
  <2>2. a \in {m} \X (1..Count(c, m))
    BY <2>1, <1>1
  <2> QED BY <2>1, <2>2
<1>4. ASSUME NEW m \in {n} \cup Mixins(c, n), Here(c, m), NEW i \in 1..Count(c, m)
      PROVE  <<m, i>> \in Mentions(c, n)
  <2>1. <<m, i>> \in {m} \X DOMAIN At(c, m).include
    BY <1>1, <1>4
  <2> QED BY <2>1, <1>4 DEF Mentions
<1> QED BY <1>2, <1>3, <1>4

LEMMA FaultsAre ==
  ASSUME NEW c, NEW n
  PROVE  /\ \A a, b \in Mentions(c, n) : a # b /\ Named(c, a) = Named(c, b) => "circular_include" \in Faulty(c, n)
         /\ \A m \in Mixins(c, n) :
              /\ ~Here(c, m) => "unknown_include" \in Faulty(c, n)
              /\ Here(c, m) /\ NotAMixin(At(c, m)) => "not_a_mixin" \in Faulty(c, n)
              /\ Here(c, m) /\ At(c, m).supports # None /\ ~(At(c, m).families \subseteq At(c, m).supports)
                   => "unlisted_family" \in Faulty(c, n)
              /\ Here(c, m) /\ ~Supports(At(c, m), FamilyAt(c, n)) => "unsupported_family" \in Faulty(c, n)
<1>1. \A a, b \in Mentions(c, n) : a # b /\ Named(c, a) = Named(c, b) => "circular_include" \in Faulty(c, n)
  BY DEF Faulty
<1>2. ASSUME NEW m \in Mixins(c, n), ~Here(c, m) PROVE "unknown_include" \in Faulty(c, n)
  BY <1>2 DEF Faulty
<1>3. ASSUME NEW m \in Mixins(c, n), Here(c, m), NotAMixin(At(c, m)) PROVE "not_a_mixin" \in Faulty(c, n)
  BY <1>3 DEF Faulty
<1>4. ASSUME NEW m \in Mixins(c, n), Here(c, m), At(c, m).supports # None,
             ~(At(c, m).families \subseteq At(c, m).supports)
      PROVE  "unlisted_family" \in Faulty(c, n)
  BY <1>4 DEF Faulty
<1>5. ASSUME NEW m \in Mixins(c, n), Here(c, m), ~Supports(At(c, m), FamilyAt(c, n))
      PROVE  "unsupported_family" \in Faulty(c, n)
  BY <1>5 DEF Faulty, Supports
<1> QED BY <1>1, <1>2, <1>3, <1>4, <1>5

LEMMA NoFault ==
  ASSUME NEW c, WellFormed(c), NEW n, NEW s, NEW r, Visit(c, n, s, r), Len(s) = 1, r[n] > Count(c, n),
         \A m \in DOMAIN r \ Open(s) : Fits(c, m, FamilyAt(c, n))
  PROVE  Faulty(c, n) = {}
<1>1. /\ Mixins(c, n) = DOMAIN r \ {n} /\ DOMAIN r \ Open(s) = DOMAIN r \ {n}
      /\ \A m \in {n} \cup Mixins(c, n) : Here(c, m) /\ r[m] = Count(c, m) + 1
  BY VisitDone
<1>2. \A m \in Mixins(c, n) : Here(c, m) /\ ~NotAMixin(At(c, m)) /\ Fits(c, m, FamilyAt(c, n))
  BY <1>1 DEF Visit, Met
<1>3. n \in DOMAIN r /\ ReadOnce(c, n, r)
  BY DEF Visit, Met
<1>4. ASSUME NEW a \in Mentions(c, n), NEW b \in Mentions(c, n), Named(c, a) = Named(c, b) PROVE a = b
  <2>1. /\ a[1] \in {n} \cup Mixins(c, n) /\ a[2] \in 1..Count(c, a[1])
        /\ a = <<a[1], a[2]>> /\ Named(c, a) = Name(c, a[1], a[2])
    BY MentionsAre
  <2>2. /\ b[1] \in {n} \cup Mixins(c, n) /\ b[2] \in 1..Count(c, b[1])
        /\ b = <<b[1], b[2]>> /\ Named(c, b) = Name(c, b[1], b[2])
    BY MentionsAre
  <2>3. ASSUME NEW m \in {n} \cup Mixins(c, n) PROVE m \in DOMAIN r /\ 1..r[m]-1 = 1..Count(c, m)
    <3>1. Count(c, m) \in Nat /\ r[m] = Count(c, m) + 1
      BY <1>1, IncludesAre
    <3>2. r[m] - 1 = Count(c, m)
      BY <3>1
    <3> QED BY <3>2, <1>1, <1>3
  <2> DEFINE m == a[1] i == a[2] k == b[1] j == b[2]
  <2>4. /\ m \in DOMAIN r /\ i \in 1..r[m]-1 /\ k \in DOMAIN r /\ j \in 1..r[k]-1
        /\ Name(c, m, i) = Name(c, k, j)
    BY <2>1, <2>2, <2>3, <1>4
  <2>5. m = k /\ i = j
    <3> HIDE DEF m, i, k, j
    <3> QED BY <2>4, <1>3 DEF ReadOnce
  <2> QED BY <2>1, <2>2, <2>5
<1> QED BY <1>2, <1>4 DEF Faulty, Fits, Supports

(* And the other way round.                                                *)
LEMMA NoFaultMeans ==
  ASSUME NEW c, WellFormed(c), NEW n, Faulty(c, n) = {}
  PROVE  /\ \A m \in Mixins(c, n) : Here(c, m) /\ ~NotAMixin(At(c, m))
         /\ \A a, b \in Mentions(c, n) : Named(c, a) = Named(c, b) => a = b
BY FaultsAre

LEMMA RefusesInclude ==
  ASSUME NEW c, WellFormed(c), NEW n, NEW s, NEW r, Visit(c, n, s, r),
         NEW t, t = s[Len(s)], r[t] <= Count(c, t), NEW m, m = Name(c, t, r[t])
  PROVE  /\ m \in Mixins(c, n)
         /\ m \in DOMAIN r \ {n} => "circular_include" \in Faulty(c, n)
<1>0. Met(c, n, r) /\ ReadOnce(c, n, r) /\ Stacked(c, n, s, r)
  BY DEF Visit
<1>1. t \in DOMAIN r
  BY <1>0, OpenFacts
<1>2. Here(c, t) /\ r[t] \in 1..Count(c, t)+1 /\ t \in {n} \cup Mixins(c, n)
  BY <1>0, <1>1 DEF Met
<1>3. Count(c, t) \in Nat /\ Listed(c, t) = {Name(c, t, i) : i \in 1..Count(c, t)}
  BY <1>2, IncludesAre
<1>4. r[t] \in 1..Count(c, t)
  BY <1>2, <1>3
<1>5. m \in Listed(c, t)
  BY <1>3, <1>4
<1>6. m \in Mixins(c, n)
  BY <1>2, <1>5, MixinsHold
<1>7. ASSUME m \in DOMAIN r \ {n} PROVE "circular_include" \in Faulty(c, n)
  <2>1. PICK k \in DOMAIN r : \E i \in 1..r[k]-1 : Name(c, k, i) = m
    BY <1>0, <1>7 DEF ReadOnce
  <2>2. PICK i \in 1..r[k]-1 : Name(c, k, i) = m
    BY <2>1
  <2>3. Here(c, k) /\ r[k] \in 1..Count(c, k)+1 /\ k \in {n} \cup Mixins(c, n)
    BY <1>0 DEF Met
  <2>4. Count(c, k) \in Nat
    BY <2>3, IncludesAre
  <2>5. i \in 1..Count(c, k)
    BY <2>3, <2>4
  <2>6. ~(k = t /\ i = r[t])
    BY <1>4
  <2>7. <<t, r[t]>> \in Mentions(c, n) /\ Named(c, <<t, r[t]>>) = m
    BY <1>2, <1>4, MentionsAre
  <2>8. <<k, i>> \in Mentions(c, n) /\ Named(c, <<k, i>>) = m
    BY <2>2, <2>3, <2>5, MentionsAre
  <2>9. <<k, i>> # <<t, r[t]>>
    BY <2>6
  <2> QED BY <2>7, <2>8, <2>9, FaultsAre
<1> QED BY <1>6, <1>7

Settled == IF pass = "includes" THEN DOMAIN reached \ Open(stack) ELSE {}

Visiting == pass = "includes" => Visit(call, chain[at], stack, reached)

VisitingHolds == Working => Visiting

LEMMA LayerIs ==
  ASSUME Climbing, pass \in {"includes", "applied"}
  PROVE  /\ at \in 1..Len(chain) /\ Len(chain) \in Nat /\ Rooted(call, chain) /\ WellFormed(call)
         /\ Here(call, chain[at]) /\ NotAMixin(At(call, chain[at])) /\ chain[at] \in Chain(call)
<1>1. at \in 1..Len(chain) /\ Rooted(call, chain) /\ Chained(call, chain) /\ WellFormed(call)
  BY DEF Climbing
<1>2. Len(chain) \in Nat /\ Here(call, chain[at])
  BY <1>1 DEF Chained
<1>3. NotAMixin(At(call, chain[at]))
  BY <1>1, LayersAreNoMixins
<1>4. Chain(call) = {chain[j] : j \in 1..Len(chain)}
  BY <1>1, ChainIs
<1> QED BY <1>1, <1>2, <1>3, <1>4

LEMMA EnterIs ==
  ASSUME Climbing, RootImage \/ MergeChild, pass' # "done"
  PROVE  /\ pass' = "includes" /\ chain' = chain /\ at' \in 1..Len(chain)
         /\ stack' = <<chain[at']>> /\ reached' = [n \in {chain[at']} |-> 1]
         /\ Here(call, chain[at'])
         /\ RootImage => /\ pass = "parents" /\ at' = Len(chain)
                         /\ out' = Root(At(call, chain[at']))
         /\ MergeChild => /\ pass = "applied" /\ at' = at - 1 /\ at \in 2..Len(chain)
                          /\ out' = Merge(out, At(call, chain[at']))
<1>1. Chained(call, chain)
  BY DEF Climbing
<1>2. Len(chain) \in Nat /\ Len(chain) >= 1 /\ \A j \in 1..Len(chain) : Here(call, chain[j])
  BY <1>1 DEF Chained
<1>3. CASE RootImage
  <2>1. /\ pass = "parents" /\ pass' = "includes" /\ chain' = chain /\ at' = at
        /\ stack' = <<chain[at]>> /\ reached' = [n \in {chain[at]} |-> 1]
        /\ out' = Root(At(call, chain[at])) /\ ~MergeChild
    BY <1>3 DEF RootImage, MergeChild, In, Refuse, Done, Enter
  <2>2. at = Len(chain)
    BY <2>1 DEF Climbing
  <2> QED BY <2>1, <2>2, <1>2
<1>4. CASE MergeChild
  <2>1. /\ pass = "applied" /\ pass' = "includes" /\ chain' = chain /\ at' = at - 1 /\ at > 1
        /\ stack' = <<chain[at-1]>> /\ reached' = [n \in {chain[at-1]} |-> 1]
        /\ out' = Merge(out, At(call, chain[at-1])) /\ ~RootImage
    BY <1>4 DEF RootImage, MergeChild, In, Refuse, Done, Enter
  <2>2. at \in 1..Len(chain)
    BY <2>1 DEF Climbing
  <2>3. at - 1 \in 1..Len(chain) /\ at \in 2..Len(chain)
    BY <2>1, <2>2, <1>2
  <2> QED BY <2>1, <2>3, <1>2
<1> QED BY <1>3, <1>4

LEMMA IncludeIs ==
  ASSUME Climbing, Visiting, call' = call, Include, pass' # "done"
  PROVE  LET m == Name(call, stack[Len(stack)], reached[stack[Len(stack)]])
         IN /\ pass = "includes" /\ UNCHANGED <<pass, at, out, chain>>
            /\ Visit(call, chain[at], stack', reached') /\ m \in Listed(call, stack[Len(stack)])
            /\ m \notin DOMAIN reached /\ m \in Mixins(call, chain[at])
            /\ stack' = Append(stack, m)
            /\ DOMAIN reached' \ Open(stack') = DOMAIN reached \ Open(stack)
<1> DEFINE n == stack[Len(stack)]
           m == Name(call, n, reached[n])
<1>1. /\ pass = "includes" /\ UNCHANGED <<pass, at, out, chain>>
      /\ reached[n] <= Count(call, n)
      /\ m \notin DOMAIN reached \ {chain[at]} /\ Here(call, m) /\ ~NotAMixin(At(call, m))
      /\ stack' = Append(stack, m)
      /\ reached' = [k \in DOMAIN reached \cup {m} |->
                       IF k = m THEN 1 ELSE IF k = n THEN reached[n] + 1 ELSE reached[k]]
  BY DEF Include, In, Refuse, Done, Last, Name, Count
<1>2. WellFormed(call) /\ NotAMixin(At(call, chain[at])) /\ Visit(call, chain[at], stack, reached)
  BY <1>1, LayerIs DEF Visiting
<1>a. n = stack[Len(stack)] /\ m = Name(call, n, reached[n])
  OBVIOUS
<1> HIDE DEF n, m
<1>b. reached[n] <= Count(call, n) /\ m \notin DOMAIN reached \ {chain[at]} /\ Here(call, m)
      /\ ~NotAMixin(At(call, m))
      /\ reached' = [k \in DOMAIN reached \cup {m} |->
                       IF k = m THEN 1 ELSE IF k = n THEN reached[n] + 1 ELSE reached[k]]
  BY <1>1
<1>3. /\ Visit(call, chain[at], Append(stack, m), reached')
      /\ m \notin DOMAIN reached /\ m \in Mixins(call, chain[at]) /\ m \in Listed(call, n)
      /\ DOMAIN reached' \ Open(Append(stack, m)) = DOMAIN reached \ Open(stack)
  BY <1>a, <1>b, <1>2, VisitEnters
<1> QED BY <1>1, <1>3 DEF n, m

(* What merge_auto_forwards lets through, and what it refuses.             *)
LEMMA RightAutos ==
  ASSUME NEW r, NEW l, WrongAutos(r, l) = {}
  PROVE  r.autos \cap l.autos = {} /\ l.autos \cap BadNames = {}
BY DEF WrongAutos

LEMMA WrongAutosAre ==
  ASSUME NEW r, NEW l, NEW e \in WrongAutos(r, l)
  PROVE  \/ e = "bad_auto" /\ l.autos \cap BadNames # {}
         \/ e = "duplicate_auto" /\ r.autos \cap l.autos # {}
BY DEF WrongAutos

LEMMA ContributeIs ==
  ASSUME Climbing, Visiting, call' = call, Contribute, pass' # "done"
  PROVE  LET m == stack[Len(stack)]
         IN /\ pass = "includes" /\ UNCHANGED <<pass, at, chain, reached>>
            /\ Visit(call, chain[at], stack', reached) /\ m \in DOMAIN reached /\ m # chain[at]
            /\ m \in Open(stack) /\ Len(stack) > 1 /\ reached[m] > Count(call, m)
            /\ DOMAIN reached \ Open(stack') = (DOMAIN reached \ Open(stack)) \cup {m}
            /\ Fits(call, m, out.family) /\ out.autos \cap At(call, m).autos = {}
            /\ At(call, m).autos \cap BadNames = {}
            /\ out' = [out EXCEPT !.steps = @ \o StepsOf(m, At(call, m), out.family),
                                  !.autos = @ \cup At(call, m).autos]
<1> DEFINE m == stack[Len(stack)]
<1>0. WrongAutos(out, At(call, m)) = {}
  <2>1. (\E e \in WrongAutos(out, At(call, m)) : Refuse(e)) => pass' = "done"
    BY DEF Refuse, Done
  <2>2. \A e : Refuse(e) => pass' = "done"
    BY DEF Refuse, Done
  <2> QED BY <2>1, <2>2 DEF Contribute, Last
<1>0a. out.autos \cap At(call, m).autos = {} /\ At(call, m).autos \cap BadNames = {}
  BY <1>0, RightAutos
<1>1. /\ pass = "includes" /\ UNCHANGED <<pass, at, chain, reached>> /\ Len(stack) > 1
      /\ reached[m] > Count(call, m)
      /\ Fits(call, m, out.family)
      /\ out' = [out EXCEPT !.steps = @ \o StepsOf(m, At(call, m), out.family),
                            !.autos = @ \cup At(call, m).autos]
      /\ stack' = Front(stack)
  BY <1>0 DEF Contribute, In, Refuse, Done, Last, Count, Fits
<1>2. WellFormed(call) /\ Visit(call, chain[at], stack, reached)
  BY <1>1, LayerIs DEF Visiting
<1>a. m = stack[Len(stack)]
  OBVIOUS
<1> HIDE DEF m
<1>b. Len(stack) > 1 /\ reached[m] > Count(call, m)
  BY <1>1
<1>3. /\ Visit(call, chain[at], Front(stack), reached) /\ m \in DOMAIN reached /\ m # chain[at]
      /\ m \in Open(stack)
      /\ DOMAIN reached \ Open(Front(stack)) = (DOMAIN reached \ Open(stack)) \cup {m}
  <2> DEFINE n == chain[at]
  <2>1. WellFormed(call) /\ Visit(call, n, stack, reached)
    BY <1>2
  <2> HIDE DEF n
  <2>2. Visit(call, n, Front(stack), reached)
    BY <1>a, <1>b, <2>1, VisitLeaves
  <2>3. m \in DOMAIN reached /\ m # n /\ m \in Open(stack)
    BY <1>a, <1>b, <2>1, VisitLeaves
  <2>4. DOMAIN reached \ Open(Front(stack)) = (DOMAIN reached \ Open(stack)) \cup {m}
    <3>1. Adds(reached, stack, m, Front(stack))
      BY <1>a, <1>b, <2>1, VisitLeaves
    <3> QED BY <3>1 DEF Adds
  <2> QED BY <2>2, <2>3, <2>4 DEF n
<1> QED BY <1>0a, <1>1, <1>3 DEF m

LEMMA ApplyOwnIs ==
  ASSUME Climbing, Visiting, ApplyOwn, pass' # "done"
  PROVE  LET n == chain[at]
         IN /\ pass = "includes" /\ pass' = "applied" /\ UNCHANGED <<at, chain>>
            /\ Len(stack) = 1 /\ reached[n] > Count(call, n) /\ Visit(call, n, stack, reached)
            /\ Mixins(call, n) = DOMAIN reached \ Open(stack)
            /\ Open(stack) = {n}
            /\ out.autos \cap At(call, n).autos = {} /\ At(call, n).autos \cap BadNames = {}
            /\ out' = [out EXCEPT !.steps = Append(@, Own(n)), !.autos = @ \cup At(call, n).autos,
                                  !.labels = Over(At(call, n).labels, @)]
<1> DEFINE n == chain[at]
<1>0. WrongAutos(out, At(call, n)) = {}
  <2>1. (\E e \in WrongAutos(out, At(call, n)) : Refuse(e)) => pass' = "done"
    BY DEF Refuse, Done
  <2> QED BY <2>1 DEF ApplyOwn
<1>0a. out.autos \cap At(call, n).autos = {} /\ At(call, n).autos \cap BadNames = {}
  BY <1>0, RightAutos
<1>1. /\ pass = "includes" /\ pass' = "applied" /\ UNCHANGED <<at, chain>> /\ Len(stack) = 1
      /\ reached[n] > Count(call, n)
      /\ out' = [out EXCEPT !.steps = Append(@, Own(n)), !.autos = @ \cup At(call, n).autos,
                            !.labels = Over(At(call, n).labels, @)]
  BY <1>0 DEF ApplyOwn, In, Refuse, Done, Count, resolution
<1>2. WellFormed(call) /\ Visit(call, n, stack, reached)
  BY <1>1, LayerIs DEF Visiting
<1>3. Mixins(call, n) = DOMAIN reached \ {n} /\ DOMAIN reached \ Open(stack) = DOMAIN reached \ {n}
  BY <1>1, <1>2, VisitDone
<1>4. Open(stack) = {n}
  <2>1. stack[1] = n /\ 1..1 = {1}
    BY <1>2 DEF Visit, Stacked
  <2> QED BY <2>1, <1>1 DEF Open
<1> QED BY <1>0a, <1>1, <1>2, <1>3, <1>4

LEMMA VisitingStep ==
  ASSUME Climbing, Visiting, call' = call, BuildFromCli, pass' # "done"
  PROVE  Visiting'
<1>1. CASE RootImage \/ MergeChild
  <2>1. /\ chain' = chain /\ Here(call, chain[at'])
        /\ stack' = <<chain[at']>> /\ reached' = [n \in {chain[at']} |-> 1]
    BY <1>1, EnterIs
  <2>2. Visit(call, chain[at'], stack', reached')
    BY <2>1, VisitStarts DEF Climbing
  <2> QED BY <2>1, <2>2 DEF Visiting
<1>2. CASE Include
  BY <1>2, IncludeIs DEF Visiting
<1>3. CASE Contribute
  BY <1>3, ContributeIs DEF Visiting
<1>4. CASE ApplyOwn
  BY <1>4, ApplyOwnIs DEF Visiting
<1>5. CASE CheckArguments
  BY <1>5 DEF CheckArguments, Refuse, Done, Walk, Visiting
<1>6. CASE FollowFrom
  BY <1>6 DEF FollowFrom, In, Refuse, Done, Visiting
<1>7. CASE ApplySpec \/ ExpandConfig \/ ParseNextLabel
  BY <1>7 DEF ApplySpec, ExpandConfig, ParseNextLabel, In, On, Refuse, Done, Walk, Visiting
<1> QED BY ResolveGoesOn, <1>1, <1>2, <1>3, <1>4, <1>5, <1>6, <1>7 DEF BuildFromCli

LEMMA VisitingInit == Init => VisitingHolds
BY ResolveInit DEF InitResolve, VisitingHolds, Working, Visiting

LEMMA VisitingAlways == ClimbingHolds /\ VisitingHolds /\ [Next]_vars => VisitingHolds'
<1> SUFFICES ASSUME ClimbingHolds, VisitingHolds, [Next]_vars, Working' PROVE Visiting'
  BY DEF VisitingHolds
<1>1. call' = call /\ (BuildFromCli \/ UNCHANGED vars)
  BY ResolveStep DEF Working
<1>2. CASE BuildFromCli
  BY <1>1, <1>2, ResolveGoesOn, VisitingStep DEF ClimbingHolds, VisitingHolds, Working
<1>3. CASE UNCHANGED vars
  BY <1>3 DEF vars, VisitingHolds, Working, Visiting
<1> QED BY <1>1, <1>2, <1>3

(* The memory that the command line and its spec come to. *)
Size(c) == Or(At(c, Top).memory, Specs[SpecOf(c)])

Checked ==
  /\ pass # "backend" => call.args.backend \in Backends \cup {None} /\ ~call.args.badFile
  /\ \A m \in Settled : Fits(call, m, out.family)
  /\ Climbed => \A j \in Left+1..Len(chain) : Faulty(call, chain[j]) = {}
  /\ pass \in {"variables", "labels"} => Size(call) \notin BadSizes
  /\ pass = "labels" => ~call.args.lostEnvFile /\ ~Unset(call.args)

CheckedHolds == Working => Checked

LEMMA SizeIs ==
  ASSUME Climbing, ApplySpec
  PROVE  \/ SpecOf(call) \notin DOMAIN Specs /\ Refuse("unknown_spec")
         \/ /\ SpecOf(call) \in DOMAIN Specs /\ Size(call) \in BadSizes
            /\ Refuse("bad_size")
         \/ /\ SpecOf(call) \in DOMAIN Specs /\ Size(call) \notin BadSizes
            /\ pass' = "variables"
<1> DEFINE layer == At(call, Top)
           filled == FillFromSpec(out, layer, Specs[SpecOf(call)])
<1>1. filled = [out EXCEPT !.memory = Size(call)]
  BY DEF FillFromSpec, Size
<1>2. "memory" \in DOMAIN out
  BY DEF Climbing, Resolved
<1>3. filled.memory = Size(call)
  BY <1>1, <1>2
<1>4. IF SpecOf(call) \notin DOMAIN Specs THEN Refuse("unknown_spec")
      ELSE IF filled.memory \in BadSizes THEN Refuse("bad_size")
      ELSE out' = filled /\ pass' = "variables" /\ UNCHANGED <<at, resolution>>
  BY DEF ApplySpec, SpecOf
<1> HIDE DEF filled
<1> QED BY <1>3, <1>4

LEMMA CheckedStep ==
  ASSUME Climbing, Scalars, Visiting, Checked, call' = call, BuildFromCli, pass' # "done"
  PROVE  Checked'
<1>0. DOMAIN out = DOMAIN Resolved /\ WellFormed(call)
  BY DEF Climbing
<1>1. CASE CheckArguments
  <2>1. /\ pass' = "parents" /\ call.args.backend \in Backends \cup {None}
        /\ ~call.args.badFile
    BY <1>1 DEF CheckArguments, Refuse, Done, Walk
  <2> QED BY <2>1 DEF Checked, Settled, Climbed
<1>2. CASE FollowFrom
  <2>1. pass = "parents" /\ pass' = "parents"
    BY <1>2 DEF FollowFrom, In, Refuse, Done
  <2> QED BY <2>1 DEF Checked, Settled, Climbed
<1>3. CASE RootImage \/ MergeChild
  <2>1. /\ pass' = "includes" /\ chain' = chain /\ at' \in 1..Len(chain)
        /\ stack' = <<chain[at']>> /\ reached' = [n \in {chain[at']} |-> 1]
        /\ Here(call, chain[at'])
    BY <1>3, EnterIs
  <2>9. (pass = "parents" /\ at' = Len(chain)) \/ (pass = "applied" /\ at' = at - 1)
    <3>1. CASE RootImage
      BY <3>1, EnterIs
    <3>2. CASE MergeChild
      BY <3>2, EnterIs
    <3> QED BY <1>3, <3>1, <3>2
  <2>2. Settled' = {}
    <3> DEFINE n == chain[at']
    <3>1. Here(call, n) /\ stack' = <<n>> /\ DOMAIN reached' = {n}
      BY <2>1
    <3> HIDE DEF n
    <3>2. {n} \ Open(<<n>>) = {}
      BY <3>1, <1>0, VisitStarts
    <3> QED BY <2>1, <3>1, <3>2 DEF Settled
  <2>3. Len(chain) \in Nat
    BY DEF Climbing, Chained
  <2>4. ASSUME NEW j \in at'+1..Len(chain) PROVE Faulty(call, chain[j]) = {}
    <3>1. CASE pass = "parents"
      BY <2>9, <2>3, <3>1
    <3>2. CASE pass = "applied"
      BY <2>9, <3>2 DEF Checked, Climbed, Left
    <3> QED BY <2>9, <3>1, <3>2
  <2>5. call.args.backend \in Backends \cup {None} /\ ~call.args.badFile
    BY <2>9 DEF Checked
  <2> QED BY <2>1, <2>2, <2>4, <2>5 DEF Checked, Left
<1>4. CASE Include
  <2>1. /\ pass = "includes" /\ UNCHANGED <<pass, at, out, chain>>
        /\ DOMAIN reached' \ Open(stack') = DOMAIN reached \ Open(stack)
    BY <1>4, IncludeIs
  <2>2. Settled' = Settled /\ Left' = Left
    BY <2>1 DEF Settled, Left
  <2> QED BY <2>1, <2>2 DEF Checked, Climbed
<1>5. CASE Contribute
  <2> DEFINE m == stack[Len(stack)]
  <2>1. /\ pass = "includes" /\ UNCHANGED <<pass, at, chain, reached>>
        /\ DOMAIN reached \ Open(stack') = (DOMAIN reached \ Open(stack)) \cup {m}
        /\ Fits(call, m, out.family)
        /\ out' = [out EXCEPT !.steps = @ \o StepsOf(m, At(call, m), out.family),
                              !.autos = @ \cup At(call, m).autos]
    BY <1>5, ContributeIs
  <2>2. Settled' = Settled \cup {m} /\ Left' = Left
    BY <2>1 DEF Settled, Left
  <2>3. out'.family = out.family
    BY <2>1, <1>0 DEF Resolved
  <2> HIDE DEF m
  <2>4. \A k \in Settled' : Fits(call, k, out.family)
    BY <2>1, <2>2 DEF Checked
  <2> QED BY <2>1, <2>2, <2>3, <2>4 DEF Checked, Climbed
<1>6. CASE ApplyOwn
  <2> DEFINE n == chain[at]
  <2>1. /\ pass = "includes" /\ pass' = "applied" /\ UNCHANGED <<at, chain>>
        /\ Len(stack) = 1 /\ reached[n] > Count(call, n) /\ Visit(call, n, stack, reached)
    BY <1>6, ApplyOwnIs
  <2>2. out.family = FamilyAt(call, n)
    BY <2>1 DEF Scalars, Climbed, Current, NearestValues, FamilyAt
  <2>3. \A m \in DOMAIN reached \ Open(stack) : Fits(call, m, FamilyAt(call, n))
    BY <2>1, <2>2 DEF Checked, Settled
  <2> HIDE DEF n
  <2>4. Faulty(call, n) = {}
    BY <2>1, <2>3, <1>0, NoFault
  <2>5. at \in 1..Len(chain) /\ Len(chain) \in Nat
    BY <2>1, LayerIs
  <2>6. \A j \in at-1+1..Len(chain) : j = at \/ j \in at+1..Len(chain)
    BY <2>5
  <2>7. \A j \in at-1+1..Len(chain) : Faulty(call, chain[j]) = {}
    BY <2>1, <2>4, <2>6 DEF n, Checked, Climbed, Left
  <2> QED BY <2>1, <2>7 DEF Checked, Settled, Left
<1>7. CASE ApplySpec
  <2>1. pass = "applied" /\ pass' = "variables" /\ at = 1 /\ chain' = chain
    BY <1>7 DEF ApplySpec, In, Refuse, Done, resolution
  <2>2. Left = 0 /\ Left' = 0
    BY <2>1 DEF Left
  <2>3. Size(call) \notin BadSizes
    BY <1>7, <2>1, SizeIs DEF Refuse, Done
  <2> QED BY <2>1, <2>2, <2>3 DEF Checked, Settled, Climbed
<1>8. CASE ExpandConfig
  <2>1. /\ pass = "variables" /\ pass' = "labels" /\ chain' = chain
        /\ ~call.args.lostEnvFile /\ ~Unset(call.args)
    BY <1>8 DEF ExpandConfig, In, Refuse, Done, Walk, resolution
  <2>2. Left = 0 /\ Left' = 0
    BY <2>1 DEF Left
  <2> QED BY <2>1, <2>2 DEF Checked, Settled, Climbed
<1>9. CASE ParseNextLabel
  <2>1. pass = "labels" /\ pass' = "labels" /\ chain' = chain
    BY <1>9 DEF ParseNextLabel, In, On, Refuse, Done, resolution
  <2>2. Left = 0 /\ Left' = 0
    BY <2>1 DEF Left
  <2> QED BY <2>1, <2>2 DEF Checked, Settled, Climbed
<1> QED BY ResolveGoesOn, <1>1, <1>2, <1>3, <1>4, <1>5, <1>6, <1>7, <1>8, <1>9 DEF BuildFromCli

LEMMA CheckedInit == Init => CheckedHolds
BY ResolveInit DEF InitResolve, CheckedHolds, Working, Checked, Settled, Climbed

LEMMA CheckedAlways ==
  ClimbingHolds /\ ScalarsHold /\ VisitingHolds /\ CheckedHolds /\ [Next]_vars => CheckedHolds'
<1> SUFFICES ASSUME ClimbingHolds, ScalarsHold, VisitingHolds, CheckedHolds, [Next]_vars, Working'
             PROVE  Checked'
  BY DEF CheckedHolds
<1>1. call' = call /\ (BuildFromCli \/ UNCHANGED vars)
  BY ResolveStep DEF Working
<1>2. CASE BuildFromCli
  BY <1>1, <1>2, ResolveGoesOn, CheckedStep
     DEF ClimbingHolds, ScalarsHold, VisitingHolds, CheckedHolds, Working
<1>3. CASE UNCHANGED vars
  BY <1>3 DEF vars, CheckedHolds, Working, Checked, Settled, Climbed, Left
<1> QED BY <1>1, <1>2, <1>3

-----------------------------------------------------------------------------
(* The automatic forwards of the parts that are done.                      *)

AutosOf(c, p) == At(c, p[2]).autos

PartsOf(c, n) == {n} \X ({n} \cup Mixins(c, n))
Behind(c, s, left) == UNION {PartsOf(c, s[j]) : j \in left+1..Len(s)}

DoneParts == Behind(call, chain, Left) \cup ({chain[at]} \X Settled)

Apart(c, P, autos) ==
  /\ autos \cap BadNames = {}
  /\ autos = UNION {AutosOf(c, p) : p \in P}
  /\ \A p, q \in P : p # q => AutosOf(c, p) \cap AutosOf(c, q) = {}

LEMMA ApartGrows ==
  ASSUME NEW c, NEW P, NEW autos, Apart(c, P, autos), NEW q, autos \cap AutosOf(c, q) = {},
         AutosOf(c, q) \cap BadNames = {}
  PROVE  Apart(c, P \cup {q}, autos \cup AutosOf(c, q))
<1>1. autos \cup AutosOf(c, q) = UNION {AutosOf(c, p) : p \in P \cup {q}}
  BY DEF Apart
<1>2. \A p \in P : AutosOf(c, p) \subseteq autos
  BY DEF Apart
<1>3. \A p \in P : AutosOf(c, p) \cap AutosOf(c, q) = {}
  BY <1>2
<1>4. (autos \cup AutosOf(c, q)) \cap BadNames = {}
  BY DEF Apart
<1> QED BY <1>1, <1>3, <1>4 DEF Apart

LEMMA BehindIs ==
  ASSUME NEW c, NEW s, Len(s) \in Nat
  PROVE  /\ Behind(c, s, Len(s)) = {}
         /\ \A l \in 1..Len(s) : Behind(c, s, l-1) = Behind(c, s, l) \cup PartsOf(c, s[l])
<1>1. Len(s)+1..Len(s) = {}
  OBVIOUS
<1>2. ASSUME NEW l \in 1..Len(s) PROVE Behind(c, s, l-1) = Behind(c, s, l) \cup PartsOf(c, s[l])
  <2>1. \A j : j \in l-1+1..Len(s) <=> j \in l+1..Len(s) \/ j = l
    OBVIOUS
  <2> QED BY <2>1 DEF Behind
<1> QED BY <1>1, <1>2 DEF Behind

AutosApart == Climbed => Apart(call, DoneParts, out.autos)

AutosHold == Working => AutosApart

LEMMA AutosStep ==
  ASSUME Climbing, Visiting, AutosApart, call' = call, BuildFromCli, pass' # "done"
  PROVE  AutosApart'
<1>0. DOMAIN out = DOMAIN Resolved /\ WellFormed(call) /\ Len(chain) \in Nat
  BY DEF Climbing, Chained
<1>1. CASE RootImage \/ MergeChild
  <2>1. /\ pass' = "includes" /\ chain' = chain
        /\ stack' = <<chain[at']>> /\ reached' = [n \in {chain[at']} |-> 1]
        /\ Here(call, chain[at'])
    BY <1>1, EnterIs
  <2>2. Settled' = {}
    <3> DEFINE n == chain[at']
    <3>1. Here(call, n) /\ stack' = <<n>> /\ DOMAIN reached' = {n}
      BY <2>1
    <3> HIDE DEF n
    <3>2. {n} \ Open(<<n>>) = {}
      BY <3>1, <1>0, VisitStarts
    <3> QED BY <2>1, <3>1, <3>2 DEF Settled
  <2>3. DoneParts' = Behind(call, chain, at')
    BY <2>1, <2>2 DEF DoneParts, Left
  <2>4. CASE RootImage
    <3>1. at' = Len(chain) /\ out' = Root(At(call, chain[at']))
      BY <2>4, EnterIs
    <3>2. out'.autos = {}
      BY <3>1 DEF Root, Resolved
    <3>3. DoneParts' = {}
      BY <2>3, <3>1, <1>0, BehindIs
    <3>4. Apart(call, {}, {})
      BY DEF Apart
    <3> QED BY <3>2, <3>3, <3>4 DEF AutosApart
  <2>5. CASE MergeChild
    <3>1. pass = "applied" /\ at' = at - 1 /\ out' = Merge(out, At(call, chain[at']))
      BY <2>5, EnterIs
    <3>2. out'.autos = out.autos
      BY <3>1, <1>0 DEF Merge, Resolved
    <3>3. DoneParts = Behind(call, chain, at - 1)
      BY <3>1 DEF DoneParts, Left, Settled
    <3> QED BY <2>3, <3>1, <3>2, <3>3 DEF AutosApart, Climbed
  <2> QED BY <1>1, <2>4, <2>5
<1>2. CASE Include
  <2>1. /\ pass = "includes" /\ UNCHANGED <<pass, at, out, chain>>
        /\ DOMAIN reached' \ Open(stack') = DOMAIN reached \ Open(stack)
    BY <1>2, IncludeIs
  <2>2. DoneParts' = DoneParts
    BY <2>1 DEF DoneParts, Settled, Left
  <2> QED BY <2>1, <2>2 DEF AutosApart, Climbed
<1>3. CASE Contribute
  <2> DEFINE m == stack[Len(stack)]
             q == <<chain[at], m>>
  <2>1. /\ pass = "includes" /\ UNCHANGED <<pass, at, chain, reached>>
        /\ DOMAIN reached \ Open(stack') = (DOMAIN reached \ Open(stack)) \cup {m}
        /\ out.autos \cap At(call, m).autos = {} /\ At(call, m).autos \cap BadNames = {}
        /\ out' = [out EXCEPT !.steps = @ \o StepsOf(m, At(call, m), out.family),
                              !.autos = @ \cup At(call, m).autos]
    BY <1>3, ContributeIs
  <2>2. Settled' = Settled \cup {m} /\ Left' = Left
    BY <2>1 DEF Settled, Left
  <2>3. /\ out'.autos = out.autos \cup AutosOf(call, q) /\ out.autos \cap AutosOf(call, q) = {}
        /\ AutosOf(call, q) \cap BadNames = {}
    BY <2>1, <1>0 DEF Resolved, AutosOf
  <2>4. DoneParts' = DoneParts \cup {q}
    BY <2>1, <2>2 DEF DoneParts
  <2> HIDE DEF q
  <2>5. Apart(call, DoneParts \cup {q}, out.autos \cup AutosOf(call, q))
    BY <2>1, <2>3, ApartGrows DEF AutosApart, Climbed
  <2> QED BY <2>3, <2>4, <2>5 DEF AutosApart
<1>4. CASE ApplyOwn
  <2> DEFINE n == chain[at]
             q == <<n, n>>
  <2>1. /\ pass = "includes" /\ pass' = "applied" /\ UNCHANGED <<at, chain>>
        /\ Mixins(call, n) = DOMAIN reached \ Open(stack)
        /\ out.autos \cap At(call, n).autos = {} /\ At(call, n).autos \cap BadNames = {}
        /\ out' = [out EXCEPT !.steps = Append(@, Own(n)), !.autos = @ \cup At(call, n).autos,
                              !.labels = Over(At(call, n).labels, @)]
    BY <1>4, ApplyOwnIs
  <2>2. /\ out'.autos = out.autos \cup AutosOf(call, q) /\ out.autos \cap AutosOf(call, q) = {}
        /\ AutosOf(call, q) \cap BadNames = {}
    BY <2>1, <1>0 DEF Resolved, AutosOf
  <2>3. at \in 1..Len(chain)
    BY <2>1, LayerIs
  <2>4. DoneParts' = Behind(call, chain, at - 1)
    BY <2>1 DEF DoneParts, Left, Settled
  <2>5. Behind(call, chain, at - 1) = Behind(call, chain, at) \cup PartsOf(call, n)
    BY <2>3, <1>0, BehindIs
  <2>6. DoneParts = Behind(call, chain, at) \cup ({n} \X Mixins(call, n))
    BY <2>1 DEF DoneParts, Left, Settled
  <2>7. DoneParts' = DoneParts \cup {q}
    BY <2>4, <2>5, <2>6 DEF PartsOf
  <2> HIDE DEF q
  <2>8. Apart(call, DoneParts \cup {q}, out.autos \cup AutosOf(call, q))
    BY <2>1, <2>2, ApartGrows DEF AutosApart, Climbed
  <2> QED BY <2>2, <2>7, <2>8 DEF AutosApart
<1>5. CASE CheckArguments \/ FollowFrom
  BY <1>5 DEF CheckArguments, FollowFrom, In, Refuse, Done, Walk, AutosApart, Climbed
<1>6. CASE ApplySpec
  <2>1. /\ pass = "applied" /\ UNCHANGED <<at, chain>> /\ pass' = "variables" /\ at = 1
        /\ \E s : out' = [out EXCEPT !.memory = s]
    BY <1>6 DEF ApplySpec, In, Refuse, Done, FillFromSpec, resolution
  <2>2. out'.autos = out.autos
    BY <2>1, <1>0 DEF Resolved
  <2>3. DoneParts = Behind(call, chain, 0) /\ DoneParts' = Behind(call, chain, 0)
    BY <2>1 DEF DoneParts, Left, Settled
  <2> QED BY <2>1, <2>2, <2>3 DEF AutosApart, Climbed
<1>7. CASE ExpandConfig
  <2>1. /\ pass = "variables" /\ UNCHANGED chain /\ pass' = "labels"
        /\ \E s : out' = [out EXCEPT !.variable = s]
    BY <1>7 DEF ExpandConfig, In, Refuse, Done, Walk, resolution
  <2>2. out'.autos = out.autos
    BY <2>1, <1>0 DEF Resolved
  <2>3. DoneParts = Behind(call, chain, 0) /\ DoneParts' = Behind(call, chain, 0)
    BY <2>1 DEF DoneParts, Left, Settled
  <2> QED BY <2>1, <2>2, <2>3 DEF AutosApart, Climbed
<1>8. CASE ParseNextLabel
  <2>1. /\ pass = "labels" /\ UNCHANGED <<chain, pass>>
        /\ \E s : out' = [out EXCEPT !.given = s]
    BY <1>8 DEF ParseNextLabel, In, Refuse, Done, On, resolution
  <2>2. out'.autos = out.autos
    BY <2>1, <1>0 DEF Resolved
  <2>3. DoneParts = Behind(call, chain, 0) /\ DoneParts' = Behind(call, chain, 0)
    BY <2>1 DEF DoneParts, Left, Settled
  <2> QED BY <2>1, <2>2, <2>3 DEF AutosApart, Climbed
<1> QED BY ResolveGoesOn, <1>1, <1>2, <1>3, <1>4, <1>5, <1>6, <1>7, <1>8 DEF BuildFromCli

LEMMA AutosInit == Init => AutosHold
BY ResolveInit DEF InitResolve, AutosHold, Working, AutosApart, Climbed

LEMMA AutosAlways == ClimbingHolds /\ VisitingHolds /\ AutosHold /\ [Next]_vars => AutosHold'
<1> SUFFICES ASSUME ClimbingHolds, VisitingHolds, AutosHold, [Next]_vars, Working' PROVE AutosApart'
  BY DEF AutosHold
<1>1. call' = call /\ (BuildFromCli \/ UNCHANGED vars)
  BY ResolveStep DEF Working
<1>2. CASE BuildFromCli
  BY <1>1, <1>2, ResolveGoesOn, AutosStep DEF ClimbingHolds, VisitingHolds, AutosHold, Working
<1>3. CASE UNCHANGED vars
  BY <1>3 DEF vars, AutosHold, Working, AutosApart, Climbed, DoneParts, Settled, Left
<1> QED BY <1>1, <1>2, <1>3

-----------------------------------------------------------------------------
(* A refusal has a cause, and the lack of one.                             *)

LEMMA CausesAre ==
  ASSUME NEW c
  PROVE  /\ c.args.backend \notin Backends \cup {None} => "bad_backend" \in Causes(c)
         /\ \A n \in Chain(c) :
              /\ Here(c, n) /\ At(c, n).from # None /\ n \in Above(c, At(c, n).from)
                   => "circular_inheritance" \in Causes(c)
              /\ ~Here(c, n) => "unknown_image" \in Causes(c)
              /\ Here(c, n) /\ At(c, n).from = None /\ ~At(c, n).arch => "no_base_image" \in Causes(c)
              /\ Here(c, n) /\ At(c, n).from = None /\ At(c, n).family = None => "no_family" \in Causes(c)
              /\ Here(c, n) => Faulty(c, n) \subseteq Causes(c)
         /\ \A a, b \in Parts(c) :
              a # b /\ Here(c, a[2]) /\ Here(c, b[2]) /\ AutosOf(c, a) \cap AutosOf(c, b) # {}
                => "duplicate_auto" \in Causes(c)
         /\ \A p \in Parts(c) :
              Here(c, p[2]) /\ AutosOf(c, p) \cap BadNames # {} => "bad_auto" \in Causes(c)
         /\ c.args.badFile => "bad_file" \in Causes(c)
         /\ SpecOf(c) \notin DOMAIN Specs => "unknown_spec" \in Causes(c)
         /\ SpecOf(c) \in DOMAIN Specs /\ Size(c) \in BadSizes => "bad_size" \in Causes(c)
         /\ c.args.lostEnvFile => "no_env_file" \in Causes(c)
         /\ Unset(c.args) => "unset_variable" \in Causes(c)
         /\ \A i \in DOMAIN c.args.labels : c.args.labels[i].key = NoKey => "empty_key" \in Causes(c)
         /\ \A i, j \in DOMAIN c.args.labels :
              i # j /\ c.args.labels[i].key = c.args.labels[j].key => "duplicate_label" \in Causes(c)
         /\ Nearest(c, Top, "backend", DefaultBackend) = "avf" /\ Nearest(c, Top, "idle", 0) > 0
              => "avf_idle" \in Causes(c)
<1>0. ChainFaults(c) \subseteq Causes(c) /\ ArgumentFaults(c) \subseteq Causes(c)
  BY DEF Causes
<1>1. c.args.backend \notin Backends \cup {None} => "bad_backend" \in ArgumentFaults(c)
  BY DEF ArgumentFaults
<1>2. ASSUME NEW n \in Chain(c), Here(c, n), At(c, n).from # None, n \in Above(c, At(c, n).from)
      PROVE  "circular_inheritance" \in ChainFaults(c)
  BY <1>2 DEF ChainFaults
<1>3. ASSUME NEW n \in Chain(c), ~Here(c, n) PROVE "unknown_image" \in ChainFaults(c)
  BY <1>3 DEF ChainFaults
<1>4. ASSUME NEW n \in Chain(c), Here(c, n), At(c, n).from = None, ~At(c, n).arch
      PROVE  "no_base_image" \in ChainFaults(c)
  BY <1>4 DEF ChainFaults
<1>5. ASSUME NEW n \in Chain(c), Here(c, n), At(c, n).from = None, At(c, n).family = None
      PROVE  "no_family" \in ChainFaults(c)
  BY <1>5 DEF ChainFaults
<1>6. ASSUME NEW n \in Chain(c), Here(c, n) PROVE Faulty(c, n) \subseteq Causes(c)
  BY <1>6, Zenon DEF Causes
<1>7. ASSUME NEW a \in Parts(c), NEW b \in Parts(c), a # b, Here(c, a[2]), Here(c, b[2]),
             AutosOf(c, a) \cap AutosOf(c, b) # {}
      PROVE  "duplicate_auto" \in ChainFaults(c)
  BY <1>7 DEF ChainFaults, AutosOf
<1>7a. ASSUME NEW p \in Parts(c), Here(c, p[2]), AutosOf(c, p) \cap BadNames # {}
       PROVE  "bad_auto" \in ChainFaults(c)
  BY <1>7a DEF ChainFaults, AutosOf
<1>8. SpecOf(c) \notin DOMAIN Specs => "unknown_spec" \in ArgumentFaults(c)
  BY DEF ArgumentFaults
<1>8a. SpecOf(c) \in DOMAIN Specs /\ Size(c) \in BadSizes => "bad_size" \in ArgumentFaults(c)
  BY DEF ArgumentFaults, Size
<1>8b. c.args.badFile => "bad_file" \in ArgumentFaults(c)
  BY DEF ArgumentFaults
<1>9. c.args.lostEnvFile => "no_env_file" \in ArgumentFaults(c)
  BY DEF ArgumentFaults
<1>10. Unset(c.args) => "unset_variable" \in ArgumentFaults(c)
  BY DEF ArgumentFaults
<1>11. \A i \in DOMAIN c.args.labels : c.args.labels[i].key = NoKey => "empty_key" \in ArgumentFaults(c)
  BY DEF ArgumentFaults
<1>12. \A i, j \in DOMAIN c.args.labels :
         i # j /\ c.args.labels[i].key = c.args.labels[j].key => "duplicate_label" \in ArgumentFaults(c)
  BY DEF ArgumentFaults
<1>13. Nearest(c, Top, "backend", DefaultBackend) = "avf" /\ Nearest(c, Top, "idle", 0) > 0
         => "avf_idle" \in ArgumentFaults(c)
  BY DEF ArgumentFaults
<1> QED BY <1>0, <1>1, <1>2, <1>3, <1>4, <1>5, <1>6, <1>7, <1>7a, <1>8, <1>8a, <1>8b, <1>9, <1>10, <1>11,
         <1>12, <1>13

LEMMA RefuseIs ==
  ASSUME Climbing, NEW e, Refuse(e) PROVE out'.err = e
BY DEF Refuse, Done, Climbing, Resolved

(* The layers: validate_backend, resolve_inner. *)
LEMMA ChainRefusals ==
  ASSUME Climbing, CheckArguments \/ FollowFrom \/ RootImage, pass' = "done"
  PROVE  out'.err \in Causes(call)
<1>0. WellFormed(call) /\ Chained(call, chain)
  BY DEF Climbing
<1>1. CASE CheckArguments
  <2>1. \/ Refuse("bad_backend") /\ call.args.backend \notin Backends \cup {None}
        \/ Refuse("bad_file") /\ call.args.badFile
    BY <1>1 DEF CheckArguments, Walk
  <2> QED BY <2>1, RefuseIs, CausesAre
<1>2. CASE FollowFrom \/ RootImage
  <2> DEFINE n == chain[at]
             from == At(call, n).from
  <2>1. pass = "parents"
    BY <1>2 DEF FollowFrom, RootImage, In
  <2>2. /\ at = Len(chain) /\ Len(chain) \in Nat /\ at \in 1..Len(chain)
    BY <2>1 DEF Climbing, Chained
  <2>3. n \in Chain(call) /\ Here(call, n)
    BY <2>2, <1>0 DEF Chained, Chain
  <2>4. CASE FollowFrom
    <3>1. from # None
      BY <2>4 DEF FollowFrom
    <3>2. CASE from \in ToSet(chain)
      <4>1. Refuse("circular_inheritance")
        BY <2>4, <3>2 DEF FollowFrom
      <4>2. PICK i \in 1..Len(chain) : from = chain[i]
        BY <3>2, <2>2, <1>0 DEF ToSet, Chained
      <4>3. n \in Above(call, chain[i])
        BY <1>0, <2>2 DEF Chained
      <4> HIDE DEF n
      <4> QED BY <4>1, <4>2, <4>3, <2>3, <3>1, RefuseIs, CausesAre
    <3>3. CASE from \notin ToSet(chain)
      <4>1. Refuse("unknown_image") /\ ~Here(call, from)
        BY <2>4, <3>3, <2>1 DEF FollowFrom
      <4>2. from \in Chain(call)
        BY <1>0, <2>3, <3>1, AboveHolds DEF Chain
      <4> QED BY <4>1, <4>2, RefuseIs, CausesAre
    <3> QED BY <3>2, <3>3
  <2>5. CASE RootImage
    <3>1. from = None
      BY <2>5 DEF RootImage
    <3>2. \/ Refuse("no_base_image") /\ ~At(call, n).arch
          \/ Refuse("no_family") /\ At(call, n).family = None
      BY <2>5 DEF RootImage, Enter
    <3> HIDE DEF n
    <3>3. CASE Refuse("no_base_image") /\ ~At(call, n).arch
      BY <3>1, <3>3, <2>3, RefuseIs, CausesAre DEF n
    <3>4. CASE Refuse("no_family") /\ At(call, n).family = None
      BY <3>1, <3>4, <2>3, RefuseIs, CausesAre
    <3> QED BY <3>2, <3>3, <3>4
  <2> QED BY <1>2, <2>4, <2>5
<1> QED BY <1>1, <1>2

LEMMA DonePartsAre ==
  ASSUME Climbing, Visiting, Checked, Climbed, NEW p \in DoneParts
  PROVE  p \in Parts(call) /\ Here(call, p[2])
<1>0. Rooted(call, chain) /\ WellFormed(call) /\ Len(chain) \in Nat
  BY DEF Climbing, Climbed, Rooted, Chained
<1>1. Chain(call) = {chain[j] : j \in 1..Len(chain)} /\ \A j \in 1..Len(chain) : Here(call, chain[j])
  <2>1. Chain(call) = {chain[j] : j \in 1..Len(chain)}
    BY <1>0, ChainIs
  <2>2. \A j \in 1..Len(chain) : Here(call, chain[j])
    BY DEF Climbing, Chained
  <2> QED BY <2>1, <2>2
<1>2. CASE p \in Behind(call, chain, Left)
  <2>1. PICK j \in Left+1..Len(chain) : p \in PartsOf(call, chain[j])
    BY <1>2 DEF Behind
  <2>2. Left \in Nat
    BY <1>0 DEF Climbing, Left
  <2>3. j \in 1..Len(chain)
    BY <2>2, <1>0
  <2>4. Faulty(call, chain[j]) = {}
    BY DEF Checked
  <2>5. \A m \in Mixins(call, chain[j]) : Here(call, m)
    BY <2>4, <1>0, NoFaultMeans
  <2>6. chain[j] \in Chain(call) /\ Here(call, chain[j])
    BY <2>3, <1>1
  <2> DEFINE n == chain[j]
  <2> HIDE DEF n
  <2>7. p \in {n} \X ({n} \cup Mixins(call, n)) /\ n \in Chain(call) /\ Here(call, n)
        /\ \A m \in Mixins(call, n) : Here(call, m)
    BY <2>1, <2>5, <2>6 DEF n, PartsOf
  <2>8. p[2] \in {n} \cup Mixins(call, n)
    BY <2>7
  <2> QED BY <2>7, <2>8 DEF Parts
<1>3. CASE p \in {chain[at]} \X Settled
  <2> DEFINE n == chain[at]
  <2>1. pass = "includes"
    BY <1>3 DEF Settled
  <2>2. Visit(call, n, stack, reached) /\ n \in Chain(call)
    BY <2>1, LayerIs DEF Visiting
  <2>3. Settled = DOMAIN reached \ Open(stack) /\ n \in Open(stack)
    BY <2>1, <2>2, OpenFacts DEF Settled, Visit
  <2> HIDE DEF n
  <2>4. \A m \in Settled : m \in Mixins(call, n) /\ Here(call, m)
    BY <2>2, <2>3 DEF Visit, Met
  <2>5. p \in {n} \X ({n} \cup Mixins(call, n)) /\ p[2] \in Settled
    BY <1>3, <2>4 DEF n
  <2> QED BY <2>2, <2>4, <2>5 DEF Parts
<1> QED BY <1>2, <1>3 DEF DoneParts

LEMMA AutoRefused ==
  ASSUME Climbing, Visiting, Checked, AutosApart, pass = "includes", NEW m \in Open(stack),
         m = chain[at] \/ m \in Mixins(call, chain[at]), Here(call, m),
         out.autos \cap At(call, m).autos # {}
  PROVE  "duplicate_auto" \in Causes(call)
<1> DEFINE n == chain[at]
           q == <<n, m>>
<1>0. /\ n \in Chain(call) /\ at \in 1..Len(chain) /\ Len(chain) \in Nat
      /\ Rooted(call, chain) /\ WellFormed(call)
  BY LayerIs
<1>1. q \in Parts(call)
  BY <1>0 DEF Parts
<1>2. Climbed /\ Left = at /\ Settled = DOMAIN reached \ Open(stack)
  BY DEF Climbed, Left, Settled
<1>3. out.autos = UNION {AutosOf(call, p) : p \in DoneParts}
  BY <1>2 DEF AutosApart, Apart
<1>4. PICK p \in DoneParts : AutosOf(call, p) \cap At(call, m).autos # {}
  BY <1>3
<1>5. p \in Parts(call) /\ Here(call, p[2])
  BY <1>2, DonePartsAre
<1>6. p # q
  <2>1. CASE p \in Behind(call, chain, at)
    <3>1. PICK j \in at+1..Len(chain) : p \in PartsOf(call, chain[j])
      BY <2>1 DEF Behind
    <3>2. p[1] = chain[j]
      BY <3>1 DEF PartsOf
    <3>3. j \in 1..Len(chain) /\ j # at
      BY <1>0
    <3>4. chain[j] # chain[at]
      BY <3>3, <1>0 DEF Rooted, Chained
    <3> QED BY <3>2, <3>4
  <2>2. CASE p \in {n} \X Settled
    BY <2>2, <1>2
  <2> QED BY <2>1, <2>2, <1>2 DEF DoneParts
<1>7. AutosOf(call, q) = At(call, m).autos /\ q[2] = m
  BY DEF AutosOf
<1> HIDE DEF q
<1> QED BY <1>1, <1>4, <1>5, <1>6, <1>7, CausesAre

(* The includes: apply_includes, and what the layer itself adds.           *)
LEMMA IncludeRefused ==
  ASSUME Climbing, Visiting, Include, pass' = "done"
  PROVE  out'.err \in Causes(call)
<1> DEFINE n == chain[at]
           t == stack[Len(stack)]
           m == Name(call, t, reached[t])
<1>1. /\ pass = "includes" /\ reached[t] <= Count(call, t)
      /\ \/ Refuse("circular_include") /\ m \in DOMAIN reached \ {n}
         \/ Refuse("unknown_include") /\ ~Here(call, m)
         \/ Refuse("not_a_mixin") /\ Here(call, m) /\ NotAMixin(At(call, m))
  BY DEF Include, In, Last, Name, Count
<1>2. /\ n \in Chain(call) /\ Here(call, n) /\ WellFormed(call) /\ Visit(call, n, stack, reached)
  BY <1>1, LayerIs DEF Visiting
<1>a. t = stack[Len(stack)] /\ m = Name(call, t, reached[t])
  OBVIOUS
<1> HIDE DEF n, t, m
<1>b. reached[t] <= Count(call, t)
  BY <1>1
<1>3. m \in Mixins(call, n) /\ (m \in DOMAIN reached \ {n} => "circular_include" \in Faulty(call, n))
  BY <1>a, <1>b, <1>2, RefusesInclude
<1>4. Faulty(call, n) \subseteq Causes(call)
  BY <1>2, CausesAre
<1>5. CASE Refuse("circular_include") /\ m \in DOMAIN reached \ {n}
  BY <1>3, <1>4, <1>5, RefuseIs
<1>6. CASE Refuse("unknown_include") /\ ~Here(call, m)
  BY <1>3, <1>4, <1>6, RefuseIs, FaultsAre
<1>7. CASE Refuse("not_a_mixin") /\ Here(call, m) /\ NotAMixin(At(call, m))
  BY <1>3, <1>4, <1>7, RefuseIs, FaultsAre
<1> QED BY <1>1, <1>5, <1>6, <1>7

(* A wrong name in a layer, or in a mixin of it. *)
LEMMA BadAutoRefused ==
  ASSUME NEW c, NEW n \in Chain(c), NEW m \in {n} \cup Mixins(c, n), Here(c, m),
         At(c, m).autos \cap BadNames # {}
  PROVE  "bad_auto" \in Causes(c)
<1> DEFINE p == <<n, m>>
<1>1. p \in Parts(c) /\ p[2] = m
  BY DEF Parts
<1> HIDE DEF p
<1> QED BY <1>1, CausesAre DEF AutosOf

LEMMA ContributionRefused ==
  ASSUME Climbing, Scalars, Visiting, Checked, AutosApart, Contribute, pass' = "done"
  PROVE  out'.err \in Causes(call)
<1> DEFINE n == chain[at]
           m == stack[Len(stack)]
           layer == At(call, m)
<1>1. /\ pass = "includes" /\ Len(stack) > 1 /\ reached[m] > Count(call, m)
      /\ \/ /\ Refuse("unlisted_family")
            /\ layer.supports # None /\ ~(layer.families \subseteq layer.supports)
         \/ Refuse("unsupported_family") /\ ~Supports(layer, out.family)
         \/ \E e \in WrongAutos(out, layer) : Refuse(e)
  BY DEF Contribute, In, Last, Count
<1>2. /\ n \in Chain(call) /\ Here(call, n) /\ WellFormed(call) /\ Visit(call, n, stack, reached)
  BY <1>1, LayerIs DEF Visiting
<1>3. out.family = FamilyAt(call, n)
  BY <1>1 DEF Scalars, Climbed, Current, NearestValues, FamilyAt
<1>a. m = stack[Len(stack)] /\ n = chain[at]
  OBVIOUS
<1> HIDE DEF n, m
<1>b. Len(stack) > 1 /\ reached[m] > Count(call, m)
  BY <1>1
<1>4. m \in DOMAIN reached /\ m # n /\ m \in Open(stack)
  BY <1>a, <1>b, <1>2, VisitLeaves
<1>5. m \in Mixins(call, n) /\ Here(call, m)
  BY <1>4, <1>2 DEF Visit, Met
<1>6. Faulty(call, n) \subseteq Causes(call)
  BY <1>2, CausesAre
<1>7. CASE /\ Refuse("unlisted_family")
           /\ layer.supports # None /\ ~(layer.families \subseteq layer.supports)
  <2>1. "unlisted_family" \in Faulty(call, n)
    BY <1>5, <1>7, FaultsAre
  <2> QED BY <2>1, <1>6, <1>7, RefuseIs
<1>8. CASE Refuse("unsupported_family") /\ ~Supports(layer, out.family)
  <2>1. "unsupported_family" \in Faulty(call, n)
    BY <1>3, <1>5, <1>8, FaultsAre
  <2> QED BY <2>1, <1>6, <1>8, RefuseIs
<1>9. CASE \E e \in WrongAutos(out, layer) : Refuse(e)
  <2>1. PICK e \in WrongAutos(out, layer) : Refuse(e)
    BY <1>9
  <2>2. CASE e = "bad_auto" /\ layer.autos \cap BadNames # {}
    <3>1. "bad_auto" \in Causes(call)
      BY <1>2, <1>5, <2>2, BadAutoRefused
    <3> QED BY <3>1, <2>1, <2>2, RefuseIs
  <2>3. CASE e = "duplicate_auto" /\ out.autos \cap layer.autos # {}
    <3>1. "duplicate_auto" \in Causes(call)
      BY <1>a, <1>1, <1>4, <1>5, <2>3, AutoRefused
    <3> QED BY <3>1, <2>1, <2>3, RefuseIs
  <2> QED BY <2>1, <2>2, <2>3, WrongAutosAre
<1> QED BY <1>1, <1>7, <1>8, <1>9

LEMMA OwnRefused ==
  ASSUME Climbing, Visiting, Checked, AutosApart, ApplyOwn, pass' = "done"
  PROVE  out'.err \in Causes(call)
<1> DEFINE n == chain[at]
<1>1. pass = "includes" /\ \E e \in WrongAutos(out, At(call, n)) : Refuse(e)
  BY DEF ApplyOwn, In
<1>2. /\ n \in Chain(call) /\ Here(call, n) /\ WellFormed(call) /\ Visit(call, n, stack, reached)
  BY <1>1, LayerIs DEF Visiting
<1>3. n \in Open(stack)
  <2> HIDE DEF n
  <2> QED BY <1>2, OpenFacts DEF Visit
<1>4. PICK e \in WrongAutos(out, At(call, n)) : Refuse(e)
  BY <1>1
<1>5. CASE e = "bad_auto" /\ At(call, n).autos \cap BadNames # {}
  <2>1. "bad_auto" \in Causes(call)
    BY <1>2, <1>5, BadAutoRefused
  <2> QED BY <2>1, <1>4, <1>5, RefuseIs
<1>6. CASE e = "duplicate_auto" /\ out.autos \cap At(call, n).autos # {}
  <2>1. "duplicate_auto" \in Causes(call)
    BY <1>1, <1>2, <1>3, <1>6, AutoRefused
  <2> QED BY <2>1, <1>4, <1>6, RefuseIs
<1> QED BY <1>4, <1>5, <1>6, WrongAutosAre

(* The rest of build_from_cli.                                             *)
LEMMA ArgumentRefused ==
  ASSUME Climbing, Scalars, Labels,
         ApplySpec \/ ExpandConfig \/ ParseNextLabel \/ Build, pass' = "done", ~Ok(out')
  PROVE  out'.err \in Causes(call)
<1>1. CASE ApplySpec
  <2>1. \/ Refuse("unknown_spec") /\ SpecOf(call) \notin DOMAIN Specs
        \/ Refuse("bad_size") /\ SpecOf(call) \in DOMAIN Specs /\ Size(call) \in BadSizes
    BY <1>1, SizeIs
  <2> QED BY <2>1, RefuseIs, CausesAre
<1>2. CASE ExpandConfig
  <2>1. \/ Refuse("no_env_file") /\ call.args.lostEnvFile
        \/ Refuse("unset_variable") /\ Unset(call.args)
    BY <1>2 DEF ExpandConfig, Walk
  <2> QED BY <2>1, RefuseIs, CausesAre
<1>3. CASE ParseNextLabel
  <2> DEFINE ls == call.args.labels
  <2>1. /\ pass = "labels" /\ at <= Len(ls)
        /\ \/ Refuse("empty_key") /\ ls[at].key = NoKey
           \/ Refuse("duplicate_label") /\ ls[at].key \in DOMAIN out.given
    BY <1>3 DEF ParseNextLabel, In
  <2>2. at \in 1..Len(ls)+1 /\ ReadSoFar(ls, at-1, out.given)
    BY <2>1 DEF Labels
  <2>3. DOMAIN ls = 1..Len(ls) /\ Len(ls) \in Nat
    BY ListFacts DEF Climbing, WellFormed
  <2>4. at \in DOMAIN ls
    BY <2>1, <2>2, <2>3
  <2>5. CASE Refuse("empty_key") /\ ls[at].key = NoKey
    BY <2>4, <2>5, RefuseIs, CausesAre
  <2>6. CASE Refuse("duplicate_label") /\ ls[at].key \in DOMAIN out.given
    <3>1. PICK i \in 1..at-1 : ls[at].key = ls[i].key
      BY <2>2, <2>6 DEF ReadSoFar
    <3>2. i \in DOMAIN ls /\ i # at
      BY <2>2, <2>3
    <3>3. "duplicate_label" \in Causes(call)
      BY <3>1, <3>2, <2>4, CausesAre
    <3> QED BY <3>3, <2>6, RefuseIs
  <2> QED BY <2>1, <2>5, <2>6
<1>4. CASE Build
  <2>1. pass = "labels"
    BY <1>4 DEF Build, In
  <2>2. Refuse("avf_idle") /\ out.backend = "avf" /\ out.idle > 0
    <3>1. Ok([out EXCEPT !.labels = Over(out.given, @)])
      BY DEF Climbing, Ok, Resolved
    <3>2. out' = [out EXCEPT !.labels = Over(out.given, @)] => Ok(out')
      BY <3>1
    <3> QED BY <1>4, <3>2 DEF Build, Done
  <2>3. NearestValues(call, Top, out)
    BY <2>1 DEF Scalars, Climbed, Current, Climbing, Chained
  <2>4. "avf_idle" \in Causes(call)
    BY <2>2, <2>3, CausesAre DEF NearestValues
  <2> QED BY <2>2, <2>4, RefuseIs
<1> QED BY <1>1, <1>2, <1>3, <1>4

LEMMA MergeGoesOn ==
  ASSUME MergeChild PROVE pass' = "includes"
BY DEF MergeChild, Enter

LEMMA RefusedForCause ==
  ASSUME Climbing, Scalars, Labels, Visiting, Checked, AutosApart, BuildFromCli,
         pass' = "done", ~Ok(out')
  PROVE  out'.err \in Causes(call)
<1>1. CASE CheckArguments \/ FollowFrom \/ RootImage
  BY <1>1, ChainRefusals
<1>2. CASE MergeChild
  BY <1>2, MergeGoesOn
<1>3. CASE Include
  BY <1>3, IncludeRefused
<1>4. CASE Contribute
  BY <1>4, ContributionRefused
<1>5. CASE ApplyOwn
  BY <1>5, OwnRefused
<1>6. CASE ApplySpec \/ ExpandConfig \/ ParseNextLabel \/ Build
  BY <1>6, ArgumentRefused
<1> QED BY <1>1, <1>2, <1>3, <1>4, <1>5, <1>6 DEF BuildFromCli

LEMMA NoChainFault ==
  ASSUME NEW c, WellFormed(c), NEW s, Rooted(c, s), NEW autos, Apart(c, Parts(c), autos)
  PROVE  ChainFaults(c) = {}
<1>0. /\ Chain(c) = {s[j] : j \in 1..Len(s)} /\ Len(s) \in Nat /\ Chained(c, s)
      /\ \A i, j \in 1..Len(s) : s[i] = s[j] => i = j
  BY ChainIs DEF Rooted, Chained
<1>1. ASSUME NEW n \in Chain(c), Here(c, n), At(c, n).from # None, n \in Above(c, At(c, n).from)
      PROVE  FALSE
  <2>1. PICK i \in 1..Len(s) : n = s[i]
    BY <1>0
  <2>2. i # Len(s)
    BY <2>1, <1>1 DEF Rooted
  <2>3. i + 1 \in 1..Len(s) /\ At(c, n).from = s[i+1]
    BY <2>1, <2>2, <1>0 DEF Chained
  <2> DEFINE j == i + 1
  <2>4. Above(c, s[j]) = {s[k] : k \in j..Len(s)}
    BY <2>3, AboveInChain
  <2> HIDE DEF j
  <2>5. PICK k \in j..Len(s) : n = s[k]
    BY <2>3, <2>4, <1>1 DEF j
  <2>6. k \in 1..Len(s) /\ k # i
    BY <2>3, <1>0 DEF j
  <2> QED BY <2>1, <2>5, <2>6, <1>0
<1>2. \A n \in Chain(c) : Here(c, n)
  BY <1>0 DEF Chained
<1>3. ASSUME NEW n \in Chain(c), At(c, n).from = None
      PROVE  At(c, n).arch /\ At(c, n).family # None
  <2>1. PICK i \in 1..Len(s) : n = s[i]
    BY <1>0
  <2>2. i = Len(s)
    <3> SUFFICES ASSUME i # Len(s) PROVE FALSE
      OBVIOUS
    <3>1. i \in 1..Len(s)-1
      BY <1>0
    <3>2. s[i+1] = At(c, s[i]).from /\ s[i+1] # None
      BY <3>1, <1>0 DEF Chained
    <3> QED BY <3>2, <2>1, <1>3
  <2> QED BY <2>1, <2>2 DEF Rooted
<1>4. \A a, b \in Parts(c) : a # b => At(c, a[2]).autos \cap At(c, b[2]).autos = {}
  BY DEF Apart, AutosOf
<1>5. {cause \in {"circular_inheritance"} :
         \E n \in Chain(c) : Here(c, n) /\ At(c, n).from # None /\ n \in Above(c, At(c, n).from)} = {}
  BY <1>1
<1>6. {cause \in {"unknown_image"} : \E n \in Chain(c) : ~Here(c, n)} = {}
  BY <1>2
<1>7. {cause \in {"no_base_image"} :
         \E n \in Chain(c) : Here(c, n) /\ At(c, n).from = None /\ ~At(c, n).arch} = {}
  BY <1>3
<1>8. {cause \in {"no_family"} :
         \E n \in Chain(c) : Here(c, n) /\ At(c, n).from = None /\ At(c, n).family = None} = {}
  BY <1>3
<1>9. {cause \in {"duplicate_auto"} :
         \E a, b \in Parts(c) : /\ a # b /\ Here(c, a[2]) /\ Here(c, b[2])
                                /\ At(c, a[2]).autos \cap At(c, b[2]).autos # {}} = {}
  BY <1>4
<1>10. \A p \in Parts(c) : At(c, p[2]).autos \cap BadNames = {}
  BY DEF Apart, AutosOf
<1>11. {cause \in {"bad_auto"} :
          \E p \in Parts(c) : Here(c, p[2]) /\ At(c, p[2]).autos \cap BadNames # {}} = {}
  BY <1>10
<1> QED BY <1>5, <1>6, <1>7, <1>8, <1>9, <1>11, Zenon DEF ChainFaults

LEMMA NoArgumentFault ==
  ASSUME NEW c, c.args.backend \in Backends \cup {None}, ~c.args.badFile,
         SpecOf(c) \in DOMAIN Specs, Size(c) \notin BadSizes,
         ~c.args.lostEnvFile, ~Unset(c.args),
         \A i \in DOMAIN c.args.labels : c.args.labels[i].key # NoKey,
         \A i, j \in DOMAIN c.args.labels : c.args.labels[i].key = c.args.labels[j].key => i = j,
         ~(Nearest(c, Top, "backend", DefaultBackend) = "avf" /\ Nearest(c, Top, "idle", 0) > 0)
  PROVE  ArgumentFaults(c) = {}
<1> DEFINE labels == c.args.labels
<1>1. {cause \in {"bad_backend"} : c.args.backend \notin Backends \cup {None}} = {}
  OBVIOUS
<1>1a. {cause \in {"bad_file"} : c.args.badFile} = {}
  OBVIOUS
<1>2. {cause \in {"unknown_spec"} : SpecOf(c) \notin DOMAIN Specs} = {}
  OBVIOUS
<1>2a. {cause \in {"bad_size"} :
          SpecOf(c) \in DOMAIN Specs /\ Or(At(c, Top).memory, Specs[SpecOf(c)]) \in BadSizes} = {}
  BY DEF Size
<1>3. {cause \in {"no_env_file"} : c.args.lostEnvFile} = {}
  OBVIOUS
<1>4. {cause \in {"unset_variable"} : Unset(c.args)} = {}
  OBVIOUS
<1>5. {cause \in {"empty_key"} : \E i \in DOMAIN labels : labels[i].key = NoKey} = {}
  OBVIOUS
<1>6. {cause \in {"duplicate_label"} :
         \E i, j \in DOMAIN labels : i # j /\ labels[i].key = labels[j].key} = {}
  OBVIOUS
<1>7. {cause \in {"avf_idle"} :
         Nearest(c, Top, "backend", DefaultBackend) = "avf" /\ Nearest(c, Top, "idle", 0) > 0} = {}
  OBVIOUS
<1> QED BY <1>1, <1>1a, <1>2, <1>2a, <1>3, <1>4, <1>5, <1>6, <1>7, Zenon DEF ArgumentFaults

LEMMA NoCause ==
  ASSUME Climbing, Scalars, Labels, Checked, AutosApart, BuildFromCli, pass' = "done", Ok(out')
  PROVE  Causes(call) = {}
<1>0. /\ pass = "labels" /\ at > Len(call.args.labels) /\ ~(out.backend = "avf" /\ out.idle > 0)
  BY OnlyBuildAccepts
<1>1. Rooted(call, chain) /\ WellFormed(call) /\ Len(chain) \in Nat /\ chain[1] = Top
  BY <1>0 DEF Climbing, Rooted, Chained
<1>2. Chain(call) = {chain[j] : j \in 1..Len(chain)}
  BY <1>1, ChainIs
<1>3. Left = 0 /\ Settled = {} /\ Climbed
  BY <1>0 DEF Left, Settled, Climbed
<1>4. Apart(call, Parts(call), out.autos)
  <2>1. DoneParts = Behind(call, chain, 0)
    <3>1. {chain[at]} \X {} = {}
      OBVIOUS
    <3> QED BY <3>1, <1>3 DEF DoneParts
  <2>2. Behind(call, chain, 0) = Parts(call)
    <3>0. \A j : j \in 0+1..Len(chain) <=> j \in 1..Len(chain)
      OBVIOUS
    <3>1. Parts(call) = UNION {PartsOf(call, n) : n \in Chain(call)}
      BY DEF Parts, PartsOf
    <3> QED BY <3>0, <3>1, <1>2 DEF Behind
  <2> QED BY <2>1, <2>2, <1>3 DEF AutosApart
<1>5. ChainFaults(call) = {}
  BY <1>1, <1>4, NoChainFault
<1>6. \A n \in Chain(call) : Faulty(call, n) = {}
  <2>1. \A j \in 0+1..Len(chain) : Faulty(call, chain[j]) = {}
    BY <1>3 DEF Checked
  <2>2. \A j \in 1..Len(chain) : j \in 0+1..Len(chain)
    OBVIOUS
  <2> QED BY <2>1, <2>2, <1>2
<1>7. ArgumentFaults(call) = {}
  <2> DEFINE ls == call.args.labels
  <2>1. /\ call.args.backend \in Backends \cup {None} /\ ~call.args.badFile
        /\ Size(call) \notin BadSizes /\ ~call.args.lostEnvFile /\ ~Unset(call.args)
    BY <1>0 DEF Checked
  <2>2. SpecOf(call) \in DOMAIN Specs
    BY <1>0 DEF Scalars, SpecOf
  <2>3. ~(Nearest(call, Top, "backend", DefaultBackend) = "avf" /\ Nearest(call, Top, "idle", 0) > 0)
    BY <1>0, <1>1 DEF Scalars, Climbed, Current, NearestValues
  <2>4. at \in 1..Len(ls)+1 /\ ReadSoFar(ls, at-1, out.given)
    BY <1>0 DEF Labels
  <2>5. DOMAIN ls = 1..Len(ls) /\ Len(ls) \in Nat
    BY ListFacts, <1>1 DEF WellFormed
  <2>6. at - 1 = Len(ls)
    BY <2>4, <2>5, <1>0
  <2>7. /\ \A i \in DOMAIN ls : ls[i].key # NoKey
        /\ \A i, j \in DOMAIN ls : ls[i].key = ls[j].key => i = j
    BY <2>4, <2>5, <2>6 DEF ReadSoFar
  <2> QED BY <2>1, <2>2, <2>3, <2>7, NoArgumentFault
<1>8. UNION {Faulty(call, n) : n \in {k \in Chain(call) : Here(call, k)}} = {}
  BY <1>6
<1> QED BY <1>5, <1>7, <1>8 DEF Causes
-----------------------------------------------------------------------------
RefusalsHold ==
  /\ ClimbingHolds /\ ScalarsHold /\ LabelsHold /\ VisitingHolds /\ CheckedHolds /\ AutosHold
  /\ RefusesExactly

LEMMA RefusalsInit == Init => RefusalsHold
<1> SUFFICES ASSUME Init PROVE RefusesExactly
  BY ClimbingInit, ScalarsInit, LabelsInit, VisitingInit, CheckedInit, AutosInit DEF RefusalsHold
<1> QED BY ResolveInit DEF RefusesExactly, Returned, InitResolve

LEMMA RefusalsStep == RefusalsHold /\ [Next]_vars => RefusalsHold'
<1> SUFFICES ASSUME RefusalsHold, [Next]_vars PROVE RefusesExactly'
  BY ClimbingAlways, ScalarsAlways, LabelsAlways, VisitingAlways, CheckedAlways, AutosAlways DEF RefusalsHold
<1> SUFFICES ASSUME call'.kind = "resolve", pass' = "done"
             PROVE  IF Causes(call') = {} THEN Ok(out') ELSE out'.err \in Causes(call')
  BY DEF RefusesExactly, Returned
<1>1. call' = call /\ (BuildFromCli \/ UNCHANGED vars)
  BY ResolveStep
<1>2. CASE BuildFromCli
  <2>1. pass # "done"
    BY <1>2 DEF BuildFromCli, In, CheckArguments, FollowFrom, RootImage, MergeChild, Include,
                Contribute, ApplyOwn, ApplySpec, ExpandConfig, ParseNextLabel, Build
  <2>2. Climbing /\ Scalars /\ Labels /\ Visiting /\ Checked /\ AutosApart
    BY <2>1, <1>1 DEF RefusalsHold, ClimbingHolds, ScalarsHold, LabelsHold, VisitingHolds,
                      CheckedHolds, AutosHold, Working
  <2>3. CASE Ok(out')
    BY <2>2, <2>3, <1>1, <1>2, NoCause
  <2>4. CASE ~Ok(out')
    <3>1. out'.err \in Causes(call)
      BY <2>2, <2>4, <1>2, RefusedForCause
    <3> QED BY <3>1, <1>1
  <2> QED BY <2>3, <2>4
<1>3. CASE UNCHANGED vars
  <2>1. RefusesExactly /\ pass = "done" /\ call.kind = "resolve"
    BY <1>1, <1>3 DEF RefusalsHold, vars
  <2>2. IF Causes(call) = {} THEN Ok(out) ELSE out.err \in Causes(call)
    BY <2>1 DEF RefusesExactly, Returned
  <2> QED BY <2>2, <1>1, <1>3 DEF vars
<1> QED BY <1>1, <1>2, <1>3

(* However the layers derive from and include one another, a command line  *)
(* is refused exactly when it has a fault, and for one it has              *)
(* (resolve_inner, apply_includes, build_from_cli).                        *)
THEOREM RefusesExactlyTheorem == Spec => []RefusesExactly
<1>1. RefusalsHold => RefusesExactly
  BY DEF RefusalsHold
<1> QED BY <1>1, RefusalsInit, RefusalsStep, PTL DEF Spec

-----------------------------------------------------------------------------
(* The order of the steps.                                                 *)

LEMMA OwnIs ==
  \A a, b : /\ Own(a) = Own(b) => a = b
            /\ ForFamily(a) = ForFamily(b) => a = b
            /\ Own(a) # ForFamily(b)
<1> SUFFICES ASSUME NEW a, NEW b
             PROVE  /\ Own(a) = Own(b) => a = b
                    /\ ForFamily(a) = ForFamily(b) => a = b
                    /\ Own(a) # ForFamily(b)
  OBVIOUS
<1>1. \A x, y, u, v : <<x, u>> = <<y, v>> => x = y /\ u = v
  OBVIOUS
<1>2. "own" # "family"
  OBVIOUS
<1> QED BY <1>1, <1>2 DEF Own, ForFamily

(* What comes after a sequence. *)
Keeps(s, t) ==
  /\ IsList(s) /\ IsList(t) /\ Len(s) \in Nat /\ Len(t) \in Nat /\ Len(s) <= Len(t)
  /\ \A i \in 1..Len(s) : t[i] = s[i]

LEMMA KeepsAppend ==
  ASSUME NEW s, IsList(s), NEW e
  PROVE  Keeps(s, Append(s, e)) /\ Len(Append(s, e)) = Len(s) + 1 /\ Append(s, e)[Len(s)+1] = e
<1> DEFINE S == {s[i] : i \in DOMAIN s} \cup {e}
           t == Append(s, e)
<1>1. s \in Seq({s[i] : i \in DOMAIN s}) /\ {s[i] : i \in DOMAIN s} \subseteq S /\ e \in S
  BY DEF IsList
<1> HIDE DEF S
<1>2. s \in Seq(S)
  BY <1>1
<1>3. t \in Seq(S) /\ Len(t) = Len(s) + 1 /\ Len(s) \in Nat
  BY <1>2, <1>1
<1>4. \A i \in 1..Len(s) : t[i] = s[i]
  BY <1>2, <1>1
<1>5. t[Len(s)+1] = e
  BY <1>2, <1>1
<1>6. IsList(t)
  BY <1>3, SeqIsList
<1> HIDE DEF t
<1>7. Len(t) \in Nat /\ Len(s) <= Len(t)
  BY <1>3
<1> QED BY <1>3, <1>4, <1>5, <1>6, <1>7 DEF Keeps, t

LEMMA KeepsConcat ==
  ASSUME NEW s, IsList(s), NEW u, IsList(u)
  PROVE  /\ Keeps(s, s \o u) /\ Len(s \o u) = Len(s) + Len(u) /\ Len(u) \in Nat
         /\ \A i \in 1..Len(u) : (s \o u)[Len(s) + i] = u[i]
<1> DEFINE S == {s[i] : i \in DOMAIN s} \cup {u[i] : i \in DOMAIN u}
           t == s \o u
<1>1. /\ s \in Seq({s[i] : i \in DOMAIN s}) /\ {s[i] : i \in DOMAIN s} \subseteq S
      /\ u \in Seq({u[i] : i \in DOMAIN u}) /\ {u[i] : i \in DOMAIN u} \subseteq S
  BY DEF IsList
<1> HIDE DEF S
<1>2. s \in Seq(S) /\ u \in Seq(S)
  BY <1>1
<1>3. /\ t \in Seq(S) /\ Len(t) = Len(s) + Len(u) /\ Len(s) \in Nat /\ Len(u) \in Nat
      /\ \A i \in 1..Len(s)+Len(u) : t[i] = IF i <= Len(s) THEN s[i] ELSE u[i - Len(s)]
  BY <1>2, ConcatProperties
<1>4. IsList(t)
  BY <1>3, SeqIsList
<1> HIDE DEF t
<1>5. \A i \in 1..Len(s) : t[i] = s[i]
  BY <1>3
<1>6. \A i \in 1..Len(u) : t[Len(s) + i] = u[i]
  <2> SUFFICES ASSUME NEW i \in 1..Len(u) PROVE t[Len(s) + i] = u[i]
    OBVIOUS
  <2>1. Len(s) + i \in 1..Len(s)+Len(u) /\ ~(Len(s) + i <= Len(s)) /\ Len(s) + i - Len(s) = i
    BY <1>3
  <2> QED BY <2>1, <1>3
<1>7. Len(t) \in Nat /\ Len(s) <= Len(t)
  BY <1>3
<1> QED BY <1>3, <1>4, <1>5, <1>6, <1>7 DEF Keeps, t

LEMMA SameWindow ==
  ASSUME NEW s, NEW t, Keeps(s, t), NEW a \in Nat \ {0}, NEW b \in Nat, b <= Len(s)
  PROVE  SubSeq(t, a, b) = SubSeq(s, a, b)
<1> DEFINE S == {s[i] : i \in DOMAIN s}
<1>1. Len(s) \in Nat /\ DOMAIN s = 1..Len(s) /\ \A i \in a..b : i \in 1..Len(s)
  BY ListFacts DEF Keeps
<1>2. \A i \in a..b : s[i] \in S /\ t[i] \in S
  BY <1>1 DEF Keeps
<1>3. a \in Int /\ b \in Int
  OBVIOUS
<1> DEFINE u == SubSeq(s, a, b)
           v == SubSeq(t, a, b)
<1> HIDE DEF S
<1>4. /\ u \in Seq(S) /\ Len(u) = (IF a <= b THEN b-a+1 ELSE 0)
      /\ \A i \in 1..b-a+1 : u[i] = s[a+i-1]
  BY <1>2, <1>3, SubSeqProperties
<1>5. /\ v \in Seq(S) /\ Len(v) = (IF a <= b THEN b-a+1 ELSE 0)
      /\ \A i \in 1..b-a+1 : v[i] = t[a+i-1]
  BY <1>2, <1>3, SubSeqProperties
<1> HIDE DEF u, v
<1>6. \A i \in 1..Len(u) : u[i] = v[i]
  <2> SUFFICES ASSUME NEW i \in 1..Len(u) PROVE u[i] = v[i]
    OBVIOUS
  <2>1. a <= b /\ i \in 1..b-a+1
    BY <1>4
  <2> DEFINE k == a+i-1
  <2>2. k \in 1..Len(s)
    BY <2>1, <1>1
  <2>3. u[i] = s[k] /\ v[i] = t[k]
    BY <2>1, <1>4, <1>5
  <2> HIDE DEF k
  <2> QED BY <2>2, <2>3 DEF Keeps
<1>7. u = v
  BY <1>4, <1>5, <1>6, SeqEqual
<1> QED BY <1>7 DEF u, v
-----------------------------------------------------------------------------
(* The steps after place lo, those of the mixins that have contributed: D. *)

Before(steps, lo, a, b) ==
  \A i, j \in lo+1..Len(steps) : steps[i] = Own(a) /\ steps[j] = Own(b) => i < j

Placed(c, D, f, steps, lo) ==
  /\ \A i \in lo+1..Len(steps) : \E m \in D :
       steps[i] = Own(m) \/ (f \in At(c, m).families /\ steps[i] = ForFamily(m))
  /\ \A m \in D : \E i \in lo+1..Len(steps) : steps[i] = Own(m)
  /\ \A m \in D : \A i \in lo+1..Len(steps) :
       steps[i] = Own(m) /\ f \in At(c, m).families => i < Len(steps) /\ steps[i+1] = ForFamily(m)
  /\ \A i, j \in lo+1..Len(steps) : steps[i] = steps[j] => i = j
  /\ \A m \in D : Mixins(c, m) \subseteq D /\ \A y \in Mixins(c, m) : Before(steps, lo, y, m)

LEMMA StepsAdded ==
  ASSUME NEW s, IsList(s), NEW m, NEW layer, NEW f, NEW t, t = s \o StepsOf(m, layer, f)
  PROVE  /\ Keeps(s, t) /\ t[Len(s)+1] = Own(m)
         /\ f \in layer.families => Len(t) = Len(s) + 2 /\ t[Len(s)+2] = ForFamily(m)
         /\ f \notin layer.families => Len(t) = Len(s) + 1
<1>1. CASE f \in layer.families
  <2> DEFINE u == <<Own(m), ForFamily(m)>>
             S == {Own(m), ForFamily(m)}
  <2>1. u \in Seq(S) /\ Len(u) = 2 /\ u[1] = Own(m) /\ u[2] = ForFamily(m)
    OBVIOUS
  <2>3. t = s \o u
    BY <1>1 DEF StepsOf
  <2> HIDE DEF u, S
  <2>2. IsList(u)
    BY <2>1, SeqIsList
  <2>a. /\ Keeps(s, s \o u) /\ Len(s \o u) = Len(s) + Len(u)
        /\ \A i \in 1..Len(u) : (s \o u)[Len(s) + i] = u[i]
    BY <2>2, KeepsConcat
  <2>b. Len(u) = 2
    BY <2>1
  <2>4. /\ Keeps(s, t) /\ Len(t) = Len(s) + 2
        /\ \A i \in 1..2 : t[Len(s) + i] = u[i]
    BY <2>a, <2>b, <2>3
  <2> QED BY <2>1, <2>4, <1>1
<1>2. CASE f \notin layer.families
  <2> DEFINE u == <<Own(m)>>
             S == {Own(m)}
  <2>1. u \in Seq(S) /\ Len(u) = 1 /\ u[1] = Own(m)
    OBVIOUS
  <2>3. t = s \o u
    BY <1>2 DEF StepsOf
  <2> HIDE DEF u, S
  <2>2. IsList(u)
    BY <2>1, SeqIsList
  <2>a. /\ Keeps(s, s \o u) /\ Len(s \o u) = Len(s) + Len(u)
        /\ \A i \in 1..Len(u) : (s \o u)[Len(s) + i] = u[i]
    BY <2>2, KeepsConcat
  <2>b. Len(u) = 1
    BY <2>1
  <2>4. /\ Keeps(s, t) /\ Len(t) = Len(s) + 1
        /\ \A i \in 1..1 : t[Len(s) + i] = u[i]
    BY <2>a, <2>b, <2>3
  <2> QED BY <2>1, <2>4, <1>2
<1> QED BY <1>1, <1>2

LEMMA NotPlaced ==
  ASSUME NEW c, NEW D, NEW f, NEW s, NEW lo, Placed(c, D, f, s, lo), NEW m, m \notin D
  PROVE  \A i \in lo+1..Len(s) : s[i] # Own(m) /\ s[i] # ForFamily(m)
<1> SUFFICES ASSUME NEW i \in lo+1..Len(s) PROVE s[i] # Own(m) /\ s[i] # ForFamily(m)
  OBVIOUS
<1>1. PICK k \in D : s[i] = Own(k) \/ s[i] = ForFamily(k)
  BY DEF Placed
<1>2. k # m
  BY <1>1
<1> QED BY <1>1, <1>2, OwnIs

(* One more mixin: where its steps are, and the others. *)
Added(s, t, lo, m, has) ==
  /\ \A i \in lo+1..Len(t) :
       \/ i \in lo+1..Len(s) /\ t[i] = s[i]
       \/ i = Len(s) + 1 /\ t[i] = Own(m)
       \/ has /\ i = Len(s) + 2 /\ t[i] = ForFamily(m)
  /\ \A i \in lo+1..Len(s) : i \in lo+1..Len(t) /\ t[i] = s[i] /\ i <= Len(s)
  /\ Len(s) + 1 \in lo+1..Len(t) /\ t[Len(s)+1] = Own(m)
  /\ has => Len(t) = Len(s) + 2 /\ t[Len(s)+1+1] = ForFamily(m)
  /\ Len(s) \in Nat /\ Len(t) \in Nat /\ Len(s) < Len(t)

Longer(s, t, m, layer, f) == t = s \o StepsOf(m, layer, f)

LEMMA AddedSteps ==
  ASSUME NEW s, IsList(s), NEW lo \in Nat, lo <= Len(s), NEW m, NEW layer, NEW f,
         NEW t, Longer(s, t, m, layer, f)
  PROVE  Added(s, t, lo, m, f \in layer.families) /\ Keeps(s, t)
<1>1. /\ Keeps(s, t) /\ t[Len(s)+1] = Own(m)
      /\ f \in layer.families => Len(t) = Len(s) + 2 /\ t[Len(s)+2] = ForFamily(m)
      /\ f \notin layer.families => Len(t) = Len(s) + 1
  <2>1. Keeps(s, t)
    BY StepsAdded DEF Longer
  <2>2. t[Len(s)+1] = Own(m)
    BY StepsAdded DEF Longer
  <2>3. f \in layer.families => Len(t) = Len(s) + 2 /\ t[Len(s)+2] = ForFamily(m)
    BY StepsAdded DEF Longer
  <2>4. f \notin layer.families => Len(t) = Len(s) + 1
    BY StepsAdded DEF Longer
  <2> QED BY <2>1, <2>2, <2>3, <2>4
<1>2. Len(s) \in Nat /\ Len(t) \in Nat /\ \A i \in 1..Len(s) : t[i] = s[i]
  BY <1>1 DEF Keeps
<1>3. CASE f \in layer.families
  <2>1. Len(t) = Len(s) + 2 /\ t[Len(s)+2] = ForFamily(m)
    BY <1>1, <1>3
  <2>2. \A i \in lo+1..Len(t) : (i \in lo+1..Len(s) /\ i \in 1..Len(s)) \/ i = Len(s) + 1 \/ i = Len(s) + 2
    BY <2>1, <1>2
  <2>3. Len(s) + 1 \in lo+1..Len(t) /\ Len(s)+1+1 = Len(s)+2 /\ Len(s) < Len(t)
    BY <2>1, <1>2
  <2>4. \A i \in lo+1..Len(s) : i \in lo+1..Len(t) /\ i \in 1..Len(s) /\ i <= Len(s)
    BY <2>1, <1>2
  <2> QED BY <2>1, <2>2, <2>3, <2>4, <1>1, <1>2, <1>3 DEF Added
<1>4. CASE f \notin layer.families
  <2>1. Len(t) = Len(s) + 1
    BY <1>1, <1>4
  <2>2. \A i \in lo+1..Len(t) : (i \in lo+1..Len(s) /\ i \in 1..Len(s)) \/ i = Len(s) + 1
    BY <2>1, <1>2
  <2>3. Len(s) + 1 \in lo+1..Len(t) /\ Len(s) < Len(t)
    BY <2>1, <1>2
  <2>4. \A i \in lo+1..Len(s) : i \in lo+1..Len(t) /\ i \in 1..Len(s) /\ i <= Len(s)
    BY <2>1, <1>2
  <2> QED BY <2>1, <2>2, <2>3, <2>4, <1>1, <1>2, <1>4 DEF Added
<1> QED BY <1>3, <1>4

LEMMA BeforeGrows ==
  ASSUME NEW s, NEW t, NEW lo \in Nat, NEW m, NEW has, Added(s, t, lo, m, has),
         NEW a, NEW b, Before(s, lo, a, b), a # m
  PROVE  Before(t, lo, a, b)
<1> SUFFICES ASSUME NEW i \in lo+1..Len(t), NEW j \in lo+1..Len(t), t[i] = Own(a), t[j] = Own(b)
             PROVE  i < j
  BY DEF Before
<1>1. t[i] # Own(m) /\ t[i] # ForFamily(m) /\ t[j] # ForFamily(m)
  BY OwnIs
<1>2. i \in lo+1..Len(s) /\ t[i] = s[i] /\ i <= Len(s)
  BY <1>1 DEF Added
<1>3. CASE j \in lo+1..Len(s) /\ t[j] = s[j]
  BY <1>2, <1>3 DEF Before
<1>4. CASE j = Len(s) + 1
  BY <1>2, <1>4
<1> QED BY <1>1, <1>3, <1>4 DEF Added

LEMMA PlacedGrows ==
  ASSUME NEW c, NEW D, NEW f, NEW s, NEW lo \in Nat, Placed(c, D, f, s, lo),
         NEW m, m \notin D, Mixins(c, m) \subseteq D,
         NEW t, Added(s, t, lo, m, f \in At(c, m).families)
  PROVE  Placed(c, D \cup {m}, f, t, lo)
<1> DEFINE has == f \in At(c, m).families
<1>0. \A i \in lo+1..Len(s) : s[i] # Own(m) /\ s[i] # ForFamily(m)
  BY NotPlaced
<1>1. ASSUME NEW i \in lo+1..Len(t)
      PROVE  \E k \in D \cup {m} : t[i] = Own(k) \/ (f \in At(c, k).families /\ t[i] = ForFamily(k))
  <2>1. CASE i \in lo+1..Len(s) /\ t[i] = s[i]
    BY <2>1 DEF Placed
  <2>2. CASE t[i] = Own(m) \/ (has /\ t[i] = ForFamily(m))
    BY <2>2
  <2> QED BY <2>1, <2>2 DEF Added
<1>2. ASSUME NEW k \in D \cup {m} PROVE \E i \in lo+1..Len(t) : t[i] = Own(k)
  <2>1. CASE k \in D
    BY <2>1, SMTT(60) DEF Placed, Added
  <2>2. CASE k = m
    BY <2>2 DEF Added
  <2> QED BY <2>1, <2>2
<1>3. ASSUME NEW k \in D \cup {m}, NEW i \in lo+1..Len(t), t[i] = Own(k), f \in At(c, k).families
      PROVE  i < Len(t) /\ t[i+1] = ForFamily(k)
  <2>1. t[i] # ForFamily(m)
    BY <1>3, OwnIs
  <2>2. CASE i \in lo+1..Len(s) /\ t[i] = s[i]
    <3>1. k \in D
      BY <1>0, <1>3, <2>2
    <3>2. i < Len(s) /\ s[i+1] = ForFamily(k)
      BY <3>1, <1>3, <2>2 DEF Placed
    <3>3. i + 1 \in lo+1..Len(s) /\ i < Len(t)
      BY <3>2, <2>2 DEF Added
    <3> QED BY <3>2, <3>3 DEF Added
  <2>3. CASE i = Len(s) + 1 /\ t[i] = Own(m)
    <3>1. k = m
      BY <2>3, <1>3, OwnIs
    <3>2. Len(t) = Len(s) + 2 /\ t[Len(s)+1+1] = ForFamily(m) /\ Len(s) \in Nat
      BY <3>1, <1>3 DEF Added
    <3> QED BY <3>1, <3>2, <2>3
  <2> QED BY <2>1, <2>2, <2>3 DEF Added
<1>4. ASSUME NEW i \in lo+1..Len(t), NEW j \in lo+1..Len(t), t[i] = t[j] PROVE i = j
  <2>1. /\ \/ i \in lo+1..Len(s) /\ t[i] = s[i]
           \/ i = Len(s) + 1 /\ t[i] = Own(m)
           \/ i = Len(s) + 2 /\ t[i] = ForFamily(m)
        /\ \/ j \in lo+1..Len(s) /\ t[j] = s[j]
           \/ j = Len(s) + 1 /\ t[j] = Own(m)
           \/ j = Len(s) + 2 /\ t[j] = ForFamily(m)
    BY DEF Added
  <2>2. CASE i \in lo+1..Len(s) /\ t[i] = s[i] /\ j \in lo+1..Len(s) /\ t[j] = s[j]
    BY <2>2, <1>4 DEF Placed
  <2>3. Own(m) # ForFamily(m)
    BY OwnIs
  <2> QED BY <1>0, <1>4, <2>1, <2>2, <2>3
<1>5. ASSUME NEW k \in D \cup {m}
      PROVE  Mixins(c, k) \subseteq D \cup {m} /\ \A y \in Mixins(c, k) : Before(t, lo, y, k)
  <2>1. CASE k \in D
    <3>1. Mixins(c, k) \subseteq D /\ \A y \in Mixins(c, k) : Before(s, lo, y, k)
      BY <2>1 DEF Placed
    <3>2. ASSUME NEW y \in Mixins(c, k) PROVE Before(t, lo, y, k)
      <4>1. y # m /\ Before(s, lo, y, k)
        BY <3>1
      <4> QED BY <4>1, BeforeGrows
    <3> QED BY <3>1, <3>2
  <2>2. CASE k = m
    <3>1. ASSUME NEW y \in Mixins(c, m) PROVE Before(t, lo, y, m)
      <4>1. y # m
        OBVIOUS
      <4>2. Before(s, lo, y, m)
        BY <1>0 DEF Before
      <4> QED BY <4>1, <4>2, BeforeGrows
    <3> QED BY <3>1, <2>2
  <2> QED BY <2>1, <2>2
<1> QED BY <1>1, <1>2, <1>3, <1>4, <1>5 DEF Placed
-----------------------------------------------------------------------------
(* The includes that have been read come in the order in which they are    *)
(* listed, with all that they include.                                     *)
Siblings(c, r, s, lo) ==
  \A m \in DOMAIN r : \A j \in 1..r[m]-1 : \A i \in 1..j-1 :
    \A k \in {Name(c, m, j)} \cup Mixins(c, Name(c, m, j)) : Before(s, lo, Name(c, m, i), k)

LEMMA SiblingsGrow ==
  ASSUME NEW c, NEW r, NEW s, NEW lo \in Nat, Siblings(c, r, s, lo), NEW p, NEW t, NEW has,
         Added(s, t, lo, p, has),
         \A m \in DOMAIN r : \A j \in 1..r[m]-1 : \A i \in 1..j-1 : Name(c, m, i) # p
  PROVE  Siblings(c, r, t, lo)
<1> SUFFICES ASSUME NEW m \in DOMAIN r, NEW j \in 1..r[m]-1, NEW i \in 1..j-1,
                    NEW k \in {Name(c, m, j)} \cup Mixins(c, Name(c, m, j))
             PROVE  Before(t, lo, Name(c, m, i), k)
  BY DEF Siblings
<1> DEFINE x == Name(c, m, i)
<1>1. x # p /\ Before(s, lo, x, k)
  BY DEF Siblings
<1> HIDE DEF x
<1>2. Before(t, lo, x, k)
  BY <1>1, BeforeGrows
<1> QED BY <1>2 DEF x

(* t has included m. *)
Entered(r, q, t, m) ==
  q = [k \in DOMAIN r \cup {m} |-> IF k = m THEN 1 ELSE IF k = t THEN r[t] + 1 ELSE r[k]]

LEMMA SiblingsEnter ==
  ASSUME NEW c, NEW r, NEW s, NEW lo \in Nat, Siblings(c, r, s, lo), NEW D, NEW f,
         Placed(c, D, f, s, lo), NEW t \in DOMAIN r, r[t] \in Nat \ {0},
         NEW m, m = Name(c, t, r[t]), m \notin DOMAIN r, \A k \in {m} \cup Mixins(c, m) : k \notin D,
         NEW q, Entered(r, q, t, m)
  PROVE  Siblings(c, q, s, lo)
<1>1. /\ DOMAIN q = DOMAIN r \cup {m} /\ q[m] = 1 /\ q[t] = r[t] + 1
      /\ \A k \in DOMAIN r \ {t} : q[k] = r[k]
  BY DEF Entered
<1> SUFFICES ASSUME NEW l \in DOMAIN q, NEW j \in 1..q[l]-1, NEW i \in 1..j-1,
                    NEW k \in {Name(c, l, j)} \cup Mixins(c, Name(c, l, j))
             PROVE  Before(s, lo, Name(c, l, i), k)
  BY DEF Siblings
<1>2. l # m /\ l \in DOMAIN r
  <2>1. 1..1-1 = {}
    OBVIOUS
  <2> QED BY <2>1, <1>1
<1>3. CASE l = t /\ j = r[t]
  <2>1. k \notin D
    BY <1>3
  <2> QED BY <2>1, NotPlaced DEF Before
<1>4. CASE ~(l = t /\ j = r[t])
  <2>1. j \in 1..r[l]-1
    BY <1>1, <1>2, <1>4
  <2> QED BY <2>1, <1>2 DEF Siblings
<1> QED BY <1>3, <1>4

(* What is included next, and everything it includes, is new.              *)
LEMMA FreshMixins ==
  ASSUME NEW c, WellFormed(c), NEW n, NotAMixin(At(c, n)), NEW s, NEW r, Visit(c, n, s, r),
         Faulty(c, n) = {}, NEW t, t = s[Len(s)], r[t] <= Count(c, t),
         NEW m, m = Name(c, t, r[t]), m \notin DOMAIN r \ {n}
  PROVE  \A k \in {m} \cup Mixins(c, m) : k \notin DOMAIN r
<1> DEFINE S == {k \in {m} \cup Mixins(c, m) : k \notin DOMAIN r}
<1>0. Met(c, n, r) /\ ReadOnce(c, n, r) /\ Stacked(c, n, s, r)
  BY DEF Visit
<1>1. t \in DOMAIN r /\ Here(c, t) /\ Count(c, t) \in Nat /\ r[t] \in 1..Count(c, t)
  <2>1. t \in DOMAIN r
    BY <1>0, OpenFacts
  <2>2. Here(c, t) /\ r[t] \in 1..Count(c, t)+1
    BY <2>1, <1>0 DEF Met
  <2>3. Count(c, t) \in Nat
    BY <2>2, IncludesAre
  <2> QED BY <2>1, <2>2, <2>3
<1>2. t \in {n} \cup Mixins(c, n) /\ m \in Listed(c, t)
  BY <1>0, <1>1, IncludesAre DEF Met
<1>3. {m} \cup Mixins(c, m) \subseteq Mixins(c, n)
  BY <1>2, MixinsOfListed, MixinsOfMixins
<1>4. \A k \in Mixins(c, n) : Here(c, k) /\ ~NotAMixin(At(c, k)) /\ k # n
  BY NoFaultMeans
<1>5. m \notin DOMAIN r
  BY <1>3, <1>4
(* A mixin that has been met is named by an include that has been read.    *)
<1>6. ASSUME NEW l \in Mixins(c, n), l \notin DOMAIN r, NEW a \in Listed(c, l), a \in DOMAIN r
      PROVE  FALSE
  <2>1. a \in Mixins(c, n) /\ a # n /\ Here(c, l)
    BY <1>4, <1>6, MixinsOfListed, MixinsOfMixins
  <2>2. PICK i \in 1..Count(c, l) : a = Name(c, l, i)
    BY <2>1, <1>6, IncludesAre
  <2>3. PICK k \in DOMAIN r : \E j \in 1..r[k]-1 : Name(c, k, j) = a
    BY <2>1, <1>6, <1>0 DEF ReadOnce
  <2>4. PICK j \in 1..r[k]-1 : Name(c, k, j) = a
    BY <2>3
  <2>5. Here(c, k) /\ k \in {n} \cup Mixins(c, n) /\ r[k] \in 1..Count(c, k)+1
    BY <1>0 DEF Met
  <2>6. Count(c, k) \in Nat
    BY <2>5, IncludesAre
  <2>7. j \in 1..Count(c, k)
    BY <2>5, <2>6
  <2>8. /\ <<k, j>> \in Mentions(c, n) /\ Named(c, <<k, j>>) = a
        /\ <<l, i>> \in Mentions(c, n) /\ Named(c, <<l, i>>) = a
    BY <2>1, <2>2, <2>4, <2>5, <2>7, MentionsAre
  <2>9. <<k, j>> = <<l, i>>
    BY <2>8, NoFaultMeans
  <2> QED BY <2>9, <1>6
<1>7. /\ S \subseteq Mixins(c, n) /\ Listed(c, m) \subseteq Mixins(c, m)
      /\ \A k \in Mixins(c, m) : Listed(c, k) \subseteq Mixins(c, m)
  BY <1>3, MixinsHold
<1>8. Listed(c, m) \subseteq S
  BY <1>3, <1>5, <1>6, <1>7
<1>9. \A k \in S : k \in Mixins(c, m) => Listed(c, k) \subseteq S
  BY <1>3, <1>6, <1>7
<1> HIDE DEF S
<1>10. Mixins(c, m) \subseteq S
  BY <1>8, <1>9, MixinsLeast
<1> QED BY <1>5, <1>10 DEF S

(* The include that the innermost mixin is there for is the last that has  *)
(* been read of its mixin.                                                 *)
LEMMA InnermostIsLast ==
  ASSUME NEW c, NEW n, NEW s, NEW r, Visit(c, n, s, r), Len(s) > 1, NEW p, p = s[Len(s)]
  PROVE  \A m \in DOMAIN r : \A j \in 1..r[m]-1 : \A i \in 1..j-1 : Name(c, m, i) # p
<1> SUFFICES ASSUME NEW m \in DOMAIN r, NEW j \in 1..r[m]-1, NEW i \in 1..j-1, Name(c, m, i) = p
             PROVE  FALSE
  OBVIOUS
<1>0. Met(c, n, r) /\ ReadOnce(c, n, r) /\ Stacked(c, n, s, r)
  BY DEF Visit
<1>1. PICK k \in 1..Len(s)-1 : k + 1 = Len(s)
  BY <1>0, OpenFacts
<1> DEFINE q == s[k]
<1>2. r[q] > 1 /\ p = Name(c, q, r[q] - 1)
  BY <1>0, <1>1 DEF Stacked
<1>3. q \in DOMAIN r
  <2>1. k \in 1..Len(s)
    BY <1>1, <1>0, OpenFacts
  <2> QED BY <2>1, <1>0 DEF Stacked
<1> HIDE DEF q
<1>4. \A x \in DOMAIN r : Here(c, x) /\ r[x] \in Nat
  <2> SUFFICES ASSUME NEW x \in DOMAIN r PROVE Here(c, x) /\ r[x] \in Nat
    OBVIOUS
  <2>1. r[x] \in 1..Count(c, x)+1 /\ Here(c, x)
    BY <1>0 DEF Met
  <2> QED BY <2>1
<1>5. i \in 1..r[m]-1 /\ i # r[m] - 1
  BY <1>4
<1>6. r[q] - 1 \in 1..r[q]-1
  BY <1>2, <1>3, <1>4
<1>7. m = q /\ i = r[q] - 1
  BY <1>0, <1>2, <1>3, <1>5, <1>6 DEF ReadOnce
<1> QED BY <1>5, <1>7

LEMMA WindowIs ==
  ASSUME NEW s, IsList(s), NEW lo \in Nat, lo <= Len(s), NEW u, u = SubSeq(s, lo+1, Len(s))
  PROVE  /\ Len(u) = Len(s) - lo /\ Len(u) \in Nat /\ DOMAIN u = 1..Len(u) /\ Len(s) \in Nat
         /\ \A i \in 1..Len(u) : lo + i \in lo+1..Len(s) /\ u[i] = s[lo+i]
         /\ \A a \in lo+1..Len(s) : \E i \in 1..Len(u) : lo + i = a /\ u[i] = s[a]
<1> DEFINE S == {s[i] : i \in DOMAIN s}
           v == SubSeq(s, lo+1, Len(s))
<1>1. Len(s) \in Nat /\ DOMAIN s = 1..Len(s)
  BY ListFacts
<1>2. \A i \in lo+1..Len(s) : s[i] \in S
  BY <1>1
<1>3. lo + 1 \in Int /\ Len(s) \in Int
  BY <1>1
<1> HIDE DEF S
<1>4. /\ v \in Seq(S) /\ Len(v) = (IF lo+1 <= Len(s) THEN Len(s)-(lo+1)+1 ELSE 0)
      /\ \A i \in 1..Len(s)-(lo+1)+1 : v[i] = s[lo+1+i-1]
  BY <1>2, <1>3, SubSeqProperties
<1> HIDE DEF v
<1>5. Len(v) = Len(s) - lo /\ Len(v) \in Nat /\ DOMAIN v = 1..Len(v)
  <2>1. Len(v) \in Nat /\ DOMAIN v = 1..Len(v)
    BY <1>4
  <2>2. CASE lo + 1 <= Len(s)
    BY <2>1, <2>2, <1>1, <1>4
  <2>3. CASE ~(lo + 1 <= Len(s))
    <3>a. \A a, b \in Nat : a <= b /\ ~(a + 1 <= b) => a = b
      OBVIOUS
    <3>1. lo = Len(s)
      BY <2>3, <1>1, <3>a
    <3>2. Len(v) = 0
      BY <2>3, <1>4
    <3>3. Len(s) - lo = 0
      BY <3>1, <1>1
    <3> QED BY <2>1, <3>2, <3>3
  <2> QED BY <2>2, <2>3
<1>6. ASSUME NEW i \in 1..Len(v) PROVE lo + i \in lo+1..Len(s) /\ v[i] = s[lo+i]
  <2>1. i \in 1..Len(s)-(lo+1)+1 /\ lo+1+i-1 = lo+i
    BY <1>1, <1>5
  <2>2. lo + i \in lo+1..Len(s)
    BY <1>1, <1>5
  <2>3. v[i] = s[lo+1+i-1]
    BY <2>1, <1>4
  <2> QED BY <2>1, <2>2, <2>3
<1>7. ASSUME NEW a \in lo+1..Len(s) PROVE \E i \in 1..Len(v) : lo + i = a /\ v[i] = s[a]
  <2>1. a - lo \in 1..Len(v) /\ lo + (a - lo) = a
    BY <1>1, <1>5
  <2> QED BY <2>1, <1>6
<1>8. u = v
  BY DEF v
<1> QED BY <1>1, <1>5, <1>6, <1>7, <1>8

LEMMA WindowInOrder ==
  ASSUME NEW c, WellFormed(c), NEW n, Here(c, n), NEW s, IsList(s), NEW lo \in Nat, lo <= Len(s),
         Placed(c, Mixins(c, n), FamilyAt(c, n), s, lo), NEW r, Siblings(c, r, s, lo),
         \A m \in {n} \cup Mixins(c, n) : Here(c, m) /\ m \in DOMAIN r /\ r[m] = Count(c, m) + 1,
         NEW u, u = SubSeq(s, lo+1, Len(s))
  PROVE  InOrder(c, n, u)
<1> DEFINE f == FamilyAt(c, n)
           D == Mixins(c, n)
           family == {m \in D : f \in At(c, m).families}
           precedes(a, b) == \A i, j \in DOMAIN u : u[i] = Own(a) /\ u[j] = Own(b) => i < j
<1>1. /\ Len(u) = Len(s) - lo /\ Len(u) \in Nat /\ DOMAIN u = 1..Len(u) /\ Len(s) \in Nat
      /\ \A i \in 1..Len(u) : lo + i \in lo+1..Len(s) /\ u[i] = s[lo+i]
      /\ \A a \in lo+1..Len(s) : \E i \in 1..Len(u) : lo + i = a /\ u[i] = s[a]
  BY WindowIs
<1>2. /\ \A i \in lo+1..Len(s) : \E m \in D :
           s[i] = Own(m) \/ (f \in At(c, m).families /\ s[i] = ForFamily(m))
      /\ \A m \in D : \E i \in lo+1..Len(s) : s[i] = Own(m)
      /\ \A m \in D : \A i \in lo+1..Len(s) :
           s[i] = Own(m) /\ f \in At(c, m).families => i < Len(s) /\ s[i+1] = ForFamily(m)
      /\ \A i, j \in lo+1..Len(s) : s[i] = s[j] => i = j
      /\ \A m \in D : \A y \in Mixins(c, m) : Before(s, lo, y, m)
  BY DEF Placed
<1> HIDE DEF f, D
<1>3. ASSUME NEW a, NEW b, Before(s, lo, a, b) PROVE precedes(a, b)
  <2> SUFFICES ASSUME NEW i \in DOMAIN u, NEW j \in DOMAIN u, u[i] = Own(a), u[j] = Own(b) PROVE i < j
    OBVIOUS
  <2>1. lo + i \in lo+1..Len(s) /\ s[lo+i] = Own(a) /\ lo + j \in lo+1..Len(s) /\ s[lo+j] = Own(b)
    BY <1>1
  <2>2. lo + i < lo + j
    BY <2>1, <1>3 DEF Before
  <2> QED BY <2>2, <1>1
<1>4. ASSUME NEW m \in family, NEW i \in DOMAIN u, u[i] = Own(m)
      PROVE  i < Len(u) /\ u[i+1] = ForFamily(m)
  <2>1. lo + i \in lo+1..Len(s) /\ s[lo+i] = Own(m) /\ i \in 1..Len(u)
    BY <1>1, <1>4
  <2>2. lo + i < Len(s) /\ s[lo+i+1] = ForFamily(m)
    BY <2>1, <1>2
  <2>3. i < Len(u) /\ i + 1 \in 1..Len(u) /\ lo + (i + 1) = lo + i + 1
    BY <2>1, <2>2, <1>1
  <2>4. u[i+1] = s[lo+(i+1)]
    BY <2>3, <1>1
  <2> QED BY <2>2, <2>3, <2>4
<1>5. ToSet(u) = {Own(m) : m \in D} \cup {ForFamily(m) : m \in family}
  <2>1. ASSUME NEW i \in 1..Len(u) PROVE u[i] \in {Own(m) : m \in D} \cup {ForFamily(m) : m \in family}
    <3> DEFINE a == lo + i
    <3>0. a \in lo+1..Len(s) /\ u[i] = s[a]
      BY <1>1
    <3> HIDE DEF a
    <3>1. PICK m \in D : s[a] = Own(m) \/ (f \in At(c, m).families /\ s[a] = ForFamily(m))
      BY <3>0, <1>2
    <3>2. m \in D /\ (u[i] = Own(m) \/ (f \in At(c, m).families /\ u[i] = ForFamily(m)))
      BY <3>0, <3>1
    <3>3. CASE u[i] = Own(m)
      BY <3>3
    <3>4. CASE f \in At(c, m).families /\ u[i] = ForFamily(m)
      <4>1. m \in family
        BY <3>2, <3>4
      <4> QED BY <3>4, <4>1
    <3> QED BY <3>2, <3>3, <3>4
  <2>2. ASSUME NEW m \in D PROVE \E i \in 1..Len(u) : u[i] = Own(m)
    <3>1. PICK a \in lo+1..Len(s) : s[a] = Own(m)
      BY <1>2
    <3>2. PICK i \in 1..Len(u) : lo + i = a /\ u[i] = s[a]
      BY <1>1
    <3> QED BY <3>1, <3>2
  <2>3. ASSUME NEW m \in family PROVE \E i \in 1..Len(u) : u[i] = ForFamily(m)
    <3>1. PICK i \in 1..Len(u) : u[i] = Own(m)
      BY <2>2
    <3>2. i < Len(u) /\ u[i+1] = ForFamily(m)
      BY <3>1, <1>1, <1>4
    <3>3. i + 1 \in 1..Len(u)
      BY <3>2, <1>1
    <3> QED BY <3>2, <3>3
  <2>4. ToSet(u) = {u[i] : i \in 1..Len(u)}
    BY <1>1 DEF ToSet
  <2> DEFINE T == {Own(m) : m \in D} \cup {ForFamily(m) : m \in family}
  <2>5. ASSUME NEW e \in ToSet(u) PROVE e \in T
    BY <2>1, <2>4
  <2>6. ASSUME NEW e \in T PROVE e \in ToSet(u)
    <3> HIDE DEF family
    <3>1. CASE e \in {Own(m) : m \in D}
      BY <3>1, <2>2, <2>4
    <3>2. CASE e \in {ForFamily(m) : m \in family}
      BY <3>2, <2>3, <2>4
    <3> QED BY <3>1, <3>2
  <2> HIDE DEF T
  <2>7. ToSet(u) = T
    BY <2>5, <2>6
  <2> QED BY <2>7 DEF T
<1>6. ASSUME NEW i \in DOMAIN u, NEW j \in DOMAIN u, u[i] = u[j] PROVE i = j
  <2>1. lo + i \in lo+1..Len(s) /\ lo + j \in lo+1..Len(s) /\ s[lo+i] = s[lo+j]
    BY <1>1, <1>6
  <2>2. lo + i = lo + j
    BY <2>1, <1>2
  <2> QED BY <2>2, <1>1
<1>7. \A m \in D : \A k \in Mixins(c, m) : precedes(k, m)
  BY <1>2, <1>3
<1>8. ASSUME NEW m \in {n} \cup D, NEW i \in DOMAIN At(c, m).include,
             NEW j \in DOMAIN At(c, m).include, i < j
      PROVE  LET b == At(c, m).include[j]
             IN \A k \in {b} \cup Mixins(c, b) : precedes(At(c, m).include[i], k)
  <2>1. Here(c, m) /\ m \in DOMAIN r /\ r[m] = Count(c, m) + 1
    BY DEF D
  <2>2. DOMAIN At(c, m).include = 1..Count(c, m) /\ Count(c, m) \in Nat
    <3> DEFINE list == At(c, m).include
    <3>1. IsList(list)
      BY <2>1, AtIs DEF IsLayer
    <3>2. DOMAIN list = 1..Len(list) /\ Len(list) \in Nat
      BY <3>1, ListFacts
    <3> QED BY <3>2 DEF Count
  <2>3. j \in 1..r[m]-1 /\ i \in 1..j-1
    BY <2>1, <2>2, <1>8
  <2>4. \A k \in {Name(c, m, j)} \cup Mixins(c, Name(c, m, j)) : Before(s, lo, Name(c, m, i), k)
    BY <2>1, <2>3 DEF Siblings
  <2>5. \A k \in {Name(c, m, j)} \cup Mixins(c, Name(c, m, j)) : precedes(Name(c, m, i), k)
    BY <2>4, <1>3
  <2> QED BY <2>5 DEF Name
<1>9. InOrder(c, n, u) <=>
        /\ ToSet(u) = {Own(m) : m \in D} \cup {ForFamily(m) : m \in family}
        /\ \A i, j \in DOMAIN u : u[i] = u[j] => i = j
        /\ \A i \in DOMAIN u : \A m \in family : u[i] = Own(m) => i < Len(u) /\ u[i+1] = ForFamily(m)
        /\ \A m \in D : \A k \in Mixins(c, m) : precedes(k, m)
        /\ \A m \in {n} \cup D : \A i, j \in DOMAIN At(c, m).include :
             i < j => LET b == At(c, m).include[j]
                      IN \A k \in {b} \cup Mixins(c, b) : precedes(At(c, m).include[i], k)
  BY Zenon DEF InOrder, f, D
<1> HIDE DEF precedes, family
<1> QED BY <1>4, <1>5, <1>6, <1>7, <1>8, <1>9

Filling(c, st, r, f, steps, lo) ==
  Placed(c, DOMAIN r \ Open(st), f, steps, lo) /\ Siblings(c, r, steps, lo)

LEMMA FillingStarts ==
  ASSUME NEW c, NEW f, NEW s, Len(s) \in Nat, NEW n, NEW r, r = [m \in {n} |-> 1],
         NEW st, DOMAIN r \ Open(st) = {}
  PROVE  Filling(c, st, r, f, s, Len(s))
<1>1. Len(s)+1..Len(s) = {}
  OBVIOUS
<1>2. Placed(c, {}, f, s, Len(s))
  BY <1>1 DEF Placed
<1>3. Siblings(c, r, s, Len(s))
  BY <1>1 DEF Siblings, Before
<1> QED BY <1>2, <1>3 DEF Filling

(* The layers s[l+1] to the last have taken their own steps, at pos.       *)
Laid(c, s, l, steps, pos) ==
  /\ pos[Len(s)+1] = 0
  /\ \A j \in l+1..Len(s)+1 : pos[j] \in 0..Len(steps)
  /\ \A j \in l+1..Len(s) :
       pos[j+1] < pos[j] /\ InOrder(c, s[j], SubSeq(steps, pos[j+1] + 1, pos[j] - 1))
  /\ \A j \in l+1..Len(s) : \A i \in 1..Len(steps) : steps[i] = Own(s[j]) <=> i = pos[j]
  /\ \A j \in 1..l : \A i \in 1..Len(steps) : steps[i] # Own(s[j])

LEMMA LaidStarts ==
  ASSUME NEW c, NEW s, Len(s) \in Nat
  PROVE  Laid(c, s, Len(s), <<>>, [j \in Nat |-> 0])
<1>1. Len(s)+1..Len(s) = {} /\ Len(s) + 1 \in Nat /\ Len(<<>>) = 0 /\ 1..0 = {}
  OBVIOUS
<1>2. \A j \in Len(s)+1..Len(s)+1 : j \in Nat
  OBVIOUS
<1>3. \A j \in Nat : [k \in Nat |-> 0][j] = 0
  OBVIOUS
<1> QED BY <1>1, <1>2, <1>3 DEF Laid

LEMMA SameWindows ==
  ASSUME NEW s, NEW t, Keeps(s, t)
  PROVE  \A a \in Nat \ {0} : \A b \in Nat : b <= Len(s) => SubSeq(t, a, b) = SubSeq(s, a, b)
BY SameWindow

LEMMA LaidKeeps ==
  ASSUME NEW c, NEW s, Len(s) \in Nat, NEW l \in 0..Len(s), NEW steps, NEW t, Keeps(steps, t),
         NEW pos, Laid(c, s, l, steps, pos),
         \A i \in Len(steps)+1..Len(t) : \A j \in 1..Len(s) : t[i] # Own(s[j])
  PROVE  Laid(c, s, l, t, pos)
<1>0. /\ Len(steps) \in Nat /\ Len(t) \in Nat /\ Len(steps) <= Len(t)
      /\ \A i \in 1..Len(steps) : t[i] = steps[i] /\ i \in 1..Len(t)
      /\ \A i \in 1..Len(t) : i \in 1..Len(steps) \/ i \in Len(steps)+1..Len(t)
  BY DEF Keeps
<1>a. \A a \in Nat \ {0} : \A b \in Nat : b <= Len(steps) => SubSeq(t, a, b) = SubSeq(steps, a, b)
  BY SameWindows
<1>1. \A j \in l+1..Len(s)+1 : pos[j] \in 0..Len(steps) /\ pos[j] \in 0..Len(t)
  BY <1>0 DEF Laid
<1>2. ASSUME NEW j \in l+1..Len(s)
      PROVE  pos[j+1] < pos[j] /\ InOrder(c, s[j], SubSeq(t, pos[j+1] + 1, pos[j] - 1))
  <2>1. pos[j+1] < pos[j] /\ InOrder(c, s[j], SubSeq(steps, pos[j+1] + 1, pos[j] - 1))
    BY DEF Laid
  <2>2. j \in l+1..Len(s)+1 /\ j + 1 \in l+1..Len(s)+1
    OBVIOUS
  <2> DEFINE a == pos[j+1]
             b == pos[j]
  <2>3. a \in Nat /\ b \in Nat /\ b <= Len(steps) /\ a < b
    BY <2>1, <2>2, <1>0, <1>1
  <2> HIDE DEF a, b
  <2>4. a + 1 \in Nat \ {0} /\ b - 1 \in Nat /\ b - 1 <= Len(steps)
    BY <2>3, <1>0
  <2>5. SubSeq(t, a + 1, b - 1) = SubSeq(steps, a + 1, b - 1)
    BY <2>4, <1>a
  <2> QED BY <2>1, <2>5 DEF a, b
<1>3. ASSUME NEW j \in l+1..Len(s), NEW i \in 1..Len(t) PROVE t[i] = Own(s[j]) <=> i = pos[j]
  <2>1. j \in 1..Len(s) /\ j \in l+1..Len(s)+1
    OBVIOUS
  <2>2. CASE i \in 1..Len(steps)
    BY <2>2, <1>0 DEF Laid
  <2>3. CASE i \in Len(steps)+1..Len(t)
    <3>1. t[i] # Own(s[j])
      BY <2>1, <2>3
    <3>2. i # pos[j]
      BY <2>1, <2>3, <1>0, <1>1
    <3> QED BY <3>1, <3>2
  <2> QED BY <2>2, <2>3, <1>0
<1>4. ASSUME NEW j \in 1..l, NEW i \in 1..Len(t) PROVE t[i] # Own(s[j])
  <2>1. j \in 1..Len(s)
    OBVIOUS
  <2> QED BY <2>1, <1>0 DEF Laid
<1> QED BY <1>1, <1>2, <1>3, <1>4 DEF Laid

(* The next layer takes its own.                                           *)
Takes(steps, t, n) == t = Append(steps, Own(n))
Extends(p, q, l, h, n) == q = [j \in l..h |-> IF j = l THEN n ELSE p[j]]

LEMMA LaidNext ==
  ASSUME NEW c, NEW s, Len(s) \in Nat, NEW l \in 1..Len(s), \A i, j \in 1..Len(s) : s[i] = s[j] => i = j,
         NEW steps, IsList(steps), NEW pos, Laid(c, s, l, steps, pos),
         InOrder(c, s[l], SubSeq(steps, pos[l+1] + 1, Len(steps))),
         NEW t, Takes(steps, t, s[l]), NEW q, Extends(pos, q, l, Len(s) + 1, Len(steps) + 1)
  PROVE  Laid(c, s, l-1, t, q) /\ q[l] = Len(t) /\ IsList(t)
<1>0. Keeps(steps, t) /\ Len(t) = Len(steps) + 1 /\ t[Len(steps)+1] = Own(s[l])
  <2> DEFINE x == Own(s[l])
  <2>1. t = Append(steps, x)
    BY DEF Takes
  <2> HIDE DEF x
  <2>2. Keeps(steps, t) /\ Len(t) = Len(steps) + 1 /\ t[Len(steps)+1] = x
    BY <2>1, KeepsAppend
  <2> QED BY <2>2 DEF x
<1>1. /\ Len(steps) \in Nat /\ \A i \in 1..Len(steps) : t[i] = steps[i] /\ i # Len(steps) + 1
      /\ \A i \in 1..Len(t) : i \in 1..Len(steps) \/ i = Len(steps) + 1
      /\ IsList(t)
  <2>1. Len(steps) \in Nat /\ (\A i \in 1..Len(steps) : t[i] = steps[i]) /\ IsList(t)
    BY <1>0 DEF Keeps
  <2>2. Len(t) = Len(steps) + 1
    BY <1>0
  <2>3. /\ \A i \in 1..Len(steps) : i # Len(steps) + 1
        /\ \A i \in 1..Len(t) : i \in 1..Len(steps) \/ i = Len(steps) + 1
    <3>1. \A n \in Nat : (\A i \in 1..n : i # n + 1) /\ \A i \in 1..n+1 : i \in 1..n \/ i = n + 1
      OBVIOUS
    <3> QED BY <3>1, <2>1, <2>2
  <2> QED BY <2>1, <2>3
<1>a. \A a \in Nat \ {0} : \A b \in Nat : b <= Len(steps) => SubSeq(t, a, b) = SubSeq(steps, a, b)
  <2>1. Keeps(steps, t)
    BY <1>0
  <2> QED BY <2>1, SameWindows
<1>b. Len(steps) \in Nat /\ Len(steps) <= Len(steps)
  BY <1>1
<1>2. /\ q[l] = Len(steps) + 1 /\ \A j \in l+1..Len(s)+1 : q[j] = pos[j]
      /\ Len(s) + 1 \in l+1..Len(s)+1 /\ l + 1 \in l+1..Len(s)+1
  BY DEF Extends
<1>3. \A j \in l-1+1..Len(s)+1 : j = l \/ j \in l+1..Len(s)+1
  OBVIOUS
<1>4. \A j \in l-1+1..Len(s) : j = l \/ (j \in l+1..Len(s) /\ j + 1 \in l+1..Len(s)+1 /\ j \in l+1..Len(s)+1)
  OBVIOUS
<1>5. \A j \in l+1..Len(s)+1 : pos[j] \in 0..Len(steps)
  BY DEF Laid
<1>6. q[Len(s)+1] = 0
  BY <1>2 DEF Laid
<1>7. \A j \in l-1+1..Len(s)+1 : q[j] \in 0..Len(t)
  BY <1>0, <1>1, <1>2, <1>3, <1>5
<1> DEFINE here(j) == q[j+1] < q[j] /\ InOrder(c, s[j], SubSeq(t, q[j+1] + 1, q[j] - 1))
<1>8. here(l)
  <2> DEFINE a == pos[l+1]
  <2>1. a \in 0..Len(steps)
    BY <1>2, <1>5
  <2>2. q[l+1] = a /\ q[l] - 1 = Len(steps)
    BY <1>1, <1>2
  <2>a. InOrder(c, s[l], SubSeq(steps, a + 1, Len(steps)))
    OBVIOUS
  <2> HIDE DEF a
  <2>3. a + 1 \in Nat \ {0}
    BY <2>1
  <2>4. SubSeq(t, a + 1, Len(steps)) = SubSeq(steps, a + 1, Len(steps))
    BY <2>3, <1>a, <1>b
  <2>5. a < q[l]
    BY <2>1, <1>1, <1>2
  <2> QED BY <2>2, <2>a, <2>4, <2>5
<1>9. ASSUME NEW j \in l+1..Len(s), j + 1 \in l+1..Len(s)+1, j \in l+1..Len(s)+1 PROVE here(j)
  <2> DEFINE a == pos[j+1]
             b == pos[j]
  <2>1. q[j+1] = a /\ q[j] = b
    BY <1>2, <1>9
  <2>2. a < b /\ InOrder(c, s[j], SubSeq(steps, a + 1, b - 1))
    BY DEF Laid
  <2>3. a \in 0..Len(steps) /\ b \in 0..Len(steps)
    BY <1>5, <1>9
  <2> HIDE DEF a, b
  <2>4. a + 1 \in Nat \ {0} /\ b - 1 \in Nat /\ b - 1 <= Len(steps)
    BY <2>2, <2>3, <1>1
  <2>5. SubSeq(t, a + 1, b - 1) = SubSeq(steps, a + 1, b - 1)
    BY <2>4, <1>a
  <2> QED BY <2>1, <2>2, <2>5
<1>10. \A j \in l-1+1..Len(s) : here(j)
  <2> HIDE DEF here
  <2> QED BY <1>4, <1>8, <1>9
<1>11. ASSUME NEW j \in l-1+1..Len(s), NEW i \in 1..Len(t) PROVE t[i] = Own(s[j]) <=> i = q[j]
  <2>1. l \in 1..Len(s) /\ j \in 1..Len(s)
    OBVIOUS
  <2>2. CASE j = l
    <3>1. l \in 1..l
      OBVIOUS
    <3>2. \A k \in 1..Len(steps) : steps[k] # Own(s[l])
      BY <3>1 DEF Laid
    <3> QED BY <3>2, <2>2, <1>0, <1>1, <1>2
  <2>3. CASE j \in l+1..Len(s) /\ j \in l+1..Len(s)+1
    <3>1. q[j] = pos[j] /\ pos[j] \in 0..Len(steps)
      BY <2>3, <1>2, <1>5
    <3>2. CASE i \in 1..Len(steps)
      <4>1. steps[i] = Own(s[j]) <=> i = pos[j]
        BY <2>3, <3>2 DEF Laid
      <4> QED BY <3>1, <3>2, <4>1, <1>1
    <3>3. CASE i = Len(steps) + 1
      <4>1. j # l
        BY <2>3
      <4>2. s[j] # s[l]
        BY <4>1, <2>1
      <4>3. t[i] # Own(s[j])
        BY <4>2, <3>3, <1>0, OwnIs
      <4>4. i # q[j]
        BY <3>1, <3>3, <1>1
      <4> QED BY <4>3, <4>4
    <3> QED BY <3>2, <3>3, <1>1
  <2> QED BY <2>2, <2>3, <1>4
<1>12. ASSUME NEW j \in 1..l-1, NEW i \in 1..Len(t) PROVE t[i] # Own(s[j])
  <2>1. j \in 1..l /\ j # l /\ j \in 1..Len(s) /\ l \in 1..Len(s)
    OBVIOUS
  <2>2. s[j] # s[l]
    BY <2>1
  <2>3. CASE i \in 1..Len(steps)
    BY <2>1, <2>3, <1>1 DEF Laid
  <2>4. CASE i = Len(steps) + 1
    BY <2>2, <2>4, <1>0, OwnIs
  <2> QED BY <2>3, <2>4, <1>1
<1>13. q[l] = Len(t)
  BY <1>0, <1>2
<1> QED BY <1>1, <1>6, <1>7, <1>10, <1>11, <1>12, <1>13 DEF Laid

(* What has been laid out when layer s[l] is being applied (busy), or has  *)
(* been: s[l+1].                                                           *)
LaidOut(c, s, l, busy, st, r, f, steps) ==
  /\ IsList(steps)
  /\ \E pos : /\ Laid(c, s, l, steps, pos)
              /\ ~busy => pos[l+1] = Len(steps)
              /\ busy /\ Faulty(c, s[l]) = {} => Filling(c, st, r, f, steps, pos[l+1])

LEMMA StartsLayer ==
  ASSUME NEW c, NEW s, Len(s) \in Nat, NEW l \in 1..Len(s), NEW steps, IsList(steps), NEW pos,
         Laid(c, s, l, steps, pos), pos[l+1] = Len(steps),
         NEW r, r = [m \in {s[l]} |-> 1], NEW st, DOMAIN r \ Open(st) = {}, NEW f
  PROVE  LaidOut(c, s, l, TRUE, st, r, f, steps)
<1>1. Len(steps) \in Nat
  BY ListFacts
<1>2. Filling(c, st, r, f, steps, Len(steps))
  BY <1>1, FillingStarts
<1> QED BY <1>2 DEF LaidOut

LEMMA IncludesInOrder ==
  ASSUME NEW c, WellFormed(c), NEW s, NEW l \in Nat, NotAMixin(At(c, s[l])), NEW st, NEW r, NEW f, NEW steps,
         LaidOut(c, s, l, TRUE, st, r, f, steps), Visit(c, s[l], st, r),
         l + 1 \in l+1..Len(s)+1,
         NEW t, t = st[Len(st)], r[t] <= Count(c, t),
         NEW m, m = Name(c, t, r[t]), m \notin DOMAIN r \ {s[l]},
         NEW q, Entered(r, q, t, m),
         NEW u, DOMAIN q \ Open(u) = DOMAIN r \ Open(st)
  PROVE  LaidOut(c, s, l, TRUE, u, q, f, steps)
<1>1. PICK pos : /\ Laid(c, s, l, steps, pos)
                 /\ Faulty(c, s[l]) = {} => Filling(c, st, r, f, steps, pos[l+1])
  BY DEF LaidOut
<1>2. ASSUME Faulty(c, s[l]) = {} PROVE Filling(c, u, q, f, steps, pos[l+1])
  <2> DEFINE lo == pos[l+1]
             n == s[l]
             D == DOMAIN r \ Open(st)
  <2>1. Placed(c, D, f, steps, lo) /\ Siblings(c, r, steps, lo)
    BY <1>1, <1>2 DEF Filling
  <2>2. lo \in Nat
    BY <1>1 DEF Laid
  <2>3. NotAMixin(At(c, n)) /\ Visit(c, n, st, r) /\ Faulty(c, n) = {} /\ m \notin DOMAIN r \ {n}
    BY <1>2
  <2>a. DOMAIN q \ Open(u) = D
    OBVIOUS
  <2> HIDE DEF lo, n
  <2>4. \A k \in {m} \cup Mixins(c, m) : k \notin DOMAIN r
    BY <2>3, FreshMixins
  <2>5. m \notin DOMAIN r /\ \A k \in {m} \cup Mixins(c, m) : k \notin D
    BY <2>4
  <2>6. t \in DOMAIN r /\ r[t] \in Nat \ {0}
    <3>1. t \in DOMAIN r
      BY <2>3, OpenFacts DEF Visit
    <3>2. r[t] \in 1..Count(c, t)+1
      BY <3>1, <2>3 DEF Visit, Met
    <3> QED BY <3>1, <3>2
  <2> HIDE DEF D
  <2>7. Siblings(c, q, steps, lo)
    BY <2>1, <2>2, <2>5, <2>6, SiblingsEnter
  <2> QED BY <2>1, <2>7, <2>a DEF Filling, lo
<1> QED BY <1>1, <1>2 DEF LaidOut

LEMMA ContributesInOrder ==
  ASSUME NEW c, WellFormed(c), NEW s, Rooted(c, s), NEW l \in 1..Len(s), NEW st, NEW r, NEW f, NEW steps,
         LaidOut(c, s, l, TRUE, st, r, f, steps), Visit(c, s[l], st, r), Len(st) > 1,
         NEW m, m = st[Len(st)], r[m] > Count(c, m),
         NEW u, DOMAIN r \ Open(u) = (DOMAIN r \ Open(st)) \cup {m},
         NEW t, Longer(steps, t, m, At(c, m), f)
  PROVE  LaidOut(c, s, l, TRUE, u, r, f, t)
<1> DEFINE n == s[l]
           D == DOMAIN r \ Open(st)
           has == f \in At(c, m).families
<1>0. IsList(steps) /\ Len(s) \in Nat /\ l + 1 \in l+1..Len(s)+1 /\ l \in 0..Len(s)
  <2>1. Len(s) \in Nat
    BY DEF Rooted, Chained
  <2> QED BY <2>1 DEF LaidOut
<1>1. PICK pos : /\ Laid(c, s, l, steps, pos)
                 /\ Faulty(c, s[l]) = {} => Filling(c, st, r, f, steps, pos[l+1])
  BY DEF LaidOut
<1>2. NotAMixin(At(c, n)) /\ Visit(c, n, st, r)
  BY LayersAreNoMixins
<1>d. DOMAIN r \ Open(u) = D \cup {m}
  OBVIOUS
<1> DEFINE lo == pos[l+1]
<1>3. lo \in Nat /\ lo <= Len(steps) /\ Len(steps) \in Nat
  <2>1. pos[l+1] \in 0..Len(steps) /\ Len(steps) \in Nat
    BY <1>0, <1>1, ListFacts DEF Laid
  <2> QED BY <2>1
<1> HIDE DEF n, lo
<1>4. m \in DOMAIN r /\ m # n /\ m \in Open(st)
  BY <1>2, VisitLeaves
<1>5. ~NotAMixin(At(c, m))
  BY <1>2, <1>4 DEF Visit, Met
<1>6. \A j \in 1..Len(s) : s[j] # m
  BY <1>5, LayersAreNoMixins
<1>7. Added(steps, t, lo, m, has) /\ Keeps(steps, t)
  <2> DEFINE layer == At(c, m)
  <2>1. Longer(steps, t, m, layer, f)
    OBVIOUS
  <2> HIDE DEF layer
  <2>2. Added(steps, t, lo, m, f \in layer.families) /\ Keeps(steps, t)
    BY <2>1, <1>0, <1>3, AddedSteps
  <2> QED BY <2>2 DEF layer
<1>8. Laid(c, s, l, t, pos)
  <2>1. ASSUME NEW i \in Len(steps)+1..Len(t) PROVE t[i] = Own(m) \/ t[i] = ForFamily(m)
    <3>1. i \in lo+1..Len(t) /\ i \notin lo+1..Len(steps)
      BY <1>3
    <3> QED BY <3>1, <1>7 DEF Added
  <2>2. \A i \in Len(steps)+1..Len(t) : \A j \in 1..Len(s) : t[i] # Own(s[j])
    BY <2>1, <1>6, OwnIs
  <2> QED BY <2>2, <1>0, <1>1, <1>7, LaidKeeps
<1>9. ASSUME Faulty(c, s[l]) = {} PROVE Filling(c, u, r, f, t, lo)
  <2>1. Placed(c, D, f, steps, lo) /\ Siblings(c, r, steps, lo)
    BY <1>1, <1>9 DEF Filling, lo
  <2>2. Listed(c, m) \subseteq D
    BY <1>2, ReadToTheEnd
  <2>3. Mixins(c, m) \subseteq D
    BY <1>2, <2>2, DoneIsClosed
  <2>4. m \notin D
    BY <1>4
  <2>5. \A k \in DOMAIN r : \A j \in 1..r[k]-1 : \A i \in 1..j-1 : Name(c, k, i) # m
    BY <1>2, InnermostIsLast
  <2> HIDE DEF D
  <2>6. Placed(c, D \cup {m}, f, t, lo)
    BY <2>1, <2>3, <2>4, <1>3, <1>7, PlacedGrows
  <2>7. Siblings(c, r, t, lo)
    BY <2>1, <2>5, <1>3, <1>7, SiblingsGrow
  <2> QED BY <2>6, <2>7, <1>d DEF Filling
<1> QED BY <1>7, <1>8, <1>9 DEF LaidOut, Keeps, lo

LEMMA AppliesInOrder ==
  ASSUME NEW c, WellFormed(c), NEW s, Rooted(c, s), NEW l \in 1..Len(s), NEW st, NEW r, NEW f, NEW steps,
         LaidOut(c, s, l, TRUE, st, r, f, steps), Visit(c, s[l], st, r), Len(st) = 1,
         r[s[l]] > Count(c, s[l]), Faulty(c, s[l]) = {}, f = FamilyAt(c, s[l]),
         NEW t, Takes(steps, t, s[l]), NEW u, NEW q, NEW g
  PROVE  LaidOut(c, s, l-1, FALSE, u, q, g, t)
<1> DEFINE n == s[l]
<1>0. /\ IsList(steps) /\ Len(s) \in Nat /\ \A i, j \in 1..Len(s) : s[i] = s[j] => i = j
      /\ Here(c, n)
  BY DEF LaidOut, Rooted, Chained
<1>1. PICK pos : Laid(c, s, l, steps, pos) /\ Filling(c, st, r, f, steps, pos[l+1])
  BY DEF LaidOut
<1>2. Visit(c, n, st, r) /\ r[n] > Count(c, n) /\ f = FamilyAt(c, n)
  OBVIOUS
<1> DEFINE lo == pos[l+1]
<1>3. lo \in Nat /\ lo <= Len(steps) /\ Len(steps) \in Nat
  <2>1. l + 1 \in l+1..Len(s)+1
    BY <1>0
  <2>2. pos[l+1] \in 0..Len(steps) /\ Len(steps) \in Nat
    BY <2>1, <1>0, <1>1, ListFacts DEF Laid
  <2> QED BY <2>2
<1>4. Placed(c, DOMAIN r \ Open(st), f, steps, lo) /\ Siblings(c, r, steps, lo)
  BY <1>1 DEF Filling
<1> HIDE DEF n, lo
<1>5. /\ Mixins(c, n) = DOMAIN r \ {n} /\ DOMAIN r \ Open(st) = DOMAIN r \ {n}
      /\ \A m \in {n} \cup Mixins(c, n) : Here(c, m) /\ r[m] = Count(c, m) + 1
  BY <1>2, VisitDone
<1>6. n \in DOMAIN r
  BY <1>2 DEF Visit, Met
<1>7. \A m \in {n} \cup Mixins(c, n) : Here(c, m) /\ m \in DOMAIN r /\ r[m] = Count(c, m) + 1
  BY <1>5, <1>6
<1>8. Placed(c, Mixins(c, n), FamilyAt(c, n), steps, lo)
  BY <1>2, <1>4, <1>5
<1> DEFINE w == SubSeq(steps, lo+1, Len(steps))
<1>9. InOrder(c, n, w)
  <2>1. w = SubSeq(steps, lo+1, Len(steps))
    OBVIOUS
  <2> HIDE DEF w
  <2> QED BY <2>1, <1>0, <1>3, <1>4, <1>7, <1>8, WindowInOrder
<1> DEFINE p == [j \in l..Len(s)+1 |-> IF j = l THEN Len(steps) + 1 ELSE pos[j]]
<1>10. Laid(c, s, l-1, t, p) /\ p[l] = Len(t) /\ IsList(t)
  <2>1. InOrder(c, s[l], SubSeq(steps, pos[l+1]+1, Len(steps)))
    BY <1>9 DEF n, lo
  <2>2. Extends(pos, p, l, Len(s) + 1, Len(steps) + 1)
    BY DEF Extends
  <2> HIDE DEF p
  <2> QED BY <2>1, <2>2, <1>0, <1>1, LaidNext
<1> HIDE DEF p
<1>11. p[l-1+1] = Len(t)
  <2>1. l - 1 + 1 = l
    OBVIOUS
  <2> QED BY <2>1, <1>10
<1> QED BY <1>10, <1>11 DEF LaidOut

(* The inductive invariant of LayersInOrder.                               *)
Laying ==
  Climbed => LaidOut(call, chain, Left, pass = "includes", stack, reached, out.family, out.steps)

LayingHolds == Working => Laying

LEMMA LayingEntered ==
  ASSUME Climbing, Laying, call' = call, RootImage \/ MergeChild, pass' # "done"
  PROVE  Laying'
<1>1. /\ pass' = "includes" /\ chain' = chain /\ at' \in 1..Len(chain)
      /\ stack' = <<chain[at']>> /\ reached' = [n \in {chain[at']} |-> 1]
      /\ Here(call, chain[at'])
  BY EnterIs
<1>2. DOMAIN out = DOMAIN Resolved /\ WellFormed(call) /\ Len(chain) \in Nat
  BY DEF Climbing, Chained
<1>3. DOMAIN reached' \ Open(stack') = {}
  <2> DEFINE n == chain[at']
  <2>1. Here(call, n) /\ stack' = <<n>> /\ DOMAIN reached' = {n}
    BY <1>1
  <2> HIDE DEF n
  <2>2. {n} \ Open(<<n>>) = {}
    BY <2>1, <1>2, VisitStarts
  <2> QED BY <2>1, <2>2
<1> DEFINE s == chain
           l == at'
           r == reached'
           st == stack'
           f == out'.family
           steps == out'.steps
<1>4. /\ Len(s) \in Nat /\ l \in 1..Len(s) /\ r = [m \in {s[l]} |-> 1]
      /\ DOMAIN r \ Open(st) = {}
  BY <1>1, <1>2, <1>3
<1>5. IsList(steps) /\ \E pos : Laid(call, s, l, steps, pos) /\ pos[l+1] = Len(steps)
  <2>1. CASE RootImage
    <3>1. at' = Len(chain) /\ out' = Root(At(call, chain[at']))
      BY <2>1, EnterIs
    <3>2. out'.steps = <<>>
      BY <3>1 DEF Root, Resolved
    <3> DEFINE pos == [j \in Nat |-> 0]
    <3>3. Laid(call, chain, Len(chain), <<>>, pos)
      BY <1>2, LaidStarts
    <3>4. Len(chain) + 1 \in Nat /\ Len(<<>>) = 0 /\ IsList(<<>>)
      BY <1>2 DEF IsList
    <3>5. pos[Len(chain)+1] = Len(<<>>)
      BY <3>4
    <3> HIDE DEF pos
    <3> QED BY <3>1, <3>2, <3>3, <3>4, <3>5
  <2>2. CASE MergeChild
    <3>1. pass = "applied" /\ at' = at - 1 /\ at \in 2..Len(chain) /\ out' = Merge(out, At(call, chain[at']))
      BY <2>2, EnterIs
    <3>2. out'.steps = out.steps
      BY <3>1, <1>2 DEF Merge, Resolved
    <3>3. LaidOut(call, chain, at', FALSE, stack, reached, out.family, out.steps)
      BY <3>1 DEF Laying, Climbed, Left
    <3> QED BY <3>2, <3>3 DEF LaidOut
  <2> QED BY <2>1, <2>2
<1>6. PICK pos : Laid(call, s, l, steps, pos) /\ pos[l+1] = Len(steps)
  BY <1>5
<1> HIDE DEF s, l, r, st, f, steps
<1>7. LaidOut(call, s, l, TRUE, st, r, f, steps)
  BY <1>4, <1>5, <1>6, StartsLayer
<1> QED BY <1>1, <1>7 DEF Laying, Left, s, l, r, st, f, steps

LEMMA LayingIncluded ==
  ASSUME Climbing, Visiting, Laying, call' = call, Include, pass' # "done"
  PROVE  Laying'
<1> DEFINE t == stack[Len(stack)]
           m == Name(call, t, reached[t])
           f == out.family
           steps == out.steps
           s == chain
           l == at
           q == reached'
           u == stack'
<1>1. /\ pass = "includes" /\ UNCHANGED <<pass, at, out, chain>>
      /\ DOMAIN reached' \ Open(stack') = DOMAIN reached \ Open(stack)
  BY IncludeIs
<1>2. /\ reached[t] <= Count(call, t) /\ m \notin DOMAIN reached \ {s[l]}
      /\ Entered(reached, q, t, m)
  BY DEF Include, In, Refuse, Done, Last, Name, Count, Entered
<1>3. /\ WellFormed(call) /\ NotAMixin(At(call, s[l])) /\ Visit(call, s[l], stack, reached)
      /\ l \in 1..Len(s) /\ Len(s) \in Nat
  BY <1>1, LayerIs DEF Visiting
<1>4. LaidOut(call, s, l, TRUE, stack, reached, f, steps)
  BY <1>1 DEF Laying, Climbed, Left
<1>5. l \in Nat /\ l + 1 \in l+1..Len(s)+1
  BY <1>3
<1>6. t = stack[Len(stack)] /\ m = Name(call, t, reached[t]) /\ DOMAIN q \ Open(u) = DOMAIN reached \ Open(stack)
  BY <1>1
<1> HIDE DEF t, m, f, steps, s, l, q, u
<1>7. LaidOut(call, s, l, TRUE, u, q, f, steps)
  BY <1>2, <1>3, <1>4, <1>5, <1>6, IncludesInOrder
<1> QED BY <1>1, <1>7 DEF Laying, Left, f, steps, s, l, q, u

LEMMA LayingContributed ==
  ASSUME Climbing, Visiting, Laying, call' = call, Contribute, pass' # "done"
  PROVE  Laying'
<1> DEFINE m == stack[Len(stack)]
           f == out.family
           steps == out.steps
           s == chain
           l == at
           u == stack'
           t == out'.steps
<1>1. /\ pass = "includes" /\ UNCHANGED <<pass, at, chain, reached>>
      /\ Len(stack) > 1 /\ reached[m] > Count(call, m)
      /\ DOMAIN reached \ Open(stack') = (DOMAIN reached \ Open(stack)) \cup {m}
      /\ out' = [out EXCEPT !.steps = @ \o StepsOf(m, At(call, m), out.family),
                            !.autos = @ \cup At(call, m).autos]
  BY ContributeIs
<1>2. Longer(steps, t, m, At(call, m), f) /\ out'.family = f
  BY <1>1 DEF Climbing, Resolved, Longer
<1>3. /\ WellFormed(call) /\ Rooted(call, s) /\ Visit(call, s[l], stack, reached) /\ l \in 1..Len(s)
  BY <1>1, LayerIs DEF Visiting
<1>4. LaidOut(call, s, l, TRUE, stack, reached, f, steps)
  BY <1>1 DEF Laying, Climbed, Left
<1>5. /\ m = stack[Len(stack)] /\ Len(stack) > 1 /\ reached[m] > Count(call, m)
      /\ DOMAIN reached \ Open(u) = (DOMAIN reached \ Open(stack)) \cup {m}
  BY <1>1
<1>6. pass' = "includes" /\ at' = at /\ chain' = chain /\ reached' = reached
  BY <1>1
<1> HIDE DEF m, f, steps, s, l, u, t
<1>7. LaidOut(call, s, l, TRUE, u, reached, f, t)
  BY <1>2, <1>3, <1>4, <1>5, ContributesInOrder
<1> QED BY <1>2, <1>6, <1>7 DEF Laying, Left, f, steps, s, l, u, t

LEMMA LayingApplied ==
  ASSUME Climbing, Scalars, Visiting, Checked', Laying, call' = call, ApplyOwn, pass' # "done"
  PROVE  Laying'
<1> DEFINE f == out.family
           steps == out.steps
           s == chain
           l == at
           t == out'.steps
<1>1. /\ pass = "includes" /\ pass' = "applied" /\ UNCHANGED <<at, chain>> /\ Len(stack) = 1
      /\ reached[s[l]] > Count(call, s[l]) /\ Visit(call, s[l], stack, reached)
      /\ out' = [out EXCEPT !.steps = Append(@, Own(chain[at])), !.autos = @ \cup At(call, chain[at]).autos,
                            !.labels = Over(At(call, chain[at]).labels, @)]
  BY ApplyOwnIs
<1>2. Takes(steps, t, s[l])
  BY <1>1 DEF Climbing, Resolved, Takes
<1>3. WellFormed(call) /\ Rooted(call, s) /\ l \in 1..Len(s) /\ Len(s) \in Nat
  BY <1>1, LayerIs
<1>4. LaidOut(call, s, l, TRUE, stack, reached, f, steps) /\ f = FamilyAt(call, s[l])
  BY <1>1 DEF Laying, Climbed, Left, Scalars, NearestValues, FamilyAt, Current
<1>5. Faulty(call, s[l]) = {}
  <2>1. \A j \in at-1+1..Len(chain) : Faulty(call, chain[j]) = {}
    BY <1>1 DEF Checked, Climbed, Left
  <2>2. at \in at-1+1..Len(chain)
    BY <1>3
  <2> QED BY <2>1, <2>2
<1>6. Len(stack) = 1 /\ reached[s[l]] > Count(call, s[l]) /\ Visit(call, s[l], stack, reached)
  BY <1>1
<1>a. pass' = "applied" /\ at' = at /\ chain' = chain
  BY <1>1
<1> HIDE DEF f, steps, s, l, t
<1>7. \A u, q, g : LaidOut(call, s, l-1, FALSE, u, q, g, t)
  BY <1>2, <1>3, <1>4, <1>5, <1>6, AppliesInOrder
<1>8. LaidOut(call, s, l-1, FALSE, stack', reached', out'.family, t)
  BY <1>7
<1> QED BY <1>a, <1>8 DEF Laying, Left, s, l, t

LEMMA LayingKept ==
  ASSUME Climbing, Laying, call' = call, ApplySpec \/ ExpandConfig \/ ParseNextLabel, pass' # "done"
  PROVE  Laying'
<1>1. /\ pass \in {"applied", "variables", "labels"} /\ pass' \in {"variables", "labels"} /\ chain' = chain
      /\ pass = "applied" => at = 1
      /\ \E f : out' = [out EXCEPT !.memory = f] \/ out' = [out EXCEPT !.variable = f]
                \/ out' = [out EXCEPT !.given = f]
  BY DEF ApplySpec, ExpandConfig, ParseNextLabel, In, Refuse, Done, Walk, On, FillFromSpec, resolution
<1>2. DOMAIN out = DOMAIN Resolved
  BY DEF Climbing
<1>3. out'.steps = out.steps
  BY <1>1, <1>2 DEF Resolved
<1>4. Left = 0 /\ Left' = 0 /\ Climbed /\ pass # "includes" /\ pass' # "includes"
  BY <1>1 DEF Left, Climbed
<1>5. LaidOut(call, chain, 0, FALSE, stack, reached, out.family, out.steps)
  BY <1>4 DEF Laying
<1>6. LaidOut(call, chain, 0, FALSE, stack', reached', out'.family, out.steps)
  BY <1>5 DEF LaidOut
<1> QED BY <1>1, <1>3, <1>4, <1>6 DEF Laying

LEMMA LayingStep ==
  ASSUME Climbing, Scalars, Visiting, Checked', Laying, call' = call, BuildFromCli, pass' # "done"
  PROVE  Laying'
<1>1. CASE CheckArguments \/ FollowFrom
  BY <1>1 DEF CheckArguments, FollowFrom, In, Refuse, Done, Walk, Laying, Climbed
<1> QED BY <1>1, LayingEntered, LayingIncluded, LayingContributed, LayingApplied, LayingKept, ResolveGoesOn
        DEF BuildFromCli

LEMMA LayingInit == Init => LayingHolds
BY ResolveInit DEF InitResolve, LayingHolds, Working, Laying, Climbed

LEMMA LayingAlways ==
  ClimbingHolds /\ ScalarsHold /\ VisitingHolds /\ CheckedHolds' /\ LayingHolds /\ [Next]_vars => LayingHolds'
<1> SUFFICES ASSUME ClimbingHolds, ScalarsHold, VisitingHolds, CheckedHolds', LayingHolds, [Next]_vars, Working'
             PROVE  Laying'
  BY DEF LayingHolds
<1>1. call' = call /\ (BuildFromCli \/ UNCHANGED vars)
  BY ResolveStep DEF Working
<1>2. CASE BuildFromCli
  BY <1>1, <1>2, ResolveGoesOn, LayingStep
     DEF ClimbingHolds, ScalarsHold, VisitingHolds, CheckedHolds, LayingHolds, Working
<1>3. CASE UNCHANGED vars
  BY <1>3 DEF vars, LayingHolds, Working, Laying, Climbed, Left
<1> QED BY <1>1, <1>2, <1>3

LEMMA LaidMeans ==
  ASSUME NEW c, WellFormed(c), NEW s, Rooted(c, s), s[1] = Top, NEW steps, IsList(steps),
         NEW pos, Laid(c, s, 0, steps, pos), pos[1] = Len(steps)
  PROVE  Ordered(c, steps)
<1> DEFINE places(n) == {i \in DOMAIN steps : steps[i] = Own(n)}
           own(n) == CHOOSE i \in places(n) : TRUE
           start(n) == IF At(c, n).from = None THEN 0 ELSE own(At(c, n).from)
<1>1. /\ Chain(c) = {s[j] : j \in 1..Len(s)} /\ Len(s) \in Nat /\ Len(s) >= 1 /\ Chained(c, s)
      /\ DOMAIN steps = 1..Len(steps) /\ Len(steps) \in Nat
  BY ChainIs, ListFacts DEF Rooted, Chained
<1>2. \A j \in 1..Len(s) : j \in 0+1..Len(s) /\ j \in 0+1..Len(s)+1 /\ j + 1 \in 0+1..Len(s)+1
  BY <1>1
<1>3. ASSUME NEW j \in 1..Len(s)
      PROVE  /\ pos[j] \in 1..Len(steps) /\ pos[j+1] < pos[j]
             /\ InOrder(c, s[j], SubSeq(steps, pos[j+1] + 1, pos[j] - 1))
             /\ \A i \in 1..Len(steps) : steps[i] = Own(s[j]) <=> i = pos[j]
  <2>1. pos[j] \in 0..Len(steps) /\ pos[j+1] \in 0..Len(steps)
    BY <1>2 DEF Laid
  <2>2. pos[j+1] < pos[j] /\ InOrder(c, s[j], SubSeq(steps, pos[j+1] + 1, pos[j] - 1))
    BY <1>2 DEF Laid
  <2>3. pos[j] \in 1..Len(steps)
    <3>1. \A a, b \in 0..Len(steps) : a < b => b \in 1..Len(steps)
      BY <1>1
    <3> QED BY <2>1, <2>2, <3>1
  <2>4. \A i \in 1..Len(steps) : steps[i] = Own(s[j]) <=> i = pos[j]
    BY <1>2 DEF Laid
  <2> QED BY <2>2, <2>3, <2>4
<1>4. ASSUME NEW j \in 1..Len(s) PROVE places(s[j]) = {pos[j]} /\ own(s[j]) = pos[j]
  <2> DEFINE p == pos[j]
             n == s[j]
  <2>1. p \in 1..Len(steps) /\ \A i \in 1..Len(steps) : steps[i] = Own(n) <=> i = p
    BY <1>3
  <2> HIDE DEF p, n
  <2>2. places(n) = {p}
    BY <2>1, <1>1
  <2>3. own(n) = p
    BY <2>2
  <2> QED BY <2>2, <2>3 DEF p, n
<1>5. ASSUME NEW j \in 1..Len(s) PROVE start(s[j]) = pos[j+1]
  <2>1. CASE j = Len(s)
    <3>1. At(c, s[j]).from = None
      BY <2>1 DEF Rooted
    <3>2. pos[j+1] = 0
      BY <2>1 DEF Laid
    <3> QED BY <3>1, <3>2
  <2>2. CASE j # Len(s)
    <3>1. j \in 1..Len(s)-1 /\ j + 1 \in 1..Len(s)
      BY <2>2, <1>1
    <3>2. s[j+1] = At(c, s[j]).from /\ s[j+1] # None
      BY <3>1, <1>1 DEF Chained
    <3>3. own(s[j+1]) = pos[j+1]
      BY <3>1, <1>4
    <3> HIDE DEF own
    <3> QED BY <3>2, <3>3
  <2> QED BY <2>1, <2>2
<1>6. ASSUME NEW n \in Chain(c)
      PROVE  /\ \E i \in DOMAIN steps : places(n) = {i}
             /\ start(n) < own(n)
             /\ InOrder(c, n, SubSeq(steps, start(n) + 1, own(n) - 1))
  <2>1. PICK j \in 1..Len(s) : n = s[j]
    BY <1>1
  <2>0. pos[j] \in DOMAIN steps
    BY <1>1, <1>3
  <2> HIDE DEF places, own, start
  <2>2. places(n) = {pos[j]} /\ own(n) = pos[j] /\ start(n) = pos[j+1] /\ pos[j] \in DOMAIN steps
    <3>1. places(s[j]) = {pos[j]} /\ own(s[j]) = pos[j]
      BY <1>4
    <3>2. start(s[j]) = pos[j+1]
      BY <1>5
    <3> QED BY <2>0, <2>1, <3>1, <3>2
  <2>3. pos[j+1] < pos[j] /\ InOrder(c, s[j], SubSeq(steps, pos[j+1] + 1, pos[j] - 1))
    BY <1>3
  <2>4. start(n) < own(n)
    BY <2>2, <2>3
  <2> DEFINE w == SubSeq(steps, start(n) + 1, own(n) - 1)
  <2>5. w = SubSeq(steps, pos[j+1] + 1, pos[j] - 1)
    BY <2>2
  <2> HIDE DEF w
  <2>6. InOrder(c, n, w)
    BY <2>1, <2>3, <2>5
  <2> QED BY <2>2, <2>4, <2>6 DEF w
<1>7. own(Top) = Len(steps)
  <2>1. 1 \in 1..Len(s)
    BY <1>1
  <2>2. own(s[1]) = pos[1]
    BY <2>1, <1>4
  <2> HIDE DEF own
  <2> QED BY <2>2
<1> QED BY <1>6, <1>7 DEF Ordered

LEMMA OrderStep ==
  ASSUME Climbing, Laying, call' = call, BuildFromCli, Accepted'
  PROVE  LayersInOrder'
<1>1. /\ pass = "labels" /\ out' = [out EXCEPT !.labels = Over(out.given, @)]
  BY OnlyBuildAccepts DEF Accepted, Returned
<1>2. DOMAIN out = DOMAIN Resolved /\ WellFormed(call) /\ Rooted(call, chain) /\ chain[1] = Top
  BY <1>1 DEF Climbing, Chained
<1>3. out'.steps = out.steps
  BY <1>1, <1>2 DEF Resolved
<1>4. Left = 0 /\ Climbed /\ pass # "includes"
  BY <1>1 DEF Left, Climbed
<1>5. LaidOut(call, chain, 0, FALSE, stack, reached, out.family, out.steps)
  BY <1>4 DEF Laying
<1>6. PICK pos : IsList(out.steps) /\ Laid(call, chain, 0, out.steps, pos) /\ pos[0+1] = Len(out.steps)
  BY <1>5 DEF LaidOut
<1>7. pos[1] = Len(out.steps)
  <2>1. 0 + 1 = 1
    OBVIOUS
  <2> QED BY <1>6, <2>1
<1>8. Ordered(call, out.steps)
  BY <1>2, <1>6, <1>7, LaidMeans
<1> QED BY <1>3, <1>8 DEF LayersInOrder

LEMMA OrderAlways ==
  ClimbingHolds /\ LayingHolds /\ LayersInOrder /\ [Next]_vars => LayersInOrder'
<1> SUFFICES ASSUME ClimbingHolds, LayingHolds, LayersInOrder, [Next]_vars, Accepted'
             PROVE  LayersInOrder'
  BY DEF LayersInOrder
<1>1. call' = call /\ call.kind = "resolve" /\ (BuildFromCli \/ UNCHANGED vars)
  BY ResolveStep DEF Accepted, Returned
<1>2. CASE BuildFromCli
  <2>1. pass # "done"
    BY <1>2 DEF BuildFromCli, In, CheckArguments, FollowFrom, RootImage, MergeChild, Include,
       Contribute, ApplyOwn, ApplySpec, ExpandConfig, ParseNextLabel, Build
  <2> QED BY <1>1, <1>2, <2>1, OrderStep DEF ClimbingHolds, LayingHolds, Working
<1>3. CASE UNCHANGED vars
  BY <1>3 DEF vars, LayersInOrder, Accepted, Returned
<1> QED BY <1>1, <1>2, <1>3

(* Every layer's steps come after those of the layer it derives from, and  *)
(* after those of the mixins it includes, each mixin once, after what it   *)
(* includes itself and with its family's steps right after, however the    *)
(* layers are nested (resolve_inner, apply_includes).                      *)
THEOREM LayersInOrderTheorem == Spec => []LayersInOrder
<1>1. Spec => []ClimbingHolds
  BY ClimbingInit, ClimbingAlways, PTL DEF Spec
<1>2. Spec => []ScalarsHold
  BY <1>1, ScalarsInit, ScalarsAlways, PTL DEF Spec
<1>3. Spec => []VisitingHolds
  BY <1>1, VisitingInit, VisitingAlways, PTL DEF Spec
<1>4. Spec => []CheckedHolds
  BY <1>1, <1>2, <1>3, CheckedInit, CheckedAlways, PTL DEF Spec
<1>5. Spec => []LayingHolds
  BY <1>1, <1>2, <1>3, <1>4, LayingInit, LayingAlways, PTL DEF Spec
<1>6. Init => LayersInOrder
  BY ResolveInit DEF LayersInOrder, Accepted, Returned, InitResolve
<1> QED BY <1>1, <1>5, <1>6, OrderAlways, PTL DEF Spec

-----------------------------------------------------------------------------
(* The scans: what each has found so far.                                  *)

LEMMA ScanInit == ASSUME Init, call.kind # "resolve" PROVE InitScan
BY DEF Init, InitResolve

LEMMA ScanStep ==
  ASSUME [Next]_vars, call'.kind # "resolve"
  PROVE  call' = call /\ (NextScan \/ UNCHANGED vars)
BY DEF Next, vars, NextScan, DestroyCommand, CheckMemory, CurrentDefaultMachineType, FindGuestIp,
       In, BuildFromCli, CheckArguments, FollowFrom, RootImage, MergeChild, Include, Contribute,
       ApplyOwn, ApplySpec, ExpandConfig, ParseNextLabel, Build,
       NoTarget, ParseSelector, SelectorsParsed, SelectInstance, Confirm, DestroyInstance, Destroyed,
       RefuseSize, CountInstance, CheckBoot, ReadLease, NameUnknown, LeaseFound, ReadAlias,
       NotAnnotated, ReadVersion, MachineFound

(* The search for a lease.                                                 *)

Hits(ls, field, wanted, n) ==
  {i \in 1..n : ls[i][field] = wanted /\ ls[i].ip # NoIp}

BestOf(ls, o, S) ==
  \/ S = {} /\ o = NoLease
  \/ \E i \in S : /\ o = [ip |-> ls[i].ip, at |-> ls[i].at]
                  /\ \A k \in S : ls[k].at <= ls[i].at

Best(ls, o, field, wanted, n) == BestOf(ls, o, Hits(ls, field, wanted, n))

LeaseHolds ==
  call.kind = "lease" =>
    LET n == Len(call.leases)
    IN /\ IsList(call.leases) /\ \A i \in DOMAIN call.leases : call.leases[i].at \in Nat
       /\ at \in 1..n+1
       /\ \/ pass = "name" /\ Best(call.leases, out, "name", Host, at-1)
          \/ pass = "mac" /\ Hits(call.leases, "name", Host, n) = {} /\ Best(call.leases, out, "mac", Mac, at-1)
          \/ pass = "done" /\ out.ip # NoIp /\ Best(call.leases, out, "name", Host, n)
          \/ pass = "done" /\ Hits(call.leases, "name", Host, n) = {} /\ Best(call.leases, out, "mac", Mac, n)

LEMMA LeaseInit == Init => LeaseHolds
<1> SUFFICES ASSUME Init, call.kind = "lease" PROVE LeaseHolds
  BY DEF LeaseHolds
<1>1. PICK f \in LeaseFiles : call = [kind |-> "lease", leases |-> f]
  BY ScanInit DEF InitScan
<1>2. pass = "name" /\ out = NoLease /\ at = 1
  BY ScanInit DEF InitScan
<1>3. IsList(call.leases) /\ \A i \in DOMAIN call.leases : call.leases[i].at \in Nat
  BY <1>1, ScansAssumption
<1>4. Len(call.leases) \in Nat
  BY <1>3, ListFacts
<1>5. Hits(call.leases, "name", Host, 0) = {}
  BY DEF Hits
<1> QED BY <1>2, <1>3, <1>4, <1>5 DEF LeaseHolds, Best, BestOf

(* One more lease.                                                         *)
LEMMA OneMoreLease ==
  ASSUME LeaseHolds, call.kind = "lease", NEW field, NEW wanted, NEW o, NEW n \in Nat,
         n + 1 <= Len(call.leases), Best(call.leases, o, field, wanted, n)
  PROVE  Best(call.leases, IterateLeases(o, call.leases[n+1], field, wanted), field, wanted, n+1)
<1> DEFINE l == call.leases[n+1]
           S == Hits(call.leases, field, wanted, n)
           T == Hits(call.leases, field, wanted, n+1)
<1>0. /\ DOMAIN call.leases = 1..Len(call.leases) /\ Len(call.leases) \in Nat
      /\ \A i \in DOMAIN call.leases : call.leases[i].at \in Nat
  BY ListFacts DEF LeaseHolds
<1>1. /\ \A i \in S : i \in DOMAIN call.leases /\ call.leases[i].ip # NoIp
      /\ n + 1 \in DOMAIN call.leases
  BY <1>0 DEF Hits
<1>2. CASE ~(l[field] = wanted /\ l.ip # NoIp)
  <2>1. T = S
    BY <1>2 DEF Hits
  <2> QED BY <1>2, <2>1 DEF Best, IterateLeases
<1>3. CASE l[field] = wanted /\ l.ip # NoIp
  <2>1. T = S \cup {n+1}
    BY <1>3 DEF Hits
  <2>2. CASE S = {} /\ o = NoLease
    <3>1. IterateLeases(o, l, field, wanted) = [ip |-> l.ip, at |-> l.at]
      BY <1>3, <2>2 DEF IterateLeases, NoLease
    <3> QED BY <3>1, <2>1, <2>2, <1>0, <1>1 DEF Best, BestOf
  <2>3. CASE \E i \in S : /\ o = [ip |-> call.leases[i].ip, at |-> call.leases[i].at]
                          /\ \A k \in S : call.leases[k].at <= call.leases[i].at
    <3>1. PICK i \in S : /\ o = [ip |-> call.leases[i].ip, at |-> call.leases[i].at]
                         /\ \A k \in S : call.leases[k].at <= call.leases[i].at
      BY <2>3
    <3>2. o.ip # NoIp /\ o.at = call.leases[i].at
      BY <3>1, <1>1
    <3>3. CASE l.at > o.at
      <4>1. IterateLeases(o, l, field, wanted) = [ip |-> l.ip, at |-> l.at]
        BY <1>3, <3>3 DEF IterateLeases
      <4>2. \A k \in T : call.leases[k].at <= l.at
        BY <2>1, <3>1, <3>2, <3>3, <1>0, <1>1
      <4> QED BY <4>1, <4>2, <2>1 DEF Best, BestOf
    <3>4. CASE ~(l.at > o.at)
      <4>1. IterateLeases(o, l, field, wanted) = o
        BY <3>2, <3>4 DEF IterateLeases
      <4>2. \A k \in T : call.leases[k].at <= call.leases[i].at
        BY <2>1, <3>1, <3>2, <3>4, <1>0, <1>1
      <4> QED BY <4>1, <4>2, <3>1, <2>1 DEF Best, BestOf
    <3> QED BY <3>3, <3>4
  <2> QED BY <2>2, <2>3 DEF Best, BestOf
<1> QED BY <1>2, <1>3

LEMMA LeaseStep == LeaseHolds /\ [Next]_vars => LeaseHolds'
<1> SUFFICES ASSUME LeaseHolds, [Next]_vars, call'.kind = "lease" PROVE LeaseHolds'
  BY DEF LeaseHolds
<1>0. /\ call' = call /\ call.kind = "lease"
      /\ FindGuestIp \/ UNCHANGED vars
  BY ScanStep DEF NextScan, DestroyCommand, CheckMemory, CurrentDefaultMachineType, FindGuestIp, In,
     NoTarget, ParseSelector, SelectorsParsed, SelectInstance, Confirm, DestroyInstance, Destroyed,
     RefuseSize, CountInstance, CheckBoot, ReadLease, NameUnknown, LeaseFound, ReadAlias,
     NotAnnotated, ReadVersion, MachineFound
<1> DEFINE n == Len(call.leases)
<1>1. /\ n \in Nat /\ at \in 1..n+1
      /\ IsList(call.leases) /\ \A i \in DOMAIN call.leases : call.leases[i].at \in Nat
  BY <1>0, ListFacts DEF LeaseHolds
<1>2. CASE ReadLease
  <2>1. at <= n /\ at' = at + 1 /\ pass' = pass /\ pass \in {"name", "mac"}
        /\ out' = IterateLeases(out, call.leases[at], pass, Wanted)
    BY <1>2 DEF ReadLease, On, In
  <2>2. at - 1 \in Nat /\ (at - 1) + 1 = at /\ at' - 1 = at /\ at' \in 1..n+1
    BY <1>1, <2>1
  <2>3. CASE pass = "name"
    <3>1. Best(call.leases, out, "name", Host, at - 1)
      BY <1>0, <2>3 DEF LeaseHolds
    <3>2. Best(call.leases, out', "name", Host, at)
      BY <3>1, <2>1, <2>2, <2>3, <1>0, OneMoreLease DEF Wanted
    <3> QED BY <3>2, <2>1, <2>2, <2>3, <1>0, <1>1 DEF LeaseHolds
  <2>4. CASE pass = "mac"
    <3>1. Best(call.leases, out, "mac", Mac, at - 1) /\ Hits(call.leases, "name", Host, n) = {}
      BY <1>0, <2>4 DEF LeaseHolds
    <3>2. Best(call.leases, out', "mac", Mac, at)
      BY <3>1, <2>1, <2>2, <2>4, <1>0, OneMoreLease DEF Wanted
    <3> QED BY <3>1, <3>2, <2>1, <2>2, <2>4, <1>0, <1>1 DEF LeaseHolds
  <2> QED BY <2>1, <2>3, <2>4
<1>3. CASE NameUnknown
  <2>1. pass = "name" /\ at > n /\ out.ip = NoIp /\ pass' = "mac" /\ at' = 1 /\ out' = NoLease
    BY <1>3 DEF NameUnknown, In, Past, Walk
  <2>2. Best(call.leases, out, "name", Host, n)
    <3>1. at - 1 = n
      BY <2>1, <1>1
    <3> QED BY <3>1, <2>1, <1>0 DEF LeaseHolds
  <2>3. Hits(call.leases, "name", Host, n) = {}
    BY <2>1, <2>2 DEF Best, BestOf, Hits
  <2>4. Hits(call.leases, "mac", Mac, 0) = {}
    BY DEF Hits
  <2>5. Best(call.leases, out', "mac", Mac, 0)
    BY <2>1, <2>4 DEF Best, BestOf
  <2> QED BY <2>1, <2>3, <2>5, <1>0, <1>1 DEF LeaseHolds
<1>4. CASE LeaseFound
  <2>1. /\ at > n /\ pass \in {"name", "mac"} /\ (pass = "mac" \/ out.ip # NoIp)
        /\ pass' = "done" /\ out' = out /\ at' = at
    BY <1>4 DEF LeaseFound, In, Past, Done
  <2>2. at - 1 = n
    BY <2>1, <1>1
  <2> QED BY <2>1, <2>2, <1>0, <1>1 DEF LeaseHolds
<1>5. CASE UNCHANGED vars
  BY <1>5, <1>0 DEF vars, LeaseHolds
<1> QED BY <1>0, <1>2, <1>3, <1>4, <1>5 DEF FindGuestIp

LEMMA LeaseFinal == LeaseHolds => FreshestLease
<1> SUFFICES ASSUME LeaseHolds, call.kind = "lease", pass = "done" PROVE FreshestLease
  BY DEF FreshestLease, Returned
<1> DEFINE n == Len(call.leases)
           given == {l \in {call.leases[i] : i \in DOMAIN call.leases} : l.ip # NoIp}
           named == {l \in given : l.name = Host}
           macs == {l \in given : l.mac = Mac}
<1>1. DOMAIN call.leases = 1..n
  BY ListFacts DEF LeaseHolds
<1>2. named = {call.leases[i] : i \in Hits(call.leases, "name", Host, n)}
  BY <1>1 DEF Hits
<1>3. macs = {call.leases[i] : i \in Hits(call.leases, "mac", Mac, n)}
  BY <1>1 DEF Hits
<1>4. CASE out.ip # NoIp /\ Best(call.leases, out, "name", Host, n)
  <2>1. PICK i \in Hits(call.leases, "name", Host, n) :
          /\ out = [ip |-> call.leases[i].ip, at |-> call.leases[i].at]
          /\ \A k \in Hits(call.leases, "name", Host, n) : call.leases[k].at <= call.leases[i].at
    BY <1>4 DEF Best, BestOf, NoLease
  <2>2. call.leases[i] \in named /\ \A k \in named : k.at <= call.leases[i].at
    BY <2>1, <1>2
  <2>3. out.ip = call.leases[i].ip
    BY <2>1
  <2> QED BY <2>2, <2>3 DEF FreshestLease
<1>5. CASE Hits(call.leases, "name", Host, n) = {} /\ Best(call.leases, out, "mac", Mac, n)
  <2>1. named = {}
    BY <1>2, <1>5
  <2>2. CASE Hits(call.leases, "mac", Mac, n) = {} /\ out = NoLease
    BY <2>1, <2>2, <1>3 DEF FreshestLease, NoLease
  <2>3. CASE \E i \in Hits(call.leases, "mac", Mac, n) :
               /\ out = [ip |-> call.leases[i].ip, at |-> call.leases[i].at]
               /\ \A k \in Hits(call.leases, "mac", Mac, n) : call.leases[k].at <= call.leases[i].at
    <3>1. PICK i \in Hits(call.leases, "mac", Mac, n) :
            /\ out = [ip |-> call.leases[i].ip, at |-> call.leases[i].at]
            /\ \A k \in Hits(call.leases, "mac", Mac, n) : call.leases[k].at <= call.leases[i].at
      BY <2>3
    <3>2. call.leases[i] \in macs /\ \A k \in macs : k.at <= call.leases[i].at
      BY <3>1, <1>3
    <3>3. out.ip = call.leases[i].ip
      BY <3>1
    <3> QED BY <2>1, <3>2, <3>3 DEF FreshestLease
  <2> QED BY <1>5, <2>2, <2>3 DEF Best, BestOf
<1> QED BY <1>4, <1>5 DEF LeaseHolds

(* Whatever is in the lease file, the address found is that of the         *)
(* freshest lease of the hostname, else of the MAC (findGuestIp).          *)
THEOREM FreshestLeaseTheorem == Spec => []FreshestLease
<1>1. Spec => []LeaseHolds
  BY LeaseInit, LeaseStep, PTL DEF Spec
<1> QED BY <1>1, LeaseFinal, PTL
-----------------------------------------------------------------------------
(* The search for the machine type.                                        *)

NoneAnnotated(ls, n) == \A i \in 1..n : ~Annotated(ls[i], MachineAlias)

Candidates(ls, n) == {i \in 1..n : ls[i].versioned /\ ~ls[i].deprecated}

HighestOf(ls, o, S) ==
  \/ S = {} /\ o = NoMachine
  \/ \E i \in S : /\ o = [name |-> ls[i].name, major |-> ls[i].major, minor |-> ls[i].minor]
                  /\ \A k \in S : ~Newer(ls[k], ls[i])

Highest(ls, o, n) == HighestOf(ls, o, Candidates(ls, n))

LinesOk(ls) ==
  /\ IsList(ls)
  /\ \A i \in DOMAIN ls : ls[i].major \in Nat /\ ls[i].minor \in Nat /\ ls[i].name # NoName

MachineHolds ==
  call.kind = "machine" =>
    LET ls == call.lines
        n == Len(ls)
    IN /\ LinesOk(ls) /\ at \in 1..n+1
       /\ \/ pass = "alias" /\ out = NoMachine /\ NoneAnnotated(ls, at-1)
          \/ pass = "versions" /\ NoneAnnotated(ls, n) /\ Highest(ls, out, at-1)
          \/ pass = "done" /\ NoneAnnotated(ls, n) /\ Highest(ls, out, n)
          \/ /\ pass = "done" /\ at <= n /\ NoneAnnotated(ls, at-1)
             /\ Annotated(ls[at], MachineAlias) /\ out.name = ls[at].aliasOf

LEMMA MachineInit == Init => MachineHolds
<1> SUFFICES ASSUME Init, call.kind = "machine" PROVE MachineHolds
  BY DEF MachineHolds
<1>1. PICK f \in Listings : call = [kind |-> "machine", lines |-> f]
  BY ScanInit DEF InitScan
<1>2. pass = "alias" /\ out = NoMachine /\ at = 1
  BY ScanInit DEF InitScan
<1>3. LinesOk(call.lines)
  BY <1>1, ScansAssumption DEF LinesOk
<1>4. Len(call.lines) \in Nat
  BY <1>3, ListFacts DEF LinesOk
<1>5. NoneAnnotated(call.lines, 0)
  BY DEF NoneAnnotated
<1> QED BY <1>2, <1>3, <1>4, <1>5 DEF MachineHolds

(* One more line of the second walk.                                       *)
LEMMA OneMoreVersion ==
  ASSUME NEW ls, LinesOk(ls), NEW o, NEW n \in Nat, n + 1 <= Len(ls), Highest(ls, o, n)
  PROVE  Highest(ls, ParseMachineHelp(o, ls[n+1]), n+1)
<1> DEFINE l == ls[n+1]
           S == Candidates(ls, n)
           T == Candidates(ls, n+1)
<1>0. /\ DOMAIN ls = 1..Len(ls) /\ Len(ls) \in Nat
      /\ \A i \in DOMAIN ls : ls[i].major \in Nat /\ ls[i].minor \in Nat /\ ls[i].name # NoName
  BY ListFacts DEF LinesOk
<1>1. (\A i \in S : i \in DOMAIN ls) /\ n + 1 \in DOMAIN ls
  BY <1>0 DEF Candidates
<1>2. CASE ~(l.versioned /\ ~l.deprecated)
  <2>1. T = S
    BY <1>2 DEF Candidates
  <2>2. ParseMachineHelp(o, l) = o
    BY <1>2 DEF ParseMachineHelp
  <2> QED BY <2>1, <2>2 DEF Highest
<1>3. CASE l.versioned /\ ~l.deprecated
  <2> DEFINE mine == [name |-> l.name, major |-> l.major, minor |-> l.minor]
  <2>1. T = S \cup {n+1}
    BY <1>3 DEF Candidates
  <2>2. CASE S = {} /\ o = NoMachine
    <3>1. ParseMachineHelp(o, l) = mine
      BY <1>3, <2>2 DEF ParseMachineHelp, NoMachine
    <3>2. ~Newer(l, l)
      BY <1>0, <1>1 DEF Newer
    <3> QED BY <3>1, <3>2, <2>1, <2>2 DEF Highest, HighestOf
  <2>3. CASE \E i \in S : /\ o = [name |-> ls[i].name, major |-> ls[i].major, minor |-> ls[i].minor]
                          /\ \A k \in S : ~Newer(ls[k], ls[i])
    <3>1. PICK i \in S : /\ o = [name |-> ls[i].name, major |-> ls[i].major, minor |-> ls[i].minor]
                         /\ \A k \in S : ~Newer(ls[k], ls[i])
      BY <2>3
    <3>2. o.name # NoName /\ o.major = ls[i].major /\ o.minor = ls[i].minor
      BY <3>1, <1>0, <1>1
    <3>3. CASE Newer(l, o)
      <4>1. ParseMachineHelp(o, l) = mine
        BY <1>3, <3>3 DEF ParseMachineHelp
      <4>2. \A k \in T : ~Newer(ls[k], l)
        BY <2>1, <3>1, <3>2, <3>3, <1>0, <1>1 DEF Newer
      <4> QED BY <4>1, <4>2, <2>1 DEF Highest, HighestOf
    <3>4. CASE ~Newer(l, o)
      <4>1. ParseMachineHelp(o, l) = o
        BY <3>2, <3>4 DEF ParseMachineHelp
      <4>2. \A k \in T : ~Newer(ls[k], ls[i])
        BY <2>1, <3>1, <3>2, <3>4 DEF Newer
      <4> QED BY <4>1, <4>2, <3>1, <2>1 DEF Highest, HighestOf
    <3> QED BY <3>3, <3>4
  <2> QED BY <2>2, <2>3 DEF Highest, HighestOf
<1> QED BY <1>2, <1>3

LEMMA MachineStep == MachineHolds /\ [Next]_vars => MachineHolds'
<1> SUFFICES ASSUME MachineHolds, [Next]_vars, call'.kind = "machine" PROVE MachineHolds'
  BY DEF MachineHolds
<1>0. /\ call' = call /\ call.kind = "machine"
      /\ CurrentDefaultMachineType \/ UNCHANGED vars
  BY ScanStep DEF NextScan, DestroyCommand, CheckMemory, CurrentDefaultMachineType, FindGuestIp, In,
     NoTarget, ParseSelector, SelectorsParsed, SelectInstance, Confirm, DestroyInstance, Destroyed,
     RefuseSize, CountInstance, CheckBoot, ReadLease, NameUnknown, LeaseFound, ReadAlias,
     NotAnnotated, ReadVersion, MachineFound
<1> DEFINE ls == call.lines
           n == Len(ls)
<1>1. n \in Nat /\ at \in 1..n+1 /\ LinesOk(ls)
  BY <1>0, ListFacts DEF MachineHolds, LinesOk
<1>2. CASE ReadAlias
  <2>1. pass = "alias" /\ at <= n
    BY <1>2 DEF ReadAlias, In
  <2>2. NoneAnnotated(ls, at-1) /\ out = NoMachine
    BY <2>1, <1>0 DEF MachineHolds
  <2>3. CASE Annotated(ls[at], MachineAlias)
    <3>1. pass' = "done" /\ at' = at /\ out' = [out EXCEPT !.name = ls[at].aliasOf]
      BY <1>2, <2>3 DEF ReadAlias, Done
    <3>2. out'.name = ls[at].aliasOf
      BY <3>1, <2>2 DEF NoMachine
    <3> QED BY <3>1, <3>2, <2>1, <2>2, <2>3, <1>0, <1>1 DEF MachineHolds
  <2>4. CASE ~Annotated(ls[at], MachineAlias)
    <3>1. pass' = "alias" /\ at' = at + 1 /\ out' = out
      BY <1>2, <2>1, <2>4 DEF ReadAlias, On
    <3>5. at' - 1 = at /\ at' \in 1..n+1
      BY <3>1, <2>1, <1>1
    <3>2. NoneAnnotated(ls, at)
      <4> SUFFICES ASSUME NEW i \in 1..at PROVE ~Annotated(ls[i], MachineAlias)
        BY DEF NoneAnnotated
      <4>1. CASE i = at
        BY <4>1, <2>4
      <4>2. CASE i # at
        <5>1. i \in 1..at-1
          BY <4>2, <1>1
        <5> QED BY <5>1, <2>2 DEF NoneAnnotated
      <4> QED BY <4>1, <4>2
    <3>3. NoneAnnotated(call'.lines, at' - 1) /\ at' \in 1..Len(call'.lines)+1
      BY <3>5, <3>2, <1>0
    <3>4. out' = NoMachine /\ LinesOk(call'.lines)
      BY <3>1, <2>2, <1>0, <1>1
    <3> QED BY <3>1, <3>3, <3>4 DEF MachineHolds
  <2> QED BY <2>3, <2>4
<1>3. CASE NotAnnotated
  <2>1. pass = "alias" /\ at > n /\ pass' = "versions" /\ at' = 1 /\ out' = out
    BY <1>3 DEF NotAnnotated, In, Past, Walk
  <2>2. at - 1 = n
    BY <2>1, <1>1
  <2>3. NoneAnnotated(ls, n) /\ out = NoMachine
    BY <2>1, <2>2, <1>0 DEF MachineHolds
  <2>4. Candidates(ls, 0) = {}
    BY DEF Candidates
  <2>5. Highest(ls, out', 0)
    BY <2>1, <2>3, <2>4 DEF Highest, HighestOf
  <2> QED BY <2>1, <2>3, <2>5, <1>0, <1>1 DEF MachineHolds
<1>4. CASE ReadVersion
  <2>1. pass = "versions" /\ pass' = pass /\ at <= n /\ at' = at + 1
        /\ out' = ParseMachineHelp(out, ls[at])
    BY <1>4 DEF ReadVersion, In, On
  <2>2. at - 1 \in Nat /\ (at - 1) + 1 = at /\ at' - 1 = at /\ at' \in 1..n+1
    BY <1>1, <2>1
  <2>3. NoneAnnotated(ls, n) /\ Highest(ls, out, at-1)
    BY <2>1, <1>0 DEF MachineHolds
  <2>4. Highest(ls, out', at)
    BY <2>1, <2>2, <2>3, <1>1, OneMoreVersion
  <2> QED BY <2>1, <2>2, <2>3, <2>4, <1>0, <1>1 DEF MachineHolds
<1>5. CASE MachineFound
  <2>1. pass = "versions" /\ at > n /\ pass' = "done" /\ at' = at /\ out' = out
    BY <1>5 DEF MachineFound, In, Past, Done
  <2>2. at - 1 = n
    BY <2>1, <1>1
  <2> QED BY <2>1, <2>2, <1>0, <1>1 DEF MachineHolds
<1>6. CASE UNCHANGED vars
  BY <1>6, <1>0 DEF vars, MachineHolds
<1> QED BY <1>0, <1>2, <1>3, <1>4, <1>5, <1>6 DEF CurrentDefaultMachineType

LEMMA MachineFinal == MachineHolds => PinsTheNewest
<1> SUFFICES ASSUME MachineHolds, call.kind = "machine", pass = "done" PROVE PinsTheNewest
  BY DEF PinsTheNewest, Returned
<1> DEFINE ls == call.lines
           n == Len(ls)
           annotated == {i \in DOMAIN ls : Annotated(ls[i], MachineAlias)}
           candidates == {i \in DOMAIN ls : ls[i].versioned /\ ~ls[i].deprecated}
<1>1. /\ DOMAIN ls = 1..n /\ n \in Nat
      /\ \A i \in DOMAIN ls : ls[i].major \in Nat /\ ls[i].minor \in Nat /\ ls[i].name # NoName
  BY ListFacts DEF MachineHolds, LinesOk
<1>2. candidates = Candidates(ls, n)
  BY <1>1 DEF Candidates
<1>3. CASE at \in 1..n /\ NoneAnnotated(ls, at-1) /\ Annotated(ls[at], MachineAlias)
           /\ out.name = ls[at].aliasOf
  <2>1. at \in annotated /\ \A j \in annotated : at <= j
    BY <1>1, <1>3 DEF NoneAnnotated
  <2> QED BY <2>1, <1>3 DEF PinsTheNewest
<1>4. CASE NoneAnnotated(ls, n) /\ Highest(ls, out, n)
  <2>1. annotated = {}
    BY <1>1, <1>4 DEF NoneAnnotated
  <2>2. CASE candidates = {} /\ out = NoMachine
    BY <2>1, <2>2 DEF PinsTheNewest, NoMachine
  <2>3. CASE \E i \in candidates :
               /\ out = [name |-> ls[i].name, major |-> ls[i].major, minor |-> ls[i].minor]
               /\ \A k \in candidates : ~Newer(ls[k], ls[i])
    <3>1. PICK i \in candidates :
               /\ out = [name |-> ls[i].name, major |-> ls[i].major, minor |-> ls[i].minor]
               /\ \A k \in candidates : ~Newer(ls[k], ls[i])
      BY <2>3
    <3>2. \A j \in candidates : \/ ls[j].major < ls[i].major
                                \/ ls[j].major = ls[i].major /\ ls[j].minor <= ls[i].minor
      BY <3>1, <1>1 DEF Newer
    <3>3. out.name = ls[i].name
      BY <3>1
    <3> QED BY <3>2, <3>3, <2>1 DEF PinsTheNewest
  <2> QED BY <1>2, <1>4, <2>2, <2>3 DEF Highest, HighestOf
<1> QED BY <1>1, <1>3, <1>4 DEF MachineHolds

(* Whatever QEMU lists, a VM is pinned to the type the alias stands for,   *)
(* else to the newest that is not deprecated (parse_machine_help).         *)
THEOREM PinsTheNewestTheorem == Spec => []PinsTheNewest
<1>1. Spec => []MachineHolds
  BY MachineInit, MachineStep, PTL DEF Spec
<1> QED BY <1>1, MachineFinal, PTL
-----------------------------------------------------------------------------
(* The check of the host's memory.  The reference, Needs, is a recursive   *)
(* function; that it exists is part of what the walk shows: PartialSums is *)
(* a witness for the VMs behind, and every function that satisfies the     *)
(* recursion agrees with what the walk has added up.                       *)

AreSums(vms, f, n) == f = [i \in 0..n |-> IF i = 0 THEN 0 ELSE f[i-1] + Uses(vms[i])]

Capped(s) == IF s >= Word THEN Word - 1 ELSE s

Fit(vms) == \A i \in DOMAIN vms : Uses(vms[i]) < Word

AddedUp(vms, sum, n) ==
  /\ \E f \in [0..n -> Nat] : AreSums(vms, f, n)
  /\ \A f : AreSums(vms, f, Len(vms)) =>
       /\ f[n] \in Nat
       /\ Fit(vms) => sum = Capped(f[n])

VmsOk(vms) == IsList(vms) /\ \A i \in DOMAIN vms : vms[i].memory.num \in Nat

BootHolds ==
  call.kind = "boot" =>
    LET n == Len(call.vms)
    IN /\ VmsOk(call.vms) /\ call.total \in 0..Word-1 /\ call.memory.num \in Nat
       /\ at \in 1..n+1
       /\ out = [allocated |-> out.allocated, boots |-> out.boots]
       /\ \/ pass = "instances" /\ AddedUp(call.vms, out.allocated, at-1)
          \/ pass = "done" /\ ~Parses(call.memory)
          \/ /\ pass = "done" /\ AddedUp(call.vms, out.allocated, n)
             /\ out.boots = CheckCapacity(ParseDiskSize(NormalizeSize(call.memory)),
                                          call.total, out.allocated, call.force)

LEMMA UsesNat ==
  ASSUME NEW vms, VmsOk(vms), NEW i \in DOMAIN vms
  PROVE  Uses(vms[i]) \in Nat
<1>1. vms[i].memory.num \in Nat
  BY DEF VmsOk
<1>2. CASE Parses(vms[i].memory)
  <2> DEFINE u == Units[Letter[vms[i].memory.suffix]]
  <2>1. u \in Nat
    BY <1>2, ScansAssumption DEF Parses
  <2>2. \A a, b \in Nat : a * b \in Nat
    OBVIOUS
  <2>3. Bytes(vms[i].memory) \in Nat
    BY <1>1, <2>1, <2>2 DEF Bytes
  <2> QED BY <2>3 DEF Uses
<1>3. CASE ~Parses(vms[i].memory)
  BY <1>3 DEF Uses
<1> QED BY <1>2, <1>3

LEMMA BootInit == Init => BootHolds
<1> SUFFICES ASSUME Init, call.kind = "boot" PROVE BootHolds
  BY DEF BootHolds
<1>1. PICK b \in Boots : call = [kind |-> "boot", vms |-> b.vms, total |-> b.total,
                                 memory |-> b.memory, force |-> b.force]
  BY ScanInit DEF InitScan
<1>2. pass = "instances" /\ out = [allocated |-> 0, boots |-> FALSE] /\ at = 1
  BY ScanInit DEF InitScan
<1>3. VmsOk(call.vms) /\ call.total \in 0..Word-1 /\ call.memory.num \in Nat
  BY <1>1, ScansAssumption DEF VmsOk
<1>4. Len(call.vms) \in Nat
  BY <1>3, ListFacts DEF VmsOk
<1>5. AddedUp(call.vms, 0, 0)
  <2>1. AreSums(call.vms, [i \in 0..0 |-> 0], 0)
    BY DEF AreSums
  <2>2. [i \in 0..0 |-> 0] \in [0..0 -> Nat]
    OBVIOUS
  <2>3. ASSUME NEW f, AreSums(call.vms, f, Len(call.vms)) PROVE f[0] = 0
    BY <2>3, <1>4 DEF AreSums
  <2>4. Capped(0) = 0
    BY WordAssumption DEF Capped
  <2> QED BY <2>1, <2>2, <2>3, <2>4 DEF AddedUp
<1> QED BY <1>2, <1>3, <1>4, <1>5 DEF BootHolds

(* What one more VM adds, when it fits in a word.                          *)
LEMMA OneMoreVm ==
  ASSUME NEW vms, VmsOk(vms), NEW i \in DOMAIN vms, Uses(vms[i]) < Word,
         NEW s \in Nat
  PROVE  ProbeAllocated(Capped(s), vms[i]) = Capped(s + Uses(vms[i]))
<1> DEFINE vm == vms[i]
           u == Uses(vm)
<1>1. u \in Nat /\ u < Word /\ Word \in Nat \ {0}
  BY UsesNat, WordAssumption
<1>2. CASE vm.loads /\ vm.status \in Committed /\ Parses(vm.memory)
  <2>1. u = Bytes(vm.memory)
    BY <1>2 DEF Uses
  <2>2. ParseDiskSize(vm.memory) = u % Word
    BY <2>1 DEF ParseDiskSize, Bytes
  <2>3. u % Word = u
    BY <1>1
  <2>4. ProbeAllocated(Capped(s), vm) = SaturatingAdd(Capped(s), u)
    BY <1>2, <2>2, <2>3 DEF ProbeAllocated
  <2>5. SaturatingAdd(Capped(s), u) = Capped(s + u)
    <3> HIDE DEF u
    <3> QED BY <1>1 DEF SaturatingAdd, Capped
  <2> QED BY <2>4, <2>5
<1>3. CASE ~(vm.loads /\ vm.status \in Committed /\ Parses(vm.memory))
  <2>1. u = 0
    BY <1>3 DEF Uses
  <2>2. ProbeAllocated(Capped(s), vm) = Capped(s)
    BY <1>3 DEF ProbeAllocated
  <2> QED BY <2>1, <2>2
<1> QED BY <1>2, <1>3

LEMMA OneMoreSum ==
  ASSUME NEW vms, VmsOk(vms), NEW sum, NEW n \in Nat, n + 1 <= Len(vms), AddedUp(vms, sum, n)
  PROVE  AddedUp(vms, ProbeAllocated(sum, vms[n+1]), n+1)
<1>1. DOMAIN vms = 1..Len(vms) /\ Len(vms) \in Nat /\ n + 1 \in DOMAIN vms
  BY ListFacts DEF VmsOk
<1>2. Uses(vms[n+1]) \in Nat
  BY <1>1, UsesNat
<1>3. \E f \in [0..n+1 -> Nat] : AreSums(vms, f, n+1)
  <2>1. PICK f \in [0..n -> Nat] : AreSums(vms, f, n)
    BY DEF AddedUp
  <2> DEFINE g == [i \in 0..n+1 |-> IF i = n+1 THEN f[n] + Uses(vms[n+1]) ELSE f[i]]
  <2>2. g \in [0..n+1 -> Nat]
    BY <2>1, <1>2
  <2>3. \A i \in 0..n+1 : g[i] = IF i = 0 THEN 0 ELSE g[i-1] + Uses(vms[i])
    <3> TAKE i \in 0..n+1
    <3>1. CASE i = n+1
      BY <3>1
    <3>2. CASE i # n+1
      <4>1. i \in 0..n /\ g[i] = f[i]
        BY <3>2
      <4>2. f[i] = IF i = 0 THEN 0 ELSE f[i-1] + Uses(vms[i])
        BY <2>1, <4>1 DEF AreSums
      <4>3. i # 0 => g[i-1] = f[i-1]
        BY <4>1
      <4> QED BY <4>1, <4>2, <4>3
    <3> QED BY <3>1, <3>2
  <2> HIDE DEF g
  <2>4. g = [i \in 0..n+1 |-> IF i = 0 THEN 0 ELSE g[i-1] + Uses(vms[i])]
    BY <2>2, <2>3
  <2> QED BY <2>2, <2>4 DEF AreSums
<1>4. ASSUME NEW f, AreSums(vms, f, Len(vms))
      PROVE  /\ f[n+1] \in Nat
             /\ Fit(vms) => ProbeAllocated(sum, vms[n+1]) = Capped(f[n+1])
  <2>1. f[n] \in Nat /\ (Fit(vms) => sum = Capped(f[n]))
    BY <1>4 DEF AddedUp
  <2>2. f[n+1] = f[n] + Uses(vms[n+1])
    <3>1. n + 1 \in 0..Len(vms) /\ n + 1 # 0 /\ (n + 1) - 1 = n
      BY <1>1
    <3> QED BY <3>1, <1>4 DEF AreSums
  <2>3. Fit(vms) => Uses(vms[n+1]) < Word
    BY <1>1 DEF Fit
  <2> QED BY <1>1, <1>2, <2>1, <2>2, <2>3, OneMoreVm, SMTT(60)
<1> QED BY <1>3, <1>4 DEF AddedUp

LEMMA BootStep == BootHolds /\ [Next]_vars => BootHolds'
<1> SUFFICES ASSUME BootHolds, [Next]_vars, call'.kind = "boot" PROVE BootHolds'
  BY DEF BootHolds
<1>0. /\ call' = call /\ call.kind = "boot"
      /\ CheckMemory \/ UNCHANGED vars
  BY ScanStep DEF NextScan, DestroyCommand, CheckMemory, CurrentDefaultMachineType, FindGuestIp, In,
     NoTarget, ParseSelector, SelectorsParsed, SelectInstance, Confirm, DestroyInstance, Destroyed,
     RefuseSize, CountInstance, CheckBoot, ReadLease, NameUnknown, LeaseFound, ReadAlias,
     NotAnnotated, ReadVersion, MachineFound
<1> DEFINE vms == call.vms
           n == Len(vms)
<1>1. /\ n \in Nat /\ at \in 1..n+1 /\ VmsOk(vms)
      /\ call.total \in 0..Word-1 /\ call.memory.num \in Nat
      /\ out = [allocated |-> out.allocated, boots |-> out.boots]
  BY <1>0, ListFacts DEF BootHolds, VmsOk
<1>2. CASE RefuseSize
  <2>1. pass' = "done" /\ ~Parses(call.memory) /\ out' = out /\ at' = at
    BY <1>2 DEF RefuseSize, Done
  <2> QED BY <2>1, <1>0, <1>1 DEF BootHolds
<1>3. CASE CountInstance
  <2>1. /\ pass = "instances" /\ pass' = pass /\ at <= n /\ at' = at + 1
        /\ out' = [out EXCEPT !.allocated = ProbeAllocated(@, vms[at])]
    BY <1>3 DEF CountInstance, In, On
  <2>2. at - 1 \in Nat /\ (at - 1) + 1 = at /\ at' - 1 = at /\ at' \in 1..n+1
    BY <1>1, <2>1
  <2>3. /\ out'.allocated = ProbeAllocated(out.allocated, vms[at])
        /\ out' = [allocated |-> out'.allocated, boots |-> out'.boots]
    BY <2>1, <1>1
  <2>4. AddedUp(vms, out.allocated, at-1)
    BY <2>1, <1>0 DEF BootHolds
  <2>5. AddedUp(vms, out'.allocated, at)
    BY <2>1, <2>2, <2>3, <2>4, <1>1, OneMoreSum
  <2> QED BY <2>1, <2>2, <2>3, <2>5, <1>0, <1>1 DEF BootHolds
<1>4. CASE CheckBoot
  <2>1. /\ pass = "instances" /\ pass' = "done" /\ at > n /\ at' = at
        /\ out' = [out EXCEPT !.boots = CheckCapacity(ParseDiskSize(NormalizeSize(call.memory)),
                                                      call.total, out.allocated, call.force)]
    BY <1>4 DEF CheckBoot, In, Past, Done
  <2>2. at - 1 = n
    BY <1>1, <2>1
  <2>3. /\ out'.allocated = out.allocated
        /\ out'.boots = CheckCapacity(ParseDiskSize(NormalizeSize(call.memory)),
                                      call.total, out.allocated, call.force)
        /\ out' = [allocated |-> out'.allocated, boots |-> out'.boots]
    BY <2>1, <1>1
  <2>4. AddedUp(vms, out.allocated, n)
    BY <2>1, <2>2, <1>0 DEF BootHolds
  <2> QED BY <2>1, <2>3, <2>4, <1>0, <1>1 DEF BootHolds
<1>5. CASE UNCHANGED vars
  BY <1>5, <1>0 DEF vars, BootHolds
<1> QED BY <1>0, <1>2, <1>3, <1>4, <1>5 DEF CheckMemory

(* The comparison, as integers.                                            *)
LEMMA WithinHost ==
  ASSUME NEW total \in 1..Word-1, NEW needs \in Nat, NEW b \in Nat, b < Word
  PROVE  (SaturatingAdd(Capped(needs), b) <= (total * 9) \div 10)
           = (10 * (needs + b) <= 9 * total)
<1>0. Word \in Nat \ {0}
  BY WordAssumption
<1> DEFINE q == (total * 9) \div 10
<1>1. q \in Nat /\ 10 * q <= 9 * total /\ 9 * total < 10 * q + 10
  BY <1>0
<1> HIDE DEF q
<1>2. CASE needs + b < Word
  <2>1. SaturatingAdd(Capped(needs), b) = needs + b
    BY <1>0, <1>2 DEF SaturatingAdd, Capped
  <2> QED BY <1>0, <1>1, <2>1 DEF q
<1>3. CASE needs + b >= Word
  <2>1. SaturatingAdd(Capped(needs), b) = Word - 1
    BY <1>0, <1>3 DEF SaturatingAdd, Capped
  <2>2. ~(Word - 1 <= q)
    BY <1>0, <1>1
  <2>3. ~(10 * (needs + b) <= 9 * total)
    BY <1>0, <1>3
  <2> QED BY <2>1, <2>2, <2>3 DEF q
<1> QED BY <1>0, <1>2, <1>3

LEMMA BootFinal == BootHolds => BootsWithinHost
<1> SUFFICES ASSUME BootHolds, call.kind = "boot", pass = "done", ~call.force, call.total > 0,
                    Parses(call.memory), Bytes(call.memory) < Word, Fit(call.vms)
             PROVE  out.boots = (10 * (Needs(call.vms) + Bytes(call.memory)) <= 9 * call.total)
  BY DEF BootsWithinHost, Returned, Fit
<1> DEFINE vms == call.vms
           n == Len(vms)
           b == Bytes(call.memory)
           f == CHOOSE f : AreSums(vms, f, n)
<1>1. /\ VmsOk(vms) /\ call.total \in 1..Word-1 /\ call.memory.num \in Nat
      /\ AddedUp(vms, out.allocated, n)
      /\ out.boots = CheckCapacity(ParseDiskSize(NormalizeSize(call.memory)),
                                   call.total, out.allocated, call.force)
  BY WordAssumption DEF BootHolds
<1>2. AreSums(vms, f, n)
  BY <1>1 DEF AddedUp
<1>3. f[n] \in Nat /\ out.allocated = Capped(f[n])
  BY <1>1, <1>2 DEF AddedUp
<1>4. Needs(vms) = f[n]
  BY DEF Needs, AreSums
<1>5. b \in Nat
  <2>1. Units[Letter[call.memory.suffix]] \in Nat
    BY ScansAssumption DEF Parses
  <2>2. \A x, y \in Nat : x * y \in Nat
    OBVIOUS
  <2> QED BY <1>1, <2>1, <2>2 DEF Bytes
<1>6. ParseDiskSize(NormalizeSize(call.memory)) = b
  <2>1. NormalizeSize(call.memory).num = call.memory.num
    BY DEF NormalizeSize
  <2>2. Letter[NormalizeSize(call.memory).suffix] = Letter[call.memory.suffix]
    BY ScansAssumption DEF NormalizeSize, Parses
  <2>3. ParseDiskSize(NormalizeSize(call.memory)) = b % Word
    BY <2>1, <2>2 DEF ParseDiskSize, Bytes
  <2> HIDE DEF b
  <2>4. b % Word = b
    BY <1>5, WordAssumption DEF b
  <2> QED BY <2>3, <2>4
<1>7. out.boots = (SaturatingAdd(Capped(f[n]), b) <= (call.total * 9) \div 10)
  BY <1>1, <1>3, <1>6 DEF CheckCapacity
<1> QED BY <1>1, <1>3, <1>4, <1>5, <1>7, WithinHost, SMTT(60)

(* However many VMs there are, one is booted exactly when it fits in 90%   *)
(* of the host's memory together with those that run (check_capacity).     *)
THEOREM BootsWithinHostTheorem == Spec => []BootsWithinHost
<1>1. Spec => []BootHolds
  BY BootInit, BootStep, PTL DEF Spec
<1> QED BY <1>1, BootFinal, PTL
-----------------------------------------------------------------------------
(* The choice of the VMs to destroy.                                       *)

(* What the first n selectors ask for.                                     *)
WantOf(raw, want, n) ==
  /\ DOMAIN want = {raw[i].key : i \in 1..n}
  /\ \A i \in 1..n : raw[i].value = Bare => want[raw[i].key] = Bare
  /\ \A k \in DOMAIN want : want[k] = Bare =>
       \E i \in 1..n : raw[i].key = k /\ raw[i].value = Bare
  /\ \A k \in DOMAIN want : want[k] # Bare =>
       \E i \in 1..n : /\ raw[i].key = k /\ raw[i].value = want[k]
                       /\ \A j \in 1..n : raw[j].key = k => j <= i

(* Those of the first n VMs that match.                                    *)
Selected(vms, want, n) == {i \in 1..n : vms[i].loads /\ InstanceMatchesLabels(vms[i].labels, want)}

Spares(vms, S, force) == force \/ \A i \in S : vms[i].status \notin {"running", "configuring"}

DestroyHolds ==
  call.kind = "destroy" =>
    LET n == Len(call.vms)
        m == Len(call.raw)
        selected == /\ WantOf(call.raw, out.want, m)
                    /\ out.destroys = Selected(call.vms, out.want, n)
                    /\ Spares(call.vms, out.destroys, call.force)
    IN /\ IsList(call.vms) /\ IsList(call.raw)
       /\ at \in Nat \ {0}
       /\ out = [err |-> out.err, want |-> out.want, destroys |-> out.destroys,
                 gone |-> out.gone, failed |-> out.failed]
       /\ pass # "done" => out.err = "none"
       /\ pass \in {"selectors", "instances"} => out.gone = {} /\ out.failed = {}
       /\ \/ /\ pass = "selectors" /\ at <= m+1 /\ out.destroys = {}
             /\ WantOf(call.raw, out.want, at-1)
          \/ /\ pass = "instances" /\ at <= n+1
             /\ WantOf(call.raw, out.want, m)
             /\ out.destroys = Selected(call.vms, out.want, at-1)
          \/ /\ pass = "destroy" /\ at <= n+1 /\ selected
             /\ out.gone \cup out.failed = {i \in out.destroys : i <= at-1}
          \/ pass = "done" /\ out.err \notin {"none", "declined"}
          \/ pass = "done" /\ out.err = "declined" /\ selected /\ out.gone = {} /\ out.failed = {}
          \/ /\ pass = "done" /\ out.err = "none" /\ selected
             /\ out.gone \cup out.failed = out.destroys

LEMMA DestroyInit == Init => DestroyHolds
<1> SUFFICES ASSUME Init, call.kind = "destroy" PROVE DestroyHolds
  BY DEF DestroyHolds
<1>1. PICK d \in Destroys : call = [kind |-> "destroy", vms |-> d.vms, raw |-> d.raw,
                                    force |-> d.force]
  BY ScanInit DEF InitScan
<1>2. /\ pass = "selectors" /\ at = 1
      /\ out = [err |-> "none", want |-> <<>>, destroys |-> {}, gone |-> {}, failed |-> {}]
  BY ScanInit DEF InitScan
<1>3. IsList(call.vms) /\ IsList(call.raw)
  BY <1>1, ScansAssumption
<1>4. Len(call.raw) \in Nat
  BY <1>3, ListFacts
<1>5. WantOf(call.raw, <<>>, 0)
  BY DEF WantOf
<1> QED BY <1>2, <1>3, <1>4, <1>5 DEF DestroyHolds

(* One more selector.                                                      *)
LEMMA OneMoreSelector ==
  ASSUME NEW raw, NEW want, NEW n \in Nat, WantOf(raw, want, n)
  PROVE  WantOf(raw, ParseLabelSelectors(want, raw[n+1]), n+1)
<1> DEFINE e == raw[n+1]
           new == Put(want, e.key, e.value)
<1>1. CASE e.key \in DOMAIN want /\ want[e.key] = Bare
  <2>1. ParseLabelSelectors(want, e) = want
    BY <1>1 DEF ParseLabelSelectors
  <2>2. DOMAIN want = {raw[i].key : i \in 1..n+1}
    BY <1>1 DEF WantOf
  <2>3. \A i \in 1..n+1 : raw[i].value = Bare => want[raw[i].key] = Bare
    BY <1>1 DEF WantOf
  <2>4. \A k \in DOMAIN want : want[k] = Bare =>
          \E i \in 1..n+1 : raw[i].key = k /\ raw[i].value = Bare
    BY DEF WantOf
  <2>5. ASSUME NEW k \in DOMAIN want, want[k] # Bare
        PROVE  \E i \in 1..n+1 : /\ raw[i].key = k /\ raw[i].value = want[k]
                                 /\ \A j \in 1..n+1 : raw[j].key = k => j <= i
    <3>1. PICK i \in 1..n : /\ raw[i].key = k /\ raw[i].value = want[k]
                            /\ \A j \in 1..n : raw[j].key = k => j <= i
      BY <2>5 DEF WantOf
    <3>2. e.key # k
      BY <1>1, <2>5
    <3>3. \A j \in 1..n+1 : raw[j].key = k => j <= i
      BY <3>1, <3>2
    <3> QED BY <3>1, <3>3
  <2> QED BY <2>1, <2>2, <2>3, <2>4, <2>5, SMTT(60) DEF WantOf
<1>2. CASE ~(e.key \in DOMAIN want /\ want[e.key] = Bare)
  <2>1. ParseLabelSelectors(want, e) = new
    BY <1>2 DEF ParseLabelSelectors
  <2>2. /\ DOMAIN new = {e.key} \cup DOMAIN want
        /\ new[e.key] = e.value
        /\ \A k \in DOMAIN want : k # e.key => new[k] = want[k]
    BY DEF Put
  <2> HIDE DEF new
  <2>3. DOMAIN new = {raw[i].key : i \in 1..n+1}
    BY <2>2 DEF WantOf
  <2>4. ASSUME NEW i \in 1..n+1, raw[i].value = Bare PROVE new[raw[i].key] = Bare
    <3>1. CASE i = n+1
      BY <3>1, <2>2, <2>4
    <3>2. CASE i # n+1
      <4>1. raw[i].key \in DOMAIN want /\ want[raw[i].key] = Bare
        BY <3>2, <2>4 DEF WantOf
      <4> QED BY <4>1, <1>2, <2>2
    <3> QED BY <3>1, <3>2
  <2>5. ASSUME NEW k \in DOMAIN new, new[k] = Bare
        PROVE  \E i \in 1..n+1 : raw[i].key = k /\ raw[i].value = Bare
    <3>1. CASE k = e.key
      BY <3>1, <2>2, <2>5
    <3>2. CASE k # e.key
      <4>1. k \in DOMAIN want /\ want[k] = Bare
        BY <3>2, <2>2, <2>5
      <4> QED BY <4>1 DEF WantOf
    <3> QED BY <3>1, <3>2
  <2>6. ASSUME NEW k \in DOMAIN new, new[k] # Bare
        PROVE  \E i \in 1..n+1 : /\ raw[i].key = k /\ raw[i].value = new[k]
                                 /\ \A j \in 1..n+1 : raw[j].key = k => j <= i
    <3>1. CASE k = e.key
      BY <3>1, <2>2
    <3>2. CASE k # e.key
      <4>1. k \in DOMAIN want /\ want[k] # Bare /\ new[k] = want[k]
        BY <3>2, <2>2, <2>6
      <4>2. PICK i \in 1..n : /\ raw[i].key = k /\ raw[i].value = want[k]
                              /\ \A j \in 1..n : raw[j].key = k => j <= i
        BY <4>1 DEF WantOf
      <4>3. \A j \in 1..n+1 : raw[j].key = k => j <= i
        BY <4>2, <3>2
      <4> QED BY <4>1, <4>2, <4>3
    <3> QED BY <3>1, <3>2
  <2> QED BY <2>1, <2>3, <2>4, <2>5, <2>6 DEF WantOf
<1> QED BY <1>1, <1>2

LEMMA DestroyStep == DestroyHolds /\ [Next]_vars => DestroyHolds'
<1> SUFFICES ASSUME DestroyHolds, [Next]_vars, call'.kind = "destroy" PROVE DestroyHolds'
  BY DEF DestroyHolds
<1>0. /\ call' = call /\ call.kind = "destroy"
      /\ DestroyCommand \/ UNCHANGED vars
  BY ScanStep DEF NextScan, DestroyCommand, CheckMemory, CurrentDefaultMachineType, FindGuestIp, In,
     NoTarget, ParseSelector, SelectorsParsed, SelectInstance, Confirm, DestroyInstance, Destroyed,
     RefuseSize, CountInstance, CheckBoot, ReadLease, NameUnknown, LeaseFound, ReadAlias,
     NotAnnotated, ReadVersion, MachineFound
<1> DEFINE n == Len(call.vms)
           m == Len(call.raw)
<1>1. /\ n \in Nat /\ m \in Nat /\ at \in Nat \ {0}
      /\ IsList(call.vms) /\ IsList(call.raw)
      /\ out = [err |-> out.err, want |-> out.want, destroys |-> out.destroys,
                gone |-> out.gone, failed |-> out.failed]
  BY <1>0, ListFacts DEF DestroyHolds
<1>2. CASE NoTarget
  <2>1. pass' = "done" /\ at' = at /\ out' = [out EXCEPT !.err = "no_target"]
    BY <1>2 DEF NoTarget, Done
  <2>2. /\ out'.err = "no_target"
        /\ out' = [err |-> out'.err, want |-> out'.want, destroys |-> out'.destroys,
                   gone |-> out'.gone, failed |-> out'.failed]
    BY <2>1, <1>1
  <2> QED BY <2>1, <2>2, <1>0, <1>1 DEF DestroyHolds
<1>3. CASE ParseSelector
  <2>1. pass = "selectors" /\ at <= m
    BY <1>3 DEF ParseSelector, In
  <2>2. /\ WantOf(call.raw, out.want, at-1) /\ out.err = "none" /\ out.destroys = {}
        /\ out.gone = {} /\ out.failed = {}
    BY <2>1, <1>0 DEF DestroyHolds
  <2>3. CASE call.raw[at].key = NoKey
    <3>1. pass' = "done" /\ at' = at /\ out' = [out EXCEPT !.err = "empty_key"]
      BY <1>3, <2>3 DEF ParseSelector, Done
    <3>2. /\ out'.err = "empty_key"
          /\ out' = [err |-> out'.err, want |-> out'.want, destroys |-> out'.destroys,
                     gone |-> out'.gone, failed |-> out'.failed]
      BY <3>1, <1>1
    <3> QED BY <3>1, <3>2, <1>0, <1>1 DEF DestroyHolds
  <2>4. CASE call.raw[at].key # NoKey
    <3>1. /\ pass' = pass /\ at' = at + 1
          /\ out' = [out EXCEPT !.want = ParseLabelSelectors(@, call.raw[at])]
      BY <1>3, <2>4 DEF ParseSelector, On
    <3>2. /\ out'.want = ParseLabelSelectors(out.want, call.raw[at])
          /\ out' = [err |-> out'.err, want |-> out'.want, destroys |-> out'.destroys,
                     gone |-> out'.gone, failed |-> out'.failed]
          /\ out'.err = out.err /\ out'.destroys = out.destroys
          /\ out'.gone = out.gone /\ out'.failed = out.failed
      BY <3>1, <1>1
    <3>3. at - 1 \in Nat /\ (at - 1) + 1 = at /\ at' - 1 = at /\ at' \in Nat \ {0} /\ at' <= m+1
      BY <3>1, <2>1, <1>1
    <3>4. WantOf(call.raw, out'.want, at)
      BY <3>2, <3>3, <2>2, OneMoreSelector
    <3> QED BY <3>1, <3>2, <3>3, <3>4, <2>1, <2>2, <1>0, <1>1 DEF DestroyHolds
  <2> QED BY <2>3, <2>4
<1>4. CASE SelectorsParsed
  <2>1. pass = "selectors" /\ at > m /\ pass' = "instances" /\ at' = 1 /\ out' = out
    BY <1>4 DEF SelectorsParsed, In, Past, Walk
  <2>2. /\ WantOf(call.raw, out.want, at-1) /\ at <= m+1 /\ out.err = "none" /\ out.destroys = {}
        /\ out.gone = {} /\ out.failed = {}
    BY <2>1, <1>0 DEF DestroyHolds
  <2>3. at - 1 = m
    BY <2>1, <2>2, <1>1
  <2>4. Selected(call.vms, out.want, 0) = {}
    BY DEF Selected
  <2> QED BY <2>1, <2>2, <2>3, <2>4, <1>0, <1>1 DEF DestroyHolds
<1>5. CASE SelectInstance
  <2>1. /\ pass = "instances" /\ at <= n /\ at' = at + 1 /\ pass' = pass
        /\ out' = [out EXCEPT !.destroys = IF Matches(call.vms[at]) THEN @ \cup {at} ELSE @]
    BY <1>5 DEF SelectInstance, In, On
  <2>2. /\ WantOf(call.raw, out.want, m) /\ out.err = "none"
        /\ out.destroys = Selected(call.vms, out.want, at-1)
        /\ out.gone = {} /\ out.failed = {}
    BY <2>1, <1>0 DEF DestroyHolds
  <2>3. /\ out'.destroys = IF Matches(call.vms[at]) THEN out.destroys \cup {at} ELSE out.destroys
        /\ out' = [err |-> out'.err, want |-> out'.want, destroys |-> out'.destroys,
                   gone |-> out'.gone, failed |-> out'.failed]
        /\ out'.err = out.err /\ out'.want = out.want
        /\ out'.gone = out.gone /\ out'.failed = out.failed
    BY <2>1, <1>1
  <2>4. at' - 1 = at /\ at' \in Nat \ {0} /\ at' <= n+1
    BY <2>1, <1>1
  <2>5. out'.destroys = Selected(call.vms, out.want, at)
    BY <2>2, <2>3, <1>1 DEF Selected, Matches
  <2> QED BY <2>1, <2>2, <2>3, <2>4, <2>5, <1>0, <1>1 DEF DestroyHolds
<1>6. CASE Confirm
  <2>1. pass = "instances" /\ at > n
    BY <1>6 DEF Confirm, In, Past
  <2>2. /\ WantOf(call.raw, out.want, m) /\ out.err = "none" /\ at <= n+1
        /\ out.destroys = Selected(call.vms, out.want, at-1)
        /\ out.gone = {} /\ out.failed = {}
    BY <2>1, <1>0 DEF DestroyHolds
  <2>3. out.destroys = Selected(call.vms, out.want, n)
    <3>1. at - 1 = n
      BY <2>1, <2>2, <1>1
    <3> QED BY <3>1, <2>2
  <2>4. CASE ~Spares(call.vms, out.destroys, call.force)
    <3>1. pass' = "done" /\ at' = at /\ out' = [out EXCEPT !.err = "running"]
      BY <1>6, <2>4 DEF Confirm, Done, Spares
    <3>2. /\ out'.err = "running"
          /\ out' = [err |-> out'.err, want |-> out'.want, destroys |-> out'.destroys,
                     gone |-> out'.gone, failed |-> out'.failed]
      BY <3>1, <1>1
    <3> QED BY <3>1, <3>2, <1>0, <1>1 DEF DestroyHolds
  <2>5. CASE Spares(call.vms, out.destroys, call.force)
    <3>1. \/ pass' = "destroy" /\ at' = 1 /\ out' = out
          \/ pass' = "done" /\ at' = at /\ out' = [out EXCEPT !.err = "declined"]
      BY <1>6, <2>5 DEF Confirm, Done, Walk, Spares
    <3>2. CASE pass' = "destroy" /\ at' = 1 /\ out' = out
      <4>1. \A i \in out.destroys : ~(i <= 0)
        BY <2>3 DEF Selected
      <4>2. {i \in out.destroys : i <= at'-1} = {}
        BY <4>1, <3>2
      <4> QED BY <3>2, <4>2, <2>2, <2>3, <2>5, <1>0, <1>1 DEF DestroyHolds
    <3>3. CASE pass' = "done" /\ at' = at /\ out' = [out EXCEPT !.err = "declined"]
      <4>1. /\ out'.err = "declined"
            /\ out' = [err |-> out'.err, want |-> out'.want, destroys |-> out'.destroys,
                       gone |-> out'.gone, failed |-> out'.failed]
            /\ out'.want = out.want /\ out'.destroys = out.destroys
            /\ out'.gone = out.gone /\ out'.failed = out.failed
        BY <3>3, <1>1
      <4> QED BY <3>3, <4>1, <2>2, <2>3, <2>5, <1>0, <1>1 DEF DestroyHolds
    <3> QED BY <3>1, <3>2, <3>3
  <2> QED BY <2>4, <2>5
<1>7. CASE DestroyInstance
  <2>1. pass = "destroy" /\ at <= n /\ at' = at + 1 /\ pass' = pass
    BY <1>7 DEF DestroyInstance, In, On
  <2>2. /\ WantOf(call.raw, out.want, m) /\ out.err = "none"
        /\ out.destroys = Selected(call.vms, out.want, n)
        /\ Spares(call.vms, out.destroys, call.force)
        /\ out.gone \cup out.failed = {i \in out.destroys : i <= at-1}
    BY <2>1, <1>0 DEF DestroyHolds
  <2>3. /\ \/ at \notin out.destroys /\ out'.gone = out.gone /\ out'.failed = out.failed
           \/ at \in out.destroys /\ out'.gone = out.gone \cup {at} /\ out'.failed = out.failed
           \/ at \in out.destroys /\ out'.gone = out.gone /\ out'.failed = out.failed \cup {at}
        /\ out' = [err |-> out'.err, want |-> out'.want, destroys |-> out'.destroys,
                   gone |-> out'.gone, failed |-> out'.failed]
        /\ out'.err = out.err /\ out'.want = out.want /\ out'.destroys = out.destroys
    BY <1>7, <1>1 DEF DestroyInstance
  <2>4. at' - 1 = at /\ at' \in Nat \ {0} /\ at' <= n+1
    BY <2>1, <1>1
  <2>5. out'.gone \cup out'.failed = {i \in out.destroys : i <= at}
    <3>1. \A i \in out.destroys : i \in Nat
      BY <2>2, <1>1 DEF Selected
    <3>2. \A i \in out.destroys : i <= at <=> (i <= at-1 \/ i = at)
      BY <3>1, <1>1
    <3> QED BY <3>2, <2>2, <2>3
  <2> QED BY <2>1, <2>2, <2>3, <2>4, <2>5, <1>0, <1>1 DEF DestroyHolds
<1>8. CASE Destroyed
  <2>1. pass = "destroy" /\ at > n /\ pass' = "done" /\ at' = at /\ out' = out
    BY <1>8 DEF Destroyed, In, Past, Done
  <2>2. /\ WantOf(call.raw, out.want, m) /\ out.err = "none" /\ at <= n+1
        /\ out.destroys = Selected(call.vms, out.want, n)
        /\ Spares(call.vms, out.destroys, call.force)
        /\ out.gone \cup out.failed = {i \in out.destroys : i <= at-1}
    BY <2>1, <1>0 DEF DestroyHolds
  <2>3. out.gone \cup out.failed = out.destroys
    BY <2>1, <2>2, <1>1 DEF Selected
  <2> QED BY <2>1, <2>2, <2>3, <1>0, <1>1 DEF DestroyHolds
<1>9. CASE UNCHANGED vars
  BY <1>9, <1>0 DEF vars, DestroyHolds
<1> QED BY <1>0, <1>2, <1>3, <1>4, <1>5, <1>6, <1>7, <1>8, <1>9 DEF DestroyCommand

(* What it takes to match, said by the selectors one by one.               *)
Asked(raw, labels) ==
  \A i \in DOMAIN raw :
    /\ raw[i].key \in DOMAIN labels
    /\ \/ \E j \in DOMAIN raw : raw[j].key = raw[i].key /\ raw[j].value = Bare
       \/ (\A j \in DOMAIN raw : raw[j].key = raw[i].key => j <= i)
            => labels[raw[i].key] = raw[i].value

LEMMA MatchIsAsked ==
  ASSUME NEW raw, NEW want, NEW n \in Nat, DOMAIN raw = 1..n, WantOf(raw, want, n), NEW labels
  PROVE  InstanceMatchesLabels(labels, want) <=> Asked(raw, labels)
<1>1. ASSUME InstanceMatchesLabels(labels, want), NEW i \in 1..n,
             ~\E j \in 1..n : raw[j].key = raw[i].key /\ raw[j].value = Bare,
             \A j \in 1..n : raw[j].key = raw[i].key => j <= i
      PROVE  labels[raw[i].key] = raw[i].value
  <2> DEFINE k == raw[i].key
  <2>1. k \in DOMAIN want
    BY DEF WantOf
  <2>2. want[k] # Bare
    BY <1>1, <2>1 DEF WantOf
  <2>3. PICK j \in 1..n : /\ raw[j].key = k /\ raw[j].value = want[k]
                          /\ \A h \in 1..n : raw[h].key = k => h <= j
    BY <2>1, <2>2 DEF WantOf
  <2>4. i = j
    BY <2>3, <1>1
  <2>5. want[k] = labels[k]
    BY <1>1, <2>1, <2>2 DEF InstanceMatchesLabels
  <2> QED BY <2>3, <2>4, <2>5
<1>2. ASSUME InstanceMatchesLabels(labels, want), NEW i \in 1..n
      PROVE  raw[i].key \in DOMAIN labels
  BY <1>2 DEF InstanceMatchesLabels, WantOf
<1>3. ASSUME Asked(raw, labels),
             NEW k \in DOMAIN want
      PROVE  k \in DOMAIN labels /\ want[k] \in {Bare, labels[k]}
  <2>1. PICK i \in 1..n : raw[i].key = k
    BY DEF WantOf
  <2>2. k \in DOMAIN labels
    BY <2>1, <1>3 DEF Asked
  <2>3. CASE want[k] # Bare
    <3>1. PICK j \in 1..n : /\ raw[j].key = k /\ raw[j].value = want[k]
                            /\ \A h \in 1..n : raw[h].key = k => h <= j
      BY <2>3 DEF WantOf
    <3>2. ~\E h \in 1..n : raw[h].key = k /\ raw[h].value = Bare
      BY <2>3 DEF WantOf
    <3>3. labels[k] = want[k]
      BY <3>1, <3>2, <1>3 DEF Asked
    <3> QED BY <2>2, <3>3
  <2> QED BY <2>2, <2>3
<1> QED BY <1>1, <1>2, <1>3 DEF InstanceMatchesLabels, Asked

(* Who passes all the filters is asked for; and nobody else, unless two    *)
(* filters name one key.                                                   *)
LEMMA PassingIsAsked ==
  ASSUME NEW raw, NEW v, NEW n \in Nat, DOMAIN raw = 1..n
  PROVE  /\ PassesAll(raw, v) => v.loads /\ Asked(raw, v.labels)
         /\ (\A i, j \in DOMAIN raw : raw[i].key = raw[j].key => i = j)
               => (PassesAll(raw, v) <=> v.loads /\ Asked(raw, v.labels))
<1>1. ASSUME PassesAll(raw, v), NEW i \in DOMAIN raw
      PROVE  /\ raw[i].key \in DOMAIN v.labels
             /\ \/ \E j \in DOMAIN raw : raw[j].key = raw[i].key /\ raw[j].value = Bare
                \/ v.labels[raw[i].key] = raw[i].value
  BY <1>1 DEF PassesAll
<1>2. ASSUME \A i, j \in DOMAIN raw : raw[i].key = raw[j].key => i = j,
             Asked(raw, v.labels), NEW i \in DOMAIN raw
      PROVE  raw[i].key \in DOMAIN v.labels /\ raw[i].value \in {Bare, v.labels[raw[i].key]}
  <2>1. CASE \E j \in DOMAIN raw : raw[j].key = raw[i].key /\ raw[j].value = Bare
    BY <2>1, <1>2 DEF Asked
  <2>2. CASE ~\E j \in DOMAIN raw : raw[j].key = raw[i].key /\ raw[j].value = Bare
    <3>1. raw[i].key \in DOMAIN v.labels
      BY <1>2 DEF Asked
    <3>2. (\A h \in DOMAIN raw : raw[h].key = raw[i].key => h <= i)
            => v.labels[raw[i].key] = raw[i].value
      BY <2>2, <1>2 DEF Asked
    <3>3. \A h \in DOMAIN raw : raw[h].key = raw[i].key => h <= i
      <4>1. \A h \in DOMAIN raw : raw[h].key = raw[i].key => h = i
        BY <1>2
      <4> QED BY <4>1, <1>2
    <3> QED BY <3>1, <3>2, <3>3
  <2> QED BY <2>1, <2>2
<1> QED BY <1>1, <1>2 DEF PassesAll, Asked

LEMMA DestroyFinal == DestroyHolds => DestroysWhatMatches
<1> SUFFICES ASSUME DestroyHolds, call.kind = "destroy", pass = "done",
                    out.err \in {"none", "declined"}
             PROVE  DestroysWhatMatches
  BY DEF DestroysWhatMatches, Returned
<1> DEFINE n == Len(call.vms)
           m == Len(call.raw)
           raw == call.raw
           fits(v) == v.loads /\ Asked(raw, v.labels)
<1>1. /\ IsList(call.vms) /\ IsList(raw) /\ WantOf(raw, out.want, m)
      /\ out.destroys = Selected(call.vms, out.want, n)
      /\ Spares(call.vms, out.destroys, call.force)
      /\ out.gone \cup out.failed = (IF out.err = "none" THEN out.destroys ELSE {})
  BY DEF DestroyHolds
<1>2. n \in Nat /\ DOMAIN call.vms = 1..n /\ m \in Nat /\ DOMAIN raw = 1..m
  BY <1>1, ListFacts
<1>3. ASSUME NEW v PROVE fits(v) <=> v.loads /\ InstanceMatchesLabels(v.labels, out.want)
  BY <1>1, <1>2, MatchIsAsked
<1>4. out.destroys = {i \in DOMAIN call.vms : fits(call.vms[i])}
  <2> HIDE DEF fits
  <2> QED BY <1>1, <1>2, <1>3 DEF Selected
<1>5. call.force \/ \A i \in out.destroys : call.vms[i].status # "running"
  BY <1>1 DEF Spares
<1>6. Passing \subseteq out.destroys
  <2>1. \A v : PassesAll(raw, v) => fits(v)
    BY <1>2, PassingIsAsked
  <2> HIDE DEF fits
  <2> QED BY <2>1, <1>4 DEF Passing
<1>7. NoKeyTwice => out.destroys = Passing
  <2> SUFFICES ASSUME NoKeyTwice PROVE out.destroys = Passing
    OBVIOUS
  <2>1. \A v : PassesAll(raw, v) <=> fits(v)
    BY <1>2, PassingIsAsked DEF NoKeyTwice
  <2> HIDE DEF fits
  <2> QED BY <2>1, <1>4 DEF Passing
<1> QED BY <1>1, <1>5, <1>6, <1>7 DEF DestroysWhatMatches

(* However many VMs and selectors there are, the VMs destroyed are those   *)
(* that pass all the filters, as long as no two filters name one key; and  *)
(* one that fails keeps no other (destroy_command, parse_label_selectors). *)
THEOREM DestroysWhatMatchesTheorem == Spec => []DestroysWhatMatches
<1>1. Spec => []DestroyHolds
  BY DestroyInit, DestroyStep, PTL DEF Spec
<1> QED BY <1>1, DestroyFinal, PTL
=============================================================================
