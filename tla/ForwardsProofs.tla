--------------------------- MODULE ForwardsProofs ---------------------------
(***************************************************************************)
(* Proofs about Forwards, for any ports, addresses and numbers of          *)
(* supervisors and forwards, wherever a command is killed.                 *)
(*                                                                         *)
(* The argument: whoever spawns a supervisor holds it in memory until      *)
(* forwards.toml has it (Known, ListAt), so that whoever kills by the list *)
(* kills all of them (NoneAt, TakenAt); a kill in between, or a cut list,  *)
(* makes a stray of who is not in the file (Unlisted); and what is still   *)
(* to be spawned clashes neither with itself nor with what is live         *)
(* (UniqueAt).                                                             *)
(***************************************************************************)
EXTENDS Forwards, TLAPS

\* Nobody is spawned, ended or left behind.
LEMMA Same ==
  ASSUME UNCHANGED sups
  PROVE  runs' = runs /\ stray' = stray /\ Live' = Live /\ Ours' = Ours
BY DEF sups, Live, Ours

\* What killing the supervisors of some entries leaves.
LEMMA Killing ==
  ASSUME NEW E \in SUBSET Entries, TypeOK, KillSupervisors(E)
  PROVE  /\ runs' \in [Sups -> Specs \cup {None}]
         /\ stray' \subseteq Live'
         /\ Live' = {p \in Live : \A e \in E : e.pid # p}
         /\ Ours' = {p \in Ours : \A e \in E : e.pid # p}
         /\ \A p \in Live' : runs'[p] = runs[p]
  <1>1. /\ runs' \in [Sups -> Specs \cup {None}]
        /\ Live' = {p \in Live : \A e \in E : e.pid # p}
        /\ \A p \in Live' : runs'[p] = runs[p]
    BY DEF TypeOK, KillSupervisors, Live
  <1>2. stray' = {p \in stray : \A e \in E : e.pid # p}  BY DEF KillSupervisors
  <1>3. QED  BY <1>1, <1>2 DEF TypeOK, Ours

\* A new supervisor beside the others.
LEMMA Spawning ==
  ASSUME NEW p \in Sups, NEW s \in Specs, TypeOK, Free(p),
         runs' = [runs EXCEPT ![p] = s], stray' = stray
  PROVE  /\ runs' \in [Sups -> Specs \cup {None}]
         /\ stray' \subseteq Live'
         /\ Live' = Live \cup {p} /\ p \notin Live
         /\ Ours' = Ours \cup {p} /\ p \notin Ours
         /\ runs'[p] = s
         /\ \A q \in Live : runs'[q] = runs[q]
         /\ \A e \in listed \cup active : e.pid # p
  <1>1. /\ runs' \in [Sups -> Specs \cup {None}]
        /\ Live' = Live \cup {p} /\ p \notin Live
        /\ runs'[p] = s
        /\ \A q \in Live : runs'[q] = runs[q]
        /\ \A e \in listed \cup active : e.pid # p
    BY ForwardsAssumption DEF TypeOK, Free, Live
  <1>2. QED  BY <1>1 DEF TypeOK, Ours

\* Forwards of two lists that do not conflict bind different things.
LEMMA NoClash ==
  ASSUME NEW A, NEW B, ~Conflicts(A, B), NEW s \in A, NEW t \in B
  PROVE  bind_keys(s) \cap bind_keys(t) = {}
BY DEF Conflicts, Claimed

\* The empty list is free of duplicates.
LEMMA NothingClashes ==
  validate_unique({})
BY DEF validate_unique

\* Ending supervisors makes nobody share an address and port, as long as those
\* that are left stay where they are listed.
LEMMA BindsKept ==
  ASSUME BindsDisjoint, Ours' \subseteq Ours, \A p \in Ours' : runs'[p] = runs[p],
         \A e \in listed \cup active : e.pid \in Ours' => e \in listed' \cup active'
  PROVE  BindsDisjoint'
  <1>1. ASSUME NEW o, NEW p \in Ours', p \in Of(o)
        PROVE  p \in Of(o)'
    BY <1>1 DEF Of
  <1>2. ASSUME NEW p \in Ours', NEW q \in Ours', p # q, ~Disjoint(runs'[p], runs'[q])
        PROVE  \/ p \in Of("auto")' /\ q \in Of("config")'
               \/ q \in Of("auto")' /\ p \in Of("config")'
    <2>1. ~Disjoint(runs[p], runs[q])  BY <1>2
    <2>2. \/ p \in Of("auto") /\ q \in Of("config")
          \/ q \in Of("auto") /\ p \in Of("config")
      BY <1>2, <2>1 DEF BindsDisjoint
    <2>3. QED  BY <1>1, <2>2
  <1>3. QED  BY <1>2 DEF BindsDisjoint, Disjoint, bind_keys

\* Nor does a new one that clashes with none of the others.
LEMMA BindsGrow ==
  ASSUME BindsDisjoint, NEW p, NEW s,
         Ours' = Ours \cup {p}, p \notin Ours, runs'[p] = s,
         \A q \in Ours : runs'[q] = runs[q],
         listed \cup active \subseteq listed' \cup active',
         \A q \in Ours : Disjoint(s, runs[q])
  PROVE  BindsDisjoint'
  <1>1. ASSUME NEW o, NEW q \in Of(o)
        PROVE  q \in Of(o)'
    BY DEF Of
  <1>2. ASSUME NEW q \in Ours', NEW r \in Ours', q # r, ~Disjoint(runs'[q], runs'[r])
        PROVE  \/ q \in Of("auto")' /\ r \in Of("config")'
               \/ r \in Of("auto")' /\ q \in Of("config")'
    <2>1. q # p /\ r # p  BY <1>2 DEF Disjoint
    <2>2. q \in Ours /\ r \in Ours /\ ~Disjoint(runs[q], runs[r])  BY <1>2, <2>1
    <2>3. \/ q \in Of("auto") /\ r \in Of("config")
          \/ r \in Of("auto") /\ q \in Of("config")
      BY <1>2, <2>2 DEF BindsDisjoint
    <2>4. QED  BY <1>1, <2>3
  <1>3. QED  BY <1>2 DEF BindsDisjoint, Disjoint, bind_keys

\* The auto-forward's may share with any that is of the configuration.
LEMMA BindsAuto ==
  ASSUME BindsDisjoint, NEW p,
         Ours' = Ours \cup {p}, p \notin Ours,
         \A q \in Ours : runs'[q] = runs[q],
         listed \cup active \subseteq listed' \cup active',
         p \in Of("auto")', \A q \in Ours : q \in Of("config")
  PROVE  BindsDisjoint'
  <1>1. ASSUME NEW o, NEW q \in Of(o)
        PROVE  q \in Of(o)'
    BY DEF Of
  <1>2. ASSUME NEW q \in Ours', NEW r \in Ours', q # r, ~Disjoint(runs'[q], runs'[r])
        PROVE  \/ q \in Of("auto")' /\ r \in Of("config")'
               \/ r \in Of("auto")' /\ q \in Of("config")'
    <2>1. CASE q = p \/ r = p  BY <1>1, <1>2, <2>1
    <2>2. CASE q # p /\ r # p
      <3>1. q \in Ours /\ r \in Ours /\ ~Disjoint(runs[q], runs[r])  BY <1>2, <2>2
      <3>2. \/ q \in Of("auto") /\ r \in Of("config")
            \/ r \in Of("auto") /\ q \in Of("config")
        BY <1>2, <3>1 DEF BindsDisjoint
      <3>3. QED  BY <1>1, <3>2
    <2>3. QED  BY <2>1, <2>2
  <1>3. QED  BY <1>2 DEF BindsDisjoint, Disjoint, bind_keys

\* Part of a list without duplicates has none.
LEMMA UniqueLess ==
  ASSUME NEW A, NEW B, B \subseteq A, validate_unique(A)
  PROVE  validate_unique(B)
BY DEF validate_unique

\* Nor do two together that do not conflict.
LEMMA UniqueUnion ==
  ASSUME NEW A, NEW B, validate_unique(A), validate_unique(B), ~Conflicts(A, B)
  PROVE  validate_unique(B \cup A)
  <1> SUFFICES ASSUME NEW s \in B \cup A, NEW t \in B \cup A, s # t
               PROVE  bind_keys(s) \cap bind_keys(t) = {}
    BY DEF validate_unique
  <1>1. CASE s \in A /\ t \in A  BY <1>1 DEF validate_unique
  <1>2. CASE s \in B /\ t \in B  BY <1>2 DEF validate_unique
  <1>3. CASE s \in A /\ t \in B  BY <1>3, NoClash
  <1>4. CASE s \in B /\ t \in A
    <2>1. bind_keys(t) \cap bind_keys(s) = {}  BY <1>4, NoClash
    <2>2. QED  BY <2>1
  <1>5. QED  BY <1>1, <1>2, <1>3, <1>4

\* One of ours is in what sweep_dead keeps, and in what a command that spawns
\* holds in memory.
LEMMA OursAreListed ==
  ASSUME Known, pc \notin {"apply", "list", "autolist"}, NEW p \in Ours
  PROVE  runs[p] \in SpecsOf(LiveEntries) /\ runs[p] \in SpecsOf(listed)
  <1>1. PICK e \in listed : e.pid = p /\ e.spec = runs[p]  BY DEF Known
  <1>2. e \in LiveEntries  BY <1>1 DEF LiveEntries, Ours
  <1>3. QED  BY <1>1, <1>2 DEF SpecsOf

\* Every step keeps the invariant.
LEMMA Inductive ==
  ASSUME IInv, [Next]_vars
  PROVE  IInv'
  <1> USE ForwardsAssumption
  <1>1. CASE Refuse
    <2>0. runs' = runs /\ stray' = stray /\ Live' = Live /\ Ours' = Ours
      BY <1>1, Same DEF Refuse, sups
    <2>1. TypeOK'
      BY <1>1, <2>0 DEF IInv, TypeOK, Refuse, End, files, sups, Ops
    <2>2. StatusAt' /\ OpAt' /\ ListAt'
      BY <1>1, <2>0, NothingClashes
      DEF IInv, StatusAt, OpAt, ListAt, Refuse, End, files, sups
    <2>3. NoneAt' /\ Known' /\ TakenAt'
      BY <1>1, <2>0
      DEF IInv, StatusAt, ListAt, NoneAt, Known, TakenAt, Taken, Refuse, End, files, sups
    <2>4. EntriesAt' /\ SavedAt'
      BY <1>1, <2>0
      DEF IInv, StatusAt, ListAt, NoneAt, EntriesAt, SavedAt, Refuse, End, files, sups
    <2>5. BindsDisjoint'
      BY <1>1, <2>0, BindsKept DEF IInv, ListAt, UniqueAt, Refuse, End, files, sups
    <2>6. UniqueAt'
      BY <1>1, <2>0, <2>5, NothingClashes
      DEF IInv, OpAt, ListAt, UniqueAt, Refuse, End, files, sups
    <2>7. QED  BY <2>1, <2>2, <2>3, <2>4, <2>6 DEF IInv
  <1>2. CASE OpenDead
    <2>0. runs' = runs /\ stray' = stray /\ Live' = Live /\ Ours' = Ours
      BY <1>2, Same DEF OpenDead, sups
    <2>1. TypeOK'
      BY <1>2, <2>0 DEF IInv, TypeOK, OpenDead, Goto, files, sups, Labels
    <2>2. StatusAt' /\ OpAt' /\ ListAt'
      BY <1>2, <2>0 DEF IInv, StatusAt, OpAt, ListAt, OpenDead, Goto, files, sups
    <2>3. NoneAt' /\ Known' /\ TakenAt'
      BY <1>2, <2>0
      DEF IInv, StatusAt, ListAt, NoneAt, Known, TakenAt, Taken, OpenDead, Goto, files,
          sups
    <2>4. EntriesAt' /\ SavedAt'
      BY <1>2, <2>0
      DEF IInv, StatusAt, ListAt, NoneAt, EntriesAt, SavedAt, OpenDead, Goto, files, sups
    <2>5. BindsDisjoint'
      BY <1>2, <2>0, BindsKept DEF IInv, ListAt, UniqueAt, OpenDead, Goto, files, sups
    <2>6. UniqueAt'
      BY <1>2, <2>0, <2>5 DEF IInv, OpAt, ListAt, UniqueAt, OpenDead, Goto, files, sups
    <2>7. QED  BY <2>1, <2>2, <2>3, <2>4, <2>6 DEF IInv
  <1>3. CASE Reap
    <2>0. /\ runs' \in [Sups -> Specs \cup {None}] /\ stray' \subseteq Live'
          /\ Live' = {p \in Live : \A e \in listed : e.pid # p}
          /\ Ours' = {p \in Ours : \A e \in listed : e.pid # p}
          /\ \A p \in Live' \cup Ours' : runs'[p] = runs[p]
      BY <1>3, Killing, listed \in SUBSET Entries DEF IInv, TypeOK, Ours, Reap
    <2>1. TypeOK'
      BY <1>3, <2>0 DEF IInv, TypeOK, Reap, Goto, Labels
    <2>2. StatusAt' /\ OpAt' /\ ListAt'
      BY <1>3, <2>0 DEF IInv, StatusAt, OpAt, ListAt, Reap, Goto
    <2>3. NoneAt' /\ Known' /\ TakenAt'
      BY <1>3, <2>0 DEF IInv, StatusAt, ListAt, NoneAt, Known, TakenAt, Taken, Reap, Goto
    <2>4. EntriesAt' /\ SavedAt'
      BY <1>3, <2>0 DEF IInv, StatusAt, ListAt, NoneAt, EntriesAt, SavedAt, Reap, Goto
    <2>5. BindsDisjoint'
      BY <1>3, <2>0, BindsKept DEF IInv, TypeOK, UniqueAt, Ours, Reap
    <2>6. UniqueAt'
      BY <1>3, <2>0, <2>5 DEF IInv, OpAt, ListAt, UniqueAt, Reap, Goto
    <2>7. QED  BY <2>1, <2>2, <2>3, <2>4, <2>6 DEF IInv
  <1>4. CASE Boot
    <2>0. runs' = runs /\ stray' = stray /\ Live' = Live /\ Ours' = Ours
      BY <1>4, Same DEF Boot, sups
    <2>1. TypeOK'
      BY <1>4, <2>0 DEF IInv, TypeOK, Boot, Goto, files, sups, Labels
    <2>2. StatusAt' /\ OpAt' /\ ListAt'
      BY <1>4, <2>0
      DEF IInv, StatusAt, OpAt, ListAt, Boot, Goto, files, sups, Opened, Accepted
    <2>3. NoneAt' /\ Known' /\ TakenAt'
      BY <1>4, <2>0
      DEF IInv, StatusAt, ListAt, NoneAt, Known, TakenAt, Taken, Boot, Goto, files, sups,
          Opened, Accepted
    <2>4. EntriesAt' /\ SavedAt'
      BY <1>4, <2>0
      DEF IInv, StatusAt, ListAt, NoneAt, EntriesAt, SavedAt, Boot, Goto, files, sups,
          Opened, Accepted
    <2>5. BindsDisjoint'
      BY <1>4, <2>0, BindsKept DEF IInv, ListAt, UniqueAt, Boot, Goto, files, sups
    <2>6. UniqueAt'
      BY <1>4, <2>0, <2>5
      DEF IInv, OpAt, ListAt, UniqueAt, Boot, Goto, files, sups, Opened, Accepted
    <2>7. QED  BY <2>1, <2>2, <2>3, <2>4, <2>6 DEF IInv
  <1>5. CASE SshFails
    <2>0. runs' = runs /\ stray' = stray /\ Live' = Live /\ Ours' = Ours
      BY <1>5, Same DEF SshFails, sups
    <2>1. TypeOK'
      BY <1>5, <2>0 DEF IInv, TypeOK, SshFails, End, files, sups, Ops
    <2>2. StatusAt' /\ OpAt' /\ ListAt'
      BY <1>5, <2>0, NothingClashes
      DEF IInv, StatusAt, OpAt, ListAt, SshFails, End, files, sups
    <2>3. NoneAt' /\ Known' /\ TakenAt'
      BY <1>5, <2>0
      DEF IInv, StatusAt, ListAt, NoneAt, Known, TakenAt, Taken, SshFails, End, files,
          sups
    <2>4. EntriesAt' /\ SavedAt'
      BY <1>5, <2>0
      DEF IInv, StatusAt, ListAt, NoneAt, EntriesAt, SavedAt, SshFails, End, files, sups
    <2>5. BindsDisjoint'
      BY <1>5, <2>0, BindsKept DEF IInv, ListAt, UniqueAt, SshFails, End, files, sups
    <2>6. UniqueAt'
      BY <1>5, <2>0, <2>5, NothingClashes
      DEF IInv, OpAt, ListAt, UniqueAt, SshFails, End, files, sups
    <2>7. QED  BY <2>1, <2>2, <2>3, <2>4, <2>6 DEF IInv
  <1>6. CASE ApplyNone
    <2>0. runs' = runs /\ stray' = stray /\ Live' = Live /\ Ours' = Ours
      BY <1>6, Same DEF ApplyNone, sups
    <2>1. TypeOK'
      BY <1>6, <2>0 DEF IInv, TypeOK, ApplyNone, Goto, sups, Labels
    <2>2. StatusAt' /\ OpAt' /\ ListAt'
      BY <1>6, <2>0 DEF IInv, StatusAt, OpAt, ListAt, ApplyNone, Goto, sups
    <2>3. NoneAt' /\ Known' /\ TakenAt'
      BY <1>6, <2>0
      DEF IInv, StatusAt, ListAt, NoneAt, Known, TakenAt, Taken, ApplyNone, Goto, sups
    <2>4. EntriesAt' /\ SavedAt'
      BY <1>6, <2>0
      DEF IInv, StatusAt, ListAt, NoneAt, EntriesAt, SavedAt, ApplyNone, Goto, sups
    <2>5. BindsDisjoint'
      BY <1>6, <2>0, BindsKept DEF IInv, NoneAt, UniqueAt, ApplyNone
    <2>6. UniqueAt'
      BY <1>6, <2>0, <2>5 DEF IInv, OpAt, ListAt, UniqueAt, ApplyNone, Goto, sups
    <2>7. QED  BY <2>1, <2>2, <2>3, <2>4, <2>6 DEF IInv
  <1>7. CASE ApplySome
    <2>0. /\ runs' \in [Sups -> Specs \cup {None}] /\ stray' \subseteq Live'
          /\ Live' = {p \in Live : \A e \in listed : e.pid # p}
          /\ Ours' = {p \in Ours : \A e \in listed : e.pid # p}
          /\ \A p \in Live' \cup Ours' : runs'[p] = runs[p]
      BY <1>7, Killing, listed \in SUBSET Entries DEF IInv, TypeOK, Ours, ApplySome
    <2>1. TypeOK'
      BY <1>7, <2>0 DEF IInv, TypeOK, ApplySome, Goto, Labels
    <2>2. StatusAt' /\ OpAt' /\ ListAt'
      BY <1>7, <2>0 DEF IInv, StatusAt, OpAt, ListAt, ApplySome, Goto
    <2>3. NoneAt' /\ Known' /\ TakenAt'
      BY <1>7, <2>0
      DEF IInv, StatusAt, ListAt, NoneAt, Known, TakenAt, Taken, ApplySome, Goto
    <2>4. EntriesAt' /\ SavedAt'
      BY <1>7, <2>0 DEF IInv, StatusAt, ListAt, NoneAt, EntriesAt, SavedAt, ApplySome, Goto
    <2>5. BindsDisjoint'
      BY <1>7, <2>0, BindsKept DEF IInv, TypeOK, UniqueAt, Ours, ApplySome
    <2>6. UniqueAt'
      BY <1>7, <2>0, <2>5 DEF IInv, NoneAt, UniqueAt, ApplySome, Goto
    <2>7. QED  BY <2>1, <2>2, <2>3, <2>4, <2>6 DEF IInv
  <1>8. CASE ApplyWrite
    <2>0. runs' = runs /\ stray' = stray /\ Live' = Live /\ Ours' = Ours
      BY <1>8, Same DEF ApplyWrite, sups
    <2>1. TypeOK'
      BY <1>8, <2>0 DEF IInv, TypeOK, ApplyWrite, Goto, sups, Labels
    <2>2. StatusAt' /\ OpAt' /\ ListAt'
      BY <1>8, <2>0 DEF IInv, StatusAt, OpAt, ListAt, ApplyWrite, Goto, sups
    <2>3. NoneAt' /\ Known' /\ TakenAt'
      BY <1>8, <2>0
      DEF IInv, StatusAt, ListAt, NoneAt, Known, TakenAt, Taken, ApplyWrite, Goto, sups
    <2>4. EntriesAt' /\ SavedAt'
      BY <1>8, <2>0
      DEF IInv, StatusAt, ListAt, NoneAt, EntriesAt, SavedAt, ApplyWrite, Goto, sups
    <2>5. BindsDisjoint'
      BY <1>8, <2>0, BindsKept DEF IInv, ListAt, UniqueAt, ApplyWrite, Goto, sups
    <2>6. UniqueAt'
      BY <1>8, <2>0, <2>5 DEF IInv, OpAt, ListAt, UniqueAt, ApplyWrite, Goto, sups
    <2>7. QED  BY <2>1, <2>2, <2>3, <2>4, <2>6 DEF IInv
  <1>9. CASE AutoNone
    <2>0. runs' = runs /\ stray' = stray /\ Live' = Live /\ Ours' = Ours
      BY <1>9, Same DEF AutoNone, sups
    <2>1. TypeOK'
      BY <1>9, <2>0 DEF IInv, TypeOK, AutoNone, End, files, sups, Ops
    <2>2. StatusAt' /\ OpAt' /\ ListAt'
      BY <1>9, <2>0, NothingClashes
      DEF IInv, StatusAt, OpAt, ListAt, AutoNone, End, files, sups
    <2>3. NoneAt' /\ Known' /\ TakenAt'
      BY <1>9, <2>0
      DEF IInv, StatusAt, ListAt, NoneAt, Known, TakenAt, Taken, AutoNone, End, files,
          sups
    <2>4. EntriesAt' /\ SavedAt'
      BY <1>9, <2>0
      DEF IInv, StatusAt, ListAt, NoneAt, EntriesAt, SavedAt, AutoNone, End, files, sups
    <2>5. BindsDisjoint'
      BY <1>9, <2>0, BindsKept DEF IInv, ListAt, UniqueAt, AutoNone, End, files, sups
    <2>6. UniqueAt'
      BY <1>9, <2>0, <2>5, NothingClashes
      DEF IInv, OpAt, ListAt, UniqueAt, AutoNone, End, files, sups
    <2>7. QED  BY <2>1, <2>2, <2>3, <2>4, <2>6 DEF IInv
  <1>10. CASE AutoList
    <2>0. runs' = runs /\ stray' = stray /\ Live' = Live /\ Ours' = Ours
      BY <1>10, Same DEF AutoList, sups
    <2>1. TypeOK'
      BY <1>10, <2>0 DEF IInv, TypeOK, AutoList, Goto, sups, Labels
    <2>2. StatusAt' /\ OpAt' /\ ListAt'
      BY <1>10, <2>0 DEF IInv, StatusAt, OpAt, ListAt, AutoList, Goto, sups
    <2>3. NoneAt' /\ Known' /\ TakenAt'
      BY <1>10, <2>0
      DEF IInv, StatusAt, ListAt, NoneAt, Known, TakenAt, Taken, AutoList, Goto, sups
    <2>4. EntriesAt' /\ SavedAt'
      BY <1>10, <2>0
      DEF IInv, StatusAt, ListAt, NoneAt, EntriesAt, SavedAt, AutoList, Goto, sups
    <2>5. BindsDisjoint'
      BY <1>10, <2>0, BindsKept DEF IInv, ListAt, UniqueAt, AutoList, Goto, sups
    <2>6. UniqueAt'
      BY <1>10, <2>0, <2>5 DEF IInv, OpAt, ListAt, UniqueAt, AutoList, Goto, sups
    <2>7. QED  BY <2>1, <2>2, <2>3, <2>4, <2>6 DEF IInv
  <1>11. CASE AutoFile
    <2>0. runs' = runs /\ stray' = stray /\ Live' = Live /\ Ours' = Ours
      BY <1>11, Same DEF AutoFile, sups
    <2>1. TypeOK'
      BY <1>11, <2>0 DEF IInv, TypeOK, AutoFile, End, Ops, Entries, Specs
    <2>2. StatusAt' /\ OpAt' /\ ListAt'
      BY <1>11, <2>0, NothingClashes DEF IInv, StatusAt, OpAt, ListAt, AutoFile, End, sups
    <2>3. NoneAt' /\ Known' /\ TakenAt'
      BY <1>11, <2>0
      DEF IInv, StatusAt, ListAt, NoneAt, Known, TakenAt, Taken, AutoFile, End, sups
    <2>4. EntriesAt' /\ SavedAt'
      BY <1>11, <2>0
      DEF IInv, StatusAt, ListAt, NoneAt, EntriesAt, SavedAt, AutoFile, End, sups
    <2>5. BindsDisjoint'
      BY <1>11, <2>0, BindsKept DEF IInv, ListAt, UniqueAt, AutoFile, End, sups
    <2>6. UniqueAt'
      BY <1>11, <2>0, <2>5, NothingClashes
      DEF IInv, OpAt, ListAt, UniqueAt, AutoFile, End, sups
    <2>7. QED  BY <2>1, <2>2, <2>3, <2>4, <2>6 DEF IInv
  <1>12. CASE Teardown
    <2>0. /\ runs' \in [Sups -> Specs \cup {None}] /\ stray' \subseteq Live'
          /\ Live' = {p \in Live : \A e \in listed : e.pid # p}
          /\ Ours' = {p \in Ours : \A e \in listed : e.pid # p}
          /\ \A p \in Live' \cup Ours' : runs'[p] = runs[p]
      BY <1>12, Killing, listed \in SUBSET Entries DEF IInv, TypeOK, Ours, Teardown
    <2>1. TypeOK'
      BY <1>12, <2>0 DEF IInv, TypeOK, Teardown, Goto, Labels
    <2>2. StatusAt' /\ OpAt' /\ ListAt'
      BY <1>12, <2>0 DEF IInv, StatusAt, OpAt, ListAt, Teardown, Goto, Opened, Accepted
    <2>3. NoneAt' /\ Known' /\ TakenAt'
      BY <1>12, <2>0
      DEF IInv, StatusAt, ListAt, NoneAt, Known, TakenAt, Taken, Teardown, Goto, Opened,
          Accepted
    <2>4. EntriesAt' /\ SavedAt'
      BY <1>12, <2>0
      DEF IInv, StatusAt, ListAt, NoneAt, EntriesAt, SavedAt, Teardown, Goto, Opened,
          Accepted
    <2>5. BindsDisjoint'
      BY <1>12, <2>0, BindsKept DEF IInv, TypeOK, UniqueAt, Ours, Teardown
    <2>6. UniqueAt'
      BY <1>12, <2>0, <2>5
      DEF IInv, OpAt, ListAt, UniqueAt, Teardown, Goto, Opened, Accepted
    <2>7. QED  BY <2>1, <2>2, <2>3, <2>4, <2>6 DEF IInv
  <1>13. CASE RemovePortFiles
    <2>0. runs' = runs /\ stray' = stray /\ Live' = Live /\ Ours' = Ours
      BY <1>13, Same DEF RemovePortFiles, sups
    <2>1. TypeOK'
      BY <1>13, <2>0 DEF IInv, TypeOK, RemovePortFiles, Goto, sups, Labels
    <2>2. StatusAt' /\ OpAt' /\ ListAt'
      BY <1>13, <2>0 DEF IInv, StatusAt, OpAt, ListAt, RemovePortFiles, Goto, sups
    <2>3. NoneAt' /\ Known' /\ TakenAt'
      BY <1>13, <2>0
      DEF IInv, StatusAt, ListAt, NoneAt, Known, TakenAt, Taken, RemovePortFiles, Goto,
          sups
    <2>4. EntriesAt' /\ SavedAt'
      BY <1>13, <2>0
      DEF IInv, StatusAt, ListAt, NoneAt, EntriesAt, SavedAt, RemovePortFiles, Goto, sups
    <2>5. BindsDisjoint'
      BY <1>13, <2>0, BindsKept DEF IInv, ListAt, UniqueAt, RemovePortFiles, Goto, sups
    <2>6. UniqueAt'
      BY <1>13, <2>0, <2>5 DEF IInv, OpAt, ListAt, UniqueAt, RemovePortFiles, Goto, sups
    <2>7. QED  BY <2>1, <2>2, <2>3, <2>4, <2>6 DEF IInv
  <1>14. CASE Power
    <2>0. runs' = runs /\ stray' = stray /\ Live' = Live /\ Ours' = Ours
      BY <1>14, Same DEF Power, sups
    <2>1. TypeOK'
      BY <1>14, <2>0 DEF IInv, TypeOK, Power, Goto, files, sups, Labels
    <2>2. StatusAt' /\ OpAt' /\ ListAt'
      BY <1>14, <2>0 DEF IInv, StatusAt, OpAt, ListAt, Power, Goto, files, sups
    <2>3. NoneAt' /\ Known' /\ TakenAt'
      BY <1>14, <2>0
      DEF IInv, StatusAt, ListAt, NoneAt, Known, TakenAt, Taken, Power, Goto, files, sups
    <2>4. EntriesAt' /\ SavedAt'
      BY <1>14, <2>0
      DEF IInv, StatusAt, ListAt, NoneAt, EntriesAt, SavedAt, Power, Goto, files, sups
    <2>5. BindsDisjoint'
      BY <1>14, <2>0, BindsKept DEF IInv, ListAt, UniqueAt, Power, Goto, files, sups
    <2>6. UniqueAt'
      BY <1>14, <2>0, <2>5 DEF IInv, OpAt, ListAt, UniqueAt, Power, Goto, files, sups
    <2>7. QED  BY <2>1, <2>2, <2>3, <2>4, <2>6 DEF IInv
  <1>15. CASE PowerFails
    <2>0. runs' = runs /\ stray' = stray /\ Live' = Live /\ Ours' = Ours
      BY <1>15, Same DEF PowerFails, sups
    <2>1. TypeOK'
      BY <1>15, <2>0 DEF IInv, TypeOK, PowerFails, End, files, sups, Ops
    <2>2. StatusAt' /\ OpAt' /\ ListAt'
      BY <1>15, <2>0, NothingClashes
      DEF IInv, StatusAt, OpAt, ListAt, PowerFails, End, files, sups
    <2>3. NoneAt' /\ Known' /\ TakenAt'
      BY <1>15, <2>0
      DEF IInv, StatusAt, ListAt, NoneAt, Known, TakenAt, Taken, PowerFails, End, files,
          sups
    <2>4. EntriesAt' /\ SavedAt'
      BY <1>15, <2>0
      DEF IInv, StatusAt, ListAt, NoneAt, EntriesAt, SavedAt, PowerFails, End, files, sups
    <2>5. BindsDisjoint'
      BY <1>15, <2>0, BindsKept DEF IInv, ListAt, UniqueAt, PowerFails, End, files, sups
    <2>6. UniqueAt'
      BY <1>15, <2>0, <2>5, NothingClashes
      DEF IInv, OpAt, ListAt, UniqueAt, PowerFails, End, files, sups
    <2>7. QED  BY <2>1, <2>2, <2>3, <2>4, <2>6 DEF IInv
  <1>16. CASE Record
    <2>0. runs' = runs /\ stray' = stray /\ Live' = Live /\ Ours' = Ours
      BY <1>16, Same DEF Record, sups
    <2>1. TypeOK'
      BY <1>16, <2>0 DEF IInv, TypeOK, Record, End, files, sups, Ops
    <2>2. StatusAt' /\ OpAt' /\ ListAt'
      BY <1>16, <2>0, NothingClashes
      DEF IInv, StatusAt, OpAt, ListAt, Record, End, files, sups
    <2>3. NoneAt' /\ Known' /\ TakenAt'
      BY <1>16, <2>0
      DEF IInv, StatusAt, ListAt, NoneAt, Known, TakenAt, Taken, Record, End, files, sups
    <2>4. EntriesAt' /\ SavedAt'
      BY <1>16, <2>0
      DEF IInv, StatusAt, ListAt, NoneAt, EntriesAt, SavedAt, Record, End, files, sups
    <2>5. BindsDisjoint'
      BY <1>16, <2>0, BindsKept DEF IInv, ListAt, UniqueAt, Record, End, files, sups
    <2>6. UniqueAt'
      BY <1>16, <2>0, <2>5, NothingClashes
      DEF IInv, OpAt, ListAt, UniqueAt, Record, End, files, sups
    <2>7. QED  BY <2>1, <2>2, <2>3, <2>4, <2>6 DEF IInv
  <1>17. CASE BeginSet
    <2>0. runs' = runs /\ stray' = stray /\ Live' = Live /\ Ours' = Ours
      BY <1>17, Same DEF BeginSet, sups
    <2>1. TypeOK'
      BY <1>17, <2>0 DEF IInv, TypeOK, BeginSet, Goto, files, sups, Labels
    <2>2. StatusAt' /\ OpAt' /\ ListAt'
      BY <1>17, <2>0
      DEF IInv, StatusAt, OpAt, ListAt, BeginSet, Goto, files, sups, Opened, Accepted
    <2>3. NoneAt' /\ Known' /\ TakenAt'
      BY <1>17, <2>0
      DEF IInv, StatusAt, ListAt, NoneAt, Known, TakenAt, Taken, BeginSet, Goto, files,
          sups, Opened, Accepted
    <2>4. EntriesAt' /\ SavedAt'
      BY <1>17, <2>0
      DEF IInv, StatusAt, ListAt, NoneAt, EntriesAt, SavedAt, BeginSet, Goto, files, sups,
          Opened, Accepted
    <2>5. BindsDisjoint'
      BY <1>17, <2>0, BindsKept DEF IInv, ListAt, UniqueAt, BeginSet, Goto, files, sups
    <2>6. UniqueAt'
      BY <1>17, <2>0, <2>5
      DEF IInv, OpAt, ListAt, UniqueAt, BeginSet, Goto, files, sups, Opened, Accepted
    <2>7. QED  BY <2>1, <2>2, <2>3, <2>4, <2>6 DEF IInv
  <1>18. CASE SetForwards
    <2>0. runs' = runs /\ stray' = stray /\ Live' = Live /\ Ours' = Ours
      BY <1>18, Same DEF SetForwards, sups
    <2>1. TypeOK'
      BY <1>18, <2>0 DEF IInv, TypeOK, SetForwards, End, sups, Ops
    <2>2. StatusAt' /\ OpAt' /\ ListAt'
      BY <1>18, <2>0, NothingClashes
      DEF IInv, StatusAt, OpAt, ListAt, SetForwards, End, sups
    <2>3. NoneAt' /\ Known' /\ TakenAt'
      BY <1>18, <2>0
      DEF IInv, StatusAt, ListAt, NoneAt, Known, TakenAt, Taken, SetForwards, End, sups
    <2>4. EntriesAt' /\ SavedAt'
      BY <1>18, <2>0
      DEF IInv, StatusAt, ListAt, NoneAt, EntriesAt, SavedAt, SetForwards, End, sups
    <2>5. BindsDisjoint'
      BY <1>18, <2>0, BindsKept DEF IInv, ListAt, UniqueAt, SetForwards, End, sups
    <2>6. UniqueAt'
      BY <1>18, <2>0, <2>5, NothingClashes
      DEF IInv, OpAt, ListAt, UniqueAt, SetForwards, End, sups
    <2>7. QED  BY <2>1, <2>2, <2>3, <2>4, <2>6 DEF IInv
  <1>19. CASE BeginAdd
    <2>0. runs' = runs /\ stray' = stray /\ Live' = Live /\ Ours' = Ours
      BY <1>19, Same DEF BeginAdd, sups
    <2>1. TypeOK'
      BY <1>19, <2>0 DEF IInv, TypeOK, BeginAdd, Goto, files, sups, Labels
    <2>2. StatusAt' /\ OpAt' /\ ListAt'
      BY <1>19, <2>0
      DEF IInv, StatusAt, OpAt, ListAt, BeginAdd, Goto, files, sups, Opened, Accepted
    <2>3. NoneAt' /\ Known' /\ TakenAt'
      BY <1>19, <2>0
      DEF IInv, StatusAt, ListAt, NoneAt, Known, TakenAt, Taken, BeginAdd, Goto, files,
          sups, Opened, Accepted
    <2>4. EntriesAt' /\ SavedAt'
      BY <1>19, <2>0
      DEF IInv, StatusAt, ListAt, NoneAt, EntriesAt, SavedAt, BeginAdd, Goto, files, sups,
          Opened, Accepted
    <2>5. BindsDisjoint'
      BY <1>19, <2>0, BindsKept DEF IInv, ListAt, UniqueAt, BeginAdd, Goto, files, sups
    <2>6. UniqueAt'
      BY <1>19, <2>0, <2>5
      DEF IInv, OpAt, ListAt, UniqueAt, BeginAdd, Goto, files, sups, Opened, Accepted
    <2>7. QED  BY <2>1, <2>2, <2>3, <2>4, <2>6 DEF IInv
  <1>20. CASE BeginReapply
    <2>0. runs' = runs /\ stray' = stray /\ Live' = Live /\ Ours' = Ours
      BY <1>20, Same DEF BeginReapply, sups
    <2>1. TypeOK'
      BY <1>20, <2>0 DEF IInv, TypeOK, BeginReapply, Goto, files, sups, Labels
    <2>2. StatusAt' /\ OpAt' /\ ListAt'
      BY <1>20, <2>0
      DEF IInv, StatusAt, OpAt, ListAt, BeginReapply, Goto, files, sups, Opened, Accepted
    <2>3. NoneAt' /\ Known' /\ TakenAt'
      BY <1>20, <2>0
      DEF IInv, StatusAt, ListAt, NoneAt, Known, TakenAt, Taken, BeginReapply, Goto, files,
          sups, Opened, Accepted
    <2>4. EntriesAt' /\ SavedAt'
      BY <1>20, <2>0
      DEF IInv, StatusAt, ListAt, NoneAt, EntriesAt, SavedAt, BeginReapply, Goto, files,
          sups, Opened, Accepted
    <2>5. BindsDisjoint'
      BY <1>20, <2>0, BindsKept DEF IInv, ListAt, UniqueAt, BeginReapply, Goto, files, sups
    <2>6. UniqueAt'
      BY <1>20, <2>0, <2>5
      DEF IInv, OpAt, ListAt, UniqueAt, BeginReapply, Goto, files, sups, Opened, Accepted
    <2>7. QED  BY <2>1, <2>2, <2>3, <2>4, <2>6 DEF IInv
  <1>21. CASE BeginList
    <2>0. runs' = runs /\ stray' = stray /\ Live' = Live /\ Ours' = Ours
      BY <1>21, Same DEF BeginList, sups
    <2>1. TypeOK'
      BY <1>21, <2>0 DEF IInv, TypeOK, BeginList, Goto, files, sups, Labels
    <2>2. StatusAt' /\ OpAt' /\ ListAt'
      BY <1>21, <2>0
      DEF IInv, StatusAt, OpAt, ListAt, BeginList, Goto, files, sups, Opened, Accepted
    <2>3. NoneAt' /\ Known' /\ TakenAt'
      BY <1>21, <2>0
      DEF IInv, StatusAt, ListAt, NoneAt, Known, TakenAt, Taken, BeginList, Goto, files,
          sups, Opened, Accepted
    <2>4. EntriesAt' /\ SavedAt'
      BY <1>21, <2>0
      DEF IInv, StatusAt, ListAt, NoneAt, EntriesAt, SavedAt, BeginList, Goto, files, sups,
          Opened, Accepted
    <2>5. BindsDisjoint'
      BY <1>21, <2>0, BindsKept DEF IInv, ListAt, UniqueAt, BeginList, Goto, files, sups
    <2>6. UniqueAt'
      BY <1>21, <2>0, <2>5
      DEF IInv, OpAt, ListAt, UniqueAt, BeginList, Goto, files, sups, Opened, Accepted
    <2>7. QED  BY <2>1, <2>2, <2>3, <2>4, <2>6 DEF IInv
  <1>22. CASE SweepToList
    <2>0. runs' = runs /\ stray' = stray /\ Live' = Live /\ Ours' = Ours
      BY <1>22, Same DEF SweepToList, sups
    <2>1. TypeOK'
      BY <1>22, <2>0 DEF IInv, TypeOK, SweepToList, End, sups, LiveEntries, Ops
    <2>2. StatusAt' /\ OpAt' /\ ListAt'
      BY <1>22, <2>0, NothingClashes
      DEF IInv, StatusAt, OpAt, ListAt, SweepToList, End, sups, LiveEntries
    <2>3. NoneAt' /\ Known' /\ TakenAt'
      BY <1>22, <2>0
      DEF IInv, StatusAt, NoneAt, Known, TakenAt, Ours, SweepToList, End, LiveEntries
    <2>4. EntriesAt' /\ SavedAt'
      BY <1>22, <2>0
      DEF IInv, StatusAt, ListAt, NoneAt, EntriesAt, SavedAt, SweepToList, End, sups,
          LiveEntries
    <2>5. BindsDisjoint'
      BY <1>22, <2>0, BindsKept
      DEF IInv, ListAt, UniqueAt, Ours, SweepToList, End, LiveEntries
    <2>6. UniqueAt'
      BY <1>22, <2>0, <2>5, NothingClashes
      DEF IInv, OpAt, ListAt, UniqueAt, SweepToList, End, sups, LiveEntries
    <2>7. QED  BY <2>1, <2>2, <2>3, <2>4, <2>6 DEF IInv
  <1>23. CASE SweepToReapply
    <2>0. runs' = runs /\ stray' = stray /\ Live' = Live /\ Ours' = Ours
      BY <1>23, Same DEF SweepToReapply, sups
    <2>1. TypeOK'
      BY <1>23, <2>0 DEF IInv, TypeOK, SweepToReapply, Goto, sups, LiveEntries, Labels
    <2>2. StatusAt' /\ OpAt' /\ ListAt'
      BY <1>23, <2>0
      DEF IInv, StatusAt, OpAt, ListAt, SweepToReapply, Goto, sups, LiveEntries
    <2>3. NoneAt' /\ Known' /\ TakenAt'
      BY <1>23, <2>0
      DEF IInv, StatusAt, NoneAt, Known, TakenAt, Ours, SweepToReapply, Goto, LiveEntries
    <2>4. EntriesAt' /\ SavedAt'
      BY <1>23, <2>0
      DEF IInv, StatusAt, ListAt, NoneAt, EntriesAt, SavedAt, SweepToReapply, Goto, sups,
          LiveEntries
    <2>5. BindsDisjoint'
      BY <1>23, <2>0, BindsKept
      DEF IInv, ListAt, UniqueAt, Ours, SweepToReapply, Goto, LiveEntries
    <2>6. UniqueAt'
      BY <1>23, <2>0, <2>5
      DEF IInv, OpAt, ListAt, UniqueAt, SweepToReapply, Goto, sups, LiveEntries
    <2>7. QED  BY <2>1, <2>2, <2>3, <2>4, <2>6 DEF IInv
  <1>24. CASE SweepToAdd
    <2>0. runs' = runs /\ stray' = stray /\ Live' = Live /\ Ours' = Ours
      BY <1>24, Same DEF SweepToAdd, sups
    <2>1. TypeOK'
      BY <1>24, <2>0 DEF IInv, TypeOK, SweepToAdd, Goto, sups, LiveEntries, Labels
    <2>2. StatusAt' /\ OpAt' /\ ListAt'
      BY <1>24, <2>0 DEF IInv, StatusAt, OpAt, ListAt, SweepToAdd, Goto, sups, LiveEntries
    <2>3. NoneAt' /\ Known' /\ TakenAt'
      BY <1>24, <2>0
      DEF IInv, StatusAt, NoneAt, Known, TakenAt, Ours, SweepToAdd, Goto, LiveEntries
    <2>4. EntriesAt' /\ SavedAt'
      BY <1>24, <2>0
      DEF IInv, StatusAt, ListAt, NoneAt, EntriesAt, SavedAt, SweepToAdd, Goto, sups,
          LiveEntries
    <2>5. BindsDisjoint'
      BY <1>24, <2>0, BindsKept
      DEF IInv, ListAt, UniqueAt, Ours, SweepToAdd, Goto, LiveEntries
    <2>6. UniqueAt'
      <3>1. ASSUME NEW s \in args, NEW p \in Ours
            PROVE  Disjoint(s, runs[p])
        <4>1. runs[p] \in SpecsOf(LiveEntries)  BY <1>24, OursAreListed DEF IInv, SweepToAdd
        <4>2. QED  BY <1>24, <4>1, NoClash DEF SweepToAdd, Disjoint
      <3>2. QED
        BY <1>24, <2>0, <2>5, <3>1 DEF IInv, OpAt, UniqueAt, SweepToAdd, Goto
    <2>7. QED  BY <2>1, <2>2, <2>3, <2>4, <2>6 DEF IInv
  <1>25. CASE AddClashes
    <2>0. runs' = runs /\ stray' = stray /\ Live' = Live /\ Ours' = Ours
      BY <1>25, Same DEF AddClashes, sups
    <2>1. TypeOK'
      BY <1>25, <2>0 DEF IInv, TypeOK, AddClashes, End, sups, LiveEntries, Ops
    <2>2. StatusAt' /\ OpAt' /\ ListAt'
      BY <1>25, <2>0, NothingClashes
      DEF IInv, StatusAt, OpAt, ListAt, AddClashes, End, sups, LiveEntries
    <2>3. NoneAt' /\ Known' /\ TakenAt'
      BY <1>25, <2>0
      DEF IInv, StatusAt, NoneAt, Known, TakenAt, Ours, AddClashes, End, LiveEntries
    <2>4. EntriesAt' /\ SavedAt'
      BY <1>25, <2>0
      DEF IInv, StatusAt, ListAt, NoneAt, EntriesAt, SavedAt, AddClashes, End, sups,
          LiveEntries
    <2>5. BindsDisjoint'
      BY <1>25, <2>0, BindsKept
      DEF IInv, ListAt, UniqueAt, Ours, AddClashes, End, LiveEntries
    <2>6. UniqueAt'
      BY <1>25, <2>0, <2>5, NothingClashes
      DEF IInv, OpAt, ListAt, UniqueAt, AddClashes, End, sups, LiveEntries
    <2>7. QED  BY <2>1, <2>2, <2>3, <2>4, <2>6 DEF IInv
  <1>26. CASE Persist
    <2>0. runs' = runs /\ stray' = stray /\ Live' = Live /\ Ours' = Ours
      BY <1>26, Same DEF Persist, sups
    <2>1. TypeOK'
      BY <1>26, <2>0 DEF IInv, TypeOK, Persist, Goto, sups, Labels
    <2>2. StatusAt' /\ OpAt' /\ ListAt'
      BY <1>26, <2>0 DEF IInv, StatusAt, OpAt, ListAt, Persist, Goto, sups
    <2>3. NoneAt' /\ Known' /\ TakenAt'
      BY <1>26, <2>0
      DEF IInv, StatusAt, ListAt, NoneAt, Known, TakenAt, Taken, Persist, Goto, sups
    <2>4. EntriesAt' /\ SavedAt'
      BY <1>26, <2>0
      DEF IInv, StatusAt, ListAt, NoneAt, EntriesAt, SavedAt, Persist, Goto, sups
    <2>5. BindsDisjoint'
      BY <1>26, <2>0, BindsKept DEF IInv, ListAt, UniqueAt, Persist, Goto, sups
    <2>6. UniqueAt'
      <3>1. validate_unique(saved')
        BY <1>26, UniqueUnion DEF IInv, OpAt, UniqueAt, Persist
      <3>2. QED
        BY <1>26, <2>0, <2>5, <3>1 DEF IInv, OpAt, UniqueAt, Persist, Goto
    <2>7. QED  BY <2>1, <2>2, <2>3, <2>4, <2>6 DEF IInv
  <1>27. CASE PersistOnly
    <2>0. runs' = runs /\ stray' = stray /\ Live' = Live /\ Ours' = Ours
      BY <1>27, Same DEF PersistOnly, sups
    <2>1. TypeOK'
      BY <1>27, <2>0 DEF IInv, TypeOK, PersistOnly, End, sups, Ops
    <2>2. StatusAt' /\ OpAt' /\ ListAt'
      BY <1>27, <2>0, NothingClashes
      DEF IInv, StatusAt, OpAt, ListAt, PersistOnly, End, sups
    <2>3. NoneAt' /\ Known' /\ TakenAt'
      BY <1>27, <2>0
      DEF IInv, StatusAt, ListAt, NoneAt, Known, TakenAt, Taken, PersistOnly, End, sups
    <2>4. EntriesAt' /\ SavedAt'
      BY <1>27, <2>0
      DEF IInv, StatusAt, ListAt, NoneAt, EntriesAt, SavedAt, PersistOnly, End, sups
    <2>5. BindsDisjoint'
      BY <1>27, <2>0, BindsKept DEF IInv, ListAt, UniqueAt, PersistOnly, End, sups
    <2>6. UniqueAt'
      <3>1. validate_unique(saved')
        BY <1>27, UniqueUnion DEF IInv, OpAt, UniqueAt, PersistOnly
      <3>2. QED
        BY <1>27, <2>0, <2>5, <3>1, NothingClashes DEF UniqueAt, PersistOnly, End
    <2>7. QED  BY <2>1, <2>2, <2>3, <2>4, <2>6 DEF IInv
  <1>28. CASE AddSpawnFails
    <2>0. runs' = runs /\ stray' = stray /\ Live' = Live /\ Ours' = Ours
      BY <1>28, Same DEF AddSpawnFails, sups
    <2>1. TypeOK'
      BY <1>28, <2>0 DEF IInv, TypeOK, AddSpawnFails, End, files, sups, Ops
    <2>2. StatusAt' /\ OpAt' /\ ListAt'
      BY <1>28, <2>0, NothingClashes
      DEF IInv, StatusAt, OpAt, ListAt, AddSpawnFails, End, files, sups
    <2>3. NoneAt' /\ Known' /\ TakenAt'
      BY <1>28, <2>0
      DEF IInv, StatusAt, ListAt, NoneAt, Known, TakenAt, Taken, AddSpawnFails, End, files,
          sups
    <2>4. EntriesAt' /\ SavedAt'
      BY <1>28, <2>0
      DEF IInv, StatusAt, ListAt, NoneAt, EntriesAt, SavedAt, AddSpawnFails, End, files,
          sups
    <2>5. BindsDisjoint'
      BY <1>28, <2>0, BindsKept DEF IInv, ListAt, UniqueAt, AddSpawnFails, End, files, sups
    <2>6. UniqueAt'
      BY <1>28, <2>0, <2>5, NothingClashes
      DEF IInv, OpAt, ListAt, UniqueAt, AddSpawnFails, End, files, sups
    <2>7. QED  BY <2>1, <2>2, <2>3, <2>4, <2>6 DEF IInv
  <1>29. CASE WriteList
    <2>0. runs' = runs /\ stray' = stray /\ Live' = Live /\ Ours' = Ours
      BY <1>29, Same DEF WriteList, sups
    <2>1. TypeOK'
      BY <1>29, <2>0 DEF IInv, TypeOK, WriteList, Goto, sups, Labels
    <2>2. StatusAt' /\ OpAt' /\ ListAt'
      BY <1>29, <2>0 DEF IInv, StatusAt, OpAt, ListAt, WriteList, Goto, sups
    <2>3. NoneAt' /\ Known' /\ TakenAt'
      BY <1>29, <2>0
      DEF IInv, StatusAt, ListAt, NoneAt, Known, TakenAt, Taken, WriteList, Goto, sups
    <2>4. EntriesAt' /\ SavedAt'
      BY <1>29, <2>0
      DEF IInv, StatusAt, ListAt, NoneAt, EntriesAt, SavedAt, WriteList, Goto, sups
    <2>5. BindsDisjoint'
      BY <1>29, <2>0, BindsKept DEF IInv, ListAt, UniqueAt, WriteList, Goto, sups
    <2>6. UniqueAt'
      BY <1>29, <2>0, <2>5 DEF IInv, OpAt, ListAt, UniqueAt, WriteList, Goto, sups
    <2>7. QED  BY <2>1, <2>2, <2>3, <2>4, <2>6 DEF IInv
  <1>30. CASE Spawned
    <2>0. runs' = runs /\ stray' = stray /\ Live' = Live /\ Ours' = Ours
      BY <1>30, Same DEF Spawned, sups
    <2>1. TypeOK'
      BY <1>30, <2>0 DEF IInv, TypeOK, Spawned, End, files, sups, Ops
    <2>2. StatusAt' /\ OpAt' /\ ListAt'
      BY <1>30, <2>0, NothingClashes
      DEF IInv, StatusAt, OpAt, ListAt, Spawned, End, files, sups
    <2>3. NoneAt' /\ Known' /\ TakenAt'
      BY <1>30, <2>0
      DEF IInv, StatusAt, ListAt, NoneAt, Known, TakenAt, Taken, Spawned, End, files, sups
    <2>4. EntriesAt' /\ SavedAt'
      BY <1>30, <2>0
      DEF IInv, StatusAt, ListAt, NoneAt, EntriesAt, SavedAt, Spawned, End, files, sups
    <2>5. BindsDisjoint'
      BY <1>30, <2>0, BindsKept DEF IInv, ListAt, UniqueAt, Spawned, End, files, sups
    <2>6. UniqueAt'
      BY <1>30, <2>0, <2>5, NothingClashes
      DEF IInv, OpAt, ListAt, UniqueAt, Spawned, End, files, sups
    <2>7. QED  BY <2>1, <2>2, <2>3, <2>4, <2>6 DEF IInv
  <1>31. CASE BeginRm
    <2>0. runs' = runs /\ stray' = stray /\ Live' = Live /\ Ours' = Ours
      BY <1>31, Same DEF BeginRm, sups
    <2>1. TypeOK'
      BY <1>31, <2>0 DEF IInv, TypeOK, BeginRm, Goto, files, sups, Labels
    <2>2. StatusAt' /\ OpAt' /\ ListAt'
      BY <1>31, <2>0
      DEF IInv, StatusAt, OpAt, ListAt, BeginRm, Goto, files, sups, Opened, Accepted
    <2>3. NoneAt' /\ Known' /\ TakenAt'
      BY <1>31, <2>0
      DEF IInv, StatusAt, ListAt, NoneAt, Known, TakenAt, Taken, BeginRm, Goto, files,
          sups, Opened, Accepted
    <2>4. EntriesAt' /\ SavedAt'
      BY <1>31, <2>0
      DEF IInv, StatusAt, ListAt, NoneAt, EntriesAt, SavedAt, BeginRm, Goto, files, sups,
          Opened, Accepted
    <2>5. BindsDisjoint'
      BY <1>31, <2>0, BindsKept DEF IInv, ListAt, UniqueAt, BeginRm, Goto, files, sups
    <2>6. UniqueAt'
      BY <1>31, <2>0, <2>5
      DEF IInv, OpAt, ListAt, UniqueAt, BeginRm, Goto, files, sups, Opened, Accepted
    <2>7. QED  BY <2>1, <2>2, <2>3, <2>4, <2>6 DEF IInv
  <1>32. CASE Kill
    <2>0. /\ runs' \in [Sups -> Specs \cup {None}] /\ stray' \subseteq Live'
          /\ Live' = {p \in Live : \A e \in Taken(listed) : e.pid # p}
          /\ Ours' = {p \in Ours : \A e \in Taken(listed) : e.pid # p}
          /\ \A p \in Live' \cup Ours' : runs'[p] = runs[p]
      BY <1>32, Killing, Taken(listed) \in SUBSET Entries DEF IInv, TypeOK, Ours, Kill, Taken
    <2>1. TypeOK'
      BY <1>32, <2>0 DEF IInv, TypeOK, Kill, Goto, files, Taken, Labels
    <2>2. StatusAt' /\ OpAt' /\ ListAt'
      BY <1>32, <2>0 DEF IInv, StatusAt, OpAt, ListAt, Kill, Goto, files, Taken
    <2>3. NoneAt' /\ Known' /\ TakenAt'
      BY <1>32, <2>0 DEF IInv, StatusAt, NoneAt, Known, TakenAt, Taken, Kill, Goto, files
    <2>4. EntriesAt' /\ SavedAt'
      BY <1>32, <2>0
      DEF IInv, StatusAt, ListAt, NoneAt, EntriesAt, SavedAt, Kill, Goto, files, Taken
    <2>5. BindsDisjoint'
      BY <1>32, <2>0, BindsKept DEF IInv, TypeOK, UniqueAt, Ours, Kill, files
    <2>6. UniqueAt'
      BY <1>32, <2>0, <2>5 DEF IInv, OpAt, ListAt, UniqueAt, Kill, Goto, files, Taken
    <2>7. QED  BY <2>1, <2>2, <2>3, <2>4, <2>6 DEF IInv
  <1>33. CASE Unlist
    <2>0. runs' = runs /\ stray' = stray /\ Live' = Live /\ Ours' = Ours
      BY <1>33, Same DEF Unlist, sups
    <2>1. TypeOK'
      BY <1>33, <2>0 DEF IInv, TypeOK, Unlist, End, Goto, sups, Taken, Labels, Ops
    <2>2. StatusAt' /\ OpAt' /\ ListAt'
      BY <1>33, <2>0, NothingClashes
      DEF IInv, StatusAt, OpAt, ListAt, Unlist, End, Goto, sups, Taken
    <2>3. NoneAt' /\ Known' /\ TakenAt'
      BY <1>33, <2>0
      DEF IInv, StatusAt, ListAt, NoneAt, Known, TakenAt, Taken, Unlist, End, Goto, sups
    <2>4. EntriesAt' /\ SavedAt'
      BY <1>33, <2>0
      DEF IInv, StatusAt, ListAt, NoneAt, EntriesAt, SavedAt, Unlist, End, Goto, sups,
          Taken
    <2>5. BindsDisjoint'
      BY <1>33, <2>0, BindsKept DEF IInv, ListAt, TakenAt, UniqueAt, Unlist, End, Goto
    <2>6. UniqueAt'
      BY <1>33, <2>0, <2>5, NothingClashes
      DEF IInv, OpAt, ListAt, UniqueAt, Unlist, End, Goto, sups, Taken
    <2>7. QED  BY <2>1, <2>2, <2>3, <2>4, <2>6 DEF IInv
  <1>34. CASE Unpersist
    <2>0. runs' = runs /\ stray' = stray /\ Live' = Live /\ Ours' = Ours
      BY <1>34, Same DEF Unpersist, sups
    <2>1. TypeOK'
      BY <1>34, <2>0 DEF IInv, TypeOK, Unpersist, End, sups, Kept, Ops
    <2>2. StatusAt' /\ OpAt' /\ ListAt'
      BY <1>34, <2>0, NothingClashes
      DEF IInv, StatusAt, OpAt, ListAt, Unpersist, End, sups, Kept
    <2>3. NoneAt' /\ Known' /\ TakenAt'
      BY <1>34, <2>0
      DEF IInv, StatusAt, ListAt, NoneAt, Known, TakenAt, Taken, Unpersist, End, sups,
          Kept
    <2>4. EntriesAt' /\ SavedAt'
      BY <1>34, <2>0
      DEF IInv, ListAt, EntriesAt, TakenAt, Taken, SavedAt, Unpersist, Kept, End
    <2>5. BindsDisjoint'
      BY <1>34, <2>0, BindsKept DEF IInv, ListAt, UniqueAt, Unpersist, End, sups, Kept
    <2>6. UniqueAt'
      <3>1. saved' \subseteq saved  BY <1>34 DEF Unpersist, Kept
      <3>2. validate_unique(saved')  BY <3>1, UniqueLess DEF IInv, UniqueAt
      <3>3. QED
        BY <1>34, <2>0, <2>5, <3>2, NothingClashes DEF UniqueAt, Unpersist, End
    <2>7. QED  BY <2>1, <2>2, <2>3, <2>4, <2>6 DEF IInv
  <1>35. CASE UnpersistFails
    <2>0. runs' = runs /\ stray' = stray /\ Live' = Live /\ Ours' = Ours
      BY <1>35, Same DEF UnpersistFails, sups
    <2>1. TypeOK'
      BY <1>35, <2>0 DEF IInv, TypeOK, UnpersistFails, End, files, sups, Ops
    <2>2. StatusAt' /\ OpAt' /\ ListAt'
      BY <1>35, <2>0, NothingClashes
      DEF IInv, StatusAt, OpAt, ListAt, UnpersistFails, End, files, sups
    <2>3. NoneAt' /\ Known' /\ TakenAt'
      BY <1>35, <2>0
      DEF IInv, StatusAt, ListAt, NoneAt, Known, TakenAt, Taken, UnpersistFails, End,
          files, sups
    <2>4. EntriesAt' /\ SavedAt'
      BY <1>35, <2>0
      DEF IInv, StatusAt, ListAt, NoneAt, EntriesAt, SavedAt, UnpersistFails, End, files,
          sups
    <2>5. BindsDisjoint'
      BY <1>35, <2>0, BindsKept DEF IInv, ListAt, UniqueAt, UnpersistFails, End, files, sups
    <2>6. UniqueAt'
      BY <1>35, <2>0, <2>5, NothingClashes
      DEF IInv, OpAt, ListAt, UniqueAt, UnpersistFails, End, files, sups
    <2>7. QED  BY <2>1, <2>2, <2>3, <2>4, <2>6 DEF IInv
  <1>36. CASE QemuExits
    <2>0. runs' = runs /\ stray' = stray /\ Live' = Live /\ Ours' = Ours
      BY <1>36, Same DEF QemuExits, sups
    <2>1. TypeOK'
      BY <1>36, <2>0 DEF IInv, TypeOK, QemuExits, files, sups, local
    <2>2. StatusAt' /\ OpAt' /\ ListAt'
      BY <1>36, <2>0 DEF IInv, StatusAt, OpAt, ListAt, QemuExits, files, sups, local
    <2>3. NoneAt' /\ Known' /\ TakenAt'
      BY <1>36, <2>0
      DEF IInv, StatusAt, ListAt, NoneAt, Known, TakenAt, Taken, QemuExits, files, sups,
          local
    <2>4. EntriesAt' /\ SavedAt'
      BY <1>36, <2>0
      DEF IInv, StatusAt, ListAt, NoneAt, EntriesAt, SavedAt, QemuExits, files, sups,
          local
    <2>5. BindsDisjoint'
      BY <1>36, <2>0, BindsKept DEF IInv, ListAt, UniqueAt, QemuExits, files, sups, local
    <2>6. UniqueAt'
      BY <1>36, <2>0, <2>5 DEF IInv, OpAt, ListAt, UniqueAt, QemuExits, files, sups, local
    <2>7. QED  BY <2>1, <2>2, <2>3, <2>4, <2>6 DEF IInv
  <1>37. ASSUME NEW s \in Specs, ApplySpawnFails(s)
         PROVE  IInv'
    <2>0. runs' = runs /\ stray' = stray /\ Live' = Live /\ Ours' = Ours
      BY <1>37, Same DEF ApplySpawnFails, sups
    <2>1. TypeOK'
      BY <1>37, <2>0 DEF IInv, TypeOK, ApplySpawnFails, files, sups
    <2>2. StatusAt' /\ OpAt' /\ ListAt'
      BY <1>37, <2>0 DEF IInv, StatusAt, OpAt, ListAt, ApplySpawnFails, files, sups
    <2>3. NoneAt' /\ Known' /\ TakenAt'
      BY <1>37, <2>0
      DEF IInv, StatusAt, ListAt, NoneAt, Known, TakenAt, Taken, ApplySpawnFails, files,
          sups
    <2>4. EntriesAt' /\ SavedAt'
      BY <1>37, <2>0
      DEF IInv, StatusAt, ListAt, NoneAt, EntriesAt, SavedAt, ApplySpawnFails, files, sups
    <2>5. BindsDisjoint'
      BY <1>37, <2>0, BindsKept DEF IInv, ListAt, UniqueAt, ApplySpawnFails, files, sups
    <2>6. UniqueAt'
      <3>1. validate_unique(todo')  BY <1>37, UniqueLess DEF IInv, UniqueAt, ApplySpawnFails
      <3>2. QED
        BY <1>37, <2>0, <2>5, <3>1 DEF IInv, UniqueAt, ApplySpawnFails, files
    <2>7. QED  BY <2>1, <2>2, <2>3, <2>4, <2>6 DEF IInv
  <1>38. ASSUME NEW s \in Specs, Skip(s)
         PROVE  IInv'
    <2>0. runs' = runs /\ stray' = stray /\ Live' = Live /\ Ours' = Ours
      BY <1>38, Same DEF Skip, sups
    <2>1. TypeOK'
      BY <1>38, <2>0 DEF IInv, TypeOK, Skip, files, sups
    <2>2. StatusAt' /\ OpAt' /\ ListAt'
      BY <1>38, <2>0 DEF IInv, StatusAt, OpAt, ListAt, Skip, files, sups
    <2>3. NoneAt' /\ Known' /\ TakenAt'
      BY <1>38, <2>0
      DEF IInv, StatusAt, ListAt, NoneAt, Known, TakenAt, Taken, Skip, files, sups
    <2>4. EntriesAt' /\ SavedAt'
      BY <1>38, <2>0
      DEF IInv, StatusAt, ListAt, NoneAt, EntriesAt, SavedAt, Skip, files, sups
    <2>5. BindsDisjoint'
      BY <1>38, <2>0, BindsKept DEF IInv, ListAt, UniqueAt, Skip, files, sups
    <2>6. UniqueAt'
      <3>1. validate_unique(todo')  BY <1>38, UniqueLess DEF IInv, UniqueAt, Skip
      <3>2. QED
        BY <1>38, <2>0, <2>5, <3>1 DEF IInv, UniqueAt, Skip, files
    <2>7. QED  BY <2>1, <2>2, <2>3, <2>4, <2>6 DEF IInv
  <1>39. ASSUME NEW o \in Ops, NEW t \in BOOLEAN, NEW a \in SUBSET Named, Issue(o, t, a)
         PROVE  IInv'
    <2>0. runs' = runs /\ stray' = stray /\ Live' = Live /\ Ours' = Ours
      BY <1>39, Same DEF Issue, sups
    <2>1. TypeOK'
      BY <1>39, <2>0 DEF IInv, TypeOK, Issue, Labels, files
    <2>2. StatusAt' /\ OpAt' /\ ListAt'
      BY <1>39, <2>0 DEF IInv, StatusAt, OpAt, ListAt, Issue, files, sups
    <2>3. NoneAt' /\ Known' /\ TakenAt'
      BY <1>39, <2>0
      DEF IInv, StatusAt, ListAt, NoneAt, Known, TakenAt, Taken, Issue, files, sups
    <2>4. EntriesAt' /\ SavedAt'
      BY <1>39, <2>0
      DEF IInv, StatusAt, ListAt, NoneAt, EntriesAt, SavedAt, Issue, files, sups
    <2>5. BindsDisjoint'
      BY <1>39, <2>0, BindsKept DEF IInv, ListAt, UniqueAt, Issue, files, sups
    <2>6. UniqueAt'
      BY <1>39, <2>0, <2>5 DEF IInv, OpAt, ListAt, UniqueAt, Issue, files, sups
    <2>7. QED  BY <2>1, <2>2, <2>3, <2>4, <2>6 DEF IInv
  <1>40. ASSUME NEW p \in Sups, SupervisorDies(p)
         PROVE  IInv'
    <2>0. /\ runs' \in [Sups -> Specs \cup {None}] /\ stray' \subseteq Live'
          /\ Live' = Live \ {p} /\ Ours' = Ours \ {p}
          /\ \A q \in Live' \cup Ours' : runs'[q] = runs[q]
      BY <1>40 DEF IInv, TypeOK, SupervisorDies, Live, Ours
    <2>1. TypeOK'
      BY <1>40, <2>0 DEF IInv, TypeOK, SupervisorDies, files, local
    <2>2. StatusAt' /\ OpAt' /\ ListAt'
      BY <1>40 DEF IInv, StatusAt, OpAt, ListAt, SupervisorDies, files, local
    <2>3. NoneAt' /\ Known' /\ TakenAt'
      BY <1>40, <2>0 DEF IInv, NoneAt, Known, TakenAt, Taken, SupervisorDies, files, local
    <2>4. EntriesAt' /\ SavedAt'
      BY <1>40, <2>0 DEF IInv, EntriesAt, SavedAt, SupervisorDies, files, local
    <2>5. BindsDisjoint'
      BY <1>40, <2>0, BindsKept DEF IInv, UniqueAt, SupervisorDies, files, local
    <2>6. UniqueAt'
      BY <1>40, <2>0, <2>5 DEF IInv, UniqueAt, SupervisorDies, files, local
    <2>7. QED  BY <2>1, <2>2, <2>3, <2>4, <2>6 DEF IInv
  <1>41. CASE Killed
    <2>0. /\ runs' = runs /\ stray \subseteq stray' /\ stray' \subseteq Live /\ Live' = Live
          /\ Ours' \subseteq Ours
      BY <1>41 DEF IInv, TypeOK, Killed, Unlisted, Live, Ours
    <2>a. \A p \in Ours' : \E e \in listed : e.pid = p /\ e.spec = runs[p]
      <3>1. CASE pc \in {"apply", "autolist", "list"}
        BY <1>41, <2>0, <3>1 DEF Killed, Unlisted, Ours
      <3>2. CASE pc = "reap"
        BY <1>41, <2>0, <3>2 DEF Killed, Ours
      <3>3. CASE pc \notin {"apply", "autolist", "list", "reap"}
        BY <1>41, <2>0, <3>3 DEF IInv, Known
      <3>4. QED  BY <3>1, <3>2, <3>3
    <2>b. pc = "reap" => Ours' = {}
      BY <1>41, <2>0 DEF Killed, Ours
    <2>1. TypeOK'
      BY <1>41, <2>0 DEF IInv, TypeOK, Killed, End, files, Ops
    <2>2. StatusAt' /\ OpAt' /\ ListAt'
      BY <1>41, NothingClashes DEF IInv, StatusAt, OpAt, ListAt, Killed, End
    <2>3. NoneAt' /\ Known' /\ TakenAt'
      BY <1>41, <2>0, <2>a, <2>b DEF IInv, NoneAt, Known, TakenAt, Killed, End, files
    <2>4. EntriesAt' /\ SavedAt'
      BY <1>41, <2>0 DEF IInv, EntriesAt, SavedAt, Killed, End, files
    <2>5. BindsDisjoint'
      <3>1. ASSUME NEW e \in listed \cup active, e.pid \in Ours'
            PROVE  e \in listed
        <4>1. PICK f \in listed : f.pid = e.pid  BY <3>1, <2>a
        <4>2. QED  BY <4>1 DEF IInv, EntriesAt
      <3>2. QED  BY <1>41, <2>0, <3>1, BindsKept DEF IInv, UniqueAt, Killed, files
    <2>6. UniqueAt'
      BY <1>41, <2>0, <2>5, NothingClashes DEF IInv, UniqueAt, Killed, End, files
    <2>7. QED  BY <2>1, <2>2, <2>3, <2>4, <2>6 DEF IInv
  <1>42. CASE CutList
    <2>a. NewList \subseteq listed \cup active
      BY DEF NewList, LiveEntries
    <2>b. listed' \subseteq listed \cup active /\ active' = {} /\ todo' = {}
      BY <1>42, <2>a DEF CutList, WritesList, End
    <2>c. pc \in {"apply", "autolist", "list", "sweep", "unlist"} /\ pc' \in {"idle", "auto"}
      BY <1>42 DEF CutList, WritesList, End, Goto
    <2>0. /\ runs' = runs /\ stray \subseteq stray' /\ stray' \subseteq Live /\ Live' = Live
          /\ Ours' \subseteq Ours
          /\ \A p \in Ours' : \E e \in listed' : e.pid = p /\ e.spec = runs[p]
      BY <1>42 DEF IInv, TypeOK, CutList, Unlisted, Live, Ours
    <2>1. TypeOK'
      <3>1. torn' \subseteq {"list", "config"}  BY <1>42 DEF IInv, TypeOK, CutList
      <3>2. op' \in Ops /\ temporary' \in BOOLEAN /\ args' \subseteq Specs
        BY <1>42 DEF IInv, TypeOK, CutList, End, Goto, Ops
      <3>3. QED
        BY <1>42, <2>0, <2>b, <2>c, <3>1, <3>2 DEF IInv, TypeOK, CutList, Labels
    <2>2. StatusAt' /\ OpAt' /\ ListAt'
      <3>1. status' = "running"  BY <1>42, <2>c DEF IInv, StatusAt, CutList
      <3>2. OpAt'
        BY <1>42, <2>c, NothingClashes DEF IInv, OpAt, CutList, End, Goto
      <3>3. QED  BY <2>b, <2>c, <3>1, <3>2 DEF StatusAt, ListAt
    <2>3. NoneAt' /\ Known' /\ TakenAt'
      BY <1>42, <2>0, <2>c DEF IInv, StatusAt, NoneAt, Known, TakenAt, CutList
    <2>4. EntriesAt' /\ SavedAt'
      <3>1. pc' = "auto" => pc = "apply"  BY <1>42 DEF CutList, End
      <3>2. EntriesAt'  BY <2>b, <2>c, <3>1 DEF IInv, EntriesAt
      <3>3. SavedAt'
        BY <1>42, <2>0, <2>b, <2>c DEF IInv, SavedAt, CutList
      <3>4. QED  BY <3>2, <3>3
    <2>5. BindsDisjoint'
      <3>1. ASSUME NEW e \in listed \cup active, e.pid \in Ours'
            PROVE  e \in listed'
        <4>1. PICK f \in listed' : f.pid = e.pid  BY <3>1, <2>0
        <4>2. QED  BY <2>b, <4>1 DEF IInv, EntriesAt
      <3>2. QED  BY <2>0, <3>1, BindsKept DEF IInv, UniqueAt
    <2>6. UniqueAt'
      BY <1>42, <2>0, <2>b, <2>c, <2>5, NothingClashes DEF IInv, UniqueAt, CutList
    <2>7. QED  BY <2>1, <2>2, <2>3, <2>4, <2>6 DEF IInv
  <1>43. CASE CutConfig
    <2>0. runs' = runs /\ stray' = stray /\ Live' = Live /\ Ours' = Ours
      BY <1>43, Same DEF CutConfig
    <2>a. /\ pc \in {"persist", "set", "unpersist"} /\ pc' = "idle"
          /\ args' = {} /\ active' = {} /\ todo' = {} /\ temporary' = FALSE /\ op' = "list"
      BY <1>43 DEF CutConfig, WritesConfig, End
    <2>b. status # "running" => Ours = {}
      BY <2>a DEF IInv, NoneAt
    <2>c. NewSaved \subseteq Specs /\ validate_unique(NewSaved)
      <3>1. CASE pc = "persist"
        BY <3>1, UniqueUnion DEF IInv, TypeOK, OpAt, UniqueAt, NewSaved
      <3>2. CASE pc = "set"
        BY <3>2 DEF IInv, TypeOK, OpAt, NewSaved
      <3>3. CASE pc = "unpersist"
        <4>1. NewSaved = Kept /\ Kept \subseteq saved  BY <3>3 DEF NewSaved, Kept
        <4>2. QED  BY <4>1, UniqueLess DEF IInv, TypeOK, UniqueAt
      <3>4. QED  BY <2>a, <3>1, <3>2, <3>3
    <2>d. saved' \subseteq Specs /\ validate_unique(saved')
      <3>1. saved' \subseteq NewSaved  BY <1>43 DEF CutConfig
      <3>2. QED  BY <2>c, <3>1, UniqueLess
    <2>1. TypeOK'
      <3>1. torn' \subseteq {"list", "config"}  BY <1>43 DEF IInv, TypeOK, CutConfig
      <3>2. status' \in {"running", "broken", "configuring", "down"} /\ cut' \in BOOLEAN
        BY <1>43 DEF IInv, TypeOK, CutConfig
      <3>3. QED
        BY <1>43, <2>0, <2>a, <2>d, <3>1, <3>2 DEF IInv, TypeOK, CutConfig, Ops
    <2>2. StatusAt' /\ OpAt' /\ ListAt'
      BY <2>a, NothingClashes DEF StatusAt, OpAt, ListAt
    <2>3. NoneAt' /\ Known' /\ TakenAt'
      <3>1. status' # "running" => status # "running"
        BY <1>43, <2>a DEF IInv, StatusAt, CutConfig
      <3>2. Known'  BY <1>43, <2>0, <2>a DEF IInv, Known, CutConfig
      <3>3. QED  BY <2>0, <2>a, <2>b, <3>1, <3>2 DEF NoneAt, TakenAt
    <2>4. EntriesAt' /\ SavedAt'
      <3>1. EntriesAt'  BY <1>43, <2>a DEF IInv, EntriesAt, CutConfig
      <3>2. cut' \/ Ours' = {}  BY <1>43, <2>0, <2>b DEF CutConfig
      <3>3. SavedAt'  BY <2>a, <3>2 DEF SavedAt
      <3>4. QED  BY <3>1, <3>3
    <2>5. BindsDisjoint'
      <3>1. active \subseteq listed  BY <2>a DEF IInv, ListAt
      <3>2. QED  BY <1>43, <2>0, <3>1, BindsKept DEF IInv, UniqueAt, CutConfig
    <2>6. UniqueAt'
      BY <2>0, <2>a, <2>d, <2>5, NothingClashes DEF UniqueAt
    <2>7. QED  BY <2>1, <2>2, <2>3, <2>4, <2>6 DEF IInv
  <1>44. ASSUME NEW s \in Specs, NEW p \in Sups, ApplySpawn(s, p)
         PROVE  IInv'
    <2>0. /\ runs' \in [Sups -> Specs \cup {None}] /\ stray' \subseteq Live'
          /\ Live' = Live \cup {p} /\ p \notin Live
          /\ Ours' = Ours \cup {p} /\ p \notin Ours
          /\ runs'[p] = s /\ \A q \in Live \cup Ours : runs'[q] = runs[q]
          /\ \A e \in listed \cup active : e.pid # p
      BY <1>44, Spawning DEF IInv, Ours, ApplySpawn, Spawns
    <2> DEFINE e == Entry(s, "config", p)
    <2>a. /\ active' = active \cup {e} /\ listed' = listed
          /\ e.pid = p /\ e.spec = s /\ e \in Entries
      BY <1>44 DEF ApplySpawn, Spawns, files, Entry, Entries, Origins
    <2>b. e.origin = "config"  BY DEF Entry
    <2> HIDE DEF e
    <2>1. TypeOK'
      BY <1>44, <2>0, <2>a DEF IInv, TypeOK, ApplySpawn, Spawns, files
    <2>2. StatusAt' /\ OpAt' /\ ListAt'
      BY <1>44, <2>a DEF IInv, StatusAt, OpAt, ListAt, ApplySpawn, files
    <2>3. NoneAt' /\ Known' /\ TakenAt'
      <3>1. NoneAt' /\ TakenAt'
        BY <1>44, <2>0 DEF IInv, StatusAt, NoneAt, TakenAt, ApplySpawn, files
      <3>2. \A q \in Ours : \E f \in active' : f.pid = q /\ f.spec = runs'[q]
        BY <1>44, <2>0, <2>a DEF IInv, ListAt, Known, ApplySpawn
      <3>3. QED
        BY <1>44, <2>0, <2>a, <3>1, <3>2 DEF Known, ApplySpawn, files
    <2>4. EntriesAt' /\ SavedAt'
      <3>1. EntriesAt'
        BY <1>44, <2>0, <2>a, <2>b DEF IInv, EntriesAt, ApplySpawn, files
      <3>2. SavedAt'
        BY <1>44, <2>0, <2>a, <2>b DEF IInv, SavedAt, ApplySpawn, files
      <3>3. QED  BY <3>1, <3>2
    <2>5. BindsDisjoint'
      <3>1. \A q \in Ours : Disjoint(s, runs[q])
        BY <1>44 DEF IInv, UniqueAt, ApplySpawn
      <3>2. QED  BY <2>0, <2>a, <3>1, BindsGrow DEF IInv, UniqueAt
    <2>6. UniqueAt'
      <3>1. \A t \in todo' : Disjoint(t, s)
        BY <1>44 DEF IInv, UniqueAt, validate_unique, Disjoint, ApplySpawn
      <3>2. validate_unique(todo')  BY <1>44, UniqueLess DEF IInv, UniqueAt, ApplySpawn
      <3>3. QED
        BY <1>44, <2>0, <2>5, <3>1, <3>2 DEF IInv, UniqueAt, ApplySpawn, files
    <2>7. QED  BY <2>1, <2>2, <2>3, <2>4, <2>6 DEF IInv
  <1>45. ASSUME NEW s \in Specs, NEW p \in Sups, Spawn(s, p)
         PROVE  IInv'
    <2>0. /\ runs' \in [Sups -> Specs \cup {None}] /\ stray' \subseteq Live'
          /\ Live' = Live \cup {p} /\ p \notin Live
          /\ Ours' = Ours \cup {p} /\ p \notin Ours
          /\ runs'[p] = s /\ \A q \in Live \cup Ours : runs'[q] = runs[q]
          /\ \A e \in listed \cup active : e.pid # p
      BY <1>45, Spawning DEF IInv, Ours, Spawn, Spawns
    <2> DEFINE e == Entry(s, IF temporary THEN "adhoc" ELSE "config", p)
    <2>a. /\ active' = active \cup {e} /\ listed' = listed
          /\ e.pid = p /\ e.spec = s /\ e \in Entries
      BY <1>45 DEF Spawn, Spawns, files, Entry, Entries, Origins
    <2>b. e.origin = IF temporary THEN "adhoc" ELSE "config"  BY DEF Entry
    <2> HIDE DEF e
    <2>1. TypeOK'
      BY <1>45, <2>0, <2>a DEF IInv, TypeOK, Spawn, Spawns, files, Goto, Labels
    <2>2. StatusAt' /\ OpAt' /\ ListAt'
      BY <1>45, <2>a DEF IInv, StatusAt, OpAt, ListAt, Spawn, Goto, files
    <2>3. NoneAt' /\ Known' /\ TakenAt'
      <3>1. NoneAt' /\ TakenAt'
        BY <1>45, <2>0 DEF IInv, StatusAt, NoneAt, TakenAt, Spawn, Goto, files
      <3>2. \A q \in Ours : \E f \in active' : f.pid = q /\ f.spec = runs'[q]
        BY <1>45, <2>0, <2>a DEF IInv, ListAt, Known, Spawn
      <3>3. QED
        BY <1>45, <2>0, <2>a, <3>1, <3>2 DEF Known, Spawn, Goto, files
    <2>4. EntriesAt' /\ SavedAt'
      <3>1. EntriesAt'
        BY <1>45, <2>0, <2>a, <2>b DEF IInv, EntriesAt, Spawn, Goto, files
      <3>2. SavedAt'
        BY <1>45, <2>0, <2>a, <2>b DEF IInv, SavedAt, Spawn, Goto, files
      <3>3. QED  BY <3>1, <3>2
    <2>5. BindsDisjoint'
      <3>1. \A q \in Ours : Disjoint(s, runs[q])
        <4>1. CASE op = "add"
          BY <1>45, <4>1 DEF IInv, UniqueAt, Spawn
        <4>2. CASE op = "reapply"
          <5> SUFFICES ASSUME NEW q \in Ours
                       PROVE  Disjoint(s, runs[q])
            OBVIOUS
          <5>1. runs[q] \in SpecsOf(listed)  BY <1>45, OursAreListed DEF IInv, Spawn
          <5>2. runs[q] \in SpecsOf(active)  BY <1>45, <5>1 DEF IInv, ListAt, Spawn
          <5>3. ~Conflicts({s}, SpecsOf(active))  BY <1>45, <4>2 DEF Spawn, Blocked
          <5>4. QED  BY <5>2, <5>3, NoClash DEF Disjoint
        <4>3. QED  BY <1>45, <4>1, <4>2 DEF IInv, OpAt, Spawn
      <3>2. QED  BY <2>0, <2>a, <3>1, BindsGrow DEF IInv, UniqueAt
    <2>6. UniqueAt'
      <3>1. \A t \in todo' : Disjoint(t, s)
        BY <1>45 DEF IInv, UniqueAt, validate_unique, Disjoint, Spawn
      <3>2. validate_unique(todo')  BY <1>45, UniqueLess DEF IInv, UniqueAt, Spawn
      <3>3. QED
        BY <1>45, <2>0, <2>5, <3>1, <3>2 DEF IInv, UniqueAt, Spawn, Goto, files
    <2>7. QED  BY <2>1, <2>2, <2>3, <2>4, <2>6 DEF IInv
  <1>46. ASSUME NEW h \in Ports, NEW p \in Sups, AutoSpawn(h, p)
         PROVE  IInv'
    <2> DEFINE s == [host |-> h, binds |-> {Loopback}]
    <2> DEFINE e == Entry(s, "auto", p)
    <2>s. s \in Specs
      <3>1. {Loopback} \in SUBSET Addrs /\ {Loopback} # {}  OBVIOUS
      <3>2. {Loopback} \in (SUBSET Addrs) \ {{}}  BY <3>1
      <3>3. s \in [host : Ports, binds : (SUBSET Addrs) \ {{}}]  BY <3>2 DEF s
      <3>4. QED  BY <3>3 DEF Specs
    <2>r. runs' = [runs EXCEPT ![p] = s] /\ active' = listed \cup {e}  BY <1>46 DEF AutoSpawn
    <2> HIDE DEF s
    <2>0. /\ runs' \in [Sups -> Specs \cup {None}] /\ stray' \subseteq Live'
          /\ Live' = Live \cup {p} /\ p \notin Live
          /\ Ours' = Ours \cup {p} /\ p \notin Ours
          /\ \A q \in Live \cup Ours : runs'[q] = runs[q]
          /\ runs'[p] = s
          /\ \A f \in listed \cup active : f.pid # p
      BY <1>46, <2>s, <2>r, Spawning DEF IInv, Ours, AutoSpawn
    <2>a. e.pid = p /\ e.spec = s /\ e.origin = "auto" /\ e \in Entries
      BY <2>s DEF Entry, Entries, Origins
    <2>b. listed' = listed /\ active = {}  BY <1>46 DEF IInv, ListAt, AutoSpawn, files
    <2> HIDE DEF e
    <2>1. TypeOK'
      BY <1>46, <2>0, <2>r, <2>a DEF IInv, TypeOK, AutoSpawn, Goto, Labels, files
    <2>2. StatusAt' /\ OpAt' /\ ListAt'
      BY <1>46, <2>r DEF IInv, StatusAt, OpAt, ListAt, AutoSpawn, Goto, files
    <2>3. NoneAt' /\ Known' /\ TakenAt'
      <3>1. NoneAt' /\ TakenAt'
        BY <1>46, <2>0 DEF IInv, StatusAt, NoneAt, TakenAt, AutoSpawn, Goto, files
      <3>2. \A q \in Ours : \E f \in active' : f.pid = q /\ f.spec = runs'[q]
        BY <1>46, <2>0, <2>r DEF IInv, Known, AutoSpawn
      <3>3. e \in active' /\ e.pid = p /\ e.spec = runs'[p]  BY <2>0, <2>r, <2>a
      <3>4. pc' = "autolist"  BY <1>46 DEF AutoSpawn, Goto
      <3>5. Known'  BY <2>0, <3>2, <3>3, <3>4 DEF Known
      <3>6. QED  BY <3>1, <3>5
    <2>4. EntriesAt' /\ SavedAt'
      <3>1. EntriesAt'
        BY <1>46, <2>0, <2>r, <2>a, <2>b DEF IInv, EntriesAt, AutoSpawn, Goto
      <3>2. SavedAt'
        BY <1>46, <2>0, <2>r, <2>a, <2>b DEF IInv, SavedAt, AutoSpawn, Goto, files
      <3>3. QED  BY <3>1, <3>2
    <2>5. BindsDisjoint'
      <3>1. p \in Of("auto")'  BY <2>r, <2>a DEF Of
      <3>2. \A q \in Ours : q \in Of("config")
        <4> SUFFICES ASSUME NEW q \in Ours
                     PROVE  q \in Of("config")
          OBVIOUS
        <4>1. PICK f \in listed : f.pid = q  BY <1>46 DEF IInv, Known, AutoSpawn
        <4>2. f.origin = "config"  BY <1>46 DEF IInv, EntriesAt, AutoSpawn
        <4>3. QED  BY <4>1, <4>2 DEF Of
      <3>3. QED  BY <2>0, <2>r, <2>b, <3>1, <3>2, BindsAuto DEF IInv, UniqueAt
    <2>6. UniqueAt'
      BY <1>46, <2>5 DEF IInv, UniqueAt, AutoSpawn, Goto, files
    <2>7. QED  BY <2>1, <2>2, <2>3, <2>4, <2>6 DEF IInv
  <1>47. CASE UNCHANGED vars
    <2>0. runs' = runs /\ stray' = stray /\ Live' = Live /\ Ours' = Ours
      BY <1>47, Same DEF vars
    <2>1. TypeOK' /\ StatusAt' /\ OpAt' /\ ListAt'
      BY <1>47, <2>0 DEF IInv, TypeOK, StatusAt, OpAt, ListAt, vars, files, local
    <2>2. NoneAt' /\ Known' /\ EntriesAt' /\ TakenAt' /\ SavedAt'
      BY <1>47, <2>0
      DEF IInv, NoneAt, Known, EntriesAt, TakenAt, Taken, SavedAt, vars, files, local
    <2>3. BindsDisjoint'
      BY <1>47, <2>0, BindsKept DEF IInv, UniqueAt, vars, files, local
    <2>4. UniqueAt'
      BY <1>47, <2>0, <2>3 DEF IInv, UniqueAt, vars, files, local
    <2>5. QED  BY <2>1, <2>2, <2>4 DEF IInv
  <1>48. CASE Starts
    BY <1>48, <1>4, <1>5, <1>6, <1>7, <1>8, <1>9, <1>10, <1>11,
       <1>44, <1>37, <1>46
    DEF Starts
  <1>49. CASE Stops
    BY <1>49, <1>12, <1>13, <1>14, <1>15, <1>16 DEF Stops
  <1>50. CASE Edits
    BY <1>50, <1>17, <1>18, <1>19, <1>20, <1>21, <1>22,
       <1>23, <1>24, <1>25, <1>26, <1>27, <1>28, <1>29,
       <1>30, <1>31, <1>32, <1>33, <1>34, <1>35, <1>45, <1>38
    DEF Edits
  <1>51. QED
    BY <1>47, <1>48, <1>49, <1>50,
       <1>39, <1>2, <1>3, <1>1, <1>36, <1>40, <1>41, <1>42, <1>43
    DEF Next

\* It holds of a VM that was never started.
LEMMA Initially ==
  ASSUME Init
  PROVE  IInv
  <1>1. Live = {} /\ Ours = {}  BY DEF Init, Live, Ours
  <1>2. BindsDisjoint  BY <1>1 DEF BindsDisjoint
  <1>3. TypeOK  BY <1>1 DEF Init, TypeOK, Ops
  <1>4. QED
    BY <1>1, <1>2, <1>3, NothingClashes
    DEF Init, IInv, StatusAt, OpAt, ListAt, NoneAt, Known, EntriesAt, TakenAt, SavedAt, UniqueAt

\* At every moment a live supervisor is on the active list, about to be put
\* there by the command that spawned it, or a stray that a kill made; a VM that
\* is down, coming up or torn down has strays only; and saved, live and pending
\* forwards bind apart, but for the auto-forward's.
THEOREM Invariant ==
  Spec => []IInv
BY Initially, Inductive, PTL DEF Spec

\* Wherever commands are killed, a supervisor that no kill left unlisted, and no
\* cut write took off the list, is in forwards.toml with its forward.
THEOREM NobodyIsForgotten ==
  Spec => []NoOrphan
  <1>1. IInv => NoOrphan  BY DEF IInv, Known, NoOrphan, AtRest
  <1>2. QED  BY <1>1, Invariant, PTL

\* A VM that is stopped, suspended or broken has no supervisors but those
\* strays, whichever way it went down.
THEOREM DownHasNone ==
  Spec => []DownMeansNone
  <1>1. IInv => DownMeansNone  BY DEF IInv, NoneAt, DownMeansNone, AtRest
  <1>2. QED  BY <1>1, Invariant, PTL

\* Of two supervisors after the same address and port, one is the
\* auto-forward's and the other a configured forward's.
THEOREM BindsAreDisjoint ==
  Spec => []BindsDisjoint
  <1>1. IInv => BindsDisjoint  BY DEF IInv, UniqueAt
  <1>2. QED  BY <1>1, Invariant, PTL

\* What a supervisor serves as configured is in the saved configuration, until
\* a killed write cuts that short.
THEOREM DeclaredAreSaved ==
  Spec => []DeclaredIsSaved
  <1>1. IInv => DeclaredIsSaved  BY DEF IInv, SavedAt, DeclaredIsSaved
  <1>2. QED  BY <1>1, Invariant, PTL
=============================================================================
