------------------------------ MODULE DiskStore ------------------------------
(***************************************************************************)
(* The image cache and the templates together, over the instances whose    *)
(* disks stand on them, and what keeps those disks whole.                  *)
(***************************************************************************)
EXTENDS ImageCache, Templates

Init ==
  /\ vm = [v \in VMs |-> NoVm]
  /\ local = [p \in Procs |-> Idle]
  /\ image = [u \in Urls |-> "none"]
  /\ part = [p \in Procs |-> "none"]
  /\ imageLock = [u \in Urls |-> None]
  /\ raw = [u \in Urls |-> "none"]
  /\ rawPart = [u \in Urls |-> NoPart]
  /\ rawLock = [u \in Urls |-> None]
  /\ tdisk = [t \in Templates |-> "none"]
  /\ tmeta = [t \in Templates |-> "none"]

InstanceNext(p) ==
  \/ SaveOpen(p) \/ SaveWrite(p)
  \/ \E v \in VMs : EditBegin(p, v) \/ DestroyBegin(p, v)
  \/ DestroyEntry(p) \/ DestroyEnd(p)

Next == \E p \in Procs : CacheNext(p) \/ TemplateNext(p) \/ InstanceNext(p) \/ Kill(p)

Spec == Init /\ [][Next]_vars

(* Fairness: a process that is not killed goes on, a body that is being    *)
(* sent ends or stalls into an error (CHUNK_STALL_TIMEOUT), and flock      *)
(* serves every waiter in the end. Nothing makes a server answer.          *)
Proceeds(p) ==
  \/ SaveOpen(p) \/ SaveWrite(p) \/ FetchLook(p) \/ FetchRecheck(p)
  \/ FetchEnd(p) \/ (At(p, "download") /\ FetchFail(p)) \/ FetchVerify(p) \/ FetchRename(p) \/ Overlay(p)
  \/ RawLook(p) \/ RawRecheck(p) \/ RawEnd(p) \/ RawFail(p) \/ RawPublish(p) \/ Copy(p)

FairSpec ==
  Spec /\ \A p \in Procs : /\ WF_vars(Proceeds(p))
                           /\ SF_vars(FetchLock(p)) /\ SF_vars(RawLock(p))

-----------------------------------------------------------------------------
TypeOK ==
  /\ vm \in [VMs -> VmType]
  /\ local \in [Procs -> Processes]
  /\ image \in [Urls -> Bytes] /\ raw \in [Urls -> Bytes]
  /\ part \in [Procs -> Bytes]
  /\ imageLock \in [Urls -> Procs \cup {None}] /\ rawLock \in [Urls -> Procs \cup {None}]
  /\ rawPart \in [Urls -> [by : Procs \cup {None}, of : Bytes, bytes : Bytes]]
  /\ tdisk \in [Templates -> Bytes] /\ tmeta \in [Templates -> {"none", "torn", "saved"}]

(* A VM whose config can be read and whose disk is an overlay has its base *)
(* in place, whole: neither `cache clean` nor `template rm` takes it, and  *)
(* no clone is made of a template that is still being written or was left  *)
(* half-written.                                                           *)
BackingKept ==
  \A v \in VMs : vm[v].cfg = "saved" /\ vm[v].disk = "overlay" =>
    BaseBytes(vm[v].base) \in {"good", "bad"}

(* No disk was made from part of an image, of a conversion or of a         *)
(* template, whatever a killed command left behind, and one made under a   *)
(* checksum was made from bytes that have it.                              *)
MadeOfWholeBytes ==
  \A v \in VMs : vm[v].disk # "none" =>
    vm[v].bytes \in (IF vm[v].checked THEN {"good"} ELSE {"good", "bad"})

(* Parallel creates fetch an image once and convert it once, and nobody    *)
(* fetches or converts what is there.                                      *)
Fetching(u) == {p \in Procs : Base(p) = u /\ local[p].at \in {"request", "download", "verify", "rename"}}
Converting(u) == {p \in Procs : Base(p) = u /\ local[p].at \in {"convert", "publish"}}
FetchedOnce ==
  \A u \in Urls :
    /\ Cardinality(Fetching(u)) <= 1 /\ (Fetching(u) # {} => image[u] = "none")
    /\ Cardinality(Converting(u)) <= 1 /\ (Converting(u) # {} => raw[u] = "none")

(* A create that waits for another's download gets on in the end, with the *)
(* image, with one of its own or with an error, unless some server keeps a *)
(* request open and never answers it: the lock is held all that while.     *)
WaitersProceed ==
  \/ \E q \in Procs : <>[]At(q, "request")
  \/ \A p \in Procs : (local[p].at \in {"lock", "rawlock"}) ~> (local[p].cmd = "idle")

(* The store behind the files: a template counts once its metadata is      *)
(* there, and a VM's disk as long as its config can be read.               *)
Held(b) ==
  IF b \in Urls THEN image[b] ELSE IF tmeta[b] = "saved" THEN tdisk[b] ELSE "none"
StandsOn(v) ==
  IF vm[v].cfg = "saved" /\ vm[v].disk = "overlay" THEN vm[v].base ELSE "none"

Store == INSTANCE BackingStore WITH
  Bases <- Bases, VMs <- VMs, Content <- {"good", "bad"}, Nothing <- "none",
  store <- [b \in Bases |-> Held(b)],
  stands <- [v \in VMs |-> StandsOn(v)]
ImplementsStore == Store!Spec

-----------------------------------------------------------------------------
(* What the properties rest on, while `cache clean` and `template rm` run  *)
(* alone.                                                                  *)

Whole == {"good", "bad"}

(* What the cache may hold: what does not fit gets in with --no-checksum.  *)
Cached == IF Unchecked = {} THEN {"good"} ELSE Whole

Apart ==
  \A p, q \in Procs : p # q =>
    /\ Vm(p) # None => Vm(p) # Vm(q)
    /\ Deleting(local[p].cmd) => local[q].cmd = "idle"
    /\ local[p].cmd = "mktemplate" /\ local[q].cmd = "mktemplate" => Base(p) # Base(q)

(* Whoever fetches or converts has the lock, and its part file; what it is *)
(* about to publish is whole and not there yet.                            *)
Fetched ==
  \A p \in Procs :
    /\ local[p].at \in {"recheck", "request", "download", "verify", "rename"} =>
         imageLock[Base(p)] = p
    /\ local[p].at \in {"request", "download", "verify", "rename"} => image[Base(p)] = "none"
    /\ local[p].at \in {"download", "verify", "rename"} => part[p] # "none"
    /\ local[p].at \in {"verify", "rename"} => part[p] \in Whole
    /\ At(p, "rename") /\ vm[Vm(p)].checked => part[p] = "good"

Converted ==
  \A p \in Procs :
    /\ local[p].at \in {"rawrecheck", "convert", "publish"} => rawLock[Base(p)] = p
    /\ local[p].at \in {"convert", "publish"} =>
         /\ rawPart[Base(p)].by = p /\ rawPart[Base(p)].of \in Cached
         /\ raw[Base(p)] = "none"
    /\ At(p, "publish") => rawPart[Base(p)].bytes \in Cached

CacheHolds == \A u \in Urls : {image[u], raw[u]} \subseteq {"none"} \cup Cached

(* A disk is of its base; only --no-checksum leaves a base unchecked.      *)
VmHolds ==
  \A v \in VMs :
    /\ vm[v].cfg # "none" => vm[v].dir
    /\ vm[v].base \in Urls /\ Unchecked = {} => vm[v].checked
    /\ vm[v].base \in Templates => ~vm[v].checked
    /\ vm[v].disk # "none" =>
         vm[v].base # None /\ vm[v].bytes \in (IF vm[v].base \in Urls THEN Cached ELSE Whole)

(* A VM being made has no disk before the end, and its config on the way.  *)
MakingHolds ==
  \A p \in Procs :
    /\ local[p].cmd \in {"create", "clone"} =>
         vm[Vm(p)].base = Base(p) /\ vm[Vm(p)].disk = "none"
    /\ local[p].cmd \in {"create", "clone", "edit"} => vm[Vm(p)].dir
    /\ local[p].at \in Fetches \cup Converts \cup {"overlay"} => vm[Vm(p)].cfg = "saved"
    /\ local[p].cmd = "mktemplate" => vm[Vm(p)].disk # "none"

(* Who makes a template keeps it from counting until it is whole.          *)
TemplateHolds ==
  /\ \A t \in Templates : tmeta[t] = "saved" => tdisk[t] \in {"none"} \cup Whole
  /\ \A p \in Procs : LET t == Base(p) IN
       /\ local[p].cmd = "mktemplate" => tmeta[t] # "saved"
       /\ local[p].at \in {"meta", "metawrite"} => tdisk[t] \in Whole
       /\ local[p].cmd = "clone" => tmeta[t] = "saved" /\ tdisk[t] # "none"
       /\ local[p].cmd = "rmtemplate" => Dependents(t) = {}
       /\ At(p, "rmmeta") => tdisk[t] = "none"

(* What a sweep has left to delete is nobody's.                            *)
CleanHolds ==
  \A p \in Procs : local[p].cmd = "clean" =>
    /\ Referenced \subseteq local[p].keep
    /\ At(p, "delete") => local[p].todo \cap Kept(local[p].keep) = {}

(* BackingKept, also of a VM whose config is being saved again.            *)
Edited(v) == \E p \in Procs : local[p].cmd = "edit" /\ Vm(p) = v
Backed ==
  \A v \in VMs : vm[v].disk = "overlay" /\ (vm[v].cfg = "saved" \/ Edited(v)) =>
    IF vm[v].base \in Urls THEN image[vm[v].base] # "none"
    ELSE tmeta[vm[v].base] = "saved" /\ tdisk[vm[v].base] # "none"

IInv ==
  /\ TypeOK /\ Apart /\ Fetched /\ Converted /\ CacheHolds /\ VmHolds
  /\ MakingHolds /\ TemplateHolds /\ CleanHolds /\ Backed
=============================================================================
