------------------------------- MODULE Disks -------------------------------
(***************************************************************************)
(* What the image cache and the templates share: the files a VM's disk is  *)
(* made from, the instance directories, and the commands under way.        *)
(*                                                                         *)
(* Simplifications.                                                        *)
(*  - What a file holds is one of Bytes: "some" of it (being written, or   *)
(*    left by a command that died), or all of it, "good" or "bad" by the   *)
(*    checksum the config names.                                           *)
(*  - One part file per download: its name has the process's id and a time *)
(*    of its own, so one that was left behind is never opened again, and   *)
(*    the model forgets it.                                                *)
(*  - A lock that is removed while it is held leaves its holder with a     *)
(*    lock nobody else can see; a process that is already waiting for that *)
(*    lock takes the new one.                                              *)
(*  - Statuses, keys and seeds are left to VmLifecycle.                    *)
(***************************************************************************)
EXTENDS Naturals, FiniteSets

CONSTANTS
  Procs,        \* agv commands that may be under way together
  VMs,          \* instance names
  Urls,         \* base images, each with a file name of its own in the cache
  Templates,    \* template names
  None,         \* no process, no base
  Unchecked,    \* whether `--no-checksum` may be passed: a subset of {TRUE}
  Overlap       \* whether `cache clean` and `template rm` may overlap others

ASSUME DisksAssumption ==
  /\ None \notin Procs \cup VMs \cup Urls \cup Templates
  /\ "none" \notin Urls \cup Templates
  /\ Urls \cap Templates = {}
  /\ Unchecked \subseteq {TRUE}
  /\ Overlap \in BOOLEAN

VARIABLES
  vm,           \* the instance directories
  local,        \* per process: the command and its place in it
  image,        \* <cache>/<file>: the cached base images
  part,         \* <cache>/<file>.part.<pid>.<time>
  imageLock,    \* <cache>/<file>.lock: who holds it
  raw,          \* <cache>/<file>.raw: the conversion for AVF
  rawPart,      \* <cache>/<file>.raw.partial
  rawLock,      \* <cache>/<file>.raw.lock
  tdisk,        \* <templates>/<name>.qcow2
  tmeta         \* <templates>/<name>.toml

cacheVars == <<image, part, imageLock, raw, rawPart, rawLock>>
templateVars == <<tdisk, tmeta>>
vars == <<vm, local, image, part, imageLock, raw, rawPart, rawLock, tdisk, tmeta>>

Bases == Urls \cup Templates
Bytes == {"none", "some", "good", "bad"}

(* An instance directory: its config.toml, what the config says the disk   *)
(* was made from, and the disk: an overlay on that base or a copy of it.   *)
NoVm == [dir |-> FALSE, cfg |-> "none", base |-> None, checked |-> TRUE,
         backend |-> "qemu", disk |-> "none", bytes |-> "none"]

VmType ==
  [dir : BOOLEAN, cfg : {"none", "torn", "saved"}, base : Bases \cup {None},
   checked : BOOLEAN, backend : {"qemu", "avf"},
   disk : {"none", "overlay", "copy"}, bytes : Bytes]

Command(c, place, v, b) ==
  [cmd |-> c, at |-> place, vm |-> v, base |-> b, keep |-> {}, todo |-> {}]
Idle == Command("idle", "idle", None, None)

(* The files of the cache, by name. *)
Files == ({"image", "lock", "raw", "rawpart", "rawlock"} \X Urls) \cup ({"part"} \X Procs)

(* What a process may be doing, and against what. *)
Fetches == {"look", "lock", "recheck", "request", "download", "verify", "rename"}
Converts == {"disk", "rawlock", "rawrecheck", "convert", "publish", "copy"}
Doing(c, places, vs, bs) ==
  [cmd : {c}, at : places, vm : vs, base : bs, keep : {{}}, todo : {{}}]
Processes ==
  {Idle}
    \cup Doing("create", {"save", "saving"} \cup Fetches \cup Converts, VMs, Urls)
    \cup Doing("clone", {"save", "saving", "overlay"}, VMs, Templates)
    \cup Doing("edit", {"save", "saving"}, VMs, {None})
    \cup Doing("destroy", {"remove"}, VMs, {None})
    \cup Doing("mktemplate", {"boot", "flatten", "meta", "metawrite"}, VMs, Templates)
    \cup Doing("rmtemplate", {"rmdisk", "rmmeta"}, {None}, Templates)
    \cup [cmd : {"clean"}, at : {"list", "delete"}, vm : {None}, base : {None},
          keep : SUBSET (Bases \cup {None}), todo : SUBSET Files]

(* A conversion under way: who writes it, from what, and how far it is. *)
NoPart == [by |-> None, of |-> "none", bytes |-> "none"]

Fresh(b, c, k) == [NoVm EXCEPT !.dir = TRUE, !.base = b, !.checked = c, !.backend = k]

At(p, place) == local[p].at = place
Goto(p, place) == local' = [local EXCEPT ![p].at = place]
Finish(p) == local' = [local EXCEPT ![p] = Idle]
Vm(p) == local[p].vm
Base(p) == local[p].base

(* Two commands against one VM are undefined, as locks.rs says; and unless *)
(* Overlap, the two commands that delete what others may stand on, and the *)
(* two that would make one template, do not overlap.                       *)
Deleting(c) == c \in {"clean", "rmtemplate"}
MayBegin(p, c, v, b) ==
  /\ local[p].cmd = "idle"
  /\ v # None => \A q \in Procs : local[q].vm # v
  /\ ~Overlap =>
       /\ Deleting(c) => \A q \in Procs : local[q].cmd = "idle"
       /\ \A q \in Procs : ~Deleting(local[q].cmd)
       /\ c = "mktemplate" => \A q \in Procs : local[q].cmd = c => local[q].base # b

Begin(p, c, place, v, b) ==
  /\ MayBegin(p, c, v, b)
  /\ local' = [local EXCEPT ![p] = Command(c, place, v, b)]

(* config::save: the file is truncated, then written. *)
AfterSave(c) == CASE c = "create" -> "look" [] c = "clone" -> "overlay" [] OTHER -> "idle"

SaveOpen(p) ==
  /\ At(p, "save")
  /\ vm' = [vm EXCEPT ![Vm(p)].cfg = "torn"]
  /\ Goto(p, "saving")
  /\ UNCHANGED <<cacheVars, templateVars>>

SaveWrite(p) ==
  /\ At(p, "saving")
  /\ vm' = [vm EXCEPT ![Vm(p)].cfg = "saved"]
  /\ IF local[p].cmd = "edit" THEN Finish(p) ELSE Goto(p, AfterSave(local[p].cmd))
  /\ UNCHANGED <<cacheVars, templateVars>>

(* `config set`, or the first start of a VM, which pins the machine type:  *)
(* either reads the config and writes it back.                             *)
EditBegin(p, v) ==
  /\ vm[v].cfg = "saved"
  /\ Begin(p, "edit", "save", v, None)
  /\ UNCHANGED <<vm, cacheVars, templateVars>>

(* destroy: remove_dir_all takes the entries in the order the directory    *)
(* gives them.                                                             *)
DestroyBegin(p, v) ==
  /\ vm[v].dir
  /\ Begin(p, "destroy", "remove", v, None)
  /\ UNCHANGED <<vm, cacheVars, templateVars>>

DestroyEntry(p) ==
  /\ At(p, "remove")
  /\ \/ vm[Vm(p)].cfg # "none" /\ vm' = [vm EXCEPT ![Vm(p)].cfg = "none"]
     \/ vm[Vm(p)].disk # "none" /\ vm' = [vm EXCEPT ![Vm(p)].disk = "none", ![Vm(p)].bytes = "none"]
  /\ UNCHANGED <<local, cacheVars, templateVars>>

DestroyEnd(p) ==
  /\ At(p, "remove")
  /\ vm[Vm(p)].cfg = "none" /\ vm[Vm(p)].disk = "none"
  /\ vm' = [vm EXCEPT ![Vm(p)] = NoVm]
  /\ Finish(p)
  /\ UNCHANGED <<cacheVars, templateVars>>

(* The guard of a lock is dropped on every way out. *)
Released(lock, p) == [u \in Urls |-> IF lock[u] = p THEN None ELSE lock[u]]

(* The process is killed: the kernel drops its locks, its files stay. *)
Kill(p) ==
  /\ local[p].cmd # "idle"
  /\ Finish(p)
  /\ imageLock' = Released(imageLock, p)
  /\ rawLock' = Released(rawLock, p)
  /\ part' = [part EXCEPT ![p] = "none"]
  /\ UNCHANGED <<vm, image, raw, rawPart, templateVars>>
=============================================================================
