------------------------------ MODULE Templates ------------------------------
(***************************************************************************)
(* `agv template create`, `agv template rm` and `agv create --from`.       *)
(***************************************************************************)
EXTENDS Disks

(* create_template: the names are looked at first; then the VM is started  *)
(* and stopped, which takes minutes; then its disk is flattened.           *)
TemplateBegin(p, v, t) ==
  /\ vm[v].cfg = "saved" /\ vm[v].disk # "none" /\ vm[v].backend = "qemu"
  /\ tdisk[t] = "none" /\ tmeta[t] = "none"
  /\ Begin(p, "mktemplate", "boot", v, t)
  /\ UNCHANGED <<vm, cacheVars, templateVars>>

BaseBytes(b) == IF b \in Urls THEN image[b] ELSE tdisk[b]

(* qemu-img creates the file it converts to before it reads the source,    *)
(* whose own base it needs.                                                *)
TemplateOpen(p) ==
  /\ At(p, "boot")
  /\ \/ /\ BaseBytes(vm[Vm(p)].base) # "none"
        /\ tdisk' = [tdisk EXCEPT ![Base(p)] = "some"]
        /\ Goto(p, "flatten")
     \/ Finish(p) /\ UNCHANGED tdisk       \* no SSH, no machine id, no qemu-img
  /\ UNCHANGED <<vm, cacheVars, tmeta>>

TemplateFlatten(p) ==
  /\ At(p, "flatten")
  /\ \/ /\ tdisk' = [tdisk EXCEPT ![Base(p)] = vm[Vm(p)].bytes]
        /\ Goto(p, "meta")
     \/ Finish(p) /\ UNCHANGED tdisk       \* the conversion fails: part of it stays
  /\ UNCHANGED <<vm, cacheVars, tmeta>>

(* The metadata is written last; truncated, then written. *)
TemplateMetaOpen(p) ==
  /\ At(p, "meta")
  /\ tmeta' = [tmeta EXCEPT ![Base(p)] = "torn"]
  /\ Goto(p, "metawrite")
  /\ UNCHANGED <<vm, cacheVars, tdisk>>

TemplateMetaWrite(p) ==
  /\ At(p, "metawrite")
  /\ tmeta' = [tmeta EXCEPT ![Base(p)] = "saved"]
  /\ Finish(p)
  /\ UNCHANGED <<vm, cacheVars, tdisk>>

(* find_template_dependents: a config that cannot be read depends on       *)
(* nothing.                                                                *)
Dependents(t) == {v \in VMs : vm[v].cfg = "saved" /\ vm[v].base = t}

(* remove_template: the disk must be there, and nobody may depend on it.   *)
RmScan(p, t) ==
  /\ tdisk[t] # "none"
  /\ Dependents(t) = {}
  /\ Begin(p, "rmtemplate", "rmdisk", None, t)
  /\ UNCHANGED <<vm, cacheVars, templateVars>>

RmDisk(p) ==
  /\ At(p, "rmdisk")
  /\ tdisk' = [tdisk EXCEPT ![Base(p)] = "none"]
  /\ IF tdisk[Base(p)] = "none" THEN Finish(p) ELSE Goto(p, "rmmeta")
  /\ UNCHANGED <<vm, cacheVars, tmeta>>

RmMeta(p) ==
  /\ At(p, "rmmeta")
  /\ tmeta' = [tmeta EXCEPT ![Base(p)] = "none"]
  /\ Finish(p)
  /\ UNCHANGED <<vm, cacheVars, tdisk>>

(* A clone that only looks for the disk. *)
CloneBeginEarly(p, v, t) ==
  /\ tdisk[t] # "none"
  /\ ~vm[v].dir
  /\ Begin(p, "clone", "save", v, t)
  /\ vm' = [vm EXCEPT ![v] = Fresh(t, FALSE, "qemu")]
  /\ UNCHANGED <<cacheVars, templateVars>>

(* create_from_template: the disk must be there and the metadata must      *)
(* parse; the clone is always an overlay.                                  *)
CloneBegin(p, v, t) ==
  /\ tdisk[t] # "none"
  /\ tmeta[t] = "saved"
  /\ ~vm[v].dir
  /\ Begin(p, "clone", "save", v, t)
  /\ vm' = [vm EXCEPT ![v] = Fresh(t, FALSE, "qemu")]
  /\ UNCHANGED <<cacheVars, templateVars>>

CloneOverlay(p) ==
  /\ At(p, "overlay")
  /\ IF tdisk[Base(p)] = "none"
     THEN UNCHANGED vm
     ELSE vm' = [vm EXCEPT ![Vm(p)].disk = "overlay", ![Vm(p)].bytes = tdisk[Base(p)]]
  /\ Finish(p)
  /\ UNCHANGED <<cacheVars, templateVars>>

TemplateNext(p) ==
  \/ \E v \in VMs, t \in Templates : TemplateBegin(p, v, t) \/ CloneBegin(p, v, t)
  \/ TemplateOpen(p) \/ TemplateFlatten(p) \/ TemplateMetaOpen(p) \/ TemplateMetaWrite(p)
  \/ \E t \in Templates : RmScan(p, t)
  \/ RmDisk(p) \/ RmMeta(p)
  \/ CloneOverlay(p)
=============================================================================
