-------------------------- MODULE DiskStoreProofs --------------------------
(***************************************************************************)
(* Proofs about DiskStore, for any number of processes, VMs, images and    *)
(* templates, while `cache clean` and `template rm` run alone: what it     *)
(* promises of the disks, and that it implements BackingStore.             *)
(*                                                                         *)
(* The invariant IInv has a lemma per kind of step (EndKeeps for every way *)
(* out, FetchKeeps, ConvertKeeps, MadeKeeps, TornKeeps, SavedKeeps,        *)
(* LossKeeps, BeginKeeps, NewKeeps, SweepKeeps and TemplateKeeps); the     *)
(* refinement has one per kind of step of the store.                       *)
(***************************************************************************)
EXTENDS DiskStore, FiniteSetTheorems, TLAPS

-----------------------------------------------------------------------------
(* What a process may be doing at each place, and how it goes on.          *)

LEMMA Places ==
  ASSUME TypeOK, NEW p \in Procs
  PROVE  /\ local[p].cmd = "idle" <=> local[p] = Idle
         /\ local[p].at \in Fetches \cup Converts => local[p].cmd = "create"
         /\ local[p].at \in {"save", "saving"} => local[p].cmd \in {"create", "clone", "edit"}
         /\ At(p, "overlay") => local[p].cmd = "clone"
         /\ At(p, "remove") => local[p].cmd = "destroy"
         /\ local[p].at \in {"boot", "flatten", "meta", "metawrite"} => local[p].cmd = "mktemplate"
         /\ local[p].at \in {"rmdisk", "rmmeta"} => local[p].cmd = "rmtemplate"
         /\ local[p].at \in {"list", "delete"} => local[p].cmd = "clean"
<1>1. local[p] \in Processes
  BY DEF TypeOK
<1> QED
  BY <1>1, SMTT(30) DEF Processes, Doing, Idle, Command, Fetches, Converts, At

LEMMA Against ==
  ASSUME TypeOK, NEW p \in Procs
  PROVE  /\ local[p].cmd \in {"create", "clone", "edit", "destroy", "mktemplate"} => Vm(p) \in VMs
         /\ local[p].cmd \in {"idle", "rmtemplate", "clean"} => Vm(p) = None
         /\ local[p].cmd = "create" => Base(p) \in Urls
         /\ local[p].cmd \in {"clone", "mktemplate", "rmtemplate"} => Base(p) \in Templates
         /\ local[p].cmd \in {"idle", "edit", "destroy", "clean"} => Base(p) = None
<1>1. local[p] \in Processes
  BY DEF TypeOK
<1> QED
  BY <1>1, SMTT(30) DEF Processes, Doing, Idle, Command, Vm, Base

LEMMA GoesOn ==
  ASSUME TypeOK, NEW p \in Procs, NEW place, Goto(p, place),
         \/ local[p].cmd = "create" /\ place \in {"saving"} \cup Fetches \cup Converts
         \/ local[p].cmd = "clone" /\ place \in {"saving", "overlay"}
         \/ local[p].cmd = "edit" /\ place = "saving"
         \/ local[p].cmd = "mktemplate" /\ place \in {"flatten", "meta", "metawrite"}
         \/ local[p].cmd = "rmtemplate" /\ place = "rmmeta"
  PROVE  local' \in [Procs -> Processes]
<1> DEFINE l == [local[p] EXCEPT !.at = place]
<1>1. local' = [local EXCEPT ![p] = l]
  BY DEF Goto
<1>2. local[p] \in Processes
  BY DEF TypeOK
<1>3. l \in Processes
  BY <1>2, SMTT(30) DEF Processes, Doing, Idle, Command, Fetches, Converts
<1> QED
  BY <1>1, <1>3 DEF TypeOK

LEMMA Ends ==
  ASSUME TypeOK, NEW p \in Procs, Finish(p)
  PROVE  local' \in [Procs -> Processes]
BY DEF TypeOK, Finish, Processes

LEMMA Begins ==
  ASSUME TypeOK, NEW p \in Procs, NEW c, NEW place, NEW v, NEW b, Begin(p, c, place, v, b),
         \/ c = "create" /\ place = "save" /\ v \in VMs /\ b \in Urls
         \/ c = "clone" /\ place = "save" /\ v \in VMs /\ b \in Templates
         \/ c = "edit" /\ place = "save" /\ v \in VMs /\ b = None
         \/ c = "destroy" /\ place = "remove" /\ v \in VMs /\ b = None
         \/ c = "mktemplate" /\ place = "boot" /\ v \in VMs /\ b \in Templates
         \/ c = "rmtemplate" /\ place = "rmdisk" /\ v = None /\ b \in Templates
  PROVE  local' \in [Procs -> Processes]
<1> DEFINE l == Command(c, place, v, b)
<1>1. local' = [local EXCEPT ![p] = l]
  BY DEF Begin
<1>2. \E places, vs, bs : l \in Doing(c, places, vs, bs) /\ Doing(c, places, vs, bs) \subseteq Processes
  <2>1. ASSUME NEW places, NEW vs, NEW bs, place \in places, v \in vs, b \in bs
        PROVE  l \in Doing(c, places, vs, bs)
    BY <2>1 DEF Doing, Command
  <2> HIDE DEF l
  <2>2. CASE c = "create"
    BY <2>1, <2>2 DEF Processes
  <2>3. CASE c = "clone"
    BY <2>1, <2>3 DEF Processes
  <2>4. CASE c = "edit"
    BY <2>1, <2>4 DEF Processes
  <2>5. CASE c = "destroy"
    BY <2>1, <2>5 DEF Processes
  <2>6. CASE c = "mktemplate"
    BY <2>1, <2>6 DEF Processes
  <2>7. CASE c = "rmtemplate"
    BY <2>1, <2>7 DEF Processes
  <2> QED
    BY <2>2, <2>3, <2>4, <2>5, <2>6, <2>7
<1> HIDE DEF l
<1> QED
  BY <1>1, <1>2 DEF TypeOK

LEMMA Freed ==
  ASSUME NEW p \in Procs, NEW lock \in [Urls -> Procs \cup {None}]
  PROVE  Released(lock, p) \in [Urls -> Procs \cup {None}]
BY DEF Released

LEMMA StillHeld ==
  ASSUME NEW p \in Procs, NEW lock \in [Urls -> Procs \cup {None}], NEW u \in Urls, lock[u] # p
  PROVE  Released(lock, p)[u] = lock[u]
BY DEF Released

\* The other processes stay where they are, and p ...
Others(p) == \A q \in Procs : q # p => local'[q] = local[q]

LEMMA Moved ==
  ASSUME TypeOK, NEW p \in Procs, NEW place, Goto(p, place)
  PROVE  /\ Others(p)
         /\ local'[p].at = place
         /\ local'[p].cmd = local[p].cmd /\ local'[p].vm = local[p].vm
         /\ local'[p].base = local[p].base
         /\ local'[p].keep = local[p].keep /\ local'[p].todo = local[p].todo
<1>1. local[p] \in Processes
  BY DEF TypeOK
<1>2. local'[p] = [local[p] EXCEPT !.at = place]
  BY DEF TypeOK, Goto
<1>3. /\ local'[p].at = place
      /\ local'[p].cmd = local[p].cmd /\ local'[p].vm = local[p].vm
      /\ local'[p].base = local[p].base
      /\ local'[p].keep = local[p].keep /\ local'[p].todo = local[p].todo
  BY <1>1, <1>2, SMTT(30) DEF Processes, Doing, Idle, Command
<1> QED
  BY <1>3 DEF TypeOK, Goto, Others

LEMMA Ended ==
  ASSUME TypeOK, NEW p \in Procs, Finish(p)
  PROVE  Others(p) /\ local'[p] = Idle
BY DEF TypeOK, Finish, Others

LEMMA Begun ==
  ASSUME TypeOK, NEW p \in Procs, NEW c, NEW place, NEW v, NEW b, Begin(p, c, place, v, b)
  PROVE  Others(p) /\ local'[p] = Command(c, place, v, b)
BY DEF TypeOK, Begin, Others

-----------------------------------------------------------------------------
(* A command ends, or its process is killed, and leaves its files.         *)

LEMMA EndKeeps ==
  ASSUME IInv, NEW p \in Procs, Finish(p),
         imageLock' \in {imageLock, Released(imageLock, p)},
         rawLock' \in {rawLock, Released(rawLock, p)},
         part' \in {part, [part EXCEPT ![p] = "none"]},
         UNCHANGED <<vm, image, raw, rawPart, templateVars>>
  PROVE  IInv'
<1> USE DisksAssumption DEF IInv, templateVars
<1>1. Others(p) /\ local'[p] = Idle
  BY Ended
<1>2. /\ local'[p].at = "idle" /\ local'[p].cmd = "idle"
      /\ local'[p].vm = None /\ local'[p].base = None
  BY <1>1 DEF Idle, Command
<1>3. TypeOK'
  BY Ends, Freed DEF TypeOK, Bytes
<1>4. /\ \A u \in Urls : imageLock[u] # p => imageLock'[u] = imageLock[u]
      /\ \A u \in Urls : rawLock[u] # p => rawLock'[u] = rawLock[u]
      /\ \A q \in Procs : q # p => part'[q] = part[q]
  BY DEF TypeOK, Released
<1>5. Apart'
  BY <1>1, <1>2 DEF Apart, Others, Vm, Base, Deleting
<1>6. Fetched'
  BY <1>1, <1>2, <1>4, Places, Against DEF Fetched, Others, At, Vm, Base, Fetches
<1>7. Converted'
  BY <1>1, <1>2, <1>4, Places, Against DEF Converted, Others, At, Base, Converts
<1>8. CacheHolds' /\ VmHolds'
  BY DEF CacheHolds, VmHolds
<1>9. MakingHolds'
  BY <1>1, <1>2 DEF MakingHolds, Others, Vm, Base, Fetches, Converts
<1>10. TemplateHolds'
  BY <1>1, <1>2 DEF TemplateHolds, Others, At, Base, Dependents
<1>11. CleanHolds'
  BY <1>1, <1>2 DEF CleanHolds, Others, At, Referenced, Kept
<1>12. Backed'
  BY <1>1, <1>2 DEF Backed, Others, Edited, Vm
<1> QED
  BY <1>3, <1>5, <1>6, <1>7, <1>8, <1>9, <1>10, <1>11, <1>12

-----------------------------------------------------------------------------
(* `agv create` between its config and its disk: it only adds to the cache. *)

LEMMA CreateGoesOn ==
  ASSUME IInv, NEW p \in Procs, NEW place \in Fetches \cup Converts, Goto(p, place),
         local[p].at \in Fetches \cup Converts,
         \A u \in Urls : image[u] # "none" => image'[u] = image[u],
         UNCHANGED <<vm, templateVars>>
  PROVE  /\ local' \in [Procs -> Processes]
         /\ Apart' /\ VmHolds' /\ MakingHolds' /\ TemplateHolds' /\ CleanHolds' /\ Backed'
<1> USE DisksAssumption DEF IInv, templateVars
<1>1. local[p].cmd = "create"
  BY Places
<1>2. /\ Others(p) /\ local'[p].at = place
      /\ local'[p].cmd = "create" /\ local'[p].vm = local[p].vm /\ local'[p].base = local[p].base
  BY <1>1, Moved
<1>3. local' \in [Procs -> Processes]
  BY <1>1, GoesOn
<1>4. Apart'
  BY <1>1, <1>2 DEF Apart, Others, Vm, Base, Deleting
<1>5. VmHolds'
  BY DEF VmHolds
<1>6. MakingHolds'
  BY <1>1, <1>2 DEF MakingHolds, Others, Vm, Base
<1>7. TemplateHolds'
  BY <1>1, <1>2 DEF TemplateHolds, Others, At, Base, Dependents, Fetches, Converts
<1>8. CleanHolds'
  BY <1>1, <1>2 DEF CleanHolds, Others, At, Referenced, Kept
<1>9. Backed'
  BY <1>1, <1>2 DEF Backed, Others, Edited, Vm, TypeOK, VmType
<1> QED
  BY <1>3, <1>4, <1>5, <1>6, <1>7, <1>8, <1>9

LEMMA FetchedStays ==
  ASSUME IInv, NEW p \in Procs, Others(p),
         local'[p].at \notin {"recheck", "request", "download", "verify", "rename"},
         UNCHANGED <<vm, image, part, imageLock>>
  PROVE  Fetched'
BY DEF IInv, Fetched, Others, At, Base, Vm

LEMMA ConvertedStays ==
  ASSUME IInv, NEW p \in Procs, Others(p),
         local'[p].at \notin {"rawrecheck", "convert", "publish"},
         UNCHANGED <<raw, rawPart, rawLock>>
  PROVE  Converted'
BY DEF IInv, Converted, Others, At, Base

LEMMA FetchKeeps ==
  ASSUME IInv, NEW p \in Procs,
         \/ FetchLook(p) \/ FetchLock(p) \/ FetchRecheck(p) \/ FetchAnswer(p)
         \/ FetchEnd(p) \/ FetchVerify(p) \/ FetchRename(p)
  PROVE  IInv'
<1> USE DisksAssumption DEF IInv, cacheVars, templateVars
<1> DEFINE u == Base(p)
<1>1. ASSUME NEW place \in Fetches \cup Converts, Goto(p, place),
             local[p].at \in Fetches
      PROVE  /\ Others(p) /\ local'[p].at = place
             /\ local'[p].cmd = "create" /\ local[p].cmd = "create" /\ u \in Urls
             /\ local'[p].vm = Vm(p) /\ Vm(p) \in VMs /\ local'[p].base = u
  BY <1>1, Moved, Places, Against DEF Vm, Base
<1>2. CASE FetchLook(p)
  <2> DEFINE place == IF image[u] # "none" THEN "disk" ELSE "lock"
  <2>1. Goto(p, place) /\ At(p, "look") /\ place \in {"disk", "lock"}
    BY <1>2 DEF FetchLook
  <2> HIDE DEF place
  <2>2. /\ local' \in [Procs -> Processes]
        /\ Apart' /\ VmHolds' /\ MakingHolds' /\ TemplateHolds' /\ CleanHolds' /\ Backed'
    BY <1>2, <2>1, CreateGoesOn DEF FetchLook, At, Fetches, Converts
  <2>3. TypeOK' /\ CacheHolds'
    BY <1>2, <2>2 DEF FetchLook, TypeOK, CacheHolds
  <2>4. Fetched'
    BY <1>1, <1>2, <2>1, FetchedStays DEF FetchLook, At, Fetches, Converts
  <2>5. Converted'
    BY <1>1, <1>2, <2>1, ConvertedStays DEF FetchLook, At, Fetches, Converts
  <2> QED
    BY <2>2, <2>3, <2>4, <2>5
<1>3. CASE FetchLock(p)
  <2>1. Goto(p, "recheck") /\ At(p, "lock")
    BY <1>3 DEF FetchLock
  <2>2. /\ local' \in [Procs -> Processes]
        /\ Apart' /\ VmHolds' /\ MakingHolds' /\ TemplateHolds' /\ CleanHolds' /\ Backed'
    BY <1>3, <2>1, CreateGoesOn DEF FetchLock, At, Fetches, Converts
  <2>3. TypeOK' /\ CacheHolds'
    BY <1>3, <2>2 DEF FetchLock, TypeOK, CacheHolds
  <2>4. Fetched'
    BY <1>1, <1>3, <2>1, Places, Against
       DEF FetchLock, Fetched, TypeOK, Others, At, Base, Vm, Fetches
  <2>5. Converted'
    BY <1>1, <1>3, <2>1, ConvertedStays DEF FetchLock, At, Fetches, Converts
  <2> QED
    BY <2>2, <2>3, <2>4, <2>5
<1>4. CASE FetchRecheck(p) /\ image[u] # "none"
  <2>1. Goto(p, "disk") /\ At(p, "recheck") /\ imageLock' = Released(imageLock, p)
    BY <1>4 DEF FetchRecheck
  <2>2. /\ local' \in [Procs -> Processes]
        /\ Apart' /\ VmHolds' /\ MakingHolds' /\ TemplateHolds' /\ CleanHolds' /\ Backed'
    BY <1>4, <2>1, CreateGoesOn DEF FetchRecheck, At, Fetches, Converts
  <2>3. TypeOK' /\ CacheHolds'
    BY <1>4, <2>1, <2>2, Freed DEF FetchRecheck, TypeOK, CacheHolds
  <2>4. Fetched'
    <3>1. Others(p) /\ local'[p].at = "disk"
      BY <1>1, <2>1 DEF At, Fetches, Converts
    <3>2. ASSUME NEW q \in Procs, q # p, Base(q) \in Urls, imageLock[Base(q)] = q
          PROVE  imageLock'[Base(q)] = q
      BY <2>1, <3>2, StillHeld DEF TypeOK
    <3> QED
      BY <1>4, <3>1, <3>2, Places, Against DEF FetchRecheck, Fetched, Others, At, Base, Vm, Fetches
  <2>5. Converted'
    BY <1>1, <1>4, <2>1, ConvertedStays DEF FetchRecheck, At, Fetches, Converts
  <2> QED
    BY <2>2, <2>3, <2>4, <2>5
<1>5. CASE FetchRecheck(p) /\ image[u] = "none"
  <2>1. Goto(p, "request") /\ At(p, "recheck") /\ UNCHANGED <<part, imageLock>>
    BY <1>5 DEF FetchRecheck
  <2>2. /\ local' \in [Procs -> Processes]
        /\ Apart' /\ VmHolds' /\ MakingHolds' /\ TemplateHolds' /\ CleanHolds' /\ Backed'
    BY <1>5, <2>1, CreateGoesOn DEF FetchRecheck, At, Fetches, Converts
  <2>3. TypeOK' /\ CacheHolds'
    BY <1>5, <2>1, <2>2 DEF FetchRecheck, TypeOK, CacheHolds
  <2>4. Fetched'
    BY <1>1, <1>5, <2>1
       DEF FetchRecheck, Fetched, TypeOK, Others, At, Base, Vm, Fetches
  <2>5. Converted'
    BY <1>1, <1>5, <2>1, ConvertedStays DEF FetchRecheck, At, Fetches, Converts
  <2> QED
    BY <2>2, <2>3, <2>4, <2>5
<1>6. CASE FetchEnd(p)
  <2>1. Goto(p, "verify") /\ At(p, "download") /\ part[p] # "none"
    BY <1>6 DEF FetchEnd, Fetched, At
  <2>2. PICK b \in Whole : part' = [part EXCEPT ![p] = b]
    BY <1>6, <2>1 DEF FetchEnd, Whole
  <2>3. /\ local' \in [Procs -> Processes]
        /\ Apart' /\ VmHolds' /\ MakingHolds' /\ TemplateHolds' /\ CleanHolds' /\ Backed'
    BY <1>6, <2>1, CreateGoesOn DEF FetchEnd, At, Fetches, Converts
  <2>4. TypeOK' /\ CacheHolds'
    BY <1>6, <2>2, <2>3 DEF FetchEnd, TypeOK, CacheHolds, Bytes, Whole
  <2>5. Fetched'
    BY <1>1, <1>6, <2>1, <2>2
       DEF FetchEnd, Fetched, TypeOK, Others, At, Base, Vm, Fetches, Whole
  <2>6. Converted'
    BY <1>1, <1>6, <2>1, <2>2, ConvertedStays DEF FetchEnd, At, Fetches, Converts
  <2> QED
    BY <2>3, <2>4, <2>5, <2>6
<1>7. CASE FetchVerify(p) /\ vm[Vm(p)].checked /\ ~Fits(p)
  BY <1>7, EndKeeps DEF FetchVerify
<1>8. CASE FetchVerify(p) /\ ~(vm[Vm(p)].checked /\ ~Fits(p))
  <2>1. Goto(p, "rename") /\ At(p, "verify") /\ UNCHANGED <<vm, cacheVars, templateVars>>
    BY <1>8 DEF FetchVerify
  <2>2. /\ local' \in [Procs -> Processes]
        /\ Apart' /\ VmHolds' /\ MakingHolds' /\ TemplateHolds' /\ CleanHolds' /\ Backed'
    BY <2>1, CreateGoesOn DEF At, Fetches, Converts
  <2>3. TypeOK' /\ CacheHolds'
    BY <2>1, <2>2 DEF TypeOK, CacheHolds
  <2>4. Fetched'
    BY <1>1, <1>8, <2>1
       DEF Fits, Fetched, TypeOK, Others, At, Base, Vm, Fetches
  <2>5. Converted'
    BY <1>1, <1>8, <2>1, ConvertedStays DEF FetchVerify, At, Fetches, Converts
  <2> QED
    BY <2>2, <2>3, <2>4, <2>5
<1>9. CASE FetchRename(p)
  <2>1. /\ At(p, "rename") /\ part[p] # "none" /\ part[p] \in Whole
        /\ imageLock[u] = p /\ image[u] = "none"
    BY <1>9 DEF FetchRename, Fetched, At
  <2>2. /\ Goto(p, "disk") /\ imageLock' = Released(imageLock, p)
        /\ image' = [image EXCEPT ![u] = part[p]] /\ part' = [part EXCEPT ![p] = "none"]
    BY <1>9, <2>1 DEF FetchRename
  <2>3. local[p].cmd = "create" /\ u \in Urls /\ Vm(p) \in VMs
    BY <2>1, Places, Against DEF At, Fetches
  <2>4. part[p] \in Cached
    BY <2>1, <2>3 DEF Cached, Whole, Fetched, At, MakingHolds, VmHolds
  <2>5. /\ local' \in [Procs -> Processes]
        /\ Apart' /\ VmHolds' /\ MakingHolds' /\ TemplateHolds' /\ CleanHolds' /\ Backed'
    BY <1>9, <2>1, <2>2, CreateGoesOn DEF FetchRename, At, Fetches, Converts, TypeOK
  <2>6. TypeOK' /\ CacheHolds'
    <3>1. image' \in [Urls -> Bytes] /\ part' \in [Procs -> Bytes]
      BY <2>1, <2>2 DEF TypeOK, Bytes, Whole
    <3>2. \A w \in Urls : image'[w] = image[w] \/ image'[w] \in Cached
      BY <2>2, <2>4 DEF TypeOK
    <3> QED
      BY <1>9, <2>2, <2>5, <3>1, <3>2, Freed DEF FetchRename, TypeOK, CacheHolds
  <2>7. Fetched'
    <3>1. Others(p) /\ local'[p].at = "disk"
      BY <1>1, <2>1, <2>2 DEF At, Fetches, Converts
    <3>2. ASSUME NEW q \in Procs, q # p, Base(q) \in Urls, imageLock[Base(q)] = q
          PROVE  imageLock'[Base(q)] = q /\ image'[Base(q)] = image[Base(q)]
      BY <2>1, <2>2, <3>2, StillHeld DEF TypeOK
    <3>3. \A q \in Procs : q # p => part'[q] = part[q]
      BY <2>2 DEF TypeOK
    <3> QED
      BY <1>9, <3>1, <3>2, <3>3, Places, Against
         DEF FetchRename, Fetched, Others, At, Base, Vm, Fetches
  <2>8. Converted'
    BY <1>1, <1>9, <2>1, <2>2, ConvertedStays DEF FetchRename, At, Fetches, Converts
  <2> QED
    BY <2>5, <2>6, <2>7, <2>8
<1>10. CASE FetchAnswer(p)
  <2>1. /\ Goto(p, "download") /\ At(p, "request")
        /\ part' = [part EXCEPT ![p] = "some"]
    BY <1>10 DEF FetchAnswer
  <2>2. /\ local' \in [Procs -> Processes]
        /\ Apart' /\ VmHolds' /\ MakingHolds' /\ TemplateHolds' /\ CleanHolds' /\ Backed'
    BY <1>10, <2>1, CreateGoesOn DEF FetchAnswer, At, Fetches, Converts
  <2>3. TypeOK' /\ CacheHolds'
    BY <1>10, <2>1, <2>2 DEF FetchAnswer, TypeOK, CacheHolds, Bytes
  <2>4. Fetched'
    BY <1>1, <1>10, <2>1
       DEF FetchAnswer, Fetched, TypeOK, Others, At, Base, Vm, Fetches
  <2>5. Converted'
    BY <1>1, <1>10, <2>1, ConvertedStays DEF FetchAnswer, At, Fetches, Converts
  <2> QED
    BY <2>2, <2>3, <2>4, <2>5
<1> QED
  BY <1>2, <1>3, <1>4, <1>5, <1>6, <1>7, <1>8, <1>9, <1>10

LEMMA ConvertKeeps ==
  ASSUME IInv, NEW p \in Procs,
         RawLook(p) \/ RawLock(p) \/ RawRecheck(p) \/ RawEnd(p) \/ RawFail(p) \/ RawPublish(p)
  PROVE  IInv'
<1> USE DisksAssumption DEF IInv, cacheVars, templateVars
<1> DEFINE u == Base(p)
<1>1. ASSUME NEW place \in Fetches \cup Converts, Goto(p, place),
             local[p].at \in Converts
      PROVE  Others(p) /\ local'[p].at = place /\ local'[p].base = u /\ u \in Urls
  BY <1>1, Moved, Places, Against DEF Base
<1>2. CASE RawLook(p)
  <2> DEFINE place == IF raw[u] # "none" THEN "copy" ELSE "rawlock"
  <2>1. Goto(p, place) /\ At(p, "disk") /\ place \in {"copy", "rawlock"}
    BY <1>2 DEF RawLook
  <2> HIDE DEF place
  <2>2. /\ local' \in [Procs -> Processes]
        /\ Apart' /\ VmHolds' /\ MakingHolds' /\ TemplateHolds' /\ CleanHolds' /\ Backed'
    BY <1>2, <2>1, CreateGoesOn DEF RawLook, At, Fetches, Converts
  <2>3. TypeOK' /\ CacheHolds'
    BY <1>2, <2>2 DEF RawLook, TypeOK, CacheHolds
  <2>4. Fetched' /\ Converted'
    BY <1>1, <1>2, <2>1, FetchedStays, ConvertedStays DEF RawLook, At, Fetches, Converts
  <2> QED
    BY <2>2, <2>3, <2>4
<1>3. CASE RawLock(p)
  <2>1. Goto(p, "rawrecheck") /\ At(p, "rawlock") /\ rawLock' = [rawLock EXCEPT ![u] = p]
    BY <1>3 DEF RawLock
  <2>2. /\ local' \in [Procs -> Processes]
        /\ Apart' /\ VmHolds' /\ MakingHolds' /\ TemplateHolds' /\ CleanHolds' /\ Backed'
    BY <1>3, <2>1, CreateGoesOn DEF RawLock, At, Fetches, Converts
  <2>3. TypeOK' /\ CacheHolds'
    BY <1>3, <2>1, <2>2 DEF RawLock, TypeOK, CacheHolds
  <2>4. Fetched'
    BY <1>1, <1>3, <2>1, FetchedStays DEF RawLock, At, Fetches, Converts
  <2>5. Converted'
    <3>1. Others(p) /\ local'[p].at = "rawrecheck" /\ local'[p].base = u /\ u \in Urls
      BY <1>1, <2>1 DEF At, Fetches, Converts
    <3> QED
      BY <1>3, <3>1, Places, Against DEF RawLock, Converted, TypeOK, Others, At, Base, Converts
  <2> QED
    BY <2>2, <2>3, <2>4, <2>5
<1>4. CASE RawRecheck(p) /\ raw[u] # "none"
  <2>1. /\ Goto(p, "copy") /\ At(p, "rawrecheck") /\ rawLock' = Released(rawLock, p)
        /\ UNCHANGED rawPart
    BY <1>4 DEF RawRecheck
  <2>2. /\ local' \in [Procs -> Processes]
        /\ Apart' /\ VmHolds' /\ MakingHolds' /\ TemplateHolds' /\ CleanHolds' /\ Backed'
    BY <1>4, <2>1, CreateGoesOn DEF RawRecheck, At, Fetches, Converts
  <2>3. TypeOK' /\ CacheHolds'
    BY <1>4, <2>1, <2>2, Freed DEF RawRecheck, TypeOK, CacheHolds
  <2>4. Fetched'
    BY <1>1, <1>4, <2>1, FetchedStays DEF RawRecheck, At, Fetches, Converts
  <2>5. Converted'
    <3>1. Others(p) /\ local'[p].at = "copy"
      BY <1>1, <2>1 DEF At, Fetches, Converts
    <3>2. ASSUME NEW q \in Procs, q # p, Base(q) \in Urls, rawLock[Base(q)] = q
          PROVE  rawLock'[Base(q)] = q
      BY <2>1, <3>2, StillHeld DEF TypeOK
    <3> QED
      BY <1>4, <2>1, <3>1, <3>2, Places, Against DEF RawRecheck, Converted, Others, At, Base, Converts
  <2> QED
    BY <2>2, <2>3, <2>4, <2>5
<1>5. CASE RawRecheck(p) /\ raw[u] = "none" /\ image[u] # "none"
  <2>1. /\ Goto(p, "convert") /\ At(p, "rawrecheck") /\ UNCHANGED rawLock
        /\ rawPart' = [rawPart EXCEPT ![u] = [by |-> p, of |-> image[u], bytes |-> "some"]]
    BY <1>5 DEF RawRecheck
  <2>2. rawLock[u] = p /\ u \in Urls
    BY <2>1, Places, Against DEF Converted, At, Converts
  <2>3. image[u] \in Cached
    BY <1>5, <2>2 DEF CacheHolds
  <2>4. /\ local' \in [Procs -> Processes]
        /\ Apart' /\ VmHolds' /\ MakingHolds' /\ TemplateHolds' /\ CleanHolds' /\ Backed'
    BY <1>5, <2>1, CreateGoesOn DEF RawRecheck, At, Fetches, Converts
  <2>5. TypeOK' /\ CacheHolds'
    BY <1>5, <2>1, <2>2, <2>4 DEF RawRecheck, TypeOK, CacheHolds, Bytes
  <2>6. Fetched'
    BY <1>1, <1>5, <2>1, FetchedStays DEF RawRecheck, At, Fetches, Converts
  <2>7. Converted'
    <3>1. Others(p) /\ local'[p].at = "convert" /\ local'[p].base = u
      BY <1>1, <2>1 DEF At, Fetches, Converts
    <3>2. rawPart'[u].by = p /\ rawPart'[u].of \in Cached
      BY <2>1, <2>2, <2>3 DEF TypeOK
    <3>3. ASSUME NEW w \in Urls, w # u
          PROVE  rawPart'[w] = rawPart[w]
      BY <2>1, <3>3 DEF TypeOK
    <3> QED
      BY <1>5, <2>1, <2>2, <3>1, <3>2, <3>3, Places, Against
         DEF RawRecheck, Converted, Others, At, Base, Converts
  <2> QED
    BY <2>4, <2>5, <2>6, <2>7
<1>6. CASE RawRecheck(p) /\ raw[u] = "none" /\ image[u] = "none"
  BY <1>6, EndKeeps DEF RawRecheck
<1>7. CASE RawEnd(p)
  <2>1. /\ Goto(p, "publish") /\ At(p, "convert") /\ u \in Urls
        /\ rawPart[u].by = p /\ rawPart[u].of \in Cached /\ rawLock[u] = p
    BY <1>7, Places, Against DEF RawEnd, Converted, At, Converts
  <2>2. rawPart' = [rawPart EXCEPT ![u].bytes = rawPart[u].of]
    BY <1>7, <2>1 DEF RawEnd
  <2>3. /\ local' \in [Procs -> Processes]
        /\ Apart' /\ VmHolds' /\ MakingHolds' /\ TemplateHolds' /\ CleanHolds' /\ Backed'
    BY <1>7, <2>1, CreateGoesOn DEF RawEnd, At, Fetches, Converts
  <2>4. TypeOK' /\ CacheHolds'
    BY <1>7, <2>1, <2>2, <2>3 DEF RawEnd, TypeOK, CacheHolds, Bytes
  <2>5. Fetched'
    BY <1>1, <1>7, <2>1, FetchedStays DEF RawEnd, At, Fetches, Converts
  <2>6. Converted'
    <3>1. Others(p) /\ local'[p].at = "publish" /\ local'[p].base = u
      BY <1>1, <2>1 DEF At, Fetches, Converts
    <3>2. rawPart'[u].by = p /\ rawPart'[u].of \in Cached /\ rawPart'[u].bytes \in Cached
      BY <2>1, <2>2 DEF TypeOK
    <3>3. ASSUME NEW w \in Urls, w # u
          PROVE  rawPart'[w] = rawPart[w]
      BY <2>1, <2>2, <3>3 DEF TypeOK
    <3> QED
      BY <1>7, <2>1, <3>1, <3>2, <3>3, Places, Against
         DEF RawEnd, Converted, Others, At, Base, Converts
  <2> QED
    BY <2>3, <2>4, <2>5, <2>6
<1>8. CASE RawFail(p)
  BY <1>8, EndKeeps DEF RawFail
<1>9. CASE RawPublish(p)
  <2>1. /\ At(p, "publish") /\ u \in Urls /\ rawLock[u] = p
        /\ rawPart[u].by = p /\ rawPart[u].bytes \in Cached /\ rawPart[u] # NoPart
    BY <1>9, Places, Against DEF RawPublish, Converted, At, Converts, NoPart
  <2>2. /\ Goto(p, "copy") /\ rawLock' = Released(rawLock, p)
        /\ raw' = [raw EXCEPT ![u] = rawPart[u].bytes]
        /\ rawPart' = [rawPart EXCEPT ![u] = NoPart]
    BY <1>9, <2>1 DEF RawPublish
  <2>3. /\ local' \in [Procs -> Processes]
        /\ Apart' /\ VmHolds' /\ MakingHolds' /\ TemplateHolds' /\ CleanHolds' /\ Backed'
    BY <1>9, <2>1, <2>2, CreateGoesOn DEF RawPublish, At, Fetches, Converts
  <2>4. TypeOK' /\ CacheHolds'
    <3>1. raw' \in [Urls -> Bytes]
      BY <2>1, <2>2 DEF TypeOK, Bytes, Cached, Whole
    <3>2. rawPart' \in [Urls -> [by : Procs \cup {None}, of : Bytes, bytes : Bytes]]
      BY <2>2 DEF TypeOK, Bytes, NoPart
    <3>3. \A w \in Urls : raw'[w] = raw[w] \/ raw'[w] \in Cached
      BY <2>1, <2>2 DEF TypeOK
    <3> QED
      BY <1>9, <2>2, <2>3, <3>1, <3>2, <3>3, Freed DEF RawPublish, TypeOK, CacheHolds
  <2>5. Fetched'
    BY <1>1, <1>9, <2>1, <2>2, FetchedStays DEF RawPublish, At, Fetches, Converts
  <2>6. Converted'
    <3>1. Others(p) /\ local'[p].at = "copy"
      BY <1>1, <2>1, <2>2 DEF At, Fetches, Converts
    <3>2. ASSUME NEW q \in Procs, q # p, Base(q) \in Urls, rawLock[Base(q)] = q
          PROVE  /\ rawLock'[Base(q)] = q
                 /\ raw'[Base(q)] = raw[Base(q)] /\ rawPart'[Base(q)] = rawPart[Base(q)]
      BY <2>1, <2>2, <3>2, StillHeld DEF TypeOK
    <3> QED
      BY <2>1, <3>1, <3>2, Places, Against DEF Converted, Others, At, Base, Converts
  <2> QED
    BY <2>3, <2>4, <2>5, <2>6
<1> QED
  BY <1>2, <1>3, <1>4, <1>5, <1>6, <1>7, <1>8, <1>9

-----------------------------------------------------------------------------
(* The disk of a new VM, and the configs of the instances.                 *)

LEMMA Put ==
  ASSUME TypeOK, NEW v \in VMs, NEW r \in VmType, vm' = [vm EXCEPT ![v] = r]
  PROVE  /\ vm' \in [VMs -> VmType]
         /\ \A w \in VMs : w # v => vm'[w] = vm[w]
         /\ vm'[v] = r
BY DEF TypeOK

LEMMA DiskPut ==
  ASSUME TypeOK, NEW v \in VMs, NEW disk \in {"none", "overlay", "copy"}, NEW bytes \in Bytes,
         vm' = [vm EXCEPT ![v].disk = disk, ![v].bytes = bytes]
  PROVE  /\ vm' \in [VMs -> VmType]
         /\ \A w \in VMs : w # v => vm'[w] = vm[w]
         /\ vm'[v].disk = disk /\ vm'[v].bytes = bytes
         /\ vm'[v].cfg = vm[v].cfg /\ vm'[v].base = vm[v].base
         /\ vm'[v].checked = vm[v].checked /\ vm'[v].dir = vm[v].dir
<1> DEFINE r == [[vm[v] EXCEPT !.disk = disk] EXCEPT !.bytes = bytes]
<1>1. vm' = [vm EXCEPT ![v] = r]
  BY DEF TypeOK
<1>2. vm[v] \in VmType
  BY DEF TypeOK
<1>3. /\ r \in VmType /\ r.disk = disk /\ r.bytes = bytes
      /\ r.cfg = vm[v].cfg /\ r.base = vm[v].base /\ r.checked = vm[v].checked
      /\ r.dir = vm[v].dir
  BY <1>2 DEF VmType
<1> HIDE DEF r
<1> QED
  BY <1>1, <1>3, Put

LEMMA ConfigPut ==
  ASSUME TypeOK, NEW v \in VMs, NEW cfg \in {"none", "torn", "saved"},
         vm' = [vm EXCEPT ![v].cfg = cfg]
  PROVE  /\ vm' \in [VMs -> VmType]
         /\ \A w \in VMs : w # v => vm'[w] = vm[w]
         /\ vm'[v].cfg = cfg
         /\ vm'[v].disk = vm[v].disk /\ vm'[v].bytes = vm[v].bytes
         /\ vm'[v].base = vm[v].base /\ vm'[v].checked = vm[v].checked
         /\ vm'[v].dir = vm[v].dir
<1> DEFINE r == [vm[v] EXCEPT !.cfg = cfg]
<1>1. vm' = [vm EXCEPT ![v] = r]
  OBVIOUS
<1>2. vm[v] \in VmType
  BY DEF TypeOK
<1>3. /\ r \in VmType /\ r.cfg = cfg
      /\ r.disk = vm[v].disk /\ r.bytes = vm[v].bytes
      /\ r.base = vm[v].base /\ r.checked = vm[v].checked /\ r.dir = vm[v].dir
  BY <1>2 DEF VmType
<1> HIDE DEF r
<1> QED
  BY <1>1, <1>3, Put

LEMMA MadeKeeps ==
  ASSUME IInv, NEW p \in Procs, Finish(p), local[p].cmd \in {"create", "clone"},
         vm[Vm(p)].cfg = "saved",
         NEW disk \in {"overlay", "copy"},
         NEW bytes \in (IF Base(p) \in Urls THEN Cached ELSE Whole),
         vm' \in [VMs -> VmType],
         \A v \in VMs : v # Vm(p) => vm'[v] = vm[v],
         vm'[Vm(p)].disk = disk, vm'[Vm(p)].bytes = bytes,
         vm'[Vm(p)].cfg = vm[Vm(p)].cfg, vm'[Vm(p)].base = vm[Vm(p)].base,
         vm'[Vm(p)].checked = vm[Vm(p)].checked, vm'[Vm(p)].dir = vm[Vm(p)].dir,
         disk = "overlay" =>
           IF Base(p) \in Urls THEN image[Base(p)] # "none"
           ELSE tmeta[Base(p)] = "saved" /\ tdisk[Base(p)] # "none",
         UNCHANGED <<cacheVars, templateVars>>
  PROVE  IInv'
<1> USE DisksAssumption DEF IInv, cacheVars, templateVars
<1>1. /\ Others(p) /\ local'[p].at = "idle" /\ local'[p].cmd = "idle"
      /\ local'[p].vm = None /\ local'[p].base = None
  BY Ended DEF Idle, Command
<1>2. Vm(p) \in VMs /\ Base(p) \in Bases /\ vm[Vm(p)].base = Base(p)
  BY Against DEF MakingHolds, Bases
<1>3. \A v \in VMs : /\ vm'[v].cfg = vm[v].cfg /\ vm'[v].base = vm[v].base
                     /\ vm'[v].checked = vm[v].checked
  OBVIOUS
<1>4. \A q \in Procs : q # p => Vm(q) # Vm(p)
  BY <1>2 DEF Apart
<1>5. TypeOK'
  BY Ends DEF TypeOK
<1>6. Apart'
  BY <1>1 DEF Apart, Others, Vm, Base, Deleting
<1>7. Fetched'
  BY <1>1, <1>3, Places, Against DEF Fetched, Others, At, Vm, Base, Fetches
<1>8. Converted'
  BY <1>1, ConvertedStays
<1>9. CacheHolds'
  BY DEF CacheHolds
<1>10. VmHolds'
  <2>1. ASSUME NEW v \in VMs, v # Vm(p)
        PROVE  vm'[v] = vm[v]
    BY <2>1
  <2>2. vm[Vm(p)].base \in Urls /\ Unchecked = {} => vm[Vm(p)].checked
    BY <1>2 DEF VmHolds
  <2>3. vm[Vm(p)].base \in Templates => ~vm[Vm(p)].checked
    BY <1>2 DEF VmHolds
  <2>4. vm[Vm(p)].base # None
    BY <1>2 DEF Bases
  <2>5. vm[Vm(p)].dir
    BY <1>2 DEF VmHolds
  <2> QED
    BY <1>2, <2>1, <2>2, <2>3, <2>4, <2>5 DEF VmHolds, Cached
<1>11. MakingHolds'
  <2>1. ASSUME NEW q \in Procs, q # p, local[q].cmd \in {"create", "clone", "edit", "mktemplate"}
        PROVE  vm'[Vm(q)] = vm[Vm(q)]
    BY <1>4, <2>1, Against
  <2> QED
    BY <1>1, <2>1, Places DEF MakingHolds, Others, Vm, Base, Fetches, Converts, At
<1>12. TemplateHolds'
  BY <1>1, <1>3 DEF TemplateHolds, Others, At, Base, Dependents
<1>13. CleanHolds'
  BY <1>1, <1>3 DEF CleanHolds, Others, At, Referenced, Kept
<1>14. Backed'
  <2>1. \A v \in VMs : Edited(v)' => Edited(v)
    BY <1>1 DEF Edited, Others, Vm
  <2> QED
    BY <1>2, <1>3, <2>1 DEF Backed
<1> QED
  BY <1>5, <1>6, <1>7, <1>8, <1>9, <1>10, <1>11, <1>12, <1>13, <1>14

LEMMA Making ==
  ASSUME IInv, NEW p \in Procs, Finish(p), local[p].cmd \in {"create", "clone"},
         Vm(p) \in VMs, vm[Vm(p)].cfg = "saved",
         NEW disk \in {"overlay", "copy"},
         NEW bytes \in Bytes, bytes \in (IF Base(p) \in Urls THEN Cached ELSE Whole),
         vm' = [vm EXCEPT ![Vm(p)].disk = disk, ![Vm(p)].bytes = bytes],
         disk = "overlay" =>
           IF Base(p) \in Urls THEN image[Base(p)] # "none"
           ELSE tmeta[Base(p)] = "saved" /\ tdisk[Base(p)] # "none",
         UNCHANGED <<cacheVars, templateVars>>
  PROVE  IInv'
<1>1. /\ vm' \in [VMs -> VmType]
      /\ \A v \in VMs : v # Vm(p) => vm'[v] = vm[v]
      /\ vm'[Vm(p)].disk = disk /\ vm'[Vm(p)].bytes = bytes
      /\ vm'[Vm(p)].cfg = vm[Vm(p)].cfg /\ vm'[Vm(p)].base = vm[Vm(p)].base
      /\ vm'[Vm(p)].checked = vm[Vm(p)].checked /\ vm'[Vm(p)].dir = vm[Vm(p)].dir
  <2>1. TypeOK /\ disk \in {"none", "overlay", "copy"}
    BY DEF IInv
  <2> QED
    BY <2>1, DiskPut
<1> QED
  BY <1>1, MadeKeeps

LEMMA MakeKeeps ==
  ASSUME IInv, NEW p \in Procs, Overlay(p) \/ Copy(p) \/ CloneOverlay(p)
  PROVE  IInv'
<1> USE DisksAssumption DEF IInv
<1>1. CASE Overlay(p)
  <2>1. local[p].cmd = "create" /\ Base(p) \in Urls /\ vm[Vm(p)].cfg = "saved"
    BY <1>1, Places, Against DEF Overlay, At, Converts, MakingHolds
  <2>2. CASE image[Base(p)] = "none"
    BY <1>1, <2>2, EndKeeps DEF Overlay, cacheVars
  <2>3. CASE image[Base(p)] # "none"
    <3>1. image[Base(p)] \in Cached
      BY <2>1, <2>3 DEF CacheHolds
    <3>2. /\ Vm(p) \in VMs /\ image[Base(p)] \in Bytes
      BY <2>1, Against DEF TypeOK
    <3>3. /\ Finish(p) /\ UNCHANGED <<cacheVars, templateVars>>
          /\ vm' = [vm EXCEPT ![Vm(p)].disk = "overlay", ![Vm(p)].bytes = image[Base(p)]]
      BY <1>1, <2>3 DEF Overlay
    <3> QED
      BY <2>1, <2>3, <3>1, <3>2, <3>3, Making
  <2> QED
    BY <2>2, <2>3
<1>2. CASE Copy(p)
  <2>1. local[p].cmd = "create" /\ Base(p) \in Urls /\ vm[Vm(p)].cfg = "saved"
    BY <1>2, Places, Against DEF Copy, At, Converts, MakingHolds
  <2>2. CASE raw[Base(p)] = "none"
    BY <1>2, <2>2, EndKeeps DEF Copy, cacheVars
  <2>3. CASE raw[Base(p)] # "none"
    <3>1. raw[Base(p)] \in Cached
      BY <2>1, <2>3 DEF CacheHolds
    <3>2. /\ Vm(p) \in VMs /\ raw[Base(p)] \in Bytes
      BY <2>1, Against DEF TypeOK
    <3>3. /\ Finish(p) /\ UNCHANGED <<cacheVars, templateVars>>
          /\ vm' = [vm EXCEPT ![Vm(p)].disk = "copy", ![Vm(p)].bytes = raw[Base(p)]]
      BY <1>2, <2>3 DEF Copy
    <3> QED
      BY <2>1, <2>3, <3>1, <3>2, <3>3, Making
  <2> QED
    BY <2>2, <2>3
<1>3. CASE CloneOverlay(p)
  <2>1. /\ local[p].cmd = "clone" /\ Base(p) \in Templates /\ vm[Vm(p)].cfg = "saved"
        /\ tmeta[Base(p)] = "saved" /\ tdisk[Base(p)] # "none" /\ tdisk[Base(p)] \in Whole
    BY <1>3, Places, Against DEF CloneOverlay, At, MakingHolds, TemplateHolds
  <2>2. Vm(p) \in VMs /\ tdisk[Base(p)] \in Bytes /\ Base(p) \notin Urls
    BY <2>1, Against DEF TypeOK
  <2>3. /\ Finish(p) /\ UNCHANGED <<cacheVars, templateVars>>
        /\ vm' = [vm EXCEPT ![Vm(p)].disk = "overlay", ![Vm(p)].bytes = tdisk[Base(p)]]
    BY <1>3, <2>1 DEF CloneOverlay
  <2> QED
    BY <2>1, <2>2, <2>3, Making
<1> QED
  BY <1>1, <1>2, <1>3

\* A config torn or taken away by its own command: nobody stands on less.
LEMMA TornKeeps ==
  ASSUME IInv, NEW p \in Procs, Goto(p, "saving"), At(p, "save"),
         vm' \in [VMs -> VmType],
         \A v \in VMs : v # Vm(p) => vm'[v] = vm[v],
         vm'[Vm(p)].cfg = "torn",
         vm'[Vm(p)].disk = vm[Vm(p)].disk, vm'[Vm(p)].bytes = vm[Vm(p)].bytes,
         vm'[Vm(p)].base = vm[Vm(p)].base, vm'[Vm(p)].checked = vm[Vm(p)].checked,
         vm'[Vm(p)].dir = vm[Vm(p)].dir,
         UNCHANGED <<cacheVars, templateVars>>
  PROVE  IInv'
<1> USE DisksAssumption DEF IInv, cacheVars, templateVars
<1>1. local[p].cmd \in {"create", "clone", "edit"} /\ Vm(p) \in VMs
  BY Places, Against DEF At
<1>2. /\ Others(p) /\ local'[p].at = "saving" /\ local'[p].cmd = local[p].cmd
      /\ local'[p].vm = local[p].vm /\ local'[p].base = local[p].base
  BY Moved
<1>3. \A v \in VMs : /\ vm'[v].base = vm[v].base /\ vm'[v].checked = vm[v].checked
                     /\ vm'[v].disk = vm[v].disk /\ vm'[v].bytes = vm[v].bytes
                     /\ vm'[v].dir = vm[v].dir
  OBVIOUS
<1>4. \A q \in Procs : q # p => Vm(q) # Vm(p)
  BY <1>1 DEF Apart
<1>5. TypeOK'
  <2>1. local' \in [Procs -> Processes]
    BY <1>1, GoesOn
  <2> QED
    BY <2>1 DEF TypeOK
<1>6. Apart'
  BY <1>1, <1>2 DEF Apart, Others, Vm, Base, Deleting
<1>7. Fetched'
  BY <1>2, <1>3, Places, Against DEF Fetched, Others, At, Vm, Base, Fetches
<1>8. Converted'
  BY <1>2, ConvertedStays
<1>9. CacheHolds' /\ VmHolds'
  <2>1. vm[Vm(p)].dir
    BY <1>1 DEF MakingHolds
  <2>2. VmHolds'
    BY <1>3, <2>1 DEF VmHolds
  <2> QED
    BY <2>2 DEF CacheHolds
<1>10. MakingHolds'
  <2>1. ASSUME NEW q \in Procs, q # p, local[q].cmd \in {"create", "clone", "edit", "mktemplate"}
        PROVE  vm'[Vm(q)] = vm[Vm(q)]
    BY <1>4, <2>1, Against
  <2> QED
    BY <1>1, <1>2, <2>1, Places DEF MakingHolds, Others, Vm, Base, Fetches, Converts, At
<1>11. TemplateHolds'
  BY <1>1, <1>2, <1>3 DEF TemplateHolds, Others, At, Base, Dependents
<1>12. CleanHolds'
  BY <1>1, <1>2, <1>3 DEF CleanHolds, Others, At, Referenced, Kept
<1>13. Backed'
  <2>1. \A v \in VMs : Edited(v)' <=> Edited(v)
    BY <1>2 DEF Edited, Others, Vm
  <2>2. \A v \in VMs : vm'[v].cfg = "saved" => vm[v].cfg = "saved"
    BY <1>3
  <2> QED
    BY <1>3, <2>1, <2>2 DEF Backed
<1> QED
  BY <1>5, <1>6, <1>7, <1>8, <1>9, <1>10, <1>11, <1>12, <1>13

LEMMA SavedKeeps ==
  ASSUME IInv, NEW p \in Procs, At(p, "saving"),
         IF local[p].cmd = "edit" THEN Finish(p) ELSE Goto(p, AfterSave(local[p].cmd)),
         vm' \in [VMs -> VmType],
         \A v \in VMs : v # Vm(p) => vm'[v] = vm[v],
         vm'[Vm(p)].cfg = "saved",
         vm'[Vm(p)].disk = vm[Vm(p)].disk, vm'[Vm(p)].bytes = vm[Vm(p)].bytes,
         vm'[Vm(p)].base = vm[Vm(p)].base, vm'[Vm(p)].checked = vm[Vm(p)].checked,
         vm'[Vm(p)].dir = vm[Vm(p)].dir,
         UNCHANGED <<cacheVars, templateVars>>
  PROVE  IInv'
<1> USE DisksAssumption DEF IInv, cacheVars, templateVars
<1>1. local[p].cmd \in {"create", "clone", "edit"} /\ Vm(p) \in VMs
  BY Places, Against DEF At
<1>2. \A v \in VMs : /\ vm'[v].base = vm[v].base /\ vm'[v].checked = vm[v].checked
                     /\ vm'[v].disk = vm[v].disk /\ vm'[v].bytes = vm[v].bytes
                     /\ vm'[v].dir = vm[v].dir
  OBVIOUS
<1>3. /\ \A q \in Procs : q # p => Vm(q) # Vm(p)
      /\ \A q \in Procs : ~Deleting(local[q].cmd)
  BY <1>1 DEF Apart, Deleting
<1>4. /\ Others(p) /\ local' \in [Procs -> Processes]
      /\ \/ local'[p] = Idle
         \/ /\ local'[p].cmd = local[p].cmd /\ local'[p].vm = local[p].vm
            /\ local'[p].base = local[p].base
            /\ \/ local[p].cmd = "create" /\ local'[p].at = "look"
               \/ local[p].cmd = "clone" /\ local'[p].at = "overlay"
  <2>1. CASE local[p].cmd = "edit"
    BY <2>1, Ended, Ends
  <2>2. CASE local[p].cmd = "create"
    <3>1. Goto(p, "look")
      BY <2>2 DEF AfterSave
    <3> QED
      BY <2>2, <3>1, Moved, GoesOn DEF Fetches
  <2>3. CASE local[p].cmd = "clone"
    <3>1. Goto(p, "overlay")
      BY <2>3 DEF AfterSave
    <3> QED
      BY <2>3, <3>1, Moved, GoesOn
  <2> QED
    BY <1>1, <2>1, <2>2, <2>3
<1>5. Idle.cmd = "idle" /\ Idle.at = "idle" /\ Idle.vm = None /\ Idle.base = None
  BY DEF Idle, Command
<1>6. TypeOK'
  BY <1>4 DEF TypeOK
<1>7. Apart'
  BY <1>1, <1>3, <1>4, <1>5 DEF Apart, Others, Vm, Base, Deleting
<1>8. Fetched'
  BY <1>2, <1>4, <1>5, Places, Against DEF Fetched, Others, At, Vm, Base, Fetches
<1>9. Converted'
  BY <1>4, <1>5, ConvertedStays
<1>10. CacheHolds' /\ VmHolds'
  <2>1. vm[Vm(p)].dir
    BY <1>1 DEF MakingHolds
  <2>2. VmHolds'
    BY <1>2, <2>1 DEF VmHolds
  <2> QED
    BY <2>2 DEF CacheHolds
<1>11. MakingHolds'
  <2>1. ASSUME NEW q \in Procs, q # p, local[q].cmd \in {"create", "clone", "edit", "mktemplate"}
        PROVE  vm'[Vm(q)] = vm[Vm(q)]
    BY <1>3, <2>1, Against
  <2> QED
    BY <1>1, <1>4, <1>5, <2>1, Places
       DEF MakingHolds, Others, Vm, Base, Fetches, Converts, At
<1>12. TemplateHolds'
  BY <1>1, <1>2, <1>3, <1>4, <1>5 DEF TemplateHolds, Others, At, Base, Deleting
<1>13. CleanHolds'
  BY <1>1, <1>3, <1>4, <1>5 DEF CleanHolds, Others, Deleting
<1>14. Backed'
  <2>1. \A v \in VMs : Edited(v)' => Edited(v)
    BY <1>4, <1>5 DEF Edited, Others, Vm
  <2>2. \A v \in VMs : v # Vm(p) => vm'[v].cfg = vm[v].cfg
    BY <1>2
  <2>3. local[p].cmd = "edit" => Edited(Vm(p))
    BY DEF Edited
  <2>4. local[p].cmd # "edit" => vm[Vm(p)].disk = "none"
    BY <1>1 DEF MakingHolds
  <2> QED
    BY <1>2, <2>1, <2>2, <2>3, <2>4 DEF Backed
<1> QED
  BY <1>6, <1>7, <1>8, <1>9, <1>10, <1>11, <1>12, <1>13, <1>14

LEMMA SaveKeeps ==
  ASSUME IInv, NEW p \in Procs, SaveOpen(p) \/ SaveWrite(p)
  PROVE  IInv'
<1> USE DEF IInv
<1>1. Vm(p) \in VMs
  BY Places, Against DEF SaveOpen, SaveWrite, At
<1>2. CASE SaveOpen(p)
  BY <1>1, <1>2, ConfigPut, TornKeeps DEF SaveOpen
<1>3. CASE SaveWrite(p)
  BY <1>1, <1>3, ConfigPut, SavedKeeps DEF SaveWrite
<1> QED
  BY <1>2, <1>3

LEMMA LossKeeps ==
  ASSUME IInv, NEW p \in Procs, local[p].cmd = "destroy", Finish(p) \/ UNCHANGED local,
         vm' \in [VMs -> VmType],
         \A v \in VMs : v # Vm(p) => vm'[v] = vm[v],
         vm'[Vm(p)].cfg \in {"none", vm[Vm(p)].cfg},
         \/ vm'[Vm(p)].disk = "none"
         \/ vm'[Vm(p)].disk = vm[Vm(p)].disk /\ vm'[Vm(p)].bytes = vm[Vm(p)].bytes,
         \/ /\ vm'[Vm(p)].base = vm[Vm(p)].base /\ vm'[Vm(p)].checked = vm[Vm(p)].checked
            /\ vm'[Vm(p)].dir = vm[Vm(p)].dir
         \/ vm'[Vm(p)] = NoVm,
         UNCHANGED <<cacheVars, templateVars>>
  PROVE  IInv'
<1> USE DisksAssumption DEF IInv, cacheVars, templateVars
<1> DEFINE v0 == Vm(p)
<1>1. /\ Others(p) /\ local' \in [Procs -> Processes]
      /\ \/ local'[p].at = "idle" /\ local'[p].cmd = "idle"
            /\ local'[p].vm = None /\ local'[p].base = None
         \/ local'[p] = local[p]
  BY Ended, Ends DEF Idle, Command, Others, TypeOK
<1>2. v0 \in VMs /\ At(p, "remove") /\ Base(p) = None
  <2>1. local[p] \in Processes
    BY DEF TypeOK
  <2> QED
    BY <2>1, Against, SMTT(30) DEF Processes, Doing, Idle, Command, At
<1>3. \A q \in Procs : q # p => Vm(q) # v0
  BY <1>2 DEF Apart
<1>4. \A v \in VMs : /\ vm'[v].cfg = "saved" => vm[v].cfg = "saved"
                     /\ vm'[v].cfg = "saved" => vm'[v].base = vm[v].base
                     /\ vm'[v].disk # "none" =>
                          vm'[v].base = vm[v].base /\ vm'[v].disk = vm[v].disk
  BY DEF NoVm
<1>5. TypeOK'
  BY <1>1 DEF TypeOK
<1>6. Apart'
  BY <1>1, <1>2 DEF Apart, Others, Vm, Base, Deleting
<1>7. ASSUME NEW q \in Procs, q # p, local[q].cmd \in {"create", "clone", "edit", "mktemplate"}
      PROVE  vm'[Vm(q)] = vm[Vm(q)]
  BY <1>3, <1>7, Against
<1>8. Fetched'
  BY <1>1, <1>2, <1>7, Places DEF Fetched, Others, At, Vm, Base, Fetches
<1>9. Converted'
  BY <1>1, <1>2, ConvertedStays DEF At
<1>10. CacheHolds'
  BY DEF CacheHolds
<1>11. VmHolds'
  <2>1. NoVm.base = None /\ NoVm.disk = "none" /\ NoVm.cfg = "none"
    BY DEF NoVm
  <2>2. ASSUME NEW v \in VMs
        PROVE  VmHolds!(v)'
    <3>1. CASE v # v0
      BY <3>1 DEF VmHolds
    <3>2. CASE v = v0
      BY <1>2, <2>1, <3>2 DEF VmHolds
    <3> QED
      BY <3>1, <3>2
  <2> QED
    BY <2>2 DEF VmHolds
<1>12. MakingHolds'
  BY <1>1, <1>2, <1>7, Places DEF MakingHolds, Others, Vm, Base, Fetches, Converts, At
<1>13. TemplateHolds'
  BY <1>1, <1>2, <1>4 DEF TemplateHolds, Others, At, Base, Dependents
<1>14. CleanHolds'
  BY <1>1, <1>2, <1>4 DEF CleanHolds, Others, At, Referenced, Kept
<1>15. Backed'
  <2>1. \A v \in VMs : Edited(v)' => Edited(v)
    BY <1>1 DEF Edited, Others, Vm
  <2> QED
    BY <1>4, <2>1 DEF Backed
<1> QED
  BY <1>5, <1>6, <1>8, <1>9, <1>10, <1>11, <1>12, <1>13, <1>14, <1>15

LEMMA DestroyKeeps ==
  ASSUME IInv, NEW p \in Procs, DestroyEntry(p) \/ DestroyEnd(p)
  PROVE  IInv'
<1> USE DEF IInv
<1> DEFINE v0 == Vm(p)
<1>1. local[p].cmd = "destroy" /\ v0 \in VMs
  BY Places, Against DEF DestroyEntry, DestroyEnd, At
<1>2. CASE DestroyEntry(p) /\ vm' = [vm EXCEPT ![v0].cfg = "none"]
  BY <1>1, <1>2, ConfigPut, LossKeeps DEF DestroyEntry
<1>3. CASE DestroyEntry(p) /\ vm' = [vm EXCEPT ![v0].disk = "none", ![v0].bytes = "none"]
  <2>1. /\ vm' \in [VMs -> VmType]
        /\ \A v \in VMs : v # v0 => vm'[v] = vm[v]
        /\ vm'[v0].disk = "none"
        /\ vm'[v0].cfg = vm[v0].cfg /\ vm'[v0].base = vm[v0].base
        /\ vm'[v0].checked = vm[v0].checked /\ vm'[v0].dir = vm[v0].dir
    BY <1>1, <1>3, DiskPut DEF Bytes
  <2>2. UNCHANGED <<local, cacheVars, templateVars>>
    BY <1>3 DEF DestroyEntry
  <2> HIDE DEF v0
  <2> QED
    BY <1>1, <2>1, <2>2, LossKeeps DEF v0
<1>4. CASE DestroyEnd(p)
  <2>1. NoVm \in VmType /\ NoVm.disk = "none" /\ NoVm.cfg = "none"
    BY DEF NoVm, VmType, Bytes
  <2>2. /\ vm' \in [VMs -> VmType]
        /\ \A v \in VMs : v # v0 => vm'[v] = vm[v]
        /\ vm'[v0] = NoVm
    BY <1>1, <1>4, <2>1, Put DEF DestroyEnd
  <2>3. Finish(p) /\ UNCHANGED <<cacheVars, templateVars>>
    BY <1>4 DEF DestroyEnd
  <2> QED
    BY <1>1, <2>1, <2>2, <2>3, LossKeeps
<1> QED
  BY <1>2, <1>3, <1>4 DEF DestroyEntry

-----------------------------------------------------------------------------
(* A command begins: nobody deletes meanwhile, nobody is on its VM.        *)

LEMMA BeginKeeps ==
  ASSUME IInv, ~Overlap, NEW p \in Procs, NEW c, NEW place, NEW v, NEW b,
         Begin(p, c, place, v, b),
         \/ c = "edit" /\ place = "save" /\ v \in VMs /\ b = None /\ vm[v].cfg = "saved"
         \/ c = "destroy" /\ place = "remove" /\ v \in VMs /\ b = None
         \/ /\ c = "mktemplate" /\ place = "boot" /\ v \in VMs /\ b \in Templates
            /\ vm[v].disk # "none" /\ tmeta[b] = "none"
         \/ /\ c = "rmtemplate" /\ place = "rmdisk" /\ v = None /\ b \in Templates
            /\ Dependents(b) = {},
         UNCHANGED <<vm, cacheVars, templateVars>>
  PROVE  IInv'
<1> USE DisksAssumption DEF IInv, cacheVars, templateVars
<1>1. Others(p) /\ local'[p] = Command(c, place, v, b) /\ local' \in [Procs -> Processes]
  BY Begun, Begins
<1>2. /\ local'[p].cmd = c /\ local'[p].at = place
      /\ local'[p].vm = v /\ local'[p].base = b
  BY <1>1 DEF Command
<1>3. /\ \A q \in Procs : ~Deleting(local[q].cmd)
      /\ v # None => \A q \in Procs : local[q].vm # v
      /\ Deleting(c) => \A q \in Procs : local[q].cmd = "idle"
      /\ c = "mktemplate" => \A q \in Procs : local[q].cmd = c => local[q].base # b
  BY DEF Begin, MayBegin
<1>4. TypeOK'
  BY <1>1 DEF TypeOK
<1>5. Apart'
  BY <1>1, <1>2, <1>3 DEF Apart, Others, Vm, Base, Deleting
<1>6. Fetched'
  BY <1>1, <1>2, FetchedStays
<1>7. Converted'
  BY <1>1, <1>2, ConvertedStays
<1>8. CacheHolds' /\ VmHolds'
  BY DEF CacheHolds, VmHolds
<1>9. MakingHolds'
  BY <1>1, <1>2 DEF MakingHolds, VmHolds, Others, Vm, Base, Fetches, Converts
<1>10. TemplateHolds'
  BY <1>1, <1>2 DEF TemplateHolds, Others, At, Base, Dependents
<1>11. CleanHolds'
  BY <1>1, <1>2 DEF CleanHolds, Others, At, Referenced, Kept
<1>12. Backed'
  <2>1. \A w \in VMs : Edited(w)' => Edited(w) \/ vm[w].cfg = "saved"
    BY <1>1, <1>2 DEF Edited, Others, Vm
  <2> QED
    BY <2>1 DEF Backed
<1> QED
  BY <1>4, <1>5, <1>6, <1>7, <1>8, <1>9, <1>10, <1>11, <1>12

LEMMA NewKeeps ==
  ASSUME IInv, ~Overlap, NEW p \in Procs, NEW c \in {"create", "clone"}, NEW v \in VMs, NEW b,
         NEW checked \in BOOLEAN, NEW backend \in {"qemu", "avf"},
         Begin(p, c, "save", v, b),
         \/ c = "create" /\ b \in Urls /\ (Unchecked = {} => checked)
         \/ c = "clone" /\ b \in Templates /\ ~checked /\ tmeta[b] = "saved" /\ tdisk[b] # "none",
         vm' = [vm EXCEPT ![v] = Fresh(b, checked, backend)],
         UNCHANGED <<cacheVars, templateVars>>
  PROVE  IInv'
<1> USE DisksAssumption DEF IInv, cacheVars, templateVars
<1> DEFINE r == Fresh(b, checked, backend)
<1>1. Others(p) /\ local'[p] = Command(c, "save", v, b) /\ local' \in [Procs -> Processes]
  BY Begun, Begins
<1>2. /\ local'[p].cmd = c /\ local'[p].at = "save"
      /\ local'[p].vm = v /\ local'[p].base = b
  BY <1>1 DEF Command
<1>3. /\ \A q \in Procs : ~Deleting(local[q].cmd)
      /\ \A q \in Procs : local[q].vm # v
  BY DEF Begin, MayBegin
<1>4. /\ r \in VmType /\ r.cfg = "none" /\ r.disk = "none"
      /\ r.base = b /\ r.checked = checked /\ r.dir
  BY DEF Fresh, NoVm, VmType, Bytes, Bases
<1>5. /\ vm' \in [VMs -> VmType]
      /\ \A w \in VMs : w # v => vm'[w] = vm[w]
      /\ vm'[v] = r
  <2> HIDE DEF r
  <2>1. vm' = [vm EXCEPT ![v] = r]
    BY DEF r
  <2> QED
    BY <1>4, <2>1, Put
<1>6. SUFFICES ASSUME vm' \in [VMs -> VmType],
                      \A w \in VMs : w # v => vm'[w] = vm[w],
                      vm'[v].cfg = "none", vm'[v].disk = "none",
                      vm'[v].base = b, vm'[v].checked = checked, vm'[v].dir
               PROVE  IInv'
  BY <1>4, <1>5
<1> HIDE DEF r
<1>7. ASSUME NEW q \in Procs, q # p, local[q].cmd \in {"create", "clone", "edit", "mktemplate"}
      PROVE  vm'[Vm(q)] = vm[Vm(q)]
  BY <1>3, <1>6, <1>7, Against DEF Vm
<1>8. TypeOK'
  BY <1>1, <1>6 DEF TypeOK
<1>9. Apart'
  BY <1>1, <1>2, <1>3 DEF Apart, Others, Vm, Base, Deleting
<1>10. Fetched'
  BY <1>1, <1>2, <1>7, Places DEF Fetched, Others, At, Vm, Base, Fetches
<1>11. Converted'
  BY <1>1, <1>2, ConvertedStays
<1>12. CacheHolds'
  BY DEF CacheHolds
<1>13. VmHolds'
  BY <1>6 DEF VmHolds
<1>14. MakingHolds'
  BY <1>1, <1>2, <1>6, <1>7, Places DEF MakingHolds, Others, Vm, Base, Fetches, Converts, At
<1>15. TemplateHolds'
  BY <1>1, <1>2, <1>6 DEF TemplateHolds, Others, At, Base, Dependents
<1>16. CleanHolds'
  BY <1>1, <1>2, <1>3 DEF CleanHolds, Others, Deleting
<1>17. Backed'
  <2>1. \A w \in VMs : Edited(w)' => Edited(w)
    BY <1>1, <1>2 DEF Edited, Others, Vm
  <2> QED
    BY <1>6, <2>1 DEF Backed
<1> QED
  BY <1>8, <1>9, <1>10, <1>11, <1>12, <1>13, <1>14, <1>15, <1>16, <1>17

LEMMA BeginsKeep ==
  ASSUME IInv, ~Overlap, NEW p \in Procs,
         \/ \E v \in VMs, u \in Urls, k \in {"qemu", "avf"} :
              \E c \in {TRUE} \cup {~n : n \in Unchecked} : CreateBegin(p, v, u, c, k)
         \/ \E v \in VMs, t \in Templates : TemplateBegin(p, v, t) \/ CloneBegin(p, v, t)
         \/ \E v \in VMs : EditBegin(p, v) \/ DestroyBegin(p, v)
         \/ \E t \in Templates : RmScan(p, t)
  PROVE  IInv'
<1>1. ASSUME NEW v \in VMs, NEW u \in Urls, NEW k \in {"qemu", "avf"},
             NEW c \in {TRUE} \cup {~n : n \in Unchecked}, CreateBegin(p, v, u, c, k)
      PROVE  IInv'
  <2>1. c \in BOOLEAN /\ (Unchecked = {} => c)
    OBVIOUS
  <2> QED
    BY <1>1, <2>1, NewKeeps DEF CreateBegin
<1>2. ASSUME NEW v \in VMs, NEW t \in Templates, TemplateBegin(p, v, t)
      PROVE  IInv'
  BY <1>2, BeginKeeps DEF TemplateBegin
<1>3. ASSUME NEW v \in VMs, NEW t \in Templates, CloneBegin(p, v, t)
      PROVE  IInv'
  BY <1>3, NewKeeps DEF CloneBegin
<1>4. ASSUME NEW v \in VMs, EditBegin(p, v)
      PROVE  IInv'
  BY <1>4, BeginKeeps DEF EditBegin
<1>5. ASSUME NEW v \in VMs, DestroyBegin(p, v)
      PROVE  IInv'
  BY <1>5, BeginKeeps DEF DestroyBegin
<1>6. ASSUME NEW t \in Templates, RmScan(p, t)
      PROVE  IInv'
  BY <1>6, BeginKeeps DEF RmScan
<1> QED
  BY <1>1, <1>2, <1>3, <1>4, <1>5, <1>6

-----------------------------------------------------------------------------
(* `agv cache clean`: everybody else is idle until it has ended.           *)

LEMMA SweepKeeps ==
  ASSUME IInv, NEW p \in Procs, local[p].cmd = "clean",
         Others(p), local' \in [Procs -> Processes],
         local'[p].cmd = "clean", local'[p].at \in {"list", "delete"},
         local'[p].keep = local[p].keep,
         local'[p].at = "delete" => local'[p].todo \cap Kept(local[p].keep) = {},
         image' \in [Urls -> Bytes], raw' \in [Urls -> Bytes], part' \in [Procs -> Bytes],
         rawPart' \in [Urls -> [by : Procs \cup {None}, of : Bytes, bytes : Bytes]],
         imageLock' \in [Urls -> Procs \cup {None}], rawLock' \in [Urls -> Procs \cup {None}],
         \A u \in Urls : image'[u] \in {image[u], "none"} /\ raw'[u] \in {raw[u], "none"},
         \A u \in Urls \cap local[p].keep : image'[u] = image[u],
         UNCHANGED <<vm, templateVars>>
  PROVE  IInv'
<1> USE DisksAssumption DEF IInv, templateVars
<1>1. /\ \A q \in Procs : q # p => local[q].cmd = "idle"
      /\ \A q \in Procs : q # p => local'[q] = Idle
  BY Places DEF Apart, Deleting, Others
<1>2. /\ local'[p].vm = None /\ local'[p].base = None
  <2>1. local'[p] \in Processes
    OBVIOUS
  <2> QED
    BY <2>1, SMTT(30) DEF Processes, Doing, Idle, Command
<1>3. /\ Idle.cmd = "idle" /\ Idle.at = "idle" /\ Idle.vm = None /\ Idle.base = None
  BY DEF Idle, Command
<1>4. TypeOK'
  BY DEF TypeOK
<1>5. Apart'
  BY <1>1, <1>2, <1>3 DEF Apart, Vm, Base, Deleting
<1>6. Fetched' /\ Converted'
  BY <1>1, <1>3 DEF Fetched, Converted, At
<1>7. CacheHolds' /\ VmHolds'
  BY DEF CacheHolds, VmHolds
<1>8. MakingHolds'
  BY <1>1, <1>3 DEF MakingHolds, Fetches, Converts
<1>9. TemplateHolds'
  BY <1>1, <1>3 DEF TemplateHolds, At
<1>10. CleanHolds'
  BY <1>1, <1>3 DEF CleanHolds, At, Referenced, Kept
<1>11. Backed'
  <2>1. \A v \in VMs : ~Edited(v)'
    BY <1>1, <1>3 DEF Edited
  <2>2. \A v \in VMs : vm[v].cfg = "saved" => vm[v].base \in local[p].keep
    BY DEF CleanHolds, Referenced
  <2> QED
    BY <2>1, <2>2 DEF Backed
<1> QED
  BY <1>4, <1>5, <1>6, <1>7, <1>8, <1>9, <1>10, <1>11

LEMMA CleanScanKeeps ==
  ASSUME IInv, ~Overlap, NEW p \in Procs, CleanScan(p)
  PROVE  IInv'
<1> USE DisksAssumption DEF IInv, cacheVars, templateVars
<1> DEFINE l == [Command("clean", "list", None, None) EXCEPT !.keep = Referenced]
<1>1. \A q \in Procs : local[q].cmd = "idle"
  BY DEF CleanScan, MayBegin, Deleting
<1>2. /\ l.cmd = "clean" /\ l.at = "list" /\ l.vm = None /\ l.base = None
      /\ l.keep = Referenced /\ l.todo = {}
  BY DEF Command
<1>3. l \in Processes
  <2>1. Referenced \in SUBSET (Bases \cup {None})
    BY DEF Referenced, TypeOK, VmType
  <2> QED
    BY <2>1 DEF Command, Processes
<1>4. /\ local' = [local EXCEPT ![p] = l] /\ UNCHANGED <<vm, cacheVars, templateVars>>
  BY DEF CleanScan
<1> HIDE DEF l
<1>5. /\ Others(p) /\ local'[p] = l /\ local' \in [Procs -> Processes]
      /\ \A q \in Procs : q # p => local'[q] = Idle
  BY <1>1, <1>3, <1>4, Places DEF TypeOK, Others
<1>6. /\ Idle.cmd = "idle" /\ Idle.at = "idle" /\ Idle.vm = None /\ Idle.base = None
  BY DEF Idle, Command
<1>7. TypeOK'
  BY <1>4, <1>5 DEF TypeOK
<1>8. Apart'
  BY <1>2, <1>5, <1>6 DEF Apart, Vm, Base, Deleting
<1>9. Fetched'
  BY <1>2, <1>4, <1>5, FetchedStays
<1>10. Converted'
  BY <1>2, <1>4, <1>5, ConvertedStays
<1>11. CacheHolds' /\ VmHolds'
  BY <1>4 DEF CacheHolds, VmHolds
<1>12. MakingHolds'
  BY <1>2, <1>5, <1>6 DEF MakingHolds, Fetches, Converts
<1>13. TemplateHolds'
  BY <1>2, <1>4, <1>5, <1>6 DEF TemplateHolds, At
<1>14. CleanHolds'
  BY <1>2, <1>4, <1>5, <1>6 DEF CleanHolds, At, Referenced
<1>15. Backed'
  <2>1. \A v \in VMs : ~Edited(v)'
    BY <1>2, <1>5, <1>6 DEF Edited
  <2> QED
    BY <1>4, <2>1 DEF Backed
<1> QED
  BY <1>7, <1>8, <1>9, <1>10, <1>11, <1>12, <1>13, <1>14, <1>15

LEMMA CleanKeeps ==
  ASSUME IInv, NEW p \in Procs,
         CleanList(p) \/ CleanEnd(p) \/ \E f \in Files : CleanDelete(p, f)
  PROVE  IInv'
<1> USE DisksAssumption DEF IInv, cacheVars, templateVars
<1>1. local[p].cmd = "clean"
  BY Places DEF CleanList, CleanEnd, CleanDelete, At
<1>2. /\ local[p].at \in {"list", "delete"} /\ local[p].vm = None /\ local[p].base = None
      /\ local[p].keep \in SUBSET (Bases \cup {None}) /\ local[p].todo \in SUBSET Files
      /\ local[p] = [cmd |-> "clean", at |-> local[p].at, vm |-> None, base |-> None,
                     keep |-> local[p].keep, todo |-> local[p].todo]
  <2>1. local[p] \in Processes
    BY DEF TypeOK
  <2> QED
    BY <1>1, <2>1, SMTT(30) DEF Processes, Doing, Idle, Command
<1> DEFINE l(place, todo) == [cmd |-> "clean", at |-> place, vm |-> None, base |-> None,
                              keep |-> local[p].keep, todo |-> todo]
<1>3. ASSUME NEW place \in {"list", "delete"}, NEW todo \in SUBSET Files,
             local' = [local EXCEPT ![p] = l(place, todo)]
      PROVE  /\ Others(p) /\ local' \in [Procs -> Processes]
             /\ local'[p].cmd = "clean" /\ local'[p].at = place
             /\ local'[p].keep = local[p].keep /\ local'[p].todo = todo
  <2>1. l(place, todo) \in Processes
    BY <1>2 DEF Processes
  <2>2. /\ l(place, todo).cmd = "clean" /\ l(place, todo).at = place
        /\ l(place, todo).keep = local[p].keep /\ l(place, todo).todo = todo
    OBVIOUS
  <2> HIDE DEF l
  <2> QED
    BY <1>3, <2>1, <2>2 DEF TypeOK, Others
<1>4. CASE CleanList(p)
  <2> DEFINE todo == Present \ Kept(local[p].keep)
  <2>1. todo \in SUBSET Files
    BY DEF Present, Files
  <2>2. /\ local' = [local EXCEPT ![p] = l("delete", todo)]
        /\ UNCHANGED <<vm, cacheVars, templateVars>>
    <3> DEFINE r == [[local[p] EXCEPT !.at = "delete"] EXCEPT !.todo = todo]
    <3>1. local' = [local EXCEPT ![p] = r]
      BY <1>4 DEF CleanList, TypeOK
    <3> HIDE DEF todo
    <3>2. r = l("delete", todo)
      <4>1. [local[p] EXCEPT !.at = "delete"] = l("delete", local[p].todo)
        BY <1>2
      <4>2. [l("delete", local[p].todo) EXCEPT !.todo = todo] = l("delete", todo)
        OBVIOUS
      <4> HIDE DEF l
      <4> QED
        BY <4>1, <4>2
    <3> HIDE DEF r, l
    <3> QED
      BY <1>4, <3>1, <3>2 DEF CleanList
  <2>3. todo \cap Kept(local[p].keep) = {}
    OBVIOUS
  <2> HIDE DEF todo
  <2>4. /\ Others(p) /\ local' \in [Procs -> Processes]
        /\ local'[p].cmd = "clean" /\ local'[p].at = "delete"
        /\ local'[p].keep = local[p].keep /\ local'[p].todo = todo
    BY <1>3, <2>1, <2>2
  <2> QED
    BY <1>1, <2>2, <2>3, <2>4, SweepKeeps DEF TypeOK
<1>5. CASE CleanEnd(p)
  BY <1>5, EndKeeps DEF CleanEnd
<1>6. ASSUME NEW f \in Files, CleanDelete(p, f)
      PROVE  IInv'
  <2> DEFINE todo == IF f \in Present THEN local[p].todo \ {f} ELSE {}
  <2>1. todo \in SUBSET Files /\ todo \subseteq local[p].todo
    BY <1>2
  <2>2. /\ local' = [local EXCEPT ![p] = l("delete", todo)]
        /\ At(p, "delete") /\ f \in local[p].todo
        /\ UNCHANGED <<vm, templateVars>>
    <3> DEFINE r == [local[p] EXCEPT !.todo = todo]
    <3>1. local' = [local EXCEPT ![p] = r] /\ local[p].at = "delete"
      BY <1>6 DEF CleanDelete, At
    <3> HIDE DEF todo
    <3>2. r = l("delete", todo)
      BY <1>2, <3>1
    <3> HIDE DEF r, l
    <3> QED
      BY <1>6, <3>1, <3>2 DEF CleanDelete
  <2>3. local[p].todo \cap Kept(local[p].keep) = {}
    BY <1>1, <2>2 DEF CleanHolds
  <2> HIDE DEF todo
  <2>4. /\ Others(p) /\ local' \in [Procs -> Processes]
        /\ local'[p].cmd = "clean" /\ local'[p].at = "delete"
        /\ local'[p].keep = local[p].keep /\ local'[p].todo = todo
    BY <1>3, <2>1, <2>2
  <2>5. /\ image' \in {image, [image EXCEPT ![f[2]] = "none"]}
        /\ raw' \in {raw, [raw EXCEPT ![f[2]] = "none"]}
        /\ part' \in {part, [part EXCEPT ![f[2]] = "none"]}
        /\ rawPart' \in {rawPart, [rawPart EXCEPT ![f[2]] = NoPart]}
        /\ imageLock' \in {imageLock, [imageLock EXCEPT ![f[2]] = None]}
        /\ rawLock' \in {rawLock, [rawLock EXCEPT ![f[2]] = None]}
        /\ image' # image => image' = [image EXCEPT ![f[2]] = "none"] /\ f[1] = "image"
    BY <1>6 DEF CleanDelete
  <2>6. /\ image' \in [Urls -> Bytes] /\ \A u \in Urls : image'[u] \in {image[u], "none"}
        /\ raw' \in [Urls -> Bytes] /\ \A u \in Urls : raw'[u] \in {raw[u], "none"}
        /\ part' \in [Procs -> Bytes]
        /\ imageLock' \in [Urls -> Procs \cup {None}] /\ rawLock' \in [Urls -> Procs \cup {None}]
    <3>1. image' \in [Urls -> Bytes] /\ \A u \in Urls : image'[u] \in {image[u], "none"}
      BY <2>5 DEF TypeOK, Bytes
    <3>2. raw' \in [Urls -> Bytes] /\ \A u \in Urls : raw'[u] \in {raw[u], "none"}
      BY <2>5 DEF TypeOK, Bytes
    <3>3. part' \in [Procs -> Bytes]
      BY <2>5 DEF TypeOK, Bytes
    <3>4. imageLock' \in [Urls -> Procs \cup {None}] /\ rawLock' \in [Urls -> Procs \cup {None}]
      BY <2>5 DEF TypeOK
    <3> QED
      BY <3>1, <3>2, <3>3, <3>4
  <2>7. rawPart' \in [Urls -> [by : Procs \cup {None}, of : Bytes, bytes : Bytes]]
    BY <2>5 DEF TypeOK, Bytes, NoPart
  <2>8. ASSUME NEW u \in Urls \cap local[p].keep
        PROVE  image'[u] = image[u]
    <3>1. <<"image", u>> \in Kept(local[p].keep)
      BY DEF Kept
    <3>2. f # <<"image", u>>
      BY <2>2, <2>3, <3>1
    <3>3. f = <<f[1], f[2]>>
      BY DEF Files
    <3> QED
      BY <2>5, <3>2, <3>3 DEF TypeOK
  <2> QED
    BY <1>1, <2>1, <2>2, <2>3, <2>4, <2>6, <2>7, <2>8, SweepKeeps
<1> QED
  BY <1>4, <1>5, <1>6

-----------------------------------------------------------------------------
(* A template that is being made or removed: nobody stands on it.          *)

LEMMA TemplateKeeps ==
  ASSUME IInv, NEW p \in Procs, local[p].cmd \in {"mktemplate", "rmtemplate"},
         Others(p), local' \in [Procs -> Processes],
         \/ local'[p] = Idle
         \/ /\ local'[p].cmd = local[p].cmd /\ local'[p].vm = local[p].vm
            /\ local'[p].base = local[p].base
            /\ local'[p].at \in {"flatten", "meta", "metawrite", "rmdisk", "rmmeta"},
         tdisk' \in [Templates -> Bytes], tmeta' \in [Templates -> {"none", "torn", "saved"}],
         \A t \in Templates : t # Base(p) => tdisk'[t] = tdisk[t] /\ tmeta'[t] = tmeta[t],
         tmeta'[Base(p)] = "saved" => tdisk'[Base(p)] \in {"none"} \cup Whole,
         local'[p].cmd = "mktemplate" => tmeta'[Base(p)] # "saved",
         local'[p].at \in {"meta", "metawrite"} => tdisk'[Base(p)] \in Whole,
         local'[p].at = "rmmeta" => tdisk'[Base(p)] = "none",
         UNCHANGED <<vm, cacheVars>>
  PROVE  IInv'
<1> USE DisksAssumption DEF IInv, cacheVars
<1> DEFINE t0 == Base(p)
<1>1. Idle.cmd = "idle" /\ Idle.at = "idle" /\ Idle.vm = None /\ Idle.base = None
  BY DEF Idle, Command
<1>2. t0 \in Templates /\ t0 \notin Urls
  BY Against
<1>3. /\ \A q \in Procs : q # p /\ local[q].cmd \in {"mktemplate", "clone", "rmtemplate"} =>
           Base(q) # t0 /\ Base(q) \in Templates
      /\ local[p].cmd = "rmtemplate" => \A q \in Procs : q # p => local[q].cmd = "idle"
  <2>1. ASSUME NEW q \in Procs, q # p
        PROVE  /\ local[q].cmd \in {"mktemplate", "clone", "rmtemplate"} =>
                    Base(q) # t0 /\ Base(q) \in Templates
               /\ local[p].cmd = "rmtemplate" => local[q].cmd = "idle"
    BY <2>1, Against DEF Apart, Deleting, TemplateHolds
  <2> QED
    BY <2>1
<1>4. \A v \in VMs : vm[v].disk = "overlay" /\ (vm[v].cfg = "saved" \/ Edited(v)) => vm[v].base # t0
  <2>1. CASE local[p].cmd = "mktemplate"
    BY <1>2, <2>1 DEF Backed, TemplateHolds
  <2>2. CASE local[p].cmd = "rmtemplate"
    BY <1>3, <2>2 DEF TemplateHolds, Dependents, Edited
  <2> QED
    BY <2>1, <2>2
<1>5. TypeOK'
  BY DEF TypeOK
<1>6. Apart'
  BY <1>1 DEF Apart, Others, Vm, Base, Deleting
<1>7. Fetched'
  BY <1>1, FetchedStays
<1>8. Converted'
  BY <1>1, ConvertedStays
<1>9. CacheHolds' /\ VmHolds'
  BY DEF CacheHolds, VmHolds
<1>10. MakingHolds'
  BY <1>1 DEF MakingHolds, Others, Vm, Base, Fetches, Converts
<1>11. TemplateHolds'
  <2>1. \A t \in Templates : tmeta'[t] = "saved" => tdisk'[t] \in {"none"} \cup Whole
    BY DEF TemplateHolds
  <2>2. ASSUME NEW q \in Procs, q # p
        PROVE  /\ local'[q].cmd = "mktemplate" => tmeta'[local'[q].base] # "saved"
               /\ local'[q].at \in {"meta", "metawrite"} => tdisk'[local'[q].base] \in Whole
               /\ local'[q].cmd = "clone" =>
                    tmeta'[local'[q].base] = "saved" /\ tdisk'[local'[q].base] # "none"
               /\ local'[q].cmd = "rmtemplate" =>
                    {v \in VMs : vm[v].cfg = "saved" /\ vm[v].base = local'[q].base} = {}
               /\ local'[q].at = "rmmeta" => tdisk'[local'[q].base] = "none"
    <3>1. local'[q] = local[q]
      BY <2>2 DEF Others
    <3>2. CASE local[q].cmd \in {"mktemplate", "clone", "rmtemplate"}
      <4>1. tdisk'[Base(q)] = tdisk[Base(q)] /\ tmeta'[Base(q)] = tmeta[Base(q)]
        BY <1>3, <2>2, <3>2
      <4> QED
        BY <3>1, <4>1, Places DEF TemplateHolds, Base, At, Dependents
    <3>3. CASE local[q].cmd \notin {"mktemplate", "clone", "rmtemplate"}
      BY <3>1, <3>3, Places DEF At
    <3> QED
      BY <3>2, <3>3
  <2>3. /\ local'[p].cmd = "mktemplate" => tmeta'[local'[p].base] # "saved"
        /\ local'[p].at \in {"meta", "metawrite"} => tdisk'[local'[p].base] \in Whole
        /\ local'[p].cmd # "clone"
        /\ local'[p].cmd = "rmtemplate" =>
             {v \in VMs : vm[v].cfg = "saved" /\ vm[v].base = local'[p].base} = {}
        /\ local'[p].at = "rmmeta" => tdisk'[local'[p].base] = "none"
    BY <1>1 DEF TemplateHolds, Base, Dependents
  <2> QED
    BY <2>1, <2>2, <2>3 DEF TemplateHolds, Base, At, Dependents
<1>12. CleanHolds'
  BY <1>1 DEF CleanHolds, Others, At, Referenced, Kept
<1>13. Backed'
  <2>1. \A v \in VMs : Edited(v)' => Edited(v)
    BY <1>1 DEF Edited, Others, Vm
  <2>2. \A v \in VMs : vm[v].disk = "overlay" => vm[v].base \in Bases
    BY DEF VmHolds, TypeOK, VmType
  <2> QED
    BY <1>4, <2>1, <2>2 DEF Backed, Bases
<1> QED
  BY <1>5, <1>6, <1>7, <1>8, <1>9, <1>10, <1>11, <1>12, <1>13

LEMMA TemplateMoves ==
  ASSUME IInv, NEW p \in Procs, NEW place, Goto(p, place),
         \/ local[p].cmd = "mktemplate" /\ place \in {"flatten", "meta", "metawrite"}
         \/ local[p].cmd = "rmtemplate" /\ place = "rmmeta"
  PROVE  /\ Others(p) /\ local' \in [Procs -> Processes] /\ local'[p].at = place
         /\ local'[p].cmd = local[p].cmd /\ local'[p].vm = local[p].vm
         /\ local'[p].base = local[p].base
BY Moved, GoesOn DEF IInv

LEMMA TemplateStepsKeep ==
  ASSUME IInv, NEW p \in Procs,
         \/ TemplateOpen(p) \/ TemplateFlatten(p) \/ TemplateMetaOpen(p) \/ TemplateMetaWrite(p)
         \/ RmDisk(p) \/ RmMeta(p)
  PROVE  IInv'
<1> USE DisksAssumption DEF IInv
<1> DEFINE t0 == Base(p)
<1>1. /\ local[p].cmd \in {"mktemplate", "rmtemplate"} /\ t0 \in Templates
      /\ local[p].cmd = "mktemplate" => Vm(p) \in VMs /\ tmeta[t0] # "saved"
  BY Places, Against DEF TemplateOpen, TemplateFlatten, TemplateMetaOpen, TemplateMetaWrite,
                         RmDisk, RmMeta, At, TemplateHolds
<1>2. /\ tdisk \in [Templates -> Bytes] /\ tmeta \in [Templates -> {"none", "torn", "saved"}]
  BY DEF TypeOK
<1>3. /\ Idle.cmd = "idle" /\ Idle.at = "idle"
  BY DEF Idle, Command
<1>4. CASE TemplateOpen(p) /\ ~Finish(p)
  <2>1. /\ local[p].cmd = "mktemplate" /\ Goto(p, "flatten")
        /\ tdisk' = [tdisk EXCEPT ![t0] = "some"] /\ UNCHANGED <<vm, cacheVars, tmeta>>
    BY <1>4, Places DEF TemplateOpen, At
  <2>2. tdisk' \in [Templates -> Bytes]
    BY <1>2, <2>1 DEF Bytes
  <2> QED
    BY <1>1, <1>2, <2>1, <2>2, TemplateMoves, TemplateKeeps
<1>5. CASE TemplateFlatten(p) /\ ~Finish(p)
  <2>1. /\ local[p].cmd = "mktemplate" /\ Goto(p, "meta")
        /\ tdisk' = [tdisk EXCEPT ![t0] = vm[Vm(p)].bytes] /\ UNCHANGED <<vm, cacheVars, tmeta>>
    BY <1>5, Places DEF TemplateFlatten, At
  <2>2. vm[Vm(p)].bytes \in Whole
    BY <1>1, <2>1 DEF MakingHolds, VmHolds, Cached, Whole
  <2>3. tdisk' \in [Templates -> Bytes] /\ tdisk'[t0] \in Whole
    BY <1>1, <1>2, <2>1, <2>2 DEF Bytes, Whole
  <2> QED
    BY <1>1, <1>2, <2>1, <2>3, TemplateMoves, TemplateKeeps
<1>6. CASE TemplateMetaOpen(p)
  <2>1. /\ local[p].cmd = "mktemplate" /\ Goto(p, "metawrite") /\ tdisk[t0] \in Whole
        /\ tmeta' = [tmeta EXCEPT ![t0] = "torn"] /\ UNCHANGED <<vm, cacheVars, tdisk>>
    BY <1>6, Places DEF TemplateMetaOpen, At, TemplateHolds
  <2> QED
    BY <1>1, <1>2, <2>1, TemplateMoves, TemplateKeeps
<1>7. CASE TemplateMetaWrite(p)
  <2>1. /\ local[p].cmd = "mktemplate" /\ Finish(p) /\ tdisk[t0] \in Whole
        /\ tmeta' = [tmeta EXCEPT ![t0] = "saved"] /\ UNCHANGED <<vm, cacheVars, tdisk>>
    BY <1>7, Places DEF TemplateMetaWrite, At, TemplateHolds
  <2> QED
    BY <1>1, <1>2, <1>3, <2>1, Ended, Ends, TemplateKeeps
<1>8. CASE RmDisk(p)
  <2>1. /\ local[p].cmd = "rmtemplate"
        /\ tdisk' = [tdisk EXCEPT ![t0] = "none"] /\ UNCHANGED <<vm, cacheVars, tmeta>>
        /\ Finish(p) \/ Goto(p, "rmmeta")
    BY <1>8, Places DEF RmDisk, At
  <2>2. tdisk' \in [Templates -> Bytes] /\ tdisk'[t0] = "none"
    BY <1>1, <1>2, <2>1 DEF Bytes
  <2>3. CASE Finish(p)
    BY <1>1, <1>2, <1>3, <2>1, <2>2, <2>3, Ended, Ends, TemplateKeeps
  <2>4. CASE Goto(p, "rmmeta")
    BY <1>1, <1>2, <2>1, <2>2, <2>4, TemplateMoves, TemplateKeeps
  <2> QED
    BY <2>1, <2>3, <2>4
<1>9. CASE RmMeta(p)
  <2>1. /\ local[p].cmd = "rmtemplate" /\ Finish(p)
        /\ tmeta' = [tmeta EXCEPT ![t0] = "none"] /\ UNCHANGED <<vm, cacheVars, tdisk>>
    BY <1>9, Places DEF RmMeta, At
  <2> QED
    BY <1>1, <1>2, <1>3, <2>1, Ended, Ends, TemplateKeeps
<1>10. CASE Finish(p) /\ (TemplateOpen(p) \/ TemplateFlatten(p))
  <2>1. CASE UNCHANGED tdisk
    BY <1>10, <2>1, EndKeeps DEF TemplateOpen, TemplateFlatten, cacheVars, templateVars
  <2>2. CASE ~UNCHANGED tdisk
    <3>1. local'[p].at = "idle"
      BY <1>3, <1>10, Ended
    <3>2. local'[p].at \in {"flatten", "meta"}
      BY <1>10, <2>2, Moved DEF TemplateOpen, TemplateFlatten
    <3> QED
      BY <3>1, <3>2
  <2> QED
    BY <2>1, <2>2
<1> QED
  BY <1>4, <1>5, <1>6, <1>7, <1>8, <1>9, <1>10

-----------------------------------------------------------------------------
(* IInv is inductive as long as `cache clean` and `template rm` run alone. *)

LEMMA InitIInv ==
  ASSUME Init
  PROVE  IInv
<1> USE DisksAssumption DEF Init
<1>1. /\ Idle.cmd = "idle" /\ Idle.at = "idle" /\ Idle.vm = None /\ Idle.base = None
  BY DEF Idle, Command
<1>2. TypeOK
  BY DEF TypeOK, VmType, NoVm, Processes, Bytes, NoPart
<1>3. Apart /\ Fetched /\ Converted
  BY <1>1 DEF Apart, Fetched, Converted, At, Vm, Deleting
<1>4. CacheHolds /\ VmHolds
  BY DEF CacheHolds, VmHolds, NoVm
<1>5. MakingHolds /\ TemplateHolds /\ CleanHolds
  BY <1>1 DEF MakingHolds, TemplateHolds, CleanHolds, At, Fetches, Converts
<1>6. Backed
  BY DEF Backed, NoVm
<1> QED
  BY <1>2, <1>3, <1>4, <1>5, <1>6 DEF IInv

LEMMA NextKeeps ==
  ASSUME IInv, ~Overlap, [Next]_vars
  PROVE  IInv'
<1>1. ASSUME NEW p \in Procs, CacheNext(p)
      PROVE  IInv'
  <2>1. CASE FetchFail(p)
    BY <2>1, EndKeeps DEF FetchFail, templateVars
  <2> QED
    BY <1>1, <2>1, BeginsKeep, FetchKeeps, ConvertKeeps, MakeKeeps, CleanScanKeeps, CleanKeeps
       DEF CacheNext
<1>2. ASSUME NEW p \in Procs, TemplateNext(p)
      PROVE  IInv'
  BY <1>2, BeginsKeep, TemplateStepsKeep, MakeKeeps DEF TemplateNext
<1>3. ASSUME NEW p \in Procs, InstanceNext(p)
      PROVE  IInv'
  BY <1>3, BeginsKeep, SaveKeeps, DestroyKeeps DEF InstanceNext
<1>4. ASSUME NEW p \in Procs, Kill(p)
      PROVE  IInv'
  BY <1>4, EndKeeps DEF Kill, templateVars
<1>5. CASE UNCHANGED vars
  <2>1. UNCHANGED <<vm, local, image, part, imageLock, raw, rawPart, rawLock, tdisk, tmeta>>
    BY <1>5 DEF vars
  <2>2. TypeOK'
    BY <2>1 DEF IInv, TypeOK
  <2>3. Apart' /\ Fetched' /\ Converted' /\ CacheHolds' /\ VmHolds' /\ MakingHolds'
    BY <2>1 DEF IInv, Apart, Fetched, Converted, CacheHolds, VmHolds, MakingHolds, Vm, Base, At,
                Deleting
  <2>4. TemplateHolds' /\ CleanHolds' /\ Backed'
    BY <2>1 DEF IInv, TemplateHolds, CleanHolds, Backed, Vm, Base, At, Dependents, Referenced,
                Edited
  <2> QED
    BY <2>2, <2>3, <2>4 DEF IInv
<1> QED
  BY <1>1, <1>2, <1>3, <1>4, <1>5 DEF Next

(* With `cache clean` and `template rm` running alone, the invariant that  *)
(* ties locks, part files, the cache, the templates and the disks together *)
(* holds for any number of processes, VMs, images and templates.           *)
THEOREM DisksInvariance ==
  ASSUME ~Overlap
  PROVE  Spec => []IInv
<1>1. Init => IInv
  BY InitIInv
<1>2. IInv /\ [Next]_vars => IInv'
  BY NextKeeps
<1> QED
  BY <1>1, <1>2, PTL DEF Spec

-----------------------------------------------------------------------------
(* What the invariant means for the disks.                                 *)

LEMMA Backing ==
  ASSUME IInv
  PROVE  BackingKept
<1> SUFFICES ASSUME NEW v \in VMs, vm[v].cfg = "saved", vm[v].disk = "overlay"
             PROVE  BaseBytes(vm[v].base) \in {"good", "bad"}
  BY DEF BackingKept
<1>1. vm[v].base \in Bases
  BY DEF IInv, VmHolds, TypeOK, VmType
<1>2. CASE vm[v].base \in Urls
  BY <1>2 DEF IInv, Backed, CacheHolds, BaseBytes, Cached, Whole
<1>3. CASE vm[v].base \notin Urls
  BY <1>1, <1>3 DEF IInv, Backed, TemplateHolds, BaseBytes, Whole, Bases
<1> QED
  BY <1>2, <1>3

LEMMA MadeWhole ==
  ASSUME IInv, Unchecked = {}
  PROVE  MadeOfWholeBytes
BY DisksAssumption DEF IInv, VmHolds, TypeOK, VmType, MadeOfWholeBytes, Cached, Whole, Bases

LEMMA AtMostOne ==
  ASSUME NEW S, NEW x, S \subseteq {x}
  PROVE  Cardinality(S) <= 1
<1>1. S = {} \/ S = {x}
  OBVIOUS
<1>2. Cardinality(S) = 0 \/ Cardinality(S) = 1
  BY <1>1, FS_EmptySet, FS_Singleton
<1> QED
  BY <1>2

LEMMA Once ==
  ASSUME IInv
  PROVE  FetchedOnce
<1> SUFFICES ASSUME NEW u \in Urls
             PROVE  /\ Cardinality(Fetching(u)) <= 1
                    /\ Fetching(u) # {} => image[u] = "none"
                    /\ Cardinality(Converting(u)) <= 1
                    /\ Converting(u) # {} => raw[u] = "none"
  BY DEF FetchedOnce
<1>1. Fetching(u) \subseteq {imageLock[u]} /\ (Fetching(u) # {} => image[u] = "none")
  BY DEF IInv, Fetched, Fetching
<1>2. Converting(u) \subseteq {rawLock[u]} /\ (Converting(u) # {} => raw[u] = "none")
  BY DEF IInv, Converted, Converting
<1> QED
  BY <1>1, <1>2, AtMostOne

(* A VM whose config can be read stands on a base that is there and whole. *)
THEOREM BackingIsKept ==
  ASSUME ~Overlap
  PROVE  Spec => []BackingKept
BY DisksInvariance, Backing, PTL

(* Without --no-checksum, no disk holds what its checksum does not fit,    *)
(* or part of anything.                                                    *)
THEOREM DisksAreWhole ==
  ASSUME ~Overlap, Unchecked = {}
  PROVE  Spec => []MadeOfWholeBytes
BY DisksInvariance, MadeWhole, PTL

(* An image is fetched, and converted, by one create at a time, and only   *)
(* while it is not there.                                                  *)
THEOREM ImagesAreFetchedOnce ==
  ASSUME ~Overlap
  PROVE  Spec => []FetchedOnce
BY DisksInvariance, Once, PTL

-----------------------------------------------------------------------------
(* The files implement the store.                                          *)

Steady == \A b \in Bases : Held(b)' = Held(b)
Still == \A v \in VMs : StandsOn(v)' = StandsOn(v)
StoreStep == Store!Next \/ (Steady /\ Still)

LEMMA Stuttering ==
  ASSUME Steady, Still
  PROVE  UNCHANGED <<[b \in Bases |-> Held(b)], [v \in VMs |-> StandsOn(v)]>>
BY DEF Steady, Still

LEMMA Publishing ==
  ASSUME NEW b \in Bases, NEW c \in Whole, Held(b) = "none", Held(b)' = c,
         \A a \in Bases : a # b => Held(a)' = Held(a), Still
  PROVE  StoreStep
<1>1. [a \in Bases |-> Held(a)]' = [[a \in Bases |-> Held(a)] EXCEPT ![b] = c]
  OBVIOUS
<1>2. [v \in VMs |-> StandsOn(v)]' = [v \in VMs |-> StandsOn(v)]
  BY DEF Still
<1>3. Store!Publish(b, c)
  BY <1>1, <1>2 DEF Store!Publish
<1> QED
  BY <1>3 DEF StoreStep, Store!Next, Whole

LEMMA Attaching ==
  ASSUME NEW v \in VMs, NEW b \in Bases, Held(b) # "none", StandsOn(v) = "none",
         StandsOn(v)' = b, \A w \in VMs : w # v => StandsOn(w)' = StandsOn(w), Steady
  PROVE  StoreStep
<1>1. [w \in VMs |-> StandsOn(w)]' = [[w \in VMs |-> StandsOn(w)] EXCEPT ![v] = b]
  OBVIOUS
<1>2. [a \in Bases |-> Held(a)]' = [a \in Bases |-> Held(a)]
  BY DEF Steady
<1>3. Store!Attach(v, b)
  BY <1>1, <1>2 DEF Store!Attach
<1> QED
  BY <1>3 DEF StoreStep, Store!Next

LEMMA Detaching ==
  ASSUME NEW v \in VMs, StandsOn(v)' = "none",
         \A w \in VMs : w # v => StandsOn(w)' = StandsOn(w), Steady
  PROVE  StoreStep
<1>1. CASE StandsOn(v) = "none"
  BY <1>1 DEF StoreStep, Still
<1>2. CASE StandsOn(v) # "none"
  <2>1. [w \in VMs |-> StandsOn(w)]' = [[w \in VMs |-> StandsOn(w)] EXCEPT ![v] = "none"]
    OBVIOUS
  <2>2. [a \in Bases |-> Held(a)]' = [a \in Bases |-> Held(a)]
    BY DEF Steady
  <2>3. Store!Detach(v)
    BY <1>2, <2>1, <2>2 DEF Store!Detach
  <2> QED
    BY <2>3 DEF StoreStep, Store!Next
<1> QED
  BY <1>1, <1>2

LEMMA Discarding ==
  ASSUME NEW b \in Bases, Held(b)' = "none", \A v \in VMs : StandsOn(v) # b,
         \A a \in Bases : a # b => Held(a)' = Held(a), Still
  PROVE  StoreStep
<1>1. CASE Held(b) = "none"
  BY <1>1 DEF StoreStep, Steady
<1>2. CASE Held(b) # "none"
  <2>1. [a \in Bases |-> Held(a)]' = [[a \in Bases |-> Held(a)] EXCEPT ![b] = "none"]
    OBVIOUS
  <2>2. [v \in VMs |-> StandsOn(v)]' = [v \in VMs |-> StandsOn(v)]
    BY DEF Still
  <2>3. Store!Discard(b)
    BY <1>2, <2>1, <2>2 DEF Store!Discard
  <2> QED
    BY <2>3 DEF StoreStep, Store!Next
<1> QED
  BY <1>1, <1>2

LEMMA SteadyCache ==
  ASSUME UNCHANGED <<image, tdisk, tmeta>>
  PROVE  Steady
BY DEF Steady, Held

LEMMA StillVms ==
  ASSUME UNCHANGED vm
  PROVE  Still
BY DEF Still, StandsOn

LEMMA BasesSplit ==
  /\ Urls \subseteq Bases /\ Templates \subseteq Bases
  /\ \A b \in Bases : b \notin Urls <=> b \in Templates
  /\ "none" \notin Bases
BY DisksAssumption DEF Bases

\* Only a finished disk, a torn config or its removal moves a VM.
LEMMA VmSteps ==
  ASSUME IInv, NEW p \in Procs, NEW v0, v0 = Vm(p), NEW b0, b0 = Base(p),
         \/ Overlay(p) \/ Copy(p) \/ CloneOverlay(p) \/ SaveOpen(p) \/ SaveWrite(p)
         \/ DestroyEntry(p) \/ DestroyEnd(p)
  PROVE  StoreStep
<1> USE DEF IInv
<1>1. v0 \in VMs /\ UNCHANGED <<image, tdisk, tmeta>> /\ Steady
  <2>1. v0 \in VMs
    BY Places, Against DEF Overlay, Copy, CloneOverlay, SaveOpen, SaveWrite, DestroyEntry,
                           DestroyEnd, At, Converts
  <2>2. UNCHANGED <<image, tdisk, tmeta>>
    BY DEF Overlay, Copy, CloneOverlay, SaveOpen, SaveWrite, DestroyEntry, DestroyEnd,
           cacheVars, templateVars
  <2> QED
    BY <2>1, <2>2, SteadyCache
<1>2. ASSUME NEW disk \in {"none", "overlay", "copy"}, NEW bytes \in Bytes,
             vm' = [vm EXCEPT ![v0].disk = disk, ![v0].bytes = bytes]
      PROVE  /\ \A w \in VMs : w # v0 => StandsOn(w)' = StandsOn(w)
             /\ StandsOn(v0)' = IF vm[v0].cfg = "saved" /\ disk = "overlay"
                                THEN vm[v0].base ELSE "none"
  <2>1. /\ \A w \in VMs : w # v0 => vm'[w] = vm[w]
        /\ vm'[v0].disk = disk /\ vm'[v0].cfg = vm[v0].cfg /\ vm'[v0].base = vm[v0].base
    BY <1>1, <1>2, DiskPut
  <2> QED
    BY <2>1 DEF StandsOn
<1>3. ASSUME NEW cfg \in {"none", "torn", "saved"}, vm' = [vm EXCEPT ![v0].cfg = cfg]
      PROVE  /\ \A w \in VMs : w # v0 => StandsOn(w)' = StandsOn(w)
             /\ StandsOn(v0)' = IF cfg = "saved" /\ vm[v0].disk = "overlay"
                                THEN vm[v0].base ELSE "none"
  <2>1. /\ \A w \in VMs : w # v0 => vm'[w] = vm[w]
        /\ vm'[v0].cfg = cfg /\ vm'[v0].disk = vm[v0].disk /\ vm'[v0].base = vm[v0].base
    BY <1>1, <1>3, ConfigPut
  <2> QED
    BY <2>1 DEF StandsOn
<1>4. CASE UNCHANGED vm
  BY <1>1, <1>4, StillVms DEF StoreStep
<1>5. CASE Overlay(p) /\ ~UNCHANGED vm
  <2>1. /\ local[p].cmd = "create" /\ b0 \in Urls
        /\ vm[v0].cfg = "saved" /\ vm[v0].disk = "none" /\ vm[v0].base = b0
    BY <1>5, Places, Against DEF Overlay, At, Converts, MakingHolds
  <2>2. /\ image[b0] # "none"
        /\ vm' = [vm EXCEPT ![v0].disk = "overlay", ![v0].bytes = image[b0]]
    BY <1>5 DEF Overlay
  <2>3. image[b0] \in Bytes /\ b0 \in Bases /\ Held(b0) # "none" /\ StandsOn(v0) = "none"
    BY <2>1, <2>2, BasesSplit DEF TypeOK, Held, StandsOn
  <2>4. StandsOn(v0)' = b0 /\ \A w \in VMs : w # v0 => StandsOn(w)' = StandsOn(w)
    BY <1>2, <2>1, <2>2, <2>3
  <2> QED
    BY <1>1, <2>3, <2>4, Attaching
<1>6. CASE CloneOverlay(p) /\ ~UNCHANGED vm
  <2>1. /\ local[p].cmd = "clone" /\ b0 \in Templates /\ tmeta[b0] = "saved"
        /\ vm[v0].cfg = "saved" /\ vm[v0].disk = "none" /\ vm[v0].base = b0
    BY <1>6, Places, Against DEF CloneOverlay, At, MakingHolds, TemplateHolds
  <2>2. /\ tdisk[b0] # "none"
        /\ vm' = [vm EXCEPT ![v0].disk = "overlay", ![v0].bytes = tdisk[b0]]
    BY <1>6 DEF CloneOverlay
  <2>3. tdisk[b0] \in Bytes /\ b0 \in Bases /\ Held(b0) # "none" /\ StandsOn(v0) = "none"
    BY <2>1, <2>2, BasesSplit DEF TypeOK, Held, StandsOn
  <2>4. StandsOn(v0)' = b0 /\ \A w \in VMs : w # v0 => StandsOn(w)' = StandsOn(w)
    BY <1>2, <2>1, <2>2, <2>3
  <2> QED
    BY <1>1, <2>3, <2>4, Attaching
<1>7. CASE Copy(p) /\ ~UNCHANGED vm
  <2>1. /\ vm' = [vm EXCEPT ![v0].disk = "copy", ![v0].bytes = raw[b0]] /\ raw[b0] \in Bytes
    BY <1>7, Places, Against DEF Copy, At, Converts, TypeOK
  <2>2. StandsOn(v0)' = "none" /\ \A w \in VMs : w # v0 => StandsOn(w)' = StandsOn(w)
    BY <1>2, <2>1
  <2> QED
    BY <1>1, <2>2, Detaching
<1>8. CASE SaveOpen(p)
  <2>1. StandsOn(v0)' = "none" /\ \A w \in VMs : w # v0 => StandsOn(w)' = StandsOn(w)
    BY <1>3, <1>8 DEF SaveOpen
  <2> QED
    BY <1>1, <2>1, Detaching
<1>9. CASE SaveWrite(p)
  <2>1. /\ \A w \in VMs : w # v0 => StandsOn(w)' = StandsOn(w)
        /\ StandsOn(v0)' = IF vm[v0].disk = "overlay" THEN vm[v0].base ELSE "none"
    BY <1>3, <1>9 DEF SaveWrite
  <2>2. CASE vm[v0].disk # "overlay"
    BY <1>1, <2>1, <2>2, Detaching
  <2>3. CASE vm[v0].disk = "overlay"
    <3>1. local[p].cmd = "edit" /\ Edited(v0)
      BY <1>9, <2>3, Places DEF SaveWrite, At, MakingHolds, Edited
    <3>2. vm[v0].base \in Bases
      BY <1>1, <2>3 DEF VmHolds, TypeOK, VmType
    <3>3. Held(vm[v0].base) # "none"
      BY <1>1, <2>3, <3>1, <3>2 DEF Backed, Held
    <3>4. CASE vm[v0].cfg = "saved"
      BY <1>1, <2>1, <2>3, <3>4 DEF StandsOn, Still, StoreStep
    <3>5. CASE vm[v0].cfg # "saved"
      <4>1. StandsOn(v0) = "none" /\ StandsOn(v0)' = vm[v0].base
        BY <2>1, <2>3, <3>5 DEF StandsOn
      <4> QED
        BY <1>1, <2>1, <3>2, <3>3, <4>1, Attaching
    <3> QED
      BY <3>4, <3>5
  <2> QED
    BY <2>2, <2>3
<1>10. CASE DestroyEntry(p)
  <2>1. CASE vm' = [vm EXCEPT ![v0].cfg = "none"]
    <3>1. StandsOn(v0)' = "none" /\ \A w \in VMs : w # v0 => StandsOn(w)' = StandsOn(w)
      BY <1>3, <2>1
    <3> QED
      BY <1>1, <3>1, Detaching
  <2>2. CASE vm' = [vm EXCEPT ![v0].disk = "none", ![v0].bytes = "none"]
    <3>1. StandsOn(v0)' = "none" /\ \A w \in VMs : w # v0 => StandsOn(w)' = StandsOn(w)
      BY <1>2, <2>2 DEF Bytes
    <3> QED
      BY <1>1, <3>1, Detaching
  <2> QED
    BY <1>10, <2>1, <2>2 DEF DestroyEntry
<1>11. CASE DestroyEnd(p)
  <2>1. NoVm \in VmType /\ NoVm.cfg = "none"
    BY DEF NoVm, VmType, Bytes
  <2>2. vm'[v0].cfg = "none" /\ \A w \in VMs : w # v0 => vm'[w] = vm[w]
    BY <1>1, <1>11, <2>1, Put DEF DestroyEnd
  <2>3. StandsOn(v0)' = "none" /\ \A w \in VMs : w # v0 => StandsOn(w)' = StandsOn(w)
    BY <2>2 DEF StandsOn
  <2> QED
    BY <1>1, <2>3, Detaching
<1> QED
  BY <1>4, <1>5, <1>6, <1>7, <1>8, <1>9, <1>10, <1>11

LEMMA BeginSteps ==
  ASSUME IInv, NEW p \in Procs, NEW v \in VMs,
         \/ \E u \in Urls, c \in BOOLEAN, k \in {"qemu", "avf"} : CreateBegin(p, v, u, c, k)
         \/ \E t \in Templates : CloneBegin(p, v, t)
  PROVE  StoreStep
<1>1. PICK b \in Bases, c \in BOOLEAN, k \in {"qemu", "avf"} :
        ~vm[v].dir /\ vm' = [vm EXCEPT ![v] = Fresh(b, c, k)] /\ UNCHANGED <<cacheVars, templateVars>>
  BY BasesSplit DEF CreateBegin, CloneBegin
<1>2. Fresh(b, c, k) \in VmType /\ Fresh(b, c, k).cfg = "none"
  BY DEF Fresh, NoVm, VmType, Bytes
<1>3. vm'[v].cfg = "none" /\ \A w \in VMs : w # v => vm'[w] = vm[w]
  BY <1>1, <1>2, Put DEF IInv
<1>4. vm[v].cfg = "none"
  BY <1>1 DEF IInv, VmHolds
<1>5. Still
  BY <1>3, <1>4 DEF Still, StandsOn
<1>6. Steady
  BY <1>1, SteadyCache DEF cacheVars, templateVars
<1> QED
  BY <1>5, <1>6 DEF StoreStep

LEMMA BaseSteps ==
  ASSUME IInv, NEW p \in Procs, NEW b0, b0 = Base(p),
         \/ FetchRename(p) \/ (\E f \in Files : CleanDelete(p, f))
         \/ TemplateOpen(p) \/ TemplateFlatten(p) \/ TemplateMetaOpen(p) \/ TemplateMetaWrite(p)
         \/ RmDisk(p) \/ RmMeta(p)
  PROVE  StoreStep
<1> USE DEF IInv
<1>1. UNCHANGED vm /\ Still
  <2>1. UNCHANGED vm
    BY DEF FetchRename, CleanDelete, TemplateOpen, TemplateFlatten, TemplateMetaOpen,
           TemplateMetaWrite, RmDisk, RmMeta
  <2> QED
    BY <2>1, StillVms
<1>2. CASE FetchRename(p)
  <2>1. /\ b0 \in Urls /\ image[b0] = "none" /\ part[p] \in Whole /\ part[p] # "none"
    BY <1>2, Places, Against DEF FetchRename, Fetched, At, Fetches
  <2>2. image' = [image EXCEPT ![b0] = part[p]] /\ UNCHANGED templateVars
    BY <1>2, <2>1 DEF FetchRename
  <2>3. Held(b0) = "none" /\ Held(b0)' = part[p] /\ \A a \in Bases : a # b0 => Held(a)' = Held(a)
    BY <2>1, <2>2 DEF Held, TypeOK, templateVars
  <2> QED
    BY <1>1, <2>1, <2>3, BasesSplit, Publishing
<1>3. ASSUME NEW f \in Files, CleanDelete(p, f)
      PROVE  StoreStep
  <2>1. UNCHANGED templateVars
    BY <1>3 DEF CleanDelete
  <2>2. CASE image' = image
    BY <1>1, <2>1, <2>2, SteadyCache DEF templateVars, StoreStep
  <2>3. CASE image' # image
    <3>1. f[1] = "image" /\ image' = [image EXCEPT ![f[2]] = "none"]
      BY <1>3, <2>3 DEF CleanDelete
    <3>2. f[2] \in Urls /\ f = <<"image", f[2]>>
      BY <3>1 DEF Files
    <3>3. /\ local[p].cmd = "clean" /\ f \in local[p].todo
          /\ local[p].todo \cap Kept(local[p].keep) = {} /\ Referenced \subseteq local[p].keep
      BY <1>3, Places DEF CleanDelete, At, CleanHolds
    <3>4. f[2] \notin local[p].keep
      BY <3>2, <3>3 DEF Kept
    <3>5. \A v \in VMs : StandsOn(v) # f[2]
      BY <3>2, <3>3, <3>4, BasesSplit DEF StandsOn, Referenced
    <3>6. Held(f[2])' = "none" /\ \A a \in Bases : a # f[2] => Held(a)' = Held(a)
      BY <2>1, <3>1, <3>2 DEF Held, TypeOK, templateVars
    <3> QED
      BY <1>1, <3>2, <3>5, <3>6, BasesSplit, Discarding
  <2> QED
    BY <2>2, <2>3
<1>4. CASE TemplateOpen(p) \/ TemplateFlatten(p) \/ TemplateMetaOpen(p)
  <2>1. b0 \in Templates /\ b0 \notin Urls /\ tmeta[b0] # "saved"
    BY <1>4, Places, Against, BasesSplit
       DEF TemplateOpen, TemplateFlatten, TemplateMetaOpen, At, TemplateHolds
  <2>2. /\ image' = image /\ tmeta'[b0] # "saved"
        /\ \A t \in Templates : t # b0 => tdisk'[t] = tdisk[t] /\ tmeta'[t] = tmeta[t]
    BY <1>4, <2>1 DEF TemplateOpen, TemplateFlatten, TemplateMetaOpen, cacheVars, TypeOK
  <2>3. Steady
    BY <2>1, <2>2, BasesSplit DEF Steady, Held
  <2> QED
    BY <1>1, <2>3 DEF StoreStep
<1>5. CASE TemplateMetaWrite(p)
  <2>1. /\ b0 \in Templates /\ b0 \notin Urls /\ tmeta[b0] # "saved" /\ tdisk[b0] \in Whole
    BY <1>5, Places, Against, BasesSplit DEF TemplateMetaWrite, At, TemplateHolds
  <2>2. /\ tmeta' = [tmeta EXCEPT ![b0] = "saved"] /\ image' = image /\ tdisk' = tdisk
    BY <1>5 DEF TemplateMetaWrite, cacheVars
  <2>3. Held(b0) = "none" /\ Held(b0)' = tdisk[b0] /\ \A a \in Bases : a # b0 => Held(a)' = Held(a)
    BY <2>1, <2>2 DEF Held, TypeOK
  <2> QED
    BY <1>1, <2>1, <2>3, BasesSplit, Publishing
<1>6. CASE RmDisk(p)
  <2>1. b0 \in Templates /\ b0 \notin Urls /\ Dependents(b0) = {}
    BY <1>6, Places, Against, BasesSplit DEF RmDisk, At, TemplateHolds
  <2>2. /\ tdisk' = [tdisk EXCEPT ![b0] = "none"] /\ image' = image /\ tmeta' = tmeta
    BY <1>6 DEF RmDisk, cacheVars
  <2>3. Held(b0)' = "none" /\ \A a \in Bases : a # b0 => Held(a)' = Held(a)
    BY <2>1, <2>2 DEF Held, TypeOK
  <2>4. \A v \in VMs : StandsOn(v) # b0
    BY <2>1, BasesSplit DEF StandsOn, Dependents
  <2> QED
    BY <1>1, <2>1, <2>3, <2>4, BasesSplit, Discarding
<1>7. CASE RmMeta(p)
  <2>1. b0 \in Templates /\ b0 \notin Urls /\ tdisk[b0] = "none"
    BY <1>7, Places, Against, BasesSplit DEF RmMeta, At, TemplateHolds
  <2>2. /\ tmeta' = [tmeta EXCEPT ![b0] = "none"] /\ image' = image /\ tdisk' = tdisk
    BY <1>7 DEF RmMeta, cacheVars
  <2>3. Steady
    BY <2>1, <2>2 DEF Steady, Held, TypeOK
  <2> QED
    BY <1>1, <2>3 DEF StoreStep
<1> QED
  BY <1>2, <1>3, <1>4, <1>5, <1>6, <1>7

LEMMA Maps ==
  ASSUME IInv, [Next]_vars
  PROVE  StoreStep
<1>1. ASSUME UNCHANGED <<vm, image, tdisk, tmeta>>
      PROVE  StoreStep
  BY <1>1, SteadyCache, StillVms DEF StoreStep
<1>2. ASSUME NEW p \in Procs, CacheNext(p)
      PROVE  StoreStep
  <2>1. ASSUME NEW v \in VMs, NEW u \in Urls, NEW k \in {"qemu", "avf"},
               NEW c \in {TRUE} \cup {~n : n \in Unchecked}, CreateBegin(p, v, u, c, k)
        PROVE  StoreStep
    <3>1. c \in BOOLEAN
      BY DisksAssumption
    <3> QED
      BY <2>1, <3>1, BeginSteps
  <2>2. CASE \/ FetchLook(p) \/ FetchLock(p) \/ FetchRecheck(p) \/ FetchAnswer(p)
             \/ FetchEnd(p) \/ FetchFail(p)
             \/ FetchVerify(p)
    BY <1>1, <2>2 DEF FetchLook, FetchLock, FetchRecheck, FetchAnswer, FetchEnd, FetchFail, FetchVerify,
                      cacheVars, templateVars
  <2>3. CASE \/ RawLook(p) \/ RawLock(p) \/ RawRecheck(p) \/ RawEnd(p) \/ RawFail(p)
             \/ RawPublish(p)
    BY <1>1, <2>3 DEF RawLook, RawLock, RawRecheck, RawEnd, RawFail, RawPublish,
                      cacheVars, templateVars
  <2>4. CASE CleanScan(p) \/ CleanList(p) \/ CleanEnd(p)
    BY <1>1, <2>4 DEF CleanScan, CleanList, CleanEnd, cacheVars, templateVars
  <2> QED
    BY <1>2, <2>1, <2>2, <2>3, <2>4, VmSteps, BaseSteps DEF CacheNext
<1>3. ASSUME NEW p \in Procs, TemplateNext(p)
      PROVE  StoreStep
  <2>1. ASSUME NEW v \in VMs, NEW t \in Templates, TemplateBegin(p, v, t)
        PROVE  StoreStep
    BY <1>1, <2>1 DEF TemplateBegin, cacheVars, templateVars
  <2>2. ASSUME NEW t \in Templates, RmScan(p, t)
        PROVE  StoreStep
    BY <1>1, <2>2 DEF RmScan, cacheVars, templateVars
  <2> QED
    BY <1>3, <2>1, <2>2, BeginSteps, VmSteps, BaseSteps DEF TemplateNext
<1>4. ASSUME NEW p \in Procs, InstanceNext(p)
      PROVE  StoreStep
  <2>1. ASSUME NEW v \in VMs, EditBegin(p, v) \/ DestroyBegin(p, v)
        PROVE  StoreStep
    BY <1>1, <2>1 DEF EditBegin, DestroyBegin, cacheVars, templateVars
  <2> QED
    BY <1>4, <2>1, VmSteps DEF InstanceNext
<1>5. ASSUME NEW p \in Procs, Kill(p)
      PROVE  StoreStep
  BY <1>1, <1>5 DEF Kill, templateVars
<1>6. CASE UNCHANGED vars
  BY <1>1, <1>6 DEF vars
<1> QED
  BY <1>2, <1>3, <1>4, <1>5, <1>6 DEF Next

(* The cache and the templates, with their locks, part files, kills and    *)
(* torn configs, implement the store: a base appears whole, does not       *)
(* change while it is there, and does not go while a disk stands on it.    *)
THEOREM StoreRefinement ==
  ASSUME ~Overlap
  PROVE  Spec => ImplementsStore
<1>1. Init => Store!Init
  <2> SUFFICES ASSUME Init
               PROVE  Store!Init
    OBVIOUS
  <2>1. \A b \in Bases : Held(b) = "none"
    BY DEF Init, Held, Bases
  <2>2. \A v \in VMs : StandsOn(v) = "none"
    BY DEF Init, StandsOn, NoVm
  <2> QED
    BY <2>1, <2>2 DEF Store!Init
<1>2. IInv /\ [Next]_vars =>
        [Store!Next]_<<[b \in Bases |-> Held(b)], [v \in VMs |-> StandsOn(v)]>>
  BY Maps, Stuttering DEF StoreStep
<1> QED
  BY <1>1, <1>2, DisksInvariance, PTL DEF Spec, ImplementsStore, Store!Spec
=============================================================================
