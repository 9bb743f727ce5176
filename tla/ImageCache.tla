----------------------------- MODULE ImageCache -----------------------------
(***************************************************************************)
(* The image cache: `agv create` up to the VM's disk (ensure_cached,       *)
(* ensure_cached_raw and provision_disk), and `agv cache clean`.           *)
(***************************************************************************)
EXTENDS Disks

(* create: the directory, then the config, then the base image. *)
CreateBegin(p, v, u, c, k) ==
  /\ ~vm[v].dir
  /\ Begin(p, "create", "save", v, u)
  /\ vm' = [vm EXCEPT ![v] = Fresh(u, c, k)]
  /\ UNCHANGED <<cacheVars, templateVars>>

(* ensure_cached: the fast path needs no lock. *)
FetchLook(p) ==
  /\ At(p, "look")
  /\ Goto(p, IF image[Base(p)] # "none" THEN "disk" ELSE "lock")
  /\ UNCHANGED <<vm, cacheVars, templateVars>>

FetchLock(p) ==
  /\ At(p, "lock")
  /\ imageLock[Base(p)] = None
  /\ imageLock' = [imageLock EXCEPT ![Base(p)] = p]
  /\ Goto(p, "recheck")
  /\ UNCHANGED <<vm, image, part, raw, rawPart, rawLock, templateVars>>

(* No second look under the lock. *)
FetchRecheckBlind(p) ==
  /\ At(p, "recheck")
  /\ Goto(p, "request")
  /\ UNCHANGED <<vm, cacheVars, templateVars>>

(* Under the lock it looks again, and asks the server. *)
FetchRecheck(p) ==
  /\ At(p, "recheck")
  /\ IF image[Base(p)] # "none"
     THEN /\ imageLock' = Released(imageLock, p)
          /\ Goto(p, "disk")
     ELSE /\ Goto(p, "request")
          /\ UNCHANGED imageLock
  /\ UNCHANGED <<vm, image, part, raw, rawPart, rawLock, templateVars>>

(* send: only connecting has a timeout, so the headers of the answer may   *)
(* never come. When they do, a part file of its own is opened.             *)
FetchAnswer(p) ==
  /\ At(p, "request")
  /\ part' = [part EXCEPT ![p] = "some"]
  /\ Goto(p, "download")
  /\ UNCHANGED <<vm, image, imageLock, raw, rawPart, rawLock, templateVars>>

(* The server may send what the checksum does not fit. *)
FetchEnd(p) ==
  /\ At(p, "download")
  /\ \E b \in {"good", "bad"} :
       part' = [part EXCEPT ![p] = IF @ = "none" THEN "none" ELSE b]
  /\ Goto(p, "verify")
  /\ UNCHANGED <<vm, image, imageLock, raw, rawPart, rawLock, templateVars>>

(* No connection, an error in the answer; then a stall, or an error in the *)
(* middle: the part file is left.                                          *)
FetchFail(p) ==
  /\ local[p].at \in {"request", "download"}
  /\ imageLock' = Released(imageLock, p)
  /\ part' = [part EXCEPT ![p] = "none"]
  /\ Finish(p)
  /\ UNCHANGED <<vm, image, raw, rawPart, rawLock, templateVars>>

(* The digest of the part file is the one that the config names. *)
Fits(p) == part[p] = "good"

(* The checksum is only compared when the image is already there. *)
FetchVerifyLate(p) ==
  /\ At(p, "verify")
  /\ Goto(p, "rename")
  /\ UNCHANGED <<vm, cacheVars, templateVars>>

(* A mismatch downloads again instead of giving up, still under the lock. *)
FetchVerifyRetry(p) ==
  /\ At(p, "verify")
  /\ Goto(p, IF vm[Vm(p)].checked /\ ~Fits(p) THEN "request" ELSE "rename")
  /\ UNCHANGED <<vm, cacheVars, templateVars>>

FetchVerify(p) ==
  /\ At(p, "verify")
  /\ IF vm[Vm(p)].checked /\ ~Fits(p)
     THEN /\ part' = [part EXCEPT ![p] = "none"]
          /\ imageLock' = Released(imageLock, p)
          /\ Finish(p)
     ELSE Goto(p, "rename") /\ UNCHANGED <<part, imageLock>>
  /\ UNCHANGED <<vm, image, raw, rawPart, rawLock, templateVars>>

FetchRename(p) ==
  /\ At(p, "rename")
  /\ imageLock' = Released(imageLock, p)
  /\ IF part[p] = "none"
     THEN Finish(p) /\ UNCHANGED <<image, part>>
     ELSE /\ image' = [image EXCEPT ![Base(p)] = part[p]]
          /\ part' = [part EXCEPT ![p] = "none"]
          /\ Goto(p, "disk")
  /\ UNCHANGED <<vm, raw, rawPart, rawLock, templateVars>>

(* LocalQemuBackend::provision_disk: qemu-img refuses a base it cannot open. *)
Overlay(p) ==
  /\ At(p, "disk")
  /\ vm[Vm(p)].backend = "qemu"
  /\ IF image[Base(p)] = "none"
     THEN UNCHANGED vm
     ELSE vm' = [vm EXCEPT ![Vm(p)].disk = "overlay", ![Vm(p)].bytes = image[Base(p)]]
  /\ Finish(p)
  /\ UNCHANGED <<cacheVars, templateVars>>

(* LocalAvfBackend::provision_disk: ensure_cached_raw, again with a fast   *)
(* path, a lock and a second look; its part file has one name for all.     *)
RawLook(p) ==
  /\ At(p, "disk")
  /\ vm[Vm(p)].backend = "avf"
  /\ Goto(p, IF raw[Base(p)] # "none" THEN "copy" ELSE "rawlock")
  /\ UNCHANGED <<vm, cacheVars, templateVars>>

RawLock(p) ==
  /\ At(p, "rawlock")
  /\ rawLock[Base(p)] = None
  /\ rawLock' = [rawLock EXCEPT ![Base(p)] = p]
  /\ Goto(p, "rawrecheck")
  /\ UNCHANGED <<vm, image, part, imageLock, raw, rawPart, templateVars>>

RawRecheck(p) ==
  /\ At(p, "rawrecheck")
  /\ \/ /\ raw[Base(p)] # "none"
        /\ rawLock' = Released(rawLock, p)
        /\ Goto(p, "copy")
        /\ UNCHANGED rawPart
     \/ /\ raw[Base(p)] = "none" /\ image[Base(p)] # "none"
        /\ rawPart' = [rawPart EXCEPT ![Base(p)] = [by |-> p, of |-> image[Base(p)], bytes |-> "some"]]
        /\ Goto(p, "convert")
        /\ UNCHANGED rawLock
     \/ /\ raw[Base(p)] = "none" /\ image[Base(p)] = "none"
        /\ rawLock' = Released(rawLock, p)
        /\ Finish(p)
        /\ UNCHANGED rawPart
  /\ UNCHANGED <<vm, image, part, imageLock, raw, templateVars>>

(* convert_to_sparse_raw: the last chunk is written, or one cannot be read. *)
RawEnd(p) ==
  /\ At(p, "convert")
  /\ rawPart' = IF rawPart[Base(p)].by = p
                THEN [rawPart EXCEPT ![Base(p)].bytes = rawPart[Base(p)].of]
                ELSE rawPart
  /\ Goto(p, "publish")
  /\ UNCHANGED <<vm, image, part, imageLock, raw, rawLock, templateVars>>

RawFail(p) ==
  /\ At(p, "convert")
  /\ rawLock' = Released(rawLock, p)
  /\ Finish(p)
  /\ UNCHANGED <<vm, image, part, imageLock, raw, rawPart, templateVars>>

RawPublish(p) ==
  /\ At(p, "publish")
  /\ rawLock' = Released(rawLock, p)
  /\ IF rawPart[Base(p)] = NoPart
     THEN Finish(p) /\ UNCHANGED <<raw, rawPart>>
     ELSE /\ raw' = [raw EXCEPT ![Base(p)] = rawPart[Base(p)].bytes]
          /\ rawPart' = [rawPart EXCEPT ![Base(p)] = NoPart]
          /\ Goto(p, "copy")
  /\ UNCHANGED <<vm, image, part, imageLock, templateVars>>

(* clone_to: a copy of its own, which no longer needs the cache. *)
Copy(p) ==
  /\ At(p, "copy")
  /\ IF raw[Base(p)] = "none"
     THEN UNCHANGED vm
     ELSE vm' = [vm EXCEPT ![Vm(p)].disk = "copy", ![Vm(p)].bytes = raw[Base(p)]]
  /\ Finish(p)
  /\ UNCHANGED <<cacheVars, templateVars>>

(* referenced_cache_files: a config that cannot be read refers to nothing. *)
Referenced == {vm[v].base : v \in {w \in VMs : vm[w].cfg = "saved"}}

CleanScan(p) ==
  /\ MayBegin(p, "clean", None, None)
  /\ local' = [local EXCEPT ![p] = [Command("clean", "list", None, None) EXCEPT !.keep = Referenced]]
  /\ UNCHANGED <<vm, cacheVars, templateVars>>

Present ==
  {<<"image", u>> : u \in {w \in Urls : image[w] # "none"}}
    \cup {<<"raw", u>> : u \in {w \in Urls : raw[w] # "none"}}
    \cup {<<"rawpart", u>> : u \in {w \in Urls : rawPart[w] # NoPart}}
    \cup {<<"lock", u>> : u \in {w \in Urls : imageLock[w] # None}}
    \cup {<<"rawlock", u>> : u \in {w \in Urls : rawLock[w] # None}}
    \cup {<<"part", q>> : q \in {r \in Procs : part[r] # "none"}}

(* An image and its conversion are kept together; locks and part files are *)
(* in nobody's config.                                                     *)
KeptRawOnly(keep) == {"raw"} \X (keep \cap Urls)

Kept(keep) == {"image", "raw"} \X (keep \cap Urls)

CleanList(p) ==
  /\ At(p, "list")
  /\ local' = [local EXCEPT ![p].at = "delete", ![p].todo = Present \ Kept(local[p].keep)]
  /\ UNCHANGED <<vm, cacheVars, templateVars>>

(* A file that is gone by now is an error, and ends the sweep. *)
CleanDelete(p, file) ==
  /\ At(p, "delete")
  /\ file \in local[p].todo
  /\ LET kind == file[1]  key == file[2]
     IN /\ image' = IF kind = "image" THEN [image EXCEPT ![key] = "none"] ELSE image
        /\ raw' = IF kind = "raw" THEN [raw EXCEPT ![key] = "none"] ELSE raw
        /\ rawPart' = IF kind = "rawpart" THEN [rawPart EXCEPT ![key] = NoPart] ELSE rawPart
        /\ imageLock' = IF kind = "lock" THEN [imageLock EXCEPT ![key] = None] ELSE imageLock
        /\ rawLock' = IF kind = "rawlock" THEN [rawLock EXCEPT ![key] = None] ELSE rawLock
        /\ part' = IF kind = "part" THEN [part EXCEPT ![key] = "none"] ELSE part
  /\ local' = [local EXCEPT ![p].todo = IF file \in Present THEN @ \ {file} ELSE {}]
  /\ UNCHANGED <<vm, templateVars>>

CleanEnd(p) ==
  /\ At(p, "delete")
  /\ local[p].todo = {}
  /\ Finish(p)
  /\ UNCHANGED <<vm, cacheVars, templateVars>>

CacheNext(p) ==
  \/ \E v \in VMs, u \in Urls, k \in {"qemu", "avf"} :
       \E c \in {TRUE} \cup {~n : n \in Unchecked} : CreateBegin(p, v, u, c, k)
  \/ FetchLook(p) \/ FetchLock(p) \/ FetchRecheck(p) \/ FetchAnswer(p)
  \/ FetchEnd(p) \/ FetchFail(p) \/ FetchVerify(p) \/ FetchRename(p) \/ Overlay(p)
  \/ RawLook(p) \/ RawLock(p) \/ RawRecheck(p) \/ RawEnd(p) \/ RawFail(p) \/ RawPublish(p)
  \/ Copy(p)
  \/ CleanScan(p) \/ CleanList(p) \/ CleanEnd(p)
  \/ \E f \in Files : CleanDelete(p, f)
=============================================================================
