# agv in TLA+

agv keeps long-lived virtual machines for coding agents. It has no daemon: every
`agv` command is a process that reads files under the data directory, starts or
signals other processes (QEMU, forward supervisors, idle watchers), writes files and
ends. What is true of a VM is therefore spread over a status file, a pid file, a
socket, a snapshot inside the disk image, a shared SSH config and the processes on
the host, and any command may be killed, or meet a process that has just died,
between two of its steps. This directory models that state and those steps, checks
them with TLC on small instances, and proves the central facts with TLAPS for every
instance.

## 1. The system

State lives in files; the directory of a VM is `<data>/instances/<name>/`.

| component (source) | state | operations | talks to |
|---|---|---|---|
| lifecycle commands (`vm/mod.rs`, `vm/instance.rs`, dispatch in `lib.rs`) | `status`, `config.toml`, `error.log` | create, start, start --retry, stop (--force), suspend, resume, rename, config set, forward (which rewrites the configuration), destroy; every listing reconciles | all below, by calls |
| QEMU and QMP (`vm/qemu.rs`) | `pid`, `qmp.sock`, the `agv-suspend` snapshot in the qcow2, the pinned machine type in `config.toml` | choose and pin the machine, build the command line, spawn, wait for QMP, stop, force_stop, suspend | QEMU, by signals and QMP messages |
| provisioning (`vm/provision.rs`, `vm/instance.rs`) | `provision_state`, `provisioned` | run_first_boot, mark_provisioned, mark_broken_with_error | the guest, over SSH |
| managed SSH config (`ssh_config.rs`) | `<data>/ssh_config`, an Include line in `~/.ssh/config` | add_entry, remove_entry, install_include, remove_include | every command of every VM, by the shared file |
| locks (`locks.rs`) | `flock` on a sibling file | acquire_exclusive, drop | the SSH config, the image cache |
| idle watcher (`idle_watcher.rs`) | `idle_watcher.pid`, a counter in memory | spawn, stop, run | SSH probes; calls `vm::suspend` itself |
| port forwards (`forward.rs`, `vm/forwarding.rs`, `forward_daemon.rs`) | `forwards.toml`, saved forwards in `config.toml`, one supervisor process per forward | add, list, rm, reapply, apply at boot, stop all | ssh -L in a retry loop |
| image cache (`image.rs`, `raw_cache.rs`, `qcow2.rs`) | cached images, their raw conversions, partial files, the locks of each | ensure_cached, ensure_cached_raw, create_overlay, cache clean | the network, qemu-img, locks, the configs of all VMs |
| templates (`vm/template.rs`, `template.rs`) | `<templates>/<name>.qcow2` and `.toml`, the overlays that stand on them | template create, template rm, create --from | lifecycle, image cache |
| capacity check (`resources.rs`) | none: it sums what the VMs have | size parsing, check_capacity | create --start |
| configuration (`config.rs`, `images/`, `specs/`) | none (pure) | resolve image, spec, mixins, flags and labels into one configuration | create |
| backends and AVF (`vm/backend.rs`, `swift/avf-runner`) | `avf-runner.pid`, `avf-runner-config.json`, control socket, `disk.raw` beside `disk.qcow2` | start, stop, force stop, destroy on AVF, migrate-to-avf, backend cleanup, the lease search | the runner process, Apple's framework |
| the rest: SSH client, CLI, cloud-init, doctor, init, gui, interactive | none of their own | argument building, text, process I/O | |

What is hard here:

- **Interleaving.** The contract in `locks.rs:19-26` leaves two commands against one
  VM undefined, but listings reconcile (and so write), and the idle watcher is an
  agv process that reconciles every minute and suspends VMs on its own account.
  Commands against *different* VMs share one SSH config.
- **Crashes.** A Ctrl-C ends agv and not QEMU, which has a process group of its own.
  Files are truncated and rewritten in place.
- **Partial failure.** A boot, a QMP call, a first-boot step, a save can fail with
  everything before it already done.
- **Timeouts.** QEMU may ignore the power button, hang in its boot, or die at any time. Some waits have a
  deadline and some have none: an answer of QEMU's monitor, ssh and scp to a guest that accepted the
  connection, the headers of a download.
- **Order.** A pid file is written by the process it names, after its parent is gone.

What makes each component right:

- *lifecycle and QEMU*: a VM recorded as down is down; every QEMU is the one the
  pid file names; a saved session is resumed and never booted over, and on the machine it
  was saved under; nothing keeps pointing at a VM that is down; commands end.
- *provisioning*: a VM that counts as provisioned has every step behind it, in order;
  a retry goes on where the last run failed.
- *SSH config and locks*: one block per VM, and no VM's command touches another's.
- *idle watcher*: one per VM; no suspend before the whole grace window, nor when it is
  switched off; an unused VM is suspended in the end.
- *forwards*: every supervisor is listed in forwards.toml; a VM that is down has none;
  a bind port belongs to one forward.
- *image cache and templates*: an image in the cache is complete and verified; what a
  VM's disk stands on is not removed; an image is fetched once.
- *AVF*: a runner that lives is one the next command finds; the disk that is booted has
  the newest data, also after a migration that was killed; a runner nobody can reach ends.
- *capacity and labels*: VMs that boot fit the host; destroy takes what its selectors match.
- *configuration*: the child overrides the parent, a flag overrides both, the mixins of a layer apply
  once and in order (one that a layer and its parent both include applies for each of them), a cycle
  is an error and nothing else is taken for one.

## 2. Modules

| module | models | state of the work |
|---|---|---|
| `VmLifecycle` | one VM on the QEMU backend: commands, status, pid file, monitor, snapshot, QEMU processes | checked |
| `VmSession` | what that promises of the guest: absent, off, on, saved | refined by `VmLifecycle` |
| `Hardware` | the same VM with its saved configuration, the machine each QEMU was spawned with and the one the session was saved under | checked; refines `VmLifecycle` |
| `VmLifecycleProofs` | safety of the lifecycle, the session invariant and the refinement of `VmSession`, safety of the hardware | proved |
| `Provision`, `ProvisionProofs` | first-boot steps and their resumption | checked and proved |
| `SshConfig`, `HostEntries` | the managed SSH config under its lock; the atomic set of entries it implements | checked |
| `SshInclude` | the same, beside `doctor --setup-ssh` and `--remove-ssh`, which create the file without the lock | checked |
| `SshConfigProofs` | invariant and refinement, and what is left of both beside the doctors | proved |
| `IdleWatcher`, `IdleWatcherProofs` | watcher processes, their pid file, SIGTERM and auto-suspend | checked, safety proved |
| `Forwards`, `ForwardsProofs` | supervisors, forwards.toml, the saved forwards and the port file of an auto-forward | checked and proved |
| `Disks` | the files the next two share: instance directories, cache entries, part files, locks, template files; kills | |
| `ImageCache` | create down to the VM's disk, and `cache clean` | |
| `Templates` | template create, template rm, create --from | |
| `DiskStore`, `BackingStore` | the three together, and what they promise of a base image | checked |
| `DiskStoreProofs` | invariant and refinement of `DiskStore` | proved |
| `AvfRunner` | the runner process of the AVF backend | |
| `AvfBackend` | agv's commands on that backend, the move to it and the sweep after it | |
| `AvfVm`, `AvfVmProofs` | the two together | checked, safety proved |
| `Calls` | a call that walks lists, an element per step | |
| `ConfigLayers`, `ConfigResolution` | the layers of a configuration; build_from_cli as a walk over them, against what it should refuse and compute | checked |
| `Labels`, `HostCapacity`, `LeaseLookup`, `MachineHelp` | what one element of a list does to what was found so far: label selectors, memory sums, leases, lines of `-machine help` | |
| `Scans` | the calls that walk such a list, an element per step, against what they should compute | checked |
| `PureFunctions` | one call of these or of the resolution of a configuration | checked |
| `PureFunctionsProofs` | the resolution, for catalogues of any size and depth; the four other calls, for lists of any length | proved |
| `MC...` | the instances TLC checks | |

`VmLifecycle` keeps one bit each for forwards, watcher and Host entry and a
three-valued progress for provisioning; `Provision`, `SshConfig`, `IdleWatcher` and
`Forwards` open those up. The last two keep two or three variables for the VM in turn.
`DiskStore` puts one variable, `vm`, under the cache and the templates; `AvfVm` puts the
commands and the runners on the same directory. The definitions called `...Fault` are each
an operation with one plausible bug in it, and are not part of any specification: with the
fault in place of the operation, the run that names it in PROJECT.json fails.

### How the models correspond to the code

*VmLifecycle.* `status`, `pidFile`, `socket` are the files of those names; `qemu` is
what the host runs, `load` which processes were given `-loadvm`. `snapshot` is
`current` after savevm, `stale` once resumed (the snapshot stays in the image and is
no longer the state of the disk), `lost` when the disk was booted without it.
A command is `pc[c]`, its kind `op[c]`, the status it read `seen[c]` and the pid it
read `pid[c]`: state kept across an await is a local variable, and acting on it later
is a separate action. So `reconcile_status` is four actions (`ReadStatus`,
`ProbeProcess`, `ReapStatus`, `ReapFiles`), and a start is `Spawn`, `BootReady`,
`MarkRunning`, `SshReady`, ... with QEMU's own steps (`QemuListens`, `QemuServes`,
`QemuGivesUp`, `QemuExits`) between any two. A `Killed` command leaves everything as it is. The
disk's write lock, which QEMU takes, is in `QemuServes`. QEMU is spawned by one step (`Spawn`) and its pid
written by the next (`RecordPid`, or `RecordPidFails`); a suspend sends savevm, QEMU completes the snapshot
(`SaveVm`), and only then does the answer come (`SaveVmReply`) or fail to come, or tell of an error
(`SaveVmFails`, before or after the snapshot is complete). `MarkBroken` rewrites the provisioning state to record
the error in it: a write that fails, or reads a state that does not parse, leaves the VM without its progress
(`fresh`) or with what it had; a first boot that is complete has its marker and stays so. `UpdateForwards` is the write of `agv forward`.

`LoadFails` is a command that finds the
configuration unreadable, or an edit whose disk would not grow, and ends.

*Hardware.* `config` is `config.toml`: the size (memory and vCPUs) and the pinned machine, or
`None` when it is absent or torn. `args[p]` is the machine part of QEMU's command line, made
of the configuration and of whether the host has KVM (`PlatformArgs`); `saved` is what the
session was saved under. Each action is the one of `VmLifecycle` with its effect on these:
`PinMachine` is `ensure_machine_type` (a version the host's QEMU has at that moment, saved
before the boot), `EditMachine` the save in `config_set`. `agv forward` rewrites the file with the hardware as it is, whatever
the status of the VM (`persist`). A kill or a failure inside
any of these saves leaves the configuration whole or torn (`Torn`, `Rewrites`).

*Provision.* `saved` is `provision_state` (`None`: absent, or does not parse),
`marker` the legacy `provisioned` file, `done` the effects in the guest. The loops over
files, setup and provision steps are one loop over places `<<phase, index>>`;
`NextFrom` says where the run goes from a saved place. A write may be torn.

*SshConfig.* `file` is the set of Host blocks, `text[c]` the new contents that command
`c` has computed from what it read. Writing is `Truncate`, then `Write`. `SshInclude` adds
the user's own config (whether it has the Include block), whether the managed file exists,
and doctors, who look for that file in one step and create it, empty, in another.

*Forwards.* `runs` is the forward each live supervisor process is for, `listed` is
forwards.toml, `saved` the forwards in config.toml, `portFile` the file of the auto-forward.
Commands are alone, so a command is one `pc` with its arguments (`args`, `temporary`), the
list it holds in memory (`active`) and what it has yet to spawn (`todo`). Spawning and writing
the list are separate steps, as are writing `stopped` and killing (`OpenDead`, `Reap`), and the live and
the saved half of add and rm. A boot with no saved forwards takes `ApplyNone`, which
forgets the list without killing anybody; that this is harmless is part of what is proved.
Both files are truncated and rewritten in place: `CutList` and `CutConfig` are a kill, or a failure, inside
the write, after which the file does not parse (`torn`) or parses without some of what was in it. Of a list
that does not parse nobody is read and nobody killed, and the commands that need one of the files refuse
(`Accepted`). `Killed` is a kill anywhere else. `stray` has the supervisors that a kill left behind in
no readable list, `cut` says that one took forwards out of `config.toml`. The port of an auto-forward is *any*
port (`AutoSpawn`): it is chosen by a bind test, and a supervisor listens only while its ssh is connected.

*IdleWatcher.* `pc[w]` is where watcher `w` is in `idle_watcher::run` or in
`vm::suspend`, which it calls; `unmasked` is the time between writing the pid file and
installing the SIGTERM handler. `signalled` is a SIGTERM that the `select!` has not
seen. Time is the sequence of polls. `quiet` is a history variable: conclusive idle
polls since this boot, the last activity or the last host wake, whoever counted them.

*Disks, ImageCache, Templates.* A file's contents are `some` of the bytes (being written, or
left behind), or all of them, `good` or `bad` by the checksum. `vm[v]` is an instance
directory: its config and what image that names, its disk (an overlay or a copy), what the disk's
bytes are. A create is the directory, the config, then `ensure_cached` (fast path, lock, second
look, request, download, verify, rename), then for AVF `ensure_cached_raw` with its own lock, then the
overlay. `cache clean` reads the configs, lists the files it will keep and deletes the rest one
by one, each a step. A template is made by the names' check, the conversion and the metadata,
and removed by the scan for dependents, the disk, the metadata. `local[p]` is a process's
command, its place and what it carries; `Kill` may take any process anywhere, leaving files and part
files, and releasing the locks, which the kernel does. `request` is the wait for the server's headers, with the lock
held; it ends in an answer (`FetchAnswer`) or an error, or never.

*AvfRunner, AvfBackend.* `phase[r]` is the runner's life (spawned, bound, booted, ended),
`asked` the ones whose guest was asked to shut down, `socket` who bound the control socket,
`present` whether the config file that a runner polls for is there. On agv's side `pc`, `op` and `pid`
are the one command under way, the file states are `status`, `pidFile` and `backend`, and
`disk` and `newest` say of `disk.qcow2` and `disk.raw` how much there is and which of them has
what the guest wrote last. A save of `config.toml` is two steps, with the file cut (`torn`) in between: `Flip` and
`FlipEnds` of a migration, `Edit` and `EditEnds` of `agv forward` and `config set`. A config that is cut
cannot be read, and `destroy` then removes the directory without asking the runner. The shutdown request, the wait for the runner's exit, SIGTERM and
SIGKILL are steps between which the runner runs on.

*The pure functions.* In `Calls`, `pass` is the loop a call is in, `at` the element that comes next and
`out` what it has put together. The resolution of a configuration recurs in the code, twice: `resolve_inner`
over the parents of a layer, `apply_includes` over the mixins that a layer, or a mixin, includes. In
`ConfigResolution` it is a walk. `chain` holds the nested calls of `resolve_inner`: it grows until a layer has
no parent (`FollowFrom`, `RootImage`), then `at` comes back along it, each layer's scalars going over its
parent's (`MergeChild`) and its lists behind (`ApplyOwn`). `stack` holds the nested calls of `apply_includes` for
the layer at `at`, `reached` where the loop of each of them is; its domain is the set `seen` of the code,
with the layer itself, so that a mixin that is there is refused (`Include`), and what a mixin
adds comes when its own includes are through (`Contribute`). Each layer has a `seen` of its own, so a mixin of a
layer and of its parent applies for both. Spec, variables, labels and the arguments follow. The refusals are those of the code:
an unknown layer or mixin, a cycle, a duplicate auto-forward, an auto-forward's name that is not one (`BadNames`), a size
that does not parse (`BadSizes`), a backend that does not exist or cannot be had, a `--file` without its colon. An error ends the
call, so it is the first in the order the code meets them.

`Labels` follows the parsing and the map that is built from it, `HostCapacity` the
multiplication and addition in words of `Word`, `LeaseLookup` the comparison of times in the loop
over the leases, `MachineHelp` that of versions. In `Scans` `destroy --label` goes through
its selectors, the VMs, the prompt and the VMs it destroys, any of which may fail; the lease search
looks for the hostname and, if there is none, for the MAC; the machine type is looked for
first on the alias's own line and then among the versions.

## 3. Runs

| run | instance | checks | result |
|---|---|---|---|
| `contract` | one command at a time, two pids, all thirteen commands, `agv forward` and a listing among them, kills at every point but the fragile ones of section 4, fair steps | `StoppedMeansDown`, `NoUnmanageableQemu`, `SavedSessionIsResumable`, `NoStaleEndpoint`, `RunningMeansProvisioned`, `CommandsEnd`, `ImplementsSession`; of `Hardware` (2 sizes, 2 machine versions, a host with or without KVM) `ResumesOnItsMachine`, `SuspendedKeepsItsMachine` | hold |
| `provision_faults` | 2 files, 0 setup, 3 provision steps; failures, kills everywhere, torn writes | `ProvisionedMeansDone`, `InOrder`, `MarkerHolds` | hold |
| `ssh_config_shared` | 3 commands, 2 VMs, 2 ports, 2 doctors | `OneBlockPerVm`, `ImplementsEntries` | hold |
| `idle_serial` | 2 watchers, threshold 2, commands and auto-suspends do not overlap, no QEMU exits by itself while it has a watcher | `OneWatcher`, `StatusHolds`, `GraceWindow`, `DisabledMeansNever`, `UnusedIsSuspended` | hold |
| `forwards` | 3 supervisors, 1 port, 2 addresses, three named forwards on it (two that share no address, one with both addresses) and an auto-forward, up to 2 per command; kills and failures everywhere, also inside both files' rewrites | `NoOrphan`, `DownMeansNone`, `BindsDisjoint`, `DeclaredIsSaved` | hold |
| `disks` | 2 processes, 2 VMs, 1 image, 1 template; kills and failures everywhere; `cache clean` and `template rm` run alone | `BackingKept`, `MadeOfWholeBytes`, `FetchedOnce`, `ImplementsStore` | hold |
| `disks_wait` | the same without templates, and fair: two creates at one lock | `WaitersProceed` | holds |
| `avf` | 3 runners, every command, kills outside `Fragile`, those inside a migration's save among them, fair | `NoLostRunner`, `DiskIsNewest`, `CommandsEnd`, `OrphanEnds` | hold |
| `algorithms` | every call over small catalogues, command lines, fleets, hosts, lease files and machine listings | `RefusesExactly`, `LayersInOrder`, `CliPrecedence`, `DestroysWhatMatches`, `BootsWithinHost`, `FreshestLease`, `PinsTheNewest` | hold |
| `list_suspend` | a suspend and a reconcile at the same time | `SavedSessionIsResumable` | violated |
| `avf_two_runners` | 2 runners, nobody is killed | `OneRunner` | violated |
| `destroy_labels` | as `algorithms` | `FiltersAndTogether` | violated |

The violated ones state what a comment or a document of the repository says, quoted
with its place under `findings` in PROJECT.json, and TLC's trace is how the code comes
to do otherwise. Type invariants and the inductive invariants of section 5 are in no run of
their own: TLC was used to find them (each `IInv`, `SInv` and `HwInv` holds in the instance of its
run), and they are theorems since.

Four more configurations are kept beside these. Three show what is lost when an assumption
of section 4 is dropped, and the last a second place where the code does not do what its documents say
(`error.rs:87` calls the error a circular include, `docs/config.md:57` says that includes accumulate);
`tlc -config <file>.cfg <module>` ends in a counterexample:

| configuration, module | what happens | violated |
|---|---|---|
| `Provision_ssh_lost.cfg`, `MCProvision` | a retry's SSH wait fails after the saved place was overwritten | `NeverGoesBack` |
| `SshConfig_setup_race.cfg`, `MCSshConfig` | a doctor finds no managed file, an add writes it, the doctor creates it empty | `ImplementsEntries` |
| `DiskStore_overlap.cfg`, `MCDiskStore` | `template rm` or `cache clean` beside a clone or a create | `BackingKept` |
| `PureFunctions_diamond.cfg`, `MCPureFunctions` | a mixin that is reached on two ways is refused as circular | `CircularMeansCycle` |

With `SPECIFICATION FairSpec` and `PROPERTY CallsEnd` in `PureFunctions_all.cfg` TLC finds that in that instance every call
returns, also where layers include or derive from one another in a circle, if a call goes on,
which it does: it waits for nothing but an answer to the prompt of destroy. `SshConfig_setup_race.cfg` passes
with `PROPERTY OnceSetUp` in the place of `ImplementsEntries`.

What else is lost without an assumption shows with one line changed in a configuration that passes:

| change | what happens | violated |
|---|---|---|
| `EditLiveBroken = TRUE` in `VmLifecycle_contract.cfg` | `config set` on a broken VM that is up records `stopped` | `StoppedMeansDown` |
| `CrashAt = {"running"}` there | killed between QEMU's readiness and the write of `running` | `StoppedMeansDown`, then `NoUnmanageableQemu` |
| "persist" among the points of `CrashAt` there | `agv forward` on a suspended VM is killed inside its write | `SuspendedKeepsItsMachine` |
| `INVARIANT ConfiguringOnlyDuringEdit` there | `config set` with a refused value leaves `configuring` behind | `ConfiguringOnlyDuringEdit` |
| `Outlive = TRUE` in `IdleWatcher_serial.cfg` | a watcher outlives its VM, then auto-suspend is switched off | `DisabledMeansNever` |
| "edit" among the points of `CrashAt` in `AvfVm_commands.cfg` | `agv forward` or `config set` is killed inside its save: the VM boots from no disk, and if it runs, destroy leaves its runner | `DiskIsNewest`, `NoLostRunner` |
| `INVARIANT StoppedHasNoPortFile` in `Forwards_serial.cfg` | a guest powers off by itself, any command reconciles, the port file stays | `StoppedHasNoPortFile` |

**Bounds.** One command in `contract`: under the contract commands against a VM follow
one another, so a second identity would only repeat the first, and "read by one
command, written by the next" is still in it, because a killed command leaves its files
to its successor. Two pids are a QEMU that is up and one that a retry boots beside it;
pids are reused as soon as they are free. Two sizes and two versions are what was saved and something
else; the platform is the one whose command line depends on the host's state (KVM). Two files, no setup and three provision steps
are a phase with a next step, one that is passed over and a last one. Three commands on
the SSH config are a holder, a waiter and one that died; two VMs are one's own and
another's; two doctors are one that looked before and one after the other created the file.
Two watchers are the watcher of the last boot and the one of this boot; a
threshold of two polls is the least at which a count can be kept, reset or come early.
In `forwards`, three forwards on one port are all the ways two lists of addresses can
relate (equal, disjoint, overlapping), the auto-forward may get that port too, as the host's bind test allows
while nobody listens on it (forwards on two ports never clash, and the theorems are for any set of
ports), and three supervisors are two of one command beside an earlier one. `MaxList`
bounds a command's list, not what several commands add up to. In `disks`, two processes are
one that works and one that comes in between; two VMs are one that stands on a base and one
that is being made from it, or from a template made of it; one image and one template suffice because the
code never relates two of a kind (processes and VMs are interchangeable, which `Symmetry`
says, as are the supervisors of `forwards`; the liveness run does not use it, and leaves out the templates, which take no lock).
Three runners are one that was given up, the one in use and one to come. In `algorithms` the
catalogues have up to three mixins in every way of including one another, an image that derives from another, and
layers that set, or leave, every field that is resolved, with sizes and names that do not parse; lists have up to three elements, which the theorems do not bound; sizes are in words of 8 bits with units of
1, 4 and 16 bytes, so that products and sums wrap.
There are no counters in these models that had to be cut off: `quiet` stops at
`Threshold`, above which no watcher looks.

**Deadlock** is checked in every run but those of `PureFunctions`, whose behaviours are one
call long.

**Fairness.** `FairSpec` of `VmLifecycle`, and `HwFairSpec`, which asks the same of the same steps with
their hardware: a command that was issued and does not wait takes its next step
(weak fairness of `~Waits(c) /\ Step(c)`; it is a process the host schedules). Nothing is assumed of
QEMU, of the guest or of a server. `Waits` are the points at which the code waits without a deadline:

- a QEMU that holds the monitor's socket and does not answer, in `await`, `powerdown`, `savevm`, `saved` and `quit`:
  `read_response` (`vm/qemu.rs:277-297`) has no timeout, nor has the greeting (`:225`), and `wait_for_qmp_ready`
  looks at its deadline only between connections (`:982-985`);
- an ssh or scp to a live guest that accepts the connection and says no more, in `ssh` and `first_boot`
  (`ssh.rs:95-130`, `198-255`), and
- the download that `create` may be in, in `prepare` (`image.rs:400-412`).

`CommandsEnd` says that a command ends or is for ever in one of these; what does have a deadline, a guest that
ignores the power button, a quit that is not honoured, a QEMU that never listens, holds nobody up.
Tools that agv runs on local files (`qemu-img`, `-machine help`) are assumed to end.
`FairSpec` of `IdleWatcher`:
a watcher goes on through its loop (weak), and a guest that is probed again and again
answers at last, as does a QEMU that is asked again and again to save (strong; without it a
guest whose sshd never answers stays up, which is what the code means to do). That each single probe comes
back, with an answer or an error, is assumed as well: the ssh of a probe has no timeout of its own (`idle_watcher.rs:253-262`).
`UnusedIsSuspended` makes an exception for a host that goes to sleep again and again.
`FairSpec` of `DiskStore`: a process that is not killed goes on once the server has answered (a body that stalls becomes an error
after `CHUNK_STALL_TIMEOUT`), and the kernel grants a lock that becomes free again and again
(strong fairness of the two lock steps; `flock` wakes its waiters). The request itself has a timeout for the
connection and none for the headers, and is made with the lock held: no fairness is asked of `request`, and
`WaitersProceed` excepts a process that is there for ever.
`FairSpec` of `AvfVm`: agv's command goes on unless it is in `ssh` (`Waits`, as above): socket, state, exit and signals
each have a deadline. A runner
binds or fails, its poll of the config file fires, and it exits once its guest is down. Nothing
makes a guest shut down when it is asked to.

## 4. What holds, and up to where

**The contract.** `Contract` in `VmLifecycle` names what the lifecycle rests on: no
listing overlaps a command, nobody edits a broken VM that is up, and no command is
killed at `record`, `await` or `running`, between spawning QEMU and recording it. `Sturdy` adds
the points at which a kill leaves work that the next command does not recognise. They
were found by letting TLC kill at one point at a time:

| killed at | what it leaves | property lost |
|---|---|---|
| `record` | a QEMU that no pid file names, or one under another's pid | `StoppedMeansDown`, `NoUnmanageableQemu` |
| `await`, `running` | a QEMU under a status that denies it | `StoppedMeansDown`, `NoUnmanageableQemu` |
| `first_boot`, `broken` | `running` with the first boot unfinished: start says it runs, --retry wants `broken` | `RunningMeansProvisioned` |
| `quit`, `waitexit`, `kill`, `settle` | a saved session under `running`; the next reconcile makes it `stopped`, the next start boots over it | `SavedSessionIsResumable` |
| `sweep`, `unentry` | a Host entry (and supervisors) of a VM that is down | `NoStaleEndpoint` |

At the other twenty-two points a kill breaks none of these. In `Provision`, a kill at `wait`, `step`
or `complete`, or a torn write, can cost progress (`NeverGoesBack`), and no kill anywhere
makes an unfinished VM count as finished.

**The hardware.** That a session comes back on its machine rests on four things in the code: the pin
is saved before QEMU is spawned, `config_set` refuses a suspended VM, load errors stop a start before it
writes anything, and a configuration is written only while no session depends on it. The last is
not true of `agv forward`, which rewrites the configuration in place whatever the VM's status. A kill inside that write
leaves a configuration that no command can load: a suspended VM cannot be resumed until somebody repairs the file by hand; a running one can be neither stopped
nor suspended, and `destroy` then skips the kill of its process (`vm/mod.rs:1689-1693`). `HwSturdy` is `Sturdy` without
that kill (`persist`), and the two properties of `Hardware` are proved under it; those of `VmLifecycle` need no
more than `Sturdy`. Two commands that overlap,
which the contract excludes, may lose a pin. A QEMU spawned without KVM on a host
that should have it does not come up, which `HwBoots` says of QEMU. The EFI code image is the host's at
each start and is not pinned.

**The SSH config.** A kill between truncating and writing loses the entries of all VMs until
each boots again; `OneBlockPerVm` still holds, and `ImplementsEntries` is stated for kills
outside that step (`CrashInWrite`). `install_include` does not take the lock: if the first
add of all falls between its look and its write, the added entry is lost. `SetupAnytime` FALSE is the
world of the run, in which it does not. With it TRUE `ImplementsEntries` is violated
(`SshConfig_setup_race.cfg`), and two things are left, both checked there and proved: one block per VM at all times, and
`OnceSetUp`: from the moment the file exists, no doctor that missed it is left and no command works on what
it was before, the entries are atomic, whatever raced until then.

**The watcher.** The contract of `locks.rs` does not say whether an auto-suspend is a
command, and nothing keeps it from overlapping one. `Serial` is the reading in which it is.
Which property needs what:

| | `Serial`, not `Outlive` | `Serial`, `Outlive` | not `Serial` |
|---|---|---|---|
| `OneWatcher`, `GraceWindow`, `DisabledMeansNever` | hold | violated | violated |
| `StatusHolds` | holds | holds | violated |
| `UnusedIsSuspended` | holds | holds | holds |

`Outlive` says whether QEMU may exit by itself while it has a watcher or is about to be given
one. With a power-off the watcher of the last boot lives on with its VM down, because only a stop, a
suspend, a destroy or the next *watched* start ends it. With overlap, a stop that comes
while a watcher has hidden its pid file (`HidePidFile`) signals nobody; the suspend is
then refused and the watcher writes its pid file back and stays.

**The forwards.** forwards.toml is the only one that knows a supervisor's pid. A command may be killed at any
point, also inside the write of forwards.toml or config.toml. What the four properties say is said of
the supervisors that no kill left behind (`Ours`); `stray` are those that one did:

| killed at | what it leaves |
|---|---|
| `apply`, `autolist`, `list` | the supervisors spawned and not yet written to the list |
| inside the write of the list | every supervisor that the cut file does not have. If it does not parse it has none, and `kill_all_and_clear` kills nobody (`forward.rs:520-523`), nor does any later stop; the next boot writes the list anew, without them |
| `reap` | every supervisor of a VM that is recorded as stopped: `reconcile_status` wrote the status first, and no later one looks |

Nothing later finds one that is in no readable list; it keeps its port until it dies, and the next boot's forward on
that port does not come up. Those of `reap` are listed still: the next boot kills them, or forgets them if it has no forwards
to apply. A write that fails leaves what a kill inside it leaves. A cut config.toml that does not
parse keeps `stop` from asking any backend, and `start`, `add`, `rm` and `config set` refuse; one that parses saves fewer forwards
than are live until the next boot (`cut`, which `DeclaredIsSaved` excepts). An auto-forward is given a
port by a bind test alone (`forwarding.rs:571`): a supervisor of a configured forward that is not connected at that
moment does not hold its port, and both are then after one port. `BindsDisjoint` says that no other two are. The reconcile path does not remove port
files; a port file also outlives its forward when the user removes
an auto-forward with `agv forward --rm`. `BindsDisjoint` is about equal addresses, as
`bind_keys` is: a wildcard and a loopback forward on one port count as different, and the
supervisor's ssh finds out.

**Disks.** Everything that overlaps is safe but the two commands that remove things:
`Overlap` says whether `cache clean` and `template rm` may run beside others. If they do, a
base goes between somebody's look at it and the overlay on it, and `cache clean` deletes the
lock and part files of work that is under way. Kills are allowed everywhere. `BackingKept` is about
VMs whose config can be read: an edit that is killed inside its write leaves a config that names
no image, `cache clean` passes over it, and the VM loses its base. `Unchecked` is the set of creates with
`--no-checksum`. With it a bad image gets into the cache, and a later create *with* a
checksum takes it from there, because the fast path does not verify (`image.rs:38-42`);
`MadeOfWholeBytes` is stated for what the config asks for, and `DisksAreWhole` for
`Unchecked = {}`. A server that accepts a connection and sends no headers holds the lock of its image for ever (section 3).

**AVF.** `Fragile` in `AvfVm` is the stretch of a start from its spawn to the status, killed in which
it leaves a runner that no command looks for, under `stopped`; and `edit`, the save of `agv forward` and `config set`, killed in
which it leaves a config that cannot be read: the VM boots from nothing until it is repaired, and if it runs, stop
cannot ask its runner and destroy removes it without. `NoLostRunner` counts a
runner that was told to end as found, because a start that gives up sends one SIGTERM and forgets the
pid (`vm/backend.rs:463-480`); `OneRunner`, which does not, is violated
(`avf_two_runners`). The old runner also unlinks the control socket when it exits at last
(`main.swift:835`), by then a later runner's. A migration may be killed anywhere. `DiskIsNewest` says that
the VM then boots from what the guest wrote last; or, killed inside the save that turns the backend (`flipping`), from neither
disk, because its config is cut, and that both disks then have all the guest wrote, so that whoever repairs
the config loses nothing either way.

**The algorithms.** `RefusesExactly` takes a mixin that is reached twice for a fault, as the code
does; that the error's name and the documentation say otherwise is what `PureFunctions_diamond.cfg` shows.
Within that, `LayersInOrder` and `CliPrecedence` hold; the latter says, as the code does, that memory
comes from a spec before it comes from an image the config derives from. The model names a step by its
layer and leaves out the tag that `agv` shows beside it, which provision steps for an
os_family lack when that family has no setup steps (`config.rs:1256-1265`). The filters of `destroy --label` go into a map by key, and so "multiple `--label` filters AND together"
(`cli.rs:374`) does not hold of two that name one key: the last of them counts, or the bare one
(`lib.rs:215-218`), and VMs are destroyed that pass only one. That is the violation `destroy_labels`. `DestroysWhatMatches` says
what does hold: every VM that passes all the filters is taken, and no other if no key is named twice. `BootsWithinHost` is stated for sizes whose product fits in 64 bits;
`17179869184G` wraps to 0 bytes in a release build and passes. A broken VM whose QEMU is up is not
counted by `probe_allocated`: `Committed` is what the code counts.

## 5. Proofs

All are for every value of the constants, under the assumptions named. Liveness is outside the prover's reach: `CommandsEnd`, `OrphanEnds`, `UnusedIsSuspended` and
`WaitersProceed` are only model-checked. Every other property of a passing run is a theorem; `ImplementsEntries` is one of `Spec`, the commands
alone, and beside the doctors (`SharedSpec`, which the run checks without the race of the first setup) `OnceSetUp` is. What a recursive definition
computes for every input is out of reach as well, and for that reason the recursion of the code is a
walk in `ConfigResolution`, with its stack as a variable. That the walk ends, on a circular catalogue too, is liveness again (`CallsEnd` of `PureFunctions`, section 3).

*VmLifecycle.* `Typing` is type correctness. `StoppedIsDown` and `QemuIsManageable` need
`IInv`: neither property is inductive, because a command in the middle of its work knows
things that are nowhere on disk. `IInv` adds that commands are alone
(`OneAtATime`), that what a command has read is still so (`SeenHolds`), at which points no
QEMU exists (`DownAt`), at which the only one is the pid a command holds (`KnownAt`), and
that a QEMU under a status that denies it belongs to a boot under way (`BootUnderWay`). The
proofs have one step per action.

`SInv` extends it for the rest: which commands reach a point (`OpAt`), the status on disk
there (`StatusAt`), who is responsible for an unfinished first boot
(`FirstBootUnderWay`), for a saved session whose status does not say so yet
(`SessionHeld`), and for Host entries and supervisors (`EndpointsHeld`). From it follow
`SuspendedIsResumable`, `RunningIsProvisioned`, `NothingPointsAtIt` and the refinement:
`SessionState` maps files and processes to one of four words, and each step of a command,
of QEMU or of the host is a step of `VmSession` or a stutter (`Refinement`).

*Hardware.* `HardwareRefines`: with the hardware hidden, `HwSpec` is `Spec`, so `SInv` holds of it too.
`ResumesOnItsMachineTheorem` and `SuspendedKeepsItsMachineTheorem` follow from `HwInv` on top of
`SInv`, under `HwSturdy`. Neither is inductive. `HwInv` adds that the configuration can be read and is pinned
whenever a QEMU is up, is being brought up or is to be brought back (`InUse`), that every live QEMU was
spawned with what that configuration says, whatever KVM was at the time, and that it is *up* only
with the machine's own options; and that what was saved is that machine for as long as there is a session
to go back to (`SessionKept`) or one that has just been loaded. An edit cannot come in
between because `config_set` refuses a VM that is up or suspended, which is `StatusAt`'s
part, and a pin that fails or is killed tears only the configuration of a VM that was never booted.

*Configuration.* The only assumption is that layers and arguments are well formed
(`ResolutionAssumption`: each layer has its fields, and nothing is called `Top` or refers to it). The properties speak
of the layers as a graph, by what is in every set that is closed under `from` or `include` (`Above`, `Mixins`);
the walk knows a stack and what it has seen. Between the two stand the lemmas on `Chain`, `Mixins` and `Nearest`
(what lies on a chain that ends in a root is `Chain`; a layer with a parent overrides field by field), and a group of invariants,
each inductive on top of those before it:

- `Climbing`: `chain` is a path along `from`, without repetition, and from the moment `at` comes back along it
  it ends in a root with an image and a family.
- `Scalars`, `Labels`: what has been merged so far has, field by field and label by label, the value of the
  nearest layer at or above `at` that sets it. `CliPrecedenceTheorem` is this at the end.
- `Visiting`: every mixin on the stack is included by the one below it; one that has left the stack has all it
  includes finished; and every place of an include was read once. So what has been seen when the stack
  is empty is `Mixins`, and a mixin that is met again has two places that include it.
- `Checked`, `AutosApart`: the layers and mixins that are finished have no fault, and no two of them an
  auto-forward in common. `RefusalsHold` says the converse of each refusal: the fault is one the catalogue has.
  Together they are `RefusesExactlyTheorem`.
- `Laying`: each finished layer has a place in the list of steps, after its parent's; the steps between the two
  are its mixins' in order; and behind the last such place the same holds of the mixins
  finished so far and for the includes that have been read. The last is claimed of a layer without a fault (in one that
  includes a mixin twice there is no such order), which `Checked` knows every finished layer to be.
  `LayersInOrderTheorem` is this for the whole chain.

*Scans.* Loops and not recursion: with one element per step, what a walk has found so far is a state, and
induction over the list becomes the invariance of a statement about the elements before `at`.
`LeaseHolds` and `MachineHolds` say that the best so far is
the best of those elements, in each of the two passes, and that the first pass found nothing when the second is
under way. `BootHolds` says that the sum so far is the true sum of the elements so far, capped at the largest word
(`AddedUp`, by the function of prefix sums), as long as each element by itself fits in a word:
capping never makes the check admit what the true sum would refuse. `DestroyHolds` relates the map of selectors to the
list it comes from, the VMs chosen to that map, and the VMs gone or failed to those chosen. The
theorems are stated of the `Spec` of `PureFunctions`, which the run checks, for lists of any length.

*Provision.* `Progress`: what lies before the saved place, and before the cursor of a
run, has been done. `NothingIsMissed`, `StepsAreOrdered` and `MarkerIsEnough` follow
without any assumption on failures, kills or torn writes. `RetryResumes` is
the converse (`Frontier`: nothing after the place has been done) and needs `Steady`: SSH
comes back, and nothing is killed while the file says ssh_wait.

*SshConfig.* `Sound`: who is past `Acquire` holds the lock, and what the holder will write
has one block per VM. `IInv` adds that it is the file with its own block changed (`TextFollowsFile`). `OneBlock` holds with kills
anywhere; `EntriesAreAtomic` is the refinement of `HostEntries`, without kills in the write, for any number of
commands and VMs. Beside the doctors nothing is assumed of when the file is first written: `OneBlockWithDoctors` holds with
`Sound` alone, which a doctor that empties the file keeps; `EntriesAreAtomicOnceSetUp` is
`[][SetUp => SetUp' /\ [Hosts!Next]_Settled]_sharedVars` (`OnceSetUp`), for which `TextFollowsFile`, that a doctor may break before, is
part of `SetUp`.

*Forwards.* Four theorems (`NobodyIsForgotten`, `DownHasNone`, `BindsAreDisjoint`,
`DeclaredAreSaved`) from one invariant (`Invariant`), with kills and failures everywhere and no assumption but that of the
constants. None of the four is
inductive: `Known` says that a supervisor is on disk or held by the command that spawned it,
`ListAt` how the list in memory and the one on disk relate at each point, `NoneAt` where there
are no supervisors at all, so that a list may be dropped, `TakenAt` that rm has killed
what it takes off, `SavedAt` what is saved of what is listed, and `UniqueAt` that what is still to be spawned clashes neither with
itself nor with what is live.

*IdleWatcher.* Under `Serial` and without `Outlive`. `IInv` is inductive: at most one watcher
lives at a time and none while a start is about to spawn one (`AloneHolds`); the one that nobody
has told to end is named by the pid file, has its VM up and is asked for (`ServingHolds`), so
that a teardown ends the right one; no status goes ahead of the disk and the host
(`SessionHolds`); a watcher counts no more idle polls than there were (`CountHolds`). From
it `AtMostOneWatcher`, `StatusIsTrue`, `GraceIsGiven` and `DisabledIsKept`.

*DiskStore.* Without `Overlap`, for any processes, VMs, images and templates and with kills
everywhere. `IInv`: no two processes are at one VM or make one template, and
who removes is alone (`Apart`); who is past a lock holds it, has a part file of its own, and publishes into an empty
place (`Fetched`, `Converted`); what is in the cache is whole (`CacheHolds`); a VM being made has its
config saved before it has a disk (`VmHolds`, `MakingHolds`); a template counts only
when its disk is whole (`TemplateHolds`); what a sweep has left to delete is named by no
config (`CleanHolds`), and every overlay has its base, also while its config is being
rewritten (`Backed`). `DisksInvariance` is its invariance; `BackingIsKept`, `DisksAreWhole` and
`ImagesAreFetchedOnce` follow, and `StoreRefinement` maps a base to what the cache entry or the
template with saved metadata holds, and a VM to the base that its readable config and its
overlay name: each step is a step of `BackingStore` or a stutter.

*AvfVm.* For kills outside `Fragile`, those inside a migration's save among them, and any number of runners. `IInv`: every live runner was
told to end, is the one of the pid file under a status that admits it, or is held by the
command under way (`Accounted`); what that command has read is still so (`Holds`); which disk it
is making, which is the newest and when the config is cut (`DisksHeld`, `DiskIsNewest`). `NothingLost` and
`BootsFromNewest` follow.

## 6. Not modelled

- Errors of the local file system (a full disk, a status file that cannot be written, a
  managed config that cannot be read), except where the code has a path of its own for them.
- A pid that the host has given to somebody else by the time agv tests or kills it.
- Two URLs with the same last segment, which share a cache entry: an entry is named by its image here.
- Two creates that both pass the capacity check: the check promises nothing about that.
- `suspend` on the AVF backend, which the runner refuses, and the save and restore in the
  runner that no command reaches.
- The text of a forward (`HOST[:GUEST][@BIND]`) and the retry loop of a supervisor's ssh: neither
  changes the state modelled. TOML, single provisioning steps, the reading of a qcow2.
- Of QEMU's command line, what does not change the guest's machine: drives, network, sockets, the
  serial log, and the EFI code image. Suspended VMs of versions of agv that did not pin the machine.
- `template create` in `VmLifecycle` and `Hardware`, where it would be one more command that stops, boots and stops a VM,
  and a migration, after which the VM is one of `AvfVm`.
- The SSH client beyond whether the guest answers, guest metadata, host tools, CLI dispatch: argument
  building, text and process I/O without state of their own.

## 7. What could follow

1. The parsing of a forward (its port ranges and binds) as one more walk of `Scans`.
2. The cache with entries named by the last segment of a URL, and a checksum per create.
3. Composition: two VMs whose lifecycles share the SSH config, so that `NoStaleEndpoint`
   is stated across VMs that reuse a port; the watcher of `IdleWatcher` inside `VmLifecycle`.
4. A refinement from `AvfVm` to `VmSession`, once AVF can suspend.
5. `CallsEnd` for every catalogue, by a measure on `reached` and `chain`, and the fields that are left out of a layer
   (cpus and disk next to memory, the machine type next to idle).
