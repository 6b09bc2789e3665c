# TLA+ models of the original-Xbox Linux bring-up tooling

This directory holds formal models of the parts of this repository in which
order, interruption and stale data matter: the FATX staging tool, the writable
Debian guests, the host gates that decide whether a candidate is safe on a real
disk, and the Tiny Core chain from the package mirror to the desktop. Every
definition is written from the code; `PROJECT.json` ("map") names the lines
each one stands for.

    tlc -workers 2 -config FatxStageKill.cfg MCFatxStage    # any run below
    tlapm FatxStageProofs.tla                               # any proof module

## 1. The system

The repository prepares disk images and packages on a host, boots them in xemu
or on a console, and judges the result from screen frames and from the image
left behind.

| Part | Code | State it keeps | Operations |
|---|---|---|---|
| FATX stager | `scripts/fatx_stage_boot.py`, called by `stage_hdd_fatx_linuxboot.ps1`, the layout generator and every gate | the FATX volume in a raw image: allocation table, root directory, clusters; a manifest | clean known boot files, write payload, kernel, initrd and `linuxboot.cfg`, read back |
| FATX extractor | `scripts/extract_fatx_root_file.py` | none | read one root file out of an image |
| RW smoke guest | `xbox-persist-smoke` (written by `build_debian_bookworm_i386_payload.sh`), `rootfs-overlays/debian/xbox-init`, `xbox-sync-ro` | an ext2 root, itself a file on the FATX volume: two marker files, a status file, the mount count | write and check markers, sync, remount read-only, report |
| RW safety gate | `scripts/test_debian_6_18_rw_safety_gate.ps1` | the disposable image, one xemu process | boot twice, kill, inspect, compare |
| Persistent shell guest | `xbox-persistent-init`, `xbox-persistent-shutdown` | the ext2 root: the user's files, the shutdown status | run a typed line, sync, remount, power off |
| Persistent gate | `scripts/test_debian_6_18_persistent_candidate.ps1`, `send_xemu_shell_probe.ps1` | as above | boot twice, type a line, wait for the exit, inspect |
| Stage-1 initramfs | `scripts/make_distro_initramfs.py` | mounts | find the payload on FATX or ISO, loop-mount, `switch_root` |
| Package resolver | `scripts/download_tinycore_tcz.py` | a directory of `.tcz` packages, their checksums, the load order | fetch, verify, order |
| BusyBox / Tiny Core initramfs | `scripts/make_busybox_initramfs.py` | mounts, the links and copies in the root, X session, network, remote shell | boot stages, disc search, X hot set and its release |
| Boot harnesses | `test_readonly_boot_matrix.ps1`, `test_devuan_5_8_cold_boots.ps1`, `test_tinycore_hdd_candidate.ps1`, ... | one xemu process, frames | poll, classify, decide |
| Classifier, capture | `classify_xemu_boot_frame.py`, `tools/capture-xemu-window` | none | pixels to a stage |
| Candidate, release and package builders | `build_*`, `new_*`, `package_*`, `write_release_manifest.ps1` | artifact directories and manifests with hashes | copy, patch, hash, zip |
| Converters | `qcow2_to_raw_sparse.py`, `make_cromwell_iso.py`, `add_iso9660_overlay.py`, `replace_newc_file.py` | none | pure transformations |
| Launchers, cleanup | `run-*.ps1`, `invoke_xemu*.ps1`, `cleanup_generated_workspace.ps1` | temporary media | start xemu, remove generated files |

How they interact: a gate converts the base disk, has the stager put kernel,
initrd and root image on the FATX volume, and boots xemu on it; stage 1 in the
guest mounts the volume, mounts the root image from it over two loop devices
and switches to it; the guest's scripts write into that image; the gate kills
xemu or sees it exit, has the extractor take the root image out of the FATX
volume again and runs `e2fsck`, `debugfs` and `dumpe2fs` on it. Host and guest
share nothing but the disk and the screen.

The Tiny Core chain: the resolver fills a directory with extensions and writes
the order in which to load them; a builder puts them on a Cromwell ISO, a game
disc with an ISO9660 overlay, into the initramfs itself, or into an ext2 image
for the hard disk; init in the guest finds that medium again, mounts every
extension over a loop device and links its files into the root, and starts the
desktop, with the network and a remote shell beside it.

What is hard: the stager makes dozens of dependent writes in place and may die
between any two; a run may follow a failed or killed one; the guest's page
cache is lost with power; the status files are written *before* the operation
whose success they report (nothing can be written after a read-only remount);
the host's decision to kill xemu is a timer that knows nothing of the guest;
a second boot finds the first boot's files; the resolver's directory outlives
its runs while the mirror moves on; drives appear while init looks for them;
the hot set is handed back under running programs. `PROJECT.json` ("hazards") lists
these at their lines.

What makes each part correct:

* stager - no two files share a cluster, files it was not asked to write are
  untouched, nothing leaks, and the manifest is true; also after failed runs,
  and after killed ones as far as the code provides for them; on a volume that
  came damaged, the run ends and the damage stays where it is;
* guests - what the console or the status file says is true of the disk, and
  shutdown ends in one of the two states it reports;
* stage 1 - the root entered is the payload asked for, and giving up is the last
  resort;
* resolver - what the order names is there, is whole and comes after what it
  needs, whatever earlier runs left;
* media - a reader of the disc or the archive gets exactly what was put in;
* Tiny Core init - every extension listed is loaded, as far as the loop devices
  go, whatever the medium made of its name; a path reads the file that was linked
  or copied there last, and giving the hot set back does not change that;
* gates and harnesses - a pass implies what the summary claims, and the script ends.

## 2. Modules

| Module | Models | Notes |
|---|---|---|
| `FatxVolume` | the on-disk structures and the pure reads of the stager: chains, directory scans, slot search, the three allocators, file reads | operators only |
| `FatxStage` | one or more runs of `main`: one action per write to the image or decision between writes | EXTENDS `FatxVolume` |
| `FileStore` | the abstract promise: only the file being worked on may change | refined by `FatxStage` (`OtherFilesUntouched`) |
| `FatxStageProofs` | lemmas about volumes, type correctness, inductive invariants | TLAPS |
| `ExtRoot` | the guest's ext2 root: image, page cache, mount mode, damage | external: the kernel's part, as the scripts use it |
| `RwSmoke` | the smoke guest from power-on to the endless sleep | EXTENDS `ExtRoot` |
| `RwSafetyGate` | the gate around it | EXTENDS `RwSmoke` |
| `PersistentShell` | the persistent shell and its shutdown script | EXTENDS `ExtRoot` |
| `PersistentGate` | the gate around it | EXTENDS `PersistentShell` |
| `Stage1Init` | the init script of the stage-1 initramfs: finding the payload's drive, mounting, `switch_root` | drives appear while it runs |
| `ColdBoots` | the cold-boot harness over several sessions, its kept image and the package builder between them | |
| `TinyCoreNames` | the names of extensions, and what small letters make of them | shared by the next five |
| `TczResolver` | `download_tinycore_tcz.py`: runs over one directory | |
| `NewcArchive` | the cpio archive: `CpioWriter`, `replace_newc_file.py`, the kernel's unpacking | operators only |
| `IsoOverlay` | `add_iso9660_overlay.py` and a reader of its directories | operators only |
| `TinyCoreMedia` | what the builders make of the resolver's directory | EXTENDS the three above |
| `TinyCoreGuest` | the inits of stages 6 and 7, the desktop, hot-set release, network, remote shell | |
| `TinyCore` | the chain from the mirror to the desktop | EXTENDS `TinyCoreMedia` and `TinyCoreGuest` |
| `ExtRootProofs`, `RwSafetyGateProofs`, `PersistentGateProofs`, `Stage1InitProofs`, `ColdBootsProofs` | lemmas, inductive invariants, theorems | TLAPS |
| `TinyCoreMediaProofs` | the archive and the overlay for any entries and files; what the builders make is what is read | TLAPS |
| `TinyCoreProofs` | the resolver, the guest, and the chain of both over the media | TLAPS, EXTENDS `TinyCoreMediaProofs` |
| `MC*` | small instances | |

### FatxStage and the code

`fat`, `root`, `data` are the image; everything else is the Python process.
A run takes a plan (`StagePlans`: the combinations of options `main` accepts,
flattened to a list of removals and writes) and works it off:
`NextJob`, then `remove_directory_entry` (`ScanMatch`, one `FreeOne` per
`write_fat_entry` of `free_chain`, `FreeEnd`, `ScanEnd`, `WriteDirectory`),
then for a write `Allocate`, one `LinkOne` per link, one `FillOne` per data
cluster, `AddEntry`, `Readback`. Each exception is an action (`AllocateFails`,
`AddFails`, `ReadbackFails`) that leaves the image as it is. `Kill` stops the
process between any two writes; Python's buffering can only delay a batch of
adjacent writes, never reorder them, so every image it can leave is one of
these. `Start` begins another run on the same image.

Abstractions: a name is one class of names equal up to case; lengths are
counted in clusters; a data cluster holds a record saying which file, run and
part it is. `ShortEnd` holds the cluster numbers that equal a 16-bit end mark
(0xFFF8, 0xFFFF, scaled down). Only root-directory files are modelled: every
caller passes plain names. `ReadbackFails` stands for both exceptions of the
readback, the `EOFError` of a chain that ends early
(`fatx_stage_boot.py:422-423`) and the mismatch of the hashes (`:449-453`).
`MCFatxStage` writes down volumes, with links of any kind, for the instances.
The three allocators are specified by what they return (`Allocations`), not by
their loops.

### Guests and gates

`disk` is the root image as the FATX volume holds it, `cache` the same as the
guest sees it. `Writeback` moves one dirty item to the disk at any time, `Sync`
and a successful remount move all; `Stop` (kill, power cut, poweroff) loses
the rest and may leave what `e2fsck -fn` reports (`damaged`). A file reaches
the disk whole or not at all. Each action of a guest is one command of its
script. The gates abstract time: an observation may end at any moment at which
the settle interval or the time limit may end it, because nothing ties either
to the progress of the guest; in particular the limit may cut the settle
interval to nothing.

### Stage 1 and the cold boots

`Stage1Init` keeps the script's loops: one action per look at a device node,
per candidate of the disc scan, per second of waiting; `Attach` lets the kernel
find a drive between any two. `Machines` says what is in each drive, down to a
payload under its upper-case name, one that is no root and one without the init
program; `devtmpfs` says whether nodes appear by themselves, as the 5.8 and
6.18 kernels and real optical drives differ in that. Read-ahead tuning and
output are left out.

`ColdBoots` models sessions of the harness. Between sessions the package may be
rebuilt; within one any command may fail (`Abandon`, which also stands for a
fragmented layout and for the user's interrupt). A failed capture changes
nothing in the script and is a stuttering step. The stager first
puts the boot files into the image (`StageFiles`) and then writes its manifest
(`WriteLayout`); a session may die between the two. `raw` is what the image
really holds, `layout` what its manifest says, `claimed` what the result will say.

### The Tiny Core chain

`TczResolver` has one action per step of `visit`: a dependency already seen
(`VisitSeen`), a fetch of the package, one of its checksum, the comparison,
the append, and the write of the order. The call stack of the recursion is the
variable `stack`, whose outermost frame is the loop over the seeds. Fetches
fail, the process is killed and leaves the file it was writing torn, and
`mirror` replaces the packages at any time (what a package depends on is the
same in each version); `tcz`, `sum` and `order` are what
the next run finds. A package is its version; a torn one has none.

`NewcArchive` and `IsoOverlay` keep the arithmetic of offsets and sectors and
leave out the contents. Their readers are not in this repository (the kernel's
unpacking, Linux's ISO9660) and are marked external. `TinyCoreMedia` builds a
medium from whatever the runs so far have left, and `Read` is what the guest
gets back.

`TinyCoreGuest` keeps one action per drive tried, per scan, per second waited,
per extension mounted, per extension copied, and per step of the release, the
network script and each caller of `xbox-remote-up`. `view` says for each path
of the root whether it is a link into an extension, a copy or missing. The
release runs in a shell of its own and may begin, or go on, when X is over; `rm`
and `ln` may each fail. From
`BootStep` on nothing on the host matters to the machine, and its state goes
back to where it began; that keeps the state graph small.

Abstractions a reader should know of: `Complete` lets a builder pass a torn
package on, as the code does; links that fail while extensions are loaded, and
the extensions' setup hooks, are left out (their failure is only printed), as is
the shell that a missing `desktop-load-order.txt` ends in
(`make_busybox_initramfs.py:415-419`; every builder writes the file); the
checks at the beginning of `xbox-remote-up` are one step, the start of the
daemon another; the daemon fails to start only for a port that is taken.

## 3. Runs

| Run | Bounds | Shows |
|---|---|---|
| `FatxStageKill` | 7 clusters, 5 slots, 3 volumes (fresh, staged before with fragments, with holes), an end mark among the cluster numbers, 2 runs, kill anywhere, plans with `--clean-known-boot` | `NoCrossLink`, `NoDanglingAtAllocation`, `MismatchMeansShortEnd`, refinement of `FileStore` |
| `FatxStageRuns` | 4 slots, 6 sound volumes (3 of them crowded, so that runs fail half way) and 6 that came damaged (a circle, two shared chains, chains into a free cluster, into the root directory, out of range, into another file), 2 runs, every cleaning and order, 3 of the 4 pairs of layouts, no kill | `ManifestTrueIfSound`, `ConfigTrueIfSound`, `DamageStays`, `RunEnds` |
| `FatxStageShortEnd` | one run, `ShortEnd = {4}` | **violated**: the readback check fires on a correct file |
| `FatxStageInterrupted` | a killed run, then one in place without cleaning | **violated**: a finished run's manifest is wrong |
| `RwSafetyGate` | the gate with 2 boots, or 3 boots switched on and off by hand at any moment; 2 remount attempts | `SafeMeansSafe`, `BannersTellTheTruth`, `SyncRoEnds`, `GateCatchesFailedRemount`, `PassedMeansPersisted`, `GateEnds` |
| `RwSafetyGateClaim` | the same | **violated**: "remount confirmed after each boot" |
| `PersistentGate` | 2 boots, lost keys, xemu crashes | `StatusTellsTheEnd`, `PassedMeansStoppedItself`, `GateEnds` |
| `PersistentGateClaim` | the same | **violated**: "powered xemu off on all boots" |
| `Stage1Init` | 4 drives, 144 machines with and without devtmpfs, 8 command lines, 2 polls | `GaveUpJustified`, `GivenDiskWins`, `LoaderEnds` |
| `ColdBoots` | 3 sessions, 2 packages, 2 boots, 4 captures | `RebuiltMeasuresPackage`, `PassedMeansStable`, `SessionEnds` |
| `TinyCore` | 6 extensions, 2 versions of the mirror, 2 runs of the resolver, every medium, 4 drives, 2 scans; 41 machines (below) | the resolver: `DependenciesFirst`, `FinishedOrderIsWhole`, `ListedIsIntact`; the media: `ArchiveUnpacksWhole`, `OverlayIsSound`; the guest: `GivenUpJustified`, `WholePayloadLoads`, `PathsReadRight`, `ReleaseTellsTheTruth`, `BootEnds`, `RemoteComesUp` |
| `ColdBootsClaim` | 2 sessions | **violated**: a result names the package that was booted |

Why the bounds are enough. Two runs are the shortest history in which one run
meets what another left; the state a run starts from depends on earlier runs
only through the image, and the proofs cover any number. Files of one and two
clusters give chains with and without links; with seven clusters all three
allocators succeed and fail, and fragmented and contiguous chains interleave.
The damaged volumes have a link of each wrong kind in a chain that a job frees,
with a whole file beside it.
Two remount attempts have a first, a repeated and a last one. Two boots are
the gates' default; the smoke guest gets a third, to meet the files of a boot
that was itself cut short. Four drives hold a disk that is probed first, one probed
second and known only to sysfs, and optical drives with and without a hard-coded
number; the number of polls only counts. Three sessions are one that makes an
image, one that spoils it and one that uses it; four captures are the fewest
that can report a stalled loader. The six extensions of the Tiny Core run are a
library, a program and a panel that all bring one configuration file, the panel
not in the hot set, two that need each other, one without a checksum and one the seeds do not ask for; two of
their names change in small letters, and names of odd and even length need
different padding. Two runs of the resolver and two versions of the mirror give
a run that meets a torn, a stale and a vanished package. Machines with every
content of the drives search for the ISO; to run the desktop a few suffice:
with and without the hot set, with a link that leads nowhere, with one loop
device, with and without a network card or an address from the kernel; the
disks of stage 7 are found by name or by probing. Two scans are a first and a
last one. Slots and counts are named constants.

### What the violated runs say

* **16-bit end marks on a 32-bit table** (`fatx_stage_boot.py:199,212`,
  `extract_fatx_root_file.py:39`). The real E partition has 312280 clusters and
  4-byte entries, so 65528 and 65535 are ordinary clusters.
* **Freeing before unlinking** (`fatx_stage_boot.py:235-240`). Only a run with
  `--clean-known-boot` is safe after a killed one: it removes every stale entry
  before it allocates. `stage_hdd_fatx_linuxboot.ps1` does not pass the option.
* **Status before remount** (`xbox-sync-ro:6`). The file says OK from before the
  first attempt, and from the first boot on. What a passed gate does imply is
  in `RwSafetyGate`: no boot ended with a recorded failure, and the second boot
  had mounted the image and found both files.
* **Any exit is a poweroff** (`test_debian_6_18_persistent_candidate.ps1:110-113`).
* **The original links** (`make_busybox_initramfs.py:510,519,623`). The release
  links a path to the extension it was copied from. The hot set is a list fixed
  in the script, and nothing compares it with the load order: where an extension
  loaded behind a hot one has the same file, the link that was there before was
  to that one. The instance has such a file, the configuration that the hot
  library and the bar behind it share; whether a real payload has one
  depends on the contents of its packages.
* **The kept image** (`test_devuan_5_8_cold_boots.ps1:60`). The image is reused
  because it exists, not because it holds the package just verified.

## 4. Fairness

`SyncRoEnds` assumes weak fairness of the guest's next command (PID 1 is a
shell script on a running kernel) and nothing of power, writeback or the
outcome of a remount. `GateEnds` assumes that the host script goes on and that
its time limit is reached (the `while` condition is wall-clock time); it does
not assume that Linux is ever seen, that a key arrives, or that xemu exits.
`LoaderEnds` assumes that PID 1 runs on and nothing of the drives, `SessionEnds`
that commands return and that the time limit is reached.
`GuestFairness` lets init, the release, the network script and each remote
script run on, as processes of a running kernel do. Nothing is assumed of the
drives, of DHCP's answer, of X or of the person at the keyboard, so that
`BootEnds` and `RemoteComesUp` hold with drives that come late or never.
`RunEnds` assumes that a run of the stager that is not killed goes on
(`FairSpec`), and nothing of when the next one is started; the other properties of
`FatxStage` are safety properties. Deadlock
is not checked where the system really stops: a run bound reached, a gate done.

## 5. Proofs

For every volume, directory size, set of names and plan of `FatxStage`:

* `TypeCorrect` - `Spec => []TypeOK`.
* `NeverCrossLinked` - `Spec /\ CameSound => []NoCrossLink`,
* `NeverDanglingAtAllocation` - `Spec /\ CameSound => []NoDanglingAtAllocation`, both from
  the inductive invariant `IInv` and under `SafePlans`: if runs may be killed,
  every plan removes each name any plan touches before it first allocates.
  That is `--clean-known-boot` (its list holds every boot name, and the payload
  is written first, which begins by removing it); `FatxStageInterrupted` shows
  the condition is needed. Without kills no condition is made.
* `StagerKeepsItsPromise` - `Spec /\ CameSound => OtherFilesUntouched`, the refinement of
  `FileStore`, from `IInv` and `OpInv` (clusters are handed out only for a file
  to be written) under the same condition: initial states map to initial ones,
  and each action to a step of `FileStore` or a stutter.
* `OnlyShortEndsBreakReadback` - `Spec /\ CameSound => []MismatchMeansShortEnd`: the check
  at the end of `write_path_file` fires only where a link leads to a cluster
  whose number is a 16-bit end mark; `ReadbackNeverFails` where there is no such
  number (`ShortEnd = {}`, as on a 16-bit table; `FatxStageShortEnd` shows the
  condition is needed).
* `NothingIsLost` - `Spec /\ CameSound => []NoLeak`, also for `ShortEnd = {}` (at such a
  number `free_chain` stops and loses the rest) and for volumes that had lost
  nothing before.
* `ManifestIsTrue` - `Spec => ManifestTrueIfSound`, if no plan touches a
  file again that it has written (`WrittenOnce`);
* `ConfigFindsPayload` - `Spec => ConfigTrueIfSound`, if also a plan that
  records the offset writes the payload and, later, the configuration
  (`PayloadThenConfig`). Both need `SafePlans`, as `FatxStageInterrupted` shows.
* `MainMeetsProvisos` - the plans that `main` makes of its options meet all of
  these, if the names asked for differ and, for `SafePlans`, with
  `--clean-known-boot` for known names.

`CameSound` says of the volume the first run gets that its chains are in use and
no two share a cluster. Nothing is assumed of the other volumes; what the
stager does to one that came damaged is checked by TLC alone (`DamageStays`,
`RunEnds`).

`NoCrossLink` alone is not inductive: `Allocate` could hand out a cluster of a
visible entry, and `AddEntry` could publish a chain that leads into another.
`IInv` adds: only the entries a run is still going to remove may lead to free
clusters (`Whole`, `MayDangle`); the directory in memory is the one on disk
less entries of the current name (`BufferInv`); the walk of `free_chain` stays
off all other chains (`WalkInv`); clusters handed out belong to no entry and,
once linked, lead only to each other (`AllotInv`); nothing but terminators
follows a terminator (`Packed`), so that a new entry in the terminator's slot
uncovers nothing. There is one lemma per action. `Chain` is defined as a least
closed set rather than by recursion, which makes its facts provable from the definition: writing entries outside a chain leaves the chain
alone, freeing an entry only shrinks chains. Reading a file follows
`ClusterChain`, which counts its steps; what the refinement needs of it, that
the walk exists, stays in `Chain` and is the same on two tables that agree
there, is proved by taking the least step at which it would fail
(`WalkExists`, `WalkInChain`, from the well-foundedness of the naturals), as an
induction theorem cannot be cited.

The later theorems add an invariant each to `IInv`. `ReadInv` follows a write:
on the disk there is no other entry of the name (`NoMatchInv`), the clusters
handed out are linked one to the next (`LinkedInv`) and filled in order
(`FilledInv`), and the new entry is the one a reader finds (`EntryInv`); the
number of steps `ClusterChain` takes is then the number of links, or less where
a link passes for an end mark. `LeakInv` accounts for every cluster in use in
the middle of a job: it belongs to an entry, to the rest of the chain being
freed, or to the clusters handed out. `ManifestInv` says that what the manifest
holds is true at every point of a run and that no job left will touch those
names. `ConfigInv` says that the configuration is still to be written behind a
payload, or holds the start of one that the manifest lists. The properties
themselves speak only of the end of a run.

For every machine and command line, with drives that appear at any moment,
of `Stage1Init`:

* `LoaderTypeCorrect`; `GivingUpIsJustified` - `Spec => []GaveUpJustified`;
* `GivenDiskIsKept` - `Spec => []GivenDiskWins`.

`LoaderInv` says what each point of the script owes to the scan: a drive with the
payload that was there when the scan began has not been tried in vain and is
still to come (`ScanInv`), a drive given on the command line comes first
(`GivenInv`), the FATX disk was seen or waited for to the end (`FatxInv`).

For every graph of dependencies, cyclic or not, every mirror and any number of
runs of `TczResolver`:

* `ResolverTypeCorrect`; `OrderIsIntact` - `ResolverSpec => []ListedIsIntact`;
* `OrderPutsDependenciesFirst` - `ResolverSpec => []DependenciesFirst`;
* `OrderIsWhole` - `ResolverSpec => []FinishedOrderIsWhole`.

`ListedIsIntact` speaks of the order on disk; `IntactInv` says the same of the
list in memory, and a fetch touches only packages that are not there, so that
a list once intact stays so. For the order, `WalkInv` describes the recursion
half way: each frame's dependencies are marked or still to be visited
(`FramesInv`), a frame is needed by all frames below it (`ChainInv`), what is
marked is listed or on the stack (`SeenInv`), and what a listed extension needs
is marked, and listed before it unless it needs the extension in turn
(`ListInv`). The last case is why the property has its exception: of a cycle,
some member must come first. `Needs` is a least closed set rather than a
recursive function, which makes its facts provable from the definition.

For every payload, every machine and drives that appear at any moment, of
`TinyCoreGuest` by itself (`GuestSpec`: any medium, any machine that fits it):

* `GivingUpOnPayloadIsJustified` - `GuestSpec => []GivenUpJustified`;
* `WholePayloadsLoad` - `GuestSpec => []WholePayloadLoads`;
* `HotSetIsNotNoticed` - `GuestSpec => []PathsReadRight`;
* `ReleaseIsTrue` - `GuestSpec => []ReleaseTellsTheTruth`.

`GuestInv` gives the first two: a drive with the payload that was there when
the scan began is still to come (`SearchInv`); while the extensions are loaded,
those passed are the first ones of the order, of a whole payload the first of
them are mounted, one for each loop device (`MountInv`), and each path is a link
into the last one that brings it (`LoadInv`).

`PathsReadRight` compares what a path reads with what it was last given
(`Expected`): the file of the hot extension copied last, or else of the extension
linked last. The two need not agree, as the hot set is a list fixed in the
script (`make_busybox_initramfs.py:519`), and no condition is put on it. Where
they differ, the release leaves another link than loading had made, while
`docs/tinycore-memory-candidate.md:8` speaks of restoring the original ones.
The exceptions are those of the code: the one path between its `rm` and its
`ln`, paths that were reported, and, until the release comes to its second
entry, a path of two hot extensions, which is a link into the first.
`HotInv` follows the hot set: during the copying, the last entry of the record
for a path names the hot extension copied last for it, and the path is that
copy, or nothing hot has the path (`CopyInv`); under the desktop that is what is
expected there (`CopiedIsExpected`), the entries the release has left are the
end of the record, and a path is a copy, in hand, reported, half way or
restored (`DesktopInv`). `EntryPassed` is the step common to a missing source
and a link.

And of the chain, `TinyCore`:

* `ChainListsAreGood` - the resolver's three properties hold along the chain;
* `ArchivesUnpackWhole` - `Spec => []ArchiveUnpacksWhole`;
* `OverlaysAreSound` - `Spec => []OverlayIsSound`;
* `MediaArePayloads` - `Spec => []MediumIsPayload`: what is read of a medium that
  was made lists each extension once and has a file for it, under its name or
  that name in small letters (`IsPayload`);
* `ChainRunsGuest` - `Spec => GuestSpec`: each step of the chain is a step of the
  guest by itself or leaves it alone, and the boot starts it from a payload, so
  that the four theorems above hold of the chain: `ChainFindsAndLoads`
  (`Spec => []GivenUpJustified /\ []WholePayloadLoads`) and `ChainReadsRight`
  (`Spec => []PathsReadRight /\ []ReleaseTellsTheTruth`);
* `ChainTypeCorrect` - `Spec => []TypeOK`.

The first two rest on theorems about the writers and readers for any input, in
`TinyCoreMediaProofs`:

* `ArchiveIsRead` - the entries read from an archive are those it was made of, of
  any lengths, and the trailer; `ReplacedIsArchive` - the archive edited is the
  archive of the entries edited;
* `OverlayIsRead` - the overlay of any files is `Sound` if they are `Layable`: at
  most eleven directories below the root, of any depth, no file on the sectors
  of the overlay, and none that is a directory too. The number is a condition
  because `add_iso9660_overlay.py:228` writes one sector after the other without
  a look: the twelfth would be that of the XDVDFS descriptor.
  `DiscIsLayable` shows that the builders' discs meet it.

`ArchiveUnpacksWhole` and `OverlayIsSound` say nothing of where the medium came
from, so they are not inductive: replacing init needs to know that the archive
is one `add_entry` could have written and that its names differ.
`MadeInv` says so (`ArchiveHolds`), and of a game disc that its image is the
overlay of its files; that the names differ comes from `OnceInv`, no order names
an extension twice, torn or not. Both are conjuncts of `HostInv`, with
`ListsInv` of the resolver.

Writers and readers are folds and a recursive function, and the induction
theorems cannot be cited (they take an operator). What is needed is that such a
function exists, step by step: for each fold there is a lemma
(`ArchiveFolds`, `LookupFolds`, `WithoutFolds`) that takes the shortest
sequence for which it would not be so (`Least`, from the well-foundedness of
the naturals); the three are alike because a lemma cannot be stated for any
operator. `LaidIsRead` follows the reader: the headers lie where the sums
of the lengths, rounded up, put them (`ArchiveIsLaid`), and of the entries
not read as written there would be a last one. For the overlay, paths are
ordered strictly and totally (`PathOrder`), so the number of smaller paths is an
index no two directories share (`IndexFacts`), and a reader that has come to the
sector of a directory finds there the records of its children (`LookupFinds`).

For every number of boots and remount attempts, with writeback in any order
and power lost anywhere:

* `SafeLineIsTrue`, `BannersAreTrue` - `GateSpec => []SafeMeansSafe`,
  `[]BannersTellTheTruth`; `FailedRemountIsCaught`, `PassedGatePersisted` -
  `[]GateCatchesFailedRemount`, `[]PassedMeansPersisted`; `GateTypeCorrect`;
* `StatusIsTrue`, `PassedGateKilledNobody` and `GateTypeCorrect` of the
  persistent guest and its gate.

None of these is inductive alone. `GuestInv` says what each point of a guest's
script owes to those before it: before the remount the cache holds OK, after it
cache and disk agree; a phase named in memory has its markers on the disk.
`HostInv` ties the gate's step to the guest's; `EndsInv` carries a recorded
failure from the moment the guest stops to the inspection that throws;
`PersistInv` says that after one accepted boot the image holds both markers and
the count compared, and that only a second mount moves that count. The steps of
the gate are steps of the guest or leave it alone (`GateStepsAreGuestSteps`), so
that the guest's invariant carries over.

For every number of builds, sessions, boots and captures of `ColdBoots`:

* `RebuiltSessionsAreHonest` - `Spec => []RebuiltMeasuresPackage`, from
  `RebuiltImage`: from the end of the staging on, the image of a rebuilding
  session holds the package it verified. The property alone is not inductive,
  as a result only copies what the image holds;
* `PassedTerminalWasStable` - `Spec => []PassedMeansStable`, from `StableInv`:
  a ready screen seen in the last frame has been counted;
* `CountsStayInRange` - `Spec => []TypeOK`, from `CountInv`, which types the
  counters of a boot.

The assumptions are those on the constants: `VolumeAssumption`,
`NameAssumption` (what stands for no file is no file's name),
`StageAssumption`, `SmokeAssumption` (in particular that the packaged image has
the two markers whole or not at all), `ShellAssumption`,
`ImageAssumption`, `GateAssumption`, `Stage1Assumption`, `ResolverAssumption`,
`GuestAssumption`, `OverlayAssumption` (the sectors `add_iso9660_overlay.py`
takes unless told otherwise, which nobody does), `MediaAssumption` (small letters
leave the names the scripts fix as they are and make no other name one of them)
and `ColdBootsAssumption`. TLC evaluates each on the runs of
its module.

Only model-checked: every liveness property (`BootEnds`, `RemoteComesUp`,
`LoaderEnds`, `SessionEnds`, `SyncRoEnds`, `RunEnds`, the `GateEnds`): liveness
under fairness and `ENABLED` are outside the prover's reach. Also `DamageStays`,
for which the inductive invariant, all of it about consistent volumes, is of no use.

## 6. Not modelled, and the plan

Left out for good: window capture, pixel classification (its verdict is a
nondeterministic choice or a function of the screen shown), package
installation, zip layout, wording, read-ahead tuning. `qcow2_to_raw_sparse.py`
copies once to a fresh output, without retries or state.

Left out of modelled parts:

* directories below the root of the FATX volume (`ensure_directory`,
  `resolve_parent_directory`, and `read_path_file`, `fatx_stage_boot.py:403`,
  which takes a component for the last by its name): no caller passes a path;
* the modes of `make_cromwell_iso.py` beside the Tiny Core disc (a table of
  files each), and the inits before stage 6 (straight-line probes that end in a
  shell);
* what a failed native command makes of a medium
  (`build_tinycore11_desktop_iso.ps1:38`): no exit code is looked at, so an old
  initramfs may meet a new payload; media are built whole here;
* the FATX write-smoke guest, a straight line of writes with one check at the
  end.

Read but covered by no property, because what goes wrong is visible only
against an intention the code does not state: `xbox-persistent-init:20` makes
`/run/resolvconf`, while the copy and the bind mount that follow name
`/run/resolv.conf/`; without `xbox_payload_disk`, stage 1 settles for the first
FATX disk there is (`make_distro_initramfs.py:186`) and scans for discs without
waiting (`:206`); the cold boots call a loader stalled by the longest run of
equal frames of the whole boot (`test_devuan_5_8_cold_boots.ps1:176`), and the
boot matrix tells Tiny Core's desktop by Linux text seen in some earlier frame
(`test_readonly_boot_matrix.ps1:170`).

Planned, in this order:

1. `BootMatrix` - the polling loop of the other harnesses (desktop heuristics,
   repeated frames, xemu exits) and the count of passes over cells and runs.
2. `CandidateBuild` - builders, hash locks and gates over one artifact
   directory: a promoted candidate is the one that passed.
3. Pure functions against reference definitions: qcow2 cluster lookup, the
   loops of the three allocators against `Allocations`.
4. `FatxPath` - directories below the root.
