------------------------------ MODULE FatxStage ------------------------------
(***************************************************************************)
(* One or more runs of scripts/fatx_stage_boot.py on the same raw image,   *)
(* root-directory files only (every caller in the repository passes plain  *)
(* names).  Each action is one write to the image, or one decision between *)
(* writes, so that a run killed half way leaves exactly the writes made so *)
(* far.  A later run starts from what the earlier one left on the disk.    *)
(*                                                                         *)
(* Disk state: fat, root, data.  Process state: all the rest.              *)
(***************************************************************************)
EXTENDS FatxVolume

CONSTANTS
  InitialVolumes,  \* [fat, root, data] records: the images a first run may get
  Plans,           \* [jobs, info] records: what one run of main may do
  Blocks,          \* length in clusters of each file the plans write
  ConfigName,      \* linuxboot.cfg
  PayloadName,     \* --payload-name
  MaxRuns,         \* bound: runs on one image
  MayKill          \* whether the process may be killed between two writes

VARIABLES
  fat, root, data,   \* the image
  pc,                \* what the process does next
  todo,              \* jobs of this run not yet finished, the current one first
  info,              \* whether --append-payload-info is given
  buf, slot,         \* remove_directory_entry: the directory in memory, its scan
  cur, seen,         \* free_chain: cluster_id and the set seen
  clusters, idx,     \* the allocation and how much of it is written
  manifest,          \* results of the finished writes of this run
  failure,           \* why the last run raised, or "none"
  runs               \* runs started on this image

disk == <<fat, root, data>>
removal == <<buf, slot, cur, seen>>
writing == <<clusters, idx>>
process == <<pc, todo, info, removal, writing, manifest, failure, runs>>
vars == <<disk, process>>

Job == [op : {"remove", "write"}, name : Name, layout : Layouts]

(* The first 512 bytes of a block tell the files and the runs apart; part  *)
(* is the block's place in its file and off the payload offset a           *)
(* linuxboot.cfg records (0: none).                                        *)
Block == [name : Name, run : Nat, part : Nat, off : FatValue]

Failure == {"none", "not enough free FATX clusters", "root directory is full",
            "FATX readback mismatch"}
PC == {"idle", "next", "scan", "free", "directory", "allocate", "link", "fill",
       "add", "readback", "done", "failed", "killed"}

(* A volume as the console and earlier runs leave it: the chains of its    *)
(* entries are in use, no two share a cluster, and nothing but terminators *)
(* follows a terminator.                                                   *)
Chains(f, dir) ==
  {[slot |-> s, chain |-> Chain(f, dir[s].start)] : s \in LiveSlots(dir)}

Unshared(f, dir) ==
  \A x, y \in Chains(f, dir) : x.slot < y.slot => x.chain \cap y.chain = {}

Consistent(f, dir) ==
  /\ Unshared(f, dir)
  /\ \A x \in Chains(f, dir) : \A c \in x.chain : f[c] # FreeCluster
  /\ \A s \in Slot : dir[s].mark \in Terminator =>
       \A r \in s..SlotCount : dir[r].mark \in Terminator

ASSUME StageAssumption ==
  /\ ConfigName \in Name /\ PayloadName \in Name
  /\ Blocks \in [Name -> Nat]
  /\ MaxRuns \in Nat /\ MayKill \in BOOLEAN
  /\ \A p \in Plans : p.jobs \in Seq(Job) /\ p.info \in BOOLEAN
  /\ \A v \in InitialVolumes :
       /\ v.fat \in [Cluster -> FatValue]
       /\ v.root \in Directory
       /\ v.data \in [Cluster -> Block]

-----------------------------------------------------------------------------
(* main: the jobs of one run, in order.                                    *)

RemoveJob(n) == [op |-> "remove", name |-> n, layout |-> "normal"]
WriteJob(n, layout) == [op |-> "write", name |-> n, layout |-> layout]

(* Mutant: --clean-known-boot is not looked at.                            *)
UncleanedJobs(known, clean, order, payload, boot, payloadLayout, bootLayout) ==
  [i \in DOMAIN payload |-> WriteJob(payload[i], payloadLayout)]
    \o [i \in DOMAIN boot |-> WriteJob(boot[i], bootLayout)]

(* clean_known_boot_files over the list of known names, then the payload   *)
(* and the boot files in the order asked for.                              *)
StageJobs(known, clean, order, payload, boot, payloadLayout, bootLayout) ==
  LET cleaning == IF clean THEN [i \in DOMAIN known |-> RemoveJob(known[i])]
                           ELSE <<>>
      payloadJobs == [i \in DOMAIN payload |-> WriteJob(payload[i], payloadLayout)]
      bootJobs == [i \in DOMAIN boot |-> WriteJob(boot[i], bootLayout)]
  IN  cleaning \o (IF order = "payload-first" THEN payloadJobs \o bootJobs
                                              ELSE bootJobs \o payloadJobs)

(* Mutant: every combination is accepted.                                  *)
UnrefusedPlans(known, payload, boot, options) ==
  {[jobs |-> StageJobs(known, o.clean, o.order, payload, boot, o.payload,
                       o.boot),
    info |-> o.info] : o \in options}

(* The runs main accepts: boot-first with --append-payload-info is refused. *)
StagePlans(known, payload, boot, options) ==
  {[jobs |-> StageJobs(known, o.clean, o.order, payload, boot, o.payload,
                       o.boot),
    info |-> o.info] :
     o \in {q \in options : ~ (q.order = "boot-first" /\ q.info)}}

Job0 == todo[1]

(* max(1, ceil(len(data) / cluster_size))                                  *)
ClustersFor(n) == IF Blocks[n] = 0 THEN 1 ELSE Blocks[n]

(* disk_offset of the payload staged earlier in this run, 0 if none or if  *)
(* --append-payload-info is not given.                                     *)
StagedPayload == {i \in DOMAIN manifest : manifest[i].name = PayloadName}

PayloadOffset ==
  IF info /\ StagedPayload # {}
    THEN manifest[CHOOSE i \in StagedPayload : TRUE].start
    ELSE 0

(* The block the run writes as part i of file n.                           *)
NewBlock(n, i) ==
  [name |-> n, run |-> runs, part |-> i,
   off |-> IF n = ConfigName THEN PayloadOffset ELSE 0]

NewContent(n) == Content([i \in 1..Blocks[n] |-> NewBlock(n, i)])

-----------------------------------------------------------------------------
NoRemoval == /\ buf' = root /\ slot' = 1 /\ cur' = 0 /\ seen' = {}
NoWriting == clusters' = <<>> /\ idx' = 1

Init ==
  /\ \E v \in InitialVolumes : fat = v.fat /\ root = v.root /\ data = v.data
  /\ pc = "idle" /\ todo = <<>> /\ info = FALSE
  /\ buf = root /\ slot = 1 /\ cur = 0 /\ seen = {}
  /\ clusters = <<>> /\ idx = 1
  /\ manifest = <<>> /\ failure = "none" /\ runs = 0

(* Mutant: the results of the run before are kept.                         *)
StartKeepingResults ==
  /\ pc \in {"idle", "done", "failed", "killed"}
  /\ runs < MaxRuns
  /\ \E p \in Plans : todo' = p.jobs /\ info' = p.info
  /\ pc' = "next" /\ runs' = runs + 1
  /\ failure' = "none"
  /\ NoRemoval /\ NoWriting
  /\ UNCHANGED <<disk, manifest>>

(* main opens the image: a first run, or another one on the same image.    *)
Start ==
  /\ pc \in {"idle", "done", "failed", "killed"}
  /\ runs < MaxRuns
  /\ \E p \in Plans : todo' = p.jobs /\ info' = p.info
  /\ pc' = "next" /\ runs' = runs + 1
  /\ manifest' = <<>> /\ failure' = "none"
  /\ NoRemoval /\ NoWriting
  /\ UNCHANGED disk

(* The next job of the plan; both kinds begin with remove_directory_entry. *)
NextJob ==
  /\ pc = "next"
  /\ IF todo = <<>> THEN pc' = "done" ELSE pc' = "scan"
  /\ NoRemoval /\ NoWriting
  /\ UNCHANGED <<disk, todo, info, manifest, failure, runs>>

(* The loop over the entries, up to the next one with the name.            *)
ScanMatch ==
  /\ pc = "scan"
  /\ \E s \in NextMatch(buf, slot, Job0.name) :
       /\ slot' = s
       /\ IF buf[s].start = 0
            THEN /\ buf' = [buf EXCEPT ![s] = Marked(buf[s], "deleted")]
                 /\ UNCHANGED <<pc, cur, seen>>
            ELSE /\ pc' = "free" /\ cur' = buf[s].start /\ seen' = {}
                 /\ UNCHANGED buf
  /\ UNCHANGED <<disk, todo, info, writing, manifest, failure, runs>>

ScanEnd ==
  /\ pc = "scan"
  /\ \A r \in slot..SlotCount : ~ Matches(buf, r, Job0.name)
  /\ pc' = "directory"
  /\ UNCHANGED <<disk, todo, info, removal, writing, manifest, failure, runs>>

(* Mutant: a walk that neither frees as it goes nor keeps what it has seen.*)
FreeLater ==
  /\ pc = "free"
  /\ cur \in Cluster
  /\ cur' = IF IsEnd(fat[cur]) THEN 0 ELSE fat[cur]
  /\ UNCHANGED <<disk, pc, todo, info, buf, slot, seen, writing, manifest,
                 failure, runs>>

(* One round of free_chain; once the walk is over the entry is marked in   *)
(* memory and the scan goes on.                                            *)
FreeOne ==
  /\ pc = "free"
  /\ cur \in Cluster \ seen
  /\ fat' = [fat EXCEPT ![cur] = FreeCluster]
  /\ seen' = seen \cup {cur}
  /\ cur' = IF IsEnd(fat[cur]) THEN 0 ELSE fat[cur]
  /\ UNCHANGED <<root, data, pc, todo, info, buf, slot, writing, manifest,
                 failure, runs>>

FreeEnd ==
  /\ pc = "free"
  /\ cur \notin Cluster \ seen
  /\ buf' = [buf EXCEPT ![slot] = Marked(buf[slot], "deleted")]
  /\ pc' = "scan"
  /\ UNCHANGED <<disk, todo, info, slot, cur, seen, writing, manifest, failure,
                 runs>>

(* Mutant: the directory in memory is dropped.                             *)
DirectoryNotWritten ==
  /\ pc = "directory"
  /\ IF Job0.op = "write"
       THEN pc' = "allocate" /\ UNCHANGED todo
       ELSE pc' = "next" /\ todo' = Tail(todo)
  /\ UNCHANGED <<disk, info, removal, writing, manifest, failure, runs>>

(* write_cluster of the directory, the end of remove_directory_entry.      *)
WriteDirectory ==
  /\ pc = "directory"
  /\ root' = buf
  /\ IF Job0.op = "write"
       THEN pc' = "allocate" /\ UNCHANGED todo
       ELSE pc' = "next" /\ todo' = Tail(todo)
  /\ UNCHANGED <<fat, data, info, removal, writing, manifest, failure, runs>>

Fail(reason) ==
  /\ pc' = "failed" /\ failure' = reason
  /\ UNCHANGED <<disk, todo, info, removal, writing, manifest, runs>>

Allocate ==
  /\ pc = "allocate"
  /\ \E s \in Allocations(fat, Job0.layout, ClustersFor(Job0.name)) :
       clusters' = s
  /\ idx' = 1 /\ pc' = "link"
  /\ UNCHANGED <<disk, todo, info, removal, manifest, failure, runs>>

AllocateFails ==
  /\ pc = "allocate"
  /\ Allocations(fat, Job0.layout, ClustersFor(Job0.name)) = {}
  /\ Fail("not enough free FATX clusters")

(* Mutants: the chain ends one cluster early; the index is not reset.      *)
LinkOneShort ==
  /\ pc = "link"
  /\ fat' = [fat EXCEPT ![clusters[idx]] =
               IF idx + 1 < Len(clusters) THEN clusters[idx + 1] ELSE EndOfChain]
  /\ IF idx < Len(clusters) THEN idx' = idx + 1 /\ UNCHANGED pc
                            ELSE idx' = 1 /\ pc' = "fill"
  /\ UNCHANGED <<root, data, todo, info, removal, clusters, manifest, failure,
                 runs>>

LinkOneNoReset ==
  /\ pc = "link"
  /\ fat' = [fat EXCEPT ![clusters[idx]] =
               IF idx < Len(clusters) THEN clusters[idx + 1] ELSE EndOfChain]
  /\ idx' = idx + 1
  /\ pc' = IF idx < Len(clusters) THEN "link" ELSE "fill"
  /\ UNCHANGED <<root, data, todo, info, removal, clusters, manifest, failure,
                 runs>>

(* write_fat_entry for the clusters in order, each link before its target. *)
LinkOne ==
  /\ pc = "link"
  /\ fat' = [fat EXCEPT ![clusters[idx]] =
               IF idx < Len(clusters) THEN clusters[idx + 1] ELSE EndOfChain]
  /\ IF idx < Len(clusters) THEN idx' = idx + 1 /\ UNCHANGED pc
                            ELSE idx' = 1 /\ pc' = "fill"
  /\ UNCHANGED <<root, data, todo, info, removal, clusters, manifest, failure,
                 runs>>

FillOne ==
  /\ pc = "fill"
  /\ data' = [data EXCEPT ![clusters[idx]] = NewBlock(Job0.name, idx)]
  /\ IF idx < Len(clusters) THEN idx' = idx + 1 /\ UNCHANGED pc
                            ELSE idx' = 1 /\ pc' = "add"
  /\ UNCHANGED <<fat, root, todo, info, removal, clusters, manifest, failure,
                 runs>>

(* add_directory_entry: one write of the directory cluster.                *)
AddEntry ==
  /\ pc = "add"
  /\ \E s \in FreeSlot(root) :
       root' = WithEntry(root, s, [mark |-> "live", name |-> Job0.name,
                                   start |-> clusters[1],
                                   size |-> Blocks[Job0.name]])
  /\ pc' = "readback"
  /\ UNCHANGED <<fat, data, todo, info, removal, writing, manifest, failure,
                 runs>>

AddFails ==
  /\ pc = "add"
  /\ FreeSlot(root) = {}
  /\ Fail("root directory is full")

(* The readback must equal the source; then the result is recorded.        *)
Readback ==
  /\ pc = "readback"
  /\ ReadFile(fat, root, data, Job0.name) = NewContent(Job0.name)
  /\ manifest' = Append(manifest, [name |-> Job0.name, start |-> clusters[1],
                                   count |-> Len(clusters)])
  /\ pc' = "next" /\ todo' = Tail(todo)
  /\ UNCHANGED <<disk, info, removal, writing, failure, runs>>

ReadbackFails ==
  /\ pc = "readback"
  /\ ReadFile(fat, root, data, Job0.name) # NewContent(Job0.name)
  /\ Fail("FATX readback mismatch")

Running == pc \notin {"idle", "done", "failed", "killed"}

(* The process dies between two writes.                                    *)
Kill ==
  /\ MayKill /\ Running
  /\ pc' = "killed"
  /\ UNCHANGED <<disk, todo, info, removal, writing, manifest, failure, runs>>

Step ==
  \/ Start \/ NextJob
  \/ ScanMatch \/ ScanEnd \/ FreeOne \/ FreeEnd \/ WriteDirectory
  \/ Allocate \/ AllocateFails \/ LinkOne \/ FillOne
  \/ AddEntry \/ AddFails \/ Readback \/ ReadbackFails

Next == Step \/ Kill

Spec == Init /\ [][Next]_vars

(* A run that is not killed goes on; nothing starts another one.           *)
FairSpec == Spec /\ WF_vars(Running /\ Step)

-----------------------------------------------------------------------------
TypeOK ==
  /\ fat \in [Cluster -> FatValue]
  /\ root \in Directory /\ buf \in Directory
  /\ data \in [Cluster -> Block]
  /\ pc \in PC
  /\ todo \in Seq(Job)
  /\ (Running /\ pc # "next") => todo # <<>>
  /\ info \in BOOLEAN
  /\ slot \in Slot
  /\ cur \in FatValue /\ seen \subseteq Cluster
  /\ clusters \in Seq(Cluster \ {RootCluster})
  /\ idx \in Nat \ {0}
  /\ pc \in {"link", "fill"} => idx <= Len(clusters)
  /\ pc \in {"link", "fill", "add", "readback"} => clusters # <<>>
  /\ manifest \in Seq([name : Name, start : Cluster, count : Nat])
  /\ failure \in Failure
  /\ runs \in Nat

(* No cluster belongs to the chains of two directory entries, in any state *)
(* of any run: neither the order of removal, allocation and linking, nor a *)
(* failed or killed run before this one, ever cross-links two files.       *)
NoCrossLink == Unshared(fat, root)

(* When clusters are about to be handed out, no entry that a reader can    *)
(* see leads to a free cluster: remove_directory_entry frees a chain before*)
(* the entry is gone, so a kill in between leaves such an entry, and it    *)
(* must be gone before the next allocation.                                *)
NoDanglingAtAllocation ==
  pc = "allocate" =>
    \A s \in LiveSlots(root) :
      \A c \in Chain(fat, root[s].start) : fat[c] # FreeCluster

(* The assertion at the end of write_path_file never fires: a file that    *)
(* found its clusters and its slot reads back as what was written.         *)
ReadbackAlwaysMatches == failure # "FATX readback mismatch"

(* And on a volume with 32-bit entries it fires only for a file that was   *)
(* given, behind its first cluster, one whose number is a 16-bit end mark. *)
MismatchMeansShortEnd ==
  failure = "FATX readback mismatch" =>
    \E i \in 2..Len(clusters) : clusters[i] \in ShortEnd

(* Between two jobs of a run on a volume with nothing lost, every cluster  *)
(* in use belongs to a live entry (or is the root directory).              *)
NoLeak ==
  (runs = 1 /\ pc \in {"next", "done"}) =>
    LET owned == UNION {Chain(fat, root[s].start) : s \in LiveSlots(root)}
    IN  \A c \in Cluster \ {RootCluster} : fat[c] # FreeCluster => c \in owned

(* When main returns, each result it printed and put into the manifest is  *)
(* still true: the file starts there and has that many clusters.           *)
ManifestDescribesDisk ==
  pc = "done" =>
    \A i \in DOMAIN manifest : \E s \in LiveSlots(root) :
      /\ root[s].name = manifest[i].name
      /\ root[s].start = manifest[i].start
      /\ Len(ClusterChain(fat, root[s].start)) = manifest[i].count

(* With --append-payload-info the finished volume boots: the payload offset*)
(* that linuxboot.cfg records is where the payload lies.                   *)
ConfigPointsAtPayload ==
  (pc = "done" /\ info) =>
    LET config == ReadFile(fat, root, data, ConfigName).blocks
    IN  \E s \in LiveSlots(root) :
          root[s].name = PayloadName /\ config[1].off = root[s].start

(* The volume the first run gets is sound.                                 *)
CameSound == Consistent(fat, root)

(* On a volume that came sound, whichever runs failed before, the manifest *)
(* that main prints at its end is true.                                    *)
ManifestTrueIfSound == CameSound => []ManifestDescribesDisk

(* And so is the offset in linuxboot.cfg, from which the loader finds the  *)
(* payload.                                                                *)
ConfigTrueIfSound == CameSound => []ConfigPointsAtPayload

(* The clusters a run has in hand: what free_chain has still to walk, or   *)
(* what it allocated and no directory entry leads to yet.                  *)
InHand ==
  CASE pc = "free" -> Chain(fat, cur)
    [] pc \in {"link", "fill", "add"} -> {clusters[i] : i \in DOMAIN clusters}
    [] OTHER -> {}

(* The files whose own chains are whole and theirs alone.                  *)
Intact(f, dir, hand) ==
  LET files == Chains(f, dir)
      Sound(x) == /\ dir[x.slot].start \in Cluster /\ RootCluster \notin x.chain
                  /\ \A c \in x.chain : f[c] # FreeCluster
                  /\ \A y \in files \ {x} : x.chain \cap y.chain = {}
                  /\ x.chain \cap hand = {}
  IN  {n \in Name : \E x \in files : x.slot \in NextMatch(dir, 1, n) /\ Sound(x)}

(* The file the run is removing or writing.                                *)
InWork == IF Running /\ pc # "next" THEN {Job0.name} ELSE {}

(* On a volume that came damaged, with chains that are circular, shared,   *)
(* out of range or freed in part, the damage does not spread: an intact    *)
(* file stays intact and reads as before until it is itself the one being  *)
(* removed or written.                                                     *)
DamageStays ==
  [][LET kept == Intact(fat, root, InHand) \ InWork
     IN  /\ kept \subseteq Intact(fat', root', InHand')
         /\ \A n \in kept :
              ReadFile(fat', root', data', n) = ReadFile(fat, root, data, n)]_vars

(* And every run comes to an end, whatever the chains it walks look like.  *)
RunEnds == Running ~> ~Running

-----------------------------------------------------------------------------
(* The promise of FileStore, kept by every step.                           *)

(* What stands for no file at all is not the name of one.                  *)
NoName == "no name"
ASSUME NameAssumption == NoName \notin Name

Busy == Running /\ pc # "next"
StoreView == INSTANCE FileStore WITH
  store <- [n \in Name |-> ReadFile(fat, root, data, n)],
  busy <- IF Busy THEN Job0.name ELSE NoName,
  goal <- IF ~ Busy THEN (IF pc \in {"failed", "killed"} THEN "abandoned"
                                                       ELSE "done")
          ELSE IF Job0.op = "remove" THEN Absent ELSE NewContent(Job0.name)

(* While one file is removed or replaced, every other file of the volume   *)
(* reads as before, whatever happens to the run; and a job that is not     *)
(* abandoned leaves its file absent, or with the new content.              *)
OtherFilesUntouched == StoreView!Spec
=============================================================================
