----------------------------- MODULE FatxVolume -----------------------------
(***************************************************************************)
(* The Xbox FATX volume as scripts/fatx_stage_boot.py reads and writes it: *)
(* a file allocation table, a root directory of one cluster and the data   *)
(* clusters.  Pure operators only; FatxStage adds the steps of a staging   *)
(* run.                                                                    *)
(*                                                                         *)
(* Abstractions.  A file name is a member of Name, which stands for one    *)
(* class of names equal up to case (the code compares name.lower()).  A    *)
(* file's length is counted in clusters, 0 included.  The content of a     *)
(* data cluster is a block record, never bytes.                            *)
(***************************************************************************)
EXTENDS Integers, Sequences, FiniteSets

CONSTANTS
  ClusterCount,   \* part.cluster_count: valid clusters are 1 .. ClusterCount-1
  SlotCount,      \* 64-byte entries in the one cluster of a directory
  Name,           \* file names, up to case
  ShortEnd        \* cluster numbers equal to a 16-bit end mark (see IsEnd)

ASSUME VolumeAssumption ==
  /\ ClusterCount \in Nat /\ ClusterCount > 2
  /\ SlotCount \in Nat /\ SlotCount > 0
  /\ ShortEnd \subseteq 1..(ClusterCount - 1)

Cluster == 1..(ClusterCount - 1)
RootCluster == 1                    \* ROOT_CLUSTER
Slot == 1..SlotCount

FreeCluster == 0                    \* FREE_CLUSTER
EndOfChain == ClusterCount          \* END_OF_CHAIN: any value out of range

(* What one entry of the table may hold.                                   *)
FatValue == 0..ClusterCount

(* First byte of a directory entry: a length (live), 0xE5, 0x00 or 0xFF.   *)
Mark == {"live", "deleted", "zero", "ff"}
Terminator == {"zero", "ff"}

Entry == [mark : Mark, name : Name, start : FatValue, size : Nat]
Directory == [Slot -> Entry]

(* An entry with its first byte changed, the rest as it was.               *)
Marked(e, m) == [mark |-> m, name |-> e.name, start |-> e.start, size |-> e.size]

-----------------------------------------------------------------------------
(* Chains.                                                                 *)

(* The terminators free_chain and cluster_chain compare a link with:       *)
(* 0xFFFFFFFF and 0xFFFFFFF8, never a valid cluster, but also 0xFFFF and   *)
(* 0xFFF8, which are valid cluster numbers on a volume whose table has     *)
(* 32-bit entries; ShortEnd holds those, scaled to the volume.  A free     *)
(* entry (0) ends the walk as well.                                        *)
IsEnd(v) == v \notin Cluster \/ v \in ShortEnd

(* cluster_chain: the clusters in the order of the walk, which stops at an *)
(* end mark, at a value out of range and at a cluster seen before.         *)
Hop(fat) ==
  [c \in FatValue |-> IF c \notin Cluster \/ IsEnd(fat[c]) THEN 0 ELSE fat[c]]

Walk(fat, start) ==
  LET hop == Hop(fat)
      visit[k \in Cluster] == IF k = 1 THEN start ELSE hop[visit[k - 1]]
  IN  visit

ClusterChain(fat, start) ==
  LET visit == Walk(fat, start)
      Fresh(k) == visit[k] \in Cluster /\ \A j \in 1..(k - 1) : visit[j] # visit[k]
      length == Cardinality({k \in Cluster : \A j \in 1..k : Fresh(j)})
  IN  [k \in 1..length |-> visit[k]]

(* The sets of clusters that no link leads out of.                         *)
ClosedSets(fat) ==
  {S \in SUBSET Cluster : \A c \in S : fat[c] \in Cluster => fat[c] \in S}

(* The clusters the links of the table lead to from start, start included: *)
(* the least closed set around it.  Unlike ClusterChain it trusts no end   *)
(* mark that is also a cluster number: it is the chain as it is on disk.   *)
Chain(fat, start) ==
  IF start \in Cluster
    THEN Cluster \ UNION {Cluster \ S : S \in {T \in ClosedSets(fat) : start \in T}}
    ELSE {}

-----------------------------------------------------------------------------
(* Directory scans.  Every scan stops at the first terminator.             *)

Visible(dir, s) == \A r \in 1..s : dir[r].mark \notin Terminator

(* decode_name succeeds and the name is the one looked for.                *)
Matches(dir, s, n) ==
  Visible(dir, s) /\ dir[s].mark = "live" /\ dir[s].name = n

LiveSlots(dir) == {s \in Slot : Visible(dir, s) /\ dir[s].mark = "live"}

(* The next entry for n at or after slot s, as a set of at most one slot   *)
(* (the loop of remove_directory_entry; find_entry starts at slot 1).      *)
NextMatch(dir, s, n) ==
  {r \in Slot : /\ r >= s
                /\ Matches(dir, r, n)
                /\ \A q \in s..(r - 1) : ~ Matches(dir, q, n)}

(* find_root_slot, as a set that is empty when the directory is full: the  *)
(* first deleted slot before the terminator, or the terminator itself.     *)
FreeSlot(dir) ==
  LET deleted == {s \in Slot : Visible(dir, s) /\ dir[s].mark = "deleted"}
      terminator == {s \in Slot : /\ dir[s].mark \in Terminator
                                  /\ \A r \in 1..(s - 1) :
                                       dir[r].mark \notin Terminator}
      candidates == IF deleted # {} THEN deleted ELSE terminator
  IN  {s \in candidates : \A r \in candidates : s <= r}

(* Mutant: the entry after the new one is ended whatever it holds.         *)
WithEntryUnguarded(dir, s, entry) ==
  [r \in Slot |->
     IF r = s THEN entry
     ELSE IF r = s + 1 THEN Marked(dir[r], "ff")
     ELSE dir[r]]

(* add_directory_entry: the entry goes into slot s and a 0x00 right after  *)
(* it becomes 0xFF.                                                        *)
WithEntry(dir, s, entry) ==
  [r \in Slot |->
     IF r = s THEN entry
     ELSE IF r = s + 1 /\ dir[r].mark = "zero" THEN Marked(dir[r], "ff")
     ELSE dir[r]]

-----------------------------------------------------------------------------
(* Allocation.  Cluster 1 is never handed out.                             *)

FreeClusters(fat) == {c \in Cluster : c > RootCluster /\ fat[c] = FreeCluster}

(* How many free clusters precede c.                                       *)
FreeRank(fat, c) == Cardinality({d \in FreeClusters(fat) : d < c})

(* First clusters of runs of n free clusters.                              *)
RunStarts(fat, n) ==
  {c \in FreeClusters(fat) : \A d \in c..(c + n - 1) : d \in FreeClusters(fat)}

(* The rank of the i-th cluster a fragmented allocation takes out of m     *)
(* free ones: every second one, then the skipped ones in order.            *)
FragmentedRank(i, m) ==
  LET odd == (m + 1) \div 2
  IN  IF i <= odd THEN 2 * (i - 1) ELSE 2 * (i - odd) - 1

Layouts == {"normal", "contiguous", "fragmented"}

(* The clusters that allocate_clusters, allocate_contiguous_clusters or    *)
(* allocate_fragmented_clusters hand out for n clusters, as a set of one   *)
(* sequence, or none when they raise "not enough ... free clusters".       *)
Allocations(fat, layout, n) ==
  LET m == Cardinality(FreeClusters(fat))
      Right(s, i) ==
        CASE layout = "normal"     -> FreeRank(fat, s[i]) = i - 1
          [] layout = "fragmented" -> FreeRank(fat, s[i]) = FragmentedRank(i, m)
          [] layout = "contiguous" -> s[i] = s[1] + i - 1
  IN  {s \in [1..n -> FreeClusters(fat)] :
         /\ \A i \in 1..n : Right(s, i)
         /\ layout = "contiguous" => \A c \in RunStarts(fat, n) : s[1] <= c}

-----------------------------------------------------------------------------
(* Reading a file.                                                         *)

Absent == [status |-> "absent", blocks |-> <<>>]
Broken == [status |-> "broken", blocks |-> <<>>]   \* short chain: EOFError
Content(blocks) == [status |-> "whole", blocks |-> blocks]

(* read_path_file for a file of the root directory: the first entry with   *)
(* that name, then size clusters along the chain.                          *)
ReadFile(fat, dir, data, n) ==
  IF NextMatch(dir, 1, n) = {} THEN Absent
  ELSE LET s == CHOOSE r \in NextMatch(dir, 1, n) : TRUE
           chain == ClusterChain(fat, dir[s].start)
       IN  IF Len(chain) < dir[s].size THEN Broken
           ELSE Content([i \in 1..dir[s].size |-> data[chain[i]]])
=============================================================================
