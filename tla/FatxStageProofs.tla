--------------------------- MODULE FatxStageProofs ---------------------------
(***************************************************************************)
(* For every volume size, directory size, set of names and plan, and any   *)
(* sequence of runs, failed, killed or finished: no two directory entries  *)
(* share a cluster, no other file changes (FileStore), nothing is lost,    *)
(* what was written reads back, and the manifest and the payload's offset  *)
(* in linuxboot.cfg are true; if the volume was sound when the first run   *)
(* got it.  Each theorem says what it asks of the plans; the last one, that*)
(* the plans main makes of its options meet that.                          *)
(***************************************************************************)
EXTENDS FatxStage, FiniteSetTheorems, WellFoundedInduction, TLAPS

-----------------------------------------------------------------------------
(* Chains, directories and allocations of a FATX volume: what a proof      *)
(* about the stager needs to know of the operators of FatxVolume.          *)
Table == [Cluster -> FatValue]

(* A chain is the least set around its start that no link leads out of.    *)
LEMMA ChainLeast ==
  ASSUME NEW f, NEW a, NEW S \in SUBSET Cluster,
         a \in Cluster => a \in S,
         \A c \in S : f[c] \in Cluster => f[c] \in S
  PROVE  Chain(f, a) \subseteq S
BY DEF Chain, ClosedSets

LEMMA ChainStart ==
  ASSUME NEW f, NEW a \in Cluster
  PROVE  a \in Chain(f, a)
BY DEF Chain

LEMMA ChainClosed ==
  ASSUME NEW f, NEW a, NEW c \in Chain(f, a), f[c] \in Cluster
  PROVE  f[c] \in Chain(f, a)
BY DEF Chain, ClosedSets

LEMMA ChainOfClusters ==
  ASSUME NEW f, NEW a
  PROVE  /\ Chain(f, a) \subseteq Cluster
         /\ a \notin Cluster => Chain(f, a) = {}
BY DEF Chain

(* Cutting links of a chain, or changing links elsewhere, adds nothing.    *)
LEMMA ChainShrinks ==
  ASSUME NEW f, NEW g, NEW a,
         \A c \in Chain(f, a) : g[c] = f[c] \/ g[c] \notin Cluster
  PROVE  Chain(g, a) \subseteq Chain(f, a)
<1>1. \A c \in Chain(f, a) : g[c] \in Cluster => g[c] \in Chain(f, a)
  BY ChainClosed
<1>2. a \in Cluster => a \in Chain(f, a)
  BY ChainStart
<1>3. Chain(f, a) \in SUBSET Cluster
  BY ChainOfClusters
<1> QED
  BY <1>1, <1>2, <1>3, ChainLeast

(* What follows a link is part of the chain.                               *)
LEMMA ChainTail ==
  ASSUME NEW f, NEW a \in Cluster, f[a] \in Cluster
  PROVE  Chain(f, f[a]) \subseteq Chain(f, a)
<1>1. f[a] \in Chain(f, a)
  BY ChainStart, ChainClosed
<1>2. \A c \in Chain(f, a) : f[c] \in Cluster => f[c] \in Chain(f, a)
  BY ChainClosed
<1>3. Chain(f, a) \in SUBSET Cluster
  BY ChainOfClusters
<1> QED
  BY <1>1, <1>2, <1>3, ChainLeast

(* A chain whose links stand is the same chain.                            *)
LEMMA ChainSame ==
  ASSUME NEW f, NEW g, NEW a, \A c \in Chain(f, a) : g[c] = f[c]
  PROVE  Chain(g, a) = Chain(f, a)
<1>1. Chain(g, a) \subseteq Chain(f, a)
  BY ChainShrinks
<1>2. Chain(f, a) \subseteq Chain(g, a)
  <2>1. \A c \in Chain(g, a) : f[c] = g[c]
    BY <1>1
  <2> QED  BY <2>1, ChainShrinks
<1> QED  BY <1>1, <1>2

(* Cut behind its first cluster, the rest of a chain is still a chain.     *)
LEMMA ChainCut ==
  ASSUME NEW f \in Table, NEW a \in Cluster, NEW x
  PROVE  Chain(f, a) \subseteq {a} \cup Chain([f EXCEPT ![a] = x], f[a])
<1> DEFINE g == [f EXCEPT ![a] = x]
           S == {a} \cup Chain(g, f[a])
<1>1. S \in SUBSET Cluster
  BY ChainOfClusters
<1>2. ASSUME NEW c \in S, f[c] \in Cluster PROVE f[c] \in S
  <2>1. CASE c = a
    BY <1>2, <2>1, ChainStart
  <2>2. CASE c # a
    <3>1. c \in Chain(g, f[a]) /\ g[c] = f[c]
      BY <1>1, <2>2 DEF Table
    <3>2. g[c] \in Chain(g, f[a])
      <4> HIDE DEF g
      <4> QED  BY <1>2, <3>1, ChainClosed
    <3> QED  BY <3>1, <3>2
  <2> QED  BY <2>1, <2>2
<1>3. a \in S
  OBVIOUS
<1> HIDE DEF S
<1>4. Chain(f, a) \subseteq S
  BY <1>1, <1>2, <1>3, ChainLeast
<1> QED  BY <1>4 DEF S

(* A chain whose first cluster leads nowhere is that cluster.              *)
LEMMA ChainAlone ==
  ASSUME NEW f, NEW a \in Cluster, f[a] \notin Cluster
  PROVE  Chain(f, a) = {a}
<1> DEFINE S == {a}
<1>1. S \in SUBSET Cluster /\ a \in S /\ \A c \in S : f[c] \in Cluster => f[c] \in S
  OBVIOUS
<1> HIDE DEF S
<1>2. Chain(f, a) \subseteq S
  BY <1>1, ChainLeast
<1> QED  BY <1>2, ChainStart DEF S

-----------------------------------------------------------------------------
(* A directory whose terminators are followed by nothing else.             *)
PackedDir(dir) ==
  \A s \in Slot : dir[s].mark \in Terminator =>
    \A r \in s..SlotCount : dir[r].mark \in Terminator

(* Deleting entries in memory hides them and leaves the others in place.   *)
LEMMA Deleting ==
  ASSUME NEW dir \in Directory, NEW old \in Directory,
         \A s \in Slot : \/ dir[s] = old[s]
                         \/ /\ s \in LiveSlots(old)
                            /\ dir[s] = Marked(old[s], "deleted")
  PROVE  /\ \A s \in LiveSlots(dir) : s \in LiveSlots(old) /\ dir[s] = old[s]
         /\ \A s \in Slot : Visible(dir, s) <=> Visible(old, s)
         /\ PackedDir(old) => PackedDir(dir)
<1>0. /\ \A e : Marked(e, "deleted").mark = "deleted"
      /\ \A s \in LiveSlots(old) : old[s].mark = "live"
  BY DEF Marked, LiveSlots
<1>1. \A s \in Slot : dir[s].mark \in Terminator <=> old[s].mark \in Terminator
  BY <1>0 DEF Terminator
<1>2. \A s \in Slot : \A r \in 1..s : r \in Slot
  BY VolumeAssumption DEF Slot
<1>3. ASSUME NEW s \in Slot PROVE Visible(dir, s) <=> Visible(old, s)
  <2>1. \A r \in 1..s : dir[r].mark \in Terminator <=> old[r].mark \in Terminator
    BY <1>1, <1>2
  <2> QED
    BY <2>1, Zenon DEF Visible
<1>4. \A s \in LiveSlots(dir) : s \in LiveSlots(old) /\ dir[s] = old[s]
  <2>1. \A s \in LiveSlots(dir) :
          s \in Slot /\ Visible(dir, s) /\ dir[s].mark = "live"
    BY DEF LiveSlots
  <2>2. \A s \in LiveSlots(dir) : dir[s] = old[s]
    BY <1>0, <2>1
  <2> QED
    BY <1>3, <2>1, <2>2 DEF LiveSlots
<1>5. PackedDir(old) => PackedDir(dir)
  <2>1. \A s \in Slot : \A r \in s..SlotCount : r \in Slot
    BY VolumeAssumption DEF Slot
  <2> QED
    BY <1>1, <2>1, Zenon DEF PackedDir
<1> QED
  BY <1>3, <1>4, <1>5

(* A new entry is the only new file, and the directory stays packed.       *)
LEMMA Adding ==
  ASSUME NEW dir \in Directory, PackedDir(dir), NEW s \in FreeSlot(dir),
         NEW e, e.mark = "live"
  PROVE  /\ s \in Slot /\ WithEntry(dir, s, e)[s] = e
         /\ s \notin LiveSlots(dir)
         /\ \A t \in LiveSlots(WithEntry(dir, s, e)) \ {s} :
              t \in LiveSlots(dir) /\ WithEntry(dir, s, e)[t] = dir[t]
         /\ PackedDir(WithEntry(dir, s, e))
<1> DEFINE new == WithEntry(dir, s, e)
<1>1. /\ s \in Slot
      /\ \A r \in 1..(s - 1) : dir[r].mark \notin Terminator
      /\ dir[s].mark # "live"
  BY VolumeAssumption DEF FreeSlot, Visible, Slot, Terminator
<1>2. new[s] = e /\ new[s].mark \notin Terminator
  BY <1>1 DEF WithEntry, Terminator
<1>3. \A r \in Slot \ {s} :
        /\ new[r].mark \in Terminator <=> dir[r].mark \in Terminator
        /\ new[r].mark = "live" => new[r] = dir[r]
  BY <1>1 DEF WithEntry, Marked, Terminator
<1>4. ASSUME NEW t \in LiveSlots(new) \ {s}
      PROVE  t \in LiveSlots(dir) /\ new[t] = dir[t]
  <2>1. t \in Slot /\ new[t].mark = "live" /\ Visible(new, t) /\ new[t] = dir[t]
    BY <1>3 DEF LiveSlots
  <2>2. dir[t].mark \notin Terminator
    BY <2>1 DEF Terminator
  <2>3. ASSUME NEW r \in 1..t PROVE dir[r].mark \notin Terminator
    <3>1. r \in Slot /\ t \in r..SlotCount
      BY <2>1, VolumeAssumption DEF Slot
    <3> QED
      BY <3>1, <2>2, Zenon DEF PackedDir
  <2> QED
    BY <2>1, <2>3 DEF LiveSlots, Visible
<1>5. PackedDir(new)
  <2> SUFFICES ASSUME NEW q \in Slot, new[q].mark \in Terminator,
                      NEW r \in q..SlotCount
               PROVE  new[r].mark \in Terminator
    BY DEF PackedDir
  <2>1. q # s /\ dir[q].mark \in Terminator /\ r \in Slot
    BY <1>2, <1>3 DEF Slot
  <2>2. dir[r].mark \in Terminator
    BY <2>1 DEF PackedDir
  <2>3. r # s
    BY <1>1, <2>1 DEF Slot
  <2> QED
    BY <1>3, <2>1, <2>2, <2>3
<1> HIDE DEF new
<1> QED
  BY <1>1, <1>2, <1>4, <1>5 DEF LiveSlots, new

-----------------------------------------------------------------------------
(* Every layout hands out free clusters, none of them twice.               *)
LEMMA AllocationsDistinct ==
  ASSUME NEW f \in Table, NEW layout \in Layouts, NEW n \in Nat \ {0},
         NEW s \in Allocations(f, layout, n)
  PROVE  /\ s \in [1..n -> FreeClusters(f)]
         /\ \A i, j \in 1..n : s[i] = s[j] => i = j
<1> DEFINE m == Cardinality(FreeClusters(f))
           odd == (m + 1) \div 2
<1>1. s \in [1..n -> FreeClusters(f)]
  BY DEF Allocations
<1>2. FreeClusters(f) \subseteq Int
  BY VolumeAssumption DEF FreeClusters, Cluster
<1>3. CASE layout = "normal"
  <2>1. \A i \in 1..n : FreeRank(f, s[i]) = i - 1
    BY <1>3 DEF Allocations
  <2>2. \A i, j \in 1..n : s[i] = s[j] => i - 1 = j - 1
    BY <2>1
  <2> QED
    BY <1>1, <2>2
<1>4. CASE layout = "contiguous"
  <2>1. \A i \in 1..n : s[i] = s[1] + i - 1
    BY <1>4 DEF Allocations
  <2>2. s[1] \in Int
    BY <1>1, <1>2
  <2> QED
    BY <1>1, <2>1, <2>2
<1>5. CASE layout = "fragmented"
  <2>1. \A i \in 1..n : FreeRank(f, s[i]) = FragmentedRank(i, m)
    BY <1>5 DEF Allocations
  <2>2. m \in Nat
    <3>1. IsFiniteSet(1..(ClusterCount - 1))
      BY VolumeAssumption, FS_Interval
    <3>2. IsFiniteSet(FreeClusters(f))
      BY <3>1, FS_Subset DEF FreeClusters, Cluster
    <3> QED
      BY <3>2, FS_CardinalityType
  <2>3. odd \in Int
    BY <2>2
  <2> HIDE DEF m
  <2>4. \A i, j \in 1..n : FragmentedRank(i, m) = FragmentedRank(j, m) => i = j
    <3> DEFINE o == (m + 1) \div 2
    <3>1. o \in Int
      BY <2>2
    <3>2. \A i \in 1..n : FragmentedRank(i, m) =
                            IF i <= o THEN 2 * (i - 1) ELSE 2 * (i - o) - 1
      BY DEF FragmentedRank
    <3> HIDE DEF o
    <3> QED
      BY <3>1, <3>2
  <2> QED
    BY <1>1, <2>1, <2>4
<1> QED
  BY <1>3, <1>4, <1>5 DEF Layouts

-----------------------------------------------------------------------------
(* Reading along a chain.  A set of numbers has a least member; with it    *)
(* the walk is shown to exist and to stay in the chain.                    *)
LEMMA Least ==
  ASSUME NEW T \in SUBSET Nat, T # {}
  PROVE  \E m \in T : \A k \in T : m <= k
<1> DEFINE R == OpToRel(<, Nat)
<1>1. PICK m \in T : \A k \in T : <<k, m>> \notin R
  <2>1. IsWellFoundedOn(R, Nat)
    BY NatLessThanWellFounded
  <2> HIDE DEF R
  <2> QED  BY <2>1, WFMin
<1>2. \A k \in T : ~ (k < m)
  BY <1>1 DEF OpToRel
<1> QED  BY <1>2

IsWalk(v, f, a) == v = [k \in Cluster |-> IF k = 1 THEN a ELSE Hop(f)[v[k - 1]]]

LEMMA HopType == ASSUME NEW f PROVE Hop(f) \in [FatValue -> FatValue]
BY VolumeAssumption DEF Hop, IsEnd, FatValue, Cluster

LEMMA WalkExists ==
  ASSUME NEW f, NEW a \in FatValue
  PROVE  \E v \in [Cluster -> FatValue] : IsWalk(v, f, a)
<1> DEFINE Part(w, k) == w[1] = a /\ \A i \in 2..k : w[i] = Hop(f)[w[i - 1]]
           Good(k) == \E w \in [1..k -> FatValue] : Part(w, k)
           T == {k \in Cluster : ~ Good(k)}
<1>1. Cluster = 1..(ClusterCount - 1) /\ ClusterCount - 1 \in Cluster
  BY VolumeAssumption DEF Cluster
<1>2. T = {}
  <2> SUFFICES ASSUME T # {} PROVE FALSE
    OBVIOUS
  <2>1. PICK m \in T : \A k \in T : m <= k
    <3>1. T \in SUBSET Nat
      BY <1>1, VolumeAssumption
    <3> HIDE DEF T
    <3> QED  BY <3>1, Least
  <2>2. m \in Nat /\ m >= 1
    BY <1>1, VolumeAssumption
  <2>3. CASE m = 1
    <3>1. [i \in 1..1 |-> a] \in [1..1 -> FatValue] /\ Part([i \in 1..1 |-> a], 1)
      OBVIOUS
    <3> QED  BY <2>1, <2>3, <3>1
  <2>4. CASE m > 1
    <3>1. m - 1 \in Cluster /\ m - 1 \notin T
      <4>1. m \in Cluster
        BY <2>1
      <4>2. m - 1 \in Cluster
        BY <1>1, <2>2, <2>4, <4>1, VolumeAssumption
      <4> HIDE DEF T
      <4>3. m - 1 \notin T
        BY <2>1, <2>2
      <4> QED  BY <4>2, <4>3
    <3>2. PICK w \in [1..(m - 1) -> FatValue] : Part(w, m - 1)
      BY <3>1
    <3> DEFINE u == [i \in 1..m |-> IF i = m THEN Hop(f)[w[m - 1]] ELSE w[i]]
    <3>3. u \in [1..m -> FatValue]
      BY <2>2, <2>4, <3>2, HopType
    <3>4. Part(u, m)
      BY <2>2, <2>4, <3>2
    <3> QED  BY <2>1, <3>3, <3>4
  <2> QED  BY <2>2, <2>3, <2>4
<1>3. PICK w \in [1..(ClusterCount - 1) -> FatValue] : Part(w, ClusterCount - 1)
  BY <1>1, <1>2
<1>4. IsWalk(w, f, a)
  BY <1>1, <1>3, VolumeAssumption DEF IsWalk
<1> QED  BY <1>1, <1>3, <1>4

LEMMA WalkFacts ==
  ASSUME NEW f, NEW a \in FatValue
  PROVE  IsWalk(Walk(f, a), f, a)
<1>1. Walk(f, a) = CHOOSE v : IsWalk(v, f, a)
  BY DEF Walk, IsWalk
<1> QED  BY <1>1, WalkExists

LEMMA WalkType ==
  ASSUME NEW f, NEW a \in FatValue
  PROVE  Walk(f, a) \in [Cluster -> FatValue]
<1> DEFINE v == Walk(f, a)
           T == {k \in Cluster : v[k] \notin FatValue}
<1>1. v = [k \in Cluster |-> IF k = 1 THEN a ELSE Hop(f)[v[k - 1]]]
  BY WalkFacts DEF IsWalk
<1> HIDE DEF v
<1>2. T = {}
  <2> SUFFICES ASSUME T # {} PROVE FALSE
    OBVIOUS
  <2>1. PICK m \in T : \A k \in T : m <= k
    <3>1. T \in SUBSET Nat
      BY VolumeAssumption DEF Cluster
    <3> HIDE DEF T
    <3> QED  BY <3>1, Least
  <2>2. m \in Cluster /\ v[m] \notin FatValue
    OBVIOUS
  <2>3. m # 1
    BY <1>1, <2>2
  <2>4. m - 1 \in Cluster /\ m - 1 \notin T
    BY <2>1, <2>2, <2>3, VolumeAssumption DEF Cluster
  <2>5. v[m] = Hop(f)[v[m - 1]]
    BY <1>1, <2>2, <2>3
  <2> QED  BY <2>2, <2>4, <2>5, HopType
<1> QED  BY <1>1, <1>2 DEF v

(* The walk stays in the chain, and sees no table elsewhere.               *)
LEMMA WalkInChain ==
  ASSUME NEW f, NEW g, NEW a \in FatValue,
         \A c \in Chain(f, a) : g[c] = f[c]
  PROVE  \A k \in Cluster :
           /\ Walk(g, a)[k] = Walk(f, a)[k]
           /\ Walk(f, a)[k] \in Cluster => Walk(f, a)[k] \in Chain(f, a)
<1> DEFINE v == Walk(f, a)
           u == Walk(g, a)
           Good(k) == u[k] = v[k] /\ (v[k] \in Cluster => v[k] \in Chain(f, a))
           T == {k \in Cluster : ~ Good(k)}
<1>1. /\ \A k \in Cluster : v[k] = IF k = 1 THEN a ELSE Hop(f)[v[k - 1]]
      /\ \A k \in Cluster : u[k] = IF k = 1 THEN a ELSE Hop(g)[u[k - 1]]
  BY WalkFacts DEF IsWalk
<1> HIDE DEF v, u
<1>2. T = {}
  <2> SUFFICES ASSUME T # {} PROVE FALSE
    OBVIOUS
  <2>1. PICK m \in T : \A k \in T : m <= k
    <3>1. T \in SUBSET Nat
      BY VolumeAssumption DEF Cluster
    <3> HIDE DEF T
    <3> QED  BY <3>1, Least
  <2>2. m \in Cluster /\ m \in Nat /\ m >= 1
    BY VolumeAssumption DEF Cluster
  <2>3. CASE m = 1
    <3>1. v[m] = a /\ u[m] = a
      BY <1>1, <2>2, <2>3
    <3> QED  BY <2>1, <3>1, ChainStart
  <2>4. CASE m > 1
    <3>1. m - 1 \in Cluster /\ m - 1 \notin T
      BY <2>1, <2>2, <2>4, VolumeAssumption DEF Cluster
    <3> DEFINE c == v[m - 1]
    <3>2. u[m - 1] = c /\ (c \in Cluster => c \in Chain(f, a))
      BY <3>1
    <3>3. v[m] = Hop(f)[c] /\ u[m] = Hop(g)[c]
      BY <1>1, <2>2, <2>4, <3>2
    <3> HIDE DEF c
    <3>4. c \in FatValue
      <4>1. v \in [Cluster -> FatValue]
        BY WalkType DEF v
      <4> QED  BY <3>1, <4>1 DEF c
    <3>5. CASE c \notin Cluster
      <4>1. v[m] = 0 /\ u[m] = 0
        BY <3>3, <3>4, <3>5 DEF Hop
      <4>2. 0 \notin Cluster
        BY VolumeAssumption DEF Cluster
      <4> QED  BY <2>1, <4>1, <4>2
    <3>6. CASE c \in Cluster
      <4>1. c \in Chain(f, a) /\ g[c] = f[c]
        BY <3>2, <3>6
      <4>2. v[m] = u[m] /\ v[m] = IF IsEnd(f[c]) THEN 0 ELSE f[c]
        BY <3>3, <3>4, <3>6, <4>1 DEF Hop
      <4>3. v[m] \in Cluster => v[m] \in Chain(f, a)
        <5>1. 0 \notin Cluster
          BY VolumeAssumption DEF Cluster
        <5>2. v[m] \in Cluster => v[m] = f[c]
          BY <4>2, <5>1
        <5> QED  BY <4>1, <5>2, ChainClosed
      <4> QED  BY <2>1, <4>2, <4>3
    <3> QED  BY <3>5, <3>6
  <2> QED  BY <2>2, <2>3, <2>4
<1> QED  BY <1>2 DEF v, u

(* Neither does cluster_chain.                                             *)
LEMMA ClusterChainKept ==
  ASSUME NEW f, NEW g, NEW a \in FatValue,
         \A c \in Chain(f, a) : g[c] = f[c]
  PROVE  /\ ClusterChain(g, a) = ClusterChain(f, a)
         /\ Len(ClusterChain(f, a)) \in Nat
         /\ \A i \in 1..Len(ClusterChain(f, a)) : ClusterChain(f, a)[i] \in Chain(f, a)
<1> DEFINE v == Walk(f, a)
           Fresh(k) == v[k] \in Cluster /\ \A j \in 1..(k - 1) : v[j] # v[k]
           K == {k \in Cluster : \A j \in 1..k : Fresh(j)}
           length == Cardinality(K)
<1>1. ClusterChain(f, a) = [k \in 1..length |-> v[k]]
  BY DEF ClusterChain
<1>2. Walk(g, a) = v
  <2>1. Walk(g, a) \in [Cluster -> FatValue] /\ v \in [Cluster -> FatValue]
    BY WalkType
  <2> QED  BY <2>1, WalkInChain
<1>3. ClusterChain(g, a) = ClusterChain(f, a)
  BY <1>2 DEF ClusterChain
<1>4. IsFiniteSet(K) /\ length \in Nat
  <2>1. IsFiniteSet(1..(ClusterCount - 1))
    BY VolumeAssumption, FS_Interval
  <2>2. IsFiniteSet(K)
    BY <2>1, FS_Subset DEF Cluster
  <2> QED  BY <2>2, FS_CardinalityType
<1>5. ASSUME NEW i \in 1..length PROVE v[i] \in Chain(f, a)
  <2>1. i \in Nat /\ i >= 1
    BY <1>4
  <2>2. i \in K
    <3> SUFFICES ASSUME i \notin K PROVE FALSE
      OBVIOUS
    <3>1. K \subseteq 1..(i - 1)
      <4> SUFFICES ASSUME NEW k \in K, k >= i PROVE FALSE
        BY <2>1, VolumeAssumption DEF Cluster
      <4>1. i \in Cluster /\ \A j \in 1..i : j \in 1..k
        BY <2>1, VolumeAssumption DEF Cluster
      <4> QED  BY <4>1
    <3>2. IsFiniteSet(1..(i - 1)) /\ Cardinality(1..(i - 1)) = i - 1
      BY <2>1, FS_Interval
    <3>3. length <= i - 1
      <4>1. Cardinality(K) <= Cardinality(1..(i - 1))
        <5> HIDE DEF K
        <5> QED  BY <3>1, <3>2, FS_Subset
      <4> HIDE DEF K
      <4> QED  BY <4>1, <3>2
    <3> HIDE DEF length
    <3> QED  BY <1>4, <2>1, <3>3, VolumeAssumption DEF Cluster
  <2>3. i \in Cluster /\ v[i] \in Cluster
    BY <2>1, <2>2
  <2> QED  BY <2>3, WalkInChain
<1> HIDE DEF v, length
<1>6. Len(ClusterChain(f, a)) = length
  BY <1>1, <1>4
<1> QED  BY <1>1, <1>3, <1>4, <1>5, <1>6

(* Clusters linked one to the next, each only once, the last to none.      *)
Linked(f, s) ==
  /\ s \in Seq(Cluster) /\ s # <<>>
  /\ \A i, j \in 1..Len(s) : s[i] = s[j] => i = j
  /\ \A i \in 1..Len(s) :
       f[s[i]] = IF i < Len(s) THEN s[i + 1] ELSE EndOfChain

LEMMA LinkedFacts ==
  ASSUME NEW f, NEW s, Linked(f, s)
  PROVE  /\ Len(s) \in Nat \ {0} /\ Len(s) <= ClusterCount - 1
         /\ DOMAIN s = 1..Len(s) /\ \A i \in 1..Len(s) : s[i] \in Cluster
         /\ EndOfChain \notin Cluster /\ EndOfChain \in FatValue
<1>1. Len(s) \in Nat \ {0} /\ DOMAIN s = 1..Len(s)
      /\ \A i \in 1..Len(s) : s[i] \in Cluster
  BY DEF Linked
<1>2. Len(s) <= ClusterCount - 1
  <2>1. /\ IsFiniteSet(Cluster) /\ Cardinality(Cluster) = ClusterCount - 1
    BY VolumeAssumption, FS_Interval DEF Cluster
  <2>2. IsFiniteSet(1..Len(s)) /\ Cardinality(1..Len(s)) = Len(s)
    BY <1>1, FS_Interval
  <2>3. s \in Injection(1..Len(s), Cluster)
    BY <1>1 DEF Linked, Injection, IsInjective
  <2> QED  BY <2>1, <2>2, <2>3, FS_Injection
<1> QED  BY <1>1, <1>2, VolumeAssumption DEF EndOfChain, Cluster, FatValue

(* The chain on disk holds all of them.                                    *)
LEMMA LinkedInChain ==
  ASSUME NEW f, NEW s, Linked(f, s)
  PROVE  \A i \in 1..Len(s) : s[i] \in Chain(f, s[1])
<1> DEFINE T == {i \in 1..Len(s) : s[i] \notin Chain(f, s[1])}
<1> SUFFICES ASSUME T # {} PROVE FALSE
  OBVIOUS
<1>1. PICK m \in T : \A k \in T : m <= k
  <2>1. T \in SUBSET Nat
    BY LinkedFacts
  <2> HIDE DEF T
  <2> QED  BY <2>1, Least
<1>2. m # 1
  BY LinkedFacts, ChainStart
<1>3. m - 1 \in 1..Len(s) /\ m - 1 < Len(s) /\ (m - 1) + 1 = m /\ m - 1 \notin T
  BY <1>1, <1>2, LinkedFacts
<1>4. s[m - 1] \in Chain(f, s[1]) /\ f[s[m - 1]] = s[m] /\ s[m] \in Cluster
  BY <1>3, LinkedFacts DEF Linked
<1> QED  BY <1>4, ChainClosed

LEMMA HopOf ==
  ASSUME NEW f, NEW c \in Cluster
  PROVE  Hop(f)[c] = IF IsEnd(f[c]) THEN 0 ELSE f[c]
<1>1. c \in FatValue
  BY VolumeAssumption DEF Cluster, FatValue
<1> QED  BY <1>1 DEF Hop

(* The walk along them goes from each to the next or gives up, and a       *)
(* reader, who trusts the end marks, sees at most these clusters.          *)
LEMMA LinkedWalk ==
  ASSUME NEW f, NEW s, Linked(f, s), NEW k \in 2..Len(s)
  PROVE  Hop(f)[s[k - 1]] = IF s[k] \in ShortEnd THEN 0 ELSE s[k]
<1>1. /\ k - 1 \in 1..Len(s) /\ k - 1 < Len(s) /\ (k - 1) + 1 = k /\ k \in 1..Len(s)
      /\ s[k - 1] \in Cluster /\ s[k] \in Cluster
  BY LinkedFacts
<1>2. f[s[k - 1]] = s[k]
  BY <1>1 DEF Linked
<1>3. Hop(f)[s[k - 1]] = IF IsEnd(f[s[k - 1]]) THEN 0 ELSE f[s[k - 1]]
  BY <1>1, HopOf
<1> QED  BY <1>1, <1>2, <1>3 DEF IsEnd

LEMMA LinkedEnd ==
  ASSUME NEW f, NEW s, Linked(f, s)
  PROVE  Hop(f)[s[Len(s)]] = 0
<1>1. Len(s) \in 1..Len(s) /\ s[Len(s)] \in Cluster
  BY LinkedFacts
<1>2. f[s[Len(s)]] = EndOfChain
  BY <1>1, LinkedFacts DEF Linked
<1>3. Hop(f)[s[Len(s)]] = IF IsEnd(f[s[Len(s)]]) THEN 0 ELSE f[s[Len(s)]]
  BY <1>1, HopOf
<1> QED  BY <1>2, <1>3, LinkedFacts DEF IsEnd

LEMMA LinkedChain ==
  ASSUME NEW f, NEW s, Linked(f, s)
  PROVE  /\ Len(ClusterChain(f, s[1])) \in Nat
         /\ Len(ClusterChain(f, s[1])) <= Len(s)
         /\ (\A i \in 2..Len(s) : s[i] \notin ShortEnd) => ClusterChain(f, s[1]) = s
<1> DEFINE n == Len(s)
           v == Walk(f, s[1])
           Fresh(k) == v[k] \in Cluster /\ \A j \in 1..(k - 1) : v[j] # v[k]
           K == {k \in Cluster : \A j \in 1..k : Fresh(j)}
           length == Cardinality(K)
<1>1. ClusterChain(f, s[1]) = [k \in 1..length |-> v[k]]
  BY DEF ClusterChain
<1>2. /\ n \in Nat \ {0} /\ n <= ClusterCount - 1 /\ s[1] \in FatValue
      /\ \A k \in 1..n : k \in Cluster /\ s[k] \in Cluster
  BY LinkedFacts, VolumeAssumption DEF Cluster, FatValue
<1>3. /\ v[1] = s[1]
      /\ \A k \in Cluster : k # 1 => v[k] = Hop(f)[v[k - 1]]
  BY <1>2, WalkFacts, VolumeAssumption DEF IsWalk, Cluster
<1> HIDE DEF v
<1>4. ASSUME NEW p \in 1..n, \A j \in 1..p : v[j] \in Cluster
      PROVE  \A j \in 1..p : v[j] = s[j]
  <2> DEFINE T == {j \in 1..p : v[j] # s[j]}
  <2> SUFFICES ASSUME T # {} PROVE FALSE
    OBVIOUS
  <2>1. PICK m \in T : \A k \in T : m <= k
    <3>1. T \in SUBSET Nat
      BY <1>2
    <3> HIDE DEF T
    <3> QED  BY <3>1, Least
  <2>2. m \in 2..n /\ m \in Cluster /\ m - 1 \in 1..p /\ m - 1 \notin T
    BY <1>2, <1>3, <2>1
  <2>3. v[m] = Hop(f)[s[m - 1]]
    BY <1>3, <2>2
  <2>4. v[m] = s[m] \/ v[m] = 0
    BY <2>2, <2>3, LinkedWalk
  <2>5. v[m] \in Cluster /\ 0 \notin Cluster
    BY <1>4, <2>1, VolumeAssumption DEF Cluster
  <2> QED  BY <2>1, <2>4, <2>5
<1>5. ASSUME NEW k \in K PROVE k \in 1..n
  <2> SUFFICES ASSUME k > n PROVE FALSE
    BY <1>2, VolumeAssumption DEF Cluster
  <2>1. k \in Nat /\ n + 1 \in 1..k /\ n + 1 \in Cluster /\ n + 1 # 1 /\ (n + 1) - 1 = n
    BY <1>2, VolumeAssumption DEF Cluster
  <2>2. \A j \in 1..n : v[j] \in Cluster
    BY <1>2, <2>1
  <2>3. v[n] = s[n]
    BY <1>2, <1>4, <2>2
  <2>4. v[n + 1] = Hop(f)[s[n]]
    BY <1>3, <2>1, <2>3
  <2>5. v[n + 1] = 0
    BY <2>4, LinkedEnd
  <2> QED  BY <2>1, <2>5, VolumeAssumption DEF Cluster
<1>6. IsFiniteSet(1..n) /\ Cardinality(1..n) = n
  <2>1. n \in Nat /\ n >= 1
    BY <1>2
  <2> HIDE DEF n
  <2> QED  BY <2>1, FS_Interval
<1>7. length \in Nat /\ length <= n
  <2> HIDE DEF K
  <2>1. K \subseteq 1..n
    BY <1>5
  <2> QED  BY <1>6, <2>1, FS_Subset, FS_CardinalityType
<1>8. ASSUME \A i \in 2..n : s[i] \notin ShortEnd
      PROVE  length = n /\ \A j \in 1..n : v[j] = s[j]
  <2> DEFINE T == {j \in 1..n : v[j] # s[j]}
  <2>1. T = {}
    <3> SUFFICES ASSUME T # {} PROVE FALSE
      OBVIOUS
    <3>1. PICK m \in T : \A k \in T : m <= k
      <4>1. T \in SUBSET Nat
        BY <1>2
      <4> HIDE DEF T
      <4> QED  BY <4>1, Least
    <3>2. m \in 2..n /\ m \in Cluster /\ m - 1 \in 1..n /\ m - 1 \notin T
      BY <1>2, <1>3, <3>1
    <3>3. v[m] = Hop(f)[s[m - 1]]
      BY <1>3, <3>2
    <3> QED  BY <1>8, <3>1, <3>2, <3>3, LinkedWalk
  <2>2. \A j \in 1..n : v[j] = s[j]
    BY <2>1
  <2>3. ASSUME NEW k \in 1..n PROVE k \in K
    <3>1. ASSUME NEW j \in 1..k PROVE Fresh(j)
      <4>1. j \in 1..n /\ \A i \in 1..(j - 1) : i \in 1..n /\ i # j
        BY <1>2
      <4> QED  BY <1>2, <2>2, <4>1 DEF Linked
    <3> QED  BY <1>2, <3>1
  <2>4. K = 1..n
    <3> HIDE DEF K
    <3> QED  BY <1>5, <2>3
  <2> HIDE DEF K
  <2> QED  BY <1>6, <2>2, <2>4
<1> HIDE DEF length
<1>9. Len(ClusterChain(f, s[1])) = length
  BY <1>1, <1>7
<1>10. (\A i \in 2..n : s[i] \notin ShortEnd) => ClusterChain(f, s[1]) = s
  <2> SUFFICES ASSUME \A i \in 2..n : s[i] \notin ShortEnd
               PROVE  ClusterChain(f, s[1]) = s
    OBVIOUS
  <2>1. ClusterChain(f, s[1]) = [k \in 1..n |-> s[k]]
    BY <1>1, <1>8
  <2> QED  BY <2>1 DEF Linked
<1> QED  BY <1>7, <1>9, <1>10

(* What a reader gets of a file depends on its entry and on its chain.     *)
LEMMA ReadKept ==
  ASSUME NEW f, NEW g, NEW dir \in Directory, NEW new, NEW d, NEW e, NEW n,
         NextMatch(new, 1, n) = NextMatch(dir, 1, n),
         \A s \in NextMatch(dir, 1, n) :
           /\ new[s] = dir[s]
           /\ \A c \in Chain(f, dir[s].start) : g[c] = f[c] /\ e[c] = d[c]
  PROVE  ReadFile(g, new, e, n) = ReadFile(f, dir, d, n)
<1>1. CASE NextMatch(dir, 1, n) = {}
  BY <1>1 DEF ReadFile
<1>2. CASE NextMatch(dir, 1, n) # {}
  <2> DEFINE s == CHOOSE r \in NextMatch(dir, 1, n) : TRUE
             chain == ClusterChain(f, dir[s].start)
  <2>1. s \in NextMatch(dir, 1, n) /\ s \in Slot
    BY <1>2 DEF NextMatch
  <2>2. new[s] = dir[s] /\ dir[s].start \in FatValue /\ dir[s].size \in Nat
    BY <2>1 DEF Directory, Entry
  <2>3. /\ ClusterChain(g, dir[s].start) = chain /\ Len(chain) \in Nat
        /\ \A i \in 1..Len(chain) : chain[i] \in Chain(f, dir[s].start)
    <3>1. \A c \in Chain(f, dir[s].start) : g[c] = f[c]
      BY <2>1
    <3> HIDE DEF s
    <3> QED  BY <2>2, <3>1, ClusterChainKept
  <2>4. \A i \in 1..Len(chain) : e[chain[i]] = d[chain[i]]
    BY <2>1, <2>3
  <2>5. ReadFile(f, dir, d, n) =
          IF Len(chain) < dir[s].size THEN Broken
          ELSE Content([i \in 1..dir[s].size |-> d[chain[i]]])
    BY <1>2 DEF ReadFile
  <2>6. ReadFile(g, new, e, n) =
          IF Len(chain) < dir[s].size THEN Broken
          ELSE Content([i \in 1..dir[s].size |-> e[chain[i]]])
    <3> DEFINE s2 == CHOOSE r \in NextMatch(new, 1, n) : TRUE
               chain2 == ClusterChain(g, new[s2].start)
    <3>1. s2 = s
      OBVIOUS
    <3>2. chain2 = chain /\ new[s2].size = dir[s].size
      BY <2>2, <2>3, <3>1
    <3>3. ReadFile(g, new, e, n) =
            IF Len(chain2) < new[s2].size THEN Broken
            ELSE Content([i \in 1..new[s2].size |-> e[chain2[i]]])
      BY <1>2 DEF ReadFile
    <3> HIDE DEF chain, chain2, s, s2
    <3> QED  BY <3>2, <3>3
  <2>7. ~ (Len(chain) < dir[s].size) =>
          [i \in 1..dir[s].size |-> e[chain[i]]] = [i \in 1..dir[s].size |-> d[chain[i]]]
    <3> HIDE DEF s, chain
    <3> QED  BY <2>2, <2>3, <2>4
  <2> HIDE DEF s, chain
  <2>8. CASE Len(chain) < dir[s].size
    BY <2>5, <2>6, <2>8
  <2>9. CASE ~ (Len(chain) < dir[s].size)
    BY <2>5, <2>6, <2>7, <2>9, Zenon
  <2> QED  BY <2>8, <2>9
<1> QED  BY <1>1, <1>2

-----------------------------------------------------------------------------
(* A file is found where it was found before when the same entries have    *)
(* its name.                                                               *)
LEMMA MatchFacts ==
  ASSUME NEW dir, NEW n, NEW s \in NextMatch(dir, 1, n)
  PROVE  s \in LiveSlots(dir) /\ dir[s].name = n
BY DEF NextMatch, Matches, LiveSlots

LEMMA SameMatches ==
  ASSUME NEW new, NEW dir, NEW n,
         \A s \in Slot : Matches(new, s, n) <=> Matches(dir, s, n)
  PROVE  NextMatch(new, 1, n) = NextMatch(dir, 1, n)
<1>1. \A r \in Slot : \A q \in 1..(r - 1) : q \in Slot
  BY VolumeAssumption DEF Slot
<1> QED  BY <1>1 DEF NextMatch

(* A new entry shows, and moves no entry that is there.                    *)
LEMMA AddingKeeps ==
  ASSUME NEW dir \in Directory, PackedDir(dir), NEW s \in FreeSlot(dir),
         NEW e, e.mark = "live"
  PROVE  /\ s \in LiveSlots(WithEntry(dir, s, e))
         /\ \A t \in LiveSlots(dir) :
              t # s /\ t \in LiveSlots(WithEntry(dir, s, e))
                    /\ WithEntry(dir, s, e)[t] = dir[t]
<1> DEFINE new == WithEntry(dir, s, e)
<1>1. /\ s \in Slot /\ new[s] = e /\ s \notin LiveSlots(dir)
  BY Adding
<1>2. \A t \in Slot \ {s} :
        /\ new[t].mark \in Terminator <=> dir[t].mark \in Terminator
        /\ dir[t].mark = "live" => new[t] = dir[t]
  BY DEF WithEntry, Marked, Terminator
<1>3. \A r \in 1..(s - 1) : r \in Slot \ {s} /\ dir[r].mark \notin Terminator
  BY <1>1, VolumeAssumption DEF FreeSlot, Visible, Slot, Terminator
<1> HIDE DEF new
<1>4. ASSUME NEW t \in LiveSlots(dir) PROVE t \in LiveSlots(new) /\ new[t] = dir[t]
  <2>1. t \in Slot /\ t # s /\ dir[t].mark = "live" /\ Visible(dir, t)
    BY <1>1 DEF LiveSlots
  <2>2. \A r \in 1..t : r \in Slot
    BY <2>1, VolumeAssumption DEF Slot
  <2>3. ASSUME NEW r \in 1..t PROVE new[r].mark \notin Terminator
    <3>1. CASE r = s
      BY <1>1, <3>1 DEF Terminator
    <3>2. CASE r # s
      BY <1>2, <2>1, <2>2, <3>2 DEF Visible
    <3> QED  BY <3>1, <3>2
  <2> QED  BY <1>2, <2>1, <2>3 DEF LiveSlots, Visible
<1>5. s \in LiveSlots(new)
  <2>1. ASSUME NEW r \in 1..s PROVE new[r].mark \notin Terminator
    <3>1. r = s \/ r \in 1..(s - 1)
      BY <1>1, VolumeAssumption DEF Slot
    <3> QED  BY <1>1, <1>2, <1>3, <3>1 DEF Terminator
  <2> QED  BY <1>1, <2>1 DEF LiveSlots, Visible
<1> QED  BY <1>1, <1>4, <1>5 DEF new

(* Deleting the entries of one name moves no other file.                   *)
LEMMA DeletingOthers ==
  ASSUME NEW dir \in Directory, NEW old \in Directory, NEW name,
         \A s \in Slot : \/ dir[s] = old[s]
                         \/ /\ s \in LiveSlots(old)
                            /\ old[s].name = name
                            /\ dir[s] = Marked(old[s], "deleted"),
         NEW n, n # name
  PROVE  /\ NextMatch(dir, 1, n) = NextMatch(old, 1, n)
         /\ \A s \in NextMatch(old, 1, n) : dir[s] = old[s]
<1>1. \A s \in Slot : Visible(dir, s) <=> Visible(old, s)
  BY Deleting
<1>2. ASSUME NEW s \in Slot PROVE Matches(dir, s, n) <=> Matches(old, s, n)
  <2>1. CASE dir[s] = old[s]
    BY <1>1, <2>1, Zenon DEF Matches
  <2>2. CASE old[s].name = name /\ dir[s] = Marked(old[s], "deleted")
    BY <2>2 DEF Matches, Marked
  <2> QED  BY <2>1, <2>2
<1>3. \A s \in NextMatch(old, 1, n) : dir[s] = old[s]
  BY MatchFacts DEF NextMatch
<1> QED  BY <1>2, <1>3, SameMatches

(* A new entry moves no file of another name.                              *)
LEMMA AddingOthers ==
  ASSUME NEW dir \in Directory, PackedDir(dir), NEW s \in FreeSlot(dir),
         NEW e, e.mark = "live", NEW n, n # e.name
  PROVE  /\ NextMatch(WithEntry(dir, s, e), 1, n) = NextMatch(dir, 1, n)
         /\ \A t \in NextMatch(dir, 1, n) : WithEntry(dir, s, e)[t] = dir[t]
<1> DEFINE new == WithEntry(dir, s, e)
<1>1. /\ s \in Slot /\ new[s] = e /\ s \notin LiveSlots(dir)
      /\ \A t \in LiveSlots(new) \ {s} : t \in LiveSlots(dir) /\ new[t] = dir[t]
  BY Adding
<1>3. \A t \in LiveSlots(dir) : t \in LiveSlots(new) /\ new[t] = dir[t]
  BY AddingKeeps
<1> HIDE DEF new
<1>4. ASSUME NEW t \in Slot PROVE Matches(new, t, n) <=> Matches(dir, t, n)
  <2>1. \A d : Matches(d, t, n) <=> t \in LiveSlots(d) /\ d[t].name = n
    BY DEF Matches, LiveSlots
  <2> QED  BY <1>1, <1>3, <2>1
<1>5. \A t \in NextMatch(dir, 1, n) : new[t] = dir[t]
  BY <1>3, MatchFacts
<1> QED  BY <1>4, <1>5, SameMatches DEF new

-----------------------------------------------------------------------------
(* Types.                                                                  *)

LEMMA JobFacts ==
  ASSUME TypeOK, todo # <<>>
  PROVE  /\ Job0 \in Job
         /\ Tail(todo) \in Seq(Job)
         /\ ClustersFor(Job0.name) \in Nat \ {0}
         /\ Blocks[Job0.name] \in Nat
<1>1. todo \in Seq(Job) /\ Blocks \in [Name -> Nat]
  BY StageAssumption DEF TypeOK
<1>2. Job0 \in Job /\ Tail(todo) \in Seq(Job)
  BY <1>1 DEF Job0
<1>3. Blocks[Job0.name] \in Nat
  BY <1>1, <1>2 DEF Job
<1> QED
  BY <1>2, <1>3 DEF ClustersFor

LEMMA MarkedType ==
  ASSUME NEW dir \in Directory, NEW s \in Slot
  PROVE  [dir EXCEPT ![s] = Marked(dir[s], "deleted")] \in Directory
BY DEF Directory, Entry, Mark, Marked

LEMMA NewBlockType ==
  ASSUME TypeOK, NEW n \in Name, NEW k \in Nat
  PROVE  NewBlock(n, k) \in Block
<1>1. PayloadOffset \in FatValue
  <2> DEFINE first == CHOOSE i \in StagedPayload : TRUE
  <2>1. StagedPayload # {} => first \in DOMAIN manifest
    BY DEF StagedPayload
  <2>2. PayloadOffset = 0 \/ (StagedPayload # {} /\ PayloadOffset = manifest[first].start)
    BY Zenon DEF PayloadOffset
  <2>3. \A i \in DOMAIN manifest : manifest[i].start \in Cluster
    <3> DEFINE Result == [name : Name, start : Cluster, count : Nat]
    <3>1. \A r \in Result : r.start \in Cluster
      OBVIOUS
    <3>2. manifest \in Seq(Result)
      BY DEF TypeOK
    <3> HIDE DEF Result
    <3>3. \A i \in DOMAIN manifest : manifest[i] \in Result
      BY <3>2
    <3> QED
      BY <3>1, <3>3
  <2> HIDE DEF first
  <2> QED
    BY <2>1, <2>2, <2>3, VolumeAssumption DEF FatValue, Cluster
<1> QED
  BY <1>1, VolumeAssumption DEF NewBlock, Block, TypeOK, FatValue

LEMMA TypeInit ==
  ASSUME Init
  PROVE  TypeOK
<1>1. /\ fat \in [Cluster -> FatValue]
      /\ root \in Directory /\ buf \in Directory
      /\ data \in [Cluster -> Block]
  BY StageAssumption DEF Init
<1>2. slot \in Slot /\ cur \in FatValue /\ seen \subseteq Cluster
  BY VolumeAssumption DEF Init, Slot, FatValue
<1>3. /\ todo \in Seq(Job) /\ todo = <<>> /\ clusters \in Seq(Cluster \ {RootCluster})
      /\ manifest \in Seq([name : Name, start : Cluster, count : Nat])
  BY DEF Init
<1>4. /\ pc = "idle" /\ info = FALSE /\ idx = 1 /\ failure = "none" /\ runs = 0
  BY DEF Init
<1>5. /\ ~ Running /\ pc \in PC /\ failure \in Failure /\ idx \in Nat \ {0}
      /\ pc \notin {"link", "fill", "add", "readback"}
  BY <1>4 DEF Running, PC, Failure
<1> QED
  BY <1>1, <1>2, <1>3, <1>4, <1>5 DEF TypeOK

LEMMA TypeStep ==
  ASSUME TypeOK, [Next]_vars
  PROVE  TypeOK'
<1> USE VolumeAssumption
<1>0. NoRemoval /\ NoWriting /\ UNCHANGED root =>
        /\ buf' \in Directory /\ slot' \in Slot /\ cur' \in FatValue
        /\ seen' \subseteq Cluster /\ idx' \in Nat \ {0}
        /\ clusters' \in Seq(Cluster \ {RootCluster})
  BY DEF NoRemoval, NoWriting, TypeOK, Slot, FatValue
<1>1. CASE Start
  <2>1. todo' \in Seq(Job) /\ info' \in BOOLEAN
    BY <1>1, StageAssumption DEF Start
  <2>2. manifest' \in Seq([name : Name, start : Cluster, count : Nat])
    BY <1>1 DEF Start
  <2>3. /\ pc' = "next" /\ failure' = "none" /\ runs' \in Nat
        /\ NoRemoval /\ NoWriting /\ UNCHANGED disk
    BY <1>1 DEF Start, TypeOK
  <2> QED
    BY <1>0, <2>1, <2>2, <2>3 DEF TypeOK, disk, PC, Running, Failure
<1>2. CASE NextJob
  BY <1>0, <1>2 DEF NextJob, TypeOK, disk, PC, Running
<1>3. CASE ScanMatch
  <2>1. PICK s \in Slot :
          /\ slot' = s
          /\ \/ buf' = [buf EXCEPT ![s] = Marked(buf[s], "deleted")]
                /\ UNCHANGED <<pc, cur, seen>>
             \/ pc' = "free" /\ cur' = buf[s].start /\ seen' = {}
                /\ UNCHANGED buf
    BY <1>3 DEF ScanMatch, NextMatch
  <2>2. buf[s].start \in FatValue
    BY DEF TypeOK, Directory, Entry
  <2>3. [buf EXCEPT ![s] = Marked(buf[s], "deleted")] \in Directory
    BY MarkedType DEF TypeOK
  <2> QED
    BY <1>3, <2>1, <2>2, <2>3
       DEF ScanMatch, TypeOK, disk, writing, PC, Running
<1>4. CASE ScanEnd
  BY <1>4 DEF ScanEnd, TypeOK, disk, removal, writing, PC, Running
<1>5. CASE FreeOne
  <2>1. fat' \in [Cluster -> FatValue] /\ cur' \in FatValue
    BY <1>5 DEF FreeOne, TypeOK, FatValue, FreeCluster
  <2> QED
    BY <1>5, <2>1 DEF FreeOne, TypeOK, writing, Running
<1>6. CASE FreeEnd
  <2>1. buf' \in Directory
    BY <1>6, MarkedType DEF FreeEnd, TypeOK
  <2> QED
    BY <1>6, <2>1 DEF FreeEnd, TypeOK, disk, writing, PC, Running
<1>7. CASE WriteDirectory
  <2>1. todo # <<>>
    BY <1>7 DEF WriteDirectory, TypeOK, Running
  <2>2. todo' \in Seq(Job) /\ root' \in Directory
    BY <1>7, <2>1, JobFacts DEF WriteDirectory, TypeOK
  <2> QED
    BY <1>7, <2>1, <2>2 DEF WriteDirectory, TypeOK, removal, writing, PC,
                            Running
<1>8. CASE Allocate
  <2> DEFINE n == ClustersFor(Job0.name)
  <2>1. n \in Nat \ {0}
    BY <1>8, JobFacts DEF Allocate, TypeOK, Running
  <2>2. clusters' \in [1..n -> Cluster \ {RootCluster}]
    BY <1>8 DEF Allocate, Allocations, FreeClusters, RootCluster
  <2>3. clusters' \in Seq(Cluster \ {RootCluster}) /\ Len(clusters') = n
    BY <2>1, <2>2
  <2> HIDE DEF n
  <2> QED
    BY <1>8, <2>1, <2>3 DEF Allocate, TypeOK, disk, removal, PC, Running
<1>9. CASE AllocateFails
  BY <1>9 DEF AllocateFails, Fail, TypeOK, disk, removal, writing, PC, Running,
              Failure
<1>10. CASE LinkOne
  <2>1. fat' \in [Cluster -> FatValue]
    <3>1. /\ Len(clusters) \in Nat
          /\ \A i \in 1..Len(clusters) : clusters[i] \in Cluster
      BY DEF TypeOK
    <3>2. \A c \in Cluster : c \in FatValue
      BY DEF Cluster, FatValue
    <3>3. EndOfChain \in FatValue
      BY DEF EndOfChain, FatValue
    <3> QED
      BY <1>10, <3>1, <3>2, <3>3 DEF LinkOne, TypeOK
  <2> QED
    BY <1>10, <2>1 DEF LinkOne, TypeOK, removal, PC, Running
<1>11. CASE FillOne
  <2>1. Job0.name \in Name
    BY <1>11, JobFacts DEF FillOne, TypeOK, Running, Job
  <2>2. data' \in [Cluster -> Block]
    BY <1>11, <2>1, NewBlockType DEF FillOne, TypeOK
  <2> QED
    BY <1>11, <2>2 DEF FillOne, TypeOK, removal, PC, Running
<1>12. CASE AddEntry
  <2>1. Job0.name \in Name /\ Blocks[Job0.name] \in Nat
    BY <1>12, JobFacts DEF AddEntry, TypeOK, Running, Job
  <2>2. clusters[1] \in FatValue
    BY <1>12 DEF AddEntry, TypeOK, Cluster, FatValue
  <2>3. root' \in Directory
    <3>1. ASSUME NEW s \in Slot, NEW e \in Entry
          PROVE  WithEntry(root, s, e) \in Directory
      BY <3>1 DEF WithEntry, TypeOK, Directory, Entry, Marked, Mark
    <3>2. \A s \in FreeSlot(root) : s \in Slot
      BY DEF FreeSlot
    <3>3. [mark |-> "live", name |-> Job0.name, start |-> clusters[1],
           size |-> Blocks[Job0.name]] \in Entry
      BY <2>1, <2>2 DEF Entry, Mark
    <3> QED
      BY <1>12, <3>1, <3>2, <3>3 DEF AddEntry
  <2> QED
    BY <1>12, <2>3 DEF AddEntry, TypeOK, removal, writing, PC, Running
<1>13. CASE AddFails
  BY <1>13 DEF AddFails, Fail, TypeOK, disk, removal, writing, PC, Running,
               Failure
<1>14. CASE Readback
  <2>1. Job0.name \in Name /\ todo' \in Seq(Job)
    BY <1>14, JobFacts DEF Readback, TypeOK, Running, Job
  <2>2. clusters[1] \in Cluster /\ Len(clusters) \in Nat
    BY <1>14 DEF Readback, TypeOK
  <2>3. manifest' \in Seq([name : Name, start : Cluster, count : Nat])
    BY <1>14, <2>1, <2>2 DEF Readback, TypeOK
  <2> QED
    BY <1>14, <2>1, <2>3 DEF Readback, TypeOK, disk, removal, writing, PC,
                             Running
<1>15. CASE ReadbackFails
  BY <1>15 DEF ReadbackFails, Fail, TypeOK, disk, removal, writing, PC,
               Running, Failure
<1>16. CASE Kill
  BY <1>16 DEF Kill, TypeOK, disk, removal, writing, PC, Running
<1>17. CASE UNCHANGED vars
  BY <1>17 DEF vars, disk, process, removal, writing, TypeOK, Running
<1> QED
  BY <1>1, <1>2, <1>3, <1>4, <1>5, <1>6, <1>7, <1>8, <1>9, <1>10, <1>11,
     <1>12, <1>13, <1>14, <1>15, <1>16, <1>17 DEF Next, Step

(* Every variable keeps its type, whatever the volume and the plans.       *)
THEOREM TypeCorrect == Spec => []TypeOK
<1>1. Init => TypeOK
  BY TypeInit
<1>2. TypeOK /\ [Next]_vars => TypeOK'
  BY TypeStep
<1> QED
  BY <1>1, <1>2, PTL DEF Spec

-----------------------------------------------------------------------------

(* The names some plan removes or writes.                                  *)
Touched == UNION {{p.jobs[i].name : i \in DOMAIN p.jobs} : p \in Plans}

(* The jobs remove name n before they allocate anything.                   *)
CleanedFirst(jobs, n) ==
  \E i \in DOMAIN jobs :
    /\ jobs[i].name = n
    /\ \A j \in 1..(i - 1) : jobs[j].op = "remove"

SafePlans ==
  MayKill => \A p \in Plans : \A n \in Touched : CleanedFirst(p.jobs, n)

-----------------------------------------------------------------------------
(* The inductive invariant.                                                *)

Removing == pc \in {"scan", "free", "directory"}
Allotted == pc \in {"link", "fill", "add"}
Handed == {clusters[i] : i \in DOMAIN clusters}

(* Names whose entry may lead to free clusters: the one being removed, and *)
(* after a kill the ones the current run has still to remove.              *)
MayDangle(n) ==
  \/ Removing /\ n = Job0.name
  \/ MayKill /\ pc = "killed" /\ n \in Touched
  \/ MayKill /\ (Removing \/ pc = "next") /\ CleanedFirst(todo, n)

ChainOf(s) == Chain(fat, root[s].start)

Separate ==
  \A s, t \in LiveSlots(root) : s # t => ChainOf(s) \cap ChainOf(t) = {}

Whole ==
  \A s \in LiveSlots(root) :
    MayDangle(root[s].name) \/ \A c \in ChainOf(s) : fat[c] # FreeCluster

Packed == PackedDir(root)

TodoTouched == \A i \in DOMAIN todo : todo[i].name \in Touched

(* The directory in memory: the one on disk, less some entries for the     *)
(* name, every one of them once the scan is over.                          *)
BufferInv ==
  Removing =>
    /\ \A s \in Slot :
         \/ buf[s] = root[s]
         \/ /\ s \in LiveSlots(root)
            /\ root[s].name = Job0.name
            /\ buf[s] = Marked(root[s], "deleted")
    /\ pc \in {"scan", "free"} =>
         \A r \in 1..(slot - 1) : ~ Matches(buf, r, Job0.name)
    /\ pc = "directory" => \A r \in Slot : ~ Matches(buf, r, Job0.name)

(* The walk of free_chain stays off the chains of all other entries.       *)
WalkInv ==
  pc = "free" =>
    /\ slot \in LiveSlots(root)
    /\ root[slot].name = Job0.name
    /\ \A t \in LiveSlots(root) \ {slot} : Chain(fat, cur) \cap ChainOf(t) = {}

(* Clusters handed out are in no entry's chain, and once linked they lead  *)
(* only to each other.                                                     *)
AllotInv ==
  Allotted =>
    /\ \A t \in LiveSlots(root) : Handed \cap ChainOf(t) = {}
    /\ \A i, j \in DOMAIN clusters : clusters[i] = clusters[j] => i = j
    /\ \A i \in DOMAIN clusters :
         (pc # "link" \/ i < idx) =>
           fat[clusters[i]] = IF i < Len(clusters) THEN clusters[i + 1]
                                                   ELSE EndOfChain

Safe ==
  /\ Separate /\ Whole /\ Packed /\ TodoTouched
  /\ BufferInv /\ WalkInv /\ AllotInv

IInv == TypeOK /\ Safe

-----------------------------------------------------------------------------
(* Steps that leave the table and the directory alone.                     *)

LEMMA Quiet ==
  ASSUME Separate, Whole, Packed, UNCHANGED <<fat, root>>,
         \A n \in Name : MayDangle(n) => MayDangle(n)',
         TypeOK
  PROVE  Separate' /\ Whole' /\ Packed'
<1>1. \A s \in LiveSlots(root) : root[s].name \in Name
  BY DEF LiveSlots, TypeOK, Directory, Entry
<1>2. LiveSlots(root)' = LiveSlots(root)
  BY DEF LiveSlots, Visible
<1>3. \A s : ChainOf(s)' = ChainOf(s)
  BY DEF ChainOf, Chain, ClosedSets
<1>4. Whole'
  <2> SUFFICES ASSUME NEW s \in LiveSlots(root), ~ MayDangle(root[s].name)',
                      NEW c \in ChainOf(s)
               PROVE  fat[c] # FreeCluster
    BY <1>2, <1>3 DEF Whole
  <2>1. ~ MayDangle(root[s].name)
    BY <1>1
  <2> QED
    BY <2>1 DEF Whole
<1> QED
  BY <1>2, <1>3, <1>4 DEF Separate, Packed, PackedDir

(* The chains of a directory, slot by slot.                                *)
LEMMA ChainsBySlot ==
  ASSUME NEW f, NEW dir
  PROVE  /\ Unshared(f, dir) <=>
              \A s, t \in LiveSlots(dir) :
                s < t => Chain(f, dir[s].start) \cap Chain(f, dir[t].start) = {}
         /\ (\A x \in Chains(f, dir) : \A c \in x.chain : f[c] # FreeCluster) <=>
              \A s \in LiveSlots(dir) :
                \A c \in Chain(f, dir[s].start) : f[c] # FreeCluster
<1> DEFINE File(s) == [slot |-> s, chain |-> Chain(f, dir[s].start)]
<1>1. Chains(f, dir) = {File(s) : s \in LiveSlots(dir)}
  BY DEF Chains
<1>2. \A s : File(s).slot = s /\ File(s).chain = Chain(f, dir[s].start)
  OBVIOUS
<1> HIDE DEF File
<1>3. Unshared(f, dir) <=>
        \A s, t \in LiveSlots(dir) :
          File(s).slot < File(t).slot => File(s).chain \cap File(t).chain = {}
  BY <1>1 DEF Unshared
<1>4. (\A x \in Chains(f, dir) : \A c \in x.chain : f[c] # FreeCluster) <=>
        \A s \in LiveSlots(dir) : \A c \in File(s).chain : f[c] # FreeCluster
  BY <1>1
<1>5. \A s, t \in LiveSlots(dir) :
        (File(s).slot < File(t).slot => File(s).chain \cap File(t).chain = {}) <=>
        (s < t => Chain(f, dir[s].start) \cap Chain(f, dir[t].start) = {})
  BY <1>2
<1>6. \A s \in LiveSlots(dir) : File(s).chain = Chain(f, dir[s].start)
  BY <1>2
<1>7. (\A s \in LiveSlots(dir) : \A c \in File(s).chain : f[c] # FreeCluster) <=>
        \A s \in LiveSlots(dir) : \A c \in Chain(f, dir[s].start) : f[c] # FreeCluster
  BY <1>6
<1> QED
  BY <1>3, <1>4, <1>5, <1>7

LEMMA IInvInit ==
  ASSUME Init, CameSound
  PROVE  IInv
<1>1. TypeOK
  BY TypeInit
<1>2. Consistent(fat, root)
  BY DEF CameSound
<1>3. Separate
  <2>1. \A s, t \in LiveSlots(root) : s < t => ChainOf(s) \cap ChainOf(t) = {}
    BY <1>2, ChainsBySlot DEF Consistent, ChainOf
  <2>2. LiveSlots(root) \subseteq Int
    BY VolumeAssumption DEF LiveSlots, Slot
  <2> QED
    BY <2>1, <2>2 DEF Separate
<1>4. Whole /\ Packed
  BY <1>2, ChainsBySlot DEF Consistent, Whole, Packed, PackedDir, ChainOf
<1>5. /\ TodoTouched /\ ~ Removing /\ ~ Allotted /\ pc # "free"
  BY DEF Init, TodoTouched, Removing, Allotted
<1> QED
  BY <1>1, <1>3, <1>4, <1>5 DEF IInv, Safe, BufferInv, WalkInv, AllotInv

LEMMA StartStep ==
  ASSUME SafePlans, IInv, Start
  PROVE  Safe'
<1>1. PICK p \in Plans : todo' = p.jobs
  BY DEF Start
<1>2. \A n \in Name : MayDangle(n) => MayDangle(n)'
  <2> SUFFICES ASSUME NEW n \in Name, MayDangle(n) PROVE MayDangle(n)'
    OBVIOUS
  <2>1. MayKill /\ n \in Touched
    BY DEF MayDangle, Start, Removing
  <2>2. CleanedFirst(todo', n) /\ pc' = "next"
    BY <1>1, <2>1 DEF SafePlans, Start
  <2> QED
    BY <2>1, <2>2 DEF MayDangle, CleanedFirst
<1>3. TodoTouched'
  BY <1>1 DEF TodoTouched, Touched
<1>4. Separate' /\ Whole' /\ Packed'
  BY <1>2, Quiet DEF IInv, Safe, Start, disk
<1> QED
  BY <1>3, <1>4 DEF Safe, Start, BufferInv, WalkInv, AllotInv, Removing, Allotted

LEMMA NextJobStep ==
  ASSUME IInv, NextJob
  PROVE  Safe'
<1>1. \A n \in Name : MayDangle(n) => MayDangle(n)'
  <2> SUFFICES ASSUME NEW n \in Name, MayDangle(n) PROVE MayDangle(n)'
    OBVIOUS
  <2>1. MayKill /\ CleanedFirst(todo, n)
    BY DEF MayDangle, NextJob, Removing
  <2>2. todo # <<>>
    BY <2>1 DEF CleanedFirst
  <2>3. pc' = "scan" /\ todo' = todo
    BY <2>2 DEF NextJob
  <2> QED
    BY <2>1, <2>3 DEF MayDangle, Removing, CleanedFirst
<1>2. Separate' /\ Whole' /\ Packed'
  BY <1>1, Quiet DEF IInv, Safe, NextJob, disk
<1>3. BufferInv'
  <2>1. buf' = root' /\ slot' = 1 /\ pc' # "directory"
    BY DEF NextJob, NoRemoval, disk
  <2> QED
    BY <2>1 DEF BufferInv
<1> QED
  BY <1>2, <1>3 DEF IInv, Safe, NextJob, TodoTouched, WalkInv, AllotInv, Allotted

LEMMA ScanMatchStep ==
  ASSUME IInv, ScanMatch
  PROVE  Safe'
<1> USE DEF IInv, Safe
<1>1. PICK s \in NextMatch(buf, slot, Job0.name) :
        /\ slot' = s
        /\ \/ buf' = [buf EXCEPT ![s] = Marked(buf[s], "deleted")] /\ pc' = pc
           \/ pc' = "free" /\ cur' = buf[s].start /\ buf' = buf
  BY DEF ScanMatch
<1>2. /\ s \in Slot /\ s >= slot /\ Matches(buf, s, Job0.name)
      /\ \A q \in slot..(s - 1) : ~ Matches(buf, q, Job0.name)
  BY DEF NextMatch
<1>3. /\ pc = "scan" /\ pc' \in {"scan", "free"}
      /\ fat' = fat /\ root' = root /\ todo' = todo
  BY <1>1 DEF ScanMatch, disk
<1>4. Separate' /\ Whole' /\ Packed'
  <2>1. \A n \in Name : MayDangle(n) => MayDangle(n)'
    BY <1>3, Zenon DEF MayDangle, Removing, CleanedFirst, Job0
  <2> QED
    BY <1>3, <2>1, Quiet
<1>5. s \in LiveSlots(root) /\ root[s].name = Job0.name /\ buf[s] = root[s]
  <2>1. s \in LiveSlots(buf) /\ buf[s].name = Job0.name
    BY <1>2 DEF LiveSlots, Matches
  <2> QED
    BY <1>3, <2>1, Deleting DEF BufferInv, Removing, TypeOK
<1>6. BufferInv'
  <2>1. \A r \in 1..(s - 1) : ~ Matches(buf, r, Job0.name)
    <3>1. \A r \in 1..(slot - 1) : ~ Matches(buf, r, Job0.name)
      BY <1>3 DEF BufferInv, Removing
    <3>2. slot \in Int /\ s \in Int
      BY <1>2 DEF TypeOK, Slot
    <3>3. \A r \in 1..(s - 1) : r \in 1..(slot - 1) \/ r \in slot..(s - 1)
      BY <3>2
    <3> QED
      BY <1>2, <3>1, <3>3
  <2>2. \A r \in 1..(s - 1) : buf'[r] = buf[r]
    <3>1. \A r \in 1..(s - 1) : r \in Slot /\ r # s
      BY <1>2, VolumeAssumption DEF Slot
    <3> QED
      BY <1>1, <3>1 DEF TypeOK, Directory
  <2>3. \A r \in 1..(s - 1) : \A q \in 1..r : q \in 1..(s - 1)
    BY <1>2 DEF Slot
  <2>4. \A r \in 1..(s - 1) : ~ Matches(buf', r, Job0.name)
    BY <2>1, <2>2, <2>3, Zenon DEF Matches, Visible
  <2>5. \A r \in Slot : \/ buf'[r] = buf[r]
                        \/ r = s /\ buf'[r] = Marked(root[r], "deleted")
    BY <1>1, <1>5 DEF TypeOK, Directory
  <2> QED
    BY <1>1, <1>3, <1>5, <2>4, <2>5 DEF BufferInv, Removing, Job0
<1>7. WalkInv'
  <2> SUFFICES ASSUME pc' = "free"
               PROVE  \A t \in LiveSlots(root) \ {s} :
                        Chain(fat, cur') \cap ChainOf(t) = {}
    BY <1>1, <1>3, <1>5 DEF WalkInv, ChainOf, Job0
  <2>1. Chain(fat, cur') = ChainOf(s)
    BY <1>1, <1>3, <1>5 DEF ChainOf
  <2> QED
    BY <1>5, <2>1 DEF Separate
<1> QED
  BY <1>3, <1>4, <1>6, <1>7 DEF TodoTouched, AllotInv, Allotted

LEMMA ScanEndStep ==
  ASSUME IInv, ScanEnd
  PROVE  Safe'
<1> USE DEF IInv, Safe
<1>1. /\ pc = "scan" /\ pc' = "directory"
      /\ fat' = fat /\ root' = root /\ todo' = todo /\ buf' = buf /\ slot' = slot
  BY DEF ScanEnd, disk, removal
<1>2. \A n \in Name : MayDangle(n) => MayDangle(n)'
  BY <1>1, Zenon DEF MayDangle, Removing, CleanedFirst, Job0
<1>3. \A r \in Slot : ~ Matches(buf, r, Job0.name)
  BY <1>1 DEF ScanEnd, BufferInv, Removing, TypeOK, Slot
<1>4. BufferInv'
  BY <1>1, <1>3 DEF BufferInv, Removing, Job0
<1> QED
  BY <1>1, <1>2, <1>4, Quiet DEF TodoTouched, WalkInv, AllotInv, Allotted

LEMMA FreeOneStep ==
  ASSUME IInv, FreeOne
  PROVE  Safe'
<1> USE DEF IInv, Safe
<1>1. /\ pc = "free" /\ pc' = pc /\ cur \in Cluster
      /\ fat' = [fat EXCEPT ![cur] = FreeCluster]
      /\ root' = root /\ todo' = todo /\ buf' = buf /\ slot' = slot
      /\ cur' = IF IsEnd(fat[cur]) THEN 0 ELSE fat[cur]
  BY DEF FreeOne
<1>2. /\ fat'[cur] \notin Cluster
      /\ \A c \in Cluster \ {cur} : fat'[c] = fat[c]
      /\ 0 \notin Cluster
  BY <1>1 DEF TypeOK, FreeCluster, Cluster
<1>3. \A a : Chain(fat', a) \subseteq Chain(fat, a)
  <2> SUFFICES ASSUME NEW a
               PROVE  \A c \in Chain(fat, a) : fat'[c] = fat[c] \/ fat'[c] \notin Cluster
    BY ChainShrinks
  <2> QED
    BY <1>2, ChainOfClusters
<1>4. /\ LiveSlots(root)' = LiveSlots(root)
      /\ \A t : ChainOf(t)' = Chain(fat', root[t].start)
  BY <1>1 DEF LiveSlots, Visible, ChainOf, Chain, ClosedSets
<1>5. \A t : ChainOf(t)' \subseteq ChainOf(t)
  BY <1>3, <1>4 DEF ChainOf
<1>6. /\ slot \in LiveSlots(root) /\ root[slot].name = Job0.name
      /\ \A t \in LiveSlots(root) \ {slot} : Chain(fat, cur) \cap ChainOf(t) = {}
  BY <1>1 DEF WalkInv
<1>7. Separate'
  BY <1>4, <1>5 DEF Separate
<1>8. Whole'
  <2> SUFFICES ASSUME NEW s \in LiveSlots(root), ~ MayDangle(root[s].name)',
                      NEW c \in ChainOf(s)'
               PROVE  fat'[c] # FreeCluster
    BY <1>4 DEF Whole
  <2>1. ~ MayDangle(root[s].name) /\ root[s].name # Job0.name
    BY <1>1, Zenon DEF MayDangle, Removing, CleanedFirst, Job0
  <2>2. s # slot /\ c \in ChainOf(s)
    BY <1>5, <1>6, <2>1
  <2>3. c # cur /\ c \in Cluster
    BY <1>1, <1>6, <2>2, ChainStart, ChainOfClusters DEF ChainOf
  <2> QED
    BY <1>2, <2>1, <2>2, <2>3 DEF Whole
<1>9. Chain(fat', cur') \subseteq Chain(fat, cur)
  <2>1. CASE cur' \in Cluster
    <3>1. cur' = fat[cur]
      BY <1>1, <1>2, <2>1
    <3>2. Chain(fat, cur') \subseteq Chain(fat, cur)
      BY <1>1, <2>1, <3>1, ChainTail
    <3> QED
      BY <1>3, <3>2
  <2>2. CASE cur' \notin Cluster
    BY <2>2, ChainOfClusters
  <2> QED
    BY <2>1, <2>2
<1>10. WalkInv'
  BY <1>1, <1>4, <1>5, <1>6, <1>9 DEF WalkInv, Job0
<1>11. BufferInv' /\ Packed' /\ TodoTouched' /\ AllotInv'
  BY <1>1, <1>4 DEF BufferInv, Packed, TodoTouched, AllotInv, Allotted,
                    Removing, Job0
<1> QED
  BY <1>7, <1>8, <1>10, <1>11

LEMMA FreeEndStep ==
  ASSUME IInv, FreeEnd
  PROVE  Safe'
<1> USE DEF IInv, Safe
<1>1. /\ pc = "free" /\ pc' = "scan" /\ slot' = slot /\ slot \in Slot
      /\ buf' = [buf EXCEPT ![slot] = Marked(buf[slot], "deleted")]
      /\ fat' = fat /\ root' = root /\ todo' = todo
  BY DEF FreeEnd, disk, TypeOK
<1>2. Separate' /\ Whole' /\ Packed'
  <2>1. \A n \in Name : MayDangle(n) => MayDangle(n)'
    BY <1>1, Zenon DEF MayDangle, Removing, CleanedFirst, Job0
  <2> QED
    BY <1>1, <2>1, Quiet
<1>3. BufferInv'
  <2>1. slot \in LiveSlots(root) /\ root[slot].name = Job0.name
    BY <1>1 DEF WalkInv
  <2>2. \A r \in 1..(slot - 1) : ~ Matches(buf, r, Job0.name)
    BY <1>1 DEF BufferInv, Removing
  <2>3. \A r \in 1..(slot - 1) : \A q \in 1..r : q \in Slot \ {slot}
    BY <1>1, VolumeAssumption DEF Slot
  <2>4. \A q \in Slot \ {slot} : buf'[q] = buf[q]
    BY <1>1 DEF TypeOK, Directory
  <2>5. \A r \in 1..(slot - 1) : r \in 1..r
    BY <1>1 DEF Slot
  <2>6. \A r \in 1..(slot - 1) : ~ Matches(buf', r, Job0.name)
    BY <2>2, <2>3, <2>4, <2>5, Zenon DEF Matches, Visible
  <2>7. buf'[slot] = Marked(root[slot], "deleted")
    <3>1. buf[slot] = root[slot] \/ buf[slot] = Marked(root[slot], "deleted")
      BY <1>1 DEF BufferInv, Removing
    <3>2. buf'[slot] = Marked(buf[slot], "deleted")
      BY <1>1 DEF TypeOK, Directory
    <3> QED
      BY <3>1, <3>2 DEF Marked
  <2>8. \A r \in Slot : \/ buf[r] = root[r]
                        \/ /\ r \in LiveSlots(root)
                           /\ root[r].name = Job0.name
                           /\ buf[r] = Marked(root[r], "deleted")
    BY <1>1 DEF BufferInv, Removing
  <2>9. \A r \in Slot : \/ buf'[r] = root[r]
                        \/ /\ r \in LiveSlots(root)
                           /\ root[r].name = Job0.name
                           /\ buf'[r] = Marked(root[r], "deleted")
    BY <2>1, <2>4, <2>7, <2>8
  <2> QED
    BY <1>1, <2>6, <2>9 DEF BufferInv, Removing, Job0
<1> QED
  BY <1>1, <1>2, <1>3 DEF TodoTouched, WalkInv, AllotInv, Allotted

LEMMA WriteDirectoryStep ==
  ASSUME IInv, WriteDirectory
  PROVE  Safe'
<1> USE DEF IInv, Safe
<1>1. /\ pc = "directory" /\ root' = buf /\ fat' = fat
      /\ todo # <<>> /\ todo \in Seq(Job)
      /\ \/ Job0.op = "write" /\ pc' = "allocate" /\ todo' = todo
         \/ Job0.op # "write" /\ pc' = "next" /\ todo' = Tail(todo)
  BY DEF WriteDirectory, TypeOK, Running
<1>2. /\ \A s \in LiveSlots(buf) : s \in LiveSlots(root) /\ buf[s] = root[s]
      /\ PackedDir(buf)
  BY <1>1, Deleting DEF BufferInv, Removing, TypeOK, Packed
<1>3. /\ LiveSlots(root)' = LiveSlots(buf)
      /\ \A s \in LiveSlots(buf) : ChainOf(s)' = ChainOf(s)
      /\ Packed'
  BY <1>1, <1>2
     DEF LiveSlots, Visible, ChainOf, Chain, ClosedSets, Packed,
         PackedDir
<1>4. Separate'
  BY <1>2, <1>3 DEF Separate
<1>5. Whole'
  <2> SUFFICES ASSUME NEW s \in LiveSlots(buf), ~ MayDangle(root[s].name)',
                      NEW c \in ChainOf(s)
               PROVE  fat[c] # FreeCluster
    BY <1>1, <1>3 DEF Whole
  <2> DEFINE n == root[s].name
  <2>1. s \in LiveSlots(root) /\ root'[s].name = n
    BY <1>1, <1>2
  <2>2. n # Job0.name
    <3>1. ~ Matches(buf, s, Job0.name)
      BY <1>1 DEF BufferInv, Removing, LiveSlots
    <3> QED
      BY <1>2, <3>1 DEF Matches, LiveSlots
  <2>3. ~ (MayKill /\ CleanedFirst(todo, n))
    <3> SUFFICES ASSUME MayKill, NEW i \in DOMAIN todo, todo[i].name = n,
                        \A j \in 1..(i - 1) : todo[j].op = "remove"
                 PROVE  FALSE
      BY Zenon DEF CleanedFirst
    <3>1. i \in 2..Len(todo) /\ Job0.op = "remove"
      BY <1>1, <2>2 DEF Job0
    <3>2. pc' = "next" /\ todo' = Tail(todo)
      BY <1>1, <3>1
    <3>3. /\ i - 1 \in DOMAIN Tail(todo) /\ Tail(todo)[i - 1].name = n
          /\ \A j \in 1..((i - 1) - 1) : Tail(todo)[j].op = "remove"
      BY <1>1, <3>1
    <3>4. CleanedFirst(todo', n)
      BY <3>2, <3>3, Zenon DEF CleanedFirst
    <3>5. MayDangle(root[s].name)'
      BY <2>1, <3>2, <3>4 DEF MayDangle, CleanedFirst
    <3> QED
      BY <3>5
  <2>4. ~ MayDangle(n)
    BY <1>1, <2>2, <2>3 DEF MayDangle
  <2> QED
    BY <2>1, <2>4 DEF Whole
<1>6. TodoTouched'
  <2>1. \A i \in DOMAIN Tail(todo) : \E j \in DOMAIN todo : Tail(todo)[i] = todo[j]
    BY <1>1
  <2> QED
    BY <1>1, <2>1 DEF TodoTouched
<1> QED
  BY <1>1, <1>3, <1>4, <1>5, <1>6 DEF BufferInv, WalkInv, AllotInv, Removing,
                                      Allotted

(* From an allocation to its entry, no entry leads to a free cluster.      *)
LEMMA NothingDangles ==
  ASSUME IInv, pc \in {"allocate", "link", "fill", "add", "readback"}
  PROVE  \A s \in LiveSlots(root) : \A c \in ChainOf(s) : fat[c] # FreeCluster
<1>1. \A n : ~ MayDangle(n)
  BY DEF MayDangle, Removing
<1> QED
  BY <1>1 DEF IInv, Safe, Whole

LEMMA AllocateStep ==
  ASSUME IInv, Allocate
  PROVE  Safe'
<1> USE DEF IInv, Safe
<1>1. /\ pc = "allocate" /\ pc' = "link" /\ idx' = 1
      /\ fat' = fat /\ root' = root /\ todo' = todo
  BY DEF Allocate, disk
<1> DEFINE n == ClustersFor(Job0.name)
<1>2. Job0.layout \in Layouts /\ n \in Nat \ {0} /\ fat \in Table
  BY <1>1, JobFacts DEF TypeOK, Running, Job, Table
<1>3. clusters' \in Allocations(fat, Job0.layout, n)
  BY DEF Allocate
<1> HIDE DEF n
<1>4. /\ clusters' \in [1..n -> FreeClusters(fat)]
      /\ \A i, j \in 1..n : clusters'[i] = clusters'[j] => i = j
  BY <1>2, <1>3, AllocationsDistinct
<1>5. LiveSlots(root)' = LiveSlots(root) /\ \A t : ChainOf(t)' = ChainOf(t)
  BY <1>1 DEF LiveSlots, Visible, ChainOf, Chain, ClosedSets
<1>6. AllotInv'
  <2>1. \A c \in Handed' : fat[c] = FreeCluster
    BY <1>4 DEF Handed, FreeClusters
  <2>2. \A t \in LiveSlots(root) : Handed' \cap ChainOf(t) = {}
    BY <1>1, <2>1, NothingDangles
  <2>3. DOMAIN clusters' = 1..n
    BY <1>4
  <2>4. \A i \in DOMAIN clusters' : ~ (pc' # "link" \/ i < idx')
    BY <1>1, <2>3
  <2> QED
    BY <1>4, <1>5, <2>2, <2>3, <2>4 DEF AllotInv
<1>7. Separate' /\ Whole' /\ Packed'
  <2>1. \A m \in Name : MayDangle(m) => MayDangle(m)'
    BY <1>1 DEF MayDangle, Removing
  <2> QED
    BY <1>1, <2>1, Quiet
<1> QED
  BY <1>1, <1>6, <1>7 DEF BufferInv, WalkInv, TodoTouched, Removing

LEMMA LinkOneStep ==
  ASSUME IInv, LinkOne
  PROVE  Safe'
<1> USE DEF IInv, Safe
<1> DEFINE target == IF idx < Len(clusters) THEN clusters[idx + 1] ELSE EndOfChain
<1>1. /\ pc = "link" /\ clusters' = clusters /\ root' = root /\ todo' = todo
      /\ fat' = [fat EXCEPT ![clusters[idx]] = target]
      /\ \/ idx < Len(clusters) /\ idx' = idx + 1 /\ pc' = "link"
         \/ idx >= Len(clusters) /\ idx' = 1 /\ pc' = "fill"
  BY DEF LinkOne, TypeOK
<1>2. /\ idx \in DOMAIN clusters /\ clusters[idx] \in Cluster
      /\ DOMAIN clusters = 1..Len(clusters) /\ Len(clusters) \in Nat
      /\ clusters[idx] \in Handed
  BY <1>1 DEF TypeOK, Handed
<1>3. /\ fat'[clusters[idx]] = target
      /\ \A c \in Cluster : c # clusters[idx] => fat'[c] = fat[c]
  BY <1>1, <1>2 DEF TypeOK
<1> HIDE DEF target
<1>4. /\ \A t \in LiveSlots(root) : Handed \cap ChainOf(t) = {}
      /\ \A i, j \in DOMAIN clusters : clusters[i] = clusters[j] => i = j
      /\ \A i \in DOMAIN clusters : i < idx =>
           fat[clusters[i]] = IF i < Len(clusters) THEN clusters[i + 1]
                                                   ELSE EndOfChain
  BY <1>1 DEF AllotInv, Allotted
<1>5. LiveSlots(root)' = LiveSlots(root) /\ Handed' = Handed
  BY <1>1 DEF LiveSlots, Visible, Handed
<1>6. \A t \in LiveSlots(root) :
        /\ \A c \in ChainOf(t) : fat'[c] = fat[c]
        /\ ChainOf(t)' \subseteq ChainOf(t)
  <2> SUFFICES ASSUME NEW t \in LiveSlots(root)
               PROVE  /\ \A c \in ChainOf(t) : fat'[c] = fat[c]
                      /\ ChainOf(t)' \subseteq ChainOf(t)
    OBVIOUS
  <2>1. \A c \in Chain(fat, root[t].start) : fat'[c] = fat[c]
    BY <1>2, <1>3, <1>4, ChainOfClusters DEF ChainOf
  <2>2. Chain(fat', root[t].start) \subseteq Chain(fat, root[t].start)
    BY <2>1, ChainShrinks
  <2>3. ChainOf(t)' = Chain(fat', root[t].start)
    BY <1>1 DEF ChainOf, Chain, ClosedSets
  <2> QED
    BY <2>1, <2>2, <2>3 DEF ChainOf
<1>7. Separate'
  BY <1>5, <1>6 DEF Separate
<1>8. Whole'
  <2>1. \A s \in LiveSlots(root) : \A c \in ChainOf(s)' : fat'[c] # FreeCluster
    BY <1>1, <1>6, NothingDangles
  <2> QED
    BY <1>5, <2>1 DEF Whole
<1>9. AllotInv'
  <2>1. \A i \in DOMAIN clusters : i # idx => fat'[clusters[i]] = fat[clusters[i]]
    <3>1. \A i \in DOMAIN clusters : clusters[i] \in Cluster
      BY <1>2 DEF TypeOK
    <3>2. \A i \in DOMAIN clusters : i # idx => clusters[i] # clusters[idx]
      BY <1>2, <1>4
    <3> QED
      BY <1>3, <3>1, <3>2
  <2>2. \A i \in DOMAIN clusters : i <= idx =>
          fat'[clusters[i]] = IF i < Len(clusters) THEN clusters[i + 1]
                                                   ELSE EndOfChain
    BY <1>2, <1>3, <1>4, <2>1 DEF target
  <2>3. \A i \in DOMAIN clusters : (pc' # "link" \/ i < idx') => i <= idx
    BY <1>1, <1>2
  <2>4. \A t \in LiveSlots(root)' : Handed' \cap ChainOf(t)' = {}
    BY <1>4, <1>5, <1>6
  <2> QED
    BY <1>1, <1>4, <2>2, <2>3, <2>4 DEF AllotInv
<1> QED
  BY <1>1, <1>7, <1>8, <1>9
     DEF BufferInv, WalkInv, TodoTouched, Packed, PackedDir, Removing

LEMMA FillOneStep ==
  ASSUME IInv, FillOne
  PROVE  Safe'
<1> USE DEF IInv, Safe
<1>1. /\ pc = "fill" /\ pc' \in {"fill", "add"} /\ fat' = fat /\ root' = root
      /\ todo' = todo /\ clusters' = clusters
  BY DEF FillOne
<1>2. \A n \in Name : MayDangle(n) => MayDangle(n)'
  BY <1>1 DEF MayDangle, Removing
<1>3. AllotInv'
  <2>1. /\ LiveSlots(root)' = LiveSlots(root) /\ Handed' = Handed
        /\ \A t : ChainOf(t)' = ChainOf(t)
    BY <1>1 DEF LiveSlots, Visible, ChainOf, Chain, ClosedSets, Handed
  <2> QED
    BY <1>1, <2>1 DEF AllotInv, Allotted
<1> QED
  BY <1>1, <1>2, <1>3, Quiet DEF BufferInv, WalkInv, TodoTouched, Removing

LEMMA AddEntryStep ==
  ASSUME IInv, AddEntry
  PROVE  Safe'
<1> USE DEF IInv, Safe
<1>1. /\ pc = "add" /\ pc' = "readback" /\ fat' = fat /\ todo' = todo
  BY DEF AddEntry
<1>2. PICK s \in FreeSlot(root) :
        root' = WithEntry(root, s, [mark |-> "live", name |-> Job0.name,
                                    start |-> clusters[1],
                                    size |-> Blocks[Job0.name]])
  BY DEF AddEntry
<1>3. /\ s \in Slot /\ root'[s].start = clusters[1] /\ s \notin LiveSlots(root)
      /\ \A t \in LiveSlots(root') \ {s} :
           t \in LiveSlots(root) /\ root'[t] = root[t]
      /\ PackedDir(root')
  BY <1>2, Adding DEF TypeOK, Packed
<1>4. Chain(fat, clusters[1]) \subseteq Handed
  <2>1. /\ DOMAIN clusters = 1..Len(clusters) /\ Len(clusters) \in Nat
        /\ clusters # <<>> /\ Handed \in SUBSET Cluster /\ 1 \in DOMAIN clusters
    BY <1>1 DEF TypeOK, Handed
  <2>2. \A i \in DOMAIN clusters :
          fat[clusters[i]] = IF i < Len(clusters) THEN clusters[i + 1]
                                                  ELSE EndOfChain
    BY <1>1 DEF AllotInv, Allotted
  <2>3. EndOfChain \notin Cluster
    BY VolumeAssumption DEF EndOfChain, Cluster
  <2>4. \A i \in DOMAIN clusters :
          fat[clusters[i]] \in Cluster => fat[clusters[i]] \in Handed
    BY <2>1, <2>2, <2>3 DEF Handed
  <2>5. \A c \in Handed : fat[c] \in Cluster => fat[c] \in Handed
    BY <2>4 DEF Handed
  <2>6. clusters[1] \in Handed
    BY <2>1 DEF Handed
  <2> QED
    BY <2>1, <2>5, <2>6, ChainLeast
<1>5. \A c \in Handed : fat[c] # FreeCluster
  <2>1. \A i \in DOMAIN clusters :
          /\ fat[clusters[i]] = IF i < Len(clusters) THEN clusters[i + 1]
                                                     ELSE EndOfChain
          /\ i < Len(clusters) => clusters[i + 1] \in Cluster
    BY <1>1 DEF AllotInv, Allotted, TypeOK
  <2>2. EndOfChain # FreeCluster /\ FreeCluster \notin Cluster
    BY VolumeAssumption DEF EndOfChain, FreeCluster, Cluster
  <2>3. \A i \in DOMAIN clusters : fat[clusters[i]] # FreeCluster
    BY <2>1, <2>2
  <2> QED
    BY <2>3 DEF Handed
<1>6. /\ LiveSlots(root)' = LiveSlots(root')
      /\ ChainOf(s)' = Chain(fat, clusters[1])
      /\ \A t \in LiveSlots(root') \ {s} : ChainOf(t)' = ChainOf(t)
  BY <1>1, <1>3 DEF LiveSlots, Visible, ChainOf, Chain, ClosedSets
<1>7. \A t \in LiveSlots(root) : Handed \cap ChainOf(t) = {}
  BY <1>1 DEF AllotInv, Allotted
<1>8. Separate'
  <2> SUFFICES ASSUME NEW t \in LiveSlots(root'), NEW u \in LiveSlots(root'), t # u
               PROVE  ChainOf(t)' \cap ChainOf(u)' = {}
    BY <1>6 DEF Separate
  <2>1. CASE t = s
    BY <1>3, <1>4, <1>6, <1>7, <2>1
  <2>2. CASE u = s
    BY <1>3, <1>4, <1>6, <1>7, <2>2
  <2>3. CASE t # s /\ u # s
    BY <1>3, <1>6, <2>3 DEF Separate
  <2> QED
    BY <2>1, <2>2, <2>3
<1>9. Whole'
  <2> SUFFICES ASSUME NEW t \in LiveSlots(root'), NEW c \in ChainOf(t)'
               PROVE  fat[c] # FreeCluster
    BY <1>1, <1>6 DEF Whole
  <2>1. CASE t = s
    BY <1>4, <1>5, <1>6, <2>1
  <2>2. CASE t # s
    BY <1>1, <1>3, <1>6, <2>2, NothingDangles
  <2> QED
    BY <2>1, <2>2
<1>10. Packed'
  BY <1>3 DEF Packed, PackedDir
<1> QED
  BY <1>1, <1>8, <1>9, <1>10
     DEF BufferInv, WalkInv, AllotInv, TodoTouched, Removing, Allotted

LEMMA ReadbackStep ==
  ASSUME IInv, Readback
  PROVE  Safe'
<1> USE DEF IInv, Safe
<1>1. /\ pc = "readback" /\ pc' = "next" /\ fat' = fat /\ root' = root
      /\ todo # <<>> /\ todo \in Seq(Job) /\ todo' = Tail(todo)
  BY DEF Readback, disk, TypeOK, Running
<1>2. \A n \in Name : MayDangle(n) => MayDangle(n)'
  BY <1>1 DEF MayDangle, Removing
<1>3. TodoTouched'
  <2>1. \A i \in DOMAIN Tail(todo) : \E j \in DOMAIN todo : Tail(todo)[i] = todo[j]
    BY <1>1
  <2> QED
    BY <1>1, <2>1 DEF TodoTouched
<1> QED
  BY <1>1, <1>2, <1>3, Quiet DEF BufferInv, WalkInv, AllotInv, Removing, Allotted

LEMMA FailStep ==
  ASSUME IInv, NEW reason, Fail(reason), pc \in {"allocate", "add", "readback"}
  PROVE  Safe'
<1> USE DEF IInv, Safe
<1>1. pc' = "failed" /\ fat' = fat /\ root' = root /\ todo' = todo
  BY DEF Fail, disk
<1>2. \A n \in Name : MayDangle(n) => MayDangle(n)'
  BY DEF MayDangle, Removing
<1> QED
  BY <1>1, <1>2, Quiet DEF BufferInv, WalkInv, AllotInv, TodoTouched, Removing,
                           Allotted

LEMMA KillStep ==
  ASSUME IInv, Kill
  PROVE  Safe'
<1> USE DEF IInv, Safe
<1>1. /\ MayKill /\ Running /\ pc' = "killed"
      /\ fat' = fat /\ root' = root /\ todo' = todo
  BY DEF Kill, disk
<1>2. \A n \in Name : MayDangle(n) => MayDangle(n)'
  <2> SUFFICES ASSUME NEW n \in Name, MayDangle(n) PROVE MayDangle(n)'
    OBVIOUS
  <2>1. \A i \in DOMAIN todo : todo[i].name \in Touched
    BY DEF TodoTouched
  <2>2. n \in Touched
    <3>1. CASE Removing /\ n = Job0.name
      <4>1. 1 \in DOMAIN todo
        BY <3>1 DEF Removing, TypeOK, Running
      <4> QED
        BY <2>1, <3>1, <4>1 DEF Job0
    <3>2. CASE CleanedFirst(todo, n)
      BY <2>1, <3>2, Zenon DEF CleanedFirst
    <3> QED
      BY <1>1, <3>1, <3>2 DEF MayDangle, Running
  <2> QED
    BY <1>1, <2>2 DEF MayDangle, Touched
<1> QED
  BY <1>1, <1>2, Quiet DEF BufferInv, WalkInv, AllotInv, TodoTouched, Removing,
                           Allotted

LEMMA StutterStep ==
  ASSUME IInv, UNCHANGED vars
  PROVE  Safe'
<1> USE DEF IInv, Safe
<1>1. /\ fat' = fat /\ root' = root /\ pc' = pc /\ todo' = todo /\ buf' = buf
      /\ slot' = slot /\ cur' = cur /\ clusters' = clusters /\ idx' = idx
  BY DEF vars, disk, process, removal, writing
<1> QED
  BY <1>1 DEF Separate, Whole, Packed, PackedDir, TodoTouched, BufferInv, WalkInv,
     AllotInv, LiveSlots, Visible, Matches, ChainOf, Chain, ClosedSets,
     MayDangle, CleanedFirst, Removing, Allotted, Handed, Job0, Touched

-----------------------------------------------------------------------------
(* The conjunction is inductive.                                           *)
LEMMA Inductive ==
  ASSUME SafePlans, IInv, [Next]_vars
  PROVE  IInv'
<1>1. TypeOK'
  BY TypeStep DEF IInv
<1>2. Safe'
  <2>1. CASE Start          BY <2>1, StartStep
  <2>2. CASE NextJob        BY <2>2, NextJobStep
  <2>3. CASE ScanMatch      BY <2>3, ScanMatchStep
  <2>4. CASE ScanEnd        BY <2>4, ScanEndStep
  <2>5. CASE FreeOne        BY <2>5, FreeOneStep
  <2>6. CASE FreeEnd        BY <2>6, FreeEndStep
  <2>7. CASE WriteDirectory BY <2>7, WriteDirectoryStep
  <2>8. CASE Allocate       BY <2>8, AllocateStep
  <2>9. CASE AllocateFails  BY <2>9, FailStep DEF AllocateFails
  <2>10. CASE LinkOne       BY <2>10, LinkOneStep
  <2>11. CASE FillOne       BY <2>11, FillOneStep
  <2>12. CASE AddEntry      BY <2>12, AddEntryStep
  <2>13. CASE AddFails      BY <2>13, FailStep DEF AddFails
  <2>14. CASE Readback      BY <2>14, ReadbackStep
  <2>15. CASE ReadbackFails BY <2>15, FailStep DEF ReadbackFails
  <2>16. CASE Kill          BY <2>16, KillStep
  <2>17. CASE UNCHANGED vars
    BY <2>17, StutterStep
  <2> QED
    BY <2>1, <2>2, <2>3, <2>4, <2>5, <2>6, <2>7, <2>8, <2>9, <2>10, <2>11,
       <2>12, <2>13, <2>14, <2>15, <2>16, <2>17 DEF Next, Step
<1> QED
  BY <1>1, <1>2 DEF IInv

(* No cluster is ever in the chains of two entries, on any volume and for  *)
(* any plans, provided that every run that may follow a killed one removes *)
(* all touched names before it allocates, as the harnesses' runs with      *)
(* --clean-known-boot do.                                                  *)
THEOREM NeverCrossLinked ==
  ASSUME SafePlans
  PROVE  Spec /\ CameSound => []NoCrossLink
<1>1. CameSound /\ Init => IInv
  BY IInvInit
<1>2. IInv /\ [Next]_vars => IInv'
  BY Inductive
<1>3. IInv => NoCrossLink
  <2>1. LiveSlots(root) \subseteq Int
    BY VolumeAssumption DEF LiveSlots, Slot
  <2> QED
    BY <2>1, ChainsBySlot DEF IInv, Safe, Separate, NoCrossLink, ChainOf
<1> QED
  BY <1>1, <1>2, <1>3, PTL DEF Spec

(* When clusters are about to be handed out, none of the free ones is      *)
(* reachable from an entry that a reader can see.                          *)
THEOREM NeverDanglingAtAllocation ==
  ASSUME SafePlans
  PROVE  Spec /\ CameSound => []NoDanglingAtAllocation
<1>1. CameSound /\ Init => IInv
  BY IInvInit
<1>2. IInv /\ [Next]_vars => IInv'
  BY Inductive
<1>3. IInv => NoDanglingAtAllocation
  BY NothingDangles DEF NoDanglingAtAllocation, ChainOf
<1> QED
  BY <1>1, <1>2, <1>3, PTL DEF Spec

-----------------------------------------------------------------------------
(* The promise of FileStore: what the stager does to the files it is not   *)
(* working on, and what it leaves of the others.                           *)

(* Clusters are handed out only for a file that is to be written.          *)
Writing == {"allocate", "link", "fill", "add", "readback"}
OpInv == pc \in Writing => Job0.op = "write"

Store == [n \in Name |-> ReadFile(fat, root, data, n)]
WorkedOn == IF Busy THEN Job0.name ELSE NoName
Goal ==
  IF ~ Busy THEN (IF pc \in {"failed", "killed"} THEN "abandoned" ELSE "done")
  ELSE IF Job0.op = "remove" THEN Absent ELSE NewContent(Job0.name)
OthersKept == \A n \in Name \ {WorkedOn} : Store'[n] = Store[n]

(* The steps of FileStore, in these terms.                                 *)
LEMMA ViewSteps ==
  ASSUME \/ WorkedOn = NoName /\ WorkedOn' \in Name \cup {NoName} /\ Store' = Store
         \/ WorkedOn # NoName /\ WorkedOn' = WorkedOn /\ Goal' = Goal /\ OthersKept
         \/ /\ WorkedOn # NoName /\ WorkedOn' = NoName /\ OthersKept
            /\ Store'[WorkedOn] = Goal /\ Goal' = "done"
         \/ /\ WorkedOn # NoName /\ WorkedOn' = NoName /\ Store' = Store
            /\ Goal' = "abandoned"
  PROVE  StoreView!Next
BY DEF StoreView!Next, StoreView!Begin, StoreView!Work, StoreView!Succeed,
       StoreView!Abandon, StoreView!Rest, StoreView!OnlyBusyChanges,
       OthersKept, WorkedOn, Goal, Store

LEMMA StoreNext == Store' = [n \in Name |-> ReadFile(fat', root', data', n)]
BY DEF Store, ReadFile, NextMatch, ClusterChain, Walk, Hop, Matches, Visible

LEMMA StoreKept == ASSUME UNCHANGED disk PROVE Store' = Store
BY StoreNext DEF Store, disk

(* A file at work has a name; its goal stands while the job does.          *)
LEMMA BusyFacts ==
  ASSUME IInv, Busy
  PROVE  /\ WorkedOn = Job0.name /\ WorkedOn \in Name /\ WorkedOn # NoName
         /\ todo # <<>> /\ Job0.op \in {"remove", "write"}
<1>1. todo # <<>> /\ TypeOK
  BY DEF IInv, TypeOK, Busy, Running
<1>2. Job0 \in Job
  BY <1>1, JobFacts
<1>3. WorkedOn = Job0.name
  BY DEF WorkedOn
<1>4. Job0.name \in Name /\ Job0.op \in {"remove", "write"}
  BY <1>2 DEF Job
<1> QED  BY <1>1, <1>3, <1>4, NameAssumption

LEMMA GoalStands ==
  ASSUME IInv, Busy, Busy', UNCHANGED <<todo, info, manifest, runs>>
  PROVE  WorkedOn' = WorkedOn /\ Goal' = Goal
BY DEF WorkedOn, Goal, Job0, NewContent, NewBlock, PayloadOffset, StagedPayload

(* A table and blocks that change only off the chains of other files.      *)
LEMMA OffChains ==
  ASSUME IInv, Busy, UNCHANGED root,
         \A t \in LiveSlots(root) : root[t].name # Job0.name =>
           \A c \in ChainOf(t) : fat'[c] = fat[c] /\ data'[c] = data[c]
  PROVE  OthersKept
<1> SUFFICES ASSUME NEW n \in Name, n # Job0.name
             PROVE  ReadFile(fat', root, data', n) = ReadFile(fat, root, data, n)
  BY BusyFacts, StoreNext DEF OthersKept, Store
<1>1. \A s \in NextMatch(root, 1, n) :
        \A c \in Chain(fat, root[s].start) : fat'[c] = fat[c] /\ data'[c] = data[c]
  BY MatchFacts DEF ChainOf
<1>2. root \in Directory
  BY DEF IInv, TypeOK
<1> DEFINE g == fat'
           e == data'
<1>3. \A s \in NextMatch(root, 1, n) :
        /\ root[s] = root[s]
        /\ \A c \in Chain(fat, root[s].start) : g[c] = fat[c] /\ e[c] = data[c]
  BY <1>1
<1> HIDE DEF g, e
<1>4. ReadFile(g, root, e, n) = ReadFile(fat, root, data, n)
  BY <1>2, <1>3, ReadKept
<1> QED  BY <1>4 DEF g, e

(* Steps between the files.                                                *)
LEMMA ViewIdle ==
  ASSUME IInv, Start \/ NextJob
  PROVE  StoreView!Next
<1>1. WorkedOn = NoName /\ UNCHANGED disk
  BY DEF Start, NextJob, WorkedOn, Busy, Running
<1>2. WorkedOn' \in Name \cup {NoName}
  <2>1. CASE Start
    BY <2>1 DEF Start, WorkedOn, Busy
  <2>2. CASE NextJob /\ todo = <<>>
    BY <2>2 DEF NextJob, WorkedOn, Busy, Running
  <2>3. CASE NextJob /\ todo # <<>>
    <3>1. Job0' = Job0 /\ Job0 \in Job
      BY <2>3, JobFacts DEF NextJob, Job0, IInv
    <3> QED  BY <3>1 DEF WorkedOn, Job
  <2> QED  BY <2>1, <2>2, <2>3
<1> QED  BY <1>1, <1>2, StoreKept, ViewSteps

(* Steps that change nothing on the disk.                                  *)
LEMMA ViewQuiet ==
  ASSUME IInv, ScanMatch \/ ScanEnd \/ FreeEnd \/ Allocate
  PROVE  StoreView!Next
<1>1. /\ Busy /\ Busy' /\ UNCHANGED <<todo, info, manifest, runs>> /\ UNCHANGED disk
  BY DEF ScanMatch, ScanEnd, FreeEnd, Allocate, Busy, Running
<1>2. OthersKept
  BY <1>1, StoreKept DEF OthersKept
<1> QED  BY <1>1, <1>2, BusyFacts, GoalStands, ViewSteps

LEMMA ViewFreeOne ==
  ASSUME IInv, FreeOne
  PROVE  StoreView!Next
<1>1. /\ pc = "free" /\ cur \in Cluster /\ fat' = [fat EXCEPT ![cur] = FreeCluster]
      /\ Busy /\ Busy' /\ UNCHANGED <<root, data, todo, info, manifest, runs>>
  BY DEF FreeOne, Busy, Running
<1>2. ASSUME NEW t \in LiveSlots(root), root[t].name # Job0.name, NEW c \in ChainOf(t)
      PROVE  fat'[c] = fat[c] /\ data'[c] = data[c]
  <2>1. t # slot /\ Chain(fat, cur) \cap ChainOf(t) = {}
    BY <1>1, <1>2 DEF IInv, Safe, WalkInv
  <2>2. c # cur /\ c \in Cluster
    BY <1>1, <2>1, ChainStart, ChainOfClusters DEF ChainOf
  <2> QED  BY <1>1, <2>2 DEF IInv, TypeOK
<1>3. OthersKept
  BY <1>1, <1>2, OffChains
<1> QED  BY <1>1, <1>3, BusyFacts, GoalStands, ViewSteps

LEMMA ViewHanded ==
  ASSUME IInv, LinkOne \/ FillOne
  PROVE  StoreView!Next
<1> DEFINE c0 == clusters[idx]
<1>1. /\ pc \in {"link", "fill"}
      /\ Busy /\ Busy' /\ UNCHANGED <<root, todo, info, manifest, runs>>
      /\ \E x : fat' = [fat EXCEPT ![c0] = x] \/ fat' = fat
      /\ \E x : data' = [data EXCEPT ![c0] = x] \/ data' = data
  BY DEF LinkOne, FillOne, Busy, Running
<1>2. c0 \in Handed
  BY <1>1 DEF IInv, TypeOK, Handed
<1>3. ASSUME NEW t \in LiveSlots(root), NEW c \in ChainOf(t)
      PROVE  fat'[c] = fat[c] /\ data'[c] = data[c]
  <2>1. c # c0 /\ c \in Cluster
    BY <1>1, <1>2, ChainOfClusters DEF IInv, Safe, AllotInv, Allotted, ChainOf
  <2> HIDE DEF c0
  <2> QED  BY <1>1, <2>1 DEF IInv, TypeOK
<1>4. OthersKept
  BY <1>1, <1>3, OffChains
<1> QED  BY <1>1, <1>4, BusyFacts, GoalStands, ViewSteps

LEMMA ViewWriteDirectory ==
  ASSUME IInv, WriteDirectory
  PROVE  StoreView!Next
<1>1. /\ pc = "directory" /\ Busy /\ root' = buf
      /\ UNCHANGED <<fat, data, info, manifest, runs>>
  BY DEF WriteDirectory, Busy, Running
<1>2. /\ root \in Directory /\ buf \in Directory
      /\ \A s \in Slot : \/ buf[s] = root[s]
                         \/ /\ s \in LiveSlots(root)
                            /\ root[s].name = Job0.name
                            /\ buf[s] = Marked(root[s], "deleted")
      /\ \A r \in Slot : ~ Matches(buf, r, Job0.name)
  BY <1>1 DEF IInv, TypeOK, Safe, BufferInv, Removing
<1>3. OthersKept
  <2> SUFFICES ASSUME NEW n \in Name, n # Job0.name
               PROVE  ReadFile(fat, buf, data, n) = ReadFile(fat, root, data, n)
    BY <1>1, BusyFacts, StoreNext DEF OthersKept, Store
  <2>1. /\ NextMatch(buf, 1, n) = NextMatch(root, 1, n)
        /\ \A s \in NextMatch(root, 1, n) : buf[s] = root[s]
    BY <1>2, DeletingOthers
  <2> QED  BY <1>2, <2>1, ReadKept
<1>4. CASE Job0.op = "write"
  <2>1. Busy' /\ todo' = todo
    BY <1>4 DEF WriteDirectory, Busy, Running
  <2> QED  BY <1>1, <1>3, <2>1, BusyFacts, GoalStands, ViewSteps
<1>5. CASE Job0.op = "remove"
  <2>1. WorkedOn' = NoName /\ Goal' = "done" /\ Goal = Absent
    BY <1>1, <1>5 DEF WriteDirectory, WorkedOn, Goal, Busy
  <2>2. Store'[WorkedOn] = Absent
    <3>1. NextMatch(buf, 1, Job0.name) = {}
      BY <1>2 DEF NextMatch
    <3>2. ReadFile(fat, buf, data, Job0.name) = Absent
      BY <3>1 DEF ReadFile
    <3> QED  BY <1>1, <3>2, BusyFacts, StoreNext
  <2> QED  BY <1>1, <1>3, <2>1, <2>2, BusyFacts, ViewSteps
<1> QED  BY <1>1, <1>4, <1>5, BusyFacts

LEMMA ViewAddEntry ==
  ASSUME IInv, AddEntry
  PROVE  StoreView!Next
<1> DEFINE entry == [mark |-> "live", name |-> Job0.name, start |-> clusters[1],
                     size |-> Blocks[Job0.name]]
<1>1. /\ Busy /\ Busy' /\ UNCHANGED <<fat, data, todo, info, manifest, runs>>
  BY DEF AddEntry, Busy, Running
<1>2. PICK s \in FreeSlot(root) : root' = WithEntry(root, s, entry)
  BY DEF AddEntry
<1>3. entry.mark = "live" /\ entry.name = Job0.name
  OBVIOUS
<1>4. root \in Directory /\ PackedDir(root)
  BY DEF IInv, TypeOK, Safe, Packed
<1> HIDE DEF entry
<1>5. OthersKept
  <2> SUFFICES ASSUME NEW n \in Name, n # Job0.name
               PROVE  ReadFile(fat, root', data, n) = ReadFile(fat, root, data, n)
    BY <1>1, BusyFacts, StoreNext DEF OthersKept, Store
  <2>1. /\ NextMatch(root', 1, n) = NextMatch(root, 1, n)
        /\ \A t \in NextMatch(root, 1, n) : root'[t] = root[t]
    BY <1>2, <1>3, <1>4, AddingOthers
  <2> QED  BY <1>4, <2>1, ReadKept
<1> QED  BY <1>1, <1>5, BusyFacts, GoalStands, ViewSteps

LEMMA ViewReadback ==
  ASSUME IInv, OpInv, Readback
  PROVE  StoreView!Next
<1>1. /\ pc = "readback" /\ pc' = "next" /\ Busy /\ UNCHANGED disk
      /\ ReadFile(fat, root, data, Job0.name) = NewContent(Job0.name)
  BY DEF Readback, Busy, Running
<1>2. Store' = Store /\ OthersKept
  BY <1>1, StoreKept DEF OthersKept
<1>3. WorkedOn' = NoName /\ Goal' = "done"
  BY <1>1 DEF WorkedOn, Goal, Busy
<1>4. Store[WorkedOn] = Goal
  BY <1>1, BusyFacts DEF Store, Goal, OpInv, Writing
<1> QED  BY <1>1, <1>2, <1>3, <1>4, BusyFacts, ViewSteps

LEMMA ViewAbandon ==
  ASSUME IInv, AllocateFails \/ AddFails \/ ReadbackFails \/ Kill
  PROVE  StoreView!Next
<1>1. UNCHANGED disk /\ pc' \in {"failed", "killed"}
  BY DEF AllocateFails, AddFails, ReadbackFails, Fail, Kill
<1>2. Store' = Store /\ WorkedOn' = NoName /\ Goal' = "abandoned"
  BY <1>1, StoreKept DEF WorkedOn, Goal, Busy, Running
<1>3. CASE WorkedOn = NoName
  BY <1>2, <1>3, ViewSteps
<1>4. CASE WorkedOn # NoName
  BY <1>2, <1>4, ViewSteps
<1> QED  BY <1>3, <1>4

LEMMA OpInvStep ==
  ASSUME IInv, OpInv, [Next]_vars
  PROVE  OpInv'
<1> USE DEF OpInv, Writing, Job0
<1>1. CASE UNCHANGED vars
  BY <1>1 DEF vars, process
<1>2. CASE Start \/ NextJob \/ ScanMatch \/ ScanEnd \/ FreeOne \/ FreeEnd
  BY <1>2 DEF Start, NextJob, ScanMatch, ScanEnd, FreeOne, FreeEnd
<1>3. CASE WriteDirectory
  BY <1>3 DEF WriteDirectory
<1>4. CASE Allocate \/ LinkOne \/ FillOne \/ AddEntry
  BY <1>4 DEF Allocate, LinkOne, FillOne, AddEntry
<1>5. CASE Readback
  BY <1>5 DEF Readback
<1>6. CASE AllocateFails \/ AddFails \/ ReadbackFails \/ Kill
  BY <1>6 DEF AllocateFails, AddFails, ReadbackFails, Fail, Kill
<1> QED
  BY <1>1, <1>2, <1>3, <1>4, <1>5, <1>6 DEF Next, Step

LEMMA ViewStep ==
  ASSUME IInv, OpInv, [Next]_vars
  PROVE  [StoreView!Next]_(StoreView!vars)
<1>1. CASE UNCHANGED vars
  <2>1. Store' = Store
    BY <1>1, StoreKept DEF vars
  <2>2. WorkedOn' = WorkedOn /\ Goal' = Goal
    BY <1>1 DEF vars, process, WorkedOn, Goal, Busy, Running, Job0, NewContent, NewBlock,
                PayloadOffset, StagedPayload
  <2> QED  BY <2>1, <2>2 DEF StoreView!vars, Store, WorkedOn, Goal
<1>2. CASE Next
  BY <1>2, ViewIdle, ViewQuiet, ViewFreeOne, ViewHanded, ViewWriteDirectory,
     ViewAddEntry, ViewReadback, ViewAbandon DEF Next, Step
<1> QED  BY <1>1, <1>2

(* The stager implements FileStore: whatever happens to a run, on any      *)
(* volume and for any plans, every file but the one being removed or       *)
(* replaced reads as before, and a job that is not abandoned leaves its    *)
(* file absent, or with the new content; under the same proviso.           *)
THEOREM StagerKeepsItsPromise ==
  ASSUME SafePlans
  PROVE  Spec /\ CameSound => OtherFilesUntouched
<1>1. CameSound /\ Init => IInv /\ OpInv
  BY IInvInit DEF Init, OpInv, Writing
<1>2. IInv /\ OpInv /\ [Next]_vars => (IInv /\ OpInv)'
  BY Inductive, OpInvStep
<1>3. Init => StoreView!Init
  BY DEF Init, StoreView!Init, Busy, Running
<1>4. IInv /\ OpInv /\ [Next]_vars => [StoreView!Next]_(StoreView!vars)
  BY ViewStep
<1> QED
  BY <1>1, <1>2, <1>3, <1>4, PTL DEF Spec, OtherFilesUntouched, StoreView!Spec

-----------------------------------------------------------------------------
(* Reading back.  From the allocation on, the directory on disk has no     *)
(* entry of the name; the clusters are linked one to the next and filled   *)
(* in order, and the new entry is the one a reader finds.                  *)

NoMatchInv ==
  pc \in Writing \ {"readback"} => \A r \in Slot : ~ Matches(root, r, Job0.name)

LinkedInv ==
  pc \in {"link", "fill", "add", "readback"} =>
    /\ Len(clusters) = ClustersFor(Job0.name)
    /\ pc # "link" => Linked(fat, clusters)

FilledInv ==
  /\ pc = "fill" =>
       \A i \in 1..(idx - 1) : data[clusters[i]] = NewBlock(Job0.name, i)
  /\ pc \in {"add", "readback"} =>
       \A i \in 1..Len(clusters) : data[clusters[i]] = NewBlock(Job0.name, i)

EntryInv ==
  pc = "readback" =>
    \E s \in Slot : /\ NextMatch(root, 1, Job0.name) = {s}
                    /\ root[s].start = clusters[1]
                    /\ root[s].size = Blocks[Job0.name]

FailInv ==
  /\ failure # "none" => pc = "failed"
  /\ MismatchMeansShortEnd

ReadInv == NoMatchInv /\ LinkedInv /\ FilledInv /\ EntryInv /\ FailInv

(* What the readback compares: the file is whole unless a link to one of   *)
(* its clusters passes for an end mark, and then it is not the content.    *)
LEMMA ReadsBack ==
  ASSUME IInv, ReadInv, pc = "readback"
  PROVE  /\ (\A i \in 2..Len(clusters) : clusters[i] \notin ShortEnd) =>
              ReadFile(fat, root, data, Job0.name) = NewContent(Job0.name)
         /\ ReadFile(fat, root, data, Job0.name) = NewContent(Job0.name) =>
              Len(ClusterChain(fat, clusters[1])) = Len(clusters)
         /\ \E s \in LiveSlots(root) :
              root[s].name = Job0.name /\ root[s].start = clusters[1]
<1> DEFINE n == Job0.name
           chain == ClusterChain(fat, clusters[1])
           size == Blocks[n]
<1>1. /\ Linked(fat, clusters) /\ Len(clusters) = ClustersFor(n)
      /\ \A i \in 1..Len(clusters) : data[clusters[i]] = NewBlock(n, i)
  BY DEF ReadInv, LinkedInv, FilledInv
<1>2. size \in Nat /\ Len(clusters) = IF size = 0 THEN 1 ELSE size
  <2>1. todo # <<>> /\ TypeOK
    BY DEF IInv, TypeOK, Running
  <2> QED  BY <1>1, <2>1, JobFacts DEF ClustersFor
<1>3. /\ Len(chain) \in Nat /\ Len(chain) <= Len(clusters)
      /\ (\A i \in 2..Len(clusters) : clusters[i] \notin ShortEnd) => chain = clusters
  BY <1>1, LinkedChain
<1>4. PICK s \in Slot : /\ NextMatch(root, 1, n) = {s}
                        /\ root[s].start = clusters[1] /\ root[s].size = size
  BY DEF ReadInv, EntryInv
<1> HIDE DEF n, chain, size
<1>5. ReadFile(fat, root, data, n) =
        IF Len(chain) < size THEN Broken
        ELSE Content([i \in 1..size |-> data[chain[i]]])
  <2>1. (CHOOSE r \in NextMatch(root, 1, n) : TRUE) = s /\ NextMatch(root, 1, n) # {}
    BY <1>4
  <2> QED  BY <1>4, <2>1 DEF ReadFile, chain
<1>6. NewContent(n) = Content([i \in 1..size |-> NewBlock(n, i)])
  BY DEF NewContent, size
<1>7. ASSUME \A i \in 2..Len(clusters) : clusters[i] \notin ShortEnd
      PROVE  ReadFile(fat, root, data, n) = NewContent(n)
  <2>1. chain = clusters /\ ~ (Len(chain) < size)
    BY <1>2, <1>3, <1>7
  <2>2. \A i \in 1..size : data[chain[i]] = NewBlock(n, i)
    BY <1>1, <1>2, <2>1
  <2>3. [i \in 1..size |-> data[chain[i]]] = [i \in 1..size |-> NewBlock(n, i)]
    BY <2>2
  <2> QED  BY <1>5, <1>6, <2>1, <2>3
<1>8. ASSUME ReadFile(fat, root, data, n) = NewContent(n)
      PROVE  Len(chain) = Len(clusters)
  <2>1. ~ (Len(chain) < size)
    BY <1>5, <1>6, <1>8 DEF Broken, Content
  <2>2. CASE size = 0
    BY <1>2, <1>3, <2>2
  <2>3. CASE size # 0
    BY <1>2, <1>3, <2>1, <2>3
  <2> QED  BY <2>2, <2>3
<1>9. s \in LiveSlots(root) /\ root[s].name = n
  BY <1>4, MatchFacts
<1> QED  BY <1>4, <1>7, <1>8, <1>9 DEF n, chain

(* Each step keeps it.                                                     *)
LEMMA ReadInvInit == Init => ReadInv
BY DEF Init, ReadInv, NoMatchInv, LinkedInv, FilledInv, EntryInv, FailInv, Writing,
       MismatchMeansShortEnd

LEMMA ReadFillStep ==
  ASSUME IInv, IInv', ReadInv, LinkOne \/ FillOne
  PROVE  ReadInv'
<1> DEFINE n == Job0.name
<1>1. /\ UNCHANGED <<root, todo, info, clusters, manifest, failure, runs>> /\ n' = n
      /\ pc \in {"link", "fill"} /\ pc' \in {"link", "fill", "add"} /\ failure = "none"
      /\ Len(clusters) = ClustersFor(n)
      /\ \A r \in Slot : ~ Matches(root, r, n)
  BY DEF LinkOne, FillOne, Job0, ReadInv, LinkedInv, NoMatchInv, FailInv, Writing
<1>2. /\ clusters \in Seq(Cluster) /\ clusters # <<>> /\ idx \in 1..Len(clusters)
      /\ Len(clusters) \in Nat /\ data \in [Cluster -> Block] /\ DOMAIN clusters = 1..Len(clusters)
      /\ \A i \in 1..Len(clusters) : clusters[i] \in Cluster
  BY <1>1 DEF IInv, TypeOK
<1>3. pc' # "link" => Linked(fat', clusters)
  <2>1. pc' # "link" =>
          /\ \A i, j \in DOMAIN clusters : clusters[i] = clusters[j] => i = j
          /\ \A i \in DOMAIN clusters :
               fat'[clusters[i]] = IF i < Len(clusters) THEN clusters[i + 1] ELSE EndOfChain
    BY <1>1 DEF IInv, Safe, AllotInv, Allotted
  <2> QED  BY <1>2, <2>1 DEF Linked
<1>4. NoMatchInv' /\ EntryInv' /\ FailInv'
  BY <1>1 DEF NoMatchInv, EntryInv, FailInv, MismatchMeansShortEnd, Matches, Visible
<1>5. LinkedInv'
  <2>1. ClustersFor(n)' = ClustersFor(n)
    BY <1>1 DEF ClustersFor
  <2> QED  BY <1>1, <1>3, <2>1 DEF LinkedInv
<1>6. \A i : NewBlock(n, i)' = NewBlock(n, i)
  BY <1>1 DEF NewBlock, PayloadOffset, StagedPayload
<1>7. CASE LinkOne
  <2>1. pc' = "fill" => idx' = 1
    BY <1>7 DEF LinkOne
  <2>2. pc' \in {"link", "fill"}
    BY <1>7 DEF LinkOne
  <2>3. FilledInv'
    BY <2>1, <2>2 DEF FilledInv
  <2> QED  BY <1>4, <1>5, <2>3 DEF ReadInv
<1>8. CASE FillOne
  <2>1. /\ pc = "fill" /\ data' = [data EXCEPT ![clusters[idx]] = NewBlock(n, idx)]
        /\ \/ idx < Len(clusters) /\ idx' = idx + 1 /\ pc' = "fill"
           \/ ~ (idx < Len(clusters)) /\ idx' = 1 /\ pc' = "add"
    BY <1>8 DEF FillOne
  <2>2. \A i \in 1..(idx - 1) : data[clusters[i]] = NewBlock(n, i)
    BY <2>1 DEF ReadInv, FilledInv
  <2>3. ASSUME NEW i \in 1..idx PROVE data'[clusters[i]] = NewBlock(n, i)
    <3>1. CASE i = idx
      BY <1>2, <2>1, <3>1
    <3>2. CASE i # idx
      <4>1. i \in 1..(idx - 1) /\ i \in 1..Len(clusters)
        BY <1>2, <3>2
      <4>2. clusters[i] # clusters[idx]
        BY <1>1, <1>2, <2>1, <3>2, <4>1 DEF ReadInv, LinkedInv, Linked
      <4> QED  BY <1>2, <2>1, <2>2, <4>1, <4>2
    <3> QED  BY <3>1, <3>2
  <2>4. FilledInv'
    <3>1. CASE pc' = "fill"
      <4>1. idx' - 1 = idx
        BY <1>2, <2>1, <3>1
      <4> QED  BY <1>1, <1>6, <2>3, <3>1, <4>1 DEF FilledInv
    <3>2. CASE pc' = "add"
      <4>1. idx = Len(clusters)
        <5>1. ~ (idx < Len(clusters))
          BY <2>1, <3>2
        <5>2. idx \in Nat /\ Len(clusters) \in Nat /\ idx <= Len(clusters)
          BY <1>2
        <5> QED  BY <5>1, <5>2
      <4> QED  BY <1>1, <1>6, <2>3, <3>2, <4>1 DEF FilledInv
    <3> QED  BY <2>1, <3>1, <3>2
  <2> QED  BY <1>4, <1>5, <2>4 DEF ReadInv
<1> QED  BY <1>7, <1>8

LEMMA ReadAddStep ==
  ASSUME IInv, ReadInv, AddEntry
  PROVE  ReadInv'
<1> DEFINE n == Job0.name
           entry == [mark |-> "live", name |-> n, start |-> clusters[1],
                     size |-> Blocks[n]]
<1>1. /\ UNCHANGED <<fat, data, todo, info, clusters, manifest, failure, runs>>
      /\ n' = n /\ pc = "add" /\ pc' = "readback" /\ failure = "none"
      /\ \A r \in Slot : ~ Matches(root, r, n)
  BY DEF AddEntry, Job0, ReadInv, NoMatchInv, FailInv, Writing, writing
<1>2. PICK s \in FreeSlot(root) : root' = WithEntry(root, s, entry)
  BY DEF AddEntry
<1>3. entry.mark = "live" /\ entry.name = n /\ entry.start = clusters[1]
      /\ entry.size = Blocks[n] /\ root \in Directory /\ PackedDir(root)
  BY DEF IInv, TypeOK, Safe, Packed
<1> HIDE DEF entry
<1>4. /\ s \in Slot /\ root'[s] = entry /\ s \in LiveSlots(root')
      /\ \A t \in LiveSlots(root') \ {s} : t \in LiveSlots(root) /\ root'[t] = root[t]
  BY <1>2, <1>3, Adding, AddingKeeps
<1>5. \A dir : \A t \in Slot : Matches(dir, t, n) <=> t \in LiveSlots(dir) /\ dir[t].name = n
  BY DEF Matches, LiveSlots
<1>6. \A t \in Slot : Matches(root', t, n) <=> t = s
  BY <1>1, <1>3, <1>4, <1>5
<1>7. NextMatch(root', 1, n) = {s}
  <2>1. \A q \in 1..(s - 1) : q \in Slot /\ q # s
    BY <1>4, VolumeAssumption DEF Slot
  <2>2. s >= 1
    BY <1>4, VolumeAssumption DEF Slot
  <2> QED  BY <1>4, <1>6, <2>1, <2>2 DEF NextMatch
<1>8. EntryInv'
  BY <1>1, <1>3, <1>4, <1>7 DEF EntryInv
<1>9. LinkedInv' /\ FilledInv'
  <2>1. ClustersFor(n)' = ClustersFor(n) /\ \A i : NewBlock(n, i)' = NewBlock(n, i)
    BY <1>1 DEF ClustersFor, NewBlock, PayloadOffset, StagedPayload
  <2> QED  BY <1>1, <2>1 DEF ReadInv, LinkedInv, FilledInv
<1>10. NoMatchInv' /\ FailInv'
  BY <1>1 DEF NoMatchInv, FailInv, MismatchMeansShortEnd
<1> QED  BY <1>8, <1>9, <1>10 DEF ReadInv

LEMMA ReadInvStep ==
  ASSUME IInv, IInv', ReadInv, [Next]_vars
  PROVE  ReadInv'
<1> DEFINE Rest == NoMatchInv /\ LinkedInv /\ FilledInv /\ EntryInv
<1>1. CASE UNCHANGED vars
  <2>1. /\ UNCHANGED <<fat, root, data, pc, todo, info, clusters, idx, failure, manifest, runs>>
        /\ Job0' = Job0
    BY <1>1 DEF vars, disk, process, writing, Job0
  <2>2. NoMatchInv' /\ EntryInv'
    BY <2>1 DEF ReadInv, NoMatchInv, EntryInv, NextMatch, Matches, Visible
  <2>3. LinkedInv' /\ FilledInv'
    BY <2>1 DEF ReadInv, LinkedInv, FilledInv, ClustersFor, NewBlock, PayloadOffset,
                StagedPayload
  <2>4. FailInv'
    BY <2>1 DEF ReadInv, FailInv, MismatchMeansShortEnd
  <2> QED  BY <2>2, <2>3, <2>4 DEF ReadInv
<1>2. CASE Start \/ NextJob \/ ScanMatch \/ ScanEnd \/ FreeOne \/ FreeEnd \/ Kill
  <2>1. pc' \notin Writing
    BY <1>2 DEF Start, NextJob, ScanMatch, ScanEnd, FreeOne, FreeEnd, Kill, Writing
  <2>2. failure' = "none"
    BY <1>2 DEF Start, NextJob, ScanMatch, ScanEnd, FreeOne, FreeEnd, Kill, Running,
                ReadInv, FailInv
  <2> QED  BY <2>1, <2>2 DEF ReadInv, NoMatchInv, LinkedInv, FilledInv, EntryInv, FailInv,
                             MismatchMeansShortEnd, Writing
<1>3. CASE WriteDirectory
  <2>1. /\ pc = "directory" /\ root' = buf /\ failure' = "none"
        /\ \A r \in Slot : ~ Matches(buf, r, Job0.name)
        /\ pc' = "next" \/ (pc' = "allocate" /\ Job0' = Job0)
    BY <1>3 DEF WriteDirectory, ReadInv, FailInv, IInv, Safe, BufferInv, Removing, Job0
  <2>2. NoMatchInv'
    BY <2>1, Zenon DEF NoMatchInv, Matches, Visible, Writing
  <2> QED  BY <2>1, <2>2 DEF ReadInv, LinkedInv, FilledInv, EntryInv, FailInv,
                             MismatchMeansShortEnd
<1>4. CASE Allocate
  <2>1. /\ pc = "allocate" /\ pc' = "link" /\ failure' = "none"
        /\ UNCHANGED <<root, todo>> /\ Job0' = Job0
        /\ clusters' \in Allocations(fat, Job0.layout, ClustersFor(Job0.name))
    BY <1>4 DEF Allocate, ReadInv, FailInv, disk, Job0
  <2>2. ClustersFor(Job0.name) \in Nat
    BY <2>1, JobFacts DEF IInv, TypeOK, Running
  <2>3. Len(clusters') = ClustersFor(Job0.name)
    BY <2>1, <2>2 DEF Allocations
  <2>4. LinkedInv'
    BY <2>1, <2>3 DEF LinkedInv, ClustersFor
  <2>5. NoMatchInv'
    BY <2>1 DEF ReadInv, NoMatchInv, Matches, Visible, Writing
  <2> QED  BY <2>1, <2>4, <2>5 DEF ReadInv, FilledInv, EntryInv, FailInv,
                                   MismatchMeansShortEnd
<1>5. CASE LinkOne \/ FillOne
  BY <1>5, ReadFillStep
<1>6. CASE AddEntry
  BY <1>6, ReadAddStep
<1>7. CASE Readback
  <2>1. pc' = "next" /\ failure' = "none"
    BY <1>7 DEF Readback, ReadInv, FailInv
  <2> QED  BY <2>1 DEF ReadInv, NoMatchInv, LinkedInv, FilledInv, EntryInv, FailInv,
                       MismatchMeansShortEnd, Writing
<1>8. CASE AllocateFails \/ AddFails
  <2>1. pc' = "failed" /\ failure' # "FATX readback mismatch"
    BY <1>8 DEF AllocateFails, AddFails, Fail
  <2> QED  BY <2>1 DEF ReadInv, NoMatchInv, LinkedInv, FilledInv, EntryInv, FailInv,
                       MismatchMeansShortEnd, Writing
<1>9. CASE ReadbackFails
  <2>1. pc = "readback" /\ pc' = "failed" /\ UNCHANGED clusters
        /\ ReadFile(fat, root, data, Job0.name) # NewContent(Job0.name)
    BY <1>9 DEF ReadbackFails, Fail, writing
  <2>2. \E i \in 2..Len(clusters) : clusters[i] \in ShortEnd
    BY <2>1, ReadsBack
  <2> QED  BY <2>1, <2>2 DEF ReadInv, NoMatchInv, LinkedInv, FilledInv, EntryInv, FailInv,
                             MismatchMeansShortEnd, Writing
<1> QED
  BY <1>1, <1>2, <1>3, <1>4, <1>5, <1>6, <1>7, <1>8, <1>9 DEF Next, Step

(* The only way for a file just written not to read back as what was       *)
(* written is a link to a cluster whose number is a 16-bit end mark, in    *)
(* any run on any volume that was sound.                                   *)
THEOREM OnlyShortEndsBreakReadback ==
  ASSUME SafePlans
  PROVE  Spec /\ CameSound => []MismatchMeansShortEnd
<1>1. CameSound /\ Init => IInv /\ ReadInv
  BY IInvInit, ReadInvInit
<1>2. IInv /\ ReadInv /\ [Next]_vars => (IInv /\ ReadInv)'
  BY Inductive, ReadInvStep
<1>3. ReadInv => MismatchMeansShortEnd
  BY DEF ReadInv, FailInv
<1> QED  BY <1>1, <1>2, <1>3, PTL DEF Spec

(* On a volume with no such cluster number the assertion at the end of     *)
(* write_path_file never fires.                                            *)
THEOREM ReadbackNeverFails ==
  ASSUME SafePlans, ShortEnd = {}
  PROVE  Spec /\ CameSound => []ReadbackAlwaysMatches
<1>1. MismatchMeansShortEnd => ReadbackAlwaysMatches
  BY DEF MismatchMeansShortEnd, ReadbackAlwaysMatches
<1> QED  BY <1>1, OnlyShortEndsBreakReadback, PTL

-----------------------------------------------------------------------------
(* Leaks.  Every cluster in use can be accounted for: by an entry of the   *)
(* directory (of the one in memory while a name is removed), by the rest   *)
(* of the chain being freed, or by the allocation at hand.                 *)
OwnedIn(f, dir, c) == \E t \in LiveSlots(dir) : c \in Chain(f, dir[t].start)
Unleaked(f, dir) ==
  \A c \in Cluster \ {RootCluster} : f[c] # FreeCluster => OwnedIn(f, dir, c)

UnleakedVolumes == \A v \in InitialVolumes : Unleaked(v.fat, v.root)

Accounted(c) ==
  \/ pc \in {"scan", "directory"} /\ OwnedIn(fat, buf, c)
  \/ /\ pc = "free"
     /\ \/ c \in Chain(fat, cur)
        \/ \E t \in LiveSlots(buf) \ {slot} : c \in Chain(fat, buf[t].start)
  \/ ~ Removing /\ OwnedIn(fat, root, c)
  \/ Allotted /\ c \in Handed

FirstRun == runs = 1 /\ (Running \/ pc = "done")

LeakInv ==
  /\ runs = 0 => pc = "idle" /\ Unleaked(fat, root)
  /\ pc = "free" => \A c \in seen : fat[c] = FreeCluster
  /\ FirstRun =>
       \A c \in Cluster \ {RootCluster} : fat[c] # FreeCluster => Accounted(c)

LEMMA LeakInvInit == UnleakedVolumes /\ Init => LeakInv
BY DEF UnleakedVolumes, Init, LeakInv, FirstRun

(* Between Start and the next Start the number of the run stands.          *)
LEMMA LeakFrame ==
  ASSUME LeakInv, runs' = runs, pc # "idle", FirstRun' => FirstRun,
         pc' = "free" => \A c \in seen' : fat'[c] = FreeCluster,
         FirstRun' => \A c \in Cluster \ {RootCluster} :
           fat'[c] # FreeCluster => Accounted(c)'
  PROVE  LeakInv'
BY DEF LeakInv

(* The directory in memory shows the entries it has not marked.            *)
LEMMA Unmarked ==
  ASSUME NEW old \in Directory, NEW a \in Directory, NEW b \in Directory, NEW x, NEW n,
         \A s \in Slot : \/ a[s] = old[s]
                         \/ /\ s \in LiveSlots(old) /\ old[s].name = n
                            /\ a[s] = Marked(old[s], "deleted"),
         \A s \in Slot : \/ b[s] = old[s]
                         \/ /\ s \in LiveSlots(old) /\ old[s].name = n
                            /\ b[s] = Marked(old[s], "deleted"),
         \A s \in Slot \ {x} : b[s] = a[s]
  PROVE  \A t \in LiveSlots(a) \ {x} : t \in LiveSlots(b) /\ b[t] = a[t]
<1>1. \A t \in Slot : Visible(a, t) <=> Visible(old, t)
  BY Deleting
<1>2. \A t \in Slot : Visible(b, t) <=> Visible(old, t)
  BY Deleting
<1> QED  BY <1>1, <1>2 DEF LiveSlots

LEMMA LeakScanMatch ==
  ASSUME IInv, IInv', LeakInv, ScanMatch
  PROVE  LeakInv'
<1>1. /\ pc = "scan" /\ UNCHANGED <<fat, root, todo, runs>> /\ Job0' = Job0
  BY DEF ScanMatch, disk, Job0
<1>2. PICK s \in NextMatch(buf, slot, Job0.name) :
        /\ slot' = s
        /\ \/ /\ buf[s].start = 0 /\ pc' = pc
              /\ buf' = [buf EXCEPT ![s] = Marked(buf[s], "deleted")]
           \/ pc' = "free" /\ cur' = buf[s].start /\ buf' = buf /\ seen' = {}
  BY DEF ScanMatch
<1>3. FirstRun' => FirstRun
  BY <1>1 DEF FirstRun, Running
<1>4. ASSUME FirstRun', NEW c \in Cluster \ {RootCluster}, fat'[c] # FreeCluster
      PROVE  Accounted(c)'
  <2>1. PICK t \in LiveSlots(buf) : c \in Chain(fat, buf[t].start)
    BY <1>1, <1>3, <1>4 DEF LeakInv, Accounted, Removing, Allotted, OwnedIn
  <2>2. CASE pc' = "free"
    BY <1>1, <1>2, <2>1, <2>2 DEF Accounted
  <2>3. CASE pc' = "scan"
    <3>1. buf[s].start = 0 /\ buf' = [buf EXCEPT ![s] = Marked(buf[s], "deleted")]
      BY <1>1, <1>2, <2>3
    <3>2. t # s
      <4>1. 0 \notin Cluster
        BY DEF Cluster
      <4> QED  BY <2>1, <3>1, <4>1, ChainOfClusters
    <3>3. t \in LiveSlots(buf') /\ buf'[t] = buf[t]
      <4>1. /\ root \in Directory /\ buf \in Directory /\ buf' \in Directory
            /\ \A q \in Slot \ {s} : buf'[q] = buf[q]
        BY <3>1 DEF IInv, TypeOK, Directory
      <4>2. \A q \in Slot : \/ buf[q] = root[q]
                            \/ /\ q \in LiveSlots(root) /\ root[q].name = Job0.name
                               /\ buf[q] = Marked(root[q], "deleted")
        BY <1>1 DEF IInv, Safe, BufferInv, Removing
      <4>3. \A q \in Slot : \/ buf'[q] = root[q]
                            \/ /\ q \in LiveSlots(root) /\ root[q].name = Job0.name
                               /\ buf'[q] = Marked(root[q], "deleted")
        BY <1>1, <2>3 DEF IInv, Safe, BufferInv, Removing, LiveSlots, Visible
      <4> QED  BY <2>1, <3>2, <4>1, <4>2, <4>3, Unmarked, SMTT(30)
    <3> QED  BY <1>1, <2>1, <2>3, <3>3 DEF Accounted, OwnedIn
  <2> QED  BY <1>1, <1>2, <2>2, <2>3
<1> QED  BY <1>1, <1>2, <1>3, <1>4, LeakFrame

LEMMA LeakFreeOne ==
  ASSUME ShortEnd = {}, IInv, LeakInv, FreeOne
  PROVE  LeakInv'
<1>1. /\ pc = "free" /\ pc' = "free" /\ cur \in Cluster
      /\ fat' = [fat EXCEPT ![cur] = FreeCluster] /\ seen' = seen \cup {cur}
      /\ UNCHANGED <<root, todo, buf, slot, runs>>
      /\ cur' = IF IsEnd(fat[cur]) THEN 0 ELSE fat[cur]
  BY DEF FreeOne
<1>2. /\ fat \in Table /\ fat'[cur] = FreeCluster
      /\ \A c \in Cluster \ {cur} : fat'[c] = fat[c]
      /\ seen \subseteq Cluster /\ root \in Directory /\ buf \in Directory
  BY <1>1 DEF IInv, TypeOK, Table
<1>3. FirstRun' => FirstRun
  BY <1>1 DEF FirstRun, Running
<1>4. \A c \in seen' : fat'[c] = FreeCluster
  BY <1>1, <1>2 DEF LeakInv
<1>5. ASSUME FirstRun', NEW c \in Cluster \ {RootCluster}, fat'[c] # FreeCluster
      PROVE  Accounted(c)'
  <2>1. c # cur /\ fat[c] # FreeCluster
    BY <1>2, <1>5
  <2>2. \/ c \in Chain(fat, cur)
        \/ \E t \in LiveSlots(buf) \ {slot} : c \in Chain(fat, buf[t].start)
    BY <1>1, <1>3, <1>5, <2>1 DEF LeakInv, Accounted, Removing, Allotted
  <2>3. CASE c \in Chain(fat, cur)
    <3>1. c \in Chain(fat', fat[cur])
      BY <1>1, <1>2, <2>1, <2>3, ChainCut
    <3>2. fat[cur] \in Cluster
      BY <3>1, ChainOfClusters
    <3>3. cur' = fat[cur]
      BY <1>1, <3>2 DEF IsEnd
    <3> QED  BY <1>1, <3>1, <3>3 DEF Accounted
  <2>4. CASE \E t \in LiveSlots(buf) \ {slot} : c \in Chain(fat, buf[t].start)
    <3>1. PICK t \in LiveSlots(buf) \ {slot} : c \in Chain(fat, buf[t].start)
      BY <2>4
    <3>2. t \in LiveSlots(root) /\ buf[t] = root[t]
      <4>1. \A q \in Slot : \/ buf[q] = root[q]
                            \/ /\ q \in LiveSlots(root)
                               /\ buf[q] = Marked(root[q], "deleted")
        BY <1>1 DEF IInv, Safe, BufferInv, Removing
      <4> QED  BY <1>2, <3>1, <4>1, Deleting
    <3>3. cur \notin Chain(fat, buf[t].start)
      BY <1>1, <3>1, <3>2, ChainStart DEF IInv, Safe, WalkInv, ChainOf
    <3>4. Chain(fat', buf[t].start) = Chain(fat, buf[t].start)
      <4>1. \A q \in Chain(fat, buf[t].start) : fat'[q] = fat[q]
        BY <1>2, <3>3, ChainOfClusters
      <4> QED  BY <4>1, ChainSame
    <3>5. LiveSlots(buf)' = LiveSlots(buf)
      BY <1>1 DEF LiveSlots, Visible
    <3>6. t \in LiveSlots(buf') \ {slot'} /\ c \in Chain(fat', buf'[t].start)
      BY <1>1, <3>1, <3>4, <3>5
    <3> QED  BY <1>1, <3>6 DEF Accounted
  <2> QED  BY <2>2, <2>3, <2>4
<1> QED  BY <1>1, <1>3, <1>4, <1>5, LeakFrame

LEMMA LeakFreeEnd ==
  ASSUME IInv, IInv', LeakInv, FreeEnd
  PROVE  LeakInv'
<1>1. /\ pc = "free" /\ pc' = "scan" /\ cur \notin Cluster \ seen
      /\ buf' = [buf EXCEPT ![slot] = Marked(buf[slot], "deleted")]
      /\ UNCHANGED <<fat, root, todo, slot, runs>> /\ Job0' = Job0
  BY DEF FreeEnd, disk, Job0
<1>2. FirstRun' => FirstRun
  BY <1>1 DEF FirstRun, Running
<1>3. ASSUME FirstRun', NEW c \in Cluster \ {RootCluster}, fat'[c] # FreeCluster
      PROVE  Accounted(c)'
  <2>1. \/ c \in Chain(fat, cur)
        \/ \E t \in LiveSlots(buf) \ {slot} : c \in Chain(fat, buf[t].start)
    BY <1>1, <1>2, <1>3 DEF LeakInv, Accounted, Removing, Allotted
  <2>2. c \notin Chain(fat, cur)
    <3>1. CASE cur \notin Cluster
      BY <3>1, ChainOfClusters
    <3>2. CASE cur \in Cluster
      <4>1. fat[cur] = FreeCluster /\ FreeCluster \notin Cluster
        BY <1>1, <3>2 DEF LeakInv, FreeCluster, Cluster
      <4>2. Chain(fat, cur) = {cur}
        BY <3>2, <4>1, ChainAlone
      <4> QED  BY <1>1, <1>3, <4>1, <4>2
    <3> QED  BY <3>1, <3>2
  <2>3. PICK t \in LiveSlots(buf) \ {slot} : c \in Chain(fat, buf[t].start)
    BY <2>1, <2>2
  <2>4. t \in LiveSlots(buf') /\ buf'[t] = buf[t]
    <3>1. /\ root \in Directory /\ buf \in Directory /\ buf' \in Directory
          /\ \A q \in Slot \ {slot} : buf'[q] = buf[q]
      BY <1>1 DEF IInv, TypeOK, Directory
    <3>2. \A q \in Slot : \/ buf[q] = root[q]
                          \/ /\ q \in LiveSlots(root) /\ root[q].name = Job0.name
                             /\ buf[q] = Marked(root[q], "deleted")
      BY <1>1 DEF IInv, Safe, BufferInv, Removing
    <3>3. \A q \in Slot : \/ buf'[q] = root[q]
                          \/ /\ q \in LiveSlots(root) /\ root[q].name = Job0.name
                             /\ buf'[q] = Marked(root[q], "deleted")
      BY <1>1 DEF IInv, Safe, BufferInv, Removing, LiveSlots, Visible
    <3> QED  BY <2>3, <3>1, <3>2, <3>3, Unmarked, SMTT(30)
  <2> QED  BY <1>1, <2>3, <2>4 DEF Accounted, OwnedIn
<1> QED  BY <1>1, <1>2, <1>3, LeakFrame

LEMMA LeakLinkOne ==
  ASSUME IInv, LeakInv, LinkOne
  PROVE  LeakInv'
<1> DEFINE c0 == clusters[idx]
<1>1. /\ pc = "link" /\ pc' \in {"link", "fill"} /\ UNCHANGED <<root, clusters, runs>>
      /\ \E x : fat' = [fat EXCEPT ![c0] = x]
  BY DEF LinkOne
<1>2. c0 \in Handed /\ c0 \in Cluster /\ Handed' = Handed
  BY <1>1 DEF IInv, TypeOK, Handed
<1>3. \A c \in Cluster \ {c0} : fat'[c] = fat[c]
  BY <1>1 DEF IInv, TypeOK
<1>4. FirstRun' => FirstRun
  BY <1>1 DEF FirstRun, Running
<1>5. ASSUME FirstRun', NEW c \in Cluster \ {RootCluster}, fat'[c] # FreeCluster
      PROVE  Accounted(c)'
  <2>1. CASE c \in Handed
    BY <1>1, <1>2, <2>1 DEF Accounted, Allotted
  <2>2. CASE c \notin Handed
    <3>1. fat[c] # FreeCluster
      BY <1>2, <1>3, <1>5, <2>2
    <3>2. PICK t \in LiveSlots(root) : c \in Chain(fat, root[t].start)
      BY <1>1, <1>4, <1>5, <2>2, <3>1 DEF LeakInv, Accounted, Removing, OwnedIn
    <3>3. c0 \notin Chain(fat, root[t].start)
      BY <1>1, <1>2, <3>2 DEF IInv, Safe, AllotInv, Allotted, ChainOf
    <3>4. Chain(fat', root[t].start) = Chain(fat, root[t].start)
      <4>1. \A q \in Chain(fat, root[t].start) : fat'[q] = fat[q]
        BY <1>3, <3>3, ChainOfClusters
      <4> QED  BY <4>1, ChainSame
    <3>5. LiveSlots(root)' = LiveSlots(root)
      BY <1>1 DEF LiveSlots, Visible
    <3>6. t \in LiveSlots(root') /\ c \in Chain(fat', root'[t].start)
      BY <1>1, <3>2, <3>4, <3>5
    <3>7. OwnedIn(fat', root', c)
      BY <3>6 DEF OwnedIn
    <3> QED  BY <1>1, <3>7 DEF Accounted, Removing
  <2> QED  BY <2>1, <2>2
<1> QED  BY <1>1, <1>4, <1>5, LeakFrame

LEMMA LeakAddEntry ==
  ASSUME IInv, LeakInv, AddEntry
  PROVE  LeakInv'
<1> DEFINE entry == [mark |-> "live", name |-> Job0.name, start |-> clusters[1],
                     size |-> Blocks[Job0.name]]
<1>1. pc = "add" /\ pc' = "readback" /\ UNCHANGED <<fat, runs>>
  BY DEF AddEntry
<1>2. PICK s \in FreeSlot(root) : root' = WithEntry(root, s, entry)
  BY DEF AddEntry
<1>3. entry.mark = "live" /\ entry.start = clusters[1]
      /\ root \in Directory /\ PackedDir(root)
  BY DEF IInv, TypeOK, Safe, Packed
<1> HIDE DEF entry
<1>4. /\ s \in LiveSlots(root') /\ root'[s].start = clusters[1]
      /\ \A t \in LiveSlots(root) : t \in LiveSlots(root') /\ root'[t] = root[t]
  BY <1>2, <1>3, Adding, AddingKeeps
<1>5. /\ DOMAIN clusters = 1..Len(clusters) /\ Linked(fat, clusters)
  BY <1>1 DEF IInv, TypeOK, Safe, AllotInv, Allotted, Linked
<1>6. FirstRun' => FirstRun
  BY <1>1 DEF FirstRun, Running
<1>7. ASSUME FirstRun', NEW c \in Cluster \ {RootCluster}, fat'[c] # FreeCluster
      PROVE  Accounted(c)'
  <2>1. c \in Handed \/ \E t \in LiveSlots(root) : c \in Chain(fat, root[t].start)
    BY <1>1, <1>6, <1>7 DEF LeakInv, Accounted, Removing, OwnedIn
  <2>2. c \in Handed => c \in Chain(fat, clusters[1])
    BY <1>5, LinkedInChain DEF Handed
  <2>3. OwnedIn(fat', root', c)
    BY <1>1, <1>4, <2>1, <2>2 DEF OwnedIn
  <2> QED  BY <1>1, <2>3 DEF Accounted, Removing
<1> QED  BY <1>1, <1>6, <1>7, LeakFrame

LEMMA LeakQuiet ==
  ASSUME LeakInv, NextJob \/ ScanEnd \/ WriteDirectory \/ Allocate \/ FillOne \/ Readback
  PROVE  LeakInv'
<1>1. /\ UNCHANGED <<fat, runs>> /\ pc \notin {"idle", "free"} /\ pc' # "free"
      /\ FirstRun' => FirstRun
  BY DEF NextJob, ScanEnd, WriteDirectory, Allocate, FillOne, Readback, disk, FirstRun,
         Running
<1>2. ASSUME NEW c, Accounted(c) PROVE Accounted(c)'
  <2>1. CASE NextJob
    BY <1>2, <2>1 DEF NextJob, NoRemoval, Accounted, Removing, Allotted, OwnedIn, disk,
                      LiveSlots, Visible, Chain, ClosedSets
  <2>2. CASE ScanEnd
    BY <1>2, <2>2 DEF ScanEnd, removal, Accounted, Removing, Allotted, OwnedIn, disk,
                      LiveSlots, Visible, Chain, ClosedSets
  <2>3. CASE WriteDirectory
    BY <1>2, <2>3 DEF WriteDirectory, Accounted, Removing, Allotted, OwnedIn,
                      LiveSlots, Visible, Chain, ClosedSets
  <2>4. CASE Allocate
    BY <1>2, <2>4 DEF Allocate, Accounted, Removing, Allotted, OwnedIn, disk,
                      LiveSlots, Visible, Chain, ClosedSets
  <2>5. CASE FillOne
    BY <1>2, <2>5 DEF FillOne, Accounted, Removing, Allotted, OwnedIn, Handed,
                      LiveSlots, Visible, Chain, ClosedSets
  <2>6. CASE Readback
    BY <1>2, <2>6 DEF Readback, Accounted, Removing, Allotted, OwnedIn, disk,
                      LiveSlots, Visible, Chain, ClosedSets
  <2> QED  BY <2>1, <2>2, <2>3, <2>4, <2>5, <2>6
<1> QED  BY <1>1, <1>2 DEF LeakInv

LEMMA LeakInvStep ==
  ASSUME ShortEnd = {}, IInv, IInv', LeakInv, [Next]_vars
  PROVE  LeakInv'
<1>1. CASE UNCHANGED vars
  BY <1>1 DEF vars, disk, process, removal, writing, LeakInv, FirstRun, Running, Accounted,
              OwnedIn, Unleaked, Removing, Allotted, Handed, LiveSlots, Visible, Chain, ClosedSets
<1>2. CASE Start
  <2>1. /\ runs' = runs + 1 /\ pc' = "next" /\ UNCHANGED <<fat, root>> /\ runs \in Nat
    BY <1>2 DEF Start, disk, IInv, TypeOK
  <2>2. runs' # 0 /\ (runs' = 1 => runs = 0)
    BY <2>1
  <2>3. runs' = 1 => Unleaked(fat, root)
    BY <2>2 DEF LeakInv
  <2>4. \A c : OwnedIn(fat', root', c) <=> OwnedIn(fat, root, c)
    BY <2>1 DEF OwnedIn, LiveSlots, Visible, Chain, ClosedSets
  <2> QED  BY <2>1, <2>2, <2>3, <2>4 DEF LeakInv, FirstRun, Unleaked, Accounted, Removing
<1>3. CASE ScanMatch
  BY <1>3, LeakScanMatch
<1>4. CASE FreeOne
  BY <1>4, LeakFreeOne
<1>5. CASE FreeEnd
  BY <1>5, LeakFreeEnd
<1>6. CASE LinkOne
  BY <1>6, LeakLinkOne
<1>7. CASE AddEntry
  BY <1>7, LeakAddEntry
<1>8. CASE NextJob \/ ScanEnd \/ WriteDirectory \/ Allocate \/ FillOne \/ Readback
  BY <1>8, LeakQuiet
<1>9. CASE AllocateFails \/ AddFails \/ ReadbackFails \/ Kill
  <2>1. /\ pc' \in {"failed", "killed"} /\ pc # "idle" /\ UNCHANGED runs
    BY <1>9 DEF AllocateFails, AddFails, ReadbackFails, Fail, Kill, Running
  <2>2. ~ FirstRun' /\ pc' # "free"
    BY <2>1 DEF FirstRun, Running
  <2> QED  BY <2>1, <2>2, LeakFrame
<1> QED
  BY <1>1, <1>2, <1>3, <1>4, <1>5, <1>6, <1>7, <1>8, <1>9 DEF Next, Step

(* On a volume that had lost no cluster, between two jobs of the first run *)
(* every cluster in use belongs to a file; provided that no cluster number *)
(* is a 16-bit end mark, at which free_chain would stop.                   *)
THEOREM NothingIsLost ==
  ASSUME SafePlans, UnleakedVolumes, ShortEnd = {}
  PROVE  Spec /\ CameSound => []NoLeak
<1>1. CameSound /\ Init => IInv /\ LeakInv
  BY IInvInit, LeakInvInit
<1>2. IInv /\ LeakInv /\ [Next]_vars => (IInv /\ LeakInv)'
  BY Inductive, LeakInvStep
<1>3. LeakInv => NoLeak
  <2> SUFFICES ASSUME LeakInv, runs = 1, pc \in {"next", "done"},
                      NEW c \in Cluster \ {RootCluster}, fat[c] # FreeCluster
               PROVE  \E s \in LiveSlots(root) : c \in Chain(fat, root[s].start)
    BY DEF NoLeak
  <2>1. Accounted(c)
    BY DEF LeakInv, FirstRun, Running
  <2> QED  BY <2>1 DEF Accounted, Removing, Allotted, OwnedIn
<1> QED  BY <1>1, <1>2, <1>3, PTL DEF Spec

-----------------------------------------------------------------------------
(* The manifest.  A run that writes no file twice and removes none that it *)
(* wrote still finds each result on the disk when it ends.                 *)
WrittenOnce ==
  \A p \in Plans : \A i, j \in DOMAIN p.jobs :
    (i < j /\ p.jobs[i].op = "write") => p.jobs[j].name # p.jobs[i].name

Standing == pc \notin {"idle", "failed", "killed"}

StillTrue(r) ==
  \E s \in LiveSlots(root) :
    /\ root[s].name = r.name /\ root[s].start = r.start
    /\ Len(ClusterChain(fat, root[s].start)) = r.count

ManifestInv ==
  Standing =>
    /\ \A i \in DOMAIN manifest : StillTrue(manifest[i])
    /\ \A i \in DOMAIN manifest, j \in DOMAIN todo : todo[j].name # manifest[i].name
    /\ \A i, j \in DOMAIN todo :
         (i < j /\ todo[i].op = "write") => todo[j].name # todo[i].name

(* A step leaves the entries of other names and their chains alone.        *)
LEMMA EntriesKept ==
  ASSUME IInv, [Next]_vars, NEW s \in LiveSlots(root), Busy => root[s].name # Job0.name
  PROVE  /\ s \in LiveSlots(root') /\ root'[s] = root[s]
         /\ \A c \in ChainOf(s) : fat'[c] = fat[c]
<1>1. /\ root \in Directory /\ buf \in Directory /\ PackedDir(root)
      /\ fat \in [Cluster -> FatValue]
  BY DEF IInv, TypeOK, Safe, Packed
<1>2. CASE UNCHANGED <<fat, root>>
  BY <1>2
<1>3. CASE FreeOne
  <2>1. /\ pc = "free" /\ cur \in Cluster /\ UNCHANGED root /\ Busy
        /\ fat' = [fat EXCEPT ![cur] = FreeCluster]
    BY <1>3 DEF FreeOne, Busy, Running
  <2>2. Chain(fat, cur) \cap ChainOf(s) = {}
    BY <2>1 DEF IInv, Safe, WalkInv
  <2>3. cur \notin ChainOf(s) /\ ChainOf(s) \subseteq Cluster
    BY <2>1, <2>2, ChainStart, ChainOfClusters DEF ChainOf
  <2> QED  BY <1>1, <2>1, <2>3
<1>4. CASE LinkOne
  <2>1. /\ pc = "link" /\ UNCHANGED root
        /\ \E x : fat' = [fat EXCEPT ![clusters[idx]] = x]
    BY <1>4 DEF LinkOne
  <2>2. clusters[idx] \in Handed
    BY <2>1 DEF IInv, TypeOK, Handed
  <2>3. clusters[idx] \notin ChainOf(s) /\ ChainOf(s) \subseteq Cluster
    BY <2>1, <2>2, ChainOfClusters DEF IInv, Safe, AllotInv, Allotted, ChainOf
  <2> QED  BY <1>1, <2>1, <2>3
<1>5. CASE WriteDirectory
  <2>1. pc = "directory" /\ root' = buf /\ fat' = fat /\ Busy
    BY <1>5 DEF WriteDirectory, Busy, Running
  <2>2. \A q \in Slot : \/ buf[q] = root[q]
                        \/ /\ q \in LiveSlots(root)
                           /\ root[q].name = Job0.name
                           /\ buf[q] = Marked(root[q], "deleted")
    BY <2>1 DEF IInv, Safe, BufferInv, Removing
  <2>3. buf[s] = root[s] /\ \A q \in Slot : Visible(buf, q) <=> Visible(root, q)
    BY <1>1, <2>1, <2>2, Deleting DEF LiveSlots
  <2> QED  BY <2>1, <2>3 DEF LiveSlots
<1>6. CASE AddEntry
  <2> DEFINE entry == [mark |-> "live", name |-> Job0.name, start |-> clusters[1],
                       size |-> Blocks[Job0.name]]
  <2>1. fat' = fat /\ entry.mark = "live"
    BY <1>6 DEF AddEntry
  <2>2. PICK r \in FreeSlot(root) : root' = WithEntry(root, r, entry)
    BY <1>6 DEF AddEntry
  <2> HIDE DEF entry
  <2> QED  BY <1>1, <2>1, <2>2, AddingKeeps
<1>7. CASE ~ (FreeOne \/ LinkOne \/ WriteDirectory \/ AddEntry)
  BY <1>2, <1>7
     DEF Next, Step, Start, NextJob, ScanMatch, ScanEnd, FreeEnd, Allocate, AllocateFails,
         FillOne, AddFails, Readback, ReadbackFails, Fail, Kill, vars, disk
<1> QED  BY <1>3, <1>4, <1>5, <1>6, <1>7

(* So a result that stands for another file goes on to stand.              *)
LEMMA HoldsOn ==
  ASSUME IInv, [Next]_vars, NEW r, Busy => r.name # Job0.name, StillTrue(r)
  PROVE  StillTrue(r)'
<1>1. PICK s \in LiveSlots(root) :
        /\ root[s].name = r.name /\ root[s].start = r.start
        /\ Len(ClusterChain(fat, root[s].start)) = r.count
  BY DEF StillTrue
<1>2. /\ s \in LiveSlots(root') /\ root'[s] = root[s]
      /\ \A c \in Chain(fat, root[s].start) : fat'[c] = fat[c]
  BY <1>1, EntriesKept DEF ChainOf
<1>3. root[s].start \in FatValue
  BY DEF IInv, TypeOK, Directory, Entry, LiveSlots
<1>4. ClusterChain(fat', root[s].start) = ClusterChain(fat, root[s].start)
  BY <1>2, <1>3, ClusterChainKept
<1>5. LiveSlots(root)' = LiveSlots(root')
      /\ ClusterChain(fat, root[s].start)' = ClusterChain(fat', root'[s].start)
  BY DEF LiveSlots, Visible, ClusterChain, Walk, Hop
<1> QED  BY <1>1, <1>2, <1>4, <1>5 DEF StillTrue

LEMMA TailOnce ==
  ASSUME NEW s \in Seq(Job), s # <<>>,
         \A i, j \in DOMAIN s : (i < j /\ s[i].op = "write") => s[j].name # s[i].name
  PROVE  /\ \A j \in DOMAIN Tail(s) : j + 1 \in DOMAIN s /\ Tail(s)[j] = s[j + 1]
         /\ \A i, j \in DOMAIN Tail(s) :
              (i < j /\ Tail(s)[i].op = "write") => Tail(s)[j].name # Tail(s)[i].name
         /\ s[1].op = "write" => \A j \in DOMAIN Tail(s) : Tail(s)[j].name # s[1].name
<1>1. /\ Len(s) \in Nat /\ Len(s) > 0 /\ DOMAIN s = 1..Len(s)
      /\ DOMAIN Tail(s) = 1..(Len(s) - 1)
      /\ \A j \in 1..(Len(s) - 1) : Tail(s)[j] = s[j + 1]
  OBVIOUS
<1>2. \A j \in DOMAIN Tail(s) :
        j \in Nat /\ 1 < j + 1 /\ j + 1 \in DOMAIN s /\ Tail(s)[j] = s[j + 1]
  BY <1>1
<1>3. 1 \in DOMAIN s
  BY <1>1
<1>4. ASSUME NEW i \in DOMAIN Tail(s), NEW j \in DOMAIN Tail(s), i < j,
             Tail(s)[i].op = "write"
      PROVE  Tail(s)[j].name # Tail(s)[i].name
  <2>1. i + 1 < j + 1
    BY <1>2, <1>4
  <2> QED  BY <1>2, <1>4, <2>1
<1>5. s[1].op = "write" => \A j \in DOMAIN Tail(s) : Tail(s)[j].name # s[1].name
  BY <1>2, <1>3
<1> QED  BY <1>2, <1>4, <1>5

(* Only a start gets a run going that is not.                              *)
LEMMA StandsUp ==
  ASSUME [Next]_vars, ~ Standing, ~ Start
  PROVE  ~ Standing'
<1>1. UNCHANGED vars
  BY DEF Next, Step, Standing, NextJob, ScanMatch, ScanEnd, FreeOne, FreeEnd,
         WriteDirectory, Allocate, AllocateFails, LinkOne, FillOne, AddEntry,
         AddFails, Readback, ReadbackFails, Kill, Running
<1>2. pc' = pc
  BY <1>1 DEF vars, process
<1> QED  BY <1>2 DEF Standing

LEMMA ManifestInvStep ==
  ASSUME WrittenOnce, IInv, ReadInv, OpInv, ManifestInv, [Next]_vars
  PROVE  ManifestInv'
<1>1. CASE Start
  <2>1. PICK p \in Plans : todo' = p.jobs
    BY <1>1 DEF Start
  <2>2. manifest' = <<>>
    BY <1>1 DEF Start
  <2> QED  BY <2>1, <2>2 DEF ManifestInv, WrittenOnce
<1>2. CASE Readback
  <2>1. /\ pc = "readback" /\ Standing /\ Busy /\ todo # <<>> /\ todo \in Seq(Job)
        /\ todo' = Tail(todo)
        /\ manifest' = Append(manifest, [name |-> Job0.name, start |-> clusters[1],
                                         count |-> Len(clusters)])
        /\ ReadFile(fat, root, data, Job0.name) = NewContent(Job0.name)
        /\ UNCHANGED <<fat, root>> /\ Job0 = todo[1] /\ Job0.op = "write"
        /\ manifest \in Seq([name : Name, start : Cluster, count : Nat])
    BY <1>2 DEF Readback, Standing, Busy, Running, IInv, TypeOK, disk, Job0, OpInv, Writing
  <2> DEFINE new == [name |-> Job0.name, start |-> clusters[1], count |-> Len(clusters)]
  <2>2. /\ DOMAIN manifest = 1..Len(manifest) /\ Len(manifest) \in Nat
        /\ DOMAIN manifest' = 1..(Len(manifest) + 1)
        /\ \A i \in 1..Len(manifest) : manifest'[i] = manifest[i]
        /\ manifest'[Len(manifest) + 1] = new
    BY <2>1
  <2>3. StillTrue(new)
    <3>1. PICK s \in LiveSlots(root) : root[s].name = Job0.name /\ root[s].start = clusters[1]
      BY <2>1, ReadsBack
    <3>2. Len(ClusterChain(fat, clusters[1])) = Len(clusters)
      BY <2>1, ReadsBack
    <3> QED  BY <3>1, <3>2 DEF StillTrue
  <2>4. \A r : StillTrue(r)' <=> StillTrue(r)
    BY <2>1 DEF StillTrue, LiveSlots, Visible, ClusterChain, Walk, Hop
  <2> DEFINE Known(r) == \/ \E i \in DOMAIN manifest : r = manifest[i]
                         \/ r = new
  <2>5. \A i \in DOMAIN manifest' : Known(manifest'[i])
    <3> HIDE DEF new
    <3>1. ASSUME NEW i \in DOMAIN manifest' PROVE Known(manifest'[i])
      <4>1. i \in 1..Len(manifest) \/ i = Len(manifest) + 1
        BY <2>2
      <4> QED  BY <2>2, <4>1
    <3> QED  BY <3>1
  <2>6. ASSUME NEW r, Known(r)
        PROVE  StillTrue(r) /\ \A j \in DOMAIN Tail(todo) : Tail(todo)[j].name # r.name
    <3>1. CASE r = new
      <4>1. new.name = Job0.name
        OBVIOUS
      <4>2. \A j \in DOMAIN Tail(todo) : Tail(todo)[j].name # Job0.name
        BY <2>1, TailOnce DEF ManifestInv
      <4> HIDE DEF new
      <4> QED  BY <2>3, <3>1, <4>1, <4>2
    <3>2. CASE \E i \in DOMAIN manifest : r = manifest[i]
      <4>1. \A j \in DOMAIN Tail(todo) : j + 1 \in DOMAIN todo /\ Tail(todo)[j] = todo[j + 1]
        BY <2>1, TailOnce DEF ManifestInv
      <4> QED  BY <2>1, <3>2, <4>1 DEF ManifestInv
    <3> HIDE DEF new
    <3> QED  BY <2>6, <3>1, <3>2
  <2>7. \A i, j \in DOMAIN Tail(todo) :
          (i < j /\ Tail(todo)[i].op = "write") => Tail(todo)[j].name # Tail(todo)[i].name
    BY <2>1, TailOnce DEF ManifestInv
  <2> HIDE DEF Known
  <2> QED  BY <2>1, <2>4, <2>5, <2>6, <2>7 DEF ManifestInv
<1>3. CASE WriteDirectory /\ todo' = Tail(todo)
  <2>1. /\ Standing /\ Busy /\ UNCHANGED manifest /\ todo # <<>> /\ todo \in Seq(Job)
        /\ Job0 = todo[1] /\ 1 \in DOMAIN todo
    BY <1>3 DEF WriteDirectory, Standing, Busy, Running, IInv, TypeOK, Job0
  <2>2. \A i \in DOMAIN manifest : StillTrue(manifest[i])'
    BY <2>1, HoldsOn DEF ManifestInv
  <2>3. /\ \A j \in DOMAIN Tail(todo) : j + 1 \in DOMAIN todo /\ Tail(todo)[j] = todo[j + 1]
        /\ \A i, j \in DOMAIN Tail(todo) :
             (i < j /\ Tail(todo)[i].op = "write") => Tail(todo)[j].name # Tail(todo)[i].name
    BY <2>1, TailOnce DEF ManifestInv
  <2> QED  BY <1>3, <2>1, <2>2, <2>3 DEF ManifestInv, StillTrue
<1>4. CASE UNCHANGED <<todo, manifest>>
  <2> SUFFICES ASSUME Standing' PROVE ManifestInv'
    BY DEF ManifestInv
  <2>1. CASE Standing
    <3>1. \A i \in DOMAIN manifest : StillTrue(manifest[i])'
      <4>1. Busy => 1 \in DOMAIN todo /\ Job0 = todo[1]
        BY DEF IInv, TypeOK, Busy, Running, Job0
      <4> QED  BY <1>4, <2>1, <4>1, HoldsOn DEF ManifestInv
    <3> QED  BY <1>4, <2>1, <3>1 DEF ManifestInv, StillTrue
  <2>2. CASE ~ Standing
    BY <1>1, <2>2, StandsUp
  <2> QED  BY <2>1, <2>2
<1>5. CASE ~ (Start \/ Readback)
  <2>1. UNCHANGED <<todo, manifest>> \/ (WriteDirectory /\ todo' = Tail(todo))
    BY <1>5
       DEF Next, Step, NextJob, ScanMatch, ScanEnd, FreeOne, FreeEnd, WriteDirectory, Allocate,
           AllocateFails, LinkOne, FillOne, AddEntry, AddFails, ReadbackFails, Fail, Kill,
           vars, process
  <2> QED  BY <1>3, <1>4, <2>1
<1> QED  BY <1>1, <1>2, <1>5

(* When main returns, every result it put into the manifest is still true  *)
(* of the disk, whatever the layouts and the runs before; if no file is    *)
(* removed or written again once it is written.                            *)
THEOREM ManifestIsTrue ==
  ASSUME SafePlans, WrittenOnce
  PROVE  Spec => ManifestTrueIfSound
<1>1. CameSound /\ Init => IInv /\ ReadInv /\ OpInv /\ ManifestInv
  BY IInvInit, ReadInvInit DEF Init, OpInv, Writing, ManifestInv, Standing
<1>2. IInv /\ ReadInv /\ OpInv /\ ManifestInv /\ [Next]_vars
        => (IInv /\ ReadInv /\ OpInv /\ ManifestInv)'
  BY Inductive, ReadInvStep, OpInvStep, ManifestInvStep
<1>3. ManifestInv => ManifestDescribesDisk
  BY DEF ManifestInv, ManifestDescribesDisk, StillTrue, Standing
<1> QED  BY <1>1, <1>2, <1>3, PTL DEF Spec, ManifestTrueIfSound

-----------------------------------------------------------------------------
(* The offset in linuxboot.cfg.  A run with --append-payload-info writes   *)
(* the configuration, and the payload before it.                           *)
Writes(job, n) == job.op = "write" /\ job.name = n

PayloadThenConfig ==
  \A p \in Plans : p.info =>
    /\ \E j \in DOMAIN p.jobs : Writes(p.jobs[j], ConfigName)
    /\ \A j \in DOMAIN p.jobs : Writes(p.jobs[j], ConfigName) =>
         \E i \in DOMAIN p.jobs : i < j /\ Writes(p.jobs[i], PayloadName)

ConfigWritten == \E i \in DOMAIN manifest : manifest[i].name = ConfigName

ConfigInv ==
  (Standing /\ info) =>
    /\ \A j \in DOMAIN todo : Writes(todo[j], ConfigName) =>
         \/ StagedPayload # {}
         \/ \E k \in DOMAIN todo : k < j /\ Writes(todo[k], PayloadName)
    /\ ConfigWritten \/ \E j \in DOMAIN todo : Writes(todo[j], ConfigName)
    /\ ConfigWritten => \E i \in StagedPayload :
                          Store[ConfigName].blocks[1].off = manifest[i].start
    /\ pc = "done" => todo = <<>>

(* No step changes what a file reads as that is not being worked on.       *)
LEMMA StoreOn ==
  ASSUME IInv, OpInv, [Next]_vars, NEW n \in Name, Busy => n # Job0.name
  PROVE  Store'[n] = Store[n]
<1>1. n # WorkedOn
  BY NameAssumption DEF WorkedOn
<1>2. CASE UNCHANGED StoreView!vars
  BY <1>2 DEF StoreView!vars, Store
<1>3. CASE StoreView!Next
  BY <1>1, <1>3
     DEF StoreView!Next, StoreView!Begin, StoreView!Work, StoreView!Succeed,
         StoreView!Abandon, StoreView!Rest, StoreView!OnlyBusyChanges, WorkedOn, Store
<1> QED  BY <1>2, <1>3, ViewStep

(* What is left of the configuration's part once the first job is done.    *)
LEMMA TailConfig ==
  ASSUME NEW s \in Seq(Job), s # <<>>
  PROVE  /\ \A j \in DOMAIN Tail(s) : j + 1 \in DOMAIN s /\ Tail(s)[j] = s[j + 1]
         /\ \A k \in DOMAIN s : k = 1 \/ (k - 1 \in DOMAIN Tail(s) /\ Tail(s)[k - 1] = s[k])
         /\ DOMAIN s \subseteq Nat \ {0} /\ DOMAIN Tail(s) \subseteq Nat \ {0}
         /\ 1 \in DOMAIN s
<1>1. /\ Len(s) \in Nat /\ Len(s) > 0 /\ DOMAIN s = 1..Len(s)
      /\ DOMAIN Tail(s) = 1..(Len(s) - 1)
      /\ \A j \in 1..(Len(s) - 1) : Tail(s)[j] = s[j + 1]
  OBVIOUS
<1>2. \A k \in 1..Len(s) : k = 1 \/ k - 1 \in 1..(Len(s) - 1)
  BY <1>1
<1>3. \A k \in 1..(Len(s) - 1) : k + 1 \in 1..Len(s)
  BY <1>1
<1>4. \A k \in 1..Len(s) : k = 1 \/ Tail(s)[k - 1] = s[k]
  <2> SUFFICES ASSUME NEW k \in 1..Len(s), k # 1 PROVE Tail(s)[k - 1] = s[k]
    OBVIOUS
  <2>1. (k - 1) + 1 = k
    BY <1>1
  <2> QED  BY <1>1, <1>2, <2>1
<1> QED  BY <1>1, <1>2, <1>3, <1>4

LEMMA ConfigReadback ==
  ASSUME Blocks[ConfigName] > 0, IInv, ReadInv, OpInv, ConfigInv, Readback
  PROVE  ConfigInv'
<1> SUFFICES ASSUME info' PROVE ConfigInv'
  BY DEF ConfigInv
<1> DEFINE new == [name |-> Job0.name, start |-> clusters[1], count |-> Len(clusters)]
<1>1. /\ pc = "readback" /\ pc' = "next" /\ Standing /\ info /\ info' = info
      /\ todo # <<>> /\ todo \in Seq(Job) /\ todo' = Tail(todo)
      /\ manifest' = Append(manifest, new)
      /\ ReadFile(fat, root, data, Job0.name) = NewContent(Job0.name)
      /\ UNCHANGED disk /\ Job0 = todo[1] /\ Job0.op = "write"
      /\ manifest \in Seq([name : Name, start : Cluster, count : Nat])
  BY DEF Readback, Standing, Running, IInv, TypeOK, Job0, OpInv, Writing
<1>2. /\ DOMAIN manifest = 1..Len(manifest) /\ Len(manifest) \in Nat
      /\ DOMAIN manifest' = 1..(Len(manifest) + 1)
      /\ \A i \in 1..Len(manifest) : manifest'[i] = manifest[i]
      /\ manifest'[Len(manifest) + 1] = new
  BY <1>1
<1>3. new.name = Job0.name /\ new.start = clusters[1]
  OBVIOUS
<1> HIDE DEF new
<1>4. /\ \A i \in StagedPayload : i \in StagedPayload' /\ manifest'[i] = manifest[i]
      /\ Job0.name = PayloadName => Len(manifest) + 1 \in StagedPayload'
      /\ Job0.name = ConfigName => ConfigWritten'
      /\ ConfigWritten => ConfigWritten'
      /\ ConfigWritten' => ConfigWritten \/ Job0.name = ConfigName
  <2>1. \A i \in DOMAIN manifest : i \in DOMAIN manifest' /\ manifest'[i] = manifest[i]
    BY <1>2
  <2>2. Len(manifest) + 1 \in DOMAIN manifest'
    BY <1>2
  <2>3. \A i \in DOMAIN manifest' : i \in DOMAIN manifest \/ i = Len(manifest) + 1
    BY <1>2
  <2> QED  BY <1>2, <1>3, <2>1, <2>2, <2>3 DEF StagedPayload, ConfigWritten
<1>5. /\ \A j \in DOMAIN Tail(todo) : j + 1 \in DOMAIN todo /\ Tail(todo)[j] = todo[j + 1]
      /\ \A k \in DOMAIN todo :
           k = 1 \/ (k - 1 \in DOMAIN Tail(todo) /\ Tail(todo)[k - 1] = todo[k])
      /\ DOMAIN todo \subseteq Nat \ {0} /\ DOMAIN Tail(todo) \subseteq Nat \ {0}
      /\ 1 \in DOMAIN todo
  BY <1>1, TailConfig
<1>6. ASSUME NEW j \in DOMAIN Tail(todo), Writes(Tail(todo)[j], ConfigName)
      PROVE  \/ StagedPayload' # {}
             \/ \E k \in DOMAIN Tail(todo) : k < j /\ Writes(Tail(todo)[k], PayloadName)
  <2>1. j + 1 \in DOMAIN todo /\ Writes(todo[j + 1], ConfigName)
    BY <1>5, <1>6
  <2>2. \/ StagedPayload # {}
        \/ \E k \in DOMAIN todo : k < j + 1 /\ Writes(todo[k], PayloadName)
    BY <1>1, <2>1 DEF ConfigInv
  <2>3. ASSUME NEW k \in DOMAIN todo, k < j + 1, Writes(todo[k], PayloadName)
        PROVE  \/ StagedPayload' # {}
               \/ \E l \in DOMAIN Tail(todo) : l < j /\ Writes(Tail(todo)[l], PayloadName)
    <3>1. CASE k = 1
      BY <1>1, <1>4, <2>3, <3>1 DEF Writes
    <3>2. CASE k # 1
      <4>1. k - 1 \in DOMAIN Tail(todo) /\ Writes(Tail(todo)[k - 1], PayloadName)
        BY <1>5, <2>3, <3>2
      <4>2. k \in Nat /\ j \in Nat
        BY <1>5
      <4>3. k - 1 < j
        BY <2>3, <4>2
      <4> QED  BY <4>1, <4>3
    <3> QED  BY <3>1, <3>2
  <2> QED  BY <1>4, <2>2, <2>3
<1>7. ConfigWritten' \/ \E j \in DOMAIN Tail(todo) : Writes(Tail(todo)[j], ConfigName)
  <2>1. ConfigWritten \/ \E j \in DOMAIN todo : Writes(todo[j], ConfigName)
    BY <1>1 DEF ConfigInv
  <2>2. ASSUME NEW j \in DOMAIN todo, Writes(todo[j], ConfigName)
        PROVE  \/ Job0.name = ConfigName
               \/ \E k \in DOMAIN Tail(todo) : Writes(Tail(todo)[k], ConfigName)
    BY <1>1, <1>5, <2>2 DEF Writes
  <2> QED  BY <1>4, <2>1, <2>2
<1>8. ASSUME ConfigWritten'
      PROVE  \E i \in StagedPayload' : Store'[ConfigName].blocks[1].off = manifest'[i].start
  <2>1. Store' = Store
    BY <1>1, StoreKept
  <2>2. CASE ConfigWritten
    <3>1. PICK i \in StagedPayload : Store[ConfigName].blocks[1].off = manifest[i].start
      BY <1>1, <2>2 DEF ConfigInv
    <3> QED  BY <1>4, <2>1, <3>1
  <2>3. CASE Job0.name = ConfigName
    <3>1. StagedPayload # {}
      <4>1. Writes(todo[1], ConfigName) /\ ~ \E k \in DOMAIN todo : k < 1
        BY <1>1, <1>5, <2>3 DEF Writes
      <4> QED  BY <1>1, <1>5, <4>1 DEF ConfigInv
    <3> DEFINE i == CHOOSE i \in StagedPayload : TRUE
    <3>2. i \in StagedPayload
      BY <3>1
    <3>3. PayloadOffset = manifest[i].start
      BY <1>1, <3>1 DEF PayloadOffset
    <3>4. Store[ConfigName].blocks[1].off = PayloadOffset
      <4>1. Blocks[ConfigName] \in Nat /\ ConfigName \in Name
        BY StageAssumption
      <4>2. 1 \in 1..Blocks[ConfigName]
        BY <4>1
      <4>3. Store[ConfigName] = NewContent(ConfigName)
        BY <1>1, <2>3, <4>1 DEF Store
      <4>4. Store[ConfigName].blocks = [k \in 1..Blocks[ConfigName] |-> NewBlock(ConfigName, k)]
        BY <4>3 DEF NewContent, Content
      <4> QED  BY <4>2, <4>4 DEF NewBlock
    <3> HIDE DEF i
    <3> QED  BY <1>4, <2>1, <3>2, <3>3, <3>4
  <2> QED  BY <1>4, <1>8, <2>2, <2>3
<1> QED  BY <1>1, <1>6, <1>7, <1>8 DEF ConfigInv

LEMMA ConfigInvStep ==
  ASSUME PayloadThenConfig, Blocks[ConfigName] > 0,
         IInv, ReadInv, OpInv, ManifestInv, ConfigInv, [Next]_vars
  PROVE  ConfigInv'
<1>1. CASE Start
  <2>1. PICK p \in Plans : todo' = p.jobs /\ info' = p.info
    BY <1>1 DEF Start
  <2>2. manifest' = <<>> /\ pc' = "next"
    BY <1>1 DEF Start
  <2>3. ~ ConfigWritten'
    BY <2>2 DEF ConfigWritten
  <2> QED  BY <2>1, <2>2, <2>3 DEF ConfigInv, PayloadThenConfig
<1>2. CASE Readback
  BY <1>2, ConfigReadback
<1>3. ASSUME Standing, UNCHANGED manifest, ConfigWritten, info
      PROVE  \E i \in StagedPayload : Store'[ConfigName].blocks[1].off = manifest[i].start
  <2>1. Busy => ConfigName # Job0.name
    <3>1. Busy => 1 \in DOMAIN todo /\ Job0 = todo[1]
      BY DEF IInv, TypeOK, Busy, Running, Job0
    <3> QED  BY <1>3, <3>1 DEF ManifestInv, ConfigWritten
  <2>2. Store'[ConfigName] = Store[ConfigName]
    BY <2>1, StoreOn, StageAssumption
  <2> QED  BY <1>3, <2>2 DEF ConfigInv
<1>4. CASE WriteDirectory /\ todo' = Tail(todo) /\ Job0.op # "write"
  <2>1. /\ Standing /\ UNCHANGED <<manifest, info>> /\ pc' # "done"
        /\ todo # <<>> /\ todo \in Seq(Job) /\ Job0 = todo[1]
    BY <1>4 DEF WriteDirectory, Standing, Running, IInv, TypeOK, Job0
  <2>2. /\ \A j \in DOMAIN Tail(todo) : j + 1 \in DOMAIN todo /\ Tail(todo)[j] = todo[j + 1]
        /\ \A k \in DOMAIN todo :
             k = 1 \/ (k - 1 \in DOMAIN Tail(todo) /\ Tail(todo)[k - 1] = todo[k])
        /\ DOMAIN todo \subseteq Nat \ {0} /\ DOMAIN Tail(todo) \subseteq Nat \ {0}
    BY <2>1, TailConfig
  <2>3. \A n : ~ Writes(todo[1], n)
    BY <1>4, <2>1 DEF Writes
  <2>4. ASSUME info, NEW j \in DOMAIN Tail(todo), Writes(Tail(todo)[j], ConfigName)
        PROVE  \/ StagedPayload # {}
               \/ \E k \in DOMAIN Tail(todo) : k < j /\ Writes(Tail(todo)[k], PayloadName)
    <3>1. j + 1 \in DOMAIN todo /\ Writes(todo[j + 1], ConfigName)
      BY <2>2, <2>4
    <3>2. \/ StagedPayload # {}
          \/ \E k \in DOMAIN todo : k < j + 1 /\ Writes(todo[k], PayloadName)
      BY <2>1, <2>4, <3>1 DEF ConfigInv
    <3>3. ASSUME NEW k \in DOMAIN todo, k < j + 1, Writes(todo[k], PayloadName)
          PROVE  \E l \in DOMAIN Tail(todo) : l < j /\ Writes(Tail(todo)[l], PayloadName)
      <4>1. k - 1 \in DOMAIN Tail(todo) /\ Writes(Tail(todo)[k - 1], PayloadName)
        BY <2>2, <2>3, <3>3
      <4>2. k \in Nat /\ j \in Nat
        BY <2>2
      <4>3. k - 1 < j
        BY <3>3, <4>2
      <4> QED  BY <4>1, <4>3
    <3> QED  BY <3>2, <3>3
  <2>5. info => ConfigWritten \/ \E j \in DOMAIN Tail(todo) : Writes(Tail(todo)[j], ConfigName)
    BY <2>1, <2>2, <2>3 DEF ConfigInv
  <2>6. StagedPayload' = StagedPayload /\ ConfigWritten' = ConfigWritten
    BY <2>1 DEF StagedPayload, ConfigWritten
  <2> QED  BY <1>3, <1>4, <2>1, <2>4, <2>5, <2>6 DEF ConfigInv
<1>5. CASE UNCHANGED <<todo, manifest>> /\ ~ Start
  <2>1. CASE Standing /\ info' = info
    <3>1. pc' = "done" => todo = <<>> \/ pc = "done"
      <4>1. ASSUME Next, pc' = "done" PROVE todo = <<>>
        BY <1>5, <4>1
           DEF Next, Step, NextJob, ScanMatch, ScanEnd, FreeOne, FreeEnd, WriteDirectory,
               Allocate, AllocateFails, LinkOne, FillOne, AddEntry, AddFails, Readback,
               ReadbackFails, Fail, Kill
      <4>2. UNCHANGED vars => pc' = pc
        BY DEF vars, process
      <4> QED  BY <4>1, <4>2
    <3>2. StagedPayload' = StagedPayload /\ ConfigWritten' = ConfigWritten
      BY <1>5 DEF StagedPayload, ConfigWritten
    <3> QED  BY <1>3, <1>5, <2>1, <3>1, <3>2 DEF ConfigInv
  <2>2. CASE ~ Standing
    BY <1>5, <2>2, StandsUp DEF ConfigInv
  <2>3. info' = info
    BY <1>5
       DEF Next, Step, NextJob, ScanMatch, ScanEnd, FreeOne, FreeEnd, WriteDirectory,
           Allocate, AllocateFails, LinkOne, FillOne, AddEntry, AddFails, Readback,
           ReadbackFails, Fail, Kill, vars, process
  <2> QED  BY <2>1, <2>2, <2>3
<1>6. CASE ~ (Start \/ Readback)
  <2>1. \/ UNCHANGED <<todo, manifest>>
        \/ WriteDirectory /\ todo' = Tail(todo) /\ Job0.op # "write"
    BY <1>6
       DEF Next, Step, NextJob, ScanMatch, ScanEnd, FreeOne, FreeEnd, WriteDirectory, Allocate,
           AllocateFails, LinkOne, FillOne, AddEntry, AddFails, ReadbackFails, Fail, Kill,
           vars, process
  <2> QED  BY <1>4, <1>5, <1>6, <2>1
<1> QED  BY <1>1, <1>2, <1>6

(* When main returns, the offset that linuxboot.cfg records is where the   *)
(* payload lies, on any sound volume and after any runs; if the run wrote  *)
(* the payload, then the configuration, and neither a second time.         *)
THEOREM ConfigFindsPayload ==
  ASSUME SafePlans, WrittenOnce, PayloadThenConfig, Blocks[ConfigName] > 0
  PROVE  Spec => ConfigTrueIfSound
<1> DEFINE Inv == IInv /\ ReadInv /\ OpInv /\ ManifestInv /\ ConfigInv
<1>1. CameSound /\ Init => Inv
  BY IInvInit, ReadInvInit DEF Init, OpInv, Writing, ManifestInv, ConfigInv, Standing
<1>2. Inv /\ [Next]_vars => Inv'
  BY Inductive, ReadInvStep, OpInvStep, ManifestInvStep, ConfigInvStep
<1>3. Inv => ConfigPointsAtPayload
  <2> SUFFICES ASSUME Inv, pc = "done", info
               PROVE  \E s \in LiveSlots(root) :
                        /\ root[s].name = PayloadName
                        /\ ReadFile(fat, root, data, ConfigName).blocks[1].off = root[s].start
    BY DEF ConfigPointsAtPayload
  <2>1. Standing /\ todo = <<>>
    BY DEF Standing, ConfigInv
  <2>2. ConfigWritten
    BY <2>1 DEF ConfigInv
  <2>3. PICK i \in StagedPayload : Store[ConfigName].blocks[1].off = manifest[i].start
    BY <2>1, <2>2 DEF ConfigInv
  <2>4. StillTrue(manifest[i]) /\ manifest[i].name = PayloadName
    BY <2>1 DEF ManifestInv, StagedPayload
  <2>5. Store[ConfigName] = ReadFile(fat, root, data, ConfigName)
    BY StageAssumption DEF Store
  <2> QED  BY <2>3, <2>4, <2>5 DEF StillTrue
<1> QED  BY <1>1, <1>2, <1>3, PTL DEF Spec, ConfigTrueIfSound

-----------------------------------------------------------------------------
(* The provisos, for the plans main makes of its options.                  *)
Distinct(s) == \A i, j \in DOMAIN s : i # j => s[i] # s[j]
Apart(s, t) == \A i \in DOMAIN s, j \in DOMAIN t : s[i] # t[j]
Occurs(n, s) == \E i \in DOMAIN s : s[i] = n

WritesAll(w, a) ==
  /\ w \in Seq(Job) /\ Len(w) = Len(a)
  /\ \A i \in DOMAIN a : Writes(w[i], a[i])

(* Jobs c, up to place A, then the writes of files a, up to B, then those  *)
(* of files b.                                                             *)
InOrder(jobs, c, a, b, A, B) ==
  /\ A \in Nat /\ B \in Nat /\ A <= B /\ DOMAIN jobs \subseteq Nat
  /\ \A i \in DOMAIN jobs : 1..(i - 1) \subseteq DOMAIN jobs
  /\ \A i \in DOMAIN jobs :
       \/ i <= A /\ i \in DOMAIN c /\ jobs[i] = c[i]
       \/ i > A /\ i <= B /\ i - A \in DOMAIN a /\ Writes(jobs[i], a[i - A])
       \/ i > B /\ i - B \in DOMAIN b /\ Writes(jobs[i], b[i - B])
  /\ \A i \in DOMAIN c : i <= A /\ i \in DOMAIN jobs /\ jobs[i] = c[i]
  /\ \A i \in DOMAIN a : A + i \in DOMAIN jobs /\ A + i <= B /\ Writes(jobs[A + i], a[i])
  /\ \A i \in DOMAIN b : B + i \in DOMAIN jobs /\ Writes(jobs[B + i], b[i])

LEMMA WritesInOrder ==
  ASSUME NEW a \in Seq(Name), NEW l \in Layouts
  PROVE  LET w == [i \in DOMAIN a |-> WriteJob(a[i], l)]
         IN  w \in Seq(Job) /\ WritesAll(w, a)
<1> DEFINE w == [i \in DOMAIN a |-> WriteJob(a[i], l)]
<1>1. \A i \in DOMAIN a : WriteJob(a[i], l) \in Job /\ Writes(WriteJob(a[i], l), a[i])
  BY DEF WriteJob, Job, Writes
<1>2. DOMAIN a = 1..Len(a) /\ Len(a) \in Nat
  OBVIOUS
<1>3. w \in Seq(Job) /\ Len(w) = Len(a)
  BY <1>1, <1>2
<1>4. \A i \in DOMAIN a : Writes(w[i], a[i])
  BY <1>1
<1> QED  BY <1>3, <1>4 DEF WritesAll

LEMMA JobsInOrder ==
  ASSUME NEW c \in Seq(Job), NEW a \in Seq(Name), NEW b \in Seq(Name),
         NEW wa \in Seq(Job), WritesAll(wa, a), NEW wb \in Seq(Job), WritesAll(wb, b),
         NEW jobs, jobs = c \o (wa \o wb)
  PROVE  InOrder(jobs, c, a, b, Len(c), Len(c) + Len(a))
<1> DEFINE A == Len(c)
           B == Len(c) + Len(a)
<1>1. /\ A \in Nat /\ B \in Nat /\ B = A + Len(a) /\ Len(a) \in Nat /\ Len(b) \in Nat
      /\ DOMAIN c = 1..A /\ DOMAIN a = 1..Len(a) /\ DOMAIN b = 1..Len(b)
  OBVIOUS
<1>2. /\ DOMAIN jobs = 1..(A + Len(a) + Len(b))
      /\ \A i \in 1..(A + Len(a) + Len(b)) :
           /\ i <= A => jobs[i] = c[i]
           /\ i > A /\ i <= A + Len(a) => jobs[i] = wa[i - A]
           /\ i > A + Len(a) => jobs[i] = wb[i - A - Len(a)]
  <2>1. /\ DOMAIN jobs = 1..(Len(c) + Len(wa) + Len(wb))
        /\ \A i \in DOMAIN jobs :
             /\ i <= Len(c) => jobs[i] = c[i]
             /\ i > Len(c) /\ i <= Len(c) + Len(wa) => jobs[i] = wa[i - Len(c)]
             /\ i > Len(c) + Len(wa) => jobs[i] = wb[i - Len(c) - Len(wa)]
    BY SMTT(30)
  <2> QED  BY <2>1 DEF WritesAll
<1> HIDE DEF A, B
<1>3. /\ \A i \in DOMAIN a : Writes(wa[i], a[i])
      /\ \A i \in DOMAIN b : Writes(wb[i], b[i])
  BY DEF WritesAll
<1>4. \A i \in DOMAIN jobs :
        \/ i <= A /\ i \in DOMAIN c /\ jobs[i] = c[i]
        \/ i > A /\ i <= B /\ i - A \in DOMAIN a /\ Writes(jobs[i], a[i - A])
        \/ i > B /\ i - B \in DOMAIN b /\ Writes(jobs[i], b[i - B])
  <2> SUFFICES ASSUME NEW i \in 1..(A + Len(a) + Len(b))
               PROVE  \/ i <= A /\ i \in DOMAIN c /\ jobs[i] = c[i]
                      \/ i > A /\ i <= B /\ i - A \in DOMAIN a /\ Writes(jobs[i], a[i - A])
                      \/ i > B /\ i - B \in DOMAIN b /\ Writes(jobs[i], b[i - B])
    BY <1>2
  <2>1. CASE i <= A
    BY <1>1, <1>2, <2>1
  <2>2. CASE i > A /\ i <= B
    <3>1. i - A \in 1..Len(a) /\ ~ i <= A /\ i <= A + Len(a)
      BY <1>1, <2>2
    <3> QED  BY <1>1, <1>2, <1>3, <2>2, <3>1
  <2>3. CASE i > B
    <3>1. i - B \in 1..Len(b) /\ i - A - Len(a) = i - B
      BY <1>1, <2>3
    <3>2. ~ i <= A /\ ~ i <= A + Len(a)
      BY <1>1, <2>3
    <3> QED  BY <1>1, <1>2, <1>3, <2>3, <3>1, <3>2
  <2>4. i <= A \/ (i > A /\ i <= B) \/ i > B
    BY <1>1
  <2> QED  BY <2>1, <2>2, <2>3, <2>4
<1>5. \A i \in DOMAIN c : i <= A /\ i \in DOMAIN jobs /\ jobs[i] = c[i]
  BY <1>1, <1>2
<1>6. \A i \in DOMAIN a : /\ A + i \in DOMAIN jobs /\ A + i > A /\ A + i <= B
                          /\ Writes(jobs[A + i], a[i])
  <2> SUFFICES ASSUME NEW i \in 1..Len(a)
               PROVE  /\ A + i \in DOMAIN jobs /\ A + i > A /\ A + i <= B
                      /\ Writes(jobs[A + i], a[i])
    BY <1>1
  <2>1. A + i \in 1..(A + Len(a) + Len(b)) /\ A + i > A /\ A + i <= B /\ (A + i) - A = i
    BY <1>1
  <2> QED  BY <1>1, <1>2, <1>3, <2>1
<1>7. \A i \in DOMAIN b : /\ B + i \in DOMAIN jobs /\ B + i > B
                          /\ Writes(jobs[B + i], b[i])
  <2> SUFFICES ASSUME NEW i \in 1..Len(b)
               PROVE  /\ B + i \in DOMAIN jobs /\ B + i > B
                      /\ Writes(jobs[B + i], b[i])
    BY <1>1
  <2>1. B + i \in 1..(A + Len(a) + Len(b)) /\ B + i > B /\ (B + i) - A - Len(a) = i
        /\ ~ (B + i <= A) /\ ~ (B + i <= A + Len(a))
    BY <1>1
  <2> QED  BY <1>1, <1>2, <1>3, <2>1
<1>8. /\ A \in Nat /\ B \in Nat /\ A <= B /\ DOMAIN jobs \subseteq Nat
      /\ \A i \in DOMAIN jobs : 1..(i - 1) \subseteq DOMAIN jobs
  <2>1. DOMAIN jobs = 1..(B + Len(b)) /\ B + Len(b) \in Nat /\ A \in Nat /\ B \in Nat /\ A <= B
    BY <1>1, <1>2
  <2> QED  BY <2>1
<1> QED  BY <1>4, <1>5, <1>6, <1>7, <1>8 DEF InOrder, A, B

(* What follows of the names: c the removals, a and b the files written.   *)
WellPlanned(jobs, c, a, b) ==
  /\ \A i, j \in DOMAIN jobs :
       (i < j /\ jobs[i].op = "write") => jobs[j].name # jobs[i].name
  /\ \A i \in DOMAIN c : CleanedFirst(jobs, c[i].name)
  /\ 1 \in DOMAIN a => CleanedFirst(jobs, a[1])
  /\ \A i \in DOMAIN jobs : \/ \E k \in DOMAIN c : c[k].name = jobs[i].name
                            \/ Occurs(jobs[i].name, a) \/ Occurs(jobs[i].name, b)
  /\ \A n \in Name : Occurs(n, b) => \E j \in DOMAIN jobs : Writes(jobs[j], n)
  /\ \A m, n \in Name : \A j \in DOMAIN jobs :
       (Occurs(m, a) /\ Occurs(n, b) /\ Writes(jobs[j], n)) =>
         \E i \in DOMAIN jobs : i < j /\ Writes(jobs[i], m)

LEMMA OnePlan ==
  ASSUME NEW c \in Seq(Job), \A i \in DOMAIN c : c[i].op = "remove",
         NEW a \in Seq(Name), NEW b \in Seq(Name), NEW jobs, NEW A, NEW B,
         InOrder(jobs, c, a, b, A, B), Distinct(a), Distinct(b), Apart(a, b)
  PROVE  WellPlanned(jobs, c, a, b)
<1>1. A \in Nat /\ B \in Nat /\ A <= B /\ \A i \in DOMAIN jobs : i \in Nat
  BY DEF InOrder
<1>2. \A i \in DOMAIN jobs :
        \/ i <= A /\ i \in DOMAIN c /\ jobs[i] = c[i]
        \/ i > A /\ i <= B /\ i - A \in DOMAIN a /\ Writes(jobs[i], a[i - A])
        \/ i > B /\ i - B \in DOMAIN b /\ Writes(jobs[i], b[i - B])
  BY DEF InOrder
<1>3. ASSUME NEW i \in DOMAIN jobs, NEW j \in DOMAIN jobs, i < j, jobs[i].op = "write"
      PROVE  jobs[j].name # jobs[i].name
  <2>1. i \in Nat /\ j \in Nat
    BY <1>1
  <2>2. CASE i > A /\ i <= B /\ i - A \in DOMAIN a /\ Writes(jobs[i], a[i - A])
    <3>1. ~ j <= A
      BY <1>1, <1>3, <2>1, <2>2
    <3>2. CASE j <= B /\ j - A \in DOMAIN a /\ Writes(jobs[j], a[j - A])
      <4>1. j - A # i - A
        BY <1>1, <1>3, <2>1
      <4> QED  BY <2>2, <3>2, <4>1 DEF Distinct, Writes
    <3>3. CASE j > B /\ j - B \in DOMAIN b /\ Writes(jobs[j], b[j - B])
      BY <2>2, <3>3 DEF Apart, Writes
    <3> QED  BY <1>2, <3>1, <3>2, <3>3
  <2>3. CASE i > B /\ i - B \in DOMAIN b /\ Writes(jobs[i], b[i - B])
    <3>1. j > B /\ ~ j <= B /\ ~ j <= A /\ j - B # i - B
      BY <1>1, <1>3, <2>1, <2>3
    <3>2. j - B \in DOMAIN b /\ Writes(jobs[j], b[j - B])
      BY <1>2, <3>1
    <3> QED  BY <2>3, <3>1, <3>2 DEF Distinct, Writes
  <2> QED  BY <1>2, <1>3, <2>2, <2>3
<1>4. ASSUME NEW i \in DOMAIN c
      PROVE  CleanedFirst(jobs, c[i].name)
  <2>1. i <= A /\ i \in DOMAIN jobs /\ jobs[i] = c[i] /\ 1..(i - 1) \subseteq DOMAIN jobs
    BY DEF InOrder
  <2>2. ASSUME NEW j \in 1..(i - 1) PROVE jobs[j].op = "remove"
    <3>1. j \in DOMAIN jobs /\ i \in Nat
      BY <1>1, <2>1
    <3>2. ~ j > A /\ ~ j > B
      BY <1>1, <2>1, <3>1
    <3> QED  BY <1>2, <3>1, <3>2
  <2> QED  BY <2>1, <2>2 DEF CleanedFirst
<1>5. ASSUME NEW i \in DOMAIN jobs
      PROVE  \/ \E k \in DOMAIN c : c[k].name = jobs[i].name
             \/ Occurs(jobs[i].name, a) \/ Occurs(jobs[i].name, b)
  BY <1>2 DEF Occurs, Writes
<1>6. ASSUME NEW n \in Name, Occurs(n, b)
      PROVE  \E j \in DOMAIN jobs : Writes(jobs[j], n)
  BY <1>6 DEF Occurs, InOrder
<1>7. ASSUME NEW m \in Name, NEW n \in Name, NEW j \in DOMAIN jobs,
             Occurs(m, a), Occurs(n, b), Writes(jobs[j], n)
      PROVE  \E i \in DOMAIN jobs : i < j /\ Writes(jobs[i], m)
  <2>1. j > B
    <3>1. ~ (j \in DOMAIN c /\ jobs[j] = c[j])
      BY <1>7 DEF Writes
    <3>2. ~ (j - A \in DOMAIN a /\ Writes(jobs[j], a[j - A]))
      BY <1>7 DEF Writes, Occurs, Apart
    <3> QED  BY <1>2, <3>1, <3>2
  <2>2. PICK k \in DOMAIN a : a[k] = m
    BY <1>7 DEF Occurs
  <2>3. A + k \in DOMAIN jobs /\ A + k <= B /\ Writes(jobs[A + k], m)
    BY <2>2 DEF InOrder
  <2>4. A + k \in Nat /\ j \in Nat
    BY <1>1, <2>3
  <2>5. A + k < j
    BY <1>1, <2>1, <2>3, <2>4
  <2> QED  BY <2>3, <2>5
<1>8. ASSUME 1 \in DOMAIN a
      PROVE  CleanedFirst(jobs, a[1])
  <2>1. /\ A + 1 \in DOMAIN jobs /\ A + 1 <= B /\ Writes(jobs[A + 1], a[1])
        /\ 1..((A + 1) - 1) \subseteq DOMAIN jobs
    BY <1>8 DEF InOrder
  <2>2. ASSUME NEW j \in 1..((A + 1) - 1) PROVE jobs[j].op = "remove"
    <3>1. j \in DOMAIN jobs /\ ~ j > A /\ ~ j > B
      BY <1>1, <2>1
    <3> QED  BY <1>2, <3>1
  <2> QED  BY <2>1, <2>2 DEF CleanedFirst, Writes
<1> QED  BY <1>3, <1>4, <1>5, <1>6, <1>7, <1>8 DEF WellPlanned

(* Whatever is asked of it, main plans no file twice if the names asked    *)
(* for differ; with --clean-known-boot every plan cleans first, if each    *)
(* file is a known one or the payload that is written before all others;   *)
(* and the configuration, which is always one of the boot files, comes     *)
(* after the payload when its offset is wanted.                            *)
THEOREM MainMeetsProvisos ==
  ASSUME NEW known \in Seq(Name), NEW payload \in Seq(Name), NEW boot \in Seq(Name),
         NEW options, \A o \in options : o.payload \in Layouts /\ o.boot \in Layouts,
         \A o \in options : o.order \in {"payload-first", "boot-first"},
         Plans = StagePlans(known, payload, boot, options),
         Distinct(payload), Distinct(boot), Apart(payload, boot)
  PROVE  /\ WrittenOnce
         /\ (/\ \A o \in options : o.clean
             /\ \A i \in DOMAIN boot : Occurs(boot[i], known)
             /\ \A i \in DOMAIN payload :
                  \/ Occurs(payload[i], known)
                  \/ i = 1 /\ \A o \in options : o.order = "payload-first")
              => SafePlans
         /\ (Occurs(PayloadName, payload) /\ Occurs(ConfigName, boot)) => PayloadThenConfig
<1> DEFINE Planned(p) ==
             /\ \A i, j \in DOMAIN p.jobs :
                  (i < j /\ p.jobs[i].op = "write") => p.jobs[j].name # p.jobs[i].name
             /\ (\A o \in options : o.clean) =>
                  \A n \in Name : Occurs(n, known) => CleanedFirst(p.jobs, n)
             /\ (1 \in DOMAIN payload /\ \A o \in options : o.order = "payload-first")
                  => CleanedFirst(p.jobs, payload[1])
             /\ \A i \in DOMAIN p.jobs : \/ Occurs(p.jobs[i].name, known)
                                         \/ Occurs(p.jobs[i].name, payload)
                                         \/ Occurs(p.jobs[i].name, boot)
             /\ p.info => \A m, n \in Name :
                  (Occurs(m, payload) /\ Occurs(n, boot)) =>
                    /\ \E j \in DOMAIN p.jobs : Writes(p.jobs[j], n)
                    /\ \A j \in DOMAIN p.jobs : Writes(p.jobs[j], n) =>
                         \E i \in DOMAIN p.jobs : i < j /\ Writes(p.jobs[i], m)
<1>1. ASSUME NEW p \in Plans PROVE Planned(p)
  <2>1. PICK o \in options :
          /\ ~ (o.order = "boot-first" /\ o.info)
          /\ p.jobs = StageJobs(known, o.clean, o.order, payload, boot, o.payload, o.boot)
          /\ p.info = o.info
    BY DEF StagePlans
  <2> DEFINE c == IF o.clean THEN [i \in DOMAIN known |-> RemoveJob(known[i])] ELSE <<>>
             wp == [i \in DOMAIN payload |-> WriteJob(payload[i], o.payload)]
             wb == [i \in DOMAIN boot |-> WriteJob(boot[i], o.boot)]
  <2>2. /\ c \in Seq(Job) /\ \A i \in DOMAIN c : c[i].op = "remove" /\ Occurs(c[i].name, known)
        /\ o.clean => \A n \in Name : Occurs(n, known) => \E i \in DOMAIN c : c[i].name = n
    <3>1. CASE o.clean
      <4>1. c = [i \in DOMAIN known |-> RemoveJob(known[i])]
        BY <3>1
      <4>2. \A i \in DOMAIN known : RemoveJob(known[i]) \in Job
        BY DEF RemoveJob, Job, Layouts
      <4>3. DOMAIN known = 1..Len(known) /\ Len(known) \in Nat
        OBVIOUS
      <4>4. c \in Seq(Job)
        BY <4>1, <4>2, <4>3
      <4>5. \A i \in DOMAIN known : i \in DOMAIN c /\ c[i].op = "remove" /\ c[i].name = known[i]
        BY <4>1 DEF RemoveJob
      <4>6. DOMAIN c = DOMAIN known
        BY <4>1
      <4> HIDE DEF c
      <4> QED  BY <4>4, <4>5, <4>6 DEF Occurs
    <3>2. CASE ~ o.clean
      BY <3>2
    <3> QED  BY <3>1, <3>2
  <2>3. wp \in Seq(Job) /\ WritesAll(wp, payload)
    BY WritesInOrder
  <2>4. wb \in Seq(Job) /\ WritesAll(wb, boot)
    BY WritesInOrder
  <2>5. p.jobs = c \o (IF o.order = "payload-first" THEN wp \o wb ELSE wb \o wp)
    BY <2>1 DEF StageJobs
  <2> HIDE DEF c, wp, wb
  <2>6. ASSUME o.order = "payload-first"
      PROVE  WellPlanned(p.jobs, c, payload, boot)
    <3>1. InOrder(p.jobs, c, payload, boot, Len(c), Len(c) + Len(payload))
      BY <2>2, <2>3, <2>4, <2>5, <2>6, JobsInOrder
    <3> QED  BY <2>2, <2>6, <3>1, OnePlan
  <2>7. ASSUME o.order = "boot-first"
      PROVE  WellPlanned(p.jobs, c, boot, payload)
    <3>1. InOrder(p.jobs, c, boot, payload, Len(c), Len(c) + Len(boot))
      BY <2>2, <2>3, <2>4, <2>5, <2>7, JobsInOrder
    <3>2. Apart(boot, payload)
      BY DEF Apart
    <3> QED  BY <2>2, <2>7, <3>1, <3>2, OnePlan
  <2>8. o.order = "payload-first" \/ (o.order = "boot-first" /\ ~ p.info)
    BY <2>1
  <2> QED  BY <2>2, <2>6, <2>7, <2>8 DEF WellPlanned
<1> HIDE DEF Planned
<1>2. WrittenOnce
  BY <1>1 DEF Planned, WrittenOnce
<1>3. ASSUME \A o \in options : o.clean,
             \A i \in DOMAIN boot : Occurs(boot[i], known),
             \A i \in DOMAIN payload :
               \/ Occurs(payload[i], known)
               \/ i = 1 /\ \A o \in options : o.order = "payload-first"
      PROVE  SafePlans
  <2> SUFFICES ASSUME NEW p \in Plans, NEW n \in Touched
               PROVE  CleanedFirst(p.jobs, n)
    BY DEF SafePlans
  <2>0. PICK q \in Plans : \E i \in DOMAIN q.jobs : n = q.jobs[i].name
    BY DEF Touched
  <2>1. PICK i \in DOMAIN q.jobs : n = q.jobs[i].name
    BY <2>0
  <2>2. n \in Name
    <3>1. q.jobs \in Seq(Job)
      BY StageAssumption
    <3>2. q.jobs[i] \in Job
      BY <2>1, <3>1
    <3> QED  BY <2>1, <3>2 DEF Job
  <2>3. \/ Occurs(n, known)
        \/ 1 \in DOMAIN payload /\ n = payload[1] /\ \A o \in options : o.order = "payload-first"
    <3>1. Occurs(n, known) \/ Occurs(n, payload) \/ Occurs(n, boot)
      BY <1>1, <2>1 DEF Planned
    <3> QED  BY <1>3, <3>1 DEF Occurs
  <2> QED  BY <1>1, <1>3, <2>2, <2>3 DEF Planned
<1>4. ASSUME Occurs(PayloadName, payload), Occurs(ConfigName, boot)
      PROVE  PayloadThenConfig
  BY <1>1, <1>4, StageAssumption DEF Planned, PayloadThenConfig
<1> QED  BY <1>2, <1>3, <1>4
=============================================================================
