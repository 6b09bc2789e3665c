----------------------------- MODULE IsoOverlay -----------------------------
(***************************************************************************)
(* add_iso9660_overlay.py: the directories of an ISO9660 file system are   *)
(* written into free sectors of an XDVDFS image, over files that are in it *)
(* already.  Paths are sequences of names; extents, a function from paths  *)
(* to sector and size, comes from the output of the packer.                *)
(***************************************************************************)
EXTENDS SequencesExt, FiniteSetsExt, Integers

CONSTANTS
  NameOrder,       \* all names, in the order of their bytes
  RootSector,      \* 18
  FirstDirSector,  \* 21
  DirCapacity      \* names whose records fit in one sector

ASSUME OverlayAssumption ==
  /\ IsInjective(NameOrder) /\ NameOrder \in Seq(ToSet(NameOrder))
  /\ RootSector = 18 /\ FirstDirSector = 21   \* the defaults: nobody gives others
  /\ DirCapacity \in Nat

Place(n) == CHOOSE i \in DOMAIN NameOrder : NameOrder[i] = n

(* sorted: the order of the paths, which as strings differs from this one  *)
(* for names with bytes below "/" only; a parent comes first in both.      *)
PathLess(p, q) ==
  \/ IsStrictPrefix(p, q)
  \/ \E i \in DOMAIN p \cap DOMAIN q :
       SubSeq(p, 1, i - 1) = SubSeq(q, 1, i - 1) /\ Place(p[i]) < Place(q[i])

Directories(extents) ==
  UNION {{SubSeq(p, 1, n) : n \in 0..(Len(p) - 1)} : p \in DOMAIN extents}

(* build_directory_tree: the root, then the others in order, a sector each.*)
Index(dirs, d) == Cardinality({c \in dirs : PathLess(c, d)}) + 1
DirSector(i) == IF i = 1 THEN RootSector ELSE FirstDirSector + i - 2
SectorOf(dirs, d) == DirSector(Index(dirs, d))

(* Mutant: every directory is one of the root's.                           *)
ParentIsRoot(d) == <<>>

(* The directory that one is in; the root is its own.                      *)
Parent(d) == IF d = <<>> THEN <<>> ELSE Front(d)

Children(extents, d) ==
  {p \in DOMAIN extents \cup Directories(extents) : Len(p) = Len(d) + 1 /\ IsPrefix(d, p)}

(* build_directory_sector: the records ".", ".." and one for each child.   *)
Record(extents, p) ==
  IF p \in Directories(extents)
    THEN [isDir |-> TRUE, size |-> 1, sector |-> SectorOf(Directories(extents), p)]
    ELSE [isDir |-> FALSE, size |-> extents[p].size, sector |-> extents[p].sector]

DirectorySector(extents, d) ==
  LET dirs == Directories(extents)
  IN  [self |-> SectorOf(dirs, d), parent |-> SectorOf(dirs, Parent(d)),
       records |-> [n \in {Last(p) : p \in Children(extents, d)} |->
                      Record(extents, Append(d, n))]]

(* It raises when a directory takes more than its sector.                  *)
Fits(extents) ==
  \A d \in Directories(extents) : Cardinality(Children(extents, d)) <= DirCapacity

(* The volume descriptor, the path table and the directories, by sector.   *)
PathTable(dirs) ==
  LET at(i) == CHOOSE d \in dirs : Index(dirs, d) = i
  IN  [i \in {Index(dirs, d) : d \in dirs} |->
         [sector |-> DirSector(i), parent |-> Index(dirs, Parent(at(i)))]]

Overlay(extents) ==
  LET dirs == Directories(extents)
      at(s) == CHOOSE d \in dirs : SectorOf(dirs, d) = s
  IN  [root |-> RootSector, table |-> PathTable(dirs),
       sectors |-> [s \in {SectorOf(dirs, d) : d \in dirs} |->
                      DirectorySector(extents, at(s))]]

-----------------------------------------------------------------------------
(* What a reader finds that goes from the root along a path.               *)
NoRecord == [isDir |-> FALSE, size |-> 0, sector |-> 0]
RootRecord(volume) == [isDir |-> TRUE, size |-> 1, sector |-> volume.root]
Follow(volume, at, n) ==
  IF /\ at.isDir /\ at.sector \in DOMAIN volume.sectors
     /\ n \in DOMAIN volume.sectors[at.sector].records
    THEN volume.sectors[at.sector].records[n] ELSE NoRecord
Lookup(volume, path) ==
  FoldLeft(LAMBDA at, n : Follow(volume, at, n), RootRecord(volume), path)

(* The sectors a file lies in, its size counted in sectors.                *)
Occupied(extent) == extent.sector..(extent.sector + extent.size - 1)

(* A reader finds each file where it is; going up from a directory, by its *)
(* ".." or by the path table, leads to the one it is in; no directory lies *)
(* on the descriptors, the tables, a file or the descriptor of XDVDFS.     *)
Sound(volume, extents) ==
  LET paths == Directories(extents)
      sectorOf(d) == Lookup(volume, d).sector
      taken == 16..17 \cup 19..20 \cup {32}
                 \cup UNION {Occupied(extents[p]) : p \in DOMAIN extents}
  IN  /\ \A p \in DOMAIN extents :
           LET r == Lookup(volume, p)
           IN  ~r.isDir /\ r.sector = extents[p].sector /\ r.size = extents[p].size
      /\ \A d \in paths \ {<<>>} :
           /\ Lookup(volume, d).isDir
           /\ volume.sectors[sectorOf(d)].self = sectorOf(d)
           /\ volume.sectors[sectorOf(d)].parent = sectorOf(Front(d))
           /\ \E i \in DOMAIN volume.table :
                /\ volume.table[i].sector = sectorOf(d)
                /\ volume.table[volume.table[i].parent].sector = sectorOf(Front(d))
      /\ {sectorOf(d) : d \in paths} \cap taken = {}
      /\ \A c, d \in paths : c # d => sectorOf(c) # sectorOf(d)
=============================================================================
