----------------------------- MODULE MCFatxStage -----------------------------
(***************************************************************************)
(* Small instances of FatxStage: a user's file that no run writes, a       *)
(* configuration, a kernel and a payload, on sound and damaged volumes.    *)
(***************************************************************************)
EXTENDS FatxStage

Names == {"user", "other", "third", "linuxboot.cfg", "vmlinuz", "linuxroot.ext2"}
KnownBoot == <<"linuxboot.cfg", "vmlinuz">>
Payload == <<"linuxroot.ext2">>
Boot == <<"linuxboot.cfg", "vmlinuz">>

(* The user's file and the configuration take a cluster (the configuration *)
(* of the model fits one), kernel and payload two.                         *)
FileBlocks ==
  [n \in Names |-> IF n \in {"vmlinuz", "linuxroot.ext2"} THEN 2 ELSE 1]

(* A volume built from files: [name, chain, tail] records in slot order; a *)
(* chain <<>> stands for a deleted slot, tail is what the last link holds. *)
(* Where chains meet, the file in the lower slot has set the link.         *)
Volume(files) ==
  LET Holds(i, c) == \E k \in DOMAIN files[i].chain : files[i].chain[k] = c
      Place(i, c) == CHOOSE k \in DOMAIN files[i].chain : files[i].chain[k] = c
      Link(i, c) == IF Place(i, c) < Len(files[i].chain)
                      THEN files[i].chain[Place(i, c) + 1]
                      ELSE files[i].tail
      owner(c) == {i \in DOMAIN files : Holds(i, c)}
      First(S) == CHOOSE i \in S : \A j \in S : i <= j
      Blank == [name |-> "user", run |-> 0, part |-> 0, off |-> 0]
  IN  [fat  |-> [c \in Cluster |->
                   IF c = RootCluster THEN EndOfChain
                   ELSE IF owner(c) = {} THEN FreeCluster
                   ELSE Link(First(owner(c)), c)],
       root |-> [s \in Slot |->
                   IF s \notin DOMAIN files
                     THEN [mark |-> "ff", name |-> "user", start |-> 0, size |-> 0]
                   ELSE IF files[s].chain = <<>>
                     THEN [mark |-> "deleted", name |-> files[s].name,
                           start |-> 0, size |-> 0]
                   ELSE [mark |-> "live", name |-> files[s].name,
                         start |-> files[s].chain[1],
                         size |-> Len(files[s].chain)]],
       data |-> [c \in Cluster |->
                   IF owner(c) = {} THEN Blank
                   ELSE LET i == First(owner(c))
                        IN  [Blank EXCEPT !.name = files[i].name,
                                          !.part = Place(i, c)]]]

File(n, chain) == [name |-> n, chain |-> chain, tail |-> EndOfChain]
Damaged(n, chain, tail) == [name |-> n, chain |-> chain, tail |-> tail]

(* The directory of a formatted volume ends in 0x00, not in 0xFF.          *)
Zeroed(v) ==
  [v EXCEPT !.root = [s \in Slot |-> IF v.root[s].mark = "ff"
                                       THEN Marked(v.root[s], "zero") ELSE v.root[s]]]

(* A formatted volume with one file; one staged before, with fragmented    *)
(* boot files; one whose free clusters have holes and a deleted slot.      *)
Fresh == Zeroed(Volume(<<File("user", <<3>>)>>))
Staged == Volume(<<File("user", <<7>>), File("vmlinuz", <<4, 2>>),
                   File("linuxroot.ext2", <<5, 6>>),
                   File("linuxboot.cfg", <<3>>)>>)
Holes == Volume(<<File("vmlinuz", <<>>), File("user", <<3>>),
                  File("linuxroot.ext2", <<5>>)>>)
Volumes == {Fresh, Staged, Holes}

(* Two or three user's files: most files of the plan have no place.        *)
Crowded == {Volume(<<File("user", <<3>>), File("other", <<5>>), File("vmlinuz", <<2>>)>>),
            Volume(<<File("user", <<3>>), File("other", <<>>),
                     File("other", <<5>>), File("vmlinuz", <<2, 7>>)>>),
            Volume(<<File("user", <<7>>), File("other", <<6>>),
                     File("third", <<2>>)>>)}
AllVolumes == Volumes \cup Crowded

(* Volumes that came damaged: the boot files lead in a circle, to each     *)
(* other, into a free cluster, into the root directory, out of range or    *)
(* into a user's file.  Behind them lies a user's file that is whole.      *)
Whole == File("user", <<3>>)

Circle == Volume(<<Damaged("vmlinuz", <<4, 2>>, 4), File("linuxboot.cfg", <<2>>),
                   Whole>>)
Shared == Volume(<<File("vmlinuz", <<4, 2>>), Damaged("linuxboot.cfg", <<5>>, 2),
                   Whole>>)
Freed == Volume(<<Damaged("vmlinuz", <<4>>, 6), Damaged("linuxboot.cfg", <<5>>, FreeCluster),
                  Whole>>)
IntoRoot == Volume(<<Damaged("vmlinuz", <<4, 2>>, RootCluster),
                     File("linuxroot.ext2", <<RootCluster>>), Whole>>)
OutOfRange == Volume(<<File("vmlinuz", <<EndOfChain>>),
                       File("linuxboot.cfg", <<5>>), Whole>>)
IntoOther == Volume(<<Damaged("vmlinuz", <<4>>, 6), File("other", <<5, 6>>), Whole>>)

DamagedVolumes == {Circle, Shared, Freed, IntoRoot, OutOfRange, IntoOther}
EveryVolume == AllVolumes \cup DamagedVolumes

(* The plans of the test harnesses: --clean-known-boot, payload first.     *)
CleanPlans ==
  StagePlans(KnownBoot, Payload, Boot,
    [clean : {TRUE}, order : {"payload-first"}, info : BOOLEAN,
     payload : {"contiguous"}, boot : {"normal", "fragmented"}])

(* Every order and cleaning main accepts; of the layouts that differ, the  *)
(* boot files are fragmented, or payload and boot files, or neither.       *)
AnyPlans ==
  UNION {StagePlans(KnownBoot, Payload, Boot,
           [clean : BOOLEAN, order : {"payload-first", "boot-first"}, info : BOOLEAN,
            payload : {layouts[1]}, boot : {layouts[2]}]) :
         layouts \in {<<"contiguous", "normal">>, <<"contiguous", "fragmented">>,
                      <<"fragmented", "fragmented">>}}

(* stage_hdd_fatx_linuxboot.ps1: in place, without --clean-known-boot.     *)
HddPlans ==
  StagePlans(KnownBoot, Payload, Boot,
    [clean : {FALSE}, order : {"payload-first"}, info : {FALSE},
     payload : {"contiguous"}, boot : {"normal"}])
==============================================================================
