------------------------------ MODULE Stage1Init ------------------------------
(***************************************************************************)
(* The init of the distro stage-1 initramfs (make_distro_initramfs.py):    *)
(* it finds the drive with the payload, on the FATX E partition or on an   *)
(* ISO, loop-mounts the root image and switches to it.  The kernel         *)
(* attaches drives in any order while the script runs; each action is the  *)
(* part of the script between two looks at the drives.                     *)
(***************************************************************************)
EXTENDS Integers, Sequences

CONSTANTS
  Device,         \* the names under /dev the script may try
  ProbeOrder,     \* the fixed list of FATX disks
  DefaultDisk,    \* the disk waited for when none of them is there
  SysOrder,       \* all devices, in the order of the glob /sys/block/*
  Matching,       \* those the case pattern of the sysfs scan selects
  FallbackOrder,  \* the names tried after those of sysfs
  HardNumber,     \* those whose device number the script knows
  MaxPolls,       \* 5: seconds waited for the FATX disk
  Machines,       \* the machines: functions from Device to Medium
  CommandLines    \* the command lines

NoDisk == "none"

(* What is in the drive of that name: "missing" is no drive at all.  The   *)
(* payload is absent, held under its name or under its upper-case name,    *)
(* no mountable root image, or a root image without the init program.      *)
Medium ==
  [fs : {"missing", "blank", "fatx", "iso9660"},
   payload : {"absent", "named", "upper", "damaged", "no init"}]
CommandLine ==
  [source : {"fatx", "iso"}, disk : Device \cup {NoDisk}, proof : BOOLEAN]

ASSUME Stage1Assumption ==
  /\ NoDisk \notin Device /\ DefaultDisk \in Device
  /\ {ProbeOrder, SysOrder, FallbackOrder} \subseteq Seq(Device)
  /\ Matching \subseteq {SysOrder[i] : i \in DOMAIN SysOrder}
  /\ HardNumber \subseteq Device
  /\ MaxPolls \in Nat \ {0}
  /\ Machines \subseteq [Device -> Medium]
  /\ CommandLines \subseteq CommandLine

VARIABLES
  medium, cmd, devtmpfs,  \* the machine; whether /dev shows drives by itself
  attached,               \* the drives the kernel has found so far
  nodes,                  \* the nodes made with mknod
  pc, disk,               \* where the script is; PAYLOAD_DISK
  rest, tried,            \* the names still to try; $tried
  polls,                  \* seconds waited
  mounted,                \* the drive mounted on /mnt/xboxe
  seen                    \* history: attached when the search looked

machine == <<medium, cmd, devtmpfs>>
vars == <<machine, attached, nodes, pc, disk, rest, tried, polls, mounted, seen>>

Final == {"shell", "switched", "panic"}
PC == Final \cup {"probe", "wait", "fatx", "list", "scan", "mount", "image",
                  "enter", "proof"}

Init ==
  /\ medium \in Machines /\ cmd \in CommandLines /\ devtmpfs \in BOOLEAN
  /\ attached = {} /\ nodes = {} /\ disk = cmd.disk
  /\ pc = IF cmd.source = "iso" THEN "list"
          ELSE IF cmd.disk = NoDisk THEN "probe" ELSE "wait"
  /\ rest = ProbeOrder /\ tried = {} /\ polls = 0
  /\ mounted = NoDisk /\ seen = {}

(* The kernel finds a drive.                                               *)
Attach(d) ==
  /\ d \notin attached /\ medium[d].fs # "missing"
  /\ attached' = attached \cup {d}
  /\ UNCHANGED <<machine, nodes, pc, disk, rest, tried, polls, mounted, seen>>

HasNode(d) == d \in nodes \/ (devtmpfs /\ d \in attached)

(* The mount succeeds: the node leads to a drive with that file system.    *)
Mountable(d, fs) == HasNode(d) /\ d \in attached /\ medium[d].fs = fs

GoesTo(where) == pc' = where /\ UNCHANGED <<machine, attached>>

-----------------------------------------------------------------------------
(* FATX                                                                    *)

Probe ==
  /\ pc = "probe"
  /\ IF rest = <<>>
       THEN disk' = DefaultDisk /\ GoesTo("wait") /\ UNCHANGED rest
       ELSE IF HasNode(Head(rest))
         THEN disk' = Head(rest) /\ GoesTo("wait") /\ UNCHANGED rest
         ELSE rest' = Tail(rest) /\ GoesTo("probe") /\ UNCHANGED disk
  /\ UNCHANGED <<nodes, tried, polls, mounted, seen>>

(* Mutant: a second too many.                                              *)
WaitDiskLonger ==
  /\ pc = "wait"
  /\ seen' = attached
  /\ IF HasNode(disk)
       THEN GoesTo("fatx") /\ UNCHANGED polls
       ELSE /\ polls' = polls + 1
            /\ GoesTo(IF polls = MaxPolls THEN "fatx" ELSE "wait")
  /\ UNCHANGED <<nodes, disk, rest, tried, mounted>>

(* Mutant: the loop has no bound.                                          *)
WaitDiskForever ==
  /\ pc = "wait"
  /\ seen' = attached
  /\ GoesTo(IF HasNode(disk) THEN "fatx" ELSE "wait")
  /\ UNCHANGED <<nodes, disk, rest, tried, polls, mounted>>

(* One look at the disk, and a second's sleep when it is not there.        *)
WaitDisk ==
  /\ pc = "wait"
  /\ seen' = attached
  /\ IF HasNode(disk)
       THEN GoesTo("fatx") /\ UNCHANGED polls
       ELSE /\ polls' = polls + 1
            /\ GoesTo(IF polls' = MaxPolls THEN "fatx" ELSE "wait")
  /\ UNCHANGED <<nodes, disk, rest, tried, mounted>>

MountFatx ==
  /\ pc = "fatx"
  /\ IF Mountable(disk, "fatx")
       THEN mounted' = disk /\ GoesTo("image")
       ELSE UNCHANGED mounted /\ GoesTo("shell")
  /\ UNCHANGED <<nodes, disk, rest, tried, polls, seen>>

-----------------------------------------------------------------------------
(* ISO: find_iso_payload_disk, try_mount_iso                               *)

(* The words the loop over /sys/block/* adds; NoDisk is an empty word,     *)
(* which word splitting drops.                                             *)
SysNames ==
  [i \in DOMAIN SysOrder |->
     IF SysOrder[i] \in Matching \cap attached THEN SysOrder[i] ELSE NoDisk]

(* Mutant: the drive given on the command line is tried last.              *)
ListCandidatesGivenLast ==
  /\ pc = "list"
  /\ rest' = SysNames \o FallbackOrder \o <<disk>>
  /\ seen' = attached
  /\ GoesTo("scan")
  /\ UNCHANGED <<nodes, disk, tried, polls, mounted>>

(* The names to try: the one given, if any, those of sysfs, the fixed ones.*)
ListCandidates ==
  /\ pc = "list"
  /\ rest' = <<disk>> \o SysNames \o FallbackOrder
  /\ seen' = attached
  /\ GoesTo("scan")
  /\ UNCHANGED <<nodes, disk, tried, polls, mounted>>

(* Mutant: only the drives with a well-known number get a node.            *)
NumberKnownFixed(d) == d \in HardNumber

(* From sysfs, or else from the script's own list.                         *)
NumberKnown(d) == d \in attached \/ d \in HardNumber

(* A name tried before is skipped; else ensure_block_node.                 *)
NextCandidate ==
  /\ pc = "scan" /\ rest # <<>>
  /\ LET d == Head(rest)
     IN IF d \in tried \cup {NoDisk} \/ ~(HasNode(d) \/ NumberKnown(d))
          THEN rest' = Tail(rest) /\ GoesTo("scan") /\ UNCHANGED nodes
          ELSE /\ nodes' = IF HasNode(d) THEN nodes ELSE nodes \cup {d}
               /\ GoesTo("mount") /\ UNCHANGED rest
  /\ tried' = tried \cup {Head(rest)}
  /\ UNCHANGED <<disk, polls, mounted, seen>>

MountIso ==
  /\ pc = "mount"
  /\ LET d == Head(rest)
     IN IF Mountable(d, "iso9660") /\ medium[d].payload # "absent"
          THEN disk' = d /\ mounted' = d /\ GoesTo("image") /\ UNCHANGED rest
          ELSE rest' = Tail(rest) /\ GoesTo("scan") /\ UNCHANGED <<disk, mounted>>
  /\ UNCHANGED <<nodes, tried, polls, seen>>

ScanFails ==
  /\ pc = "scan" /\ rest = <<>>
  /\ GoesTo("shell")
  /\ UNCHANGED <<nodes, disk, rest, tried, polls, mounted, seen>>

-----------------------------------------------------------------------------
(* The root image, under its name or its upper-case name, and its mount.   *)
MountRoot ==
  /\ pc = "image"
  /\ GoesTo(IF medium[mounted].payload \in {"named", "upper", "no init"}
              THEN "enter" ELSE "shell")
  /\ UNCHANGED <<nodes, disk, rest, tried, polls, mounted, seen>>

(* chroot or switch_root; without the init program switch_root dies, and   *)
(* PID 1 with it.                                                          *)
EnterRoot ==
  /\ pc = "enter"
  /\ GoesTo(CASE cmd.proof                            -> "proof"
              [] medium[mounted].payload = "no init"  -> "panic"
              [] OTHER                                -> "switched")
  /\ UNCHANGED <<nodes, disk, rest, tried, polls, mounted, seen>>

(* The program chrooted into returns, with whatever status.                *)
ProofReturns ==
  /\ pc = "proof"
  /\ GoesTo("shell")
  /\ UNCHANGED <<nodes, disk, rest, tried, polls, mounted, seen>>

LoaderStep ==
  \/ Probe \/ WaitDisk \/ MountFatx
  \/ ListCandidates \/ NextCandidate \/ MountIso \/ ScanFails
  \/ MountRoot \/ EnterRoot

Next == LoaderStep \/ ProofReturns \/ \E d \in Device : Attach(d)

(* PID 1 runs; nothing is assumed of the drives, nor of the program that   *)
(* the chroot proof runs.                                                  *)
Spec == Init /\ [][Next]_vars /\ WF_vars(LoaderStep)

-----------------------------------------------------------------------------
TypeOK ==
  /\ medium \in [Device -> Medium] /\ cmd \in CommandLine
  /\ devtmpfs \in BOOLEAN
  /\ attached \subseteq Device /\ nodes \subseteq Device
  /\ pc \in PC /\ disk \in Device \cup {NoDisk}
  /\ rest \in Seq(Device \cup {NoDisk}) /\ tried \subseteq Device \cup {NoDisk}
  /\ polls \in 0..MaxPolls
  /\ mounted \in Device \cup {NoDisk} /\ seen \subseteq attached

HasIsoPayload(d) == medium[d].fs = "iso9660" /\ medium[d].payload # "absent"

(* A drive the search can come to, if it is there when the search looks.   *)
Reachable(d) ==
  d \in Matching \/ d = cmd.disk \/ \E i \in DOMAIN FallbackOrder : FallbackOrder[i] = d

(* The shell is the last resort.  From a disc: no drive that was there     *)
(* when the scan began holds the payload file, whatever else is in the     *)
(* drives tried before it, and whether or not /dev shows them by itself;   *)
(* or the file was found and is no root.  From FATX: the disk was waited   *)
(* for as long as it may take, or it is no disk to boot from.              *)
GaveUpJustified ==
  (pc = "shell" /\ ~cmd.proof /\ mounted = NoDisk) =>
    IF cmd.source = "iso"
      THEN \A d \in seen : Reachable(d) => ~HasIsoPayload(d)
      ELSE polls = MaxPolls \/ (disk \in seen /\ medium[disk].fs # "fatx")

(* The drive named on the command line wins: another one is used only for  *)
(* a disc, and only when the drive named was not there with the payload.   *)
GivenDiskWins ==
  (mounted # NoDisk /\ cmd.disk # NoDisk) =>
    \/ mounted = cmd.disk
    \/ cmd.source = "iso" /\ ~(cmd.disk \in seen /\ HasIsoPayload(cmd.disk))

(* The loader ends: in the payload, in a shell or in a kernel panic, even  *)
(* if no drive ever appears.                                               *)
LoaderEnds == <>(pc \in Final \cup {"proof"})
=============================================================================
