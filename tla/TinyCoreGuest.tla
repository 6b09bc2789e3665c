---------------------------- MODULE TinyCoreGuest ----------------------------
(***************************************************************************)
(* The guest of make_busybox_initramfs.py, stages 6 and 7: init looks for  *)
(* the disc or the ext2 payload, or has the files in the initramfs,        *)
(* unpacks Tiny Core, mounts each extension and links its files into the   *)
(* root, copies the hot set of X into memory, and starts the desktop.      *)
(* Beside the desktop the network comes up, a remote shell behind it, and  *)
(* the hot set is handed back while programs use it.                       *)
(***************************************************************************)
EXTENDS TinyCoreNames, SequencesExt, Integers

CONSTANTS
  Device,         \* the names under /dev that init may try
  SysOrder,       \* all of them, in the order of the glob /sys/block/*
  Matching,       \* those the case pattern of the sysfs scan selects
  FallbackOrder,  \* the fixed names tried after those
  DiskOrder,      \* the fixed list of disks of stage 7
  MaxTries,       \* 8 scans for the disc, 5 looks at the disk of stage 7
  Path,           \* the paths in the root that matter
  Provides,       \* the paths an extension has files for
  CorePaths,      \* the paths Tiny Core has files for
  HotOrder,       \* the extensions of the X hot set
  Dropbear,       \* the path of dropbear
  Machines        \* for each kind of medium, the machines that boot it

NoDisk == "none"
NoExt == "none"
DefaultDisk == Head(DiskOrder)

(* A machine: what is in its drives; whether /dev shows drives by itself   *)
(* and bind mounts work; its loop devices; whether it has a network card   *)
(* and an address from the kernel; the kernel command line; and which      *)
(* files of its extensions are links that lead to nothing.                 *)
Line == [hotset : BOOLEAN, release : BOOLEAN, remote : BOOLEAN, disk : Device \cup {NoDisk}]
Machine ==
  [drive : [Device -> {"missing", "blank", "other", "payload"}],
   devtmpfs : BOOLEAN, binds : BOOLEAN, loops : Nat,
   eth0 : BOOLEAN, addr : BOOLEAN, line : Line, dead : SUBSET (Path \X Ext)]

Kind == {"iso", "game", "embedded", "ext2"}

ASSUME GuestAssumption ==
  /\ NoDisk \notin Device /\ NoExt \notin Ext
  /\ {SysOrder, FallbackOrder, DiskOrder} \subseteq Seq(Device) /\ DiskOrder # <<>>
  /\ Matching \subseteq ToSet(SysOrder) /\ MaxTries \in Nat \ {0}
  /\ IsFiniteSet(Path) /\ Provides \in [Ext -> SUBSET Path] /\ CorePaths \subseteq Path
  /\ HotOrder \in Seq(Ext) /\ Dropbear \in Path
  /\ Machines \in [Kind -> (SUBSET Machine) \ {{}}]

VARIABLES
  machine, files,         \* the machine, and what its payload holds
  attached, nodes,        \* drives the kernel has found; nodes made by mknod
  init,                   \* what init does next, or how it ended
  disk, rest, tried, tries,
  inTime,                 \* history: attached when the last scan began
  todo,                   \* extensions still to load, or still to copy
  dirs, loaded,           \* mount points made; extensions mounted
  view,                   \* what each path of the root is
  record,                 \* xbox-hotset-files.txt
  session,                \* startx and .xsession
  release, left, lost,    \* xbox-hotset-release; entries left; paths reported
  net, addr,              \* xbox-network-up; the address of eth0
  remote, dropbear        \* xbox-remote-up, of each caller; the daemon

search == <<attached, nodes, disk, rest, tried, tries, inTime>>
rootFs == <<todo, dirs, loaded, view, record>>
letGo == <<release, left, lost>>
network == <<net, addr, remote, dropbear>>
guestVars == <<machine, files, init, search, rootFs, session, letGo, network>>

Gone == [kind |-> "none", ext |-> NoExt]
Core == [kind |-> "file", ext |-> NoExt]
Link(e) == [kind |-> "link", ext |-> e]
Copy(e) == [kind |-> "copy", ext |-> e]
Readable(p) == view[p].kind # "none"

NoFiles == [order |-> <<>>, body |-> [e \in {} |-> "whole"]]

GuestInit ==
  /\ machine = CHOOSE m \in Machines["iso"] : TRUE
  /\ files = NoFiles /\ init = "off"
  /\ attached = {} /\ nodes = {} /\ disk = NoDisk /\ rest = <<>> /\ tried = {}
  /\ tries = 0 /\ inTime = {}
  /\ todo = <<>> /\ dirs = {} /\ loaded = {} /\ record = <<>>
  /\ view = [p \in Path |-> Gone]
  /\ session = "off" /\ release = "off" /\ left = <<>> /\ lost = {}
  /\ net = "off" /\ addr = FALSE /\ dropbear = FALSE
  /\ remote = [i \in {"net", "user"} |-> "off"]

(* The kernel starts init, of the initramfs that goes with the medium.     *)
Boot(kind, payload) ==
  /\ init = "off"
  /\ machine' \in Machines[kind] /\ files' = payload
  /\ init' = CASE kind \in {"iso", "game"} -> "list"
               [] kind = "embedded"        -> "unpack"
               [] kind = "ext2"            -> "probe"
  /\ disk' = IF kind = "ext2" THEN machine'.line.disk ELSE NoDisk
  /\ addr' = machine'.addr
  /\ UNCHANGED <<attached, nodes, rest, tried, tries, inTime, rootFs, session, letGo,
                 net, remote, dropbear>>

-----------------------------------------------------------------------------
(* The search for the payload.                                             *)

HasNode(d) == d \in nodes \/ (machine.devtmpfs /\ d \in attached)
Holds(d) == d \in attached /\ machine.drive[d] = "payload"

Attach(d) ==
  /\ init \in {"list", "scan", "probe", "wait"}
  /\ d \notin attached /\ machine.drive[d] # "missing"
  /\ attached' = attached \cup {d}
  /\ UNCHANGED <<machine, files, init, nodes, disk, rest, tried, tries, inTime,
                 rootFs, session, letGo, network>>

Looking == UNCHANGED <<machine, files, attached, rootFs, session, letGo, network>>

(* The words the loop over /sys/block/* adds; NoDisk is an empty word,     *)
(* which word splitting drops.                                             *)
SysNames ==
  [i \in DOMAIN SysOrder |->
     IF SysOrder[i] \in Matching \cap attached THEN SysOrder[i] ELSE NoDisk]

(* Mutant: the fixed names are left out.                                   *)
ListDrivesOfSysfs ==
  /\ init = "list"
  /\ rest' = SysNames
  /\ tried' = {} /\ inTime' = attached /\ init' = "scan"
  /\ Looking /\ UNCHANGED <<nodes, disk, tries>>

(* find_tinycore_disc: the drives sysfs tells of, then the fixed names.    *)
ListDrives ==
  /\ init = "list"
  /\ rest' = SysNames \o FallbackOrder
  /\ tried' = {} /\ inTime' = attached /\ init' = "scan"
  /\ Looking /\ UNCHANGED <<nodes, disk, tries>>

(* ensure_block_node: the device number comes from sysfs.                  *)
EnsureBlockNode(d) ==
  IF d \in attached /\ ~HasNode(d) THEN nodes \cup {d} ELSE nodes

(* try_mount_tinycore_disc: a drive the kernel has not found is left alone *)
(* (the device numbers the script knows are of no use then), one without a *)
(* node gets one; it must mount, hold core.gz, and bind.                   *)
TryDrive ==
  /\ init = "scan" /\ rest # <<>>
  /\ LET d == Head(rest)
     IN  /\ tried' = tried \cup {d}
         /\ nodes' = IF d \in tried THEN nodes ELSE EnsureBlockNode(d)
         /\ IF d \notin tried /\ Holds(d) /\ machine.binds
              THEN init' = "unpack" /\ UNCHANGED rest
              ELSE rest' = Tail(rest) /\ UNCHANGED init
  /\ Looking /\ UNCHANGED <<disk, tries, inTime>>

(* Mutant: a scan too many.                                                *)
NextScanOnceMore ==
  /\ init = "scan" /\ rest = <<>>
  /\ tries' = tries + 1
  /\ init' = IF tries = MaxTries THEN "no payload" ELSE "list"
  /\ Looking /\ UNCHANGED <<nodes, disk, rest, tried, inTime>>

NextScan ==
  /\ init = "scan" /\ rest = <<>>
  /\ tries' = tries + 1
  /\ init' = IF tries' = MaxTries THEN "no payload" ELSE "list"
  /\ Looking /\ UNCHANGED <<nodes, disk, rest, tried, inTime>>

(* Stage 7: the disk of the command line, or the first there is now.       *)
ProbeDisks ==
  /\ init = "probe"
  /\ \/ disk # NoDisk /\ UNCHANGED disk
     \/ /\ disk = NoDisk
        /\ \E i \in DOMAIN DiskOrder :
             /\ HasNode(DiskOrder[i]) /\ \A j \in 1..(i - 1) : ~HasNode(DiskOrder[j])
             /\ disk' = DiskOrder[i]
     \/ /\ disk = NoDisk /\ \A d \in ToSet(DiskOrder) : ~HasNode(d)
        /\ disk' = DefaultDisk
  /\ init' = "wait"
  /\ Looking /\ UNCHANGED <<nodes, rest, tried, tries, inTime>>

(* Mutant: the looks are not counted.                                      *)
WaitForDiskUncounted ==
  /\ init = "wait" /\ ~HasNode(disk) /\ tries < MaxTries
  /\ Looking /\ UNCHANGED <<init, nodes, disk, rest, tried, tries, inTime>>

(* A look and a second's sleep; nobody makes a node for the disk.          *)
WaitForDisk ==
  /\ init = "wait" /\ ~HasNode(disk) /\ tries < MaxTries
  /\ tries' = tries + 1
  /\ Looking /\ UNCHANGED <<init, nodes, disk, rest, tried, inTime>>

(* losetup and mount, straight or by way of FATX: a failure is only        *)
(* printed, and comes out where core.gz is not found.                      *)
MountDisk ==
  /\ init = "wait" /\ (HasNode(disk) \/ tries = MaxTries)
  /\ inTime' = attached
  /\ init' = IF HasNode(disk) /\ Holds(disk) THEN "unpack" ELSE "no payload"
  /\ Looking /\ UNCHANGED <<nodes, disk, rest, tried, tries>>

-----------------------------------------------------------------------------
(* The root.                                                               *)

Making == UNCHANGED <<machine, files, search, session, letGo, network>>

(* zcat | cpio; the pipeline fails when cpio does.  Of the search nothing  *)
(* is read from here on.                                                   *)
UnpackCore ==
  /\ init = "unpack"
  /\ \/ /\ init' = "load" /\ todo' = files.order
        /\ view' = [p \in Path |-> IF p \in CorePaths THEN Core ELSE Gone]
     \/ init' = "no core" /\ UNCHANGED <<todo, view>>
  /\ attached' = {} /\ nodes' = {} /\ disk' = NoDisk /\ rest' = <<>> /\ tried' = {}
  /\ tries' = 0 /\ inTime' = {}
  /\ UNCHANGED <<machine, files, dirs, loaded, record, session, letGo, network>>

(* Mutant: the name is taken as it is in the list.                         *)
FoundAsListed(e) == IF e \in DOMAIN files.body THEN files.body[e] ELSE "none"

(* The extension under its name, or else under its name in small letters.  *)
Found(e) ==
  IF e \in DOMAIN files.body THEN files.body[e]
  ELSE IF LowerCase[e] \in DOMAIN files.body THEN files.body[LowerCase[e]]
  ELSE "none"

(* ln -sf for each file: the later extension wins.                         *)
Linked(e) == [p \in Path |-> IF p \in Provides[e] THEN Link(e) ELSE view[p]]

(* A missing file is passed over; the mount point is made before the       *)
(* mount, which takes a loop device and a file that is whole.              *)
LoadNext ==
  /\ init = "load" /\ todo # <<>>
  /\ LET e == Head(todo)
         works == Found(e) = "whole" /\ Cardinality(loaded) < machine.loops
     IN  /\ dirs' = IF Found(e) = "none" THEN dirs ELSE dirs \cup {e}
         /\ loaded' = IF works THEN loaded \cup {e} ELSE loaded
         /\ view' = IF works THEN Linked(e) ELSE view
  /\ todo' = Tail(todo)
  /\ Making /\ UNCHANGED <<init, record>>

LoadDone ==
  /\ init = "load" /\ todo = <<>>
  /\ init' = "copy"
  /\ todo' = IF machine.line.hotset THEN HotOrder ELSE <<>>
  /\ Making /\ UNCHANGED <<dirs, loaded, view, record>>

(* materialize_extension: each file takes the place of what is there.  An  *)
(* extension that was not mounted has nothing to copy, and nobody notices. *)
Files(e) == IF e \in loaded THEN Provides[e] ELSE {}
Copied(e, ps) == [p \in Path |-> IF p \in ps THEN Copy(e) ELSE view[p]]

CopyNext ==
  /\ init = "copy" /\ todo # <<>> /\ Head(todo) \in dirs
  /\ LET e == Head(todo)
     IN  /\ view' = Copied(e, Files(e))
         /\ record' = record \o [i \in DOMAIN SetToSeq(Files(e)) |->
                                   <<SetToSeq(Files(e))[i], e>>]
  /\ todo' = Tail(todo)
  /\ Making /\ UNCHANGED <<init, dirs, loaded>>

(* A copy fails: the path being copied is gone, and init gives up.         *)
CopyFails ==
  /\ init = "copy" /\ todo # <<>> /\ Head(todo) \in dirs
  /\ LET e == Head(todo)
     IN  \E ps \in SUBSET Files(e) : \E p \in Files(e) \ ps :
           view' = [Copied(e, ps) EXCEPT ![p] = Gone]
  /\ init' = "no hot set"
  /\ Making /\ UNCHANGED <<todo, dirs, loaded, record>>

CopyMissing ==
  /\ init = "copy" /\ todo # <<>> /\ Head(todo) \notin dirs
  /\ init' = "no hot set"
  /\ Making /\ UNCHANGED rootFs

(* start-xbox-desktop.sh: the network is sent ahead into the background.   *)
StartDesktop ==
  /\ init = "copy" /\ todo = <<>>
  /\ init' = "desktop" /\ session' = "starting" /\ net' = "begun"
  /\ UNCHANGED <<machine, files, search, rootFs, letGo, addr, remote, dropbear>>

-----------------------------------------------------------------------------
(* The desktop.                                                            *)

Running == UNCHANGED <<machine, files, search, todo, dirs, loaded, record>>

(* Xfbdev is waited for, up to 60 seconds and by waitforX, without which   *)
(* .xsession ends; the window manager and the rest are sent into the       *)
(* background behind it.                                                   *)
XStarts ==
  /\ session = "starting"
  /\ session' \in {"up", "failed"}
  /\ Running /\ UNCHANGED <<init, view, letGo, network>>

SessionEnds ==
  /\ session = "up"
  /\ session' = "over"
  /\ Running /\ UNCHANGED <<init, view, letGo, network>>

LauncherReturns ==
  /\ init = "desktop" /\ session \in {"over", "failed"}
  /\ init' = "desktop over"
  /\ Running /\ UNCHANGED <<view, session, letGo, network>>

(* sleep 5; xbox-hotset-release, in a shell of its own, whatever the       *)
(* programs started before it are doing; X itself may be over.             *)
BeginRelease ==
  /\ session \in {"up", "over"} /\ release = "off" /\ machine.line.release
  /\ release' = "next" /\ left' = record
  /\ Running /\ UNCHANGED <<init, view, session, lost, network>>

(* Mutant: a source that is not there is passed over.                      *)
MissingSourceForgiven ==
  /\ release = "next" /\ left # <<>> /\ Head(left) \in machine.dead
  /\ left' = Tail(left)
  /\ Running /\ UNCHANGED <<init, view, session, release, lost, network>>

(* A link in the extension that leads to nothing there is no source.       *)
MissingSource ==
  /\ release = "next" /\ left # <<>> /\ Head(left) \in machine.dead
  /\ left' = Tail(left) /\ lost' = lost \cup {Head(left)[1]}
  /\ Running /\ UNCHANGED <<init, view, session, release, network>>

(* rm -f, whose failure is passed over.                                    *)
RemoveCopy ==
  /\ release = "next" /\ left # <<>> /\ Head(left) \notin machine.dead
  /\ release' = "link"
  /\ view' \in {view, [view EXCEPT ![Head(left)[1]] = Gone]}
  /\ Running /\ UNCHANGED <<init, session, left, lost, network>>

(* Mutant: a failure of ln -s is not counted.                              *)
RestoreLinkUnchecked ==
  /\ release = "link"
  /\ LET p == Head(left)[1]
     IN  view' \in {view} \cup (IF Readable(p) THEN {}
                               ELSE {[view EXCEPT ![p] = Link(Head(left)[2])]})
  /\ release' = "next" /\ left' = Tail(left)
  /\ Running /\ UNCHANGED <<init, session, lost, network>>

(* ln -s takes no path that is there.  It succeeds, or the path stays as   *)
(* it is and is reported.                                                  *)
RestoreLink ==
  /\ release = "link"
  /\ LET p == Head(left)[1]
     IN  \/ /\ ~Readable(p) /\ UNCHANGED lost
            /\ view' = [view EXCEPT ![p] = Link(Head(left)[2])]
         \/ lost' = lost \cup {p} /\ UNCHANGED view
  /\ release' = "next" /\ left' = Tail(left)
  /\ Running /\ UNCHANGED <<init, session, network>>

FinishRelease ==
  /\ release = "next" /\ left = <<>>
  /\ release' = IF lost = {} THEN "OK" ELSE "FAILED"
  /\ Running /\ UNCHANGED <<init, view, session, left, lost, network>>

-----------------------------------------------------------------------------
(* The network and the remote shell.                                       *)

Networking == UNCHANGED <<machine, files, init, search, rootFs, session, letGo>>

NetBegins ==
  /\ net = "begun"
  /\ net' = IF ~machine.eth0 THEN "no eth0" ELSE IF addr THEN "up" ELSE "dhcp"
  /\ Networking /\ UNCHANGED <<addr, remote, dropbear>>

(* udhcpc or pump, with or without an answer.                              *)
Dhcp ==
  /\ net = "dhcp"
  /\ \/ addr' = TRUE /\ net' = "up"
     \/ net' = "failed" /\ UNCHANGED addr
  /\ Networking /\ UNCHANGED <<remote, dropbear>>

(* Mutant: an address from the kernel is none of its business.             *)
NetUpAfterDhcpOnly ==
  /\ net = "up"
  /\ remote' = IF machine.addr THEN remote ELSE [remote EXCEPT !["net"] = "check"]
  /\ net' = "OK"
  /\ Networking /\ UNCHANGED <<addr, dropbear>>

NetUp ==
  /\ net = "up"
  /\ remote' = [remote EXCEPT !["net"] = "check"] /\ net' = "OK"
  /\ Networking /\ UNCHANGED <<addr, dropbear>>

(* Somebody runs xbox-remote-up in the terminal.                           *)
UserAsks ==
  /\ session = "up" /\ remote["user"] = "off"
  /\ remote' = [remote EXCEPT !["user"] = "check"]
  /\ Networking /\ UNCHANGED <<net, addr, dropbear>>

RemoteCheck(i) ==
  /\ remote[i] = "check"
  /\ remote' = [remote EXCEPT ![i] =
                  CASE ~machine.line.remote -> "DISABLED"
                    [] machine.line.remote /\ ~Readable(Dropbear) -> "NO_DROPBEAR"
                    [] machine.line.remote /\ Readable(Dropbear) /\ dropbear ->
                         "ALREADY_RUNNING"
                    [] machine.line.remote /\ Readable(Dropbear) /\ ~dropbear ->
                         IF addr THEN "start" ELSE "NO_ADDRESS"]
  /\ Networking /\ UNCHANGED <<net, addr, dropbear>>

(* The one of two that comes second finds the port taken.                  *)
RemoteStart(i) ==
  /\ remote[i] = "start"
  /\ dropbear' = TRUE
  /\ remote' = [remote EXCEPT ![i] = IF dropbear THEN "START_FAILED" ELSE "SSH_OK"]
  /\ Networking /\ UNCHANGED <<net, addr>>

-----------------------------------------------------------------------------
InitStep ==
  \/ ListDrives \/ TryDrive \/ NextScan \/ ProbeDisks \/ WaitForDisk \/ MountDisk
  \/ UnpackCore \/ LoadNext \/ LoadDone
  \/ CopyNext \/ CopyFails \/ CopyMissing \/ StartDesktop \/ LauncherReturns
ReleaseStep == MissingSource \/ RemoveCopy \/ RestoreLink \/ FinishRelease
NetStep == NetBegins \/ Dhcp \/ NetUp
RemoteStep == \E i \in {"net", "user"} : RemoteCheck(i) \/ RemoteStart(i)

GuestNext ==
  \/ InitStep \/ ReleaseStep \/ NetStep \/ RemoteStep
  \/ XStarts \/ SessionEnds \/ BeginRelease \/ UserAsks
  \/ \E d \in Device : Attach(d)

(* The scripts run on; nothing is assumed of the drives, of X or of what   *)
(* its user does.                                                          *)
GuestFairness ==
  /\ WF_guestVars(InitStep) /\ WF_guestVars(ReleaseStep)
  /\ WF_guestVars(NetStep) /\ WF_guestVars(RemoteStep)

(* The guest by itself: any payload that names each extension once and has *)
(* a file for it, under its name or under its name in small letters.       *)
IsPayload(f) ==
  /\ f.order \in Seq(Ext) /\ IsInjective(f.order)
  /\ \A n \in DOMAIN f.body : f.body[n] \in {"torn", "whole"}
  /\ \A e \in ToSet(f.order) : {e, LowerCase[e]} \cap DOMAIN f.body # {}
GuestStart == \E kind \in Kind : Boot(kind, files') /\ IsPayload(files')
GuestSpec == GuestInit /\ [][GuestStart \/ GuestNext]_guestVars

-----------------------------------------------------------------------------
Settled == {"no payload", "no core", "no hot set", "desktop", "desktop over"}
PathState == [kind : {"none", "file", "link", "copy"}, ext : Ext \cup {NoExt}]

GuestTypeOK ==
  /\ machine \in Machine /\ IsPayload(files)
  /\ init \in Settled \cup {"off", "list", "scan", "probe", "wait", "unpack", "load", "copy"}
  /\ attached \subseteq Device /\ nodes \subseteq attached /\ inTime \subseteq attached
  /\ disk \in Device \cup {NoDisk} /\ (init = "wait" => disk \in Device)
  /\ rest \in Seq(Device \cup {NoDisk}) /\ tried \subseteq Device \cup {NoDisk}
  /\ tries \in 0..MaxTries
  /\ todo \in Seq(Ext) /\ loaded \subseteq dirs /\ dirs \subseteq Ext
  /\ view \in [Path -> PathState] /\ record \in Seq(Path \X Ext)
  /\ session \in {"off", "starting", "up", "over", "failed"}
  /\ release \in {"off", "next", "link", "OK", "FAILED"} /\ lost \subseteq Path
  /\ left \in Seq(Path \X Ext) /\ (release = "link" => left # <<>>)
  /\ net \in {"off", "begun", "dhcp", "up", "OK", "failed", "no eth0"}
  /\ addr \in BOOLEAN /\ dropbear \in BOOLEAN

(* Where the script would come to a drive that is there.                   *)
Reachable(d) == d \in Matching \/ d \in ToSet(FallbackOrder)

(* Init gives up on the disc only after all its scans, and when no drive   *)
(* there at the beginning of the last one held it; on the disk of stage 7, *)
(* only when that disk, waited for to the end, had no node or no payload.  *)
GivenUpJustified ==
  init = "no payload" =>
    IF disk = NoDisk
      THEN tries = MaxTries /\ (machine.binds => \A d \in inTime : Reachable(d) => ~Holds(d))
      ELSE tries = MaxTries \/ machine.drive[disk] # "payload"

(* With every extension whole, the desktop has those the payload lists     *)
(* first, as many as there are loop devices, whatever the medium made of   *)
(* their names: what is missing is missing from the end.                   *)
WholePayloadLoads ==
  (init \in {"copy", "desktop"} /\ \A n \in DOMAIN files.body : files.body[n] = "whole")
    => loaded = {files.order[i] : i \in DOMAIN files.order \cap 1..machine.loops}

(* Which of the mounted extensions in a list have the path.                *)
Having(list, p) == {i \in DOMAIN list : list[i] \in loaded /\ p \in Provides[list[i]]}

(* What a path would read if nothing had been copied: the file linked last.*)
Winner(p) ==
  IF Having(files.order, p) = {} THEN NoExt ELSE files.order[Max(Having(files.order, p))]

(* What it shall read: the file copied last, if there is one.  The fixed   *)
(* list of the hot set and the order of the payload need not agree.        *)
Expected(p) ==
  IF machine.line.hotset /\ Having(HotOrder, p) # {}
    THEN HotOrder[Max(Having(HotOrder, p))] ELSE Winner(p)

(* The release has been at an entry of the path before.                    *)
Relinked(p) == \E i \in 1..(Len(record) - Len(left)) : record[i][1] = p

(* The release does not change what a program reads: at every moment under *)
(* the desktop each path has the file it is expected to have, but for the  *)
(* one path between its rm and its ln, for those that were reported, and   *)
(* for one that two extensions of the hot set have, which reads that of    *)
(* the first, through a link, until the second is linked.                  *)
PathsReadRight ==
  init \in {"desktop", "desktop over"} =>
    \A p \in Path : (p \in CorePaths \/ Expected(p) # NoExt) =>
      \/ Readable(p) /\ view[p].ext = Expected(p)
      \/ release = "link" /\ Head(left)[1] = p
      \/ p \in lost
      \/ /\ Relinked(p) /\ \E i \in DOMAIN left : left[i][1] = p
         /\ view[p].kind = "link" /\ p \in Provides[view[p].ext]

(* After XBOX_X_HOTSET_RELEASE_OK the memory is given back and nothing is  *)
(* missing: every path reads what it did, and none is a copy.              *)
ReleaseTellsTheTruth ==
  release = "OK" =>
    \A p \in Path :
      /\ view[p].kind # "copy"
      /\ view[p].ext = Expected(p)
      /\ (p \in CorePaths \/ Expected(p) # NoExt) => Readable(p)

(* Init ends in the desktop or in a shell, whatever the drives do.         *)
BootEnds == (init # "off") ~> (init \in Settled)

(* With remote diagnostics asked for and Dropbear loaded, an address is    *)
(* enough: the daemon comes to run, whoever else starts it meanwhile.      *)
RemoteComesUp ==
  (init = "desktop" /\ machine.line.remote /\ addr /\ Readable(Dropbear)) ~> dropbear
=============================================================================
