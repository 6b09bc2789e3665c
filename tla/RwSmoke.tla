------------------------------- MODULE RwSmoke -------------------------------
(***************************************************************************)
(* The read-write smoke guest: xbox-init runs xbox-persist-smoke and then  *)
(* becomes xbox-sync-ro, which never returns.  Each action is one command  *)
(* of the scripts that changes the root or decides what comes next; the    *)
(* machine may stop between any two of them.  Spec is the guest on a       *)
(* console whose user switches it on and off at will.                      *)
(***************************************************************************)
EXTENDS ExtRoot

CONSTANTS
  Marker, Normal, Status,  \* the three files
  MaxAttempts,             \* 5: remount attempts of xbox-sync-ro
  MaxBoots                 \* bound: times the machine is switched on

(* The two marker files of an image hold what the script writes, if they   *)
(* are there.                                                              *)
ASSUME SmokeAssumption ==
  /\ {Marker, Normal, Status} = File
  /\ Marker # Normal /\ Marker # Status /\ Normal # Status
  /\ {"absent", "text", "PENDING", "OK", "FAILED"} = Content
  /\ FirstImage[Marker] \in {"absent", "text"}
  /\ FirstImage[Normal] \in {"absent", "text"}
  /\ MaxAttempts \in Nat \ {0} /\ MaxBoots \in Nat

VARIABLES
  pc,        \* what PID 1 does next; "off" when the machine is off
  phase,     \* XBOX_SMOKE_PHASE
  attempt,   \* remount attempts begun
  said,      \* the lines of this boot on the console that a reader acts upon
  found,     \* history: the files as this boot found them
  boots      \* times switched on

guest == <<pc, phase, attempt, said, found, boots>>
vars == <<root, guest>>

Phase == {"INCOMPLETE", "FIRST_BOOT_WRITE_OK", "SECOND_BOOT_PERSISTENCE_OK"}
Line == {"ROOT_REMOUNT_RO_OK", "FIRST_BOOT_PASS", "SECOND_BOOT_PASS",
         "PERSISTENCE_INCOMPLETE", "ROOT_REMOUNT_RO_FAILED"}
PC == {"off", "kernel", "check", "marker", "normal", "sync markers", "status",
       "sync status", "remount", "failed", "sync failed", "safe", "stuck"}

Init ==
  /\ RootInit
  /\ pc = "off" /\ phase = "INCOMPLETE" /\ attempt = 1 /\ said = {}
  /\ found = FirstImage /\ boots = 0

PowerOn ==
  /\ pc = "off" /\ boots < MaxBoots
  /\ pc' = "kernel" /\ phase' = "INCOMPLETE" /\ attempt' = 1 /\ said' = {}
  /\ boots' = boots + 1
  /\ UNCHANGED <<root, found>>

PowerOff ==
  /\ pc # "off"
  /\ pc' = "off"
  /\ Stop
  /\ UNCHANGED <<phase, attempt, said, found, boots>>

(* Kernel and stage 1: the root is mounted read-write and switched to.     *)
SwitchRoot ==
  /\ pc = "kernel"
  /\ MountRw
  /\ pc' = "check" /\ found' = disk.files
  /\ UNCHANGED <<phase, attempt, said, boots>>

-----------------------------------------------------------------------------
(* xbox-persist-smoke                                                      *)

(* Mutant: one of the two files is enough.                                 *)
CheckMarkersEither ==
  /\ pc = "check"
  /\ IF cache.files[Marker] # "absent" \/ cache.files[Normal] # "absent"
       THEN phase' = "SECOND_BOOT_PERSISTENCE_OK" /\ pc' = "status"
       ELSE pc' = "marker" /\ UNCHANGED phase
  /\ UNCHANGED <<root, attempt, said, found, boots>>

CheckMarkers ==
  /\ pc = "check"
  /\ IF cache.files[Marker] # "absent" /\ cache.files[Normal] # "absent"
       THEN phase' = "SECOND_BOOT_PERSISTENCE_OK" /\ pc' = "status"
       ELSE pc' = "marker" /\ UNCHANGED phase
  /\ UNCHANGED <<root, attempt, said, found, boots>>

(* A file is written beside its place and renamed into it.                 *)
WriteMarker ==
  /\ pc = "marker"
  /\ Put(Marker, "text")
  /\ pc' = "normal"
  /\ UNCHANGED <<phase, attempt, said, found, boots>>

WriteNormal ==
  /\ pc = "normal"
  /\ Put(Normal, "text")
  /\ pc' = "sync markers"
  /\ UNCHANGED <<phase, attempt, said, found, boots>>

(* Writing or renaming either file fails: the helper exits with a status.  *)
WriteFails ==
  /\ pc \in {"marker", "normal"}
  /\ pc' = "status"
  /\ UNCHANGED <<root, phase, attempt, said, found, boots>>

SyncMarkers ==
  /\ pc = "sync markers"
  /\ Sync
  /\ phase' = "FIRST_BOOT_WRITE_OK" /\ pc' = "status"
  /\ UNCHANGED <<attempt, said, found, boots>>

-----------------------------------------------------------------------------
(* xbox-sync-ro                                                            *)

WriteStatus ==
  /\ pc = "status"
  /\ Put(Status, "OK")
  /\ pc' = "sync status"
  /\ UNCHANGED <<phase, attempt, said, found, boots>>

SyncStatus ==
  /\ pc = "sync status"
  /\ Sync
  /\ pc' = "remount"
  /\ UNCHANGED <<phase, attempt, said, found, boots>>

PassLine ==
  CASE phase = "FIRST_BOOT_WRITE_OK"        -> "FIRST_BOOT_PASS"
    [] phase = "SECOND_BOOT_PERSISTENCE_OK" -> "SECOND_BOOT_PASS"
    [] OTHER                                -> "PERSISTENCE_INCOMPLETE"

(* Mutant: the root is taken for read-only without looking.                *)
RemountAssumed ==
  /\ pc = "remount"
  /\ Sync
  /\ pc' = "safe"
  /\ said' = said \cup {"ROOT_REMOUNT_RO_OK", PassLine}
  /\ UNCHANGED <<phase, attempt, found, boots>>

(* An attempt after which /proc/mounts shows the root read-only.           *)
RemountWorks ==
  /\ pc = "remount"
  /\ RemountRo
  /\ pc' = "safe"
  /\ said' = said \cup {"ROOT_REMOUNT_RO_OK", PassLine}
  /\ UNCHANGED <<phase, attempt, found, boots>>

(* Mutant: one attempt too many.                                           *)
RemountRefusedOnceMore ==
  /\ pc = "remount"
  /\ Sync
  /\ attempt' = attempt + 1
  /\ pc' = IF attempt <= MaxAttempts THEN "remount" ELSE "failed"
  /\ UNCHANGED <<phase, said, found, boots>>

(* One that leaves it writable: sync, wait, try again, five times.         *)
RemountRefused ==
  /\ pc = "remount"
  /\ Sync
  /\ attempt' = attempt + 1
  /\ pc' = IF attempt < MaxAttempts THEN "remount" ELSE "failed"
  /\ UNCHANGED <<phase, said, found, boots>>

(* Mutant: the status on disk stays as it is.                              *)
GiveUpSilently ==
  /\ pc = "failed"
  /\ pc' = "sync failed" /\ said' = said \cup {"ROOT_REMOUNT_RO_FAILED"}
  /\ UNCHANGED <<root, phase, attempt, found, boots>>

WriteFailed ==
  /\ pc = "failed"
  /\ Put(Status, "FAILED")
  /\ pc' = "sync failed" /\ said' = said \cup {"ROOT_REMOUNT_RO_FAILED"}
  /\ UNCHANGED <<phase, attempt, found, boots>>

SyncFailed ==
  /\ pc = "sync failed"
  /\ Sync
  /\ pc' = "stuck"
  /\ UNCHANGED <<phase, attempt, said, found, boots>>

-----------------------------------------------------------------------------
GuestStep ==
  \/ SwitchRoot \/ CheckMarkers \/ WriteMarker \/ WriteNormal \/ WriteFails
  \/ SyncMarkers \/ WriteStatus \/ SyncStatus \/ RemountWorks
  \/ RemountRefused \/ WriteFailed \/ SyncFailed

KernelStep == Writeback /\ UNCHANGED guest

Next == PowerOn \/ PowerOff \/ GuestStep \/ KernelStep

(* PID 1 runs as long as the machine does.                                 *)
Spec == Init /\ [][Next]_vars /\ WF_vars(GuestStep)

TypeOK ==
  /\ RootTypeOK
  /\ pc \in PC /\ phase \in Phase /\ attempt \in 1..(MaxAttempts + 1)
  /\ said \subseteq Line /\ found \in [File -> Content]
  /\ boots \in 0..MaxBoots

(* "It is now safer to power off or reset.": once the line is on the       *)
(* console nothing is dirty any more, the root is read-only and stays so,  *)
(* and the image says OK, so that switching off loses nothing.             *)
SafeMeansSafe ==
  (pc # "off" /\ "ROOT_REMOUNT_RO_OK" \in said) =>
    Quiescent /\ disk.files[Status] = "OK"

(* The banner of the second boot proves that an earlier boot had put both  *)
(* files on the disk; that of the first boot, that this one has.           *)
BannersTellTheTruth ==
  pc # "off" =>
    /\ "SECOND_BOOT_PASS" \in said =>
         found[Marker] = "text" /\ found[Normal] = "text"
    /\ "FIRST_BOOT_PASS" \in said =>
         /\ found[Marker] = "absent" \/ found[Normal] = "absent"
         /\ disk.files[Marker] = "text" /\ disk.files[Normal] = "text"

(* Every boot ends: read-only, or with the failure on disk, or switched    *)
(* off before.                                                             *)
SyncRoEnds ==
  pc = "kernel" ~> \/ pc \in {"safe", "off"}
                   \/ pc = "stuck" /\ disk.files[Status] = "FAILED"
=============================================================================
