-------------------------- MODULE RwSafetyGateProofs --------------------------
(* The smoke guest and the gate around it, for every number of remount     *)
(* attempts and every number of boots by hand.                             *)
EXTENDS RwSafetyGate, ExtRootProofs

-----------------------------------------------------------------------------
(* The guest.  What each point of its scripts owes to those before it.     *)

On == pc # "off"
Before == {"kernel", "check", "marker", "normal", "sync markers"}
Trying == Before \cup {"status", "sync status", "remount"}
Markers(files) == files[Marker] = "text" /\ files[Normal] = "text"
Plain(files) ==
  files[Marker] \in {"absent", "text"} /\ files[Normal] \in {"absent", "text"}
FoundNone == found[Marker] = "absent" \/ found[Normal] = "absent"

GuestTypeInv ==
  /\ TypeOK
  /\ Plain(disk.files) /\ Plain(cache.files)
  /\ pc \in Trying => attempt <= MaxAttempts
StartInv ==
  /\ pc \in {"off", "kernel"} => mode = "off" /\ cache = disk
  /\ pc \in Before => said = {} /\ phase = "INCOMPLETE"
  /\ pc = "check" => cache.files = found
MarkerInv ==
  /\ pc \in {"marker", "normal", "sync markers"} => FoundNone
  /\ pc \in {"normal", "sync markers"} => cache.files[Marker] = "text"
  /\ pc = "sync markers" => cache.files[Normal] = "text"
PhaseInv ==
  On /\ pc \notin Before =>
    /\ phase = "FIRST_BOOT_WRITE_OK" =>
         FoundNone /\ Markers(disk.files) /\ Markers(cache.files)
    /\ phase = "SECOND_BOOT_PERSISTENCE_OK" => Markers(found)
    /\ "FIRST_BOOT_PASS" \in said => phase = "FIRST_BOOT_WRITE_OK"
    /\ "SECOND_BOOT_PASS" \in said => phase = "SECOND_BOOT_PERSISTENCE_OK"
EndInv ==
  /\ pc \in {"sync status", "remount"} => cache.files[Status] = "OK"
  /\ On /\ "ROOT_REMOUNT_RO_OK" \in said => pc = "safe"
  /\ pc = "safe" => Quiescent /\ disk.files[Status] = "OK"
  /\ pc = "sync failed" => cache.files[Status] = "FAILED"
  /\ pc = "stuck" => cache.files[Status] = "FAILED" /\ disk.files[Status] = "FAILED"

GuestInv == GuestTypeInv /\ StartInv /\ MarkerInv /\ PhaseInv /\ EndInv

LEMMA GuestInvInit == Init => GuestInv
<1> SUFFICES ASSUME Init PROVE GuestInv
  OBVIOUS
<1> USE SmokeAssumption, ImageAssumption
<1>1. GuestTypeInv
  <2>1. disk = [files |-> FirstImage, mounts |-> 0] /\ cache = disk
    BY DEF Init, RootInit
  <2>2. disk \in Image /\ disk.files = FirstImage
    BY <2>1 DEF Image
  <2>3. RootTypeOK /\ Plain(disk.files) /\ Plain(cache.files)
    BY <2>1, <2>2 DEF Init, RootInit, RootTypeOK, Plain
  <2>4. /\ pc \in PC /\ phase \in Phase /\ attempt \in 1..(MaxAttempts + 1)
        /\ said \subseteq Line /\ found \in [File -> Content] /\ boots \in 0..MaxBoots
        /\ pc \notin Trying
    BY DEF Init, PC, Phase, Line, Trying, Before
  <2> QED  BY <2>3, <2>4 DEF GuestTypeInv, TypeOK
<1>2. StartInv /\ MarkerInv /\ PhaseInv /\ EndInv
  BY DEF Init, RootInit, StartInv, MarkerInv, PhaseInv, EndInv, On, Before
<1> QED  BY <1>1, <1>2 DEF GuestInv

-----------------------------------------------------------------------------
(* One lemma for each step of the guest.                                   *)

LEMMA KeepsPowerOn == ASSUME GuestInv, PowerOn PROVE GuestInv'
<1> USE SmokeAssumption
<1>1. /\ pc = "off" /\ boots < MaxBoots /\ pc' = "kernel" /\ phase' = "INCOMPLETE"
      /\ attempt' = 1 /\ said' = {} /\ boots' = boots + 1
      /\ UNCHANGED <<disk, cache, mode, damaged, found>>
  BY DEF PowerOn, root
<1>2. GuestTypeInv'
  BY <1>1 DEF GuestInv, GuestTypeInv, TypeOK, RootTypeOK, PC, Phase, Plain, Image
<1> QED
  BY <1>1, <1>2
     DEF GuestInv, StartInv, MarkerInv, PhaseInv, EndInv, On, Before

LEMMA KeepsPowerOff == ASSUME GuestInv, PowerOff PROVE GuestInv'
<1>1. /\ pc' = "off" /\ mode' = "off" /\ cache' = disk /\ disk' = disk
      /\ damaged' \in {damaged, TRUE}
      /\ UNCHANGED <<phase, attempt, said, found, boots>>
  BY DEF PowerOff, Stop
<1>2. GuestTypeInv'
  BY <1>1 DEF GuestInv, GuestTypeInv, TypeOK, RootTypeOK, PC, Plain, Trying, Before
<1> QED
  BY <1>1, <1>2
     DEF GuestInv, StartInv, MarkerInv, PhaseInv, EndInv, On, Before

LEMMA KeepsSwitchRoot == ASSUME GuestInv, SwitchRoot PROVE GuestInv'
<1>1. /\ pc = "kernel" /\ pc' = "check" /\ found' = disk.files /\ mode' = "rw"
      /\ cache' = [files |-> disk.files, mounts |-> disk.mounts + 1]
      /\ UNCHANGED <<disk, damaged, phase, attempt, said, boots>>
  BY DEF SwitchRoot, MountRw
<1>2. cache'.files = disk.files
  BY <1>1
<1>3. disk.files \in [File -> Content] /\ cache' \in Image
  BY <1>1, RootFacts DEF Image, GuestInv, GuestTypeInv, TypeOK
<1>4. GuestTypeInv'
  BY <1>1, <1>2, <1>3
     DEF GuestInv, GuestTypeInv, TypeOK, RootTypeOK, PC, Plain, Trying, Before
<1> QED
  BY <1>1, <1>2, <1>4
     DEF GuestInv, StartInv, MarkerInv, PhaseInv, EndInv, On, Before

LEMMA KeepsCheckMarkers == ASSUME GuestInv, CheckMarkers PROVE GuestInv'
<1>1. /\ pc = "check"
      /\ UNCHANGED <<disk, cache, mode, damaged, attempt, said, found, boots>>
      /\ \/ /\ phase' = "SECOND_BOOT_PERSISTENCE_OK" /\ pc' = "status"
            /\ cache.files[Marker] # "absent" /\ cache.files[Normal] # "absent"
         \/ /\ phase' = phase /\ pc' = "marker"
            /\ cache.files[Marker] = "absent" \/ cache.files[Normal] = "absent"
  BY DEF CheckMarkers, root
<1>2. GuestTypeInv'
  BY <1>1
     DEF GuestInv, GuestTypeInv, TypeOK, RootTypeOK, Image, PC, Phase, Plain, Trying, Before
<1> QED
  BY <1>1, <1>2
     DEF GuestInv, GuestTypeInv, StartInv, MarkerInv, PhaseInv, EndInv, On, Before, Plain,
         Markers, FoundNone

(* A step that writes one file and goes on.                                *)
LEMMA KeepsPut ==
  ASSUME GuestInv, WriteMarker \/ WriteNormal \/ WriteStatus \/ WriteFailed
  PROVE  GuestInv'
<1> USE SmokeAssumption
<1>0. RootTypeOK /\ GuestTypeInv
  BY DEF GuestInv, GuestTypeInv, TypeOK
<1>1. CASE WriteMarker
  <2>1. /\ pc = "marker" /\ Put(Marker, "text") /\ pc' = "normal"
        /\ UNCHANGED <<phase, attempt, said, found, boots>>
    BY <1>1 DEF WriteMarker
  <2>2. /\ RootTypeOK' /\ disk' = disk /\ cache'.files[Marker] = "text"
        /\ cache'.files[Normal] = cache.files[Normal]
    BY <1>0, <2>1, PutFacts
  <2>3. GuestTypeInv'
    BY <1>0, <2>1, <2>2 DEF GuestTypeInv, TypeOK, PC, Plain, Trying, Before
  <2> QED
    BY <2>1, <2>2, <2>3
       DEF GuestInv, StartInv, MarkerInv, PhaseInv, EndInv, On, Before, FoundNone
<1>2. CASE WriteNormal
  <2>1. /\ pc = "normal" /\ Put(Normal, "text") /\ pc' = "sync markers"
        /\ UNCHANGED <<phase, attempt, said, found, boots>>
    BY <1>2 DEF WriteNormal
  <2>2. /\ RootTypeOK' /\ disk' = disk /\ cache'.files[Normal] = "text"
        /\ cache'.files[Marker] = cache.files[Marker]
    BY <1>0, <2>1, PutFacts
  <2>3. GuestTypeInv'
    BY <1>0, <2>1, <2>2 DEF GuestTypeInv, TypeOK, PC, Plain, Trying, Before
  <2> QED
    BY <2>1, <2>2, <2>3
       DEF GuestInv, StartInv, MarkerInv, PhaseInv, EndInv, On, Before, FoundNone
<1>3. CASE WriteStatus
  <2>1. /\ pc = "status" /\ Put(Status, "OK") /\ pc' = "sync status"
        /\ UNCHANGED <<phase, attempt, said, found, boots>>
    BY <1>3 DEF WriteStatus
  <2>2. /\ RootTypeOK' /\ disk' = disk /\ cache'.files[Status] = "OK"
        /\ cache'.files[Marker] = cache.files[Marker]
        /\ cache'.files[Normal] = cache.files[Normal]
    BY <1>0, <2>1, PutFacts
  <2>3. GuestTypeInv'
    BY <1>0, <2>1, <2>2 DEF GuestTypeInv, TypeOK, PC, Plain, Trying, Before
  <2> QED
    BY <2>1, <2>2, <2>3
       DEF GuestInv, StartInv, MarkerInv, PhaseInv, EndInv, On, Before, FoundNone, Markers
<1>4. CASE WriteFailed
  <2>1. /\ pc = "failed" /\ Put(Status, "FAILED") /\ pc' = "sync failed"
        /\ said' = said \cup {"ROOT_REMOUNT_RO_FAILED"}
        /\ UNCHANGED <<phase, attempt, found, boots>>
    BY <1>4 DEF WriteFailed
  <2>2. /\ RootTypeOK' /\ disk' = disk /\ cache'.files[Status] = "FAILED"
        /\ cache'.files[Marker] = cache.files[Marker]
        /\ cache'.files[Normal] = cache.files[Normal]
    BY <1>0, <2>1, PutFacts
  <2>3. GuestTypeInv'
    BY <1>0, <2>1, <2>2 DEF GuestTypeInv, TypeOK, PC, Plain, Trying, Before, Line
  <2> QED
    BY <2>1, <2>2, <2>3
       DEF GuestInv, StartInv, MarkerInv, PhaseInv, EndInv, On, Before, FoundNone, Markers
<1> QED  BY <1>1, <1>2, <1>3, <1>4

(* A step after which everything written is on the disk.                   *)
LEMMA KeepsSync ==
  ASSUME GuestInv, SyncMarkers \/ SyncStatus \/ RemountRefused \/ SyncFailed
  PROVE  GuestInv'
<1> USE SmokeAssumption
<1>0. disk' = cache /\ UNCHANGED <<cache, mode, damaged, said, found, boots>>
  BY DEF SyncMarkers, SyncStatus, RemountRefused, SyncFailed, Sync
<1>1. /\ \/ pc = "sync markers" /\ pc' = "status" /\ phase' = "FIRST_BOOT_WRITE_OK"
            /\ attempt' = attempt
         \/ pc = "sync status" /\ pc' = "remount" /\ phase' = phase /\ attempt' = attempt
         \/ /\ pc = "remount" /\ phase' = phase /\ attempt' = attempt + 1
            /\ \/ pc' = "remount" /\ attempt < MaxAttempts
               \/ pc' = "failed"
         \/ pc = "sync failed" /\ pc' = "stuck" /\ phase' = phase /\ attempt' = attempt
  BY DEF SyncMarkers, SyncStatus, RemountRefused, SyncFailed
<1>2. GuestTypeInv'
  <2>1. /\ attempt \in 1..(MaxAttempts + 1) /\ MaxAttempts \in Nat
        /\ pc \in Trying => attempt <= MaxAttempts
    BY DEF GuestInv, GuestTypeInv, TypeOK
  <2>2. /\ attempt' \in 1..(MaxAttempts + 1)
        /\ pc' \in Trying => attempt' <= MaxAttempts
    <3>1. CASE attempt' = attempt /\ (pc' \in Trying => pc \in Trying)
      BY <2>1, <3>1
    <3>2. CASE pc = "remount" /\ pc' = "remount" /\ attempt < MaxAttempts /\ attempt' = attempt + 1
      BY <2>1, <3>2
    <3>3. CASE pc = "remount" /\ pc' = "failed" /\ attempt' = attempt + 1
      <4>1. pc \in Trying /\ pc' \notin Trying
        BY <3>3 DEF Trying, Before
      <4> QED  BY <2>1, <3>3, <4>1
    <3> QED  BY <1>1, <3>1, <3>2, <3>3 DEF Trying, Before
  <2>3. pc' \in PC
    BY <1>1 DEF PC
  <2>4. phase' \in Phase
    BY <1>1 DEF Phase, GuestInv, GuestTypeInv, TypeOK
  <2> QED
    BY <1>0, <2>2, <2>3, <2>4 DEF GuestInv, GuestTypeInv, TypeOK, RootTypeOK, Plain
<1>3. StartInv' /\ MarkerInv' /\ EndInv'
  BY <1>0, <1>1 DEF GuestInv, StartInv, MarkerInv, EndInv, On, Before
<1>4. PhaseInv'
  BY <1>0, <1>1 DEF GuestInv, StartInv, MarkerInv, PhaseInv, On, Before, FoundNone, Markers
<1> QED  BY <1>2, <1>3, <1>4 DEF GuestInv

LEMMA KeepsRemountWorks == ASSUME GuestInv, RemountWorks PROVE GuestInv'
<1>1. /\ pc = "remount" /\ pc' = "safe" /\ disk' = cache /\ mode' = "ro"
      /\ said' = said \cup {"ROOT_REMOUNT_RO_OK", PassLine}
      /\ UNCHANGED <<cache, damaged, phase, attempt, found, boots>>
  BY DEF RemountWorks, RemountRo
<1>2. /\ PassLine \in Line
      /\ PassLine = "FIRST_BOOT_PASS" => phase = "FIRST_BOOT_WRITE_OK"
      /\ PassLine = "SECOND_BOOT_PASS" => phase = "SECOND_BOOT_PERSISTENCE_OK"
  BY DEF PassLine, Line, GuestInv, GuestTypeInv, TypeOK, Phase
<1>3. GuestTypeInv'
  BY <1>1, <1>2
     DEF GuestInv, GuestTypeInv, TypeOK, RootTypeOK, PC, Line, Plain, Trying, Before
<1>4. StartInv' /\ MarkerInv' /\ EndInv'
  BY <1>1 DEF GuestInv, StartInv, MarkerInv, EndInv, On, Before, Quiescent
<1>5. PhaseInv'
  BY <1>1, <1>2 DEF GuestInv, PhaseInv, On, Before, FoundNone, Markers
<1> QED  BY <1>3, <1>4, <1>5 DEF GuestInv

LEMMA KeepsWriteFails == ASSUME GuestInv, WriteFails PROVE GuestInv'
<1>1. /\ pc \in {"marker", "normal"} /\ pc' = "status"
      /\ UNCHANGED <<disk, cache, mode, damaged, phase, attempt, said, found, boots>>
  BY DEF WriteFails, root
<1>2. GuestTypeInv'
  BY <1>1 DEF GuestInv, GuestTypeInv, TypeOK, RootTypeOK, PC, Plain, Trying, Before, Image
<1> QED
  BY <1>1, <1>2
     DEF GuestInv, StartInv, MarkerInv, PhaseInv, EndInv, On, Before

LEMMA KeepsWriteback == ASSUME GuestInv, KernelStep PROVE GuestInv'
<1> USE SmokeAssumption
<1>1. /\ RootTypeOK' /\ mode = "rw" /\ cache' = cache /\ mode' = mode
      /\ disk'.files[Marker] \in {disk.files[Marker], cache.files[Marker]}
      /\ disk'.files[Normal] \in {disk.files[Normal], cache.files[Normal]}
      /\ disk'.files[Status] \in {disk.files[Status], cache.files[Status]}
      /\ UNCHANGED <<pc, phase, attempt, said, found, boots>>
  BY WritebackFacts DEF KernelStep, guest, GuestInv, GuestTypeInv, TypeOK
<1>2. GuestTypeInv'
  BY <1>1 DEF GuestInv, GuestTypeInv, TypeOK, Plain
<1>3. StartInv' /\ MarkerInv' /\ EndInv'
  BY <1>1 DEF GuestInv, StartInv, MarkerInv, EndInv, On, Before, Quiescent, FoundNone
<1>4. PhaseInv'
  BY <1>1 DEF GuestInv, PhaseInv, On, Before, FoundNone, Markers
<1> QED  BY <1>2, <1>3, <1>4 DEF GuestInv

LEMMA GuestInvStep == GuestInv /\ [Next]_vars => GuestInv'
<1> SUFFICES ASSUME GuestInv, [Next]_vars PROVE GuestInv'
  OBVIOUS
<1>1. CASE UNCHANGED vars
  <2>1. UNCHANGED <<disk, cache, mode, damaged, pc, phase, attempt, said, found, boots>>
    BY <1>1 DEF vars, root, guest
  <2>2. GuestTypeInv'
    BY <2>1 DEF GuestInv, GuestTypeInv, TypeOK, RootTypeOK, Plain
  <2>3. StartInv' /\ MarkerInv' /\ EndInv'
    BY <2>1 DEF GuestInv, StartInv, MarkerInv, EndInv, FoundNone, On, Quiescent
  <2>4. PhaseInv'
    BY <2>1 DEF GuestInv, PhaseInv, FoundNone, On, Markers
  <2> QED  BY <2>2, <2>3, <2>4 DEF GuestInv
<1> QED
  BY <1>1, KeepsPowerOn, KeepsPowerOff, KeepsSwitchRoot, KeepsCheckMarkers, KeepsPut,
     KeepsSync, KeepsRemountWorks, KeepsWriteFails, KeepsWriteback
     DEF Next, GuestStep

LEMMA GuestInvMeans == GuestInv => SafeMeansSafe /\ BannersTellTheTruth
BY DEF GuestInv, StartInv, PhaseInv, EndInv, SafeMeansSafe, BannersTellTheTruth, On,
       Before, Markers, FoundNone

-----------------------------------------------------------------------------
(* The gate only switches the machine on and off and looks.                *)

LEMMA GateStepsAreGuestSteps == [GateNext]_gateVars => [Next]_vars
BY DEF GateNext, gateVars, Next, HostStep, WatchEnds, StartXemu, SeeLinux, StopXemu,
       TimesOut, XemuExits, KillXemu, Check, ByHand

LEMMA GuestInvInGate == GateSpec => []GuestInv
<1>1. GateInit => GuestInv
  BY GuestInvInit DEF GateInit
<1>2. GuestInv /\ [GateNext]_gateVars => GuestInv'
  BY GuestInvStep, GateStepsAreGuestSteps
<1> QED  BY <1>1, <1>2, PTL DEF GateSpec

(* Once the console says that switching off is safe, it is: whatever the   *)
(* kernel wrote back, and however often earlier boots were cut short.      *)
THEOREM SafeLineIsTrue == GateSpec => []SafeMeansSafe
BY GuestInvInGate, GuestInvMeans, PTL

(* The banners of the first and the second boot are true of the disk,      *)
(* whatever boot of however many puts them on the console.                 *)
THEOREM BannersAreTrue == GateSpec => []BannersTellTheTruth
BY GuestInvInGate, GuestInvMeans, PTL

(* The script: the failure of a boot is still on the disk when the image   *)
(* is inspected, and a second mount is the only thing that moves the mount *)
(* count of an accepted image.                                             *)
HostInv ==
  /\ counts \in Seq(Nat) /\ Len(counts) <= BootCount
  /\ ends \in Seq([pc : PC, mode : {"off", "rw", "ro"}])
  /\ hpc \in {"boot", "watch", "check", "done", "by hand"} /\ seen \in BOOLEAN
  /\ outcome \in {"none", "passed", "thrown"}
  /\ hpc \in {"boot", "watch", "check"} => Len(counts) < BootCount
  /\ hpc \in {"boot", "check", "done"} => pc = "off"
  /\ hpc = "watch" => pc # "off"
  /\ outcome # "none" => hpc = "done"
NoneStuck == \A i \in 1..Len(ends) : ends[i].pc # "stuck"
EndsInv ==
  /\ hpc \in {"boot", "watch"} \/ outcome = "passed" => NoneStuck
  /\ hpc = "check" /\ disk.files[Status] # "FAILED" => NoneStuck
PersistInv ==
  /\ Len(counts) = 1 =>
       /\ hpc = "boot" \/ (hpc = "watch" /\ pc = "kernel") =>
            disk.mounts = counts[1] /\ Markers(disk.files)
       /\ hpc = "watch" /\ pc # "kernel" => Markers(found)
       /\ hpc = "check" => Markers(found) \/ disk.mounts = counts[1]
  /\ PassedMeansPersisted

GateInv == GuestInv /\ HostInv /\ EndsInv /\ PersistInv

LEMMA GateInvInit == GateInit => GateInv
<1> SUFFICES ASSUME GateInit PROVE GateInv
  OBVIOUS
<1>1. GuestInv
  BY GuestInvInit DEF GateInit
<1>2. counts = <<>> /\ ends = <<>>
  BY DEF GateInit
<1>3. Len(counts) = 0 /\ counts \in Seq(Nat)
  BY <1>2
<1>4. Len(ends) = 0 /\ ends \in Seq([pc : PC, mode : {"off", "rw", "ro"}])
  BY <1>2
<1>5. outcome = "none" /\ pc = "off" /\ hpc \in {"boot", "by hand"} /\ seen = FALSE
  BY DEF GateInit, Init
<1>6. 0 <= BootCount /\ 0 < BootCount
  BY GateAssumption
<1>7. HostInv
  BY <1>3, <1>4, <1>5, <1>6 DEF HostInv
<1>8. NoneStuck
  BY <1>4 DEF NoneStuck
<1>9. EndsInv
  BY <1>8 DEF EndsInv
<1>10. Len(counts) # 1
  BY <1>3
<1>11. PersistInv
  BY <1>5, <1>10 DEF PersistInv, PassedMeansPersisted
<1> QED  BY <1>1, <1>7, <1>9, <1>11 DEF GateInv

(* A machine that is off stands still, and one that starts has its disk    *)
(* mounted before anything else happens to it.                             *)
LEMMA StillStanding ==
  ASSUME GuestInv, GuestStep \/ KernelStep
  PROVE  /\ pc # "off" /\ pc' # "off"
         /\ SwitchRoot \/ (pc # "kernel" /\ pc' # "kernel" /\ found' = found)
<1>1. KernelStep => mode = "rw" /\ UNCHANGED guest
  BY DEF KernelStep, Writeback
<1>2. KernelStep => pc \notin {"off", "kernel"} /\ pc' = pc /\ found' = found
  BY <1>1 DEF GuestInv, StartInv, guest
<1> QED
  BY <1>2
     DEF GuestStep, SwitchRoot, CheckMarkers, WriteMarker, WriteNormal, WriteFails,
         SyncMarkers, WriteStatus, SyncStatus, RemountWorks, RemountRefused, WriteFailed,
         SyncFailed

LEMMA KeepsGuestStep ==
  ASSUME GateInv, GuestStep \/ KernelStep, UNCHANGED host
  PROVE  (HostInv /\ EndsInv /\ PersistInv)'
<1>1. UNCHANGED <<hpc, seen, counts, outcome, ends>>
  BY DEF host
<1>2. /\ pc # "off" /\ pc' # "off"
      /\ SwitchRoot \/ (pc # "kernel" /\ pc' # "kernel" /\ found' = found)
  BY StillStanding DEF GateInv
<1>3. hpc \in {"watch", "by hand"} /\ outcome = "none"
  BY <1>2 DEF GateInv, HostInv
<1>4. HostInv' /\ EndsInv'
  BY <1>1, <1>2, <1>3 DEF GateInv, HostInv, EndsInv, NoneStuck
<1>5. PersistInv'
  <2>1. SwitchRoot => pc = "kernel" /\ pc' = "check" /\ found' = disk.files
    BY DEF SwitchRoot
  <2> QED
    BY <1>1, <1>2, <1>3, <2>1 DEF GateInv, PersistInv, PassedMeansPersisted, Markers
<1> QED  BY <1>4, <1>5

LEMMA KeepsByHand ==
  ASSUME GateInv, ByHand(PowerOn) \/ ByHand(PowerOff)
  PROVE  (HostInv /\ EndsInv /\ PersistInv)'
<1>1. hpc = "by hand" /\ UNCHANGED <<hpc, seen, counts, outcome, ends>>
  BY DEF ByHand, host
<1> QED
  BY <1>1
     DEF GateInv, HostInv, EndsInv, NoneStuck, PersistInv, PassedMeansPersisted

LEMMA KeepsStartXemu == ASSUME GateInv, StartXemu PROVE (HostInv /\ EndsInv /\ PersistInv)'
<1>1. /\ hpc = "boot" /\ hpc' = "watch" /\ pc' = "kernel" /\ seen' = FALSE
      /\ UNCHANGED <<disk, found, counts, outcome, ends>>
  BY DEF StartXemu, PowerOn, root
<1> QED
  BY <1>1
     DEF GateInv, HostInv, EndsInv, NoneStuck, PersistInv, PassedMeansPersisted, Markers

LEMMA KeepsSeeLinux == ASSUME GateInv, SeeLinux PROVE (HostInv /\ EndsInv /\ PersistInv)'
<1>1. UNCHANGED <<disk, pc, found, hpc, counts, outcome, ends>> /\ seen' = TRUE
  BY DEF SeeLinux, vars, root, guest
<1> QED
  BY <1>1
     DEF GateInv, HostInv, EndsInv, NoneStuck, PersistInv, PassedMeansPersisted, Markers

(* xemu stops: where it was goes on record.                                *)
LEMMA KilledFacts ==
  ASSUME GateInv, KillXemu
  PROVE  /\ pc' = "off" /\ disk' = disk /\ found' = found
         /\ ends' \in Seq([pc : PC, mode : {"off", "rw", "ro"}])
         /\ (pc # "stuck" /\ NoneStuck) => NoneStuck'
<1> DEFINE end == [pc |-> pc, mode |-> mode]
<1>1. pc' = "off" /\ disk' = disk /\ found' = found /\ ends' = Append(ends, end)
  BY DEF KillXemu, PowerOff, Stop
<1>2. end \in [pc : PC, mode : {"off", "rw", "ro"}] /\ end.pc = pc
  BY DEF GateInv, GuestInv, GuestTypeInv, TypeOK, RootTypeOK
<1> HIDE DEF end
<1>3. ends \in Seq([pc : PC, mode : {"off", "rw", "ro"}])
  BY DEF GateInv, HostInv
<1>4. /\ ends' \in Seq([pc : PC, mode : {"off", "rw", "ro"}])
      /\ \A i \in 1..Len(ends') : ends'[i] = end \/ (i \in 1..Len(ends) /\ ends'[i] = ends[i])
  BY <1>1, <1>2, <1>3
<1> QED  BY <1>1, <1>2, <1>4 DEF NoneStuck

LEMMA KeepsWatchEnds ==
  ASSUME GateInv, WatchEnds \/ XemuExits
  PROVE  (HostInv /\ EndsInv /\ PersistInv)'
<1>1. /\ hpc = "watch" /\ KillXemu /\ UNCHANGED <<seen, counts>>
      /\ \/ hpc' = "check" /\ outcome' = outcome
         \/ hpc' = "done" /\ outcome' = "thrown"
  BY DEF WatchEnds, StopXemu, TimesOut, XemuExits
<1>2. /\ pc' = "off" /\ disk' = disk /\ found' = found
      /\ ends' \in Seq([pc : PC, mode : {"off", "rw", "ro"}])
      /\ (pc # "stuck" /\ NoneStuck) => NoneStuck'
  BY <1>1, KilledFacts
<1>3. NoneStuck /\ (pc = "stuck" => disk.files[Status] = "FAILED") /\ outcome = "none"
  BY <1>1 DEF GateInv, HostInv, EndsInv, GuestInv, EndInv
<1>4. HostInv'
  BY <1>1, <1>2, <1>3 DEF GateInv, HostInv
<1>5. EndsInv'
  BY <1>1, <1>2, <1>3 DEF EndsInv
<1>6. PersistInv'
  BY <1>1, <1>2, <1>3 DEF GateInv, PersistInv, PassedMeansPersisted, Markers
<1> QED  BY <1>4, <1>5, <1>6

(* Either something is amiss, or the count is noted and the next boot or   *)
(* the end follows.                                                        *)
LEMMA KeepsCheck == ASSUME GateInv, Check PROVE (HostInv /\ EndsInv /\ PersistInv)'
<1> DEFINE cs == Append(counts, disk.mounts)
<1>1. /\ hpc = "check" /\ UNCHANGED <<disk, pc, found, seen, ends>>
      /\ \/ hpc' = "done" /\ outcome' = "thrown" /\ counts' = counts
         \/ /\ Acceptable /\ counts' = cs
            /\ \/ Len(cs) < BootCount /\ hpc' = "boot" /\ outcome' = outcome
               \/ /\ ~ (Len(cs) < BootCount) /\ hpc' = "done"
                  /\ outcome' = IF CountsIncrease(cs) THEN "passed" ELSE "thrown"
  BY DEF Check, vars, root, guest
<1>2. pc = "off" /\ outcome = "none" /\ counts \in Seq(Nat) /\ Len(counts) < BootCount
  BY <1>1 DEF GateInv, HostInv
<1>3. disk.mounts \in Nat
  BY RootFacts DEF GateInv, GuestInv, GuestTypeInv, TypeOK
<1>4. /\ cs \in Seq(Nat) /\ Len(cs) = Len(counts) + 1 /\ cs[Len(cs)] = disk.mounts
      /\ \A i \in 1..Len(counts) : cs[i] = counts[i]
  BY <1>2, <1>3
<1> HIDE DEF cs
<1>5. Acceptable => Markers(disk.files) /\ NoneStuck
  BY <1>1 DEF Acceptable, Markers, GateInv, EndsInv
<1>6. CASE hpc' = "done" /\ outcome' = "thrown" /\ counts' = counts
  BY <1>1, <1>2, <1>6
     DEF GateInv, HostInv, EndsInv, PersistInv, PassedMeansPersisted
<1>7. CASE Acceptable /\ counts' = cs /\ Len(cs) < BootCount /\ hpc' = "boot" /\ outcome' = outcome
  <2>1. Len(cs) = 1 => cs[1] = disk.mounts
    BY <1>4
  <2>2. HostInv'
    BY <1>1, <1>2, <1>4, <1>7, GateAssumption DEF GateInv, HostInv
  <2>3. EndsInv'
    BY <1>1, <1>2, <1>5, <1>7 DEF EndsInv, NoneStuck
  <2>4. PersistInv'
    BY <1>1, <1>2, <1>5, <1>7, <2>1 DEF PersistInv, PassedMeansPersisted, Markers
  <2> QED  BY <2>2, <2>3, <2>4
<1>8. CASE /\ Acceptable /\ counts' = cs /\ ~ (Len(cs) < BootCount) /\ hpc' = "done"
           /\ outcome' = IF CountsIncrease(cs) THEN "passed" ELSE "thrown"
  <2>1. Len(cs) <= BootCount
    BY <1>2, <1>4, GateAssumption
  <2>2. HostInv' /\ EndsInv'
    BY <1>1, <1>2, <1>4, <1>5, <1>8, <2>1 DEF GateInv, HostInv, EndsInv, NoneStuck
  <2>3. BootCount = 2 /\ CountsIncrease(cs) => Markers(found)
    <3>1. SUFFICES ASSUME BootCount = 2, cs[2] > cs[1] PROVE Markers(found)
      BY DEF CountsIncrease
    <3>2. Len(counts) = 1 /\ Len(cs) = 2
      <4>1. Len(counts) \in Nat /\ Len(counts) < 2 /\ ~ (Len(counts) + 1 < 2)
        BY <1>2, <1>4, <1>8, <3>1
      <4>2. \A k \in Nat : k < 2 /\ ~ (k + 1 < 2) => k = 1 /\ k + 1 = 2
        OBVIOUS
      <4> QED  BY <1>4, <4>1, <4>2
    <3>3. cs[2] = disk.mounts /\ cs[1] = counts[1]
      BY <1>4, <3>2
    <3>4. disk.mounts # counts[1]
      BY <1>3, <3>1, <3>3
    <3> QED  BY <1>1, <3>2, <3>4 DEF GateInv, PersistInv
  <2>4. PersistInv'
    BY <1>1, <1>8, <2>3 DEF PersistInv, PassedMeansPersisted, Markers
  <2> QED  BY <2>2, <2>4
<1> QED  BY <1>1, <1>6, <1>7, <1>8

LEMMA GateInvStep == GateInv /\ [GateNext]_gateVars => GateInv'
<1> SUFFICES ASSUME GateInv, [GateNext]_gateVars PROVE GateInv'
  OBVIOUS
<1>1. GuestInv'
  BY GuestInvStep, GateStepsAreGuestSteps DEF GateInv
<1>2. CASE UNCHANGED gateVars
  <2>1. UNCHANGED <<disk, pc, found, hpc, seen, counts, outcome, ends>>
    BY <1>2 DEF gateVars, vars, root, guest, host
  <2> QED
    BY <1>1, <2>1
       DEF GateInv, HostInv, EndsInv, NoneStuck, PersistInv, PassedMeansPersisted, Markers
<1> QED
  BY <1>1, <1>2, KeepsGuestStep, KeepsByHand, KeepsStartXemu, KeepsSeeLinux,
     KeepsWatchEnds, KeepsCheck
     DEF GateInv, GateNext, HostStep

LEMMA GateInvHolds == GateSpec => []GateInv
BY GateInvInit, GateInvStep, PTL DEF GateSpec

(* Every reachable state of the guest and the gate is well-typed.          *)
THEOREM GateTypeCorrect == GateSpec => []GateTypeOK
<1>1. GateInv => GateTypeOK
  BY DEF GateInv, GuestInv, GuestTypeInv, HostInv, GateTypeOK
<1> QED  BY <1>1, GateInvHolds, PTL

(* A gate that passes has seen no boot that gave up remounting and wrote   *)
(* so: the status of the next boot cannot cover it.                        *)
THEOREM FailedRemountIsCaught == GateSpec => []GateCatchesFailedRemount
<1>1. GateInv => GateCatchesFailedRemount
  BY DEF GateInv, EndsInv, NoneStuck, GateCatchesFailedRemount
<1> QED  BY <1>1, GateInvHolds, PTL

(* A gate of two boots that passes had a second boot that mounted the      *)
(* image of the first and found both files.                                *)
THEOREM PassedGatePersisted == GateSpec => []PassedMeansPersisted
<1>1. GateInv => PassedMeansPersisted
  BY DEF GateInv, PersistInv
<1> QED  BY <1>1, GateInvHolds, PTL
==============================================================================
