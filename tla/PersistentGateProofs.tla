------------------------- MODULE PersistentGateProofs -------------------------
(* The persistent shell and the gate around it, for every number of        *)
(* remount attempts, whatever is typed, and whenever xemu stops.           *)
EXTENDS PersistentGate, ExtRootProofs

-----------------------------------------------------------------------------
(* The guest.                                                              *)

Trying ==
  {"kernel", "shell", "pending", "sync pending", "safe", "sync safe", "remount"}
GuestTypeInv == TypeOK /\ (pc \in Trying => attempt <= MaxAttempts)

(* What is on its way to the disk at each point of the shutdown script.    *)
StatusInv ==
  /\ pc \in {"sync safe", "remount"} => cache.files[Status] = "SAFE"
  /\ pc \in {"poweroff", "returned"} =>
       mode = "ro" /\ cache = disk /\ disk.files[Status] = "SAFE"
  /\ pc = "sync failed" => cache.files[Status] = "FAILED"
  /\ pc = "stuck" => cache.files[Status] = "FAILED" /\ disk.files[Status] = "FAILED"

GuestInv == GuestTypeInv /\ StatusInv

LEMMA GuestInvInit == ShellInit => GuestInv
<1> SUFFICES ASSUME ShellInit PROVE GuestInv
  OBVIOUS
<1>1. disk = [files |-> FirstImage, mounts |-> 0] /\ cache = disk
  BY DEF ShellInit, RootInit
<1>2. disk \in Image
  BY <1>1, ImageAssumption DEF Image
<1>3. RootTypeOK
  BY <1>1, <1>2 DEF ShellInit, RootInit, RootTypeOK
<1>4. /\ pc = "off" /\ pc \in PC /\ typed \subseteq Part /\ attempt \in 1..(MaxAttempts + 1)
      /\ pc \notin Trying
  BY ShellAssumption DEF ShellInit, PC, Trying
<1> QED  BY <1>3, <1>4 DEF GuestInv, GuestTypeInv, StatusInv, TypeOK

LEMMA KeepsPowerOn == ASSUME GuestInv, PowerOn PROVE GuestInv'
<1>1. /\ pc' = "kernel" /\ attempt' = 1 /\ typed' = {}
      /\ UNCHANGED <<disk, cache, mode, damaged>>
  BY DEF PowerOn, root
<1>2. attempt' \in 1..(MaxAttempts + 1) /\ attempt' <= MaxAttempts
  BY <1>1, ShellAssumption
<1>3. GuestTypeInv'
  BY <1>1, <1>2 DEF GuestInv, GuestTypeInv, TypeOK, RootTypeOK, PC
<1> QED  BY <1>1, <1>3 DEF GuestInv, StatusInv

LEMMA KeepsMachineStops == ASSUME GuestInv, NEW by, MachineStops(by) PROVE GuestInv'
<1>1. /\ pc' = "off" /\ mode' = "off" /\ cache' = disk /\ disk' = disk
      /\ damaged' \in {damaged, TRUE} /\ UNCHANGED <<typed, attempt>>
  BY DEF MachineStops, Stop
<1>2. GuestTypeInv'
  BY <1>1 DEF GuestInv, GuestTypeInv, TypeOK, RootTypeOK, PC, Trying
<1> QED  BY <1>1, <1>2 DEF GuestInv, StatusInv

LEMMA KeepsSwitchRoot == ASSUME GuestInv, SwitchRoot PROVE GuestInv'
<1>1. /\ pc = "kernel" /\ pc' = "shell" /\ mode' = "rw"
      /\ cache' = [files |-> disk.files, mounts |-> disk.mounts + 1]
      /\ UNCHANGED <<disk, damaged, typed, attempt>>
  BY DEF SwitchRoot, MountRw
<1>2. cache' \in Image
  BY <1>1, RootFacts DEF Image, GuestInv, GuestTypeInv, TypeOK
<1>3. GuestTypeInv'
  BY <1>1, <1>2 DEF GuestInv, GuestTypeInv, TypeOK, RootTypeOK, PC, Trying
<1> QED  BY <1>1, <1>3 DEF GuestInv, StatusInv

(* A step that writes one of the two files.                                *)
LEMMA KeepsPut ==
  ASSUME GuestInv, WriteNote \/ WritePending \/ WriteSafe \/ WriteFailed
  PROVE  GuestInv'
<1> USE ShellAssumption
<1>1. RootTypeOK /\ GuestTypeInv
  BY DEF GuestInv, GuestTypeInv, TypeOK
<1>2. CASE WriteNote
  <2>1. /\ pc = "shell" /\ pc' = pc /\ Put(Note, "text") /\ typed' \subseteq typed
        /\ attempt' = attempt
    BY <1>2 DEF WriteNote
  <2>2. RootTypeOK'
    BY <1>1, <2>1, PutFacts
  <2>3. GuestTypeInv'
    BY <1>1, <2>1, <2>2 DEF GuestTypeInv, TypeOK
  <2> QED  BY <2>1, <2>3 DEF GuestInv, StatusInv
<1>3. ASSUME NEW at, NEW content \in {"PENDING", "SAFE", "FAILED"}, NEW next \in PC,
             WriteStatus(at, content, next), next \in Trying => at \in Trying
      PROVE  /\ GuestTypeInv' /\ pc' = next /\ disk' = disk
             /\ cache'.files[Status] = content
  <2>1. /\ pc = at /\ Put(Status, content) /\ pc' = next /\ UNCHANGED <<typed, attempt>>
    BY <1>3 DEF WriteStatus
  <2>2. RootTypeOK' /\ disk' = disk /\ cache'.files[Status] = content
    BY <1>1, <1>3, <2>1, PutFacts
  <2> QED  BY <1>1, <1>3, <2>1, <2>2 DEF GuestTypeInv, TypeOK
<1>4. CASE WritePending
  <2>1. GuestTypeInv' /\ pc' = "sync pending"
    BY <1>3, <1>4 DEF WritePending, PC, Trying
  <2> QED  BY <2>1 DEF GuestInv, StatusInv
<1>5. CASE WriteSafe
  <2>1. GuestTypeInv' /\ pc' = "sync safe" /\ cache'.files[Status] = "SAFE"
    BY <1>3, <1>5 DEF WriteSafe, PC, Trying
  <2> QED  BY <2>1 DEF GuestInv, StatusInv
<1>6. CASE WriteFailed
  <2>1. GuestTypeInv' /\ pc' = "sync failed" /\ cache'.files[Status] = "FAILED"
    BY <1>3, <1>6 DEF WriteFailed, PC, Trying
  <2> QED  BY <2>1 DEF GuestInv, StatusInv
<1> QED  BY <1>2, <1>4, <1>5, <1>6

(* A step that writes nothing itself.                                      *)
LEMMA KeepsSync ==
  ASSUME GuestInv, SyncPending \/ SyncSafe \/ SyncFailed \/ RemountRefused
  PROVE  GuestInv'
<1>1. disk' = cache /\ UNCHANGED <<cache, mode, damaged, typed>>
  BY DEF SyncPending, SyncSafe, SyncFailed, SyncStatus, RemountRefused, Sync
<1>2. \/ pc = "sync pending" /\ pc' = "safe" /\ attempt' = attempt
      \/ pc = "sync safe" /\ pc' = "remount" /\ attempt' = attempt
      \/ pc = "sync failed" /\ pc' = "stuck" /\ attempt' = attempt
      \/ /\ pc = "remount" /\ pc' = "remount" /\ attempt < MaxAttempts
         /\ attempt' = attempt + 1
      \/ pc = "remount" /\ pc' = "failed" /\ attempt' = attempt + 1
  BY DEF SyncPending, SyncSafe, SyncFailed, SyncStatus, RemountRefused
<1>3. /\ attempt \in 1..(MaxAttempts + 1) /\ MaxAttempts \in Nat
      /\ pc \in Trying => attempt <= MaxAttempts
  BY ShellAssumption DEF GuestInv, GuestTypeInv, TypeOK
<1>4. attempt' \in 1..(MaxAttempts + 1) /\ (pc' \in Trying => attempt' <= MaxAttempts)
  <2>1. CASE attempt' = attempt /\ (pc' \in Trying => pc \in Trying)
    BY <1>3, <2>1
  <2>2. CASE attempt < MaxAttempts /\ attempt' = attempt + 1
    BY <1>3, <2>2
  <2>3. CASE pc \in Trying /\ pc' \notin Trying /\ attempt' = attempt + 1
    BY <1>3, <2>3
  <2> QED  BY <1>2, <2>1, <2>2, <2>3 DEF Trying
<1>5. pc' \in PC
  BY <1>2 DEF PC
<1>6. GuestTypeInv'
  BY <1>1, <1>4, <1>5 DEF GuestInv, GuestTypeInv, TypeOK, RootTypeOK
<1> QED  BY <1>1, <1>2, <1>6 DEF GuestInv, StatusInv

LEMMA KeepsRemount ==
  ASSUME GuestInv, RemountWorks \/ PoweroffReturns \/ StartShutdown
  PROVE  GuestInv'
<1>1. CASE RemountWorks
  <2>1. /\ pc = "remount" /\ pc' = "poweroff" /\ mode' = "ro" /\ disk' = cache
        /\ UNCHANGED <<cache, damaged, typed, attempt>>
    BY <1>1 DEF RemountWorks, RemountRo
  <2>2. GuestTypeInv'
    BY <2>1 DEF GuestInv, GuestTypeInv, TypeOK, RootTypeOK, PC, Trying
  <2> QED  BY <2>1, <2>2 DEF GuestInv, StatusInv
<1>2. CASE PoweroffReturns \/ StartShutdown
  <2>1. /\ \/ pc = "poweroff" /\ pc' = "returned" /\ typed' = typed
           \/ pc = "shell" /\ pc' = "pending" /\ typed' = {}
        /\ UNCHANGED <<disk, cache, mode, damaged, attempt>>
    BY <1>2 DEF PoweroffReturns, StartShutdown, root
  <2>2. GuestTypeInv'
    BY <2>1 DEF GuestInv, GuestTypeInv, TypeOK, RootTypeOK, PC, Trying, Image
  <2> QED  BY <2>1, <2>2 DEF GuestInv, StatusInv
<1> QED  BY <1>1, <1>2

LEMMA KeepsWriteback == ASSUME GuestInv, KernelStep PROVE GuestInv'
<1>1. /\ RootTypeOK' /\ mode = "rw" /\ cache' = cache
      /\ disk'.files[Status] \in {disk.files[Status], cache.files[Status]}
      /\ UNCHANGED <<pc, typed, attempt>>
  BY WritebackFacts, ShellAssumption DEF KernelStep, guest, GuestInv, GuestTypeInv, TypeOK
<1>2. GuestTypeInv'
  BY <1>1 DEF GuestInv, GuestTypeInv, TypeOK
<1> QED  BY <1>1, <1>2 DEF GuestInv, StatusInv

(* What the host does to a guest that goes on running: nothing, or it      *)
(* types.                                                                  *)
LEMMA KeepsTyping ==
  ASSUME GuestInv, UNCHANGED <<disk, cache, mode, damaged, pc, attempt>>,
         typed' = typed \/ typed' \subseteq Part
  PROVE  GuestInv'
<1>1. GuestTypeInv'
  BY DEF GuestInv, GuestTypeInv, TypeOK, RootTypeOK
<1> QED  BY <1>1 DEF GuestInv, StatusInv

-----------------------------------------------------------------------------
(* The gate.                                                               *)

StopsWell ==
  \A i \in 1..Len(stops) :
    stops[i].by # "kill" /\ (stops[i].by = "poweroff" => stops[i].mode = "ro")
HostInv ==
  /\ counts \in Seq(Nat) /\ Len(counts) <= BootCount
  /\ stops \in Seq([by : {"poweroff", "kill", "crash"}, mode : {"off", "rw", "ro"}])
  /\ hpc \in {"boot", "watch", "check", "done"} /\ seen \in BOOLEAN /\ sent \in BOOLEAN
  /\ outcome \in {"none", "passed", "thrown"}
  /\ hpc # "done" => Len(counts) < BootCount /\ outcome = "none"
  /\ hpc # "watch" => pc = "off"
  /\ hpc # "done" \/ outcome = "passed" => StopsWell
GateInv == GuestInv /\ HostInv

LEMMA GateInvInit == Init => GateInv
<1> SUFFICES ASSUME Init PROVE GateInv
  OBVIOUS
<1>1. GuestInv
  BY GuestInvInit DEF Init
<1>2. counts = <<>> /\ stops = <<>>
  BY DEF Init, ShellInit
<1>3. Len(counts) = 0 /\ counts \in Seq(Nat)
  BY <1>2
<1>4. /\ stops \in Seq([by : {"poweroff", "kill", "crash"}, mode : {"off", "rw", "ro"}])
      /\ Len(stops) = 0
  BY <1>2
<1>5. StopsWell
  BY <1>4 DEF StopsWell
<1>6. 0 <= BootCount /\ 0 < BootCount
  BY GateAssumption
<1>7. hpc = "boot" /\ pc = "off" /\ seen = FALSE /\ sent = FALSE /\ outcome = "none"
  BY DEF Init, ShellInit
<1>8. HostInv
  BY <1>3, <1>4, <1>5, <1>6, <1>7 DEF HostInv
<1> QED  BY <1>1, <1>8 DEF GateInv

(* Only the script's time limit kills; a poweroff comes after the remount. *)
LEMMA StopsFacts ==
  ASSUME GateInv, NEW by \in {"poweroff", "kill", "crash"}, MachineStops(by)
  PROVE  /\ stops' \in Seq([by : {"poweroff", "kill", "crash"}, mode : {"off", "rw", "ro"}])
         /\ pc' = "off"
         /\ (StopsWell /\ by # "kill" /\ (by = "poweroff" => pc = "poweroff")) => StopsWell'
<1> DEFINE end == [by |-> by, mode |-> mode]
<1>1. stops' = Append(stops, end) /\ pc' = "off"
  BY DEF MachineStops
<1>2. /\ end \in [by : {"poweroff", "kill", "crash"}, mode : {"off", "rw", "ro"}]
      /\ end.by = by /\ end.mode = mode
  BY DEF GateInv, GuestInv, GuestTypeInv, TypeOK, RootTypeOK
<1> HIDE DEF end
<1>3. stops \in Seq([by : {"poweroff", "kill", "crash"}, mode : {"off", "rw", "ro"}])
  BY DEF GateInv, HostInv
<1>4. /\ stops' \in Seq([by : {"poweroff", "kill", "crash"}, mode : {"off", "rw", "ro"}])
      /\ \A i \in 1..Len(stops') :
           stops'[i] = end \/ (i \in 1..Len(stops) /\ stops'[i] = stops[i])
  BY <1>1, <1>2, <1>3
<1>5. pc = "poweroff" => mode = "ro"
  BY DEF GateInv, GuestInv, StatusInv
<1> QED  BY <1>1, <1>2, <1>4, <1>5 DEF StopsWell

LEMMA KeepsGuestStep ==
  ASSUME GateInv, GuestStep \/ KernelStep, UNCHANGED host
  PROVE  GateInv'
<1>1. UNCHANGED <<hpc, seen, sent, counts, outcome>>
  BY DEF host
<1>2. CASE PowersOff
  <2>1. pc = "poweroff" /\ MachineStops("poweroff")
    BY <1>2 DEF PowersOff
  <2>2. GuestInv'
    BY <2>1, KeepsMachineStops DEF GateInv
  <2>3. /\ stops' \in Seq([by : {"poweroff", "kill", "crash"}, mode : {"off", "rw", "ro"}])
        /\ pc' = "off" /\ (StopsWell => StopsWell')
    BY <2>1, StopsFacts
  <2>4. HostInv'
    BY <1>1, <2>3 DEF GateInv, HostInv
  <2> QED  BY <2>2, <2>4 DEF GateInv
<1>3. CASE ~ PowersOff
  <2>1. GuestInv'
    BY <1>3, KeepsSwitchRoot, KeepsPut, KeepsSync, KeepsRemount, KeepsWriteback
       DEF GuestStep, ScriptStep, GateInv
  <2>2. stops' = stops
    BY <1>3
       DEF GuestStep, ScriptStep, KernelStep, guest, SwitchRoot, WriteNote, StartShutdown,
           WritePending, SyncPending, WriteSafe, SyncSafe, WriteStatus, SyncStatus,
           RemountWorks, RemountRefused, PoweroffReturns, WriteFailed, SyncFailed
  <2>3. pc = "off" => pc' = "off"
    BY <1>3
       DEF GuestStep, ScriptStep, KernelStep, guest, SwitchRoot, WriteNote, StartShutdown,
           WritePending, SyncPending, WriteSafe, SyncSafe, WriteStatus, SyncStatus,
           RemountWorks, RemountRefused, PoweroffReturns, WriteFailed, SyncFailed
  <2>4. HostInv'
    BY <1>1, <2>2, <2>3 DEF GateInv, HostInv, StopsWell
  <2> QED  BY <2>1, <2>4 DEF GateInv
<1> QED  BY <1>2, <1>3

LEMMA KeepsStartXemu == ASSUME GateInv, StartXemu PROVE GateInv'
<1>1. /\ hpc = "boot" /\ hpc' = "watch" /\ seen' = FALSE /\ sent' = FALSE
      /\ UNCHANGED <<counts, outcome, stops>>
  BY DEF StartXemu, PowerOn
<1>2. GuestInv'
  BY KeepsPowerOn DEF StartXemu, GateInv
<1> QED  BY <1>1, <1>2 DEF GateInv, HostInv, StopsWell

LEMMA KeepsLooking == ASSUME GateInv, SeeLinux \/ TypeCommand PROVE GateInv'
<1>1. /\ hpc = "watch" /\ UNCHANGED <<hpc, counts, outcome, stops>>
      /\ seen' \in BOOLEAN /\ sent' \in BOOLEAN
  BY DEF SeeLinux, TypeCommand, shellVars, guest, GateInv, HostInv
<1>2. /\ UNCHANGED <<disk, cache, mode, damaged, pc, attempt>>
      /\ typed' = typed \/ typed' \subseteq Part
  BY DEF SeeLinux, TypeCommand, shellVars, guest, root, Part
<1>3. GuestInv'
  BY <1>2, KeepsTyping DEF GateInv
<1> QED  BY <1>1, <1>3 DEF GateInv, HostInv, StopsWell

LEMMA KeepsSeeExit == ASSUME GateInv, SeeExit PROVE GateInv'
<1>1. /\ hpc = "watch" /\ pc = "off" /\ pc' = pc /\ UNCHANGED <<counts, seen, sent, stops>>
      /\ \/ hpc' = "check" /\ outcome' = outcome
         \/ hpc' = "done" /\ outcome' = "thrown"
  BY DEF SeeExit, shellVars, guest
<1>2. GuestInv'
  BY KeepsTyping DEF SeeExit, shellVars, guest, root, GateInv
<1> QED  BY <1>1, <1>2 DEF GateInv, HostInv, StopsWell

LEMMA KeepsCrash == ASSUME GateInv, Crash PROVE GateInv'
<1>1. hpc = "watch" /\ MachineStops("crash") /\ UNCHANGED <<hpc, seen, sent, counts, outcome>>
  BY DEF Crash, host
<1>2. GuestInv'
  BY <1>1, KeepsMachineStops DEF GateInv
<1>3. /\ stops' \in Seq([by : {"poweroff", "kill", "crash"}, mode : {"off", "rw", "ro"}])
      /\ (StopsWell => StopsWell')
  BY <1>1, StopsFacts
<1> QED  BY <1>1, <1>2, <1>3 DEF GateInv, HostInv

LEMMA KeepsTimesOut == ASSUME GateInv, TimesOut PROVE GateInv'
<1>1. /\ hpc' = "done" /\ outcome' = "thrown" /\ UNCHANGED <<seen, sent, counts>>
      /\ (pc = "off" /\ UNCHANGED shellVars) \/ MachineStops("kill")
  BY DEF TimesOut
<1>2. CASE pc = "off" /\ UNCHANGED shellVars
  <2>1. GuestInv'
    BY <1>2, KeepsTyping DEF shellVars, guest, root, GateInv
  <2>2. pc' = "off" /\ stops' = stops
    BY <1>2 DEF shellVars, guest
  <2> QED  BY <1>1, <2>1, <2>2 DEF GateInv, HostInv
<1>3. CASE MachineStops("kill")
  <2>1. GuestInv'
    BY <1>3, KeepsMachineStops DEF GateInv
  <2>2. /\ stops' \in Seq([by : {"poweroff", "kill", "crash"}, mode : {"off", "rw", "ro"}])
        /\ pc' = "off"
    BY <1>3, StopsFacts
  <2> QED  BY <1>1, <2>1, <2>2 DEF GateInv, HostInv
<1> QED  BY <1>1, <1>2, <1>3

LEMMA KeepsCheck == ASSUME GateInv, Check PROVE GateInv'
<1> DEFINE cs == Append(counts, disk.mounts)
<1>1. /\ hpc = "check" /\ UNCHANGED <<pc, stops, seen, sent>>
      /\ \/ hpc' = "done" /\ outcome' = "thrown" /\ counts' = counts
         \/ /\ counts' = cs
            /\ \/ Len(cs) < BootCount /\ hpc' = "boot" /\ outcome' = outcome
               \/ hpc' = "done" /\ outcome' \in {"passed", "thrown"}
  BY DEF Check, shellVars, guest
<1>2. GuestInv'
  BY KeepsTyping DEF Check, shellVars, guest, root, GateInv
<1>3. pc = "off" /\ outcome = "none" /\ counts \in Seq(Nat) /\ Len(counts) < BootCount
  BY <1>1 DEF GateInv, HostInv
<1>4. disk.mounts \in Nat /\ BootCount \in Nat
  BY RootFacts, GateAssumption DEF GateInv, GuestInv, GuestTypeInv, TypeOK
<1>5. cs \in Seq(Nat) /\ Len(cs) <= BootCount
  BY <1>3, <1>4
<1>6. Len(counts) <= BootCount
  BY <1>3, <1>4
<1> HIDE DEF cs
<1>7. HostInv'
  BY <1>1, <1>3, <1>5, <1>6 DEF GateInv, HostInv, StopsWell
<1> QED  BY <1>2, <1>7 DEF GateInv

LEMMA GateInvStep == GateInv /\ [Next]_vars => GateInv'
<1> SUFFICES ASSUME GateInv, [Next]_vars PROVE GateInv'
  OBVIOUS
<1>1. CASE UNCHANGED vars
  <2>1. /\ UNCHANGED <<disk, cache, mode, damaged, pc, attempt, typed, stops>>
        /\ UNCHANGED <<hpc, seen, sent, counts, outcome>>
    BY <1>1 DEF vars, shellVars, root, guest, host
  <2>2. GuestInv'
    BY <2>1, KeepsTyping DEF GateInv
  <2> QED  BY <2>1, <2>2 DEF GateInv, HostInv, StopsWell
<1> QED
  BY <1>1, KeepsGuestStep, KeepsStartXemu, KeepsLooking, KeepsSeeExit, KeepsCrash,
     KeepsTimesOut, KeepsCheck
     DEF Next, HostStep

LEMMA GateInvHolds == Spec => []GateInv
BY GateInvInit, GateInvStep, PTL DEF Spec

(* Every reachable state of the shell guest and its gate is well-typed.    *)
THEOREM GateTypeCorrect == Spec => []GateTypeOK
<1>1. GateInv => GateTypeOK
  BY DEF GateInv, GuestInv, GuestTypeInv, HostInv, GateTypeOK
<1> QED  BY <1>1, GateInvHolds, PTL

(* A machine about to power itself off has nothing to lose and SAFE on the *)
(* disk; one that has given up has the failure there instead.              *)
THEOREM StatusIsTrue == Spec => []StatusTellsTheEnd
<1>1. GateInv => StatusTellsTheEnd
  BY DEF GateInv, GuestInv, StatusInv, StatusTellsTheEnd, Quiescent
<1> QED  BY <1>1, GateInvHolds, PTL

(* A gate that passed killed no guest, and any guest that powered itself   *)
(* off had its root read-only.                                             *)
THEOREM PassedGateKilledNobody == Spec => []PassedMeansStoppedItself
<1>1. GateInv => PassedMeansStoppedItself
  BY DEF GateInv, HostInv, StopsWell, PassedMeansStoppedItself
<1> QED  BY <1>1, GateInvHolds, PTL
===============================================================================
