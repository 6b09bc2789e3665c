---------------------------- MODULE ColdBootsProofs ----------------------------
(* What a session with -RebuildImages guarantees, and what a passed        *)
(* terminal shows, for every number of builds, sessions, boots and         *)
(* captures.                                                               *)
EXTENDS ColdBoots, TLAPS

(* From the end of the staging on, the image of a session that rebuilds is *)
(* that of the package it verified; nothing else may touch it, neither a   *)
(* boot, which is a snapshot, nor a build, which waits for the session.    *)
RebuiltImage ==
  /\ (rebuild /\ hpc \in {"manifest", "layout", "boot", "watch"}) => raw = claimed
  /\ RebuiltMeasuresPackage

(* The invariant holds at first: there is no result.                       *)
LEMMA RebuiltImageInit == Init => RebuiltImage
BY DEF Init, RebuiltImage, RebuiltMeasuresPackage, NoResult

(* A result copies rebuild, claimed and raw while the boot is watched.     *)
LEMMA ReportsKeepsIt ==
  ASSUME RebuiltImage, hpc = "watch", NEW o, Reports(o),
         UNCHANGED <<rebuild, claimed, raw>>
  PROVE  RebuiltImage'
BY DEF RebuiltImage, RebuiltMeasuresPackage, Reports

(* Every step keeps it.                                                    *)
LEMMA RebuiltImageStep == RebuiltImage /\ [Next]_vars => RebuiltImage'
<1> SUFFICES ASSUME RebuiltImage, [Next]_vars PROVE RebuiltImage'
  OBVIOUS
<1> USE DEF RebuiltImage, RebuiltMeasuresPackage
<1>1. CASE StartSession
  BY <1>1 DEF StartSession, files
<1>2. CASE Convert
  (* A session that rebuilds never takes the kept image.                   *)
  BY <1>2 DEF Convert, MustPrepare
<1>3. CASE StageFiles \/ WriteLayout
  BY <1>3 DEF StageFiles, WriteLayout
<1>4. CASE CheckLayout
  BY <1>4 DEF CheckLayout, files
<1>5. CASE StartXemu
  BY <1>5 DEF StartXemu, files
<1>6. CASE Capture
  <2>1. UNCHANGED <<rebuild, claimed, raw>> /\ hpc = "watch"
    BY <1>6 DEF Capture, files
  <2>2. Reports("passed") \/ UNCHANGED <<hpc, result>>
    BY <1>6 DEF Capture
  <2> QED  BY <2>1, <2>2, ReportsKeepsIt
<1>7. CASE SeeExit
  BY <1>7, ReportsKeepsIt DEF SeeExit, files
<1>8. CASE TimesOut
  BY <1>8, ReportsKeepsIt DEF TimesOut, files
<1>9. CASE Abandon
  BY <1>9 DEF Abandon, files
<1>10. CASE BuildBegins \/ BuildEnds
  BY <1>10 DEF BuildBegins, BuildEnds
<1>11. CASE ScreenChanges \/ XemuExits
  BY <1>11 DEF ScreenChanges, XemuExits, files
<1>12. CASE UNCHANGED vars
  BY <1>12 DEF vars, files
<1> QED
  BY <1>1, <1>2, <1>3, <1>4, <1>5, <1>6, <1>7, <1>8, <1>9, <1>10, <1>11, <1>12
     DEF Next, SessionStep

(* A session that rebuilds its image measures the package it verified,     *)
(* whatever builds and sessions, finished or abandoned, came before it.    *)
THEOREM RebuiltSessionsAreHonest == Spec => []RebuiltMeasuresPackage
<1>1. RebuiltImage => RebuiltMeasuresPackage
  BY DEF RebuiltImage
<1> QED
  BY <1>1, RebuiltImageInit, RebuiltImageStep, PTL DEF Spec

-----------------------------------------------------------------------------
(* Consecutive frames.  A frame repeats the one before only if it shows    *)
(* the same screen, so that the second of two of the ready screen is       *)
(* needed, and the first has been counted.                                 *)
StableInv ==
  /\ name \in {"terminal", "desktop"}
  /\ repeated \in Nat /\ stable \in Nat
  /\ hpc = "watch" /\ last = ReadyScreen => stable >= 1
  /\ PassedMeansStable

LEMMA StableInvInit == Init => StableInv
BY DEF Init, StableInv, PassedMeansStable, NoResult, ReadyScreen

LEMMA StableInvStep == StableInv /\ [Next]_vars => StableInv'
<1> SUFFICES ASSUME StableInv, [Next]_vars PROVE StableInv'
  OBVIOUS
<1> USE DEF StableInv, PassedMeansStable
<1>0. ReadyScreen # "none" /\ (name' = name => ReadyScreen' = ReadyScreen)
  BY DEF ReadyScreen
<1>1. CASE StartSession \/ Convert \/ StageFiles \/ WriteLayout \/ CheckLayout
  BY <1>0, <1>1 DEF StartSession, Convert, StageFiles, WriteLayout, CheckLayout, boot
<1>2. CASE StartXemu
  <2>1. /\ UNCHANGED <<name, result>>
        /\ \/ hpc' = "idle" /\ UNCHANGED <<last, repeated, stable>>
           \/ last' = "none" /\ repeated' = 0 /\ stable' = 0
    BY <1>2 DEF StartXemu, boot
  <2>2. ReadyScreen' # "none"
    BY <1>0, <2>1
  <2>3. repeated' \in Nat /\ stable' \in Nat
    BY <2>1
  <2> QED  BY <2>1, <2>2, <2>3
<1>3. CASE Capture
  <2>1. /\ hpc = "watch" /\ last' = screen /\ name' = name
        /\ repeated' \in {0} \cup (IF screen = last THEN {repeated + 1} ELSE {})
        /\ stable' = stable + (IF screen = ReadyScreen THEN 1 ELSE 0)
    BY <1>3 DEF Capture
  <2>2. \/ /\ IsReady(repeated') /\ hpc' = "boot"
           /\ result'.stable = stable'
        \/ UNCHANGED <<hpc, result>>
    BY <1>3 DEF Capture, Reports
  <2>3. repeated' = 0 \/ (screen = last /\ repeated' = repeated + 1)
    BY <2>1
  <2>4. repeated' \in Nat /\ stable' \in Nat
    <3>1. (IF screen = ReadyScreen THEN 1 ELSE 0) \in Nat
      OBVIOUS
    <3> QED  BY <2>1, <2>3, <3>1
  <2>5. screen = ReadyScreen => stable' = stable + 1
    BY <2>1
  <2>6. screen = ReadyScreen => stable' >= 1
    BY <2>5
  <2>7. IsReady(repeated') /\ name = "terminal" => stable' >= 2
    <3>1. SUFFICES ASSUME screen = ReadyScreen, repeated' >= 1 PROVE stable' >= 2
      BY DEF IsReady
    <3>2. screen = last
      BY <2>3, <3>1
    <3>3. stable >= 1
      BY <2>1, <3>1, <3>2
    <3> QED  BY <2>5, <3>1, <3>3
  <2>8. ReadyScreen' = ReadyScreen
    BY <1>0, <2>1
  <2>9. CASE IsReady(repeated') /\ hpc' = "boot" /\ result'.stable = stable'
    BY <2>1, <2>4, <2>7, <2>9
  <2>10. CASE UNCHANGED <<hpc, result>>
    BY <2>1, <2>4, <2>6, <2>8, <2>10
  <2> QED  BY <2>2, <2>9, <2>10
<1>4. CASE SeeExit
  BY <1>0, <1>4 DEF SeeExit, Reports
<1>5. CASE TimesOut
  <2>1. /\ result'.outcome # "passed" /\ hpc' = "boot"
        /\ UNCHANGED <<name, last, repeated, stable>>
    BY <1>5 DEF TimesOut, Reports
  <2> QED  BY <1>0, <2>1
<1>6. CASE Abandon \/ BuildBegins \/ BuildEnds
  BY <1>0, <1>6 DEF Abandon, BuildBegins, BuildEnds, boot
<1>7. CASE ScreenChanges \/ XemuExits
  BY <1>0, <1>7 DEF ScreenChanges, XemuExits
<1>8. CASE UNCHANGED vars
  BY <1>0, <1>8 DEF vars, boot
<1> QED
  BY <1>1, <1>2, <1>3, <1>4, <1>5, <1>6, <1>7, <1>8 DEF Next, SessionStep

(* No single frame passes a terminal, whatever frames came before it.      *)
THEOREM PassedTerminalWasStable == Spec => []PassedMeansStable
<1>1. StableInv => PassedMeansStable
  BY DEF StableInv
<1> QED  BY <1>1, StableInvInit, StableInvStep, PTL DEF Spec

-----------------------------------------------------------------------------
(* The counters of a boot: a frame counted as stable was captured, and the *)
(* captures of a boot stay within its time limit.                          *)
CountInv ==
  /\ TypeOK
  /\ {repeated, maxRepeated, stable} \subseteq Nat

LEMMA CountInit == Init => CountInv
<1> SUFFICES ASSUME Init PROVE CountInv
  OBVIOUS
<1>1. MaxBuilds \in Nat /\ MaxBuilds >= 1
      /\ MaxSessions \in Nat /\ Runs \in Nat /\ MaxFrames \in Nat
  BY ColdBootsAssumption
<1>2. result.stable = 0
  BY DEF Init, NoResult
<1>3. /\ {package, raw, layout, claimed} \subseteq Package \cup {NoFile}
      /\ built \in Package
  BY <1>1 DEF Init, NoFile, Package
<1>4. /\ frames = 0 /\ repeated = 0 /\ maxRepeated = 0 /\ stable = 0
      /\ sessions = 0 /\ run = 0
  BY DEF Init
<1>5. /\ name \in {"terminal", "desktop"} /\ rawExists \in BOOLEAN /\ rebuild \in BOOLEAN
      /\ hpc = "idle" /\ screen = "none" /\ last = "none"
  BY DEF Init
<1> QED  BY <1>1, <1>2, <1>3, <1>4, <1>5 DEF CountInv, TypeOK

(* The greater of two numbers, as the capture takes it.                    *)
LEMMA MaxOfTwo ==
  ASSUME NEW a \in Nat, NEW b \in Nat
  PROVE  Max({a, b}) \in {a, b} /\ Max({a, b}) >= a /\ Max({a, b}) >= b
<1>1. \E x \in {a, b} : \A y \in {a, b} : x >= y
  <2>1. CASE a >= b
    BY <2>1
  <2>2. CASE ~(a >= b)
    <3>1. b >= a
      BY <2>2
    <3> QED  BY <3>1
  <2> QED  BY <2>1, <2>2
<1> QED  BY <1>1 DEF Max

LEMMA CountStep == CountInv /\ [Next]_vars => CountInv'
<1> SUFFICES ASSUME CountInv, [Next]_vars PROVE CountInv'
  OBVIOUS
<1> USE DEF CountInv, TypeOK
<1>1. CASE StartSession
  BY <1>1, ColdBootsAssumption DEF StartSession, files, boot
<1>2. CASE Convert
  BY <1>2 DEF Convert, boot
<1>3. CASE StageFiles \/ WriteLayout \/ CheckLayout
  BY <1>3 DEF StageFiles, WriteLayout, CheckLayout, files, boot
<1>4. CASE StartXemu
  <2>1. /\ UNCHANGED <<name, files, sessions, rebuild, claimed, result>>
        /\ \/ hpc' = "idle" /\ UNCHANGED <<run, boot>>
           \/ /\ run # Runs /\ hpc' = "watch" /\ run' = run + 1
              /\ screen' = "black" /\ last' = "none"
              /\ repeated' = 0 /\ maxRepeated' = 0 /\ frames' = 0 /\ stable' = 0
    BY <1>4 DEF StartXemu
  <2>2. run' \in 0..Runs
    BY <2>1, ColdBootsAssumption
  <2>3. /\ {repeated', maxRepeated', stable'} \subseteq Nat
        /\ repeated' <= maxRepeated' /\ maxRepeated' <= frames' /\ stable' <= frames'
        /\ frames' \in 0..MaxFrames
    BY <2>1, ColdBootsAssumption DEF boot
  <2>4. screen' \in Screen \cup {"none"} /\ last' \in Screen \cup {"none"}
    BY <2>1 DEF boot, Screen
  <2>5. /\ UNCHANGED <<name, package, raw, rawExists, layout, built, sessions, rebuild,
                       claimed, result>>
        /\ hpc' \in {"idle", "watch"}
    BY <2>1 DEF files
  <2> QED  BY <2>2, <2>3, <2>4, <2>5
<1>5. CASE Capture
  <2>1. /\ UNCHANGED <<name, files, sessions, rebuild, claimed, run>>
        /\ frames < MaxFrames /\ frames' = frames + 1 /\ last' = screen
        /\ repeated' \in {0} \cup (IF screen = last THEN {repeated + 1} ELSE {})
        /\ maxRepeated' = Max({maxRepeated, repeated'})
        /\ stable' = stable + (IF screen = ReadyScreen THEN 1 ELSE 0)
        /\ \/ hpc' = "boot" /\ screen' = "none" /\ result'.stable = stable'
           \/ UNCHANGED <<hpc, screen, result>>
    BY <1>5 DEF Capture, Reports
  <2>2. repeated' \in Nat /\ repeated' <= frames' /\ frames' \in 0..MaxFrames
    BY <2>1, ColdBootsAssumption
  <2>3. maxRepeated' \in Nat /\ repeated' <= maxRepeated' /\ maxRepeated' <= frames'
    <3>1. /\ maxRepeated' \in {maxRepeated, repeated'} /\ maxRepeated' >= repeated'
          /\ maxRepeated <= frames'
      BY <2>1, <2>2, MaxOfTwo
    <3> QED  BY <2>2, <3>1
  <2>4. stable' \in Nat /\ stable' <= frames'
    BY <2>1
  <2>5. stable' <= MaxFrames
    BY <2>2, <2>4, ColdBootsAssumption
  <2> QED  BY <2>1, <2>2, <2>3, <2>4, <2>5 DEF files
<1>6. CASE SeeExit \/ TimesOut
  <2>1. /\ UNCHANGED <<name, files, sessions, rebuild, claimed, run, last, repeated,
                       maxRepeated, frames, stable>>
        /\ hpc' = "boot" /\ screen' = "none" /\ result'.stable = stable
    BY <1>6 DEF SeeExit, TimesOut, Reports
  <2>2. stable <= MaxFrames
    BY ColdBootsAssumption
  <2> QED  BY <2>1, <2>2 DEF files
<1>7. CASE Abandon
  BY <1>7 DEF Abandon, files
<1>8. CASE BuildBegins \/ BuildEnds
  BY <1>8, ColdBootsAssumption DEF BuildBegins, BuildEnds, boot, Package, NoFile
<1>9. CASE ScreenChanges \/ XemuExits
  <2>1. Follows(screen) \subseteq Screen
    BY DEF Follows, Screen
  <2> QED  BY <1>9, <2>1 DEF ScreenChanges, XemuExits, files
<1>10. CASE UNCHANGED vars
  BY <1>10 DEF vars, files, boot
<1> QED
  BY <1>1, <1>2, <1>3, <1>4, <1>5, <1>6, <1>7, <1>8, <1>9, <1>10
     DEF Next, SessionStep

(* Everything the script keeps stays in its range: no more boots than      *)
(* asked for, no more frames than the time limit allows, and no frame      *)
(* counted as stable or repeated that was not captured.                    *)
THEOREM CountsStayInRange == Spec => []TypeOK
<1>1. CountInv => TypeOK
  BY DEF CountInv
<1> QED  BY <1>1, CountInit, CountStep, PTL DEF Spec
=============================================================================
