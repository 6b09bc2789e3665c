------------------------------ MODULE ColdBoots ------------------------------
(***************************************************************************)
(* test_devuan_5_8_cold_boots.ps1: sessions that measure a package by      *)
(* booting it in xemu, with the disposable disk image kept from one        *)
(* session to the next, and the builder that may replace the package in    *)
(* between.  A session may fail or be interrupted at any step.  A boot     *)
(* shows screens; a capture may fail, and judges one screen only.          *)
(***************************************************************************)
EXTENDS Integers, FiniteSetsExt

CONSTANTS
  MaxBuilds,     \* bound: packages built
  MaxSessions,   \* bound: sessions started
  Runs,          \* boots per session
  MaxFrames      \* bound: captures per boot before the time limit

ASSUME ColdBootsAssumption ==
  MaxBuilds \in Nat \ {0} /\ {MaxSessions, Runs, MaxFrames} \subseteq Nat

NoFile == 0         \* no such file, or nothing in it
Package == 1..MaxBuilds

(* What xemu shows, and the stage the classifier gives it.  Two screens    *)
(* differ in their fingerprints; one screen may change or stand still.     *)
Screen == {"black", "loader", "error", "console", "proof shell", "bare X",
           "X terminal"}
Stage(screen) ==
  CASE screen = "black"                         -> "dark-transition"
    [] screen = "loader"                        -> "xromwell"
    [] screen = "error"                         -> "xbox-error"
    [] screen \in {"console", "proof shell"}    -> "linux-text"
    [] screen \in {"bare X", "X terminal"}      -> "desktop-x"

VARIABLES
  name,        \* the variant measured
  package,     \* the package in the protected directory, NoFile if half built
  raw,         \* the package staged in the kept image, NoFile if none is
  rawExists,   \* the image file is there
  layout,      \* the layout manifest: the package it describes, or NoFile
  built, sessions,
  hpc,         \* where the script is; "idle" between sessions
  rebuild,     \* -RebuildImages
  claimed,     \* the package whose hashes this session verified
  run,         \* boots begun in this session
  screen,      \* what xemu shows; "none" when it is not running
  last,        \* the screen captured before, "none" at first
  repeated,    \* $repeated
  maxRepeated, \* $maxRepeated
  frames,      \* captures that succeeded
  stable,      \* history: captures of the ready screen in this boot
  result       \* the result of the last boot finished

files == <<package, raw, rawExists, layout, built>>
boot == <<screen, last, repeated, maxRepeated, frames, stable>>
vars == <<name, files, sessions, hpc, rebuild, claimed, run, boot, result>>

NoResult == [outcome |-> "none", claimed |-> NoFile, booted |-> NoFile,
             rebuilt |-> FALSE, stable |-> 0]

Init ==
  /\ name \in {"terminal", "desktop"}
  /\ package = 1 /\ raw = NoFile /\ rawExists = FALSE /\ layout = NoFile
  /\ built = 1 /\ sessions = 0 /\ hpc = "idle" /\ rebuild = FALSE
  /\ claimed = NoFile /\ run = 0
  /\ screen = "none" /\ last = "none" /\ repeated = 0 /\ maxRepeated = 0
  /\ frames = 0 /\ stable = 0 /\ result = NoResult

ReadyScreen == IF name = "terminal" THEN "proof shell" ELSE "X terminal"

-----------------------------------------------------------------------------
(* build_devuan_5_8_nondisc.ps1, between sessions: it removes the old      *)
(* directory first and writes the manifest last.                           *)
BuildBegins ==
  /\ hpc = "idle" /\ built < MaxBuilds
  /\ package' = NoFile /\ built' = built + 1
  /\ UNCHANGED <<name, raw, rawExists, layout, sessions, hpc, rebuild, claimed,
                 run, boot, result>>

BuildEnds ==
  /\ hpc = "idle" /\ package = NoFile
  /\ package' = built
  /\ UNCHANGED <<name, raw, rawExists, layout, built, sessions, hpc, rebuild,
                 claimed, run, boot, result>>

-----------------------------------------------------------------------------
(* The files required and Resolve-Package: every hash of the package.      *)
StartSession ==
  /\ hpc = "idle" /\ sessions < MaxSessions
  /\ sessions' = sessions + 1 /\ rebuild' \in BOOLEAN
  /\ run' = 0 /\ claimed' = package
  /\ hpc' = IF package = NoFile THEN "idle" ELSE "prepare"
  /\ UNCHANGED <<name, files, boot, result>>

(* Mutant: an image that is there is used.                                 *)
MustPrepareOnce == ~rawExists \/ layout = NoFile

MustPrepare == rebuild \/ ~rawExists \/ layout = NoFile

(* Prepare-Hdd: a fresh image over the kept one, or the kept one.          *)
Convert ==
  /\ hpc = "prepare"
  /\ IF MustPrepare
       THEN hpc' = "stage" /\ raw' = NoFile /\ rawExists' = TRUE
       ELSE hpc' = "layout" /\ UNCHANGED <<raw, rawExists>>
  /\ UNCHANGED <<name, package, layout, built, sessions, rebuild, claimed, run,
                 boot, result>>

(* The stager: the boot files into the image, and then its manifest.       *)
StageFiles ==
  /\ hpc = "stage"
  /\ raw' = claimed
  /\ hpc' = "manifest"
  /\ UNCHANGED <<name, package, rawExists, layout, built, sessions, rebuild,
                 claimed, run, boot, result>>

WriteLayout ==
  /\ hpc = "manifest"
  /\ layout' = claimed
  /\ hpc' = "layout"
  /\ UNCHANGED <<name, package, raw, rawExists, built, sessions, rebuild,
                 claimed, run, boot, result>>

(* The layout must be contiguous, whosever it is.                          *)
CheckLayout ==
  /\ hpc = "layout"
  /\ hpc' = "boot"
  /\ UNCHANGED <<name, files, sessions, rebuild, claimed, run, boot, result>>

(* A command of the session fails and throws, or the user interrupts it;   *)
(* xemu, if it runs, is killed, and the files stay as they are.            *)
Abandon ==
  /\ hpc # "idle"
  /\ hpc' = "idle" /\ screen' = "none"
  /\ UNCHANGED <<name, files, sessions, rebuild, claimed, run, last, repeated,
                 maxRepeated, frames, stable, result>>

-----------------------------------------------------------------------------
(* Mutant: one boot too many.                                              *)
StartXemuOnceMore ==
  /\ hpc = "boot"
  /\ IF run > Runs
       THEN hpc' = "idle" /\ UNCHANGED <<run, boot>>
       ELSE /\ hpc' = "watch" /\ run' = run + 1
            /\ screen' = "black" /\ last' = "none"
            /\ repeated' = 0 /\ maxRepeated' = 0 /\ frames' = 0 /\ stable' = 0
  /\ UNCHANGED <<name, files, sessions, rebuild, claimed, result>>

(* A boot: xemu with -snapshot, which leaves the image as it is.           *)
StartXemu ==
  /\ hpc = "boot"
  /\ IF run = Runs
       THEN hpc' = "idle" /\ UNCHANGED <<run, boot>>
       ELSE /\ hpc' = "watch" /\ run' = run + 1
            /\ screen' = "black" /\ last' = "none"
            /\ repeated' = 0 /\ maxRepeated' = 0 /\ frames' = 0 /\ stable' = 0
  /\ UNCHANGED <<name, files, sessions, rebuild, claimed, result>>

(* The guest: only with the boot files staged does it get past the loader, *)
(* and each variant ends on its own screen.                                *)
Follows(from) ==
  CASE from = "black"      -> {"loader", "error"}
    [] from = "loader"     -> IF raw = NoFile THEN {} ELSE {"console"}
    [] from = "console"    -> IF name = "terminal" THEN {"proof shell"}
                                                   ELSE {"bare X"}
    [] from = "bare X"     -> {"X terminal"}
    [] OTHER               -> {}

ScreenChanges ==
  /\ hpc = "watch"
  /\ screen' \in Follows(screen)
  /\ UNCHANGED <<name, files, sessions, hpc, rebuild, claimed, run, last,
                 repeated, maxRepeated, frames, stable, result>>

XemuExits ==
  /\ hpc = "watch" /\ screen # "none"
  /\ screen' = "none"
  /\ UNCHANGED <<name, files, sessions, hpc, rebuild, claimed, run, last,
                 repeated, maxRepeated, frames, stable, result>>

Reports(outcome) ==
  /\ result' = [outcome |-> outcome, claimed |-> claimed, booted |-> raw,
                rebuilt |-> rebuild, stable |-> stable']
  /\ hpc' = "boot" /\ screen' = "none"

(* Mutant: one matching frame of the terminal is enough.                   *)
IsReadyAtOnce(again) == screen = ReadyScreen

(* The desktop's terminal is seen, or the proof shell twice in a row.      *)
IsReady(again) == screen = ReadyScreen /\ (name = "terminal" => again >= 1)

(* A poll that captures a frame; the same screen may look the same or not. *)
Capture ==
  /\ hpc = "watch" /\ screen # "none" /\ frames < MaxFrames
  /\ frames' = frames + 1 /\ last' = screen
  /\ repeated' \in {0} \cup (IF screen = last THEN {repeated + 1} ELSE {})
  /\ maxRepeated' = Max({maxRepeated, repeated'})
  /\ stable' = stable + (IF screen = ReadyScreen THEN 1 ELSE 0)
  /\ IF IsReady(repeated')
       THEN Reports("passed")
       ELSE UNCHANGED <<hpc, screen, result>>
  /\ UNCHANGED <<name, files, sessions, rebuild, claimed, run>>

(* Mutant: an exit of xemu is waited out.                                  *)
SeeExitNever == FALSE /\ UNCHANGED vars

SeeExit ==
  /\ hpc = "watch" /\ screen = "none"
  /\ stable' = stable
  /\ Reports("xemu-exited")
  /\ UNCHANGED <<name, files, sessions, rebuild, claimed, run, last, repeated,
                 maxRepeated, frames>>

(* The time limit: the outcome names the stage of the last frame.          *)
TimesOut ==
  /\ hpc = "watch" /\ screen # "none"
  /\ stable' = stable
  /\ Reports(CASE frames > 0 /\ Stage(last) = "xromwell" /\ maxRepeated >= 3
                                                      -> "stalled-xromwell"
               [] frames > 0 /\ Stage(last) = "xbox-error" -> "xbox-error"
               [] OTHER                                  -> "timed-out")
  /\ UNCHANGED <<name, files, sessions, rebuild, claimed, run, last, repeated,
                 maxRepeated, frames>>

-----------------------------------------------------------------------------
SessionStep ==
  \/ StartSession \/ Convert \/ StageFiles \/ WriteLayout \/ CheckLayout
  \/ StartXemu \/ Capture \/ SeeExit \/ TimesOut

Next ==
  \/ SessionStep \/ Abandon \/ BuildBegins \/ BuildEnds
  \/ ScreenChanges \/ XemuExits

(* The commands of the script end and its time limit is reached; nothing   *)
(* is assumed of the guest, of the captures or of further sessions.        *)
Spec ==
  /\ Init /\ [][Next]_vars
  /\ WF_vars(Convert \/ StageFiles \/ WriteLayout \/ CheckLayout \/ StartXemu)
  /\ WF_vars(SeeExit \/ TimesOut)

TypeOK ==
  /\ name \in {"terminal", "desktop"}
  /\ {package, raw, layout, claimed} \subseteq Package \cup {NoFile}
  /\ rawExists \in BOOLEAN /\ rebuild \in BOOLEAN
  /\ built \in Package /\ sessions \in 0..MaxSessions /\ run \in 0..Runs
  /\ hpc \in {"idle", "prepare", "stage", "manifest", "layout", "boot", "watch"}
  /\ screen \in Screen \cup {"none"} /\ last \in Screen \cup {"none"}
  /\ repeated <= maxRepeated /\ maxRepeated <= frames /\ stable <= frames
  /\ frames \in 0..MaxFrames
  /\ result.stable <= MaxFrames

(* A session that rebuilds its image measures the package it verified,     *)
(* whatever earlier sessions and builds left behind.                       *)
RebuiltMeasuresPackage ==
  result.rebuilt => result.booted = result.claimed

(* Terminal readiness must "remain stable across consecutive captures":    *)
(* no single frame passes a terminal, whatever frames came before it.      *)
PassedMeansStable ==
  (result.outcome = "passed" /\ name = "terminal") => result.stable >= 2

(* "Each variant is copied to a disposable raw Xbox HDD": what a result    *)
(* says was measured, packageZipSha256, is what was booted.                *)
ResultNamesBootedPackage == result.booted = result.claimed

(* Every session ends.                                                     *)
SessionEnds == hpc # "idle" ~> hpc = "idle"
=============================================================================
