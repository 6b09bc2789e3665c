---------------------------- MODULE RwSafetyGate ----------------------------
(***************************************************************************)
(* test_debian_6_18_rw_safety_gate.ps1 around the smoke guest: the host    *)
(* boots the candidate once or twice from the same disposable image, kills *)
(* xemu some time after the first frame that shows Linux, and inspects the *)
(* image after each boot.  Time is abstracted: the settle interval and the *)
(* time limit (which may cut the interval short) end a watch at any moment *)
(* they may end it, however far the guest is.  Or there is no script, and  *)
(* somebody switches the machine on and off by hand.                       *)
(***************************************************************************)
EXTENDS RwSmoke, Sequences

CONSTANT BootCount    \* 1 or 2; MaxBoots bounds it

ASSUME GateAssumption == BootCount \in 1..2 /\ BootCount <= MaxBoots

VARIABLES
  hpc,        \* where the script is: "boot", "watch", "check", "done"; or "by hand"
  seen,       \* $firstLinux is set
  counts,     \* mountCount of the checks done
  outcome,    \* "none", "passed", or "thrown"
  ends        \* history: where each boot was when xemu stopped

host == <<hpc, seen, counts, outcome, ends>>
gateVars == <<vars, host>>

GateInit ==
  /\ Init
  /\ hpc \in {"boot", "by hand"} /\ seen = FALSE /\ counts = <<>> /\ outcome = "none"
  /\ ends = <<>>

StartXemu ==
  /\ hpc = "boot"
  /\ PowerOn
  /\ hpc' = "watch" /\ seen' = FALSE
  /\ UNCHANGED <<counts, outcome, ends>>

(* A frame of kernel text already counts as Linux.                         *)
SeeLinux ==
  /\ hpc = "watch" /\ pc # "off" /\ ~seen
  /\ seen' = TRUE
  /\ UNCHANGED <<vars, hpc, counts, outcome, ends>>

KillXemu ==
  /\ PowerOff
  /\ ends' = Append(ends, [pc |-> pc, mode |-> mode])

(* The settle interval or the time limit is over and Linux has been seen.  *)
StopXemu ==
  /\ hpc = "watch" /\ seen
  /\ KillXemu
  /\ hpc' = "check"
  /\ UNCHANGED <<seen, counts, outcome>>

(* Mutant: the loop has no time limit.                                     *)
NoTimeLimit == FALSE /\ UNCHANGED gateVars

TimesOut ==
  /\ hpc = "watch" /\ ~seen
  /\ KillXemu
  /\ hpc' = "done" /\ outcome' = "thrown"
  /\ UNCHANGED <<seen, counts>>

(* xemu stops by itself: an error, whatever has been seen.                 *)
XemuExits ==
  /\ hpc = "watch"
  /\ KillXemu
  /\ hpc' = "done" /\ outcome' = "thrown"
  /\ UNCHANGED <<seen, counts>>

(* Mutant: the status file is not read.                                    *)
AcceptableWithoutStatus ==
  /\ ~damaged
  /\ disk.files[Marker] = "text" /\ disk.files[Normal] = "text"

(* e2fsck -fn, then the three files.                                       *)
Acceptable ==
  /\ ~damaged
  /\ disk.files[Marker] = "text" /\ disk.files[Normal] = "text"
  /\ disk.files[Status] = "OK"

(* Mutant: the mount counts are not compared.                              *)
CountsUnchecked(cs) == TRUE

(* Compared once both boots are done.                                      *)
CountsIncrease(cs) == BootCount = 2 => cs[2] > cs[1]

(* Mutant: one boot too many.                                              *)
CheckOneBootMore ==
  /\ hpc = "check"
  /\ LET cs == Append(counts, disk.mounts)
     IN IF ~Acceptable
          THEN hpc' = "done" /\ outcome' = "thrown" /\ UNCHANGED counts
          ELSE /\ counts' = cs
               /\ IF Len(cs) <= BootCount
                    THEN hpc' = "boot" /\ UNCHANGED outcome
                    ELSE hpc' = "done" /\ outcome' = "passed"
  /\ UNCHANGED <<vars, seen, ends>>

Check ==
  /\ hpc = "check"
  /\ LET cs == Append(counts, disk.mounts)
     IN IF ~Acceptable
          THEN hpc' = "done" /\ outcome' = "thrown" /\ UNCHANGED counts
          ELSE /\ counts' = cs
               /\ IF Len(cs) < BootCount
                    THEN hpc' = "boot" /\ UNCHANGED outcome
                    ELSE /\ hpc' = "done"
                         /\ outcome' = IF CountsIncrease(cs) THEN "passed"
                                                             ELSE "thrown"
  /\ UNCHANGED <<vars, seen, ends>>

WatchEnds == StopXemu \/ TimesOut
HostStep == StartXemu \/ SeeLinux \/ WatchEnds \/ XemuExits \/ Check

ByHand(action) == hpc = "by hand" /\ action /\ UNCHANGED host

GateNext ==
  \/ HostStep \/ ByHand(PowerOn) \/ ByHand(PowerOff)
  \/ (GuestStep \/ KernelStep) /\ UNCHANGED host

(* The script goes on; that Linux is ever seen, or that xemu ever exits,   *)
(* is not assumed.  Of a machine nobody watches, PID 1 runs while it is on.*)
GateSpec ==
  /\ GateInit /\ [][GateNext]_gateVars
  /\ WF_gateVars(StartXemu) /\ WF_gateVars(WatchEnds) /\ WF_gateVars(Check)
  /\ WF_gateVars(ByHand(GuestStep))

GateTypeOK ==
  /\ TypeOK
  /\ hpc \in {"boot", "watch", "check", "done", "by hand"} /\ seen \in BOOLEAN
  /\ Len(counts) <= BootCount
  /\ outcome \in {"none", "passed", "thrown"}

(* A boot that gave up and put the failure on the disk fails the gate: the *)
(* status of the next boot cannot cover it.                                *)
GateCatchesFailedRemount ==
  outcome = "passed" => \A i \in 1..Len(ends) : ends[i].pc # "stuck"

(* "Linux reached on all requested boots without restaging" and "Ext2      *)
(* mount count increased": a second boot of a passed gate had mounted the  *)
(* image of the first and found both of its files, although the status and *)
(* the files the host reads may all date from the first.                   *)
PassedMeansPersisted ==
  (outcome = "passed" /\ BootCount = 2) =>
    found[Marker] = "text" /\ found[Normal] = "text"

(* The script always ends.                                                 *)
GateEnds == (hpc = "boot") ~> (hpc = "done")

(* The criterion the gate prints when it passes: "root read-only remount   *)
(* confirmed after each boot".                                             *)
ConfirmedAfterEachBoot ==
  outcome = "passed" => \A i \in 1..Len(ends) : ends[i].mode = "ro"
=============================================================================
