--------------------------- MODULE PersistentGate ---------------------------
(***************************************************************************)
(* test_debian_6_18_persistent_candidate.ps1 around the persistent shell:  *)
(* each boot must reach Linux, take a typed line and end by itself before  *)
(* the time limit; the image is then inspected.  Time is abstracted: the   *)
(* line may be typed any time after the first frame that shows Linux, and  *)
(* the limit may strike at any moment.                                     *)
(***************************************************************************)
EXTENDS PersistentShell

CONSTANT BootCount    \* 1 or 2

ASSUME GateAssumption == BootCount \in 1..2

VARIABLES
  hpc,        \* where the script is: "boot", "watch", "check", "done"
  seen,       \* $firstLinux is set
  sent,       \* $commandSent is set
  counts,     \* mountCount of the checks done
  outcome     \* "none", "passed" or "thrown"

host == <<hpc, seen, sent, counts, outcome>>
vars == <<shellVars, host>>

Init ==
  /\ ShellInit
  /\ hpc = "boot" /\ seen = FALSE /\ sent = FALSE
  /\ counts = <<>> /\ outcome = "none"

StartXemu ==
  /\ hpc = "boot"
  /\ PowerOn
  /\ hpc' = "watch" /\ seen' = FALSE /\ sent' = FALSE
  /\ UNCHANGED <<counts, outcome>>

SeeLinux ==
  /\ hpc = "watch" /\ pc # "off" /\ ~seen
  /\ seen' = TRUE
  /\ UNCHANGED <<shellVars, hpc, sent, counts, outcome>>

(* The first boot's line leaves a note, the second's only reads it; keys   *)
(* may be lost, before the shell is there above all.                       *)
TypeCommand ==
  /\ hpc = "watch" /\ pc # "off" /\ seen /\ ~sent
  /\ sent' = TRUE
  /\ typed' \in SUBSET (IF counts = <<>> THEN Part ELSE {"shutdown"})
  /\ UNCHANGED <<root, pc, attempt, stops, hpc, seen, counts, outcome>>

(* xemu is found to have exited: after the line it counts as a poweroff.   *)
SeeExit ==
  /\ hpc = "watch" /\ pc = "off"
  /\ IF sent THEN hpc' = "check" /\ UNCHANGED outcome
             ELSE hpc' = "done" /\ outcome' = "thrown"
  /\ UNCHANGED <<shellVars, seen, sent, counts>>

(* xemu exits of its own accord, whatever the guest is doing.              *)
Crash == hpc = "watch" /\ MachineStops("crash") /\ UNCHANGED host

(* Mutant: running into the limit is not an error once the line is typed.  *)
LimitForgiven ==
  /\ hpc = "watch"
  /\ IF pc = "off" THEN UNCHANGED shellVars ELSE MachineStops("kill")
  /\ IF sent THEN hpc' = "check" /\ UNCHANGED outcome
             ELSE hpc' = "done" /\ outcome' = "thrown"
  /\ UNCHANGED <<seen, sent, counts>>

(* Mutant: the loop has no time limit.                                     *)
NoTimeLimit == FALSE /\ UNCHANGED vars

(* The limit: whatever is missing, Linux, the line or the exit, is an      *)
(* error; an exit since the last poll has not been noticed.                *)
TimesOut ==
  /\ hpc = "watch"
  /\ IF pc = "off" THEN UNCHANGED shellVars ELSE MachineStops("kill")
  /\ hpc' = "done" /\ outcome' = "thrown"
  /\ UNCHANGED <<seen, sent, counts>>

Acceptable ==
  /\ ~damaged
  /\ disk.files[Note] = "text" /\ disk.files[Status] = "SAFE"

CountsIncrease(cs) == BootCount = 2 => cs[2] > cs[1]

Check ==
  /\ hpc = "check"
  /\ LET cs == Append(counts, disk.mounts)
     IN IF ~Acceptable
          THEN hpc' = "done" /\ outcome' = "thrown" /\ UNCHANGED counts
          ELSE /\ counts' = cs
               /\ IF Len(cs) < BootCount
                    THEN hpc' = "boot" /\ UNCHANGED outcome
                    ELSE /\ hpc' = "done"
                         /\ outcome' = IF CountsIncrease(cs) THEN "passed"
                                                             ELSE "thrown"
  /\ UNCHANGED <<shellVars, seen, sent>>

HostStep ==
  \/ StartXemu \/ SeeLinux \/ TypeCommand \/ SeeExit \/ TimesOut \/ Check

Next == HostStep \/ Crash \/ ((GuestStep \/ KernelStep) /\ UNCHANGED host)

(* The script polls, reaches its limit and goes on; nothing is assumed of  *)
(* the guest.                                                              *)
Spec ==
  /\ Init /\ [][Next]_vars
  /\ WF_vars(StartXemu) /\ WF_vars(SeeExit \/ TimesOut) /\ WF_vars(Check)

GateTypeOK ==
  /\ TypeOK
  /\ hpc \in {"boot", "watch", "check", "done"}
  /\ seen \in BOOLEAN /\ sent \in BOOLEAN
  /\ Len(counts) <= BootCount /\ outcome \in {"none", "passed", "thrown"}

(* A gate that passed never killed a guest, and a guest that powered       *)
(* itself off had its root read-only: a SAFE left by an earlier boot, or   *)
(* written before a remount that was refused, is not enough.               *)
PassedMeansStoppedItself ==
  outcome = "passed" =>
    \A i \in 1..Len(stops) :
      /\ stops[i].by # "kill"
      /\ stops[i].by = "poweroff" => stops[i].mode = "ro"

(* The criterion the gate prints when it passes: "Linux reached and        *)
(* powered xemu off on all requested boot(s)".                             *)
PassedMeansPoweredOff ==
  outcome = "passed" => \A i \in 1..Len(stops) : stops[i].by = "poweroff"

(* The script always ends.                                                 *)
GateEnds == <>(hpc = "done")
=============================================================================
