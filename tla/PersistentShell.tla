--------------------------- MODULE PersistentShell ---------------------------
(***************************************************************************)
(* The persistent shell guest: PID 1 is an interactive shell that runs one *)
(* typed line, a note to a file and xbox-persistent-shutdown.  What of the *)
(* line reaches the shell intact is not known to the sender.               *)
(***************************************************************************)
EXTENDS ExtRoot, Sequences

CONSTANTS
  Note, Status,     \* the user's file and the shutdown status
  MaxAttempts       \* 5: remount attempts of xbox-persistent-shutdown

ASSUME ShellAssumption ==
  /\ {Note, Status} = File /\ Note # Status
  /\ {"absent", "text", "PENDING", "SAFE", "FAILED"} = Content
  /\ MaxAttempts \in Nat \ {0}

VARIABLES
  pc,         \* what the guest does next
  typed,      \* the parts of the line the console holds for the shell
  attempt,    \* remount attempts begun
  stops       \* history: what stopped the machine, and the mount mode then

guest == <<pc, typed, attempt, stops>>
shellVars == <<root, guest>>

Part == {"note", "shutdown"}
PC == {"off", "kernel", "shell", "pending", "sync pending", "safe", "sync safe",
       "remount", "poweroff", "returned", "failed", "sync failed", "stuck"}

ShellInit ==
  /\ RootInit
  /\ pc = "off" /\ typed = {} /\ attempt = 1 /\ stops = <<>>

PowerOn ==
  /\ pc = "off"
  /\ pc' = "kernel" /\ typed' = {} /\ attempt' = 1
  /\ UNCHANGED <<root, stops>>

(* The machine stops: by its own poweroff, by a kill, or by a crash.       *)
MachineStops(by) ==
  /\ pc # "off"
  /\ pc' = "off" /\ stops' = Append(stops, [by |-> by, mode |-> mode])
  /\ Stop
  /\ UNCHANGED <<typed, attempt>>

SwitchRoot ==
  /\ pc = "kernel"
  /\ MountRw
  /\ pc' = "shell"
  /\ UNCHANGED <<typed, attempt, stops>>

(* echo marker > file                                                      *)
WriteNote ==
  /\ pc = "shell" /\ "note" \in typed
  /\ Put(Note, "text")
  /\ typed' = typed \ {"note"}
  /\ UNCHANGED <<pc, attempt, stops>>

StartShutdown ==
  /\ pc = "shell" /\ typed = {"shutdown"}
  /\ pc' = "pending" /\ typed' = {}
  /\ UNCHANGED <<root, attempt, stops>>

-----------------------------------------------------------------------------
(* xbox-persistent-shutdown                                                *)

WriteStatus(at, content, next) ==
  /\ pc = at
  /\ Put(Status, content)
  /\ pc' = next
  /\ UNCHANGED <<typed, attempt, stops>>

SyncStatus(at, next) ==
  /\ pc = at
  /\ Sync
  /\ pc' = next
  /\ UNCHANGED <<typed, attempt, stops>>

WritePending == WriteStatus("pending", "PENDING", "sync pending")
SyncPending == SyncStatus("sync pending", "safe")

(* SAFE goes to the disk before the remount, after which nothing can.      *)
WriteSafe == WriteStatus("safe", "SAFE", "sync safe")
SyncSafe == SyncStatus("sync safe", "remount")

(* Mutant: the script goes on to power off without looking.                *)
RemountAssumed ==
  /\ pc = "remount"
  /\ Sync
  /\ pc' = "poweroff"
  /\ UNCHANGED <<typed, attempt, stops>>

RemountWorks ==
  /\ pc = "remount"
  /\ RemountRo
  /\ pc' = "poweroff"
  /\ UNCHANGED <<typed, attempt, stops>>

(* Mutant: one attempt too many.                                           *)
RemountRefusedOnceMore ==
  /\ pc = "remount"
  /\ Sync
  /\ attempt' = attempt + 1
  /\ pc' = IF attempt <= MaxAttempts THEN "remount" ELSE "failed"
  /\ UNCHANGED <<typed, stops>>

RemountRefused ==
  /\ pc = "remount"
  /\ Sync
  /\ attempt' = attempt + 1
  /\ pc' = IF attempt < MaxAttempts THEN "remount" ELSE "failed"
  /\ UNCHANGED <<typed, stops>>

PowersOff == pc = "poweroff" /\ MachineStops("poweroff")

PoweroffReturns ==
  /\ pc = "poweroff"
  /\ pc' = "returned"
  /\ UNCHANGED <<root, typed, attempt, stops>>

(* Mutant: the status on disk stays SAFE.                                  *)
GiveUpSilently ==
  /\ pc = "failed"
  /\ pc' = "sync failed"
  /\ UNCHANGED <<root, typed, attempt, stops>>

WriteFailed == WriteStatus("failed", "FAILED", "sync failed")

SyncFailed == SyncStatus("sync failed", "stuck")

-----------------------------------------------------------------------------
ScriptStep ==
  \/ WritePending \/ SyncPending \/ WriteSafe \/ SyncSafe
  \/ RemountWorks \/ RemountRefused \/ PowersOff \/ PoweroffReturns
  \/ WriteFailed \/ SyncFailed

GuestStep == SwitchRoot \/ WriteNote \/ StartShutdown \/ ScriptStep

KernelStep == Writeback /\ UNCHANGED guest

TypeOK ==
  /\ RootTypeOK
  /\ pc \in PC /\ typed \subseteq Part /\ attempt \in 1..(MaxAttempts + 1)

(* "The root is still writable. Do not power off or reset.": a machine     *)
(* about to power itself off has nothing left to lose and SAFE on the      *)
(* disk; one that has given up has replaced that SAFE by the failure.      *)
StatusTellsTheEnd ==
  /\ pc \in {"poweroff", "returned"} => Quiescent /\ disk.files[Status] = "SAFE"
  /\ pc = "stuck" => disk.files[Status] = "FAILED"
=============================================================================
