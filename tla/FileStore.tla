------------------------------ MODULE FileStore ------------------------------
(***************************************************************************)
(* What a run of the stager promises about the files of the volume, with   *)
(* tables, chains and directory slots left out: files are worked on one at *)
(* a time; while one is, it may read as anything, and no other file        *)
(* changes; when the work succeeds the file reads as intended.             *)
(***************************************************************************)
CONSTANTS
  Name,     \* file names
  NoName    \* not a name: no file is being worked on

VARIABLES
  store,    \* what reading each file gives
  busy,     \* the file being worked on, or NoName
  goal      \* what it shall read as when the work succeeds

vars == <<store, busy, goal>>

OnlyBusyChanges == \A n \in Name \ {busy} : store'[n] = store[n]

Init == busy = NoName

(* Work on a file begins.                                                  *)
Begin ==
  /\ busy = NoName /\ busy' \in Name
  /\ UNCHANGED store

(* Somewhere in the middle of it.                                          *)
Work ==
  /\ busy # NoName
  /\ UNCHANGED <<busy, goal>>
  /\ OnlyBusyChanges

(* It succeeds.                                                            *)
Succeed ==
  /\ busy # NoName /\ busy' = NoName
  /\ OnlyBusyChanges
  /\ store'[busy] = goal
  /\ goal' = "done"

(* It is abandoned: an exception, or the process dies.                     *)
Abandon ==
  /\ busy # NoName /\ busy' = NoName
  /\ UNCHANGED store
  /\ goal' = "abandoned"

(* Between two files: the run ends, or another one starts.                 *)
Rest ==
  /\ busy = NoName
  /\ UNCHANGED <<store, busy>>

Next == Begin \/ Work \/ Succeed \/ Abandon \/ Rest

Spec == Init /\ [][Next]_vars
=============================================================================
