------------------------------ MODULE TinyCore ------------------------------
(***************************************************************************)
(* The Tiny Core chain: the extensions are fetched, a medium is made of    *)
(* whatever the runs so far have left, and a machine boots it.             *)
(***************************************************************************)
EXTENDS TinyCoreMedia, TinyCoreGuest

vars == <<resolverVars, mediaVars, guestVars>>

Init == ResolverInit /\ MediaInit /\ GuestInit

HostStep == stage = "host" /\ ResolverNext /\ UNCHANGED <<mediaVars, guestVars>>

BuildStep == Build /\ UNCHANGED guestVars

(* What init will find: the order, and for each name whether there is a    *)
(* file and whether it is whole.                                           *)
Contents ==
  LET names == Ext \cup {LowerCase[e] : e \in Ext}
      body(n) == Read(<<"tcz", n>>).body
      held == {n \in names : body(n) # Absent}
  IN  [order |-> Read(IF medium.kind = "game" THEN Lower(OrderTxt) ELSE OrderTxt).names,
       body |-> [n \in held |-> IF body(n) = Torn THEN "torn" ELSE "whole"]]

(* The medium is put into a machine.  Nothing on the host matters to it    *)
(* any more: the rest of the state goes back to where it began.            *)
BootStep ==
  /\ stage = "made" /\ stage' = "boot"
  /\ Read(CoreGz).body # Absent
  /\ Boot(medium.kind, Contents)
  /\ medium' = NoMedium
  /\ mirror' = 1 /\ tcz' = [e \in Ext |-> Absent] /\ sum' = [e \in Ext |-> Absent]
  /\ order' = NoOrder /\ pc' = "idle" /\ stack' = <<Root>> /\ seen' = {}
  /\ ordered' = <<>> /\ runs' = 0

GuestStep == stage = "boot" /\ GuestNext /\ UNCHANGED <<resolverVars, mediaVars>>

Next == HostStep \/ BuildStep \/ BootStep \/ GuestStep

Spec == Init /\ [][Next]_vars /\ GuestFairness

TypeOK ==
  /\ ResolverTypeOK /\ GuestTypeOK
  /\ stage \in {"host", "made", "boot"}
  /\ medium.kind \in {"none", "iso", "game", "embedded", "ext2"}
  /\ (stage = "made") <=> (medium.kind # "none")
=============================================================================
