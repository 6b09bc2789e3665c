----------------------------- MODULE TczResolver -----------------------------
(***************************************************************************)
(* download_tinycore_tcz.py: the extensions named on the command line and  *)
(* everything they depend on are fetched into one directory, and the order *)
(* in which they have to be loaded is written beside them.  The directory  *)
(* outlives the run: a run may fail at any fetch, or be killed at any      *)
(* moment and leave the file it was writing torn, and the next run goes on *)
(* with what it finds.  The mirror may replace its packages at any time.   *)
(***************************************************************************)
EXTENDS TinyCoreNames, SequencesExt, FiniteSetsExt

CONSTANTS
  Seeds,        \* the command line
  Deps,         \* what <name>.dep lists; <<>> when the mirror has none
  Packed,       \* for each version of the mirror, what it has a .tcz of
  Summed,       \* extensions it has a .md5.txt of
  Cut,          \* a name cut short in the middle
  MaxVersion,   \* bound: versions of the packages on the mirror
  MaxRuns       \* bound: runs of the script

ASSUME ResolverAssumption ==
  /\ Seeds \in Seq(Ext) /\ Deps \in [Ext -> Seq(Ext)]
  /\ Packed \in [1..MaxVersion -> SUBSET Ext] /\ Summed \subseteq Ext
  /\ Cut \notin Ext
  /\ MaxVersion \in Nat \ {0} /\ MaxRuns \in Nat

Absent == 0
Torn == -1
File == {Absent, Torn} \cup 1..MaxVersion

VARIABLES
  mirror,    \* version of the packages on the mirror
  tcz, sum,  \* the packages and their checksums in the directory
  order,     \* desktop-load-order.txt
  pc,        \* what the run does next; "idle" between runs
  stack,     \* the calls of visit, each with the dependencies it has left
  seen,
  ordered,
  runs       \* runs begun

run == <<pc, stack, seen, ordered, runs>>
resolverVars == <<mirror, tcz, sum, order, run>>

NoOrder == [there |-> FALSE, names |-> <<>>]
Root == [ext |-> Cut, todo |-> Seeds]     \* the loop over the seeds
Frame == [ext : Ext \cup {Cut}, todo : Seq(Ext)]

ResolverInit ==
  /\ mirror = 1
  /\ tcz = [e \in Ext |-> Absent] /\ sum = [e \in Ext |-> Absent]
  /\ order = NoOrder
  /\ pc = "idle" /\ stack = <<Root>> /\ seen = {} /\ ordered = <<>> /\ runs = 0

StartResolver ==
  /\ pc = "idle" /\ runs < MaxRuns
  /\ pc' = "visit" /\ runs' = runs + 1
  /\ UNCHANGED <<mirror, tcz, sum, order, stack, seen, ordered>>

(* However the process ends, what it had in memory is gone.                *)
Exit ==
  /\ pc' = "idle" /\ stack' = <<Root>> /\ seen' = {} /\ ordered' = <<>>
  /\ UNCHANGED <<mirror, runs>>

-----------------------------------------------------------------------------
Top == Last(stack)
Advanced == Append(Front(stack), [Top EXCEPT !.todo = Tail(@)])
Calling == pc = "visit" /\ Top.todo # <<>>
Returning == pc = "visit" /\ Top.todo = <<>> /\ Top.ext \in Ext
Finishing == pc = "visit" /\ Top.todo = <<>> /\ Top.ext = Cut

VisitSeen ==
  /\ Calling /\ Head(Top.todo) \in seen
  /\ stack' = Advanced
  /\ UNCHANGED <<mirror, tcz, sum, order, pc, seen, ordered, runs>>

(* Marked as seen before its dependencies are visited: a cycle ends here.  *)
Enter(d) ==
  /\ seen' = seen \cup {d}
  /\ stack' = Append(Advanced, [ext |-> d, todo |-> Deps[d]])

(* Mutant: the order is taken on the way in.                               *)
VisitNewFirst ==
  /\ Calling /\ Head(Top.todo) \notin seen
  /\ Enter(Head(Top.todo))
  /\ ordered' = Append(ordered, Head(Top.todo))
  /\ UNCHANGED <<mirror, tcz, sum, order, pc, runs>>

VisitNew ==
  /\ Calling /\ Head(Top.todo) \notin seen
  /\ Enter(Head(Top.todo))
  /\ UNCHANGED <<mirror, tcz, sum, order, pc, ordered, runs>>

(* Mutant: a package that is there is fetched again.                       *)
FetchedAlways(e) == e \in Packed[mirror]

(* A package that is there is kept, whatever it holds.                     *)
Fetched(e) == tcz[e] = Absent /\ e \in Packed[mirror]

(* 404 is no error: an extension may be listed without a package.          *)
FetchPackage ==
  /\ Returning
  /\ tcz' = IF Fetched(Top.ext) THEN [tcz EXCEPT ![Top.ext] = mirror] ELSE tcz
  /\ pc' = "sum"
  /\ UNCHANGED <<mirror, sum, order, stack, seen, ordered, runs>>

FetchSum ==
  /\ pc = "sum"
  /\ sum' = IF Top.ext \in Summed THEN [sum EXCEPT ![Top.ext] = mirror] ELSE sum
  /\ pc' = "verify"
  /\ UNCHANGED <<mirror, tcz, order, stack, seen, ordered, runs>>

(* Mutant: only a missing package is noticed.                              *)
VerifiedPresence(e) == sum[e] = Absent \/ tcz[e] # Absent

(* Without a checksum nothing is compared, not even that there is a file.  *)
Verified(e) == sum[e] = Absent \/ (sum[e] # Torn /\ tcz[e] = sum[e])

(* Mutant: an extension is marked only while its dependencies are visited. *)
VerifyForgets ==
  /\ pc = "verify" /\ Verified(Top.ext)
  /\ ordered' = Append(ordered, Top.ext) /\ seen' = seen \ {Top.ext}
  /\ stack' = Front(stack)
  /\ pc' = "visit"
  /\ UNCHANGED <<mirror, tcz, sum, order, runs>>

Verify ==
  /\ pc = "verify" /\ Verified(Top.ext)
  /\ ordered' = Append(ordered, Top.ext)
  /\ stack' = Front(stack)
  /\ pc' = "visit"
  /\ UNCHANGED <<mirror, tcz, sum, order, seen, runs>>

VerifyFails ==
  /\ pc = "verify" /\ ~ Verified(Top.ext)
  /\ Exit /\ UNCHANGED <<tcz, sum, order>>

WriteOrder ==
  /\ Finishing
  /\ order' = [there |-> TRUE, names |-> ordered]
  /\ Exit /\ UNCHANGED <<tcz, sum>>

(* A fetch raises: of a .dep, of a package that is not there, of a sum, of *)
(* the .info and .list that come between the sum and the comparison.       *)
FetchFails ==
  /\ \/ Calling /\ Head(Top.todo) \notin seen
     \/ Returning /\ tcz[Top.ext] = Absent
     \/ pc \in {"sum", "verify"}
  /\ Exit /\ UNCHANGED <<tcz, sum, order>>

(* Killed, or out of disk: the file being written keeps a part of itself;  *)
(* of the order, some lines and perhaps a part of the next.                *)
TornOrders ==
  {[there |-> TRUE, names |-> SubSeq(ordered, 1, n)] : n \in 0..Len(ordered)}
    \cup {[there |-> TRUE, names |-> Append(SubSeq(ordered, 1, n), Cut)] :
            n \in 0..(Len(ordered) - 1)}

KillResolver ==
  /\ pc # "idle"
  /\ Exit
  /\ \/ UNCHANGED <<tcz, sum, order>>
     \/ /\ Returning /\ Fetched(Top.ext)
        /\ tcz' = [tcz EXCEPT ![Top.ext] = Torn]
        /\ UNCHANGED <<sum, order>>
     \/ /\ pc = "sum" /\ Top.ext \in Summed
        /\ sum' = [sum EXCEPT ![Top.ext] = Torn]
        /\ UNCHANGED <<tcz, order>>
     \/ /\ Finishing
        /\ order' \in TornOrders
        /\ UNCHANGED <<tcz, sum>>

(* The distribution replaces its packages, and drops some.                 *)
MirrorMoves ==
  /\ mirror < MaxVersion
  /\ mirror' = mirror + 1
  /\ UNCHANGED <<tcz, sum, order, run>>

ResolverStep ==
  \/ VisitSeen \/ VisitNew \/ FetchPackage \/ FetchSum \/ Verify \/ VerifyFails
  \/ WriteOrder

ResolverNext ==
  StartResolver \/ ResolverStep \/ FetchFails \/ KillResolver \/ MirrorMoves

ResolverSpec == ResolverInit /\ [][ResolverNext]_resolverVars

-----------------------------------------------------------------------------
ResolverTypeOK ==
  /\ mirror \in 1..MaxVersion
  /\ tcz \in [Ext -> File] /\ sum \in [Ext -> File]
  /\ order \in [there : BOOLEAN, names : Seq(Ext \cup {Cut})]
  /\ pc \in {"idle", "visit", "sum", "verify"}
  /\ stack \in Seq(Frame) /\ stack # <<>>
  /\ seen \subseteq Ext /\ ordered \in Seq(Ext)
  /\ pc \in {"sum", "verify"} => Top.ext \in Ext
  /\ runs \in Nat

(* All that an extension needs, itself or through others: the least set    *)
(* that holds its dependencies and theirs.                                 *)
Closed(es) == \A e \in es : ToSet(Deps[e]) \subseteq es
Needs ==
  [e \in Ext |->
     {d \in Ext : \A es \in SUBSET Ext :
                    ToSet(Deps[e]) \subseteq es /\ Closed(es) => d \in es}]
Wanted == ToSet(Seeds) \cup UNION {Needs[e] : e \in ToSet(Seeds)}

InOrder(names) ==
  \A i \in DOMAIN names : names[i] \in Ext =>
    \A d \in ToSet(Deps[names[i]]) :
      (\E j \in 1..(i - 1) : names[j] = d) \/ names[i] \in Needs[d]

Intact(names) ==
  \A i \in DOMAIN names : names[i] \in Summed => tcz[names[i]] \in 1..MaxVersion

(* Whatever became of the run that wrote it, finished or killed, the order *)
(* on disk names every extension after all that it needs (unless the two   *)
(* need each other): a list cut short lacks extensions, but holds none     *)
(* without its libraries.                                                  *)
DependenciesFirst == InOrder(order.names)

(* A run about to write the order has each seed and all they need, once.   *)
FinishedOrderIsWhole ==
  Finishing =>
    /\ ToSet(ordered) = Wanted
    /\ IsInjective(ordered)

(* An extension that the order names and the mirror has a checksum of is   *)
(* whole on disk, and no later run, failing or killed, takes that away.    *)
ListedIsIntact == Intact(order.names)
=============================================================================
