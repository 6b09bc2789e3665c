--------------------------- MODULE TinyCoreProofs ---------------------------
(***************************************************************************)
(* The Tiny Core chain, for every set of extensions and dependencies,      *)
(* every mirror, every payload and every machine: what the runs of the     *)
(* resolver leave behind; how init finds the payload, loads it, copies the *)
(* hot set and hands it back; and that the chain, whatever media are made  *)
(* between, is made of the two.                                            *)
(***************************************************************************)
EXTENDS TinyCore, TinyCoreMediaProofs

-----------------------------------------------------------------------------
(* Calls of visit.                                                         *)

LEMMA FrontFacts ==
  ASSUME NEW S, NEW s \in Seq(S), s # <<>>
  PROVE  /\ Len(s) \in Nat \ {0} /\ Last(s) \in S /\ Last(s) = s[Len(s)]
         /\ Front(s) \in Seq(S) /\ Len(Front(s)) = Len(s) - 1
         /\ \A i \in 1..(Len(s) - 1) : Front(s)[i] = s[i]
<1>1. Len(s) \in Nat \ {0} /\ s[Len(s)] \in S
  OBVIOUS
<1>2. Front(s) = SubSeq(s, 1, Len(s) - 1)
  BY DEF Front
<1>3. /\ SubSeq(s, 1, Len(s) - 1) \in Seq(S)
      /\ Len(SubSeq(s, 1, Len(s) - 1)) = Len(s) - 1
      /\ \A i \in 1..(Len(s) - 1) : SubSeq(s, 1, Len(s) - 1)[i] = s[i]
  BY <1>1, SubSeqProperties, SMTT(30)
<1>4. Last(s) = s[Len(s)]
  BY DEF Last
<1> QED  BY <1>1, <1>2, <1>3, <1>4

(* The outermost frame is the loop over the seeds; the others are calls.   *)
Calls ==
  /\ stack[1].ext = Cut
  /\ \A i \in 2..Len(stack) : stack[i].ext \in Ext

TypeInv == ResolverTypeOK /\ Calls

LEMMA RootIsAFrame == Root \in Frame /\ <<Root>> \in Seq(Frame)
BY ResolverAssumption DEF Root, Frame

(* A frame of an extension is not the outermost one.                       *)
LEMMA TopFacts ==
  ASSUME TypeInv
  PROVE  /\ Top \in Frame /\ Top = stack[Len(stack)] /\ Len(stack) \in Nat \ {0}
         /\ Front(stack) \in Seq(Frame) /\ Len(Front(stack)) = Len(stack) - 1
         /\ \A i \in 1..(Len(stack) - 1) : Front(stack)[i] = stack[i]
         /\ Top.ext \in Ext => Len(stack) >= 2
<1>1. stack \in Seq(Frame) /\ stack # <<>>
  BY DEF TypeInv, ResolverTypeOK
<1>2. Top = stack[Len(stack)] /\ Len(stack) \in Nat \ {0} /\ Top \in Frame
  BY <1>1, FrontFacts DEF Top
<1>3. Top.ext \in Ext => Len(stack) >= 2
  BY <1>2, ResolverAssumption DEF TypeInv, Calls
<1> QED  BY <1>1, <1>2, <1>3, FrontFacts

(* A call that takes its next dependency keeps its place on the stack.     *)
LEMMA AdvancedFacts ==
  ASSUME TypeInv, Calling
  PROVE  /\ Advanced \in Seq(Frame) /\ Len(Advanced) = Len(stack)
         /\ \A i \in 1..(Len(stack) - 1) : Advanced[i] = stack[i]
         /\ Advanced[Len(stack)] = [ext |-> Top.ext, todo |-> Tail(Top.todo)]
         /\ Head(Top.todo) \in Ext
<1> DEFINE f == [Top EXCEPT !.todo = Tail(@)]
<1>1. Top \in Frame /\ Top.todo \in Seq(Ext) /\ Top.todo # <<>>
  BY TopFacts DEF Calling, Frame
<1>2. Tail(Top.todo) \in Seq(Ext) /\ Head(Top.todo) \in Ext
  BY <1>1
<1>3. f = [ext |-> Top.ext, todo |-> Tail(Top.todo)]
  BY <1>1, SMTT(30) DEF Frame
<1>4. f \in Frame
  BY <1>1, <1>2, <1>3 DEF Frame
<1>5. Advanced = Append(Front(stack), f)
  BY DEF Advanced
<1> HIDE DEF f
<1>6. /\ Advanced \in Seq(Frame) /\ Len(Advanced) = Len(stack)
      /\ \A i \in 1..(Len(stack) - 1) : Advanced[i] = stack[i]
      /\ Advanced[Len(stack)] = f
  BY <1>4, <1>5, TopFacts
<1> QED  BY <1>2, <1>3, <1>6

-----------------------------------------------------------------------------
(* Type correctness.                                                       *)

LEMMA TypeInvInit == ResolverInit => TypeInv
<1> SUFFICES ASSUME ResolverInit PROVE TypeInv
  OBVIOUS
<1>1. stack \in Seq(Frame) /\ stack # <<>> /\ Calls
  BY RootIsAFrame DEF ResolverInit, Calls, Root
<1>2. 1 \in 1..MaxVersion
  BY ResolverAssumption
<1> QED
  BY <1>1, <1>2, RootIsAFrame
     DEF ResolverInit, TypeInv, ResolverTypeOK, File, Absent, NoOrder

(* However a run ends, the stack is that of the next run's beginning.      *)
LEMMA ExitFacts ==
  ASSUME TypeInv, Exit,
         order' \in [there : BOOLEAN, names : Seq(Ext \cup {Cut})],
         tcz' \in [Ext -> File], sum' \in [Ext -> File]
  PROVE  TypeInv'
<1>1. stack' \in Seq(Frame) /\ stack' # <<>> /\ Calls'
  BY RootIsAFrame DEF Exit, Calls, Root
<1> QED
  BY <1>1 DEF TypeInv, ResolverTypeOK, Exit

LEMMA TypeInvVisit ==
  ASSUME TypeInv, VisitSeen \/ VisitNew \/ StartResolver \/ MirrorMoves
  PROVE  TypeInv'
<1>1. CASE VisitSeen
  <2>1. /\ stack' = Advanced /\ Calling
        /\ UNCHANGED <<mirror, tcz, sum, order, pc, seen, ordered, runs>>
    BY <1>1 DEF VisitSeen
  <2>2. stack' \in Seq(Frame) /\ stack' # <<>> /\ Calls'
    BY <2>1, AdvancedFacts, TopFacts DEF TypeInv, Calls
  <2> QED  BY <2>1, <2>2 DEF TypeInv, ResolverTypeOK, Calling
<1>2. CASE VisitNew
  <2> DEFINE d == Head(Top.todo)
             f == [ext |-> d, todo |-> Deps[d]]
  <2>1. /\ stack' = Append(Advanced, f) /\ seen' = seen \cup {d} /\ Calling
        /\ UNCHANGED <<mirror, tcz, sum, order, pc, ordered, runs>>
    BY <1>2 DEF VisitNew, Enter
  <2>2. d \in Ext /\ f \in Frame /\ Advanced \in Seq(Frame)
    BY <2>1, AdvancedFacts, ResolverAssumption DEF Frame
  <2>3. /\ Len(Advanced) = Len(stack)
        /\ \A i \in 1..(Len(stack) - 1) : Advanced[i] = stack[i]
        /\ Advanced[Len(stack)].ext = Top.ext
    <3> HIDE DEF d, f
    <3>1. Calling
      BY <2>1
    <3> QED  BY <3>1, AdvancedFacts
  <2>4. Len(stack) \in Nat \ {0} /\ Top = stack[Len(stack)]
    BY TopFacts
  <2>5. stack' \in Seq(Frame) /\ Len(stack') = Len(stack) + 1
        /\ (\A i \in 1..Len(stack) : stack'[i] = Advanced[i])
        /\ stack'[Len(stack) + 1] = f
    <3> HIDE DEF f
    <3> QED  BY <2>1, <2>2, <2>3, <2>4
  <2>6. Calls' /\ stack' # <<>>
    <3>1. \A i \in 1..Len(stack) : stack'[i].ext = stack[i].ext
      BY <2>3, <2>4, <2>5
    <3>2. stack'[Len(stack) + 1].ext \in Ext
      BY <2>2, <2>5
    <3> QED  BY <2>4, <2>5, <3>1, <3>2 DEF TypeInv, Calls
  <2> QED  BY <2>1, <2>2, <2>5, <2>6 DEF TypeInv, ResolverTypeOK, Calling
<1>3. CASE StartResolver
  BY <1>3 DEF StartResolver, TypeInv, ResolverTypeOK, Calls
<1>4. CASE MirrorMoves
  BY <1>4, ResolverAssumption DEF MirrorMoves, run, TypeInv, ResolverTypeOK, Calls, Top
<1> QED  BY <1>1, <1>2, <1>3, <1>4

LEMMA TypeInvFetch ==
  ASSUME TypeInv, FetchPackage \/ FetchSum \/ Verify
  PROVE  TypeInv'
<1>0. Top.ext \in Ext /\ mirror \in File
  BY DEF FetchPackage, FetchSum, Verify, Returning, TypeInv, ResolverTypeOK, File
<1>1. CASE FetchPackage
  <2>1. tcz' \in [Ext -> File]
    BY <1>0, <1>1 DEF FetchPackage, TypeInv, ResolverTypeOK
  <2>2. Calls' /\ Top' = Top
    BY <1>1 DEF FetchPackage, TypeInv, Calls, Top
  <2> QED  BY <1>0, <1>1, <2>1, <2>2 DEF FetchPackage, TypeInv, ResolverTypeOK
<1>2. CASE FetchSum
  <2>1. sum' \in [Ext -> File]
    BY <1>0, <1>2 DEF FetchSum, TypeInv, ResolverTypeOK
  <2>2. Calls' /\ Top' = Top
    BY <1>2 DEF FetchSum, TypeInv, Calls, Top
  <2> QED  BY <1>0, <1>2, <2>1, <2>2 DEF FetchSum, TypeInv, ResolverTypeOK
<1>3. CASE Verify
  <2>1. /\ stack' = Front(stack) /\ ordered' = Append(ordered, Top.ext) /\ pc' = "visit"
        /\ UNCHANGED <<mirror, tcz, sum, order, seen, runs>>
    BY <1>3 DEF Verify
  <2>2. stack' \in Seq(Frame) /\ stack' # <<>> /\ Calls'
    <3>1. /\ Len(stack) \in Nat /\ Len(stack) >= 2 /\ stack' \in Seq(Frame)
          /\ Len(stack') = Len(stack) - 1
          /\ \A i \in 1..(Len(stack) - 1) : stack'[i] = stack[i]
      BY <1>0, <2>1, TopFacts
    <3>2. \A i \in 1..Len(stack') : i \in 1..Len(stack) /\ stack'[i] = stack[i]
      BY <3>1
    <3> QED  BY <3>1, <3>2 DEF TypeInv, Calls
  <2>3. ordered' \in Seq(Ext)
    BY <1>0, <2>1 DEF TypeInv, ResolverTypeOK
  <2> QED  BY <2>1, <2>2, <2>3 DEF TypeInv, ResolverTypeOK
<1> QED  BY <1>1, <1>2, <1>3

(* What a run killed in its last write leaves begins like the whole list.  *)
StartsLike(names, whole) ==
  \A i \in DOMAIN names : names[i] \in Ext =>
    i \in DOMAIN whole /\ \A j \in 1..i : names[j] = whole[j]

LEMMA TornOrderFacts ==
  ASSUME ordered \in Seq(Ext), NEW o \in TornOrders
  PROVE  /\ o \in [there : BOOLEAN, names : Seq(Ext \cup {Cut})]
         /\ StartsLike(o.names, ordered)
<1> DEFINE part(n) == SubSeq(ordered, 1, n)
<1>1. ordered \in Seq(Ext \cup {Cut}) /\ Len(ordered) \in Nat
  OBVIOUS
<1>2. \A n \in 0..Len(ordered) :
        /\ part(n) \in Seq(Ext \cup {Cut}) /\ Len(part(n)) = n
        /\ \A i \in 1..n : part(n)[i] = ordered[i]
  BY <1>1, SubSeqProperties
<1> HIDE DEF part
<1>3. CASE \E n \in 0..Len(ordered) : o = [there |-> TRUE, names |-> part(n)]
  <2>1. PICK n \in 0..Len(ordered) : o = [there |-> TRUE, names |-> part(n)]
    BY <1>3
  <2>2. o.names = part(n) /\ o.names \in Seq(Ext \cup {Cut}) /\ Len(o.names) = n
    BY <1>2, <2>1
  <2>3. o \in [there : BOOLEAN, names : Seq(Ext \cup {Cut})]
    BY <2>1, <2>2
  <2> QED  BY <1>1, <1>2, <2>2, <2>3 DEF StartsLike
<1>4. CASE \E n \in 0..(Len(ordered) - 1) :
              o = [there |-> TRUE, names |-> Append(part(n), Cut)]
  <2>1. PICK n \in 0..(Len(ordered) - 1) :
               o = [there |-> TRUE, names |-> Append(part(n), Cut)]
    BY <1>4
  <2>2. n \in 0..Len(ordered)
    BY <1>1
  <2>3. /\ o.names \in Seq(Ext \cup {Cut}) /\ Len(o.names) = n + 1
        /\ \A i \in 1..n : o.names[i] = ordered[i]
        /\ o.names[n + 1] = Cut
    BY <1>2, <2>1, <2>2, AppendProperties
  <2>4. o \in [there : BOOLEAN, names : Seq(Ext \cup {Cut})]
    BY <2>1, <2>3
  <2>5. StartsLike(o.names, ordered)
    BY <1>1, <2>2, <2>3, ResolverAssumption, SMTT(30) DEF StartsLike
  <2> QED  BY <2>4, <2>5
<1> QED  BY <1>3, <1>4 DEF TornOrders, part

LEMMA TypeInvExit ==
  ASSUME TypeInv, VerifyFails \/ WriteOrder \/ FetchFails \/ KillResolver
  PROVE  TypeInv'
<1>1. /\ tcz \in [Ext -> File] /\ sum \in [Ext -> File] /\ ordered \in Seq(Ext)
      /\ order \in [there : BOOLEAN, names : Seq(Ext \cup {Cut})]
  BY DEF TypeInv, ResolverTypeOK
<1>2. Exit
  BY DEF VerifyFails, WriteOrder, FetchFails, KillResolver
<1>3. order' \in [there : BOOLEAN, names : Seq(Ext \cup {Cut})]
  <2>1. [there |-> TRUE, names |-> ordered] \in [there : BOOLEAN, names : Seq(Ext \cup {Cut})]
    BY <1>1
  <2>2. \/ order' = order \/ order' = [there |-> TRUE, names |-> ordered]
        \/ order' \in TornOrders
    BY DEF VerifyFails, WriteOrder, FetchFails, KillResolver
  <2> QED  BY <1>1, <2>1, <2>2, TornOrderFacts
<1>4. tcz' \in [Ext -> File] /\ sum' \in [Ext -> File]
  BY <1>1 DEF VerifyFails, WriteOrder, FetchFails, KillResolver, File
<1> QED  BY <1>2, <1>3, <1>4, ExitFacts

LEMMA TypeInvStep == TypeInv /\ [ResolverNext]_resolverVars => TypeInv'
<1> SUFFICES ASSUME TypeInv, [ResolverNext]_resolverVars PROVE TypeInv'
  OBVIOUS
<1>1. CASE UNCHANGED resolverVars
  BY <1>1 DEF resolverVars, run, TypeInv, ResolverTypeOK, Calls, Top
<1> QED
  BY <1>1, TypeInvVisit, TypeInvFetch, TypeInvExit DEF ResolverNext, ResolverStep

(* Every reachable state of the resolver and its directory is well-typed.  *)
THEOREM ResolverTypeCorrect == ResolverSpec => []ResolverTypeOK
<1>1. TypeInv => ResolverTypeOK
  BY DEF TypeInv
<1> QED  BY <1>1, TypeInvInit, TypeInvStep, PTL DEF ResolverSpec

-----------------------------------------------------------------------------
(* Integrity of what the order names: an extension enters the list only    *)
(* with its sum compared, and no fetch touches a package that is there.    *)

IntactInv ==
  /\ Intact(ordered) /\ Intact(order.names)
  /\ pc = "verify" /\ Top.ext \in Summed => sum[Top.ext] \in 1..MaxVersion

LEMMA IntactInit == ResolverInit => IntactInv
BY DEF ResolverInit, IntactInv, Intact, NoOrder

(* Packages change only where there was none, so a list stays intact.      *)
LEMMA IntactKept ==
  ASSUME TypeInv, ResolverNext, NEW ns, Intact(ns)
  PROVE  \A i \in DOMAIN ns : ns[i] \in Summed => tcz'[ns[i]] \in 1..MaxVersion
<1>1. \A e \in Summed : tcz[e] \in 1..MaxVersion => tcz'[e] = tcz[e]
  <2> SUFFICES ASSUME NEW e \in Summed, tcz[e] \in 1..MaxVersion PROVE tcz'[e] = tcz[e]
    OBVIOUS
  <2>1. e \in Ext /\ tcz[e] # Absent /\ tcz \in [Ext -> File]
    BY ResolverAssumption DEF TypeInv, ResolverTypeOK, Absent
  <2>2. UNCHANGED tcz \/ \E x : tcz' = [tcz EXCEPT ![Top.ext] = x] /\ Fetched(Top.ext)
    BY DEF ResolverNext, ResolverStep, StartResolver, VisitSeen, VisitNew, FetchPackage,
           FetchSum, Verify, VerifyFails, WriteOrder, FetchFails, KillResolver, MirrorMoves
  <2>3. ASSUME NEW x, tcz' = [tcz EXCEPT ![Top.ext] = x], Fetched(Top.ext)
        PROVE  tcz'[e] = tcz[e]
    BY <2>1, <2>3 DEF Fetched
  <2> QED  BY <2>2, <2>3
<1> QED  BY <1>1 DEF Intact

LEMMA IntactWalk ==
  ASSUME TypeInv, IntactInv, ResolverNext,
         StartResolver \/ VisitSeen \/ VisitNew \/ FetchPackage \/ FetchSum \/ MirrorMoves
  PROVE  IntactInv'
<1>1. ordered' = ordered /\ order' = order
  BY DEF StartResolver, VisitSeen, VisitNew, FetchPackage, FetchSum, MirrorMoves, run
<1>2. Intact(ordered)' /\ Intact(order.names)'
  BY <1>1, IntactKept DEF IntactInv, Intact
<1>3. ASSUME pc' = "verify", Top'.ext \in Summed
      PROVE  sum'[Top'.ext] \in 1..MaxVersion
  <2>1. CASE FetchSum
    BY <1>3, <2>1, ResolverAssumption DEF FetchSum, Top, TypeInv, ResolverTypeOK
  <2>2. CASE MirrorMoves
    BY <1>3, <2>2 DEF MirrorMoves, run, Top, IntactInv
  <2> QED
    BY <1>3, <2>1, <2>2
       DEF StartResolver, VisitSeen, VisitNew, FetchPackage, Calling
<1> QED  BY <1>2, <1>3 DEF IntactInv

LEMMA IntactVerify ==
  ASSUME TypeInv, IntactInv, ResolverNext, Verify
  PROVE  IntactInv'
<1>1. /\ tcz' = tcz /\ order' = order /\ pc' = "visit"
      /\ ordered' = Append(ordered, Top.ext)
  BY DEF Verify
<1>2. Top.ext \in Ext /\ ordered \in Seq(Ext)
  BY DEF Verify, TypeInv, ResolverTypeOK
<1>3. Top.ext \in Summed => tcz[Top.ext] \in 1..MaxVersion
  <2> SUFFICES ASSUME Top.ext \in Summed PROVE tcz[Top.ext] \in 1..MaxVersion
    OBVIOUS
  <2>1. sum[Top.ext] \in 1..MaxVersion /\ MaxVersion \in Nat
    BY ResolverAssumption DEF IntactInv, Verify
  <2> QED  BY <2>1 DEF Verify, Verified, Absent
<1>4. Intact(ordered)'
  BY <1>1, <1>2, <1>3, AppendProperties DEF IntactInv, Intact
<1> QED  BY <1>1, <1>4 DEF IntactInv, Intact

LEMMA IntactExit ==
  ASSUME TypeInv, IntactInv, ResolverNext,
         VerifyFails \/ WriteOrder \/ FetchFails \/ KillResolver
  PROVE  IntactInv'
<1>1. ordered' = <<>> /\ pc' = "idle"
  BY DEF VerifyFails, WriteOrder, FetchFails, KillResolver, Exit
<1>2. \/ order' = order \/ order'.names = ordered
      \/ tcz' = tcz /\ order' \in TornOrders
  BY DEF VerifyFails, WriteOrder, FetchFails, KillResolver
<1>3. CASE order' = order
  BY <1>1, <1>3, IntactKept DEF IntactInv, Intact
<1>4. CASE order'.names = ordered
  BY <1>1, <1>4, IntactKept DEF IntactInv, Intact
<1>5. CASE tcz' = tcz /\ order' \in TornOrders
  <2>1. StartsLike(order'.names, ordered)
    BY <1>5, TornOrderFacts DEF TypeInv, ResolverTypeOK
  <2>2. \A i \in DOMAIN order'.names : order'.names[i] \in Summed =>
          i \in DOMAIN ordered /\ order'.names[i] = ordered[i]
    <3> SUFFICES ASSUME NEW i \in DOMAIN order'.names, order'.names[i] \in Summed
                 PROVE  i \in DOMAIN ordered /\ order'.names[i] = ordered[i]
      OBVIOUS
    <3>1. i \in DOMAIN ordered /\ \A j \in 1..i : order'.names[j] = ordered[j]
      BY <2>1, ResolverAssumption DEF StartsLike
    <3>2. i \in 1..i
      BY <3>1 DEF TypeInv, ResolverTypeOK
    <3> QED  BY <3>1, <3>2
  <2> QED  BY <1>1, <1>5, <2>2 DEF IntactInv, Intact
<1> QED  BY <1>2, <1>3, <1>4, <1>5

LEMMA IntactStep ==
  ASSUME TypeInv, IntactInv, [ResolverNext]_resolverVars
  PROVE  IntactInv'
<1>1. CASE UNCHANGED resolverVars
  BY <1>1 DEF resolverVars, run, IntactInv, Intact, Top
<1>2. CASE ResolverNext
  BY <1>2, IntactWalk, IntactVerify, IntactExit DEF ResolverNext, ResolverStep
<1> QED  BY <1>1, <1>2

(* Whatever fails or is killed, and however often the mirror changes: a    *)
(* package that the order on disk names, and that came with a checksum, is *)
(* there and whole.                                                        *)
THEOREM OrderIsIntact == ResolverSpec => []ListedIsIntact
<1>1. IntactInv => ListedIsIntact
  BY DEF IntactInv, ListedIsIntact
<1> QED
  BY <1>1, TypeInvInit, TypeInvStep, IntactInit, IntactStep, PTL DEF ResolverSpec

-----------------------------------------------------------------------------
(* What is needed.                                                         *)

LEMMA DepsAreExtensions == ASSUME NEW e \in Ext PROVE ToSet(Deps[e]) \subseteq Ext
<1>1. Deps[e] \in Seq(Ext)
  BY ResolverAssumption
<1> QED  BY <1>1 DEF ToSet

LEMMA NeedsFacts ==
  ASSUME NEW e \in Ext
  PROVE  /\ ToSet(Deps[e]) \subseteq Needs[e] /\ Needs[e] \subseteq Ext
         /\ Closed(Needs[e])
<1>1. Needs[e] = {d \in Ext : \A es \in SUBSET Ext :
                    ToSet(Deps[e]) \subseteq es /\ Closed(es) => d \in es}
  BY DEF Needs
<1>2. ToSet(Deps[e]) \subseteq Needs[e] /\ Needs[e] \subseteq Ext
  BY <1>1, DepsAreExtensions
<1>3. ASSUME NEW x \in Needs[e], NEW y \in ToSet(Deps[x]) PROVE y \in Needs[e]
  <2>1. x \in Ext /\ y \in Ext
    BY <1>2, <1>3, DepsAreExtensions
  <2>2. ASSUME NEW es \in SUBSET Ext, ToSet(Deps[e]) \subseteq es, Closed(es)
        PROVE  y \in es
    BY <1>1, <2>2 DEF Closed
  <2> QED  BY <1>1, <2>1, <2>2
<1>4. Closed(Needs[e])
  BY <1>3 DEF Closed
<1> QED  BY <1>2, <1>4

LEMMA NeedsLeast ==
  ASSUME NEW e \in Ext, NEW es \in SUBSET Ext, ToSet(Deps[e]) \subseteq es, Closed(es)
  PROVE  Needs[e] \subseteq es
BY DEF Needs

LEMMA WantedFacts ==
  /\ ToSet(Seeds) \subseteq Wanted /\ ToSet(Seeds) \subseteq Ext
  /\ Wanted \subseteq Ext /\ Closed(Wanted)
<1>1. ToSet(Seeds) \subseteq Ext
  BY ResolverAssumption DEF ToSet
<1>2. Wanted \subseteq Ext
  BY <1>1, NeedsFacts DEF Wanted
<1>3. Closed(Wanted)
  BY <1>1, NeedsFacts DEF Wanted, Closed
<1> QED  BY <1>1, <1>2, <1>3 DEF Wanted

LEMMA TailFacts ==
  ASSUME NEW s \in Seq(Ext), s # <<>>
  PROVE  /\ Head(s) \in ToSet(s) /\ ToSet(Tail(s)) \subseteq ToSet(s)
         /\ ToSet(s) \subseteq {Head(s)} \cup ToSet(Tail(s))
<1>1. /\ Head(s) = s[1] /\ Len(s) \in Nat \ {0}
      /\ Len(Tail(s)) = Len(s) - 1
      /\ \A i \in 1..(Len(s) - 1) : Tail(s)[i] = s[i + 1]
      /\ DOMAIN s = 1..Len(s) /\ DOMAIN Tail(s) = 1..(Len(s) - 1)
  BY HeadTailProperties
<1>2. Head(s) \in ToSet(s)
  BY <1>1 DEF ToSet
<1>3. ToSet(Tail(s)) \subseteq ToSet(s)
  <2>1. \A i \in DOMAIN Tail(s) : i + 1 \in DOMAIN s /\ Tail(s)[i] = s[i + 1]
    BY <1>1
  <2> QED  BY <2>1 DEF ToSet
<1>4. ToSet(s) \subseteq {Head(s)} \cup ToSet(Tail(s))
  <2>1. \A i \in DOMAIN s :
          s[i] = Head(s) \/ (i - 1 \in DOMAIN Tail(s) /\ s[i] = Tail(s)[i - 1])
    BY <1>1
  <2> QED  BY <2>1 DEF ToSet
<1> QED  BY <1>2, <1>3, <1>4

LEMMA AppendSet ==
  ASSUME NEW s \in Seq(Ext), NEW e \in Ext
  PROVE  ToSet(Append(s, e)) = ToSet(s) \cup {e}
<1>1. /\ DOMAIN Append(s, e) = DOMAIN s \cup {Len(s) + 1}
      /\ \A i \in DOMAIN s : Append(s, e)[i] = s[i]
      /\ Append(s, e)[Len(s) + 1] = e
  BY AppendProperties
<1> QED  BY <1>1 DEF ToSet

LEMMA InOrderAppend ==
  ASSUME NEW ns \in Seq(Ext), NEW e \in Ext, InOrder(ns),
         \A d \in ToSet(Deps[e]) : d \in ToSet(ns) \/ e \in Needs[d]
  PROVE  InOrder(Append(ns, e))
<1> DEFINE longer == Append(ns, e)
<1>1. /\ DOMAIN longer = 1..(Len(ns) + 1) /\ Len(ns) \in Nat /\ DOMAIN ns = 1..Len(ns)
      /\ \A i \in 1..Len(ns) : longer[i] = ns[i]
      /\ longer[Len(ns) + 1] = e
  BY AppendProperties
<1> HIDE DEF longer
<1>2. ASSUME NEW i \in 1..Len(ns), longer[i] \in Ext, NEW d \in ToSet(Deps[longer[i]])
      PROVE  (\E j \in 1..(i - 1) : longer[j] = d) \/ longer[i] \in Needs[d]
  <2>1. longer[i] = ns[i] /\ \A j \in 1..(i - 1) : longer[j] = ns[j]
    BY <1>1, <1>2
  <2> QED  BY <1>1, <1>2, <2>1 DEF InOrder
<1>3. ASSUME NEW d \in ToSet(Deps[e])
      PROVE  (\E j \in 1..Len(ns) : longer[j] = d) \/ e \in Needs[d]
  BY <1>1 DEF ToSet
<1>4. InOrder(longer)
  <2> SUFFICES ASSUME NEW i \in 1..(Len(ns) + 1), longer[i] \in Ext,
                      NEW d \in ToSet(Deps[longer[i]])
               PROVE  (\E j \in 1..(i - 1) : longer[j] = d) \/ longer[i] \in Needs[d]
    BY <1>1 DEF InOrder
  <2>1. CASE i = Len(ns) + 1
    <3>1. longer[i] = e /\ i - 1 = Len(ns)
      BY <1>1, <2>1
    <3> QED  BY <1>3, <3>1
  <2>2. CASE i \in 1..Len(ns)
    BY <1>2, <2>2
  <2>3. i = Len(ns) + 1 \/ i \in 1..Len(ns)
    BY <1>1
  <2> QED  BY <2>1, <2>2, <2>3
<1> QED  BY <1>4 DEF longer

LEMMA InOrderStart ==
  ASSUME NEW ns, NEW whole \in Seq(Ext), DOMAIN ns \subseteq Nat,
         StartsLike(ns, whole), InOrder(whole)
  PROVE  InOrder(ns)
<1> SUFFICES ASSUME NEW i \in DOMAIN ns, ns[i] \in Ext, NEW d \in ToSet(Deps[ns[i]])
             PROVE  (\E j \in 1..(i - 1) : ns[j] = d) \/ ns[i] \in Needs[d]
  BY DEF InOrder
<1>1. i \in 1..Len(whole) /\ \A j \in 1..i : ns[j] = whole[j]
  BY DEF StartsLike
<1>2. ns[i] = whole[i] /\ \A j \in 1..(i - 1) : ns[j] = whole[j]
  BY <1>1
<1> QED  BY <1>1, <1>2 DEF InOrder

-----------------------------------------------------------------------------
(* The walk.  A call stands for an extension that is marked but not listed *)
(* yet, needed by all the calls below it; what it still has to ask for and *)
(* what is marked make up its dependencies.                                *)

Asks(f) == IF f.ext = Cut THEN ToSet(Seeds) ELSE ToSet(Deps[f.ext])
OnStack == {stack[i].ext : i \in 2..Len(stack)}

FramesInv ==
  \A i \in 1..Len(stack) :
    /\ ToSet(stack[i].todo) \subseteq Asks(stack[i])
    /\ Asks(stack[i]) \subseteq seen \cup ToSet(stack[i].todo)
ChainInv ==
  \A i, j \in 2..Len(stack) : i < j =>
    stack[j].ext \in Needs[stack[i].ext] /\ stack[j].ext # stack[i].ext
SeenInv ==
  /\ seen = ToSet(ordered) \cup OnStack
  /\ ToSet(ordered) \cap OnStack = {}
  /\ seen \subseteq Wanted
ListInv ==
  /\ IsInjective(ordered)
  /\ \A e \in ToSet(ordered) : ToSet(Deps[e]) \subseteq seen
  /\ InOrder(ordered)
LeafInv == pc \in {"sum", "verify"} => Top.todo = <<>>

WalkInv ==
  /\ FramesInv /\ ChainInv /\ SeenInv /\ ListInv /\ LeafInv
  /\ DependenciesFirst

(* The loop over the seeds at the beginning of a run.                      *)
NothingDone == stack = <<Root>> /\ seen = {} /\ ordered = <<>> /\ pc = "idle"

LEMMA RootWalk ==
  NothingDone => FramesInv /\ ChainInv /\ SeenInv /\ ListInv /\ LeafInv
<1> SUFFICES ASSUME NothingDone
             PROVE  FramesInv /\ ChainInv /\ SeenInv /\ ListInv /\ LeafInv
  OBVIOUS
<1> USE DEF NothingDone
<1>1. Len(stack) = 1 /\ stack[1] = Root
  OBVIOUS
<1>2. FramesInv
  BY <1>1 DEF FramesInv, Root, Asks
<1>3. OnStack = {} /\ ChainInv
  BY <1>1 DEF OnStack, ChainInv
<1>4. ToSet(ordered) = {} /\ IsInjective(ordered) /\ InOrder(ordered)
  BY DEF ToSet, IsInjective, InOrder
<1> QED  BY <1>2, <1>3, <1>4 DEF SeenInv, ListInv, LeafInv

LEMMA WalkInit == ResolverInit => WalkInv
<1> SUFFICES ASSUME ResolverInit PROVE WalkInv
  OBVIOUS
<1>1. DependenciesFirst
  BY DEF ResolverInit, NoOrder, DependenciesFirst, InOrder
<1> QED  BY <1>1, RootWalk DEF ResolverInit, WalkInv, NothingDone

(* A call that takes its next dependency.                                  *)
LEMMA AdvancedWalk ==
  ASSUME TypeInv, FramesInv, Calling
  PROVE  /\ Len(Advanced) = Len(stack)
         /\ \A i \in 1..Len(stack) :
              /\ Advanced[i].ext = stack[i].ext
              /\ ToSet(Advanced[i].todo) \subseteq Asks(stack[i])
              /\ Asks(stack[i]) \subseteq
                   seen \cup {Head(Top.todo)} \cup ToSet(Advanced[i].todo)
<1>1. /\ Len(Advanced) = Len(stack) /\ Len(stack) \in Nat \ {0}
      /\ \A i \in 1..(Len(stack) - 1) : Advanced[i] = stack[i]
      /\ Advanced[Len(stack)] = [ext |-> Top.ext, todo |-> Tail(Top.todo)]
      /\ Top = stack[Len(stack)] /\ Top \in Frame
  BY AdvancedFacts, TopFacts
<1>2. Len(stack) \in 1..Len(stack)
  BY <1>1
<1> DEFINE f == Advanced[Len(stack)]
<1>3. Top.todo \in Seq(Ext) /\ Top.todo # <<>>
  BY <1>1 DEF Frame, Calling
<1>4. f.ext = Top.ext /\ f.todo = Tail(Top.todo)
  BY <1>1
<1>5. ToSet(Top.todo) \subseteq Asks(Top) /\ Asks(Top) \subseteq seen \cup ToSet(Top.todo)
  BY <1>1, <1>2 DEF FramesInv
<1>6. /\ f.ext = Top.ext /\ ToSet(f.todo) \subseteq Asks(Top)
      /\ Asks(Top) \subseteq seen \cup {Head(Top.todo)} \cup ToSet(f.todo)
  BY <1>3, <1>4, <1>5, TailFacts
<1>7. ASSUME NEW i \in 1..(Len(stack) - 1)
      PROVE  /\ Advanced[i].ext = stack[i].ext
             /\ ToSet(Advanced[i].todo) \subseteq Asks(stack[i])
             /\ Asks(stack[i]) \subseteq
                  seen \cup {Head(Top.todo)} \cup ToSet(Advanced[i].todo)
  <2>1. i \in 1..Len(stack) /\ Advanced[i] = stack[i]
    BY <1>1, <1>7
  <2> QED  BY <2>1 DEF FramesInv
<1>8. \A i \in 1..Len(stack) : i = Len(stack) \/ i \in 1..(Len(stack) - 1)
  BY <1>1
<1> QED  BY <1>1, <1>6, <1>7, <1>8

LEMMA WalkVisitSeen ==
  ASSUME TypeInv, WalkInv, VisitSeen
  PROVE  WalkInv'
<1>1. /\ Calling /\ Head(Top.todo) \in seen /\ stack' = Advanced
      /\ seen' = seen /\ ordered' = ordered /\ order' = order /\ pc' = pc /\ pc = "visit"
  BY DEF VisitSeen, Calling
<1>2. /\ Len(stack') = Len(stack)
      /\ \A i \in 1..Len(stack) :
           /\ stack'[i].ext = stack[i].ext
           /\ ToSet(stack'[i].todo) \subseteq Asks(stack[i])
           /\ Asks(stack[i]) \subseteq seen \cup ToSet(stack'[i].todo)
  BY <1>1, AdvancedWalk DEF WalkInv
<1>3. \A i \in 1..Len(stack) : Asks(stack'[i]) = Asks(stack[i])
  BY <1>2 DEF Asks
<1>4. FramesInv'
  BY <1>1, <1>2, <1>3 DEF FramesInv, Asks
<1>5. \A i \in 2..Len(stack) : stack'[i].ext = stack[i].ext
  BY <1>2, TopFacts
<1>6. OnStack' = OnStack /\ ChainInv'
  BY <1>2, <1>5 DEF OnStack, ChainInv, WalkInv
<1> QED
  BY <1>1, <1>4, <1>6
     DEF WalkInv, SeenInv, ListInv, LeafInv, DependenciesFirst, InOrder

LEMMA WalkVisitNew ==
  ASSUME TypeInv, WalkInv, VisitNew
  PROVE  WalkInv'
<1> DEFINE d == Head(Top.todo)
           n == Len(stack)
           f == [ext |-> d, todo |-> Deps[d]]
<1>1. /\ Calling /\ d \notin seen /\ stack' = Append(Advanced, f) /\ seen' = seen \cup {d}
      /\ ordered' = ordered /\ order' = order /\ pc' = pc /\ pc = "visit"
  BY DEF VisitNew, Enter, Calling
<1>2. d \in Ext /\ f \in Frame /\ Advanced \in Seq(Frame) /\ Cut \notin Ext
  BY <1>1, AdvancedFacts, ResolverAssumption DEF Frame
<1>3. n \in Nat \ {0} /\ Top = stack[n] /\ Top \in Frame
  BY TopFacts
<1>4. /\ Len(Advanced) = n
      /\ \A i \in 1..n :
           /\ Advanced[i].ext = stack[i].ext
           /\ ToSet(Advanced[i].todo) \subseteq Asks(stack[i])
           /\ Asks(stack[i]) \subseteq seen \cup {d} \cup ToSet(Advanced[i].todo)
  BY <1>1, AdvancedWalk DEF WalkInv
<1>5. f.ext = d /\ f.todo = Deps[d]
  OBVIOUS
<1> HIDE DEF f, d
<1>6. /\ Len(stack') = n + 1 /\ stack'[n + 1] = f
      /\ \A i \in 1..n : stack'[i] = Advanced[i]
  BY <1>1, <1>2, <1>4, AppendProperties
<1>7. d \in Asks(Top)
  <2>1. Top.todo \in Seq(Ext) /\ Top.todo # <<>>
    BY <1>1, <1>3 DEF Frame, Calling
  <2>2. d \in ToSet(Top.todo)
    BY <2>1, TailFacts DEF d
  <2> QED  BY <1>3, <2>2 DEF WalkInv, FramesInv
<1>8. FramesInv'
  <2> SUFFICES ASSUME NEW i \in 1..(n + 1)
               PROVE  /\ ToSet(stack'[i].todo) \subseteq Asks(stack'[i])
                      /\ Asks(stack'[i]) \subseteq seen' \cup ToSet(stack'[i].todo)
    BY <1>6 DEF FramesInv, Asks
  <2>1. CASE i = n + 1
    BY <1>2, <1>5, <1>6, <2>1 DEF Asks
  <2>2. CASE i \in 1..n
    <3>1. stack'[i] = Advanced[i] /\ Asks(stack'[i]) = Asks(stack[i])
      BY <1>4, <1>6, <2>2 DEF Asks
    <3> QED  BY <1>1, <1>4, <2>2, <3>1
  <2>3. i = n + 1 \/ i \in 1..n
    BY <1>3
  <2> QED  BY <2>1, <2>2, <2>3
<1>9. /\ \A i \in 2..n : stack'[i].ext = stack[i].ext /\ stack[i].ext \in OnStack
      /\ stack'[n + 1].ext = d
  BY <1>3, <1>4, <1>5, <1>6 DEF OnStack
<1>10. OnStack' = OnStack \cup {d}
  <2>1. 2..(n + 1) = 2..n \cup {n + 1}
    BY <1>3
  <2> QED  BY <1>6, <1>9, <2>1, SMTT(30) DEF OnStack
<1>11. ASSUME NEW i \in 2..n PROVE d \in Needs[stack[i].ext]
  <2>1. stack[i].ext \in Ext /\ Top.ext \in Ext /\ n \in 2..n
    BY <1>3, <1>11 DEF TypeInv, Calls
  <2>2. d \in ToSet(Deps[Top.ext])
    BY <1>2, <1>7, <2>1 DEF Asks
  <2>3. CASE i = n
    BY <1>3, <2>1, <2>2, <2>3, NeedsFacts
  <2>4. CASE i < n
    <3>1. Top.ext \in Needs[stack[i].ext]
      BY <1>3, <1>11, <2>1, <2>4 DEF WalkInv, ChainInv
    <3> QED  BY <2>1, <2>2, <3>1, NeedsFacts DEF Closed
  <2>5. i = n \/ i < n
    BY <1>3, <1>11
  <2> QED  BY <2>3, <2>4, <2>5
<1>12. ChainInv'
  <2> SUFFICES ASSUME NEW i \in 2..(n + 1), NEW j \in 2..(n + 1), i < j
               PROVE  stack'[j].ext \in Needs[stack'[i].ext] /\ stack'[j].ext # stack'[i].ext
    BY <1>6 DEF ChainInv
  <2>1. i \in 2..n /\ (j = n + 1 \/ j \in 2..n)
    BY <1>3
  <2>2. CASE j = n + 1
    BY <1>1, <1>9, <1>11, <2>1, <2>2 DEF WalkInv, SeenInv
  <2>3. CASE j \in 2..n
    BY <1>9, <2>1, <2>3 DEF WalkInv, ChainInv
  <2> QED  BY <2>1, <2>2, <2>3
<1>13. d \in Wanted
  <2>1. CASE Top.ext = Cut
    BY <1>7, <2>1, WantedFacts DEF Asks
  <2>2. CASE Top.ext # Cut
    <3>1. Top.ext \in Ext
      BY <1>3, <2>2 DEF Frame
    <3>2. n \in 2..n
      BY <1>3, <3>1, TopFacts
    <3>3. Top.ext \in Wanted
      BY <1>3, <1>9, <3>2 DEF WalkInv, SeenInv
    <3> QED  BY <1>7, <2>2, <3>3, WantedFacts DEF Asks, Closed
  <2> QED  BY <2>1, <2>2
<1>14. SeenInv'
  BY <1>1, <1>10, <1>13 DEF WalkInv, SeenInv
<1>15. ListInv' /\ LeafInv' /\ DependenciesFirst'
  BY <1>1 DEF WalkInv, ListInv, LeafInv, DependenciesFirst, InOrder
<1> QED  BY <1>8, <1>12, <1>14, <1>15 DEF WalkInv

(* Between a call's last dependency and its place in the list.             *)
LEMMA WalkFetch ==
  ASSUME TypeInv, WalkInv, StartResolver \/ FetchPackage \/ FetchSum \/ MirrorMoves
  PROVE  WalkInv'
<1>1. UNCHANGED <<stack, seen, ordered, order>>
  BY DEF StartResolver, FetchPackage, FetchSum, MirrorMoves, run
<1>2. LeafInv'
  BY DEF StartResolver, FetchPackage, FetchSum, MirrorMoves, run, Returning, LeafInv,
         WalkInv, Top
<1> QED
  BY <1>1, <1>2
     DEF WalkInv, FramesInv, ChainInv, SeenInv, OnStack, ListInv, DependenciesFirst,
         InOrder, Asks

LEMMA WalkVerify ==
  ASSUME TypeInv, WalkInv, Verify
  PROVE  WalkInv'
<1> DEFINE n == Len(stack)
           e == Top.ext
<1>1. /\ pc = "verify" /\ stack' = Front(stack) /\ seen' = seen /\ order' = order
      /\ ordered' = Append(ordered, e) /\ pc' = "visit"
  BY DEF Verify
<1>2. /\ e \in Ext /\ n \in Nat /\ n >= 2 /\ Top = stack[n] /\ Len(stack') = n - 1
      /\ \A i \in 1..(n - 1) : stack'[i] = stack[i]
  BY <1>1, TopFacts DEF TypeInv, ResolverTypeOK
<1>3. ordered \in Seq(Ext) /\ ToSet(ordered') = ToSet(ordered) \cup {e}
  BY <1>1, <1>2, AppendSet DEF TypeInv, ResolverTypeOK
<1>4. Top.todo = <<>> /\ n \in 1..n /\ n \in 2..n
  BY <1>1, <1>2 DEF WalkInv, LeafInv
<1>5. ToSet(Deps[e]) \subseteq seen
  <2>1. Asks(Top) = ToSet(Deps[e]) /\ ToSet(Top.todo) = {}
    BY <1>2, <1>4, ResolverAssumption DEF Asks, ToSet
  <2> QED  BY <1>2, <1>4, <2>1 DEF WalkInv, FramesInv
<1> HIDE DEF e
<1>6. /\ \A i \in 2..(n - 1) : stack'[i].ext = stack[i].ext /\ stack[i].ext # e
      /\ stack[n].ext = e
  BY <1>2, <1>4 DEF WalkInv, ChainInv, e
<1>7. OnStack = OnStack' \cup {e} /\ e \notin OnStack'
  <2>1. 2..n = 2..(n - 1) \cup {n}
    BY <1>2
  <2> QED  BY <1>2, <1>6, <2>1 DEF OnStack
<1>8. FramesInv'
  <2>1. \A i \in 1..(n - 1) : i \in 1..n /\ stack'[i] = stack[i]
    BY <1>2
  <2> QED  BY <1>1, <1>2, <2>1 DEF WalkInv, FramesInv, Asks
<1>9. ChainInv'
  BY <1>2, SMTT(30) DEF WalkInv, ChainInv
<1>10. SeenInv'
  BY <1>1, <1>3, <1>7 DEF WalkInv, SeenInv
<1>11. IsInjective(ordered')
  <2>1. e \notin ToSet(ordered)
    BY <1>7 DEF WalkInv, SeenInv
  <2>2. /\ DOMAIN ordered' = DOMAIN ordered \cup {Len(ordered) + 1}
        /\ \A i \in DOMAIN ordered : ordered'[i] = ordered[i] /\ ordered[i] \in ToSet(ordered)
        /\ ordered'[Len(ordered) + 1] = e
    BY <1>1, <1>2, <1>3, AppendProperties DEF ToSet, e
  <2> QED  BY <2>1, <2>2 DEF WalkInv, ListInv, IsInjective
<1>12. ASSUME NEW d \in ToSet(Deps[e]) PROVE d \in ToSet(ordered) \/ e \in Needs[d]
  <2>1. CASE d \in OnStack
    <3>1. PICK i \in 2..n : stack[i].ext = d
      BY <2>1 DEF OnStack
    <3>2. CASE i = n
      BY <1>2, <1>6, <1>12, <3>1, <3>2, NeedsFacts DEF e
    <3>3. CASE i < n
      BY <1>4, <1>6, <3>1, <3>3 DEF WalkInv, ChainInv
    <3> QED  BY <1>2, <3>2, <3>3
  <2> QED  BY <1>5, <1>12, <2>1 DEF WalkInv, SeenInv
<1>13. InOrder(ordered')
  BY <1>1, <1>2, <1>3, <1>12, InOrderAppend DEF WalkInv, ListInv, e
<1>14. \A x \in ToSet(ordered') : ToSet(Deps[x]) \subseteq seen'
  BY <1>1, <1>3, <1>5 DEF WalkInv, ListInv
<1>15. ListInv'
  BY <1>11, <1>13, <1>14 DEF ListInv, InOrder
<1>16. LeafInv' /\ DependenciesFirst'
  BY <1>1 DEF WalkInv, LeafInv, DependenciesFirst, InOrder
<1> QED  BY <1>8, <1>9, <1>10, <1>15, <1>16 DEF WalkInv

LEMMA WalkExit ==
  ASSUME TypeInv, WalkInv, VerifyFails \/ WriteOrder \/ FetchFails \/ KillResolver
  PROVE  WalkInv'
<1>1. NothingDone'
  BY DEF VerifyFails, WriteOrder, FetchFails, KillResolver, Exit, NothingDone, Root
<1>2. (FramesInv /\ ChainInv /\ SeenInv /\ ListInv /\ LeafInv)'
  BY <1>1, RootWalk, PTL
<1>3. InOrder(order'.names)
  <2>1. \/ order' = order \/ order'.names = ordered \/ order' \in TornOrders
    BY DEF VerifyFails, WriteOrder, FetchFails, KillResolver
  <2>2. CASE order' \in TornOrders
    <3>1. ordered \in Seq(Ext)
      BY DEF TypeInv, ResolverTypeOK
    <3>2. /\ order' \in [there : BOOLEAN, names : Seq(Ext \cup {Cut})]
          /\ StartsLike(order'.names, ordered)
      BY <2>2, <3>1, TornOrderFacts
    <3>3. order'.names \in Seq(Ext \cup {Cut})
      BY <3>2
    <3>4. DOMAIN order'.names \subseteq Nat
      BY <3>3
    <3> QED  BY <3>1, <3>2, <3>4, InOrderStart DEF WalkInv, ListInv
  <2> QED  BY <2>1, <2>2 DEF WalkInv, ListInv, DependenciesFirst
<1> QED  BY <1>2, <1>3 DEF WalkInv, DependenciesFirst, InOrder

LEMMA WalkStep ==
  ASSUME TypeInv, WalkInv, [ResolverNext]_resolverVars
  PROVE  WalkInv'
<1>1. CASE UNCHANGED resolverVars
  BY <1>1
     DEF resolverVars, run, WalkInv, FramesInv, ChainInv, SeenInv, OnStack, ListInv,
         LeafInv, DependenciesFirst, InOrder, Asks, Top
<1>2. CASE ResolverNext
  BY <1>2, WalkVisitSeen, WalkVisitNew, WalkFetch, WalkVerify, WalkExit
     DEF ResolverNext, ResolverStep
<1> QED  BY <1>1, <1>2

(* The order on disk names every extension after all that it needs, unless *)
(* the two need each other: for every graph of dependencies, with cycles   *)
(* or without, and also after a run killed while it wrote the order.       *)
THEOREM OrderPutsDependenciesFirst == ResolverSpec => []DependenciesFirst
<1>1. WalkInv => DependenciesFirst
  BY DEF WalkInv
<1> QED
  BY <1>1, TypeInvInit, TypeInvStep, WalkInit, WalkStep, PTL DEF ResolverSpec

LEMMA WalkIsWhole == TypeInv /\ WalkInv => FinishedOrderIsWhole
<1> SUFFICES ASSUME TypeInv, WalkInv, Finishing
             PROVE  ToSet(ordered) = Wanted /\ IsInjective(ordered)
  BY DEF FinishedOrderIsWhole
<1>1. Len(stack) \in Nat \ {0} /\ Top = stack[Len(stack)]
  BY TopFacts
<1>2. Len(stack) = 1 /\ Top.ext = Cut /\ Top.todo = <<>>
  <2>1. Top.ext = Cut /\ Top.todo = <<>> /\ Top.ext \notin Ext
    BY ResolverAssumption DEF Finishing
  <2>2. ~ (Len(stack) >= 2)
    BY <1>1, <2>1 DEF TypeInv, Calls
  <2>3. \A k \in Nat \ {0} : k >= 2 \/ k = 1
    OBVIOUS
  <2> QED  BY <1>1, <2>1, <2>2, <2>3
<1>3. OnStack = {}
  BY <1>2 DEF OnStack
<1>4. seen = ToSet(ordered) /\ seen \subseteq Wanted /\ seen \subseteq Ext
  BY <1>3 DEF WalkInv, SeenInv, TypeInv, ResolverTypeOK
<1>5. ToSet(Seeds) \subseteq seen
  <2>1. Asks(Top) = ToSet(Seeds) /\ ToSet(Top.todo) = {} /\ 1 \in 1..Len(stack)
    BY <1>2 DEF Asks, ToSet
  <2> QED  BY <1>1, <1>2, <2>1 DEF WalkInv, FramesInv
<1>6. Closed(seen)
  BY <1>4 DEF Closed, WalkInv, ListInv
<1>7. \A e \in ToSet(Seeds) : Needs[e] \subseteq seen
  <2> SUFFICES ASSUME NEW e \in ToSet(Seeds) PROVE Needs[e] \subseteq seen
    OBVIOUS
  <2>1. e \in Ext /\ ToSet(Deps[e]) \subseteq seen
    BY <1>4, <1>5, <1>6 DEF Closed
  <2> QED  BY <1>4, <1>6, <2>1, NeedsLeast
<1> QED  BY <1>4, <1>5, <1>7 DEF Wanted, WalkInv, ListInv

(* A run that comes to write the order has the seeds and all they need,    *)
(* through whatever chains and cycles, each of them once and nothing else. *)
THEOREM OrderIsWhole == ResolverSpec => []FinishedOrderIsWhole
<1> QED
  BY TypeInvInit, TypeInvStep, WalkInit, WalkStep, WalkIsWhole, PTL DEF ResolverSpec
-----------------------------------------------------------------------------
(* The guest.                                                              *)

Word == Device \cup {NoDisk}
ToCome(d) == \E i \in DOMAIN rest : rest[i] = d

Early == {"off", "list", "scan", "probe", "wait", "unpack", "no payload", "no core"}
UnderDesktop == {"desktop", "desktop over"}

(* Which variables the parts of init have come to use.                     *)
PhaseInv ==
  /\ init \in Early => loaded = {} /\ dirs = {}
  /\ init \in Early \cup {"load"} => record = <<>>
  /\ init = "off" => tries = 0
  /\ init \notin UnderDesktop => session = "off"
  /\ session = "off" => release = "off"

(* A drive with the payload that was there when the scan began is still to *)
(* come.                                                                   *)
SearchInv ==
  /\ init \in {"list", "scan"} => disk = NoDisk /\ tries < MaxTries
  /\ (init = "scan" /\ machine.binds) =>
       \A d \in inTime : (Reachable(d) /\ Holds(d)) => d \notin tried /\ ToCome(d)

(* The extensions passed so far are the first ones of the order.           *)
SuffixOf(s, t) ==
  /\ Len(s) <= Len(t)
  /\ \A i \in 1..Len(s) : s[i] = t[Len(t) - Len(s) + i]
PassedOf(s, t) == {t[i] : i \in 1..(Len(t) - Len(s))}

AllWhole == \A n \in DOMAIN files.body : files.body[n] = "whole"
Uncopied(p) ==
  IF Winner(p) # NoExt THEN Link(Winner(p)) ELSE IF p \in CorePaths THEN Core ELSE Gone

(* Of n whole extensions, those for which there are loop devices.          *)
Mountable(n) == IF n <= machine.loops THEN n ELSE machine.loops
FirstOf(t, n) == {t[i] : i \in 1..n}
MountInv ==
  LET n == Mountable(Len(files.order) - Len(todo))
  IN  loaded = FirstOf(files.order, n) /\ Cardinality(loaded) = n

LoadInv ==
  /\ loaded \subseteq ToSet(files.order)
  /\ init = "load" =>
       /\ SuffixOf(todo, files.order)
       /\ loaded \subseteq PassedOf(todo, files.order)
       /\ IsFiniteSet(loaded)
       /\ AllWhole => MountInv
       /\ \A p \in Path : view[p] = Uncopied(p)

(* The last entry for a path; the hot extension copied last for a path.    *)
In(s, p) == \E i \in DOMAIN s : s[i][1] = p
LastFor(s, p, e) ==
  \E i \in DOMAIN s : s[i] = <<p, e>> /\ \A j \in DOMAIN s : j > i => s[j][1] # p

Hots == IF machine.line.hotset THEN HotOrder ELSE <<>>
Gives(e, p) == e \in loaded /\ p \in Provides[e]
CopiedLast(p, e) ==
  \E a \in 1..(Len(Hots) - Len(todo)) :
    /\ Hots[a] = e /\ Gives(e, p)
    /\ \A b \in (a + 1)..(Len(Hots) - Len(todo)) : ~Gives(Hots[b], p)
NeverCopied(p) == \A b \in 1..(Len(Hots) - Len(todo)) : ~Gives(Hots[b], p)

(* An entry of the record is of an extension that has the path.            *)
RecordInv == \A i \in DOMAIN record : record[i][1] \in Provides[record[i][2]]

CopyInv ==
  init = "copy" =>
    /\ SuffixOf(todo, Hots) /\ RecordInv
    /\ \A p \in Path :
         \/ /\ \E e \in Ext : /\ LastFor(record, p, e) /\ CopiedLast(p, e)
                              /\ view[p] = Copy(e)
         \/ ~In(record, p) /\ NeverCopied(p) /\ view[p] = Uncopied(p)

(* What the release leaves; a path of two hot extensions between the two.  *)
Restored(p) ==
  IF Expected(p) # NoExt THEN Link(Expected(p)) ELSE IF p \in CorePaths THEN Core ELSE Gone
Halfway(p) == Relinked(p) /\ view[p].kind = "link" /\ p \in Provides[view[p].ext]
ExpectedLast(s, p) == In(s, p) => LastFor(s, p, Expected(p)) /\ Expected(p) # NoExt

(* A path that the release is still to come to, and one it has passed.     *)
StillLeft(p) ==
  \/ p \in lost
  \/ release = "link" /\ Head(left)[1] = p
  \/ Halfway(p)
  \/ view[p] = Copy(Expected(p))
Passed(p) == p \in lost \/ view[p] = Restored(p)

(* Under the desktop the record ends with the file that each path is       *)
(* expected to have: before the release a copy, behind it a link.          *)
DesktopInv ==
  init \in UnderDesktop =>
    /\ RecordInv
    /\ release # "off" => SuffixOf(left, record)
    /\ \A p \in Path :
         /\ ExpectedLast(record, p)
         /\ release = "off" =>
              view[p] = IF In(record, p) THEN Copy(Expected(p)) ELSE Restored(p)
         /\ release # "off" =>
              /\ ExpectedLast(left, p)
              /\ IF In(left, p) THEN StillLeft(p) ELSE Passed(p)

ReleaseInv ==
  /\ release \in {"OK", "FAILED"} => left = <<>>
  /\ release = "OK" => lost = {}
-----------------------------------------------------------------------------
(* Lists and sets.                                                         *)

LEMMA MaxFacts ==
  ASSUME NEW n \in Nat, NEW S \in SUBSET (1..n), S # {}
  PROVE  Max(S) \in S /\ \A k \in S : k <= Max(S)
<1> DEFINE R == OpToRel(<, Nat)
           U == {k \in Nat : \A j \in S : j <= k}
<1>1. n \in U
  OBVIOUS
<1>2. PICK m \in U : \A k \in U : <<k, m>> \notin R
  <2>1. IsWellFoundedOn(R, Nat)
    BY NatLessThanWellFounded
  <2> HIDE DEF R
  <2> QED  BY <1>1, <2>1, WFMin
<1>3. \A k \in U : ~ (k < m)
  BY <1>2 DEF OpToRel
<1>4. m \in Nat /\ \A j \in S : j <= m /\ j \in Nat /\ j >= 1
  OBVIOUS
<1> HIDE DEF R
<1>5. m \in S
  <2> SUFFICES ASSUME m \notin S PROVE FALSE
    OBVIOUS
  <2>1. PICK j \in S : TRUE
    OBVIOUS
  <2>2. j \in Nat /\ j >= 1 /\ j <= m
    BY <1>4, <2>1
  <2>3. m - 1 \in Nat /\ \A k \in S : k <= m - 1
    BY <1>4, <2>2
  <2> QED  BY <1>3, <1>4, <2>2, <2>3
<1>6. \A y \in S : m >= y
  BY <1>4
<1>7. Max(S) \in S /\ \A y \in S : Max(S) >= y
  BY <1>5, <1>6 DEF Max
<1> QED  BY <1>7

LEMMA ListingFacts ==
  ASSUME NEW S, IsFiniteSet(S)
  PROVE  /\ SetToSeq(S) \in Seq(S)
         /\ \A x \in S : \E i \in DOMAIN SetToSeq(S) : SetToSeq(S)[i] = x
<1> DEFINE n == Cardinality(S)
           f == SetToSeq(S)
<1>1. n \in Nat /\ ExistsBijection(1..n, S)
  BY FS_CardinalityType
<1>2. \E g \in [1..n -> S] : IsInjective(g)
  BY <1>1 DEF ExistsBijection, Bijection, Injection
<1>3. f \in [1..n -> S] /\ IsInjective(f)
  BY <1>2 DEF SetToSeq
<1>4. f \in Injection(1..n, S)
  BY <1>3 DEF Injection
<1>5. Cardinality(1..n) = n
  BY <1>1, FS_Interval
<1> HIDE DEF f
<1>6. f \in Surjection(1..n, S)
  BY <1>4, <1>5, FS_Injection
<1> QED  BY <1>1, <1>3, <1>6 DEF Surjection, f

LEMMA EmptyList == ASSUME NEW s, s = <<>> PROVE s \in Seq({}) /\ Len(s) = 0 /\ DOMAIN s = {}
<1>1. <<>> \in Seq({}) /\ Len(<<>>) = 0
  OBVIOUS
<1>2. DOMAIN <<>> = 1..Len(<<>>)
  BY <1>1
<1> QED  BY <1>1, <1>2

LEMMA HeadTail ==
  ASSUME NEW S, NEW s \in Seq(S), s # <<>>
  PROVE  /\ Len(s) \in Nat /\ Len(s) > 0 /\ DOMAIN s = 1..Len(s)
         /\ Head(s) = s[1] /\ Head(s) \in S
         /\ Tail(s) \in Seq(S) /\ Len(Tail(s)) = Len(s) - 1
         /\ DOMAIN Tail(s) = 1..(Len(s) - 1)
         /\ \A i \in 1..(Len(s) - 1) : Tail(s)[i] = s[i + 1]
<1>1. /\ Len(s) \in Nat /\ Len(s) > 0 /\ DOMAIN s = 1..Len(s)
      /\ Head(s) = s[1] /\ Head(s) \in S
      /\ Tail(s) \in Seq(S) /\ Len(Tail(s)) = Len(s) - 1
      /\ \A i \in 1..(Len(s) - 1) : Tail(s)[i] = s[i + 1]
  OBVIOUS
<1> QED  BY <1>1

(* What a list holds is its head and what its tail holds.                  *)
LEMMA TailKeeps ==
  ASSUME NEW S, NEW s \in Seq(S), s # <<>>
  PROVE  \A i \in DOMAIN s : s[i] # Head(s) =>
           \E j \in DOMAIN Tail(s) : Tail(s)[j] = s[i]
<1>1. ASSUME NEW i \in DOMAIN s, s[i] # Head(s)
      PROVE  \E j \in DOMAIN Tail(s) : Tail(s)[j] = s[i]
  <2>1. i - 1 \in 1..(Len(s) - 1) /\ (i - 1) + 1 = i
    BY <1>1, HeadTail
  <2> QED  BY HeadTail, <2>1
<1> QED  BY <1>1

LEMMA SuffixTail ==
  ASSUME NEW S, NEW s \in Seq(S), NEW t \in Seq(S), SuffixOf(s, t), s # <<>>
  PROVE  LET k == Len(t) - Len(s) + 1 IN
         /\ SuffixOf(Tail(s), t) /\ Len(t) - Len(Tail(s)) = k
         /\ k \in 1..Len(t) /\ t[k] = Head(s)
         /\ PassedOf(s, t) = {t[i] : i \in 1..(k - 1)}
         /\ PassedOf(Tail(s), t) = PassedOf(s, t) \cup {Head(s)}
<1> DEFINE k == Len(t) - Len(s) + 1
<1>1. /\ Len(s) \in Nat /\ Len(t) \in Nat /\ Len(s) > 0 /\ Len(s) <= Len(t)
      /\ Head(s) = s[1] /\ Len(Tail(s)) = Len(s) - 1
      /\ \A i \in 1..(Len(s) - 1) : Tail(s)[i] = s[i + 1]
      /\ \A i \in 1..Len(s) : s[i] = t[Len(t) - Len(s) + i]
  BY HeadTail DEF SuffixOf
<1>2. k \in 1..Len(t) /\ Len(t) - Len(Tail(s)) = k /\ k - 1 = Len(t) - Len(s)
  BY <1>1
<1>3. t[k] = Head(s)
  BY <1>1
<1>4. SuffixOf(Tail(s), t)
  <2> SUFFICES ASSUME NEW i \in 1..(Len(s) - 1)
               PROVE  Tail(s)[i] = t[Len(t) - Len(Tail(s)) + i]
    BY <1>1 DEF SuffixOf
  <2>1. i + 1 \in 1..Len(s) /\ Len(t) - Len(s) + (i + 1) = Len(t) - Len(Tail(s)) + i
    BY <1>1
  <2> QED  BY <1>1, <2>1
<1>5. PassedOf(s, t) = {t[i] : i \in 1..(k - 1)} /\ PassedOf(Tail(s), t) = {t[i] : i \in 1..k}
  BY <1>2 DEF PassedOf
<1>6. 1..k = (1..(k - 1)) \cup {k}
  BY <1>2
<1> HIDE DEF k
<1>7. {t[i] : i \in 1..k} = {t[i] : i \in 1..(k - 1)} \cup {t[k]}
  BY <1>6
<1> QED  BY <1>2, <1>3, <1>4, <1>5, <1>7 DEF k

LEMMA WholeIsSuffix ==
  ASSUME NEW S, NEW t \in Seq(S)
  PROVE  /\ SuffixOf(t, t) /\ PassedOf(t, t) = {}
         /\ PassedOf(<<>>, t) = ToSet(t) /\ Len(t) \in Nat
<1>1. Len(t) \in Nat /\ DOMAIN t = 1..Len(t) /\ Len(t) - Len(t) = 0 /\ Len(<<>>) = 0
  OBVIOUS
<1>2. 1..0 = {} /\ Len(t) - 0 = Len(t)
  BY <1>1
<1> QED  BY <1>1, <1>2 DEF SuffixOf, PassedOf, ToSet

-----------------------------------------------------------------------------
(* Which extension a path's file comes from.                               *)

LEMMA OrderFacts ==
  ASSUME IsPayload(files)
  PROVE  /\ files.order \in Seq(Ext) /\ Len(files.order) \in Nat
         /\ DOMAIN files.order = 1..Len(files.order)
         /\ \A i, j \in 1..Len(files.order) : files.order[i] = files.order[j] => i = j
<1>1. files.order \in Seq(Ext) /\ IsInjective(files.order)
  BY DEF IsPayload
<1>2. Len(files.order) \in Nat /\ DOMAIN files.order = 1..Len(files.order)
  BY <1>1
<1> QED  BY <1>1, <1>2 DEF IsInjective

LEMMA WinnerFacts ==
  ASSUME IsPayload(files), NEW p
  PROVE  /\ Winner(p) \in Ext \cup {NoExt}
         /\ Winner(p) = NoExt <=> Having(files.order, p) = {}
         /\ Winner(p) # NoExt =>
              \E i \in Having(files.order, p) :
                Winner(p) = files.order[i] /\ \A j \in Having(files.order, p) : j <= i
<1> DEFINE H == Having(files.order, p)
<1>1. CASE H = {}
  BY <1>1 DEF Winner
<1>2. CASE H # {}
  <2>1. H \in SUBSET (1..Len(files.order)) /\ Len(files.order) \in Nat
    BY OrderFacts DEF Having
  <2>2. Max(H) \in H /\ \A j \in H : j <= Max(H)
    BY <1>2, <2>1, MaxFacts
  <2>3. Winner(p) = files.order[Max(H)]
    BY <1>2 DEF Winner
  <2>4. Winner(p) \in Ext
    BY <2>1, <2>2, <2>3, OrderFacts
  <2>5. NoExt \notin Ext
    BY GuestAssumption
  <2> QED  BY <1>2, <2>2, <2>3, <2>4, <2>5
<1> QED  BY <1>1, <1>2

LEMMA WinnerKept ==
  ASSUME UNCHANGED <<files, loaded>>
  PROVE  \A p : Winner(p)' = Winner(p) /\ Uncopied(p)' = Uncopied(p)
<1> SUFFICES ASSUME NEW p
             PROVE  Winner(p)' = Winner(p) /\ Uncopied(p)' = Uncopied(p)
  OBVIOUS
<1>1. Having(files.order, p)' = Having(files.order, p)
  BY DEF Having
<1>2. Winner(p)' = Winner(p)
  BY <1>1 DEF Winner
<1> QED  BY <1>2 DEF Uncopied, Link, Core, Gone

LEMMA ExpectedKept ==
  ASSUME UNCHANGED <<machine, files, loaded>>
  PROVE  \A p : Expected(p)' = Expected(p) /\ Restored(p)' = Restored(p)
<1> SUFFICES ASSUME NEW p
             PROVE  Expected(p)' = Expected(p) /\ Restored(p)' = Restored(p)
  OBVIOUS
<1>1. Having(HotOrder, p)' = Having(HotOrder, p)
  BY DEF Having
<1>2. Winner(p)' = Winner(p)
  BY WinnerKept
<1>3. Expected(p)' = Expected(p)
  BY <1>1, <1>2 DEF Expected
<1> QED  BY <1>3 DEF Restored, Link, Core, Gone

(* An extension loaded after all those loaded so far wins its paths.       *)
LEMMA LaterWins ==
  ASSUME IsPayload(files), files' = files, NEW k \in 1..Len(files.order),
         loaded \subseteq {files.order[i] : i \in 1..(k - 1)},
         loaded' = loaded \cup {files.order[k]}, NEW p
  PROVE  Winner(p)' = IF p \in Provides[files.order[k]] THEN files.order[k] ELSE Winner(p)
<1> DEFINE o == files.order
           H == Having(files.order, p)
<1>1. /\ Len(o) \in Nat /\ DOMAIN o = 1..Len(o)
      /\ \A i, j \in 1..Len(o) : o[i] = o[j] => i = j
  BY OrderFacts
<1>2. \A i \in 1..Len(o) : o[i] \in loaded => i < k
  BY <1>1
<1>3. \A i \in 1..Len(o) : o[i] \in loaded' <=> o[i] \in loaded \/ i = k
  BY <1>1
<1>4. \A i : i \in H' <=> i \in 1..Len(o) /\ o[i] \in loaded' /\ p \in Provides[o[i]]
  BY <1>1 DEF Having
<1>5. \A i : i \in H <=> i \in 1..Len(o) /\ o[i] \in loaded /\ p \in Provides[o[i]]
  BY <1>1 DEF Having
<1>6. CASE p \notin Provides[o[k]]
  <2>1. H' = H
    BY <1>3, <1>4, <1>5, <1>6
  <2> QED  BY <1>6, <2>1 DEF Winner
<1>7. CASE p \in Provides[o[k]]
  <2>1. k \in H' /\ \A i \in H' : i <= k
    BY <1>2, <1>3, <1>4, <1>7
  <2>2. H' \in SUBSET (1..Len(o))
    BY <1>4
  <2>3. Max(H') \in H' /\ \A j \in H' : j <= Max(H')
    BY <1>1, <2>1, <2>2, MaxFacts
  <2>4. Max(H') = k
    BY <1>1, <2>1, <2>2, <2>3
  <2>5. Winner(p)' = o[k]
    BY <2>1, <2>4 DEF Winner
  <2> QED  BY <1>7, <2>5
<1> QED  BY <1>6, <1>7

LEMMA NothingLoaded ==
  ASSUME loaded = {}
  PROVE  \A p : Winner(p) = NoExt
BY DEF Winner, Having

-----------------------------------------------------------------------------
(* The search for the payload.                                             *)

GuestInv ==
  GuestTypeOK /\ PhaseInv /\ SearchInv /\ LoadInv /\ GivenUpJustified /\ WholePayloadLoads

SearchTypes ==
  /\ attached \subseteq Device /\ nodes \subseteq attached /\ inTime \subseteq attached
  /\ disk \in Word /\ (init = "wait" => disk \in Device)
  /\ rest \in Seq(Word) /\ tried \subseteq Word /\ tries \in 0..MaxTries

InitTypes ==
  init \in Settled \cup {"off", "list", "scan", "probe", "wait", "unpack", "load", "copy"}
RootTypes ==
  /\ todo \in Seq(Ext) /\ loaded \subseteq dirs /\ dirs \subseteq Ext
  /\ view \in [Path -> PathState] /\ record \in Seq(Path \X Ext)
DeskTypes ==
  /\ session \in {"off", "starting", "up", "over", "failed"}
  /\ release \in {"off", "next", "link", "OK", "FAILED"} /\ lost \subseteq Path
  /\ left \in Seq(Path \X Ext) /\ (release = "link" => left # <<>>)
NetTypes ==
  /\ net \in {"off", "begun", "dhcp", "up", "OK", "failed", "no eth0"}
  /\ addr \in BOOLEAN /\ dropbear \in BOOLEAN

LEMMA TypeParts ==
  GuestTypeOK <=> /\ machine \in Machine /\ IsPayload(files)
                  /\ InitTypes /\ SearchTypes /\ RootTypes /\ DeskTypes /\ NetTypes
<1>1. Word = Device \cup {NoDisk}
  BY DEF Word
<1> QED
  BY <1>1, Zenon DEF GuestTypeOK, InitTypes, SearchTypes, RootTypes, DeskTypes, NetTypes

LEMMA TypePartsNext ==
  GuestTypeOK' <=> (/\ machine \in Machine /\ IsPayload(files)
                    /\ InitTypes /\ SearchTypes /\ RootTypes /\ DeskTypes /\ NetTypes)'
BY TypeParts, PTL

LEMMA MachineFacts ==
  ASSUME NEW m \in Machine
  PROVE  /\ m.line.disk \in Word /\ m.addr \in BOOLEAN /\ m.loops \in Nat
         /\ m.binds \in BOOLEAN /\ m.line.hotset \in BOOLEAN
BY DEF Machine, Line, Word

LEMMA GuestInitInv == GuestInit => GuestInv
<1> SUFFICES ASSUME GuestInit PROVE GuestInv
  OBVIOUS
<1>1. machine \in Machine
  <2>1. Machines["iso"] \in (SUBSET Machine) \ {{}} /\ machine = CHOOSE m \in Machines["iso"] : TRUE
    BY GuestAssumption DEF GuestInit, Kind
  <2> QED  BY <2>1
<1>2. IsPayload(files)
  BY DEF GuestInit, NoFiles, IsPayload, IsInjective, ToSet
<1>3. GuestTypeOK
  <2>1. InitTypes /\ DeskTypes
    BY DEF GuestInit, InitTypes, DeskTypes
  <2>2. NetTypes
    BY Zenon DEF GuestInit, NetTypes
  <2>3. SearchTypes
    BY GuestAssumption DEF GuestInit, SearchTypes, Word
  <2>4. RootTypes
    BY DEF GuestInit, RootTypes, Gone, PathState
  <2> QED  BY <1>1, <1>2, <2>1, <2>2, <2>3, <2>4, TypeParts
<1> QED
  BY <1>3
     DEF GuestInit, GuestInv, PhaseInv, SearchInv, LoadInv, GivenUpJustified,
         WholePayloadLoads, Early, UnderDesktop

(* A step of the search touches nothing else.                              *)
LEMMA SearchFrame ==
  ASSUME GuestInv, UNCHANGED <<machine, files, rootFs, session, letGo, network>>,
         init \in Early, init' \in Early \ {"off"}, SearchTypes'
  PROVE  GuestTypeOK' /\ PhaseInv' /\ LoadInv' /\ WholePayloadLoads'
<1>1. UNCHANGED <<machine, files, todo, dirs, loaded, view, record, session, release, left,
                  lost, net, addr, remote, dropbear>>
  BY DEF rootFs, letGo, network
<1>2. init' \notin {"load", "copy", "desktop", "off"} \cup UnderDesktop
      /\ init \notin {"load", "copy"} \cup UnderDesktop
  BY DEF Early, UnderDesktop
<1>3. GuestTypeOK'
  <2>1. machine' \in Machine /\ IsPayload(files)'
    BY <1>1, TypeParts DEF GuestInv, IsPayload
  <2>2. InitTypes'
    BY DEF InitTypes, Early, Settled
  <2>3. (RootTypes /\ DeskTypes /\ NetTypes)'
    BY <1>1, TypeParts DEF GuestInv, RootTypes, DeskTypes, NetTypes
  <2> QED  BY <2>1, <2>2, <2>3, TypePartsNext
<1>4. PhaseInv'
  BY <1>1, <1>2 DEF GuestInv, PhaseInv
<1>5. LoadInv' /\ WholePayloadLoads'
  BY <1>1, <1>2 DEF GuestInv, LoadInv, WholePayloadLoads
<1> QED  BY <1>3, <1>4, <1>5

LEMMA StartStep == ASSUME GuestInv, GuestStart PROVE GuestInv'
<1>1. PICK kind \in Kind : Boot(kind, files') /\ IsPayload(files')
  BY DEF GuestStart
<1>2. /\ init = "off" /\ machine' \in Machine
      /\ init' \in {"list", "unpack", "probe"}
      /\ init' = "list" => disk' = NoDisk
      /\ disk' \in Word /\ addr' \in BOOLEAN
      /\ UNCHANGED <<attached, nodes, rest, tried, tries, inTime, todo, dirs, loaded, view,
                     record, session, release, left, lost, net, remote, dropbear>>
  <2>1. machine' \in Machine
    BY <1>1, GuestAssumption DEF Boot
  <2>2. kind \in {"iso", "game", "embedded", "ext2"}
    BY DEF Kind
  <2>3. \/ init' = "list" /\ kind # "ext2"
        \/ init' \in {"unpack", "probe"}
    BY <1>1, <2>2 DEF Boot
  <2>4. disk' = IF kind = "ext2" THEN machine'.line.disk ELSE NoDisk
    BY <1>1, <2>2 DEF Boot
  <2>5. disk' \in Word /\ addr' \in BOOLEAN
    <3>1. addr' = machine'.addr
      BY <1>1 DEF Boot
    <3> QED  BY <2>1, <2>4, <3>1, MachineFacts DEF Word
  <2>6. init' = "list" => disk' = NoDisk
    BY <2>3, <2>4
  <2>7. /\ init = "off"
        /\ UNCHANGED <<attached, nodes, rest, tried, tries, inTime, rootFs, session, letGo,
                       net, remote, dropbear>>
    BY <1>1 DEF Boot
  <2> QED  BY <2>1, <2>3, <2>5, <2>6, <2>7 DEF rootFs, letGo
<1>3. GuestTypeOK'
  <2>1. (InitTypes /\ SearchTypes /\ RootTypes /\ DeskTypes /\ NetTypes)'
    <3>1. SearchTypes /\ RootTypes /\ DeskTypes /\ NetTypes
      BY TypeParts DEF GuestInv
    <3>2. InitTypes' /\ SearchTypes'
      BY <1>2, <3>1 DEF InitTypes, SearchTypes
    <3>3. RootTypes' /\ DeskTypes'
      BY <1>2, <3>1 DEF RootTypes, DeskTypes
    <3>4. NetTypes'
      BY <1>2, <3>1 DEF NetTypes
    <3> QED  BY <3>2, <3>3, <3>4
  <2>2. machine' \in Machine /\ IsPayload(files)'
    BY <1>1, <1>2 DEF IsPayload
  <2> QED  BY <2>1, <2>2, TypePartsNext
<1>4. PhaseInv' /\ tries = 0 /\ loaded = {}
  BY <1>2 DEF GuestInv, PhaseInv, Early, UnderDesktop
<1>5. SearchInv' /\ LoadInv' /\ GivenUpJustified' /\ WholePayloadLoads'
  <2>1. MaxTries \in Nat \ {0} /\ tries' = 0 /\ loaded' = {}
    BY <1>2, <1>4, GuestAssumption
  <2>2. SearchInv'
    BY <1>2, <2>1 DEF SearchInv
  <2>3. LoadInv' /\ GivenUpJustified' /\ WholePayloadLoads'
    BY <1>2, <2>1 DEF LoadInv, GivenUpJustified, WholePayloadLoads
  <2> QED  BY <2>2, <2>3
<1> QED  BY <1>3, <1>4, <1>5 DEF GuestInv

LEMMA SearchTypesHold == ASSUME GuestInv PROVE SearchTypes
BY DEF GuestInv, GuestTypeOK, SearchTypes, Word

(* The kernel finds a drive: one there when the scan began was there before.*)
LEMMA AttachStep == ASSUME GuestInv, NEW d \in Device, Attach(d) PROVE GuestInv'
<1>1. /\ UNCHANGED <<machine, files, init, nodes, disk, rest, tried, tries, inTime,
                     rootFs, session, letGo, network>>
      /\ init \in Early \ {"off"} /\ attached' = attached \cup {d}
      /\ init # "no payload"
  BY DEF Attach, Early
<1>2. SearchTypes'
  BY <1>1, SearchTypesHold DEF SearchTypes
<1>3. SearchInv' /\ GivenUpJustified'
  BY <1>1, SearchTypesHold
     DEF GuestInv, SearchInv, GivenUpJustified, Holds, Reachable, ToCome, SearchTypes
<1> QED  BY <1>1, <1>2, <1>3, SearchFrame DEF GuestInv

LEMMA SysNamesFacts ==
  /\ SysNames \in Seq(Word) /\ Len(SysNames) \in Nat
  /\ \A d \in Matching \cap attached :
       \E i \in 1..Len(SysNames) : SysNames[i] = d
<1>1. SysOrder \in Seq(Device) /\ Matching \subseteq ToSet(SysOrder)
  BY GuestAssumption
<1>2. Len(SysOrder) \in Nat /\ DOMAIN SysOrder = 1..Len(SysOrder)
      /\ \A i \in 1..Len(SysOrder) : SysOrder[i] \in Device
  BY <1>1
<1>3. SysNames \in [1..Len(SysOrder) -> Word]
  BY <1>2 DEF SysNames, Word
<1>4. SysNames \in Seq(Word) /\ Len(SysNames) = Len(SysOrder)
  BY <1>2, <1>3
<1>5. ASSUME NEW d \in Matching \cap attached
      PROVE  \E i \in 1..Len(SysNames) : SysNames[i] = d
  <2>1. PICK i \in DOMAIN SysOrder : SysOrder[i] = d
    BY <1>1 DEF ToSet
  <2>2. SysNames[i] = d
    BY <2>1 DEF SysNames
  <2> QED  BY <1>2, <1>4, <2>1, <2>2
<1> QED  BY <1>2, <1>4, <1>5

(* The drives tried: those sysfs tells of and the fixed names.             *)
LEMMA ListFacts ==
  LET names == SysNames \o FallbackOrder IN
  /\ names \in Seq(Word)
  /\ \A d \in attached : Reachable(d) => \E i \in DOMAIN names : names[i] = d
<1> DEFINE n == Len(SysNames)
           m == Len(FallbackOrder)
           names == SysNames \o FallbackOrder
<1>1. FallbackOrder \in Seq(Word) /\ FallbackOrder \in Seq(Device)
  BY GuestAssumption DEF Word
<1>2. /\ SysNames \in Seq(Word) /\ n \in Nat /\ m \in Nat
      /\ DOMAIN FallbackOrder = 1..m
  BY <1>1, SysNamesFacts
<1>3. /\ names \in Seq(Word) /\ Len(names) = n + m /\ DOMAIN names = 1..(n + m)
      /\ \A i \in 1..n : names[i] = SysNames[i]
      /\ \A i \in 1..m : names[n + i] = FallbackOrder[i]
  BY <1>1, <1>2
<1> HIDE DEF n, m, names
<1>4. ASSUME NEW d \in attached, d \in Matching
      PROVE  \E i \in DOMAIN names : names[i] = d
  <2>1. PICK i \in 1..n : SysNames[i] = d
    BY <1>4, SysNamesFacts DEF n
  <2>2. i \in 1..(n + m)
    BY <1>2, <2>1
  <2> QED  BY <1>3, <2>1, <2>2
<1>5. ASSUME NEW d \in attached, d \in ToSet(FallbackOrder)
      PROVE  \E i \in DOMAIN names : names[i] = d
  <2>1. PICK i \in 1..m : FallbackOrder[i] = d
    BY <1>2, <1>5 DEF ToSet
  <2>2. n + i \in 1..(n + m)
    BY <1>2, <2>1
  <2> QED  BY <1>3, <2>1, <2>2
<1> QED  BY <1>3, <1>4, <1>5 DEF names, Reachable

LEMMA ListDrivesStep == ASSUME GuestInv, ListDrives PROVE GuestInv'
<1>1. /\ UNCHANGED <<machine, files, attached, rootFs, session, letGo, network, nodes, disk,
                     tries>>
      /\ init = "list" /\ init' = "scan" /\ tried' = {} /\ inTime' = attached
      /\ rest' = SysNames \o FallbackOrder
  BY DEF ListDrives, Looking
<1>2. /\ rest' \in Seq(Word)
      /\ \A d \in attached : Reachable(d) => \E i \in DOMAIN rest' : rest'[i] = d
  BY <1>1, ListFacts
<1>3. SearchTypes'
  BY <1>1, <1>2, SearchTypesHold DEF SearchTypes
<1>4. SearchInv' /\ GivenUpJustified'
  BY <1>1, <1>2
     DEF GuestInv, SearchInv, GivenUpJustified, Reachable, ToCome
<1>5. init \in Early /\ init' \in Early \ {"off"}
  BY <1>1 DEF Early
<1> QED  BY <1>1, <1>3, <1>4, <1>5, SearchFrame DEF GuestInv

LEMMA TryDriveStep == ASSUME GuestInv, TryDrive PROVE GuestInv'
<1> DEFINE d == Head(rest)
<1>1. /\ UNCHANGED <<machine, files, attached, rootFs, session, letGo, network, disk, tries,
                     inTime>>
      /\ init = "scan" /\ rest # <<>> /\ tried' = tried \cup {d}
      /\ nodes' \in {nodes, EnsureBlockNode(d)}
      /\ \/ d \notin tried /\ Holds(d) /\ machine.binds /\ init' = "unpack" /\ rest' = rest
         \/ /\ ~(d \notin tried /\ Holds(d) /\ machine.binds)
            /\ init' = "scan" /\ rest' = Tail(rest)
  BY DEF TryDrive, Looking
<1>2. rest \in Seq(Word) /\ d \in Word /\ rest' \in Seq(Word) /\ nodes' \subseteq attached
  BY <1>1, SearchTypesHold, HeadTail DEF SearchTypes, EnsureBlockNode
<1>3. SearchTypes'
  BY <1>1, <1>2, SearchTypesHold DEF SearchTypes
<1>4. SearchInv'
  <2> SUFFICES ASSUME init' = "scan", machine.binds, NEW x \in inTime, Reachable(x), Holds(x)
               PROVE  x \notin tried' /\ ToCome(x)'
    BY <1>1 DEF GuestInv, SearchInv, Reachable, Holds
  <2>1. x \notin tried /\ ToCome(x) /\ rest' = Tail(rest)
    BY <1>1 DEF GuestInv, SearchInv
  <2>2. x # d
    BY <1>1, <2>1
  <2> QED  BY <1>1, <1>2, <2>1, <2>2, TailKeeps DEF ToCome
<1>5. GivenUpJustified'
  BY <1>1 DEF GivenUpJustified
<1>6. init \in Early /\ init' \in Early \ {"off"}
  BY <1>1 DEF Early
<1> QED  BY <1>1, <1>3, <1>4, <1>5, <1>6, SearchFrame DEF GuestInv

LEMMA NextScanStep == ASSUME GuestInv, NextScan PROVE GuestInv'
<1>1. /\ UNCHANGED <<machine, files, attached, rootFs, session, letGo, network, nodes, disk,
                     rest, tried, inTime>>
      /\ init = "scan" /\ rest = <<>> /\ tries' = tries + 1
      /\ \/ tries' = MaxTries /\ init' = "no payload"
         \/ tries' # MaxTries /\ init' = "list"
  BY DEF NextScan, Looking
<1>2. disk = NoDisk /\ tries < MaxTries /\ tries \in Nat /\ MaxTries \in Nat
  <2>1. disk = NoDisk /\ tries < MaxTries
    BY <1>1 DEF GuestInv, SearchInv
  <2> QED  BY <2>1, SearchTypesHold, GuestAssumption DEF SearchTypes
<1>3. tries' \in 0..MaxTries /\ (init' = "list" => tries' < MaxTries)
  <2>1. tries' = tries + 1 /\ (init' = "list" => tries' # MaxTries)
    BY <1>1
  <2> QED  BY <1>2, <2>1
<1>4. SearchTypes'
  BY <1>1, <1>3, SearchTypesHold DEF SearchTypes
<1>5. SearchInv'
  BY <1>1, <1>2, <1>3 DEF SearchInv
<1>6. machine.binds => \A d \in inTime : Reachable(d) => ~Holds(d)
  <2>1. DOMAIN rest = {}
    BY <1>1, EmptyList
  <2> QED  BY <1>1, <2>1 DEF GuestInv, SearchInv, ToCome
<1>7. GivenUpJustified'
  BY <1>1, <1>2, <1>6 DEF GivenUpJustified, Reachable, Holds
<1>8. init \in Early /\ init' \in Early \ {"off"}
  BY <1>1 DEF Early
<1> QED  BY <1>1, <1>4, <1>5, <1>7, <1>8, SearchFrame DEF GuestInv

LEMMA ProbeStep == ASSUME GuestInv, ProbeDisks \/ WaitForDisk PROVE GuestInv'
<1>1. /\ UNCHANGED <<machine, files, attached, rootFs, session, letGo, network, nodes,
                     rest, tried, inTime>>
      /\ init \in {"probe", "wait"} /\ init' = "wait"
  BY DEF ProbeDisks, WaitForDisk, Looking
<1>2. /\ DiskOrder \in Seq(Device) /\ DiskOrder # <<>> /\ DefaultDisk \in Device
      /\ MaxTries \in Nat
  BY GuestAssumption, HeadTail DEF DefaultDisk
<1>3. disk' \in Device /\ tries' \in 0..MaxTries
  <2>1. CASE ProbeDisks
    <3>1. /\ tries' = tries
          /\ \/ disk' = disk /\ disk # NoDisk
             \/ disk' = DefaultDisk
             \/ \E i \in DOMAIN DiskOrder : disk' = DiskOrder[i]
      BY <2>1 DEF ProbeDisks
    <3> QED  BY <1>2, <3>1, SearchTypesHold DEF SearchTypes, Word
  <2>2. CASE WaitForDisk
    BY <1>2, <2>2, SearchTypesHold DEF WaitForDisk, SearchTypes
  <2> QED  BY <2>1, <2>2
<1>4. SearchTypes'
  BY <1>1, <1>3, SearchTypesHold DEF SearchTypes, Word
<1>5. SearchInv' /\ GivenUpJustified'
  BY <1>1 DEF SearchInv, GivenUpJustified
<1>6. init \in Early /\ init' \in Early \ {"off"}
  BY <1>1 DEF Early
<1> QED  BY <1>1, <1>4, <1>5, <1>6, SearchFrame DEF GuestInv

LEMMA MountDiskStep == ASSUME GuestInv, MountDisk PROVE GuestInv'
<1>1. /\ UNCHANGED <<machine, files, attached, rootFs, session, letGo, network, nodes, disk,
                     rest, tried, tries>>
      /\ init = "wait" /\ (HasNode(disk) \/ tries = MaxTries) /\ inTime' = attached
      /\ init' = IF HasNode(disk) /\ Holds(disk) THEN "unpack" ELSE "no payload"
      /\ disk \in Device /\ disk # NoDisk
  BY SearchTypesHold, GuestAssumption DEF MountDisk, Looking, SearchTypes
<1>2. SearchTypes'
  BY <1>1, SearchTypesHold DEF SearchTypes
<1>3. HasNode(disk) => disk \in attached
  BY SearchTypesHold DEF HasNode, SearchTypes
<1>4. SearchInv' /\ GivenUpJustified'
  BY <1>1, <1>3 DEF SearchInv, GivenUpJustified, Holds
<1>5. init \in Early /\ init' \in Early \ {"off"}
  BY <1>1 DEF Early
<1> QED  BY <1>1, <1>2, <1>4, <1>5, SearchFrame DEF GuestInv

-----------------------------------------------------------------------------
(* The root: Tiny Core, the extensions, the hot set.                       *)

LEMMA StateFacts ==
  /\ \A e \in Ext : Link(e) \in PathState /\ Copy(e) \in PathState
  /\ Core \in PathState /\ Gone \in PathState
BY DEF Link, Copy, Core, Gone, PathState

LEMMA UnpackStep == ASSUME GuestInv, UnpackCore PROVE GuestInv'
<1>1. /\ UNCHANGED <<machine, files, dirs, loaded, record, session, letGo, network>>
      /\ init = "unpack" /\ init' \in {"load", "no core"}
      /\ attached' = {} /\ nodes' = {} /\ disk' = NoDisk /\ rest' = <<>> /\ tried' = {}
      /\ tries' = 0 /\ inTime' = {}
      /\ init' = "load" =>
           /\ todo' = files.order
           /\ view' = [p \in Path |-> IF p \in CorePaths THEN Core ELSE Gone]
      /\ init' = "no core" => UNCHANGED <<todo, view>>
  BY DEF UnpackCore
<1>2. UNCHANGED <<session, release, left, lost, net, addr, remote, dropbear>>
  BY <1>1 DEF letGo, network
<1>3. loaded = {} /\ dirs = {} /\ record = <<>> /\ session = "off" /\ release = "off"
  BY <1>1 DEF GuestInv, PhaseInv, Early, UnderDesktop
<1>4. /\ IsPayload(files) /\ machine \in Machine /\ RootTypes /\ DeskTypes /\ NetTypes
      /\ files.order \in Seq(Ext)
  BY TypeParts, OrderFacts DEF GuestInv
<1>5. GuestTypeOK'
  <2>1. InitTypes' /\ (machine \in Machine)' /\ IsPayload(files)'
    BY <1>1, <1>4 DEF InitTypes, Settled, IsPayload
  <2>2. SearchTypes'
    <3>1. 0 \in 0..MaxTries
      BY GuestAssumption
    <3>2. <<>> \in Seq(Word)
      OBVIOUS
    <3> QED  BY <1>1, <3>1, <3>2 DEF SearchTypes, Word
  <2>3. RootTypes'
    BY <1>1, <1>4, StateFacts DEF RootTypes
  <2>4. DeskTypes' /\ NetTypes'
    BY <1>2, <1>4 DEF DeskTypes, NetTypes
  <2> QED  BY <2>1, <2>2, <2>3, <2>4, TypePartsNext
<1>6. PhaseInv' /\ SearchInv' /\ GivenUpJustified' /\ WholePayloadLoads'
  BY <1>1, <1>2, <1>3
     DEF PhaseInv, SearchInv, GivenUpJustified, WholePayloadLoads, Early, UnderDesktop
<1>7. LoadInv'
  <2>1. loaded' = {} /\ files' = files
    BY <1>1, <1>3
  <2>2. /\ SuffixOf(files.order, files.order) /\ PassedOf(files.order, files.order) = {}
        /\ Len(files.order) \in Nat
    BY <1>4, WholeIsSuffix
  <2>3. IsFiniteSet(loaded') /\ Cardinality(loaded') = 0
    BY <2>1, FS_EmptySet
  <2>4. Mountable(0)' = 0 /\ FirstOf(files.order, 0) = {}
    <3>1. machine'.loops \in Nat
      BY <1>1, <1>4, MachineFacts
    <3> QED  BY <3>1 DEF Mountable, FirstOf
  <2>5. \A p : Winner(p)' = NoExt
    BY <2>1 DEF Winner, Having
  <2>6. init' = "load" => \A p \in Path : view'[p] = Uncopied(p)'
    BY <1>1, <2>5 DEF Uncopied, Core, Gone
  <2>7. CASE init' = "load"
    <3>1. todo' = files'.order /\ files'.order = files.order
      BY <1>1, <2>7
    <3>2. SuffixOf(todo', files'.order) /\ PassedOf(todo', files'.order) = {}
      BY <2>2, <3>1
    <3>3. MountInv'
      <4>1. Len(files'.order) - Len(todo') = 0
        BY <2>2, <3>1
      <4> QED  BY <2>1, <2>3, <2>4, <4>1 DEF MountInv, Mountable, FirstOf
    <3> HIDE DEF SuffixOf, PassedOf
    <3> QED  BY <2>1, <2>3, <2>6, <2>7, <3>1, <3>2, <3>3 DEF LoadInv
  <2>8. CASE init' # "load"
    BY <2>1, <2>8 DEF LoadInv
  <2> QED  BY <2>7, <2>8
<1> QED  BY <1>5, <1>6, <1>7 DEF GuestInv

(* After the search.                                                       *)
LEMMA RootFrame ==
  ASSUME GuestInv, UNCHANGED <<machine, files, search>>,
         init' \notin {"off", "list", "scan", "wait", "no payload"}
  PROVE  /\ SearchTypes' /\ SearchInv' /\ GivenUpJustified'
         /\ (machine \in Machine)' /\ IsPayload(files)'
<1>1. UNCHANGED <<attached, nodes, disk, rest, tried, tries, inTime>>
  BY DEF search
<1>2. machine \in Machine /\ IsPayload(files)
  BY TypeParts DEF GuestInv
<1>3. SearchTypes'
  BY <1>1, SearchTypesHold DEF SearchTypes
<1> QED  BY <1>1, <1>2, <1>3 DEF SearchInv, GivenUpJustified, IsPayload

(* What is found of an extension that the payload lists.                   *)
LEMMA FoundFacts ==
  ASSUME IsPayload(files), NEW e \in ToSet(files.order)
  PROVE  /\ Found(e) \in {"torn", "whole"}
         /\ (\A n \in DOMAIN files.body : files.body[n] = "whole") => Found(e) = "whole"
<1>1. e \in DOMAIN files.body \/ LowerCase[e] \in DOMAIN files.body
  BY DEF IsPayload
<1> QED  BY <1>1 DEF IsPayload, Found

LEMMA LoadNextStep == ASSUME GuestInv, LoadNext PROVE GuestInv'
<1> DEFINE e == Head(todo)
           o == files.order
           k == Len(o) - Len(todo) + 1
           works == Found(e) = "whole" /\ Cardinality(loaded) < machine.loops
<1>1. /\ UNCHANGED <<machine, files, search, session, letGo, network, init, record>>
      /\ init = "load" /\ todo # <<>> /\ todo' = Tail(todo)
      /\ dirs' = IF Found(e) = "none" THEN dirs ELSE dirs \cup {e}
      /\ loaded' = IF works THEN loaded \cup {e} ELSE loaded
      /\ view' = IF works THEN Linked(e) ELSE view
  BY DEF LoadNext, Making
<1>2. UNCHANGED <<session, release, left, lost, net, addr, remote, dropbear>>
  BY <1>1 DEF letGo, network
<1>3. /\ IsPayload(files) /\ machine \in Machine /\ InitTypes /\ RootTypes /\ DeskTypes
      /\ NetTypes
  BY TypeParts DEF GuestInv
<1>4. /\ o \in Seq(Ext) /\ Len(o) \in Nat /\ DOMAIN o = 1..Len(o) /\ todo \in Seq(Ext)
      /\ e \in Ext /\ Tail(todo) \in Seq(Ext) /\ Len(todo) \in Nat
      /\ Len(Tail(todo)) = Len(todo) - 1
  BY <1>1, <1>3, OrderFacts, HeadTail DEF RootTypes
<1>5. /\ SuffixOf(todo, o) /\ loaded \subseteq PassedOf(todo, o)
      /\ IsFiniteSet(loaded)
      /\ AllWhole => MountInv
      /\ \A p \in Path : view[p] = Uncopied(p)
      /\ loaded \subseteq ToSet(o)
  BY <1>1 DEF GuestInv, LoadInv
<1> HIDE DEF e, o, k, works
<1>6. /\ SuffixOf(Tail(todo), o) /\ k \in 1..Len(o) /\ o[k] = e
      /\ PassedOf(todo, o) = {o[i] : i \in 1..(k - 1)}
      /\ PassedOf(Tail(todo), o) = PassedOf(todo, o) \cup {e}
  <2>1. SuffixOf(todo, o) /\ todo # <<>> /\ todo \in Seq(Ext) /\ o \in Seq(Ext)
    BY <1>1, <1>4, <1>5
  <2> QED  BY <2>1, SuffixTail DEF k, e
<1>7. e \in ToSet(o)
  BY <1>4, <1>6 DEF ToSet
<1>8. Found(e) # "none"
  BY <1>3, <1>7, FoundFacts DEF o
<1>9. GuestTypeOK'
  <2>1. RootTypes'
    <3>1. dirs' \subseteq Ext /\ loaded' \subseteq dirs'
      BY <1>1, <1>3, <1>4, <1>8 DEF RootTypes
    <3>2. view' \in [Path -> PathState]
      BY <1>1, <1>3, <1>4, StateFacts DEF RootTypes, Linked
    <3> QED  BY <1>1, <1>3, <1>4, <3>1, <3>2 DEF RootTypes
  <2>2. InitTypes' /\ DeskTypes' /\ NetTypes'
    BY <1>1, <1>2, <1>3 DEF InitTypes, DeskTypes, NetTypes
  <2> QED  BY <1>1, <2>1, <2>2, RootFrame, TypePartsNext
<1>10. PhaseInv'
  BY <1>1, <1>2 DEF GuestInv, PhaseInv, Early
<1>11. LoadInv'
  <2>1. loaded' \subseteq ToSet(o) /\ loaded' \subseteq PassedOf(Tail(todo), o)
    BY <1>1, <1>5, <1>6, <1>7
  <2>2. IsFiniteSet(loaded')
    BY <1>1, <1>5, FS_AddElement
  <2>3. AllWhole => MountInv'
    <3> SUFFICES ASSUME AllWhole PROVE MountInv'
      OBVIOUS
    <3> DEFINE L == machine.loops
    <3>0. PICK n \in Nat : n = k
      BY <1>4, <1>6
    <3>1. Found(e) = "whole"
      BY <1>3, <1>7, FoundFacts DEF AllWhole, o
    <3>2. L \in Nat /\ L' = L
      BY <1>1, <1>3, MachineFacts
    <3>3. n >= 1 /\ Len(o) - Len(todo) = n - 1 /\ Len(o') - Len(todo') = n
      BY <1>1, <1>4, <1>6, <3>0 DEF k, o
    <3>4. loaded = FirstOf(o, Mountable(n - 1)) /\ Cardinality(loaded) = Mountable(n - 1)
      BY <1>5, <3>3 DEF MountInv, o
    <3> HIDE DEF L
    <3>5. CASE n - 1 < L
      <4>1. Mountable(n - 1) = n - 1 /\ Mountable(n)' = n
        BY <3>2, <3>3, <3>5 DEF Mountable, L
      <4>2. works
        BY <3>1, <3>4, <3>5, <4>1 DEF works, L
      <4>3. e \notin loaded
        <5>1. \A i, j \in 1..Len(o) : o[i] = o[j] => i = j
          BY <1>3, OrderFacts DEF o
        <5>2. \A i \in 1..(n - 1) : i \in 1..Len(o) /\ i # n
          BY <1>4, <1>6, <3>0, <3>3
        <5> QED  BY <1>6, <3>0, <3>4, <4>1, <5>1, <5>2 DEF FirstOf
      <4>4. Cardinality(loaded') = n
        <5>1. Cardinality(loaded \cup {e}) = Cardinality(loaded) + 1
          BY <1>5, <4>3, FS_AddElement
        <5> QED  BY <1>1, <3>0, <3>3, <3>4, <4>1, <4>2, <5>1
      <4>5. loaded' = FirstOf(o, n)
        <5>1. 1..n = (1..(n - 1)) \cup {n}
          BY <3>3
        <5>2. FirstOf(o, n) = FirstOf(o, n - 1) \cup {o[n]}
          BY <5>1 DEF FirstOf
        <5> QED  BY <1>1, <1>6, <3>0, <3>4, <4>1, <4>2, <5>2
      <4> QED  BY <1>1, <3>3, <4>1, <4>4, <4>5 DEF MountInv, FirstOf, o
    <3>6. CASE ~(n - 1 < L)
      <4>1. Mountable(n - 1) = L /\ Mountable(n)' = L
        BY <3>2, <3>3, <3>6 DEF Mountable, L
      <4>2. ~works
        BY <3>2, <3>4, <4>1 DEF works, L
      <4> QED  BY <1>1, <3>3, <3>4, <4>1, <4>2 DEF MountInv, FirstOf, o
    <3> QED  BY <3>5, <3>6
  <2>4. \A p \in Path : view'[p] = Uncopied(p)'
    <3> SUFFICES ASSUME NEW p \in Path PROVE view'[p] = Uncopied(p)'
      OBVIOUS
    <3>1. CASE works
      <4>1. Winner(p)' = IF p \in Provides[e] THEN e ELSE Winner(p)
        BY <1>1, <1>3, <1>5, <1>6, <3>1, LaterWins DEF o
      <4>2. view'[p] = IF p \in Provides[e] THEN Link(e) ELSE view[p]
        BY <1>1, <3>1 DEF Linked
      <4>3. e # NoExt
        BY <1>4, GuestAssumption
      <4> QED  BY <1>5, <4>1, <4>2, <4>3 DEF Uncopied, Link, Core, Gone
    <3>2. CASE ~works
      BY <1>1, <1>5, <3>2, WinnerKept
    <3> QED  BY <3>1, <3>2
  <2>5. AllWhole' = AllWhole
    BY <1>1 DEF AllWhole
  <2> QED  BY <1>1, <1>6, <2>1, <2>2, <2>3, <2>4, <2>5 DEF LoadInv, o
<1>12. WholePayloadLoads'
  BY <1>1 DEF WholePayloadLoads
<1> QED  BY <1>1, <1>9, <1>10, <1>11, <1>12, RootFrame DEF GuestInv

LEMMA LoadDoneStep == ASSUME GuestInv, LoadDone PROVE GuestInv'
<1>1. /\ UNCHANGED <<machine, files, search, session, letGo, network, dirs, loaded, view,
                     record>>
      /\ init = "load" /\ todo = <<>> /\ init' = "copy"
      /\ todo' = IF machine.line.hotset THEN HotOrder ELSE <<>>
  BY DEF LoadDone, Making
<1>2. UNCHANGED <<session, release, left, lost, net, addr, remote, dropbear>>
  BY <1>1 DEF letGo, network
<1>3. /\ IsPayload(files) /\ RootTypes /\ DeskTypes /\ NetTypes
      /\ HotOrder \in Seq(Ext) /\ machine \in Machine
  BY TypeParts, GuestAssumption DEF GuestInv
<1>4. GuestTypeOK'
  <2>1. RootTypes'
    BY <1>1, <1>3 DEF RootTypes
  <2>2. InitTypes' /\ DeskTypes' /\ NetTypes'
    BY <1>1, <1>2, <1>3 DEF InitTypes, DeskTypes, NetTypes
  <2> QED  BY <1>1, <2>1, <2>2, RootFrame, TypePartsNext
<1>5. PhaseInv' /\ LoadInv'
  BY <1>1, <1>2 DEF GuestInv, PhaseInv, LoadInv, Early, UnderDesktop
<1>6. AllWhole =>
        loaded = {files.order[i] : i \in DOMAIN files.order \cap 1..machine.loops}
  <2> DEFINE o == files.order
             L == machine.loops
  <2>1. /\ Len(o) \in Nat /\ DOMAIN o = 1..Len(o) /\ Len(todo) = 0 /\ L \in Nat
        /\ Len(o) - Len(todo) = Len(o)
    BY <1>1, <1>3, OrderFacts, EmptyList, MachineFacts
  <2>2. AllWhole => loaded = FirstOf(o, Mountable(Len(o)))
    BY <1>1, <2>1 DEF GuestInv, LoadInv, MountInv
  <2>3. 1..Mountable(Len(o)) = DOMAIN o \cap 1..L
    BY <2>1 DEF Mountable
  <2> QED  BY <2>2, <2>3 DEF FirstOf
<1>7. WholePayloadLoads'
  BY <1>1, <1>6 DEF WholePayloadLoads, AllWhole
<1> QED  BY <1>1, <1>4, <1>5, <1>7, RootFrame DEF GuestInv

(* The hot set is copied.                                                  *)
LEMMA CopiedType ==
  ASSUME view \in [Path -> PathState], NEW e \in Ext, NEW ps
  PROVE  Copied(e, ps) \in [Path -> PathState]
BY StateFacts DEF Copied

EntriesOf(e) == [i \in DOMAIN SetToSeq(Files(e)) |-> <<SetToSeq(Files(e))[i], e>>]

LEMMA EntriesFacts ==
  ASSUME NEW e \in Ext
  PROVE  /\ EntriesOf(e) \in Seq(Path \X Ext)
         /\ \A i \in DOMAIN EntriesOf(e) : EntriesOf(e)[i][2] = e /\ EntriesOf(e)[i][1] \in Files(e)
         /\ \A p \in Files(e) : \E i \in DOMAIN EntriesOf(e) : EntriesOf(e)[i] = <<p, e>>
<1> DEFINE s == SetToSeq(Files(e))
<1>1. Files(e) \subseteq Path /\ IsFiniteSet(Files(e))
  <2>1. Files(e) \in SUBSET Path /\ IsFiniteSet(Path)
    BY GuestAssumption DEF Files
  <2> QED  BY <2>1, FS_Subset
<1>2. s \in Seq(Files(e)) /\ \A p \in Files(e) : \E i \in DOMAIN s : s[i] = p
  BY <1>1, ListingFacts
<1> HIDE DEF s
<1>3. Len(s) \in Nat /\ DOMAIN s = 1..Len(s) /\ \A i \in DOMAIN s : s[i] \in Files(e)
  BY <1>2
<1>4. EntriesOf(e) = [i \in DOMAIN s |-> <<s[i], e>>]
  BY DEF EntriesOf, s
<1>5. EntriesOf(e) \in [1..Len(s) -> Path \X Ext]
  BY <1>1, <1>3, <1>4
<1> QED  BY <1>2, <1>3, <1>4, <1>5

LEMMA CopyStep ==
  ASSUME GuestInv, CopyNext \/ CopyFails \/ CopyMissing
  PROVE  GuestInv'
<1>1. /\ UNCHANGED <<machine, files, search, session, letGo, network, dirs, loaded>>
      /\ init = "copy" /\ init' \in {"copy", "no hot set"} /\ todo # <<>>
  BY DEF CopyNext, CopyFails, CopyMissing, Making, rootFs
<1>2. UNCHANGED <<session, release, left, lost, net, addr, remote, dropbear>>
  BY <1>1 DEF letGo, network
<1>3. /\ RootTypes /\ DeskTypes /\ NetTypes /\ Head(todo) \in Ext
      /\ Tail(todo) \in Seq(Ext)
  BY <1>1, TypeParts, HeadTail DEF GuestInv, RootTypes
<1>4. /\ todo' \in {todo, Tail(todo)} /\ view' \in [Path -> PathState]
      /\ record' \in Seq(Path \X Ext)
  <2>1. CASE CopyNext
    <3>1. /\ todo' = Tail(todo) /\ view' = Copied(Head(todo), Files(Head(todo)))
          /\ record' = record \o EntriesOf(Head(todo))
      BY <2>1 DEF CopyNext, EntriesOf
    <3> QED  BY <1>3, <3>1, CopiedType, EntriesFacts DEF RootTypes
  <2>2. CASE CopyFails
    <3>1. PICK ps, p : view' = [Copied(Head(todo), ps) EXCEPT ![p] = Gone]
      BY <2>2 DEF CopyFails
    <3> QED  BY <1>3, <2>2, <3>1, CopiedType, StateFacts DEF RootTypes, CopyFails
  <2>3. CASE CopyMissing
    BY <1>3, <2>3 DEF CopyMissing, rootFs, RootTypes
  <2> QED  BY <2>1, <2>2, <2>3
<1>5. GuestTypeOK'
  <2>1. RootTypes'
    BY <1>1, <1>3, <1>4 DEF RootTypes
  <2>2. InitTypes' /\ DeskTypes' /\ NetTypes'
    BY <1>1, <1>2, <1>3 DEF InitTypes, DeskTypes, NetTypes, Settled
  <2> QED  BY <1>1, <2>1, <2>2, RootFrame, TypePartsNext
<1>6. PhaseInv' /\ LoadInv' /\ WholePayloadLoads'
  BY <1>1, <1>2
     DEF GuestInv, PhaseInv, LoadInv, WholePayloadLoads, Early, UnderDesktop
<1> QED  BY <1>1, <1>5, <1>6, RootFrame DEF GuestInv

LEMMA StartDesktopStep == ASSUME GuestInv, StartDesktop PROVE GuestInv'
<1>1. /\ UNCHANGED <<machine, files, search, rootFs, letGo, addr, remote, dropbear>>
      /\ init = "copy" /\ init' = "desktop" /\ session' = "starting" /\ net' = "begun"
  BY DEF StartDesktop
<1>2. UNCHANGED <<todo, dirs, loaded, view, record, release, left, lost>>
  BY <1>1 DEF rootFs, letGo
<1>3. RootTypes /\ DeskTypes /\ NetTypes
  BY TypeParts DEF GuestInv
<1>4. GuestTypeOK'
  <2>1. RootTypes' /\ InitTypes' /\ DeskTypes' /\ NetTypes'
    BY <1>1, <1>2, <1>3 DEF RootTypes, InitTypes, DeskTypes, NetTypes, Settled
  <2> QED  BY <1>1, <2>1, RootFrame, TypePartsNext
<1>5. PhaseInv' /\ LoadInv' /\ WholePayloadLoads'
  BY <1>1, <1>2
     DEF GuestInv, PhaseInv, LoadInv, WholePayloadLoads, Early, UnderDesktop
<1> QED  BY <1>1, <1>4, <1>5, RootFrame DEF GuestInv

(* Under the desktop: only the links of the hot set change in the root.    *)
LEMMA DeskFrame ==
  ASSUME GuestInv, UNCHANGED <<machine, files, search, todo, dirs, loaded, record>>,
         init' = init \/ (init = "desktop" /\ init' = "desktop over"),
         view' = view \/ (init \in UnderDesktop /\ view' \in [Path -> PathState]),
         DeskTypes', NetTypes', PhaseInv'
  PROVE  GuestInv'
<1>1. UNCHANGED <<attached, nodes, disk, rest, tried, tries, inTime>>
  BY DEF search
<1>2. /\ machine \in Machine /\ IsPayload(files) /\ InitTypes /\ SearchTypes /\ RootTypes
  BY TypeParts DEF GuestInv
<1>3. GuestTypeOK'
  <2>1. (machine \in Machine)' /\ IsPayload(files)'
    BY <1>2 DEF IsPayload
  <2>2. InitTypes' /\ SearchTypes'
    BY <1>1, <1>2 DEF InitTypes, SearchTypes, Settled
  <2>3. RootTypes'
    BY <1>2 DEF RootTypes
  <2> QED  BY <2>1, <2>2, <2>3, TypePartsNext
<1>4. SearchInv' /\ GivenUpJustified'
  BY <1>1 DEF GuestInv, SearchInv, GivenUpJustified, Holds, Reachable, ToCome
<1>5. WholePayloadLoads'
  BY DEF GuestInv, WholePayloadLoads
<1>6. LoadInv'
  <2>1. CASE init' = "load"
    <3>1. init = "load" /\ view' = view /\ \A p \in Path : Uncopied(p)' = Uncopied(p)
      BY <2>1, WinnerKept DEF UnderDesktop
    <3>2. AllWhole' = AllWhole /\ MountInv' = MountInv
      BY DEF AllWhole, MountInv, Mountable, FirstOf
    <3> QED  BY <3>1, <3>2 DEF GuestInv, LoadInv
  <2>2. CASE init' # "load"
    BY <2>2 DEF GuestInv, LoadInv
  <2> QED  BY <2>1, <2>2
<1> QED  BY <1>3, <1>4, <1>5, <1>6 DEF GuestInv

LEMMA SessionStep ==
  ASSUME GuestInv, XStarts \/ SessionEnds \/ LauncherReturns
  PROVE  GuestInv'
<1>1. /\ UNCHANGED <<machine, files, search, todo, dirs, loaded, record, view, letGo, network>>
      /\ init' = init \/ (init = "desktop" /\ init' = "desktop over")
      /\ session \in {"starting", "up", "over", "failed"}
      /\ session' \in {"up", "over", "failed"}
  BY DEF XStarts, SessionEnds, LauncherReturns, Running
<1>2. UNCHANGED <<release, left, lost, net, addr, remote, dropbear>>
  BY <1>1 DEF letGo, network
<1>3. DeskTypes' /\ NetTypes'
  BY <1>1, <1>2, TypeParts DEF GuestInv, DeskTypes, NetTypes
<1>4. PhaseInv'
  BY <1>1, <1>2 DEF GuestInv, PhaseInv, Early, UnderDesktop
<1> QED  BY <1>1, <1>3, <1>4, DeskFrame

LEMMA ReleaseGuestStep ==
  ASSUME GuestInv, BeginRelease \/ ReleaseStep
  PROVE  GuestInv'
<1>1. /\ UNCHANGED <<machine, files, search, todo, dirs, loaded, record, init, session,
                     network>>
      /\ session \in {"up", "over"} \/ release \in {"next", "link"}
  BY DEF BeginRelease, ReleaseStep, MissingSource, RemoveCopy, RestoreLink, FinishRelease,
         Running
<1>2. UNCHANGED <<net, addr, remote, dropbear>>
  BY <1>1 DEF network
<1>3. RootTypes /\ DeskTypes /\ NetTypes
  BY TypeParts DEF GuestInv
<1>4. init \in UnderDesktop /\ session # "off"
  BY <1>1 DEF GuestInv, PhaseInv
<1>5. NetTypes' /\ PhaseInv'
  <2>1. NetTypes'
    BY <1>2, <1>3 DEF NetTypes
  <2>2. PhaseInv'
    BY <1>1, <1>4 DEF GuestInv, PhaseInv, Early, UnderDesktop
  <2> QED  BY <2>1, <2>2
<1>6. left # <<>> => /\ Head(left) \in Path \X Ext /\ Tail(left) \in Seq(Path \X Ext)
                     /\ Head(left)[1] \in Path /\ Head(left)[2] \in Ext
  BY <1>3, HeadTail DEF DeskTypes
<1>7. DeskTypes' /\ view' \in [Path -> PathState]
  <2>1. CASE BeginRelease
    BY <1>3, <2>1 DEF BeginRelease, DeskTypes, RootTypes
  <2>2. CASE MissingSource
    BY <1>1, <1>3, <1>6, <2>2 DEF MissingSource, DeskTypes, RootTypes
  <2>3. CASE RemoveCopy
    <3>1. view' \in [Path -> PathState]
      BY <1>3, <1>6, <2>3, StateFacts DEF RemoveCopy, RootTypes
    <3> QED  BY <1>1, <1>3, <2>3, <3>1 DEF RemoveCopy, DeskTypes
  <2>4. CASE RestoreLink
    <3>1. left # <<>>
      BY <1>3, <2>4 DEF RestoreLink, DeskTypes
    <3>2. view' \in [Path -> PathState]
      BY <1>3, <1>6, <2>4, <3>1, StateFacts DEF RestoreLink, RootTypes
    <3> QED  BY <1>1, <1>3, <1>6, <2>4, <3>1, <3>2 DEF RestoreLink, DeskTypes
  <2>5. CASE FinishRelease
    BY <1>1, <1>3, <2>5 DEF FinishRelease, DeskTypes, RootTypes
  <2> QED  BY <2>1, <2>2, <2>3, <2>4, <2>5 DEF ReleaseStep
<1> QED  BY <1>1, <1>4, <1>5, <1>7, DeskFrame

LEMMA NetworkStep ==
  ASSUME GuestInv, NetStep \/ RemoteStep \/ UserAsks
  PROVE  GuestInv'
<1>1. /\ UNCHANGED <<machine, files, init, search, rootFs, session, letGo>>
      /\ net' \in {net, "up", "OK", "dhcp", "failed", "no eth0"}
  BY DEF NetStep, RemoteStep, UserAsks, NetBegins, Dhcp, NetUp, RemoteCheck, RemoteStart,
         Networking
<1>2. addr' \in {addr, TRUE} /\ dropbear' \in {dropbear, TRUE}
  BY Zenon DEF NetStep, RemoteStep, UserAsks, NetBegins, Dhcp, NetUp, RemoteCheck, RemoteStart,
         Networking
<1>3. UNCHANGED <<todo, dirs, loaded, view, record, release, left, lost>>
  BY <1>1 DEF rootFs, letGo
<1>4. DeskTypes'
  BY <1>1, <1>3, TypeParts DEF GuestInv, DeskTypes
<1>5. NetTypes'
  <2>1. NetTypes
    BY TypeParts DEF GuestInv
  <2>2. net' \in {"off", "begun", "dhcp", "up", "OK", "failed", "no eth0"}
    BY <1>1, <2>1 DEF NetTypes
  <2>3. addr' \in BOOLEAN /\ dropbear' \in BOOLEAN
    BY <1>2, <2>1, Zenon DEF NetTypes
  <2> QED  BY <2>2, <2>3, Zenon DEF NetTypes
<1>6. PhaseInv'
  BY <1>1, <1>3 DEF GuestInv, PhaseInv, search
<1> QED  BY <1>1, <1>3, <1>4, <1>5, <1>6, DeskFrame

LEMMA GuestInductive ==
  GuestInv /\ [GuestStart \/ GuestNext]_guestVars => GuestInv'
<1> SUFFICES ASSUME GuestInv, [GuestStart \/ GuestNext]_guestVars PROVE GuestInv'
  OBVIOUS
<1>1. CASE GuestStart
  BY <1>1, StartStep
<1>2. CASE InitStep
  BY <1>2, ListDrivesStep, TryDriveStep, NextScanStep, ProbeStep, MountDiskStep, UnpackStep,
     LoadNextStep, LoadDoneStep, CopyStep, StartDesktopStep, SessionStep DEF InitStep
<1>3. CASE GuestNext /\ ~InitStep
  BY <1>3, AttachStep, ReleaseGuestStep, NetworkStep, SessionStep DEF GuestNext
<1>4. CASE UNCHANGED guestVars
  <2>1. UNCHANGED <<machine, files, init, search, todo, dirs, loaded, view, record, session,
                    release, left, lost, net, addr, remote, dropbear>>
    BY <1>4 DEF guestVars, rootFs, letGo, network
  <2>2. DeskTypes' /\ NetTypes' /\ PhaseInv'
    <3>1. DeskTypes' /\ PhaseInv'
      BY <2>1, TypeParts DEF GuestInv, DeskTypes, PhaseInv, search
    <3>2. NetTypes'
      BY <2>1, TypeParts DEF GuestInv, NetTypes
    <3> QED  BY <3>1, <3>2
  <2> QED  BY <2>1, <2>2, DeskFrame
<1> QED  BY <1>1, <1>2, <1>3, <1>4

LEMMA GuestInvHolds == GuestSpec => []GuestInv
<1> QED  BY GuestInitInv, GuestInductive, PTL DEF GuestSpec

-----------------------------------------------------------------------------
(* The hot set and its release.                                            *)

HotInv == CopyInv /\ DesktopInv /\ ReleaseInv

(* A list of entries without its first.                                    *)
LEMMA TailEntries ==
  ASSUME NEW s \in Seq(Path \X Ext), s # <<>>, NEW p
  PROVE  /\ In(s, p) <=> In(Tail(s), p) \/ Head(s)[1] = p
         /\ \A e : LastFor(s, p, e) /\ In(Tail(s), p) => LastFor(Tail(s), p, e)
         /\ \A e : LastFor(s, p, e) /\ ~In(Tail(s), p) => Head(s) = <<p, e>>
<1> DEFINE n == Len(s)
           t == Tail(s)
<1>1. /\ n \in Nat /\ n > 0 /\ DOMAIN s = 1..n /\ Head(s) = s[1]
      /\ DOMAIN t = 1..(n - 1) /\ \A i \in 1..(n - 1) : t[i] = s[i + 1]
  BY HeadTail
<1> HIDE DEF n, t
<1>2. \A i \in 1..n : i = 1 \/ (i - 1 \in 1..(n - 1) /\ t[i - 1] = s[i])
  <2>1. \A i \in 1..n : i # 1 => i - 1 \in 1..(n - 1) /\ (i - 1) + 1 = i
    BY <1>1
  <2> QED  BY <1>1, <2>1
<1>3. \A i \in 1..(n - 1) : i + 1 \in 1..n /\ i + 1 # 1
  BY <1>1
<1>4. In(s, p) <=> In(t, p) \/ Head(s)[1] = p
  <2>1. 1 \in 1..n
    BY <1>1
  <2>2. In(s, p) => In(t, p) \/ Head(s)[1] = p
    BY <1>1, <1>2 DEF In
  <2>3. In(t, p) => In(s, p)
    BY <1>1, <1>3 DEF In
  <2>4. Head(s)[1] = p => In(s, p)
    BY <1>1, <2>1 DEF In
  <2> QED  BY <2>2, <2>3, <2>4
<1>5. ASSUME NEW e, LastFor(s, p, e)
      PROVE  /\ In(t, p) => LastFor(t, p, e)
             /\ ~In(t, p) => Head(s) = <<p, e>>
  <2>1. PICK i \in 1..n : s[i] = <<p, e>> /\ \A j \in 1..n : j > i => s[j][1] # p
    BY <1>1, <1>5 DEF LastFor
  <2>2. CASE i = 1
    <3>1. \A j \in 1..(n - 1) : t[j][1] # p
      BY <1>1, <1>3, <2>1, <2>2
    <3> QED  BY <1>1, <2>1, <2>2, <3>1 DEF In
  <2>3. CASE i # 1
    <3>1. i - 1 \in 1..(n - 1) /\ t[i - 1] = <<p, e>>
      BY <1>2, <2>1, <2>3
    <3>2. \A j \in 1..(n - 1) : j > i - 1 => j + 1 \in 1..n /\ j + 1 > i /\ t[j] = s[j + 1]
      BY <1>1, <2>1
    <3>3. LastFor(t, p, e)
      <4>1. \A j \in 1..(n - 1) : j > i - 1 => t[j][1] # p
        BY <2>1, <3>2
      <4> QED  BY <1>1, <3>1, <4>1 DEF LastFor
    <3>4. <<p, e>>[1] = p
      OBVIOUS
    <3> QED  BY <1>1, <3>1, <3>3, <3>4 DEF In
  <2> QED  BY <2>2, <2>3
<1> QED  BY <1>4, <1>5 DEF t

(* A list of entries with those of one extension behind it.                *)
LEMMA MoreEntries ==
  ASSUME NEW s \in Seq(Path \X Ext), NEW t \in Seq(Path \X Ext), NEW p, NEW e,
         \A i \in DOMAIN t : t[i][2] = e
  PROVE  /\ In(t, p) => LastFor(s \o t, p, e)
         /\ ~In(t, p) => /\ In(s \o t, p) => In(s, p)
                         /\ \A x : LastFor(s, p, x) => LastFor(s \o t, p, x)
<1> DEFINE n == Len(s)
           m == Len(t)
           u == s \o t
<1>1. /\ n \in Nat /\ m \in Nat /\ DOMAIN s = 1..n /\ DOMAIN t = 1..m /\ DOMAIN u = 1..(n + m)
      /\ \A i \in 1..n : u[i] = s[i]
      /\ \A i \in 1..m : u[n + i] = t[i] /\ t[i] \in Path \X Ext
  OBVIOUS
<1> HIDE DEF n, m, u
<1>2. \A j \in 1..(n + m) : \/ j \in 1..n /\ u[j] = s[j]
                            \/ j - n \in 1..m /\ u[j] = t[j - n]
  <2> SUFFICES ASSUME NEW j \in 1..(n + m)
               PROVE  \/ j \in 1..n /\ u[j] = s[j]
                      \/ j - n \in 1..m /\ u[j] = t[j - n]
    OBVIOUS
  <2>1. CASE j <= n
    BY <1>1, <2>1
  <2>2. CASE j > n
    <3>1. j - n \in 1..m /\ n + (j - n) = j
      BY <1>1, <2>2
    <3> QED  BY <1>1, <3>1
  <2> QED  BY <1>1, <2>1, <2>2
<1>3. ASSUME In(t, p) PROVE LastFor(u, p, e)
  <2> DEFINE S == {i \in 1..m : t[i][1] = p}
  <2>1. S \in SUBSET (1..m) /\ S # {}
    BY <1>1, <1>3 DEF In
  <2>2. Max(S) \in S /\ \A k \in S : k <= Max(S)
    BY <1>1, <2>1, MaxFacts
  <2>3. PICK k \in 1..m : t[k][1] = p /\ \A j \in 1..m : t[j][1] = p => j <= k
    BY <2>2
  <2>4. t[k] = <<p, e>>
    <3>1. \A x \in Path \X Ext : x = <<x[1], x[2]>>
      OBVIOUS
    <3>2. t[k] \in Path \X Ext /\ t[k][2] = e
      BY <1>1
    <3> QED  BY <2>3, <3>1, <3>2
  <2>5. n + k \in 1..(n + m) /\ u[n + k] = <<p, e>>
    BY <1>1, <2>3, <2>4
  <2>6. \A j \in 1..(n + m) : j > n + k => u[j][1] # p
    <3> SUFFICES ASSUME NEW j \in 1..(n + m), j > n + k PROVE u[j][1] # p
      OBVIOUS
    <3>1. j - n \in 1..m /\ j - n > k /\ j \notin 1..n
      BY <1>1, <2>3
    <3>2. u[j] = t[j - n]
      BY <1>2, <3>1
    <3> QED  BY <2>3, <3>1, <3>2
  <2> QED  BY <1>1, <2>5, <2>6 DEF LastFor
<1>4. ASSUME ~In(t, p), NEW x, LastFor(s, p, x) PROVE LastFor(u, p, x)
  <2>1. PICK i \in 1..n : s[i] = <<p, x>> /\ \A j \in 1..n : j > i => s[j][1] # p
    BY <1>1, <1>4 DEF LastFor
  <2>2. i \in 1..(n + m) /\ u[i] = <<p, x>>
    BY <1>1, <2>1
  <2>3. \A j \in 1..(n + m) : j > i => u[j][1] # p
    <3>1. \A j \in 1..m : t[j][1] # p
      BY <1>1, <1>4 DEF In
    <3> QED  BY <1>2, <2>1, <3>1
  <2> QED  BY <1>1, <2>2, <2>3 DEF LastFor
<1>5. ASSUME ~In(t, p), In(u, p) PROVE In(s, p)
  <2>1. PICK j \in 1..(n + m) : u[j][1] = p
    BY <1>1, <1>5 DEF In
  <2>2. \A i \in 1..m : t[i][1] # p
    BY <1>1, <1>5 DEF In
  <2>3. j \in 1..n /\ s[j][1] = p
    BY <1>2, <2>1, <2>2
  <2> QED  BY <1>1, <2>3 DEF In
<1> QED  BY <1>3, <1>4, <1>5 DEF u

LEMMA LastIn == ASSUME NEW s, NEW p, NEW e, LastFor(s, p, e) PROVE In(s, p)
BY DEF LastFor, In

LEMMA HotsFacts ==
  ASSUME GuestTypeOK
  PROVE  Hots \in Seq(Ext) /\ Len(Hots) \in Nat /\ DOMAIN Hots = 1..Len(Hots)
<1>1. HotOrder \in Seq(Ext)
  BY GuestAssumption
<1>2. Hots \in Seq(Ext)
  BY <1>1 DEF Hots
<1> QED  BY <1>2

LEMMA HotKept ==
  ASSUME UNCHANGED <<machine, files, loaded>>
  PROVE  Hots' = Hots /\ \A e, p : Gives(e, p)' <=> Gives(e, p)
BY DEF Hots, Gives

(* Until the hot set is copied.                                            *)
LEMMA BeforeCopy ==
  ASSUME ReleaseInv, UNCHANGED letGo, init' \notin UnderDesktop \cup {"copy"}
  PROVE  HotInv'
BY DEF HotInv, CopyInv, DesktopInv, ReleaseInv, letGo

LEMMA LoadDoneHot == ASSUME GuestInv, HotInv, LoadDone PROVE HotInv'
<1>1. /\ UNCHANGED <<machine, files, letGo, dirs, loaded, view, record>>
      /\ init = "load" /\ todo = <<>> /\ init' = "copy" /\ todo' = Hots
  BY DEF LoadDone, Making, Hots
<1>2. ReleaseInv' /\ DesktopInv'
  BY <1>1 DEF HotInv, ReleaseInv, DesktopInv, letGo, UnderDesktop
<1>3. Hots' = Hots /\ SuffixOf(Hots, Hots)
  BY <1>1, HotKept, HotsFacts, WholeIsSuffix DEF GuestInv
<1>4. record' = <<>>
  BY <1>1 DEF GuestInv, PhaseInv
<1>5. RecordInv' /\ \A p : ~In(record', p)
  BY <1>4, EmptyList DEF In, RecordInv
<1>6. \A p \in Path : view'[p] = Uncopied(p)'
  BY <1>1, WinnerKept DEF GuestInv, LoadInv
<1>7. \A p : NeverCopied(p)'
  <2>1. Len(Hots') - Len(todo') = 0
    BY <1>1, <1>3, HotsFacts DEF GuestInv
  <2> QED  BY <2>1 DEF NeverCopied
<1>8. CopyInv'
  BY <1>1, <1>3, <1>5, <1>6, <1>7 DEF CopyInv
<1> QED  BY <1>2, <1>8 DEF HotInv

LEMMA CopyHot == ASSUME GuestInv, HotInv, CopyNext PROVE HotInv'
<1>0. PICK e : e = Head(todo)
  OBVIOUS
<1> DEFINE t == EntriesOf(e)
           k == Len(Hots) - Len(todo) + 1
<1>1. /\ UNCHANGED <<machine, files, letGo, dirs, loaded>>
      /\ init = "copy" /\ init' = "copy" /\ todo # <<>> /\ todo' = Tail(todo)
      /\ view' = Copied(e, Files(e)) /\ record' = record \o t
  BY <1>0 DEF CopyNext, Making, EntriesOf
<1>2. ReleaseInv' /\ DesktopInv'
  BY <1>1 DEF HotInv, ReleaseInv, DesktopInv, letGo, UnderDesktop
<1>3. RootTypes /\ Hots \in Seq(Ext) /\ Len(Hots) \in Nat /\ Hots' = Hots
  BY <1>1, TypeParts, HotsFacts, HotKept DEF GuestInv
<1>4. /\ todo \in Seq(Ext) /\ e \in Ext /\ record \in Seq(Path \X Ext)
      /\ view \in [Path -> PathState] /\ SuffixOf(todo, Hots)
      /\ t \in Seq(Path \X Ext) /\ \A i \in DOMAIN t : t[i][2] = e
  BY <1>0, <1>1, <1>3, HeadTail, EntriesFacts DEF RootTypes, HotInv, CopyInv
<1>5. /\ SuffixOf(Tail(todo), Hots) /\ Len(Hots) - Len(Tail(todo)) = k
      /\ k \in 1..Len(Hots) /\ Hots[k] = e
  BY <1>0, <1>1, <1>3, <1>4, SuffixTail
<1>6. Len(Hots) - Len(todo) = k - 1 /\ k \in Nat
  BY <1>1, <1>3, <1>4, <1>5, HeadTail
<1> HIDE DEF t, k
<1>7. \A p, x : CopiedLast(p, x)' <=>
        \E a \in 1..k : /\ Hots[a] = x /\ Gives(x, p)
                        /\ \A b \in (a + 1)..k : ~Gives(Hots[b], p)
  BY <1>1, <1>3, <1>5, HotKept DEF CopiedLast
<1>8. \A p : NeverCopied(p)' <=> \A b \in 1..k : ~Gives(Hots[b], p)
  BY <1>1, <1>3, <1>5, HotKept DEF NeverCopied
<1>9. \A p \in Path : In(t, p) <=> p \in Files(e)
  <2>1. \A p : <<p, e>>[1] = p
    OBVIOUS
  <2> QED  BY <1>4, <2>1, EntriesFacts DEF In, t
<1>10. ASSUME NEW p \in Path
      PROVE  \/ \E x \in Ext : /\ LastFor(record', p, x) /\ CopiedLast(p, x)'
                               /\ view'[p] = Copy(x)
             \/ ~In(record', p) /\ NeverCopied(p)' /\ view'[p] = Uncopied(p)'
  <2>1. CASE p \in Files(e)
    <3>1. Gives(e, p)
      BY <2>1 DEF Files, Gives
    <3>2. CopiedLast(p, e)'
      <4>1. k \in 1..k /\ (k + 1)..k = {}
        BY <1>5, <1>6
      <4> QED  BY <1>5, <1>7, <3>1, <4>1
    <3>3. LastFor(record', p, e)
      BY <1>1, <1>4, <1>9, <2>1, MoreEntries
    <3>4. view'[p] = Copy(e)
      BY <1>1, <2>1 DEF Copied
    <3> QED  BY <1>4, <3>2, <3>3, <3>4
  <2>2. CASE p \notin Files(e)
    <3>1. ~Gives(e, p) /\ ~In(t, p) /\ view'[p] = view[p]
      BY <1>1, <1>9, <2>2 DEF Files, Gives, Copied
    <3>2. CASE ~In(record, p) /\ NeverCopied(p) /\ view[p] = Uncopied(p)
      <4>1. \A b \in 1..k : b = k \/ b \in 1..(k - 1)
        BY <1>6
      <4>2. NeverCopied(p)'
        BY <1>5, <1>6, <1>8, <3>1, <3>2, <4>1 DEF NeverCopied
      <4> QED  BY <1>1, <1>4, <3>1, <3>2, <4>2, MoreEntries, WinnerKept
    <3>3. CASE \E x \in Ext : LastFor(record, p, x) /\ CopiedLast(p, x) /\ view[p] = Copy(x)
      <4>1. PICK x \in Ext : LastFor(record, p, x) /\ CopiedLast(p, x) /\ view[p] = Copy(x)
        BY <3>3
      <4>2. LastFor(record', p, x)
        BY <1>1, <1>4, <3>1, <4>1, MoreEntries
      <4>3. PICK a \in 1..(k - 1) : /\ Hots[a] = x /\ Gives(x, p)
                                    /\ \A b \in (a + 1)..(k - 1) : ~Gives(Hots[b], p)
        BY <1>6, <4>1 DEF CopiedLast
      <4>4. a \in 1..k /\ \A b \in (a + 1)..k : b = k \/ b \in (a + 1)..(k - 1)
        BY <1>6, <4>3
      <4>5. CopiedLast(p, x)'
        BY <1>5, <1>7, <3>1, <4>3, <4>4
      <4>6. view'[p] = Copy(x)
        BY <3>1, <4>1
      <4> QED  BY <4>2, <4>5, <4>6
    <3>4. SuffixOf(todo, Hots)
      BY <1>4
    <3> QED  BY <1>1, <3>2, <3>3 DEF HotInv, CopyInv
  <2> QED  BY <2>1, <2>2
<1>11. RecordInv'
  <2>1. RecordInv /\ \A i \in DOMAIN t : t[i][1] \in Provides[t[i][2]]
    BY <1>1, <1>4, EntriesFacts DEF HotInv, CopyInv, Files, t
  <2>2. \A i \in DOMAIN (record \o t) :
          \/ i \in DOMAIN record /\ (record \o t)[i] = record[i]
          \/ i - Len(record) \in DOMAIN t /\ (record \o t)[i] = t[i - Len(record)]
    BY <1>4
  <2> QED  BY <1>1, <2>1, <2>2 DEF RecordInv
<1>12. CopyInv'
  BY <1>1, <1>3, <1>5, <1>10, <1>11 DEF CopyInv, Copy
<1> QED  BY <1>2, <1>12 DEF HotInv

(* The hot extension copied last for a path is the one expected there; a   *)
(* path of which there is no copy has what was linked last.                *)
LEMMA CopiedIsExpected ==
  ASSUME GuestInv, todo = <<>>, NEW p
  PROVE  /\ \A e : CopiedLast(p, e) => e = Expected(p) /\ Expected(p) # NoExt
         /\ NeverCopied(p) => Expected(p) = Winner(p)
<1> DEFINE H == Having(HotOrder, p)
<1>1. /\ Hots \in Seq(Ext) /\ Len(Hots) \in Nat /\ DOMAIN Hots = 1..Len(Hots)
      /\ Len(Hots) - Len(todo) = Len(Hots)
  <2>1. Len(todo) = 0
    BY EmptyList
  <2> QED  BY <2>1, HotsFacts DEF GuestInv
<1>2. ASSUME NEW a \in 1..Len(Hots) PROVE machine.line.hotset /\ Hots = HotOrder
  <2>1. Len(<<>>) = 0
    OBVIOUS
  <2> QED  BY <1>2, <2>1 DEF Hots
<1>3. ASSUME NEW e, CopiedLast(p, e) PROVE e = Expected(p) /\ Expected(p) # NoExt
  <2>1. PICK a \in 1..Len(Hots) : /\ Hots[a] = e /\ Gives(e, p)
                                  /\ \A b \in (a + 1)..Len(Hots) : ~Gives(Hots[b], p)
    BY <1>1, <1>3 DEF CopiedLast
  <2>2. machine.line.hotset /\ Hots = HotOrder
    BY <1>2, <2>1
  <2>3. \A i : i \in H <=> i \in 1..Len(Hots) /\ Gives(Hots[i], p)
    BY <1>1, <2>2 DEF Having, Gives
  <2> HIDE DEF H
  <2>4. a \in H /\ H \in SUBSET (1..Len(Hots))
    BY <2>1, <2>3
  <2>5. Max(H) \in H /\ \A i \in H : i <= Max(H)
    BY <1>1, <2>4, MaxFacts
  <2>6. Max(H) = a
    <3>1. Max(H) \in 1..Len(Hots) /\ a <= Max(H) /\ Max(H) \notin (a + 1)..Len(Hots)
      BY <2>1, <2>3, <2>4, <2>5
    <3> QED  BY <1>1, <2>1, <3>1
  <2>7. Expected(p) = e
    BY <2>1, <2>2, <2>4, <2>6 DEF Expected, H
  <2>8. e \in Ext /\ NoExt \notin Ext
    BY <1>1, <2>1, GuestAssumption
  <2> QED  BY <2>7, <2>8
<1>4. ASSUME NeverCopied(p) PROVE Expected(p) = Winner(p)
  <2>1. CASE machine.line.hotset
    <3>1. Hots = HotOrder
      BY <2>1 DEF Hots
    <3>2. H = {}
      BY <1>1, <1>4, <3>1 DEF NeverCopied, Having, Gives
    <3> QED  BY <3>2 DEF Expected
  <2>2. CASE ~machine.line.hotset
    BY <2>2 DEF Expected
  <2> QED  BY <2>1, <2>2
<1> QED  BY <1>3, <1>4

LEMMA StartDesktopHot == ASSUME GuestInv, HotInv, StartDesktop PROVE HotInv'
<1>1. /\ UNCHANGED <<machine, files, loaded, view, record, release, left, lost>>
      /\ init = "copy" /\ todo = <<>> /\ init' = "desktop"
  BY DEF StartDesktop, rootFs, letGo
<1>2. release = "off"
  BY <1>1 DEF GuestInv, PhaseInv, UnderDesktop
<1>3. CopyInv' /\ ReleaseInv'
  BY <1>1 DEF HotInv, CopyInv, ReleaseInv
<1>4. ASSUME NEW p \in Path
      PROVE  /\ ExpectedLast(record, p)
             /\ view[p] = IF In(record, p) THEN Copy(Expected(p)) ELSE Restored(p)
  <2>1. CASE ~In(record, p) /\ NeverCopied(p) /\ view[p] = Uncopied(p)
    <3>1. Expected(p) = Winner(p)
      BY <1>1, <2>1, CopiedIsExpected
    <3> QED  BY <2>1, <3>1 DEF ExpectedLast, Restored, Uncopied
  <2>2. CASE \E x \in Ext : LastFor(record, p, x) /\ CopiedLast(p, x) /\ view[p] = Copy(x)
    BY <1>1, <2>2, CopiedIsExpected, LastIn DEF ExpectedLast
  <2> QED  BY <1>1, <2>1, <2>2 DEF HotInv, CopyInv
<1>5. RecordInv'
  BY <1>1 DEF HotInv, CopyInv, RecordInv
<1>6. DesktopInv'
  <2>1. \A p : ExpectedLast(record, p)' <=> ExpectedLast(record, p)
    BY <1>1, ExpectedKept DEF ExpectedLast, In, LastFor
  <2> QED  BY <1>1, <1>2, <1>4, <1>5, <2>1, ExpectedKept DEF DesktopInv, Copy
<1> QED  BY <1>3, <1>6 DEF HotInv

(* Under the desktop.                                                      *)
LEMMA DesktopHot ==
  ASSUME GuestInv, HotInv, UNCHANGED <<machine, files, loaded, record, view, letGo>>,
         \/ UNCHANGED <<init, todo>>
         \/ init \in UnderDesktop /\ init' \in UnderDesktop
  PROVE  HotInv'
<1>1. UNCHANGED <<release, left, lost>>
  BY DEF letGo
<1>2. \A p : Uncopied(p)' = Uncopied(p) /\ Expected(p)' = Expected(p) /\ Restored(p)' = Restored(p)
  BY WinnerKept, ExpectedKept
<1>3. ReleaseInv' /\ RecordInv' = RecordInv
  BY <1>1 DEF HotInv, ReleaseInv, RecordInv
<1>4. DesktopInv'
  <2>1. init' \in UnderDesktop => init \in UnderDesktop
    OBVIOUS
  <2>2. \A p : /\ ExpectedLast(record, p)' <=> ExpectedLast(record, p)
               /\ ExpectedLast(left, p)' <=> ExpectedLast(left, p)
               /\ In(left, p)' <=> In(left, p)
               /\ In(record, p)' <=> In(record, p)
    BY <1>1, <1>2 DEF ExpectedLast, In, LastFor
  <2>3. \A p : (StillLeft(p)' <=> StillLeft(p)) /\ (Passed(p)' <=> Passed(p))
    BY <1>1, <1>2 DEF StillLeft, Passed, Halfway, Relinked, Copy
  <2>4. SuffixOf(left, record)' <=> SuffixOf(left, record)
    BY <1>1 DEF SuffixOf
  <2> QED  BY <1>1, <1>2, <1>3, <2>1, <2>2, <2>3, <2>4 DEF HotInv, DesktopInv, Copy
<1>5. CopyInv'
  <2>1. init' = "copy" => init = "copy" /\ todo' = todo
    BY DEF UnderDesktop
  <2>2. Hots' = Hots
    BY HotKept
  <2>3. todo' = todo => /\ \A p, e : CopiedLast(p, e)' <=> CopiedLast(p, e)
                        /\ \A p : NeverCopied(p)' <=> NeverCopied(p)
    BY <2>2 DEF CopiedLast, NeverCopied, Gives
  <2> QED  BY <1>2, <1>3, <2>1, <2>2, <2>3 DEF HotInv, CopyInv, Copy
<1> QED  BY <1>3, <1>4, <1>5 DEF HotInv

(* The release comes to the next entry, and only the path of that changes. *)
LEMMA EntryPassed ==
  ASSUME GuestInv, HotInv, release \in {"next", "link"}, release' = "next",
         UNCHANGED <<machine, files, loaded, record, init>>,
         left # <<>>, left' = Tail(left), lost \subseteq lost',
         \A q \in Path : q # Head(left)[1] => view'[q] = view[q],
         \/ Head(left)[1] \in lost'
         \/ view'[Head(left)[1]] = Link(Head(left)[2])
  PROVE  DesktopInv'
<1>0. PICK h : h = Head(left)
  OBVIOUS
<1> DEFINE t == Tail(left)
           k == Len(record) - Len(left) + 1
<1>1. /\ left \in Seq(Path \X Ext) /\ record \in Seq(Path \X Ext)
  BY TypeParts DEF GuestInv, RootTypes, DeskTypes
<1>2. CASE init \notin UnderDesktop
  BY <1>2 DEF DesktopInv
<1>3. CASE init \in UnderDesktop
  <2>1. /\ RecordInv /\ SuffixOf(left, record)
        /\ \A p \in Path : /\ ExpectedLast(record, p) /\ ExpectedLast(left, p)
                           /\ IF In(left, p) THEN StillLeft(p) ELSE Passed(p)
    BY <1>3 DEF HotInv, DesktopInv
  <2>2. /\ SuffixOf(Tail(left), record) /\ Len(record) - Len(Tail(left)) = k
        /\ k \in 1..Len(record) /\ record[k] = h /\ Len(record) \in Nat
    BY <1>0, <1>1, <2>1, SuffixTail
  <2>3. h[1] \in Provides[h[2]]
    BY <1>1, <2>1, <2>2 DEF RecordInv
  <2>4. \A p : Expected(p)' = Expected(p) /\ Restored(p)' = Restored(p)
    BY ExpectedKept
  <2>5. /\ Relinked(h[1])'
        /\ \A p : Relinked(p) => Relinked(p)'
    <3>1. Len(record) - Len(left) = k - 1 /\ k \in Nat /\ k \in 1..k /\ 1..(k - 1) \subseteq 1..k
      BY <1>1, <2>2
    <3>2. Len(record') - Len(left') = k
      BY <2>2
    <3> HIDE DEF k
    <3> QED  BY <2>2, <3>1, <3>2 DEF Relinked
  <2> HIDE DEF t
  <2>6. ASSUME NEW p \in Path
        PROVE  /\ ExpectedLast(left, p)'
               /\ IF In(left, p)' THEN StillLeft(p)' ELSE Passed(p)'
    <3>1. /\ In(left, p) <=> In(t, p) \/ h[1] = p
          /\ \A e : LastFor(left, p, e) /\ In(t, p) => LastFor(t, p, e)
          /\ \A e : LastFor(left, p, e) /\ ~In(t, p) => h = <<p, e>>
      BY <1>0, <1>1, TailEntries DEF t
    <3>2. In(left, p)' <=> In(t, p)
      BY DEF In, t
    <3>3. ExpectedLast(left, p)'
      <4>1. In(t, p) => LastFor(t, p, Expected(p)) /\ Expected(p) # NoExt
        BY <2>1, <3>1 DEF ExpectedLast
      <4> QED  BY <2>4, <4>1 DEF ExpectedLast, In, LastFor, t
    <3>4. CASE h[1] # p
      <4>1. view'[p] = view[p] /\ (In(left, p) <=> In(t, p))
        BY <1>0, <3>1, <3>4
      <4>2. StillLeft(p) => StillLeft(p)'
        BY <1>0, <2>4, <2>5, <3>4, <4>1 DEF StillLeft, Halfway, Copy
      <4>3. Passed(p) => Passed(p)'
        BY <2>4, <4>1 DEF Passed
      <4> QED  BY <2>1, <3>3, <3>2, <4>1, <4>2, <4>3
    <3>5. CASE h[1] = p /\ In(t, p)
      <4>1. p \in lost' \/ Halfway(p)'
        BY <1>0, <2>3, <2>5, <3>5 DEF Halfway, Link
      <4> QED  BY <3>3, <3>5, <3>2, <4>1 DEF StillLeft
    <3>6. CASE h[1] = p /\ ~In(t, p)
      <4>1. h = <<p, Expected(p)>> /\ Expected(p) # NoExt
        BY <2>1, <3>1, <3>6 DEF ExpectedLast
      <4>2. p \in lost' \/ view'[p] = Link(Expected(p))
        BY <1>0, <4>1
      <4>3. Passed(p)'
        BY <2>4, <4>1, <4>2 DEF Passed, Restored
      <4> QED  BY <3>3, <3>6, <3>2, <4>3
    <3> QED  BY <3>4, <3>5, <3>6
  <2>7. \A p \in Path : ExpectedLast(record, p)'
    BY <2>1, <2>4 DEF ExpectedLast, In, LastFor
  <2>8. RecordInv' /\ SuffixOf(left, record)'
    BY <2>1, <2>2 DEF RecordInv, SuffixOf
  <2> QED  BY <2>6, <2>7, <2>8 DEF DesktopInv
<1> QED  BY <1>2, <1>3

LEMMA ReleaseHot ==
  ASSUME GuestInv, HotInv, BeginRelease \/ ReleaseStep
  PROVE  HotInv'
<1>1. /\ UNCHANGED <<machine, files, loaded, record, init, todo>>
      /\ session \in {"up", "over"} \/ release \in {"next", "link"}
      /\ release' \in {"next", "link", "OK", "FAILED"}
  BY DEF BeginRelease, ReleaseStep, MissingSource, RemoveCopy, RestoreLink, FinishRelease,
         Running
<1>2. init \in UnderDesktop
  BY <1>1 DEF GuestInv, PhaseInv
<1>3. RootTypes /\ DeskTypes /\ DesktopInv /\ ReleaseInv
  BY TypeParts DEF GuestInv, HotInv
<1>4. \A p : Expected(p)' = Expected(p) /\ Restored(p)' = Restored(p)
  BY <1>1, ExpectedKept
<1>5. CopyInv'
  BY <1>1, <1>2 DEF CopyInv, UnderDesktop
<1>6. RecordInv' /\ \A p \in Path : ExpectedLast(record, p) /\ ExpectedLast(record, p)'
  BY <1>1, <1>2, <1>3, <1>4 DEF DesktopInv, RecordInv, ExpectedLast, In, LastFor
<1>7. CASE BeginRelease
  <2>1. release = "off" /\ release' = "next" /\ left' = record /\ view' = view
    BY <1>7 DEF BeginRelease
  <2>2. \A p \in Path :
          view[p] = IF In(record, p) THEN Copy(Expected(p)) ELSE Restored(p)
    BY <1>2, <1>3, <2>1 DEF DesktopInv
  <2>3. SuffixOf(left, record)'
    <3>1. SuffixOf(record, record)
      BY <1>3, WholeIsSuffix DEF RootTypes
    <3> QED  BY <1>1, <2>1, <3>1 DEF SuffixOf
  <2>4. ASSUME NEW p \in Path
        PROVE  /\ ExpectedLast(left, p)'
               /\ IF In(left, p)' THEN StillLeft(p)' ELSE Passed(p)'
    <3>1. ExpectedLast(left, p)' /\ (In(left, p)' <=> In(record, p))
      BY <1>4, <1>6, <2>1 DEF ExpectedLast, In, LastFor
    <3>2. In(record, p) => StillLeft(p)'
      BY <1>4, <2>1, <2>2 DEF StillLeft, Copy
    <3>3. ~In(record, p) => Passed(p)'
      BY <1>4, <2>1, <2>2 DEF Passed
    <3> QED  BY <3>1, <3>2, <3>3
  <2>5. DesktopInv'
    BY <1>6, <2>1, <2>3, <2>4 DEF DesktopInv
  <2>6. ReleaseInv'
    BY <2>1 DEF ReleaseInv
  <2> QED  BY <1>5, <2>5, <2>6 DEF HotInv
<1>8. CASE MissingSource
  <2>1. /\ release = "next" /\ release' = "next" /\ left # <<>> /\ left' = Tail(left)
        /\ lost' = lost \cup {Head(left)[1]} /\ view' = view
    BY <1>8 DEF MissingSource
  <2>2. ReleaseInv'
    BY <2>1 DEF ReleaseInv
  <2>3. DesktopInv'
    BY <1>1, <2>1, EntryPassed
  <2> QED  BY <1>5, <2>2, <2>3 DEF HotInv
<1>9. CASE RemoveCopy
  <2>1. /\ release = "next" /\ release' = "link" /\ left # <<>> /\ UNCHANGED <<left, lost>>
        /\ view' \in {view, [view EXCEPT ![Head(left)[1]] = Gone]}
    BY <1>9 DEF RemoveCopy
  <2>2. ReleaseInv'
    BY <2>1 DEF ReleaseInv
  <2>3. \A p \in Path : Head(left)[1] # p => view'[p] = view[p]
    BY <1>3, <2>1 DEF RootTypes
  <2>4. ASSUME NEW p \in Path
        PROVE  /\ ExpectedLast(left, p)'
               /\ IF In(left, p)' THEN StillLeft(p)' ELSE Passed(p)'
    <3>1. /\ ExpectedLast(left, p)
          /\ IF In(left, p) THEN StillLeft(p) ELSE Passed(p)
      BY <1>2, <1>3, <2>1 DEF DesktopInv
    <3>2. ExpectedLast(left, p)' /\ (In(left, p)' <=> In(left, p))
      BY <1>4, <2>1, <3>1 DEF ExpectedLast, In, LastFor
    <3>3. Head(left)[1] = p => StillLeft(p)' /\ In(left, p)
      <4>1. Head(left)[1] = p => In(left, p)
        BY <1>3, <2>1, TailEntries DEF DeskTypes
      <4> QED  BY <2>1, <4>1 DEF StillLeft
    <3>4. CASE Head(left)[1] # p
      <4>1. StillLeft(p) => StillLeft(p)'
        BY <1>1, <1>4, <2>1, <2>3, <3>4 DEF StillLeft, Halfway, Relinked, Copy
      <4>2. Passed(p) => Passed(p)'
        BY <1>4, <2>1, <2>3, <3>4 DEF Passed
      <4> QED  BY <3>1, <3>2, <4>1, <4>2
    <3> QED  BY <3>2, <3>3, <3>4
  <2>5. SuffixOf(left, record)'
    BY <1>1, <1>2, <1>3, <2>1 DEF DesktopInv, SuffixOf
  <2>6. DesktopInv'
    BY <1>6, <2>1, <2>4, <2>5 DEF DesktopInv
  <2> QED  BY <1>5, <2>2, <2>6 DEF HotInv
<1>10. CASE RestoreLink
  <2>1. /\ release = "link" /\ release' = "next" /\ left # <<>> /\ left' = Tail(left)
        /\ \/ view' = [view EXCEPT ![Head(left)[1]] = Link(Head(left)[2])] /\ lost' = lost
           \/ lost' = lost \cup {Head(left)[1]} /\ view' = view
    BY <1>3, <1>10 DEF RestoreLink, DeskTypes
  <2>2. ReleaseInv'
    BY <2>1 DEF ReleaseInv
  <2>3. Head(left)[1] \in Path
    BY <1>3, <2>1, HeadTail DEF DeskTypes
  <2>4. /\ \A q \in Path : q # Head(left)[1] => view'[q] = view[q]
        /\ Head(left)[1] \in lost' \/ view'[Head(left)[1]] = Link(Head(left)[2])
    BY <1>3, <2>1, <2>3 DEF RootTypes
  <2>5. DesktopInv'
    BY <1>1, <2>1, <2>4, EntryPassed
  <2> QED  BY <1>5, <2>2, <2>5 DEF HotInv
<1>11. CASE FinishRelease
  <2>1. /\ release = "next" /\ left = <<>> /\ UNCHANGED <<left, lost, view>>
        /\ release' = IF lost = {} THEN "OK" ELSE "FAILED"
    BY <1>11 DEF FinishRelease
  <2>2. ReleaseInv'
    BY <2>1 DEF ReleaseInv
  <2>3. ASSUME NEW p \in Path
        PROVE  ExpectedLast(left, p)' /\ ~In(left, p)' /\ Passed(p)'
    <3>1. ~In(left, p)
      BY <2>1, EmptyList DEF In
    <3>2. Passed(p)
      BY <1>2, <1>3, <2>1, <3>1 DEF DesktopInv
    <3> QED  BY <1>4, <2>1, <3>1, <3>2 DEF ExpectedLast, In, Passed
  <2>4. SuffixOf(left, record)'
    BY <1>1, <1>2, <1>3, <2>1 DEF DesktopInv, SuffixOf
  <2>5. DesktopInv'
    BY <1>6, <2>1, <2>3, <2>4 DEF DesktopInv
  <2> QED  BY <1>5, <2>2, <2>5 DEF HotInv
<1> QED  BY <1>7, <1>8, <1>9, <1>10, <1>11 DEF ReleaseStep

LEMMA HotInitInv == GuestInit => HotInv
BY DEF GuestInit, HotInv, CopyInv, DesktopInv, ReleaseInv, UnderDesktop

LEMMA HotInductive ==
  GuestInv /\ HotInv /\ [GuestStart \/ GuestNext]_guestVars => HotInv'
<1> SUFFICES ASSUME GuestInv, HotInv, [GuestStart \/ GuestNext]_guestVars
             PROVE  HotInv'
  OBVIOUS
<1>1. ReleaseInv
  BY DEF HotInv
<1>2. CASE GuestStart
  <2>1. UNCHANGED letGo /\ init' \in {"list", "unpack", "probe"}
    <3>1. PICK kind \in Kind : Boot(kind, files')
      BY <1>2 DEF GuestStart
    <3>2. kind \in {"iso", "game", "embedded", "ext2"}
      BY DEF Kind
    <3> QED  BY <3>1, <3>2 DEF Boot
  <2> QED  BY <1>1, <2>1, BeforeCopy DEF UnderDesktop
<1>3. CASE ListDrives \/ TryDrive \/ NextScan \/ ProbeDisks \/ WaitForDisk \/ MountDisk
             \/ UnpackCore \/ LoadNext \/ CopyFails \/ CopyMissing
  <2>1. UNCHANGED letGo /\ init' \notin UnderDesktop \cup {"copy"}
    BY <1>3 DEF ListDrives, TryDrive, NextScan, ProbeDisks, WaitForDisk, MountDisk,
                UnpackCore, LoadNext, CopyFails, CopyMissing, Looking, Making, UnderDesktop
  <2> QED  BY <1>1, <2>1, BeforeCopy
<1>4. CASE LoadDone
  BY <1>4, LoadDoneHot
<1>5. CASE CopyNext
  BY <1>5, CopyHot
<1>6. CASE StartDesktop
  BY <1>6, StartDesktopHot
<1>7. CASE BeginRelease \/ ReleaseStep
  BY <1>7, ReleaseHot
<1>8. CASE LauncherReturns \/ XStarts \/ SessionEnds
  <2>1. /\ UNCHANGED <<machine, files, loaded, record, view, letGo, todo>>
        /\ init' = init \/ (init = "desktop" /\ init' = "desktop over")
    BY <1>8 DEF LauncherReturns, XStarts, SessionEnds, Running
  <2> QED  BY <2>1, DesktopHot DEF UnderDesktop
<1>9. CASE NetStep \/ RemoteStep \/ UserAsks \/ (\E d \in Device : Attach(d))
  <2>1. UNCHANGED <<machine, files, rootFs, letGo, init>>
    BY <1>9 DEF NetStep, RemoteStep, UserAsks, NetBegins, Dhcp, NetUp, RemoteCheck,
                RemoteStart, Attach, Networking
  <2> QED  BY <2>1, DesktopHot DEF rootFs
<1>10. CASE UNCHANGED guestVars
  BY <1>10, DesktopHot DEF guestVars, rootFs
<1> QED
  BY <1>2, <1>3, <1>4, <1>5, <1>6, <1>7, <1>8, <1>9, <1>10 DEF GuestNext, InitStep

LEMMA ReadRightFromInv == GuestInv /\ HotInv => PathsReadRight /\ ReleaseTellsTheTruth
<1> SUFFICES ASSUME GuestInv, HotInv PROVE PathsReadRight /\ ReleaseTellsTheTruth
  OBVIOUS
<1>1. \A p \in Path : view[p] = Restored(p) =>
        /\ view[p].kind # "copy" /\ view[p].ext = Expected(p)
        /\ (p \in CorePaths \/ Expected(p) # NoExt) => Readable(p)
  BY DEF Restored, Link, Core, Gone, Readable
<1>2. \A p \in Path : view[p] = Copy(Expected(p)) => Readable(p) /\ view[p].ext = Expected(p)
  BY DEF Copy, Readable
<1>3. PathsReadRight
  <2> SUFFICES ASSUME init \in UnderDesktop, NEW p \in Path,
                      p \in CorePaths \/ Expected(p) # NoExt
               PROVE  \/ Readable(p) /\ view[p].ext = Expected(p)
                      \/ release = "link" /\ Head(left)[1] = p
                      \/ p \in lost
                      \/ Halfway(p) /\ In(left, p)
    BY DEF PathsReadRight, UnderDesktop, In, Halfway
  <2>1. CASE release = "off"
    <3>1. view[p] = Copy(Expected(p)) \/ view[p] = Restored(p)
      BY <2>1 DEF HotInv, DesktopInv
    <3> QED  BY <1>1, <1>2, <3>1
  <2>2. CASE release # "off"
    <3>1. IF In(left, p) THEN StillLeft(p) ELSE Passed(p)
      BY <2>2 DEF HotInv, DesktopInv
    <3> QED  BY <1>1, <1>2, <3>1 DEF StillLeft, Passed
  <2> QED  BY <2>1, <2>2
<1>4. ReleaseTellsTheTruth
  <2> SUFFICES ASSUME release = "OK" PROVE \A p \in Path : view[p] = Restored(p)
    BY <1>1 DEF ReleaseTellsTheTruth
  <2>1. init \in UnderDesktop /\ left = <<>> /\ lost = {}
    BY DEF GuestInv, PhaseInv, HotInv, ReleaseInv
  <2>2. \A p : ~In(left, p)
    BY <2>1, EmptyList DEF In
  <2> QED  BY <2>1, <2>2 DEF HotInv, DesktopInv, Passed
<1> QED  BY <1>3, <1>4

-----------------------------------------------------------------------------
(* What holds of a guest by itself, whatever the payload and the machine.  *)

LEMMA HotInvHolds == GuestSpec => []HotInv
BY GuestInvHolds, HotInitInv, HotInductive, PTL DEF GuestSpec

(* Where find_tinycore_disc, or stage 7, says that there is no payload,    *)
(* the drives that were there for the last look had none.                  *)
THEOREM GivingUpOnPayloadIsJustified == GuestSpec => []GivenUpJustified
<1>1. GuestInv => GivenUpJustified
  BY DEF GuestInv
<1> QED  BY <1>1, GuestInvHolds, PTL

(* Of whole extensions, the first ones are mounted, one for each loop      *)
(* device.                                                                 *)
THEOREM WholePayloadsLoad == GuestSpec => []WholePayloadLoads
<1>1. GuestInv => WholePayloadLoads
  BY DEF GuestInv
<1> QED  BY <1>1, GuestInvHolds, PTL

(* Copying the hot set into memory and handing it back while programs run  *)
(* change no file that a program reads, but for the one path in hand, those*)
(* reported, and those of two hot extensions between their two links.      *)
THEOREM HotSetIsNotNoticed == GuestSpec => []PathsReadRight
BY GuestInvHolds, HotInvHolds, ReadRightFromInv, PTL

(* XBOX_X_HOTSET_RELEASE_OK is the truth: all copies are gone, and every   *)
(* path reads the file it did before, whatever was linked or copied over it*)
(* in whatever order.                                                      *)
THEOREM ReleaseIsTrue == GuestSpec => []ReleaseTellsTheTruth
BY GuestInvHolds, HotInvHolds, ReadRightFromInv, PTL

-----------------------------------------------------------------------------
(* The chain.                                                              *)

MediumInv ==
  /\ stage \in {"host", "made", "boot"}
  /\ "kind" \in DOMAIN medium /\ medium.kind \in Kind \cup {"none"}
  /\ stage = "made" <=> medium.kind # "none"

LEMMA MediumInit == MediaInit => MediumInv
BY DEF MediaInit, MediumInv, NoMedium, Kind

LEMMA BuildMakes ==
  ASSUME MediumInv, Build
  PROVE  MediumInv' /\ UNCHANGED resolverVars
<1>1. ASSUME NEW m, Makes(m), "kind" \in DOMAIN m, m.kind \in Kind
      PROVE  MediumInv' /\ UNCHANGED resolverVars
  <2>1. "none" \notin Kind
    BY DEF Kind
  <2> QED  BY <1>1, <2>1 DEF Makes, MediumInv
<1>2. CASE BuildIso
  <2>1. PICK files0 : Makes(Mastered(files0))
    BY <1>2 DEF BuildIso
  <2>2. "kind" \in DOMAIN Mastered(files0) /\ Mastered(files0).kind = "iso"
    BY DEF Mastered, NoMedium
  <2> QED  BY <1>1, <2>1, <2>2 DEF Kind
<1>3. CASE BuildGameDisc
  <2>1. PICK fs, root, image :
          Makes([kind |-> "game", files |-> fs, root |-> root, image |-> image])
    BY <1>3 DEF BuildGameDisc
  <2> QED  BY <1>1, <2>1 DEF Kind
<1>4. CASE BuildEmbedded
  <2>1. PICK fs, image :
          Makes([kind |-> "embedded", files |-> fs, root |-> <<>>, image |-> image])
    BY <1>4 DEF BuildEmbedded
  <2> QED  BY <1>1, <2>1 DEF Kind
<1>5. CASE BuildExt2
  <2>1. PICK fs : Makes([NoMedium EXCEPT !.kind = "ext2", !.files = fs])
    BY <1>5 DEF BuildExt2
  <2>2. LET m == [NoMedium EXCEPT !.kind = "ext2", !.files = fs]
        IN  "kind" \in DOMAIN m /\ m.kind = "ext2"
    BY DEF NoMedium
  <2> QED  BY <1>1, <2>1, <2>2 DEF Kind
<1>6. CASE ReplaceInit
  <2>1. PICK fs, image : /\ stage' = stage /\ UNCHANGED resolverVars
                         /\ medium' = [medium EXCEPT !.image = image, !.files = fs]
    BY <1>6 DEF ReplaceInit
  <2>2. "kind" \in DOMAIN medium' /\ medium'.kind = medium.kind
    BY <2>1 DEF MediumInv
  <2> QED  BY <2>1, <2>2 DEF MediumInv
<1> QED  BY <1>2, <1>3, <1>4, <1>5, <1>6 DEF Build

LEMMA MediumStep == MediumInv /\ [Next]_vars => MediumInv'
<1> SUFFICES ASSUME MediumInv, [Next]_vars PROVE MediumInv'
  OBVIOUS
<1>1. CASE BuildStep
  BY <1>1, BuildMakes DEF BuildStep
<1>2. CASE BootStep
  BY <1>2 DEF BootStep, MediumInv, NoMedium
<1>3. CASE HostStep \/ GuestStep \/ UNCHANGED vars
  BY <1>3 DEF HostStep, GuestStep, vars, mediaVars, MediumInv
<1> QED  BY <1>1, <1>2, <1>3 DEF Next

(* A step of the chain is a step of the resolver, or starts it anew.       *)
LEMMA ResolverPart ==
  ASSUME MediumInv, [Next]_vars
  PROVE  [ResolverNext]_resolverVars \/ ResolverInit'
<1>1. CASE BuildStep
  BY <1>1, BuildMakes DEF BuildStep
<1>2. CASE BootStep
  BY <1>2 DEF BootStep, ResolverInit
<1>3. CASE HostStep \/ GuestStep \/ UNCHANGED vars
  BY <1>3 DEF HostStep, GuestStep, vars
<1> QED  BY <1>1, <1>2, <1>3 DEF Next

ListsInv == TypeInv /\ IntactInv /\ WalkInv

LEMMA ListsInit == ResolverInit => ListsInv
BY TypeInvInit, IntactInit, WalkInit DEF ListsInv

LEMMA ListsStep == MediumInv /\ ListsInv /\ [Next]_vars => ListsInv'
<1> SUFFICES ASSUME MediumInv, ListsInv, [Next]_vars PROVE ListsInv'
  OBVIOUS
<1>1. ResolverInit' => ListsInv'
  BY ListsInit, PTL
<1>2. [ResolverNext]_resolverVars => ListsInv'
  BY TypeInvStep, IntactStep, WalkStep DEF ListsInv
<1> QED  BY <1>1, <1>2, ResolverPart

LEMMA ListsHold == Spec => [](MediumInv /\ ListsInv)
<1>1. Init => MediumInv /\ ListsInv
  BY MediumInit, ListsInit DEF Init
<1> QED  BY <1>1, MediumStep, ListsStep, PTL DEF Spec

(* What the resolver promises of the list and of the packages holds along  *)
(* the chain, builds of media and boots between its runs.                  *)
THEOREM ChainListsAreGood ==
  Spec => []ListedIsIntact /\ []DependenciesFirst /\ []FinishedOrderIsWhole
<1>1. ListsInv => ListedIsIntact /\ DependenciesFirst /\ FinishedOrderIsWhole
  BY WalkIsWhole DEF ListsInv, IntactInv, ListedIsIntact, WalkInv
<1> QED  BY <1>1, ListsHold, PTL

(* The order on disk names nothing twice: a list cut short ends in a part  *)
(* of a name at most once.                                                 *)
OnceInv == IsInjective(order.names)

LEMMA TornOrderOnce ==
  ASSUME ordered \in Seq(Ext), IsInjective(ordered), NEW o \in TornOrders
  PROVE  IsInjective(o.names)
<1> DEFINE part(n) == SubSeq(ordered, 1, n)
<1>1. Len(ordered) \in Nat /\ Cut \notin Ext /\ ordered \in Seq(Ext)
  BY ResolverAssumption
<1>2. ASSUME NEW n \in 0..Len(ordered)
      PROVE  /\ part(n) \in Seq(Ext) /\ Len(part(n)) = n /\ DOMAIN part(n) = 1..n
             /\ \A i \in 1..n : part(n)[i] = ordered[i]
  <2>1. part(n) \in Seq(Ext) /\ Len(part(n)) = n /\ \A i \in 1..n : part(n)[i] = ordered[i]
    BY <1>1, SubSeqProperties
  <2> HIDE DEF part
  <2> QED  BY <2>1
<1>3. DOMAIN ordered = 1..Len(ordered)
  BY <1>1
<1> HIDE DEF part
<1>4. ASSUME NEW n \in 0..Len(ordered) PROVE IsInjective(part(n))
  <2> SUFFICES ASSUME NEW i \in 1..n, NEW j \in 1..n, part(n)[i] = part(n)[j] PROVE i = j
    BY <1>2 DEF IsInjective
  <2>1. i \in DOMAIN ordered /\ j \in DOMAIN ordered
    BY <1>1, <1>3
  <2> QED  BY <1>2, <2>1 DEF IsInjective
<1>5. CASE \E n \in 0..Len(ordered) : o = [there |-> TRUE, names |-> part(n)]
  BY <1>4, <1>5
<1>6. CASE \E n \in 0..(Len(ordered) - 1) :
              o = [there |-> TRUE, names |-> Append(part(n), Cut)]
  <2>1. PICK n \in 0..(Len(ordered) - 1) :
               o = [there |-> TRUE, names |-> Append(part(n), Cut)]
    BY <1>6
  <2>2. n \in 0..Len(ordered)
    BY <1>1
  <2>3. part(n) \in Seq(Ext) /\ part(n) \in Seq(Ext \cup {Cut}) /\ Cut \notin ToSet(part(n))
    <3>1. part(n) \in Seq(Ext) /\ DOMAIN part(n) = 1..n /\ Len(part(n)) = n
      BY <1>2, <2>2
    <3>2. Cut \notin ToSet(part(n))
      BY <1>1, <3>1 DEF ToSet
    <3> QED  BY <3>1, <3>2, SeqMonotonic
  <2>4. IsInjective(Append(part(n), Cut))
    <3> DEFINE w == part(n)
               S == Ext \cup {Cut}
    <3>1. w \in Seq(S) /\ Cut \in S /\ IsInjective(w) /\ Cut \notin ToSet(w)
      BY <1>4, <2>2, <2>3
    <3> HIDE DEF w, S
    <3>2. IsInjective(Append(w, Cut))
      BY <3>1, AppendNew
    <3> QED  BY <3>2 DEF w
  <2> QED  BY <2>1, <2>4
<1> QED  BY <1>5, <1>6 DEF TornOrders, part

LEMMA OnceInit == ResolverInit => OnceInv
BY DEF ResolverInit, NoOrder, OnceInv, IsInjective

LEMMA OnceStep ==
  ASSUME ListsInv, OnceInv, [ResolverNext]_resolverVars
  PROVE  OnceInv'
<1>1. ordered \in Seq(Ext) /\ IsInjective(ordered)
  BY DEF ListsInv, TypeInv, ResolverTypeOK, WalkInv, ListInv
<1>2. \/ order' = order \/ order' = [there |-> TRUE, names |-> ordered]
      \/ order' \in TornOrders
  BY DEF ResolverNext, ResolverStep, StartResolver, VisitSeen, VisitNew, FetchPackage,
         FetchSum, Verify, VerifyFails, WriteOrder, FetchFails, KillResolver, MirrorMoves,
         resolverVars
<1> QED  BY <1>1, <1>2, TornOrderOnce DEF OnceInv

(* Along the chain the media made are sound: the builders start from an    *)
(* order without a name twice.                                             *)
HostInv == MediumInv /\ ListsInv /\ OnceInv /\ MadeInv

LEMMA HostInit == ResolverInit /\ MediaInit => HostInv
BY MediumInit, ListsInit, OnceInit DEF HostInv, MadeInv, MediaInit

LEMMA HostInductive == HostInv /\ [Next]_vars => HostInv'
<1> SUFFICES ASSUME HostInv, [Next]_vars PROVE HostInv'
  OBVIOUS
<1>1. MediumInv' /\ ListsInv'
  BY MediumStep, ListsStep DEF HostInv
<1>2. OnceInv'
  <2>1. ResolverInit' => OnceInv'
    BY OnceInit, PTL
  <2>2. [ResolverNext]_resolverVars => OnceInv'
    BY OnceStep DEF HostInv
  <2> QED  BY <2>1, <2>2, ResolverPart DEF HostInv
<1>3. MadeInv'
  <2>1. OrderReady
    BY DEF HostInv, ListsInv, TypeInv, ResolverTypeOK, OnceInv, OrderReady
  <2>2. CASE BuildStep
    BY <2>1, <2>2, BuildMade DEF BuildStep, HostInv
  <2>3. CASE BootStep
    BY <2>3 DEF BootStep, MadeInv
  <2>4. CASE HostStep \/ GuestStep \/ UNCHANGED vars
    BY <2>4 DEF HostStep, GuestStep, vars, mediaVars, MadeInv, HostInv
  <2> QED  BY <2>2, <2>3, <2>4 DEF Next
<1> QED  BY <1>1, <1>2, <1>3 DEF HostInv

LEMMA HostInvHolds == Spec => []HostInv
<1>1. Init => HostInv
  BY HostInit DEF Init
<1> QED  BY <1>1, HostInductive, PTL DEF Spec

(* An initramfs with the extensions in it unpacks to the files it was made *)
(* of, and still does when its init has been replaced, however the lengths *)
(* of names and files fall on the multiples of four.                       *)
THEOREM ArchivesUnpackWhole == Spec => []ArchiveUnpacksWhole
<1>1. HostInv => ArchiveUnpacksWhole
  BY MadeIsSound DEF HostInv
<1> QED  BY <1>1, HostInvHolds, PTL

(* The ISO9660 view of a game disc leads to every file of the payload and  *)
(* back, and none of its directories lies on something else.               *)
THEOREM OverlaysAreSound == Spec => []OverlayIsSound
<1>1. HostInv => OverlayIsSound
  BY MadeIsSound DEF HostInv
<1> QED  BY <1>1, HostInvHolds, PTL

(* A medium reads as a payload.                                            *)
MediumIsPayload == stage = "made" => IsPayload(Contents)

LEMMA OrderTxtIsSmall == Lower(OrderTxt) = OrderTxt
BY MediaAssumption DEF Lower, OrderTxt, PlainNames

LEMMA MadeIsPayload == MadeInv => MediumIsPayload
<1> SUFFICES ASSUME MadeInv, stage = "made" PROVE IsPayload(Contents)
  BY DEF MediumIsPayload
<1> DEFINE names == medium.files[OrderTxt].names
           all == Ext \cup {LowerCase[e] : e \in Ext}
           body(n) == Read(<<"tcz", n>>).body
           held == {n \in all : body(n) # Absent}
           c == Contents
<1>1. /\ names \in Seq(Ext) /\ IsInjective(names)
      /\ Read(OrderTxt) = Holding(names, 1)
      /\ \A e \in ToSet(names) : \/ Read(Extension(e)).body # Absent
                                 \/ Read(Extension(LowerCase[e])).body # Absent
  BY MediumIsRead
<1>2. c.order = names
  <2>1. c.order = Read(IF medium.kind = "game" THEN Lower(OrderTxt) ELSE OrderTxt).names
    BY DEF Contents
  <2>2. (IF medium.kind = "game" THEN Lower(OrderTxt) ELSE OrderTxt) = OrderTxt
    BY OrderTxtIsSmall
  <2>3. Holding(names, 1).names = names
    BY DEF Holding
  <2> HIDE DEF c, names
  <2> QED  BY <1>1, <2>1, <2>2, <2>3
<1>3. c.body = [n \in held |-> IF body(n) = Torn THEN "torn" ELSE "whole"]
  BY DEF Contents
<1> HIDE DEF c
<1>4. DOMAIN c.body = held /\ \A n \in held : c.body[n] \in {"torn", "whole"}
  <2> HIDE DEF held, body
  <2> QED  BY <1>3
<1>5. ASSUME NEW e \in ToSet(names) PROVE {e, LowerCase[e]} \cap held # {}
  <2>1. e \in all /\ LowerCase[e] \in all
    <3>1. e \in Ext
      BY <1>1 DEF ToSet
    <3> QED  BY <3>1
  <2>2. body(e) # Absent \/ body(LowerCase[e]) # Absent
    BY <1>1 DEF Extension
  <2> HIDE DEF all, body
  <2> QED  BY <2>1, <2>2
<1> HIDE DEF names, held, body, all
<1>6. IsPayload(c)
  BY <1>1, <1>2, <1>4, <1>5 DEF IsPayload
<1> QED  BY <1>6 DEF c

(* Whatever the runs of the resolver left and whatever medium was made of  *)
(* it, init finds an order of extensions, each once, and a file for each.  *)
THEOREM MediaArePayloads == Spec => []MediumIsPayload
<1>1. HostInv => MediumIsPayload
  BY MadeIsPayload DEF HostInv
<1> QED  BY <1>1, HostInvHolds, PTL

LEMMA ChainGuestStep ==
  HostInv /\ [Next]_vars => [GuestStart \/ GuestNext]_guestVars
<1> SUFFICES ASSUME HostInv, [Next]_vars
             PROVE  [GuestStart \/ GuestNext]_guestVars
  OBVIOUS
<1>1. CASE BootStep
  <2>1. Boot(medium.kind, Contents) /\ medium.kind \in Kind
    BY <1>1 DEF BootStep, HostInv, MediumInv
  <2>2. files' = Contents
    BY <2>1 DEF Boot
  <2>3. IsPayload(Contents)
    BY <1>1, MadeIsPayload DEF BootStep, HostInv, MediumIsPayload
  <2> QED  BY <2>1, <2>2, <2>3 DEF GuestStart
<1>2. CASE HostStep \/ BuildStep \/ GuestStep \/ UNCHANGED vars
  BY <1>2 DEF HostStep, BuildStep, GuestStep, vars
<1> QED  BY <1>1, <1>2 DEF Next

(* The chain implements the guest by itself: what is read of the media it  *)
(* makes is a payload of the kind that starts it.                          *)
THEOREM ChainRunsGuest == Spec => GuestSpec
<1>1. Init => GuestInit
  BY DEF Init
<1> QED  BY <1>1, ChainGuestStep, HostInvHolds, PTL DEF Spec, GuestSpec

(* The variables keep their types, and a medium is there while it is made. *)
THEOREM ChainTypeCorrect == Spec => []TypeOK
<1>1. HostInv /\ GuestInv => TypeOK
  BY DEF HostInv, MediumInv, ListsInv, TypeInv, GuestInv, TypeOK, Kind
<1> QED  BY <1>1, HostInvHolds, ChainRunsGuest, GuestInvHolds, PTL

(* What is promised of init holds of every medium of the chain: it gives   *)
(* up only where nothing was to be found, and mounts of a whole payload as *)
(* much as there are loop devices for, from its beginning.                 *)
THEOREM ChainFindsAndLoads == Spec => []GivenUpJustified /\ []WholePayloadLoads
BY ChainRunsGuest, GivingUpOnPayloadIsJustified, WholePayloadsLoad, PTL

(* And no program along the chain notices the hot set, and the marker of   *)
(* its release tells the truth.                                            *)
THEOREM ChainReadsRight == Spec => []PathsReadRight /\ []ReleaseTellsTheTruth
BY ChainRunsGuest, HotSetIsNotNoticed, ReleaseIsTrue, PTL
=============================================================================
