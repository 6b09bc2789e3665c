--------------------------- MODULE Stage1InitProofs ---------------------------
(***************************************************************************)
(* The loader gives up only with a reason and keeps to the drive it was    *)
(* told, for every set of drives, every list of names, every machine and   *)
(* any number of looks, whenever the kernel finds the drives.              *)
(***************************************************************************)
EXTENDS Stage1Init, TLAPS

Word == Device \cup {NoDisk}
ToCome(d) == \E i \in DOMAIN rest : rest[i] = d

(* Which parts of the script a source goes through, and what holds there.  *)
PathInv ==
  /\ cmd.source = "iso" => pc \notin {"probe", "wait", "fatx"}
  /\ cmd.source = "fatx" => pc \notin {"list", "scan", "mount"} /\ nodes = {}
  /\ pc \in {"probe", "wait", "fatx", "list", "scan", "mount"} => mounted = NoDisk
  /\ pc \in {"image", "enter"} => mounted # NoDisk
  /\ pc \in {"probe", "wait"} => polls < MaxPolls
  /\ pc = "proof" => cmd.proof
  /\ pc = "list" => disk = cmd.disk /\ tried = {}
  /\ pc = "mount" => rest # <<>> /\ Head(rest) \in Device /\ HasNode(Head(rest))

(* FATX: the disk is the one given, and was seen or waited for.            *)
FatxInv ==
  cmd.source = "fatx" =>
    /\ cmd.disk # NoDisk => disk = cmd.disk /\ pc # "probe"
    /\ pc = "fatx" => polls = MaxPolls \/ (devtmpfs /\ disk \in seen)
    /\ mounted # NoDisk => mounted = disk

(* ISO: a drive with the payload that was there when the search looked is  *)
(* still to come and has not been tried, but for the one being mounted.    *)
ScanInv ==
  pc \in {"scan", "mount"} =>
    \A d \in seen :
      (Reachable(d) /\ HasIsoPayload(d)) =>
        ToCome(d) /\ (d \in tried => pc = "mount" /\ d = Head(rest))

(* If the drive given is such a drive, it is the first to be tried.        *)
GivenInv ==
  (pc \in {"scan", "mount"} /\ cmd.disk \in seen /\ HasIsoPayload(cmd.disk)) =>
    /\ rest # <<>> /\ Head(rest) = cmd.disk
    /\ pc = "scan" => cmd.disk \notin tried

LoaderInv ==
  /\ TypeOK /\ PathInv /\ FatxInv /\ ScanInv /\ GivenInv
  /\ GaveUpJustified /\ GivenDiskWins

-----------------------------------------------------------------------------
LEMMA CommandFacts ==
  ASSUME TypeOK
  PROVE  /\ cmd.source \in {"fatx", "iso"} /\ cmd.disk \in Word
         /\ cmd.proof \in BOOLEAN /\ Word = Device \cup {NoDisk}
BY DEF TypeOK, CommandLine, Word

(* The list of names.                                                      *)
LEMMA SysNamesFacts ==
  /\ SysNames \in Seq(Word) /\ Len(SysNames) = Len(SysOrder) /\ Len(SysOrder) \in Nat
  /\ \A d \in Matching \cap attached :
       \E i \in 1..Len(SysNames) : SysNames[i] = d
<1>1. /\ SysOrder \in Seq(Device)
      /\ Matching \subseteq {SysOrder[i] : i \in DOMAIN SysOrder}
  BY Stage1Assumption
<1>2. Len(SysOrder) \in Nat /\ DOMAIN SysOrder = 1..Len(SysOrder)
      /\ \A i \in 1..Len(SysOrder) : SysOrder[i] \in Device
  BY <1>1
<1>3. SysNames \in [1..Len(SysOrder) -> Word]
  BY <1>2 DEF SysNames, Word
<1>4. SysNames \in Seq(Word) /\ Len(SysNames) = Len(SysOrder)
  BY <1>2, <1>3
<1>5. ASSUME NEW d \in Matching \cap attached
      PROVE  \E i \in 1..Len(SysNames) : SysNames[i] = d
  <2>1. PICK i \in DOMAIN SysOrder : SysOrder[i] = d
    BY <1>1
  <2>2. SysNames[i] = d
    BY <2>1 DEF SysNames
  <2> QED  BY <1>2, <1>4, <2>1, <2>2
<1> QED  BY <1>2, <1>4, <1>5

NamesFrom(w) == <<w>> \o SysNames \o FallbackOrder

LEMMA ListFacts ==
  ASSUME NEW w \in Word
  PROVE  LET names == NamesFrom(w) IN
         /\ names \in Seq(Word) /\ names # <<>> /\ Head(names) = w
         /\ \A d \in attached :
              (d = w \/ d \in Matching
                 \/ \E i \in DOMAIN FallbackOrder : FallbackOrder[i] = d) =>
                \E i \in DOMAIN names : names[i] = d
<1> DEFINE n == Len(SysNames)
           m == Len(FallbackOrder)
           names == NamesFrom(w)
<1>1. FallbackOrder \in Seq(Word) /\ FallbackOrder \in Seq(Device)
  BY Stage1Assumption DEF Word
<1>2. /\ SysNames \in Seq(Word) /\ n \in Nat /\ m \in Nat
      /\ DOMAIN FallbackOrder = 1..m
  BY <1>1, SysNamesFacts
<1>3. /\ names \in Seq(Word) /\ Len(names) = 1 + n + m /\ names[1] = w
      /\ \A i \in 1..n : names[1 + i] = SysNames[i]
      /\ \A i \in 1..m : names[1 + n + i] = FallbackOrder[i]
  BY <1>1, <1>2 DEF NamesFrom
<1>4. names # <<>> /\ Head(names) = w /\ DOMAIN names = 1..(1 + n + m)
  BY <1>2, <1>3
<1> HIDE DEF n, m, names
<1>5. ASSUME NEW d \in attached, d = w
      PROVE  \E i \in DOMAIN names : names[i] = d
  BY <1>2, <1>3, <1>4, <1>5
<1>6. ASSUME NEW d \in attached, d \in Matching
      PROVE  \E i \in DOMAIN names : names[i] = d
  <2>1. PICK i \in 1..n : SysNames[i] = d
    BY <1>6, SysNamesFacts DEF n
  <2>2. 1 + i \in 1..(1 + n + m)
    BY <1>2, <2>1
  <2> QED  BY <1>3, <1>4, <2>1, <2>2
<1>7. ASSUME NEW d \in attached, NEW i \in DOMAIN FallbackOrder, FallbackOrder[i] = d
      PROVE  \E j \in DOMAIN names : names[j] = d
  <2>1. i \in 1..m /\ 1 + n + i \in 1..(1 + n + m)
    BY <1>2, <1>7
  <2> QED  BY <1>3, <1>4, <1>7, <2>1
<1> QED  BY <1>3, <1>4, <1>5, <1>6, <1>7 DEF names

(* What is still to come but for the first.                                *)
LEMMA TailFacts ==
  ASSUME NEW s \in Seq(Word), s # <<>>
  PROVE  /\ Tail(s) \in Seq(Word) /\ Head(s) \in Word
         /\ \A i \in DOMAIN s : s[i] # Head(s) =>
              \E j \in DOMAIN Tail(s) : Tail(s)[j] = s[i]
<1>1. /\ Len(s) \in Nat /\ Len(s) > 0 /\ DOMAIN s = 1..Len(s) /\ Head(s) = s[1]
      /\ Tail(s) \in Seq(Word) /\ Len(Tail(s)) = Len(s) - 1
      /\ \A j \in 1..(Len(s) - 1) : Tail(s)[j] = s[j + 1]
  OBVIOUS
<1>2. DOMAIN Tail(s) = 1..(Len(s) - 1)
  BY <1>1
<1>3. ASSUME NEW i \in DOMAIN s, s[i] # Head(s)
      PROVE  \E j \in DOMAIN Tail(s) : Tail(s)[j] = s[i]
  <2>1. i - 1 \in 1..(Len(s) - 1) /\ (i - 1) + 1 = i
    BY <1>1, <1>3
  <2> QED  BY <1>1, <1>2, <2>1
<1> QED  BY <1>1, <1>3

-----------------------------------------------------------------------------
LEMMA LoaderInit == Init => LoaderInv
<1> SUFFICES ASSUME Init PROVE LoaderInv
  OBVIOUS
<1>1. TypeOK
  <2>1. /\ medium \in [Device -> Medium] /\ cmd \in CommandLine
        /\ ProbeOrder \in Seq(Device) /\ MaxPolls \in Nat
    BY Stage1Assumption DEF Init
  <2>2. cmd.disk \in Word /\ ProbeOrder \in Seq(Word)
    BY <2>1 DEF CommandLine, Word
  <2> QED  BY <2>1, <2>2 DEF Init, TypeOK, PC, Final, Word
<1>2. cmd.source = "iso" => cmd.source # "fatx"
  OBVIOUS
<1> QED
  BY <1>1, <1>2, CommandFacts, Stage1Assumption
     DEF Init, LoaderInv, PathInv, FatxInv, ScanInv, GivenInv, GaveUpJustified,
         GivenDiskWins

(* The kernel finds a drive: what was there when the search looked stays.  *)
LEMMA AttachStep ==
  ASSUME LoaderInv, NEW d \in Device, Attach(d)
  PROVE  LoaderInv'
<1>1. /\ UNCHANGED <<machine, nodes, pc, disk, rest, tried, polls, mounted, seen>>
      /\ attached' = attached \cup {d}
  BY DEF Attach
<1>2. UNCHANGED <<medium, cmd, devtmpfs>>
  BY <1>1 DEF machine
<1>3. TypeOK'
  BY <1>1, <1>2 DEF LoaderInv, TypeOK
<1>4. PathInv'
  BY <1>1, <1>2 DEF LoaderInv, PathInv, HasNode
<1>5. (FatxInv /\ ScanInv /\ GivenInv /\ GaveUpJustified /\ GivenDiskWins)'
  BY <1>1, <1>2
     DEF LoaderInv, FatxInv, ScanInv, GivenInv, GaveUpJustified, GivenDiskWins,
         Reachable, HasIsoPayload, ToCome
<1> QED  BY <1>3, <1>4, <1>5 DEF LoaderInv

(* Finding the FATX disk and mounting it.                                  *)
LEMMA ProbeStep == ASSUME LoaderInv, Probe PROVE LoaderInv'
<1> USE DEF LoaderInv
<1>1. /\ UNCHANGED <<medium, cmd, devtmpfs, attached, nodes, tried, polls, mounted, seen>>
      /\ pc = "probe" /\ cmd.source = "fatx" /\ mounted = NoDisk /\ cmd.source # "iso"
      /\ polls < MaxPolls
  BY CommandFacts DEF Probe, GoesTo, PathInv, machine
<1>2. \/ /\ disk' \in Device /\ pc' = "wait" /\ UNCHANGED rest
      \/ /\ disk' = disk /\ pc' = "probe" /\ rest' \in Seq(Word)
  <2>1. CASE rest = <<>>
    BY <2>1, Stage1Assumption DEF Probe, GoesTo
  <2>2. CASE rest # <<>> /\ HasNode(Head(rest))
    BY <2>2 DEF Probe, GoesTo, HasNode, TypeOK
  <2>3. CASE rest # <<>> /\ ~HasNode(Head(rest))
    BY <2>3 DEF Probe, GoesTo, TypeOK, Word
  <2> QED  BY <2>1, <2>2, <2>3
<1>3. TypeOK'
  BY <1>1, <1>2 DEF TypeOK, PC, Final, Word
<1>4. PathInv'
  BY <1>1, <1>2, Stage1Assumption DEF PathInv
<1>5. (FatxInv /\ ScanInv /\ GivenInv /\ GaveUpJustified /\ GivenDiskWins)'
  BY <1>1, <1>2
     DEF FatxInv, ScanInv, GivenInv, GaveUpJustified, GivenDiskWins
<1> QED  BY <1>3, <1>4, <1>5

LEMMA WaitDiskStep == ASSUME LoaderInv, WaitDisk PROVE LoaderInv'
<1> USE DEF LoaderInv
<1>1. /\ UNCHANGED <<medium, cmd, devtmpfs, attached, nodes, disk, rest, tried, mounted>>
      /\ pc = "wait" /\ cmd.source = "fatx" /\ mounted = NoDisk /\ cmd.source # "iso"
      /\ seen' = attached /\ nodes = {} /\ polls \in Nat /\ polls < MaxPolls
  BY CommandFacts, Stage1Assumption DEF WaitDisk, GoesTo, PathInv, machine, TypeOK
<1>2. \/ devtmpfs /\ disk \in attached /\ pc' = "fatx" /\ UNCHANGED polls
      \/ polls' = polls + 1 /\ polls' = MaxPolls /\ pc' = "fatx"
      \/ polls' = polls + 1 /\ polls' # MaxPolls /\ pc' = "wait"
  BY <1>1 DEF WaitDisk, GoesTo, HasNode
<1>3. polls' \in 0..MaxPolls /\ (pc' = "wait" => polls' < MaxPolls)
  BY <1>1, <1>2, Stage1Assumption DEF TypeOK
<1>4. TypeOK'
  BY <1>1, <1>2, <1>3 DEF TypeOK, PC, Final
<1>5. PathInv'
  BY <1>1, <1>2, <1>3 DEF PathInv
<1>6. (FatxInv /\ ScanInv /\ GivenInv /\ GaveUpJustified /\ GivenDiskWins)'
  BY <1>1, <1>2
     DEF FatxInv, ScanInv, GivenInv, GaveUpJustified, GivenDiskWins
<1> QED  BY <1>4, <1>5, <1>6

LEMMA MountFatxStep == ASSUME LoaderInv, MountFatx PROVE LoaderInv'
<1> USE DEF LoaderInv
<1>1. /\ UNCHANGED <<medium, cmd, devtmpfs, attached, nodes, disk, rest, tried, polls, seen>>
      /\ pc = "fatx" /\ cmd.source = "fatx" /\ mounted = NoDisk /\ cmd.source # "iso"
      /\ seen \subseteq attached /\ nodes = {} /\ NoDisk \notin Device
  BY CommandFacts, Stage1Assumption DEF MountFatx, GoesTo, PathInv, machine, TypeOK
<1>2. \/ Mountable(disk, "fatx") /\ mounted' = disk /\ pc' = "image"
      \/ ~Mountable(disk, "fatx") /\ UNCHANGED mounted /\ pc' = "shell"
  BY DEF MountFatx, GoesTo
<1>3. mounted' # NoDisk => mounted' = disk /\ disk \in Device
  BY <1>1, <1>2 DEF Mountable, TypeOK
<1>4. TypeOK' /\ PathInv' /\ FatxInv' /\ ScanInv' /\ GivenInv'
  BY <1>1, <1>2, <1>3
     DEF TypeOK, PathInv, FatxInv, ScanInv, GivenInv, PC, Final, Mountable
<1>5. GivenDiskWins'
  BY <1>1, <1>3 DEF GivenDiskWins, FatxInv
<1>6. ASSUME pc' = "shell", mounted' = NoDisk, devtmpfs, disk \in seen
      PROVE  medium[disk].fs # "fatx"
  <2>1. ~Mountable(disk, "fatx") /\ disk \in attached
    BY <1>1, <1>2, <1>6
  <2> QED  BY <1>6, <2>1 DEF Mountable, HasNode
<1>7. GaveUpJustified'
  BY <1>1, <1>6 DEF GaveUpJustified, FatxInv
<1> QED  BY <1>4, <1>5, <1>7

(* Looking for a disc: the names are listed, then tried one by one.        *)
LEMMA ListStep == ASSUME LoaderInv, ListCandidates PROVE LoaderInv'
<1> USE DEF LoaderInv
<1>1. /\ UNCHANGED <<medium, cmd, devtmpfs, attached, nodes, disk, tried, polls, mounted>>
      /\ pc = "list" /\ cmd.source = "iso" /\ cmd.source # "fatx" /\ mounted = NoDisk
      /\ disk = cmd.disk /\ disk \in Word /\ tried = {} /\ seen' = attached
      /\ pc' = "scan" /\ rest' = NamesFrom(disk)
  BY CommandFacts DEF NamesFrom, ListCandidates, GoesTo, PathInv, machine
<1>2. /\ rest' \in Seq(Word) /\ rest' # <<>> /\ Head(rest') = disk
      /\ \A d \in attached : Reachable(d) => \E i \in DOMAIN rest' : rest'[i] = d
  BY <1>1, ListFacts DEF Reachable
<1>3. TypeOK' /\ PathInv' /\ FatxInv' /\ GaveUpJustified' /\ GivenDiskWins'
  BY <1>1, <1>2
     DEF TypeOK, PathInv, FatxInv, GaveUpJustified, GivenDiskWins, PC, Word
<1>4. ScanInv' /\ GivenInv'
  BY <1>1, <1>2 DEF ScanInv, GivenInv, ToCome, Reachable, HasIsoPayload
<1> QED  BY <1>3, <1>4

LEMMA NextCandidateStep == ASSUME LoaderInv, NextCandidate PROVE LoaderInv'
<1> USE DEF LoaderInv
<1> DEFINE d == Head(rest)
<1>1. /\ UNCHANGED <<medium, cmd, devtmpfs, attached, disk, polls, mounted, seen>>
      /\ pc = "scan" /\ cmd.source = "iso" /\ cmd.source # "fatx" /\ mounted = NoDisk
      /\ rest # <<>> /\ tried' = tried \cup {d} /\ seen \subseteq attached
      /\ rest \in Seq(Word) /\ NoDisk \notin Device /\ attached \subseteq Device
  BY CommandFacts, Stage1Assumption
     DEF NextCandidate, GoesTo, PathInv, machine, TypeOK, Word
<1>2. \/ /\ d \in tried \cup {NoDisk} \/ ~(HasNode(d) \/ NumberKnown(d))
         /\ rest' = Tail(rest) /\ pc' = "scan" /\ UNCHANGED nodes
      \/ /\ d \notin tried \cup {NoDisk} /\ HasNode(d)
         /\ pc' = "mount" /\ UNCHANGED <<rest, nodes>>
      \/ /\ d \notin tried \cup {NoDisk}
         /\ pc' = "mount" /\ UNCHANGED rest /\ nodes' = nodes \cup {d}
  BY DEF NextCandidate, GoesTo
<1>3. /\ d \in Word /\ rest' \in Seq(Word) /\ nodes' \subseteq Device
      /\ pc' = "mount" => d \in Device /\ HasNode(d)'
  BY <1>1, <1>2, TailFacts DEF TypeOK, Word, HasNode
<1>4. TypeOK' /\ PathInv' /\ FatxInv' /\ GaveUpJustified' /\ GivenDiskWins'
  BY <1>1, <1>2, <1>3
     DEF TypeOK, PathInv, FatxInv, GaveUpJustified, GivenDiskWins, PC, Word, HasNode
<1>5. ASSUME NEW x \in seen, Reachable(x), HasIsoPayload(x)
      PROVE  /\ ToCome(x)'
             /\ x \in tried' => pc' = "mount" /\ x = Head(rest')
             /\ x = d => pc' = "mount"
  <2>1. ToCome(x) /\ x \notin tried /\ x \in attached /\ x \in Device
    BY <1>1, <1>5 DEF ScanInv
  <2>2. CASE pc' = "mount"
    BY <1>1, <1>2, <2>1, <2>2 DEF ToCome
  <2>3. CASE pc' = "scan"
    <3>1. x # d
      BY <1>1, <1>2, <2>1, <2>3 DEF NumberKnown
    <3> QED  BY <1>1, <1>2, <2>1, <2>3, <3>1, TailFacts DEF ToCome
  <2> QED  BY <1>2, <2>2, <2>3
<1>6. ScanInv'
  BY <1>1, <1>5 DEF ScanInv, Reachable, HasIsoPayload
<1>7. GivenInv'
  <2> SUFFICES ASSUME cmd.disk \in seen, HasIsoPayload(cmd.disk)
               PROVE  /\ rest' # <<>> /\ Head(rest') = cmd.disk /\ pc' = "mount"
    BY <1>1 DEF GivenInv, HasIsoPayload
  <2>1. d = cmd.disk
    BY <1>1 DEF GivenInv
  <2>2. pc' = "mount"
    BY <1>5, <2>1 DEF Reachable
  <2> QED  BY <1>1, <1>2, <2>1, <2>2
<1> QED  BY <1>4, <1>6, <1>7

LEMMA MountIsoStep == ASSUME LoaderInv, MountIso PROVE LoaderInv'
<1> USE DEF LoaderInv
<1> DEFINE d == Head(rest)
<1>1. /\ UNCHANGED <<medium, cmd, devtmpfs, attached, nodes, tried, polls, seen>>
      /\ pc = "mount" /\ cmd.source = "iso" /\ cmd.source # "fatx" /\ mounted = NoDisk
      /\ rest # <<>> /\ d \in Device /\ HasNode(d) /\ seen \subseteq attached
      /\ rest \in Seq(Word) /\ NoDisk \notin Device
  BY CommandFacts, Stage1Assumption DEF MountIso, GoesTo, PathInv, machine, TypeOK, Word
<1>2. CASE Mountable(d, "iso9660") /\ medium[d].payload # "absent"
  <2>1. disk' = d /\ mounted' = d /\ pc' = "image" /\ UNCHANGED rest
    BY <1>2 DEF MountIso, GoesTo
  <2>2. TypeOK' /\ PathInv' /\ FatxInv' /\ ScanInv' /\ GivenInv' /\ GaveUpJustified'
    BY <1>1, <2>1
       DEF TypeOK, PathInv, FatxInv, ScanInv, GivenInv, GaveUpJustified, PC
  <2>3. GivenDiskWins'
    BY <1>1, <2>1 DEF GivenDiskWins, GivenInv, HasIsoPayload
  <2> QED  BY <2>2, <2>3
<1>3. CASE ~(Mountable(d, "iso9660") /\ medium[d].payload # "absent")
  <2>1. UNCHANGED <<disk, mounted>> /\ pc' = "scan" /\ rest' = Tail(rest)
    BY <1>3 DEF MountIso, GoesTo
  <2>2. d \notin seen \/ ~HasIsoPayload(d)
    BY <1>1, <1>3 DEF Mountable, HasIsoPayload
  <2>3. rest' \in Seq(Word)
    BY <1>1, <2>1, TailFacts
  <2>4. TypeOK' /\ PathInv' /\ FatxInv' /\ GaveUpJustified' /\ GivenDiskWins'
    BY <1>1, <2>1, <2>3
       DEF TypeOK, PathInv, FatxInv, GaveUpJustified, GivenDiskWins, PC, Word
  <2>5. ASSUME NEW x \in seen, Reachable(x), HasIsoPayload(x)
        PROVE  ToCome(x)' /\ x \notin tried
    <3>1. ToCome(x) /\ x # d /\ x \notin tried
      BY <1>1, <2>2, <2>5 DEF ScanInv
    <3> QED  BY <1>1, <2>1, <3>1, TailFacts DEF ToCome
  <2>6. ScanInv'
    BY <1>1, <2>5 DEF ScanInv, Reachable, HasIsoPayload
  <2>7. GivenInv'
    BY <1>1, <2>2 DEF GivenInv, HasIsoPayload
  <2> QED  BY <2>4, <2>6, <2>7
<1> QED  BY <1>2, <1>3

LEMMA ScanFailsStep == ASSUME LoaderInv, ScanFails PROVE LoaderInv'
<1> USE DEF LoaderInv
<1>1. /\ UNCHANGED <<medium, cmd, devtmpfs, attached, nodes, disk, rest, tried, polls,
                     mounted, seen>>
      /\ pc = "scan" /\ cmd.source = "iso" /\ cmd.source # "fatx" /\ mounted = NoDisk
      /\ rest = <<>> /\ pc' = "shell"
  BY CommandFacts DEF ScanFails, GoesTo, PathInv, machine
<1>2. \A d \in seen : Reachable(d) => ~HasIsoPayload(d)
  BY <1>1 DEF ScanInv, ToCome
<1>3. TypeOK' /\ PathInv' /\ FatxInv' /\ ScanInv' /\ GivenInv' /\ GivenDiskWins'
  BY <1>1
     DEF TypeOK, PathInv, FatxInv, ScanInv, GivenInv, GivenDiskWins, PC, Final
<1>4. GaveUpJustified'
  BY <1>1, <1>2 DEF GaveUpJustified, Reachable, HasIsoPayload
<1> QED  BY <1>3, <1>4

(* From the drive to the payload's own init.                               *)
LEMMA RootStep ==
  ASSUME LoaderInv, MountRoot \/ EnterRoot \/ ProofReturns
  PROVE  LoaderInv'
<1> USE DEF LoaderInv
<1>1. /\ UNCHANGED <<medium, cmd, devtmpfs, attached, nodes, disk, rest, tried, polls,
                     mounted, seen>>
      /\ pc' \in {"enter", "shell", "proof", "panic", "switched"}
      /\ pc' = "enter" => mounted # NoDisk
      /\ pc' = "proof" => cmd.proof
      /\ pc' = "shell" => cmd.proof \/ mounted # NoDisk
  BY DEF MountRoot, EnterRoot, ProofReturns, GoesTo, PathInv, machine
<1>2. TypeOK' /\ PathInv' /\ FatxInv' /\ ScanInv' /\ GivenInv'
  BY <1>1 DEF TypeOK, PathInv, FatxInv, ScanInv, GivenInv, PC, Final
<1>3. GivenDiskWins' /\ GaveUpJustified'
  BY <1>1 DEF GivenDiskWins, GaveUpJustified, HasIsoPayload
<1> QED  BY <1>2, <1>3

LEMMA LoaderInductive == LoaderInv /\ [Next]_vars => LoaderInv'
<1> SUFFICES ASSUME LoaderInv, [Next]_vars PROVE LoaderInv'
  OBVIOUS
<1>1. CASE LoaderStep
  BY <1>1, ProbeStep, WaitDiskStep, MountFatxStep, ListStep, NextCandidateStep,
     MountIsoStep, ScanFailsStep, RootStep DEF LoaderStep
<1>2. CASE ProofReturns
  BY <1>2, RootStep
<1>3. CASE \E d \in Device : Attach(d)
  BY <1>3, AttachStep
<1>4. CASE UNCHANGED vars
  BY <1>4
     DEF vars, machine, LoaderInv, TypeOK, PathInv, FatxInv, ScanInv, GivenInv,
         GaveUpJustified, GivenDiskWins, HasNode, ToCome, Reachable, HasIsoPayload
<1> QED  BY <1>1, <1>2, <1>3, <1>4 DEF Next

LEMMA LoaderInvHolds == Spec => []LoaderInv
<1> QED  BY LoaderInit, LoaderInductive, PTL DEF Spec

-----------------------------------------------------------------------------
(* The script's variables keep their types; in particular no more looks    *)
(* are taken at a disk than there are seconds to wait.                     *)
THEOREM LoaderTypeCorrect == Spec => []TypeOK
<1>1. LoaderInv => TypeOK
  BY DEF LoaderInv
<1> QED  BY <1>1, LoaderInvHolds, PTL

(* The rescue shell is the last resort: no drive with the payload that was *)
(* there when the search looked is passed over, whatever names precede it, *)
(* and a FATX disk is waited for as long as it may take.                   *)
THEOREM GivingUpIsJustified == Spec => []GaveUpJustified
<1>1. LoaderInv => GaveUpJustified
  BY DEF LoaderInv
<1> QED  BY <1>1, LoaderInvHolds, PTL

(* The drive named on the command line is used unless, on a disc, it was   *)
(* not there with the payload.                                             *)
THEOREM GivenDiskIsKept == Spec => []GivenDiskWins
<1>1. LoaderInv => GivenDiskWins
  BY DEF LoaderInv
<1> QED  BY <1>1, LoaderInvHolds, PTL
=============================================================================
