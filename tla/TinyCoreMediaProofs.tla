------------------------- MODULE TinyCoreMediaProofs -------------------------
(***************************************************************************)
(* What a reader of each medium gets, for every set of names: an archive   *)
(* unpacks to the entries it was made of, a path leads through the         *)
(* directories of the overlay to its file, and an order without one of its *)
(* names is otherwise the same.                                            *)
(***************************************************************************)
EXTENDS TinyCoreMedia, SequenceTheorems, FiniteSetTheorems, WellFoundedInduction, TLAPS

-----------------------------------------------------------------------------
(* A set of numbers has a least member; with it what a fold returns is     *)
(* found step by step.                                                     *)
LEMMA Least ==
  ASSUME NEW T \in SUBSET Nat, T # {}
  PROVE  \E m \in T : \A k \in T : m <= k
<1> DEFINE R == OpToRel(<, Nat)
<1>1. PICK m \in T : \A k \in T : <<k, m>> \notin R
  <2>1. IsWellFoundedOn(R, Nat)
    BY NatLessThanWellFounded
  <2> HIDE DEF R
  <2> QED  BY <2>1, WFMin
<1>2. \A k \in T : ~ (k < m)
  BY <1>1 DEF OpToRel
<1> QED  BY <1>2

LEMMA MaxOfTop ==
  ASSUME NEW m \in Nat, NEW d \in SUBSET (1..m), m \in d
  PROVE  Max(d) = m
<1>1. \A k \in d : m >= k
  OBVIOUS
<1>2. \A x \in d : (\A k \in d : x >= k) => x = m
  OBVIOUS
<1> QED  BY <1>1, <1>2 DEF Max

(* The operators that go over a sequence are folds, and a fold is what some *)
(* function of the sets 1..k returns: there is one for each length (by the *)
(* least length without one), and so a row v of the results, step by step. *)
LEMMA ArchiveFolds ==
  ASSUME NEW S, NEW s \in Seq(S)
  PROVE  \E v : /\ v[0] = EmptyArchive
                /\ \A k \in 1..Len(s) : v[k] = AddEntry(v[k - 1], s[k])
                /\ v[Len(s)] = FoldLeft(AddEntry, EmptyArchive, s)
<1> DEFINE Body(g, d) == IF d = {} THEN EmptyArchive ELSE AddEntry(g[d \ {Max(d)}], s[Max(d)])
           Folds(g, m) == g = [d \in SUBSET (1..m) |-> Body(g, d)]
           n == Len(s)
           T == {m \in 0..n : ~ \E g : Folds(g, m)}
<1>1. n \in Nat /\ DOMAIN s = 1..n
  OBVIOUS
<1>2. T = {}
  <2> SUFFICES ASSUME T # {} PROVE FALSE
    OBVIOUS
  <2>1. PICK m \in T : \A k \in T : m <= k
    <3>1. T \in SUBSET Nat
      BY <1>1
    <3> HIDE DEF T
    <3> QED  BY <3>1, Least
  <2>0. m \in 0..n
    <3> HIDE DEF Folds
    <3> QED  BY <2>1
  <2>2. CASE m = 0
    <3> DEFINE g == [d \in SUBSET (1..0) |-> EmptyArchive]
    <3>1. SUBSET (1..0) = {{}}
      OBVIOUS
    <3>2. Folds(g, 0)
      BY <3>1
    <3> QED  BY <2>1, <2>2, <3>2
  <2>3. CASE m # 0
    <3>1. m \in Nat \ {0} /\ m - 1 \in 0..n
      BY <1>1, <2>0, <2>3
    <3>2. PICK g : Folds(g, m - 1)
      <4> HIDE DEF Folds
      <4>1. m - 1 \notin T
        <5> HIDE DEF T
        <5> QED  BY <2>1, <3>1
      <4> QED  BY <3>1, <4>1
    <3> DEFINE h == [d \in SUBSET (1..m) |-> IF m \in d THEN Body(g, d) ELSE g[d]]
    <3>3. \A d \in SUBSET (1..m) : h[d] = Body(h, d)
      <4> SUFFICES ASSUME NEW d \in SUBSET (1..m) PROVE h[d] = Body(h, d)
        OBVIOUS
      <4>1. CASE m \in d
        <5>1. Max(d) = m /\ d \ {m} \in SUBSET (1..m) /\ m \notin d \ {m}
          BY <3>1, <4>1, MaxOfTop
        <5>2. h[d] = Body(g, d) /\ h[d \ {m}] = g[d \ {m}]
          BY <4>1, <5>1
        <5> QED  BY <5>1, <5>2
      <4>2. CASE m \notin d
        <5>1. d \in SUBSET (1..(m - 1)) /\ d \ {Max(d)} \in SUBSET (1..(m - 1))
          <6>1. \A i \in d : i \in 1..m /\ i # m
            BY <4>2
          <6>2. \A i \in 1..m : i # m => i \in 1..(m - 1)
            BY <3>1
          <6> QED  BY <6>1, <6>2
        <5>2. h[d] = g[d] /\ h[d \ {Max(d)}] = g[d \ {Max(d)}]
          BY <3>1, <4>2, <5>1
        <5>3. g[d] = Body(g, d)
          BY <3>2, <5>1
        <5> QED  BY <5>2, <5>3
      <4> QED  BY <4>1, <4>2
    <3>4. Folds(h, m)
      <4> HIDE DEF Body
      <4>1. h = [d \in SUBSET (1..m) |-> h[d]]
        OBVIOUS
      <4> HIDE DEF h
      <4> QED  BY <3>3, <4>1
    <3> QED  BY <2>1, <3>4
  <2> QED  BY <2>2, <2>3
<1> DEFINE iter == CHOOSE g : Folds(g, n)
<1>3. Folds(iter, n)
  <2> HIDE DEF Folds
  <2>1. n \in 0..n
    BY <1>1
  <2>2. \E g : Folds(g, n)
    BY <1>2, <2>1
  <2> QED  BY <2>2
<1>4. FoldLeft(AddEntry, EmptyArchive, s) = iter[1..n]
  BY <1>1 DEF FoldLeft, MapThenFoldSet
<1> HIDE DEF iter
<1> DEFINE v == [k \in 0..n |-> iter[1..k]]
<1>5. v[0] = EmptyArchive
  BY <1>1, <1>3
<1>6. \A k \in 1..n : v[k] = AddEntry(v[k - 1], s[k])
  <2> SUFFICES ASSUME NEW k \in 1..n PROVE v[k] = AddEntry(v[k - 1], s[k])
    OBVIOUS
  <2>1. 1..k \in SUBSET (1..n) /\ k \in 1..k /\ Max(1..k) = k /\ (1..k) \ {k} = 1..(k - 1)
    BY <1>1, MaxOfTop
  <2>2. v[k] = iter[1..k] /\ v[k - 1] = iter[1..(k - 1)]
    BY <1>1
  <2>3. iter[1..k] = Body(iter, 1..k)
    BY <1>3, <2>1
  <2> QED  BY <2>1, <2>2, <2>3
<1>7. v[n] = iter[1..n]
  BY <1>1
<1> QED  BY <1>4, <1>5, <1>6, <1>7

-----------------------------------------------------------------------------
(* The archive: where the headers lie, and what a reader comes to.         *)
IsEntry(e) ==
  /\ e = [name |-> e.name, nameSize |-> e.nameSize, mode |-> e.mode,
          data |-> e.data, size |-> e.size]
  /\ e.nameSize \in Nat /\ e.size \in Nat

LEMMA AlignFacts == \A n \in Nat : Align4(n) \in Nat /\ Align4(n) >= n
BY DEF Align4

LEMMA AfterFacts ==
  ASSUME NEW pos \in Nat, NEW e, IsEntry(e)
  PROVE  AfterEntry(pos, e) \in Nat /\ AfterEntry(pos, e) > pos
<1> DEFINE data == Align4(pos + HeaderSize + e.nameSize)
<1>1. data \in Nat /\ data >= pos + HeaderSize + e.nameSize
  BY AlignFacts DEF IsEntry, HeaderSize
<1> HIDE DEF data
<1>2. Align4(data + e.size) \in Nat /\ Align4(data + e.size) >= data + e.size
  BY <1>1, AlignFacts DEF IsEntry
<1> QED  BY <1>1, <1>2 DEF AfterEntry, HeaderSize, IsEntry, data

(* The headers of an archive of the entries s lie at the offsets off.      *)
Laid(a, s, off) ==
  /\ off[0] = 0 /\ a.size = off[Len(s)]
  /\ \A i \in 0..Len(s) : off[i] \in Nat
  /\ \A i \in 1..Len(s) :
       /\ off[i] = AfterEntry(off[i - 1], s[i])
       /\ off[i - 1] \in DOMAIN a.heads /\ a.heads[off[i - 1]] = s[i]
  /\ \A p \in DOMAIN a.heads : IsEntry(a.heads[p])

LEMMA ArchiveIsLaid ==
  ASSUME NEW S, NEW s \in Seq(S), \A i \in 1..Len(s) : IsEntry(s[i])
  PROVE  \E off : Laid(FoldLeft(AddEntry, EmptyArchive, s), s, off)
<1>1. PICK v : /\ v[0] = EmptyArchive
               /\ \A k \in 1..Len(s) : v[k] = AddEntry(v[k - 1], s[k])
               /\ v[Len(s)] = FoldLeft(AddEntry, EmptyArchive, s)
  BY ArchiveFolds
<1> DEFINE n == Len(s)
           off == [i \in 0..n |-> v[i].size]
           Typed(k) == /\ v[k].size \in Nat
                       /\ \A p \in DOMAIN v[k].heads : IsEntry(v[k].heads[p])
           Linked(k) ==
             \A i \in 1..k : /\ v[i - 1].size \in Nat /\ v[i].size = AfterEntry(v[i - 1].size, s[i])
                             /\ v[i - 1].size < v[k].size
                             /\ v[i - 1].size \in DOMAIN v[k].heads
                             /\ v[k].heads[v[i - 1].size] = s[i]
           T == {k \in 0..n : ~ (Typed(k) /\ Linked(k))}
<1>2. n \in Nat
  OBVIOUS
<1>3. \A k \in 1..n :
        /\ v[k].size = AfterEntry(v[k - 1].size, s[k])
        /\ DOMAIN v[k].heads = {v[k - 1].size} \cup DOMAIN v[k - 1].heads
        /\ v[k].heads[v[k - 1].size] = s[k]
        /\ \A p \in DOMAIN v[k - 1].heads :
             p # v[k - 1].size => v[k].heads[p] = v[k - 1].heads[p]
  <2> SUFFICES ASSUME NEW k \in 1..n
               PROVE  LET a == v[k - 1]
                      IN  /\ v[k].size = AfterEntry(a.size, s[k])
                          /\ DOMAIN v[k].heads = {a.size} \cup DOMAIN a.heads
                          /\ v[k].heads[a.size] = s[k]
                          /\ \A p \in DOMAIN a.heads :
                               p # a.size => v[k].heads[p] = a.heads[p]
    OBVIOUS
  <2> DEFINE a == v[k - 1]
  <2>1. v[k] = AddEntry(a, s[k])
    BY <1>1
  <2> HIDE DEF a
  <2>2. /\ v[k].size = AfterEntry(a.size, s[k])
        /\ v[k].heads = With(a.heads, a.size, s[k])
    BY <2>1 DEF AddEntry, AfterEntry
  <2> QED  BY <2>2 DEF a, With
<1>4. T = {}
  <2> SUFFICES ASSUME T # {} PROVE FALSE
    OBVIOUS
  <2> HIDE DEF Typed, Linked
  <2>1. PICK m \in T : \A k \in T : m <= k
    <3>1. T \in SUBSET Nat
      BY <1>2
    <3> HIDE DEF T
    <3> QED  BY <3>1, Least
  <2>2. m \in 0..n /\ ~ (Typed(m) /\ Linked(m))
    OBVIOUS
  <2>3. CASE m = 0
    BY <1>1, <2>2, <2>3 DEF Typed, Linked, EmptyArchive
  <2>4. CASE m # 0
    <3>1. m \in 1..n /\ m - 1 \in 0..n
      BY <1>2, <2>2, <2>4
    <3>2. Typed(m - 1) /\ Linked(m - 1)
      <4>1. m - 1 \notin T
        <5> HIDE DEF T
        <5> QED  BY <2>1, <3>1
      <4> QED  BY <3>1, <4>1
    <3>3. IsEntry(s[m])
      BY <3>1
    <3>4. v[m].size \in Nat /\ v[m].size > v[m - 1].size /\ v[m - 1].size \in Nat
      <4>1. v[m - 1].size \in Nat /\ v[m].size = AfterEntry(v[m - 1].size, s[m])
        BY <1>3, <3>1, <3>2 DEF Typed
      <4> QED  BY <3>3, <4>1, AfterFacts
    <3>5. Typed(m)
      <4>1. \A p \in DOMAIN v[m].heads : IsEntry(v[m].heads[p])
        <5> SUFFICES ASSUME NEW p \in DOMAIN v[m].heads PROVE IsEntry(v[m].heads[p])
          OBVIOUS
        <5>1. CASE p = v[m - 1].size
          BY <1>3, <3>1, <3>3, <5>1
        <5>2. CASE p # v[m - 1].size
          <6>1. p \in DOMAIN v[m - 1].heads
            BY <1>3, <3>1, <5>2
          <6> QED  BY <1>3, <3>1, <3>2, <5>2, <6>1 DEF Typed
        <5> QED  BY <5>1, <5>2
      <4> QED  BY <3>4, <4>1 DEF Typed
    <3>6. Linked(m)
      <4> SUFFICES ASSUME NEW i \in 1..m
                   PROVE  /\ v[i - 1].size \in Nat /\ v[i].size = AfterEntry(v[i - 1].size, s[i])
                          /\ v[i - 1].size < v[m].size
                          /\ v[i - 1].size \in DOMAIN v[m].heads
                          /\ v[m].heads[v[i - 1].size] = s[i]
        BY DEF Linked
      <4>1. CASE i = m
        BY <1>3, <3>1, <3>4, <4>1
      <4>2. CASE i # m
        <5>1. i \in 1..(m - 1) /\ i \in 1..n
          BY <3>1, <4>2
        <5>2. /\ v[i - 1].size \in Nat /\ v[i].size = AfterEntry(v[i - 1].size, s[i])
              /\ v[i - 1].size < v[m - 1].size
              /\ v[i - 1].size \in DOMAIN v[m - 1].heads
              /\ v[m - 1].heads[v[i - 1].size] = s[i]
          BY <3>2, <5>1 DEF Linked
        <5>3. v[i - 1].size # v[m - 1].size
          BY <3>4, <5>2
        <5>4. v[i - 1].size \in DOMAIN v[m].heads /\ v[m].heads[v[i - 1].size] = s[i]
          BY <1>3, <3>1, <5>2, <5>3
        <5> QED  BY <3>4, <5>2, <5>4
      <4> QED  BY <4>1, <4>2
    <3> QED  BY <2>2, <3>5, <3>6
  <2> QED  BY <2>3, <2>4
<1>5. \A k \in 0..n : Typed(k) /\ Linked(k)
  BY <1>4
<1> HIDE DEF T
<1>6. Laid(v[n], s, off)
  <2>1. n \in 0..n /\ 0 \in 0..n
    BY <1>2
  <2>2. off[0] = 0 /\ v[n].size = off[n]
    BY <1>1, <2>1 DEF EmptyArchive
  <2>3. \A i \in 0..n : off[i] \in Nat
    BY <1>5
  <2>4. \A i \in 1..n : off[i] = v[i].size /\ off[i - 1] = v[i - 1].size
    BY <1>2
  <2>5. Typed(n) /\ Linked(n)
    BY <1>5, <2>1
  <2> QED  BY <2>2, <2>3, <2>4, <2>5 DEF Laid
<1> QED  BY <1>1, <1>6

(* A reader walks from header to header, and every step leads further.     *)
Rest(a, f, pos) ==
  IF pos >= a.size THEN <<>>
  ELSE IF pos \notin DOMAIN a.heads THEN <<Damaged>>
  ELSE LET e == a.heads[pos]
       IN  <<e>> \o (IF e.name = Trailer THEN <<>> ELSE f[AfterEntry(pos, e)])

LEMMA WalkOfHeads ==
  ASSUME NEW a, a.size \in Nat, \A p \in DOMAIN a.heads : IsEntry(a.heads[p])
  PROVE  \E f : Entries(a) = f[0] /\ \A pos \in Nat : f[pos] = Rest(a, f, pos)
<1> DEFINE From(k) == {pos \in Nat : pos >= a.size - k}
           Walks(g, k) == g = [pos \in From(k) |-> Rest(a, g, pos)]
           T == {k \in 0..a.size : ~ \E g : Walks(g, k)}
<1>1. \A k \in Nat : \A g, h :
        (\A pos \in From(k) : g[pos] = h[pos]) =>
          \A pos \in Nat : pos + 1 \in From(k) => Rest(a, g, pos) = Rest(a, h, pos)
  <2> SUFFICES ASSUME NEW k \in Nat, NEW g, NEW h, NEW pos \in Nat, pos + 1 \in From(k),
                      \A p \in From(k) : g[p] = h[p]
               PROVE  Rest(a, g, pos) = Rest(a, h, pos)
    OBVIOUS
  <2>1. CASE pos \in DOMAIN a.heads
    <3>1. AfterEntry(pos, a.heads[pos]) \in Nat /\ AfterEntry(pos, a.heads[pos]) > pos
      BY <2>1, AfterFacts
    <3>2. AfterEntry(pos, a.heads[pos]) \in From(k)
      BY <3>1
    <3>3. g[AfterEntry(pos, a.heads[pos])] = h[AfterEntry(pos, a.heads[pos])]
      BY <3>2
    <3> QED  BY <3>3 DEF Rest
  <2>2. CASE pos \notin DOMAIN a.heads
    BY <2>2 DEF Rest
  <2> QED  BY <2>1, <2>2
<1>2. T = {}
  <2> SUFFICES ASSUME T # {} PROVE FALSE
    OBVIOUS
  <2>1. PICK m \in T : \A k \in T : m <= k
    <3>1. T \in SUBSET Nat
      OBVIOUS
    <3> HIDE DEF T
    <3> QED  BY <3>1, Least
  <2>2. m \in 0..a.size
    <3> HIDE DEF Walks
    <3> QED  BY <2>1
  <2>3. CASE m = 0
    <3> DEFINE g == [pos \in From(0) |-> <<>>]
    <3>1. \A pos \in From(0) : Rest(a, g, pos) = <<>>
      BY DEF Rest
    <3>2. Walks(g, 0)
      BY <3>1
    <3> QED  BY <2>1, <2>3, <3>2
  <2>4. CASE m # 0
    <3>1. m \in Nat \ {0} /\ m - 1 \in 0..a.size /\ m - 1 \in Nat
      BY <2>2, <2>4
    <3>2. PICK g : Walks(g, m - 1)
      <4> HIDE DEF Walks
      <4>1. m - 1 \notin T
        <5> HIDE DEF T
        <5> QED  BY <2>1, <3>1
      <4> QED  BY <3>1, <4>1
    <3> DEFINE h == [pos \in From(m) |-> Rest(a, g, pos)]
    <3>3. \A pos \in From(m - 1) : g[pos] = h[pos]
      <4>1. \A pos \in From(m - 1) : pos \in From(m)
        BY <3>1
      <4> QED  BY <3>2, <4>1
    <3> HIDE DEF h
    <3>4. \A pos \in From(m) : Rest(a, g, pos) = Rest(a, h, pos)
      <4> SUFFICES ASSUME NEW pos \in From(m) PROVE Rest(a, g, pos) = Rest(a, h, pos)
        OBVIOUS
      <4>1. pos \in Nat /\ pos + 1 \in From(m - 1)
        BY <3>1
      <4> HIDE DEF From
      <4> QED  BY <1>1, <3>1, <3>3, <4>1
    <3>5. Walks(h, m)
      BY <3>4 DEF h
    <3> QED  BY <2>1, <3>5
  <2> QED  BY <2>3, <2>4
<1> DEFINE f == CHOOSE g : g = [pos \in Nat |-> Rest(a, g, pos)]
<1>3. f = [pos \in Nat |-> Rest(a, f, pos)]
  <2>1. \E g : Walks(g, a.size)
    <3> HIDE DEF Walks
    <3>1. a.size \in 0..a.size
      OBVIOUS
    <3> QED  BY <1>2, <3>1
  <2>2. From(a.size) = Nat
    OBVIOUS
  <2>3. \E g : g = [pos \in Nat |-> Rest(a, g, pos)]
    BY <2>1, <2>2
  <2> QED  BY <2>3
<1>4. Entries(a) = f[0]
  BY DEF Entries, Rest
<1> HIDE DEF f
<1>5. \A pos \in Nat : f[pos] = Rest(a, f, pos)
  BY <1>3
<1> QED  BY <1>4, <1>5

(* It reads what was laid, to the trailer.                                 *)
LEMMA LaidIsRead ==
  ASSUME NEW S, NEW s \in Seq(S), NEW a, NEW off, Laid(a, s, off), s # <<>>,
         \A i \in 1..Len(s) : IsEntry(s[i]),
         \A i \in 1..Len(s) : s[i].name = Trailer <=> i = Len(s)
  PROVE  Entries(a) = s
<1> DEFINE n == Len(s)
<1>1. /\ n \in Nat \ {0} /\ off[0] = 0 /\ a.size = off[n] /\ a.size \in Nat
      /\ \A i \in 0..n : off[i] \in Nat
      /\ \A i \in 1..n :
           /\ off[i] = AfterEntry(off[i - 1], s[i]) /\ off[i] > off[i - 1]
           /\ off[i - 1] \in DOMAIN a.heads /\ a.heads[off[i - 1]] = s[i]
      /\ \A p \in DOMAIN a.heads : IsEntry(a.heads[p])
  <2>1. n \in Nat \ {0} /\ \A i \in 1..n : i - 1 \in 0..n
    OBVIOUS
  <2>2. /\ off[0] = 0 /\ a.size = off[n]
        /\ \A i \in 0..n : off[i] \in Nat
        /\ \A p \in DOMAIN a.heads : IsEntry(a.heads[p])
    BY DEF Laid
  <2>3. \A i \in 1..n : /\ off[i] = AfterEntry(off[i - 1], s[i])
                        /\ off[i - 1] \in DOMAIN a.heads /\ a.heads[off[i - 1]] = s[i]
    BY DEF Laid
  <2>4. \A i \in 1..n : off[i] > off[i - 1]
    <3> SUFFICES ASSUME NEW i \in 1..n PROVE off[i] > off[i - 1]
      OBVIOUS
    <3>1. off[i - 1] \in Nat /\ IsEntry(s[i]) /\ off[i] = AfterEntry(off[i - 1], s[i])
      BY <2>1, <2>2, <2>3
    <3> QED  BY <3>1, AfterFacts
  <2>5. n \in 0..n
    BY <2>1
  <2> HIDE DEF n
  <2> QED  BY <2>1, <2>2, <2>3, <2>4, <2>5
<1> HIDE DEF n
<1>2. PICK f : Entries(a) = f[0] /\ \A pos \in Nat : f[pos] = Rest(a, f, pos)
  BY <1>1, WalkOfHeads
<1> DEFINE Good(i) == off[i - 1] < a.size /\ f[off[i - 1]] = SubSeq(s, i, n)
           T == {k \in 0..(n - 1) : ~ Good(n - k)}
<1>3. T = {}
  <2> SUFFICES ASSUME T # {} PROVE FALSE
    OBVIOUS
  <2>1. PICK m \in T : \A k \in T : m <= k
    <3>1. T \in SUBSET Nat
      BY <1>1
    <3> HIDE DEF T
    <3> QED  BY <3>1, Least
  <2>2. m \in 0..(n - 1) /\ ~ Good(n - m)
    <3> HIDE DEF Good
    <3> QED  BY <2>1
  <2> DEFINE i == n - m
  <2>3. i \in 1..n /\ i - 1 \in 0..n /\ i \in 0..n /\ ~ Good(i)
    <3> HIDE DEF Good
    <3> QED  BY <1>1, <2>2
  <2> HIDE DEF i, T
  <2>4. /\ off[i] = AfterEntry(off[i - 1], s[i]) /\ off[i] > off[i - 1]
        /\ off[i - 1] \in DOMAIN a.heads /\ a.heads[off[i - 1]] = s[i]
        /\ off[i - 1] \in Nat /\ off[i] \in Nat
    BY <1>1, <2>3
  <2>5. f[off[i - 1]] = Rest(a, f, off[i - 1])
    BY <1>2, <2>4
  <2>6. SubSeq(s, i, n) = <<s[i]>> \o SubSeq(s, i + 1, n)
    <3>1. i \in 1..Len(s) /\ Len(s) \in i..Len(s)
      BY <1>1, <2>3 DEF n
    <3> QED  BY <3>1, SubSeqRecursiveFirst DEF n
  <2>7. CASE i = n
    <3>1. s[i].name = Trailer /\ off[i - 1] < a.size
      BY <1>1, <2>3, <2>4, <2>7 DEF n
    <3>2. f[off[i - 1]] = <<s[i]>> \o <<>>
      BY <2>4, <2>5, <3>1, <1>1 DEF Rest
    <3>3. SubSeq(s, i + 1, n) = <<>>
      BY <1>1, <2>7, SubSeqEmpty
    <3> QED  BY <2>3, <2>6, <3>1, <3>2, <3>3
  <2>8. CASE i # n
    <3>1. s[i].name # Trailer
      BY <2>3, <2>8 DEF n
    <3>2. Good(i + 1)
      <4>1. m - 1 \in 0..(n - 1) /\ n - (m - 1) = i + 1
        BY <1>1, <2>2, <2>8 DEF i
      <4>2. m - 1 \notin T
        BY <2>1, <2>2, <4>1
      <4> HIDE DEF Good
      <4> QED  BY <4>1, <4>2 DEF T
    <3>3. off[i] < a.size /\ f[off[i]] = SubSeq(s, i + 1, n)
      <4>1. (i + 1) - 1 = i
        BY <1>1, <2>3
      <4> QED  BY <3>2, <4>1
    <3>4. off[i - 1] < a.size /\ ~ (off[i - 1] >= a.size)
      BY <1>1, <2>4, <3>3
    <3>5. f[off[i - 1]] = <<s[i]>> \o f[off[i]]
      BY <2>4, <2>5, <3>1, <3>4 DEF Rest
    <3> QED  BY <2>3, <2>6, <3>3, <3>4, <3>5
  <2> QED  BY <2>7, <2>8
<1>4. Good(1)
  <2>1. n - 1 \in 0..(n - 1) /\ n - (n - 1) = 1
    BY <1>1
  <2> HIDE DEF Good
  <2> QED  BY <1>3, <2>1
<1>5. SubSeq(s, 1, n) = s
  BY SubSeqFull DEF n
<1> QED  BY <1>1, <1>2, <1>4, <1>5

TrailerEntry == Entry(Trailer, 11, 0, 0)

(* Entries an archive can be made of: none is called as its end is.        *)
AreEntries(es) ==
  /\ es \in Seq(ToSet(es))
  /\ \A i \in DOMAIN es : IsEntry(es[i]) /\ es[i].name # Trailer

LEMMA TrailerFacts == IsEntry(TrailerEntry) /\ TrailerEntry.name = Trailer
BY DEF IsEntry, TrailerEntry, Entry

LEMMA EndedFacts ==
  ASSUME NEW es, AreEntries(es)
  PROVE  LET s == Append(es, TrailerEntry)
             n == Len(es)
         IN  /\ n \in Nat /\ DOMAIN es = 1..n
             /\ s \in Seq(ToSet(es) \cup {TrailerEntry}) /\ s # <<>>
             /\ Len(s) = n + 1 /\ DOMAIN s = 1..(n + 1)
             /\ \A i \in 1..n : s[i] = es[i]
             /\ s[n + 1] = TrailerEntry
             /\ \A i \in 1..(n + 1) : IsEntry(s[i])
             /\ \A i \in 1..(n + 1) : s[i].name = Trailer <=> i = n + 1
<1> DEFINE s == Append(es, TrailerEntry)
           n == Len(es)
<1>1. es \in Seq(ToSet(es) \cup {TrailerEntry})
  BY SeqMonotonic DEF AreEntries
<1>2. /\ n \in Nat /\ DOMAIN es = 1..n
      /\ s \in Seq(ToSet(es) \cup {TrailerEntry})
      /\ Len(s) = n + 1 /\ DOMAIN s = 1..(n + 1)
      /\ \A i \in 1..n : s[i] = es[i]
      /\ s[n + 1] = TrailerEntry
  <2> DEFINE S == ToSet(es) \cup {TrailerEntry}
  <2>1. es \in Seq(S) /\ TrailerEntry \in S
    BY <1>1
  <2> HIDE DEF S
  <2>2. s \in Seq(S)
    BY <2>1
  <2> QED  BY <2>1, <2>2 DEF S
<1>3. s # <<>>
  BY <1>2
<1>4. \A i \in 1..(n + 1) : i = n + 1 \/ i \in 1..n
  BY <1>2
<1> QED  BY <1>2, <1>3, <1>4, TrailerFacts DEF AreEntries

(* What the builder packs, of whatever names and sizes, a reader unpacks: it *)
(* comes to each header where it expects one, and to the trailer last.     *)
THEOREM ArchiveIsRead ==
  ASSUME NEW es, AreEntries(es)
  PROVE  Entries(Archive(es)) = Append(es, TrailerEntry)
<1> DEFINE s == Append(es, TrailerEntry)
           S == ToSet(es) \cup {TrailerEntry}
<1>1. /\ s \in Seq(S) /\ s # <<>>
      /\ \A i \in 1..Len(s) : IsEntry(s[i])
      /\ \A i \in 1..Len(s) : s[i].name = Trailer <=> i = Len(s)
  <2> DEFINE n == Len(es)
  <2>1. /\ s \in Seq(S) /\ s # <<>> /\ Len(s) = n + 1
        /\ \A i \in 1..(n + 1) : IsEntry(s[i])
        /\ \A i \in 1..(n + 1) : s[i].name = Trailer <=> i = n + 1
    BY EndedFacts
  <2> HIDE DEF s, S, n
  <2> QED  BY <2>1
<1>2. Archive(es) = FoldLeft(AddEntry, EmptyArchive, s)
  BY DEF Archive, TrailerEntry
<1> HIDE DEF s, S
<1>3. PICK off : Laid(FoldLeft(AddEntry, EmptyArchive, s), s, off)
  BY <1>1, ArchiveIsLaid
<1>4. Entries(FoldLeft(AddEntry, EmptyArchive, s)) = s
  BY <1>1, <1>3, LaidIsRead
<1> QED  BY <1>2, <1>4 DEF s

(* A name that one entry only has unpacks to its data.                     *)
LEMMA ArchiveUnpacks ==
  ASSUME NEW es, AreEntries(es), NEW k \in DOMAIN es, NEW none,
         \A i \in DOMAIN es : es[i].name = es[k].name => i = k
  PROVE  Unpacked(Archive(es), es[k].name, none) = es[k].data
<1> DEFINE s == Append(es, TrailerEntry)
           found == {i \in DOMAIN s : s[i].name = es[k].name}
<1>1. found = {k}
  <2>1. k \in 1..Len(es) /\ Len(es) \in Nat /\ es[k].name # Trailer
    BY EndedFacts DEF AreEntries
  <2> QED  BY <2>1, EndedFacts, TrailerFacts
<1>2. Max({k}) = k
  <2>1. k \in Nat
    BY EndedFacts
  <2> QED  BY <2>1 DEF Max
<1>3. Entries(Archive(es)) = s
  BY ArchiveIsRead
<1>4. s[k] = es[k]
  BY EndedFacts
<1> HIDE DEF s
<1>5. Unpacked(Archive(es), es[k].name, none) = s[Max(found)].data
  BY <1>1, <1>3 DEF Unpacked
<1> QED  BY <1>1, <1>2, <1>4, <1>5

(* An entry given new data keeps its name.                                 *)
LEMMA RenewedFacts ==
  ASSUME NEW e, IsEntry(e), NEW target, NEW data, NEW size \in Nat
  PROVE  LET new == Renewed(e, target, data, size)
         IN  /\ IsEntry(new) /\ new.name = e.name
             /\ e.name = target => new.data = data
             /\ e.name # target => new = e
<1>1. CASE e.name # target
  BY <1>1 DEF Renewed
<1>2. CASE e.name = target
  <2>1. Renewed(e, target, data, size) =
          [name |-> e.name, nameSize |-> e.nameSize, mode |-> "0755",
           data |-> data, size |-> size]
    BY <1>2 DEF Renewed, IsEntry
  <2> QED  BY <1>2, <2>1 DEF IsEntry
<1> QED  BY <1>1, <1>2

(* The archive edited is the archive of the entries edited: a file of another *)
(* size moves all that follows, and every header is still where it is expected. *)
THEOREM ReplacedIsArchive ==
  ASSUME NEW es, AreEntries(es), NEW target, target # Trailer, NEW data, NEW size \in Nat
  PROVE  LET new == [i \in DOMAIN es |-> Renewed(es[i], target, data, size)]
         IN  AreEntries(new) /\ Replaced(Archive(es), target, data, size) = Archive(new)
<1> DEFINE all == Append(es, TrailerEntry)
           put(e) == Renewed(e, target, data, size)
           new == [i \in DOMAIN es |-> put(es[i])]
           n == Len(es)
<1>1. n \in Nat /\ DOMAIN es = 1..n
  BY EndedFacts
<1>2. AreEntries(new)
  <2>1. \A i \in DOMAIN es : IsEntry(put(es[i])) /\ put(es[i]).name # Trailer
    <3> SUFFICES ASSUME NEW i \in DOMAIN es
                 PROVE  IsEntry(put(es[i])) /\ put(es[i]).name # Trailer
      OBVIOUS
    <3>1. IsEntry(es[i]) /\ es[i].name # Trailer
      BY DEF AreEntries
    <3> QED  BY <3>1, RenewedFacts
  <2>2. new \in [1..n -> ToSet(new)]
    BY <1>1 DEF ToSet
  <2>3. new \in Seq(ToSet(new))
    BY <1>1, <2>2, SeqDef
  <2> QED  BY <2>1, <2>3 DEF AreEntries
<1>3. put(TrailerEntry) = TrailerEntry
  BY TrailerFacts DEF Renewed
<1>4. [i \in DOMAIN all |-> put(all[i])] = Append(new, TrailerEntry)
  <2> DEFINE l == [i \in DOMAIN all |-> put(all[i])]
             r == Append(new, TrailerEntry)
  <2>1. DOMAIN all = 1..(n + 1) /\ (\A i \in 1..n : all[i] = es[i]) /\ all[n + 1] = TrailerEntry
    BY EndedFacts
  <2>2. Len(new) = n /\ DOMAIN new = 1..n
    BY <1>1
  <2>3. DOMAIN r = 1..(n + 1) /\ (\A i \in 1..n : r[i] = new[i]) /\ r[n + 1] = TrailerEntry
        /\ r \in Seq(ToSet(new) \cup {TrailerEntry})
    <3> HIDE DEF new
    <3> QED  BY <1>2, <2>2, EndedFacts
  <2>4. \A i \in 1..(n + 1) : l[i] = r[i]
    <3> HIDE DEF all, r, put
    <3>1. \A i \in 1..(n + 1) : i = n + 1 \/ i \in 1..n
      BY <1>1
    <3> QED  BY <1>1, <1>3, <2>1, <2>3, <3>1
  <2>5. l = [i \in 1..(n + 1) |-> l[i]] /\ r = [i \in 1..(n + 1) |-> r[i]]
    <3>1. l = [i \in 1..(n + 1) |-> l[i]]
      <4> HIDE DEF put, all
      <4> QED  BY <2>1
    <3> HIDE DEF r
    <3>2. r = [i \in 1..(n + 1) |-> r[i]]
      BY <2>3
    <3> QED  BY <3>1, <3>2
  <2> HIDE DEF l, r
  <2>6. l = r
    BY <2>4, <2>5
  <2> QED  BY <2>6 DEF l, r
<1>5. Entries(Archive(es)) = all
  BY ArchiveIsRead
<1>6. Replaced(Archive(es), target, data, size)
        = FoldLeft(AddEntry, EmptyArchive, [i \in DOMAIN all |-> put(all[i])])
  BY <1>5 DEF Replaced
<1>7. Archive(new) = FoldLeft(AddEntry, EmptyArchive, Append(new, TrailerEntry))
  BY DEF Archive, TrailerEntry
<1> HIDE DEF new, all, put
<1>8. Replaced(Archive(es), target, data, size) = Archive(new)
  BY <1>4, <1>6, <1>7
<1> QED  BY <1>2, <1>8 DEF new, put

-----------------------------------------------------------------------------
(* The order of the paths.  They are compared at the first place where     *)
(* they differ, or where the first of them ends.                           *)
Paths == Seq(ToSet(NameOrder))
Before(p, q) ==
  \E i \in 1..Len(q) :
    /\ \A j \in 1..(i - 1) : j <= Len(p) /\ p[j] = q[j]
    /\ \/ i = Len(p) + 1
       \/ i <= Len(p) /\ Place(p[i]) < Place(q[i])

LEMMA PlaceFacts ==
  /\ \A n \in ToSet(NameOrder) : Place(n) \in Nat
  /\ \A m, n \in ToSet(NameOrder) : Place(m) = Place(n) => m = n
<1> DEFINE S == ToSet(NameOrder)
<1>1. \A n \in S : Place(n) \in DOMAIN NameOrder /\ NameOrder[Place(n)] = n
  BY DEF ToSet, Place
<1>2. DOMAIN NameOrder \subseteq Nat
  <2>1. NameOrder \in Seq(S)
    BY OverlayAssumption
  <2> HIDE DEF S
  <2> QED  BY <2>1
<1> QED  BY <1>1, <1>2

LEMMA PathFacts ==
  ASSUME NEW p \in Paths
  PROVE  /\ Len(p) \in Nat /\ DOMAIN p = 1..Len(p)
         /\ \A i \in 1..Len(p) : p[i] \in ToSet(NameOrder) /\ Place(p[i]) \in Nat
<1> DEFINE S == ToSet(NameOrder)
<1>1. Len(p) \in Nat /\ DOMAIN p = 1..Len(p) /\ \A i \in 1..Len(p) : p[i] \in S
  <2> HIDE DEF S
  <2>1. p \in Seq(S)
    BY DEF Paths, S
  <2> QED  BY <2>1
<1> QED  BY <1>1, PlaceFacts

LEMMA HeadsAgree ==
  ASSUME NEW S, NEW p \in Seq(S), NEW q \in Seq(S), NEW n \in Nat, n <= Len(p), n <= Len(q)
  PROVE  SubSeq(p, 1, n) = SubSeq(q, 1, n) <=> \A j \in 1..n : p[j] = q[j]
<1>1. SubSeq(p, 1, n) = [j \in 1..n |-> p[j]] /\ SubSeq(q, 1, n) = [j \in 1..n |-> q[j]]
  OBVIOUS
<1>2. ASSUME \A j \in 1..n : p[j] = q[j]
      PROVE  SubSeq(p, 1, n) = SubSeq(q, 1, n)
  BY <1>1, <1>2
<1>3. ASSUME SubSeq(p, 1, n) = SubSeq(q, 1, n), NEW j \in 1..n
      PROVE  p[j] = q[j]
  <2>1. [k \in 1..n |-> p[k]][j] = [k \in 1..n |-> q[k]][j]
    BY <1>1, <1>3
  <2> QED  BY <2>1
<1> QED  BY <1>2, <1>3

LEMMA PathLessIsBefore ==
  ASSUME NEW p \in Paths, NEW q \in Paths
  PROVE  PathLess(p, q) <=> Before(p, q)
<1> DEFINE m == Len(p)
           n == Len(q)
           same(k) == \A j \in 1..k : p[j] = q[j]
<1>1. /\ m \in Nat /\ n \in Nat /\ DOMAIN p = 1..m /\ DOMAIN q = 1..n
      /\ p \in Seq(ToSet(NameOrder)) /\ q \in Seq(ToSet(NameOrder))
  BY PathFacts DEF Paths
<1>2. IsStrictPrefix(p, q) <=> m < n /\ same(m)
  <2>1. IsPrefix(p, q) <=> m <= n /\ same(m)
    BY <1>1, HeadsAgree DEF IsPrefix
  <2>2. m = n /\ same(m) => p = q
    <3> SUFFICES ASSUME m = n, same(m) PROVE p = q
      OBVIOUS
    <3> QED  BY <1>1, SeqDef
  <2>3. m < n => p # q
    BY <1>1
  <2> HIDE DEF m, n, same
  <2> QED  BY <1>1, <2>1, <2>2, <2>3 DEF IsStrictPrefix
<1>3. ASSUME NEW i \in DOMAIN p \cap DOMAIN q
      PROVE  SubSeq(p, 1, i - 1) = SubSeq(q, 1, i - 1) <=> same(i - 1)
  <2>1. i - 1 \in Nat /\ i - 1 <= Len(p) /\ i - 1 <= Len(q)
    BY <1>1
  <2> QED  BY <1>1, <2>1, HeadsAgree
<1>4. PathLess(p, q) <=> \/ m < n /\ same(m)
                         \/ \E i \in 1..m : i <= n /\ same(i - 1) /\ Place(p[i]) < Place(q[i])
  <2>1. \A i : i \in DOMAIN p \cap DOMAIN q <=> i \in 1..m /\ i <= n
    BY <1>1
  <2> HIDE DEF m, n, same
  <2> QED  BY <1>2, <1>3, <2>1 DEF PathLess
<1>5. Before(p, q) <=> \/ m < n /\ same(m)
                       \/ \E i \in 1..m : i <= n /\ same(i - 1) /\ Place(p[i]) < Place(q[i])
  <2>1. ASSUME m < n, same(m) PROVE Before(p, q)
    <3>1. m + 1 \in 1..n /\ \A j \in 1..(m + 1 - 1) : j <= m /\ p[j] = q[j]
      BY <1>1, <2>1
    <3> QED  BY <3>1 DEF Before
  <2>2. ASSUME NEW i \in 1..m, i <= n, same(i - 1), Place(p[i]) < Place(q[i])
        PROVE  Before(p, q)
    <3>1. i \in 1..n /\ \A j \in 1..(i - 1) : j <= m /\ p[j] = q[j]
      BY <1>1, <2>2
    <3> QED  BY <2>2, <3>1 DEF Before
  <2>3. ASSUME Before(p, q)
        PROVE  \/ m < n /\ same(m)
               \/ \E i \in 1..m : i <= n /\ same(i - 1) /\ Place(p[i]) < Place(q[i])
    <3>1. PICK i \in 1..n : /\ \A j \in 1..(i - 1) : j <= m /\ p[j] = q[j]
                            /\ i = m + 1 \/ (i <= m /\ Place(p[i]) < Place(q[i]))
      BY <2>3 DEF Before
    <3>2. CASE i = m + 1
      BY <1>1, <3>1, <3>2
    <3>3. CASE i <= m /\ Place(p[i]) < Place(q[i])
      BY <1>1, <3>1, <3>3
    <3> QED  BY <3>1, <3>2, <3>3
  <2> QED  BY <2>1, <2>2, <2>3
<1> QED  BY <1>4, <1>5

LEMMA PathOrder ==
  /\ \A p \in Paths : ~ PathLess(p, p)
  /\ \A p, q \in Paths : PathLess(p, q) \/ PathLess(q, p) \/ p = q
  /\ \A p, q, r \in Paths : PathLess(p, q) /\ PathLess(q, r) => PathLess(p, r)
<1>1. ASSUME NEW p \in Paths, Before(p, p) PROVE FALSE
  BY <1>1, PathFacts DEF Before
<1>2. ASSUME NEW p \in Paths, NEW q \in Paths, p # q
      PROVE  Before(p, q) \/ Before(q, p)
  <2> DEFINE m == Len(p)
             n == Len(q)
             T == {i \in 1..(m + n + 1) : i > m \/ i > n \/ p[i] # q[i]}
  <2>1. /\ m \in Nat /\ n \in Nat /\ DOMAIN p = 1..m /\ DOMAIN q = 1..n
    BY PathFacts
  <2>2. PICK i \in T : \A k \in T : i <= k
    <3>1. T \in SUBSET Nat /\ m + n + 1 \in T
      BY <2>1
    <3> HIDE DEF T
    <3> QED  BY <3>1, Least
  <2>3. i \in Nat \ {0} /\ \A j \in 1..(i - 1) : j <= m /\ j <= n /\ p[j] = q[j]
    BY <2>1, <2>2
  <2>4. CASE i > m /\ i > n
    <3>1. i - 1 <= m /\ i - 1 <= n
      BY <2>1, <2>3
    <3>2. m = n /\ \A j \in 1..m : p[j] = q[j]
      <4>1. i - 1 = m /\ i - 1 = n
        BY <2>1, <2>3, <2>4, <3>1
      <4> QED  BY <2>3, <4>1
    <3>3. p = q
      BY <2>1, <3>2, SeqDef DEF Paths
    <3> QED  BY <1>2, <3>3
  <2>5. CASE i > m /\ i <= n
    <3>1. i = m + 1 /\ i \in 1..n
      <4>1. i - 1 <= m
        BY <2>1, <2>3
      <4> QED  BY <2>1, <2>3, <2>5, <4>1
    <3> QED  BY <2>3, <3>1 DEF Before
  <2>6. CASE i <= m /\ i > n
    <3>1. i = n + 1 /\ i \in 1..m
      <4>1. i - 1 <= n
        BY <2>1, <2>3
      <4> QED  BY <2>1, <2>3, <2>6, <4>1
    <3> QED  BY <2>3, <3>1 DEF Before
  <2>7. CASE i <= m /\ i <= n
    <3>1. i \in 1..m /\ i \in 1..n /\ p[i] # q[i]
      BY <2>1, <2>2, <2>3, <2>7
    <3>2. Place(p[i]) < Place(q[i]) \/ Place(q[i]) < Place(p[i])
      <4>1. /\ p[i] \in ToSet(NameOrder) /\ q[i] \in ToSet(NameOrder)
            /\ Place(p[i]) \in Nat /\ Place(q[i]) \in Nat
        BY <3>1, PathFacts
      <4> QED  BY <3>1, <4>1, PlaceFacts
    <3> QED  BY <2>3, <2>7, <3>1, <3>2 DEF Before
  <2> QED  BY <2>1, <2>3, <2>4, <2>5, <2>6, <2>7
<1>3. ASSUME NEW p \in Paths, NEW q \in Paths, NEW r \in Paths, Before(p, q), Before(q, r)
      PROVE  Before(p, r)
  <2>1. PICK i \in 1..Len(q) :
               /\ \A j \in 1..(i - 1) : j <= Len(p) /\ p[j] = q[j]
               /\ i = Len(p) + 1 \/ (i <= Len(p) /\ Place(p[i]) < Place(q[i]))
    BY <1>3 DEF Before
  <2>2. PICK k \in 1..Len(r) :
               /\ \A j \in 1..(k - 1) : j <= Len(q) /\ q[j] = r[j]
               /\ k = Len(q) + 1 \/ (k <= Len(q) /\ Place(q[k]) < Place(r[k]))
    BY <1>3 DEF Before
  <2>3. /\ Len(p) \in Nat /\ Len(q) \in Nat /\ Len(r) \in Nat /\ i \in Nat /\ k \in Nat
        /\ \A j \in 1..Len(p) : Place(p[j]) \in Nat
        /\ \A j \in 1..Len(q) : Place(q[j]) \in Nat
        /\ \A j \in 1..Len(r) : Place(r[j]) \in Nat
    BY PathFacts
  <2>4. CASE i < k
    <3>1. i \in 1..Len(r) /\ q[i] = r[i] /\ \A j \in 1..(i - 1) : q[j] = r[j]
      BY <2>2, <2>3, <2>4
    <3> QED  BY <2>1, <3>1 DEF Before
  <2>5. CASE i = k
    <3>1. i \in 1..Len(r) /\ Place(q[i]) < Place(r[i]) /\ \A j \in 1..(i - 1) : q[j] = r[j]
      BY <2>1, <2>2, <2>3, <2>5
    <3>2. i = Len(p) + 1 \/ (i <= Len(p) /\ Place(p[i]) < Place(r[i]))
      BY <2>1, <2>3, <3>1
    <3> QED  BY <2>1, <3>1, <3>2 DEF Before
  <2>6. CASE k < i
    <3>1. /\ k <= Len(p) /\ p[k] = q[k] /\ k <= Len(q)
          /\ \A j \in 1..(k - 1) : p[j] = q[j] /\ j <= Len(p)
      BY <2>1, <2>2, <2>3, <2>6
    <3>2. Place(p[k]) < Place(r[k]) /\ \A j \in 1..(k - 1) : p[j] = r[j] /\ j <= Len(p)
      BY <2>2, <2>3, <3>1
    <3> QED  BY <2>2, <3>1, <3>2 DEF Before
  <2> QED  BY <2>3, <2>4, <2>5, <2>6
<1> QED  BY <1>1, <1>2, <1>3, PathLessIsBefore

(* A place among the directories: one each, the root's the first.          *)
LEMMA IndexFacts ==
  ASSUME NEW dirs \in SUBSET Paths, IsFiniteSet(dirs)
  PROVE  /\ \A d \in dirs : Index(dirs, d) \in 1..Cardinality(dirs)
         /\ \A c, d \in dirs : Index(dirs, c) = Index(dirs, d) => c = d
<1> DEFINE before(d) == {c \in dirs : PathLess(c, d)}
<1>1. ASSUME NEW d \in dirs
      PROVE  IsFiniteSet(before(d)) /\ Cardinality(before(d)) \in 0..(Cardinality(dirs) - 1)
  <2>1. before(d) \in SUBSET dirs /\ d \notin before(d)
    BY PathOrder
  <2>2. /\ IsFiniteSet(before(d)) /\ Cardinality(before(d)) <= Cardinality(dirs)
        /\ Cardinality(before(d)) # Cardinality(dirs)
    <3> HIDE DEF before
    <3> QED  BY <2>1, FS_Subset
  <2>3. Cardinality(before(d)) \in Nat /\ Cardinality(dirs) \in Nat
    BY <2>2, FS_CardinalityType
  <2> HIDE DEF before
  <2> QED  BY <2>2, <2>3
<1>2. ASSUME NEW c \in dirs, NEW d \in dirs, PathLess(c, d)
      PROVE  Cardinality(before(c)) # Cardinality(before(d))
  <2>1. before(c) \in SUBSET before(d) /\ c \in before(d) /\ c \notin before(c)
    BY <1>2, PathOrder
  <2>2. IsFiniteSet(before(d))
    BY <1>1
  <2> HIDE DEF before
  <2> QED  BY <2>1, <2>2, FS_Subset
<1>3. \A d \in dirs : Index(dirs, d) = Cardinality(before(d)) + 1
  BY DEF Index
<1>4. Cardinality(dirs) \in Nat
  BY FS_CardinalityType
<1>5. \A c, d \in dirs : PathLess(c, d) \/ PathLess(d, c) \/ c = d
  BY PathOrder
<1> HIDE DEF before
<1>6. ASSUME NEW d \in dirs PROVE Index(dirs, d) \in 1..Cardinality(dirs)
  BY <1>1, <1>3, <1>4
<1>7. ASSUME NEW c \in dirs, NEW d \in dirs, Index(dirs, c) = Index(dirs, d) PROVE c = d
  <2>1. Cardinality(before(c)) = Cardinality(before(d))
    BY <1>1, <1>3, <1>4, <1>7
  <2> QED  BY <1>2, <1>5, <2>1
<1> QED  BY <1>6, <1>7

LEMMA RootIsFirst ==
  ASSUME NEW dirs \in SUBSET Paths, <<>> \in dirs
  PROVE  Index(dirs, <<>>) = 1
<1>1. ASSUME NEW c \in dirs PROVE ~ PathLess(c, <<>>)
  <2>1. c \in Paths /\ <<>> \in Paths /\ ~ Before(c, <<>>)
    BY DEF Before
  <2> QED  BY <2>1, PathLessIsBefore
<1>2. {c \in dirs : PathLess(c, <<>>)} = {}
  BY <1>1
<1>3. Cardinality({}) = 0
  BY FS_EmptySet
<1>4. Index(dirs, <<>>) = Cardinality({}) + 1
  BY <1>2 DEF Index
<1> QED  BY <1>3, <1>4

LEMMA SectorFacts ==
  /\ DirSector(1) = 18
  /\ \A i \in Nat \ {0, 1} : DirSector(i) = 19 + i
  /\ \A i, j \in Nat \ {0} : DirSector(i) = DirSector(j) => i = j
<1>1. DirSector(1) = 18 /\ \A i \in Nat \ {0, 1} : DirSector(i) = 19 + i
  BY OverlayAssumption DEF DirSector
<1> QED  BY <1>1

LEMMA SectorOfFacts ==
  ASSUME NEW dirs \in SUBSET Paths, IsFiniteSet(dirs), <<>> \in dirs
  PROVE  /\ SectorOf(dirs, <<>>) = 18
         /\ \A d \in dirs : SectorOf(dirs, d) \in {18} \cup 21..(19 + Cardinality(dirs))
         /\ \A c, d \in dirs : SectorOf(dirs, c) = SectorOf(dirs, d) => c = d
<1>1. Cardinality(dirs) \in Nat
  BY FS_CardinalityType
<1>2. \A d \in dirs : Index(dirs, d) \in 1..Cardinality(dirs)
  BY IndexFacts
<1>3. ASSUME NEW d \in dirs
      PROVE  SectorOf(dirs, d) \in {18} \cup 21..(19 + Cardinality(dirs))
  <2>1. CASE Index(dirs, d) = 1
    BY <2>1, SectorFacts DEF SectorOf
  <2>2. CASE Index(dirs, d) # 1
    <3>1. Index(dirs, d) \in Nat \ {0, 1} /\ Index(dirs, d) <= Cardinality(dirs)
      BY <1>1, <1>2, <2>2
    <3>2. SectorOf(dirs, d) = 19 + Index(dirs, d)
      BY <3>1, SectorFacts DEF SectorOf
    <3> QED  BY <1>1, <3>1, <3>2
  <2> QED  BY <2>1, <2>2
<1>4. ASSUME NEW c \in dirs, NEW d \in dirs, SectorOf(dirs, c) = SectorOf(dirs, d)
      PROVE  c = d
  <2>1. Index(dirs, c) \in Nat \ {0} /\ Index(dirs, d) \in Nat \ {0}
    BY <1>1, <1>2
  <2>2. Index(dirs, c) = Index(dirs, d)
    BY <1>4, <2>1, SectorFacts DEF SectorOf
  <2> QED  BY <2>2, IndexFacts
<1>5. SectorOf(dirs, <<>>) = 18
  BY RootIsFirst, SectorFacts DEF SectorOf
<1> QED  BY <1>3, <1>4, <1>5

-----------------------------------------------------------------------------
(* What an overlay is made of: files with paths of names, none of them a   *)
(* directory, in sectors that are not taken by those of eleven directories *)
(* below the root.                                                         *)
Layable(extents) ==
  /\ DOMAIN extents \subseteq Paths \ {<<>>} /\ DOMAIN extents # {}
  /\ DOMAIN extents \cap Directories(extents) = {}
  /\ IsFiniteSet(Directories(extents)) /\ Cardinality(Directories(extents)) <= 12
  /\ \A p \in DOMAIN extents : Occupied(extents[p]) \cap ({18} \cup 21..31) = {}

LEMMA FrontOfPath ==
  ASSUME NEW p \in Paths, p # <<>>
  PROVE  /\ Front(p) \in Paths /\ Len(Front(p)) = Len(p) - 1
         /\ Last(p) \in ToSet(NameOrder) /\ p = Append(Front(p), Last(p))
<1> DEFINE S == ToSet(NameOrder)
<1> HIDE DEF S
<1>1. p \in Seq(S) /\ Len(p) \in Nat \ {0}
  BY DEF Paths, S
<1>2. /\ Front(p) \in Seq(S) /\ Len(Front(p)) = Len(p) - 1
      /\ Last(p) \in S /\ p = Append(Front(p), Last(p))
  <2>1. Front(p) \in Seq(S) /\ Len(Front(p)) = Len(p) - 1 /\ Last(p) \in S
    BY <1>1 DEF Front, Last
  <2>2. \A j \in 1..(Len(p) - 1) : Front(p)[j] = p[j]
    BY <1>1 DEF Front
  <2> DEFINE q == Append(Front(p), Last(p))
  <2>3. q \in Seq(S) /\ Len(q) = Len(p) /\ \A j \in 1..Len(p) : q[j] = p[j]
    BY <1>1, <2>1, <2>2 DEF Last
  <2>4. q = p
    <3> HIDE DEF q
    <3> QED  BY <1>1, <2>3, SeqDef
  <2> QED  BY <2>1, <2>4
<1> QED  BY <1>2 DEF Paths, S

LEMMA DirectoryFacts ==
  ASSUME NEW extents, Layable(extents)
  PROVE  LET dirs == Directories(extents)
         IN  /\ dirs \in SUBSET Paths /\ <<>> \in dirs
             /\ \A p \in dirs \cup DOMAIN extents :
                  /\ p \in Paths
                  /\ p # <<>> => Front(p) \in dirs
                  /\ \A n \in 0..(Len(p) - 1) : SubSeq(p, 1, n) \in dirs
<1> DEFINE dirs == Directories(extents)
           S == ToSet(NameOrder)
<1>1. \A d : d \in dirs <=> \E p \in DOMAIN extents : \E n \in 0..(Len(p) - 1) : d = SubSeq(p, 1, n)
  BY DEF Directories
<1>2. \A p \in DOMAIN extents : p \in Paths /\ p \in Seq(S) /\ p # <<>> /\ Len(p) \in Nat \ {0}
  BY PathFacts DEF Layable, Paths
<1>3. ASSUME NEW p \in DOMAIN extents, NEW n \in 0..(Len(p) - 1)
      PROVE  SubSeq(p, 1, n) \in Paths /\ Len(SubSeq(p, 1, n)) = n
  <2>1. p \in Seq(S) /\ n \in Nat /\ n <= Len(p)
    BY <1>2
  <2>2. SubSeq(p, 1, n) \in Seq(S) /\ Len(SubSeq(p, 1, n)) = n
    <3> HIDE DEF S
    <3> QED  BY <2>1
  <2> QED  BY <2>2 DEF Paths
<1>4. dirs \in SUBSET Paths
  <2> SUFFICES ASSUME NEW d \in dirs PROVE d \in Paths
    OBVIOUS
  <2>1. PICK p \in DOMAIN extents : \E n \in 0..(Len(p) - 1) : d = SubSeq(p, 1, n)
    BY <1>1
  <2> QED  BY <1>3, <2>1
<1>5. <<>> \in dirs
  <2>1. PICK p \in DOMAIN extents : TRUE
    BY DEF Layable
  <2>2. 0 \in 0..(Len(p) - 1) /\ SubSeq(p, 1, 0) = <<>>
    BY <1>2, SubSeqEmpty
  <2> QED  BY <1>1, <2>2
<1>6. ASSUME NEW d \in dirs, NEW n \in 0..(Len(d) - 1)
      PROVE  SubSeq(d, 1, n) \in dirs
  <2>1. PICK p \in DOMAIN extents : \E m \in 0..(Len(p) - 1) : d = SubSeq(p, 1, m)
    BY <1>1
  <2>0. PICK m \in 0..(Len(p) - 1) : d = SubSeq(p, 1, m)
    BY <2>1
  <2>2. Len(d) = m /\ m \in Nat /\ p \in Seq(S) /\ Len(p) \in Nat
    BY <1>2, <1>3, <2>0
  <2>3. n \in 0..(Len(p) - 1) /\ n \in Nat /\ n <= m
    BY <2>2
  <2>4. SubSeq(d, 1, n) = SubSeq(p, 1, n)
    <3>1. SubSeq(d, 1, n) = [j \in 1..n |-> d[j]] /\ SubSeq(p, 1, n) = [j \in 1..n |-> p[j]]
      <4>1. d \in Seq(S)
        BY <1>4 DEF Paths
      <4> HIDE DEF S
      <4> QED  BY <2>2, <2>3, <4>1
    <3>2. \A j \in 1..n : d[j] = p[j]
      <4> HIDE DEF S
      <4> QED  BY <2>0, <2>2, <2>3
    <3> QED  BY <3>1, <3>2
  <2> QED  BY <1>1, <2>3, <2>4
<1>7. ASSUME NEW p \in dirs \cup DOMAIN extents
      PROVE  /\ p \in Paths
             /\ p # <<>> => Front(p) \in dirs
             /\ \A n \in 0..(Len(p) - 1) : SubSeq(p, 1, n) \in dirs
  <2>1. p \in Paths /\ Len(p) \in Nat /\ (p # <<>> => Len(p) # 0)
    BY <1>2, <1>4 DEF Paths
  <2>2. \A n \in 0..(Len(p) - 1) : SubSeq(p, 1, n) \in dirs
    BY <1>1, <1>6
  <2>3. p # <<>> => Len(p) - 1 \in 0..(Len(p) - 1)
    BY <2>1
  <2> QED  BY <2>1, <2>2, <2>3 DEF Front
<1> QED  BY <1>4, <1>5, <1>7

(* The records that lead along a path, one after the other.                *)
LEMMA LookupFolds ==
  ASSUME NEW S, NEW s \in Seq(S), NEW volume
  PROVE  \E v : /\ v[0] = RootRecord(volume)
                /\ \A k \in 1..Len(s) : v[k] = Follow(volume, v[k - 1], s[k])
                /\ v[Len(s)] = Lookup(volume, s)
<1> DEFINE Body(g, d) ==
             IF d = {} THEN RootRecord(volume)
             ELSE Follow(volume, g[d \ {Max(d)}], s[Max(d)])
           Folds(g, m) == g = [d \in SUBSET (1..m) |-> Body(g, d)]
           n == Len(s)
           T == {m \in 0..n : ~ \E g : Folds(g, m)}
<1>1. n \in Nat /\ DOMAIN s = 1..n
  OBVIOUS
<1>2. T = {}
  <2> SUFFICES ASSUME T # {} PROVE FALSE
    OBVIOUS
  <2>1. PICK m \in T : \A k \in T : m <= k
    <3>1. T \in SUBSET Nat
      BY <1>1
    <3> HIDE DEF T
    <3> QED  BY <3>1, Least
  <2>0. m \in 0..n
    <3> HIDE DEF Folds
    <3> QED  BY <2>1
  <2>2. CASE m = 0
    <3> DEFINE g == [d \in SUBSET (1..0) |-> RootRecord(volume)]
    <3>1. SUBSET (1..0) = {{}}
      OBVIOUS
    <3>2. Folds(g, 0)
      BY <3>1
    <3> QED  BY <2>1, <2>2, <3>2
  <2>3. CASE m # 0
    <3>1. m \in Nat \ {0} /\ m - 1 \in 0..n
      BY <1>1, <2>0, <2>3
    <3>2. PICK g : Folds(g, m - 1)
      <4> HIDE DEF Folds
      <4>1. m - 1 \notin T
        <5> HIDE DEF T
        <5> QED  BY <2>1, <3>1
      <4> QED  BY <3>1, <4>1
    <3> DEFINE h == [d \in SUBSET (1..m) |-> IF m \in d THEN Body(g, d) ELSE g[d]]
    <3>3. \A d \in SUBSET (1..m) : h[d] = Body(h, d)
      <4> SUFFICES ASSUME NEW d \in SUBSET (1..m) PROVE h[d] = Body(h, d)
        OBVIOUS
      <4>1. CASE m \in d
        <5>1. Max(d) = m /\ d \ {m} \in SUBSET (1..m) /\ m \notin d \ {m}
          BY <3>1, <4>1, MaxOfTop
        <5>2. h[d] = Body(g, d) /\ h[d \ {m}] = g[d \ {m}]
          BY <4>1, <5>1
        <5> QED  BY <5>1, <5>2
      <4>2. CASE m \notin d
        <5>1. d \in SUBSET (1..(m - 1)) /\ d \ {Max(d)} \in SUBSET (1..(m - 1))
          <6>1. \A i \in d : i \in 1..m /\ i # m
            BY <4>2
          <6>2. \A i \in 1..m : i # m => i \in 1..(m - 1)
            BY <3>1
          <6> QED  BY <6>1, <6>2
        <5>2. h[d] = g[d] /\ h[d \ {Max(d)}] = g[d \ {Max(d)}]
          BY <3>1, <4>2, <5>1
        <5>3. g[d] = Body(g, d)
          BY <3>2, <5>1
        <5> QED  BY <5>2, <5>3
      <4> QED  BY <4>1, <4>2
    <3>4. Folds(h, m)
      <4> HIDE DEF Body
      <4>1. h = [d \in SUBSET (1..m) |-> h[d]]
        OBVIOUS
      <4> HIDE DEF h
      <4> QED  BY <3>3, <4>1
    <3> QED  BY <2>1, <3>4
  <2> QED  BY <2>2, <2>3
<1> DEFINE iter == CHOOSE g : Folds(g, n)
<1>3. Folds(iter, n)
  <2> HIDE DEF Folds
  <2>1. n \in 0..n
    BY <1>1
  <2>2. \E g : Folds(g, n)
    BY <1>2, <2>1
  <2> QED  BY <2>2
<1>4. Lookup(volume, s) = iter[1..n]
  BY <1>1 DEF FoldLeft, MapThenFoldSet, Lookup
<1> HIDE DEF iter
<1> DEFINE v == [k \in 0..n |-> iter[1..k]]
<1>5. v[0] = RootRecord(volume)
  BY <1>1, <1>3
<1>6. \A k \in 1..n : v[k] = Follow(volume, v[k - 1], s[k])
  <2> SUFFICES ASSUME NEW k \in 1..n PROVE v[k] = Follow(volume, v[k - 1], s[k])
    OBVIOUS
  <2>1. 1..k \in SUBSET (1..n) /\ k \in 1..k /\ Max(1..k) = k /\ (1..k) \ {k} = 1..(k - 1)
    BY <1>1, MaxOfTop
  <2>2. v[k] = iter[1..k] /\ v[k - 1] = iter[1..(k - 1)]
    BY <1>1
  <2>3. iter[1..k] = Body(iter, 1..k)
    BY <1>3, <2>1
  <2> QED  BY <2>1, <2>2, <2>3
<1>7. v[n] = iter[1..n]
  BY <1>1
<1> QED  BY <1>4, <1>5, <1>6, <1>7

LEMMA ChildFacts ==
  ASSUME NEW extents, Layable(extents),
         NEW p \in Directories(extents) \cup DOMAIN extents, p # <<>>
  PROVE  LET records == DirectorySector(extents, Front(p)).records
         IN  Last(p) \in DOMAIN records /\ records[Last(p)] = Record(extents, p)
<1> DEFINE c == Front(p)
           n == Last(p)
<1>1. p \in Paths /\ c \in Paths /\ Len(c) = Len(p) - 1 /\ p = Append(c, n)
  BY DirectoryFacts, FrontOfPath
<1>2. p \in Children(extents, c)
  <2>1. Len(c) \in Nat /\ Len(p) \in Nat
    BY <1>1, PathFacts
  <2>2. SubSeq(c, 1, Len(c)) = c
    BY <1>1, SubSeqFull DEF Paths
  <2>3. IsPrefix(c, p)
    BY <1>1, <2>1, <2>2 DEF IsPrefix, Front
  <2> QED  BY <1>1, <2>1, <2>3 DEF Children
<1>3. n \in {Last(q) : q \in Children(extents, c)}
  BY <1>2
<1> HIDE DEF c, n
<1>4. DirectorySector(extents, c).records =
        [k \in {Last(q) : q \in Children(extents, c)} |-> Record(extents, Append(c, k))]
  BY DEF DirectorySector
<1>5. /\ n \in DOMAIN DirectorySector(extents, c).records
      /\ DirectorySector(extents, c).records[n] = Record(extents, p)
  BY <1>1, <1>3, <1>4
<1> QED  BY <1>5 DEF c, n

LEMMA OverlayFacts ==
  ASSUME NEW extents, Layable(extents), NEW d \in Directories(extents)
  PROVE  LET dirs == Directories(extents)
             volume == Overlay(extents)
             s == SectorOf(dirs, d)
             i == Index(dirs, d)
         IN  /\ s \in DOMAIN volume.sectors
             /\ volume.sectors[s] = DirectorySector(extents, d)
             /\ i \in DOMAIN volume.table
             /\ volume.table[i] = [sector |-> s, parent |-> Index(dirs, Parent(d))]
<1> DEFINE dirs == Directories(extents)
           at(s) == CHOOSE c \in dirs : SectorOf(dirs, c) = s
           by(i) == CHOOSE c \in dirs : Index(dirs, c) = i
<1>1. dirs \in SUBSET Paths /\ IsFiniteSet(dirs) /\ <<>> \in dirs /\ d \in dirs
  BY DirectoryFacts DEF Layable
<1>2. at(SectorOf(dirs, d)) = d
  <2>1. \A c \in dirs : SectorOf(dirs, c) = SectorOf(dirs, d) => c = d
    BY <1>1, SectorOfFacts
  <2> HIDE DEF dirs
  <2> QED  BY <1>1, <2>1
<1>3. by(Index(dirs, d)) = d
  <2>1. \A c \in dirs : Index(dirs, c) = Index(dirs, d) => c = d
    BY <1>1, IndexFacts
  <2> HIDE DEF dirs
  <2> QED  BY <1>1, <2>1
<1>4. /\ Overlay(extents).sectors =
           [s \in {SectorOf(dirs, c) : c \in dirs} |-> DirectorySector(extents, at(s))]
      /\ Overlay(extents).table =
           [i \in {Index(dirs, c) : c \in dirs} |->
              [sector |-> DirSector(i), parent |-> Index(dirs, Parent(by(i)))]]
  BY DEF Overlay, PathTable
<1> HIDE DEF dirs, at, by
<1>5. /\ SectorOf(dirs, d) \in DOMAIN Overlay(extents).sectors
      /\ Overlay(extents).sectors[SectorOf(dirs, d)] = DirectorySector(extents, d)
  BY <1>1, <1>2, <1>4
<1>6. /\ Index(dirs, d) \in DOMAIN Overlay(extents).table
      /\ Overlay(extents).table[Index(dirs, d)] =
           [sector |-> DirSector(Index(dirs, d)), parent |-> Index(dirs, Parent(d))]
  BY <1>1, <1>3, <1>4
<1> QED  BY <1>5, <1>6 DEF dirs, SectorOf

(* A path of the overlay leads to its record.                              *)
LEMMA LookupFinds ==
  ASSUME NEW extents, Layable(extents), NEW p \in Directories(extents) \cup DOMAIN extents
  PROVE  Lookup(Overlay(extents), p) = Record(extents, p)
<1> DEFINE dirs == Directories(extents)
           volume == Overlay(extents)
           n == Len(p)
           S == ToSet(NameOrder)
<1>1. /\ p \in Paths /\ n \in Nat /\ DOMAIN p = 1..n
      /\ dirs \in SUBSET Paths /\ IsFiniteSet(dirs) /\ <<>> \in dirs
      /\ \A k \in 0..(n - 1) : SubSeq(p, 1, k) \in dirs
  BY DirectoryFacts, PathFacts DEF Layable
<1>2. PICK v : /\ v[0] = RootRecord(volume)
               /\ \A k \in 1..n : v[k] = Follow(volume, v[k - 1], p[k])
               /\ v[n] = Lookup(volume, p)
  <2>1. p \in Seq(S)
    BY <1>1 DEF Paths
  <2> HIDE DEF volume, S
  <2> QED  BY <2>1, LookupFolds
<1> DEFINE Good(k) == v[k] = Record(extents, SubSeq(p, 1, k))
           T == {k \in 0..n : ~ Good(k)}
<1>3. Good(0)
  <2>1. SubSeq(p, 1, 0) = <<>>
    BY <1>1, SubSeqEmpty
  <2>2. volume.root = 18
    BY OverlayAssumption DEF Overlay
  <2>3. SectorOf(dirs, <<>>) = 18
    BY <1>1, SectorOfFacts
  <2>4. Record(extents, <<>>) = [isDir |-> TRUE, size |-> 1, sector |-> 18]
    BY <1>1, <2>3 DEF Record
  <2> QED  BY <1>2, <2>1, <2>2, <2>4 DEF RootRecord
<1>4. ASSUME NEW k \in 1..n, Good(k - 1) PROVE Good(k)
  <2> DEFINE c == SubSeq(p, 1, k - 1)
             q == SubSeq(p, 1, k)
  <2>1. c \in dirs
    <3>1. k - 1 \in 0..(n - 1)
      BY <1>1
    <3> QED  BY <1>1, <3>1
  <2>2. q \in dirs \cup DOMAIN extents
    <3>1. CASE k = n
      <4>1. q = p
        BY <1>1, <3>1, SubSeqFull DEF Paths
      <4> QED  BY <4>1
    <3>2. CASE k # n
      <4>1. k \in 0..(n - 1)
        <5>1. n \in Nat
          BY <1>1
        <5> HIDE DEF n, c, q, Good, T, dirs, volume, S
        <5> QED  BY <3>2, <5>1
      <4> QED  BY <1>1, <4>1
    <3> QED  BY <3>1, <3>2
  <2>3. q # <<>> /\ Front(q) = c /\ Last(q) = p[k]
    <3>1. p \in Seq(S) /\ k \in Nat \ {0} /\ k <= Len(p)
      BY <1>1 DEF Paths
    <3>2. /\ q \in Seq(S) /\ Len(q) = k /\ q[k] = p[k]
          /\ SubSeq(q, 1, k - 1) = [j \in 1..(k - 1) |-> p[j]]
          /\ c = [j \in 1..(k - 1) |-> p[j]]
      <4> HIDE DEF S
      <4>1. q \in Seq(S) /\ Len(q) = k /\ \A j \in 1..k : q[j] = p[j]
        BY <3>1
      <4>2. c = [j \in 1..(k - 1) |-> p[j]]
        BY <3>1
      <4> HIDE DEF q
      <4>3. SubSeq(q, 1, k - 1) = [j \in 1..(k - 1) |-> q[j]]
        BY <3>1, <4>1
      <4> QED  BY <3>1, <4>1, <4>2, <4>3
    <3> HIDE DEF q, c, S
    <3> QED  BY <3>1, <3>2 DEF Front, Last
  <2>4. /\ v[k - 1] = Record(extents, c) /\ v[k] = Follow(volume, v[k - 1], p[k])
    BY <1>2, <1>4
  <2>5. Record(extents, c) = [isDir |-> TRUE, size |-> 1, sector |-> SectorOf(dirs, c)]
    BY <2>1 DEF Record
  <2>6. /\ SectorOf(dirs, c) \in DOMAIN volume.sectors
        /\ volume.sectors[SectorOf(dirs, c)] = DirectorySector(extents, c)
    BY <2>1, OverlayFacts
  <2>7. /\ p[k] \in DOMAIN DirectorySector(extents, c).records
        /\ DirectorySector(extents, c).records[p[k]] = Record(extents, q)
    <3> HIDE DEF q, c
    <3> QED  BY <2>2, <2>3, ChildFacts
  <2> HIDE DEF c, q, dirs, volume
  <2>8. v[k] = Record(extents, q)
    BY <2>4, <2>5, <2>6, <2>7 DEF Follow
  <2> QED  BY <2>8 DEF q
<1>5. T = {}
  <2> SUFFICES ASSUME T # {} PROVE FALSE
    OBVIOUS
  <2>1. PICK m \in T : \A k \in T : m <= k
    <3>1. T \in SUBSET Nat
      BY <1>1
    <3> HIDE DEF T
    <3> QED  BY <3>1, Least
  <2> HIDE DEF Good
  <2>2. m \in 0..n /\ ~ Good(m)
    BY <2>1
  <2>3. m # 0
    BY <1>3, <2>2
  <2>4. m \in 1..n /\ m - 1 \in 0..n /\ ~ (m <= m - 1)
    BY <1>1, <2>2, <2>3
  <2>5. Good(m - 1)
    BY <2>1, <2>4
  <2> QED  BY <1>4, <2>2, <2>4, <2>5
<1>6. Good(n)
  <2> HIDE DEF Good
  <2> QED  BY <1>1, <1>5
<1>7. SubSeq(p, 1, n) = p
  BY <1>1, SubSeqFull DEF Paths
<1> QED  BY <1>2, <1>6, <1>7

(* A reader of the overlay of any files that can be laid finds each of them *)
(* and no other, and the way up from every directory; no directory lies on a *)
(* file, on a table or on the descriptor of XDVDFS.                        *)
THEOREM OverlayIsRead ==
  ASSUME NEW extents, Layable(extents)
  PROVE  Sound(Overlay(extents), extents)
<1> DEFINE dirs == Directories(extents)
           volume == Overlay(extents)
           sectorOf(d) == Lookup(volume, d).sector
           taken == 16..17 \cup 19..20 \cup {32}
                      \cup UNION {Occupied(extents[p]) : p \in DOMAIN extents}
<1>1. /\ dirs \in SUBSET Paths /\ IsFiniteSet(dirs) /\ <<>> \in dirs
      /\ Cardinality(dirs) \in 0..12 /\ dirs \cap DOMAIN extents = {}
  <2>1. IsFiniteSet(dirs) /\ Cardinality(dirs) <= 12
    BY DEF Layable
  <2>2. Cardinality(dirs) \in Nat
    BY <2>1, FS_CardinalityType
  <2>3. dirs \in SUBSET Paths /\ <<>> \in dirs
    BY DirectoryFacts
  <2>4. dirs \cap DOMAIN extents = {}
    BY DEF Layable
  <2> HIDE DEF dirs
  <2> QED  BY <2>1, <2>2, <2>3, <2>4
<1>2. ASSUME NEW d \in dirs
      PROVE  /\ Lookup(volume, d) = [isDir |-> TRUE, size |-> 1, sector |-> SectorOf(dirs, d)]
             /\ sectorOf(d) = SectorOf(dirs, d)
  <2>1. Lookup(volume, d) = [isDir |-> TRUE, size |-> 1, sector |-> SectorOf(dirs, d)]
    BY LookupFinds DEF Record
  <2> QED  BY <2>1
<1>3. ASSUME NEW p \in DOMAIN extents
      PROVE  LET r == Lookup(volume, p)
             IN  ~r.isDir /\ r.sector = extents[p].sector /\ r.size = extents[p].size
  <2>1. p \notin dirs
    BY <1>1
  <2>2. Lookup(volume, p) =
          [isDir |-> FALSE, size |-> extents[p].size, sector |-> extents[p].sector]
    BY <2>1, LookupFinds DEF Record
  <2> QED  BY <2>2
<1>4. ASSUME NEW d \in dirs \ {<<>>}
      PROVE  /\ Lookup(volume, d).isDir
             /\ volume.sectors[sectorOf(d)].self = sectorOf(d)
             /\ volume.sectors[sectorOf(d)].parent = sectorOf(Front(d))
             /\ \E i \in DOMAIN volume.table :
                  /\ volume.table[i].sector = sectorOf(d)
                  /\ volume.table[volume.table[i].parent].sector = sectorOf(Front(d))
  <2>1. Front(d) \in dirs /\ Parent(d) = Front(d)
    BY DirectoryFacts DEF Parent
  <2>2. /\ sectorOf(d) = SectorOf(dirs, d) /\ sectorOf(Front(d)) = SectorOf(dirs, Front(d))
        /\ Lookup(volume, d).isDir
    <3>1. Lookup(volume, d).isDir /\ sectorOf(d) = SectorOf(dirs, d)
      BY <1>2
    <3>2. sectorOf(Front(d)) = SectorOf(dirs, Front(d))
      BY <1>2, <2>1
    <3> QED  BY <3>1, <3>2
  <2>3. volume.sectors[SectorOf(dirs, d)] = DirectorySector(extents, d)
    BY OverlayFacts
  <2>4. /\ DirectorySector(extents, d).self = SectorOf(dirs, d)
        /\ DirectorySector(extents, d).parent = SectorOf(dirs, Front(d))
    BY <2>1 DEF DirectorySector
  <2>5. /\ Index(dirs, d) \in DOMAIN volume.table
        /\ volume.table[Index(dirs, d)] =
             [sector |-> SectorOf(dirs, d), parent |-> Index(dirs, Front(d))]
    <3>1. volume.table[Index(dirs, d)] =
            [sector |-> SectorOf(dirs, d), parent |-> Index(dirs, Parent(d))]
      BY OverlayFacts
    <3>2. Index(dirs, d) \in DOMAIN volume.table
      BY OverlayFacts
    <3> QED  BY <2>1, <3>1, <3>2
  <2>6. volume.table[Index(dirs, Front(d))].sector = SectorOf(dirs, Front(d))
    <3>1. ASSUME NEW c \in dirs PROVE volume.table[Index(dirs, c)].sector = SectorOf(dirs, c)
      <4>1. volume.table[Index(dirs, c)] =
              [sector |-> SectorOf(dirs, c), parent |-> Index(dirs, Parent(c))]
        BY OverlayFacts
      <4> QED  BY <4>1
    <3> HIDE DEF dirs, volume
    <3> QED  BY <2>1, <3>1
  <2> HIDE DEF dirs, volume, sectorOf
  <2> QED  BY <2>2, <2>3, <2>4, <2>5, <2>6
<1>5. {sectorOf(d) : d \in dirs} \cap taken = {}
  <2> SUFFICES ASSUME NEW d \in dirs PROVE sectorOf(d) \notin taken
    OBVIOUS
  <2>1. sectorOf(d) \in {18} \cup 21..(19 + Cardinality(dirs))
    BY <1>1, <1>2, SectorOfFacts
  <2>2. sectorOf(d) \in {18} \cup 21..31
    <3> HIDE DEF sectorOf, dirs
    <3> QED  BY <1>1, <2>1
  <2>3. \A p \in DOMAIN extents : sectorOf(d) \notin Occupied(extents[p])
    <3> HIDE DEF sectorOf
    <3> QED  BY <2>2 DEF Layable
  <2> HIDE DEF sectorOf
  <2> QED  BY <2>2, <2>3
<1>6. \A c, d \in dirs : c # d => sectorOf(c) # sectorOf(d)
  <2> SUFFICES ASSUME NEW c \in dirs, NEW d \in dirs, c # d PROVE sectorOf(c) # sectorOf(d)
    OBVIOUS
  <2>1. SectorOf(dirs, c) # SectorOf(dirs, d)
    BY <1>1, SectorOfFacts
  <2> QED  BY <1>2, <2>1
<1> HIDE DEF volume
<1>7. \A d \in dirs \ {<<>>} :
        /\ Lookup(volume, d).isDir
        /\ volume.sectors[sectorOf(d)].self = sectorOf(d)
        /\ volume.sectors[sectorOf(d)].parent = sectorOf(Front(d))
        /\ \E i \in DOMAIN volume.table :
             /\ volume.table[i].sector = sectorOf(d)
             /\ volume.table[volume.table[i].parent].sector = sectorOf(Front(d))
  <2> HIDE DEF dirs, sectorOf
  <2> QED  BY <1>4
<1>8. Sound(volume, extents)
  BY <1>3, <1>5, <1>6, <1>7, Zenon DEF Sound
<1> QED  BY <1>8 DEF volume

-----------------------------------------------------------------------------
(* An order without one of its names: the others, each once still.         *)
LEMMA WithoutFolds ==
  ASSUME NEW S, NEW s \in Seq(S), NEW e
  PROVE  \E v : /\ v[0] = <<>>
                /\ \A k \in 1..Len(s) :
                      v[k] = (IF s[k] = e THEN v[k - 1] ELSE Append(v[k - 1], s[k]))
                /\ v[Len(s)] = Without(s, e)
<1> DEFINE Body(g, d) ==
             IF d = {} THEN <<>>
             ELSE (IF s[Max(d)] = e THEN g[d \ {Max(d)}] ELSE Append(g[d \ {Max(d)}], s[Max(d)]))
           Folds(g, m) == g = [d \in SUBSET (1..m) |-> Body(g, d)]
           n == Len(s)
           T == {m \in 0..n : ~ \E g : Folds(g, m)}
<1>1. n \in Nat /\ DOMAIN s = 1..n
  OBVIOUS
<1>2. T = {}
  <2> SUFFICES ASSUME T # {} PROVE FALSE
    OBVIOUS
  <2>1. PICK m \in T : \A k \in T : m <= k
    <3>1. T \in SUBSET Nat
      BY <1>1
    <3> HIDE DEF T
    <3> QED  BY <3>1, Least
  <2>0. m \in 0..n
    <3> HIDE DEF Folds
    <3> QED  BY <2>1
  <2>2. CASE m = 0
    <3> DEFINE g == [d \in SUBSET (1..0) |-> <<>>]
    <3>1. SUBSET (1..0) = {{}}
      OBVIOUS
    <3>2. Folds(g, 0)
      BY <3>1
    <3> QED  BY <2>1, <2>2, <3>2
  <2>3. CASE m # 0
    <3>1. m \in Nat \ {0} /\ m - 1 \in 0..n
      BY <1>1, <2>0, <2>3
    <3>2. PICK g : Folds(g, m - 1)
      <4> HIDE DEF Folds
      <4>1. m - 1 \notin T
        <5> HIDE DEF T
        <5> QED  BY <2>1, <3>1
      <4> QED  BY <3>1, <4>1
    <3> DEFINE h == [d \in SUBSET (1..m) |-> IF m \in d THEN Body(g, d) ELSE g[d]]
    <3>3. \A d \in SUBSET (1..m) : h[d] = Body(h, d)
      <4> SUFFICES ASSUME NEW d \in SUBSET (1..m) PROVE h[d] = Body(h, d)
        OBVIOUS
      <4>1. CASE m \in d
        <5>1. Max(d) = m /\ d \ {m} \in SUBSET (1..m) /\ m \notin d \ {m}
          BY <3>1, <4>1, MaxOfTop
        <5>2. h[d] = Body(g, d) /\ h[d \ {m}] = g[d \ {m}]
          BY <4>1, <5>1
        <5> QED  BY <5>1, <5>2
      <4>2. CASE m \notin d
        <5>1. d \in SUBSET (1..(m - 1)) /\ d \ {Max(d)} \in SUBSET (1..(m - 1))
          <6>1. \A i \in d : i \in 1..m /\ i # m
            BY <4>2
          <6>2. \A i \in 1..m : i # m => i \in 1..(m - 1)
            BY <3>1
          <6> QED  BY <6>1, <6>2
        <5>2. h[d] = g[d] /\ h[d \ {Max(d)}] = g[d \ {Max(d)}]
          BY <3>1, <4>2, <5>1
        <5>3. g[d] = Body(g, d)
          BY <3>2, <5>1
        <5> QED  BY <5>2, <5>3
      <4> QED  BY <4>1, <4>2
    <3>4. Folds(h, m)
      <4> HIDE DEF Body
      <4>1. h = [d \in SUBSET (1..m) |-> h[d]]
        OBVIOUS
      <4> HIDE DEF h
      <4> QED  BY <3>3, <4>1
    <3> QED  BY <2>1, <3>4
  <2> QED  BY <2>2, <2>3
<1> DEFINE iter == CHOOSE g : Folds(g, n)
<1>3. Folds(iter, n)
  <2> HIDE DEF Folds
  <2>1. n \in 0..n
    BY <1>1
  <2>2. \E g : Folds(g, n)
    BY <1>2, <2>1
  <2> QED  BY <2>2
<1>4. Without(s, e) = iter[1..n]
  BY <1>1 DEF FoldLeft, MapThenFoldSet, Without
<1> HIDE DEF iter
<1> DEFINE v == [k \in 0..n |-> iter[1..k]]
<1>5. v[0] = <<>>
  BY <1>1, <1>3
<1>6. \A k \in 1..n : v[k] = (IF s[k] = e THEN v[k - 1] ELSE Append(v[k - 1], s[k]))
  <2> SUFFICES ASSUME NEW k \in 1..n
               PROVE  v[k] = (IF s[k] = e THEN v[k - 1] ELSE Append(v[k - 1], s[k]))
    OBVIOUS
  <2>1. 1..k \in SUBSET (1..n) /\ k \in 1..k /\ Max(1..k) = k /\ (1..k) \ {k} = 1..(k - 1)
    BY <1>1, MaxOfTop
  <2>2. v[k] = iter[1..k] /\ v[k - 1] = iter[1..(k - 1)]
    BY <1>1
  <2>3. iter[1..k] = Body(iter, 1..k)
    BY <1>3, <2>1
  <2> QED  BY <2>1, <2>2, <2>3
<1>7. v[n] = iter[1..n]
  BY <1>1
<1> QED  BY <1>4, <1>5, <1>6, <1>7

LEMMA AppendNew ==
  ASSUME NEW S, NEW w \in Seq(S), NEW x \in S, IsInjective(w), x \notin ToSet(w)
  PROVE  /\ Append(w, x) \in Seq(S) /\ IsInjective(Append(w, x))
         /\ ToSet(Append(w, x)) = ToSet(w) \cup {x}
<1> DEFINE u == Append(w, x)
           n == Len(w)
<1>1. /\ n \in Nat /\ DOMAIN w = 1..n /\ u \in Seq(S) /\ DOMAIN u = 1..(n + 1)
      /\ (\A i \in 1..n : u[i] = w[i]) /\ u[n + 1] = x
  OBVIOUS
<1> HIDE DEF u, n
<1>2. \A i \in DOMAIN u : i = n + 1 \/ i \in 1..n
  BY <1>1
<1>3. \A i \in 1..n : u[i] # x
  BY <1>1 DEF ToSet
<1>4. IsInjective(u)
  BY <1>1, <1>2, <1>3 DEF IsInjective
<1>5. ToSet(u) = ToSet(w) \cup {x}
  <2>1. ToSet(u) = {u[i] : i \in 1..n} \cup {u[n + 1]}
    <3>1. 1..(n + 1) = (1..n) \cup {n + 1}
      BY <1>1
    <3> QED  BY <1>1, <3>1 DEF ToSet
  <2> QED  BY <1>1, <2>1 DEF ToSet
<1> QED  BY <1>1, <1>4, <1>5 DEF u

LEMMA WithoutFacts ==
  ASSUME NEW S, NEW s \in Seq(S), IsInjective(s), NEW e
  PROVE  LET w == Without(s, e)
         IN  w \in Seq(S) /\ IsInjective(w) /\ ToSet(w) = ToSet(s) \ {e}
<1>1. PICK v : /\ v[0] = <<>>
               /\ \A k \in 1..Len(s) :
                    v[k] = (IF s[k] = e THEN v[k - 1] ELSE Append(v[k - 1], s[k]))
               /\ v[Len(s)] = Without(s, e)
  BY WithoutFolds
<1> DEFINE n == Len(s)
           Good(k) == /\ v[k] \in Seq(S) /\ IsInjective(v[k])
                      /\ ToSet(v[k]) = {s[i] : i \in 1..k} \ {e}
           T == {k \in 0..n : ~ Good(k)}
<1>2. n \in Nat /\ DOMAIN s = 1..n /\ \A i \in 1..n : s[i] \in S
  OBVIOUS
<1> HIDE DEF n
<1>3. T = {}
  <2> SUFFICES ASSUME T # {} PROVE FALSE
    OBVIOUS
  <2>1. PICK m \in T : \A k \in T : m <= k
    <3>1. T \in SUBSET Nat
      BY <1>2
    <3> HIDE DEF T
    <3> QED  BY <3>1, Least
  <2>2. m \in 0..n /\ ~ Good(m)
    <3> HIDE DEF Good
    <3> QED  OBVIOUS
  <2>3. CASE m = 0
    <3>1. <<>> \in Seq(S) /\ IsInjective(<<>>) /\ ToSet(<<>>) = {}
      BY DEF IsInjective, ToSet
    <3>2. {s[i] : i \in 1..0} \ {e} = {}
      OBVIOUS
    <3> QED  BY <1>1, <2>2, <2>3, <3>1, <3>2
  <2>4. CASE m # 0
    <3>1. m \in 1..n /\ m - 1 \in 0..n
      BY <1>2, <2>2, <2>4
    <3>2. Good(m - 1)
      <4> HIDE DEF Good
      <4>1. m - 1 \notin T
        <5> HIDE DEF T
        <5> QED  BY <2>1, <3>1
      <4> QED  BY <3>1, <4>1
    <3>3. v[m] = IF s[m] = e THEN v[m - 1] ELSE Append(v[m - 1], s[m])
      BY <1>1, <3>1 DEF n
    <3>4. {s[i] : i \in 1..m} = {s[i] : i \in 1..(m - 1)} \cup {s[m]}
      <4>1. 1..m = (1..(m - 1)) \cup {m}
        BY <1>2, <3>1
      <4> QED  BY <4>1
    <3>5. CASE s[m] = e
      BY <2>2, <3>2, <3>3, <3>4, <3>5
    <3>6. CASE s[m] # e
      <4>1. s[m] \notin {s[i] : i \in 1..(m - 1)}
        <5>1. \A i \in 1..(m - 1) : i \in 1..n /\ i # m
          BY <1>2, <3>1
        <5> QED  BY <1>2, <3>1, <5>1 DEF IsInjective
      <4>2. v[m] = Append(v[m - 1], s[m]) /\ s[m] \in S /\ s[m] \notin ToSet(v[m - 1])
        BY <1>2, <3>1, <3>2, <3>3, <3>6, <4>1
      <4>3. /\ v[m] \in Seq(S) /\ IsInjective(v[m])
            /\ ToSet(v[m]) = ToSet(v[m - 1]) \cup {s[m]}
        BY <3>2, <4>2, AppendNew
      <4>4. Good(m)
        BY <3>2, <3>4, <3>6, <4>3
      <4> QED  BY <2>2, <4>4
    <3> QED  BY <3>5, <3>6
  <2> QED  BY <2>3, <2>4
<1>4. Good(n)
  <2>1. n \in 0..n
    BY <1>2
  <2> HIDE DEF Good
  <2> QED  BY <1>3, <2>1
<1>5. ToSet(s) = {s[i] : i \in 1..n}
  BY <1>2 DEF ToSet
<1> QED  BY <1>1, <1>4, <1>5 DEF n

-----------------------------------------------------------------------------
(* What is made.  A medium holds Tiny Core, the order, and a file for each *)
(* name of the order.                                                      *)
HoldsOrder(fs) ==
  LET names == fs[OrderTxt].names
  IN  /\ names \in Seq(Ext) /\ IsInjective(names)
      /\ {CoreGz, OrderTxt} \cup {Extension(e) : e \in ToSet(names)} \subseteq DOMAIN fs
      /\ fs[CoreGz] = Program /\ fs[OrderTxt] = Holding(names, 1)
      /\ \A e \in ToSet(names) : fs[Extension(e)].body \in File \ {Absent}

(* An archive is what its entries make, and each file is one of them.      *)
ArchiveHolds(image, fs) ==
  LET es == Front(Entries(image))
  IN  /\ AreEntries(es) /\ image = Archive(es)
      /\ \A i, j \in DOMAIN es : es[i].name = es[j].name => i = j
      /\ \A i \in DOMAIN es : es[i].name # Damaged.name
      /\ \A p \in DOMAIN fs : \E i \in DOMAIN es : es[i].name = p /\ es[i].data = fs[p]

MadeInv ==
  stage = "made" =>
    /\ medium = [kind |-> medium.kind, files |-> medium.files,
                 root |-> medium.root, image |-> medium.image]
    /\ HoldsOrder(medium.files)
    /\ medium.kind = "game" =>
         /\ medium.root \in {<<>>, <<"tc">>}
         /\ medium.image = Overlay(Extents(medium.files, medium.root))
    /\ medium.kind = "embedded" => ArchiveHolds(medium.image, medium.files)

LEMMA PathsDiffer ==
  /\ CoreGz # OrderTxt /\ InitName # CoreGz /\ InitName # OrderTxt
  /\ \A e : Extension(e) # CoreGz /\ Extension(e) # InitName
  /\ \A e \in Ext : Extension(e) # OrderTxt /\ Extension(LowerCase[e]) # OrderTxt
  /\ \A d, e : Extension(d) = Extension(e) => d = e
<1>1. Len(CoreGz) = 1 /\ Len(OrderTxt) = 2 /\ Len(InitName) = 1
      /\ CoreGz[1] = "core.gz" /\ InitName[1] = "init"
  BY DEF CoreGz, OrderTxt, InitName
<1>2. \A e : Len(Extension(e)) = 2 /\ Extension(e)[2] = e
  BY DEF Extension
<1>3. \A e \in Ext : e # "desktop-load-order.txt" /\ LowerCase[e] # "desktop-load-order.txt"
  BY MediaAssumption DEF PlainNames
<1>4. OrderTxt[2] = "desktop-load-order.txt"
  BY DEF OrderTxt
<1> HIDE DEF CoreGz, OrderTxt, InitName, Extension
<1>5. \A e \in Ext : Extension(e) # OrderTxt /\ Extension(LowerCase[e]) # OrderTxt
  BY <1>2, <1>3, <1>4
<1>6. \A e : Extension(e) # CoreGz /\ Extension(e) # InitName
  BY <1>1, <1>2
<1>7. \A d, e : Extension(d) = Extension(e) => d = e
  BY <1>2
<1>8. CoreGz # OrderTxt /\ InitName # CoreGz /\ InitName # OrderTxt
  BY <1>1
<1> QED  BY <1>5, <1>6, <1>7, <1>8

(* An order complete in the directory makes a payload of its files.        *)
LEMMA PayloadHolds ==
  ASSUME NEW names \in Seq(Ext), IsInjective(names), NEW body,
         \A e \in ToSet(names) : body[e] \in File \ {Absent}
  PROVE  LET fs == Payload(names, body)
         IN  /\ HoldsOrder(fs) /\ fs[OrderTxt].names = names
             /\ DOMAIN fs = {CoreGz, OrderTxt} \cup {Extension(e) : e \in ToSet(names)}
<1> DEFINE fs == Payload(names, body)
<1>1. DOMAIN fs = {CoreGz, OrderTxt} \cup {Extension(e) : e \in ToSet(names)}
  BY DEF Payload
<1>2. fs[CoreGz] = Program
  BY DEF Payload
<1>3. fs[OrderTxt] = Holding(names, 1) /\ fs[OrderTxt].names = names
  BY PathsDiffer DEF Payload, Holding
<1>4. ASSUME NEW e \in ToSet(names) PROVE fs[Extension(e)].body \in File \ {Absent}
  <2>1. e \in Ext
    BY DEF ToSet
  <2>2. Extension(e) # CoreGz /\ Extension(e) # OrderTxt /\ Extension(e)[2] = e
    BY <2>1, PathsDiffer DEF Extension
  <2>3. fs[Extension(e)] = Holding(<<>>, body[e])
    BY <2>2 DEF Payload
  <2> QED  BY <2>3 DEF Holding
<1> HIDE DEF fs
<1>5. HoldsOrder(fs)
  BY <1>1, <1>2, <1>3, <1>4 DEF HoldsOrder
<1> QED  BY <1>1, <1>3, <1>5 DEF fs

(* The files in the order in which the builders take them.                 *)
LEMMA ListedFacts ==
  ASSUME NEW fs, HoldsOrder(fs)
  PROVE  LET names == fs[OrderTxt].names
             all == Listed(fs)
             n == Len(names)
         IN  /\ n \in Nat /\ DOMAIN names = 1..n /\ DOMAIN all = 1..(n + 2) /\ Len(all) = n + 2
             /\ all[1] = CoreGz /\ all[2] = OrderTxt
             /\ \A i \in 3..(n + 2) :
                  /\ all[i] = Extension(names[i - 2])
                  /\ names[i - 2] \in Ext /\ names[i - 2] \in ToSet(names)
             /\ \A e \in ToSet(names) : \E i \in 3..(n + 2) : all[i] = Extension(e)
             /\ \A i, j \in 1..(n + 2) : all[i] = all[j] => i = j
             /\ all \in Seq(DOMAIN fs)
<1> DEFINE names == fs[OrderTxt].names
           n == Len(names)
           tail == [i \in DOMAIN names |-> Extension(names[i])]
           all == Listed(fs)
           P == DOMAIN fs
<1>1. /\ names \in Seq(Ext) /\ IsInjective(names)
      /\ {CoreGz, OrderTxt} \cup {Extension(e) : e \in ToSet(names)} \subseteq P
  BY DEF HoldsOrder
<1> HIDE DEF names, P
<1>2. n \in Nat /\ DOMAIN names = 1..n /\ \A i \in 1..n : names[i] \in Ext
  BY <1>1
<1>3. \A i \in 1..n : names[i] \in ToSet(names)
  BY <1>2 DEF ToSet
<1>4. tail \in Seq(P) /\ Len(tail) = n /\ \A i \in 1..n : tail[i] = Extension(names[i])
  <2>1. tail = [i \in 1..n |-> Extension(names[i])]
    BY <1>2
  <2>2. \A i \in 1..n : Extension(names[i]) \in P
    BY <1>1, <1>3
  <2> QED  BY <1>2, <2>1, <2>2
<1>5. all = <<CoreGz, OrderTxt>> \o tail
  BY DEF Listed, names
<1>6. CoreGz \in P /\ OrderTxt \in P
  BY <1>1
<1> HIDE DEF tail, n, all
<1>7. /\ all \in Seq(P) /\ Len(all) = n + 2 /\ DOMAIN all = 1..(n + 2)
      /\ all[1] = CoreGz /\ all[2] = OrderTxt
      /\ \A i \in 3..(n + 2) : all[i] = tail[i - 2]
  <2>1. <<CoreGz, OrderTxt>> \in Seq(P) /\ Len(<<CoreGz, OrderTxt>>) = 2
    BY <1>6
  <2>2. all \in Seq(P) /\ Len(all) = n + 2 /\ DOMAIN all = 1..(n + 2)
    BY <1>2, <1>4, <1>5, <2>1
  <2>3. all[1] = CoreGz /\ all[2] = OrderTxt
    BY <1>2, <1>4, <1>5, <2>1
  <2>4. \A i \in 3..(n + 2) : all[i] = tail[i - 2]
    BY <1>2, <1>4, <1>5, <2>1
  <2> QED  BY <2>2, <2>3, <2>4
<1>8. \A i \in 3..(n + 2) : /\ all[i] = Extension(names[i - 2]) /\ i - 2 \in 1..n
                            /\ names[i - 2] \in Ext /\ names[i - 2] \in ToSet(names)
  <2> SUFFICES ASSUME NEW i \in 3..(n + 2)
               PROVE  /\ all[i] = Extension(names[i - 2]) /\ i - 2 \in 1..n
                      /\ names[i - 2] \in Ext /\ names[i - 2] \in ToSet(names)
    OBVIOUS
  <2>1. i - 2 \in 1..n
    BY <1>2
  <2> QED  BY <1>2, <1>3, <1>4, <1>7, <2>1
<1>9. \A e \in ToSet(names) : \E i \in 3..(n + 2) : all[i] = Extension(e)
  <2> SUFFICES ASSUME NEW e \in ToSet(names) PROVE \E i \in 3..(n + 2) : all[i] = Extension(e)
    OBVIOUS
  <2>1. PICK k \in 1..n : names[k] = e
    BY <1>2 DEF ToSet
  <2>2. k + 2 \in 3..(n + 2) /\ k + 2 - 2 = k
    BY <1>2
  <2> QED  BY <1>8, <2>1, <2>2
<1>10. ASSUME NEW i \in 1..(n + 2), NEW j \in 1..(n + 2), all[i] = all[j] PROVE i = j
  <2>1. CASE i \in 3..(n + 2) /\ j \in 3..(n + 2)
    <3>1. names[i - 2] = names[j - 2] /\ i - 2 \in DOMAIN names /\ j - 2 \in DOMAIN names
      BY <1>2, <1>8, <1>10, <2>1, PathsDiffer
    <3>2. i - 2 = j - 2
      BY <1>1, <3>1 DEF IsInjective
    <3> QED  BY <2>1, <3>2
  <2>2. CASE i \notin 3..(n + 2) /\ j \notin 3..(n + 2)
    <3>1. i \in {1, 2} /\ j \in {1, 2}
      BY <1>2, <2>2
    <3> QED  BY <1>7, <1>10, <3>1, PathsDiffer
  <2>3. CASE i \in 3..(n + 2) /\ j \notin 3..(n + 2)
    <3>1. j \in {1, 2}
      BY <1>2, <2>3
    <3> QED  BY <1>7, <1>8, <1>10, <2>3, <3>1, PathsDiffer
  <2>4. CASE i \notin 3..(n + 2) /\ j \in 3..(n + 2)
    <3>1. i \in {1, 2}
      BY <1>2, <2>4
    <3> QED  BY <1>7, <1>8, <1>10, <2>4, <3>1, PathsDiffer
  <2> QED  BY <2>1, <2>2, <2>3, <2>4
<1> QED  BY <1>2, <1>7, <1>8, <1>9, <1>10 DEF names, n, all, P

-----------------------------------------------------------------------------
(* The archive.                                                            *)
LEMMA FrontOfAppend ==
  ASSUME NEW S, NEW s \in Seq(S), NEW x
  PROVE  Front(Append(s, x)) = s
<1> DEFINE t == Append(s, x)
<1>1. /\ t \in Seq(S \cup {x}) /\ Len(s) \in Nat /\ Len(t) = Len(s) + 1
      /\ \A i \in 1..Len(s) : t[i] = s[i]
  <2>1. s \in Seq(S \cup {x}) /\ x \in S \cup {x}
    BY SeqMonotonic
  <2> QED  BY <2>1
<1>2. s = [i \in 1..Len(s) |-> s[i]]
  OBVIOUS
<1> HIDE DEF t
<1>3. Front(t) = [i \in 1..Len(s) |-> t[i]]
  BY <1>1 DEF Front
<1> QED  BY <1>1, <1>2, <1>3 DEF t

LEMMA HoldsWhatItIsMadeOf ==
  ASSUME NEW es, AreEntries(es), NEW fs,
         \A i, j \in DOMAIN es : es[i].name = es[j].name => i = j,
         \A i \in DOMAIN es : es[i].name # Damaged.name,
         \A p \in DOMAIN fs : \E i \in DOMAIN es : es[i].name = p /\ es[i].data = fs[p]
  PROVE  ArchiveHolds(Archive(es), fs)
<1>1. Entries(Archive(es)) = Append(es, TrailerEntry)
  BY ArchiveIsRead
<1>2. Front(Entries(Archive(es))) = es
  BY <1>1, FrontOfAppend DEF AreEntries
<1> QED  BY <1>2 DEF ArchiveHolds

LEMMA NamesInArchive ==
  /\ CoreGz # Trailer /\ OrderTxt # Trailer /\ InitName # Trailer
  /\ \A e : Extension(e) # Trailer
  /\ CoreGz # <<>> /\ OrderTxt # <<>> /\ InitName # <<>> /\ Trailer # <<>>
  /\ \A e : Extension(e) # <<>>
  /\ Damaged.name = <<>>
<1>1. Damaged.name = <<>>
  BY DEF Damaged, Entry
<1>2. /\ Len(CoreGz) = 1 /\ Len(OrderTxt) = 2 /\ Len(InitName) = 1 /\ Len(Trailer) = 1
      /\ CoreGz[1] = "core.gz" /\ InitName[1] = "init" /\ Trailer[1] = "TRAILER!!!"
      /\ \A e : Len(Extension(e)) = 2
  BY DEF CoreGz, OrderTxt, InitName, Trailer, Extension
<1>3. Len(<<>>) = 0
  OBVIOUS
<1>4. "core.gz" # "TRAILER!!!" /\ "init" # "TRAILER!!!"
  OBVIOUS
<1> HIDE DEF CoreGz, OrderTxt, InitName, Trailer, Extension
<1>5. /\ CoreGz # Trailer /\ OrderTxt # Trailer /\ InitName # Trailer
      /\ \A e : Extension(e) # Trailer
  BY <1>2, <1>4
<1>6. /\ CoreGz # <<>> /\ OrderTxt # <<>> /\ InitName # <<>> /\ Trailer # <<>>
      /\ \A e : Extension(e) # <<>>
  BY <1>2, <1>3
<1> QED  BY <1>1, <1>5, <1>6

LEMMA ArchiveOfHolds ==
  ASSUME NEW fs, HoldsOrder(fs),
         DOMAIN fs = {CoreGz, OrderTxt} \cup {Extension(e) : e \in ToSet(fs[OrderTxt].names)}
  PROVE  ArchiveHolds(ArchiveOf(fs), fs)
<1> DEFINE names == fs[OrderTxt].names
           all == Listed(fs)
           n == Len(names) + 2
           entry(p) == Entry(p, NameSize[Last(p)], fs[p], fs[p].body + 2)
           first == Entry(InitName, 5, Program, 7)
           tail == [i \in DOMAIN all |-> entry(all[i])]
           es == <<first>> \o tail
<1>1. /\ n \in Nat /\ n >= 2 /\ n - 2 = Len(names)
      /\ DOMAIN all = 1..n /\ all[1] = CoreGz /\ all[2] = OrderTxt
      /\ \A i \in 3..n : /\ all[i] = Extension(names[i - 2])
                         /\ names[i - 2] \in Ext /\ names[i - 2] \in ToSet(names)
      /\ \A e \in ToSet(names) : \E i \in 3..n : all[i] = Extension(e)
      /\ \A i, j \in 1..n : all[i] = all[j] => i = j
  <2>1. Len(names) \in Nat
    BY ListedFacts
  <2>2. n \in Nat /\ n >= 2 /\ n - 2 = Len(names)
    BY <2>1
  <2> QED  BY <2>2, ListedFacts
<1>2. ASSUME NEW i \in 1..n PROVE i = 1 \/ i = 2 \/ i \in 3..n
  BY <1>1
<1>3. ArchiveOf(fs) = Archive(es)
  BY DEF ArchiveOf
<1>4. ASSUME NEW p, NameSize[Last(p)] \in Nat, fs[p].body \in File
      PROVE  IsEntry(entry(p)) /\ entry(p).name = p /\ entry(p).data = fs[p]
  <2>1. fs[p].body + 2 \in Nat
    <3>1. \A x \in File : x + 2 \in Nat
      <4>1. File = {0, -1} \cup 1..MaxVersion /\ MaxVersion \in Nat
        BY ResolverAssumption DEF File, Absent, Torn
      <4> QED  BY <4>1
    <3> HIDE DEF entry, all, names, n
    <3> QED  BY <1>4, <3>1
  <2> QED  BY <1>4, <2>1 DEF IsEntry, Entry
<1>5. IsEntry(first) /\ first.name = InitName
  BY DEF IsEntry, Entry
<1>6. ASSUME NEW i \in 1..n
      PROVE  /\ IsEntry(entry(all[i])) /\ entry(all[i]).name = all[i]
             /\ entry(all[i]).data = fs[all[i]]
             /\ all[i] # Trailer /\ all[i] # <<>> /\ all[i] # InitName
  <2>1. CASE i = 1
    <3>1. NameSize[Last(CoreGz)] \in Nat
      <4>1. Last(CoreGz) = "core.gz"
        BY DEF CoreGz, Last
      <4> QED  BY <4>1, MediaAssumption DEF PlainNames
    <3>2. fs[CoreGz].body \in File
      <4>1. fs[CoreGz].body = 1
        BY DEF HoldsOrder, Program, Holding
      <4> QED  BY <4>1, ResolverAssumption DEF File
    <3> HIDE DEF entry
    <3> QED  BY <1>1, <1>4, <2>1, <3>1, <3>2, NamesInArchive, PathsDiffer
  <2>2. CASE i = 2
    <3>1. NameSize[Last(OrderTxt)] \in Nat
      <4>1. Last(OrderTxt) = "desktop-load-order.txt"
        BY DEF OrderTxt, Last
      <4> QED  BY <4>1, MediaAssumption DEF PlainNames
    <3>2. fs[OrderTxt].body \in File
      <4>1. fs[OrderTxt] = Holding(names, 1)
        BY DEF HoldsOrder
      <4>2. fs[OrderTxt].body = 1
        BY <4>1 DEF Holding
      <4> QED  BY <4>2, ResolverAssumption DEF File
    <3> HIDE DEF entry
    <3> QED  BY <1>1, <1>4, <2>2, <3>1, <3>2, NamesInArchive, PathsDiffer
  <2>3. CASE i \in 3..n
    <3>1. PICK e \in Ext : e \in ToSet(names) /\ all[i] = Extension(e)
      BY <1>1, <2>3
    <3>2. NameSize[Last(Extension(e))] \in Nat
      <4>1. Last(Extension(e)) = e
        BY DEF Extension, Last
      <4> QED  BY <4>1, MediaAssumption
    <3>3. fs[Extension(e)].body \in File
      BY <3>1 DEF HoldsOrder
    <3> HIDE DEF entry
    <3> QED  BY <1>4, <3>1, <3>2, <3>3, NamesInArchive, PathsDiffer
  <2> QED  BY <1>2, <2>1, <2>2, <2>3
<1>7. tail = [i \in 1..n |-> entry(all[i])]
  BY <1>1
<1> HIDE DEF all, entry, first, n
<1>8. /\ DOMAIN es = 1..(n + 1) /\ Len(es) = n + 1 /\ es[1] = first
      /\ \A i \in 1..n : es[i + 1] = entry(all[i])
      /\ es = [i \in 1..(n + 1) |-> es[i]]
  BY <1>1, <1>7
<1> HIDE DEF es, tail
<1>9. ASSUME NEW k \in 1..(n + 1) PROVE k = 1 \/ (k - 1 \in 1..n /\ es[k] = entry(all[k - 1]))
  <2> SUFFICES ASSUME k # 1 PROVE k - 1 \in 1..n /\ es[k] = entry(all[k - 1])
    OBVIOUS
  <2>1. k - 1 \in 1..n /\ k - 1 + 1 = k
    BY <1>1
  <2> QED  BY <1>8, <2>1
<1>10. \A k \in DOMAIN es : IsEntry(es[k]) /\ es[k].name # Trailer /\ es[k].name # <<>>
  BY <1>5, <1>6, <1>8, <1>9, NamesInArchive
<1>11. AreEntries(es)
  <2>1. \A k \in 1..(n + 1) : es[k] \in ToSet(es)
    BY <1>8 DEF ToSet
  <2>2. es \in Seq(ToSet(es))
    BY <1>1, <1>8, <2>1
  <2> QED  BY <1>10, <2>2 DEF AreEntries
<1>12. ASSUME NEW i \in DOMAIN es, NEW j \in DOMAIN es, es[i].name = es[j].name PROVE i = j
  <2>1. CASE i = 1 /\ j = 1
    BY <2>1
  <2>2. CASE i = 1 /\ j # 1
    BY <1>5, <1>6, <1>8, <1>9, <1>12, <2>2
  <2>3. CASE i # 1 /\ j = 1
    BY <1>5, <1>6, <1>8, <1>9, <1>12, <2>3
  <2>4. CASE i # 1 /\ j # 1
    <3>1. i - 1 \in 1..n /\ j - 1 \in 1..n /\ all[i - 1] = all[j - 1]
      BY <1>6, <1>8, <1>9, <1>12, <2>4
    <3>2. i - 1 = j - 1
      BY <1>1, <3>1
    <3> QED  BY <1>8, <3>2
  <2> QED  BY <2>1, <2>2, <2>3, <2>4
<1>13. ASSUME NEW p \in DOMAIN fs
       PROVE  \E k \in DOMAIN es : es[k].name = p /\ es[k].data = fs[p]
  <2>1. PICK i \in 1..n : all[i] = p
    <3>1. CASE p = CoreGz
      BY <1>1, <3>1
    <3>2. CASE p = OrderTxt
      BY <1>1, <3>2
    <3>3. CASE p \in {Extension(e) : e \in ToSet(names)}
      BY <1>1, <3>3
    <3> QED  BY <3>1, <3>2, <3>3
  <2>2. i + 1 \in 1..(n + 1)
    BY <1>1
  <2>3. es[i + 1].name = p /\ es[i + 1].data = fs[p] /\ i + 1 \in DOMAIN es
    BY <1>6, <1>8, <2>1, <2>2
  <2> QED  BY <2>3
<1>14. ArchiveHolds(Archive(es), fs)
  BY <1>10, <1>11, <1>12, <1>13, HoldsWhatItIsMadeOf, NamesInArchive
<1> QED  BY <1>3, <1>14

(* An init of another size and content in the archive made.                *)
LEMMA ReplacedHolds ==
  ASSUME NEW image, NEW fs, ArchiveHolds(image, fs), Replaceable(image, InitName)
  PROVE  ArchiveHolds(Replaced(image, InitName, NewInit, 10), With(fs, InitName, NewInit))
<1> DEFINE es == Front(Entries(image))
           put(e) == Renewed(e, InitName, NewInit, 10)
           new == [i \in DOMAIN es |-> put(es[i])]
           gs == With(fs, InitName, NewInit)
<1>1. /\ AreEntries(es) /\ image = Archive(es)
      /\ \A i, j \in DOMAIN es : es[i].name = es[j].name => i = j
      /\ \A i \in DOMAIN es : es[i].name # Damaged.name
      /\ \A p \in DOMAIN fs : \E i \in DOMAIN es : es[i].name = p /\ es[i].data = fs[p]
  BY DEF ArchiveHolds
<1> HIDE DEF es
<1>2. \E i \in DOMAIN es : es[i].name = InitName
  <2> DEFINE s == Append(es, TrailerEntry)
             n == Len(es)
  <2>1. Entries(image) = s
    BY <1>1, ArchiveIsRead
  <2>2. InitName \in {e.name : e \in ToSet(s)}
    BY <2>1 DEF Replaceable
  <2>3. PICK e \in ToSet(s) : e.name = InitName
    BY <2>2
  <2>4. PICK k \in DOMAIN s : s[k] = e
    BY <2>3 DEF ToSet
  <2>5. /\ n \in Nat /\ DOMAIN es = 1..n /\ DOMAIN s = 1..(n + 1)
        /\ (\A i \in 1..n : s[i] = es[i]) /\ s[n + 1] = TrailerEntry
    BY <1>1, EndedFacts
  <2>6. k # n + 1
    BY <2>3, <2>4, <2>5, TrailerFacts, NamesInArchive
  <2> HIDE DEF s, n
  <2>7. k \in 1..n
    BY <2>4, <2>5, <2>6
  <2> QED  BY <2>3, <2>4, <2>5, <2>7
<1>3. AreEntries(new) /\ Replaced(image, InitName, NewInit, 10) = Archive(new)
  BY <1>1, ReplacedIsArchive, NamesInArchive
<1>4. ASSUME NEW i \in DOMAIN es
      PROVE  /\ i \in DOMAIN new /\ new[i].name = es[i].name
             /\ es[i].name = InitName => new[i].data = NewInit
             /\ es[i].name # InitName => new[i].data = es[i].data
  <2>1. IsEntry(es[i])
    BY <1>1 DEF AreEntries
  <2>2. new[i] = put(es[i])
    OBVIOUS
  <2>3. 10 \in Nat /\ i \in DOMAIN new
    OBVIOUS
  <2> HIDE DEF new
  <2>4. /\ put(es[i]).name = es[i].name
        /\ es[i].name = InitName => put(es[i]).data = NewInit
        /\ es[i].name # InitName => put(es[i]) = es[i]
    BY <2>1, <2>3, RenewedFacts
  <2> HIDE DEF put
  <2> QED  BY <2>2, <2>3, <2>4
<1>5. DOMAIN new = DOMAIN es
  OBVIOUS
<1>6. ASSUME NEW p \in DOMAIN gs
      PROVE  \E i \in DOMAIN new : new[i].name = p /\ new[i].data = gs[p]
  <2>1. CASE p = InitName
    <3>1. gs[p] = NewInit
      BY <2>1 DEF With
    <3> HIDE DEF new, gs
    <3> QED  BY <1>2, <1>4, <2>1, <3>1
  <2>2. CASE p # InitName
    <3>1. p \in DOMAIN fs /\ gs[p] = fs[p]
      BY <2>2 DEF With
    <3> HIDE DEF new, gs
    <3> QED  BY <1>1, <1>4, <2>2, <3>1
  <2> QED  BY <2>1, <2>2
<1> HIDE DEF new, gs
<1>7. /\ \A i, j \in DOMAIN new : new[i].name = new[j].name => i = j
      /\ \A i \in DOMAIN new : new[i].name # Damaged.name
  BY <1>1, <1>4, <1>5
<1>8. ArchiveHolds(Archive(new), gs)
  BY <1>3, <1>6, <1>7, HoldsWhatItIsMadeOf
<1> QED  BY <1>3, <1>8 DEF gs

LEMMA WithInitHolds ==
  ASSUME NEW fs, HoldsOrder(fs)
  PROVE  HoldsOrder(With(fs, InitName, NewInit))
<1> DEFINE gs == With(fs, InitName, NewInit)
<1>1. \A p \in DOMAIN fs : p # InitName => p \in DOMAIN gs /\ gs[p] = fs[p]
  BY DEF With
<1>2. DOMAIN fs \subseteq DOMAIN gs
  BY DEF With
<1>3. /\ CoreGz # InitName /\ OrderTxt # InitName
      /\ \A e : Extension(e) # InitName
  BY PathsDiffer
<1>4. /\ CoreGz \in DOMAIN fs /\ OrderTxt \in DOMAIN fs
      /\ \A e \in ToSet(fs[OrderTxt].names) : Extension(e) \in DOMAIN fs
  BY DEF HoldsOrder
<1> HIDE DEF gs
<1>5. /\ gs[CoreGz] = fs[CoreGz] /\ gs[OrderTxt] = fs[OrderTxt]
      /\ \A e \in ToSet(fs[OrderTxt].names) : gs[Extension(e)] = fs[Extension(e)]
  BY <1>1, <1>3, <1>4
<1>6. HoldsOrder(gs)
  BY <1>2, <1>5 DEF HoldsOrder
<1> QED  BY <1>6 DEF gs

LEMMA ArchiveReads ==
  ASSUME NEW image, NEW fs, ArchiveHolds(image, fs)
  PROVE  /\ \A p \in DOMAIN fs : Unpacked(image, p, NoFile) = fs[p]
         /\ \A e \in ToSet(Entries(image)) : e.name # Damaged.name
<1> DEFINE es == Front(Entries(image))
<1>1. /\ AreEntries(es) /\ image = Archive(es)
      /\ \A i, j \in DOMAIN es : es[i].name = es[j].name => i = j
      /\ \A i \in DOMAIN es : es[i].name # Damaged.name
      /\ \A p \in DOMAIN fs : \E i \in DOMAIN es : es[i].name = p /\ es[i].data = fs[p]
  BY DEF ArchiveHolds
<1> HIDE DEF es
<1>2. ASSUME NEW p \in DOMAIN fs PROVE Unpacked(image, p, NoFile) = fs[p]
  <2>1. PICK k \in DOMAIN es : es[k].name = p /\ es[k].data = fs[p]
    BY <1>1
  <2>2. Unpacked(Archive(es), es[k].name, NoFile) = es[k].data
    BY <1>1, ArchiveUnpacks
  <2> QED  BY <1>1, <2>1, <2>2
<1>3. ASSUME NEW e \in ToSet(Entries(image)) PROVE e.name # Damaged.name
  <2> DEFINE s == Append(es, TrailerEntry)
             n == Len(es)
  <2>1. Entries(image) = s
    BY <1>1, ArchiveIsRead
  <2>2. PICK k \in DOMAIN s : s[k] = e
    BY <2>1 DEF ToSet
  <2>3. /\ n \in Nat /\ DOMAIN es = 1..n /\ DOMAIN s = 1..(n + 1)
        /\ (\A i \in 1..n : s[i] = es[i]) /\ s[n + 1] = TrailerEntry
    BY <1>1, EndedFacts
  <2> HIDE DEF s, n
  <2>4. CASE k = n + 1
    BY <2>2, <2>3, <2>4, TrailerFacts, NamesInArchive
  <2>5. CASE k # n + 1
    <3>1. k \in 1..n
      BY <2>2, <2>3, <2>5
    <3> QED  BY <1>1, <2>2, <2>3, <3>1
  <2> QED  BY <2>4, <2>5
<1> QED  BY <1>2, <1>3

-----------------------------------------------------------------------------
(* The overlay of the game disc.                                           *)
LEMMA SmallNames ==
  ASSUME NEW fs, HoldsOrder(fs)
  PROVE  LET names == fs[OrderTxt].names
             all == Listed(fs)
             n == Len(names) + 2
         IN  /\ n \in Nat /\ n >= 2 /\ DOMAIN all = 1..n
             /\ Lower(all[1]) = <<"core.gz">> /\ all[1] = CoreGz
             /\ Lower(all[2]) = <<"tcz", "desktop-load-order.txt">> /\ all[2] = OrderTxt
             /\ \A i \in 3..n : \E e \in ToSet(names) :
                  /\ e \in Ext /\ all[i] = Extension(e) /\ Lower(all[i]) = <<"tcz", LowerCase[e]>>
             /\ \A e \in ToSet(names) : \E i \in 3..n : all[i] = Extension(e)
<1> DEFINE names == fs[OrderTxt].names
           all == Listed(fs)
           n == Len(names) + 2
<1>1. LowerCase["core.gz"] = "core.gz" /\ LowerCase["tcz"] = "tcz"
      /\ LowerCase["desktop-load-order.txt"] = "desktop-load-order.txt"
  BY MediaAssumption DEF PlainNames
<1>2. Lower(CoreGz) = <<"core.gz">>
  BY <1>1 DEF Lower, CoreGz
<1>3. Lower(OrderTxt) = <<"tcz", "desktop-load-order.txt">>
  BY <1>1 DEF Lower, OrderTxt
<1>4. ASSUME NEW e PROVE Lower(Extension(e)) = <<"tcz", LowerCase[e]>>
  BY <1>1 DEF Lower, Extension
<1>5. Len(names) \in Nat
  BY ListedFacts
<1>6. n \in Nat /\ n >= 2
  BY <1>5
<1>7. /\ DOMAIN all = 1..n /\ all[1] = CoreGz /\ all[2] = OrderTxt
      /\ \A i \in 3..n : /\ all[i] = Extension(names[i - 2])
                         /\ names[i - 2] \in Ext /\ names[i - 2] \in ToSet(names)
      /\ \A e \in ToSet(names) : \E i \in 3..n : all[i] = Extension(e)
  BY ListedFacts
<1> HIDE DEF names, all, n
<1>8. \A i \in 3..n : \E e \in ToSet(names) :
        e \in Ext /\ all[i] = Extension(e) /\ Lower(all[i]) = <<"tcz", LowerCase[e]>>
  BY <1>4, <1>7
<1>9. Lower(all[1]) = <<"core.gz">> /\ Lower(all[2]) = <<"tcz", "desktop-load-order.txt">>
  BY <1>2, <1>3, <1>7
<1> QED  BY <1>6, <1>7, <1>8, <1>9 DEF names, all, n

(* Where the files of a disc are, with the payload at its root or in TC.   *)
Roots == {<<>>, <<"tc">>}

LEMMA RootPaths ==
  /\ \A a : <<>> \o <<a>> = <<a>> /\ <<"tc">> \o <<a>> = <<"tc", a>>
  /\ \A a, b : <<>> \o <<a, b>> = <<a, b>> /\ <<"tc">> \o <<a, b>> = <<"tc", a, b>>
<1>1. ASSUME NEW a PROVE <<>> \o <<a>> = <<a>>
  <2>1. <<a>> \in Seq({a})
    OBVIOUS
  <2> QED  BY <2>1, ConcatEmptySeq
<1>2. ASSUME NEW a, NEW b PROVE <<>> \o <<a, b>> = <<a, b>>
  <2>1. <<a, b>> \in Seq({a, b})
    OBVIOUS
  <2> QED  BY <2>1, ConcatEmptySeq
<1>3. ASSUME NEW a PROVE <<"tc">> \o <<a>> = <<"tc", a>>
  <2> DEFINE s == <<"tc">> \o <<a>>
             t == <<"tc", a>>
             S == {"tc", a}
  <2>1. s \in Seq(S) /\ Len(s) = 2 /\ s[1] = "tc" /\ s[2] = a
    <3>1. <<"tc">> \in Seq(S) /\ <<a>> \in Seq(S)
      OBVIOUS
    <3> QED  BY <3>1
  <2>2. t \in Seq(S) /\ Len(t) = 2 /\ t[1] = "tc" /\ t[2] = a
    OBVIOUS
  <2> HIDE DEF s, t, S
  <2>3. s = t
    BY <2>1, <2>2, SeqDef
  <2> QED  BY <2>3 DEF s, t
<1>4. ASSUME NEW a, NEW b PROVE <<"tc">> \o <<a, b>> = <<"tc", a, b>>
  <2> DEFINE s == <<"tc">> \o <<a, b>>
             t == <<"tc", a, b>>
             S == {"tc", a, b}
  <2>1. s \in Seq(S) /\ Len(s) = 3 /\ s[1] = "tc" /\ s[2] = a /\ s[3] = b
    <3>1. <<"tc">> \in Seq(S) /\ <<a, b>> \in Seq(S)
      OBVIOUS
    <3> QED  BY <3>1
  <2>2. t \in Seq(S) /\ Len(t) = 3 /\ t[1] = "tc" /\ t[2] = a /\ t[3] = b
    OBVIOUS
  <2> HIDE DEF s, t, S
  <2>3. s = t
    BY <2>1, <2>2, SeqDef
  <2> QED  BY <2>3 DEF s, t
<1> QED  BY <1>1, <1>2, <1>3, <1>4

FileAt(i) == [sector |-> FirstFileSector + i, size |-> 1]

LEMMA ExtentPaths ==
  ASSUME NEW fs, NEW root
  PROVE  DOMAIN Extents(fs, root) = {root \o Lower(Listed(fs)[i]) : i \in DOMAIN Listed(fs)}
BY DEF Extents, ToSet

LEMMA ExtentIs ==
  ASSUME NEW fs, NEW root, NEW q \in DOMAIN Extents(fs, root)
  PROVE  \E i \in DOMAIN Listed(fs) :
           q = root \o Lower(Listed(fs)[i]) /\ Extents(fs, root)[q] = FileAt(i)
<1> DEFINE all == Listed(fs)
           names == [i \in DOMAIN all |-> root \o Lower(all[i])]
           at == CHOOSE i \in DOMAIN all : names[i] = q
<1>1. q \in ToSet(names) /\ Extents(fs, root)[q] = FileAt(at)
  BY DEF Extents, FileAt
<1>2. \E i \in DOMAIN all : names[i] = q
  BY <1>1 DEF ToSet
<1>3. at \in DOMAIN all /\ names[at] = q
  BY <1>2
<1> HIDE DEF at
<1>4. q = root \o Lower(all[at])
  BY <1>3
<1> QED  BY <1>1, <1>3, <1>4

LEMMA HeadsOfTuples ==
  /\ \A a : Len(<<a>>) = 1 /\ SubSeq(<<a>>, 1, 0) = <<>>
  /\ \A a, b : /\ Len(<<a, b>>) = 2
               /\ SubSeq(<<a, b>>, 1, 0) = <<>> /\ SubSeq(<<a, b>>, 1, 1) = <<a>>
  /\ \A a, b, c : /\ Len(<<a, b, c>>) = 3
                  /\ SubSeq(<<a, b, c>>, 1, 0) = <<>> /\ SubSeq(<<a, b, c>>, 1, 1) = <<a>>
                  /\ SubSeq(<<a, b, c>>, 1, 2) = <<a, b>>
<1>1. \A s : SubSeq(s, 1, 0) = <<>>
  BY SubSeqEmpty
<1>2. ASSUME NEW a, NEW b PROVE SubSeq(<<a, b>>, 1, 1) = <<a>>
  <2> DEFINE s == SubSeq(<<a, b>>, 1, 1)
             t == <<a>>
             S == {a, b}
  <2>1. s \in Seq(S) /\ Len(s) = 1 /\ s[1] = a
    <3>1. <<a, b>> \in Seq(S) /\ Len(<<a, b>>) = 2
      OBVIOUS
    <3> QED  BY <3>1
  <2>2. t \in Seq(S) /\ Len(t) = 1 /\ t[1] = a
    OBVIOUS
  <2> HIDE DEF s, t, S
  <2>3. s = t
    BY <2>1, <2>2, SeqDef
  <2> QED  BY <2>3 DEF s, t
<1>3. ASSUME NEW a, NEW b, NEW c
      PROVE  SubSeq(<<a, b, c>>, 1, 1) = <<a>> /\ SubSeq(<<a, b, c>>, 1, 2) = <<a, b>>
  <2> DEFINE s == SubSeq(<<a, b, c>>, 1, 1)
             r == SubSeq(<<a, b, c>>, 1, 2)
             t == <<a>>
             u == <<a, b>>
             S == {a, b, c}
  <2>0. <<a, b, c>> \in Seq(S) /\ Len(<<a, b, c>>) = 3
    OBVIOUS
  <2>1. s \in Seq(S) /\ Len(s) = 1 /\ s[1] = a
    BY <2>0
  <2>2. r \in Seq(S) /\ Len(r) = 2 /\ r[1] = a /\ r[2] = b
    BY <2>0
  <2>3. t \in Seq(S) /\ Len(t) = 1 /\ t[1] = a
    OBVIOUS
  <2>4. u \in Seq(S) /\ Len(u) = 2 /\ u[1] = a /\ u[2] = b
    OBVIOUS
  <2> HIDE DEF s, t, r, u, S
  <2>5. s = t
    BY <2>1, <2>3, SeqDef
  <2>6. r = u
    BY <2>2, <2>4, SeqDef
  <2> QED  BY <2>5, <2>6 DEF s, t, r, u
<1>4. /\ \A a : Len(<<a>>) = 1
      /\ \A a, b : Len(<<a, b>>) = 2
      /\ \A a, b, c : Len(<<a, b, c>>) = 3
  OBVIOUS
<1> QED  BY <1>1, <1>2, <1>3, <1>4

(* The paths of a disc; only these are ever directories.                   *)
DiscDirectories == {<<>>, <<"tcz">>, <<"tc">>, <<"tc", "tcz">>}

IsDiscPath(q) ==
  \/ q = <<"core.gz">> \/ q = <<"tc", "core.gz">>
  \/ \E x \in ToSet(NameOrder) : q = <<"tcz", x>> \/ q = <<"tc", "tcz", x>>

LEMMA DiscPathFacts ==
  ASSUME NEW q, IsDiscPath(q)
  PROVE  /\ q \in Paths /\ q \notin DiscDirectories
         /\ \A n \in 0..(Len(q) - 1) : SubSeq(q, 1, n) \in DiscDirectories
<1> DEFINE S == ToSet(NameOrder)
<1>1. "tc" \in S /\ "tcz" \in S /\ "core.gz" \in S
  BY MediaAssumption DEF PlainNames
<1>2. "core.gz" # "tcz" /\ "core.gz" # "tc" /\ "tc" # "tcz"
  OBVIOUS
<1> HIDE DEF S
<1>3. CASE q = <<"core.gz">>
  <2>1. q \in Seq(S)
    BY <1>1, <1>3
  <2>2. Len(q) = 1 /\ q # <<>> /\ q[1] = "core.gz"
    BY <1>3
  <2>3. \A n \in 0..(Len(q) - 1) : n = 0
    BY <2>2
  <2>4. \A n \in 0..(Len(q) - 1) : SubSeq(q, 1, n) = <<>>
    BY <1>3, <2>3, HeadsOfTuples
  <2>5. q \notin DiscDirectories
    BY <1>2, <1>3 DEF DiscDirectories
  <2> QED  BY <2>1, <2>4, <2>5 DEF Paths, S, DiscDirectories
<1>4. CASE q = <<"tc", "core.gz">>
  <2>1. q \in Seq(S)
    BY <1>1, <1>4
  <2>2. Len(q) = 2
    BY <1>4
  <2>3. \A n \in 0..(Len(q) - 1) : n = 0 \/ n = 1
    BY <2>2
  <2>4. \A n \in 0..(Len(q) - 1) : SubSeq(q, 1, n) = <<>> \/ SubSeq(q, 1, n) = <<"tc">>
    BY <1>4, <2>3, HeadsOfTuples
  <2>5. q \notin DiscDirectories
    BY <1>2, <1>4 DEF DiscDirectories
  <2> QED  BY <2>1, <2>4, <2>5 DEF Paths, S, DiscDirectories
<1>5. ASSUME NEW x \in S, q = <<"tcz", x>>
      PROVE  /\ q \in Paths /\ q \notin DiscDirectories
             /\ \A n \in 0..(Len(q) - 1) : SubSeq(q, 1, n) \in DiscDirectories
  <2>1. q \in Seq(S)
    BY <1>1, <1>5
  <2>2. Len(q) = 2
    BY <1>5
  <2>3. \A n \in 0..(Len(q) - 1) : n = 0 \/ n = 1
    BY <2>2
  <2>4. \A n \in 0..(Len(q) - 1) : SubSeq(q, 1, n) = <<>> \/ SubSeq(q, 1, n) = <<"tcz">>
    BY <1>5, <2>3, HeadsOfTuples
  <2>5. q \notin DiscDirectories
    BY <1>2, <1>5 DEF DiscDirectories
  <2> QED  BY <2>1, <2>4, <2>5 DEF Paths, S, DiscDirectories
<1>6. ASSUME NEW x \in S, q = <<"tc", "tcz", x>>
      PROVE  /\ q \in Paths /\ q \notin DiscDirectories
             /\ \A n \in 0..(Len(q) - 1) : SubSeq(q, 1, n) \in DiscDirectories
  <2>1. q \in Seq(S)
    BY <1>1, <1>6
  <2>2. Len(q) = 3
    BY <1>6
  <2>3. \A n \in 0..(Len(q) - 1) : n = 0 \/ n = 1 \/ n = 2
    BY <2>2
  <2>4. \A n \in 0..(Len(q) - 1) :
          SubSeq(q, 1, n) = <<>> \/ SubSeq(q, 1, n) = <<"tc">> \/ SubSeq(q, 1, n) = <<"tc", "tcz">>
    BY <1>6, <2>3, HeadsOfTuples
  <2>5. q \notin DiscDirectories
    BY <1>2, <1>6 DEF DiscDirectories
  <2> QED  BY <2>1, <2>4, <2>5 DEF Paths, S, DiscDirectories
<1> QED  BY <1>3, <1>4, <1>5, <1>6 DEF IsDiscPath, S

LEMMA DiscPaths ==
  ASSUME NEW fs, HoldsOrder(fs), NEW root \in Roots, NEW q \in DOMAIN Extents(fs, root)
  PROVE  IsDiscPath(q)
<1> DEFINE all == Listed(fs)
           n == Len(fs[OrderTxt].names) + 2
<1>1. PICK i \in DOMAIN all : q = root \o Lower(all[i])
  BY ExtentIs
<1>2. n \in Nat /\ n >= 2 /\ i \in 1..n
  BY <1>1, SmallNames
<1>3. ASSUME NEW e \in Ext PROVE LowerCase[e] \in ToSet(NameOrder)
  BY MediaAssumption
<1>4. \/ Lower(all[i]) = <<"core.gz">>
      \/ \E x \in ToSet(NameOrder) : Lower(all[i]) = <<"tcz", x>>
  <2>1. CASE i = 1
    BY <2>1, SmallNames
  <2>2. CASE i = 2
    <3>1. Lower(all[2]) = <<"tcz", "desktop-load-order.txt">>
      BY SmallNames
    <3>2. "desktop-load-order.txt" \in ToSet(NameOrder)
      BY MediaAssumption DEF PlainNames
    <3> HIDE DEF all
    <3> QED  BY <2>2, <3>1, <3>2
  <2>3. CASE i \in 3..n
    <3>1. \E e \in Ext : Lower(all[i]) = <<"tcz", LowerCase[e]>>
      BY <2>3, SmallNames
    <3> HIDE DEF all
    <3> QED  BY <1>3, <3>1
  <2>4. i = 1 \/ i = 2 \/ i \in 3..n
    <3> HIDE DEF n
    <3> QED  BY <1>2
  <2> QED  BY <2>1, <2>2, <2>3, <2>4
<1>5. CASE Lower(all[i]) = <<"core.gz">>
  <2>1. q = <<"core.gz">> \/ q = <<"tc", "core.gz">>
    <3>1. q = root \o <<"core.gz">>
      BY <1>1, <1>5
    <3> QED  BY <3>1, RootPaths DEF Roots
  <2> QED  BY <2>1 DEF IsDiscPath
<1>6. ASSUME NEW x \in ToSet(NameOrder), Lower(all[i]) = <<"tcz", x>> PROVE IsDiscPath(q)
  <2>1. q = <<"tcz", x>> \/ q = <<"tc", "tcz", x>>
    <3>1. q = root \o <<"tcz", x>>
      BY <1>1, <1>6
    <3> QED  BY <3>1, RootPaths DEF Roots
  <2> QED  BY <2>1 DEF IsDiscPath
<1> QED  BY <1>4, <1>5, <1>6

LEMMA DiscIsLayable ==
  ASSUME NEW fs, HoldsOrder(fs), NEW root \in Roots
  PROVE  Layable(Extents(fs, root))
<1> DEFINE extents == Extents(fs, root)
           dirs == Directories(extents)
<1>1. \A q \in DOMAIN extents : IsDiscPath(q)
  BY DiscPaths
<1>0. DOMAIN extents = {root \o Lower(Listed(fs)[i]) : i \in DOMAIN Listed(fs)}
  BY ExtentPaths
<1>2. dirs \subseteq DiscDirectories
  <2> SUFFICES ASSUME NEW d \in dirs PROVE d \in DiscDirectories
    OBVIOUS
  <2>1. PICK q \in DOMAIN extents : \E n \in 0..(Len(q) - 1) : d = SubSeq(q, 1, n)
    BY DEF Directories
  <2>2. IsDiscPath(q)
    BY <1>1
  <2> HIDE DEF extents, dirs
  <2> QED  BY <2>1, <2>2, DiscPathFacts
<1>3. DOMAIN extents \cap dirs = {}
  BY <1>1, <1>2, DiscPathFacts
<1>4. DOMAIN extents \subseteq Paths \ {<<>>}
  BY <1>1, DiscPathFacts DEF DiscDirectories
<1>5. IsFiniteSet(dirs) /\ Cardinality(dirs) <= 12
  <2> DEFINE D0 == {}
             D1 == D0 \cup {<<>>}
             D2 == D1 \cup {<<"tcz">>}
             D3 == D2 \cup {<<"tc">>}
             D4 == D3 \cup {<<"tc", "tcz">>}
  <2>1. IsFiniteSet(D0) /\ Cardinality(D0) = 0
    BY FS_EmptySet
  <2>2. IsFiniteSet(D1) /\ Cardinality(D1) \in 0..1
    <3> HIDE DEF D0
    <3>1. /\ IsFiniteSet(D1)
          /\ Cardinality(D1) = IF <<>> \in D0 THEN Cardinality(D0) ELSE Cardinality(D0) + 1
      BY <2>1, FS_AddElement
    <3> HIDE DEF D1
    <3> QED  BY <2>1, <3>1
  <2>3. IsFiniteSet(D2) /\ Cardinality(D2) \in 0..2
    <3> HIDE DEF D1
    <3>1. /\ IsFiniteSet(D2)
          /\ Cardinality(D2) = IF <<"tcz">> \in D1 THEN Cardinality(D1) ELSE Cardinality(D1) + 1
      BY <2>2, FS_AddElement
    <3> HIDE DEF D2
    <3> QED  BY <2>2, <3>1
  <2>4. IsFiniteSet(D3) /\ Cardinality(D3) \in 0..3
    <3> HIDE DEF D2
    <3>1. /\ IsFiniteSet(D3)
          /\ Cardinality(D3) = IF <<"tc">> \in D2 THEN Cardinality(D2) ELSE Cardinality(D2) + 1
      BY <2>3, FS_AddElement
    <3> HIDE DEF D3
    <3> QED  BY <2>3, <3>1
  <2>5. IsFiniteSet(D4) /\ Cardinality(D4) \in 0..4
    <3> HIDE DEF D3
    <3>1. /\ IsFiniteSet(D4)
          /\ Cardinality(D4) = IF <<"tc", "tcz">> \in D3 THEN Cardinality(D3)
                             ELSE Cardinality(D3) + 1
      BY <2>4, FS_AddElement
    <3> HIDE DEF D4
    <3> QED  BY <2>4, <3>1
  <2>6. dirs \in SUBSET D4
    BY <1>2 DEF DiscDirectories
  <2> HIDE DEF D4, dirs
  <2>7. IsFiniteSet(dirs) /\ Cardinality(dirs) <= Cardinality(D4)
    BY <2>5, <2>6, FS_Subset
  <2>8. Cardinality(dirs) \in Nat
    BY <2>7, FS_CardinalityType
  <2> QED  BY <2>5, <2>7, <2>8
<1>6. ASSUME NEW q \in DOMAIN extents
      PROVE  Occupied(extents[q]) \cap ({18} \cup 21..31) = {}
  <2>1. PICK i \in DOMAIN Listed(fs) : extents[q] = FileAt(i)
    BY ExtentIs
  <2>2. i \in Nat
    <3>1. DOMAIN Listed(fs) = 1..(Len(fs[OrderTxt].names) + 2)
      BY SmallNames
    <3> QED  BY <2>1, <3>1
  <2>3. extents[q].sector = 40 + i /\ extents[q].size = 1
    BY <2>1 DEF FileAt, FirstFileSector
  <2> HIDE DEF extents
  <2>4. Occupied(extents[q]) = (40 + i)..(40 + i)
    BY <2>2, <2>3 DEF Occupied
  <2> QED  BY <2>2, <2>4
<1>7. DOMAIN extents # {}
  <2>1. 1 \in DOMAIN Listed(fs)
    <3>1. /\ Len(fs[OrderTxt].names) + 2 \in Nat /\ Len(fs[OrderTxt].names) + 2 >= 2
          /\ DOMAIN Listed(fs) = 1..(Len(fs[OrderTxt].names) + 2)
      BY SmallNames
    <3> QED  BY <3>1
  <2>2. root \o Lower(Listed(fs)[1]) \in DOMAIN extents
    <3> HIDE DEF extents
    <3> QED  BY <1>0, <2>1
  <2> QED  BY <2>2
<1> HIDE DEF extents, dirs
<1> QED  BY <1>3, <1>4, <1>5, <1>6, <1>7 DEF Layable, extents, dirs

LEMMA RootCancels ==
  ASSUME NEW root \in Roots
  PROVE  /\ \A a, b : root \o <<a>> = root \o <<b>> => a = b
         /\ \A a, b, c : root \o <<a>> # root \o <<b, c>>
         /\ \A a, b, c, d : root \o <<a, b>> = root \o <<c, d>> => a = c /\ b = d
<1>1. CASE root = <<>>
  BY <1>1, RootPaths
<1>2. CASE root = <<"tc">>
  <2>1. \A a, b : <<"tc", a>> = <<"tc", b>> => a = b
    OBVIOUS
  <2>2. \A a, b, c : <<"tc", a>> # <<"tc", b, c>>
    OBVIOUS
  <2>3. \A a, b, c, d : <<"tc", a, b>> = <<"tc", c, d>> => a = c /\ b = d
    OBVIOUS
  <2>4. \A a, b : root \o <<a>> = root \o <<b>> => a = b
    BY <1>2, <2>1, RootPaths
  <2>5. \A a, b, c : root \o <<a>> # root \o <<b, c>>
    BY <1>2, <2>2, RootPaths
  <2>6. \A a, b, c, d : root \o <<a, b>> = root \o <<c, d>> => a = c /\ b = d
    BY <1>2, <2>3, RootPaths
  <2> QED  BY <2>4, <2>5, <2>6
<1> QED  BY <1>1, <1>2 DEF Roots

LEMMA GameReads ==
  ASSUME MadeInv, stage = "made", medium.kind = "game", NEW p,
         medium.root \o p \in DOMAIN Extents(medium.files, medium.root)
  PROVE  \E i \in DOMAIN Listed(medium.files) :
           /\ medium.root \o p = medium.root \o Lower(Listed(medium.files)[i])
           /\ Read(p) = medium.files[Listed(medium.files)[i]]
<1> DEFINE fs == medium.files
           root == medium.root
           extents == Extents(fs, root)
           q == root \o p
<1>1. HoldsOrder(fs) /\ root \in Roots /\ medium.image = Overlay(extents)
  BY DEF MadeInv, Roots
<1>2. Layable(extents) /\ q \notin Directories(extents)
  <2>1. Layable(extents)
    BY <1>1, DiscIsLayable
  <2> QED  BY <2>1 DEF Layable
<1>3. Lookup(medium.image, q) = Record(extents, q)
  BY <1>1, <1>2, LookupFinds
<1>4. PICK i \in DOMAIN Listed(fs) : q = root \o Lower(Listed(fs)[i]) /\ extents[q] = FileAt(i)
  <2>1. ASSUME NEW x \in DOMAIN extents
        PROVE  \E i \in DOMAIN Listed(fs) :
                 x = root \o Lower(Listed(fs)[i]) /\ extents[x] = FileAt(i)
    <3> HIDE DEF fs, root
    <3> QED  BY ExtentIs
  <2>2. q \in DOMAIN extents
    OBVIOUS
  <2> HIDE DEF extents, q, fs, root
  <2> QED  BY <2>1, <2>2
<1>5. /\ ~ Lookup(medium.image, q).isDir
      /\ Lookup(medium.image, q).sector = FirstFileSector + i
  BY <1>2, <1>3, <1>4 DEF Record, FileAt
<1>6. i \in Int
  <2>1. DOMAIN Listed(fs) = 1..(Len(fs[OrderTxt].names) + 2)
    BY <1>1, ListedFacts
  <2> QED  BY <1>4, <2>1
<1>7. Read(p) = fs[Listed(fs)[i]]
  <2> DEFINE r == Lookup(medium.image, q)
             k == r.sector - FirstFileSector
  <2>1. Read(p) = IF r.isDir \/ k \notin DOMAIN Listed(fs) THEN NoFile ELSE fs[Listed(fs)[k]]
    BY DEF Read
  <2>2. k = i /\ ~ r.isDir
    <3>1. r.sector = FirstFileSector + i /\ ~ r.isDir
      BY <1>5
    <3> HIDE DEF r
    <3>2. k = (40 + i) - 40
      BY <3>1 DEF FirstFileSector
    <3>3. (40 + i) - 40 = i
      BY <1>6
    <3> QED  BY <3>1, <3>2, <3>3
  <2> HIDE DEF r, k, fs
  <2> QED  BY <1>4, <2>1, <2>2
<1> QED  BY <1>4, <1>7

LEMMA GameIsRead ==
  ASSUME MadeInv, stage = "made", medium.kind = "game"
  PROVE  LET names == medium.files[OrderTxt].names
         IN  /\ Read(CoreGz) = Program /\ Read(OrderTxt) = Holding(names, 1)
             /\ \A e \in ToSet(names) : Read(Extension(LowerCase[e])).body # Absent
<1> DEFINE fs == medium.files
           root == medium.root
           names == fs[OrderTxt].names
           all == Listed(fs)
           n == Len(names) + 2
<1>1. /\ HoldsOrder(fs) /\ root \in Roots
      /\ fs[CoreGz] = Program /\ fs[OrderTxt] = Holding(names, 1)
      /\ \A e \in ToSet(names) : fs[Extension(e)].body # Absent
  BY DEF MadeInv, HoldsOrder, Roots
<1>2. /\ n \in Nat /\ n >= 2 /\ DOMAIN all = 1..n
      /\ Lower(all[1]) = <<"core.gz">> /\ all[1] = CoreGz
      /\ Lower(all[2]) = <<"tcz", "desktop-load-order.txt">> /\ all[2] = OrderTxt
      /\ \A i \in 3..n : \E e \in ToSet(names) :
           /\ e \in Ext /\ all[i] = Extension(e) /\ Lower(all[i]) = <<"tcz", LowerCase[e]>>
      /\ \A e \in ToSet(names) : \E i \in 3..n : all[i] = Extension(e)
  BY <1>1, SmallNames
<1>3. DOMAIN Extents(fs, root) = {root \o Lower(all[i]) : i \in DOMAIN all}
  BY ExtentPaths
<1>4. \A i : i \in 1..n <=> i = 1 \/ i = 2 \/ i \in 3..n
  <2> HIDE DEF n, all, fs
  <2> QED  BY <1>2
<1>5. ASSUME NEW p, NEW k \in 1..n, p = Lower(all[k])
      PROVE  \E i \in 1..n : root \o p = root \o Lower(all[i]) /\ Read(p) = fs[all[i]]
  <2>1. root \o p \in DOMAIN Extents(fs, root)
    BY <1>2, <1>3, <1>5
  <2> QED  BY <1>2, <2>1, GameReads
<1>6. "core.gz" # "tcz"
  OBVIOUS
<1>7. \A e \in Ext : LowerCase[e] # "desktop-load-order.txt"
  BY MediaAssumption DEF PlainNames
<1> HIDE DEF fs, root, names, all, n
<1>8. Read(CoreGz) = Program
  <2>1. PICK i \in 1..n : /\ root \o <<"core.gz">> = root \o Lower(all[i])
                          /\ Read(<<"core.gz">>) = fs[all[i]]
    BY <1>2, <1>4, <1>5
  <2>2. i = 1
    BY <1>1, <1>2, <1>4, <2>1, RootCancels
  <2> QED  BY <1>1, <1>2, <2>1, <2>2 DEF CoreGz
<1>9. Read(OrderTxt) = Holding(names, 1)
  <2>1. PICK i \in 1..n :
          /\ root \o <<"tcz", "desktop-load-order.txt">> = root \o Lower(all[i])
          /\ Read(<<"tcz", "desktop-load-order.txt">>) = fs[all[i]]
    BY <1>2, <1>4, <1>5
  <2>2. i # 1
    BY <1>1, <1>2, <2>1, RootCancels
  <2>3. i \notin 3..n
    <3> SUFFICES ASSUME i \in 3..n PROVE FALSE
      OBVIOUS
    <3>1. PICK e \in Ext : Lower(all[i]) = <<"tcz", LowerCase[e]>>
      BY <1>2
    <3>2. root \o <<"tcz", "desktop-load-order.txt">> = root \o <<"tcz", LowerCase[e]>>
      BY <2>1, <3>1
    <3> QED  BY <1>1, <1>7, <3>2, RootCancels
  <2>4. i = 2
    BY <1>4, <2>2, <2>3
  <2> QED  BY <1>1, <1>2, <2>1, <2>4 DEF OrderTxt
<1>10. ASSUME NEW e \in ToSet(names) PROVE Read(Extension(LowerCase[e])).body # Absent
  <2>1. PICK k \in 3..n : all[k] = Extension(e)
    BY <1>2
  <2>2. e \in Ext /\ Lower(all[k]) = <<"tcz", LowerCase[e]>>
    <3>1. PICK d \in ToSet(names) :
            d \in Ext /\ all[k] = Extension(d) /\ Lower(all[k]) = <<"tcz", LowerCase[d]>>
      BY <1>2
    <3>2. d = e
      BY <2>1, <3>1, PathsDiffer
    <3> QED  BY <3>1, <3>2
  <2>3. PICK i \in 1..n : /\ root \o <<"tcz", LowerCase[e]>> = root \o Lower(all[i])
                          /\ Read(<<"tcz", LowerCase[e]>>) = fs[all[i]]
    BY <1>4, <1>5, <2>2
  <2>4. i # 1
    <3> SUFFICES ASSUME i = 1 PROVE FALSE
      OBVIOUS
    <3>1. root \o <<"tcz", LowerCase[e]>> = root \o <<"core.gz">>
      BY <1>2, <2>3
    <3>2. \A a, b, c : root \o <<a>> # root \o <<b, c>>
      BY <1>1, RootCancels
    <3> QED  BY <3>1, <3>2
  <2>5. i # 2
    <3> SUFFICES ASSUME i = 2 PROVE FALSE
      OBVIOUS
    <3>1. root \o <<"tcz", LowerCase[e]>> = root \o <<"tcz", "desktop-load-order.txt">>
      BY <1>2, <2>3
    <3> QED  BY <1>1, <1>7, <2>2, <3>1, RootCancels
  <2>6. i \in 3..n
    BY <1>4, <2>4, <2>5
  <2>7. \E d \in ToSet(names) : all[i] = Extension(d)
    BY <1>2, <2>6
  <2> QED  BY <1>1, <2>3, <2>7 DEF Extension
<1> QED  BY <1>8, <1>9, <1>10 DEF fs, names

(* Of a medium made, of whatever kind, a reader gets Tiny Core, the order, *)
(* and a file for each of its names.                                       *)
LEMMA MediumIsRead ==
  ASSUME MadeInv, stage = "made"
  PROVE  LET names == medium.files[OrderTxt].names
         IN  /\ names \in Seq(Ext) /\ IsInjective(names)
             /\ Read(CoreGz) = Program /\ Read(OrderTxt) = Holding(names, 1)
             /\ \A e \in ToSet(names) : \/ Read(Extension(e)).body # Absent
                                        \/ Read(Extension(LowerCase[e])).body # Absent
<1> DEFINE fs == medium.files
           names == fs[OrderTxt].names
<1>1. /\ names \in Seq(Ext) /\ IsInjective(names)
      /\ {CoreGz, OrderTxt} \cup {Extension(e) : e \in ToSet(names)} \subseteq DOMAIN fs
      /\ fs[CoreGz] = Program /\ fs[OrderTxt] = Holding(names, 1)
      /\ \A e \in ToSet(names) : fs[Extension(e)].body # Absent
  BY DEF MadeInv, HoldsOrder
<1>2. CASE medium.kind = "game"
  <2> HIDE DEF fs
  <2>1. /\ Read(CoreGz) = Program /\ Read(OrderTxt) = Holding(names, 1)
        /\ \A e \in ToSet(names) : Read(Extension(LowerCase[e])).body # Absent
    BY <1>2, GameIsRead DEF fs
  <2> HIDE DEF names
  <2>2. /\ names \in Seq(Ext) /\ IsInjective(names)
        /\ Read(CoreGz) = Program /\ Read(OrderTxt) = Holding(names, 1)
        /\ \A e \in ToSet(names) : \/ Read(Extension(e)).body # Absent
                                   \/ Read(Extension(LowerCase[e])).body # Absent
    BY <1>1, <2>1
  <2> QED  BY <2>2 DEF names, fs
<1>3. CASE medium.kind # "game"
  <2>1. ASSUME NEW p \in DOMAIN fs PROVE Read(p) = fs[p]
    <3>1. CASE medium.kind = "embedded"
      <4>1. ArchiveHolds(medium.image, fs)
        BY <3>1 DEF MadeInv
      <4>2. Unpacked(medium.image, p, NoFile) = fs[p]
        BY <4>1, ArchiveReads
      <4>3. "embedded" # "game"
        OBVIOUS
      <4> QED  BY <3>1, <4>2, <4>3 DEF Read
    <3>2. CASE medium.kind # "embedded"
      BY <1>3, <3>2 DEF Read
    <3> QED  BY <3>1, <3>2
  <2> HIDE DEF fs, names
  <2>2. /\ names \in Seq(Ext) /\ IsInjective(names)
        /\ Read(CoreGz) = Program /\ Read(OrderTxt) = Holding(names, 1)
        /\ \A e \in ToSet(names) : \/ Read(Extension(e)).body # Absent
                                   \/ Read(Extension(LowerCase[e])).body # Absent
    BY <1>1, <2>1
  <2> QED  BY <2>2 DEF names, fs
<1> QED  BY <1>2, <1>3

LEMMA MadeIsSound == MadeInv => ArchiveUnpacksWhole /\ OverlayIsSound
<1> SUFFICES ASSUME MadeInv PROVE ArchiveUnpacksWhole /\ OverlayIsSound
  OBVIOUS
<1>1. ASSUME stage = "made", medium.kind = "embedded"
      PROVE  /\ \A p \in DOMAIN medium.files : Read(p) = medium.files[p]
             /\ \A e \in ToSet(Entries(medium.image)) : e.name # Damaged.name
  <2>1. ArchiveHolds(medium.image, medium.files)
    BY <1>1 DEF MadeInv
  <2>2. /\ \A p \in DOMAIN medium.files : Unpacked(medium.image, p, NoFile) = medium.files[p]
        /\ \A e \in ToSet(Entries(medium.image)) : e.name # Damaged.name
    BY <2>1, ArchiveReads
  <2>3. "embedded" # "game"
    OBVIOUS
  <2>4. \A p : Read(p) = Unpacked(medium.image, p, NoFile)
    BY <1>1, <2>3 DEF Read
  <2> QED  BY <2>2, <2>4
<1>2. ASSUME stage = "made", medium.kind = "game"
      PROVE  Sound(medium.image, Extents(medium.files, medium.root))
  <2>1. /\ HoldsOrder(medium.files) /\ medium.root \in Roots
        /\ medium.image = Overlay(Extents(medium.files, medium.root))
    BY <1>2 DEF MadeInv, Roots
  <2> QED  BY <2>1, DiscIsLayable, OverlayIsRead
<1> QED  BY <1>1, <1>2 DEF ArchiveUnpacksWhole, OverlayIsSound

-----------------------------------------------------------------------------
(* The builders, on what the runs of the resolver leave.                   *)
OrderReady ==
  /\ order.names \in Seq(Ext \cup {Cut}) /\ IsInjective(order.names)
  /\ tcz \in [Ext -> File]

LEMMA CompleteFacts ==
  ASSUME OrderReady, Buildable
  PROVE  /\ order.names \in Seq(Ext) /\ IsInjective(order.names)
         /\ \A e \in ToSet(order.names) : tcz[e] \in File \ {Absent}
<1> DEFINE s == order.names
<1>1. s \in Seq(Ext \cup {Cut}) /\ IsInjective(s)
  BY DEF OrderReady
<1>2. \A e \in ToSet(s) : e \in Ext /\ tcz[e] # Absent
  BY DEF Buildable, Complete
<1> HIDE DEF s
<1>3. s \in Seq(Ext)
  <2>1. \A i \in 1..Len(s) : s[i] \in ToSet(s)
    BY <1>1 DEF ToSet
  <2> QED  BY <1>1, <1>2, <2>1
<1>4. \A e \in ToSet(s) : tcz[e] \in File \ {Absent}
  BY <1>2 DEF OrderReady
<1> QED  BY <1>1, <1>3, <1>4 DEF s

LEMMA MadeOf ==
  ASSUME NEW kind, NEW fs, NEW root, NEW image, stage' = "made",
         medium' = [kind |-> kind, files |-> fs, root |-> root, image |-> image],
         HoldsOrder(fs),
         kind = "game" => root \in {<<>>, <<"tc">>} /\ image = Overlay(Extents(fs, root)),
         kind = "embedded" => ArchiveHolds(image, fs)
  PROVE  MadeInv'
<1>1. /\ medium'.kind = kind /\ medium'.files = fs /\ medium'.root = root
      /\ medium'.image = image
  OBVIOUS
<1> QED  BY <1>1 DEF MadeInv

LEMMA RemoteAppended ==
  ASSUME OrderReady, NEW names \in Seq(Ext), IsInjective(names),
         \A e \in ToSet(names) : tcz[e] \in File \ {Absent}
  PROVE  LET all == Append(Without(names, Remote), Remote)
         IN  /\ all \in Seq(Ext) /\ IsInjective(all)
             /\ \A e \in ToSet(all) : With(tcz, Remote, 1)[e] \in File \ {Absent}
<1> DEFINE w == Without(names, Remote)
           all == Append(w, Remote)
<1>1. w \in Seq(Ext) /\ IsInjective(w) /\ ToSet(w) = ToSet(names) \ {Remote}
  BY WithoutFacts
<1>2. Remote \in Ext
  BY MediaAssumption
<1> HIDE DEF w
<1>3. all \in Seq(Ext) /\ IsInjective(all) /\ ToSet(all) \subseteq ToSet(names) \cup {Remote}
  <2>1. Remote \notin ToSet(w)
    BY <1>1
  <2>2. /\ all \in Seq(Ext) /\ IsInjective(all)
        /\ ToSet(all) = ToSet(w) \cup {Remote}
    BY <1>1, <1>2, <2>1, AppendNew
  <2> QED  BY <1>1, <2>2
<1> HIDE DEF all
<1>4. ASSUME NEW e \in ToSet(all) PROVE With(tcz, Remote, 1)[e] \in File \ {Absent}
  <2>1. CASE e = Remote
    <3>1. With(tcz, Remote, 1)[e] = 1
      BY <2>1 DEF With
    <3>2. 1 \in File \ {Absent}
      BY ResolverAssumption DEF File, Absent
    <3> QED  BY <3>1, <3>2
  <2>2. CASE e # Remote
    <3>1. e \in ToSet(names) /\ tcz[e] \in File \ {Absent}
      BY <1>3, <2>2
    <3>2. e \in DOMAIN tcz
      <4>1. e \in Ext
        BY <3>1 DEF ToSet
      <4> QED  BY <4>1 DEF OrderReady
    <3>3. With(tcz, Remote, 1)[e] = tcz[e]
      BY <2>2, <3>2 DEF With
    <3> QED  BY <3>1, <3>3
  <2> QED  BY <2>1, <2>2
<1> QED  BY <1>3, <1>4 DEF all, w

LEMMA BuildMade ==
  ASSUME MadeInv, OrderReady, Build
  PROVE  MadeInv'
<1>1. CASE BuildIso
  <2> DEFINE fs == Payload(order.names, tcz)
  <2>1. Buildable /\ Makes(Mastered(fs))
    BY <1>1 DEF BuildIso
  <2>2. HoldsOrder(fs)
    BY <2>1, CompleteFacts, PayloadHolds
  <2>3. medium' = [kind |-> "iso", files |-> fs, root |-> <<>>, image |-> <<>>]
    BY <2>1 DEF Makes, Mastered, NoMedium
  <2>4. stage' = "made" /\ "iso" # "game" /\ "iso" # "embedded"
    BY <2>1 DEF Makes
  <2> HIDE DEF fs
  <2> QED  BY <2>2, <2>3, <2>4, MadeOf
<1>2. CASE BuildGameDisc
  <2> DEFINE fs == Payload(order.names, tcz)
  <2>1. PICK root \in {<<>>, <<"tc">>} :
          Makes([kind |-> "game", files |-> fs, root |-> root,
                 image |-> Overlay(Extents(fs, root))])
    BY <1>2 DEF BuildGameDisc
  <2>2. Buildable
    BY <1>2 DEF BuildGameDisc
  <2>3. HoldsOrder(fs)
    BY <2>2, CompleteFacts, PayloadHolds
  <2>4. stage' = "made" /\ "game" # "embedded"
    BY <2>1 DEF Makes
  <2>5. medium' = [kind |-> "game", files |-> fs, root |-> root,
                   image |-> Overlay(Extents(fs, root))]
    BY <2>1 DEF Makes
  <2> HIDE DEF fs
  <2> QED  BY <2>3, <2>4, <2>5, MadeOf
<1>3. CASE BuildEmbedded
  <2>1. Buildable
    BY <1>3 DEF BuildEmbedded
  <2>2. PICK names \in {order.names, Without(order.names, Fonts)} :
          Makes([kind |-> "embedded", files |-> Payload(names, tcz), root |-> <<>>,
                 image |-> ArchiveOf(Payload(names, tcz))])
    BY <1>3 DEF BuildEmbedded
  <2> DEFINE fs == Payload(names, tcz)
  <2>3. /\ names \in Seq(Ext) /\ IsInjective(names)
        /\ \A e \in ToSet(names) : tcz[e] \in File \ {Absent}
    <3>1. /\ order.names \in Seq(Ext) /\ IsInjective(order.names)
          /\ \A e \in ToSet(order.names) : tcz[e] \in File \ {Absent}
      BY <2>1, CompleteFacts
    <3>2. CASE names = order.names
      BY <3>1, <3>2
    <3>3. CASE names = Without(order.names, Fonts)
      <4>1. names \in Seq(Ext) /\ IsInjective(names) /\ ToSet(names) = ToSet(order.names) \ {Fonts}
        BY <3>1, <3>3, WithoutFacts
      <4> QED  BY <3>1, <4>1
    <3> QED  BY <2>2, <3>2, <3>3
  <2>4. /\ HoldsOrder(fs) /\ fs[OrderTxt].names = names
        /\ DOMAIN fs = {CoreGz, OrderTxt} \cup {Extension(e) : e \in ToSet(names)}
    BY <2>3, PayloadHolds
  <2>5. stage' = "made" /\ "embedded" # "game"
    BY <2>2 DEF Makes
  <2>6. medium' = [kind |-> "embedded", files |-> fs, root |-> <<>>, image |-> ArchiveOf(fs)]
    BY <2>2 DEF Makes
  <2> HIDE DEF fs
  <2>7. ArchiveHolds(ArchiveOf(fs), fs)
    BY <2>4, ArchiveOfHolds
  <2> QED  BY <2>4, <2>5, <2>6, <2>7, MadeOf
<1>4. CASE BuildExt2
  <2>1. Buildable
    BY <1>4 DEF BuildExt2
  <2> DEFINE more == Append(Without(order.names, Remote), Remote)
  <2>2. PICK fs \in {Payload(order.names, tcz), Payload(more, With(tcz, Remote, 1))} :
          Makes([NoMedium EXCEPT !.kind = "ext2", !.files = fs])
    BY <1>4 DEF BuildExt2
  <2>3. /\ more \in Seq(Ext) /\ IsInjective(more)
        /\ \A e \in ToSet(more) : With(tcz, Remote, 1)[e] \in File \ {Absent}
    BY <2>1, CompleteFacts, RemoteAppended
  <2>4. HoldsOrder(fs)
    <3>1. HoldsOrder(Payload(order.names, tcz))
      BY <2>1, CompleteFacts, PayloadHolds
    <3>2. HoldsOrder(Payload(more, With(tcz, Remote, 1)))
      <4> HIDE DEF more
      <4> QED  BY <2>3, PayloadHolds
    <3> QED  BY <2>2, <3>1, <3>2
  <2>5. medium' = [kind |-> "ext2", files |-> fs, root |-> <<>>, image |-> <<>>]
    BY <2>2 DEF Makes, NoMedium
  <2>6. stage' = "made" /\ "ext2" # "game" /\ "ext2" # "embedded"
    BY <2>2 DEF Makes
  <2> QED  BY <2>4, <2>5, <2>6, MadeOf
<1>5. CASE ReplaceInit
  <2> DEFINE fs == With(medium.files, InitName, NewInit)
             image == Replaced(medium.image, InitName, NewInit, 10)
  <2>1. /\ stage = "made" /\ medium.kind = "embedded" /\ stage' = stage
        /\ Replaceable(medium.image, InitName)
        /\ medium' = [medium EXCEPT !.image = image, !.files = fs]
    BY <1>5 DEF ReplaceInit
  <2>2. /\ HoldsOrder(medium.files) /\ ArchiveHolds(medium.image, medium.files)
        /\ medium = [kind |-> medium.kind, files |-> medium.files,
                     root |-> medium.root, image |-> medium.image]
    BY <2>1 DEF MadeInv
  <2>3. HoldsOrder(fs) /\ ArchiveHolds(image, fs)
    BY <2>1, <2>2, WithInitHolds, ReplacedHolds
  <2> HIDE DEF fs, image
  <2>4. medium' = [kind |-> "embedded", files |-> fs, root |-> medium.root, image |-> image]
    BY <2>1, <2>2
  <2> QED  BY <2>1, <2>3, <2>4, MadeOf
<1> QED  BY <1>1, <1>2, <1>3, <1>4, <1>5 DEF Build
=============================================================================
