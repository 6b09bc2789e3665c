---------------------------- MODULE ExtRootProofs ----------------------------
(* What the operations on a guest's root do to its files, for every set of *)
(* files: the lemmas both guests rest on.                                  *)
EXTENDS ExtRoot, TLAPS

(* The root: what its operations do to the files and the mount count.      *)
LEMMA RootFacts ==
  ASSUME RootTypeOK
  PROVE  /\ disk.files \in [File -> Content] /\ cache.files \in [File -> Content]
         /\ disk.mounts \in Nat /\ cache.mounts \in Nat
         /\ Image \subseteq [files : [File -> Content], mounts : Nat]
BY DEF RootTypeOK, Image

LEMMA PutFacts ==
  ASSUME RootTypeOK, NEW f \in File, NEW c \in Content, Put(f, c)
  PROVE  /\ RootTypeOK' /\ mode = "rw" /\ mode' = "rw" /\ disk' = disk
         /\ cache'.files[f] = c
         /\ \A g \in File : g # f => cache'.files[g] = cache.files[g]
         /\ cache'.mounts = cache.mounts
<1>1. /\ mode = "rw" /\ UNCHANGED <<disk, mode, damaged>>
      /\ cache' = [files |-> [cache.files EXCEPT ![f] = c], mounts |-> cache.mounts]
  BY DEF Put
<1>2. cache'.files = [cache.files EXCEPT ![f] = c] /\ cache'.mounts = cache.mounts
  BY <1>1
<1>3. cache.files \in [File -> Content] /\ cache.mounts \in Nat
  BY RootFacts
<1>4. cache' \in Image
  BY <1>1, <1>3 DEF Image
<1> QED  BY <1>1, <1>2, <1>3, <1>4 DEF RootTypeOK

LEMMA WritebackFacts ==
  ASSUME RootTypeOK, Writeback
  PROVE  /\ RootTypeOK' /\ mode = "rw" /\ cache' = cache /\ mode' = mode
         /\ \A f \in File : disk'.files[f] \in {disk.files[f], cache.files[f]}
<1>1. mode = "rw" /\ UNCHANGED <<cache, mode, damaged>>
  BY DEF Writeback
<1>2. CASE \E f \in File :
              disk' = [files |-> [disk.files EXCEPT ![f] = cache.files[f]],
                       mounts |-> disk.mounts]
  <2>1. PICK f \in File :
               disk' = [files |-> [disk.files EXCEPT ![f] = cache.files[f]],
                        mounts |-> disk.mounts]
    BY <1>2
  <2>2. disk'.files = [disk.files EXCEPT ![f] = cache.files[f]]
    BY <2>1
  <2>3. disk' \in Image
    BY <2>1, RootFacts DEF Image
  <2> QED  BY <1>1, <2>2, <2>3, RootFacts DEF RootTypeOK
<1>3. CASE disk' = [files |-> disk.files, mounts |-> cache.mounts]
  <2>1. disk'.files = disk.files /\ disk' \in Image
    BY <1>3, RootFacts DEF Image
  <2> QED  BY <1>1, <2>1, RootFacts DEF RootTypeOK
<1> QED  BY <1>2, <1>3 DEF Writeback
==============================================================================
