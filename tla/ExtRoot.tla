------------------------------- MODULE ExtRoot -------------------------------
(***************************************************************************)
(* The ext2 root of a writable Debian guest, a file on the FATX volume     *)
(* mounted over two loop devices, as the guest's scripts use it.  The file *)
(* system is the kernel's: its part here is what the scripts and the host  *)
(* checks rely on.  What is written stays in the page cache until it is    *)
(* written back, one item after the other and in any order, or until sync  *)
(* or a read-only remount writes all of it; a stop of the machine loses    *)
(* the rest and may leave the image inconsistent.  A file is written by    *)
(* one rename or one short write: it reaches the disk whole or not at all. *)
(***************************************************************************)
EXTENDS Integers

CONSTANTS
  File,        \* the files under /root the scripts write
  Content,     \* what they may hold
  FirstImage   \* [File -> Content]: the files of the packaged image

ASSUME ImageAssumption == FirstImage \in [File -> Content]

VARIABLES
  disk,        \* the image: its files and its mount count
  cache,       \* the same as the running guest sees it
  mode,        \* how the root is mounted: "off", "rw" or "ro"
  damaged      \* whether e2fsck -fn would complain

root == <<disk, cache, mode, damaged>>

Image == [files : [File -> Content], mounts : Nat]

RootInit ==
  /\ disk = [files |-> FirstImage, mounts |-> 0]
  /\ cache = disk
  /\ mode = "off"
  /\ damaged = FALSE

RootTypeOK ==
  /\ disk \in Image /\ cache \in Image
  /\ mode \in {"off", "rw", "ro"}
  /\ damaged \in BOOLEAN

(* mount -o rw in the stage-1 initramfs: the count goes up, in memory.     *)
MountRw ==
  /\ mode = "off"
  /\ mode' = "rw"
  /\ cache' = [files |-> disk.files, mounts |-> disk.mounts + 1]
  /\ UNCHANGED <<disk, damaged>>

Put(f, content) ==
  /\ mode = "rw"
  /\ cache' = [files |-> [cache.files EXCEPT ![f] = content],
               mounts |-> cache.mounts]
  /\ UNCHANGED <<disk, mode, damaged>>

(* sync                                                                    *)
Sync == disk' = cache /\ UNCHANGED <<cache, mode, damaged>>

(* A remount that the kernel allows.                                       *)
RemountRo ==
  /\ mode = "rw"
  /\ mode' = "ro" /\ disk' = cache
  /\ UNCHANGED <<cache, damaged>>

(* The kernel writes back one dirty item of its own accord.                *)
Writeback ==
  /\ mode = "rw"
  /\ \/ \E f \in File :
          /\ cache.files[f] # disk.files[f]
          /\ disk' = [files |-> [disk.files EXCEPT ![f] = cache.files[f]],
                      mounts |-> disk.mounts]
     \/ /\ cache.mounts # disk.mounts
        /\ disk' = [files |-> disk.files, mounts |-> cache.mounts]
  /\ UNCHANGED <<cache, mode, damaged>>

(* The machine stops, for whatever reason.                                 *)
Stop ==
  /\ mode' = "off"
  /\ cache' = disk
  /\ damaged' \in IF cache = disk THEN {damaged} ELSE {TRUE, damaged}
  /\ UNCHANGED disk

(* Stopping now would lose nothing.                                        *)
Quiescent == cache = disk /\ mode # "rw"
=============================================================================
