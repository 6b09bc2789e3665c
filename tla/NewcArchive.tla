----------------------------- MODULE NewcArchive -----------------------------
(***************************************************************************)
(* The newc archives the initramfs builders write (add_entry, the same in  *)
(* each of them) and replace_newc_file.py edits.  An archive is a size and *)
(* the headers in it by their offset; what a reader makes of it depends on *)
(* writer and reader rounding the same offsets up to the same multiples.   *)
(***************************************************************************)
EXTENDS SequencesExt, FiniteSetsExt, Integers

HeaderSize == 110
Align4(n) == ((n + 3) \div 4) * 4
Trailer == <<"TRAILER!!!">>

(* An entry: its name and the bytes this takes, its mode, data and size.   *)
Entry(name, nameSize, data, size) ==
  [name |-> name, nameSize |-> nameSize, mode |-> "given", data |-> data, size |-> size]

With(f, x, y) == [z \in DOMAIN f \cup {x} |-> IF z = x THEN y ELSE f[z]]
EmptyArchive == [size |-> 0, heads |-> <<>>]

(* Mutant: the data is padded to its own length, not to the buffer's.      *)
AddEntryUnaligned(archive, e) ==
  LET data == archive.size + HeaderSize + e.nameSize
  IN  [size  |-> data + Align4(e.size),
       heads |-> With(archive.heads, archive.size, e)]

(* Header and name, padding, data, padding.                                *)
AddEntry(archive, e) ==
  LET data == Align4(archive.size + HeaderSize + e.nameSize)
  IN  [size  |-> Align4(data + e.size),
       heads |-> With(archive.heads, archive.size, e)]

Archive(entries) ==
  FoldLeft(AddEntry, EmptyArchive, Append(entries, Entry(Trailer, 11, 0, 0)))

(* What a reader walks over, up to the trailer; Damaged where it expects a *)
(* header and there is none.                                               *)
Damaged == Entry(<<>>, 0, 0, 0)
AfterEntry(pos, e) == Align4(Align4(pos + HeaderSize + e.nameSize) + e.size)
Entries(archive) ==
  LET from[pos \in Nat] ==
        IF pos >= archive.size THEN <<>>
        ELSE IF pos \notin DOMAIN archive.heads THEN <<Damaged>>
        ELSE LET e == archive.heads[pos]
             IN  <<e>> \o (IF e.name = Trailer THEN <<>> ELSE from[AfterEntry(pos, e)])
  IN  from[0]

(* What the kernel unpacks: of two entries with one name the later stays.  *)
Unpacked(archive, name, none) ==
  LET all == Entries(archive)
      found == {i \in DOMAIN all : all[i].name = name}
  IN  IF found = {} THEN none ELSE all[Max(found)].data

(* replace_entry: it raises on a damaged archive and on a missing target.  *)
Replaceable(archive, target) ==
  LET names == {e.name : e \in ToSet(Entries(archive))}
  IN  Damaged.name \notin names /\ target \in names

Renewed(e, target, data, size) ==
  IF e.name # target THEN e
  ELSE [e EXCEPT !.mode = "0755", !.data = data, !.size = size]
Replaced(archive, target, data, size) ==
  LET all == Entries(archive)
  IN  FoldLeft(AddEntry, EmptyArchive,
               [i \in DOMAIN all |-> Renewed(all[i], target, data, size)])
=============================================================================
