---------------------------- MODULE TinyCoreMedia ----------------------------
(***************************************************************************)
(* What the build scripts make of the extensions: a Cromwell ISO           *)
(* (make_cromwell_iso.py), a game disc with an ISO9660 overlay             *)
(* (build_release_rev_2026_06_06.ps1, add_iso9660_overlay.py), an          *)
(* initramfs with the extensions in it (make_busybox_initramfs.py), or an  *)
(* ext2 image for the hard disk (stage_hdd_ext2_tinycore_payload.ps1).     *)
(* All of them go by desktop-load-order.txt.                               *)
(***************************************************************************)
EXTENDS TczResolver, NewcArchive, IsoOverlay

CONSTANTS
  Fonts,     \* Xorg-fonts, left out of the initramfs of the game disc
  NameSize   \* bytes of a name in an archive

(* Names in small letters stay what they are, and no extension is called   *)
(* what its order is.                                                      *)
PlainNames == {"init", "core.gz", "tcz", "desktop-load-order.txt"}
Remote == "dropbear"
ASSUME MediaAssumption ==
  /\ Ext \cap PlainNames = {} /\ Remote \in Ext
  /\ \A n \in PlainNames : LowerCase[n] = n
  /\ \A e \in Ext : LowerCase[e] \notin PlainNames
  /\ {"tc"} \cup PlainNames \cup {LowerCase[e] : e \in Ext} \subseteq ToSet(NameOrder)
  /\ \A n \in Ext \cup PlainNames : NameSize[n] \in Nat

VARIABLES
  stage,   \* "host", then "made", then "boot"
  medium   \* what was made

mediaVars == <<stage, medium>>

(* Files are records of what they list and what they hold.                 *)
Holding(names, body) == [names |-> names, body |-> body]
NoFile == Holding(<<>>, Absent)
Program == Holding(<<>>, 1)

CoreGz == <<"core.gz">>
OrderTxt == <<"tcz", "desktop-load-order.txt">>
Extension(e) == <<"tcz", e>>

(* The names listed but one.                                               *)
Without(names, e) ==
  FoldLeft(LAMBDA kept, n : IF n = e THEN kept ELSE Append(kept, n), <<>>, names)

Payload(names, body) ==
  [p \in {CoreGz, OrderTxt} \cup {Extension(e) : e \in ToSet(names)} |->
     IF p = CoreGz THEN Program
     ELSE IF p = OrderTxt THEN Holding(names, 1) ELSE Holding(<<>>, body[p[2]])]

(* Each builder reads every file listed, and raises when there is none.    *)
Complete(names) ==
  \A e \in ToSet(names) : e \in Ext /\ tcz[e] # Absent

NoMedium == [kind |-> "none", files |-> <<>>, root |-> <<>>, image |-> <<>>]
MediaInit == stage = "host" /\ medium = NoMedium

Makes(m) ==
  /\ stage' = "made" /\ medium' = m
  /\ UNCHANGED resolverVars

Buildable == stage = "host" /\ pc = "idle" /\ order.there /\ Complete(order.names)

(* On the ISO the files keep their names, in the Joliet tree; the numbered *)
(* ISO9660 names beside them are not read.                                 *)
Mastered(files) == [NoMedium EXCEPT !.kind = "iso", !.files = files]
BuildIso == Buildable /\ Makes(Mastered(Payload(order.names, tcz)))

(* The packer puts the files into sectors of its own; parse_extent writes  *)
(* their names in small letters.                                           *)
Listed(files) ==
  LET names == files[OrderTxt].names
  IN  <<CoreGz, OrderTxt>> \o [i \in DOMAIN names |-> Extension(names[i])]
FirstFileSector == 40
Lower(p) == [i \in DOMAIN p |-> LowerCase[p[i]]]
Extents(files, root) ==
  LET all == Listed(files)
      names == [i \in DOMAIN all |-> root \o Lower(all[i])]
  IN  [q \in ToSet(names) |->
         [sector |-> FirstFileSector + (CHOOSE i \in DOMAIN all : names[i] = q), size |-> 1]]

BuildGameDisc ==
  /\ Buildable
  /\ \E root \in {<<>>, <<"tc">>} :
       LET files == Payload(order.names, tcz)
       IN  /\ Fits(Extents(files, root))
           /\ Makes([kind |-> "game", files |-> files, root |-> root,
                     image |-> Overlay(Extents(files, root))])

(* build: the directories, then init, then the files of the payload.       *)
InitName == <<"init">>
ArchiveOf(files) ==
  LET entry(p) == Entry(p, NameSize[Last(p)], files[p], files[p].body + 2)
      all == Listed(files)
  IN  Archive(<<Entry(InitName, 5, Program, 7)>> \o [i \in DOMAIN all |-> entry(all[i])])

BuildEmbedded ==
  /\ Buildable
  /\ \E names \in {order.names, Without(order.names, Fonts)} :
       LET files == Payload(names, tcz)
       IN  Makes([kind |-> "embedded", files |-> files, root |-> <<>>,
                  image |-> ArchiveOf(files)])

(* replace_newc_file.py, of the archive made: a new init of another size.  *)
NewInit == Holding(<<>>, 2)
ReplaceInit ==
  /\ stage = "made" /\ medium.kind = "embedded"
  /\ InitName \notin DOMAIN medium.files
  /\ Replaceable(medium.image, InitName)
  /\ medium' = [medium EXCEPT !.image = Replaced(@, InitName, NewInit, 10),
                              !.files = With(@, InitName, NewInit)]
  /\ UNCHANGED <<stage, resolverVars>>

(* For the hard disk the files as they are; the remote candidate adds      *)
(* Dropbear, or moves it, at the end of the order.                         *)
BuildExt2 ==
  /\ Buildable
  /\ \E files \in {Payload(order.names, tcz),
                    Payload(Append(Without(order.names, Remote), Remote),
                            With(tcz, Remote, 1))} :
       Makes([NoMedium EXCEPT !.kind = "ext2", !.files = files])

Build == BuildIso \/ BuildGameDisc \/ BuildEmbedded \/ BuildExt2 \/ ReplaceInit

-----------------------------------------------------------------------------
(* What a reader of the medium gets: a Linux guest sees the names of an    *)
(* overlay in small letters, those of the other media as they are.         *)
Read(p) ==
  CASE medium.kind = "game" ->
         LET r == Lookup(medium.image, medium.root \o p)
             i == r.sector - FirstFileSector
         IN  IF r.isDir \/ i \notin DOMAIN Listed(medium.files) THEN NoFile
             ELSE medium.files[Listed(medium.files)[i]]
    [] medium.kind = "embedded" -> Unpacked(medium.image, p, NoFile)
    [] OTHER -> IF p \in DOMAIN medium.files THEN medium.files[p] ELSE NoFile

(* The archive, edited or not, unpacks to the files it was made of, and    *)
(* replacing init touches no other file.                                   *)
ArchiveUnpacksWhole ==
  (stage = "made" /\ medium.kind = "embedded") =>
    /\ \A p \in DOMAIN medium.files : Read(p) = medium.files[p]
    /\ \A e \in ToSet(Entries(medium.image)) : e.name # Damaged.name

(* The game disc has a sound ISO9660 view of each of its files.            *)
OverlayIsSound ==
  (stage = "made" /\ medium.kind = "game") =>
    Sound(medium.image, Extents(medium.files, medium.root))
=============================================================================
