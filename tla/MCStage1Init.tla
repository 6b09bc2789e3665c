----------------------------- MODULE MCStage1Init -----------------------------
(* Four drives: an IDE disk, an IDE optical drive, a disk found by sysfs   *)
(* only, and a SCSI-style optical drive.                                   *)
EXTENDS Stage1Init

Drives == {"hda", "hdb", "sda", "sr0"}
Probed == <<"hda", "sda">>
Fallback == <<"hdb", "sr0", "hda">>
Glob == <<"hda", "hdb", "sda", "sr0">>

Holds(f, p) == [fs |-> f, payload |-> p]
Nothing == {Holds("missing", "absent"), Holds("blank", "absent")}

(* Each kind of medium occurs in some drive, payloads in several at once.  *)
Consoles ==
  {m \in [Drives -> Medium] :
     /\ m["hda"] \in Nothing \cup {Holds("fatx", "named"), Holds("fatx", "absent")}
     /\ m["hdb"] \in Nothing \cup {Holds("iso9660", p) : p \in {"absent", "upper"}}
     /\ m["sda"] \in {Holds("missing", "absent"), Holds("fatx", "upper"),
                      Holds("iso9660", "named")}
     /\ m["sr0"] \in {Holds("missing", "absent"), Holds("iso9660", "damaged"),
                      Holds("iso9660", "no init")}}

Lines ==
  {c \in CommandLine : /\ c.disk \in {NoDisk, "sda", "sr0"}
                       /\ c.proof => c.disk = NoDisk}
=============================================================================
