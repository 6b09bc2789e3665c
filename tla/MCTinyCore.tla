----------------------------- MODULE MCTinyCore -----------------------------
(***************************************************************************)
(* Six extensions: X, its library and a panel, which all three have the    *)
(* same configuration; the images of the panel, which needs them as they   *)
(* need it; fonts without a checksum; and Dropbear, which the seeds do not *)
(* ask for.  The second version of the mirror has lost a package.          *)
(***************************************************************************)
EXTENDS TinyCore

Extensions == {"libX11", "Xfbdev", "wbar", "imlib2", "Xorg-fonts", "dropbear"}
Lists ==
  [e \in Extensions |->
     CASE e = "Xfbdev" -> <<"libX11">> [] e = "wbar" -> <<"imlib2", "libX11">>
       [] e = "imlib2" -> <<"wbar">>   [] OTHER -> <<>>]
Desktop == <<"Xorg-fonts", "Xfbdev", "wbar">>
Has == <<Extensions, Extensions \ {"imlib2"}>>
Sums == Extensions \ {"Xorg-fonts"}
Hot == <<"libX11", "Xfbdev">>

Name == Extensions \cup {"libx11", "xfbdev", "xorg-fonts", "tc", "tcz", "core.gz",
                         "desktop-load-order.txt", "init"}
Small ==
  [n \in Name |-> CASE n = "libX11" -> "libx11" [] n = "Xfbdev" -> "xfbdev"
                    [] n = "Xorg-fonts" -> "xorg-fonts" [] OTHER -> n]
Bytes ==
  [n \in Name |-> CASE n = "core.gz" -> 11 [] n = "desktop-load-order.txt" -> 30
                    [] n = "libX11" -> 18 [] n = "Xorg-fonts" -> 22 [] OTHER -> 16]
Alphabet == <<"Xfbdev", "Xorg-fonts", "core.gz", "desktop-load-order.txt", "dropbear",
              "imlib2", "init", "libX11", "libx11", "tc", "tcz", "wbar", "xfbdev",
              "xorg-fonts">>

Paths == {"x", "lib", "conf", "panel", "sshd"}
Brings ==
  [e \in Extensions |->
     CASE e = "libX11" -> {"lib", "conf"} [] e = "Xfbdev" -> {"x", "conf"}
       [] e = "wbar" -> {"panel", "conf"} [] e = "dropbear" -> {"sshd"} [] OTHER -> {}]

Drives == {"hda", "hdb", "sr0", "sda"}
Glob == <<"hda", "hdb", "sda", "sr0">>
Fixed == <<"hdb", "sda">>
Disks == <<"hda", "sda">>

Plain == [hotset |-> FALSE, release |-> FALSE, remote |-> FALSE, disk |-> NoDisk]
Console ==
  [drive |-> [d \in Drives |-> IF d = "sr0" THEN "missing" ELSE "payload"],
   devtmpfs |-> TRUE, binds |-> TRUE, loops |-> 8, eth0 |-> TRUE, addr |-> FALSE,
   line |-> Plain, dead |-> {}]

(* To search for the payload: at any place, at several, or nowhere.        *)
Searched ==
  {[Console EXCEPT !.drive = v, !.devtmpfs = n] :
     v \in {v \in [Drives -> {"missing", "blank", "other", "payload"}] :
              /\ v["hda"] = "blank" /\ v["hdb"] \in {"missing", "other", "payload"}
              /\ v["sda"] \in {"missing", "payload"} /\ v["sr0"] \in {"missing", "payload"}},
     n \in BOOLEAN}

(* To run the desktop, with and without the options.                       *)
Only(ds) == [Console EXCEPT !.drive = [d \in Drives |-> IF d \in ds THEN "payload" ELSE "missing"]]
Hotset(m, h) == [m EXCEPT !.line = [Plain EXCEPT !.hotset = h, !.release = TRUE]]
Consoles ==
  [k \in Kind |->
     CASE k = "iso" -> Searched \cup {[Console EXCEPT !.binds = FALSE]}
       [] k = "game" -> {Only({"hdb"}), [Hotset(Only({"hdb"}), TRUE) EXCEPT !.loops = 1]}
       [] k = "embedded" ->
            {[Hotset(Only({}), h) EXCEPT !.dead = l] :
               h \in BOOLEAN, l \in {{}, {<<"lib", "libX11">>}}}
       [] k = "ext2" ->
            {[Only({"sda"}) EXCEPT !.line.disk = g, !.devtmpfs = n] :
               g \in {NoDisk, "sda"}, n \in BOOLEAN}
            \cup {[Only({"hda"}) EXCEPT !.line = [Plain EXCEPT !.remote = r],
                                      !.eth0 = n[1], !.addr = n[2]] :
                     r \in BOOLEAN, n \in {<<FALSE, FALSE>>, <<TRUE, FALSE>>, <<TRUE, TRUE>>}}]
=============================================================================
