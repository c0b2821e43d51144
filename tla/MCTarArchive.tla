--------------------------- MODULE MCTarArchive ----------------------------
(***************************************************************************)
(* A small target tree for TarArchive.  Listings are in the sorted order   *)
(* ioutil.ReadDir returns.                                                 *)
(*                                                                         *)
(*   .          directory                 (device 1)                       *)
(*   a          regular, inode 1, 2 links, non-empty                       *)
(*   b/         directory                                                  *)
(*   b/c        regular, inode 1: the second link of a                     *)
(*   b/l        symlink                                                    *)
(*   b/x.tmp    regular, inode 2, 1 link, empty                            *)
(*   k          character device                                           *)
(*   m/         directory, root of a second filesystem (device 2)          *)
(*   m/y        regular, inode MountIno, 2 links (the other one outside)   *)
(*   p          FIFO                                                       *)
(*   s          socket                                                     *)
(*                                                                         *)
(* MountIno is 3 in the passing runs; CrossDeviceIno gives m/y inode 1 of  *)
(* device 2, so that it collides with a.                                   *)
(***************************************************************************)
EXTENDS TarArchive

CONSTANTS G_a, G_b, G_tmp, MountIno

File(k, d, i, l, sz, cs) ==
  [kind |-> k, dev |-> d, ino |-> i, nlink |-> l, size |-> sz, children |-> cs]

FS ==
  ("."       :> File("dir",     1, 10, 4, 0, <<"a", "b", "k", "m", "p", "s">>)) @@
  ("a"       :> File("reg",     1, 1,  2, 1, <<>>)) @@
  ("b"       :> File("dir",     1, 11, 2, 0, <<"b/c", "b/l", "b/x.tmp">>)) @@
  ("b/c"     :> File("reg",     1, 1,  2, 1, <<>>)) @@
  ("b/l"     :> File("symlink", 1, 4,  1, 0, <<>>)) @@
  ("b/x.tmp" :> File("reg",     1, 2,  1, 0, <<>>)) @@
  ("k"       :> File("dev",     1, 5,  1, 0, <<>>)) @@
  ("m"       :> File("dir",     2, 2,  2, 0, <<"m/y">>)) @@
  ("m/y"     :> File("reg",     2, MountIno, 2, 1, <<>>)) @@
  ("p"       :> File("fifo",    1, 6,  1, 0, <<>>)) @@
  ("s"       :> File("socket",  1, 7,  1, 0, <<>>))

MCNodes    == DOMAIN FS
MCRoot     == "."
MCKind     == [n \in MCNodes |-> FS[n].kind]
MCChildren == [n \in MCNodes |-> FS[n].children]
MCDev      == [n \in MCNodes |-> FS[n].dev]
MCIno      == [n \in MCNodes |-> FS[n].ino]
MCNlink    == [n \in MCNodes |-> FS[n].nlink]
MCSize     == [n \in MCNodes |-> FS[n].size]

(* "a" and "b" match those top-level names, whole or as base name;        *)
(* "*.tmp" matches no full path with a directory in it, but the base name  *)
(* of b/x.tmp.                                                             *)
MCGlobs     == {G_a, G_b, G_tmp}
MCMatchFull == (G_a :> {"a"}) @@ (G_b :> {"b"}) @@ (G_tmp :> {})
MCMatchBase == (G_a :> {"a"}) @@ (G_b :> {"b"}) @@ (G_tmp :> {"b/x.tmp"})

MCExcludeArgs == [slashes : 0..2, glob : MCGlobs]

AllFaults == {"statRoot", "readDir", "readlink", "open", "readFile", "shrink", "sink", "restat"}
AllCompressions == {"NONE", "GZIP", "BZIP2", "DETECT", "XZ"}
Uncompressed == {"NONE"}
Gzipped == {"GZIP"}
NoFaults == {}
=============================================================================
