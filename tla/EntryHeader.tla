----------------------------- MODULE EntryHeader -----------------------------
(***************************************************************************)
(* The header processEntry (src/tarhelper/tar.go) builds for an entry.     *)
(* Its name is "./" and the path relative to the archived directory; with  *)
(* a VirtualPath, that name joined under ".", the VirtualPath, and         *)
(* cleaned; a directory's name then gets a trailing separator.  The hard-  *)
(* link table records this name and later link entries point at it.       *)
(* The owner is the file's or 500/500 by IncludeOwners; the mode is the    *)
(* file's or a fixed default per kind by IncludePermissions; a device      *)
(* gets the numbers of a second os.Stat.                                   *)
(*                                                                         *)
(* One step builds one header: the Tar's configuration, the fullName       *)
(* processEntry is called with, and the object's metadata are drawn in     *)
(* Init.  "link" is a regular file met again under a recorded inode.       *)
(***************************************************************************)
EXTENDS GoFilePath

CONSTANTS
  VirtualPaths,   \* values of Tar.VirtualPath ("" when unset)
  FullNames,      \* "." for the root, filepath.Join(dir, f.Name()) below it
  Objects         \* metadata of listed objects: [kind, mode, uid, gid, rdev]

Owner500   == 500
DirDefault == 493    \* 0755
RegDefault == 420    \* 0644
NoDev      == <<>>   \* Devmajor/Devminor left unset

DotSlash == <<".", Sep>>

(* A directory's name gets a trailing separator.                           *)
DirSuffix(named, isDir) == IF isDir THEN named \o <<Sep>> ELSE named

\* mutant: the VirtualPath is joined without the leading "."
HeaderNameUnrooted(vp, fullName) ==
  IF vp = <<>> THEN DotSlash \o fullName
  ELSE Clean(Join(<<vp, DotSlash \o fullName>>))

(* "./" + fullName, then, with a VirtualPath, joined under "." and it.     *)
HeaderName(vp, fullName) ==
  IF vp = <<>> THEN DotSlash \o fullName
  ELSE Clean(Join(<<Dot, vp, DotSlash \o fullName>>))

(* uid/gid: the file's with IncludeOwners, else 500.                     *)
HeaderOwner(owners, o) ==
  IF owners THEN [uid |-> o.uid, gid |-> o.gid] ELSE [uid |-> Owner500, gid |-> Owner500]

(* The mode of tar.FileInfoHeader, or, without IncludePermissions, the     *)
(* default of the directory, symlink and regular-file branches; the       *)
(* regular default is set before the hard-link check, so a link entry has  *)
(* it too.  A device keeps its mode.                                       *)
HeaderMode(perms, o) ==
  CASE perms                        -> o.mode
  []   o.kind \in {"dir", "symlink"} -> DirDefault
  []   o.kind \in {"reg", "link"}   -> RegDefault
  []   OTHER                        -> o.mode

(* Devmajor/Devminor from the second os.Stat of a device.                  *)
HeaderDev(o) == IF o.kind = "dev" THEN o.rdev ELSE NoDev

Header(vp, fullName, perms, owners, o) ==
  [name |-> DirSuffix(HeaderName(vp, fullName), o.kind = "dir"),
   mode |-> HeaderMode(perms, o),
   dev  |-> HeaderDev(o)] @@ HeaderOwner(owners, o)

-----------------------------------------------------------------------------
Pending == [name |-> <<"?">>]

VARIABLES vp, perms, owners, fullName, obj, hdr

vars == <<vp, perms, owners, fullName, obj, hdr>>

Init ==
  /\ vp \in VirtualPaths
  /\ perms \in BOOLEAN
  /\ owners \in BOOLEAN
  /\ fullName \in FullNames
  /\ obj \in Objects
  /\ hdr = Pending

BuildHeader ==
  /\ hdr = Pending
  /\ hdr' = Header(vp, fullName, perms, owners, obj)
  /\ UNCHANGED <<vp, perms, owners, fullName, obj>>

Next == BuildHeader

Spec == Init /\ [][Next]_vars

-----------------------------------------------------------------------------
(* Reference: the elements of a path other than ".".                       *)
Real(p) == SelectSeq(Elems(p), LAMBDA e : e # Dot)

Done == hdr # Pending

name == hdr.name

(* Spec 3, 6, 8: the archive path of an entry is relative, is the cleaned  *)
(* VirtualPath followed by the entry's path below the archived directory,  *)
(* and ends in a separator exactly when the entry is a directory: the      *)
(* archive extracts the tree under the VirtualPath inside the destination  *)
(* directory and nowhere else.                                             *)
ArchivePathOfEntry ==
  Done =>
    /\ ~IsAbs(name)
    /\ Real(name) = Real(Clean(vp)) \o Real(fullName)
    /\ (obj.kind = "dir") = (Last(name) = Sep)

=============================================================================
