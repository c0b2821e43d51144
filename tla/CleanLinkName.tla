---------------------------- MODULE CleanLinkName ----------------------------
(***************************************************************************)
(* cleanLinkName of src/tarhelper/tar.go: the target of the symlink        *)
(* `name` (relative to the archived directory targetDir), as stored in the *)
(* archive.  A relative target is made absolute against the link's         *)
(* directory; if the result contains targetDir it is rewritten relative to *)
(* the link's directory, otherwise it is kept absolute.                    *)
(*                                                                         *)
(* Paths are character sequences, because the rewrite is decided by a      *)
(* substring test on the path text; the library functions are those of     *)
(* GoFilePath.                                                             *)
(*                                                                         *)
(* One step resolves one symlink: the inputs are drawn in Init, as the     *)
(* argument of the call and the text os.Readlink returns.                  *)
(***************************************************************************)
EXTENDS GoFilePath

CONSTANTS
  TargetDirs,   \* values of Tar.target
  Names,        \* relative names of symlinks under the target
  Links         \* texts os.Readlink may return

-----------------------------------------------------------------------------
(* cleanLinkName(targetDir, name), with os.Readlink returning `raw`.       *)
\* mutant: the relative link is computed from targetDir, not the link's directory
CleanLinkNameFromTarget(targetDir, name, raw) ==
  LET dir  == Dir(name)
      link == Clean(IF IsAbs(raw) THEN raw ELSE Abs(Join(<<targetDir, dir, raw>>)))
  IN  IF StringsContains(link, targetDir) THEN Rel(targetDir, link) ELSE link

\* mutant: the arguments of strings.Contains are swapped
CleanLinkNameSwapped(targetDir, name, raw) ==
  LET dir  == Dir(name)
      link == Clean(IF IsAbs(raw) THEN raw ELSE Abs(Join(<<targetDir, dir, raw>>)))
  IN  IF StringsContains(targetDir, link) THEN Rel(Join(<<targetDir, dir>>), link) ELSE link

CleanLinkNameOf(targetDir, name, raw) ==
  LET dir  == Dir(name)
      link == Clean(IF IsAbs(raw) THEN raw ELSE Abs(Join(<<targetDir, dir, raw>>)))
  IN  IF StringsContains(link, targetDir) THEN Rel(Join(<<targetDir, dir>>), link) ELSE link

-----------------------------------------------------------------------------
Pending == <<"?">>

VARIABLES target, name, raw, stored

vars == <<target, name, raw, stored>>

Init ==
  /\ target \in TargetDirs
  /\ name \in Names
  /\ raw \in Links
  /\ stored = Pending

(* processEntry's symlink branch calls cleanLinkName once per symlink.     *)
Resolve ==
  /\ stored = Pending
  /\ stored' = CleanLinkNameOf(target, name, raw)
  /\ UNCHANGED <<target, name, raw>>

Next == Resolve

Spec == Init /\ [][Next]_vars

-----------------------------------------------------------------------------
(* Reference (spec 4.5): the symlink's directory on disk, the object its   *)
(* target names, and whether that object lies under the archived root,     *)
(* decided element by element.                                             *)
LinkDir == Abs(Join(<<target, Dir(name)>>))

Resolved == IF IsAbs(raw) THEN Clean(raw) ELSE Join(<<LinkDir, raw>>)

InsideRoot == IsPrefix(Elems(Abs(target)), Elems(Resolved))

(* What the stored target names when followed from the symlink's place.    *)
Denoted == IF IsAbs(stored) THEN Clean(stored) ELSE Join(<<LinkDir, stored>>)

Done == stored # Pending

(* cleanLinkName never fails on a readable link, and the stored target,    *)
(* followed from the symlink's directory, names the same object as the     *)
(* link on disk.                                                           *)
StoredTargetDenotesTarget == Done => stored # Err /\ Denoted = Resolved

(* Spec 8: a target inside the archived root is stored as a relative      *)
(* path, so the archive can be extracted anywhere.                         *)
InsideTargetsBecomeRelative == Done /\ InsideRoot => ~IsAbs(stored)

(* Spec 8: a target outside the archived root is stored as the absolute    *)
(* resolved path, unchanged.                                               *)
OutsideTargetsStayAbsolute == Done /\ ~InsideRoot => stored = Resolved

=============================================================================
