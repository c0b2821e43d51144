----------------------------- MODULE GoFilePath -----------------------------
(***************************************************************************)
(* The Unix semantics of the Go library functions src/tarhelper/tar.go     *)
(* calls on paths: filepath.Clean, Join, Dir, Abs and Rel, and             *)
(* strings.Contains.  Paths are character sequences, because the code      *)
(* tests and builds path text; the operators work on the path's elements.  *)
(***************************************************************************)
EXTENDS Integers, Sequences, SequencesExt

CONSTANT Cwd    \* the process's working directory (absolute, clean)

Sep    == "/"
Dot    == <<".">>
DotDot == <<".", ".">>
Err    == <<"!">>   \* an error return

IsAbs(p) == Len(p) > 0 /\ p[1] = Sep

(* The non-empty elements between separators.                              *)
RECURSIVE SplitFrom(_, _, _)
SplitFrom(p, cur, acc) ==
  LET done == IF cur = <<>> THEN acc ELSE Append(acc, cur) IN
  IF p = <<>> THEN done
  ELSE IF Head(p) = Sep THEN SplitFrom(Tail(p), <<>>, done)
  ELSE SplitFrom(Tail(p), Append(cur, Head(p)), acc)

Elems(p) == SplitFrom(p, <<>>, <<>>)

JoinElems(es) ==
  FoldLeft(LAMBDA acc, e : IF acc = <<>> THEN e ELSE acc \o <<Sep>> \o e, <<>>, es)

(* filepath.Clean: drop "." elements, let ".." remove the element before   *)
(* it, drop ".." at the root and keep leading ".." of a relative path.     *)
CleanStep(rooted, acc, e) ==
  CASE e = Dot                                             -> acc
  []   e = DotDot /\ acc # <<>> /\ Last(acc) # DotDot      -> Front(acc)
  []   e = DotDot /\ rooted                                -> acc
  []   OTHER                                               -> Append(acc, e)

Clean(p) ==
  LET rooted == IsAbs(p)
      body   == JoinElems(FoldLeft(LAMBDA acc, e : CleanStep(rooted, acc, e),
                                   <<>>, Elems(p)))
  IN  IF rooted THEN <<Sep>> \o body
      ELSE IF body = <<>> THEN Dot ELSE body

(* filepath.Join: empty arguments are ignored, the rest are joined with a *)
(* separator and cleaned.                                                  *)
Join(ps) ==
  LET parts == SelectSeq(ps, LAMBDA x : x # <<>>)
  IN  IF parts = <<>> THEN <<>> ELSE Clean(JoinElems(parts))

(* filepath.Dir: everything up to the last separator, cleaned.             *)
Dir(p) ==
  LET seps == {i \in 1..Len(p) : p[i] = Sep}
      last == IF seps = {} THEN 0 ELSE CHOOSE i \in seps : \A j \in seps : j <= i
  IN  Clean(SubSeq(p, 1, last))

(* filepath.Abs on Unix: clean an absolute path, join a relative one to    *)
(* the working directory.                                                  *)
Abs(p) == IF IsAbs(p) THEN Clean(p) ELSE Join(<<Cwd, p>>)

(* strings.Contains on the path text.                                      *)
StringsContains(s, sub) ==
  \E i \in 0..(Len(s) - Len(sub)) : SubSeq(s, i + 1, i + Len(sub)) = sub

(* filepath.Rel: fails when exactly one path is absolute, or when the      *)
(* base has a ".." where the two part; otherwise one ".." per remaining    *)
(* element of the base, then the rest of the target.                       *)
Rel(basepath, targpath) ==
  LET base == Clean(basepath)
      targ == Clean(targpath)
      eb   == IF base = Dot THEN <<>> ELSE Elems(base)
      et   == Elems(targ)
      k    == Len(LongestCommonPrefix({eb, et}))
      ups  == [i \in 1..(Len(eb) - k) |-> DotDot]
  IN  CASE targ = base                                 -> Dot
      []   IsAbs(base) # IsAbs(targ)                   -> Err
      []   k < Len(eb) /\ eb[k + 1] = DotDot           -> Err
      []   OTHER -> JoinElems(ups \o SubSeq(et, k + 1, Len(et)))

=============================================================================
