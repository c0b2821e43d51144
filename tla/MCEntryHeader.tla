--------------------------- MODULE MCEntryHeader ----------------------------
(***************************************************************************)
(* Every VirtualPath text of up to 3 characters over p, "." and "/", entry *)
(* paths up to two levels deep over the names a and .a, and objects of     *)
(* every kind with mode 0644 or 04755 and owner root or 1000.              *)
(***************************************************************************)
EXTENDS EntryHeader

MCCwd == <<"/", "w">>

AllVirtualPaths == UNION {[1..n -> {"p", ".", "/"}] : n \in 0..3}

(* VirtualPaths with no ".." element.                                     *)
PlainVirtualPaths == {p \in AllVirtualPaths : DotDot \notin ToSet(Elems(p))}

MCFullNames ==
  {<<".">>, <<"a">>, <<".", "a">>, <<"a", "/", "a">>, <<"a", "/", ".", "a">>,
   <<".", "a", "/", "a">>}

MCObjects ==
  {[kind |-> k, mode |-> m, uid |-> u, gid |-> 100,
    rdev |-> IF k = "dev" THEN <<8, 1>> ELSE <<0, 0>>] :
     k \in {"dir", "symlink", "reg", "link", "dev"}, m \in {420, 2541}, u \in {0, 1000}}
=============================================================================
