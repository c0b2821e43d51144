-------------------------- MODULE MCCleanLinkName --------------------------
(***************************************************************************)
(* Paths over the characters a, b, "." and "/".  Every Readlink text of 1  *)
(* to 4 characters, for a symlink at the top of the tree and one a level   *)
(* down, with the working directory /b.                                    *)
(***************************************************************************)
EXTENDS CleanLinkName

Chars == {"a", "b", ".", "/"}

MCCwd == <<"/", "b">>
MCNames == {<<"a">>, <<"b", "/", "a">>}
MCLinks == UNION {[1..n -> Chars] : n \in 1..4}

(* Absolute, clean targets: /a and /a/b.                                   *)
AbsoluteTargets == {<<"/", "a">>, <<"/", "a", "/", "b">>}
(* A target given relative to the working directory, as NewTar(w, "a").   *)
RelativeTargets == {<<"a">>}
=============================================================================
