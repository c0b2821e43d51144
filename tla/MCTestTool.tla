---------------------------- MODULE MCTestTool -----------------------------
(***************************************************************************)
(* A test that creates up to two temporary objects and registers up to     *)
(* three finalizers, under the failures each run admits.                   *)
(***************************************************************************)
EXTENDS TestTool

(* Failures of the helpers' creation, os.Chmod and write.                  *)
HelperFaults == {"create", "chmod", "write"}

(* Error values a test checks: nil, an *os.PathError and a nil *T stored   *)
(* in an error, and a syscall.Errno, whose reflect kind is uintptr.        *)
MCErrors ==
  {NilInterface,
   [kind |-> "ptr", isNil |-> FALSE],
   [kind |-> "ptr", isNil |-> TRUE],
   [kind |-> "uintptr", isNil |-> FALSE]}

(* Pointer errors only, nil or not.                                        *)
PointerErrors == {NilInterface, [kind |-> "ptr", isNil |-> FALSE]}

(* Finalizers of the test's own that may panic.                           *)
PanicFault == {"panic"}
=============================================================================
