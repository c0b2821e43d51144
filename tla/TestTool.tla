------------------------------ MODULE TestTool ------------------------------
(***************************************************************************)
(* The finalizer stack and temporary-object helpers of                     *)
(* src/testtool/testtool.go, over one test.  StartTest builds the TestTool *)
(* and the test defers tt.FinishTest().  The test body calls TempDirMode,  *)
(* TempFileMode, WriteTempFileMode and AddTestFinalizer, may fail an       *)
(* assertion, and may call tt.FinishTest() itself.  A failed check calls   *)
(* Fatalf (src/unnamed/part_000), whose t.Fatalf ends the test goroutine   *)
(* with runtime.Goexit: the deferred calls still run, among them           *)
(* FinishTest.  A panic unwinds to the deferred FinishTest the same way.   *)
(*                                                                         *)
(* Temporary objects are numbered 1..MaxObjects in creation order; a       *)
(* finalizer is a record of what it removes (0 for a test's own            *)
(* finalizer) and whether it panics.                                       *)
(***************************************************************************)
EXTENDS Integers, Sequences, SequencesExt

CONSTANTS
  MaxObjects,     \* temporary objects a test creates
  MaxFinalizers,  \* finalizers a test registers
  Faults,         \* subset of {"create", "chmod", "write", "panic"}
  Errors,         \* error values the body hands to the TestExpect* checks
  Timeouts,       \* timeout arguments of Timeout, in clock ticks
  Sleeps          \* sleep arguments of Timeout, in clock ticks (> 0)

VARIABLES
  registered,   \* finalizers registered so far
  phase,        \* "body", "deferred" (running the deferred calls), "done"
  finalizers,   \* tt.Finalizers
  created,      \* temporary objects created so far
  disk,         \* temporary objects that exist
  openFiles,    \* temporary files whose descriptor is open
  ran,          \* ids of the finalizers run, in order
  panicking,    \* a panic is unwinding the test goroutine
  orphans,      \* objects created without a removal finalizer (history)
  timer,        \* the body's call of Timeout: its state and time left
  lastCheck     \* the last TestExpect* check: its error and outcome (history)

vars == <<registered, phase, finalizers, created, disk, openFiles, ran, panicking,
          orphans, timer, lastCheck>>

Finalizer(id, obj, panics) == [id |-> id, obj |-> obj, panics |-> panics]

(* A Go error value: the nil interface (kind "none"), or a value of some  *)
(* dynamic type, whose reflect kind may or may not admit nil.             *)
NilInterface == [kind |-> "none", isNil |-> TRUE]

NilableKinds == {"ptr", "map", "chan", "func", "slice"}

(* isRealError: "no" for nil and for a nil of a concrete type.  A value   *)
(* from reflect.ValueOf can always Interface(), so v.IsNil() is reached,  *)
(* and it panics for a kind that cannot be nil (struct, uintptr, ...).    *)
isRealError(e) ==
  CASE e.kind = "none"             -> "no"
  []   e.kind \notin NilableKinds  -> "panic"
  []   e.isNil                     -> "no"
  []   OTHER                       -> "yes"

(* TestExpectSuccess: Fatalf if err != nil && isRealError(err).           *)
TestExpectSuccess(e) ==
  IF e.kind = "none" THEN "pass"
  ELSE [yes |-> "fatal", no |-> "pass", panic |-> "panic"][isRealError(e)]

(* TestExpectError: Fatalf if err == nil.                                 *)
TestExpectError(e) == IF e.kind = "none" THEN "fatal" ELSE "pass"

Unused == [state |-> "unused", left |-> 0, timeout |-> 0, sleep |-> 0]

-----------------------------------------------------------------------------
(* StartTest: an empty finalizer list, nothing created.                    *)
Init ==
  /\ registered = 0
  /\ phase = "body"
  /\ finalizers = <<>>
  /\ created = 0
  /\ disk = {}
  /\ openFiles = {}
  /\ ran = <<>>
  /\ panicking = FALSE
  /\ orphans = {}
  /\ timer = Unused
  /\ lastCheck = [check |-> "none", err |-> NilInterface, outcome |-> "pass"]

(* Fatalf: t.Fatalf ends the body; the deferred calls run next.            *)
Fatalf == phase' = "deferred"

(* The loop of FinishTest, from the last finalizer of fs to the first:    *)
(* each runs in turn (a removal deletes its object); a panicking one ends  *)
(* the loop.                                                               *)
RECURSIVE RunFinalizers(_, _, _)
RunFinalizers(fs, gone, order) ==
  IF fs = <<>> THEN [gone |-> gone, ran |-> order, panicked |-> FALSE]
  ELSE LET f == Last(fs)
           g == gone \cup {f.obj}
           o == Append(order, f.id)
       IN  IF f.panics THEN [gone |-> g, ran |-> o, panicked |-> TRUE]
           ELSE RunFinalizers(Front(fs), g, o)

\* mutant: tt.Finalizers is not cleared after the loop
FinishTestKeepsList(r) == finalizers

(* tt.Finalizers = nil, reached only when no finalizer panicked.           *)
ListAfterFinish(r) == IF r.panicked THEN finalizers ELSE <<>>

(* FinishTest as one call: the loop, then the list cleared.  A panic      *)
(* leaves the list as it was.                                              *)
FinishTest(r) ==
  /\ disk' = disk \ r.gone
  /\ ran' = ran \o r.ran
  /\ finalizers' = ListAfterFinish(r)

\* mutant: the loop condition is i > 0, so tt.Finalizers[0] never runs
FinishResultSkipsFirst ==
  RunFinalizers(IF finalizers = <<>> THEN <<>> ELSE Tail(finalizers), {}, <<>>)

FinishResult == RunFinalizers(finalizers, {}, <<>>)

-----------------------------------------------------------------------------
(* The body runs, and is not blocked in Timeout.                          *)
InBody == phase = "body" /\ timer.state # "polling"

CanRegister == InBody /\ registered < MaxFinalizers

(* Appends the next finalizer, removing obj, to tt.Finalizers.             *)
Register(obj, panics) ==
  /\ registered' = registered + 1
  /\ finalizers' = Append(finalizers, Finalizer(registered + 1, obj, panics))

CanCreate == CanRegister /\ created < MaxObjects

(* ioutil.TempFile / TempDir failing: nothing created, Fatalf.             *)
CreateFails ==
  /\ CanCreate
  /\ "create" \in Faults
  /\ Fatalf
  /\ UNCHANGED <<registered, finalizers, created, disk, openFiles, ran, panicking, orphans, timer, lastCheck>>

(* os.Chmod failing on the new object: Fatalf before the finalizer that    *)
(* removes it is registered, and, for a file, before the deferred Close.   *)
ChmodFails ==
  /\ CanCreate
  /\ "chmod" \in Faults
  /\ \E isFile \in BOOLEAN :
       /\ openFiles' = IF isFile THEN openFiles \cup {created + 1} ELSE openFiles
  /\ created' = created + 1
  /\ disk' = disk \cup {created + 1}
  /\ orphans' = orphans \cup {created + 1}
  /\ Fatalf
  /\ UNCHANGED <<registered, finalizers, ran, panicking, timer, lastCheck>>

\* mutant: TempFileMode without its deferred f.Close()
TempModeUnclosed ==
  /\ CanCreate
  /\ created' = created + 1
  /\ disk' = disk \cup {created + 1}
  /\ Register(created + 1, FALSE)
  /\ \E isFile \in BOOLEAN :
       openFiles' = IF isFile THEN openFiles \cup {created + 1} ELSE openFiles
  /\ UNCHANGED <<phase, ran, panicking, orphans, timer, lastCheck>>

(* TempDirMode and TempFileMode succeeding: the object is created and a    *)
(* finalizer removing it is appended; the file is closed on return.        *)
TempMode ==
  /\ CanCreate
  /\ created' = created + 1
  /\ disk' = disk \cup {created + 1}
  /\ Register(created + 1, FALSE)
  /\ UNCHANGED <<phase, openFiles, ran, panicking, orphans, timer, lastCheck>>

(* WriteTempFileMode: after the removal finalizer is registered, a failed  *)
(* or short f.Write calls Fatalf; the deferred f.Close runs either way.    *)
WriteTempFileMode ==
  /\ CanCreate
  /\ created' = created + 1
  /\ disk' = disk \cup {created + 1}
  /\ Register(created + 1, FALSE)
  /\ \/ phase' = phase
     \/ "write" \in Faults /\ Fatalf
  /\ UNCHANGED <<openFiles, ran, panicking, orphans, timer, lastCheck>>

(* AddTestFinalizer with a function of the test's own, which may panic.    *)
AddTestFinalizer ==
  /\ CanRegister
  /\ \E panics \in {FALSE} \cup (IF "panic" \in Faults THEN {TRUE} ELSE {}) :
       Register(0, panics)
  /\ UNCHANGED <<phase, created, disk, openFiles, ran, panicking, orphans, timer, lastCheck>>

(* A check of the test body, TestExpectSuccess or TestExpectError, on an  *)
(* error value: it passes, calls Fatalf, or panics inside reflect; a panic *)
(* unwinds the body to the deferred calls as Fatalf's Goexit does.         *)
TestExpect ==
  /\ InBody
  /\ \E e \in Errors, check \in {"success", "error"} :
       LET outcome == IF check = "success" THEN TestExpectSuccess(e)
                                            ELSE TestExpectError(e)
       IN  /\ lastCheck' = [check |-> check, err |-> e, outcome |-> outcome]
           /\ phase' = IF outcome = "pass" THEN phase ELSE "deferred"
           /\ panicking' = (outcome = "panic")
  /\ UNCHANGED <<registered, finalizers, created, disk, openFiles, ran, orphans, timer>>

(* Timeout(l, timeout, sleep, f): end := time.Now().Add(timeout).  The     *)
(* body calls it at most once; `left` is the time until `end`.             *)
Timeout ==
  /\ InBody
  /\ timer = Unused
  /\ \E t \in Timeouts, sl \in Sleeps :
       timer' = [state |-> "polling", left |-> t, timeout |-> t, sleep |-> sl]
  /\ UNCHANGED <<registered, phase, finalizers, created, disk, openFiles, ran,
                 panicking, orphans, lastCheck>>

(* One iteration while time.Now().Before(end): f() returns true and        *)
(* Timeout returns, or f() is false and the loop sleeps; the iteration     *)
(* takes the sleep and up to one tick more for f() itself.                 *)
TimeoutPoll ==
  /\ phase = "body"
  /\ timer.state = "polling"
  /\ timer.left > 0
  /\ \/ timer' = [timer EXCEPT !.state = "returned"]
     \/ \E d \in 0..1 : timer' = [timer EXCEPT !.left = timer.left - timer.sleep - d]
  /\ UNCHANGED <<registered, phase, finalizers, created, disk, openFiles, ran,
                 panicking, orphans, lastCheck>>

(* end has passed: Fatalf("testtool: Timeout after %v").                   *)
TimeoutExpires ==
  /\ phase = "body"
  /\ timer.state = "polling"
  /\ timer.left <= 0
  /\ timer' = [timer EXCEPT !.state = "failed"]
  /\ Fatalf
  /\ UNCHANGED <<registered, finalizers, created, disk, openFiles, ran,
                 panicking, orphans, lastCheck>>

(* The body returns normally.                                              *)
BodyReturns ==
  /\ InBody
  /\ phase' = "deferred"
  /\ UNCHANGED <<registered, finalizers, created, disk, openFiles, ran, panicking, orphans, timer, lastCheck>>

(* The body calls tt.FinishTest() itself; a panic in it unwinds the body.  *)
ExplicitFinishTest ==
  /\ InBody
  /\ LET r == FinishResult IN
     /\ FinishTest(r)
     /\ panicking' = r.panicked
     /\ phase' = IF r.panicked THEN "deferred" ELSE "body"
  /\ UNCHANGED <<registered, created, openFiles, orphans, timer, lastCheck>>

(* The deferred tt.FinishTest(), also run while a panic unwinds.           *)
DeferredFinishTest ==
  /\ phase = "deferred"
  /\ LET r == FinishResult IN
     /\ FinishTest(r)
     /\ panicking' = (panicking \/ r.panicked)
  /\ phase' = "done"
  /\ UNCHANGED <<registered, created, openFiles, orphans, timer, lastCheck>>

Next ==
  \/ CreateFails \/ ChmodFails \/ TempMode \/ WriteTempFileMode
  \/ AddTestFinalizer \/ TestExpect \/ BodyReturns
  \/ Timeout \/ TimeoutPoll \/ TimeoutExpires
  \/ ExplicitFinishTest \/ DeferredFinishTest

Spec == Init /\ [][Next]_vars

-----------------------------------------------------------------------------
TypeOK ==
  /\ registered \in 0..MaxFinalizers
  /\ phase \in {"body", "deferred", "done"}
  /\ finalizers \in Seq([id : 1..MaxFinalizers, obj : 0..MaxObjects, panics : BOOLEAN])
  /\ created \in 0..MaxObjects
  /\ disk \subseteq 1..created
  /\ openFiles \subseteq disk   \* helpers close their file before returning
  /\ ran \in Seq(1..MaxFinalizers)
  /\ panicking \in BOOLEAN
  /\ orphans \subseteq 1..created
  /\ timer.state \in {"unused", "polling", "returned", "failed"}
  /\ lastCheck.outcome \in {"pass", "fatal", "panic"}

(* Once the test's deferred calls have run, every temporary object whose  *)
(* helper registered its removal is gone and every file a helper opened    *)
(* is closed, whichever check failed (Fatalf, a failed write) and whether  *)
(* or not the test called FinishTest itself.                               *)
RegisteredTempRemoved ==
  phase = "done" => disk \subseteq orphans /\ openFiles \subseteq orphans

(* No finalizer runs twice, though FinishTest may run both from the        *)
(* test body and from its defer: a test's own finalizer (closing a         *)
(* channel, stopping a server) is not required to be idempotent.           *)
FinalizersRunOnce == IsInjective(ran)

(* A real error, as the comments of TestExpectSuccess and isRealError     *)
(* define it: not nil, and not a nil stored as a concrete type.            *)
RealError(e) == e.kind # "none" /\ ~(e.kind \in NilableKinds /\ e.isNil)

(* TestExpectSuccess "Fatal's the test if err is not nil", a nil of a      *)
(* concrete type counting as nil: it fails the test through Fatalf         *)
(* exactly for a real error, lets the test go on otherwise, and never      *)
(* panics, whatever type of error value the code under test returns.       *)
ExpectSuccessFailsOnRealError ==
  lastCheck.check = "success" =>
    lastCheck.outcome = IF RealError(lastCheck.err) THEN "fatal" ELSE "pass"

=============================================================================
