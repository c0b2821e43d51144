# TLA+ models of the tarhelper archiver and the testtool finalizers

This directory holds TLA+ models of `src/tarhelper/tar.go`, the directory-tree archiver of this repository, and of the finalizer and temporary-file helpers of the `testtool` test harness (`src/testtool/testtool.go`, `src/unnamed/part_000`), with the TLC configurations that check them.

| Module | Models |
|---|---|
| `TarArchive` (+ `MCTarArchive`) | `NewTar`, `ExcludePath`, `Archive`, the recursive walk, the hard-link table, the exclusion filter, the writers' close order |
| `GoFilePath` | `filepath.Clean`, `Join`, `Dir`, `Abs`, `Rel` and `strings.Contains` over character paths |
| `CleanLinkName` (+ `MCCleanLinkName`) | `cleanLinkName`, the symlink target rewrite |
| `EntryHeader` (+ `MCEntryHeader`) | the header fields: name (`./`, VirtualPath, directory suffix), mode, uid/gid, device numbers |
| `TestTool` (+ `MCTestTool`) | `AddTestFinalizer`, `FinishTest`, `TempDirMode`, `TempFileMode`, `WriteTempFileMode`, `Fatalf`, `TestExpectSuccess`/`isRealError`, `TestExpectError`, `Timeout` |

## 1. Inventory

### Components

| Component | Source | State | Operations |
|---|---|---|---|
| Archiver (`Tar`) | tar.go 19-135 | `target`, `dest`, `archive`, `Compression`, `IncludePermissions`, `IncludeOwners`, `ExcludedPaths`, `VirtualPath`, `hardLinks` | `NewTar`, field assignment, `ExcludePath`, `Archive` |
| Traversal engine | tar.go 137-300 | the Go call stack of `processEntry`/`processDirectory`; the listing being iterated | `processDirectory` (ReadDir, loop), `processEntry` (one branch per kind) |
| Hard-link tracker | tar.go 233-245 | `hardLinks: inode -> first header name` | record on first sight, link entry afterwards |
| Exclusion filter | tar.go 338-350 | `ExcludedPaths` | `shouldBeExcluded` (full name, then base name) |
| Symlink resolver | tar.go 302-336 | none (pure) | `cleanLinkName` (Readlink, Abs, Clean, Contains, Rel) |
| Header fields | tar.go 162-191, 277-285 | per-entry header | name with `./` and VirtualPath, uid/gid 500, default modes, device numbers |
| Tar writer and gzip | external packages | sticky error, bytes owed for the current entry, closed flag | WriteHeader, Write, Flush, Close |
| testtool | testtool.go, part_000 | `Finalizers`, `Parameters`, LogBuffer | StartTest, AddTestFinalizer, FinishTest, temp files, Timeout, assertions |

### How the components interact

`Archive` selects the writer stack: the raw `dest`, or gzip wrapping `dest`. It then stats the target and calls `processEntry(".")`. `processEntry` first asks the exclusion filter. Next it builds a header and branches on the kind:

- A directory writes its header and recurses into `processDirectory`.
- A symlink asks the resolver for its target.
- A regular file asks the hard-link tracker whether it is a link, writes its header, and copies its content.
- A device is stat'ed again for its numbers.
- Sockets and other kinds are skipped.

Every error returns straight up the recursion. On the way out of `Archive`, the deferred closes run in reverse order of registration: gzip's Close first, then the tar writer's.

### What is hard

The code runs single-threaded, so no two goroutines interleave. The hard parts are:

- **Ordering across the recursion.** A link entry must follow the full copy of its file. A directory's header must precede its contents. Excluded subtrees must vanish whole.
- **Partial failure.** Any of ReadDir, Readlink, Open, the copy or a header write can fail after part of the archive is written. What the destination holds then depends on the tar writer's sticky error and on the bytes it is still owed.
- **Shutdown order.** Two deferred closes run in LIFO order.
- **Identity.** The filesystem identifies a file by device and inode. The code keys its table by inode only.
- **A changing filesystem.** The filesystem can change between the listing and a later stat, Open or Readlink.

### What makes each component correct (the properties)

- **Traversal:** the archive written so far is always a prefix of the pre-order archive that the spec defines. It is complete when `Archive` returns nil. The exclusions in force are computed from the `ExcludePath` arguments, not from what the code stored.
- **Hard-link tracker:** every link entry names an earlier full entry of the same file. Exactly one copy carries the content.
- **Archive/close:** a successful archive ends in one trailer. A failed one carries no valid trailer (spec 4.1). Errors come only from the environment. There is no panic.
- **Symlink resolver:** a target inside the root becomes a relative path that resolves to the same object. A target outside the root stays absolute and unchanged (spec 8).
- **Header names:** every name is relative, is the cleaned VirtualPath followed by the entry's path, and ends in `/` exactly for directories (spec 3, 6, 8).
- **testtool:** no finalizer runs twice. Once the deferred `FinishTest` has run, every object whose removal was registered is gone and every file is closed.

## 2. Plan

| Order | Module | Models | Status |
|---|---|---|---|
| 1 | `TarArchive` + `MCTarArchive` | `NewTar`, `ExcludePath`, `Archive`, `processDirectory`, `processEntry`, the hard-link table, `shouldBeExcluded`, and the defer/close contract of the writers | done (sitting 1) |
| 2 | `CleanLinkName` + `MCCleanLinkName` | `cleanLinkName` as operators over short character paths (`Dir`, `Join`, `Clean`, `Abs`, `Rel`, substring `StringsContains`) | done (sitting 1) |
| 3 | `EntryHeader` + `GoFilePath` | header names: `"./" + fullName`, VirtualPath `Clean(Join(".", VP, name))`, the trailing `/` of directories; the path operators moved to a shared module | done (sitting 2) |
| 4 | `TarArchive` extension | symlink entries that carry the target computed by `CleanLinkName`, composed by `INSTANCE`. Also a check of the path operators against Go's documented laws (Clean idempotent, and `Join(base, Rel(base, t)) = t`). | planned |
| 5 | `ArchiveSpec` | the abstract contract of a run, with a refinement from `TarArchive` | done (sitting 2), removed (sitting 6): see section 7 |
| 6 | `TestTool` | the finalizer list, the temporary-object helpers with every failure branch, and FinishTest called both explicitly and deferred | done (sitting 2) |
| 7 | `EntryHeader` extension | header modes, owners and device numbers under `IncludePermissions`/`IncludeOwners` (spec 8) | done (sitting 4) |
| 8 | `TarArchive` extension | a file that shrinks between the listing and the copy: the Flush after `io.Copy` (tar.go 260-270) | done (sitting 4) |
| 9 | `TestTool` extension | the body's checks (`TestExpectSuccess` with `isRealError`, `TestExpectError`) and `Timeout`'s loop, composed with the finalizers that run after they fail | done (sitting 5) |

## 3. Module `TarArchive`

### State

| Variable | Code |
|---|---|
| `phase` | before, inside, or after `Archive()` |
| `compression`, `excludedPaths`, `hardLinks` | the `Tar` fields |
| `stack` | the recursion: one frame per `processDirectory` loop, holding the listing entries still to visit. The bottom frame `<<".">>` is `Archive`'s own call. |
| `out` | the stream as it reaches `dest` (see below) |
| `tw` | the tar writer: `err` (sticky error), `nb` (bytes of the current entry still owed) |
| `result` | what `Archive` returned |
| `excludeArgs` | history: the arguments of the `ExcludePath` calls, read only by the reference |

Each item of `out` is a header (node, type, link target), the data of a regular file, or the trailer.

### The filesystem

The filesystem is a constant tree: `Kind`, `Children` (in ReadDir order, which is sorted by name), `Dev`, `Ino`, `Nlink` and `Size`. Glob matching (`filepath.Match`) is a constant relation, `MatchFull`/`MatchBase`, from patterns to the nodes they match.

### Actions

- `SetCompression` is the caller assigning the field, and `ExcludePath` is `ExcludePath`.
- `ArchiveRejects`, `ArchiveStartWalk` and `ArchiveStatFails` are the branches of `Archive` before the walk.
- Walk actions, one step of `processEntry` each:
  - `SkipExcluded` and `SkipUnsupported` skip the node (excluded; socket or FIFO).
  - `EmitEntry` is the successful branch for a dir, symlink, regular file or device.
  - `PreHeaderFault` is a Readlink failure, or the device re-stat failing and panicking.
  - `HeaderFault` is a WriteHeader failure.
  - `PostHeaderFault` is a ReadDir, Open or copy failure after the header. It also covers `shrink`: the file is shorter than its listed size, so `io.Copy` returns nil and the `Flush` after it fails with the bytes still owed, an error that sticks in the writer (`FaultWriter`).
- `ReturnFromDirectory` and `ArchiveDone` are loops ending.
- Every failure and the final return go through `Finish`, which runs the deferred closes:
  - The gzip Close runs first (`SinkOpenAtTarClose`).
  - The tar writer's Close writes the trailer only if it has no sticky error and owes no bytes (`TarCloseWrites`). This is taken from the tar package's contract, which is outside `src/`.

### Reference

`Expected` is the archive the spec describes. It is a recursive pre-order walk that drops excluded subtrees and skips sockets and FIFOs. The first path of a multiply-linked file (same device and inode) carries the data, and later paths are links to it. `Expected` uses its own exclusion and kind definitions, taken from the spec, so a bug in `ShouldBeExcluded` is visible.

The globs in force (`ActiveGlobs`) come from the history variable `excludeArgs`, the arguments of the `ExcludePath` calls, and not from `excludedPaths`. A glob counts with or without one leading separator, because `ExcludePath`'s comment takes the path "relative to the toplevel path". So a strip that is missing or misplaced shows up as a violation of `ArchiveFollowsPreOrder`. An argument with two leading separators excludes nothing, in the reference as in the code. The comment speaks of one leading slash and the spec is silent, so this stays a hazard.

### Not modelled here

These parts are abstracted as follows:

- **Names:** an entry is named by its node. The name text and VirtualPath are the subject of `EntryHeader`.
- **Header fields:** modes, uid/gid and device numbers are left out here and modelled in `EntryHeader`.
- **Symlink targets:** the header has no target. Only the Readlink failure is kept.
- **Writer failures:** a failed write to `dest` during the copy has the same outcome as a failed header write (sticky error), so only the header write is kept as a failure point.

## 4. Module `CleanLinkName`

`CleanLinkNameOf(targetDir, name, raw)` translates `cleanLinkName` line by line. `raw` is the text `os.Readlink` returns. The Go library functions it calls are the operators of `GoFilePath`, with their Unix semantics: `Dir`, `Join`, `Abs`, `Clean`, `Rel` and `strings.Contains`. Paths are sequences of characters, because the decision is a substring test on the text.

The state machine is one call. `Init` draws the arguments and `Resolve` stores the result.

The reference, from spec 4.5 and 8, works on path elements:

- `Resolved` is the object the link names.
- `InsideRoot` holds when the root's elements are a prefix of `Resolved`'s.
- `Denoted` is what the stored text names when followed from the symlink's directory.

Inputs: the working directory is `/b`, and there are two symlink names (`a` and `b/a`). Every Readlink text of 1 to 4 characters over `a b . /` is drawn, which is 340 texts. That includes `.`, `..`, `//`, and siblings such as `/a.` and `/ab` of the root `/a`.

## 5. Module `GoFilePath`

`GoFilePath` holds the Unix semantics of the Go path functions that `tar.go` calls, over character sequences: `Clean`, `Join` (empty arguments dropped), `Dir`, `Abs` (against the constant `Cwd`), `Rel` and `StringsContains`. `CleanLinkName` and `EntryHeader` both extend it.

## 6. Module `EntryHeader`

`EntryHeader` models the header `processEntry` builds for one object (tar.go 162-194, the mode assignments of the kind switch up to 230, and the device numbers at 276-285):

- `HeaderName(vp, fullName)` is `"./" + fullName`. With a VirtualPath it is instead `Clean(Join(".", vp, "./" + fullName))`.
- `DirSuffix` appends the `/` of a directory.
- `HeaderOwner` is the file's uid/gid with `IncludeOwners`, else 500/500.
- `HeaderMode` is `FileInfoHeader`'s mode with `IncludePermissions`. Otherwise it is the default set in the branch of the object's kind: 0755 for directories and symlinks, and 0644 for regular files. The 0644 is set before the hard-link check, so link entries get it too. A device keeps its own mode.
- `HeaderDev` is the device numbers of the re-stat. `majordev`/`minordev` are not in `src/`, so the number is an abstract (major, minor) pair.
- `Init` draws the VirtualPath, the two flags, the `fullName` that `processEntry` receives and the object (kind, mode, uid/gid, rdev). `fullName` is `"."` for the root and a `Join` of the listing below it.
- `BuildHeader` stores the header.

The hard-link table records this same name, so link entries point at it.

The reference, `ArchivePathOfEntry`, works on path elements other than `.`. A name must be relative, its elements must be those of the cleaned VirtualPath followed by those of `fullName`, and it ends in `/` exactly for directories. Mode, owner and device numbers are modelled but carry no property. Each is one assignment chosen by a flag or by the kind, so a property would only restate it. With `IncludePermissions`, `FileInfoHeader`'s conversion of the mode belongs to the vendored tar package and is abstracted as the file's mode.

Inputs: every VirtualPath of up to 3 characters over `p . /` that has no `..` element (including the empty, unset one, `/`, `/p`, `./p` and `p/`). Entry paths go two levels deep over the names `a` and `.a`. The object is one of each kind (dir, symlink, reg, link, dev), with mode 0644 or 04755 (setuid, so a forced default is visible), uid 0 or 1000 and gid 100.

Two edges of the name formula are deterministic, so they are recorded as hazards and not run:
- With VirtualPath `p` the names are `p/a`, not the `./p/a` of spec 8.
- An absolute VirtualPath with `..` elements (`/..`, `/../x`) is joined under `.`, so its `..` survives cleaning. The names then start with `..` and extract outside the destination directory. Replacing `PlainVirtualPaths` by the paths that do have a `..` element makes `ArchivePathOfEntry` fail with that witness.

## 7. No abstract specification

An earlier version had an abstract specification `ArchiveSpec` (plan, written prefix, status), with `TarArchive` refining it, and a liveness property `Termination`. Both were removed because they added nothing the invariants do not check:
- Under the refinement mapping, `Write` and `Abort` are `ArchiveFollowsPreOrder`, and `Succeed` is `CompleteOnSuccess`.
- The remaining parts of the refinement held by how the actions are written: entries are only appended, the plan does not change while running, and a rejection comes before any write.
- `Termination` held for any stack walk over the constant, finite, acyclic tree (`ReadDir` uses lstat, so symlinks are not followed). No plausible change to the Go code could break it.

## 8. Module `TestTool`

### State

| Variable | Code |
|---|---|
| `finalizers` | `tt.Finalizers`. Each record holds the object it removes (0 for a test's own finalizer) and whether it panics. |
| `registered` | the number of finalizers appended so far (their ids) |
| `created`, `disk`, `openFiles` | the temporary objects created, those that exist, and the files whose descriptor is open |
| `phase` | the test body, its deferred calls, or done |
| `ran`, `panicking` | the ids of the finalizers run, in order; whether a panic (a finalizer's, or reflect's in a check) is unwinding |
| `timer` | the body's call of `Timeout`: unused, polling, returned or failed, with the time left until `end` |
| `lastCheck` | history: the last `TestExpect*` check, its error value and its outcome |
| `orphans` | history: objects created by a helper that failed before registering their removal |

### Actions

- Helper outcomes:
  - `CreateFails`: `ioutil.TempFile`/`TempDir` fails, so `Fatalf` is called and nothing is created.
  - `ChmodFails`: `os.Chmod` fails, so `Fatalf` is called after creation but before the finalizer and the deferred `Close` exist.
  - `TempMode`: `TempDirMode` or `TempFileMode` succeeds.
  - `WriteTempFileMode`: the finalizer is registered, then a write may fail and call `Fatalf`.
- `AddTestFinalizer` registers the test's own finalizer, which may panic.
- `TestExpect` is a check of the body (src/unnamed/part_000): `TestExpectSuccess` or `TestExpectError` on an error value from the constant `Errors`.
  - An error value is the nil interface, or a dynamic value of a reflect kind with a nil flag.
  - `isRealError` follows the code. `v.CanInterface()` is always true for a `reflect.ValueOf` result, so `v.IsNil()` is reached, and it panics for a kind that cannot be nil.
  - The outcome is to pass, to call `Fatalf`, or to panic. A panic unwinds to the deferred calls as `Fatalf`'s Goexit does.
- `Timeout`, `TimeoutPoll` and `TimeoutExpires` are `Timeout`'s loop, with the time left until `end` in place of the clock (the clock itself would be unbounded):
  - `TimeoutPoll` is one iteration while `time.Now().Before(end)`: `f()` returns true and `Timeout` returns, or the loop sleeps, taking `sleep` plus up to one tick for `f()`.
  - `TimeoutExpires` is the `Fatalf` after the loop.
  - While polling, no other action of the body is enabled (`InBody`).
- `BodyReturns` is the body returning normally.
- `ExplicitFinishTest` is the test calling `tt.FinishTest()` itself. `DeferredFinishTest` is its deferred call, which also runs after `Fatalf` (runtime.Goexit) and during a panic.

`FinishTest` is one action. `RunFinalizers` is the loop from the last finalizer down, stopping at a panicking one. The list is cleared only if the loop completes.

Bounds: 2 temporary objects, 3 finalizers and one `Timeout` call per test. Every failure happens both before and after registrations, and FinishTest is called explicitly with 0 to 3 finalizers pending. The error values are nil, a non-nil pointer (`*os.PathError`), a nil pointer stored in an error, and a `syscall.Errno` (kind uintptr). The timeouts are 0 and 2 ticks, with a sleep of 1 tick, so `Timeout` both returns and expires, including the 0 timeout that expires without calling `f`.

`Timeout` carries no liveness property. Its loop ends because the time left decreases by at least the sleep on every iteration. A bug that renews `end` on each iteration would leave the modelled state unchanged, which is a stutter, so a liveness property would hold whatever the code did.

## 9. Runs

The archive runs use `MCTarArchive`. Its tree is shown in the module header:

- `a` and `b/c` are two links of one file.
- `b/x.tmp` is empty and is matched by `*.tmp` by base name only.
- `k` is a device.
- `m` is a mount point for device 2.
- `m/y` has a second link outside the tree.
- `p` is a FIFO and `s` is a socket.

Bounds: two `ExcludePath` calls, over 3 globs with 0 to 2 leading slashes. Compression takes every value, including an unknown one. Every failure point can fail. With these bounds every branch of `processEntry` is reached. A hard link is met both before and after the other link. An exclusion removes a directory with its subtree, and one removes a hard link's first copy. Every failure hits both with and without owed bytes.

| Run | cfg | Expect | Shows |
|---|---|---|---|
| archive | MCTarArchive.cfg | pass (6676 states) | `TypeOK`, `HardLinkTargetsSameFile`, `ArchiveFollowsPreOrder`, `CompleteOnSuccess`, `ErrorsOnlyFromEnvironment` and `TerminatedWhenUncompressed` (without compression, a nil return leaves exactly one trailer) hold for every configuration and failure. |
| gzip_trailer | MCTarArchive_GzipTrailer.cfg | violation | With GZIP, the trailer is written after gzip is closed and never reaches `dest` (tar.go:103). |
| cross_device_hardlink | MCTarArchive_CrossDevice.cfg | violation | `m/y` has inode 1 on device 2 and is archived as a link to `a` (tar.go:235). |
| error_trailer | MCTarArchive_ErrorTrailer.cfg | violation | A failed stat of the target still yields a terminated (empty) archive (tar.go:91). The spec is not consistent on this point: 4.1 also asks for the closes "to flush trailing format markers whenever possible". |
| device_restat_panic | MCTarArchive_DevicePanic.cfg | violation | A failed re-stat of a device panics (tar.go:281-282). |
| symlink_targets | MCCleanLinkName.cfg | pass (2720 states) | For targets `/a` and `/a/b`, `StoredTargetDenotesTarget` and `InsideTargetsBecomeRelative` hold. |
| symlink_sibling_prefix | MCCleanLinkName_Sibling.cfg | violation | Root `/a` and link `/a.`: the link is outside the root but is stored as `../a.` (tar.go:327). |
| symlink_relative_target | MCCleanLinkName_RelativeTarget.cfg | violation | Root `a` (relative) and link text `a`: `filepath.Rel("a", "/b/a/a")` fails, and the archive aborts (tar.go:329). |
| entry_names | MCEntryHeader.cfg | pass (35520 states) | `ArchivePathOfEntry` holds for every VirtualPath without `..`. |
| finalizers | MCTestTool.cfg | pass (6852 states) | With create, chmod and write failures, checks that pass, fail or panic, a `Timeout` that returns or expires, and an explicit FinishTest: `TypeOK`, `FinalizersRunOnce` and `RegisteredTempRemoved` hold. |
| expect_success_panic | MCTestTool_ExpectSuccess.cfg | violation | `TestExpectSuccess` on a `syscall.Errno` (kind uintptr) panics in `isRealError`'s `v.IsNil()` (part_000:152) instead of failing the test through `Fatalf` as its comment says. |
| panic_rerun | MCTestTool_PanicRerun.cfg | violation | A finalizer panics in an explicit FinishTest. `tt.Finalizers` is never cleared, so the deferred FinishTest runs it again (testtool.go:132). |

`CHECK_DEADLOCK FALSE` is used because `Archive` returns and the program stops there. The `done` phase has no successor. The same holds for the one-call modules `CleanLinkName` and `EntryHeader`, and for `TestTool` once the test has finished.

### Fairness

No fairness is assumed and no liveness property is checked. `Archive` is one synchronous call over a finite tree, and `Timeout`'s loop is discussed in section 8. In both, a liveness property would hold whatever the code did.

## 10. Not modelled

- **A device replaced between listing and re-stat:** its header would mix the listing's mode with the new object's numbers. The panic when it is removed is a run, but the mismatch is not.
- **Symlink targets inside `TarArchive`:** the Readlink failure is kept, and the target text is the subject of `CleanLinkName`.
- **`TestExpectZeroLength`/`NonZeroLength`, `TestExpectPanic`, `TestRequiresRoot`, `RandoTestString` and the flag `init`:**
  - The length checks are pass-or-`Fatalf` on an int, like `TestExpectError`.
  - `TestExpectPanic` compares with `TestEqual`, which is not in this repository.
  - `TestRequiresRoot` is runtime stack inspection and a file append.
  - `RandoTestString` draws a random string, and the flag `init` registers flags with the standard library.
  - None of these keeps state across calls.
- **A typed-nil error passes both `TestExpectError` and `TestExpectSuccess`:** each check matches its own comment, so this is listed as a hazard and no property is stated.
- **Timeout with a timeout of 0:** `f` is never called. It is reached in the `finalizers` run. No property is stated, because `Timeout`'s comment does not say what a timeout of 0 should do.
- **`LogBuffer`/logray:** external packages.
- **Reusing one `Tar` for two `Archive` calls:** this keeps the hard-link table of the first run. Spec 3 defines one Archiver per run, so it is listed as a hazard.
