----------------------------- MODULE TarArchive -----------------------------
(***************************************************************************)
(* The directory-tree archiver of src/tarhelper/tar.go: a Tar is          *)
(* configured (ExcludePath, Compression), then Archive() walks the target  *)
(* tree depth-first with processEntry/processDirectory and writes one tar  *)
(* entry per object through the tar writer, optionally wrapped in gzip.    *)
(*                                                                         *)
(* The filesystem is a constant tree (Kind, Children in the order          *)
(* ioutil.ReadDir returns them, and the stat fields Dev, Ino, Nlink,       *)
(* Size).  The Go call stack of the recursion is the variable `stack`: one *)
(* frame per processDirectory loop, holding the children still to visit.   *)
(* Every I/O call that can fail is a nondeterministic outcome drawn from   *)
(* the constant Faults; any failure returns from Archive, which runs its   *)
(* deferred closes.  The archive stream is a sequence of items: a header   *)
(* per entry, the data of a regular file, and the end-of-archive trailer.  *)
(* Entry names are the node's relative path (header.Name is "./" + path);  *)
(* modes, owners and symlink targets are left out here.                    *)
(***************************************************************************)
EXTENDS Integers, Sequences, SequencesExt, Functions, TLC

CONSTANTS
  Nodes,          \* filesystem objects under the target, named by relative path
  Root,           \* the target directory itself, visited as "."
  Kind,           \* Nodes -> {"dir","symlink","reg","dev","socket","fifo"}
  Children,       \* Nodes -> Seq(Nodes): the directory listing, in ReadDir order
  Dev, Ino,       \* Nodes -> Nat: stat.Dev and stat.Ino
  Nlink,          \* Nodes -> Nat: stat.Nlink (links may lie outside the tree)
  Size,           \* Nodes -> Nat: size of a regular file
  Globs,          \* glob patterns, as model values
  MatchFull,      \* Globs -> SUBSET Nodes: filepath.Match(glob, fullName)
  MatchBase,      \* Globs -> SUBSET Nodes: filepath.Match(glob, Base(fullName))
  ExcludeArgs,    \* arguments a caller may pass to ExcludePath
  MaxExcludes,    \* bound on the number of ExcludePath calls
  Compressions,   \* values a caller may assign to Tar.Compression
  Faults          \* the I/O failures the environment may inject

ASSUME Root \in Nodes /\ Kind[Root] = "dir"
ASSUME MaxExcludes \in Nat

(* A pattern as stored in ExcludedPaths: the glob preceded by `slashes`    *)
(* leading separators.  A pattern that still starts with "/" matches no    *)
(* relative name.                                                          *)
Patterns == [slashes : 0..2, glob : Globs]

ErrorKinds == {"bzip2Unsupported", "detectInvalid", "unknownCompression",
               "statRoot", "readDir", "readlink", "open", "readFile",
               "shrink", "sink", "missedBytes"}

VARIABLES
  phase,          \* "configure" before Archive(), "walk" inside it, "done" after
  compression,    \* Tar.Compression
  excludedPaths,  \* Tar.ExcludedPaths
  hardLinks,      \* Tar.hardLinks: inode -> first path archived for it
  stack,          \* processDirectory frames: children still to process
  out,            \* the tar stream as it reaches the destination
  tw,             \* tar writer state: sticky error, bytes still owed for the entry
  result,         \* what Archive() returned: "none" while running
  excludeArgs     \* history: the arguments of the ExcludePath calls

vars == <<phase, compression, excludedPaths, hardLinks, stack, out, tw, result,
          excludeArgs>>

-----------------------------------------------------------------------------
(* Items of the archive stream.                                            *)
Hdr(n, type, link) == [tag |-> "hdr", node |-> n, type |-> type, link |-> link]
Data(n) == [tag |-> "data", node |-> n]
Trailer == [tag |-> "trailer"]
NoLink == "-"

Items == {Hdr(n, t, l) : n \in Nodes, t \in {"dir", "symlink", "reg", "link", "dev"},
                         l \in Nodes \cup {NoLink}}
         \cup {Data(n) : n \in Nodes} \cup {Trailer}

SameFile(m, n) == Dev[m] = Dev[n] /\ Ino[m] = Ino[n]

-----------------------------------------------------------------------------
(* NewTar: permissions kept, owners dropped, no exclusions, an empty       *)
(* hard-link table.  The zero value of Compression is NONE.                *)
Init ==
  /\ phase = "configure"
  /\ compression = "NONE"
  /\ excludedPaths = <<>>
  /\ excludeArgs = <<>>
  /\ hardLinks = [i \in {} |-> Root]
  /\ stack = <<>>
  /\ out = <<>>
  /\ tw = [err |-> FALSE, nb |-> FALSE]
  /\ result = "none"

(* The caller assigns the exported Compression field.                      *)
SetCompression(c) ==
  /\ phase = "configure"
  /\ compression' = c
  /\ UNCHANGED <<phase, excludedPaths, excludeArgs, hardLinks, stack, out, tw, result>>

\* mutant: the leading separator is stripped without checking for it
ExcludePathUnchecked(name) ==
  /\ phase = "configure"
  /\ Len(excludedPaths) < MaxExcludes
  /\ excludedPaths' = Append(excludedPaths, [name EXCEPT !.slashes = @ - 1])
  /\ excludeArgs' = Append(excludeArgs, name)
  /\ UNCHANGED <<phase, compression, hardLinks, stack, out, tw, result>>

\* mutant: the leading separator is never stripped
ExcludePathNoStrip(name) ==
  /\ phase = "configure"
  /\ Len(excludedPaths) < MaxExcludes
  /\ excludedPaths' = Append(excludedPaths, name)
  /\ excludeArgs' = Append(excludeArgs, name)
  /\ UNCHANGED <<phase, compression, hardLinks, stack, out, tw, result>>

(* ExcludePath strips one leading separator and appends the pattern.       *)
ExcludePath(name) ==
  /\ phase = "configure"
  /\ Len(excludedPaths) < MaxExcludes
  /\ excludedPaths' = Append(excludedPaths,
                        [name EXCEPT !.slashes = IF @ > 0 THEN @ - 1 ELSE 0])
  /\ excludeArgs' = Append(excludeArgs, name)
  /\ UNCHANGED <<phase, compression, hardLinks, stack, out, tw, result>>

\* mutant: only the full name is matched, not the base name
ShouldBeExcludedFullOnly(n) ==
  \E i \in 1..Len(excludedPaths) :
    excludedPaths[i].slashes = 0 /\ n \in MatchFull[excludedPaths[i].glob]

(* shouldBeExcluded: some pattern matches the full name or its base name.  *)
ShouldBeExcluded(n) ==
  \E i \in 1..Len(excludedPaths) :
    LET p == excludedPaths[i]
    IN  p.slashes = 0 /\ (n \in MatchFull[p.glob] \/ n \in MatchBase[p.glob])

-----------------------------------------------------------------------------
(* Returning from Archive(): the deferred closes run in reverse order of   *)
(* registration.  The gzip writer's Close was deferred after the tar       *)
(* writer's, so it runs first; the tar writer's Close then writes its      *)
(* trailer into a closed gzip stream, which the destination never gets.    *)
SinkOpenAtTarClose == compression = "NONE"

(* tar.Writer.Close: its Flush fails while bytes of the last entry are     *)
(* owed, and nothing is written after a sticky error; otherwise it writes  *)
(* the two zero blocks of the trailer.                                     *)
TarCloseWrites(w) == ~w.err /\ ~w.nb

\* mutant: the tar writer is never closed
FinishWithoutClose(res, o, w) ==
  /\ result' = res
  /\ phase' = "done"
  /\ stack' = <<>>
  /\ tw' = w
  /\ out' = o

Finish(res, o, w) ==
  /\ result' = res
  /\ phase' = "done"
  /\ stack' = <<>>
  /\ tw' = w
  /\ out' = IF TarCloseWrites(w) /\ SinkOpenAtTarClose THEN Append(o, Trailer) ELSE o

(* Archive(): select the writer by compression; stat the target and start  *)
(* processEntry(".").  BZIP2, DETECT and unknown values return before any  *)
(* writer exists, so nothing is closed.                                    *)
ArchiveRejects ==
  /\ phase = "configure"
  /\ compression \notin {"NONE", "GZIP"}
  /\ result' = CASE compression = "BZIP2"  -> "bzip2Unsupported"
               []   compression = "DETECT" -> "detectInvalid"
               []   OTHER                  -> "unknownCompression"
  /\ phase' = "done"
  /\ UNCHANGED <<compression, excludedPaths, excludeArgs, hardLinks, stack, out, tw>>

ArchiveStartWalk ==
  /\ phase = "configure"
  /\ compression \in {"NONE", "GZIP"}
  /\ phase' = "walk"
  /\ stack' = << <<Root>> >>
  /\ UNCHANGED <<compression, excludedPaths, excludeArgs, hardLinks, out, tw, result>>

ArchiveStatFails ==
  /\ phase = "configure"
  /\ compression \in {"NONE", "GZIP"}
  /\ "statRoot" \in Faults
  /\ Finish("statRoot", out, tw)
  /\ UNCHANGED <<compression, excludedPaths, excludeArgs, hardLinks>>


-----------------------------------------------------------------------------
(* processEntry of the next child of the innermost processDirectory loop.  *)
Current == Head(Last(stack))
Popped  == [stack EXCEPT ![Len(stack)] = Tail(@)]

Visiting ==
  /\ phase = "walk"
  /\ stack # <<>>
  /\ Last(stack) # <<>>

(* A regular file met again under an inode already in the table.  The     *)
(* table is keyed by stat.Ino alone.                                       *)
IsLinkAgain(n) == Nlink[n] > 1 /\ Ino[n] \in DOMAIN hardLinks

(* The first path of a multiply-linked inode is recorded before its header *)
(* is written.                                                             *)
NextHardLinks(n) ==
  IF Kind[n] = "reg" /\ Nlink[n] > 1 /\ Ino[n] \notin DOMAIN hardLinks
  THEN hardLinks @@ (Ino[n] :> n)
  ELSE hardLinks

(* The header built for n, and the entry written on success: a link entry  *)
(* has size 0 and no data, a regular file is followed by its content.      *)
\* mutant: the link entry names itself instead of the recorded path
HeaderLinkSelf(n) ==
  CASE Kind[n] = "reg" /\ IsLinkAgain(n) -> Hdr(n, "link", n)
  []   Kind[n] = "reg"                   -> Hdr(n, "reg", NoLink)
  []   OTHER                             -> Hdr(n, Kind[n], NoLink)

Header(n) ==
  CASE Kind[n] = "reg" /\ IsLinkAgain(n) -> Hdr(n, "link", hardLinks[Ino[n]])
  []   Kind[n] = "reg"                   -> Hdr(n, "reg", NoLink)
  []   OTHER                             -> Hdr(n, Kind[n], NoLink)

\* mutant: the size of a link entry is not reset to 0
HeaderSizeKept(n) == IF Kind[n] = "reg" THEN Size[n] ELSE 0

HeaderSize(n) == IF Header(n).type = "reg" THEN Size[n] ELSE 0

(* The content is copied only while the type flag is still TypeReg.        *)
Copies(n) == Header(n).type = "reg"

EntryItems(n) ==
  <<Header(n)>> \o (IF Copies(n) /\ Size[n] > 0 THEN <<Data(n)>> ELSE <<>>)

(* Bytes of the entry's declared size that nothing was copied for.         *)
Owed(n) == HeaderSize(n) > 0 /\ ~Copies(n)

(* After a successful entry a directory's listing becomes the next frame.  *)
NextStack(n) ==
  IF Kind[n] = "dir" THEN Append(Popped, Children[n]) ELSE Popped

(* Failures before the header: os.Readlink for a symlink, and the re-stat  *)
(* of a device, whose nil FileInfo is dereferenced (a panic).              *)
PreHeaderFaults(n) ==
  CASE Kind[n] = "symlink" -> {"readlink"} \cap Faults
  []   Kind[n] = "dev"     -> {"restat"} \cap Faults
  []   OTHER               -> {}

(* Failures after the header: ReadDir of a directory; os.Open and the      *)
(* read side of io.Copy of a regular file whose content is written; and    *)
(* "shrink", a file cut short after it was listed: io.Copy stops at EOF    *)
(* without error and the Flush that follows reports the bytes missing.     *)
PostHeaderFaults(n) ==
  CASE Kind[n] = "dir"                        -> {"readDir"} \cap Faults
  []   Header(n).type = "reg" /\ Size[n] > 0  -> {"open", "readFile", "shrink"} \cap Faults
  []   Header(n).type = "reg"                 -> {"open"} \cap Faults
  []   OTHER                                  -> {}

Writes(n) == Kind[n] \in {"dir", "symlink", "reg", "dev"}

SkipExcluded ==
  /\ Visiting
  /\ ShouldBeExcluded(Current)
  /\ stack' = Popped
  /\ UNCHANGED <<phase, compression, excludedPaths, excludeArgs, hardLinks, out, tw, result>>

(* Sockets (and any other type, such as a FIFO) are skipped silently.      *)
SkipUnsupported ==
  /\ Visiting
  /\ ~ShouldBeExcluded(Current)
  /\ ~Writes(Current)
  /\ stack' = Popped
  /\ UNCHANGED <<phase, compression, excludedPaths, excludeArgs, hardLinks, out, tw, result>>

EmitEntry ==
  /\ Visiting
  /\ LET n == Current IN
     /\ ~ShouldBeExcluded(n)
     /\ Writes(n)
     /\ ~tw.nb
     /\ out' = out \o EntryItems(n)
     /\ hardLinks' = NextHardLinks(n)
     /\ stack' = NextStack(n)
     /\ tw' = [tw EXCEPT !.nb = Owed(n)]
  /\ UNCHANGED <<phase, compression, excludedPaths, excludeArgs, result>>

PreHeaderFault ==
  /\ Visiting
  /\ LET n == Current IN
     /\ ~ShouldBeExcluded(n)
     /\ \E f \in PreHeaderFaults(n) :
          Finish(IF f = "restat" THEN "panic" ELSE f, out, tw)
  /\ UNCHANGED <<compression, excludedPaths, excludeArgs, hardLinks>>

(* WriteHeader fails: its leading Flush reports bytes still owed for the   *)
(* previous entry, or the destination rejects the write.  Either error     *)
(* sticks in the tar writer.                                               *)
HeaderFault ==
  /\ Visiting
  /\ LET n == Current IN
     /\ ~ShouldBeExcluded(n)
     /\ Writes(n)
     /\ tw.nb \/ "sink" \in Faults
     /\ hardLinks' = NextHardLinks(n)
     /\ Finish(IF tw.nb THEN "missedBytes" ELSE "sink", out, [tw EXCEPT !.err = TRUE])
  /\ UNCHANGED <<compression, excludedPaths, excludeArgs>>

(* The tar writer after failure f of entry n: the content stays owed, and  *)
(* a failed Flush also makes its error sticky.                             *)
FaultWriter(n, f) ==
  [err |-> tw.err \/ f = "shrink", nb |-> HeaderSize(n) > 0]

\* mutant: processDirectory ignores a ReadDir error and returns nil
PostHeaderFaultSwallowed ==
  /\ Visiting
  /\ LET n == Current IN
     /\ ~ShouldBeExcluded(n)
     /\ Writes(n)
     /\ ~tw.nb
     /\ hardLinks' = NextHardLinks(n)
     /\ \E f \in PostHeaderFaults(n) :
          IF f = "readDir"
          THEN /\ out' = Append(out, Header(n))
               /\ stack' = Popped
               /\ UNCHANGED <<phase, tw, result>>
          ELSE Finish(f, Append(out, Header(n)), FaultWriter(n, f))
  /\ UNCHANGED <<compression, excludedPaths, excludeArgs>>

\* mutant: the error of the Flush after io.Copy is not checked
PostHeaderFlushIgnored ==
  /\ Visiting
  /\ LET n == Current IN
     /\ ~ShouldBeExcluded(n)
     /\ Writes(n)
     /\ ~tw.nb
     /\ hardLinks' = NextHardLinks(n)
     /\ \E f \in PostHeaderFaults(n) :
          IF f = "shrink"
          THEN /\ out' = Append(out, Header(n))
               /\ stack' = Popped
               /\ tw' = FaultWriter(n, f)
               /\ UNCHANGED <<phase, result>>
          ELSE Finish(f, Append(out, Header(n)), FaultWriter(n, f))
  /\ UNCHANGED <<compression, excludedPaths, excludeArgs>>

(* The header is written, then ReadDir, Open or the copy fails; the bytes  *)
(* of the regular file's content stay owed to the tar writer.              *)
PostHeaderFault ==
  /\ Visiting
  /\ LET n == Current IN
     /\ ~ShouldBeExcluded(n)
     /\ Writes(n)
     /\ ~tw.nb
     /\ hardLinks' = NextHardLinks(n)
     /\ \E f \in PostHeaderFaults(n) :
          Finish(f, Append(out, Header(n)), FaultWriter(n, f))
  /\ UNCHANGED <<compression, excludedPaths, excludeArgs>>

(* processDirectory's loop ends: return to the enclosing loop, or, for the *)
(* call made by Archive() itself, return nil from Archive().               *)
ReturnFromDirectory ==
  /\ phase = "walk"
  /\ Len(stack) > 1
  /\ Last(stack) = <<>>
  /\ stack' = Front(stack)
  /\ UNCHANGED <<phase, compression, excludedPaths, excludeArgs, hardLinks, out, tw, result>>

ArchiveDone ==
  /\ phase = "walk"
  /\ stack = << <<>> >>
  /\ Finish("ok", out, tw)
  /\ UNCHANGED <<compression, excludedPaths, excludeArgs, hardLinks>>

-----------------------------------------------------------------------------
Configure ==
  \/ \E c \in Compressions : SetCompression(c)
  \/ \E a \in ExcludeArgs : ExcludePath(a)

Archive ==
  \/ ArchiveRejects
  \/ ArchiveStartWalk
  \/ ArchiveStatFails

Walk ==
  \/ SkipExcluded
  \/ SkipUnsupported
  \/ EmitEntry
  \/ PreHeaderFault
  \/ HeaderFault
  \/ PostHeaderFault
  \/ ReturnFromDirectory
  \/ ArchiveDone

Next == Configure \/ Archive \/ Walk

Spec == Init /\ [][Next]_vars

-----------------------------------------------------------------------------
(* Reference: the archive the spec describes.  A depth-first pre-order     *)
(* walk of the tree in listing order that drops excluded objects with      *)
(* their whole subtree and skips sockets and other types; the first        *)
(* visited path of a multiply-linked file (same device and inode) carries  *)
(* the content, every later one is a link entry naming it.                 *)
(* The globs in force, from the arguments the caller passed: ExcludePath   *)
(* takes a path "relative to the toplevel path", so a glob with or without *)
(* one leading separator names the same objects.  A glob after two        *)
(* separators names no path below the top level and excludes nothing.     *)
ActiveGlobs == {a.glob : a \in {b \in ToSet(excludeArgs) : b.slashes <= 1}}

SpecExcluded(G, n) == \E g \in G : n \in MatchFull[g] \cup MatchBase[g]

Archivable(n) == Kind[n] \notin {"socket", "fifo"}

RECURSIVE PreOrder(_, _), PreOrderList(_, _)
PreOrder(G, n) ==
  IF SpecExcluded(G, n) \/ ~Archivable(n) THEN <<>>
  ELSE <<n>> \o (IF Kind[n] = "dir" THEN PreOrderList(G, Children[n]) ELSE <<>>)
PreOrderList(G, cs) ==
  IF cs = <<>> THEN <<>> ELSE PreOrder(G, Head(cs)) \o PreOrderList(G, Tail(cs))

FirstCopy(vs, i) ==
  LET earlier == {j \in 1..i-1 : SameFile(vs[j], vs[i])}
  IN  IF Kind[vs[i]] = "reg" /\ Nlink[vs[i]] > 1 /\ earlier # {}
      THEN vs[CHOOSE j \in earlier : \A k \in earlier : j <= k]
      ELSE NoLink

ExpectedItems(vs, i) ==
  LET n == vs[i] IN
  CASE FirstCopy(vs, i) # NoLink -> <<Hdr(n, "link", FirstCopy(vs, i))>>
  []   Kind[n] = "reg"           -> <<Hdr(n, "reg", NoLink)>>
                                    \o (IF Size[n] > 0 THEN <<Data(n)>> ELSE <<>>)
  []   OTHER                     -> <<Hdr(n, Kind[n], NoLink)>>

ExpectedUnder(G) ==
  LET vs == PreOrder(G, Root)
  IN  FlattenSeq([i \in 1..Len(vs) |-> ExpectedItems(vs, i)])

(* The spec's archive for each set of exclusions (a constant table).       *)
ExpectedTable == [G \in SUBSET Globs |-> ExpectedUnder(G)]

Expected == ExpectedTable[ActiveGlobs]

(* The entries written so far, without the trailer.                        *)
Entries == SelectSeq(out, LAMBDA x : x # Trailer)

-----------------------------------------------------------------------------
TypeOK ==
  /\ phase \in {"configure", "walk", "done"}
  /\ compression \in Compressions \cup {"NONE"}
  /\ excludedPaths \in Seq(Patterns)
  /\ excludeArgs \in Seq(Patterns)
  /\ hardLinks \in [DOMAIN hardLinks -> Nodes]
  /\ stack \in Seq(Seq(Nodes))
  /\ out \in Seq(Items)
  /\ tw \in [err : BOOLEAN, nb : BOOLEAN]
  /\ result \in {"none", "ok", "panic"} \cup ErrorKinds

(* Hard links (processEntry, stat.Nlink > 1): every link entry names a     *)
(* path that is the same file (same device and inode) and whose full       *)
(* regular entry is earlier in the archive, so extraction can link to it.  *)
HardLinkTargetsSameFile ==
  \A i \in 1..Len(out) :
    out[i].tag = "hdr" /\ out[i].type = "link" =>
      /\ SameFile(out[i].link, out[i].node)
      /\ \E j \in 1..i-1 : out[j] = Hdr(out[i].link, "reg", NoLink)

(* Whatever Archive() has written so far, including when it failed part   *)
(* way, is a prefix of the spec's archive: pre-order, listing order, no    *)
(* excluded subtree, every object at most once, content right after its    *)
(* header, and the first path of each hard-linked file carrying the data.  *)
ArchiveFollowsPreOrder == IsPrefix(Entries, Expected)

(* When Archive() returns nil, no entry of the spec's archive is missing:  *)
(* no failure of processDirectory or processEntry was swallowed.           *)
CompleteOnSuccess == result = "ok" => Entries = Expected

(* Every error Archive() returns comes from the filesystem, the           *)
(* destination or the configuration, never from the tar writer finding     *)
(* that a header's size disagrees with the bytes copied for it.  The one   *)
(* missed-bytes error the environment causes, a file that shrank after it  *)
(* was listed (the Flush after io.Copy), is labelled "shrink" apart from   *)
(* the missed-bytes error WriteHeader's Flush reports for an earlier entry *)
(* whose owed bytes the code never wrote.                                   *)
ErrorsOnlyFromEnvironment == result # "missedBytes"

(* When Archive() returns nil the destination holds a terminated archive: *)
(* the end-of-archive trailer, once, after every entry.                    *)
TerminatedOnSuccess ==
  result = "ok" => out = Entries \o <<Trailer>>

(* The same for an archive written without compression, where tar.go's    *)
(* order of the deferred closes does not matter: every configuration and   *)
(* failure that ends in nil leaves exactly one trailer after the entries.  *)
TerminatedWhenUncompressed == compression = "NONE" => TerminatedOnSuccess

(* Spec 4.1: on failure Archive() does not emit a valid archive footer, so *)
(* a failed archive cannot be mistaken for a complete one.                 *)
ErrorLeavesNoTrailer ==
  result \in ErrorKinds => Trailer \notin ToSet(out)

(* Spec 4.4/7: failing to recover a device's major/minor numbers is        *)
(* tolerated; Archive() never panics.                                      *)
NoPanic == result # "panic"

=============================================================================
