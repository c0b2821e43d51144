CONSTANTS
  G_a = G_a
  G_b = G_b
  G_tmp = G_tmp
  MountIno = 3
  Nodes <- MCNodes
  Root <- MCRoot
  Kind <- MCKind
  Children <- MCChildren
  Dev <- MCDev
  Ino <- MCIno
  Nlink <- MCNlink
  Size <- MCSize
  Globs <- MCGlobs
  MatchFull <- MCMatchFull
  MatchBase <- MCMatchBase
  ExcludeArgs <- MCExcludeArgs
  MaxExcludes = 2
  Compressions <- AllCompressions
  Faults <- AllFaults

SPECIFICATION Spec
INVARIANT ErrorLeavesNoTrailer
CHECK_DEADLOCK FALSE
