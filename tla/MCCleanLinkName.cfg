CONSTANTS
  Cwd <- MCCwd
  TargetDirs <- AbsoluteTargets
  Names <- MCNames
  Links <- MCLinks

SPECIFICATION Spec
INVARIANT StoredTargetDenotesTarget
INVARIANT InsideTargetsBecomeRelative
CHECK_DEADLOCK FALSE
