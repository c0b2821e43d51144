CONSTANTS
  Cwd <- MCCwd
  TargetDirs <- RelativeTargets
  Names <- MCNames
  Links <- MCLinks

SPECIFICATION Spec
INVARIANT StoredTargetDenotesTarget
CHECK_DEADLOCK FALSE
