CONSTANTS
  Cwd <- MCCwd
  TargetDirs <- AbsoluteTargets
  Names <- MCNames
  Links <- MCLinks

SPECIFICATION Spec
INVARIANT OutsideTargetsStayAbsolute
CHECK_DEADLOCK FALSE
