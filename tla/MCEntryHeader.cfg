CONSTANTS
  Cwd <- MCCwd
  VirtualPaths <- PlainVirtualPaths
  FullNames <- MCFullNames
  Objects <- MCObjects

SPECIFICATION Spec
INVARIANT ArchivePathOfEntry
CHECK_DEADLOCK FALSE
