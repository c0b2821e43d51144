CONSTANTS
  MaxObjects = 2
  MaxFinalizers = 3
  Faults <- HelperFaults
  Errors <- MCErrors
  Timeouts = {0, 2}
  Sleeps = {1}

SPECIFICATION Spec
INVARIANT TypeOK
INVARIANT FinalizersRunOnce
INVARIANT RegisteredTempRemoved
CHECK_DEADLOCK FALSE
