CONSTANTS
  MaxObjects = 1
  MaxFinalizers = 1
  Faults <- HelperFaults
  Errors <- MCErrors
  Timeouts = {2}
  Sleeps = {1}

SPECIFICATION Spec
INVARIANT ExpectSuccessFailsOnRealError
CHECK_DEADLOCK FALSE
