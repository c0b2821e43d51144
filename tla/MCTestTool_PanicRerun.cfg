CONSTANTS
  MaxObjects = 2
  MaxFinalizers = 3
  Faults <- PanicFault
  Errors <- PointerErrors
  Timeouts = {2}
  Sleeps = {1}

SPECIFICATION Spec
INVARIANT FinalizersRunOnce
CHECK_DEADLOCK FALSE
