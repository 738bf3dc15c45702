SPECIFICATION Spec
CONSTANTS
  NumAssemblies = 2
  Gate = 2
INVARIANT
  CancelledIsReported
CHECK_DEADLOCK FALSE
