SPECIFICATION FairSpec
CONSTANTS
  NumAssemblies = 3
  Gate = 2
INVARIANTS
  GateKept
  TimeoutIsNoCancellation
PROPERTIES
  CancelEnds
  DownloadsEnd
CHECK_DEADLOCK FALSE
