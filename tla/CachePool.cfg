SPECIFICATION FairSpec
CONSTANTS
  NumFiles = 5
  MaxConcurrency = 2
  MayHang = {2}
INVARIANTS
  NothingLeftBehind
  Inductive
PROPERTIES
  NeverBlocksOthers
  Returns
  ImplementsFilePool
CHECK_DEADLOCK FALSE
