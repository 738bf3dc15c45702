SPECIFICATION MCSpec
CONSTANTS
  fa = fa
  fb = fb
  Functions <- MCFunctions
  Tables <- MCTables
  NumDependencies = 1
  MaxCommands = 2
  MaxPresses = 2
  MaxEvents = 2
INVARIANTS
  OneAnswerEach
  SavedIsComplete
  DocumentsAgree
  NothingLost
PROPERTIES
  ReadyMeansHeard
  EveryCallEnds
  FlushedByItself
CHECK_DEADLOCK FALSE
