SPECIFICATION FairSpec
CONSTANTS
  Plain = {"p"}
  Emscripten = {"e", "f"}
  Levels = 2
INVARIANTS
  PreInitMatchesEvent
  MainAfterDependencies
  FullMeansStarted
PROPERTIES
  MainRuns
  LoaderUntilRendered
  NeverDecreases
CHECK_DEADLOCK FALSE
