SPECIFICATION MCSpec
CONSTANTS
  Libraries = {"lib"}
  Cultures = {"de"}
  Unit = 10
  Estimates = {100, 400}
  MaxTotal = 2
  Gaps = {1, 3}
  MaxReports = 7
INVARIANTS
  MovedOnce
  SatellitesStored
  ReservedForStart
PROPERTIES
  NeverBackward
CHECK_DEADLOCK FALSE
