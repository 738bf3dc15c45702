SPECIFICATION Spec
CONSTANTS
  Libraries = {"lib"}
  Cultures = {"de"}
INVARIANT
  UnreadFilesRemain
CHECK_DEADLOCK FALSE
