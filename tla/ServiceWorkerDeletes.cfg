SPECIFICATION Spec
CONSTANTS
  NumVersions = 2
  OfflineFiles = {"index"}
  FrameworkFiles = {}
  Shared = {"index"}
  FetchRetries = 0
PROPERTIES
  DeletesPreviousOnly
