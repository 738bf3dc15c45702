SPECIFICATION FairSpec
CONSTANTS
  NumVersions = 2
  OfflineFiles = {"index"}
  FrameworkFiles = {"assembly"}
  Shared = {"index"}
  FetchRetries = 2
INVARIANTS
  TypeOK
  NoOlderCacheOnceActive
  InstalledHoldsFiles
PROPERTIES
  OwnCacheFirst
  EveryFetchAnswered
