SPECIFICATION MCSpec
CONSTANTS
  Projects <- MCProjects
  PathOrder <- MCPathOrder
  Versions = {1, 2}
  ModuleNames = {"a", "b"}
  TypeNames = {"t"}
  MethodNames = {"m", "n"}
  DefaultExcluded = {"n"}
  MaxRecords = 5
INVARIANTS
  UrlsServed
  LastAssemblyServed
  FolderFixesContent
  ProfileKept
CHECK_DEADLOCK FALSE
