SPECIFICATION MCSpec
CONSTANTS
  m1 = m1
  m2 = m2
  a1 = a1
  a2 = a2
  b1 = b1
  Modules <- MCModules
  Assemblies <- MCAssemblies
  ModuleOf <- MCModuleOf
  MaxDeltas = 3
  MaxAgents = 5
  Count = 3
  Names = {"n1", "n2", "n3"}
CHECK_DEADLOCK FALSE
INVARIANT
  LateAssembliesFollow
