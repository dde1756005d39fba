SPECIFICATION Spec
CONSTANTS
  Callers = {c1}
  Pages = 5
  PageSize = 16
  InitPerm <- CodeAndData
  Targets <- ArmTargets
  Elsewhere <- NoFunctions
  JunkSizes = {0}
  MaxHooks = 3
  CanFail = FALSE
INVARIANTS MemoryMatchesEntries OriginRunsProgramCode NoFault CodePagesRestored
PROPERTY ImplementsHookTable
