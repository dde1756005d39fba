SPECIFICATION Spec
CONSTANTS
  Callers = {c1}
  Pages = 5
  PageSize = 16
  InitPerm <- CodeAndData
  Targets <- ArmTargets
  Elsewhere = {}
  JunkSizes = {0}
  MaxHooks = 2
  CanFail = FALSE
INVARIANT PermissionsRestored
