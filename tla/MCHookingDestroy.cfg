SPECIFICATION Spec
CONSTANTS
  Callers = {c1}
  Pages = 3
  PageSize = 16
  InitPerm <- AllCode
  Targets <- ThumbTarget
  Elsewhere = {}
  JunkSizes = {0}
  MaxHooks = 2
  CanFail = FALSE
INVARIANT DestroyRestores
