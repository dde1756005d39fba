SPECIFICATION Spec
CONSTANTS
  Callers = {c1, c2}
  Pages = 3
  PageSize = 16
  InitPerm <- AllCode
  Targets <- ThumbLastOfPage
  Elsewhere = {}
  JunkSizes = {0, 13}
  MaxHooks = 2
  CanFail = TRUE
INVARIANTS TypeOK WritableOnlyWhilePatching HookReadyWhenActive
CHECK_DEADLOCK FALSE
SYMMETRY CallerSymmetry
