SPECIFICATION Spec
CONSTANTS
  PageSize = 4
  AddrSpace = 32
  Foreign <- MCForeign
  Sizes = {2}
  Positions = {26}
  SearchRange = 4
  MaxBlocks = 3
  MaxForeign = 0
  CanFail = FALSE
  AsksForData = FALSE
INVARIANTS
  NeverOverwrites
CHECK_DEADLOCK FALSE
