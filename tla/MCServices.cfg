SPECIFICATION ServicesSpec
CONSTANTS
  PageSize = 4
  AddrSpace = 32
  Foreign <- MCForeign
  Sizes = {2, 4}
  Positions <- MCPositions
  SearchRange = 10
  MaxBlocks = 3
  MaxForeign = 1
  CanFail = TRUE
  AsksForData = TRUE
CONSTANTS Stacks <- MCStacks
          Touches <- MCTouches
CONSTANTS libc = libc
          libart = libart
          libx = libx
          nofile = nofile
          NoFile = nofile
          none = none
          NoImage = none
          Libs <- MCLibs
          Bases = {500, 510}
          Lines <- MCLines
          Symbols = {"g", "l"}
          Images = {none, "lib", "libart"}
          Matches <- MCMatches
          Files <- MCFiles
          Global = {libc}
          MaxLoads = 2
          MaxModules = 4
INVARIANTS
  TypeOK BlocksDisjoint NearInReach AccessAsAsked
  BridgeTypeOK ContextShown HopsWithContext
  ResolverTypeOK ResolvedDefined NothingMissed
CHECK_DEADLOCK FALSE
