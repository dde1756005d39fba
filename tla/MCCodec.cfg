CONSTANTS
  Jobs <- MCJobs
  Sites <- MCSites
  PageSize = 16
  BRange = 32
  AdrpRange = 64
  JmpRange = 128
  NearStep = 4
  MaxPlugins = 2
SPECIFICATION Spec
INVARIANTS DecodedLength EncodedAsMeant TrampolineReaches
CHECK_DEADLOCK FALSE
