CONSTANTS
  Programs <- MCPrograms
  Source = 1024
  Relocated = 4096
  NearPos = 1024
SPECIFICATION Spec
INVARIANTS TypeOK LinkAligned CodeDisjoint EffectKept FallThrough
PROPERTY RelocationEnds
CHECK_DEADLOCK FALSE
