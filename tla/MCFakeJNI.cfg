SPECIFICATION Spec
CONSTANTS
  Main = m
  Helpers = {w}
  ClassNames = {A}
  MethodNames = {f}
  Heap = {h1, h2, h3}
  Others = {0}
  Called = {4, 6}
  NoName = NoName
  MaxCreates = 2
INVARIANTS
  TypeOK KindsApart OneHandlePerThread FaultsExplained
PROPERTIES
  HandlesKeepNames
SYMMETRY HeapSymmetry
CHECK_DEADLOCK FALSE
