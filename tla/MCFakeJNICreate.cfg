SPECIFICATION Spec
CONSTANTS
  Main = m
  Helpers = {w}
  ClassNames = {A}
  MethodNames = {f}
  Heap = {h1, h2, h3}
  Others = {0}
  Called = {6}
  NoName = NoName
  MaxCreates = 2
INVARIANTS
  FaultMeansMissing
SYMMETRY HeapSymmetry
CHECK_DEADLOCK FALSE
