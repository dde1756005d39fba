SPECIFICATION Spec
CONSTANTS
  Main = m
  Helpers = {w}
  ClassNames = {A}
  MethodNames = {f}
  Heap = {h1, h2, h3}
  Others = {0}
  Called = {4, 25}
  NoName = NoName
  MaxCreates = 1
INVARIANTS
  FaultIsIndex
SYMMETRY HeapSymmetry
CHECK_DEADLOCK FALSE
