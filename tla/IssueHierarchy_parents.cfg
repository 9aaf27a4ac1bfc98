SPECIFICATION Spec
CONSTANTS
  Workers = {w1, w2}
  Issues = {a, b, c}
  Projects = {p, q}
  Absent = Absent
  NoParent = NoParent
  MaxExpected = 1
  Requests <- AllRequests
SYMMETRY WorkerSymmetry
INVARIANTS
  CyclesNeedARace
  ParentsShareTheProject
