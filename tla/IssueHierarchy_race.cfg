SPECIFICATION Spec
CONSTANTS
  Workers = {w1, w2}
  Issues = {a, b}
  Projects = {p}
  Absent = Absent
  NoParent = NoParent
  MaxExpected = 1
  Requests <- AllRequests
INVARIANTS
  NoParentCycle
