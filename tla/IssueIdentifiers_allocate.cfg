SPECIFICATION Spec
CONSTANTS
  Workers = {w1, w2}
  core = core
  web = web
  ENG = ENG
  OPS = OPS
  first = first
  second = second
  Absent = Absent
  Teams <- MCTeams
  Keys <- MCKeys
  Issues <- PlainIds
  MaxNumber = 2
  Requests <- AllRequests
SYMMETRY WorkerSymmetry
INVARIANTS
  TypeOK
  IdentifiersAreRecorded
  NextIdentifierIsFree
PROPERTIES
  AllocatedMonotonically
  IdentifiersCarryTheKey
