SPECIFICATION Spec
CONSTANTS
  Workers = {w1, w2}
  core = core
  web = web
  ENG = ENG
  OPS = OPS
  first = first
  second = second
  Absent = Absent
  Teams <- MCTeams
  Keys <- MCKeys
  Issues <- SpelledIds
  MaxNumber = 2
  Requests <- AllRequests
INVARIANTS
  OldIdentifiersReadable
