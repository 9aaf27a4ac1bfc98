SPECIFICATION MCSpec
CONSTANTS
  Workers = {w1, w2}
  Attempts = {a1, a2}
  Exporters = {x1}
  w1 = w1
  w2 = w2
  a1 = a1
  a2 = a2
  x1 = x1
  ann = ann
  bob = bob
  login = login
  signup = signup
  short = short
  long = long
  delete1 = delete1
  Subjects = {ann, bob}
  Issues = {login, signup}
  Rank <- MCRank
  Bodies = {short, long}
  Empty = Empty
  Octets <- MCOctets
  RowBytes <- MCRowBytes
  Frame = 1
  Actions = {delete1}
  Nobody = Nobody
  Absent = Absent
  MaxSeq = 5
  MaxAhead = 1
  ExportLimit = 2
  Budget = 18
  FirstRows <- MCFirstRows
  FirstAssignee <- MCFirstAssignee
  Requests <- MCRequests
  RetentionRequests <- MCRetentionRequests
  ExportRequests = {ann}
INVARIANTS
  EverythingOldIsErased
  ErasedStaysErased
  RetentionAnswersMatch
  ExportIsComplete
