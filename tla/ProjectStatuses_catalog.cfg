SPECIFICATION Spec
CONSTANTS
  w1 = w1
  w2 = w2
  own = own
  b1 = b1
  c1 = c1
  x1 = x1
  b2 = b2
  c2 = c2
  x2 = x2
  launch = launch
  backlog = backlog
  completed = completed
  canceled = canceled
  Absent = Absent
  Workspace = Workspace
  DefaultStatus = DefaultStatus
  Workers = {w1, w2}
  Projects = {launch}
  Categories = {backlog, completed, canceled}
  Backlog = backlog
  Completed = completed
  Canceled = canceled
  Times = {noon, night}
  Statuses <- MCStatuses
  Rank <- MCRank
  Fresh <- MCFresh
  Requests <- MCRequests
INVARIANTS
  CatalogHasOneDefault
  StatusReferencesHold
  CompletionTimesFollow
  NoStatusDeadlock
PROPERTIES
  CompletionTimeKept
