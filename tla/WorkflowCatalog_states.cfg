SPECIFICATION MCSpec
CONSTANTS
  Workers = {w1, w2, w3}
  core = core
  web = web
  todo = todo
  next = next
  first = first
  second = second
  issue = issue
  other = other
  unstarted = unstarted
  started = started
  Absent = Absent
  TeamDefault = TeamDefault
  Teams <- MCTeams
  States <- MCStates
  Issues <- MCIssues
  Categories = {unstarted, started}
  Unstarted = unstarted
  Rank <- MCRank
  Requests <- MCRequests
  FirstTeams <- MCFirstTeams
  FirstStates <- MCFirstStates
  FirstIssues <- MCFirstIssues
SYMMETRY WorkerSymmetry
INVARIANTS
  TypeOK
  DefaultsAreUsable
  ReferencesAreUsable
  NoDeadlock
