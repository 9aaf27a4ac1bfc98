SPECIFICATION MCSpec
CONSTANTS
  Workers = {w1, w2}
  Readers = {r1}
  ann = ann
  bob = bob
  core = core
  web = web
  site = site
  login = login
  signup = signup
  org = org
  url = url
  blocks = blocks
  again = again
  Nobody = Nobody
  Absent = Absent
  Subjects <- MCSubjects
  Teams <- MCTeams
  Projects <- MCProjects
  Issues <- MCIssues
  TeamsOf <- MCTeamsOf
  TeamOf <- MCTeamOf
  ProjectOf <- MCProjectOf
  Organization = org
  Links = {url}
  Relations = {blocks, again}
  PageLimit = 1
  MaxSeq = 12
  MaxRevision = 3
  FirstPrivate <- MCFirstPrivate
  FirstMembers <- MCFirstMembers
  FirstRecords <- MCFirstRecords
  Requests <- MCRequests
  Walks <- MCWalks
SYMMETRY WorkerSymmetry
INVARIANTS
  PagesMeetEveryOldRow
  AccessWasAllowed
  KeysAreTakenOnce
PROPERTY
  RevisionsCountChanges
