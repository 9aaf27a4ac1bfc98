SPECIFICATION MCSpec
CONSTANTS
  launch = launch
  core = core
  web = web
  issue = issue
  urgent = urgent
  sprint = sprint
  beta = beta
  Gate = Gate
  AnyTeam = AnyTeam
  Absent = Absent
  Workers = {w1, w2, w3}
  Projects = {launch}
  Teams = {core, web}
  Issues = {issue}
  Labels = {urgent}
  Cycles = {sprint}
  Milestones = {beta}
  Requests <- MCRequests
  MaxAhead = 1
  FirstAttached <- MCFirstAttached
SYMMETRY WorkerSymmetry
INVARIANTS
  TeamsCoverIssues
  AttachmentsFit
  OnlyTeamChangesDeadlock
