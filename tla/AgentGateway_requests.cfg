SPECIFICATION MCSpec
CONSTANTS
  ann = ann
  bob = bob
  app = app
  console = console
  privacy = privacy
  agent = agent
  r1 = r1
  r2 = r2
  r3 = r3
  r4 = r4
  NoSubject = NoSubject
  Arrivals = {r1, r2, r3, r4}
  ToolRequests = {r1}
  Subjects = {ann, bob}
  ProjectCallers = {app, agent}
  AdminCallers = {console}
  GovernanceCallers = {privacy}
  AgentInstance = agent
  HasVerifier = TRUE
  MaxConnections = 2
  MaxPools = 2
  Failures = {"RevisionConflict", "PrivateTeam", "NotFound"}
  FirstRights <- MCRights
  ChangingRights <- MCChanging
  Calls <- MCCalls
  Posts <- MCPosts
INVARIANTS
  StorageIsGuarded
  ClosedMeansQuiet
  StatusTells
CHECK_DEADLOCK FALSE
PROPERTY GatewayEnds
