SPECIFICATION Spec
CONSTANTS
  Workers = {w1, w2, w3}
  NoWorker = NoWorker
  Keys = {k1}
  issue = issue
  comment = comment
  alice = alice
  organizationFeed = organizationFeed
  Entities = {issue}
  Contents = {Nothing, alice}
  Nothing = Nothing
  Requests <- RetriedRequests
  Consumers = {organizationFeed}
  Scope <- MCScope
  PageLimit = 1
  MaxActivity = 2
SYMMETRY WorkerSymmetry
INVARIANTS
  TypeOK
  ExactlyOnce
  NoLostUpdate
  FeedFollowsRevisions
  AnswersAreRecorded
PROPERTY ImplementsLedger
