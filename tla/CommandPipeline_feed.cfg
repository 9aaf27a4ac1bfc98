SPECIFICATION FairSpec
CONSTANTS
  Workers = {w1, w2}
  NoWorker = NoWorker
  Keys = {k1}
  issue = issue
  comment = comment
  alice = alice
  organizationFeed = organizationFeed
  Entities = {issue, comment}
  Contents = {Nothing, alice}
  Nothing = Nothing
  Requests <- MixedRequests
  Consumers = {organizationFeed}
  Scope <- MCScope
  PageLimit = 1
  MaxActivity = 3
INVARIANTS
  NoSkippedActivity
PROPERTIES
  AttemptsEnd
  ActivityDelivered
