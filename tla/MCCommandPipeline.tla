-------------------------- MODULE MCCommandPipeline --------------------------
(***************************************************************************)
(* Instances of CommandPipeline for TLC.                                    *)
(***************************************************************************)
EXTENDS CommandPipeline, TLC

CONSTANTS issue, comment, alice

\* Clients archive and assign the same issue version, then the next one; one
\* key is reused for two bodies (assign and unassign).
RetriedRequests ==
  {[op |-> "archive_issue", entity |-> issue, expected |-> 1, closed |-> TRUE,
    content |-> Nothing],
   [op |-> "set_issue_assignee", entity |-> issue, expected |-> 1, closed |-> FALSE,
    content |-> alice],
   [op |-> "set_issue_assignee", entity |-> issue, expected |-> 2, closed |-> FALSE,
    content |-> Nothing]}

\* A comment is deleted while its issue is archived.
MixedRequests ==
  {[op |-> "archive_issue", entity |-> issue, expected |-> 1, closed |-> TRUE,
    content |-> Nothing],
   [op |-> "delete_comment", entity |-> comment, expected |-> 1, closed |-> FALSE,
    content |-> Nothing]}

CONSTANT organizationFeed

\* The consumer reads the organization's feed.
MCScope == organizationFeed :> Entities

WorkerSymmetry == Permutations(Workers)

=============================================================================
