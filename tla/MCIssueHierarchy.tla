-------------------------- MODULE MCIssueHierarchy --------------------------
(***************************************************************************)
(* Instances of IssueHierarchy for TLC.                                     *)
(***************************************************************************)
EXTENDS IssueHierarchy, TLC

CONSTANT MaxExpected  \* bound: the revisions clients name

\* Any issue may be created in any project and reparented to any issue.
AllRequests ==
  [op : {"create_issue"}, issue : Issues, project : Projects,
   parent : Issues \cup {NoParent}]
    \cup [op : {"update_issue"}, issue : Issues, parent : Issues \cup {NoParent},
          expected : 1..MaxExpected]

WorkerSymmetry == Permutations(Workers)

=============================================================================
