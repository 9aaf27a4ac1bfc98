---------------------------- MODULE MCGovernance ----------------------------
(***************************************************************************)
(* Instances of Governance for TLC.  Each behavior runs one of three        *)
(* workloads, so that their state spaces add up instead of multiplying.     *)
(***************************************************************************)
EXTENDS Governance, TLC

CONSTANTS ann, bob, login, signup, short, long, delete1

MCRank == (login :> 1) @@ (signup :> 2)
MCOctets == (short :> 1) @@ (long :> 6) @@ (Empty :> 0)
MCRowBytes == (short :> 3) @@ (long :> 8) @@ (Empty :> 1)

Comment(body) ==
  [table |-> "comments", owner |-> ann, body |-> body, deleted |-> FALSE]

\* ann has two comments, an activity record and an issue.
MCFirstRows ==
  << Comment(short), Comment(long),
     [table |-> "activity", owner |-> ann, body |-> Empty] >>
MCFirstAssignee == (login :> ann) @@ (signup :> Nobody)

MCRequests ==
  [op : {"add_comment"}, actor : {ann}, body : {short}]
    \cup [op : {"update_comment"}, actor : {ann}, body : {long}]
    \cup [op : {"delete_comment"}, actor : {ann}]
    \cup [op : {"create_project_update"}, actor : {ann}, body : {long}]
    \cup [op : {"set_issue_assignee"}, actor : {bob}, at : {login},
          assignee : {ann, Nobody}]

MCRetentionRequests ==
  { [action |-> delete1, subject |-> ann, mode |-> "delete"],
    [action |-> delete1, subject |-> ann, mode |-> "anonymize"] }

VARIABLE workload

CONSTANTS w1, w2, a1, a2, x1

\* Commands against one attempt, two attempts of one action, and an export
\* against a command and an attempt.
Active == [commands |-> {w1, w2, a1}, attempts |-> {w1, a1, a2}, export |-> {w1, a1, x1}]
Calls(ops) == {r \in Requests : r.op \in ops}
Assigning == {r \in Calls({"set_issue_assignee"}) : r.assignee = ann}
Sent == [commands |-> Calls({"update_comment", "delete_comment"}) \cup Assigning,
         attempts |-> Calls({"add_comment", "update_comment"}),
         export |-> Calls({"add_comment", "create_project_update", "set_issue_assignee"})]

MCInit == Init /\ workload \in DOMAIN Active

\* Only w1's update_comment, beside a retention action, guesses a revision.
Guesses(w, r) ==
  IF workload = "commands" /\ w = w1 /\ r.op = "update_comment" THEN 0..MaxAhead ELSE {0}

MCNext ==
  /\ \/ \E w \in Workers \cap Active[workload] :
           \/ Command(w)
           \/ \E r \in Sent[workload] : \E n \in Guesses(w, r) : Begin(w, r, n)
     \/ \E a \in Attempts \cap Active[workload] :
           Retain(a) \/ \E r \in RetentionRequests : BeginRetention(a, r)
     \/ \E x \in Exporters \cap Active[workload] :
           Export(x) \/ \E s \in ExportRequests : BeginExport(x, s)
  /\ UNCHANGED workload

MCSpec == MCInit /\ [][MCNext]_<<vars, workload>>

=============================================================================
