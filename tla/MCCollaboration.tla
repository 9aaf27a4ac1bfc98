--------------------------- MODULE MCCollaboration ---------------------------
(***************************************************************************)
(* Instances of Collaboration for TLC.  Each behavior runs one of several      *)
(* workloads, so that the state spaces of the workloads add up instead of   *)
(* multiplying.                                                             *)
(***************************************************************************)
EXTENDS Collaboration, TLC

CONSTANTS ann, bob, core, web, site, login, signup, org, url, blocks, again

MCSubjects == {ann, bob}
MCTeams == {core, web}
MCProjects == {site}
MCIssues == {login, signup}
MCTeamsOf == (site :> {core, web})
MCTeamOf == (login :> core) @@ (signup :> core)
MCProjectOf == (login :> site) @@ (signup :> site)

\* web is private; ann is its member, and bob has left.
MCFirstPrivate == {web}
MCFirstMembers ==
  [k \in Teams \X Subjects |->
     CASE k = <<web, ann>> -> [active |-> TRUE, revision |-> 1]
       [] k = <<web, bob>> -> [active |-> FALSE, revision |-> 1]
       [] OTHER -> Absent]

Row(table, at, archived) == [table |-> table, at |-> at, archived |-> archived]

MCFirstRecords ==
  << Row("projects", site, FALSE), Row("issues", login, FALSE),
     Row("issues", signup, FALSE),
     Row("workflow_states", web, FALSE), Row("workflow_states", web, TRUE),
     Row("labels", web, FALSE), Row("labels", core, FALSE), Row("labels", org, FALSE),
     Row("comments", login, FALSE), Row("teams", core, FALSE) >>

Hide == [op : {"set_team_member"}, at : {web}, subject : {ann}, active : BOOLEAN]
Publish == [op : {"put_team"}, at : {web}, private : BOOLEAN]
Post(table, at) == [op : {"insert"}, table : {table}, at : {at}, actor : {ann}]
Step(list, at) ==
  [list : {list}, at : {at}, actor : {ann}, archived : {list \in {GetProject, GetIssue}}]

\* Pages of rows that come, go, move and are hidden.
IssueRequests ==
  Hide \cup [op : {"archive"}, table : {"issues"}, at : {login}, archived : BOOLEAN]
IssueWalks == Step(ListIssues, org) \cup Step(GetIssue, login)

CommentRequests == Hide \cup Post("comments", login)
CommentWalks == Step(ListComments, login)

StateRequests ==
  Hide \cup Post("workflow_states", web)
    \cup [op : {"delete"}, table : {"workflow_states"}, at : {web}]
StateWalks == Step(ListWorkflowStates, web) \cup Step(ListIssueWorkflowStates, web)

LabelRequests == Post("labels", web) \cup [op : {"move_label"}, from : {core}, at : {web}]
LabelWalks == Step(ListLabels, web)

\* Writers that lose sight of what they write to.
AccessRequests ==
  Hide \cup Publish \cup Post("project_updates", site)
    \cup [op : {"set_issue_assignee"}, actor : {ann}, at : {login},
          assignee : {bob, Nobody}]
    \cup [op : {"set_team_member"}, at : {web}, subject : {bob}, active : {TRUE}]
AccessWalks == Step(GetProject, site)

\* Racing memberships, the first of them and later ones.
MemberRequests ==
  [op : {"set_team_member"}, at : {core, web}, subject : {ann}, active : BOOLEAN]

\* Links and relations that clients insert at once.
LinkRequests ==
  [op : {"put_external_link"}, actor : {ann}, at : {login, signup}, link : {url}]
    \cup [op : {"add_issue_relation"}, actor : {ann}, at : {login}, related : {signup},
          relation : {blocks, again}]
    \cup [op : {"remove_issue_relation"}, actor : {ann}, relation : {blocks, again}]

RequestsOf == [issues |-> IssueRequests, comments |-> CommentRequests,
               states |-> StateRequests, labels |-> LabelRequests,
               access |-> AccessRequests, members |-> MemberRequests,
               links |-> LinkRequests]
WalksOf == [issues |-> IssueWalks, comments |-> CommentWalks, states |-> StateWalks,
            labels |-> LabelWalks, access |-> AccessWalks, members |-> {}, links |-> {}]

Workloads == DOMAIN RequestsOf
MCRequests == UNION {RequestsOf[k] : k \in Workloads}
MCWalks == UNION {WalksOf[k] : k \in Workloads}

VARIABLE workload

MCInit == Init /\ workload \in Workloads

MCNext ==
  /\ Next
  /\ \A w \in Workers : step'[w] = "idle" \/ request'[w] \in RequestsOf[workload]
  /\ \A h \in Readers : step'[h] = "idle" \/ walk'[h] \in WalksOf[workload]
  /\ UNCHANGED workload

MCSpec == MCInit /\ [][MCNext]_<<vars, workload>>

WorkerSymmetry == Permutations(Workers)

=============================================================================
