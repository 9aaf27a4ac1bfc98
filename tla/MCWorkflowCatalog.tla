-------------------------- MODULE MCWorkflowCatalog --------------------------
(***************************************************************************)
(* Instances of WorkflowCatalog for TLC.  Each behavior runs one of two     *)
(* workloads, so that their state spaces add up instead of multiplying.     *)
(***************************************************************************)
EXTENDS WorkflowCatalog, TLC

CONSTANTS core, web, todo, next, first, second, issue, other, unstarted, started

MCTeams == {core, web}
MCStates == {todo, next, first, second}
MCIssues == {issue, other}
MCRank == (todo :> 1) @@ (next :> 2) @@ (first :> 3) @@ (second :> 4)

\* One team with two unstarted states, an issue in the second and one to come.
MCFirstTeams == (core :> todo) @@ (web :> Absent)
MCFirstStates ==
  [s \in States |-> IF s \in {todo, next}
                    THEN [team |-> core, category |-> Unstarted, archived |-> FALSE]
                    ELSE Absent]
MCFirstIssues == (issue :> [team |-> core, state |-> next]) @@ (other :> Absent)

WebCatalog == (unstarted :> first) @@ (started :> second)

\* Administrators change which state is the default while others archive,
\* delete, recreate and reorder states and clients create and edit an issue.
CatalogRequests ==
  [op : {"update_team"}, team : {core}, state : {todo, next}]
    \cup [op : {"reorder_workflow_states"}, team : {core}]
    \cup [op : {"archive_workflow_state"}, state : {todo, next}, archived : BOOLEAN]
    \cup [op : {"delete_workflow_state"}, team : {core}, state : {todo, next}]
    \cup [op : {"insert_workflow_state"}, team : {core}, state : {next},
          category : {unstarted, started}]
    \cup [op : {"update_workflow_state"}, team : {core}, state : {next},
          category : {unstarted}]
    \cup [op : {"create_issue"}, issue : {other}, team : {core},
          state : {TeamDefault, next}]
    \cup [op : {"update_issue"}, issue : {issue}, state : {todo, next}]

\* A second team appears; issues move to it and back while both catalogs are
\* edited, and the deleted states of one team reappear in the other.
MoveRequests ==
  [op : {"insert_team"}, team : {web}, catalog : {WebCatalog}]
    \cup [op : {"move_issue"}, issue : {issue}, team : {web}, state : {first, second}]
    \cup [op : {"move_issue"}, issue : {issue}, team : {core}, state : {todo}]
    \cup [op : {"update_issue"}, issue : {issue}, state : {todo, next, second}]
    \cup [op : {"archive_workflow_state"}, state : {next, second}, archived : BOOLEAN]
    \cup [op : {"delete_workflow_state"}, team : {core}, state : {next}]
    \cup [op : {"insert_workflow_state"}, team : {web}, state : {next},
          category : {unstarted}]

RequestsOf == [catalog |-> CatalogRequests, moves |-> MoveRequests]
MCRequests == UNION {RequestsOf[k] : k \in DOMAIN RequestsOf}

VARIABLE workload

MCInit == Init /\ workload \in DOMAIN RequestsOf

MCNext ==
  /\ Next
  /\ \A w \in Workers : step'[w] = "idle" \/ request'[w] \in RequestsOf[workload]
  /\ UNCHANGED workload

MCSpec == MCInit /\ [][MCNext]_<<vars, workload>>

WorkerSymmetry == Permutations(Workers)

=============================================================================
