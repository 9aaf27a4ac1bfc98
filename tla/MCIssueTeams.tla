---------------------------- MODULE MCIssueTeams ----------------------------
(***************************************************************************)
(* Instances of IssueTeams for TLC.  Each behavior runs one of two          *)
(* workloads, so that their state spaces add up instead of multiplying.     *)
(***************************************************************************)
EXTENDS IssueTeams, TLC

CONSTANTS launch, core, web, issue, urgent, sprint, beta

MCFirstAttached == {<<launch, core>>, <<launch, web>>}

\* Every command that changes what the invariants speak of, on one issue of a
\* project with two teams.
RacingCommand ==
  [op : {"update_project"}, project : {launch}, teams : {{core}, {core, web}},
   lead : {Absent}, milestone : {Absent}]
    \cup [op : {"create_issue"}, issue : {issue}, project : {launch}, team : {web},
          labels : {{urgent}}, cycle : {sprint}, milestone : {Absent}]
    \cup [op : {"update_issue"}, issue : {issue}, labels : {{urgent}},
          cycle : {sprint, Absent}, milestone : {beta}]
    \cup [op : {"move_issue"}, issue : {issue}, team : {core, web}]
    \cup [op : {"put_label"}, row : {urgent}, owner : {web, AnyTeam}]
    \cup [op : {"put_cycle"}, row : {sprint}, owner : {web}]
    \cup [op : {"put_milestone"}, row : {beta}, owner : {launch}]

\* The commands that lock each other's rows, before and after the gate.
LockingCommand ==
  [op : {"update_project"}, project : {launch}, teams : {{core}, {core, web}},
   lead : {core, Absent}, milestone : {beta, Absent}]
    \cup [op : {"create_issue"}, issue : {issue}, project : {launch}, team : {web},
          labels : {{urgent}}, cycle : {Absent}, milestone : {beta}]
    \cup [op : {"update_issue"}, issue : {issue}, labels : {{urgent}}, cycle : {Absent},
          milestone : {beta}]
    \cup [op : {"move_issue"}, issue : {issue}, team : {core}]
    \cup [op : {"add_comment", "update_comment"}, issue : {issue}]
    \cup [op : {"put_team"}, team : {core}, renames : {TRUE}]
    \cup [op : {"put_team"}, team : {web}, renames : {FALSE}]
    \cup [op : {"put_label"}, row : {urgent}, owner : {web}]
    \cup [op : {"put_milestone"}, row : {beta}, owner : {launch}]

MCRequests == RacingCommand \cup LockingCommand

VARIABLE workload

\* Two transactions at a time, with guessed revisions; or three of the commands
\* that wait for each other.
Sent == [races |-> RacingCommand, circles |-> LockingCommand]
AtOnce == [races |-> 2, circles |-> 3]
Ahead == [races |-> 0..MaxAhead, circles |-> {0}]

MCInit == Init /\ workload \in DOMAIN Sent

Busy == {w \in Workers : step[w] # "idle"}

MCNext ==
  /\ \E w \in Workers :
       \/ Step(w) \/ Abort(w)
       \/ /\ Cardinality(Busy) < AtOnce[workload]
          /\ \E r \in Sent[workload], ahead \in Ahead[workload] : Begin(w, r, ahead)
  /\ UNCHANGED workload

MCSpec == MCInit /\ [][MCNext]_<<vars, workload>>

WorkerSymmetry == Permutations(Workers)

=============================================================================
