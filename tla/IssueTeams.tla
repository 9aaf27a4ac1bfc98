----------------------------- MODULE IssueTeams -----------------------------
(***************************************************************************)
(* What ties an issue to teams: the teams of its project (project_teams),   *)
(* its own team, and the labels, cycle and milestone it carries.  The       *)
(* handlers check these on the pool before they begin, so foreign keys, row *)
(* locks and the revision of the issue decide what concurrent transactions  *)
(* may do.  Each action is one statement of a READ COMMITTED transaction.   *)
(*                                                                         *)
(* Row locks have three strengths: exclusive (FOR UPDATE, DELETE, an UPDATE *)
(* of a column of a unique index), written (any other UPDATE) and shared    *)
(* (FOR KEY SHARE, as foreign keys take it).  The advisory commit gate of   *)
(* append_activity is one more exclusive lock.  Command receipts and        *)
(* activity ids are in CommandPipeline, workflow states in WorkflowCatalog, *)
(* parents in IssueHierarchy; Abort stands for their refusals, as it does   *)
(* for any error, crash or deadlock victim.                                 *)
(***************************************************************************)
EXTENDS Integers, FiniteSets

CONSTANTS
  Workers,      \* concurrent request handlers, one transaction each
  Projects, Teams, Issues, Labels, Cycles, Milestones,   \* ids
  Gate,         \* the advisory activity commit gate
  AnyTeam,      \* the team of a label of the whole organization
  Absent,       \* no such row, or a NULL column
  Requests,     \* the request bodies clients send
  MaxAhead,     \* bound: how far a client guesses a revision ahead of the current one
  FirstAttached \* the teams of the projects initially

Owners == Teams \cup Projects \cup {AnyTeam}

\* How far an expected revision is ahead of the current one; -1: behind it.
Gaps == (-1)..MaxAhead

IssueRow == [project : Projects, team : Teams, labels : SUBSET Labels,
             cycle : Cycles \cup {Absent}, milestone : Milestones \cup {Absent}]

NoIssue == [project |-> Absent, team |-> Absent, labels |-> {},
            cycle |-> Absent, milestone |-> Absent]

\* add_comment stands for every command that inserts a row that refers to the
\* issue, update_comment for every command that changes such a row.  The lead
\* and the milestone of update_project are those it newly gives the project.
Request ==
  [op : {"update_project"}, project : Projects, teams : SUBSET Teams,
   lead : Teams \cup {Absent}, milestone : Milestones \cup {Absent}]
    \cup [op : {"put_team"}, team : Teams, renames : BOOLEAN]
    \cup [op : {"create_issue"}, issue : Issues, project : Projects, team : Teams,
          labels : SUBSET Labels, cycle : Cycles \cup {Absent},
          milestone : Milestones \cup {Absent}]
    \cup [op : {"update_issue"}, issue : Issues, labels : SUBSET Labels,
          cycle : Cycles \cup {Absent}, milestone : Milestones \cup {Absent}]
    \cup [op : {"move_issue"}, issue : Issues, team : Teams]
    \cup [op : {"add_comment", "update_comment"}, issue : Issues]
    \cup [op : {"put_label"}, row : Labels, owner : Teams \cup {AnyTeam}]
    \cup [op : {"put_cycle"}, row : Cycles, owner : Teams]
    \cup [op : {"put_milestone"}, row : Milestones, owner : Projects]

IssueWrites == {"create_issue", "update_issue", "move_issue"}
TeamChoices == {"create_issue", "move_issue"}
Puts == {"put_label", "put_cycle", "put_milestone"}
AboutIssues == IssueWrites \cup {"add_comment", "update_comment"}

ASSUME AbsentAssumption ==
  Absent \notin Owners \cup IssueRow \cup Cycles \cup Milestones
ASSUME KindsAssumption == Labels \cap (Cycles \cup Milestones) = {}
\* The rows of different tables, and the gate, are locked apart.
ASSUME TablesAssumption ==
  LET Attachments == Labels \cup Cycles \cup Milestones
      Keys == Projects \X Teams
  IN /\ Gate \notin Projects \cup Teams \cup Issues \cup Attachments \cup Keys
     /\ Projects \cap (Teams \cup Issues \cup Attachments \cup Keys) = {}
     /\ Teams \cap (Issues \cup Attachments \cup Keys) = {}
     /\ Issues \cap (Attachments \cup Keys) = {}
     /\ Attachments \cap Keys = {}
ASSUME RequestsAssumption == Requests \subseteq Request /\ Requests # {}
ASSUME FirstAssumption == FirstAttached \subseteq Projects \X Teams
ASSUME AheadAssumption == MaxAhead \in Nat

VARIABLES
  attached,   \* committed project_teams rows
  issues,     \* committed issues and issue_labels rows
  owner,      \* committed labels, cycles and milestones: whose each one is
  retargeted, \* history: the labels put_label has given to another team
  guessed,    \* history: the issues whose labels update_issue chose by a guess
  step,       \* what a worker does next
  request,    \* the request it serves
  before,     \* the issue row an issue writer has read
  carried,    \* the labels it leaves on the issue
  pending,    \* the labels, or teams of the project, it has yet to insert
  exclusive, written, shared,   \* the rows it has locked, by strength
  gap,        \* a worker's expected_revision, less the current one, at least -1
  guesses,    \* the workers whose expected_revision was not yet given when they began
  overtaken   \* the workers whose project_teams row was deleted as they waited

dbVars == <<attached, issues, owner, retargeted, guessed>>
lockVars == <<exclusive, written, shared>>
draftVars == <<before, carried, pending>>
revisionVars == <<gap, guesses>>
vars == <<dbVars, step, request, draftVars, lockVars, revisionVars, overtaken>>

-----------------------------------------------------------------------------

NoRequest == CHOOSE r \in Requests : TRUE

CanLock(w, row) ==
  \A v \in Workers \ {w} : row \notin exclusive[v] \cup written[v] \cup shared[v]
CanWrite(w, row) == \A v \in Workers \ {w} : row \notin exclusive[v] \cup written[v]
CanShare(w, row) == \A v \in Workers \ {w} : row \notin exclusive[v]

At(w, s, ops) == step[w] = s /\ request[w].op \in ops

Goto(w, s) == step' = [step EXCEPT ![w] = s]

Fits(l, t) == owner[l] \in {AnyTeam, t}

\* The project_teams row an issue writer's issue will refer to.
Key(w) ==
  <<IF request[w].op = "create_issue" THEN request[w].project ELSE before[w].project,
    request[w].team>>

-----------------------------------------------------------------------------
(***************************************************************************)
(* What the handlers check on the pool, before the transaction.             *)
(***************************************************************************)

\* issue_dependencies_exist
DependenciesExist(p, t, c, m, ls) ==
  /\ <<p, t>> \in attached
  /\ c # Absent => owner[c] = t
  /\ m # Absent => owner[m] = p
  /\ \A l \in ls : owner[l] # Absent /\ Fits(l, t)

Precheck(r) ==
  CASE r.op = "create_issue" ->
         DependenciesExist(r.project, r.team, r.cycle, r.milestone, r.labels)
    [] r.op = "update_issue" ->
         /\ issues[r.issue] # Absent
         /\ DependenciesExist(issues[r.issue].project, issues[r.issue].team,
                              r.cycle, r.milestone, r.labels)
    [] r.op = "move_issue" ->
         /\ issues[r.issue] # Absent
         /\ DependenciesExist(issues[r.issue].project, r.team, Absent, Absent, {})
    [] r.op \in {"add_comment", "update_comment"} -> issues[r.issue] # Absent
    [] r.op = "update_project" -> r.milestone # Absent => owner[r.milestone] = r.project
    [] OTHER -> TRUE

\* A client may name a revision that the issue has not reached yet.
Begin(w, r, ahead) ==
  /\ step[w] = "idle"
  /\ Precheck(r)
  /\ ahead > 0 => r.op \in {"update_issue", "move_issue"}
  /\ Goto(w, "begun")
  /\ request' = [request EXCEPT ![w] = r]
  /\ before' = [before EXCEPT ![w] =
       IF r.op \in {"update_issue", "move_issue"} THEN issues[r.issue] ELSE NoIssue]
  /\ gap' = [gap EXCEPT ![w] = ahead]
  /\ guesses' = IF ahead > 0 THEN guesses \cup {w} ELSE guesses
  /\ UNCHANGED <<dbVars, carried, pending, lockVars, overtaken>>

EndTransaction(w) ==
  /\ Goto(w, "idle")
  /\ request' = [request EXCEPT ![w] = NoRequest]
  /\ before' = [before EXCEPT ![w] = NoIssue]
  /\ carried' = [carried EXCEPT ![w] = {}]
  /\ pending' = [pending EXCEPT ![w] = {}]
  /\ exclusive' = [exclusive EXCEPT ![w] = {}]
  /\ written' = [written EXCEPT ![w] = {}]
  /\ shared' = [shared EXCEPT ![w] = {}]
  /\ guesses' = guesses \ {w}

Abort(w) ==
  /\ step[w] # "idle"
  /\ EndTransaction(w)
  /\ gap' = [gap EXCEPT ![w] = 0]
  /\ overtaken' = overtaken \ {w}
  /\ UNCHANGED dbVars

(***************************************************************************)
(* update_project: the new teams have to cover the issues, the project row  *)
(* is written and its new lead looked up, all its project_teams rows are    *)
(* deleted and the named ones inserted, each with its team locked FOR KEY   *)
(* SHARE, then the gate is awaited.                                         *)
(***************************************************************************)

CheckCover(w) ==
  /\ At(w, "begun", {"update_project"})
  /\ \A i \in Issues : issues[i] # Absent /\ issues[i].project = request[w].project =>
       issues[i].team \in request[w].teams
  /\ Goto(w, "write project")
  /\ UNCHANGED <<dbVars, request, draftVars, lockVars, revisionVars, overtaken>>

WriteProject(w) ==
  /\ step[w] = "write project"
  /\ CanWrite(w, request[w].project)
  /\ written' = [written EXCEPT ![w] = @ \cup {request[w].project}]
  /\ Goto(w, IF request[w].lead = Absent THEN "replace teams" ELSE "share lead")
  /\ UNCHANGED <<dbVars, request, draftVars, exclusive, shared, revisionVars, overtaken>>

ShareLead(w) ==
  /\ step[w] = "share lead"
  /\ CanShare(w, request[w].lead)
  /\ shared' = [shared EXCEPT ![w] = @ \cup {request[w].lead}]
  /\ Goto(w, "replace teams")
  /\ UNCHANGED <<dbVars, request, draftVars, exclusive, written, revisionVars, overtaken>>

ReplaceTeams(w) ==
  LET rows == {row \in attached : row[1] = request[w].project}
  IN /\ step[w] = "replace teams"
     /\ \A row \in rows : CanLock(w, row)
     /\ exclusive' = [exclusive EXCEPT ![w] = @ \cup rows]
     /\ pending' = [pending EXCEPT ![w] = request[w].teams]
     /\ Goto(w, "insert teams")
     /\ UNCHANGED <<dbVars, request, before, carried, written, shared, revisionVars,
                    overtaken>>

InsertTeam(w, t) ==
  /\ step[w] = "insert teams"
  /\ t \in pending[w]
  /\ CanShare(w, t)
  /\ shared' = [shared EXCEPT ![w] = @ \cup {t}]
  /\ pending' = [pending EXCEPT ![w] = @ \ {t}]
  /\ UNCHANGED <<dbVars, step, request, before, carried, exclusive, written,
                 revisionVars, overtaken>>

TeamsInserted(w) ==
  /\ step[w] = "insert teams"
  /\ pending[w] = {}
  /\ Goto(w, "gate")
  /\ UNCHANGED <<dbVars, request, draftVars, lockVars, revisionVars, overtaken>>

\* What the deferred foreign keys look up as it commits: the committed issues a
\* dropped team still has, and the project's new milestone.
Dropped(w) ==
  {i \in Issues : /\ issues[i] # Absent
                  /\ issues[i].project = request[w].project
                  /\ issues[i].team \notin request[w].teams}

NewMilestone(w) == {request[w].milestone} \ {Absent}

\* Defect: the foreign key of issues on project_teams is missing.
CommitTeamsUnchecked(w) ==
  LET p == request[w].project
  IN /\ At(w, "commit", {"update_project"})
     /\ attached' = {row \in attached : row[1] # p} \cup ({p} \X request[w].teams)
     /\ overtaken' = (overtaken \cup
          {v \in Workers : step[v] = "share key" /\ Key(v)[1] = p}) \ {w}
     /\ gap' = [gap EXCEPT ![w] = 0]
     /\ EndTransaction(w)
     /\ UNCHANGED <<issues, owner, retargeted, guessed>>

\* Who waits for one of the deleted rows fails once they are gone for good,
\* even if an equal row has been inserted.
CommitTeams(w) ==
  LET p == request[w].project
  IN /\ At(w, "commit", {"update_project"})
     /\ Dropped(w) = {}
     /\ \A m \in NewMilestone(w) : CanShare(w, m) /\ owner[m] = p
     /\ attached' = {row \in attached : row[1] # p} \cup ({p} \X request[w].teams)
     /\ overtaken' = (overtaken \cup
          {v \in Workers : step[v] = "share key" /\ Key(v)[1] = p}) \ {w}
     /\ gap' = [gap EXCEPT ![w] = 0]
     /\ EndTransaction(w)
     /\ UNCHANGED <<issues, owner, retargeted, guessed>>

(***************************************************************************)
(* create_issue, update_issue and move_issue.                               *)
(***************************************************************************)

\* The identifier's number: UPDATE teams SET next_issue_number.
CountIssue(w) ==
  /\ At(w, "begun", TeamChoices)
  /\ CanWrite(w, request[w].team)
  /\ written' = [written EXCEPT ![w] = @ \cup {request[w].team}]
  /\ Goto(w, "write issue")
  /\ UNCHANGED <<dbVars, request, draftVars, exclusive, shared, revisionVars, overtaken>>

\* The rows the written issue refers to with immediate foreign keys.
Referenced(w) ==
  IF request[w].op = "move_issue" THEN {}
  ELSE {request[w].cycle, request[w].milestone} \ {Absent}

InsertIssue(w) ==
  LET r == request[w]
  IN /\ At(w, "write issue", {"create_issue"})
     /\ CanLock(w, r.issue)
     /\ issues[r.issue] = Absent
     /\ \A row \in Referenced(w) : CanShare(w, row)
     /\ exclusive' = [exclusive EXCEPT ![w] = @ \cup {r.issue}]
     /\ shared' = [shared EXCEPT ![w] = @ \cup Referenced(w)]
     /\ carried' = [carried EXCEPT ![w] = r.labels]
     /\ pending' = [pending EXCEPT ![w] = r.labels]
     /\ Goto(w, "attach labels")
     /\ UNCHANGED <<dbVars, request, before, written, revisionVars, overtaken>>

\* Defect: the revision the client expects is not compared.
UpdateIssueUnchecked(w) ==
  LET r == request[w]
  IN /\ At(w, "begun", {"update_issue"})
     /\ CanWrite(w, r.issue)
     /\ \A row \in Referenced(w) : CanShare(w, row)
     /\ r.cycle # Absent => owner[r.cycle] = issues[r.issue].team
     /\ written' = [written EXCEPT ![w] = @ \cup {r.issue}]
     /\ shared' = [shared EXCEPT ![w] = @ \cup Referenced(w)]
     /\ carried' = [carried EXCEPT ![w] = r.labels]
     /\ pending' = [pending EXCEPT ![w] = r.labels]
     /\ Goto(w, "attach labels")
     /\ UNCHANGED <<dbVars, request, before, exclusive, revisionVars, overtaken>>

\* Defect: the row is locked FOR UPDATE.
UpdateIssueForUpdate(w) ==
  LET r == request[w]
  IN /\ At(w, "begun", {"update_issue"})
     /\ gap[w] = 0
     /\ CanLock(w, r.issue)
     /\ \A row \in Referenced(w) : CanShare(w, row)
     /\ exclusive' = [exclusive EXCEPT ![w] = @ \cup {r.issue}]
     /\ shared' = [shared EXCEPT ![w] = @ \cup Referenced(w)]
     /\ carried' = [carried EXCEPT ![w] = r.labels]
     /\ pending' = [pending EXCEPT ![w] = r.labels]
     /\ Goto(w, "attach labels")
     /\ UNCHANGED <<dbVars, request, before, written, revisionVars, overtaken>>

UpdateIssue(w) ==
  LET r == request[w]
  IN /\ At(w, "begun", {"update_issue"})
     /\ gap[w] = 0
     /\ CanWrite(w, r.issue)
     /\ \A row \in Referenced(w) : CanShare(w, row)
     /\ r.cycle # Absent => owner[r.cycle] = issues[r.issue].team
     /\ written' = [written EXCEPT ![w] = @ \cup {r.issue}]
     /\ shared' = [shared EXCEPT ![w] = @ \cup Referenced(w)]
     /\ carried' = [carried EXCEPT ![w] = r.labels]
     /\ pending' = [pending EXCEPT ![w] = r.labels]
     /\ Goto(w, "attach labels")
     /\ UNCHANGED <<dbVars, request, before, exclusive, revisionVars, overtaken>>

\* The identifier changes, so the row is locked as for a deletion.
MoveIssue(w) ==
  /\ At(w, "write issue", {"move_issue"})
  /\ gap[w] = 0
  /\ CanLock(w, request[w].issue)
  /\ exclusive' = [exclusive EXCEPT ![w] = @ \cup {request[w].issue}]
  /\ Goto(w, "strip labels")
  /\ UNCHANGED <<dbVars, request, draftVars, written, shared, revisionVars, overtaken>>

KeptLabels(w) == {l \in issues[request[w].issue].labels : Fits(l, request[w].team)}

StripLabels(w) ==
  /\ step[w] = "strip labels"
  /\ carried' = [carried EXCEPT ![w] = KeptLabels(w)]
  /\ Goto(w, "gate")
  /\ UNCHANGED <<dbVars, request, before, pending, lockVars, revisionVars, overtaken>>

\* INSERT INTO issue_labels, one row at a time in the order of the request.
AttachLabel(w, l) ==
  /\ step[w] = "attach labels"
  /\ l \in pending[w]
  /\ CanShare(w, l)
  /\ shared' = [shared EXCEPT ![w] = @ \cup {l}]
  /\ pending' = [pending EXCEPT ![w] = @ \ {l}]
  /\ UNCHANGED <<dbVars, step, request, before, carried, exclusive, written,
                 revisionVars, overtaken>>

LabelsAttached(w) ==
  /\ step[w] = "attach labels"
  /\ pending[w] = {}
  /\ Goto(w, "gate")
  /\ UNCHANGED <<dbVars, request, draftVars, lockVars, revisionVars, overtaken>>

\* The deferred foreign key (project, team) is checked as create_issue and
\* move_issue commit: the row is looked up in a snapshot,
LookupKey(w) ==
  /\ At(w, "commit", TeamChoices)
  /\ Key(w) \in attached
  /\ Goto(w, "share key")
  /\ UNCHANGED <<dbVars, request, draftVars, lockVars, revisionVars, overtaken>>

\* The row each operation writes over old, carrying the labels ls.
WrittenIssue(r, old, ls) ==
  CASE r.op = "create_issue" ->
         [project |-> r.project, team |-> r.team, labels |-> ls,
          cycle |-> r.cycle, milestone |-> r.milestone]
    [] r.op = "update_issue" ->
         [old EXCEPT !.labels = ls, !.cycle = r.cycle, !.milestone = r.milestone]
    [] r.op = "move_issue" ->
         [old EXCEPT !.team = r.team, !.labels = ls, !.cycle = Absent]

\* Every other revision expected of the issue is now one less ahead.
PublishIssue(w) ==
  LET i == request[w].issue
      Expects(v) == /\ step[v] # "idle"
                    /\ request[v].op \in {"update_issue", "move_issue"}
                    /\ request[v].issue = i
  IN /\ issues' = [issues EXCEPT ![i] = WrittenIssue(request[w], @, carried[w])]
     /\ guessed' = IF w \in guesses /\ request[w].op = "update_issue"
                     THEN guessed \cup {i} ELSE guessed \ {i}
     /\ gap' = [v \in Workers |->
          IF v = w THEN 0
          ELSE IF Expects(v) /\ gap[v] >= 0 THEN gap[v] - 1 ELSE gap[v]]
     /\ overtaken' = overtaken \ {w}
     /\ EndTransaction(w)
     /\ UNCHANGED <<attached, owner, retargeted>>

\* and locked FOR KEY SHARE once nobody is deleting it.
CommitChoice(w) ==
  /\ step[w] = "share key"
  /\ CanShare(w, Key(w))
  /\ w \notin overtaken
  /\ PublishIssue(w)

CommitUpdate(w) ==
  /\ At(w, "commit", {"update_issue"})
  /\ PublishIssue(w)

(***************************************************************************)
(* Rows that refer to an issue: an inserted one locks the issue FOR KEY     *)
(* SHARE at once, a changed one only with its activity record.              *)
(***************************************************************************)
WriteComment(w) ==
  /\ At(w, "begun", {"add_comment", "update_comment"})
  /\ IF request[w].op = "add_comment"
       THEN /\ CanShare(w, request[w].issue)
            /\ shared' = [shared EXCEPT ![w] = @ \cup {request[w].issue}]
       ELSE UNCHANGED shared
  /\ Goto(w, "gate")
  /\ UNCHANGED <<dbVars, request, draftVars, exclusive, written, revisionVars, overtaken>>

(***************************************************************************)
(* put_label, put_cycle and put_milestone insert a row whose id is free, or *)
(* update one; only a label may change its team.                            *)
(***************************************************************************)
LabelWritable(r) == r.op = "put_label"
CycleWritable(r) == r.op = "put_cycle" /\ owner[r.row] \in {Absent, r.owner}
MilestoneWritable(r) == r.op = "put_milestone" /\ owner[r.row] \in {Absent, r.owner}

\* A label of the whole organization refers to no team.
NewOwner(r) == {r.owner} \ {AnyTeam, owner[r.row]}

PutRow(w) ==
  LET r == request[w]
  IN /\ At(w, "begun", Puts)
     /\ CanLock(w, r.row)
     /\ LabelWritable(r) \/ CycleWritable(r) \/ MilestoneWritable(r)
     /\ exclusive' = [exclusive EXCEPT ![w] = @ \cup {r.row}]
     /\ Goto(w, IF NewOwner(r) = {} THEN "gate" ELSE "share owner")
     /\ UNCHANGED <<dbVars, request, draftVars, written, shared, revisionVars, overtaken>>

\* The foreign key to the team, or project, the row is given to.
ShareOwner(w) ==
  /\ step[w] = "share owner"
  /\ CanShare(w, request[w].owner)
  /\ shared' = [shared EXCEPT ![w] = @ \cup {request[w].owner}]
  /\ Goto(w, "gate")
  /\ UNCHANGED <<dbVars, request, draftVars, exclusive, written, revisionVars, overtaken>>

CommitPut(w) ==
  LET r == request[w]
  IN /\ At(w, "commit", Puts)
     /\ owner' = [owner EXCEPT ![r.row] = r.owner]
     /\ retargeted' = IF owner[r.row] \in {Absent, r.owner} THEN retargeted
                      ELSE retargeted \cup {r.row}
     /\ gap' = [gap EXCEPT ![w] = 0]
     /\ overtaken' = overtaken \ {w}
     /\ EndTransaction(w)
     /\ UNCHANGED <<attached, issues, guessed>>

(***************************************************************************)
(* put_team: the team's key is in a unique index, its other columns are not.*)
(***************************************************************************)
RenameTeam(w) ==
  /\ At(w, "begun", {"put_team"})
  /\ request[w].renames
  /\ CanLock(w, request[w].team)
  /\ exclusive' = [exclusive EXCEPT ![w] = @ \cup {request[w].team}]
  /\ Goto(w, "gate")
  /\ UNCHANGED <<dbVars, request, draftVars, written, shared, revisionVars, overtaken>>

WriteTeam(w) ==
  /\ At(w, "begun", {"put_team"})
  /\ ~request[w].renames
  /\ CanWrite(w, request[w].team)
  /\ written' = [written EXCEPT ![w] = @ \cup {request[w].team}]
  /\ Goto(w, "gate")
  /\ UNCHANGED <<dbVars, request, draftVars, exclusive, shared, revisionVars, overtaken>>

(***************************************************************************)
(* append_activity: the gate, then a record that refers to the issue.       *)
(***************************************************************************)
AcquireGate(w) ==
  /\ step[w] = "gate"
  /\ CanLock(w, Gate)
  /\ exclusive' = [exclusive EXCEPT ![w] = @ \cup {Gate}]
  /\ Goto(w, IF request[w].op \in AboutIssues THEN "append" ELSE "commit")
  /\ UNCHANGED <<dbVars, request, draftVars, written, shared, revisionVars, overtaken>>

AppendActivity(w) ==
  /\ step[w] = "append"
  /\ CanShare(w, request[w].issue)
  /\ shared' = [shared EXCEPT ![w] = @ \cup {request[w].issue}]
  /\ Goto(w, "commit")
  /\ UNCHANGED <<dbVars, request, draftVars, exclusive, written, revisionVars, overtaken>>

\* These commands change nothing that is modelled here.
CommitOther(w) ==
  /\ At(w, "commit", {"add_comment", "update_comment", "put_team"})
  /\ EndTransaction(w)
  /\ gap' = [gap EXCEPT ![w] = 0]
  /\ overtaken' = overtaken \ {w}
  /\ UNCHANGED dbVars

-----------------------------------------------------------------------------

Step(w) ==
  \/ CheckCover(w) \/ WriteProject(w) \/ ShareLead(w) \/ ReplaceTeams(w)
  \/ (\E t \in Teams : InsertTeam(w, t)) \/ TeamsInserted(w) \/ CommitTeams(w)
  \/ CountIssue(w) \/ InsertIssue(w) \/ UpdateIssue(w) \/ MoveIssue(w)
  \/ StripLabels(w) \/ (\E l \in Labels : AttachLabel(w, l)) \/ LabelsAttached(w)
  \/ LookupKey(w) \/ CommitChoice(w) \/ CommitUpdate(w)
  \/ WriteComment(w) \/ RenameTeam(w) \/ WriteTeam(w) \/ CommitOther(w)
  \/ PutRow(w) \/ ShareOwner(w) \/ CommitPut(w)
  \/ AcquireGate(w) \/ AppendActivity(w)

Init ==
  /\ attached = FirstAttached
  /\ issues = [i \in Issues |-> Absent]
  /\ owner = [row \in Labels \cup Cycles \cup Milestones |-> Absent]
  /\ retargeted = {}
  /\ guessed = {}
  /\ step = [w \in Workers |-> "idle"]
  /\ request = [w \in Workers |-> NoRequest]
  /\ before = [w \in Workers |-> NoIssue]
  /\ carried = [w \in Workers |-> {}]
  /\ pending = [w \in Workers |-> {}]
  /\ exclusive = [w \in Workers |-> {}]
  /\ written = [w \in Workers |-> {}]
  /\ shared = [w \in Workers |-> {}]
  /\ gap = [w \in Workers |-> 0]
  /\ guesses = {}
  /\ overtaken = {}

Next ==
  \E w \in Workers :
    Step(w) \/ Abort(w) \/ \E r \in Requests, ahead \in 0..MaxAhead : Begin(w, r, ahead)

Spec == Init /\ [][Next]_vars

-----------------------------------------------------------------------------
(***************************************************************************)
(* Correctness properties                                                   *)
(***************************************************************************)

Steps == {"idle", "begun", "write project", "share lead", "replace teams", "insert teams",
          "write issue", "strip labels", "attach labels", "share owner", "gate", "append",
          "commit", "share key"}

Rows == Projects \cup Teams \cup Issues \cup Labels \cup Cycles \cup Milestones
          \cup (Projects \X Teams) \cup {Gate}

(***************************************************************************)
(* Type invariant.                                                          *)
(***************************************************************************)
TypeOK ==
  /\ attached \subseteq Projects \X Teams
  /\ issues \in [Issues -> IssueRow \cup {Absent}]
  /\ owner \in [Labels \cup Cycles \cup Milestones -> Owners \cup {Absent}]
  /\ retargeted \subseteq Labels
  /\ guessed \subseteq Issues
  /\ step \in [Workers -> Steps]
  /\ request \in [Workers -> Requests]
  /\ before \in [Workers -> IssueRow \cup {NoIssue}]
  /\ carried \in [Workers -> SUBSET Labels]
  /\ pending \in [Workers -> SUBSET (Labels \cup Teams)]
  /\ exclusive \in [Workers -> SUBSET Rows]
  /\ written \in [Workers -> SUBSET Rows]
  /\ shared \in [Workers -> SUBSET Rows]
  /\ gap \in [Workers -> Gaps]
  /\ guesses \subseteq Workers
  /\ overtaken \subseteq Workers

(***************************************************************************)
(* Every issue's team is a team of its project, although update_project     *)
(* checks the issues before, and create_issue and move_issue check the      *)
(* teams before, the other one commits.                                     *)
(***************************************************************************)
TeamsCoverIssues ==
  \A i \in Issues : issues[i] # Absent =>
    <<issues[i].project, issues[i].team>> \in attached

(***************************************************************************)
(* The cycle of an issue is of its team, its milestone of its project, and  *)
(* its labels of its team or of no team, whatever moves and updates race.   *)
(* No foreign key protects the labels: they are compared with a team read   *)
(* before the transaction, and the expected revision has to refuse what a   *)
(* move has overtaken.  It does not when put_label itself gives a label to  *)
(* another team while issues carry it, nor when a client names a revision   *)
(* it has not been told, which an interleaved move then brings about.       *)
(***************************************************************************)
AttachmentsFit ==
  \A i \in Issues : issues[i] # Absent =>
    /\ issues[i].cycle # Absent => owner[issues[i].cycle] = issues[i].team
    /\ issues[i].milestone # Absent => owner[issues[i].milestone] = issues[i].project
    /\ \A l \in issues[i].labels :
         Fits(l, issues[i].team) \/ l \in retargeted \/ i \in guessed

\* The rows a worker's next statement waits for, by the strength it needs.
WantsExclusive(w) ==
  CASE step[w] = "replace teams" -> {row \in attached : row[1] = request[w].project}
    [] At(w, "write issue", TeamChoices) -> {request[w].issue}
    [] At(w, "begun", Puts) -> {request[w].row}
    [] At(w, "begun", {"put_team"}) /\ request[w].renames -> {request[w].team}
    [] step[w] = "gate" -> {Gate}
    [] OTHER -> {}

WantsWritten(w) ==
  CASE step[w] = "write project" -> {request[w].project}
    [] At(w, "begun", TeamChoices) -> {request[w].team}
    [] At(w, "begun", {"put_team"}) /\ ~request[w].renames -> {request[w].team}
    [] At(w, "begun", {"update_issue"}) -> {request[w].issue}
    [] OTHER -> {}

WantsShared(w) ==
  CASE At(w, "write issue", {"create_issue"}) -> Referenced(w)
    [] At(w, "begun", {"update_issue"}) -> Referenced(w)
    [] At(w, "begun", {"add_comment"}) -> {request[w].issue}
    [] step[w] = "share lead" -> {request[w].lead}
    [] step[w] = "share owner" -> {request[w].owner}
    [] step[w] \in {"attach labels", "insert teams"} -> pending[w]
    [] step[w] = "append" -> {request[w].issue}
    [] step[w] = "share key" -> {Key(w)}
    [] At(w, "commit", {"update_project"}) -> Dropped(w) \cup NewMilestone(w)
    [] OTHER -> {}

Blockers(w) ==
  {v \in Workers \ {w} :
     \/ WantsExclusive(w) \cap (exclusive[v] \cup written[v] \cup shared[v]) # {}
     \/ WantsWritten(w) \cap (exclusive[v] \cup written[v]) # {}
     \/ WantsShared(w) \cap exclusive[v] # {}}

\* PostgreSQL aborts one of a set of transactions that wait for each other.
Deadlocked(waiting) ==
  waiting # {} /\ \A w \in waiting : Blockers(w) \cap waiting # {}

(***************************************************************************)
(* update_project and move_issue lock rows, before they ask for the gate,   *)
(* that others need once they have it (project_teams rows and the issue),   *)
(* and update_project needs issues and its milestone then itself, so the    *)
(* two can deadlock: with each other, with create_issue and comments, and   *)
(* through put_team, whose new key they wait for without the gate.  Nothing *)
(* else does: every deadlock has one of the two in it.                      *)
(***************************************************************************)
OnlyTeamChangesDeadlock ==
  LET Others == {w \in Workers : request[w].op \notin {"update_project", "move_issue"}}
  IN \A waiting \in SUBSET Others : ~Deadlocked(waiting)

=============================================================================
