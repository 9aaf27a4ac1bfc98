------------------------------ MODULE Ingress -------------------------------
(***************************************************************************)
(* The way of a request through the Projects plugin: the caller and the     *)
(* assertion it carries, the checks that other capabilities answer, the     *)
(* validation of the request, the prepared connection pool, and the         *)
(* connections the storage functions take from it, while rights change and  *)
(* the plugin is activated and deactivated.                                 *)
(*                                                                         *)
(* What a storage function does inside its statements is the subject of the *)
(* other modules: here it ends, fails, or rejects the request.              *)
(***************************************************************************)
EXTENDS Naturals, Sequences, FiniteSets

CONSTANTS
  Arrivals,          \* requests in flight, each served once
  Subjects,
  ProjectCallers, AdminCallers, GovernanceCallers, \* the allowlists
  MaxConnections,    \* the size of a pool
  MaxPools,          \* how often the plugin is activated
  Calls,             \* what is asked
  Failures,          \* with what storage rejects
  FirstRights,       \* who is a member and has which permission initially
  ChangingRights,    \* the rights that come and go
  NoSubject

-----------------------------------------------------------------------------
(* The handlers.  Each has its allowlist, the permission it asks for, the   *)
(* defects its validation refuses, the errors its answer can name, and the  *)
(* connections its storage function takes one after the other: for single   *)
(* statements on the pool, a reader, the bootstrap of the status catalog,   *)
(* or the transaction of a command.                                         *)

DomainFailures ==
  {"InvalidRequest", "IdempotencyConflict", "NotFound", "RevisionConflict",
   "TeamNotFound", "WorkflowStateNotFound", "ProjectStatusNotFound",
   "CycleNotFound", "MilestoneNotFound", "ParentNotFound", "LabelNotFound",
   "PrivateTeam", "IdentifierConflict", "AuthorRequired", "CannotRelateSelf",
   "RelationConflict", "KeyConflict", "DefaultStateInvalid", "ActiveReference"}

ProjectErrors ==
  {"IdempotencyConflict", "NotFound", "RevisionConflict", "TeamNotFound",
   "WorkflowStateNotFound", "ProjectStatusNotFound", "CycleNotFound",
   "MilestoneNotFound", "ParentNotFound", "LabelNotFound", "PrivateTeam",
   "IdentifierConflict"}
CollaborationErrors ==
  {"IdempotencyConflict", "NotFound", "RevisionConflict", "PrivateTeam",
   "AuthorRequired", "CannotRelateSelf", "RelationConflict"}
AdminErrors ==
  {"IdempotencyConflict", "NotFound", "RevisionConflict", "KeyConflict",
   "DefaultStateInvalid", "ActiveReference"}

Project(permission, refuses, uses) ==
  [callers |-> ProjectCallers, permission |-> permission, errors |-> ProjectErrors,
   refuses |-> refuses, uses |-> uses]
Collaboration(permission, refuses, uses) ==
  [callers |-> ProjectCallers, permission |-> permission,
   errors |-> CollaborationErrors, refuses |-> refuses, uses |-> uses]
Admin(refuses, uses) ==
  [callers |-> AdminCallers, permission |-> "projects.admin", errors |-> AdminErrors,
   refuses |-> refuses, uses |-> uses]
Governed(refuses, uses) ==
  [callers |-> GovernanceCallers, permission |-> "none", errors |-> {},
   refuses |-> refuses, uses |-> uses]

Asking == <<"statements">>
Reading == <<"statements", "reader">>
Writing == <<"statements", "transaction">>
Bootstrapping == <<"bootstrap", "statements", "reader">>

\* The validators, by the kinds of defect they refuse.
IdempotentRevision == {"id", "revision"}
Paged == {"page"}
ProjectCreate == {"id", "text", "teams"}
ProjectUpdate == IdempotentRevision \cup {"text", "teams"}
IssueCommon == {"id", "text", "labels"}
IssueCreate == IssueCommon \cup {"parent"}
IssueUpdate == IdempotentRevision \cup IssueCommon \cup {"parent"}
TeamPut == {"id", "key", "text", "revision", "default"}
CatalogPut == {"id", "text", "color", "revision"}
WorkflowReorder == {"id", "revision", "items"}
ProjectStatusReorder == {"id", "revision", "items"}

CreateProject == Project("projects.write", ProjectCreate, Writing)
GetProject == Project("projects.read", {"id"}, Reading)
ListProjects == Project("projects.read", Paged \cup {"id"}, Reading)
UpdateProject == Project("projects.write", ProjectUpdate, Writing)
ArchiveProject == Project("projects.write", IdempotentRevision, Writing)
CreateIssue == Project("projects.write", IssueCreate, Writing)
ListIssueWorkflowStates == Project("projects.read", Paged \cup {"id"}, Asking)
GetIssue == Project("projects.read", {"id"}, Reading)
ListIssues == Project("projects.read", Paged \cup {"id"}, <<"reader">>)
UpdateIssue == Project("projects.write", IssueUpdate, Writing)
MoveIssue == Project("projects.write", IdempotentRevision, Writing)
ArchiveIssue == Project("projects.write", IdempotentRevision, Writing)
PutExternalLink == Project("projects.write", {"id", "url", "text"}, Writing)
ListActivity == Project("projects.read", Paged \cup {"id"}, Asking)

GetIssueAssignee == Collaboration("projects.read", {"id"}, Asking)
SetIssueAssignee == Collaboration("projects.write", IdempotentRevision, Writing)
AddComment == Collaboration("projects.collaborate", {"id", "text"}, Writing)
UpdateComment ==
  Collaboration("projects.collaborate", IdempotentRevision \cup {"text"}, Writing)
DeleteComment == Collaboration("projects.collaborate", IdempotentRevision, Writing)
ListComments == Collaboration("projects.read", Paged \cup {"id"}, Reading)
CreateProjectUpdate == Collaboration("projects.collaborate", {"id", "text"}, Writing)
ListProjectUpdates == Collaboration("projects.read", Paged \cup {"id"}, Asking)
AddIssueRelation == Collaboration("projects.collaborate", {"id"}, Writing)
RemoveIssueRelation == Collaboration("projects.collaborate", {"id"}, Writing)

PutTeam == Admin(TeamPut, Writing)
ListTeams == Admin(Paged, Reading)
SetTeamMember == Admin({"id"}, Writing)
PutWorkflowState == Admin(CatalogPut, Writing)
GetWorkflowState == Admin({"id"}, Reading)
ReorderWorkflowStates == Admin(WorkflowReorder, <<"transaction">>)
ArchiveWorkflowState == Admin(IdempotentRevision, <<"transaction">>)
DeleteWorkflowState == Admin(IdempotentRevision, <<"transaction">>)
ListWorkflowStates == Admin(Paged \cup {"id"}, Reading)
PutProjectStatus == Admin(CatalogPut, <<"transaction">>)
GetProjectStatus == Admin({"id"}, <<"bootstrap">>)
ReorderProjectStatuses == Admin(ProjectStatusReorder, <<"transaction">>)
ArchiveProjectStatus == Admin(IdempotentRevision, <<"transaction">>)
DeleteProjectStatus == Admin(IdempotentRevision, <<"transaction">>)
ListProjectStatuses == Admin(Paged, Bootstrapping)
PutLabel == Admin(CatalogPut, Writing)
ListLabels == Admin(Paged \cup {"id"}, Asking)
PutCycle == Admin({"id", "number", "text", "revision"}, Writing)
ListCycles == Admin(Paged \cup {"id"}, Asking)
PutMilestone == Admin({"id", "text", "revision"}, Writing)
ListMilestones == Admin(Paged \cup {"id"}, Asking)

CollectExport == Governed({"scope", "id"}, Asking)
ApplyRetention == Governed({"scope", "id", "text"}, <<"transaction">>)

Handlers ==
  [create_project |-> CreateProject, get_project |-> GetProject,
   list_projects |-> ListProjects, update_project |-> UpdateProject,
   archive_project |-> ArchiveProject, create_issue |-> CreateIssue,
   list_issue_workflow_states |-> ListIssueWorkflowStates, get_issue |-> GetIssue,
   list_issues |-> ListIssues, update_issue |-> UpdateIssue, move_issue |-> MoveIssue,
   archive_issue |-> ArchiveIssue, put_external_link |-> PutExternalLink,
   list_activity |-> ListActivity, get_issue_assignee |-> GetIssueAssignee,
   set_issue_assignee |-> SetIssueAssignee, add_comment |-> AddComment,
   update_comment |-> UpdateComment, delete_comment |-> DeleteComment,
   list_comments |-> ListComments, create_project_update |-> CreateProjectUpdate,
   list_project_updates |-> ListProjectUpdates, add_issue_relation |-> AddIssueRelation,
   remove_issue_relation |-> RemoveIssueRelation, put_team |-> PutTeam,
   list_teams |-> ListTeams, set_team_member |-> SetTeamMember,
   put_workflow_state |-> PutWorkflowState, get_workflow_state |-> GetWorkflowState,
   reorder_workflow_states |-> ReorderWorkflowStates,
   archive_workflow_state |-> ArchiveWorkflowState,
   delete_workflow_state |-> DeleteWorkflowState,
   list_workflow_states |-> ListWorkflowStates, put_project_status |-> PutProjectStatus,
   get_project_status |-> GetProjectStatus,
   reorder_project_statuses |-> ReorderProjectStatuses,
   archive_project_status |-> ArchiveProjectStatus,
   delete_project_status |-> DeleteProjectStatus,
   list_project_statuses |-> ListProjectStatuses, put_label |-> PutLabel,
   list_labels |-> ListLabels, put_cycle |-> PutCycle, list_cycles |-> ListCycles,
   put_milestone |-> PutMilestone, list_milestones |-> ListMilestones,
   collect_export |-> CollectExport, apply_retention |-> ApplyRetention]

Operations == DOMAIN Handlers

\* Commands are what takes effect for a client.
IsCommand(o) == \E i \in DOMAIN Handlers[o].uses : Handlers[o].uses[i] = "transaction"

-----------------------------------------------------------------------------
(* Requests and what becomes of them.                                       *)

Permissions == {"projects.read", "projects.write", "projects.collaborate", "projects.admin"}
Rights == Subjects \X (Permissions \cup {"member"})
Defects == {"organization", "scope", "id", "revision", "page", "text", "teams", "labels",
            "parent", "key", "default", "color", "items", "number", "url"}

\* The subject is the one of the sealed assertion, NoSubject if there is none
\* that the key verifies; the audience is what the assertion is for.
Call ==
  [operation : Operations,
   caller : ProjectCallers \cup AdminCallers \cup GovernanceCallers,
   subject : Subjects \cup {NoSubject}, audience : SUBSET Operations,
   assignee : Subjects \cup {NoSubject}, defects : SUBSET Defects]

ASSUME ArrivalsAssumption == IsFiniteSet(Arrivals)
ASSUME CallersAssumption ==
  /\ ProjectCallers # {} /\ AdminCallers # {} /\ GovernanceCallers # {}
ASSUME PoolsAssumption == MaxConnections \in Nat \ {0} /\ MaxPools \in Nat \ {0}
ASSUME CallsAssumption ==
  /\ Calls \subseteq Call /\ Calls # {} /\ NoSubject \notin Subjects
  /\ Failures \subseteq DomainFailures
  /\ FirstRights \subseteq Rights /\ ChangingRights \subseteq Rights

VARIABLES
  prepared,     \* the pool the plugin has prepared, 0 for None
  pools,        \* the state of every pool
  connections,  \* the connections checked out: of which request, for which use
  rights,       \* what Organization Membership and Access Control know
  expired,      \* the requests whose assertion has expired
  phase,        \* where a request is
  call,         \* what it asks
  pool,         \* the pool it has cloned, 0 before
  use,          \* which of its connections it takes or has
  answer,       \* its answer
  committed,    \* whether its transaction has committed (history)
  held          \* the rights there were at any time of the request (history)

requestVars == <<phase, call, pool, use, answer, committed, held>>
ingressVars == <<prepared, pools, connections, rights, expired, requestVars>>

Pools == 1..MaxPools
Phases == {"idle", "received", "membership", "permission", "assignee", "waiting",
           "using", "committed", "answered"}
Answers == {"Ok", "Forbidden", "Unauthenticated", "InvalidRequest", "Runtime"}
             \cup DomainFailures

IngressInit ==
  /\ prepared = 0
  /\ pools = [g \in Pools |-> "unused"]
  /\ connections = {}
  /\ rights = FirstRights
  /\ expired = {}
  /\ phase = [r \in Arrivals |-> "idle"]
  /\ call = [r \in Arrivals |-> CHOOSE c \in Calls : TRUE]
  /\ pool = [r \in Arrivals |-> 0]
  /\ use = [r \in Arrivals |-> 1]
  /\ answer = [r \in Arrivals |-> "Runtime"]
  /\ committed = [r \in Arrivals |-> FALSE]
  /\ held = [r \in Arrivals |-> {}]

HandlerOf(r) == Handlers[call[r].operation]

MoveTo(r, p) ==
  /\ phase' = [phase EXCEPT ![r] = p]
  /\ UNCHANGED <<prepared, pools, connections, rights, expired,
                 call, pool, use, answer, committed, held>>

\* Whatever a handler returns, the connection it still has goes back.
Answer(r, a) ==
  /\ phase' = [phase EXCEPT ![r] = "answered"]
  /\ answer' = [answer EXCEPT ![r] = a]
  /\ connections' = {c \in connections : c.of # r}
  /\ UNCHANGED <<prepared, pools, rights, expired, call, pool, use, committed, held>>

Submit(r, c) ==
  /\ phase[r] = "idle"
  /\ phase' = [phase EXCEPT ![r] = "received"]
  /\ call' = [call EXCEPT ![r] = c]
  /\ held' = [held EXCEPT ![r] = rights]
  /\ UNCHANGED <<prepared, pools, connections, rights, expired,
                 pool, use, answer, committed>>

(* authorize and governance_caller. *)

CallerAllowed(r) == call[r].caller \in HandlerOf(r).callers

AssertionHolds(r) ==
  /\ call[r].subject # NoSubject
  /\ call[r].operation \in call[r].audience
  /\ r \notin expired

RefuseCaller(r) ==
  /\ phase[r] = "received"
  /\ ~CallerAllowed(r)
  /\ Answer(r, "Forbidden")

VerifyAssertion(r) ==
  /\ phase[r] = "received"
  /\ CallerAllowed(r) /\ HandlerOf(r).permission # "none"
  /\ IF AssertionHolds(r)
       THEN IF "organization" \in call[r].defects
              THEN Answer(r, "Forbidden")
              ELSE MoveTo(r, "membership")
       ELSE Answer(r, "Unauthenticated")

CheckMembership(r) ==
  /\ phase[r] = "membership"
  /\ IF <<call[r].subject, "member">> \in rights
       THEN MoveTo(r, "permission")
       ELSE Answer(r, "Forbidden")

(* The handler after its authorization: validation, the assignee, and       *)
(* prepared().                                                              *)

Valid(r) == call[r].defects \cap HandlerOf(r).refuses = {}

NamesAssignee(r) ==
  call[r].operation = "set_issue_assignee" /\ call[r].assignee # NoSubject

EnterStorage(r) ==
  IF prepared = 0
    THEN Answer(r, "Runtime")
    ELSE /\ phase' = [phase EXCEPT ![r] = "waiting"]
         /\ pool' = [pool EXCEPT ![r] = prepared]
         /\ UNCHANGED <<prepared, pools, connections, rights, expired,
                        call, use, answer, committed, held>>

Validate(r) ==
  CASE ~Valid(r) -> Answer(r, "InvalidRequest")
    [] Valid(r) /\ NamesAssignee(r) -> MoveTo(r, "assignee")
    [] OTHER -> EnterStorage(r)

AdmitGovernance(r) ==
  /\ phase[r] = "received"
  /\ CallerAllowed(r) /\ HandlerOf(r).permission = "none"
  /\ Validate(r)

CheckPermission(r) ==
  /\ phase[r] = "permission"
  /\ IF <<call[r].subject, HandlerOf(r).permission>> \in rights
       THEN Validate(r)
       ELSE Answer(r, "Forbidden")

\* Defect: the membership of the actor is checked instead of the assignee's.
CheckAssigneeOfActor(r) ==
  /\ phase[r] = "assignee"
  /\ IF <<call[r].subject, "member">> \in rights
       THEN EnterStorage(r)
       ELSE Answer(r, "Forbidden")

CheckAssignee(r) ==
  /\ phase[r] = "assignee"
  /\ IF <<call[r].assignee, "member">> \in rights
       THEN EnterStorage(r)
       ELSE Answer(r, "Forbidden")

(* Connections. *)

CheckedOut(g) == {c \in connections : pool[c.of] = g}

Acquire(r) ==
  /\ phase[r] = "waiting"
  /\ pools[pool[r]] = "open"
  /\ Cardinality(CheckedOut(pool[r])) < MaxConnections
  /\ connections' = connections \cup {[of |-> r, for |-> use[r]]}
  /\ phase' = [phase EXCEPT ![r] = "using"]
  /\ UNCHANGED <<prepared, pools, rights, expired, call, pool, use, answer,
                 committed, held>>

\* A pool that is closing refuses, also those that have been waiting.
RefusedByPool(r) ==
  /\ phase[r] = "waiting"
  /\ pools[pool[r]] # "open"
  /\ Answer(r, "Runtime")

Using(r, kinds) ==
  phase[r] = "using" /\ HandlerOf(r).uses[use[r]] \in kinds

\* Defect: a handler keeps the connection of its statement for its reader.
ConnectionsKept(r) == connections

\* Statements on the pool and the bootstrap give their connection back before
\* the next one is taken.
ConnectionsAfterUse(r) == {c \in connections : c.of # r}

FinishUse(r) ==
  /\ Using(r, {"statements", "reader", "bootstrap"})
  /\ IF use[r] < Len(HandlerOf(r).uses)
       THEN /\ phase' = [phase EXCEPT ![r] = "waiting"]
            /\ use' = [use EXCEPT ![r] = @ + 1]
            /\ connections' = ConnectionsAfterUse(r)
            /\ UNCHANGED <<prepared, pools, rights, expired, call, pool, answer,
                           committed, held>>
       ELSE Answer(r, "Ok")

\* The commit of a new command, or of a replay.
Commit(r) ==
  /\ Using(r, {"transaction"})
  /\ phase' = [phase EXCEPT ![r] = "committed"]
  /\ committed' = [committed EXCEPT ![r] = TRUE]
  /\ connections' = {c \in connections : c.of # r}
  /\ UNCHANGED <<prepared, pools, rights, expired, call, pool, use, answer, held>>

Reply(r) ==
  /\ phase[r] = "committed"
  /\ Answer(r, "Ok")

\* The error macros.
ErrorName(r, f) ==
  LET errors == HandlerOf(r).errors IN
  IF f \in errors THEN f
  ELSE IF f = "IdentifierConflict" /\ "RelationConflict" \in errors
         THEN "RelationConflict"
         ELSE "InvalidRequest"

Reject(r) ==
  /\ phase[r] = "using"
  /\ \E f \in Failures : Answer(r, ErrorName(r, f))

\* A capability or a statement fails, no connection comes in time, the caller
\* cancels, or the answer does not arrive.
Fail(r) ==
  /\ phase[r] \in {"membership", "permission", "assignee", "waiting", "using", "committed"}
  /\ Answer(r, "Runtime")

Serve(r) ==
  \/ RefuseCaller(r) \/ VerifyAssertion(r) \/ AdmitGovernance(r)
  \/ CheckMembership(r) \/ CheckPermission(r) \/ CheckAssignee(r)
  \/ Acquire(r) \/ RefusedByPool(r) \/ FinishUse(r) \/ Commit(r) \/ Reply(r)

-----------------------------------------------------------------------------
(* The lifecycle of the plugin, and what changes around it.                 *)

Activate(g) ==
  /\ prepared = 0
  /\ pools[g] = "unused"
  /\ \A h \in Pools : h < g => pools[h] = "closed"
  /\ prepared' = g
  /\ pools' = [pools EXCEPT ![g] = "open"]
  /\ UNCHANGED <<connections, rights, expired, requestVars>>

\* prepared is taken before close() is awaited.
BeginDeactivate ==
  /\ prepared # 0
  /\ prepared' = 0
  /\ pools' = [pools EXCEPT ![prepared] = "closing"]
  /\ UNCHANGED <<connections, rights, expired, requestVars>>

\* Defect: close() is not awaited.
FinishDeactivateAtOnce(g) ==
  /\ pools[g] = "closing"
  /\ pools' = [pools EXCEPT ![g] = "closed"]
  /\ UNCHANGED <<prepared, connections, rights, expired, requestVars>>

FinishDeactivate(g) ==
  /\ pools[g] = "closing"
  /\ CheckedOut(g) = {}
  /\ pools' = [pools EXCEPT ![g] = "closed"]
  /\ UNCHANGED <<prepared, connections, rights, expired, requestVars>>

InFlight(r) == phase[r] \notin {"idle", "answered"}

ChangeRight(right) ==
  /\ rights' = IF right \in rights THEN rights \ {right} ELSE rights \cup {right}
  /\ held' = [r \in Arrivals |-> IF InFlight(r) THEN held[r] \cup rights' ELSE held[r]]
  /\ UNCHANGED <<prepared, pools, connections, expired,
                 phase, call, pool, use, answer, committed>>

Expire(r) ==
  /\ phase[r] \in {"idle", "received"}
  /\ expired' = expired \cup {r}
  /\ UNCHANGED <<prepared, pools, connections, rights, requestVars>>

Progress ==
  \/ \E r \in Arrivals : Serve(r) \/ Reject(r) \/ Fail(r) \/ Expire(r)
  \/ \E g \in Pools : Activate(g) \/ FinishDeactivate(g)
  \/ BeginDeactivate
  \/ \E right \in ChangingRights : ChangeRight(right)

IngressNext == Progress \/ \E r \in Arrivals, c \in Calls : Submit(r, c)

\* Handlers are polled, and close() returns once it may; nobody has to call,
\* to fail or to deactivate.
Fairness ==
  /\ \A r \in Arrivals : WF_ingressVars(Serve(r))
  /\ \A g \in Pools : WF_ingressVars(FinishDeactivate(g))

IngressSpec == IngressInit /\ [][IngressNext]_ingressVars /\ Fairness

-----------------------------------------------------------------------------
(* Properties. *)

\* What the variables hold.
IngressTypeOK ==
  /\ prepared \in {0} \cup Pools
  /\ pools \in [Pools -> {"unused", "open", "closing", "closed"}]
  /\ connections \subseteq [of : Arrivals, for : 1..3]
  /\ rights \subseteq Rights
  /\ expired \subseteq Arrivals
  /\ phase \in [Arrivals -> Phases]
  /\ call \in [Arrivals -> Call]
  /\ pool \in [Arrivals -> {0} \cup Pools]
  /\ use \in [Arrivals -> 1..3]
  /\ answer \in [Arrivals -> Answers]
  /\ committed \in [Arrivals -> BOOLEAN]
  /\ held \in [Arrivals -> SUBSET Rights]

\* A request reaches storage only for a caller of its handler's allowlist and,
\* unless it is a governance operation, for a subject whose assertion is for
\* this very operation and who was an active member with the permission of the
\* operation at some time since the request came in; an assignee was an active
\* member then, too; and nothing the validation refuses comes through
\* (authorize, governance_caller, set_issue_assignee).
HadRights(r) ==
  /\ {<<call[r].subject, "member">>, <<call[r].subject, HandlerOf(r).permission>>}
       \subseteq held[r]
  /\ call[r].operation = "set_issue_assignee" /\ call[r].assignee # NoSubject =>
       <<call[r].assignee, "member">> \in held[r]

StorageIsGuarded ==
  \A r \in Arrivals : pool[r] # 0 =>
    /\ CallerAllowed(r) /\ Valid(r)
    /\ HandlerOf(r).permission # "none" =>
         /\ call[r].subject # NoSubject /\ call[r].operation \in call[r].audience
         /\ HadRights(r)

\* What is prepared is open, and once deactivate has returned no request it
\* left behind has a connection or can get one: nothing of them takes effect
\* later, whatever they had cloned before (activate, deactivate).
ClosedMeansQuiet ==
  /\ prepared # 0 => pools[prepared] = "open"
  /\ \A r \in Arrivals : pool[r] # 0 /\ pools[pool[r]] = "closed" =>
       phase[r] \in {"waiting", "committed", "answered"} /\ CheckedOut(pool[r]) = {}

\* An error the client is told of means that the request had no effect, and
\* an answer means that a command has committed; only a failure leaves it open.
OutcomeIsTold ==
  \A r \in Arrivals : phase[r] = "answered" /\ answer[r] # "Runtime" =>
    (committed[r] <=> (answer[r] = "Ok" /\ IsCommand(call[r].operation)))

\* No request is in flight and no deactivation is under way.
Settled ==
  /\ \A r \in Arrivals : ~InFlight(r)
  /\ \A g \in Pools : pools[g] # "closing"

=============================================================================
