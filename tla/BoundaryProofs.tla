---------------------------- MODULE BoundaryProofs ----------------------------
(***************************************************************************)
(* The edge of the system.  First the calls that come in: checks come       *)
(* before storage, a closed pool stays quiet and the HTTP status tells what *)
(* has happened, for any number of requests, subjects, connections and      *)
(* pools.  Then the identifiers by which calls name issues: they are        *)
(* allocated in order, carry the key of their team and are never given      *)
(* twice, for any number of workers, teams, keys and issues.                *)
(***************************************************************************)
EXTENDS AgentGateway, IssueIdentifiers, TLAPS

USE PoolsAssumption, CallsAssumption, PostsAssumption

-----------------------------------------------------------------------------
(***************************************************************************)
(* The handlers: a transaction is the last connection a command takes.      *)
(***************************************************************************)

Shapes == {Asking, Reading, Writing, <<"reader">>, <<"transaction">>, <<"bootstrap">>,
           Bootstrapping}

UsesFit(u) ==
  /\ Len(u) \in 1..3 /\ DOMAIN u = 1..Len(u)
  /\ \A i \in 1..Len(u) : u[i] = "transaction" => i = Len(u)

LEMMA ShapesFit == \A u \in Shapes : UsesFit(u)
<1>1. UsesFit(Asking) /\ UsesFit(<<"reader">>) /\ UsesFit(<<"transaction">>)
        /\ UsesFit(<<"bootstrap">>)
  BY DEF UsesFit, Asking
<1>2. UsesFit(Reading) /\ UsesFit(Writing)
  BY DEF UsesFit, Reading, Writing
<1>3. UsesFit(Bootstrapping)
  BY DEF UsesFit, Bootstrapping
<1> QED  BY <1>1, <1>2, <1>3 DEF Shapes

ProjectHandlers ==
  {CreateProject, GetProject, ListProjects, UpdateProject, ArchiveProject,
   CreateIssue, ListIssueWorkflowStates, GetIssue, ListIssues, UpdateIssue, MoveIssue,
   ArchiveIssue, PutExternalLink, ListActivity}
CollaborationHandlers ==
  {GetIssueAssignee, SetIssueAssignee, AddComment, UpdateComment, DeleteComment,
   ListComments, CreateProjectUpdate, ListProjectUpdates, AddIssueRelation,
   RemoveIssueRelation}
AdminHandlers ==
  {PutTeam, ListTeams, SetTeamMember, PutWorkflowState, GetWorkflowState,
   ReorderWorkflowStates, ArchiveWorkflowState, DeleteWorkflowState,
   ListWorkflowStates, PutProjectStatus, GetProjectStatus, ReorderProjectStatuses,
   ArchiveProjectStatus, DeleteProjectStatus, ListProjectStatuses, PutLabel,
   ListLabels, PutCycle, ListCycles, PutMilestone, ListMilestones}
GovernedHandlers ==
  {CollectExport, ApplyRetention}

LEMMA HandlersHaveShape == \A o \in Operations : Handlers[o].uses \in Shapes
<1>1. \A o \in Operations : Handlers[o] \in
        ProjectHandlers \cup CollaborationHandlers \cup AdminHandlers \cup GovernedHandlers
  BY DEF Operations, Handlers, ProjectHandlers, CollaborationHandlers, AdminHandlers,
         GovernedHandlers
<1>2. \A h \in ProjectHandlers : h.uses \in Shapes
  BY DEF ProjectHandlers, Shapes, Project,
     CreateProject, GetProject, ListProjects, UpdateProject, ArchiveProject,
     CreateIssue, ListIssueWorkflowStates, GetIssue, ListIssues, UpdateIssue,
     MoveIssue, ArchiveIssue, PutExternalLink, ListActivity
<1>3. \A h \in CollaborationHandlers : h.uses \in Shapes
  BY DEF CollaborationHandlers, Shapes, Collaboration,
     GetIssueAssignee, SetIssueAssignee, AddComment, UpdateComment, DeleteComment,
     ListComments, CreateProjectUpdate, ListProjectUpdates, AddIssueRelation,
     RemoveIssueRelation
<1>4. \A h \in AdminHandlers : h.uses \in Shapes
  BY DEF AdminHandlers, Shapes, Admin,
     PutTeam, ListTeams, SetTeamMember, PutWorkflowState, GetWorkflowState,
     ReorderWorkflowStates, ArchiveWorkflowState, DeleteWorkflowState,
     ListWorkflowStates, PutProjectStatus, GetProjectStatus, ReorderProjectStatuses,
     ArchiveProjectStatus, DeleteProjectStatus, ListProjectStatuses, PutLabel,
     ListLabels, PutCycle, ListCycles, PutMilestone, ListMilestones
<1>5. \A h \in GovernedHandlers : h.uses \in Shapes
  BY DEF GovernedHandlers, Shapes, Governed,
     CollectExport, ApplyRetention
<1> QED  BY <1>1, <1>2, <1>3, <1>4, <1>5

LEMMA CommandsEndWithTransaction ==
  ASSUME NEW o \in Operations
  PROVE  /\ UsesFit(Handlers[o].uses)
         /\ IsCommand(o) => Handlers[o].uses[Len(Handlers[o].uses)] = "transaction"
  BY HandlersHaveShape, ShapesFit DEF UsesFit, IsCommand

LEMMA ToolsAreOperations == \A t \in DOMAIN Tools : Tools[t] \in Operations
  BY DEF Tools, Operations, Handlers

LEMMA PluginCallsAreCalls ==
  ASSUME NEW r \in ToolRequests, post \in [ToolRequests -> Post],
         post[r].tool \in DOMAIN Tools
  PROVE  PluginCall(r) \in Call
  BY ToolsAreOperations DEF PluginCall, Call, Post, Assignee

-----------------------------------------------------------------------------
(***************************************************************************)
(* The inductive invariant, part by part.                                   *)
(***************************************************************************)

\* authorize has accepted the caller and the assertion.
Authentic(r) ==
  /\ CallerAllowed(r)
  /\ HandlerOf(r).permission # "none" =>
       call[r].subject # NoSubject /\ call[r].operation \in call[r].audience

HadPermission(r) ==
  HandlerOf(r).permission # "none" =>
    {<<call[r].subject, "member">>, <<call[r].subject, HandlerOf(r).permission>>}
      \subseteq held[r]

HadAssignee(r) == NamesAssignee(r) => <<call[r].assignee, "member">> \in held[r]

\* What the phase of a request says about the checks it has passed.
ChecksPassed(r) ==
  /\ phase[r] \in {"idle", "received", "membership", "permission", "assignee"} =>
       pool[r] = 0
  /\ phase[r] \in {"waiting", "using", "committed"} => pool[r] # 0
  /\ phase[r] \in {"membership", "permission", "assignee"} => Authentic(r)
  /\ phase[r] = "permission" => <<call[r].subject, "member">> \in held[r]
  /\ phase[r] = "assignee" => Valid(r) /\ HadPermission(r)
  /\ pool[r] # 0 => Authentic(r) /\ Valid(r) /\ HadPermission(r) /\ HadAssignee(r)
  /\ InFlight(r) => rights \subseteq held[r]

\* What it says about the effect of the request.
EffectIsKnown(r) ==
  /\ use[r] \in DOMAIN HandlerOf(r).uses
  /\ phase[r] = "idle" => use[r] = 1
  /\ phase[r] \notin {"committed", "answered"} => ~committed[r]
  /\ phase[r] = "committed" => committed[r] /\ IsCommand(call[r].operation)
  /\ phase[r] = "answered" /\ answer[r] # "Runtime" =>
       (committed[r] <=> (answer[r] = "Ok" /\ IsCommand(call[r].operation)))

\* A connection is out for the request that is using it, from a pool that is
\* not closed.
ConnectionsAreUsed ==
  /\ \A c \in connections : phase[c.of] = "using" /\ pools[pool[c.of]] # "closed"
  /\ \A r \in Arrivals : phase[r] = "using" =>
       [of |-> r, for |-> use[r]] \in connections
  /\ prepared # 0 => pools[prepared] = "open"

\* How far a tool request is, on its hop and in the plugin.
ToolFollows(r) ==
  /\ hop[r] \in {"idle", "authenticating", "executing"} => phase[r] = "idle"
  /\ phase[r] # "idle" => call[r] = PluginCall(r)
  /\ hop[r] = "replied" /\ status[r] \in {400, 401, 403, 404, 422} =>
       phase[r] \in {"idle", "answered"} /\ ~committed[r]
  /\ hop[r] = "replied" /\ status[r] = 413 =>
       phase[r] = "idle" \/ (phase[r] = "answered" /\ answer[r] = "Ok")
  /\ hop[r] = "replied" /\ status[r] = 200 => phase[r] = "answered" /\ answer[r] = "Ok"

\* All of it that speaks of the plugin.
IngressIsSafe ==
  /\ \A r \in Arrivals : ChecksPassed(r) /\ EffectIsKnown(r)
  /\ ConnectionsAreUsed

GatewayInv ==
  /\ GatewayTypeOK /\ IngressIsSafe
  /\ \A r \in ToolRequests : ToolFollows(r)

-----------------------------------------------------------------------------
(***************************************************************************)
(* Types, and the initial state.                                            *)
(***************************************************************************)

LEMMA InitSafe == GatewayInit => GatewayInv
<1> SUFFICES ASSUME GatewayInit PROVE GatewayInv
  OBVIOUS
<1>1. \A r \in Arrivals : call[r] \in Calls /\ call[r] \in Call
  BY DEF GatewayInit, IngressInit
<1>2. GatewayTypeOK
  <2>1. (CHOOSE p \in Posts : TRUE) \in Post
    OBVIOUS
  <2>2. IngressTypeOK
    BY <1>1 DEF GatewayInit, IngressInit, IngressTypeOK, Pools, Phases, Answers
  <2> QED  BY <2>1, <2>2 DEF GatewayInit, GatewayTypeOK, Statuses
<1>3. ASSUME NEW r \in Arrivals PROVE ChecksPassed(r) /\ EffectIsKnown(r)
  <2>1. call[r].operation \in Operations
    BY <1>1 DEF Call
  <2>2. use[r] = 1 /\ use[r] \in DOMAIN HandlerOf(r).uses
    BY <2>1, CommandsEndWithTransaction DEF GatewayInit, IngressInit, HandlerOf, UsesFit
  <2> QED  BY <2>2 DEF GatewayInit, IngressInit, ChecksPassed, EffectIsKnown, InFlight
<1>4. ConnectionsAreUsed
  BY DEF GatewayInit, IngressInit, ConnectionsAreUsed
<1>5. ASSUME NEW r \in ToolRequests PROVE ToolFollows(r)
  BY DEF GatewayInit, IngressInit, ToolFollows
<1> QED  BY <1>2, <1>3, <1>4, <1>5 DEF GatewayInv, IngressIsSafe

\* What an operation is known to be.
LEMMA OperationIsKnown ==
  ASSUME IngressTypeOK, NEW r \in Arrivals
  PROVE  /\ call[r].operation \in Operations
         /\ UsesFit(HandlerOf(r).uses)
         /\ IsCommand(call[r].operation) =>
              HandlerOf(r).uses[Len(HandlerOf(r).uses)] = "transaction"
<1>1. call[r].operation \in Operations
  BY DEF IngressTypeOK, Call
<1> QED  BY <1>1, CommandsEndWithTransaction DEF HandlerOf

LEMMA AnswerTyped ==
  ASSUME IngressTypeOK, NEW r \in Arrivals, NEW a \in Answers, Answer(r, a)
  PROVE  IngressTypeOK'
BY DEF Answer, IngressTypeOK, Phases

LEMMA GotoTyped ==
  ASSUME IngressTypeOK, NEW r \in Arrivals, NEW p \in Phases, MoveTo(r, p)
  PROVE  IngressTypeOK'
BY DEF MoveTo, IngressTypeOK

LEMMA EnterTyped ==
  ASSUME IngressTypeOK, NEW r \in Arrivals, EnterStorage(r)
  PROVE  IngressTypeOK'
<1>1. CASE prepared = 0
  BY <1>1, AnswerTyped DEF EnterStorage, Answers
<1>2. CASE prepared # 0
  BY <1>2 DEF EnterStorage, IngressTypeOK, Phases
<1> QED  BY <1>1, <1>2

LEMMA SubmitTyped ==
  ASSUME IngressTypeOK, NEW r \in Arrivals, NEW c \in Call, Submit(r, c)
  PROVE  IngressTypeOK'
BY DEF Submit, IngressTypeOK, Phases

LEMMA ProgressTyped ==
  ASSUME IngressTypeOK, IngressIsSafe, Progress
  PROVE  IngressTypeOK'
<1>a. {"Ok", "Forbidden", "Unauthenticated", "InvalidRequest", "Runtime"} \subseteq Answers
  BY DEF Answers
<1>p. {"membership", "permission", "assignee"} \subseteq Phases
  BY DEF Phases
<1>v. ASSUME NEW r \in Arrivals, Validate(r) PROVE IngressTypeOK'
  BY <1>a, <1>p, <1>v, AnswerTyped, GotoTyped, EnterTyped DEF Validate
<1>1. ASSUME NEW r \in Arrivals,
             RefuseCaller(r) \/ VerifyAssertion(r) \/ CheckMembership(r) \/ RefusedByPool(r)
               \/ Reply(r) \/ Fail(r)
      PROVE  IngressTypeOK'
  BY <1>a, <1>p, <1>1, AnswerTyped, GotoTyped
     DEF RefuseCaller, VerifyAssertion, CheckMembership, RefusedByPool, Reply, Fail
<1>2. ASSUME NEW r \in Arrivals,
             AdmitGovernance(r) \/ CheckPermission(r) \/ CheckAssignee(r)
      PROVE  IngressTypeOK'
  BY <1>a, <1>2, <1>v, AnswerTyped, EnterTyped
     DEF AdmitGovernance, CheckPermission, CheckAssignee
<1>3. ASSUME NEW r \in Arrivals, Reject(r) PROVE IngressTypeOK'
  <2>1. PICK f \in Failures : Answer(r, ErrorName(r, f))
    BY <1>3 DEF Reject
  <2>2. ErrorName(r, f) \in Answers
    BY DEF ErrorName, Answers, DomainFailures
  <2> QED  BY <2>1, <2>2, AnswerTyped
<1>4. ASSUME NEW r \in Arrivals, Acquire(r) PROVE IngressTypeOK'
  BY <1>4 DEF Acquire, IngressTypeOK, Phases
<1>5. ASSUME NEW r \in Arrivals, FinishUse(r) PROVE IngressTypeOK'
  <2>1. CASE use[r] < Len(HandlerOf(r).uses)
    <3>1. use[r] + 1 \in 1..3
      <4>1. Len(HandlerOf(r).uses) \in 1..3
        BY OperationIsKnown DEF UsesFit
      <4>2. use[r] \in 1..3
        BY DEF IngressTypeOK
      <4>3. \A m, n \in 1..3 : m < n => m + 1 \in 1..3
        OBVIOUS
      <4> QED  BY <2>1, <4>1, <4>2, <4>3
    <3> QED  BY <1>5, <2>1, <3>1 DEF FinishUse, ConnectionsAfterUse, IngressTypeOK, Phases
  <2>2. CASE ~(use[r] < Len(HandlerOf(r).uses))
    BY <1>5, <1>a, <2>2, AnswerTyped DEF FinishUse
  <2> QED  BY <2>1, <2>2
<1>6. ASSUME NEW r \in Arrivals, Commit(r) PROVE IngressTypeOK'
  BY <1>6 DEF Commit, IngressTypeOK, Phases
<1>7. ASSUME NEW r \in Arrivals, Expire(r) PROVE IngressTypeOK'
  BY <1>7 DEF Expire, IngressTypeOK, requestVars
<1>8. ASSUME NEW g \in Pools, Activate(g) \/ FinishDeactivate(g) PROVE IngressTypeOK'
  BY <1>8 DEF Activate, FinishDeactivate, IngressTypeOK, requestVars
<1>9. CASE BeginDeactivate
  BY <1>9 DEF BeginDeactivate, IngressTypeOK, requestVars
<1>10. ASSUME NEW right \in ChangingRights, ChangeRight(right) PROVE IngressTypeOK'
  BY <1>10 DEF ChangeRight, IngressTypeOK
<1> QED
  BY <1>1, <1>2, <1>3, <1>4, <1>5, <1>6, <1>7, <1>8, <1>9, <1>10 DEF Progress, Serve

LEMMA GatewayTyped == GatewayInv /\ [GatewayNext]_allVars => GatewayTypeOK'
<1> SUFFICES ASSUME GatewayInv, [GatewayNext]_allVars PROVE GatewayTypeOK'
  OBVIOUS
<1> USE DEF GatewayInv, GatewayTypeOK
<1>s. {200, 400, 401, 403, 404, 413, 422, 500} = Statuses
  BY DEF Statuses
<1>u. UNCHANGED ingressVars => IngressTypeOK'
  BY DEF IngressTypeOK, ingressVars, requestVars
<1>r. ASSUME NEW r \in ToolRequests, NEW n \in Statuses, Respond(r,
             n) PROVE GatewayTypeOK'
  BY <1>r, <1>u DEF Respond
<1>p. ASSUME NEW r \in ToolRequests, Proceed(r, "executing") PROVE GatewayTypeOK'
  BY <1>p, <1>u DEF Proceed
<1>1. CASE Progress /\ UNCHANGED gatewayVars
  BY <1>1, ProgressTyped DEF gatewayVars
<1>2. ASSUME NEW r \in Arrivals, NEW c \in Calls, SubmitDirectly(r,
             c) PROVE GatewayTypeOK'
  BY <1>2, SubmitTyped DEF SubmitDirectly, gatewayVars
<1>3. ASSUME NEW r \in ToolRequests, NEW p \in Posts, ReceivePost(r,
             p) PROVE GatewayTypeOK'
  BY <1>3, <1>u DEF ReceivePost
<1>4. ASSUME NEW r \in ToolRequests, AuthenticatePost(r) PROVE GatewayTypeOK'
  BY <1>4, <1>s, <1>r, <1>p DEF AuthenticatePost, CheckBody
<1>5. ASSUME NEW r \in ToolRequests, ExecuteTool(r) PROVE GatewayTypeOK'
  <2>1. CASE Submit(r, PluginCall(r)) /\ hop' = [hop EXCEPT ![r] = "invoked"]
               /\ UNCHANGED <<post, status>> /\ post[r].tool \in DOMAIN Tools
    BY <2>1, PluginCallsAreCalls, SubmitTyped
  <2> QED  BY <1>5, <1>s, <1>r, <2>1 DEF ExecuteTool
<1>6. ASSUME NEW r \in ToolRequests, RelayAnswer(r) PROVE GatewayTypeOK'
  <2>1. StatusOf(answer[r]) \in Statuses
    BY <1>s DEF StatusOf
  <2> QED  BY <1>6, <1>s, <1>r, <2>1 DEF RelayAnswer
<1>7. ASSUME NEW r \in ToolRequests, FailHop(r) PROVE GatewayTypeOK'
  BY <1>7, <1>s, <1>r DEF FailHop
<1>8. CASE UNCHANGED allVars
  BY <1>8, <1>u DEF allVars, gatewayVars
<1> QED
  BY <1>1, <1>2, <1>3, <1>4, <1>5, <1>6, <1>7, <1>8 DEF GatewayNext, Relay

-----------------------------------------------------------------------------
(***************************************************************************)
(* The steps of the plugin.                                                 *)
(***************************************************************************)

\* A request keeps what it has while others move, rights come and go and
\* pools open and close.
LEMMA Untouched ==
  ASSUME NEW r \in Arrivals, ChecksPassed(r), EffectIsKnown(r),
         phase'[r] = phase[r], call'[r] = call[r], pool'[r] = pool[r],
         use'[r] = use[r], answer'[r] = answer[r], committed'[r] = committed[r],
         held[r] \subseteq held'[r], InFlight(r) => rights' \subseteq held'[r]
  PROVE  ChecksPassed(r)' /\ EffectIsKnown(r)'
<1>1. HandlerOf(r)' = HandlerOf(r) /\ Valid(r)' = Valid(r) /\ Authentic(r)' = Authentic(r)
        /\ InFlight(r)' = InFlight(r) /\ NamesAssignee(r)' = NamesAssignee(r)
  BY DEF HandlerOf, Valid, Authentic, CallerAllowed, InFlight, NamesAssignee
<1>2. (HadPermission(r) => HadPermission(r)') /\ (HadAssignee(r) => HadAssignee(r)')
  BY <1>1 DEF HadPermission, HadAssignee
<1> QED  BY <1>1, <1>2 DEF ChecksPassed, EffectIsKnown

LEMMA AnswerSafe ==
  ASSUME IngressTypeOK, IngressIsSafe, NEW r \in Arrivals, NEW a, InFlight(r),
         Answer(r, a),
         a # "Runtime" => (committed[r] <=> (a = "Ok" /\ IsCommand(call[r].operation)))
  PROVE  IngressIsSafe'
<1>1. ASSUME NEW q \in Arrivals, q # r PROVE ChecksPassed(q)' /\ EffectIsKnown(q)'
  BY <1>1, Untouched DEF Answer, IngressIsSafe, IngressTypeOK, ChecksPassed
<1>2. ChecksPassed(r)' /\ EffectIsKnown(r)'
  <2>1. HandlerOf(r)' = HandlerOf(r) /\ Valid(r)' = Valid(r) /\ Authentic(r)' = Authentic(r)
          /\ HadPermission(r)' = HadPermission(r) /\ HadAssignee(r)' = HadAssignee(r)
    BY DEF Answer, HandlerOf, Valid, Authentic, CallerAllowed, NamesAssignee,
           HadPermission,
           HadAssignee
  <2>2. phase'[r] = "answered" /\ answer'[r] = a
    BY DEF Answer, IngressTypeOK
  <2> QED
    BY <2>1, <2>2 DEF Answer, IngressIsSafe, ChecksPassed, EffectIsKnown, InFlight
<1>3. ConnectionsAreUsed'
  BY DEF Answer, IngressIsSafe, ConnectionsAreUsed, IngressTypeOK
<1> QED  BY <1>1, <1>2, <1>3 DEF IngressIsSafe

LEMMA GotoSafe ==
  ASSUME IngressTypeOK, IngressIsSafe, NEW r \in Arrivals,
         NEW p \in {"membership", "permission", "assignee"}, MoveTo(r, p),
         phase[r] \in {"received", "membership", "permission"}, Authentic(r),
         p = "permission" => <<call[r].subject, "member">> \in held[r],
         p = "assignee" => Valid(r) /\ HadPermission(r)
  PROVE  IngressIsSafe'
<1>1. ASSUME NEW q \in Arrivals, q # r PROVE ChecksPassed(q)' /\ EffectIsKnown(q)'
  BY <1>1, Untouched DEF MoveTo, IngressIsSafe, IngressTypeOK, ChecksPassed
<1>2. ChecksPassed(r)' /\ EffectIsKnown(r)'
  <2>1. HandlerOf(r)' = HandlerOf(r) /\ Valid(r)' = Valid(r) /\ Authentic(r)' = Authentic(r)
          /\ HadPermission(r)' = HadPermission(r) /\ HadAssignee(r)' = HadAssignee(r)
    BY DEF MoveTo, HandlerOf, Valid, Authentic, CallerAllowed, NamesAssignee,
           HadPermission,
           HadAssignee
  <2>2. phase'[r] = p
    BY DEF MoveTo, IngressTypeOK
  <2> QED
    BY <2>1, <2>2 DEF MoveTo, IngressIsSafe, ChecksPassed, EffectIsKnown, InFlight
<1>3. ConnectionsAreUsed'
  BY DEF MoveTo, IngressIsSafe, ConnectionsAreUsed, IngressTypeOK
<1> QED  BY <1>1, <1>2, <1>3 DEF IngressIsSafe

LEMMA EnterSafe ==
  ASSUME IngressTypeOK, IngressIsSafe, NEW r \in Arrivals, EnterStorage(r),
         phase[r] \in {"received", "permission", "assignee"}, Authentic(r), Valid(r),
         HadPermission(r), HadAssignee(r)
  PROVE  IngressIsSafe'
<1>1. CASE prepared = 0
  BY <1>1, AnswerSafe DEF EnterStorage, InFlight
<1>2. CASE prepared # 0
  <2>1. ASSUME NEW q \in Arrivals, q # r PROVE ChecksPassed(q)' /\ EffectIsKnown(q)'
    BY <1>2, <2>1, Untouched DEF EnterStorage, IngressIsSafe, IngressTypeOK,
       ChecksPassed
  <2>2. ChecksPassed(r)' /\ EffectIsKnown(r)'
    <3>1. HandlerOf(r)' = HandlerOf(r) /\ Valid(r)' /\ Authentic(r)' /\ HadPermission(r)'
            /\ HadAssignee(r)'
      BY <1>2 DEF EnterStorage, HandlerOf, Valid, Authentic, CallerAllowed,
         NamesAssignee,
                  HadPermission, HadAssignee
    <3>2. phase'[r] = "waiting" /\ pool'[r] # 0
      BY <1>2 DEF EnterStorage, IngressTypeOK
    <3> QED
      BY <1>2, <3>1, <3>2 DEF EnterStorage, IngressIsSafe, ChecksPassed,
         EffectIsKnown, InFlight
  <2>3. ConnectionsAreUsed'
    BY <1>2 DEF EnterStorage, IngressIsSafe, ConnectionsAreUsed, IngressTypeOK
  <2> QED  BY <2>1, <2>2, <2>3 DEF IngressIsSafe
<1> QED  BY <1>1, <1>2

LEMMA ValidateSafe ==
  ASSUME IngressTypeOK, IngressIsSafe, NEW r \in Arrivals, Validate(r),
         phase[r] \in {"received", "permission"}, Authentic(r), HadPermission(r)
  PROVE  IngressIsSafe'
<1>1. CASE ~Valid(r)
  <2>1. Answer(r, "InvalidRequest") /\ ~committed[r]
    BY <1>1 DEF Validate, IngressIsSafe, EffectIsKnown
  <2> QED  BY <2>1, AnswerSafe DEF InFlight
<1>2. CASE Valid(r) /\ NamesAssignee(r)
  BY <1>2, GotoSafe DEF Validate
<1>3. CASE Valid(r) /\ ~NamesAssignee(r)
  BY <1>3, EnterSafe DEF Validate, HadAssignee
<1> QED  BY <1>1, <1>2, <1>3

\* authorize and governance_caller.
LEMMA AuthorizeSafe ==
  ASSUME IngressTypeOK, IngressIsSafe, NEW r \in Arrivals,
         RefuseCaller(r) \/ VerifyAssertion(r) \/ AdmitGovernance(r) \/ CheckMembership(r)
  PROVE  IngressIsSafe'
<1>1. ASSUME NEW a \in {"Forbidden", "Unauthenticated"}, Answer(r, a),
             phase[r] \in {"received", "membership"}
      PROVE  IngressIsSafe'
  BY <1>1, AnswerSafe DEF InFlight, IngressIsSafe, EffectIsKnown
<1>2. CASE RefuseCaller(r)
  BY <1>1, <1>2 DEF RefuseCaller
<1>3. CASE VerifyAssertion(r)
  BY <1>1, <1>3, GotoSafe DEF VerifyAssertion, AssertionHolds, Authentic
<1>4. CASE AdmitGovernance(r)
  BY <1>4, ValidateSafe DEF AdmitGovernance, Authentic, HadPermission
<1>5. CASE CheckMembership(r)
  <2>1. Authentic(r) /\ rights \subseteq held[r]
    BY <1>5 DEF CheckMembership, IngressIsSafe, ChecksPassed, InFlight
  <2> QED  BY <1>1, <1>5, <2>1, GotoSafe DEF CheckMembership
<1> QED  BY <1>2, <1>3, <1>4, <1>5

LEMMA AdmitSafe ==
  ASSUME IngressTypeOK, IngressIsSafe, NEW r \in Arrivals,
         CheckPermission(r) \/ CheckAssignee(r)
  PROVE  IngressIsSafe'
<1>1. ASSUME Answer(r, "Forbidden"), phase[r] \in {"permission", "assignee"}
      PROVE  IngressIsSafe'
  BY <1>1, AnswerSafe DEF InFlight, IngressIsSafe, EffectIsKnown
<1>2. CASE CheckPermission(r)
  <2>1. Authentic(r) /\ rights \subseteq held[r] /\ <<call[r].subject, "member">> \in held[r]
    BY <1>2 DEF CheckPermission, IngressIsSafe, ChecksPassed, InFlight
  <2>2. CASE <<call[r].subject, HandlerOf(r).permission>> \in rights
    BY <1>2, <2>1, <2>2, ValidateSafe DEF CheckPermission, HadPermission
  <2> QED  BY <1>1, <1>2, <2>2 DEF CheckPermission
<1>3. CASE CheckAssignee(r)
  <2>1. Authentic(r) /\ Valid(r) /\ HadPermission(r) /\ rights \subseteq held[r]
    BY <1>3 DEF CheckAssignee, IngressIsSafe, ChecksPassed, InFlight
  <2>2. CASE <<call[r].assignee, "member">> \in rights
    BY <1>3, <2>1, <2>2, EnterSafe DEF CheckAssignee, HadAssignee
  <2> QED  BY <1>1, <1>3, <2>2 DEF CheckAssignee
<1> QED  BY <1>2, <1>3

\* A request that changes its phase within storage keeps what it was let in for.
LEMMA StillGuarded ==
  ASSUME IngressTypeOK, NEW r \in Arrivals, ChecksPassed(r), pool[r] # 0, InFlight(r),
         InFlight(r)',
         phase'[r] \in {"waiting", "using", "committed"},
         UNCHANGED <<call, pool, held, rights>>
  PROVE  ChecksPassed(r)'
<1>1. HandlerOf(r)' = HandlerOf(r) /\ Valid(r)' = Valid(r) /\ Authentic(r)' = Authentic(r)
        /\ HadPermission(r)' = HadPermission(r) /\ HadAssignee(r)' = HadAssignee(r)
  BY DEF HandlerOf, Valid, Authentic, CallerAllowed, NamesAssignee, HadPermission,
         HadAssignee
<1> QED  BY <1>1 DEF ChecksPassed

LEMMA AcquireSafe ==
  ASSUME IngressTypeOK, IngressIsSafe, NEW r \in Arrivals, Acquire(r)
  PROVE  IngressIsSafe'
<1>1. ASSUME NEW q \in Arrivals, q # r PROVE ChecksPassed(q)' /\ EffectIsKnown(q)'
  BY <1>1, Untouched DEF Acquire, IngressIsSafe, IngressTypeOK, ChecksPassed
<1>2. ChecksPassed(r)'
  BY StillGuarded DEF Acquire, IngressIsSafe, IngressTypeOK, ChecksPassed, InFlight
<1>3. EffectIsKnown(r)'
  BY DEF Acquire, IngressIsSafe, IngressTypeOK, EffectIsKnown, HandlerOf
<1>4. ConnectionsAreUsed'
  BY DEF Acquire, IngressIsSafe, ConnectionsAreUsed, IngressTypeOK
<1> QED  BY <1>1, <1>2, <1>3, <1>4 DEF IngressIsSafe

LEMMA CommitSafe ==
  ASSUME IngressTypeOK, IngressIsSafe, NEW r \in Arrivals, Commit(r)
  PROVE  IngressIsSafe'
<1>1. ASSUME NEW q \in Arrivals, q # r PROVE ChecksPassed(q)' /\ EffectIsKnown(q)'
  BY <1>1, Untouched DEF Commit, Using, IngressIsSafe, IngressTypeOK, ChecksPassed
<1>2. ChecksPassed(r)'
  BY StillGuarded DEF Commit, Using, IngressIsSafe, IngressTypeOK, ChecksPassed,
     InFlight
<1>3. EffectIsKnown(r)'
  <2>1. IsCommand(call[r].operation)
    BY DEF Commit, Using, IngressIsSafe, EffectIsKnown, IsCommand, HandlerOf
  <2> QED  BY <2>1 DEF Commit, IngressIsSafe, IngressTypeOK, EffectIsKnown, HandlerOf
<1>4. ConnectionsAreUsed'
  BY DEF Commit, Using, IngressIsSafe, ConnectionsAreUsed, IngressTypeOK
<1> QED  BY <1>1, <1>2, <1>3, <1>4 DEF IngressIsSafe

LEMMA FinishUseSafe ==
  ASSUME IngressTypeOK, IngressIsSafe, NEW r \in Arrivals, FinishUse(r)
  PROVE  IngressIsSafe'
<1> DEFINE uses == HandlerOf(r).uses
<1>u. DOMAIN uses = 1..Len(uses) /\ Len(uses) \in 1..3 /\ use[r] \in 1..Len(uses)
  BY OperationIsKnown DEF UsesFit, IngressIsSafe, EffectIsKnown
<1>1. CASE use[r] < Len(uses)
  <2>1. ASSUME NEW q \in Arrivals, q # r PROVE ChecksPassed(q)' /\ EffectIsKnown(q)'
    BY <1>1, <2>1, Untouched DEF FinishUse, Using, IngressIsSafe, IngressTypeOK,
       ChecksPassed
  <2>2. ChecksPassed(r)'
    BY <1>1, StillGuarded
       DEF FinishUse, Using, IngressIsSafe, IngressTypeOK, ChecksPassed, InFlight
  <2>3. EffectIsKnown(r)'
    <3>1. \A n \in 1..3 : \A m \in 1..n : m < n => m + 1 \in 1..n
      OBVIOUS
    <3>2. use[r] + 1 \in DOMAIN uses
      BY <1>u, <1>1, <3>1
    <3>3. phase'[r] = "waiting" /\ use'[r] = use[r] + 1 /\ committed'[r] = committed[r]
            /\ HandlerOf(r)' = HandlerOf(r)
      BY <1>1 DEF FinishUse, IngressTypeOK, HandlerOf
    <3> QED  BY <3>2, <3>3 DEF FinishUse, Using, IngressIsSafe, EffectIsKnown
  <2>4. ConnectionsAreUsed'
    <3>1. /\ connections' = {c \in connections : c.of # r}
          /\ phase'[r] = "waiting" /\ UNCHANGED <<pool, pools, prepared>>
          /\ \A q \in Arrivals \ {r} : phase'[q] = phase[q] /\ use'[q] = use[q]
      BY <1>1 DEF FinishUse, ConnectionsAfterUse, IngressTypeOK
    <3>2. \A c \in connections : c.of \in Arrivals
      BY DEF IngressTypeOK
    <3>3. \A c \in connections' : phase'[c.of] = "using" /\ pools'[pool'[c.of]] # "closed"
      BY <3>1, <3>2 DEF IngressIsSafe, ConnectionsAreUsed
    <3>4. ASSUME NEW q \in Arrivals, phase'[q] = "using"
          PROVE  [of |-> q, for |-> use'[q]] \in connections'
      BY <3>1, <3>4 DEF IngressIsSafe, ConnectionsAreUsed
    <3> QED  BY <3>1, <3>3, <3>4 DEF IngressIsSafe, ConnectionsAreUsed
  <2> QED  BY <2>1, <2>2, <2>3, <2>4 DEF IngressIsSafe
<1>2. CASE ~(use[r] < Len(uses))
  <2>1. use[r] = Len(uses)
    BY <1>u, <1>2
  <2>2. ~IsCommand(call[r].operation) /\ ~committed[r]
    BY <2>1, OperationIsKnown DEF FinishUse, Using, IngressIsSafe, EffectIsKnown
  <2>3. Answer(r, "Ok") /\ InFlight(r)
    BY <1>2 DEF FinishUse, Using, InFlight
  <2> QED  BY <2>2, <2>3, AnswerSafe
<1> QED  BY <1>1, <1>2

\* Whatever answers at once: a refusal of the pool or of storage, a failure,
\* the reply of a command.
LEMMA EndSafe ==
  ASSUME IngressTypeOK, IngressIsSafe, NEW r \in Arrivals,
         RefusedByPool(r) \/ Reply(r) \/ Reject(r) \/ Fail(r)
  PROVE  IngressIsSafe'
<1>1. CASE RefusedByPool(r) \/ Fail(r)
  BY <1>1, AnswerSafe DEF RefusedByPool, Fail, InFlight
<1>2. CASE Reply(r)
  BY <1>2, AnswerSafe DEF Reply, InFlight, IngressIsSafe, EffectIsKnown
<1>3. CASE Reject(r)
  <2>1. PICK f \in Failures : Answer(r, ErrorName(r, f)) /\ phase[r] = "using"
    BY <1>3 DEF Reject
  <2>2. ErrorName(r, f) # "Ok" /\ ~committed[r]
    BY <2>1 DEF ErrorName, DomainFailures, IngressIsSafe, EffectIsKnown
  <2> QED  BY <2>1, <2>2, AnswerSafe DEF InFlight
<1> QED  BY <1>1, <1>2, <1>3

\* The lifecycle, and what changes around the requests.
LEMMA LifecycleSafe ==
  ASSUME IngressTypeOK, IngressIsSafe,
         \/ \E g \in Pools : Activate(g) \/ FinishDeactivate(g)
         \/ BeginDeactivate
  PROVE  IngressIsSafe'
<1>1. UNCHANGED <<connections, rights, expired, requestVars>>
  BY DEF Activate, FinishDeactivate, BeginDeactivate
<1>2. ASSUME NEW q \in Arrivals PROVE ChecksPassed(q)' /\ EffectIsKnown(q)'
  BY <1>1, <1>2, Untouched DEF requestVars, IngressIsSafe, ChecksPassed
<1>3. ConnectionsAreUsed'
  <2>1. ASSUME NEW g \in Pools, Activate(g) PROVE ConnectionsAreUsed'
    BY <2>1 DEF Activate, requestVars, IngressIsSafe, ConnectionsAreUsed,
       IngressTypeOK, Pools
  <2>2. ASSUME NEW g \in Pools, FinishDeactivate(g) PROVE ConnectionsAreUsed'
    <3>1. \A c \in connections : pools'[pool[c.of]] = pools[pool[c.of]]
      BY <2>2 DEF FinishDeactivate, CheckedOut, IngressTypeOK
    <3>2. prepared # g \/ prepared = 0
      BY <2>2 DEF FinishDeactivate, IngressIsSafe, ConnectionsAreUsed
    <3> QED
      BY <2>2, <3>1, <3>2 DEF FinishDeactivate, requestVars, IngressIsSafe,
         ConnectionsAreUsed,
                              IngressTypeOK
  <2>3. CASE BeginDeactivate
    BY <2>3 DEF BeginDeactivate, requestVars, IngressIsSafe, ConnectionsAreUsed,
       IngressTypeOK
  <2> QED  BY <2>1, <2>2, <2>3
<1> QED  BY <1>2, <1>3 DEF IngressIsSafe

LEMMA WorldSafe ==
  ASSUME IngressTypeOK, IngressIsSafe,
         \/ \E r \in Arrivals : Expire(r)
         \/ \E right \in ChangingRights : ChangeRight(right)
  PROVE  IngressIsSafe'
<1>1. UNCHANGED <<prepared, pools, connections, phase, call, pool, use, answer, committed>>
  BY DEF Expire, ChangeRight, requestVars
<1>2. ASSUME NEW q \in Arrivals
      PROVE  held[q] \subseteq held'[q] /\ (InFlight(q) => rights' \subseteq held'[q])
  BY DEF Expire, ChangeRight, requestVars, IngressIsSafe, ChecksPassed, IngressTypeOK
<1>3. ASSUME NEW q \in Arrivals PROVE ChecksPassed(q)' /\ EffectIsKnown(q)'
  BY <1>1, <1>2, <1>3, Untouched DEF IngressIsSafe
<1>4. ConnectionsAreUsed'
  BY <1>1 DEF IngressIsSafe, ConnectionsAreUsed
<1> QED  BY <1>3, <1>4 DEF IngressIsSafe

LEMMA ProgressSafe ==
  ASSUME IngressTypeOK, IngressIsSafe, Progress
  PROVE  IngressIsSafe'
BY AuthorizeSafe, AdmitSafe, AcquireSafe, CommitSafe, FinishUseSafe, EndSafe,
   LifecycleSafe,
   WorldSafe DEF Progress, Serve

LEMMA SubmitSafe ==
  ASSUME IngressTypeOK, IngressIsSafe, NEW r \in Arrivals, NEW c \in Call, Submit(r, c)
  PROVE  IngressIsSafe'
<1>1. ASSUME NEW q \in Arrivals, q # r PROVE ChecksPassed(q)' /\ EffectIsKnown(q)'
  BY <1>1, Untouched DEF Submit, IngressIsSafe, IngressTypeOK, ChecksPassed
<1>2. phase'[r] = "received" /\ held'[r] = rights /\ pool'[r] = 0 /\ ~committed'[r]
        /\ rights' = rights
  BY DEF Submit, IngressIsSafe, ChecksPassed, EffectIsKnown, IngressTypeOK
<1>3. ChecksPassed(r)'
  BY <1>2 DEF ChecksPassed
<1>4. EffectIsKnown(r)'
  <2>1. use'[r] = 1 /\ call'[r] = c
    BY DEF Submit, IngressIsSafe, EffectIsKnown, IngressTypeOK
  <2>2. 1 \in DOMAIN Handlers[c.operation].uses
    BY CommandsEndWithTransaction DEF Call, UsesFit
  <2> QED  BY <1>2, <2>1, <2>2 DEF EffectIsKnown, HandlerOf
<1>5. ConnectionsAreUsed'
  BY DEF Submit, IngressIsSafe, ConnectionsAreUsed, IngressTypeOK
<1> QED  BY <1>1, <1>3, <1>4, <1>5 DEF IngressIsSafe

-----------------------------------------------------------------------------
(***************************************************************************)
(* The steps of the adapters.                                               *)
(***************************************************************************)

LEMMA GatewaySafe ==
  ASSUME GatewayInv, [GatewayNext]_allVars
  PROVE  IngressIsSafe'
<1> USE DEF GatewayInv, GatewayTypeOK
<1>u. ASSUME UNCHANGED ingressVars PROVE IngressIsSafe'
  <2>1. ASSUME NEW q \in Arrivals PROVE ChecksPassed(q)' /\ EffectIsKnown(q)'
    BY <1>u, <2>1, Untouched DEF ingressVars, requestVars, IngressIsSafe, ChecksPassed
  <2> QED  BY <1>u, <2>1 DEF ingressVars, requestVars, IngressIsSafe, ConnectionsAreUsed
<1>1. ASSUME NEW r \in ToolRequests, ExecuteTool(r) PROVE IngressIsSafe'
  <2>1. CASE Submit(r, PluginCall(r)) /\ post[r].tool \in DOMAIN Tools
    BY <2>1, PluginCallsAreCalls, SubmitSafe
  <2> QED  BY <1>u, <1>1, <2>1 DEF ExecuteTool, Respond
<1>2. ASSUME NEW r \in ToolRequests, AuthenticatePost(r) \/ RelayAnswer(r) \/ FailHop(r)
      PROVE  IngressIsSafe'
  BY <1>u, <1>2 DEF AuthenticatePost, CheckBody, RelayAnswer, FailHop, Respond, Proceed
<1>3. ASSUME NEW r \in ToolRequests, NEW p \in Posts, ReceivePost(r,
             p) PROVE IngressIsSafe'
  BY <1>u, <1>3 DEF ReceivePost
<1>4. ASSUME NEW r \in Arrivals, NEW c \in Calls, SubmitDirectly(r,
             c) PROVE IngressIsSafe'
  BY <1>4, SubmitSafe DEF SubmitDirectly
<1> QED  BY <1>u, <1>1, <1>2, <1>3, <1>4, ProgressSafe DEF GatewayNext, Relay, allVars

\* Steps that leave a tool request alone, or move it within the plugin.
LEMMA ToolUntouched ==
  ASSUME NEW r \in ToolRequests, ToolFollows(r), UNCHANGED <<phase, call, committed,
         answer>>,
         hop'[r] = hop[r], post'[r] = post[r], status'[r] = status[r]
  PROVE  ToolFollows(r)'
BY DEF ToolFollows, PluginCall, Assignee

LEMMA ProgressKeepsTools ==
  ASSUME GatewayInv, Progress, UNCHANGED gatewayVars, NEW r \in ToolRequests
  PROVE  ToolFollows(r)'
<1>1. r \in Arrivals /\ IngressTypeOK
  BY DEF GatewayInv, GatewayTypeOK
<1>2. UNCHANGED call
  BY DEF Progress, Serve, RefuseCaller, VerifyAssertion, AdmitGovernance,
         CheckMembership,
     CheckPermission, CheckAssignee, Validate, EnterStorage, Answer, MoveTo, Acquire,
     RefusedByPool, FinishUse, Commit, Reply, Reject, Fail, Expire, Activate,
     FinishDeactivate, BeginDeactivate, ChangeRight, requestVars
<1>3. phase[r] \in {"idle", "answered"} =>
        phase'[r] = phase[r] /\ answer'[r] = answer[r] /\ committed'[r] = committed[r]
  <2>1. ASSUME NEW q \in Arrivals, Serve(q) \/ Reject(q) \/ Fail(q),
               phase[r] \in {"idle", "answered"}
        PROVE  q # r
    BY <2>1 DEF Serve, RefuseCaller, VerifyAssertion, AdmitGovernance, CheckMembership,
       CheckPermission, CheckAssignee, Acquire, RefusedByPool, FinishUse, Using, Commit,
       Reply, Reject, Fail
  <2>2. ASSUME NEW q \in Arrivals, q # r, Serve(q) \/ Reject(q) \/ Fail(q)
        PROVE  phase'[r] = phase[r] /\ answer'[r] = answer[r] /\ committed'[r] = committed[r]
    BY <1>1, <2>2 DEF IngressTypeOK, Serve, RefuseCaller, VerifyAssertion,
       AdmitGovernance,
       CheckMembership, CheckPermission, CheckAssignee, Validate, EnterStorage, Answer, MoveTo,
       Acquire, RefusedByPool, FinishUse, Commit, Reply, Reject, Fail
  <2> QED
    BY <2>1, <2>2 DEF Progress, Expire, Activate, FinishDeactivate, BeginDeactivate,
       ChangeRight, requestVars
<1> QED
  BY <1>2, <1>3 DEF GatewayInv, ToolFollows, gatewayVars, PluginCall, Assignee

LEMMA ToolsSafe ==
  ASSUME GatewayInv, [GatewayNext]_allVars, NEW r \in ToolRequests
  PROVE  ToolFollows(r)'
<1> USE DEF GatewayInv, GatewayTypeOK
<1>1. CASE Progress /\ UNCHANGED gatewayVars
  BY <1>1, ProgressKeepsTools
<1>2. ASSUME NEW q \in Arrivals \ ToolRequests, NEW c \in Calls, SubmitDirectly(q, c)
      PROVE  ToolFollows(r)'
  BY <1>2 DEF SubmitDirectly, Submit, gatewayVars, IngressTypeOK, ToolFollows,
     PluginCall, Assignee
<1>3. ASSUME NEW q \in ToolRequests, q # r,
             (\E p \in Posts : ReceivePost(q, p)) \/ Relay(q) \/ FailHop(q)
      PROVE  ToolFollows(r)'
  <2>1. /\ hop'[r] = hop[r] /\ post'[r] = post[r] /\ status'[r] = status[r]
        /\ phase'[r] = phase[r] /\ call'[r] = call[r] /\ committed'[r] = committed[r]
        /\ answer'[r] = answer[r]
    BY <1>3 DEF ReceivePost, Relay, AuthenticatePost, CheckBody, ExecuteTool,
       RelayAnswer,
       FailHop, Respond, Proceed, Submit, IngressTypeOK, ingressVars, requestVars
  <2> QED  BY <2>1 DEF ToolFollows, PluginCall, Assignee
<1>4. ASSUME NEW p \in Posts, ReceivePost(r, p) PROVE ToolFollows(r)'
  BY <1>4 DEF ReceivePost, ToolFollows, ingressVars, requestVars
<1>5. ASSUME NEW n \in Statuses \ {200}, Respond(r, n), phase[r] = "idle"
      PROVE  ToolFollows(r)'
  BY <1>5 DEF Respond, ToolFollows, ingressVars, requestVars, IngressIsSafe,
     EffectIsKnown,
     PluginCall, Assignee
<1>6. CASE AuthenticatePost(r)
  <2>1. phase[r] = "idle" /\ {401, 403, 413, 400} \subseteq Statuses \ {200}
    BY <1>6 DEF AuthenticatePost, ToolFollows, Statuses
  <2>2. ASSUME Proceed(r, "executing") PROVE ToolFollows(r)'
    BY <2>1, <2>2 DEF Proceed, ToolFollows, ingressVars, requestVars
  <2> QED  BY <1>5, <1>6, <2>1, <2>2 DEF AuthenticatePost, CheckBody
<1>7. CASE ExecuteTool(r)
  <2>1. phase[r] = "idle" /\ {404, 400, 403} \subseteq Statuses \ {200}
    BY <1>7 DEF ExecuteTool, ToolFollows, Statuses
  <2>2. ASSUME Submit(r, PluginCall(r)), hop' = [hop EXCEPT ![r] = "invoked"],
               UNCHANGED <<post, status>>
        PROVE  ToolFollows(r)'
    BY <2>2 DEF Submit, ToolFollows, IngressTypeOK, PluginCall, Assignee
  <2> QED  BY <1>5, <1>7, <2>1, <2>2 DEF ExecuteTool
<1>8. CASE RelayAnswer(r)
  <2>1. phase[r] = "answered" /\ r \in Arrivals
    BY <1>8 DEF RelayAnswer
  <2>2. ASSUME Respond(r, StatusOf(answer[r])) PROVE ToolFollows(r)'
    <3>1. /\ StatusOf(answer[r]) \in {400, 401, 403, 404, 422} => ~committed[r]
          /\ StatusOf(answer[r]) # 413
      BY <2>1 DEF StatusOf, IngressIsSafe, EffectIsKnown
    <3>2. StatusOf(answer[r]) = 200 => answer[r] = "Ok"
      BY DEF StatusOf
    <3> QED
      BY <2>1, <2>2, <3>1, <3>2 DEF Respond, ToolFollows, ingressVars, requestVars,
         PluginCall, Assignee
  <2>3. ASSUME Oversized(call[r].operation), answer[r] = "Ok", Respond(r, 413)
        PROVE  ToolFollows(r)'
    BY <2>1, <2>3 DEF Respond, ToolFollows, ingressVars, requestVars, PluginCall,
       Assignee
  <2> QED  BY <1>8, <2>2, <2>3 DEF RelayAnswer
<1>9. CASE FailHop(r)
  BY <1>9 DEF FailHop, Respond, ToolFollows, ingressVars, requestVars, PluginCall,
     Assignee
<1>10. CASE UNCHANGED allVars
  BY <1>10, ToolUntouched DEF allVars, ingressVars, requestVars, gatewayVars
<1> QED
  BY <1>1, <1>2, <1>3, <1>4, <1>6, <1>7, <1>8, <1>9, <1>10 DEF GatewayNext, Relay

(***************************************************************************)
(* The inductive invariant: the phase of a request says which checks it has *)
(* passed and which effect it has, and connections are out only for         *)
(* requests that use them.                                                  *)
(***************************************************************************)
THEOREM GatewayInvariance == GatewaySpec => []GatewayInv
<1>1. GatewayInv /\ [GatewayNext]_allVars => GatewayInv'
  BY GatewayTyped, GatewaySafe, ToolsSafe DEF GatewayInv
<1> QED  BY InitSafe, <1>1, PTL DEF GatewaySpec

(***************************************************************************)
(* A request reaches storage only for an allowed caller, for an operation   *)
(* the assertion is for, with rights the subject had meanwhile, and valid,  *)
(* whatever rights come and go (authorize, set_issue_assignee).             *)
(***************************************************************************)
THEOREM ChecksComeFirst == GatewaySpec => []StorageIsGuarded
<1>1. GatewayInv => StorageIsGuarded
  BY DEF GatewayInv, IngressIsSafe, ChecksPassed, StorageIsGuarded, Authentic,
         HadPermission,
         HadAssignee, HadRights, NamesAssignee
<1> QED  BY <1>1, GatewayInvariance, PTL

(***************************************************************************)
(* Once deactivate has returned, no request it left behind has a connection *)
(* or can get one; what is prepared is open (activate, deactivate).         *)
(***************************************************************************)
THEOREM ClosedPoolsAreQuiet == GatewaySpec => []ClosedMeansQuiet
<1>1. GatewayInv => ClosedMeansQuiet
  <2> SUFFICES ASSUME GatewayInv PROVE ClosedMeansQuiet
    OBVIOUS
  <2>1. ASSUME NEW r \in Arrivals, pool[r] # 0, pools[pool[r]] = "closed"
        PROVE  phase[r] \in {"waiting", "committed", "answered"} /\ CheckedOut(pool[r]) = {}
    <3>1. CheckedOut(pool[r]) = {}
      BY <2>1 DEF GatewayInv, IngressIsSafe, ConnectionsAreUsed, CheckedOut
    <3>2. phase[r] # "using"
      BY <2>1, <3>1 DEF GatewayInv, IngressIsSafe, ConnectionsAreUsed, CheckedOut
    <3> QED
      BY <2>1, <3>1, <3>2
         DEF GatewayInv, GatewayTypeOK, IngressTypeOK, Phases, IngressIsSafe,
             ChecksPassed
  <2> QED  BY <2>1 DEF GatewayInv, IngressIsSafe, ConnectionsAreUsed, ClosedMeansQuiet
<1> QED  BY <1>1, GatewayInvariance, PTL

(***************************************************************************)
(* A 4xx status other than 413 means that the command has no effect and can *)
(* get none, 200 that it has committed, 413 that it was not asked for or    *)
(* has succeeded, and projects_assign_issue_to_me assigns to the user of    *)
(* the session (reply, map_domain_error, self_assignment).                  *)
(***************************************************************************)
THEOREM StatusIsTrue == GatewaySpec => []StatusTells
<1>1. GatewayInv => StatusTells
  <2> SUFFICES ASSUME GatewayInv PROVE StatusTells
    OBVIOUS
  <2> USE DEF GatewayInv, IngressIsSafe
  <2>1. OutcomeIsTold
    BY DEF OutcomeIsTold, EffectIsKnown
  <2>2. ASSUME NEW r \in ToolRequests, hop[r] = "replied"
        PROVE  /\ status[r] \in {400, 401, 403, 404, 422} =>
                    ~committed[r] /\ ~InFlight(r)
               /\ status[r] = 200 /\ IsCommand(call[r].operation) => committed[r]
               /\ status[r] = 413 =>
                    \/ phase[r] = "idle"
                    \/ /\ phase[r] = "answered" /\ answer[r] = "Ok"
                       /\ IsCommand(call[r].operation) => committed[r]
    BY <2>2 DEF ToolFollows, InFlight, EffectIsKnown
  <2>3. ASSUME NEW r \in ToolRequests, committed[r], post[r].tool = AssignSelf
        PROVE  call[r].assignee = post[r].subject
    <3>1. call[r] = PluginCall(r)
      BY <2>3 DEF ToolFollows, EffectIsKnown
    <3> QED  BY <2>3, <3>1 DEF PluginCall, Assignee
  <2> QED  BY <2>1, <2>2, <2>3 DEF StatusTells
<1> QED  BY <1>1, GatewayInvariance, PTL

USE AbsentAssumption, RequestsAssumption, BoundAssumption

-----------------------------------------------------------------------------
(***************************************************************************)
(* Identifiers: the requests and the invariant.                             *)
(***************************************************************************)
LEMMA RequestFields ==
  ASSUME NEW r \in Requests
  PROVE  /\ r.op \in {"create_issue", "move_issue", "insert_team", "update_team"}
         /\ r.team \in Teams
         /\ r.op \in IssueOps => r.issue \in Issues
         /\ r.op \notin IssueOps => r.key \in Keys
<1>1. r \in Request
  OBVIOUS
<1> QED  BY <1>1 DEF Request, IssueOps

LEMMA NoRequestIsRequest == NoRequest \in Requests
BY DEF NoRequest

LEMMA InitIdentifiers == Init => IInv
<1> SUFFICES ASSUME Init PROVE IInv
  OBVIOUS
<1>1. TypeOK
  BY NoRequestIsRequest DEF Init, TypeOK
<1>2. LocksExclude
  BY DEF Init, LocksExclude
<1>3. IdentifiersAreRecorded /\ AllocationsHaveNoGaps /\ NextIdentifierIsFree
  BY DEF Init, IdentifiersAreRecorded, AllocationsHaveNoGaps, NextIdentifierIsFree
<1>4. ASSUME NEW w \in Workers PROVE AllocationIsHeld(w) /\ TeamIsHeld(w)
  BY DEF Init, AllocationIsHeld, TeamIsHeld
<1> QED  BY <1>1, <1>2, <1>3, <1>4 DEF IInv

(***************************************************************************)
(* A team's numbers have no gaps, so its next number is unused; another     *)
(* team can have used it only under the same key.                           *)
(***************************************************************************)
LEMMA NoGapsMakeNextFree ==
  ASSUME TypeOK, AllocationsHaveNoGaps
  PROVE  NextIdentifierIsFree
<1> SUFFICES ASSUME NEW t \in Teams, teams[t] # Absent,
                    NEW a \in aliases, a.identifier = <<teams[t].key, teams[t].next>>
             PROVE  \E b \in aliases : b.identifier[1] = teams[t].key /\ b.team # t
  BY DEF NextIdentifierIsFree, Aliased
<1>1. teams[t].next \in Nat
  BY DEF TypeOK, TeamRow
<1>2. a.identifier[1] = teams[t].key /\ a.identifier[2] = teams[t].next
  OBVIOUS
<1>3. a.team # t
  BY <1>1, <1>2 DEF AllocationsHaveNoGaps
<1> QED  BY <1>2, <1>3

(***************************************************************************)
(* What a worker has allocated or written stays as it was while the others  *)
(* leave the team row and the index entries it has locked alone.            *)
(***************************************************************************)
LEMMA OthersAreHeld ==
  ASSUME IInv, NEW v \in Workers,
         step'[v] = step[v], request'[v] = request[v], identifier'[v] = identifier[v],
         rowLock'[v] = rowLock[v], indexLock'[v] = indexLock[v],
         \A t \in Teams : teams[t] # Absent => teams'[t] # Absent,
         rowLock[v] # Absent => teams'[rowLock[v]] = teams[rowLock[v]],
         \A a \in aliases' : a \in aliases \/ <<"identifier", a.identifier>> \notin indexLock[v]
  PROVE  AllocationIsHeld(v)' /\ TeamIsHeld(v)'
<1>1. AllocationIsHeld(v) /\ TeamIsHeld(v)
  BY DEF IInv
<1>2. request[v].team \in Teams /\ request[v].team # Absent
  <2>1. request[v] \in Requests
    BY DEF IInv, TypeOK
  <2>2. request[v].team \in Teams
    BY <2>1, RequestFields
  <2> QED  BY <2>2
<1>3. AllocationIsHeld(v)'
  BY <1>1, <1>2 DEF AllocationIsHeld, Aliased
<1>4. TeamIsHeld(v)'
  BY <1>1, <1>2 DEF TeamIsHeld
<1> QED  BY <1>3, <1>4

\* A statement changes no committed row.
LEMMA StatementKeepsInvariant ==
  ASSUME IInv, NEW w \in Workers, UNCHANGED dbVars,
         \A v \in Workers \ {w} :
           /\ step'[v] = step[v] /\ request'[v] = request[v]
           /\ identifier'[v] = identifier[v]
           /\ rowLock'[v] = rowLock[v] /\ indexLock'[v] = indexLock[v],
         TypeOK', LocksExclude', AllocationIsHeld(w)', TeamIsHeld(w)'
  PROVE  IInv'
<1>1. IdentifiersAreRecorded' /\ AllocationsHaveNoGaps' /\ NextIdentifierIsFree'
  BY DEF IInv, dbVars, IdentifiersAreRecorded, AllocationsHaveNoGaps,
         NextIdentifierIsFree, Aliased
<1>2. ASSUME NEW v \in Workers PROVE AllocationIsHeld(v)' /\ TeamIsHeld(v)'
  <2>1. CASE v = w
    BY <2>1
  <2>2. CASE v # w
    BY <2>2, OthersAreHeld DEF dbVars
  <2> QED  BY <2>1, <2>2
<1> QED  BY <1>1, <1>2 DEF IInv

LEMMA BeginKeeps ==
  ASSUME IInv, NEW w \in Workers, NEW r \in Requests, Begin(w, r)
  PROVE  IInv'
<1> DEFINE st == IF r.op \in IssueOps THEN "allocate" ELSE "write team"
<1>1. /\ request' = [request EXCEPT ![w] = r] /\ step' = [step EXCEPT ![w] = st]
      /\ UNCHANGED <<dbVars, identifier, rowLock, indexLock>>
      /\ r.op \in IssueOps => teams[r.team] # Absent
  BY DEF Begin, Goto, IssueOps
<1>2. TypeOK'
  BY <1>1 DEF IInv, TypeOK, dbVars
<1>3. LocksExclude'
  BY <1>1 DEF IInv, LocksExclude
<1>4. /\ step'[w] = st /\ request'[w] = r /\ st # "commit"
      /\ r.op \in IssueOps => st = "allocate"
  BY <1>1 DEF IInv, TypeOK
<1> HIDE DEF st
<1>5. AllocationIsHeld(w)' /\ TeamIsHeld(w)'
  <2>1. AllocationIsHeld(w)'
    BY <1>1, <1>4 DEF AllocationIsHeld, dbVars
  <2>2. TeamIsHeld(w)'
    BY <1>4 DEF TeamIsHeld
  <2> QED  BY <2>1, <2>2
<1>6. \A v \in Workers \ {w} : step'[v] = step[v] /\ request'[v] = request[v]
  BY <1>1 DEF IInv, TypeOK
<1> QED  BY <1>1, <1>2, <1>3, <1>5, <1>6, StatementKeepsInvariant

\* The end of a transaction leaves what the others hold.
LEMMA OthersKeep ==
  ASSUME TypeOK, NEW w \in Workers, EndTransaction(w), NEW v \in Workers, v # w
  PROVE  /\ step'[v] = step[v] /\ request'[v] = request[v]
         /\ identifier'[v] = identifier[v]
         /\ rowLock'[v] = rowLock[v] /\ indexLock'[v] = indexLock[v]
BY DEF EndTransaction, Goto, TypeOK

\* The end of a transaction: what it leaves of a worker holds nothing.
LEMMA EndedIsHeld ==
  ASSUME IInv, NEW w \in Workers, EndTransaction(w)
  PROVE  /\ AllocationIsHeld(w)' /\ TeamIsHeld(w)' /\ LocksExclude'
         /\ step' \in [Workers -> {"idle", "allocate", "write issue", "store alias",
                                   "write team", "commit"}]
         /\ request' \in [Workers -> Requests]
         /\ identifier' \in [Workers -> Identifier \cup {Absent}]
         /\ rowLock' \in [Workers -> Teams \cup {Absent}]
         /\ indexLock' \in [Workers -> SUBSET ({"issue", "identifier", "key"} \X
                                                 (Issues \cup Identifier \cup Keys))]
         /\ \A v \in Workers \ {w} :
              /\ step'[v] = step[v] /\ request'[v] = request[v]
              /\ identifier'[v] = identifier[v]
              /\ rowLock'[v] = rowLock[v] /\ indexLock'[v] = indexLock[v]
<1> USE NoRequestIsRequest
<1>1. /\ step' = [step EXCEPT ![w] = "idle"] /\ request' = [request EXCEPT ![w] = NoRequest]
      /\ identifier' = [identifier EXCEPT ![w] = Absent]
      /\ rowLock' = [rowLock EXCEPT ![w] = Absent]
      /\ indexLock' = [indexLock EXCEPT ![w] = {}]
  BY DEF EndTransaction, Goto
<1>2. TypeOK
  BY DEF IInv
<1>3. step'[w] = "idle" /\ rowLock'[w] = Absent /\ indexLock'[w] = {}
  BY <1>1, <1>2 DEF TypeOK
<1>4. \A v \in Workers \ {w} :
        /\ step'[v] = step[v] /\ request'[v] = request[v] /\ identifier'[v] = identifier[v]
        /\ rowLock'[v] = rowLock[v] /\ indexLock'[v] = indexLock[v]
  BY <1>1, <1>2 DEF TypeOK
<1>5. LocksExclude'
  BY <1>3, <1>4 DEF IInv, LocksExclude
<1>6. AllocationIsHeld(w)' /\ TeamIsHeld(w)'
  BY <1>3 DEF AllocationIsHeld, TeamIsHeld
<1> QED  BY <1>1, <1>2, <1>4, <1>5, <1>6 DEF TypeOK

LEMMA AbortKeeps ==
  ASSUME IInv, NEW w \in Workers, Abort(w)
  PROVE  IInv'
<1>1. EndTransaction(w) /\ UNCHANGED dbVars
  BY DEF Abort
<1>2. TypeOK'
  BY <1>1, EndedIsHeld DEF IInv, TypeOK, dbVars
<1> QED  BY <1>1, <1>2, EndedIsHeld, StatementKeepsInvariant

LEMMA AllocateKeeps ==
  ASSUME IInv, NEW w \in Workers, Allocate(w)
  PROVE  IInv'
<1> DEFINE t == request[w].team
           x == <<teams[t].key, teams[t].next>>
<1>1. /\ step[w] = "allocate" /\ request[w].op \in IssueOps
      /\ \A v \in Workers \ {w} : rowLock[v] # t
      /\ rowLock' = [rowLock EXCEPT ![w] = t]
      /\ identifier' = [identifier EXCEPT ![w] = x]
      /\ step' = [step EXCEPT ![w] = "write issue"]
      /\ UNCHANGED <<dbVars, request, indexLock>>
  BY DEF Allocate, At, RowFree, Goto
<1>2. TypeOK /\ AllocationIsHeld(w)
  BY DEF IInv
<1>3. t \in Teams /\ teams[t] # Absent
  BY <1>1, <1>2, RequestFields DEF TypeOK, AllocationIsHeld
<1>4. x \in Identifier
  BY <1>2, <1>3 DEF TypeOK, TeamRow, Identifier
<1> HIDE DEF x
<1>5. TypeOK'
  BY <1>1, <1>2, <1>3, <1>4 DEF TypeOK, dbVars
<1>6. LocksExclude'
  BY <1>1, <1>2 DEF IInv, TypeOK, LocksExclude
<1>7. step'[w] = "write issue" /\ identifier'[w] = x /\ rowLock'[w] = t
  BY <1>1, <1>2 DEF TypeOK
<1>8. AllocationIsHeld(w)' /\ TeamIsHeld(w)'
  BY <1>1, <1>3, <1>7 DEF AllocationIsHeld, TeamIsHeld, dbVars, x
<1>9. \A v \in Workers \ {w} : step'[v] = step[v] /\ identifier'[v] = identifier[v]
                               /\ rowLock'[v] = rowLock[v]
  BY <1>1, <1>2 DEF TypeOK
<1> QED  BY <1>1, <1>5, <1>6, <1>8, <1>9, StatementKeepsInvariant

LEMMA WriteIssueKeeps ==
  ASSUME IInv, NEW w \in Workers, WriteIssue(w)
  PROVE  IInv'
<1> DEFINE entries == {<<"issue", request[w].issue>>, <<"identifier", identifier[w]>>}
<1>1. /\ step[w] = "write issue" /\ request[w].op \in IssueOps
      /\ \A v \in Workers \ {w} : entries \cap indexLock[v] = {}
      /\ indexLock' = [indexLock EXCEPT ![w] = entries]
      /\ step' = [step EXCEPT ![w] = "store alias"]
      /\ UNCHANGED <<dbVars, request, identifier, rowLock>>
  BY DEF WriteIssue, At, IndexFree, Goto
<1>2. TypeOK /\ AllocationIsHeld(w)
  BY DEF IInv
<1>3. request[w] \in Requests /\ request[w].team \in Teams /\ request[w].issue \in Issues
  BY <1>1, <1>2, RequestFields DEF TypeOK
<1>4. identifier[w] \in Identifier
  <2>1. /\ teams[request[w].team] # Absent
        /\ identifier[w] = <<teams[request[w].team].key, teams[request[w].team].next>>
    BY <1>1, <1>2 DEF AllocationIsHeld
  <2>2. teams[request[w].team] \in TeamRow
    BY <1>2, <1>3, <2>1 DEF TypeOK
  <2> QED  BY <2>1, <2>2 DEF TeamRow, Identifier
<1>5. entries \in SUBSET ({"issue", "identifier", "key"} \X (Issues \cup Identifier \cup Keys))
  BY <1>3, <1>4
<1>6. <<"identifier", identifier[w]>> \in entries
  OBVIOUS
<1> HIDE DEF entries
<1>7. TypeOK'
  BY <1>1, <1>2, <1>5 DEF TypeOK, dbVars
<1>8. LocksExclude'
  BY <1>1, <1>2 DEF IInv, TypeOK, LocksExclude
<1>9. step'[w] = "store alias" /\ indexLock'[w] = entries
  BY <1>1, <1>2 DEF TypeOK
<1>10. AllocationIsHeld(w)' /\ TeamIsHeld(w)'
  BY <1>1, <1>2, <1>6, <1>9 DEF AllocationIsHeld, TeamIsHeld, dbVars
<1>11. \A v \in Workers \ {w} : step'[v] = step[v] /\ indexLock'[v] = indexLock[v]
  BY <1>1, <1>2 DEF TypeOK
<1> QED  BY <1>1, <1>7, <1>8, <1>10, <1>11, StatementKeepsInvariant

LEMMA StoreAliasKeeps ==
  ASSUME IInv, NEW w \in Workers, StoreAlias(w)
  PROVE  IInv'
<1>1. /\ step[w] = "store alias" /\ request[w].op \in IssueOps
      /\ ~Aliased(identifier[w])
      /\ step' = [step EXCEPT ![w] = "commit"]
      /\ UNCHANGED <<dbVars, request, identifier, rowLock, indexLock>>
  BY DEF StoreAlias, At, Goto
<1>2. TypeOK /\ AllocationIsHeld(w)
  BY DEF IInv
<1>3. TypeOK'
  BY <1>1, <1>2 DEF TypeOK, dbVars
<1>4. LocksExclude'
  BY <1>1 DEF IInv, LocksExclude
<1>5. step'[w] = "commit"
  BY <1>1, <1>2 DEF TypeOK
<1>6. AllocationIsHeld(w)' /\ TeamIsHeld(w)'
  BY <1>1, <1>2, <1>5 DEF AllocationIsHeld, TeamIsHeld, dbVars, Aliased
<1>7. \A v \in Workers \ {w} : step'[v] = step[v]
  BY <1>1, <1>2 DEF TypeOK
<1> QED  BY <1>1, <1>3, <1>4, <1>6, <1>7, StatementKeepsInvariant

LEMMA WriteTeamKeeps ==
  ASSUME IInv, NEW w \in Workers, WriteTeam(w)
  PROVE  IInv'
<1> DEFINE r == request[w]
           entries == {<<"key", r.key>>}
<1>1. /\ step[w] = "write team" /\ r.op \in {"insert_team", "update_team"}
      /\ \A v \in Workers \ {w} : rowLock[v] # r.team /\ entries \cap indexLock[v] = {}
      /\ (r.op = "insert_team") <=> (teams[r.team] = Absent)
      /\ rowLock' = [rowLock EXCEPT ![w] = r.team]
      /\ indexLock' = [indexLock EXCEPT ![w] = entries]
      /\ step' = [step EXCEPT ![w] = "commit"]
      /\ UNCHANGED <<dbVars, request, identifier>>
  BY DEF WriteTeam, At, RowFree, IndexFree, Goto
<1>2. TypeOK
  BY DEF IInv
<1>3. r \in Requests /\ r.team \in Teams /\ r.op \notin IssueOps /\ r.key \in Keys
  BY <1>1, <1>2, RequestFields DEF TypeOK, IssueOps
<1>4. entries \in SUBSET ({"issue", "identifier",
"key"} \X (Issues \cup Identifier \cup Keys))
  BY <1>3
<1> HIDE DEF entries
<1>5. TypeOK'
  BY <1>1, <1>2, <1>3, <1>4 DEF TypeOK, dbVars
<1>6. LocksExclude'
  BY <1>1, <1>2 DEF IInv, TypeOK, LocksExclude
<1>7. step'[w] = "commit" /\ rowLock'[w] = r.team
  BY <1>1, <1>2 DEF TypeOK
<1>8. AllocationIsHeld(w)' /\ TeamIsHeld(w)'
  BY <1>1, <1>3, <1>7 DEF AllocationIsHeld, TeamIsHeld, dbVars
<1>9. \A v \in Workers \ {w} : step'[v] = step[v] /\ rowLock'[v] = rowLock[v]
                               /\ indexLock'[v] = indexLock[v]
  BY <1>1, <1>2 DEF TypeOK
<1> QED  BY <1>1, <1>5, <1>6, <1>8, <1>9, StatementKeepsInvariant

(***************************************************************************)
(* The commit of an allocation: the alias is new, and its number is the     *)
(* next one of the team.                                                    *)
(***************************************************************************)
LEMMA CommittedAllocation ==
  ASSUME IInv, NEW w \in Workers, CommitIssue(w)
  PROVE  LET t == request[w].team
             new == [identifier |-> identifier[w], issue |-> request[w].issue, team |-> t]
         IN /\ t \in Teams /\ teams[t] # Absent /\ teams[t] \in TeamRow
            /\ request[w].issue \in Issues
            /\ rowLock[w] = t /\ <<"identifier", identifier[w]>> \in indexLock[w]
            /\ identifier[w] = <<teams[t].key, teams[t].next>> /\ identifier[w] \in Identifier
            /\ ~Aliased(identifier[w])
            /\ teams' = [teams EXCEPT ![t] = [key |-> teams[t].key, next |-> teams[t].next + 1]]
            /\ issues' = [issues EXCEPT ![request[w].issue] =
                            [team |-> t, identifier |-> identifier[w]]]
            /\ aliases' = aliases \cup {new}
            /\ new \in Alias
            /\ EndTransaction(w)
<1> DEFINE t == request[w].team
<1>1. TypeOK /\ AllocationIsHeld(w)
  BY DEF IInv
<1>2. step[w] = "commit" /\ request[w].op \in IssueOps
  BY DEF CommitIssue, At
<1>3. t \in Teams /\ request[w].issue \in Issues
  BY <1>1, <1>2, RequestFields DEF TypeOK
<1>4. /\ teams[t] # Absent /\ rowLock[w] = t
      /\ identifier[w] = <<teams[t].key, teams[t].next>>
      /\ <<"identifier", identifier[w]>> \in indexLock[w] /\ ~Aliased(identifier[w])
  BY <1>1, <1>2 DEF AllocationIsHeld
<1>5. teams[t] \in TeamRow
  BY <1>1, <1>3, <1>4 DEF TypeOK
<1>6. identifier[w] \in Identifier
  BY <1>4, <1>5 DEF TeamRow, Identifier
<1>7. [identifier |-> identifier[w], issue |-> request[w].issue, team |-> t] \in Alias
  BY <1>3, <1>6 DEF Alias
<1> QED  BY <1>3, <1>4, <1>5, <1>6, <1>7 DEF CommitIssue, NewAliases

LEMMA CommitIssueKeeps ==
  ASSUME IInv, NEW w \in Workers, CommitIssue(w)
  PROVE  IInv'
<1> DEFINE t == request[w].team
           i == request[w].issue
           row == [key |-> teams[t].key, next |-> teams[t].next + 1]
           new == [identifier |-> identifier[w], issue |-> i, team |-> t]
<1>1. /\ t \in Teams /\ teams[t] # Absent /\ teams[t] \in TeamRow /\ i \in Issues
      /\ rowLock[w] = t /\ <<"identifier", identifier[w]>> \in indexLock[w]
      /\ identifier[w] = <<teams[t].key, teams[t].next>> /\ identifier[w] \in Identifier
      /\ ~Aliased(identifier[w]) /\ teams' = [teams EXCEPT ![t] = row]
      /\ issues' = [issues EXCEPT ![i] = [team |-> t, identifier |-> identifier[w]]]
      /\ aliases' = aliases \cup {new} /\ new \in Alias
      /\ EndTransaction(w)
  BY CommittedAllocation
<1>2. TypeOK
  BY DEF IInv
<1>3. row \in TeamRow /\ row # Absent /\ teams[t].next \in Nat \ {0}
  BY <1>1 DEF TeamRow
<1>4. /\ teams'[t] = row /\ \A u \in Teams \ {t} : teams'[u] = teams[u]
      /\ issues'[i] = [team |-> t, identifier |-> identifier[w]]
      /\ \A j \in Issues \ {i} : issues'[j] = issues[j]
  BY <1>1, <1>2 DEF TypeOK
<1>5. [team |-> t, identifier |-> identifier[w]] \in IssueRow
  BY <1>1 DEF IssueRow
<1>6. TypeOK'
  BY <1>1, <1>2, <1>3, <1>5, EndedIsHeld DEF TypeOK
<1>7. /\ new.identifier = identifier[w] /\ new.issue = i /\ new.team = t
      /\ new.identifier[2] = teams[t].next
      /\ row.next = teams[t].next + 1
  BY <1>1
<1> HIDE DEF row, new
<1>8. IdentifiersAreRecorded'
  <2>1. ASSUME NEW j \in Issues, issues'[j] # Absent
        PROVE  \E a \in aliases' : /\ a.identifier = issues'[j].identifier
                                   /\ a.issue = j /\ a.team = issues'[j].team
    <3>1. CASE j = i
      <4>1. issues'[j].identifier = identifier[w] /\ issues'[j].team = t
        BY <1>4, <3>1
      <4>2. new \in aliases'
        BY <1>1
      <4> QED  BY <1>7, <3>1, <4>1, <4>2
    <3>2. CASE j # i
      <4>1. issues'[j] = issues[j]
        BY <1>4, <3>2
      <4>2. PICK a \in aliases : /\ a.identifier = issues[j].identifier
                                 /\ a.issue = j /\ a.team = issues[j].team
        BY <2>1, <4>1 DEF IInv, IdentifiersAreRecorded
      <4> QED  BY <1>1, <4>1, <4>2
    <3> QED  BY <3>1, <3>2
  <2>2. ASSUME NEW a \in aliases', NEW b \in aliases', a.identifier = b.identifier
        PROVE  a = b
    BY <1>1, <1>7, <2>2 DEF IInv, IdentifiersAreRecorded, Aliased
  <2> QED  BY <2>1, <2>2 DEF IdentifiersAreRecorded
<1>9. AllocationsHaveNoGaps'
  <2>1. /\ \A a \in aliases : a \in Alias /\ teams[a.team] # Absent
                                /\ a.identifier[2] < teams[a.team].next
        /\ \A a, b \in aliases : a.team = b.team /\ a.identifier[2] = b.identifier[2] => a = b
    BY <1>2 DEF IInv, AllocationsHaveNoGaps, TypeOK
  <2>2. ASSUME NEW a \in Alias PROVE a.team \in Teams /\ a.identifier[2] \in Nat
    BY DEF Alias, Identifier
  <2>3. ASSUME NEW a \in aliases'
        PROVE  teams'[a.team] # Absent /\ a.identifier[2] < teams'[a.team].next
    <3>1. CASE a = new
      BY <1>3, <1>4, <1>7, <3>1
    <3>2. CASE a \in aliases /\ a.team = t
      BY <1>3, <1>4, <1>7, <2>1, <2>2, <3>2
    <3>3. CASE a \in aliases /\ a.team # t
      BY <1>4, <2>1, <2>2, <3>3
    <3> QED  BY <1>1, <3>1, <3>2, <3>3
  <2>4. ASSUME NEW u \in Teams, teams'[u] # Absent, NEW n \in 1 .. (teams'[u].next - 1)
        PROVE  \E a \in aliases' : a.team = u /\ a.identifier[2] = n
    <3>1. CASE u = t /\ n = teams[t].next
      BY <1>1, <1>7, <3>1
    <3>2. CASE u = t /\ n # teams[t].next
      <4>1. n \in 1 .. (teams[t].next - 1)
        BY <1>3, <1>4, <1>7, <3>2
      <4>2. \E a \in aliases : a.team = t /\ a.identifier[2] = n
        BY <1>1, <4>1 DEF IInv, AllocationsHaveNoGaps
      <4> QED  BY <1>1, <3>2, <4>2
    <3>3. CASE u # t
      <4>1. teams[u] # Absent /\ n \in 1 .. (teams[u].next - 1)
        BY <1>4, <2>4, <3>3
      <4>2. \E a \in aliases : a.team = u /\ a.identifier[2] = n
        BY <4>1 DEF IInv, AllocationsHaveNoGaps
      <4> QED  BY <1>1, <4>2
    <3> QED  BY <3>1, <3>2, <3>3
  <2>5. ASSUME NEW a \in aliases, a.team = t PROVE a.identifier[2] # new.identifier[2]
    BY <1>3, <1>7, <2>1, <2>2, <2>5
  <2>6. ASSUME NEW a \in aliases', NEW b \in aliases',
               a.team = b.team, a.identifier[2] = b.identifier[2]
        PROVE  a = b
    BY <1>1, <1>7, <2>1, <2>5, <2>6
  <2> QED  BY <2>3, <2>4, <2>6 DEF AllocationsHaveNoGaps
<1>10. NextIdentifierIsFree'
  <2>1. TypeOK' /\ AllocationsHaveNoGaps' => NextIdentifierIsFree'
    BY NoGapsMakeNextFree, PTL
  <2> QED  BY <1>6, <1>9, <2>1
<1>11. ASSUME NEW v \in Workers PROVE AllocationIsHeld(v)' /\ TeamIsHeld(v)'
  <2>1. CASE v = w
    BY <1>1, <2>1, EndedIsHeld
  <2>2. CASE v # w
    <3>1. rowLock[v] # t /\ <<"identifier", identifier[w]>> \notin indexLock[v]
      BY <1>1, <2>2 DEF IInv, LocksExclude
    <3>2. /\ \A u \in Teams : teams[u] # Absent => teams'[u] # Absent
          /\ rowLock[v] # Absent => teams'[rowLock[v]] = teams[rowLock[v]]
      <4>1. \A u \in Teams : teams[u] # Absent => teams'[u] # Absent
        BY <1>3, <1>4
      <4>2. rowLock[v] \in Teams \cup {Absent}
        BY <1>2 DEF TypeOK
      <4> QED  BY <1>4, <3>1, <4>1, <4>2
    <3>3. \A a \in aliases' :
            a \in aliases \/ <<"identifier", a.identifier>> \notin indexLock[v]
      BY <1>1, <1>7, <3>1
    <3>4. /\ step'[v] = step[v] /\ request'[v] = request[v]
          /\ identifier'[v] = identifier[v]
          /\ rowLock'[v] = rowLock[v] /\ indexLock'[v] = indexLock[v]
      BY <1>1, <1>2, <2>2, OthersKeep
    <3> QED  BY <1>1, <3>2, <3>3, <3>4, OthersAreHeld
  <2> QED  BY <2>1, <2>2
<1> QED  BY <1>1, <1>6, <1>8, <1>9, <1>10, <1>11, EndedIsHeld DEF IInv

\* A team keeps its counter under its new key, or starts with no numbers.
LEMMA CommitTeamKeeps ==
  ASSUME IInv, NEW w \in Workers, CommitTeam(w)
  PROVE  IInv'
<1> DEFINE r == request[w]
           row == [key |-> r.key, next |-> NextNumber(r)]
<1>1. /\ step[w] = "commit" /\ r.op \in {"insert_team", "update_team"}
      /\ teams' = [teams EXCEPT ![r.team] = row]
      /\ UNCHANGED <<issues, aliases>> /\ EndTransaction(w)
  BY DEF CommitTeam, At
<1>2. TypeOK
  BY DEF IInv
<1>3. r \in Requests /\ r.team \in Teams /\ r.op \notin IssueOps /\ r.key \in Keys
  BY <1>1, <1>2, RequestFields DEF TypeOK, IssueOps
<1>4. /\ rowLock[w] = r.team
      /\ r.op = "insert_team" => teams[r.team] = Absent /\ NextNumber(r) = 1
      /\ r.op = "update_team" => /\ teams[r.team] # Absent
                                 /\ NextNumber(r) = teams[r.team].next
  BY <1>1, <1>3 DEF IInv, TeamIsHeld, NextNumber
<1>5. NextNumber(r) \in Nat \ {0}
  <2>1. CASE r.op = "insert_team"
    BY <1>4, <2>1
  <2>2. CASE r.op = "update_team"
    <3>1. teams[r.team] \in TeamRow
      BY <1>2, <1>3, <1>4, <2>2 DEF TypeOK
    <3> QED  BY <1>4, <2>2, <3>1 DEF TeamRow
  <2> QED  BY <1>1, <2>1, <2>2
<1>6. row \in TeamRow /\ row # Absent /\ row.next = NextNumber(r)
  BY <1>3, <1>5 DEF TeamRow
<1> HIDE DEF row
<1>7. teams'[r.team] = row /\ \A u \in Teams \ {r.team} : teams'[u] = teams[u]
  BY <1>1, <1>2, <1>3 DEF TypeOK
<1>8. TypeOK'
  BY <1>1, <1>2, <1>6, EndedIsHeld DEF TypeOK
<1>9. IdentifiersAreRecorded'
  BY <1>1 DEF IInv, IdentifiersAreRecorded
<1>10. AllocationsHaveNoGaps'
  <2>1. ASSUME NEW a \in aliases'
        PROVE  teams'[a.team] # Absent /\ a.identifier[2] < teams'[a.team].next
    <3>1. a.team \in Teams /\ teams[a.team] # Absent /\ a.identifier[2] < teams[a.team].next
      <4>1. a \in aliases /\ a \in Alias
        BY <1>1, <1>2 DEF TypeOK
      <4>2. a.team \in Teams
        BY <4>1 DEF Alias
      <4> QED  BY <4>1, <4>2 DEF IInv, AllocationsHaveNoGaps
    <3>2. CASE a.team = r.team
      BY <1>1, <1>4, <1>6, <1>7, <3>1, <3>2
    <3>3. CASE a.team # r.team
      BY <1>7, <3>1, <3>3
    <3> QED  BY <3>2, <3>3
  <2>2. ASSUME NEW u \in Teams, teams'[u] # Absent, NEW n \in 1 .. (teams'[u].next - 1)
        PROVE  \E a \in aliases' : a.team = u /\ a.identifier[2] = n
    <3>1. teams[u] # Absent /\ teams[u].next = teams'[u].next
      <4>1. CASE u = r.team /\ r.op = "insert_team"
        BY <1>4, <1>6, <1>7, <2>2, <4>1
      <4>2. CASE u = r.team /\ r.op = "update_team"
        BY <1>4, <1>6, <1>7, <4>2
      <4>3. CASE u # r.team
        BY <1>7, <2>2, <4>3
      <4> QED  BY <1>1, <4>1, <4>2, <4>3
    <3> QED  BY <1>1, <3>1 DEF IInv, AllocationsHaveNoGaps
  <2>3. \A a, b \in aliases' :
          a.team = b.team /\ a.identifier[2] = b.identifier[2] => a = b
    BY <1>1 DEF IInv, AllocationsHaveNoGaps
  <2> QED  BY <2>1, <2>2, <2>3 DEF AllocationsHaveNoGaps
<1>11. NextIdentifierIsFree'
  <2>1. TypeOK' /\ AllocationsHaveNoGaps' => NextIdentifierIsFree'
    BY NoGapsMakeNextFree, PTL
  <2> QED  BY <1>8, <1>10, <2>1
<1>12. ASSUME NEW v \in Workers PROVE AllocationIsHeld(v)' /\ TeamIsHeld(v)'
  <2>1. CASE v = w
    BY <1>1, <2>1, EndedIsHeld
  <2>2. CASE v # w
    <3>1. rowLock[v] # Absent => rowLock[v] # r.team
      BY <1>4, <2>2 DEF IInv, LocksExclude
    <3>2. /\ \A u \in Teams : teams[u] # Absent => teams'[u] # Absent
          /\ rowLock[v] # Absent => teams'[rowLock[v]] = teams[rowLock[v]]
      <4>1. \A u \in Teams : teams[u] # Absent => teams'[u] # Absent
        BY <1>6, <1>7
      <4>2. rowLock[v] \in Teams \cup {Absent}
        BY <1>2 DEF TypeOK
      <4> QED  BY <1>7, <3>1, <4>1, <4>2
    <3>3. /\ step'[v] = step[v] /\ request'[v] = request[v]
          /\ identifier'[v] = identifier[v]
          /\ rowLock'[v] = rowLock[v] /\ indexLock'[v] = indexLock[v]
      BY <1>1, <1>2, <2>2, OthersKeep
    <3> QED  BY <1>1, <3>2, <3>3, OthersAreHeld
  <2> QED  BY <2>1, <2>2
<1> QED  BY <1>1, <1>8, <1>9, <1>10, <1>11, <1>12, EndedIsHeld DEF IInv

LEMMA NextKeeps == IInv /\ [Next]_vars => IInv'
<1> SUFFICES ASSUME IInv, [Next]_vars PROVE IInv'
  OBVIOUS
<1>1. CASE Next
  BY <1>1, BeginKeeps, AllocateKeeps, WriteIssueKeeps, StoreAliasKeeps,
     CommitIssueKeeps, WriteTeamKeeps, CommitTeamKeeps, AbortKeeps DEF Next
<1>2. CASE UNCHANGED vars
  <2>1. TypeOK' /\ LocksExclude'
    BY <1>2 DEF vars, dbVars, IInv, TypeOK, LocksExclude
  <2>2. IdentifiersAreRecorded' /\ AllocationsHaveNoGaps'
    BY <1>2 DEF vars, dbVars, IInv, IdentifiersAreRecorded, AllocationsHaveNoGaps
  <2>3. NextIdentifierIsFree'
    BY <1>2 DEF vars, dbVars, IInv, NextIdentifierIsFree, Aliased
  <2>4. ASSUME NEW v \in Workers PROVE AllocationIsHeld(v)' /\ TeamIsHeld(v)'
    BY <1>2, OthersAreHeld DEF vars, dbVars
  <2> QED  BY <2>1, <2>2, <2>3, <2>4 DEF IInv
<1> QED  BY <1>1, <1>2

\* Only the commit of an issue handler adds an alias.
LEMMA OnlyCommitIssueAllocates ==
  ASSUME [Next]_vars, aliases' # aliases
  PROVE  \E w \in Workers : CommitIssue(w)
BY DEF Next, vars, dbVars, Begin, Allocate, WriteIssue, StoreAlias, WriteTeam,
       CommitTeam, Abort

\* It is made of the key and the next number of its team, which keeps the key.
LEMMA NewAliasIsNext ==
  ASSUME IInv, [Next]_vars, NEW a \in aliases' \ aliases
  PROVE  /\ a.identifier[1] = teams'[a.team].key
         /\ a.identifier[2] = teams[a.team].next
<1>1. PICK w \in Workers : CommitIssue(w)
  BY OnlyCommitIssueAllocates
<1> DEFINE t == request[w].team
           row == [key |-> teams[t].key, next |-> teams[t].next + 1]
           new == [identifier |-> identifier[w], issue |-> request[w].issue, team |-> t]
<1>2. /\ t \in Teams /\ identifier[w] = <<teams[t].key, teams[t].next>>
      /\ teams' = [teams EXCEPT ![t] = row]
      /\ aliases' = aliases \cup {new}
  BY <1>1, CommittedAllocation
<1>3. a = new
  BY <1>2
<1>4. a.team = t /\ a.identifier[1] = teams[t].key /\ a.identifier[2] = teams[t].next
  BY <1>2, <1>3
<1>5. teams'[t] = row
  BY <1>2 DEF IInv, TypeOK
<1> QED  BY <1>4, <1>5

(***************************************************************************)
(* IInv is invariant: from its counter update to its commit a transaction   *)
(* owns the key and the next number of its team.                            *)
(***************************************************************************)
THEOREM IdentifierInvariance == Spec => []IInv
BY InitIdentifiers, NextKeeps, PTL DEF Spec

(***************************************************************************)
(* Whatever is created, moved and renamed, counters and the numbers of      *)
(* aliases stay positive and every alias names an issue.                    *)
(***************************************************************************)
THEOREM IdentifiersAreTyped == Spec => []TypeOK
<1>1. IInv => TypeOK
  BY DEF IInv
<1> QED  BY <1>1, IdentifierInvariance, PTL

(***************************************************************************)
(* Identifiers are allocated monotonically per team.                        *)
(***************************************************************************)
THEOREM NumbersAreMonotone == Spec => AllocatedMonotonically
<1> DEFINE Grow == \A a \in aliases' \ aliases, b \in aliases :
                     a.team = b.team => b.identifier[2] < a.identifier[2]
<1>1. IInv /\ [Next]_vars => [Grow]_vars
  <2> SUFFICES ASSUME IInv, [Next]_vars, NEW a \in aliases' \ aliases,
                      NEW b \in aliases, a.team = b.team
               PROVE  b.identifier[2] < a.identifier[2]
    OBVIOUS
  <2>1. a.identifier[2] = teams[a.team].next
    BY NewAliasIsNext
  <2>2. b.identifier[2] < teams[b.team].next
    BY DEF IInv, AllocationsHaveNoGaps
  <2> QED  BY <2>1, <2>2
<1> QED  BY <1>1, IdentifierInvariance, PTL DEF Spec, AllocatedMonotonically

(***************************************************************************)
(* An identifier carries the key its team has when it is committed.         *)
(***************************************************************************)
THEOREM IdentifiersKeepTheKey == Spec => IdentifiersCarryTheKey
<1> DEFINE Carry == \A a \in aliases' \ aliases : a.identifier[1] = teams'[a.team].key
<1>1. IInv /\ [Next]_vars => [Carry]_vars
  BY NewAliasIsNext
<1> QED  BY <1>1, IdentifierInvariance, PTL DEF Spec, IdentifiersCarryTheKey

(***************************************************************************)
(* The identifier of an issue is recorded for it and for no other issue,    *)
(* and was allocated by the team the issue is in.                           *)
(***************************************************************************)
THEOREM IdentifiersStayRecorded == Spec => []IdentifiersAreRecorded
<1>1. IInv => IdentifiersAreRecorded
  BY DEF IInv
<1> QED  BY <1>1, IdentifierInvariance, PTL

(***************************************************************************)
(* A team whose key only it has used can always allocate.                   *)
(***************************************************************************)
THEOREM NextIdentifierStaysFree == Spec => []NextIdentifierIsFree
<1>1. IInv => NextIdentifierIsFree
  BY DEF IInv
<1> QED  BY <1>1, IdentifierInvariance, PTL

===============================================================================
