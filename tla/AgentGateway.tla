---------------------------- MODULE AgentGateway -----------------------------
(***************************************************************************)
(* Tool calls on their way to the Projects plugin: the web adapter          *)
(* authenticates a session and attaches the assertion it gets, the tools    *)
(* adapter turns the tool into a request of its own to the plugin, and the  *)
(* answer comes back as an HTTP status.  Other requests reach the plugin    *)
(* directly, beside them.                                                   *)
(***************************************************************************)
EXTENDS Ingress

CONSTANTS
  ToolRequests,  \* the requests that come through the adapters
  AgentInstance, \* the instance key of the tools adapter
  Posts,         \* what agents post
  HasVerifier    \* whether issuer and key are configured for the tools adapter

-----------------------------------------------------------------------------
(* The tools. *)

Tools ==
  [projects_assign_issue_to_me |-> "set_issue_assignee",
   projects_get_issue_assignee |-> "get_issue_assignee",
   projects_set_issue_assignee |-> "set_issue_assignee",
   projects_list_projects |-> "list_projects",
   projects_get_project |-> "get_project",
   projects_list_issues |-> "list_issues",
   projects_list_issue_workflow_states |-> "list_issue_workflow_states",
   projects_get_issue |-> "get_issue",
   projects_create_issue |-> "create_issue",
   projects_update_issue |-> "update_issue",
   projects_move_issue |-> "move_issue",
   projects_list_comments |-> "list_comments",
   projects_add_comment |-> "add_comment"]

AssignSelf == "projects_assign_issue_to_me"

\* What the web adapter may find too large to reply: a page of a list, and an
\* issue, whose former identifiers have no limit.
Oversized(o) ==
  o \in {"list_projects", "list_issues", "list_comments",
         "get_issue", "create_issue", "update_issue", "move_issue"}

\* A post: the tool, what the session proves, who it is of what kind, what the
\* assertion of the session is for, and what is wrong with the body.
Post ==
  [tool : DOMAIN Tools \cup {"unknown"},
   credential : {"none", "session", "rejected"},
   kind : {"user", "service"}, subject : Subjects,
   audience : SUBSET (Operations \cup {"execute"}),
   body : {"decodes", "too_large", "malformed", "undecodable_arguments"},
   assignee : Subjects \cup {NoSubject}, defects : SUBSET Defects]

ASSUME PostsAssumption ==
  /\ Posts \subseteq Post /\ Posts # {} /\ HasVerifier \in BOOLEAN
  /\ ToolRequests \subseteq Arrivals /\ AgentInstance \in ProjectCallers

VARIABLES
  hop,    \* where a tool request is
  post,   \* what was posted
  status  \* the HTTP status, 500 for a runtime failure

gatewayVars == <<hop, post, status>>
allVars == <<ingressVars, gatewayVars>>

Statuses == {200, 400, 401, 403, 404, 413, 422, 500}

GatewayInit ==
  /\ IngressInit
  /\ hop = [r \in ToolRequests |-> "idle"]
  /\ post = [r \in ToolRequests |-> CHOOSE p \in Posts : TRUE]
  /\ status = [r \in ToolRequests |-> 500]

Respond(r, s) ==
  /\ hop' = [hop EXCEPT ![r] = "replied"]
  /\ status' = [status EXCEPT ![r] = s]
  /\ UNCHANGED <<ingressVars, post>>

Proceed(r, h) ==
  /\ hop' = [hop EXCEPT ![r] = h]
  /\ UNCHANGED <<ingressVars, post, status>>

ReceivePost(r, p) ==
  /\ hop[r] = "idle"
  /\ hop' = [hop EXCEPT ![r] = "authenticating"]
  /\ post' = [post EXCEPT ![r] = p]
  /\ UNCHANGED <<ingressVars, status>>

\* The body is looked at only for an authenticated user.
CheckBody(r) ==
  CASE post[r].body = "too_large" -> Respond(r, 413)
    [] post[r].body = "malformed" -> Respond(r, 400)
    [] OTHER -> Proceed(r, "executing")

AuthenticatePost(r) ==
  /\ hop[r] = "authenticating"
  /\ CASE post[r].credential # "session" -> Respond(r, 401)
       [] post[r].credential = "session" /\ post[r].kind # "user" -> Respond(r, 403)
       [] OTHER -> CheckBody(r)

\* self_assignment: the assertion has to be for the tool provider and for the
\* plugin, and the user it names becomes the assignee.
SelfIsVerified(r) ==
  /\ HasVerifier
  /\ {"execute", "set_issue_assignee"} \subseteq post[r].audience
  /\ r \notin expired

Assignee(r) == IF post[r].tool = AssignSelf THEN post[r].subject ELSE post[r].assignee

PluginCall(r) ==
  [operation |-> Tools[post[r].tool], caller |-> AgentInstance,
   subject |-> post[r].subject, audience |-> post[r].audience \cap Operations,
   assignee |-> Assignee(r), defects |-> post[r].defects]

ExecuteTool(r) ==
  /\ hop[r] = "executing"
  /\ CASE post[r].tool \notin DOMAIN Tools -> Respond(r, 404)
       [] post[r].tool \in DOMAIN Tools /\ post[r].body # "decodes" -> Respond(r, 400)
       [] post[r].tool = AssignSelf /\ post[r].body = "decodes" /\ ~SelfIsVerified(r) ->
            Respond(r, 403)
       [] OTHER ->
            /\ Submit(r, PluginCall(r))
            /\ hop' = [hop EXCEPT ![r] = "invoked"]
            /\ UNCHANGED <<post, status>>

\* Defect: a failure nobody has classified is told as a rejection.
StatusOfRejected(a) ==
  CASE a = "Ok" -> 200
    [] a = "InvalidRequest" -> 400
    [] a = "NotFound" -> 404
    [] a \in {"Forbidden", "Unauthenticated", "PrivateTeam", "AuthorRequired"} -> 403
    [] OTHER -> 422

\* map_domain_error and the statuses of its results.
StatusOf(a) ==
  CASE a = "Ok" -> 200
    [] a = "Runtime" -> 500
    [] a = "InvalidRequest" -> 400
    [] a = "NotFound" -> 404
    [] a \in {"Forbidden", "Unauthenticated", "PrivateTeam", "AuthorRequired"} -> 403
    [] OTHER -> 422

RelayAnswer(r) ==
  /\ hop[r] = "invoked" /\ phase[r] = "answered"
  /\ \/ Respond(r, StatusOf(answer[r]))
     \/ answer[r] = "Ok" /\ Oversized(call[r].operation) /\ Respond(r, 413)

\* The Auth capability or one of the adapters fails, or the agent hangs up.
FailHop(r) ==
  /\ hop[r] \in {"authenticating", "executing", "invoked"}
  /\ Respond(r, 500)

Relay(r) == AuthenticatePost(r) \/ ExecuteTool(r) \/ RelayAnswer(r)

SubmitDirectly(r, c) == Submit(r, c) /\ UNCHANGED gatewayVars

GatewayNext ==
  \/ Progress /\ UNCHANGED gatewayVars
  \/ \E r \in Arrivals \ ToolRequests, c \in Calls : SubmitDirectly(r, c)
  \/ \E r \in ToolRequests, p \in Posts : ReceivePost(r, p)
  \/ \E r \in ToolRequests : Relay(r) \/ FailHop(r)

GatewaySpec ==
  /\ GatewayInit /\ [][GatewayNext]_allVars
  /\ Fairness /\ \A r \in ToolRequests : WF_allVars(Relay(r))

-----------------------------------------------------------------------------
(* Properties. *)

\* What the variables hold.
GatewayTypeOK ==
  /\ IngressTypeOK
  /\ hop \in [ToolRequests -> {"idle", "authenticating", "executing", "invoked", "replied"}]
  /\ post \in [ToolRequests -> Post]
  /\ status \in [ToolRequests -> Statuses]

\* The status tells the agent what has happened: 400, 401, 403, 404 and 422
\* mean that the command has no effect and can get none, and 200 that it has
\* committed.  413 has two meanings, and no third: nothing was asked of the
\* plugin, or the request has succeeded, a command has committed.  What commits
\* for projects_assign_issue_to_me assigns the issue to the user of the session
\* (execute of both adapters, reply, self_assignment, map_domain_error).
StatusTells ==
  /\ OutcomeIsTold
  /\ \A r \in ToolRequests : hop[r] = "replied" =>
       /\ status[r] \in {400, 401, 403, 404, 422} => ~committed[r] /\ ~InFlight(r)
       /\ status[r] = 200 /\ IsCommand(call[r].operation) => committed[r]
       /\ status[r] = 413 =>
            \/ phase[r] = "idle"
            \/ /\ phase[r] = "answered" /\ answer[r] = "Ok"
               /\ IsCommand(call[r].operation) => committed[r]
  /\ \A r \in ToolRequests : committed[r] /\ post[r].tool = AssignSelf =>
       call[r].assignee = post[r].subject

\* Every post is replied to, every request ends and every deactivation, without
\* a timeout: requests do not wait for connections that they keep from each
\* other.  As each is served once, it is enough that again and again none is in
\* flight (execute, deactivate, the storage functions).
GatewayEnds ==
  []<>(Settled /\ \A r \in ToolRequests : hop[r] \in {"idle", "replied"})

=============================================================================
