--------------------------- MODULE MCAgentGateway ----------------------------
(***************************************************************************)
(* An instance of AgentGateway for TLC: requests through the adapters and  *)
(* direct ones, from the three kinds of callers.  Each behavior runs one of *)
(* three workloads, so that their state spaces add up.                      *)
(***************************************************************************)
EXTENDS AgentGateway

CONSTANTS ann, bob, app, console, privacy, agent, r1, r2, r3, r4

MCRights == {<<ann, "member">>, <<ann, "projects.read">>, <<ann, "projects.write">>,
             <<ann, "projects.collaborate">>, <<ann, "projects.admin">>, <<bob, "member">>}
MCChanging == {<<ann, "member">>, <<bob, "member">>}

Ask(o, caller, subject, audience, assignee, defects) ==
  [operation |-> o, caller |-> caller, subject |-> subject, audience |-> audience,
   assignee |-> assignee, defects |-> defects]

MCCalls ==
  { Ask("list_projects", app, ann, {"list_projects"}, NoSubject, {}),
    Ask("set_issue_assignee", app, ann, {"set_issue_assignee"}, bob, {}),
    Ask("get_project_status", console, ann, {"get_project_status"}, NoSubject, {}),
    Ask("list_teams", app, ann, {"list_teams"}, NoSubject, {}),
    Ask("add_comment", app, ann, {"get_issue"}, NoSubject, {}),
    Ask("add_comment", app, ann, {"add_comment"}, NoSubject, {"organization"}),
    Ask("create_issue", app, ann, {"create_issue"}, NoSubject, {"parent"}),
    Ask("create_issue", app, bob, {"create_issue"}, NoSubject, {}),
    Ask("apply_retention", privacy, NoSubject, {}, NoSubject, {}),
    Ask("collect_export", privacy, NoSubject, {}, NoSubject, {"scope"}) }

Posted(tool, subject, credential, kind, audience, body) ==
  [tool |-> tool, credential |-> credential, kind |-> kind, subject |-> subject,
   audience |-> audience, body |-> body, assignee |-> NoSubject, defects |-> {}]

Everything == {"execute", "set_issue_assignee", "list_issues", "update_issue"}

MCPosts ==
  { Posted(AssignSelf, ann, "session", "user", Everything, "decodes"),
    Posted(AssignSelf, ann, "session", "user", {"set_issue_assignee"}, "decodes"),
    Posted("projects_set_issue_assignee", ann, "session", "user", Everything, "decodes"),
    Posted("projects_update_issue", ann, "session", "user", Everything, "decodes"),
    Posted("projects_list_issues", ann, "session", "user", Everything, "decodes"),
    Posted("projects_list_issues", ann, "session", "service", Everything, "decodes"),
    Posted("projects_list_issues", ann, "rejected", "user", Everything, "decodes"),
    Posted("projects_list_issues", ann, "session", "user", Everything, "too_large"),
    Posted("projects_list_issues", ann, "session", "user", Everything, "malformed"),
    Posted("projects_list_issues", ann, "session", "user", Everything,
           "undecodable_arguments"),
    Posted("unknown", ann, "session", "user", Everything, "decodes") }

VARIABLE workload

\* One tool request, or one direct request, while rights come and go and an
\* assertion expires; or three requests for two connections while the plugin
\* is deactivated and activated again.
Active == [tool |-> {r1}, direct |-> {r2}, pool |-> {r2, r3, r4}]
Pooled(r) == IF r = r4 THEN "set_issue_assignee" ELSE "list_projects"

MCInit == GatewayInit /\ workload \in DOMAIN Active

MCNext ==
  /\ GatewayNext
  /\ \A r \in Arrivals : phase'[r] # "idle" => r \in Active[workload]
  /\ hop'[r1] # "idle" => r1 \in Active[workload]
  /\ workload = "tool" => rights' \cup {<<ann, "member">>} = MCRights
  /\ workload = "pool" =>
       /\ rights' = rights /\ expired' = expired
       /\ phase'[r3] # "idle" => phase[r2] # "idle"
       /\ \A r \in Arrivals :
            phase'[r] = "received" => call'[r].operation = Pooled(r)
  /\ UNCHANGED workload

MCSpec ==
  /\ MCInit /\ [][MCNext]_<<allVars, workload>>
  /\ Fairness /\ \A r \in ToolRequests : WF_allVars(Relay(r))

=============================================================================
