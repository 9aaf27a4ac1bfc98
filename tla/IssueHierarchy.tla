--------------------------- MODULE IssueHierarchy ---------------------------
(***************************************************************************)
(* The parent of an issue, as create_issue and update_issue set it.         *)
(* Concurrent READ COMMITTED transactions; each action is one statement.    *)
(* Receipts, activity and the workflow state of the issue are the subject   *)
(* of CommandPipeline and WorkflowCatalog; Abort is any refusal, error or   *)
(* crash.                                                                   *)
(***************************************************************************)
EXTENDS Naturals

CONSTANTS
  Workers,   \* concurrent request handlers, one transaction each
  Issues,    \* issue ids
  Projects,  \* project ids
  Absent,    \* no such row
  NoParent,  \* NULL parent_issue_id
  Requests   \* the request bodies clients send

IssueRow == [project : Projects, parent : Issues \cup {NoParent}, revision : Nat \ {0}]

Request ==
  [op : {"create_issue"}, issue : Issues, project : Projects,
   parent : Issues \cup {NoParent}]
    \cup [op : {"update_issue"}, issue : Issues, parent : Issues \cup {NoParent},
          expected : Nat \ {0}]

ASSUME SentinelsAssumption == Absent \notin IssueRow \cup Issues /\ NoParent \notin Issues
ASSUME RequestsAssumption == Requests \subseteq Request /\ Requests # {}

VARIABLES
  issues,   \* committed issues rows
  step,     \* what a worker does next
  request,  \* the request it serves
  locked,   \* the issue row it has written
  stale,    \* history: another update has committed since its parent check
  raced     \* history: an update has committed on such a check

historyVars == <<stale, raced>>
vars == <<issues, step, request, locked, historyVars>>

-----------------------------------------------------------------------------

NoRequest == CHOOSE r \in Requests : TRUE

Exists(i) == issues[i] # Absent

Children(i) == {c \in Issues : Exists(c) /\ issues[c].parent = i}

\* What the recursive query collects: the least set that contains the children
\* of an issue and the children of its members.
Descendants(i) ==
  {d \in Issues : \A family \in SUBSET Issues :
     (\A m \in family \cup {i} : Children(m) \subseteq family) => d \in family}

\* UNION ALL keeps duplicates: a search that does not find the parent ends only
\* if no descendant is its own descendant.
QueryEnds(i) == \A d \in Descendants(i) : d \notin Descendants(d)

\* Defect: the parent is looked up in the whole organization.
ParentAnywhere(p, project) == p # NoParent => Exists(p)

\* issue_dependencies_exist: the parent is an issue of the same project.
ParentIn(p, project) == p # NoParent => Exists(p) /\ issues[p].project = project

Begin(w, r) ==
  /\ step[w] = "idle"
  /\ \/ r.op = "create_issue" /\ ParentIn(r.parent, r.project)
     \/ r.op = "update_issue" /\ Exists(r.issue)
          /\ ParentIn(r.parent, issues[r.issue].project)
  /\ request' = [request EXCEPT ![w] = r]
  /\ step' = [step EXCEPT ![w] = IF r.op = "create_issue" THEN "write" ELSE "check parent"]
  /\ UNCHANGED <<issues, locked, historyVars>>

\* Defect: only the children of the issue are looked at.
CheckChildren(w) ==
  /\ step[w] = "check parent"
  /\ request[w].parent \notin Children(request[w].issue)
  /\ step' = [step EXCEPT ![w] = "write"]
  /\ UNCHANGED <<issues, request, locked, historyVars>>

\* parent_would_create_cycle reads a snapshot and locks nothing.
CheckParent(w) ==
  /\ step[w] = "check parent"
  /\ request[w].parent # NoParent =>
       /\ QueryEnds(request[w].issue)
       /\ request[w].parent \notin Descendants(request[w].issue)
  /\ step' = [step EXCEPT ![w] = "write"]
  /\ UNCHANGED <<issues, request, locked, historyVars>>

NewRow(r) == [project |-> r.project, parent |-> r.parent, revision |-> 1]

\* INSERT .. ON CONFLICT DO NOTHING, or UPDATE .. WHERE revision = expected
\* under CHECK (parent_issue_id <> issue_id).
WriteIssue(w) ==
  LET r == request[w]
  IN /\ step[w] = "write"
     /\ \A v \in Workers \ {w} : locked[v] # r.issue
     /\ r.parent # r.issue
     /\ IF r.op = "create_issue" THEN ~Exists(r.issue)
                                 ELSE issues[r.issue].revision = r.expected
     /\ locked' = [locked EXCEPT ![w] = r.issue]
     /\ step' = [step EXCEPT ![w] = "commit"]
     /\ UNCHANGED <<issues, request, historyVars>>

EndTransaction(w) ==
  /\ step' = [step EXCEPT ![w] = "idle"]
  /\ request' = [request EXCEPT ![w] = NoRequest]
  /\ locked' = [locked EXCEPT ![w] = Absent]

Commit(w) ==
  LET r == request[w]
  IN /\ step[w] = "commit"
     /\ issues' = [issues EXCEPT ![r.issue] =
          IF r.op = "create_issue"
          THEN NewRow(r)
          ELSE [@ EXCEPT !.parent = r.parent, !.revision = issues[r.issue].revision + 1]]
     /\ raced' = (raced \/ stale[w])
     /\ stale' = [v \in Workers |->
          /\ v # w
          /\ \/ stale[v]
             \/ /\ r.op = "update_issue" /\ request[v].op = "update_issue"
                /\ step[v] \in {"write", "commit"}]
     /\ EndTransaction(w)

Abort(w) ==
  /\ step[w] # "idle"
  /\ EndTransaction(w)
  /\ stale' = [stale EXCEPT ![w] = FALSE]
  /\ UNCHANGED <<issues, raced>>

Init ==
  /\ issues = [i \in Issues |-> Absent]
  /\ step = [w \in Workers |-> "idle"]
  /\ request = [w \in Workers |-> NoRequest]
  /\ locked = [w \in Workers |-> Absent]
  /\ stale = [w \in Workers |-> FALSE]
  /\ raced = FALSE

Next ==
  \E w \in Workers :
    \/ \E r \in Requests : Begin(w, r)
    \/ CheckParent(w) \/ WriteIssue(w) \/ Commit(w) \/ Abort(w)

Spec == Init /\ [][Next]_vars

-----------------------------------------------------------------------------
(***************************************************************************)
(* Type invariant.                                                          *)
(***************************************************************************)
TypeOK ==
  /\ issues \in [Issues -> IssueRow \cup {Absent}]
  /\ step \in [Workers -> {"idle", "check parent", "write", "commit"}]
  /\ request \in [Workers -> Requests]
  /\ locked \in [Workers -> Issues \cup {Absent}]
  /\ stale \in [Workers -> BOOLEAN] /\ raced \in BOOLEAN

(***************************************************************************)
(* No issue is its own ancestor: update_issue answers InvalidRequest if the *)
(* parent would create a cycle (storage.rs:1378-1387).  Stated without      *)
(* paths: every non-empty set of issues has a member whose parent is        *)
(* outside of it.                                                           *)
(***************************************************************************)
NoParentCycle ==
  \A family \in SUBSET {i \in Issues : Exists(i)} :
    family # {} => \E i \in family : issues[i].parent \notin family

(***************************************************************************)
(* The check is sound as long as no other update_issue commits between the  *)
(* check of one and its commit: creating issues meanwhile does no harm, as  *)
(* an issue that does not exist yet has no children.                        *)
(***************************************************************************)
CyclesNeedARace == ~raced => NoParentCycle

(***************************************************************************)
(* The parent of an issue exists and is in the issue's project, although it *)
(* is looked up before the transaction begins and only its existence is a   *)
(* foreign key.                                                             *)
(***************************************************************************)
ParentsShareTheProject ==
  \A i \in Issues : Exists(i) /\ issues[i].parent # NoParent =>
    Exists(issues[i].parent) /\ issues[issues[i].parent].project = issues[i].project

-----------------------------------------------------------------------------
(***************************************************************************)
(* Why it works as far as it does.                                          *)
(***************************************************************************)

LocksExclude ==
  \A v, w \in Workers : v # w /\ locked[v] # Absent => locked[v] # locked[w]

\* What a handler has read before its transaction stays true.
RequestStands(w) ==
  LET r == request[w]
  IN step[w] # "idle" =>
       /\ r.op = "create_issue" => ParentIn(r.parent, r.project)
       /\ r.op = "update_issue" => Exists(r.issue) /\ ParentIn(r.parent, issues[r.issue].project)

\* Until another update commits, so does what its parent check has found.
CheckStands(w) ==
  /\ step[w] \in {"write", "commit"} /\ request[w].op = "update_issue" /\ ~stale[w] =>
       request[w].parent \notin Descendants(request[w].issue)
  /\ step[w] = "check parent" => request[w].op = "update_issue"

WriteStands(w) ==
  step[w] = "commit" =>
    /\ locked[w] = request[w].issue
    /\ request[w].parent # request[w].issue
    /\ request[w].op = "create_issue" => ~Exists(request[w].issue)

IInv ==
  /\ TypeOK /\ LocksExclude /\ ParentsShareTheProject /\ CyclesNeedARace
  /\ \A w \in Workers : RequestStands(w) /\ CheckStands(w) /\ WriteStands(w)

=============================================================================
