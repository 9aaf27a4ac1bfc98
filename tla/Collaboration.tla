---------------------------- MODULE Collaboration ----------------------------
(***************************************************************************)
(* Who sees what, and what hangs off projects and issues: comments, project *)
(* updates, assignees, external links and relations are written by subjects *)
(* who may lose sight of the place while they write, and clients walk the   *)
(* list_* pages of rows that are inserted, archived, moved and deleted      *)
(* between one page and the next.                                           *)
(*                                                                         *)
(* The receipt, the activity record and the revision compare-and-set every  *)
(* mutation shares are the subject of CommandPipeline: here a client may    *)
(* name any revision, so Abort is the failed compare-and-set as it is any   *)
(* refusal, error or crash.  Which teams a project and an issue have does   *)
(* not change here: that is the subject of IssueTeams.                      *)
(***************************************************************************)
EXTENDS Naturals, Sequences, SequencesExt, FiniteSets

CONSTANTS
  Workers,      \* concurrent handlers of mutations, one transaction each
  Readers,      \* clients that read, one request at a time
  Subjects, Teams, Projects, Issues,
  TeamsOf,      \* TeamsOf[p]: the teams a project is attached to
  TeamOf,       \* TeamOf[i]: the team of an issue
  ProjectOf,    \* ProjectOf[i]: its project
  Organization, \* where the rows are that belong to none of these
  Links,        \* external keys
  Relations,    \* relation ids
  Nobody,       \* no assignee
  Absent,       \* no such row
  PageLimit,    \* the limit of every page request
  MaxSeq,       \* how many rows are ever inserted
  MaxRevision,  \* how often a membership changes
  FirstPrivate, FirstMembers, FirstRecords,  \* the rows there are initially
  Requests,     \* the mutations clients send
  Walks         \* the collections clients read, page by page

Places == Issues \cup Projects \cup Teams \cup {Organization}

Tables == {"projects", "issues", "comments", "project_updates", "teams",
           "workflow_states", "project_statuses", "labels", "cycles",
           "milestones"}

\* A row of one of the listed tables: what it belongs to (a project and an
\* issue belong to themselves) and whether it is archived.
RecordRow == [table : Tables, at : Places, archived : BOOLEAN]
MemberRow == [active : BOOLEAN, revision : 1..MaxRevision]
\* Relations of one kind; the kind is part of the key as the issues are.
RelationRow == [issue : Issues, related : Issues, active : BOOLEAN]

Inserts == {"comments", "project_updates", "issues", "projects",
            "workflow_states", "project_statuses", "labels", "cycles",
            "milestones"}

Request ==
  [op : {"insert"}, table : Inserts, at : Places, actor : Subjects]
    \cup [op : {"archive"}, table : {"projects", "issues", "workflow_states",
          "project_statuses"}, at : Places, archived : BOOLEAN]
    \cup [op : {"delete"}, table : {"workflow_states", "project_statuses"}, at : Places]
    \cup [op : {"move_label"}, from : Places, at : Places]
    \cup [op : {"set_issue_assignee"}, actor : Subjects, at : Issues,
          assignee : Subjects \cup {Nobody}]
    \cup [op : {"put_external_link"}, actor : Subjects, at : Issues, link : Links]
    \cup [op : {"add_issue_relation"}, actor : Subjects, at : Issues,
          related : Issues, relation : Relations]
    \cup [op : {"remove_issue_relation"}, actor : Subjects, relation : Relations]
    \cup [op : {"set_team_member"}, at : Teams, subject : Subjects, active : BOOLEAN]
    \cup [op : {"put_team"}, at : Teams, private : BOOLEAN]

(***************************************************************************)
(* The list handlers: the table, whether visibility is a statement of its   *)
(* own before the page (check) or part of the page's SELECT (filter), and   *)
(* how the items are loaded after the SELECT: each by a statement, all by   *)
(* one, or not at all as the SELECT already has them.                       *)
(***************************************************************************)
Listing(table, check, filter, load) ==
  [table |-> table, check |-> check, filter |-> filter, load |-> load]

ListProjects == Listing("projects", FALSE, TRUE, "each")
ListIssues == Listing("issues", FALSE, TRUE, "all")
ListComments == Listing("comments", TRUE, FALSE, "each")
ListProjectUpdates == Listing("project_updates", TRUE, FALSE, "none")
ListTeams == Listing("teams", FALSE, FALSE, "each")
ListWorkflowStates == Listing("workflow_states", FALSE, FALSE, "each")
ListIssueWorkflowStates == Listing("workflow_states", FALSE, TRUE, "none")
ListProjectStatuses == Listing("project_statuses", FALSE, FALSE, "each")
ListLabels == Listing("labels", FALSE, FALSE, "none")
ListCycles == Listing("cycles", FALSE, FALSE, "none")
ListMilestones == Listing("milestones", FALSE, FALSE, "none")
\* The get handlers read one row as a page that has no other.
GetProject == Listing("projects", TRUE, FALSE, "none")
GetIssue == Listing("issues", TRUE, FALSE, "none")

Listings == {ListProjects, ListIssues, ListComments, ListProjectUpdates,
             ListTeams, ListWorkflowStates, ListIssueWorkflowStates,
             ListProjectStatuses, ListLabels, ListCycles, ListMilestones,
             GetProject, GetIssue}

Walk == [list : Listings, at : Places, actor : Subjects, archived : BOOLEAN]

\* Ids of different kinds differ, and a row is there or not.
ASSUME PlacesAssumption ==
  /\ Issues \cap (Projects \cup Teams) = {} /\ Projects \cap Teams = {}
  /\ Organization \notin Issues \cup Projects \cup Teams
ASSUME AbsentAssumption == Absent \notin RecordRow \cup RelationRow
ASSUME HandlersAssumption == Workers \cap Readers = {}
ASSUME HomesAssumption ==
  /\ TeamsOf \in [Projects -> SUBSET Teams]
  /\ TeamOf \in [Issues -> Teams] /\ ProjectOf \in [Issues -> Projects]
  /\ \A i \in Issues : TeamOf[i] \in TeamsOf[ProjectOf[i]]
ASSUME RequestsAssumption ==
  /\ Requests \subseteq Request /\ Requests # {}
  /\ Walks \subseteq Walk /\ Walks # {}
  /\ \A r \in Requests : r.op = "add_issue_relation" => r.at # r.related
\* A project or an issue is read whether it is archived or not.
ASSUME GetsAssumption == \A k \in Walks : k.list \in {GetProject, GetIssue} => k.archived
ASSUME BoundsAssumption == PageLimit \in Nat \ {0} /\ MaxSeq \in Nat /\ MaxRevision \in Nat \ {0}
ASSUME FirstAssumption ==
  /\ FirstPrivate \subseteq Teams
  /\ FirstMembers \in [Teams \X Subjects -> MemberRow \cup {Absent}]
  /\ FirstRecords \in Seq(RecordRow) /\ Len(FirstRecords) <= MaxSeq

VARIABLES
  private,    \* the private teams
  members,    \* committed team_members rows
  records,    \* committed rows by row_seq
  nextSeq,    \* the next value of the sequence of row_seq
  assignee,   \* issues.assignee_subject
  links,      \* the issue of each committed issue_external_links row
  relations,  \* committed issue_relations rows
  step,       \* what a worker or reader does next
  request,    \* the request a worker serves
  checks,     \* the visibility checks it has still to make
  slot,       \* the row_seq it has drawn, or of the row it writes
  prior,      \* the team_members row it has read
  created,    \* whether its INSERT of an external link took effect
  exclusive,  \* the rows it has locked or inserted
  walk,       \* the collection a reader walks
  after,      \* the cursor of its next page
  page,       \* the rows the SELECT of its current page has found
  more,       \* whether that SELECT has found a row beyond the page
  loaded,     \* how many items of the page have been loaded
  met,        \* the rows answered in this walk
  old,        \* history: the rows its walk could have met ever since it began
  sight       \* history: what a request could see at one moment since it began

dbVars == <<private, members, records, nextSeq, assignee, links, relations>>
workerVars == <<request, checks, slot, prior, created, exclusive>>
readerVars == <<walk, after, page, more, loaded, met>>
vars == <<dbVars, step, workerVars, readerVars, old, sight>>

-----------------------------------------------------------------------------

(***************************************************************************)
(* Visibility, as the SQL of the handlers has it.                           *)
(***************************************************************************)
Sees(subject, t) ==
  t \in private =>
    members[<<t, subject>>] # Absent /\ members[<<t, subject>>].active

ProjectVisible(subject, p) ==
  ~ \E t \in TeamsOf[p] : ~Sees(subject, t)

\* Defect: the teams of the issue's project are forgotten.
IssueVisibleByTeam(subject, i) == Sees(subject, TeamOf[i])

IssueVisible(subject, i) ==
  Sees(subject, TeamOf[i]) /\ ProjectVisible(subject, ProjectOf[i])

Visible(subject, place) ==
  CASE place \in Issues -> IssueVisible(subject, place)
    [] place \in Projects -> ProjectVisible(subject, place)
    [] place \in Teams -> Sees(subject, place)
    [] OTHER -> TRUE

\* The subjects and places whose visibility a mutation checks, in order.
\* create_issue checks its project; create_project all its teams at once.
Checks(r) ==
  CASE r.op = "insert" /\ r.table \in {"comments", "project_updates", "projects"} ->
         <<[subject |-> r.actor, place |-> r.at]>>
    [] r.op = "insert" /\ r.table = "issues" ->
         <<[subject |-> r.actor, place |-> ProjectOf[r.at]]>>
    [] r.op = "put_external_link" -> <<[subject |-> r.actor, place |-> r.at]>>
    [] r.op = "set_issue_assignee" ->
         <<[subject |-> r.actor, place |-> r.at]>> \o
           (IF r.assignee = Nobody THEN <<>>
                                   ELSE <<[subject |-> r.assignee, place |-> r.at]>>)
    [] r.op = "add_issue_relation" ->
         <<[subject |-> r.actor, place |-> r.at], [subject |-> r.actor, place |-> r.related]>>
    [] r.op = "remove_issue_relation" ->
         <<[subject |-> r.actor, place |-> relations[r.relation].issue]>>
    [] OTHER -> <<>>

(***************************************************************************)
(* What a walk selects.                                                     *)
(***************************************************************************)
Within(place, at) ==
  \/ at \in {place, Organization}
  \/ place \in Projects /\ at \in TeamsOf[place]
  \/ place \in Issues /\ at \in {TeamOf[place], ProjectOf[place]}

\* Labels of the whole organization are listed for every team.
Selected(k, seq) ==
  LET row == records[seq]
  IN /\ row # Absent
     /\ row.table = k.list.table
     /\ Within(row.at, k.at) \/ (row.table = "labels" /\ row.at = Organization)
     /\ row.table \in {"projects", "issues"} => k.archived \/ ~row.archived
     /\ k.list.filter => Visible(k.actor, row.at)

\* What the reader's request asks to see: the place it names, or each row's.
Asked(k) ==
  {[subject |-> k.actor, place |-> p] :
     p \in IF k.list.check THEN {k.at} ELSE IF k.list.filter THEN Places ELSE {}}

\* Independently of the SQL: an active member of every private team that the
\* place is under.
TeamsAbove(place) ==
  CASE place \in Issues -> {TeamOf[place]} \cup TeamsOf[ProjectOf[place]]
    [] place \in Projects -> TeamsOf[place]
    [] place \in Teams -> {place}
    [] OTHER -> {}

Allowed(ask) ==
  \A t \in TeamsAbove(ask.place) \cap private :
    /\ members[<<t, ask.subject>>] # Absent
    /\ members[<<t, ask.subject>>].active

Asking(h) == IF h \in Workers THEN ToSet(Checks(request[h])) ELSE Asked(walk[h])

\* The histories follow every commit, after which Selected and Allowed are
\* evaluated in the new state.
Observe ==
  /\ old' = [r \in Readers |-> {seq \in old[r] : Selected(walk[r], seq)'}]
  /\ sight' = [h \in Workers \cup Readers |->
                 IF step[h] = "idle" \/ step'[h] = "idle" THEN {}
                 ELSE sight[h] \cup {a \in Asking(h) : Allowed(a)'}]

-----------------------------------------------------------------------------

At(w, s, ops) == step[w] = s /\ request[w].op \in ops

Goto(h, s) == step' = [step EXCEPT ![h] = s]

CanLock(w, row) == \A v \in Workers \ {w} : row \notin exclusive[v]

Lock(w, row) ==
  /\ CanLock(w, row)
  /\ exclusive' = [exclusive EXCEPT ![w] = @ \cup {row}]

NoRequest == CHOOSE r \in Requests : TRUE
NoWalk == CHOOSE k \in Walks : TRUE

Begin(w, r) ==
  /\ step[w] = "idle"
  /\ r.op = "remove_issue_relation" => relations[r.relation] # Absent
  /\ Goto(w, "begun")
  /\ request' = [request EXCEPT ![w] = r]
  /\ checks' = [checks EXCEPT ![w] = Checks(r)]
  /\ sight' = [sight EXCEPT ![w] = {a \in ToSet(Checks(r)) : Allowed(a)}]
  /\ UNCHANGED <<dbVars, slot, prior, created, exclusive, readerVars, old>>

CheckAccess(w) ==
  /\ step[w] = "begun" /\ checks[w] # <<>>
  /\ Visible(Head(checks[w]).subject, Head(checks[w]).place)
  /\ checks' = [checks EXCEPT ![w] = Tail(@)]
  /\ UNCHANGED <<dbVars, step, request, slot, prior, created, exclusive,
                 readerVars, old, sight>>

Granted(w, ops) == At(w, "begun", ops) /\ checks[w] = <<>>

EndTransaction(w) ==
  /\ Goto(w, "idle")
  /\ request' = [request EXCEPT ![w] = NoRequest]
  /\ checks' = [checks EXCEPT ![w] = <<>>]
  /\ slot' = [slot EXCEPT ![w] = 0]
  /\ prior' = [prior EXCEPT ![w] = Absent]
  /\ created' = [created EXCEPT ![w] = FALSE]
  /\ exclusive' = [exclusive EXCEPT ![w] = {}]

Abort(w) ==
  /\ step[w] # "idle"
  /\ EndTransaction(w)
  /\ sight' = [sight EXCEPT ![w] = {}]
  /\ UNCHANGED <<dbVars, readerVars, old>>

(***************************************************************************)
(* Rows with a row_seq.  An INSERT draws the number; the row is published   *)
(* when the transaction commits, and a rollback burns the number.  Two rows *)
(* of one project or issue do not exist.                                    *)
(***************************************************************************)
Names(row, table, at) == row # Absent /\ row.table = table /\ row.at = at

InsertRow(w) ==
  LET r == request[w]
      key == [table |-> r.table, at |-> r.at]
  IN /\ Granted(w, {"insert"})
     /\ nextSeq <= MaxSeq
     /\ r.table \in {"projects", "issues"} =>
          /\ CanLock(w, key)
          /\ ~ \E seq \in 1..MaxSeq : Names(records[seq], r.table, r.at)
     /\ slot' = [slot EXCEPT ![w] = nextSeq]
     /\ nextSeq' = nextSeq + 1
     /\ exclusive' = [exclusive EXCEPT ![w] =
          IF r.table \in {"projects", "issues"} THEN {key} ELSE {}]
     /\ Goto(w, "ready")
     /\ UNCHANGED <<private, members, records, assignee, links, relations, request,
                    checks, prior, created, readerVars, old, sight>>

Editable(w, seq) ==
  LET r == request[w]
  IN CASE r.op = "archive" -> Names(records[seq], r.table, r.at)
       [] r.op = "delete" -> Names(records[seq], r.table, r.at) /\ records[seq].archived
       [] r.op = "move_label" -> Names(records[seq], "labels", r.from)

LockRow(w, seq) ==
  /\ Granted(w, {"archive", "delete", "move_label"})
  /\ Lock(w, [seq |-> seq])
  /\ Editable(w, seq)
  /\ slot' = [slot EXCEPT ![w] = seq]
  /\ Goto(w, "ready")
  /\ UNCHANGED <<dbVars, request, checks, prior, created, readerVars, old, sight>>

CommitRow(w) ==
  LET r == request[w]
      row == records[slot[w]]
  IN /\ At(w, "ready", {"insert", "archive", "delete", "move_label"})
     /\ records' = [records EXCEPT ![slot[w]] =
          CASE r.op = "insert" -> [table |-> r.table, at |-> r.at, archived |-> FALSE]
            [] r.op = "archive" -> [row EXCEPT !.archived = r.archived]
            [] r.op = "delete" -> Absent
            [] r.op = "move_label" -> [row EXCEPT !.at = r.at]]
     /\ EndTransaction(w)
     /\ UNCHANGED <<private, members, nextSeq, assignee, links, relations, readerVars>>
     /\ Observe

(***************************************************************************)
(* set_issue_assignee.                                                      *)
(***************************************************************************)
LockIssue(w) ==
  /\ Granted(w, {"set_issue_assignee"})
  /\ Lock(w, request[w].at)
  /\ Goto(w, "ready")
  /\ UNCHANGED <<dbVars, request, checks, slot, prior, created, readerVars, old, sight>>

CommitAssignee(w) ==
  /\ At(w, "ready", {"set_issue_assignee"})
  /\ assignee' = [assignee EXCEPT ![request[w].at] = request[w].assignee]
  /\ EndTransaction(w)
  /\ UNCHANGED <<private, members, records, nextSeq, links, relations, readerVars>>
  /\ Observe

(***************************************************************************)
(* set_team_member reads the row FOR UPDATE.  When there is none it locks   *)
(* nothing, and its INSERT fails on the primary key if another one commits. *)
(***************************************************************************)
Member(w) == [team |-> request[w].at, subject |-> request[w].subject]
Stored(w) == members[<<request[w].at, request[w].subject>>]

\* Defect: the row is read without FOR UPDATE.
ReadMemberUnlocked(w) ==
  /\ Granted(w, {"set_team_member"})
  /\ prior' = [prior EXCEPT ![w] = Stored(w)]
  /\ Goto(w, "write_member")
  /\ UNCHANGED <<dbVars, request, checks, slot, created, exclusive, readerVars, old, sight>>

ReadMember(w) ==
  /\ Granted(w, {"set_team_member"})
  /\ prior' = [prior EXCEPT ![w] = Stored(w)]
  /\ IF Stored(w) = Absent THEN UNCHANGED exclusive ELSE Lock(w, Member(w))
  /\ Goto(w, "write_member")
  /\ UNCHANGED <<dbVars, request, checks, slot, created, readerVars, old, sight>>

\* The INSERT waits for the end of a transaction that has the key.
WriteMember(w) ==
  /\ At(w, "write_member", {"set_team_member"})
  /\ IF prior[w] # Absent /\ prior[w].active = request[w].active
       THEN UNCHANGED exclusive
       ELSE /\ Lock(w, Member(w))
            /\ prior[w] = Absent => Stored(w) = Absent
            /\ prior[w] # Absent => Stored(w).revision < MaxRevision
  /\ Goto(w, "ready")
  /\ UNCHANGED <<dbVars, request, checks, slot, prior, created, readerVars, old, sight>>

CommitMember(w) ==
  LET r == request[w]
  IN /\ At(w, "ready", {"set_team_member"})
     /\ members' = [members EXCEPT ![<<r.at, r.subject>>] =
          IF prior[w] = Absent THEN [active |-> r.active, revision |-> 1]
          ELSE IF prior[w].active = r.active THEN @
          ELSE [active |-> r.active, revision |-> @.revision + 1]]
     /\ EndTransaction(w)
     /\ UNCHANGED <<private, records, nextSeq, assignee, links, relations, readerVars>>
     /\ Observe

(***************************************************************************)
(* put_team changes whether a team is private.                              *)
(***************************************************************************)
LockTeam(w) ==
  /\ Granted(w, {"put_team"})
  /\ Lock(w, request[w].at)
  /\ Goto(w, "ready")
  /\ UNCHANGED <<dbVars, request, checks, slot, prior, created, readerVars, old, sight>>

CommitTeam(w) ==
  /\ At(w, "ready", {"put_team"})
  /\ private' = IF request[w].private THEN private \cup {request[w].at}
                                      ELSE private \ {request[w].at}
  /\ EndTransaction(w)
  /\ UNCHANGED <<members, records, nextSeq, assignee, links, relations, readerVars>>
  /\ Observe

(***************************************************************************)
(* put_external_link: INSERT ... ON CONFLICT DO NOTHING, then the row that  *)
(* is there is read FOR UPDATE and has to be of this issue.                 *)
(***************************************************************************)

\* Defect: whether the link is new is read before it is inserted.
InsertLinkUnlocked(w) ==
  /\ Granted(w, {"put_external_link"})
  /\ created' = [created EXCEPT ![w] = links[request[w].link] = Absent]
  /\ Goto(w, "read_link")
  /\ UNCHANGED <<dbVars, request, checks, slot, prior, exclusive, readerVars, old, sight>>

InsertLink(w) ==
  /\ Granted(w, {"put_external_link"})
  /\ CanLock(w, request[w].link)
  /\ created' = [created EXCEPT ![w] = links[request[w].link] = Absent]
  /\ exclusive' = [exclusive EXCEPT ![w] =
       IF links[request[w].link] = Absent THEN {request[w].link} ELSE {}]
  /\ Goto(w, "read_link")
  /\ UNCHANGED <<dbVars, request, checks, slot, prior, readerVars, old, sight>>

ReadLink(w) ==
  /\ At(w, "read_link", {"put_external_link"})
  /\ Lock(w, request[w].link)
  /\ ~created[w] => links[request[w].link] = request[w].at
  /\ Goto(w, "ready")
  /\ UNCHANGED <<dbVars, request, checks, slot, prior, created, readerVars, old, sight>>

CommitLink(w) ==
  /\ At(w, "ready", {"put_external_link"})
  /\ links' = [links EXCEPT ![request[w].link] = request[w].at]
  /\ EndTransaction(w)
  /\ UNCHANGED <<private, members, records, nextSeq, assignee, relations, readerVars>>
  /\ Observe

(***************************************************************************)
(* A relation is inserted unless its id or its pair of issues is taken, and *)
(* is deactivated, never deleted: the pair stays taken.                     *)
(***************************************************************************)
Pair(w) == [issue |-> request[w].at, related |-> request[w].related]

Taken(pair) ==
  \E x \in Relations : relations[x] # Absent
    /\ relations[x].issue = pair.issue /\ relations[x].related = pair.related

InsertRelation(w) ==
  /\ Granted(w, {"add_issue_relation"})
  /\ CanLock(w, request[w].relation) /\ CanLock(w, Pair(w))
  /\ relations[request[w].relation] = Absent /\ ~Taken(Pair(w))
  /\ exclusive' = [exclusive EXCEPT ![w] = {request[w].relation, Pair(w)}]
  /\ Goto(w, "ready")
  /\ UNCHANGED <<dbVars, request, checks, slot, prior, created, readerVars, old, sight>>

RemoveRelation(w) ==
  /\ Granted(w, {"remove_issue_relation"})
  /\ Lock(w, request[w].relation)
  /\ Goto(w, "ready")
  /\ UNCHANGED <<dbVars, request, checks, slot, prior, created, readerVars, old, sight>>

CommitRelation(w) ==
  /\ \/ /\ At(w, "ready", {"add_issue_relation"})
        /\ relations' = [relations EXCEPT ![request[w].relation] =
             [issue |-> request[w].at, related |-> request[w].related, active |-> TRUE]]
     \/ /\ At(w, "ready", {"remove_issue_relation"})
        /\ relations' = [relations EXCEPT ![request[w].relation].active = FALSE]
  /\ EndTransaction(w)
  /\ UNCHANGED <<private, members, records, nextSeq, assignee, links, readerVars>>
  /\ Observe

-----------------------------------------------------------------------------
(***************************************************************************)
(* The readers.  Each page is a request of its own, and its SELECT asks for *)
(* one row more than the limit to know whether there is a next page.        *)
(***************************************************************************)
StartWalk(h, k) ==
  /\ step[h] = "idle"
  /\ Goto(h, "ask")
  /\ walk' = [walk EXCEPT ![h] = k]
  /\ old' = [old EXCEPT ![h] = {seq \in 1..MaxSeq : Selected(k, seq)}]
  /\ sight' = [sight EXCEPT ![h] = {a \in Asked(k) : Allowed(a)}]
  /\ UNCHANGED <<dbVars, workerVars, after, page, more, loaded, met>>

CheckWalk(h) ==
  /\ step[h] = "ask" /\ walk[h].list.check
  /\ Visible(walk[h].actor, walk[h].at)
  /\ Goto(h, "select")
  /\ UNCHANGED <<dbVars, workerVars, readerVars, old, sight>>

Found(h) == {seq \in 1..MaxSeq : seq > after[h] /\ Selected(walk[h], seq)}

\* ORDER BY row_seq: the n-th row has n - 1 rows before it.
Ordered(rows) ==
  [n \in 1..Cardinality(rows) |->
     CHOOSE seq \in rows : Cardinality({other \in rows : other < seq}) = n - 1]

Items(rows) ==
  SubSeq(rows, 1, IF Len(rows) > PageLimit THEN PageLimit ELSE Len(rows))

\* list_issue_workflow_states answers that the team is not found when it is
\* not visible.
SelectPage(h) ==
  LET rows == Ordered(Found(h))
  IN /\ step[h] = IF walk[h].list.check THEN "select" ELSE "ask"
     /\ walk[h].list = ListIssueWorkflowStates => Visible(walk[h].actor, walk[h].at)
     /\ more' = [more EXCEPT ![h] = Len(rows) > PageLimit]
     /\ page' = [page EXCEPT ![h] = Items(rows)]
     /\ loaded' = [loaded EXCEPT ![h] =
          IF walk[h].list.load = "none" THEN Len(Items(rows)) ELSE 0]
     /\ Goto(h, "load")
     /\ UNCHANGED <<dbVars, workerVars, walk, after, met, old, sight>>

\* An item that has disappeared since the SELECT fails the request.
LoadItems(h) ==
  LET upTo == IF walk[h].list.load = "all" THEN Len(page[h]) ELSE loaded[h] + 1
  IN /\ step[h] = "load" /\ loaded[h] < Len(page[h])
     /\ \A n \in loaded[h] + 1..upTo : records[page[h][n]] # Absent
     /\ loaded' = [loaded EXCEPT ![h] = upTo]
     /\ UNCHANGED <<dbVars, step, workerVars, walk, after, page, more, met, old, sight>>

\* Defect: the cursor is that of the row beyond the page.
NextCursorBeyond(h) == Last(page[h]) + 1

NextCursor(h) == Last(page[h])

Answer(h) ==
  /\ step[h] = "load" /\ loaded[h] = Len(page[h])
  /\ met' = [met EXCEPT ![h] = @ \o page[h]]
  /\ page' = [page EXCEPT ![h] = <<>>]
  /\ loaded' = [loaded EXCEPT ![h] = 0]
  /\ more' = [more EXCEPT ![h] = FALSE]
  /\ IF more[h]
       THEN /\ after' = [after EXCEPT ![h] = NextCursor(h)]
            /\ sight' = [sight EXCEPT ![h] = {a \in Asked(walk[h]) : Allowed(a)}]
            /\ Goto(h, "ask")
       ELSE /\ sight' = [sight EXCEPT ![h] = {}]
            /\ Goto(h, "walked")
            /\ UNCHANGED after
  /\ UNCHANGED <<dbVars, workerVars, walk, old>>

\* A refusal or an error, or the reader starts over.
StopWalk(h) ==
  /\ step[h] # "idle"
  /\ Goto(h, "idle")
  /\ walk' = [walk EXCEPT ![h] = NoWalk]
  /\ after' = [after EXCEPT ![h] = 0]
  /\ page' = [page EXCEPT ![h] = <<>>]
  /\ more' = [more EXCEPT ![h] = FALSE]
  /\ loaded' = [loaded EXCEPT ![h] = 0]
  /\ met' = [met EXCEPT ![h] = <<>>]
  /\ old' = [old EXCEPT ![h] = {}]
  /\ sight' = [sight EXCEPT ![h] = {}]
  /\ UNCHANGED <<dbVars, workerVars>>

-----------------------------------------------------------------------------

Write(w) ==
  \/ CheckAccess(w) \/ InsertRow(w) \/ (\E seq \in 1..MaxSeq : LockRow(w, seq))
  \/ CommitRow(w) \/ LockIssue(w) \/ CommitAssignee(w)
  \/ ReadMember(w) \/ WriteMember(w) \/ CommitMember(w)
  \/ LockTeam(w) \/ CommitTeam(w)
  \/ InsertLink(w) \/ ReadLink(w) \/ CommitLink(w)
  \/ InsertRelation(w) \/ RemoveRelation(w) \/ CommitRelation(w)

Read(h) ==
  CheckWalk(h) \/ SelectPage(h) \/ LoadItems(h) \/ Answer(h) \/ StopWalk(h)

Init ==
  /\ private = FirstPrivate /\ members = FirstMembers
  /\ records = [seq \in 1..MaxSeq |->
       IF seq <= Len(FirstRecords) THEN FirstRecords[seq] ELSE Absent]
  /\ nextSeq = Len(FirstRecords) + 1
  /\ assignee = [i \in Issues |-> Nobody]
  /\ links = [k \in Links |-> Absent]
  /\ relations = [x \in Relations |-> Absent]
  /\ step = [h \in Workers \cup Readers |-> "idle"]
  /\ request = [w \in Workers |-> NoRequest]
  /\ checks = [w \in Workers |-> <<>>]
  /\ slot = [w \in Workers |-> 0]
  /\ prior = [w \in Workers |-> Absent]
  /\ created = [w \in Workers |-> FALSE]
  /\ exclusive = [w \in Workers |-> {}]
  /\ walk = [h \in Readers |-> NoWalk]
  /\ after = [h \in Readers |-> 0]
  /\ page = [h \in Readers |-> <<>>]
  /\ more = [h \in Readers |-> FALSE]
  /\ loaded = [h \in Readers |-> 0]
  /\ met = [h \in Readers |-> <<>>]
  /\ old = [h \in Readers |-> {}]
  /\ sight = [h \in Workers \cup Readers |-> {}]

Next ==
  \/ \E w \in Workers : Write(w) \/ Abort(w) \/ \E r \in Requests : Begin(w, r)
  \/ \E h \in Readers : Read(h) \/ \E k \in Walks : StartWalk(h, k)

Spec == Init /\ [][Next]_vars

-----------------------------------------------------------------------------
(***************************************************************************)
(* Correctness properties                                                   *)
(***************************************************************************)

(***************************************************************************)
(* Type invariant.                                                          *)
(***************************************************************************)
TypeOK ==
  /\ private \subseteq Teams
  /\ members \in [Teams \X Subjects -> MemberRow \cup {Absent}]
  /\ records \in [1..MaxSeq -> RecordRow \cup {Absent}]
  /\ nextSeq \in 1..MaxSeq + 1
  /\ assignee \in [Issues -> Subjects \cup {Nobody}]
  /\ links \in [Links -> Issues \cup {Absent}]
  /\ relations \in [Relations -> RelationRow \cup {Absent}]
  /\ step \in [Workers \cup Readers ->
       {"idle", "begun", "write_member", "read_link", "ready",
        "ask", "select", "load", "walked"}]
  /\ request \in [Workers -> Requests] /\ walk \in [Readers -> Walks]
  /\ slot \in [Workers -> 0..MaxSeq] /\ after \in [Readers -> 0..MaxSeq]
  /\ \A w \in Workers : Len(checks[w]) <= 2
  /\ \A h \in Readers : Len(page[h]) <= PageLimit /\ loaded[h] <= Len(page[h])
  /\ prior \in [Workers -> MemberRow \cup {Absent}]
  /\ created \in [Workers -> BOOLEAN] /\ more \in [Readers -> BOOLEAN]
  /\ old \in [Readers -> SUBSET (1..MaxSeq)]

(***************************************************************************)
(* A client that follows next_cursor to the end has met every row that was  *)
(* in the collection when it began and has been there and visible ever      *)
(* since, once and in order, whatever is inserted, archived, deleted or     *)
(* hidden between two pages: the list_* handlers cut their pages by row_seq *)
(* with one row of lookahead.                                               *)
(***************************************************************************)
PagesMeetEveryOldRow ==
  \A h \in Readers : step[h] = "walked" =>
    /\ old[h] \subseteq ToSet(met[h])
    /\ \A m, n \in DOMAIN met[h] : m < n => met[h][m] < met[h][n]

(***************************************************************************)
(* docs/issue-assignment.md:8-11, plugin-card.md:46: nobody writes to a     *)
(* place, is assigned to an issue or is served a row unless the subject was *)
(* an active member of every private team above it at some moment of the    *)
(* request, although handlers check on the pool, in several statements,     *)
(* before the transaction or the page that relies on it.                    *)
(***************************************************************************)
AccessWasAllowed ==
  /\ \A w \in Workers : step[w] # "idle" =>
       ToSet(Checks(request[w])) \subseteq sight[w] \cup ToSet(checks[w])
  /\ \A h \in Readers : step[h] = "load" =>
       /\ walk[h].list.check => Asked(walk[h]) \subseteq sight[h]
       /\ walk[h].list.filter => \A seq \in ToSet(page[h]) : records[seq] # Absent =>
            [subject |-> walk[h].actor, place |-> records[seq].at] \in sight[h]

(***************************************************************************)
(* The revision of a membership counts its changes: it is inserted with 1,  *)
(* and every later commit that touches it flips active and adds one, though *)
(* set_team_member reads, compares and writes in three statements.          *)
(***************************************************************************)
RevisionsCountChanges ==
  [][\A k \in Teams \X Subjects : members'[k] # members[k] =>
       IF members[k] = Absent THEN members'[k].revision = 1
       ELSE /\ members'[k].active # members[k].active
            /\ members'[k].revision = members[k].revision + 1]_members

(***************************************************************************)
(* An external key is answered as created by exactly the first command that *)
(* commits it and stays with that command's issue, and a pair of issues has *)
(* one relation, also while several clients insert it at once.              *)
(***************************************************************************)
KeysAreTakenOnce ==
  /\ \A w \in Workers : At(w, "ready", {"put_external_link"}) =>
       IF created[w] THEN links[request[w].link] = Absent
                     ELSE links[request[w].link] = request[w].at
  /\ \A x, y \in Relations :
       x # y /\ relations[x] # Absent /\ relations[y] # Absent =>
         \/ relations[x].issue # relations[y].issue
         \/ relations[x].related # relations[y].related

=============================================================================
