--------------------------- MODULE ProjectStatuses ---------------------------
(***************************************************************************)
(* The Project status catalog of an organization and the projects that      *)
(* refer to it.  The catalog comes into being with the first command that   *)
(* needs it; afterwards administrators edit, archive, delete and reorder    *)
(* its statuses while create_project and update_project refer to them.      *)
(* Each action is one statement of a READ COMMITTED transaction that locks  *)
(* or reads; the commit publishes what the transaction wrote.               *)
(*                                                                         *)
(* As in WorkflowCatalog, the command receipt, the activity record and the  *)
(* revision compare-and-set are left to CommandPipeline: Abort is a failed  *)
(* compare-and-set, as it is any refusal, error or crash.  What             *)
(* update_project does to the teams of the project is in IssueTeams.        *)
(***************************************************************************)
EXTENDS Naturals, FiniteSets, Functions

CONSTANTS
  Workers,       \* concurrent request handlers, one transaction each
  Statuses,      \* project status ids
  Projects,      \* project ids
  Categories,    \* the categories of the first catalog, one status of each
  Backlog, Completed, Canceled,   \* the categories the code tells apart
  Times,         \* values of transaction_timestamp()
  Rank,          \* the order of status ids (ORDER BY status_id)
  Fresh,         \* Fresh[w]: the ids w draws for the statuses of a catalog
  Workspace,     \* the project_workspaces row of the organization
  Absent,        \* no such row, or a NULL column
  DefaultStatus, \* a create_project request that names no status
  Requests       \* the request bodies clients send

StatusRow == [category : Categories, isDefault : BOOLEAN, archived : BOOLEAN]

ProjectRow == [status : Statuses, completed : Times \cup {Absent},
               canceled : Times \cup {Absent}]

\* put_project_status inserts without an expected_revision and updates with one.
Request ==
  [op : {"insert_status", "update_status"}, status : Statuses, category : Categories]
    \cup [op : {"archive_status"}, status : Statuses, archived : BOOLEAN]
    \cup [op : {"delete_status", "get_status"}, status : Statuses]
    \cup [op : {"reorder_statuses", "list_statuses"}]
    \cup [op : {"create_project"}, project : Projects,
          status : Statuses \cup {DefaultStatus}]
    \cup [op : {"update_project"}, project : Projects, status : Statuses]

StatusEdits == {"update_status", "archive_status", "delete_status"}
ProjectOps == {"create_project", "update_project"}

FreshIds(w) == Range(Fresh[w])

ASSUME AbsentAssumption ==
  /\ Absent \notin Statuses \cup StatusRow \cup ProjectRow \cup Times
  /\ DefaultStatus \notin Statuses
ASSUME CategoriesAssumption ==
  /\ Backlog \in Categories /\ Completed \in Categories /\ Canceled \in Categories
  /\ Backlog # Completed /\ Backlog # Canceled /\ Completed # Canceled
ASSUME WorkersAssumption == IsFiniteSet(Workers)
ASSUME TimesAssumption == Times # {}
ASSUME RankAssumption == Rank \in [Statuses -> Nat] /\ IsInjective(Rank)
ASSUME FreshAssumption ==
  /\ \A w \in Workers : Fresh[w] \in [Categories -> Statuses] /\ IsInjective(Fresh[w])
  /\ \A v, w \in Workers : v # w => FreshIds(v) \cap FreshIds(w) = {}
ASSUME RowsAssumption ==
  Statuses \cap Projects = {} /\ Workspace \notin Statuses \cup Projects
\* No client guesses a UUID before it is drawn.
ASSUME RequestsAssumption ==
  /\ Requests \subseteq Request /\ Requests # {}
  /\ \A r \in Requests : r.op = "insert_status" =>
       \A w \in Workers : r.status \notin FreshIds(w)

VARIABLES
  workspace,  \* committed default_project_status_id of the organization
  statuses,   \* committed project_statuses rows
  projects,   \* committed projects rows
  step,       \* what a worker does next
  request,    \* the request it serves
  default,    \* what ensure_project_status_catalog returned to it
  resolved,   \* the status resolve_project_status returned to it
  category,   \* and the category of that status
  pending,    \* the statuses a reorder has found but not yet locked
  exclusive,  \* the rows a worker has locked FOR UPDATE or written
  shared      \* the statuses it has locked FOR KEY SHARE

dbVars == <<workspace, statuses, projects>>
workerVars == <<step, request, default, resolved, category, pending, exclusive, shared>>
vars == <<dbVars, workerVars>>

-----------------------------------------------------------------------------

NoRequest == CHOOSE r \in Requests : TRUE

IsReferenced(s) == \E p \in Projects : projects[p] # Absent /\ projects[p].status = s

CanLock(w, row) ==
  \A v \in Workers \ {w} : row \notin exclusive[v] \cup shared[v]

CanShare(w, row) == \A v \in Workers \ {w} : row \notin exclusive[v]

At(w, s, ops) == step[w] = s /\ request[w].op \in ops

Goto(w, s) == step' = [step EXCEPT ![w] = s]

Lock(w, row) ==
  /\ CanLock(w, row)
  /\ exclusive' = [exclusive EXCEPT ![w] = @ \cup {row}]

\* The transaction has inserted the workspace and its first statuses.
Bootstraps(w) == Workspace \in exclusive[w]

FreshStatus(c) == [category |-> c, isDefault |-> c = Backlog, archived |-> FALSE]

\* The catalog as the transaction sees it.
Seen(w) ==
  [s \in Statuses |->
     IF Bootstraps(w) /\ s \in FreshIds(w)
     THEN FreshStatus(CHOOSE c \in Categories : Fresh[w][c] = s)
     ELSE statuses[s]]

Usable(ss, s) == ss[s] # Absent /\ ~ss[s].archived

-----------------------------------------------------------------------------

\* update_project reads the project's visibility before it begins.
Precheck(r) == r.op = "update_project" => projects[r.project] # Absent

Begin(w, r) ==
  /\ step[w] = "idle"
  /\ Precheck(r)
  /\ Goto(w, "begun")
  /\ request' = [request EXCEPT ![w] = r]
  /\ UNCHANGED <<dbVars, default, resolved, category, pending, exclusive, shared>>

EndTransaction(w) ==
  /\ Goto(w, "idle")
  /\ request' = [request EXCEPT ![w] = NoRequest]
  /\ default' = [default EXCEPT ![w] = Absent]
  /\ resolved' = [resolved EXCEPT ![w] = Absent]
  /\ category' = [category EXCEPT ![w] = Absent]
  /\ pending' = [pending EXCEPT ![w] = {}]
  /\ exclusive' = [exclusive EXCEPT ![w] = {}]
  /\ shared' = [shared EXCEPT ![w] = {}]

Abort(w) ==
  /\ step[w] # "idle"
  /\ EndTransaction(w)
  /\ UNCHANGED dbVars

\* A commit publishes the workspace the transaction has inserted.
PublishWorkspace(w) ==
  workspace' = IF Bootstraps(w) THEN default[w] ELSE workspace

(***************************************************************************)
(* ensure_project_status_catalog.  INSERT .. ON CONFLICT DO NOTHING waits   *)
(* for a transaction that has inserted the workspace and not yet committed; *)
(* if that one commits, the loser reads the default id of the winner.       *)
(***************************************************************************)

\* Defect: whoever finds no committed workspace brings a catalog of its own.
BootstrapCatalogUnlocked(w) ==
  /\ step[w] = "begun"
  /\ workspace = Absent
  /\ exclusive' = [exclusive EXCEPT ![w] = {Workspace} \cup FreshIds(w)]
  /\ default' = [default EXCEPT ![w] = Fresh[w][Backlog]]
  /\ Goto(w, "ensured")
  /\ UNCHANGED <<dbVars, request, resolved, category, pending, shared>>

BootstrapCatalog(w) ==
  /\ step[w] = "begun"
  /\ workspace = Absent
  /\ CanLock(w, Workspace)
  /\ exclusive' = [exclusive EXCEPT ![w] = {Workspace} \cup FreshIds(w)]
  /\ default' = [default EXCEPT ![w] = Fresh[w][Backlog]]
  /\ Goto(w, "ensured")
  /\ UNCHANGED <<dbVars, request, resolved, category, pending, shared>>

ReadDefault(w) ==
  /\ step[w] = "begun"
  /\ workspace # Absent
  /\ default' = [default EXCEPT ![w] = workspace]
  /\ Goto(w, "ensured")
  /\ UNCHANGED <<dbVars, request, resolved, category, pending, exclusive, shared>>

\* get_project_status: a status that is not found rolls the catalog back.
CommitGet(w) ==
  /\ At(w, "ensured", {"get_status"})
  /\ Seen(w)[request[w].status] # Absent
  /\ statuses' = Seen(w)
  /\ PublishWorkspace(w)
  /\ EndTransaction(w)
  /\ UNCHANGED projects

\* list_project_statuses reads its page after this commit.
CommitBootstrap(w) ==
  /\ At(w, "ensured", {"list_statuses"})
  /\ statuses' = Seen(w)
  /\ PublishWorkspace(w)
  /\ EndTransaction(w)
  /\ UNCHANGED projects

(***************************************************************************)
(* put_project_status of an existing status, archive_project_status and     *)
(* delete_project_status lock the row FOR UPDATE before anything is checked.*)
(***************************************************************************)
Retires(r) == r.op = "delete_status" \/ (r.op = "archive_status" /\ r.archived)

\* Defect: an update may change the category.
EditableAnyCategory(r, row) ==
  /\ row # Absent
  /\ Retires(r) => ~row.isDefault

\* What the locked row has to say for each operation.
Editable(r, row) ==
  /\ row # Absent
  /\ r.op = "update_status" => row.category = r.category
  /\ Retires(r) => ~row.isDefault

LockStatus(w) ==
  /\ At(w, "ensured", StatusEdits)
  /\ Lock(w, request[w].status)
  /\ Editable(request[w], Seen(w)[request[w].status])
  /\ Goto(w, IF Retires(request[w]) THEN "check references" ELSE "ready")
  /\ UNCHANGED <<dbVars, request, default, resolved, category, pending, shared>>

CheckReferences(w) ==
  /\ step[w] = "check references"
  /\ ~IsReferenced(request[w].status)
  /\ request[w].op = "delete_status" => Seen(w)[request[w].status].archived
  /\ Goto(w, "ready")
  /\ UNCHANGED <<dbVars, request, default, resolved, category, pending, exclusive, shared>>

\* A new status takes its id with ON CONFLICT DO NOTHING: it waits for a
\* transaction that inserts or deletes the id, then needs the id free.
InsertStatus(w) ==
  /\ At(w, "ensured", {"insert_status"})
  /\ Lock(w, request[w].status)
  /\ Seen(w)[request[w].status] = Absent
  /\ Goto(w, "ready")
  /\ UNCHANGED <<dbVars, request, default, resolved, category, pending, shared>>

\* What each operation makes of the row.
NewStatus(r) == [category |-> r.category, isDefault |-> FALSE, archived |-> FALSE]
PutStatus(r, row) == [row EXCEPT !.category = r.category]
ArchiveStatus(r, row) == [row EXCEPT !.archived = r.archived]

Edited(r, row) ==
  CASE r.op = "insert_status" -> NewStatus(r)
    [] r.op = "update_status" -> PutStatus(r, row)
    [] r.op = "archive_status" -> ArchiveStatus(r, row)
    [] r.op = "delete_status" -> Absent

\* The foreign key of projects has the last word on a DELETE.
CommitStatus(w) ==
  LET r == request[w]
  IN /\ At(w, "ready", StatusEdits \cup {"insert_status"})
     /\ r.op = "delete_status" => ~IsReferenced(r.status)
     /\ statuses' = [Seen(w) EXCEPT ![r.status] = Edited(r, @)]
     /\ PublishWorkspace(w)
     /\ EndTransaction(w)
     /\ UNCHANGED projects

(***************************************************************************)
(* reorder_project_statuses locks the unarchived statuses its SELECT found, *)
(* in the order of their ids.  The client has to have named exactly the     *)
(* rows that are still unarchived once locked; it may have named any.       *)
(***************************************************************************)
ReorderSelect(w) ==
  /\ At(w, "ensured", {"reorder_statuses"})
  /\ pending' = [pending EXCEPT ![w] = {s \in Statuses : Usable(Seen(w), s)}]
  /\ Goto(w, "lock rows")
  /\ UNCHANGED <<dbVars, request, default, resolved, category, exclusive, shared>>

\* Defect: the rows are locked in any order.
NextToLockAny(w) == pending[w]

NextToLock(w) ==
  {s \in pending[w] : \A other \in pending[w] : Rank[s] <= Rank[other]}

ReorderLock(w, s) ==
  /\ step[w] = "lock rows"
  /\ s \in NextToLock(w)
  /\ Lock(w, s)
  /\ pending' = [pending EXCEPT ![w] = @ \ {s}]
  /\ Goto(w, IF pending[w] = {s} THEN "ready" ELSE "lock rows")
  /\ UNCHANGED <<dbVars, request, default, resolved, category, shared>>

CommitReorder(w) ==
  /\ At(w, "ready", {"reorder_statuses"})
  /\ statuses' = Seen(w)
  /\ PublishWorkspace(w)
  /\ EndTransaction(w)
  /\ UNCHANGED projects

(***************************************************************************)
(* create_project and update_project: resolve_project_status locks the      *)
(* status FOR KEY SHARE, then the row is written with the times that follow *)
(* from the category of the status.                                         *)
(***************************************************************************)
Named(w) ==
  IF request[w].status = DefaultStatus THEN default[w] ELSE request[w].status

\* Defect: the status is validated without FOR KEY SHARE.
ResolveStatusUnlocked(w) ==
  /\ At(w, "ensured", ProjectOps)
  /\ CanShare(w, Named(w))
  /\ Usable(Seen(w), Named(w))
  /\ resolved' = [resolved EXCEPT ![w] = Named(w)]
  /\ category' = [category EXCEPT ![w] = Seen(w)[Named(w)].category]
  /\ Goto(w, "write project")
  /\ UNCHANGED <<dbVars, request, default, pending, exclusive, shared>>

ResolveStatus(w) ==
  /\ At(w, "ensured", ProjectOps)
  /\ CanShare(w, Named(w))
  /\ Usable(Seen(w), Named(w))
  /\ shared' = [shared EXCEPT ![w] = @ \cup {Named(w)}]
  /\ resolved' = [resolved EXCEPT ![w] = Named(w)]
  /\ category' = [category EXCEPT ![w] = Seen(w)[Named(w)].category]
  /\ Goto(w, "write project")
  /\ UNCHANGED <<dbVars, request, default, pending, exclusive>>

WriteProject(w) ==
  /\ step[w] = "write project"
  /\ Lock(w, request[w].project)
  /\ (request[w].op = "create_project") <=> (projects[request[w].project] = Absent)
  /\ Goto(w, "ready")
  /\ UNCHANGED <<dbVars, request, default, resolved, category, pending, shared>>

\* Defect: an update stamps the time again.
CompletionTimeReset(before, closes, now) == IF closes THEN now ELSE Absent

\* CASE WHEN closes THEN COALESCE(before, now) ELSE NULL END
CompletionTime(before, closes, now) ==
  CASE ~closes -> Absent
    [] closes /\ before = Absent -> now
    [] closes /\ before # Absent -> before

WrittenProject(before, s, c, now) ==
  [status    |-> s,
   completed |-> CompletionTime(before.completed, c = Completed, now),
   canceled  |-> CompletionTime(before.canceled, c = Canceled, now)]

NoTimes == [status |-> Absent, completed |-> Absent, canceled |-> Absent]

CommitProject(w, now) ==
  LET p == request[w].project
      before == IF projects[p] = Absent THEN NoTimes ELSE projects[p]
  IN /\ At(w, "ready", ProjectOps)
     /\ projects' = [projects EXCEPT ![p] =
          WrittenProject(before, resolved[w], category[w], now)]
     /\ statuses' = Seen(w)
     /\ PublishWorkspace(w)
     /\ EndTransaction(w)

-----------------------------------------------------------------------------

Step(w) ==
  \/ BootstrapCatalog(w) \/ ReadDefault(w) \/ CommitGet(w) \/ CommitBootstrap(w)
  \/ LockStatus(w) \/ CheckReferences(w) \/ InsertStatus(w) \/ CommitStatus(w)
  \/ ReorderSelect(w) \/ (\E s \in Statuses : ReorderLock(w, s)) \/ CommitReorder(w)
  \/ ResolveStatus(w) \/ WriteProject(w) \/ (\E now \in Times : CommitProject(w, now))

Init ==
  /\ workspace = Absent
  /\ statuses = [s \in Statuses |-> Absent]
  /\ projects = [p \in Projects |-> Absent]
  /\ step = [w \in Workers |-> "idle"]
  /\ request = [w \in Workers |-> NoRequest]
  /\ default = [w \in Workers |-> Absent]
  /\ resolved = [w \in Workers |-> Absent]
  /\ category = [w \in Workers |-> Absent]
  /\ pending = [w \in Workers |-> {}]
  /\ exclusive = [w \in Workers |-> {}]
  /\ shared = [w \in Workers |-> {}]

Next == \E w \in Workers : Step(w) \/ Abort(w) \/ \E r \in Requests : Begin(w, r)

Spec == Init /\ [][Next]_vars

-----------------------------------------------------------------------------
(***************************************************************************)
(* Correctness properties                                                   *)
(***************************************************************************)

Steps == {"idle", "begun", "ensured", "check references", "lock rows",
          "write project", "ready"}

(***************************************************************************)
(* Type invariant.                                                          *)
(***************************************************************************)
TypeOK ==
  /\ workspace \in Statuses \cup {Absent}
  /\ statuses \in [Statuses -> StatusRow \cup {Absent}]
  /\ projects \in [Projects -> ProjectRow \cup {Absent}]
  /\ step \in [Workers -> Steps]
  /\ request \in [Workers -> Requests]
  /\ default \in [Workers -> Statuses \cup {Absent}]
  /\ resolved \in [Workers -> Statuses \cup {Absent}]
  /\ category \in [Workers -> Categories \cup {Absent}]
  /\ pending \in [Workers -> SUBSET Statuses]
  /\ exclusive \in [Workers -> SUBSET ({Workspace} \cup Statuses \cup Projects)]
  /\ shared \in [Workers -> SUBSET Statuses]

(***************************************************************************)
(* Whichever of the first commands of an organization race to initialize    *)
(* its catalog (ensure_project_status_catalog), there is one catalog: no    *)
(* status exists before the workspace, and then exactly one status is the   *)
(* default, the one the workspace names, unarchived and of category         *)
(* backlog, whatever is edited, archived or deleted afterwards.             *)
(***************************************************************************)
CatalogHasOneDefault ==
  IF workspace = Absent
  THEN \A s \in Statuses : statuses[s] = Absent
  ELSE /\ Usable(statuses, workspace)
       /\ statuses[workspace].category = Backlog
       /\ \A s \in Statuses :
            statuses[s] # Absent => (statuses[s].isDefault <=> s = workspace)

(***************************************************************************)
(* archive_project_status and delete_project_status refuse a referenced     *)
(* status, and create_project and update_project an archived one; no race   *)
(* between them leaves a project with an archived or deleted status.        *)
(***************************************************************************)
StatusReferencesHold ==
  \A p \in Projects : projects[p] # Absent => Usable(statuses, projects[p].status)

(***************************************************************************)
(* completed_at and canceled_at follow the category of the project's        *)
(* current status, over any sequence of updates of the project and of the   *)
(* status: put_project_status cannot move a status to another category      *)
(* under the projects that have it.                                         *)
(***************************************************************************)
CompletionTimesFollow ==
  \A p \in Projects : projects[p] # Absent =>
    LET c == statuses[projects[p].status].category
    IN /\ (projects[p].completed # Absent) <=> (c = Completed)
       /\ (projects[p].canceled # Absent) <=> (c = Canceled)

(***************************************************************************)
(* The time a project was completed or canceled is set once: an update that *)
(* keeps it in the category (under any status of it) keeps the time.        *)
(***************************************************************************)
KeepsCompletionTime ==
  \A p \in Projects : projects[p] # Absent /\ projects'[p] # Absent =>
    LET old == projects[p]
        new == projects'[p]
    IN /\ old.completed # Absent /\ new.completed # Absent => new.completed = old.completed
       /\ old.canceled # Absent /\ new.canceled # Absent => new.canceled = old.canceled

CompletionTimeKept == [][KeepsCompletionTime]_vars

\* The rows a worker's next statement locks for update, or for key share.
WantsExclusive(w) ==
  CASE step[w] = "begun" /\ workspace = Absent -> {Workspace}
    [] At(w, "ensured", StatusEdits \cup {"insert_status"}) -> {request[w].status}
    [] step[w] = "lock rows" -> NextToLock(w)
    [] step[w] = "write project" -> {request[w].project}
    [] OTHER -> {}

WantsShare(w) == IF At(w, "ensured", ProjectOps) THEN {Named(w)} ELSE {}

Blockers(w) ==
  {v \in Workers \ {w} :
     \/ WantsExclusive(w) \cap (exclusive[v] \cup shared[v]) # {}
     \/ WantsShare(w) \cap exclusive[v] # {}}

(***************************************************************************)
(* No set of transactions waits for each other's rows: workspace, statuses  *)
(* in the order of their ids, project.  PostgreSQL would otherwise abort    *)
(* one of them with an error that is not the client's.                      *)
(***************************************************************************)
NoStatusDeadlock ==
  \A waiting \in SUBSET Workers :
    waiting # {} => \E w \in waiting : Blockers(w) \cap waiting = {}

=============================================================================
