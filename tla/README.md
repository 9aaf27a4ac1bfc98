# Formal models of the Lenso Projects PostgreSQL plugin

TLA+ modules, TLC configurations and TLAPS proofs for
`crates/lenso-projects-postgres-plugin` and the two agent adapters in front of
it. Line numbers refer to `src/storage.rs` of that crate unless a file is named;
`001` is `migrations/001_create_projects.sql`. `PROJECT.json` lists, for every
definition, the lines it stands for; for every hazard of the code, the
properties that watch it.

## 1. The system

    agent web  ->  agent tools  ->  projects / collaboration / admin capabilities
    (HTTP)         (tool calls)                    |
                                     lib.rs: authorize, validate
                                                   |
                                     storage.rs: one transaction per command
                                                   |
                                               PostgreSQL
                                                   |
                     readers: get_*, list_*, list_activity, export, retention

Every handler is an async task of its own. Handlers, also those of one process,
share nothing but the database: all coordination is by PostgreSQL row locks,
unique indexes, foreign keys and one advisory lock, under READ COMMITTED.

| Component | State | Operations | What makes it correct |
|---|---|---|---|
| Mutation pipeline (75-191) | `project_commands`: one receipt per (caller, actor, operation, key) | `reserve_command`, `append_activity`, `complete_command`, commit | a command takes effect once, its answer is durable, no write is lost |
| Activity feed (157-191, 1754-1822) | `project_activity`, its identity sequence, the advisory gate | `append_activity`, `list_activity` | a checkpointing reader skips nothing; ids follow revisions |
| Single-row commands | one row with a revision | `archive_project`, `archive_issue`, `set_issue_assignee`, `update_comment`, `delete_comment` | as the pipeline |
| Workflow state catalog (2857-3360) | `workflow_states` | put, archive, unarchive, delete, reorder, get, list | the default and every referenced state stay usable |
| Teams (2472-2775) | `teams` (default state, key, counter, privacy), `team_members` | `put_team`, `set_team_member`, `list_teams` | a usable default; unique keys; membership decides visibility |
| Issues (974-1655) | `issues`, `issue_labels` | create, update, move, archive, assign, get, list | state, cycle, labels and team fit together |
| Issue hierarchy (506-522, 1013-1019, 1378) | `issues.parent_issue_id` | create and update | no cycles, parent in the project |
| Identifiers (482-489, 1091-1108, 1522-1536) | counter and key of a team, `issue_identifier_aliases` | allocate, rename, resolve | monotone, never reassigned, always resolvable |
| Projects and teams (565-972) | `projects`, `project_teams` | create, update, archive, get, list | the teams of a project cover its issues |
| Project status catalog (207-304, 3363-3850) | `project_workspaces`, `project_statuses` | bootstrap, put, archive, delete, reorder | one usable default; completion times follow the category |
| Visibility (344-383, 524-548) | private teams, members | read before each transaction | nobody sees or changes what is hidden |
| Comments, updates, relations, links (1656-2470) | one table each | add, update, delete, list | as the pipeline; a relation is unique |
| Cycles, milestones, labels (3854-4235) | one table each | put, list | references stay in the team or project |
| Collection pages | `row_seq` | `list_*` | paging meets every row |
| Export (4236-4615) | none | `collect_export` | complete and within the byte budget |
| Retention (4617-4671) | `project_retention_receipts` | `apply_retention` | the subject is gone, once |
| Authorization, lifecycle (`lib.rs`) | pool, trust configuration | `authorize`, `activate`, ... | checks come before storage |
| Agent tools, agent web, generated contracts | none | translation | calls are translated one to one |

Interactions: every writer passes through the pipeline, so every writer meets
every other at the commit gate, and the readers of `list_activity` depend on the
order of its critical section. Issue handlers share workflow states with catalog
handlers (FOR KEY SHARE against FOR UPDATE), team rows with `put_team` (the
counter update against the rename), and `project_teams` with `update_project`
(a deferred foreign key). Export and retention are called by data governance
and touch the same rows without the pipeline.

Before the database there is a chain of calls without a transaction: the web
adapter authenticates a session, the tools adapter turns a tool into a request
of its own, the plugin asks two capabilities for membership and permission,
validates, clones the prepared connection pool and only then meets storage.
Meanwhile rights are withdrawn and the plugin is deactivated.

What is hard: two attempts under one key; the answer of a committed command
lost and retried; a process that dies between two statements; what a snapshot
showed being gone once a lock is granted; facts read on the pool before the
transaction begins; a client that pages through rows that come, go and are
hidden; an erasure beside writers of what it erases; locks taken in sequence and held to the commit; identity
sequences that move before the commit. `PROJECT.json` lists these hazards at
their lines.

## 2. The modules

| Module | Models |
|---|---|
| `CommandPipeline` | the pipeline, the single-row commands, the feed and its consumers |
| `CommandLedger` | what the pipeline promises: atomic commands and an ordered feed |
| `WorkflowCatalog` | the workflow states of teams, the defaults and issues that point at them |
| `ProjectStatuses` | the first command of an organization, the status catalog, the projects that refer to it |
| `IssueTeams` | what ties an issue to teams: project teams, labels, cycles, milestones, and the locks of it all |
| `IssueHierarchy` | the parents of issues |
| `IssueIdentifiers` | team keys and counters, issue identifiers and aliases |
| `Collaboration` | visibility, memberships, links, relations, assignees, and the pages of all `list_*` handlers |
| `Governance` | `apply_retention` and `collect_export` beside commands of the subject |
| `Ingress` | callers, assertions, rights, validation, the pool and its lifecycle (`lib.rs`) |
| `AgentGateway` | both agent adapters, composed with `Ingress` |
| `...Proofs` | theorems about the module named; `BoundaryProofs`: about `IssueIdentifiers` and `AgentGateway` |
| `MC...` | requests, scopes and initial rows of the model-checked instances |

How they compose. `CommandPipeline` is what every mutation does around its
statements, with the receipt, the gate and the activity record; the modules of
single components leave those to it and let `Abort` stand for its refusals, so
whatever they show holds for every outcome of the pipeline. `AgentGateway`
extends `Ingress`: its `ExecuteTool` is a `Submit` there and its `RelayAnswer`
reads the answer there. `IssueTeams` contains the commit gate again, because
the locks of its handlers are taken around it.

Conventions. One action is one SQL statement, or one awaited call outside of
the database. A worker is a task with its transaction: what it wrote stays in
its own variables (drafts, or the request itself) until its commit publishes
it. A lock variable says who has written or locked a row or index entry; a
statement that meets it is not enabled, which is PostgreSQL's wait, and reads
the committed row once it is, which is READ COMMITTED's re-evaluation of a
WHERE clause. `Abort` (`Fail` and `Rollback` in the pipeline) is every way a
transaction can end without a commit: a refusal, a constraint, a lost
connection, a cancelled request, the victim of a deadlock. A crash of the whole
process is every worker aborting; it needs no action of its own, since workers
share no memory. Clients name any revision. A client that names one which does
not exist yet has guessed it, and its request may come true: where that matters
(`IssueTeams`, `Governance`), the model keeps the distance between the expected
and the present revision, and history tells what a guess has written. Definitions marked "Defect" are variants of the
code with a plausible bug. No specification uses them: each shows that a
property would catch it.

### CommandPipeline and CommandLedger

| TLA+ | Code |
|---|---|
| `ledger`, `rows`, `feed`, `nextActivity` | `project_commands`; `projects`, `issues`, `comments`; `project_activity`; its identity sequence |
| `commandLock`, `rowLock`, `gate` | the receipt's row or index lock, a row lock, `pg_advisory_xact_lock` |
| `Submit` | a request reaching `begin`, its earlier checks passed (e.g. 4769-4809) |
| `ReserveInsert`, `ReserveLookup` | `reserve_command`'s INSERT .. ON CONFLICT and SELECT .. FOR UPDATE (75-123) |
| `UpdateRow`, `Matches`, `Written` | UPDATE .. WHERE revision = expected (e.g. 925-942) |
| `AcquireGate`, `AppendActivity` | `append_activity` (157-191) |
| `CompleteCommand`, `Commit`, `CommitReplay`, `Reply` | `complete_command` (125-151), commit, the answer |
| `LoseReply`, `Fail`, `Rollback` | a lost answer, a failure inside the transaction, its rollback |
| `FetchPage`, `SaveCheckpoint`, `ConsumerCrash` | `list_activity` (1754-1822) and a reader as README.md:25-31 describes it |

`CommandLedger` has one step per command (`Apply`), answers only from the
ledger, and delivers activity in order without gaps. `ImplementsLedger` says
that the pipeline, seen through the same `ledger`, `rows`, `feed`, `answers` and
`delivered`, does nothing else: a commit is an `Apply`, a reply an `Answer`, a
checkpoint a `Deliver`, every other step a stutter. The five operations whose
handler is exactly the pipeline around one compare-and-set are modelled;
`closed` stands for archived or deleted, `content` for the assignee or body.

### WorkflowCatalog

`teams`, `states`, `issues` are committed rows; `exclusive` and `shared` are a
worker's FOR UPDATE (or written) rows and its FOR KEY SHARE states; `pending`
holds what a SELECT has found and not yet locked. `LockState`, `CheckDefault`,
`CheckReferences` and the commits are the statements of
`archive_workflow_state` (3142-3246) and `delete_workflow_state` (3247-3360);
`InsertState` and `CommitState` are `put_workflow_state` (2857); `ReorderSelect`
and `ReorderLock` are the ordered locking of `reorder_workflow_states` (2973);
`ShareDefault`, `UpdateTeam`, `InsertTeam` are `put_team` (2540);
`ResolveState`, `ShareState` are `resolve_issue_workflow_state` (306-342), with
the gap between the snapshot and the lock; `BumpCounter` and `WriteIssue` finish
the issue handlers. The revision compare-and-set succeeds or aborts freely:
clients may name any revision, so this only adds behaviours.

### ProjectStatuses

`workspace` is the `project_workspaces` row, by the status it names as the
default; `statuses` and `projects` are committed rows. `BootstrapCatalog`,
`ReadDefault` and `CommitBootstrap` are `ensure_project_status_catalog`
(207-286): the INSERT .. ON CONFLICT DO NOTHING of the workspace decides who
creates the catalog, the loser waits for the winner and reads what it
committed. `Fresh[w]` are the ids the winner draws. `LockStatus`,
`CheckReferences`, `InsertStatus`, `CommitStatus` are the administrators'
handlers, `ReorderSelect` and `ReorderLock` the ordered locking of a reorder,
`ResolveStatus` and `WriteProject` the status part of `create_project` and
`update_project`. `CommitProject` chooses the value of
`transaction_timestamp()`; `CompletionTime` is the CASE of 814-825.

### IssueTeams

`attached` is `project_teams`, `owner` tells whose a label, cycle or milestone
is. Row locks have three strengths, since here it matters which of them meet:
`exclusive`, `written`, `shared`. `CheckCover`, `WriteProject`, `ShareLead`,
`ReplaceTeams`, `InsertTeam` and `CommitTeams` are `update_project`: it finds no
issue of a team it drops, writes the project and locks a new lead FOR KEY SHARE
(818), deletes all its teams (833), inserts the named ones, each with a FOR KEY
SHARE lock of its team (839-849), and the deferred foreign keys are checked at
its commit. `RenameTeam` and `WriteTeam` are what `put_team` locks before it asks
for the gate (2598, 2615): the row as for a deletion when its key changes, since
the key is in a unique index. `ShareOwner` is the foreign key of a label, cycle
or milestone on its team or project.
`CountIssue`, `InsertIssue`, `MoveIssue`, `StripLabels`, `AttachLabel`,
`UpdateIssue` are the statements of the issue handlers. `Precheck` in `Begin`
is what the handlers read on the pool before the transaction; `before` and
`carried` is what they remember of it. `AcquireGate`, `AppendActivity` are
`append_activity` with the key-share lock of its foreign key. `gap` is an
expected revision less the present one, at most `MaxAhead`; -1 stands for all
that are behind. Each publication lowers it, and the compare-and-set succeeds at
0. `overtaken` are those whose `project_teams` row was deleted as they waited for
it: they fail even if an equal row has been inserted. `retargeted` (labels
`put_label` has given another team), `guesses` (the workers that began with a gap
above 0) and `guessed` (the issues whose labels such an `update_issue` has
chosen) are history.

### IssueHierarchy

`CheckParent` is `parent_would_create_cycle` (506-522): `Descendants` is the
recursive query's result as a least fixed point, and `QueryEnds` says when its
UNION ALL ends without meeting the parent. `WriteIssue` is the compare-and-set
or the INSERT, under the revision and the CHECK of 001:208. `stale` and `raced`
are history: which update_issue has checked its parent before another
update_issue committed, and whether one such has committed. No guard reads them.

### IssueIdentifiers

`Allocate` is the counter's UPDATE .. RETURNING team_key (1091, 1522), which
locks the team's row; `WriteIssue` and `StoreAlias` are the two INSERTs (or the
UPDATE and the INSERT) with their unique indexes as `indexLock`; `WriteTeam` is
`put_team`'s INSERT or UPDATE of the key, after the lookup on the pool in
`Begin` (2546). `Resolve` is `resolve_issue_id`. An identifier is a pair of key
and number: a key has no dash (001:17), so formatting is injective. Issue ids
and identifiers share the space of references, since `valid_id` accepts both.
The `team` of an alias is history.

### Collaboration

`private` and `members` decide `Sees`, `ProjectVisible` and `IssueVisible`
(344-383, 524-548); `records` holds the rows of every listed table by `row_seq`.
`Checks` lists the visibility queries of a mutation in their order; each is a
step of its own before the transaction's first statement. A reader walks a
collection: `StartWalk`, `CheckWalk`, `SelectPage` (one row of lookahead),
`LoadItems` (one SELECT per row, or one for all, or none, by the handler),
`Answer` with `NextCursor`. The eleven list handlers and the two get handlers
differ by four settings of `Listing`: the table, a check before the page, a
filter inside the SELECT, how items are loaded. `ReadMember`, `WriteMember`,
`CommitMember` are `set_team_member` with its three statements; `InsertLink`,
`ReadLink`, `InsertRelation`, `RemoveRelation` the INSERT .. ON CONFLICT and
UNIQUE constraints of links and relations (001:265, 280). The gets find archived
rows, the lists by default do not. `old` and `sight` are history: the
rows a walk could have met ever since it began, and what a request could see at
one moment of its life. Comments and updates check visibility; so a row in
`records` is what a list returns, and `archived` is archived or deleted.

### Governance

Commands write comments, updates and assignments; an attempt of
`apply_retention` (4617-4671) reads its receipt, then finds and rewrites the
rows of four tables one statement after the other (`SelectRows`, `EraseRow`,
`EndStatement`), stores the receipt and commits; an exporter
(4236-4615) opens a section, fetches a page, writes row after row within the
budget. `ahead` and `outdated` compare the revision a client names with the row's:
`UpdateRow` needs them equal and, like the UPDATE (1977), does not look at the
author again, who was compared in `Begin`. `eligible` (what carried the subject
when an attempt began), `stable` (what the subject has owned ever since an export
began), `guesses` and `guessed` (who has named a revision before it existed, and
the comments whose body such an `update_comment` has written) are history.
`Octets` and `RowBytes` separate what `octet_length` sees from what the encoded
row takes.

### Ingress and AgentGateway

`Handlers` has one record per handler of the plugin, 47 in all: its allowlist,
its permission, the defects its validation refuses, the errors its answer can
name, the connections its storage function takes one after the other. A request
goes through `VerifyAssertion`, `CheckMembership`, `CheckPermission`,
`Validate`, `CheckAssignee`, `EnterStorage` (which clones the prepared pool),
then `Acquire` and `FinishUse` or `Commit` for each connection, and `Reply`.
`ErrorName` is the error macros: `IdentifierConflict` becomes
`RelationConflict` or `InvalidRequest` where a contract has no such error.
`Activate`, `BeginDeactivate` and `FinishDeactivate` are the lifecycle:
`prepared` is taken before `close()` is awaited, and `close()` waits for the
connections in use. `ChangeRight` and `Expire` are the world around it; `held`
is history: the rights there were since a request came in.

`AgentGateway` adds the web adapter (`AuthenticatePost`, `CheckBody`, `Respond`)
and the tools adapter (`Tools`, `SelfIsVerified`, `PluginCall`, `StatusOf`).
`Oversized` lists the operations whose answer may exceed what the web adapter
relays (agent-web `lib.rs`:310): the pages, and whatever answers with an issue,
which carries all its former identifiers (436). Such an answer of success becomes
413, whether or not a command has committed.

## 3. What the runs show

| Run | Question | Bounds | States |
|---|---|---|---|
| `pipeline_retries` | retries, races and key reuse: `ExactlyOnce`, `NoLostUpdate`, `FeedFollowsRevisions`, `AnswersAreRecorded`, `ImplementsLedger` | 3 workers, 1 key, 1 issue, 3 requests over 2 revisions | 52 thousand |
| `pipeline_feed` | does a resumed reader skip activity, do attempts end, is everything delivered beside burned ids: `NoSkippedActivity`, `AttemptsEnd`, `ActivityDelivered` under `FairSpec` | 2 workers, `archive_issue` and `delete_comment`, 1 consumer, pages of 1, up to 2 burned ids | 38 thousand |
| `workflow_catalog` | can a default be retired, does an issue's state stay usable, can catalog handlers deadlock: `DefaultsAreUsable`, `ReferencesAreUsable`, `NoDeadlock` | 3 workers; workloads: one team whose default changes, two teams and an issue that moves | 789 thousand |
| `project_statuses` | is there one usable default, do references and completion times hold, can these handlers deadlock: `CatalogHasOneDefault`, `StatusReferencesHold`, `CompletionTimesFollow`, `CompletionTimeKept`, `NoStatusDeadlock` | 2 workers, 7 status ids, 3 categories, 1 project, 2 times | 151 thousand |
| `issue_teams` | do teams, labels, cycles and milestones fit whatever races, and which commands can deadlock: `TeamsCoverIssues`, `AttachmentsFit`, `OnlyTeamChangesDeadlock` | 1 project, 2 teams, 1 issue, 1 label, cycle, milestone; workloads: 2 workers at once with revisions guessed one ahead, 3 with the commands that lock each other's rows | 938 thousand |
| `issue_parents` | `CyclesNeedARace`, `ParentsShareTheProject` | 2 workers, 3 issues, 2 projects, revision 1 | 857 thousand |
| `issue_race` | `NoParentCycle`: violated | 2 workers, 2 issues | 15-state trace |
| `issue_identifiers` | `AllocatedMonotonically`, `IdentifiersCarryTheKey`, `IdentifiersAreRecorded`, `NextIdentifierIsFree` | 2 workers, 2 teams, 2 keys, 2 issues, 2 numbers per team | 78 thousand |
| `spelled_ids` | `OldIdentifiersReadable`: violated | 2 workers, an issue id spelled like an identifier | 14-state trace |
| `collaboration` | does paging meet every row, was every access allowed, are keys taken once: `PagesMeetEveryOldRow`, `AccessWasAllowed`, `KeysAreTakenOnce`, `RevisionsCountChanges` | 2 workers, 1 reader, pages of 1, 12 rows; seven workloads | 432 thousand |
| `governance` | is a subject erased and exported completely beside its own writes: `EverythingOldIsErased`, `ErasedStaysErased`, `RetentionAnswersMatch`, `ExportIsComplete` | 2 workers, 2 attempts of one action, 1 exporter, pages of 2, a budget of 18, revisions guessed one ahead; three workloads | 751 thousand |
| `requests` | do the checks come before storage, is a closed pool quiet, does the status tell the outcome, does everything end: `StorageIsGuarded`, `ClosedMeansQuiet`, `StatusTells`, `GatewayEnds` | 4 requests, one of them a tool call, 2 connections, 2 activations; three workloads | 198 thousand |

Type invariants. `TypeOK` of the pipeline, the workflow catalog and the
identifiers is checked in their runs and proved; those of the hierarchy, the
project statuses, the issue teams and the gateway are proved, the last three as
parts of the inductive invariants. That of `Governance` has the types its proof
needs. That of `Collaboration` is proved too; no run spends a property on it.

Workloads. Several MC modules let each behaviour run one of several workloads: a
subset of the requests, chosen in the initial state. The state spaces add up
instead of multiplying, and a workload is chosen so that its requests can meet:
what is left out is only the interleaving of requests of different workloads.

Why the bounds are enough to be of interest. Three workers give a holder, a
waiter and a third that commits between the two; two are a check and the
transaction that invalidates it, and since a worker begins again after its
commit, any number of commits fits between two statements of the other. Two
revisions are needed for a write that follows a write, one key for a reuse with
another body. Two workers publishing at once are enough for a page cut below an
uncommitted id; pages of one make every row of a list and every record of the feed a page
boundary, and an export page of two with five rows has a full last page and a
short one. `MaxActivity` bounds the ids that a rollback may burn (each burned id
is a gap a reader may meet); commits are not bounded by it. It is 1 in
`pipeline_retries`, where no id is burned, and 3 in `pipeline_feed`, where up to
two attempts fail after their append and the reader meets two gaps, in front of a
committed id or between two of them; that run has one consumer, of the whole
feed, and the theorem `CheckpointsSkipNothing` covers every scope and bound.
`MaxAhead` is how far a client guesses: a guess that one commit brings about is
1, in `issue_teams` by any worker and in `governance` by one that edits a comment
beside a retention action. The second workload of `issue_teams` guesses nothing,
as locks do not depend on it; its three workers are what the longest of the
circles below takes. `MaxSeq` bounds the rows ever
inserted, `MaxRevision` the changes of one membership (from active through
inactive to active). `Budget` is below what all rows together take, so an
export can succeed and can give up in the middle of a section. Four states and
two teams let a deleted state come back under another team. Two workers with
their own fresh ids let both try to create the first catalog. Three issues allow
a cycle of length three and a check that looks one level down only.
`MaxExpected` bounds the revisions update_issue names: one update per issue.
`MaxNumber` bounds the numbers of a team: two per team suffice for an order, and
for a key that returns to a team after another has used it. `MaxConnections` is
two for three requests that want up to two connections each, so that they would
block each other if one were kept; `MaxPools` is two, for requests that hold a
clone of the pool before the present one. The theorems below do not depend on
these bounds.

Deadlock checking is on in every run but `requests`, where each request is
served once and the plugin may be deactivated for good: such a system stops. A
set of transactions waiting for each other inside a live system is the subject
of `NoDeadlock`, `NoStatusDeadlock` and `OnlyTeamChangesDeadlock`.

Fairness of the pipeline (`FairSpec`). Strong fairness of a worker's next
statement: each handler awaits its statements one after the other, and
PostgreSQL grants a contended lock in the order of the requests, so a statement
that can run again and again runs. Weak fairness of `FetchPage` and strong
fairness of `SaveCheckpoint`: a consumer keeps polling, and does not crash on
every page. Submitting, failing, losing answers and crashing are not fair:
liveness does not depend on them, nor on their absence.

Fairness of the gateway (`GatewaySpec`). Weak fairness of `Serve` per request
(its task is polled), of `FinishDeactivate` per pool (`close()` returns once the
connections are back), of `Relay` per tool request (both adapters are awaited).
Weak fairness suffices, since nobody reactivates a closing pool and a waiting
request stays enabled while a connection is free. Nobody has to call, to fail,
to time out or to deactivate, so `GatewayEnds` does not owe anything to a
timeout.

Findings.

- `issue_race`. `update_issue` refuses a parent that would close a cycle
  (1378-1387), but the query locks none of the rows it reads. Two requests that
  make two issues each other's parent both pass and both commit. Afterwards the
  UNION ALL query (515) does not end for these issues unless the proposed parent
  is among them. `CyclesNeedARace` shows that this race is the only way.
- `spelled_ids`. `resolve_issue_id` (487) prefers an issue id to an identifier,
  and `create_issue` accepts an issue id such as `ENG-1`. Such an issue hides the
  one that was given the identifier ENG-1, against README.md:27 and
  docs/plugin-card.md:59-60.

What the runs show beside the yes or no:

- `NextIdentifierIsFree` has a premise worth knowing: a team allocates freely as
  long as no other team has issued identifiers under its present key. When a key
  is renamed away and given to a new team, the new team's numbers collide with
  the old aliases, and since a failed transaction returns its number, every
  attempt meets the same collision.
- `update_project` and `move_issue` do deadlock with handlers that hold the
  commit gate and want a key-share lock (833, 1531): they lock first and ask for
  the gate later. PostgreSQL fails one of them, and its client may retry under the
  same key. A circle may have three members, which the run reaches:
  `create_issue` holds the gate and
  waits, as it commits, for the `project_teams` row that `update_project` has
  deleted; `update_project` waits at its INSERT for the team whose key `put_team`
  has changed; `put_team` waits for the gate. `OnlyTeamChangesDeadlock` says that
  every circle has an `update_project` or a `move_issue` in it. It speaks of the
  commands and rows of this module; those of the catalogs have `NoDeadlock` and
  `NoStatusDeadlock`, and circles through several modules are in none.
- A revision is a number a client may predict. A request whose checks before the
  transaction were made against one revision, and which names the next, succeeds
  when something else gives the row that revision in between. So an `update_issue`
  can put labels of the old team on an issue that a `move_issue` has moved
  meanwhile, and an `update_comment` can write a body into a comment that
  retention has just erased. `AttachmentsFit` and `ErasedStaysErased` hold but for
  such rows, and name them.
- The labels of an issue are protected by no foreign key to its team. They fit
  because every writer of them is a compare-and-set on the issue's revision; beside
  a guessed revision the one exception is `put_label`, which may give a label to
  another team while issues carry it.
- A 413 of the web adapter has two meanings, and `StatusTells` says that it has no
  third: the body was too large and nothing was asked of the plugin, or the
  operation succeeded and its answer is too large (agent-web `lib.rs`:310-312). An
  issue carries all its former identifiers, so `projects_update_issue` and
  `projects_move_issue` can commit and be answered 413, which the adapter's
  README.md:24-26 lists among the statuses of domain failures.
- Authority is checked fact by fact: `AccessWasAllowed` and `StorageIsGuarded`
  say that each fact held at some moment of the request, not that all of them
  held together or at the commit. No stronger property holds of this code.
- Retention erases what carried the subject when it began. Rows that commands in
  flight insert under it may carry the subject afterwards, a replay of the
  action answers with its receipt and erases nothing, and command receipts keep
  the bodies of the answers the subject was given.
- An export is complete but not a snapshot: each page is one of its own, so a row
  that came or went meanwhile may or may not be in it.
- A retry of a completed command can be refused: visibility and the other checks
  before a transaction are made again, and the receipt is read after them.

## 4. What is proved

All theorems hold for every value of the constants under the modules' named
assumptions, which TLC evaluates on every instance. Besides shapes (a request is
a request, an absent row is not a row, a writer is not a reader) they are: the
ids of different tables differ (`TablesAssumption` of `IssueTeams` and
`PlacesAssumption` of `Collaboration`: row locks are named by ids), the first
rows are consistent, no subject is spelled like a tombstone (`NamesAssumption`
of `Governance`), no label is a cycle or milestone (`KindsAssumption` of
`IssueTeams`), no issue is related to itself, fresh status ids are fresh. Ids have an order (`RankAssumption`:
ORDER BY state_id and its like are injective ranks). The catalogs have finitely
many workers: infinitely many could wait for each other along an endless chain.
An export pages finitely many issues.

| Module | Theorems |
|---|---|
| `CommandPipelineProofs` | `TypeCorrect`, `Invariance`, `CommandsTakeEffectOnce`, `WritesAreNotLost`, `FeedIsOrdered`, `CheckpointsSkipNothing`, `AnswersAreDurable`, `PipelineImplementsLedger` |
| `WorkflowCatalogProofs` | `CatalogInvariance`, `DefaultsStayUsable`, `ReferencesStayUsable`, `CatalogIsTyped`, `CatalogDoesNotDeadlock` |
| `ProjectStatusesProofs` | `StatusInvariance`, `CatalogKeepsOneDefault`, `StatusReferencesStayUsable`, `TimesFollowTheCategory`, `CompletionTimeIsKept`, `StatusesDoNotDeadlock` |
| `IssueTeamsProofs` | `TeamsInvariance`, `CoverageHolds`, `AttachmentsStayFit`, `OthersDoNotDeadlock` |
| `IssueHierarchyProofs` | `HierarchyInvariance`, `RaceFreeHierarchyIsAcyclic`, `ParentsStayInProject`, `HierarchyIsTyped` |
| `CollaborationProofs` | `AccessIsAllowed`, `OldRowsAreMet`, `KeysTakenOnce`, `RevisionsCount`, `CollaborationIsTyped` |
| `BoundaryProofs` (identifiers) | `IdentifierInvariance`, `NumbersAreMonotone`, `IdentifiersKeepTheKey`, `IdentifiersStayRecorded`, `NextIdentifierStaysFree`, `IdentifiersAreTyped` |
| `GovernanceProofs` | `GovernanceInvariance`, `OldDataIsErased`, `ErasureIsFinal`, `RetentionIsAnsweredOnce`, `ExportsAreComplete` |
| `BoundaryProofs` (gateway) | `GatewayInvariance`, `ChecksComeFirst`, `ClosedPoolsAreQuiet`, `StatusIsTrue` |

`BoundaryProofs` holds the proofs of the two components at the edges of the
system, what a request must pass to come in and the names by which issues are
known outside. They share no variable: the module extends both, and no theorem
mentions the two.

The arguments.

- Pipeline. None of the promises is inductive: they speak of committed rows,
  and say nothing of a transaction about to commit. `LocksHeld` (each statement
  leaves its lock held), `DraftsAreCurrent` (what a transaction read is still the
  committed state) and `GateOrdersIds` (an unpublished id is above every
  published and every fetched one) carry them; `PagesAreComplete` connects a page
  in memory with the feed. The assumptions are that the sentinels are distinct
  and the requests well formed. The refinement adds that each commit is one
  `Apply`, each checkpoint one gapless `Deliver`.
- Catalog. `RetirementIsSafe`, `DefaultIsHeld`, `ReferenceIsHeld` say at each
  step of a handler what it has established and which lock keeps it;
  `LocksExclude` makes the locks mean something. `CommitKeepsOthers` is the key
  lemma: a commit changes only rows the worker holds, hence nothing another
  worker relies on. The assumptions are disjoint id spaces and a usable initial
  catalog.
- Hierarchy. `ParentCheckIsSound` shows, without paths or induction, that a
  parent outside of the issue and its descendants closes no cycle: a set of
  issues closed under parents would, without the issue and its descendants, have
  been such a set before. `NewIssueClosesNoCycle` covers inserts, which may run
  between the check and the write. `CheckStands` holds until `stale` says
  otherwise.
- Identifiers. `AllocationsHaveNoGaps` is the strengthening: the numbers of a
  team are exactly those below its counter, each once. With the counter's lock
  (`AllocationIsHeld`) monotonicity and the free next identifier follow.
- Project statuses. `CatalogIsEnsured` says, for every transaction past the
  bootstrap, that the catalog is committed, or that it is the transaction's own
  and the workspace row is locked, in which case no other transaction has got
  this far (`Alone`). `EditStands` and `ReferenceStands` tie what was read to the
  lock that keeps it; `PublishStands` shows that a commit breaks neither for
  another worker. `FreshRows` is about the catalog its creator alone sees.
- Issue teams. `ReadStands`, `InsertStands`, `ReferencesStand`, `LabelsStand`,
  `KeyStands` and `PutStands` say what each handler relies on between its
  statements: mostly a lock; for what was read before the transaction, that a worker
  which has not guessed and whose `gap` is still 0 is about the row it has read. The coverage of issues by project teams survives
  `update_project` only by the deferred foreign key at its commit: the rows
  deleted are locked against the key-share lock of an INSERT in flight.
- Governance. `FoundStands` is a loop invariant over the four statements of
  `apply_retention`: what carried the subject at the beginning and still does is
  locked, or found and pending, or of a table that is still to come.
  `EditStands` is why an erased body stays erased: an edit in flight that guesses
  nothing is locked before the erasure or has an outdated revision after it; what
  the others write is `guessed`. `ReceiptStands` is the
  primary key of the receipts.
- Gateway. The phase of a request determines what has been asked
  (`ChecksPassed`), what has taken effect (`EffectIsKnown`) and which connections
  it holds (`ConnectionsAreUsed`); `HandlersHaveShape` reads off the table of 47
  handlers that a transaction is the last connection a command takes.
- Deadlock of the catalogs. `LocksAreOrdered` says what a worker already holds
  at each statement that may wait: nothing, or, while it locks one state (status)
  after the other, only those before all it has still to lock. In a set of workers
  that wait for each other everyone waits for a state held by one that locks
  several; the one of these that waits for the greatest (`LastInOrder`) has a
  holder that waits for a greater one. While there is no project status catalog,
  a worker past `begun` has the workspace row to itself (`Alone`): the others
  hold nothing, so nobody it could wait for exists.
- Deadlock of issues and projects. `LocksFit` and `LocksSoFar` say which rows each
  handler can have locked at each of its steps, `CommentFits` that no comment
  waits for an issue being created. Suppose a set waits without an
  `update_project` or `move_issue` in it. Nobody in it holds the gate: who holds it
  waits for a `project_teams` row, which only an `update_project` deletes, or for
  an issue locked for an activity record, which only a `move_issue` or that
  issue's own creation locks. So nobody in it waits for the gate, and the steps
  that wait for rows fall one after the other, from the last to the first, since
  what they want is held by nobody left. At the end all are at their first
  statement and hold nothing.
- Export. `OutputStands`: what is written is behind the cursor, once.
  `BufferStands`: the page in memory is beyond the cursor, in order.
  `StableStands`: what the subject has owned throughout is written, or in the
  page, or behind a page that is full, or in a section still to come.
  `BytesStand` is the budget. That a page exists as a sorted sequence of a finite
  set is proved once, as a lemma about `Ordered`.
- Collaboration, writers. `LocksExclude` and `MemberStands`, `LinkStands`,
  `RelationStands` tie what a statement has read to the lock that keeps it until
  the commit; `RowStands` and `RowsAreDrawn` give each insertion a `row_seq` that
  no row and no other insertion has. `SightStands` is the access argument: what
  has been checked is in `sight`, and what is allowed at any moment of the request
  enters `sight` at once; so whatever a check lets pass is there already.
- Collaboration, readers. `ViewStands` does the same for walks and adds that what
  is `old` is still selected. `PageIsDrawn` says that no insertion in flight can
  still put a row in a place the walk has passed; `PageStands` says that the rows met are
  behind the cursor, in order and with every old row up to it, and that the page
  is ahead of it and leaves no old row out before its last. With `NextCursor` (the
  last row shown, not the row of lookahead) the loop invariant survives each page;
  when there is no more, all of `old` has been met. `OrderedIsAll` is the lemma
  about ORDER BY.
- Collaboration, types. `ValuesFit` adds to both what `TypeOK` needs: a membership
  about to be committed has a revision left, which `WriteMember` has checked and
  the row lock has kept.

Model-checked only: liveness (`AttemptsEnd`, `ActivityDelivered`,
`GatewayEnds`), since fairness and ENABLED are out of the prover's reach, and
the termination of the recursive parent query on a cycle, which no run has
either. Every invariant and every action property the passing runs check is a
theorem. Where an argument needs an induction over data (the last of a finite
set in an order, the sorted sequence of a set) it is made by a minimal
counterexample or by counting, with the library's facts about cardinality. The
two violated properties are not theorems, of course.

## 5. What is not modelled, and why

- Names, colors, positions, titles, markdown and their lengths: no guard that a
  property depends on reads them. Validation is modelled by which defects a
  handler refuses, not by how it recognizes them. The position list of a reorder
  is left out with them.
- The generated contracts: serialization code, the same for every operation.
  The typed errors they name are in `Ingress`.
- Of the lifecycle: the secret, the migrations and the operator's statements
  happen before `prepared` is set, and nothing reads them afterwards.
- `apply_retention` rewrites subjects and bumps revisions outside of the
  pipeline; the properties of the pipeline speak of a database without it, those
  of `Governance` of one without the pipeline's receipts.
- The teams of a project do not change in `Collaboration`, nor the visibility in
  `IssueTeams`: a project that gains a private team while a request is in flight
  is in neither.
- Unicode, JSON and TOML, HTTP itself, PostgreSQL's planner and its statement
  timeouts.

## 6. Plan

What is left, in this order.

1. `Collaboration` composed with `IssueTeams`: a project that gains a private
   team while a request is in flight.
2. `Governance` composed with `CommandPipeline`: which answers of the receipts
   outlive the erasure of their subject.
