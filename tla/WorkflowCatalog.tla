--------------------------- MODULE WorkflowCatalog ---------------------------
(***************************************************************************)
(* The Issue workflow states of the teams, and everything that points at    *)
(* them: the default state of a team and the state of an issue.  The        *)
(* handlers run in concurrent READ COMMITTED transactions which coordinate  *)
(* through PostgreSQL row locks alone, so each action is one statement that *)
(* locks or reads, and Commit publishes what the transaction wrote.         *)
(*                                                                         *)
(* What every mutation shares (the command receipt, the activity record,    *)
(* the revision compare-and-set) is the subject of CommandPipeline.  Here a *)
(* client may name any revision, so a compare-and-set may succeed or fail:  *)
(* Abort is the failed one, as it is any refusal, error or crash.  Names,   *)
(* colors and positions are left out: no guard reads them.                  *)
(***************************************************************************)
EXTENDS Naturals, FiniteSets, Functions

CONSTANTS
  Workers,     \* concurrent request handlers, one transaction each
  Teams,       \* team ids
  States,      \* workflow state ids
  Issues,      \* issue ids
  Categories,  \* the categories a new team gets one state of each
  Unstarted,   \* the category of every default state
  Rank,        \* the order of state ids (ORDER BY state_id)
  Absent,      \* no such row
  TeamDefault, \* a create_issue request that names no state
  Requests,    \* the request bodies clients send
  FirstTeams,  \* FirstTeams[t]: the default state of t initially, or Absent
  FirstStates, \* the workflow states there are initially
  FirstIssues  \* the issues there are initially

StateRow == [team : Teams, category : Categories, archived : BOOLEAN]
IssueRow == [team : Teams, state : States]

\* The ids fresh_catalog_id draws for the states of a new team.
Catalogs == {c \in [Categories -> States] : IsInjective(c)}

\* put_team and put_workflow_state insert without an expected_revision and
\* update with one.
Request ==
  [op : {"insert_team"}, team : Teams, catalog : Catalogs]
    \cup [op : {"update_team"}, team : Teams, state : States]
    \cup [op : {"insert_workflow_state", "update_workflow_state"},
          team : Teams, state : States, category : Categories]
    \cup [op : {"reorder_workflow_states"}, team : Teams]
    \cup [op : {"archive_workflow_state"}, state : States, archived : BOOLEAN]
    \cup [op : {"delete_workflow_state"}, team : Teams, state : States]
    \cup [op : {"create_issue"}, issue : Issues, team : Teams,
          state : States \cup {TeamDefault}]
    \cup [op : {"update_issue"}, issue : Issues, state : States]
    \cup [op : {"move_issue"}, issue : Issues, team : Teams, state : States]

Retirements == {"archive_workflow_state", "delete_workflow_state"}
StateEdits == Retirements \cup {"update_workflow_state"}
IssueOps == {"create_issue", "update_issue", "move_issue"}

Usable(ss, t, s) ==
  ss[s] # Absent /\ ss[s].team = t /\ ~ss[s].archived

ASSUME AbsentAssumption ==
  /\ Absent \notin States \cup Teams \cup StateRow \cup IssueRow
  /\ TeamDefault \notin States
ASSUME WorkersAssumption == IsFiniteSet(Workers)
ASSUME CategoriesAssumption == Unstarted \in Categories
ASSUME RankAssumption == Rank \in [States -> Nat] /\ IsInjective(Rank)
ASSUME RowsAssumption ==
  States \cap Teams = {} /\ States \cap Issues = {} /\ Teams \cap Issues = {}
ASSUME RequestsAssumption == Requests \subseteq Request /\ Requests # {}
ASSUME FirstAssumption ==
  /\ FirstStates \in [States -> StateRow \cup {Absent}]
  /\ FirstTeams \in [Teams -> States \cup {Absent}]
  /\ FirstIssues \in [Issues -> IssueRow \cup {Absent}]
  /\ \A t \in Teams : FirstTeams[t] # Absent =>
       /\ Usable(FirstStates, t, FirstTeams[t])
       /\ FirstStates[FirstTeams[t]].category = Unstarted
  /\ \A i \in Issues : FirstIssues[i] # Absent =>
       Usable(FirstStates, FirstIssues[i].team, FirstIssues[i].state)

VARIABLES
  teams,      \* committed teams: the default state of each
  states,     \* committed workflow_states rows
  issues,     \* committed issues rows
  step,       \* what a worker does next
  request,    \* the request it serves
  team,       \* the team it resolves a state in
  pending,    \* the states its current SELECT has found but not yet locked
  exclusive,  \* the rows it has locked FOR UPDATE or written
  shared      \* the states it has locked FOR KEY SHARE

dbVars == <<teams, states, issues>>
workerVars == <<step, request, team, pending, exclusive, shared>>
vars == <<dbVars, workerVars>>

-----------------------------------------------------------------------------

\* What the request of an idle worker reads: it serves none.
NoRequest == CHOOSE r \in Requests : TRUE

IsDefault(s) == \E t \in Teams : teams[t] = s
IsReferenced(s) == \E i \in Issues : issues[i] # Absent /\ issues[i].state = s

ActiveStates(t) == {s \in States : Usable(states, t, s)}

\* A row lock for update is granted when nobody else has the row locked.
CanLock(w, row) ==
  \A v \in Workers \ {w} : row \notin exclusive[v] \cup shared[v]

\* Key-share locks only exclude locks for update.
CanShare(w, row) == \A v \in Workers \ {w} : row \notin exclusive[v]

At(w, s, ops) == step[w] = s /\ request[w].op \in ops

Goto(w, s) == step' = [step EXCEPT ![w] = s]

Lock(w, row) ==
  /\ CanLock(w, row)
  /\ exclusive' = [exclusive EXCEPT ![w] = @ \cup {row}]

-----------------------------------------------------------------------------

\* What the handlers check on the pool before they begin.  update_issue reads
\* the team of the issue here, before its transaction.
Precheck(r) ==
  CASE r.op \in {"insert_workflow_state", "update_workflow_state",
                 "create_issue"} -> teams[r.team] # Absent
    [] r.op = "update_issue" -> issues[r.issue] # Absent
    [] r.op = "move_issue" ->
         issues[r.issue] # Absent /\ teams[r.team] # Absent
    [] OTHER -> TRUE

ReadTeam(r) ==
  CASE r.op = "update_issue" -> issues[r.issue].team
    [] r.op = "archive_workflow_state" -> Absent
    [] OTHER -> r.team

Begin(w, r) ==
  /\ step[w] = "idle"
  /\ Precheck(r)
  /\ Goto(w, "begun")
  /\ request' = [request EXCEPT ![w] = r]
  /\ team' = [team EXCEPT ![w] = ReadTeam(r)]
  /\ UNCHANGED <<dbVars, pending, exclusive, shared>>

EndTransaction(w) ==
  /\ Goto(w, "idle")
  /\ request' = [request EXCEPT ![w] = NoRequest]
  /\ team' = [team EXCEPT ![w] = Absent]
  /\ pending' = [pending EXCEPT ![w] = {}]
  /\ exclusive' = [exclusive EXCEPT ![w] = {}]
  /\ shared' = [shared EXCEPT ![w] = {}]

Abort(w) ==
  /\ step[w] # "idle"
  /\ EndTransaction(w)
  /\ UNCHANGED dbVars

(***************************************************************************)
(* archive, unarchive and delete a state, or edit one: the row is locked    *)
(* FOR UPDATE before anything is checked.                                   *)
(***************************************************************************)

LockState(w) ==
  LET s == request[w].state
  IN /\ At(w, "begun", StateEdits)
     /\ Lock(w, s)
     /\ states[s] # Absent
     /\ request[w].op # "archive_workflow_state" => states[s].team = team[w]
     /\ request[w].op = "update_workflow_state" =>
          states[s].category = request[w].category
     /\ Goto(w, IF \/ request[w].op = "update_workflow_state"
                   \/ request[w].op = "archive_workflow_state" /\ ~request[w].archived
                THEN "ready" ELSE "check default")
     /\ UNCHANGED <<dbVars, request, team, pending, shared>>

CheckDefault(w) ==
  /\ At(w, "check default", Retirements)
  /\ ~IsDefault(request[w].state)
  /\ Goto(w, "check references")
  /\ UNCHANGED <<dbVars, request, team, pending, exclusive, shared>>

CheckReferences(w) ==
  /\ At(w, "check references", Retirements)
  /\ ~IsReferenced(request[w].state)
  /\ request[w].op = "delete_workflow_state" => states[request[w].state].archived
  /\ Goto(w, "ready")
  /\ UNCHANGED <<dbVars, request, team, pending, exclusive, shared>>

CommitArchive(w) ==
  /\ At(w, "ready", {"archive_workflow_state"})
  /\ states' = [states EXCEPT ![request[w].state].archived = request[w].archived]
  /\ EndTransaction(w)
  /\ UNCHANGED <<teams, issues>>

\* The foreign keys of issues and of teams have the last word on a DELETE.
CommitDelete(w) ==
  /\ At(w, "ready", {"delete_workflow_state"})
  /\ ~IsReferenced(request[w].state) /\ ~IsDefault(request[w].state)
  /\ states' = [states EXCEPT ![request[w].state] = Absent]
  /\ EndTransaction(w)
  /\ UNCHANGED <<teams, issues>>

(***************************************************************************)
(* A new state takes its id with ON CONFLICT DO NOTHING: it waits for a     *)
(* transaction that inserts or deletes the id, then needs the id free.      *)
(***************************************************************************)
InsertState(w) ==
  /\ At(w, "begun", {"insert_workflow_state"})
  /\ Lock(w, request[w].state)
  /\ states[request[w].state] = Absent
  /\ Goto(w, "ready")
  /\ UNCHANGED <<dbVars, request, team, pending, shared>>

\* Defect: team and category are bound in the wrong order.
NewStateSwapped(t, c) == [team |-> c, category |-> t, archived |-> FALSE]

NewState(t, c) == [team |-> t, category |-> c, archived |-> FALSE]

\* An edit keeps the category, and nothing else of the row is modelled.
CommitState(w) ==
  /\ At(w, "ready", {"insert_workflow_state", "update_workflow_state"})
  /\ IF request[w].op = "insert_workflow_state"
       THEN states' = [states EXCEPT ![request[w].state] =
                         NewState(team[w], request[w].category)]
       ELSE UNCHANGED states
  /\ EndTransaction(w)
  /\ UNCHANGED <<teams, issues>>

(***************************************************************************)
(* reorder_workflow_states locks the unarchived states its SELECT found in  *)
(* the order of their ids.  The client has to have named exactly the rows   *)
(* that are still unarchived once locked; it may have named any.            *)
(***************************************************************************)
ReorderSelect(w) ==
  /\ At(w, "begun", {"reorder_workflow_states"})
  /\ pending' = [pending EXCEPT ![w] = ActiveStates(team[w])]
  /\ Goto(w, "lock rows")
  /\ UNCHANGED <<dbVars, request, team, exclusive, shared>>

\* Defect: the rows are locked in any order.
NextToLockAny(w) == pending[w]

NextToLock(w) ==
  {s \in pending[w] : \A other \in pending[w] : Rank[s] <= Rank[other]}

ReorderLock(w, s) ==
  /\ At(w, "lock rows", {"reorder_workflow_states"})
  /\ s \in NextToLock(w)
  /\ Lock(w, s)
  /\ pending' = [pending EXCEPT ![w] = @ \ {s}]
  /\ Goto(w, IF pending[w] = {s} THEN "ready" ELSE "lock rows")
  /\ UNCHANGED <<dbVars, request, team, shared>>

CommitReorder(w) ==
  /\ At(w, "ready", {"reorder_workflow_states"})
  /\ EndTransaction(w)
  /\ UNCHANGED dbVars

(***************************************************************************)
(* put_team: an update names its default state and locks it FOR KEY SHARE;  *)
(* an insert brings the five default states of the team with it.            *)
(***************************************************************************)

\* Defect: the default state is validated without FOR KEY SHARE.
ShareDefaultUnlocked(w) ==
  /\ At(w, "begun", {"update_team"})
  /\ CanShare(w, request[w].state)
  /\ Usable(states, team[w], request[w].state)
  /\ states[request[w].state].category = Unstarted
  /\ Goto(w, "update team")
  /\ UNCHANGED <<dbVars, request, team, pending, exclusive, shared>>

ShareDefault(w) ==
  /\ At(w, "begun", {"update_team"})
  /\ CanShare(w, request[w].state)
  /\ Usable(states, team[w], request[w].state)
  /\ states[request[w].state].category = Unstarted
  /\ shared' = [shared EXCEPT ![w] = @ \cup {request[w].state}]
  /\ Goto(w, "update team")
  /\ UNCHANGED <<dbVars, request, team, pending, exclusive>>

UpdateTeam(w) ==
  /\ At(w, "update team", {"update_team"})
  /\ Lock(w, team[w])
  /\ teams[team[w]] # Absent
  /\ Goto(w, "ready")
  /\ UNCHANGED <<dbVars, request, team, pending, shared>>

InsertTeam(w) ==
  LET fresh == Range(request[w].catalog)
  IN /\ At(w, "begun", {"insert_team"})
     /\ teams[team[w]] = Absent
     /\ \A s \in fresh : states[s] = Absent
     /\ \A row \in fresh \cup {team[w]} : CanLock(w, row)
     /\ exclusive' = [exclusive EXCEPT ![w] = fresh \cup {team[w]}]
     /\ Goto(w, "ready")
     /\ UNCHANGED <<dbVars, request, team, pending, shared>>

CommitTeam(w) ==
  /\ \/ /\ At(w, "ready", {"update_team"})
        /\ teams' = [teams EXCEPT ![team[w]] = request[w].state]
        /\ UNCHANGED states
     \/ /\ At(w, "ready", {"insert_team"})
        /\ teams' = [teams EXCEPT ![team[w]] = request[w].catalog[Unstarted]]
        /\ states' = [s \in States |->
             IF s \in Range(request[w].catalog)
             THEN NewState(team[w], CHOOSE c \in Categories : request[w].catalog[c] = s)
             ELSE states[s]]
  /\ EndTransaction(w)
  /\ UNCHANGED issues

(***************************************************************************)
(* create_issue, update_issue and move_issue.  resolve_issue_workflow_state *)
(* picks the state by the snapshot of its SELECT, and locks it FOR KEY      *)
(* SHARE once nobody holds it: by then the default may be another one, but  *)
(* the row itself is checked again.                                         *)
(***************************************************************************)
ResolveState(w) ==
  /\ At(w, "begun", IssueOps)
  /\ teams[team[w]] # Absent
  /\ \E s \in {IF request[w].state = TeamDefault THEN teams[team[w]]
                                                 ELSE request[w].state} :
       /\ Usable(states, team[w], s)
       /\ pending' = [pending EXCEPT ![w] = {s}]
  /\ Goto(w, "share state")
  /\ UNCHANGED <<dbVars, request, team, exclusive, shared>>

\* Defect: what the snapshot said of the state is not checked again.
ShareStateStale(w, s) ==
  /\ At(w, "share state", IssueOps)
  /\ s \in pending[w]
  /\ CanShare(w, s)
  /\ shared' = [shared EXCEPT ![w] = @ \cup {s}]
  /\ Goto(w, IF request[w].op = "update_issue" THEN "write issue" ELSE "bump counter")
  /\ UNCHANGED <<dbVars, request, team, pending, exclusive>>

ShareState(w, s) ==
  /\ At(w, "share state", IssueOps)
  /\ s \in pending[w]
  /\ CanShare(w, s)
  /\ Usable(states, team[w], s)
  /\ shared' = [shared EXCEPT ![w] = @ \cup {s}]
  /\ Goto(w, IF request[w].op = "update_issue" THEN "write issue" ELSE "bump counter")
  /\ UNCHANGED <<dbVars, request, team, pending, exclusive>>

\* Allocating the identifier's number locks the team until the commit.
BumpCounter(w) ==
  /\ At(w, "bump counter", {"create_issue", "move_issue"})
  /\ Lock(w, team[w])
  /\ Goto(w, "write issue")
  /\ UNCHANGED <<dbVars, request, team, pending, shared>>

\* The foreign key (team, state) is checked as the statement ends.
WriteIssue(w) ==
  /\ At(w, "write issue", IssueOps)
  /\ Lock(w, request[w].issue)
  /\ (request[w].op = "create_issue") <=> (issues[request[w].issue] = Absent)
  /\ request[w].op = "update_issue" => issues[request[w].issue].team = team[w]
  /\ Goto(w, "ready")
  /\ UNCHANGED <<dbVars, request, team, pending, shared>>

CommitIssue(w) ==
  /\ At(w, "ready", IssueOps)
  /\ \E s \in pending[w] :
       issues' = [issues EXCEPT ![request[w].issue] =
         [team |-> IF request[w].op = "update_issue" THEN @.team ELSE team[w],
          state |-> s]]
  /\ EndTransaction(w)
  /\ UNCHANGED <<teams, states>>

-----------------------------------------------------------------------------

Step(w) ==
  \/ LockState(w) \/ CheckDefault(w) \/ CheckReferences(w)
  \/ CommitArchive(w) \/ CommitDelete(w)
  \/ InsertState(w) \/ CommitState(w)
  \/ ReorderSelect(w) \/ (\E s \in States : ReorderLock(w, s)) \/ CommitReorder(w)
  \/ ShareDefault(w) \/ UpdateTeam(w) \/ InsertTeam(w) \/ CommitTeam(w)
  \/ ResolveState(w) \/ (\E s \in States : ShareState(w, s))
  \/ BumpCounter(w) \/ WriteIssue(w) \/ CommitIssue(w)

Init ==
  /\ teams = FirstTeams /\ states = FirstStates /\ issues = FirstIssues
  /\ step = [w \in Workers |-> "idle"]
  /\ request = [w \in Workers |-> NoRequest]
  /\ team = [w \in Workers |-> Absent]
  /\ pending = [w \in Workers |-> {}]
  /\ exclusive = [w \in Workers |-> {}]
  /\ shared = [w \in Workers |-> {}]

Next == \E w \in Workers : Step(w) \/ Abort(w) \/ \E r \in Requests : Begin(w, r)

Spec == Init /\ [][Next]_vars

-----------------------------------------------------------------------------
(***************************************************************************)
(* Correctness properties                                                   *)
(***************************************************************************)

Steps == {"idle", "begun", "check default", "check references", "lock rows",
          "update team", "share state", "bump counter", "write issue", "ready"}

(***************************************************************************)
(* Type invariant.                                                          *)
(***************************************************************************)
TypeOK ==
  /\ teams \in [Teams -> States \cup {Absent}]
  /\ states \in [States -> StateRow \cup {Absent}]
  /\ issues \in [Issues -> IssueRow \cup {Absent}]
  /\ step \in [Workers -> Steps]
  /\ request \in [Workers -> Requests]
  /\ team \in [Workers -> Teams \cup {Absent}]
  /\ pending \in [Workers -> SUBSET States]
  /\ exclusive \in [Workers -> SUBSET (Teams \cup States \cup Issues)]
  /\ shared \in [Workers -> SUBSET States]

(***************************************************************************)
(* plugin-card.md:65: the default of a team always identifies its own       *)
(* unarchived unstarted state, whatever put_team, archive_workflow_state,   *)
(* delete_workflow_state and put_workflow_state run concurrently: a state   *)
(* cannot be archived or deleted between the moment put_team validates it   *)
(* and the moment put_team commits, nor be deleted and its id reused.       *)
(***************************************************************************)
DefaultsAreUsable ==
  \A t \in Teams : teams[t] # Absent =>
    /\ Usable(states, t, teams[t])
    /\ states[teams[t]].category = Unstarted

(***************************************************************************)
(* plugin-card.md:67-72: a referenced state is neither archived nor         *)
(* deleted, and an issue's state belongs to the issue's team, although      *)
(* create_issue picks the default by a snapshot, update_issue reads the     *)
(* issue's team before it begins, and move_issue may run in between.        *)
(***************************************************************************)
ReferencesAreUsable ==
  \A i \in Issues : issues[i] # Absent =>
    Usable(states, issues[i].team, issues[i].state)

\* The rows a worker's next statement locks for update, or for key share.
WantsExclusive(w) ==
  CASE At(w, "begun", StateEdits \cup {"insert_workflow_state"}) -> {request[w].state}
    [] At(w, "begun", {"insert_team"}) -> {team[w]} \cup Range(request[w].catalog)
    [] step[w] = "lock rows" -> NextToLock(w)
    [] step[w] \in {"update team", "bump counter"} -> {team[w]}
    [] step[w] = "write issue" -> {request[w].issue}
    [] OTHER -> {}

WantsShare(w) ==
  CASE At(w, "begun", {"update_team"}) -> {request[w].state}
    [] step[w] = "share state" -> pending[w]
    [] OTHER -> {}

Blockers(w) ==
  {v \in Workers \ {w} :
     \/ WantsExclusive(w) \cap (exclusive[v] \cup shared[v]) # {}
     \/ WantsShare(w) \cap exclusive[v] # {}}

(***************************************************************************)
(* No set of transactions waits for each other's row locks: the catalog and *)
(* issue handlers all lock states, in the order of their ids, before the    *)
(* team and the team before the issue.  PostgreSQL would otherwise abort    *)
(* one of them with an error that is not the client's.                      *)
(***************************************************************************)
NoDeadlock ==
  \A waiting \in SUBSET Workers :
    waiting # {} => \E w \in waiting : Blockers(w) \cap waiting = {}

-----------------------------------------------------------------------------
(***************************************************************************)
(* Why it works: row locks keep true what a transaction has checked.        *)
(***************************************************************************)

LocksExclude ==
  \A v, w \in Workers : v # w => exclusive[v] \cap (exclusive[w] \cup shared[w]) = {}

TeamIsRead(w) ==
  step[w] # "idle" /\ request[w].op # "archive_workflow_state" => team[w] \in Teams

\* A state about to be archived or deleted is locked for update, and nothing
\* points at it from the moment the handler has seen that nothing does.
RetirementIsSafe(w) ==
  request[w].op \in Retirements /\ step[w] \in {"check default", "check references", "ready"} =>
    LET s == request[w].state
        unarchive == request[w].op = "archive_workflow_state" /\ ~request[w].archived
    IN /\ s \in exclusive[w]
       /\ states[s] # Absent
       /\ step[w] = "check references" \/ (step[w] = "ready" /\ ~unarchive) => ~IsDefault(s)
       /\ step[w] = "ready" /\ ~unarchive => ~IsReferenced(s)

InsertionsAreSafe(w) ==
  /\ At(w, "ready", {"insert_workflow_state"}) =>
       request[w].state \in exclusive[w] /\ states[request[w].state] = Absent
  /\ At(w, "ready", {"insert_team"}) =>
       \A s \in Range(request[w].catalog) : s \in exclusive[w] /\ states[s] = Absent

\* put_team keeps the state it validated from changing until it commits.
DefaultIsHeld(w) ==
  request[w].op = "update_team" /\ step[w] \in {"update team", "ready"} =>
    /\ request[w].state \in shared[w]
    /\ Usable(states, team[w], request[w].state)
    /\ states[request[w].state].category = Unstarted

\* An issue handler resolves one state and keeps it.
ReferenceIsHeld(w) ==
  request[w].op \in IssueOps =>
    /\ step[w] = "share state" => \A s, r \in pending[w] : s = r
    /\ step[w] \in {"bump counter", "write issue", "ready"} =>
         \A s \in pending[w] : s \in shared[w] /\ Usable(states, team[w], s)
    /\ step[w] = "ready" => request[w].issue \in exclusive[w]
    /\ step[w] = "ready" /\ request[w].op = "update_issue" =>
         issues[request[w].issue] # Absent /\ issues[request[w].issue].team = team[w]

TransactionIsSafe(w) ==
  /\ TeamIsRead(w) /\ RetirementIsSafe(w) /\ InsertionsAreSafe(w)
  /\ DefaultIsHeld(w) /\ ReferenceIsHeld(w)

(***************************************************************************)
(* The inductive invariant.                                                 *)
(***************************************************************************)
IInv ==
  /\ TypeOK /\ LocksExclude
  /\ DefaultsAreUsable /\ ReferencesAreUsable
  /\ \A w \in Workers : TransactionIsSafe(w)

(***************************************************************************)
(* Why nothing deadlocks: a worker that asks for a row holds only rows that *)
(* come before it, states by their rank, then the team, then the issue.     *)
(***************************************************************************)
LocksInOrder(w) ==
  /\ step[w] = "update team" => request[w].op = "update_team"
  /\ step[w] \in {"share state", "bump counter", "write issue"} => request[w].op \in IssueOps
  /\ step[w] \in {"idle", "begun", "share state"} => exclusive[w] \cup shared[w] = {}
  /\ step[w] = "lock rows" =>
       /\ shared[w] = {} /\ exclusive[w] \subseteq States
       /\ \A held \in exclusive[w], s \in pending[w] : Rank[held] < Rank[s]
  /\ step[w] \in {"update team", "bump counter"} => exclusive[w] = {}
  /\ step[w] = "write issue" => exclusive[w] \subseteq Teams

=============================================================================
