-------------------------- MODULE IssueIdentifiers --------------------------
(***************************************************************************)
(* Display identifiers: the key and the issue counter of a team, the        *)
(* identifier of an issue, and the aliases that keep old identifiers        *)
(* readable.  create_issue and move_issue allocate, put_team creates a team *)
(* or renames its key, get_issue resolves.  Concurrent READ COMMITTED       *)
(* transactions; each action is one statement.  Compare-and-set, receipts,  *)
(* activity, the state, project and labels of the issue are left to other   *)
(* modules: Abort is any refusal, error or crash.                           *)
(***************************************************************************)
EXTENDS Naturals

CONSTANTS
  Workers,   \* concurrent request handlers, one transaction each
  Teams,     \* team ids
  Keys,      \* team keys
  Issues,    \* issue ids; some may be spelled like an identifier
  Absent,    \* no such row
  MaxNumber, \* bound: the numbers a team allocates
  Requests   \* the request bodies clients send

\* format!("{team_key}-{number}"): a key has no dash, so the pair is unique.
Identifier == Keys \X (Nat \ {0})

TeamRow == [key : Keys, next : Nat \ {0}]
IssueRow == [team : Teams, identifier : Identifier]

\* "team" is history: the team that allocated the identifier.
Alias == [identifier : Identifier, issue : Issues, team : Teams]

Request ==
  [op : {"create_issue", "move_issue"}, issue : Issues, team : Teams]
    \cup [op : {"insert_team", "update_team"}, team : Teams, key : Keys]

ASSUME AbsentAssumption ==
  Absent \notin TeamRow \cup IssueRow \cup Issues \cup Teams \cup Keys \cup Identifier
ASSUME RowsAssumption == Teams \cap Issues = {}
ASSUME RequestsAssumption == Requests \subseteq Request /\ Requests # {}
ASSUME BoundAssumption == MaxNumber \in Nat

VARIABLES
  teams,      \* committed teams: key and next_issue_number
  issues,     \* committed issues rows
  aliases,    \* committed issue_identifier_aliases rows
  step,       \* what a worker does next
  request,    \* the request it serves
  identifier, \* the identifier its transaction has allocated
  rowLock,    \* the team row its transaction has written
  indexLock   \* the issue id, identifier or key it has put into a unique index

dbVars == <<teams, issues, aliases>>
vars == <<dbVars, step, request, identifier, rowLock, indexLock>>

-----------------------------------------------------------------------------

NoRequest == CHOOSE r \in Requests : TRUE

IssueOps == {"create_issue", "move_issue"}

At(w, s, ops) == step[w] = s /\ request[w].op \in ops

Goto(w, s) == step' = [step EXCEPT ![w] = s]

\* A row or index entry somebody else has written makes a statement wait.
RowFree(w, t) == \A v \in Workers \ {w} : rowLock[v] # t
IndexFree(w, x) == \A v \in Workers \ {w} : x \notin indexLock[v]

KeyTaken(t, k) == \E u \in Teams \ {t} : teams[u] # Absent /\ teams[u].key = k

Aliased(x) == \E a \in aliases : a.identifier = x

\* resolve_issue_id: an issue id comes before an identifier.
Resolve(ref) ==
  {i \in Issues : \/ i = ref /\ issues[i] # Absent
                  \/ /\ \A j \in Issues : j = ref => issues[j] = Absent
                     /\ \E a \in aliases : a.identifier = ref /\ a.issue = i}

(***************************************************************************)
(* What the handlers read on the pool before they begin.                    *)
(***************************************************************************)
Begin(w, r) ==
  /\ step[w] = "idle"
  /\ \/ r.op = "create_issue" /\ teams[r.team] # Absent
     \/ r.op = "move_issue" /\ issues[r.issue] # Absent /\ teams[r.team] # Absent
     \/ r.op \in {"insert_team", "update_team"} /\ ~KeyTaken(r.team, r.key)
  /\ request' = [request EXCEPT ![w] = r]
  /\ Goto(w, IF r.op \in IssueOps THEN "allocate" ELSE "write team")
  /\ UNCHANGED <<dbVars, identifier, rowLock, indexLock>>

EndTransaction(w) ==
  /\ Goto(w, "idle")
  /\ request' = [request EXCEPT ![w] = NoRequest]
  /\ identifier' = [identifier EXCEPT ![w] = Absent]
  /\ rowLock' = [rowLock EXCEPT ![w] = Absent]
  /\ indexLock' = [indexLock EXCEPT ![w] = {}]

Abort(w) ==
  /\ step[w] # "idle"
  /\ EndTransaction(w)
  /\ UNCHANGED dbVars

\* Defect: the number is read without locking the counter.
AllocateUnlocked(w) ==
  LET t == request[w].team
  IN /\ At(w, "allocate", IssueOps)
     /\ teams[t].next <= MaxNumber
     /\ identifier' = [identifier EXCEPT ![w] = <<teams[t].key, teams[t].next>>]
     /\ Goto(w, "write issue")
     /\ UNCHANGED <<dbVars, request, rowLock, indexLock>>

\* UPDATE teams SET next_issue_number .. RETURNING team_key: the number and the
\* key are read as the row is locked, and the counter moves with the commit.
Allocate(w) ==
  LET t == request[w].team
  IN /\ At(w, "allocate", IssueOps)
     /\ RowFree(w, t)
     /\ teams[t].next <= MaxNumber
     /\ rowLock' = [rowLock EXCEPT ![w] = t]
     /\ identifier' = [identifier EXCEPT ![w] = <<teams[t].key, teams[t].next>>]
     /\ Goto(w, "write issue")
     /\ UNCHANGED <<dbVars, request, indexLock>>

\* The INSERT (ON CONFLICT DO NOTHING) or UPDATE of the issue: both unique
\* indexes, of ids and of identifiers, wait for who writes the same entry.
WriteIssue(w) ==
  LET i == request[w].issue
  IN /\ At(w, "write issue", IssueOps)
     /\ IndexFree(w, <<"issue", i>>) /\ IndexFree(w, <<"identifier", identifier[w]>>)
     /\ (request[w].op = "create_issue") <=> (issues[i] = Absent)
     /\ \A j \in Issues : issues[j] # Absent => issues[j].identifier # identifier[w]
     /\ indexLock' = [indexLock EXCEPT ![w] =
                        {<<"issue", i>>, <<"identifier", identifier[w]>>}]
     /\ Goto(w, "store alias")
     /\ UNCHANGED <<dbVars, request, identifier, rowLock>>

\* The primary key of issue_identifier_aliases refuses an old identifier.
StoreAlias(w) ==
  /\ At(w, "store alias", IssueOps)
  /\ ~Aliased(identifier[w])
  /\ Goto(w, "commit")
  /\ UNCHANGED <<dbVars, request, identifier, rowLock, indexLock>>

\* Defect: move_issue stores no alias.
NewAliasesOfCreated(w) ==
  {a \in {[identifier |-> identifier[w], issue |-> request[w].issue, team |-> request[w].team]} :
     request[w].op = "create_issue"}

NewAliases(w) ==
  {[identifier |-> identifier[w], issue |-> request[w].issue, team |-> request[w].team]}

CommitIssue(w) ==
  LET t == request[w].team
  IN /\ At(w, "commit", IssueOps)
     /\ teams' = [teams EXCEPT ![t] = [key |-> teams[t].key, next |-> teams[t].next + 1]]
     /\ issues' = [issues EXCEPT ![request[w].issue] =
                     [team |-> t, identifier |-> identifier[w]]]
     /\ aliases' = aliases \cup NewAliases(w)
     /\ EndTransaction(w)

\* Defect: the UPDATE of a team does not wait for its row.
WriteTeamUnlocked(w) ==
  LET r == request[w]
  IN /\ At(w, "write team", {"insert_team", "update_team"})
     /\ IndexFree(w, <<"key", r.key>>)
     /\ ~KeyTaken(r.team, r.key)
     /\ (r.op = "insert_team") <=> (teams[r.team] = Absent)
     /\ indexLock' = [indexLock EXCEPT ![w] = {<<"key", r.key>>}]
     /\ Goto(w, "commit")
     /\ UNCHANGED <<dbVars, request, identifier, rowLock>>

\* put_team's INSERT (ON CONFLICT DO NOTHING) or UPDATE: the unique index of
\* keys has the last word on what the handler has looked up before.
WriteTeam(w) ==
  LET r == request[w]
  IN /\ At(w, "write team", {"insert_team", "update_team"})
     /\ RowFree(w, r.team) /\ IndexFree(w, <<"key", r.key>>)
     /\ ~KeyTaken(r.team, r.key)
     /\ (r.op = "insert_team") <=> (teams[r.team] = Absent)
     /\ rowLock' = [rowLock EXCEPT ![w] = r.team]
     /\ indexLock' = [indexLock EXCEPT ![w] = {<<"key", r.key>>}]
     /\ Goto(w, "commit")
     /\ UNCHANGED <<dbVars, request, identifier>>

\* Defect: an update starts the numbers of the new key at one.
NextNumberRestarted(r) == 1

\* Defect: numbers start at zero.
NextNumberFromZero(r) == IF r.op = "insert_team" THEN 0 ELSE teams[r.team].next

\* The counter survives a new key.
NextNumber(r) == IF r.op = "insert_team" THEN 1 ELSE teams[r.team].next

CommitTeam(w) ==
  LET r == request[w]
  IN /\ At(w, "commit", {"insert_team", "update_team"})
     /\ teams' = [teams EXCEPT ![r.team] = [key |-> r.key, next |-> NextNumber(r)]]
     /\ UNCHANGED <<issues, aliases>>
     /\ EndTransaction(w)

Init ==
  /\ teams = [t \in Teams |-> Absent]
  /\ issues = [i \in Issues |-> Absent]
  /\ aliases = {}
  /\ step = [w \in Workers |-> "idle"]
  /\ request = [w \in Workers |-> NoRequest]
  /\ identifier = [w \in Workers |-> Absent]
  /\ rowLock = [w \in Workers |-> Absent]
  /\ indexLock = [w \in Workers |-> {}]

Next ==
  \E w \in Workers :
    \/ \E r \in Requests : Begin(w, r)
    \/ Allocate(w) \/ WriteIssue(w) \/ StoreAlias(w) \/ CommitIssue(w)
    \/ WriteTeam(w) \/ CommitTeam(w) \/ Abort(w)

Spec == Init /\ [][Next]_vars

-----------------------------------------------------------------------------
(***************************************************************************)
(* Type invariant.                                                          *)
(***************************************************************************)
TypeOK ==
  /\ teams \in [Teams -> TeamRow \cup {Absent}]
  /\ issues \in [Issues -> IssueRow \cup {Absent}]
  /\ aliases \subseteq Alias
  /\ step \in [Workers -> {"idle", "allocate", "write issue", "store alias",
                           "write team", "commit"}]
  /\ request \in [Workers -> Requests]
  /\ identifier \in [Workers -> Identifier \cup {Absent}]
  /\ rowLock \in [Workers -> Teams \cup {Absent}]
  /\ indexLock \in [Workers -> SUBSET ({"issue", "identifier", "key"} \X
                                         (Issues \cup Identifier \cup Keys))]

(***************************************************************************)
(* plugin-card.md:58-59: identifiers are allocated monotonically per team.  *)
(* The transaction that commits next for a team always has a larger number  *)
(* than every one before it, through moves, aborted attempts and new keys.  *)
(***************************************************************************)
AllocatedMonotonically ==
  [][\A a \in aliases' \ aliases, b \in aliases :
       a.team = b.team => b.identifier[2] < a.identifier[2]]_vars

(***************************************************************************)
(* An identifier carries the key its team has at the very commit, although  *)
(* put_team may be renaming the key while create_issue or move_issue runs.  *)
(***************************************************************************)
IdentifiersCarryTheKey ==
  [][\A a \in aliases' \ aliases : a.identifier[1] = teams'[a.team].key]_vars

(***************************************************************************)
(* The identifier an issue shows is recorded for that issue and was         *)
(* allocated by the team it is in now; and an identifier is recorded for    *)
(* one issue only, so it never comes to mean another one.                   *)
(***************************************************************************)
IdentifiersAreRecorded ==
  /\ \A i \in Issues : issues[i] # Absent =>
       \E a \in aliases : /\ a.identifier = issues[i].identifier
                          /\ a.issue = i /\ a.team = issues[i].team
  /\ \A a, b \in aliases : a.identifier = b.identifier => a = b

(***************************************************************************)
(* The next identifier of a team is unused, so create_issue and move_issue  *)
(* can allocate it, as long as no other team has issued identifiers under   *)
(* the team's present key.  Without the premise it is false: the aborted    *)
(* allocation gives its number back, and every attempt meets the same one.  *)
(***************************************************************************)
NextIdentifierIsFree ==
  \A t \in Teams : teams[t] # Absent =>
    \/ \E a \in aliases : a.identifier[1] = teams[t].key /\ a.team # t
    \/ ~Aliased(<<teams[t].key, teams[t].next>>)

(***************************************************************************)
(* README.md:27: historical display identifiers continue to resolve;        *)
(* plugin-card.md:59-60: all old identifiers remain readable after a move.  *)
(* get_issue answers an identifier with the issue it was given to.          *)
(***************************************************************************)
OldIdentifiersReadable ==
  \A a \in aliases : Resolve(a.identifier) = {a.issue}

-----------------------------------------------------------------------------
(***************************************************************************)
(* Why it works: the counter's row lock makes allocation a critical         *)
(* section, and a team's numbers have no gaps.                              *)
(***************************************************************************)

LocksExclude ==
  \A v, w \in Workers : v # w =>
    /\ rowLock[v] # Absent => rowLock[v] # rowLock[w]
    /\ indexLock[v] \cap indexLock[w] = {}

AllocationsHaveNoGaps ==
  /\ \A a \in aliases : teams[a.team] # Absent /\ a.identifier[2] < teams[a.team].next
  /\ \A t \in Teams : teams[t] # Absent =>
       \A n \in 1 .. (teams[t].next - 1) : \E a \in aliases : a.team = t /\ a.identifier[2] = n
  /\ \A a, b \in aliases :
       a.team = b.team /\ a.identifier[2] = b.identifier[2] => a = b

AllocationIsHeld(w) ==
  request[w].op \in IssueOps =>
    /\ step[w] # "idle" => step[w] # "write team" /\ teams[request[w].team] # Absent
    /\ step[w] \in {"write issue", "store alias", "commit"} =>
         LET t == request[w].team
         IN rowLock[w] = t /\ identifier[w] = <<teams[t].key, teams[t].next>>
    /\ step[w] \in {"store alias", "commit"} =>
         <<"identifier", identifier[w]>> \in indexLock[w]
    /\ step[w] = "commit" => ~Aliased(identifier[w])

TeamIsHeld(w) ==
  step[w] = "commit" /\ request[w].op \notin IssueOps =>
    /\ rowLock[w] = request[w].team
    /\ request[w].op = "insert_team" => teams[request[w].team] = Absent
    /\ request[w].op = "update_team" => teams[request[w].team] # Absent

(***************************************************************************)
(* The inductive invariant: from its counter update to its commit a         *)
(* transaction owns the key and the next number of its team.                *)
(***************************************************************************)
IInv ==
  /\ TypeOK /\ LocksExclude
  /\ IdentifiersAreRecorded /\ AllocationsHaveNoGaps /\ NextIdentifierIsFree
  /\ \A w \in Workers : AllocationIsHeld(w) /\ TeamIsHeld(w)

=============================================================================
