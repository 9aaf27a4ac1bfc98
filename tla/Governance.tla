----------------------------- MODULE Governance ------------------------------
(***************************************************************************)
(* What the governance ports do to a subject's data while the subject still *)
(* writes: apply_retention erases or anonymizes every row of the subject in *)
(* one transaction, collect_export reads them page by page into a document  *)
(* of bounded size, and commands on comments, project updates and           *)
(* assignments run beside both.                                             *)
(*                                                                         *)
(* The receipts of the commands and the commit gate are the subject of      *)
(* CommandPipeline.  As the gate orders activity ids as the commits, the id *)
(* is drawn at the commit here.  All tables share one sequence: only the    *)
(* order within a table is compared.                                        *)
(***************************************************************************)
EXTENDS Naturals, Sequences, SequencesExt, FiniteSets

CONSTANTS
  Workers,      \* concurrent handlers of commands
  Attempts,     \* concurrent apply_retention calls
  Exporters,    \* concurrent collect_export calls
  Subjects, Issues,
  Rank,         \* the order of issue ids (ORDER BY issue_id)
  Bodies,       \* what clients write
  Empty,        \* the empty body
  Octets,       \* Octets[b]: octet_length of a body
  RowBytes,     \* RowBytes[b]: what a row with the body takes in an export
  Frame,        \* what the frame of a section takes in an export
  Actions,      \* retention action ids
  Nobody,       \* no assignee
  Absent,       \* no such row
  MaxSeq,       \* how many row_seq values and activity ids there are
  MaxAhead,     \* bound: how far a client guesses a revision ahead of the current one
  ExportLimit,  \* EXPORT_PAGE_SIZE
  Budget,       \* max_bytes
  FirstRows, FirstAssignee, \* the rows there are initially
  Requests, RetentionRequests, ExportRequests \* what is called

\* A tombstone is named by the action that left it.
Owners == Subjects \cup Actions

AuthoredTables == {"comments", "project_updates"}

Row == [table : {"comments"}, owner : Owners, body : Bodies \cup {Empty}, deleted : BOOLEAN]
         \cup [table : {"project_updates"}, owner : Owners, body : Bodies \cup {Empty}]
         \cup [table : {"activity"}, owner : Owners, body : {Empty}]

Request ==
  [op : {"add_comment", "create_project_update"}, actor : Subjects, body : Bodies]
    \cup [op : {"update_comment"}, actor : Subjects, body : Bodies]
    \cup [op : {"delete_comment"}, actor : Subjects]
    \cup [op : {"set_issue_assignee"}, actor : Subjects, at : Issues,
          assignee : Subjects \cup {Nobody}]

RetentionRequest == [action : Actions, subject : Subjects, mode : {"delete", "anonymize"}]

Receipt == [subject : Subjects, mode : {"delete", "anonymize"}]

\* The order both of the statements of apply_retention and of the sections of
\* an export.
Sections == <<"comments", "project_updates", "activity", "issues">>

ASSUME RequestsAssumption ==
  /\ Requests \subseteq Request /\ Requests # {}
  /\ RetentionRequests \subseteq RetentionRequest /\ RetentionRequests # {}
  /\ ExportRequests \subseteq Subjects /\ ExportRequests # {}
ASSUME BytesAssumption ==
  /\ ExportLimit \in Nat \ {0} /\ Budget \in Nat /\ Frame \in Nat
  /\ \A b \in Bodies \cup {Empty} :
       Octets[b] \in Nat /\ RowBytes[b] \in Nat /\ Octets[b] <= RowBytes[b]
ASSUME FirstAssumption ==
  /\ FirstRows \in Seq(Row) /\ Len(FirstRows) <= MaxSeq
  /\ \A n \in DOMAIN FirstRows : FirstRows[n].owner \in Subjects
  /\ FirstAssignee \in [Issues -> Subjects \cup {Nobody}]
\* A cursor of 0 is none: the first page of a section has no lower bound.
ASSUME RankAssumption ==
  /\ IsFiniteSet(Issues) /\ Rank \in [Issues -> Nat \ {0}]
  /\ \A m, n \in Issues : Rank[m] = Rank[n] => m = n
ASSUME SentinelsAssumption ==
  /\ Absent \notin Row \cup Receipt
  /\ Nobody \notin Subjects
\* No subject is spelled as a tombstone is, and names of rows of different
\* tables differ.
ASSUME NamesAssumption ==
  /\ MaxSeq \in Nat /\ MaxAhead \in Nat
  /\ Subjects \cap Actions = {}
  /\ Issues \cap (0..MaxSeq) = {}
  /\ Actions \cap (0..MaxSeq \cup Issues) = {}
ASSUME HandlersAssumption ==
  /\ Workers \cap (Attempts \cup Exporters) = {}
  /\ Attempts \cap Exporters = {}

VARIABLES
  rows,       \* committed comments, project_updates and project_activity rows
  nextSeq,    \* the next row_seq or activity_id
  assignee,   \* issues.assignee_subject
  receipts,   \* committed project_retention_receipts rows
  guessed,    \* history: the comments whose body update_comment wrote by a guess
  step,       \* what a worker, attempt or exporter does next
  request,    \* what it has been called with
  target,     \* the row a worker writes
  ahead,      \* how far its expected_revision is ahead of the row's
  outdated,   \* whether the row's is past it
  guesses,    \* the workers whose expected_revision was ahead when they began
  exclusive,  \* the rows a transaction has locked or inserted
  section,    \* the statement of an attempt, or the section of an exporter
  pending,    \* the rows the statement of an attempt has found
  eligible,   \* history: the subject's rows when an attempt began
  after,      \* the last row an exporter has written in its section
  buffer,     \* the rows still to come from its current page
  count,      \* how many rows the page has yielded
  spent,      \* the bytes it has written
  output,     \* the rows it has written
  stable      \* history: the rows the subject has owned since it began

dbVars == <<rows, nextSeq, assignee, receipts, guessed>>
workerVars == <<target, ahead, outdated, guesses>>
attemptVars == <<pending, eligible>>
exporterVars == <<after, buffer, count, spent, output, stable>>
vars == <<dbVars, step, request, exclusive, section, workerVars, attemptVars, exporterVars>>

Handlers == Workers \cup Attempts \cup Exporters
Transactions == Workers \cup Attempts
Seqs == 1..MaxSeq
Rows == Seqs \cup Issues

-----------------------------------------------------------------------------

InTable(id, table) ==
  IF table = "issues" THEN id \in Issues
  ELSE id \in Seqs /\ rows[id] # Absent /\ rows[id].table = table

Owner(id) ==
  IF id \in Issues THEN assignee[id]
  ELSE IF rows[id] = Absent THEN Nobody ELSE rows[id].owner

OwnedIn(table, subject) == {id \in Rows : InTable(id, table) /\ Owner(id) = subject}

Owned(subject) == {id \in Rows : Owner(id) = subject}

Position(id) == IF id \in Issues THEN Rank[id] ELSE id

At(h, s, ops) == step[h] = s /\ request[h].op \in ops

Goto(h, s) == step' = [step EXCEPT ![h] = s]

CanLock(h, row) == \A v \in Transactions \ {h} : row \notin exclusive[v]

Lock(h, row) ==
  /\ CanLock(h, row)
  /\ exclusive' = [exclusive EXCEPT ![h] = @ \cup {row}]

(***************************************************************************)
(* The commands.  A client names the revision it has been told, or one that *)
(* the row has not reached yet; one that is past would be refused.          *)
(***************************************************************************)
Insertions == {"add_comment", "create_project_update"}
CommentEdits == {"update_comment", "delete_comment"}

\* Who edits a comment is compared with its author before the transaction.
Begin(w, r, n) ==
  /\ step[w] = "idle"
  /\ \E id \in Rows \cup {0} :
       /\ r.op \in CommentEdits => InTable(id, "comments") /\ Owner(id) = r.actor
       /\ r.op = "set_issue_assignee" => id = r.at
       /\ r.op \in Insertions => id = 0
       /\ target' = [target EXCEPT ![w] = id]
  /\ Goto(w, "begun")
  /\ request' = [request EXCEPT ![w] = r]
  /\ n > 0 => r.op \notin Insertions
  /\ ahead' = [ahead EXCEPT ![w] = n]
  /\ guesses' = IF n > 0 THEN guesses \cup {w} ELSE guesses
  /\ UNCHANGED <<dbVars, exclusive, section, outdated, attemptVars, exporterVars>>

InsertRow(w) ==
  /\ At(w, "begun", Insertions)
  /\ nextSeq < MaxSeq
  /\ target' = [target EXCEPT ![w] = nextSeq]
  /\ nextSeq' = nextSeq + 1
  /\ Goto(w, "ready")
  /\ UNCHANGED <<rows, assignee, receipts, guessed, request, exclusive, section, ahead,
                 outdated, guesses, attemptVars, exporterVars>>

UpdateRow(w) ==
  /\ At(w, "begun", CommentEdits \cup {"set_issue_assignee"})
  /\ Lock(w, target[w])
  /\ ahead[w] = 0 /\ ~outdated[w]
  /\ request[w].op = "update_comment" => ~rows[target[w]].deleted
  /\ Goto(w, "ready")
  /\ UNCHANGED <<dbVars, request, section, workerVars, attemptVars, exporterVars>>

Written(w) ==
  LET r == request[w]
      row == rows[target[w]]
  IN CASE r.op = "add_comment" ->
            [table |-> "comments", owner |-> r.actor, body |-> r.body, deleted |-> FALSE]
       [] r.op = "create_project_update" ->
            [table |-> "project_updates", owner |-> r.actor, body |-> r.body]
       [] r.op = "update_comment" -> [row EXCEPT !.body = r.body]
       [] r.op = "delete_comment" -> [row EXCEPT !.body = Empty, !.deleted = TRUE]

\* The row's author is not compared again: only the revision is.
Outdate(ids) ==
  LET expecting == {w \in Workers : step[w] = "begun" /\ target[w] \in ids}
  IN /\ outdated' = [w \in Workers |->
          step'[w] # "idle" /\ (outdated[w] \/ (w \in expecting /\ ahead[w] = 0))]
     /\ ahead' = [w \in Workers |->
          IF w \in expecting /\ ahead[w] > 0 THEN ahead[w] - 1 ELSE ahead[w]]

EndCommand(w) ==
  /\ Goto(w, "idle")
  /\ request' = [request EXCEPT ![w] = CHOOSE r \in Requests : TRUE]
  /\ target' = [target EXCEPT ![w] = 0]
  /\ exclusive' = [exclusive EXCEPT ![w] = {}]
  /\ guesses' = guesses \ {w}

Abort(w) ==
  /\ step[w] # "idle"
  /\ EndCommand(w)
  /\ ahead' = [ahead EXCEPT ![w] = 0]
  /\ outdated' = [outdated EXCEPT ![w] = FALSE]
  /\ UNCHANGED <<dbVars, section, attemptVars, exporterVars>>

StillOwned ==
  stable' = [x \in Exporters |-> {id \in stable[x] : Owner(id)' = request[x]}]

Commit(w) ==
  LET r == request[w]
      activity == [table |-> "activity", owner |-> r.actor, body |-> Empty]
  IN /\ step[w] = "ready"
     /\ nextSeq <= MaxSeq
     /\ rows' = [seq \in Seqs |->
          IF seq = nextSeq THEN activity
          ELSE IF seq = target[w] THEN Written(w) ELSE rows[seq]]
     /\ assignee' = [i \in Issues |->
          IF r.op = "set_issue_assignee" /\ i = r.at THEN r.assignee ELSE assignee[i]]
     /\ nextSeq' = nextSeq + 1
     /\ guessed' = IF w \in guesses /\ r.op = "update_comment"
                     THEN guessed \cup {target[w]} ELSE guessed
     /\ EndCommand(w)
     /\ Outdate({target[w]})
     \* What a command assigns anew is not what an attempt found when it began.
     /\ eligible' = [a \in Attempts |-> eligible[a] \ (Issues \cap {target[w]})]
     /\ StillOwned
     /\ UNCHANGED <<receipts, section, pending, after, buffer, count, spent, output>>

(***************************************************************************)
(* apply_retention.                                                         *)
(***************************************************************************)
BeginRetention(a, r) ==
  /\ step[a] = "idle"
  /\ Goto(a, "read_receipt")
  /\ request' = [request EXCEPT ![a] = r]
  /\ section' = [section EXCEPT ![a] = 1]
  /\ eligible' = [eligible EXCEPT ![a] = Owned(r.subject)]
  /\ UNCHANGED <<dbVars, exclusive, workerVars, pending, exporterVars>>

\* Defect: the stored receipt is replayed for any request.
ReadReceiptOfAnyRequest(a) ==
  LET r == request[a]
  IN /\ step[a] = "read_receipt"
     /\ Goto(a, IF receipts[r.action] = Absent THEN "select" ELSE "replayed")
     /\ UNCHANGED <<dbVars, request, exclusive, section, workerVars, attemptVars,
                    exporterVars>>

\* A receipt that is not there is not locked either.
ReadReceipt(a) ==
  LET r == request[a]
  IN /\ step[a] = "read_receipt"
     /\ receipts[r.action] \in {Absent, [subject |-> r.subject, mode |-> r.mode]}
     /\ Goto(a, IF receipts[r.action] = Absent THEN "select" ELSE "replayed")
     /\ UNCHANGED <<dbVars, request, exclusive, section, workerVars, attemptVars,
                    exporterVars>>

\* Each statement finds the rows that are the subject's when it begins ...
SelectRows(a) ==
  /\ step[a] = "select"
  /\ pending' = [pending EXCEPT ![a] = OwnedIn(Sections[section[a]], request[a].subject)]
  /\ Goto(a, "erase")
  /\ UNCHANGED <<dbVars, request, exclusive, section, workerVars, eligible, exporterVars>>

\* Defect: rows that another transaction has locked are skipped.
EraseRowUnlessLocked(a, id) ==
  /\ step[a] = "erase" /\ id \in pending[a]
  /\ pending' = [pending EXCEPT ![a] = @ \ {id}]
  /\ IF CanLock(a, id) /\ Owner(id) = request[a].subject
       THEN exclusive' = [exclusive EXCEPT ![a] = @ \cup {id}]
       ELSE UNCHANGED exclusive
  /\ UNCHANGED <<dbVars, step, request, section, workerVars, eligible, exporterVars>>

\* ... waits for each, and writes those that still are.
EraseRow(a, id) ==
  /\ step[a] = "erase" /\ id \in pending[a]
  /\ CanLock(a, id)
  /\ pending' = [pending EXCEPT ![a] = @ \ {id}]
  /\ IF Owner(id) = request[a].subject
       THEN exclusive' = [exclusive EXCEPT ![a] = @ \cup {id}]
       ELSE UNCHANGED exclusive
  /\ UNCHANGED <<dbVars, step, request, section, workerVars, eligible, exporterVars>>

EndStatement(a) ==
  /\ step[a] = "erase" /\ pending[a] = {}
  /\ IF section[a] < Len(Sections)
       THEN section' = [section EXCEPT ![a] = @ + 1] /\ Goto(a, "select")
       ELSE UNCHANGED section /\ Goto(a, "store_receipt")
  /\ UNCHANGED <<dbVars, request, exclusive, workerVars, attemptVars, exporterVars>>

\* The primary key lets one attempt of an action store its receipt.
StoreReceipt(a) ==
  /\ step[a] = "store_receipt"
  /\ Lock(a, request[a].action)
  /\ receipts[request[a].action] = Absent
  /\ Goto(a, "commit")
  /\ UNCHANGED <<dbVars, request, section, workerVars, attemptVars, exporterVars>>

Erased(row, r) ==
  IF r.mode = "delete" /\ row.table \in AuthoredTables
    THEN [row EXCEPT !.owner = r.action, !.body = Empty]
    ELSE [row EXCEPT !.owner = r.action]

\* Defect: the revision of an erased comment does not change.
RevisedWithoutComments(a) == exclusive[a] \cap Issues

\* Comments and issues have a revision.
Revised(a) == {id \in exclusive[a] : InTable(id, "comments") \/ id \in Issues}

CommitRetention(a) ==
  LET r == request[a]
  IN /\ step[a] = "commit"
     /\ rows' = [seq \in Seqs |->
          IF seq \in exclusive[a] THEN Erased(rows[seq], r) ELSE rows[seq]]
     /\ assignee' = [i \in Issues |->
          IF i \in exclusive[a] THEN Nobody ELSE assignee[i]]
     /\ receipts' = [receipts EXCEPT ![r.action] = [subject |-> r.subject, mode |-> r.mode]]
     /\ guessed' = guessed \ exclusive[a]
     /\ exclusive' = [exclusive EXCEPT ![a] = {}]
     /\ Goto(a, "applied")
     /\ Outdate(Revised(a))
     /\ StillOwned
     /\ UNCHANGED <<nextSeq, request, section, target, guesses, attemptVars, after, buffer,
                    count, spent, output>>

\* The call has been answered, or fails.
EndRetention(a) ==
  /\ step[a] # "idle"
  /\ Goto(a, "idle")
  /\ request' = [request EXCEPT ![a] = CHOOSE r \in RetentionRequests : TRUE]
  /\ section' = [section EXCEPT ![a] = 1]
  /\ pending' = [pending EXCEPT ![a] = {}]
  /\ eligible' = [eligible EXCEPT ![a] = {}]
  /\ exclusive' = [exclusive EXCEPT ![a] = {}]
  /\ UNCHANGED <<dbVars, workerVars, exporterVars>>

(***************************************************************************)
(* collect_export.  A page is one statement: its rows, and whether a body   *)
(* is longer than what was left when it began, are those of its snapshot.   *)
(***************************************************************************)
BeginExport(x, subject) ==
  /\ step[x] = "idle"
  /\ Goto(x, "open_section")
  /\ request' = [request EXCEPT ![x] = subject]
  /\ section' = [section EXCEPT ![x] = 1]
  /\ stable' = [stable EXCEPT ![x] = Owned(subject)]
  /\ UNCHANGED <<dbVars, exclusive, workerVars, attemptVars, after, buffer, count,
                 spent, output>>

Remaining(x) == Budget - spent[x]

Stop(x) ==
  /\ Goto(x, "exhausted")
  /\ UNCHANGED <<section, after, buffer, count, spent, output>>

OpenSection(x) ==
  /\ step[x] = "open_section"
  /\ \/ /\ Frame <= Remaining(x)
        /\ spent' = [spent EXCEPT ![x] = @ + Frame]
        /\ after' = [after EXCEPT ![x] = 0]
        /\ Goto(x, "fetch_page")
        /\ UNCHANGED <<section, buffer, count, output>>
     \/ /\ Frame > Remaining(x)
        /\ Stop(x)
  /\ UNCHANGED <<dbVars, request, exclusive, workerVars, attemptVars, stable>>

BodyOf(id) == IF id \in Issues THEN Empty ELSE rows[id].body

\* The rows after the cursor, as ORDER BY lists them.
Found(x) == {id \in OwnedIn(Sections[section[x]], request[x]) : Position(id) > after[x]}

Ordered(ids) ==
  CHOOSE list \in [1..Cardinality(ids) -> ids] :
    \A m, n \in 1..Cardinality(ids) : m < n => Position(list[m]) < Position(list[n])

Page(x) ==
  LET size == Cardinality(Found(x))
  IN SubSeq(Ordered(Found(x)), 1, IF size > ExportLimit THEN ExportLimit ELSE size)

FetchExportPage(x) ==
  /\ step[x] = "fetch_page"
  /\ buffer' = [buffer EXCEPT ![x] = [n \in DOMAIN Page(x) |->
       [id |-> Page(x)[n], body |-> BodyOf(Page(x)[n]),
        fits |-> Octets[BodyOf(Page(x)[n])] <= Remaining(x)]]]
  /\ count' = [count EXCEPT ![x] = 0]
  /\ Goto(x, "write_rows")
  /\ UNCHANGED <<dbVars, request, exclusive, section, workerVars, attemptVars, after,
                 spent, output, stable>>

Fits(x, row) == row.fits /\ RowBytes[row.body] <= Remaining(x)

WriteExportRow(x) ==
  LET row == Head(buffer[x])
  IN /\ step[x] = "write_rows" /\ buffer[x] # <<>>
     /\ \/ /\ Fits(x, row)
           /\ spent' = [spent EXCEPT ![x] = @ + RowBytes[row.body]]
           /\ output' = [output EXCEPT ![x] = Append(@, row.id)]
           /\ after' = [after EXCEPT ![x] = Position(row.id)]
           /\ count' = [count EXCEPT ![x] = @ + 1]
           /\ buffer' = [buffer EXCEPT ![x] = Tail(@)]
           /\ UNCHANGED <<step, section>>
        \/ /\ ~Fits(x, row)
           /\ Stop(x)
     /\ UNCHANGED <<dbVars, request, exclusive, workerVars, attemptVars, stable>>

\* Defect: a page that is exactly full is taken for the last one.
LastPageUpToLimit(x) == count[x] <= ExportLimit

LastPage(x) == count[x] < ExportLimit

EndPage(x) ==
  /\ step[x] = "write_rows" /\ buffer[x] = <<>>
  /\ \/ /\ ~LastPage(x)
        /\ Goto(x, "fetch_page")
        /\ UNCHANGED section
     \/ /\ LastPage(x) /\ section[x] < Len(Sections)
        /\ section' = [section EXCEPT ![x] = @ + 1]
        /\ Goto(x, "open_section")
     \/ /\ LastPage(x) /\ section[x] = Len(Sections)
        /\ Goto(x, "exported")
        /\ UNCHANGED section
  /\ UNCHANGED <<dbVars, request, exclusive, workerVars, attemptVars, exporterVars>>

EndExport(x) ==
  /\ step[x] # "idle"
  /\ Goto(x, "idle")
  /\ request' = [request EXCEPT ![x] = CHOOSE s \in ExportRequests : TRUE]
  /\ section' = [section EXCEPT ![x] = 1]
  /\ after' = [after EXCEPT ![x] = 0]
  /\ buffer' = [buffer EXCEPT ![x] = <<>>]
  /\ count' = [count EXCEPT ![x] = 0]
  /\ spent' = [spent EXCEPT ![x] = 0]
  /\ output' = [output EXCEPT ![x] = <<>>]
  /\ stable' = [stable EXCEPT ![x] = {}]
  /\ UNCHANGED <<dbVars, exclusive, workerVars, attemptVars>>

-----------------------------------------------------------------------------

Command(w) == InsertRow(w) \/ UpdateRow(w) \/ Commit(w) \/ Abort(w)

Retain(a) ==
  \/ ReadReceipt(a) \/ SelectRows(a) \/ (\E id \in Rows : EraseRow(a, id))
  \/ EndStatement(a) \/ StoreReceipt(a) \/ CommitRetention(a) \/ EndRetention(a)

Export(x) ==
  \/ OpenSection(x) \/ FetchExportPage(x) \/ WriteExportRow(x) \/ EndPage(x)
  \/ EndExport(x)

Init ==
  /\ rows = [seq \in Seqs |-> IF seq <= Len(FirstRows) THEN FirstRows[seq] ELSE Absent]
  /\ nextSeq = Len(FirstRows) + 1
  /\ assignee = FirstAssignee
  /\ receipts = [action \in Actions |-> Absent]
  /\ step = [h \in Handlers |-> "idle"]
  /\ request = [h \in Handlers |->
       CASE h \in Workers -> CHOOSE r \in Requests : TRUE
         [] h \in Attempts -> CHOOSE r \in RetentionRequests : TRUE
         [] OTHER -> CHOOSE s \in ExportRequests : TRUE]
  /\ target = [w \in Workers |-> 0]
  /\ guessed = {}
  /\ ahead = [w \in Workers |-> 0]
  /\ outdated = [w \in Workers |-> FALSE]
  /\ guesses = {}
  /\ exclusive = [h \in Transactions |-> {}]
  /\ section = [h \in Attempts \cup Exporters |-> 1]
  /\ pending = [a \in Attempts |-> {}]
  /\ eligible = [a \in Attempts |-> {}]
  /\ after = [x \in Exporters |-> 0]
  /\ buffer = [x \in Exporters |-> <<>>]
  /\ count = [x \in Exporters |-> 0]
  /\ spent = [x \in Exporters |-> 0]
  /\ output = [x \in Exporters |-> <<>>]
  /\ stable = [x \in Exporters |-> {}]

Next ==
  \/ \E w \in Workers :
       Command(w) \/ \E r \in Requests, n \in 0..MaxAhead : Begin(w, r, n)
  \/ \E a \in Attempts : Retain(a) \/ \E r \in RetentionRequests : BeginRetention(a, r)
  \/ \E x \in Exporters : Export(x) \/ \E s \in ExportRequests : BeginExport(x, s)

Spec == Init /\ [][Next]_vars

-----------------------------------------------------------------------------
(***************************************************************************)
(* Correctness properties                                                   *)
(***************************************************************************)

(***************************************************************************)
(* Type invariant.                                                          *)
(***************************************************************************)
TypeOK ==
  /\ rows \in [Seqs -> Row \cup {Absent}]
  /\ nextSeq \in 1..MaxSeq + 1
  /\ assignee \in [Issues -> Subjects \cup {Nobody}]
  /\ \A action \in Actions :
       receipts[action] \in Receipt \cup {Absent}
  /\ step \in [Handlers ->
       {"idle", "begun", "ready", "read_receipt", "replayed", "select", "erase",
        "store_receipt", "commit", "applied", "open_section", "fetch_page",
        "write_rows", "exported", "exhausted"}]
  /\ \A w \in Workers : request[w] \in Requests /\ target[w] \in Rows \cup {0}
  /\ \A a \in Attempts : request[a] \in RetentionRequests
  /\ \A x \in Exporters : request[x] \in ExportRequests /\ spent[x] \in 0..Budget
  /\ guessed \subseteq Seqs /\ guesses \subseteq Workers
  /\ ahead \in [Workers -> 0..MaxAhead] /\ outdated \in [Workers -> BOOLEAN]
  /\ exclusive \in [Transactions -> SUBSET (Rows \cup Actions)]
  /\ section \in [Attempts \cup Exporters -> DOMAIN Sections]
  /\ pending \in [Attempts -> SUBSET Rows] /\ eligible \in [Attempts -> SUBSET Rows]
  /\ after \in [Exporters -> Nat]
  /\ \A x \in Exporters : count[x] + Len(buffer[x]) <= ExportLimit
  /\ stable \in [Exporters -> SUBSET Rows]

(***************************************************************************)
(* When apply_retention answers that it has applied an action, none of the  *)
(* rows that carried the subject when it began carries it any more, also    *)
(* those that commands were writing meanwhile.  (Rows that commands commit  *)
(* later may carry it again, and no promise is made for those.)             *)
(***************************************************************************)
EverythingOldIsErased ==
  \A a \in Attempts : step[a] = "applied" =>
    \A id \in eligible[a] : Owner(id) # request[a].subject

(***************************************************************************)
(* A body that a delete action has erased stays erased: an update_comment   *)
(* of the former author that was in flight, past its author check, finds a  *)
(* revision it does not expect.  Only when its client has guessed, before   *)
(* the erasure, a revision that the erasure then gives the row does it      *)
(* write a body, as its UPDATE compares nothing else.                       *)
(***************************************************************************)
ErasedStaysErased ==
  \A id \in Seqs : rows[id] # Absent /\ rows[id].owner \in Actions =>
    /\ receipts[rows[id].owner] # Absent
    /\ receipts[rows[id].owner].mode = "delete" => rows[id].body = Empty \/ id \in guessed

(***************************************************************************)
(* A retention answer, first or replayed, is the answer of an action that   *)
(* has been committed for just this subject and mode, also when two calls   *)
(* of the action race: the receipt row is not there to be locked.           *)
(***************************************************************************)
RetentionAnswersMatch ==
  \A a \in Attempts : step[a] \in {"applied", "replayed"} =>
    receipts[request[a].action] = [subject |-> request[a].subject, mode |-> request[a].mode]

(***************************************************************************)
(* An export that succeeds has every row the subject owned from its         *)
(* beginning to its end, none twice, although each page is a snapshot of    *)
(* its own; and one that gives up for its size has a row or frame before it *)
(* that does not fit.                                                       *)
(***************************************************************************)
ExportIsComplete ==
  \A x \in Exporters :
    /\ step[x] = "exported" => stable[x] \subseteq ToSet(output[x])
    /\ \A m, n \in DOMAIN output[x] : m < n =>
         output[x][m] # output[x][n]
    /\ step[x] = "exhausted" =>
         \/ buffer[x] = <<>> /\ spent[x] + Frame > Budget
         \/ buffer[x] # <<>> /\ spent[x] + RowBytes[Head(buffer[x]).body] > Budget

=============================================================================
