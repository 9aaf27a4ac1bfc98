--------------------------- MODULE CommandPipeline ---------------------------
(***************************************************************************)
(* The mutation pipeline every write of the Projects PostgreSQL plugin runs *)
(* through, at the granularity of one SQL statement per action, and the     *)
(* activity feed it publishes:                                              *)
(*                                                                         *)
(*   begin, reserve_command, UPDATE .. WHERE revision = expected,           *)
(*   append_activity (advisory commit gate, then INSERT), complete_command, *)
(*   commit, answer.                                                        *)
(*                                                                         *)
(* Workers are the tasks serving one request each, of one process or of     *)
(* several: they share nothing but the database.  Transactions run under    *)
(* READ COMMITTED, so what one writes stays in its drafts until Commit.     *)
(* The row operations modelled are those whose handler is exactly this      *)
(* pipeline around one compare-and-set UPDATE: archive_project,             *)
(* archive_issue, set_issue_assignee, update_comment and delete_comment.    *)
(***************************************************************************)
EXTENDS Naturals, FiniteSets

CONSTANTS
  Workers,     \* concurrent request handlers, one transaction each
  NoWorker,    \* the owner of a free lock
  Keys,        \* client-chosen idempotency keys
  Entities,    \* rows with a revision column: projects, issues, comments
  Contents,    \* values of assignee_subject or of a comment's body
  Nothing,     \* NULL assignee, empty body
  Requests,    \* the request bodies clients send
  Consumers,   \* checkpointing readers of list_activity
  Scope,       \* Scope[c]: the entities whose activity consumer c reads
  PageLimit,   \* the limit of a list_activity request
  MaxActivity  \* bound: no activity id above it is burned by a rollback

Operations == {"archive_project", "archive_issue", "set_issue_assignee",
               "update_comment", "delete_comment"}

\* A stored row; revision 0 stands for SQL NULL where a row is optional.
Row == [revision : Nat, closed : BOOLEAN, content : Contents]

NoRow == [revision |-> 0, closed |-> FALSE, content |-> Nothing]

\* A row as its create operation leaves it.
InitialRow == [revision |-> 1, closed |-> FALSE, content |-> Nothing]

Request == [op : Operations, entity : Entities, expected : Nat \ {0},
            closed : BOOLEAN, content : Contents]

\* The primary key of project_commands within one caller and actor.
Commands == Operations \X Keys

Activity == [id : Nat, command : Commands, entity : Entities, revision : Nat]

Entry == [command : Commands, request : Request, response : Row]

ASSUME WorkersAssumption == NoWorker \notin Workers
ASSUME ContentsAssumption == Nothing \in Contents
ASSUME RequestsAssumption == Requests \subseteq Request /\ Requests # {}
ASSUME KeysAssumption == Keys # {}
ASSUME ScopeAssumption == Scope \in [Consumers -> SUBSET Entities]
ASSUME BoundsAssumption == PageLimit \in Nat \ {0} /\ MaxActivity \in Nat

VARIABLES
  ledger,        \* committed project_commands rows
  rows,          \* committed projects / issues / comments rows
  feed,          \* committed project_activity rows
  nextActivity,  \* the identity sequence of project_activity
  commandLock,   \* who holds the uncommitted or FOR UPDATE project_commands row
  rowLock,       \* who holds an entity's row lock
  gate,          \* who holds the advisory activity commit gate
  pc,            \* the statement a worker executes next
  request, key,  \* the request a worker serves
  draftRow, draftActivity, draftResponse,  \* its uncommitted writes
  answers,       \* every successful answer a client has received
  cursor,        \* a consumer's durable checkpoint
  page,          \* the page a consumer holds in memory
  nextCursor,    \* the next_cursor returned with that page
  delivered      \* the activity a consumer has processed and checkpointed

dbVars == <<ledger, rows, feed, nextActivity>>
lockVars == <<commandLock, rowLock, gate>>
workerVars == <<pc, request, key, draftRow, draftActivity, draftResponse>>
consumerVars == <<cursor, page, nextCursor, delivered>>
vars == <<dbVars, lockVars, workerVars, answers, consumerVars>>

-----------------------------------------------------------------------------

InTransaction == {"reserve", "lookup", "replay", "update", "gate", "append",
                  "complete", "commit"}

States == InTransaction \cup {"idle", "reply", "aborting"}

\* What the request and key of an idle worker read: it serves none.
NoRequest == CHOOSE r \in Requests : TRUE
NoKey == CHOOSE k \in Keys : TRUE

Command(w) == <<request[w].op, key[w]>>

Recorded(c) == \E e \in ledger : e.command = c

\* Defect: the UPDATE writes the request's content into the flag column.
WrittenSwapped(row, r) ==
  [row EXCEPT !.revision = @ + 1, !.closed = r.content]

\* Defect: the UPDATE does not bump the revision.
WrittenUnversioned(row, r) ==
  [row EXCEPT !.closed = r.closed, !.content = r.content]

(***************************************************************************)
(* The effect of each operation's UPDATE on the row it matches.  "closed"   *)
(* is archived for projects and issues, deleted for comments; "content" is  *)
(* the assignee of an issue, the body of a comment.                         *)
(***************************************************************************)
Written(row, r) ==
  [revision |-> row.revision + 1,
   closed   |-> CASE r.op \in {"archive_project", "archive_issue"} -> r.closed
                  [] r.op = "delete_comment" -> TRUE
                  [] OTHER -> row.closed,
   content  |-> CASE r.op \in {"set_issue_assignee", "update_comment"} -> r.content
                  [] r.op = "delete_comment" -> Nothing
                  [] OTHER -> row.content]

\* The UPDATE's WHERE clause: the revision compare-and-set of every
\* operation, and NOT deleted for update_comment.
Matches(row, r) ==
  /\ row.revision = r.expected
  /\ r.op = "update_comment" => ~row.closed

TypeOK ==
  /\ ledger \subseteq Entry
  /\ rows \in [Entities -> Row]
  /\ feed \subseteq Activity
  /\ nextActivity \in Nat \ {0}
  /\ commandLock \in [Commands -> Workers \cup {NoWorker}]
  /\ rowLock \in [Entities -> Workers \cup {NoWorker}]
  /\ gate \in Workers \cup {NoWorker}
  /\ pc \in [Workers -> States]
  /\ request \in [Workers -> Requests]
  /\ key \in [Workers -> Keys]
  /\ draftRow \in [Workers -> Row]
  /\ draftActivity \in [Workers -> SUBSET Activity]
  /\ draftResponse \in [Workers -> Row]
  /\ answers \subseteq Entry
  /\ cursor \in [Consumers -> Nat]
  /\ page \in [Consumers -> SUBSET Activity]
  /\ nextCursor \in [Consumers -> Nat]
  /\ delivered \in [Consumers -> SUBSET Activity]

Init ==
  /\ ledger = {}
  /\ rows = [e \in Entities |-> InitialRow]
  /\ feed = {}
  /\ nextActivity = 1
  /\ commandLock = [c \in Commands |-> NoWorker]
  /\ rowLock = [e \in Entities |-> NoWorker]
  /\ gate = NoWorker
  /\ pc = [w \in Workers |-> "idle"]
  /\ request = [w \in Workers |-> NoRequest]
  /\ key = [w \in Workers |-> NoKey]
  /\ draftRow = [w \in Workers |-> NoRow]
  /\ draftActivity = [w \in Workers |-> {}]
  /\ draftResponse = [w \in Workers |-> NoRow]
  /\ answers = {}
  /\ cursor = [c \in Consumers |-> 0]
  /\ page = [c \in Consumers |-> {}]
  /\ nextCursor = [c \in Consumers |-> 0]
  /\ delivered = [c \in Consumers |-> {}]

-----------------------------------------------------------------------------
(***************************************************************************)
(* A worker's statements.                                                   *)
(***************************************************************************)

Goto(w, state) == pc' = [pc EXCEPT ![w] = state]

\* A client sends a request, or sends one again, under a key of its choice.
\* The handler's checks before the transaction (visibility, authorship, a
\* well-formed revision) have passed; a request they refuse touches nothing.
Submit(w, r, k) ==
  /\ pc[w] = "idle"
  /\ request' = [request EXCEPT ![w] = r]
  /\ key' = [key EXCEPT ![w] = k]
  /\ Goto(w, "reserve")
  /\ UNCHANGED <<dbVars, lockVars, draftRow, draftActivity, draftResponse,
                 answers, consumerVars>>

\* Defect: a key check that does not wait for an uncommitted reservation.
ReserveWithoutWaiting(w) ==
  /\ pc[w] = "reserve"
  /\ commandLock' = [commandLock EXCEPT ![Command(w)] = w]
  /\ Goto(w, IF Recorded(Command(w)) THEN "lookup" ELSE "update")
  /\ UNCHANGED <<dbVars, rowLock, gate, request, key, draftRow, draftActivity,
                 draftResponse, answers, consumerVars>>

\* reserve_command's INSERT .. ON CONFLICT DO NOTHING: it waits for a
\* transaction that has inserted the same key and not ended, and inserts
\* nothing when the key is committed.
ReserveInsert(w) ==
  /\ pc[w] = "reserve"
  /\ \/ /\ Recorded(Command(w))
        /\ Goto(w, "lookup")
        /\ UNCHANGED commandLock
     \/ /\ ~Recorded(Command(w))
        /\ commandLock[Command(w)] = NoWorker
        /\ commandLock' = [commandLock EXCEPT ![Command(w)] = w]
        /\ Goto(w, "update")
  /\ UNCHANGED <<dbVars, rowLock, gate, request, key, draftRow, draftActivity,
                 draftResponse, answers, consumerVars>>

\* Defect: the stored response answers whatever request reuses the key.
LookupIgnoringRequest(w) ==
  /\ pc[w] = "lookup"
  /\ commandLock[Command(w)] = NoWorker
  /\ commandLock' = [commandLock EXCEPT ![Command(w)] = w]
  /\ \E e \in ledger :
       /\ e.command = Command(w)
       /\ draftResponse' = [draftResponse EXCEPT ![w] = e.response]
       /\ Goto(w, "replay")
  /\ UNCHANGED <<dbVars, rowLock, gate, request, key, draftRow, draftActivity,
                 answers, consumerVars>>

\* reserve_command's SELECT .. FOR UPDATE of the committed row: the same
\* request is answered with the stored response; another request under the
\* key (IdempotencyConflict) or a row without a response is an error.
ReserveLookup(w) ==
  /\ pc[w] = "lookup"
  /\ commandLock[Command(w)] = NoWorker
  /\ commandLock' = [commandLock EXCEPT ![Command(w)] = w]
  /\ \E e \in ledger :
       /\ e.command = Command(w)
       /\ \/ /\ e.request = request[w]
             /\ e.response # NoRow
             /\ draftResponse' = [draftResponse EXCEPT ![w] = e.response]
             /\ Goto(w, "replay")
          \/ /\ e.request # request[w] \/ e.response = NoRow
             /\ Goto(w, "aborting")
             /\ UNCHANGED draftResponse
  /\ UNCHANGED <<dbVars, rowLock, gate, request, key, draftRow, draftActivity,
                 answers, consumerVars>>

\* An UPDATE with some WHERE clause and some rule for a locked row.
UpdateWhere(w, matches, available) ==
  LET e == request[w].entity
  IN  /\ pc[w] = "update"
      /\ matches /\ available
      /\ rowLock' = [rowLock EXCEPT ![e] = w]
      /\ draftRow' = [draftRow EXCEPT ![w] = Written(rows[e], request[w])]
      /\ Goto(w, "gate")
      /\ UNCHANGED <<dbVars, commandLock, gate, request, key, draftActivity,
                     draftResponse, answers, consumerVars>>

\* Defect: the UPDATE does not compare the expected revision.
UpdateUnchecked(w) ==
  UpdateWhere(w, TRUE, rowLock[request[w].entity] = NoWorker)

\* The operation's UPDATE.  A row another transaction has updated is waited
\* for and its WHERE clause evaluated again; a row that does not match is an
\* error at once (RevisionConflict).
UpdateRow(w) ==
  LET r == request[w]
      row == rows[r.entity]
  IN  /\ pc[w] = "update"
      /\ \/ /\ Matches(row, r)
            /\ rowLock[r.entity] = NoWorker
            /\ rowLock' = [rowLock EXCEPT ![r.entity] = w]
            /\ draftRow' = [draftRow EXCEPT ![w] = Written(row, r)]
            /\ Goto(w, "gate")
         \/ /\ ~Matches(row, r)
            /\ Goto(w, "aborting")
            /\ UNCHANGED <<rowLock, draftRow>>
      /\ UNCHANGED <<dbVars, commandLock, gate, request, key, draftActivity,
                     draftResponse, answers, consumerVars>>

\* Defect: no commit gate.
AppendWithoutGate(w) ==
  /\ pc[w] = "gate"
  /\ Goto(w, "append")
  /\ UNCHANGED <<dbVars, lockVars, request, key, draftRow, draftActivity,
                 draftResponse, answers, consumerVars>>

\* append_activity's first statement: pg_advisory_xact_lock.
AcquireGate(w) ==
  /\ pc[w] = "gate"
  /\ gate = NoWorker
  /\ gate' = w
  /\ Goto(w, "append")
  /\ UNCHANGED <<dbVars, commandLock, rowLock, request, key, draftRow,
                 draftActivity, draftResponse, answers, consumerVars>>

\* append_activity's INSERT: the identity sequence moves at once and does
\* not move back when the transaction does not commit.
AppendActivity(w) ==
  /\ pc[w] = "append"
  /\ nextActivity' = nextActivity + 1
  /\ draftActivity' = [draftActivity EXCEPT ![w] =
       {[id |-> nextActivity, command |-> Command(w),
         entity |-> request[w].entity, revision |-> draftRow[w].revision]}]
  /\ Goto(w, "complete")
  /\ UNCHANGED <<ledger, rows, feed, lockVars, request, key, draftRow,
                 draftResponse, answers, consumerVars>>

\* complete_command stores the response in the reserved row.
CompleteCommand(w) ==
  /\ pc[w] = "complete"
  /\ draftResponse' = [draftResponse EXCEPT ![w] = draftRow[w]]
  /\ Goto(w, "commit")
  /\ UNCHANGED <<dbVars, lockVars, request, key, draftRow, draftActivity,
                 answers, consumerVars>>

\* Defect: a session-level advisory lock, which the commit does not release.
ReleaseRowLocksOnly(w) ==
  /\ commandLock' = [c \in Commands |->
       IF commandLock[c] = w THEN NoWorker ELSE commandLock[c]]
  /\ rowLock' = [e \in Entities |->
       IF rowLock[e] = w THEN NoWorker ELSE rowLock[e]]
  /\ UNCHANGED gate

\* Locks are held to the end of the transaction, then all released: row locks
\* by PostgreSQL, the gate because pg_advisory_xact_lock takes it.
ReleaseLocks(w) ==
  /\ commandLock' = [c \in Commands |->
       IF commandLock[c] = w THEN NoWorker ELSE commandLock[c]]
  /\ rowLock' = [e \in Entities |->
       IF rowLock[e] = w THEN NoWorker ELSE rowLock[e]]
  /\ gate' = IF gate = w THEN NoWorker ELSE gate

\* Defect: the receipt is not part of the transaction and is lost.
CommitWithoutReceipt(w) ==
  /\ pc[w] = "commit"
  /\ rows' = [rows EXCEPT ![request[w].entity] = draftRow[w]]
  /\ feed' = feed \cup draftActivity[w]
  /\ draftRow' = [draftRow EXCEPT ![w] = NoRow]
  /\ draftActivity' = [draftActivity EXCEPT ![w] = {}]
  /\ ReleaseLocks(w)
  /\ Goto(w, "reply")
  /\ UNCHANGED <<ledger, nextActivity, request, key, draftResponse, answers, consumerVars>>

\* The commit of a new command makes its four writes visible together.
Commit(w) ==
  /\ pc[w] = "commit"
  /\ ledger' = ledger \cup {[command |-> Command(w), request |-> request[w],
                             response |-> draftResponse[w]]}
  /\ rows' = [rows EXCEPT ![request[w].entity] = draftRow[w]]
  /\ feed' = feed \cup draftActivity[w]
  /\ draftRow' = [draftRow EXCEPT ![w] = NoRow]
  /\ draftActivity' = [draftActivity EXCEPT ![w] = {}]
  /\ ReleaseLocks(w)
  /\ Goto(w, "reply")
  /\ UNCHANGED <<nextActivity, request, key, draftResponse, answers, consumerVars>>

\* The commit of a replay only ends the transaction.
CommitReplay(w) ==
  /\ pc[w] = "replay"
  /\ ReleaseLocks(w)
  /\ Goto(w, "reply")
  /\ UNCHANGED <<dbVars, request, key, draftRow, draftActivity, draftResponse,
                 answers, consumerVars>>

\* The worker is done with its request.
ClearSession(w) ==
  /\ Goto(w, "idle")
  /\ request' = [request EXCEPT ![w] = NoRequest]
  /\ key' = [key EXCEPT ![w] = NoKey]
  /\ draftRow' = [draftRow EXCEPT ![w] = NoRow]
  /\ draftActivity' = [draftActivity EXCEPT ![w] = {}]
  /\ draftResponse' = [draftResponse EXCEPT ![w] = NoRow]

Reply(w) ==
  /\ pc[w] = "reply"
  /\ answers' = answers \cup {[command |-> Command(w), request |-> request[w],
                               response |-> draftResponse[w]]}
  /\ ClearSession(w)
  /\ UNCHANGED <<dbVars, lockVars, consumerVars>>

\* The answer is lost: the process or the connection dies after the commit.
LoseReply(w) ==
  /\ pc[w] = "reply"
  /\ ClearSession(w)
  /\ UNCHANGED <<dbVars, lockVars, answers, consumerVars>>

\* A statement fails, the request is cancelled or the process dies inside the
\* transaction.  The bound keeps rollbacks from burning ids without end.
Fail(w) ==
  /\ pc[w] \in InTransaction
  /\ draftActivity[w] # {} => nextActivity <= MaxActivity
  /\ Goto(w, "aborting")
  /\ UNCHANGED <<dbVars, lockVars, request, key, draftRow, draftActivity,
                 draftResponse, answers, consumerVars>>

\* The dropped transaction rolls back: its drafts and locks are gone.
Rollback(w) ==
  /\ pc[w] = "aborting"
  /\ ReleaseLocks(w)
  /\ ClearSession(w)
  /\ UNCHANGED <<dbVars, answers, consumerVars>>

-----------------------------------------------------------------------------
(***************************************************************************)
(* A consumer of list_activity that applies a page, stores next_cursor and  *)
(* resumes from it.                                                         *)
(***************************************************************************)

InScope(c, records) == {a \in records : a.entity \in Scope[c]}

After(records, position) == {a \in records : a.id > position}

\* Defect: next_cursor is the sequence's last value, not the last row's id.
FetchToSequenceEnd(c) ==
  LET found == After(InScope(c, feed), cursor[c])
  IN  /\ page[c] = {} /\ found # {}
      /\ \E a \in found :
           /\ \A b \in found : a.id <= b.id
           /\ page' = [page EXCEPT ![c] = {a}]
      /\ nextCursor' = [nextCursor EXCEPT ![c] = nextActivity - 1]
      /\ UNCHANGED <<dbVars, lockVars, workerVars, answers, cursor, delivered>>

\* list_activity: the committed records of the scope above the cursor, the
\* PageLimit lowest ids of them, and the last id as next_cursor.
FetchPage(c) ==
  LET found == After(InScope(c, feed), cursor[c])
  IN  /\ page[c] = {}
      /\ \E items \in SUBSET found, last \in {a.id : a \in found} :
           /\ \E a \in items : a.id = last
           /\ \A a \in items : a.id <= last
           /\ \A a \in found : a.id <= last => a \in items
           /\ Cardinality(items) <= PageLimit
           /\ items = found \/ Cardinality(items) = PageLimit
           /\ page' = [page EXCEPT ![c] = items]
           /\ nextCursor' = [nextCursor EXCEPT ![c] = last]
      /\ UNCHANGED <<dbVars, lockVars, workerVars, answers, cursor, delivered>>

SaveCheckpoint(c) ==
  /\ page[c] # {}
  /\ delivered' = [delivered EXCEPT ![c] = @ \cup page[c]]
  /\ cursor' = [cursor EXCEPT ![c] = nextCursor[c]]
  /\ page' = [page EXCEPT ![c] = {}]
  /\ nextCursor' = [nextCursor EXCEPT ![c] = 0]
  /\ UNCHANGED <<dbVars, lockVars, workerVars, answers>>

\* A consumer that dies before its checkpoint loses the page it held.
ConsumerCrash(c) ==
  /\ page[c] # {}
  /\ page' = [page EXCEPT ![c] = {}]
  /\ nextCursor' = [nextCursor EXCEPT ![c] = 0]
  /\ UNCHANGED <<dbVars, lockVars, workerVars, answers, cursor, delivered>>

-----------------------------------------------------------------------------

WorkerStep(w) ==
  \/ ReserveInsert(w)
  \/ ReserveLookup(w)
  \/ UpdateRow(w)
  \/ AcquireGate(w)
  \/ AppendActivity(w)
  \/ CompleteCommand(w)
  \/ Commit(w)
  \/ CommitReplay(w)
  \/ Reply(w)
  \/ Rollback(w)

Next ==
  \/ \E w \in Workers, r \in Requests, k \in Keys : Submit(w, r, k)
  \/ \E w \in Workers : WorkerStep(w) \/ LoseReply(w) \/ Fail(w)
  \/ \E c \in Consumers : FetchPage(c) \/ SaveCheckpoint(c) \/ ConsumerCrash(c)

Spec == Init /\ [][Next]_vars

(***************************************************************************)
(* A handler awaits each statement and PostgreSQL grants contended locks in *)
(* the order they were asked for, so a worker whose next statement can run  *)
(* again and again gets to run it.  Clients need not submit, nothing has to *)
(* fail, and a consumer does not crash on every page.                       *)
(***************************************************************************)
Fairness ==
  /\ \A w \in Workers : SF_vars(WorkerStep(w))
  /\ \A c \in Consumers : WF_vars(FetchPage(c)) /\ SF_vars(SaveCheckpoint(c))

FairSpec == Spec /\ Fairness

-----------------------------------------------------------------------------
(***************************************************************************)
(* What the pipeline promises.                                              *)
(***************************************************************************)

\* A command takes effect exactly once, however often it is retried and
\* wherever its attempts fail: a key has at most one ledger row, and ledger
\* rows and activity records pair off one to one.  (reserve_command and
\* complete_command share the transaction of the write they guard.)
ExactlyOnce ==
  /\ \A x, y \in ledger : x.command = y.command => x = y
  /\ \A x \in ledger : \E a \in feed :
       /\ a.command = x.command
       /\ a.entity = x.request.entity
       /\ a.revision = x.response.revision
  /\ \A a \in feed : Recorded(a.command)
  /\ \A a, b \in feed : a.command = b.command => a = b

\* The versions of a row that clients have been told of.
Versions(e) ==
  {InitialRow} \cup {x.response : x \in {y \in ledger : y.request.entity = e}}

\* No write is lost: every recorded response is what its operation makes of
\* the row version the client named in expected_revision, that version is the
\* initial row or another recorded response, no version is replaced twice,
\* and the stored row is the last of the chain.  (UPDATE .. WHERE revision =
\* expected under the row lock.)
NoLostUpdate ==
  /\ \A x \in ledger : \E row \in Versions(x.request.entity) :
       Matches(row, x.request) /\ x.response = Written(row, x.request)
  /\ \A x, y \in ledger :
       x.request.entity = y.request.entity
         /\ x.response.revision = y.response.revision => x = y
  /\ \A e \in Entities :
       /\ rows[e] \in Versions(e)
       /\ \A row \in Versions(e) : row.revision <= rows[e].revision

\* Activity ids order the changes of a row as its revisions do, so a reader of
\* the feed never sees a later revision before an earlier one.  (The row lock
\* outlives the commit gate's critical section.)
FeedFollowsRevisions ==
  \A a, b \in feed :
    a.entity = b.entity /\ a # b => (a.id < b.id <=> a.revision < b.revision)

\* A consumer that resumes from next_cursor never skips a record: whatever is
\* committed at or below its checkpoint has been delivered to it, also records
\* whose transactions were still running when it read past their ids.  (The
\* advisory gate of append_activity; storage.rs:168-171 names this hazard.)
NoSkippedActivity ==
  \A c \in Consumers : \A a \in InScope(c, feed) :
    a.id <= cursor[c] => a \in delivered[c]

\* A success a client has seen is durable and stays the answer to that
\* command: retries, lost answers and key reuse never yield a second one.
AnswersAreRecorded == answers \subseteq ledger

\* Every attempt ends: no two workers wait for each other's command row, row
\* lock or commit gate, and no failure leaves a lock behind.
AttemptsEnd == \A w \in Workers : (pc[w] # "idle") ~> (pc[w] = "idle")

\* The activity of every committed command in a consumer's scope is
\* eventually delivered to it.
ActivityDelivered ==
  \A c \in Consumers : \A r \in Requests, k \in Keys :
    (\E a \in InScope(c, feed) : a.command = <<r.op, k>>)
      ~> (\E a \in delivered[c] : a.command = <<r.op, k>>)

-----------------------------------------------------------------------------
(***************************************************************************)
(* Why it holds: the inductive invariant.                                   *)
(***************************************************************************)

Reserved == {"update", "gate", "append", "complete", "commit"}
Updated == {"gate", "append", "complete", "commit"}
Gated == {"append", "complete", "commit"}
Appended == {"complete", "commit"}

\* Each statement leaves its lock held to the end of the transaction.
LocksHeld ==
  \A w \in Workers :
    /\ pc[w] \in Reserved \cup {"replay"} => commandLock[Command(w)] = w
    /\ pc[w] \in Updated => rowLock[request[w].entity] = w
    /\ pc[w] \in Gated => gate = w

\* What a transaction read when it wrote its drafts is still the committed
\* state: its key is unused and its row is the version it replaces.
DraftsAreCurrent ==
  \A w \in Workers :
    /\ pc[w] \in Reserved => ~Recorded(Command(w))
    /\ pc[w] \in Updated =>
         /\ Matches(rows[request[w].entity], request[w])
         /\ draftRow[w] = Written(rows[request[w].entity], request[w])
    /\ pc[w] = "commit" => draftResponse[w] = draftRow[w]
    /\ pc[w] \in {"replay", "reply"} =>
         [command |-> Command(w), request |-> request[w],
          response |-> draftResponse[w]] \in ledger

\* An id not yet published is above every published and every fetched one.
GateOrdersIds ==
  /\ \A a \in feed : a.id < nextActivity
  /\ \A c \in Consumers : cursor[c] < nextActivity /\ nextCursor[c] < nextActivity
  /\ \A w \in Workers : pc[w] \in Appended =>
       \E a \in draftActivity[w] :
         /\ draftActivity[w] = {a}
         /\ a.command = Command(w)
         /\ a.entity = request[w].entity
         /\ a.revision = draftRow[w].revision
         /\ a.id < nextActivity
         /\ \A b \in feed : b.id < a.id
         /\ \A c \in Consumers : cursor[c] < a.id /\ nextCursor[c] < a.id

\* A page in memory holds everything between its two cursors.
PagesAreComplete ==
  \A c \in Consumers :
    /\ page[c] \subseteq InScope(c, feed)
    /\ delivered[c] \subseteq InScope(c, feed)
    /\ \A a \in page[c] : cursor[c] < a.id /\ a.id <= nextCursor[c]
    /\ \A a \in delivered[c] : a.id <= cursor[c]
    /\ \A a \in InScope(c, feed) :
         cursor[c] < a.id /\ a.id <= nextCursor[c] => a \in page[c]

\* Published revisions are reached by their rows.
RevisionsReached == \A a \in feed : a.revision <= rows[a.entity].revision

\* The inductive invariant of the pipeline: locks protect what was read, the
\* gate orders what is published.
IInv ==
  /\ TypeOK
  /\ LocksHeld
  /\ DraftsAreCurrent
  /\ GateOrdersIds
  /\ PagesAreComplete
  /\ RevisionsReached
  /\ ExactlyOnce
  /\ NoLostUpdate
  /\ FeedFollowsRevisions
  /\ NoSkippedActivity
  /\ AnswersAreRecorded

-----------------------------------------------------------------------------
\* The pipeline implements the ledger whose commands are single atomic steps.
Abstract == INSTANCE CommandLedger
  WITH ledger <- ledger, rows <- rows, feed <- feed, answers <- answers,
       delivered <- delivered
ImplementsLedger == Abstract!Spec

=============================================================================
