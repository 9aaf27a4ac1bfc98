------------------------ MODULE CommandPipelineProofs ------------------------
(***************************************************************************)
(* Proofs, for every number of workers, keys, rows and consumers, that the  *)
(* mutation pipeline keeps its invariants and implements the atomic ledger. *)
(***************************************************************************)
EXTENDS CommandPipeline, TLAPS

(***************************************************************************)
(* Lemmas about the operators of the pipeline.                              *)
(***************************************************************************)

\* The values an idle worker is reset to are a request and a key.
LEMMA SessionDefaults == NoRequest \in Requests /\ NoKey \in Keys
  BY RequestsAssumption, KeysAssumption DEF NoRequest, NoKey

\* Both the NULL row and the freshly created row are rows.
LEMMA ConstantRows == NoRow \in Row /\ InitialRow \in Row
  BY ContentsAssumption DEF NoRow, InitialRow, Row

\* An operation's UPDATE yields a row one revision later.
LEMMA WrittenIsNextRevision ==
  ASSUME NEW row \in Row, NEW r \in Request
  PROVE  /\ Written(row, r) \in Row
         /\ Written(row, r).revision = row.revision + 1
  <1>1. (CASE r.op \in {"archive_project", "archive_issue"} -> r.closed
           [] r.op = "delete_comment" -> TRUE
           [] OTHER -> row.closed) \in BOOLEAN
    <2>1. r.closed \in BOOLEAN /\ row.closed \in BOOLEAN
      BY DEF Row, Request
    <2>2. QED
      BY <2>1
  <1>2. (CASE r.op \in {"set_issue_assignee", "update_comment"} -> r.content
           [] r.op = "delete_comment" -> Nothing
           [] OTHER -> row.content) \in Contents
    <2>1. r.content \in Contents /\ row.content \in Contents
      BY DEF Row, Request
    <2>2. QED
      BY <2>1, ContentsAssumption
  <1>3. row.revision + 1 \in Nat
    BY DEF Row
  <1>4. QED
    BY <1>1, <1>2, <1>3 DEF Written, Row

-----------------------------------------------------------------------------
(***************************************************************************)
(* Type correctness.                                                        *)
(***************************************************************************)

LEMMA InitTypeOK == Init => TypeOK
  BY SessionDefaults, ConstantRows, RequestsAssumption DEF Init, TypeOK, States

LEMMA NextTypeOK == TypeOK /\ [Next]_vars => TypeOK'
  <1> SUFFICES ASSUME TypeOK, [Next]_vars PROVE TypeOK'
    OBVIOUS
  <1> USE DEF TypeOK, States, InTransaction, Goto, dbVars, lockVars, workerVars,
              consumerVars
  <1>r. \A w \in Workers : request[w] \in Request
    BY RequestsAssumption
  <1>c. \A w \in Workers : Command(w) \in Commands
    BY <1>r DEF Command, Commands, Request
  <1>1. ASSUME NEW w \in Workers, NEW r \in Requests, NEW k \in Keys, Submit(w, r, k)
        PROVE  TypeOK'
    BY <1>1, RequestsAssumption DEF Submit
  <1>2. ASSUME NEW w \in Workers, ReserveInsert(w) PROVE TypeOK'
    BY <1>2, <1>c DEF ReserveInsert
  <1>3. ASSUME NEW w \in Workers, ReserveLookup(w) PROVE TypeOK'
    BY <1>3, <1>c DEF ReserveLookup, Entry
  <1>4. ASSUME NEW w \in Workers, UpdateRow(w) PROVE TypeOK'
    <2>1. request[w] \in Request /\ request[w].entity \in Entities
      BY <1>r DEF Request
    <2>2. rows[request[w].entity] \in Row
      BY <2>1
    <2>3. Written(rows[request[w].entity], request[w]) \in Row
      BY <2>1, <2>2, WrittenIsNextRevision
    <2>4. QED
      BY <1>4, <2>1, <2>3 DEF UpdateRow
  <1>5. ASSUME NEW w \in Workers, AcquireGate(w) PROVE TypeOK'
    BY <1>5 DEF AcquireGate
  <1>6. ASSUME NEW w \in Workers, AppendActivity(w) PROVE TypeOK'
    <2>1. [id |-> nextActivity, command |-> Command(w), entity |-> request[w].entity,
           revision |-> draftRow[w].revision] \in Activity
      BY <1>c, <1>r DEF Activity, Request, Row
    <2>2. QED
      BY <1>6, <2>1 DEF AppendActivity
  <1>7. ASSUME NEW w \in Workers, CompleteCommand(w) PROVE TypeOK'
    BY <1>7 DEF CompleteCommand
  <1>8. ASSUME NEW w \in Workers, Commit(w) PROVE TypeOK'
    <2>1. [command |-> Command(w), request |-> request[w],
           response |-> draftResponse[w]] \in Entry
      BY <1>c, <1>r DEF Entry
    <2>2. QED
      BY <1>8, <2>1, ConstantRows DEF Commit, ReleaseLocks
  <1>9. ASSUME NEW w \in Workers, CommitReplay(w) PROVE TypeOK'
    BY <1>9 DEF CommitReplay, ReleaseLocks
  <1>10. ASSUME NEW w \in Workers, Reply(w) PROVE TypeOK'
    <2>1. [command |-> Command(w), request |-> request[w],
           response |-> draftResponse[w]] \in Entry
      BY <1>c, <1>r DEF Entry
    <2>2. QED
      BY <1>10, <2>1, ConstantRows, SessionDefaults, RequestsAssumption
      DEF Reply, ClearSession
  <1>11. ASSUME NEW w \in Workers, Rollback(w) PROVE TypeOK'
    BY <1>11, ConstantRows, SessionDefaults, RequestsAssumption
    DEF Rollback, ReleaseLocks, ClearSession
  <1>12. ASSUME NEW w \in Workers, LoseReply(w) PROVE TypeOK'
    BY <1>12, ConstantRows, SessionDefaults, RequestsAssumption
    DEF LoseReply, ClearSession
  <1>13. ASSUME NEW w \in Workers, Fail(w) PROVE TypeOK'
    BY <1>13 DEF Fail
  <1>14. ASSUME NEW c \in Consumers, FetchPage(c) PROVE TypeOK'
    BY <1>14 DEF FetchPage, After, InScope, Activity
  <1>15. ASSUME NEW c \in Consumers, SaveCheckpoint(c) PROVE TypeOK'
    BY <1>15 DEF SaveCheckpoint
  <1>16. ASSUME NEW c \in Consumers, ConsumerCrash(c) PROVE TypeOK'
    BY <1>16 DEF ConsumerCrash
  <1>17. CASE UNCHANGED vars
    BY <1>17 DEF vars
  <1>18. QED
    BY <1>1, <1>2, <1>3, <1>4, <1>5, <1>6, <1>7, <1>8, <1>9, <1>10, <1>11,
       <1>12, <1>13, <1>14, <1>15, <1>16, <1>17 DEF Next, WorkerStep

\* Every reachable state of the pipeline is well typed: in particular a lock
\* has one owner and a revision is never negative.
THEOREM TypeCorrect == Spec => []TypeOK
  <1>1. QED
    BY InitTypeOK, NextTypeOK, PTL DEF Spec

-----------------------------------------------------------------------------
(***************************************************************************)
(* The inductive invariant, one lemma per group of conjuncts.               *)
(***************************************************************************)

LEMMA InitIInv == Init => IInv
  <1> SUFFICES ASSUME Init PROVE IInv
    OBVIOUS
  <1>1. TypeOK
    BY InitTypeOK
  <1>2. LocksHeld /\ DraftsAreCurrent
    BY DEF Init, LocksHeld, DraftsAreCurrent, Reserved, Updated, Gated
  <1>3. GateOrdersIds /\ PagesAreComplete /\ RevisionsReached
    BY DEF Init, GateOrdersIds, PagesAreComplete, RevisionsReached, InScope, Appended
  <1>4. ExactlyOnce /\ FeedFollowsRevisions /\ NoSkippedActivity /\ AnswersAreRecorded
    BY DEF Init, ExactlyOnce, FeedFollowsRevisions, NoSkippedActivity,
           AnswersAreRecorded, InScope
  <1>5. NoLostUpdate
    BY DEF Init, NoLostUpdate, Versions, InitialRow
  <1>6. QED
    BY <1>1, <1>2, <1>3, <1>4, <1>5 DEF IInv

\* Only a commit changes committed commands, rows and activity.
LEMMA OnlyCommitPublishes ==
  ASSUME [Next]_vars
  PROVE  (\E w \in Workers : Commit(w)) \/ UNCHANGED <<ledger, rows, feed>>
  BY DEF Next, WorkerStep, vars, dbVars, Submit, ReserveInsert, ReserveLookup,
         UpdateRow, AcquireGate, AppendActivity, CompleteCommand, CommitReplay,
         Reply, LoseReply, Fail, Rollback, FetchPage, SaveCheckpoint, ConsumerCrash

\* A worker that gives up its locks takes none from another.
LEMMA ReleaseKeepsOthers ==
  ASSUME TypeOK, NEW w \in Workers, ReleaseLocks(w), NEW v \in Workers, v # w
  PROVE  /\ \A c \in Commands : commandLock[c] = v => commandLock'[c] = v
         /\ \A e \in Entities : rowLock[e] = v => rowLock'[e] = v
         /\ gate = v => gate' = v
  BY DEF ReleaseLocks, TypeOK

LEMMA CommandsOfWorkers ==
  ASSUME TypeOK, NEW w \in Workers
  PROVE  Command(w) \in Commands /\ request[w].entity \in Entities
  BY RequestsAssumption DEF TypeOK, Command, Commands, Request

LEMMA NextLocksHeld ==
  ASSUME TypeOK, LocksHeld, [Next]_vars
  PROVE  LocksHeld'
  <1> USE DEF LocksHeld, Reserved, Updated, Gated, Goto, Command
  <1>c. \A w \in Workers : <<request[w].op, key[w]>> \in Commands /\ request[w].entity \in Entities
    BY CommandsOfWorkers
  <1>1. ASSUME NEW w \in Workers, NEW r \in Requests, NEW k \in Keys, Submit(w, r, k)
        PROVE  LocksHeld'
    BY <1>1 DEF Submit, TypeOK, lockVars
  <1>2. ASSUME NEW w \in Workers, ReserveInsert(w) PROVE LocksHeld'
    BY <1>2, <1>c, WorkersAssumption DEF ReserveInsert, TypeOK
  <1>3. ASSUME NEW w \in Workers, ReserveLookup(w) PROVE LocksHeld'
    BY <1>3, <1>c, WorkersAssumption DEF ReserveLookup, TypeOK
  <1>4. ASSUME NEW w \in Workers, UpdateRow(w) PROVE LocksHeld'
    BY <1>4, <1>c, WorkersAssumption DEF UpdateRow, TypeOK
  <1>5. ASSUME NEW w \in Workers, AcquireGate(w) PROVE LocksHeld'
    BY <1>5, WorkersAssumption DEF AcquireGate, TypeOK
  <1>6. ASSUME NEW w \in Workers, AppendActivity(w) \/ CompleteCommand(w) \/ Fail(w)
        PROVE  LocksHeld'
    BY <1>6 DEF AppendActivity, CompleteCommand, Fail, TypeOK, lockVars
  <1>7. ASSUME NEW w \in Workers, Commit(w) \/ CommitReplay(w) \/ Rollback(w)
        PROVE  LocksHeld'
    <2>1. ReleaseLocks(w)
      BY <1>7 DEF Commit, CommitReplay, Rollback
    <2>2. pc'[w] \in {"reply", "idle"}
      BY <1>7 DEF Commit, CommitReplay, Rollback, ClearSession, TypeOK
    <2>3. ASSUME NEW v \in Workers, v # w
          PROVE  pc'[v] = pc[v] /\ request'[v] = request[v] /\ key'[v] = key[v]
      BY <1>7, <2>3 DEF Commit, CommitReplay, Rollback, ClearSession, TypeOK
    <2>4. QED
      BY <2>1, <2>2, <2>3, <1>c, ReleaseKeepsOthers
  <1>8. ASSUME NEW w \in Workers, Reply(w) \/ LoseReply(w) PROVE LocksHeld'
    BY <1>8 DEF Reply, LoseReply, ClearSession, TypeOK, lockVars
  <1>9. ASSUME NEW c \in Consumers, FetchPage(c) \/ SaveCheckpoint(c) \/ ConsumerCrash(c)
        PROVE  LocksHeld'
    BY <1>9 DEF FetchPage, SaveCheckpoint, ConsumerCrash, lockVars, workerVars
  <1>10. CASE UNCHANGED vars
    BY <1>10 DEF vars, lockVars, workerVars
  <1>11. QED
    BY <1>1, <1>2, <1>3, <1>4, <1>5, <1>6, <1>7, <1>8, <1>9, <1>10
    DEF Next, WorkerStep

\* Steps of one worker that publish nothing leave the drafts of the others
\* current.
LEMMA OthersDraftsStayCurrent ==
  ASSUME DraftsAreCurrent, UNCHANGED <<ledger, rows>>,
         NEW v \in Workers,
         pc'[v] = pc[v], request'[v] = request[v], key'[v] = key[v],
         draftRow'[v] = draftRow[v], draftResponse'[v] = draftResponse[v]
  PROVE  /\ pc'[v] \in Reserved => ~Recorded(Command(v))'
         /\ pc'[v] \in Updated =>
              /\ Matches(rows'[request'[v].entity], request'[v])
              /\ draftRow'[v] = Written(rows'[request'[v].entity], request'[v])
         /\ pc'[v] = "commit" => draftResponse'[v] = draftRow'[v]
         /\ pc'[v] \in {"replay", "reply"} =>
              [command |-> Command(v)', request |-> request'[v],
               response |-> draftResponse'[v]] \in ledger'
  BY DEF DraftsAreCurrent, Recorded, Command

LEMMA NextDraftsAreCurrent ==
  ASSUME TypeOK, LocksHeld, DraftsAreCurrent, [Next]_vars
  PROVE  DraftsAreCurrent'
  <1> USE DEF Goto
  <1>c. \A w \in Workers : Command(w) \in Commands /\ request[w].entity \in Entities
    BY CommandsOfWorkers
  <1>1. ASSUME NEW w \in Workers, NEW r \in Requests, NEW k \in Keys, Submit(w, r, k)
        PROVE  DraftsAreCurrent'
    BY <1>1 DEF Submit, TypeOK, dbVars, DraftsAreCurrent, Recorded, Command,
                Reserved, Updated
  <1>2. ASSUME NEW w \in Workers, ReserveInsert(w) PROVE DraftsAreCurrent'
    BY <1>2 DEF ReserveInsert, TypeOK, dbVars, DraftsAreCurrent, Recorded, Command,
                Reserved, Updated
  <1>3. ASSUME NEW w \in Workers, ReserveLookup(w) PROVE DraftsAreCurrent'
    <2>1. PICK e \in ledger :
            /\ e.command = Command(w)
            /\ \/ /\ e.request = request[w]
                  /\ draftResponse' = [draftResponse EXCEPT ![w] = e.response]
                  /\ pc' = [pc EXCEPT ![w] = "replay"]
               \/ /\ pc' = [pc EXCEPT ![w] = "aborting"]
                  /\ UNCHANGED draftResponse
      BY <1>3 DEF ReserveLookup
    <2>2. e = [command |-> e.command, request |-> e.request, response |-> e.response]
      BY <2>1 DEF TypeOK, Entry
    <2>3. UNCHANGED <<ledger, rows, request, key, draftRow>>
      BY <1>3 DEF ReserveLookup, dbVars
    <2>4. ASSUME NEW v \in Workers, v # w
          PROVE  pc'[v] = pc[v] /\ draftResponse'[v] = draftResponse[v]
      BY <2>1, <2>4 DEF TypeOK
    <2>5. CASE pc'[w] = "replay" /\ draftResponse'[w] = e.response /\ e.request = request[w]
      <3>1. [command |-> Command(w)', request |-> request'[w],
             response |-> draftResponse'[w]] \in ledger'
        BY <2>1, <2>2, <2>3, <2>5 DEF Command
      <3>2. QED
        BY <2>3, <2>4, <2>5, <3>1, OthersDraftsStayCurrent
        DEF DraftsAreCurrent, Reserved, Updated
    <2>6. CASE pc'[w] = "aborting"
      BY <2>3, <2>4, <2>6, OthersDraftsStayCurrent
      DEF DraftsAreCurrent, Reserved, Updated
    <2>7. QED
      BY <2>1, <2>5, <2>6 DEF TypeOK
  <1>4. ASSUME NEW w \in Workers, UpdateRow(w) PROVE DraftsAreCurrent'
    <2>1. UNCHANGED <<ledger, rows, request, key, draftResponse>>
      BY <1>4 DEF UpdateRow, dbVars
    <2>2. ASSUME NEW v \in Workers, v # w
          PROVE  pc'[v] = pc[v] /\ draftRow'[v] = draftRow[v]
      BY <1>4, <2>2 DEF UpdateRow, TypeOK
    <2>3. ~Recorded(Command(w))'
      BY <1>4, <2>1 DEF UpdateRow, DraftsAreCurrent, Reserved, Recorded, Command
    <2>4. \/ pc'[w] = "aborting"
          \/ /\ pc'[w] = "gate"
             /\ Matches(rows'[request'[w].entity], request'[w])
             /\ draftRow'[w] = Written(rows'[request'[w].entity], request'[w])
      BY <1>4, <2>1 DEF UpdateRow, TypeOK
    <2>5. QED
      BY <2>1, <2>2, <2>3, <2>4, OthersDraftsStayCurrent
      DEF DraftsAreCurrent, Reserved, Updated
  <1>5. ASSUME NEW w \in Workers, AcquireGate(w) \/ AppendActivity(w)
        PROVE  DraftsAreCurrent'
    BY <1>5 DEF AcquireGate, AppendActivity, TypeOK, dbVars, DraftsAreCurrent,
                Recorded, Command, Reserved, Updated
  <1>6. ASSUME NEW w \in Workers, CompleteCommand(w) PROVE DraftsAreCurrent'
    BY <1>6 DEF CompleteCommand, TypeOK, dbVars, DraftsAreCurrent, Recorded, Command,
                Reserved, Updated
  <1>7. ASSUME NEW w \in Workers, Commit(w) PROVE DraftsAreCurrent'
    <2> DEFINE entry == [command |-> Command(w), request |-> request[w],
                         response |-> draftResponse[w]]
    <2>1. /\ ledger' = ledger \cup {entry}
          /\ rows' = [rows EXCEPT ![request[w].entity] = draftRow[w]]
          /\ pc[w] = "commit" /\ pc'[w] = "reply"
          /\ UNCHANGED <<request, key, draftResponse>>
      BY <1>7 DEF Commit, TypeOK
    <2>2. entry.command = Command(w)
      OBVIOUS
    <2>3. [command |-> Command(w)', request |-> request'[w],
           response |-> draftResponse'[w]] \in ledger'
      BY <2>1 DEF Command
    <2>4. ASSUME NEW v \in Workers, v # w
          PROVE  /\ pc'[v] \in Reserved => ~Recorded(Command(v))'
                 /\ pc'[v] \in Updated =>
                      /\ Matches(rows'[request'[v].entity], request'[v])
                      /\ draftRow'[v] = Written(rows'[request'[v].entity], request'[v])
                 /\ pc'[v] = "commit" => draftResponse'[v] = draftRow'[v]
                 /\ pc'[v] \in {"replay", "reply"} =>
                      [command |-> Command(v)', request |-> request'[v],
                       response |-> draftResponse'[v]] \in ledger'
      <3>1. pc'[v] = pc[v] /\ draftRow'[v] = draftRow[v] /\ Command(v)' = Command(v)
        BY <1>7, <2>1, <2>4 DEF Commit, TypeOK, Command
      <3>2. pc[v] \in Reserved => Command(v) # Command(w)
        BY <2>1, <2>4 DEF LocksHeld, Reserved
      <3>3. pc[v] \in Updated => request[v].entity # request[w].entity
        BY <2>1, <2>4 DEF LocksHeld, Updated
      <3>4. pc'[v] \in Reserved => ~Recorded(Command(v))'
        BY <2>1, <2>2, <3>1, <3>2 DEF DraftsAreCurrent, Recorded
      <3>5. pc[v] \in Updated => rows'[request[v].entity] = rows[request[v].entity]
        BY <2>1, <3>3, <1>c DEF TypeOK
      <3>6. QED
        BY <2>1, <3>1, <3>4, <3>5 DEF DraftsAreCurrent
    <2>5. QED
      BY <2>1, <2>3, <2>4 DEF DraftsAreCurrent, Reserved, Updated
  <1>8. ASSUME NEW w \in Workers, CommitReplay(w) \/ Fail(w) PROVE DraftsAreCurrent'
    BY <1>8 DEF CommitReplay, Fail, TypeOK, dbVars, DraftsAreCurrent, Recorded, Command,
                Reserved, Updated
  <1>9. ASSUME NEW w \in Workers, Reply(w) \/ LoseReply(w) \/ Rollback(w)
        PROVE  DraftsAreCurrent'
    <2>1. pc'[w] = "idle" /\ UNCHANGED <<ledger, rows>>
      BY <1>9 DEF Reply, LoseReply, Rollback, ClearSession, dbVars, TypeOK
    <2>2. ASSUME NEW v \in Workers, v # w
          PROVE  /\ pc'[v] = pc[v] /\ request'[v] = request[v] /\ key'[v] = key[v]
                 /\ draftRow'[v] = draftRow[v] /\ draftResponse'[v] = draftResponse[v]
      BY <1>9, <2>2 DEF Reply, LoseReply, Rollback, ClearSession, TypeOK
    <2>3. QED
      BY <2>1, <2>2, OthersDraftsStayCurrent DEF DraftsAreCurrent, Reserved, Updated
  <1>10. ASSUME NEW c \in Consumers, FetchPage(c) \/ SaveCheckpoint(c) \/ ConsumerCrash(c)
         PROVE  DraftsAreCurrent'
    BY <1>10 DEF FetchPage, SaveCheckpoint, ConsumerCrash, dbVars, workerVars,
                 DraftsAreCurrent, Recorded, Command
  <1>11. CASE UNCHANGED vars
    BY <1>11 DEF vars, dbVars, workerVars, DraftsAreCurrent, Recorded, Command
  <1>12. QED
    BY <1>1, <1>2, <1>3, <1>4, <1>5, <1>6, <1>7, <1>8, <1>9, <1>10, <1>11
    DEF Next, WorkerStep

\* The id of an appended record stays above what is published and fetched, as
\* long as its worker keeps its draft and nothing is published or fetched.
LEMMA AppendedIdsStayHigh ==
  ASSUME GateOrdersIds, UNCHANGED <<feed, cursor, nextCursor>>,
         nextActivity' = nextActivity \/ nextActivity' = nextActivity + 1,
         TypeOK, NEW v \in Workers, pc[v] \in Appended,
         draftActivity'[v] = draftActivity[v], request'[v] = request[v],
         key'[v] = key[v], draftRow'[v] = draftRow[v]
  PROVE  \E a \in draftActivity'[v] :
           /\ draftActivity'[v] = {a}
           /\ a.command = Command(v)'
           /\ a.entity = request'[v].entity
           /\ a.revision = draftRow'[v].revision
           /\ a.id < nextActivity'
           /\ \A b \in feed' : b.id < a.id
           /\ \A c \in Consumers : cursor'[c] < a.id /\ nextCursor'[c] < a.id
  <1>1. PICK a \in draftActivity[v] :
          /\ draftActivity[v] = {a}
          /\ a.command = Command(v)
          /\ a.entity = request[v].entity
          /\ a.revision = draftRow[v].revision
          /\ a.id < nextActivity
          /\ \A b \in feed : b.id < a.id
          /\ \A c \in Consumers : cursor[c] < a.id /\ nextCursor[c] < a.id
    BY DEF GateOrdersIds
  <1>2. a.id \in Nat /\ nextActivity \in Nat
    BY DEF TypeOK, Activity
  <1>3. a.id < nextActivity'
    BY <1>1, <1>2
  <1>4. Command(v)' = Command(v)
    BY DEF Command
  <1>5. QED
    BY <1>1, <1>3, <1>4

LEMMA NextGateOrdersIds ==
  ASSUME TypeOK, LocksHeld, GateOrdersIds, [Next]_vars
  PROVE  GateOrdersIds'
  <1> USE DEF Goto
  <1>n. \A n, m \in Nat : n < m => n < m + 1
    OBVIOUS
  <1>1. ASSUME UNCHANGED <<feed, nextActivity, cursor, nextCursor>>,
               \A v \in Workers : pc'[v] \in Appended =>
                 /\ pc[v] \in Appended
                 /\ draftActivity'[v] = draftActivity[v] /\ request'[v] = request[v]
                 /\ key'[v] = key[v] /\ draftRow'[v] = draftRow[v]
        PROVE  GateOrdersIds'
    <2>1. (\A a \in feed : a.id < nextActivity)'
      BY <1>1 DEF GateOrdersIds
    <2>2. (\A c \in Consumers : cursor[c] < nextActivity /\ nextCursor[c] < nextActivity)'
      BY <1>1 DEF GateOrdersIds
    <2>3. QED
      BY <1>1, <2>1, <2>2, AppendedIdsStayHigh DEF GateOrdersIds
  <1>2. ASSUME NEW w \in Workers, NEW r \in Requests, NEW k \in Keys, Submit(w, r, k)
        PROVE  GateOrdersIds'
    BY <1>1, <1>2 DEF Submit, TypeOK, dbVars, consumerVars, Appended
  <1>3. ASSUME NEW w \in Workers,
               ReserveInsert(w) \/ ReserveLookup(w) \/ UpdateRow(w) \/ AcquireGate(w)
        PROVE  GateOrdersIds'
    <2>1. UNCHANGED <<feed, nextActivity, cursor, nextCursor, draftActivity, request, key>>
      BY <1>3 DEF ReserveInsert, ReserveLookup, UpdateRow, AcquireGate, dbVars, consumerVars
    <2>2. pc'[w] \notin Appended
      BY <1>3 DEF ReserveInsert, ReserveLookup, UpdateRow, AcquireGate, TypeOK, Appended
    <2>3. ASSUME NEW v \in Workers, v # w
          PROVE  pc'[v] = pc[v] /\ draftRow'[v] = draftRow[v]
      BY <1>3, <2>3 DEF ReserveInsert, ReserveLookup, UpdateRow, AcquireGate, TypeOK
    <2>4. QED
      BY <1>1, <2>1, <2>2, <2>3
  <1>4. ASSUME NEW w \in Workers, AppendActivity(w) PROVE GateOrdersIds'
    <2> DEFINE a == [id |-> nextActivity, command |-> Command(w),
                     entity |-> request[w].entity, revision |-> draftRow[w].revision]
    <2>1. /\ UNCHANGED <<feed, cursor, nextCursor, request, key, draftRow>>
          /\ nextActivity' = nextActivity + 1
          /\ draftActivity'[w] = {a}
          /\ pc[w] = "append"
      BY <1>4 DEF AppendActivity, TypeOK, consumerVars
    <2>2. nextActivity \in Nat
      BY DEF TypeOK
    <2>3. (\A b \in feed : b.id < nextActivity)'
      BY <2>1, <2>2, <1>n DEF GateOrdersIds, TypeOK, Activity
    <2>4. (\A c \in Consumers : cursor[c] < nextActivity /\ nextCursor[c] < nextActivity)'
      BY <2>1, <2>2, <1>n DEF GateOrdersIds, TypeOK
    <2>5. /\ a.command = Command(w)' /\ a.entity = request'[w].entity
          /\ a.revision = draftRow'[w].revision
          /\ a.id < nextActivity'
          /\ \A b \in feed' : b.id < a.id
          /\ \A c \in Consumers : cursor'[c] < a.id /\ nextCursor'[c] < a.id
      BY <2>1, <2>2 DEF GateOrdersIds, Command
    <2>6. ASSUME NEW v \in Workers, v # w
          PROVE  pc'[v] = pc[v] /\ draftActivity'[v] = draftActivity[v]
      BY <1>4, <2>6 DEF AppendActivity, TypeOK
    <2> DEFINE High(v) ==
          \E x \in draftActivity'[v] :
            /\ draftActivity'[v] = {x}
            /\ x.command = Command(v)'
            /\ x.entity = request'[v].entity
            /\ x.revision = draftRow'[v].revision
            /\ x.id < nextActivity'
            /\ \A b \in feed' : b.id < x.id
            /\ \A c \in Consumers : cursor'[c] < x.id /\ nextCursor'[c] < x.id
    <2>7. High(w)
      <3> HIDE DEF a
      <3>1. QED
        BY <2>1, <2>5
    <2>8. ASSUME NEW v \in Workers, v # w, pc'[v] \in Appended PROVE High(v)
      BY <2>1, <2>6, <2>8, AppendedIdsStayHigh
    <2>9. QED
      BY <2>3, <2>4, <2>7, <2>8 DEF GateOrdersIds
  <1>5. ASSUME NEW w \in Workers, CompleteCommand(w) PROVE GateOrdersIds'
    BY <1>1, <1>5 DEF CompleteCommand, TypeOK, dbVars, consumerVars, Appended
  <1>6. ASSUME NEW w \in Workers, Commit(w) PROVE GateOrdersIds'
    <2>1. /\ feed' = feed \cup draftActivity[w]
          /\ pc[w] = "commit" /\ pc'[w] = "reply"
          /\ UNCHANGED <<nextActivity, cursor, nextCursor>>
      BY <1>6 DEF Commit, TypeOK, consumerVars
    <2>2. PICK a \in draftActivity[w] :
            /\ draftActivity[w] = {a}
            /\ a.id < nextActivity
      BY <2>1 DEF GateOrdersIds, Appended
    <2>3. (\A b \in feed : b.id < nextActivity)'
      BY <2>1, <2>2 DEF GateOrdersIds
    <2>4. (\A c \in Consumers : cursor[c] < nextActivity /\ nextCursor[c] < nextActivity)'
      BY <2>1 DEF GateOrdersIds
    <2>5. ASSUME NEW v \in Workers PROVE pc'[v] \notin Appended
      <3>1. CASE v = w
        BY <2>1, <3>1 DEF Appended
      <3>2. CASE v # w
        BY <1>6, <2>1, <3>2 DEF Commit, LocksHeld, Gated, Appended, TypeOK
      <3>3. QED
        BY <3>1, <3>2
    <2>6. QED
      BY <2>3, <2>4, <2>5 DEF GateOrdersIds
  <1>7. ASSUME NEW w \in Workers, CommitReplay(w) \/ Fail(w) PROVE GateOrdersIds'
    BY <1>1, <1>7 DEF CommitReplay, Fail, TypeOK, dbVars, consumerVars, Appended
  <1>8. ASSUME NEW w \in Workers, Reply(w) \/ LoseReply(w) \/ Rollback(w)
        PROVE  GateOrdersIds'
    <2>1. pc'[w] = "idle" /\ UNCHANGED <<feed, nextActivity, cursor, nextCursor>>
      BY <1>8 DEF Reply, LoseReply, Rollback, ClearSession, dbVars, consumerVars, TypeOK
    <2>2. ASSUME NEW v \in Workers, v # w
          PROVE  /\ pc'[v] = pc[v] /\ request'[v] = request[v] /\ key'[v] = key[v]
                 /\ draftRow'[v] = draftRow[v] /\ draftActivity'[v] = draftActivity[v]
      BY <1>8, <2>2 DEF Reply, LoseReply, Rollback, ClearSession, TypeOK
    <2>3. QED
      BY <1>1, <2>1, <2>2 DEF Appended
  <1>9. ASSUME NEW c \in Consumers, FetchPage(c) \/ SaveCheckpoint(c) \/ ConsumerCrash(c)
        PROVE  GateOrdersIds'
    <2>1. UNCHANGED <<feed, nextActivity, pc, request, key, draftRow, draftActivity>>
      BY <1>9 DEF FetchPage, SaveCheckpoint, ConsumerCrash, dbVars, workerVars
    <2>2. \A v \in Workers : Command(v)' = Command(v)
      BY <2>1 DEF Command
    <2>3. \A d \in Consumers :
            /\ \/ cursor'[d] = cursor[d]
               \/ cursor'[d] = nextCursor[d]
            /\ \/ nextCursor'[d] = nextCursor[d]
               \/ nextCursor'[d] = 0
               \/ \E b \in feed : nextCursor'[d] = b.id
      <3>1. CASE FetchPage(c)
        BY <3>1 DEF FetchPage, After, InScope, TypeOK
      <3>2. CASE SaveCheckpoint(c) \/ ConsumerCrash(c)
        BY <3>2 DEF SaveCheckpoint, ConsumerCrash, TypeOK
      <3>3. QED
        BY <1>9, <3>1, <3>2
    <2>4. (\A d \in Consumers : cursor[d] < nextActivity /\ nextCursor[d] < nextActivity)'
      BY <2>1, <2>3 DEF GateOrdersIds, TypeOK
    <2>5. ASSUME NEW v \in Workers, pc'[v] \in Appended
          PROVE  \E a \in draftActivity[v] :
                   /\ draftActivity[v] = {a}
                   /\ a.command = Command(v)
                   /\ a.entity = request[v].entity
                   /\ a.revision = draftRow[v].revision
                   /\ a.id < nextActivity
                   /\ \A b \in feed : b.id < a.id
                   /\ \A d \in Consumers : cursor'[d] < a.id /\ nextCursor'[d] < a.id
      <3>1. PICK a \in draftActivity[v] :
              /\ draftActivity[v] = {a}
              /\ a.command = Command(v)
              /\ a.entity = request[v].entity
              /\ a.revision = draftRow[v].revision
              /\ a.id < nextActivity
              /\ \A b \in feed : b.id < a.id
              /\ \A d \in Consumers : cursor[d] < a.id /\ nextCursor[d] < a.id
        BY <2>1, <2>5 DEF GateOrdersIds
      <3>2. \A d \in Consumers : 0 < a.id
        BY <3>1 DEF TypeOK, Activity
      <3>3. \A d \in Consumers : cursor'[d] < a.id /\ nextCursor'[d] < a.id
        BY <2>3, <3>1, <3>2
      <3>4. QED
        BY <3>1, <3>3
    <2>6. QED
      BY <2>1, <2>2, <2>4, <2>5 DEF GateOrdersIds
  <1>10. CASE UNCHANGED vars
    BY <1>1, <1>10 DEF vars, dbVars, workerVars, consumerVars
  <1>11. QED
    BY <1>2, <1>3, <1>4, <1>5, <1>6, <1>7, <1>8, <1>9, <1>10
    DEF Next, WorkerStep

LEMMA NextPagesAreComplete ==
  ASSUME TypeOK, GateOrdersIds, PagesAreComplete, NoSkippedActivity, [Next]_vars
  PROVE  PagesAreComplete' /\ NoSkippedActivity'
  <1> USE DEF PagesAreComplete, NoSkippedActivity, InScope
  <1>1. ASSUME NEW w \in Workers, Commit(w)
        PROVE  PagesAreComplete' /\ NoSkippedActivity'
    <2>1. feed' = feed \cup draftActivity[w] /\ UNCHANGED consumerVars
      BY <1>1 DEF Commit
    <2>2. UNCHANGED <<cursor, page, nextCursor, delivered>>
      BY <2>1 DEF consumerVars
    <2>3. PICK a \in draftActivity[w] :
            /\ draftActivity[w] = {a}
            /\ \A c \in Consumers : cursor[c] < a.id /\ nextCursor[c] < a.id
      BY <1>1 DEF Commit, GateOrdersIds, Appended
    <2>4. a.id \in Nat
      BY <2>3 DEF TypeOK, Activity
    <2>5. \A c \in Consumers : ~(a.id <= cursor[c]) /\ ~(a.id <= nextCursor[c])
      BY <2>3, <2>4 DEF TypeOK
    <2>6. feed' = feed \cup {a}
      BY <2>1, <2>3
    <2>7. QED
      BY <2>2, <2>5, <2>6
  <1>2. ASSUME UNCHANGED <<feed, cursor, page, nextCursor, delivered>>
        PROVE  PagesAreComplete' /\ NoSkippedActivity'
    BY <1>2
  <1>3. ASSUME NEW c \in Consumers, FetchPage(c)
        PROVE  PagesAreComplete' /\ NoSkippedActivity'
    <2>1. UNCHANGED <<feed, cursor, delivered>>
      BY <1>3 DEF FetchPage, dbVars
    <2>2. PICK items \in SUBSET After(InScope(c, feed), cursor[c]),
               last \in {a.id : a \in After(InScope(c, feed), cursor[c])} :
            /\ \A a \in items : a.id <= last
            /\ \A a \in After(InScope(c, feed), cursor[c]) : a.id <= last => a \in items
            /\ page' = [page EXCEPT ![c] = items]
            /\ nextCursor' = [nextCursor EXCEPT ![c] = last]
      BY <1>3 DEF FetchPage
    <2>3. page'[c] = items /\ nextCursor'[c] = last
      BY <2>2 DEF TypeOK
    <2>4. ASSUME NEW d \in Consumers, d # c
          PROVE  page'[d] = page[d] /\ nextCursor'[d] = nextCursor[d]
      BY <2>2, <2>4 DEF TypeOK
    <2>5. /\ items \subseteq InScope(c, feed)
          /\ \A a \in items : cursor[c] < a.id /\ a.id <= last
      BY <2>2 DEF After, TypeOK, Activity
    <2>6. \A a \in InScope(c, feed) : cursor[c] < a.id /\ a.id <= last => a \in items
      BY <2>2 DEF After, TypeOK, Activity
    <2>7. PagesAreComplete'
      BY <2>1, <2>3, <2>4, <2>5, <2>6
    <2>8. QED
      BY <2>1, <2>7
  <1>4. ASSUME NEW c \in Consumers, SaveCheckpoint(c)
        PROVE  PagesAreComplete' /\ NoSkippedActivity'
    <2>1. feed' = feed
      BY <1>4 DEF SaveCheckpoint, dbVars
    <2>2. /\ delivered'[c] = delivered[c] \cup page[c]
          /\ cursor'[c] = nextCursor[c]
          /\ page'[c] = {} /\ nextCursor'[c] = 0
      BY <1>4 DEF SaveCheckpoint, TypeOK
    <2>3. ASSUME NEW d \in Consumers, d # c
          PROVE  /\ delivered'[d] = delivered[d] /\ cursor'[d] = cursor[d]
                 /\ page'[d] = page[d] /\ nextCursor'[d] = nextCursor[d]
      BY <1>4, <2>3 DEF SaveCheckpoint, TypeOK
    <2>4. PICK b \in page[c] :
            cursor[c] < b.id /\ b.id <= nextCursor[c] /\ b \in InScope(c, feed)
      BY <1>4 DEF SaveCheckpoint
    <2>5. \A a \in feed : a.id \in Nat
      BY DEF TypeOK, Activity
    <2>6. cursor[c] \in Nat /\ nextCursor[c] \in Nat
      BY DEF TypeOK
    <2>7. cursor[c] <= nextCursor[c]
      BY <1>4, <2>4, <2>5, <2>6 DEF SaveCheckpoint
    <2>8. \A a \in delivered'[c] : a \in InScope(c, feed) /\ a.id <= cursor'[c]
      BY <2>2, <2>5, <2>6, <2>7
    <2>9. \A a \in InScope(c, feed) : a.id <= cursor'[c] => a \in delivered'[c]
      BY <2>2, <2>5, <2>6
    <2>10. \A a \in InScope(c, feed) :
             ~(cursor'[c] < a.id /\ a.id <= nextCursor'[c])
      BY <2>2, <2>5, <2>6
    <2>11. PagesAreComplete'
      BY <2>1, <2>2, <2>3, <2>8, <2>10
    <2>12. QED
      BY <2>1, <2>3, <2>9, <2>11
  <1>5. ASSUME NEW c \in Consumers, ConsumerCrash(c)
        PROVE  PagesAreComplete' /\ NoSkippedActivity'
    <2>1. UNCHANGED <<feed, cursor, delivered>>
      BY <1>5 DEF ConsumerCrash, dbVars
    <2>2. page'[c] = {} /\ nextCursor'[c] = 0
      BY <1>5 DEF ConsumerCrash, TypeOK
    <2>3. ASSUME NEW d \in Consumers, d # c
          PROVE  page'[d] = page[d] /\ nextCursor'[d] = nextCursor[d]
      BY <1>5, <2>3 DEF ConsumerCrash, TypeOK
    <2>4. \A a \in InScope(c, feed) : ~(cursor[c] < a.id /\ a.id <= 0)
      BY DEF TypeOK, Activity
    <2>5. QED
      BY <2>1, <2>2, <2>3, <2>4
  <1>6. ASSUME NEW w \in Workers, NEW r \in Requests, NEW k \in Keys, Submit(w, r, k)
        PROVE  PagesAreComplete' /\ NoSkippedActivity'
    BY <1>2, <1>6 DEF Submit, dbVars, consumerVars
  <1>7. ASSUME NEW w \in Workers,
               \/ ReserveInsert(w) \/ ReserveLookup(w) \/ UpdateRow(w)
               \/ AcquireGate(w) \/ AppendActivity(w) \/ CompleteCommand(w)
               \/ CommitReplay(w) \/ Reply(w) \/ LoseReply(w) \/ Fail(w) \/ Rollback(w)
        PROVE  PagesAreComplete' /\ NoSkippedActivity'
    <2>1. UNCHANGED <<feed, cursor, page, nextCursor, delivered>>
      BY <1>7 DEF ReserveInsert, ReserveLookup, UpdateRow, AcquireGate, AppendActivity,
                  CompleteCommand, CommitReplay, Reply, LoseReply, Fail, Rollback,
                  dbVars, consumerVars
    <2>2. QED
      BY <1>2, <2>1
  <1>8. CASE UNCHANGED vars
    BY <1>2, <1>8 DEF vars, dbVars, consumerVars
  <1>9. QED
    BY <1>1, <1>3, <1>4, <1>5, <1>6, <1>7, <1>8 DEF Next, WorkerStep

\* What the commit of a worker publishes, from its drafts.
LEMMA CommitPublishes ==
  ASSUME TypeOK, DraftsAreCurrent, GateOrdersIds, NEW w \in Workers, Commit(w)
  PROVE  \E x \in Entry, a \in Activity :
           /\ x.command = Command(w) /\ x.request = request[w]
           /\ ~Recorded(Command(w))
           /\ Matches(rows[x.request.entity], x.request)
           /\ x.response = Written(rows[x.request.entity], x.request)
           /\ ledger' = ledger \cup {x}
           /\ rows' = [rows EXCEPT ![x.request.entity] = x.response]
           /\ a.command = x.command /\ a.entity = x.request.entity
           /\ a.revision = x.response.revision
           /\ \A b \in feed : b.id < a.id
           /\ feed' = feed \cup {a}
  <1> DEFINE x == [command |-> Command(w), request |-> request[w],
                   response |-> draftResponse[w]]
  <1>1. x \in Entry
    BY CommandsOfWorkers, RequestsAssumption DEF TypeOK, Entry
  <1>2. /\ ~Recorded(Command(w))
        /\ Matches(rows[request[w].entity], request[w])
        /\ draftResponse[w] = Written(rows[request[w].entity], request[w])
        /\ draftRow[w] = draftResponse[w]
    BY DEF Commit, DraftsAreCurrent, Reserved, Updated
  <1>3. PICK a \in draftActivity[w] :
          /\ draftActivity[w] = {a}
          /\ a.command = Command(w)
          /\ a.entity = request[w].entity
          /\ a.revision = draftRow[w].revision
          /\ \A b \in feed : b.id < a.id
    BY DEF Commit, GateOrdersIds, Appended
  <1>4. a \in Activity
    BY <1>3 DEF TypeOK
  <1>5. /\ ledger' = ledger \cup {x}
        /\ rows' = [rows EXCEPT ![request[w].entity] = draftResponse[w]]
        /\ feed' = feed \cup {a}
    BY <1>2, <1>3 DEF Commit
  <1>6. QED
    BY <1>1, <1>2, <1>3, <1>4, <1>5

LEMMA NextLedgerIsSound ==
  ASSUME IInv, [Next]_vars
  PROVE  ExactlyOnce' /\ NoLostUpdate' /\ FeedFollowsRevisions' /\ RevisionsReached'
  <1> USE DEF IInv
  <1>1. CASE UNCHANGED <<ledger, rows, feed>>
    <2>1. ExactlyOnce'
      BY <1>1 DEF ExactlyOnce, Recorded
    <2>2. NoLostUpdate'
      BY <1>1 DEF NoLostUpdate, Versions
    <2>3. FeedFollowsRevisions' /\ RevisionsReached'
      BY <1>1 DEF FeedFollowsRevisions, RevisionsReached
    <2>4. QED
      BY <2>1, <2>2, <2>3
  <1>2. ASSUME NEW w \in Workers, Commit(w)
        PROVE  ExactlyOnce' /\ NoLostUpdate' /\ FeedFollowsRevisions' /\ RevisionsReached'
    <2>1. PICK x \in Entry, a \in Activity :
            /\ x.command = Command(w) /\ x.request = request[w]
            /\ ~Recorded(Command(w))
            /\ Matches(rows[x.request.entity], x.request)
            /\ x.response = Written(rows[x.request.entity], x.request)
            /\ ledger' = ledger \cup {x}
            /\ rows' = [rows EXCEPT ![x.request.entity] = x.response]
            /\ a.command = x.command /\ a.entity = x.request.entity
            /\ a.revision = x.response.revision
            /\ \A b \in feed : b.id < a.id
            /\ feed' = feed \cup {a}
      BY <1>2, CommitPublishes
    <2> DEFINE e == x.request.entity
    <2>2. /\ e \in Entities /\ x.request \in Request /\ rows[e] \in Row
          /\ \A d \in Entities : rows[d].revision \in Nat
      BY DEF TypeOK, Entry, Request, Row
    <2>3. x.response \in Row /\ x.response.revision = rows[e].revision + 1
      BY <2>1, <2>2, WrittenIsNextRevision
    <2>4. /\ rows'[e] = x.response
          /\ \A d \in Entities : d # e => rows'[d] = rows[d]
      BY <2>1, <2>2 DEF TypeOK
    <2>5. \A y \in ledger : y.command # x.command
      BY <2>1 DEF Recorded
    <2>6. \A b \in feed : b.command # x.command
      BY <2>1 DEF ExactlyOnce
    <2>7. ExactlyOnce'
      <3>1. \A y, z \in ledger' : y.command = z.command => y = z
        BY <2>1, <2>5 DEF ExactlyOnce
      <3>2. \A y \in ledger' : \E b \in feed' :
              /\ b.command = y.command
              /\ b.entity = y.request.entity
              /\ b.revision = y.response.revision
        BY <2>1 DEF ExactlyOnce
      <3>3. \A b \in feed' : \E y \in ledger' : y.command = b.command
        BY <2>1 DEF ExactlyOnce, Recorded
      <3>4. \A b, d \in feed' : b.command = d.command => b = d
        BY <2>1, <2>6 DEF ExactlyOnce
      <3>5. QED
        BY <3>1, <3>2, <3>3, <3>4 DEF ExactlyOnce, Recorded
    <2>8. \A d \in Entities :
            Versions(d)' = IF d = e THEN Versions(d) \cup {x.response} ELSE Versions(d)
      BY <2>1 DEF Versions
    <2>9. \A d \in Entities : \A row \in Versions(d) : row.revision <= rows[d].revision
      BY DEF NoLostUpdate
    <2>10. \A d \in Entities : \A row \in Versions(d) : row.revision \in Nat
      BY ConstantRows DEF Versions, TypeOK, Entry, Row
    <2>11. NoLostUpdate'
      <3>1. \A y \in ledger' : \E row \in Versions(y.request.entity)' :
              Matches(row, y.request) /\ y.response = Written(row, y.request)
        <4>1. ASSUME NEW y \in ledger
              PROVE  \E row \in Versions(y.request.entity)' :
                       Matches(row, y.request) /\ y.response = Written(row, y.request)
          <5>1. y.request.entity \in Entities
            BY DEF TypeOK, Entry, Request
          <5>2. QED
            BY <5>1, <2>8 DEF NoLostUpdate
        <4>2. rows[e] \in Versions(e)'
          BY <2>2, <2>8 DEF NoLostUpdate
        <4>3. QED
          BY <2>1, <4>1, <4>2
      <3>2. ASSUME NEW y \in ledger, y.request.entity = e
            PROVE  y.response.revision # x.response.revision
        <4>1. y.response \in Versions(e)
          BY <3>2 DEF Versions
        <4>2. QED
          BY <2>2, <2>3, <2>9, <2>10, <4>1
      <3>3. \A y, z \in ledger' :
              y.request.entity = z.request.entity
                /\ y.response.revision = z.response.revision => y = z
        BY <2>1, <3>2 DEF NoLostUpdate
      <3>4. ASSUME NEW d \in Entities
            PROVE  /\ rows'[d] \in Versions(d)'
                   /\ \A row \in Versions(d)' : row.revision <= rows'[d].revision
        <4>1. CASE d = e
          <5>1. \A row \in Versions(e) : row.revision <= rows[e].revision + 1
            BY <2>2, <2>9, <2>10
          <5>2. x.response.revision <= x.response.revision
            BY <2>3 DEF Row
          <5>3. QED
            BY <4>1, <2>3, <2>4, <2>8, <5>1, <5>2
        <4>2. CASE d # e
          BY <4>2, <2>4, <2>8 DEF NoLostUpdate
        <4>3. QED
          BY <4>1, <4>2
      <3>5. QED
        BY <3>1, <3>3, <3>4 DEF NoLostUpdate
    <2>12. \A b \in feed : b.revision \in Nat /\ b.id \in Nat /\ b.entity \in Entities
      BY DEF TypeOK, Activity
    <2>13. \A b \in feed : b.entity = e => b.revision < a.revision
      BY <2>1, <2>2, <2>3, <2>12 DEF RevisionsReached
    <2>14. a.id \in Nat /\ a.revision \in Nat
      BY DEF Activity
    <2>15. FeedFollowsRevisions'
      <3>1. ASSUME NEW b \in feed', NEW d \in feed', b.entity = d.entity, b # d
            PROVE  b.id < d.id <=> b.revision < d.revision
        <4>1. CASE b \in feed /\ d \in feed
          BY <3>1, <4>1 DEF FeedFollowsRevisions
        <4>2. CASE b \in feed /\ d = a
          BY <3>1, <4>2, <2>1, <2>13
        <4>3. CASE b = a /\ d \in feed
          BY <3>1, <4>3, <2>1, <2>12, <2>13, <2>14
        <4>4. QED
          BY <3>1, <4>1, <4>2, <4>3, <2>1
      <3>2. QED
        BY <3>1 DEF FeedFollowsRevisions
    <2>16. RevisionsReached'
      <3>1. ASSUME NEW b \in feed PROVE b.revision <= rows'[b.entity].revision
        <4>1. b.revision <= rows[b.entity].revision
          BY DEF RevisionsReached
        <4>2. CASE b.entity = e
          BY <4>1, <4>2, <2>2, <2>3, <2>4, <2>12
        <4>3. CASE b.entity # e
          BY <4>1, <4>3, <2>4, <2>12
        <4>4. QED
          BY <4>2, <4>3
      <3>2. a.revision <= rows'[a.entity].revision
        BY <2>1, <2>4, <2>14
      <3>3. QED
        BY <2>1, <3>1, <3>2 DEF RevisionsReached
    <2>17. QED
      BY <2>7, <2>11, <2>15, <2>16
  <1>3. QED
    BY <1>1, <1>2, OnlyCommitPublishes

LEMMA NextAnswersAreRecorded ==
  ASSUME DraftsAreCurrent, AnswersAreRecorded, [Next]_vars
  PROVE  AnswersAreRecorded'
  <1>1. ledger \subseteq ledger'
    BY OnlyCommitPublishes DEF Commit
  <1>2. CASE answers' = answers
    BY <1>1, <1>2 DEF AnswersAreRecorded
  <1>3. ASSUME NEW w \in Workers, Reply(w)
        PROVE  AnswersAreRecorded'
    BY <1>1, <1>3 DEF Reply, DraftsAreCurrent, AnswersAreRecorded
  <1>4. (\E w \in Workers : Reply(w)) \/ answers' = answers
    BY DEF Next, WorkerStep, vars, Submit, ReserveInsert, ReserveLookup,
           UpdateRow, AcquireGate, AppendActivity, CompleteCommand, Commit,
           CommitReplay, LoseReply, Fail, Rollback, FetchPage, SaveCheckpoint,
           ConsumerCrash
  <1>5. QED
    BY <1>2, <1>3, <1>4

LEMMA NextIInv == IInv /\ [Next]_vars => IInv'
  <1> SUFFICES ASSUME IInv, [Next]_vars PROVE IInv'
    OBVIOUS
  <1>1. TypeOK'
    BY NextTypeOK DEF IInv
  <1>2. LocksHeld' /\ DraftsAreCurrent'
    BY NextLocksHeld, NextDraftsAreCurrent DEF IInv
  <1>3. GateOrdersIds'
    BY NextGateOrdersIds DEF IInv
  <1>4. PagesAreComplete' /\ NoSkippedActivity'
    BY NextPagesAreComplete DEF IInv
  <1>5. ExactlyOnce' /\ NoLostUpdate' /\ FeedFollowsRevisions' /\ RevisionsReached'
    BY NextLedgerIsSound
  <1>6. AnswersAreRecorded'
    BY NextAnswersAreRecorded DEF IInv
  <1>7. QED
    BY <1>1, <1>2, <1>3, <1>4, <1>5, <1>6 DEF IInv

\* The inductive invariant holds in every reachable state: a transaction's
\* locks protect what it read, and the gate orders what it will publish.
THEOREM Invariance == Spec => []IInv
  <1>1. QED
    BY InitIInv, NextIInv, PTL DEF Spec

\* However its attempts interleave, fail or are retried, a command takes
\* effect exactly once and has exactly one activity record.
THEOREM CommandsTakeEffectOnce == Spec => []ExactlyOnce
  <1>1. IInv => ExactlyOnce
    BY DEF IInv
  <1>2. QED
    BY <1>1, Invariance, PTL

\* No client's write is overwritten by one that had not seen it.
THEOREM WritesAreNotLost == Spec => []NoLostUpdate
  <1>1. IInv => NoLostUpdate
    BY DEF IInv
  <1>2. QED
    BY <1>1, Invariance, PTL

\* Activity ids order the changes of a row as its revisions do.
THEOREM FeedIsOrdered == Spec => []FeedFollowsRevisions
  <1>1. IInv => FeedFollowsRevisions
    BY DEF IInv
  <1>2. QED
    BY <1>1, Invariance, PTL

\* A checkpointing consumer skips no activity, whatever was uncommitted when
\* it read.
THEOREM CheckpointsSkipNothing == Spec => []NoSkippedActivity
  <1>1. IInv => NoSkippedActivity
    BY DEF IInv
  <1>2. QED
    BY <1>1, Invariance, PTL

\* A success a client has seen is durable and is the answer to its command.
THEOREM AnswersAreDurable == Spec => []AnswersAreRecorded
  <1>1. IInv => AnswersAreRecorded
    BY DEF IInv
  <1>2. QED
    BY <1>1, Invariance, PTL

-----------------------------------------------------------------------------
(***************************************************************************)
(* The pipeline implements the atomic ledger.                               *)
(***************************************************************************)

LEMMA InitRefines == Init => Abstract!LedgerInit
  BY DEF Init, InitialRow, Abstract!LedgerInit

LEMMA SameEffect ==
  ASSUME NEW row, NEW r
  PROVE  Abstract!Effect(row, r) = Written(row, r) /\ Abstract!Accepts(row, r) = Matches(row, r)
  BY Zenon DEF Abstract!Effect, Written, Abstract!Accepts, Matches

LEMMA CommitRefines ==
  ASSUME IInv, NEW w \in Workers, Commit(w)
  PROVE  Abstract!Apply(request[w], key[w])
  <1> USE DEF IInv
  <1>1. PICK x \in Entry, a \in Activity :
          /\ x.command = Command(w) /\ x.request = request[w]
          /\ ~Recorded(Command(w))
          /\ Matches(rows[x.request.entity], x.request)
          /\ x.response = Written(rows[x.request.entity], x.request)
          /\ ledger' = ledger \cup {x}
          /\ rows' = [rows EXCEPT ![x.request.entity] = x.response]
          /\ a.command = x.command /\ a.entity = x.request.entity
          /\ a.revision = x.response.revision
          /\ \A b \in feed : b.id < a.id
          /\ feed' = feed \cup {a}
    BY CommitPublishes
  <1> DEFINE r == request[w]
             after == Written(rows[r.entity], r)
             command == <<r.op, key[w]>>
  <1>2. x = [command |-> command, request |-> r, response |-> after]
    BY <1>1 DEF Entry, Command
  <1>3. \A y \in ledger : y.command # command
    BY <1>1 DEF Recorded, Command
  <1>4. \E b \in feed' :
          /\ feed' = feed \cup {b}
          /\ b.command = command
          /\ b.entity = r.entity
          /\ b.revision = after.revision
          /\ \A d \in feed : d.id < b.id
    BY <1>1 DEF Command
  <1>5. rows' = [rows EXCEPT ![r.entity] = after]
    BY <1>1
  <1>6. UNCHANGED <<answers, delivered>>
    BY DEF Commit, consumerVars
  <1>7. Matches(rows[r.entity], r)
    BY <1>1
  <1>8. ledger' = ledger \cup {[command |-> command, request |-> r, response |-> after]}
    BY <1>1, <1>2
  <1> HIDE DEF r
  <1>9. Abstract!Apply(r, key[w])
    BY <1>3, <1>4, <1>5, <1>6, <1>7, <1>8, SameEffect DEF Abstract!Apply
  <1>10. QED
    BY <1>9 DEF r

LEMMA SaveCheckpointRefines ==
  ASSUME IInv, NEW c \in Consumers, SaveCheckpoint(c)
  PROVE  Abstract!Deliver(c)
  <1> USE DEF IInv
  <1>1. page[c] \subseteq {a \in feed : a.entity \in Scope[c]}
    BY DEF PagesAreComplete, InScope
  <1>2. UNCHANGED <<ledger, rows, feed, answers>>
    BY DEF SaveCheckpoint, dbVars
  <1>3. delivered' = [delivered EXCEPT ![c] = delivered[c] \cup page[c]]
    BY DEF SaveCheckpoint
  <1>4. delivered'[c] = delivered[c] \cup page[c]
    BY <1>3 DEF TypeOK
  <1>5. ASSUME NEW a \in page[c], NEW b \in feed, b.entity \in Scope[c], b.id < a.id
        PROVE  b \in delivered'[c]
    <2>1. a.id <= nextCursor[c] /\ b \in InScope(c, feed)
      BY <1>5 DEF PagesAreComplete, InScope
    <2>2. /\ a.id \in Nat /\ b.id \in Nat
          /\ cursor[c] \in Nat /\ nextCursor[c] \in Nat
      BY <1>1 DEF TypeOK, Activity
    <2>3. CASE b.id <= cursor[c]
      BY <1>4, <2>1, <2>3 DEF NoSkippedActivity
    <2>4. CASE cursor[c] < b.id
      <3>1. b.id <= nextCursor[c]
        BY <1>5, <2>1, <2>2
      <3>2. QED
        BY <1>4, <2>1, <2>4, <3>1 DEF PagesAreComplete
    <2>5. QED
      BY <2>2, <2>3, <2>4
  <1>6. QED
    BY <1>1, <1>2, <1>3, <1>5 DEF Abstract!Deliver

LEMMA ReplyRefines ==
  ASSUME IInv, NEW w \in Workers, Reply(w)
  PROVE  \E x \in ledger : Abstract!Answer(x)
  <1>1. PICK x \in ledger :
          x = [command |-> Command(w), request |-> request[w], response |-> draftResponse[w]]
    BY DEF Reply, IInv, DraftsAreCurrent
  <1>2. QED
    BY <1>1 DEF Reply, Abstract!Answer, dbVars, consumerVars

LEMMA NextRefines ==
  IInv /\ [Next]_vars => [Abstract!LedgerNext]_(Abstract!ledgerVars)
  <1> SUFFICES ASSUME IInv, [Next]_vars
               PROVE  [Abstract!LedgerNext]_(Abstract!ledgerVars)
    OBVIOUS
  <1>1. CASE UNCHANGED <<ledger, rows, feed, answers, delivered>>
    BY <1>1 DEF Abstract!ledgerVars
  <1>2. ASSUME NEW w \in Workers, Commit(w)
        PROVE  Abstract!LedgerNext
    <2>1. request[w] \in Requests /\ key[w] \in Keys
      BY DEF IInv, TypeOK
    <2>2. QED
      BY <1>2, <2>1, CommitRefines DEF Abstract!LedgerNext
  <1>3. ASSUME NEW w \in Workers, Reply(w)
        PROVE  Abstract!LedgerNext
    BY <1>3, ReplyRefines DEF Abstract!LedgerNext
  <1>4. ASSUME NEW c \in Consumers, SaveCheckpoint(c)
        PROVE  Abstract!LedgerNext
    BY <1>4, SaveCheckpointRefines DEF Abstract!LedgerNext
  <1>5. \/ \E w \in Workers : Commit(w) \/ Reply(w)
        \/ \E c \in Consumers : SaveCheckpoint(c)
        \/ UNCHANGED <<ledger, rows, feed, answers, delivered>>
    BY DEF Next, WorkerStep, vars, dbVars, consumerVars, Submit, ReserveInsert,
           ReserveLookup, UpdateRow, AcquireGate, AppendActivity, CompleteCommand,
           CommitReplay, LoseReply, Fail, Rollback, FetchPage, ConsumerCrash
  <1>6. QED
    BY <1>1, <1>2, <1>3, <1>4, <1>5

\* Every behaviour of the pipeline is one of the ledger in which a command is
\* a single atomic step and a consumer reads a gapless prefix of its feed.
THEOREM PipelineImplementsLedger == Spec => ImplementsLedger
  <1>1. QED
    BY InitRefines, NextRefines, Invariance, PTL DEF Spec, ImplementsLedger, Abstract!Spec

=============================================================================
