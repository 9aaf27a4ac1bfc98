--------------------------- MODULE GovernanceProofs ---------------------------
(***************************************************************************)
(* That apply_retention leaves nothing that carried the subject when it     *)
(* began, that what it erased stays erased, that its answers are those of a *)
(* committed action, and that an export which succeeds is complete, proved  *)
(* for any number of commands, attempts and exports.                        *)
(***************************************************************************)
EXTENDS Governance, FiniteSetTheorems, WellFoundedInduction, TLAPS

USE SentinelsAssumption, NamesAssumption, HandlersAssumption, RequestsAssumption

-----------------------------------------------------------------------------
(***************************************************************************)
(* The inductive invariant, part by part.                                   *)
(***************************************************************************)
Steps ==
  {"idle", "begun", "ready", "read_receipt", "replayed", "select", "erase",
   "store_receipt", "commit", "applied", "open_section", "fetch_page",
   "write_rows", "exported", "exhausted"}

DbTyped ==
  /\ rows \in [Seqs -> Row \cup {Absent}]
  /\ nextSeq \in Nat \ {0}
  /\ assignee \in [Issues -> Subjects \cup {Nobody}]
  /\ receipts \in [Actions -> Receipt \cup {Absent}]

CallsTyped ==
  /\ step \in [Handlers -> Steps]
  /\ request \in [Handlers -> Requests \cup RetentionRequests \cup ExportRequests]
  /\ \A w \in Workers : request[w] \in Requests
  /\ \A a \in Attempts : request[a] \in RetentionRequests

LocalsTyped ==
  /\ target \in [Workers -> Rows \cup {0}]
  /\ ahead \in [Workers -> Nat] /\ outdated \in [Workers -> BOOLEAN]
  /\ guesses \subseteq Workers
  /\ exclusive \in [Transactions -> SUBSET (Rows \cup Actions)]
  /\ section \in [Attempts \cup Exporters -> 1..4]
  /\ pending \in [Attempts -> SUBSET Rows]
  /\ eligible \in [Attempts -> SUBSET Rows]

\* What a transaction has locked is nobody else's.
LocksExclude ==
  \A g, h \in Transactions : g # h => exclusive[g] \cap exclusive[h] = {}

\* A row_seq that has not been drawn has no row.
RowsAreDrawn == \A seq \in Seqs : seq >= nextSeq => rows[seq] = Absent

Inserting(w) == step[w] = "ready" /\ request[w].op \in Insertions

InsertsDiffer ==
  \A v, w \in Workers : Inserting(v) /\ Inserting(w) /\ v # w => target[v] # target[w]

\* A row about to be inserted has a number of its own.
InsertStands(w) ==
  Inserting(w) => target[w] \in Seqs /\ target[w] < nextSeq /\ rows[target[w]] = Absent

\* A comment about to be edited is its author's until its client is outdated,
\* and once it is locked it is the author's, unless the revision was guessed.
EditStands(w) ==
  step[w] \in {"begun", "ready"} /\ request[w].op \in CommentEdits =>
    /\ target[w] \in Seqs
    /\ rows[target[w]] # Absent /\ rows[target[w]].table = "comments"
    /\ w \notin guesses => ahead[w] = 0
    /\ w \notin guesses /\ step[w] = "begun" =>
         outdated[w] \/ rows[target[w]].owner = request[w].actor
    /\ w \notin guesses /\ step[w] = "ready" => rows[target[w]].owner = request[w].actor
    /\ step[w] = "ready" => target[w] \in exclusive[w]

AssignStands(w) ==
  step[w] \in {"begun", "ready"} /\ request[w].op = "set_issue_assignee" =>
    target[w] = request[w].at

WorkerStands(w) == InsertStands(w) /\ EditStands(w) /\ AssignStands(w)

Published == {seq \in Seqs : rows[seq] # Absent} \cup Issues

\* A row that is not of the first n tables.
Beyond(n, id) == \A m \in 1..n : ~InTable(id, Sections[m])

\* Where an eligible row that still is the subject's can be: the tables of the
\* statements so far are done with, as far as their rows are not locked.
FoundStands(a) ==
  \A id \in eligible[a] : Owner(id) = request[a].subject =>
    /\ step[a] = "select" => id \in exclusive[a] \/ Beyond(section[a] - 1, id)
    /\ step[a] = "erase" => id \in exclusive[a] \cup pending[a] \/ Beyond(section[a], id)
    /\ step[a] \in {"store_receipt", "commit"} => id \in exclusive[a]
    /\ step[a] # "applied"

\* The receipt's key is taken before it is written.
ReceiptStands(a) ==
  LET r == request[a]
  IN /\ step[a] = "commit" => r.action \in exclusive[a] /\ receipts[r.action] = Absent
     /\ step[a] \in {"applied", "replayed"} =>
          receipts[r.action] = [subject |-> r.subject, mode |-> r.mode]

AttemptStands(a) ==
  /\ eligible[a] \subseteq Published
  /\ exclusive[a] \cap Rows \subseteq Published
  /\ step[a] = "read_receipt" => section[a] = 1
  /\ FoundStands(a)
  /\ ReceiptStands(a)

IInv ==
  /\ DbTyped /\ CallsTyped /\ LocalsTyped
  /\ LocksExclude /\ RowsAreDrawn /\ InsertsDiffer /\ ErasedStaysErased
  /\ \A w \in Workers : WorkerStands(w)
  /\ \A a \in Attempts : AttemptStands(a)

-----------------------------------------------------------------------------
(***************************************************************************)
(* Rows, requests and sections.                                             *)
(***************************************************************************)
LEMMA RequestFields ==
  ASSUME NEW r \in Requests
  PROVE  /\ r.op \in Insertions \cup CommentEdits \cup {"set_issue_assignee"}
         /\ r.op \in Insertions \cup CommentEdits => r.actor \in Subjects
         /\ r.op \in Insertions \cup {"update_comment"} => r.body \in Bodies
         /\ r.op = "set_issue_assignee" =>
              r.actor \in Subjects /\ r.at \in Issues /\ r.assignee \in Subjects \cup {Nobody}
BY DEF Request, Insertions, CommentEdits

LEMMA RetentionFields ==
  ASSUME NEW r \in RetentionRequests
  PROVE  /\ r.action \in Actions /\ r.subject \in Subjects
         /\ r.mode \in {"delete", "anonymize"}
         /\ [subject |-> r.subject, mode |-> r.mode] \in Receipt
BY DEF RetentionRequest, Receipt

LEMMA RowFields ==
  ASSUME NEW row \in Row
  PROVE  /\ row # Absent
         /\ row.table \in {"comments", "project_updates", "activity"}
         /\ row.owner \in Owners
         /\ row.table = "activity" => row.body = Empty
BY DEF Row

LEMMA SectionsNamed ==
  /\ Len(Sections) = 4 /\ DOMAIN Sections = 1..4
  /\ Sections[1] = "comments" /\ Sections[2] = "project_updates"
  /\ Sections[3] = "activity" /\ Sections[4] = "issues"
BY DEF Sections

\* An edited comment keeps its table and its author.
LEMMA EditedRow ==
  ASSUME NEW row \in Row, row.table = "comments", NEW body \in Bodies \cup {Empty}
  PROVE  /\ [row EXCEPT !.body = body] \in Row
         /\ [row EXCEPT !.body = body].table = row.table
         /\ [row EXCEPT !.body = body].owner = row.owner
         /\ [row EXCEPT !.body = body, !.deleted = TRUE] \in Row
         /\ [row EXCEPT !.body = body, !.deleted = TRUE].table = row.table
         /\ [row EXCEPT !.body = body, !.deleted = TRUE].owner = row.owner
         /\ [row EXCEPT !.body = body, !.deleted = TRUE].body = body
<1>1. row \in [table : {"comments"}, owner : Owners, body : Bodies \cup {Empty},
               deleted : BOOLEAN]
  BY DEF Row
<1>2. /\ [row EXCEPT !.body = body].table = row.table
      /\ [row EXCEPT !.body = body].owner = row.owner
  BY <1>1
<1>3. /\ [row EXCEPT !.body = body, !.deleted = TRUE].table = row.table
      /\ [row EXCEPT !.body = body, !.deleted = TRUE].owner = row.owner
      /\ [row EXCEPT !.body = body, !.deleted = TRUE].body = body
  BY <1>1
<1>4. [row EXCEPT !.body = body] \in Row
  BY <1>1 DEF Row
<1>5. [row EXCEPT !.body = body, !.deleted = TRUE] \in Row
  BY <1>1 DEF Row
<1> QED  BY <1>2, <1>3, <1>4, <1>5

\* An erased row keeps its table.
LEMMA ErasedRow ==
  ASSUME NEW row \in Row, NEW r \in RetentionRequests
  PROVE  /\ Erased(row, r) \in Row
         /\ Erased(row, r).table = row.table
         /\ Erased(row, r).owner = r.action
         /\ r.mode = "delete" => Erased(row, r).body = Empty
<1> USE RetentionFields
<1>1. CASE row \in [table : {"comments"}, owner : Owners, body : Bodies \cup {Empty},
                    deleted : BOOLEAN]
  <2>1. [row EXCEPT !.owner = r.action] \in Row
    BY <1>1 DEF Row, Owners
  <2>2. [row EXCEPT !.owner = r.action, !.body = Empty] \in Row
    BY <1>1 DEF Row, Owners
  <2> QED  BY <1>1, <2>1, <2>2 DEF Erased, AuthoredTables
<1>2. CASE row \in [table : {"project_updates"}, owner : Owners,
                    body : Bodies \cup {Empty}]
  <2>1. [row EXCEPT !.owner = r.action] \in Row
    BY <1>2 DEF Row, Owners
  <2>2. [row EXCEPT !.owner = r.action, !.body = Empty] \in Row
    BY <1>2 DEF Row, Owners
  <2> QED  BY <1>2, <2>1, <2>2 DEF Erased, AuthoredTables
<1>3. CASE row \in [table : {"activity"}, owner : Owners, body : {Empty}]
  <2>1. [row EXCEPT !.owner = r.action] \in Row
    BY <1>3 DEF Row, Owners
  <2> QED  BY <1>3, <2>1 DEF Erased, AuthoredTables
<1> QED  BY <1>1, <1>2, <1>3 DEF Row

\* Who has a row under an owner is published.
LEMMA OwnedIsPublished ==
  ASSUME NEW id \in Rows, Owner(id) \in Subjects
  PROVE  id \in Published
BY DEF Owner, Published, Rows

\* Every published row is of one of the four tables.
LEMMA RowsHaveTable ==
  ASSUME DbTyped, NEW id \in Published
  PROVE  ~Beyond(4, id)
<1>1. CASE id \in Issues
  BY <1>1, SectionsNamed DEF Beyond, InTable
<1>2. CASE id \notin Issues
  <2>1. id \in Seqs /\ rows[id] # Absent /\ rows[id] \in Row
    BY <1>2 DEF Published, DbTyped
  <2>2. PICK m \in 1..3 : rows[id].table = Sections[m]
    BY <2>1, RowFields, SectionsNamed
  <2>3. InTable(id, Sections[m])
    BY <2>1, <2>2, SectionsNamed DEF InTable
  <2> QED  BY <2>3 DEF Beyond
<1> QED  BY <1>1, <1>2

LEMMA Chosen ==
  /\ (CHOOSE r \in Requests : TRUE) \in Requests
  /\ (CHOOSE r \in RetentionRequests : TRUE) \in RetentionRequests
  /\ (CHOOSE x \in ExportRequests : TRUE) \in ExportRequests
OBVIOUS

LEMMA HandlersDiffer ==
  /\ \A w \in Workers, a \in Attempts : w # a
  /\ \A t \in Transactions, x \in Exporters : t # x
  /\ \A w \in Workers : w \in Handlers /\ w \in Transactions
  /\ \A a \in Attempts : a \in Handlers /\ a \in Transactions
  /\ \A x \in Exporters : x \in Handlers
BY DEF Transactions, Handlers

LEMMA InitStands == Init => IInv
<1> SUFFICES ASSUME Init PROVE IInv
  OBVIOUS
<1> USE FirstAssumption, HandlersDiffer
<1>1. DbTyped
  <2>1. rows \in [Seqs -> Row \cup {Absent}]
    BY DEF Init, Seqs
  <2>2. nextSeq \in Nat \ {0}
    <3>1. Len(FirstRows) \in Nat
      OBVIOUS
    <3> QED  BY <3>1 DEF Init
  <2>3. assignee \in [Issues -> Subjects \cup {Nobody}] /\ receipts \in [Actions -> Receipt \cup {Absent}]
    BY DEF Init
  <2> QED  BY <2>1, <2>2, <2>3 DEF DbTyped
<1>2. CallsTyped
  <2>1. step \in [Handlers -> Steps]
    BY DEF Init, Steps
  <2>2. /\ DOMAIN request = Handlers
        /\ request = [h \in Handlers |-> request[h]]
        /\ \A w \in Workers : request[w] \in Requests
        /\ \A a \in Attempts : request[a] \in RetentionRequests
        /\ \A x \in Exporters : request[x] \in ExportRequests
    BY Chosen DEF Init, Transactions
  <2>3. request \in [Handlers -> Requests \cup RetentionRequests \cup ExportRequests]
    BY <2>2 DEF Handlers
  <2> QED  BY <2>1, <2>2, <2>3 DEF CallsTyped
<1>3. LocalsTyped
  BY DEF Init, LocalsTyped
<1>4. LocksExclude /\ InsertsDiffer
  BY DEF Init, LocksExclude, InsertsDiffer, Inserting
<1>5. RowsAreDrawn
  BY DEF Init, RowsAreDrawn, Seqs
<1>6. ErasedStaysErased
  BY DEF Init, ErasedStaysErased, Seqs
<1>7. ASSUME NEW w \in Workers PROVE WorkerStands(w)
  BY DEF Init, WorkerStands, InsertStands, EditStands, AssignStands, Inserting
<1>8. ASSUME NEW a \in Attempts PROVE AttemptStands(a)
  BY DEF Init, AttemptStands, FoundStands, ReceiptStands
<1> QED  BY <1>1, <1>2, <1>3, <1>4, <1>5, <1>6, <1>7, <1>8 DEF IInv

-----------------------------------------------------------------------------
(***************************************************************************)
(* Steps that publish nothing.                                              *)
(***************************************************************************)
LEMMA WorkerKept ==
  ASSUME NEW w \in Workers, WorkerStands(w), UNCHANGED rows,
         nextSeq \in Nat, nextSeq' \in Nat, nextSeq' >= nextSeq, target[w] \in Rows \cup {0},
         step'[w] = step[w], request'[w] = request[w], target'[w] = target[w],
         outdated'[w] = outdated[w], ahead'[w] = ahead[w],
         w \in guesses' <=> w \in guesses, exclusive'[w] = exclusive[w]
  PROVE  WorkerStands(w)'
<1>1. InsertStands(w)'
  BY DEF WorkerStands, InsertStands, Inserting, Seqs
<1>2. EditStands(w)' /\ AssignStands(w)'
  BY DEF WorkerStands, EditStands, AssignStands, Seqs
<1> QED  BY <1>1, <1>2 DEF WorkerStands

LEMMA OwnersKept ==
  ASSUME UNCHANGED <<rows, assignee>>
  PROVE  /\ \A id : Owner(id)' = Owner(id)
         /\ \A id, t : InTable(id, t)' <=> InTable(id, t)
         /\ Published' = Published
         /\ \A n, id : Beyond(n, id)' <=> Beyond(n, id)
BY DEF Owner, InTable, Published, Beyond, Seqs

LEMMA AttemptKept ==
  ASSUME NEW a \in Attempts, AttemptStands(a), UNCHANGED <<rows, assignee, receipts>>,
         step'[a] = step[a], request'[a] = request[a], section'[a] = section[a],
         pending'[a] = pending[a], eligible'[a] = eligible[a], exclusive'[a] = exclusive[a]
  PROVE  AttemptStands(a)'
<1>1. FoundStands(a)'
  BY OwnersKept DEF AttemptStands, FoundStands
<1>2. ReceiptStands(a)'
  BY DEF AttemptStands, ReceiptStands
<1> QED  BY <1>1, <1>2, OwnersKept DEF AttemptStands, Rows, Seqs

LEMMA ErasedKept ==
  ASSUME ErasedStaysErased, UNCHANGED <<rows, receipts, guessed>>
  PROVE  ErasedStaysErased'
BY DEF ErasedStaysErased, Seqs

\* A command's step that publishes nothing leaves the others as they are.
LEMMA QuietWorker ==
  ASSUME IInv, NEW w \in Workers,
         UNCHANGED <<rows, assignee, receipts, guessed, section, attemptVars>>,
         nextSeq' \in Nat \ {0}, nextSeq' >= nextSeq,
         \A h \in Transactions \ {w} :
           step'[h] = step[h] /\ request'[h] = request[h] /\ exclusive'[h] = exclusive[h],
         \A v \in Workers \ {w} :
           /\ target'[v] = target[v] /\ outdated'[v] = outdated[v] /\ ahead'[v] = ahead[v]
           /\ v \in guesses' <=> v \in guesses,
         CallsTyped', LocalsTyped', LocksExclude', InsertsDiffer', WorkerStands(w)'
  PROVE  IInv'
<1> USE DEF IInv
<1>1. DbTyped'
  BY DEF DbTyped, Seqs
<1>2. RowsAreDrawn'
  BY DEF RowsAreDrawn, Seqs, DbTyped
<1>3. ErasedStaysErased'
  BY ErasedKept
<1>4. ASSUME NEW v \in Workers, v # w PROVE WorkerStands(v)'
  BY <1>4, WorkerKept, HandlersDiffer DEF DbTyped, LocalsTyped
<1>5. ASSUME NEW a \in Attempts PROVE AttemptStands(a)'
  BY AttemptKept, HandlersDiffer DEF attemptVars
<1> QED  BY <1>1, <1>2, <1>3, <1>4, <1>5

\* So does an attempt's.
LEMMA QuietAttempt ==
  ASSUME IInv, NEW a \in Attempts, UNCHANGED <<dbVars, workerVars>>,
         \A h \in Transactions \ {a} :
           step'[h] = step[h] /\ request'[h] = request[h] /\ exclusive'[h] = exclusive[h],
         \A b \in Attempts \ {a} :
           section'[b] = section[b] /\ pending'[b] = pending[b] /\ eligible'[b] = eligible[b],
         CallsTyped', LocalsTyped', LocksExclude', AttemptStands(a)'
  PROVE  IInv'
<1> USE DEF IInv
<1>1. DbTyped'
  BY DEF DbTyped, Seqs, dbVars
<1>2. RowsAreDrawn'
  BY DEF RowsAreDrawn, Seqs, DbTyped, dbVars
<1>3. ErasedStaysErased'
  BY ErasedKept DEF dbVars
<1>4. ASSUME NEW v \in Workers PROVE WorkerStands(v)'
  BY WorkerKept, HandlersDiffer DEF DbTyped, LocalsTyped, dbVars, workerVars
<1>5. ASSUME NEW b \in Attempts, b # a PROVE AttemptStands(b)'
  BY <1>5, AttemptKept, HandlersDiffer DEF dbVars
<1>6. InsertsDiffer'
  BY HandlersDiffer DEF InsertsDiffer, Inserting, workerVars
<1> QED  BY <1>1, <1>2, <1>3, <1>4, <1>5, <1>6

-----------------------------------------------------------------------------
(***************************************************************************)
(* The commands up to their commit.                                         *)
(***************************************************************************)
LEMMA Stepping ==
  ASSUME CallsTyped, NEW h \in Handlers, NEW s \in Steps, Goto(h, s), UNCHANGED request
  PROVE  /\ CallsTyped' /\ step'[h] = s
         /\ \A g \in Handlers \ {h} : step'[g] = step[g]
BY DEF CallsTyped, Goto

LEMMA Locking ==
  ASSUME LocalsTyped, LocksExclude, NEW h \in Transactions, NEW row \in Rows \cup Actions,
         Lock(h, row)
  PROVE  /\ exclusive' \in [Transactions -> SUBSET (Rows \cup Actions)]
         /\ LocksExclude'
         /\ exclusive'[h] = exclusive[h] \cup {row}
         /\ \A g \in Transactions \ {h} : exclusive'[g] = exclusive[g]
BY DEF LocalsTyped, LocksExclude, Lock, CanLock

LEMMA Unlocking ==
  ASSUME LocalsTyped, LocksExclude, NEW h \in Transactions,
         exclusive' = [exclusive EXCEPT ![h] = {}]
  PROVE  /\ exclusive' \in [Transactions -> SUBSET (Rows \cup Actions)]
         /\ LocksExclude' /\ exclusive'[h] = {}
         /\ \A g \in Transactions \ {h} : exclusive'[g] = exclusive[g]
BY DEF LocalsTyped, LocksExclude

LEMMA TargetsNamed ==
  ASSUME LocalsTyped, NEW w \in Workers
  PROVE  target[w] \in Seqs \cup Issues \cup {0}
BY DEF LocalsTyped, Rows

LEMMA BeginStands ==
  ASSUME IInv, NEW w \in Workers, NEW r \in Requests, NEW n \in 0..MaxAhead, Begin(w, r, n)
  PROVE  IInv'
<1> USE DEF IInv
<1>1. w \in Handlers /\ w \in Transactions /\ step[w] = "idle"
  BY HandlersDiffer DEF Begin
<1>2. PICK id \in Rows \cup {0} :
        /\ r.op \in CommentEdits => InTable(id, "comments") /\ Owner(id) = r.actor
        /\ r.op = "set_issue_assignee" => id = r.at
        /\ target' = [target EXCEPT ![w] = id]
  BY DEF Begin
<1>3. /\ step' = [step EXCEPT ![w] = "begun"]
      /\ request' = [request EXCEPT ![w] = r]
      /\ ahead' = [ahead EXCEPT ![w] = n]
      /\ guesses' = IF n > 0 THEN guesses \cup {w} ELSE guesses
      /\ UNCHANGED <<dbVars, exclusive, section, outdated, attemptVars>>
  BY DEF Begin, Goto
<1>4. CallsTyped'
  <2>1. "begun" \in Steps
    BY DEF Steps
  <2> QED  BY <1>1, <1>3, <2>1, HandlersDiffer DEF CallsTyped
<1>5. LocalsTyped'
  <2>1. n \in Nat
    OBVIOUS
  <2>2. ahead' \in [Workers -> Nat] /\ guesses' \subseteq Workers
    BY <1>3, <2>1 DEF LocalsTyped
  <2> QED  BY <1>2, <1>3, <2>2 DEF LocalsTyped, attemptVars
<1>6. /\ step'[w] = "begun" /\ request'[w] = r /\ target'[w] = id
      /\ \A g \in Handlers \ {w} : step'[g] = step[g] /\ request'[g] = request[g]
      /\ \A v \in Workers \ {w} : target'[v] = target[v]
  BY <1>1, <1>2, <1>3 DEF CallsTyped, LocalsTyped
<1>7. LocksExclude' /\ InsertsDiffer'
  <2>1. LocksExclude'
    BY <1>3 DEF LocksExclude
  <2>2. \A v \in Workers : v # w => (Inserting(v)' <=> Inserting(v))
    BY <1>6, HandlersDiffer DEF Inserting
  <2>3. ~Inserting(w)'
    BY <1>6 DEF Inserting
  <2> QED  BY <1>6, <2>1, <2>2, <2>3 DEF InsertsDiffer
<1>8. /\ w \notin guesses' => ahead'[w] = 0
      /\ \A v \in Workers \ {w} : ahead'[v] = ahead[v] /\ (v \in guesses' <=> v \in guesses)
  <2>1. n \in Nat /\ (n > 0 => w \in guesses')
    BY <1>3
  <2>2. ahead'[w] = n /\ \A v \in Workers \ {w} : ahead'[v] = ahead[v]
    BY <1>3 DEF LocalsTyped
  <2>3. \A v \in Workers \ {w} : v \in guesses' <=> v \in guesses
    BY <1>3
  <2> QED  BY <2>1, <2>2, <2>3
<1>9. WorkerStands(w)'
  <2>1. InsertStands(w)' /\ AssignStands(w)'
    BY <1>2, <1>6 DEF InsertStands, Inserting, AssignStands, CommentEdits
  <2>2. CASE r.op \in CommentEdits
    <3>1. InTable(id, "comments") /\ Owner(id) = r.actor
      BY <1>2, <2>2
    <3>2. id \in Seqs /\ rows[id] # Absent /\ rows[id].table = "comments" /\ id \notin Issues
      BY <3>1 DEF InTable, Seqs
    <3>3. rows[id].owner = r.actor
      BY <3>1, <3>2 DEF Owner
    <3> QED  BY <1>3, <1>6, <1>8, <2>1, <3>2, <3>3 DEF WorkerStands, EditStands, dbVars, Seqs
  <2>3. CASE r.op \notin CommentEdits
    BY <1>6, <2>1, <2>3 DEF WorkerStands, EditStands
  <2> QED  BY <2>2, <2>3
<1> QED
  BY <1>3, <1>4, <1>5, <1>6, <1>7, <1>8, <1>9, QuietWorker, HandlersDiffer DEF dbVars, DbTyped,
     Transactions, Handlers

LEMMA InsertRowStands ==
  ASSUME IInv, NEW w \in Workers, InsertRow(w)
  PROVE  IInv'
<1> USE DEF IInv
<1>1. w \in Handlers /\ w \in Transactions /\ "ready" \in Steps
  BY HandlersDiffer DEF Steps
<1>2. /\ step[w] = "begun" /\ request[w].op \in Insertions /\ nextSeq < MaxSeq
      /\ target' = [target EXCEPT ![w] = nextSeq] /\ nextSeq' = nextSeq + 1
      /\ Goto(w, "ready")
      /\ UNCHANGED <<rows, assignee, receipts, guessed, request, exclusive, section, ahead,
                     outdated, guesses, attemptVars>>
  BY DEF InsertRow, At
<1>3. CallsTyped' /\ step'[w] = "ready" /\ \A g \in Handlers \ {w} : step'[g] = step[g]
  BY <1>1, <1>2, Stepping
<1>4. nextSeq \in Seqs \cup {0} /\ nextSeq \in Nat /\ nextSeq' \in Nat
  BY <1>2 DEF Seqs, DbTyped
<1>5. LocalsTyped'
  BY <1>2, <1>4 DEF LocalsTyped, attemptVars, Rows
<1>6. target'[w] = nextSeq /\ \A v \in Workers \ {w} : target'[v] = target[v]
  BY <1>2 DEF LocalsTyped
<1>7. LocksExclude'
  BY <1>2 DEF LocksExclude
<1>8. \A v \in Workers : v # w => (Inserting(v)' <=> Inserting(v))
  BY <1>2, <1>3, HandlersDiffer DEF Inserting
<1>9. InsertsDiffer'
  <2>1. \A v \in Workers : Inserting(v) => target[v] < nextSeq /\ target[v] \in Nat
    BY DEF WorkerStands, InsertStands, Seqs
  <2> QED  BY <1>4, <1>6, <1>8, <2>1 DEF InsertsDiffer
<1>10. WorkerStands(w)'
  <2>1. nextSeq \in Seqs /\ rows[nextSeq] = Absent
    BY <1>4 DEF DbTyped, RowsAreDrawn, Seqs
  <2>2. InsertStands(w)'
    BY <1>2, <1>4, <1>6, <2>1 DEF InsertStands, Seqs
  <2>3. EditStands(w)' /\ AssignStands(w)'
    BY <1>2 DEF EditStands, AssignStands, Insertions, CommentEdits
  <2> QED  BY <2>2, <2>3 DEF WorkerStands
<1> QED
  BY <1>2, <1>3, <1>4, <1>5, <1>6, <1>7, <1>9, <1>10, QuietWorker, HandlersDiffer
  DEF Transactions, Handlers

LEMMA UpdateRowStands ==
  ASSUME IInv, NEW w \in Workers, UpdateRow(w)
  PROVE  IInv'
<1> USE DEF IInv
<1>1. w \in Handlers /\ w \in Transactions /\ "ready" \in Steps /\ request[w] \in Requests
  BY HandlersDiffer DEF Steps, CallsTyped
<1>2. /\ step[w] = "begun" /\ request[w].op \in CommentEdits \cup {"set_issue_assignee"}
      /\ Lock(w, target[w]) /\ ~outdated[w] /\ ahead[w] = 0
      /\ Goto(w, "ready")
      /\ UNCHANGED <<dbVars, request, section, workerVars, attemptVars>>
  BY DEF UpdateRow, At
<1>3. CallsTyped' /\ step'[w] = "ready" /\ \A g \in Handlers \ {w} : step'[g] = step[g]
  BY <1>1, <1>2, Stepping
<1>4. target[w] \in Rows
  <2>1. CASE request[w].op \in CommentEdits
    BY <1>2, <2>1 DEF WorkerStands, EditStands, Rows
  <2>2. CASE request[w].op = "set_issue_assignee"
    BY <1>1, <1>2, <2>2, RequestFields DEF WorkerStands, AssignStands, Rows
  <2> QED  BY <1>2, <2>1, <2>2
<1>5. /\ exclusive' \in [Transactions -> SUBSET (Rows \cup Actions)]
      /\ LocksExclude'
      /\ exclusive'[w] = exclusive[w] \cup {target[w]}
      /\ \A g \in Transactions \ {w} : exclusive'[g] = exclusive[g]
  <2>1. target[w] \in Rows \cup Actions
    BY <1>4
  <2> QED  BY <1>1, <1>2, <2>1, Locking
<1>6. LocalsTyped'
  BY <1>2, <1>5 DEF LocalsTyped, attemptVars, workerVars
<1>7. ~Inserting(w)' /\ \A v \in Workers : v # w => (Inserting(v)' <=> Inserting(v))
  BY <1>2, <1>3, HandlersDiffer DEF Inserting, Insertions, CommentEdits
<1>8. InsertsDiffer'
  BY <1>2, <1>7 DEF InsertsDiffer, workerVars
<1>9. WorkerStands(w)'
  <2>1. InsertStands(w)'
    BY <1>7 DEF InsertStands
  <2>2. EditStands(w)'
    BY <1>2, <1>3, <1>5 DEF WorkerStands, EditStands, dbVars, workerVars, Seqs
  <2>3. AssignStands(w)'
    BY <1>2, <1>3 DEF WorkerStands, AssignStands, workerVars
  <2> QED  BY <2>1, <2>2, <2>3 DEF WorkerStands
<1>10. nextSeq' \in Nat \ {0} /\ nextSeq' >= nextSeq
  BY <1>2 DEF DbTyped, dbVars
<1> QED
  BY <1>2, <1>3, <1>5, <1>6, <1>8, <1>9, <1>10, QuietWorker, HandlersDiffer
  DEF Transactions, Handlers, dbVars, workerVars

\* The end of a command, with or without a commit.
LEMMA CommandEnds ==
  ASSUME CallsTyped, LocalsTyped, LocksExclude, InsertsDiffer, NEW w \in Workers,
         EndCommand(w)
  PROVE  /\ CallsTyped' /\ LocksExclude' /\ InsertsDiffer' /\ WorkerStands(w)'
         /\ exclusive' \in [Transactions -> SUBSET (Rows \cup Actions)]
         /\ target' \in [Workers -> Rows \cup {0}]
         /\ step'[w] = "idle" /\ exclusive'[w] = {}
         /\ \A g \in Transactions \ {w} :
              step'[g] = step[g] /\ request'[g] = request[g] /\ exclusive'[g] = exclusive[g]
         /\ \A v \in Workers \ {w} : target'[v] = target[v] /\ (v \in guesses' <=> v \in guesses)
         /\ guesses' \subseteq Workers
<1>1. w \in Handlers /\ w \in Transactions /\ "idle" \in Steps
  BY HandlersDiffer DEF Steps
<1>2. /\ step' = [step EXCEPT ![w] = "idle"]
      /\ request' = [request EXCEPT ![w] = CHOOSE r \in Requests : TRUE]
      /\ target' = [target EXCEPT ![w] = 0]
      /\ exclusive' = [exclusive EXCEPT ![w] = {}]
      /\ guesses' = guesses \ {w}
  BY DEF EndCommand, Goto
<1>3. CallsTyped'
  <2>1. PICK r \in Requests : r = CHOOSE q \in Requests : TRUE
    BY Chosen
  <2>2. request' = [request EXCEPT ![w] = r]
    BY <1>2, <2>1
  <2> QED  BY <1>1, <1>2, <2>2, HandlersDiffer DEF CallsTyped
<1>4. /\ LocksExclude' /\ exclusive'[w] = {}
      /\ exclusive' \in [Transactions -> SUBSET (Rows \cup Actions)]
      /\ \A g \in Transactions \ {w} : exclusive'[g] = exclusive[g]
  BY <1>1, <1>2, Unlocking
<1>5. /\ step'[w] = "idle" /\ target' \in [Workers -> Rows \cup {0}]
      /\ \A g \in Handlers \ {w} : step'[g] = step[g] /\ request'[g] = request[g]
      /\ \A v \in Workers \ {w} : target'[v] = target[v]
  BY <1>1, <1>2 DEF CallsTyped, LocalsTyped
<1>6. ~Inserting(w)' /\ \A v \in Workers : v # w => (Inserting(v)' <=> Inserting(v))
  BY <1>5, HandlersDiffer DEF Inserting
<1>7. InsertsDiffer'
  BY <1>5, <1>6 DEF InsertsDiffer
<1>8. WorkerStands(w)'
  BY <1>5 DEF WorkerStands, InsertStands, EditStands, AssignStands, Inserting
<1>9. guesses' \subseteq Workers /\ \A v \in Workers \ {w} : v \in guesses' <=> v \in guesses
  BY <1>2 DEF LocalsTyped
<1> QED
  BY <1>3, <1>4, <1>5, <1>7, <1>8, <1>9 DEF Transactions, Handlers

LEMMA AbortStands ==
  ASSUME IInv, NEW w \in Workers, Abort(w)
  PROVE  IInv'
<1> USE DEF IInv
<1>1. /\ EndCommand(w)
      /\ ahead' = [ahead EXCEPT ![w] = 0] /\ outdated' = [outdated EXCEPT ![w] = FALSE]
      /\ UNCHANGED <<dbVars, section, attemptVars>>
  BY DEF Abort
<1>2. /\ CallsTyped' /\ LocksExclude' /\ InsertsDiffer' /\ WorkerStands(w)'
      /\ exclusive' \in [Transactions -> SUBSET (Rows \cup Actions)]
      /\ target' \in [Workers -> Rows \cup {0}]
      /\ \A g \in Transactions \ {w} :
           step'[g] = step[g] /\ request'[g] = request[g] /\ exclusive'[g] = exclusive[g]
      /\ \A v \in Workers \ {w} : target'[v] = target[v] /\ (v \in guesses' <=> v \in guesses)
      /\ guesses' \subseteq Workers
  BY <1>1, CommandEnds
<1>3. ahead' \in [Workers -> Nat] /\ outdated' \in [Workers -> BOOLEAN]
  BY <1>1 DEF LocalsTyped
<1>4. \A v \in Workers \ {w} : outdated'[v] = outdated[v] /\ ahead'[v] = ahead[v]
  BY <1>1 DEF LocalsTyped
<1>5. LocalsTyped'
  BY <1>1, <1>2, <1>3 DEF LocalsTyped, attemptVars
<1>6. nextSeq' \in Nat \ {0} /\ nextSeq' >= nextSeq
  BY <1>1 DEF DbTyped, dbVars
<1> QED
  BY <1>1, <1>2, <1>4, <1>5, <1>6, QuietWorker DEF dbVars

-----------------------------------------------------------------------------
(***************************************************************************)
(* The attempts up to their commit.                                         *)
(***************************************************************************)
LEMMA BeginRetentionStands ==
  ASSUME IInv, NEW a \in Attempts, NEW r \in RetentionRequests, BeginRetention(a, r)
  PROVE  IInv'
<1> USE DEF IInv
<1>1. /\ step[a] = "idle"
      /\ step' = [step EXCEPT ![a] = "read_receipt"]
      /\ request' = [request EXCEPT ![a] = r]
      /\ section' = [section EXCEPT ![a] = 1]
      /\ eligible' = [eligible EXCEPT ![a] = Owned(r.subject)]
      /\ UNCHANGED <<dbVars, exclusive, workerVars, pending>>
  BY DEF BeginRetention, Goto
<1>2. a \in Handlers /\ a \in Transactions /\ "read_receipt" \in Steps
  BY HandlersDiffer DEF Steps
<1>3. CallsTyped'
  BY <1>1, <1>2, HandlersDiffer DEF CallsTyped
<1>4. Owned(r.subject) \subseteq Published
  BY RetentionFields, OwnedIsPublished DEF Owned
<1>5. LocalsTyped'
  <2>1. section' \in [Attempts \cup Exporters -> 1..4]
    <3>1. section \in [Attempts \cup Exporters -> 1..4] /\ 1 \in 1..4
      BY DEF LocalsTyped
    <3>2. section' = [section EXCEPT ![a] = 1]
      BY <1>1
    <3> QED  BY <3>1, <3>2
  <2>2. eligible' \in [Attempts -> SUBSET Rows]
    BY <1>1 DEF LocalsTyped, Owned
  <2> QED  BY <1>1, <2>1, <2>2 DEF LocalsTyped, workerVars
<1>6. /\ step'[a] = "read_receipt" /\ section'[a] = 1 /\ eligible'[a] \subseteq Published
      /\ \A g \in Handlers \ {a} : step'[g] = step[g] /\ request'[g] = request[g]
      /\ \A b \in Attempts \ {a} : section'[b] = section[b] /\ eligible'[b] = eligible[b]
  BY <1>1, <1>2, <1>4 DEF CallsTyped, LocalsTyped
<1>7. LocksExclude'
  BY <1>1 DEF LocksExclude
<1>8. AttemptStands(a)'
  <2>1. FoundStands(a)' /\ ReceiptStands(a)'
    BY <1>6 DEF FoundStands, ReceiptStands
  <2> QED  BY <1>1, <1>6, <2>1, OwnersKept DEF AttemptStands, dbVars, Rows, Seqs
<1> QED
  BY <1>1, <1>3, <1>5, <1>6, <1>7, <1>8, QuietAttempt DEF Transactions, Handlers

LEMMA EndRetentionStands ==
  ASSUME IInv, NEW a \in Attempts, EndRetention(a)
  PROVE  IInv'
<1> USE DEF IInv
<1>1. PICK r \in RetentionRequests :
        /\ step' = [step EXCEPT ![a] = "idle"]
        /\ request' = [request EXCEPT ![a] = r]
        /\ section' = [section EXCEPT ![a] = 1]
        /\ pending' = [pending EXCEPT ![a] = {}]
        /\ eligible' = [eligible EXCEPT ![a] = {}]
        /\ exclusive' = [exclusive EXCEPT ![a] = {}]
        /\ UNCHANGED <<dbVars, workerVars>>
  BY Chosen DEF EndRetention, Goto
<1>2. a \in Handlers /\ a \in Transactions /\ "idle" \in Steps
  BY HandlersDiffer DEF Steps
<1>3. CallsTyped'
  BY <1>1, <1>2, HandlersDiffer DEF CallsTyped
<1>4. /\ LocksExclude' /\ exclusive'[a] = {}
      /\ exclusive' \in [Transactions -> SUBSET (Rows \cup Actions)]
      /\ \A g \in Transactions \ {a} : exclusive'[g] = exclusive[g]
  BY <1>1, <1>2, Unlocking
<1>5. LocalsTyped'
  BY <1>1, <1>4 DEF LocalsTyped, workerVars
<1>6. /\ step'[a] = "idle" /\ eligible'[a] = {}
      /\ \A g \in Handlers \ {a} : step'[g] = step[g] /\ request'[g] = request[g]
      /\ \A b \in Attempts \ {a} :
           section'[b] = section[b] /\ pending'[b] = pending[b] /\ eligible'[b] = eligible[b]
  BY <1>1, <1>2 DEF CallsTyped, LocalsTyped
<1>7. AttemptStands(a)'
  BY <1>4, <1>6 DEF AttemptStands, FoundStands, ReceiptStands
<1> QED
  BY <1>1, <1>3, <1>4, <1>5, <1>6, <1>7, QuietAttempt DEF Transactions, Handlers

\* A statement of an attempt: it moves on, and keeps its call and its history.
LEMMA StatementStands ==
  ASSUME IInv, NEW a \in Attempts, NEW s \in Steps, Goto(a, s),
         UNCHANGED <<dbVars, request, workerVars, eligible>>,
         LocksExclude', exclusive' \in [Transactions -> SUBSET (Rows \cup Actions)],
         \A g \in Transactions \ {a} : exclusive'[g] = exclusive[g],
         section' \in [Attempts \cup Exporters -> 1..4],
         pending' \in [Attempts -> SUBSET Rows],
         \A b \in Attempts \ {a} : section'[b] = section[b] /\ pending'[b] = pending[b],
         AttemptStands(a)'
  PROVE  IInv'
<1> USE DEF IInv
<1>1. a \in Handlers
  BY HandlersDiffer
<1>2. CallsTyped' /\ \A g \in Handlers \ {a} : step'[g] = step[g]
  BY <1>1, Stepping
<1>3. LocalsTyped'
  BY DEF LocalsTyped, workerVars
<1> QED
  BY <1>2, <1>3, QuietAttempt DEF Transactions, Handlers

LEMMA ReadReceiptStands ==
  ASSUME IInv, NEW a \in Attempts, ReadReceipt(a)
  PROVE  IInv'
<1> USE DEF IInv
<1> DEFINE r == request[a]
           s == IF receipts[r.action] = Absent THEN "select" ELSE "replayed"
<1>1. /\ step[a] = "read_receipt"
      /\ receipts[r.action] \in {Absent, [subject |-> r.subject, mode |-> r.mode]}
      /\ Goto(a, s)
      /\ UNCHANGED <<dbVars, request, exclusive, section, workerVars, attemptVars>>
  BY DEF ReadReceipt
<1>2. s \in Steps /\ s # "commit" /\ s # "read_receipt" /\ s \notin {"erase", "store_receipt", "applied"}
  BY DEF Steps
<1>3. step'[a] = s
  BY <1>1, <1>2, Stepping, HandlersDiffer
<1>4. AttemptStands(a) /\ section[a] = 1
  BY <1>1 DEF AttemptStands
<1>5. FoundStands(a)'
  <2>1. ASSUME NEW id PROVE Beyond(0, id)
    BY DEF Beyond
  <2>2. section'[a] = 1
    <3>1. section' = section
      BY <1>1
    <3> QED  BY <1>4, <3>1
  <2>3. ASSUME NEW id PROVE Beyond(section[a] - 1, id)'
    BY <2>2 DEF Beyond
  <2> QED  BY <1>2, <1>3, <2>3 DEF FoundStands
<1>6. ReceiptStands(a)'
  BY <1>1, <1>2, <1>3 DEF ReceiptStands, dbVars
<1>7. AttemptStands(a)'
  BY <1>1, <1>2, <1>3, <1>4, <1>5, <1>6, OwnersKept
  DEF AttemptStands, dbVars, attemptVars, Rows, Seqs
<1>8. LocksExclude'
  BY <1>1 DEF LocksExclude
<1> HIDE DEF s
<1> QED
  BY <1>1, <1>2, <1>7, <1>8, StatementStands DEF LocalsTyped, attemptVars

LEMMA SelectRowsStands ==
  ASSUME IInv, NEW a \in Attempts, SelectRows(a)
  PROVE  IInv'
<1> USE DEF IInv
<1> DEFINE found == OwnedIn(Sections[section[a]], request[a].subject)
<1>1. /\ step[a] = "select" /\ Goto(a, "erase")
      /\ pending' = [pending EXCEPT ![a] = found]
      /\ UNCHANGED <<dbVars, request, exclusive, section, workerVars, eligible>>
  BY DEF SelectRows
<1>2. "erase" \in Steps
  BY DEF Steps
<1>3. step'[a] = "erase"
  BY <1>1, <1>2, Stepping, HandlersDiffer
<1>4. found \in SUBSET Rows
  BY DEF OwnedIn
<1>5. /\ pending' \in [Attempts -> SUBSET Rows] /\ pending'[a] = found
      /\ \A b \in Attempts \ {a} : pending'[b] = pending[b]
  BY <1>1, <1>4 DEF LocalsTyped
<1>6. AttemptStands(a) /\ section[a] \in 1..4 /\ eligible[a] \subseteq Rows
  BY DEF LocalsTyped
<1>7. FoundStands(a)'
  <2> SUFFICES ASSUME NEW id \in eligible[a], Owner(id) = request[a].subject
               PROVE  id \in exclusive[a] \cup found \/ Beyond(section[a], id)
    BY <1>1, <1>3, <1>5, OwnersKept DEF FoundStands, dbVars
  <2>1. CASE id \in exclusive[a]
    BY <2>1
  <2>2. CASE Beyond(section[a] - 1, id) /\ InTable(id, Sections[section[a]])
    BY <1>6, <2>2 DEF OwnedIn
  <2>3. CASE Beyond(section[a] - 1, id) /\ ~InTable(id, Sections[section[a]])
    <3>1. \A m \in 1..section[a] : m \in 1..section[a] - 1 \/ m = section[a]
      BY <1>6
    <3> QED  BY <2>3, <3>1 DEF Beyond
  <2> QED  BY <1>1, <1>6, <2>1, <2>2, <2>3 DEF AttemptStands, FoundStands
<1>8. ReceiptStands(a)'
  BY <1>3 DEF ReceiptStands
<1>9. AttemptStands(a)'
  BY <1>1, <1>3, <1>6, <1>7, <1>8, OwnersKept DEF AttemptStands, dbVars, Rows, Seqs
<1>10. LocksExclude'
  BY <1>1 DEF LocksExclude
<1> HIDE DEF found
<1> QED
  BY <1>1, <1>2, <1>5, <1>9, <1>10, StatementStands DEF LocalsTyped

LEMMA EraseRowStands ==
  ASSUME IInv, NEW a \in Attempts, NEW row \in Rows, EraseRow(a, row)
  PROVE  IInv'
<1> USE DEF IInv
<1> DEFINE mine == Owner(row) = request[a].subject
<1>1. /\ step[a] = "erase" /\ row \in pending[a] /\ CanLock(a, row)
      /\ pending' = [pending EXCEPT ![a] = @ \ {row}]
      /\ mine => exclusive' = [exclusive EXCEPT ![a] = @ \cup {row}]
      /\ ~mine => UNCHANGED exclusive
      /\ UNCHANGED <<dbVars, step, request, section, workerVars, eligible>>
  BY DEF EraseRow
<1>2. "erase" \in Steps /\ Goto(a, "erase")
  <2>1. step' = [step EXCEPT ![a] = "erase"]
    BY <1>1 DEF CallsTyped
  <2> QED  BY <2>1 DEF Goto, Steps
<1>3. /\ pending' \in [Attempts -> SUBSET Rows] /\ pending'[a] = pending[a] \ {row}
      /\ \A b \in Attempts \ {a} : pending'[b] = pending[b]
  BY <1>1 DEF LocalsTyped
<1>4. /\ exclusive' \in [Transactions -> SUBSET (Rows \cup Actions)] /\ LocksExclude'
      /\ exclusive'[a] = IF mine THEN exclusive[a] \cup {row} ELSE exclusive[a]
      /\ \A g \in Transactions \ {a} : exclusive'[g] = exclusive[g]
  <2>1. CASE mine
    <3>1. Lock(a, row) /\ row \in Rows \cup Actions
      BY <1>1, <2>1 DEF Lock
    <3> QED  BY <2>1, <3>1, Locking, HandlersDiffer
  <2>2. CASE ~mine
    BY <1>1, <2>2 DEF LocalsTyped, LocksExclude
  <2> QED  BY <2>1, <2>2
<1>5. AttemptStands(a)
  OBVIOUS
<1>6. FoundStands(a)'
  <2> SUFFICES ASSUME NEW id \in eligible[a], Owner(id) = request[a].subject
               PROVE  id \in exclusive'[a] \cup pending'[a] \/ Beyond(section[a], id)
    BY <1>1, OwnersKept DEF FoundStands, dbVars
  <2>1. id \in exclusive[a] \cup pending[a] \/ Beyond(section[a], id)
    BY <1>1, <1>5 DEF AttemptStands, FoundStands
  <2> QED  BY <1>3, <1>4, <2>1
<1>7. mine => row \in Published
  BY RetentionFields, OwnedIsPublished DEF CallsTyped
<1>8. ReceiptStands(a)'
  BY <1>1 DEF ReceiptStands
<1>9. AttemptStands(a)'
  <2>1. exclusive'[a] \cap Rows \subseteq Published
    BY <1>4, <1>5, <1>7 DEF AttemptStands
  <2>2. step[a] = "erase" /\ Rows' = Rows
    BY <1>1 DEF Rows, Seqs
  <2> QED  BY <1>1, <1>5, <1>6, <1>8, <2>1, <2>2, OwnersKept DEF AttemptStands, dbVars
<1> HIDE DEF mine
<1> QED
  BY <1>1, <1>2, <1>3, <1>4, <1>9, StatementStands DEF LocalsTyped

LEMMA EndStatementStands ==
  ASSUME IInv, NEW a \in Attempts, EndStatement(a)
  PROVE  IInv'
<1> USE DEF IInv
<1>1. /\ step[a] = "erase" /\ pending[a] = {}
      /\ UNCHANGED <<dbVars, request, exclusive, workerVars, attemptVars>>
  BY DEF EndStatement
<1>2. AttemptStands(a) /\ section[a] \in 1..4 /\ eligible[a] \subseteq Published
  BY DEF LocalsTyped, AttemptStands
<1>3. \A id \in eligible[a] : Owner(id) = request[a].subject =>
        id \in exclusive[a] \/ Beyond(section[a], id)
  BY <1>1, <1>2 DEF AttemptStands, FoundStands
<1>4. PICK s \in {"select", "store_receipt"} :
        /\ Goto(a, s)
        /\ s = "select" => section[a] < 4 /\ section' = [section EXCEPT ![a] = @ + 1]
        /\ s = "store_receipt" => section[a] = 4 /\ UNCHANGED section
  <2>1. CASE section[a] < 4
    BY <1>2, <2>1, SectionsNamed DEF EndStatement
  <2>2. CASE section[a] = 4
    BY <1>2, <2>2, SectionsNamed DEF EndStatement
  <2>3. section[a] < 4 \/ section[a] = 4
    BY <1>2
  <2> QED  BY <2>1, <2>2, <2>3
<1>5. s \in Steps
  BY DEF Steps
<1>6. step'[a] = s
  BY <1>1, <1>4, <1>5, Stepping, HandlersDiffer
<1>7. /\ section' \in [Attempts \cup Exporters -> 1..4]
      /\ s = "select" => section'[a] = section[a] + 1
      /\ \A b \in Attempts \ {a} : section'[b] = section[b]
  <2>1. section \in [Attempts \cup Exporters -> 1..4]
    BY DEF LocalsTyped
  <2>2. CASE s = "select"
    BY <1>2, <1>4, <2>1, <2>2
  <2>3. CASE s = "store_receipt"
    BY <1>4, <2>1, <2>3
  <2> QED  BY <2>2, <2>3
<1>8. FoundStands(a)'
  <2> SUFFICES ASSUME NEW id \in eligible[a], Owner(id) = request[a].subject
               PROVE  /\ s = "select" => id \in exclusive[a] \/ Beyond(section[a], id)
                      /\ s = "store_receipt" => id \in exclusive[a]
    <3>1. s = "select" => section'[a] - 1 = section[a]
      <4>1. CASE s = "select"
        <5>1. section'[a] = section[a] + 1
          BY <1>7, <4>1
        <5> QED  BY <1>2, <5>1
      <4> QED  BY <4>1
    <3> QED  BY <1>1, <1>6, <3>1, OwnersKept DEF FoundStands, dbVars, attemptVars
  <2>1. ~Beyond(4, id)
    BY <1>2, RowsHaveTable
  <2> QED  BY <1>3, <1>4, <2>1
<1>9. ReceiptStands(a)'
  BY <1>6 DEF ReceiptStands
<1>10. AttemptStands(a)'
  BY <1>1, <1>2, <1>6, <1>8, <1>9, OwnersKept
  DEF AttemptStands, dbVars, attemptVars, Rows, Seqs
<1>11. LocksExclude'
  BY <1>1 DEF LocksExclude
<1> QED
  BY <1>1, <1>4, <1>5, <1>7, <1>10, <1>11, StatementStands DEF LocalsTyped, attemptVars

LEMMA StoreReceiptStands ==
  ASSUME IInv, NEW a \in Attempts, StoreReceipt(a)
  PROVE  IInv'
<1> USE DEF IInv
<1> DEFINE action == request[a].action
<1>1. /\ step[a] = "store_receipt" /\ Lock(a, action) /\ receipts[action] = Absent
      /\ Goto(a, "commit")
      /\ UNCHANGED <<dbVars, request, section, workerVars, attemptVars>>
  BY DEF StoreReceipt
<1>2. action \in Actions /\ action \notin Rows
  <2>1. action \in Actions
    BY RetentionFields DEF CallsTyped
  <2>2. action \notin 1..MaxSeq /\ action \notin Issues
    <3>1. 1..MaxSeq \subseteq 0..MaxSeq
      OBVIOUS
    <3> QED  BY <2>1, <3>1
  <2> QED  BY <2>1, <2>2 DEF Rows, Seqs
<1>3. /\ exclusive' \in [Transactions -> SUBSET (Rows \cup Actions)] /\ LocksExclude'
      /\ exclusive'[a] = exclusive[a] \cup {action}
      /\ \A g \in Transactions \ {a} : exclusive'[g] = exclusive[g]
  BY <1>1, <1>2, Locking, HandlersDiffer
<1>4. "commit" \in Steps
  BY DEF Steps
<1>5. step'[a] = "commit"
  BY <1>1, <1>4, Stepping, HandlersDiffer
<1>6. AttemptStands(a)
  OBVIOUS
<1>7. FoundStands(a)'
  BY <1>1, <1>3, <1>5, <1>6, OwnersKept DEF AttemptStands, FoundStands, dbVars, attemptVars
<1>8. ReceiptStands(a)'
  BY <1>1, <1>3, <1>5 DEF ReceiptStands, dbVars
<1>9. AttemptStands(a)'
  <2>1. exclusive'[a] \cap Rows = exclusive[a] \cap Rows /\ Rows' = Rows
    BY <1>2, <1>3 DEF Rows, Seqs
  <2> QED
    BY <1>1, <1>5, <1>6, <1>7, <1>8, <2>1, OwnersKept DEF AttemptStands, dbVars, attemptVars
<1> HIDE DEF action
<1> QED
  BY <1>1, <1>3, <1>4, <1>9, StatementStands DEF LocalsTyped, attemptVars

-----------------------------------------------------------------------------
(***************************************************************************)
(* The exporters touch nothing that the others have.                        *)
(***************************************************************************)
LEMMA ExporterStands ==
  ASSUME IInv, NEW x \in Exporters,
         UNCHANGED <<dbVars, exclusive, workerVars, attemptVars>>,
         \A t \in Transactions : step'[t] = step[t] /\ request'[t] = request[t],
         \A a \in Attempts : section'[a] = section[a],
         CallsTyped', section' \in [Attempts \cup Exporters -> 1..4]
  PROVE  IInv'
<1> USE DEF IInv
<1>1. DbTyped'
  BY DEF DbTyped, Seqs, dbVars
<1>2. LocalsTyped'
  BY DEF LocalsTyped, workerVars, attemptVars
<1>3. LocksExclude' /\ RowsAreDrawn'
  BY DEF LocksExclude, RowsAreDrawn, Seqs, dbVars
<1>4. InsertsDiffer'
  BY HandlersDiffer DEF InsertsDiffer, Inserting, workerVars
<1>5. ErasedStaysErased'
  BY ErasedKept DEF dbVars
<1>6. ASSUME NEW w \in Workers PROVE WorkerStands(w)'
  BY WorkerKept, HandlersDiffer DEF DbTyped, LocalsTyped, dbVars, workerVars
<1>7. ASSUME NEW a \in Attempts PROVE AttemptStands(a)'
  BY AttemptKept, HandlersDiffer DEF dbVars, attemptVars
<1> QED  BY <1>1, <1>2, <1>3, <1>4, <1>5, <1>6, <1>7

\* A step of an exporter inside its sections.
LEMMA ExporterSteps ==
  ASSUME IInv, NEW x \in Exporters, NEW s \in Steps, NEW n \in 1..4,
         step' = [step EXCEPT ![x] = s], section' = [section EXCEPT ![x] = n],
         UNCHANGED <<dbVars, request, exclusive, workerVars, attemptVars>>
  PROVE  IInv'
<1> USE DEF IInv
<1>1. x \in Handlers /\ \A t \in Transactions : t \in Handlers /\ t # x
  BY HandlersDiffer DEF Handlers, Transactions
<1>2. CallsTyped' /\ \A t \in Transactions : step'[t] = step[t] /\ request'[t] = request[t]
  BY <1>1 DEF CallsTyped
<1>3. /\ section' \in [Attempts \cup Exporters -> 1..4]
      /\ \A a \in Attempts : section'[a] = section[a]
  <2>1. section \in [Attempts \cup Exporters -> 1..4]
    BY DEF LocalsTyped
  <2> QED  BY <2>1
<1> QED  BY <1>2, <1>3, ExporterStands

\* A step at which an exporter is called, or its answer taken.
LEMMA ExporterCalls ==
  ASSUME IInv, NEW x \in Exporters, NEW s \in Steps, NEW subject \in ExportRequests,
         step' = [step EXCEPT ![x] = s], section' = [section EXCEPT ![x] = 1],
         request' = [request EXCEPT ![x] = subject],
         UNCHANGED <<dbVars, exclusive, workerVars, attemptVars>>
  PROVE  IInv'
<1> USE DEF IInv
<1>1. x \in Handlers /\ \A t \in Transactions : t \in Handlers /\ t # x
  BY HandlersDiffer DEF Handlers, Transactions
<1>2. CallsTyped' /\ \A t \in Transactions : step'[t] = step[t] /\ request'[t] = request[t]
  <2>1. step' \in [Handlers -> Steps]
    BY <1>1 DEF CallsTyped
  <2>2. request' \in [Handlers -> Requests \cup RetentionRequests \cup ExportRequests]
    BY <1>1 DEF CallsTyped
  <2>3. \A t \in Transactions : step'[t] = step[t] /\ request'[t] = request[t]
    BY <1>1 DEF CallsTyped
  <2> QED  BY <2>1, <2>2, <2>3, HandlersDiffer DEF CallsTyped
<1>3. /\ section' \in [Attempts \cup Exporters -> 1..4]
      /\ \A a \in Attempts : section'[a] = section[a]
  <2>1. section \in [Attempts \cup Exporters -> 1..4] /\ 1 \in 1..4
    BY DEF LocalsTyped
  <2> QED  BY <2>1
<1> QED  BY <1>2, <1>3, ExporterStands

LEMMA ExportStands ==
  ASSUME IInv, NEW x \in Exporters, Export(x) \/ \E s \in ExportRequests : BeginExport(x, s)
  PROVE  IInv'
<1>1. /\ step \in [Handlers -> Steps] /\ section \in [Attempts \cup Exporters -> 1..4]
      /\ x \in Handlers /\ step[x] \in Steps /\ section[x] \in 1..4
      /\ step = [step EXCEPT ![x] = step[x]]
      /\ section = [section EXCEPT ![x] = section[x]]
  BY HandlersDiffer DEF IInv, CallsTyped, LocalsTyped
<1>2. {"open_section", "fetch_page", "write_rows", "exported", "exhausted", "idle"} \subseteq Steps
  BY DEF Steps
<1>3. CASE OpenSection(x)
  <2>1. PICK s \in Steps : step' = [step EXCEPT ![x] = s]
    BY <1>2, <1>3 DEF OpenSection, Stop, Goto
  <2> QED  BY <1>1, <1>3, <2>1, ExporterSteps DEF OpenSection, Stop
<1>4. CASE FetchExportPage(x)
  BY <1>1, <1>2, <1>4, ExporterSteps DEF FetchExportPage, Goto
<1>5. CASE WriteExportRow(x)
  <2>1. PICK s \in Steps : step' = [step EXCEPT ![x] = s]
    BY <1>1, <1>2, <1>5 DEF WriteExportRow, Stop, Goto
  <2>2. UNCHANGED <<dbVars, request, exclusive, section, workerVars, attemptVars>>
    BY <1>5 DEF WriteExportRow, Stop
  <2> QED  BY <1>1, <2>1, <2>2, ExporterSteps
<1>6. CASE EndPage(x)
  <2>1. UNCHANGED <<dbVars, request, exclusive, workerVars, attemptVars>>
    BY <1>6 DEF EndPage
  <2>2. PICK s \in Steps, n \in 1..4 :
          step' = [step EXCEPT ![x] = s] /\ section' = [section EXCEPT ![x] = n]
    <3>1. CASE UNCHANGED section
      BY <1>1, <1>2, <1>6, <3>1 DEF EndPage, Goto
    <3>2. CASE section[x] < Len(Sections) /\ section' = [section EXCEPT ![x] = @ + 1]
      <4>1. section[x] + 1 \in 1..4
        BY <1>1, <3>2, SectionsNamed
      <4> QED  BY <1>2, <1>6, <3>2, <4>1 DEF EndPage, Goto
    <3> QED  BY <1>6, <3>1, <3>2 DEF EndPage
  <2> QED  BY <2>1, <2>2, ExporterSteps
<1>7. CASE EndExport(x)
  BY <1>2, <1>7, Chosen, ExporterCalls DEF EndExport, Goto
<1>8. CASE \E s \in ExportRequests : BeginExport(x, s)
  BY <1>2, <1>8, ExporterCalls DEF BeginExport, Goto
<1> QED  BY <1>3, <1>4, <1>5, <1>6, <1>7, <1>8 DEF Export

-----------------------------------------------------------------------------
(***************************************************************************)
(* What a commit may do to the rows, and what stands after it.              *)
(***************************************************************************)

\* Published rows stay, in their table, and pass to nobody but a tombstone.
RowsPersist ==
  \A seq \in Seqs : rows[seq] # Absent =>
    /\ rows'[seq] # Absent /\ rows'[seq].table = rows[seq].table
    /\ rows'[seq].owner = rows[seq].owner \/ rows'[seq].owner \in Actions

LEMMA AttemptSurvives ==
  ASSUME NEW a \in Attempts, AttemptStands(a), CallsTyped, RowsPersist,
         eligible'[a] \subseteq eligible[a],
         \A i \in Issues \cap eligible'[a] : assignee'[i] \in {assignee[i], Nobody},
         step'[a] = step[a], request'[a] = request[a], section'[a] = section[a],
         pending'[a] = pending[a], exclusive'[a] = exclusive[a], ReceiptStands(a)'
  PROVE  AttemptStands(a)'
<1>1. Published \subseteq Published' /\ Rows' = Rows /\ eligible[a] \subseteq Published
  BY DEF Published, RowsPersist, AttemptStands, Rows, Seqs
<1>2. request[a].subject \in Subjects
  BY RetentionFields DEF CallsTyped
<1>3. ASSUME NEW id \in eligible'[a], Owner(id)' = request[a].subject
      PROVE  /\ Owner(id) = request[a].subject
             /\ \A t : InTable(id, t)' <=> InTable(id, t)
  <2>1. CASE id \in Issues
    <3>1. Owner(id)' = assignee'[id] /\ Owner(id) = assignee[id]
      BY <2>1 DEF Owner
    <3>2. Owner(id) = request[a].subject
      BY <1>2, <1>3, <2>1, <3>1
    <3>3. id \notin Seqs
      BY <2>1 DEF Seqs
    <3> QED  BY <3>2, <3>3 DEF InTable, Seqs
  <2>2. CASE id \notin Issues
    <3>1. id \in Seqs /\ rows[id] # Absent
      BY <1>1, <1>3, <2>2 DEF Published
    <3>2. rows'[id] # Absent /\ rows'[id].table = rows[id].table
      BY <3>1 DEF RowsPersist
    <3>3. Owner(id)' = rows'[id].owner /\ Owner(id) = rows[id].owner
      BY <2>2, <3>1, <3>2 DEF Owner
    <3>4. Owner(id) = request[a].subject
      BY <1>2, <1>3, <3>1, <3>3 DEF RowsPersist
    <3> QED  BY <2>2, <3>1, <3>2, <3>4 DEF InTable, Seqs
  <2> QED  BY <2>1, <2>2
<1>4. FoundStands(a)'
  <2> SUFFICES ASSUME NEW id \in eligible'[a], Owner(id)' = request[a].subject
               PROVE  /\ step[a] = "select" =>
                           id \in exclusive[a] \/ Beyond(section[a] - 1, id)'
                      /\ step[a] = "erase" =>
                           id \in exclusive[a] \cup pending[a] \/ Beyond(section[a], id)'
                      /\ step[a] \in {"store_receipt", "commit"} => id \in exclusive[a]
                      /\ step[a] # "applied"
    BY DEF FoundStands, Beyond
  <2>1. Owner(id) = request[a].subject /\ \A t : InTable(id, t)' <=> InTable(id, t)
    BY <1>3
  <2>2. \A n : Beyond(n, id)' <=> Beyond(n, id)
    BY <2>1 DEF Beyond
  <2> QED  BY <2>1, <2>2 DEF AttemptStands, FoundStands
<1> QED  BY <1>1, <1>4 DEF AttemptStands

LEMMA WorkerSurvives ==
  ASSUME NEW v \in Workers, WorkerStands(v), DbTyped, RowsPersist,
         nextSeq' \in Nat, nextSeq' >= nextSeq,
         step'[v] = step[v], request'[v] = request[v], target'[v] = target[v],
         exclusive'[v] = exclusive[v], v \in guesses' <=> v \in guesses,
         Inserting(v) => rows'[target[v]] = Absent,
         v \notin guesses /\ step[v] \in {"begun", "ready"} /\ request[v].op \in CommentEdits =>
           /\ ahead'[v] = 0
           /\ \/ rows'[target[v]].owner = rows[target[v]].owner /\ outdated'[v] = outdated[v]
              \/ step[v] = "begun" /\ outdated'[v]
  PROVE  WorkerStands(v)'
<1>1. InsertStands(v)'
  BY DEF WorkerStands, InsertStands, Inserting, Seqs, DbTyped
<1>2. EditStands(v)'
  BY DEF WorkerStands, EditStands, Seqs, RowsPersist
<1>3. AssignStands(v)'
  BY DEF WorkerStands, AssignStands
<1> QED  BY <1>1, <1>2, <1>3 DEF WorkerStands

\* Who has not guessed is outdated by the first write of the row.
LEMMA Outdating ==
  ASSUME LocalsTyped, NEW ids, Outdate(ids)
  PROVE  /\ ahead' \in [Workers -> Nat] /\ outdated' \in [Workers -> BOOLEAN]
         /\ \A v \in Workers : ahead[v] = 0 =>
              /\ ahead'[v] = 0
              /\ outdated'[v] = (step'[v] # "idle" /\
                   (outdated[v] \/ (step[v] = "begun" /\ target[v] \in ids)))
<1> DEFINE expecting == {w \in Workers : step[w] = "begun" /\ target[w] \in ids}
<1>1. /\ outdated' = [w \in Workers |->
           step'[w] # "idle" /\ (outdated[w] \/ (w \in expecting /\ ahead[w] = 0))]
      /\ ahead' = [w \in Workers |->
           IF w \in expecting /\ ahead[w] > 0 THEN ahead[w] - 1 ELSE ahead[w]]
  BY DEF Outdate
<1>2. \A v \in Workers :
        v \in expecting <=> (step[v] = "begun" /\ target[v] \in ids)
  OBVIOUS
<1> HIDE DEF expecting
<1>3. ahead' \in [Workers -> Nat]
  BY <1>1 DEF LocalsTyped
<1>4. outdated' \in [Workers -> BOOLEAN]
  BY <1>1
<1>5. ASSUME NEW v \in Workers, ahead[v] = 0
      PROVE  /\ ahead'[v] = 0
             /\ outdated'[v] = (step'[v] # "idle" /\
                  (outdated[v] \/ (step[v] = "begun" /\ target[v] \in ids)))
  BY <1>1, <1>2, <1>5
<1> QED  BY <1>3, <1>4, <1>5

LEMMA WrittenRow ==
  ASSUME IInv, NEW w \in Workers, step[w] = "ready", target[w] \in Seqs
  PROVE  /\ request[w].op \in Insertions \cup CommentEdits
         /\ Written(w) \in Row
         /\ Written(w).owner \in Subjects \/ (w \in guesses /\ request[w].op \in CommentEdits)
         /\ request[w].op = "delete_comment" => Written(w).body = Empty
         /\ rows[target[w]] # Absent =>
              Written(w).table = rows[target[w]].table /\ Written(w).owner = rows[target[w]].owner
<1> DEFINE r == request[w]
<1>1. r \in Requests
  BY DEF IInv, CallsTyped
<1>2. WorkerStands(w) /\ DbTyped
  BY DEF IInv
<1>3. r.op \in Insertions \cup CommentEdits
  <2>1. CASE r.op = "set_issue_assignee"
    <3>1. target[w] = r.at
      BY <1>2, <2>1 DEF WorkerStands, AssignStands
    <3>2. r.at \in Issues
      BY <1>1, <2>1, RequestFields
    <3> QED  BY <3>1, <3>2 DEF Seqs
  <2> QED  BY <1>1, <2>1, RequestFields
<1>4. CASE r.op \in Insertions
  <2>1. rows[target[w]] = Absent
    BY <1>2, <1>4 DEF WorkerStands, InsertStands, Inserting
  <2>2. r.actor \in Subjects /\ r.body \in Bodies
    BY <1>1, <1>4, RequestFields
  <2>3. CASE r.op = "add_comment"
    <3>1. Written(w) = [table |-> "comments", owner |-> r.actor, body |-> r.body,
                        deleted |-> FALSE]
      BY <2>3 DEF Written
    <3>2. Written(w).owner = r.actor
      BY <3>1
    <3>3. Written(w) \in Row
      BY <2>2, <3>1 DEF Row, Owners
    <3> QED  BY <1>3, <1>4, <2>1, <2>2, <3>2, <3>3 DEF Insertions
  <2>4. CASE r.op = "create_project_update"
    <3>1. Written(w) = [table |-> "project_updates", owner |-> r.actor, body |-> r.body]
      BY <2>4 DEF Written
    <3>2. Written(w).owner = r.actor
      BY <3>1
    <3>3. Written(w) \in Row
      BY <2>2, <3>1 DEF Row, Owners
    <3> QED  BY <1>3, <1>4, <2>1, <2>2, <3>2, <3>3 DEF Insertions
  <2> QED  BY <1>4, <2>3, <2>4 DEF Insertions
<1>5. CASE r.op \in CommentEdits
  <2> DEFINE row == rows[target[w]]
  <2>1. row # Absent /\ row.table = "comments" /\ (w \in guesses \/ row.owner = r.actor)
    BY <1>2, <1>5 DEF WorkerStands, EditStands
  <2>2. row \in Row /\ r.actor \in Subjects
    BY <1>1, <1>2, <1>5, <2>1, RequestFields DEF DbTyped
  <2>3. CASE r.op = "update_comment"
    <3>1. Written(w) = [row EXCEPT !.body = r.body]
      BY <2>3 DEF Written
    <3>2. r.body \in Bodies \cup {Empty}
      BY <1>1, <2>3, RequestFields
    <3> HIDE DEF row, r
    <3>3. /\ [row EXCEPT !.body = r.body] \in Row
          /\ [row EXCEPT !.body = r.body].table = row.table
          /\ [row EXCEPT !.body = r.body].owner = row.owner
      BY <2>1, <2>2, <3>2, EditedRow
    <3>4. Written(w) \in Row /\ Written(w).table = row.table /\ Written(w).owner = row.owner
      BY <3>1, <3>3, Zenon
    <3> QED  BY <1>3, <1>5, <2>1, <2>2, <2>3, <3>4 DEF row, r
  <2>4. CASE r.op = "delete_comment"
    <3>1. Written(w) = [row EXCEPT !.body = Empty, !.deleted = TRUE]
      BY <2>4 DEF Written
    <3> HIDE DEF row, r
    <3>3. /\ [row EXCEPT !.body = Empty, !.deleted = TRUE] \in Row
          /\ [row EXCEPT !.body = Empty, !.deleted = TRUE].table = row.table
          /\ [row EXCEPT !.body = Empty, !.deleted = TRUE].owner = row.owner
          /\ [row EXCEPT !.body = Empty, !.deleted = TRUE].body = Empty
      <4>1. Empty \in Bodies \cup {Empty}
        OBVIOUS
      <4> QED  BY <2>1, <2>2, <4>1, EditedRow
    <3>4. Written(w) \in Row /\ Written(w).table = row.table /\ Written(w).owner = row.owner
            /\ Written(w).body = Empty
      BY <3>1, <3>3, Zenon
    <3> QED  BY <1>3, <1>5, <2>1, <2>2, <3>4 DEF row, r
  <2> QED  BY <1>5, <2>3, <2>4 DEF CommentEdits
<1> QED  BY <1>3, <1>4, <1>5

LEMMA CommitStands ==
  ASSUME IInv, NEW w \in Workers, Commit(w)
  PROVE  IInv'
<1> USE DEF IInv
<1> DEFINE r == request[w]
           activity == [table |-> "activity", owner |-> r.actor, body |-> Empty]
<1>1. /\ step[w] = "ready" /\ nextSeq <= MaxSeq
      /\ rows' = [seq \in Seqs |->
           IF seq = nextSeq THEN activity
           ELSE IF seq = target[w] THEN Written(w) ELSE rows[seq]]
      /\ assignee' = [i \in Issues |->
           IF r.op = "set_issue_assignee" /\ i = r.at THEN r.assignee ELSE assignee[i]]
      /\ nextSeq' = nextSeq + 1
      /\ EndCommand(w)
      /\ guessed' = IF w \in guesses /\ r.op = "update_comment"
                      THEN guessed \cup {target[w]} ELSE guessed
      /\ Outdate({target[w]})
      /\ eligible' = [a \in Attempts |-> eligible[a] \ (Issues \cap {target[w]})]
      /\ UNCHANGED <<receipts, section, pending>>
  BY DEF Commit
<1>2. w \in Transactions /\ r \in Requests /\ WorkerStands(w)
  BY HandlersDiffer DEF CallsTyped
<1>3. /\ CallsTyped' /\ LocksExclude' /\ InsertsDiffer' /\ WorkerStands(w)'
      /\ exclusive' \in [Transactions -> SUBSET (Rows \cup Actions)]
      /\ target' \in [Workers -> Rows \cup {0}]
      /\ \A g \in Transactions \ {w} :
           step'[g] = step[g] /\ request'[g] = request[g] /\ exclusive'[g] = exclusive[g]
      /\ \A v \in Workers \ {w} : target'[v] = target[v] /\ (v \in guesses' <=> v \in guesses)
      /\ guesses' \subseteq Workers
  BY <1>1, CommandEnds
<1>4. r.actor \in Subjects
  BY <1>2, RequestFields
<1>5. activity \in Row /\ activity.owner \in Subjects
  BY <1>4 DEF Row, Owners
<1> HIDE DEF activity
<1>6. nextSeq \in Seqs /\ nextSeq \in Nat /\ rows[nextSeq] = Absent
  BY <1>1 DEF DbTyped, Seqs, RowsAreDrawn
<1>7. target[w] \in Seqs => target[w] < nextSeq
  <2>1. CASE Inserting(w)
    BY <1>2, <2>1 DEF WorkerStands, InsertStands
  <2>2. CASE ~Inserting(w) /\ target[w] \in Seqs
    <3>1. r.op \in CommentEdits
      BY <1>1, <2>2, WrittenRow DEF Inserting
    <3>2. rows[target[w]] # Absent
      BY <1>1, <1>2, <3>1 DEF WorkerStands, EditStands
    <3> QED  BY <1>6, <2>2, <3>2 DEF RowsAreDrawn, Seqs
  <2> QED  BY <2>1, <2>2
<1>8. \A seq \in Seqs :
        /\ seq = nextSeq => rows'[seq] = activity
        /\ seq = target[w] => rows'[seq] = Written(w)
        /\ seq \notin {nextSeq, target[w]} => rows'[seq] = rows[seq]
  BY <1>1, <1>6, <1>7
<1>9. target[w] \in Seqs =>
        /\ Written(w) \in Row
        /\ Written(w).owner \in Subjects \/ (w \in guesses /\ r.op \in CommentEdits)
        /\ r.op = "delete_comment" => Written(w).body = Empty
        /\ rows[target[w]] # Absent =>
             Written(w).table = rows[target[w]].table /\ Written(w).owner = rows[target[w]].owner
  BY <1>1, WrittenRow
<1>10. DbTyped'
  <2>1. \A seq \in Seqs : rows'[seq] \in Row \cup {Absent}
    BY <1>5, <1>8, <1>9 DEF DbTyped
  <2>2. rows' \in [Seqs -> Row \cup {Absent}] /\ Seqs' = Seqs
    BY <1>1, <2>1 DEF Seqs
  <2>3. assignee' \in [Issues -> Subjects \cup {Nobody}]
    <3>1. r.op = "set_issue_assignee" => r.assignee \in Subjects \cup {Nobody}
      BY <1>2, RequestFields
    <3> QED  BY <1>1, <3>1 DEF DbTyped
  <2>4. nextSeq' \in Nat \ {0}
    BY <1>1, <1>6
  <2> QED  BY <1>1, <2>2, <2>3, <2>4 DEF DbTyped
<1>11. LocalsTyped'
  <2>1. ahead' \in [Workers -> Nat] /\ outdated' \in [Workers -> BOOLEAN]
    BY <1>1, Outdating
  <2>2. eligible' \in [Attempts -> SUBSET Rows]
    BY <1>1 DEF LocalsTyped
  <2> QED  BY <1>1, <1>3, <2>1, <2>2 DEF LocalsTyped
<1>12. RowsPersist
  <2> SUFFICES ASSUME NEW seq \in Seqs, rows[seq] # Absent
               PROVE  /\ rows'[seq] # Absent /\ rows'[seq].table = rows[seq].table
                      /\ rows'[seq].owner = rows[seq].owner
    BY DEF RowsPersist
  <2>1. seq # nextSeq
    BY <1>6
  <2> QED  BY <1>8, <1>9, <2>1, RowFields
<1>13. RowsAreDrawn'
  <2> SUFFICES ASSUME NEW seq \in Seqs, seq >= nextSeq + 1 PROVE rows'[seq] = Absent
    BY <1>1 DEF RowsAreDrawn, Seqs
  <2>1. seq # nextSeq /\ seq # target[w] /\ seq >= nextSeq
    BY <1>6, <1>7 DEF Seqs
  <2> QED  BY <1>8, <2>1 DEF RowsAreDrawn
<1>14. ErasedStaysErased'
  <2> SUFFICES ASSUME NEW seq \in Seqs, rows'[seq] # Absent, rows'[seq].owner \in Actions
               PROVE  /\ receipts[rows'[seq].owner] # Absent
                      /\ receipts[rows'[seq].owner].mode = "delete" =>
                           rows'[seq].body = Empty \/ seq \in guessed'
    BY <1>1 DEF ErasedStaysErased, Seqs
  <2>1. seq # nextSeq
    BY <1>5, <1>8
  <2>2. CASE seq = target[w]
    <3>1. rows'[seq] = Written(w) /\ w \in guesses /\ r.op \in CommentEdits
      BY <1>8, <1>9, <2>2
    <3>2. rows[seq] # Absent
      BY <1>1, <1>2, <2>2, <3>1 DEF WorkerStands, EditStands
    <3>3. rows'[seq].owner = rows[seq].owner
      BY <1>9, <2>2, <3>1, <3>2
    <3>4. receipts[rows[seq].owner] # Absent
      BY <3>2, <3>3 DEF ErasedStaysErased
    <3>5. rows'[seq].body = Empty \/ seq \in guessed'
      BY <1>1, <1>9, <2>2, <3>1 DEF CommentEdits
    <3> QED  BY <3>3, <3>4, <3>5
  <2>3. CASE seq # target[w]
    <3>1. rows'[seq] = rows[seq] /\ (seq \in guessed => seq \in guessed')
      BY <1>1, <1>8, <2>1, <2>3
    <3> QED  BY <3>1 DEF ErasedStaysErased
  <2> QED  BY <2>2, <2>3
<1>15. ASSUME NEW v \in Workers, v # w PROVE WorkerStands(v)'
  <2>1. v \in Transactions /\ WorkerStands(v)
    BY HandlersDiffer
  <2>2. Inserting(v) => rows'[target[v]] = Absent
    <3> SUFFICES ASSUME Inserting(v) PROVE rows'[target[v]] = Absent
      OBVIOUS
    <3>1. target[v] \in Seqs /\ target[v] < nextSeq /\ rows[target[v]] = Absent
      BY <2>1 DEF WorkerStands, InsertStands
    <3>2. target[v] # nextSeq
      BY <1>6, <3>1 DEF Seqs
    <3>3. target[v] # target[w]
      <4>1. CASE Inserting(w)
        BY <1>15, <4>1 DEF InsertsDiffer
      <4>2. CASE ~Inserting(w)
        <5>1. target[w] \in Seqs => rows[target[w]] # Absent
          BY <1>1, <1>2, <4>2, WrittenRow DEF Inserting, WorkerStands, EditStands
        <5> QED  BY <3>1, <5>1
      <4> QED  BY <4>1, <4>2
    <3> QED  BY <1>8, <3>1, <3>2, <3>3
  <2>3. ASSUME v \notin guesses, step[v] \in {"begun", "ready"}, request[v].op \in CommentEdits
        PROVE  /\ rows'[target[v]].owner = rows[target[v]].owner /\ ahead'[v] = 0
               /\ outdated'[v] = outdated[v] \/ (step[v] = "begun" /\ outdated'[v])
    <3>1. target[v] \in Seqs /\ rows[target[v]] # Absent
      BY <2>1, <2>3 DEF WorkerStands, EditStands
    <3>2. rows'[target[v]].owner = rows[target[v]].owner
      BY <1>6, <1>8, <1>9, <3>1
    <3>3. /\ ahead'[v] = 0
          /\ outdated'[v] = (step'[v] # "idle" /\
               (outdated[v] \/ (step[v] = "begun" /\ target[v] \in {target[w]})))
      <4>1. ahead[v] = 0
        BY <2>1, <2>3 DEF WorkerStands, EditStands
      <4> QED  BY <1>1, <4>1, Outdating
    <3>4. step'[v] = step[v] /\ step[v] # "idle" /\ outdated[v] \in BOOLEAN
      BY <1>3, <1>15, <2>1, <2>3 DEF LocalsTyped
    <3> QED  BY <3>2, <3>3, <3>4
  <2>4. nextSeq' \in Nat /\ nextSeq' >= nextSeq
    BY <1>1, <1>6
  <2> QED  BY <1>3, <1>12, <1>15, <2>1, <2>2, <2>3, <2>4, WorkerSurvives
<1>16. ASSUME NEW a \in Attempts PROVE AttemptStands(a)'
  <2>1. a \in Transactions /\ a # w
    BY HandlersDiffer
  <2>2. eligible'[a] \subseteq eligible[a]
    BY <1>1
  <2>3. \A i \in Issues \cap eligible'[a] : assignee'[i] \in {assignee[i], Nobody}
    <3>1. r.op = "set_issue_assignee" => target[w] = r.at
      BY <1>1, <1>2 DEF WorkerStands, AssignStands
    <3> QED  BY <1>1, <3>1
  <2>4. ReceiptStands(a)'
    BY <1>1, <1>3, <2>1 DEF ReceiptStands, AttemptStands
  <2> QED  BY <1>1, <1>3, <1>12, <2>1, <2>2, <2>3, <2>4, AttemptSurvives
<1> QED
  BY <1>3, <1>10, <1>11, <1>13, <1>14, <1>15, <1>16

LEMMA CommitRetentionStands ==
  ASSUME IInv, NEW a \in Attempts, CommitRetention(a)
  PROVE  IInv'
<1> USE DEF IInv
<1> DEFINE r == request[a]
           receipt == [subject |-> r.subject, mode |-> r.mode]
<1>1. /\ step[a] = "commit"
      /\ rows' = [seq \in Seqs |->
           IF seq \in exclusive[a] THEN Erased(rows[seq], r) ELSE rows[seq]]
      /\ assignee' = [i \in Issues |-> IF i \in exclusive[a] THEN Nobody ELSE assignee[i]]
      /\ receipts' = [receipts EXCEPT ![r.action] = receipt]
      /\ exclusive' = [exclusive EXCEPT ![a] = {}]
      /\ Goto(a, "applied")
      /\ Outdate(Revised(a)) /\ guessed' = guessed \ exclusive[a]
      /\ UNCHANGED <<nextSeq, request, section, target, guesses, attemptVars>>
  BY DEF CommitRetention
<1>2. a \in Transactions /\ a \in Handlers /\ r \in RetentionRequests /\ "applied" \in Steps
  BY HandlersDiffer DEF CallsTyped, Steps
<1>3. /\ r.action \in Actions /\ r.subject \in Subjects /\ r.mode \in {"delete", "anonymize"}
      /\ receipt \in Receipt /\ receipt.mode = r.mode
  BY <1>2, RetentionFields
<1>4. r.action \in exclusive[a] /\ receipts[r.action] = Absent /\ AttemptStands(a)
  BY <1>1 DEF AttemptStands, ReceiptStands
<1> HIDE DEF receipt
<1>5. CallsTyped' /\ step'[a] = "applied" /\ \A g \in Handlers \ {a} : step'[g] = step[g]
  BY <1>1, <1>2, Stepping
<1>6. /\ LocksExclude' /\ exclusive'[a] = {}
      /\ exclusive' \in [Transactions -> SUBSET (Rows \cup Actions)]
      /\ \A g \in Transactions \ {a} : exclusive'[g] = exclusive[g]
  BY <1>1, <1>2, Unlocking
<1>7. ASSUME NEW seq \in Seqs, seq \in exclusive[a]
      PROVE  rows[seq] # Absent /\ rows[seq] \in Row
  <2>1. seq \in Rows /\ seq \notin Issues
    BY DEF Rows, Seqs
  <2>2. seq \in Published
    BY <1>4, <1>7, <2>1 DEF AttemptStands
  <2> QED  BY <2>1, <2>2 DEF Published, DbTyped
<1>8. ASSUME NEW seq \in Seqs, seq \in exclusive[a]
      PROVE  /\ rows'[seq] \in Row /\ rows'[seq].table = rows[seq].table
             /\ rows'[seq].owner = r.action
             /\ r.mode = "delete" => rows'[seq].body = Empty
  <2>1. rows'[seq] = Erased(rows[seq], r)
    BY <1>1, <1>8
  <2> HIDE DEF r
  <2> QED  BY <1>2, <1>7, <1>8, <2>1, ErasedRow
<1>9. \A seq \in Seqs : seq \notin exclusive[a] => rows'[seq] = rows[seq]
  BY <1>1
<1>10. DbTyped'
  <2>1. \A seq \in Seqs : rows'[seq] \in Row \cup {Absent}
    BY <1>8, <1>9 DEF DbTyped
  <2>2. rows' \in [Seqs -> Row \cup {Absent}] /\ Seqs' = Seqs
    BY <1>1, <2>1 DEF Seqs
  <2>3. assignee' \in [Issues -> Subjects \cup {Nobody}]
    BY <1>1 DEF DbTyped
  <2>4. receipts' \in [Actions -> Receipt \cup {Absent}]
    BY <1>1, <1>3 DEF DbTyped
  <2> QED  BY <1>1, <2>2, <2>3, <2>4 DEF DbTyped
<1>11. LocalsTyped'
  <2>1. ahead' \in [Workers -> Nat] /\ outdated' \in [Workers -> BOOLEAN]
    BY <1>1, Outdating
  <2> QED  BY <1>1, <1>6, <2>1 DEF LocalsTyped, attemptVars
<1>12. RowsPersist
  BY <1>3, <1>8, <1>9, RowFields DEF RowsPersist
<1>13. RowsAreDrawn'
  <2> SUFFICES ASSUME NEW seq \in Seqs, seq >= nextSeq PROVE rows'[seq] = Absent
    BY <1>1 DEF RowsAreDrawn, Seqs
  <2> QED  BY <1>7, <1>9 DEF RowsAreDrawn
<1>14. /\ receipts'[r.action] = receipt
       /\ \A action \in Actions : action # r.action => receipts'[action] = receipts[action]
       /\ receipt # Absent
  BY <1>1, <1>3 DEF DbTyped
<1>15. ErasedStaysErased'
  <2> SUFFICES ASSUME NEW seq \in Seqs, rows'[seq] # Absent, rows'[seq].owner \in Actions
               PROVE  /\ receipts'[rows'[seq].owner] # Absent
                      /\ receipts'[rows'[seq].owner].mode = "delete" =>
                           rows'[seq].body = Empty \/ seq \in guessed'
    BY DEF ErasedStaysErased, Seqs
  <2>1. CASE seq \in exclusive[a]
    BY <1>3, <1>8, <1>14, <2>1
  <2>2. CASE seq \notin exclusive[a]
    <3>1. /\ rows'[seq] = rows[seq] /\ receipts[rows[seq].owner] # Absent
          /\ receipts[rows[seq].owner].mode = "delete" =>
               rows[seq].body = Empty \/ seq \in guessed'
      BY <1>1, <1>9, <2>2 DEF ErasedStaysErased
    <3>2. rows[seq].owner # r.action
      BY <1>4, <3>1
    <3> QED  BY <1>14, <3>1, <3>2
  <2> QED  BY <2>1, <2>2
<1>16. InsertsDiffer'
  BY <1>1, <1>5, HandlersDiffer DEF InsertsDiffer, Inserting
<1>17. ASSUME NEW v \in Workers PROVE WorkerStands(v)'
  <2>1. v \in Transactions /\ v # a /\ v \in Handlers /\ WorkerStands(v)
    BY HandlersDiffer
  <2>2. Inserting(v) => rows'[target[v]] = Absent
    BY <1>7, <1>9, <2>1 DEF WorkerStands, InsertStands
  <2>3. ASSUME v \notin guesses, step[v] \in {"begun", "ready"}, request[v].op \in CommentEdits
        PROVE  /\ ahead'[v] = 0
               /\ \/ rows'[target[v]].owner = rows[target[v]].owner /\ outdated'[v] = outdated[v]
                  \/ step[v] = "begun" /\ outdated'[v]
    <3>1. /\ target[v] \in Seqs /\ target[v] \notin Issues
          /\ rows[target[v]] # Absent /\ rows[target[v]].table = "comments"
      BY <2>1, <2>3 DEF WorkerStands, EditStands, Seqs
    <3>2. /\ ahead'[v] = 0
          /\ outdated'[v] = (step'[v] # "idle" /\
               (outdated[v] \/ (step[v] = "begun" /\ target[v] \in Revised(a))))
      <4>1. ahead[v] = 0
        BY <2>1, <2>3 DEF WorkerStands, EditStands
      <4> QED  BY <1>1, <4>1, Outdating
    <3>3. step'[v] = step[v] /\ step[v] # "idle" /\ outdated[v] \in BOOLEAN
      BY <1>5, <2>1, <2>3 DEF LocalsTyped
    <3>4. target[v] \in exclusive[a] => target[v] \in Revised(a)
      BY <3>1 DEF Revised, InTable
    <3>5. target[v] \in Revised(a) => target[v] \in exclusive[a]
      BY DEF Revised
    <3>6. CASE target[v] \in exclusive[a]
      <4>1. step[v] = "begun"
        BY <2>1, <2>3, <3>6, <1>2 DEF WorkerStands, EditStands, LocksExclude
      <4> QED  BY <3>2, <3>3, <3>4, <3>6, <4>1
    <3>7. CASE target[v] \notin exclusive[a]
      <4>1. rows'[target[v]].owner = rows[target[v]].owner
        BY <1>9, <3>1, <3>7
      <4>2. outdated'[v] = outdated[v]
        BY <3>2, <3>3, <3>5, <3>7
      <4> QED  BY <3>2, <4>1, <4>2
    <3> QED  BY <3>6, <3>7
  <2>4. nextSeq' \in Nat /\ nextSeq' >= nextSeq
    BY <1>1 DEF DbTyped
  <2> QED  BY <1>1, <1>5, <1>6, <1>12, <2>1, <2>2, <2>3, <2>4, WorkerSurvives
<1>18. ASSUME NEW b \in Attempts, b # a PROVE AttemptStands(b)'
  <2>1. b \in Transactions /\ b \in Handlers /\ AttemptStands(b)
    BY HandlersDiffer
  <2>2. eligible'[b] = eligible[b] /\ pending'[b] = pending[b] /\ section'[b] = section[b]
    BY <1>1 DEF attemptVars
  <2>3. \A i \in Issues \cap eligible'[b] : assignee'[i] \in {assignee[i], Nobody}
    BY <1>1
  <2>4. ReceiptStands(b)'
    <3> DEFINE q == request[b]
    <3>1. q \in RetentionRequests /\ q.action \in Actions
      BY RetentionFields DEF CallsTyped
    <3>2. step'[b] = step[b] /\ request'[b] = q /\ exclusive'[b] = exclusive[b]
      BY <1>1, <1>5, <1>6, <1>18, <2>1
    <3>3. ASSUME step[b] = "commit"
          PROVE  q.action \in exclusive[b] /\ receipts'[q.action] = Absent
      <4>1. q.action \in exclusive[b] /\ receipts[q.action] = Absent
        BY <2>1, <3>3 DEF AttemptStands, ReceiptStands
      <4>2. q.action # r.action
        BY <1>2, <1>4, <1>18, <2>1, <4>1 DEF LocksExclude
      <4> QED  BY <1>14, <3>1, <4>1, <4>2
    <3>4. ASSUME step[b] \in {"applied", "replayed"}
          PROVE  receipts'[q.action] = [subject |-> q.subject, mode |-> q.mode]
      <4>1. receipts[q.action] = [subject |-> q.subject, mode |-> q.mode]
        BY <2>1, <3>4 DEF AttemptStands, ReceiptStands
      <4>2. [subject |-> q.subject, mode |-> q.mode] # Absent
        BY <3>1, RetentionFields
      <4>3. q.action # r.action
        BY <1>4, <4>1, <4>2
      <4> QED  BY <1>14, <3>1, <4>1, <4>3
    <3> QED  BY <3>2, <3>3, <3>4 DEF ReceiptStands
  <2> QED  BY <1>1, <1>5, <1>6, <1>12, <1>18, <2>1, <2>2, <2>3, <2>4, AttemptSurvives
<1>19. AttemptStands(a)'
  <2>1. eligible'[a] = eligible[a] /\ request'[a] = r
    BY <1>1 DEF attemptVars
  <2>2. eligible[a] \subseteq Published'
    BY <1>4, <1>12 DEF AttemptStands, Published, RowsPersist, Seqs
  <2>3. ReceiptStands(a)'
    BY <1>5, <1>14, <2>1 DEF ReceiptStands, receipt
  <2>4. ASSUME NEW id \in eligible[a], Owner(id)' = r.subject PROVE FALSE
    <3>1. CASE id \in Issues
      <4>1. Owner(id)' = assignee'[id] /\ Owner(id) = assignee[id]
        BY <3>1 DEF Owner
      <4>2. id \notin exclusive[a] /\ Owner(id) = r.subject
        BY <1>1, <1>3, <2>4, <3>1, <4>1
      <4> QED  BY <1>1, <1>4, <4>2 DEF AttemptStands, FoundStands
    <3>2. CASE id \notin Issues
      <4>1. id \in Seqs /\ rows[id] # Absent
        BY <1>4, <2>4, <3>2 DEF AttemptStands, Published
      <4>2. Owner(id)' = rows'[id].owner /\ Owner(id) = rows[id].owner
        BY <1>12, <3>2, <4>1 DEF Owner, RowsPersist
      <4>3. id \notin exclusive[a] /\ Owner(id) = r.subject
        BY <1>3, <1>8, <1>9, <2>4, <4>1, <4>2
      <4> QED  BY <1>1, <1>4, <4>3 DEF AttemptStands, FoundStands
    <3> QED  BY <3>1, <3>2
  <2>5. FoundStands(a)'
    BY <2>1, <2>4 DEF FoundStands
  <2> QED  BY <1>5, <1>6, <2>1, <2>2, <2>3, <2>5 DEF AttemptStands
<1> QED
  BY <1>5, <1>6, <1>10, <1>11, <1>13, <1>15, <1>16, <1>17, <1>18, <1>19

-----------------------------------------------------------------------------
(***************************************************************************)
(* The theorems.                                                            *)
(***************************************************************************)
LEMMA NextStands == IInv /\ [Next]_vars => IInv'
<1> SUFFICES ASSUME IInv, [Next]_vars PROVE IInv'
  OBVIOUS
<1>1. CASE \E w \in Workers :
             Command(w) \/ \E r \in Requests, n \in 0..MaxAhead : Begin(w, r, n)
  BY <1>1, InsertRowStands, UpdateRowStands, CommitStands, AbortStands, BeginStands
  DEF Command
<1>2. CASE \E a \in Attempts : Retain(a) \/ \E r \in RetentionRequests : BeginRetention(a, r)
  BY <1>2, ReadReceiptStands, SelectRowsStands, EraseRowStands, EndStatementStands,
     StoreReceiptStands, CommitRetentionStands, EndRetentionStands, BeginRetentionStands
  DEF Retain
<1>3. CASE \E x \in Exporters : Export(x) \/ \E s \in ExportRequests : BeginExport(x, s)
  BY <1>3, ExportStands
<1>4. CASE UNCHANGED vars
  <2>1. /\ UNCHANGED <<dbVars, workerVars, attemptVars, exclusive, step, request, section>>
    BY <1>4 DEF vars
  <2>2. DbTyped' /\ CallsTyped' /\ LocalsTyped'
    BY <2>1 DEF IInv, DbTyped, CallsTyped, LocalsTyped, dbVars, workerVars, attemptVars, Seqs
  <2>3. LocksExclude' /\ RowsAreDrawn' /\ InsertsDiffer'
    BY <2>1 DEF IInv, LocksExclude, RowsAreDrawn, InsertsDiffer, Inserting, dbVars, workerVars, Seqs
  <2>4. ErasedStaysErased'
    BY <2>1, ErasedKept DEF IInv, dbVars
  <2>5. ASSUME NEW w \in Workers PROVE WorkerStands(w)'
    BY <2>1, WorkerKept DEF IInv, DbTyped, LocalsTyped, dbVars, workerVars
  <2>6. ASSUME NEW a \in Attempts PROVE AttemptStands(a)'
    BY <2>1, AttemptKept DEF IInv, dbVars, attemptVars
  <2> QED  BY <2>2, <2>3, <2>4, <2>5, <2>6 DEF IInv
<1> QED  BY <1>1, <1>2, <1>3, <1>4 DEF Next

(***************************************************************************)
(* Commands that are about to commit write rows of their authors or rows of *)
(* their own, and an attempt has found, in the tables it has been through,  *)
(* everything that was the subject's when it began: the inductive invariant *)
(* of apply_retention beside comments, updates and assignments.             *)
(***************************************************************************)
THEOREM GovernanceInvariance == Spec => []IInv
<1>1. Init => IInv
  BY InitStands
<1>2. IInv /\ [Next]_vars => IInv'
  BY NextStands
<1> QED  BY <1>1, <1>2, PTL DEF Spec

(***************************************************************************)
(* An attempt that answers has erased all that carried the subject when it  *)
(* began, although its statements are snapshots of their own (4644-4656).   *)
(***************************************************************************)
THEOREM OldDataIsErased == Spec => []EverythingOldIsErased
<1>1. IInv => EverythingOldIsErased
  BY DEF IInv, AttemptStands, FoundStands, EverythingOldIsErased
<1> QED  BY <1>1, GovernanceInvariance, PTL

(***************************************************************************)
(* No command in flight writes a body into a row that a delete has erased:  *)
(* the revision that apply_retention raises refuses it (4645).              *)
(***************************************************************************)
THEOREM ErasureIsFinal == Spec => []ErasedStaysErased
<1>1. IInv => ErasedStaysErased
  BY DEF IInv
<1> QED  BY <1>1, GovernanceInvariance, PTL

(***************************************************************************)
(* apply_retention answers only for an action committed with the subject    *)
(* and mode it was called with, whichever calls of the action race (4630).  *)
(***************************************************************************)
THEOREM RetentionIsAnsweredOnce == Spec => []RetentionAnswersMatch
<1>1. IInv => RetentionAnswersMatch
  BY DEF IInv, AttemptStands, ReceiptStands, RetentionAnswersMatch
<1> QED  BY <1>1, GovernanceInvariance, PTL

-----------------------------------------------------------------------------
(***************************************************************************)
(* Some set of a family of subsets of a finite set contains no other one.   *)
(***************************************************************************)
LEMMA LeastSet ==
  ASSUME NEW S, IsFiniteSet(S), NEW T \in SUBSET (SUBSET S), T # {}
  PROVE  \E t \in T : \A u \in T : u \subseteq t => u = t
<1>1. T \subseteq FiniteSubsetsOf(S)
  BY FS_FiniteSubsetsOfFinite, Zenon
<1>2. PICK t \in T : \A u \in T : <<u, t>> \notin StrictSubsetOrdering(S)
  BY <1>1, FS_StrictSubsetOrderingWellFounded, WFMin
<1> QED  BY <1>2 DEF StrictSubsetOrdering

(***************************************************************************)
(* Some element of a finite set comes after all others.                     *)
(***************************************************************************)
LEMMA LastInOrder ==
  ASSUME NEW S, IsFiniteSet(S), S # {}, NEW rank \in [S -> Nat]
  PROVE  \E x \in S : \A y \in S : rank[y] <= rank[x]
<1> DEFINE above(x) == {y \in S : rank[x] < rank[y]}
           T == {above(x) : x \in S}
<1>1. T \in SUBSET (SUBSET S) /\ T # {}
  <2>1. PICK z \in S : TRUE
    OBVIOUS
  <2>2. above(z) \in T
    OBVIOUS
  <2>3. \A x \in S : above(x) \in SUBSET S
    OBVIOUS
  <2> QED  BY <2>2, <2>3, Zenon
<1>2. PICK t \in T : \A u \in T : u \subseteq t => u = t
  <2> HIDE DEF T
  <2> QED  BY <1>1, LeastSet
<1>3. PICK x \in S : t = above(x)
  OBVIOUS
<1>4. ASSUME NEW y \in S, rank[x] < rank[y] PROVE FALSE
  <2>1. y \in above(x) /\ y \notin above(y)
    BY <1>4
  <2>2. above(y) \subseteq above(x)
    BY <1>4
  <2>3. above(y) \in T
    OBVIOUS
  <2> HIDE DEF above, T
  <2> QED  BY <1>2, <1>3, <2>1, <2>2, <2>3
<1> QED  BY <1>4

(***************************************************************************)
(* A finite set whose elements have different ranks can be listed by rank.  *)
(***************************************************************************)
Lists(s, S, rank) ==
  /\ s \in [1..Cardinality(S) -> S]
  /\ \A m, n \in 1..Cardinality(S) : m < n => rank[s[m]] < rank[s[n]]

LEMMA ListExists ==
  ASSUME NEW S, IsFiniteSet(S), NEW rank \in [S -> Nat],
         \A x, y \in S : rank[x] = rank[y] => x = y
  PROVE  \E s : Lists(s, S, rank)
<1> DEFINE T == {t \in SUBSET S : ~\E s : Lists(s, t, rank)}
<1> SUFFICES ASSUME T # {} PROVE FALSE
  OBVIOUS
<1>1. PICK t \in T : \A u \in T : u \subseteq t => u = t
  <2>1. T \in SUBSET (SUBSET S)
    OBVIOUS
  <2> HIDE DEF T
  <2> QED  BY <2>1, LeastSet
<1>2. t \subseteq S /\ IsFiniteSet(t) /\ ~\E s : Lists(s, t, rank)
  BY FS_Subset
<1>3. t # {}
  <2> SUFFICES ASSUME t = {} PROVE FALSE
    OBVIOUS
  <2>1. Cardinality(t) = 0
    BY FS_EmptySet
  <2>2. Lists([n \in 1..0 |-> n], t, rank)
    BY <2>1 DEF Lists
  <2> QED  BY <1>2, <2>2
<1>4. PICK last \in t : \A y \in t : rank[y] <= rank[last]
  <2> DEFINE r == [x \in t |-> rank[x]]
  <2>1. r \in [t -> Nat] /\ \A x \in t : r[x] = rank[x]
    BY <1>2
  <2> HIDE DEF r
  <2>2. PICK x \in t : \A y \in t : r[y] <= r[x]
    BY <1>2, <1>3, <2>1, LastInOrder
  <2> QED  BY <2>1, <2>2
<1> DEFINE u == t \ {last}
           c == Cardinality(u)
<1>5. c \in Nat /\ Cardinality(t) = c + 1
  <2>1. IsFiniteSet(u) /\ c = Cardinality(t) - 1
    BY <1>2, FS_RemoveElement
  <2>2. c \in Nat
    BY <2>1, FS_CardinalityType
  <2>3. Cardinality(t) \in Nat
    BY <1>2, FS_CardinalityType
  <2> HIDE DEF c
  <2> QED  BY <2>1, <2>2, <2>3
<1>6. PICK s : Lists(s, u, rank)
  <2>1. u \subseteq t /\ u # t /\ u \subseteq S
    BY <1>2
  <2> QED  BY <1>1, <2>1
<1> DEFINE list == [n \in 1..c + 1 |-> IF n <= c THEN s[n] ELSE last]
<1> HIDE DEF c
<1>7. s \in [1..c -> u] /\ \A m, n \in 1..c : m < n => rank[s[m]] < rank[s[n]]
  BY <1>6 DEF Lists, c
<1>8. list \in [1..c + 1 -> t]
  BY <1>5, <1>7
<1>9. ASSUME NEW m \in 1..c + 1, NEW n \in 1..c + 1, m < n
      PROVE  rank[list[m]] < rank[list[n]]
  <2>1. m \in 1..c
    BY <1>5, <1>9
  <2>2. list[m] = s[m] /\ s[m] \in u
    BY <1>5, <1>7, <2>1
  <2>3. CASE n \in 1..c
    <3>1. list[n] = s[n]
      BY <1>5, <2>3
    <3> QED  BY <1>7, <1>9, <2>1, <2>2, <2>3, <3>1
  <2>4. CASE n = c + 1
    <3>1. list[n] = last
      BY <1>5, <2>4
    <3>2. rank[s[m]] <= rank[last] /\ rank[s[m]] # rank[last]
      BY <1>2, <1>4, <2>2
    <3>3. rank[s[m]] \in Nat /\ rank[last] \in Nat
      BY <1>2, <2>2
    <3> QED  BY <2>2, <3>1, <3>2, <3>3
  <2> QED  BY <1>5, <2>3, <2>4
<1> HIDE DEF list
<1>10. Lists(list, t, rank)
  BY <1>5, <1>8, <1>9 DEF Lists
<1> QED  BY <1>2, <1>10

(***************************************************************************)
(* A list by rank leaves no element out.                                    *)
(***************************************************************************)
LEMMA ListIsAll ==
  ASSUME NEW S, IsFiniteSet(S), NEW rank \in [S -> Nat], NEW s, Lists(s, S, rank)
  PROVE  \A x \in S : \E n \in 1..Cardinality(S) : s[n] = x
<1> DEFINE c == Cardinality(S)
<1>1. c \in Nat
  BY FS_CardinalityType
<1>2. s \in Injection(1..c, S)
  <2>1. ASSUME NEW m \in 1..c, NEW n \in 1..c, m < n PROVE s[m] # s[n]
    BY <2>1 DEF Lists
  <2>2. ASSUME NEW m \in 1..c, NEW n \in 1..c, s[m] = s[n] PROVE m = n
    <3>1. m < n \/ n < m \/ m = n
      BY <1>1
    <3> QED  BY <2>1, <2>2, <3>1
  <2>3. s \in [1..c -> S]
    BY DEF Lists
  <2> QED  BY <2>2, <2>3 DEF Injection, IsInjective
<1>3. Cardinality(1..c) = c
  BY <1>1, FS_Interval
<1>4. s \in Surjection(1..c, S)
  BY <1>2, <1>3, FS_Injection
<1> QED  BY <1>4 DEF Surjection

-----------------------------------------------------------------------------
(***************************************************************************)
(* The pages of an export.                                                  *)
(***************************************************************************)
LEMMA RowPositions ==
  /\ \A id \in Published : id \in Rows /\ Position(id) \in Nat \ {0}
  /\ Issues \cap Seqs = {}
BY RankAssumption DEF Published, Position, Rows, Seqs

\* Rows of one table have different positions.
LEMMA FoundIsRanked ==
  ASSUME NEW x \in Exporters, request[x] \in Subjects, DbTyped
  PROVE  /\ IsFiniteSet(Found(x)) /\ Found(x) \subseteq Published
         /\ \A m, n \in Found(x) : Position(m) = Position(n) => m = n
<1> DEFINE table == Sections[section[x]]
<1>1. IsFiniteSet(Rows)
  <2>1. IsFiniteSet(Seqs)
    BY FS_Interval DEF Seqs
  <2> QED  BY <2>1, RankAssumption, FS_Union DEF Rows
<1>2. Found(x) \subseteq Rows
  BY DEF Found, OwnedIn
<1>3. \A id \in Found(x) : Owner(id) \in Subjects
  BY DEF Found, OwnedIn
<1>4. Found(x) \subseteq Published
  BY <1>2, <1>3, OwnedIsPublished
<1>5. IsFiniteSet(Found(x))
  BY <1>1, <1>2, FS_Subset
<1>6. ASSUME NEW m \in Found(x), NEW n \in Found(x), Position(m) = Position(n)
      PROVE  m = n
  <2>1. InTable(m, table) /\ InTable(n, table)
    BY DEF Found, OwnedIn
  <2>2. CASE table = "issues"
    BY <1>6, <2>1, <2>2, RankAssumption DEF InTable, Position
  <2>3. CASE table # "issues"
    <3>1. m \in Seqs /\ n \in Seqs
      BY <2>1, <2>3 DEF InTable
    <3> QED  BY <1>6, <3>1, RowPositions DEF Position
  <2> QED  BY <2>2, <2>3
<1> QED  BY <1>4, <1>5, <1>6

\* A page has the next rows of its section in order, and all of them unless
\* it is full.
LEMMA PageIsNext ==
  ASSUME NEW x \in Exporters, request[x] \in Subjects, DbTyped
  PROVE  /\ Len(Page(x)) \in 0..ExportLimit /\ DOMAIN Page(x) = 1..Len(Page(x))
         /\ \A n \in DOMAIN Page(x) : Page(x)[n] \in Found(x)
         /\ \A m, n \in DOMAIN Page(x) : m < n => Position(Page(x)[m]) < Position(Page(x)[n])
         /\ \A id \in Found(x) :
              \/ \E n \in DOMAIN Page(x) : Page(x)[n] = id
              \/ /\ Len(Page(x)) = ExportLimit
                 /\ \A n \in DOMAIN Page(x) : Position(Page(x)[n]) < Position(id)
<1> DEFINE found == Found(x)
           rank == [id \in found |-> Position(id)]
           size == Cardinality(found)
           list == Ordered(found)
           n0 == IF size > ExportLimit THEN ExportLimit ELSE size
<1>1. /\ IsFiniteSet(found) /\ found \subseteq Published
      /\ \A m, n \in found : Position(m) = Position(n) => m = n
  BY FoundIsRanked
<1> HIDE DEF found
<1>2. rank \in [found -> Nat] /\ \A id \in found : rank[id] = Position(id)
  BY <1>1, RowPositions
<1> HIDE DEF rank
<1>3. size \in Nat
  BY <1>1, FS_CardinalityType
<1>4. \E s : Lists(s, found, rank)
  <2>1. \A m, n \in found : rank[m] = rank[n] => m = n
    BY <1>1, <1>2
  <2> QED  BY <1>1, <1>2, <2>1, ListExists
<1>5. PICK s : Lists(s, found, rank)
  BY <1>4
<1>6. /\ list \in [1..size -> found]
      /\ \A m, n \in 1..size : m < n => Position(list[m]) < Position(list[n])
  <2> DEFINE Is(t) == \A m, n \in 1..size : m < n => Position(t[m]) < Position(t[n])
  <2>1. s \in [1..size -> found] /\ Is(s)
    BY <1>2, <1>5 DEF Lists
  <2>2. list = CHOOSE t \in [1..size -> found] : Is(t)
    BY DEF Ordered
  <2> HIDE DEF Is, size, list
  <2>3. list \in [1..size -> found] /\ Is(list)
    BY <2>1, <2>2
  <2> QED  BY <2>3 DEF Is
<1> HIDE DEF list
<1>7. Lists(list, found, rank)
  BY <1>2, <1>6 DEF Lists
<1>8. \A id \in found : \E n \in 1..size : list[n] = id
  BY <1>1, <1>2, <1>7, ListIsAll
<1>9. n0 \in 0..ExportLimit /\ n0 <= size /\ (n0 < size => n0 = ExportLimit)
  BY <1>3, BytesAssumption
<1>10. Page(x) = [n \in 1..n0 |-> list[n]]
  <2>1. Page(x) = SubSeq(list, 1, n0)
    BY DEF Page, list, found
  <2>2. list \in Seq(found)
    BY <1>3, <1>6
  <2> HIDE DEF n0, size
  <2> QED  BY <1>9, <2>1, <2>2
<1> HIDE DEF n0, size
<1>11. Len(Page(x)) = n0 /\ DOMAIN Page(x) = 1..n0
  BY <1>9, <1>10
<1>12. \A n \in 1..n0 : Page(x)[n] = list[n] /\ n \in 1..size
  BY <1>3, <1>9, <1>10
<1>13. ASSUME NEW id \in found, \A n \in 1..n0 : Page(x)[n] # id
       PROVE  n0 = ExportLimit /\ \A n \in 1..n0 : Position(Page(x)[n]) < Position(id)
  <2>1. PICK k \in 1..size : list[k] = id
    BY <1>8
  <2>2. k \notin 1..n0
    BY <1>12, <1>13, <2>1
  <2>3. n0 < k /\ n0 < size
    BY <1>3, <1>9, <2>2
  <2> QED  BY <1>3, <1>6, <1>9, <1>12, <2>1, <2>3
<1> QED  BY <1>6, <1>9, <1>11, <1>12, <1>13 DEF found

-----------------------------------------------------------------------------
(***************************************************************************)
(* What an export has written, has fetched and has still to fetch.          *)
(***************************************************************************)
Earlier(x, id) == \E m \in 1..section[x] - 1 : InTable(id, Sections[m])
Here(x, id) == InTable(id, Sections[section[x]])
Fetched(x, id) == \E n \in DOMAIN buffer[x] : buffer[x][n].id = id
Exported(x, id) == \E n \in DOMAIN output[x] : output[x][n] = id

Entry == [id : Rows, body : Bodies \cup {Empty}, fits : BOOLEAN]

ExportTyped ==
  /\ after \in [Exporters -> Nat] /\ count \in [Exporters -> Nat]
  /\ buffer \in [Exporters -> Seq(Entry)] /\ output \in [Exporters -> Seq(Rows)]
  /\ spent \in [Exporters -> 0..Budget] /\ stable \in [Exporters -> SUBSET Rows]
  /\ \A x \in Exporters : request[x] \in ExportRequests

\* The output is behind the cursor, ...
OutputStands(x) ==
  /\ \A n \in DOMAIN output[x] :
       /\ output[x][n] \in Published
       /\ \/ Earlier(x, output[x][n])
          \/ /\ step[x] # "open_section"
             /\ Here(x, output[x][n]) /\ Position(output[x][n]) <= after[x]
  /\ \A m, n \in DOMAIN output[x] : m < n => output[x][m] # output[x][n]

\* ... the page in order before it, ...
BufferStands(x) ==
  step[x] = "write_rows" =>
    /\ \A n \in DOMAIN buffer[x] :
         /\ buffer[x][n].id \in Published /\ Here(x, buffer[x][n].id)
         /\ Position(buffer[x][n].id) > after[x]
    /\ \A m, n \in DOMAIN buffer[x] :
         m < n => Position(buffer[x][m].id) < Position(buffer[x][n].id)

\* ... and a row that has been the subject's all the time is in the output, in
\* the page, or behind a page that is full.
StableStands(x) ==
  \A id \in stable[x] :
    /\ Owner(id) = request[x]
    /\ step[x] \in {"open_section", "fetch_page", "write_rows"} /\ Earlier(x, id) =>
         Exported(x, id)
    /\ step[x] \in {"fetch_page", "write_rows"} /\ Here(x, id) /\ Position(id) <= after[x] =>
         Exported(x, id)
    /\ step[x] = "write_rows" /\ Here(x, id) /\ Position(id) > after[x] =>
         \/ Fetched(x, id)
         \/ /\ count[x] + Len(buffer[x]) = ExportLimit
            /\ \A n \in DOMAIN buffer[x] : Position(buffer[x][n].id) < Position(id)
    /\ step[x] = "exported" => Exported(x, id)

\* A body the statement left out did not fit then, and does not fit now.
BytesStand(x) ==
  /\ step[x] \in {"idle", "open_section", "fetch_page"} => buffer[x] = <<>>
  /\ step[x] = "idle" => output[x] = <<>>
  /\ \A n \in DOMAIN buffer[x] :
       ~buffer[x][n].fits => spent[x] + Octets[buffer[x][n].body] > Budget
  /\ step[x] = "exhausted" =>
       \/ buffer[x] = <<>> /\ spent[x] + Frame > Budget
       \/ buffer[x] # <<>> /\ spent[x] + RowBytes[Head(buffer[x]).body] > Budget

ExporterFits(x) ==
  OutputStands(x) /\ BufferStands(x) /\ StableStands(x) /\ BytesStand(x)

ExportInv == ExportTyped /\ \A x \in Exporters : ExporterFits(x)

LEMMA InitExports == Init => ExportInv
<1> SUFFICES ASSUME Init PROVE ExportInv
  OBVIOUS
<1>1. ASSUME NEW x \in Exporters PROVE request[x] \in ExportRequests
  BY <1>1, Chosen, HandlersDiffer DEF Init, Transactions
<1>2. ExportTyped
  <2>1. <<>> \in Seq(Entry) /\ <<>> \in Seq(Rows) /\ 0 \in Nat /\ 0 \in 0..Budget
    BY BytesAssumption
  <2>2. /\ after \in [Exporters -> Nat] /\ count \in [Exporters -> Nat]
        /\ spent \in [Exporters -> 0..Budget] /\ stable \in [Exporters -> SUBSET Rows]
    BY <2>1 DEF Init
  <2>3. buffer \in [Exporters -> Seq(Entry)]
    BY <2>1 DEF Init
  <2>4. output \in [Exporters -> Seq(Rows)]
    BY <2>1 DEF Init
  <2> QED  BY <1>1, <2>2, <2>3, <2>4 DEF ExportTyped
<1>3. ASSUME NEW x \in Exporters PROVE ExporterFits(x)
  <2>1. /\ step[x] = "idle" /\ buffer[x] = <<>> /\ output[x] = <<>> /\ stable[x] = {}
    BY HandlersDiffer DEF Init
  <2> QED
    BY <2>1 DEF ExporterFits, OutputStands, BufferStands, StableStands, BytesStand
<1> QED  BY <1>2, <1>3 DEF ExportInv

-----------------------------------------------------------------------------
(***************************************************************************)
(* Commits beside an export: rows stay in their tables.                     *)
(***************************************************************************)
TablesPersist ==
  \A seq \in Seqs : rows[seq] # Absent =>
    rows'[seq] # Absent /\ rows'[seq].table = rows[seq].table

LEMMA RowsStayInTables ==
  ASSUME TablesPersist
  PROVE  /\ Published \subseteq Published'
         /\ \A id \in Published : \A t : InTable(id, t)' <=> InTable(id, t)
<1>1. Published \subseteq Published'
  BY DEF TablesPersist, Published, Seqs
<1>2. ASSUME NEW id \in Published, NEW t PROVE InTable(id, t)' <=> InTable(id, t)
  <2>1. CASE id \in Issues
    BY <2>1, RowPositions DEF InTable, Seqs
  <2>2. CASE id \notin Issues
    BY <2>2 DEF InTable, Seqs, Published, TablesPersist
  <2> QED  BY <2>1, <2>2
<1> QED  BY <1>1, <1>2

LEMMA CommitKeepsTables ==
  ASSUME IInv, NEW w \in Workers, Commit(w)
  PROVE  TablesPersist
<1> USE DEF IInv
<1> DEFINE activity == [table |-> "activity", owner |-> request[w].actor, body |-> Empty]
<1>1. /\ step[w] = "ready" /\ nextSeq <= MaxSeq
      /\ rows' = [seq \in Seqs |->
           IF seq = nextSeq THEN activity
           ELSE IF seq = target[w] THEN Written(w) ELSE rows[seq]]
  BY DEF Commit
<1> SUFFICES ASSUME NEW seq \in Seqs, rows[seq] # Absent
             PROVE  rows'[seq] # Absent /\ rows'[seq].table = rows[seq].table
  BY DEF TablesPersist
<1>2. seq # nextSeq
  BY <1>1 DEF RowsAreDrawn, DbTyped
<1>3. CASE seq = target[w]
  <2>1. rows'[seq] = Written(w)
    BY <1>1, <1>2, <1>3
  <2>2. Written(w) \in Row /\ Written(w).table = rows[seq].table
    BY <1>1, <1>3, WrittenRow
  <2> QED  BY <2>1, <2>2, RowFields
<1>4. CASE seq # target[w]
  <2>1. rows'[seq] = rows[seq]
    BY <1>1, <1>2, <1>4
  <2> QED  BY <2>1
<1> QED  BY <1>3, <1>4

LEMMA RetentionKeepsTables ==
  ASSUME IInv, NEW a \in Attempts, CommitRetention(a)
  PROVE  TablesPersist
<1> USE DEF IInv
<1> DEFINE r == request[a]
<1>1. rows' = [seq \in Seqs |->
        IF seq \in exclusive[a] THEN Erased(rows[seq], r) ELSE rows[seq]]
  BY DEF CommitRetention
<1>2. r \in RetentionRequests
  BY DEF CallsTyped
<1> SUFFICES ASSUME NEW seq \in Seqs, rows[seq] # Absent
             PROVE  rows'[seq] # Absent /\ rows'[seq].table = rows[seq].table
  BY DEF TablesPersist
<1>3. rows[seq] \in Row
  BY DEF DbTyped
<1>4. CASE seq \in exclusive[a]
  <2>1. rows'[seq] = Erased(rows[seq], r)
    BY <1>1, <1>4
  <2> HIDE DEF r
  <2>2. Erased(rows[seq], r) \in Row /\ Erased(rows[seq], r).table = rows[seq].table
    BY <1>2, <1>3, ErasedRow
  <2> QED  BY <2>1, <2>2, RowFields
<1>5. CASE seq \notin exclusive[a]
  <2>1. rows'[seq] = rows[seq]
    BY <1>1, <1>5
  <2> QED  BY <2>1
<1> QED  BY <1>4, <1>5

\* A row that still is the subject's is published.
LEMMA StableIsPublished ==
  ASSUME ExportInv, NEW x \in Exporters, NEW id \in stable[x]
  PROVE  id \in Published
<1>1. Owner(id) \in Subjects /\ id \in Rows
  BY DEF ExportInv, ExportTyped, ExporterFits, StableStands
<1> QED  BY <1>1, OwnedIsPublished

\* An exporter that others leave alone.
LEMMA ExporterSurvives ==
  ASSUME IInv, ExportInv, NEW x \in Exporters, TablesPersist,
         step'[x] = step[x], request'[x] = request[x], section'[x] = section[x],
         after'[x] = after[x], buffer'[x] = buffer[x], count'[x] = count[x],
         spent'[x] = spent[x], output'[x] = output[x], stable'[x] \subseteq stable[x],
         \A id \in stable'[x] : Owner(id)' = request[x]
  PROVE  ExporterFits(x)'
<1>1. /\ Published \subseteq Published'
      /\ \A id \in Published :
           (Earlier(x, id)' <=> Earlier(x, id)) /\ (Here(x, id)' <=> Here(x, id))
  BY RowsStayInTables DEF Earlier, Here
<1>2. ExporterFits(x) /\ \A id \in stable'[x] : id \in Published
  BY StableIsPublished DEF ExportInv
<1>3. OutputStands(x)'
  BY <1>1, <1>2 DEF ExporterFits, OutputStands, Position
<1>4. BufferStands(x)'
  BY <1>1, <1>2 DEF ExporterFits, BufferStands, Position
<1>5. StableStands(x)'
  BY <1>1, <1>2 DEF ExporterFits, StableStands, Position, Exported, Fetched
<1>6. BytesStand(x)'
  BY <1>2 DEF ExporterFits, BytesStand
<1> QED  BY <1>3, <1>4, <1>5, <1>6 DEF ExporterFits

\* Steps of commands and attempts that publish nothing.
LEMMA QuietExports ==
  ASSUME IInv, ExportInv, UNCHANGED <<rows, assignee, exporterVars>>,
         \A x \in Exporters :
           step'[x] = step[x] /\ request'[x] = request[x] /\ section'[x] = section[x]
  PROVE  ExportInv'
<1>1. TablesPersist
  BY DEF TablesPersist
<1>2. ASSUME NEW x \in Exporters PROVE ExporterFits(x)'
  <2>1. \A id \in stable[x] : Owner(id)' = request[x]
    BY OwnersKept DEF ExportInv, ExporterFits, StableStands
  <2> QED  BY <1>1, <2>1, ExporterSurvives DEF exporterVars
<1>3. ExportTyped'
  BY DEF ExportInv, ExportTyped, exporterVars, Entry, Rows, Seqs
<1> QED  BY <1>2, <1>3 DEF ExportInv

\* The steps that publish something.
LEMMA PublishedExports ==
  ASSUME IInv, ExportInv, TablesPersist, StillOwned,
         UNCHANGED <<after, buffer, count, spent, output>>,
         \A x \in Exporters :
           step'[x] = step[x] /\ request'[x] = request[x] /\ section'[x] = section[x]
  PROVE  ExportInv'
<1>1. ASSUME NEW x \in Exporters
      PROVE  stable'[x] = {id \in stable[x] : Owner(id)' = request[x]}
  BY DEF StillOwned
<1>2. ASSUME NEW x \in Exporters PROVE ExporterFits(x)'
  BY <1>1, ExporterSurvives
<1>3. ExportTyped'
  BY DEF ExportInv, ExportTyped, StillOwned, Entry, Rows, Seqs
<1> QED  BY <1>2, <1>3 DEF ExportInv

-----------------------------------------------------------------------------
(***************************************************************************)
(* The steps of an export.                                                  *)
(***************************************************************************)
LEMMA OneExporter ==
  ASSUME IInv, ExportInv, NEW x \in Exporters, UNCHANGED dbVars,
         \A y \in Exporters \ {x} :
           /\ step'[y] = step[y] /\ request'[y] = request[y] /\ section'[y] = section[y]
           /\ after'[y] = after[y] /\ buffer'[y] = buffer[y] /\ count'[y] = count[y]
           /\ spent'[y] = spent[y] /\ output'[y] = output[y] /\ stable'[y] = stable[y],
         ExportTyped', ExporterFits(x)'
  PROVE  ExportInv'
<1>1. TablesPersist
  BY DEF TablesPersist, dbVars
<1>2. ASSUME NEW y \in Exporters \ {x} PROVE ExporterFits(y)'
  <2>1. \A id \in stable[y] : Owner(id)' = request[y]
    BY OwnersKept DEF ExportInv, ExporterFits, StableStands, dbVars
  <2> QED  BY <1>1, <2>1, ExporterSurvives
<1> QED  BY <1>2 DEF ExportInv

LEMMA TablesDiffer ==
  ASSUME NEW id, NEW m \in 1..4, NEW n \in 1..4,
         InTable(id, Sections[m]), InTable(id, Sections[n])
  PROVE  m = n
BY SectionsNamed, RowPositions DEF InTable

\* What a step of an exporter finds unchanged.
LEMMA SameRows ==
  ASSUME UNCHANGED dbVars
  PROVE  /\ Published' = Published /\ \A id : Owner(id)' = Owner(id)
         /\ \A id, t : InTable(id, t)' <=> InTable(id, t)
         /\ \A id : Position(id)' = Position(id)
BY OwnersKept DEF dbVars, Position

LEMMA BeginExportFits ==
  ASSUME IInv, ExportInv, NEW x \in Exporters, NEW s \in ExportRequests, BeginExport(x, s)
  PROVE  ExportInv'
<1>1. /\ step[x] = "idle" /\ step'[x] = "open_section" /\ request'[x] = s
      /\ section'[x] = 1 /\ stable'[x] = Owned(s)
      /\ UNCHANGED <<after, buffer, count, spent, output>> /\ UNCHANGED dbVars
      /\ \A y \in Exporters \ {x} :
           /\ step'[y] = step[y] /\ request'[y] = request[y] /\ section'[y] = section[y]
           /\ stable'[y] = stable[y]
  BY HandlersDiffer DEF BeginExport, Goto, IInv, CallsTyped, LocalsTyped, ExportInv, ExportTyped
<1>2. ExportTyped'
  <2>1. stable' \in [Exporters -> SUBSET Rows] /\ request'[x] \in ExportRequests
    BY <1>1 DEF BeginExport, ExportInv, ExportTyped, Owned
  <2> QED  BY <1>1, <2>1 DEF ExportInv, ExportTyped, Entry, Rows, Seqs
<1>3. buffer'[x] = <<>> /\ output'[x] = <<>>
  BY <1>1 DEF ExportInv, ExporterFits, BytesStand
<1>4. ~\E m \in 1..section'[x] - 1 : TRUE
  BY <1>1
<1>5. \A id \in stable'[x] : Owner(id)' = request'[x]
  BY <1>1, SameRows DEF Owned
<1>6. OutputStands(x)' /\ BufferStands(x)' /\ BytesStand(x)'
  BY <1>1, <1>3 DEF OutputStands, BufferStands, BytesStand
<1>7. StableStands(x)'
  BY <1>1, <1>4, <1>5 DEF StableStands, Earlier
<1> QED  BY <1>1, <1>2, <1>6, <1>7, OneExporter DEF ExporterFits

LEMMA EndExportFits ==
  ASSUME IInv, ExportInv, NEW x \in Exporters, EndExport(x)
  PROVE  ExportInv'
<1>1. /\ step'[x] = "idle" /\ request'[x] \in ExportRequests /\ stable'[x] = {}
      /\ buffer'[x] = <<>> /\ output'[x] = <<>> /\ UNCHANGED dbVars
      /\ \A y \in Exporters \ {x} :
           /\ step'[y] = step[y] /\ request'[y] = request[y] /\ section'[y] = section[y]
           /\ after'[y] = after[y] /\ buffer'[y] = buffer[y] /\ count'[y] = count[y]
           /\ spent'[y] = spent[y] /\ output'[y] = output[y] /\ stable'[y] = stable[y]
  BY Chosen, HandlersDiffer
     DEF EndExport, Goto, IInv, CallsTyped, LocalsTyped, ExportInv, ExportTyped
<1>2. ExportTyped'
  <2>1. <<>> \in Seq(Entry) /\ <<>> \in Seq(Rows) /\ 0 \in Nat /\ 0 \in 0..Budget
    BY BytesAssumption
  <2>2. /\ after' \in [Exporters -> Nat] /\ count' \in [Exporters -> Nat]
        /\ spent' \in [Exporters -> 0..Budget] /\ stable' \in [Exporters -> SUBSET Rows]
    BY <2>1 DEF EndExport, ExportInv, ExportTyped
  <2>3. buffer' \in [Exporters -> Seq(Entry)]
    BY <2>1 DEF EndExport, ExportInv, ExportTyped
  <2>4. output' \in [Exporters -> Seq(Rows)]
    BY <2>1 DEF EndExport, ExportInv, ExportTyped
  <2>5. \A y \in Exporters : request'[y] \in ExportRequests
    BY <1>1 DEF ExportInv, ExportTyped
  <2> QED  BY <2>2, <2>3, <2>4, <2>5 DEF ExportTyped, Entry, Rows, Seqs
<1>3. ExporterFits(x)'
  BY <1>1 DEF ExporterFits, OutputStands, BufferStands, StableStands, BytesStand
<1> QED  BY <1>1, <1>2, <1>3, OneExporter

LEMMA OpenSectionFits ==
  ASSUME IInv, ExportInv, NEW x \in Exporters, OpenSection(x)
  PROVE  ExportInv'
<1>1. /\ step[x] = "open_section"
      /\ UNCHANGED <<request, section, buffer, count, output, stable>>
      /\ UNCHANGED dbVars
      /\ \A y \in Exporters \ {x} :
           step'[y] = step[y] /\ after'[y] = after[y] /\ spent'[y] = spent[y]
  BY HandlersDiffer DEF OpenSection, Stop, Goto, IInv, CallsTyped, ExportInv, ExportTyped
<1>2. ExporterFits(x) /\ buffer[x] = <<>> /\ spent[x] \in 0..Budget /\ x \in Handlers
  BY <1>1, HandlersDiffer DEF ExportInv, ExportTyped, ExporterFits, BytesStand
<1>3. Frame \in Nat /\ Budget \in Nat
  BY BytesAssumption
<1>4. \A id : /\ Earlier(x, id)' <=> Earlier(x, id)
              /\ Here(x, id)' <=> Here(x, id)
              /\ Exported(x, id)' <=> Exported(x, id)
  BY <1>1, SameRows DEF Earlier, Here, Exported
<1>5. CASE Frame <= Remaining(x)
  <2>1. /\ step' = [step EXCEPT ![x] = "fetch_page"] /\ after' = [after EXCEPT ![x] = 0]
        /\ spent' = [spent EXCEPT ![x] = @ + Frame]
    BY <1>2, <1>3, <1>5 DEF OpenSection, Remaining, Goto
  <2>2. spent[x] + Frame \in 0..Budget /\ 0 \in Nat
    BY <1>2, <1>3, <1>5 DEF Remaining
  <2>3. step'[x] = "fetch_page"
    BY <1>2, <2>1 DEF IInv, CallsTyped
  <2>4. after'[x] = 0 /\ after' \in [Exporters -> Nat]
    BY <2>1 DEF ExportInv, ExportTyped
  <2>5. spent' \in [Exporters -> 0..Budget]
    BY <2>1, <2>2 DEF ExportInv, ExportTyped
  <2>6. /\ step'[x] = "fetch_page" /\ after'[x] = 0
        /\ after' \in [Exporters -> Nat] /\ spent' \in [Exporters -> 0..Budget]
    BY <2>3, <2>4, <2>5
  <2>7. ExportTyped'
    BY <1>1, <2>6 DEF ExportInv, ExportTyped, Entry, Rows, Seqs
  <2>8. OutputStands(x)'
    BY <1>1, <1>2, <1>4, <2>6, SameRows DEF ExporterFits, OutputStands
  <2>9. StableStands(x)'
    <3> SUFFICES ASSUME NEW id \in stable[x]
                 PROVE  /\ Owner(id)' = request[x]
                        /\ Earlier(x, id) => Exported(x, id)
                        /\ ~(Position(id)' <= 0)
      BY <1>1, <1>4, <2>6 DEF StableStands
    <3>1. Position(id) \in Nat \ {0}
      BY StableIsPublished, RowPositions
    <3> QED  BY <1>1, <1>2, <3>1, SameRows DEF ExporterFits, StableStands
  <2>10. BufferStands(x)' /\ BytesStand(x)'
    BY <1>1, <1>2, <2>6 DEF BufferStands, BytesStand
  <2> QED  BY <1>1, <2>6, <2>7, <2>8, <2>9, <2>10, OneExporter DEF ExporterFits
<1>6. CASE Frame > Remaining(x)
  <2>1. step'[x] = "exhausted" /\ UNCHANGED <<after, spent>>
    BY <1>2, <1>3, <1>6 DEF OpenSection, Stop, Remaining, Goto, IInv, CallsTyped
  <2>2. ExportTyped'
    BY <1>1, <2>1 DEF ExportInv, ExportTyped, Entry, Rows, Seqs
  <2>3. OutputStands(x)'
    BY <1>1, <1>2, <1>4, <2>1, SameRows DEF ExporterFits, OutputStands
  <2>4. StableStands(x)'
    BY <1>1, <1>2, <2>1, SameRows DEF ExporterFits, StableStands
  <2>5. BufferStands(x)' /\ BytesStand(x)'
    BY <1>1, <1>2, <1>3, <1>6, <2>1 DEF BufferStands, BytesStand, Remaining
  <2> QED  BY <1>1, <2>1, <2>2, <2>3, <2>4, <2>5, OneExporter DEF ExporterFits
<1>7. Remaining(x) \in Int
  BY <1>2, <1>3 DEF Remaining
<1> QED  BY <1>3, <1>5, <1>6, <1>7


LEMMA BodyIsTyped ==
  ASSUME DbTyped, NEW id \in Published
  PROVE  id \in Rows /\ BodyOf(id) \in Bodies \cup {Empty}
<1>1. CASE id \in Issues
  BY <1>1 DEF BodyOf, Rows
<1>2. CASE id \notin Issues
  <2>1. id \in Seqs /\ rows[id] \in Row
    BY <1>2 DEF Published, DbTyped
  <2>2. rows[id].body \in Bodies \cup {Empty}
    BY <2>1 DEF Row
  <2> QED  BY <1>2, <2>1, <2>2 DEF BodyOf, Rows
<1> QED  BY <1>1, <1>2

LEMMA FetchExportPageFits ==
  ASSUME IInv, ExportInv, NEW x \in Exporters, FetchExportPage(x)
  PROVE  ExportInv'
<1> DEFINE page == Page(x)
           entries == [n \in DOMAIN page |->
             [id |-> page[n], body |-> BodyOf(page[n]),
              fits |-> Octets[BodyOf(page[n])] <= Remaining(x)]]
<1>1. /\ step[x] = "fetch_page" /\ step'[x] = "write_rows"
      /\ buffer' = [buffer EXCEPT ![x] = entries] /\ count' = [count EXCEPT ![x] = 0]
      /\ UNCHANGED <<request, section, after, spent, output, stable>>
      /\ UNCHANGED dbVars
      /\ \A y \in Exporters \ {x} : step'[y] = step[y]
  BY HandlersDiffer DEF FetchExportPage, Goto, IInv, CallsTyped
<1>2. /\ ExporterFits(x) /\ request[x] \in Subjects /\ DbTyped
      /\ spent[x] \in 0..Budget /\ after[x] \in Nat
  BY DEF ExportInv, ExportTyped, IInv
<1>3. /\ Len(page) \in 0..ExportLimit /\ DOMAIN page = 1..Len(page)
      /\ \A n \in DOMAIN page : page[n] \in Found(x)
      /\ \A m, n \in DOMAIN page : m < n => Position(page[m]) < Position(page[n])
      /\ \A id \in Found(x) :
           \/ \E n \in DOMAIN page : page[n] = id
           \/ /\ Len(page) = ExportLimit
              /\ \A n \in DOMAIN page : Position(page[n]) < Position(id)
  BY <1>2, PageIsNext
<1>4. \A id \in Found(x) :
        /\ id \in Published /\ Here(x, id) /\ Position(id) > after[x]
        /\ id \in Rows /\ BodyOf(id) \in Bodies \cup {Empty}
  BY <1>2, FoundIsRanked, BodyIsTyped DEF Found, OwnedIn, Here
<1> HIDE DEF page
<1>5. /\ DOMAIN entries = DOMAIN page /\ entries \in Seq(Entry) /\ Len(entries) = Len(page)
      /\ \A n \in DOMAIN page :
           /\ entries[n].id = page[n] /\ entries[n].body \in Bodies \cup {Empty}
           /\ entries[n].fits = (Octets[entries[n].body] <= Remaining(x))
  <2>1. \A n \in DOMAIN page : entries[n] \in Entry
    BY <1>3, <1>4 DEF Entry
  <2>2. entries \in [1..Len(page) -> Entry]
    BY <1>3, <2>1
  <2>3. entries \in Seq(Entry) /\ Len(entries) = Len(page)
    BY <1>3, <2>2
  <2> QED  BY <1>3, <1>4, <2>3
<1> HIDE DEF entries
<1>6. buffer'[x] = entries /\ count'[x] = 0
      /\ \A y \in Exporters \ {x} : buffer'[y] = buffer[y] /\ count'[y] = count[y]
  BY <1>1 DEF ExportInv, ExportTyped
<1>7. ExportTyped'
  <2>1. buffer' \in [Exporters -> Seq(Entry)] /\ count' \in [Exporters -> Nat]
    BY <1>1, <1>5 DEF ExportInv, ExportTyped
  <2> QED  BY <1>1, <2>1 DEF ExportInv, ExportTyped, Entry, Rows, Seqs
<1>8. \A id : /\ Earlier(x, id)' <=> Earlier(x, id)
              /\ Here(x, id)' <=> Here(x, id)
              /\ Exported(x, id)' <=> Exported(x, id)
  BY <1>1, SameRows DEF Earlier, Here, Exported
<1>9. OutputStands(x)'
  BY <1>1, <1>2, <1>8, SameRows DEF ExporterFits, OutputStands
<1>10. BufferStands(x)'
  BY <1>1, <1>3, <1>4, <1>5, <1>6, <1>8, SameRows DEF BufferStands
<1>11. StableStands(x)'
  <2> SUFFICES ASSUME NEW id \in stable[x]
               PROVE  /\ Owner(id)' = request[x]
                      /\ Here(x, id) /\ Position(id) <= after[x] => Exported(x, id)
                      /\ Earlier(x, id) => Exported(x, id)
                      /\ Here(x, id) /\ Position(id) > after[x] =>
                           \/ \E n \in DOMAIN entries : entries[n].id = id
                           \/ /\ Len(entries) = ExportLimit
                              /\ \A n \in DOMAIN entries :
                                   Position(entries[n].id) < Position(id)
    <3>1. 0 + Len(entries) = Len(entries)
      BY <1>3, <1>5
    <3> QED  BY <1>1, <1>6, <1>8, <3>1, SameRows DEF StableStands, Fetched
  <2>1. Owner(id) = request[x] /\ Owner(id)' = request[x]
    BY <1>1, <1>2, SameRows DEF ExporterFits, StableStands
  <2>2. ASSUME Here(x, id), Position(id) > after[x]
        PROVE  \/ \E n \in DOMAIN entries : entries[n].id = id
               \/ /\ Len(entries) = ExportLimit
                  /\ \A n \in DOMAIN entries : Position(entries[n].id) < Position(id)
    <3>1. id \in Found(x)
      BY <2>1, <2>2 DEF Found, OwnedIn, Here, ExportInv, ExportTyped
    <3> QED  BY <1>3, <1>5, <3>1
  <2> QED  BY <1>1, <1>2, <2>1, <2>2 DEF ExporterFits, StableStands
<1>12. BytesStand(x)'
  <2>1. ASSUME NEW n \in DOMAIN entries, ~entries[n].fits
        PROVE  spent[x] + Octets[entries[n].body] > Budget
    <3>1. Octets[entries[n].body] \in Nat /\ Budget \in Nat
      BY <1>5, BytesAssumption
    <3>2. ~(Octets[entries[n].body] <= Budget - spent[x])
      BY <1>5, <2>1 DEF Remaining
    <3> QED  BY <1>2, <3>1, <3>2
  <2> QED  BY <1>1, <1>6, <2>1 DEF BytesStand
<1> QED  BY <1>1, <1>6, <1>7, <1>9, <1>10, <1>11, <1>12, OneExporter DEF ExporterFits


LEMMA RowIsWritten ==
  ASSUME IInv, ExportInv, NEW x \in Exporters, WriteExportRow(x), Fits(x, Head(buffer[x]))
  PROVE  ExportInv'
<1> DEFINE b == buffer[x]
           out == output[x]
           row == Head(buffer[x])
<1>1. /\ step[x] = "write_rows" /\ b # <<>> /\ UNCHANGED <<step, section, request, stable>>
      /\ spent' = [spent EXCEPT ![x] = @ + RowBytes[row.body]]
      /\ output' = [output EXCEPT ![x] = Append(@, row.id)]
      /\ after' = [after EXCEPT ![x] = Position(row.id)]
      /\ count' = [count EXCEPT ![x] = @ + 1]
      /\ buffer' = [buffer EXCEPT ![x] = Tail(@)]
  BY DEF WriteExportRow
<1>2. UNCHANGED dbVars
  BY DEF WriteExportRow
<1>3. /\ ExporterFits(x) /\ spent[x] \in 0..Budget /\ after[x] \in Nat /\ count[x] \in Nat
      /\ b \in Seq(Entry) /\ out \in Seq(Rows) /\ section[x] \in 1..4
  BY DEF ExportInv, ExportTyped, IInv, LocalsTyped
<1>4. /\ Len(b) \in Nat \ {0} /\ DOMAIN b = 1..Len(b) /\ row = b[1] /\ row \in Entry
      /\ Tail(b) \in Seq(Entry) /\ Len(Tail(b)) = Len(b) - 1
      /\ DOMAIN Tail(b) = 1..Len(b) - 1
      /\ \A n \in 1..Len(b) - 1 : Tail(b)[n] = b[n + 1] /\ n + 1 \in DOMAIN b
  BY <1>1, <1>3
<1>5. row.id \in Rows /\ row.body \in Bodies \cup {Empty}
  BY <1>4 DEF Entry
<1>6. /\ Len(out) \in Nat /\ DOMAIN out = 1..Len(out)
      /\ Append(out, row.id) \in Seq(Rows)
      /\ DOMAIN Append(out, row.id) = 1..Len(out) + 1
      /\ \A n \in 1..Len(out) : Append(out, row.id)[n] = out[n]
      /\ Append(out, row.id)[Len(out) + 1] = row.id
  BY <1>3, <1>5
<1>7. /\ row.id \in Published /\ Here(x, row.id) /\ Position(row.id) > after[x]
      /\ \A n \in DOMAIN b :
           /\ b[n].id \in Published /\ Here(x, b[n].id) /\ Position(b[n].id) > after[x]
      /\ \A n \in DOMAIN b : n > 1 => Position(row.id) < Position(b[n].id)
  BY <1>1, <1>3, <1>4 DEF ExporterFits, BufferStands
<1>8. /\ Position(row.id) \in Nat \ {0}
      /\ \A n \in DOMAIN b : Position(b[n].id) \in Nat \ {0}
      /\ \A id \in Published : Position(id) \in Nat \ {0}
  BY <1>7, RowPositions
<1>9. RowBytes[row.body] \in Nat /\ spent[x] + RowBytes[row.body] \in 0..Budget
  <2>1. RowBytes[row.body] \in Nat /\ Budget \in Nat
    BY <1>5, BytesAssumption
  <2>2. RowBytes[row.body] <= Budget - spent[x]
    BY DEF Fits, Remaining
  <2> QED  BY <1>3, <2>1, <2>2
<1> HIDE DEF b, out, row
<1>10. /\ spent'[x] = spent[x] + RowBytes[row.body] /\ output'[x] = Append(out, row.id)
       /\ after'[x] = Position(row.id) /\ count'[x] = count[x] + 1 /\ buffer'[x] = Tail(b)
  BY <1>1 DEF ExportInv, ExportTyped, b, out
<1>11. \A y \in Exporters \ {x} :
         /\ after'[y] = after[y] /\ buffer'[y] = buffer[y] /\ count'[y] = count[y]
         /\ spent'[y] = spent[y] /\ output'[y] = output[y]
  BY <1>1 DEF ExportInv, ExportTyped
<1>12. ExportTyped'
  <2>1. after' \in [Exporters -> Nat] /\ count' \in [Exporters -> Nat]
    BY <1>1, <1>8, <1>3 DEF ExportInv, ExportTyped
  <2>2. spent' \in [Exporters -> 0..Budget]
    BY <1>1, <1>9 DEF ExportInv, ExportTyped
  <2>3. buffer' \in [Exporters -> Seq(Entry)]
    BY <1>1, <1>4 DEF ExportInv, ExportTyped, b
  <2>4. output' \in [Exporters -> Seq(Rows)]
    BY <1>1, <1>6 DEF ExportInv, ExportTyped, out
  <2> QED  BY <1>1, <2>1, <2>2, <2>3, <2>4 DEF ExportInv, ExportTyped, Entry, Rows, Seqs
<1>13. \A id : /\ Earlier(x, id)' <=> Earlier(x, id)
               /\ Here(x, id)' <=> Here(x, id)
               /\ Position(id)' = Position(id)
  BY <1>1, <1>2, SameRows DEF Earlier, Here
<1>14. \A n \in DOMAIN out :
         /\ out[n] \in Published
         /\ Earlier(x, out[n]) \/ (Here(x, out[n]) /\ Position(out[n]) <= after[x])
  BY <1>1, <1>3 DEF ExporterFits, OutputStands, out
<1>15. \A n \in DOMAIN out : out[n] # row.id
  <2> SUFFICES ASSUME NEW n \in DOMAIN out, out[n] = row.id PROVE FALSE
    OBVIOUS
  <2>1. CASE Earlier(x, out[n])
    <3>1. PICK m \in 1..section[x] - 1 : InTable(row.id, Sections[m])
      BY <2>1 DEF Earlier
    <3>2. InTable(row.id, Sections[section[x]])
      BY <1>7 DEF Here
    <3>3. m \in 1..4 /\ m # section[x]
      BY <1>3
    <3> QED  BY <1>3, <3>1, <3>2, <3>3, TablesDiffer
  <2>2. CASE Position(out[n]) <= after[x]
    BY <1>3, <1>7, <1>8, <2>2
  <2> QED  BY <1>14, <2>1, <2>2
<1>16. OutputStands(x)'
  <2>1. \A n \in 1..Len(out) : Position(out[n]) <= after[x] => Position(out[n]) <= Position(row.id)
    BY <1>3, <1>6, <1>7, <1>8, <1>14
  <2>2. \A n \in DOMAIN output'[x] :
          /\ output'[x][n] \in Published
          /\ \/ Earlier(x, output'[x][n])
             \/ Here(x, output'[x][n]) /\ Position(output'[x][n]) <= after'[x]
    <3> SUFFICES ASSUME NEW n \in 1..Len(out) + 1
                 PROVE  LET id == Append(out, row.id)[n]
                        IN /\ id \in Published
                           /\ \/ Earlier(x, id)
                              \/ Here(x, id) /\ Position(id) <= Position(row.id)
      BY <1>6, <1>10
    <3>1. CASE n \in 1..Len(out)
      BY <1>6, <1>14, <2>1, <3>1
    <3>2. CASE n = Len(out) + 1
      BY <1>6, <1>7, <1>8, <3>2
    <3> QED  BY <1>6, <3>1, <3>2
  <2>3. \A m, n \in DOMAIN out : m < n => out[m] # out[n]
    BY <1>3 DEF ExporterFits, OutputStands, out
  <2>4. ASSUME NEW m \in DOMAIN output'[x], NEW n \in DOMAIN output'[x], m < n
        PROVE  output'[x][m] # output'[x][n]
    <3>1. m \in 1..Len(out) /\ output'[x][m] = out[m]
      BY <1>6, <1>10, <2>4
    <3>2. CASE n \in 1..Len(out)
      BY <1>6, <1>10, <2>3, <2>4, <3>1, <3>2
    <3>3. CASE n = Len(out) + 1
      BY <1>6, <1>10, <1>15, <3>1, <3>3
    <3> QED  BY <1>6, <1>10, <3>2, <3>3
  <2> QED  BY <1>1, <1>2, <1>13, <2>2, <2>4, SameRows DEF OutputStands
<1>17. BufferStands(x)'
  <2>1. \A m, n \in DOMAIN b : m < n => Position(b[m].id) < Position(b[n].id)
    BY <1>1, <1>3 DEF ExporterFits, BufferStands, b
  <2>2. ASSUME NEW n \in 1..Len(b) - 1
        PROVE  /\ Tail(b)[n].id \in Published /\ Here(x, Tail(b)[n].id)
               /\ Position(Tail(b)[n].id) > Position(row.id)
    BY <1>4, <1>7, <1>8
  <2>3. ASSUME NEW m \in 1..Len(b) - 1, NEW n \in 1..Len(b) - 1, m < n
        PROVE  Position(Tail(b)[m].id) < Position(Tail(b)[n].id)
    BY <1>4, <2>1, <2>3
  <2> QED  BY <1>2, <1>4, <1>10, <1>13, <2>2, <2>3, SameRows DEF BufferStands
<1>18. \A id : Exported(x, id) \/ id = row.id => Exported(x, id)'
  <2>1. DOMAIN output'[x] = 1..Len(out) + 1
    BY <1>6, <1>10
  <2>2. ASSUME NEW id, Exported(x, id) PROVE Exported(x, id)'
    <3>1. PICK n \in 1..Len(out) : out[n] = id
      BY <1>6, <2>2 DEF Exported, out
    <3>2. n \in DOMAIN output'[x] /\ output'[x][n] = id
      BY <1>6, <1>10, <2>1, <3>1
    <3> QED  BY <3>2 DEF Exported
  <2>3. ASSUME NEW id, id = row.id PROVE Exported(x, id)'
    <3>1. Len(out) + 1 \in DOMAIN output'[x] /\ output'[x][Len(out) + 1] = id
      BY <1>6, <1>10, <2>1, <2>3
    <3> QED  BY <3>1 DEF Exported
  <2> QED  BY <2>2, <2>3
<1>19. StableStands(x)'
  <2> SUFFICES ASSUME NEW id \in stable[x]
               PROVE  /\ Owner(id)' = request[x]
                      /\ Earlier(x, id) => Exported(x, id)'
                      /\ Here(x, id) /\ Position(id) <= Position(row.id) => Exported(x, id)'
                      /\ Here(x, id) /\ Position(id) > Position(row.id) =>
                           \/ \E n \in DOMAIN Tail(b) : Tail(b)[n].id = id
                           \/ /\ count[x] + 1 + Len(Tail(b)) = ExportLimit
                              /\ \A n \in DOMAIN Tail(b) :
                                   Position(Tail(b)[n].id) < Position(id)
    BY <1>1, <1>10, <1>13 DEF StableStands, Fetched
  <2>1. Owner(id)' = request[x] /\ (Earlier(x, id) => Exported(x, id)')
    BY <1>1, <1>2, <1>3, <1>18, SameRows DEF ExporterFits, StableStands
  <2>2. Position(id) \in Nat \ {0}
    BY <1>8, StableIsPublished
  <2>3. Here(x, id) /\ Position(id) <= after[x] => Exported(x, id)
    BY <1>1, <1>3 DEF ExporterFits, StableStands
  <2>4. Here(x, id) /\ Position(id) > after[x] =>
          \/ \E n \in DOMAIN b : b[n].id = id
          \/ /\ count[x] + Len(b) = ExportLimit
             /\ \A n \in DOMAIN b : Position(b[n].id) < Position(id)
    BY <1>1, <1>3 DEF ExporterFits, StableStands, Fetched, b
  <2>5. ASSUME Here(x, id), Position(id) <= Position(row.id) PROVE Exported(x, id)'
    <3>1. CASE Position(id) <= after[x]
      BY <1>18, <2>3, <2>5, <3>1
    <3>2. CASE Position(id) > after[x]
      <4>1. 1 \in DOMAIN b
        BY <1>4
      <4>2. ~\A n \in DOMAIN b : Position(b[n].id) < Position(id)
        BY <1>4, <1>8, <2>2, <2>5, <4>1
      <4>3. PICK n \in DOMAIN b : b[n].id = id
        BY <2>4, <2>5, <3>2, <4>2
      <4>4. ~(n > 1)
        BY <1>7, <1>8, <2>2, <2>5, <4>3
      <4>5. id = row.id
        BY <1>4, <4>3, <4>4
      <4> QED  BY <1>18, <4>5
    <3> QED  BY <1>3, <2>2, <3>1, <3>2
  <2>6. ASSUME Here(x, id), Position(id) > Position(row.id)
        PROVE  \/ \E n \in DOMAIN Tail(b) : Tail(b)[n].id = id
               \/ /\ count[x] + 1 + Len(Tail(b)) = ExportLimit
                  /\ \A n \in DOMAIN Tail(b) : Position(Tail(b)[n].id) < Position(id)
    <3>1. Position(id) > after[x]
      BY <1>3, <1>7, <1>8, <2>2, <2>6
    <3>2. ASSUME NEW n \in DOMAIN b, b[n].id = id
          PROVE  \E m \in DOMAIN Tail(b) : Tail(b)[m].id = id
      <4>1. n # 1
        BY <1>4, <1>8, <2>6, <3>2
      <4>2. n - 1 \in 1..Len(b) - 1 /\ (n - 1) + 1 = n
        BY <1>4, <4>1
      <4>3. n - 1 \in DOMAIN Tail(b) /\ Tail(b)[n - 1].id = id
        BY <1>4, <3>2, <4>2
      <4> QED  BY <4>3
    <3>3. ASSUME count[x] + Len(b) = ExportLimit,
                 \A n \in DOMAIN b : Position(b[n].id) < Position(id)
          PROVE  /\ count[x] + 1 + Len(Tail(b)) = ExportLimit
                 /\ \A n \in DOMAIN Tail(b) : Position(Tail(b)[n].id) < Position(id)
      BY <1>3, <1>4, <3>3
    <3> QED  BY <2>4, <2>6, <3>1, <3>2, <3>3
  <2> QED  BY <2>1, <2>5, <2>6
<1>20. BytesStand(x)'
  <2>1. ASSUME NEW n \in DOMAIN Tail(b), ~Tail(b)[n].fits
        PROVE  spent[x] + RowBytes[row.body] + Octets[Tail(b)[n].body] > Budget
    <3>1. Tail(b)[n] = b[n + 1] /\ n + 1 \in DOMAIN b
      BY <1>4
    <3>2. spent[x] + Octets[b[n + 1].body] > Budget
      BY <1>3, <2>1, <3>1 DEF ExporterFits, BytesStand, b
    <3>3. b[n + 1].body \in Bodies \cup {Empty}
      <4>1. b[n + 1] \in Entry
        BY <1>3, <1>4, <3>1
      <4> QED  BY <4>1 DEF Entry
    <3>4. Octets[b[n + 1].body] \in Nat /\ Budget \in Nat
      BY <3>3, BytesAssumption
    <3>5. \A i, j, k, l \in Nat : i + k > l => i + j + k > l
      OBVIOUS
    <3>6. spent[x] \in Nat
      BY <1>3, <3>4
    <3> QED  BY <1>9, <3>1, <3>2, <3>4, <3>5, <3>6
  <2>2. \A n \in DOMAIN buffer'[x] :
          ~buffer'[x][n].fits => spent'[x] + Octets[buffer'[x][n].body] > Budget
    BY <1>10, <2>1
  <2>3. step'[x] = "write_rows"
    BY <1>1
  <2> QED  BY <2>2, <2>3 DEF BytesStand
<1> QED
  BY <1>1, <1>2, <1>11, <1>12, <1>16, <1>17, <1>19, <1>20, OneExporter DEF ExporterFits

LEMMA WriteExportRowFits ==
  ASSUME IInv, ExportInv, NEW x \in Exporters, WriteExportRow(x)
  PROVE  ExportInv'
<1> DEFINE row == Head(buffer[x])
<1>1. CASE Fits(x, row)
  BY <1>1, RowIsWritten
<1>2. CASE ~Fits(x, row)
  <2>1. /\ step[x] = "write_rows" /\ buffer[x] # <<>> /\ step'[x] = "exhausted"
        /\ UNCHANGED <<section, after, buffer, count, spent, output, request, stable>>
        /\ \A y \in Exporters \ {x} : step'[y] = step[y]
    BY <1>2, HandlersDiffer DEF WriteExportRow, Stop, Goto, IInv, CallsTyped
  <2>2. UNCHANGED dbVars
    BY DEF WriteExportRow
  <2>3. ExporterFits(x) /\ spent[x] \in 0..Budget /\ buffer[x] \in Seq(Entry)
    BY DEF ExportInv, ExportTyped
  <2>4. row = buffer[x][1] /\ 1 \in DOMAIN buffer[x] /\ row \in Entry
    BY <2>1, <2>3
  <2>5. row.body \in Bodies \cup {Empty} /\ row.fits \in BOOLEAN
    BY <2>4 DEF Entry
  <2>6. ExportTyped'
    BY <2>1 DEF ExportInv, ExportTyped, Entry, Rows, Seqs
  <2>7. \A id : Earlier(x, id)' <=> Earlier(x, id)
    BY <2>1, <2>2, SameRows DEF Earlier
  <2>8. \A id : Here(x, id)' <=> Here(x, id)
    BY <2>1, <2>2, SameRows DEF Here
  <2>9. OutputStands(x)'
    BY <2>1, <2>2, <2>3, <2>7, <2>8, SameRows DEF ExporterFits, OutputStands
  <2>10. BufferStands(x)'
    BY <2>1 DEF BufferStands
  <2>11. StableStands(x)'
    BY <2>1, <2>2, <2>3, SameRows DEF ExporterFits, StableStands
  <2>12. spent[x] + RowBytes[row.body] > Budget
    <3>1. /\ Octets[row.body] \in Nat /\ RowBytes[row.body] \in Nat /\ Budget \in Nat
          /\ Octets[row.body] <= RowBytes[row.body]
      BY <2>5, BytesAssumption
    <3>2. CASE ~row.fits
      <4>1. spent[x] + Octets[row.body] > Budget
        BY <2>3, <2>4, <3>2 DEF ExporterFits, BytesStand
      <4> QED  BY <2>3, <3>1, <4>1
    <3>3. CASE row.fits
      <4>1. ~(RowBytes[row.body] <= Budget - spent[x])
        BY <1>2, <3>3 DEF Fits, Remaining
      <4> QED  BY <2>3, <3>1, <4>1
    <3> QED  BY <3>2, <3>3
  <2>13. BytesStand(x)'
    BY <2>1, <2>3, <2>12 DEF ExporterFits, BytesStand
  <2> QED  BY <2>1, <2>2, <2>6, <2>9, <2>10, <2>11, <2>13, OneExporter DEF ExporterFits
<1> QED  BY <1>1, <1>2


LEMMA EndPageFits ==
  ASSUME IInv, ExportInv, NEW x \in Exporters, EndPage(x)
  PROVE  ExportInv'
<1>1. /\ step[x] = "write_rows" /\ buffer[x] = <<>>
      /\ UNCHANGED <<after, buffer, count, spent, output, request, stable>>
      /\ \A y \in Exporters \ {x} : step'[y] = step[y] /\ section'[y] = section[y]
  <2>1. step[x] = "write_rows" /\ buffer[x] = <<>>
    BY DEF EndPage
  <2>2. UNCHANGED <<after, buffer, count, spent, output, request, stable>>
    BY DEF EndPage, exporterVars
  <2>3. \A y \in Exporters \ {x} : step'[y] = step[y]
    BY HandlersDiffer DEF EndPage, Goto, IInv, CallsTyped
  <2>4. \A y \in Exporters \ {x} : section'[y] = section[y]
    BY DEF EndPage, IInv, LocalsTyped
  <2> QED  BY <2>1, <2>2, <2>3, <2>4
<1>2. UNCHANGED dbVars
  BY DEF EndPage
<1>3. /\ ExporterFits(x) /\ count[x] \in Nat /\ after[x] \in Nat
      /\ section[x] \in 1..4 /\ Len(Sections) = 4 /\ DbTyped
  BY SectionsNamed DEF ExportInv, ExportTyped, IInv, LocalsTyped
<1>4. ExportTyped'
  BY <1>1 DEF ExportInv, ExportTyped, Entry, Rows, Seqs
<1>5. ASSUME NEW id \in stable[x], LastPage(x), Here(x, id) PROVE Exported(x, id)
  <2>1. Position(id) \in Nat
    BY StableIsPublished, RowPositions
  <2>2. ~Fetched(x, id) /\ Len(buffer[x]) = 0
    BY <1>1 DEF Fetched
  <2>3. ~(Position(id) > after[x])
    BY <1>1, <1>3, <1>5, <2>2, BytesAssumption DEF ExporterFits, StableStands, LastPage
  <2> QED  BY <1>1, <1>3, <1>5, <2>1, <2>3 DEF ExporterFits, StableStands
<1>6. ASSUME NEW id \in stable[x]
      PROVE  Owner(id)' = request[x] /\ (Earlier(x, id) => Exported(x, id))
  BY <1>1, <1>2, <1>3, SameRows DEF ExporterFits, StableStands
<1>7. \A id : /\ Exported(x, id)' <=> Exported(x, id)
              /\ section'[x] = section[x] =>
                   (Earlier(x, id)' <=> Earlier(x, id)) /\ (Here(x, id)' <=> Here(x, id))
  BY <1>1, <1>2, SameRows DEF Earlier, Here, Exported
<1>8. CASE ~LastPage(x)
  <2>1. step'[x] = "fetch_page" /\ section'[x] = section[x]
    BY <1>8, HandlersDiffer DEF EndPage, Goto, IInv, CallsTyped
  <2>2. OutputStands(x)'
    BY <1>1, <1>2, <1>3, <1>7, <2>1, SameRows DEF ExporterFits, OutputStands
  <2>3. StableStands(x)'
    <3>1. \A id \in stable[x] : Here(x, id) /\ Position(id) <= after[x] => Exported(x, id)
      BY <1>1, <1>3 DEF ExporterFits, StableStands
    <3> QED  BY <1>1, <1>2, <1>6, <1>7, <2>1, <3>1, SameRows DEF StableStands
  <2>4. BufferStands(x)' /\ BytesStand(x)'
    BY <1>1, <2>1 DEF BufferStands, BytesStand
  <2> QED  BY <1>1, <1>2, <1>4, <2>2, <2>3, <2>4, OneExporter DEF ExporterFits
<1>9. CASE LastPage(x) /\ section[x] < 4
  <2>1. step'[x] = "open_section" /\ section'[x] = section[x] + 1
    BY <1>3, <1>9, HandlersDiffer DEF EndPage, Goto, IInv, CallsTyped, LocalsTyped
  <2>2. \A id : Earlier(x, id)' <=> Earlier(x, id) \/ Here(x, id)
    <3>1. 1..section'[x] - 1 = (1..section[x] - 1) \cup {section[x]}
      BY <1>3, <2>1
    <3> QED  BY <1>2, <3>1, SameRows DEF Earlier, Here
  <2>3. OutputStands(x)'
    BY <1>1, <1>2, <1>3, <2>1, <2>2, SameRows DEF ExporterFits, OutputStands
  <2>4. StableStands(x)'
    BY <1>1, <1>5, <1>6, <1>7, <1>9, <2>1, <2>2 DEF StableStands
  <2>5. BufferStands(x)' /\ BytesStand(x)'
    BY <1>1, <2>1 DEF BufferStands, BytesStand
  <2> QED  BY <1>1, <1>2, <1>4, <2>3, <2>4, <2>5, OneExporter DEF ExporterFits
<1>10. CASE LastPage(x) /\ section[x] = 4
  <2>1. step'[x] = "exported" /\ section'[x] = section[x]
    BY <1>3, <1>10, HandlersDiffer DEF EndPage, Goto, IInv, CallsTyped
  <2>2. OutputStands(x)'
    BY <1>1, <1>2, <1>3, <1>7, <2>1, SameRows DEF ExporterFits, OutputStands
  <2>3. ASSUME NEW id \in stable[x] PROVE Exported(x, id)
    <3>1. PICK m \in 1..4 : InTable(id, Sections[m])
      BY <1>3, StableIsPublished, RowsHaveTable DEF Beyond
    <3>2. CASE m = 4
      BY <1>5, <1>10, <3>1, <3>2 DEF Here
    <3>3. CASE m \in 1..3
      BY <1>6, <1>10, <3>1, <3>3 DEF Earlier
    <3> QED  BY <3>2, <3>3
  <2>4. StableStands(x)'
    BY <1>1, <1>6, <1>7, <2>1, <2>3 DEF StableStands
  <2>5. BufferStands(x)' /\ BytesStand(x)'
    BY <1>1, <2>1 DEF BufferStands, BytesStand
  <2> QED  BY <1>1, <1>2, <1>4, <2>2, <2>4, <2>5, OneExporter DEF ExporterFits
<1> QED  BY <1>3, <1>8, <1>9, <1>10

-----------------------------------------------------------------------------
(***************************************************************************)
(* All steps.                                                               *)
(***************************************************************************)
LEMMA CommandExports ==
  ASSUME IInv, ExportInv, NEW w \in Workers,
         Command(w) \/ \E r \in Requests, n \in 0..MaxAhead : Begin(w, r, n)
  PROVE  ExportInv'
<1>1. /\ step \in [Handlers -> Steps]
      /\ request \in [Handlers -> Requests \cup RetentionRequests \cup ExportRequests]
      /\ \A x \in Exporters : x \in Handlers /\ x # w
  BY HandlersDiffer DEF IInv, CallsTyped
<1>2. CASE InsertRow(w)
  BY <1>1, <1>2, QuietExports DEF InsertRow, Goto
<1>3. CASE UpdateRow(w)
  BY <1>1, <1>3, QuietExports DEF UpdateRow, Goto, dbVars
<1>4. CASE Abort(w)
  BY <1>1, <1>4, QuietExports DEF Abort, EndCommand, Goto, dbVars
<1>5. CASE \E r \in Requests, n \in 0..MaxAhead : Begin(w, r, n)
  BY <1>1, <1>5, QuietExports DEF Begin, Goto, dbVars
<1>6. CASE Commit(w)
  <2>1. TablesPersist
    BY <1>6, CommitKeepsTables
  <2>2. /\ StillOwned /\ UNCHANGED <<after, buffer, count, spent, output, section>>
        /\ \A x \in Exporters : step'[x] = step[x] /\ request'[x] = request[x]
    BY <1>1, <1>6 DEF Commit, EndCommand, Goto
  <2> QED  BY <2>1, <2>2, PublishedExports
<1> QED  BY <1>2, <1>3, <1>4, <1>5, <1>6 DEF Command

LEMMA RetentionExports ==
  ASSUME IInv, ExportInv, NEW a \in Attempts,
         Retain(a) \/ \E r \in RetentionRequests : BeginRetention(a, r)
  PROVE  ExportInv'
<1>1. /\ step \in [Handlers -> Steps]
      /\ request \in [Handlers -> Requests \cup RetentionRequests \cup ExportRequests]
      /\ section \in [Attempts \cup Exporters -> 1..4]
      /\ \A x \in Exporters : x \in Handlers /\ x # a
  BY HandlersDiffer DEF IInv, CallsTyped, LocalsTyped
<1>2. CASE ReadReceipt(a)
  BY <1>1, <1>2, QuietExports DEF ReadReceipt, Goto, dbVars
<1>3. CASE SelectRows(a)
  BY <1>1, <1>3, QuietExports DEF SelectRows, Goto, dbVars
<1>4. CASE \E id \in Rows : EraseRow(a, id)
  BY <1>1, <1>4, QuietExports DEF EraseRow, dbVars
<1>5. CASE EndStatement(a)
  <2>1. /\ UNCHANGED <<rows, assignee, exporterVars>>
        /\ \A x \in Exporters : step'[x] = step[x] /\ request'[x] = request[x]
    BY <1>1, <1>5 DEF EndStatement, Goto, dbVars
  <2>2. \A x \in Exporters : section'[x] = section[x]
    BY <1>1, <1>5 DEF EndStatement
  <2> QED  BY <2>1, <2>2, QuietExports
<1>6. CASE StoreReceipt(a)
  BY <1>1, <1>6, QuietExports DEF StoreReceipt, Goto, dbVars
<1>7. CASE EndRetention(a)
  BY <1>1, <1>7, QuietExports DEF EndRetention, Goto, dbVars
<1>8. CASE \E r \in RetentionRequests : BeginRetention(a, r)
  BY <1>1, <1>8, QuietExports DEF BeginRetention, Goto, dbVars
<1>9. CASE CommitRetention(a)
  <2>1. TablesPersist
    BY <1>9, RetentionKeepsTables
  <2>2. /\ StillOwned /\ UNCHANGED <<after, buffer, count, spent, output, section, request>>
        /\ \A x \in Exporters : step'[x] = step[x]
    BY <1>1, <1>9 DEF CommitRetention, Goto
  <2> QED  BY <2>1, <2>2, PublishedExports
<1> QED
  BY <1>2, <1>3, <1>4, <1>5, <1>6, <1>7, <1>8, <1>9 DEF Retain

LEMMA NextExports == IInv /\ ExportInv /\ [Next]_vars => ExportInv'
<1> SUFFICES ASSUME IInv, ExportInv, [Next]_vars PROVE ExportInv'
  OBVIOUS
<1>1. CASE \E w \in Workers :
             Command(w) \/ \E r \in Requests, n \in 0..MaxAhead : Begin(w, r, n)
  BY <1>1, CommandExports
<1>2. CASE \E a \in Attempts : Retain(a) \/ \E r \in RetentionRequests : BeginRetention(a, r)
  BY <1>2, RetentionExports
<1>3. CASE \E x \in Exporters : Export(x) \/ \E s \in ExportRequests : BeginExport(x, s)
  BY <1>3, OpenSectionFits, FetchExportPageFits, WriteExportRowFits, EndPageFits,
     EndExportFits, BeginExportFits
  DEF Export
<1>4. CASE UNCHANGED vars
  BY <1>4, QuietExports DEF vars, dbVars
<1> QED  BY <1>1, <1>2, <1>3, <1>4 DEF Next

LEMMA ExportInvariance == Spec => []ExportInv
<1>1. Init => ExportInv
  BY InitExports
<1>2. IInv /\ ExportInv /\ [Next]_vars => ExportInv'
  BY NextExports
<1> QED  BY <1>1, <1>2, GovernanceInvariance, PTL DEF Spec

(***************************************************************************)
(* An export that succeeds has every row the subject owned from its         *)
(* beginning to its end, and no row twice, although its pages are snapshots *)
(* of their own (4346-4397): what it has written is behind the cursor, and  *)
(* what it has still to write is before it, in order.  One that gives up    *)
(* for its size has a row or a frame before it that does not fit.           *)
(***************************************************************************)
THEOREM ExportsAreComplete == Spec => []ExportIsComplete
<1>1. ASSUME ExportInv, NEW x \in Exporters
      PROVE  /\ step[x] = "exported" => stable[x] \subseteq ToSet(output[x])
             /\ \A m, n \in DOMAIN output[x] : m < n => output[x][m] # output[x][n]
             /\ step[x] = "exhausted" =>
                  \/ buffer[x] = <<>> /\ spent[x] + Frame > Budget
                  \/ buffer[x] # <<>> /\ spent[x] + RowBytes[Head(buffer[x]).body] > Budget
  <2>1. OutputStands(x) /\ StableStands(x) /\ BytesStand(x)
    BY <1>1 DEF ExportInv, ExporterFits
  <2>2. step[x] = "exported" => \A id \in stable[x] : \E n \in DOMAIN output[x] : output[x][n] = id
    BY <2>1 DEF StableStands, Exported
  <2> QED  BY <2>1, <2>2 DEF OutputStands, BytesStand, ToSet
<1>2. ExportInv => ExportIsComplete
  BY <1>1 DEF ExportIsComplete
<1> QED  BY <1>2, ExportInvariance, PTL

===============================================================================
