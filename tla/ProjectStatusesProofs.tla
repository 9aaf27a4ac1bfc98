------------------------ MODULE ProjectStatusesProofs ------------------------
(***************************************************************************)
(* That an organization gets one catalog with one default, that projects    *)
(* refer to usable statuses and that completion times follow, proved for    *)
(* any number of workers, statuses, projects and categories.                *)
(***************************************************************************)
EXTENDS ProjectStatuses, FiniteSetTheorems, WellFoundedInduction, TLAPS

USE AbsentAssumption, CategoriesAssumption, TimesAssumption, FreshAssumption,
    RowsAssumption, RequestsAssumption

-----------------------------------------------------------------------------
(***************************************************************************)
(* The inductive invariant, part by part.                                   *)
(***************************************************************************)

\* A locked row is nobody else's.
LocksExclude ==
  \A v, w \in Workers : v # w => exclusive[v] \cap (exclusive[w] \cup shared[w]) = {}

\* Once the catalog is ensured, it is either committed or the worker's own.
CatalogIsEnsured(w) ==
  IF Bootstraps(w)
  THEN /\ workspace = Absent /\ FreshIds(w) \subseteq exclusive[w]
       /\ default[w] = Fresh[w][Backlog]
  ELSE workspace # Absent /\ default[w] = workspace

StepFits(w) ==
  /\ step[w] = "check references" => request[w].op \in StatusEdits /\ Retires(request[w])
  /\ step[w] = "write project" => request[w].op \in ProjectOps
  /\ step[w] = "lock rows" => request[w].op = "reorder_statuses"

\* A status about to change is locked, and still as it was found.
EditStands(w) ==
  LET r == request[w]
  IN /\ step[w] \in {"check references", "ready"} /\ r.op \in StatusEdits =>
          /\ r.status \in exclusive[w]
          /\ Editable(r, Seen(w)[r.status])
          /\ step[w] = "ready" /\ Retires(r) => ~IsReferenced(r.status)
     /\ step[w] = "ready" /\ r.op = "insert_status" =>
          r.status \in exclusive[w] /\ Seen(w)[r.status] = Absent

\* The status a project is about to get is locked, and still as it was found.
ReferenceStands(w) ==
  step[w] \in {"write project", "ready"} /\ request[w].op \in ProjectOps =>
    /\ resolved[w] \in shared[w] /\ Usable(Seen(w), resolved[w])
    /\ category[w] = Seen(w)[resolved[w]].category

Started(w) == step[w] \notin {"idle", "begun"}

TransactionStands(w) ==
  IF Started(w)
  THEN CatalogIsEnsured(w) /\ StepFits(w) /\ EditStands(w) /\ ReferenceStands(w)
  ELSE exclusive[w] = {} /\ shared[w] = {}

IInv ==
  /\ TypeOK /\ LocksExclude /\ CatalogHasOneDefault /\ StatusReferencesHold
  /\ CompletionTimesFollow
  /\ \A w \in Workers : TransactionStands(w)

-----------------------------------------------------------------------------
(***************************************************************************)
(* The catalog a transaction sees.                                          *)
(***************************************************************************)
LEMMA RequestFields ==
  ASSUME NEW r \in Requests
  PROVE  /\ r.op \in StatusEdits \cup {"insert_status"} => r.status \in Statuses
         /\ r.op \in {"insert_status", "update_status"} => r.category \in Categories
         /\ r.op = "archive_status" => r.archived \in BOOLEAN
         /\ r.op \in ProjectOps => r.project \in Projects
         /\ r.op \in ProjectOps => r.status \in Statuses \cup {DefaultStatus}
         /\ r.op = "insert_status" => \A w \in Workers : r.status \notin FreshIds(w)
<1>1. r \in Request
  OBVIOUS
<1> QED  BY <1>1 DEF Request, StatusEdits, ProjectOps

LEMMA FreshIdsAreStatuses ==
  ASSUME NEW w \in Workers
  PROVE  /\ FreshIds(w) \subseteq Statuses
         /\ \A c \in Categories : Fresh[w][c] \in FreshIds(w)
         /\ \A s \in FreshIds(w) : \E c \in Categories : s = Fresh[w][c]
         /\ \A c, d \in Categories : Fresh[w][c] = Fresh[w][d] => c = d
BY DEF FreshIds, Range, IsInjective

\* The rows a worker brings in are one of each category.
LEMMA FreshRows ==
  ASSUME NEW w \in Workers, Bootstraps(w), NEW c \in Categories, NEW s \in Statuses,
         s = Fresh[w][c]
  PROVE  Seen(w)[s] = FreshStatus(c)
<1>1. s \in FreshIds(w)
  BY FreshIdsAreStatuses
<1>2. (CHOOSE d \in Categories : Fresh[w][d] = s) = c
  BY FreshIdsAreStatuses
<1> QED  BY <1>1, <1>2 DEF Seen

LEMMA FreshFields ==
  ASSUME NEW c \in Categories
  PROVE  /\ FreshStatus(c) \in StatusRow /\ FreshStatus(c) # Absent
         /\ FreshStatus(c).category = c /\ ~FreshStatus(c).archived
         /\ FreshStatus(c).isDefault <=> c = Backlog
<1>1. FreshStatus(c) \in StatusRow
  BY DEF FreshStatus, StatusRow
<1>2. FreshStatus(c).category = c
  BY DEF FreshStatus
<1>3. FreshStatus(c).archived = FALSE
  BY DEF FreshStatus
<1>4. FreshStatus(c).isDefault = (c = Backlog)
  BY Zenon DEF FreshStatus
<1> QED  BY <1>1, <1>2, <1>3, <1>4

LEMMA SeenIsTyped ==
  ASSUME TypeOK, NEW w \in Workers
  PROVE  Seen(w) \in [Statuses -> StatusRow \cup {Absent}]
<1>1. \A s \in Statuses : Seen(w)[s] \in StatusRow \cup {Absent}
  <2> SUFFICES ASSUME NEW s \in Statuses PROVE Seen(w)[s] \in StatusRow \cup {Absent}
    OBVIOUS
  <2>1. CASE Bootstraps(w) /\ s \in FreshIds(w)
    <3>1. PICK c \in Categories : s = Fresh[w][c]
      BY <2>1, FreshIdsAreStatuses
    <3> QED  BY <2>1, <3>1, FreshRows, FreshFields
  <2>2. CASE ~(Bootstraps(w) /\ s \in FreshIds(w))
    BY <2>2 DEF Seen, TypeOK
  <2> QED  BY <2>1, <2>2
<1> QED  BY <1>1 DEF Seen

LEMMA SeenIsCommitted ==
  ASSUME TypeOK, NEW w \in Workers, ~Bootstraps(w)
  PROVE  Seen(w) = statuses
BY DEF Seen, TypeOK

\* What the transaction sees has one default, as what is committed does.
LEMMA SeenHasOneDefault ==
  ASSUME IInv, NEW w \in Workers, Started(w)
  PROVE  /\ default[w] \in Statuses /\ Usable(Seen(w), default[w])
         /\ Seen(w)[default[w]].category = Backlog
         /\ \A s \in Statuses :
              Seen(w)[s] # Absent => (Seen(w)[s].isDefault <=> s = default[w])
<1>1. CatalogIsEnsured(w) /\ TypeOK
  BY DEF IInv, TransactionStands
<1>2. CASE Bootstraps(w)
  <2>1. default[w] = Fresh[w][Backlog] /\ \A s \in Statuses : statuses[s] = Absent
    BY <1>1, <1>2 DEF CatalogIsEnsured, IInv, CatalogHasOneDefault
  <2>2. default[w] \in Statuses
    BY <2>1, FreshIdsAreStatuses
  <2>3. Seen(w)[default[w]] = FreshStatus(Backlog)
    BY <1>2, <2>1, <2>2, FreshRows
  <2>5. Usable(Seen(w), default[w]) /\ Seen(w)[default[w]].category = Backlog
    BY <2>3, FreshFields DEF Usable
  <2>6. ASSUME NEW s \in Statuses, Seen(w)[s] # Absent
        PROVE  Seen(w)[s].isDefault <=> s = default[w]
    <3>1. s \in FreshIds(w)
      BY <2>1, <2>6 DEF Seen
    <3>2. PICK c \in Categories : s = Fresh[w][c]
      BY <3>1, FreshIdsAreStatuses
    <3>3. Seen(w)[s].isDefault <=> c = Backlog
      BY <1>2, <3>2, FreshRows, FreshFields
    <3>4. c = Backlog <=> s = default[w]
      BY <2>1, <3>2, FreshIdsAreStatuses
    <3> QED  BY <3>3, <3>4
  <2> QED  BY <2>2, <2>5, <2>6
<1>3. CASE ~Bootstraps(w)
  BY <1>1, <1>3, SeenIsCommitted DEF CatalogIsEnsured, IInv, CatalogHasOneDefault, TypeOK
<1> QED  BY <1>2, <1>3

LEMMA InitStands == Init => IInv
<1> SUFFICES ASSUME Init PROVE IInv
  OBVIOUS
<1>1. NoRequest \in Requests
  BY DEF NoRequest
<1>2. TypeOK
  BY <1>1 DEF Init, TypeOK, Steps
<1> QED
  BY <1>2 DEF Init, IInv, LocksExclude, CatalogHasOneDefault, StatusReferencesHold,
     CompletionTimesFollow, TransactionStands, Started

-----------------------------------------------------------------------------
(***************************************************************************)
(* Steps that publish nothing.                                              *)
(***************************************************************************)
OthersStay(w) ==
  \A v \in Workers \ {w} :
    /\ step'[v] = step[v] /\ request'[v] = request[v] /\ default'[v] = default[v]
    /\ resolved'[v] = resolved[v] /\ category'[v] = category[v]
    /\ exclusive'[v] = exclusive[v] /\ shared'[v] = shared[v]

LEMMA SeenStays ==
  ASSUME NEW v \in Workers, Bootstraps(v)' <=> Bootstraps(v), UNCHANGED statuses
  PROVE  Seen(v)' = Seen(v)
BY DEF Seen

LEMMA Untouched ==
  ASSUME NEW v \in Workers, TransactionStands(v), UNCHANGED dbVars,
         step'[v] = step[v], request'[v] = request[v], default'[v] = default[v],
         resolved'[v] = resolved[v], category'[v] = category[v],
         exclusive'[v] = exclusive[v], shared'[v] = shared[v]
  PROVE  TransactionStands(v)'
<1>1. Bootstraps(v)' <=> Bootstraps(v)
  BY DEF Bootstraps
<1>2. Seen(v)' = Seen(v)
  BY <1>1, SeenStays DEF dbVars
<1>3. CatalogIsEnsured(v)' = CatalogIsEnsured(v) /\ StepFits(v)' = StepFits(v)
  BY <1>1 DEF CatalogIsEnsured, StepFits, dbVars
<1>4. EditStands(v)' = EditStands(v)
  BY <1>2 DEF EditStands, IsReferenced, dbVars
<1>5. ReferenceStands(v)' = ReferenceStands(v)
  BY <1>2 DEF ReferenceStands, Usable
<1> QED  BY <1>3, <1>4, <1>5 DEF TransactionStands, Started

LEMMA QuietStands ==
  ASSUME IInv, NEW w \in Workers, UNCHANGED dbVars, OthersStay(w),
         TypeOK', LocksExclude', TransactionStands(w)'
  PROVE  IInv'
<1>1. ASSUME NEW v \in Workers PROVE TransactionStands(v)'
  BY <1>1, Untouched DEF OthersStay, IInv
<1>2. CatalogHasOneDefault' /\ StatusReferencesHold' /\ CompletionTimesFollow'
  BY DEF IInv, CatalogHasOneDefault, StatusReferencesHold, CompletionTimesFollow, Usable,
     dbVars
<1> QED  BY <1>1, <1>2 DEF IInv

\* A transaction that is over holds nothing.
LEMMA Ended ==
  ASSUME IInv, NEW w \in Workers, EndTransaction(w),
         workspace' \in Statuses \cup {Absent},
         statuses' \in [Statuses -> StatusRow \cup {Absent}],
         projects' \in [Projects -> ProjectRow \cup {Absent}]
  PROVE  TypeOK' /\ LocksExclude' /\ OthersStay(w) /\ TransactionStands(w)'
<1>1. NoRequest \in Requests
  BY DEF NoRequest
<1>2. TypeOK'
  BY <1>1 DEF EndTransaction, Goto, IInv, TypeOK, Steps
<1>3. OthersStay(w) /\ LocksExclude'
  BY DEF EndTransaction, Goto, IInv, TypeOK, OthersStay, LocksExclude
<1>4. TransactionStands(w)'
  BY DEF EndTransaction, Goto, IInv, TypeOK, TransactionStands, Started
<1> QED  BY <1>2, <1>3, <1>4

LEMMA AbortStands ==
  ASSUME IInv, NEW w \in Workers, Abort(w)
  PROVE  IInv'
<1>1. TypeOK' /\ LocksExclude' /\ OthersStay(w) /\ TransactionStands(w)' /\ UNCHANGED dbVars
  BY Ended DEF Abort, IInv, TypeOK, dbVars
<1> QED  BY <1>1, QuietStands

LEMMA BeginStands ==
  ASSUME IInv, NEW w \in Workers, NEW r \in Requests, Begin(w, r)
  PROVE  IInv'
<1>1. TypeOK'
  BY DEF Begin, Goto, IInv, TypeOK, Steps, dbVars
<1>2. OthersStay(w) /\ LocksExclude' /\ UNCHANGED dbVars
  BY DEF Begin, Goto, IInv, TypeOK, OthersStay, LocksExclude
<1>3. TransactionStands(w)'
  BY DEF Begin, Goto, IInv, TypeOK, TransactionStands, Started
<1> QED  BY <1>1, <1>2, <1>3, QuietStands

\* Whoever finds the organization without a catalog and can lock its workspace
\* is alone.
LEMMA Alone ==
  ASSUME IInv, NEW w \in Workers, workspace = Absent, CanLock(w, Workspace) \/ Bootstraps(w)
  PROVE  \A v \in Workers \ {w} : ~Started(v) /\ exclusive[v] = {} /\ shared[v] = {}
<1> SUFFICES ASSUME NEW v \in Workers \ {w} PROVE ~Started(v)
  BY DEF IInv, TransactionStands
<1>1. ~Bootstraps(v)
  BY DEF CanLock, Bootstraps, IInv, LocksExclude
<1> QED  BY <1>1 DEF IInv, TransactionStands, CatalogIsEnsured

LEMMA BootstrapStands ==
  ASSUME IInv, NEW w \in Workers, BootstrapCatalog(w)
  PROVE  IInv'
<1>1. UNCHANGED <<dbVars, request, resolved, category, pending, shared>> /\ workspace = Absent
  BY DEF BootstrapCatalog
<1>2. FreshIds(w) \subseteq Statuses /\ Fresh[w][Backlog] \in Statuses
  BY FreshIdsAreStatuses
<1>3. TypeOK'
  BY <1>1, <1>2 DEF BootstrapCatalog, Goto, IInv, TypeOK, Steps, dbVars
<1>4. OthersStay(w)
  BY <1>1 DEF BootstrapCatalog, Goto, IInv, TypeOK, OthersStay
<1>5. /\ exclusive'[w] = {Workspace} \cup FreshIds(w) /\ default'[w] = Fresh[w][Backlog]
      /\ step'[w] = "ensured"
  BY DEF BootstrapCatalog, Goto, IInv, TypeOK
<1>6. LocksExclude'
  <2>1. \A v \in Workers \ {w} : exclusive[v] = {} /\ shared[v] = {}
    BY Alone DEF BootstrapCatalog
  <2>2. shared[w] = {}
    BY DEF BootstrapCatalog, IInv, TransactionStands, Started
  <2> QED  BY <1>4, <2>1, <2>2, <1>1 DEF OthersStay, LocksExclude
<1>7. TransactionStands(w)'
  <2>1. CatalogIsEnsured(w)'
    BY <1>1, <1>5 DEF CatalogIsEnsured, Bootstraps, dbVars
  <2>2. StepFits(w)' /\ EditStands(w)' /\ ReferenceStands(w)' /\ Started(w)'
    BY <1>5 DEF StepFits, EditStands, ReferenceStands, Started
  <2> QED  BY <2>1, <2>2 DEF TransactionStands
<1> QED  BY <1>1, <1>3, <1>4, <1>6, <1>7, QuietStands

LEMMA ReadStands ==
  ASSUME IInv, NEW w \in Workers, ReadDefault(w)
  PROVE  IInv'
<1>1. /\ UNCHANGED <<dbVars, request, resolved, category, pending, exclusive, shared>>
      /\ workspace # Absent
  BY DEF ReadDefault
<1>2. TypeOK'
  BY <1>1 DEF ReadDefault, Goto, IInv, TypeOK, Steps, dbVars
<1>3. OthersStay(w) /\ LocksExclude'
  BY <1>1 DEF ReadDefault, Goto, IInv, TypeOK, OthersStay, LocksExclude
<1>4. default'[w] = workspace /\ step'[w] = "ensured"
  BY DEF ReadDefault, Goto, IInv, TypeOK
<1>5. ~Bootstraps(w)'
  BY <1>1 DEF ReadDefault, IInv, TransactionStands, Started, Bootstraps
<1>6. TransactionStands(w)'
  <2>1. CatalogIsEnsured(w)'
    BY <1>1, <1>4, <1>5 DEF CatalogIsEnsured, dbVars
  <2>2. StepFits(w)' /\ EditStands(w)' /\ ReferenceStands(w)' /\ Started(w)'
    BY <1>4 DEF StepFits, EditStands, ReferenceStands, Started
  <2> QED  BY <2>1, <2>2 DEF TransactionStands
<1> QED  BY <1>1, <1>2, <1>3, <1>6, QuietStands

-----------------------------------------------------------------------------
(***************************************************************************)
(* The statements of a transaction whose catalog is ensured.                *)
(***************************************************************************)
LEMMA LaterStands ==
  ASSUME IInv, NEW w \in Workers, Started(w), Started(w)', UNCHANGED <<dbVars, default>>,
         OthersStay(w), Bootstraps(w)' <=> Bootstraps(w),
         exclusive[w] \subseteq exclusive'[w],
         TypeOK', LocksExclude', StepFits(w)', EditStands(w)', ReferenceStands(w)'
  PROVE  IInv'
<1>1. CatalogIsEnsured(w)
  BY DEF IInv, TransactionStands
<1>2. CatalogIsEnsured(w)'
  BY <1>1 DEF CatalogIsEnsured, dbVars
<1>3. TransactionStands(w)'
  BY <1>2 DEF TransactionStands
<1> QED  BY <1>3, QuietStands

LEMMA Locking ==
  ASSUME IInv, NEW w \in Workers, NEW row \in Statuses \cup Projects, Lock(w, row)
  PROVE  /\ exclusive' \in [Workers -> SUBSET ({Workspace} \cup Statuses \cup Projects)]
         /\ exclusive'[w] = exclusive[w] \cup {row}
         /\ \A v \in Workers \ {w} : exclusive'[v] = exclusive[v]
         /\ Bootstraps(w)' <=> Bootstraps(w)
         /\ UNCHANGED shared => LocksExclude'
<1>1. /\ exclusive' \in [Workers -> SUBSET ({Workspace} \cup Statuses \cup Projects)]
      /\ exclusive'[w] = exclusive[w] \cup {row}
      /\ \A v \in Workers \ {w} : exclusive'[v] = exclusive[v]
  BY DEF Lock, IInv, TypeOK
<1>2. Bootstraps(w)' <=> Bootstraps(w)
  BY <1>1 DEF Bootstraps
<1>3. UNCHANGED shared => LocksExclude'
  BY <1>1 DEF Lock, CanLock, IInv, LocksExclude
<1> QED  BY <1>1, <1>2, <1>3

LEMMA Stepping ==
  ASSUME IInv, NEW w \in Workers, NEW s \in Steps, Goto(w, s)
  PROVE  /\ step' \in [Workers -> Steps] /\ step'[w] = s
         /\ \A v \in Workers \ {w} : step'[v] = step[v]
BY DEF Goto, IInv, TypeOK

LEMMA LockStatusStands ==
  ASSUME IInv, NEW w \in Workers, LockStatus(w) \/ InsertStatus(w)
  PROVE  IInv'
<1> DEFINE r == request[w]
<1>1. /\ UNCHANGED <<dbVars, request, default, resolved, category, pending, shared>>
      /\ step[w] = "ensured" /\ Lock(w, r.status)
  BY DEF LockStatus, InsertStatus, At
<1>2. r.op \in StatusEdits \cup {"insert_status"} /\ r.status \in Statuses
  BY RequestFields DEF LockStatus, InsertStatus, At, IInv, TypeOK
<1>3. /\ step' \in [Workers -> Steps] /\ step'[w] \in {"check references", "ready"}
      /\ step'[w] = "check references" <=> Retires(r)
      /\ \A v \in Workers \ {w} : step'[v] = step[v]
  <2>1. CASE LockStatus(w)
    BY <2>1, Stepping DEF LockStatus, Steps
  <2>2. CASE InsertStatus(w)
    BY <2>2, Stepping DEF InsertStatus, At, Retires, Steps
  <2> QED  BY <2>1, <2>2
<1>4. /\ exclusive' \in [Workers -> SUBSET ({Workspace} \cup Statuses \cup Projects)]
      /\ exclusive'[w] = exclusive[w] \cup {r.status}
      /\ \A v \in Workers \ {w} : exclusive'[v] = exclusive[v]
      /\ Bootstraps(w)' <=> Bootstraps(w)
      /\ LocksExclude'
  BY <1>1, <1>2, Locking
<1>5. TypeOK'
  BY <1>1, <1>3, <1>4 DEF IInv, TypeOK, dbVars
<1>6. OthersStay(w)
  BY <1>1, <1>3, <1>4 DEF OthersStay
<1>7. Seen(w)' = Seen(w)
  BY <1>1, <1>4, SeenStays DEF dbVars
<1>8. EditStands(w)'
  <2>1. r.op \in StatusEdits => Editable(r, Seen(w)[r.status])
    BY DEF LockStatus, InsertStatus, At, StatusEdits
  <2>2. r.op = "insert_status" => Seen(w)[r.status] = Absent
    BY DEF LockStatus, InsertStatus, At, StatusEdits
  <2> QED  BY <1>1, <1>3, <1>4, <1>7, <2>1, <2>2 DEF EditStands
<1>9. StepFits(w)' /\ ReferenceStands(w)' /\ Started(w) /\ Started(w)'
  BY <1>1, <1>2, <1>3 DEF StepFits, ReferenceStands, Started, StatusEdits, ProjectOps, Retires
<1> QED  BY <1>1, <1>4, <1>5, <1>6, <1>8, <1>9, LaterStands

LEMMA CheckStands ==
  ASSUME IInv, NEW w \in Workers, CheckReferences(w)
  PROVE  IInv'
<1>1. UNCHANGED <<dbVars, request, default, resolved, category, pending, exclusive, shared>>
        /\ step[w] = "check references"
  BY DEF CheckReferences
<1>2. /\ step' \in [Workers -> Steps] /\ step'[w] = "ready"
      /\ \A v \in Workers \ {w} : step'[v] = step[v]
  BY Stepping DEF CheckReferences, Steps
<1>3. TypeOK' /\ LocksExclude'
  BY <1>1, <1>2 DEF IInv, TypeOK, LocksExclude, dbVars
<1>4. OthersStay(w) /\ (Bootstraps(w)' <=> Bootstraps(w)) /\ Started(w) /\ Started(w)'
  BY <1>1, <1>2 DEF OthersStay, Bootstraps, Started
<1>5. Seen(w)' = Seen(w)
  BY <1>1, <1>4, SeenStays DEF dbVars
<1>6. request[w].op \in StatusEdits /\ EditStands(w)
  BY <1>1, <1>4 DEF IInv, TransactionStands, StepFits
<1>7. EditStands(w)'
  BY <1>1, <1>2, <1>5, <1>6 DEF CheckReferences, EditStands, IsReferenced, StatusEdits, dbVars
<1>8. StepFits(w)' /\ ReferenceStands(w)'
  BY <1>1, <1>2, <1>6 DEF StepFits, ReferenceStands, StatusEdits, ProjectOps
<1> QED  BY <1>1, <1>3, <1>4, <1>7, <1>8, LaterStands

LEMMA ReorderStands ==
  ASSUME IInv, NEW w \in Workers, ReorderSelect(w) \/ \E s \in Statuses : ReorderLock(w, s)
  PROVE  IInv'
<1>1. UNCHANGED <<dbVars, request, default, resolved, category, shared>>
        /\ step[w] \in {"ensured", "lock rows"}
  BY DEF ReorderSelect, ReorderLock, At
<1>2. request[w].op = "reorder_statuses"
  BY DEF ReorderSelect, ReorderLock, At, IInv, TransactionStands, Started, StepFits
<1>3. /\ step' \in [Workers -> Steps] /\ step'[w] \in {"lock rows", "ready"}
      /\ \A v \in Workers \ {w} : step'[v] = step[v]
  BY Stepping DEF ReorderSelect, ReorderLock, Steps
<1>4. /\ exclusive' \in [Workers -> SUBSET ({Workspace} \cup Statuses \cup Projects)]
      /\ exclusive[w] \subseteq exclusive'[w]
      /\ \A v \in Workers \ {w} : exclusive'[v] = exclusive[v]
      /\ Bootstraps(w)' <=> Bootstraps(w)
      /\ LocksExclude'
  <2>1. CASE ReorderSelect(w)
    <3>1. UNCHANGED <<exclusive, shared>>
      BY <2>1 DEF ReorderSelect
    <3> QED  BY <3>1 DEF IInv, TypeOK, LocksExclude, Bootstraps
  <2>2. ASSUME NEW s \in Statuses, ReorderLock(w, s)
        PROVE  /\ exclusive' \in [Workers -> SUBSET ({Workspace} \cup Statuses \cup Projects)]
               /\ exclusive[w] \subseteq exclusive'[w]
               /\ \A v \in Workers \ {w} : exclusive'[v] = exclusive[v]
               /\ Bootstraps(w)' <=> Bootstraps(w)
               /\ LocksExclude'
    <3>1. Lock(w, s) /\ UNCHANGED shared
      BY <2>2 DEF ReorderLock
    <3> QED  BY <3>1, Locking
  <2> QED  BY <2>1, <2>2
<1>5. pending' \in [Workers -> SUBSET Statuses]
  <2>1. pending \in [Workers -> SUBSET Statuses]
    BY DEF IInv, TypeOK
  <2>2. ReorderSelect(w) => pending' \in [Workers -> SUBSET Statuses]
    BY <2>1 DEF ReorderSelect
  <2>3. ASSUME NEW s \in Statuses, ReorderLock(w, s)
        PROVE  pending' \in [Workers -> SUBSET Statuses]
    BY <2>1, <2>3 DEF ReorderLock
  <2> QED  BY <2>2, <2>3
<1>6. TypeOK'
  BY <1>1, <1>3, <1>4, <1>5 DEF IInv, TypeOK, dbVars
<1>7. OthersStay(w)
  BY <1>1, <1>3, <1>4 DEF OthersStay
<1>8. StepFits(w)' /\ EditStands(w)' /\ ReferenceStands(w)' /\ Started(w) /\ Started(w)'
  BY <1>1, <1>2, <1>3 DEF StepFits, EditStands, ReferenceStands, Started, StatusEdits,
     ProjectOps
<1> QED  BY <1>1, <1>4, <1>6, <1>7, <1>8, LaterStands

LEMMA ResolveStands ==
  ASSUME IInv, NEW w \in Workers, ResolveStatus(w)
  PROVE  IInv'
<1>1. UNCHANGED <<dbVars, request, default, pending, exclusive>> /\ step[w] = "ensured"
        /\ request[w].op \in ProjectOps
  BY DEF ResolveStatus, At
<1>2. Started(w)
  BY <1>1 DEF Started
<1>3. Named(w) \in Statuses
  BY <1>1, <1>2, RequestFields, SeenHasOneDefault DEF Named, IInv, TypeOK
<1>4. Seen(w)[Named(w)] \in StatusRow
  BY <1>3, SeenIsTyped DEF ResolveStatus, Usable, IInv
<1>5. /\ step' \in [Workers -> Steps] /\ step'[w] = "write project"
      /\ \A v \in Workers \ {w} : step'[v] = step[v]
  BY Stepping DEF ResolveStatus, Steps
<1>6. /\ shared' \in [Workers -> SUBSET Statuses] /\ shared'[w] = shared[w] \cup {Named(w)}
      /\ \A v \in Workers \ {w} : shared'[v] = shared[v]
  BY <1>3 DEF ResolveStatus, IInv, TypeOK
<1>7. /\ resolved' \in [Workers -> Statuses \cup {Absent}] /\ resolved'[w] = Named(w)
      /\ \A v \in Workers \ {w} : resolved'[v] = resolved[v]
  BY <1>3 DEF ResolveStatus, IInv, TypeOK
<1>8. /\ category' \in [Workers -> Categories \cup {Absent}]
      /\ category'[w] = Seen(w)[Named(w)].category
      /\ \A v \in Workers \ {w} : category'[v] = category[v]
  <2>1. Seen(w)[Named(w)].category \in Categories
    BY <1>4 DEF StatusRow
  <2> QED  BY <2>1 DEF ResolveStatus, IInv, TypeOK
<1>9. TypeOK'
  BY <1>1, <1>5, <1>6, <1>7, <1>8 DEF IInv, TypeOK, dbVars
<1>10. LocksExclude'
  <2>1. \A v \in Workers \ {w} : Named(w) \notin exclusive[v]
    BY DEF ResolveStatus, CanShare
  <2>2. LocksExclude
    BY DEF IInv
  <2> SUFFICES ASSUME NEW u \in Workers, NEW v \in Workers, u # v
               PROVE  exclusive[u] \cap (exclusive[v] \cup shared'[v]) = {}
    BY <1>1 DEF LocksExclude
  <2>3. exclusive[u] \cap (exclusive[v] \cup shared[v]) = {}
    BY <2>2 DEF LocksExclude
  <2>4. CASE v = w
    BY <1>6, <2>1, <2>3, <2>4
  <2>5. CASE v # w
    BY <1>6, <2>3, <2>5
  <2> QED  BY <2>4, <2>5
<1>11. OthersStay(w) /\ (Bootstraps(w)' <=> Bootstraps(w)) /\ Started(w)'
  BY <1>1, <1>5, <1>6, <1>7, <1>8 DEF OthersStay, Bootstraps, Started
<1>12. Seen(w)' = Seen(w)
  BY <1>1, <1>11, SeenStays DEF dbVars
<1>13. Usable(Seen(w), Named(w))
  BY DEF ResolveStatus
<1>14. ReferenceStands(w)'
  BY <1>6, <1>7, <1>8, <1>12, <1>13 DEF ReferenceStands, Usable
<1>15. StepFits(w)' /\ EditStands(w)'
  BY <1>1, <1>5 DEF StepFits, EditStands
<1> QED  BY <1>1, <1>2, <1>9, <1>10, <1>11, <1>14, <1>15, LaterStands

LEMMA WriteStands ==
  ASSUME IInv, NEW w \in Workers, WriteProject(w)
  PROVE  IInv'
<1>1. UNCHANGED <<dbVars, request, default, resolved, category, pending, shared>>
        /\ step[w] = "write project" /\ Lock(w, request[w].project)
  BY DEF WriteProject
<1>2. Started(w)
  BY <1>1 DEF Started
<1>3. request[w].op \in ProjectOps /\ ReferenceStands(w)
  BY <1>1, <1>2 DEF IInv, TransactionStands, StepFits
<1>4. request[w].project \in Projects
  BY <1>3, RequestFields DEF IInv, TypeOK
<1>5. /\ step' \in [Workers -> Steps] /\ step'[w] = "ready"
      /\ \A v \in Workers \ {w} : step'[v] = step[v]
  BY Stepping DEF WriteProject, Steps
<1>6. /\ exclusive' \in [Workers -> SUBSET ({Workspace} \cup Statuses \cup Projects)]
      /\ exclusive'[w] = exclusive[w] \cup {request[w].project}
      /\ \A v \in Workers \ {w} : exclusive'[v] = exclusive[v]
      /\ Bootstraps(w)' <=> Bootstraps(w)
      /\ LocksExclude'
  BY <1>1, <1>4, Locking
<1>7. TypeOK'
  BY <1>1, <1>5, <1>6 DEF IInv, TypeOK, dbVars
<1>8. OthersStay(w) /\ Started(w)'
  BY <1>1, <1>5, <1>6 DEF OthersStay, Started
<1>9. Seen(w)' = Seen(w)
  BY <1>1, <1>6, SeenStays DEF dbVars
<1>10. ReferenceStands(w)'
  BY <1>1, <1>3, <1>5, <1>9 DEF ReferenceStands, Usable
<1>11. StepFits(w)' /\ EditStands(w)'
  BY <1>1, <1>3, <1>5 DEF StepFits, EditStands, StatusEdits, ProjectOps
<1> QED  BY <1>1, <1>2, <1>6, <1>7, <1>8, <1>10, <1>11, LaterStands

-----------------------------------------------------------------------------
(***************************************************************************)
(* Commits: what is published leaves alone what others rely on.             *)
(***************************************************************************)
LEMMA PublishStands ==
  ASSUME IInv, NEW w \in Workers, Started(w), EndTransaction(w), PublishWorkspace(w),
         statuses' \in [Statuses -> StatusRow \cup {Absent}],
         projects' \in [Projects -> ProjectRow \cup {Absent}],
         Usable(statuses', default[w]), statuses'[default[w]].category = Backlog,
         \A s \in Statuses : statuses'[s] # Absent => (statuses'[s].isDefault <=> s = default[w]),
         \A s \in Statuses \ exclusive[w] : statuses'[s] = statuses[s],
         \A s \in Statuses \ shared[w] : IsReferenced(s)' => IsReferenced(s),
         StatusReferencesHold', CompletionTimesFollow'
  PROVE  IInv'
<1>1. CatalogIsEnsured(w) /\ default[w] \in Statuses
  BY SeenHasOneDefault DEF IInv, TransactionStands
<1>2. workspace' = default[w]
  BY <1>1 DEF PublishWorkspace, CatalogIsEnsured
<1>3. TypeOK' /\ LocksExclude' /\ OthersStay(w) /\ TransactionStands(w)'
  BY <1>1, <1>2, Ended
<1>4. CatalogHasOneDefault'
  BY <1>1, <1>2, AbsentAssumption DEF CatalogHasOneDefault, Usable
<1>5. ASSUME NEW v \in Workers \ {w} PROVE TransactionStands(v)'
  <2>1. /\ step'[v] = step[v] /\ request'[v] = request[v] /\ default'[v] = default[v]
        /\ resolved'[v] = resolved[v] /\ category'[v] = category[v]
        /\ exclusive'[v] = exclusive[v] /\ shared'[v] = shared[v]
        /\ TransactionStands(v)
    BY <1>3 DEF OthersStay, IInv
  <2>2. CASE ~Started(v)
    BY <2>1, <2>2 DEF TransactionStands, Started
  <2>3. CASE Started(v)
    <3>1. ~Bootstraps(w)
      BY <1>1, <2>3, Alone DEF CatalogIsEnsured
    <3>2. workspace' = workspace /\ workspace # Absent
      BY <1>1, <1>2, <3>1 DEF CatalogIsEnsured
    <3>3. CatalogIsEnsured(v) /\ StepFits(v) /\ EditStands(v) /\ ReferenceStands(v)
      BY <2>1, <2>3 DEF TransactionStands
    <3>4. ~Bootstraps(v) /\ ~Bootstraps(v)'
      BY <2>1, <3>2, <3>3 DEF CatalogIsEnsured, Bootstraps
    <3>5. Seen(v) = statuses /\ Seen(v)' = statuses'
      <4>1. TypeOK
        BY DEF IInv
      <4> QED  BY <1>3, <3>4, <4>1 DEF Seen, TypeOK
    <3>6. exclusive[v] \cap (exclusive[w] \cup shared[w]) = {} /\ shared[v] \cap exclusive[w] = {}
      BY DEF IInv, LocksExclude
    <3>7. CatalogIsEnsured(v)' /\ StepFits(v)'
      BY <2>1, <3>2, <3>3, <3>4 DEF CatalogIsEnsured, StepFits
    <3>8. EditStands(v)'
      <4> DEFINE r == request[v]
      <4>1. r.op \in StatusEdits \cup {"insert_status"} => r.status \in Statuses
        BY RequestFields DEF IInv, TypeOK
      <4>2. ASSUME r.op \in StatusEdits \cup {"insert_status"}, r.status \in exclusive[v]
            PROVE  /\ statuses'[r.status] = statuses[r.status]
                   /\ IsReferenced(r.status)' => IsReferenced(r.status)
        <5>1. r.status \in Statuses \ exclusive[w] /\ r.status \in Statuses \ shared[w]
          BY <3>6, <4>1, <4>2
        <5>2. statuses'[r.status] = statuses[r.status]
          BY <5>1
        <5>3. \A s \in Statuses \ shared[w] : IsReferenced(s)' => IsReferenced(s)
          OBVIOUS
        <5>4. IsReferenced(r.status)' <=> \E p \in Projects : projects'[p] # Absent /\ projects'[p].status = r.status
          BY <2>1 DEF IsReferenced
        <5> QED  BY <5>1, <5>2, <5>3, <5>4 DEF IsReferenced
      <4>3. step[v] \in {"check references", "ready"} /\ r.op \in StatusEdits =>
              /\ r.status \in exclusive[v] /\ Editable(r, statuses'[r.status])
              /\ step[v] = "ready" /\ Retires(r) => ~IsReferenced(r.status)'
        BY <3>3, <3>5, <4>2 DEF EditStands
      <4>4. step[v] = "ready" /\ r.op = "insert_status" =>
              r.status \in exclusive[v] /\ statuses'[r.status] = Absent
        BY <3>3, <3>5, <4>2 DEF EditStands
      <4> QED  BY <2>1, <3>5, <4>3, <4>4 DEF EditStands, IsReferenced
    <3>9. ReferenceStands(v)'
      <4> SUFFICES ASSUME step[v] \in {"write project", "ready"}, request[v].op \in ProjectOps
                   PROVE  /\ resolved[v] \in shared[v] /\ Usable(statuses', resolved[v])
                          /\ category[v] = statuses'[resolved[v]].category
        BY <2>1, <3>5 DEF ReferenceStands, Usable
      <4>1. /\ resolved[v] \in shared[v] /\ Usable(statuses, resolved[v])
            /\ category[v] = statuses[resolved[v]].category
        BY <3>3, <3>5 DEF ReferenceStands
      <4>2. resolved[v] \in Statuses \ exclusive[w]
        BY <3>6, <4>1 DEF IInv, TypeOK
      <4> QED  BY <4>1, <4>2 DEF Usable
    <3> QED  BY <2>1, <2>3, <3>7, <3>8, <3>9 DEF TransactionStands, Started
  <2> QED  BY <2>2, <2>3
<1>6. \A v \in Workers : TransactionStands(v)'
  BY <1>3, <1>5
<1> QED  BY <1>3, <1>4, <1>6 DEF IInv

\* What is published of the catalog by those who have not touched it.
LEMMA SeenIsPublished ==
  ASSUME IInv, NEW w \in Workers, Started(w)
  PROVE  \A s \in Statuses \ exclusive[w] : Seen(w)[s] = statuses[s]
BY DEF IInv, TransactionStands, CatalogIsEnsured, Seen

\* A bootstrapping transaction knows that there are no projects.
LEMMA ReferencesAreSeen ==
  ASSUME IInv, NEW w \in Workers, Started(w), NEW p \in Projects, projects[p] # Absent
  PROVE  Seen(w) = statuses
<1>1. projects[p].status \in Statuses /\ statuses[projects[p].status] # Absent
  BY DEF IInv, StatusReferencesHold, Usable, TypeOK, ProjectRow
<1>2. workspace # Absent
  BY <1>1 DEF IInv, CatalogHasOneDefault
<1> QED  BY <1>2, SeenIsCommitted DEF IInv, TransactionStands, CatalogIsEnsured

LEMMA UneditedStands ==
  ASSUME IInv, NEW w \in Workers, CommitGet(w) \/ CommitBootstrap(w) \/ CommitReorder(w)
  PROVE  IInv'
<1>1. /\ statuses' = Seen(w) /\ PublishWorkspace(w) /\ EndTransaction(w)
      /\ UNCHANGED projects /\ Started(w)
  BY DEF CommitGet, CommitBootstrap, CommitReorder, At, Started
<1>2. /\ statuses' \in [Statuses -> StatusRow \cup {Absent}]
      /\ projects' \in [Projects -> ProjectRow \cup {Absent}]
  BY <1>1, SeenIsTyped DEF IInv, TypeOK
<1>3. \A s \in Statuses \ shared[w] : IsReferenced(s)' => IsReferenced(s)
  BY <1>1 DEF IsReferenced
<1>4. StatusReferencesHold' /\ CompletionTimesFollow'
  <2>1. ASSUME NEW p \in Projects, projects[p] # Absent PROVE statuses' = statuses
    BY <1>1, <2>1, ReferencesAreSeen
  <2> QED  BY <1>1, <2>1 DEF IInv, StatusReferencesHold, CompletionTimesFollow, Usable
<1>5. /\ Usable(statuses', default[w]) /\ statuses'[default[w]].category = Backlog
      /\ \A s \in Statuses : statuses'[s] # Absent => (statuses'[s].isDefault <=> s = default[w])
  BY <1>1, SeenHasOneDefault
<1>6. \A s \in Statuses \ exclusive[w] : statuses'[s] = statuses[s]
  BY <1>1, SeenIsPublished
<1> QED  BY <1>1, <1>2, <1>3, <1>4, <1>5, <1>6, PublishStands

LEMMA StatusStands ==
  ASSUME IInv, NEW w \in Workers, CommitStatus(w)
  PROVE  IInv'
<1> DEFINE r == request[w]
           row == Seen(w)[r.status]
           new == Edited(r, row)
<1>1. /\ step[w] = "ready" /\ r.op \in StatusEdits \cup {"insert_status"} /\ Started(w)
      /\ PublishWorkspace(w) /\ EndTransaction(w) /\ UNCHANGED projects
      /\ r.op = "delete_status" => ~IsReferenced(r.status)
  BY DEF CommitStatus, At, Started
<1>2. /\ r \in Requests /\ r.status \in Statuses
      /\ Seen(w) \in [Statuses -> StatusRow \cup {Absent}] /\ EditStands(w)
  BY <1>1, RequestFields, SeenIsTyped DEF IInv, TypeOK, TransactionStands
<1>3. /\ statuses'[r.status] = new
      /\ \A s \in Statuses \ {r.status} : statuses'[s] = Seen(w)[s]
      /\ statuses' = [Seen(w) EXCEPT ![r.status] = new]
  BY <1>2 DEF CommitStatus
<1>4. /\ r.status \in exclusive[w]
      /\ r.op \in StatusEdits => Editable(r, row)
      /\ r.op \in {"archive_status", "delete_status"} =>
           (Retires(r) => ~IsReferenced(r.status))
      /\ r.op = "insert_status" => row = Absent
  BY <1>1, <1>2 DEF EditStands, StatusEdits
<1> HIDE DEF new
\* What the edit makes of the row.
<1>5. \/ /\ r.op = "insert_status" /\ row = Absent
         /\ new \in StatusRow /\ ~new.isDefault
      \/ /\ r.op = "delete_status" /\ new = Absent /\ row \in StatusRow
         /\ ~row.isDefault /\ ~IsReferenced(r.status)
      \/ /\ r.op \in {"update_status", "archive_status"} /\ row \in StatusRow
         /\ new \in StatusRow /\ new.category = row.category
         /\ new.isDefault = row.isDefault
         /\ \/ new.archived = row.archived
            \/ new.archived /\ ~row.isDefault /\ ~IsReferenced(r.status)
            \/ ~new.archived
  <2>1. row \in StatusRow \cup {Absent}
    BY <1>2
  <2>2. CASE r.op = "insert_status"
    <3>1. new = NewStatus(r) /\ r.category \in Categories
      BY <1>2, <2>2, RequestFields DEF new, Edited
    <3> QED  BY <1>4, <2>2, <3>1 DEF NewStatus, StatusRow
  <2>3. CASE r.op = "delete_status"
    <3>1. new = Absent /\ Retires(r)
      BY <2>3 DEF new, Edited, Retires
    <3> QED  BY <1>1, <1>4, <2>1, <2>3, <3>1 DEF Editable, StatusEdits
  <2>4. CASE r.op = "update_status"
    <3>1. new = [row EXCEPT !.category = r.category]
      BY <2>4 DEF new, Edited, PutStatus
    <3>2. row \in StatusRow /\ row.category = r.category
      BY <1>4, <2>1, <2>4 DEF Editable, StatusEdits
    <3>3. new = row
      BY <3>1, <3>2 DEF StatusRow
    <3> QED  BY <2>4, <3>2, <3>3
  <2>5. CASE r.op = "archive_status"
    <3>1. new = [row EXCEPT !.archived = r.archived]
      BY <2>5 DEF new, Edited, ArchiveStatus
    <3>2. row \in StatusRow /\ r.archived \in BOOLEAN
      BY <1>2, <1>4, <2>1, <2>5, RequestFields DEF Editable, StatusEdits
    <3>3. /\ new \in StatusRow /\ new.category = row.category
          /\ new.isDefault = row.isDefault /\ new.archived = r.archived
      BY <3>1, <3>2 DEF StatusRow
    <3>4. r.archived => ~row.isDefault /\ ~IsReferenced(r.status)
      BY <1>4, <2>5 DEF Editable, Retires, StatusEdits
    <3>5. CASE r.archived
      BY <2>5, <3>2, <3>3, <3>4, <3>5
    <3>6. CASE ~r.archived
      BY <2>5, <3>2, <3>3, <3>6
    <3> QED  BY <3>5, <3>6
  <2> QED  BY <1>1, <2>2, <2>3, <2>4, <2>5 DEF StatusEdits
<1>6. /\ statuses' \in [Statuses -> StatusRow \cup {Absent}]
      /\ projects' \in [Projects -> ProjectRow \cup {Absent}]
  <2>1. new \in StatusRow \cup {Absent}
    BY <1>5
  <2> QED  BY <1>1, <1>2, <1>3, <2>1 DEF IInv, TypeOK
<1>7. /\ Usable(statuses', default[w]) /\ statuses'[default[w]].category = Backlog
      /\ \A s \in Statuses : statuses'[s] # Absent => (statuses'[s].isDefault <=> s = default[w])
  <2>1. /\ default[w] \in Statuses /\ Usable(Seen(w), default[w])
        /\ Seen(w)[default[w]].category = Backlog
        /\ \A s \in Statuses : Seen(w)[s] # Absent => (Seen(w)[s].isDefault <=> s = default[w])
    BY <1>1, SeenHasOneDefault
  <2>2. row \in StatusRow => (row.isDefault <=> r.status = default[w])
    BY <1>2, <2>1, AbsentAssumption
  <2>3. CASE r.status = default[w]
    <3>1. row # Absent /\ ~row.archived /\ row.category = Backlog
      BY <2>1, <2>3 DEF Usable
    <3>2. /\ new \in StatusRow /\ new.category = Backlog /\ new.isDefault = row.isDefault
          /\ ~new.archived /\ row.isDefault
      BY <1>5, <2>2, <2>3, <3>1
    <3> QED  BY <1>3, <2>1, <2>3, <3>2, AbsentAssumption DEF Usable
  <2>4. CASE r.status # default[w]
    <3>1. new # Absent => ~new.isDefault
      BY <1>5, <2>2, <2>4
    <3> QED  BY <1>3, <2>1, <2>4, <3>1 DEF Usable
  <2> QED  BY <2>3, <2>4
<1>8. \A s \in Statuses \ exclusive[w] : statuses'[s] = statuses[s]
  BY <1>1, <1>3, <1>4, SeenIsPublished
<1>9. \A s \in Statuses \ shared[w] : IsReferenced(s)' => IsReferenced(s)
  BY <1>1 DEF IsReferenced
<1>10. ASSUME NEW p \in Projects, projects[p] # Absent
       PROVE  /\ Usable(statuses', projects[p].status)
              /\ statuses'[projects[p].status].category = statuses[projects[p].status].category
  <2>1. Seen(w) = statuses
    BY <1>1, <1>10, ReferencesAreSeen
  <2>2. projects[p].status \in Statuses /\ Usable(statuses, projects[p].status)
    BY <1>10 DEF IInv, StatusReferencesHold, TypeOK, ProjectRow
  <2>3. CASE projects[p].status # r.status
    BY <1>3, <2>1, <2>2, <2>3 DEF Usable
  <2>4. CASE projects[p].status = r.status
    <3>1. IsReferenced(r.status) /\ row # Absent /\ ~row.archived
      BY <1>10, <2>1, <2>2, <2>4 DEF IsReferenced, Usable
    <3>2. new \in StatusRow /\ new.category = row.category /\ ~new.archived
      BY <1>5, <3>1
    <3> QED  BY <1>3, <2>1, <2>4, <3>2, AbsentAssumption DEF Usable
  <2> QED  BY <2>3, <2>4
<1>11. StatusReferencesHold' /\ CompletionTimesFollow'
  BY <1>1, <1>10 DEF IInv, StatusReferencesHold, CompletionTimesFollow, Usable
<1> QED  BY <1>1, <1>6, <1>7, <1>8, <1>9, <1>11, PublishStands

LEMMA ProjectCommitStands ==
  ASSUME IInv, NEW w \in Workers, NEW now \in Times, CommitProject(w, now)
  PROVE  IInv'
<1> DEFINE p == request[w].project
           before == IF projects[p] = Absent THEN NoTimes ELSE projects[p]
           row == WrittenProject(before, resolved[w], category[w], now)
<1>1. /\ step[w] = "ready" /\ request[w].op \in ProjectOps /\ Started(w)
      /\ projects' = [projects EXCEPT ![p] = row] /\ statuses' = Seen(w)
      /\ PublishWorkspace(w) /\ EndTransaction(w)
  BY DEF CommitProject, At, Started
<1>2. /\ p \in Projects /\ resolved[w] \in shared[w] /\ resolved[w] \in Statuses
      /\ Usable(Seen(w), resolved[w]) /\ category[w] = Seen(w)[resolved[w]].category
  BY <1>1, RequestFields DEF IInv, TypeOK, TransactionStands, ReferenceStands
<1>3. before.completed \in Times \cup {Absent} /\ before.canceled \in Times \cup {Absent}
  BY <1>2 DEF IInv, TypeOK, ProjectRow, NoTimes
<1>4. /\ row.status = resolved[w]
      /\ row.completed = CompletionTime(before.completed, category[w] = Completed, now)
      /\ row.canceled = CompletionTime(before.canceled, category[w] = Canceled, now)
      /\ row = [status |-> row.status, completed |-> row.completed, canceled |-> row.canceled]
  BY Zenon DEF WrittenProject
<1> HIDE DEF row
<1>5. /\ row.completed \in Times \cup {Absent} /\ row.canceled \in Times \cup {Absent}
      /\ (row.completed # Absent) <=> (category[w] = Completed)
      /\ (row.canceled # Absent) <=> (category[w] = Canceled)
  BY <1>3, <1>4 DEF CompletionTime
<1>6. row \in ProjectRow
  BY <1>2, <1>4, <1>5 DEF ProjectRow
<1>7. /\ statuses' \in [Statuses -> StatusRow \cup {Absent}]
      /\ projects' \in [Projects -> ProjectRow \cup {Absent}]
      /\ projects'[p] = row /\ \A q \in Projects \ {p} : projects'[q] = projects[q]
  BY <1>1, <1>2, <1>6, SeenIsTyped DEF IInv, TypeOK
<1>8. /\ Usable(statuses', default[w]) /\ statuses'[default[w]].category = Backlog
      /\ \A s \in Statuses : statuses'[s] # Absent => (statuses'[s].isDefault <=> s = default[w])
  BY <1>1, SeenHasOneDefault
<1>9. \A s \in Statuses \ exclusive[w] : statuses'[s] = statuses[s]
  BY <1>1, SeenIsPublished
<1>10. \A s \in Statuses \ shared[w] : IsReferenced(s)' => IsReferenced(s)
  BY <1>2, <1>4, <1>7 DEF IsReferenced
<1>11. StatusReferencesHold' /\ CompletionTimesFollow'
  <2> SUFFICES ASSUME NEW q \in Projects, projects'[q] # Absent
               PROVE  LET c == statuses'[projects'[q].status].category
                      IN /\ Usable(statuses', projects'[q].status)
                         /\ (projects'[q].completed # Absent) <=> (c = Completed)
                         /\ (projects'[q].canceled # Absent) <=> (c = Canceled)
    BY DEF StatusReferencesHold, CompletionTimesFollow, Usable
  <2>1. CASE q = p
    BY <1>1, <1>2, <1>4, <1>5, <1>7, <2>1
  <2>2. CASE q # p
    <3>1. projects'[q] = projects[q] /\ projects[q] # Absent
      BY <1>7, <2>2
    <3>2. statuses' = statuses
      BY <1>1, <3>1, ReferencesAreSeen
    <3> QED  BY <3>1, <3>2 DEF IInv, StatusReferencesHold, CompletionTimesFollow
  <2> QED  BY <2>1, <2>2
<1> QED  BY <1>1, <1>7, <1>8, <1>9, <1>10, <1>11, PublishStands

-----------------------------------------------------------------------------
LEMMA NextStands ==
  ASSUME IInv, [Next]_vars
  PROVE  IInv'
<1>1. CASE UNCHANGED vars
  <2>1. UNCHANGED <<dbVars, step, request, default, resolved, category, pending, exclusive,
                    shared>>
    BY <1>1 DEF vars, workerVars
  <2>2. TypeOK' /\ LocksExclude'
    BY <2>1 DEF IInv, TypeOK, LocksExclude, dbVars
  <2>3. CatalogHasOneDefault' /\ StatusReferencesHold' /\ CompletionTimesFollow'
    BY <2>1 DEF IInv, CatalogHasOneDefault, StatusReferencesHold, CompletionTimesFollow,
       Usable, dbVars
  <2>4. ASSUME NEW v \in Workers PROVE TransactionStands(v)'
    BY <2>1, <2>4, Untouched DEF IInv
  <2> QED  BY <2>2, <2>3, <2>4 DEF IInv
<1>2. ASSUME NEW w \in Workers, Step(w) PROVE IInv'
  <2>1. CASE BootstrapCatalog(w)
    BY <2>1, BootstrapStands
  <2>2. CASE ReadDefault(w)
    BY <2>2, ReadStands
  <2>3. CASE CommitGet(w) \/ CommitBootstrap(w) \/ CommitReorder(w)
    BY <2>3, UneditedStands
  <2>4. CASE LockStatus(w) \/ InsertStatus(w)
    BY <2>4, LockStatusStands
  <2>5. CASE CheckReferences(w)
    BY <2>5, CheckStands
  <2>6. CASE CommitStatus(w)
    BY <2>6, StatusStands
  <2>7. CASE ReorderSelect(w) \/ \E s \in Statuses : ReorderLock(w, s)
    BY <2>7, ReorderStands
  <2>8. CASE ResolveStatus(w)
    BY <2>8, ResolveStands
  <2>9. CASE WriteProject(w)
    BY <2>9, WriteStands
  <2>10. CASE \E now \in Times : CommitProject(w, now)
    BY <2>10, ProjectCommitStands
  <2> QED
    BY <1>2, <2>1, <2>2, <2>3, <2>4, <2>5, <2>6, <2>7, <2>8, <2>9, <2>10 DEF Step
<1>3. ASSUME NEW w \in Workers, Abort(w) PROVE IInv'
  BY <1>3, AbortStands
<1>4. ASSUME NEW w \in Workers, NEW r \in Requests, Begin(w, r) PROVE IInv'
  BY <1>4, BeginStands
<1> QED  BY <1>1, <1>2, <1>3, <1>4 DEF Next

-----------------------------------------------------------------------------
(***************************************************************************)
(* The invariant holds of every reachable state.                            *)
(***************************************************************************)
THEOREM StatusInvariance == Spec => []IInv
<1>1. Init => IInv
  BY InitStands
<1>2. IInv /\ [Next]_vars => IInv'
  BY NextStands
<1> QED  BY <1>1, <1>2, PTL DEF Spec

(***************************************************************************)
(* However many first commands race, the organization has one catalog and   *)
(* it keeps one usable default.                                             *)
(***************************************************************************)
THEOREM CatalogKeepsOneDefault == Spec => []CatalogHasOneDefault
<1>1. IInv => CatalogHasOneDefault
  BY DEF IInv
<1> QED  BY <1>1, StatusInvariance, PTL

(***************************************************************************)
(* No race leaves a project with an archived or deleted status.             *)
(***************************************************************************)
THEOREM StatusReferencesStayUsable == Spec => []StatusReferencesHold
<1>1. IInv => StatusReferencesHold
  BY DEF IInv
<1> QED  BY <1>1, StatusInvariance, PTL

(***************************************************************************)
(* completed_at and canceled_at follow the category of the present status,  *)
(* over any sequence of edits of projects and of the catalog.               *)
(***************************************************************************)
THEOREM TimesFollowTheCategory == Spec => []CompletionTimesFollow
<1>1. IInv => CompletionTimesFollow
  BY DEF IInv
<1> QED  BY <1>1, StatusInvariance, PTL

(***************************************************************************)
(* Only a commit of the project writes its times, and it coalesces.         *)
(***************************************************************************)
LEMMA TimesAreKept ==
  ASSUME IInv, [Next]_vars
  PROVE  KeepsCompletionTime
<1>1. CASE UNCHANGED projects
  BY <1>1 DEF KeepsCompletionTime
<1>2. ASSUME NEW w \in Workers, NEW now \in Times, CommitProject(w, now)
      PROVE  KeepsCompletionTime
  <2> DEFINE p == request[w].project
             before == IF projects[p] = Absent THEN NoTimes ELSE projects[p]
             row == WrittenProject(before, resolved[w], category[w], now)
  <2>1. projects' = [projects EXCEPT ![p] = row] /\ request[w].op \in ProjectOps
    BY <1>2 DEF CommitProject, At
  <2>2. p \in Projects
    BY <2>1, RequestFields DEF IInv, TypeOK
  <2>3. /\ row.completed = CompletionTime(before.completed, category[w] = Completed, now)
        /\ row.canceled = CompletionTime(before.canceled, category[w] = Canceled, now)
    BY Zenon DEF WrittenProject
  <2> HIDE DEF row
  <2>4. projects'[p] = row /\ \A q \in Projects \ {p} : projects'[q] = projects[q]
    BY <2>1, <2>2 DEF IInv, TypeOK
  <2>5. projects[p] # Absent =>
          /\ projects[p].completed # Absent /\ row.completed # Absent =>
               row.completed = projects[p].completed
          /\ projects[p].canceled # Absent /\ row.canceled # Absent =>
               row.canceled = projects[p].canceled
    BY <2>3 DEF CompletionTime
  <2> QED  BY <2>4, <2>5 DEF KeepsCompletionTime
<1>3. UNCHANGED projects \/ \E w \in Workers, now \in Times : CommitProject(w, now)
  BY DEF Next, Step, Begin, Abort, BootstrapCatalog, ReadDefault, CommitGet, CommitBootstrap,
     LockStatus, CheckReferences, InsertStatus, CommitStatus, ReorderSelect, ReorderLock,
     CommitReorder, ResolveStatus, WriteProject, vars, dbVars
<1> QED  BY <1>1, <1>2, <1>3

(***************************************************************************)
(* The time a project was completed or canceled is set once.                *)
(***************************************************************************)
THEOREM CompletionTimeIsKept == Spec => CompletionTimeKept
<1>1. IInv /\ [Next]_vars => [KeepsCompletionTime]_vars
  BY TimesAreKept
<1> QED  BY <1>1, StatusInvariance, PTL DEF Spec, CompletionTimeKept

-----------------------------------------------------------------------------
(***************************************************************************)
(* Why nothing deadlocks: a worker that did not bring the catalog in and    *)
(* asks for a row holds only rows before it, statuses by their rank, then   *)
(* the project.                                                             *)
(***************************************************************************)
LocksInOrder(w) ==
  /\ step[w] = "ensured" => exclusive[w] = {} /\ shared[w] = {}
  /\ step[w] = "lock rows" =>
       /\ shared[w] = {} /\ exclusive[w] \subseteq Statuses
       /\ \A held \in exclusive[w], s \in pending[w] : Rank[held] < Rank[s]
  /\ step[w] = "write project" => exclusive[w] = {}

LocksAreOrdered == \A w \in Workers : ~Bootstraps(w) => LocksInOrder(w)

(***************************************************************************)
(* Some set of a family of subsets of a finite set contains no other one.   *)
(***************************************************************************)
LEMMA LeastSet ==
  ASSUME NEW S, IsFiniteSet(S), NEW T \in SUBSET (SUBSET S), T # {}
  PROVE  \E t \in T : \A u \in T : u \subseteq t => u = t
<1>1. T \subseteq FiniteSubsetsOf(S)
  BY FS_FiniteSubsetsOfFinite, Zenon
<1>2. PICK t \in T : \A u \in T : <<u, t>> \notin StrictSubsetOrdering(S)
  BY <1>1, FS_StrictSubsetOrderingWellFounded, WFMin
<1> QED  BY <1>2 DEF StrictSubsetOrdering

(***************************************************************************)
(* Among finitely many workers one waits for a row as late as any.          *)
(***************************************************************************)
LEMMA LastInOrder ==
  ASSUME NEW S, IsFiniteSet(S), S # {}, NEW rank \in [S -> Nat]
  PROVE  \E x \in S : \A y \in S : rank[y] <= rank[x]
<1> DEFINE above(x) == {y \in S : rank[x] < rank[y]}
           T == {above(x) : x \in S}
<1>1. T \in SUBSET (SUBSET S) /\ T # {}
  <2>1. PICK z \in S : TRUE
    OBVIOUS
  <2>2. above(z) \in T
    OBVIOUS
  <2>3. \A x \in S : above(x) \in SUBSET S
    OBVIOUS
  <2> QED  BY <2>2, <2>3, Zenon
<1>2. PICK t \in T : \A u \in T : u \subseteq t => u = t
  <2> HIDE DEF T
  <2> QED  BY <1>1, LeastSet
<1>3. PICK x \in S : t = above(x)
  OBVIOUS
<1>4. ASSUME NEW y \in S, rank[x] < rank[y] PROVE FALSE
  <2>1. y \in above(x) /\ y \notin above(y)
    BY <1>4
  <2>2. above(y) \subseteq above(x)
    BY <1>4
  <2>3. above(y) \in T
    OBVIOUS
  <2> HIDE DEF above, T
  <2> QED  BY <1>2, <1>3, <2>1, <2>2, <2>3
<1> QED  BY <1>4

\* A worker that does not move keeps its locks and what it asks for.
LEMMA OthersStayOrdered ==
  ASSUME LocksAreOrdered, NEW w \in Workers, OthersStay(w),
         \A v \in Workers \ {w} : pending'[v] = pending[v],
         (~Bootstraps(w) => LocksInOrder(w))'
  PROVE  LocksAreOrdered'
BY DEF LocksAreOrdered, LocksInOrder, OthersStay, Bootstraps

LEMMA EndedIsOrdered ==
  ASSUME IInv, LocksAreOrdered, NEW w \in Workers, EndTransaction(w)
  PROVE  LocksAreOrdered'
<1>1. /\ OthersStay(w) /\ LocksInOrder(w)'
      /\ \A v \in Workers \ {w} : pending'[v] = pending[v]
  BY DEF IInv, TypeOK, EndTransaction, Goto, OthersStay, LocksInOrder
<1> QED  BY <1>1, OthersStayOrdered

\* What is locked last before "ready" may be any row.
LEMMA StatementsStayOrdered ==
  ASSUME IInv, LocksAreOrdered, NEW w \in Workers,
         \/ \E r \in Requests : Begin(w, r)
         \/ LockStatus(w) \/ CheckReferences(w) \/ InsertStatus(w) \/ WriteProject(w)
  PROVE  LocksAreOrdered'
<1>1. OthersStay(w) /\ \A v \in Workers \ {w} : pending'[v] = pending[v]
  BY DEF IInv, TypeOK, OthersStay, Begin, LockStatus, CheckReferences, InsertStatus,
         WriteProject, Goto, Lock
<1>2. step'[w] \in {"begun", "check references", "ready"}
  BY DEF IInv, TypeOK, Begin, LockStatus, CheckReferences, InsertStatus, WriteProject, Goto
<1> QED  BY <1>1, <1>2, OthersStayOrdered DEF LocksInOrder

LEMMA EnsuredIsOrdered ==
  ASSUME IInv, LocksAreOrdered, NEW w \in Workers,
         BootstrapCatalog(w) \/ ReadDefault(w) \/ ReorderSelect(w) \/ ResolveStatus(w)
  PROVE  LocksAreOrdered'
<1>1. OthersStay(w) /\ \A v \in Workers \ {w} : pending'[v] = pending[v]
  BY DEF IInv, TypeOK, OthersStay, BootstrapCatalog, ReadDefault, ReorderSelect,
         ResolveStatus, Goto
<1>2. CASE BootstrapCatalog(w)
  <2>1. Bootstraps(w)'
    BY <1>2 DEF BootstrapCatalog, Bootstraps, IInv, TypeOK
  <2> QED  BY <1>1, <2>1, OthersStayOrdered
<1>3. CASE ReadDefault(w)
  <2>1. exclusive[w] = {} /\ shared[w] = {}
    BY <1>3 DEF ReadDefault, IInv, TransactionStands, Started
  <2>2. LocksInOrder(w)'
    BY <1>3, <2>1 DEF ReadDefault, Goto, LocksInOrder, IInv, TypeOK
  <2> QED  BY <1>1, <2>2, OthersStayOrdered
<1>4. CASE ReorderSelect(w) \/ ResolveStatus(w)
  <2>1. (~Bootstraps(w) => LocksInOrder(w))'
    BY <1>4 DEF ReorderSelect, ResolveStatus, At, Goto, LocksAreOrdered, LocksInOrder,
                Bootstraps, IInv, TypeOK
  <2> QED  BY <1>1, <2>1, OthersStayOrdered
<1> QED  BY <1>2, <1>3, <1>4

LEMMA ReorderLockOrdered ==
  ASSUME IInv, LocksAreOrdered, NEW w \in Workers, NEW s \in Statuses, ReorderLock(w, s)
  PROVE  LocksAreOrdered'
<1>1. OthersStay(w) /\ \A v \in Workers \ {w} : pending'[v] = pending[v]
  BY DEF IInv, TypeOK, OthersStay, ReorderLock, Goto, Lock
<1>2. CASE step'[w] = "ready"
  BY <1>1, <1>2, OthersStayOrdered DEF LocksInOrder
<1>3. CASE step'[w] = "lock rows"
  <2>1. /\ exclusive'[w] = exclusive[w] \cup {s} /\ shared'[w] = shared[w]
        /\ pending'[w] = pending[w] \ {s} /\ step[w] = "lock rows"
        /\ \A other \in pending[w] : Rank[s] <= Rank[other]
    BY DEF IInv, TypeOK, ReorderLock, Lock, NextToLock
  <2>2. ASSUME NEW other \in pending[w], other # s PROVE Rank[s] < Rank[other]
    <3>1. other \in Statuses /\ Rank[s] <= Rank[other]
      BY <2>1 DEF IInv, TypeOK
    <3>2. Rank[s] \in Nat /\ Rank[other] \in Nat /\ Rank[s] # Rank[other]
      BY <2>2, <3>1, RankAssumption DEF IsInjective
    <3> QED  BY <3>1, <3>2
  <2>3. ~Bootstraps(w) => LocksInOrder(w)'
    BY <1>3, <2>1, <2>2 DEF LocksAreOrdered, LocksInOrder
  <2>4. Bootstraps(w) => Bootstraps(w)'
    BY <2>1 DEF Bootstraps
  <2> QED  BY <1>1, <2>3, <2>4, OthersStayOrdered
<1> QED  BY <1>2, <1>3 DEF ReorderLock, Goto, IInv, TypeOK

LEMMA NextOrdered == IInv /\ LocksAreOrdered /\ [Next]_vars => LocksAreOrdered'
<1> SUFFICES ASSUME IInv, LocksAreOrdered, [Next]_vars PROVE LocksAreOrdered'
  OBVIOUS
<1>1. ASSUME NEW w \in Workers, EndTransaction(w) PROVE LocksAreOrdered'
  BY <1>1, EndedIsOrdered
<1>2. ASSUME NEW w \in Workers, Step(w) PROVE LocksAreOrdered'
  BY <1>1, <1>2, StatementsStayOrdered, EnsuredIsOrdered, ReorderLockOrdered
     DEF Step, CommitGet, CommitBootstrap, CommitStatus, CommitReorder, CommitProject
<1>3. ASSUME NEW w \in Workers, NEW r \in Requests, Begin(w, r) PROVE LocksAreOrdered'
  BY <1>3, StatementsStayOrdered
<1>4. CASE UNCHANGED vars
  BY <1>4 DEF vars, workerVars, LocksAreOrdered, LocksInOrder, Bootstraps
<1> QED  BY <1>1, <1>2, <1>3, <1>4 DEF Next, Abort

\* The rows asked for, step by step.
LEMMA WantedRows ==
  ASSUME NEW w \in Workers
  PROVE  /\ step[w] = "lock rows" => WantsExclusive(w) = NextToLock(w) /\ WantsShare(w) = {}
         /\ step[w] = "write project" =>
              WantsExclusive(w) = {request[w].project} /\ WantsShare(w) = {}
         /\ step[w] = "begun" /\ workspace # Absent =>
              WantsExclusive(w) = {} /\ WantsShare(w) = {}
         /\ step[w] \in {"idle", "check references", "ready"} =>
              WantsExclusive(w) = {} /\ WantsShare(w) = {}
<1>1. CASE step[w] = "lock rows"
  BY <1>1 DEF WantsExclusive, WantsShare, At
<1>2. CASE step[w] = "begun" /\ workspace # Absent
  BY <1>2 DEF WantsExclusive, WantsShare, At
<1>3. CASE step[w] = "write project"
  BY <1>3 DEF WantsExclusive, WantsShare, At
<1>4. CASE step[w] \in {"idle", "check references", "ready"}
  BY <1>4 DEF WantsExclusive, WantsShare, At
<1> QED  BY <1>1, <1>2, <1>3, <1>4

(***************************************************************************)
(* No cycle of waiting workers: while there is no catalog, the one that     *)
(* brings it in waits for nobody and the others hold nothing; afterwards    *)
(* who wants a project waits for a worker that only commits, and among the  *)
(* workers that reorder statuses the last in order waits for none.          *)
(***************************************************************************)
LEMMA OrderExcludesDeadlock == IInv /\ LocksAreOrdered => NoStatusDeadlock
<1> SUFFICES ASSUME IInv, LocksAreOrdered, NEW waiting \in SUBSET Workers, waiting # {},
                    \A w \in waiting : Blockers(w) \cap waiting # {}
             PROVE  FALSE
  BY DEF NoStatusDeadlock
<1> DEFINE Wants(w) == WantsExclusive(w) \cup WantsShare(w)
           Holds(w) == exclusive[w] \cup shared[w]
<1>1. ASSUME NEW w \in waiting
      PROVE  \E v \in waiting \ {w} : Wants(w) \cap Holds(v) # {}
  <2>1. PICK v \in waiting : v \in Blockers(w)
    BY <1>1
  <2> QED  BY <2>1 DEF Blockers
<1>2. workspace # Absent
  <2> SUFFICES ASSUME workspace = Absent PROVE FALSE
    OBVIOUS
  <2>1. PICK w \in waiting : Started(w)
    <3>1. PICK u \in waiting : TRUE
      OBVIOUS
    <3>2. PICK v \in waiting \ {u} : Wants(u) \cap Holds(v) # {}
      BY <1>1
    <3>3. v \in waiting /\ Holds(v) # {}
      <4> HIDE DEF Wants, Holds
      <4> QED  BY <3>2
    <3>4. v \in Workers
      BY <3>3
    <3> QED  BY <3>3, <3>4 DEF IInv, TransactionStands
  <2>2. Bootstraps(w)
    BY <2>1 DEF IInv, TransactionStands, CatalogIsEnsured
  <2>3. \A v \in Workers \ {w} : Holds(v) = {}
    BY <2>2, Alone
  <2>4. PICK v \in waiting \ {w} : Wants(w) \cap Holds(v) # {}
    BY <1>1
  <2> HIDE DEF Wants, Holds
  <2> QED  BY <2>3, <2>4
<1>3. ASSUME NEW w \in waiting PROVE ~Bootstraps(w) /\ LocksInOrder(w)
  BY <1>2 DEF IInv, TransactionStands, CatalogIsEnsured, Bootstraps, LocksAreOrdered
<1>4. ASSUME NEW w \in waiting PROVE step[w] \in {"ensured", "lock rows", "write project"}
  <2>1. Wants(w) # {}
    BY <1>1
  <2> QED  BY <1>2, <2>1, WantedRows DEF IInv, TypeOK, Steps
<1>5. ASSUME NEW w \in waiting
      PROVE  Holds(w) \cap Projects = {} /\ (step[w] = "ensured" => Holds(w) = {})
  BY <1>3, <1>4 DEF LocksInOrder, IInv, TypeOK
<1>6. ASSUME NEW w \in waiting PROVE step[w] # "write project"
  <2> SUFFICES ASSUME step[w] = "write project" PROVE FALSE
    OBVIOUS
  <2>1. Wants(w) \subseteq Projects
    <3>1. request[w] \in Requests /\ request[w].op \in ProjectOps
      BY DEF IInv, TypeOK, TransactionStands, Started, StepFits
    <3>2. request[w].project \in Projects
      BY <3>1, RequestFields
    <3>3. WantsExclusive(w) = {request[w].project} /\ WantsShare(w) = {}
      BY WantedRows
    <3> QED  BY <3>2, <3>3
  <2>2. PICK v \in waiting : Wants(w) \cap Holds(v) # {}
    BY <1>1
  <2>3. Holds(v) \cap Projects = {}
    BY <1>5
  <2> HIDE DEF Wants, Holds
  <2> QED  BY <2>1, <2>2, <2>3
<1> DEFINE Reordering == {w \in waiting : step[w] = "lock rows"}
           First(w) == CHOOSE s \in Statuses : s \in NextToLock(w)
<1>7. ASSUME NEW w \in waiting
      PROVE  \E v \in Reordering : Wants(w) \cap exclusive[v] # {}
  <2>1. PICK v \in waiting : Wants(w) \cap Holds(v) # {}
    BY <1>1
  <2>2. step[v] = "lock rows"
    <3>1. Holds(v) # {}
      BY <2>1
    <3> QED  BY <1>4, <1>5, <1>6, <3>1
  <2>3. Holds(v) = exclusive[v]
    BY <1>3, <2>2 DEF LocksInOrder
  <2> QED  BY <2>1, <2>2, <2>3
<1>8. ASSUME NEW w \in Reordering
      PROVE  First(w) \in NextToLock(w) /\ First(w) \in Statuses
  <2>1. Wants(w) = NextToLock(w)
    BY WantedRows
  <2>2. NextToLock(w) # {}
    <3>1. PICK v \in waiting \ {w} : Wants(w) \cap Holds(v) # {}
      BY <1>1
    <3>2. Wants(w) # {}
      <4> HIDE DEF Wants, Holds
      <4> QED  BY <3>1
    <3> QED  BY <2>1, <3>2
  <2>3. NextToLock(w) \subseteq Statuses
    BY DEF NextToLock, IInv, TypeOK
  <2> QED  BY <2>2, <2>3
<1> HIDE DEF First
<1>9. ASSUME NEW w \in Reordering
      PROVE  \E v \in Reordering : Rank[First(w)] < Rank[First(v)]
  <2>1. Wants(w) = NextToLock(w)
    BY WantedRows
  <2>2. PICK v \in Reordering : NextToLock(w) \cap exclusive[v] # {}
    BY <1>7, <2>1
  <2>3. PICK s \in NextToLock(w) : s \in exclusive[v]
    BY <2>2
  <2>4. Rank[First(w)] <= Rank[s]
    <3>1. First(w) \in NextToLock(w) /\ s \in pending[w]
      BY <1>8, <2>3 DEF NextToLock
    <3> QED  BY <3>1 DEF NextToLock
  <2>5. Rank[s] < Rank[First(v)]
    <3>1. First(v) \in pending[v]
      BY <1>8 DEF NextToLock
    <3> QED  BY <1>3, <2>3, <3>1 DEF LocksInOrder
  <2>6. Rank[First(w)] \in Nat /\ Rank[s] \in Nat /\ Rank[First(v)] \in Nat
    <3>1. s \in Statuses
      BY <2>3 DEF NextToLock, IInv, TypeOK
    <3> QED  BY <1>8, <3>1, RankAssumption
  <2> HIDE DEF Reordering
  <2> QED  BY <2>4, <2>5, <2>6
<1>10. Reordering # {} /\ IsFiniteSet(Reordering)
  BY <1>7, WorkersAssumption, FS_Subset
<1> DEFINE rank == [w \in Reordering |-> Rank[First(w)]]
<1>11. rank \in [Reordering -> Nat]
  BY <1>8, RankAssumption
<1>12. PICK w \in Reordering : \A v \in Reordering : rank[v] <= rank[w]
  <2> HIDE DEF Reordering, rank
  <2> QED  BY <1>10, <1>11, LastInOrder
<1>13. PICK v \in Reordering : Rank[First(w)] < Rank[First(v)]
  BY <1>9
<1>14. rank[v] <= rank[w] /\ rank[w] < rank[v] /\ rank[v] \in Nat /\ rank[w] \in Nat
  BY <1>11, <1>12, <1>13
<1> HIDE DEF rank, Reordering
<1> QED  BY <1>14

(***************************************************************************)
(* No set of status and project transactions waits for each other's rows,   *)
(* however many run, not even while they race to initialize the catalog.    *)
(***************************************************************************)
THEOREM StatusesDoNotDeadlock == Spec => []NoStatusDeadlock
<1>1. Init => LocksAreOrdered
  BY DEF Init, LocksAreOrdered, LocksInOrder
<1>2. Spec => []LocksAreOrdered
  BY <1>1, NextOrdered, StatusInvariance, PTL DEF Spec
<1> QED  BY <1>2, StatusInvariance, OrderExcludesDeadlock, PTL

=============================================================================
