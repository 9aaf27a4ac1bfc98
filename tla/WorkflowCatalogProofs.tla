------------------------ MODULE WorkflowCatalogProofs ------------------------
(***************************************************************************)
(* That row locks alone keep the workflow catalog consistent, proved for    *)
(* any number of workers, teams, states, issues and requests.               *)
(***************************************************************************)
EXTENDS WorkflowCatalog, FiniteSetTheorems, WellFoundedInduction, TLAPS

USE AbsentAssumption, CategoriesAssumption, RequestsAssumption

(***************************************************************************)
(* The fields each kind of request has, and their types.                    *)
(***************************************************************************)
LEMMA RequestFields ==
  ASSUME NEW r \in Requests
  PROVE  /\ r.op \in StateEdits \cup {"insert_workflow_state"} => r.state \in States
         /\ r.op = "archive_workflow_state" => r.archived \in BOOLEAN
         /\ r.op \notin {"archive_workflow_state", "update_issue"} => r.team \in Teams
         /\ r.op \in {"insert_workflow_state", "update_workflow_state"} =>
              r.category \in Categories
         /\ r.op = "insert_team" => r.catalog \in Catalogs
         /\ r.op = "update_team" => r.state \in States
         /\ r.op \in IssueOps => r.issue \in Issues
         /\ r.op \in IssueOps /\ r.state # TeamDefault => r.state \in States
<1>1. r \in Request
  OBVIOUS
<1> QED  BY <1>1 DEF Request, StateEdits, Retirements, IssueOps

LEMMA NoRequestIsRequest == NoRequest \in Requests
BY DEF NoRequest

(***************************************************************************)
(* The initial state satisfies the invariant.                               *)
(***************************************************************************)
LEMMA InitSafe == Init => IInv
<1> SUFFICES ASSUME Init PROVE IInv
  OBVIOUS
<1>1. TypeOK
  BY FirstAssumption, NoRequestIsRequest DEF Init, TypeOK, Steps
<1>2. DefaultsAreUsable /\ ReferencesAreUsable
  BY FirstAssumption DEF Init, DefaultsAreUsable, ReferencesAreUsable, Usable
<1>3. LocksExclude
  BY DEF Init, LocksExclude
<1>4. ASSUME NEW w \in Workers PROVE TransactionIsSafe(w)
  BY DEF Init, TransactionIsSafe, TeamIsRead, RetirementIsSafe, InsertionsAreSafe,
         DefaultIsHeld, ReferenceIsHeld, At
<1> QED  BY <1>1, <1>2, <1>3, <1>4 DEF IInv

(***************************************************************************)
(* A transaction's safety speaks of its own variables and of the database.  *)
(***************************************************************************)
LEMMA Untouched ==
  ASSUME NEW v \in Workers, TransactionIsSafe(v), UNCHANGED dbVars,
         step'[v] = step[v], request'[v] = request[v], team'[v] = team[v],
         pending'[v] = pending[v], exclusive'[v] = exclusive[v],
         shared'[v] = shared[v]
  PROVE  TransactionIsSafe(v)'
<1>1. TeamIsRead(v)'
  BY DEF TransactionIsSafe, TeamIsRead
<1>2. RetirementIsSafe(v)'
  <2>1. IsDefault(request[v].state)' = IsDefault(request[v].state)
    BY DEF dbVars, IsDefault
  <2>2. IsReferenced(request[v].state)' = IsReferenced(request[v].state)
    BY DEF dbVars, IsReferenced
  <2> QED  BY <2>1, <2>2 DEF TransactionIsSafe, RetirementIsSafe, dbVars
<1>3. InsertionsAreSafe(v)'
  BY DEF TransactionIsSafe, InsertionsAreSafe, At, dbVars
<1>4. DefaultIsHeld(v)'
  BY DEF TransactionIsSafe, DefaultIsHeld, dbVars, Usable
<1>5. ReferenceIsHeld(v)'
  BY DEF TransactionIsSafe, ReferenceIsHeld, dbVars, Usable
<1> QED  BY <1>1, <1>2, <1>3, <1>4, <1>5 DEF TransactionIsSafe

(***************************************************************************)
(* A commit that writes only rows it has locked for update, and points only *)
(* at states it has locked, leaves every other transaction's checks true.   *)
(***************************************************************************)
LEMMA CommitKeepsOthers ==
  ASSUME IInv, NEW w \in Workers, NEW v \in Workers, v # w,
         EndTransaction(w),
         \A s \in States : states'[s] # states[s] => s \in exclusive[w],
         \A i \in Issues : issues'[i] # issues[i] =>
           /\ i \in exclusive[w]
           /\ issues'[i].state \in exclusive[w] \cup shared[w],
         \A t \in Teams : teams'[t] # teams[t] =>
           teams'[t] \in exclusive[w] \cup shared[w]
  PROVE  TransactionIsSafe(v)'
<1>1. /\ step'[v] = step[v] /\ request'[v] = request[v] /\ team'[v] = team[v]
      /\ pending'[v] = pending[v] /\ exclusive'[v] = exclusive[v] /\ shared'[v] = shared[v]
  BY DEF IInv, TypeOK, EndTransaction, Goto
<1>2. TransactionIsSafe(v) /\ request[v] \in Requests
  BY DEF IInv, TypeOK
<1>3. \A row : row \in exclusive[v] => row \notin exclusive[w] \cup shared[w]
  BY DEF IInv, LocksExclude
<1>4. \A row : row \in shared[v] => row \notin exclusive[w]
  BY DEF IInv, LocksExclude
<1>5. \A s \in States : s \in exclusive[v] \cup shared[v] => states'[s] = states[s]
  BY <1>3, <1>4
<1>6. \A s \in States : s \in exclusive[v] =>
        (~IsDefault(s) => ~IsDefault(s)') /\ (~IsReferenced(s) => ~IsReferenced(s)')
  BY <1>3 DEF IsDefault, IsReferenced
<1>7. TeamIsRead(v)'
  BY <1>1, <1>2 DEF TransactionIsSafe, TeamIsRead
<1>8. RetirementIsSafe(v)'
  <2> SUFFICES ASSUME request[v].op \in Retirements,
                      step[v] \in {"check default", "check references", "ready"}
               PROVE  RetirementIsSafe(v)'
    BY <1>1 DEF RetirementIsSafe
  <2>1. request[v].state \in States
    BY <1>2, RequestFields DEF StateEdits
  <2>2. request[v].state \in exclusive[v] /\ RetirementIsSafe(v)
    BY <1>2 DEF TransactionIsSafe, RetirementIsSafe
  <2> QED  BY <1>1, <1>5, <1>6, <2>1, <2>2 DEF RetirementIsSafe
<1>9. InsertionsAreSafe(v)'
  <2>1. CASE At(v, "ready", {"insert_workflow_state"})
    <3>1. request[v].state \in States
      BY <1>2, <2>1, RequestFields DEF At
    <3> QED  BY <1>1, <1>2, <1>5, <2>1, <3>1 DEF TransactionIsSafe, InsertionsAreSafe, At
  <2>2. CASE At(v, "ready", {"insert_team"})
    <3>1. request[v].catalog \in Catalogs
      BY <1>2, <2>2, RequestFields DEF At
    <3>2. Range(request[v].catalog) \subseteq States
      BY <3>1 DEF Catalogs, Range
    <3> QED  BY <1>1, <1>2, <1>5, <2>2, <3>2 DEF TransactionIsSafe, InsertionsAreSafe, At
  <2> QED  BY <1>1, <2>1, <2>2 DEF InsertionsAreSafe, At
<1>10. DefaultIsHeld(v)'
  <2> SUFFICES ASSUME request[v].op = "update_team", step[v] \in {"update team", "ready"}
               PROVE  DefaultIsHeld(v)'
    BY <1>1 DEF DefaultIsHeld
  <2>1. request[v].state \in States
    BY <1>2, RequestFields
  <2> QED  BY <1>1, <1>2, <1>5, <2>1 DEF TransactionIsSafe, DefaultIsHeld, Usable
<1>11. ReferenceIsHeld(v)'
  <2> SUFFICES ASSUME request[v].op \in IssueOps
               PROVE  ReferenceIsHeld(v)'
    BY <1>1 DEF ReferenceIsHeld
  <2>1. request[v].issue \in Issues /\ pending[v] \subseteq States
    BY <1>2, RequestFields DEF IInv, TypeOK
  <2>2. ReferenceIsHeld(v)
    BY <1>2 DEF TransactionIsSafe
  <2>3. step[v] = "ready" => issues'[request[v].issue] = issues[request[v].issue]
    BY <1>3, <2>1, <2>2 DEF ReferenceIsHeld
  <2> QED  BY <1>1, <1>5, <2>1, <2>2, <2>3 DEF ReferenceIsHeld, Usable
<1> QED  BY <1>7, <1>8, <1>9, <1>10, <1>11 DEF TransactionIsSafe

(***************************************************************************)
(* Ending a transaction releases its locks and leaves nothing to check.     *)
(***************************************************************************)
LEMMA EndedIsSafe ==
  ASSUME IInv, NEW w \in Workers, EndTransaction(w)
  PROVE  /\ TransactionIsSafe(w)'
         /\ LocksExclude'
         /\ step' \in [Workers -> Steps] /\ request' \in [Workers -> Requests]
         /\ team' \in [Workers -> Teams \cup {Absent}]
         /\ pending' \in [Workers -> SUBSET States]
         /\ exclusive' \in [Workers -> SUBSET (Teams \cup States \cup Issues)]
         /\ shared' \in [Workers -> SUBSET States]
<1>1. step'[w] = "idle"
  BY DEF IInv, TypeOK, EndTransaction, Goto
<1>2. TransactionIsSafe(w)'
  BY <1>1 DEF TransactionIsSafe, TeamIsRead, RetirementIsSafe, InsertionsAreSafe,
              DefaultIsHeld, ReferenceIsHeld, At
<1>3. LocksExclude'
  BY DEF IInv, TypeOK, EndTransaction, LocksExclude
<1>4. step' \in [Workers -> Steps] /\ request' \in [Workers -> Requests]
  BY NoRequestIsRequest DEF IInv, TypeOK, EndTransaction, Goto, Steps
<1> QED  BY <1>2, <1>3, <1>4 DEF IInv, TypeOK, EndTransaction

WorkersTyped ==
  /\ step \in [Workers -> Steps] /\ request \in [Workers -> Requests]
  /\ team \in [Workers -> Teams \cup {Absent}]
  /\ pending \in [Workers -> SUBSET States]
  /\ exclusive \in [Workers -> SUBSET (Teams \cup States \cup Issues)]
  /\ shared \in [Workers -> SUBSET States]

OnlyMoves(w) ==
  \A v \in Workers \ {w} :
    /\ step'[v] = step[v] /\ request'[v] = request[v] /\ team'[v] = team[v]
    /\ pending'[v] = pending[v] /\ exclusive'[v] = exclusive[v] /\ shared'[v] = shared[v]

(***************************************************************************)
(* A statement that writes nothing yet preserves the invariant if the locks *)
(* it takes are free and its own transaction stays safe.                    *)
(***************************************************************************)
LEMMA StatementKeepsInvariant ==
  ASSUME IInv, NEW w \in Workers, UNCHANGED dbVars, WorkersTyped', OnlyMoves(w),
         \A v \in Workers \ {w} :
           /\ exclusive'[w] \cap (exclusive[v] \cup shared[v]) = {}
           /\ shared'[w] \cap exclusive[v] = {},
         TransactionIsSafe(w)'
  PROVE  IInv'
<1>1. TypeOK'
  BY DEF IInv, TypeOK, WorkersTyped, dbVars
<1>2. LocksExclude'
  BY DEF IInv, LocksExclude, OnlyMoves
<1>3. DefaultsAreUsable' /\ ReferencesAreUsable'
  BY DEF IInv, DefaultsAreUsable, ReferencesAreUsable, Usable, dbVars
<1>4. ASSUME NEW v \in Workers PROVE TransactionIsSafe(v)'
  <2>1. CASE v = w
    BY <2>1
  <2>2. CASE v # w
    BY <2>2, Untouched DEF OnlyMoves, IInv
  <2> QED  BY <2>1, <2>2
<1> QED  BY <1>1, <1>2, <1>3, <1>4 DEF IInv

\* One lock more, granted because nobody else holds it.
LEMMA LockIsExclusive ==
  ASSUME IInv, NEW w \in Workers, NEW row \in Teams \cup States \cup Issues, Lock(w, row)
  PROVE  /\ exclusive' \in [Workers -> SUBSET (Teams \cup States \cup Issues)]
         /\ row \in exclusive'[w] /\ exclusive[w] \subseteq exclusive'[w]
         /\ \A v \in Workers \ {w} :
              /\ exclusive'[v] = exclusive[v]
              /\ exclusive'[w] \cap (exclusive[v] \cup shared[v]) = {}
BY DEF IInv, TypeOK, LocksExclude, Lock, CanLock

LEMMA HeldLocksExclude ==
  ASSUME IInv, NEW w \in Workers
  PROVE  \A v \in Workers \ {w} :
           /\ exclusive[w] \cap (exclusive[v] \cup shared[v]) = {}
           /\ shared[w] \cap exclusive[v] = {}
BY DEF IInv, LocksExclude

(***************************************************************************)
(* Statements: one lemma per action that publishes nothing.                 *)
(***************************************************************************)
LEMMA BeginSafe ==
  ASSUME IInv, NEW w \in Workers, NEW r \in Requests, Begin(w, r)
  PROVE  IInv'
<1>1. ReadTeam(r) \in Teams \cup {Absent}
      /\ (r.op # "archive_workflow_state" => ReadTeam(r) \in Teams)
  <2>1. CASE r.op = "update_issue"
    <3>1. r.issue \in Issues /\ issues[r.issue] # Absent
      BY <2>1, RequestFields DEF Begin, Precheck, IssueOps
    <3>2. issues[r.issue] \in IssueRow
      BY <3>1 DEF IInv, TypeOK
    <3> QED  BY <2>1, <3>2 DEF ReadTeam, IssueRow
  <2>2. CASE r.op # "update_issue"
    BY <2>2, RequestFields DEF ReadTeam
  <2> QED  BY <2>1, <2>2
<1>2. WorkersTyped' /\ OnlyMoves(w)
  BY <1>1 DEF IInv, TypeOK, WorkersTyped, OnlyMoves, Begin, Goto, Steps
<1>3. step'[w] = "begun" /\ request'[w] = r /\ team'[w] = ReadTeam(r)
  BY DEF IInv, TypeOK, Begin, Goto
<1>4. TransactionIsSafe(w)'
  BY <1>1, <1>3 DEF TransactionIsSafe, TeamIsRead, RetirementIsSafe, InsertionsAreSafe,
                    DefaultIsHeld, ReferenceIsHeld, At
<1> QED  BY <1>2, <1>4, HeldLocksExclude, StatementKeepsInvariant DEF Begin

LEMMA LockStateSafe ==
  ASSUME IInv, NEW w \in Workers, LockState(w)
  PROVE  IInv'
<1>1. request[w].op \in StateEdits /\ request[w].state \in States
  BY RequestFields DEF IInv, TypeOK, LockState, At
<1>2. /\ request' = request /\ team' = team /\ pending' = pending /\ shared' = shared
      /\ UNCHANGED dbVars /\ step[w] = "begun" /\ states[request[w].state] # Absent
  BY DEF LockState, At
<1>3. /\ exclusive' \in [Workers -> SUBSET (Teams \cup States \cup Issues)]
      /\ request[w].state \in exclusive'[w]
      /\ \A v \in Workers \ {w} : /\ exclusive'[v] = exclusive[v]
                                  /\ exclusive'[w] \cap (exclusive[v] \cup shared[v]) = {}
  <2>1. Lock(w, request[w].state)
    BY DEF LockState
  <2> QED  BY <1>1, <2>1, LockIsExclusive
<1> DEFINE st == IF \/ request[w].op = "update_workflow_state"
                    \/ request[w].op = "archive_workflow_state" /\ ~request[w].archived
                THEN "ready" ELSE "check default"
<1>4. /\ step' = [step EXCEPT ![w] = st]
      /\ st \in {"ready", "check default"}
      /\ request[w].op \in Retirements /\ st = "ready" =>
           request[w].op = "archive_workflow_state" /\ ~request[w].archived
  <2>1. step' = [step EXCEPT ![w] = st]
    BY DEF LockState, Goto
  <2>2. st \in {"ready", "check default"}
    OBVIOUS
  <2>3. request[w].op \in Retirements /\ st = "ready" =>
           request[w].op = "archive_workflow_state" /\ ~request[w].archived
    BY DEF Retirements
  <2> QED  BY <2>1, <2>2, <2>3
<1> HIDE DEF st
<1>5. step' \in [Workers -> Steps] /\ step'[w] = st
      /\ \A v \in Workers \ {w} : step'[v] = step[v]
  BY <1>4 DEF IInv, TypeOK, Steps
<1>6. WorkersTyped' /\ OnlyMoves(w)
  BY <1>2, <1>3, <1>5 DEF IInv, TypeOK, WorkersTyped, OnlyMoves
<1>7. TeamIsRead(w)'
  BY <1>2 DEF IInv, TransactionIsSafe, TeamIsRead
<1>8. RetirementIsSafe(w)'
  BY <1>2, <1>3, <1>4, <1>5 DEF RetirementIsSafe, dbVars
<1>9. InsertionsAreSafe(w)' /\ DefaultIsHeld(w)' /\ ReferenceIsHeld(w)'
  BY <1>1, <1>2 DEF InsertionsAreSafe, DefaultIsHeld, ReferenceIsHeld, At,
                    StateEdits, Retirements, IssueOps
<1>10. TransactionIsSafe(w)'
  BY <1>7, <1>8, <1>9 DEF TransactionIsSafe
<1> QED
  BY <1>2, <1>3, <1>6, <1>10, HeldLocksExclude, StatementKeepsInvariant

LEMMA GotoMoves ==
  ASSUME IInv, NEW w \in Workers, NEW st \in Steps, Goto(w, st)
  PROVE  /\ step' \in [Workers -> Steps] /\ step'[w] = st
         /\ \A v \in Workers \ {w} : step'[v] = step[v]
BY DEF IInv, TypeOK, Goto

LEMMA CheckDefaultSafe ==
  ASSUME IInv, NEW w \in Workers, CheckDefault(w)
  PROVE  IInv'
<1>1. /\ request[w].op \in Retirements /\ step[w] = "check default"
      /\ ~IsDefault(request[w].state) /\ Goto(w, "check references")
      /\ UNCHANGED <<dbVars, request, team, pending, exclusive, shared>>
  BY DEF CheckDefault, At
<1>2. step' \in [Workers -> Steps] /\ step'[w] = "check references"
      /\ \A v \in Workers \ {w} : step'[v] = step[v]
  BY <1>1, GotoMoves DEF Steps
<1>3. WorkersTyped' /\ OnlyMoves(w)
  BY <1>1, <1>2 DEF IInv, TypeOK, WorkersTyped, OnlyMoves
<1>4. TeamIsRead(w)' /\ InsertionsAreSafe(w)' /\ DefaultIsHeld(w)' /\ ReferenceIsHeld(w)'
  BY <1>1, <1>2 DEF IInv, TransactionIsSafe, TeamIsRead, InsertionsAreSafe, DefaultIsHeld,
                    ReferenceIsHeld, At, Retirements, IssueOps
<1>5. RetirementIsSafe(w)'
  BY <1>1, <1>2 DEF IInv, TransactionIsSafe, RetirementIsSafe, dbVars, IsDefault
<1> QED
  BY <1>1, <1>3, <1>4, <1>5, HeldLocksExclude, StatementKeepsInvariant
     DEF TransactionIsSafe

LEMMA CheckReferencesSafe ==
  ASSUME IInv, NEW w \in Workers, CheckReferences(w)
  PROVE  IInv'
<1>1. /\ request[w].op \in Retirements /\ step[w] = "check references"
      /\ ~IsReferenced(request[w].state) /\ Goto(w, "ready")
      /\ UNCHANGED <<dbVars, request, team, pending, exclusive, shared>>
  BY DEF CheckReferences, At
<1>2. step' \in [Workers -> Steps] /\ step'[w] = "ready"
      /\ \A v \in Workers \ {w} : step'[v] = step[v]
  BY <1>1, GotoMoves DEF Steps
<1>3. WorkersTyped' /\ OnlyMoves(w)
  BY <1>1, <1>2 DEF IInv, TypeOK, WorkersTyped, OnlyMoves
<1>4. TeamIsRead(w)' /\ InsertionsAreSafe(w)' /\ DefaultIsHeld(w)' /\ ReferenceIsHeld(w)'
  BY <1>1, <1>2 DEF IInv, TransactionIsSafe, TeamIsRead, InsertionsAreSafe, DefaultIsHeld,
                    ReferenceIsHeld, At, Retirements, IssueOps
<1>5. RetirementIsSafe(w)'
  BY <1>1, <1>2 DEF IInv, TransactionIsSafe, RetirementIsSafe, dbVars, IsDefault, IsReferenced
<1> QED
  BY <1>1, <1>3, <1>4, <1>5, HeldLocksExclude, StatementKeepsInvariant
     DEF TransactionIsSafe

LEMMA InsertStateSafe ==
  ASSUME IInv, NEW w \in Workers, InsertState(w)
  PROVE  IInv'
<1>1. /\ request[w].op = "insert_workflow_state" /\ step[w] = "begun"
      /\ Lock(w, request[w].state) /\ states[request[w].state] = Absent /\ Goto(w, "ready")
      /\ UNCHANGED <<dbVars, request, team, pending, shared>>
  BY DEF InsertState, At
<1>2. request[w].state \in States
  BY <1>1, RequestFields DEF IInv, TypeOK
<1>3. /\ exclusive' \in [Workers -> SUBSET (Teams \cup States \cup Issues)]
      /\ request[w].state \in exclusive'[w]
      /\ \A v \in Workers \ {w} : /\ exclusive'[v] = exclusive[v]
                                  /\ exclusive'[w] \cap (exclusive[v] \cup shared[v]) = {}
  BY <1>1, <1>2, LockIsExclusive
<1>4. step' \in [Workers -> Steps] /\ step'[w] = "ready"
      /\ \A v \in Workers \ {w} : step'[v] = step[v]
  BY <1>1, GotoMoves DEF Steps
<1>5. WorkersTyped' /\ OnlyMoves(w)
  BY <1>1, <1>3, <1>4 DEF IInv, TypeOK, WorkersTyped, OnlyMoves
<1>6. TransactionIsSafe(w)'
  BY <1>1, <1>3, <1>4
     DEF IInv, TransactionIsSafe, TeamIsRead, RetirementIsSafe, InsertionsAreSafe,
         DefaultIsHeld, ReferenceIsHeld, At, Retirements, IssueOps, dbVars
<1> QED
  BY <1>1, <1>3, <1>5, <1>6, HeldLocksExclude, StatementKeepsInvariant

LEMMA ReorderSelectSafe ==
  ASSUME IInv, NEW w \in Workers, ReorderSelect(w)
  PROVE  IInv'
<1>1. /\ request[w].op = "reorder_workflow_states" /\ step[w] = "begun"
      /\ pending' = [pending EXCEPT ![w] = ActiveStates(team[w])]
      /\ Goto(w, "lock rows")
      /\ UNCHANGED <<dbVars, request, team, exclusive, shared>>
  BY DEF ReorderSelect, At
<1>2. step' \in [Workers -> Steps] /\ step'[w] = "lock rows"
      /\ \A v \in Workers \ {w} : step'[v] = step[v]
  BY <1>1, GotoMoves DEF Steps
<1>3. ActiveStates(team[w]) \subseteq States
  BY DEF ActiveStates
<1>4. WorkersTyped' /\ OnlyMoves(w)
  BY <1>1, <1>2, <1>3 DEF IInv, TypeOK, WorkersTyped, OnlyMoves
<1>5. TransactionIsSafe(w)'
  BY <1>1, <1>2
     DEF IInv, TransactionIsSafe, TeamIsRead, RetirementIsSafe, InsertionsAreSafe,
         DefaultIsHeld, ReferenceIsHeld, At, Retirements, IssueOps
<1> QED
  BY <1>1, <1>4, <1>5, HeldLocksExclude, StatementKeepsInvariant

LEMMA ReorderLockSafe ==
  ASSUME IInv, NEW w \in Workers, NEW s \in States, ReorderLock(w, s)
  PROVE  IInv'
<1>1. /\ request[w].op = "reorder_workflow_states" /\ step[w] = "lock rows"
      /\ Lock(w, s) /\ pending' = [pending EXCEPT ![w] = @ \ {s}]
      /\ Goto(w, IF pending[w] = {s} THEN "ready" ELSE "lock rows")
      /\ UNCHANGED <<dbVars, request, team, shared>>
  BY DEF ReorderLock, At
<1>2. step' \in [Workers -> Steps] /\ step'[w] \in {"ready", "lock rows"}
      /\ \A v \in Workers \ {w} : step'[v] = step[v]
  BY <1>1 DEF IInv, TypeOK, Goto, Steps
<1>3. /\ exclusive' \in [Workers -> SUBSET (Teams \cup States \cup Issues)]
      /\ \A v \in Workers \ {w} : /\ exclusive'[v] = exclusive[v]
                                  /\ exclusive'[w] \cap (exclusive[v] \cup shared[v]) = {}
  BY <1>1, LockIsExclusive
<1>4. WorkersTyped' /\ OnlyMoves(w)
  BY <1>1, <1>2, <1>3 DEF IInv, TypeOK, WorkersTyped, OnlyMoves
<1>5. TransactionIsSafe(w)'
  BY <1>1, <1>2
     DEF IInv, TransactionIsSafe, TeamIsRead, RetirementIsSafe, InsertionsAreSafe,
         DefaultIsHeld, ReferenceIsHeld, At, Retirements, IssueOps
<1> QED
  BY <1>1, <1>3, <1>4, <1>5, HeldLocksExclude, StatementKeepsInvariant

\* One key-share lock more, granted because nobody holds the row for update.
LEMMA LockIsShared ==
  ASSUME IInv, NEW w \in Workers, NEW s \in States, CanShare(w, s),
         shared' = [shared EXCEPT ![w] = @ \cup {s}]
  PROVE  /\ shared' \in [Workers -> SUBSET States]
         /\ s \in shared'[w] /\ shared[w] \subseteq shared'[w]
         /\ \A v \in Workers \ {w} : /\ shared'[v] = shared[v]
                                     /\ shared'[w] \cap exclusive[v] = {}
BY DEF IInv, TypeOK, LocksExclude, CanShare

LEMMA ShareDefaultSafe ==
  ASSUME IInv, NEW w \in Workers, ShareDefault(w)
  PROVE  IInv'
<1>1. /\ request[w].op = "update_team" /\ step[w] = "begun"
      /\ CanShare(w, request[w].state)
      /\ shared' = [shared EXCEPT ![w] = @ \cup {request[w].state}]
      /\ Usable(states, team[w], request[w].state)
      /\ states[request[w].state].category = Unstarted
      /\ Goto(w, "update team")
      /\ UNCHANGED <<dbVars, request, team, pending, exclusive>>
  BY DEF ShareDefault, At
<1>2. request[w].state \in States
  BY <1>1, RequestFields DEF IInv, TypeOK
<1>3. /\ shared' \in [Workers -> SUBSET States] /\ request[w].state \in shared'[w]
      /\ \A v \in Workers \ {w} : /\ shared'[v] = shared[v]
                                  /\ shared'[w] \cap exclusive[v] = {}
  BY <1>1, <1>2, LockIsShared
<1>4. step' \in [Workers -> Steps] /\ step'[w] = "update team"
      /\ \A v \in Workers \ {w} : step'[v] = step[v]
  BY <1>1, GotoMoves DEF Steps
<1>5. WorkersTyped' /\ OnlyMoves(w)
  BY <1>1, <1>3, <1>4 DEF IInv, TypeOK, WorkersTyped, OnlyMoves
<1>6. TransactionIsSafe(w)'
  BY <1>1, <1>3, <1>4
     DEF IInv, TransactionIsSafe, TeamIsRead, RetirementIsSafe, InsertionsAreSafe,
         DefaultIsHeld, ReferenceIsHeld, At, Retirements, IssueOps, dbVars, Usable
<1> QED
  BY <1>1, <1>3, <1>5, <1>6, HeldLocksExclude, StatementKeepsInvariant

LEMMA UpdateTeamSafe ==
  ASSUME IInv, NEW w \in Workers, UpdateTeam(w)
  PROVE  IInv'
<1>1. /\ request[w].op = "update_team" /\ step[w] = "update team"
      /\ Lock(w, team[w]) /\ Goto(w, "ready")
      /\ UNCHANGED <<dbVars, request, team, pending, shared>>
  BY DEF UpdateTeam, At
<1>2. team[w] \in Teams
  BY <1>1 DEF IInv, TransactionIsSafe, TeamIsRead
<1>3. /\ exclusive' \in [Workers -> SUBSET (Teams \cup States \cup Issues)]
      /\ \A v \in Workers \ {w} : /\ exclusive'[v] = exclusive[v]
                                  /\ exclusive'[w] \cap (exclusive[v] \cup shared[v]) = {}
  BY <1>1, <1>2, LockIsExclusive
<1>4. step' \in [Workers -> Steps] /\ step'[w] = "ready"
      /\ \A v \in Workers \ {w} : step'[v] = step[v]
  BY <1>1, GotoMoves DEF Steps
<1>5. WorkersTyped' /\ OnlyMoves(w)
  BY <1>1, <1>3, <1>4 DEF IInv, TypeOK, WorkersTyped, OnlyMoves
<1>6. TransactionIsSafe(w)'
  BY <1>1, <1>4
     DEF IInv, TransactionIsSafe, TeamIsRead, RetirementIsSafe, InsertionsAreSafe,
         DefaultIsHeld, ReferenceIsHeld, At, Retirements, IssueOps, dbVars, Usable
<1> QED
  BY <1>1, <1>3, <1>5, <1>6, HeldLocksExclude, StatementKeepsInvariant

LEMMA InsertTeamSafe ==
  ASSUME IInv, NEW w \in Workers, InsertTeam(w)
  PROVE  IInv'
<1> DEFINE fresh == Range(request[w].catalog)
<1>1. /\ request[w].op = "insert_team" /\ step[w] = "begun"
      /\ \A s \in fresh : states[s] = Absent
      /\ \A row \in fresh \cup {team[w]} : CanLock(w, row)
      /\ exclusive' = [exclusive EXCEPT ![w] = fresh \cup {team[w]}]
      /\ Goto(w, "ready")
      /\ UNCHANGED <<dbVars, request, team, pending, shared>>
  BY DEF InsertTeam, At
<1>2. fresh \subseteq States
  <2>1. request[w].catalog \in Catalogs
    BY <1>1, RequestFields DEF IInv, TypeOK
  <2> QED  BY <2>1 DEF Catalogs, Range
<1>3. team[w] \in Teams
  BY <1>1 DEF IInv, TransactionIsSafe, TeamIsRead
<1> HIDE DEF fresh
<1>4. /\ exclusive' \in [Workers -> SUBSET (Teams \cup States \cup Issues)]
      /\ exclusive'[w] = fresh \cup {team[w]}
      /\ \A v \in Workers \ {w} : /\ exclusive'[v] = exclusive[v]
                                  /\ exclusive'[w] \cap (exclusive[v] \cup shared[v]) = {}
  BY <1>1, <1>2, <1>3 DEF IInv, TypeOK, CanLock
<1>5. step' \in [Workers -> Steps] /\ step'[w] = "ready"
      /\ \A v \in Workers \ {w} : step'[v] = step[v]
  BY <1>1, GotoMoves DEF Steps
<1>6. WorkersTyped' /\ OnlyMoves(w)
  BY <1>1, <1>4, <1>5 DEF IInv, TypeOK, WorkersTyped, OnlyMoves
<1>7. InsertionsAreSafe(w)'
  BY <1>1, <1>4 DEF InsertionsAreSafe, At, dbVars, fresh
<1>8. TeamIsRead(w)' /\ RetirementIsSafe(w)' /\ DefaultIsHeld(w)' /\ ReferenceIsHeld(w)'
  BY <1>1, <1>3 DEF TeamIsRead, RetirementIsSafe, DefaultIsHeld, ReferenceIsHeld,
                    Retirements, IssueOps
<1> QED
  BY <1>1, <1>4, <1>6, <1>7, <1>8, HeldLocksExclude, StatementKeepsInvariant
     DEF TransactionIsSafe

LEMMA ResolveStateSafe ==
  ASSUME IInv, NEW w \in Workers, ResolveState(w)
  PROVE  IInv'
<1>1. /\ request[w].op \in IssueOps /\ step[w] = "begun"
      /\ Goto(w, "share state")
      /\ UNCHANGED <<dbVars, request, team, exclusive, shared>>
  BY DEF ResolveState, At
<1>2. PICK s : /\ s = IF request[w].state = TeamDefault THEN teams[team[w]]
                                                        ELSE request[w].state
               /\ pending' = [pending EXCEPT ![w] = {s}]
  BY DEF ResolveState
<1>3. s \in States
  <2>1. team[w] \in Teams /\ teams[team[w]] \in States
    BY <1>1 DEF IInv, TypeOK, TransactionIsSafe, TeamIsRead, IssueOps, ResolveState
  <2> QED  BY <1>1, <1>2, <2>1, RequestFields DEF IInv, TypeOK
<1>4. step' \in [Workers -> Steps] /\ step'[w] = "share state"
      /\ \A v \in Workers \ {w} : step'[v] = step[v]
  BY <1>1, GotoMoves DEF Steps
<1>5. WorkersTyped' /\ OnlyMoves(w)
  BY <1>1, <1>2, <1>3, <1>4 DEF IInv, TypeOK, WorkersTyped, OnlyMoves
<1>6. TransactionIsSafe(w)'
  <2>1. \A r, q \in pending'[w] : r = q
    BY <1>2 DEF IInv, TypeOK
  <2> QED  BY <1>1, <1>4, <2>1
     DEF IInv, TransactionIsSafe, TeamIsRead, RetirementIsSafe, InsertionsAreSafe,
         DefaultIsHeld, ReferenceIsHeld, At, Retirements, IssueOps
<1> QED
  BY <1>1, <1>5, <1>6, HeldLocksExclude, StatementKeepsInvariant

LEMMA ShareStateSafe ==
  ASSUME IInv, NEW w \in Workers, NEW s \in States, ShareState(w, s)
  PROVE  IInv'
<1>1. /\ request[w].op \in IssueOps /\ step[w] = "share state"
      /\ s \in pending[w] /\ CanShare(w, s) /\ Usable(states, team[w], s)
      /\ shared' = [shared EXCEPT ![w] = @ \cup {s}]
      /\ Goto(w, IF request[w].op = "update_issue" THEN "write issue" ELSE "bump counter")
      /\ UNCHANGED <<dbVars, request, team, pending, exclusive>>
  BY DEF ShareState, At
<1>2. /\ shared' \in [Workers -> SUBSET States] /\ s \in shared'[w]
      /\ \A v \in Workers \ {w} : /\ shared'[v] = shared[v]
                                  /\ shared'[w] \cap exclusive[v] = {}
  BY <1>1, LockIsShared
<1>3. step' \in [Workers -> Steps] /\ step'[w] \in {"write issue", "bump counter"}
      /\ \A v \in Workers \ {w} : step'[v] = step[v]
  BY <1>1 DEF IInv, TypeOK, Goto, Steps
<1>4. WorkersTyped' /\ OnlyMoves(w)
  BY <1>1, <1>2, <1>3 DEF IInv, TypeOK, WorkersTyped, OnlyMoves
<1>5. \A r \in pending[w] : r = s
  BY <1>1 DEF IInv, TransactionIsSafe, ReferenceIsHeld
<1>6. ReferenceIsHeld(w)'
  BY <1>1, <1>2, <1>3, <1>5 DEF ReferenceIsHeld, Usable, dbVars
<1>7. TeamIsRead(w)' /\ RetirementIsSafe(w)' /\ InsertionsAreSafe(w)' /\ DefaultIsHeld(w)'
  BY <1>1, <1>3
     DEF IInv, TransactionIsSafe, TeamIsRead, RetirementIsSafe, InsertionsAreSafe,
         DefaultIsHeld, At, Retirements, IssueOps
<1> QED
  BY <1>1, <1>2, <1>4, <1>6, <1>7, HeldLocksExclude, StatementKeepsInvariant
     DEF TransactionIsSafe

LEMMA BumpCounterSafe ==
  ASSUME IInv, NEW w \in Workers, BumpCounter(w)
  PROVE  IInv'
<1>1. /\ request[w].op \in {"create_issue", "move_issue"} /\ step[w] = "bump counter"
      /\ Lock(w, team[w]) /\ Goto(w, "write issue")
      /\ UNCHANGED <<dbVars, request, team, pending, shared>>
  BY DEF BumpCounter, At
<1>2. team[w] \in Teams
  BY <1>1 DEF IInv, TransactionIsSafe, TeamIsRead
<1>3. /\ exclusive' \in [Workers -> SUBSET (Teams \cup States \cup Issues)]
      /\ \A v \in Workers \ {w} : /\ exclusive'[v] = exclusive[v]
                                  /\ exclusive'[w] \cap (exclusive[v] \cup shared[v]) = {}
  BY <1>1, <1>2, LockIsExclusive
<1>4. step' \in [Workers -> Steps] /\ step'[w] = "write issue"
      /\ \A v \in Workers \ {w} : step'[v] = step[v]
  BY <1>1, GotoMoves DEF Steps
<1>5. WorkersTyped' /\ OnlyMoves(w)
  BY <1>1, <1>3, <1>4 DEF IInv, TypeOK, WorkersTyped, OnlyMoves
<1>6. TransactionIsSafe(w)'
  BY <1>1, <1>4
     DEF IInv, TransactionIsSafe, TeamIsRead, RetirementIsSafe, InsertionsAreSafe,
         DefaultIsHeld, ReferenceIsHeld, At, Retirements, IssueOps, dbVars, Usable
<1> QED
  BY <1>1, <1>3, <1>5, <1>6, HeldLocksExclude, StatementKeepsInvariant

LEMMA WriteIssueSafe ==
  ASSUME IInv, NEW w \in Workers, WriteIssue(w)
  PROVE  IInv'
<1>1. /\ request[w].op \in IssueOps /\ step[w] = "write issue"
      /\ Lock(w, request[w].issue) /\ Goto(w, "ready")
      /\ (request[w].op = "create_issue") <=> (issues[request[w].issue] = Absent)
      /\ request[w].op = "update_issue" => issues[request[w].issue].team = team[w]
      /\ UNCHANGED <<dbVars, request, team, pending, shared>>
  BY DEF WriteIssue, At
<1>2. request[w].issue \in Issues
  BY <1>1, RequestFields DEF IInv, TypeOK
<1>3. /\ exclusive' \in [Workers -> SUBSET (Teams \cup States \cup Issues)]
      /\ request[w].issue \in exclusive'[w]
      /\ \A v \in Workers \ {w} : /\ exclusive'[v] = exclusive[v]
                                  /\ exclusive'[w] \cap (exclusive[v] \cup shared[v]) = {}
  <2>1. Lock(w, request[w].issue)
    BY <1>1
  <2> QED  BY <1>2, <2>1, LockIsExclusive
<1>4. step' \in [Workers -> Steps] /\ step'[w] = "ready"
      /\ \A v \in Workers \ {w} : step'[v] = step[v]
  BY <1>1, GotoMoves DEF Steps
<1>5. WorkersTyped' /\ OnlyMoves(w)
  BY <1>1, <1>3, <1>4 DEF IInv, TypeOK, WorkersTyped, OnlyMoves
<1>6. ReferenceIsHeld(w)'
  BY <1>1, <1>3, <1>4 DEF IInv, TransactionIsSafe, ReferenceIsHeld, Usable, dbVars
<1>7. TeamIsRead(w)' /\ RetirementIsSafe(w)' /\ InsertionsAreSafe(w)' /\ DefaultIsHeld(w)'
  BY <1>1, <1>4
     DEF IInv, TransactionIsSafe, TeamIsRead, RetirementIsSafe, InsertionsAreSafe,
         DefaultIsHeld, At, Retirements, IssueOps
<1> QED
  BY <1>1, <1>3, <1>5, <1>6, <1>7, HeldLocksExclude, StatementKeepsInvariant
     DEF TransactionIsSafe

(***************************************************************************)
(* Commits: each publishes rows its transaction has locked.                 *)
(***************************************************************************)
LEMMA UnwrittenSafe ==
  ASSUME IInv, NEW w \in Workers, EndTransaction(w), UNCHANGED dbVars
  PROVE  IInv'
<1>1. DefaultsAreUsable' /\ ReferencesAreUsable' /\ TypeOK'
  BY EndedIsSafe DEF IInv, TypeOK, DefaultsAreUsable, ReferencesAreUsable, Usable, dbVars
<1>2. ASSUME NEW v \in Workers, v # w PROVE TransactionIsSafe(v)'
  BY <1>2, CommitKeepsOthers DEF dbVars
<1> QED  BY <1>1, <1>2, EndedIsSafe DEF IInv

LEMMA CommitArchiveSafe ==
  ASSUME IInv, NEW w \in Workers, CommitArchive(w)
  PROVE  IInv'
<1> DEFINE s == request[w].state
<1>1. /\ request[w].op = "archive_workflow_state" /\ step[w] = "ready" /\ EndTransaction(w)
      /\ states' = [states EXCEPT ![s].archived = request[w].archived]
      /\ UNCHANGED <<teams, issues>>
  BY DEF CommitArchive, At
<1>2. /\ s \in States /\ request[w].archived \in BOOLEAN
  BY <1>1, RequestFields DEF IInv, TypeOK, StateEdits, Retirements
<1>3. /\ s \in exclusive[w] /\ states[s] # Absent
      /\ request[w].archived => ~IsDefault(s) /\ ~IsReferenced(s)
  BY <1>1, <1>2 DEF IInv, TransactionIsSafe, RetirementIsSafe, Retirements
<1>4. /\ states[s] \in StateRow
      /\ states'[s] = [states[s] EXCEPT !.archived = request[w].archived]
      /\ \A r \in States \ {s} : states'[r] = states[r]
  BY <1>1, <1>2, <1>3 DEF IInv, TypeOK
<1>5. states' \in [States -> StateRow \cup {Absent}]
  BY <1>1, <1>2, <1>4 DEF IInv, TypeOK, StateRow
<1>6. \A t \in Teams, r \in States :
        /\ Usable(states, t, r) /\ (r = s => ~request[w].archived) => Usable(states', t, r)
        /\ Usable(states, t, r) => states'[r].category = states[r].category
  BY <1>2, <1>4 DEF Usable, StateRow
<1>7. TypeOK'
  BY <1>1, <1>5, EndedIsSafe DEF IInv, TypeOK
<1>8. DefaultsAreUsable'
  BY <1>1, <1>3, <1>6 DEF IInv, TypeOK, DefaultsAreUsable, IsDefault, Usable
<1>9. ReferencesAreUsable'
  BY <1>1, <1>3, <1>6 DEF IInv, TypeOK, ReferencesAreUsable, IsReferenced, IssueRow, Usable
<1>10. ASSUME NEW v \in Workers, v # w PROVE TransactionIsSafe(v)'
  BY <1>1, <1>3, <1>4, <1>10, CommitKeepsOthers
<1> QED  BY <1>1, <1>7, <1>8, <1>9, <1>10, EndedIsSafe DEF IInv

LEMMA CommitDeleteSafe ==
  ASSUME IInv, NEW w \in Workers, CommitDelete(w)
  PROVE  IInv'
<1> DEFINE s == request[w].state
<1>1. /\ request[w].op = "delete_workflow_state" /\ step[w] = "ready" /\ EndTransaction(w)
      /\ ~IsReferenced(s) /\ ~IsDefault(s)
      /\ states' = [states EXCEPT ![s] = Absent]
      /\ UNCHANGED <<teams, issues>>
  BY DEF CommitDelete, At
<1>2. s \in States
  BY <1>1, RequestFields DEF IInv, TypeOK, StateEdits, Retirements
<1>3. s \in exclusive[w]
  BY <1>1, <1>2 DEF IInv, TransactionIsSafe, RetirementIsSafe, Retirements
<1>4. /\ states' \in [States -> StateRow \cup {Absent}]
      /\ \A r \in States \ {s} : states'[r] = states[r]
  BY <1>1, <1>2 DEF IInv, TypeOK
<1>5. TypeOK'
  BY <1>1, <1>4, EndedIsSafe DEF IInv, TypeOK
<1>6. DefaultsAreUsable'
  BY <1>1, <1>4 DEF IInv, TypeOK, DefaultsAreUsable, IsDefault, Usable
<1>7. ReferencesAreUsable'
  BY <1>1, <1>4 DEF IInv, TypeOK, ReferencesAreUsable, IsReferenced, IssueRow, Usable
<1>8. ASSUME NEW v \in Workers, v # w PROVE TransactionIsSafe(v)'
  BY <1>1, <1>3, <1>4, <1>8, CommitKeepsOthers
<1> QED  BY <1>1, <1>5, <1>6, <1>7, <1>8, EndedIsSafe DEF IInv

\* A new row where there was none disturbs nothing that points at a state.
LEMMA InsertedStateSafe ==
  ASSUME IInv, NEW w \in Workers, EndTransaction(w), NEW s \in States,
         s \in exclusive[w], states[s] = Absent,
         NEW row \in StateRow, states' = [states EXCEPT ![s] = row],
         UNCHANGED <<teams, issues>>
  PROVE  IInv'
<1>1. /\ states' \in [States -> StateRow \cup {Absent}]
      /\ \A r \in States \ {s} : states'[r] = states[r]
  BY DEF IInv, TypeOK
<1>2. TypeOK'
  BY <1>1, EndedIsSafe DEF IInv, TypeOK
<1>3. DefaultsAreUsable'
  BY <1>1 DEF IInv, TypeOK, DefaultsAreUsable, Usable
<1>4. ReferencesAreUsable'
  BY <1>1 DEF IInv, TypeOK, ReferencesAreUsable, IssueRow, Usable
<1>5. ASSUME NEW v \in Workers, v # w PROVE TransactionIsSafe(v)'
  BY <1>1, <1>5, CommitKeepsOthers
<1> QED  BY <1>2, <1>3, <1>4, <1>5, EndedIsSafe DEF IInv

LEMMA CommitStateSafe ==
  ASSUME IInv, NEW w \in Workers, CommitState(w)
  PROVE  IInv'
<1>1. /\ request[w].op \in {"insert_workflow_state", "update_workflow_state"}
      /\ step[w] = "ready" /\ EndTransaction(w) /\ UNCHANGED <<teams, issues>>
  BY DEF CommitState, At
<1>2. CASE request[w].op = "update_workflow_state"
  BY <1>1, <1>2, UnwrittenSafe DEF CommitState, dbVars
<1>3. CASE request[w].op = "insert_workflow_state"
  <2>1. states' = [states EXCEPT ![request[w].state] = NewState(team[w], request[w].category)]
    BY <1>3 DEF CommitState
  <2>2. /\ request[w].state \in States /\ request[w].category \in Categories
    BY <1>3, RequestFields DEF IInv, TypeOK
  <2>3. team[w] \in Teams
    BY <1>1, <1>3 DEF IInv, TransactionIsSafe, TeamIsRead
  <2>4. NewState(team[w], request[w].category) \in StateRow
    BY <2>2, <2>3 DEF NewState, StateRow
  <2>5. request[w].state \in exclusive[w] /\ states[request[w].state] = Absent
    BY <1>1, <1>3 DEF IInv, TransactionIsSafe, InsertionsAreSafe, At
  <2> QED  BY <1>1, <2>1, <2>2, <2>4, <2>5, InsertedStateSafe
<1> QED  BY <1>1, <1>2, <1>3

LEMMA CommitTeamSafe ==
  ASSUME IInv, NEW w \in Workers, CommitTeam(w)
  PROVE  IInv'
<1>1. EndTransaction(w) /\ UNCHANGED issues /\ step[w] = "ready"
      /\ request[w].op \in {"update_team", "insert_team"}
  BY DEF CommitTeam, At
<1>2. team[w] \in Teams
  BY <1>1 DEF IInv, TransactionIsSafe, TeamIsRead
<1>3. CASE request[w].op = "update_team"
  <2> DEFINE s == request[w].state
  <2>1. teams' = [teams EXCEPT ![team[w]] = s] /\ UNCHANGED states
    BY <1>3 DEF CommitTeam, At
  <2>2. s \in States
    BY <1>3, RequestFields DEF IInv, TypeOK
  <2>3. s \in shared[w] /\ Usable(states, team[w], s) /\ states[s].category = Unstarted
    BY <1>1, <1>3 DEF IInv, TransactionIsSafe, DefaultIsHeld
  <2> HIDE DEF s
  <2>4. /\ teams' \in [Teams -> States \cup {Absent}]
        /\ teams'[team[w]] = s /\ \A t \in Teams \ {team[w]} : teams'[t] = teams[t]
    BY <1>2, <2>1, <2>2 DEF IInv, TypeOK
  <2>5. TypeOK'
    BY <1>1, <2>1, <2>4, EndedIsSafe DEF IInv, TypeOK
  <2>6. DefaultsAreUsable'
    BY <2>1, <2>3, <2>4 DEF IInv, DefaultsAreUsable, Usable
  <2>7. ReferencesAreUsable'
    BY <1>1, <2>1 DEF IInv, ReferencesAreUsable, Usable
  <2>8. ASSUME NEW v \in Workers, v # w PROVE TransactionIsSafe(v)'
    BY <1>1, <2>1, <2>3, <2>4, <2>8, CommitKeepsOthers
  <2> QED  BY <1>1, <2>5, <2>6, <2>7, <2>8, EndedIsSafe DEF IInv
<1>4. CASE request[w].op = "insert_team"
  <2> DEFINE catalog == request[w].catalog
             category(s) == CHOOSE c \in Categories : catalog[c] = s
  <2>1. catalog \in [Categories -> States] /\ IsInjective(catalog)
    BY <1>4, RequestFields DEF IInv, TypeOK, Catalogs
  <2>2. Range(catalog) \subseteq States /\ catalog[Unstarted] \in Range(catalog)
    BY <2>1 DEF Range
  <2>3. \A s \in Range(catalog) : category(s) \in Categories /\ catalog[category(s)] = s
    BY <2>1 DEF Range
  <2>4. category(catalog[Unstarted]) = Unstarted
    BY <2>1, <2>2, <2>3 DEF IsInjective
  <2>5. \A s \in Range(catalog) : s \in exclusive[w] /\ states[s] = Absent
    BY <1>1, <1>4 DEF IInv, TransactionIsSafe, InsertionsAreSafe, At
  <2>6. /\ teams' = [teams EXCEPT ![team[w]] = catalog[Unstarted]]
        /\ states' = [s \in States |-> IF s \in Range(catalog)
                                       THEN NewState(team[w], category(s))
                                       ELSE states[s]]
    BY <1>4 DEF CommitTeam, At
  <2> HIDE DEF catalog, category
  <2>7. /\ teams' \in [Teams -> States \cup {Absent}]
        /\ teams'[team[w]] = catalog[Unstarted]
        /\ \A t \in Teams \ {team[w]} : teams'[t] = teams[t]
    BY <1>2, <2>1, <2>6 DEF IInv, TypeOK
  <2>8. /\ \A s \in Range(catalog) : states'[s] = NewState(team[w], category(s))
        /\ \A s \in States \ Range(catalog) : states'[s] = states[s]
    BY <2>2, <2>6
  <2>9. \A s \in Range(catalog) : NewState(team[w], category(s)) \in StateRow
    BY <1>2, <2>3 DEF NewState, StateRow
  <2>10. states' \in [States -> StateRow \cup {Absent}]
    BY <2>6, <2>9 DEF IInv, TypeOK
  <2>11. TypeOK'
    BY <1>1, <2>7, <2>10, EndedIsSafe DEF IInv, TypeOK
  <2>12. \A s \in States : states[s] # Absent => states'[s] = states[s]
    BY <2>5, <2>8
  <2>13. DefaultsAreUsable'
    <3>1. states'[catalog[Unstarted]] = NewState(team[w], Unstarted)
      BY <2>2, <2>4, <2>8
    <3>2. NewState(team[w], Unstarted) \in StateRow
      BY <1>2 DEF NewState, StateRow
    <3>3. /\ Usable(states', team[w], catalog[Unstarted])
          /\ states'[catalog[Unstarted]].category = Unstarted
      <4>1. NewState(team[w], Unstarted) # Absent
        BY <3>2
      <4>2. /\ NewState(team[w], Unstarted).team = team[w]
            /\ ~NewState(team[w], Unstarted).archived
            /\ NewState(team[w], Unstarted).category = Unstarted
        BY DEF NewState
      <4> QED  BY <3>1, <4>1, <4>2 DEF Usable
    <3>4. ASSUME NEW t \in Teams, teams'[t] # Absent
          PROVE  Usable(states', t, teams'[t]) /\ states'[teams'[t]].category = Unstarted
      <4>1. CASE t = team[w]
        BY <2>7, <3>3, <4>1
      <4>2. CASE t # team[w]
        <5>1. teams'[t] = teams[t] /\ teams[t] \in States
          BY <2>7, <3>4, <4>2 DEF IInv, TypeOK
        <5>2. Usable(states, t, teams[t]) /\ states[teams[t]].category = Unstarted
          BY <3>4, <5>1 DEF IInv, DefaultsAreUsable
        <5>3. states'[teams[t]] = states[teams[t]]
          BY <2>12, <5>1, <5>2 DEF Usable
        <5> QED  BY <5>1, <5>2, <5>3 DEF Usable
      <4> QED  BY <4>1, <4>2
    <3> QED  BY <3>4 DEF DefaultsAreUsable, Usable
  <2>14. ReferencesAreUsable'
    BY <1>1, <2>12 DEF IInv, TypeOK, ReferencesAreUsable, IssueRow, Usable
  <2>15. ASSUME NEW v \in Workers, v # w PROVE TransactionIsSafe(v)'
    <3>1. \A s \in States : states'[s] # states[s] => s \in exclusive[w]
      BY <2>5, <2>8
    <3>2. \A t \in Teams : teams'[t] # teams[t] => teams'[t] \in exclusive[w] \cup shared[w]
      BY <2>2, <2>5, <2>7
    <3> QED  BY <1>1, <2>15, <3>1, <3>2, CommitKeepsOthers
  <2> QED  BY <1>1, <2>11, <2>13, <2>14, <2>15, EndedIsSafe DEF IInv
<1> QED  BY <1>1, <1>3, <1>4

LEMMA CommitIssueSafe ==
  ASSUME IInv, NEW w \in Workers, CommitIssue(w)
  PROVE  IInv'
<1> DEFINE i == request[w].issue
           t == IF request[w].op = "update_issue" THEN issues[i].team ELSE team[w]
<1>1. EndTransaction(w) /\ UNCHANGED <<teams, states>> /\ step[w] = "ready"
      /\ request[w].op \in IssueOps
  BY DEF CommitIssue, At
<1>2. team[w] \in Teams /\ i \in Issues
  BY <1>1, RequestFields DEF IInv, TypeOK, TransactionIsSafe, TeamIsRead, IssueOps
<1>3. i \in exclusive[w] /\ t = team[w]
  BY <1>1 DEF IInv, TransactionIsSafe, ReferenceIsHeld
<1>4. PICK s \in pending[w] : issues' = [issues EXCEPT ![i] = [team |-> t, state |-> s]]
  BY DEF CommitIssue
<1> HIDE DEF i, t
<1>5. s \in States /\ s \in shared[w] /\ Usable(states, team[w], s)
  BY <1>1, <1>4 DEF IInv, TypeOK, TransactionIsSafe, ReferenceIsHeld
<1>6. /\ issues' \in [Issues -> IssueRow \cup {Absent}]
      /\ issues'[i] = [team |-> team[w], state |-> s]
      /\ \A j \in Issues \ {i} : issues'[j] = issues[j]
  BY <1>2, <1>3, <1>4, <1>5 DEF IInv, TypeOK, IssueRow
<1>7. TypeOK'
  BY <1>1, <1>6, EndedIsSafe DEF IInv, TypeOK
<1>8. DefaultsAreUsable'
  BY <1>1 DEF IInv, DefaultsAreUsable, Usable
<1>9. ReferencesAreUsable'
  BY <1>1, <1>5, <1>6 DEF IInv, ReferencesAreUsable, Usable
<1>10. ASSUME NEW v \in Workers, v # w PROVE TransactionIsSafe(v)'
  BY <1>1, <1>3, <1>5, <1>6, <1>10, CommitKeepsOthers
<1> QED  BY <1>1, <1>7, <1>8, <1>9, <1>10, EndedIsSafe DEF IInv

-----------------------------------------------------------------------------

LEMMA NextSafe == IInv /\ [Next]_vars => IInv'
<1> SUFFICES ASSUME IInv, [Next]_vars PROVE IInv'
  OBVIOUS
<1>1. ASSUME NEW w \in Workers, Abort(w) PROVE IInv'
  BY <1>1, UnwrittenSafe DEF Abort
<1>2. ASSUME NEW w \in Workers, NEW r \in Requests, Begin(w, r) PROVE IInv'
  BY <1>2, BeginSafe
<1>3. ASSUME NEW w \in Workers, CommitReorder(w) PROVE IInv'
  BY <1>3, UnwrittenSafe DEF CommitReorder
<1>4. ASSUME NEW w \in Workers, Step(w) PROVE IInv'
  BY <1>3, <1>4, LockStateSafe, CheckDefaultSafe, CheckReferencesSafe, CommitArchiveSafe,
     CommitDeleteSafe, InsertStateSafe, CommitStateSafe, ReorderSelectSafe, ReorderLockSafe,
     ShareDefaultSafe, UpdateTeamSafe, InsertTeamSafe, CommitTeamSafe, ResolveStateSafe,
     ShareStateSafe, BumpCounterSafe, WriteIssueSafe, CommitIssueSafe
     DEF Step
<1>5. CASE UNCHANGED vars
  <2>1. UNCHANGED dbVars /\ UNCHANGED workerVars
    BY <1>5 DEF vars
  <2>2. ASSUME NEW w \in Workers PROVE TransactionIsSafe(w)'
    BY <2>1, Untouched DEF IInv, workerVars
  <2> QED
    BY <2>1, <2>2 DEF IInv, TypeOK, LocksExclude, DefaultsAreUsable, ReferencesAreUsable,
                      Usable, dbVars, workerVars
<1> QED  BY <1>1, <1>2, <1>4, <1>5 DEF Next

(***************************************************************************)
(* Every reachable state satisfies the inductive invariant.                 *)
(***************************************************************************)
THEOREM CatalogInvariance == Spec => []IInv
<1> QED  BY InitSafe, NextSafe, PTL DEF Spec

(***************************************************************************)
(* Whatever the catalog handlers and issue handlers do, teams, states and   *)
(* issues stay rows of their kind, and transactions lock nothing else.      *)
(***************************************************************************)
THEOREM CatalogIsTyped == Spec => []TypeOK
<1>1. IInv => TypeOK
  BY DEF IInv
<1> QED  BY <1>1, CatalogInvariance, PTL

(***************************************************************************)
(* The default state of every team is its own, unarchived and unstarted,    *)
(* however put_team races with the archiving and deletion of states         *)
(* (plugin-card.md:65).                                                     *)
(***************************************************************************)
THEOREM DefaultsStayUsable == Spec => []DefaultsAreUsable
<1>1. IInv => DefaultsAreUsable
  BY DEF IInv
<1> QED  BY <1>1, CatalogInvariance, PTL

(***************************************************************************)
(* The state of every issue is an unarchived one of its team, however the   *)
(* creation, edit and move of issues race with the archiving and deletion   *)
(* of states (plugin-card.md:67-72).                                        *)
(***************************************************************************)
THEOREM ReferencesStayUsable == Spec => []ReferencesAreUsable
<1>1. IInv => ReferencesAreUsable
  BY DEF IInv
<1> QED  BY <1>1, CatalogInvariance, PTL
-----------------------------------------------------------------------------
(***************************************************************************)
(* Some set of a family of subsets of a finite set contains no other one.   *)
(***************************************************************************)
LEMMA LeastSet ==
  ASSUME NEW S, IsFiniteSet(S), NEW T \in SUBSET (SUBSET S), T # {}
  PROVE  \E t \in T : \A u \in T : u \subseteq t => u = t
<1>1. T \subseteq FiniteSubsetsOf(S)
  BY FS_FiniteSubsetsOfFinite, Zenon
<1>2. PICK t \in T : \A u \in T : <<u, t>> \notin StrictSubsetOrdering(S)
  BY <1>1, FS_StrictSubsetOrderingWellFounded, WFMin
<1> QED  BY <1>2 DEF StrictSubsetOrdering

(***************************************************************************)
(* Among finitely many workers one waits for a row as late as any.          *)
(***************************************************************************)
LEMMA LastInOrder ==
  ASSUME NEW S, IsFiniteSet(S), S # {}, NEW rank \in [S -> Nat]
  PROVE  \E x \in S : \A y \in S : rank[y] <= rank[x]
<1> DEFINE above(x) == {y \in S : rank[x] < rank[y]}
           T == {above(x) : x \in S}
<1>1. T \in SUBSET (SUBSET S) /\ T # {}
  <2>1. PICK z \in S : TRUE
    OBVIOUS
  <2>2. above(z) \in T
    OBVIOUS
  <2>3. \A x \in S : above(x) \in SUBSET S
    OBVIOUS
  <2> QED  BY <2>2, <2>3, Zenon
<1>2. PICK t \in T : \A u \in T : u \subseteq t => u = t
  <2> HIDE DEF T
  <2> QED  BY <1>1, LeastSet
<1>3. PICK x \in S : t = above(x)
  OBVIOUS
<1>4. ASSUME NEW y \in S, rank[x] < rank[y] PROVE FALSE
  <2>1. y \in above(x) /\ y \notin above(y)
    BY <1>4
  <2>2. above(y) \subseteq above(x)
    BY <1>4
  <2>3. above(y) \in T
    OBVIOUS
  <2> HIDE DEF above, T
  <2> QED  BY <1>2, <1>3, <2>1, <2>2, <2>3
<1> QED  BY <1>4

LocksAreOrdered == \A w \in Workers : LocksInOrder(w)

\* A worker that does not move keeps its locks and what it asks for.
LEMMA OthersStayOrdered ==
  ASSUME LocksAreOrdered, NEW w \in Workers, OnlyMoves(w), LocksInOrder(w)'
  PROVE  LocksAreOrdered'
BY DEF LocksAreOrdered, LocksInOrder, OnlyMoves

LEMMA InitOrdered == Init => LocksAreOrdered
BY DEF Init, LocksAreOrdered, LocksInOrder

LEMMA EndedIsOrdered ==
  ASSUME IInv, LocksAreOrdered, NEW w \in Workers, EndTransaction(w)
  PROVE  LocksAreOrdered'
<1>1. OnlyMoves(w) /\ LocksInOrder(w)'
  BY DEF IInv, TypeOK, EndTransaction, Goto, OnlyMoves, LocksInOrder
<1> QED  BY <1>1, OthersStayOrdered

\* A statement that takes no lock, and leaves its worker where the order says
\* nothing or where it holds as little as before.
LEMMA StatementsStayOrdered ==
  ASSUME IInv, LocksAreOrdered, NEW w \in Workers,
         \/ \E r \in Requests : Begin(w, r)
         \/ CheckDefault(w) \/ CheckReferences(w) \/ ReorderSelect(w) \/ ResolveState(w)
  PROVE  LocksAreOrdered'
<1>1. OnlyMoves(w)
  BY DEF IInv, TypeOK, OnlyMoves, Begin, CheckDefault, CheckReferences, ReorderSelect,
         ResolveState, Goto
<1>2. LocksInOrder(w)'
  BY DEF IInv, TypeOK, LocksAreOrdered, LocksInOrder, Begin, CheckDefault,
         CheckReferences, ReorderSelect, ResolveState, Goto, At
<1> QED  BY <1>1, <1>2, OthersStayOrdered

\* What is locked last before "ready" may be any row.
LEMMA LastLocksStayOrdered ==
  ASSUME IInv, LocksAreOrdered, NEW w \in Workers,
         LockState(w) \/ InsertState(w) \/ UpdateTeam(w) \/ InsertTeam(w) \/ WriteIssue(w)
  PROVE  LocksAreOrdered'
<1>1. OnlyMoves(w)
  BY DEF IInv, TypeOK, OnlyMoves, LockState, InsertState, UpdateTeam, InsertTeam,
         WriteIssue, Goto, Lock
<1>2. step'[w] \in {"ready", "check default"}
  BY DEF IInv, TypeOK, LockState, InsertState, UpdateTeam, InsertTeam, WriteIssue, Goto
<1> QED  BY <1>1, <1>2, OthersStayOrdered DEF LocksInOrder

LEMMA ReorderLockOrdered ==
  ASSUME IInv, LocksAreOrdered, NEW w \in Workers, NEW s \in States, ReorderLock(w, s)
  PROVE  LocksAreOrdered'
<1>1. OnlyMoves(w)
  BY DEF IInv, TypeOK, OnlyMoves, ReorderLock, Goto, Lock
<1>2. CASE step'[w] = "ready"
  BY <1>1, <1>2, OthersStayOrdered DEF LocksInOrder
<1>3. CASE step'[w] = "lock rows"
  <2>1. /\ exclusive'[w] = exclusive[w] \cup {s} /\ shared'[w] = shared[w]
        /\ pending'[w] = pending[w] \ {s} /\ step[w] = "lock rows"
        /\ \A other \in pending[w] : Rank[s] <= Rank[other]
    BY DEF IInv, TypeOK, ReorderLock, Lock, At, NextToLock
  <2>2. ASSUME NEW other \in pending[w], other # s PROVE Rank[s] < Rank[other]
    <3>1. other \in States /\ Rank[s] <= Rank[other]
      BY <2>1 DEF IInv, TypeOK
    <3>2. Rank[s] \in Nat /\ Rank[other] \in Nat /\ Rank[s] # Rank[other]
      BY <2>2, <3>1, RankAssumption DEF IsInjective
    <3> QED  BY <3>1, <3>2
  <2>3. LocksInOrder(w)'
    BY <1>3, <2>1, <2>2 DEF LocksAreOrdered, LocksInOrder
  <2> QED  BY <1>1, <2>3, OthersStayOrdered
<1> QED  BY <1>2, <1>3 DEF ReorderLock, Goto, IInv, TypeOK

LEMMA SharesStayOrdered ==
  ASSUME IInv, LocksAreOrdered, NEW w \in Workers,
         ShareDefault(w) \/ \E s \in States : ShareState(w, s)
  PROVE  LocksAreOrdered'
<1>1. OnlyMoves(w)
  BY DEF IInv, TypeOK, OnlyMoves, ShareDefault, ShareState, Goto
<1>2. /\ \/ step'[w] = "update team" /\ request[w].op = "update_team"
         \/ step'[w] \in {"bump counter", "write issue"} /\ request[w].op \in IssueOps
      /\ exclusive' = exclusive /\ request' = request /\ step[w] \in {"begun", "share state"}
  BY DEF IInv, TypeOK, ShareDefault, ShareState, Goto, At
<1>3. LocksInOrder(w)'
  BY <1>2 DEF LocksAreOrdered, LocksInOrder
<1> QED  BY <1>1, <1>3, OthersStayOrdered

LEMMA BumpCounterOrdered ==
  ASSUME IInv, LocksAreOrdered, NEW w \in Workers, BumpCounter(w)
  PROVE  LocksAreOrdered'
<1>1. OnlyMoves(w)
  BY DEF IInv, TypeOK, OnlyMoves, BumpCounter, Goto, Lock
<1>2. team[w] \in Teams
  BY DEF IInv, TransactionIsSafe, TeamIsRead, BumpCounter, At
<1>3. /\ step'[w] = "write issue" /\ step[w] = "bump counter"
      /\ exclusive'[w] = exclusive[w] \cup {team[w]} /\ request' = request
  BY DEF IInv, TypeOK, BumpCounter, Goto, Lock, At
<1>4. LocksInOrder(w)'
  BY <1>2, <1>3 DEF LocksAreOrdered, LocksInOrder
<1> QED  BY <1>1, <1>4, OthersStayOrdered

LEMMA NextOrdered == IInv /\ LocksAreOrdered /\ [Next]_vars => LocksAreOrdered'
<1> SUFFICES ASSUME IInv, LocksAreOrdered, [Next]_vars PROVE LocksAreOrdered'
  OBVIOUS
<1>1. ASSUME NEW w \in Workers, EndTransaction(w) PROVE LocksAreOrdered'
  BY <1>1, EndedIsOrdered
<1>2. ASSUME NEW w \in Workers, Step(w) PROVE LocksAreOrdered'
  BY <1>1, <1>2, StatementsStayOrdered, LastLocksStayOrdered, ReorderLockOrdered,
     SharesStayOrdered, BumpCounterOrdered
     DEF Step, CommitArchive, CommitDelete, CommitState, CommitReorder, CommitTeam,
         CommitIssue
<1>3. ASSUME NEW w \in Workers, NEW r \in Requests, Begin(w, r) PROVE LocksAreOrdered'
  BY <1>3, StatementsStayOrdered
<1>4. CASE UNCHANGED vars
  BY <1>4 DEF vars, workerVars, LocksAreOrdered, LocksInOrder
<1> QED  BY <1>1, <1>2, <1>3, <1>4 DEF Next, Abort

\* The rows asked for after the first statement.
LEMMA WantedRows ==
  ASSUME NEW w \in Workers
  PROVE  /\ step[w] = "lock rows" => WantsExclusive(w) = NextToLock(w) /\ WantsShare(w) = {}
         /\ step[w] \in {"update team", "bump counter"} =>
              WantsExclusive(w) = {team[w]} /\ WantsShare(w) = {}
         /\ step[w] = "write issue" =>
              WantsExclusive(w) = {request[w].issue} /\ WantsShare(w) = {}
         /\ step[w] \in {"idle", "check default", "check references", "ready"} =>
              WantsExclusive(w) = {} /\ WantsShare(w) = {}
<1>1. CASE step[w] = "lock rows"
  BY <1>1 DEF WantsExclusive, WantsShare, At
<1>2. CASE step[w] \in {"update team", "bump counter"}
  BY <1>2 DEF WantsExclusive, WantsShare, At
<1>3. CASE step[w] = "write issue"
  BY <1>3 DEF WantsExclusive, WantsShare, At
<1>4. CASE step[w] \in {"idle", "check default", "check references", "ready"}
  BY <1>4 DEF WantsExclusive, WantsShare, At
<1> QED  BY <1>1, <1>2, <1>3, <1>4

(***************************************************************************)
(* No cycle of waiting workers: one that wants an issue waits for a worker  *)
(* that only commits, one that wants a team waits for one of those, and     *)
(* among the workers that reorder states the last in order waits for none.  *)
(***************************************************************************)
LEMMA OrderExcludesDeadlock == IInv /\ LocksAreOrdered => NoDeadlock
<1> SUFFICES ASSUME IInv, LocksAreOrdered, NEW waiting \in SUBSET Workers, waiting # {},
                    \A w \in waiting : Blockers(w) \cap waiting # {}
             PROVE  FALSE
  BY DEF NoDeadlock
<1> DEFINE Wants(w) == WantsExclusive(w) \cup WantsShare(w)
           Holds(w) == exclusive[w] \cup shared[w]
<1>1. ASSUME NEW w \in waiting
      PROVE  \E v \in waiting : Wants(w) \cap Holds(v) # {}
  <2>1. PICK v \in waiting : v \in Blockers(w)
    BY <1>1
  <2> QED  BY <2>1 DEF Blockers
<1>2. ASSUME NEW w \in waiting
      PROVE  step[w] \in {"begun", "lock rows", "update team", "bump counter",
                          "share state", "write issue"}
  <2>1. Wants(w) # {}
    BY <1>1
  <2> QED  BY <2>1, WantedRows DEF IInv, TypeOK, Steps
<1>3. ASSUME NEW w \in waiting
      PROVE  /\ Holds(w) \cap Issues = {}
             /\ Holds(w) \cap Teams # {} => step[w] = "write issue"
             /\ step[w] \in {"begun", "share state"} => Holds(w) = {}
  BY <1>2, RowsAssumption DEF LocksAreOrdered, LocksInOrder, IInv, TypeOK
<1>4. ASSUME NEW w \in waiting PROVE step[w] # "write issue"
  <2> SUFFICES ASSUME step[w] = "write issue" PROVE FALSE
    OBVIOUS
  <2>1. Wants(w) \subseteq Issues
    <3>1. request[w] \in Requests /\ request[w].op \in IssueOps
      BY DEF IInv, TypeOK, LocksAreOrdered, LocksInOrder
    <3>2. request[w].issue \in Issues
      BY <3>1, RequestFields
    <3>3. WantsExclusive(w) = {request[w].issue} /\ WantsShare(w) = {}
      BY WantedRows
    <3> QED  BY <3>2, <3>3
  <2>2. PICK v \in waiting : Wants(w) \cap Holds(v) # {}
    BY <1>1
  <2>3. Holds(v) \cap Issues = {}
    BY <1>3
  <2> HIDE DEF Wants, Holds
  <2> QED  BY <2>1, <2>2, <2>3
<1>5. ASSUME NEW w \in waiting PROVE step[w] \notin {"update team", "bump counter"}
  <2> SUFFICES ASSUME step[w] \in {"update team", "bump counter"} PROVE FALSE
    OBVIOUS
  <2>1. Wants(w) \subseteq Teams
    <3>1. team[w] \in Teams
      BY DEF IInv, TransactionIsSafe, TeamIsRead, LocksAreOrdered, LocksInOrder, IssueOps
    <3> QED  BY <3>1, WantedRows
  <2>2. PICK v \in waiting : Wants(w) \cap Holds(v) # {}
    BY <1>1
  <2>3. Holds(v) \cap Teams = {}
    BY <1>3, <1>4
  <2> HIDE DEF Wants, Holds
  <2> QED  BY <2>1, <2>2, <2>3
<1> DEFINE Reordering == {w \in waiting : step[w] = "lock rows"}
           First(w) == CHOOSE s \in States : s \in NextToLock(w)
<1>6. ASSUME NEW w \in waiting
      PROVE  \E v \in Reordering : Wants(w) \cap exclusive[v] # {}
  <2>1. PICK v \in waiting : Wants(w) \cap Holds(v) # {}
    BY <1>1
  <2>2. step[v] = "lock rows"
    <3>1. Holds(v) # {}
      BY <2>1
    <3> QED  BY <1>2, <1>3, <1>4, <1>5, <3>1
  <2>3. Holds(v) = exclusive[v]
    BY <2>2 DEF LocksAreOrdered, LocksInOrder
  <2> QED  BY <2>1, <2>2, <2>3
<1>7. ASSUME NEW w \in Reordering
      PROVE  First(w) \in NextToLock(w) /\ First(w) \in States
  <2>1. Wants(w) = NextToLock(w)
    BY WantedRows
  <2>2. NextToLock(w) # {}
    <3> HIDE DEF Wants, Holds
    <3> QED  BY <1>1, <2>1
  <2>3. NextToLock(w) \subseteq States
    BY DEF NextToLock, IInv, TypeOK
  <2> QED  BY <2>2, <2>3
<1> HIDE DEF First
<1>8. ASSUME NEW w \in Reordering
      PROVE  \E v \in Reordering : Rank[First(w)] < Rank[First(v)]
  <2>1. Wants(w) = NextToLock(w)
    BY WantedRows
  <2>2. PICK v \in Reordering : NextToLock(w) \cap exclusive[v] # {}
    BY <1>6, <2>1
  <2>3. PICK s \in NextToLock(w) : s \in exclusive[v]
    BY <2>2
  <2>4. Rank[First(w)] <= Rank[s]
    <3>1. First(w) \in NextToLock(w) /\ s \in pending[w]
      BY <1>7, <2>3 DEF NextToLock
    <3> QED  BY <3>1 DEF NextToLock
  <2>5. Rank[s] < Rank[First(v)]
    <3>1. First(v) \in pending[v]
      BY <1>7 DEF NextToLock
    <3> QED  BY <2>3, <3>1 DEF LocksAreOrdered, LocksInOrder
  <2>6. Rank[First(w)] \in Nat /\ Rank[s] \in Nat /\ Rank[First(v)] \in Nat
    <3>1. s \in States
      BY <2>3 DEF NextToLock, IInv, TypeOK
    <3> QED  BY <1>7, <3>1, RankAssumption
  <2> HIDE DEF Reordering
  <2> QED  BY <2>4, <2>5, <2>6
<1>9. Reordering # {} /\ IsFiniteSet(Reordering)
  BY <1>6, WorkersAssumption, FS_Subset
<1> DEFINE rank == [w \in Reordering |-> Rank[First(w)]]
<1>10. rank \in [Reordering -> Nat]
  BY <1>7, RankAssumption
<1>11. PICK w \in Reordering : \A v \in Reordering : rank[v] <= rank[w]
  <2> HIDE DEF Reordering, rank
  <2> QED  BY <1>9, <1>10, LastInOrder
<1>12. PICK v \in Reordering : Rank[First(w)] < Rank[First(v)]
  BY <1>8
<1>13. rank[v] <= rank[w] /\ rank[w] < rank[v] /\ rank[v] \in Nat /\ rank[w] \in Nat
  BY <1>10, <1>11, <1>12
<1> HIDE DEF rank, Reordering
<1> QED  BY <1>13

(***************************************************************************)
(* No set of catalog and issue transactions waits for each other's rows,    *)
(* however many run, because every handler locks states in the order of     *)
(* their ids before the team and the team before the issue.                 *)
(***************************************************************************)
THEOREM CatalogDoesNotDeadlock == Spec => []NoDeadlock
<1>1. Spec => []LocksAreOrdered
  BY InitOrdered, NextOrdered, CatalogInvariance, PTL DEF Spec
<1> QED  BY <1>1, CatalogInvariance, OrderExcludesDeadlock, PTL
=============================================================================
