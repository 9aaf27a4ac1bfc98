------------------------ MODULE IssueHierarchyProofs ------------------------
(***************************************************************************)
(* The parent check keeps the hierarchy acyclic as long as no two updates   *)
(* of issues race, for any number of workers, issues and projects.          *)
(***************************************************************************)
EXTENDS IssueHierarchy, TLAPS

USE SentinelsAssumption, RequestsAssumption

LEMMA RequestFields ==
  ASSUME NEW r \in Requests
  PROVE  /\ r.op \in {"create_issue", "update_issue"}
         /\ r.issue \in Issues /\ r.parent \in Issues \cup {NoParent}
         /\ r.op = "create_issue" => r.project \in Projects
<1>1. r \in Request
  OBVIOUS
<1> QED  BY <1>1 DEF Request

(***************************************************************************)
(* The descendants of an issue contain its children and theirs.             *)
(***************************************************************************)
LEMMA DescendantsAreClosed ==
  ASSUME NEW i, NEW m \in Descendants(i) \cup {i}
  PROVE  Children(m) \subseteq Descendants(i)
<1> SUFFICES ASSUME NEW c \in Children(m), NEW family \in SUBSET Issues,
                    \A n \in family \cup {i} : Children(n) \subseteq family
             PROVE  c \in family
  BY DEF Descendants, Children
<1>1. m \in family \cup {i}
  BY DEF Descendants
<1> QED  BY <1>1

(***************************************************************************)
(* A parent that is neither the issue nor one of its descendants closes no  *)
(* cycle: a set whose members all have their parents in it would, without   *)
(* the issue and its descendants, have been such a set before.              *)
(***************************************************************************)
LEMMA ParentCheckIsSound ==
  ASSUME TypeOK, NoParentCycle, NEW i \in Issues, Exists(i),
         NEW p \in Issues \cup {NoParent}, p # i, p \notin Descendants(i),
         NEW n \in Nat \ {0}, issues' = [issues EXCEPT ![i] = [@ EXCEPT !.parent = p, !.revision = n]]
  PROVE  NoParentCycle'
<1>1. /\ \A j \in Issues : Exists(j)' <=> Exists(j)
      /\ \A j \in Issues \ {i} : issues'[j] = issues[j]
      /\ issues'[i].parent = p
  <2>1. issues[i] \in IssueRow /\ issues'[i] = [issues[i] EXCEPT !.parent = p, !.revision = n]
    BY DEF TypeOK, Exists
  <2>2. issues'[i] # Absent
    <3>1. issues'[i] = [project |-> issues[i].project, parent |-> p, revision |-> n]
      BY <2>1 DEF IssueRow
    <3>2. issues'[i] \in IssueRow
      BY <2>1, <3>1 DEF IssueRow
    <3> QED  BY <3>2
  <2>3. \A j \in Issues \ {i} : issues'[j] = issues[j]
    BY DEF TypeOK
  <2> QED  BY <2>1, <2>2, <2>3 DEF Exists, IssueRow
<1> SUFFICES ASSUME NEW family \in SUBSET {j \in Issues : Exists(j)}, family # {},
                    \A j \in family : issues'[j].parent \in family
             PROVE  FALSE
  BY <1>1 DEF NoParentCycle
<1> DEFINE rest == family \ ({i} \cup Descendants(i))
<1>2. ASSUME NEW j \in rest PROVE issues[j].parent \in rest
  <2>1. issues[j].parent \in family
    BY <1>1
  <2>2. ASSUME issues[j].parent \in {i} \cup Descendants(i) PROVE FALSE
    <3>1. j \in Children(issues[j].parent)
      BY DEF Children
    <3>2. j \in Descendants(i)
      BY <2>2, <3>1, DescendantsAreClosed
    <3> QED  BY <3>2
  <2> QED  BY <2>1, <2>2
<1>3. rest # {}
  <2>1. CASE i \in family
    <3>1. p \in family
      BY <1>1, <2>1
    <3> QED  BY <3>1
  <2>2. CASE i \notin family
    <3>1. \A j \in family : issues[j].parent \in family
      BY <1>1, <2>2
    <3> QED  BY <3>1 DEF NoParentCycle
  <2> QED  BY <2>1, <2>2
<1>4. rest \in SUBSET {j \in Issues : Exists(j)}
  OBVIOUS
<1> HIDE DEF rest
<1> QED  BY <1>2, <1>3, <1>4 DEF NoParentCycle

(***************************************************************************)
(* A new issue without children adds at most itself to the descendants of   *)
(* others, and closes no cycle.                                             *)
(***************************************************************************)
LEMMA NewIssueIsALeaf ==
  ASSUME TypeOK, ParentsShareTheProject, NEW c \in Issues, ~Exists(c),
         NEW row \in IssueRow, row.parent # c,
         row.parent # NoParent => Exists(row.parent),
         issues' = [issues EXCEPT ![c] = row]
  PROVE  /\ Children(c)' = {}
         /\ \A m : Children(m)' \subseteq Children(m) \cup {c}
         /\ \A i : Descendants(i)' \subseteq Descendants(i) \cup {c}
<1>1. /\ issues'[c] = row /\ row # Absent
      /\ \A j \in Issues \ {c} : issues'[j] = issues[j]
  BY DEF TypeOK
<1>2. \A j \in Issues : Exists(j) => issues[j].parent # c
  BY DEF ParentsShareTheProject, ParentIn
<1>3. Children(c)' = {}
  BY <1>1, <1>2 DEF Children, Exists
<1>4. \A m : Children(m)' \subseteq Children(m) \cup {c}
  BY <1>1 DEF Children, Exists
<1>5. ASSUME NEW i PROVE Descendants(i)' \subseteq Descendants(i) \cup {c}
  <2> DEFINE family == Descendants(i) \cup {c}
  <2>1. family \in SUBSET Issues
    BY DEF Descendants
  <2>2. ASSUME NEW m \in family \cup {i} PROVE Children(m)' \subseteq family
    <3>1. CASE m = c
      BY <1>3, <3>1
    <3>2. CASE m # c
      <4>1. Children(m) \subseteq Descendants(i)
        BY <2>2, <3>2, DescendantsAreClosed
      <4> QED  BY <1>4, <4>1
    <3> QED  BY <3>1, <3>2
  <2> HIDE DEF family
  <2>3. Descendants(i)' \subseteq family
    BY <2>1, <2>2 DEF Descendants
  <2> QED  BY <2>3 DEF family
<1> QED  BY <1>3, <1>4, <1>5

LEMMA NewIssueClosesNoCycle ==
  ASSUME TypeOK, NoParentCycle, ParentsShareTheProject, NEW c \in Issues, ~Exists(c),
         NEW row \in IssueRow, row.parent # c,
         issues' = [issues EXCEPT ![c] = row]
  PROVE  NoParentCycle'
<1>1. /\ issues'[c] = row
      /\ \A j \in Issues \ {c} : issues'[j] = issues[j]
  BY DEF TypeOK
<1> SUFFICES ASSUME NEW family \in SUBSET {j \in Issues : Exists(j)'}, family # {},
                    \A j \in family : issues'[j].parent \in family
             PROVE  FALSE
  BY DEF NoParentCycle
<1> DEFINE rest == family \ {c}
<1>2. \A j \in rest : Exists(j) /\ issues[j].parent \in family
  BY <1>1 DEF Exists
<1>3. \A j \in rest : issues[j].parent # c
  <2> SUFFICES ASSUME NEW j \in rest, issues[j].parent = c PROVE FALSE
    OBVIOUS
  <2>1. j \in Issues /\ Exists(j) /\ c # NoParent
    BY <1>2
  <2> QED  BY <2>1 DEF ParentsShareTheProject, ParentIn
<1>4. rest # {}
  BY <1>1
<1>5. rest \in SUBSET {j \in Issues : Exists(j)}
  BY <1>2
<1> HIDE DEF rest
<1>6. \A j \in rest : issues[j].parent \in rest
  BY <1>2, <1>3 DEF rest
<1> QED  BY <1>4, <1>5, <1>6 DEF NoParentCycle

-----------------------------------------------------------------------------
(***************************************************************************)
(* The inductive invariant.                                                 *)
(***************************************************************************)
LEMMA InitHierarchy == Init => IInv
<1> SUFFICES ASSUME Init PROVE IInv
  OBVIOUS
<1>1. NoRequest \in Requests
  BY DEF NoRequest
<1>2. TypeOK
  BY <1>1 DEF Init, TypeOK
<1>3. LocksExclude /\ ParentsShareTheProject
  BY DEF Init, LocksExclude, ParentsShareTheProject, Exists
<1>4. CyclesNeedARace
  BY DEF Init, CyclesNeedARace, NoParentCycle, Exists
<1>5. ASSUME NEW w \in Workers PROVE RequestStands(w) /\ CheckStands(w) /\ WriteStands(w)
  BY DEF Init, RequestStands, CheckStands, WriteStands
<1> QED  BY <1>2, <1>3, <1>4, <1>5 DEF IInv

\* While no issue changes, what a worker knows depends on its own variables.
LEMMA OthersStand ==
  ASSUME IInv, NEW v \in Workers, UNCHANGED issues, step'[v] = step[v],
         request'[v] = request[v], locked'[v] = locked[v], stale'[v] = stale[v]
  PROVE  RequestStands(v)' /\ CheckStands(v)' /\ WriteStands(v)'
<1>1. RequestStands(v) /\ CheckStands(v) /\ WriteStands(v)
  BY DEF IInv
<1>2. RequestStands(v)'
  BY <1>1 DEF RequestStands, Exists, ParentIn
<1>3. CheckStands(v)'
  BY <1>1 DEF CheckStands, Descendants, Children, Exists
<1>4. WriteStands(v)'
  BY <1>1 DEF WriteStands, Exists
<1> QED  BY <1>2, <1>3, <1>4

\* While no issue changes, neither does the shape of the hierarchy.
LEMMA HierarchyStands ==
  ASSUME IInv, UNCHANGED issues, UNCHANGED raced
  PROVE  ParentsShareTheProject' /\ CyclesNeedARace'
BY DEF IInv, ParentsShareTheProject, ParentIn, CyclesNeedARace, NoParentCycle, Exists

LEMMA BeginStands ==
  ASSUME IInv, NEW w \in Workers, NEW r \in Requests, Begin(w, r)
  PROVE  IInv'
<1> DEFINE st == IF r.op = "create_issue" THEN "write" ELSE "check parent"
<1>1. /\ request' = [request EXCEPT ![w] = r] /\ step' = [step EXCEPT ![w] = st]
      /\ UNCHANGED <<issues, locked, historyVars>>
  BY DEF Begin
<1>2. /\ r.op = "create_issue" => ParentIn(r.parent, r.project)
      /\ r.op = "update_issue" => Exists(r.issue) /\ ParentIn(r.parent, issues[r.issue].project)
  BY DEF Begin
<1>3. st \in {"write", "check parent"}
  OBVIOUS
<1>4. /\ st = "write" => r.op = "create_issue"
      /\ st = "check parent" => r.op = "update_issue"
  BY RequestFields
<1> HIDE DEF st
<1>5. TypeOK'
  BY <1>1, <1>3 DEF IInv, TypeOK, historyVars
<1>6. LocksExclude'
  BY <1>1 DEF IInv, LocksExclude
<1>7. ASSUME NEW v \in Workers PROVE RequestStands(v)' /\ CheckStands(v)' /\ WriteStands(v)'
  <2>1. CASE v = w
    <3>1. request'[w] = r /\ step'[w] = st
      BY <1>1 DEF IInv, TypeOK
    <3>2. RequestStands(w)'
      BY <1>1, <1>2, <3>1 DEF RequestStands, Exists, ParentIn
    <3>3. CheckStands(w)' /\ WriteStands(w)'
      BY <1>3, <1>4, <3>1 DEF CheckStands, WriteStands
    <3> QED  BY <2>1, <3>2, <3>3
  <2>2. CASE v # w
    <3>1. step'[v] = step[v] /\ request'[v] = request[v]
      BY <1>1, <2>2 DEF IInv, TypeOK
    <3> QED  BY <1>1, <3>1, OthersStand DEF historyVars
  <2> QED  BY <2>1, <2>2
<1> QED  BY <1>1, <1>5, <1>6, <1>7, HierarchyStands DEF IInv, historyVars

LEMMA CheckParentStands ==
  ASSUME IInv, NEW w \in Workers, CheckParent(w)
  PROVE  IInv'
<1>1. /\ step[w] = "check parent" /\ step' = [step EXCEPT ![w] = "write"]
      /\ UNCHANGED <<issues, request, locked, historyVars>>
      /\ request[w].parent # NoParent =>
           request[w].parent \notin Descendants(request[w].issue)
  BY DEF CheckParent
<1>2. TypeOK'
  BY <1>1 DEF IInv, TypeOK, historyVars
<1>3. LocksExclude'
  BY <1>1 DEF IInv, LocksExclude
<1>4. request[w].parent \notin Descendants(request[w].issue)
  BY <1>1 DEF Descendants
<1>5. ASSUME NEW v \in Workers PROVE RequestStands(v)' /\ CheckStands(v)' /\ WriteStands(v)'
  <2>1. CASE v = w
    <3>1. step'[w] = "write"
      BY <1>1 DEF IInv, TypeOK
    <3>2. RequestStands(w)'
      BY <1>1 DEF IInv, RequestStands, Exists, ParentIn
    <3>3. CheckStands(w)'
      BY <1>1, <1>4, <3>1 DEF CheckStands, Descendants, Children, Exists
    <3>4. WriteStands(w)'
      BY <3>1 DEF WriteStands
    <3> QED  BY <2>1, <3>2, <3>3, <3>4
  <2>2. CASE v # w
    <3>1. step'[v] = step[v]
      BY <1>1, <2>2 DEF IInv, TypeOK
    <3> QED  BY <1>1, <3>1, OthersStand DEF historyVars
  <2> QED  BY <2>1, <2>2
<1> QED  BY <1>1, <1>2, <1>3, <1>5, HierarchyStands DEF IInv, historyVars

LEMMA WriteIssueStands ==
  ASSUME IInv, NEW w \in Workers, WriteIssue(w)
  PROVE  IInv'
<1> DEFINE r == request[w]
<1>1. /\ step[w] = "write" /\ step' = [step EXCEPT ![w] = "commit"]
      /\ locked' = [locked EXCEPT ![w] = r.issue]
      /\ \A v \in Workers \ {w} : locked[v] # r.issue
      /\ r.parent # r.issue
      /\ r.op = "create_issue" => ~Exists(r.issue)
      /\ UNCHANGED <<issues, request, historyVars>>
  BY DEF WriteIssue
<1>2. r \in Requests /\ r.issue \in Issues
  BY RequestFields DEF IInv, TypeOK
<1>3. TypeOK'
  BY <1>1, <1>2 DEF IInv, TypeOK, historyVars
<1>4. LocksExclude'
  BY <1>1, <1>2 DEF IInv, TypeOK, LocksExclude
<1>5. ASSUME NEW v \in Workers PROVE RequestStands(v)' /\ CheckStands(v)' /\ WriteStands(v)'
  <2>1. CASE v = w
    <3>1. step'[w] = "commit" /\ locked'[w] = r.issue
      BY <1>1 DEF IInv, TypeOK
    <3>2. RequestStands(w)'
      BY <1>1 DEF IInv, RequestStands, Exists, ParentIn
    <3>3. CheckStands(w)'
      BY <1>1, <3>1 DEF IInv, CheckStands, Descendants, Children, Exists, historyVars
    <3>4. WriteStands(w)'
      BY <1>1, <3>1 DEF WriteStands, Exists
    <3> QED  BY <2>1, <3>2, <3>3, <3>4
  <2>2. CASE v # w
    <3>1. step'[v] = step[v] /\ locked'[v] = locked[v]
      BY <1>1, <2>2 DEF IInv, TypeOK
    <3> QED  BY <1>1, <3>1, OthersStand DEF historyVars
  <2> QED  BY <2>1, <2>2
<1> QED  BY <1>1, <1>3, <1>4, <1>5, HierarchyStands DEF IInv, historyVars

LEMMA AbortStands ==
  ASSUME IInv, NEW w \in Workers, Abort(w)
  PROVE  IInv'
<1>1. /\ step' = [step EXCEPT ![w] = "idle"] /\ request' = [request EXCEPT ![w] = NoRequest]
      /\ locked' = [locked EXCEPT ![w] = Absent] /\ stale' = [stale EXCEPT ![w] = FALSE]
      /\ UNCHANGED <<issues, raced>>
  BY DEF Abort, EndTransaction
<1>2. TypeOK'
  BY <1>1 DEF IInv, TypeOK, NoRequest
<1>3. LocksExclude'
  BY <1>1 DEF IInv, TypeOK, LocksExclude
<1>4. ASSUME NEW v \in Workers PROVE RequestStands(v)' /\ CheckStands(v)' /\ WriteStands(v)'
  <2>1. CASE v = w
    BY <1>1, <2>1 DEF IInv, TypeOK, RequestStands, CheckStands, WriteStands
  <2>2. CASE v # w
    <3>1. /\ step'[v] = step[v] /\ request'[v] = request[v]
          /\ locked'[v] = locked[v] /\ stale'[v] = stale[v]
      BY <1>1, <2>2 DEF IInv, TypeOK
    <3> QED  BY <1>1, <3>1, OthersStand
  <2> QED  BY <2>1, <2>2
<1> QED  BY <1>1, <1>2, <1>3, <1>4, HierarchyStands DEF IInv

\* A committed write keeps every row in its project, and the other rows as they are.
LEMMA CommitKeepsRows ==
  ASSUME IInv, NEW w \in Workers, Commit(w)
  PROVE  /\ TypeOK'
         /\ \A j \in Issues \ {request[w].issue} : issues'[j] = issues[j]
         /\ \A j \in Issues :
              Exists(j) => Exists(j)' /\ issues'[j].project = issues[j].project
<1> DEFINE r == request[w]
           row == IF r.op = "create_issue"
                  THEN [project |-> r.project, parent |-> r.parent, revision |-> 1]
                  ELSE [issues[r.issue] EXCEPT !.parent = r.parent,
                                              !.revision = issues[r.issue].revision + 1]
<1>1. /\ r \in Requests /\ r.issue \in Issues /\ r.parent \in Issues \cup {NoParent}
      /\ r.op \in {"create_issue", "update_issue"}
      /\ r.op = "create_issue" => r.project \in Projects
  BY RequestFields DEF IInv, TypeOK
<1>2. /\ step[w] = "commit" /\ issues' = [issues EXCEPT ![r.issue] = row]
      /\ step' = [step EXCEPT ![w] = "idle"] /\ request' = [request EXCEPT ![w] = NoRequest]
      /\ locked' = [locked EXCEPT ![w] = Absent] /\ raced' = (raced \/ stale[w])
      /\ stale' \in [Workers -> BOOLEAN]
  BY DEF Commit, NewRow, EndTransaction, IInv, TypeOK
<1>3. CASE r.op = "create_issue"
  <2>1. ~Exists(r.issue) /\ row \in IssueRow
    BY <1>1, <1>2, <1>3 DEF IInv, WriteStands, IssueRow
  <2> HIDE DEF row
  <2> QED  BY <1>1, <1>2, <2>1 DEF IInv, TypeOK, NoRequest, Exists
<1>4. CASE r.op = "update_issue"
  <2>1. issues[r.issue] \in IssueRow
    BY <1>1, <1>2, <1>4 DEF IInv, TypeOK, RequestStands, Exists
  <2>2. row = [project |-> issues[r.issue].project, parent |-> r.parent,
               revision |-> issues[r.issue].revision + 1]
    BY <1>4, <2>1 DEF IssueRow
  <2>3. row \in IssueRow /\ row.project = issues[r.issue].project
    BY <1>1, <2>1, <2>2 DEF IssueRow
  <2> HIDE DEF row
  <2> QED  BY <1>1, <1>2, <2>3 DEF IInv, TypeOK, NoRequest, Exists
<1> QED  BY <1>1, <1>3, <1>4

LEMMA CommitStands ==
  ASSUME IInv, NEW w \in Workers, Commit(w)
  PROVE  IInv'
<1> DEFINE r == request[w]
<1>1. /\ r \in Requests /\ r.issue \in Issues /\ r.parent \in Issues \cup {NoParent}
      /\ r.op \in {"create_issue", "update_issue"}
      /\ r.op = "create_issue" => r.project \in Projects
  BY RequestFields DEF IInv, TypeOK
<1>2. /\ step[w] = "commit"
      /\ step' = [step EXCEPT ![w] = "idle"] /\ request' = [request EXCEPT ![w] = NoRequest]
      /\ locked' = [locked EXCEPT ![w] = Absent] /\ raced' = (raced \/ stale[w])
      /\ stale' = [v \in Workers |->
           /\ v # w
           /\ \/ stale[v]
              \/ /\ r.op = "update_issue" /\ request[v].op = "update_issue"
                 /\ step[v] \in {"write", "commit"}]
  BY DEF Commit, EndTransaction
<1>3. /\ TypeOK'
      /\ \A j \in Issues \ {r.issue} : issues'[j] = issues[j]
      /\ \A j \in Issues :
           Exists(j) => Exists(j)' /\ issues'[j].project = issues[j].project
  BY CommitKeepsRows
<1>4. /\ locked[w] = r.issue /\ r.parent # r.issue
      /\ r.op = "create_issue" => ~Exists(r.issue) /\ ParentIn(r.parent, r.project)
      /\ r.op = "update_issue" => Exists(r.issue) /\ ParentIn(r.parent, issues[r.issue].project)
      /\ r.op = "update_issue" /\ ~stale[w] => r.parent \notin Descendants(r.issue)
  BY <1>2 DEF IInv, RequestStands, CheckStands, WriteStands
<1>5. LocksExclude'
  BY <1>2 DEF IInv, TypeOK, LocksExclude
\* Parents found in a project stay there.
<1>6. ASSUME NEW p \in Issues \cup {NoParent}, NEW q, ParentIn(p, q)
      PROVE  p # NoParent => Exists(p)' /\ issues'[p].project = q
  BY <1>3, <1>6 DEF ParentIn
<1>7. ParentsShareTheProject' /\ CyclesNeedARace'
  <2>1. CASE r.op = "create_issue"
    <3> DEFINE row == [project |-> r.project, parent |-> r.parent, revision |-> 1]
    <3>1. row \in IssueRow /\ row.parent = r.parent /\ row.project = r.project
      BY <1>1, <2>1 DEF IssueRow
    <3>2. issues' = [issues EXCEPT ![r.issue] = row]
      BY <2>1 DEF Commit, NewRow
    <3> HIDE DEF row
    <3>3. issues'[r.issue] = row
      BY <1>1, <3>2 DEF IInv, TypeOK
    <3>4. ASSUME NEW j \in Issues, Exists(j)'
          PROVE  ParentIn(issues[j].parent, issues[j].project)'
      <4>1. CASE j = r.issue
        BY <1>1, <1>4, <1>6, <2>1, <3>1, <3>3, <4>1 DEF ParentIn
      <4>2. CASE j # r.issue
        <5>1. issues'[j] = issues[j] /\ Exists(j)
          BY <1>3, <3>4, <4>2 DEF Exists
        <5>2. ParentIn(issues[j].parent, issues[j].project)
              /\ issues[j].parent \in Issues \cup {NoParent}
          BY <5>1 DEF IInv, ParentsShareTheProject, ParentIn, TypeOK, Exists, IssueRow
        <5> QED  BY <1>6, <5>1, <5>2 DEF ParentIn
      <4> QED  BY <4>1, <4>2
    <3>5. ParentsShareTheProject'
      BY <3>4 DEF ParentsShareTheProject, ParentIn
    <3>6. CyclesNeedARace'
      BY <1>1, <1>2, <1>4, <2>1, <3>1, <3>2, NewIssueClosesNoCycle DEF IInv, CyclesNeedARace
    <3> QED  BY <3>5, <3>6
  <2>2. CASE r.op = "update_issue"
    <3>1. issues[r.issue] \in IssueRow
      BY <1>1, <1>4, <2>2 DEF IInv, TypeOK, Exists
    <3> DEFINE n == issues[r.issue].revision + 1
               row == [issues[r.issue] EXCEPT !.parent = r.parent, !.revision = n]
    <3>2. n \in Nat \ {0}
      BY <3>1 DEF IssueRow
    <3>3. issues' = [issues EXCEPT ![r.issue] = row]
      BY <1>1, <2>2 DEF Commit, IInv, TypeOK
    <3>4. row.parent = r.parent /\ row.project = issues[r.issue].project
      BY <3>1 DEF IssueRow
    <3>5. CyclesNeedARace'
      <4> HIDE DEF n
      <4> SUFFICES ASSUME ~raced' PROVE NoParentCycle'
        BY DEF CyclesNeedARace
      <4>1. NoParentCycle /\ r.parent \notin Descendants(r.issue)
        BY <1>2, <1>4, <2>2 DEF IInv, CyclesNeedARace
      <4> QED
        BY <1>1, <1>4, <2>2, <3>2, <3>3, <4>1, ParentCheckIsSound DEF IInv
    <3> HIDE DEF row
    <3>6. issues'[r.issue] = row
      BY <1>1, <3>3 DEF IInv, TypeOK
    <3>7. ASSUME NEW j \in Issues, Exists(j)'
          PROVE  ParentIn(issues[j].parent, issues[j].project)'
      <4>1. CASE j = r.issue
        BY <1>1, <1>4, <1>6, <2>2, <3>4, <3>6, <4>1 DEF ParentIn
      <4>2. CASE j # r.issue
        <5>1. issues'[j] = issues[j] /\ Exists(j)
          BY <1>3, <3>7, <4>2 DEF Exists
        <5>2. ParentIn(issues[j].parent, issues[j].project)
              /\ issues[j].parent \in Issues \cup {NoParent}
          BY <5>1 DEF IInv, ParentsShareTheProject, ParentIn, TypeOK, Exists, IssueRow
        <5> QED  BY <1>6, <5>1, <5>2 DEF ParentIn
      <4> QED  BY <4>1, <4>2
    <3> QED  BY <3>5, <3>7 DEF ParentsShareTheProject, ParentIn
  <2> QED  BY <1>1, <2>1, <2>2
<1>8. ASSUME NEW v \in Workers PROVE RequestStands(v)' /\ CheckStands(v)' /\ WriteStands(v)'
  <2>1. CASE v = w
    BY <1>2, <2>1 DEF IInv, TypeOK, RequestStands, CheckStands, WriteStands
  <2>2. CASE v # w
    <3>1. step'[v] = step[v] /\ request'[v] = request[v] /\ locked'[v] = locked[v]
      BY <1>2, <2>2 DEF IInv, TypeOK
    <3>2. /\ request[v] \in Requests /\ request[v].issue \in Issues
          /\ request[v].parent \in Issues \cup {NoParent}
          /\ RequestStands(v) /\ CheckStands(v) /\ WriteStands(v)
      BY RequestFields DEF IInv, TypeOK
    <3>3. RequestStands(v)'
      <4>1. ASSUME step[v] # "idle", request[v].op = "create_issue"
            PROVE  ParentIn(request[v].parent, request[v].project)'
        BY <1>6, <3>1, <3>2, <4>1 DEF RequestStands, ParentIn
      <4>2. ASSUME step[v] # "idle", request[v].op = "update_issue"
            PROVE  /\ Exists(request[v].issue)'
                   /\ ParentIn(request[v].parent, issues[request[v].issue].project)'
        <5>1. /\ Exists(request[v].issue)
              /\ ParentIn(request[v].parent, issues[request[v].issue].project)
          BY <3>2, <4>2 DEF RequestStands
        <5>2. /\ Exists(request[v].issue)'
              /\ issues'[request[v].issue].project = issues[request[v].issue].project
          BY <1>3, <3>1, <3>2, <5>1
        <5> QED  BY <1>6, <3>1, <3>2, <5>1, <5>2 DEF ParentIn
      <4> QED  BY <3>1, <4>1, <4>2 DEF RequestStands
    <3>4. CheckStands(v)'
      <4>1. CASE step[v] \in {"write", "commit"} /\ request[v].op = "update_issue" /\ ~stale'[v]
        <5>1. r.op = "create_issue" /\ ~stale[v]
          BY <1>1, <1>2, <2>2, <4>1
        <5>2. request[v].parent \notin Descendants(request[v].issue)
          BY <3>2, <4>1, <5>1 DEF CheckStands
        <5>3. request[v].parent # r.issue
          BY <1>1, <1>4, <3>2, <4>1, <5>1 DEF RequestStands, ParentIn
        <5> DEFINE row == [project |-> r.project, parent |-> r.parent, revision |-> 1]
        <5>4. row \in IssueRow /\ row.parent = r.parent
          BY <1>1, <5>1 DEF IssueRow
        <5>5. issues' = [issues EXCEPT ![r.issue] = row]
          BY <5>1 DEF Commit, NewRow
        <5>6. r.parent # NoParent => Exists(r.parent)
          BY <1>4, <5>1 DEF ParentIn
        <5> HIDE DEF row
        <5>7. \A i : Descendants(i)' \subseteq Descendants(i) \cup {r.issue}
          BY <1>1, <1>4, <5>1, <5>4, <5>5, <5>6, NewIssueIsALeaf DEF IInv
        <5>8. request[v].parent \notin Descendants(request[v].issue)'
          BY <3>1, <5>2, <5>3, <5>7
        <5> QED  BY <3>1, <4>1, <5>8 DEF CheckStands
      <4>2. CASE ~(step[v] \in {"write", "commit"} /\ request[v].op = "update_issue" /\ ~stale'[v])
        BY <3>1, <3>2, <4>2 DEF CheckStands
      <4> QED  BY <4>1, <4>2
    <3>5. WriteStands(v)'
      <4>1. ASSUME step[v] = "commit", request[v].op = "create_issue"
            PROVE  ~Exists(request[v].issue)'
        <5>1. locked[v] = request[v].issue /\ ~Exists(request[v].issue)
          BY <3>2, <4>1 DEF WriteStands
        <5>2. request[v].issue # r.issue
          BY <1>4, <2>2, <3>2, <5>1 DEF IInv, LocksExclude
        <5> QED  BY <1>3, <3>1, <3>2, <5>1, <5>2 DEF Exists
      <4> QED  BY <3>1, <3>2, <4>1 DEF WriteStands
    <3> QED  BY <3>3, <3>4, <3>5
  <2> QED  BY <2>1, <2>2
<1> QED  BY <1>3, <1>5, <1>7, <1>8 DEF IInv

LEMMA NextStands == IInv /\ [Next]_vars => IInv'
<1> SUFFICES ASSUME IInv, [Next]_vars PROVE IInv'
  OBVIOUS
<1>1. CASE Next
  BY <1>1, BeginStands, CheckParentStands, WriteIssueStands, CommitStands, AbortStands DEF Next
<1>2. CASE UNCHANGED vars
  <2>1. TypeOK' /\ LocksExclude'
    BY <1>2 DEF vars, historyVars, IInv, TypeOK, LocksExclude
  <2>2. ASSUME NEW v \in Workers PROVE RequestStands(v)' /\ CheckStands(v)' /\ WriteStands(v)'
    BY <1>2, OthersStand DEF vars, historyVars
  <2> QED  BY <1>2, <2>1, <2>2, HierarchyStands DEF vars, historyVars, IInv
<1> QED  BY <1>1, <1>2

(***************************************************************************)
(* IInv is invariant: what create_issue and update_issue have read before   *)
(* their write stays true up to their commit, or the check is stale.        *)
(***************************************************************************)
THEOREM HierarchyInvariance == Spec => []IInv
BY InitHierarchy, NextStands, PTL DEF Spec

(***************************************************************************)
(* Whatever create_issue and update_issue do, issues stay rows with a       *)
(* project and at most one parent.                                          *)
(***************************************************************************)
THEOREM HierarchyIsTyped == Spec => []TypeOK
<1>1. IInv => TypeOK
  BY DEF IInv
<1> QED  BY <1>1, HierarchyInvariance, PTL

(***************************************************************************)
(* The parents of issues form no cycle unless some update_issue committed   *)
(* on a parent check that another update_issue had made stale.              *)
(***************************************************************************)
THEOREM RaceFreeHierarchyIsAcyclic == Spec => []CyclesNeedARace
<1>1. IInv => CyclesNeedARace
  BY DEF IInv
<1> QED  BY <1>1, HierarchyInvariance, PTL

(***************************************************************************)
(* The parent of an issue exists and shares its project, although nothing   *)
(* but the parent's existence is enforced by the schema.                    *)
(***************************************************************************)
THEOREM ParentsStayInProject == Spec => []ParentsShareTheProject
<1>1. IInv => ParentsShareTheProject
  BY DEF IInv
<1> QED  BY <1>1, HierarchyInvariance, PTL

=============================================================================
