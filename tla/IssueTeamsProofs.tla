-------------------------- MODULE IssueTeamsProofs --------------------------
(***************************************************************************)
(* That the teams of a project cover its issues, and that issues keep only  *)
(* attachments that fit, proved for any number of workers, projects, teams  *)
(* and issues and for any requests.                                         *)
(***************************************************************************)
EXTENDS IssueTeams, TLAPS

USE AbsentAssumption, KindsAssumption, RequestsAssumption, AheadAssumption DEF revisionVars

-----------------------------------------------------------------------------
(***************************************************************************)
(* The inductive invariant, part by part.                                   *)
(***************************************************************************)

\* Two writers of a row exclude each other.
LocksExclude ==
  \A v, w \in Workers : v # w =>
    /\ exclusive[v] \cap (exclusive[w] \cup written[w]) = {}
    /\ written[v] \cap written[w] = {}

\* The steps at which a transaction has written its row.
After == {"attach labels", "strip labels", "share owner", "gate", "append", "commit",
          "share key"}

StepFits(w) ==
  /\ step[w] \in {"write project", "share lead", "replace teams", "insert teams"} =>
       request[w].op = "update_project"
  /\ step[w] = "share lead" => request[w].lead # Absent
  /\ step[w] \in {"write issue", "share key"} => request[w].op \in TeamChoices
  /\ step[w] = "attach labels" => request[w].op \in {"create_issue", "update_issue"}
  /\ step[w] = "strip labels" => request[w].op = "move_issue"
  /\ step[w] = "share owner" =>
       request[w].op \in Puts /\ request[w].owner \in Teams \cup Projects
  /\ step[w] = "append" => request[w].op \in AboutIssues

\* What update_issue and move_issue have read is current if they may write and
\* have not guessed the revision, and nobody else writes once they have.
ReadStands(w) ==
  LET i == request[w].issue
  IN request[w].op \in {"update_issue", "move_issue"} =>
       /\ before[w] \in IssueRow /\ issues[i] \in IssueRow
       /\ issues[i].project = before[w].project
       /\ w \notin guesses => gap[w] <= 0
       /\ w \notin guesses /\ gap[w] = 0 => issues[i] = before[w]
       /\ step[w] \in After => gap[w] = 0 /\ i \in exclusive[w] \cup written[w]

InsertStands(w) ==
  request[w].op = "create_issue" /\ step[w] \in After =>
    issues[request[w].issue] = Absent /\ request[w].issue \in exclusive[w]

\* The cycle and the milestone a transaction will leave on its issue.
ReferencesStand(w) ==
  LET r == request[w]
  IN /\ r.op = "create_issue" =>
          /\ r.cycle # Absent => owner[r.cycle] = r.team
          /\ r.milestone # Absent => owner[r.milestone] = r.project
     /\ r.op = "update_issue" =>
          /\ r.cycle # Absent /\ step[w] \in After => owner[r.cycle] = issues[r.issue].team
          /\ r.milestone # Absent => owner[r.milestone] = before[w].project

LabelsFit(ls, t) == \A l \in ls : Fits(l, t) \/ l \in retargeted

\* The labels it will leave.
LabelsStand(w) ==
  LET r == request[w]
  IN /\ r.op = "create_issue" => LabelsFit(r.labels, r.team)
     /\ r.op = "update_issue" /\ w \notin guesses => LabelsFit(r.labels, before[w].team)
     /\ r.op \in {"create_issue", "update_issue"} /\ step[w] \in After =>
          carried[w] = r.labels
     /\ r.op = "move_issue" /\ step[w] \in After \ {"strip labels"} =>
          LabelsFit(carried[w], r.team)

\* The project_teams row it has looked up is there unless it has been overtaken.
KeyStands(w) == step[w] = "share key" /\ w \notin overtaken => Key(w) \in attached

\* The label, cycle or milestone it puts.
PutStands(w) ==
  LET r == request[w]
  IN r.op \in Puts /\ step[w] \in After =>
       /\ r.row \in exclusive[w]
       /\ r.op # "put_label" => owner[r.row] \in {Absent, r.owner}

TransactionStands(w) ==
  step[w] # "idle" =>
    /\ StepFits(w) /\ ReadStands(w) /\ InsertStands(w) /\ ReferencesStand(w)
    /\ LabelsStand(w) /\ KeyStands(w) /\ PutStands(w)

IInv ==
  /\ TypeOK /\ LocksExclude /\ TeamsCoverIssues /\ AttachmentsFit
  /\ \A w \in Workers : TransactionStands(w)

-----------------------------------------------------------------------------
(***************************************************************************)
(* The fields each kind of request has.                                     *)
(***************************************************************************)
LEMMA RequestFields ==
  ASSUME NEW r \in Requests
  PROVE  /\ r.op = "update_project" =>
              /\ r.project \in Projects /\ r.teams \subseteq Teams
              /\ r.lead \in Teams \cup {Absent}
         /\ r.op = "put_team" => r.team \in Teams /\ r.renames \in BOOLEAN
         /\ r.op \in AboutIssues => r.issue \in Issues
         /\ r.op = "create_issue" => r.project \in Projects
         /\ r.op \in TeamChoices => r.team \in Teams
         /\ r.op \in {"create_issue", "update_issue"} =>
              /\ r.labels \subseteq Labels /\ r.cycle \in Cycles \cup {Absent}
              /\ r.milestone \in Milestones \cup {Absent}
         /\ r.op = "put_label" => r.row \in Labels
         /\ r.op \in {"put_cycle", "put_milestone"} => r.row \in Cycles \cup Milestones
         /\ r.op \in Puts => r.owner \in Owners
         /\ r.op \in {"put_milestone"} => r.owner \in Projects
         /\ r.op \in {"put_label"} => r.owner \in Teams \cup {AnyTeam}
         /\ r.op \in {"put_cycle"} => r.owner \in Teams
         /\ r.op \in {"update_project", "put_team"} \cup AboutIssues \cup Puts
<1>1. r \in Request
  OBVIOUS
<1> QED
  BY <1>1 DEF Request, AboutIssues, IssueWrites, TeamChoices, Puts, Owners

\* The rows an issue writer's statements name.
LEMMA RowsNamed ==
  ASSUME IInv, NEW w \in Workers
  PROVE  /\ request[w].op \in AboutIssues => request[w].issue \in Rows
         /\ request[w].op \in {"create_issue", "update_issue"} =>
              request[w].labels \subseteq Labels /\ Referenced(w) \subseteq Rows
<1>1. request[w] \in Requests
  BY DEF IInv, TypeOK
<1>2. request[w].op \in AboutIssues => request[w].issue \in Rows
  BY <1>1, RequestFields DEF Rows
<1>3. request[w].op \in {"create_issue", "update_issue"} =>
        /\ request[w].labels \subseteq Labels /\ request[w].cycle \in Cycles \cup {Absent}
        /\ request[w].milestone \in Milestones \cup {Absent}
  BY <1>1, RequestFields
<1>4. Cycles \subseteq Rows /\ Milestones \subseteq Rows
  BY DEF Rows
<1> QED  BY <1>2, <1>3, <1>4 DEF Referenced


LEMMA GapBounds ==
  /\ 0 \in Gaps /\ 0..MaxAhead \subseteq Gaps /\ Gaps \subseteq Int
  /\ \A n \in Gaps : n >= 0 => n - 1 \in Gaps
  /\ \A n \in Int : n < 0 => n <= 0 /\ n # 0
  /\ \A m, n \in Int : m <= 0 /\ n = (IF m >= 0 THEN m - 1 ELSE m) => n < 0
  BY AheadAssumption DEF Gaps

LEMMA NoRequestIsRequest == NoRequest \in Requests
BY DEF NoRequest

LEMMA AbsentIsNoOwner == Absent \notin Teams /\ Absent \notin Projects /\ Absent # AnyTeam
BY DEF Owners

LEMMA InitStands == Init => IInv
<1> SUFFICES ASSUME Init PROVE IInv
  OBVIOUS
<1>1. TypeOK
  BY FirstAssumption, NoRequestIsRequest, GapBounds DEF Init, TypeOK, Steps
<1>2. LocksExclude /\ TeamsCoverIssues /\ AttachmentsFit
  BY DEF Init, LocksExclude, TeamsCoverIssues, AttachmentsFit
<1> QED  BY <1>1, <1>2 DEF Init, IInv, TransactionStands

-----------------------------------------------------------------------------
(***************************************************************************)
(* Steps that publish nothing.                                              *)
(***************************************************************************)

\* What a transaction relies on are its own variables and the database.
OthersStay(w) ==
  \A v \in Workers \ {w} :
    /\ step'[v] = step[v] /\ request'[v] = request[v] /\ before'[v] = before[v]
    /\ carried'[v] = carried[v] /\ exclusive'[v] = exclusive[v] /\ written'[v] = written[v]

LEMMA Untouched ==
  ASSUME NEW v \in Workers, TransactionStands(v), UNCHANGED dbVars,
         step'[v] = step[v], request'[v] = request[v], before'[v] = before[v],
         carried'[v] = carried[v], exclusive'[v] = exclusive[v], written'[v] = written[v],
         gap'[v] = gap[v], v \in guesses' <=> v \in guesses,
         v \in overtaken' <=> v \in overtaken
  PROVE  TransactionStands(v)'
<1>1. StepFits(v)' = StepFits(v) /\ Key(v)' = Key(v)
  BY DEF StepFits, Key
<1>2. \A ls, t : LabelsFit(ls, t)' = LabelsFit(ls, t)
  BY DEF LabelsFit, Fits, dbVars
<1>3. ReadStands(v)' = ReadStands(v) /\ InsertStands(v)' = InsertStands(v)
  BY DEF ReadStands, InsertStands, dbVars
<1>4. ReferencesStand(v)' = ReferencesStand(v) /\ PutStands(v)' = PutStands(v)
  BY DEF ReferencesStand, PutStands, dbVars
<1>5. LabelsStand(v) => LabelsStand(v)'
  BY <1>2 DEF LabelsStand
<1>6. KeyStands(v)' = KeyStands(v)
  BY <1>1 DEF KeyStands, dbVars
<1> QED  BY <1>1, <1>3, <1>4, <1>5, <1>6 DEF TransactionStands

LEMMA QuietStands ==
  ASSUME IInv, NEW w \in Workers, UNCHANGED <<dbVars, gap, guesses, overtaken>>, OthersStay(w),
         TypeOK', LocksExclude', TransactionStands(w)'
  PROVE  IInv'
<1>1. ASSUME NEW v \in Workers PROVE TransactionStands(v)'
  BY <1>1, Untouched DEF OthersStay, IInv
<1>2. TeamsCoverIssues' /\ AttachmentsFit'
  BY DEF IInv, TeamsCoverIssues, AttachmentsFit, Fits, dbVars
<1> QED  BY <1>1, <1>2 DEF IInv

\* A transaction ends without a commit.
LEMMA EndedStands ==
  ASSUME IInv, NEW w \in Workers, EndTransaction(w),
         gap' = [gap EXCEPT ![w] = 0], overtaken' = overtaken \ {w}, UNCHANGED dbVars
  PROVE  IInv'
<1>1. TypeOK'
  BY NoRequestIsRequest, GapBounds DEF EndTransaction, Goto, dbVars, IInv, TypeOK, Steps
<1>2. OthersStay(w) /\ step'[w] = "idle" /\ LocksExclude'
  BY DEF EndTransaction, Goto, IInv, TypeOK, OthersStay, LocksExclude
<1>3. ASSUME NEW v \in Workers PROVE TransactionStands(v)'
  <2>1. CASE v = w
    BY <1>2, <2>1 DEF TransactionStands
  <2>2. CASE v # w
    <3>1. gap'[v] = gap[v] /\ (v \in guesses' <=> v \in guesses)
      BY <2>2 DEF EndTransaction, IInv, TypeOK
    <3> QED  BY <1>2, <2>2, <3>1, Untouched DEF OthersStay, IInv
  <2> QED  BY <2>1, <2>2
<1>4. TeamsCoverIssues' /\ AttachmentsFit'
  BY DEF IInv, TeamsCoverIssues, AttachmentsFit, Fits, dbVars
<1> QED  BY <1>1, <1>2, <1>3, <1>4 DEF IInv

LEMMA BeginStands ==
  ASSUME IInv, NEW w \in Workers, NEW r \in Requests, NEW ahead \in 0..MaxAhead,
         Begin(w, r, ahead)
  PROVE  IInv'
<1>1. UNCHANGED <<dbVars, overtaken>> /\ OthersStay(w) /\ LocksExclude'
  BY DEF Begin, Goto, IInv, TypeOK, OthersStay, LocksExclude, lockVars
<1>2. r.op \in {"update_issue", "move_issue"} => issues[r.issue] \in IssueRow
  BY RequestFields DEF Begin, Precheck, IInv, TypeOK, AboutIssues, IssueWrites
<1>3. TypeOK'
  <2>1. gap' \in [Workers -> Gaps] /\ guesses' \subseteq Workers
    <3>1. ahead \in Gaps
      BY GapBounds
    <3> QED  BY <3>1 DEF Begin, IInv, TypeOK
  <2>2. before' \in [Workers -> IssueRow \cup {NoIssue}]
    BY <1>2 DEF Begin, IInv, TypeOK
  <2>3. step' \in [Workers -> Steps] /\ request' \in [Workers -> Requests]
    BY DEF Begin, Goto, IInv, TypeOK, Steps
  <2> QED  BY <2>1, <2>2, <2>3 DEF Begin, IInv, TypeOK, dbVars, lockVars
<1>4. /\ step'[w] = "begun" /\ request'[w] = r
      /\ before'[w] = IF r.op \in {"update_issue", "move_issue"} THEN issues[r.issue]
                                                                ELSE NoIssue
      /\ gap'[w] = ahead /\ (ahead > 0 => w \in guesses')
      /\ \A v \in Workers \ {w} :
           gap'[v] = gap[v] /\ (v \in guesses' <=> v \in guesses)
  <2>1. /\ step'[w] = "begun" /\ request'[w] = r
        /\ before'[w] = IF r.op \in {"update_issue", "move_issue"} THEN issues[r.issue]
                                                                  ELSE NoIssue
    BY DEF Begin, Goto, IInv, TypeOK
  <2>2. gap' = [gap EXCEPT ![w] = ahead]
          /\ guesses' = IF ahead > 0 THEN guesses \cup {w} ELSE guesses
    BY DEF Begin
  <2>3. gap'[w] = ahead /\ (ahead > 0 => w \in guesses')
    BY <2>2 DEF IInv, TypeOK
  <2>4. \A v \in Workers \ {w} : gap'[v] = gap[v] /\ (v \in guesses' <=> v \in guesses)
    BY <2>2 DEF IInv, TypeOK
  <2> QED  BY <2>1, <2>3, <2>4
<1>5. ReadStands(w)'
  BY <1>1, <1>2, <1>4 DEF ReadStands, After, dbVars
<1>6. StepFits(w)' /\ InsertStands(w)' /\ KeyStands(w)' /\ PutStands(w)'
  BY <1>4 DEF StepFits, InsertStands, KeyStands, PutStands, After
<1>7. ReferencesStand(w)'
  BY <1>1, <1>4 DEF ReferencesStand, Begin, Precheck, DependenciesExist, After, dbVars
<1>8. LabelsStand(w)'
  BY <1>1, <1>4 DEF LabelsStand, LabelsFit, Fits, Begin, Precheck, DependenciesExist, After,
     dbVars
<1>9. TransactionStands(w)'
  BY <1>5, <1>6, <1>7, <1>8 DEF TransactionStands
<1>10. ASSUME NEW v \in Workers \ {w} PROVE TransactionStands(v)'
  BY <1>1, <1>4, Untouched DEF OthersStay, IInv
<1>11. TeamsCoverIssues' /\ AttachmentsFit'
  BY <1>1 DEF IInv, TeamsCoverIssues, AttachmentsFit, Fits, dbVars
<1> QED  BY <1>1, <1>3, <1>9, <1>10, <1>11 DEF IInv

\* A transaction that has written, or need not write, takes one more lock or
\* goes one step on.
LEMMA OnwardStands ==
  ASSUME IInv, NEW w \in Workers, step[w] # "idle", UNCHANGED <<dbVars, gap, guesses, overtaken>>,
         OthersStay(w), TypeOK', LocksExclude', request'[w] = request[w],
         before'[w] = before[w], carried'[w] = carried[w],
         exclusive[w] \subseteq exclusive'[w], written[w] \subseteq written'[w],
         step'[w] \in After => step[w] \in After \/ request[w].op \notin IssueWrites \cup Puts,
         step'[w] # "share key", StepFits(w)',
         step'[w] # "strip labels", step[w] # "strip labels"
  PROVE  IInv'
<1>1. TransactionStands(w)
  BY DEF IInv
<1>2. ReadStands(w)' /\ InsertStands(w)'
  BY <1>1 DEF TransactionStands, ReadStands, InsertStands, IssueWrites, dbVars
<1>3. ReferencesStand(w)' /\ PutStands(w)'
  BY <1>1 DEF TransactionStands, ReferencesStand, PutStands, IssueWrites, dbVars
<1>4. LabelsStand(w)'
  <2>1. \A ls, t : LabelsFit(ls, t)' = LabelsFit(ls, t)
    BY DEF LabelsFit, Fits, dbVars
  <2> QED  BY <1>1, <2>1 DEF TransactionStands, LabelsStand, IssueWrites
<1>5. KeyStands(w)'
  BY DEF KeyStands
<1>6. TransactionStands(w)'
  BY <1>2, <1>3, <1>4, <1>5 DEF TransactionStands
<1> QED  BY <1>6, QuietStands

-----------------------------------------------------------------------------
(***************************************************************************)
(* Taking locks.                                                            *)
(***************************************************************************)
LEMMA WritingLocks ==
  ASSUME IInv, NEW w \in Workers, NEW row \in Rows, CanWrite(w, row),
         written' = [written EXCEPT ![w] = @ \cup {row}], UNCHANGED exclusive
  PROVE  /\ LocksExclude' /\ written' \in [Workers -> SUBSET Rows]
         /\ written'[w] = written[w] \cup {row}
         /\ \A v \in Workers \ {w} : written'[v] = written[v]
<1>1. /\ written' \in [Workers -> SUBSET Rows] /\ written'[w] = written[w] \cup {row}
      /\ \A v \in Workers \ {w} : written'[v] = written[v]
  BY DEF IInv, TypeOK
<1> QED  BY <1>1 DEF CanWrite, IInv, LocksExclude

LEMMA ExclusiveLocks ==
  ASSUME IInv, NEW w \in Workers, NEW rows \in SUBSET Rows,
         \A row \in rows : CanLock(w, row),
         exclusive' = [exclusive EXCEPT ![w] = @ \cup rows], UNCHANGED written
  PROVE  /\ LocksExclude' /\ exclusive' \in [Workers -> SUBSET Rows]
         /\ exclusive'[w] = exclusive[w] \cup rows
         /\ \A v \in Workers \ {w} : exclusive'[v] = exclusive[v]
<1>1. /\ exclusive' \in [Workers -> SUBSET Rows] /\ exclusive'[w] = exclusive[w] \cup rows
      /\ \A v \in Workers \ {w} : exclusive'[v] = exclusive[v]
  BY DEF IInv, TypeOK
<1> QED  BY <1>1 DEF CanLock, IInv, LocksExclude

LEMMA ExclusiveLock ==
  ASSUME IInv, NEW w \in Workers, NEW row \in Rows, CanLock(w, row),
         exclusive' = [exclusive EXCEPT ![w] = @ \cup {row}], UNCHANGED written
  PROVE  /\ LocksExclude' /\ exclusive' \in [Workers -> SUBSET Rows]
         /\ exclusive'[w] = exclusive[w] \cup {row}
         /\ \A v \in Workers \ {w} : exclusive'[v] = exclusive[v]
<1>1. {row} \in SUBSET Rows /\ \A x \in {row} : CanLock(w, x)
  OBVIOUS
<1> QED  BY <1>1, ExclusiveLocks

LEMMA Stepping ==
  ASSUME IInv, NEW w \in Workers, NEW s \in Steps, Goto(w, s)
  PROVE  /\ step' \in [Workers -> Steps] /\ step'[w] = s
         /\ \A v \in Workers \ {w} : step'[v] = step[v]
BY DEF Goto, IInv, TypeOK

LEMMA StillTyped ==
  ASSUME IInv, UNCHANGED <<dbVars, request, before, gap, guesses, overtaken>>,
         step' \in [Workers -> Steps], carried' \in [Workers -> SUBSET Labels],
         pending' \in [Workers -> SUBSET (Labels \cup Teams)], exclusive' \in [Workers -> SUBSET Rows],
         written' \in [Workers -> SUBSET Rows], shared' \in [Workers -> SUBSET Rows]
  PROVE  TypeOK'
BY DEF IInv, TypeOK, dbVars

-----------------------------------------------------------------------------
(***************************************************************************)
(* The statements after which a transaction still has the same to rely on.  *)
(***************************************************************************)
LEMMA ProjectStands ==
  ASSUME IInv, NEW w \in Workers,
         \/ CheckCover(w) \/ WriteProject(w) \/ ShareLead(w) \/ ReplaceTeams(w)
         \/ TeamsInserted(w) \/ \E t \in Teams : InsertTeam(w, t)
  PROVE  IInv'
<1>1. UNCHANGED <<dbVars, gap, guesses, overtaken, request, before, carried>>
  BY DEF CheckCover, WriteProject, ShareLead, ReplaceTeams, TeamsInserted, InsertTeam,
     draftVars, lockVars
<1>2. /\ request[w].op = "update_project" /\ request[w].project \in Projects
      /\ request[w].teams \subseteq Teams /\ request[w].lead \in Teams \cup {Absent}
  <2>1. request[w].op = "update_project"
    BY DEF CheckCover, WriteProject, ShareLead, ReplaceTeams, TeamsInserted, InsertTeam, At,
       IInv, TransactionStands, StepFits
  <2> QED  BY <2>1, RequestFields DEF IInv, TypeOK
<1>3. /\ step[w] \in {"begun", "write project", "share lead", "replace teams", "insert teams"}
      /\ step'[w] \in {"write project", "share lead", "replace teams", "insert teams", "gate"}
      /\ step'[w] = "share lead" => request[w].lead # Absent
      /\ step' \in [Workers -> Steps]
      /\ \A v \in Workers \ {w} : step'[v] = step[v]
  BY DEF CheckCover, WriteProject, ShareLead, ReplaceTeams, TeamsInserted, InsertTeam, At,
     Goto, Steps, IInv, TypeOK
<1>4. /\ LocksExclude' /\ exclusive[w] \subseteq exclusive'[w]
      /\ written[w] \subseteq written'[w]
      /\ exclusive' \in [Workers -> SUBSET Rows] /\ written' \in [Workers -> SUBSET Rows]
      /\ \A v \in Workers \ {w} : exclusive'[v] = exclusive[v] /\ written'[v] = written[v]
  <2>0. exclusive \in [Workers -> SUBSET Rows] /\ written \in [Workers -> SUBSET Rows]
    BY DEF IInv, TypeOK
  <2>1. CASE UNCHANGED <<exclusive, written>>
    BY <2>0, <2>1 DEF IInv, LocksExclude
  <2>2. CASE WriteProject(w)
    <3>1. request[w].project \in Rows
      BY <1>2 DEF Rows
    <3> QED  BY <2>0, <2>2, <3>1, WritingLocks DEF WriteProject
  <2>3. CASE ReplaceTeams(w)
    <3>1. {row \in attached : row[1] = request[w].project} \in SUBSET Rows
      BY DEF IInv, TypeOK, Rows
    <3> QED  BY <2>0, <2>3, <3>1, ExclusiveLocks DEF ReplaceTeams
  <2> QED
    BY <2>1, <2>2, <2>3 DEF CheckCover, ShareLead, TeamsInserted, InsertTeam, lockVars
<1>5. /\ pending' \in [Workers -> SUBSET (Labels \cup Teams)]
      /\ shared' \in [Workers -> SUBSET Rows]
  <2>1. pending \in [Workers -> SUBSET (Labels \cup Teams)] /\ shared \in [Workers -> SUBSET Rows]
    BY DEF IInv, TypeOK
  <2>2. CASE CheckCover(w) \/ WriteProject(w) \/ TeamsInserted(w)
    BY <2>1, <2>2 DEF CheckCover, WriteProject, TeamsInserted, draftVars, lockVars
  <2>3. CASE ShareLead(w)
    <3>1. request[w].lead \in Rows
      BY <1>2, <2>3 DEF ShareLead, IInv, TransactionStands, StepFits, Rows
    <3> QED  BY <2>1, <2>3, <3>1 DEF ShareLead, draftVars
  <2>4. CASE ReplaceTeams(w)
    BY <1>2, <2>1, <2>4 DEF ReplaceTeams
  <2>5. ASSUME NEW t \in Teams, InsertTeam(w, t)
        PROVE  /\ pending' \in [Workers -> SUBSET (Labels \cup Teams)]
               /\ shared' \in [Workers -> SUBSET Rows]
    <3>1. t \in Rows
      BY DEF Rows
    <3>2. pending' \in [Workers -> SUBSET (Labels \cup Teams)]
      BY <2>1, <2>5 DEF InsertTeam
    <3>3. shared' \in [Workers -> SUBSET Rows]
      BY <2>1, <2>5, <3>1 DEF InsertTeam
    <3> QED  BY <3>2, <3>3
  <2> QED  BY <2>2, <2>3, <2>4, <2>5
<1>6. OthersStay(w)
  BY <1>1, <1>3, <1>4 DEF OthersStay
<1>7. TypeOK'
  BY <1>1, <1>3, <1>4, <1>5, StillTyped DEF IInv, TypeOK
<1>8. StepFits(w)'
  BY <1>1, <1>2, <1>3 DEF StepFits
<1> QED
  BY <1>1, <1>2, <1>3, <1>4, <1>6, <1>7, <1>8, OnwardStands DEF IssueWrites, Puts, After

\* put_team, and the key a put row refers to.
LEMMA TeamStands ==
  ASSUME IInv, NEW w \in Workers, RenameTeam(w) \/ WriteTeam(w) \/ ShareOwner(w)
  PROVE  IInv'
<1>1. UNCHANGED <<dbVars, gap, guesses, overtaken, request, before, carried, pending>>
  BY DEF RenameTeam, WriteTeam, ShareOwner, draftVars
<1>2. /\ RenameTeam(w) \/ WriteTeam(w) => request[w].op = "put_team" /\ request[w].team \in Rows
      /\ ShareOwner(w) => request[w].owner \in Rows
  BY RequestFields DEF RenameTeam, WriteTeam, ShareOwner, At, IInv, TypeOK, TransactionStands,
     StepFits, Rows
<1>3. /\ \/ step[w] = "begun" /\ request[w].op = "put_team"
         \/ step[w] = "share owner"
      /\ step'[w] = "gate" /\ step' \in [Workers -> Steps]
      /\ \A v \in Workers \ {w} : step'[v] = step[v]
  BY Stepping DEF RenameTeam, WriteTeam, ShareOwner, At, Steps
<1>4. /\ LocksExclude' /\ exclusive[w] \subseteq exclusive'[w]
      /\ written[w] \subseteq written'[w]
      /\ exclusive' \in [Workers -> SUBSET Rows] /\ written' \in [Workers -> SUBSET Rows]
      /\ shared' \in [Workers -> SUBSET Rows]
      /\ \A v \in Workers \ {w} : exclusive'[v] = exclusive[v] /\ written'[v] = written[v]
  <2>1. /\ exclusive \in [Workers -> SUBSET Rows] /\ written \in [Workers -> SUBSET Rows]
        /\ shared \in [Workers -> SUBSET Rows]
    BY DEF IInv, TypeOK
  <2>2. CASE RenameTeam(w)
    BY <1>2, <2>1, <2>2, ExclusiveLock DEF RenameTeam
  <2>3. CASE WriteTeam(w)
    BY <1>2, <2>1, <2>3, WritingLocks DEF WriteTeam
  <2>4. CASE ShareOwner(w)
    BY <1>2, <2>1, <2>4 DEF ShareOwner, IInv, LocksExclude
  <2> QED  BY <2>2, <2>3, <2>4
<1>5. OthersStay(w)
  BY <1>1, <1>3, <1>4 DEF OthersStay
<1>6. TypeOK'
  BY <1>1, <1>3, <1>4, StillTyped DEF IInv, TypeOK
<1>7. StepFits(w)'
  BY <1>3 DEF StepFits
<1> QED
  BY <1>1, <1>3, <1>4, <1>5, <1>6, <1>7, OnwardStands DEF IssueWrites, TeamChoices, Puts, After

LEMMA CountStands ==
  ASSUME IInv, NEW w \in Workers, CountIssue(w)
  PROVE  IInv'
<1>1. UNCHANGED <<dbVars, gap, guesses, overtaken, request, before, carried, pending,
                  exclusive, shared>>
  BY DEF CountIssue, draftVars
<1>2. request[w].op \in TeamChoices /\ request[w].team \in Rows
  BY RequestFields DEF CountIssue, At, IInv, TypeOK, Rows
<1>3. /\ step[w] = "begun" /\ step'[w] = "write issue" /\ step' \in [Workers -> Steps]
      /\ \A v \in Workers \ {w} : step'[v] = step[v]
  BY Stepping DEF CountIssue, At, Steps
<1>4. /\ LocksExclude' /\ written[w] \subseteq written'[w]
      /\ written' \in [Workers -> SUBSET Rows]
      /\ \A v \in Workers \ {w} : written'[v] = written[v]
  BY <1>1, <1>2, WritingLocks DEF CountIssue
<1>5. OthersStay(w)
  BY <1>1, <1>3, <1>4 DEF OthersStay
<1>6. TypeOK'
  BY <1>1, <1>3, <1>4, StillTyped DEF IInv, TypeOK
<1>7. StepFits(w)'
  BY <1>1, <1>2, <1>3 DEF StepFits
<1> QED
  BY <1>1, <1>3, <1>4, <1>5, <1>6, <1>7, OnwardStands DEF After

LEMMA AttachStands ==
  ASSUME IInv, NEW w \in Workers, LabelsAttached(w) \/ \E l \in Labels : AttachLabel(w, l)
  PROVE  IInv'
<1>1. UNCHANGED <<dbVars, gap, guesses, overtaken, request, before, carried, exclusive, written>>
  BY DEF LabelsAttached, AttachLabel, draftVars, lockVars
<1>2. /\ step[w] = "attach labels" /\ step'[w] \in {"attach labels", "gate"}
      /\ step' \in [Workers -> Steps]
      /\ \A v \in Workers \ {w} : step'[v] = step[v]
  BY Stepping DEF LabelsAttached, AttachLabel, IInv, TypeOK, Steps
<1>3. pending' \in [Workers -> SUBSET (Labels \cup Teams)] /\ shared' \in [Workers -> SUBSET Rows]
  <2>1. CASE LabelsAttached(w)
    BY <2>1 DEF LabelsAttached, IInv, TypeOK, draftVars, lockVars
  <2>2. ASSUME NEW l \in Labels, AttachLabel(w, l)
        PROVE  pending' \in [Workers -> SUBSET (Labels \cup Teams)] /\ shared' \in [Workers -> SUBSET Rows]
    <3>1. l \in Rows
      BY DEF Rows
    <3>2. pending \in [Workers -> SUBSET (Labels \cup Teams)] /\ shared \in [Workers -> SUBSET Rows]
      BY DEF IInv, TypeOK
    <3>3. pending' \in [Workers -> SUBSET (Labels \cup Teams)]
      BY <2>2, <3>2 DEF AttachLabel
    <3>4. shared' \in [Workers -> SUBSET Rows]
      BY <2>2, <3>1, <3>2 DEF AttachLabel
    <3> QED  BY <3>3, <3>4
  <2> QED  BY <2>1, <2>2
<1>4. OthersStay(w) /\ LocksExclude'
  BY <1>1, <1>2 DEF OthersStay, IInv, LocksExclude
<1>5. TypeOK'
  BY <1>1, <1>2, <1>3, StillTyped DEF IInv, TypeOK
<1>6. StepFits(w)'
  BY <1>1, <1>2 DEF IInv, TransactionStands, StepFits
<1> QED
  BY <1>1, <1>2, <1>4, <1>5, <1>6, OnwardStands DEF After

LEMMA CommentStands ==
  ASSUME IInv, NEW w \in Workers, WriteComment(w)
  PROVE  IInv'
<1>1. UNCHANGED <<dbVars, gap, guesses, overtaken, request, before, carried, pending,
                  exclusive, written>>
  BY DEF WriteComment, draftVars
<1>2. request[w].op \in {"add_comment", "update_comment"} /\ request[w].issue \in Rows
  BY RequestFields DEF WriteComment, At, AboutIssues, IInv, TypeOK, Rows
<1>3. /\ step[w] = "begun" /\ step'[w] = "gate" /\ step' \in [Workers -> Steps]
      /\ \A v \in Workers \ {w} : step'[v] = step[v]
  BY Stepping DEF WriteComment, At, Steps
<1>4. shared' \in [Workers -> SUBSET Rows]
  BY <1>2 DEF WriteComment, IInv, TypeOK
<1>5. OthersStay(w) /\ LocksExclude'
  BY <1>1, <1>3 DEF OthersStay, IInv, LocksExclude
<1>6. TypeOK'
  BY <1>1, <1>3, <1>4, StillTyped DEF IInv, TypeOK
<1>7. StepFits(w)'
  BY <1>3 DEF StepFits
<1> QED
  BY <1>1, <1>2, <1>3, <1>5, <1>6, <1>7, OnwardStands DEF IssueWrites, Puts

LEMMA ActivityStands ==
  ASSUME IInv, NEW w \in Workers, AcquireGate(w) \/ AppendActivity(w)
  PROVE  IInv'
<1>1. UNCHANGED <<dbVars, gap, guesses, overtaken, request, before, carried, pending, written>>
  BY DEF AcquireGate, AppendActivity, draftVars
<1>2. /\ step[w] \in {"gate", "append"} /\ step'[w] \in {"append", "commit"}
      /\ step' \in [Workers -> Steps]
      /\ \A v \in Workers \ {w} : step'[v] = step[v]
  BY Stepping DEF AcquireGate, AppendActivity, Steps
<1>3. /\ LocksExclude' /\ exclusive[w] \subseteq exclusive'[w]
      /\ exclusive' \in [Workers -> SUBSET Rows] /\ shared' \in [Workers -> SUBSET Rows]
      /\ \A v \in Workers \ {w} : exclusive'[v] = exclusive[v]
  <2>1. CASE AcquireGate(w)
    <3>1. Gate \in Rows
      BY DEF Rows
    <3>2. shared' \in [Workers -> SUBSET Rows]
      BY <2>1 DEF AcquireGate, IInv, TypeOK
    <3> QED  BY <1>1, <2>1, <3>1, <3>2, ExclusiveLock DEF AcquireGate
  <2>2. CASE AppendActivity(w)
    <3>1. request[w].op \in AboutIssues => request[w].issue \in Rows
      BY RequestFields DEF IInv, TypeOK, Rows
    <3>2. request[w].op \in AboutIssues
      BY <2>2 DEF AppendActivity, IInv, TransactionStands, StepFits
    <3>3. shared' \in [Workers -> SUBSET Rows]
      BY <2>2, <3>1, <3>2 DEF AppendActivity, IInv, TypeOK
    <3>4. UNCHANGED <<exclusive, written>>
      BY <2>2 DEF AppendActivity
    <3>5. exclusive \in [Workers -> SUBSET Rows] /\ LocksExclude
      BY DEF IInv, TypeOK
    <3>6. LocksExclude'
      BY <3>4, <3>5 DEF LocksExclude
    <3> QED  BY <3>3, <3>4, <3>5, <3>6
  <2> QED  BY <2>1, <2>2
<1>4. OthersStay(w)
  BY <1>1, <1>2, <1>3 DEF OthersStay
<1>5. TypeOK'
  BY <1>1, <1>2, <1>3, StillTyped DEF IInv, TypeOK
<1>6. StepFits(w)'
  BY <1>1, <1>2, Stepping DEF AcquireGate, AppendActivity, StepFits, Steps
<1> QED
  BY <1>1, <1>2, <1>3, <1>4, <1>5, <1>6, OnwardStands DEF After

-----------------------------------------------------------------------------
(***************************************************************************)
(* The statements that write the row, and those on which a transaction      *)
(* relies anew.                                                             *)
(***************************************************************************)
LEMMA InsertStandsStill ==
  ASSUME IInv, NEW w \in Workers, InsertIssue(w)
  PROVE  IInv'
<1> DEFINE r == request[w]
<1>1. UNCHANGED <<dbVars, gap, guesses, overtaken, request, before, written>>
  BY DEF InsertIssue
<1>2. /\ r.op = "create_issue" /\ r.issue \in Rows /\ issues[r.issue] = Absent
      /\ r.labels \subseteq Labels /\ Referenced(w) \subseteq Rows
  BY RowsNamed DEF InsertIssue, At, AboutIssues, IssueWrites
<1>3. /\ step'[w] = "attach labels" /\ step' \in [Workers -> Steps]
      /\ \A v \in Workers \ {w} : step'[v] = step[v]
  BY Stepping DEF InsertIssue, Steps
<1>4. /\ LocksExclude' /\ exclusive'[w] = exclusive[w] \cup {r.issue}
      /\ exclusive' \in [Workers -> SUBSET Rows]
      /\ \A v \in Workers \ {w} : exclusive'[v] = exclusive[v]
  BY <1>1, <1>2, ExclusiveLock DEF InsertIssue
<1>5. /\ carried' \in [Workers -> SUBSET Labels] /\ carried'[w] = r.labels
      /\ \A v \in Workers \ {w} : carried'[v] = carried[v]
  BY <1>2 DEF InsertIssue, IInv, TypeOK
<1>6. pending' \in [Workers -> SUBSET (Labels \cup Teams)] /\ shared' \in [Workers -> SUBSET Rows]
  <2>1. pending \in [Workers -> SUBSET (Labels \cup Teams)] /\ shared \in [Workers -> SUBSET Rows]
    BY DEF IInv, TypeOK
  <2>2. pending' \in [Workers -> SUBSET (Labels \cup Teams)]
    BY <1>2, <2>1 DEF InsertIssue
  <2>3. shared' \in [Workers -> SUBSET Rows]
    BY <1>2, <2>1 DEF InsertIssue
  <2> QED  BY <2>2, <2>3
<1>7. OthersStay(w)
  BY <1>1, <1>3, <1>4, <1>5 DEF OthersStay
<1>8. TypeOK'
  BY <1>1, <1>3, <1>4, <1>5, <1>6, StillTyped DEF IInv, TypeOK
<1>9. TransactionStands(w)'
  <2>1. TransactionStands(w)
    BY DEF InsertIssue, At, IInv
  <2>2. StepFits(w)' /\ ReadStands(w)' /\ InsertStands(w)' /\ KeyStands(w)' /\ PutStands(w)'
    BY <1>1, <1>2, <1>3, <1>4 DEF StepFits, ReadStands, InsertStands, KeyStands, PutStands,
       Puts, dbVars
  <2>3. ReferencesStand(w)'
    BY <1>1, <1>2, <2>1 DEF InsertIssue, At, TransactionStands, ReferencesStand, dbVars
  <2>4. \A ls, t : LabelsFit(ls, t)' = LabelsFit(ls, t)
    BY <1>1 DEF LabelsFit, Fits, dbVars
  <2>5. LabelsStand(w)'
    BY <1>1, <1>2, <1>5, <2>1, <2>4 DEF InsertIssue, At, TransactionStands, LabelsStand
  <2> QED  BY <2>2, <2>3, <2>5 DEF TransactionStands
<1> QED  BY <1>1, <1>4, <1>7, <1>8, <1>9, QuietStands

LEMMA UpdateStands ==
  ASSUME IInv, NEW w \in Workers, UpdateIssue(w)
  PROVE  IInv'
<1> DEFINE r == request[w]
<1>1. UNCHANGED <<dbVars, gap, guesses, overtaken, request, before, exclusive>>
  BY DEF UpdateIssue
<1>2. /\ r.op = "update_issue" /\ r.issue \in Rows
      /\ r.labels \subseteq Labels /\ Referenced(w) \subseteq Rows
  BY RowsNamed DEF UpdateIssue, At, AboutIssues, IssueWrites
<1>3. /\ step'[w] = "attach labels" /\ step' \in [Workers -> Steps]
      /\ \A v \in Workers \ {w} : step'[v] = step[v]
  BY Stepping DEF UpdateIssue, Steps
<1>4. /\ LocksExclude' /\ written'[w] = written[w] \cup {r.issue}
      /\ written' \in [Workers -> SUBSET Rows]
      /\ \A v \in Workers \ {w} : written'[v] = written[v]
  BY <1>1, <1>2, WritingLocks DEF UpdateIssue
<1>5. /\ carried' \in [Workers -> SUBSET Labels] /\ carried'[w] = r.labels
      /\ \A v \in Workers \ {w} : carried'[v] = carried[v]
  BY <1>2 DEF UpdateIssue, IInv, TypeOK
<1>6. pending' \in [Workers -> SUBSET (Labels \cup Teams)] /\ shared' \in [Workers -> SUBSET Rows]
  <2>1. pending \in [Workers -> SUBSET (Labels \cup Teams)] /\ shared \in [Workers -> SUBSET Rows]
    BY DEF IInv, TypeOK
  <2>2. pending' \in [Workers -> SUBSET (Labels \cup Teams)]
    BY <1>2, <2>1 DEF UpdateIssue
  <2>3. shared' \in [Workers -> SUBSET Rows]
    BY <1>2, <2>1 DEF UpdateIssue
  <2> QED  BY <2>2, <2>3
<1>7. OthersStay(w)
  BY <1>1, <1>3, <1>4, <1>5 DEF OthersStay
<1>8. TypeOK'
  BY <1>1, <1>3, <1>4, <1>5, <1>6, StillTyped DEF IInv, TypeOK
<1>9. TransactionStands(w)'
  <2>1. TransactionStands(w) /\ gap[w] = 0
    BY DEF UpdateIssue, At, IInv
  <2>2. StepFits(w)' /\ InsertStands(w)' /\ KeyStands(w)' /\ PutStands(w)'
    BY <1>1, <1>2, <1>3 DEF StepFits, InsertStands, KeyStands, PutStands, Puts
  <2>3. ReadStands(w)'
    BY <1>1, <1>2, <1>4, <2>1 DEF UpdateIssue, At, TransactionStands, ReadStands, dbVars
  <2>4. ReferencesStand(w)'
    BY <1>1, <1>2, <2>1, <2>3 DEF UpdateIssue, At, TransactionStands, ReferencesStand, dbVars
  <2>5. \A ls, t : LabelsFit(ls, t)' = LabelsFit(ls, t)
    BY <1>1 DEF LabelsFit, Fits, dbVars
  <2>6. LabelsStand(w)'
    BY <1>1, <1>2, <1>5, <2>1, <2>5 DEF UpdateIssue, At, TransactionStands, LabelsStand
  <2> QED  BY <2>2, <2>3, <2>4, <2>6 DEF TransactionStands
<1> QED  BY <1>1, <1>4, <1>7, <1>8, <1>9, QuietStands

LEMMA MoveStands ==
  ASSUME IInv, NEW w \in Workers, MoveIssue(w)
  PROVE  IInv'
<1> DEFINE r == request[w]
<1>1. UNCHANGED <<dbVars, gap, guesses, overtaken, request, before, carried, pending, written,
                  shared>>
  BY DEF MoveIssue, draftVars
<1>2. r.op = "move_issue" /\ r.issue \in Rows
  BY RowsNamed DEF MoveIssue, At, AboutIssues, IssueWrites
<1>3. /\ step'[w] = "strip labels" /\ step' \in [Workers -> Steps]
      /\ \A v \in Workers \ {w} : step'[v] = step[v]
  BY Stepping DEF MoveIssue, Steps
<1>4. /\ LocksExclude' /\ exclusive'[w] = exclusive[w] \cup {r.issue}
      /\ exclusive' \in [Workers -> SUBSET Rows]
      /\ \A v \in Workers \ {w} : exclusive'[v] = exclusive[v]
  BY <1>1, <1>2, ExclusiveLock DEF MoveIssue
<1>5. OthersStay(w)
  BY <1>1, <1>3, <1>4 DEF OthersStay
<1>6. TypeOK'
  BY <1>1, <1>3, <1>4, StillTyped DEF IInv, TypeOK
<1>7. TransactionStands(w)'
  <2>1. TransactionStands(w) /\ gap[w] = 0
    BY DEF MoveIssue, At, IInv
  <2>2. /\ StepFits(w)' /\ InsertStands(w)' /\ KeyStands(w)' /\ PutStands(w)'
        /\ ReferencesStand(w)' /\ LabelsStand(w)'
    BY <1>1, <1>2, <1>3 DEF StepFits, InsertStands, KeyStands, PutStands, Puts,
       ReferencesStand, LabelsStand
  <2>3. ReadStands(w)'
    BY <1>1, <1>2, <1>4, <2>1 DEF MoveIssue, At, TransactionStands, ReadStands, dbVars
  <2> QED  BY <2>2, <2>3 DEF TransactionStands
<1> QED  BY <1>1, <1>4, <1>5, <1>6, <1>7, QuietStands

LEMMA StripStands ==
  ASSUME IInv, NEW w \in Workers, StripLabels(w)
  PROVE  IInv'
<1> DEFINE r == request[w]
<1>1. UNCHANGED <<dbVars, gap, guesses, overtaken, request, before, pending, exclusive, written,
                  shared>>
  BY DEF StripLabels, lockVars
<1>2. TransactionStands(w) /\ r.op = "move_issue" /\ issues[r.issue] \in IssueRow
  BY DEF StripLabels, IInv, TransactionStands, StepFits, ReadStands
<1>3. /\ step'[w] = "gate" /\ step' \in [Workers -> Steps]
      /\ \A v \in Workers \ {w} : step'[v] = step[v]
  BY Stepping DEF StripLabels, Steps
<1>4. KeptLabels(w) \subseteq Labels
  BY <1>2 DEF KeptLabels, IssueRow
<1>5. /\ carried' \in [Workers -> SUBSET Labels] /\ carried'[w] = KeptLabels(w)
      /\ \A v \in Workers \ {w} : carried'[v] = carried[v]
  BY <1>4 DEF StripLabels, IInv, TypeOK
<1>6. OthersStay(w) /\ LocksExclude'
  BY <1>1, <1>3, <1>5 DEF OthersStay, IInv, LocksExclude
<1>7. TypeOK'
  BY <1>1, <1>3, <1>5, StillTyped DEF IInv, TypeOK
<1>8. TransactionStands(w)'
  <2>1. /\ StepFits(w)' /\ InsertStands(w)' /\ KeyStands(w)' /\ PutStands(w)'
        /\ ReferencesStand(w)'
    BY <1>1, <1>2, <1>3 DEF StepFits, InsertStands, KeyStands, PutStands, Puts,
       ReferencesStand
  <2>2. ReadStands(w)'
    BY <1>1, <1>2 DEF StripLabels, TransactionStands, ReadStands, After, dbVars
  <2>3. LabelsStand(w)'
    BY <1>1, <1>2, <1>5 DEF LabelsStand, LabelsFit, KeptLabels, Fits, dbVars
  <2> QED  BY <2>1, <2>2, <2>3 DEF TransactionStands
<1> QED  BY <1>1, <1>6, <1>7, <1>8, QuietStands

LEMMA LookupStands ==
  ASSUME IInv, NEW w \in Workers, LookupKey(w)
  PROVE  IInv'
<1>1. UNCHANGED <<dbVars, gap, guesses, overtaken, request, before, carried, pending, exclusive,
                  written, shared>>
  BY DEF LookupKey, draftVars, lockVars
<1>2. TransactionStands(w) /\ request[w].op \in TeamChoices /\ Key(w) \in attached
  BY DEF LookupKey, At, IInv
<1>3. /\ step[w] = "commit" /\ step'[w] = "share key" /\ step' \in [Workers -> Steps]
      /\ \A v \in Workers \ {w} : step'[v] = step[v]
  BY Stepping DEF LookupKey, At, Steps
<1>4. OthersStay(w) /\ LocksExclude'
  BY <1>1, <1>3 DEF OthersStay, IInv, LocksExclude
<1>5. TypeOK'
  BY <1>1, <1>3, StillTyped DEF IInv, TypeOK
<1>6. TransactionStands(w)'
  <2>1. StepFits(w)' /\ KeyStands(w)' /\ PutStands(w)'
    BY <1>1, <1>2, <1>3 DEF StepFits, KeyStands, Key, PutStands, Puts, TeamChoices, dbVars
  <2>2. ReadStands(w)' /\ InsertStands(w)' /\ ReferencesStand(w)'
    BY <1>1, <1>2, <1>3 DEF TransactionStands, ReadStands, InsertStands, ReferencesStand,
       After, dbVars
  <2>3. \A ls, t : LabelsFit(ls, t)' = LabelsFit(ls, t)
    BY <1>1 DEF LabelsFit, Fits, dbVars
  <2>4. LabelsStand(w)'
    BY <1>1, <1>2, <1>3, <2>3 DEF TransactionStands, LabelsStand, After
  <2> QED  BY <2>1, <2>2, <2>4 DEF TransactionStands
<1> QED  BY <1>1, <1>4, <1>5, <1>6, QuietStands

LEMMA PutRowStands ==
  ASSUME IInv, NEW w \in Workers, PutRow(w)
  PROVE  IInv'
<1> DEFINE r == request[w]
<1>1. UNCHANGED <<dbVars, gap, guesses, overtaken, request, before, carried, pending, written,
                  shared>>
  BY DEF PutRow, draftVars
<1>2. r.op \in Puts /\ r.row \in Rows
  <2>1. r \in Requests
    BY DEF IInv, TypeOK
  <2>2. r.op \in Puts
    BY DEF PutRow, At
  <2>3. r.row \in Labels \cup Cycles \cup Milestones
    BY <2>1, <2>2, RequestFields DEF Puts
  <2> QED  BY <2>2, <2>3 DEF Rows
<1>3. /\ step'[w] \in {"gate", "share owner"} /\ step' \in [Workers -> Steps]
      /\ step'[w] = "share owner" => r.owner \in Teams \cup Projects
      /\ \A v \in Workers \ {w} : step'[v] = step[v]
  <2>1. r.owner \in Teams \cup Projects \cup {AnyTeam}
    BY <1>2, RequestFields DEF IInv, TypeOK, Puts
  <2> QED  BY <2>1 DEF PutRow, Goto, NewOwner, Steps, IInv, TypeOK
<1>4. /\ LocksExclude' /\ exclusive'[w] = exclusive[w] \cup {r.row}
      /\ exclusive' \in [Workers -> SUBSET Rows]
      /\ \A v \in Workers \ {w} : exclusive'[v] = exclusive[v]
  BY <1>1, <1>2, ExclusiveLock DEF PutRow
<1>5. OthersStay(w)
  BY <1>1, <1>3, <1>4 DEF OthersStay
<1>6. TypeOK'
  BY <1>1, <1>3, <1>4, StillTyped DEF IInv, TypeOK
<1>7. TransactionStands(w)'
  <2>1. /\ StepFits(w)' /\ ReadStands(w)' /\ InsertStands(w)' /\ KeyStands(w)'
        /\ ReferencesStand(w)' /\ LabelsStand(w)'
    BY <1>1, <1>2, <1>3 DEF StepFits, ReadStands, InsertStands, KeyStands, ReferencesStand,
       LabelsStand, Puts
  <2>2. PutStands(w)'
    BY <1>1, <1>4 DEF PutRow, PutStands, LabelWritable, CycleWritable, MilestoneWritable,
       dbVars
  <2> QED  BY <2>1, <2>2 DEF TransactionStands
<1> QED  BY <1>1, <1>4, <1>5, <1>6, <1>7, QuietStands

-----------------------------------------------------------------------------
(***************************************************************************)
(* Commits.                                                                 *)
(***************************************************************************)
LEMMA Ended ==
  ASSUME IInv, NEW w \in Workers, EndTransaction(w), gap' \in [Workers -> Gaps],
         overtaken' \subseteq Workers, attached' \subseteq Projects \X Teams,
         issues' \in [Issues -> IssueRow \cup {Absent}], retargeted' \subseteq Labels,
         guessed' \subseteq Issues,
         owner' \in [Labels \cup Cycles \cup Milestones -> Owners \cup {Absent}]
  PROVE  /\ TypeOK' /\ LocksExclude' /\ OthersStay(w) /\ step'[w] = "idle"
         /\ \A v \in Workers \ {w} : v \in guesses' <=> v \in guesses
<1>1. TypeOK'
  BY NoRequestIsRequest DEF EndTransaction, Goto, IInv, TypeOK, Steps
<1>2. OthersStay(w) /\ step'[w] = "idle" /\ LocksExclude'
  BY DEF EndTransaction, Goto, IInv, TypeOK, OthersStay, LocksExclude
<1>3. \A v \in Workers \ {w} : v \in guesses' <=> v \in guesses
  BY DEF EndTransaction
<1> QED  BY <1>1, <1>2, <1>3

LEMMA TeamsStand ==
  ASSUME IInv, NEW w \in Workers, CommitTeams(w)
  PROVE  IInv'
<1> DEFINE p == request[w].project
<1>1. UNCHANGED <<issues, owner, retargeted, guessed>> /\ EndTransaction(w) /\ Dropped(w) = {}
        /\ attached' = {row \in attached : row[1] # p} \cup ({p} \X request[w].teams)
  BY DEF CommitTeams
<1>2. p \in Projects /\ request[w].teams \subseteq Teams
  BY RequestFields DEF CommitTeams, At, IInv, TypeOK
<1>3. attached' \subseteq Projects \X Teams
  BY <1>1, <1>2 DEF IInv, TypeOK
<1>4. /\ overtaken' \subseteq Workers /\ gap' \in [Workers -> Gaps]
      /\ \A v \in Workers \ {w} :
           /\ gap'[v] = gap[v]
           /\ v \in overtaken' <=>
                (v \in overtaken \/ (step[v] = "share key" /\ Key(v)[1] = p))
  <2>1. overtaken \subseteq Workers /\ gap \in [Workers -> Gaps]
    BY DEF IInv, TypeOK
  <2>2. overtaken' = (overtaken \cup
          {v \in Workers : step[v] = "share key" /\ Key(v)[1] = p}) \ {w}
    BY DEF CommitTeams
  <2>3. gap' = [gap EXCEPT ![w] = 0]
    BY DEF CommitTeams
  <2>4. gap' \in [Workers -> Gaps] /\ \A v \in Workers \ {w} : gap'[v] = gap[v]
    BY <2>1, <2>3, GapBounds
  <2>5. overtaken' \subseteq Workers
          /\ \A v \in Workers \ {w} : v \in overtaken' <=>
               (v \in overtaken \/ (step[v] = "share key" /\ Key(v)[1] = p))
    BY <2>1, <2>2
  <2> QED  BY <2>4, <2>5
<1>5. /\ TypeOK' /\ LocksExclude' /\ OthersStay(w) /\ step'[w] = "idle"
      /\ \A v \in Workers \ {w} : v \in guesses' <=> v \in guesses
  BY <1>1, <1>3, <1>4, Ended DEF IInv, TypeOK
<1>6. TeamsCoverIssues'
  <2> SUFFICES ASSUME NEW i \in Issues, issues[i] # Absent
               PROVE  <<issues[i].project, issues[i].team>> \in attached'
    BY <1>1 DEF TeamsCoverIssues
  <2>1. <<issues[i].project, issues[i].team>> \in attached
    BY DEF IInv, TeamsCoverIssues
  <2>2. issues[i].project = p => issues[i].team \in request[w].teams
    BY <1>1 DEF Dropped
  <2> QED  BY <1>1, <2>1, <2>2
<1>7. AttachmentsFit'
  BY <1>1 DEF IInv, AttachmentsFit, Fits
<1>8. ASSUME NEW v \in Workers PROVE TransactionStands(v)'
  <2>1. CASE v = w
    BY <1>5, <2>1 DEF TransactionStands
  <2>2. CASE v # w /\ step[v] # "idle"
    <3>1. /\ TransactionStands(v) /\ step'[v] = step[v] /\ request'[v] = request[v]
          /\ before'[v] = before[v] /\ carried'[v] = carried[v]
          /\ exclusive'[v] = exclusive[v] /\ written'[v] = written[v]
      BY <1>5, <2>2 DEF OthersStay, IInv
    <3>2. StepFits(v)' /\ InsertStands(v)' /\ ReferencesStand(v)' /\ PutStands(v)'
      BY <1>1, <2>2, <3>1 DEF TransactionStands, StepFits, InsertStands, ReferencesStand,
         PutStands
    <3>6. ReadStands(v)'
      <4>1. gap'[v] = gap[v] /\ (v \in guesses' <=> v \in guesses)
        BY <1>4, <1>5, <2>2
      <4> QED  BY <1>1, <2>2, <3>1, <4>1 DEF TransactionStands, ReadStands
    <3>3. \A ls, t : LabelsFit(ls, t)' = LabelsFit(ls, t)
      BY <1>1 DEF LabelsFit, Fits
    <3>4. LabelsStand(v)'
      BY <1>5, <2>2, <3>1, <3>3 DEF TransactionStands, LabelsStand
    <3>5. KeyStands(v)'
      <4>1. Key(v)' = Key(v)
        BY <3>1 DEF Key
      <4> SUFFICES ASSUME step[v] = "share key", v \notin overtaken' PROVE Key(v) \in attached'
        BY <3>1, <4>1 DEF KeyStands
      <4>2. Key(v) \in attached /\ Key(v)[1] # p
        <5>1. KeyStands(v)
          BY <2>2, <3>1 DEF TransactionStands
        <5>2. v \notin overtaken /\ Key(v)[1] # p
          BY <1>4, <2>2
        <5> QED  BY <5>1, <5>2 DEF KeyStands
      <4> QED  BY <1>1, <4>2
    <3> QED  BY <3>2, <3>6, <3>4, <3>5 DEF TransactionStands
  <2>3. CASE v # w /\ step[v] = "idle"
    BY <1>5, <2>3 DEF OthersStay, TransactionStands
  <2> QED  BY <2>1, <2>2, <2>3
<1> QED  BY <1>5, <1>6, <1>7, <1>8 DEF IInv

\* A published row is of its project's teams, and fits.
LEMMA IssueStands ==
  ASSUME IInv, NEW w \in Workers, PublishIssue(w), step[w] \in {"share key", "commit"},
         request[w].op \in IssueWrites,
         request[w].op \in TeamChoices => Key(w) \in attached
  PROVE  IInv'
<1> DEFINE r == request[w]
           i == r.issue
           row == WrittenIssue(r, issues[i], carried[w])
<1>1. UNCHANGED <<attached, owner, retargeted>> /\ EndTransaction(w)
        /\ issues' = [issues EXCEPT ![i] = row]
        /\ guessed' = IF w \in guesses /\ r.op = "update_issue" THEN guessed \cup {i}
                                                              ELSE guessed \ {i}
  BY DEF PublishIssue
<1>2. r \in Requests /\ i \in Issues /\ TransactionStands(w) /\ step[w] \in After
        /\ carried[w] \subseteq Labels
  BY RequestFields DEF IInv, TypeOK, AboutIssues, After
<1>3. ReadStands(w) /\ InsertStands(w) /\ ReferencesStand(w) /\ LabelsStand(w)
  BY <1>2 DEF TransactionStands, After
<1>4. \/ /\ r.op = "create_issue" /\ issues[i] = Absent /\ i \in exclusive[w]
         /\ row = [project |-> r.project, team |-> r.team, labels |-> carried[w],
                   cycle |-> r.cycle, milestone |-> r.milestone]
      \/ /\ r.op = "update_issue" /\ issues[i] \in IssueRow
         /\ issues[i].project = before[w].project /\ (w \notin guesses => issues[i] = before[w])
         /\ i \in exclusive[w] \cup written[w]
         /\ row = [issues[i] EXCEPT !.labels = carried[w], !.cycle = r.cycle,
                                    !.milestone = r.milestone]
      \/ /\ r.op = "move_issue" /\ issues[i] \in IssueRow
         /\ issues[i].project = before[w].project
         /\ i \in exclusive[w] \cup written[w]
         /\ row = [issues[i] EXCEPT !.team = r.team, !.labels = carried[w], !.cycle = Absent]
  BY <1>2, <1>3 DEF IssueWrites, ReadStands, InsertStands, WrittenIssue
<1> HIDE DEF row
<1>5. /\ row \in IssueRow /\ row.labels = carried[w]
      /\ row.project = IF r.op = "create_issue" THEN r.project ELSE issues[i].project
      /\ row.team = IF r.op = "update_issue" THEN issues[i].team ELSE r.team
      /\ row.cycle = IF r.op = "move_issue" THEN Absent ELSE r.cycle
      /\ row.milestone = IF r.op = "move_issue" THEN issues[i].milestone ELSE r.milestone
  <2>1. CASE r.op = "create_issue"
    <3>1. row = [project |-> r.project, team |-> r.team, labels |-> carried[w],
                 cycle |-> r.cycle, milestone |-> r.milestone]
      BY <1>4, <2>1
    <3>2. /\ r.project \in Projects /\ r.team \in Teams
          /\ r.cycle \in Cycles \cup {Absent} /\ r.milestone \in Milestones \cup {Absent}
      BY <1>2, <2>1, RequestFields DEF TeamChoices
    <3> QED  BY <1>2, <2>1, <3>1, <3>2 DEF IssueRow
  <2>2. CASE r.op = "update_issue"
    <3>1. /\ row = [issues[i] EXCEPT !.labels = carried[w], !.cycle = r.cycle,
                                    !.milestone = r.milestone]
          /\ issues[i] \in IssueRow
      BY <1>4, <2>2
    <3>2. r.cycle \in Cycles \cup {Absent} /\ r.milestone \in Milestones \cup {Absent}
      BY <1>2, <2>2, RequestFields
    <3> QED  BY <1>2, <2>2, <3>1, <3>2 DEF IssueRow
  <2>3. CASE r.op = "move_issue"
    <3>1. /\ row = [issues[i] EXCEPT !.team = r.team, !.labels = carried[w], !.cycle = Absent]
          /\ issues[i] \in IssueRow
      BY <1>4, <2>3
    <3>2. r.team \in Teams
      BY <1>2, <2>3, RequestFields DEF TeamChoices
    <3> QED  BY <1>2, <2>3, <3>1, <3>2 DEF IssueRow
  <2> QED  BY <2>1, <2>2, <2>3 DEF IssueWrites
<1>6. <<row.project, row.team>> \in attached
  <2>1. CASE r.op \in TeamChoices
    BY <1>4, <1>5, <2>1 DEF Key, TeamChoices
  <2>2. CASE r.op = "update_issue"
    BY <1>2, <1>4, <1>5, <2>2, AbsentAssumption DEF IInv, TeamsCoverIssues
  <2> QED  BY <2>1, <2>2 DEF IssueWrites, TeamChoices
<1>7. /\ row.cycle # Absent => owner[row.cycle] = row.team
      /\ row.milestone # Absent => owner[row.milestone] = row.project
  <2>1. CASE r.op = "create_issue"
    BY <1>3, <1>5, <2>1 DEF ReferencesStand
  <2>2. CASE r.op = "update_issue"
    BY <1>2, <1>3, <1>4, <1>5, <2>2 DEF ReferencesStand
  <2>3. CASE r.op = "move_issue"
    <3>1. issues[i].milestone # Absent => owner[issues[i].milestone] = issues[i].project
      BY <1>2, <1>4, <2>3, AbsentAssumption DEF IInv, AttachmentsFit
    <3> QED  BY <1>5, <2>3, <3>1
  <2> QED  BY <2>1, <2>2, <2>3 DEF IssueWrites
<1>8. i \notin guessed' => LabelsFit(row.labels, row.team)
  <2> SUFFICES ASSUME ~(w \in guesses /\ r.op = "update_issue")
               PROVE  LabelsFit(row.labels, row.team)
    BY <1>1
  <2>1. r.op = "update_issue" => issues[i] = before[w] /\ w \notin guesses
    BY <1>4
  <2> QED  BY <1>2, <1>3, <1>5, <2>1 DEF LabelsStand, After, IssueWrites
<1>9. /\ overtaken' \subseteq Workers /\ gap' \in [Workers -> Gaps]
      /\ guessed' \subseteq Issues
      /\ \A j \in Issues : j # i => (j \in guessed' <=> j \in guessed)
      /\ \A v \in Workers \ {w} :
           /\ v \in overtaken' <=> v \in overtaken
           /\ gap'[v] = IF /\ step[v] # "idle" /\ request[v].op \in {"update_issue", "move_issue"}
                           /\ request[v].issue = i /\ gap[v] >= 0
                          THEN gap[v] - 1 ELSE gap[v]
  <2>1. overtaken \subseteq Workers /\ gap \in [Workers -> Gaps] /\ guessed \subseteq Issues
    BY DEF IInv, TypeOK
  <2>2. gap' = [v \in Workers |->
          IF v = w THEN 0
          ELSE IF /\ step[v] # "idle" /\ request[v].op \in {"update_issue", "move_issue"}
                  /\ request[v].issue = i /\ gap[v] >= 0
                 THEN gap[v] - 1 ELSE gap[v]]
    BY DEF PublishIssue
  <2>3. overtaken' = overtaken \ {w}
    BY DEF PublishIssue
  <2>4. gap' \in [Workers -> Gaps]
    <3>1. ASSUME NEW v \in Workers PROVE gap'[v] \in Gaps
      BY <2>1, <2>2, GapBounds
    <3> QED  BY <2>2, <3>1
  <2> QED  BY <1>1, <1>2, <2>1, <2>2, <2>3, <2>4
<1>10. /\ issues' \in [Issues -> IssueRow \cup {Absent}] /\ issues'[i] = row
       /\ \A j \in Issues : j # i => issues'[j] = issues[j]
  BY <1>1, <1>2, <1>5 DEF IInv, TypeOK
<1>11. /\ TypeOK' /\ LocksExclude' /\ OthersStay(w) /\ step'[w] = "idle"
       /\ \A v \in Workers \ {w} : v \in guesses' <=> v \in guesses
  BY <1>1, <1>9, <1>10, Ended DEF IInv, TypeOK
<1>12. TeamsCoverIssues'
  BY <1>1, <1>6, <1>10 DEF IInv, TeamsCoverIssues
<1>13. AttachmentsFit'
  <2> SUFFICES ASSUME NEW j \in Issues, issues'[j] # Absent
      PROVE /\ issues'[j].cycle # Absent => owner[issues'[j].cycle] = issues'[j].team
            /\ issues'[j].milestone # Absent =>
                 owner[issues'[j].milestone] = issues'[j].project
            /\ \A l \in issues'[j].labels :
                 Fits(l, issues'[j].team) \/ l \in retargeted \/ j \in guessed'
    BY <1>1 DEF AttachmentsFit, Fits
  <2>1. CASE j = i
    BY <1>7, <1>8, <1>10, <2>1 DEF LabelsFit
  <2>2. CASE j # i
    BY <1>9, <1>10, <2>2 DEF IInv, AttachmentsFit
  <2> QED  BY <2>1, <2>2
<1>14. ASSUME NEW v \in Workers PROVE TransactionStands(v)'
  <2>1. CASE v = w
    BY <1>11, <2>1 DEF TransactionStands
  <2>2. CASE v # w /\ step[v] # "idle"
    <3>1. /\ TransactionStands(v) /\ step'[v] = step[v] /\ request'[v] = request[v]
          /\ before'[v] = before[v] /\ carried'[v] = carried[v]
          /\ exclusive'[v] = exclusive[v] /\ written'[v] = written[v]
      BY <1>11, <2>2 DEF OthersStay, IInv
    <3>2. \/ i \in exclusive[w]
          \/ i \in written[w] /\ issues[i] # Absent
      BY <1>4, AbsentAssumption
    <3>3. /\ i \notin exclusive[v]
          /\ issues[i] # Absent => i \notin exclusive[v] \cup written[v]
      <4>1. /\ exclusive[v] \cap (exclusive[w] \cup written[w]) = {}
            /\ exclusive[w] \cap (exclusive[v] \cup written[v]) = {}
            /\ written[v] \cap written[w] = {}
        BY <2>2 DEF IInv, LocksExclude
      <4> QED  BY <3>2, <4>1
    <3>4. StepFits(v)' /\ PutStands(v)'
      BY <1>1, <2>2, <3>1 DEF TransactionStands, StepFits, PutStands
    <3>5. request[v].op \in AboutIssues => request[v].issue \in Issues
      BY RequestFields DEF IInv, TypeOK
    <3>6. ReadStands(v)'
      <4>1. ReadStands(v)
        BY <2>2, <3>1 DEF TransactionStands
      <4>2. CASE request[v].op \in {"update_issue", "move_issue"} /\ request[v].issue = i
        <5>1. issues[i] \in IssueRow /\ issues[i].project = before[v].project
                /\ before[v] \in IssueRow
                /\ (step[v] \in After => i \in exclusive[v] \cup written[v])
          BY <4>1, <4>2 DEF ReadStands
        <5>2. issues[i] # Absent /\ step[v] \notin After
          BY <3>3, <5>1, AbsentAssumption
        <5>3. issues'[i] \in IssueRow /\ issues'[i].project = before[v].project
          <6>1. r.op # "create_issue"
            BY <1>4, <5>2
          <6> QED  BY <1>5, <1>10, <5>1, <6>1
        <5>4. v \notin guesses' => gap'[v] <= 0 /\ gap'[v] # 0
          <6> SUFFICES ASSUME v \notin guesses' PROVE gap'[v] <= 0 /\ gap'[v] # 0
            OBVIOUS
          <6>1. v \notin guesses
            BY <1>11, <2>2
          <6>2. gap[v] \in Int /\ gap'[v] \in Int
            BY <1>9, <2>2, GapBounds DEF IInv, TypeOK
          <6>3. gap[v] <= 0
            BY <4>1, <4>2, <6>1 DEF ReadStands
          <6>4. gap'[v] = IF gap[v] >= 0 THEN gap[v] - 1 ELSE gap[v]
            BY <1>9, <2>2, <4>2
          <6>5. gap'[v] < 0
            BY <6>2, <6>3, <6>4, GapBounds
          <6> QED  BY <6>2, <6>5, GapBounds
        <5> QED  BY <3>1, <4>2, <5>1, <5>2, <5>3, <5>4 DEF ReadStands
      <4>3. CASE request[v].op \in {"update_issue", "move_issue"} /\ request[v].issue # i
        <5>1. issues'[request[v].issue] = issues[request[v].issue]
          BY <1>10, <3>5, <4>3 DEF AboutIssues, IssueWrites
        <5>2. gap'[v] = gap[v] /\ (v \in guesses' <=> v \in guesses)
          BY <1>9, <1>11, <2>2, <4>3
        <5> QED  BY <3>1, <4>1, <4>3, <5>1, <5>2 DEF ReadStands
      <4>4. CASE request[v].op \notin {"update_issue", "move_issue"}
        BY <3>1, <4>4 DEF ReadStands
      <4> QED  BY <4>2, <4>3, <4>4
    <3>11. ReferencesStand(v)'
      <4>1. ReferencesStand(v) /\ ReadStands(v)
        BY <2>2, <3>1 DEF TransactionStands
      <4>2. request[v].op = "update_issue" /\ step[v] \in After =>
              issues'[request[v].issue] = issues[request[v].issue]
        <5> SUFFICES ASSUME request[v].op = "update_issue", step[v] \in After
                     PROVE  request[v].issue # i
          BY <1>10, <3>5 DEF AboutIssues, IssueWrites
        <5>1. /\ issues[request[v].issue] \in IssueRow
              /\ request[v].issue \in exclusive[v] \cup written[v]
          BY <4>1 DEF ReadStands
        <5> QED  BY <3>3, <5>1, AbsentAssumption
      <4> QED  BY <1>1, <3>1, <4>1, <4>2 DEF ReferencesStand
    <3>7. InsertStands(v)'
      <4>1. InsertStands(v)
        BY <2>2, <3>1 DEF TransactionStands
      <4> SUFFICES ASSUME request[v].op = "create_issue", step[v] \in After
                   PROVE  issues'[request[v].issue] = Absent
                            /\ request[v].issue \in exclusive[v]
        BY <3>1 DEF InsertStands
      <4>2. issues[request[v].issue] = Absent /\ request[v].issue \in exclusive[v]
        BY <4>1 DEF InsertStands
      <4> QED  BY <1>10, <3>3, <3>5, <4>2 DEF AboutIssues, IssueWrites
    <3>8. \A ls, t : LabelsFit(ls, t)' = LabelsFit(ls, t)
      BY <1>1 DEF LabelsFit, Fits
    <3>9. LabelsStand(v)'
      BY <1>11, <2>2, <3>1, <3>8 DEF TransactionStands, LabelsStand
    <3>10. KeyStands(v)'
      <4>1. KeyStands(v) /\ Key(v)' = Key(v)
        BY <2>2, <3>1 DEF TransactionStands, Key
      <4> QED  BY <1>1, <1>9, <2>2, <3>1, <4>1 DEF KeyStands
    <3> QED  BY <3>4, <3>6, <3>7, <3>9, <3>10, <3>11 DEF TransactionStands
  <2>3. CASE v # w /\ step[v] = "idle"
    BY <1>11, <2>3 DEF OthersStay, TransactionStands
  <2> QED  BY <2>1, <2>2, <2>3
<1> QED  BY <1>11, <1>12, <1>13, <1>14 DEF IInv

LEMMA PublishStands ==
  ASSUME IInv, NEW w \in Workers, CommitChoice(w) \/ CommitUpdate(w)
  PROVE  IInv'
<1>1. CASE CommitChoice(w)
  <2>1. request[w].op \in TeamChoices /\ Key(w) \in attached
    BY <1>1 DEF CommitChoice, IInv, TransactionStands, StepFits, KeyStands
  <2> QED  BY <1>1, <2>1, IssueStands DEF CommitChoice, TeamChoices, IssueWrites
<1>2. CASE CommitUpdate(w)
  BY <1>2, IssueStands DEF CommitUpdate, At, TeamChoices, IssueWrites
<1> QED  BY <1>1, <1>2

\* A label another team gets becomes one of the retargeted; nothing else that a
\* transaction or an issue refers to changes hands.
LEMMA PutCommitStands ==
  ASSUME IInv, NEW w \in Workers, CommitPut(w)
  PROVE  IInv'
<1> DEFINE r == request[w]
<1>1. /\ UNCHANGED <<attached, issues, guessed>> /\ EndTransaction(w)
      /\ owner' = [owner EXCEPT ![r.row] = r.owner]
      /\ retargeted' = IF owner[r.row] \in {Absent, r.owner} THEN retargeted
                       ELSE retargeted \cup {r.row}
      /\ gap' = [gap EXCEPT ![w] = 0] /\ overtaken' = overtaken \ {w}
  BY DEF CommitPut
<1>2. r \in Requests /\ r.op \in Puts /\ step[w] = "commit"
  BY DEF CommitPut, At, IInv, TypeOK
<1>3. /\ r.op = "put_label" => r.row \in Labels
      /\ r.op # "put_label" => r.row \in Cycles \cup Milestones
                                 /\ owner[r.row] \in {Absent, r.owner}
      /\ r.owner \in Owners
  BY <1>2, RequestFields DEF IInv, TransactionStands, PutStands, Puts, After
<1>4. /\ \A row \in Cycles \cup Milestones : owner[row] # Absent => owner'[row] = owner[row]
      /\ owner' \in [Labels \cup Cycles \cup Milestones -> Owners \cup {Absent}]
      /\ retargeted' \subseteq Labels /\ retargeted \subseteq retargeted'
  BY <1>1, <1>2, <1>3, KindsAssumption DEF IInv, TypeOK
<1>5. ASSUME NEW l \in Labels, NEW t \in Teams, Fits(l, t) \/ l \in retargeted
      PROVE  Fits(l, t)' \/ l \in retargeted'
  <2>1. owner[l] # Absent \/ l \in retargeted
    BY <1>5, AbsentIsNoOwner DEF Fits
  <2>2. owner'[l] = owner[l] \/ (l = r.row /\ owner'[l] = r.owner)
    BY <1>1 DEF IInv, TypeOK
  <2> QED  BY <1>1, <1>4, <1>5, <2>1, <2>2 DEF Fits
<1>6. \A ls \in SUBSET Labels, t \in Teams : LabelsFit(ls, t) => LabelsFit(ls, t)'
  BY <1>5 DEF LabelsFit
<1>7. gap' \in [Workers -> Gaps] /\ overtaken \subseteq Workers
        /\ guessed \subseteq Issues /\ attached \subseteq Projects \X Teams
        /\ issues \in [Issues -> IssueRow \cup {Absent}]
  BY <1>1, GapBounds DEF IInv, TypeOK
<1>8. /\ TypeOK' /\ LocksExclude' /\ OthersStay(w) /\ step'[w] = "idle"
      /\ \A v \in Workers \ {w} : v \in guesses' <=> v \in guesses
  BY <1>1, <1>4, <1>7, Ended
<1>9. TeamsCoverIssues'
  BY <1>1 DEF IInv, TeamsCoverIssues
<1>10. AttachmentsFit'
  <2> SUFFICES ASSUME NEW i \in Issues, issues[i] # Absent
      PROVE /\ issues[i].cycle # Absent => owner'[issues[i].cycle] = issues[i].team
            /\ issues[i].milestone # Absent => owner'[issues[i].milestone] = issues[i].project
            /\ \A l \in issues[i].labels :
                 Fits(l, issues[i].team)' \/ l \in retargeted' \/ i \in guessed
    BY <1>1 DEF AttachmentsFit, Fits
  <2>1. issues[i] \in IssueRow
    BY <1>7
  <2>2. /\ issues[i].team \in Teams /\ issues[i].project \in Projects
        /\ issues[i].labels \subseteq Labels /\ issues[i].cycle \in Cycles \cup {Absent}
        /\ issues[i].milestone \in Milestones \cup {Absent}
    BY <2>1 DEF IssueRow
  <2>3. /\ issues[i].cycle # Absent => owner[issues[i].cycle] = issues[i].team
        /\ issues[i].milestone # Absent => owner[issues[i].milestone] = issues[i].project
        /\ \A l \in issues[i].labels :
             Fits(l, issues[i].team) \/ l \in retargeted \/ i \in guessed
    BY DEF IInv, AttachmentsFit
  <2>4. \A l \in issues[i].labels :
          Fits(l, issues[i].team)' \/ l \in retargeted' \/ i \in guessed
    <3> SUFFICES ASSUME NEW l \in issues[i].labels, i \notin guessed
                 PROVE  owner'[l] \in {AnyTeam, issues[i].team} \/ l \in retargeted'
      BY <1>1 DEF Fits
    <3> QED  BY <1>5, <2>2, <2>3 DEF Fits
  <2> QED  BY <1>4, <2>2, <2>3, <2>4, AbsentIsNoOwner
<1>11. ASSUME NEW v \in Workers PROVE TransactionStands(v)'
  <2>1. CASE v = w
    BY <1>8, <2>1 DEF TransactionStands
  <2>2. CASE v # w /\ step[v] # "idle"
    <3>1. /\ TransactionStands(v) /\ step'[v] = step[v] /\ request'[v] = request[v]
          /\ before'[v] = before[v] /\ carried'[v] = carried[v]
          /\ exclusive'[v] = exclusive[v] /\ written'[v] = written[v]
          /\ gap'[v] = gap[v] /\ (v \in guesses' <=> v \in guesses)
          /\ v \in overtaken' <=> v \in overtaken
      BY <1>1, <1>8, <2>2 DEF OthersStay, IInv, TypeOK
    <3>2. StepFits(v)' /\ ReadStands(v)' /\ InsertStands(v)'
      BY <1>1, <2>2, <3>1 DEF TransactionStands, StepFits, ReadStands, InsertStands
    <3>3. KeyStands(v)'
      BY <1>1, <2>2, <3>1 DEF TransactionStands, KeyStands, Key
    <3>4. /\ request[v].op \in {"create_issue", "update_issue"} =>
               /\ request[v].cycle \in Cycles \cup {Absent}
               /\ request[v].milestone \in Milestones \cup {Absent}
               /\ request[v].labels \subseteq Labels
          /\ request[v].op \in TeamChoices => request[v].team \in Teams
          /\ request[v].op = "create_issue" => request[v].project \in Projects
          /\ carried[v] \subseteq Labels
      BY RequestFields DEF IInv, TypeOK
    <3>5. request[v].op = "update_issue" =>
            /\ before[v].team \in Teams /\ before[v].project \in Projects
            /\ issues[request[v].issue].team \in Teams
      BY <2>2, <3>1 DEF TransactionStands, ReadStands, IssueRow
    <3>6. ReferencesStand(v)'
      <4>1. ReferencesStand(v)
        BY <2>2, <3>1 DEF TransactionStands
      <4> QED
        BY <1>1, <1>4, <3>1, <3>4, <3>5, <4>1, AbsentIsNoOwner DEF ReferencesStand, TeamChoices
    <3>7. LabelsStand(v)'
      <4>1. LabelsStand(v)
        BY <2>2, <3>1 DEF TransactionStands
      <4> QED  BY <1>6, <3>1, <3>4, <3>5, <4>1 DEF LabelsStand, TeamChoices
    <3>8. PutStands(v)'
      <4>1. PutStands(v)
        BY <2>2, <3>1 DEF TransactionStands
      <4> SUFFICES ASSUME request[v].op \in Puts, step[v] \in After
                   PROVE  /\ request[v].row \in exclusive[v]
                          /\ request[v].op # "put_label" =>
                               owner'[request[v].row] \in {Absent, request[v].owner}
        BY <3>1 DEF PutStands
      <4>2. r.row \in exclusive[w]
        BY <1>2 DEF IInv, TransactionStands, PutStands, After
      <4>3. r.row # request[v].row
        BY <2>2, <4>1, <4>2 DEF IInv, LocksExclude, PutStands
      <4>4. request[v].op # "put_label" => request[v].row \in Cycles \cup Milestones
        BY RequestFields DEF IInv, TypeOK, Puts
      <4>5. request[v].op # "put_label" => owner'[request[v].row] = owner[request[v].row]
        BY <1>1, <4>3, <4>4 DEF IInv, TypeOK
      <4> QED  BY <4>1, <4>5 DEF PutStands
    <3> QED  BY <3>2, <3>3, <3>6, <3>7, <3>8 DEF TransactionStands
  <2>3. CASE v # w /\ step[v] = "idle"
    BY <1>8, <2>3 DEF OthersStay, TransactionStands
  <2> QED  BY <2>1, <2>2, <2>3
<1> QED  BY <1>8, <1>9, <1>10, <1>11 DEF IInv

-----------------------------------------------------------------------------
LEMMA NextStands ==
  ASSUME IInv, [Next]_vars
  PROVE  IInv'
<1>1. CASE UNCHANGED vars
  <2>1. UNCHANGED <<dbVars, step, request, before, carried, pending, exclusive, written,
                    shared, gap, guesses, overtaken>>
    BY <1>1 DEF vars, draftVars, lockVars
  <2>2. TypeOK' /\ LocksExclude' /\ TeamsCoverIssues' /\ AttachmentsFit'
    BY <2>1 DEF IInv, TypeOK, LocksExclude, TeamsCoverIssues, AttachmentsFit, Fits, dbVars
  <2>3. ASSUME NEW v \in Workers PROVE TransactionStands(v)'
    BY <2>1, <2>3, Untouched DEF IInv
  <2> QED  BY <2>2, <2>3 DEF IInv
<1>2. ASSUME NEW w \in Workers, Step(w) PROVE IInv'
  <2>1. CASE \/ CheckCover(w) \/ WriteProject(w) \/ ShareLead(w) \/ ReplaceTeams(w)
             \/ TeamsInserted(w) \/ \E t \in Teams : InsertTeam(w, t)
    BY <2>1, ProjectStands
  <2>2. CASE CommitTeams(w)
    BY <2>2, TeamsStand
  <2>3. CASE CountIssue(w)
    BY <2>3, CountStands
  <2>4. CASE InsertIssue(w)
    BY <2>4, InsertStandsStill
  <2>5. CASE UpdateIssue(w)
    BY <2>5, UpdateStands
  <2>6. CASE MoveIssue(w)
    BY <2>6, MoveStands
  <2>7. CASE StripLabels(w)
    BY <2>7, StripStands
  <2>8. CASE LabelsAttached(w) \/ \E l \in Labels : AttachLabel(w, l)
    BY <2>8, AttachStands
  <2>9. CASE LookupKey(w)
    BY <2>9, LookupStands
  <2>10. CASE CommitChoice(w) \/ CommitUpdate(w)
    BY <2>10, PublishStands
  <2>11. CASE WriteComment(w)
    BY <2>11, CommentStands
  <2>12. CASE CommitOther(w)
    BY <2>12, EndedStands DEF CommitOther
  <2>13. CASE PutRow(w)
    BY <2>13, PutRowStands
  <2>14. CASE CommitPut(w)
    BY <2>14, PutCommitStands
  <2>15. CASE AcquireGate(w) \/ AppendActivity(w)
    BY <2>15, ActivityStands
  <2>16. CASE RenameTeam(w) \/ WriteTeam(w) \/ ShareOwner(w)
    BY <2>16, TeamStands
  <2> QED
    BY <1>2, <2>1, <2>2, <2>3, <2>4, <2>5, <2>6, <2>7, <2>8, <2>9, <2>10, <2>11, <2>12, <2>13,
       <2>14, <2>15, <2>16 DEF Step
<1>3. ASSUME NEW w \in Workers, Abort(w) PROVE IInv'
  BY <1>3, EndedStands DEF Abort
<1>4. ASSUME NEW w \in Workers, NEW r \in Requests, NEW ahead \in 0..MaxAhead,
             Begin(w, r, ahead)
      PROVE  IInv'
  BY <1>4, BeginStands
<1> QED  BY <1>1, <1>2, <1>3, <1>4 DEF Next

-----------------------------------------------------------------------------
(***************************************************************************)
(* The invariant holds of every reachable state.                            *)
(***************************************************************************)
THEOREM TeamsInvariance == Spec => []IInv
<1>1. Init => IInv
  BY InitStands
<1>2. IInv /\ [Next]_vars => IInv'
  BY NextStands
<1> QED  BY <1>1, <1>2, PTL DEF Spec

(***************************************************************************)
(* Every issue's team is a team of its project, for all the interleavings   *)
(* of update_project with create_issue and move_issue.                      *)
(***************************************************************************)
THEOREM CoverageHolds == Spec => []TeamsCoverIssues
<1>1. IInv => TeamsCoverIssues
  BY DEF IInv
<1> QED  BY <1>1, TeamsInvariance, PTL

(***************************************************************************)
(* The cycle, milestone and labels of an issue fit its team and project,    *)
(* but for labels that put_label itself has given to another team.          *)
(***************************************************************************)
THEOREM AttachmentsStayFit == Spec => []AttachmentsFit
<1>1. IInv => AttachmentsFit
  BY DEF IInv
<1> QED  BY <1>1, TeamsInvariance, PTL

-----------------------------------------------------------------------------
(***************************************************************************)
(* Why only update_project and move_issue deadlock: which rows a worker     *)
(* holds at each step.  An issue is locked exclusively by its creation and  *)
(* by move_issue only, a project_teams row by update_project only, and the  *)
(* other commands, once they hold the gate, wait for nothing else.          *)
(***************************************************************************)

\* The rows the statements of each command lock.
LocksFit(w) ==
  LET r == request[w]
  IN /\ r.op = "update_project" =>
          exclusive[w] \subseteq {Gate} \cup (Projects \X Teams) /\ written[w] \subseteq Projects
     /\ r.op = "put_team" => exclusive[w] \subseteq {Gate} \cup Teams /\ written[w] \subseteq Teams
     /\ r.op \in TeamChoices =>
          exclusive[w] \subseteq {Gate, r.issue} /\ written[w] \subseteq Teams
     /\ r.op = "update_issue" =>
          exclusive[w] \subseteq {Gate} /\ written[w] \subseteq {r.issue}
     /\ r.op \in {"add_comment", "update_comment"} =>
          exclusive[w] \subseteq {Gate} /\ written[w] = {}
     /\ r.op \in Puts =>
          exclusive[w] \subseteq {Gate} \cup Labels \cup Cycles \cup Milestones /\ written[w] = {}
     /\ shared[w] \subseteq Issues \cup Labels \cup Cycles \cup Milestones \cup Teams \cup Projects

\* The statements before the first lock, after it, and after the gate.
LocksSoFar(w) ==
  /\ step[w] \in {"idle", "begun", "write issue"} => exclusive[w] = {} /\ shared[w] = {}
  /\ step[w] \in {"idle", "begun"} => written[w] = {}
  /\ Gate \in exclusive[w] <=> step[w] \in {"append", "commit", "share key"}

\* Issues are never deleted, so a comment's issue is not one being created.
CommentFits(w) ==
  step[w] # "idle" /\ request[w].op \in {"add_comment", "update_comment"} =>
    issues[request[w].issue] # Absent

LocksStand == \A w \in Workers : LocksFit(w) /\ LocksSoFar(w) /\ CommentFits(w)

LEMMA InitLocks == Init => LocksStand
BY NoRequestIsRequest DEF Init, LocksStand, LocksFit, LocksSoFar, CommentFits

\* A step changes the locks of one worker and deletes no issue.
LEMMA OneWorkersLocks ==
  ASSUME IInv, LocksStand, NEW w \in Workers,
         \A v \in Workers \ {w} :
           /\ step'[v] = step[v] /\ request'[v] = request[v] /\ exclusive'[v] = exclusive[v]
           /\ written'[v] = written[v] /\ shared'[v] = shared[v],
         \A i \in Issues : issues[i] # Absent => issues'[i] # Absent,
         (LocksFit(w) /\ LocksSoFar(w) /\ CommentFits(w))'
  PROVE  LocksStand'
<1>1. ASSUME NEW v \in Workers \ {w} PROVE (LocksFit(v) /\ LocksSoFar(v) /\ CommentFits(v))'
  <2>1. (LocksFit(v) /\ LocksSoFar(v))'
    BY DEF LocksStand, LocksFit, LocksSoFar
  <2>2. request[v].op \in AboutIssues => request[v].issue \in Issues
    BY RequestFields DEF IInv, TypeOK
  <2>3. CommentFits(v)'
    BY <2>2 DEF LocksStand, CommentFits, AboutIssues
  <2> QED  BY <2>1, <2>3
<1> QED  BY <1>1 DEF LocksStand

\* The end of a transaction lets go of all locks.
LEMMA EndedLocks ==
  ASSUME IInv, LocksStand, NEW w \in Workers, EndTransaction(w),
         \A i \in Issues : issues[i] # Absent => issues'[i] # Absent
  PROVE  LocksStand'
<1>1. /\ step'[w] = "idle" /\ exclusive'[w] = {} /\ written'[w] = {} /\ shared'[w] = {}
      /\ \A v \in Workers \ {w} :
           /\ step'[v] = step[v] /\ request'[v] = request[v] /\ exclusive'[v] = exclusive[v]
           /\ written'[v] = written[v] /\ shared'[v] = shared[v]
  BY DEF EndTransaction, Goto, IInv, TypeOK
<1>2. (LocksFit(w) /\ LocksSoFar(w) /\ CommentFits(w))'
  BY <1>1 DEF LocksFit, LocksSoFar, CommentFits
<1> QED  BY <1>1, <1>2, OneWorkersLocks

\* The commits of issue writers: a row is written, none is deleted.
LEMMA PublishKeepsIssues ==
  ASSUME IInv, NEW w \in Workers, PublishIssue(w), step[w] # "idle",
         request[w].op \in IssueWrites
  PROVE  \A i \in Issues : issues[i] # Absent => issues'[i] # Absent
<1> DEFINE row == WrittenIssue(request[w], issues[request[w].issue], carried[w])
<1>1. request[w].issue \in Issues
  BY RequestFields DEF IInv, TypeOK, AboutIssues
<1>2. issues' = [issues EXCEPT ![request[w].issue] = row]
  BY DEF PublishIssue
<1>3. row # Absent
  <2>1. CASE request[w].op = "create_issue"
    <3>1. request[w] \in Requests /\ carried[w] \subseteq Labels
      BY DEF IInv, TypeOK
    <3>2. row = [project |-> request[w].project, team |-> request[w].team,
                 labels |-> carried[w], cycle |-> request[w].cycle,
                 milestone |-> request[w].milestone]
      BY <2>1 DEF WrittenIssue
    <3>3. row \in IssueRow
      BY <2>1, <3>1, <3>2, RequestFields DEF IssueRow, TeamChoices
    <3> QED  BY <3>3
  <2>2. CASE request[w].op \in {"update_issue", "move_issue"}
    <3>1. issues[request[w].issue] \in IssueRow /\ request[w] \in Requests
            /\ carried[w] \subseteq Labels
      BY <2>2 DEF IInv, TypeOK, TransactionStands, ReadStands
    <3>2. CASE request[w].op = "update_issue"
      <4>1. row = [issues[request[w].issue] EXCEPT !.labels = carried[w],
                     !.cycle = request[w].cycle, !.milestone = request[w].milestone]
        BY <3>2 DEF WrittenIssue
      <4>2. row \in IssueRow
        BY <3>1, <3>2, <4>1, RequestFields DEF IssueRow
      <4> QED  BY <4>2
    <3>3. CASE request[w].op = "move_issue"
      <4>1. row = [issues[request[w].issue] EXCEPT !.team = request[w].team,
                     !.labels = carried[w], !.cycle = Absent]
        BY <3>3 DEF WrittenIssue
      <4>2. row \in IssueRow
        BY <3>1, <3>3, <4>1, RequestFields DEF IssueRow, TeamChoices
      <4> QED  BY <4>2
    <3> QED  BY <2>2, <3>2, <3>3
  <2> QED  BY <2>1, <2>2 DEF IssueWrites
<1> HIDE DEF row
<1> QED  BY <1>1, <1>2, <1>3 DEF IInv, TypeOK

\* The statements of update_project, from which only the tables of its locks matter.
LEMMA ProjectLocks ==
  ASSUME IInv, LocksStand, NEW w \in Workers,
         \/ CheckCover(w) \/ WriteProject(w) \/ ShareLead(w) \/ ReplaceTeams(w)
         \/ TeamsInserted(w) \/ \E t \in Teams : InsertTeam(w, t)
  PROVE  LocksStand'
<1>1. /\ UNCHANGED <<issues, request>>
      /\ \A v \in Workers \ {w} :
           /\ step'[v] = step[v] /\ exclusive'[v] = exclusive[v]
           /\ written'[v] = written[v] /\ shared'[v] = shared[v]
  BY DEF CheckCover, WriteProject, ShareLead, ReplaceTeams, TeamsInserted, InsertTeam, Goto,
     IInv, TypeOK, dbVars, lockVars
<1>2. /\ request[w].op = "update_project" /\ request[w].project \in Projects
      /\ request[w].lead \in Teams \cup {Absent}
  BY RequestFields DEF CheckCover, WriteProject, ShareLead, ReplaceTeams, TeamsInserted,
     InsertTeam, At, IInv, TypeOK, TransactionStands, StepFits
<1>3. /\ step[w] \in {"begun", "write project", "share lead", "replace teams", "insert teams"}
      /\ step'[w] \in {"write project", "share lead", "replace teams", "insert teams", "gate"}
  BY DEF CheckCover, WriteProject, ShareLead, ReplaceTeams, TeamsInserted, InsertTeam, At,
     Goto, IInv, TypeOK
<1>4. /\ exclusive'[w] \subseteq exclusive[w] \cup (Projects \X Teams)
      /\ written'[w] \subseteq written[w] \cup Projects
      /\ shared'[w] \subseteq shared[w] \cup Teams
  <2>1. CASE CheckCover(w) \/ TeamsInserted(w)
    BY <2>1 DEF CheckCover, TeamsInserted, lockVars
  <2>2. CASE WriteProject(w)
    BY <1>2, <2>2 DEF WriteProject, IInv, TypeOK
  <2>3. CASE ShareLead(w)
    <3>1. request[w].lead \in Teams
      BY <1>2, <2>3 DEF ShareLead, IInv, TransactionStands, StepFits
    <3> QED  BY <2>3, <3>1 DEF ShareLead, IInv, TypeOK
  <2>4. CASE ReplaceTeams(w)
    BY <2>4 DEF ReplaceTeams, IInv, TypeOK
  <2>5. CASE \E t \in Teams : InsertTeam(w, t)
    <3>1. PICK t \in Teams : InsertTeam(w, t)
      BY <2>5
    <3>2. UNCHANGED <<exclusive, written>> /\ shared' = [shared EXCEPT ![w] = @ \cup {t}]
      BY <3>1 DEF InsertTeam
    <3> QED  BY <3>2 DEF IInv, TypeOK
  <2> QED  BY <2>1, <2>2, <2>3, <2>4, <2>5
<1>5. Gate \notin Projects \X Teams
  BY TablesAssumption
<1>6. LocksFit(w)'
  <2>1. /\ exclusive[w] \subseteq {Gate} \cup (Projects \X Teams) /\ written[w] \subseteq Projects
        /\ shared[w] \subseteq
             Issues \cup Labels \cup Cycles \cup Milestones \cup Teams \cup Projects
    BY <1>2 DEF LocksStand, LocksFit
  <2> QED  BY <1>1, <1>2, <1>4, <2>1 DEF LocksFit, TeamChoices, Puts
<1>7. LocksSoFar(w)' /\ CommentFits(w)'
  <2>1. Gate \notin exclusive[w]
    BY <1>3 DEF LocksStand, LocksSoFar
  <2> QED  BY <1>1, <1>2, <1>3, <1>4, <1>5, <2>1 DEF LocksSoFar, CommentFits
<1> QED  BY <1>1, <1>6, <1>7, OneWorkersLocks

\* The statements of issue writers up to the gate, and of put_label and the like.
LEMMA WriterLocks ==
  ASSUME IInv, LocksStand, NEW w \in Workers,
         \/ CountIssue(w) \/ InsertIssue(w) \/ UpdateIssue(w) \/ MoveIssue(w) \/ PutRow(w)
         \/ ShareOwner(w) \/ RenameTeam(w) \/ WriteTeam(w)
  PROVE  LocksStand'
<1>1. /\ UNCHANGED <<issues, request>>
      /\ \A v \in Workers \ {w} :
           /\ step'[v] = step[v] /\ exclusive'[v] = exclusive[v]
           /\ written'[v] = written[v] /\ shared'[v] = shared[v]
  BY DEF CountIssue, InsertIssue, UpdateIssue, MoveIssue, PutRow, ShareOwner, RenameTeam,
     WriteTeam, Goto, IInv, TypeOK, dbVars, lockVars
<1> DEFINE r == request[w]
<1>2. /\ r.op \in AboutIssues => r.issue \in Issues
      /\ r.op \in TeamChoices \cup {"put_team"} => r.team \in Teams
      /\ r.op \in Puts => r.row \in Labels \cup Cycles \cup Milestones
  BY RequestFields DEF IInv, TypeOK, Puts
<1>3. r.op \in {"create_issue", "update_issue"} => Referenced(w) \subseteq Cycles \cup Milestones
  BY RequestFields DEF IInv, TypeOK, Referenced
<1>4. CASE CountIssue(w)
  <2>1. /\ step[w] = "begun" /\ step'[w] = "write issue" /\ r.op \in TeamChoices
        /\ UNCHANGED <<exclusive, shared>> /\ written'[w] = written[w] \cup {r.team}
    BY <1>4 DEF CountIssue, At, Goto, IInv, TypeOK
  <2>2. (LocksFit(w) /\ LocksSoFar(w) /\ CommentFits(w))'
    BY <1>1, <1>2, <2>1 DEF LocksStand, LocksFit, LocksSoFar, CommentFits, TeamChoices, Puts
  <2> QED  BY <1>1, <2>2, OneWorkersLocks
<1>5. CASE InsertIssue(w)
  <2>1. /\ step[w] = "write issue" /\ step'[w] = "attach labels" /\ r.op = "create_issue"
        /\ UNCHANGED written /\ exclusive'[w] = exclusive[w] \cup {r.issue}
        /\ shared'[w] = shared[w] \cup Referenced(w)
    BY <1>5 DEF InsertIssue, At, Goto, IInv, TypeOK
  <2>2. Gate # r.issue
    BY <1>2, <2>1, TablesAssumption DEF AboutIssues, IssueWrites
  <2>3. (LocksFit(w) /\ LocksSoFar(w) /\ CommentFits(w))'
    BY <1>1, <1>2, <1>3, <2>1, <2>2 DEF LocksStand, LocksFit, LocksSoFar, CommentFits,
       TeamChoices, Puts
  <2> QED  BY <1>1, <2>3, OneWorkersLocks
<1>6. CASE UpdateIssue(w)
  <2>1. /\ step[w] = "begun" /\ step'[w] = "attach labels" /\ r.op = "update_issue"
        /\ UNCHANGED exclusive /\ written'[w] = written[w] \cup {r.issue}
        /\ shared'[w] = shared[w] \cup Referenced(w)
    BY <1>6 DEF UpdateIssue, At, Goto, IInv, TypeOK
  <2>2. (LocksFit(w) /\ LocksSoFar(w) /\ CommentFits(w))'
    BY <1>1, <1>2, <1>3, <2>1 DEF LocksStand, LocksFit, LocksSoFar, CommentFits, TeamChoices,
       Puts
  <2> QED  BY <1>1, <2>2, OneWorkersLocks
<1>7. CASE MoveIssue(w)
  <2>1. /\ step[w] = "write issue" /\ step'[w] = "strip labels" /\ r.op = "move_issue"
        /\ UNCHANGED <<written, shared>> /\ exclusive'[w] = exclusive[w] \cup {r.issue}
    BY <1>7 DEF MoveIssue, At, Goto, IInv, TypeOK
  <2>2. Gate # r.issue
    BY <1>2, <2>1, TablesAssumption DEF AboutIssues, IssueWrites
  <2>3. (LocksFit(w) /\ LocksSoFar(w) /\ CommentFits(w))'
    BY <1>1, <2>1, <2>2 DEF LocksStand, LocksFit, LocksSoFar, CommentFits, TeamChoices, Puts
  <2> QED  BY <1>1, <2>3, OneWorkersLocks
<1>8. CASE PutRow(w)
  <2>1. /\ step[w] = "begun" /\ step'[w] \in {"gate", "share owner"} /\ r.op \in Puts
        /\ UNCHANGED <<written, shared>> /\ exclusive'[w] = exclusive[w] \cup {r.row}
    BY <1>8 DEF PutRow, At, Goto, IInv, TypeOK
  <2>2. Gate # r.row
    BY <1>2, <2>1, TablesAssumption
  <2>3. (LocksFit(w) /\ LocksSoFar(w) /\ CommentFits(w))'
    BY <1>1, <1>2, <2>1, <2>2 DEF LocksStand, LocksFit, LocksSoFar, CommentFits, TeamChoices,
       Puts
  <2> QED  BY <1>1, <2>3, OneWorkersLocks
<1>9. CASE ShareOwner(w)
  <2>1. /\ step[w] = "share owner" /\ step'[w] = "gate" /\ UNCHANGED <<written, exclusive>>
        /\ shared'[w] = shared[w] \cup {r.owner}
    BY <1>9 DEF ShareOwner, Goto, IInv, TypeOK
  <2>2. r.op \in Puts /\ r.owner \in Teams \cup Projects
    BY <2>1 DEF IInv, TransactionStands, StepFits
  <2>3. (LocksFit(w) /\ LocksSoFar(w) /\ CommentFits(w))'
    BY <1>1, <2>1, <2>2 DEF LocksStand, LocksFit, LocksSoFar, CommentFits, TeamChoices, Puts
  <2> QED  BY <1>1, <2>3, OneWorkersLocks
<1>10. CASE RenameTeam(w) \/ WriteTeam(w)
  <2>1. /\ step[w] = "begun" /\ step'[w] = "gate" /\ r.op = "put_team" /\ UNCHANGED shared
        /\ \/ UNCHANGED written /\ exclusive'[w] = exclusive[w] \cup {r.team}
           \/ UNCHANGED exclusive /\ written'[w] = written[w] \cup {r.team}
    BY <1>10 DEF RenameTeam, WriteTeam, At, Goto, IInv, TypeOK
  <2>2. Gate # r.team
    BY <1>2, <2>1, TablesAssumption
  <2>3. (LocksFit(w) /\ LocksSoFar(w) /\ CommentFits(w))'
    BY <1>1, <1>2, <2>1, <2>2 DEF LocksStand, LocksFit, LocksSoFar, CommentFits, TeamChoices,
       Puts
  <2> QED  BY <1>1, <2>3, OneWorkersLocks
<1> QED  BY <1>4, <1>5, <1>6, <1>7, <1>8, <1>9, <1>10

\* Labels, comments, the gate and the activity record.
LEMMA LaterLocks ==
  ASSUME IInv, LocksStand, NEW w \in Workers,
         \/ StripLabels(w) \/ LabelsAttached(w) \/ LookupKey(w) \/ WriteComment(w)
         \/ AcquireGate(w) \/ AppendActivity(w) \/ \E l \in Labels : AttachLabel(w, l)
  PROVE  LocksStand'
<1> DEFINE r == request[w]
<1>1. /\ UNCHANGED <<issues, request, written>>
      /\ \A v \in Workers \ {w} :
           step'[v] = step[v] /\ exclusive'[v] = exclusive[v] /\ shared'[v] = shared[v]
  BY DEF StripLabels, LabelsAttached, LookupKey, WriteComment, AcquireGate, AppendActivity,
     AttachLabel, Goto, IInv, TypeOK, dbVars, lockVars
<1>2. r.op \in AboutIssues => r.issue \in Issues
  BY RequestFields DEF IInv, TypeOK
<1>3. CASE StripLabels(w) \/ LabelsAttached(w) \/ LookupKey(w)
  <2>1. /\ UNCHANGED <<exclusive, shared>>
        /\ \/ step[w] \in {"strip labels", "attach labels"} /\ step'[w] = "gate"
           \/ step[w] = "commit" /\ step'[w] = "share key"
    BY <1>3 DEF StripLabels, LabelsAttached, LookupKey, At, Goto, IInv, TypeOK, lockVars
  <2>2. (LocksFit(w) /\ LocksSoFar(w) /\ CommentFits(w))'
    BY <1>1, <2>1 DEF LocksStand, LocksFit, LocksSoFar, CommentFits
  <2> QED  BY <1>1, <2>2, OneWorkersLocks
<1>4. CASE \E l \in Labels : AttachLabel(w, l)
  <2>1. PICK l \in Labels : AttachLabel(w, l)
    BY <1>4
  <2>2. /\ UNCHANGED <<exclusive, step>> /\ step[w] = "attach labels"
        /\ shared'[w] = shared[w] \cup {l}
    BY <2>1 DEF AttachLabel, IInv, TypeOK
  <2>3. (LocksFit(w) /\ LocksSoFar(w) /\ CommentFits(w))'
    BY <1>1, <2>2 DEF LocksStand, LocksFit, LocksSoFar, CommentFits
  <2> QED  BY <1>1, <2>3, OneWorkersLocks
<1>5. CASE WriteComment(w)
  <2>1. /\ UNCHANGED exclusive /\ step[w] = "begun" /\ step'[w] = "gate"
        /\ r.op \in {"add_comment", "update_comment"}
        /\ shared'[w] \subseteq shared[w] \cup {r.issue}
    BY <1>5 DEF WriteComment, At, Goto, IInv, TypeOK
  <2>2. (LocksFit(w) /\ LocksSoFar(w) /\ CommentFits(w))'
    BY <1>1, <1>2, <2>1 DEF LocksStand, LocksFit, LocksSoFar, CommentFits, AboutIssues
  <2> QED  BY <1>1, <2>2, OneWorkersLocks
<1>6. CASE AcquireGate(w)
  <2>1. /\ UNCHANGED shared /\ step[w] = "gate" /\ step'[w] \in {"append", "commit"}
        /\ exclusive'[w] = exclusive[w] \cup {Gate}
    BY <1>6 DEF AcquireGate, Goto, IInv, TypeOK
  <2>2. (LocksFit(w) /\ LocksSoFar(w) /\ CommentFits(w))'
    BY <1>1, <2>1 DEF LocksStand, LocksFit, LocksSoFar, CommentFits
  <2> QED  BY <1>1, <2>2, OneWorkersLocks
<1>7. CASE AppendActivity(w)
  <2>1. /\ UNCHANGED exclusive /\ step[w] = "append" /\ step'[w] = "commit"
        /\ shared'[w] = shared[w] \cup {r.issue}
    BY <1>7 DEF AppendActivity, Goto, IInv, TypeOK
  <2>2. r.issue \in Issues
    BY <1>2, <2>1 DEF IInv, TransactionStands, StepFits
  <2>3. (LocksFit(w) /\ LocksSoFar(w) /\ CommentFits(w))'
    BY <1>1, <2>1, <2>2 DEF LocksStand, LocksFit, LocksSoFar, CommentFits
  <2> QED  BY <1>1, <2>3, OneWorkersLocks
<1> QED  BY <1>3, <1>4, <1>5, <1>6, <1>7

LEMMA BeginLocks ==
  ASSUME IInv, LocksStand, NEW w \in Workers, NEW r \in Requests,
         NEW ahead \in 0..MaxAhead, Begin(w, r, ahead)
  PROVE  LocksStand'
<1>1. /\ UNCHANGED <<issues, exclusive, written, shared>>
      /\ step[w] = "idle" /\ step'[w] = "begun" /\ request'[w] = r
      /\ \A v \in Workers \ {w} : step'[v] = step[v] /\ request'[v] = request[v]
  BY DEF Begin, Goto, IInv, TypeOK, dbVars, lockVars
<1>2. r.op \in {"add_comment", "update_comment"} => issues[r.issue] # Absent
  BY DEF Begin, Precheck
<1>3. (LocksFit(w) /\ LocksSoFar(w) /\ CommentFits(w))'
  BY <1>1, <1>2 DEF LocksStand, LocksFit, LocksSoFar, CommentFits
<1> QED  BY <1>1, <1>3, OneWorkersLocks

LEMMA NextLocks == IInv /\ LocksStand /\ [Next]_vars => LocksStand'
<1> SUFFICES ASSUME IInv, LocksStand, [Next]_vars PROVE LocksStand'
  OBVIOUS
<1>1. CASE UNCHANGED vars
  BY <1>1 DEF vars, dbVars, lockVars, LocksStand, LocksFit, LocksSoFar, CommentFits
<1>2. ASSUME NEW w \in Workers, Step(w) PROVE LocksStand'
  <2>1. CASE CommitTeams(w) \/ CommitPut(w) \/ CommitOther(w)
    <3>1. EndTransaction(w) /\ UNCHANGED issues
      BY <2>1 DEF CommitTeams, CommitPut, CommitOther, dbVars
    <3> QED  BY <3>1, EndedLocks
  <2>2. CASE CommitChoice(w) \/ CommitUpdate(w)
    <3>1. PublishIssue(w) /\ step[w] # "idle" /\ request[w].op \in IssueWrites
      BY <2>2 DEF CommitChoice, CommitUpdate, At, IInv, TransactionStands, StepFits,
         TeamChoices, IssueWrites
    <3> QED  BY <3>1, PublishKeepsIssues, EndedLocks DEF PublishIssue
  <2> QED  BY <1>2, <2>1, <2>2, ProjectLocks, WriterLocks, LaterLocks DEF Step
<1>3. ASSUME NEW w \in Workers, Abort(w) PROVE LocksStand'
  BY <1>3, EndedLocks DEF Abort, dbVars
<1>4. ASSUME NEW w \in Workers, NEW r \in Requests, NEW ahead \in 0..MaxAhead,
             Begin(w, r, ahead)
      PROVE  LocksStand'
  BY <1>4, BeginLocks
<1> QED  BY <1>1, <1>2, <1>3, <1>4 DEF Next

\* The rows asked for, step by step, unless by update_project and move_issue.
LEMMA WantedRows ==
  ASSUME NEW w \in Workers, StepFits(w), request[w].op \notin {"update_project", "move_issue"},
         \/ WantsExclusive(w) # {} \/ WantsWritten(w) # {} \/ WantsShared(w) # {}
  PROVE  \/ step[w] = "begun"
         \/ /\ step[w] = "write issue" /\ request[w].op = "create_issue"
            /\ WantsExclusive(w) = {request[w].issue} /\ WantsWritten(w) = {}
         \/ /\ step[w] = "gate"
            /\ WantsExclusive(w) = {Gate} /\ WantsWritten(w) = {} /\ WantsShared(w) = {}
         \/ /\ WantsExclusive(w) = {} /\ WantsWritten(w) = {}
            /\ \/ step[w] = "attach labels" /\ WantsShared(w) = pending[w]
               \/ step[w] = "share owner" /\ WantsShared(w) = {request[w].owner}
               \/ step[w] = "append" /\ WantsShared(w) = {request[w].issue}
               \/ step[w] = "share key" /\ WantsShared(w) = {Key(w)}
<1>1. CASE step[w] = "write issue"
  <2>1. request[w].op = "create_issue"
    BY <1>1 DEF StepFits, TeamChoices
  <2> QED  BY <1>1, <2>1 DEF WantsExclusive, WantsWritten, At, TeamChoices
<1>2. CASE step[w] = "gate"
  BY <1>2 DEF WantsExclusive, WantsWritten, WantsShared, At
<1>3. CASE step[w] = "attach labels"
  BY <1>3 DEF WantsExclusive, WantsWritten, WantsShared, At
<1>4. CASE step[w] = "share owner"
  BY <1>4 DEF WantsExclusive, WantsWritten, WantsShared, At
<1>5. CASE step[w] = "append"
  BY <1>5 DEF WantsExclusive, WantsWritten, WantsShared, At
<1>6. CASE step[w] = "share key"
  BY <1>6 DEF WantsExclusive, WantsWritten, WantsShared, At
<1>7. step[w] \notin {"write project", "share lead", "replace teams", "insert teams"}
  BY DEF StepFits
<1>8. CASE step[w] \notin {"begun", "write issue", "gate", "attach labels", "share owner",
                           "append", "share key"}
  BY <1>7, <1>8 DEF WantsExclusive, WantsWritten, WantsShared, At
<1> QED  BY <1>1, <1>2, <1>3, <1>4, <1>5, <1>6, <1>8

\* Who can hold what exclusively, while it waits without the gate.
LEMMA HeldRows ==
  ASSUME IInv, LocksStand, NEW v \in Workers, NEW row \in exclusive[v], row # Gate,
         request[v].op # "move_issue"
  PROVE  /\ row \in Projects \X Teams => request[v].op = "update_project"
         /\ row \in Teams \cup Projects => request[v].op = "put_team"
         /\ row \in Labels \cup Cycles \cup Milestones => request[v].op \in Puts
         /\ row \in Issues => request[v].op = "create_issue" /\ request[v].issue = row
<1> DEFINE Attachments == Labels \cup Cycles \cup Milestones
           Keys == Projects \X Teams
<1>1. LocksFit(v) /\ request[v] \in Requests
  BY DEF LocksStand, IInv, TypeOK
<1>2. /\ Projects \cap (Teams \cup Issues \cup Attachments \cup Keys) = {}
      /\ Teams \cap (Issues \cup Attachments \cup Keys) = {}
      /\ Issues \cap (Attachments \cup Keys) = {}
      /\ Attachments \cap Keys = {}
  BY TablesAssumption
<1> HIDE DEF Keys, Attachments
<1>3. \/ request[v].op = "update_project" /\ row \in Keys
      \/ request[v].op = "put_team" /\ row \in Teams
      \/ request[v].op = "create_issue" /\ row = request[v].issue /\ row \in Issues
      \/ request[v].op \in Puts /\ row \in Attachments
  <2>1. CASE request[v].op = "update_project"
    BY <1>1, <2>1 DEF LocksFit, Keys
  <2>2. CASE request[v].op = "put_team"
    BY <1>1, <2>2 DEF LocksFit
  <2>3. CASE request[v].op \in TeamChoices
    BY <1>1, <2>3, RequestFields DEF LocksFit, TeamChoices, AboutIssues, IssueWrites
  <2>4. CASE request[v].op \in {"update_issue", "add_comment", "update_comment"}
    BY <1>1, <2>4 DEF LocksFit
  <2>5. CASE request[v].op \in Puts
    BY <1>1, <2>5 DEF LocksFit, Attachments
  <2>6. request[v].op \in {"update_project", "put_team"} \cup AboutIssues \cup Puts
    BY <1>1, RequestFields
  <2> QED
    BY <2>1, <2>2, <2>3, <2>4, <2>5, <2>6 DEF AboutIssues, IssueWrites, TeamChoices
<1>4. row \in Keys => request[v].op = "update_project"
  BY <1>2, <1>3
<1>5. row \in Teams \cup Projects => request[v].op = "put_team"
  BY <1>2, <1>3
<1>6. row \in Attachments => request[v].op \in Puts
  BY <1>2, <1>3
<1>7. row \in Issues => request[v].op = "create_issue" /\ request[v].issue = row
  BY <1>2, <1>3
<1> QED  BY <1>4, <1>5, <1>6, <1>7 DEF Keys, Attachments

(***************************************************************************)
(* Without update_project and move_issue nobody waits for the holder of the *)
(* gate, since it waits for nobody itself; so nobody of the set is at the   *)
(* gate, and step by step towards the first one, nobody waits there for a   *)
(* worker that itself waits: for a team only a renaming put_team at the     *)
(* gate, for a label only a put_label at its team or the gate.              *)
(***************************************************************************)
LEMMA LocksExcludeDeadlock == IInv /\ LocksStand => OnlyTeamChangesDeadlock
<1> SUFFICES ASSUME IInv, LocksStand, NEW waiting \in SUBSET Workers, waiting # {},
                    \A w \in waiting : Blockers(w) \cap waiting # {},
                    \A w \in waiting : request[w].op \notin {"update_project", "move_issue"}
             PROVE  FALSE
  BY DEF OnlyTeamChangesDeadlock, Deadlocked
<1> DEFINE Locks(v) == exclusive[v] \cup written[v] \cup shared[v]
           Blocks(v, w) == \/ WantsExclusive(w) \cap Locks(v) # {}
                           \/ WantsWritten(w) \cap (exclusive[v] \cup written[v]) # {}
                           \/ WantsShared(w) \cap exclusive[v] # {}
<1>1. ASSUME NEW w \in waiting PROVE \E v \in waiting \ {w} : Blocks(v, w)
  BY <1>1 DEF Blockers
<1>2. ASSUME NEW w \in waiting
      PROVE  /\ LocksFit(w) /\ LocksSoFar(w) /\ CommentFits(w) /\ request[w] \in Requests
             /\ WantsExclusive(w) # {} \/ WantsWritten(w) # {} \/ WantsShared(w) # {}
             /\ step[w] # "idle"
  <2>1. WantsExclusive(w) # {} \/ WantsWritten(w) # {} \/ WantsShared(w) # {}
    BY <1>1
  <2>2. step[w] # "idle"
    BY <2>1 DEF WantsExclusive, WantsWritten, WantsShared, At
  <2> QED  BY <2>1, <2>2 DEF LocksStand, IInv, TypeOK
<1>3. ASSUME NEW w \in waiting
      PROVE  TransactionStands(w) /\ StepFits(w)
  BY <1>2 DEF IInv, TransactionStands
<1>4. ASSUME NEW w \in waiting
      PROVE  \/ step[w] = "begun"
             \/ /\ step[w] = "write issue" /\ request[w].op = "create_issue"
                /\ WantsExclusive(w) = {request[w].issue} /\ WantsWritten(w) = {}
             \/ /\ step[w] = "gate"
                /\ WantsExclusive(w) = {Gate} /\ WantsWritten(w) = {} /\ WantsShared(w) = {}
             \/ /\ WantsExclusive(w) = {} /\ WantsWritten(w) = {}
                /\ \/ step[w] = "attach labels" /\ WantsShared(w) = pending[w]
                   \/ step[w] = "share owner" /\ WantsShared(w) = {request[w].owner}
                   \/ step[w] = "append" /\ WantsShared(w) = {request[w].issue}
                   \/ step[w] = "share key" /\ WantsShared(w) = {Key(w)}
  BY <1>2, <1>3, WantedRows
\* Who holds the gate.
<1>5. ASSUME NEW w \in waiting, Gate \in exclusive[w] PROVE FALSE
  <2>1. PICK v \in waiting \ {w} : Blocks(v, w)
    BY <1>1
  <2>2. step[w] \in {"append", "share key"}
    BY <1>2, <1>4, <1>5 DEF LocksSoFar
  <2>3. PICK row \in WantsShared(w) : row \in exclusive[v]
    BY <1>4, <2>1, <2>2
  <2>4. Gate \notin exclusive[v]
    BY <1>5, <2>1 DEF IInv, LocksExclude
  <2>5. row # Gate
    BY <2>3, <2>4
  <2>6. CASE step[w] = "append"
    <3>1. row = request[w].issue /\ request[w].op \in AboutIssues
      BY <1>3, <1>4, <2>3, <2>6 DEF StepFits
    <3>2. row \in Issues
      BY <1>2, <3>1, RequestFields
    <3>3. request[v].op = "create_issue" /\ request[v].issue = row
      BY <2>3, <2>5, <3>2, HeldRows
    <3>4. step[v] \in After
      <4>1. step[v] \notin {"begun", "write issue"}
        BY <1>2, <2>3 DEF LocksSoFar
      <4> QED  BY <1>4, <4>1 DEF After
    <3>5. issues[row] = Absent
      <4>1. TransactionStands(v) /\ step[v] # "idle"
        BY <1>2, <1>3, <2>1
      <4> QED  BY <3>3, <3>4, <4>1 DEF TransactionStands, InsertStands
    <3>6. request[w].op \in {"create_issue", "update_issue"}
      BY <1>2, <2>6, <3>1, <3>5 DEF CommentFits, AboutIssues, IssueWrites
    <3>7. row \in exclusive[w] \cup written[w]
      BY <1>3, <2>6, <3>1, <3>6 DEF TransactionStands, ReadStands, InsertStands, After
    <3> QED  BY <2>1, <2>3, <3>7 DEF IInv, LocksExclude
  <2>7. CASE step[w] = "share key"
    <3>1. row = Key(w) /\ request[w].op \in TeamChoices
      <4>1. WantsShared(w) = {Key(w)}
        BY <1>4, <2>7
      <4>2. StepFits(w)
        BY <1>3
      <4> QED  BY <2>3, <2>7, <4>1, <4>2 DEF StepFits
    <3>2. row \in Projects \X Teams
      BY <1>2, <1>3, <2>7, <3>1, RequestFields DEF Key, TransactionStands, ReadStands,
         IssueRow, TeamChoices
    <3>3. request[v].op = "update_project"
      BY <2>3, <2>5, <3>2, HeldRows
    <3> QED  BY <3>3
  <2> QED  BY <2>2, <2>6, <2>7
\* Nobody waits for the gate.
<1>6. ASSUME NEW w \in waiting PROVE step[w] \notin {"gate", "append", "share key"}
  <2>1. step[w] \notin {"append", "share key"}
    BY <1>2, <1>5 DEF LocksSoFar
  <2>2. ASSUME step[w] = "gate" PROVE FALSE
    <3>1. PICK v \in waiting \ {w} : Blocks(v, w)
      BY <1>1
    <3>2. Gate \in Locks(v)
      BY <1>4, <2>2, <3>1
    <3>3. /\ written[v] \subseteq Teams \cup Issues
          /\ shared[v] \subseteq
               Issues \cup Labels \cup Cycles \cup Milestones \cup Teams \cup Projects
      <4>1. request[v].op \in {"put_team"} \cup AboutIssues \cup Puts
        BY <1>2, RequestFields
      <4>2. request[v].op \in AboutIssues => request[v].issue \in Issues
        BY <1>2, RequestFields
      <4> QED  BY <1>2, <4>1, <4>2 DEF LocksFit, AboutIssues, IssueWrites, TeamChoices
    <3>4. Gate \notin written[v] \cup shared[v]
      BY <3>3, TablesAssumption
    <3> QED  BY <1>5, <3>2, <3>4
  <2> QED  BY <2>1, <2>2
\* Hence only a transaction's first rows can be waited for.
<1>7. ASSUME NEW w \in waiting, NEW row \in exclusive[w]
      PROVE  row # Gate /\ row \notin Teams \cup Projects
  <2>1. row # Gate
    BY <1>5
  <2>2. ASSUME request[w].op = "put_team" PROVE FALSE
    <3>1. step[w] # "begun"
      BY <1>2, <1>7 DEF LocksSoFar
    <3>2. step[w] \notin {"write issue", "attach labels", "share owner"}
      BY <1>3, <2>2 DEF StepFits, TeamChoices, Puts
    <3> QED  BY <1>4, <1>6, <3>1, <3>2
  <2> QED  BY <2>1, <2>2, HeldRows
<1>8. ASSUME NEW w \in waiting PROVE step[w] # "share owner"
  <2> SUFFICES ASSUME step[w] = "share owner" PROVE FALSE
    OBVIOUS
  <2>1. PICK v \in waiting \ {w} : Blocks(v, w)
    BY <1>1
  <2>2. request[w].owner \in exclusive[v] /\ request[w].owner \in Teams \cup Projects
    BY <1>3, <1>4, <2>1 DEF StepFits
  <2> QED  BY <1>7, <2>2
<1>9. ASSUME NEW w \in waiting, NEW row \in exclusive[w]
      PROVE  row \notin Labels \cup Cycles \cup Milestones
  <2> SUFFICES ASSUME row \in Labels \cup Cycles \cup Milestones PROVE FALSE
    OBVIOUS
  <2>1. request[w].op \in Puts
    BY <1>7, HeldRows
  <2>2. step[w] \notin {"begun", "write issue"}
    BY <1>2, <1>9 DEF LocksSoFar
  <2>3. step[w] # "attach labels"
    BY <1>3, <2>1 DEF StepFits, Puts
  <2> QED  BY <1>4, <1>6, <1>8, <2>2, <2>3
<1>10. ASSUME NEW w \in waiting PROVE step[w] # "attach labels"
  <2> SUFFICES ASSUME step[w] = "attach labels" PROVE FALSE
    OBVIOUS
  <2>1. PICK v \in waiting \ {w} : Blocks(v, w)
    BY <1>1
  <2>2. PICK row \in pending[w] : row \in exclusive[v]
    BY <1>4, <2>1
  <2>3. row \in Labels \cup Teams
    BY <2>2 DEF IInv, TypeOK
  <2> QED  BY <1>7, <1>9, <2>2, <2>3
<1>11. ASSUME NEW w \in waiting
       PROVE  /\ step[w] \in {"begun", "write issue"}
              /\ exclusive[w] = {} /\ shared[w] = {} /\ written[w] \subseteq Teams
              /\ step[w] = "begun" => written[w] = {}
  <2>1. step[w] \in {"begun", "write issue"}
    BY <1>4, <1>6, <1>8, <1>10
  <2>2. exclusive[w] = {} /\ shared[w] = {} /\ (step[w] = "begun" => written[w] = {})
    BY <1>2, <2>1 DEF LocksSoFar
  <2>3. step[w] = "write issue" => written[w] \subseteq Teams
    BY <1>2, <1>3 DEF StepFits, LocksFit
  <2> QED  BY <2>1, <2>2, <2>3
\* The number of a team is asked for first, and then held by nobody who waits.
<1>12. ASSUME NEW w \in waiting PROVE step[w] = "begun"
  <2> SUFFICES ASSUME step[w] = "write issue" PROVE FALSE
    BY <1>11
  <2>1. PICK v \in waiting \ {w} : Blocks(v, w)
    BY <1>1
  <2>2. request[w].issue \in written[v] /\ request[w].op = "create_issue"
    <3>1. exclusive[v] = {} /\ shared[v] = {}
      BY <1>11, <2>1
    <3>2. /\ request[w].op = "create_issue"
          /\ WantsExclusive(w) = {request[w].issue} /\ WantsWritten(w) = {}
      BY <1>4
    <3> QED  BY <2>1, <3>1, <3>2
  <2>3. request[w].issue \in Issues
    BY <1>2, <2>2, RequestFields DEF AboutIssues, IssueWrites
  <2> QED  BY <1>11, <2>1, <2>2, <2>3, TablesAssumption
<1>13. PICK w \in waiting : TRUE
  OBVIOUS
<1>14. PICK v \in waiting \ {w} : Blocks(v, w)
  BY <1>1
<1> QED  BY <1>11, <1>12, <1>14

LEMMA LocksInvariance == Spec => []LocksStand
<1>1. Init => LocksStand
  BY InitLocks
<1>2. IInv /\ LocksStand /\ [Next]_vars => LocksStand'
  BY NextLocks
<1> QED  BY <1>1, <1>2, TeamsInvariance, PTL DEF Spec

(***************************************************************************)
(* Whenever transactions wait for each other, an update_project or a        *)
(* move_issue is among them: the other commands never deadlock with one     *)
(* another, over the rows and the gate that they lock here.                 *)
(***************************************************************************)
THEOREM OthersDoNotDeadlock == Spec => []OnlyTeamChangesDeadlock
<1>1. IInv /\ LocksStand => OnlyTeamChangesDeadlock
  BY LocksExcludeDeadlock
<1> QED  BY <1>1, TeamsInvariance, LocksInvariance, PTL

=============================================================================
