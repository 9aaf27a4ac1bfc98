------------------------- MODULE CollaborationProofs -------------------------
(***************************************************************************)
(* That nobody writes to or is served a place without having been allowed   *)
(* to see it, that keys and memberships are not written twice, and that a   *)
(* walk meets every row that has been there, proved for any number of       *)
(* writers, readers, teams and rows.                                        *)
(***************************************************************************)
EXTENDS Collaboration, FiniteSetTheorems, TLAPS

-----------------------------------------------------------------------------
(***************************************************************************)
(* The rows of a page, in their order.                                      *)
(***************************************************************************)

Increasing(rows) == \A m, n \in DOMAIN rows : m < n => rows[m] < rows[n]

LEMMA OrderedIsAll ==
  ASSUME NEW S \in SUBSET Nat, IsFiniteSet(S)
  PROVE  /\ Ordered(S) \in Seq(S) /\ Increasing(Ordered(S))
         /\ ToSet(Ordered(S)) = S
<1> DEFINE n == Cardinality(S)
           before(x) == {other \in S : other < x}
           count(x) == Cardinality(before(x))
           f == Ordered(S)
<1>1. \A x \in S : x \in Nat /\ ~(x < x)
  OBVIOUS
<1>2. n \in Nat
  BY FS_CardinalityType
<1>3. ASSUME NEW x \in S PROVE count(x) \in Nat /\ count(x) < n
  <2>1. before(x) \in SUBSET S /\ x \notin before(x)
    BY <1>1
  <2> HIDE DEF before
  <2>2. IsFiniteSet(before(x)) /\ count(x) <= n /\ (n = count(x) => S = before(x))
    BY <2>1, FS_Subset
  <2>3. count(x) \in Nat
    BY <2>2, FS_CardinalityType
  <2> HIDE DEF count, n
  <2> QED  BY <1>2, <2>1, <2>2, <2>3
<1>4. ASSUME NEW x \in S, NEW y \in S, x < y PROVE count(x) < count(y)
  <2>1. before(x) \in SUBSET before(y) /\ x \in before(y) /\ x \notin before(x)
    <3>1. \A z \in S : z < x => z < y
      BY <1>1, <1>4
    <3> QED  BY <1>1, <1>4, <3>1
  <2>2. before(y) \in SUBSET S
    OBVIOUS
  <2> HIDE DEF before
  <2>3. IsFiniteSet(before(y))
    BY <2>2, FS_Subset
  <2>4. count(x) <= count(y) /\ (count(y) = count(x) => before(y) = before(x))
    BY <2>1, <2>3, FS_Subset
  <2>5. count(x) \in Nat /\ count(y) \in Nat
    BY <1>3
  <2> HIDE DEF count
  <2> QED  BY <2>1, <2>4, <2>5
<1> HIDE DEF count, n
<1>5. \A x, y \in S : count(x) = count(y) => x = y
  <2> SUFFICES ASSUME NEW x \in S, NEW y \in S, count(x) = count(y) PROVE x = y
    OBVIOUS
  <2>1. count(x) \in Nat
    BY <1>3
  <2>2. ~(x < y) /\ ~(y < x)
    BY <1>4, <2>1
  <2> QED  BY <1>1, <2>2
<1> DEFINE c == [x \in S |-> count(x) + 1]
           pick(m) == CHOOSE seq \in S : count(seq) = m - 1
<1>6. c \in Injection(S, 1..n)
  <2>1. c \in [S -> 1..n]
    BY <1>2, <1>3
  <2>2. \A x, y \in S : c[x] = c[y] => x = y
    <3> SUFFICES ASSUME NEW x \in S, NEW y \in S, c[x] = c[y] PROVE x = y
      OBVIOUS
    <3>1. count(x) = count(y)
      BY <1>3
    <3> QED  BY <1>5, <3>1
  <2> HIDE DEF c, f, pick
  <2> QED  BY <2>1, <2>2, Zenon DEF Injection, IsInjective
<1>7. c \in Surjection(S, 1..n)
  <2>1. IsFiniteSet(1..n) /\ Cardinality(1..n) = n
    <3>1. 1 \in Int /\ n \in Int
      BY <1>2
    <3>2. IsFiniteSet(1..n) /\ Cardinality(1..n) = IF 1 > n THEN 0 ELSE n - 1 + 1
      BY <3>1, FS_Interval
    <3> QED  BY <1>2, <3>2
  <2> QED  BY <1>6, <2>1, FS_Injection DEF n
<1>8. f = [m \in 1..n |-> pick(m)]
  BY DEF Ordered, n, count
<1>9. ASSUME NEW m \in 1..n PROVE f[m] \in S /\ count(f[m]) = m - 1 /\ f[m] = pick(m)
  <2>1. PICK x \in S : c[x] = m
    BY <1>7 DEF Surjection
  <2>2. count(x) = m - 1
    BY <1>2, <1>3, <2>1
  <2>3. pick(m) \in S /\ count(pick(m)) = m - 1
    BY <2>2
  <2> HIDE DEF f, pick
  <2>4. f[m] = pick(m)
    BY <1>8
  <2> QED  BY <2>3, <2>4
<1>10. f \in Seq(S) /\ DOMAIN f = 1..n
  <2> HIDE DEF f, pick
  <2> QED  BY <1>2, <1>9, <1>8
<1>11. Increasing(f)
  <2> SUFFICES ASSUME NEW i \in 1..n, NEW j \in 1..n, i < j PROVE f[i] < f[j]
    BY <1>10 DEF Increasing
  <2>1. f[i] \in S /\ f[j] \in S /\ count(f[i]) = i - 1 /\ count(f[j]) = j - 1
    BY <1>9
  <2> HIDE DEF f
  <2>2. ~(f[j] < f[i])
    <3>1. f[j] < f[i] => count(f[j]) < count(f[i])
      BY <2>1, <1>4
    <3> QED  BY <1>2, <2>1, <3>1
  <2>3. f[j] # f[i]
    BY <1>2, <2>1
  <2>4. f[i] \in Nat /\ f[j] \in Nat
    BY <1>1, <2>1
  <2> QED  BY <2>2, <2>3, <2>4
<1>12. ASSUME NEW x \in S PROVE x \in ToSet(f)
  <2>1. c[x] \in 1..n /\ c[x] = count(x) + 1 /\ count(x) \in Nat
    BY <1>2, <1>3
  <2>2. f[c[x]] \in S /\ count(f[c[x]]) = count(x)
    BY <1>9, <2>1
  <2>3. f[c[x]] = x
    <3> HIDE DEF f, c
    <3> QED  BY <1>5, <2>2
  <2> HIDE DEF f, c
  <2> QED  BY <1>10, <2>1, <2>3 DEF ToSet
<1>13. \A x \in ToSet(f) : x \in S
  <2> HIDE DEF f
  <2> QED  BY <1>9, <1>10 DEF ToSet
<1> HIDE DEF f
<1>14. ToSet(f) = S
  BY <1>12, <1>13
<1> QED  BY <1>10, <1>11, <1>14 DEF f

LEMMA ItemsAreFirst ==
  ASSUME NEW S \in SUBSET Nat, NEW s \in Seq(S), Increasing(s)
  PROVE  /\ Items(s) \in Seq(S) /\ Increasing(Items(s))
         /\ ToSet(Items(s)) \subseteq ToSet(s)
         /\ \A x \in ToSet(s) :
              \/ x \in ToSet(Items(s))
              \/ Len(s) > PageLimit /\ \A n \in DOMAIN Items(s) : Items(s)[n] < x
         /\ Len(s) > PageLimit => Items(s) # <<>>
<1> DEFINE m == IF Len(s) > PageLimit THEN PageLimit ELSE Len(s)
           t == Items(s)
<1>1. Len(s) \in Nat /\ PageLimit \in Nat /\ PageLimit > 0
  BY BoundsAssumption
<1>2. m \in Nat /\ m <= Len(s) /\ (Len(s) > PageLimit => m > 0)
      /\ (Len(s) <= PageLimit => m = Len(s))
  BY <1>1
<1>3. t = SubSeq(s, 1, m)
  BY DEF Items
<1> HIDE DEF m, t
<1>4. t \in Seq(S) /\ Len(t) = m /\ \A n \in 1..m : t[n] = s[n]
  BY <1>1, <1>2, <1>3
<1>5. \A n : n \in DOMAIN s <=> n \in Nat /\ 1 <= n /\ n <= Len(s)
  <2>1. DOMAIN s = 1..Len(s)
    OBVIOUS
  <2> QED  BY <1>1, <2>1
<1>6. \A n : n \in DOMAIN t <=> n \in Nat /\ 1 <= n /\ n <= m
  <2>1. DOMAIN t = 1..Len(t)
    BY <1>4
  <2> QED  BY <1>2, <1>4, <2>1
<1>7. \A n \in DOMAIN t : n \in DOMAIN s /\ t[n] = s[n]
  BY <1>1, <1>2, <1>4, <1>5, <1>6
<1>8. Increasing(t)
  BY <1>7 DEF Increasing
<1>9. ToSet(t) \subseteq ToSet(s)
  BY <1>7 DEF ToSet
<1>10. ASSUME NEW x \in ToSet(s)
       PROVE  x \in ToSet(t) \/ (Len(s) > PageLimit /\ \A n \in DOMAIN t : t[n] < x)
  <2>1. PICK k \in DOMAIN s : s[k] = x
    BY DEF ToSet
  <2>2. CASE k <= m
    <3>1. k \in DOMAIN t /\ t[k] = x
      BY <1>1, <1>5, <1>6, <1>7, <2>1, <2>2
    <3> QED  BY <3>1 DEF ToSet
  <2>3. CASE ~(k <= m)
    <3>1. Len(s) > PageLimit
      BY <1>1, <1>2, <1>5, <2>1, <2>3
    <3>2. \A n \in DOMAIN t : n < k
      BY <1>1, <1>2, <1>5, <1>6, <2>1, <2>3
    <3>3. \A n \in DOMAIN t : t[n] < x
      BY <1>7, <2>1, <3>2 DEF Increasing
    <3> QED  BY <3>1, <3>3
  <2> QED  BY <2>2, <2>3
<1>11. Len(s) > PageLimit => t # <<>>
  <2>1. m > 0 => 1 \in DOMAIN t
    BY <1>2, <1>6
  <2> QED  BY <1>2, <2>1
<1> QED  BY <1>4, <1>8, <1>9, <1>10, <1>11 DEF t

LEMMA Shifted ==
  ASSUME NEW m \in Nat, NEW n \in Nat, NEW k \in Nat, NEW l \in Nat,
         m < n, ~(m <= k), m <= k + l, n <= k + l
  PROVE  /\ m - k \in Nat /\ 1 <= m - k /\ m - k <= l
         /\ n - k \in Nat /\ 1 <= n - k /\ n - k <= l
         /\ m - k < n - k /\ (m - k) + k = m /\ (n - k) + k = n
OBVIOUS

LEMMA JoinedPages ==
  ASSUME NEW S \in SUBSET Nat, NEW s \in Seq(S), NEW t \in Seq(S), NEW b \in Nat,
         Increasing(s), Increasing(t),
         \A n \in DOMAIN s : s[n] <= b, \A n \in DOMAIN t : t[n] > b
  PROVE  /\ s \o t \in Seq(S) /\ Increasing(s \o t)
         /\ \A x : x \in ToSet(s \o t) <=> x \in ToSet(s) \/ x \in ToSet(t)
<1> DEFINE u == s \o t
           ls == Len(s)
           lt == Len(t)
<1>1. ls \in Nat /\ lt \in Nat
  OBVIOUS
<1>2. /\ u \in Seq(S) /\ Len(u) = ls + lt
      /\ \A n \in 1..ls : u[n] = s[n]
      /\ \A n \in (ls + 1)..(ls + lt) : u[n] = t[n - ls]
  OBVIOUS
<1>3. \A n : n \in DOMAIN s <=> n \in Nat /\ 1 <= n /\ n <= ls
  <2>1. DOMAIN s = 1..ls
    OBVIOUS
  <2> HIDE DEF ls
  <2> QED  BY <1>1, <2>1
<1>4. \A n : n \in DOMAIN t <=> n \in Nat /\ 1 <= n /\ n <= lt
  <2>1. DOMAIN t = 1..lt
    OBVIOUS
  <2> HIDE DEF lt
  <2> QED  BY <1>1, <2>1
<1> HIDE DEF u
<1>5. \A n : n \in DOMAIN u <=> n \in Nat /\ 1 <= n /\ n <= ls + lt
  <2>1. DOMAIN u = 1..(ls + lt)
    BY <1>2
  <2> HIDE DEF ls, lt
  <2> QED  BY <1>1, <2>1
<1> HIDE DEF ls, lt
<1>6. \A n \in DOMAIN s : s[n] \in Nat
  <2>1. \A n \in DOMAIN s : s[n] \in S
    OBVIOUS
  <2> QED  BY <2>1
<1>7. \A n \in DOMAIN t : t[n] \in Nat
  <2>1. \A n \in DOMAIN t : t[n] \in S
    OBVIOUS
  <2> QED  BY <2>1
<1>8. \A n \in DOMAIN s : n \in DOMAIN u /\ u[n] = s[n] /\ s[n] \in Nat
  <2> SUFFICES ASSUME NEW n \in DOMAIN s
               PROVE  n \in DOMAIN u /\ u[n] = s[n] /\ s[n] \in Nat
    OBVIOUS
  <2>1. n \in Nat /\ 1 <= n /\ n <= ls
    BY <1>3
  <2>2. n \in 1..ls /\ n <= ls + lt
    BY <1>1, <2>1
  <2>3. n \in DOMAIN u
    BY <1>5, <2>1, <2>2
  <2>4. u[n] = s[n]
    BY <1>2, <2>2
  <2> QED  BY <1>6, <2>3, <2>4
<1>9. \A n \in DOMAIN t : n + ls \in DOMAIN u /\ u[n + ls] = t[n] /\ t[n] \in Nat
  <2> SUFFICES ASSUME NEW n \in DOMAIN t
               PROVE  n + ls \in DOMAIN u /\ u[n + ls] = t[n] /\ t[n] \in Nat
    OBVIOUS
  <2>1. n \in Nat /\ 1 <= n /\ n <= lt
    BY <1>4
  <2>2. /\ n + ls \in (ls + 1)..(ls + lt) /\ (n + ls) - ls = n
        /\ n + ls \in Nat /\ 1 <= n + ls /\ n + ls <= ls + lt
    BY <1>1, <2>1
  <2>3. n + ls \in DOMAIN u
    BY <1>5, <2>2
  <2>4. u[n + ls] = t[(n + ls) - ls]
    BY <1>2, <2>2
  <2> QED  BY <1>7, <2>2, <2>3, <2>4
<1>10. ASSUME NEW m \in DOMAIN u, NEW n \in DOMAIN u, m < n PROVE u[m] < u[n]
  <2>0. /\ m \in Nat /\ 1 <= m /\ m <= ls + lt /\ n \in Nat /\ 1 <= n /\ n <= ls + lt
    BY <1>5
  <2>1. CASE n <= ls
    <3>1. m \in DOMAIN s /\ n \in DOMAIN s
      BY <1>1, <1>3, <1>5, <1>10, <2>1
    <3> QED  BY <1>8, <1>10, <3>1 DEF Increasing
  <2>2. CASE m <= ls /\ ~(n <= ls)
    <3>0. n - ls \in Nat /\ 1 <= n - ls /\ n - ls <= lt /\ (n - ls) + ls = n
      BY <1>1, <2>0, <2>2
    <3>1. m \in DOMAIN s /\ n - ls \in DOMAIN t /\ (n - ls) + ls = n
      BY <1>3, <1>4, <2>0, <2>2, <3>0
    <3>2. u[m] = s[m] /\ u[n] = t[n - ls] /\ s[m] \in Nat /\ t[n - ls] \in Nat
      BY <1>8, <1>9, <3>1
    <3>3. s[m] <= b /\ t[n - ls] > b
      BY <3>1
    <3> QED  BY <3>2, <3>3
  <2>3. CASE ~(m <= ls)
    <3>1. /\ m - ls \in DOMAIN t /\ n - ls \in DOMAIN t /\ m - ls < n - ls
          /\ (m - ls) + ls = m /\ (n - ls) + ls = n
      <4>1. /\ m - ls \in Nat /\ 1 <= m - ls /\ m - ls <= lt
            /\ n - ls \in Nat /\ 1 <= n - ls /\ n - ls <= lt
            /\ m - ls < n - ls /\ (m - ls) + ls = m /\ (n - ls) + ls = n
        <5>1. m < n
          BY <1>10
        <5>2. ls \in Nat /\ lt \in Nat
          BY <1>1
        <5> QED  BY <2>0, <2>3, <5>1, <5>2, Shifted
      <4> QED  BY <1>4, <4>1
    <3>2. u[m] = t[m - ls] /\ u[n] = t[n - ls]
      BY <1>9, <3>1
    <3> QED  BY <3>1, <3>2 DEF Increasing
  <2> QED  BY <1>1, <1>5, <2>1, <2>2, <2>3
<1>11. ASSUME NEW x, x \in ToSet(s) \/ x \in ToSet(t) PROVE x \in ToSet(u)
  <2>1. CASE x \in ToSet(s)
    BY <1>8, <2>1 DEF ToSet
  <2>2. CASE x \in ToSet(t)
    BY <1>9, <2>2 DEF ToSet
  <2> QED  BY <1>11, <2>1, <2>2
<1>12. ASSUME NEW x \in ToSet(u) PROVE x \in ToSet(s) \/ x \in ToSet(t)
  <2>1. PICK n \in DOMAIN u : u[n] = x
    BY DEF ToSet
  <2>2. n \in Nat /\ 1 <= n /\ n <= ls + lt
    BY <1>5
  <2>3. CASE n <= ls
    <3>1. n \in DOMAIN s
      BY <1>3, <2>2, <2>3
    <3> QED  BY <1>8, <2>1, <3>1 DEF ToSet
  <2>4. CASE ~(n <= ls)
    <3>1. n - ls \in Nat /\ 1 <= n - ls /\ n - ls <= lt /\ (n - ls) + ls = n
      BY <1>1, <2>2, <2>4
    <3>2. n - ls \in DOMAIN t
      BY <1>4, <3>1
    <3>3. t[n - ls] = x
      BY <1>9, <2>1, <3>1, <3>2
    <3> QED  BY <3>2, <3>3 DEF ToSet
  <2> QED  BY <2>3, <2>4
<1>13. Increasing(u)
  BY <1>10 DEF Increasing
<1> QED  BY <1>2, <1>11, <1>12, <1>13 DEF u

LEMMA LastIsGreatest ==
  ASSUME NEW S \in SUBSET Nat, NEW s \in Seq(S), s # <<>>, Increasing(s)
  PROVE  /\ Last(s) \in S /\ Last(s) \in ToSet(s)
         /\ \A n \in DOMAIN s : s[n] <= Last(s)
<1> DEFINE l == Len(s)
<1>1. l \in Nat /\ l > 0
  OBVIOUS
<1>2. \A n : n \in DOMAIN s <=> n \in Nat /\ 1 <= n /\ n <= l
  <2>1. DOMAIN s = 1..l
    OBVIOUS
  <2> HIDE DEF l
  <2> QED  BY <1>1, <2>1
<1>3. Last(s) = s[l] /\ \A n \in DOMAIN s : s[n] \in S
  BY DEF Last
<1> HIDE DEF l
<1>4. l \in DOMAIN s
  BY <1>1, <1>2
<1>5. ASSUME NEW n \in DOMAIN s PROVE s[n] <= s[l]
  <2>1. s[n] \in Nat /\ s[l] \in Nat
    BY <1>3, <1>4
  <2>2. n < l \/ n = l
    BY <1>1, <1>2
  <2>3. n < l => s[n] < s[l]
    BY <1>4 DEF Increasing
  <2> QED  BY <2>1, <2>2, <2>3
<1>6. s[l] \in ToSet(s)
  BY <1>4 DEF ToSet
<1> QED  BY <1>3, <1>4, <1>5, <1>6

USE RequestsAssumption, HandlersAssumption, AbsentAssumption, BoundsAssumption

-----------------------------------------------------------------------------
(***************************************************************************)
(* The invariant of the writers.                                            *)
(***************************************************************************)
Seqs == 1..MaxSeq
Handlers == Workers \cup Readers

Typed ==
  /\ DOMAIN step = Handlers /\ DOMAIN sight = Handlers
  /\ request \in [Workers -> Requests] /\ slot \in [Workers -> Nat]
  /\ DOMAIN checks = Workers /\ DOMAIN prior = Workers
  /\ created \in [Workers -> BOOLEAN] /\ DOMAIN exclusive = Workers
  /\ DOMAIN members = Teams \X Subjects
  /\ records \in [Seqs -> RecordRow \cup {Absent}]
  /\ nextSeq \in Nat \ {0}
  /\ DOMAIN links = Links
  /\ relations \in [Relations -> RelationRow \cup {Absent}]

LocksExclude ==
  \A v, w \in Workers : v # w => exclusive[v] \cap exclusive[w] = {}

\* A row_seq that has not been drawn has no row.
RowsAreDrawn == \A seq \in Seqs : seq >= nextSeq => records[seq] = Absent

Inserting(w) == At(w, "ready", {"insert"})
Editing(w) == At(w, "ready", {"archive", "delete", "move_label"})

InsertsDiffer ==
  \A v, w \in Workers : Inserting(v) /\ Inserting(w) /\ v # w => slot[v] # slot[w]

PairsDiffer ==
  \A x, y \in Relations :
    x # y /\ relations[x] # Absent /\ relations[y] # Absent =>
      \/ relations[x].issue # relations[y].issue
      \/ relations[x].related # relations[y].related

\* A row about to be inserted has a number of its own, and one about to be
\* edited is locked.
RowStands(w) ==
  /\ Inserting(w) =>
       slot[w] \in Seqs /\ slot[w] < nextSeq /\ records[slot[w]] = Absent
  /\ Editing(w) =>
       slot[w] \in Seqs /\ [seq |-> slot[w]] \in exclusive[w] /\ Editable(w, slot[w])

\* The membership a worker has read is the one there is, once it is locked.
MemberStands(w) ==
  request[w].op = "set_team_member" =>
    /\ step[w] = "write_member" /\ prior[w] # Absent =>
         Member(w) \in exclusive[w] /\ Stored(w) = prior[w]
    /\ step[w] = "ready" =>
         \/ Member(w) \in exclusive[w] /\ Stored(w) = prior[w]
         \/ prior[w] # Absent /\ prior[w].active = request[w].active

LinkStands(w) ==
  request[w].op = "put_external_link" =>
    /\ step[w] \in {"read_link", "ready"} /\ created[w] =>
         request[w].link \in exclusive[w] /\ links[request[w].link] = Absent
    /\ step[w] = "ready" /\ ~created[w] =>
         request[w].link \in exclusive[w] /\ links[request[w].link] = request[w].at

RelationStands(w) ==
  /\ At(w, "ready", {"add_issue_relation"}) =>
       /\ {request[w].relation, Pair(w)} \subseteq exclusive[w]
       /\ relations[request[w].relation] = Absent /\ ~Taken(Pair(w))
  /\ step[w] # "idle" /\ request[w].op = "remove_issue_relation" =>
       relations[request[w].relation] # Absent

\* What a request could see at some moment it may rely on, and it has still to
\* check the rest.
SightStands(w) ==
  step[w] # "idle" =>
    /\ checks[w] \in Seq(ToSet(Checks(request[w])))
    /\ \A a \in ToSet(Checks(request[w])) :
         /\ Allowed(a) => a \in sight[w]
         /\ a \in sight[w] \cup ToSet(checks[w])

WorkerStands(w) ==
  RowStands(w) /\ MemberStands(w) /\ LinkStands(w) /\ RelationStands(w) /\ SightStands(w)

WritersInv ==
  /\ Typed /\ LocksExclude /\ RowsAreDrawn /\ InsertsDiffer /\ PairsDiffer
  /\ \A w \in Workers : WorkerStands(w)

-----------------------------------------------------------------------------
(***************************************************************************)
(* The invariant of the readers.                                            *)
(***************************************************************************)
WalksTyped ==
  /\ walk \in [Readers -> Walks] /\ after \in [Readers -> Nat]
  /\ page \in [Readers -> Seq(Seqs)] /\ met \in [Readers -> Seq(Seqs)]
  /\ more \in [Readers -> BOOLEAN] /\ loaded \in [Readers -> Nat]
  /\ old \in [Readers -> SUBSET Seqs]

\* What is old is selected still; what a reader sees it was allowed to see.
ViewStands(h) ==
  /\ step[h] # "idle" => \A seq \in old[h] : Selected(walk[h], seq)
  /\ step[h] \in {"ask", "select", "load"} =>
       \A a \in Asked(walk[h]) : Allowed(a) => a \in sight[h]
  /\ step[h] \in {"select", "load"} /\ walk[h].list.check => Asked(walk[h]) \subseteq sight[h]
  /\ step[h] = "load" /\ walk[h].list.filter =>
       \A seq \in ToSet(page[h]) : records[seq] # Absent =>
         /\ records[seq].table = walk[h].list.table
         /\ [subject |-> walk[h].actor, place |-> records[seq].at] \in sight[h]

\* A row of a page has been there: no row will be inserted in its place.
PageIsDrawn(h) ==
  \A seq \in ToSet(page[h]) :
    seq < nextSeq /\ \A w \in Workers : Inserting(w) => slot[w] # seq

\* The rows met are behind the cursor, in order, and none is left out that has
\* been there; the page is ahead of it, and leaves out none before its last.
PageStands(h) ==
  /\ Increasing(met[h])
  /\ step[h] = "idle" => after[h] = 0 /\ met[h] = <<>>
  /\ step[h] # "load" => page[h] = <<>>
  /\ step[h] \in {"ask", "select", "load"} =>
       /\ \A n \in DOMAIN met[h] : met[h][n] <= after[h]
       /\ \A seq \in old[h] : seq <= after[h] => seq \in ToSet(met[h])
  /\ step[h] = "load" =>
       /\ Increasing(page[h])
       /\ \A n \in DOMAIN page[h] : page[h][n] > after[h]
       /\ \A seq \in old[h] : seq > after[h] =>
            \/ seq \in ToSet(page[h])
            \/ more[h] /\ \A n \in DOMAIN page[h] : page[h][n] < seq
       /\ more[h] => page[h] # <<>>
  /\ step[h] = "walked" => old[h] \subseteq ToSet(met[h])

ReadersInv ==
  /\ WalksTyped
  /\ \A h \in Readers : ViewStands(h) /\ PageIsDrawn(h) /\ PageStands(h)

-----------------------------------------------------------------------------
(***************************************************************************)
(* Lemmas about the operators of the model.                                 *)
(***************************************************************************)

LEMMA RequestOps ==
  ASSUME NEW r \in Requests
  PROVE  r.op \in {"insert", "archive", "delete", "move_label", "set_issue_assignee",
                   "put_external_link", "add_issue_relation", "remove_issue_relation",
                   "set_team_member", "put_team"}
<1>1. r \in Request
  OBVIOUS
<1> QED  BY <1>1 DEF Request

LEMMA InsertFields ==
  ASSUME NEW r \in Requests, r.op = "insert"
  PROVE  /\ r.table \in Inserts /\ r.at \in Places
         /\ [table |-> r.table, at |-> r.at, archived |-> FALSE] \in RecordRow
<1>1. r \in Request
  OBVIOUS
<1>2. r.table \in Inserts /\ r.at \in Places
  BY <1>1 DEF Request
<1> QED  BY <1>2 DEF RecordRow, Inserts, Tables

LEMMA ArchiveFields ==
  ASSUME NEW r \in Requests, r.op = "archive"
  PROVE  r.archived \in BOOLEAN
<1>1. r \in Request
  OBVIOUS
<1> QED  BY <1>1 DEF Request

LEMMA MoveFields ==
  ASSUME NEW r \in Requests, r.op = "move_label"
  PROVE  r.at \in Places
<1>1. r \in Request
  OBVIOUS
<1> QED  BY <1>1 DEF Request

LEMMA MemberFields ==
  ASSUME NEW r \in Requests, r.op = "set_team_member"
  PROVE  r.at \in Teams /\ r.subject \in Subjects /\ r.active \in BOOLEAN
<1>1. r \in Request
  OBVIOUS
<1> QED  BY <1>1 DEF Request

LEMMA LinkFields ==
  ASSUME NEW r \in Requests, r.op = "put_external_link"
  PROVE  r.link \in Links /\ r.at \in Issues
<1>1. r \in Request
  OBVIOUS
<1> QED  BY <1>1 DEF Request

LEMMA RelationFields ==
  ASSUME NEW r \in Requests
  PROVE  /\ r.op = "add_issue_relation" =>
              r.relation \in Relations /\ r.at \in Issues /\ r.related \in Issues
         /\ r.op = "remove_issue_relation" => r.relation \in Relations
<1>1. r \in Request
  OBVIOUS
<1> QED  BY <1>1 DEF Request

\* What the checks of a request ask about are places.
LEMMA CheckFields ==
  ASSUME NEW r \in Requests
  PROVE  /\ r.op \in {"insert", "set_issue_assignee", "put_external_link",
                      "add_issue_relation"} => r.at \in Places
         /\ r.op = "add_issue_relation" => r.related \in Places
<1>1. r \in Request
  OBVIOUS
<1> QED  BY <1>1 DEF Request, Places

LEMMA ListingFields ==
  ASSUME NEW list \in Listings
  PROVE  /\ list.check \in BOOLEAN /\ list.filter \in BOOLEAN
         /\ ~(list.check /\ list.filter)
         /\ list.filter => list.table \in {"projects", "issues", "workflow_states"}
<1>1. CASE list \in {ListProjects, ListIssues, ListIssueWorkflowStates}
  <2>1. list.check = FALSE /\ list.filter = TRUE
    BY <1>1 DEF Listing, ListProjects, ListIssues, ListIssueWorkflowStates
  <2>2. list.table \in {"projects", "issues", "workflow_states"}
    BY <1>1 DEF Listing, ListProjects, ListIssues, ListIssueWorkflowStates
  <2> QED  BY <2>1, <2>2
<1>2. CASE list \in {ListComments, ListProjectUpdates, GetProject, GetIssue}
  <2>1. list.check = TRUE /\ list.filter = FALSE
    BY <1>2 DEF Listing, ListComments, ListProjectUpdates, GetProject, GetIssue
  <2> QED  BY <2>1
<1>3. CASE list \in {ListTeams, ListWorkflowStates, ListProjectStatuses, ListLabels,
                     ListCycles, ListMilestones}
  <2>1. list.check = FALSE /\ list.filter = FALSE
    BY <1>3 DEF Listing, ListTeams, ListWorkflowStates, ListProjectStatuses, ListLabels,
                ListCycles, ListMilestones
  <2> QED  BY <2>1
<1> QED  BY <1>1, <1>2, <1>3 DEF Listings

LEMMA OwnElements ==
  ASSUME NEW S, NEW s \in Seq(S)
  PROVE  s \in Seq(ToSet(s))
<1>1. \A n \in 1..Len(s) : s[n] \in ToSet(s)
  BY DEF ToSet
<1> HIDE DEF ToSet
<1> QED  BY <1>1

LEMMA ChecksAreSequences ==
  ASSUME NEW r \in Requests
  PROVE  Checks(r) \in Seq(ToSet(Checks(r)))
<1>1. CASE r.op = "insert" /\ r.table \in {"comments", "project_updates", "projects"}
  <2> DEFINE a == [subject |-> r.actor, place |-> r.at]
  <2>1. Checks(r) = <<a>>
    BY <1>1 DEF Checks
  <2> HIDE DEF a
  <2>2. Checks(r) \in Seq({a})
    BY <2>1
  <2> QED  BY <2>2, OwnElements
<1>2. CASE r.op = "insert" /\ r.table = "issues"
  <2> DEFINE a == [subject |-> r.actor, place |-> ProjectOf[r.at]]
  <2>1. Checks(r) = <<a>>
    BY <1>2 DEF Checks
  <2> HIDE DEF a
  <2>2. Checks(r) \in Seq({a})
    BY <2>1
  <2> QED  BY <2>2, OwnElements
<1>3. CASE r.op = "insert" /\ r.table \notin {"comments", "project_updates", "projects", "issues"}
  <2>1. Checks(r) \in Seq({})
    BY <1>3 DEF Checks
  <2> QED  BY <2>1, OwnElements
<1>4. CASE r.op = "put_external_link"
  <2> DEFINE a == [subject |-> r.actor, place |-> r.at]
  <2>1. Checks(r) = <<a>>
    BY <1>4 DEF Checks
  <2> HIDE DEF a
  <2>2. Checks(r) \in Seq({a})
    BY <2>1
  <2> QED  BY <2>2, OwnElements
<1>5. CASE r.op = "set_issue_assignee"
  <2> DEFINE a == [subject |-> r.actor, place |-> r.at]
             b == [subject |-> r.assignee, place |-> r.at]
             rest == IF r.assignee = Nobody THEN <<>> ELSE <<b>>
  <2>1. Checks(r) = <<a>> \o rest
    BY <1>5 DEF Checks
  <2> HIDE DEF a, b
  <2>2. <<a>> \in Seq({a, b}) /\ <<b>> \in Seq({a, b}) /\ <<>> \in Seq({a, b})
    OBVIOUS
  <2>3. rest \in Seq({a, b})
    BY <2>2
  <2> HIDE DEF rest
  <2>4. <<a>> \o rest \in Seq({a, b})
    BY <2>2, <2>3
  <2>5. Checks(r) \in Seq({a, b})
    BY <2>1, <2>4
  <2> QED  BY <2>5, OwnElements
<1>6. CASE r.op = "add_issue_relation"
  <2> DEFINE a == [subject |-> r.actor, place |-> r.at]
             b == [subject |-> r.actor, place |-> r.related]
  <2>1. Checks(r) = <<a, b>>
    BY <1>6 DEF Checks
  <2> HIDE DEF a, b
  <2>2. Checks(r) \in Seq({a, b})
    BY <2>1
  <2> QED  BY <2>2, OwnElements
<1>7. CASE r.op = "remove_issue_relation"
  <2> DEFINE a == [subject |-> r.actor, place |-> relations[r.relation].issue]
  <2>1. Checks(r) = <<a>>
    BY <1>7 DEF Checks
  <2> HIDE DEF a
  <2>2. Checks(r) \in Seq({a})
    BY <2>1
  <2> QED  BY <2>2, OwnElements
<1>8. CASE r.op \notin {"insert", "put_external_link", "set_issue_assignee",
                        "add_issue_relation", "remove_issue_relation"}
  <2>1. Checks(r) \in Seq({})
    BY <1>8 DEF Checks
  <2> QED  BY <2>1, OwnElements
<1> QED  BY <1>1, <1>2, <1>3, <1>4, <1>5, <1>6, <1>7, <1>8

\* The checks of a request stay what they are as long as its relation keeps
\* its issue.
LEMMA ChecksKept ==
  ASSUME NEW r \in Requests,
         r.op = "remove_issue_relation" =>
           relations'[r.relation].issue = relations[r.relation].issue
  PROVE  Checks(r)' = Checks(r)
<1>1. CASE r.op = "remove_issue_relation"
  BY <1>1 DEF Checks
<1>2. CASE r.op # "remove_issue_relation"
  BY <1>2, RequestOps DEF Checks
<1> QED  BY <1>1, <1>2

\* The SQL of the handlers lets through whoever is allowed to see the place.
LEMMA AllowedVisible ==
  ASSUME NEW a
  PROVE  Visible(a.subject, a.place) <=> Allowed(a)
<1>1. CASE a.place \in Issues
  BY <1>1, PlacesAssumption DEF Visible, IssueVisible, ProjectVisible, Sees, Allowed, TeamsAbove
<1>2. CASE a.place \in Projects
  BY <1>2, PlacesAssumption DEF Visible, ProjectVisible, Sees, Allowed, TeamsAbove
<1>3. CASE a.place \in Teams
  BY <1>3, PlacesAssumption DEF Visible, Sees, Allowed, TeamsAbove
<1>4. CASE a.place \notin Issues \cup Projects \cup Teams
  BY <1>4 DEF Visible, Allowed, TeamsAbove
<1> QED  BY <1>1, <1>2, <1>3, <1>4

LEMMA AllowedKept ==
  ASSUME UNCHANGED <<private, members>>, NEW a
  PROVE  Allowed(a)' <=> Allowed(a)
BY DEF Allowed

-----------------------------------------------------------------------------
(***************************************************************************)
(* What the writers keep.                                                   *)
(***************************************************************************)

LEMMA FirstOnes ==
  NoRequest \in Requests /\ NoWalk \in Walks
BY DEF NoRequest, NoWalk

LEMMA ChecksNext ==
  ASSUME NEW v, NEW r, request'[v] = r
  PROVE  Checks(request[v])' = Checks(r)'
BY DEF Checks

LEMMA InitWriters ==
  Init => WritersInv
<1> SUFFICES ASSUME Init PROVE WritersInv
  OBVIOUS
<1> USE DEF Init
<1>1. Len(FirstRecords) \in Nat /\ \A seq \in 1..Len(FirstRecords) : FirstRecords[seq] \in RecordRow
  BY FirstAssumption
<1>2. Typed
  <2>1. records \in [Seqs -> RecordRow \cup {Absent}]
    BY <1>1 DEF Seqs
  <2>2. DOMAIN members = Teams \X Subjects
    BY FirstAssumption
  <2>3. request \in [Workers -> Requests]
    BY FirstOnes
  <2> QED  BY <1>1, <2>1, <2>2, <2>3 DEF Typed, Handlers
<1>3. LocksExclude
  BY DEF LocksExclude
<1>4. RowsAreDrawn
  BY <1>1 DEF RowsAreDrawn, Seqs
<1>5. \A w \in Workers : step[w] = "idle"
  OBVIOUS
<1>6. InsertsDiffer
  BY <1>5 DEF InsertsDiffer, Inserting, At
<1>7. PairsDiffer
  BY DEF PairsDiffer
<1>8. \A w \in Workers : WorkerStands(w)
  BY <1>5 DEF WorkerStands, RowStands, MemberStands, LinkStands, RelationStands,
              SightStands, Inserting, Editing, At
<1> QED  BY <1>2, <1>3, <1>4, <1>6, <1>7, <1>8 DEF WritersInv

LEMMA IdleStands ==
  ASSUME NEW w, step'[w] = "idle"
  PROVE  WorkerStands(w)'
BY DEF WorkerStands, RowStands, MemberStands, LinkStands, RelationStands, SightStands,
       Inserting, Editing, At

\* A transaction locks what nobody else has locked.
LEMMA LocksGrow ==
  ASSUME NEW w \in Workers, NEW S, LocksExclude, DOMAIN exclusive = Workers,
         exclusive' = [exclusive EXCEPT ![w] = S],
         \A row \in S : row \in exclusive[w] \/ CanLock(w, row)
  PROVE  LocksExclude'
BY DEF LocksExclude, CanLock

LEMMA LockExcludes ==
  ASSUME NEW w \in Workers, NEW row, Lock(w, row), LocksExclude,
         DOMAIN exclusive = Workers
  PROVE  LocksExclude'
<1>1. exclusive' = [exclusive EXCEPT ![w] = exclusive[w] \cup {row}]
  BY DEF Lock
<1>2. \A other \in exclusive[w] \cup {row} : other \in exclusive[w] \/ CanLock(w, other)
  BY DEF Lock
<1> QED  BY <1>1, <1>2, LocksGrow

LEMMA SightKept ==
  ASSUME NEW v \in Workers, SightStands(v), request[v] \in Requests,
         step[v] # "idle", request'[v] = request[v],
         checks'[v] = checks[v], sight'[v] = sight[v],
         UNCHANGED <<private, members, relations>>
  PROVE  SightStands(v)'
<1>1. Checks(request[v])' = Checks(request[v])
  <2> DEFINE r == request[v]
  <2> SUFFICES ASSUME NEW c, c = request[v] PROVE Checks(request[v])' = Checks(c)
    OBVIOUS
  <2>1. Checks(request[v])' = Checks(c)'
    BY ChecksNext
  <2>2. Checks(c)' = Checks(c)
    BY ChecksKept
  <2> QED  BY <2>1, <2>2
<1>2. \A a : Allowed(a)' <=> Allowed(a)
  BY AllowedKept
<1> QED  BY <1>1, <1>2 DEF SightStands

LEMMA EditableMeans ==
  ASSUME NEW v, NEW seq
  PROVE  /\ request[v].op = "archive" =>
              (Editable(v, seq) <=> Names(records[seq], request[v].table, request[v].at))
         /\ request[v].op = "delete" =>
              (Editable(v, seq) <=> /\ Names(records[seq], request[v].table, request[v].at)
                                    /\ records[seq].archived)
         /\ request[v].op = "move_label" =>
              (Editable(v, seq) <=> Names(records[seq], "labels", request[v].from))
<1>1. CASE request[v].op = "archive"
  BY <1>1 DEF Editable
<1>2. CASE request[v].op = "delete"
  BY <1>2 DEF Editable
<1>3. CASE request[v].op = "move_label"
  BY <1>3 DEF Editable
<1> QED  BY <1>1, <1>2, <1>3

LEMMA RowKept ==
  ASSUME NEW v, RowStands(v), slot[v] \in Nat,
         step'[v] = step[v], request'[v] = request[v], slot'[v] = slot[v],
         exclusive'[v] = exclusive[v],
         slot[v] \in Seqs => records'[slot[v]] = records[slot[v]],
         nextSeq \in Nat, nextSeq' \in Nat, nextSeq <= nextSeq'
  PROVE  RowStands(v)'
<1>1. Inserting(v)' <=> Inserting(v)
  BY DEF Inserting, At
<1>2. Editing(v)' <=> Editing(v)
  BY DEF Editing, At
<1>3. ASSUME NEW seq, seq \in Seqs, Editing(v), Editable(v, seq), records'[seq] = records[seq]
      PROVE  Editable(v, seq)'
  <2>1. CASE request[v].op = "archive"
    BY <1>3, <2>1 DEF Editable, Names
  <2>2. CASE request[v].op = "delete"
    BY <1>3, <2>2 DEF Editable, Names
  <2>3. CASE request[v].op = "move_label"
    BY <1>3, <2>3 DEF Editable, Names
  <2> QED  BY <1>3, <2>1, <2>2, <2>3 DEF Editing, At
<1>4. Editing(v) => Editable(v, slot[v])'
  <2> SUFFICES ASSUME Editing(v) PROVE Editable(v, slot[v])'
    OBVIOUS
  <2> SUFFICES ASSUME NEW seq, seq = slot[v] PROVE Editable(v, slot[v])'
    OBVIOUS
  <2>1. Editable(v, seq)'
    BY <1>3 DEF RowStands
  <2> QED  BY <2>1 DEF Editable, Names
<1>5. Inserting(v) => slot'[v] \in Seqs /\ slot'[v] < nextSeq' /\ records'[slot'[v]] = Absent
  BY DEF RowStands
<1>6. Editing(v) => slot'[v] \in Seqs /\ [seq |-> slot'[v]] \in exclusive'[v]
  BY DEF RowStands
<1> HIDE DEF Inserting, Editing, Editable
<1> QED  BY <1>1, <1>2, <1>4, <1>5, <1>6 DEF RowStands, Seqs

LEMMA FrameStands ==
  ASSUME NEW v \in Workers, WorkerStands(v), request[v] \in Requests,
         step'[v] = step[v], request'[v] = request[v], checks'[v] = checks[v],
         slot'[v] = slot[v], prior'[v] = prior[v], created'[v] = created[v],
         exclusive'[v] = exclusive[v], sight'[v] = sight[v],
         UNCHANGED <<private, members, records, links, relations>>,
         slot[v] \in Nat, nextSeq \in Nat, nextSeq' \in Nat, nextSeq <= nextSeq'
  PROVE  WorkerStands(v)'
<1>1. RowStands(v)'
  BY RowKept DEF WorkerStands
<1>2. MemberStands(v)'
  BY DEF WorkerStands, MemberStands, Member, Stored
<1>3. LinkStands(v)'
  BY DEF WorkerStands, LinkStands
<1>4. RelationStands(v)'
  BY DEF WorkerStands, RelationStands, At, Pair, Taken
<1>5. SightStands(v)'
  <2>1. CASE step[v] = "idle"
    BY <2>1 DEF SightStands
  <2>2. CASE step[v] # "idle"
    BY <2>2, SightKept DEF WorkerStands
  <2> QED  BY <2>1, <2>2
<1> QED  BY <1>1, <1>2, <1>3, <1>4, <1>5 DEF WorkerStands

-----------------------------------------------------------------------------
(***************************************************************************)
(* The steps of a transaction before it commits.                            *)
(***************************************************************************)
OthersStay(w) ==
  \A v \in Workers \ {w} :
    /\ step'[v] = step[v] /\ request'[v] = request[v] /\ checks'[v] = checks[v]
    /\ slot'[v] = slot[v] /\ prior'[v] = prior[v] /\ created'[v] = created[v]
    /\ exclusive'[v] = exclusive[v] /\ sight'[v] = sight[v]

LEMMA NotInserting ==
  ASSUME NEW w \in Workers, OthersStay(w), InsertsDiffer, ~Inserting(w)'
  PROVE  InsertsDiffer'
BY DEF OthersStay, InsertsDiffer, Inserting, At

LEMMA QuietStep ==
  ASSUME WritersInv, NEW w \in Workers, OthersStay(w),
         UNCHANGED <<private, members, records, links, relations>>,
         nextSeq <= nextSeq',
         Typed', LocksExclude', InsertsDiffer', WorkerStands(w)'
  PROVE  WritersInv'
<1>1. RowsAreDrawn'
  BY DEF WritersInv, Typed, RowsAreDrawn, Seqs
<1>2. PairsDiffer'
  BY DEF WritersInv, PairsDiffer
<1>3. ASSUME NEW v \in Workers, v # w PROVE WorkerStands(v)'
  <2>1. WorkerStands(v) /\ request[v] \in Requests /\ slot[v] \in Nat
    BY DEF WritersInv, Typed
  <2>2. nextSeq \in Nat /\ nextSeq' \in Nat
    BY DEF WritersInv, Typed
  <2> QED  BY <1>3, <2>1, <2>2, FrameStands DEF OthersStay
<1> QED  BY <1>1, <1>2, <1>3 DEF WritersInv

LEMMA BeginWriters ==
  ASSUME WritersInv, NEW w \in Workers, NEW r \in Requests, Begin(w, r)
  PROVE  WritersInv'
<1> USE DEF Begin, Goto
<1>1. OthersStay(w)
  BY DEF OthersStay, WritersInv, Typed, Handlers
<1>2. UNCHANGED <<private, members, records, links, relations, nextSeq>>
  BY DEF dbVars
<1>3. Typed'
  BY <1>2 DEF WritersInv, Typed, Handlers
<1>4. LocksExclude'
  BY DEF WritersInv, LocksExclude
<1>5. step'[w] = "begun" /\ request'[w] = r /\ checks'[w] = Checks(r)
    /\ sight'[w] = {a \in ToSet(Checks(r)) : Allowed(a)}
  BY DEF WritersInv, Typed, Handlers
<1>6. InsertsDiffer'
  BY <1>1, <1>5, NotInserting DEF WritersInv, Inserting, At
<1>7. SightStands(w)'
  <2>1. Checks(request[w])' = Checks(r)
    <3>1. Checks(r)' = Checks(r)
      BY <1>2, ChecksKept
    <3> QED  BY <1>5, <3>1, ChecksNext
  <2>2. \A a : Allowed(a)' <=> Allowed(a)
    BY <1>2, AllowedKept
  <2> HIDE DEF Begin
  <2> QED  BY <1>5, <2>1, <2>2, ChecksAreSequences DEF SightStands
<1>8. WorkerStands(w)'
  BY <1>2, <1>5, <1>7 DEF WorkerStands, RowStands, MemberStands, LinkStands, RelationStands,
                    Inserting, Editing, At
<1>9. nextSeq <= nextSeq'
  BY <1>2 DEF WritersInv, Typed
<1> QED  BY <1>1, <1>2, <1>3, <1>4, <1>6, <1>8, <1>9, QuietStep

LEMMA CheckAccessWriters ==
  ASSUME WritersInv, NEW w \in Workers, CheckAccess(w)
  PROVE  WritersInv'
<1> USE DEF CheckAccess
<1>1. OthersStay(w)
  BY DEF OthersStay, WritersInv, Typed, Handlers
<1>2. UNCHANGED <<private, members, records, links, relations, nextSeq>>
  BY DEF dbVars
<1>3. Typed'
  BY <1>2 DEF WritersInv, Typed, Handlers
<1>4. LocksExclude'
  BY DEF WritersInv, LocksExclude
<1>5. step'[w] = "begun" /\ request'[w] = request[w] /\ checks'[w] = Tail(checks[w])
    /\ sight'[w] = sight[w]
  BY DEF WritersInv, Typed, Handlers
<1>6. InsertsDiffer'
  BY <1>1, <1>5, NotInserting DEF WritersInv, Inserting, At
<1>7. SightStands(w)'
  <2> SUFFICES ASSUME NEW c, c = request[w] PROVE SightStands(w)'
    OBVIOUS
  <2>1. c \in Requests /\ request'[w] = c
    BY <1>5 DEF WritersInv, Typed
  <2>2. Checks(request[w])' = Checks(c)
    <3>1. Checks(c)' = Checks(c)
      BY <1>2, <2>1, ChecksKept
    <3> QED  BY <2>1, <3>1, ChecksNext
  <2>3. \A a : Allowed(a)' <=> Allowed(a)
    BY <1>2, AllowedKept
  <2> DEFINE asks == ToSet(Checks(c))
  <2>4. checks[w] \in Seq(asks) /\ checks[w] # <<>>
    BY DEF WritersInv, WorkerStands, SightStands
  <2>5. \A a \in asks : (Allowed(a) => a \in sight[w]) /\ a \in sight[w] \cup ToSet(checks[w])
    BY DEF WritersInv, WorkerStands, SightStands
  <2>6. Allowed(Head(checks[w])) /\ Head(checks[w]) \in asks
    BY <2>4, AllowedVisible
  <2>7. Tail(checks[w]) \in Seq(asks)
    <3> HIDE DEF asks, CheckAccess
    <3> QED  BY <2>4
  <2>8. \A a \in ToSet(checks[w]) : a = Head(checks[w]) \/ a \in ToSet(Tail(checks[w]))
    <3> SUFFICES ASSUME NEW n \in DOMAIN checks[w], n # 1
                 PROVE  checks[w][n] \in ToSet(Tail(checks[w]))
      BY <2>4, SMTT(20) DEF ToSet
    <3> SUFFICES ASSUME NEW s, s = checks[w] PROVE s[n] \in ToSet(Tail(s))
      OBVIOUS
    <3>0. s \in Seq(asks) /\ s # <<>> /\ n \in DOMAIN s
      BY <2>4
    <3> HIDE DEF asks
    <3>1. n \in 1..Len(s) /\ n - 1 \in 1..Len(Tail(s))
      <4>1. Len(s) \in Nat /\ DOMAIN s = 1..Len(s) /\ Len(s) > 0
        BY <3>0
      <4>2. Len(Tail(s)) = Len(s) - 1
        BY <3>0
      <4> QED  BY <3>0, <4>1, <4>2
    <3>2. Tail(s)[n - 1] = s[n]
      BY <3>0, <3>1
    <3>3. n - 1 \in DOMAIN Tail(s)
      BY <3>0, <3>1
    <3> QED  BY <3>2, <3>3, Zenon DEF ToSet
  <2> HIDE DEF CheckAccess
  <2> QED  BY <1>5, <2>2, <2>3, <2>5, <2>6, <2>7, <2>8 DEF SightStands
<1>8. RelationStands(w)'
  BY <1>2, <1>5 DEF WritersInv, WorkerStands, RelationStands, At
<1>9. WorkerStands(w)'
  BY <1>5, <1>7, <1>8 DEF WorkerStands, RowStands, MemberStands, LinkStands,
                    Inserting, Editing, At
<1>10. nextSeq <= nextSeq'
  BY <1>2 DEF WritersInv, Typed
<1> QED  BY <1>1, <1>2, <1>3, <1>4, <1>6, <1>9, <1>10, QuietStep

\* A step that only prepares the commit.
Middle(w) ==
  /\ step[w] # "idle" /\ OthersStay(w)
  /\ UNCHANGED <<private, members, records, links, relations, request, checks, sight>>
  /\ nextSeq <= nextSeq'
  /\ Typed'

LEMMA MiddleStep ==
  ASSUME WritersInv, NEW w \in Workers, Middle(w), LocksExclude', InsertsDiffer',
         RowStands(w)', MemberStands(w)', LinkStands(w)',
         At(w, "ready", {"add_issue_relation"})' => RelationStands(w)'
  PROVE  WritersInv'
<1>1. SightStands(w)'
  BY SightKept DEF Middle, WritersInv, WorkerStands, Typed
<1>2. RelationStands(w)'
  <2>1. CASE At(w, "ready", {"add_issue_relation"})'
    BY <2>1
  <2>2. CASE ~At(w, "ready", {"add_issue_relation"})'
    BY <2>2 DEF Middle, WritersInv, WorkerStands, RelationStands
  <2> QED  BY <2>1, <2>2
<1>3. WorkerStands(w)'
  BY <1>1, <1>2 DEF WorkerStands
<1> QED  BY <1>3, QuietStep DEF Middle

LEMMA LockIssueWriters ==
  ASSUME WritersInv, NEW w \in Workers, LockIssue(w)
  PROVE  WritersInv'
<1> USE DEF LockIssue, Goto, Granted, At
<1>1. request[w].op = "set_issue_assignee" /\ step[w] # "idle" /\ step'[w] = "ready" /\ request'[w] = request[w]
  BY DEF WritersInv, Typed, Handlers
<1>2. OthersStay(w)
  BY DEF OthersStay, WritersInv, Typed, Handlers, Lock
<1>3. UNCHANGED <<private, members, records, links, relations>>
  BY DEF dbVars
<1>4. Typed'
  BY <1>3 DEF WritersInv, Typed, Handlers, dbVars, Lock
<1>5. Middle(w)
  BY <1>1, <1>2, <1>3, <1>4 DEF Middle, WritersInv, Typed, dbVars
<1>6. LocksExclude'
  BY LockExcludes DEF WritersInv, Typed
<1>7. InsertsDiffer'
  BY <1>1, <1>2, NotInserting DEF WritersInv, Inserting
<1>8. RowStands(w)'
  BY <1>1 DEF RowStands, Inserting, Editing
<1>9. MemberStands(w)'
  BY <1>1 DEF MemberStands
<1>10. LinkStands(w)'
  BY <1>1 DEF LinkStands
<1>11. ~At(w, "ready", {"add_issue_relation"})'
  BY <1>1
<1> QED  BY <1>5, <1>6, <1>7, <1>8, <1>9, <1>10, <1>11, MiddleStep

LEMMA LockTeamWriters ==
  ASSUME WritersInv, NEW w \in Workers, LockTeam(w)
  PROVE  WritersInv'
<1> USE DEF LockTeam, Goto, Granted, At
<1>1. request[w].op = "put_team" /\ step[w] # "idle" /\ step'[w] = "ready" /\ request'[w] = request[w]
  BY DEF WritersInv, Typed, Handlers
<1>2. OthersStay(w)
  BY DEF OthersStay, WritersInv, Typed, Handlers, Lock
<1>3. UNCHANGED <<private, members, records, links, relations>>
  BY DEF dbVars
<1>4. Typed'
  BY <1>3 DEF WritersInv, Typed, Handlers, dbVars, Lock
<1>5. Middle(w)
  BY <1>1, <1>2, <1>3, <1>4 DEF Middle, WritersInv, Typed, dbVars
<1>6. LocksExclude'
  BY LockExcludes DEF WritersInv, Typed
<1>7. InsertsDiffer'
  BY <1>1, <1>2, NotInserting DEF WritersInv, Inserting
<1>8. RowStands(w)'
  BY <1>1 DEF RowStands, Inserting, Editing
<1>9. MemberStands(w)'
  BY <1>1 DEF MemberStands
<1>10. LinkStands(w)'
  BY <1>1 DEF LinkStands
<1>11. ~At(w, "ready", {"add_issue_relation"})'
  BY <1>1
<1> QED  BY <1>5, <1>6, <1>7, <1>8, <1>9, <1>10, <1>11, MiddleStep

LEMMA RemoveRelationWriters ==
  ASSUME WritersInv, NEW w \in Workers, RemoveRelation(w)
  PROVE  WritersInv'
<1> USE DEF RemoveRelation, Goto, Granted, At
<1>1. request[w].op = "remove_issue_relation" /\ step[w] # "idle" /\ step'[w] = "ready" /\ request'[w] = request[w]
  BY DEF WritersInv, Typed, Handlers
<1>2. OthersStay(w)
  BY DEF OthersStay, WritersInv, Typed, Handlers, Lock
<1>3. UNCHANGED <<private, members, records, links, relations>>
  BY DEF dbVars
<1>4. Typed'
  BY <1>3 DEF WritersInv, Typed, Handlers, dbVars, Lock
<1>5. Middle(w)
  BY <1>1, <1>2, <1>3, <1>4 DEF Middle, WritersInv, Typed, dbVars
<1>6. LocksExclude'
  BY LockExcludes DEF WritersInv, Typed
<1>7. InsertsDiffer'
  BY <1>1, <1>2, NotInserting DEF WritersInv, Inserting
<1>8. RowStands(w)'
  BY <1>1 DEF RowStands, Inserting, Editing
<1>9. MemberStands(w)'
  BY <1>1 DEF MemberStands
<1>10. LinkStands(w)'
  BY <1>1 DEF LinkStands
<1>11. ~At(w, "ready", {"add_issue_relation"})'
  BY <1>1
<1> QED  BY <1>5, <1>6, <1>7, <1>8, <1>9, <1>10, <1>11, MiddleStep

LEMMA ReadMemberWriters ==
  ASSUME WritersInv, NEW w \in Workers, ReadMember(w)
  PROVE  WritersInv'
<1> USE DEF ReadMember, Goto, Granted, At
<1>1. request[w].op = "set_team_member" /\ step[w] # "idle" /\ step'[w] = "write_member" /\ request'[w] = request[w]
  BY DEF WritersInv, Typed, Handlers
<1>2. OthersStay(w)
  BY DEF OthersStay, WritersInv, Typed, Handlers, Lock
<1>3. UNCHANGED <<private, members, records, links, relations>>
  BY DEF dbVars
<1>4. Typed'
  BY <1>3 DEF WritersInv, Typed, Handlers, dbVars, Lock
<1>5. Middle(w)
  BY <1>1, <1>2, <1>3, <1>4 DEF Middle, WritersInv, Typed, dbVars
<1>6. LocksExclude'
  <2>1. CASE Stored(w) = Absent
    BY <2>1 DEF WritersInv, LocksExclude
  <2>2. CASE Stored(w) # Absent
    BY <2>2, LockExcludes DEF WritersInv, Typed
  <2> QED  BY <2>1, <2>2
<1>7. InsertsDiffer'
  BY <1>1, <1>2, NotInserting DEF WritersInv, Inserting
<1>8. RowStands(w)'
  BY <1>1 DEF RowStands, Inserting, Editing
<1>9. MemberStands(w)'
  <2>1. prior'[w] = Stored(w)
    BY DEF WritersInv, Typed
  <2>2. Stored(w)' = Stored(w) /\ Member(w)' = Member(w)
    BY <1>1, <1>3 DEF Stored, Member
  <2>3. Stored(w) # Absent => Member(w) \in exclusive'[w]
    BY DEF Lock, WritersInv, Typed
  <2> QED  BY <1>1, <2>1, <2>2, <2>3 DEF MemberStands
<1>10. LinkStands(w)'
  BY <1>1 DEF LinkStands
<1>11. ~At(w, "ready", {"add_issue_relation"})'
  BY <1>1
<1> QED  BY <1>5, <1>6, <1>7, <1>8, <1>9, <1>10, <1>11, MiddleStep

LEMMA WriteMemberWriters ==
  ASSUME WritersInv, NEW w \in Workers, WriteMember(w)
  PROVE  WritersInv'
<1> USE DEF WriteMember, Goto, Granted, At
<1>1. request[w].op = "set_team_member" /\ step[w] # "idle" /\ step'[w] = "ready" /\ request'[w] = request[w]
  BY DEF WritersInv, Typed, Handlers
<1>2. OthersStay(w)
  BY DEF OthersStay, WritersInv, Typed, Handlers, Lock
<1>3. UNCHANGED <<private, members, records, links, relations>>
  BY DEF dbVars
<1>4. Typed'
  BY <1>3 DEF WritersInv, Typed, Handlers, dbVars, Lock
<1>5. Middle(w)
  BY <1>1, <1>2, <1>3, <1>4 DEF Middle, WritersInv, Typed, dbVars
<1>6. LocksExclude'
  <2>1. CASE prior[w] # Absent /\ prior[w].active = request[w].active
    BY <2>1 DEF WritersInv, LocksExclude
  <2>2. CASE ~(prior[w] # Absent /\ prior[w].active = request[w].active)
    BY <2>2, LockExcludes DEF WritersInv, Typed
  <2> QED  BY <2>1, <2>2
<1>7. InsertsDiffer'
  BY <1>1, <1>2, NotInserting DEF WritersInv, Inserting
<1>8. RowStands(w)'
  BY <1>1 DEF RowStands, Inserting, Editing
<1>9. MemberStands(w)'
  <2>1. prior'[w] = prior[w] /\ step[w] = "write_member"
    OBVIOUS
  <2>2. Stored(w)' = Stored(w) /\ Member(w)' = Member(w)
    BY <1>1, <1>3 DEF Stored, Member
  <2>3. MemberStands(w)
    BY DEF WritersInv, WorkerStands
  <2>4. CASE prior[w] # Absent /\ prior[w].active = request[w].active
    BY <1>1, <2>1, <2>4 DEF MemberStands
  <2>5. CASE ~(prior[w] # Absent /\ prior[w].active = request[w].active)
    <3>1. Member(w) \in exclusive'[w]
      BY <2>5 DEF Lock, WritersInv, Typed
    <3>2. Stored(w) = prior[w]
      <4>1. CASE prior[w] = Absent
        BY <2>5, <4>1
      <4>2. CASE prior[w] # Absent
        BY <1>1, <2>1, <2>3, <4>2 DEF MemberStands
      <4> QED  BY <4>1, <4>2
    <3> QED  BY <1>1, <2>1, <2>2, <3>1, <3>2 DEF MemberStands
  <2> QED  BY <2>4, <2>5
<1>10. LinkStands(w)'
  BY <1>1 DEF LinkStands
<1>11. ~At(w, "ready", {"add_issue_relation"})'
  BY <1>1
<1> QED  BY <1>5, <1>6, <1>7, <1>8, <1>9, <1>10, <1>11, MiddleStep

LEMMA InsertLinkWriters ==
  ASSUME WritersInv, NEW w \in Workers, InsertLink(w)
  PROVE  WritersInv'
<1> USE DEF InsertLink, Goto, Granted, At
<1>1. request[w].op = "put_external_link" /\ step[w] # "idle" /\ step'[w] = "read_link" /\ request'[w] = request[w]
  BY DEF WritersInv, Typed, Handlers
<1>2. OthersStay(w)
  BY DEF OthersStay, WritersInv, Typed, Handlers, Lock
<1>3. UNCHANGED <<private, members, records, links, relations>>
  BY DEF dbVars
<1>4. Typed'
  BY <1>3 DEF WritersInv, Typed, Handlers, dbVars, Lock
<1>5. Middle(w)
  BY <1>1, <1>2, <1>3, <1>4 DEF Middle, WritersInv, Typed, dbVars
<1>6. LocksExclude'
  <2> DEFINE S == IF links[request[w].link] = Absent THEN {request[w].link} ELSE {}
  <2>1. exclusive' = [exclusive EXCEPT ![w] = S]
    OBVIOUS
  <2>2. \A row \in S : CanLock(w, row)
    OBVIOUS
  <2> HIDE DEF S
  <2> QED  BY <2>1, <2>2, LocksGrow DEF WritersInv, Typed
<1>7. InsertsDiffer'
  BY <1>1, <1>2, NotInserting DEF WritersInv, Inserting
<1>8. RowStands(w)'
  BY <1>1 DEF RowStands, Inserting, Editing
<1>9. MemberStands(w)'
  BY <1>1 DEF MemberStands
<1>10. LinkStands(w)'
  <2>1. created'[w] = (links[request[w].link] = Absent)
    BY DEF WritersInv, Typed
  <2>2. links[request[w].link] = Absent => request[w].link \in exclusive'[w]
    BY DEF WritersInv, Typed
  <2> QED  BY <1>1, <1>3, <2>1, <2>2 DEF LinkStands
<1>11. ~At(w, "ready", {"add_issue_relation"})'
  BY <1>1
<1> QED  BY <1>5, <1>6, <1>7, <1>8, <1>9, <1>10, <1>11, MiddleStep

LEMMA ReadLinkWriters ==
  ASSUME WritersInv, NEW w \in Workers, ReadLink(w)
  PROVE  WritersInv'
<1> USE DEF ReadLink, Goto, Granted, At
<1>1. request[w].op = "put_external_link" /\ step[w] # "idle" /\ step'[w] = "ready" /\ request'[w] = request[w]
  BY DEF WritersInv, Typed, Handlers
<1>2. OthersStay(w)
  BY DEF OthersStay, WritersInv, Typed, Handlers, Lock
<1>3. UNCHANGED <<private, members, records, links, relations>>
  BY DEF dbVars
<1>4. Typed'
  BY <1>3 DEF WritersInv, Typed, Handlers, dbVars, Lock
<1>5. Middle(w)
  BY <1>1, <1>2, <1>3, <1>4 DEF Middle, WritersInv, Typed, dbVars
<1>6. LocksExclude'
  BY LockExcludes DEF WritersInv, Typed
<1>7. InsertsDiffer'
  BY <1>1, <1>2, NotInserting DEF WritersInv, Inserting
<1>8. RowStands(w)'
  BY <1>1 DEF RowStands, Inserting, Editing
<1>9. MemberStands(w)'
  BY <1>1 DEF MemberStands
<1>10. LinkStands(w)'
  <2>1. created'[w] = created[w] /\ request[w].link \in exclusive'[w]
    BY DEF WritersInv, Typed, Lock
  <2>2. LinkStands(w) /\ step[w] = "read_link"
    BY DEF WritersInv, WorkerStands
  <2> QED  BY <1>1, <1>3, <2>1, <2>2 DEF LinkStands
<1>11. ~At(w, "ready", {"add_issue_relation"})'
  BY <1>1
<1> QED  BY <1>5, <1>6, <1>7, <1>8, <1>9, <1>10, <1>11, MiddleStep

LEMMA InsertRelationWriters ==
  ASSUME WritersInv, NEW w \in Workers, InsertRelation(w)
  PROVE  WritersInv'
<1> USE DEF InsertRelation, Goto, Granted, At
<1>1. request[w].op = "add_issue_relation" /\ step[w] # "idle" /\ step'[w] = "ready" /\ request'[w] = request[w]
  BY DEF WritersInv, Typed, Handlers
<1>2. OthersStay(w)
  BY DEF OthersStay, WritersInv, Typed, Handlers, Lock
<1>3. UNCHANGED <<private, members, records, links, relations>>
  BY DEF dbVars
<1>4. Typed'
  BY <1>3 DEF WritersInv, Typed, Handlers, dbVars, Lock
<1>5. Middle(w)
  BY <1>1, <1>2, <1>3, <1>4 DEF Middle, WritersInv, Typed, dbVars
<1>6. LocksExclude'
  <2> DEFINE S == {request[w].relation, Pair(w)}
  <2>1. exclusive' = [exclusive EXCEPT ![w] = S]
    OBVIOUS
  <2>2. \A row \in S : CanLock(w, row)
    OBVIOUS
  <2> HIDE DEF S
  <2> QED  BY <2>1, <2>2, LocksGrow DEF WritersInv, Typed
<1>7. InsertsDiffer'
  BY <1>1, <1>2, NotInserting DEF WritersInv, Inserting
<1>8. RowStands(w)'
  BY <1>1 DEF RowStands, Inserting, Editing
<1>9. MemberStands(w)'
  BY <1>1 DEF MemberStands
<1>10. LinkStands(w)'
  BY <1>1 DEF LinkStands
<1>11. RelationStands(w)'
  <2>1. exclusive'[w] = {request[w].relation, Pair(w)}
    BY DEF WritersInv, Typed
  <2>2. Pair(w)' = Pair(w)
    BY <1>1 DEF Pair
  <2>3. Taken(Pair(w))' <=> Taken(Pair(w))
    BY <1>1, <1>3 DEF Taken, Pair
  <2> QED  BY <1>1, <1>3, <2>1, <2>2, <2>3 DEF RelationStands
<1> QED  BY <1>5, <1>6, <1>7, <1>8, <1>9, <1>10, <1>11, MiddleStep

LEMMA InsertRowWriters ==
  ASSUME WritersInv, NEW w \in Workers, InsertRow(w)
  PROVE  WritersInv'
<1> USE DEF InsertRow, Goto, Granted, At
<1>1. request[w].op = "insert" /\ step[w] # "idle" /\ step'[w] = "ready" /\ request'[w] = request[w]
  BY DEF WritersInv, Typed, Handlers
<1>2. OthersStay(w)
  BY DEF OthersStay, WritersInv, Typed, Handlers, Lock
<1>3. UNCHANGED <<private, members, records, links, relations>>
  BY DEF dbVars
<1>4. Typed'
  BY <1>3 DEF WritersInv, Typed, Handlers, dbVars, Lock
<1>5. Middle(w)
  BY <1>1, <1>2, <1>3, <1>4 DEF Middle, WritersInv, Typed, dbVars
<1>6. LocksExclude'
  <2> DEFINE key == [table |-> request[w].table, at |-> request[w].at]
             S == IF request[w].table \in {"projects", "issues"} THEN {key} ELSE {}
  <2>1. exclusive' = [exclusive EXCEPT ![w] = S]
    OBVIOUS
  <2>2. \A row \in S : CanLock(w, row)
    OBVIOUS
  <2> HIDE DEF S
  <2> QED  BY <2>1, <2>2, LocksGrow DEF WritersInv, Typed
<1>7. slot'[w] = nextSeq /\ nextSeq' = nextSeq + 1 /\ nextSeq \in Seqs
  BY DEF WritersInv, Typed, Seqs
<1>8. RowStands(w)'
  <2>1. records[nextSeq] = Absent
    BY <1>7 DEF WritersInv, RowsAreDrawn, Seqs
  <2> HIDE DEF InsertRow
  <2> QED  BY <1>1, <1>3, <1>7, <2>1 DEF RowStands, Inserting, Editing, Seqs
<1>9. MemberStands(w)'
  BY <1>1 DEF MemberStands
<1>10. LinkStands(w)'
  BY <1>1 DEF LinkStands
<1>11. ~At(w, "ready", {"add_issue_relation"})'
  BY <1>1
<1>12. InsertsDiffer'
  <2>1. \A v \in Workers \ {w} : Inserting(v)' => slot'[v] < nextSeq
    BY <1>2 DEF OthersStay, WritersInv, WorkerStands, RowStands, Inserting
  <2>2. \A u, v \in Workers \ {w} : Inserting(u)' /\ Inserting(v)' /\ u # v => slot'[u] # slot'[v]
    BY <1>2 DEF OthersStay, WritersInv, InsertsDiffer, Inserting
  <2>3. nextSeq \in Nat /\ slot' \in [Workers -> Nat]
    BY <1>4 DEF WritersInv, Typed
  <2> HIDE DEF InsertRow, At
  <2> QED  BY <1>7, <2>1, <2>2, <2>3 DEF InsertsDiffer, Seqs
<1> QED  BY <1>5, <1>6, <1>8, <1>9, <1>10, <1>11, <1>12, MiddleStep

LEMMA LockRowWriters ==
  ASSUME WritersInv, NEW w \in Workers, NEW seq \in Seqs, LockRow(w, seq)
  PROVE  WritersInv'
<1> USE DEF LockRow, Goto, Granted, At
<1>1. request[w].op \in {"archive", "delete", "move_label"} /\ step[w] # "idle" /\ step'[w] = "ready" /\ request'[w] = request[w]
  BY DEF WritersInv, Typed, Handlers
<1>2. OthersStay(w)
  BY DEF OthersStay, WritersInv, Typed, Handlers, Lock
<1>3. UNCHANGED <<private, members, records, links, relations>>
  BY DEF dbVars
<1>4. Typed'
  BY <1>3 DEF WritersInv, Typed, Handlers, dbVars, Lock, Seqs
<1>5. Middle(w)
  BY <1>1, <1>2, <1>3, <1>4 DEF Middle, WritersInv, Typed, dbVars
<1>6. LocksExclude'
  BY LockExcludes DEF WritersInv, Typed
<1>7. InsertsDiffer'
  BY <1>1, <1>2, NotInserting DEF WritersInv, Inserting
<1>8. RowStands(w)'
  <2>1. slot'[w] = seq /\ [seq |-> seq] \in exclusive'[w]
    BY DEF WritersInv, Typed, Lock
  <2>2. Editable(w, slot[w])'
    <3>1. Editable(w, seq)'
      <4>1. CASE request[w].op = "archive"
        BY <1>1, <1>3, <4>1 DEF Editable, Names
      <4>2. CASE request[w].op = "delete"
        BY <1>1, <1>3, <4>2 DEF Editable, Names
      <4>3. CASE request[w].op = "move_label"
        BY <1>1, <1>3, <4>3 DEF Editable, Names
      <4> QED  BY <1>1, <4>1, <4>2, <4>3
    <3> QED  BY <2>1, <3>1 DEF Editable, Names
  <2> QED  BY <1>1, <2>1, <2>2 DEF RowStands, Inserting, Editing
<1>9. MemberStands(w)'
  BY <1>1 DEF MemberStands
<1>10. LinkStands(w)'
  BY <1>1 DEF LinkStands
<1>11. ~At(w, "ready", {"add_issue_relation"})'
  BY <1>1
<1> QED  BY <1>5, <1>6, <1>7, <1>8, <1>9, <1>10, <1>11, MiddleStep

\* The end of a transaction.
LEMMA EndWorker ==
  ASSUME Typed, NEW w \in Workers, EndTransaction(w)
  PROVE  /\ step'[w] = "idle" /\ exclusive'[w] = {}
         /\ \A v \in Workers \ {w} :
              /\ step'[v] = step[v] /\ request'[v] = request[v] /\ checks'[v] = checks[v]
              /\ slot'[v] = slot[v] /\ prior'[v] = prior[v] /\ created'[v] = created[v]
              /\ exclusive'[v] = exclusive[v]
         /\ DOMAIN step' = Handlers
         /\ request' \in [Workers -> Requests] /\ slot' \in [Workers -> Nat]
         /\ DOMAIN checks' = Workers /\ DOMAIN prior' = Workers
         /\ created' \in [Workers -> BOOLEAN] /\ DOMAIN exclusive' = Workers
BY FirstOnes DEF Typed, EndTransaction, Goto, Handlers

LEMMA EndInvs ==
  ASSUME WritersInv, NEW w \in Workers, EndTransaction(w)
  PROVE  LocksExclude' /\ InsertsDiffer' /\ WorkerStands(w)'
<1>1. Typed /\ LocksExclude /\ InsertsDiffer
  BY DEF WritersInv
<1>2. LocksExclude'
  BY <1>1, EndWorker DEF LocksExclude
<1>3. InsertsDiffer'
  BY <1>1, EndWorker DEF InsertsDiffer, Inserting, At
<1>4. WorkerStands(w)'
  BY <1>1, EndWorker, IdleStands
<1> QED  BY <1>2, <1>3, <1>4

LEMMA AbortWriters ==
  ASSUME WritersInv, NEW w \in Workers, Abort(w)
  PROVE  WritersInv'
<1> USE DEF Abort
<1>1. Typed
  BY DEF WritersInv
<1>2. UNCHANGED <<private, members, records, links, relations, nextSeq>>
  BY DEF dbVars
<1>3. Typed'
  BY <1>1, <1>2, EndWorker DEF Typed
<1>4. OthersStay(w)
  BY <1>1, EndWorker DEF OthersStay, Typed, Handlers
<1>5. nextSeq <= nextSeq'
  BY <1>1, <1>2 DEF Typed
<1> QED  BY <1>2, <1>3, <1>4, <1>5, EndInvs, QuietStep

-----------------------------------------------------------------------------
(***************************************************************************)
(* The commits, which the history of every other request follows.           *)
(***************************************************************************)

LEMMA MemberKept ==
  ASSUME NEW v, MemberStands(v),
         step'[v] = step[v], request'[v] = request[v], prior'[v] = prior[v],
         exclusive'[v] = exclusive[v],
         request[v].op = "set_team_member" /\ Member(v) \in exclusive[v] =>
           members'[<<request[v].at, request[v].subject>>] =
             members[<<request[v].at, request[v].subject>>]
  PROVE  MemberStands(v)'
BY DEF MemberStands, Member, Stored

LEMMA LinkKept ==
  ASSUME NEW v, LinkStands(v),
         step'[v] = step[v], request'[v] = request[v], created'[v] = created[v],
         exclusive'[v] = exclusive[v],
         request[v].op = "put_external_link" /\ request[v].link \in exclusive[v] =>
           links'[request[v].link] = links[request[v].link]
  PROVE  LinkStands(v)'
BY DEF LinkStands

LEMMA RelationKept ==
  ASSUME NEW v, RelationStands(v), UNCHANGED relations,
         step'[v] = step[v], request'[v] = request[v], exclusive'[v] = exclusive[v]
  PROVE  RelationStands(v)'
BY DEF RelationStands, At, Pair, Taken

LEMMA SightObserved ==
  ASSUME Typed, NEW w \in Workers, EndTransaction(w), Observe,
         NEW v \in Workers \ {w}, SightStands(v),
         step[v] # "idle" /\ request[v].op = "remove_issue_relation" =>
           relations'[request[v].relation].issue = relations[request[v].relation].issue
  PROVE  SightStands(v)'
<1>1. step'[v] = step[v] /\ request'[v] = request[v] /\ checks'[v] = checks[v]
  BY EndWorker
<1> SUFFICES ASSUME step[v] # "idle" PROVE SightStands(v)'
  BY <1>1 DEF SightStands
<1> SUFFICES ASSUME NEW c, c = request[v] PROVE SightStands(v)'
  OBVIOUS
<1>2. c \in Requests /\ request'[v] = c /\ v \in Handlers
  BY <1>1 DEF Typed, Handlers
<1>3. Checks(request[v])' = Checks(c)
  <2>1. Checks(c)' = Checks(c)
    BY <1>2, ChecksKept
  <2> QED  BY <1>2, <2>1, ChecksNext
<1>4. sight'[v] = sight[v] \cup {a \in ToSet(Checks(c)) : Allowed(a)'}
  BY <1>1, <1>2 DEF Observe, Handlers, Asking
<1>5. /\ checks[v] \in Seq(ToSet(Checks(c)))
      /\ \A a \in ToSet(Checks(c)) : a \in sight[v] \cup ToSet(checks[v])
  BY DEF SightStands
<1> HIDE DEF Typed, EndTransaction, Observe
<1> QED  BY <1>1, <1>3, <1>4, <1>5 DEF SightStands

LEMMA CommitStep ==
  ASSUME WritersInv, NEW w \in Workers, EndTransaction(w), Observe,
         DOMAIN members' = Teams \X Subjects,
         records' \in [Seqs -> RecordRow \cup {Absent}],
         nextSeq' = nextSeq, DOMAIN links' = Links,
         relations' \in [Relations -> RelationRow \cup {Absent}],
         RowsAreDrawn', PairsDiffer',
         \A x \in Relations : relations[x] # Absent => relations'[x].issue = relations[x].issue,
         \A v \in Workers \ {w} :
           RowStands(v)' /\ MemberStands(v)' /\ LinkStands(v)' /\ RelationStands(v)'
  PROVE  WritersInv'
<1>1. Typed /\ \A v \in Workers : WorkerStands(v)
  BY DEF WritersInv
<1>2. DOMAIN sight' = Handlers
  BY DEF Observe, Handlers
<1>3. Typed'
  BY <1>1, <1>2, EndWorker DEF Typed
<1>4. ASSUME NEW v \in Workers \ {w} PROVE WorkerStands(v)'
  <2>1. step[v] # "idle" /\ request[v].op = "remove_issue_relation" =>
          relations'[request[v].relation].issue = relations[request[v].relation].issue
    <3> SUFFICES ASSUME step[v] # "idle", request[v].op = "remove_issue_relation"
                 PROVE  relations'[request[v].relation].issue = relations[request[v].relation].issue
      OBVIOUS
    <3>1. relations[request[v].relation] # Absent
      BY <1>1 DEF WorkerStands, RelationStands
    <3>2. request[v].relation \in Relations
      BY <1>1, RelationFields DEF Typed
    <3> QED  BY <3>1, <3>2
  <2>2. SightStands(v)'
    BY <1>1, <2>1, SightObserved DEF WorkerStands
  <2> QED  BY <2>2 DEF WorkerStands
<1>5. LocksExclude' /\ InsertsDiffer' /\ WorkerStands(w)'
  BY EndInvs
<1> QED  BY <1>3, <1>4, <1>5 DEF WritersInv

LEMMA CommitAssigneeWriters ==
  ASSUME WritersInv, NEW w \in Workers, CommitAssignee(w)
  PROVE  WritersInv'
<1> USE DEF CommitAssignee
<1>1. Typed /\ (\A v \in Workers : WorkerStands(v)) /\ RowsAreDrawn /\ PairsDiffer
  BY DEF WritersInv
<1>2. UNCHANGED <<members, records, nextSeq, links, relations>>
  OBVIOUS
<1>3. ASSUME NEW v \in Workers \ {w}
      PROVE  RowStands(v)' /\ MemberStands(v)' /\ LinkStands(v)' /\ RelationStands(v)'
  BY <1>1, <1>2, EndWorker, RowKept, MemberKept, LinkKept, RelationKept DEF Typed, WorkerStands
<1>4. RowsAreDrawn' /\ PairsDiffer'
  BY <1>1, <1>2 DEF RowsAreDrawn, PairsDiffer
<1> QED  BY <1>1, <1>2, <1>3, <1>4, CommitStep DEF Typed

LEMMA CommitTeamWriters ==
  ASSUME WritersInv, NEW w \in Workers, CommitTeam(w)
  PROVE  WritersInv'
<1> USE DEF CommitTeam
<1>1. Typed /\ (\A v \in Workers : WorkerStands(v)) /\ RowsAreDrawn /\ PairsDiffer
  BY DEF WritersInv
<1>2. UNCHANGED <<members, records, nextSeq, links, relations>>
  OBVIOUS
<1>3. ASSUME NEW v \in Workers \ {w}
      PROVE  RowStands(v)' /\ MemberStands(v)' /\ LinkStands(v)' /\ RelationStands(v)'
  BY <1>1, <1>2, EndWorker, RowKept, MemberKept, LinkKept, RelationKept DEF Typed, WorkerStands
<1>4. RowsAreDrawn' /\ PairsDiffer'
  BY <1>1, <1>2 DEF RowsAreDrawn, PairsDiffer
<1> QED  BY <1>1, <1>2, <1>3, <1>4, CommitStep DEF Typed

\* A commit changes the membership only if the worker has locked it.
LEMMA MemberCommitted ==
  ASSUME WritersInv, NEW w \in Workers, CommitMember(w)
  PROVE  LET k == <<request[w].at, request[w].subject>>
         IN /\ k \in Teams \X Subjects
            /\ \A other \in Teams \X Subjects : other # k => members'[other] = members[other]
            /\ members'[k] # members[k] => Member(w) \in exclusive[w] /\ prior[w] = members[k]
            /\ members'[k] = IF prior[w] = Absent THEN [active |-> request[w].active, revision |-> 1]
                             ELSE IF prior[w].active = request[w].active THEN members[k]
                             ELSE [active |-> request[w].active, revision |-> members[k].revision + 1]
            /\ DOMAIN members' = Teams \X Subjects
<1> DEFINE k == <<request[w].at, request[w].subject>>
<1>1. Typed /\ MemberStands(w) /\ request[w].op = "set_team_member" /\ step[w] = "ready"
  BY DEF WritersInv, WorkerStands, CommitMember, At
<1>2. k \in Teams \X Subjects
  BY <1>1, MemberFields DEF Typed
<1>3. members' = [members EXCEPT ![k] =
          IF prior[w] = Absent THEN [active |-> request[w].active, revision |-> 1]
          ELSE IF prior[w].active = request[w].active THEN members[k]
          ELSE [active |-> request[w].active, revision |-> members[k].revision + 1]]
  BY DEF CommitMember
<1>4. \/ Member(w) \in exclusive[w] /\ members[k] = prior[w]
      \/ prior[w] # Absent /\ prior[w].active = request[w].active
  BY <1>1 DEF MemberStands, Stored
<1>5. DOMAIN members = Teams \X Subjects
  BY <1>1 DEF Typed
<1> HIDE DEF k
<1>6. /\ \A other \in Teams \X Subjects : other # k => members'[other] = members[other]
      /\ members'[k] = IF prior[w] = Absent THEN [active |-> request[w].active, revision |-> 1]
                             ELSE IF prior[w].active = request[w].active THEN members[k]
                             ELSE [active |-> request[w].active, revision |-> members[k].revision + 1]
      /\ DOMAIN members' = Teams \X Subjects
  BY <1>2, <1>3, <1>5
<1>7. members'[k] # members[k] => Member(w) \in exclusive[w] /\ prior[w] = members[k]
  BY <1>4, <1>6
<1> QED  BY <1>2, <1>6, <1>7 DEF k

LEMMA CommitMemberWriters ==
  ASSUME WritersInv, NEW w \in Workers, CommitMember(w)
  PROVE  WritersInv'
<1>1. Typed /\ (\A v \in Workers : WorkerStands(v)) /\ RowsAreDrawn /\ PairsDiffer /\ LocksExclude
  BY DEF WritersInv
<1>2. UNCHANGED <<records, nextSeq, links, relations>> /\ EndTransaction(w) /\ Observe
  BY DEF CommitMember
<1>3. ASSUME NEW v \in Workers \ {w}
      PROVE  MemberStands(v)'
  <2>1. ASSUME request[v].op = "set_team_member", Member(v) \in exclusive[v]
        PROVE  members'[<<request[v].at, request[v].subject>>] =
                 members[<<request[v].at, request[v].subject>>]
    <3> DEFINE k == <<request[v].at, request[v].subject>>
               j == <<request[w].at, request[w].subject>>
    <3>1. k \in Teams \X Subjects
      BY <1>1, <2>1, MemberFields DEF Typed
    <3>2. CASE k # j
      <4>1. \A other \in Teams \X Subjects : other # j => members'[other] = members[other]
        BY MemberCommitted
      <4> QED  BY <3>1, <3>2, <4>1
    <3>3. CASE k = j
      <4>1. Member(v) = Member(w)
        BY <3>3 DEF Member
      <4>2. Member(w) \notin exclusive[w]
        BY <1>1, <2>1, <4>1 DEF LocksExclude
      <4> QED  BY <3>3, <4>2, MemberCommitted
    <3> QED  BY <3>2, <3>3
  <2> QED  BY <1>1, <1>2, <2>1, EndWorker, MemberKept DEF WorkerStands
<1>4. ASSUME NEW v \in Workers \ {w}
      PROVE  RowStands(v)' /\ LinkStands(v)' /\ RelationStands(v)'
  BY <1>1, <1>2, EndWorker, RowKept, LinkKept, RelationKept DEF Typed, WorkerStands
<1>5. RowsAreDrawn' /\ PairsDiffer'
  BY <1>1, <1>2 DEF RowsAreDrawn, PairsDiffer
<1>6. DOMAIN members' = Teams \X Subjects
  BY MemberCommitted
<1> QED  BY <1>1, <1>2, <1>3, <1>4, <1>5, <1>6, CommitStep DEF Typed

LEMMA CommitLinkWriters ==
  ASSUME WritersInv, NEW w \in Workers, CommitLink(w)
  PROVE  WritersInv'
<1>1. Typed /\ (\A v \in Workers : WorkerStands(v)) /\ RowsAreDrawn /\ PairsDiffer /\ LocksExclude
  BY DEF WritersInv
<1>2. UNCHANGED <<members, records, nextSeq, relations>> /\ EndTransaction(w) /\ Observe
  BY DEF CommitLink
<1>3. request[w].link \in exclusive[w]
  BY <1>1 DEF CommitLink, At, WorkerStands, LinkStands
<1>4. links' = [links EXCEPT ![request[w].link] = request[w].at]
  BY DEF CommitLink
<1>5. ASSUME NEW v \in Workers \ {w}
      PROVE  LinkStands(v)'
  <2>1. ASSUME request[v].op = "put_external_link", request[v].link \in exclusive[v]
        PROVE  links'[request[v].link] = links[request[v].link]
    <3>1. request[v].link \in Links
      BY <1>1, <2>1, LinkFields DEF Typed
    <3>2. request[v].link # request[w].link
      BY <1>1, <1>3, <2>1 DEF LocksExclude
    <3> QED  BY <1>1, <1>4, <3>1, <3>2 DEF Typed
  <2> QED  BY <1>1, <1>2, <2>1, EndWorker, LinkKept DEF WorkerStands
<1>6. ASSUME NEW v \in Workers \ {w}
      PROVE  RowStands(v)' /\ MemberStands(v)' /\ RelationStands(v)'
  BY <1>1, <1>2, EndWorker, RowKept, MemberKept, RelationKept DEF Typed, WorkerStands
<1>7. RowsAreDrawn' /\ PairsDiffer'
  BY <1>1, <1>2 DEF RowsAreDrawn, PairsDiffer
<1>8. DOMAIN links' = Links
  BY <1>1, <1>4 DEF Typed
<1> QED  BY <1>1, <1>2, <1>5, <1>6, <1>7, <1>8, CommitStep DEF Typed

\* A new relation takes an id and a pair nobody else can take, and a removed
\* one keeps its pair.
LEMMA AddRelationWriters ==
  ASSUME WritersInv, NEW w \in Workers, CommitRelation(w),
         request[w].op = "add_issue_relation"
  PROVE  WritersInv'
<1>1. Typed /\ (\A v \in Workers : WorkerStands(v)) /\ RowsAreDrawn /\ PairsDiffer /\ LocksExclude
  BY DEF WritersInv
<1>2. UNCHANGED <<members, records, nextSeq, links>> /\ EndTransaction(w) /\ Observe
      /\ step[w] = "ready"
  BY DEF CommitRelation, At
<1> DEFINE id == request[w].relation
           new == [issue |-> request[w].at, related |-> request[w].related, active |-> TRUE]
<1>3. id \in Relations /\ new \in RelationRow /\ new # Absent
  <2>1. id \in Relations /\ request[w].at \in Issues /\ request[w].related \in Issues
    BY <1>1, RelationFields DEF Typed
  <2>2. new \in RelationRow
    BY <2>1 DEF RelationRow
  <2> QED  BY <2>1, <2>2
<1>4. relations' = [relations EXCEPT ![id] = new]
  BY DEF CommitRelation, At
<1>5. /\ id \in exclusive[w] /\ Pair(w) \in exclusive[w]
      /\ relations[id] = Absent /\ ~Taken(Pair(w))
  BY <1>1, <1>2 DEF WorkerStands, RelationStands, At
<1>6. new.issue = Pair(w).issue /\ new.related = Pair(w).related
  BY DEF Pair
<1>7. \A x \in Relations : relations'[x] = IF x = id THEN new ELSE relations[x]
  BY <1>1, <1>4 DEF Typed
<1>8. relations' \in [Relations -> RelationRow \cup {Absent}]
  BY <1>1, <1>3, <1>4 DEF Typed
<1> HIDE DEF id, new
<1>9. PairsDiffer'
  <2>1. \A x \in Relations : relations[x] # Absent =>
          new.issue # relations[x].issue \/ new.related # relations[x].related
    BY <1>5, <1>6 DEF Taken
  <2> QED  BY <1>1, <1>7, <2>1 DEF PairsDiffer
<1>10. ASSUME NEW v \in Workers \ {w}
       PROVE  RelationStands(v)'
  <2>1. step'[v] = step[v] /\ request'[v] = request[v] /\ exclusive'[v] = exclusive[v]
    BY <1>1, <1>2, EndWorker
  <2>2. RelationStands(v) /\ request[v] \in Requests
    BY <1>1 DEF WorkerStands, Typed
  <2>3. Pair(v)' = Pair(v)
    BY <2>1 DEF Pair
  <2>4. ASSUME step[v] = "ready", request[v].op = "add_issue_relation"
        PROVE  /\ {request[v].relation, Pair(v)} \subseteq exclusive[v]
               /\ relations'[request[v].relation] = Absent /\ ~Taken(Pair(v))'
    <3>1. /\ request[v].relation \in exclusive[v] /\ Pair(v) \in exclusive[v]
          /\ relations[request[v].relation] = Absent /\ ~Taken(Pair(v))
      BY <2>2, <2>4 DEF RelationStands, At
    <3>2. request[v].relation # id /\ Pair(v) # Pair(w) /\ request[v].relation \in Relations
      BY <1>1, <1>5, <2>2, <2>4, <3>1, RelationFields DEF LocksExclude
    <3>3. new.issue # request[v].at \/ new.related # request[v].related
      BY <1>6, <3>2 DEF Pair
    <3>4. ~Taken(Pair(v))'
      BY <1>7, <2>1, <3>1, <3>3 DEF Taken, Pair
    <3> QED  BY <1>7, <3>1, <3>2, <3>4
  <2>5. ASSUME step[v] # "idle", request[v].op = "remove_issue_relation"
        PROVE  relations'[request[v].relation] # Absent
    <3>1. request[v].relation \in Relations /\ relations[request[v].relation] # Absent
      BY <2>2, <2>5, RelationFields DEF RelationStands
    <3> QED  BY <1>3, <1>7, <3>1
  <2> QED  BY <2>1, <2>3, <2>4, <2>5 DEF RelationStands, At
<1>11. ASSUME NEW v \in Workers \ {w}
       PROVE  RowStands(v)' /\ MemberStands(v)' /\ LinkStands(v)'
  BY <1>1, <1>2, EndWorker, RowKept, MemberKept, LinkKept DEF Typed, WorkerStands
<1>12. RowsAreDrawn'
  BY <1>1, <1>2 DEF RowsAreDrawn
<1>13. \A x \in Relations : relations[x] # Absent => relations'[x].issue = relations[x].issue
  BY <1>5, <1>7
<1> QED  BY <1>1, <1>2, <1>8, <1>9, <1>10, <1>11, <1>12, <1>13, CommitStep DEF Typed

LEMMA RemoveCommitWriters ==
  ASSUME WritersInv, NEW w \in Workers, CommitRelation(w),
         request[w].op = "remove_issue_relation"
  PROVE  WritersInv'
<1>1. Typed /\ (\A v \in Workers : WorkerStands(v)) /\ RowsAreDrawn /\ PairsDiffer
  BY DEF WritersInv
<1>2. UNCHANGED <<members, records, nextSeq, links>> /\ EndTransaction(w) /\ Observe
      /\ step[w] = "ready"
  BY DEF CommitRelation, At
<1> DEFINE id == request[w].relation
<1>3. id \in Relations /\ relations[id] # Absent
  BY <1>1, <1>2, RelationFields DEF Typed, WorkerStands, RelationStands
<1>4. relations' = [relations EXCEPT ![id].active = FALSE]
  BY DEF CommitRelation, At
<1> HIDE DEF id
<1>5. relations[id] \in RelationRow
  BY <1>1, <1>3 DEF Typed
<1>6. /\ relations'[id] \in RelationRow
      /\ relations'[id].issue = relations[id].issue
      /\ relations'[id].related = relations[id].related
  BY <1>1, <1>3, <1>4, <1>5 DEF Typed, RelationRow
<1>7. \A x \in Relations : x # id => relations'[x] = relations[x]
  BY <1>1, <1>4 DEF Typed
<1>8. relations' \in [Relations -> RelationRow \cup {Absent}]
  <2>1. DOMAIN relations' = Relations /\ relations' = [x \in Relations |-> relations'[x]]
    BY <1>1, <1>4 DEF Typed
  <2>2. \A x \in Relations : relations'[x] \in RelationRow \cup {Absent}
    BY <1>1, <1>6, <1>7 DEF Typed
  <2> QED  BY <2>1, <2>2
<1>9. \A x \in Relations :
        /\ relations'[x] = Absent <=> relations[x] = Absent
        /\ relations[x] # Absent => /\ relations'[x].issue = relations[x].issue
                                    /\ relations'[x].related = relations[x].related
  BY <1>3, <1>6, <1>7
<1>10. PairsDiffer'
  BY <1>1, <1>9 DEF PairsDiffer
<1>11. ASSUME NEW v \in Workers \ {w}
       PROVE  RelationStands(v)'
  <2>1. step'[v] = step[v] /\ request'[v] = request[v] /\ exclusive'[v] = exclusive[v]
    BY <1>1, <1>2, EndWorker
  <2>2. RelationStands(v) /\ request[v] \in Requests
    BY <1>1 DEF WorkerStands, Typed
  <2>3. Pair(v)' = Pair(v)
    BY <2>1 DEF Pair
  <2>4. Taken(Pair(v))' <=> Taken(Pair(v))
    BY <1>9, <2>1 DEF Taken, Pair
  <2>5. request[v].op \in {"add_issue_relation", "remove_issue_relation"} =>
          request[v].relation \in Relations
    BY <2>2, RelationFields
  <2>6. At(v, "ready", {"add_issue_relation"})' <=> At(v, "ready", {"add_issue_relation"})
    BY <2>1 DEF At
  <2>7. At(v, "ready", {"add_issue_relation"}) => request[v].op = "add_issue_relation"
    BY DEF At
  <2> QED  BY <1>9, <2>1, <2>2, <2>3, <2>4, <2>5, <2>6, <2>7 DEF RelationStands
<1>12. ASSUME NEW v \in Workers \ {w}
       PROVE  RowStands(v)' /\ MemberStands(v)' /\ LinkStands(v)'
  BY <1>1, <1>2, EndWorker, RowKept, MemberKept, LinkKept DEF Typed, WorkerStands
<1>13. RowsAreDrawn'
  BY <1>1, <1>2 DEF RowsAreDrawn
<1> QED  BY <1>1, <1>2, <1>8, <1>9, <1>10, <1>11, <1>12, <1>13, CommitStep DEF Typed

LEMMA CommitRelationWriters ==
  ASSUME WritersInv, NEW w \in Workers, CommitRelation(w)
  PROVE  WritersInv'
BY AddRelationWriters, RemoveCommitWriters DEF CommitRelation, At

\* What CommitRow writes: the row the worker has inserted or locked.
LEMMA RowCommitted ==
  ASSUME WritersInv, NEW w \in Workers, CommitRow(w)
  PROVE  /\ step[w] = "ready" /\ (Inserting(w) \/ Editing(w))
         /\ slot[w] \in Seqs /\ slot[w] < nextSeq
         /\ \A seq \in Seqs : seq # slot[w] => records'[seq] = records[seq]
         /\ records' \in [Seqs -> RecordRow \cup {Absent}]
<1>1. Typed /\ RowStands(w) /\ RowsAreDrawn /\ request[w] \in Requests
  BY DEF WritersInv, WorkerStands, Typed
<1>2. step[w] = "ready" /\ (Inserting(w) \/ Editing(w))
  BY DEF CommitRow, At, Inserting, Editing
<1>3. slot[w] \in Seqs
  BY <1>1, <1>2 DEF RowStands
<1>4. Editing(w) => records[slot[w]] # Absent
  BY <1>1, EditableMeans DEF RowStands, Editing, At, Names
<1>5. slot[w] < nextSeq
  BY <1>1, <1>2, <1>3, <1>4 DEF RowStands, RowsAreDrawn, Typed, Seqs
<1> DEFINE r == request[w]
           row == records[slot[w]]
           new == CASE r.op = "insert" -> [table |-> r.table, at |-> r.at, archived |-> FALSE]
                    [] r.op = "archive" -> [row EXCEPT !.archived = r.archived]
                    [] r.op = "delete" -> Absent
                    [] r.op = "move_label" -> [row EXCEPT !.at = r.at]
<1>6. records' = [records EXCEPT ![slot[w]] = new]
  BY DEF CommitRow
<1>7. new \in RecordRow \cup {Absent}
  <2>1. CASE r.op = "insert"
    BY <1>1, <2>1, InsertFields
  <2>2. CASE r.op = "archive"
    <3>1. row \in RecordRow
      BY <1>1, <1>2, <1>3, <1>4, <2>2 DEF Typed, Inserting, At
    <3>2. r.archived \in BOOLEAN
      BY <1>1, <2>2, ArchiveFields
    <3> HIDE DEF row, r
    <3>3. [row EXCEPT !.archived = r.archived] \in RecordRow
      BY <3>1, <3>2 DEF RecordRow
    <3> QED  BY <2>2, <3>3
  <2>3. CASE r.op = "delete"
    BY <2>3
  <2>4. CASE r.op = "move_label"
    <3>1. row \in RecordRow
      BY <1>1, <1>2, <1>3, <1>4, <2>4 DEF Typed, Inserting, At
    <3>2. r.at \in Places
      BY <1>1, <2>4, MoveFields
    <3> HIDE DEF row, r
    <3>3. [row EXCEPT !.at = r.at] \in RecordRow
      BY <3>1, <3>2 DEF RecordRow
    <3> QED  BY <2>4, <3>3
  <2> QED  BY <1>2, <2>1, <2>2, <2>3, <2>4 DEF Inserting, Editing, At
<1> HIDE DEF new
<1> QED  BY <1>1, <1>2, <1>3, <1>5, <1>6, <1>7 DEF Typed

LEMMA CommitRowWriters ==
  ASSUME WritersInv, NEW w \in Workers, CommitRow(w)
  PROVE  WritersInv'
<1>1. Typed /\ (\A v \in Workers : WorkerStands(v)) /\ RowsAreDrawn /\ PairsDiffer
      /\ LocksExclude /\ InsertsDiffer
  BY DEF WritersInv
<1>2. UNCHANGED <<members, nextSeq, links, relations>> /\ EndTransaction(w) /\ Observe
  BY DEF CommitRow
<1>3. slot[w] \in Seqs /\ slot[w] < nextSeq /\ (Inserting(w) \/ Editing(w))
  BY RowCommitted
<1>4. /\ \A seq \in Seqs : seq # slot[w] => records'[seq] = records[seq]
      /\ records' \in [Seqs -> RecordRow \cup {Absent}]
  BY RowCommitted
<1>5. ASSUME NEW v \in Workers, Editing(v) PROVE records[slot[v]] # Absent
  BY <1>1, <1>5, EditableMeans DEF WorkerStands, RowStands, Editing, At, Names
<1>6. ASSUME NEW v \in Workers \ {w}, Inserting(v) \/ Editing(v) PROVE slot[v] # slot[w]
  <2>1. CASE Inserting(v) /\ Inserting(w)
    BY <1>1, <2>1 DEF InsertsDiffer
  <2>2. CASE Inserting(v) /\ Editing(w)
    BY <1>1, <1>5, <2>2 DEF WorkerStands, RowStands
  <2>3. CASE Editing(v) /\ Inserting(w)
    BY <1>1, <1>5, <2>3 DEF WorkerStands, RowStands
  <2>4. CASE Editing(v) /\ Editing(w)
    <3>1. [seq |-> slot[v]] \in exclusive[v] /\ [seq |-> slot[w]] \in exclusive[w]
      BY <1>1, <2>4 DEF WorkerStands, RowStands
    <3>2. slot[v] = slot[w] => [seq |-> slot[v]] = [seq |-> slot[w]]
      OBVIOUS
    <3> QED  BY <1>1, <3>1, <3>2 DEF LocksExclude
  <2> QED  BY <1>3, <1>6, <2>1, <2>2, <2>3, <2>4
<1>7. ASSUME NEW v \in Workers \ {w} PROVE RowStands(v)'
  <2>1. CASE Inserting(v) \/ Editing(v)
    <3>1. slot[v] \in Seqs => records'[slot[v]] = records[slot[v]]
      BY <1>4, <1>6, <2>1
    <3>2. slot[v] \in Nat /\ nextSeq \in Nat /\ nextSeq' \in Nat /\ nextSeq <= nextSeq'
      BY <1>1, <1>2 DEF Typed
    <3> QED  BY <1>1, <1>2, <3>1, <3>2, EndWorker, RowKept DEF WorkerStands
  <2>2. CASE ~(Inserting(v) \/ Editing(v))
    BY <1>1, <1>2, <2>2, EndWorker DEF RowStands, Inserting, Editing, At
  <2> QED  BY <2>1, <2>2
<1>8. ASSUME NEW v \in Workers \ {w}
      PROVE  MemberStands(v)' /\ LinkStands(v)' /\ RelationStands(v)'
  BY <1>1, <1>2, EndWorker, MemberKept, LinkKept, RelationKept DEF WorkerStands
<1>9. RowsAreDrawn'
  <2>1. nextSeq' = nextSeq
    BY <1>2
  <2>2. ASSUME NEW seq \in Seqs, seq >= nextSeq' PROVE records'[seq] = Absent
    <3>1. records[seq] = Absent
      BY <1>1, <2>1, <2>2 DEF RowsAreDrawn
    <3>2. seq \in Nat /\ slot[w] \in Nat /\ nextSeq \in Nat
      BY <1>1, <1>3 DEF Typed, Seqs
    <3>3. seq # slot[w]
      BY <1>3, <2>1, <2>2, <3>2
    <3> QED  BY <1>4, <3>1, <3>3
  <2> QED  BY <2>2 DEF RowsAreDrawn
<1>10. PairsDiffer'
  BY <1>1, <1>2 DEF PairsDiffer
<1> QED  BY <1>1, <1>2, <1>4, <1>7, <1>8, <1>9, <1>10, CommitStep DEF Typed

\* The steps of the readers, as far as a writer sees them.
LEMMA ReadingWriters ==
  ASSUME WritersInv, UNCHANGED <<dbVars, workerVars>>,
         DOMAIN step' = Handlers, DOMAIN sight' = Handlers,
         \A v \in Workers : step'[v] = step[v] /\ sight'[v] = sight[v]
  PROVE  WritersInv'
<1>1. UNCHANGED <<private, members, records, nextSeq, links, relations>>
      /\ UNCHANGED <<request, checks, slot, prior, created, exclusive>>
  BY DEF dbVars, workerVars
<1>2. Typed'
  BY <1>1 DEF WritersInv, Typed
<1>3. LocksExclude' /\ RowsAreDrawn' /\ PairsDiffer'
  BY <1>1 DEF WritersInv, LocksExclude, RowsAreDrawn, PairsDiffer
<1>4. InsertsDiffer'
  BY <1>1 DEF WritersInv, InsertsDiffer, Inserting, At
<1>5. ASSUME NEW v \in Workers PROVE WorkerStands(v)'
  <2>1. WorkerStands(v) /\ request[v] \in Requests /\ slot[v] \in Nat /\ nextSeq \in Nat
    BY DEF WritersInv, Typed
  <2> QED  BY <1>1, <2>1, FrameStands
<1> QED  BY <1>2, <1>3, <1>4, <1>5 DEF WritersInv

LEMMA ReaderFrame ==
  ASSUME Typed, NEW h \in Readers, Read(h) \/ \E k \in Walks : StartWalk(h, k)
  PROVE  /\ UNCHANGED <<dbVars, workerVars>>
         /\ DOMAIN step' = Handlers /\ DOMAIN sight' = Handlers
         /\ \A v \in Handlers \ {h} : step'[v] = step[v] /\ sight'[v] = sight[v]
<1> USE DEF Typed, Handlers, Goto
<1>1. CASE CheckWalk(h)
  BY <1>1 DEF CheckWalk
<1>2. CASE SelectPage(h)
  BY <1>2 DEF SelectPage
<1>3. CASE LoadItems(h)
  BY <1>3 DEF LoadItems
<1>4. CASE Answer(h)
  BY <1>4 DEF Answer
<1>5. CASE StopWalk(h)
  BY <1>5 DEF StopWalk
<1>6. ASSUME NEW k \in Walks, StartWalk(h, k)
      PROVE  /\ UNCHANGED <<dbVars, workerVars>>
             /\ DOMAIN step' = Handlers /\ DOMAIN sight' = Handlers
             /\ \A v \in Handlers \ {h} : step'[v] = step[v] /\ sight'[v] = sight[v]
  BY <1>6 DEF StartWalk
<1> QED  BY <1>1, <1>2, <1>3, <1>4, <1>5, <1>6 DEF Read

LEMMA NextWriters ==
  ASSUME WritersInv, [Next]_vars
  PROVE  WritersInv'
<1>1. CASE UNCHANGED vars
  BY <1>1, ReadingWriters DEF vars, WritersInv, Typed
<1>2. ASSUME NEW w \in Workers, NEW r \in Requests, Begin(w, r)
      PROVE  WritersInv'
  BY <1>2, BeginWriters
<1>3. ASSUME NEW w \in Workers, Abort(w)
      PROVE  WritersInv'
  BY <1>3, AbortWriters
<1>4. ASSUME NEW w \in Workers, Write(w)
      PROVE  WritersInv'
  <2>1. ASSUME NEW seq \in 1..MaxSeq, LockRow(w, seq) PROVE WritersInv'
    BY <2>1, LockRowWriters DEF Seqs
  <2> QED
    BY <1>4, <2>1, CheckAccessWriters, InsertRowWriters, CommitRowWriters,
       LockIssueWriters, CommitAssigneeWriters, ReadMemberWriters, WriteMemberWriters,
       CommitMemberWriters, LockTeamWriters, CommitTeamWriters, InsertLinkWriters,
       ReadLinkWriters, CommitLinkWriters, InsertRelationWriters, RemoveRelationWriters,
       CommitRelationWriters DEF Write
<1>5. ASSUME NEW h \in Readers, Read(h) \/ \E k \in Walks : StartWalk(h, k)
      PROVE  WritersInv'
  <2>1. Typed
    BY DEF WritersInv
  <2>2. \A v \in Workers : v \in Handlers \ {h}
    BY DEF Handlers
  <2> QED  BY <1>5, <2>1, <2>2, ReaderFrame, ReadingWriters
<1> QED  BY <1>1, <1>2, <1>3, <1>4, <1>5 DEF Next

LEMMA WritersInvariance == Spec => []WritersInv
<1>1. Init => WritersInv
  BY InitWriters
<1>2. WritersInv /\ [Next]_vars => WritersInv'
  BY NextWriters
<1> QED  BY <1>1, <1>2, PTL DEF Spec

(***************************************************************************)
(* An external key is answered as created by exactly the command that       *)
(* commits it first, and a pair of issues has one relation: the unique keys *)
(* of put_external_link and add_issue_relation hold what the INSERT has     *)
(* found until the transaction ends (storage.rs, put_external_link,         *)
(* add_issue_relation).                                                     *)
(***************************************************************************)
THEOREM KeysTakenOnce == Spec => []KeysAreTakenOnce
<1>1. WritersInv => KeysAreTakenOnce
  <2> SUFFICES ASSUME WritersInv PROVE KeysAreTakenOnce
    OBVIOUS
  <2>1. ASSUME NEW w \in Workers, At(w, "ready", {"put_external_link"})
        PROVE  IF created[w] THEN links[request[w].link] = Absent
                             ELSE links[request[w].link] = request[w].at
    BY <2>1 DEF WritersInv, Typed, WorkerStands, LinkStands, At
  <2> QED  BY <2>1 DEF KeysAreTakenOnce, WritersInv, PairsDiffer
<1> QED  BY <1>1, WritersInvariance, PTL

(***************************************************************************)
(* The revision of a membership counts its changes: set_team_member reads,  *)
(* compares and writes in three statements, and what it has read FOR UPDATE *)
(* or not found is what is there when it commits.                           *)
(***************************************************************************)
THEOREM RevisionsCount == Spec => RevisionsCountChanges
<1> DEFINE Counted ==
      \A k \in Teams \X Subjects : members'[k] # members[k] =>
        IF members[k] = Absent THEN members'[k].revision = 1
        ELSE /\ members'[k].active # members[k].active
             /\ members'[k].revision = members[k].revision + 1
<1>1. ASSUME WritersInv, NEW w \in Workers, CommitMember(w)
      PROVE  Counted
  <2> SUFFICES ASSUME NEW k \in Teams \X Subjects, members'[k] # members[k]
               PROVE  IF members[k] = Absent THEN members'[k].revision = 1
                      ELSE /\ members'[k].active # members[k].active
                           /\ members'[k].revision = members[k].revision + 1
    OBVIOUS
  <2>1. k = <<request[w].at, request[w].subject>> /\ prior[w] = members[k]
    BY <1>1, MemberCommitted
  <2>2. members'[k] = IF prior[w] = Absent THEN [active |-> request[w].active, revision |-> 1]
                      ELSE IF prior[w].active = request[w].active THEN members[k]
                      ELSE [active |-> request[w].active, revision |-> members[k].revision + 1]
    BY <1>1, <2>1, MemberCommitted
  <2>3. CASE members[k] = Absent
    BY <2>1, <2>2, <2>3
  <2>4. CASE members[k] # Absent
    <3>1. prior[w].active # request[w].active
      BY <2>1, <2>2, <2>4
    <3>2. members'[k] = [active |-> request[w].active, revision |-> members[k].revision + 1]
      BY <2>1, <2>2, <2>4, <3>1
    <3> QED  BY <2>1, <2>4, <3>1, <3>2
  <2> QED  BY <2>3, <2>4
<1>2. ASSUME WritersInv, [Next]_vars, ~\E w \in Workers : CommitMember(w)
      PROVE  UNCHANGED members
  <2>1. CASE UNCHANGED vars
    BY <2>1 DEF vars, dbVars
  <2>2. ASSUME NEW w \in Workers, Write(w) \/ Abort(w) \/ \E r \in Requests : Begin(w, r)
        PROVE  UNCHANGED members
    BY <1>2, <2>2 DEF Write, Abort, Begin, CheckAccess, InsertRow, LockRow, CommitRow,
          LockIssue, CommitAssignee, ReadMember, WriteMember, LockTeam, CommitTeam,
          InsertLink, ReadLink, CommitLink, InsertRelation, RemoveRelation, CommitRelation,
          dbVars
  <2>3. ASSUME NEW h \in Readers, Read(h) \/ \E k \in Walks : StartWalk(h, k)
        PROVE  UNCHANGED members
    BY <2>3, <1>2, ReaderFrame DEF dbVars, WritersInv
  <2> QED  BY <1>2, <2>1, <2>2, <2>3 DEF Next
<1>3. WritersInv /\ [Next]_vars => [Counted]_members
  BY <1>1, <1>2
<1>4. Spec => [][Counted]_members
  BY <1>3, WritersInvariance, PTL DEF Spec
<1> QED  BY <1>4 DEF RevisionsCountChanges

-----------------------------------------------------------------------------
(***************************************************************************)
(* What the readers keep.                                                   *)
(***************************************************************************)

LEMMA VisibleKept ==
  ASSUME UNCHANGED <<private, members>>, NEW subject, NEW place
  PROVE  Visible(subject, place)' <=> Visible(subject, place)
BY DEF Visible, IssueVisible, ProjectVisible, Sees

\* What a row must be like to be selected.
Fits(k, row) ==
  /\ row # Absent
  /\ row.table = k.list.table
  /\ Within(row.at, k.at) \/ (row.table = "labels" /\ row.at = Organization)
  /\ row.table \in {"projects", "issues"} => k.archived \/ ~row.archived

LEMMA SelectedMeans ==
  ASSUME NEW k, NEW seq, NEW row, row = records[seq]
  PROVE  Selected(k, seq) <=> Fits(k, row) /\ (k.list.filter => Visible(k.actor, row.at))
BY DEF Selected, Fits

LEMMA SelectedNext ==
  ASSUME NEW k, NEW seq, NEW row, row = records'[seq]
  PROVE  Selected(k, seq)' <=> Fits(k, row) /\ (k.list.filter => Visible(k.actor, row.at)')
BY DEF Selected, Fits

LEMMA SelectedKept ==
  ASSUME UNCHANGED <<private, members, records>>, NEW k, NEW seq
  PROVE  Selected(k, seq)' <=> Selected(k, seq)
<1> SUFFICES ASSUME NEW row, row = records[seq]
             PROVE  Selected(k, seq)' <=> Selected(k, seq)
  OBVIOUS
<1>1. row = records'[seq]
  OBVIOUS
<1> QED  BY <1>1, SelectedMeans, SelectedNext, VisibleKept

LEMMA AskedMeans ==
  ASSUME NEW k \in Walks, NEW a \in Asked(k)
  PROVE  /\ a.subject = k.actor
         /\ k.list.check => a.place = k.at
BY DEF Asked

LEMMA InitReaders ==
  Init => ReadersInv
<1> SUFFICES ASSUME Init PROVE ReadersInv
  OBVIOUS
<1> USE DEF Init
<1>1. WalksTyped
  BY FirstOnes DEF WalksTyped, Seqs
<1>2. ASSUME NEW h \in Readers
      PROVE  /\ step[h] = "idle" /\ after[h] = 0 /\ page[h] = <<>> /\ met[h] = <<>>
             /\ old[h] = {}
  OBVIOUS
<1>3. ASSUME NEW h \in Readers
      PROVE  ViewStands(h) /\ PageIsDrawn(h) /\ PageStands(h)
  <2> HIDE DEF Init
  <2>1. ToSet(<<>>) = {}
    BY DEF ToSet
  <2>2. Increasing(<<>>)
    BY DEF Increasing
  <2>3. ViewStands(h)
    BY <1>2 DEF ViewStands
  <2>4. PageIsDrawn(h)
    BY <1>2, <2>1 DEF PageIsDrawn
  <2>5. PageStands(h)
    BY <1>2, <2>2 DEF PageStands
  <2> QED  BY <2>3, <2>4, <2>5
<1> QED  BY <1>1, <1>3 DEF ReadersInv

\* The invariant of a reader, as far as nothing that it is about changes.
LEMMA ViewKept ==
  ASSUME NEW h \in Readers, ViewStands(h),
         step'[h] = step[h], walk'[h] = walk[h], page'[h] = page[h], old'[h] = old[h],
         sight'[h] = sight[h], UNCHANGED <<private, members, records>>
  PROVE  ViewStands(h)'
<1> SUFFICES ASSUME NEW k, k = walk[h] PROVE ViewStands(h)'
  OBVIOUS
<1>1. walk'[h] = k
  OBVIOUS
<1>2. Asked(walk[h])' = Asked(k) /\ Asked(walk[h]) = Asked(k)
  BY <1>1 DEF Asked
<1>3. \A a : Allowed(a)' <=> Allowed(a)
  BY AllowedKept
<1>4. \A seq : Selected(k, seq)' <=> Selected(k, seq)
  BY SelectedKept
<1>5. \A seq : Selected(walk[h], seq)' <=> Selected(k, seq)'
  BY <1>1 DEF Selected, Visible, IssueVisible, ProjectVisible, Sees
<1>6. \A seq : Selected(walk[h], seq) <=> Selected(k, seq)
  OBVIOUS
<1>7. ToSet(page[h])' = ToSet(page[h])
  BY DEF ToSet
<1> QED  BY <1>1, <1>2, <1>3, <1>4, <1>5, <1>6, <1>7 DEF ViewStands

LEMMA PageKept ==
  ASSUME NEW h \in Readers, PageStands(h),
         step'[h] = step[h], after'[h] = after[h], page'[h] = page[h],
         more'[h] = more[h], met'[h] = met[h], old'[h] \subseteq old[h]
  PROVE  PageStands(h)'
BY DEF PageStands, Increasing, ToSet

LEMMA DrawnKept ==
  ASSUME NEW h \in Readers, PageIsDrawn(h), WalksTyped, Typed,
         page'[h] = page[h], nextSeq' \in Nat, nextSeq <= nextSeq',
         \A w \in Workers : Inserting(w)' =>
           (Inserting(w) /\ slot'[w] = slot[w]) \/ slot'[w] = nextSeq
  PROVE  PageIsDrawn(h)'
<1>1. \A seq \in ToSet(page[h]) : seq \in Nat
  BY DEF WalksTyped, ToSet, Seqs
<1>2. ToSet(page[h])' = ToSet(page[h])
  BY DEF ToSet
<1>3. nextSeq \in Nat
  BY DEF Typed
<1> QED  BY <1>1, <1>2, <1>3 DEF PageIsDrawn

\* A step of a writer that the readers do not see.
Unseen(w) ==
  /\ UNCHANGED <<private, members, records, walk, after, page, more, met, old>>
  /\ loaded' = loaded
  /\ \A h \in Readers : step'[h] = step[h] /\ sight'[h] = sight[h]
  /\ nextSeq' \in Nat /\ nextSeq <= nextSeq'
  /\ \A v \in Workers : Inserting(v)' =>
       (Inserting(v) /\ slot'[v] = slot[v]) \/ slot'[v] = nextSeq

LEMMA UnseenReaders ==
  ASSUME WritersInv, ReadersInv, NEW w \in Workers, Unseen(w)
  PROVE  ReadersInv'
<1>1. WalksTyped'
  BY DEF ReadersInv, WalksTyped, Unseen
<1>2. ASSUME NEW h \in Readers
      PROVE  ViewStands(h)' /\ PageIsDrawn(h)' /\ PageStands(h)'
  <2>1. ViewStands(h)'
    BY ViewKept DEF ReadersInv, Unseen
  <2>2. PageIsDrawn(h)'
    BY DrawnKept DEF ReadersInv, WritersInv, Unseen
  <2>3. PageStands(h)'
    BY PageKept DEF ReadersInv, Unseen
  <2> QED  BY <2>1, <2>2, <2>3
<1> QED  BY <1>1, <1>2 DEF ReadersInv

\* The steps of a transaction before it commits.
LEMMA PreparingUnseen ==
  ASSUME WritersInv, NEW w \in Workers,
         \/ CheckAccess(w) \/ InsertRow(w) \/ (\E seq \in Seqs : LockRow(w, seq))
         \/ LockIssue(w) \/ ReadMember(w) \/ WriteMember(w) \/ LockTeam(w)
         \/ InsertLink(w) \/ ReadLink(w) \/ InsertRelation(w) \/ RemoveRelation(w)
         \/ Abort(w) \/ (\E r \in Requests : Begin(w, r))
  PROVE  Unseen(w)
<1>1. /\ DOMAIN step = Workers \cup Readers /\ DOMAIN sight = Workers \cup Readers
      /\ DOMAIN request = Workers /\ DOMAIN slot = Workers /\ nextSeq \in Nat
  BY DEF WritersInv, Typed, Handlers
<1>2. \A h \in Readers : h # w
  OBVIOUS
<1>3. SUFFICES ASSUME NEW s, step'[w] = s,
                      \A h \in Handlers \ {w} : step'[h] = step[h],
                      \A h \in Readers : sight'[h] = sight[h],
                      \A v \in Workers \ {w} : request'[v] = request[v] /\ slot'[v] = slot[v],
                      UNCHANGED <<private, members, records, walk, after, page, more, met, old>>,
                      loaded' = loaded,
                      \/ nextSeq' = nextSeq /\ (s # "ready" \/ request'[w].op # "insert")
                      \/ nextSeq' = nextSeq + 1 /\ slot'[w] = nextSeq
               PROVE  Unseen(w)
  <2>1. CASE CheckAccess(w)
    <3>1. step'[w] = "begun" /\ \A h \in Handlers \ {w} : step'[h] = step[h]
      BY <1>1, <2>1 DEF CheckAccess, At, Handlers
    <3>2. UNCHANGED <<private, members, records, walk, after, page, more, met, old, loaded>>
      BY <2>1 DEF CheckAccess, dbVars, readerVars
    <3>3. \A h \in Readers : sight'[h] = sight[h]
      BY <1>1, <1>2, <2>1 DEF CheckAccess
    <3>4. \A v \in Workers \ {w} : request'[v] = request[v] /\ slot'[v] = slot[v]
      BY <1>1, <2>1 DEF CheckAccess, At
    <3>5. nextSeq' = nextSeq
      BY <2>1 DEF CheckAccess, dbVars
    <3> QED  BY <1>3, <3>1, <3>2, <3>3, <3>4, <3>5
  <2>2. CASE InsertRow(w)
    <3>1. step'[w] = "ready" /\ \A h \in Handlers \ {w} : step'[h] = step[h]
      BY <1>1, <2>2 DEF InsertRow, Granted, At, Goto, Handlers
    <3>2. UNCHANGED <<private, members, records, walk, after, page, more, met, old, loaded>>
      BY <2>2 DEF InsertRow, dbVars, readerVars
    <3>3. \A h \in Readers : sight'[h] = sight[h]
      BY <1>1, <1>2, <2>2 DEF InsertRow
    <3>4. \A v \in Workers \ {w} : request'[v] = request[v] /\ slot'[v] = slot[v]
      BY <1>1, <2>2 DEF InsertRow, Granted, At, Goto
    <3>5. nextSeq' = nextSeq + 1 /\ slot'[w] = nextSeq
      BY <1>1, <2>2 DEF InsertRow
    <3> QED  BY <1>3, <3>1, <3>2, <3>3, <3>4, <3>5
  <2>3. ASSUME NEW seq \in Seqs, LockRow(w, seq) PROVE Unseen(w)
    <3>1. step'[w] = "ready" /\ \A h \in Handlers \ {w} : step'[h] = step[h]
      BY <1>1, <2>3 DEF LockRow, Granted, At, Goto, Handlers
    <3>2. UNCHANGED <<private, members, records, walk, after, page, more, met, old, loaded>>
      BY <2>3 DEF LockRow, dbVars, readerVars
    <3>3. \A h \in Readers : sight'[h] = sight[h]
      BY <1>1, <1>2, <2>3 DEF LockRow
    <3>4. \A v \in Workers \ {w} : request'[v] = request[v] /\ slot'[v] = slot[v]
      BY <1>1, <2>3 DEF LockRow, Granted, At, Goto
    <3>5. nextSeq' = nextSeq
      BY <2>3 DEF LockRow, dbVars
    <3>6. request'[w].op # "insert"
      BY <1>1, <2>3 DEF LockRow, Granted, At, Goto
    <3> QED  BY <1>3, <3>1, <3>2, <3>3, <3>4, <3>5, <3>6
  <2>4. CASE LockIssue(w)
    <3>1. step'[w] = "ready" /\ \A h \in Handlers \ {w} : step'[h] = step[h]
      BY <1>1, <2>4 DEF LockIssue, Granted, At, Goto, Handlers
    <3>2. UNCHANGED <<private, members, records, walk, after, page, more, met, old, loaded>>
      BY <2>4 DEF LockIssue, dbVars, readerVars
    <3>3. \A h \in Readers : sight'[h] = sight[h]
      BY <1>1, <1>2, <2>4 DEF LockIssue
    <3>4. \A v \in Workers \ {w} : request'[v] = request[v] /\ slot'[v] = slot[v]
      BY <1>1, <2>4 DEF LockIssue, Granted, At, Goto
    <3>5. nextSeq' = nextSeq
      BY <2>4 DEF LockIssue, dbVars
    <3>6. request'[w].op # "insert"
      BY <1>1, <2>4 DEF LockIssue, Granted, At, Goto
    <3> QED  BY <1>3, <3>1, <3>2, <3>3, <3>4, <3>5, <3>6
  <2>5. CASE ReadMember(w)
    <3>1. step'[w] = "write_member" /\ \A h \in Handlers \ {w} : step'[h] = step[h]
      BY <1>1, <2>5 DEF ReadMember, Granted, At, Goto, Handlers
    <3>2. UNCHANGED <<private, members, records, walk, after, page, more, met, old, loaded>>
      BY <2>5 DEF ReadMember, dbVars, readerVars
    <3>3. \A h \in Readers : sight'[h] = sight[h]
      BY <1>1, <1>2, <2>5 DEF ReadMember
    <3>4. \A v \in Workers \ {w} : request'[v] = request[v] /\ slot'[v] = slot[v]
      BY <1>1, <2>5 DEF ReadMember, Granted, At, Goto
    <3>5. nextSeq' = nextSeq
      BY <2>5 DEF ReadMember, dbVars
    <3> QED  BY <1>3, <3>1, <3>2, <3>3, <3>4, <3>5
  <2>6. CASE WriteMember(w)
    <3>1. step'[w] = "ready" /\ \A h \in Handlers \ {w} : step'[h] = step[h]
      BY <1>1, <2>6 DEF WriteMember, Granted, At, Goto, Handlers
    <3>2. UNCHANGED <<private, members, records, walk, after, page, more, met, old, loaded>>
      BY <2>6 DEF WriteMember, dbVars, readerVars
    <3>3. \A h \in Readers : sight'[h] = sight[h]
      BY <1>1, <1>2, <2>6 DEF WriteMember
    <3>4. \A v \in Workers \ {w} : request'[v] = request[v] /\ slot'[v] = slot[v]
      BY <1>1, <2>6 DEF WriteMember, Granted, At, Goto
    <3>5. nextSeq' = nextSeq
      BY <2>6 DEF WriteMember, dbVars
    <3>6. request'[w].op # "insert"
      BY <1>1, <2>6 DEF WriteMember, Granted, At, Goto
    <3> QED  BY <1>3, <3>1, <3>2, <3>3, <3>4, <3>5, <3>6
  <2>7. CASE LockTeam(w)
    <3>1. step'[w] = "ready" /\ \A h \in Handlers \ {w} : step'[h] = step[h]
      BY <1>1, <2>7 DEF LockTeam, Granted, At, Goto, Handlers
    <3>2. UNCHANGED <<private, members, records, walk, after, page, more, met, old, loaded>>
      BY <2>7 DEF LockTeam, dbVars, readerVars
    <3>3. \A h \in Readers : sight'[h] = sight[h]
      BY <1>1, <1>2, <2>7 DEF LockTeam
    <3>4. \A v \in Workers \ {w} : request'[v] = request[v] /\ slot'[v] = slot[v]
      BY <1>1, <2>7 DEF LockTeam, Granted, At, Goto
    <3>5. nextSeq' = nextSeq
      BY <2>7 DEF LockTeam, dbVars
    <3>6. request'[w].op # "insert"
      BY <1>1, <2>7 DEF LockTeam, Granted, At, Goto
    <3> QED  BY <1>3, <3>1, <3>2, <3>3, <3>4, <3>5, <3>6
  <2>8. CASE InsertLink(w)
    <3>1. step'[w] = "read_link" /\ \A h \in Handlers \ {w} : step'[h] = step[h]
      BY <1>1, <2>8 DEF InsertLink, Granted, At, Goto, Handlers
    <3>2. UNCHANGED <<private, members, records, walk, after, page, more, met, old, loaded>>
      BY <2>8 DEF InsertLink, dbVars, readerVars
    <3>3. \A h \in Readers : sight'[h] = sight[h]
      BY <1>1, <1>2, <2>8 DEF InsertLink
    <3>4. \A v \in Workers \ {w} : request'[v] = request[v] /\ slot'[v] = slot[v]
      BY <1>1, <2>8 DEF InsertLink, Granted, At, Goto
    <3>5. nextSeq' = nextSeq
      BY <2>8 DEF InsertLink, dbVars
    <3> QED  BY <1>3, <3>1, <3>2, <3>3, <3>4, <3>5
  <2>9. CASE ReadLink(w)
    <3>1. step'[w] = "ready" /\ \A h \in Handlers \ {w} : step'[h] = step[h]
      BY <1>1, <2>9 DEF ReadLink, Granted, At, Goto, Handlers
    <3>2. UNCHANGED <<private, members, records, walk, after, page, more, met, old, loaded>>
      BY <2>9 DEF ReadLink, dbVars, readerVars
    <3>3. \A h \in Readers : sight'[h] = sight[h]
      BY <1>1, <1>2, <2>9 DEF ReadLink
    <3>4. \A v \in Workers \ {w} : request'[v] = request[v] /\ slot'[v] = slot[v]
      BY <1>1, <2>9 DEF ReadLink, Granted, At, Goto
    <3>5. nextSeq' = nextSeq
      BY <2>9 DEF ReadLink, dbVars
    <3>6. request'[w].op # "insert"
      BY <1>1, <2>9 DEF ReadLink, Granted, At, Goto
    <3> QED  BY <1>3, <3>1, <3>2, <3>3, <3>4, <3>5, <3>6
  <2>10. CASE InsertRelation(w)
    <3>1. step'[w] = "ready" /\ \A h \in Handlers \ {w} : step'[h] = step[h]
      BY <1>1, <2>10 DEF InsertRelation, Granted, At, Goto, Handlers
    <3>2. UNCHANGED <<private, members, records, walk, after, page, more, met, old, loaded>>
      BY <2>10 DEF InsertRelation, dbVars, readerVars
    <3>3. \A h \in Readers : sight'[h] = sight[h]
      BY <1>1, <1>2, <2>10 DEF InsertRelation
    <3>4. \A v \in Workers \ {w} : request'[v] = request[v] /\ slot'[v] = slot[v]
      BY <1>1, <2>10 DEF InsertRelation, Granted, At, Goto
    <3>5. nextSeq' = nextSeq
      BY <2>10 DEF InsertRelation, dbVars
    <3>6. request'[w].op # "insert"
      BY <1>1, <2>10 DEF InsertRelation, Granted, At, Goto
    <3> QED  BY <1>3, <3>1, <3>2, <3>3, <3>4, <3>5, <3>6
  <2>11. CASE RemoveRelation(w)
    <3>1. step'[w] = "ready" /\ \A h \in Handlers \ {w} : step'[h] = step[h]
      BY <1>1, <2>11 DEF RemoveRelation, Granted, At, Goto, Handlers
    <3>2. UNCHANGED <<private, members, records, walk, after, page, more, met, old, loaded>>
      BY <2>11 DEF RemoveRelation, dbVars, readerVars
    <3>3. \A h \in Readers : sight'[h] = sight[h]
      BY <1>1, <1>2, <2>11 DEF RemoveRelation
    <3>4. \A v \in Workers \ {w} : request'[v] = request[v] /\ slot'[v] = slot[v]
      BY <1>1, <2>11 DEF RemoveRelation, Granted, At, Goto
    <3>5. nextSeq' = nextSeq
      BY <2>11 DEF RemoveRelation, dbVars
    <3>6. request'[w].op # "insert"
      BY <1>1, <2>11 DEF RemoveRelation, Granted, At, Goto
    <3> QED  BY <1>3, <3>1, <3>2, <3>3, <3>4, <3>5, <3>6
  <2>12. CASE Abort(w)
    <3>1. step'[w] = "idle" /\ \A h \in Handlers \ {w} : step'[h] = step[h]
      BY <1>1, <2>12 DEF Abort, EndTransaction, Goto, Handlers
    <3>2. UNCHANGED <<private, members, records, walk, after, page, more, met, old, loaded>>
      BY <2>12 DEF Abort, dbVars, readerVars
    <3>3. \A h \in Readers : sight'[h] = sight[h]
      BY <1>1, <1>2, <2>12 DEF Abort
    <3>4. \A v \in Workers \ {w} : request'[v] = request[v] /\ slot'[v] = slot[v]
      BY <1>1, <2>12 DEF Abort, EndTransaction, Goto
    <3>5. nextSeq' = nextSeq
      BY <2>12 DEF Abort, dbVars
    <3> QED  BY <1>3, <3>1, <3>2, <3>3, <3>4, <3>5
  <2>13. ASSUME NEW r \in Requests, Begin(w, r) PROVE Unseen(w)
    <3>1. step'[w] = "begun" /\ \A h \in Handlers \ {w} : step'[h] = step[h]
      BY <1>1, <2>13 DEF Begin, Granted, At, Goto, Handlers
    <3>2. UNCHANGED <<private, members, records, walk, after, page, more, met, old, loaded>>
      BY <2>13 DEF Begin, dbVars, readerVars
    <3>3. \A h \in Readers : sight'[h] = sight[h]
      BY <1>1, <1>2, <2>13 DEF Begin
    <3>4. \A v \in Workers \ {w} : request'[v] = request[v] /\ slot'[v] = slot[v]
      BY <1>1, <2>13 DEF Begin, Granted, At, Goto
    <3>5. nextSeq' = nextSeq
      BY <2>13 DEF Begin, dbVars
    <3> QED  BY <1>3, <3>1, <3>2, <3>3, <3>4, <3>5
  <2> QED  BY <2>1, <2>2, <2>3, <2>4, <2>5, <2>6, <2>7, <2>8, <2>9, <2>10, <2>11, <2>12, <2>13
<1>4. \A h \in Readers : step'[h] = step[h]
  BY <1>2, <1>3 DEF Handlers
<1>5. nextSeq' \in Nat /\ nextSeq <= nextSeq'
  BY <1>1, <1>3
<1>6. ASSUME NEW v \in Workers, Inserting(v)'
      PROVE  (Inserting(v) /\ slot'[v] = slot[v]) \/ slot'[v] = nextSeq
  <2>1. CASE v = w
    BY <1>1, <1>3, <1>6, <2>1 DEF Inserting, At
  <2>2. CASE v # w
    BY <1>1, <1>3, <1>6, <2>2 DEF Inserting, At, Handlers
  <2> QED  BY <2>1, <2>2
<1> QED  BY <1>3, <1>4, <1>5, <1>6 DEF Unseen

\* A commit, which the histories of the readers follow: what it writes is not
\* of a page, or stays where it was for as long as it is there.
LEMMA ObservedReaders ==
  ASSUME WritersInv, ReadersInv, NEW w \in Workers, EndTransaction(w), Observe,
         UNCHANGED readerVars, nextSeq' = nextSeq,
         \A h \in Readers : walk[h].list.filter =>
           \A seq \in ToSet(page[h]) : records'[seq] # Absent =>
             /\ records[seq] # Absent
             /\ records[seq].table = walk[h].list.table =>
                  records'[seq].at = records[seq].at /\ records'[seq].table = records[seq].table
  PROVE  ReadersInv'
<1>1. UNCHANGED <<walk, after, page, more, met>> /\ loaded' = loaded
  BY DEF readerVars
<1>2. Typed /\ WalksTyped
  BY DEF WritersInv, ReadersInv
<1>3. \A h \in Readers : h \in Handlers /\ h \notin Workers /\ h # w
  BY DEF Handlers
<1>4. ASSUME NEW h \in Readers
      PROVE  /\ step'[h] = step[h]
             /\ old'[h] = {seq \in old[h] : Selected(walk[h], seq)'}
             /\ sight'[h] = IF step[h] = "idle" THEN {}
                            ELSE sight[h] \cup {a \in Asked(walk[h]) : Allowed(a)'}
  <2>1. step'[h] = step[h]
    BY <1>2, <1>3 DEF EndTransaction, Goto, Typed
  <2> QED  BY <1>3, <2>1 DEF Observe, Handlers, Asking
<1>5. WalksTyped'
  <2>1. old' \in [Readers -> SUBSET Seqs]
    <3>1. \A h \in Readers : old[h] \subseteq Seqs
      BY <1>2 DEF WalksTyped
    <3> QED  BY <3>1 DEF Observe
  <2> QED  BY <1>1, <1>2, <2>1 DEF WalksTyped
<1>6. ASSUME NEW h \in Readers
      PROVE  ViewStands(h)'
  <2> SUFFICES ASSUME NEW k, k = walk[h] PROVE ViewStands(h)'
    OBVIOUS
  <2>1. walk'[h] = k
    BY <1>1
  <2>2. Asked(walk[h])' = Asked(k) /\ Asked(walk[h]) = Asked(k)
    BY <2>1 DEF Asked
  <2>3. \A seq : Selected(walk[h], seq)' <=> Selected(k, seq)'
    BY <2>1 DEF Selected, Visible, IssueVisible, ProjectVisible, Sees
  <2>4. ToSet(page[h])' = ToSet(page[h])
    BY <1>1 DEF ToSet
  <2>5. ViewStands(h)
    BY DEF ReadersInv
  <2>6. step'[h] # "idle" => \A seq \in old'[h] : Selected(k, seq)'
    BY <1>4, <2>3
  <2>7. step[h] \in {"ask", "select", "load"} =>
          /\ sight[h] \subseteq sight'[h]
          /\ \A a \in Asked(k) : Allowed(a)' => a \in sight'[h]
    BY <1>4
  <2>8. step[h] = "load" /\ k.list.filter =>
          \A seq \in ToSet(page[h]) : records'[seq] # Absent =>
            /\ records'[seq].table = k.list.table
            /\ [subject |-> k.actor, place |-> records'[seq].at] \in sight'[h]
    BY <2>5, <2>7 DEF ViewStands
  <2>9. step[h] \in {"select", "load"} /\ k.list.check => Asked(k) \subseteq sight'[h]
    BY <2>2, <2>5, <2>7 DEF ViewStands
  <2> QED  BY <1>4, <2>1, <2>2, <2>3, <2>4, <2>6, <2>7, <2>8, <2>9 DEF ViewStands
<1>7. ASSUME NEW h \in Readers
      PROVE  PageStands(h)' /\ PageIsDrawn(h)'
  <2>1. old'[h] \subseteq old[h]
    BY <1>4
  <2>2. PageStands(h)'
    BY <1>1, <1>4, <2>1, PageKept DEF ReadersInv
  <2>3. nextSeq' \in Nat /\ nextSeq <= nextSeq'
    BY <1>2 DEF Typed
  <2>4. \A v \in Workers : Inserting(v)' => Inserting(v) /\ slot'[v] = slot[v]
    BY <1>2, EndWorker DEF Inserting, At
  <2>5. PageIsDrawn(h)'
    BY <1>1, <1>2, <2>3, <2>4, DrawnKept DEF ReadersInv
  <2> QED  BY <2>2, <2>5
<1> QED  BY <1>5, <1>6, <1>7 DEF ReadersInv

LEMMA CommitReaders ==
  ASSUME WritersInv, ReadersInv, NEW w \in Workers,
         \/ CommitAssignee(w) \/ CommitMember(w) \/ CommitTeam(w) \/ CommitLink(w)
         \/ CommitRelation(w)
  PROVE  ReadersInv'
<1>1. /\ EndTransaction(w) /\ Observe /\ UNCHANGED readerVars
      /\ nextSeq' = nextSeq /\ records' = records
  BY DEF CommitAssignee, CommitMember, CommitTeam, CommitLink, CommitRelation
<1> QED  BY <1>1, ObservedReaders

LEMMA CommitRowReaders ==
  ASSUME WritersInv, ReadersInv, NEW w \in Workers, CommitRow(w)
  PROVE  ReadersInv'
<1>1. EndTransaction(w) /\ Observe /\ UNCHANGED readerVars /\ nextSeq' = nextSeq
  BY DEF CommitRow
<1>2. /\ Inserting(w) \/ Editing(w)
      /\ slot[w] \in Seqs
      /\ \A seq \in Seqs : seq # slot[w] => records'[seq] = records[seq]
  BY RowCommitted
<1>3. ASSUME NEW h \in Readers, walk[h].list.filter,
             NEW seq \in ToSet(page[h]), records'[seq] # Absent
      PROVE  /\ records[seq] # Absent
             /\ records[seq].table = walk[h].list.table =>
                  records'[seq].at = records[seq].at /\ records'[seq].table = records[seq].table
  <2>1. seq \in Seqs
    BY DEF ReadersInv, WalksTyped, ToSet
  <2>2. CASE seq # slot[w]
    BY <1>2, <1>3, <2>1, <2>2
  <2>3. CASE seq = slot[w]
    <3>1. ~Inserting(w)
      BY <2>3 DEF ReadersInv, PageIsDrawn
    <3>2. Editing(w) /\ RowStands(w) /\ Typed
      BY <1>2, <3>1 DEF WritersInv, WorkerStands
    <3>3. records[seq] # Absent /\ (request[w].op = "move_label" => records[seq].table = "labels")
      BY <2>3, <3>2, EditableMeans DEF RowStands, Editing, At, Names
    <3>4. records[seq] \in RecordRow /\ seq \in DOMAIN records
      BY <2>1, <3>2, <3>3 DEF Typed
    <3>5. CASE request[w].op = "archive"
      <4>1. records'[seq] = [records[seq] EXCEPT !.archived = request[w].archived]
        BY <2>3, <3>4, <3>5 DEF CommitRow
      <4>2. records'[seq].at = records[seq].at /\ records'[seq].table = records[seq].table
        BY <3>4, <4>1 DEF RecordRow
      <4> QED  BY <3>3, <4>2
    <3>6. CASE request[w].op = "delete"
      BY <1>3, <2>3, <3>4, <3>6 DEF CommitRow
    <3>7. CASE request[w].op = "move_label"
      <4>1. walk[h].list \in Listings
        BY DEF ReadersInv, WalksTyped, Walk
      <4>2. walk[h].list.table # "labels"
        BY <1>3, <4>1, ListingFields
      <4> QED  BY <3>3, <3>7, <4>2
    <3> QED  BY <3>2, <3>5, <3>6, <3>7 DEF Editing, At
  <2> QED  BY <2>2, <2>3
<1> QED  BY <1>1, <1>3, ObservedReaders

-----------------------------------------------------------------------------
(***************************************************************************)
(* The steps of the readers.                                                *)
(***************************************************************************)

LEMMA OtherReaders ==
  ASSUME WritersInv, ReadersInv, NEW h \in Readers,
         Read(h) \/ \E k \in Walks : StartWalk(h, k),
         \A g \in Readers \ {h} :
           /\ walk'[g] = walk[g] /\ after'[g] = after[g] /\ page'[g] = page[g]
           /\ more'[g] = more[g] /\ met'[g] = met[g] /\ old'[g] = old[g],
         WalksTyped', ViewStands(h)', PageIsDrawn(h)', PageStands(h)'
  PROVE  ReadersInv'
<1>1. Typed /\ WalksTyped
  BY DEF WritersInv, ReadersInv
<1>2. UNCHANGED <<dbVars, workerVars>>
      /\ \A v \in Handlers \ {h} : step'[v] = step[v] /\ sight'[v] = sight[v]
  BY <1>1, ReaderFrame
<1>3. UNCHANGED <<private, members, records, nextSeq, request, slot>>
  BY <1>2 DEF dbVars, workerVars
<1>4. ASSUME NEW g \in Readers \ {h}
      PROVE  ViewStands(g)' /\ PageIsDrawn(g)' /\ PageStands(g)'
  <2>1. step'[g] = step[g] /\ sight'[g] = sight[g]
    BY <1>2 DEF Handlers
  <2>2. ViewStands(g)'
    BY <1>3, <2>1, ViewKept DEF ReadersInv
  <2>3. PageStands(g)'
    BY <2>1, PageKept DEF ReadersInv
  <2>4. nextSeq' \in Nat /\ nextSeq <= nextSeq'
    BY <1>1, <1>3 DEF Typed
  <2>5. \A v \in Workers : Inserting(v)' => Inserting(v) /\ slot'[v] = slot[v]
    <3>1. \A v \in Workers : step'[v] = step[v]
      BY <1>2 DEF Handlers
    <3> QED  BY <1>3, <3>1 DEF Inserting, At
  <2>6. PageIsDrawn(g)'
    BY <1>1, <2>4, <2>5, DrawnKept DEF ReadersInv
  <2> QED  BY <2>2, <2>3, <2>6
<1> QED  BY <1>4 DEF ReadersInv

LEMMA StartWalkReaders ==
  ASSUME WritersInv, ReadersInv, NEW h \in Readers, NEW k \in Walks, StartWalk(h, k)
  PROVE  ReadersInv'
<1>1. Typed /\ WalksTyped
  BY DEF WritersInv, ReadersInv
<1>2. UNCHANGED <<private, members, records, nextSeq, request, slot>>
      /\ UNCHANGED <<after, page, more, loaded, met>>
  BY DEF StartWalk, dbVars, workerVars
<1>3. /\ step[h] = "idle" /\ step'[h] = "ask" /\ walk'[h] = k
      /\ old'[h] = {seq \in 1..MaxSeq : Selected(k, seq)}
      /\ sight'[h] = {a \in Asked(k) : Allowed(a)}
      /\ \A g \in Readers \ {h} : walk'[g] = walk[g] /\ old'[g] = old[g]
  BY <1>1 DEF StartWalk, Goto, Typed, WalksTyped, Handlers
<1>4. WalksTyped'
  <2>1. old'[h] \in SUBSET Seqs
    BY <1>3 DEF Seqs
  <2>2. old' \in [Readers -> SUBSET Seqs]
    BY <1>1, <2>1, <1>3 DEF StartWalk, WalksTyped
  <2>3. walk' \in [Readers -> Walks]
    BY <1>1 DEF StartWalk, WalksTyped
  <2> QED  BY <1>1, <1>2, <2>2, <2>3 DEF WalksTyped
<1>5. ViewStands(h)'
  <2>1. Asked(walk[h])' = Asked(k)
    BY <1>3 DEF Asked
  <2>2. \A a : Allowed(a)' <=> Allowed(a)
    BY <1>2, AllowedKept
  <2>3. \A seq : Selected(k, seq)' <=> Selected(k, seq)
    BY <1>2, SelectedKept
  <2>4. \A seq : Selected(walk[h], seq)' <=> Selected(k, seq)'
    BY <1>3 DEF Selected, Visible, IssueVisible, ProjectVisible, Sees
  <2> QED  BY <1>3, <2>1, <2>2, <2>3, <2>4 DEF ViewStands
<1>6. page[h] = <<>> /\ after[h] = 0 /\ met[h] = <<>>
  BY <1>3 DEF ReadersInv, PageStands
<1>7. PageIsDrawn(h)'
  BY <1>2, <1>6 DEF PageIsDrawn, ToSet
<1>8. PageStands(h)'
  <2>1. \A seq \in old'[h] : ~(seq <= 0)
    BY <1>3
  <2>2. Increasing(<<>>)
    BY DEF Increasing
  <2> QED  BY <1>2, <1>3, <1>6, <2>1, <2>2 DEF PageStands, Increasing
<1> QED  BY <1>2, <1>3, <1>4, <1>5, <1>7, <1>8, OtherReaders

LEMMA CheckWalkReaders ==
  ASSUME WritersInv, ReadersInv, NEW h \in Readers, CheckWalk(h)
  PROVE  ReadersInv'
<1>1. Typed /\ WalksTyped
  BY DEF WritersInv, ReadersInv
<1>2. UNCHANGED <<private, members, records, nextSeq, request, slot>>
      /\ UNCHANGED <<walk, after, page, more, loaded, met, old, sight>>
  BY DEF CheckWalk, dbVars, workerVars, readerVars
<1>3. step[h] = "ask" /\ step'[h] = "select" /\ walk[h].list.check
      /\ Visible(walk[h].actor, walk[h].at)
      /\ \A v \in Workers : step'[v] = step[v]
  BY <1>1 DEF CheckWalk, Goto, Typed, Handlers
<1>4. WalksTyped'
  BY <1>1, <1>2 DEF WalksTyped
<1>5. ViewStands(h)'
  <2> SUFFICES ASSUME NEW k, k = walk[h] PROVE ViewStands(h)'
    OBVIOUS
  <2>1. walk'[h] = k /\ k \in Walks
    BY <1>1, <1>2 DEF WalksTyped
  <2>2. Asked(walk[h])' = Asked(k) /\ Asked(walk[h]) = Asked(k)
    BY <2>1 DEF Asked
  <2>3. \A a : Allowed(a)' <=> Allowed(a)
    BY <1>2, AllowedKept
  <2>4. \A seq : Selected(walk[h], seq)' <=> Selected(k, seq)
    <3>1. \A seq : Selected(walk[h], seq)' <=> Selected(k, seq)'
      BY <2>1 DEF Selected, Visible, IssueVisible, ProjectVisible, Sees
    <3> QED  BY <1>2, <3>1, SelectedKept
  <2>5. ViewStands(h)
    BY DEF ReadersInv
  <2>6. \A a \in Asked(k) : a.subject = k.actor /\ a.place = k.at
    BY <1>3, <2>1, AskedMeans
  <2>7. \A a \in Asked(k) : Allowed(a)
    <3> SUFFICES ASSUME NEW a \in Asked(k) PROVE Allowed(a)
      OBVIOUS
    <3>1. a.subject = walk[h].actor /\ a.place = walk[h].at
      BY <2>6
    <3>2. Visible(a.subject, a.place)
      BY <1>3, <3>1
    <3> QED  BY <3>2, AllowedVisible
  <2>8. Asked(k) \subseteq sight[h]
    BY <1>3, <2>2, <2>5, <2>7 DEF ViewStands
  <2>9. \A seq \in old[h] : Selected(walk[h], seq)'
    BY <1>3, <2>4, <2>5 DEF ViewStands
  <2> QED  BY <1>2, <1>3, <2>2, <2>8, <2>9 DEF ViewStands
<1>6. PageIsDrawn(h)'
  BY <1>2, <1>3 DEF ReadersInv, PageIsDrawn, ToSet, Inserting, At
<1>7. PageStands(h)'
  BY <1>2, <1>3 DEF ReadersInv, PageStands, Increasing, ToSet
<1> QED  BY <1>2, <1>4, <1>5, <1>6, <1>7, OtherReaders DEF Read

LEMMA LoadItemsReaders ==
  ASSUME WritersInv, ReadersInv, NEW h \in Readers, LoadItems(h)
  PROVE  ReadersInv'
<1>1. Typed /\ WalksTyped
  BY DEF WritersInv, ReadersInv
<1>2. UNCHANGED <<private, members, records, nextSeq, request, slot, step>>
      /\ UNCHANGED <<walk, after, page, more, met, old, sight>>
  BY DEF LoadItems, dbVars, workerVars
<1>3. WalksTyped'
  <2>1. loaded[h] \in Nat /\ Len(page[h]) \in Nat
    BY <1>1 DEF WalksTyped
  <2>2. loaded' \in [Readers -> Nat]
    BY <1>1, <2>1 DEF LoadItems, WalksTyped
  <2> QED  BY <1>1, <1>2, <2>2 DEF WalksTyped
<1>4. ViewStands(h)'
  BY <1>2, ViewKept DEF ReadersInv
<1>5. PageIsDrawn(h)'
  BY <1>2 DEF ReadersInv, PageIsDrawn, ToSet, Inserting, At
<1>6. PageStands(h)'
  BY <1>2, PageKept DEF ReadersInv
<1> QED  BY <1>2, <1>3, <1>4, <1>5, <1>6, OtherReaders DEF Read

LEMMA StopWalkReaders ==
  ASSUME WritersInv, ReadersInv, NEW h \in Readers, StopWalk(h)
  PROVE  ReadersInv'
<1>1. Typed /\ WalksTyped
  BY DEF WritersInv, ReadersInv
<1>2. /\ step'[h] = "idle" /\ after'[h] = 0 /\ page'[h] = <<>> /\ met'[h] = <<>>
      /\ old'[h] = {}
      /\ \A g \in Readers \ {h} :
           /\ walk'[g] = walk[g] /\ after'[g] = after[g] /\ page'[g] = page[g]
           /\ more'[g] = more[g] /\ met'[g] = met[g] /\ old'[g] = old[g]
  BY <1>1 DEF StopWalk, Goto, Typed, WalksTyped, Handlers
<1>3. WalksTyped'
  BY <1>1, FirstOnes DEF StopWalk, WalksTyped
<1>4. ViewStands(h)'
  BY <1>2 DEF ViewStands
<1>5. PageIsDrawn(h)'
  BY <1>2 DEF PageIsDrawn, ToSet
<1>6. PageStands(h)'
  BY <1>2 DEF PageStands, Increasing
<1> QED  BY <1>2, <1>3, <1>4, <1>5, <1>6, OtherReaders DEF Read

LEMMA SelectPageReaders ==
  ASSUME WritersInv, ReadersInv, NEW h \in Readers, SelectPage(h)
  PROVE  ReadersInv'
<1> DEFINE rows == Ordered(Found(h))
<1>1. Typed /\ WalksTyped
  BY DEF WritersInv, ReadersInv
<1>2. UNCHANGED <<private, members, records, nextSeq, request, slot>>
      /\ UNCHANGED <<walk, after, met, old, sight>>
  BY DEF SelectPage, dbVars, workerVars
<1>3. /\ step[h] = (IF walk[h].list.check THEN "select" ELSE "ask") /\ step'[h] = "load"
      /\ \A v \in Workers : step'[v] = step[v]
  BY <1>1 DEF SelectPage, Goto, Typed, Handlers
<1>4. /\ page' = [page EXCEPT ![h] = Items(rows)]
      /\ more' = [more EXCEPT ![h] = Len(rows) > PageLimit]
      /\ loaded' = [loaded EXCEPT ![h] =
           IF walk[h].list.load = "none" THEN Len(Items(rows)) ELSE 0]
  BY DEF SelectPage
<1>5. Found(h) \subseteq Seqs
  BY DEF Found, Seqs
<1>6. Found(h) \in SUBSET Nat /\ IsFiniteSet(Found(h))
  <2>1. \A seq \in Found(h) : seq \in Nat /\ seq <= MaxSeq
    BY <1>5 DEF Seqs
  <2>2. MaxSeq \in Nat
    OBVIOUS
  <2>3. Found(h) \in SUBSET Nat
    BY <2>1
  <2> QED  BY <2>1, <2>2, <2>3, FS_BoundedSetOfNaturals
<1>7. rows \in Seq(Found(h)) /\ Increasing(rows) /\ ToSet(rows) = Found(h)
  BY <1>6, OrderedIsAll
<1> HIDE DEF rows
<1>8. /\ Items(rows) \in Seq(Found(h)) /\ Increasing(Items(rows))
      /\ ToSet(Items(rows)) \subseteq Found(h)
      /\ \A x \in Found(h) :
           \/ x \in ToSet(Items(rows))
           \/ Len(rows) > PageLimit /\ \A n \in DOMAIN Items(rows) : Items(rows)[n] < x
      /\ Len(rows) > PageLimit => Items(rows) # <<>>
  BY <1>6, <1>7, ItemsAreFirst
<1> DEFINE items == Items(rows)
<1> HIDE DEF items
<1>9. /\ items \in Seq(Found(h)) /\ Increasing(items)
      /\ ToSet(items) \subseteq Found(h)
      /\ \A x \in Found(h) :
           \/ x \in ToSet(items)
           \/ Len(rows) > PageLimit /\ \A n \in DOMAIN items : items[n] < x
      /\ Len(rows) > PageLimit => items # <<>>
  BY <1>8 DEF items
<1>10. /\ page'[h] = items /\ more'[h] = (Len(rows) > PageLimit)
       /\ \A g \in Readers \ {h} : page'[g] = page[g] /\ more'[g] = more[g]
  BY <1>1, <1>4 DEF WalksTyped, items
<1>11. WalksTyped'
  <2>1. items \in Seq(Seqs)
    BY <1>5, <1>9
  <2>2. Len(items) \in Nat
    BY <2>1
  <2>3. page' \in [Readers -> Seq(Seqs)] /\ more' \in [Readers -> BOOLEAN]
        /\ loaded' \in [Readers -> Nat]
    BY <1>1, <1>4, <2>1, <2>2 DEF WalksTyped, items
  <2> QED  BY <1>1, <1>2, <2>3 DEF WalksTyped
<1>12. ViewStands(h)'
  <2> SUFFICES ASSUME NEW k, k = walk[h] PROVE ViewStands(h)'
    OBVIOUS
  <2>1. walk'[h] = k /\ k \in Walks /\ k.list \in Listings
    BY <1>1, <1>2 DEF WalksTyped, Walk
  <2>2. Asked(walk[h])' = Asked(k) /\ Asked(walk[h]) = Asked(k)
    BY <2>1 DEF Asked
  <2>3. \A a : Allowed(a)' <=> Allowed(a)
    BY <1>2, AllowedKept
  <2>4. \A seq : Selected(walk[h], seq)' <=> Selected(k, seq)
    <3>1. \A seq : Selected(walk[h], seq)' <=> Selected(k, seq)'
      BY <2>1 DEF Selected, Visible, IssueVisible, ProjectVisible, Sees
    <3> QED  BY <1>2, <3>1, SelectedKept
  <2>5. ViewStands(h)
    BY DEF ReadersInv
  <2>6. \A seq \in old[h] : Selected(walk[h], seq)'
    BY <1>3, <2>4, <2>5 DEF ViewStands
  <2>7. \A a \in Asked(k) : Allowed(a) => a \in sight[h]
    BY <1>3, <2>2, <2>5 DEF ViewStands
  <2>8. k.list.check => Asked(k) \subseteq sight[h]
    BY <1>3, <2>2, <2>5 DEF ViewStands
  <2>9. ASSUME k.list.filter, NEW seq \in ToSet(items), records[seq] # Absent
        PROVE  /\ records[seq].table = k.list.table
               /\ [subject |-> k.actor, place |-> records[seq].at] \in sight[h]
    <3> SUFFICES ASSUME NEW row, row = records[seq]
                 PROVE  row.table = k.list.table
                        /\ [subject |-> k.actor, place |-> row.at] \in sight[h]
      OBVIOUS
    <3>1. seq \in Seqs /\ Selected(k, seq)
      BY <1>5, <1>9 DEF Found
    <3>2. Fits(k, row) /\ Visible(k.actor, row.at)
      BY <2>9, <3>1, SelectedMeans
    <3>3. row \in RecordRow
      BY <1>1, <2>9, <3>1 DEF Typed
    <3>4. row.at \in Places
      BY <3>3 DEF RecordRow
    <3> DEFINE a == [subject |-> k.actor, place |-> row.at]
    <3>5. a.subject = k.actor /\ a.place = row.at
      OBVIOUS
    <3>6. a \in Asked(k)
      <4>1. ~k.list.check
        BY <2>1, <2>9, ListingFields
      <4> QED  BY <2>9, <3>4, <4>1 DEF Asked
    <3> HIDE DEF a
    <3>7. Visible(a.subject, a.place)
      BY <3>2, <3>5
    <3>8. a \in sight[h]
      BY <2>7, <3>6, <3>7, AllowedVisible
    <3> QED  BY <3>2, <3>8 DEF Fits, a
  <2>10. ToSet(page[h])' = ToSet(items)
    BY <1>10 DEF ToSet
  <2> QED  BY <1>2, <1>3, <2>1, <2>2, <2>3, <2>6, <2>7, <2>8, <2>9, <2>10 DEF ViewStands
<1>13. PageIsDrawn(h)'
  <2>1. ToSet(page[h])' = ToSet(items)
    BY <1>10 DEF ToSet
  <2>2. ASSUME NEW seq \in ToSet(items)
        PROVE  seq < nextSeq /\ \A w \in Workers : Inserting(w) => slot[w] # seq
    <3>1. seq \in Seqs /\ records[seq] # Absent
      BY <1>5, <1>9 DEF Found, Selected
    <3>2. seq < nextSeq
      BY <1>1, <3>1 DEF WritersInv, RowsAreDrawn, Typed, Seqs
    <3>3. \A w \in Workers : Inserting(w) => slot[w] # seq
      BY <3>1 DEF WritersInv, WorkerStands, RowStands
    <3> QED  BY <3>2, <3>3
  <2>3. \A w \in Workers : Inserting(w)' <=> Inserting(w)
    BY <1>2, <1>3 DEF Inserting, At
  <2> QED  BY <1>2, <2>1, <2>2, <2>3 DEF PageIsDrawn
<1>14. PageStands(h)'
  <2>1. /\ Increasing(met[h])
        /\ \A n \in DOMAIN met[h] : met[h][n] <= after[h]
        /\ \A seq \in old[h] : seq <= after[h] => seq \in ToSet(met[h])
    BY <1>3 DEF ReadersInv, PageStands
  <2>2. \A n \in DOMAIN items : items[n] \in Found(h) /\ items[n] > after[h]
    <3>1. \A n \in DOMAIN items : items[n] \in Found(h)
      BY <1>9
    <3> QED  BY <3>1 DEF Found
  <2>3. \A seq \in old[h] : seq > after[h] => seq \in Found(h)
    <3>1. \A seq \in old[h] : seq \in 1..MaxSeq
      BY <1>1 DEF WalksTyped, Seqs
    <3>2. \A seq \in old[h] : Selected(walk[h], seq)
      BY <1>3 DEF ReadersInv, ViewStands
    <3> QED  BY <3>1, <3>2 DEF Found
  <2>4. \A seq \in old[h] : seq > after[h] =>
          \/ seq \in ToSet(items)
          \/ Len(rows) > PageLimit /\ \A n \in DOMAIN items : items[n] < seq
    BY <1>9, <2>3
  <2>5. ToSet(page[h])' = ToSet(items) /\ ToSet(met[h])' = ToSet(met[h])
    BY <1>2, <1>10 DEF ToSet
  <2>6. Increasing(met[h])' /\ Increasing(page[h])'
    BY <1>2, <1>9, <1>10, <2>1 DEF Increasing
  <2> QED  BY <1>2, <1>3, <1>9, <1>10, <2>1, <2>2, <2>4, <2>5, <2>6 DEF PageStands
<1> QED  BY <1>2, <1>10, <1>11, <1>12, <1>13, <1>14, OtherReaders DEF Read

\* What the cursor of the next page leaves behind has been met.
LEMMA AnswerReaders ==
  ASSUME WritersInv, ReadersInv, NEW h \in Readers, Answer(h)
  PROVE  ReadersInv'
<1>1. Typed /\ WalksTyped
  BY DEF WritersInv, ReadersInv
<1>2. UNCHANGED <<private, members, records, nextSeq, request, slot, walk, old>>
  BY DEF Answer, dbVars, workerVars
<1>3. /\ step[h] = "load" /\ page'[h] = <<>> /\ met'[h] = met[h] \o page[h]
      /\ \A g \in Readers \ {h} :
           /\ walk'[g] = walk[g] /\ after'[g] = after[g] /\ page'[g] = page[g]
           /\ more'[g] = more[g] /\ met'[g] = met[g] /\ old'[g] = old[g]
  BY <1>1 DEF Answer, WalksTyped, NextCursor
<1>4. page[h] \in Seq(Seqs) /\ met[h] \in Seq(Seqs) /\ Seqs \in SUBSET Nat /\ after[h] \in Nat
  BY <1>1 DEF WalksTyped, Seqs
<1>5. /\ Increasing(met[h]) /\ Increasing(page[h])
      /\ \A n \in DOMAIN met[h] : met[h][n] <= after[h]
      /\ \A n \in DOMAIN page[h] : page[h][n] > after[h]
      /\ \A seq \in old[h] : seq <= after[h] => seq \in ToSet(met[h])
      /\ \A seq \in old[h] : seq > after[h] =>
           \/ seq \in ToSet(page[h])
           \/ more[h] /\ \A n \in DOMAIN page[h] : page[h][n] < seq
      /\ more[h] => page[h] # <<>>
  BY <1>3 DEF ReadersInv, PageStands
<1>6. /\ met'[h] \in Seq(Seqs) /\ Increasing(met'[h])
      /\ \A x : x \in ToSet(met'[h]) <=> x \in ToSet(met[h]) \/ x \in ToSet(page[h])
  <2> DEFINE s == met[h]
             t == page[h]
             b == after[h]
  <2>0. Seqs \in SUBSET Nat /\ b \in Nat
    BY <1>4
  <2>1. s \in Seq(Seqs) /\ t \in Seq(Seqs) /\ Increasing(s) /\ Increasing(t)
    BY <1>4, <1>5
  <2>2. \A n \in DOMAIN s : s[n] <= b
    BY <1>5
  <2>3. \A n \in DOMAIN t : t[n] > b
    BY <1>5
  <2> HIDE DEF s, t, b
  <2>4. /\ s \o t \in Seq(Seqs) /\ Increasing(s \o t)
        /\ \A x : x \in ToSet(s \o t) <=> x \in ToSet(s) \/ x \in ToSet(t)
    BY <2>0, <2>1, <2>2, <2>3, JoinedPages
  <2>5. met'[h] = s \o t
    BY <1>3 DEF s, t
  <2> QED  BY <2>4, <2>5 DEF s, t
<1>7. more[h] => Last(page[h]) \in Seqs /\ Last(page[h]) \in ToSet(page[h])
                 /\ \A n \in DOMAIN page[h] : page[h][n] <= Last(page[h])
  BY <1>4, <1>5, LastIsGreatest
<1>8. \A seq \in old[h] : seq \in Nat
  BY <1>1 DEF WalksTyped, Seqs
<1>9. WalksTyped'
  <2>1. met' \in [Readers -> Seq(Seqs)]
    BY <1>1, <1>3, <1>6 DEF Answer, WalksTyped
  <2>2. page' \in [Readers -> Seq(Seqs)]
    <3>1. <<>> \in Seq(Seqs)
      OBVIOUS
    <3> QED  BY <1>1, <3>1 DEF Answer, WalksTyped
  <2>3. after' \in [Readers -> Nat]
    <3>1. more[h] => Last(page[h]) \in Nat
      BY <1>7 DEF Seqs
    <3> QED  BY <1>1, <3>1 DEF Answer, WalksTyped, NextCursor
  <2>4. more' \in [Readers -> BOOLEAN] /\ loaded' \in [Readers -> Nat]
    BY <1>1 DEF Answer, WalksTyped
  <2> QED  BY <1>1, <1>2, <2>1, <2>2, <2>3, <2>4 DEF WalksTyped
<1>10. /\ \/ more[h] /\ step'[h] = "ask" /\ after'[h] = Last(page[h])
             /\ sight'[h] = {a \in Asked(walk[h]) : Allowed(a)}
          \/ ~more[h] /\ step'[h] = "walked"
       /\ more[h] \in BOOLEAN
  BY <1>1 DEF Answer, WalksTyped, NextCursor, Goto, Typed, Handlers
<1>11. ViewStands(h)'
  <2> SUFFICES ASSUME NEW k, k = walk[h] PROVE ViewStands(h)'
    OBVIOUS
  <2>1. walk'[h] = k
    BY <1>2
  <2>2. Asked(walk[h])' = Asked(k) /\ Asked(walk[h]) = Asked(k)
    BY <2>1 DEF Asked
  <2>3. \A a : Allowed(a)' <=> Allowed(a)
    BY <1>2, AllowedKept
  <2>4. \A seq : Selected(walk[h], seq)' <=> Selected(k, seq)
    <3>1. \A seq : Selected(walk[h], seq)' <=> Selected(k, seq)'
      BY <2>1 DEF Selected, Visible, IssueVisible, ProjectVisible, Sees
    <3> QED  BY <1>2, <3>1, SelectedKept
  <2>5. \A seq \in old[h] : Selected(walk[h], seq)'
    BY <1>3, <2>4 DEF ReadersInv, ViewStands
  <2> QED  BY <1>2, <1>10, <2>2, <2>3, <2>5 DEF ViewStands
<1>12. PageIsDrawn(h)'
  BY <1>3 DEF PageIsDrawn, ToSet
<1>13. ToSet(met[h])' = ToSet(met'[h]) /\ (Increasing(met[h])' <=> Increasing(met'[h]))
  BY DEF ToSet, Increasing
<1>14. PageStands(h)'
  <2>1. CASE more[h]
    <3> SUFFICES ASSUME NEW last, last = Last(page[h]) PROVE PageStands(h)'
      OBVIOUS
    <3>1. last \in Nat /\ last > after[h]
      <4>1. PICK n \in DOMAIN page[h] : page[h][n] = last
        BY <1>7, <2>1 DEF ToSet
      <4>2. last \in Nat
        BY <1>7, <2>1 DEF Seqs
      <4>3. page[h][n] > after[h]
        BY <1>5, <4>1
      <4> QED  BY <4>1, <4>2, <4>3
    <3>2. \A x \in ToSet(page[h]) : x <= last
      BY <1>7, <2>1 DEF ToSet
    <3>3. \A x \in ToSet(met[h]) : x \in Nat /\ x <= after[h]
      <4>1. \A x \in ToSet(met[h]) : x \in Seqs
        BY <1>4 DEF ToSet
      <4>2. \A x \in ToSet(met[h]) : x <= after[h]
        BY <1>5 DEF ToSet
      <4> QED  BY <4>1, <4>2 DEF Seqs
    <3>4. \A n \in DOMAIN met'[h] : met'[h][n] <= last
      <4> SUFFICES ASSUME NEW x \in ToSet(met'[h]) PROVE x <= last
        BY DEF ToSet
      <4>1. CASE x \in ToSet(page[h])
        BY <3>2, <4>1
      <4>2. CASE x \in ToSet(met[h])
        BY <1>4, <3>1, <3>3, <4>2
      <4> QED  BY <1>6, <4>1, <4>2
    <3>5. ASSUME NEW seq \in old[h], seq <= last PROVE seq \in ToSet(met'[h])
      <4>1. CASE seq <= after[h]
        BY <1>5, <1>6, <4>1
      <4>2. CASE ~(seq <= after[h])
        <5>1. seq > after[h]
          BY <1>4, <1>8, <4>2
        <5>2. ~\A n \in DOMAIN page[h] : page[h][n] < seq
          <6>1. PICK n \in DOMAIN page[h] : page[h][n] = last
            BY <1>7, <2>1 DEF ToSet
          <6>2. ~(last < seq)
            BY <1>8, <3>1, <3>5
          <6> QED  BY <6>1, <6>2
        <5> QED  BY <1>5, <1>6, <5>1, <5>2
      <4> QED  BY <4>1, <4>2
    <3> QED  BY <1>2, <1>3, <1>6, <1>10, <1>13, <2>1, <3>4, <3>5 DEF PageStands
  <2>2. CASE ~more[h]
    <3>1. \A seq \in old[h] : seq \in ToSet(met'[h])
      <4> SUFFICES ASSUME NEW seq \in old[h] PROVE seq \in ToSet(met'[h])
        OBVIOUS
      <4>1. seq <= after[h] \/ seq > after[h]
        BY <1>4, <1>8
      <4> QED  BY <1>5, <1>6, <2>2, <4>1
    <3> QED  BY <1>2, <1>3, <1>6, <1>10, <1>13, <2>2, <3>1 DEF PageStands
  <2> QED  BY <2>1, <2>2
<1> QED  BY <1>3, <1>9, <1>11, <1>12, <1>14, OtherReaders DEF Read

LEMMA NextReaders ==
  ASSUME WritersInv, ReadersInv, [Next]_vars
  PROVE  ReadersInv'
<1>1. CASE UNCHANGED vars
  <2>1. UNCHANGED <<private, members, records, nextSeq, request, slot, step>>
        /\ UNCHANGED <<walk, after, page, more, loaded, met, old, sight>>
    BY <1>1 DEF vars, dbVars, workerVars, readerVars
  <2>2. Typed /\ WalksTyped
    BY DEF WritersInv, ReadersInv
  <2>3. WalksTyped'
    BY <2>1, <2>2 DEF WalksTyped
  <2>4. ASSUME NEW h \in Readers
        PROVE  ViewStands(h)' /\ PageIsDrawn(h)' /\ PageStands(h)'
    <3>1. ViewStands(h)'
      BY <2>1, ViewKept DEF ReadersInv
    <3>2. PageStands(h)'
      BY <2>1, PageKept DEF ReadersInv
    <3>3. nextSeq' \in Nat /\ nextSeq <= nextSeq'
      BY <2>1, <2>2 DEF Typed
    <3>4. \A v \in Workers : Inserting(v)' => Inserting(v) /\ slot'[v] = slot[v]
      BY <2>1 DEF Inserting, At
    <3>5. PageIsDrawn(h)'
      BY <2>1, <2>2, <3>3, <3>4, DrawnKept DEF ReadersInv
    <3> QED  BY <3>1, <3>2, <3>5
  <2> QED  BY <2>3, <2>4 DEF ReadersInv
<1>2. ASSUME NEW w \in Workers, Write(w) \/ Abort(w) \/ \E r \in Requests : Begin(w, r)
      PROVE  ReadersInv'
  <2>1. CASE CommitRow(w)
    BY <2>1, CommitRowReaders
  <2>2. CASE \/ CommitAssignee(w) \/ CommitMember(w) \/ CommitTeam(w) \/ CommitLink(w)
             \/ CommitRelation(w)
    BY <2>2, CommitReaders
  <2>3. CASE \/ CheckAccess(w) \/ InsertRow(w) \/ (\E seq \in Seqs : LockRow(w, seq))
             \/ LockIssue(w) \/ ReadMember(w) \/ WriteMember(w) \/ LockTeam(w)
             \/ InsertLink(w) \/ ReadLink(w) \/ InsertRelation(w) \/ RemoveRelation(w)
             \/ Abort(w) \/ (\E r \in Requests : Begin(w, r))
    <3>1. Unseen(w)
      BY <2>3, PreparingUnseen
    <3> QED  BY <3>1, UnseenReaders
  <2> QED  BY <1>2, <2>1, <2>2, <2>3 DEF Write, Seqs
<1>3. ASSUME NEW h \in Readers, NEW k \in Walks, StartWalk(h, k)
      PROVE  ReadersInv'
  BY <1>3, StartWalkReaders
<1>4. ASSUME NEW h \in Readers, Read(h)
      PROVE  ReadersInv'
  BY <1>4, CheckWalkReaders, SelectPageReaders, LoadItemsReaders, AnswerReaders,
     StopWalkReaders DEF Read
<1> QED  BY <1>1, <1>2, <1>3, <1>4 DEF Next

LEMMA ReadersInvariance == Spec => []ReadersInv
<1>1. Init => ReadersInv
  BY InitReaders
<1>2. WritersInv /\ ReadersInv /\ [Next]_vars => ReadersInv'
  BY NextReaders
<1> QED  BY <1>1, <1>2, WritersInvariance, PTL DEF Spec

(***************************************************************************)
(* Nobody writes to a place, is assigned to an issue or is served a row     *)
(* without having been allowed to see it at some moment of the request      *)
(* (docs/issue-assignment.md:8-11, plugin-card.md:46): what the checks and  *)
(* the SELECT of a page find is recorded while the request runs, whatever   *)
(* is committed between them and the answer.                                *)
(***************************************************************************)
THEOREM AccessIsAllowed == Spec => []AccessWasAllowed
<1>1. WritersInv /\ ReadersInv => AccessWasAllowed
  <2> SUFFICES ASSUME WritersInv, ReadersInv PROVE AccessWasAllowed
    OBVIOUS
  <2>1. ASSUME NEW w \in Workers, step[w] # "idle"
        PROVE  ToSet(Checks(request[w])) \subseteq sight[w] \cup ToSet(checks[w])
    BY <2>1 DEF WritersInv, WorkerStands, SightStands
  <2>2. ASSUME NEW h \in Readers, step[h] = "load"
        PROVE  /\ walk[h].list.check => Asked(walk[h]) \subseteq sight[h]
               /\ walk[h].list.filter => \A seq \in ToSet(page[h]) : records[seq] # Absent =>
                    [subject |-> walk[h].actor, place |-> records[seq].at] \in sight[h]
    BY <2>2 DEF ReadersInv, ViewStands
  <2> QED  BY <2>1, <2>2 DEF AccessWasAllowed
<1> QED  BY <1>1, WritersInvariance, ReadersInvariance, PTL

(***************************************************************************)
(* A client that follows next_cursor to the end has met every row that has  *)
(* been in the collection, visible, since it began, once and in order: the  *)
(* list_* handlers order by row_seq, look one row ahead and continue after  *)
(* the last row of the page, and a row_seq below the cursor is never drawn  *)
(* again.                                                                   *)
(***************************************************************************)
THEOREM OldRowsAreMet == Spec => []PagesMeetEveryOldRow
<1>1. ReadersInv => PagesMeetEveryOldRow
  BY DEF ReadersInv, PageStands, Increasing, PagesMeetEveryOldRow
<1> QED  BY <1>1, ReadersInvariance, PTL


-----------------------------------------------------------------------------
(***************************************************************************)
(* The values of the variables.                                             *)
(***************************************************************************)
Steps == {"idle", "begun", "write_member", "read_link", "ready",
          "ask", "select", "load", "walked"}

DatabaseFits ==
  /\ private \subseteq Teams
  /\ members \in [Teams \X Subjects -> MemberRow \cup {Absent}]
  /\ nextSeq \in 1..MaxSeq + 1
  /\ assignee \in [Issues -> Subjects \cup {Nobody}]
  /\ links \in [Links -> Issues \cup {Absent}]

\* A change of a membership that will be committed has a revision left.
WorkerFits(w) ==
  /\ slot[w] \in 0..MaxSeq /\ Len(checks[w]) <= 2
  /\ prior[w] \in MemberRow \cup {Absent}
  /\ At(w, "ready", {"set_team_member"}) /\ prior[w] # Absent =>
       prior[w].active = request[w].active \/ prior[w].revision < MaxRevision

PageFits(h) ==
  after[h] \in 0..MaxSeq /\ Len(page[h]) <= PageLimit /\ loaded[h] <= Len(page[h])

ValuesFit ==
  /\ DatabaseFits /\ step \in [Handlers -> Steps]
  /\ \A w \in Workers : WorkerFits(w)
  /\ \A h \in Readers : PageFits(h)

LEMMA InitValues == Init => ValuesFit
<1> SUFFICES ASSUME Init PROVE ValuesFit
  OBVIOUS
<1>1. DatabaseFits
  <2>1. nextSeq \in 1..MaxSeq + 1
    <3>1. Len(FirstRecords) \in Nat /\ Len(FirstRecords) <= MaxSeq /\ MaxSeq \in Nat
      BY FirstAssumption, BoundsAssumption
    <3> QED  BY <3>1 DEF Init
  <2>2. private \subseteq Teams /\ members \in [Teams \X Subjects -> MemberRow \cup {Absent}]
    BY FirstAssumption DEF Init
  <2> QED  BY <2>1, <2>2 DEF Init, DatabaseFits
<1>2. step \in [Handlers -> Steps]
  BY DEF Init, Handlers, Steps
<1>3. ASSUME NEW w \in Workers PROVE WorkerFits(w)
  BY BoundsAssumption DEF Init, WorkerFits, At
<1>4. ASSUME NEW h \in Readers PROVE PageFits(h)
  BY BoundsAssumption DEF Init, PageFits
<1> QED  BY <1>1, <1>2, <1>3, <1>4 DEF ValuesFit

\* A step of a worker, by what it does to the worker itself.
LEMMA OwnValues ==
  ASSUME ValuesFit, NEW w \in Workers, NEW s \in Steps, Goto(w, s), UNCHANGED readerVars,
         \A v \in Workers \ {w} :
           /\ request'[v] = request[v] /\ checks'[v] = checks[v]
           /\ slot'[v] = slot[v] /\ prior'[v] = prior[v],
         DatabaseFits', WorkerFits(w)'
  PROVE  ValuesFit'
<1>1. step' \in [Handlers -> Steps] /\ \A v \in Workers \ {w} : step'[v] = step[v]
  BY DEF ValuesFit, Goto, Handlers
<1>2. ASSUME NEW v \in Workers, v # w PROVE WorkerFits(v)'
  BY <1>1, <1>2 DEF ValuesFit, WorkerFits, At
<1>3. ASSUME NEW h \in Readers PROVE PageFits(h)'
  BY DEF ValuesFit, PageFits, readerVars
<1> QED  BY <1>1, <1>2, <1>3 DEF ValuesFit

LEMMA EndedValues ==
  ASSUME WritersInv, ValuesFit, NEW w \in Workers, EndTransaction(w), UNCHANGED readerVars,
         DatabaseFits'
  PROVE  ValuesFit'
<1>1. Typed
  BY DEF WritersInv
<1>2. Goto(w, "idle") /\ "idle" \in Steps
  BY DEF EndTransaction, Steps
<1>3. slot'[w] = 0 /\ checks'[w] = <<>> /\ prior'[w] = Absent /\ step'[w] = "idle"
  BY <1>1 DEF EndTransaction, Typed, Goto, Handlers
<1>4. WorkerFits(w)'
  BY <1>3, BoundsAssumption DEF WorkerFits, At
<1> QED  BY <1>1, <1>2, <1>4, EndWorker, OwnValues

LEMMA BeginValues ==
  ASSUME WritersInv, ValuesFit, NEW w \in Workers, NEW r \in Requests, Begin(w, r)
  PROVE  ValuesFit'
<1>1. Typed /\ WorkerFits(w) /\ DatabaseFits
  BY DEF WritersInv, ValuesFit
<1>2. /\ Goto(w, "begun") /\ "begun" \in Steps /\ step'[w] = "begun"
      /\ UNCHANGED <<dbVars, slot, prior, readerVars>> /\ checks'[w] = Checks(r)
      /\ \A v \in Workers \ {w} : request'[v] = request[v] /\ checks'[v] = checks[v]
  BY <1>1 DEF Begin, Typed, Goto, Handlers, Steps
<1>3. Len(Checks(r)) <= 2
  BY DEF Checks
<1>4. DatabaseFits'
  BY <1>1, <1>2 DEF DatabaseFits, dbVars
<1>5. WorkerFits(w)'
  BY <1>1, <1>2, <1>3 DEF WorkerFits, At
<1> QED  BY <1>2, <1>4, <1>5, OwnValues


LEMMA CheckAccessValues ==
  ASSUME WritersInv, ValuesFit, NEW w \in Workers, CheckAccess(w)
  PROVE  ValuesFit'
<1>1. Typed /\ WorkerFits(w) /\ DatabaseFits /\ step \in [Handlers -> Steps]
  BY DEF WritersInv, ValuesFit
<1>2. /\ UNCHANGED <<dbVars, step, request, slot, prior, readerVars>>
      /\ step[w] = "begun" /\ checks[w] # <<>> /\ checks'[w] = Tail(checks[w])
      /\ \A v \in Workers \ {w} : checks'[v] = checks[v]
  BY <1>1 DEF CheckAccess, Typed
<1>3. Goto(w, "begun") /\ "begun" \in Steps
  BY <1>1, <1>2 DEF Goto, Steps, Handlers
<1>4. Len(checks'[w]) <= 2
  <2>1. checks[w] \in Seq(ToSet(Checks(request[w])))
    BY <1>2 DEF WritersInv, WorkerStands, SightStands
  <2> DEFINE S == ToSet(Checks(request[w]))
  <2> HIDE DEF S
  <2>2. Len(Tail(checks[w])) <= Len(checks[w]) /\ Len(checks[w]) \in Nat
        /\ Len(Tail(checks[w])) \in Nat
    <3>1. checks[w] \in Seq(S) /\ checks[w] # <<>>
      BY <1>2, <2>1 DEF S
    <3> QED  BY <3>1
  <2> QED  BY <1>1, <1>2, <2>2 DEF WorkerFits
<1>5. DatabaseFits'
  BY <1>1, <1>2 DEF DatabaseFits, dbVars
<1>6. WorkerFits(w)'
  BY <1>1, <1>2, <1>4 DEF WorkerFits, At
<1> QED  BY <1>2, <1>3, <1>5, <1>6, OwnValues

\* A statement that changes no row and does not end the transaction.
LEMMA PreparedValues ==
  ASSUME WritersInv, ValuesFit, NEW w \in Workers, NEW s \in Steps, Goto(w, s),
         UNCHANGED <<dbVars, request, checks, readerVars>>,
         \A v \in Workers \ {w} : slot'[v] = slot[v] /\ prior'[v] = prior[v],
         slot'[w] \in 0..MaxSeq, prior'[w] \in MemberRow \cup {Absent},
         At(w, "ready", {"set_team_member"})' /\ prior'[w] # Absent =>
           prior'[w].active = request[w].active \/ prior'[w].revision < MaxRevision
  PROVE  ValuesFit'
<1>1. DatabaseFits'
  BY DEF ValuesFit, DatabaseFits, dbVars
<1>2. WorkerFits(w)'
  BY DEF ValuesFit, WorkerFits
<1> QED  BY <1>1, <1>2, OwnValues

LEMMA LockValues ==
  ASSUME WritersInv, ValuesFit, NEW w \in Workers,
         \/ LockIssue(w) \/ LockTeam(w) \/ InsertLink(w) \/ ReadLink(w)
         \/ InsertRelation(w) \/ RemoveRelation(w)
  PROVE  ValuesFit'
<1>1. Typed /\ WorkerFits(w)
  BY DEF WritersInv, ValuesFit
<1>2. PICK s \in Steps : Goto(w, s)
  BY DEF LockIssue, LockTeam, InsertLink, ReadLink, InsertRelation, RemoveRelation, Steps
<1>3. UNCHANGED <<dbVars, request, checks, slot, prior, readerVars>>
      /\ request[w].op # "set_team_member"
  BY DEF LockIssue, LockTeam, InsertLink, ReadLink, InsertRelation, RemoveRelation, Granted, At
<1> QED  BY <1>1, <1>2, <1>3, PreparedValues DEF WorkerFits, At

LEMMA LockRowValues ==
  ASSUME WritersInv, ValuesFit, NEW w \in Workers, NEW seq \in Seqs, LockRow(w, seq)
  PROVE  ValuesFit'
<1>1. Typed /\ WorkerFits(w)
  BY DEF WritersInv, ValuesFit
<1>2. /\ Goto(w, "ready") /\ "ready" \in Steps /\ request[w].op # "set_team_member"
      /\ UNCHANGED <<dbVars, request, checks, prior, readerVars>>
      /\ slot'[w] = seq /\ \A v \in Workers \ {w} : slot'[v] = slot[v]
  BY <1>1 DEF LockRow, Typed, Granted, At, Steps
<1>3. slot'[w] \in 0..MaxSeq
  BY <1>2, BoundsAssumption DEF Seqs
<1> QED  BY <1>1, <1>2, <1>3, PreparedValues DEF WorkerFits, At

LEMMA StoredFits ==
  ASSUME WritersInv, ValuesFit, NEW w \in Workers, request[w].op = "set_team_member"
  PROVE  Stored(w) \in MemberRow \cup {Absent}
<1>1. request[w].at \in Teams /\ request[w].subject \in Subjects
  BY MemberFields DEF WritersInv, Typed
<1> QED  BY <1>1 DEF ValuesFit, DatabaseFits, Stored

LEMMA ReadMemberValues ==
  ASSUME WritersInv, ValuesFit, NEW w \in Workers, ReadMember(w)
  PROVE  ValuesFit'
<1>1. Typed /\ WorkerFits(w)
  BY DEF WritersInv, ValuesFit
<1>2. /\ Goto(w, "write_member") /\ "write_member" \in Steps /\ step'[w] = "write_member"
      /\ UNCHANGED <<dbVars, request, checks, slot, readerVars>>
      /\ request[w].op = "set_team_member" /\ prior'[w] = Stored(w)
      /\ \A v \in Workers \ {w} : prior'[v] = prior[v]
  BY <1>1 DEF ReadMember, Typed, Granted, At, Steps, Goto, Handlers
<1>3. prior'[w] \in MemberRow \cup {Absent}
  BY <1>2, StoredFits
<1> QED  BY <1>1, <1>2, <1>3, PreparedValues DEF WorkerFits, At

\* The INSERT or UPDATE needs a revision that is left.
LEMMA WriteMemberValues ==
  ASSUME WritersInv, ValuesFit, NEW w \in Workers, WriteMember(w)
  PROVE  ValuesFit'
<1>1. Typed /\ WorkerFits(w) /\ MemberStands(w)
  BY DEF WritersInv, ValuesFit, WorkerStands
<1>2. /\ Goto(w, "ready") /\ "ready" \in Steps
      /\ UNCHANGED <<dbVars, request, checks, slot, prior, readerVars>>
      /\ step[w] = "write_member" /\ request[w].op = "set_team_member"
  BY DEF WriteMember, At, Steps
<1>3. prior[w] # Absent => prior[w].active = request[w].active \/ prior[w].revision < MaxRevision
  <2> SUFFICES ASSUME prior[w] # Absent, prior[w].active # request[w].active
               PROVE  prior[w].revision < MaxRevision
    OBVIOUS
  <2>1. Stored(w) = prior[w]
    BY <1>1, <1>2 DEF MemberStands
  <2>2. Stored(w).revision < MaxRevision
    BY DEF WriteMember
  <2> QED  BY <2>1, <2>2
<1> QED  BY <1>1, <1>2, <1>3, PreparedValues DEF WorkerFits


LEMMA InsertRowValues ==
  ASSUME WritersInv, ValuesFit, NEW w \in Workers, InsertRow(w)
  PROVE  ValuesFit'
<1>1. Typed /\ WorkerFits(w) /\ DatabaseFits
  BY DEF WritersInv, ValuesFit
<1>2. /\ Goto(w, "ready") /\ "ready" \in Steps /\ request[w].op # "set_team_member"
      /\ UNCHANGED <<private, members, assignee, links, request, checks, prior, readerVars>>
      /\ nextSeq <= MaxSeq /\ nextSeq' = nextSeq + 1 /\ slot'[w] = nextSeq
      /\ \A v \in Workers \ {w} : slot'[v] = slot[v]
  BY <1>1 DEF InsertRow, Typed, Granted, At, Steps
<1>3. nextSeq' \in 1..MaxSeq + 1 /\ slot'[w] \in 0..MaxSeq
  BY <1>1, <1>2, BoundsAssumption DEF DatabaseFits
<1>4. DatabaseFits'
  BY <1>1, <1>2, <1>3 DEF DatabaseFits
<1>5. WorkerFits(w)'
  BY <1>1, <1>2, <1>3 DEF WorkerFits, At
<1> QED  BY <1>2, <1>4, <1>5, OwnValues

LEMMA CommitMemberValues ==
  ASSUME WritersInv, ValuesFit, NEW w \in Workers, CommitMember(w)
  PROVE  ValuesFit'
<1> DEFINE k == <<request[w].at, request[w].subject>>
           row == IF prior[w] = Absent THEN [active |-> request[w].active, revision |-> 1]
                  ELSE IF prior[w].active = request[w].active THEN members[k]
                  ELSE [active |-> request[w].active, revision |-> members[k].revision + 1]
<1>1. Typed /\ WorkerFits(w) /\ MemberStands(w) /\ DatabaseFits
  BY DEF WritersInv, ValuesFit, WorkerStands
<1>2. /\ EndTransaction(w) /\ UNCHANGED <<private, nextSeq, assignee, links, readerVars>>
      /\ step[w] = "ready" /\ request[w].op = "set_team_member"
      /\ members' = [members EXCEPT ![k] = row]
  BY DEF CommitMember, At
<1>3. k \in Teams \X Subjects /\ request[w].active \in BOOLEAN
  BY <1>1, <1>2, MemberFields DEF Typed
<1>4. members[k] \in MemberRow \cup {Absent}
  BY <1>1, <1>3 DEF DatabaseFits
<1>5. row \in MemberRow \cup {Absent}
  <2>1. CASE prior[w] = Absent
    BY <1>3, <2>1, BoundsAssumption DEF MemberRow
  <2>2. CASE prior[w] # Absent /\ prior[w].active = request[w].active
    BY <1>4, <2>2
  <2>3. CASE prior[w] # Absent /\ prior[w].active # request[w].active
    <3>1. members[k] = prior[w]
      BY <1>1, <1>2, <2>3 DEF MemberStands, Stored
    <3>2. prior[w] \in MemberRow /\ prior[w].revision < MaxRevision
      BY <1>1, <1>2, <2>3 DEF WorkerFits, At
    <3>3. prior[w].revision + 1 \in 1..MaxRevision
      BY <3>2, BoundsAssumption DEF MemberRow
    <3> QED  BY <1>3, <2>3, <3>1, <3>3 DEF MemberRow
  <2> QED  BY <2>1, <2>2, <2>3
<1> HIDE DEF k, row
<1>6. members' \in [Teams \X Subjects -> MemberRow \cup {Absent}]
  BY <1>1, <1>2, <1>5 DEF DatabaseFits
<1>7. DatabaseFits'
  BY <1>1, <1>2, <1>6 DEF DatabaseFits
<1> QED  BY <1>2, <1>7, EndedValues

LEMMA CommitValues ==
  ASSUME WritersInv, ValuesFit, NEW w \in Workers,
         \/ Abort(w) \/ CommitRow(w) \/ CommitAssignee(w) \/ CommitTeam(w)
         \/ CommitLink(w) \/ CommitRelation(w)
  PROVE  ValuesFit'
<1>1. Typed /\ DatabaseFits /\ request[w] \in Requests
  BY DEF WritersInv, ValuesFit, Typed
<1>2. EndTransaction(w) /\ UNCHANGED <<members, nextSeq, readerVars>>
  BY DEF Abort, CommitRow, CommitAssignee, CommitTeam, CommitLink, CommitRelation, dbVars
<1>3. request[w] \in Request
  BY <1>1, RequestsAssumption
<1>4. private' \subseteq Teams
  <2>1. CASE CommitTeam(w)
    <3>1. request[w].at \in Teams
      BY <1>3, <2>1 DEF CommitTeam, At, Request
    <3> QED  BY <1>1, <2>1, <3>1 DEF CommitTeam, DatabaseFits
  <2>2. CASE ~CommitTeam(w)
    BY <1>1, <2>2 DEF Abort, CommitRow, CommitAssignee, CommitLink, CommitRelation, dbVars,
                      DatabaseFits
  <2> QED  BY <2>1, <2>2
<1>5. assignee' \in [Issues -> Subjects \cup {Nobody}]
  <2>1. CASE CommitAssignee(w)
    <3>1. request[w].assignee \in Subjects \cup {Nobody}
      BY <1>3, <2>1 DEF CommitAssignee, At, Request
    <3> QED  BY <1>1, <2>1, <3>1 DEF CommitAssignee, DatabaseFits
  <2>2. CASE ~CommitAssignee(w)
    BY <1>1, <2>2 DEF Abort, CommitRow, CommitTeam, CommitLink, CommitRelation, dbVars,
                      DatabaseFits
  <2> QED  BY <2>1, <2>2
<1>6. links' \in [Links -> Issues \cup {Absent}]
  <2>1. CASE CommitLink(w)
    <3>1. request[w].at \in Issues
      BY <1>3, <2>1 DEF CommitLink, At, Request
    <3> QED  BY <1>1, <2>1, <3>1 DEF CommitLink, DatabaseFits
  <2>2. CASE ~CommitLink(w)
    BY <1>1, <2>2 DEF Abort, CommitRow, CommitTeam, CommitAssignee, CommitRelation, dbVars,
                      DatabaseFits
  <2> QED  BY <2>1, <2>2
<1>7. DatabaseFits'
  BY <1>1, <1>2, <1>4, <1>5, <1>6 DEF DatabaseFits
<1> QED  BY <1>2, <1>7, EndedValues

\* A step of a reader, by what it does to the reader itself.
LEMMA ReaderValues ==
  ASSUME WritersInv, ValuesFit, NEW h \in Readers, Read(h) \/ \E k \in Walks : StartWalk(h, k),
         step'[h] \in Steps, PageFits(h)',
         \A g \in Readers \ {h} :
           after'[g] = after[g] /\ page'[g] = page[g] /\ loaded'[g] = loaded[g]
  PROVE  ValuesFit'
<1>1. Typed
  BY DEF WritersInv
<1>2. /\ UNCHANGED <<dbVars, workerVars>> /\ DOMAIN step' = Handlers
      /\ \A v \in Handlers \ {h} : step'[v] = step[v]
  BY <1>1, ReaderFrame
<1>3. step' \in [Handlers -> Steps]
  <2>1. \E s \in Steps : Goto(h, s) \/ step' = step
    BY DEF Read, CheckWalk, SelectPage, LoadItems, Answer, StopWalk, StartWalk, Steps
  <2> QED  BY <2>1 DEF ValuesFit, Goto, Handlers
<1>4. DatabaseFits'
  BY <1>2 DEF ValuesFit, DatabaseFits, dbVars
<1>5. ASSUME NEW v \in Workers PROVE WorkerFits(v)'
  <2>1. step'[v] = step[v]
    BY <1>2, HandlersAssumption DEF Handlers
  <2> QED  BY <1>2, <2>1 DEF ValuesFit, WorkerFits, At, workerVars
<1>6. ASSUME NEW g \in Readers PROVE PageFits(g)'
  BY <1>6 DEF ValuesFit, PageFits
<1> QED  BY <1>3, <1>4, <1>5, <1>6 DEF ValuesFit


LEMMA NextValuesOfReaders ==
  ASSUME WritersInv, ReadersInv, ReadersInv', ValuesFit, NEW h \in Readers,
         Read(h) \/ \E k \in Walks : StartWalk(h, k)
  PROVE  ValuesFit'
<1>1. WalksTyped /\ WalksTyped' /\ PageFits(h) /\ DOMAIN step = Handlers /\ h \in Handlers
      /\ PageStands(h) /\ step \in [Handlers -> Steps]
  BY DEF ReadersInv, ValuesFit, Handlers
<1>2. PageLimit \in Nat \ {0} /\ MaxSeq \in Nat
  BY BoundsAssumption
<1>3. CASE CheckWalk(h) \/ \E k \in Walks : StartWalk(h, k)
  <2>1. UNCHANGED <<after, page, loaded>> /\ step'[h] \in Steps
    BY <1>1, <1>3 DEF CheckWalk, StartWalk, Goto, readerVars, Steps
  <2>2. PageFits(h)'
    BY <1>1, <2>1 DEF PageFits
  <2> QED  BY <1>3, <2>1, <2>2, ReaderValues DEF Read
<1>4. CASE SelectPage(h)
  <2> DEFINE rows == Ordered(Found(h))
             items == Items(rows)
  <2>1. /\ UNCHANGED after /\ page'[h] = items /\ step'[h] \in Steps
        /\ loaded'[h] = IF walk[h].list.load = "none" THEN Len(items) ELSE 0
        /\ \A g \in Readers \ {h} : page'[g] = page[g] /\ loaded'[g] = loaded[g]
    BY <1>1, <1>4 DEF SelectPage, WalksTyped, Goto, Steps
  <2>2. rows \in Seq(Found(h))
    <3>1. Found(h) \in SUBSET Nat /\ Found(h) \in SUBSET (1..MaxSeq)
      BY <1>2 DEF Found
    <3>2. IsFiniteSet(1..MaxSeq)
      <4>1. 1 \in Int /\ MaxSeq \in Int
        BY <1>2
      <4> QED  BY <4>1, FS_Interval
    <3>3. IsFiniteSet(Found(h))
      <4> HIDE DEF Found
      <4> QED  BY <3>1, <3>2, FS_Subset
    <3> QED  BY <3>1, <3>3, OrderedIsAll
  <2> HIDE DEF rows
  <2>3. Len(items) \in Nat /\ Len(items) <= PageLimit
    BY <1>2, <2>2 DEF Items
  <2> HIDE DEF items
  <2>4. PageFits(h)'
    BY <1>1, <2>1, <2>3 DEF PageFits
  <2> QED  BY <1>4, <2>1, <2>4, ReaderValues DEF Read
<1>5. CASE LoadItems(h)
  <2>1. UNCHANGED <<step, after, page>> /\ \A g \in Readers \ {h} : loaded'[g] = loaded[g]
    BY <1>1, <1>5 DEF LoadItems, WalksTyped
  <2>2. loaded'[h] <= Len(page[h])
    <3>1. loaded[h] \in Nat /\ Len(page[h]) \in Nat /\ loaded[h] < Len(page[h])
      BY <1>1, <1>5 DEF LoadItems, WalksTyped
    <3>2. loaded'[h] \in {Len(page[h]), loaded[h] + 1}
      BY <1>1, <1>5 DEF LoadItems, WalksTyped
    <3> QED  BY <3>1, <3>2
  <2>3. PageFits(h)' /\ step'[h] \in Steps
    BY <1>1, <2>1, <2>2 DEF PageFits
  <2> QED  BY <1>5, <2>1, <2>3, ReaderValues DEF Read
<1>6. CASE Answer(h)
  <2>1. /\ page'[h] = <<>> /\ loaded'[h] = 0 /\ step'[h] \in Steps /\ step[h] = "load"
        /\ \A g \in Readers \ {h} :
             after'[g] = after[g] /\ page'[g] = page[g] /\ loaded'[g] = loaded[g]
    BY <1>1, <1>6 DEF Answer, WalksTyped, Goto, Steps
  <2>2. after'[h] \in 0..MaxSeq
    <3>1. CASE more[h]
      <4>1. after'[h] = Last(page[h])
        BY <1>1, <1>6, <3>1 DEF Answer, NextCursor, WalksTyped
      <4>2. page[h] \in Seq(Seqs) /\ page[h] # <<>>
        BY <1>1, <2>1, <3>1 DEF WalksTyped, PageStands
      <4>3. Last(page[h]) \in Seqs
        BY <4>2 DEF Last
      <4> QED  BY <1>2, <4>1, <4>3 DEF Seqs
    <3>2. CASE ~more[h]
      BY <1>1, <1>6, <3>2 DEF Answer, PageFits
    <3> QED  BY <3>1, <3>2
  <2>3. PageFits(h)'
    BY <1>2, <2>1, <2>2 DEF PageFits
  <2> QED  BY <1>6, <2>1, <2>3, ReaderValues DEF Read
<1>7. CASE StopWalk(h)
  <2>1. /\ after'[h] = 0 /\ page'[h] = <<>> /\ loaded'[h] = 0 /\ step'[h] \in Steps
        /\ \A g \in Readers \ {h} :
             after'[g] = after[g] /\ page'[g] = page[g] /\ loaded'[g] = loaded[g]
    BY <1>1, <1>7 DEF StopWalk, WalksTyped, Goto, Steps
  <2>2. PageFits(h)'
    BY <1>2, <2>1 DEF PageFits
  <2> QED  BY <1>7, <2>1, <2>2, ReaderValues DEF Read
<1> QED  BY <1>3, <1>4, <1>5, <1>6, <1>7 DEF Read

LEMMA NextValues ==
  ASSUME WritersInv, ReadersInv, ReadersInv', ValuesFit, [Next]_vars
  PROVE  ValuesFit'
<1>1. CASE UNCHANGED vars
  BY <1>1 DEF vars, dbVars, workerVars, readerVars, ValuesFit, DatabaseFits, WorkerFits,
              PageFits, At
<1>2. ASSUME NEW w \in Workers, NEW r \in Requests, Begin(w, r) PROVE ValuesFit'
  BY <1>2, BeginValues
<1>3. ASSUME NEW w \in Workers, Abort(w) PROVE ValuesFit'
  BY <1>3, CommitValues
<1>4. ASSUME NEW w \in Workers, Write(w) PROVE ValuesFit'
  <2>1. ASSUME NEW seq \in 1..MaxSeq, LockRow(w, seq) PROVE ValuesFit'
    BY <2>1, LockRowValues DEF Seqs
  <2> QED
    BY <1>4, <2>1, CheckAccessValues, InsertRowValues, LockValues, ReadMemberValues,
       WriteMemberValues, CommitMemberValues, CommitValues DEF Write
<1>5. ASSUME NEW h \in Readers, Read(h) \/ \E k \in Walks : StartWalk(h, k)
      PROVE  ValuesFit'
  BY <1>5, NextValuesOfReaders
<1> QED  BY <1>1, <1>2, <1>3, <1>4, <1>5 DEF Next

PriorIsFunction == prior = [w \in Workers |-> prior[w]]

LEMMA PriorStaysFunction ==
  ASSUME PriorIsFunction, [Next]_vars
  PROVE  PriorIsFunction'
<1>1. UNCHANGED prior \/ \E w \in Workers : \E x : prior' = [prior EXCEPT ![w] = x]
  <2>1. CASE UNCHANGED vars
    BY <2>1 DEF vars, workerVars
  <2>2. ASSUME NEW w \in Workers, Write(w) \/ Abort(w) \/ \E r \in Requests : Begin(w, r)
        PROVE  UNCHANGED prior \/ \E x : prior' = [prior EXCEPT ![w] = x]
    <3>1. CASE EndTransaction(w)
      BY <3>1 DEF EndTransaction
    <3>2. CASE ReadMember(w)
      BY <3>2 DEF ReadMember
    <3>3. CASE ~EndTransaction(w) /\ ~ReadMember(w)
      BY <2>2, <3>3 DEF Write, Abort, Begin, CheckAccess, InsertRow, LockRow, CommitRow,
           LockIssue, CommitAssignee, WriteMember, CommitMember, LockTeam, CommitTeam,
           InsertLink, ReadLink, CommitLink, InsertRelation, RemoveRelation, CommitRelation
    <3> QED  BY <3>1, <3>2, <3>3
  <2>3. ASSUME NEW h \in Readers, Read(h) \/ \E k \in Walks : StartWalk(h, k)
        PROVE  UNCHANGED prior
    BY <2>3 DEF Read, CheckWalk, SelectPage, LoadItems, Answer, StopWalk, StartWalk, workerVars
  <2> QED  BY <2>1, <2>2, <2>3 DEF Next
<1>2. ASSUME NEW w \in Workers, NEW x, prior' = [prior EXCEPT ![w] = x]
      PROVE  PriorIsFunction'
  BY <1>2 DEF PriorIsFunction
<1> QED  BY <1>1, <1>2 DEF PriorIsFunction

(***************************************************************************)
(* The values of all variables stay in their types, for any bounds: a       *)
(* cursor is a row_seq, a page has at most PageLimit items, a revision is   *)
(* at most MaxRevision because set_team_member inserts with 1 and adds one  *)
(* to what it has locked.                                                   *)
(***************************************************************************)
THEOREM CollaborationIsTyped == Spec => []TypeOK
<1>1. WritersInv /\ ReadersInv /\ ValuesFit /\ PriorIsFunction => TypeOK
  <2> SUFFICES ASSUME WritersInv, ReadersInv, ValuesFit, PriorIsFunction PROVE TypeOK
    OBVIOUS
  <2>1. Typed /\ WalksTyped /\ DatabaseFits /\ step \in [Handlers -> Steps]
    BY DEF WritersInv, ReadersInv, ValuesFit
  <2>2. slot \in [Workers -> 0..MaxSeq] /\ prior \in [Workers -> MemberRow \cup {Absent}]
        /\ \A w \in Workers : Len(checks[w]) <= 2
    <3>1. \A w \in Workers : /\ slot[w] \in 0..MaxSeq /\ prior[w] \in MemberRow \cup {Absent}
                             /\ Len(checks[w]) <= 2
      BY DEF ValuesFit, WorkerFits
    <3>2. prior = [w \in Workers |-> prior[w]] /\ slot \in [Workers -> Nat]
      BY <2>1 DEF PriorIsFunction, Typed
    <3> QED  BY <3>1, <3>2
  <2>3. after \in [Readers -> 0..MaxSeq]
        /\ \A h \in Readers : Len(page[h]) <= PageLimit /\ loaded[h] <= Len(page[h])
    BY <2>1 DEF WalksTyped, ValuesFit, PageFits
  <2> QED  BY <2>1, <2>2, <2>3 DEF TypeOK, Typed, WalksTyped, DatabaseFits, Steps, Handlers, Seqs
<1>2. Init => ValuesFit
  BY InitValues
<1>3. WritersInv /\ ReadersInv /\ ReadersInv' /\ ValuesFit /\ [Next]_vars => ValuesFit'
  BY NextValues
<1>4. Init => PriorIsFunction
  BY DEF Init, PriorIsFunction
<1>5. PriorIsFunction /\ [Next]_vars => PriorIsFunction'
  BY PriorStaysFunction
<1> QED  BY <1>1, <1>2, <1>3, <1>4, <1>5, WritersInvariance, ReadersInvariance, PTL DEF Spec

===============================================================================
