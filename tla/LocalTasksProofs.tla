-------------------------- MODULE LocalTasksProofs --------------------------
(***************************************************************************)
(* The standalone queue: its one timer, its identities and its undo, for   *)
(* any files, tasks, requests and failures.                                *)
(***************************************************************************)
EXTENDS LocalTasks, SequenceTheorems, FiniteSetTheorems, TLAPS

(***************************************************************************)
(* Numbers and sequences                                                   *)
(***************************************************************************)
\* A bounded set of numbers has a least one.
LEMMA HasLeast ==
  ASSUME NEW n \in Nat, NEW I \in SUBSET (1..n), I # {}
  PROVE  \E m \in I : \A j \in I : m <= j
<1> DEFINE Upto(i) == {j \in I : j <= i}
           Order == StrictSubsetOrdering(1..n)
           All == {Upto(i) : i \in I}
<1>1. IsWellFoundedOn(Order, FiniteSubsetsOf(1..n))
  BY FS_StrictSubsetOrderingWellFounded
<1>2. All \subseteq FiniteSubsetsOf(1..n)
  <2>0. IsFiniteSet(1..n)
    BY FS_Interval
  <2>1. FiniteSubsetsOf(1..n) = SUBSET (1..n)
    BY <2>0, FS_FiniteSubsetsOfFinite
  <2>2. All \subseteq SUBSET (1..n)
    BY Zenon
  <2> QED BY <2>1, <2>2, Zenon
<1>3. All # {}
  OBVIOUS
<1>4. PICK D \in All : \A E \in All : <<E, D>> \notin Order
  <2> HIDE DEF All, Order
  <2> QED BY <1>1, <1>2, <1>3, WFMin
<1>5. PICK m \in I : D = Upto(m)
  BY <1>4
<1>6. ASSUME NEW j \in I, ~(m <= j) PROVE FALSE
  <2>1. /\ \A x \in I : x <= j => x <= m
        /\ m <= m
    BY <1>6
  <2>2. Upto(j) \subseteq Upto(m) /\ m \in Upto(m) /\ m \notin Upto(j)
    BY <1>6, <2>1, Zenon
  <2>3. <<Upto(j), D>> \in Order
    BY <1>5, <2>2 DEF StrictSubsetOrdering
  <2> QED BY <1>4, <2>3
<1> QED BY <1>5, <1>6

\* Induction up to a bound, over the members of a set.
LEMMA Climb ==
  ASSUME NEW n \in Nat, NEW S, 0 \in S, \A i \in 1..n : i - 1 \in S => i \in S
  PROVE  \A i \in 0..n : i \in S
<1> DEFINE I == {i \in 1..n : i \notin S}
<1>1. I \in SUBSET (1..n)
  OBVIOUS
<1>2. CASE I # {}
  <2> HIDE DEF I
  <2>1. PICK m \in I : \A j \in I : m <= j
    BY <1>1, <1>2, HasLeast
  <2>2. m \in 1..n /\ m \notin S
    BY <2>1 DEF I
  <2>3. m - 1 \notin I
    BY <2>1, <2>2
  <2>4. m - 1 \in S
    BY <2>2, <2>3 DEF I
  <2> QED BY <2>2, <2>4
<1>3. CASE I = {}
  <2>1. \A i \in 1..n : i \in S
    BY <1>3
  <2> QED BY <2>1
<1> QED BY <1>2, <1>3

LEMMA SubSeqIs ==
  ASSUME NEW S, NEW s \in Seq(S), NEW m \in 1..(Len(s) + 1), NEW n \in (m - 1)..Len(s)
  PROVE  LET t == SubSeq(s, m, n)
         IN /\ t \in Seq(S) /\ Len(t) = n - m + 1
            /\ \A j \in 1..(n - m + 1) : t[j] = s[m + j - 1]
<1> DEFINE t == SubSeq(s, m, n)
<1>1. Len(s) \in Nat /\ \A j \in 1..Len(s) : s[j] \in S
  BY LenProperties, ElementOfSeq
<1>2. m \in Int /\ n \in Int /\ \A j \in m..n : s[j] \in S
  BY <1>1
<1>3. /\ t \in Seq(S) /\ Len(t) = IF m <= n THEN n - m + 1 ELSE 0
      /\ \A j \in 1..(n - m + 1) : t[j] = s[m + j - 1]
  BY <1>2, SubSeqProperties
<1> HIDE DEF t
<1>4. Len(t) = n - m + 1
  BY <1>1, <1>3
<1> QED BY <1>3, <1>4 DEF t

LEMMA RemovedAt ==
  ASSUME NEW S, NEW s \in Seq(S), NEW i \in 1..Len(s)
  PROVE  LET t == Sq!RemoveAt(s, i)
         IN /\ t \in Seq(S) /\ Len(t) = Len(s) - 1 /\ Len(s) \in Nat
            /\ \A j \in 1..Len(t) : t[j] = s[IF j < i THEN j ELSE j + 1]
<1> DEFINE a == SubSeq(s, 1, i - 1)
           b == SubSeq(s, i + 1, Len(s))
           t == a \o b
<1>1. Len(s) \in Nat
  BY LenProperties
<1>2. /\ a \in Seq(S) /\ Len(a) = i - 1
      /\ \A j \in 1..(i - 1) : a[j] = s[j]
  <2>1. 1 \in 1..(Len(s) + 1) /\ i - 1 \in (1 - 1)..Len(s) /\ (i - 1) - 1 + 1 = i - 1
        /\ \A j \in 1..(i - 1) : 1 + j - 1 = j
    BY <1>1
  <2> QED BY <2>1, SubSeqIs
<1>3. /\ b \in Seq(S) /\ Len(b) = Len(s) - i
      /\ \A j \in 1..(Len(s) - i) : b[j] = s[i + j]
  <2>1. i + 1 \in 1..(Len(s) + 1) /\ Len(s) \in ((i + 1) - 1)..Len(s)
    BY <1>1
  <2>2. /\ b \in Seq(S) /\ Len(b) = Len(s) - (i + 1) + 1
        /\ \A j \in 1..(Len(s) - (i + 1) + 1) : b[j] = s[(i + 1) + j - 1]
    BY <2>1, SubSeqIs
  <2>3. Len(s) - (i + 1) + 1 = Len(s) - i /\ \A j \in 1..(Len(s) - i) : (i + 1) + j - 1 = i + j
    BY <1>1
  <2> QED BY <2>2, <2>3
<1>4. Sq!RemoveAt(s, i) = t
  BY DEF Sq!RemoveAt
<1> HIDE DEF a, b
<1>5. /\ t \in Seq(S) /\ Len(t) = Len(a) + Len(b)
      /\ \A j \in 1..(Len(a) + Len(b)) : t[j] = IF j <= Len(a) THEN a[j] ELSE b[j - Len(a)]
  BY <1>2, <1>3, ConcatProperties
<1> HIDE DEF t
<1>6. Len(t) = Len(s) - 1
  BY <1>1, <1>2, <1>3, <1>5
<1>7. ASSUME NEW j \in 1..Len(t) PROVE t[j] = s[IF j < i THEN j ELSE j + 1]
  <2>1. j \in 1..(Len(a) + Len(b)) /\ j \in Int
    BY <1>5
  <2>2. CASE j < i
    <3>1. j \in 1..(i - 1) /\ j <= Len(a)
      BY <1>2, <2>1, <2>2
    <3> QED BY <1>2, <1>5, <2>1, <2>2, <3>1
  <2>3. CASE ~(j < i)
    <3>1. j - (i - 1) \in 1..(Len(s) - i) /\ ~(j <= Len(a)) /\ i + (j - (i - 1)) = j + 1
      BY <1>1, <1>2, <1>6, <2>1, <2>3
    <3>2. t[j] = b[j - (i - 1)]
      BY <1>2, <1>5, <2>1, <3>1
    <3> QED BY <1>3, <2>3, <3>1, <3>2
  <2> QED BY <2>2, <2>3
<1> QED BY <1>1, <1>4, <1>5, <1>6, <1>7

LEMMA InsertedAt ==
  ASSUME NEW S, NEW s \in Seq(S), NEW i \in 1..(Len(s) + 1), NEW e \in S
  PROVE  LET t == Sq!InsertAt(s, i, e)
         IN /\ t \in Seq(S) /\ Len(t) = Len(s) + 1 /\ Len(s) \in Nat
            /\ \A j \in 1..Len(t) : t[j] = IF j < i THEN s[j] ELSE IF j = i THEN e ELSE s[j - 1]
<1> DEFINE a == SubSeq(s, 1, i - 1)
           b == SubSeq(s, i, Len(s))
           c == a \o <<e>>
           t == c \o b
<1>1. Len(s) \in Nat
  BY LenProperties
<1>2. /\ a \in Seq(S) /\ Len(a) = i - 1
      /\ \A j \in 1..(i - 1) : a[j] = s[j]
  <2>1. 1 \in 1..(Len(s) + 1) /\ i - 1 \in (1 - 1)..Len(s) /\ (i - 1) - 1 + 1 = i - 1
        /\ \A j \in 1..(i - 1) : 1 + j - 1 = j
    BY <1>1
  <2> QED BY <2>1, SubSeqIs
<1>3. /\ b \in Seq(S) /\ Len(b) = Len(s) - i + 1
      /\ \A j \in 1..(Len(s) - i + 1) : b[j] = s[i + j - 1]
  <2>1. i \in 1..(Len(s) + 1) /\ Len(s) \in (i - 1)..Len(s)
    BY <1>1
  <2> QED BY <2>1, SubSeqIs
<1>4. Sq!InsertAt(s, i, e) = t
  BY DEF Sq!InsertAt
<1> HIDE DEF a, b
<1>5. /\ c \in Seq(S) /\ Len(c) = i
      /\ \A j \in 1..(i - 1) : c[j] = s[j]
      /\ c[i] = e
  <2>1. <<e>> \in Seq(S) /\ Len(<<e>>) = 1 /\ <<e>>[1] = e
    OBVIOUS
  <2>2. /\ c \in Seq(S) /\ Len(c) = Len(a) + Len(<<e>>)
        /\ \A j \in 1..(Len(a) + Len(<<e>>)) : c[j] = IF j <= Len(a) THEN a[j] ELSE <<e>>[j - Len(a)]
    BY <1>2, <2>1, ConcatProperties
  <2> HIDE DEF c
  <2>3. Len(c) = i
    BY <1>1, <1>2, <2>1, <2>2
  <2>4. ASSUME NEW j \in 1..(i - 1) PROVE c[j] = s[j]
    <3>1. j \in 1..(Len(a) + Len(<<e>>)) /\ j <= Len(a)
      BY <1>1, <1>2, <2>1
    <3> QED BY <1>2, <2>2, <3>1
  <2>5. c[i] = e
    <3>1. i \in 1..(Len(a) + Len(<<e>>)) /\ ~(i <= Len(a)) /\ i - Len(a) = 1
      BY <1>1, <1>2, <2>1
    <3> QED BY <2>1, <2>2, <3>1
  <2> QED BY <2>2, <2>3, <2>4, <2>5
<1> HIDE DEF c
<1>6. /\ t \in Seq(S) /\ Len(t) = Len(c) + Len(b)
      /\ \A j \in 1..(Len(c) + Len(b)) : t[j] = IF j <= Len(c) THEN c[j] ELSE b[j - Len(c)]
  BY <1>3, <1>5, ConcatProperties
<1> HIDE DEF t
<1>7. Len(t) = Len(s) + 1
  BY <1>1, <1>3, <1>5, <1>6
<1>8. ASSUME NEW j \in 1..Len(t)
      PROVE  t[j] = IF j < i THEN s[j] ELSE IF j = i THEN e ELSE s[j - 1]
  <2>1. j \in 1..(Len(c) + Len(b)) /\ j \in Int
    BY <1>6
  <2>2. CASE j <= i
    <3>1. j <= Len(c) /\ (j = i \/ (j < i /\ j \in 1..(i - 1)))
      BY <1>5, <2>1, <2>2
    <3> QED BY <1>5, <1>6, <2>1, <3>1
  <2>3. CASE ~(j <= i)
    <3>1. j - i \in 1..(Len(s) - i + 1) /\ ~(j <= Len(c)) /\ i + (j - i) - 1 = j - 1
          /\ ~(j < i) /\ j # i
      BY <1>1, <1>5, <1>7, <2>1, <2>3
    <3>2. t[j] = b[j - i]
      BY <1>5, <1>6, <2>1, <3>1
    <3> QED BY <1>3, <3>1, <3>2
  <2> QED BY <2>2, <2>3
<1> QED BY <1>1, <1>4, <1>6, <1>7, <1>8

(***************************************************************************)
(* Queues: tasks under identities of their own                             *)
(***************************************************************************)
Queue(s) == /\ s \in Seq(Task)
            /\ \A i, j \in 1..Len(s) : s[i].id = s[j].id => i = j
Entries(s) == {s[i] : i \in 1..Len(s)}

LEMMA TasksOf ==
  ASSUME NEW s \in Seq(Task)
  PROVE  /\ Len(s) \in Nat /\ DOMAIN s = 1..Len(s)
         /\ \A i \in 1..Len(s) : s[i] \in Task
         /\ TaskIds(s) = {x.id : x \in Entries(s)} /\ Entries(s) \subseteq Task
<1>1. Len(s) \in Nat /\ DOMAIN s = 1..Len(s) /\ \A i \in 1..Len(s) : s[i] \in Task
  BY LenProperties, ElementOfSeq
<1>2. TaskIds(s) = {x.id : x \in Entries(s)}
  BY <1>1 DEF TaskIds, Entries
<1> QED BY <1>1, <1>2 DEF Entries

\* The task with an identity, and where it stands.
LEMMA Found ==
  ASSUME NEW s, Queue(s), NEW id \in TaskIds(s)
  PROVE  /\ PositionOf(s, id) \in 1..Len(s) /\ s[PositionOf(s, id)] = Get(s, id)
         /\ Get(s, id) \in Task /\ Get(s, id).id = id /\ Get(s, id) \in Entries(s)
         /\ \A i \in 1..Len(s) : s[i].id = id => i = PositionOf(s, id)
         /\ \A x \in Entries(s) : x.id = id => x = Get(s, id)
<1>1. /\ Len(s) \in Nat /\ DOMAIN s = 1..Len(s)
      /\ \A i \in 1..Len(s) : s[i] \in Task
  BY TasksOf DEF Queue
<1>2. \E i \in 1..Len(s) : s[i].id = id
  BY <1>1 DEF TaskIds
<1>3. PositionOf(s, id) \in 1..Len(s) /\ s[PositionOf(s, id)].id = id
  BY <1>1, <1>2 DEF PositionOf
<1>4. \A i \in 1..Len(s) : s[i].id = id => i = PositionOf(s, id)
  BY <1>3 DEF Queue
<1> QED BY <1>1, <1>3, <1>4 DEF Get, Entries

LEMMA QueueWithout ==
  ASSUME NEW s, Queue(s), NEW p \in 1..Len(s)
  PROVE  LET t == Sq!RemoveAt(s, p)
         IN Queue(t) /\ Entries(t) = Entries(s) \ {s[p]}
<1> DEFINE t == Sq!RemoveAt(s, p)
<1>1. Len(s) \in Nat /\ \A i \in 1..Len(s) : s[i] \in Task
  BY TasksOf DEF Queue
<1>2. /\ t \in Seq(Task) /\ Len(t) = Len(s) - 1
      /\ \A j \in 1..Len(t) : t[j] = s[IF j < p THEN j ELSE j + 1]
  BY RemovedAt DEF Queue
<1> HIDE DEF t
<1>3. Queue(t)
  BY <1>1, <1>2 DEF Queue
<1>4. \A j \in 1..Len(t) : \E i \in 1..Len(s) : t[j] = s[i] /\ i # p
  BY <1>1, <1>2
<1>5. ASSUME NEW i \in 1..Len(s), i # p PROVE \E j \in 1..Len(t) : t[j] = s[i]
  <2> DEFINE j == IF i < p THEN i ELSE i - 1
  <2>1. j \in 1..Len(t) /\ t[j] = s[i]
    BY <1>1, <1>2, <1>5
  <2> QED BY <2>1
<1>6. \A i \in 1..Len(s) : i # p => s[i] # s[p]
  BY DEF Queue
<1>7. Entries(t) = Entries(s) \ {s[p]}
  BY <1>4, <1>5, <1>6 DEF Entries
<1> QED BY <1>3, <1>7 DEF t

LEMMA QueueWith ==
  ASSUME NEW s, Queue(s), NEW p \in 1..(Len(s) + 1), NEW e \in Task, e.id \notin TaskIds(s)
  PROVE  LET t == Sq!InsertAt(s, p, e)
         IN Queue(t) /\ Entries(t) = Entries(s) \cup {e}
<1> DEFINE t == Sq!InsertAt(s, p, e)
<1>1. Len(s) \in Nat /\ \A i \in 1..Len(s) : s[i] \in Task
  BY TasksOf DEF Queue
<1>2. /\ t \in Seq(Task) /\ Len(t) = Len(s) + 1
      /\ \A j \in 1..Len(t) : t[j] = IF j < p THEN s[j] ELSE IF j = p THEN e ELSE s[j - 1]
  BY InsertedAt DEF Queue
<1> HIDE DEF t
<1>3. \A i \in 1..Len(s) : s[i].id # e.id
  BY TasksOf DEF Queue, TaskIds
<1>4. ASSUME NEW i \in 1..Len(t), NEW j \in 1..Len(t), t[i].id = t[j].id PROVE i = j
  <2>1. ASSUME NEW k \in 1..Len(t), k # p
        PROVE  LET l == IF k < p THEN k ELSE k - 1 IN l \in 1..Len(s) /\ t[k] = s[l]
    BY <1>1, <1>2, <2>1
  <2>2. \A k \in 1..Len(t) : k # p => t[k].id # e.id
    BY <1>3, <2>1
  <2>3. CASE i = p \/ j = p
    <3>1. p \in 1..Len(t) /\ t[p] = e
      BY <1>1, <1>2
    <3> QED BY <1>4, <2>2, <2>3, <3>1
  <2>4. CASE i # p /\ j # p
    <3> DEFINE k == IF i < p THEN i ELSE i - 1
               l == IF j < p THEN j ELSE j - 1
    <3>1. k \in 1..Len(s) /\ l \in 1..Len(s) /\ t[i] = s[k] /\ t[j] = s[l]
      BY <2>1, <2>4
    <3>2. k = l
      BY <1>4, <3>1 DEF Queue
    <3> QED BY <2>4, <3>2
  <2> QED BY <2>3, <2>4
<1>5. \A j \in 1..Len(t) : t[j] = e \/ \E i \in 1..Len(s) : t[j] = s[i]
  BY <1>1, <1>2
<1>6. ASSUME NEW i \in 1..Len(s) PROVE \E j \in 1..Len(t) : t[j] = s[i]
  <2> DEFINE j == IF i < p THEN i ELSE i + 1
  <2>1. j \in 1..Len(t) /\ t[j] = s[i]
    BY <1>1, <1>2
  <2> QED BY <2>1
<1>7. p \in 1..Len(t) /\ t[p] = e
  BY <1>1, <1>2
<1>8. Entries(t) \subseteq Entries(s) \cup {e}
  BY <1>5 DEF Entries
<1>9. Entries(s) \cup {e} \subseteq Entries(t)
  BY <1>6, <1>7 DEF Entries
<1> QED BY <1>2, <1>4, <1>8, <1>9 DEF Queue, t

\* The others, when one task goes or comes.
LEMMA OutOf ==
  ASSUME NEW s, Queue(s), NEW id \in TaskIds(s)
  PROVE  LET t == Sq!RemoveAt(s, PositionOf(s, id))
         IN /\ Queue(t) /\ TaskIds(t) = TaskIds(s) \ {id}
            /\ \A x \in TaskIds(t) : Get(t, x) = Get(s, x)
<1> DEFINE t == Sq!RemoveAt(s, PositionOf(s, id))
<1>1. PositionOf(s, id) \in 1..Len(s) /\ s[PositionOf(s, id)] = Get(s, id)
  BY Found
<1>2. Queue(t) /\ Entries(t) = Entries(s) \ {Get(s, id)}
  BY <1>1, QueueWithout
<1> HIDE DEF t
<1>3. TaskIds(s) = {x.id : x \in Entries(s)} /\ TaskIds(t) = {x.id : x \in Entries(t)}
  BY <1>2, TasksOf DEF Queue
<1>4. \A x \in Entries(s) : x.id = id => x = Get(s, id)
  BY Found
<1>5. Get(s, id).id = id
  BY Found
<1>6. TaskIds(t) = TaskIds(s) \ {id}
  BY <1>2, <1>3, <1>4, <1>5
<1>7. ASSUME NEW x \in TaskIds(t) PROVE Get(t, x) = Get(s, x)
  <2>1. x \in TaskIds(s) /\ Get(t, x) \in Entries(t) /\ Get(t, x).id = x
    BY <1>2, <1>6, <1>7, Found
  <2> QED BY <1>2, <2>1, Found
<1> QED BY <1>2, <1>6, <1>7 DEF t

LEMMA CameIn ==
  ASSUME NEW s, Queue(s), NEW e \in Task, e.id \notin TaskIds(s),
         NEW t, Queue(t), Entries(t) = Entries(s) \cup {e}
  PROVE  /\ TaskIds(t) = TaskIds(s) \cup {e.id}
         /\ Get(t, e.id) = e /\ \A x \in TaskIds(s) : Get(t, x) = Get(s, x)
<1>1. TaskIds(s) = {x.id : x \in Entries(s)} /\ TaskIds(t) = {x.id : x \in Entries(t)}
  BY TasksOf DEF Queue
<1>2. TaskIds(t) = TaskIds(s) \cup {e.id}
  BY <1>1
<1>3. Get(t, e.id) = e
  BY <1>2, Found
<1>4. ASSUME NEW x \in TaskIds(s) PROVE Get(t, x) = Get(s, x)
  <2>1. Get(s, x) \in Entries(t) /\ Get(s, x).id = x /\ x \in TaskIds(t)
    BY <1>2, Found
  <2> QED BY <2>1, Found
<1> QED BY <1>2, <1>3, <1>4

\* h names the places of the bucket among the first n, in order.
Picks(h, s, b, m, n) ==
  /\ h \in [1..m -> 1..n]
  /\ \A i, j \in 1..m : i < j => h[i] < h[j]
  /\ \A k \in 1..n : s[k].bucket = b <=> \E i \in 1..m : h[i] = k

\* In lists the tasks of a bucket, all of them and in their order.
LEMMA InTells ==
  ASSUME NEW s \in Seq(Task), NEW b
  PROVE  /\ In(s, b) \in Seq(Task)
         /\ \E h : /\ Picks(h, s, b, Len(In(s, b)), Len(s))
                   /\ \A i \in 1..Len(In(s, b)) : In(s, b)[i] = s[h[i]]
<1> DEFINE N == Len(s)
           Body(f, n) == IF n = 0 THEN <<>>
                         ELSE IF s[n].bucket = b THEN Append(f[n - 1], s[n]) ELSE f[n - 1]
           Upto(m, f) == f = [n \in 0..m |-> Body(f, n)]
           Runs == {m \in 0..N : \E f : Upto(m, f)}
<1>1. N \in Nat /\ \A i \in 1..N : s[i] \in Task
  BY TasksOf
<1>2. \E f : Upto(N, f)
  <2>1. 0 \in Runs
    <3> DEFINE f == [n \in 0..0 |-> <<>>]
    <3>1. f = [n \in 0..0 |-> Body(f, n)]
      OBVIOUS
    <3> HIDE DEF f
    <3> QED BY <1>1, <3>1
  <2>2. ASSUME NEW m \in 1..N, m - 1 \in Runs PROVE m \in Runs
    <3>1. PICK g : Upto(m - 1, g)
      BY <2>2
    <3> DEFINE f == [n \in 0..m |-> IF n = m THEN Body(g, m) ELSE g[n]]
    <3>2. ASSUME NEW n \in 0..m PROVE f[n] = Body(f, n)
      <4>1. n # 0 => f[n - 1] = g[n - 1]
        OBVIOUS
      <4>2. CASE n = m
        BY <4>1, <4>2
      <4>3. CASE n # m
        <5>1. n \in 0..(m - 1) /\ f[n] = g[n]
          BY <4>3
        <5>2. g[n] = Body(g, n)
          BY <3>1, <5>1
        <5> QED BY <4>1, <5>1, <5>2
      <4> QED BY <4>2, <4>3
    <3>3. f = [n \in 0..m |-> f[n]]
      OBVIOUS
    <3> HIDE DEF f
    <3>4. Upto(m, f) /\ m \in 0..N
      BY <1>1, <3>2, <3>3
    <3> QED BY <3>4
  <2> HIDE DEF Runs
  <2>3. N \in 0..N
    BY <1>1
  <2>4. N \in Runs
    BY <1>1, <2>1, <2>2, <2>3, Climb
  <2> QED BY <2>4 DEF Runs
<1> DEFINE part == CHOOSE f : Upto(N, f)
<1>3. Upto(N, part)
  BY <1>2
<1>4. In(s, b) = part[N]
  BY DEF In
<1> HIDE DEF part
<1>5. \A n \in 0..N : part[n] = Body(part, n)
  BY <1>3
<1> DEFINE Good(n) == /\ part[n] \in Seq(Task)
                      /\ \E h : /\ Picks(h, s, b, Len(part[n]), n)
                                /\ \A i \in 1..Len(part[n]) : part[n][i] = s[h[i]]
           Goods == {n \in 0..N : Good(n)}
<1>6. 0 \in Goods
  <2>1. part[0] = <<>>
    BY <1>1, <1>5
  <2> DEFINE h == [i \in 1..0 |-> 0]
  <2>2. Picks(h, s, b, 0, 0)
    BY DEF Picks
  <2>3. Len(part[0]) = 0 /\ part[0] \in Seq(Task)
    BY <2>1
  <2> HIDE DEF h
  <2> QED BY <1>1, <2>2, <2>3
<1>7. ASSUME NEW n \in 1..N, n - 1 \in Goods PROVE n \in Goods
  <2> DEFINE old == part[n - 1]
             m == Len(old)
  <2>1. PICK h : /\ Picks(h, s, b, m, n - 1)
                 /\ \A i \in 1..m : old[i] = s[h[i]]
    BY <1>7
  <2>2. old \in Seq(Task) /\ m \in Nat
    BY <1>7, LenProperties
  <2>3. part[n] = IF s[n].bucket = b THEN Append(old, s[n]) ELSE old
    BY <1>1, <1>5
  <2>4. n \in 0..N
    BY <1>1
  <2> HIDE DEF old
  <2>5. CASE s[n].bucket # b
    <3>1. part[n] = old
      BY <2>3, <2>5
    <3>2. ASSUME NEW k \in 1..n PROVE s[k].bucket = b <=> \E i \in 1..m : h[i] = k
      <4>1. CASE k = n
        <5>1. \A i \in 1..m : h[i] \in 1..(n - 1)
          BY <2>1 DEF Picks
        <5> QED BY <2>5, <4>1, <5>1
      <4>2. CASE k # n
        <5>1. k \in 1..(n - 1)
          BY <4>2
        <5> QED BY <2>1, <5>1 DEF Picks
      <4> QED BY <4>1, <4>2
    <3>3. h \in [1..m -> 1..n]
      BY <2>1 DEF Picks
    <3>4. Picks(h, s, b, m, n)
      BY <2>1, <3>2, <3>3 DEF Picks
    <3> QED BY <2>1, <2>2, <2>4, <3>1, <3>4
  <2>6. CASE s[n].bucket = b
    <3> DEFINE l == m + 1
               g == [i \in 1..l |-> IF i = l THEN n ELSE h[i]]
               new == Append(old, s[n])
    <3>1. part[n] = new
      BY <2>3, <2>6
    <3>2. s[n] \in Task
      BY <1>1
    <3>3. /\ new \in Seq(Task) /\ Len(new) = l
          /\ \A i \in 1..m : new[i] = old[i]
          /\ new[l] = s[n]
      BY <2>2, <3>2, AppendProperties
    <3>4. l \in Nat \ {0} /\ \A i \in 1..l : i = l \/ i \in 1..m
      BY <2>2
    <3>5. h \in [1..m -> 1..(n - 1)]
      BY <2>1 DEF Picks
    <3>6. g[l] = n /\ \A i \in 1..m : i \in 1..l /\ i # l /\ g[i] = h[i] /\ h[i] \in 1..(n - 1)
      BY <2>2, <3>5
    <3>7. g \in [1..l -> 1..n]
      BY <3>4, <3>5
    <3> HIDE DEF g, new
    <3>8. \A i \in 1..l : new[i] = s[g[i]]
      BY <2>1, <3>3, <3>4, <3>6
    <3>9. ASSUME NEW i \in 1..l, NEW j \in 1..l, i < j PROVE g[i] < g[j]
      <4>1. i \in 1..m
        BY <2>2, <3>9
      <4>2. CASE j = l
        BY <3>6, <4>1, <4>2
      <4>3. CASE j # l
        <5>1. j \in 1..m
          BY <3>4, <4>3
        <5> QED BY <2>1, <3>6, <3>9, <4>1, <5>1 DEF Picks
      <4> QED BY <4>2, <4>3
    <3>10. ASSUME NEW k \in 1..n PROVE s[k].bucket = b <=> \E i \in 1..l : g[i] = k
      <4>1. CASE k = n
        <5>1. l \in 1..l
          BY <3>4
        <5> QED BY <2>6, <3>6, <4>1, <5>1
      <4>2. CASE k # n
        <5>1. k \in 1..(n - 1)
          BY <4>2
        <5>2. s[k].bucket = b <=> \E i \in 1..m : h[i] = k
          BY <2>1, <5>1 DEF Picks
        <5>3. \A i \in 1..l : g[i] = k => i \in 1..m /\ h[i] = k
          BY <3>4, <3>6, <4>2
        <5> QED BY <3>6, <5>2, <5>3
      <4> QED BY <4>1, <4>2
    <3>11. Picks(g, s, b, l, n)
      BY <3>7, <3>9, <3>10 DEF Picks
    <3> QED BY <2>4, <3>1, <3>3, <3>8, <3>11
  <2> QED BY <2>5, <2>6
<1> HIDE DEF Goods
<1>8. N \in Goods
  <2>1. N \in 0..N
    BY <1>1
  <2> QED BY <1>1, <1>6, <1>7, <2>1, Climb
<1> QED BY <1>4, <1>8 DEF Goods

\* So the bucket's tasks are the members of its list, each once.
LEMMA InHas ==
  ASSUME NEW s, Queue(s), NEW b
  PROVE  /\ Queue(In(s, b)) /\ Len(In(s, b)) \in Nat
         /\ Entries(In(s, b)) = {x \in Entries(s) : x.bucket = b}
         /\ (In(s, b) = <<>>) = (Len(In(s, b)) = 0)
<1> DEFINE t == In(s, b)
<1>0. s \in Seq(Task)
  BY DEF Queue
<1>1. PICK h : Picks(h, s, b, Len(t), Len(s)) /\ \A i \in 1..Len(t) : t[i] = s[h[i]]
  BY <1>0, InTells
<1>2. t \in Seq(Task) /\ Len(t) \in Nat /\ (t = <<>>) = (Len(t) = 0)
  BY <1>0, InTells, LenProperties, EmptySeq
<1> HIDE DEF t
<1>3. Queue(t)
  <2> SUFFICES ASSUME NEW i \in 1..Len(t), NEW j \in 1..Len(t), t[i].id = t[j].id PROVE i = j
    BY <1>2 DEF Queue
  <2>1. h[i] = h[j]
    BY <1>1 DEF Picks, Queue
  <2> QED BY <1>1, <1>2, <2>1 DEF Picks
<1>4. \A i \in 1..Len(t) : t[i] \in Entries(s) /\ t[i].bucket = b
  BY <1>1 DEF Picks, Entries
<1>5. ASSUME NEW k \in 1..Len(s), s[k].bucket = b PROVE s[k] \in Entries(t)
  BY <1>1, <1>5 DEF Picks, Entries
<1>6. Entries(t) = {x \in Entries(s) : x.bucket = b}
  BY <1>4, <1>5 DEF Entries
<1> QED BY <1>2, <1>3, <1>6 DEF t

LEMMA HasGreatest ==
  ASSUME NEW n \in Nat, NEW I \in SUBSET (1..n), I # {}
  PROVE  \E m \in I : \A j \in I : j <= m
<1> DEFINE J == {n + 1 - i : i \in I}
<1>1. J \in SUBSET (1..n) /\ J # {}
  <2>1. \A i \in I : n + 1 - i \in 1..n
    OBVIOUS
  <2> QED BY <2>1
<1>2. \A j \in I : n + 1 - j \in J
  OBVIOUS
<1> HIDE DEF J
<1>3. PICK k \in J : \A j \in J : k <= j
  BY <1>1, HasLeast
<1>4. PICK m \in I : k = n + 1 - m
  BY <1>3 DEF J
<1> QED BY <1>2, <1>3, <1>4

LEMMA IdsInAre ==
  ASSUME NEW s, Queue(s), NEW b
  PROVE  /\ Len(IdsIn(s, b)) = Len(In(s, b)) /\ (IdsIn(s, b) = <<>>) = (In(s, b) = <<>>)
         /\ DOMAIN IdsIn(s, b) = 1..Len(In(s, b))
         /\ \A i \in 1..Len(In(s, b)) :
              IdsIn(s, b)[i] = In(s, b)[i].id /\ In(s, b)[i] \in Entries(s)
<1> DEFINE there == In(s, b)
           ids == IdsIn(s, b)
<1>1. /\ there \in Seq(Task) /\ Len(there) \in Nat /\ DOMAIN there = 1..Len(there)
      /\ \A i \in 1..Len(there) : there[i] \in Entries(s)
  BY InHas, LenProperties DEF Queue, Entries
<1>2. ids = [i \in 1..Len(there) |-> there[i].id]
  BY <1>1 DEF IdsIn
<1>3. (there = <<>>) = (Len(there) = 0)
  BY InHas
<1> HIDE DEF there, ids
<1>4. ids \in Seq(TaskIds(s)) /\ Len(ids) = Len(there)
  <2>1. \A i \in 1..Len(there) : there[i].id \in TaskIds(s)
    BY <1>1, TasksOf DEF Queue
  <2>2. ids \in [1..Len(there) -> TaskIds(s)]
    BY <1>2, <2>1
  <2> QED BY <1>1, <2>2, IsASeq, LenProperties
<1>5. (ids = <<>>) = (Len(ids) = 0)
  BY <1>4, EmptySeq
<1> QED BY <1>1, <1>2, <1>3, <1>4, <1>5 DEF there, ids

\* A spot is a place of the queue or the one behind its end.
LEMMA SpotOK ==
  ASSUME NEW s, Queue(s), NEW b, NEW index \in Nat \cup {None}
  PROVE  Spot(s, b, index) \in 1..(Len(s) + 1)
<1> DEFINE ids == IdsIn(s, b)
           there == {i \in DOMAIN s : s[i].bucket = b}
<1>1. Len(s) \in Nat /\ DOMAIN s = 1..Len(s)
  BY TasksOf DEF Queue
<1>2. CASE index # None /\ index < Len(ids)
  <2>1. index + 1 \in 1..Len(In(s, b))
    BY <1>2, IdsInAre, InHas
  <2>2. ids[index + 1] \in TaskIds(s)
    BY <2>1, IdsInAre, TasksOf DEF Queue
  <2>3. PositionOf(s, ids[index + 1]) \in 1..Len(s)
    BY <2>2, Found
  <2> QED BY <1>1, <1>2, <2>3 DEF Spot
<1>3. CASE ~(index # None /\ index < Len(ids)) /\ there = {}
  BY <1>1, <1>3 DEF Spot
<1>4. CASE ~(index # None /\ index < Len(ids)) /\ there # {}
  <2> DEFINE m == CHOOSE i \in there : \A j \in there : j <= i
  <2>1. \E i \in there : \A j \in there : j <= i
    BY <1>1, <1>4, HasGreatest
  <2>2. m \in 1..Len(s)
    BY <1>1, <2>1
  <2>3. Spot(s, b, index) = 1 + m
    BY <1>4 DEF Spot
  <2> HIDE DEF m
  <2> QED BY <1>1, <2>2, <2>3
<1> QED BY <1>2, <1>3, <1>4

\* A placed task changes its bucket and nothing else; the other tasks stay what they are.
LEMMA Placed ==
  ASSUME NEW s, Queue(s), NEW id \in TaskIds(s), NEW b \in Bucket, NEW index \in Nat \cup {None}
  PROVE  LET t == Place(s, id, b, index)
         IN /\ Queue(t) /\ TaskIds(t) = TaskIds(s)
            /\ Entries(t) = (Entries(s) \ {Get(s, id)}) \cup {[Get(s, id) EXCEPT !.bucket = b]}
<1> DEFINE p == PositionOf(s, id)
           rest == Sq!RemoveAt(s, p)
           e == [s[p] EXCEPT !.bucket = b]
           t == Place(s, id, b, index)
<1>1. /\ p \in 1..Len(s) /\ s[p] = Get(s, id) /\ Get(s, id) \in Task /\ Get(s, id).id = id
      /\ \A x \in Entries(s) : x.id = id => x = Get(s, id)
      /\ Get(s, id) \in Entries(s)
  BY Found
<1>2. Queue(rest) /\ Entries(rest) = Entries(s) \ {s[p]}
  BY <1>1, QueueWithout
<1>3. e \in Task /\ e.id = id
  BY <1>1 DEF Task
<1>4. t = Sq!InsertAt(rest, Spot(rest, b, index), e)
  BY DEF Place
<1> HIDE DEF p, rest, e, t
<1>5. TaskIds(rest) = TaskIds(s) \ {id}
  BY <1>1, <1>2, TasksOf DEF Queue
<1>6. Spot(rest, b, index) \in 1..(Len(rest) + 1)
  BY <1>2, SpotOK
<1>7. Queue(t) /\ Entries(t) = Entries(rest) \cup {e}
  BY <1>2, <1>3, <1>4, <1>5, <1>6, QueueWith
<1>8. TaskIds(t) = TaskIds(s)
  <2>1. /\ TaskIds(t) = {x.id : x \in Entries(t)}
        /\ TaskIds(rest) = {x.id : x \in Entries(rest)}
    BY <1>2, <1>7, TasksOf DEF Queue
  <2>2. TaskIds(t) = TaskIds(rest) \cup {id}
    BY <1>3, <1>7, <2>1
  <2> QED BY <1>5, <2>2
<1> QED BY <1>1, <1>2, <1>7, <1>8 DEF t, e

LEMMA PlacedGet ==
  ASSUME NEW s, Queue(s), NEW id \in TaskIds(s), NEW b \in Bucket, NEW index \in Nat \cup {None},
         NEW x \in TaskIds(s)
  PROVE  Get(Place(s, id, b, index), x)
           = IF x = id THEN [Get(s, id) EXCEPT !.bucket = b] ELSE Get(s, x)
<1> DEFINE t == Place(s, id, b, index)
           e == [Get(s, id) EXCEPT !.bucket = b]
<1>1. /\ Queue(t) /\ TaskIds(t) = TaskIds(s)
      /\ Entries(t) = (Entries(s) \ {Get(s, id)}) \cup {e}
  BY Placed
<1>2. /\ Get(s, id) \in Task /\ Get(s, id).id = id
      /\ Get(s, x) \in Entries(s) /\ Get(s, x).id = x
  BY Found
<1>3. e.id = id
  BY <1>2 DEF Task
<1> HIDE DEF t, e
<1>4. \A y \in Entries(t) : y.id = x => y = Get(t, x)
  BY <1>1, Found
<1>5. CASE x = id
  BY <1>1, <1>3, <1>4, <1>5 DEF e, t
<1>6. CASE x # id
  BY <1>1, <1>2, <1>4, <1>6 DEF t
<1> QED BY <1>5, <1>6

\* The current task is in Now, and there is one as soon as Now holds a task.
LEMMA CurrentIs ==
  ASSUME NEW s, Queue(s)
  PROVE  /\ None \notin TaskIds(s)
         /\ Current(s) # None => /\ Current(s) \in TaskIds(s) /\ Get(s, Current(s)).bucket = "now"
                                 /\ IdsIn(s, "now") # <<>> /\ Current(s) = IdsIn(s, "now")[1]
         /\ Current(s) = None => \A id \in TaskIds(s) : Get(s, id).bucket # "now"
<1> DEFINE there == In(s, "now")
<1>1. /\ Queue(there) /\ Len(there) \in Nat /\ (there = <<>>) = (Len(there) = 0)
      /\ Entries(there) = {x \in Entries(s) : x.bucket = "now"}
  BY InHas
<1>2. None \notin TaskIds(s)
  <2>1. s \in Seq(Task) /\ \A x \in Task : x.id \in Nat
    BY DEF Queue, Task
  <2>2. TaskIds(s) \subseteq Nat
    BY <2>1, TasksOf
  <2> QED BY <2>2, AbsentAssumption
<1>3. CASE there = <<>>
  <2>1. Current(s) = None
    BY <1>3 DEF Current, HeadOf
  <2>2. Entries(there) = {}
    BY <1>1, <1>3 DEF Entries
  <2>3. \A id \in TaskIds(s) : Get(s, id) \in Entries(s)
    BY Found
  <2> QED BY <1>1, <1>2, <2>1, <2>2, <2>3
<1>4. CASE there # <<>>
  <2>1. there[1] \in Entries(there) /\ there = In(s, "now")
    BY <1>1, <1>4 DEF Entries
  <2>2. there[1] \in Entries(s) /\ there[1].bucket = "now"
    BY <1>1, <2>1
  <2>3. there[1].id \in TaskIds(s)
    BY <2>2, TasksOf DEF Queue
  <2>4. there[1] = Get(s, there[1].id)
    BY <2>2, <2>3, Found
  <2>5. Current(s) = there[1].id
    BY <1>4 DEF Current, HeadOf
  <2>6. IdsIn(s, "now") # <<>> /\ IdsIn(s, "now")[1] = there[1].id
    BY <1>1, <1>4, IdsInAre
  <2> QED BY <1>2, <2>2, <2>3, <2>4, <2>5, <2>6
<1> QED BY <1>3, <1>4

LEMMA CurrentOf ==
  ASSUME NEW s, Queue(s), NEW id \in TaskIds(s), Get(s, id).bucket = "now",
         \A x \in TaskIds(s) : Get(s, x).bucket = "now" => x = id
  PROVE  Current(s) = id
BY CurrentIs

\* The settled queue: those behind the first in Now are in Next, the others where they were.
LEMMA SettledOK ==
  ASSUME NEW s, Queue(s)
  PROVE  LET t == Settled(s)
         IN /\ Queue(t) /\ TaskIds(t) = TaskIds(s)
            /\ \A id \in TaskIds(s) :
                 Get(t, id) = IF Get(s, id).bucket = "now" /\ id # Current(s)
                              THEN [Get(s, id) EXCEPT !.bucket = "next"] ELSE Get(s, id)
            /\ Len(IdsIn(s, "now")) <= 1 => t = s
<1> DEFINE ids == IdsIn(s, "now")
           N == Len(ids)
           Body(f, k) == IF k = 0 THEN s ELSE Place(f[k - 1], ids[N + 1 - k], "next", 0)
           Upto(m, f) == f = [k \in 0..m |-> Body(f, k)]
           Runs == {m \in 0..(N - 1) : \E f : Upto(m, f)}
<1>1. /\ N \in Nat /\ (ids = <<>>) = (N = 0) /\ DOMAIN ids = 1..N
      /\ \A i \in 1..N : ids[i] = In(s, "now")[i].id /\ In(s, "now")[i] \in Entries(s)
  BY IdsInAre, InHas
<1>2. /\ \A i \in 1..N : ids[i] \in TaskIds(s) /\ Get(s, ids[i]).bucket = "now"
      /\ \A i, j \in 1..N : ids[i] = ids[j] => i = j
      /\ \A id \in TaskIds(s) : Get(s, id).bucket = "now" => \E i \in 1..N : ids[i] = id
  <2>1. Queue(In(s, "now")) /\ N = Len(In(s, "now"))
    BY IdsInAre, InHas
  <2>2. Entries(In(s, "now")) = {x \in Entries(s) : x.bucket = "now"}
    BY InHas
  <2>3. ASSUME NEW i \in 1..N PROVE ids[i] \in TaskIds(s) /\ Get(s, ids[i]).bucket = "now"
    <3>1. In(s, "now")[i] \in Entries(In(s, "now"))
      BY <2>1 DEF Entries
    <3>2. In(s, "now")[i] \in Entries(s) /\ In(s, "now")[i].bucket = "now"
      BY <2>2, <3>1
    <3>3. ids[i] \in TaskIds(s)
      BY <1>1, TasksOf DEF Queue
    <3> QED BY <1>1, <3>2, <3>3, Found
  <2>4. \A i, j \in 1..N : ids[i] = ids[j] => i = j
    BY <1>1, <2>1 DEF Queue
  <2>5. ASSUME NEW id \in TaskIds(s), Get(s, id).bucket = "now" PROVE \E i \in 1..N : ids[i] = id
    <3>1. Get(s, id) \in Entries(In(s, "now")) /\ Get(s, id).id = id
      BY <2>2, <2>5, Found
    <3>2. PICK i \in 1..N : In(s, "now")[i] = Get(s, id)
      BY <2>1, <3>1 DEF Entries
    <3> QED BY <1>1, <3>1, <3>2
  <2> QED BY <2>3, <2>4, <2>5
<1>3. N > 0 => Current(s) = ids[1]
  <2> SUFFICES ASSUME N > 0 PROVE Current(s) = ids[1]
    OBVIOUS
  <2>1. 1 \in 1..N
    BY <1>1
  <2>2. Current(s) # None
    BY <1>2, <2>1, CurrentIs
  <2> QED BY <2>2, CurrentIs
<1>4. N = 0 => Settled(s) = s
  BY <1>1 DEF Settled
<1>5. CASE N = 0
  BY <1>1, <1>2, <1>4, <1>5
<1>6. CASE N # 0
  <2> DEFINE M == N - 1
  <2>1. M \in Nat /\ M \in 0..M /\ 0 \in 0..M /\ \A i \in 1..M : i - 1 \in 0..M /\ i \in 0..M
    BY <1>1, <1>6
  <2> HIDE DEF ids
  <2>2. \E f : Upto(M, f)
    <3>1. 0 \in Runs
      <4> DEFINE f == [k \in 0..0 |-> s]
      <4>1. f = [k \in 0..0 |-> Body(f, k)]
        OBVIOUS
      <4> HIDE DEF f
      <4> QED BY <2>1, <4>1
    <3>2. ASSUME NEW m \in 1..M, m - 1 \in Runs PROVE m \in Runs
      <4>1. PICK g : Upto(m - 1, g)
        BY <3>2
      <4> DEFINE f == [k \in 0..m |-> IF k = m THEN Body(g, m) ELSE g[k]]
      <4>2. ASSUME NEW k \in 0..m PROVE f[k] = Body(f, k)
        <5>1. k # 0 => f[k - 1] = g[k - 1]
          OBVIOUS
        <5>2. CASE k = m
          BY <5>1, <5>2
        <5>3. CASE k # m
          <6>1. k \in 0..(m - 1) /\ f[k] = g[k]
            BY <5>3
          <6>2. g[k] = Body(g, k)
            BY <4>1, <6>1
          <6> QED BY <5>1, <6>1, <6>2
        <5> QED BY <5>2, <5>3
      <4>3. f = [k \in 0..m |-> f[k]]
        OBVIOUS
      <4> HIDE DEF f
      <4>4. Upto(m, f) /\ m \in 0..M
        BY <2>1, <4>2, <4>3
      <4> QED BY <4>4
    <3> HIDE DEF Runs
    <3>3. M \in Runs
      <4> HIDE DEF M
      <4> QED BY <2>1, <3>1, <3>2, Climb
    <3> QED BY <3>3 DEF Runs
  <2> DEFINE left == CHOOSE f : Upto(M, f)
  <2>3. Upto(M, left)
    BY <2>2
  <2>4. Settled(s) = left[M]
    BY <1>1, <1>6 DEF Settled, ids
  <2> HIDE DEF left
  <2>5. \A k \in 0..M : left[k] = Body(left, k)
    BY <2>3
  <2> DEFINE Back(k) == {ids[i] : i \in (N + 1 - k)..N}
             Good(k) == /\ Queue(left[k]) /\ TaskIds(left[k]) = TaskIds(s)
                        /\ \A id \in TaskIds(s) :
                             Get(left[k], id) = IF id \in Back(k)
                                                THEN [Get(s, id) EXCEPT !.bucket = "next"]
                                                ELSE Get(s, id)
             Goods == {k \in 0..M : Good(k)}
  <2>6. 0 \in Goods
    <3>1. left[0] = s
      BY <2>1, <2>5
    <3>2. Back(0) = {}
      BY <1>1
    <3> QED BY <2>1, <3>1, <3>2
  <2>7. ASSUME NEW k \in 1..M, k - 1 \in Goods PROVE k \in Goods
    <3> DEFINE id == ids[N + 1 - k]
               old == left[k - 1]
    <3>1. N + 1 - k \in 1..N
      BY <1>1
    <3>2. id \in TaskIds(s) /\ Queue(old) /\ TaskIds(old) = TaskIds(s)
      BY <1>2, <2>7, <3>1
    <3>3. left[k] = Place(old, id, "next", 0)
      BY <2>1, <2>5
    <3>4. /\ Queue(left[k]) /\ TaskIds(left[k]) = TaskIds(s)
          /\ \A x \in TaskIds(s) :
               Get(left[k], x) = IF x = id THEN [Get(old, id) EXCEPT !.bucket = "next"] ELSE Get(old, x)
      <4> HIDE DEF id, old
      <4>1. "next" \in Bucket /\ 0 \in Nat \cup {None} /\ id \in TaskIds(old)
        BY <3>2, BucketAssumption
      <4>2. Queue(left[k]) /\ TaskIds(left[k]) = TaskIds(s)
        BY <3>2, <3>3, <4>1, Placed
      <4>3. \A x \in TaskIds(old) :
              Get(left[k], x) = IF x = id THEN [Get(old, id) EXCEPT !.bucket = "next"] ELSE Get(old, x)
        BY <3>2, <3>3, <4>1, PlacedGet
      <4> QED BY <3>2, <4>2, <4>3
    <3>5. Back(k) = Back(k - 1) \cup {id}
      <4>1. (N + 1 - k)..N = ((N + 1 - (k - 1))..N) \cup {N + 1 - k}
        BY <1>1
      <4> QED BY <4>1
    <3>6. id \notin Back(k - 1)
      BY <1>1, <1>2, <3>1
    <3>7. \A x \in TaskIds(s) :
            Get(old, x) = IF x \in Back(k - 1) THEN [Get(s, x) EXCEPT !.bucket = "next"] ELSE Get(s, x)
      BY <2>7
    <3> HIDE DEF id, old, Back
    <3>8. Good(k)
      BY <3>2, <3>4, <3>5, <3>6, <3>7
    <3> QED BY <2>1, <3>8
  <2>8. M \in Goods
    <3> HIDE DEF M, Goods
    <3> QED BY <2>1, <2>6, <2>7, Climb
  <2>9. ASSUME NEW id \in TaskIds(s)
        PROVE  id \in Back(M) <=> Get(s, id).bucket = "now" /\ id # Current(s)
    <3>1. N + 1 - M = 2
      BY <1>1
    <3>2. CASE Get(s, id).bucket = "now"
      <4>1. PICK i \in 1..N : ids[i] = id
        BY <1>2, <3>2
      <4>2. id # Current(s) <=> i # 1
        BY <1>1, <1>2, <1>3, <1>6, <4>1
      <4>3. id \in Back(M) <=> i \in 2..N
        BY <1>1, <1>2, <3>1, <4>1
      <4> QED BY <3>2, <4>2, <4>3
    <3>3. CASE Get(s, id).bucket # "now"
      BY <1>1, <1>2, <3>1, <3>3
    <3> QED BY <3>2, <3>3
  <2>10. N <= 1 => Settled(s) = s
    BY <1>1, <1>6, <2>1, <2>4, <2>5
  <2> QED BY <2>4, <2>8, <2>9, <2>10 DEF ids
<1> QED BY <1>5, <1>6

\* Tasks that change where they stand, and keep their identities.
LEMMA Mapped ==
  ASSUME NEW s, Queue(s), NEW t, t = [i \in DOMAIN s |-> t[i]],
         \A i \in DOMAIN s : t[i] \in Task /\ t[i].id = s[i].id
  PROVE  /\ Queue(t) /\ TaskIds(t) = TaskIds(s) /\ Len(t) = Len(s)
         /\ \A id \in TaskIds(s) : /\ PositionOf(t, id) = PositionOf(s, id)
                                   /\ Get(t, id) = t[PositionOf(s, id)]
<1>1. Len(s) \in Nat /\ DOMAIN s = 1..Len(s)
  BY TasksOf DEF Queue
<1>2. t \in Seq(Task) /\ Len(t) = Len(s)
  <2>1. t \in [1..Len(s) -> Task]
    BY <1>1
  <2> QED BY <1>1, <2>1, IsASeq, LenProperties
<1>3. Queue(t)
  BY <1>1, <1>2 DEF Queue
<1>4. TaskIds(t) = TaskIds(s)
  BY <1>1, <1>2, TasksOf DEF TaskIds
<1>5. ASSUME NEW id \in TaskIds(s)
      PROVE  PositionOf(t, id) = PositionOf(s, id) /\ Get(t, id) = t[PositionOf(s, id)]
  <2>1. PositionOf(s, id) \in 1..Len(s) /\ s[PositionOf(s, id)].id = id
    BY Found
  <2>2. t[PositionOf(s, id)].id = id
    BY <1>1, <2>1
  <2>3. PositionOf(t, id) = PositionOf(s, id) /\ t[PositionOf(t, id)] = Get(t, id)
    BY <1>2, <1>3, <1>4, <2>1, <2>2, Found
  <2> QED BY <2>3
<1> QED BY <1>2, <1>3, <1>4, <1>5

\* What normalising leaves of a task; `current` is the current one.
Settles(task, current, now) ==
  IF task.id = current
  THEN IF task.started = None THEN [task EXCEPT !.started = now, !.paused = None] ELSE task
  ELSE [task EXCEPT !.bucket = IF task.bucket = "now" THEN "next" ELSE task.bucket,
                    !.started = None, !.paused = None]

LEMMA NormalizedOK ==
  ASSUME NEW s, Queue(s), NEW now \in Nat
  PROVE  LET t == Normalized(s, now)
         IN /\ Queue(t) /\ TaskIds(t) = TaskIds(s) /\ Current(t) = Current(s)
            /\ \A id \in TaskIds(s) : Get(t, id) = Settles(Get(s, id), Current(s), now)
            /\ Len(t) = Len(Settled(s))
            /\ \A i \in 1..Len(t) :
                 /\ t[i].id = Settled(s)[i].id
                 /\ t[i].bucket = Settled(s)[i].bucket
<1> DEFINE u == Settled(s)
           c == Current(u)
           Timed(x) == IF x.id # c THEN [x EXCEPT !.started = None, !.paused = None]
                       ELSE IF x.started = None
                       THEN [x EXCEPT !.started = now, !.paused = None] ELSE x
           t == [i \in DOMAIN u |-> Timed(u[i])]
<1>1. Normalized(s, now) = t
  BY DEF Normalized
<1>2. /\ Queue(u) /\ TaskIds(u) = TaskIds(s)
      /\ \A id \in TaskIds(s) :
           Get(u, id) = IF Get(s, id).bucket = "now" /\ id # Current(s)
                        THEN [Get(s, id) EXCEPT !.bucket = "next"] ELSE Get(s, id)
  BY SettledOK
<1>3. \A id \in TaskIds(s) : Get(s, id) \in Task /\ Get(s, id).id = id
  BY Found
<1> HIDE DEF u
<1>4. c = Current(s)
  <2>1. CASE Current(s) = None
    <3>1. \A id \in TaskIds(u) : Get(u, id).bucket # "now"
      BY <1>2, <2>1, CurrentIs
    <3> QED BY <1>2, <2>1, <3>1, CurrentIs
  <2>2. CASE Current(s) # None
    <3>1. Current(s) \in TaskIds(u) /\ Get(u, Current(s)).bucket = "now"
      BY <1>2, <2>2, CurrentIs
    <3>2. ASSUME NEW x \in TaskIds(u), x # Current(s) PROVE Get(u, x).bucket # "now"
      BY <1>2, <1>3, <3>2 DEF Task
    <3> QED BY <1>2, <3>1, <3>2, CurrentOf
  <2> QED BY <2>1, <2>2
<1>5. ASSUME NEW x \in Task
      PROVE  /\ Timed(x) \in Task /\ Timed(x).id = x.id /\ Timed(x).bucket = x.bucket
  BY DEF Task
<1>6. DOMAIN u = 1..Len(u) /\ \A i \in DOMAIN u : u[i] \in Task
  BY <1>2, TasksOf DEF Queue
<1>7. /\ t = [i \in DOMAIN u |-> t[i]]
      /\ \A i \in DOMAIN u : t[i] \in Task /\ t[i].id = u[i].id /\ t[i].bucket = u[i].bucket
  BY <1>5, <1>6
<1>8. \A i \in DOMAIN u : t[i] = Timed(u[i])
  OBVIOUS
<1> HIDE DEF t
<1>9. /\ Queue(t) /\ TaskIds(t) = TaskIds(s) /\ Len(t) = Len(u)
      /\ \A id \in TaskIds(s) : Get(t, id) = t[PositionOf(u, id)]
  BY <1>2, <1>7, Mapped
<1>10. ASSUME NEW id \in TaskIds(s) PROVE Get(t, id) = Timed(Get(u, id))
  <2>1. PositionOf(u, id) \in DOMAIN u /\ u[PositionOf(u, id)] = Get(u, id)
    BY <1>2, <1>6, Found
  <2> HIDE DEF Timed
  <2> QED BY <1>8, <1>9, <2>1
<1>11. ASSUME NEW id \in TaskIds(s) PROVE Get(t, id) = Settles(Get(s, id), Current(s), now)
  <2>1. Get(s, id) \in Task /\ Get(s, id).id = id
    BY <1>3
  <2> DEFINE g == Get(s, id)
  <2>2. CASE id = Current(s)
    <3>1. Get(u, id) = g
      BY <1>2, <2>2
    <3> QED BY <1>4, <1>10, <2>1, <2>2, <3>1 DEF Settles
  <2>3. CASE id # Current(s)
    <3>1. Get(u, id) = IF g.bucket = "now" THEN [g EXCEPT !.bucket = "next"] ELSE g
      BY <1>2, <2>3
    <3> HIDE DEF g
    <3>2. Get(u, id).id = id
      BY <1>2, Found
    <3>3. Get(t, id) = [Get(u, id) EXCEPT !.started = None, !.paused = None]
      BY <1>4, <1>10, <2>3, <3>2
    <3>4. g \in Task /\ g.id = id
      BY <2>1 DEF g
    <3>5. Settles(g, Current(s), now)
            = [g EXCEPT !.bucket = IF g.bucket = "now" THEN "next" ELSE g.bucket,
                        !.started = None, !.paused = None]
      BY <2>3, <3>4 DEF Settles
    <3> QED BY <3>1, <3>3, <3>4, <3>5 DEF Task, g
  <2> QED BY <2>2, <2>3
<1>12. Current(t) = Current(s)
  <2>1. ASSUME NEW id \in TaskIds(s)
        PROVE  Get(t, id).bucket = "now" <=> id = Current(s) /\ Get(s, id).bucket = "now"
    <3> DEFINE g == Get(s, id)
    <3>1. g \in Task /\ g.id = id /\ Get(t, id) = Settles(g, Current(s), now)
      BY <1>3, <1>11
    <3> HIDE DEF g
    <3>2. Get(t, id).bucket = "now" <=> id = Current(s) /\ g.bucket = "now"
      BY <3>1 DEF Settles, Task
    <3> QED BY <3>2 DEF g
  <2>2. CASE Current(s) = None
    <3>1. \A id \in TaskIds(t) : Get(t, id).bucket # "now"
      BY <1>9, <2>1, <2>2, CurrentIs
    <3> QED BY <1>9, <2>2, <3>1, CurrentIs
  <2>3. CASE Current(s) # None
    <3>1. Current(s) \in TaskIds(t) /\ Get(t, Current(s)).bucket = "now"
      BY <1>9, <2>1, <2>3, CurrentIs
    <3>2. \A x \in TaskIds(t) : Get(t, x).bucket = "now" => x = Current(s)
      BY <1>9, <2>1
    <3> QED BY <1>9, <3>1, <3>2, CurrentOf
  <2> QED BY <2>2, <2>3
<1> QED BY <1>1, <1>6, <1>7, <1>9, <1>11, <1>12 DEF u

(***************************************************************************)
(* Requests                                                                *)
(***************************************************************************)
Held(s) == s \in Store /\ Queue(s.tasks) /\ \A id \in TaskIds(s.tasks) : id < s.next

\* Only the current task has a timer, and only it is in Now.
Tidy(tasks) ==
  \A id \in TaskIds(tasks) :
    /\ (Get(tasks, id).started # None) <=> (Get(tasks, id).bucket = "now")
    /\ Get(tasks, id).paused # None => Get(tasks, id).started # None
    /\ Get(tasks, id).bucket = "now" => id = Current(tasks)

\* A timer is paused by this time, or as it starts.
By(task, time) ==
  task.started # None /\ task.paused # None =>
    task.paused <= time \/ task.paused <= task.started
Past(tasks, time) == \A id \in TaskIds(tasks) : By(Get(tasks, id), time)

Fine(s, now) == Held(s) /\ Tidy(s.tasks) /\ Past(s.tasks, now)

\* Tasks of both queues have the same timers.
SameTimers(s, t) ==
  \A id \in TaskIds(s) \cap TaskIds(t) :
    Get(t, id).started = Get(s, id).started /\ Get(t, id).paused = Get(s, id).paused

\* A task that stays current keeps its time.
SameTime(s, t, now) ==
  Current(s) # None /\ Current(t) = Current(s) =>
    Elapsed(Get(t, Current(s)), now) = Elapsed(Get(s, Current(s)), now)

\* What any change makes of a queue; `more` are the identities that may come in.
Steps(s, t, more, now) ==
  /\ Fine(t, now) /\ t.next >= s.next
  /\ TaskIds(t.tasks) \subseteq TaskIds(s.tasks) \cup more
  /\ SameTime(s.tasks, t.tasks, now)

LEMMA Resettled ==
  ASSUME NEW u, Queue(u), NEW now \in Nat, Past(u, now)
  PROVE  LET t == Normalized(u, now)
         IN /\ Queue(t) /\ TaskIds(t) = TaskIds(u) /\ Tidy(t) /\ Past(t, now)
            /\ \A s : Queue(s) /\ Tidy(s) /\ SameTimers(s, u) => SameTime(s, t, now)
<1> DEFINE t == Normalized(u, now)
<1>1. /\ Queue(t) /\ TaskIds(t) = TaskIds(u) /\ Current(t) = Current(u)
      /\ \A id \in TaskIds(u) : Get(t, id) = Settles(Get(u, id), Current(u), now)
  BY NormalizedOK
<1> HIDE DEF t
<1>2. ASSUME NEW id \in TaskIds(u)
      PROVE  Get(u, id) \in Task /\ Get(u, id).id = id /\ By(Get(u, id), now)
  BY Found DEF Past
<1>3. None \notin Nat
  BY AbsentAssumption
<1>4. ASSUME NEW id \in TaskIds(u)
      PROVE  /\ (Get(t, id).started # None) <=> (Get(t, id).bucket = "now")
             /\ Get(t, id).paused # None => Get(t, id).started # None
             /\ Get(t, id).bucket = "now" => id = Current(t)
             /\ By(Get(t, id), now)
  <2> DEFINE g == Get(u, id)
             h == Get(t, id)
  <2>1. /\ h = Settles(g, Current(u), now) /\ g \in Task /\ g.id = id /\ By(g, now)
    BY <1>1, <1>2
  <2>2. id = Current(u) => g.bucket = "now"
    BY <1>2, CurrentIs
  <2> HIDE DEF g, h
  <2>3. CASE id = Current(u) /\ g.started = None
    <3>1. h = [g EXCEPT !.started = now, !.paused = None]
      BY <2>1, <2>3 DEF Settles
    <3>2. h.started = now /\ h.paused = None /\ h.bucket = "now"
      BY <2>1, <2>2, <2>3, <3>1 DEF Task
    <3> QED BY <1>1, <1>3, <2>3, <3>2 DEF By, h
  <2>4. CASE id = Current(u) /\ g.started # None
    <3>1. h = g
      BY <2>1, <2>4 DEF Settles
    <3> QED BY <1>1, <2>1, <2>2, <2>4, <3>1 DEF h
  <2>5. CASE id # Current(u)
    <3>1. h = [g EXCEPT !.bucket = IF g.bucket = "now" THEN "next" ELSE g.bucket,
                        !.started = None, !.paused = None]
      BY <2>1, <2>5 DEF Settles
    <3>2. h.started = None /\ h.paused = None /\ h.bucket # "now"
      BY <2>1, <3>1 DEF Task
    <3> QED BY <3>2 DEF By, h
  <2> QED BY <2>3, <2>4, <2>5
<1>5. Tidy(t) /\ Past(t, now)
  BY <1>1, <1>4 DEF Tidy, Past
<1>6. ASSUME NEW s, Queue(s), Tidy(s), SameTimers(s, u), Current(s) # None, Current(t) = Current(s)
      PROVE  Elapsed(Get(t, Current(s)), now) = Elapsed(Get(s, Current(s)), now)
  <2> DEFINE c == Current(s)
             g == Get(u, c)
  <2>1. c \in TaskIds(s) /\ Get(s, c).bucket = "now"
    BY <1>6, CurrentIs
  <2>2. c \in TaskIds(u) /\ c = Current(u)
    BY <1>1, <1>6, CurrentIs
  <2>3. g.started = Get(s, c).started /\ g.paused = Get(s, c).paused /\ Get(s, c).started # None
    BY <1>6, <2>1, <2>2 DEF SameTimers, Tidy
  <2>4. Get(t, c) = g
    <3> HIDE DEF g, c
    <3>1. Get(t, c) = Settles(g, c, now) /\ g.id = c
      BY <1>1, <1>2, <2>2 DEF g
    <3> QED BY <2>3, <3>1 DEF Settles
  <2> QED BY <2>3, <2>4 DEF Elapsed
<1> QED BY <1>1, <1>5, <1>6 DEF t, SameTime

\* A queue a request makes, before it is normalised.
Made(s, u, n, more, now) ==
  /\ Queue(u) /\ Past(u, now) /\ SameTimers(s.tasks, u)
  /\ n \in Nat /\ n >= s.next /\ \A id \in TaskIds(u) : id < n
  /\ TaskIds(u) \subseteq TaskIds(s.tasks) \cup more

LEMMA Changed ==
  ASSUME NEW now \in Nat, NEW s, Fine(s, now), NEW u, NEW n, NEW more, Made(s, u, n, more, now)
  PROVE  /\ Steps(s, [next |-> n, tasks |-> Normalized(u, now)], more, now)
         /\ n = s.next => [s EXCEPT !.tasks = Normalized(u, now)]
                            = [next |-> n, tasks |-> Normalized(u, now)]
<1> DEFINE t == Normalized(u, now)
           new == [next |-> n, tasks |-> t]
<1>1. /\ Queue(t) /\ TaskIds(t) = TaskIds(u) /\ Tidy(t) /\ Past(t, now)
      /\ SameTime(s.tasks, t, now)
  BY Resettled DEF Fine, Held, Made
<1> HIDE DEF t
<1>2. new.next = n /\ new.tasks = t
  OBVIOUS
<1>3. t \in Seq(Task)
  BY <1>1 DEF Queue
<1>4. new \in Store
  BY <1>3 DEF Store, Made
<1>5. n = s.next => [s EXCEPT !.tasks = t] = new
  BY DEF Fine, Held, Store
<1> HIDE DEF new
<1>6. Steps(s, new, more, now)
  BY <1>1, <1>2, <1>4 DEF Steps, Fine, Held, Made
<1> QED BY <1>5, <1>6 DEF new, t

\* The pieces of a request: a task goes, comes in, is put elsewhere.
Rest(s, u, now) ==
  /\ Queue(u) /\ Past(u, now) /\ SameTimers(s, u) /\ TaskIds(u) \subseteq TaskIds(s)

LEMMA TakenOut ==
  ASSUME NEW s, Queue(s), NEW now, Past(s, now), NEW id \in TaskIds(s)
  PROVE  LET u == Sq!RemoveAt(s, PositionOf(s, id))
         IN /\ Rest(s, u, now) /\ TaskIds(u) = TaskIds(s) \ {id}
            /\ \A x \in TaskIds(u) : Get(u, x) = Get(s, x)
<1> DEFINE u == Sq!RemoveAt(s, PositionOf(s, id))
<1>1. /\ Queue(u) /\ TaskIds(u) = TaskIds(s) \ {id}
      /\ \A x \in TaskIds(u) : Get(u, x) = Get(s, x)
  BY OutOf
<1> HIDE DEF u
<1> QED BY <1>1 DEF Rest, Past, SameTimers, u

LEMMA PutElsewhere ==
  ASSUME NEW s, Queue(s), NEW now, Past(s, now), NEW id \in TaskIds(s),
         NEW b \in Bucket, NEW index \in Nat \cup {None}
  PROVE  Rest(s, Place(s, id, b, index), now) /\ TaskIds(Place(s, id, b, index)) = TaskIds(s)
<1> DEFINE u == Place(s, id, b, index)
<1>1. Queue(u) /\ TaskIds(u) = TaskIds(s)
  BY Placed
<1>2. ASSUME NEW x \in TaskIds(s)
      PROVE  Get(u, x).started = Get(s, x).started /\ Get(u, x).paused = Get(s, x).paused
  <2>1. Get(u, x) = IF x = id THEN [Get(s, id) EXCEPT !.bucket = b] ELSE Get(s, x)
    BY PlacedGet
  <2>2. Get(s, x) \in Task
    BY Found
  <2> HIDE DEF u
  <2> QED BY <2>1, <2>2 DEF Task
<1> HIDE DEF u
<1>3. Past(u, now) /\ SameTimers(s, u)
  BY <1>1, <1>2 DEF Past, By, SameTimers
<1> QED BY <1>1, <1>3 DEF Rest, u

LEMMA ComesIn ==
  ASSUME NEW s, Queue(s), NEW now, Past(s, now), NEW e \in Task, By(e, now),
         e.id \notin TaskIds(s), NEW t, Queue(t), Entries(t) = Entries(s) \cup {e}
  PROVE  /\ Past(t, now) /\ SameTimers(s, t) /\ TaskIds(t) = TaskIds(s) \cup {e.id}
         /\ Get(t, e.id) = e /\ \A x \in TaskIds(s) : Get(t, x) = Get(s, x)
<1>1. /\ TaskIds(t) = TaskIds(s) \cup {e.id}
      /\ Get(t, e.id) = e /\ \A x \in TaskIds(s) : Get(t, x) = Get(s, x)
  BY CameIn
<1> QED BY <1>1 DEF Past, SameTimers

LEMMA RestAgain ==
  ASSUME NEW s, NEW u, NEW v, NEW now, Rest(s, u, now), Rest(u, v, now)
  PROVE  Rest(s, v, now)
BY DEF Rest, SameTimers

\* A request that only takes out and puts elsewhere.
LEMMA ChangedRest ==
  ASSUME NEW now \in Nat, NEW s, Fine(s, now), NEW u, Rest(s.tasks, u, now)
  PROVE  Steps(s, [s EXCEPT !.tasks = Normalized(u, now)], {}, now)
<1>1. s.next \in Nat /\ s.next >= s.next /\ \A id \in TaskIds(u) : id < s.next
  BY DEF Fine, Held, Store, Rest
<1>2. TaskIds(u) \subseteq TaskIds(s.tasks) \cup {}
  BY DEF Rest
<1>3. Made(s, u, s.next, {}, now)
  BY <1>1, <1>2 DEF Made, Rest
<1> DEFINE new == [next |-> s.next, tasks |-> Normalized(u, now)]
<1>4. Steps(s, new, {}, now) /\ [s EXCEPT !.tasks = Normalized(u, now)] = new
  BY <1>3, Changed
<1> HIDE DEF new
<1> QED BY <1>4

LEMMA Unchanged ==
  ASSUME NEW s, NEW now, Fine(s, now)
  PROVE  Steps(s, s, {}, now)
BY DEF Steps, Fine, Held, Store, SameTime

LEMMA FineFacts ==
  ASSUME NEW s, NEW now, Fine(s, now)
  PROVE  /\ s.next \in Nat /\ s.tasks \in Seq(Task) /\ Queue(s.tasks)
         /\ Tidy(s.tasks) /\ Past(s.tasks, now) /\ Rest(s.tasks, s.tasks, now)
         /\ \A id \in TaskIds(s.tasks) : id < s.next
BY DEF Fine, Held, Store, Rest, SameTimers

LEMMA AddSteps ==
  ASSUME NEW now \in Nat, NEW s, Fine(s, now), NEW title \in Title, NEW bucket \in Bucket,
         NEW tag \in Tag \cup {None}
  PROVE  Steps(s, Add(s, title, bucket, tag, now), {s.next}, now)
<1> DEFINE e == [id |-> s.next, title |-> title, bucket |-> bucket, tag |-> tag,
                 started |-> None, paused |-> None]
           pushed == Append(s.tasks, e)
           placed == IF bucket = "now" THEN Place(pushed, s.next, "now", 0) ELSE pushed
<1>1. /\ s.next \in Nat /\ Queue(s.tasks) /\ Past(s.tasks, now) /\ s.tasks \in Seq(Task)
      /\ \A id \in TaskIds(s.tasks) : id < s.next
  BY FineFacts
<1>2. e \in Task /\ e.id = s.next /\ By(e, now)
  BY <1>1 DEF Task, By
<1>3. s.next \notin TaskIds(s.tasks)
  BY <1>1
<1>4. Add(s, title, bucket, tag, now) = [next |-> s.next + 1, tasks |-> Normalized(placed, now)]
  BY DEF Add
<1> HIDE DEF e
<1>5. /\ pushed \in Seq(Task) /\ Len(pushed) = Len(s.tasks) + 1 /\ Len(s.tasks) \in Nat
      /\ \A i \in 1..Len(s.tasks) : pushed[i] = s.tasks[i]
      /\ pushed[Len(s.tasks) + 1] = e
  BY <1>1, <1>2, AppendProperties, LenProperties
<1> HIDE DEF pushed
<1>6. Queue(pushed)
  <2>1. \A i \in 1..Len(s.tasks) : pushed[i].id # s.next
    BY <1>1, <1>3, <1>5, TasksOf DEF TaskIds
  <2>2. \A i \in 1..Len(pushed) : i \in 1..Len(s.tasks) \/ i = Len(s.tasks) + 1
    BY <1>5
  <2>3. \A i, j \in 1..Len(s.tasks) : pushed[i].id = pushed[j].id => i = j
    BY <1>1, <1>5 DEF Queue
  <2> QED BY <1>2, <1>5, <2>1, <2>2, <2>3 DEF Queue
<1>7. Entries(pushed) = Entries(s.tasks) \cup {e}
  <2>1. \A i \in 1..Len(pushed) : i \in 1..Len(s.tasks) \/ i = Len(s.tasks) + 1
    BY <1>5
  <2>2. \A i \in 1..Len(s.tasks) : i \in 1..Len(pushed)
    BY <1>5
  <2>3. Len(s.tasks) + 1 \in 1..Len(pushed)
    BY <1>5
  <2> QED BY <1>5, <2>1, <2>2, <2>3 DEF Entries
<1>8. /\ Past(pushed, now) /\ SameTimers(s.tasks, pushed)
      /\ TaskIds(pushed) = TaskIds(s.tasks) \cup {s.next}
  BY <1>1, <1>2, <1>3, <1>6, <1>7, ComesIn
<1>9. Rest(pushed, placed, now) /\ TaskIds(placed) = TaskIds(pushed)
  <2>1. CASE bucket = "now"
    <3>1. s.next \in TaskIds(pushed) /\ "now" \in Bucket /\ 0 \in Nat \cup {None}
      BY <1>8, BucketAssumption
    <3> QED BY <1>6, <1>8, <2>1, <3>1, PutElsewhere
  <2>2. CASE bucket # "now"
    BY <1>6, <1>8, <2>2 DEF Rest, SameTimers
  <2> QED BY <2>1, <2>2
<1> HIDE DEF placed
<1>10. Queue(placed) /\ Past(placed, now) /\ SameTimers(s.tasks, placed)
  BY <1>8, <1>9 DEF Rest, SameTimers
<1>11. s.next + 1 \in Nat /\ s.next + 1 >= s.next /\ \A id \in TaskIds(placed) : id < s.next + 1
  <2>1. \A id \in TaskIds(s.tasks) : id \in Nat
    <3>1. \A id \in TaskIds(s.tasks) : Get(s.tasks, id) \in Task /\ Get(s.tasks, id).id = id
      BY <1>1, Found
    <3>2. \A x \in Task : x.id \in Nat
      BY DEF Task
    <3> QED BY <3>1, <3>2
  <2> QED BY <1>1, <1>8, <1>9, <2>1
<1>12. TaskIds(placed) \subseteq TaskIds(s.tasks) \cup {s.next}
  BY <1>8, <1>9
<1>13. Made(s, placed, s.next + 1, {s.next}, now)
  BY <1>10, <1>11, <1>12 DEF Made
<1> DEFINE new == [next |-> s.next + 1, tasks |-> Normalized(placed, now)]
<1>14. Steps(s, new, {s.next}, now)
  <2> DEFINE n == s.next + 1
  <2>1. Made(s, placed, n, {s.next}, now)
    BY <1>13
  <2> HIDE DEF n
  <2>2. Steps(s, [next |-> n, tasks |-> Normalized(placed, now)], {s.next}, now)
    BY <2>1, Changed
  <2> QED BY <2>2 DEF n
<1> QED BY <1>4, <1>14

LEMMA RemoveSteps ==
  ASSUME NEW now \in Nat, NEW s, Fine(s, now), NEW id \in TaskIds(s.tasks)
  PROVE  Steps(s, Remove(s, id, now), {}, now)
<1>1. Rest(s.tasks, Sq!RemoveAt(s.tasks, PositionOf(s.tasks, id)), now)
  BY FineFacts, TakenOut
<1> QED BY <1>1, ChangedRest DEF Remove

LEMMA HeadOfOK ==
  ASSUME NEW s, Queue(s), NEW b
  PROVE  HeadOf(s, b) = None \/ (HeadOf(s, b) \in TaskIds(s) /\ Get(s, HeadOf(s, b)).bucket = b)
<1> DEFINE there == In(s, b)
<1>1. CASE there = <<>>
  BY <1>1 DEF HeadOf
<1>2. CASE there # <<>>
  <2>1. HeadOf(s, b) = there[1].id
    BY <1>2 DEF HeadOf
  <2>2. there[1] \in Entries(there)
    BY <1>2, InHas DEF Entries
  <2>3. there[1] \in Entries(s) /\ there[1].bucket = b
    BY <2>2, InHas
  <2> HIDE DEF there
  <2>4. there[1].id \in TaskIds(s)
    BY <2>3, TasksOf DEF Queue
  <2> QED BY <2>1, <2>3, <2>4, Found
<1> QED BY <1>1, <1>2

LEMMA CompleteSteps ==
  ASSUME NEW now \in Nat, NEW s, Fine(s, now), NEW id \in TaskIds(s.tasks)
  PROVE  Steps(s, Complete(s, id, now), {}, now)
<1> DEFINE pulled == Completion(s, id).pulled
           rest == Sq!RemoveAt(s.tasks, PositionOf(s.tasks, id))
           filled == IF pulled = None THEN rest ELSE Place(rest, pulled, "now", 0)
<1>1. Rest(s.tasks, rest, now)
  BY FineFacts, TakenOut
<1>2. pulled = None \/ pulled = HeadOf(rest, "next")
  BY DEF Completion
<1>3. Complete(s, id, now) = [s EXCEPT !.tasks = Normalized(filled, now)]
  BY DEF Complete
<1> HIDE DEF rest, pulled
<1>4. Rest(s.tasks, filled, now)
  <2>1. CASE pulled = None
    BY <1>1, <2>1
  <2>2. CASE pulled # None
    <3>1. pulled \in TaskIds(rest) /\ "now" \in Bucket /\ 0 \in Nat \cup {None}
      BY <1>1, <1>2, <2>2, HeadOfOK, BucketAssumption DEF Rest
    <3>2. Rest(rest, filled, now)
      BY <1>1, <2>2, <3>1, PutElsewhere DEF Rest
    <3> QED BY <1>1, <3>2, RestAgain
  <2> QED BY <2>1, <2>2
<1> QED BY <1>3, <1>4, ChangedRest

\* A completion that can be undone: of a task that was here, with what it pulled.
Record(c, s, now) ==
  /\ c.task \in Task /\ By(c.task, now) /\ c.task.id < s.next
  /\ c.index \in Nat \ {0} /\ c.pulled \in Nat \cup {None}

LEMMA UndoSteps ==
  ASSUME NEW now \in Nat, NEW s, Fine(s, now), NEW c, Record(c, s, now)
  PROVE  Steps(s, UndoComplete(s, c, now), {c.task.id}, now)
<1> DEFINE inNow == c.pulled \in TaskIds(s.tasks) /\ Get(s.tasks, c.pulled).bucket = "now"
           freed == IF c.pulled # None /\ inNow
                    THEN Place(s.tasks, c.pulled, "next", 0) ELSE s.tasks
           at == IF c.index > Len(freed) THEN Len(freed) + 1 ELSE c.index
           u == Sq!InsertAt(freed, at, c.task)
<1>1. CASE c.task.id \in TaskIds(s.tasks)
  <2>1. UndoComplete(s, c, now) = s
    BY <1>1 DEF UndoComplete
  <2> QED BY <2>1, Unchanged DEF Steps
<1>2. CASE c.task.id \notin TaskIds(s.tasks)
  <2>1. UndoComplete(s, c, now) = [s EXCEPT !.tasks = Normalized(u, now)]
    BY <1>2 DEF UndoComplete
  <2>2. Rest(s.tasks, freed, now) /\ TaskIds(freed) = TaskIds(s.tasks)
    <3>1. CASE c.pulled # None /\ inNow
      <4>1. "next" \in Bucket /\ 0 \in Nat \cup {None}
        BY BucketAssumption
      <4> QED BY <3>1, <4>1, FineFacts, PutElsewhere
    <3>2. CASE ~(c.pulled # None /\ inNow)
      BY <3>2, FineFacts
    <3> QED BY <3>1, <3>2
  <2> HIDE DEF freed
  <2>3. Queue(freed) /\ Past(freed, now) /\ SameTimers(s.tasks, freed)
    BY <2>2 DEF Rest
  <2>4. at \in 1..(Len(freed) + 1)
    BY <2>3, TasksOf DEF Record, Queue
  <2> HIDE DEF at
  <2>5. Queue(u) /\ Entries(u) = Entries(freed) \cup {c.task}
    BY <1>2, <2>2, <2>3, <2>4, QueueWith DEF Record
  <2> HIDE DEF u
  <2>6. /\ Past(u, now) /\ SameTimers(freed, u)
        /\ TaskIds(u) = TaskIds(freed) \cup {c.task.id}
    BY <1>2, <2>2, <2>3, <2>5, ComesIn DEF Record
  <2>7. SameTimers(s.tasks, u)
    BY <1>2, <2>2, <2>3, <2>6 DEF SameTimers
  <2>8. s.next \in Nat /\ s.next >= s.next /\ \A id \in TaskIds(u) : id < s.next
    BY <2>2, <2>6, FineFacts DEF Record
  <2>9. TaskIds(u) \subseteq TaskIds(s.tasks) \cup {c.task.id}
    BY <2>2, <2>6
  <2>10. Made(s, u, s.next, {c.task.id}, now)
    BY <2>5, <2>6, <2>7, <2>8, <2>9 DEF Made
  <2> DEFINE new == [next |-> s.next, tasks |-> Normalized(u, now)]
  <2>11. Steps(s, new, {c.task.id}, now) /\ [s EXCEPT !.tasks = Normalized(u, now)] = new
    BY <2>10, Changed
  <2> HIDE DEF new
  <2> QED BY <2>1, <2>11
<1> QED BY <1>1, <1>2

LEMMA MoveSteps ==
  ASSUME NEW now \in Nat, NEW s, Fine(s, now), NEW id \in TaskIds(s.tasks), NEW bucket \in Bucket,
         NEW index \in Nat \cup {None}
  PROVE  Steps(s, MoveTo(s, id, bucket, index, now), {}, now)
<1>1. CASE bucket = "now" /\ Current(s.tasks) = id
  BY <1>1, Unchanged DEF MoveTo
<1>2. CASE ~(bucket = "now" /\ Current(s.tasks) = id)
  <2> DEFINE i == IF bucket = "now" THEN 0 ELSE index
             u == Place(s.tasks, id, bucket, i)
  <2>1. MoveTo(s, id, bucket, index, now) = [s EXCEPT !.tasks = Normalized(u, now)]
    BY <1>2 DEF MoveTo
  <2>2. i \in Nat \cup {None}
    OBVIOUS
  <2>3. Rest(s.tasks, u, now)
    BY <2>2, FineFacts, PutElsewhere
  <2> QED BY <2>1, <2>3, ChangedRest
<1> QED BY <1>1, <1>2

LEMMA DropSteps ==
  ASSUME NEW now \in Nat, NEW s, Fine(s, now), NEW id \in TaskIds(s.tasks), NEW bucket \in Bucket,
         NEW row
  PROVE  Steps(s, MoveBefore(s, id, bucket, row, now), {}, now)
<1> DEFINE rest == Sq!RemoveAt(s.tasks, PositionOf(s.tasks, id))
           there == IdsIn(rest, bucket)
           i == (CHOOSE i \in DOMAIN there : there[i] = row) - 1
<1>1. CASE row = None
  <2>1. None \in Nat \cup {None}
    OBVIOUS
  <2> QED BY <1>1, <2>1, MoveSteps DEF MoveBefore
<1>2. CASE row # None /\ (row \notin Sq!ToSet(IdsIn(s.tasks, bucket)) \/ row = id)
  BY <1>2, Unchanged DEF MoveBefore
<1>3. CASE row # None /\ ~(row \notin Sq!ToSet(IdsIn(s.tasks, bucket)) \/ row = id)
  <2>1. MoveBefore(s, id, bucket, row, now) = MoveTo(s, id, bucket, i, now)
    BY <1>3 DEF MoveBefore
  <2>2. \E k \in DOMAIN there : there[k] = row
    <3>1. /\ Queue(s.tasks) /\ Queue(rest) /\ TaskIds(rest) = TaskIds(s.tasks) \ {id}
          /\ \A x \in TaskIds(rest) : Get(rest, x) = Get(s.tasks, x)
      BY FineFacts, TakenOut DEF Rest
    <3>2. PICK k \in DOMAIN IdsIn(s.tasks, bucket) : IdsIn(s.tasks, bucket)[k] = row
      BY <1>3 DEF Sq!ToSet
    <3> DEFINE t == In(s.tasks, bucket)[k]
    <3>3. k \in 1..Len(In(s.tasks, bucket)) /\ row = t.id
      BY <3>1, <3>2, IdsInAre
    <3>4. t \in Entries(s.tasks) /\ t.bucket = bucket
      BY <3>1, <3>3, InHas DEF Entries
    <3> HIDE DEF t, rest
    <3>5. row \in TaskIds(s.tasks) /\ Get(s.tasks, row) = t
      <4>1. row \in TaskIds(s.tasks)
        <5>1. s.tasks \in Seq(Task)
          BY <3>1 DEF Queue
        <5>2. TaskIds(s.tasks) = {x.id : x \in Entries(s.tasks)}
          BY <5>1, TasksOf
        <5> QED BY <3>3, <3>4, <5>2
      <4> QED BY <3>1, <3>3, <3>4, <4>1, Found
    <3>6. row \in TaskIds(rest) /\ Get(rest, row) = t
      BY <1>3, <3>1, <3>5
    <3>7. t \in Entries(rest)
      BY <3>1, <3>6, Found
    <3>8. t \in Entries(In(rest, bucket))
      BY <3>1, <3>4, <3>7, InHas
    <3>9. PICK j \in 1..Len(In(rest, bucket)) : In(rest, bucket)[j] = t
      BY <3>8 DEF Entries
    <3>10. there[j] = row /\ j \in DOMAIN there
      BY <3>1, <3>3, <3>9, IdsInAre
    <3> QED BY <3>10
  <2>3. DOMAIN there \subseteq Nat \ {0}
    <3>1. Queue(rest)
      BY FineFacts, TakenOut DEF Rest
    <3>2. Len(In(rest, bucket)) \in Nat /\ DOMAIN there = 1..Len(In(rest, bucket))
      BY <3>1, IdsInAre, InHas
    <3> QED BY <3>2
  <2> HIDE DEF there
  <2>4. i \in Nat
    BY <2>2, <2>3
  <2> QED BY <2>1, <2>4, MoveSteps
<1> QED BY <1>1, <1>2, <1>3

\* The place of a task in its bucket.
LEMMA ShiftSteps ==
  ASSUME NEW now \in Nat, NEW s, Fine(s, now), NEW id \in TaskIds(s.tasks), NEW delta \in {-1, 1}
  PROVE  Steps(s, Shift(s, id, delta, now), {}, now)
<1> DEFINE bucket == Get(s.tasks, id).bucket
           there == IdsIn(s.tasks, bucket)
           i == CHOOSE i \in DOMAIN there : there[i] = id
           target == IF i + delta < 1 THEN 1
                     ELSE IF i + delta > Len(there) THEN Len(there) ELSE i + delta
<1>1. Shift(s, id, delta, now)
        = IF target = i THEN s ELSE MoveTo(s, id, bucket, target - 1, now)
  BY DEF Shift
<1>2. CASE target = i
  BY <1>1, <1>2, Unchanged
<1>3. CASE target # i
  <2>1. Queue(s.tasks)
    BY FineFacts
  <2>2. Get(s.tasks, id) \in Entries(s.tasks) /\ Get(s.tasks, id).id = id /\ Get(s.tasks, id) \in Task
    BY <2>1, Found
  <2>3. bucket \in Bucket
    BY <2>2 DEF Task
  <2>4. Get(s.tasks, id) \in Entries(In(s.tasks, bucket))
    <3>1. Entries(In(s.tasks, bucket)) = {x \in Entries(s.tasks) : x.bucket = bucket}
      BY <2>1, InHas
    <3> QED BY <2>2, <3>1
  <2> HIDE DEF bucket
  <2>5. PICK k \in 1..Len(In(s.tasks, bucket)) : In(s.tasks, bucket)[k] = Get(s.tasks, id)
    BY <2>4 DEF Entries
  <2>6. /\ Len(there) = Len(In(s.tasks, bucket)) /\ DOMAIN there = 1..Len(In(s.tasks, bucket))
        /\ Len(In(s.tasks, bucket)) \in Nat /\ there[k] = id
    BY <2>1, <2>2, <2>5, IdsInAre, InHas
  <2> HIDE DEF there
  <2>7. i \in 1..Len(there) /\ Len(there) \in Nat
    BY <2>5, <2>6
  <2> HIDE DEF i
  <2>8. target - 1 \in Nat
    BY <2>7
  <2> HIDE DEF target
  <2>9. target - 1 \in Nat \cup {None}
    BY <2>8
  <2> DEFINE index == target - 1
  <2>10. index \in Nat \cup {None}
    BY <2>9
  <2>11. Shift(s, id, delta, now) = MoveTo(s, id, bucket, index, now)
    BY <1>1, <1>3
  <2> HIDE DEF index
  <2> QED BY <2>3, <2>10, <2>11, MoveSteps
<1> QED BY <1>2, <1>3

\* A request that changes one task and leaves it where it is.
LEMMA RewrittenSteps ==
  ASSUME NEW now \in Nat, NEW s, Fine(s, now), NEW id \in TaskIds(s.tasks), NEW e \in Task,
         LET g == Get(s.tasks, id)
         IN /\ e.id = id /\ e.bucket = g.bucket /\ By(e, now)
            /\ (e.started # None) = (g.started # None)
            /\ e.paused # None => e.started # None
            /\ id = Current(s.tasks) => Elapsed(e, now) = Elapsed(g, now)
  PROVE  Steps(s, [s EXCEPT !.tasks = [@ EXCEPT ![PositionOf(s.tasks, id)] = e]], {}, now)
<1> DEFINE q == s.tasks
           p == PositionOf(q, id)
           t == [q EXCEPT ![p] = e]
           new == [s EXCEPT !.tasks = t]
<1>1. /\ s \in Store /\ q \in Seq(Task) /\ Queue(q) /\ Tidy(q) /\ Past(q, now)
      /\ \A x \in TaskIds(q) : x < s.next
  BY FineFacts DEF Fine, Held
<1>2. p \in 1..Len(q) /\ q[p] = Get(q, id) /\ DOMAIN q = 1..Len(q)
      /\ \A i \in 1..Len(q) : q[i] \in Task
  BY <1>1, Found, TasksOf
<1>3. /\ t = [i \in DOMAIN q |-> t[i]]
      /\ \A i \in DOMAIN q : t[i] = IF i = p THEN e ELSE q[i]
  BY <1>2
<1>4. new.tasks = t /\ new.next = s.next /\ new = [next |-> s.next, tasks |-> t]
  BY <1>1 DEF Store
<1>5. q[p].id = id
  BY <1>1, <1>2, Found
<1> HIDE DEF t, p, q, new
<1>6. \A i \in DOMAIN q : t[i] \in Task /\ t[i].id = q[i].id
  BY <1>2, <1>3, <1>5
<1>7. /\ Queue(t) /\ TaskIds(t) = TaskIds(q)
      /\ \A x \in TaskIds(q) : Get(t, x) = t[PositionOf(q, x)]
  BY <1>1, <1>3, <1>6, Mapped
<1>8. ASSUME NEW x \in TaskIds(q)
      PROVE  Get(t, x) = IF x = id THEN e ELSE Get(q, x)
  <2>1. PositionOf(q, x) \in DOMAIN q /\ q[PositionOf(q, x)] = Get(q, x) /\ Get(q, x).id = x
    BY <1>1, <1>2, Found
  <2>2. PositionOf(q, x) = p <=> x = id
    BY <1>2, <1>5, <2>1 DEF p
  <2> QED BY <1>3, <1>7, <2>1, <2>2
<1>9. Get(q, id) = Get(s.tasks, id) /\ id \in TaskIds(q)
  BY DEF q
<1>10. \A x \in TaskIds(q) : Get(t, x).bucket = Get(q, x).bucket
  BY <1>8, <1>9
<1>11. Current(t) = Current(q)
  <2>1. CASE Current(q) = None
    <3>1. \A x \in TaskIds(t) : Get(t, x).bucket # "now"
      BY <1>1, <1>7, <1>10, <2>1, CurrentIs
    <3> QED BY <1>7, <2>1, <3>1, CurrentIs
  <2>2. CASE Current(q) # None
    <3>1. Current(q) \in TaskIds(t) /\ Get(t, Current(q)).bucket = "now"
      BY <1>1, <1>7, <1>10, <2>2, CurrentIs
    <3>2. \A x \in TaskIds(t) : Get(t, x).bucket = "now" => x = Current(q)
      BY <1>1, <1>7, <1>10 DEF Tidy
    <3> QED BY <1>7, <3>1, <3>2, CurrentOf
  <2> QED BY <2>1, <2>2
<1>12. Tidy(t)
  BY <1>1, <1>7, <1>8, <1>9, <1>11 DEF Tidy
<1>13. Past(t, now)
  BY <1>1, <1>7, <1>8 DEF Past
<1>14. SameTime(q, t, now)
  <2>1. Current(q) # None => Current(q) \in TaskIds(q)
    BY <1>1, CurrentIs
  <2>2. id = Current(q) => Elapsed(e, now) = Elapsed(Get(q, id), now)
    BY DEF q
  <2> QED BY <1>8, <2>1, <2>2 DEF SameTime
<1>15. t \in Seq(Task) /\ s.next \in Nat
  BY <1>1, <1>7 DEF Queue, Store
<1>16. new \in Store
  BY <1>4, <1>15 DEF Store
<1>17. Steps(s, new, {}, now)
  BY <1>1, <1>4, <1>7, <1>12, <1>13, <1>14, <1>15, <1>16 DEF Steps, Fine, Held, q
<1> QED BY <1>17 DEF new, t, p, q

LEMMA FoundFine ==
  ASSUME NEW now, NEW s, Fine(s, now), NEW id \in TaskIds(s.tasks)
  PROVE  LET g == s.tasks[PositionOf(s.tasks, id)]
         IN /\ g = Get(s.tasks, id) /\ g \in Task /\ g.id = id /\ By(g, now)
            /\ (g.started # None) = (g.bucket = "now")
            /\ g.paused # None => g.started # None
<1>1. Queue(s.tasks) /\ Tidy(s.tasks) /\ Past(s.tasks, now)
  BY FineFacts
<1>2. s.tasks[PositionOf(s.tasks, id)] = Get(s.tasks, id)
  BY DEF Get
<1>3. Get(s.tasks, id) \in Task /\ Get(s.tasks, id).id = id
  BY <1>1, Found
<1> QED BY <1>1, <1>2, <1>3 DEF Tidy, Past

LEMMA TagSteps ==
  ASSUME NEW now \in Nat, NEW s, Fine(s, now), NEW id \in TaskIds(s.tasks), NEW tag \in Tag \cup {None}
  PROVE  Steps(s, SetTag(s, id, tag), {}, now)
<1> DEFINE p == PositionOf(s.tasks, id)
           g == s.tasks[p]
           e == [g EXCEPT !.tag = tag]
<1>1. /\ g \in Task /\ g.id = id /\ g = Get(s.tasks, id) /\ By(g, now)
      /\ g.paused # None => g.started # None
  BY FoundFine
<1>2. SetTag(s, id, tag) = [s EXCEPT !.tasks = [@ EXCEPT ![p] = e]]
  BY DEF SetTag
<1> HIDE DEF g, p
<1>3. /\ e \in Task /\ e.id = id /\ e.bucket = g.bucket /\ e.started = g.started
      /\ e.paused = g.paused
  BY <1>1 DEF Task
<1> HIDE DEF e
<1>4. By(e, now) /\ Elapsed(e, now) = Elapsed(g, now)
  BY <1>1, <1>3 DEF By, Elapsed
<1>5. Steps(s, [s EXCEPT !.tasks = [@ EXCEPT ![PositionOf(s.tasks, id)] = e]], {}, now)
  BY <1>1, <1>3, <1>4, RewrittenSteps
<1> QED BY <1>2, <1>5 DEF p

LEMMA RenameSteps ==
  ASSUME NEW now \in Nat, NEW s, Fine(s, now), NEW id \in TaskIds(s.tasks), NEW title \in Title
  PROVE  Steps(s, Rename(s, id, title), {}, now)
<1> DEFINE p == PositionOf(s.tasks, id)
           g == s.tasks[p]
           e == [g EXCEPT !.title = title]
<1>1. /\ g \in Task /\ g.id = id /\ g = Get(s.tasks, id) /\ By(g, now)
      /\ g.paused # None => g.started # None
  BY FoundFine
<1>2. Rename(s, id, title) = [s EXCEPT !.tasks = [@ EXCEPT ![p] = e]]
  BY DEF Rename
<1> HIDE DEF g, p
<1>3. /\ e \in Task /\ e.id = id /\ e.bucket = g.bucket /\ e.started = g.started
      /\ e.paused = g.paused
  BY <1>1 DEF Task
<1> HIDE DEF e
<1>4. By(e, now) /\ Elapsed(e, now) = Elapsed(g, now)
  BY <1>1, <1>3 DEF By, Elapsed
<1>5. Steps(s, [s EXCEPT !.tasks = [@ EXCEPT ![PositionOf(s.tasks, id)] = e]], {}, now)
  BY <1>1, <1>3, <1>4, RewrittenSteps
<1> QED BY <1>2, <1>5 DEF p

\* A timer paused goes on with the time it had, and one paused keeps it.
LEMMA PauseSteps ==
  ASSUME NEW now \in Nat, NEW s, Fine(s, now)
  PROVE  Steps(s, TogglePause(s, now), {}, now)
<1> DEFINE id == Current(s.tasks)
           p == PositionOf(s.tasks, id)
           g == s.tasks[p]
           pause == IF now > g.paused THEN now - g.paused ELSE 0
           e == IF g.paused # None
                THEN [g EXCEPT !.started = @ + pause, !.paused = None]
                ELSE [g EXCEPT !.paused = IF now > g.started THEN now ELSE g.started]
<1>1. CASE id = None
  <2>1. TogglePause(s, now) = s
    BY <1>1 DEF TogglePause
  <2> QED BY <2>1, Unchanged
<1>2. CASE id # None
  <2>0. id \in TaskIds(s.tasks) /\ Get(s.tasks, id).bucket = "now"
    BY <1>2, FineFacts, CurrentIs
  <2>1. /\ g \in Task /\ g.id = id /\ g = Get(s.tasks, id) /\ By(g, now) /\ g.started # None
    BY <2>0, FoundFine
  <2>2. TogglePause(s, now) = [s EXCEPT !.tasks = [@ EXCEPT ![p] = e]]
    BY <1>2 DEF TogglePause
  <2> HIDE DEF g, p, id
  <2>3. /\ g.started \in Nat /\ (g.paused = None \/ g.paused \in Nat) /\ None \notin Nat
        /\ g.paused # None => g.paused <= now \/ g.paused <= g.started
    BY <2>1, AbsentAssumption DEF By, Task
  <2>4. /\ e \in Task /\ e.id = id /\ e.bucket = g.bucket /\ e.started # None
        /\ By(e, now) /\ Elapsed(e, now) = Elapsed(g, now)
    <3>1. CASE g.paused # None
      <4> DEFINE start == g.started + pause
      <4>1. e = [g EXCEPT !.started = start, !.paused = None]
        BY <2>1, <3>1 DEF Task
      <4>2. start \in Nat /\ (IF now > start THEN now - start ELSE 0)
                               = IF g.paused > g.started THEN g.paused - g.started ELSE 0
        BY <2>3, <3>1
      <4> HIDE DEF start, e
      <4>3. e \in Task /\ e.id = id /\ e.bucket = g.bucket /\ e.started = start /\ e.paused = None
        BY <2>1, <4>1, <4>2 DEF Task
      <4>4. Elapsed(e, now) = Elapsed(g, now)
        BY <3>1, <4>2, <4>3 DEF Elapsed
      <4>5. By(e, now)
        BY <4>3 DEF By
      <4> QED BY <2>3, <4>2, <4>3, <4>4, <4>5
    <3>2. CASE g.paused = None
      <4> DEFINE stop == IF now > g.started THEN now ELSE g.started
      <4>1. e = [g EXCEPT !.paused = stop]
        BY <3>2
      <4>2. stop \in Nat /\ (stop <= now \/ stop <= g.started)
            /\ (IF now > g.started THEN now - g.started ELSE 0)
                 = IF stop > g.started THEN stop - g.started ELSE 0
        BY <2>3
      <4> HIDE DEF stop, e
      <4>3. e \in Task /\ e.id = id /\ e.bucket = g.bucket /\ e.started = g.started /\ e.paused = stop
        BY <2>1, <4>1, <4>2 DEF Task
      <4>4. By(e, now)
        BY <4>2, <4>3 DEF By
      <4>5. e.paused # None
        BY <2>3, <4>2, <4>3
      <4>6. Elapsed(e, now) = Elapsed(g, now)
        BY <3>2, <4>2, <4>3, <4>5 DEF Elapsed
      <4> QED BY <2>1, <4>3, <4>4, <4>6
    <3> QED BY <3>1, <3>2
  <2> HIDE DEF e
  <2>5. Steps(s, [s EXCEPT !.tasks = [@ EXCEPT ![PositionOf(s.tasks, id)] = e]], {}, now)
    BY <2>0, <2>1, <2>4, RewrittenSteps
  <2> QED BY <2>2, <2>5 DEF p
<1> QED BY <1>1, <1>2

(***************************************************************************)
(* The app                                                                 *)
(***************************************************************************)
\* What holds of a file that can come back; `first` is the oldest one's next.
Kept(f, first, now) ==
  /\ Held(f) /\ Past(f.tasks, now)
  /\ first <= f.next
  /\ f \in OldFiles \/ Sound(f)

\* No file that can come back knows an identity newer than those to come.
LInv ==
  /\ clock \in Nat /\ revision \in Nat
  /\ Fine(store, clock) /\ disk[1].next <= store.next
  /\ disk \in Seq(Store) /\ Len(disk) \in Nat \ {0}
  /\ \A i \in 1..Len(disk) : Kept(disk[i], disk[1].next, clock)
  /\ undo = None \/ Record(undo.completed, store, clock)

NewIdentities ==
  \A id \in TaskIds(store'.tasks) \ Ids :
    \/ id >= disk[1].next
    \/ undo # None /\ undo.completed.task.id = id
    \/ \E i \in DOMAIN disk : Loaded(disk[i])

TimeGoesOn ==
  LET id == Current(store.tasks)
      elapsed == Elapsed(Get(store.tasks, id), clock)
      shown == Elapsed(Get(store'.tasks, id), clock')
  IN /\ revision' > revision \/ clock' > clock
     /\ id # None /\ Current(store'.tasks) = id
     =>
       /\ shown >= elapsed
       /\ Get(store.tasks, id).paused # None => shown = elapsed
       /\ clock' = clock => shown = elapsed

LEMMA FineIsSound ==
  ASSUME NEW s, NEW now, Fine(s, now)
  PROVE  Sound(s)
<1> DEFINE q == s.tasks
<1>1. /\ Queue(q) /\ q \in Seq(Task) /\ Tidy(q) /\ \A id \in TaskIds(q) : id < s.next
  BY FineFacts
<1>2. DOMAIN q = 1..Len(q) /\ Len(q) \in Nat
  BY <1>1, TasksOf
<1> HIDE DEF q
<1>3. \A i, j \in 1..Len(q) : q[i].id = q[j].id => i = j
  BY <1>1 DEF Queue
<1>4. ASSUME NEW i \in DOMAIN q
      PROVE  /\ q[i].id \in TaskIds(q) /\ Get(q, q[i].id) = q[i]
             /\ q[i].id < s.next
             /\ (q[i].started # None) <=> (q[i].bucket = "now")
             /\ q[i].paused # None => q[i].started # None
             /\ q[i].bucket = "now" => q[i].id = Current(q)
  <2>1. q[i].id \in TaskIds(q)
    BY DEF TaskIds
  <2>2. Get(q, q[i].id) = q[i]
    BY <1>1, <1>2, <2>1, Found
  <2> QED BY <1>1, <2>1, <2>2 DEF Tidy
<1>5. \A i, j \in DOMAIN q : {q[i].bucket, q[j].bucket} = {"now"} => i = j
  <2>1. ASSUME NEW i \in DOMAIN q, NEW j \in DOMAIN q, {q[i].bucket, q[j].bucket} = {"now"}
        PROVE  i = j
    <3>1. q[i].bucket = "now" /\ q[j].bucket = "now"
      BY <2>1
    <3> QED BY <1>2, <1>3, <1>4, <3>1
  <2> QED BY <2>1
<1>6. \A i, j \in DOMAIN q : q[i].id = q[j].id => i = j
  BY <1>2, <1>3
<1> QED BY <1>4, <1>5, <1>6 DEF Sound, q

\* What a file makes when it is loaded.
LEMMA Loads ==
  ASSUME NEW now \in Nat, NEW f, Held(f), Past(f.tasks, now)
  PROVE  LET s == [f EXCEPT !.tasks = Normalized(@, now)]
         IN Fine(s, now) /\ s.next = f.next /\ TaskIds(s.tasks) = TaskIds(f.tasks)
<1> DEFINE t == Normalized(f.tasks, now)
           s == [f EXCEPT !.tasks = t]
<1>1. f \in Store /\ Queue(f.tasks) /\ \A id \in TaskIds(f.tasks) : id < f.next
  BY DEF Held
<1>2. Queue(t) /\ TaskIds(t) = TaskIds(f.tasks) /\ Tidy(t) /\ Past(t, now)
  BY <1>1, Resettled
<1> HIDE DEF t
<1>3. s.next = f.next /\ s.tasks = t /\ s = [next |-> f.next, tasks |-> t] /\ f.next \in Nat
  BY <1>1 DEF Store
<1>4. t \in Seq(Task)
  BY <1>2 DEF Queue
<1> HIDE DEF s
<1>5. s \in Store
  BY <1>3, <1>4 DEF Store
<1>6. Fine(s, now)
  BY <1>1, <1>2, <1>3, <1>5 DEF Fine, Held
<1> QED BY <1>2, <1>3, <1>6 DEF s, t

LEMMA LaterBy ==
  ASSUME NEW now \in Nat, NEW q, Queue(q), Past(q, now)
  PROVE  Past(q, now + 1)
<1>1. \A id \in TaskIds(q) : Get(q, id) \in Task /\ By(Get(q, id), now)
  BY Found DEF Past
<1>2. \A x \in Task : By(x, now) => By(x, now + 1)
  <2>1. ASSUME NEW x \in Task, By(x, now) PROVE By(x, now + 1)
    <3>1. x.paused # None => x.paused \in Nat
      BY DEF Task
    <3>2. x.paused # None => (x.paused <= now => x.paused <= now + 1)
      BY <3>1
    <3> QED BY <2>1, <3>2 DEF By
  <2> QED BY <2>1
<1> QED BY <1>1, <1>2 DEF Past

LEMMA FirstFine ==
  ASSUME Init
  PROVE  LInv
<1>1. PICK f \in OldFiles : disk = <<f>> /\ store = [f EXCEPT !.tasks = Normalized(@, clock)]
  BY DEF Init
<1>2. clock = FirstTime /\ clock \in Nat /\ revision = 0 /\ undo = None
  BY BoundsAssumption DEF Init
<1>3. /\ f \in Store
      /\ \A i, j \in DOMAIN f.tasks : f.tasks[i].id = f.tasks[j].id => i = j
      /\ \A id \in TaskIds(f.tasks) : id < f.next
      /\ \A i \in DOMAIN f.tasks : By(f.tasks[i], clock)
  BY <1>2, OldFilesAssumption DEF By
<1>4. f.tasks \in Seq(Task) /\ f.next \in Nat
  BY <1>3 DEF Store
<1>5. DOMAIN f.tasks = 1..Len(f.tasks)
  BY <1>4, TasksOf
<1>6. Queue(f.tasks)
  BY <1>3, <1>4, <1>5 DEF Queue
<1>7. Past(f.tasks, clock)
  <2>1. \A id \in TaskIds(f.tasks) :
          PositionOf(f.tasks, id) \in DOMAIN f.tasks /\ Get(f.tasks, id) = f.tasks[PositionOf(f.tasks, id)]
    BY <1>5, <1>6, Found
  <2> QED BY <1>3, <2>1 DEF Past
<1>8. Held(f)
  BY <1>3, <1>6 DEF Held
<1>9. Fine(store, clock) /\ store.next = f.next
  BY <1>1, <1>2, <1>7, <1>8, Loads
<1>10. disk \in Seq(Store) /\ Len(disk) = 1 /\ disk[1] = f
  BY <1>1, <1>3
<1>11. Kept(f, disk[1].next, clock)
  BY <1>4, <1>7, <1>8, <1>10 DEF Kept
<1>12. \A i \in 1..Len(disk) : Kept(disk[i], disk[1].next, clock)
  BY <1>10, <1>11
<1> QED BY <1>2, <1>4, <1>9, <1>10, <1>12 DEF LInv

LEMMA SavedAs ==
  ASSUME LInv, NEW f, Fine(f, clock), f.next >= store.next
  PROVE  /\ <<f>> \in Seq(Store) /\ Len(<<f>>) = 1 /\ <<f>>[1] = f
         /\ LET d == Append(disk, f)
            IN /\ d \in Seq(Store) /\ Len(d) = Len(disk) + 1 /\ d[1] = disk[1]
               /\ d[1].next \in Nat /\ d[1].next <= f.next
               /\ \A i \in 1..Len(d) : (i \in 1..Len(disk) /\ d[i] = disk[i]) \/ d[i] = f
<1>1. f \in Store
  BY DEF Fine, Held
<1>2. disk \in Seq(Store) /\ Len(disk) \in Nat \ {0}
  BY DEF LInv
<1> DEFINE d == Append(disk, f)
<1>3. /\ d \in Seq(Store) /\ Len(d) = Len(disk) + 1
      /\ \A i \in 1..Len(disk) : d[i] = disk[i]
      /\ d[Len(disk) + 1] = f
  BY <1>1, <1>2, AppendProperties
<1> HIDE DEF d
<1>4. 1 \in 1..Len(disk) /\ d[1] = disk[1]
  BY <1>2, <1>3
<1>5. disk[1] \in Store /\ store.next \in Nat /\ f.next \in Nat
  BY <1>1, <1>2, <1>4, ElementOfSeq DEF LInv, Fine, Held, Store
<1>6. d[1].next \in Nat /\ d[1].next <= f.next
  BY <1>4, <1>5 DEF Store, LInv
<1>7. \A i \in 1..Len(d) : i \in 1..Len(disk) \/ i = Len(disk) + 1
  BY <1>2, <1>3
<1> QED BY <1>1, <1>3, <1>4, <1>6, <1>7 DEF d

\* The files after a change is saved, alone or beside the older ones.
LEMMA Saves ==
  ASSUME LInv, NEW f, Fine(f, clock), f.next >= store.next, clock' = clock,
         disk' = <<f>> \/ disk' = Append(disk, f)
  PROVE  /\ disk' \in Seq(Store) /\ Len(disk') \in Nat \ {0} /\ disk'[1].next <= f.next
         /\ \A i \in 1..Len(disk') : Kept(disk'[i], disk'[1].next, clock')
<1>1. Kept(f, f.next, clock') /\ f.next \in Nat
  <2>1. Sound(f) /\ Held(f) /\ Past(f.tasks, clock) /\ f.next \in Nat
    BY FineIsSound, FineFacts DEF Fine
  <2>2. f.next <= f.next
    BY <2>1
  <2> QED BY <2>1, <2>2 DEF Kept
<1>2. CASE disk' = <<f>>
  <2>1. disk' \in Seq(Store) /\ Len(disk') = 1 /\ disk'[1] = f
    BY <1>2, SavedAs
  <2>2. \A i \in 1..Len(disk') : disk'[i] = f
    BY <2>1
  <2> QED BY <1>1, <2>1, <2>2
<1>3. CASE disk' = Append(disk, f)
  <2>1. /\ disk' \in Seq(Store) /\ Len(disk') = Len(disk) + 1 /\ disk'[1] = disk[1]
        /\ disk'[1].next <= f.next
        /\ \A i \in 1..Len(disk') : (i \in 1..Len(disk) /\ disk'[i] = disk[i]) \/ disk'[i] = f
    BY <1>3, SavedAs
  <2>2. Kept(f, disk'[1].next, clock')
    BY <1>1, <2>1 DEF Kept
  <2>3. \A i \in 1..Len(disk) : Kept(disk[i], disk'[1].next, clock')
    BY <2>1 DEF LInv
  <2>4. \A i \in 1..Len(disk') : Kept(disk'[i], disk'[1].next, clock')
    BY <2>1, <2>2, <2>3
  <2>5. Len(disk') \in Nat \ {0}
    BY <2>1 DEF LInv
  <2> QED BY <2>1, <2>4, <2>5
<1> QED BY <1>2, <1>3

\* The time of the current task, and what a tick does to it.
LEMMA ElapsedIs ==
  ASSUME NEW now \in Nat, NEW s, Fine(s, now), Current(s.tasks) # None
  PROVE  LET g == Get(s.tasks, Current(s.tasks))
         IN /\ Elapsed(g, now) \in Nat /\ Elapsed(g, now + 1) >= Elapsed(g, now)
            /\ g.paused # None => Elapsed(g, now + 1) = Elapsed(g, now)
<1> DEFINE id == Current(s.tasks)
           g == Get(s.tasks, id)
<1>1. id \in TaskIds(s.tasks) /\ g.bucket = "now"
  BY FineFacts, CurrentIs
<1>2. g \in Task /\ g.started # None
  BY <1>1, FineFacts, Found DEF Tidy
<1> HIDE DEF g
<1>3. g.started \in Nat /\ g.paused \in Nat \cup {None}
  BY <1>2 DEF Task
<1> DEFINE Since(from, to) == IF to > from THEN to - from ELSE 0
<1>4. /\ g.paused = None => Elapsed(g, now) = Since(g.started, now)
                            /\ Elapsed(g, now + 1) = Since(g.started, now + 1)
      /\ g.paused # None => Elapsed(g, now) = Since(g.started, g.paused)
                            /\ Elapsed(g, now + 1) = Since(g.started, g.paused)
  BY DEF Elapsed
<1>5. \A a, b \in Nat : Since(a, b) \in Nat /\ Since(a, b + 1) >= Since(a, b)
                       /\ Since(a, b) >= Since(a, b)
  OBVIOUS
<1> HIDE DEF Since
<1> QED BY <1>3, <1>4, <1>5 DEF g

LEMMA RecordLasts ==
  ASSUME NEW now, NEW s, NEW t, NEW c, s.next \in Nat, t.next \in Nat, t.next >= s.next,
         Record(c, s, now)
  PROVE  Record(c, t, now)
BY DEF Record, Task

\* A change: the queue stays sound in memory and on disk, only the identities
\* it may bring in come in, and it moves no time that is kept.
LEMMA UpdateKeeps ==
  ASSUME LInv, NEW new, NEW record, NEW more, Steps(store, new, more, clock),
         \A id \in more : id >= disk[1].next \/ (undo # None /\ undo.completed.task.id = id),
         record = None \/ Record(record.completed, new, clock),
         Update(new, record)
  PROVE  LInv' /\ NewIdentities /\ TimeGoesOn
<1>1. /\ clock \in Nat /\ revision \in Nat /\ Fine(store, clock) /\ disk[1].next <= store.next
      /\ disk \in Seq(Store) /\ Len(disk) \in Nat \ {0} /\ DOMAIN disk = 1..Len(disk)
      /\ \A i \in 1..Len(disk) : Kept(disk[i], disk[1].next, clock)
      /\ undo = None \/ Record(undo.completed, store, clock)
  BY LenProperties DEF LInv
<1>2. /\ Fine(new, clock) /\ new.next >= store.next /\ new.next \in Nat /\ store.next \in Nat
      /\ TaskIds(new.tasks) \subseteq Ids \cup more /\ SameTime(store.tasks, new.tasks, clock)
  BY <1>1, FineFacts DEF Steps, Ids
<1>3. clock' = clock
  BY DEF Update
<1>4. SUFFICES ASSUME TaskIds(store'.tasks) = TaskIds(new.tasks) \/ store' = store,
                      revision' \in Nat, revision' > revision => store' = new,
                      Fine(store', clock), disk'[1].next <= store'.next,
                      disk' \in Seq(Store), Len(disk') \in Nat \ {0},
                      \A i \in 1..Len(disk') : Kept(disk'[i], disk'[1].next, clock'),
                      undo' = None \/ Record(undo'.completed, store', clock)
               PROVE  LInv' /\ NewIdentities /\ TimeGoesOn
  <2>1. CASE new = store /\ undo' = record /\ UNCHANGED <<store, disk, revision, mishaps>>
    BY <1>1, <1>2, <1>3, <1>4, <2>1
  <2>2. CASE /\ store' = new /\ revision' = revision + 1 /\ undo' = record
             /\ disk' = <<new>> \/ disk' = Append(disk, new)
    <3>1. /\ disk' \in Seq(Store) /\ Len(disk') \in Nat \ {0} /\ disk'[1].next <= new.next
          /\ \A i \in 1..Len(disk') : Kept(disk'[i], disk'[1].next, clock')
      BY <1>2, <1>3, <2>2, Saves
    <3>2. revision' \in Nat
      BY <1>1, <2>2
    <3> QED BY <1>2, <1>4, <2>2, <3>1, <3>2
  <2>3. CASE UNCHANGED <<store, disk, revision, undo>>
    BY <1>1, <1>3, <1>4, <2>3
  <2>4. CASE disk' = Append(disk, new) /\ Loaded(new)
    <3>1. /\ disk' \in Seq(Store) /\ Len(disk') \in Nat \ {0} /\ disk'[1].next <= new.next
          /\ \A i \in 1..Len(disk') : Kept(disk'[i], disk'[1].next, clock')
      BY <1>2, <1>3, <2>4, Saves
    <3>2. store' = [new EXCEPT !.tasks = Normalized(@, clock)] /\ revision' = 0 /\ undo' = None
      BY <2>4 DEF Loaded
    <3>3. Fine(store', clock) /\ store'.next = new.next /\ TaskIds(store'.tasks) = TaskIds(new.tasks)
      BY <1>1, <1>2, <3>2, Loads DEF Fine
    <3>4. ~(revision' > revision) /\ revision' \in Nat
      BY <1>1, <3>2
    <3> QED BY <1>4, <3>1, <3>2, <3>3, <3>4
  <2> QED BY <2>1, <2>2, <2>3, <2>4 DEF Update
<1>5. LInv'
  <2>1. clock' \in Nat /\ Fine(store', clock')
    BY <1>1, <1>3, <1>4
  <2>2. undo' = None \/ Record(undo'.completed, store', clock')
    BY <1>3, <1>4
  <2> QED BY <1>4, <2>1, <2>2 DEF LInv
<1>6. NewIdentities
  BY <1>2, <1>4 DEF NewIdentities, Ids
<1>7. TimeGoesOn
  <2> DEFINE id == Current(store.tasks)
             elapsed == Elapsed(Get(store.tasks, id), clock)
             shown == Elapsed(Get(store'.tasks, id), clock')
  <2>1. SUFFICES ASSUME revision' > revision \/ clock' > clock, id # None, Current(store'.tasks) = id
                 PROVE  shown >= elapsed /\ shown = elapsed
    BY <2>1 DEF TimeGoesOn
  <2>2. store' = new
    BY <1>1, <1>3, <1>4, <2>1
  <2>3. shown = elapsed
    BY <1>2, <1>3, <2>1, <2>2 DEF SameTime
  <2>4. elapsed \in Nat
    BY <1>1, <2>1, ElapsedIs
  <2> QED BY <2>3, <2>4
<1> QED BY <1>5, <1>6, <1>7


\* A change that leaves the last completion to be undone.
LEMMA PlainUpdateKeeps ==
  ASSUME LInv, NEW new, Steps(store, new, {}, clock), Update(new, undo)
  PROVE  LInv' /\ NewIdentities /\ TimeGoesOn
<1>1. store.next \in Nat /\ new.next \in Nat /\ new.next >= store.next
  BY FineFacts DEF LInv, Steps
<1>2. undo = None \/ Record(undo.completed, new, clock)
  BY <1>1, RecordLasts DEF LInv
<1> QED BY <1>2, UpdateKeeps

LEMMA AddKeeps ==
  ASSUME LInv, NEW title \in Title, NEW tag \in Tag \cup {None}, NEW asked \in Bucket \cup {None},
         AddTask(title, tag, asked)
  PROVE  LInv' /\ NewIdentities /\ TimeGoesOn
<1> DEFINE bucket == IF asked # None THEN asked
                     ELSE IF Current(store.tasks) = None THEN "now" ELSE DefaultBucket
           new == Add(store, title, bucket, tag, clock)
<1>1. bucket \in Bucket
  BY DefaultBucketAssumption, BucketAssumption
<1>2. Update(new, undo)
  BY DEF AddTask
<1> HIDE DEF bucket
<1>3. Steps(store, new, {store.next}, clock)
  BY <1>1, AddSteps DEF LInv
<1> HIDE DEF new
<1>4. store.next \in Nat /\ new.next \in Nat /\ new.next >= store.next
  BY <1>3, FineFacts DEF LInv, Steps
<1>5. undo = None \/ Record(undo.completed, new, clock)
  BY <1>4, RecordLasts DEF LInv
<1>6. store.next >= disk[1].next
  <2>1. 1 \in 1..Len(disk) /\ disk \in Seq(Store)
    BY DEF LInv
  <2>2. disk[1] \in Store
    BY <2>1, ElementOfSeq
  <2> QED BY <1>4, <2>2 DEF LInv, Store
<1> QED BY <1>2, <1>3, <1>5, <1>6, UpdateKeeps

\* What a completion takes note of.
LEMMA CompletionOK ==
  ASSUME NEW now \in Nat, NEW s, Fine(s, now), NEW id \in TaskIds(s.tasks)
  PROVE  LET c == Completion(s, id)
         IN c \in Completed /\ c.task.id = id /\ By(c.task, now)
<1> DEFINE c == Completion(s, id)
           rest == Sq!RemoveAt(s.tasks, PositionOf(s.tasks, id))
<1>1. Queue(s.tasks) /\ Past(s.tasks, now)
  BY FineFacts
<1>2. /\ c.task = Get(s.tasks, id) /\ c.index = PositionOf(s.tasks, id)
      /\ c.pulled = None \/ c.pulled = HeadOf(rest, "next")
      /\ c = [task |-> c.task, index |-> c.index, pulled |-> c.pulled]
  BY DEF Completion
<1> HIDE DEF c
<1>3. c.task \in Task /\ c.task.id = id /\ By(c.task, now)
  BY <1>1, <1>2, Found DEF Past
<1>4. c.index \in Nat \ {0}
  <2>1. s.tasks \in Seq(Task)
    BY <1>1 DEF Queue
  <2>2. Len(s.tasks) \in Nat /\ c.index \in 1..Len(s.tasks)
    BY <1>1, <1>2, <2>1, Found, TasksOf
  <2> QED BY <2>2
<1>5. c.pulled \in Nat \cup {None}
  <2>1. Queue(rest)
    BY <1>1, TakenOut DEF Rest
  <2> HIDE DEF rest
  <2>2. HeadOf(rest, "next") = None
        \/ (Get(rest, HeadOf(rest, "next")) \in Task
            /\ Get(rest, HeadOf(rest, "next")).id = HeadOf(rest, "next"))
    BY <2>1, HeadOfOK, Found
  <2>3. \A x \in Task : x.id \in Nat
    BY DEF Task
  <2> QED BY <1>2, <2>2, <2>3
<1>6. c \in Completed
  BY <1>2, <1>3, <1>4, <1>5 DEF Completed
<1> QED BY <1>3, <1>6 DEF c

LEMMA CompleteKeeps ==
  ASSUME LInv, NEW id \in Ids, CompleteTask(id)
  PROVE  LInv' /\ NewIdentities /\ TimeGoesOn
<1> DEFINE c == Completion(store, id)
           record == [completed |-> c, revision |-> revision + 1]
           new == Complete(store, id, clock)
<1>1. clock \in Nat /\ Fine(store, clock) /\ id \in TaskIds(store.tasks)
  BY DEF LInv, Ids
<1>2. Update(new, record)
  BY DEF CompleteTask
<1>3. Steps(store, new, {}, clock)
  BY <1>1, CompleteSteps
<1> HIDE DEF new
<1>4. store.next \in Nat /\ new.next \in Nat /\ new.next >= store.next
  BY <1>1, <1>3, FineFacts DEF Steps
<1>5. Record(c, store, clock)
  <2>1. c \in Completed /\ c.task.id = id /\ By(c.task, clock)
    BY <1>1, CompletionOK
  <2> HIDE DEF c
  <2>2. id < store.next
    BY <1>1, FineFacts
  <2> QED BY <2>1, <2>2 DEF Record, Completed
<1>6. Record(record.completed, new, clock)
  BY <1>4, <1>5, RecordLasts
<1> HIDE DEF record
<1> QED BY <1>2, <1>3, <1>6, UpdateKeeps

LEMMA UndoKeeps ==
  ASSUME LInv, NEW id, UndoTask(id)
  PROVE  LInv' /\ NewIdentities /\ TimeGoesOn
<1> DEFINE c == undo.completed
           new == UndoComplete(store, c, clock)
<1>1. undo # None /\ Update(new, None)
  BY DEF UndoTask, CanUndo
<1>2. Record(c, store, clock)
  BY <1>1 DEF LInv
<1>3. Steps(store, new, {c.task.id}, clock)
  BY <1>2, UndoSteps DEF LInv
<1> HIDE DEF new
<1> QED BY <1>1, <1>3, UpdateKeeps

\* Starting again, from the present file or, after a power failure, an older one.
LEMMA LoadedKeeps ==
  ASSUME LInv, NEW i \in 1..Len(disk), Loaded(disk[i]), clock' = clock,
         disk' = disk \/ disk' = <<disk[i]>>
  PROVE  LInv' /\ NewIdentities /\ TimeGoesOn
<1> DEFINE f == disk[i]
<1>1. /\ clock \in Nat /\ revision \in Nat /\ disk \in Seq(Store) /\ Len(disk) \in Nat \ {0}
      /\ DOMAIN disk = 1..Len(disk) /\ f \in Store
      /\ \A j \in 1..Len(disk) : Kept(disk[j], disk[1].next, clock)
  BY LenProperties, ElementOfSeq DEF LInv
<1>2. Kept(f, disk[1].next, clock) /\ f.next \in Nat
  BY <1>1 DEF Store
<1>3. store' = [f EXCEPT !.tasks = Normalized(@, clock)] /\ revision' = 0 /\ undo' = None
  BY DEF Loaded
<1>4. NewIdentities
  BY <1>1 DEF NewIdentities
<1> HIDE DEF f
<1>5. Fine(store', clock) /\ store'.next = f.next
  BY <1>1, <1>2, <1>3, Loads DEF Kept
<1>6. /\ disk'[1].next <= f.next /\ disk' \in Seq(Store) /\ Len(disk') \in Nat \ {0}
      /\ \A j \in 1..Len(disk') : Kept(disk'[j], disk'[1].next, clock)
  <2>1. CASE disk' = disk
    BY <1>1, <1>2, <2>1 DEF Kept
  <2>2. CASE disk' = <<f>>
    <3>1. disk' \in Seq(Store) /\ Len(disk') = 1 /\ disk'[1] = f
      BY <1>1, <2>2
    <3>2. f.next <= f.next
      BY <1>2
    <3>3. Kept(f, disk'[1].next, clock)
      BY <1>2, <3>1, <3>2 DEF Kept
    <3>4. \A j \in 1..Len(disk') : disk'[j] = f
      BY <3>1
    <3> QED BY <3>1, <3>2, <3>3, <3>4
  <2> QED BY <2>1, <2>2 DEF f
<1>7. LInv'
  BY <1>1, <1>3, <1>5, <1>6 DEF LInv
<1>8. TimeGoesOn
  <2>1. ~(revision' > revision \/ clock' > clock)
    BY <1>1, <1>3
  <2> QED BY <2>1 DEF TimeGoesOn
<1> QED BY <1>4, <1>7, <1>8

LEMMA PassKeeps ==
  ASSUME LInv, Pass
  PROVE  LInv' /\ NewIdentities /\ TimeGoesOn
<1>1. /\ clock' = clock + 1 /\ store' = store /\ disk' = disk /\ revision' = revision
      /\ undo' = undo /\ clock \in Nat
  BY DEF Pass, LInv
<1>2. Fine(store, clock + 1)
  <2>1. Queue(store.tasks) /\ Past(store.tasks, clock)
    BY FineFacts DEF LInv
  <2> QED BY <1>1, <2>1, LaterBy DEF LInv, Fine
<1>3. \A i \in 1..Len(disk) : Kept(disk[i], disk[1].next, clock + 1)
  BY <1>1, LaterBy DEF LInv, Kept, Held
<1>4. undo = None \/ Record(undo.completed, store, clock + 1)
  <2>1. \A x \in Task : By(x, clock) => By(x, clock + 1)
    <3>1. ASSUME NEW x \in Task, By(x, clock) PROVE By(x, clock + 1)
      <4>1. x.paused # None => x.paused \in Nat
        BY DEF Task
      <4>2. x.paused # None => (x.paused <= clock => x.paused <= clock + 1)
        BY <1>1, <4>1
      <4> QED BY <3>1, <4>2 DEF By
    <3> QED BY <3>1
  <2> QED BY <2>1 DEF LInv, Record
<1>5. LInv'
  BY <1>1, <1>2, <1>3, <1>4 DEF LInv
<1>6. NewIdentities
  BY <1>1 DEF NewIdentities, Ids
<1>7. TimeGoesOn
  <2>1. Fine(store, clock) /\ clock' # clock
    BY <1>1 DEF LInv
  <2>2. SUFFICES ASSUME Current(store.tasks) # None PROVE TimeGoesOn
    BY DEF TimeGoesOn
  <2> DEFINE g == Get(store.tasks, Current(store.tasks))
  <2>3. /\ Elapsed(g, clock + 1) >= Elapsed(g, clock)
        /\ g.paused # None => Elapsed(g, clock + 1) = Elapsed(g, clock)
    BY <1>1, <2>1, <2>2, ElapsedIs
  <2> QED BY <1>1, <2>1, <2>3 DEF TimeGoesOn
<1> QED BY <1>5, <1>6, <1>7

LEMMA StepKeeps ==
  ASSUME LInv, [Next]_vars
  PROVE  LInv' /\ (UNCHANGED vars \/ (NewIdentities /\ TimeGoesOn))
<1>1. Fine(store, clock) /\ clock \in Nat /\ Ids = TaskIds(store.tasks)
  BY DEF LInv, Ids
<1>2. CASE UNCHANGED vars
  BY <1>2 DEF vars, LInv
<1>3. CASE Request
  <2>1. ASSUME NEW title \in Title, NEW tag \in Tag \cup {None}, NEW asked \in Bucket \cup {None},
               AddTask(title, tag, asked)
        PROVE  LInv' /\ NewIdentities /\ TimeGoesOn
    BY <2>1, AddKeeps
  <2>2. ASSUME NEW id \in Ids, RemoveTask(id) PROVE LInv' /\ NewIdentities /\ TimeGoesOn
    <3>1. Steps(store, Remove(store, id, clock), {}, clock)
      BY <1>1, RemoveSteps
    <3> QED BY <2>2, <3>1, PlainUpdateKeeps DEF RemoveTask
  <2>3. ASSUME NEW id \in Ids, CompleteTask(id) PROVE LInv' /\ NewIdentities /\ TimeGoesOn
    BY <2>3, CompleteKeeps
  <2>4. ASSUME NEW id \in Ids, NEW bucket \in Bucket, NEW index \in Indices \cup {None},
               MoveTask(id, bucket, index)
        PROVE  LInv' /\ NewIdentities /\ TimeGoesOn
    <3>1. index \in Nat \cup {None}
      BY DEF Indices
    <3>2. Steps(store, MoveTo(store, id, bucket, index, clock), {}, clock)
      BY <1>1, <3>1, MoveSteps
    <3> QED BY <2>4, <3>2, PlainUpdateKeeps DEF MoveTask
  <2>5. ASSUME NEW id \in Ids, NEW bucket \in Bucket, NEW row \in Ids \cup {None},
               DropTask(id, bucket, row)
        PROVE  LInv' /\ NewIdentities /\ TimeGoesOn
    <3>1. Steps(store, MoveBefore(store, id, bucket, row, clock), {}, clock)
      BY <1>1, DropSteps
    <3> QED BY <2>5, <3>1, PlainUpdateKeeps DEF DropTask
  <2>6. ASSUME NEW id \in Ids, NEW delta \in {-1, 1}, ShiftTask(id, delta)
        PROVE  LInv' /\ NewIdentities /\ TimeGoesOn
    <3>1. Steps(store, Shift(store, id, delta, clock), {}, clock)
      BY <1>1, ShiftSteps
    <3> QED BY <2>6, <3>1, PlainUpdateKeeps DEF ShiftTask
  <2>7. ASSUME NEW id \in Ids, NEW tag \in Tag \cup {None}, TagTask(id, tag)
        PROVE  LInv' /\ NewIdentities /\ TimeGoesOn
    <3>1. Steps(store, SetTag(store, id, tag), {}, clock)
      BY <1>1, TagSteps
    <3> QED BY <2>7, <3>1, PlainUpdateKeeps DEF TagTask
  <2>8. ASSUME NEW id \in Ids, NEW title \in Title, RenameTask(id, title)
        PROVE  LInv' /\ NewIdentities /\ TimeGoesOn
    <3>1. Steps(store, Rename(store, id, title), {}, clock)
      BY <1>1, RenameSteps
    <3> QED BY <2>8, <3>1, PlainUpdateKeeps DEF RenameTask
  <2>9. ASSUME Pause PROVE LInv' /\ NewIdentities /\ TimeGoesOn
    <3>1. Steps(store, TogglePause(store, clock), {}, clock)
      BY <1>1, PauseSteps
    <3> QED BY <2>9, <3>1, PlainUpdateKeeps DEF Pause
  <2> QED BY <1>3, <2>1, <2>2, <2>3, <2>4, <2>5, <2>6, <2>7, <2>8, <2>9 DEF Request
<1>4. ASSUME NEW id \in 1..MaxId, UndoTask(id) PROVE LInv' /\ NewIdentities /\ TimeGoesOn
  BY <1>4, UndoKeeps
<1>5. CASE Restart
  <2>1. Len(disk) \in 1..Len(disk)
    BY DEF LInv
  <2> QED BY <1>5, <2>1, LoadedKeeps DEF Restart
<1>6. CASE PowerLoss
  <2>1. PICK i \in DOMAIN disk : disk' = <<disk[i]>> /\ Loaded(disk[i]) /\ clock' = clock
    BY <1>6 DEF PowerLoss
  <2>2. i \in 1..Len(disk)
    BY LenProperties DEF LInv
  <2> QED BY <2>1, <2>2, LoadedKeeps
<1>7. CASE Pass
  BY <1>7, PassKeeps
<1> QED BY <1>2, <1>3, <1>4, <1>5, <1>6, <1>7 DEF Next

LEMMA LInvAlways == Spec => []LInv
<1>1. Init => LInv
  BY FirstFine
<1>2. LInv /\ [Next]_vars => LInv'
  BY StepKeeps
<1> QED BY <1>1, <1>2, PTL DEF Spec

\* Every queue, in the app and in every file that can come back, has unique
\* identities below its next one, at most one task in Now, and a timer on that
\* task alone (model.rs, normalize and the requests on it).
THEOREM SpecOneTimerOneIdentity == Spec => []OneTimerOneIdentity
<1>1. LInv => OneTimerOneIdentity
  BY FineIsSound, LenProperties DEF LInv, OneTimerOneIdentity, Kept
<1> QED BY <1>1, LInvAlways, PTL

\* An identity that appears is newer than every file that can come back, or
\* comes with an undo or with a file loaded.
THEOREM SpecIdentitiesNotReused == Spec => IdentitiesNotReused
<1>1. LInv /\ [Next]_vars => [NewIdentities]_vars
  BY StepKeeps
<1>2. Spec => [][NewIdentities]_vars
  BY <1>1, LInvAlways, PTL DEF Spec
<1> QED BY <1>2 DEF IdentitiesNotReused, NewIdentities

\* The time of the task in Now never goes back, stands still while it is
\* paused, and is moved by no request that leaves the task there.
THEOREM SpecTimeKept == Spec => TimeKept
<1>1. LInv /\ [Next]_vars => [TimeGoesOn]_vars
  BY StepKeeps
<1>2. Spec => [][TimeGoesOn]_vars
  BY <1>1, LInvAlways, PTL DEF Spec
<1> QED BY <1>2 DEF TimeKept, TimeGoesOn

(***************************************************************************)
(* Lists                                                                   *)
(***************************************************************************)
\* The identities of a bucket in their order, told without In.
Lists(w, s, b) ==
  /\ w \in Seq(Nat)
  /\ \A i \in 1..Len(w) : w[i] \in TaskIds(s) /\ Get(s, w[i]).bucket = b
  /\ \A id \in TaskIds(s) : Get(s, id).bucket = b => \E i \in 1..Len(w) : w[i] = id
  /\ \A i, j \in 1..Len(w) : i < j => PositionOf(s, w[i]) < PositionOf(s, w[j])

LEMMA ListsFacts ==
  ASSUME NEW s, Queue(s), NEW b, NEW w, Lists(w, s, b)
  PROVE  /\ w \in Seq(Nat) /\ Len(w) \in Nat /\ DOMAIN w = 1..Len(w)
         /\ \A i \in 1..Len(w) : w[i] \in Nat /\ PositionOf(s, w[i]) \in Nat
         /\ \A i, j \in 1..Len(w) : w[i] = w[j] => i = j
         /\ \A i \in 1..Len(w) : w[i] \in TaskIds(s) /\ Get(s, w[i]).bucket = b
         /\ \A id \in TaskIds(s) : Get(s, id).bucket = b => \E i \in 1..Len(w) : w[i] = id
         /\ \A i, j \in 1..Len(w) : i < j => PositionOf(s, w[i]) < PositionOf(s, w[j])
<1>1. Len(w) \in Nat /\ DOMAIN w = 1..Len(w) /\ \A i \in 1..Len(w) : w[i] \in Nat
  BY LenProperties, ElementOfSeq DEF Lists
<1>2. Len(s) \in Nat
  BY TasksOf DEF Queue
<1>3. ASSUME NEW i \in 1..Len(w) PROVE PositionOf(s, w[i]) \in Nat
  <2>1. PositionOf(s, w[i]) \in 1..Len(s)
    BY Found DEF Lists
  <2> QED BY <1>2, <2>1
<1>4. ASSUME NEW i \in 1..Len(w), NEW j \in 1..Len(w), w[i] = w[j], i # j PROVE FALSE
  <2>1. i < j \/ j < i
    BY <1>1, <1>4
  <2>2. PositionOf(s, w[i]) < PositionOf(s, w[j]) \/ PositionOf(s, w[j]) < PositionOf(s, w[i])
    BY <2>1 DEF Lists
  <2> QED BY <1>3, <1>4, <2>2
<1>5. /\ w \in Seq(Nat)
      /\ \A i \in 1..Len(w) : w[i] \in TaskIds(s) /\ Get(s, w[i]).bucket = b
      /\ \A id \in TaskIds(s) : Get(s, id).bucket = b => \E i \in 1..Len(w) : w[i] = id
      /\ \A i, j \in 1..Len(w) : i < j => PositionOf(s, w[i]) < PositionOf(s, w[j])
  BY DEF Lists
<1> QED BY <1>1, <1>3, <1>4, <1>5

LEMMA ListsPrefix ==
  ASSUME NEW s, Queue(s), NEW b, NEW v, Lists(v, s, b), NEW w, Lists(w, s, b), Len(v) <= Len(w)
  PROVE  v = w
<1>1. /\ Len(v) \in Nat /\ \A i \in 1..Len(v) : v[i] \in Nat /\ PositionOf(s, v[i]) \in Nat
      /\ \A i, j \in 1..Len(v) : v[i] = v[j] => i = j
  BY ListsFacts
<1>2. /\ Len(w) \in Nat /\ \A i \in 1..Len(w) : w[i] \in Nat /\ PositionOf(s, w[i]) \in Nat
      /\ \A i, j \in 1..Len(w) : w[i] = w[j] => i = j
  BY ListsFacts
<1>3. /\ \A i \in 1..Len(v) : \E j \in 1..Len(w) : w[j] = v[i]
      /\ \A i \in 1..Len(w) : \E j \in 1..Len(v) : v[j] = w[i]
      /\ \A i, j \in 1..Len(v) : i < j => PositionOf(s, v[i]) < PositionOf(s, v[j])
      /\ \A i, j \in 1..Len(w) : i < j => PositionOf(s, w[i]) < PositionOf(s, w[j])
  BY DEF Lists
<1> DEFINE I == {i \in 1..Len(v) : v[i] # w[i]}
<1>4. CASE I # {}
  <2> I \in SUBSET (1..Len(v))
    OBVIOUS
  <2> HIDE DEF I
  <2>1. PICK m \in I : \A j \in I : m <= j
    BY <1>1, <1>4, HasLeast
  <2>2. m \in 1..Len(v) /\ m \in 1..Len(w) /\ v[m] # w[m]
    BY <1>1, <1>2, <2>1 DEF I
  <2>3. \A j \in 1..Len(v) : j < m => v[j] = w[j] /\ j \in 1..Len(w)
    <3>1. ASSUME NEW j \in 1..Len(v), j < m PROVE v[j] = w[j] /\ j \in 1..Len(w)
      <4>1. j \notin I
        BY <2>1, <2>2, <3>1
      <4> QED BY <1>1, <1>2, <4>1 DEF I
    <3> QED BY <3>1
  <2>4. PICK j \in 1..Len(w) : w[j] = v[m]
    BY <1>3, <2>2
  <2>5. PICK k \in 1..Len(v) : v[k] = w[m]
    BY <1>3, <2>2
  <2>6. ~(j < m) /\ j # m
    <3>1. j < m => j \in 1..Len(v)
      BY <2>2, <2>4
    <3> QED BY <1>1, <2>2, <2>3, <2>4, <3>1
  <2>7. ~(k < m) /\ k # m
    BY <1>2, <2>2, <2>3, <2>5
  <2>8. m < j /\ m < k
    BY <2>2, <2>4, <2>5, <2>6, <2>7
  <2>9. PositionOf(s, w[m]) < PositionOf(s, w[j]) /\ PositionOf(s, v[m]) < PositionOf(s, v[k])
    BY <1>3, <2>2, <2>4, <2>5, <2>8
  <2> QED BY <1>1, <1>2, <2>2, <2>4, <2>5, <2>9
<1>5. CASE I = {}
  <2>1. \A i \in 1..Len(v) : v[i] = w[i]
    BY <1>5
  <2>2. Len(v) = Len(w)
    <3>1. SUFFICES ASSUME Len(v) # Len(w) PROVE FALSE
      OBVIOUS
    <3> DEFINE n == Len(v) + 1
    <3>2. n \in 1..Len(w) /\ n \notin 1..Len(v)
      BY <1>1, <1>2, <3>1
    <3> HIDE DEF n
    <3>3. PICK j \in 1..Len(v) : v[j] = w[n]
      BY <1>3, <3>2
    <3>4. j \in 1..Len(w) /\ w[j] = w[n]
      BY <1>1, <1>2, <2>1, <3>3
    <3> QED BY <1>2, <3>2, <3>3, <3>4
  <2> QED BY <2>1, <2>2, SeqEqual DEF Lists
<1> QED BY <1>4, <1>5

LEMMA ListsIdsIn ==
  ASSUME NEW s, Queue(s), NEW b
  PROVE  Lists(IdsIn(s, b), s, b)
<1> DEFINE there == In(s, b)
           w == IdsIn(s, b)
<1>1. /\ Len(w) = Len(there) /\ Len(there) \in Nat /\ DOMAIN w = 1..Len(there)
      /\ \A i \in 1..Len(there) : w[i] = there[i].id /\ there[i] \in Entries(s)
      /\ Entries(there) = {x \in Entries(s) : x.bucket = b}
  BY IdsInAre, InHas
<1>2. PICK h : Picks(h, s, b, Len(there), Len(s)) /\ \A i \in 1..Len(there) : there[i] = s[h[i]]
  BY InTells DEF Queue
<1>3. /\ h \in [1..Len(there) -> 1..Len(s)]
      /\ \A i, j \in 1..Len(there) : i < j => h[i] < h[j]
  BY <1>2 DEF Picks
<1>4. /\ Len(s) \in Nat /\ DOMAIN s = 1..Len(s) /\ \A i \in 1..Len(s) : s[i] \in Task
      /\ TaskIds(s) = {x.id : x \in Entries(s)} /\ Entries(s) \subseteq Task
  BY TasksOf DEF Queue
<1>5. w = [i \in 1..Len(there) |-> w[i]]
  BY <1>1 DEF IdsIn
<1> HIDE DEF w, there
<1>6. ASSUME NEW i \in 1..Len(w)
      PROVE  /\ w[i] \in TaskIds(s) /\ Get(s, w[i]) = there[i] /\ there[i].bucket = b
             /\ w[i] \in Nat /\ PositionOf(s, w[i]) = h[i]
  <2>1. there[i] \in Entries(there)
    BY <1>1 DEF Entries
  <2>2. there[i] \in Entries(s) /\ there[i].bucket = b /\ w[i] = there[i].id
    BY <1>1, <2>1
  <2>3. w[i] \in TaskIds(s)
    BY <1>4, <2>2
  <2>4. Get(s, w[i]) = there[i]
    BY <2>2, <2>3, Found
  <2>5. s[h[i]].id = w[i] /\ h[i] \in 1..Len(s)
    BY <1>1, <1>2, <1>3, <2>2
  <2>6. PositionOf(s, w[i]) = h[i]
    BY <2>3, <2>5, Found
  <2>7. w[i] \in Nat
    BY <1>4, <2>2 DEF Task
  <2> QED BY <2>2, <2>3, <2>4, <2>6, <2>7
<1>7. w \in Seq(Nat)
  <2>1. w \in [1..Len(there) -> Nat]
    BY <1>1, <1>5, <1>6
  <2> QED BY <1>1, <2>1, IsASeq
<1>8. ASSUME NEW id \in TaskIds(s), Get(s, id).bucket = b PROVE \E i \in 1..Len(w) : w[i] = id
  <2>1. Get(s, id) \in Entries(there) /\ Get(s, id).id = id
    BY <1>1, <1>8, Found
  <2>2. PICK i \in 1..Len(there) : there[i] = Get(s, id)
    BY <2>1 DEF Entries
  <2> QED BY <1>1, <2>1, <2>2
<1>9. \A i, j \in 1..Len(w) : i < j => PositionOf(s, w[i]) < PositionOf(s, w[j])
  BY <1>1, <1>3, <1>6
<1> QED BY <1>6, <1>7, <1>8, <1>9 DEF Lists, w

\* The tasks of a bucket and their order make the list.
LEMMA ListIs ==
  ASSUME NEW s, Queue(s), NEW b, NEW w, Lists(w, s, b)
  PROVE  IdsIn(s, b) = w
<1> DEFINE v == IdsIn(s, b)
<1>1. Lists(v, s, b)
  BY ListsIdsIn
<1> HIDE DEF v
<1>2. Len(v) \in Nat /\ Len(w) \in Nat
  BY <1>1, ListsFacts
<1>3. CASE Len(v) <= Len(w)
  BY <1>1, <1>3, ListsPrefix DEF v
<1>4. CASE Len(w) <= Len(v)
  BY <1>1, <1>4, ListsPrefix DEF v
<1> QED BY <1>2, <1>3, <1>4

\* Queues with the same tasks in a bucket, in the same order.
LEMMA SameList ==
  ASSUME NEW s, Queue(s), NEW t, Queue(t), NEW b,
         {id \in TaskIds(s) : Get(s, id).bucket = b} = {id \in TaskIds(t) : Get(t, id).bucket = b},
         \A x, y \in TaskIds(s) \cap TaskIds(t) :
           PositionOf(s, x) < PositionOf(s, y) => PositionOf(t, x) < PositionOf(t, y)
  PROVE  IdsIn(t, b) = IdsIn(s, b)
<1> DEFINE w == IdsIn(s, b)
<1>1. Lists(w, s, b)
  BY ListsIdsIn
<1> HIDE DEF w
<1>2. Lists(w, t, b)
  BY <1>1 DEF Lists
<1> QED BY <1>2, ListIs DEF w

\* Taking out and putting in keep the order of the others.
LEMMA PlacesWithout ==
  ASSUME NEW s, Queue(s), NEW id \in TaskIds(s)
  PROVE  LET t == Sq!RemoveAt(s, PositionOf(s, id))
         IN \A x \in TaskIds(t) :
              PositionOf(t, x) = IF PositionOf(s, x) < PositionOf(s, id)
                                 THEN PositionOf(s, x) ELSE PositionOf(s, x) - 1
<1> DEFINE p == PositionOf(s, id)
           t == Sq!RemoveAt(s, p)
<1>1. /\ Queue(t) /\ TaskIds(t) = TaskIds(s) \ {id}
  <2>2. p \in 1..Len(s) /\ s[p] = Get(s, id) /\ Get(s, id).id = id
    BY Found
  <2>3. Queue(t) /\ Entries(t) = Entries(s) \ {Get(s, id)}
    BY <2>2, QueueWithout
  <2> HIDE DEF t, p
  <2>4. TaskIds(s) = {x.id : x \in Entries(s)} /\ TaskIds(t) = {x.id : x \in Entries(t)}
    BY <2>3, TasksOf DEF Queue
  <2>5. \A x \in Entries(s) : x.id = id => x = Get(s, id)
    BY Found
  <2> QED BY <2>2, <2>3, <2>4, <2>5
<1>2. p \in 1..Len(s) /\ s[p].id = id /\ s \in Seq(Task)
  BY Found DEF Queue
<1>3. /\ Len(t) = Len(s) - 1 /\ Len(s) \in Nat
      /\ \A j \in 1..Len(t) : t[j] = s[IF j < p THEN j ELSE j + 1]
  BY <1>2, RemovedAt
<1> HIDE DEF t, p
<1>4. ASSUME NEW x \in TaskIds(t)
      PROVE  PositionOf(t, x) = IF PositionOf(s, x) < p THEN PositionOf(s, x) ELSE PositionOf(s, x) - 1
  <2> DEFINE a == PositionOf(s, x)
             k == IF a < p THEN a ELSE a - 1
  <2>1. x \in TaskIds(s) /\ x # id
    BY <1>1, <1>4
  <2>2. a \in 1..Len(s) /\ s[a].id = x
    BY <2>1, Found
  <2>3. a # p
    BY <1>2, <2>1, <2>2
  <2> HIDE DEF a
  <2>4. k \in 1..Len(t) /\ (IF k < p THEN k ELSE k + 1) = a
    BY <1>2, <1>3, <2>2, <2>3
  <2> HIDE DEF k
  <2>5. t[k].id = x
    BY <1>3, <2>2, <2>4
  <2>6. PositionOf(t, x) = k
    BY <1>1, <1>4, <2>4, <2>5, Found
  <2> QED BY <2>6 DEF k, a
<1> QED BY <1>4 DEF t, p

LEMMA PlacesWith ==
  ASSUME NEW s, Queue(s), NEW p \in 1..(Len(s) + 1), NEW e \in Task, e.id \notin TaskIds(s)
  PROVE  LET t == Sq!InsertAt(s, p, e)
         IN /\ PositionOf(t, e.id) = p
            /\ \A x \in TaskIds(s) :
                 PositionOf(t, x) = IF PositionOf(s, x) < p THEN PositionOf(s, x)
                                    ELSE PositionOf(s, x) + 1
<1> DEFINE t == Sq!InsertAt(s, p, e)
<1>1. Queue(t) /\ Entries(t) = Entries(s) \cup {e}
  BY QueueWith
<1>2. /\ Len(t) = Len(s) + 1 /\ Len(s) \in Nat
      /\ \A j \in 1..Len(t) : t[j] = IF j < p THEN s[j] ELSE IF j = p THEN e ELSE s[j - 1]
  BY InsertedAt DEF Queue
<1> HIDE DEF t
<1>3. TaskIds(t) = TaskIds(s) \cup {e.id}
  <2>1. TaskIds(s) = {x.id : x \in Entries(s)} /\ TaskIds(t) = {x.id : x \in Entries(t)}
    BY <1>1, TasksOf DEF Queue
  <2> QED BY <1>1, <2>1
<1>4. PositionOf(t, e.id) = p
  <2>1. p \in 1..Len(t) /\ t[p].id = e.id
    BY <1>2
  <2> QED BY <1>1, <1>3, <2>1, Found
<1>5. ASSUME NEW x \in TaskIds(s)
      PROVE  PositionOf(t, x) = IF PositionOf(s, x) < p THEN PositionOf(s, x) ELSE PositionOf(s, x) + 1
  <2> DEFINE a == PositionOf(s, x)
             k == IF a < p THEN a ELSE a + 1
  <2>1. a \in 1..Len(s) /\ s[a].id = x
    BY Found
  <2> HIDE DEF a
  <2>2. k \in 1..Len(t) /\ (k < p => k = a) /\ (~(k < p) => k # p /\ k - 1 = a)
    BY <1>2, <2>1
  <2> HIDE DEF k
  <2>3. t[k].id = x
    BY <1>2, <2>1, <2>2
  <2>4. PositionOf(t, x) = k
    BY <1>1, <1>3, <2>2, <2>3, Found
  <2> QED BY <2>4 DEF k, a
<1> QED BY <1>4, <1>5 DEF t


LEMMA OrderWithout ==
  ASSUME NEW s, Queue(s), NEW id \in TaskIds(s)
  PROVE  LET t == Sq!RemoveAt(s, PositionOf(s, id))
         IN \A x, y \in TaskIds(t) :
              PositionOf(s, x) < PositionOf(s, y) => PositionOf(t, x) < PositionOf(t, y)
<1> DEFINE p == PositionOf(s, id)
           t == Sq!RemoveAt(s, p)
<1>1. TaskIds(t) = TaskIds(s) \ {id}
  BY OutOf
<1>2. \A x \in TaskIds(t) :
        PositionOf(t, x) = IF PositionOf(s, x) < p THEN PositionOf(s, x) ELSE PositionOf(s, x) - 1
  BY PlacesWithout
<1>3. p \in 1..Len(s) /\ s[p].id = id /\ Len(s) \in Nat
  BY Found, TasksOf DEF Queue
<1> HIDE DEF t, p
<1>4. \A x \in TaskIds(t) : PositionOf(s, x) \in 1..Len(s) /\ PositionOf(s, x) # p
  <2>1. ASSUME NEW x \in TaskIds(t) PROVE PositionOf(s, x) \in 1..Len(s) /\ PositionOf(s, x) # p
    <3>1. x \in TaskIds(s) /\ x # id
      BY <1>1
    <3>2. PositionOf(s, x) \in 1..Len(s) /\ s[PositionOf(s, x)].id = x
      BY <3>1, Found
    <3> QED BY <1>3, <3>1, <3>2
  <2> QED BY <2>1
<1>5. ASSUME NEW x \in TaskIds(t), NEW y \in TaskIds(t), PositionOf(s, x) < PositionOf(s, y)
      PROVE  PositionOf(t, x) < PositionOf(t, y)
  <2> DEFINE a == PositionOf(s, x)
             c == PositionOf(s, y)
  <2>1. a \in 1..Len(s) /\ c \in 1..Len(s) /\ a # p /\ c # p /\ a < c
    BY <1>4, <1>5
  <2>2. PositionOf(t, x) = (IF a < p THEN a ELSE a - 1) /\ PositionOf(t, y) = IF c < p THEN c ELSE c - 1
    BY <1>2
  <2> HIDE DEF a, c
  <2> QED BY <1>3, <2>1, <2>2
<1> QED BY <1>5 DEF t, p

LEMMA LessIs ==
  ASSUME NEW w \in Seq(Nat), NEW id, \A i, j \in 1..Len(w) : w[i] = w[j] => i = j
  PROVE  /\ \A k \in 1..Len(w) : w[k] = id => B!Less(w, id) = Sq!RemoveAt(w, k)
         /\ (\A k \in 1..Len(w) : w[k] # id) => B!Less(w, id) = w
<1>1. DOMAIN w = 1..Len(w)
  BY LenProperties
<1>2. B!Sq!ToSet(w) = {w[i] : i \in 1..Len(w)}
  BY <1>1 DEF B!Sq!ToSet
<1>3. ASSUME NEW k \in 1..Len(w), w[k] = id PROVE B!Less(w, id) = Sq!RemoveAt(w, k)
  <2>1. (CHOOSE i \in DOMAIN w : w[i] = id) = k
    BY <1>1, <1>3
  <2>2. id \in B!Sq!ToSet(w)
    BY <1>2, <1>3
  <2>3. B!Less(w, id) = B!Sq!RemoveAt(w, k)
    BY <2>1, <2>2 DEF B!Less
  <2> QED BY <2>3 DEF B!Sq!RemoveAt, Sq!RemoveAt
<1>4. ASSUME \A k \in 1..Len(w) : w[k] # id PROVE B!Less(w, id) = w
  <2>1. id \notin B!Sq!ToSet(w)
    BY <1>2, <1>4
  <2> QED BY <2>1 DEF B!Less
<1> QED BY <1>3, <1>4

\* A task taken out goes from its list.
LEMMA ListWithout ==
  ASSUME NEW s, Queue(s), NEW id \in TaskIds(s), NEW b
  PROVE  IdsIn(Sq!RemoveAt(s, PositionOf(s, id)), b) = B!Less(IdsIn(s, b), id)
<1> DEFINE t == Sq!RemoveAt(s, PositionOf(s, id))
           w == IdsIn(s, b)
<1>1. /\ Queue(t) /\ TaskIds(t) = TaskIds(s) \ {id}
      /\ \A x \in TaskIds(t) : Get(t, x) = Get(s, x)
  BY OutOf
<1>2. \A x, y \in TaskIds(t) :
        PositionOf(s, x) < PositionOf(s, y) => PositionOf(t, x) < PositionOf(t, y)
  BY OrderWithout
<1>3. Lists(w, s, b)
  BY ListsIdsIn
<1> HIDE DEF t, w
<1>4. /\ w \in Seq(Nat) /\ Len(w) \in Nat /\ \A i, j \in 1..Len(w) : w[i] = w[j] => i = j
      /\ \A i \in 1..Len(w) : w[i] \in TaskIds(s) /\ Get(s, w[i]).bucket = b
      /\ \A x \in TaskIds(s) : Get(s, x).bucket = b => \E i \in 1..Len(w) : w[i] = x
      /\ \A i, j \in 1..Len(w) : i < j => PositionOf(s, w[i]) < PositionOf(s, w[j])
  BY <1>3, <1>1, ListsFacts
<1>5. CASE \A k \in 1..Len(w) : w[k] # id
  <2>1. Lists(w, t, b)
    BY <1>1, <1>2, <1>4, <1>5 DEF Lists
  <2>2. IdsIn(t, b) = w
    BY <1>1, <2>1, ListIs
  <2> QED BY <1>4, <1>5, <2>2, LessIs DEF t, w
<1>6. CASE \E k \in 1..Len(w) : w[k] = id
  <2>1. PICK k \in 1..Len(w) : w[k] = id
    BY <1>6
  <2> DEFINE v == Sq!RemoveAt(w, k)
             From(j) == IF j < k THEN j ELSE j + 1
  <2>2. /\ v \in Seq(Nat) /\ Len(v) = Len(w) - 1
        /\ \A j \in 1..Len(v) : v[j] = w[From(j)]
    BY <1>4, RemovedAt
  <2>3. B!Less(w, id) = v
    BY <1>4, <2>1, LessIs
  <2> HIDE DEF v
  <2>4. /\ \A j \in 1..Len(v) : From(j) \in 1..Len(w) /\ From(j) # k
        /\ \A i, j \in 1..Len(v) : i < j => From(i) < From(j)
    <3>1. Len(w) \in Nat /\ Len(v) = Len(w) - 1 /\ k \in 1..Len(w)
      BY <1>4, <2>2
    <3> QED BY <3>1
  <2>5. \A i \in 1..Len(w) : i # k => \E j \in 1..Len(v) : From(j) = i
    <3>1. ASSUME NEW i \in 1..Len(w), i # k PROVE \E j \in 1..Len(v) : From(j) = i
      <4> DEFINE j == IF i < k THEN i ELSE i - 1
      <4>1. j \in 1..Len(v) /\ From(j) = i
        BY <1>4, <2>2, <3>1
      <4> QED BY <4>1
    <3> QED BY <3>1
  <2> HIDE DEF From
  <2>6. \A j \in 1..Len(v) : v[j] \in TaskIds(t) /\ Get(t, v[j]).bucket = b
    <3>1. ASSUME NEW j \in 1..Len(v) PROVE v[j] \in TaskIds(t) /\ Get(t, v[j]).bucket = b
      <4> DEFINE l == From(j)
      <4>1. l \in 1..Len(w) /\ l # k /\ v[j] = w[l]
        BY <2>2, <2>4
      <4> HIDE DEF l
      <4>2. w[l] \in TaskIds(s) /\ Get(s, w[l]).bucket = b /\ w[l] # id
        BY <1>4, <2>1, <4>1
      <4> QED BY <1>1, <4>1, <4>2
    <3> QED BY <3>1
  <2>7. \A x \in TaskIds(t) : Get(t, x).bucket = b => \E j \in 1..Len(v) : v[j] = x
    <3>1. ASSUME NEW x \in TaskIds(t), Get(t, x).bucket = b PROVE \E j \in 1..Len(v) : v[j] = x
      <4>1. PICK i \in 1..Len(w) : w[i] = x
        BY <1>1, <1>4, <3>1
      <4>2. i # k
        BY <1>1, <2>1, <4>1
      <4> QED BY <2>2, <2>5, <4>1, <4>2
    <3> QED BY <3>1
  <2>8. \A i, j \in 1..Len(v) : i < j => PositionOf(t, v[i]) < PositionOf(t, v[j])
    BY <1>2, <1>4, <2>2, <2>4, <2>6
  <2>9. Lists(v, t, b)
    BY <2>2, <2>6, <2>7, <2>8 DEF Lists
  <2>10. IdsIn(t, b) = v
    BY <1>1, <2>9, ListIs
  <2> QED BY <2>3, <2>10 DEF t, w
<1> QED BY <1>5, <1>6

\* A task put in comes to its list, behind those before it, and to no other.
LEMMA ListWith ==
  ASSUME NEW s, Queue(s), NEW p \in 1..(Len(s) + 1), NEW e \in Task, e.id \notin TaskIds(s), NEW b
  PROVE  LET t == Sq!InsertAt(s, p, e)
             w == IdsIn(s, b)
         IN /\ e.bucket # b => IdsIn(t, b) = w
            /\ \A k \in 1..(Len(w) + 1) :
                 e.bucket = b /\ (\A j \in 1..Len(w) : j < k <=> PositionOf(s, w[j]) < p)
                 => IdsIn(t, b) = Sq!InsertAt(w, k, e.id)
<1> DEFINE t == Sq!InsertAt(s, p, e)
           w == IdsIn(s, b)
<1>1. Queue(t) /\ Entries(t) = Entries(s) \cup {e}
  BY QueueWith
<1>2. /\ PositionOf(t, e.id) = p
      /\ \A x \in TaskIds(s) :
           PositionOf(t, x) = IF PositionOf(s, x) < p THEN PositionOf(s, x) ELSE PositionOf(s, x) + 1
  BY PlacesWith
<1>3. Lists(w, s, b)
  BY ListsIdsIn
<1> HIDE DEF t, w
<1>4. /\ TaskIds(t) = TaskIds(s) \cup {e.id} /\ Get(t, e.id) = e
      /\ \A x \in TaskIds(s) : Get(t, x) = Get(s, x)
  BY <1>1, CameIn
<1>5. /\ w \in Seq(Nat) /\ Len(w) \in Nat /\ e.id \in Nat
      /\ \A i \in 1..Len(w) : w[i] \in TaskIds(s) /\ Get(s, w[i]).bucket = b
      /\ \A x \in TaskIds(s) : Get(s, x).bucket = b => \E i \in 1..Len(w) : w[i] = x
      /\ \A i, j \in 1..Len(w) : i < j => PositionOf(s, w[i]) < PositionOf(s, w[j])
      /\ \A i \in 1..Len(w) : PositionOf(s, w[i]) \in Nat
  <2>1. e.id \in Nat
    BY DEF Task
  <2>2. Len(s) \in Nat
    BY TasksOf DEF Queue
  <2> QED BY <1>3, <2>1, ListsFacts
<1>8. ASSUME NEW i \in 1..Len(w), NEW j \in 1..Len(w), i < j
      PROVE  PositionOf(t, w[i]) < PositionOf(t, w[j])
  <2> DEFINE a == PositionOf(s, w[i])
             c == PositionOf(s, w[j])
  <2>1. a \in Nat /\ c \in Nat /\ a < c /\ p \in Nat
    BY <1>5, <1>8
  <2>2. /\ PositionOf(t, w[i]) = IF a < p THEN a ELSE a + 1
        /\ PositionOf(t, w[j]) = IF c < p THEN c ELSE c + 1
    BY <1>2, <1>5
  <2> HIDE DEF a, c
  <2> QED BY <2>1, <2>2
<1>6. CASE e.bucket # b
  <2>1. Lists(w, t, b)
    BY <1>4, <1>5, <1>6, <1>8 DEF Lists
  <2> QED BY <1>1, <1>6, <2>1, ListIs DEF t, w
<1>7. ASSUME NEW k \in 1..(Len(w) + 1), e.bucket = b,
             \A j \in 1..Len(w) : j < k <=> PositionOf(s, w[j]) < p
      PROVE  IdsIn(t, b) = Sq!InsertAt(w, k, e.id)
  <2> DEFINE v == Sq!InsertAt(w, k, e.id)
  <2>1. /\ v \in Seq(Nat) /\ Len(v) = Len(w) + 1
        /\ \A j \in 1..Len(v) : v[j] = IF j < k THEN w[j] ELSE IF j = k THEN e.id ELSE w[j - 1]
    <3>1. w \in Seq(Nat) /\ e.id \in Nat /\ k \in 1..(Len(w) + 1)
      BY <1>5
    <3>2. ASSUME NEW x \in Nat
          PROVE  LET u == Sq!InsertAt(w, k, x)
                 IN /\ u \in Seq(Nat) /\ Len(u) = Len(w) + 1
                    /\ \A j \in 1..Len(u) : u[j] = IF j < k THEN w[j] ELSE IF j = k THEN x ELSE w[j - 1]
      BY <3>1, InsertedAt
    <3> QED BY <3>1, <3>2
  <2> HIDE DEF v
  <2>2. \A j \in 1..Len(v) : (j < k /\ j \in 1..Len(w)) \/ j = k \/ (j > k /\ j - 1 \in 1..Len(w))
    BY <1>5, <2>1
  <2>3. \A j \in 1..Len(v) : v[j] \in TaskIds(t) /\ Get(t, v[j]).bucket = b
    <3>1. ASSUME NEW j \in 1..Len(v) PROVE v[j] \in TaskIds(t) /\ Get(t, v[j]).bucket = b
      <4>1. \A l \in 1..Len(w) : w[l] \in TaskIds(t) /\ Get(t, w[l]).bucket = b
        BY <1>4, <1>5
      <4>2. e.id \in TaskIds(t) /\ Get(t, e.id).bucket = b
        BY <1>4, <1>7
      <4>3. CASE j = k
        BY <2>1, <4>2, <4>3
      <4>4. CASE j < k /\ j \in 1..Len(w)
        BY <2>1, <4>1, <4>4
      <4>5. CASE j > k /\ j - 1 \in 1..Len(w)
        <5>1. ~(j < k) /\ j # k
          BY <2>1, <4>5
        <5> QED BY <2>1, <4>1, <4>5, <5>1
      <4> QED BY <2>2, <4>3, <4>4, <4>5
    <3> QED BY <3>1
  <2>4. ASSUME NEW x \in TaskIds(t), Get(t, x).bucket = b PROVE \E j \in 1..Len(v) : v[j] = x
    <3>1. CASE x = e.id
      BY <1>5, <2>1, <3>1
    <3>2. CASE x # e.id
      <4>1. PICK i \in 1..Len(w) : w[i] = x
        BY <1>4, <1>5, <2>4, <3>2
      <4> DEFINE j == IF i < k THEN i ELSE i + 1
      <4>2. j \in 1..Len(v) /\ (i < k => j < k /\ j = i) /\ (~(i < k) => ~(j < k) /\ j # k /\ j - 1 = i)
        BY <1>5, <2>1
      <4> HIDE DEF j
      <4>3. v[j] = w[i]
        BY <2>1, <4>2
      <4> QED BY <4>1, <4>2, <4>3
    <3> QED BY <3>1, <3>2
  <2> DEFINE at(j) == PositionOf(t, w[j])
  <2>5. \A j \in 1..Len(w) : /\ at(j) \in Nat /\ (j < k => at(j) < p) /\ (~(j < k) => at(j) > p)
    BY <1>2, <1>5, <1>7
  <2>6. \A i, j \in 1..Len(w) : i < j => at(i) < at(j)
    BY <1>8
  <2>7. ASSUME NEW i \in 1..Len(v), NEW j \in 1..Len(v), i < j
        PROVE  PositionOf(t, v[i]) < PositionOf(t, v[j])
    <3> HIDE DEF at
    <3>1. CASE j < k
      <4>1. i < k /\ i \in 1..Len(w) /\ j \in 1..Len(w)
        <5>1. Len(w) \in Nat /\ Len(v) = Len(w) + 1
          BY <1>5, <2>1
        <5> QED BY <2>7, <3>1, <5>1
      <4>2. v[i] = w[i] /\ v[j] = w[j]
        BY <2>1, <3>1, <4>1
      <4> QED BY <2>6, <2>7, <4>1, <4>2 DEF at
    <3>2. CASE j = k
      <4>1. i < k /\ i \in 1..Len(w)
        BY <1>5, <2>1, <2>7, <3>2
      <4>2. v[i] = w[i] /\ v[j] = e.id
        BY <2>1, <3>2, <4>1
      <4> QED BY <1>2, <2>5, <4>1, <4>2 DEF at
    <3>3. CASE j > k /\ i < k
      <4>1. i \in 1..Len(w) /\ j - 1 \in 1..Len(w) /\ i < j - 1 /\ ~(j < k) /\ j # k
        BY <1>5, <2>1, <2>7, <3>3
      <4>2. v[i] = w[i] /\ v[j] = w[j - 1]
        BY <2>1, <3>3, <4>1
      <4> QED BY <2>6, <4>1, <4>2 DEF at
    <3>4. CASE j > k /\ i = k
      <4>1. j - 1 \in 1..Len(w) /\ ~(j - 1 < k) /\ ~(j < k) /\ j # k /\ ~(i < k)
        BY <1>5, <2>1, <2>7, <3>4
      <4>2. v[i] = e.id /\ v[j] = w[j - 1]
        BY <2>1, <3>4, <4>1
      <4>3. at(j - 1) > p /\ at(j - 1) \in Nat
        BY <2>5, <4>1
      <4> QED BY <1>2, <1>5, <4>2, <4>3 DEF at
    <3>5. CASE j > k /\ i > k
      <4>1. /\ i - 1 \in 1..Len(w) /\ j - 1 \in 1..Len(w) /\ i - 1 < j - 1
            /\ ~(j < k) /\ j # k /\ ~(i < k) /\ i # k
        BY <1>5, <2>1, <2>7, <3>5
      <4>2. v[i] = w[i - 1] /\ v[j] = w[j - 1]
        BY <2>1, <4>1
      <4> QED BY <2>6, <4>1, <4>2 DEF at
    <3> QED BY <1>5, <2>1, <2>7, <3>1, <3>2, <3>3, <3>4, <3>5
  <2>8. Lists(v, t, b)
    BY <2>1, <2>3, <2>4, <2>7 DEF Lists
  <2> QED BY <1>1, <2>8, ListIs DEF v
<1> QED BY <1>6, <1>7 DEF t, w

\* Where an index of a list is in the vector.
LEMMA SpotSplits ==
  ASSUME NEW s, Queue(s), NEW b, NEW index \in Nat \cup {None}
  PROVE  LET w == IdsIn(s, b)
             k == 1 + IF index = None \/ index > Len(w) THEN Len(w) ELSE index
         IN /\ k \in 1..(Len(w) + 1)
            /\ \A j \in 1..Len(w) : j < k <=> PositionOf(s, w[j]) < Spot(s, b, index)
<1> DEFINE w == IdsIn(s, b)
           k == 1 + IF index = None \/ index > Len(w) THEN Len(w) ELSE index
           there == {i \in DOMAIN s : s[i].bucket = b}
<1>1. Lists(w, s, b)
  BY ListsIdsIn
<1>2. Spot(s, b, index) = IF index # None /\ index < Len(w) THEN PositionOf(s, w[index + 1])
                          ELSE IF there = {} THEN Len(s) + 1
                          ELSE 1 + CHOOSE i \in there : \A j \in there : j <= i
  BY DEF Spot
<1> HIDE DEF w
<1>3. /\ Len(w) \in Nat /\ \A i \in 1..Len(w) : PositionOf(s, w[i]) \in Nat
      /\ \A i, j \in 1..Len(w) : i < j => PositionOf(s, w[i]) < PositionOf(s, w[j])
  BY <1>1, ListsFacts
<1>4. CASE index # None /\ index < Len(w)
  <2>1. index \in Nat /\ k = index + 1 /\ k \in 1..Len(w)
    BY <1>3, <1>4
  <2>2. Spot(s, b, index) = PositionOf(s, w[k])
    BY <1>2, <1>4, <2>1
  <2> HIDE DEF k
  <2>3. \A j \in 1..Len(w) : j < k \/ j = k \/ k < j
    BY <2>1
  <2>4. \A j \in 1..Len(w) : j < k <=> PositionOf(s, w[j]) < PositionOf(s, w[k])
    BY <1>3, <2>1, <2>3
  <2>5. k \in 1..(Len(w) + 1)
    BY <1>3, <2>1
  <2> QED BY <2>2, <2>4, <2>5 DEF k, w
<1>5. CASE ~(index # None /\ index < Len(w))
  <2>1. k = Len(w) + 1
    BY <1>3, <1>5
  <2>2. Len(s) \in Nat /\ DOMAIN s = 1..Len(s)
    BY TasksOf DEF Queue
  <2>3. \A j \in 1..Len(w) : PositionOf(s, w[j]) \in there
    <3>1. ASSUME NEW j \in 1..Len(w) PROVE PositionOf(s, w[j]) \in there
      <4>1. w[j] \in TaskIds(s) /\ Get(s, w[j]).bucket = b
        BY <1>1 DEF Lists
      <4>2. PositionOf(s, w[j]) \in 1..Len(s) /\ s[PositionOf(s, w[j])] = Get(s, w[j])
        BY <4>1, Found
      <4> QED BY <2>2, <4>1, <4>2
    <3> QED BY <3>1
  <2>4. \A j \in 1..Len(w) : PositionOf(s, w[j]) < Spot(s, b, index)
    <3>1. CASE there = {}
      BY <2>3, <3>1
    <3>2. CASE there # {}
      <4>1. there \in SUBSET (1..Len(s))
        BY <2>2
      <4>2. Spot(s, b, index) = 1 + CHOOSE i \in there : \A j \in there : j <= i
        BY <1>2, <1>5, <3>2
      <4> HIDE DEF there
      <4>3. \E m \in there : \A j \in there : j <= m
        BY <2>2, <3>2, <4>1, HasGreatest
      <4>4. PICK m \in there : Spot(s, b, index) = 1 + m /\ \A j \in there : j <= m
        BY <4>2, <4>3
      <4> QED BY <1>3, <2>2, <2>3, <4>1, <4>4
    <3> QED BY <3>1, <3>2
  <2> HIDE DEF there, k
  <2>5. k \in 1..(Len(w) + 1) /\ \A j \in 1..Len(w) : j < k
    BY <1>3, <2>1
  <2> QED BY <2>4, <2>5 DEF k, w
<1> QED BY <1>4, <1>5

\* Placing a task moves it from its list to an index of another, as in Move.
LEMMA ListPlaced ==
  ASSUME NEW s, Queue(s), NEW id \in TaskIds(s), NEW b \in Bucket, NEW index \in Nat \cup {None},
         NEW c
  PROVE  LET rest == B!Less(IdsIn(s, c), id)
             at == IF index = None \/ index > Len(rest) THEN Len(rest) ELSE index
         IN IdsIn(Place(s, id, b, index), c)
              = IF c = b THEN Sq!InsertAt(rest, at + 1, id) ELSE rest
<1> DEFINE p == PositionOf(s, id)
           r == Sq!RemoveAt(s, p)
           e == [s[p] EXCEPT !.bucket = b]
           spot == Spot(r, b, index)
           w == IdsIn(r, c)
           k == 1 + IF index = None \/ index > Len(w) THEN Len(w) ELSE index
<1>1. Queue(r) /\ TaskIds(r) = TaskIds(s) \ {id}
  BY OutOf
<1>2. s[p] \in Task /\ s[p].id = id
  BY Found
<1>3. e \in Task /\ e.id = id /\ e.bucket = b
  BY <1>2 DEF Task
<1>4. Place(s, id, b, index) = Sq!InsertAt(r, spot, e)
  BY DEF Place
<1>5. w = B!Less(IdsIn(s, c), id)
  BY ListWithout
<1>6. spot \in 1..(Len(r) + 1)
  BY <1>1, SpotOK
<1>7. c = b => k \in 1..(Len(w) + 1) /\ \A j \in 1..Len(w) : j < k <=> PositionOf(r, w[j]) < spot
  BY <1>1, SpotSplits
<1> DEFINE at == IF index = None \/ index > Len(w) THEN Len(w) ELSE index
<1>8. c = b => k = at + 1
  <2>1. c = b => k \in Nat /\ Len(w) \in Nat
    <3>1. Lists(w, r, c)
      BY <1>1, ListsIdsIn
    <3> HIDE DEF w
    <3> QED BY <1>1, <1>7, <3>1, ListsFacts
  <2> QED BY <2>1
<1> HIDE DEF r, e, spot, w, k, at
<1>9. c # b => IdsIn(Sq!InsertAt(r, spot, e), c) = w
  BY <1>1, <1>3, <1>6, ListWith DEF w
<1>10. c = b => IdsIn(Sq!InsertAt(r, spot, e), c) = Sq!InsertAt(w, k, id)
  BY <1>1, <1>3, <1>6, <1>7, ListWith DEF w
<1> QED BY <1>4, <1>5, <1>8, <1>9, <1>10 DEF at

\* Normalising changes no list of the settled queue.
LEMMA ListsNormal ==
  ASSUME NEW s, Queue(s), NEW now \in Nat, NEW b
  PROVE  IdsIn(Normalized(s, now), b) = IdsIn(Settled(s), b)
<1> DEFINE t == Normalized(s, now)
           u == Settled(s)
<1>1. /\ Queue(t) /\ Queue(u) /\ TaskIds(t) = TaskIds(u) /\ Len(t) = Len(u)
      /\ \A i \in 1..Len(t) : t[i].id = u[i].id /\ t[i].bucket = u[i].bucket
  BY NormalizedOK, SettledOK
<1> HIDE DEF t, u
<1>2. ASSUME NEW id \in TaskIds(u)
      PROVE  PositionOf(t, id) = PositionOf(u, id) /\ Get(t, id).bucket = Get(u, id).bucket
  <2>1. PositionOf(u, id) \in 1..Len(u) /\ u[PositionOf(u, id)] = Get(u, id) /\ Get(u, id).id = id
    BY <1>1, Found
  <2>2. t[PositionOf(u, id)].id = id /\ t[PositionOf(u, id)].bucket = Get(u, id).bucket
    BY <1>1, <2>1
  <2>3. PositionOf(t, id) = PositionOf(u, id) /\ t[PositionOf(t, id)] = Get(t, id)
    BY <1>1, <2>1, <2>2, Found
  <2> QED BY <2>2, <2>3
<1>3. Lists(IdsIn(u, b), u, b)
  BY <1>1, ListsIdsIn
<1>4. Lists(IdsIn(u, b), t, b)
  BY <1>1, <1>2, <1>3 DEF Lists
<1> QED BY <1>1, <1>4, ListIs DEF t, u

\* Of two tasks in Now, the second steps back to the front of Next.
LEMMA SettledTwo ==
  ASSUME NEW s, Queue(s), Len(IdsIn(s, "now")) = 2
  PROVE  Settled(s) = Place(s, IdsIn(s, "now")[2], "next", 0)
<1> DEFINE ids == IdsIn(s, "now")
           M == Len(ids) - 1
           Body(f, k) == IF k = 0 THEN s ELSE Place(f[k - 1], ids[Len(ids) + 1 - k], "next", 0)
           g == [k \in 0..M |-> IF k = 0 THEN s ELSE Place(s, ids[2], "next", 0)]
           left == CHOOSE f : f = [k \in 0..M |-> Body(f, k)]
<1>1. Len(ids) = 2 /\ ids # <<>> /\ 0..M = {0, 1} /\ M = 1
  <2>1. Len(<<>>) = 0
    BY EmptySeq
  <2>2. Len(ids) = 2 /\ M = 1
    OBVIOUS
  <2> HIDE DEF ids, M
  <2> QED BY <2>1, <2>2
<1>2. g = [k \in 0..M |-> Body(g, k)]
  <2> HIDE DEF M
  <2>1. g[0] = s /\ g[1] = Place(s, ids[2], "next", 0)
    BY <1>1
  <2> HIDE DEF ids
  <2>2. Body(g, 0) = s /\ Body(g, 1) = Place(g[0], ids[2], "next", 0)
    BY <1>1
  <2>3. \A k \in 0..M : g[k] = Body(g, k)
    BY <1>1, <2>1, <2>2
  <2>4. g = [k \in 0..M |-> g[k]]
    OBVIOUS
  <2> HIDE DEF g
  <2> QED BY <2>3, <2>4
<1>3. left = [k \in 0..M |-> Body(left, k)]
  BY <1>2
<1>4. Settled(s) = left[M]
  BY <1>1 DEF Settled
<1> HIDE DEF left
<1>5. left[M] = Place(s, ids[2], "next", 0)
  <2> HIDE DEF ids
  <2>1. left[0] = Body(left, 0) /\ left[1] = Body(left, 1)
    <3> HIDE DEF M
    <3>1. 0 \in 0..M /\ 1 \in 0..M
      BY <1>1
    <3> QED BY <1>3, <3>1
  <2> QED BY <1>1, <2>1
<1> QED BY <1>4, <1>5

LEMMA AtMostOne ==
  ASSUME NEW s, Queue(s), NEW b,
         \A x, y \in TaskIds(s) : Get(s, x).bucket = b /\ Get(s, y).bucket = b => x = y
  PROVE  Len(IdsIn(s, b)) \in {0, 1}
<1> DEFINE w == IdsIn(s, b)
<1>1. Lists(w, s, b)
  BY ListsIdsIn
<1> HIDE DEF w
<1>2. /\ Len(w) \in Nat /\ \A i, j \in 1..Len(w) : w[i] = w[j] => i = j
      /\ \A i \in 1..Len(w) : w[i] \in TaskIds(s) /\ Get(s, w[i]).bucket = b
  BY <1>1, ListsFacts
<1>3. ASSUME Len(w) > 1 PROVE FALSE
  <2>1. 1 \in 1..Len(w) /\ 2 \in 1..Len(w)
    BY <1>2, <1>3
  <2>2. w[1] = w[2]
    BY <1>2, <2>1
  <2> QED BY <1>2, <2>1, <2>2
<1> QED BY <1>2, <1>3 DEF w

\* Short lists.
LEMMA FrontOf ==
  ASSUME NEW w \in Seq(Nat), NEW x \in Nat
  PROVE  LET v == Sq!InsertAt(w, 1, x)
         IN /\ v \in Seq(Nat) /\ Len(v) = Len(w) + 1 /\ Len(w) \in Nat
            /\ \A j \in 1..Len(v) : v[j] = IF j < 1 THEN w[j] ELSE IF j = 1 THEN x ELSE w[j - 1]
<1> DEFINE S == Nat
           v == Sq!InsertAt(w, 1, x)
<1>1. w \in Seq(S) /\ x \in S
  OBVIOUS
<1> HIDE DEF S
<1>2. Len(w) \in Nat
  BY <1>1, LenProperties
<1>3. 1 \in 1..(Len(w) + 1)
  BY <1>2
<1>4. /\ v \in Seq(S) /\ Len(v) = Len(w) + 1
      /\ \A j \in 1..Len(v) : v[j] = IF j < 1 THEN w[j] ELSE IF j = 1 THEN x ELSE w[j - 1]
  BY <1>1, <1>3, InsertedAt
<1> QED BY <1>2, <1>4 DEF S

LEMMA InFront ==
  ASSUME NEW w \in Seq(Nat), NEW x \in Nat
  PROVE  /\ Sq!InsertAt(w, 1, x) = <<x>> \o w
         /\ Sq!InsertAt(w, 1, x)[1] = x
         /\ Len(w) = 1 => /\ w = <<w[1]>> /\ w[1] \in Nat
                          /\ Len(Sq!InsertAt(w, 1, x)) = 2 /\ Sq!InsertAt(w, 1, x)[2] = w[1]
<1> DEFINE v == Sq!InsertAt(w, 1, x)
           u == <<x>> \o w
<1>1. Len(w) \in Nat /\ \A i \in 1..Len(w) : w[i] \in Nat
  BY LenProperties, ElementOfSeq
<1>2. /\ v \in Seq(Nat) /\ Len(v) = Len(w) + 1
      /\ \A j \in 1..Len(v) : v[j] = IF j < 1 THEN w[j] ELSE IF j = 1 THEN x ELSE w[j - 1]
  BY FrontOf
<1>3. <<x>> \in Seq(Nat) /\ Len(<<x>>) = 1 /\ <<x>>[1] = x
  OBVIOUS
<1>4. u \in Seq(Nat) /\ Len(u) = Len(w) + 1 /\ u[1] = x /\ \A j \in 2..Len(u) : u[j] = w[j - 1]
  BY <1>1, <1>3, ConcatProperties
<1> HIDE DEF u, v
<1>5. v = u
  <2>1. ASSUME NEW j \in 1..Len(v) PROVE v[j] = u[j]
    <3>1. CASE j = 1
      BY <1>2, <1>4, <3>1
    <3>2. CASE j # 1
      <4>1. j \in 2..Len(u) /\ ~(j < 1)
        BY <1>1, <1>2, <1>4, <3>2
      <4> QED BY <1>2, <1>4, <3>2, <4>1
    <3> QED BY <3>1, <3>2
  <2> QED BY <1>2, <1>4, <2>1, SeqEqual
<1>6. v[1] = x
  BY <1>1, <1>2
<1>8. CASE Len(w) = 1
  <2>1. w = <<w[1]>>
    BY <1>1, <1>8, SeqEqual
  <2>2. Len(v) = 2 /\ v[2] = w[1]
    BY <1>1, <1>2, <1>8
  <2> QED BY <1>1, <1>5, <1>6, <1>8, <2>1, <2>2 DEF u, v
<1>9. CASE Len(w) # 1
  BY <1>5, <1>6, <1>9 DEF u, v
<1> QED BY <1>8, <1>9

LEMMA Alone ==
  ASSUME NEW w \in Seq(Nat), NEW x \in Nat, Len(w) = 0
  PROVE  w = <<>> /\ Sq!InsertAt(w, 1, x) = <<x>>
<1> DEFINE v == Sq!InsertAt(w, 1, x)
<1>1. w = <<>>
  BY EmptySeq
<1>3. /\ v \in Seq(Nat) /\ Len(v) = Len(w) + 1
      /\ \A j \in 1..Len(v) : v[j] = IF j < 1 THEN w[j] ELSE IF j = 1 THEN x ELSE w[j - 1]
  BY FrontOf
<1> HIDE DEF v
<1>4. <<x>> \in Seq(Nat) /\ Len(<<x>>) = 1 /\ <<x>>[1] = x
  OBVIOUS
<1>5. Len(v) = 1 /\ \A j \in 1..Len(v) : v[j] = <<x>>[j]
  BY <1>3, <1>4
<1>6. v = <<x>>
  BY <1>3, <1>4, <1>5, SeqEqual
<1> QED BY <1>1, <1>6 DEF v

\* A task that takes Now, as in Enter; the one it finds there steps back.
LEMMA ListsEnter ==
  ASSUME NEW s, Queue(s), NEW id \in TaskIds(s), NEW now \in Nat, NEW b,
         \A x, y \in TaskIds(s) \ {id} :
           Get(s, x).bucket = "now" /\ Get(s, y).bucket = "now" => x = y
  PROVE  IdsIn(Normalized(Place(s, id, "now", 0), now), b)
           = IF b = "now" THEN <<id>>
             ELSE IF b = "next"
             THEN B!Less(IdsIn(s, "now"), id) \o B!Less(IdsIn(s, "next"), id)
             ELSE B!Less(IdsIn(s, b), id)
<1> DEFINE r == Sq!RemoveAt(s, PositionOf(s, id))
           rest(c) == IdsIn(r, c)
           u == Place(s, id, "now", 0)
           t == Normalized(u, now)
<1>1. /\ Queue(r) /\ TaskIds(r) = TaskIds(s) \ {id}
      /\ \A x \in TaskIds(r) : Get(r, x) = Get(s, x)
  BY OutOf
<1>2. \A c : rest(c) = B!Less(IdsIn(s, c), id)
  BY ListWithout
<1>3. /\ "now" \in Bucket /\ "next" \in Bucket /\ 0 \in Nat \cup {None} /\ 0 # None
      /\ ~(0 > Len(rest("now")) /\ Len(rest("now")) \in Nat) /\ 0 + 1 = 1
  BY BucketAssumption, AbsentAssumption
<1>4. Queue(u) /\ TaskIds(u) = TaskIds(s)
  BY <1>3, Placed
<1>5. id \in Nat
  BY Found DEF Task
<1> HIDE DEF r
<1>6. Len(rest("now")) \in {0, 1}
  BY <1>1, AtMostOne
<1>7. ASSUME NEW c PROVE rest(c) \in Seq(Nat)
  <2>1. Lists(rest(c), r, c)
    BY <1>1, ListsIdsIn
  <2> QED BY <2>1 DEF Lists
<1>8. ASSUME NEW c
      PROVE  IdsIn(u, c) = IF c = "now" THEN Sq!InsertAt(rest("now"), 1, id) ELSE rest(c)
  <2> DEFINE l == rest(c)
             at == IF 0 = None \/ 0 > Len(l) THEN Len(l) ELSE 0
  <2>1. IdsIn(u, c) = IF c = "now" THEN Sq!InsertAt(l, at + 1, id) ELSE l
    <3> HIDE DEF rest
    <3> QED BY <1>2, <1>3, ListPlaced
  <2>2. Len(l) \in Nat
    <3> HIDE DEF rest
    <3> QED BY <1>7, LenProperties
  <2>3. at + 1 = 1
    BY <1>3, <2>2
  <2> QED BY <2>1, <2>3
<1>9. \A c : IdsIn(t, c) = IdsIn(Settled(u), c)
  BY <1>4, ListsNormal
<1> HIDE DEF u, t, rest
<1>10. CASE Len(rest("now")) = 0
  <2>1. /\ IdsIn(u, "now") = <<id>> /\ rest("now") = <<>>
        /\ <<>> \o rest("next") = rest("next")
    <3>1. rest("next") \in Seq(Nat) /\ rest("now") \in Seq(Nat)
      BY <1>7
    <3>2. rest("now") = <<>> /\ Sq!InsertAt(rest("now"), 1, id) = <<id>>
      <4> DEFINE w == rest("now")
      <4>1. w \in Seq(Nat) /\ Len(w) = 0 /\ id \in Nat
        BY <1>5, <1>10, <3>1
      <4> HIDE DEF w
      <4>2. w = <<>> /\ Sq!InsertAt(w, 1, id) = <<id>>
        BY <4>1, Alone
      <4> QED BY <4>2 DEF w
    <3>3. <<>> \o rest("next") = rest("next")
      BY <3>1, ConcatEmptySeq
    <3> QED BY <1>8, <3>2, <3>3
  <2>2. Settled(u) = u
    <3>1. Len(<<id>>) = 1 /\ Len(IdsIn(u, "now")) = Len(<<id>>)
      BY <2>1
    <3>2. Len(IdsIn(u, "now")) <= 1
      BY <3>1
    <3> QED BY <1>4, <3>2, SettledOK
  <2>3. IdsIn(t, b) = IF b = "now" THEN <<id>> ELSE rest(b)
    BY <1>8, <1>9, <2>1, <2>2
  <2>4. IdsIn(t, b) = IF b = "now" THEN <<id>> ELSE IF b = "next" THEN rest("now") \o rest("next")
                      ELSE rest(b)
    BY <2>1, <2>3
  <2> QED BY <1>2, <2>4 DEF t, u
<1>11. CASE Len(rest("now")) = 1
  <2> DEFINE x == rest("now")[1]
             now2 == IdsIn(u, "now")
             v == Place(u, x, "next", 0)
  <2>1. /\ Len(now2) = 2 /\ now2[1] = id /\ now2[2] = x /\ x \in Nat /\ rest("now") = <<x>>
        /\ <<x>> \o rest("next") = Sq!InsertAt(rest("next"), 1, x)
    <3>1. rest("next") \in Seq(Nat) /\ rest("now") \in Seq(Nat)
      BY <1>7
    <3>2. /\ rest("now") = <<x>> /\ x \in Nat
          /\ Len(Sq!InsertAt(rest("now"), 1, id)) = 2 /\ Sq!InsertAt(rest("now"), 1, id)[1] = id
          /\ Sq!InsertAt(rest("now"), 1, id)[2] = x
      BY <1>5, <1>11, <3>1, InFront
    <3> HIDE DEF x
    <3>3. <<x>> \o rest("next") = Sq!InsertAt(rest("next"), 1, x)
      BY <3>1, <3>2, InFront
    <3> QED BY <1>8, <3>2, <3>3
  <2>2. Settled(u) = v
    BY <1>4, <2>1, SettledTwo
  <2>3. /\ x \in TaskIds(r) /\ Get(r, x).bucket = "now"
    <3>1. Lists(rest("now"), r, "now")
      BY <1>1, ListsIdsIn DEF rest
    <3> QED BY <1>11, <3>1 DEF Lists
  <2>4. x \in TaskIds(u) /\ x # id
    BY <1>1, <1>4, <2>3
  <2> HIDE DEF x, now2, v
  <2>5. ASSUME NEW c, c # "now" PROVE B!Less(IdsIn(u, c), x) = rest(c)
    <3>1. Lists(rest(c), r, c)
      BY <1>1, ListsIdsIn DEF rest
    <3>2. /\ rest(c) \in Seq(Nat) /\ \A i, j \in 1..Len(rest(c)) : rest(c)[i] = rest(c)[j] => i = j
          /\ \A i \in 1..Len(rest(c)) : rest(c)[i] \in TaskIds(r) /\ Get(r, rest(c)[i]).bucket = c
      BY <1>1, <3>1, ListsFacts
    <3>3. \A i \in 1..Len(rest(c)) : rest(c)[i] # x
      BY <2>3, <2>5, <3>2
    <3>4. IdsIn(u, c) = rest(c)
      BY <1>8, <2>5
    <3> QED BY <3>2, <3>3, <3>4, LessIs
  <2>6. B!Less(now2, x) = <<id>>
    <3>1. Lists(now2, u, "now")
      BY <1>4, ListsIdsIn DEF now2
    <3>2. now2 \in Seq(Nat) /\ \A i, j \in 1..Len(now2) : now2[i] = now2[j] => i = j
      BY <1>4, <3>1, ListsFacts
    <3>3. 2 \in 1..Len(now2)
      BY <2>1
    <3>4. B!Less(now2, x) = Sq!RemoveAt(now2, 2)
      BY <2>1, <3>2, <3>3, LessIs
    <3> DEFINE w == Sq!RemoveAt(now2, 2)
    <3>5. /\ w \in Seq(Nat) /\ Len(w) = Len(now2) - 1
          /\ \A j \in 1..Len(w) : w[j] = now2[IF j < 2 THEN j ELSE j + 1]
      BY <3>2, <3>3, RemovedAt
    <3> HIDE DEF w
    <3>6. Len(w) = 1 /\ w[1] = id
      BY <2>1, <3>5
    <3>7. <<id>> \in Seq(Nat) /\ Len(<<id>>) = 1 /\ <<id>>[1] = id
      BY <1>5
    <3>8. w = <<id>>
      <4>1. \A i \in 1..Len(w) : w[i] = <<id>>[i]
        BY <3>6, <3>7
      <4> QED BY <3>5, <3>6, <3>7, <4>1, SeqEqual
    <3> QED BY <3>4, <3>8 DEF w
  <2>7. ASSUME NEW c
        PROVE  IdsIn(v, c) = IF c = "now" THEN <<id>>
                             ELSE IF c = "next" THEN Sq!InsertAt(rest("next"), 1, x) ELSE rest(c)
    <3> DEFINE l == B!Less(IdsIn(u, c), x)
               at == IF 0 = None \/ 0 > Len(l) THEN Len(l) ELSE 0
    <3>1. IdsIn(v, c) = IF c = "next" THEN Sq!InsertAt(l, at + 1, x) ELSE l
      BY <1>3, <1>4, <2>4, ListPlaced DEF v
    <3>2. CASE c = "now"
      BY <2>6, <3>1, <3>2 DEF now2
    <3>3. CASE c = "next"
      <4>1. l = rest("next") /\ Len(rest("next")) \in Nat
        BY <1>7, <2>5, <3>3, LenProperties
      <4> HIDE DEF l
      <4>2. at + 1 = 1
        BY <1>3, <4>1
      <4> HIDE DEF at
      <4> QED BY <3>1, <3>3, <4>1, <4>2
    <3>4. CASE c # "now" /\ c # "next"
      BY <2>5, <3>1, <3>4
    <3> QED BY <3>2, <3>3, <3>4
  <2>8. IdsIn(t, b) = IF b = "now" THEN <<id>>
                      ELSE IF b = "next" THEN rest("now") \o rest("next") ELSE rest(b)
    BY <1>9, <2>1, <2>2, <2>7
  <2> QED BY <1>2, <2>8 DEF t, u
<1> QED BY <1>6, <1>10, <1>11

(***************************************************************************)
(* Requests on lists                                                       *)
(***************************************************************************)
\* At most one task in Now.
Single(s) ==
  /\ Queue(s)
  /\ \A x, y \in TaskIds(s) : Get(s, x).bucket = "now" /\ Get(s, y).bucket = "now" => x = y

LEMMA FineSingle ==
  ASSUME NEW s, NEW now, Fine(s, now)
  PROVE  Single(s.tasks)
BY DEF Fine, Held, Tidy, Single

LEMMA ListsStay ==
  ASSUME NEW s, Single(s), NEW now \in Nat, NEW b
  PROVE  IdsIn(Normalized(s, now), b) = IdsIn(s, b)
<1> DEFINE n == Len(IdsIn(s, "now"))
<1>1. Queue(s) /\ n \in {0, 1}
  BY AtMostOne DEF Single
<1>2. n <= 1
  <2> HIDE DEF n
  <2> QED BY <1>1
<1>3. Settled(s) = s
  BY <1>1, <1>2, SettledOK
<1> QED BY <1>1, <1>3, ListsNormal

LEMMA OnList ==
  ASSUME NEW s, Queue(s), NEW b
  PROVE  LET w == IdsIn(s, b)
         IN /\ w \in Seq(Nat) /\ Len(w) \in Nat /\ DOMAIN w = 1..Len(w)
            /\ \A i, j \in 1..Len(w) : w[i] = w[j] => i = j
            /\ \A i \in 1..Len(w) : w[i] \in TaskIds(s) /\ Get(s, w[i]).bucket = b
            /\ \A id \in TaskIds(s) : Get(s, id).bucket = b => \E i \in 1..Len(w) : w[i] = id
            /\ \A id : id \in Sq!ToSet(w) <=> \E i \in 1..Len(w) : w[i] = id
            /\ \A id : id \in B!Sq!ToSet(w) <=> \E i \in 1..Len(w) : w[i] = id
<1> DEFINE w == IdsIn(s, b)
<1>1. Lists(w, s, b)
  BY ListsIdsIn
<1> HIDE DEF w
<1>2. /\ w \in Seq(Nat) /\ Len(w) \in Nat /\ DOMAIN w = 1..Len(w)
      /\ \A i, j \in 1..Len(w) : w[i] = w[j] => i = j
      /\ \A i \in 1..Len(w) : w[i] \in TaskIds(s) /\ Get(s, w[i]).bucket = b
      /\ \A id \in TaskIds(s) : Get(s, id).bucket = b => \E i \in 1..Len(w) : w[i] = id
  BY <1>1, ListsFacts
<1>3. Sq!ToSet(w) = {w[i] : i \in 1..Len(w)} /\ B!Sq!ToSet(w) = {w[i] : i \in 1..Len(w)}
  BY <1>2 DEF Sq!ToSet, B!Sq!ToSet
<1> QED BY <1>2, <1>3 DEF w

\* Nothing goes from a list the task is not in.
LEMMA LessNone ==
  ASSUME NEW s, Queue(s), NEW b, NEW id, id \in TaskIds(s) => Get(s, id).bucket # b
  PROVE  B!Less(IdsIn(s, b), id) = IdsIn(s, b)
<1> DEFINE w == IdsIn(s, b)
<1>1. /\ w \in Seq(Nat) /\ \A i, j \in 1..Len(w) : w[i] = w[j] => i = j
      /\ \A i \in 1..Len(w) : w[i] \in TaskIds(s) /\ Get(s, w[i]).bucket = b
  BY OnList
<1> HIDE DEF w
<1>2. \A i \in 1..Len(w) : w[i] # id
  BY <1>1
<1> QED BY <1>1, <1>2, LessIs DEF w

LEMMA Outside ==
  ASSUME NEW s
  PROVE  /\ DOMAIN ListsOf(s) = Bucket
         /\ \A b \in Bucket : ListsOf(s)[b] = IdsIn(s, b)
         /\ \A id : B!Without(ListsOf(s), id) = [b \in Bucket |-> B!Less(IdsIn(s, b), id)]
         /\ \A f : f = [b \in Bucket |-> f[b]] /\ (\A b \in Bucket : f[b] = IdsIn(s, b))
                   => ListsOf(s) = f
BY DEF ListsOf, B!Without

LEMMA EnterIs ==
  ASSUME NEW l, l = [b \in Bucket |-> l[b]], NEW id
  PROVE  LET e == B!Enter(l, id)
         IN /\ e = [b \in Bucket |-> e[b]] /\ e["now"] = <<id>>
            /\ e["next"] = B!Less(l["now"], id) \o B!Less(l["next"], id)
            /\ \A b \in Bucket \ {"now", "next"} : e[b] = B!Less(l[b], id)
<1> DEFINE r == [b \in Bucket |-> B!Less(l[b], id)]
<1>1. B!Without(l, id) = r
  BY DEF B!Without
<1>2. r["now"] = B!Less(l["now"], id) /\ r["next"] = B!Less(l["next"], id)
  BY BucketAssumption
<1>3. B!Enter(l, id) = [r EXCEPT !["now"] = <<id>>, !["next"] = r["now"] \o @]
  BY <1>1 DEF B!Enter
<1> QED BY <1>2, <1>3, BucketAssumption

LEMMA EnterLists ==
  ASSUME NEW s, Queue(s), NEW id \in TaskIds(s), NEW now \in Nat,
         \A x, y \in TaskIds(s) \ {id} :
           Get(s, x).bucket = "now" /\ Get(s, y).bucket = "now" => x = y
  PROVE  ListsOf(Normalized(Place(s, id, "now", 0), now)) = B!Enter(ListsOf(s), id)
<1> DEFINE t == Normalized(Place(s, id, "now", 0), now)
           l == ListsOf(s)
           e == B!Enter(l, id)
<1>1. /\ l = [b \in Bucket |-> l[b]] /\ \A b \in Bucket : l[b] = IdsIn(s, b)
      /\ "now" \in Bucket /\ "next" \in Bucket
  BY Outside, BucketAssumption DEF ListsOf
<1> HIDE DEF l
<1>2. /\ e = [b \in Bucket |-> e[b]] /\ e["now"] = <<id>>
      /\ e["next"] = B!Less(l["now"], id) \o B!Less(l["next"], id)
      /\ \A b \in Bucket \ {"now", "next"} : e[b] = B!Less(l[b], id)
  BY <1>1, EnterIs
<1> HIDE DEF e
<1>3. ASSUME NEW b \in Bucket PROVE e[b] = IdsIn(t, b)
  <2>1. IdsIn(t, b) = IF b = "now" THEN <<id>>
                      ELSE IF b = "next" THEN B!Less(IdsIn(s, "now"), id) \o B!Less(IdsIn(s, "next"), id)
                      ELSE B!Less(IdsIn(s, b), id)
    BY ListsEnter
  <2> QED BY <1>1, <1>2, <2>1
<1> HIDE DEF t
<1>4. ListsOf(t) = e
  BY <1>2, <1>3, Outside
<1> QED BY <1>4 DEF l, t, e

LEMMA RemoveLists ==
  ASSUME NEW now \in Nat, NEW s, Fine(s, now), NEW id \in TaskIds(s.tasks)
  PROVE  ListsOf(Remove(s, id, now).tasks) = B!Without(ListsOf(s.tasks), id)
<1> DEFINE u == Sq!RemoveAt(s.tasks, PositionOf(s.tasks, id))
           f == [b \in Bucket |-> B!Less(IdsIn(s.tasks, b), id)]
<1>1. Single(s.tasks) /\ Queue(s.tasks)
  BY FineSingle DEF Single
<1>2. Queue(u) /\ TaskIds(u) = TaskIds(s.tasks) \ {id} /\ \A x \in TaskIds(u) : Get(u, x) = Get(s.tasks, x)
  BY <1>1, OutOf
<1>3. Remove(s, id, now).tasks = Normalized(u, now)
  BY DEF Remove, Fine, Held, Store
<1>4. \A b : IdsIn(u, b) = B!Less(IdsIn(s.tasks, b), id)
  BY <1>1, ListWithout
<1> HIDE DEF u
<1>5. Single(u)
  BY <1>1, <1>2 DEF Single
<1>6. \A b \in Bucket : f[b] = IdsIn(Normalized(u, now), b)
  BY <1>4, <1>5, ListsStay
<1>7. f = [b \in Bucket |-> f[b]]
  OBVIOUS
<1>8. B!Without(ListsOf(s.tasks), id) = f
  BY Outside
<1> HIDE DEF f
<1> QED BY <1>3, <1>6, <1>7, <1>8, Outside

LEMMA AtTheEnd ==
  ASSUME NEW S, NEW w \in Seq(S), NEW x \in S
  PROVE  Sq!InsertAt(w, Len(w) + 1, x) = Append(w, x) /\ Sq!RemoveAt(Append(w, x), Len(w) + 1) = w
<1> DEFINE n == Len(w)
           a == Append(w, x)
           p == n + 1
           u == Sq!InsertAt(w, p, x)
           v == Sq!RemoveAt(a, p)
<1>1. n \in Nat /\ p \in 1..(Len(w) + 1) /\ p = n + 1
  BY LenProperties
<1>2. /\ a \in Seq(S) /\ Len(a) = n + 1 /\ a[p] = x /\ \A i \in 1..n : a[i] = w[i]
  BY AppendProperties
<1>3. /\ u \in Seq(S) /\ Len(u) = Len(w) + 1
      /\ \A j \in 1..Len(u) : u[j] = IF j < p THEN w[j] ELSE IF j = p THEN x ELSE w[j - 1]
  <2>1. w \in Seq(S) /\ p \in 1..(Len(w) + 1) /\ x \in S
    BY <1>1
  <2> HIDE DEF n, p
  <2>2. /\ Sq!InsertAt(w, p, x) \in Seq(S) /\ Len(Sq!InsertAt(w, p, x)) = Len(w) + 1
        /\ \A j \in 1..Len(Sq!InsertAt(w, p, x)) : Sq!InsertAt(w, p, x)[j]
              = IF j < p THEN w[j] ELSE IF j = p THEN x ELSE w[j - 1]
    BY <2>1, InsertedAt
  <2> QED BY <2>2
<1>4. p \in 1..Len(a)
  BY <1>1, <1>2
<1> HIDE DEF a
<1>5. /\ v \in Seq(S) /\ Len(v) = Len(a) - 1
      /\ \A j \in 1..Len(v) : v[j] = a[IF j < p THEN j ELSE j + 1]
  <2> HIDE DEF p
  <2> QED BY <1>2, <1>4, RemovedAt
<1>6. n = Len(w)
  OBVIOUS
<1> HIDE DEF n, p, u, v
<1>7. u = a
  <2>1. ASSUME NEW j \in 1..Len(u) PROVE u[j] = a[j]
    <3>1. (j < p /\ j \in 1..n) \/ (j = p /\ ~(j < p))
      BY <1>1, <1>3, <1>6
    <3> QED BY <1>2, <1>3, <3>1
  <2> QED BY <1>1, <1>2, <1>3, <1>6, <2>1, SeqEqual
<1>8. v = w
  <2>1. Len(v) = Len(w) /\ Len(v) = n
    BY <1>1, <1>2, <1>5, <1>6
  <2>2. ASSUME NEW j \in 1..Len(v) PROVE v[j] = w[j]
    <3>1. j < p /\ j \in 1..n
      BY <1>1, <2>1
    <3> QED BY <1>2, <1>5, <3>1
  <2> QED BY <1>5, <2>1, <2>2, SeqEqual
<1> QED BY <1>7, <1>8 DEF a, n, p, u, v

LEMMA EnterSame ==
  ASSUME NEW l, NEW m, NEW id, B!Without(l, id) = B!Without(m, id)
  PROVE  B!Enter(l, id) = B!Enter(m, id)
BY DEF B!Enter

LEMMA AddLists ==
  ASSUME NEW now \in Nat, NEW s, Fine(s, now), NEW title \in Title, NEW bucket \in Bucket,
         NEW tag \in Tag \cup {None}
  PROVE  ListsOf(Add(s, title, bucket, tag, now).tasks) = B!Add(ListsOf(s.tasks), s.next, bucket)
<1> DEFINE e == [id |-> s.next, title |-> title, bucket |-> bucket, tag |-> tag,
                 started |-> None, paused |-> None]
           id == s.next
           q == s.tasks
           t == Append(q, e)
           p == Len(q) + 1
<1>1. /\ Single(q) /\ Queue(q) /\ q \in Seq(Task) /\ s.next \in Nat
      /\ \A x \in TaskIds(q) : x < s.next
  BY FineSingle, FineFacts DEF Single
<1>2. e \in Task /\ e.id = id /\ e.bucket = bucket /\ id \in Nat
  BY <1>1 DEF Task
<1>3. id \notin TaskIds(q)
  BY <1>1
<1>4. Add(s, title, bucket, tag, now).tasks
        = Normalized(IF bucket = "now" THEN Place(t, id, "now", 0) ELSE t, now)
  BY DEF Add
<1> HIDE DEF e, id, q
<1>5. p \in 1..(Len(q) + 1)
  BY <1>1, LenProperties
<1>6. t = Sq!InsertAt(q, p, e) /\ Sq!RemoveAt(t, p) = q
  BY <1>1, <1>2, AtTheEnd
<1> HIDE DEF t, p
<1>7. Queue(t) /\ Entries(t) = Entries(q) \cup {e} /\ PositionOf(t, id) = p
  BY <1>1, <1>2, <1>3, <1>5, <1>6, QueueWith, PlacesWith
<1>8. /\ TaskIds(t) = TaskIds(q) \cup {id} /\ Get(t, id) = e
      /\ \A x \in TaskIds(q) : Get(t, x) = Get(q, x)
  BY <1>1, <1>2, <1>3, <1>7, CameIn
<1>9. CASE bucket = "now"
  <2>1. ListsOf(Normalized(Place(t, id, "now", 0), now)) = B!Enter(ListsOf(t), id)
    <3>1. id \in TaskIds(t) /\ TaskIds(t) \ {id} = TaskIds(q)
      BY <1>3, <1>8
    <3>2. \A x, y \in TaskIds(t) \ {id} :
            Get(t, x).bucket = "now" /\ Get(t, y).bucket = "now" => x = y
      BY <1>1, <1>8, <3>1 DEF Single
    <3> QED BY <1>7, <3>1, <3>2, EnterLists
  <2>2. ASSUME NEW b PROVE B!Less(IdsIn(t, b), id) = B!Less(IdsIn(q, b), id)
    <3>1. IdsIn(q, b) = B!Less(IdsIn(t, b), id)
      <4>1. id \in TaskIds(t)
        BY <1>8
      <4> QED BY <1>6, <1>7, <4>1, ListWithout
    <3>2. B!Less(IdsIn(q, b), id) = IdsIn(q, b)
      BY <1>1, <1>3, LessNone
    <3> QED BY <3>1, <3>2
  <2>3. B!Without(ListsOf(t), id) = B!Without(ListsOf(q), id)
    <3>1. B!Without(ListsOf(t), id) = [b \in Bucket |-> B!Less(IdsIn(t, b), id)]
      BY Outside
    <3>2. B!Without(ListsOf(q), id) = [b \in Bucket |-> B!Less(IdsIn(q, b), id)]
      BY Outside
    <3> QED BY <2>2, <3>1, <3>2
  <2>4. B!Enter(ListsOf(t), id) = B!Enter(ListsOf(q), id)
    BY <2>3, EnterSame
  <2> QED BY <1>4, <1>9, <2>1, <2>4 DEF B!Add, id, q
<1>10. CASE bucket # "now"
  <2> DEFINE l == ListsOf(q)
             f == [l EXCEPT ![bucket] = Append(@, id)]
  <2>1. Single(t)
    <3>1. \A x \in TaskIds(t) : Get(t, x).bucket = "now" => x \in TaskIds(q) /\ Get(q, x).bucket = "now"
      BY <1>2, <1>8, <1>10
    <3> QED BY <1>1, <1>7, <3>1 DEF Single
  <2>2. ASSUME NEW b PROVE IdsIn(t, b) = IF b = bucket THEN Append(IdsIn(q, b), id) ELSE IdsIn(q, b)
    <3> DEFINE w == IdsIn(q, b)
               k == Len(w) + 1
    <3>1. w \in Seq(Nat) /\ Len(w) \in Nat /\ \A j \in 1..Len(w) : w[j] \in TaskIds(q)
      BY <1>1, OnList
    <3>2. \A j \in 1..Len(w) : PositionOf(q, w[j]) < p
      <4>1. Len(q) \in Nat
        BY <1>1, LenProperties
      <4>2. \A j \in 1..Len(w) : PositionOf(q, w[j]) \in 1..Len(q)
        BY <1>1, <3>1, Found
      <4> QED BY <4>1, <4>2 DEF p
    <3>3. k \in 1..(Len(w) + 1) /\ \A j \in 1..Len(w) : j < k <=> PositionOf(q, w[j]) < p
      <4>1. k \in 1..(Len(w) + 1) /\ \A j \in 1..Len(w) : j < k
        BY <3>1
      <4> QED BY <3>2, <4>1
    <3>4. b # bucket => IdsIn(t, b) = w
      BY <1>1, <1>2, <1>3, <1>5, <1>6, ListWith
    <3> HIDE DEF k
    <3>5. b = bucket => IdsIn(t, b) = Sq!InsertAt(w, k, id)
      <4>1. Queue(q) /\ e \in Task /\ e.id \notin TaskIds(q) /\ p \in 1..(Len(q) + 1)
        BY <1>1, <1>2, <1>3, <1>5
      <4>2. b = bucket => e.bucket = b
        BY <1>2
      <4> HIDE DEF w
      <4>3. b = bucket => IdsIn(Sq!InsertAt(q, p, e), b) = Sq!InsertAt(w, k, e.id)
        BY <3>3, <4>1, <4>2, ListWith DEF w
      <4> QED BY <1>2, <1>6, <4>3
    <3>6. Sq!InsertAt(w, k, id) = Append(w, id)
      <4> HIDE DEF w
      <4> DEFINE S == Nat
      <4>1. w \in Seq(S) /\ id \in S
        BY <1>2, <3>1
      <4> HIDE DEF S
      <4> QED BY <4>1, AtTheEnd DEF k
    <3> QED BY <3>4, <3>5, <3>6
  <2>3. \A b : IdsIn(Normalized(t, now), b) = IdsIn(t, b)
    BY <2>1, ListsStay
  <2>4. /\ f = [b \in Bucket |-> f[b]]
        /\ \A b \in Bucket : f[b] = IF b = bucket THEN Append(IdsIn(q, b), id) ELSE IdsIn(q, b)
    BY Outside
  <2>5. f = B!Add(l, id, bucket)
    BY <1>10 DEF B!Add
  <2> HIDE DEF f
  <2>6. ListsOf(Normalized(t, now)) = f
    BY <2>2, <2>3, <2>4, Outside
  <2> QED BY <1>4, <1>10, <2>5, <2>6 DEF id, q
<1> QED BY <1>9, <1>10

LEMMA HeadIs ==
  ASSUME NEW s, Queue(s), NEW b
  PROVE  HeadOf(s, b) = IF IdsIn(s, b) = <<>> THEN None ELSE Head(IdsIn(s, b))
<1> DEFINE w == IdsIn(s, b)
           there == In(s, b)
<1>1. /\ (w = <<>>) = (there = <<>>) /\ Len(there) \in Nat /\ (there = <<>>) = (Len(there) = 0)
      /\ \A i \in 1..Len(there) : w[i] = there[i].id
  BY IdsInAre, InHas
<1>2. CASE there = <<>>
  BY <1>1, <1>2 DEF HeadOf
<1>3. CASE there # <<>>
  <2> HIDE DEF w, there
  <2>1. 1 \in 1..Len(there)
    BY <1>1, <1>3
  <2>2. Head(w) = w[1] /\ Head(there) = there[1]
    <3>1. \A f : Head(f) = f[1]
      OBVIOUS
    <3> QED BY <3>1
  <2>3. HeadOf(s, b) = Head(there).id
    BY <1>3 DEF HeadOf, there
  <2> QED BY <1>1, <1>3, <2>1, <2>2, <2>3 DEF w
<1> QED BY <1>2, <1>3

LEMMA NowIs ==
  ASSUME NEW s, Single(s), NEW id \in TaskIds(s)
  PROVE  Get(s, id).bucket = "now" <=> IdsIn(s, "now") = <<id>>
<1> DEFINE w == IdsIn(s, "now")
<1>1. /\ w \in Seq(Nat) /\ Len(w) \in {0, 1}
      /\ \A i \in 1..Len(w) : w[i] \in TaskIds(s) /\ Get(s, w[i]).bucket = "now"
      /\ Get(s, id).bucket = "now" => \E i \in 1..Len(w) : w[i] = id
  BY AtMostOne, OnList DEF Single
<1>2. <<id>> \in Seq({id}) /\ Len(<<id>>) = 1 /\ <<id>>[1] = id
  OBVIOUS
<1> HIDE DEF w
<1>3. ASSUME Get(s, id).bucket = "now" PROVE w = <<id>>
  <2>1. PICK i \in 1..Len(w) : w[i] = id
    BY <1>1, <1>3
  <2>2. Len(w) = 1 /\ w[1] = id
    BY <1>1, <2>1
  <2>3. id \in Nat
    BY Found DEF Single, Task
  <2>4. <<id>> \in Seq(Nat) /\ \A j \in 1..Len(w) : w[j] = <<id>>[j]
    BY <2>2, <2>3
  <2> QED BY <1>1, <1>2, <2>2, <2>4, SeqEqual
<1>4. ASSUME w = <<id>> PROVE Get(s, id).bucket = "now"
  <2>1. 1 \in 1..Len(w) /\ w[1] = id
    BY <1>2, <1>4
  <2> QED BY <1>1, <2>1
<1> QED BY <1>3, <1>4 DEF w

LEMMA CompleteLists ==
  ASSUME NEW now \in Nat, NEW s, Fine(s, now), NEW id \in TaskIds(s.tasks)
  PROVE  ListsOf(Complete(s, id, now).tasks) = B!Complete(ListsOf(s.tasks), id)
<1> DEFINE q == s.tasks
           pulled == Completion(s, id).pulled
           r == Sq!RemoveAt(q, PositionOf(q, id))
           l == ListsOf(q)
           rest == B!Without(l, id)
<1>1. Single(q) /\ Queue(q)
  BY FineSingle DEF Single
<1>2. /\ Queue(r) /\ TaskIds(r) = TaskIds(q) \ {id}
      /\ \A x \in TaskIds(r) : Get(r, x) = Get(q, x)
  BY <1>1, OutOf
<1>3. pulled = IF Get(q, id).bucket = "now" THEN HeadOf(r, "next") ELSE None
  BY DEF Completion
<1>4. Complete(s, id, now).tasks
        = Normalized(IF pulled = None THEN r ELSE Place(r, pulled, "now", 0), now)
  BY DEF Complete, Fine, Held, Store
<1>5. /\ l["now"] = IdsIn(q, "now") /\ "now" \in Bucket /\ "next" \in Bucket
  BY BucketAssumption, Outside
<1>6. ListsOf(r) = rest /\ \A b \in Bucket : rest[b] = IdsIn(r, b)
  <2>1. \A b : IdsIn(r, b) = B!Less(IdsIn(q, b), id)
    BY <1>1, ListWithout
  <2>2. rest = [b \in Bucket |-> B!Less(IdsIn(q, b), id)]
    BY Outside
  <2> HIDE DEF rest, r, l
  <2> QED BY <2>1, <2>2, Outside
<1> HIDE DEF r, pulled
<1>7. Single(r)
  BY <1>1, <1>2 DEF Single
<1>8. HeadOf(r, "next") = IF rest["next"] = <<>> THEN None ELSE Head(rest["next"])
  BY <1>2, <1>5, <1>6, HeadIs
<1>9. Get(q, id).bucket = "now" <=> l["now"] = <<id>>
  BY <1>1, <1>5, NowIs
<1>10. HeadOf(r, "next") = None \/ HeadOf(r, "next") \in TaskIds(r)
  BY <1>2, HeadOfOK
<1>11. rest["next"] # <<>> => HeadOf(r, "next") # None
  <2>1. rest["next"] = IdsIn(r, "next")
    BY <1>5, <1>6
  <2>2. HeadOf(r, "next") = None => IdsIn(r, "next") = <<>>
    <3> DEFINE w == IdsIn(r, "next")
    <3>1. w \in Seq(Nat)
      BY <1>2, OnList
    <3> HIDE DEF w
    <3>2. w # <<>> => Head(w) \in Nat
      BY <3>1, HeadTailProperties
    <3>3. w # <<>> => HeadOf(r, "next") = Head(w)
      BY <1>2, HeadIs DEF w
    <3> QED BY <3>2, <3>3, AbsentAssumption DEF w
  <2> QED BY <2>1, <2>2
<1>12. B!Complete(l, id) = IF l["now"] = <<id>> /\ rest["next"] # <<>>
                           THEN B!Enter(rest, Head(rest["next"])) ELSE rest
  BY DEF B!Complete
<1> HIDE DEF rest, l
<1>13. CASE pulled = None
  <2>1. B!Complete(l, id) = rest
    BY <1>3, <1>9, <1>11, <1>12, <1>13
  <2>2. ASSUME NEW b \in Bucket PROVE IdsIn(Normalized(r, now), b) = IdsIn(r, b)
    BY <1>7, ListsStay
  <2>3. ListsOf(Normalized(r, now)) = ListsOf(r)
    BY <2>2 DEF ListsOf
  <2> QED BY <1>4, <1>6, <1>13, <2>1, <2>3 DEF l
<1>14. CASE pulled # None
  <2>1. pulled = HeadOf(r, "next") /\ l["now"] = <<id>> /\ rest["next"] # <<>>
    BY <1>3, <1>8, <1>9, <1>14
  <2>2. pulled \in TaskIds(r) /\ pulled = Head(rest["next"])
    BY <1>8, <1>10, <1>14, <2>1
  <2>3. B!Complete(l, id) = B!Enter(rest, pulled)
    BY <1>12, <2>1, <2>2
  <2>4. ListsOf(Normalized(Place(r, pulled, "now", 0), now)) = B!Enter(ListsOf(r), pulled)
    <3>1. \A x, y \in TaskIds(r) \ {pulled} :
            Get(r, x).bucket = "now" /\ Get(r, y).bucket = "now" => x = y
      BY <1>7 DEF Single
    <3> QED BY <1>2, <2>2, <3>1, EnterLists
  <2> QED BY <1>4, <1>6, <1>14, <2>3, <2>4 DEF l
<1> QED BY <1>13, <1>14

\* Entering Now is all there is to a move there, also for the task that is there.
LEMMA EnterAgain ==
  ASSUME NEW s, Single(s), NEW id \in TaskIds(s), Get(s, id).bucket = "now"
  PROVE  B!Enter(ListsOf(s), id) = ListsOf(s)
<1> DEFINE l == ListsOf(s)
           e == B!Enter(l, id)
           w == IdsIn(s, "now")
<1>1. Queue(s) /\ w = <<id>> /\ id \in Nat /\ "now" \in Bucket /\ "next" \in Bucket
  BY NowIs, Found, BucketAssumption DEF Single, Task
<1>2. /\ l = [b \in Bucket |-> l[b]] /\ \A b \in Bucket : l[b] = IdsIn(s, b)
  BY Outside DEF ListsOf
<1> HIDE DEF l
<1>3. /\ e = [b \in Bucket |-> e[b]] /\ e["now"] = <<id>>
      /\ e["next"] = B!Less(l["now"], id) \o B!Less(l["next"], id)
      /\ \A b \in Bucket \ {"now", "next"} : e[b] = B!Less(l[b], id)
  BY <1>2, EnterIs
<1>4. \A b : b # "now" => B!Less(IdsIn(s, b), id) = IdsIn(s, b)
  BY <1>1, LessNone
<1>5. B!Less(w, id) = <<>>
  <2>1. w \in Seq(Nat) /\ \A i, j \in 1..Len(w) : w[i] = w[j] => i = j
    BY <1>1, OnList
  <2>2. Len(w) = 1 /\ w[1] = id /\ 1 \in 1..Len(w)
    BY <1>1
  <2> HIDE DEF w
  <2>3. B!Less(w, id) = Sq!RemoveAt(w, 1)
    BY <2>1, <2>2, LessIs
  <2>4. Sq!RemoveAt(w, 1) \in Seq(Nat) /\ Len(Sq!RemoveAt(w, 1)) = Len(w) - 1
    BY <2>1, <2>2, RemovedAt
  <2>5. Len(Sq!RemoveAt(w, 1)) = 0
    BY <2>2, <2>4
  <2> QED BY <2>3, <2>4, <2>5, EmptySeq
<1>6. <<>> \o IdsIn(s, "next") = IdsIn(s, "next")
  BY <1>1, OnList, ConcatEmptySeq
<1> HIDE DEF w, e
<1>7. \A b \in Bucket : e[b] = IdsIn(s, b)
  BY <1>1, <1>2, <1>3, <1>4, <1>5, <1>6 DEF w
<1> QED BY <1>3, <1>7, Outside DEF l, e

LEMMA MoveLists ==
  ASSUME NEW now \in Nat, NEW s, Fine(s, now), NEW id \in TaskIds(s.tasks), NEW bucket \in Bucket,
         NEW index \in Nat \cup {None}
  PROVE  ListsOf(MoveTo(s, id, bucket, index, now).tasks) = B!Move(ListsOf(s.tasks), id, bucket, index)
<1> DEFINE q == s.tasks
           l == ListsOf(q)
           u == Place(q, id, bucket, IF bucket = "now" THEN 0 ELSE index)
<1>1. Single(q) /\ Queue(q) /\ "now" \in Bucket
  BY FineSingle, BucketAssumption DEF Single
<1>2. MoveTo(s, id, bucket, index, now).tasks
        = IF bucket = "now" /\ Current(q) = id THEN q ELSE Normalized(u, now)
  BY DEF MoveTo, Fine, Held, Store
<1>3. CASE bucket = "now" /\ Current(q) = id
  <2>1. Current(q) # None
    BY <1>1, <1>3, CurrentIs
  <2>2. Get(q, id).bucket = "now"
    BY <1>1, <1>3, <2>1, CurrentIs
  <2>3. B!Enter(l, id) = l
    BY <1>1, <2>2, EnterAgain
  <2> QED BY <1>2, <1>3, <2>3 DEF B!Move
<1>4. CASE bucket = "now" /\ Current(q) # id
  <2>1. u = Place(q, id, "now", 0)
    BY <1>4
  <2>2. \A x, y \in TaskIds(q) \ {id} :
          Get(q, x).bucket = "now" /\ Get(q, y).bucket = "now" => x = y
    BY <1>1 DEF Single
  <2> HIDE DEF u
  <2>3. ListsOf(Normalized(Place(q, id, "now", 0), now)) = B!Enter(l, id)
    BY <1>1, <2>2, EnterLists
  <2> QED BY <1>2, <1>4, <2>1, <2>3 DEF B!Move
<1>5. CASE bucket # "now"
  <2> DEFINE rest == B!Without(l, id)
             at == IF index = None \/ index > Len(rest[bucket]) THEN Len(rest[bucket]) ELSE index
             f == [rest EXCEPT ![bucket] = Sq!InsertAt(@, at + 1, id)]
  <2>1. u = Place(q, id, bucket, index)
    BY <1>5
  <2>2. Queue(u) /\ TaskIds(u) = TaskIds(q)
    BY <1>1, <2>1, Placed
  <2> HIDE DEF u
  <2>3. ASSUME NEW x \in TaskIds(u), Get(u, x).bucket = "now" PROVE Get(q, x).bucket = "now"
    <3>1. x \in TaskIds(q) /\ Get(q, id) \in Task
      BY <1>1, <2>2, Found
    <3>2. Get(u, x) = IF x = id THEN [Get(q, id) EXCEPT !.bucket = bucket] ELSE Get(q, x)
      BY <1>1, <2>1, <3>1, PlacedGet
    <3>3. [Get(q, id) EXCEPT !.bucket = bucket].bucket = bucket
      BY <3>1 DEF Task
    <3> QED BY <1>5, <2>3, <3>2, <3>3
  <2>4. Single(u)
    BY <1>1, <2>2, <2>3 DEF Single
  <2>5. rest = [b \in Bucket |-> B!Less(IdsIn(q, b), id)]
    BY Outside
  <2>6. B!Move(l, id, bucket, index) = [rest EXCEPT ![bucket] = B!Sq!InsertAt(@, at + 1, id)]
    BY <1>5 DEF B!Move
  <2>7. B!Move(l, id, bucket, index) = f
    BY <2>6 DEF B!Sq!InsertAt, Sq!InsertAt
  <2> HIDE DEF rest, l
  <2>8. \A b \in Bucket : rest[b] = B!Less(IdsIn(q, b), id)
    BY <2>5
  <2>9. ASSUME NEW b \in Bucket PROVE f[b] = IdsIn(Normalized(u, now), b)
    <3>1. IdsIn(Normalized(u, now), b) = IdsIn(u, b)
      BY <2>4, ListsStay
    <3>2. IdsIn(u, b) = IF b = bucket THEN Sq!InsertAt(rest[b], at + 1, id) ELSE rest[b]
      <4> DEFINE w == B!Less(IdsIn(q, b), id)
                 k == IF index = None \/ index > Len(w) THEN Len(w) ELSE index
      <4>1. IdsIn(Place(q, id, bucket, index), b)
              = IF b = bucket THEN Sq!InsertAt(w, k + 1, id) ELSE w
        BY <1>1, ListPlaced
      <4>2. rest[b] = w
        BY <2>8
      <4>3. b = bucket => k = at
        BY <4>2
      <4> HIDE DEF w, k, at
      <4> QED BY <2>1, <4>1, <4>2, <4>3
    <3>3. f[b] = IF b = bucket THEN Sq!InsertAt(rest[b], at + 1, id) ELSE rest[b]
      BY <2>5
    <3> QED BY <3>1, <3>2, <3>3
  <2>10. f = [b \in Bucket |-> f[b]]
    BY <2>5
  <2> HIDE DEF f
  <2>11. ListsOf(Normalized(u, now)) = f
    BY <2>9, <2>10, Outside
  <2> QED BY <1>2, <1>5, <2>7, <2>11 DEF l
<1> QED BY <1>3, <1>4, <1>5

LEMMA DropLists ==
  ASSUME NEW now \in Nat, NEW s, Fine(s, now), NEW id \in TaskIds(s.tasks), NEW bucket \in Bucket,
         NEW row
  PROVE  ListsOf(MoveBefore(s, id, bucket, row, now).tasks) = B!Drop(ListsOf(s.tasks), id, bucket, row)
<1> DEFINE q == s.tasks
           l == ListsOf(q)
           r == Sq!RemoveAt(q, PositionOf(q, id))
           there == IdsIn(r, bucket)
           at == CHOOSE i \in DOMAIN there : there[i] = row
           rest == B!Without(l, id)
           in == row \in Sq!ToSet(IdsIn(q, bucket))
<1>1. Queue(q) /\ \A b \in Bucket : l[b] = IdsIn(q, b)
  BY FineSingle, Outside DEF Single
<1>2. rest[bucket] = there
  <2>1. rest = [b \in Bucket |-> B!Less(IdsIn(q, b), id)]
    BY Outside
  <2>2. there = B!Less(IdsIn(q, bucket), id)
    BY <1>1, ListWithout
  <2> HIDE DEF rest
  <2> QED BY <2>1, <2>2
<1>3. row \in B!Sq!ToSet(l[bucket]) <=> in
  <2>1. row \in B!Sq!ToSet(IdsIn(q, bucket)) <=> in
    BY <1>1, OnList
  <2> QED BY <1>1, <2>1
<1>4. CASE row = None
  <2>1. MoveBefore(s, id, bucket, row, now) = MoveTo(s, id, bucket, None, now)
    BY <1>4 DEF MoveBefore
  <2>2. B!Drop(l, id, bucket, row) = B!Move(l, id, bucket, None)
    BY <1>4 DEF B!Drop
  <2>3. None \in Nat \cup {None}
    OBVIOUS
  <2> QED BY <2>1, <2>2, <2>3, MoveLists
<1>5. CASE row # None /\ (~in \/ row = id)
  <2>1. MoveBefore(s, id, bucket, row, now) = s
    BY <1>5 DEF MoveBefore
  <2>2. B!Drop(l, id, bucket, row) = l
    BY <1>3, <1>5 DEF B!Drop
  <2> QED BY <2>1, <2>2
<1>6. CASE row # None /\ in /\ row # id
  <2>1. MoveBefore(s, id, bucket, row, now) = MoveTo(s, id, bucket, at - 1, now)
    BY <1>6 DEF MoveBefore
  <2>2. at \in 1..Len(there) /\ Len(there) \in Nat
    <3>1. /\ Queue(r) /\ TaskIds(r) = TaskIds(q) \ {id}
          /\ \A x \in TaskIds(r) : Get(r, x) = Get(q, x)
      BY <1>1, OutOf
    <3>2. row \in TaskIds(q) /\ Get(q, row).bucket = bucket
      BY <1>1, <1>6, OnList
    <3> HIDE DEF r
    <3>3. DOMAIN there = 1..Len(there) /\ Len(there) \in Nat /\ \E i \in 1..Len(there) : there[i] = row
      BY <1>6, <3>1, <3>2, OnList
    <3> HIDE DEF there
    <3> QED BY <3>3
  <2> DEFINE index == at - 1
             end == IF index = None \/ index > Len(there) THEN Len(there) ELSE index
  <2>3. B!Drop(l, id, bucket, row)
          = IF bucket = "now" THEN B!Enter(l, id)
            ELSE [rest EXCEPT ![bucket] = B!Sq!InsertAt(@, at, id)]
    BY <1>2, <1>3, <1>6 DEF B!Drop
  <2>4. B!Move(l, id, bucket, index)
          = IF bucket = "now" THEN B!Enter(l, id)
            ELSE [rest EXCEPT ![bucket] = B!Sq!InsertAt(@, end + 1, id)]
    BY <1>2 DEF B!Move
  <2> HIDE DEF at, there
  <2>5. index \in Nat
    BY <2>2
  <2>6. end + 1 = at
    <3>1. index # None
      BY <2>5, AbsentAssumption
    <3>2. ~(index > Len(there))
      BY <2>2
    <3> QED BY <2>2, <3>1, <3>2
  <2>7. B!Drop(l, id, bucket, row) = B!Move(l, id, bucket, index)
    <3> HIDE DEF end, index, rest
    <3> QED BY <2>3, <2>4, <2>6
  <2> QED BY <2>1, <2>5, <2>7, MoveLists
<1> QED BY <1>4, <1>5, <1>6

\* Put one place further, a task changes places with its neighbour.
LEMMA Swapped ==
  ASSUME NEW S, NEW w \in Seq(S), NEW i \in 1..Len(w), NEW j \in 1..Len(w), i = j + 1 \/ j = i + 1
  PROVE  Sq!InsertAt(Sq!RemoveAt(w, i), j, w[i]) = [w EXCEPT ![i] = w[j], ![j] = w[i]]
<1> DEFINE r == Sq!RemoveAt(w, i)
           x == w[i]
           t == Sq!InsertAt(r, j, x)
           u == [w EXCEPT ![i] = w[j], ![j] = w[i]]
<1>1. Len(w) \in Nat /\ DOMAIN w = 1..Len(w) /\ \A k \in 1..Len(w) : w[k] \in S
  BY LenProperties, ElementOfSeq
<1>2. /\ r \in Seq(S) /\ Len(r) = Len(w) - 1
      /\ \A k \in 1..Len(r) : r[k] = w[IF k < i THEN k ELSE k + 1]
  BY RemovedAt
<1>3. x \in S
  BY <1>1
<1> HIDE DEF r, x
<1>4. j \in 1..(Len(r) + 1)
  BY <1>1, <1>2
<1>5. /\ t \in Seq(S) /\ Len(t) = Len(r) + 1
      /\ \A k \in 1..Len(t) : t[k] = IF k < j THEN r[k] ELSE IF k = j THEN x ELSE r[k - 1]
  BY <1>2, <1>3, <1>4, InsertedAt
<1> HIDE DEF t
<1>6. u \in Seq(S) /\ Len(u) = Len(w)
  <2>1. u \in [1..Len(w) -> S]
    <3>1. w \in [1..Len(w) -> S]
      BY <1>1
    <3> QED BY <1>1, <3>1
  <2> HIDE DEF u
  <2> QED BY <1>1, <2>1, IsASeq, LenProperties
<1>7. \A k \in 1..Len(w) : u[k] = IF k = j THEN w[i] ELSE IF k = i THEN w[j] ELSE w[k]
  BY <1>1
<1>8. ASSUME NEW k \in 1..Len(t) PROVE t[k] = u[k]
  <2>1. Len(t) = Len(w) /\ i # j
    BY <1>1, <1>2, <1>5
  <2>2. CASE k = j
    BY <1>5, <1>7, <2>1, <2>2 DEF x
  <2>3. CASE k = i
    <3>1. j < i => ~(k < j) /\ k # j /\ k - 1 \in 1..Len(r) /\ k - 1 < i /\ k - 1 = j
      BY <1>1, <1>2, <2>1, <2>3
    <3>2. i < j => k < j /\ k \in 1..Len(r) /\ ~(k < i) /\ k + 1 = j
      BY <1>1, <1>2, <2>1, <2>3
    <3>3. u[k] = w[j]
      BY <1>7, <2>1, <2>3
    <3>4. CASE j < i
      BY <1>2, <1>5, <3>1, <3>3, <3>4
    <3>5. CASE i < j
      BY <1>2, <1>5, <3>2, <3>3, <3>5
    <3> QED BY <1>1, <2>1, <3>4, <3>5
  <2>4. CASE k # j /\ k # i
    <3>1. u[k] = w[k]
      BY <1>7, <2>1, <2>4
    <3>2. CASE k < j
      <4>1. k \in 1..Len(r) /\ k < i
        BY <1>1, <1>2, <2>1, <2>4, <3>2
      <4> QED BY <1>2, <1>5, <3>1, <3>2, <4>1
    <3>3. CASE ~(k < j)
      <4>1. k - 1 \in 1..Len(r) /\ ~(k - 1 < i) /\ k - 1 + 1 = k
        BY <1>1, <1>2, <2>1, <2>4, <3>3
      <4> QED BY <1>2, <1>5, <2>4, <3>1, <3>3, <4>1
    <3> QED BY <3>2, <3>3
  <2> QED BY <2>2, <2>3, <2>4
<1>9. Len(t) = Len(u)
  BY <1>1, <1>2, <1>5, <1>6
<1>10. t = u
  <2> HIDE DEF u
  <2> QED BY <1>5, <1>6, <1>8, <1>9, SeqEqual
<1> QED BY <1>10 DEF t, r, x

LEMMA ShiftLists ==
  ASSUME NEW now \in Nat, NEW s, Fine(s, now), NEW id \in TaskIds(s.tasks), NEW delta \in {-1, 1}
  PROVE  ListsOf(Shift(s, id, delta, now).tasks) = B!Shift(ListsOf(s.tasks), id, delta)
<1> DEFINE q == s.tasks
           l == ListsOf(q)
           bucket == Get(q, id).bucket
           w == IdsIn(q, bucket)
           i == CHOOSE i \in DOMAIN w : w[i] = id
           target == IF i + delta < 1 THEN 1
                     ELSE IF i + delta > Len(w) THEN Len(w) ELSE i + delta
           f == B!Shift(l, id, delta)
           place(b) == CHOOSE k \in DOMAIN l[b] : l[b][k] = id
<1>1. Single(q) /\ Queue(q) /\ bucket \in Bucket /\ \A b \in Bucket : l[b] = IdsIn(q, b)
  BY FineSingle, Found, Outside DEF Single, Task
<1>2. /\ f = [b \in Bucket |-> f[b]]
      /\ \A b \in Bucket :
           f[b] = IF id \in B!Sq!ToSet(l[b]) /\ place(b) + delta \in DOMAIN l[b]
                  THEN [l[b] EXCEPT ![place(b)] = l[b][place(b) + delta], ![place(b) + delta] = id]
                  ELSE l[b]
  <2>1. DOMAIN l = Bucket
    BY Outside
  <2> HIDE DEF l
  <2> QED BY <2>1 DEF B!Shift
<1>3. Shift(s, id, delta, now) = IF target = i THEN s ELSE MoveTo(s, id, bucket, target - 1, now)
  BY DEF Shift
<1>4. /\ w \in Seq(Nat) /\ Len(w) \in Nat /\ DOMAIN w = 1..Len(w)
      /\ \A k, m \in 1..Len(w) : w[k] = w[m] => k = m
      /\ \E k \in 1..Len(w) : w[k] = id
      /\ id \in B!Sq!ToSet(w)
  <2> HIDE DEF bucket
  <2>1. \E k \in 1..Len(w) : w[k] = id
    BY <1>1, OnList DEF bucket
  <2>2. /\ w \in Seq(Nat) /\ Len(w) \in Nat /\ DOMAIN w = 1..Len(w)
        /\ \A k, m \in 1..Len(w) : w[k] = w[m] => k = m
        /\ id \in B!Sq!ToSet(w) <=> \E k \in 1..Len(w) : w[k] = id
    BY <1>1, OnList
  <2> QED BY <2>1, <2>2
<1>5. i \in 1..Len(w) /\ w[i] = id
  BY <1>4
<1>6. place(bucket) = i /\ l[bucket] = w
  BY <1>1
<1>7. ASSUME NEW b \in Bucket, b # bucket PROVE f[b] = l[b] /\ B!Less(l[b], id) = l[b]
  <2>1. id \notin B!Sq!ToSet(l[b])
    <3>1. id \notin B!Sq!ToSet(IdsIn(q, b))
      BY <1>1, <1>7, OnList
    <3> QED BY <1>1, <3>1
  <2>2. B!Less(IdsIn(q, b), id) = IdsIn(q, b)
    BY <1>1, <1>7, LessNone
  <2> QED BY <1>1, <1>2, <2>1, <2>2
<1>8. f[bucket] = IF i + delta \in 1..Len(w)
                  THEN [w EXCEPT ![i] = w[i + delta], ![i + delta] = id] ELSE w
  <2>1. f[bucket] = IF id \in B!Sq!ToSet(l[bucket]) /\ place(bucket) + delta \in DOMAIN l[bucket]
                    THEN [l[bucket] EXCEPT ![place(bucket)] = l[bucket][place(bucket) + delta],
                                           ![place(bucket) + delta] = id]
                    ELSE l[bucket]
    BY <1>1, <1>2
  <2> HIDE DEF f, place, l, i, w
  <2> QED BY <1>4, <1>6, <2>1
<1> HIDE DEF f, place, i
<1>9. CASE target = i
  <2>1. i + delta \notin 1..Len(w)
    <3> DEFINE n == Len(w)
    <3>1. n \in Nat /\ i \in 1..n
      BY <1>4, <1>5
    <3>2. target = IF i + delta < 1 THEN 1 ELSE IF i + delta > n THEN n ELSE i + delta
      OBVIOUS
    <3> HIDE DEF n, target
    <3>3. i + delta \notin 1..n
      BY <1>9, <3>1, <3>2
    <3> QED BY <3>3 DEF n
  <2>2. \A b \in Bucket : f[b] = IdsIn(q, b)
    BY <1>1, <1>6, <1>7, <1>8, <2>1
  <2> HIDE DEF l
  <2>3. ListsOf(q) = f
    BY <1>2, <2>2, Outside
  <2> QED BY <1>3, <1>9, <2>3 DEF f, l
<1>10. CASE target # i
  <2> DEFINE j == i + delta
             index == target - 1
             rest == B!Without(l, id)
             at == IF index = None \/ index > Len(rest[bucket]) THEN Len(rest[bucket]) ELSE index
             g == [rest EXCEPT ![bucket] = Sq!InsertAt(@, at + 1, id)]
  <2>1. /\ j \in 1..Len(w) /\ target = j /\ (i = j + 1 \/ j = i + 1) /\ i # j
        /\ index \in Nat /\ index + 1 = j /\ index <= Len(w) - 1
    <3> DEFINE n == Len(w)
    <3>1. n \in Nat /\ i \in 1..n
      BY <1>4, <1>5
    <3>2. target = IF i + delta < 1 THEN 1 ELSE IF i + delta > n THEN n ELSE i + delta
      OBVIOUS
    <3> HIDE DEF n, target
    <3>3. /\ j \in 1..n /\ target = j /\ (i = j + 1 \/ j = i + 1) /\ i # j
          /\ index \in Nat /\ index + 1 = j /\ index <= n - 1
      BY <1>10, <3>1, <3>2
    <3> QED BY <3>3 DEF n
  <2>2. bucket # "now"
    <3>1. Len(IdsIn(q, "now")) \in {0, 1}
      BY <1>1, AtMostOne DEF Single
    <3>2. Len(w) \notin {0, 1}
      <4> HIDE DEF w
      <4> QED BY <1>4, <1>5, <2>1
    <3> QED BY <3>1, <3>2
  <2>3. Shift(s, id, delta, now) = MoveTo(s, id, bucket, index, now)
    BY <1>3, <1>10
  <2>4. B!Move(l, id, bucket, index) = g
    <3>1. B!Move(l, id, bucket, index) = [rest EXCEPT ![bucket] = B!Sq!InsertAt(@, at + 1, id)]
      BY <2>2 DEF B!Move
    <3> HIDE DEF rest, at, index
    <3> QED BY <3>1 DEF B!Sq!InsertAt, Sq!InsertAt
  <2> HIDE DEF index, j
  <2>5. ListsOf(Shift(s, id, delta, now).tasks) = B!Move(l, id, bucket, index)
    <3>1. index \in Nat \cup {None}
      BY <2>1
    <3> QED BY <1>1, <2>3, <3>1, MoveLists
  <2>6. /\ rest = [b \in Bucket |-> rest[b]]
        /\ \A b \in Bucket : rest[b] = B!Less(l[b], id)
    BY <1>1, Outside
  <2> HIDE DEF rest
  <2>7. rest[bucket] = Sq!RemoveAt(w, i)
    <3>1. rest[bucket] = B!Less(w, id)
      BY <1>1, <1>6, <2>6
    <3> HIDE DEF w
    <3> QED BY <1>4, <1>5, <3>1, LessIs
  <2>8. at + 1 = j
    <3>1. Len(Sq!RemoveAt(w, i)) = Len(w) - 1
      <4> DEFINE S == Nat
      <4>1. w \in Seq(S) /\ i \in 1..Len(w)
        BY <1>4, <1>5
      <4> HIDE DEF w, S
      <4> QED BY <4>1, RemovedAt
    <3>2. index # None
      BY <2>1, AbsentAssumption
    <3> DEFINE m == Len(rest[bucket])
    <3>3. m = Len(w) - 1 /\ m \in Int
      BY <1>4, <2>7, <3>1
    <3>4. at = IF index = None \/ index > m THEN m ELSE index
      OBVIOUS
    <3> HIDE DEF m, at
    <3>5. index <= m
      BY <2>1, <3>3
    <3> QED BY <2>1, <3>2, <3>3, <3>4, <3>5
  <2> HIDE DEF at
  <2>9. Sq!InsertAt(Sq!RemoveAt(w, i), j, w[i]) = [w EXCEPT ![i] = w[j], ![j] = w[i]]
    <3> HIDE DEF w
    <3> QED BY <1>4, <1>5, <2>1, Swapped
  <2>10. g[bucket] = f[bucket]
    <3>1. f[bucket] = [w EXCEPT ![i] = w[j], ![j] = id]
      BY <1>8, <2>1 DEF j
    <3>2. g[bucket] = Sq!InsertAt(rest[bucket], at + 1, id)
      BY <1>1, <2>6
    <3> HIDE DEF w, g
    <3> QED BY <1>5, <2>7, <2>8, <2>9, <3>1, <3>2
  <2>11. \A b \in Bucket : b # bucket => g[b] = f[b]
    BY <1>7, <2>6
  <2>12. g = [b \in Bucket |-> g[b]]
    BY <2>6
  <2> HIDE DEF g
  <2>13. g = f
    BY <1>2, <2>10, <2>11, <2>12
  <2> QED BY <2>4, <2>5, <2>13 DEF f
<1> QED BY <1>9, <1>10

\* The requests on any queue an app can hold.
LEMMA AllLists ==
  ASSUME Fine(store, clock), clock \in Nat
  PROVE  MeantOnLists
<1> DEFINE q == store.tasks
           title == CHOOSE t \in Title : TRUE
<1>1. title \in Title
  BY TitleAssumption
<1>2. None \in Tag \cup {None}
  OBVIOUS
<1> HIDE DEF title
<1>3. \A bucket \in Bucket :
        ListsOf(Add(store, title, bucket, None, clock).tasks) = B!Add(ListsOf(q), store.next, bucket)
  BY <1>1, <1>2, AddLists
<1>4. \A id \in Ids : ListsOf(Remove(store, id, clock).tasks) = B!Without(ListsOf(q), id)
  BY RemoveLists DEF Ids
<1>5. \A id \in Ids : ListsOf(Complete(store, id, clock).tasks) = B!Complete(ListsOf(q), id)
  BY CompleteLists DEF Ids
<1>6. \A id \in Ids, delta \in {-1, 1} :
        ListsOf(Shift(store, id, delta, clock).tasks) = B!Shift(ListsOf(q), id, delta)
  BY ShiftLists DEF Ids
<1>7. \A id \in Ids, bucket \in Bucket, index \in Indices \cup {None} :
        ListsOf(MoveTo(store, id, bucket, index, clock).tasks)
          = B!Move(ListsOf(q), id, bucket, index)
  <2>1. Indices \cup {None} \subseteq Nat \cup {None}
    BY DEF Indices
  <2> QED BY <2>1, MoveLists DEF Ids
<1>8. \A id \in Ids, bucket \in Bucket, row \in Ids \cup {None} :
        ListsOf(MoveBefore(store, id, bucket, row, clock).tasks)
          = B!Drop(ListsOf(q), id, bucket, row)
  BY DropLists DEF Ids
<1> QED BY <1>3, <1>4, <1>5, <1>6, <1>7, <1>8 DEF MeantOnLists, title

(***************************************************************************)
(* Undo                                                                    *)
(***************************************************************************)
LEMMA PutBack ==
  ASSUME NEW S, NEW w \in Seq(S), NEW i \in 1..Len(w)
  PROVE  Sq!InsertAt(Sq!RemoveAt(w, i), i, w[i]) = w
<1> DEFINE r == Sq!RemoveAt(w, i)
           x == w[i]
           t == Sq!InsertAt(r, i, x)
<1>1. Len(w) \in Nat /\ \A k \in 1..Len(w) : w[k] \in S
  BY LenProperties, ElementOfSeq
<1>2. /\ r \in Seq(S) /\ Len(r) = Len(w) - 1
      /\ \A k \in 1..Len(r) : r[k] = w[IF k < i THEN k ELSE k + 1]
  BY RemovedAt
<1>3. x \in S
  BY <1>1
<1> HIDE DEF r, x
<1>4. i \in 1..(Len(r) + 1)
  BY <1>1, <1>2
<1>5. /\ t \in Seq(S) /\ Len(t) = Len(r) + 1
      /\ \A k \in 1..Len(t) : t[k] = IF k < i THEN r[k] ELSE IF k = i THEN x ELSE r[k - 1]
  BY <1>2, <1>3, <1>4, InsertedAt
<1> HIDE DEF t
<1>6. Len(t) = Len(w)
  BY <1>1, <1>2, <1>5
<1>7. ASSUME NEW k \in 1..Len(t) PROVE t[k] = w[k]
  <2>1. CASE k < i
    <3>1. k \in 1..Len(r)
      BY <1>1, <1>2, <1>6, <2>1
    <3> QED BY <1>2, <1>5, <2>1, <3>1
  <2>2. CASE k = i
    BY <1>5, <2>2 DEF x
  <2>3. CASE i < k
    <3>1. k - 1 \in 1..Len(r) /\ ~(k - 1 < i) /\ ~(k < i) /\ k # i /\ k - 1 + 1 = k
      BY <1>1, <1>2, <1>6, <2>3
    <3> QED BY <1>2, <1>5, <3>1
  <2> QED BY <1>1, <1>6, <2>1, <2>2, <2>3
<1>8. t = w
  BY <1>5, <1>6, <1>7, SeqEqual
<1> QED BY <1>8 DEF t, r, x

LEMMA TidySingle ==
  ASSUME NEW s, Queue(s), Tidy(s)
  PROVE  Single(s)
BY DEF Tidy, Single

\* Normalising a queue that is in order changes nothing.
LEMMA NormalIs ==
  ASSUME NEW s, Queue(s), Tidy(s), NEW now \in Nat
  PROVE  Normalized(s, now) = s
<1> DEFINE Timed(x) == IF x.id # Current(s)
                       THEN [x EXCEPT !.started = None, !.paused = None]
                       ELSE IF x.started = None
                       THEN [x EXCEPT !.started = now, !.paused = None] ELSE x
           n == Len(IdsIn(s, "now"))
<1>1. n \in {0, 1}
  BY TidySingle, AtMostOne DEF Single
<1>2. n <= 1
  <2> HIDE DEF n
  <2> QED BY <1>1
<1>3. Settled(s) = s
  BY <1>2, SettledOK
<1>4. Normalized(s, now) = [i \in DOMAIN s |-> Timed(s[i])]
  BY <1>3 DEF Normalized
<1>5. s \in Seq(Task) /\ DOMAIN s = 1..Len(s) /\ \A i \in DOMAIN s : s[i] \in Task
  BY TasksOf DEF Queue
<1>6. ASSUME NEW i \in DOMAIN s PROVE Timed(s[i]) = s[i]
  <2> DEFINE x == s[i]
             id == x.id
  <2>1. x \in Task /\ id \in TaskIds(s)
    BY <1>5 DEF TaskIds
  <2>2. Get(s, id) = x
    BY <1>5, <2>1, Found
  <2>3. /\ (x.started # None) <=> (x.bucket = "now")
        /\ x.paused # None => x.started # None
        /\ x.bucket = "now" => id = Current(s)
    BY <2>1, <2>2 DEF Tidy
  <2>4. id = Current(s) => x.bucket = "now"
    BY <2>1, <2>2, CurrentIs
  <2>5. id = x.id
    OBVIOUS
  <2> HIDE DEF x, id
  <2>6. Timed(x) = x
    <3>1. CASE id = Current(s)
      BY <2>3, <2>4, <2>5, <3>1
    <3>2. CASE id # Current(s)
      <4>1. x.started = None /\ x.paused = None
        BY <2>3, <3>2
      <4>2. [x EXCEPT !.started = None, !.paused = None] = x
        BY <2>1, <4>1 DEF Task
      <4> QED BY <2>5, <3>2, <4>2
    <3> QED BY <3>1, <3>2
  <2> QED BY <2>6 DEF x
<1>7. s = [i \in DOMAIN s |-> s[i]]
  BY <1>5
<1> QED BY <1>4, <1>6, <1>7

LEMMA InSame ==
  ASSUME NEW s, Queue(s), NEW t, Queue(t), NEW b, IdsIn(t, b) = IdsIn(s, b),
         TaskIds(t) = TaskIds(s), \A x \in TaskIds(s) : Get(t, x) = Get(s, x)
  PROVE  In(t, b) = In(s, b)
<1> DEFINE v == In(t, b)
           w == In(s, b)
<1>1. /\ Queue(v) /\ Queue(w) /\ Len(v) \in Nat /\ Len(w) \in Nat
      /\ DOMAIN IdsIn(t, b) = 1..Len(v) /\ DOMAIN IdsIn(s, b) = 1..Len(w)
      /\ Len(IdsIn(t, b)) = Len(v) /\ Len(IdsIn(s, b)) = Len(w)
      /\ \A i \in 1..Len(v) : IdsIn(t, b)[i] = v[i].id /\ v[i] \in Entries(t)
      /\ \A i \in 1..Len(w) : IdsIn(s, b)[i] = w[i].id /\ w[i] \in Entries(s)
  BY InHas, IdsInAre
<1> HIDE DEF v, w
<1>2. Len(v) = Len(w)
  BY <1>1
<1>3. ASSUME NEW i \in 1..Len(v) PROVE v[i] = w[i]
  <2>1. v[i].id = w[i].id /\ v[i] \in Entries(t) /\ w[i] \in Entries(s)
    BY <1>1, <1>2
  <2>2. w[i].id \in TaskIds(s)
    BY <2>1, TasksOf DEF Queue
  <2>3. w[i] = Get(s, w[i].id) /\ v[i] = Get(t, w[i].id)
    BY <2>1, <2>2, Found
  <2> QED BY <2>2, <2>3
<1>4. v \in Seq(Task) /\ w \in Seq(Task)
  BY <1>1 DEF Queue
<1> QED BY <1>2, <1>3, <1>4, SeqEqual DEF v, w

\* Taking a task out leaves a queue in order.
LEMMA TidyWithout ==
  ASSUME NEW s, Queue(s), Tidy(s), NEW id \in TaskIds(s)
  PROVE  Tidy(Sq!RemoveAt(s, PositionOf(s, id)))
<1> DEFINE r == Sq!RemoveAt(s, PositionOf(s, id))
<1>1. /\ Queue(r) /\ TaskIds(r) = TaskIds(s) \ {id}
      /\ \A x \in TaskIds(r) : Get(r, x) = Get(s, x)
  BY OutOf
<1> HIDE DEF r
<1>2. ASSUME NEW x \in TaskIds(r), Get(r, x).bucket = "now" PROVE x = Current(r)
  <2>1. \A y \in TaskIds(r) : Get(r, y).bucket = "now" => y = x
    BY <1>1, <1>2 DEF Tidy
  <2> QED BY <1>1, <1>2, <2>1, CurrentOf
<1>3. Tidy(r)
  BY <1>1, <1>2 DEF Tidy
<1> QED BY <1>3 DEF r

\* The task in Next that a completion pulled into Now, and its undo sent back.
LEMMA ThereAndBack ==
  ASSUME NEW g \in Task, g.bucket = "next", g.started = None, g.paused = None,
         NEW t \in Nat, NEW now \in Nat, NEW id, id # g.id
  PROVE  LET h == Settles([g EXCEPT !.bucket = "now"], g.id, t)
         IN h.bucket = "now" /\ Settles([h EXCEPT !.bucket = "next"], id, now) = g
<1> DEFINE a == [g EXCEPT !.bucket = "now"]
           h == Settles(a, g.id, t)
           k == [h EXCEPT !.bucket = "next"]
           z == Settles(k, id, now)
<1>1. a \in Task /\ a.id = g.id /\ a.bucket = "now" /\ a.started = None
  BY BucketAssumption DEF Task
<1>2. a = [id |-> g.id, title |-> g.title, bucket |-> "now", tag |-> g.tag,
           started |-> None, paused |-> None]
  BY DEF Task
<1>3. h = [a EXCEPT !.started = t, !.paused = None]
  BY <1>1 DEF Settles
<1> HIDE DEF a
<1>4. h = [id |-> g.id, title |-> g.title, bucket |-> "now", tag |-> g.tag,
           started |-> t, paused |-> None]
  BY <1>2, <1>3
<1> HIDE DEF h
<1>5. k = [id |-> g.id, title |-> g.title, bucket |-> "next", tag |-> g.tag,
           started |-> t, paused |-> None]
  BY <1>4
<1> HIDE DEF k
<1>6. z = [k EXCEPT !.bucket = IF k.bucket = "now" THEN "next" ELSE k.bucket,
                    !.started = None, !.paused = None]
  BY <1>5 DEF Settles
<1> HIDE DEF z
<1>7. z = [id |-> g.id, title |-> g.title, bucket |-> "next", tag |-> g.tag,
           started |-> None, paused |-> None]
  BY <1>5, <1>6
<1>8. g = [id |-> g.id, title |-> g.title, bucket |-> "next", tag |-> g.tag,
           started |-> None, paused |-> None]
  BY DEF Task
<1>9. z = g
  BY <1>7, <1>8
<1> QED BY <1>4, <1>9 DEF a, h, k, z

\* A task that is in order stays as it is.
LEMMA SettlesSame ==
  ASSUME NEW g \in Task, NEW c, NEW now,
         g.id = c => g.started # None,
         g.id # c => g.bucket # "now" /\ g.started = None /\ g.paused = None
  PROVE  Settles(g, c, now) = g
<1>1. CASE g.id = c
  BY <1>1 DEF Settles
<1>2. CASE g.id # c
  <2>1. Settles(g, c, now) = [g EXCEPT !.bucket = g.bucket, !.started = None, !.paused = None]
    BY <1>2 DEF Settles
  <2>2. [g EXCEPT !.bucket = g.bucket, !.started = None, !.paused = None] = g
    BY <1>2 DEF Task
  <2> QED BY <2>1, <2>2
<1> QED BY <1>1, <1>2

\* Undo of a completion that pulled nothing: the very same queue.
LEMMA UndoPlain ==
  ASSUME NEW t \in Nat, NEW now \in Nat, NEW s, Fine(s, t), NEW id \in TaskIds(s.tasks),
         Completion(s, id).pulled = None
  PROVE  UndoComplete(Complete(s, id, t), Completion(s, id), now).tasks = s.tasks
<1> DEFINE q == s.tasks
           p == PositionOf(q, id)
           r == Sq!RemoveAt(q, p)
           c == Completion(s, id)
           m == Complete(s, id, t)
           at == IF c.index > Len(r) THEN Len(r) + 1 ELSE c.index
           u == Sq!InsertAt(r, at, c.task)
<1>1. Queue(q) /\ Tidy(q) /\ q \in Seq(Task)
  BY FineFacts
<1>2. p \in 1..Len(q) /\ q[p] = Get(q, id) /\ Get(q, id).id = id
  BY <1>1, Found
<1>3. Queue(r) /\ TaskIds(r) = TaskIds(q) \ {id} /\ Tidy(r)
  BY <1>1, OutOf, TidyWithout
<1>4. c.task = Get(q, id) /\ c.index = p /\ c.pulled = None
  BY DEF Completion
<1>5. m.tasks = Normalized(r, t) /\ m = [s EXCEPT !.tasks = Normalized(r, t)]
  BY <1>4 DEF Complete, Fine, Held, Store
<1>6. Len(r) = Len(q) - 1 /\ Len(q) \in Nat
  BY <1>1, <1>2, RemovedAt
<1> HIDE DEF r, c, p
<1>7. m.tasks = r
  BY <1>3, <1>5, NormalIs
<1>8. at = p
  BY <1>2, <1>4, <1>6
<1>9. u = q
  <2>1. Sq!InsertAt(Sq!RemoveAt(q, p), p, q[p]) = q
    BY <1>1, <1>2, PutBack
  <2> HIDE DEF at
  <2> QED BY <1>2, <1>4, <1>8, <2>1 DEF r
<1> HIDE DEF m
<1>10. UndoComplete(m, c, now) = [m EXCEPT !.tasks = Normalized(u, now)]
  <2>1. c.task.id \notin TaskIds(m.tasks)
    BY <1>2, <1>3, <1>4, <1>7
  <2> QED BY <1>4, <1>7, <2>1 DEF UndoComplete
<1>11. Normalized(q, now) = q
  BY <1>1, NormalIs
<1>12. [m EXCEPT !.tasks = q].tasks = q
  BY <1>5, <1>7 DEF Fine, Held, Store
<1> QED BY <1>9, <1>10, <1>11, <1>12 DEF m, c

\* Undo of a completion that pulled a task: every list has its tasks again, as they were.
LEMMA UndoPulled ==
  ASSUME NEW t \in Nat, NEW now \in Nat, NEW s, Fine(s, t), NEW id \in TaskIds(s.tasks),
         Completion(s, id).pulled # None, NEW b
  PROVE  In(UndoComplete(Complete(s, id, t), Completion(s, id), now).tasks, b) = In(s.tasks, b)
<1> DEFINE q == s.tasks
           p == PositionOf(q, id)
           g == Get(q, id)
           r == Sq!RemoveAt(q, p)
           c == Completion(s, id)
           v == c.pulled
           f == Place(r, v, "now", 0)
           new == Complete(s, id, t)
           m == Normalized(f, t)
           d == Place(m, v, "next", 0)
           at == IF c.index > Len(d) THEN Len(d) + 1 ELSE c.index
           u == Sq!InsertAt(d, at, g)
           z == Normalized(u, now)
<1>1. Queue(q) /\ Tidy(q) /\ Single(q) /\ q \in Seq(Task)
  BY FineFacts, FineSingle
<1>2. p \in 1..Len(q) /\ g \in Task /\ g.id = id /\ Len(q) \in Nat
  BY <1>1, Found, LenProperties
<1>3. /\ Queue(r) /\ TaskIds(r) = TaskIds(q) \ {id}
      /\ \A x \in TaskIds(r) : Get(r, x) = Get(q, x)
  BY <1>1, OutOf
<1>4. /\ c.task = g /\ c.index = p /\ v # None
      /\ v = IF g.bucket = "now" THEN HeadOf(r, "next") ELSE None
  BY DEF Completion
<1>5. /\ "now" \in Bucket /\ "next" \in Bucket /\ 0 \in Nat \cup {None} /\ 0 # None
  BY BucketAssumption, AbsentAssumption
<1>6. new.tasks = m /\ new = [s EXCEPT !.tasks = m]
  BY <1>4 DEF Complete, Fine, Held, Store
<1> HIDE DEF r, c, v, p
<1>7. g.bucket = "now" /\ v = HeadOf(r, "next") /\ v \in TaskIds(r) /\ Get(r, v).bucket = "next"
  BY <1>3, <1>4, HeadOfOK
<1>8. ASSUME NEW x \in TaskIds(r)
      PROVE  /\ Get(r, x) \in Task /\ Get(r, x).id = x /\ x # id /\ Get(r, x) = Get(q, x)
             /\ Get(r, x).bucket # "now" /\ Get(r, x).started = None /\ Get(r, x).paused = None
  <2>1. x \in TaskIds(q) /\ x # id /\ Get(r, x) = Get(q, x)
    BY <1>3
  <2>2. Get(q, x).bucket # "now"
    BY <1>1, <1>7, <2>1 DEF Single
  <2>3. Get(q, x).started = None /\ Get(q, x).paused = None
    BY <1>1, <2>1, <2>2 DEF Tidy
  <2> QED BY <1>3, <2>1, <2>2, <2>3, Found
<1>9. /\ Queue(f) /\ TaskIds(f) = TaskIds(r)
      /\ \A x \in TaskIds(r) : Get(f, x) = IF x = v THEN [Get(r, v) EXCEPT !.bucket = "now"] ELSE Get(r, x)
  <2>1. Queue(r) /\ v \in TaskIds(r) /\ "now" \in Bucket /\ 0 \in Nat \cup {None}
    BY <1>3, <1>5, <1>7
  <2>2. Queue(f) /\ TaskIds(f) = TaskIds(r)
    BY <2>1, Placed
  <2>3. ASSUME NEW x \in TaskIds(r)
        PROVE  Get(f, x) = IF x = v THEN [Get(r, v) EXCEPT !.bucket = "now"] ELSE Get(r, x)
    BY <2>1, PlacedGet
  <2> QED BY <2>2, <2>3
<1> HIDE DEF f, g
<1>10. Single(f) /\ Current(f) = v
  <2>1. Get(f, v).bucket = "now"
    BY <1>7, <1>8, <1>9 DEF Task
  <2>2. \A x \in TaskIds(f) : Get(f, x).bucket = "now" => x = v
    BY <1>8, <1>9
  <2>3. Current(f) = v
    BY <1>7, <1>9, <2>1, <2>2, CurrentOf
  <2> QED BY <1>9, <2>2, <2>3 DEF Single
<1>11. /\ Queue(m) /\ TaskIds(m) = TaskIds(r)
       /\ \A x \in TaskIds(r) : Get(m, x) = Settles(Get(f, x), v, t)
  BY <1>9, <1>10, NormalizedOK
<1> HIDE DEF m
<1>12. ASSUME NEW x \in TaskIds(r), x # v PROVE Get(m, x) = Get(r, x)
  <2>1. Get(f, x) = Get(r, x) /\ Get(r, x).id # v
    BY <1>8, <1>9, <1>12
  <2>2. Settles(Get(r, x), v, t) = Get(r, x)
    BY <1>8, <2>1, SettlesSame
  <2> QED BY <1>11, <2>1, <2>2
<1>13. /\ Get(m, v) = Settles([Get(r, v) EXCEPT !.bucket = "now"], Get(r, v).id, t)
       /\ Get(m, v).bucket = "now"
       /\ Settles([Get(m, v) EXCEPT !.bucket = "next"], id, now) = Get(r, v)
  <2>1. Get(m, v) = Settles([Get(r, v) EXCEPT !.bucket = "now"], Get(r, v).id, t)
    BY <1>7, <1>8, <1>9, <1>11
  <2>2. /\ Get(r, v) \in Task /\ Get(r, v).bucket = "next" /\ Get(r, v).started = None
        /\ Get(r, v).paused = None /\ id # Get(r, v).id
    BY <1>7, <1>8
  <2> DEFINE h == Get(r, v)
             k == Settles([h EXCEPT !.bucket = "now"], h.id, t)
  <2> HIDE DEF h
  <2>3. k.bucket = "now" /\ Settles([k EXCEPT !.bucket = "next"], id, now) = h
    BY <2>2, ThereAndBack DEF h
  <2>4. Get(m, v) = k
    BY <2>1 DEF h
  <2> HIDE DEF k
  <2> QED BY <2>1, <2>3, <2>4 DEF h
<1>14. /\ Queue(d) /\ TaskIds(d) = TaskIds(r)
       /\ \A x \in TaskIds(r) : Get(d, x) = IF x = v THEN [Get(m, v) EXCEPT !.bucket = "next"] ELSE Get(m, x)
  <2>1. Queue(m) /\ v \in TaskIds(m) /\ "next" \in Bucket /\ 0 \in Nat \cup {None}
    BY <1>5, <1>7, <1>11
  <2>2. Queue(d) /\ TaskIds(d) = TaskIds(m)
    BY <2>1, Placed
  <2>3. ASSUME NEW x \in TaskIds(m)
        PROVE  Get(d, x) = IF x = v THEN [Get(m, v) EXCEPT !.bucket = "next"] ELSE Get(m, x)
    BY <2>1, PlacedGet
  <2> QED BY <1>11, <2>2, <2>3
<1> HIDE DEF d
<1>15. at \in 1..(Len(d) + 1)
  <2>1. Len(d) \in Nat
    BY <1>14, TasksOf DEF Queue
  <2>2. c.index \in Nat \ {0}
    BY <1>2, <1>4
  <2> QED BY <2>1, <2>2
<1> HIDE DEF at
<1>16. g.id \notin TaskIds(d)
  BY <1>2, <1>3, <1>14
<1>17. Queue(u) /\ Entries(u) = Entries(d) \cup {g}
  BY <1>2, <1>14, <1>15, <1>16, QueueWith
<1>18. \A a : a # "now" => IdsIn(u, a) = IdsIn(d, a)
  BY <1>2, <1>7, <1>14, <1>15, <1>16, ListWith
<1> HIDE DEF u
<1>19. /\ TaskIds(u) = TaskIds(q) /\ Get(u, id) = g
       /\ \A x \in TaskIds(r) : Get(u, x) = Get(d, x)
  <2>1. /\ Queue(d) /\ g \in Task /\ g.id \notin TaskIds(d) /\ Queue(u)
        /\ Entries(u) = Entries(d) \cup {g}
    BY <1>2, <1>14, <1>16, <1>17
  <2>2. /\ TaskIds(u) = TaskIds(d) \cup {g.id} /\ Get(u, g.id) = g
        /\ \A x \in TaskIds(d) : Get(u, x) = Get(d, x)
    BY <2>1, CameIn
  <2>3. TaskIds(u) = TaskIds(q)
    BY <1>2, <1>3, <1>14, <2>2
  <2> QED BY <1>2, <1>14, <2>2, <2>3
<1>20. Single(u) /\ Current(u) = id
  <2>1. ASSUME NEW x \in TaskIds(r) PROVE Get(u, x).bucket # "now"
    <3>1. Get(m, v) \in Task
      BY <1>7, <1>11, Found
    <3>2. x = v => Get(d, x).bucket = "next"
      BY <1>14, <3>1 DEF Task
    <3>3. x # v => Get(d, x) = Get(r, x)
      BY <1>12, <1>14
    <3> QED BY <1>8, <1>19, <3>2, <3>3
  <2>2. \A x \in TaskIds(u) : Get(u, x).bucket = "now" => x = id
    BY <1>3, <1>19, <2>1
  <2>3. id \in TaskIds(u) /\ Get(u, id).bucket = "now"
    BY <1>7, <1>19
  <2> QED BY <1>17, <2>2, <2>3, CurrentOf DEF Single
<1>21. /\ Queue(z) /\ TaskIds(z) = TaskIds(q)
       /\ \A x \in TaskIds(q) : Get(z, x) = Settles(Get(u, x), id, now)
       /\ \A a : IdsIn(z, a) = IdsIn(u, a)
  BY <1>17, <1>19, <1>20, NormalizedOK, ListsStay
<1> HIDE DEF z
<1>22. ASSUME NEW x \in TaskIds(q) PROVE Get(z, x) = Get(q, x)
  <2>1. CASE x = id
    <3>1. g.started # None /\ g = Get(q, id)
      BY <1>1, <1>7 DEF Tidy, g
    <3>2. Settles(g, id, now) = g
      BY <1>2, <3>1, SettlesSame
    <3> QED BY <1>19, <1>21, <2>1, <3>1, <3>2
  <2>2. CASE x # id /\ x = v
    BY <1>7, <1>8, <1>13, <1>14, <1>19, <1>21, <2>2
  <2>3. CASE x # id /\ x # v
    <3>1. x \in TaskIds(r)
      BY <1>3, <2>3
    <3>2. Get(u, x) = Get(r, x)
      BY <1>12, <1>14, <1>19, <2>3, <3>1
    <3>3. Settles(Get(r, x), id, now) = Get(r, x)
      BY <1>8, <3>1, SettlesSame
    <3> QED BY <1>8, <1>21, <3>1, <3>2, <3>3
  <2> QED BY <2>1, <2>2, <2>3
<1>23. ASSUME NEW a, a # "now" PROVE IdsIn(d, a) = IdsIn(q, a)
  <2> DEFINE w == IdsIn(r, a)
             l == B!Less(IdsIn(m, a), v)
             end == IF 0 = None \/ 0 > Len(l) THEN Len(l) ELSE 0
  <2>1. w = IdsIn(q, a)
    <3>1. w = B!Less(IdsIn(q, a), id)
      BY <1>1, ListWithout DEF r, p
    <3>2. B!Less(IdsIn(q, a), id) = IdsIn(q, a)
      BY <1>1, <1>7, <1>23, LessNone DEF g
    <3> QED BY <3>1, <3>2
  <2>2. IdsIn(f, a) = B!Less(w, v)
    BY <1>3, <1>5, <1>7, <1>23, ListPlaced DEF f
  <2>3. IdsIn(m, a) = IdsIn(f, a)
    BY <1>10, ListsStay DEF m
  <2>4. l = IdsIn(m, a)
    BY <1>11, <1>13, <1>23, LessNone
  <2>5. IdsIn(d, a) = IF a = "next" THEN Sq!InsertAt(l, end + 1, v) ELSE l
    BY <1>5, <1>7, <1>11, ListPlaced DEF d
  <2>6. CASE a # "next"
    <3>1. B!Less(w, v) = w
      BY <1>3, <1>7, <2>6, LessNone
    <3> QED BY <2>1, <2>2, <2>3, <2>4, <2>5, <2>6, <3>1
  <2>7. CASE a = "next"
    <3>1. /\ w \in Seq(Nat) /\ Len(w) \in Nat /\ \A i, j \in 1..Len(w) : w[i] = w[j] => i = j
          /\ \E i \in 1..Len(w) : w[i] = v
      BY <1>3, <1>7, <2>7, OnList
    <3>2. 1 \in 1..Len(w) /\ w[1] = v
      <4>1. HeadOf(r, "next") = IF w = <<>> THEN None ELSE Head(w)
        BY <1>3, <2>7, HeadIs
      <4> HIDE DEF w
      <4>2. w # <<>> /\ 1 \in 1..Len(w)
        BY <3>1, EmptySeq
      <4>3. \A h : Head(h) = h[1]
        OBVIOUS
      <4> QED BY <1>7, <4>1, <4>2, <4>3
    <3> HIDE DEF w, l
    <3>3. l = Sq!RemoveAt(w, 1)
      <4>1. B!Less(w, v) = Sq!RemoveAt(w, 1)
        BY <3>1, <3>2, LessIs
      <4> QED BY <2>2, <2>3, <2>4, <4>1
    <3>4. Len(l) \in Nat
      <4> DEFINE S == Nat
      <4>1. w \in Seq(S)
        BY <3>1
      <4> HIDE DEF S
      <4>2. Sq!RemoveAt(w, 1) \in Seq(S)
        BY <3>2, <4>1, RemovedAt
      <4> QED BY <3>3, <4>2, LenProperties
    <3>5. end + 1 = 1
      BY <1>5, <3>4
    <3>6. Sq!InsertAt(Sq!RemoveAt(w, 1), 1, w[1]) = w
      <4> DEFINE S == Nat
      <4>1. w \in Seq(S)
        BY <3>1
      <4> HIDE DEF S
      <4> QED BY <3>2, <4>1, PutBack
    <3> HIDE DEF end
    <3> QED BY <2>1, <2>5, <2>7, <3>2, <3>3, <3>5, <3>6
  <2> QED BY <2>6, <2>7
<1>24. IdsIn(z, b) = IdsIn(q, b)
  <2>1. CASE b # "now"
    BY <1>18, <1>21, <1>23, <2>1
  <2>2. CASE b = "now"
    <3>1. Single(z)
      BY <1>1, <1>21, <1>22 DEF Single
    <3>2. Get(q, id).bucket = "now"
      BY <1>7 DEF g
    <3>3. IdsIn(q, "now") = <<id>>
      BY <1>1, <3>2, NowIs
    <3>4. IdsIn(z, "now") = <<id>>
      BY <1>21, <1>22, <3>1, <3>2, NowIs
    <3> QED BY <2>2, <3>3, <3>4
  <2> QED BY <2>1, <2>2
<1>25. In(z, b) = In(q, b)
  BY <1>1, <1>21, <1>22, <1>24, InSame
<1>26. UndoComplete(new, c, now).tasks = z
  <2> HIDE DEF new, q
  <2>1. c.task.id \notin TaskIds(new.tasks)
    BY <1>2, <1>3, <1>4, <1>6, <1>11
  <2>2. v \in TaskIds(new.tasks) /\ Get(new.tasks, v).bucket = "now"
    BY <1>6, <1>7, <1>11, <1>13
  <2>3. UndoComplete(new, c, now) = [new EXCEPT !.tasks = z]
    BY <1>4, <1>6, <2>1, <2>2 DEF UndoComplete, v, d, at, u, z
  <2>4. [new EXCEPT !.tasks = z].tasks = z
    BY <1>6 DEF Fine, Held, Store
  <2> QED BY <2>3, <2>4
<1> QED BY <1>25, <1>26 DEF c

LEMMA UndoBack ==
  ASSUME NEW t \in Nat, NEW now \in Nat, NEW s, Fine(s, t), NEW id \in TaskIds(s.tasks), NEW b
  PROVE  In(UndoComplete(Complete(s, id, t), Completion(s, id), now).tasks, b) = In(s.tasks, b)
<1>1. CASE Completion(s, id).pulled = None
  BY <1>1, UndoPlain
<1>2. CASE Completion(s, id).pulled # None
  BY <1>2, UndoPulled
<1> QED BY <1>1, <1>2

\* A completed task is gone: a completion always changes the queue.
LEMMA CompletedGone ==
  ASSUME NEW now \in Nat, NEW s, Fine(s, now), NEW id \in TaskIds(s.tasks)
  PROVE  Complete(s, id, now) # s
<1> DEFINE pulled == Completion(s, id).pulled
           rest == Sq!RemoveAt(s.tasks, PositionOf(s.tasks, id))
           filled == IF pulled = None THEN rest ELSE Place(rest, pulled, "now", 0)
           t == Normalized(filled, now)
<1>1. Queue(rest) /\ TaskIds(rest) = TaskIds(s.tasks) \ {id}
  BY FineFacts, OutOf
<1>2. pulled = None \/ pulled = HeadOf(rest, "next")
  BY DEF Completion
<1>3. Complete(s, id, now) = [s EXCEPT !.tasks = t]
  BY DEF Complete
<1> HIDE DEF rest, pulled
<1>4. Queue(filled) /\ TaskIds(filled) = TaskIds(rest)
  <2>1. CASE pulled = None
    BY <1>1, <2>1
  <2>2. CASE pulled # None
    <3>1. pulled \in TaskIds(rest) /\ "now" \in Bucket /\ 0 \in Nat \cup {None}
      BY <1>1, <1>2, <2>2, HeadOfOK, BucketAssumption
    <3> QED BY <1>1, <2>2, <3>1, Placed
  <2> QED BY <2>1, <2>2
<1> HIDE DEF filled
<1>5. TaskIds(t) = TaskIds(filled)
  BY <1>4, NormalizedOK
<1> HIDE DEF t
<1>6. Complete(s, id, now).tasks = t
  BY <1>3 DEF Fine, Held, Store
<1>7. id \notin TaskIds(Complete(s, id, now).tasks)
  BY <1>1, <1>4, <1>5, <1>6
<1> QED BY <1>7

(***************************************************************************)
(* What can be undone                                                      *)
(***************************************************************************)
\* As long as nothing was saved since, the queue is what the completion made
\* of the one it started from.
Undoable ==
  undo # None =>
    /\ undo.revision \in Nat /\ undo.revision <= revision
    /\ undo.revision = revision =>
         \E t \in Nat : \E id \in TaskIds(before.tasks) :
           /\ Fine(before, t) /\ store = Complete(before, id, t)
           /\ undo.completed = Completion(before, id)

Restored ==
  undo # None /\ undo' = None /\ revision' > revision =>
    \A b \in Bucket : In(store'.tasks, b) = In(before.tasks, b)

\* Nothing saved, or the app starts again.
LEMMA UndoableStays ==
  ASSUME Undoable, UNCHANGED <<store, revision, undo>>, undo # None => before' = before
  PROVE  Undoable'
BY DEF Undoable

LEMMA NotRestoring ==
  ASSUME LInv, revision' = revision \/ revision' = 0
  PROVE  Restored
BY DEF LInv, Restored

LEMMA PlainUndoable ==
  ASSUME LInv, Undoable, NEW new, Update(new, undo)
  PROVE  Undoable' /\ Restored
<1>1. revision \in Nat
  BY DEF LInv
<1>2. undo # None /\ undo' = undo => before' = before
  BY DEF Update, Remembering
<1>3. CASE UNCHANGED <<store, revision, undo>>
  BY <1>2, <1>3, UndoableStays, NotRestoring
<1>4. CASE revision' = revision + 1 /\ undo' = undo
  <2>1. Undoable'
    <3>1. CASE undo = None
      BY <1>4, <3>1 DEF Undoable
    <3>2. CASE undo # None
      <4>1. undo'.revision \in Nat /\ undo'.revision <= revision' /\ undo'.revision # revision'
        BY <1>1, <1>4, <3>2 DEF Undoable
      <4> QED BY <4>1 DEF Undoable
    <3> QED BY <3>1, <3>2
  <2>2. Restored
    BY <1>4 DEF Restored
  <2> QED BY <2>1, <2>2
<1>5. CASE undo' = None /\ revision' = 0
  BY <1>5, NotRestoring DEF Undoable
<1> QED BY <1>3, <1>4, <1>5 DEF Update, Loaded

LEMMA CompleteUndoable ==
  ASSUME LInv, Undoable, NEW id \in Ids, CompleteTask(id)
  PROVE  Undoable' /\ Restored
<1> DEFINE c == Completion(store, id)
           record == [completed |-> c, revision |-> revision + 1]
           new == Complete(store, id, clock)
<1>1. clock \in Nat /\ Fine(store, clock) /\ id \in TaskIds(store.tasks) /\ revision \in Nat
  BY DEF LInv, Ids
<1>2. Update(new, record) /\ new # store
  BY <1>1, CompletedGone DEF CompleteTask
<1>3. record.revision = revision + 1 /\ record.completed = c /\ record # None
  <2>1. c \in Completed
    BY <1>1, CompletionOK
  <2> HIDE DEF c
  <2> QED BY <1>1, <2>1, NoCompletionAssumption DEF LastCompletion
<1>4. record # undo
  <2>1. undo # None => undo.revision # revision + 1
    BY <1>1 DEF Undoable
  <2> HIDE DEF record
  <2> QED BY <1>3, <2>1
<1> HIDE DEF record, new
<1>5. CASE UNCHANGED <<store, revision, undo>>
  BY <1>2, <1>5, UndoableStays, NotRestoring DEF Update, Remembering
<1>6. CASE store' = new /\ revision' = revision + 1 /\ undo' = record
  <2>1. before' = store
    BY <1>2, <1>3, <1>4, <1>6 DEF Update, Remembering
  <2>2. Undoable'
    <3>1. undo'.revision \in Nat /\ undo'.revision <= revision'
      BY <1>1, <1>3, <1>6
    <3>2. Fine(before', clock) /\ id \in TaskIds(before'.tasks)
      BY <1>1, <2>1
    <3>3. store' = Complete(before', id, clock) /\ undo'.completed = Completion(before', id)
      BY <1>3, <1>6, <2>1 DEF new
    <3> HIDE DEF c
    <3> QED BY <1>1, <3>1, <3>2, <3>3 DEF Undoable
  <2>3. Restored
    BY <1>3, <1>6 DEF Restored
  <2> QED BY <2>2, <2>3
<1>7. CASE undo' = None /\ revision' = 0
  BY <1>7, NotRestoring DEF Undoable
<1> QED BY <1>2, <1>5, <1>6, <1>7 DEF Update, Loaded

LEMMA UndoUndoable ==
  ASSUME LInv, Undoable, NEW id, UndoTask(id)
  PROVE  Undoable' /\ Restored
<1> DEFINE c == undo.completed
           new == UndoComplete(store, c, clock)
<1>1. undo # None /\ undo.revision = revision /\ Update(new, None) /\ clock \in Nat
  BY DEF UndoTask, CanUndo, LInv
<1>2. \A b : In(new.tasks, b) = In(before.tasks, b)
  <2>1. PICK t \in Nat, x \in TaskIds(before.tasks) :
          /\ Fine(before, t) /\ store = Complete(before, x, t)
          /\ c = Completion(before, x)
    BY <1>1 DEF Undoable
  <2> HIDE DEF c
  <2>2. \A b : In(UndoComplete(Complete(before, x, t), Completion(before, x), clock).tasks, b)
                 = In(before.tasks, b)
    BY <1>1, <2>1, UndoBack
  <2>3. new = UndoComplete(Complete(before, x, t), Completion(before, x), clock)
    BY <2>1
  <2> QED BY <2>2, <2>3
<1> HIDE DEF new
<1>3. CASE UNCHANGED <<store, revision, undo>>
  BY <1>1, <1>3, UndoableStays, NotRestoring DEF Update, Remembering
<1>4. CASE undo' = None /\ revision' = revision
  BY <1>4, NotRestoring DEF Undoable
<1>5. CASE undo' = None /\ store' = new
  BY <1>2, <1>5 DEF Undoable, Restored
<1>6. CASE undo' = None /\ revision' = 0
  BY <1>6, NotRestoring DEF Undoable
<1> QED BY <1>1, <1>3, <1>4, <1>5, <1>6 DEF Update, Loaded

LEMMA UndoableSteps ==
  ASSUME LInv, Undoable, [Next]_vars
  PROVE  Undoable' /\ (UNCHANGED vars \/ Restored)
<1>1. CASE UNCHANGED vars
  BY <1>1, UndoableStays DEF vars
<1>2. CASE Request
  <2>1. ASSUME NEW new, Update(new, undo) PROVE Undoable' /\ Restored
    BY <2>1, PlainUndoable
  <2>2. ASSUME NEW id \in Ids, CompleteTask(id) PROVE Undoable' /\ Restored
    BY <2>2, CompleteUndoable
  <2> QED BY <1>2, <2>1, <2>2
        DEF Request, AddTask, RemoveTask, MoveTask, DropTask, ShiftTask, TagTask, RenameTask, Pause
<1>3. ASSUME NEW id \in 1..MaxId, UndoTask(id) PROVE Undoable' /\ Restored
  BY <1>3, UndoUndoable
<1>4. CASE Restart \/ PowerLoss
  <2>1. undo' = None /\ revision' = 0
    BY <1>4 DEF Restart, PowerLoss, Loaded
  <2> QED BY <2>1, NotRestoring DEF Undoable
<1>5. CASE Pass
  BY <1>5, UndoableStays, NotRestoring DEF Pass
<1> QED BY <1>1, <1>2, <1>3, <1>4, <1>5 DEF Next

(***************************************************************************)
(* What the requests and an undo come to                                   *)
(***************************************************************************)
\* In every queue the app ever holds, after whatever changes, every request
\* does to the lists of the queue what it means to somebody who looks at them.
THEOREM SpecMeantOnLists == Spec => []MeantOnLists
<1>1. LInv => MeantOnLists
  BY AllLists DEF LInv
<1> QED BY <1>1, LInvAlways, PTL

\* In particular in every queue an app can start with (model.rs, the requests
\* on the store and the file of any version).
THEOREM SpecRequestsMeanLists == Spec => []RequestsMeanLists
<1>1. MeantOnLists => RequestsMeanLists
  BY DEF RequestsMeanLists
<1> QED BY <1>1, SpecMeantOnLists, PTL

\* An undo that is accepted and saved gives every list back as the completion
\* found it, whatever time went by and whatever was refused in between
\* (tasks.rs, undo_complete; model.rs, complete and undo_complete).
THEOREM SpecUndoRestores == Spec => UndoRestores
<1>1. Init => Undoable
  BY DEF Init, Undoable
<1>2. LInv /\ Undoable /\ [Next]_vars => Undoable' /\ [Restored]_vars
  BY UndoableSteps
<1>3. Spec => [][Restored]_vars
  BY <1>1, <1>2, LInvAlways, PTL DEF Spec
<1> QED BY <1>3 DEF UndoRestores, Restored
=============================================================================
