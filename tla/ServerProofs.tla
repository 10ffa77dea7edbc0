---------------------------- MODULE ServerProofs ----------------------------
(***************************************************************************)
(* What every accepted command preserves, proved of the transitions of     *)
(* QueueReducer for any set of tasks, commands and titles; and that the    *)
(* server keeps its database sound, its history an ancestry and every      *)
(* command's effect single, whatever its devices send, however often, and  *)
(* whichever backup an operator brings back.  What an action does to the   *)
(* database is proved here, for whoever composes the server with devices.  *)
(***************************************************************************)
EXTENDS QueueServer, DeviceIntents, SequenceTheorems, FiniteSetTheorems, TLAPS

(***************************************************************************)
(* Lists without repetition                                                *)
(***************************************************************************)
Elements(order) == {order[i] : i \in DOMAIN order}
Injective(order) == \A i, j \in DOMAIN order : order[i] = order[j] => i = j

\* A bounded set of positions has a first one.
LEMMA LeastExists ==
  ASSUME NEW n \in Nat, NEW I \in SUBSET (1..n), I # {}
  PROVE  Least(I) \in I /\ \A j \in I : Least(I) <= j
<1> DEFINE Below(i) == {j \in I : j <= i}
           Order == StrictSubsetOrdering(1..n)
           All == {Below(i) : i \in I}
<1>1. IsWellFoundedOn(Order, FiniteSubsetsOf(1..n))
  BY FS_StrictSubsetOrderingWellFounded
<1>2. All \subseteq FiniteSubsetsOf(1..n)
  <2>1. IsFiniteSet(1..n)
    BY FS_Interval
  <2>2. FiniteSubsetsOf(1..n) = SUBSET (1..n)
    BY <2>1, FS_FiniteSubsetsOfFinite
  <2>3. All \subseteq SUBSET (1..n)
    BY Zenon
  <2> QED BY <2>2, <2>3, Zenon
<1>3. All # {}
  OBVIOUS
<1>4. PICK D \in All : \A E \in All : <<E, D>> \notin Order
  <2> HIDE DEF All, Order
  <2> QED BY <1>1, <1>2, <1>3, WFMin
<1>5. PICK m \in I : D = Below(m)
  BY <1>4
<1>6. \A j \in I : m <= j
  <2> SUFFICES ASSUME NEW j \in I, j < m PROVE FALSE
    OBVIOUS
  <2>3. /\ \A x \in I : x <= j => x <= m
        /\ m <= m /\ ~(m <= j)
    OBVIOUS
  <2>1. Below(j) \subseteq Below(m) /\ m \in Below(m) /\ m \notin Below(j)
    BY <2>3, Zenon
  <2>2. <<Below(j), D>> \in Order
    BY <2>1, <1>5 DEF StrictSubsetOrdering
  <2> QED BY <2>2, <1>4
<1> QED BY <1>6 DEF Least

LEMMA GreatestExists ==
  ASSUME NEW n \in Nat, NEW I \in SUBSET (1..n), I # {}
  PROVE  Greatest(I) \in I /\ \A j \in I : j <= Greatest(I)
<1> DEFINE Above(i) == {j \in I : i <= j}
           Order == StrictSubsetOrdering(1..n)
           All == {Above(i) : i \in I}
<1>1. IsWellFoundedOn(Order, FiniteSubsetsOf(1..n))
  BY FS_StrictSubsetOrderingWellFounded
<1>2. All \subseteq FiniteSubsetsOf(1..n)
  <2>1. IsFiniteSet(1..n)
    BY FS_Interval
  <2>2. FiniteSubsetsOf(1..n) = SUBSET (1..n)
    BY <2>1, FS_FiniteSubsetsOfFinite
  <2>3. All \subseteq SUBSET (1..n)
    BY Zenon
  <2> QED BY <2>2, <2>3, Zenon
<1>3. All # {}
  OBVIOUS
<1>4. PICK D \in All : \A E \in All : <<E, D>> \notin Order
  <2> HIDE DEF All, Order
  <2> QED BY <1>1, <1>2, <1>3, WFMin
<1>5. PICK m \in I : D = Above(m)
  BY <1>4
<1>6. \A j \in I : j <= m
  <2> SUFFICES ASSUME NEW j \in I, m < j PROVE FALSE
    OBVIOUS
  <2>3. /\ \A x \in I : j <= x => m <= x
        /\ m <= m /\ ~(j <= m)
    OBVIOUS
  <2>1. Above(j) \subseteq Above(m) /\ m \in Above(m) /\ m \notin Above(j)
    BY <2>3, Zenon
  <2>2. <<Above(j), D>> \in Order
    BY <2>1, <1>5 DEF StrictSubsetOrdering
  <2> QED BY <2>2, <1>4
<1> QED BY <1>6 DEF Greatest

\* The place of an element, and the list without it.
LEMMA PositionOfElement ==
  ASSUME NEW S, NEW order \in Seq(S), NEW t \in Elements(order)
  PROVE  Position(order, t) \in 1..Len(order) /\ order[Position(order, t)] = t
<1> DEFINE I == {i \in DOMAIN order : order[i] = t}
<1>1. Len(order) \in Nat /\ DOMAIN order = 1..Len(order)
  BY LenProperties
<1>2. I \in SUBSET (1..Len(order)) /\ I # {}
  BY <1>1 DEF Elements
<1>3. Least(I) \in I
  BY <1>1, <1>2, LeastExists
<1> QED BY <1>1, <1>3 DEF Position

LEMMA RemoveElement ==
  ASSUME NEW S, NEW order \in Seq(S), Injective(order), NEW t \in Elements(order)
  PROVE  LET rest == RemoveAt(order, Position(order, t))
         IN /\ rest \in Seq(S)
            /\ Injective(rest)
            /\ Elements(rest) = Elements(order) \ {t}
<1> DEFINE p == Position(order, t)
           n == Len(order)
           rest == RemoveAt(order, p)
<1>1. n \in Nat /\ DOMAIN order = 1..n /\ \A i \in 1..n : order[i] \in S
  BY LenProperties, ElementOfSeq
<1>2. p \in 1..n /\ order[p] = t
  BY PositionOfElement
<1> HIDE DEF p
<1>3. rest = [j \in 1..(n - 1) |-> order[IF j < p THEN j ELSE j + 1]]
  BY DEF RemoveAt
<1>4. rest \in Seq(S) /\ Len(rest) = n - 1 /\ DOMAIN rest = 1..(n - 1)
  <2>1. \A j \in 1..(n - 1) : (IF j < p THEN j ELSE j + 1) \in 1..n
    BY <1>1, <1>2
  <2>2. rest \in [1..(n - 1) -> S] /\ n - 1 \in Nat
    BY <1>1, <1>2, <1>3, <2>1
  <2> QED BY <2>2
<1>5. Injective(rest)
  BY <1>1, <1>2, <1>3, <1>4 DEF Injective
<1>6. Elements(rest) \subseteq Elements(order) \ {t}
  <2> SUFFICES ASSUME NEW j \in 1..(n - 1)
               PROVE  rest[j] \in Elements(order) /\ rest[j] # t
    BY <1>4 DEF Elements
  <2> DEFINE k == IF j < p THEN j ELSE j + 1
  <2>1. k \in 1..n /\ k # p /\ rest[j] = order[k]
    BY <1>1, <1>2, <1>3
  <2> QED BY <2>1, <1>1, <1>2 DEF Elements, Injective
<1>7. Elements(order) \ {t} \subseteq Elements(rest)
  <2> SUFFICES ASSUME NEW i \in 1..n, order[i] # t
               PROVE  order[i] \in Elements(rest)
    BY <1>1 DEF Elements
  <2> DEFINE k == IF i < p THEN i ELSE i - 1
  <2>1. k \in 1..(n - 1) /\ rest[k] = order[i]
    BY <1>1, <1>2, <1>3
  <2> QED BY <2>1, <1>4 DEF Elements
<1> QED BY <1>4, <1>5, <1>6, <1>7 DEF p

LEMMA InsertElement ==
  ASSUME NEW S, NEW order \in Seq(S), Injective(order),
         NEW t \in S, t \notin Elements(order), NEW at \in 1..(Len(order) + 1)
  PROVE  LET more == InsertAt(order, at, t)
         IN /\ more \in Seq(S)
            /\ Injective(more)
            /\ Elements(more) = Elements(order) \cup {t}
<1> DEFINE n == Len(order)
           more == InsertAt(order, at, t)
<1>1. n \in Nat /\ DOMAIN order = 1..n /\ \A i \in 1..n : order[i] \in S
  BY LenProperties, ElementOfSeq
<1>2. more = [j \in 1..(n + 1) |->
               IF j < at THEN order[j] ELSE IF j = at THEN t ELSE order[j - 1]]
  BY DEF InsertAt
<1>3. more \in Seq(S) /\ DOMAIN more = 1..(n + 1)
  <2>1. more \in [1..(n + 1) -> S] /\ n + 1 \in Nat
    BY <1>1, <1>2
  <2> QED BY <2>1
<1>4. \A i \in 1..n : order[i] # t
  BY <1>1 DEF Elements
<1>5. Injective(more)
  BY <1>1, <1>2, <1>3, <1>4 DEF Injective
<1>6. Elements(more) \subseteq Elements(order) \cup {t}
  <2> SUFFICES ASSUME NEW j \in 1..(n + 1)
               PROVE  more[j] = t \/ \E i \in 1..n : more[j] = order[i]
    BY <1>1, <1>3 DEF Elements
  <2> QED BY <1>1, <1>2
<1>7. Elements(order) \cup {t} \subseteq Elements(more)
  <2>1. more[at] = t
    BY <1>1, <1>2
  <2>2. ASSUME NEW i \in 1..n
        PROVE  \E j \in 1..(n + 1) : more[j] = order[i]
    <3> DEFINE j == IF i < at THEN i ELSE i + 1
    <3>1. j \in 1..(n + 1) /\ more[j] = order[i]
      BY <1>1, <1>2
    <3> QED BY <3>1
  <2>3. \A j \in 1..(n + 1) : more[j] \in Elements(more)
    BY <1>3 DEF Elements
  <2> QED BY <1>1, <2>1, <2>2, <2>3 DEF Elements
<1> QED BY <1>3, <1>5, <1>6, <1>7

LEMMA AppendElement ==
  ASSUME NEW S, NEW order \in Seq(S), Injective(order),
         NEW t \in S, t \notin Elements(order)
  PROVE  /\ Append(order, t) \in Seq(S)
         /\ Injective(Append(order, t))
         /\ Elements(Append(order, t)) = Elements(order) \cup {t}
<1>1. Len(order) \in Nat /\ DOMAIN order = 1..Len(order)
  BY LenProperties
<1>2. /\ Append(order, t) \in Seq(S)
      /\ DOMAIN Append(order, t) = 1..(Len(order) + 1)
      /\ \A i \in 1..Len(order) : Append(order, t)[i] = order[i]
      /\ Append(order, t)[Len(order) + 1] = t
  BY AppendProperties, LenProperties
<1>3. \A i \in 1..Len(order) : order[i] # t
  BY <1>1 DEF Elements
<1>4. Injective(Append(order, t))
  BY <1>1, <1>2, <1>3 DEF Injective
<1>5. Elements(Append(order, t)) = Elements(order) \cup {t}
  BY <1>1, <1>2 DEF Elements
<1> QED BY <1>2, <1>4, <1>5

(***************************************************************************)
(* Moving, dropping and adding tasks                                       *)
(***************************************************************************)
Listed(s) == IsBody(s) /\ OrderedOnce(s)

\* All of a snapshot but its tasks and their order.
SameAround(s, r) ==
  /\ s.generation = r.generation /\ s.revision = r.revision /\ s.history = r.history
  /\ s.initialized = r.initialized /\ s.focus = r.focus /\ s.undo = r.undo

LEMMA OrderedOnceIsElements ==
  ASSUME NEW s
  PROVE  OrderedOnce(s) <=> Elements(s.order) = Live(s) /\ Injective(s.order)
BY DEF OrderedOnce, Elements, Injective

\* s has the fields of a snapshot, whatever is in them.
Shape(s) ==
  s \in [generation : {s.generation}, revision : {s.revision}, history : {s.history},
         initialized : {s.initialized}, order : {s.order}, task : {s.task},
         focus : {s.focus}, undo : {s.undo}]

\* A snapshot given new tasks in a new order is again a listed snapshot.
LEMMA Relisted ==
  ASSUME NEW s, IsBody(s), NEW r, Shape(r), SameAround(r, s),
         r.order \in Seq(TaskId), Injective(r.order), Elements(r.order) = Live(r),
         Partial(r.task, TaskId, TaskRecord)
  PROVE  Listed(r)
<1>1. r \in [generation : Generation, revision : Nat, history : {r.history},
             initialized : BOOLEAN, order : Seq(TaskId), task : {r.task},
             focus : [version : Token, session : Session \cup {None}],
             undo : Hint \cup {None}]
  BY DEF IsBody, SameAround, Shape
<1> QED BY <1>1, OrderedOnceIsElements DEF Listed, IsBody

LEMMA DropFacts ==
  ASSUME NEW s, Listed(s), NEW t \in Live(s)
  PROVE  LET d == Drop(s, t)
         IN /\ Listed(d) /\ SameAround(d, s)
            /\ Live(d) = Live(s) \ {t}
            /\ NowTasks(d) = NowTasks(s) \ {t}
            /\ \A u \in Live(d) : d.task[u] = s.task[u]
<1> DEFINE order == RemoveAt(s.order, Position(s.order, t))
           task == [u \in DOMAIN s.task \ {t} |-> s.task[u]]
<1>1. /\ s.order \in Seq(TaskId) /\ Injective(s.order) /\ Elements(s.order) = Live(s)
      /\ Partial(s.task, TaskId, TaskRecord)
  BY OrderedOnceIsElements DEF Listed, IsBody
<1>2. order \in Seq(TaskId) /\ Injective(order) /\ Elements(order) = Live(s) \ {t}
  BY <1>1, RemoveElement
<1>3. Partial(task, TaskId, TaskRecord) /\ DOMAIN task = Live(s) \ {t}
  BY <1>1 DEF Partial, Live
<1> DEFINE d == Drop(s, t)
<1>4. /\ Shape(d) /\ SameAround(d, s) /\ d.order = order /\ d.task = task
  <2>0. Shape(s)
    BY DEF Shape, Listed, IsBody
  <2>1. Shape(d)
    BY <2>0 DEF Drop, Shape
  <2>2. SameAround(d, s)
    BY <2>0 DEF Drop, Shape, SameAround
  <2>3. d.order = order
    BY <2>0 DEF Drop, Shape
  <2>4. d.task = task
    BY <2>0 DEF Drop, Shape
  <2> QED BY <2>1, <2>2, <2>3, <2>4
<1>5. Listed(d)
  <2> HIDE DEF order, task, d
  <2> QED BY <1>2, <1>3, <1>4, Relisted DEF Listed, Live
<1> QED BY <1>3, <1>4, <1>5 DEF Live, NowTasks

LEMMA PlaceFacts ==
  ASSUME NEW s, Listed(s), NEW t \in Live(s), NEW bucket \in Bucket,
         NEW before \in (Live(s) \ {t}) \cup {None}, NEW command \in Token
  PROVE  LET d == Place(s, t, bucket, before, command)
         IN /\ Listed(d) /\ SameAround(d, s)
            /\ Live(d) = Live(s)
            /\ NowTasks(d) = (NowTasks(s) \ {t}) \cup (IF bucket = "now" THEN {t} ELSE {})
<1> DEFINE rest == RemoveAt(s.order, Position(s.order, t))
           inBucket == PlacesIn(rest, s.task, bucket, None)
           at == IF before # None THEN Position(rest, before)
                 ELSE IF inBucket = {} THEN Len(rest) + 1
                 ELSE Greatest(inBucket) + 1
           order == InsertAt(rest, at, t)
           task == [s.task EXCEPT ![t].bucket = bucket, ![t].versions.placement = command]
<1>1. /\ s.order \in Seq(TaskId) /\ Injective(s.order) /\ Elements(s.order) = Live(s)
      /\ Partial(s.task, TaskId, TaskRecord)
  BY OrderedOnceIsElements DEF Listed, IsBody
<1>2. rest \in Seq(TaskId) /\ Injective(rest) /\ Elements(rest) = Live(s) \ {t}
  BY <1>1, RemoveElement
<1>3. at \in 1..(Len(rest) + 1)
  <2>1. Len(rest) \in Nat /\ DOMAIN rest = 1..Len(rest)
    BY <1>2, LenProperties
  <2> HIDE DEF rest
  <2>2. CASE before # None
    <3>1. before \in Elements(rest)
      BY <1>2, <2>2
    <3> QED BY <3>1, <2>1, <2>2, <1>2, PositionOfElement
  <2>3. CASE before = None /\ inBucket = {}
    BY <2>1, <2>3
  <2>4. CASE before = None /\ inBucket # {}
    <3>1. inBucket \in SUBSET (1..Len(rest))
      BY <2>1 DEF PlacesIn
    <3>2. Greatest(inBucket) \in 1..Len(rest)
      <4> HIDE DEF inBucket
      <4> QED BY <2>1, <2>4, <3>1, GreatestExists
    <3> HIDE DEF inBucket
    <3> QED BY <2>1, <2>4, <3>2
  <2> QED BY <2>2, <2>3, <2>4
<1>4. order \in Seq(TaskId) /\ Injective(order) /\ Elements(order) = Live(s)
  <2> t \in TaskId
    BY <1>1 DEF Partial, Live
  <2> HIDE DEF at, rest
  <2>1. t \notin Elements(rest)
    BY <1>2
  <2>2. /\ order \in Seq(TaskId) /\ Injective(order)
        /\ Elements(order) = Elements(rest) \cup {t}
    BY <1>2, <1>3, <2>1, InsertElement
  <2> QED BY <1>2, <2>2
<1>5. Partial(task, TaskId, TaskRecord) /\ DOMAIN task = Live(s)
  <2>1. s.task \in [Live(s) -> TaskRecord] /\ Live(s) \subseteq TaskId
    BY <1>1 DEF Partial, Live
  <2>2. DOMAIN task = Live(s) /\ \A u \in Live(s) \ {t} : task[u] = s.task[u]
    BY <2>1
  <2>3. task[t] \in TaskRecord
    BY <2>1 DEF TaskRecord
  <2>4. task = [u \in Live(s) |-> task[u]]
    BY <2>1
  <2> HIDE DEF task
  <2>5. \A u \in Live(s) : task[u] \in TaskRecord
    BY <2>1, <2>2, <2>3
  <2> QED BY <2>1, <2>2, <2>4, <2>5 DEF Partial
<1> DEFINE d == Place(s, t, bucket, before, command)
<1>6. Shape(d) /\ SameAround(d, s) /\ d.order = order /\ d.task = task
  <2>0. Shape(s)
    BY DEF Shape, Listed, IsBody
  <2>1. Shape(d)
    BY <2>0 DEF Place, Shape
  <2>2. SameAround(d, s)
    BY <2>0 DEF Place, Shape, SameAround
  <2>3. d.order = order
    BY <2>0 DEF Place, Shape
  <2>4. d.task = task
    BY <2>0 DEF Place, Shape
  <2> QED BY <2>1, <2>2, <2>3, <2>4
<1>7. Listed(d)
  <2> HIDE DEF order, task, d
  <2> QED BY <1>4, <1>5, <1>6, Relisted DEF Listed, Live
<1>8. NowTasks(d) = (NowTasks(s) \ {t}) \cup (IF bucket = "now" THEN {t} ELSE {})
  <2> HIDE DEF d
  <2> QED BY <1>1, <1>5, <1>6 DEF NowTasks, Live, Partial, TaskRecord
<1> QED BY <1>5, <1>6, <1>7, <1>8 DEF Live

\* The first task of a bucket is a live task of it.
LEMMA Head1Facts ==
  ASSUME NEW s, Listed(s), NEW bucket, NEW skipped,
         Head1(s, bucket, skipped) # None
  PROVE  /\ Head1(s, bucket, skipped) \in Live(s)
         /\ s.task[Head1(s, bucket, skipped)].bucket = bucket
         /\ Head1(s, bucket, skipped) # skipped
<1> DEFINE places == PlacesIn(s.order, s.task, bucket, skipped)
<1>1. places # {} /\ Head1(s, bucket, skipped) = s.order[Least(places)]
  BY DEF Head1
<1>2. Len(s.order) \in Nat /\ DOMAIN s.order = 1..Len(s.order)
  BY LenProperties DEF Listed, IsBody
<1>3. places \in SUBSET (1..Len(s.order))
  BY <1>2 DEF PlacesIn
<1>4. Least(places) \in places
  <2> HIDE DEF places
  <2> QED BY <1>1, <1>2, <1>3, LeastExists
<1> QED BY <1>1, <1>2, <1>4 DEF PlacesIn, Listed, OrderedOnce

\* All of a snapshot but its tasks and its session.
SameButSession(s, r) ==
  /\ s.generation = r.generation /\ s.revision = r.revision /\ s.history = r.history
  /\ s.initialized = r.initialized /\ s.focus.version = r.focus.version /\ s.undo = r.undo

NewSession(command, t, now) ==
  [id |-> command, task |-> t, elapsed |-> 0, running |-> TRUE, anchor |-> now]

\* Giving a listed snapshot the session of its only Now task.
LEMMA Refocused ==
  ASSUME NEW s, Listed(s), NEW session \in Session \cup {None},
         NowTasks(s) = IF session = None THEN {} ELSE {session.task}
  PROVE  LET r == [s EXCEPT !.focus.session = session]
         IN /\ Listed(r) /\ FocusIsNow(r) /\ SameButSession(r, s)
            /\ Live(r) = Live(s) /\ r.focus.session = session
<1> DEFINE r == [s EXCEPT !.focus.session = session]
<1>1. /\ r \in [generation : Generation, revision : Nat, history : {r.history},
               initialized : BOOLEAN, order : Seq(TaskId), task : {r.task},
               focus : [version : Token, session : Session \cup {None}],
               undo : Hint \cup {None}]
      /\ r.order = s.order /\ r.task = s.task /\ r.focus.session = session
      /\ SameButSession(r, s)
  BY DEF Listed, IsBody, SameButSession
<1> HIDE DEF r
<1>2. Listed(r)
  BY <1>1 DEF Listed, IsBody, OrderedOnce, Live
<1>3. FocusIsNow(r) /\ Live(r) = Live(s)
  BY <1>1 DEF FocusIsNow, NowTasks, Live, SessionTask
<1> QED BY <1>1, <1>2, <1>3 DEF r

LEMMA CurrentIsSessionTask ==
  ASSUME NEW s, Listed(s), FocusIsNow(s)
  PROVE  /\ Current(s) = SessionTask(s)
         /\ Current(s) = None <=> NowTasks(s) = {}
         /\ Current(s) # None => /\ NowTasks(s) = {Current(s)}
                                /\ Current(s) \in Live(s)
                                /\ s.task[Current(s)].bucket = "now"
<1>1. Live(s) \subseteq TaskId /\ None \notin TaskId
  BY DistinctValues DEF Listed, IsBody, Partial, Live
<1>2. NowTasks(s) \subseteq Live(s)
  BY DEF NowTasks
<1>3. CASE s.focus.session = None
  BY <1>3 DEF FocusIsNow, Current, SessionTask
<1>4. CASE s.focus.session # None
  <2>1. NowTasks(s) = {SessionTask(s)}
    BY <1>4 DEF FocusIsNow
  <2>2. SessionTask(s) \in Live(s) /\ SessionTask(s) # None
    BY <2>1, <1>1, <1>2
  <2> QED BY <2>1, <2>2 DEF Current, NowTasks
<1> QED BY <1>3, <1>4

LEMMA PromoteFacts ==
  ASSUME NEW s, Listed(s), FocusIsNow(s), NEW t \in Live(s),
         NEW command \in Token, NEW now \in Nat
  PROVE  LET p == Promote(s, t, command, now)
         IN /\ Listed(p) /\ FocusIsNow(p) /\ SameButSession(p, s)
            /\ Live(p) = Live(s)
            /\ p.focus.session \in {s.focus.session, NewSession(command, t, now)}
<1> DEFINE p == Promote(s, t, command, now)
<1> "next" \in Bucket /\ "now" \in Bucket /\ "next" # "now"
  BY ProtocolConstants DEF Bucket
<1> t \in TaskId
  BY DEF Listed, IsBody, Partial, Live
<1>1. CASE SessionTask(s) = t
  <2>1. p = s
    BY <1>1 DEF Promote
  <2> QED BY <1>1, <2>1 DEF SameButSession
<1>2. CASE SessionTask(s) # t
  <2> DEFINE freed == IF Current(s) = None THEN s
                      ELSE Place(s, Current(s), "next", Head1(s, "next", t), command)
             placed == Place(freed, t, "now", None, command)
  <2>1. /\ Listed(freed) /\ SameAround(freed, s) /\ Live(freed) = Live(s)
        /\ NowTasks(freed) = {}
    <3>1. CASE Current(s) = None
      BY <3>1, CurrentIsSessionTask DEF SameAround
    <3>2. CASE Current(s) # None
      <4>1. /\ NowTasks(s) = {Current(s)} /\ Current(s) \in Live(s)
            /\ s.task[Current(s)].bucket = "now"
        BY <3>2, CurrentIsSessionTask
      <4>2. Head1(s, "next", t) \in (Live(s) \ {Current(s)}) \cup {None}
        BY <4>1, Head1Facts
      <4> DEFINE f == Place(s, Current(s), "next", Head1(s, "next", t), command)
      <4>3. /\ Listed(f) /\ SameAround(f, s) /\ Live(f) = Live(s)
            /\ NowTasks(f) = (NowTasks(s) \ {Current(s)}) \cup (IF "next" = "now" THEN {Current(s)} ELSE {})
        BY <4>1, <4>2, PlaceFacts
      <4> QED BY <3>2, <4>1, <4>3
    <3> QED BY <3>1, <3>2
  <2> HIDE DEF freed
  <2>2. /\ Listed(placed) /\ SameAround(placed, freed) /\ Live(placed) = Live(freed)
        /\ NowTasks(placed) = (NowTasks(freed) \ {t}) \cup (IF "now" = "now" THEN {t} ELSE {})
    BY <2>1, PlaceFacts
  <2>3. NowTasks(placed) = {t}
    BY <2>1, <2>2
  <2> DEFINE session == NewSession(command, t, now)
  <2>4. session \in Session /\ session # None /\ session.task = t
    <3>1. session \in Session
      BY DEF NewSession, Session
    <3>2. None \notin Session
      BY DistinctValues
    <3>3. session.task = t
      BY DEF NewSession
    <3> QED BY <3>1, <3>2, <3>3
  <2> HIDE DEF placed, session
  <2> DEFINE r == [placed EXCEPT !.focus.session = session]
  <2>5. /\ Listed(r) /\ FocusIsNow(r) /\ SameButSession(r, placed)
        /\ Live(r) = Live(placed) /\ r.focus.session = session
    BY <2>2, <2>3, <2>4, Refocused
  <2>6. p = r
    BY <1>2 DEF Promote, NewSession, placed, freed, session
  <2>7. SameButSession(r, s)
    BY <2>1, <2>2, <2>5 DEF SameAround, SameButSession
  <2> HIDE DEF r, p
  <2> QED BY <2>1, <2>2, <2>5, <2>6, <2>7 DEF session, p
<1> QED BY <1>1, <1>2

(***************************************************************************)
(* Queued commands                                                         *)
(***************************************************************************)
StateShape(st) ==
  st \in [snapshot : {st.snapshot}, used : SUBSET TaskId, undo : {st.undo}]

\* A started state, whatever its undo record.
Base(st) ==
  /\ StateShape(st)
  /\ Listed(st.snapshot) /\ FocusIsNow(st.snapshot)
  /\ Live(st.snapshot) \subseteq st.used
  /\ Cardinality(Live(st.snapshot)) <= MaxTasks
  /\ st.snapshot.initialized

\* A state whose undo record is gone, as every command but Undo finds it.
Clean(st) == Base(st) /\ st.undo = NoUndo /\ st.snapshot.undo = None

\* A sequence has finitely many elements.
LEMMA ElementsFinite ==
  ASSUME NEW S, NEW order \in Seq(S)
  PROVE  IsFiniteSet(Elements(order)) /\ Cardinality(Elements(order)) <= Len(order)
<1>1. Len(order) \in Nat /\ DOMAIN order = 1..Len(order) /\ order \in [1..Len(order) -> S]
  BY LenProperties
<1>2. order \in Surjection(1..Len(order), Elements(order))
  BY <1>1 DEF Surjection, Elements
<1>3. ExistsSurjection(1..Len(order), Elements(order))
  BY <1>2 DEF ExistsSurjection
<1> QED BY <1>1, <1>3, FS_NatSurjection, FS_SurjCardinalityBound

LEMMA LiveFinite ==
  ASSUME NEW s, Listed(s)
  PROVE  IsFiniteSet(Live(s)) /\ Cardinality(Live(s)) \in Nat
<1>1. Elements(s.order) = Live(s) /\ s.order \in Seq(TaskId)
  BY OrderedOnceIsElements DEF Listed, IsBody
<1>2. IsFiniteSet(Live(s))
  BY <1>1, ElementsFinite
<1> QED BY <1>2, FS_CardinalityType

LEMMA AnchorFacts ==
  ASSUME NEW s, NEW t, NEW bucket, NEW before \in Anchor \cup {None},
         AnchorRefusal(s, t, bucket, before) = None
  PROVE  AnchorTask(before) \in (Live(s) \ {t}) \cup {None}
BY DistinctValues DEF AnchorRefusal, AnchorTask, Require, ??, Reason

LEMMA CreateFacts ==
  ASSUME NEW st, Clean(st), NEW t \in TaskId, CreateRefusal(st, t) = None,
         NEW command \in Token, NEW title \in Title, NEW tag \in Tag \cup {None},
         NEW bucket \in QueueBucket, NEW created \in Nat
  PROVE  LET r == CreateTask(st, command, t, title, tag, bucket, created)
         IN /\ Clean(r) /\ r.snapshot.generation = st.snapshot.generation
            /\ r.snapshot.focus = st.snapshot.focus
            /\ t \in Live(r.snapshot)
<1> DEFINE r == CreateTask(st, command, t, title, tag, bucket, created)
           s == st.snapshot
           task == [u \in DOMAIN s.task \cup {t} |->
              IF u = t THEN [title |-> title, tag |-> tag, bucket |-> bucket,
                             created |-> created, versions |-> Versions(command)]
              ELSE s.task[u]]
           order == Append(s.order, t)
<1>1. t \notin st.used /\ Cardinality(Live(s)) < MaxTasks
  BY DistinctValues DEF CreateRefusal, Require, ??, Reason
<1>2. t \notin Live(s)
  BY <1>1 DEF Clean, Base
<1>3. /\ s.order \in Seq(TaskId) /\ Injective(s.order) /\ Elements(s.order) = Live(s)
      /\ Partial(s.task, TaskId, TaskRecord)
  BY OrderedOnceIsElements DEF Clean, Base, Listed, IsBody
<1>4. order \in Seq(TaskId) /\ Injective(order) /\ Elements(order) = Live(s) \cup {t}
  BY <1>2, <1>3, AppendElement
<1>5. Partial(task, TaskId, TaskRecord) /\ DOMAIN task = Live(s) \cup {t}
  BY <1>3 DEF Partial, Live, TaskRecord, Versions, Bucket
<1>6. /\ r.snapshot.order = order /\ r.snapshot.task = task
      /\ SameAround(r.snapshot, s)
      /\ Shape(r.snapshot)
      /\ StateShape(r) /\ r.used = st.used \cup {t} /\ r.undo = st.undo
  <2>1. StateShape(st) /\ Shape(s)
    BY DEF Clean, Base, Listed, IsBody, Shape
  <2>2. r.snapshot.order = order
    BY <2>1 DEF CreateTask, StateShape, Shape
  <2>3. r.snapshot.task = task
    BY <2>1 DEF CreateTask, StateShape, Shape
  <2>4. SameAround(r.snapshot, s)
    BY <2>1 DEF CreateTask, StateShape, Shape, SameAround
  <2>5. Shape(r.snapshot)
    BY <2>1 DEF CreateTask, StateShape, Shape
  <2>6. StateShape(r) /\ r.used = st.used \cup {t} /\ r.undo = st.undo
    BY <2>1 DEF CreateTask, StateShape
  <2> QED BY <2>2, <2>3, <2>4, <2>5, <2>6
<1> HIDE DEF r, order, task
<1>7. Listed(r.snapshot)
  BY <1>3, <1>4, <1>5, <1>6, Relisted DEF Clean, Base, Listed, Live
<1>8. NowTasks(r.snapshot) = NowTasks(s)
  BY <1>2, <1>5, <1>6, ProtocolConstants DEF NowTasks, Live, task
<1>9. FocusIsNow(r.snapshot)
  BY <1>6, <1>8 DEF FocusIsNow, SessionTask, SameAround, Clean, Base
<1>10. Live(r.snapshot) = Live(s) \cup {t}
  BY <1>5, <1>6 DEF Live
<1>11. Cardinality(Live(r.snapshot)) <= MaxTasks
  <2>1. IsFiniteSet(Live(s)) /\ Cardinality(Live(s)) \in Nat
    BY LiveFinite DEF Clean, Base
  <2>2. Cardinality(Live(s) \cup {t}) = Cardinality(Live(s)) + 1
    BY <1>2, <2>1, FS_AddElement
  <2> QED BY <1>1, <1>10, <2>1, <2>2, ProtocolConstants
<1>12. Clean(r) /\ r.snapshot.generation = s.generation
  BY <1>6, <1>7, <1>9, <1>10, <1>11 DEF Clean, Base, SameAround
<1> QED BY <1>6, <1>10, <1>12 DEF r, SameAround

\* A started state given another snapshot of no more tasks.
LEMMA BaseWith ==
  ASSUME NEW st, Base(st), NEW r, StateShape(r), r.used = st.used,
         Listed(r.snapshot), FocusIsNow(r.snapshot),
         r.snapshot.initialized = st.snapshot.initialized,
         Live(r.snapshot) \subseteq Live(st.snapshot)
  PROVE  Base(r)
<1>1. IsFiniteSet(Live(st.snapshot)) /\ Cardinality(Live(st.snapshot)) \in Nat
  BY LiveFinite DEF Base
<1>2. IsFiniteSet(Live(r.snapshot)) /\ Cardinality(Live(r.snapshot)) \in Nat
  BY LiveFinite
<1>3. Cardinality(Live(r.snapshot)) <= Cardinality(Live(st.snapshot))
  BY <1>1, FS_Subset
<1>4. Cardinality(Live(r.snapshot)) <= MaxTasks
  BY <1>1, <1>2, <1>3, ProtocolConstants DEF Base
<1> QED BY <1>4 DEF Base

\* New contents for one live task, in its place and bucket.
LEMMA Rewritten ==
  ASSUME NEW st, Clean(st), NEW t \in Live(st.snapshot), NEW record \in TaskRecord,
         record.bucket = st.snapshot.task[t].bucket
  PROVE  LET r == [st EXCEPT !.snapshot.task[t] = record]
         IN Clean(r) /\ r.snapshot.generation = st.snapshot.generation
<1> DEFINE r == [st EXCEPT !.snapshot.task[t] = record]
           s == st.snapshot
<1>1. StateShape(st) /\ Shape(s)
  BY DEF Clean, Base, Listed, IsBody, Shape
<1>2. /\ r.snapshot.task = [s.task EXCEPT ![t] = record] /\ r.snapshot.order = s.order
      /\ SameAround(r.snapshot, s)
  BY <1>1 DEF StateShape, Shape, SameAround
<1>3. Shape(r.snapshot)
  BY <1>1 DEF StateShape, Shape
<1>4. StateShape(r) /\ r.used = st.used /\ r.undo = st.undo
  BY <1>1 DEF StateShape
<1> HIDE DEF r
<1>5. Partial(r.snapshot.task, TaskId, TaskRecord) /\ Live(r.snapshot) = Live(s)
  BY <1>2 DEF Clean, Base, Listed, IsBody, Partial, Live
<1>6. Listed(r.snapshot)
  BY <1>2, <1>3, <1>5, Relisted, OrderedOnceIsElements DEF Clean, Base, Listed, IsBody
<1>7. NowTasks(r.snapshot) = NowTasks(s)
  BY <1>2, <1>5 DEF NowTasks, Live
<1>8. FocusIsNow(r.snapshot)
  BY <1>2, <1>7 DEF FocusIsNow, SessionTask, SameAround, Clean, Base
<1>9. Clean(r)
  BY <1>2, <1>4, <1>5, <1>6, <1>8, BaseWith DEF SameAround, Clean
<1> QED BY <1>2, <1>9 DEF r, SameAround

LEMMA QueuedFacts ==
  ASSUME NEW st, Clean(st), NEW a \in Queued, QueuedRefusal(st, a) = None,
         NEW command \in Token, NEW now \in Nat
  PROVE  LET r == QueuedEffect(st, command, a, now)
         IN Clean(r) /\ r.snapshot.generation = st.snapshot.generation
<1> DEFINE s == st.snapshot
           r == QueuedEffect(st, command, a, now)
<1> USE DistinctValues DEF Reason
<1>0. /\ Partial(s.task, TaskId, TaskRecord) /\ StateShape(st) /\ Listed(s)
      /\ FocusIsNow(s) /\ Shape(s)
  BY DEF Clean, Base, Listed, IsBody, Shape
<1>1. CASE a.op = "Create"
  <2>1. /\ CreateRefusal(st, a.task) = None /\ a.task \in TaskId /\ a.title \in Title
        /\ a.tag \in Tag \cup {None} /\ a.bucket \in QueueBucket
    BY <1>1 DEF Queued, QueuedRefusal, Require, ??
  <2>2. r = CreateTask(st, command, a.task, a.title, a.tag, a.bucket, now)
    BY <1>1 DEF QueuedEffect
  <2> DEFINE t == a.task
           title == a.title
           tag == a.tag
           bucket == a.bucket
  <2>3. CreateRefusal(st, t) = None /\ t \in TaskId /\ title \in Title
        /\ tag \in Tag \cup {None} /\ bucket \in QueueBucket
    BY <2>1
  <2>4. r = CreateTask(st, command, t, title, tag, bucket, now)
    BY <2>2
  <2> HIDE DEF t, title, tag, bucket, r
  <2>5. LET c == CreateTask(st, command, t, title, tag, bucket, now)
        IN Clean(c) /\ c.snapshot.generation = st.snapshot.generation
    BY <2>3, CreateFacts
  <2> QED BY <2>4, <2>5 DEF r
<1>2. CASE a.op = "Rename"
  <2>1. a.task \in Live(s) /\ a.title \in Title
    BY <1>2 DEF Queued, QueuedRefusal, Require, ??
  <2> DEFINE record == [s.task[a.task] EXCEPT !.title = a.title, !.versions.title = command]
  <2>2. record \in TaskRecord /\ record.bucket = s.task[a.task].bucket
    <3>1. s.task[a.task] \in TaskRecord
      BY <1>0, <2>1 DEF Partial, Live
    <3> HIDE DEF s, r
    <3> QED BY <2>1, <3>1 DEF TaskRecord
  <2>3. r = [st EXCEPT !.snapshot.task[a.task] = record]
    BY <1>2 DEF QueuedEffect
  <2> HIDE DEF record
  <2> QED BY <2>1, <2>2, <2>3, Rewritten
<1>3. CASE a.op = "SetTag"
  <2>1. a.task \in Live(s) /\ a.tag \in Tag \cup {None}
    BY <1>3 DEF Queued, QueuedRefusal, Require, ??
  <2> DEFINE record == [s.task[a.task] EXCEPT !.tag = a.tag, !.versions.tag = command]
  <2>2. record \in TaskRecord /\ record.bucket = s.task[a.task].bucket
    <3>1. s.task[a.task] \in TaskRecord
      BY <1>0, <2>1 DEF Partial, Live
    <3> HIDE DEF s, r
    <3> QED BY <2>1, <3>1 DEF TaskRecord
  <2>3. r = [st EXCEPT !.snapshot.task[a.task] = record]
    BY <1>3 DEF QueuedEffect
  <2> HIDE DEF record
  <2> QED BY <2>1, <2>2, <2>3, Rewritten
<1>4. CASE a.op = "MoveBefore"
  <2>1. /\ a.task \in Live(s) /\ a.bucket \in QueueBucket
        /\ s.task[a.task].bucket # "now"
        /\ a.before \in Anchor \cup {None}
        /\ AnchorRefusal(s, a.task, a.bucket, a.before) = None
    BY <1>4 DEF Queued, QueuedRefusal, Require, ??
  <2>2. AnchorTask(a.before) \in (Live(s) \ {a.task}) \cup {None}
    BY <2>1, AnchorFacts
  <2> DEFINE d == Place(s, a.task, a.bucket, AnchorTask(a.before), command)
  <2>3. /\ Listed(d) /\ SameAround(d, s) /\ Live(d) = Live(s)
        /\ NowTasks(d) = (NowTasks(s) \ {a.task})
                          \cup (IF a.bucket = "now" THEN {a.task} ELSE {})
    <3>1. a.bucket \in Bucket
      BY <2>1 DEF Bucket
    <3>2. ASSUME NEW before \in (Live(s) \ {a.task}) \cup {None}
          PROVE  LET e == Place(s, a.task, a.bucket, before, command)
                 IN /\ Listed(e) /\ SameAround(e, s) /\ Live(e) = Live(s)
                    /\ NowTasks(e) = (NowTasks(s) \ {a.task})
                                      \cup (IF a.bucket = "now" THEN {a.task} ELSE {})
      BY <1>0, <2>1, <3>1, PlaceFacts
    <3> QED BY <2>2, <3>2
  <2>4. NowTasks(d) = NowTasks(s)
    BY <2>1, <2>3, ProtocolConstants DEF NowTasks
  <2>5. r.snapshot = d /\ StateShape(r) /\ r.used = st.used /\ r.undo = st.undo
    BY <1>0, <1>4 DEF QueuedEffect, StateShape
  <2> HIDE DEF d, r
  <2>6. FocusIsNow(d)
    BY <1>0, <2>3, <2>4 DEF FocusIsNow, SessionTask, SameAround
  <2>7. Clean(r)
    BY <2>3, <2>5, <2>6, BaseWith DEF SameAround, Clean
  <2> QED BY <2>3, <2>5, <2>7 DEF r, SameAround
<1>5. CASE a.op = "Delete"
  <2>1. a.task \in Live(s) /\ s.task[a.task].bucket # "now"
    BY <1>5 DEF Queued, QueuedRefusal, Require, ??
  <2> DEFINE d == Drop(s, a.task)
  <2>2. /\ Listed(d) /\ SameAround(d, s) /\ Live(d) = Live(s) \ {a.task}
        /\ NowTasks(d) = NowTasks(s) \ {a.task}
    BY <1>0, <2>1, DropFacts
  <2>3. NowTasks(d) = NowTasks(s)
    BY <2>1, <2>2 DEF NowTasks
  <2>4. r.snapshot = d /\ StateShape(r) /\ r.used = st.used /\ r.undo = st.undo
    BY <1>0, <1>5 DEF QueuedEffect, StateShape
  <2> HIDE DEF d, r
  <2>5. FocusIsNow(d)
    BY <1>0, <2>2, <2>3 DEF FocusIsNow, SessionTask, SameAround
  <2>6. Clean(r)
    BY <2>2, <2>4, <2>5, BaseWith DEF SameAround, Clean
  <2> QED BY <2>2, <2>4, <2>6 DEF r, SameAround
<1>6. a.op \in {"Create", "Rename", "SetTag", "MoveBefore", "Delete"}
  BY DEF Queued
<1> QED BY <1>1, <1>2, <1>3, <1>4, <1>5, <1>6

(***************************************************************************)
(* Focus commands                                                          *)
(***************************************************************************)
\* A started state with the same undo record and another focus token.
LEMMA Reversioned ==
  ASSUME NEW st, Base(st), NEW command \in Token
  PROVE  LET r == [st EXCEPT !.snapshot.focus.version = command]
         IN /\ Base(r) /\ r.snapshot.generation = st.snapshot.generation
            /\ r.used = st.used /\ r.undo = st.undo
            /\ r.snapshot.undo = st.snapshot.undo
            /\ Live(r.snapshot) = Live(st.snapshot)
            /\ r.snapshot.focus.session = st.snapshot.focus.session
<1> DEFINE r == [st EXCEPT !.snapshot.focus.version = command]
           s == st.snapshot
<1>1. /\ s \in [generation : Generation, revision : Nat, history : {s.history},
               initialized : BOOLEAN, order : Seq(TaskId), task : {s.task},
               focus : [version : Token, session : Session \cup {None}],
               undo : Hint \cup {None}]
      /\ StateShape(st)
  BY DEF Base, Listed, IsBody
<1>2. /\ r.snapshot \in [generation : Generation, revision : Nat, history : {r.snapshot.history},
               initialized : BOOLEAN, order : Seq(TaskId), task : {r.snapshot.task},
               focus : [version : Token, session : Session \cup {None}],
               undo : Hint \cup {None}]
      /\ r.snapshot.order = s.order /\ r.snapshot.task = s.task
      /\ r.snapshot.focus.session = s.focus.session
      /\ r.snapshot.generation = s.generation /\ r.snapshot.undo = s.undo
      /\ r.snapshot.initialized = s.initialized
  BY <1>1 DEF StateShape
<1>3. StateShape(r) /\ r.used = st.used /\ r.undo = st.undo
  BY <1>1 DEF StateShape
<1> HIDE DEF r
<1>4. Listed(r.snapshot) /\ Live(r.snapshot) = Live(s)
  BY <1>2 DEF Base, Listed, IsBody, OrderedOnce, Live
<1>5. FocusIsNow(r.snapshot)
  BY <1>2 DEF Base, FocusIsNow, NowTasks, SessionTask, Live
<1>6. Base(r)
  BY <1>2, <1>3, <1>4, <1>5, BaseWith
<1> QED BY <1>2, <1>3, <1>4, <1>6 DEF r

\* A started state given another snapshot.
LEMMA Resnapped ==
  ASSUME NEW st, Base(st), NEW s, Listed(s), FocusIsNow(s),
         s.initialized = st.snapshot.initialized,
         Live(s) \subseteq Live(st.snapshot)
  PROVE  LET r == [st EXCEPT !.snapshot = s]
         IN /\ Base(r) /\ r.snapshot = s /\ r.used = st.used /\ r.undo = st.undo
<1> DEFINE r == [st EXCEPT !.snapshot = s]
<1>1. StateShape(r) /\ r.snapshot = s /\ r.used = st.used /\ r.undo = st.undo
  BY DEF Base, StateShape
<1> HIDE DEF r
<1>2. Base(r)
  BY <1>1, BaseWith
<1> QED BY <1>1, <1>2 DEF r

\* The commands on Now that keep no undo record.
LEMMA FocusMoveFacts ==
  ASSUME NEW st, Clean(st), NEW command \in Token, NEW now \in Nat,
         NEW a \in Focused, a.op \notin {"Complete", "Undo"},
         FocusRefusal(st, a, now) = None
  PROVE  LET r == FocusMove(st, command, a, now)
         IN Clean(r) /\ r.snapshot.generation = st.snapshot.generation
<1> DEFINE s == st.snapshot
           t == SessionTask(s)
           r == FocusMove(st, command, a, now)
<1> USE DistinctValues DEF Reason
<1>0. /\ StateShape(st) /\ Base(st) /\ Listed(s) /\ FocusIsNow(s)
      /\ "next" \in QueueBucket /\ QueueBucket \subseteq Bucket
  BY ProtocolConstants DEF Clean, Base, Bucket
<1>1. CASE a.op = "Promote"
  <2>1. a.task \in Live(s)
    BY <1>1 DEF Focused, FocusRefusal, Require, ??
  <2> DEFINE p == Promote(s, a.task, command, now)
  <2>2. Listed(p) /\ FocusIsNow(p) /\ SameButSession(p, s) /\ Live(p) = Live(s)
    BY <1>0, <2>1, PromoteFacts
  <2>3. r = [st EXCEPT !.snapshot = p]
    BY <1>1 DEF FocusMove
  <2> HIDE DEF p
  <2>4. LET q == [st EXCEPT !.snapshot = p]
        IN Base(q) /\ q.snapshot = p /\ q.used = st.used /\ q.undo = st.undo
    BY <1>0, <2>2, Resnapped DEF SameButSession
  <2> QED BY <2>2, <2>3, <2>4 DEF Clean, SameButSession
<1>2. CASE a.op = "CreateNow"
  <2>1. /\ CreateRefusal(st, a.task) = None /\ a.task \in TaskId
        /\ a.title \in Title /\ a.tag \in Tag \cup {None}
    BY <1>2 DEF Focused, FocusRefusal
  <2> DEFINE c == CreateTask(st, command, a.task, a.title, a.tag, "next", now)
             p == Promote(c.snapshot, a.task, command, now)
  <2>2. /\ Clean(c) /\ c.snapshot.generation = s.generation
        /\ a.task \in Live(c.snapshot)
    BY <1>0, <2>1, CreateFacts
  <2>3. r = [c EXCEPT !.snapshot = p]
    BY <1>2 DEF FocusMove
  <2> HIDE DEF c
  <2>4. /\ Listed(p) /\ FocusIsNow(p) /\ SameButSession(p, c.snapshot)
        /\ Live(p) = Live(c.snapshot)
    BY <2>2, PromoteFacts DEF Clean, Base
  <2> HIDE DEF p
  <2>5. LET q == [c EXCEPT !.snapshot = p]
        IN Base(q) /\ q.snapshot = p /\ q.used = c.used /\ q.undo = c.undo
    BY <2>2, <2>4, Resnapped DEF SameButSession, Clean
  <2> QED BY <2>2, <2>3, <2>4, <2>5 DEF Clean, SameButSession
<1>3. CASE a.op \in {"Remove", "MoveToQueue", "SetPaused"}
  <2>1. s.focus.session # None
    BY <1>3 DEF FocusRefusal, Require, ??
  <2>2. s.focus.session \in Session /\ t = s.focus.session.task /\ NowTasks(s) = {t}
    BY <1>0, <2>1 DEF Listed, IsBody, FocusIsNow, SessionTask
  <2>3. t \in Live(s)
    BY <2>2 DEF NowTasks
  <2> HIDE DEF t
  <2>4. ASSUME NEW d, Listed(d), SameAround(d, s), NowTasks(d) = {}, Live(d) \subseteq Live(s),
               r = [st EXCEPT !.snapshot = [d EXCEPT !.focus.session = None]]
        PROVE  Clean(r) /\ r.snapshot.generation = s.generation
    <3> DEFINE e == [d EXCEPT !.focus.session = None]
    <3>1. /\ Listed(e) /\ FocusIsNow(e) /\ SameButSession(e, d) /\ Live(e) = Live(d)
      BY <2>4, Refocused
    <3> HIDE DEF e
    <3>2. LET q == [st EXCEPT !.snapshot = e]
          IN Base(q) /\ q.snapshot = e /\ q.used = st.used /\ q.undo = st.undo
      BY <1>0, <2>4, <3>1, Resnapped DEF SameButSession, SameAround
    <3>3. r = [st EXCEPT !.snapshot = e]
      BY <2>4 DEF e
    <3> QED BY <2>4, <3>1, <3>2, <3>3 DEF Clean, SameButSession, SameAround
  <2>5. CASE a.op = "Remove"
    <3> DEFINE d == Drop(s, t)
    <3>1. /\ Listed(d) /\ SameAround(d, s) /\ Live(d) = Live(s) \ {t}
          /\ NowTasks(d) = NowTasks(s) \ {t}
      BY <1>0, <2>3, DropFacts
    <3>2. r = [st EXCEPT !.snapshot = [d EXCEPT !.focus.session = None]]
      BY <2>5 DEF FocusMove, t
    <3> HIDE DEF d, r
    <3> QED BY <2>2, <2>4, <3>1, <3>2 DEF r
  <2>6. CASE a.op = "MoveToQueue"
    <3>1. /\ a.bucket \in QueueBucket /\ a.bucket # "now" /\ a.bucket \in Bucket
          /\ a.before \in Anchor \cup {None}
          /\ AnchorRefusal(s, t, a.bucket, a.before) = None
      BY <1>0, <2>1, <2>6, ProtocolConstants DEF Focused, FocusRefusal, Require, ??, t
    <3>2. AnchorTask(a.before) \in (Live(s) \ {t}) \cup {None}
      BY <3>1, AnchorFacts
    <3> DEFINE d == Place(s, t, a.bucket, AnchorTask(a.before), command)
    <3>3. ASSUME NEW before \in (Live(s) \ {t}) \cup {None}
          PROVE  LET e == Place(s, t, a.bucket, before, command)
                 IN /\ Listed(e) /\ SameAround(e, s) /\ Live(e) = Live(s)
                    /\ NowTasks(e) = (NowTasks(s) \ {t})
                                      \cup (IF a.bucket = "now" THEN {t} ELSE {})
      BY <1>0, <2>3, <3>1, PlaceFacts
    <3>4. /\ Listed(d) /\ SameAround(d, s) /\ Live(d) = Live(s) /\ NowTasks(d) = {}
      BY <2>2, <3>1, <3>2, <3>3
    <3>5. r = [st EXCEPT !.snapshot = [d EXCEPT !.focus.session = None]]
      BY <2>6 DEF FocusMove, t
    <3> HIDE DEF d, r
    <3> QED BY <2>4, <3>4, <3>5 DEF r
  <2>7. CASE a.op = "SetPaused"
    <3> DEFINE session == Repaused(s.focus.session, a.paused, now)
               e == [s EXCEPT !.focus.session = session]
    <3>1. session \in Session /\ session # None /\ session.task = t
      <4>1. a.paused \in BOOLEAN
        BY <2>7 DEF Focused
      <4>2. ElapsedAt(s.focus.session, now) \in Nat
        BY <2>2 DEF ElapsedAt, Session
      <4>3. session \in Session
        BY <2>2, <4>1, <4>2 DEF Repaused, Session
      <4>4. session.task = t
        BY <2>2 DEF Repaused, Session
      <4> QED BY <4>3, <4>4
    <3> HIDE DEF session
    <3>2. /\ Listed(e) /\ FocusIsNow(e) /\ SameButSession(e, s) /\ Live(e) = Live(s)
      BY <1>0, <2>2, <3>1, Refocused
    <3>3. r = [st EXCEPT !.snapshot = e]
      BY <1>0, <2>7 DEF FocusMove, session, StateShape
    <3> HIDE DEF e
    <3>4. LET q == [st EXCEPT !.snapshot = e]
          IN Base(q) /\ q.snapshot = e /\ q.used = st.used /\ q.undo = st.undo
      BY <1>0, <3>2, Resnapped DEF SameButSession
    <3> QED BY <3>2, <3>3, <3>4 DEF Clean, SameButSession
  <2> QED BY <1>3, <2>5, <2>6, <2>7
<1>4. a.op \in {"Promote", "CreateNow", "Remove", "MoveToQueue", "SetPaused"}
  BY DEF Focused
<1> QED BY <1>1, <1>2, <1>3, <1>4

\* Completing keeps what was there before, and the hint names the task it drops.
Completed(r, s, command) ==
  /\ r.undo \in [completion : {command}, until : Nat, before : {s}]
  /\ r.snapshot.undo \in [command : {command}, task : {SessionTask(s)}, until : {r.undo.until}]
  /\ SessionTask(s) \in Live(s)
  /\ Live(r.snapshot) = Live(s) \ {SessionTask(s)}

LEMMA CompleteFacts ==
  ASSUME NEW st, Clean(st), st.snapshot.focus.session # None,
         NEW command \in Token, NEW now \in Nat
  PROVE  LET r == Complete(st, command, now)
         IN /\ Base(r) /\ r.snapshot.generation = st.snapshot.generation
            /\ r.used = st.used /\ Completed(r, st.snapshot, command)
<1> DEFINE s == st.snapshot
           t == SessionTask(s)
           d == Drop(s, t)
           dropped == [d EXCEPT !.focus.session = None]
           next == Head1(dropped, "next", None)
           snap == IF next = None THEN dropped ELSE Promote(dropped, next, command, now)
           until == now + UndoFor
           hint == [command |-> command, task |-> t, until |-> until]
           e == [snap EXCEPT !.undo = hint]
           r == Complete(st, command, now)
<1>1. /\ StateShape(st) /\ Base(st) /\ Listed(s) /\ FocusIsNow(s) /\ Live(s) \subseteq st.used
      /\ s.initialized /\ until \in Nat
  BY ProtocolConstants DEF Clean, Base
<1>2. t = s.focus.session.task /\ NowTasks(s) = {t} /\ t \in Live(s) /\ t \in TaskId
  BY <1>1 DEF Listed, IsBody, FocusIsNow, SessionTask, NowTasks, Partial, Live
<1>3. r = [st EXCEPT !.undo = [completion |-> command, until |-> until, before |-> s],
                     !.snapshot = e]
  BY DEF Complete
<1> HIDE DEF t
<1>4. /\ Listed(d) /\ SameAround(d, s) /\ Live(d) = Live(s) \ {t}
      /\ NowTasks(d) = NowTasks(s) \ {t}
  BY <1>1, <1>2, DropFacts
<1> HIDE DEF d
<1>5. NowTasks(d) = {}
  BY <1>2, <1>4
<1>6. /\ Listed(dropped) /\ FocusIsNow(dropped) /\ SameButSession(dropped, d)
      /\ Live(dropped) = Live(d)
  BY <1>4, <1>5, Refocused
<1> HIDE DEF dropped
<1>7. /\ Listed(snap) /\ FocusIsNow(snap) /\ SameButSession(snap, dropped)
      /\ Live(snap) = Live(dropped)
  <2>1. CASE next = None
    BY <1>6, <2>1 DEF SameButSession
  <2>2. CASE next # None
    <3>1. next \in Live(dropped)
      BY <1>6, <2>2, Head1Facts
    <3> HIDE DEF next
    <3> DEFINE p == Promote(dropped, next, command, now)
    <3>2. Listed(p) /\ FocusIsNow(p) /\ SameButSession(p, dropped) /\ Live(p) = Live(dropped)
      BY <1>6, <3>1, PromoteFacts
    <3> QED BY <2>2, <3>2
  <2> QED BY <2>1, <2>2
<1> HIDE DEF snap
<1>8. hint \in Hint /\ command \in Token
  BY <1>1, <1>2 DEF Hint
<1> HIDE DEF hint, until
<1>9. /\ e \in [generation : Generation, revision : Nat, history : {e.history},
               initialized : BOOLEAN, order : Seq(TaskId), task : {e.task},
               focus : [version : Token, session : Session \cup {None}],
               undo : Hint \cup {None}]
      /\ e.order = snap.order /\ e.task = snap.task /\ e.focus = snap.focus
      /\ e.generation = snap.generation /\ e.initialized = snap.initialized
      /\ e.undo = hint
  BY <1>7, <1>8 DEF Listed, IsBody
<1> HIDE DEF e
<1>10. Listed(e) /\ FocusIsNow(e) /\ Live(e) = Live(snap)
  BY <1>7, <1>9 DEF Listed, IsBody, OrderedOnce, FocusIsNow, NowTasks, SessionTask, Live
<1>11. /\ StateShape(r) /\ r.used = st.used /\ r.snapshot = e
       /\ r.undo = [completion |-> command, until |-> until, before |-> s]
  BY <1>1, <1>3 DEF StateShape
<1> HIDE DEF r
<1>12. e.generation = s.generation /\ e.initialized = s.initialized
  BY <1>4, <1>6, <1>7, <1>9 DEF SameButSession, SameAround
<1>13. Live(e) = Live(s) \ {t}
  BY <1>4, <1>6, <1>7, <1>10
<1>14. Base(r)
  BY <1>1, <1>10, <1>11, <1>12, <1>13, BaseWith
<1>15. Completed(r, s, command)
  <2>1. r.undo \in [completion : {command}, until : Nat, before : {s}] /\ r.undo.until = until
    BY <1>1, <1>11
  <2>2. r.snapshot.undo \in [command : {command}, task : {t}, until : {until}]
    BY <1>9, <1>11 DEF hint
  <2> QED BY <1>2, <1>11, <1>13, <2>1, <2>2 DEF Completed, t
<1> QED BY <1>11, <1>12, <1>14, <1>15 DEF r

\* The state an undo gives.
Undone(st, before, command) ==
  [st EXCEPT !.snapshot = Restored(@, before, command), !.undo = NoUndo]

\* What an undo brings back is what was there, under tokens of its own.
LEMMA RestoredFacts ==
  ASSUME NEW st, Base(st), NEW before, Listed(before), FocusIsNow(before),
         before.initialized, before.generation = st.snapshot.generation,
         Live(before) \subseteq st.used, Cardinality(Live(before)) <= MaxTasks,
         NEW command \in Token
  PROVE  /\ Clean(Undone(st, before, command))
         /\ Undone(st, before, command).snapshot.generation = st.snapshot.generation
<1> USE DEF Undone
<1> DEFINE s == st.snapshot
           Fresh(t) == IF t \notin Live(s) THEN Versions(command)
                       ELSE IF s.task[t].bucket # before.task[t].bucket
                       THEN [s.task[t].versions EXCEPT !.placement = command]
                       ELSE s.task[t].versions
           task == [t \in DOMAIN before.task |-> [before.task[t] EXCEPT !.versions = Fresh(t)]]
           old == before.focus.session
           session == IF old = None THEN None ELSE [old EXCEPT !.id = command]
           e == Restored(s, before, command)
           r == [st EXCEPT !.snapshot = Restored(@, before, command), !.undo = NoUndo]
           V == [title : Token, tag : Token, placement : Token]
<1>1. /\ StateShape(st) /\ Partial(s.task, TaskId, TaskRecord)
      /\ Partial(before.task, TaskId, TaskRecord) /\ old \in Session \cup {None}
  BY DEF Base, Listed, IsBody
<1>2. \A t \in Live(s) : s.task[t].versions \in V
  BY <1>1 DEF Partial, Live, TaskRecord
<1>3. \A t \in Live(before) : Fresh(t) \in V
  BY <1>2 DEF Versions
<1>4. /\ Partial(task, TaskId, TaskRecord) /\ DOMAIN task = Live(before)
      /\ \A t \in Live(before) : task[t].bucket = before.task[t].bucket
  <2> HIDE DEF Fresh
  <2> QED BY <1>1, <1>3 DEF Partial, Live, TaskRecord
<1>5. /\ session \in Session \cup {None}
      /\ (session = None) <=> (old = None)
      /\ session # None => session.task = old.task
  BY <1>1, DistinctValues DEF Session
<1>6. /\ Shape(e) /\ e.order = before.order /\ e.task = task /\ e.undo = None
      /\ e.generation = before.generation /\ e.revision = before.revision
      /\ e.initialized = before.initialized
      /\ e.focus \in [version : {before.focus.version}, session : {session}]
  <2>1. Shape(before) /\ before.focus \in [version : {before.focus.version}, session : {old}]
    BY DEF Listed, IsBody, Shape
  <2>2. Shape(e)
    BY <2>1 DEF Restored, Shape
  <2>3. e.order = before.order /\ e.undo = None /\ e.generation = before.generation
    BY <2>1 DEF Restored, Shape
  <2>4. e.task = task
    BY <2>1 DEF Restored, Shape
  <2>5. e.initialized = before.initialized /\ e.revision = before.revision
    BY <2>1 DEF Restored, Shape
  <2>6. e.focus \in [version : {before.focus.version}, session : {session}]
    BY <2>1 DEF Restored, Shape
  <2> QED BY <2>2, <2>3, <2>4, <2>5, <2>6
<1>7. StateShape(r) /\ r.used = st.used /\ r.snapshot = e /\ r.undo = NoUndo
  BY <1>1 DEF StateShape
<1> HIDE DEF r, e, task, session
<1>8. Listed(e) /\ Live(e) = Live(before)
  <2>1. e \in [generation : Generation, revision : Nat, history : {e.history},
               initialized : BOOLEAN, order : Seq(TaskId), task : {e.task},
               focus : [version : Token, session : Session \cup {None}],
               undo : Hint \cup {None}]
    BY <1>5, <1>6 DEF Listed, IsBody, Shape
  <2>2. Live(e) = Live(before)
    BY <1>4, <1>6 DEF Live
  <2>3. OrderedOnce(e)
    BY <1>6, <2>2 DEF Listed, OrderedOnce
  <2> QED BY <1>4, <1>6, <2>1, <2>2, <2>3 DEF Listed, IsBody
<1>9. FocusIsNow(e)
  <2>1. NowTasks(e) = NowTasks(before)
    BY <1>4, <1>6, <1>8 DEF NowTasks
  <2>2. SessionTask(e) = SessionTask(before)
    BY <1>5, <1>6 DEF SessionTask
  <2> QED BY <1>5, <1>6, <2>1, <2>2 DEF FocusIsNow
<1>10. Clean(r)
  BY <1>6, <1>7, <1>8, <1>9 DEF Clean, Base
<1> QED BY <1>6, <1>7, <1>10 DEF r

(***************************************************************************)
(* Initialization                                                          *)
(***************************************************************************)
LEMMA InitializeFacts ==
  ASSUME NEW st, StateShape(st), Listed(st.snapshot),
         NEW a \in Seeding, InitializeRefusal(st, a) = None,
         NEW command \in Token, NEW now \in Nat
  PROVE  LET r == Initialize(st, command, a, now)
         IN /\ Base(r) /\ r.snapshot.generation = st.snapshot.generation
            /\ r.undo = st.undo /\ r.snapshot.undo = st.snapshot.undo
<1> DEFINE s == st.snapshot
           n == Len(a.seeds)
           ids == [i \in DOMAIN a.seeds |-> a.seeds[i].id]
           SeedOf(t) == a.seeds[CHOOSE i \in DOMAIN ids : ids[i] = t]
           taken == {ids[i] : i \in DOMAIN ids}
           task == [t \in taken |->
             [title |-> SeedOf(t).title, tag |-> SeedOf(t).tag,
              bucket |-> SeedOf(t).bucket, created |-> SeedOf(t).created,
              versions |-> Versions(command)]]
           places == SeedsIn(a.seeds, "now")
           session == IF a.timer = None THEN None
                      ELSE [id |-> command, task |-> ids[Least(places)],
                            elapsed |-> a.timer.elapsed,
                            running |-> a.timer.running, anchor |-> now]
           r == Initialize(st, command, a, now)
<1>1. /\ n \in Nat /\ DOMAIN a.seeds = 1..n /\ \A i \in 1..n : a.seeds[i] \in SeedRecord
      /\ a.timer \in TimerRecord \cup {None} /\ a.seeds \in Seq(SeedRecord)
  <2>1. a.seeds \in Seq(SeedRecord) /\ a.timer \in TimerRecord \cup {None}
    BY DEF Seeding
  <2> QED BY <2>1, LenProperties, ElementOfSeq
<1>2. /\ n <= MaxTasks
      /\ \A i, j \in DOMAIN a.seeds : a.seeds[i].id = a.seeds[j].id => i = j
      /\ Cardinality(places) = IF a.timer = None THEN 0 ELSE 1
  BY DistinctValues DEF InitializeRefusal, Require, ??, Reason
<1>3. /\ ids \in Seq(TaskId) /\ DOMAIN ids = 1..n /\ Injective(ids) /\ Elements(ids) = taken
  <2>1. ids \in [1..n -> TaskId]
    BY <1>1 DEF SeedRecord
  <2> QED BY <1>1, <1>2, <2>1 DEF Injective, Elements
<1>4. \A i \in 1..n : SeedOf(ids[i]) = a.seeds[i]
  BY <1>1, <1>2
<1>5. \A t \in taken : SeedOf(t) \in SeedRecord /\ t \in TaskId
  <2>1. taken = {ids[i] : i \in 1..n} /\ \A i \in 1..n : ids[i] \in TaskId
    BY <1>1, <1>3 DEF SeedRecord
  <2> HIDE DEF SeedOf, ids
  <2> QED BY <1>1, <1>4, <2>1
<1>6. Partial(task, TaskId, TaskRecord) /\ DOMAIN task = taken
  <2> HIDE DEF SeedOf, taken
  <2>1. \A t \in taken : task[t] \in TaskRecord
    BY <1>5 DEF SeedRecord, TaskRecord, Versions
  <2> QED BY <1>5, <2>1 DEF Partial
<1>7. \A t \in taken : (task[t].bucket = "now") <=> \E i \in places : t = ids[i]
  <2>1. taken = {ids[i] : i \in 1..n}
    BY <1>1
  <2>2. \A i, j \in 1..n : ids[i] = ids[j] => i = j
    BY <1>1, <1>2
  <2>3. places = {i \in 1..n : a.seeds[i].bucket = "now"}
    BY <1>1 DEF SeedsIn
  <2>4. \A t \in taken : task[t].bucket = SeedOf(t).bucket
    <3> HIDE DEF SeedOf, taken
    <3> QED OBVIOUS
  <2> HIDE DEF SeedOf, ids, places, task, taken
  <2> QED BY <1>4, <2>1, <2>2, <2>3, <2>4
<1>8. places \in SUBSET (1..n) /\ IsFiniteSet(places)
  <2>1. places \in SUBSET (1..n)
    BY <1>1 DEF SeedsIn
  <2>2. IsFiniteSet(1..n)
    BY <1>1, FS_Interval
  <2> QED BY <2>1, <2>2, FS_Subset
<1>9. /\ session \in Session \cup {None}
      /\ {ids[i] : i \in places} = IF session = None THEN {} ELSE {session.task}
  <2> HIDE DEF places, ids
  <2>1. CASE a.timer = None
    BY <1>2, <1>8, <2>1, FS_EmptySet
  <2>2. CASE a.timer # None
    <3>1. PICK x : places = {x}
      BY <1>2, <1>8, <2>2, FS_Singleton
    <3>2. Least(places) \in places
      BY <1>1, <1>8, <3>1, LeastExists
    <3>3. Least(places) = x /\ x \in 1..n
      BY <1>8, <3>1, <3>2
    <3>4. ids[x] \in TaskId
      BY <1>3, <3>3, ElementOfSeq, LenProperties
    <3>5. session \in Session
      BY <1>1, <2>2, <3>3, <3>4 DEF Session, TimerRecord
    <3>6. session.task = ids[x] /\ session # None
      BY <2>2, <3>3, <3>5, DistinctValues
    <3> QED BY <3>1, <3>5, <3>6
  <2> QED BY <2>1, <2>2
<1>10. /\ r.snapshot.order = ids /\ r.snapshot.task = task /\ r.snapshot.initialized
       /\ r.snapshot.initialized = TRUE
       /\ r.snapshot.focus \in [version : {command}, session : {session}]
       /\ r.snapshot.generation = s.generation /\ r.snapshot.revision = s.revision
       /\ r.snapshot.undo = s.undo /\ Shape(r.snapshot)
       /\ StateShape(r) /\ r.used = st.used \cup taken /\ r.undo = st.undo
  <2> DEFINE focus == [version |-> command, session |-> session]
  <2>0. r = [st EXCEPT !.used = @ \cup taken, !.snapshot.initialized = TRUE,
                       !.snapshot.order = ids, !.snapshot.task = task,
                       !.snapshot.focus = focus]
    BY DEF Initialize
  <2> HIDE DEF r, session, task, ids
  <2>1. StateShape(st) /\ Shape(s) /\ taken \subseteq TaskId
    BY <1>5 DEF Listed, IsBody, Shape
  <2> HIDE DEF taken
  <2>2. r.snapshot.order = ids /\ r.snapshot.initialized = TRUE
    BY <2>0, <2>1 DEF StateShape, Shape
  <2>3. r.snapshot.task = task
    BY <2>0, <2>1 DEF StateShape, Shape
  <2>4. r.snapshot.focus \in [version : {command}, session : {session}]
    BY <2>0, <2>1 DEF StateShape, Shape
  <2>5. /\ r.snapshot.generation = s.generation /\ r.snapshot.undo = s.undo
        /\ r.snapshot.revision = s.revision
    BY <2>0, <2>1 DEF StateShape, Shape
  <2>6. Shape(r.snapshot)
    BY <2>0, <2>1 DEF StateShape, Shape
  <2>7. StateShape(r)
    BY <2>0, <2>1 DEF StateShape
  <2>8. r.used = st.used \cup taken /\ r.undo = st.undo
    BY <2>0, <2>1 DEF StateShape
  <2> QED BY <2>2, <2>3, <2>4, <2>5, <2>6, <2>7, <2>8
<1> HIDE DEF r, task, session
<1>11. Listed(r.snapshot) /\ Live(r.snapshot) = taken
  <2>1. Live(r.snapshot) = taken
    BY <1>6, <1>10 DEF Live
  <2>2. r.snapshot \in [generation : Generation, revision : Nat, history : {r.snapshot.history},
               initialized : BOOLEAN, order : Seq(TaskId), task : {r.snapshot.task},
               focus : [version : Token, session : Session \cup {None}],
               undo : Hint \cup {None}]
    <3> HIDE DEF ids
    <3> QED BY <1>3, <1>9, <1>10 DEF Listed, IsBody, Shape
  <2>3. OrderedOnce(r.snapshot)
    BY <1>3, <1>10, <2>1, OrderedOnceIsElements
  <2> HIDE DEF ids, taken
  <2> QED BY <1>6, <1>10, <2>1, <2>2, <2>3 DEF Listed, IsBody
<1>12. FocusIsNow(r.snapshot)
  <2>1. NowTasks(r.snapshot) = {ids[i] : i \in places}
    <3>1. \A i \in places : ids[i] \in taken
      BY <1>1, <1>8
    <3>2. NowTasks(r.snapshot) = {t \in taken : task[t].bucket = "now"}
      BY <1>10, <1>11 DEF NowTasks
    <3> HIDE DEF ids, places, taken
    <3> QED BY <1>7, <3>1, <3>2
  <2> QED BY <1>9, <1>10, <2>1 DEF FocusIsNow, SessionTask
<1>13. Cardinality(Live(r.snapshot)) <= MaxTasks
  <2>1. Cardinality(taken) <= n
    <3> HIDE DEF ids, taken
    <3> QED BY <1>1, <1>3, ElementsFinite, LenProperties
  <2>2. Cardinality(taken) \in Nat
    BY <1>11, LiveFinite
  <2> QED BY <1>1, <1>2, <1>11, <2>1, <2>2, ProtocolConstants
<1> QED BY <1>10, <1>11, <1>12, <1>13 DEF Base, r

(***************************************************************************)
(* Every accepted command                                                  *)
(***************************************************************************)
\* What every stored state satisfies: the code's own validation, and that an
\* undo could bring its tasks back as tasks the dataset knows.
Sound(st) ==
  /\ IsState(st)
  /\ StateValid(st)
  /\ st.undo # NoUndo => st.undo.before.initialized /\ Live(st.undo.before) \subseteq st.used

LEMMA CommandKinds ==
  ASSUME NEW c \in Command
  PROVE  /\ c.id \in CommandId /\ c.id \in Token /\ c.generation \in Generation
         /\ \/ /\ c.action \in Queued /\ ~IsFocus(c) /\ ~IsUndo(c)
               /\ c.action.op # "Initialize"
            \/ c.action \in Seeding /\ c.action.op = "Initialize" /\ ~IsUndo(c)
            \/ c.action \in Focused /\ IsFocus(c) /\ c.action.op # "Initialize"
<1>1. /\ c.id \in CommandId /\ c.generation \in Generation
      /\ \/ c.action \in Queued /\ c.guard = None
         \/ c.action \in Seeding /\ c.guard = None
         \/ c.action \in Focused /\ c.guard \in Guard
  BY DEF Command
<1>2. c.action \in Queued => c.action.op \notin {"Initialize", "Undo"}
  BY DEF Queued
<1>3. c.action \in Seeding => c.action.op = "Initialize"
  BY DEF Seeding
<1>4. c.action \in Focused => c.action.op # "Initialize"
  BY DEF Focused
<1> QED BY <1>1, <1>2, <1>3, <1>4, DistinctValues DEF IsFocus, IsUndo, Token

\* What a sound state is under the names of this module.
LEMMA SoundFacts ==
  ASSUME NEW st, Sound(st)
  PROVE  /\ StateShape(st) /\ Listed(st.snapshot) /\ FocusIsNow(st.snapshot)
         /\ Live(st.snapshot) \subseteq st.used
         /\ Cardinality(Live(st.snapshot)) <= MaxTasks
         /\ IsChain(st.snapshot.history)
         /\ st.snapshot.initialized => Base(st)
BY DEF Sound, IsState, IsSnapshot, StateValid, SnapshotValid, StateShape, Listed, Base

\* Every command but Undo first clears what the last completion left.
LEMMA Cleared ==
  ASSUME NEW st, Sound(st)
  PROVE  LET r == [st EXCEPT !.undo = NoUndo, !.snapshot.undo = None]
         IN /\ StateShape(r) /\ Listed(r.snapshot) /\ SnapshotValid(r.snapshot)
            /\ Live(r.snapshot) = Live(st.snapshot)
            /\ r.used = st.used /\ r.undo = NoUndo /\ r.snapshot.undo = None
            /\ r.snapshot.generation = st.snapshot.generation
            /\ r.snapshot.revision = st.snapshot.revision
            /\ r.snapshot.history = st.snapshot.history
            /\ r.snapshot.initialized = st.snapshot.initialized
            /\ r.snapshot.focus = st.snapshot.focus
            /\ st.snapshot.initialized => Clean(r)
<1> DEFINE s == st.snapshot
           r == [st EXCEPT !.undo = NoUndo, !.snapshot.undo = None]
           e == r.snapshot
<1>1. /\ StateShape(st) /\ Listed(s)
      /\ s \in [generation : Generation, revision : Nat, history : {s.history},
               initialized : BOOLEAN, order : Seq(TaskId), task : {s.task},
               focus : [version : Token, session : Session \cup {None}],
               undo : Hint \cup {None}]
  BY SoundFacts DEF Listed, IsBody
<1>2. /\ e \in [generation : Generation, revision : Nat, history : {e.history},
               initialized : BOOLEAN, order : Seq(TaskId), task : {e.task},
               focus : [version : Token, session : Session \cup {None}],
               undo : Hint \cup {None}]
      /\ e.order = s.order /\ e.task = s.task /\ e.focus = s.focus
      /\ e.generation = s.generation /\ e.revision = s.revision
      /\ e.history = s.history /\ e.initialized = s.initialized /\ e.undo = None
  BY <1>1 DEF StateShape
<1>3. StateShape(r) /\ r.used = st.used /\ r.undo = NoUndo
  BY <1>1 DEF StateShape
<1> HIDE DEF r
<1>4. Listed(e) /\ Live(e) = Live(s) /\ NowTasks(e) = NowTasks(s)
  BY <1>1, <1>2 DEF Listed, IsBody, OrderedOnce, Live, NowTasks
<1>5. SnapshotValid(e)
  BY <1>2, <1>4 DEF SnapshotValid, Sound, StateValid, Listed, FocusIsNow, SessionTask, StartedOnce
<1>6. s.initialized => Clean(r)
  BY <1>2, <1>3, <1>4, <1>5, SoundFacts DEF Clean, Base, SnapshotValid
<1> QED BY <1>2, <1>3, <1>4, <1>5, <1>6 DEF r

\* A command other than Undo is refused for what the tasks and the timer are.
LEMMA SameRefusals ==
  ASSUME NEW st, NEW r, r.snapshot.task = st.snapshot.task, r.used = st.used,
         r.snapshot.focus = st.snapshot.focus, NEW a, NEW now
  PROVE  /\ QueuedRefusal(r, a) = QueuedRefusal(st, a)
         /\ a.op # "Undo" => FocusRefusal(r, a, now) = FocusRefusal(st, a, now)
<1>1. Live(r.snapshot) = Live(st.snapshot)
  BY DEF Live
<1>2. ASSUME NEW t, NEW b, NEW x
      PROVE  AnchorRefusal(r.snapshot, t, b, x) = AnchorRefusal(st.snapshot, t, b, x)
  BY <1>1 DEF AnchorRefusal
<1>3. AnchorRefusal(r.snapshot, a.task, a.bucket, a.before)
        = AnchorRefusal(st.snapshot, a.task, a.bucket, a.before)
  BY <1>2
<1>4. CreateRefusal(r, a.task) = CreateRefusal(st, a.task)
  BY <1>1 DEF CreateRefusal
<1>5. QueuedRefusal(r, a) = QueuedRefusal(st, a)
  BY <1>1, <1>3, <1>4 DEF QueuedRefusal
<1>6. SessionTask(r.snapshot) = SessionTask(st.snapshot)
  BY DEF SessionTask
<1>7. AnchorRefusal(r.snapshot, SessionTask(r.snapshot), a.bucket, a.before)
        = AnchorRefusal(st.snapshot, SessionTask(st.snapshot), a.bucket, a.before)
  BY <1>2, <1>6
<1>8. a.op # "Undo" => FocusRefusal(r, a, now) = FocusRefusal(st, a, now)
  BY <1>1, <1>4, <1>7 DEF FocusRefusal
<1> QED BY <1>5, <1>8

\* The snapshot a completion keeps.
Kept(before, st) ==
  /\ Listed(before) /\ SnapshotValid(before) /\ before.initialized
  /\ Live(before) \subseteq st.used
  /\ before.generation = st.snapshot.generation /\ before.revision = st.snapshot.revision
  /\ before.history = st.snapshot.history

LEMMA ReduceFacts ==
  ASSUME NEW st, Sound(st), NEW c \in Command, NEW now \in Nat,
         Refusal(st, c, now) = None
  PROVE  LET r == Reduce(st, c, now)
         IN /\ Base(r) /\ r.snapshot.generation = st.snapshot.generation
            /\ \/ Clean(r)
               \/ \E before : Kept(before, st) /\ r.used = st.used /\ Completed(r, before, c.id)
<1> DEFINE r == Reduce(st, c, now)
           a == c.action
           clear == [st EXCEPT !.undo = NoUndo, !.snapshot.undo = None]
           s == st.snapshot
<1>1. c.id \in Token
  BY CommandKinds
<1>2. /\ StateShape(clear) /\ Listed(clear.snapshot) /\ SnapshotValid(clear.snapshot)
      /\ Live(clear.snapshot) = Live(s)
      /\ clear.used = st.used /\ clear.undo = NoUndo /\ clear.snapshot.undo = None
      /\ clear.snapshot.generation = s.generation
      /\ clear.snapshot.revision = s.revision
      /\ clear.snapshot.history = s.history
      /\ clear.snapshot.initialized = s.initialized
      /\ clear.snapshot.focus = s.focus
      /\ s.initialized => Clean(clear)
  BY Cleared
<1> USE DistinctValues DEF Reason
<1>3. CASE a \in Queued /\ ~IsFocus(c) /\ ~IsUndo(c) /\ a.op # "Initialize"
  <2>1. s.initialized /\ QueuedRefusal(st, a) = None
    BY <1>3 DEF Refusal, Require, ??
  <2>2. r = QueuedEffect(clear, c.id, a, now)
    BY <1>3 DEF Reduce
  <2>3. QueuedRefusal(clear, a) = None
    <3>1. clear.snapshot.task = s.task
      BY SoundFacts DEF StateShape, Listed, IsBody
    <3> HIDE DEF clear
    <3> QED BY <1>2, <2>1, <3>1, SameRefusals
  <2> HIDE DEF clear, r
  <2>4. /\ Clean(QueuedEffect(clear, c.id, a, now))
        /\ QueuedEffect(clear, c.id, a, now).snapshot.generation = clear.snapshot.generation
    BY <1>1, <1>2, <1>3, <2>1, <2>3, QueuedFacts
  <2> QED BY <1>2, <2>2, <2>4 DEF r, Clean
<1>4. CASE a \in Seeding /\ a.op = "Initialize" /\ ~IsUndo(c)
  <2>1. InitializeRefusal(st, a) = None
    BY <1>4 DEF Refusal, Require, ??
  <2>2. r = Initialize(clear, c.id, a, now)
    BY <1>4 DEF Reduce
  <2> HIDE DEF clear, r
  <2>3. InitializeRefusal(clear, a) = None
    BY <1>2, <2>1 DEF InitializeRefusal
  <2> DEFINE i == Initialize(clear, c.id, a, now)
  <2>4. /\ Base(i) /\ i.snapshot.generation = clear.snapshot.generation
        /\ i.undo = clear.undo /\ i.snapshot.undo = clear.snapshot.undo
    BY <1>1, <1>2, <1>4, <2>3, InitializeFacts
  <2> HIDE DEF i
  <2> QED BY <1>2, <2>2, <2>4 DEF r, i, Clean
<1>5. CASE a \in Focused /\ IsFocus(c) /\ a.op # "Initialize"
  <2>1. /\ s.initialized /\ FocusRefusal(st, a, now) = None
        /\ Clean(clear) /\ Base(st)
    BY <1>2, <1>5, SoundFacts DEF Refusal, Require, ??
  <2> DEFINE from == IF IsUndo(c) THEN st ELSE clear
             m == FocusMove(from, c.id, a, now)
  <2>2. r = [m EXCEPT !.snapshot.focus.version = c.id]
    BY <1>5 DEF Reduce, FocusEffect
  <2>3. clear.snapshot.task = s.task
    BY SoundFacts DEF StateShape, Listed, IsBody
  <2> HIDE DEF r, clear
  <2>4. /\ Base(m) /\ m.snapshot.generation = s.generation
        /\ \/ Clean(m)
           \/ \E before : Kept(before, st) /\ m.used = st.used /\ Completed(m, before, c.id)
    <3>1. CASE a.op \notin {"Complete", "Undo"}
      <4>1. from = clear
        BY <3>1 DEF IsUndo
      <4>3. FocusRefusal(clear, a, now) = None
        BY <1>2, <2>1, <2>3, <3>1, SameRefusals
      <4> DEFINE q == FocusMove(clear, c.id, a, now)
      <4>4. Clean(q) /\ q.snapshot.generation = clear.snapshot.generation
        BY <1>1, <1>5, <2>1, <3>1, <4>3, FocusMoveFacts
      <4> HIDE DEF q, from
      <4> QED BY <1>2, <4>1, <4>4 DEF Clean, q
    <3>2. CASE a.op = "Complete"
      <4>1. from = clear
        BY <3>2 DEF IsUndo
      <4>2. clear.snapshot.focus.session # None
        BY <1>2, <2>1, <3>2 DEF FocusRefusal, Require, ??
      <4> DEFINE q == Complete(clear, c.id, now)
      <4>3. /\ Base(q) /\ q.snapshot.generation = clear.snapshot.generation
            /\ q.used = clear.used /\ Completed(q, clear.snapshot, c.id)
        BY <1>1, <2>1, <4>2, CompleteFacts
      <4>4. m = q
        BY <3>2, <4>1 DEF FocusMove
      <4>5. Kept(clear.snapshot, st)
        BY <1>2, <2>1, SoundFacts DEF Kept
      <4> HIDE DEF q, m
      <4> QED BY <1>2, <4>3, <4>4, <4>5
    <3>3. CASE a.op = "Undo"
      <4>1. from = st
        BY <3>3 DEF IsUndo
      <4>2. st.undo # NoUndo
        BY <2>1, <3>3 DEF FocusRefusal, Require, ??
      <4> DEFINE b == st.undo.before
                 q == [st EXCEPT !.snapshot = Restored(@, b, c.id), !.undo = NoUndo]
      <4>3. /\ Listed(b) /\ FocusIsNow(b) /\ b.initialized /\ b.generation = s.generation
            /\ Live(b) \subseteq st.used /\ Cardinality(Live(b)) <= MaxTasks
        BY <4>2 DEF Sound, StateValid, SnapshotValid, IsState, IsSnapshot, Listed
      <4>4. Clean(q) /\ q.snapshot.generation = s.generation
        <5>1. Base(st) /\ b.generation = st.snapshot.generation
          BY <2>1, <4>3
        <5>2. /\ Clean(Undone(st, b, c.id))
              /\ Undone(st, b, c.id).snapshot.generation = st.snapshot.generation
          <6> HIDE DEF b
          <6> QED BY <1>1, <4>3, <5>1, RestoredFacts
        <5>3. q = Undone(st, b, c.id)
          BY DEF Undone
        <5> HIDE DEF q, b
        <5> QED BY <5>2, <5>3
      <4>5. m = q
        BY <3>3, <4>1 DEF FocusMove
      <4> HIDE DEF q, m
      <4> QED BY <4>4, <4>5 DEF Clean
    <3> QED BY <3>1, <3>2, <3>3
  <2> HIDE DEF m
  <2> DEFINE v == [m EXCEPT !.snapshot.focus.version = c.id]
  <2>5. /\ Base(v) /\ v.snapshot.generation = m.snapshot.generation
        /\ v.used = m.used /\ v.undo = m.undo
        /\ v.snapshot.undo = m.snapshot.undo
        /\ Live(v.snapshot) = Live(m.snapshot)
    BY <1>1, <2>4, Reversioned
  <2> HIDE DEF v
  <2>6. Clean(m) => Clean(v)
    BY <2>5 DEF Clean
  <2>7. \A before : Completed(m, before, c.id) => Completed(v, before, c.id)
    BY <2>5 DEF Completed
  <2> QED BY <2>2, <2>4, <2>5, <2>6, <2>7 DEF r, v
<1> QED BY <1>3, <1>4, <1>5, CommandKinds

LEMMA LinkIsLink ==
  ASSUME NEW by \in Token, NEW s, IsBody(s)
  PROVE  IsLink(Link(by, s))
<1> DEFINE l == Link(by, s)
           b == [s EXCEPT !.history = <<>>]
<1>1. l \in [by : Token, result : {b}] /\ l.result = b
  BY DEF Link
<1>2. b \in [generation : Generation, revision : Nat, history : {b.history},
             initialized : BOOLEAN, order : Seq(TaskId), task : {b.task},
             focus : [version : Token, session : Session \cup {None}],
             undo : Hint \cup {None}] /\ b.task = s.task
  BY DEF IsBody
<1> HIDE DEF b, l
<1>3. IsBody(b)
  BY <1>2 DEF IsBody
<1>4. IsLink(l)
  BY <1>1, <1>3 DEF IsLink
<1> QED BY <1>4 DEF l

\* A chain of revisions with one more link is a chain.
LEMMA Linked ==
  ASSUME NEW h, IsChain(h), NEW by \in Token, NEW s, IsBody(s)
  PROVE  /\ IsChain(Append(h, Link(by, s)))
         /\ Len(h) \in Nat /\ Len(Append(h, Link(by, s))) = Len(h) + 1
         /\ DOMAIN h = 1..Len(h) /\ DOMAIN Append(h, Link(by, s)) = 1..(Len(h) + 1)
         /\ \A i \in DOMAIN h : Append(h, Link(by, s))[i] = h[i]
         /\ Append(h, Link(by, s))[Len(h) + 1] = Link(by, s)
<1> DEFINE l == Link(by, s)
           S == {h[i] : i \in DOMAIN h} \cup {l}
           more == Append(h, l)
<1>1. h \in Seq({h[i] : i \in DOMAIN h})
  BY DEF IsChain
<1>2. Len(h) \in Nat /\ DOMAIN h = 1..Len(h) /\ h \in Seq(S)
  <2>1. Len(h) \in Nat /\ DOMAIN h = 1..Len(h)
    BY <1>1, LenProperties
  <2>2. h \in [1..Len(h) -> S]
    BY <1>1, <2>1, LenProperties
  <2> QED BY <2>1, <2>2
<1>3. IsLink(l)
  BY LinkIsLink
<1> HIDE DEF l
<1>4. /\ more \in Seq(S) /\ Len(more) = Len(h) + 1
      /\ \A i \in 1..Len(h) : more[i] = h[i]
      /\ more[Len(h) + 1] = l
      /\ DOMAIN more = 1..(Len(h) + 1)
  BY <1>2, AppendProperties, LenProperties
<1> HIDE DEF more
<1>5. \A i \in DOMAIN more : IsLink(more[i])
  BY <1>2, <1>3, <1>4 DEF IsChain
<1>6. more \in Seq({more[i] : i \in DOMAIN more})
  BY <1>2, <1>4, LenProperties
<1> QED BY <1>2, <1>4, <1>5, <1>6 DEF IsChain, more, l

\* apply's own check of the state it is about to return never refuses it: from a
\* sound state an accepted command gives a sound state, one revision later.
THEOREM ApplySound ==
  ASSUME NEW st, Sound(st), NEW c \in Command, NEW now \in Nat,
         Refusal(st, c, now) = None
  PROVE  LET r == Apply(st, c, now)
         IN /\ Sound(r)
            /\ r.snapshot.generation = st.snapshot.generation
            /\ r.snapshot.revision = st.snapshot.revision + 1
            /\ r.snapshot.history = Append(st.snapshot.history, Link(c.id, r.snapshot))
<1> DEFINE m == Reduce(st, c, now)
           next == [m EXCEPT !.snapshot.revision = st.snapshot.revision + 1]
           r == [next EXCEPT !.snapshot.history =
                   Append(st.snapshot.history, Link(c.id, next.snapshot))]
           s == st.snapshot
           e == r.snapshot
<1>1. /\ c.id \in Token /\ StateShape(st) /\ Listed(s) /\ IsChain(s.history)
      /\ s.revision \in Nat
  BY CommandKinds, SoundFacts DEF Listed, IsBody
<1>2. /\ Base(m) /\ m.snapshot.generation = s.generation
      /\ \/ Clean(m)
         \/ \E before : Kept(before, st) /\ m.used = st.used /\ Completed(m, before, c.id)
  BY ReduceFacts
<1>3. Apply(st, c, now) = r
  BY DEF Apply
<1> HIDE DEF m
<1>4. /\ StateShape(m)
      /\ m.snapshot \in [generation : Generation, revision : Nat, history : {m.snapshot.history},
               initialized : BOOLEAN, order : Seq(TaskId), task : {m.snapshot.task},
               focus : [version : Token, session : Session \cup {None}],
               undo : Hint \cup {None}]
  BY <1>2 DEF Base, Listed, IsBody
<1>5. /\ next.snapshot \in [generation : Generation, revision : Nat,
               history : {next.snapshot.history},
               initialized : BOOLEAN, order : Seq(TaskId), task : {next.snapshot.task},
               focus : [version : Token, session : Session \cup {None}],
               undo : Hint \cup {None}]
      /\ StateShape(next) /\ next.used = m.used /\ next.undo = m.undo
      /\ next.snapshot.order = m.snapshot.order /\ next.snapshot.task = m.snapshot.task
      /\ next.snapshot.focus = m.snapshot.focus /\ next.snapshot.undo = m.snapshot.undo
      /\ next.snapshot.generation = m.snapshot.generation
      /\ next.snapshot.initialized = m.snapshot.initialized
      /\ next.snapshot.revision = s.revision + 1
  <2>1. s.revision + 1 \in Nat
    BY <1>1
  <2>2. next.snapshot \in [generation : Generation, revision : {s.revision + 1},
               history : {m.snapshot.history},
               initialized : {m.snapshot.initialized}, order : {m.snapshot.order},
               task : {m.snapshot.task}, focus : {m.snapshot.focus},
               undo : {m.snapshot.undo}]
        /\ next.snapshot.generation = m.snapshot.generation
    BY <1>4 DEF StateShape
  <2>3. StateShape(next) /\ next.used = m.used /\ next.undo = m.undo
    BY <1>4 DEF StateShape
  <2> HIDE DEF next
  <2>4. /\ m.snapshot.initialized \in BOOLEAN /\ m.snapshot.order \in Seq(TaskId)
        /\ m.snapshot.focus \in [version : Token, session : Session \cup {None}]
        /\ m.snapshot.undo \in Hint \cup {None}
    BY <1>4
  <2> QED BY <2>1, <2>2, <2>3, <2>4
<1> HIDE DEF next
<1>6. /\ e \in [generation : Generation, revision : Nat, history : {e.history},
               initialized : BOOLEAN, order : Seq(TaskId), task : {e.task},
               focus : [version : Token, session : Session \cup {None}],
               undo : Hint \cup {None}]
      /\ e.history = Append(s.history, Link(c.id, next.snapshot))
      /\ e.order = m.snapshot.order /\ e.task = m.snapshot.task
      /\ e.focus = m.snapshot.focus /\ e.undo = m.snapshot.undo
      /\ e.generation = m.snapshot.generation
      /\ e.initialized = m.snapshot.initialized
      /\ e.revision = s.revision + 1
  BY <1>5 DEF StateShape
<1>7. StateShape(r) /\ r.used = m.used /\ r.undo = m.undo
  BY <1>5 DEF StateShape
<1>8. Link(c.id, next.snapshot) = Link(c.id, e)
  <2>1. [next.snapshot EXCEPT !.history = <<>>] = [e EXCEPT !.history = <<>>]
    BY <1>5 DEF StateShape
  <2> QED BY <2>1 DEF Link
<1> HIDE DEF r
<1>9. IsBody(next.snapshot) /\ IsBody(e)
  BY <1>2, <1>5, <1>6 DEF Base, Listed, IsBody
<1>10. IsSnapshot(e)
  BY <1>1, <1>6, <1>9, Linked DEF IsSnapshot
<1>11. Live(e) = Live(m.snapshot) /\ Live(m.snapshot) \subseteq m.used
  BY <1>2, <1>6 DEF Live, Base
<1>12. SnapshotValid(e)
  <2>1. OrderedOnce(e) /\ FocusIsNow(e)
    BY <1>2, <1>6, <1>11 DEF Base, Listed, OrderedOnce, FocusIsNow, NowTasks, SessionTask
  <2>2. StartedOnce(e)
    BY <1>1, <1>2, <1>6 DEF Base, StartedOnce
  <2>3. Cardinality(Live(e)) <= MaxTasks
    BY <1>2, <1>11 DEF Base
  <2>4. e.undo # None => e.undo.task \notin Live(e)
    BY <1>2, <1>6, <1>11 DEF Clean, Completed
  <2> QED BY <2>1, <2>2, <2>3, <2>4 DEF SnapshotValid
<1>13. Sound(r)
  <2>1. CASE Clean(m)
    BY <1>6, <1>7, <1>10, <1>11, <1>12, <2>1 DEF Clean, Sound, IsState, StateValid, StateShape
  <2>2. CASE \E before : Kept(before, st) /\ m.used = st.used /\ Completed(m, before, c.id)
    <3>1. PICK b : Kept(b, st) /\ m.used = st.used /\ Completed(m, b, c.id)
      BY <2>2
    <3>2. /\ r.undo \in [completion : {c.id}, until : Nat, before : {b}]
          /\ e.undo \in [command : {c.id}, task : {SessionTask(b)}, until : {r.undo.until}]
          /\ SessionTask(b) \in Live(b)
      BY <1>6, <1>7, <3>1 DEF Completed
    <3>3. IsSnapshot(b)
      BY <1>1, <3>1 DEF Kept, Listed, IsSnapshot
    <3>4. Current(b) = SessionTask(b)
      BY <3>1, CurrentIsSessionTask DEF Kept, SnapshotValid
    <3>5. r.undo # NoUndo /\ e.undo # None
      <4>1. SessionTask(b) \in TaskId
        BY <3>1, <3>2 DEF Kept, Listed, IsBody, Partial, Live
      <4>2. e.undo \in Hint
        BY <1>1, <3>2, <4>1 DEF Hint
      <4>3. r.undo.completion # NoUndo.completion
        BY <1>1, <3>2, DistinctValues DEF NoUndo
      <4> QED BY <4>2, <4>3, DistinctValues
    <3>6. IsState(r)
      BY <1>1, <1>7, <1>10, <3>2, <3>3 DEF IsState, StateShape
    <3>7. StateValid(r)
      BY <1>2, <1>6, <1>7, <1>11, <1>12, <3>1, <3>2, <3>4, <3>5 DEF StateValid, Kept
    <3> QED BY <1>7, <3>1, <3>2, <3>6, <3>7 DEF Sound, Kept
  <2> QED BY <1>2, <2>1, <2>2
<1> QED BY <1>2, <1>3, <1>6, <1>8, <1>13

\* A restore under a new generation gives a sound state of the same revision.
THEOREM ResetGenerationSound ==
  ASSUME NEW st, Sound(st), NEW g \in Generation
  PROVE  LET r == ResetGeneration(st, g)
         IN /\ Sound(r) /\ r.snapshot.generation = g
            /\ r.snapshot.revision = st.snapshot.revision
            /\ r.snapshot.history = Append(st.snapshot.history, Link(g, r.snapshot))
<1> DEFINE s == st.snapshot
           old == s.focus.session
           session == IF old = None THEN None ELSE [old EXCEPT !.id = g]
           task == [t \in DOMAIN s.task |-> [s.task[t] EXCEPT !.versions = Versions(g)]]
           snap == [s EXCEPT !.generation = g, !.undo = None, !.focus.version = g,
                             !.focus.session = session, !.task = task]
           r == [st EXCEPT !.snapshot = [snap EXCEPT !.history = Append(s.history, Link(g, snap))],
                           !.undo = NoUndo]
           e == r.snapshot
<1>1. /\ g \in Token /\ StateShape(st) /\ Listed(s) /\ FocusIsNow(s) /\ IsChain(s.history)
      /\ Live(s) \subseteq st.used
  BY SoundFacts DEF Token
<1>2. /\ s \in [generation : Generation, revision : Nat, history : {s.history},
               initialized : BOOLEAN, order : Seq(TaskId), task : {s.task},
               focus : [version : Token, session : Session \cup {None}],
               undo : Hint \cup {None}]
      /\ Partial(s.task, TaskId, TaskRecord) /\ old \in Session \cup {None}
  BY <1>1 DEF Listed, IsBody
<1>3. ResetGeneration(st, g) = r
  BY DEF ResetGeneration
<1>4. /\ session \in Session \cup {None}
      /\ (session = None) <=> (old = None)
      /\ session # None => session.task = old.task
  BY <1>1, <1>2, DistinctValues DEF Session
<1>5. /\ Partial(task, TaskId, TaskRecord) /\ DOMAIN task = Live(s)
      /\ \A t \in Live(s) : task[t].bucket = s.task[t].bucket
  BY <1>1, <1>2 DEF Partial, Live, TaskRecord, Versions
<1> HIDE DEF session, task
<1>6. /\ snap \in [generation : {g}, revision : {s.revision}, history : {s.history},
                  initialized : {s.initialized}, order : {s.order}, task : {task},
                  focus : [version : {g}, session : {session}], undo : {None}]
  BY <1>2
<1> HIDE DEF snap
<1>7. /\ e \in [generation : {g}, revision : {s.revision},
               history : {Append(s.history, Link(g, snap))},
               initialized : {s.initialized}, order : {s.order}, task : {task},
               focus : [version : {g}, session : {session}], undo : {None}]
      /\ StateShape(r) /\ r.used = st.used /\ r.undo = NoUndo
  BY <1>1, <1>6 DEF StateShape
<1>8. Link(g, snap) = Link(g, e)
  <2>1. [snap EXCEPT !.history = <<>>] = [e EXCEPT !.history = <<>>]
    BY <1>1, <1>6 DEF StateShape
  <2> QED BY <2>1 DEF Link
<1> HIDE DEF r
<1>9. Live(e) = Live(s) /\ NowTasks(e) = NowTasks(s)
  BY <1>5, <1>7 DEF Live, NowTasks
<1>10. IsBody(snap) /\ IsBody(e)
  <2>1. ASSUME NEW x, NEW h,
               x \in [generation : {g}, revision : {s.revision}, history : {h},
                      initialized : {s.initialized}, order : {s.order}, task : {task},
                      focus : [version : {g}, session : {session}], undo : {None}]
        PROVE  IsBody(x)
    <3>1. x \in [generation : Generation, revision : Nat, history : {x.history},
               initialized : BOOLEAN, order : Seq(TaskId), task : {x.task},
               focus : [version : Token, session : Session \cup {None}],
               undo : Hint \cup {None}] /\ x.task = task
      BY <1>1, <1>2, <1>4, <2>1
    <3> QED BY <1>5, <3>1 DEF IsBody
  <2> QED BY <1>6, <1>7, <2>1
<1>11. IsSnapshot(e)
  <2>1. e.history = Append(s.history, Link(g, snap))
    BY <1>7
  <2>2. IsChain(Append(s.history, Link(g, snap)))
    BY <1>1, <1>10, Linked
  <2> QED BY <1>10, <2>1, <2>2 DEF IsSnapshot
<1>12. SnapshotValid(e)
  <2>1. OrderedOnce(e)
    BY <1>1, <1>7, <1>9 DEF OrderedOnce, Listed
  <2>2. FocusIsNow(e)
    BY <1>1, <1>4, <1>7, <1>9 DEF FocusIsNow, SessionTask
  <2>3. StartedOnce(e) /\ Cardinality(Live(e)) <= MaxTasks
    BY <1>7, <1>9 DEF Sound, StateValid, SnapshotValid, StartedOnce
  <2> QED BY <1>7, <2>1, <2>2, <2>3 DEF SnapshotValid
<1>13. Sound(r)
  BY <1>1, <1>7, <1>9, <1>11, <1>12 DEF Sound, IsState, StateValid, StateShape
<1> QED BY <1>3, <1>7, <1>8, <1>13

\* A new dataset is sound.
THEOREM NewStateSound ==
  ASSUME NEW g \in Generation
  PROVE  LET r == NewState(g)
         IN /\ Sound(r) /\ r.snapshot.generation = g /\ r.snapshot.revision = 0
            /\ r.snapshot.history = <<Link(g, r.snapshot)>>
<1> DEFINE snap == [generation |-> g, revision |-> 0, history |-> <<>>,
                    initialized |-> FALSE, order |-> <<>>, task |-> <<>>,
                    focus |-> [version |-> g, session |-> None], undo |-> None]
           e == [snap EXCEPT !.history = <<Link(g, snap)>>]
           r == NewState(g)
<1>1. r = [snapshot |-> e, used |-> {}, undo |-> NoUndo]
  BY DEF NewState
<1>2. g \in Token
  BY DEF Token
<1>3. /\ snap.generation = g /\ snap.revision = 0 /\ snap.initialized = FALSE
      /\ snap.order = <<>> /\ snap.task = <<>> /\ snap.history = <<>>
      /\ snap.focus = [version |-> g, session |-> None] /\ snap.undo = None
      /\ Shape(snap)
  BY DEF Shape
<1> HIDE DEF snap
<1>4. /\ e.generation = g /\ e.revision = 0 /\ e.initialized = FALSE
      /\ e.order = <<>> /\ e.task = <<>> /\ e.history = <<Link(g, snap)>>
      /\ e.focus = [version |-> g, session |-> None] /\ e.undo = None
      /\ Shape(e)
  BY <1>3 DEF Shape
<1>5. Link(g, snap) = Link(g, e)
  <2>1. [snap EXCEPT !.history = <<>>] = [e EXCEPT !.history = <<>>]
    BY <1>3 DEF Shape
  <2> QED BY <2>1 DEF Link
<1> HIDE DEF e
<1>6. IsBody(e) /\ IsBody(snap)
  <2>1. ASSUME NEW x, Shape(x), x.generation = g, x.revision = 0, x.initialized = FALSE,
               x.order = <<>>, x.task = <<>>,
               x.focus = [version |-> g, session |-> None], x.undo = None
        PROVE  IsBody(x)
    <3>1. x.focus \in [version : Token, session : Session \cup {None}]
      BY <1>2, <2>1
    <3>4. x.initialized \in BOOLEAN
      BY <2>1, Zenon
    <3>5. <<>> \in Seq(TaskId)
      OBVIOUS
    <3>6. /\ x.generation \in Generation /\ x.revision \in Nat
          /\ x.order \in Seq(TaskId) /\ x.undo \in Hint \cup {None}
      BY <2>1, <3>5
    <3>2. x \in [generation : Generation, revision : Nat, history : {x.history},
               initialized : BOOLEAN, order : Seq(TaskId), task : {x.task},
               focus : [version : Token, session : Session \cup {None}],
               undo : Hint \cup {None}]
      BY <2>1, <3>1, <3>4, <3>6, Zenon DEF Shape
    <3>3. Partial(x.task, TaskId, TaskRecord)
      BY <2>1 DEF Partial
    <3> QED BY <3>2, <3>3 DEF IsBody
  <2> QED BY <1>3, <1>4, <2>1
<1>7. IsLink(Link(g, snap))
  BY <1>2, <1>6, LinkIsLink
<1>8. e.history = <<Link(g, snap)>>
  BY <1>4
<1>9. IsChain(<<Link(g, snap)>>)
  BY <1>7 DEF IsChain
<1>10. IsSnapshot(e)
  BY <1>6, <1>8, <1>9 DEF IsSnapshot
<1>11. Live(e) = {} /\ NowTasks(e) = {}
  BY <1>4 DEF Live, NowTasks
<1>12. SnapshotValid(e)
  <2>1. Cardinality(Live(e)) = 0
    BY <1>11, FS_EmptySet
  <2> QED BY <1>4, <1>11, <2>1, ProtocolConstants
          DEF SnapshotValid, OrderedOnce, FocusIsNow, StartedOnce
<1>13. Sound(r)
  BY <1>1, <1>4, <1>10, <1>11, <1>12 DEF Sound, IsState, StateValid
<1> QED BY <1>1, <1>4, <1>5, <1>8, <1>13

(***************************************************************************)
(* The database                                                            *)
(***************************************************************************)
\* HistoryIsAncestry of a database, with the lengths its induction needs and the row of
\* the current snapshot.
Ancestry(st, h) ==
  LET c == st.snapshot.history
  IN /\ st.snapshot.revision \in DOMAIN h /\ h[st.snapshot.revision] = c
     /\ \A r \in DOMAIN h :
          /\ Len(h[r]) \in 1..Len(c) /\ h[r] = SubSeq(c, 1, Len(h[r]))
          /\ c[Len(h[r])].result.revision = r
          /\ c[Len(h[r])].result.generation = st.snapshot.generation

\* ExactlyOneEffect of a database, whose roots were all drawn.
OneEffect(st, rc, drawn) ==
  LET c == st.snapshot.history
  IN /\ \A i, j \in DOMAIN c : c[i].by = c[j].by => i = j
     /\ \A x \in DOMAIN rc : rc[x].outcome.status = "applied" =>
          \E i \in DOMAIN c : c[i].by = x /\ c[i].result.revision = rc[x].outcome.revision
     /\ \A i \in DOMAIN c : c[i].by \in CommandId =>
          c[i].by \in DOMAIN rc /\ rc[c[i].by].outcome = Applied(c[i].result.revision)
     /\ \A i \in DOMAIN c : c[i].by \in Generation => c[i].by \in drawn

Good(st, h, rc, drawn) == Sound(st) /\ Ancestry(st, h) /\ OneEffect(st, rc, drawn)

(***************************************************************************)
(* A chain and its beginnings                                              *)
(***************************************************************************)
Begins(s, t) == Len(s) <= Len(t) /\ \A i \in 1..Len(s) : s[i] = t[i]

LEMMA ChainLength ==
  ASSUME NEW h, IsChain(h)
  PROVE  Len(h) \in Nat /\ DOMAIN h = 1..Len(h)
BY LenProperties DEF IsChain

LEMMA BeginsItself ==
  ASSUME NEW h, IsChain(h)
  PROVE  Begins(h, h)
BY ChainLength DEF Begins

LEMMA BeginsThrough ==
  ASSUME NEW f, IsChain(f), NEW g, IsChain(g), NEW h, IsChain(h), Begins(f, g), Begins(g, h)
  PROVE  Begins(f, h)
BY ChainLength DEF Begins

\* A row of the history is where the current chain began.
LEMMA RowBegins ==
  ASSUME NEW st, NEW h, Ancestry(st, h), IsChain(st.snapshot.history), NEW r \in DOMAIN h,
         IsChain(h[r])
  PROVE  Begins(h[r], st.snapshot.history)
<1> DEFINE c == st.snapshot.history
           n == Len(h[r])
<1>1. n \in 1..Len(c) /\ h[r] = SubSeq(c, 1, n) /\ Len(c) \in Nat /\ DOMAIN c = 1..Len(c)
  BY ChainLength DEF Ancestry
<1> DEFINE S == {c[i] : i \in DOMAIN c}
<1>2. n \in Int /\ 1 \in Int /\ \A i \in 1..n : c[i] \in S
  BY <1>1
<1> HIDE DEF S
<1>3. \A i \in 1..n : SubSeq(c, 1, n)[i] = c[i]
  BY <1>1, <1>2, SubSeqProperties
<1> QED BY <1>1, <1>3 DEF Begins

LEMMA Beginnings ==
  ASSUME NEW h, IsChain(h), NEW by \in Token, NEW s, IsBody(s)
  PROVE  LET more == Append(h, Link(by, s))
         IN /\ SubSeq(more, 1, Len(more)) = more
            /\ \A n \in 1..Len(h) : SubSeq(more, 1, n) = SubSeq(h, 1, n)
<1> DEFINE more == Append(h, Link(by, s))
<1>1. /\ IsChain(more) /\ Len(h) \in Nat /\ Len(more) = Len(h) + 1
      /\ DOMAIN h = 1..Len(h) /\ DOMAIN more = 1..(Len(h) + 1)
      /\ \A i \in DOMAIN h : more[i] = h[i]
  BY Linked
<1> HIDE DEF more
<1>2. SubSeq(more, 1, Len(more)) = more
  BY <1>1, SubSeqFull DEF IsChain
<1>3. ASSUME NEW n \in 1..Len(h) PROVE SubSeq(more, 1, n) = SubSeq(h, 1, n)
  <2> DEFINE S == {h[i] : i \in DOMAIN h}
  <2>1. \A i \in 1..n : h[i] \in S /\ more[i] = h[i]
    BY <1>1
  <2>2. n \in Int /\ 1 \in Int /\ n - 1 + 1 = n
    BY <1>1
  <2> HIDE DEF S
  <2>3. /\ SubSeq(h, 1, n) \in Seq(S) /\ Len(SubSeq(h, 1, n)) = n
        /\ \A i \in 1..n : SubSeq(h, 1, n)[i] = h[i]
    BY <1>1, <2>1, <2>2, SubSeqProperties
  <2>4. /\ SubSeq(more, 1, n) \in Seq(S) /\ Len(SubSeq(more, 1, n)) = n
        /\ \A i \in 1..n : SubSeq(more, 1, n)[i] = more[i]
    BY <1>1, <2>1, <2>2, SubSeqProperties
  <2> QED BY <2>1, <2>3, <2>4, SeqEqual
<1> QED BY <1>2, <1>3 DEF more

(***************************************************************************)
(* One executed command                                                    *)
(***************************************************************************)
\* Why a command is rejected is one of the protocol's reasons.
LEMMA RefusalReason ==
  ASSUME NEW st, NEW c \in Command, NEW now \in Nat
  PROVE  Refusal(st, c, now) \in Reason \cup {None}
<1> DEFINE R == Reason \cup {None}
<1>1. \A x, y \in R : (x ?? y) \in R
  BY DEF ??
<1>2. /\ \A p, q : q \in R => Require(p, q) \in R
      /\ None \in R /\ "Conflict" \in R /\ "Invalid" \in R /\ "MissingTask" \in R
      /\ "Expired" \in R /\ "Capacity" \in R /\ "NotInitialized" \in R
      /\ "AlreadyInitialized" \in R /\ "WrongDataset" \in R
  BY DEF Require, Reason
<1> HIDE DEF R
<1>3. \A t, x : CreateRefusal(x, t) \in R
  BY <1>1, <1>2 DEF CreateRefusal
<1>4. \A s, t, b, x : AnchorRefusal(s, t, b, x) \in R
  BY <1>1, <1>2 DEF AnchorRefusal
<1>5. \A s, g : GuardRefusal(s, g, now) \in R
  BY <1>1, <1>2 DEF GuardRefusal
<1>6. InitializeRefusal(st, c.action) \in R
  BY <1>1, <1>2 DEF InitializeRefusal
<1>7. c.action \in Queued => QueuedRefusal(st, c.action) \in R
  <2>1. c.action \in Queued => c.action.op \in {"Create", "Rename", "SetTag", "MoveBefore", "Delete"}
    BY DEF Queued
  <2> QED BY <1>1, <1>2, <1>3, <1>4, <2>1 DEF QueuedRefusal
<1>8. c.action \in Focused => FocusRefusal(st, c.action, now) \in R
  <2>1. c.action \in Focused => c.action.op \in {"Promote", "CreateNow", "Complete", "Remove",
                                                 "MoveToQueue", "SetPaused", "Undo"}
    BY DEF Focused
  <2> QED BY <1>1, <1>2, <1>3, <1>4, <2>1 DEF FocusRefusal
<1> QED BY <1>1, <1>2, <1>5, <1>6, <1>7, <1>8, CommandKinds DEF Refusal, R

\* An accepted command keeps everything answered before and answers itself.
LEMMA ExecuteGood ==
  ASSUME NEW st, NEW h, NEW rc, NEW drawn, Good(st, h, rc, drawn),
         Partial(rc, CommandId, Receipt),
         NEW c \in Command, c.id \notin DOMAIN rc, NEW now \in Nat,
         Refusal(st, c, now) = None, NEW device \in Device
  PROVE  LET r == Apply(st, c, now)
             revision == st.snapshot.revision + 1
         IN Good(r,
                 [n \in DOMAIN h \cup {revision} |->
                    IF n = revision THEN r.snapshot.history ELSE h[n]],
                 [x \in DOMAIN rc \cup {c.id} |->
                    IF x = c.id THEN [device |-> device, command |-> c,
                                      outcome |-> Applied(revision)]
                    ELSE rc[x]],
                 drawn)
<1> DEFINE r == Apply(st, c, now)
           revision == st.snapshot.revision + 1
           h2 == [n \in DOMAIN h \cup {revision} |->
                    IF n = revision THEN r.snapshot.history ELSE h[n]]
           rc2 == [x \in DOMAIN rc \cup {c.id} |->
                    IF x = c.id THEN [device |-> device, command |-> c,
                                      outcome |-> Applied(revision)]
                    ELSE rc[x]]
           old == st.snapshot.history
           new == r.snapshot.history
           l == Link(c.id, r.snapshot)
<1>1. /\ Sound(st) /\ c.id \in CommandId /\ c.id \in Token /\ c.id \notin Generation
      /\ IsChain(old)
  BY CommandKinds, SoundFacts, DistinctValues DEF Good
<1>2. /\ Sound(r) /\ r.snapshot.generation = st.snapshot.generation
      /\ r.snapshot.revision = revision /\ new = Append(old, l)
  BY <1>1, ApplySound
<1>3. IsBody(r.snapshot)
  BY <1>2 DEF Sound, IsState, IsSnapshot
<1>4. l.by = c.id /\ l.result.revision = revision /\ l.result.generation = st.snapshot.generation
  BY <1>2, <1>3 DEF Link, IsBody
<1> HIDE DEF r, l, revision
<1>5. /\ Len(old) \in Nat /\ Len(new) = Len(old) + 1
      /\ DOMAIN old = 1..Len(old) /\ DOMAIN new = 1..(Len(old) + 1)
      /\ \A i \in DOMAIN old : new[i] = old[i]
      /\ new[Len(old) + 1] = l
  BY <1>1, <1>2, <1>3, Linked DEF l
<1>6. /\ SubSeq(new, 1, Len(new)) = new
      /\ \A n \in 1..Len(old) : SubSeq(new, 1, n) = SubSeq(old, 1, n)
  BY <1>1, <1>2, <1>3, Beginnings DEF l
<1> HIDE DEF old, new
<1>7. Ancestry(r, h2)
  <2>1. r.snapshot.revision \in DOMAIN h2 /\ h2[r.snapshot.revision] = new
    BY <1>2 DEF new
  <2>2. ASSUME NEW n \in DOMAIN h2
        PROVE  /\ Len(h2[n]) \in 1..Len(new) /\ h2[n] = SubSeq(new, 1, Len(h2[n]))
               /\ new[Len(h2[n])].result.revision = n
               /\ new[Len(h2[n])].result.generation = r.snapshot.generation
    <3>1. CASE n = revision
      <4>1. h2[n] = new
        BY <3>1 DEF new
      <4> QED BY <1>2, <1>4, <1>5, <1>6, <3>1, <4>1
    <3>2. CASE n # revision
      <4>1. h2[n] = h[n] /\ n \in DOMAIN h
        BY <3>2
      <4> HIDE DEF h2
      <4>2. /\ Len(h[n]) \in 1..Len(old) /\ h[n] = SubSeq(old, 1, Len(h[n]))
            /\ old[Len(h[n])].result.revision = n
            /\ old[Len(h[n])].result.generation = st.snapshot.generation
        BY <4>1 DEF Good, Ancestry, old
      <4> QED BY <1>2, <1>5, <1>6, <4>1, <4>2
    <3> QED BY <3>1, <3>2
  <2> HIDE DEF h2
  <2> QED BY <2>1, <2>2 DEF Ancestry, new
<1>8. OneEffect(r, rc2, drawn)
  <2>0. /\ \A i, j \in DOMAIN old : old[i].by = old[j].by => i = j
        /\ \A x \in DOMAIN rc : rc[x].outcome.status = "applied" =>
             \E i \in DOMAIN old : old[i].by = x /\ old[i].result.revision = rc[x].outcome.revision
        /\ \A i \in DOMAIN old : old[i].by \in CommandId =>
             old[i].by \in DOMAIN rc /\ rc[old[i].by].outcome = Applied(old[i].result.revision)
        /\ \A i \in DOMAIN old : old[i].by \in Generation => old[i].by \in drawn
    BY DEF Good, OneEffect, old
  <2>1. \A i \in DOMAIN new : i \in DOMAIN old \/ new[i] = l
    BY <1>5
  <2>2. \A i \in DOMAIN old : old[i].by # c.id
    BY <1>1, <2>0
  <2>3. \A i, j \in DOMAIN new : new[i].by = new[j].by => i = j
    BY <1>4, <1>5, <2>0, <2>2
  <2>4. /\ DOMAIN rc2 = DOMAIN rc \cup {c.id}
        /\ rc2[c.id].outcome = Applied(revision)
        /\ \A x \in DOMAIN rc : rc2[x] = rc[x]
    OBVIOUS
  <2> HIDE DEF rc2
  <2>5. \A x \in DOMAIN rc2 : rc2[x].outcome.status = "applied" =>
           \E i \in DOMAIN new : new[i].by = x /\ new[i].result.revision = rc2[x].outcome.revision
    <3>1. /\ Len(old) + 1 \in DOMAIN new /\ new[Len(old) + 1].by = c.id
          /\ new[Len(old) + 1].result.revision = rc2[c.id].outcome.revision
      BY <1>4, <1>5, <2>4 DEF Applied
    <3> QED BY <1>5, <2>0, <2>4, <3>1
  <2>6. \A i \in DOMAIN new : new[i].by \in CommandId =>
           new[i].by \in DOMAIN rc2 /\ rc2[new[i].by].outcome = Applied(new[i].result.revision)
    BY <1>4, <1>5, <2>0, <2>1, <2>4
  <2>7. \A i \in DOMAIN new : new[i].by \in Generation => new[i].by \in drawn
    BY <1>1, <1>4, <1>5, <2>0, <2>1
  <2> QED BY <2>3, <2>5, <2>6, <2>7 DEF OneEffect, new
<1> QED BY <1>2, <1>7, <1>8 DEF Good, r, revision

\* A rejected command adds its receipt and nothing else.
LEMMA RejectGood ==
  ASSUME NEW st, NEW h, NEW rc, NEW drawn, Good(st, h, rc, drawn),
         NEW x, x \notin DOMAIN rc, NEW receipt, receipt.outcome.status = "rejected",
         NEW rc2, rc2 = [y \in DOMAIN rc \cup {x} |-> IF y = x THEN receipt ELSE rc[y]]
  PROVE  Good(st, h, rc2, drawn)
<1>1. /\ DOMAIN rc2 = DOMAIN rc \cup {x} /\ rc2[x] = receipt
      /\ \A y \in DOMAIN rc : rc2[y] = rc[y]
  OBVIOUS
<1>2. OneEffect(st, rc2, drawn)
  BY <1>1 DEF Good, OneEffect
<1> QED BY <1>2 DEF Good

\* A restore under a generation never drawn keeps every effect single.
LEMMA RestoreGood ==
  ASSUME NEW st, NEW h, NEW rc, NEW drawn, Good(st, h, rc, drawn),
         NEW g \in Generation, g \notin drawn
  PROVE  LET r == ResetGeneration(st, g)
         IN Good(r, [n \in {r.snapshot.revision} |-> r.snapshot.history], rc, drawn \cup {g})
<1> DEFINE r == ResetGeneration(st, g)
           h2 == [n \in {r.snapshot.revision} |-> r.snapshot.history]
           old == st.snapshot.history
           new == r.snapshot.history
           l == Link(g, r.snapshot)
<1>1. Sound(st) /\ g \in Token /\ g \notin CommandId /\ IsChain(old)
  BY SoundFacts, DistinctValues DEF Good, Token
<1>2. /\ Sound(r) /\ r.snapshot.generation = g
      /\ r.snapshot.revision = st.snapshot.revision /\ new = Append(old, l)
  BY <1>1, ResetGenerationSound
<1>3. IsBody(r.snapshot)
  BY <1>2 DEF Sound, IsState, IsSnapshot
<1>4. l.by = g /\ l.result.revision = st.snapshot.revision /\ l.result.generation = g
  BY <1>2, <1>3 DEF Link, IsBody
<1> HIDE DEF r, l
<1>5. /\ Len(old) \in Nat /\ Len(new) = Len(old) + 1
      /\ DOMAIN old = 1..Len(old) /\ DOMAIN new = 1..(Len(old) + 1)
      /\ \A i \in DOMAIN old : new[i] = old[i]
      /\ new[Len(old) + 1] = l
  BY <1>1, <1>2, <1>3, Linked DEF l
<1>6. SubSeq(new, 1, Len(new)) = new
  BY <1>1, <1>2, <1>3, Beginnings DEF l
<1>7. Ancestry(r, h2)
  <2>1. DOMAIN h2 = {st.snapshot.revision} /\ h2[st.snapshot.revision] = new
    BY <1>2
  <2> HIDE DEF h2, new, old
  <2> QED BY <1>2, <1>4, <1>5, <1>6, <2>1 DEF Ancestry, new
<1> HIDE DEF old, new
<1>8. OneEffect(r, rc, drawn \cup {g})
  <2>0. /\ \A i, j \in DOMAIN old : old[i].by = old[j].by => i = j
        /\ \A x \in DOMAIN rc : rc[x].outcome.status = "applied" =>
             \E i \in DOMAIN old : old[i].by = x /\ old[i].result.revision = rc[x].outcome.revision
        /\ \A i \in DOMAIN old : old[i].by \in CommandId =>
             old[i].by \in DOMAIN rc /\ rc[old[i].by].outcome = Applied(old[i].result.revision)
        /\ \A i \in DOMAIN old : old[i].by \in Generation => old[i].by \in drawn
    BY DEF Good, OneEffect, old
  <2>1. \A i \in DOMAIN new : i \in DOMAIN old \/ new[i] = l
    BY <1>5
  <2>2. \A i \in DOMAIN old : old[i].by # g
    BY <2>0
  <2>3. \A i, j \in DOMAIN new : new[i].by = new[j].by => i = j
    BY <1>4, <1>5, <2>0, <2>2
  <2>4. \A x \in DOMAIN rc : rc[x].outcome.status = "applied" =>
           \E i \in DOMAIN new : new[i].by = x /\ new[i].result.revision = rc[x].outcome.revision
    BY <1>5, <2>0
  <2>5. \A i \in DOMAIN new : new[i].by \in CommandId =>
           new[i].by \in DOMAIN rc /\ rc[new[i].by].outcome = Applied(new[i].result.revision)
    BY <1>1, <1>4, <1>5, <2>0, <2>1
  <2>6. \A i \in DOMAIN new : new[i].by \in Generation => new[i].by \in drawn \cup {g}
    BY <1>4, <1>5, <2>0, <2>1
  <2> QED BY <2>3, <2>4, <2>5, <2>6 DEF OneEffect, new
<1> QED BY <1>2, <1>7, <1>8 DEF Good, r

\* More identities drawn disturb nothing.
LEMMA DrawnMore ==
  ASSUME NEW st, NEW h, NEW rc, NEW drawn, NEW more, drawn \subseteq more,
         Good(st, h, rc, drawn)
  PROVE  Good(st, h, rc, more)
BY DEF Good, OneEffect

LEMMA NewGood ==
  ASSUME NEW g \in Generation
  PROVE  LET r == NewState(g)
         IN Good(r, [n \in {0} |-> r.snapshot.history], <<>>, {g})
<1> DEFINE r == NewState(g)
           h == [n \in {0} |-> r.snapshot.history]
           l == Link(g, r.snapshot)
<1>1. /\ Sound(r) /\ r.snapshot.generation = g /\ r.snapshot.revision = 0
      /\ r.snapshot.history = <<l>>
  BY NewStateSound
<1>2. IsBody(r.snapshot) /\ g \notin CommandId
  BY <1>1, DistinctValues DEF Sound, IsState, IsSnapshot
<1>3. l.by = g /\ l.result.revision = 0 /\ l.result.generation = g
  BY <1>1, <1>2 DEF Link, IsBody
<1> HIDE DEF r, l
<1>4. SubSeq(<<l>>, 1, 1) = <<l>>
  <2>1. <<l>> \in Seq({l}) /\ Len(<<l>>) = 1
    OBVIOUS
  <2> QED BY <2>1, SubSeqFull
<1>5. Ancestry(r, h)
  BY <1>1, <1>3, <1>4 DEF Ancestry
<1>6. OneEffect(r, <<>>, {g})
  BY <1>1, <1>2, <1>3 DEF OneEffect
<1> QED BY <1>1, <1>5, <1>6 DEF Good, r

(***************************************************************************)
(* The database and the backup                                             *)
(***************************************************************************)
\* The database that serves and the backup that may come back are good ones.
Stored ==
  /\ IsDatabase(database)
  /\ artifact # None => IsDatabase(artifact)
  /\ minted \in Nat /\ roots \subseteq Generation
  /\ Good(state, history, receipts, roots)
  /\ artifact # None =>
       Good(artifact.state, artifact.history, artifact.receipts, roots)

\* Nothing answered is forgotten.
Final == \A c \in DOMAIN receipts : c \in DOMAIN receipts' /\ receipts'[c] = receipts[c]

LEMMA Drawing ==
  ASSUME NEW ids, NEW drawn, ids \ drawn # {}
  PROVE  FreshIn(ids, drawn) \in ids /\ FreshIn(ids, drawn) \notin drawn
BY DEF FreshIn

\* What a device composes from a snapshot are actions of the protocol.
LEMMA IntentsTyped ==
  ASSUME NEW snap, IsSnapshot(snap)
  PROVE  QueuedActions(snap) \subseteq Queued /\ FocusActions(snap) \subseteq Focused
<1>1. /\ snap.generation \in Generation /\ snap.revision \in Nat
      /\ snap.focus.version \in Token /\ snap.focus.session \in Session \cup {None}
      /\ snap.undo \in Hint \cup {None}
      /\ Live(snap) \subseteq TaskId
      /\ \A t \in Live(snap) : snap.task[t].versions \in [title : Token, tag : Token, placement : Token]
  BY DEF IsSnapshot, IsBody, Partial, Live, TaskRecord
<1>2. Anchors(snap) \subseteq Anchor \cup {None}
  BY <1>1 DEF Anchors, Anchor
<1>3. QueuedActions(snap) \subseteq Queued
  <2> SUFFICES ASSUME NEW x \in QueuedActions(snap) PROVE x \in Queued
    OBVIOUS
  <2>1. CASE x \in [op : {"Create"}, task : TaskId, title : Title, tag : Tag \cup {None},
                    bucket : QueueBucket]
    BY <2>1 DEF Queued
  <2>2. ASSUME NEW t \in Live(snap), NEW y \in Title,
               x = [op |-> "Rename", task |-> t, expected |-> snap.task[t].versions.title,
                    title |-> y]
        PROVE  x \in Queued
    BY <1>1, <2>2 DEF Queued
  <2>3. ASSUME NEW t \in Live(snap), NEW y \in Tag \cup {None},
               x = [op |-> "SetTag", task |-> t, expected |-> snap.task[t].versions.tag,
                    tag |-> y]
        PROVE  x \in Queued
    BY <1>1, <2>3 DEF Queued
  <2>4. ASSUME NEW t \in Live(snap), NEW b \in QueueBucket, NEW y \in Anchors(snap),
               x = [op |-> "MoveBefore", task |-> t,
                    expected |-> snap.task[t].versions.placement, bucket |-> b, before |-> y]
        PROVE  x \in Queued
    BY <1>1, <1>2, <2>4 DEF Queued
  <2>5. ASSUME NEW t \in Live(snap),
               x = [op |-> "Delete", task |-> t, expected |-> snap.task[t].versions.title]
        PROVE  x \in Queued
    BY <1>1, <2>5 DEF Queued
  <2> QED BY <2>1, <2>2, <2>3, <2>4, <2>5 DEF QueuedActions
<1>4. FocusActions(snap) \subseteq Focused
  <2> SUFFICES ASSUME NEW x \in FocusActions(snap) PROVE x \in Focused
    OBVIOUS
  <2>1. ASSUME NEW t \in Live(snap), x = [op |-> "Promote", task |-> t] PROVE x \in Focused
    BY <1>1, <2>1 DEF Focused
  <2>2. CASE x \in [op : {"CreateNow"}, task : TaskId, title : Title, tag : Tag \cup {None}]
    BY <2>2 DEF Focused
  <2>3. CASE x \in [op : {"Complete", "Remove"}] \cup [op : {"SetPaused"}, paused : BOOLEAN]
    BY <2>3 DEF Focused
  <2>4. CASE x \in [op : {"MoveToQueue"}, bucket : QueueBucket, before : Anchors(snap)]
    BY <1>2, <2>4 DEF Focused
  <2>5. CASE snap.undo # None /\ x \in [op : {"Undo"}, completion : {snap.undo.command}]
    <3>1. snap.undo.command \in Token
      BY <1>1, <2>5 DEF Hint
    <3> QED BY <2>5, <3>1 DEF Focused
  <2> QED BY <2>1, <2>2, <2>3, <2>4, <2>5 DEF FocusActions
<1> QED BY <1>3, <1>4

\* The guard a device shows for a snapshot.
LEMMA GuardTyped ==
  ASSUME NEW snap, IsSnapshot(snap), NEW time \in Nat
  PROVE  ObservedGuard(snap, time) \in Guard
<1>1. /\ snap.revision \in Nat /\ snap.focus.version \in Token
      /\ snap.focus.session \in Session \cup {None}
  BY DEF IsSnapshot, IsBody
<1>2. /\ SessionId(snap) \in Token \cup {None} /\ SessionTask(snap) \in TaskId \cup {None}
      /\ time + FocusTtl \in Nat
  BY <1>1, ProtocolConstants DEF SessionId, SessionTask, Session
<1> QED BY <1>1, <1>2 DEF ObservedGuard, Guard

LEMMA InitStored == ServerInit => Stored
<1> SUFFICES ASSUME ServerInit PROVE Stored
  OBVIOUS
<1> DEFINE g == FreshIn(Generation, {})
<1>1. g \in Generation
  BY Drawing, ServerConstants
<1> HIDE DEF g
<1>2. /\ state = NewState(g) /\ history = [r \in {0} |-> state.snapshot.history]
      /\ roots = {g} /\ receipts = <<>> /\ lastTime = 0 /\ enrolled = <<>>
      /\ minted = 0 /\ artifact = None
  BY DEF ServerInit, g
<1>3. Good(state, history, receipts, roots)
  BY <1>1, <1>2, NewGood
<1>4. IsState(state) /\ IsChain(state.snapshot.history)
  BY <1>3 DEF Good, Sound, IsState, IsSnapshot
<1>5. IsDatabase(database)
  <2>1. DOMAIN history = {0} /\ IsChain(history[0])
    BY <1>2, <1>4
  <2>2. /\ Partial(receipts, CommandId, Receipt)
        /\ Partial(enrolled, Device, [token : Nat, revoked : BOOLEAN])
    BY <1>2 DEF Partial
  <2> QED BY <1>2, <1>4, <2>1, <2>2 DEF IsDatabase, database
<1> QED BY <1>1, <1>2, <1>3, <1>5 DEF Stored

\* A served request leaves a good database, and every outcome as it was.
LEMMA ExchangeKeeps ==
  ASSUME Stored, NEW request, request.command \in Command \cup {None},
         request.device \in Device, NEW sampled \in Nat, Exchange(request, sampled)
  PROVE  Stored' /\ Final /\ UNCHANGED <<minted, roots, artifact>>
<1> DEFINE now == ServerTime(sampled)
           c == request.command
<1>1. /\ IsState(state) /\ DOMAIN history \subseteq Nat
      /\ \A r \in DOMAIN history : IsChain(history[r])
      /\ Partial(receipts, CommandId, Receipt) /\ lastTime \in Nat
      /\ Partial(enrolled, Device, [token : Nat, revoked : BOOLEAN])
      /\ Good(state, history, receipts, roots)
  BY DEF Stored, IsDatabase, database
<1>2. now \in Nat
  BY <1>1 DEF ServerTime
<1> HIDE DEF now
<1>3. lastTime' = now /\ UNCHANGED <<enrolled, minted, roots, artifact>>
  BY DEF Exchange, now
<1>4. /\ IsState(state') /\ DOMAIN history' \subseteq Nat
      /\ \A r \in DOMAIN history' : IsChain(history'[r])
      /\ Partial(receipts', CommandId, Receipt)
      /\ Good(state', history', receipts', roots')
      /\ \A x \in DOMAIN receipts : x \in DOMAIN receipts' /\ receipts'[x] = receipts[x]
  <2>1. CASE c = None \/ c.id \in DOMAIN receipts
    <3>1. UNCHANGED <<state, history, receipts>>
      BY <2>1 DEF Exchange
    <3> QED BY <1>1, <1>3, <3>1
  <2>2. CASE c # None /\ c.id \notin DOMAIN receipts
    <3> DEFINE outcome == Outcome(c, now)
               refusal == Refusal(state, c, now)
               revision == state.snapshot.revision + 1
               Receipts(o) == [x \in DOMAIN receipts \cup {c.id} |->
                  IF x = c.id THEN [device |-> request.device, command |-> c, outcome |-> o]
                  ELSE receipts[x]]
    <3>1. Execute(request.device, c, now) /\ c \in Command /\ c.id \in CommandId
      BY <2>2, CommandKinds DEF Exchange, now
    <3>2. receipts' = Receipts(outcome)
      BY <3>1 DEF Execute
    <3>3. /\ DOMAIN receipts' = DOMAIN receipts \cup {c.id}
          /\ \A x \in DOMAIN receipts : receipts'[x] = receipts[x]
      BY <2>2, <3>2
    <3>4. ASSUME outcome \in ReceiptOutcome PROVE Partial(receipts', CommandId, Receipt)
      <4>1. receipts'[c.id] \in Receipt
        BY <3>1, <3>2, <3>4 DEF Receipt
      <4> HIDE DEF Receipts
      <4>2. \A x \in DOMAIN receipts' : receipts'[x] \in Receipt
        BY <1>1, <3>3, <4>1 DEF Partial
      <4>3. receipts' \in [DOMAIN receipts' -> Receipt]
        <5>1. receipts' = [x \in DOMAIN receipts' |-> receipts'[x]]
          BY <3>2 DEF Receipts
        <5> QED BY <4>2, <5>1
      <4> QED BY <1>1, <3>1, <3>3, <4>3 DEF Partial
    <3>5. CASE refusal = None
      <4>1. outcome = Applied(revision)
        BY <3>5 DEF Outcome
      <4> HIDE DEF outcome
      <4>2. /\ state' = Apply(state, c, now)
            /\ history' = [n \in DOMAIN history \cup {revision} |->
                  IF n = revision THEN Apply(state, c, now).snapshot.history ELSE history[n]]
        BY <3>1, <4>1 DEF Execute, outcome, Applied
      <4>3. revision \in Nat
        BY <1>1 DEF IsState, IsSnapshot, IsBody
      <4>4. outcome \in ReceiptOutcome
        BY <4>1, <4>3 DEF Applied, ReceiptOutcome
      <4>5. Good(state', history', receipts', roots')
        BY <1>1, <1>2, <1>3, <2>2, <3>1, <3>2, <3>5, <4>1, <4>2, ExecuteGood
      <4>6. IsState(state')
        BY <4>5 DEF Good, Sound
      <4>7. IsChain(state'.snapshot.history)
        BY <4>6 DEF IsState, IsSnapshot
      <4> HIDE DEF revision
      <4>8. DOMAIN history' \subseteq Nat /\ \A r \in DOMAIN history' : IsChain(history'[r])
        BY <1>1, <4>2, <4>3, <4>7
      <4> QED BY <3>3, <3>4, <4>4, <4>5, <4>6, <4>8
    <3>6. CASE refusal # None
      <4>1. outcome = Rejected(refusal) /\ refusal \in Reason
        BY <1>2, <3>1, <3>6, RefusalReason DEF Outcome
      <4> HIDE DEF outcome, refusal
      <4>2. outcome \in ReceiptOutcome /\ outcome.status = "rejected"
        BY <4>1 DEF Rejected, ReceiptOutcome
      <4>3. UNCHANGED <<state, history>>
        BY <3>1, <4>2 DEF Execute, outcome
      <4>4. Good(state', history', receipts', roots')
        <5> DEFINE receipt == [device |-> request.device, command |-> c, outcome |-> outcome]
        <5>1. receipt.outcome.status = "rejected"
          BY <4>2
        <5>2. receipts' = [y \in DOMAIN receipts \cup {c.id} |->
                             IF y = c.id THEN receipt ELSE receipts[y]]
          BY <3>2
        <5> HIDE DEF receipt
        <5>3. Good(state, history, receipts', roots)
          BY <1>1, <2>2, <5>1, <5>2, RejectGood
        <5>4. state' = state /\ history' = history /\ roots' = roots
          BY <1>3, <4>3
        <5> HIDE DEF Good
        <5> QED BY <5>2, <5>3, <5>4
      <4> QED BY <1>1, <3>3, <3>4, <4>2, <4>3, <4>4
    <3> QED BY <3>5, <3>6
  <2> QED BY <2>1, <2>2
<1>5. IsDatabase(database')
  BY <1>1, <1>2, <1>3, <1>4 DEF IsDatabase, database
<1> QED BY <1>3, <1>4, <1>5 DEF Stored, Final

\* The operator's commands on the devices leave the rest of the database alone.
LEMMA OperatorKeeps ==
  ASSUME Stored, (\E d \in Device : Issue(d) \/ Revoke(d)) \/ Backup
  PROVE  Stored' /\ UNCHANGED <<server, roots>> /\ artifact' \in {artifact, database}
<1>0. /\ IsDatabase(database) /\ minted \in Nat
      /\ DOMAIN enrolled \subseteq Device
      /\ enrolled \in [DOMAIN enrolled -> [token : Nat, revoked : BOOLEAN]]
  BY DEF Stored, IsDatabase, database, Partial
<1>1. CASE Backup
  <2>1. artifact' = database /\ UNCHANGED <<server, roots, enrolled, minted>>
    BY <1>1 DEF Backup
  <2>2. database' = database
    BY <2>1 DEF database, server
  <2>3. Good(state', history', receipts', roots')
    BY <2>1 DEF Stored, server
  <2>4. Good(artifact'.state, artifact'.history, artifact'.receipts, roots')
    BY <2>1 DEF Stored, database
  <2> QED BY <1>0, <2>1, <2>2, <2>3, <2>4 DEF Stored
<1>2. ASSUME NEW d \in Device, Issue(d) \/ Revoke(d)
      PROVE  Stored' /\ UNCHANGED <<server, roots>> /\ artifact' = artifact
  <2>1. UNCHANGED <<server, roots, artifact>>
    BY <1>2 DEF Issue, Revoke
  <2>2. minted' \in Nat /\ Partial(enrolled', Device, [token : Nat, revoked : BOOLEAN])
    <3>1. CASE Revoke(d)
      <4>1. /\ minted' = minted /\ d \in DOMAIN enrolled
            /\ enrolled' = [enrolled EXCEPT ![d].revoked = TRUE]
        BY <3>1 DEF Revoke
      <4> QED BY <1>0, <4>1 DEF Partial
    <3>2. CASE Issue(d)
      <4>1. /\ minted' = minted + 1
            /\ enrolled' = [e \in DOMAIN enrolled \cup {d} |->
                 IF e = d THEN [token |-> minted + 1, revoked |-> FALSE] ELSE enrolled[e]]
        BY <3>2 DEF Issue
      <4> QED BY <1>0, <4>1 DEF Partial
    <3> QED BY <1>2, <3>1, <3>2
  <2>3. IsDatabase(database')
    BY <1>0, <2>1, <2>2 DEF IsDatabase, database, server
  <2> QED BY <2>1, <2>2, <2>3 DEF Stored, server
<1> QED BY <1>1, <1>2

\* Either way a backup comes back, what serves then is good.
LEMMA RestoreKeeps ==
  ASSUME Stored, RawRestore \/ RestoreGeneration
  PROVE  Stored' /\ artifact # None /\ UNCHANGED <<minted, artifact>>
<1>1. /\ artifact # None /\ UNCHANGED <<minted, artifact>>
      /\ receipts' = artifact.receipts /\ lastTime' = artifact.lastTime
      /\ enrolled' = artifact.enrolled
      /\ IsDatabase(artifact)
      /\ Good(artifact.state, artifact.history, artifact.receipts, roots)
      /\ minted \in Nat /\ roots \subseteq Generation
  BY DEF RawRestore, RestoreGeneration, Stored
<1>2. CASE RawRestore
  <2>1. state' = artifact.state /\ history' = artifact.history /\ roots' = roots
    BY <1>2 DEF RawRestore
  <2>2. IsDatabase(database')
    BY <1>1, <2>1 DEF IsDatabase, database
  <2> QED BY <1>1, <2>1, <2>2 DEF Stored
<1>3. CASE RestoreGeneration
  <2> DEFINE g == FreshIn(Generation, roots)
  <2>1. g \in Generation /\ g \notin roots
    BY <1>3, Drawing DEF RestoreGeneration
  <2>2. /\ roots' = roots \cup {g} /\ state' = ResetGeneration(artifact.state, g)
        /\ history' = [r \in {state'.snapshot.revision} |-> state'.snapshot.history]
    BY <1>3 DEF RestoreGeneration
  <2> HIDE DEF g
  <2>3. Good(state', history', receipts', roots')
    BY <1>1, <2>1, <2>2, RestoreGood
  <2>4. /\ IsState(state') /\ state'.snapshot.revision \in Nat
        /\ IsChain(state'.snapshot.history)
    BY <2>3 DEF Good, Sound, IsState, IsSnapshot, IsBody
  <2>5. /\ DOMAIN history' \subseteq Nat
        /\ \A r \in DOMAIN history' : IsChain(history'[r])
    BY <2>2, <2>4
  <2>6. IsDatabase(database')
    BY <1>1, <2>4, <2>5 DEF IsDatabase, database
  <2>7. Good(artifact.state, artifact.history, artifact.receipts, roots')
    BY <1>1, <2>2, DrawnMore
  <2> QED BY <1>1, <2>1, <2>2, <2>3, <2>6, <2>7 DEF Stored
<1> QED BY <1>1, <1>2, <1>3

(***************************************************************************)
(* The timer of Now                                                        *)
(***************************************************************************)
\* What is needed of a state to speak of its timer.
Framed(s) ==
  {"focus", "order", "task", "undo", "revision", "history", "initialized"} \subseteq DOMAIN s
  /\ {"version", "session"} \subseteq DOMAIN s.focus
FramedState(st) == {"snapshot", "used", "undo"} \subseteq DOMAIN st /\ Framed(st.snapshot)

SessionOf(st) == st.snapshot.focus.session

\* What one command may do to the session: end it, keep it, begin one of its
\* own, bring back the one before the completion, or pause or resume it.
SessionStep(st, r, command, now) ==
  LET old == SessionOf(st)
      new == SessionOf(r)
      before == st.undo.before.focus.session
  IN \/ new \in {None, old}
     \/ new.id = command /\ new.anchor = now
     \/ st.undo # NoUndo /\ before # None /\ new.id = command /\ new.anchor = before.anchor
     \/ old # None /\ \E paused \in BOOLEAN : new = Repaused(old, paused, now)

\* An undo record that a step leaves holds the session from before the step.
UndoStep(st, r) == r.undo = NoUndo \/ r.undo.before.focus.session = SessionOf(st)

LEMMA SoundFramed ==
  ASSUME NEW st, Sound(st)
  PROVE  /\ FramedState(st)
         /\ SessionOf(st) \in Session \cup {None}
         /\ st.undo # NoUndo =>
              Framed(st.undo.before) /\ st.undo.before.focus.session \in Session \cup {None}
<1>1. IsState(st) /\ IsBody(st.snapshot) /\ (st.undo # NoUndo => IsBody(st.undo.before))
  BY DEF Sound, IsState, IsSnapshot
<1>2. \A s : IsBody(s) => Framed(s) /\ s.focus.session \in Session \cup {None}
  BY DEF IsBody, Framed
<1>3. {"snapshot", "used", "undo"} \subseteq DOMAIN st
  BY <1>1 DEF IsState
<1> QED BY <1>1, <1>2, <1>3 DEF FramedState, SessionOf

LEMMA MovesKeepFocus ==
  ASSUME NEW s, Framed(s), NEW t, NEW bucket, NEW before, NEW command
  PROVE  /\ Framed(Drop(s, t)) /\ Drop(s, t).focus = s.focus
         /\ Framed(Place(s, t, bucket, before, command))
         /\ Place(s, t, bucket, before, command).focus = s.focus
BY DEF Framed, Drop, Place

LEMMA SessionSet ==
  ASSUME NEW s, Framed(s), NEW session
  PROVE  LET r == [s EXCEPT !.focus.session = session]
         IN Framed(r) /\ r.focus.session = session
BY DEF Framed

LEMMA PromoteSession ==
  ASSUME NEW s, Framed(s), NEW t, NEW command, NEW now
  PROVE  /\ Framed(Promote(s, t, command, now))
         /\ Promote(s, t, command, now).focus.session
              \in {s.focus.session, NewSession(command, t, now)}
<1> DEFINE freed == IF Current(s) = None THEN s
                    ELSE Place(s, Current(s), "next", Head1(s, "next", t), command)
           placed == Place(freed, t, "now", None, command)
           made == [placed EXCEPT !.focus.session = NewSession(command, t, now)]
<1>1. Framed(freed) /\ freed.focus = s.focus
  BY MovesKeepFocus
<1> HIDE DEF freed
<1>2. Framed(placed)
  BY <1>1, MovesKeepFocus
<1> HIDE DEF placed
<1>3. Framed(made) /\ made.focus.session = NewSession(command, t, now)
  BY <1>2, SessionSet
<1>4. Promote(s, t, command, now) \in {s, made}
  BY DEF Promote, freed, placed, NewSession
<1> QED BY <1>3, <1>4

LEMMA QueuedSession ==
  ASSUME NEW st, FramedState(st), NEW command, NEW a \in Queued, NEW now
  PROVE  LET r == QueuedEffect(st, command, a, now)
         IN FramedState(r) /\ SessionOf(r) = SessionOf(st) /\ r.undo = st.undo
<1> DEFINE r == QueuedEffect(st, command, a, now)
           s == st.snapshot
<1>1. CASE a.op = "Create"
  BY <1>1 DEF QueuedEffect, CreateTask, FramedState, Framed, SessionOf
<1>2. CASE a.op \in {"Rename", "SetTag"}
  BY <1>2 DEF QueuedEffect, FramedState, Framed, SessionOf
<1>3. CASE a.op = "MoveBefore"
  <2>1. r = [st EXCEPT !.snapshot = Place(s, a.task, a.bucket, AnchorTask(a.before), command)]
    BY <1>3 DEF QueuedEffect
  <2> QED BY <2>1, MovesKeepFocus DEF FramedState, SessionOf
<1>4. CASE a.op = "Delete"
  <2>1. r = [st EXCEPT !.snapshot = Drop(s, a.task)]
    BY <1>4 DEF QueuedEffect
  <2> QED BY <2>1, MovesKeepFocus DEF FramedState, SessionOf
<1> QED BY <1>1, <1>2, <1>3, <1>4 DEF Queued

\* The focus commands that keep the undo record.
LEMMA FocusSession ==
  ASSUME NEW st, FramedState(st), NEW command, NEW a \in Focused,
         a.op \notin {"Undo", "Complete"}, NEW now,
         a.op = "SetPaused" => SessionOf(st) # None
  PROVE  LET r == FocusMove(st, command, a, now)
         IN FramedState(r) /\ SessionStep(st, r, command, now) /\ r.undo = st.undo
<1> DEFINE r == FocusMove(st, command, a, now)
           s == st.snapshot
           t == SessionTask(s)
           New(u) == NewSession(command, u, now)
<1>1. \A u : New(u).id = command /\ New(u).anchor = now
  BY DEF NewSession
<1>2. CASE a.op = "Promote"
  <2>1. r = [st EXCEPT !.snapshot = Promote(s, a.task, command, now)]
    BY <1>2 DEF FocusMove
  <2>2. /\ Framed(Promote(s, a.task, command, now))
        /\ Promote(s, a.task, command, now).focus.session \in {SessionOf(st), New(a.task)}
    BY PromoteSession DEF FramedState, SessionOf
  <2> HIDE DEF r
  <2>3. FramedState(r) /\ r.undo = st.undo /\ SessionOf(r) \in {SessionOf(st), New(a.task)}
    BY <2>1, <2>2 DEF FramedState, SessionOf
  <2> QED BY <1>1, <2>3 DEF SessionStep, r
<1>3. CASE a.op = "CreateNow"
  <2> DEFINE made == CreateTask(st, command, a.task, a.title, a.tag, "next", now)
             m == made.snapshot
  <2>1. r = [made EXCEPT !.snapshot = Promote(m, a.task, command, now)]
    BY <1>3 DEF FocusMove
  <2>2. FramedState(made) /\ m.focus = s.focus /\ made.undo = st.undo
    BY DEF CreateTask, FramedState, Framed
  <2> HIDE DEF made
  <2>3. /\ Framed(Promote(m, a.task, command, now))
        /\ Promote(m, a.task, command, now).focus.session \in {SessionOf(st), New(a.task)}
    BY <2>2, PromoteSession DEF FramedState, SessionOf
  <2> HIDE DEF r
  <2>4. FramedState(r) /\ r.undo = st.undo /\ SessionOf(r) \in {SessionOf(st), New(a.task)}
    BY <2>1, <2>2, <2>3 DEF FramedState, SessionOf
  <2> QED BY <1>1, <2>4 DEF SessionStep, r
<1>4. CASE a.op \in {"Remove", "MoveToQueue"}
  <2>1. PICK x : Framed(x) /\ r = [st EXCEPT !.snapshot = [x EXCEPT !.focus.session = None]]
    <3>1. CASE a.op = "Remove"
      BY <3>1, MovesKeepFocus DEF FocusMove, FramedState
    <3>2. CASE a.op = "MoveToQueue"
      BY <3>2, MovesKeepFocus DEF FocusMove, FramedState
    <3> QED BY <1>4, <3>1, <3>2
  <2> HIDE DEF r
  <2>2. FramedState(r) /\ r.undo = st.undo /\ SessionOf(r) = None
    BY <2>1, SessionSet DEF FramedState, SessionOf
  <2> QED BY <2>2 DEF SessionStep, r
<1>5. CASE a.op = "SetPaused"
  <2>1. r = [st EXCEPT !.snapshot.focus.session = Repaused(@, a.paused, now)]
    BY <1>5 DEF FocusMove
  <2>2. a.paused \in BOOLEAN /\ SessionOf(st) # None
    BY <1>5 DEF Focused
  <2> HIDE DEF r
  <2>3. /\ FramedState(r) /\ r.undo = st.undo
        /\ SessionOf(r) = Repaused(SessionOf(st), a.paused, now)
    BY <2>1 DEF FramedState, Framed, SessionOf
  <2> QED BY <2>2, <2>3 DEF SessionStep, r
<1> QED BY <1>2, <1>3, <1>4, <1>5 DEF Focused

LEMMA CompleteSession ==
  ASSUME NEW st, FramedState(st), NEW command, NEW now
  PROVE  LET r == Complete(st, command, now)
         IN /\ FramedState(r) /\ SessionStep(st, r, command, now)
            /\ r.undo.before = st.snapshot
<1> DEFINE r == Complete(st, command, now)
           old == st.snapshot
           t == SessionTask(old)
           dropped == [Drop(old, t) EXCEPT !.focus.session = None]
           next == Head1(dropped, "next", None)
           snap == IF next = None THEN dropped ELSE Promote(dropped, next, command, now)
           until == now + UndoFor
<1>1. Framed(dropped) /\ dropped.focus.session = None
  BY MovesKeepFocus, SessionSet DEF FramedState
<1>2. r = [st EXCEPT
        !.undo = [completion |-> command, until |-> until, before |-> old],
        !.snapshot = [snap EXCEPT !.undo = [command |-> command, task |-> t, until |-> until]]]
  BY DEF Complete
<1> HIDE DEF r, dropped
<1>3. /\ Framed(snap)
      /\ snap.focus.session \in {None, NewSession(command, next, now)}
  BY <1>1, PromoteSession
<1> HIDE DEF snap
<1>4. FramedState(r) /\ r.undo.before = old /\ SessionOf(r) = snap.focus.session
  BY <1>2, <1>3 DEF FramedState, Framed, SessionOf
<1> QED BY <1>3, <1>4 DEF SessionStep, NewSession, r

LEMMA UndoSession ==
  ASSUME NEW st, FramedState(st), st.undo # NoUndo, Framed(st.undo.before),
         st.undo.before.focus.session \in Session \cup {None}, NEW command, NEW now
  PROVE  LET r == Undone(st, st.undo.before, command)
         IN FramedState(r) /\ SessionStep(st, r, command, now) /\ r.undo = NoUndo
<1> DEFINE r == Undone(st, st.undo.before, command)
           before == st.undo.before
           back == Restored(st.snapshot, before, command)
           held == before.focus.session
<1>1. /\ Framed(back)
      /\ back.focus.session = IF held = None THEN None ELSE [held EXCEPT !.id = command]
  BY DEF Framed, Restored
<1>2. r = [st EXCEPT !.snapshot = back, !.undo = NoUndo]
  BY DEF Undone
<1>3. held # None => [held EXCEPT !.id = command].id = command
                     /\ [held EXCEPT !.id = command].anchor = held.anchor
  BY DEF Session
<1> HIDE DEF r, back
<1>4. FramedState(r) /\ r.undo = NoUndo /\ SessionOf(r) = back.focus.session
  BY <1>1, <1>2 DEF FramedState, SessionOf
<1> QED BY <1>1, <1>3, <1>4 DEF SessionStep, r

\* An accepted command.
LEMMA ReduceSession ==
  ASSUME NEW st, Sound(st), NEW c \in Command, NEW now, Refusal(st, c, now) = None
  PROVE  LET r == Reduce(st, c, now)
         IN FramedState(r) /\ SessionStep(st, r, c.id, now) /\ UndoStep(st, r)
<1> DEFINE r == Reduce(st, c, now)
           a == c.action
           clear == [st EXCEPT !.undo = NoUndo, !.snapshot.undo = None]
<1> USE DistinctValues DEF Reason
<1>1. FramedState(st)
  BY SoundFramed
<1>2. /\ FramedState(clear) /\ SessionOf(clear) = SessionOf(st) /\ clear.undo = NoUndo
  BY <1>1 DEF FramedState, Framed, SessionOf
<1> HIDE DEF clear
<1>3. \A x : SessionStep(clear, x, c.id, now) => SessionStep(st, x, c.id, now)
  BY <1>2 DEF SessionStep
<1>4. CASE a \in Queued /\ ~IsFocus(c) /\ ~IsUndo(c) /\ a.op # "Initialize"
  <2>1. r = QueuedEffect(clear, c.id, a, now)
    BY <1>4 DEF Reduce, clear
  <2> HIDE DEF r
  <2>2. FramedState(r) /\ SessionOf(r) = SessionOf(clear) /\ r.undo = clear.undo
    BY <1>2, <1>4, <2>1, QueuedSession
  <2> QED BY <1>2, <2>2 DEF SessionStep, UndoStep, r
<1>5. CASE a \in Seeding /\ a.op = "Initialize" /\ ~IsUndo(c)
  <2>1. r = Initialize(clear, c.id, a, now)
    BY <1>5 DEF Reduce, clear
  <2> HIDE DEF r
  <2>2. FramedState(r) /\ r.undo = clear.undo
    BY <1>2, <2>1 DEF Initialize, FramedState, Framed
  <2>3. SessionOf(r) # None => SessionOf(r).id = c.id /\ SessionOf(r).anchor = now
    <3>1. PICK t : r.snapshot.focus.session =
                     IF a.timer = None THEN None
                     ELSE [id |-> c.id, task |-> t, elapsed |-> a.timer.elapsed,
                           running |-> a.timer.running, anchor |-> now]
      <4>1. PICK t, ids, tasks, used :
              r = [clear EXCEPT
                     !.used = used, !.snapshot.initialized = TRUE, !.snapshot.order = ids,
                     !.snapshot.task = tasks,
                     !.snapshot.focus =
                       [version |-> c.id,
                        session |-> IF a.timer = None THEN None
                                    ELSE [id |-> c.id, task |-> t, elapsed |-> a.timer.elapsed,
                                          running |-> a.timer.running, anchor |-> now]]]
        BY <2>1 DEF Initialize
      <4> QED BY <1>2, <4>1 DEF FramedState, Framed
    <3> QED BY <3>1 DEF SessionOf
  <2> QED BY <1>2, <2>2, <2>3 DEF SessionStep, UndoStep, r
<1>6. CASE a \in Focused /\ IsFocus(c) /\ a.op # "Initialize"
  <2>1. FocusRefusal(st, a, now) = None
    BY <1>6 DEF Refusal, Require, ??
  <2> DEFINE base == IF IsUndo(c) THEN st ELSE clear
             m == FocusMove(base, c.id, a, now)
  <2>2. r = [m EXCEPT !.snapshot.focus.version = c.id]
    BY <1>6 DEF Reduce, FocusEffect, clear
  <2>3. FramedState(m) /\ SessionStep(st, m, c.id, now) /\ UndoStep(st, m)
    <3>1. CASE a.op = "Undo"
      <4>1. st.undo # NoUndo
        BY <2>1, <3>1 DEF FocusRefusal, Require, ??
      <4>2. m = Undone(st, st.undo.before, c.id)
        BY <3>1 DEF FocusMove, Undone, IsUndo
      <4> HIDE DEF m
      <4>3. /\ Framed(st.undo.before)
            /\ st.undo.before.focus.session \in Session \cup {None}
        BY <4>1, SoundFramed
      <4>4. /\ FramedState(Undone(st, st.undo.before, c.id))
            /\ SessionStep(st, Undone(st, st.undo.before, c.id), c.id, now)
            /\ Undone(st, st.undo.before, c.id).undo = NoUndo
        BY <1>1, <4>1, <4>3, UndoSession
      <4> QED BY <4>2, <4>4 DEF UndoStep
    <3>2. CASE a.op = "Complete"
      <4>1. m = Complete(clear, c.id, now)
        BY <3>2 DEF FocusMove, IsUndo
      <4> HIDE DEF m
      <4>2. FramedState(m) /\ SessionStep(clear, m, c.id, now) /\ m.undo.before = clear.snapshot
        BY <1>2, <4>1, CompleteSession
      <4> QED BY <1>2, <1>3, <4>2 DEF UndoStep, SessionOf
    <3>3. CASE a.op \notin {"Undo", "Complete"}
      <4>1. a.op = "SetPaused" => SessionOf(clear) # None
        BY <1>2, <2>1 DEF FocusRefusal, Require, SessionOf
      <4>2. m = FocusMove(clear, c.id, a, now)
        BY <3>3 DEF IsUndo
      <4> HIDE DEF m
      <4>3. FramedState(m) /\ SessionStep(clear, m, c.id, now) /\ m.undo = clear.undo
        BY <1>2, <1>6, <3>3, <4>1, <4>2, FocusSession
      <4> QED BY <1>2, <1>3, <4>3 DEF UndoStep
    <3> QED BY <3>1, <3>2, <3>3
  <2> HIDE DEF m, r
  <2>4. FramedState(r) /\ SessionOf(r) = SessionOf(m) /\ r.undo = m.undo
    BY <2>2, <2>3 DEF FramedState, Framed, SessionOf
  <2> QED BY <2>3, <2>4 DEF SessionStep, UndoStep, r
<1> QED BY <1>4, <1>5, <1>6, CommandKinds

LEMMA ApplySession ==
  ASSUME NEW st, Sound(st), NEW c \in Command, NEW now, Refusal(st, c, now) = None
  PROVE  LET r == Apply(st, c, now)
         IN SessionStep(st, r, c.id, now) /\ UndoStep(st, r)
<1> DEFINE m == Reduce(st, c, now)
           r == Apply(st, c, now)
<1>1. FramedState(m) /\ SessionStep(st, m, c.id, now) /\ UndoStep(st, m)
  BY ReduceSession
<1>2. \E revision, h : r = [[m EXCEPT !.snapshot.revision = revision] EXCEPT !.snapshot.history = h]
  BY DEF Apply
<1> HIDE DEF m, r
<1>3. SessionOf(r) = SessionOf(m) /\ r.undo = m.undo
  BY <1>1, <1>2 DEF FramedState, Framed, SessionOf
<1> QED BY <1>1, <1>3 DEF SessionStep, UndoStep, r


\* The anchors a database holds are of its past, and its session was begun by
\* a command that was answered, or by a restore.
Dated(session, time) == session # None => session.anchor <= time
Timed(st, rc, drawn, time) ==
  /\ Dated(SessionOf(st), time)
  /\ st.undo # NoUndo => Dated(st.undo.before.focus.session, time)
  /\ SessionOf(st) # None => SessionOf(st).id \in DOMAIN rc \cup drawn

\* The part of TimerContinuous that is not about restores.
Continuous(old, new, time, later) ==
  old # None /\ new # None /\ old.id = new.id => ElapsedAt(new, later) = ElapsedAt(old, later)

LEMMA RepausedElapsed ==
  ASSUME NEW s \in Session, NEW paused \in BOOLEAN, NEW now \in Nat
  PROVE  /\ ElapsedAt(Repaused(s, paused, now), now) = ElapsedAt(s, now)
         /\ Repaused(s, paused, now).anchor = now /\ Repaused(s, paused, now).id = s.id
<1>1. ElapsedAt(s, now) \in Nat
  BY DEF Session, ElapsedAt
<1> HIDE DEF ElapsedAt
<1>2. /\ Repaused(s, paused, now).elapsed = ElapsedAt(s, now)
      /\ Repaused(s, paused, now).anchor = now /\ Repaused(s, paused, now).id = s.id
  BY DEF Repaused, Session
<1>3. ElapsedAt(Repaused(s, paused, now), now) = ElapsedAt(s, now) + 0
  BY <1>2 DEF ElapsedAt
<1> QED BY <1>1, <1>2, <1>3

LEMMA ApplyTimed ==
  ASSUME NEW st, Sound(st), NEW c \in Command, NEW now \in Nat, Refusal(st, c, now) = None,
         NEW rc, NEW drawn, NEW time \in Nat, time <= now,
         Timed(st, rc, drawn, time), c.id \notin DOMAIN rc \cup drawn,
         NEW rc2, DOMAIN rc2 = DOMAIN rc \cup {c.id}
  PROVE  LET r == Apply(st, c, now)
         IN /\ Timed(r, rc2, drawn, now)
            /\ Continuous(SessionOf(st), SessionOf(r), time, now)
<1> DEFINE r == Apply(st, c, now)
           old == SessionOf(st)
           new == SessionOf(r)
           before == st.undo.before.focus.session
<1>1. SessionStep(st, r, c.id, now) /\ UndoStep(st, r)
  BY ApplySession
<1>2. /\ old \in Session \cup {None}
      /\ st.undo # NoUndo => before \in Session \cup {None}
  BY SoundFramed
<1>3. \A s \in Session : s.anchor \in Nat
  BY DEF Session
<1> HIDE DEF r, old, before
<1>4. Dated(old, now) /\ (st.undo # NoUndo => Dated(before, now))
  BY <1>2, <1>3 DEF Timed, Dated, old, before
<1>5. r.undo # NoUndo => Dated(r.undo.before.focus.session, now)
  BY <1>1, <1>4 DEF UndoStep, old
<1> HIDE DEF new
<1>6. \/ new \in {None, old}
      \/ new.id = c.id /\ new.anchor = now
      \/ st.undo # NoUndo /\ before # None /\ new.id = c.id /\ new.anchor = before.anchor
      \/ old # None /\ \E paused \in BOOLEAN : new = Repaused(old, paused, now)
  BY <1>1 DEF SessionStep, old, new, before
<1>7. old # None => old.id \in DOMAIN rc \cup drawn
  BY DEF Timed, old
<1>8. \A paused \in BOOLEAN : old # None =>
        /\ ElapsedAt(Repaused(old, paused, now), now) = ElapsedAt(old, now)
        /\ Repaused(old, paused, now).anchor = now /\ Repaused(old, paused, now).id = old.id
  BY <1>2, RepausedElapsed
<1>9. Dated(new, now) /\ (new # None => new.id \in DOMAIN rc2 \cup drawn)
  BY <1>4, <1>6, <1>7, <1>8 DEF Dated
<1>10. Continuous(old, new, time, now)
  BY <1>6, <1>7, <1>8 DEF Continuous
<1> QED BY <1>5, <1>9, <1>10 DEF Timed, old, new, r

LEMMA NewTimed ==
  ASSUME NEW g, NEW time, NEW rc, NEW drawn
  PROVE  Timed(NewState(g), rc, drawn, time)
BY DEF Timed, NewState, NoUndo, SessionOf, Dated

LEMMA ResetTimed ==
  ASSUME NEW st, Sound(st), NEW g, NEW rc, NEW drawn, NEW time, Timed(st, rc, drawn, time)
  PROVE  Timed(ResetGeneration(st, g), rc, drawn \cup {g}, time)
<1> DEFINE r == ResetGeneration(st, g)
           old == SessionOf(st)
<1>1. FramedState(st) /\ old \in Session \cup {None}
  BY SoundFramed
<1>2. r.undo = NoUndo /\ SessionOf(r) = IF old = None THEN None ELSE [old EXCEPT !.id = g]
  <2>1. PICK h, tasks : r = [st EXCEPT
          !.snapshot = [[st.snapshot EXCEPT
             !.generation = g, !.undo = None, !.focus.version = g,
             !.focus.session = IF @ = None THEN None ELSE [@ EXCEPT !.id = g],
             !.task = tasks] EXCEPT !.history = h],
          !.undo = NoUndo]
    BY DEF ResetGeneration
  <2> HIDE DEF r
  <2> QED BY <1>1, <2>1 DEF FramedState, Framed, SessionOf
<1>3. old # None => [old EXCEPT !.id = g].id = g /\ [old EXCEPT !.id = g].anchor = old.anchor
  BY <1>1 DEF Session
<1> HIDE DEF r, old
<1>4. Dated(old, time)
  BY DEF Timed, old
<1> QED BY <1>2, <1>3, <1>4 DEF Timed, Dated, r

\* Serving a request: the receipt is new whenever something is executed.
LEMMA ExchangeTimed ==
  ASSUME Stored, Timed(state, receipts, roots, lastTime),
         NEW request, request.command \in Command \cup {None},
         NEW sampled \in Nat, Exchange(request, sampled)
  PROVE  /\ Timed(state', receipts', roots, lastTime') /\ lastTime <= lastTime'
         /\ Continuous(SessionOf(state), SessionOf(state'), lastTime, lastTime')
<1> DEFINE now == ServerTime(sampled)
           c == request.command
<1>2. /\ lastTime \in Nat /\ Sound(state)
      /\ roots \subseteq Generation
  BY DEF Stored, IsDatabase, database, Good
<1>3. now \in Nat /\ lastTime <= now
  BY <1>2 DEF ServerTime
<1> HIDE DEF now
<1>4. lastTime' = now /\ UNCHANGED <<roots, artifact>>
  BY DEF Exchange, now
<1>5. /\ Timed(state', receipts', roots, now)
      /\ Continuous(SessionOf(state), SessionOf(state'), lastTime, now)
  <2>1. CASE UNCHANGED <<state, receipts>>
    <3>1. SessionOf(state) \in Session \cup {None}
          /\ (state.undo # NoUndo => state.undo.before.focus.session \in Session \cup {None})
      BY <1>2, SoundFramed
    <3>2. \A s \in Session : s.anchor \in Nat
      BY DEF Session
    <3>3. \A s \in Session \cup {None} : Dated(s, lastTime) => Dated(s, now)
      BY <1>2, <1>3, <3>2 DEF Dated
    <3> QED BY <1>2, <2>1, <3>1, <3>3 DEF Timed, Continuous
  <2>2. CASE /\ c # None /\ c.id \notin DOMAIN receipts /\ Outcome(c, now).status = "applied"
             /\ Execute(request.device, c, now)
    <3>1. /\ state' = Apply(state, c, now) /\ DOMAIN receipts' = DOMAIN receipts \cup {c.id}
      BY <2>2 DEF Execute
    <3>2. Refusal(state, c, now) = None
      BY <2>2 DEF Outcome, Rejected
    <3>3. c \in Command /\ c.id \notin DOMAIN receipts \cup roots
      BY <1>2, <2>2, CommandKinds, DistinctValues
    <3> QED BY <1>2, <1>3, <3>1, <3>2, <3>3, ApplyTimed
  <2>3. CASE /\ c # None /\ Outcome(c, now).status # "applied"
             /\ Execute(request.device, c, now)
    <3>1. state' = state /\ DOMAIN receipts' = DOMAIN receipts \cup {c.id}
      BY <2>3 DEF Execute
    <3>2. SessionOf(state) \in Session \cup {None}
          /\ (state.undo # NoUndo => state.undo.before.focus.session \in Session \cup {None})
      BY <1>2, SoundFramed
    <3>3. \A s \in Session : s.anchor \in Nat
      BY DEF Session
    <3>4. \A s \in Session \cup {None} : Dated(s, lastTime) => Dated(s, now)
      BY <1>2, <1>3, <3>3 DEF Dated
    <3> QED BY <1>2, <3>1, <3>2, <3>4 DEF Timed, Continuous
  <2> QED BY <2>1, <2>2, <2>3 DEF Exchange, now
<1> QED BY <1>3, <1>4, <1>5
=============================================================================
