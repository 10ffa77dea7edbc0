-------------------------- MODULE QueueSetupProofs --------------------------
(***************************************************************************)
(* A setup that is resumed sends what it sent and makes the journal it     *)
(* made, and no local task is lost or comes to the shared queue twice, for *)
(* any devices, local queues, failures, deaths, restores of the server and *)
(* commands that arrive late.  What is sent and what is made rest on the   *)
(* stage alone, which checks the answers and its own record; what becomes  *)
(* of the local tasks rests on the server as well.                         *)
(***************************************************************************)
EXTENDS QueueSetup, ServerProofs

Busy == {"config", "open", "work", "seal", "remove"}
Places == Busy \cup {"prepare", None}
StageFields == {"mode", "source", "plans", "next", "confirmed", "time", "recovery",
                "handles", "nextHandle"}

\* A sequence of directories, of which there is one.
IsLog(log) == (\E S : log \in Seq(S)) /\ log # <<>>
Entries(log) == {log[i] : i \in DOMAIN log}
Latest(log) == log[Len(log)]

IsStage(stage) ==
  /\ DOMAIN stage = StageFields /\ StageValid(stage)
  /\ DOMAIN stage.plans = 1..Len(stage.plans) /\ Len(stage.plans) \in Nat /\ stage.next \in Nat

\* A journal beside a stage is the one the stage makes, which has nothing to send.
IsDir(d, dir) ==
  /\ DOMAIN dir = {"tasks", "stage", "config", "state"}
  /\ Begun(dir) =>
       /\ IsStage(dir.stage)
       /\ dir.state # NoJournal =>
            /\ dir.stage.confirmed # None /\ ~Unsent(dir.stage)
            /\ dir.state = Activation(d, dir.stage)

PlanIds(dir) == IF Begun(dir) THEN {dir.stage.plans[k].id : k \in DOMAIN dir.stage.plans} ELSE {}

\* Whatever was sent of a stage is what the stage would send again.
Bound(dir, out) ==
  Begun(dir) =>
    \A r \in out : \A k \in DOMAIN dir.stage.plans :
      dir.stage.plans[k].id = r.command.id =>
        dir.stage.confirmed # None /\ Bind(dir.stage, dir.stage.plans[k]) = r.command

DirOK(d, dir, used, out) == IsDir(d, dir) /\ PlanIds(dir) \subseteq used /\ Bound(dir, out)

\* The inductive invariant, of the logs, the places, the identities drawn and
\* the commands sent.  What is sent is durable first: while the utility works,
\* no power failure brings back a stage that was not bound.
QInv(logs, places, used, out) ==
  /\ logs = [d \in Device |-> logs[d]] /\ places \in [Device -> Places]
  /\ \A d \in Device :
       /\ IsLog(logs[d])
       /\ \A dir \in Entries(logs[d]) : DirOK(d, dir, used, out)
       /\ places[d] \in Busy => Begun(Latest(logs[d]))
       /\ places[d] = "prepare" => IsNew(Latest(logs[d]))
       /\ places[d] = "work" => Len(logs[d]) = 1
  /\ \A d, e \in Device : d # e =>
       \A x \in Entries(logs[d]), y \in Entries(logs[e]) : PlanIds(x) \cap PlanIds(y) = {}
  /\ \A r \in out : r.command.id \in used
  /\ \A r, s \in out : r.command.id = s.command.id => r.command = s.command

(***************************************************************************)
(* Logs                                                                    *)
(***************************************************************************)
LEMMA PlacesDiffer ==
  /\ None \notin Mode \cup {"prepare", "config", "open", "work", "seal", "remove"}
  /\ None \notin Busy
BY SetupAssumption DEF Busy

LEMMA LogFacts ==
  ASSUME NEW log, IsLog(log)
  PROVE  /\ Len(log) \in Nat \ {0} /\ DOMAIN log = 1..Len(log)
         /\ Latest(log) \in Entries(log)
<1>1. PICK S : log \in Seq(S)
  BY DEF IsLog
<1>2. Len(log) \in Nat \ {0} /\ DOMAIN log = 1..Len(log)
  BY <1>1, EmptySeq, LenProperties DEF IsLog
<1> QED BY <1>2 DEF Latest, Entries

LEMMA OneLog ==
  ASSUME NEW dir
  PROVE  /\ IsLog(<<dir>>) /\ Entries(<<dir>>) = {dir} /\ Latest(<<dir>>) = dir
         /\ Len(<<dir>>) = 1
<1>1. <<dir>> \in Seq({dir}) /\ <<dir>> # <<>> /\ Len(<<dir>>) = 1 /\ DOMAIN <<dir>> = 1..1
  OBVIOUS
<1>2. IsLog(<<dir>>)
  BY <1>1 DEF IsLog
<1>3. <<dir>>[1] = dir
  OBVIOUS
<1>4. Entries(<<dir>>) = {dir}
  BY <1>1, <1>3 DEF Entries
<1> QED BY <1>1, <1>2, <1>3, <1>4 DEF Latest

LEMMA MoreLog ==
  ASSUME NEW log, IsLog(log), NEW dir
  PROVE  IsLog(Append(log, dir)) /\ Entries(Append(log, dir)) = Entries(log) \cup {dir}
<1>1. PICK S : log \in Seq(S)
  BY DEF IsLog
<1>2. log \in Seq(S \cup {dir})
  BY <1>1, SeqMonotonic
<1> DEFINE more == Append(log, dir)
<1>3. /\ more \in Seq(S \cup {dir}) /\ more # <<>> /\ Len(more) = Len(log) + 1
      /\ \A i \in 1..Len(log) : more[i] = log[i]
      /\ more[Len(log) + 1] = dir
  BY <1>2, AppendProperties
<1>4. DOMAIN more = 1..(Len(log) + 1) /\ DOMAIN log = 1..Len(log) /\ Len(log) \in Nat
  BY <1>2, <1>3, LenProperties
<1> HIDE DEF more
<1>5. Entries(more) = Entries(log) \cup {dir}
  BY <1>3, <1>4 DEF Entries
<1> QED BY <1>3, <1>5 DEF IsLog, more

LEMMA LatestOK ==
  ASSUME NEW logs, NEW places, NEW used, NEW out, QInv(logs, places, used, out),
         NEW d \in Device
  PROVE  DirOK(d, Latest(logs[d]), used, out) /\ Latest(logs[d]) \in Entries(logs[d])
BY LogFacts DEF QInv

(***************************************************************************)
(* Steps of a log, a place and the identities drawn                        *)
(***************************************************************************)
LEMMA LogStep ==
  ASSUME NEW logs, NEW places, NEW used, NEW out, QInv(logs, places, used, out),
         NEW d \in Device, NEW log, IsLog(log), NEW more, used \subseteq more,
         \A x \in Entries(log) :
           \/ x \in Entries(logs[d])
           \/ /\ DirOK(d, x, more, out)
              /\ PlanIds(x) \subseteq PlanIds(Latest(logs[d])) \/ PlanIds(x) \cap used = {},
         NEW place \in Places,
         place \in Busy => Begun(Latest(log)), place = "prepare" => IsNew(Latest(log)),
         place = "work" => Len(log) = 1
  PROVE  QInv([logs EXCEPT ![d] = log], [places EXCEPT ![d] = place], more, out)
<1> DEFINE logs2 == [logs EXCEPT ![d] = log]
           places2 == [places EXCEPT ![d] = place]
<1>1. /\ logs2 = [e \in Device |-> logs2[e]] /\ places2 \in [Device -> Places]
      /\ logs2[d] = log /\ places2[d] = place
      /\ \A e \in Device \ {d} : logs2[e] = logs[e] /\ places2[e] = places[e]
  BY DEF QInv
<1> HIDE DEF logs2, places2
<1>2. \A e \in Device : \A x \in Entries(logs[e]) : DirOK(e, x, more, out)
  BY DEF QInv, DirOK
<1>3. \A e \in Device : \A x \in Entries(logs2[e]) : DirOK(e, x, more, out)
  BY <1>1, <1>2
<1>4. \A e \in Device : /\ IsLog(logs2[e])
                        /\ places2[e] \in Busy => Begun(Latest(logs2[e]))
                        /\ places2[e] = "prepare" => IsNew(Latest(logs2[e]))
                        /\ places2[e] = "work" => Len(logs2[e]) = 1
  BY <1>1 DEF QInv
<1>5. \A e \in Device \ {d} : \A x \in Entries(log), y \in Entries(logs[e]) :
        PlanIds(x) \cap PlanIds(y) = {}
  <2>1. SUFFICES ASSUME NEW e \in Device \ {d}, NEW x \in Entries(log), NEW y \in Entries(logs[e])
                 PROVE  PlanIds(x) \cap PlanIds(y) = {}
    OBVIOUS
  <2>2. PlanIds(y) \subseteq used
    BY DEF QInv, DirOK
  <2>3. \A z \in Entries(logs[d]) : PlanIds(z) \cap PlanIds(y) = {}
    BY DEF QInv
  <2>4. Latest(logs[d]) \in Entries(logs[d])
    BY LatestOK
  <2> QED BY <2>2, <2>3, <2>4
<1>6. \A e, g \in Device : e # g =>
        \A x \in Entries(logs2[e]), y \in Entries(logs2[g]) : PlanIds(x) \cap PlanIds(y) = {}
  <2>1. SUFFICES ASSUME NEW e \in Device, NEW g \in Device, e # g,
                        NEW x \in Entries(logs2[e]), NEW y \in Entries(logs2[g])
                 PROVE  PlanIds(x) \cap PlanIds(y) = {}
    OBVIOUS
  <2>2. CASE e = d
    BY <1>1, <1>5, <2>1, <2>2
  <2>3. CASE g = d
    BY <1>1, <1>5, <2>1, <2>3
  <2>4. CASE e # d /\ g # d
    BY <1>1, <2>1, <2>4 DEF QInv
  <2> QED BY <2>2, <2>3, <2>4
<1> QED BY <1>1, <1>3, <1>4, <1>6 DEF QInv, logs2, places2

\* A step that leaves the logs alone.
LEMMA PlaceStep ==
  ASSUME NEW logs, NEW places, NEW used, NEW out, QInv(logs, places, used, out),
         NEW d \in Device, NEW place \in Places,
         place \in Busy => Begun(Latest(logs[d])), place = "prepare" => IsNew(Latest(logs[d])),
         place = "work" => Len(logs[d]) = 1
  PROVE  QInv(logs, [places EXCEPT ![d] = place], used, out)
<1>1. IsLog(logs[d]) /\ logs = [logs EXCEPT ![d] = logs[d]]
  BY DEF QInv
<1>2. QInv([logs EXCEPT ![d] = logs[d]], [places EXCEPT ![d] = place], used, out)
  BY <1>1, LogStep
<1> QED BY <1>1, <1>2

\* More identities are drawn.
LEMMA DrawStep ==
  ASSUME NEW logs, NEW places, NEW used, NEW out, QInv(logs, places, used, out),
         NEW more, used \subseteq more
  PROVE  QInv(logs, places, more, out)
BY DEF QInv, DirOK

\* A command of a stage that is durable is sent.
LEMMA SendStep ==
  ASSUME NEW logs, NEW places, NEW used, NEW out, QInv(logs, places, used, out),
         NEW d \in Device, places[d] = "work", NEW r, Unsent(Latest(logs[d]).stage),
         r.command = NextCommand(Latest(logs[d]).stage)
  PROVE  QInv(logs, places, used, out \cup {r})
<1> DEFINE dir == Latest(logs[d])
           stage == dir.stage
           n == stage.next + 1
<1>1. DirOK(d, dir, used, out) /\ dir \in Entries(logs[d]) /\ Begun(dir)
  <2>1. Begun(dir)
    BY DEF QInv, Busy
  <2> QED BY <2>1, LatestOK
<1>2. n \in DOMAIN stage.plans /\ stage.confirmed # None
  <2>1. /\ DOMAIN stage.plans = 1..Len(stage.plans) /\ Len(stage.plans) \in Nat
        /\ stage.next \in Nat
    BY <1>1 DEF DirOK, IsDir, IsStage
  <2> QED BY <2>1 DEF Unsent
<1>3. r.command = Bind(stage, stage.plans[n]) /\ r.command.id = stage.plans[n].id
  BY DEF NextCommand, Bind
<1>4. \A x \in Entries(logs[d]) : x = dir
  BY LogFacts DEF QInv, Entries, Latest
<1>5. \A k \in DOMAIN stage.plans : stage.plans[k].id = r.command.id => k = n
  <2>1. StageValid(stage)
    BY <1>1 DEF DirOK, IsDir, IsStage
  <2>2. Fn!IsInjective([i \in DOMAIN stage.plans |-> stage.plans[i].id])
    BY <2>1 DEF StageValid
  <2> QED BY <1>2, <1>3, <2>2 DEF Fn!IsInjective
<1>6. r.command.id \in PlanIds(dir) /\ r.command.id \in used
  BY <1>1, <1>2, <1>3 DEF PlanIds, DirOK
<1>7. \A e \in Device : \A x \in Entries(logs[e]) : DirOK(e, x, used, out \cup {r})
  <2>1. SUFFICES ASSUME NEW e \in Device, NEW x \in Entries(logs[e]), Begun(x),
                        NEW k \in DOMAIN x.stage.plans, x.stage.plans[k].id = r.command.id
                 PROVE  x.stage.confirmed # None /\ Bind(x.stage, x.stage.plans[k]) = r.command
    BY DEF QInv, DirOK, Bound
  <2>2. r.command.id \in PlanIds(x)
    BY <2>1 DEF PlanIds
  <2>3. e = d
    BY <1>1, <1>6, <2>2 DEF QInv
  <2> QED BY <1>2, <1>3, <1>4, <1>5, <2>1, <2>3
<1>8. \A s \in out : s.command.id = r.command.id => s.command = r.command
  BY <1>1, <1>2, <1>3 DEF DirOK, Bound
<1> QED BY <1>6, <1>7, <1>8 DEF QInv

\* SaveDir, whichever way the save ends.
LEMMA SaveStep ==
  ASSUME NEW logs, NEW places, NEW used, NEW out, QInv(logs, places, used, out),
         NEW d \in Device, NEW more, used \subseteq more,
         NEW dir, DirOK(d, dir, more, out),
         PlanIds(dir) \subseteq PlanIds(Latest(logs[d])) \/ PlanIds(dir) \cap used = {},
         NEW saved \in SaveResult,
         NEW then \in Busy \cup {None}, then # None => Begun(dir)
  PROVE  QInv([logs EXCEPT ![d] = Saved(@, dir, saved)],
              [places EXCEPT ![d] = IF saved = "ok" THEN then ELSE None], more, out)
<1> DEFINE log == Saved(logs[d], dir, saved)
           place == IF saved = "ok" THEN then ELSE None
<1>1. /\ IsLog(logs[d]) /\ place \in Places
      /\ place # "prepare" /\ (place \in Busy => place # None)
      /\ "prepare" \notin Busy
  BY PlacesDiffer DEF QInv, Places, Busy
<1>2. CASE saved = "ok"
  <2>1. log = <<dir>> /\ place = then
    BY <1>2 DEF Saved
  <2> HIDE DEF log, place
  <2>2. /\ IsLog(log) /\ \A x \in Entries(log) : x = dir
        /\ Latest(log) = dir /\ Len(log) = 1
    BY <2>1, OneLog
  <2>3. QInv([logs EXCEPT ![d] = log], [places EXCEPT ![d] = place], more, out)
    BY <1>1, <2>1, <2>2, LogStep
  <2> QED BY <2>3 DEF log, place
<1>3. CASE saved # "ok"
  <2>1. place = None
    BY <1>3
  <2>2. log = Append(logs[d], dir) \/ log = logs[d]
    BY <1>3 DEF Saved, SaveResult
  <2> HIDE DEF log, place
  <2>3. IsLog(log) /\ \A x \in Entries(log) : x \in Entries(logs[d]) \/ x = dir
    <3>1. CASE log = logs[d]
      BY <1>1, <3>1
    <3>2. CASE log = Append(logs[d], dir)
      BY <1>1, <3>2, MoreLog
    <3> QED BY <2>2, <3>1, <3>2
  <2>4. None # "work" /\ None # "prepare" /\ None \notin Busy
    BY PlacesDiffer DEF Busy
  <2>5. QInv([logs EXCEPT ![d] = log], [places EXCEPT ![d] = place], more, out)
    BY <1>1, <2>1, <2>3, <2>4, LogStep
  <2> QED BY <2>5 DEF log, place
<1> QED BY <1>2, <1>3

(***************************************************************************)
(* Identities are drawn once                                               *)
(***************************************************************************)
LEMMA PickedFresh ==
  ASSUME NEW S, IsFiniteSet(S), NEW n \in Nat, n <= Cardinality(S \ drawn)
  PROVE  \A i \in 1..n : Picked(S, n)[i] \in S \ drawn
<1> DEFINE Left == S \ drawn
           seq == Sq!SetToSeq(Left)
           size == Cardinality(Left)
<1>1. IsFiniteSet(Left) /\ size \in Nat /\ ExistsBijection(1..size, Left)
  BY FS_Difference, FS_CardinalityType
<1>2. \E f \in [1..size -> Left] : Sq!IsInjective(f)
  BY <1>1 DEF ExistsBijection, Bijection, Injection, IsInjective, Sq!IsInjective
<1>3. seq \in [1..size -> Left]
  BY <1>2 DEF Sq!SetToSeq, Sq!Cardinality, Cardinality
<1> HIDE DEF Left, size
<1>4. seq \in Seq(Left)
  BY <1>1, <1>3, SeqDef
<1> HIDE DEF seq
<1>5. Len(seq) = size
  BY <1>1, <1>3, <1>4
<1>6. Picked(S, n) = SubSeq(seq, 1, n)
  <2>1. (IF n < Len(seq) THEN n ELSE Len(seq)) = n
    BY <1>1, <1>5 DEF size, Left
  <2>2. Picked(S, n) = SubSeq(seq, 1, IF n < Len(seq) THEN n ELSE Len(seq))
    BY DEF Picked, seq, Left
  <2> QED BY <2>1, <2>2
<1>7. \A i \in 1..n : SubSeq(seq, 1, n)[i] = seq[i] /\ seq[i] \in Left
  BY <1>1, <1>3, <1>4, <1>5 DEF size, Left
<1> QED BY <1>6, <1>7 DEF Left

(***************************************************************************)
(* What was loaded                                                         *)
(***************************************************************************)
\* What tasks.json may be while the queue is a standalone one.
Files(d) == {Absent} \cup {Queue(n) : n \in 0..Len(Local[d])}

\* What is known of tasks.json, apart from the directories.
Reading ==
  \A d \in Device :
    /\ DOMAIN newest[d] = {"tasks", "overlooked"} /\ newest[d].tasks \in Files(d)
    /\ at[d] = "prepare" => loaded[d].mode \in Mode /\ loaded[d].tasks \in Files(d)

LEMMA FilesSized ==
  ASSUME NEW d \in Device, NEW file \in Files(d)
  PROVE  /\ file \in File /\ file # Sentinel /\ file # None
         /\ Local[d] \in Seq(LocalTask) /\ Len(Local[d]) \in Nat
         /\ DOMAIN Local[d] = 1..Len(Local[d])
         /\ file.size \in 0..Len(Local[d]) /\ 1..file.size \subseteq DOMAIN Local[d]
<1>1. /\ Local[d] \in Seq(LocalTask) /\ Len(Local[d]) \in Nat
      /\ DOMAIN Local[d] = 1..Len(Local[d])
  BY SetupAssumption
<1>2. file \in File /\ file # Sentinel /\ file.size \in 0..Len(Local[d])
  BY <1>1 DEF Files, File, Absent, Queue, Sentinel
<1>3. file # None
  BY <1>2, SetupAssumption
<1>4. 1..file.size \subseteq DOMAIN Local[d]
  BY <1>1, <1>2
<1> QED BY <1>1, <1>2, <1>3, <1>4

LEMMA TasksLoaded ==
  ASSUME NEW d \in Device, loaded[d].tasks \in Files(d)
  PROVE  /\ Tasks(d) \in Seq(LocalTask) /\ Len(Tasks(d)) \in Nat
         /\ Len(Tasks(d)) = loaded[d].tasks.size /\ DOMAIN Tasks(d) = 1..loaded[d].tasks.size
         /\ \A i \in DOMAIN Tasks(d) : Tasks(d)[i] = Local[d][i] /\ Tasks(d)[i] \in LocalTask
<1> DEFINE local == Local[d]
           n == loaded[d].tasks.size
<1>1. local \in Seq(LocalTask) /\ Len(local) \in Nat /\ n \in 0..Len(local)
  BY FilesSized
<1>2. Tasks(d) = SubSeq(local, 1, n)
  BY DEF Tasks
<1> HIDE DEF local, n
<1>3. /\ SubSeq(local, 1, n) \in Seq(LocalTask) /\ Len(SubSeq(local, 1, n)) = n
      /\ \A i \in 1..n : SubSeq(local, 1, n)[i] = local[i]
  BY <1>1, SubSeqProperties
<1>4. n \in Nat /\ DOMAIN Tasks(d) = 1..n
  BY <1>1, <1>2, <1>3, LenProperties
<1>5. \A i \in 1..n : local[i] \in LocalTask
  BY <1>1, LenProperties
<1> QED BY <1>2, <1>3, <1>4, <1>5 DEF local, n

\* The stage that setup begins with.
LEMMA StageFresh ==
  ASSUME NEW d \in Device, loaded[d].mode \in Mode, loaded[d].tasks \in Files(d), Enough(d)
  PROVE  LET stage == Stage(d)
         IN /\ DOMAIN stage = StageFields /\ stage.mode # None
            /\ DOMAIN stage.plans = 1..Len(stage.plans) /\ Len(stage.plans) \in Nat
            /\ stage.next = 0 /\ stage.confirmed = None
            /\ \A k \in DOMAIN stage.plans : stage.plans[k].id \in CommandId \ drawn
<1> DEFINE stage == Stage(d)
           mode == loaded[d].mode
           tasks == Tasks(d)
           n == IF mode = "initialize" THEN 1 ELSE Len(tasks)
           ids == Picked(TaskId, Len(tasks))
           commands == Picked(CommandId, n)
<1>1. tasks \in Seq(LocalTask) /\ Len(tasks) \in Nat /\ DOMAIN tasks = 1..Len(tasks)
  BY TasksLoaded
<1>2. \A i \in 1..n : commands[i] \in CommandId \ drawn
  <2>1. n \in Nat /\ n <= Cardinality(CommandId \ drawn)
    <3>1. Cardinality(CommandId \ drawn) \in Nat
      BY SetupAssumption, FS_Difference, FS_CardinalityType
    <3> QED BY <1>1, <3>1 DEF Enough, Plenty
  <2> QED BY <2>1, SetupAssumption, PickedFresh
<1>3. /\ DOMAIN stage = StageFields /\ stage.mode = mode /\ stage.next = 0
      /\ stage.confirmed = None /\ stage.plans = Plans(tasks, mode, ids, commands)
  BY DEF Stage, StageFields, Plenty
<1>4. mode # None /\ mode \in Mode
  BY SetupAssumption
<1> HIDE DEF stage, mode, tasks, ids, commands
<1>5. CASE mode = "initialize"
  <2>1. \E action : stage.plans = <<[id |-> commands[1], action |-> action]>>
    BY <1>3, <1>5 DEF Plans
  <2>2. PICK action : stage.plans = <<[id |-> commands[1], action |-> action]>>
    BY <2>1
  <2>3. DOMAIN stage.plans = 1..1 /\ Len(stage.plans) = 1 /\ stage.plans[1].id = commands[1]
    BY <2>2
  <2> QED BY <1>2, <1>3, <1>4, <1>5, <2>3 DEF stage
<1>6. CASE mode = "import"
  <2> DEFINE plan(i) ==
        [id |-> commands[i],
         action |-> [op |-> "Create", task |-> ids[i], title |-> tasks[i].title,
                     tag |-> tasks[i].tag, bucket |-> ImportBucket(tasks[i].bucket)]]
  <2>1. stage.plans = [i \in 1..Len(tasks) |-> plan(i)]
    BY <1>1, <1>3, <1>6 DEF Plans
  <2>2. \A i \in 1..Len(tasks) : plan(i).id = commands[i]
    OBVIOUS
  <2> HIDE DEF plan
  <2>3. stage.plans \in Seq({plan(i) : i \in 1..Len(tasks)})
    BY <1>1, <2>1, SeqDef
  <2>4. DOMAIN stage.plans = 1..Len(tasks) /\ Len(stage.plans) = Len(tasks)
    BY <1>1, <2>1, <2>3
  <2> QED BY <1>1, <1>2, <1>3, <1>4, <1>6, <2>1, <2>2, <2>4 DEF stage
<1>7. CASE mode = "shared"
  <2>1. stage.plans = <<>>
    BY <1>3, <1>7 DEF Plans
  <2>2. DOMAIN stage.plans = 1..0 /\ Len(stage.plans) = 0
    BY <2>1
  <2> QED BY <1>3, <1>4, <2>2 DEF stage
<1> QED BY <1>4, <1>5, <1>6, <1>7 DEF Mode

(***************************************************************************)
(* The operations                                                          *)
(***************************************************************************)
Inv == QInv(disk, at, drawn, sent)

\* A directory in which only something else than the stage changed.
LEMMA OtherFile ==
  ASSUME NEW d, NEW dir, NEW used, NEW out, DirOK(d, dir, used, out), NEW value
  PROVE  \A x \in {[dir EXCEPT !.config = value], [dir EXCEPT !.tasks = value]} :
           /\ DirOK(d, x, used, out) /\ PlanIds(x) = PlanIds(dir)
           /\ (Begun(x) <=> Begun(dir)) /\ (IsNew(x) <=> IsNew(dir))
<1>1. SUFFICES ASSUME NEW x, x.stage = dir.stage, x.state = dir.state,
                      DOMAIN x = {"tasks", "stage", "config", "state"}
               PROVE  /\ DirOK(d, x, used, out) /\ PlanIds(x) = PlanIds(dir)
                      /\ (Begun(x) <=> Begun(dir)) /\ (IsNew(x) <=> IsNew(dir))
  BY DEF DirOK, IsDir
<1>2. /\ PlanIds(x) = PlanIds(dir)
      /\ (Begun(x) <=> Begun(dir)) /\ (IsNew(x) <=> IsNew(dir))
  BY <1>1 DEF PlanIds, Begun, IsNew
<1>3. IsDir(d, x) /\ Bound(x, out)
  BY <1>1, <1>2 DEF DirOK, IsDir, Bound
<1> QED BY <1>2, <1>3 DEF DirOK

LEMMA PlaceNow ==
  ASSUME Inv, NEW d \in Device
  PROVE  /\ at = [at EXCEPT ![d] = at[d]] /\ at[d] \in Places
         /\ disk = [disk EXCEPT ![d] = disk[d]]
         /\ IsLog(disk[d]) /\ Dir(d) = Latest(disk[d])
         /\ DirOK(d, Dir(d), drawn, sent) /\ Dir(d) \in Entries(disk[d])
         /\ at[d] \in {"config", "open", "work", "seal", "remove"} => Begun(Dir(d))
         /\ at[d] = "prepare" => IsNew(Dir(d))
         /\ at[d] = "work" => Len(disk[d]) = 1
         /\ None \in Places /\ Busy \subseteq Places
         /\ {"config", "open", "work", "seal", "remove"} \subseteq Busy
         /\ None \notin {"config", "open", "work", "seal", "remove", "prepare"}
<1>1. Dir(d) = Latest(disk[d])
  BY DEF Dir, Latest
<1>2. DirOK(d, Latest(disk[d]), drawn, sent) /\ Latest(disk[d]) \in Entries(disk[d])
  BY LatestOK DEF Inv
<1>3. /\ at \in [Device -> Places] /\ disk = [e \in Device |-> disk[e]] /\ IsLog(disk[d])
      /\ at[d] \in Busy => Begun(Latest(disk[d]))
      /\ at[d] = "prepare" => IsNew(Latest(disk[d]))
      /\ at[d] = "work" => Len(disk[d]) = 1
  BY DEF Inv, QInv
<1>4. /\ None \in Places /\ Busy \subseteq Places
      /\ Busy = {"config", "open", "work", "seal", "remove"}
      /\ None \notin {"config", "open", "work", "seal", "remove", "prepare"}
  BY PlacesDiffer DEF Places, Busy
<1>5. at = [at EXCEPT ![d] = at[d]] /\ at[d] \in Places /\ disk = [disk EXCEPT ![d] = disk[d]]
  BY <1>3
<1> QED BY <1>1, <1>2, <1>3, <1>4, <1>5

LEMMA GivesUpKeeps ==
  ASSUME Inv, NEW d \in Device, GivesUp(d) \/ Loses(d)
  PROVE  QInv(disk', at', drawn, sent)
<1>1. at' = [at EXCEPT ![d] = None] /\ disk' = disk
  BY DEF GivesUp, Loses
<1>2. None \in Places /\ None \notin Busy /\ None # "prepare" /\ None # "work"
  BY PlaceNow, PlacesDiffer
<1> QED BY <1>1, <1>2, PlaceStep DEF Inv

\* A save of a directory that is as it should be.
LEMMA SaveDirKeeps ==
  ASSUME Inv, NEW d \in Device, NEW more, drawn \subseteq more,
         NEW dir, DirOK(d, dir, more, sent),
         PlanIds(dir) \subseteq PlanIds(Dir(d)) \/ PlanIds(dir) \cap drawn = {},
         NEW saved \in SaveResult, NEW then \in Busy \cup {None}, then # None => Begun(dir),
         SaveDir(d, dir, saved, then)
  PROVE  QInv(disk', at', more, sent)
<1>1. /\ disk' = [disk EXCEPT ![d] = Saved(@, dir, saved)]
      /\ at' = [at EXCEPT ![d] = IF saved = "ok" THEN then ELSE None]
  BY DEF SaveDir
<1>2. Dir(d) = Latest(disk[d])
  BY PlaceNow
<1>3. QInv([disk EXCEPT ![d] = Saved(@, dir, saved)],
           [at EXCEPT ![d] = IF saved = "ok" THEN then ELSE None], more, sent)
  BY <1>2, SaveStep DEF Inv
<1> QED BY <1>1, <1>3

LEMMA LoadKeeps ==
  ASSUME Inv, NEW d \in Device, NEW mode, Load(d, mode)
  PROVE  Inv'
<1>1. /\ at' = [at EXCEPT ![d] = "prepare"] /\ IsNew(Dir(d))
      /\ UNCHANGED <<disk, sent, drawn>>
  BY DEF Load
<1>2. "prepare" \in Places /\ "prepare" \notin Busy /\ Dir(d) = Latest(disk[d])
  BY PlaceNow DEF Places, Busy
<1>3. QInv(disk, [at EXCEPT ![d] = "prepare"], drawn, sent)
  BY <1>1, <1>2, PlaceStep DEF Inv
<1> QED BY <1>1, <1>3 DEF Inv

LEMMA PrepareKeeps ==
  ASSUME Inv, Reading, NEW d \in Device, Prepare(d)
  PROVE  Inv'
<1> DEFINE stage == Stage(d)
           dir == [Dir(d) EXCEPT !.stage = stage]
<1>1. /\ loaded[d].mode \in Mode /\ loaded[d].tasks \in Files(d) /\ IsNew(Dir(d))
      /\ sent' = sent
  BY PlaceNow DEF Prepare, Reading
<1>2. CASE ~Enough(d) /\ GivesUp(d) /\ UNCHANGED drawn
  <2>1. QInv(disk', at', drawn, sent)
    BY <1>2, GivesUpKeeps
  <2> QED BY <1>1, <1>2, <2>1 DEF Inv
<1>3. CASE /\ Enough(d) /\ SaveStage(d, stage, "config")
           /\ drawn' = drawn \cup Fn!Range(Picked(TaskId, Len(Tasks(d))))
                             \cup {p.id : p \in Fn!Range(stage.plans)}
  <2>1. /\ DOMAIN stage = StageFields /\ stage.mode # None
        /\ DOMAIN stage.plans = 1..Len(stage.plans) /\ Len(stage.plans) \in Nat
        /\ stage.next = 0 /\ stage.confirmed = None
        /\ \A k \in DOMAIN stage.plans : stage.plans[k].id \notin drawn
    BY <1>1, <1>3, StageFresh
  <2> HIDE DEF stage
  <2>2. /\ drawn \subseteq drawn'
        /\ \A k \in DOMAIN stage.plans : stage.plans[k].id \in drawn'
    BY <1>3 DEF Fn!Range
  <2>3. CASE StageValid(stage)
    <3>1. PICK saved \in SaveResult : SaveDir(d, dir, saved, "config")
      BY <1>3, <2>3 DEF SaveStage
    <3>2. /\ dir.stage = stage /\ dir.state = NoJournal
          /\ DOMAIN dir = {"tasks", "stage", "config", "state"}
      BY <1>1, PlaceNow DEF DirOK, IsDir, IsNew
    <3> HIDE DEF dir
    <3>3. /\ Begun(dir) /\ IsDir(d, dir)
          /\ PlanIds(dir) \subseteq drawn' /\ PlanIds(dir) \cap drawn = {}
      BY <2>1, <2>2, <2>3, <3>2 DEF Begun, IsDir, IsStage, PlanIds
    <3>4. Bound(dir, sent)
      BY <2>1, <3>2 DEF Bound, Inv, QInv
    <3>5. "config" \in Busy
      BY PlaceNow
    <3>6. QInv(disk', at', drawn', sent)
      BY <2>2, <3>1, <3>3, <3>4, <3>5, SaveDirKeeps DEF DirOK
    <3> QED BY <1>1, <3>6 DEF Inv
  <2>4. CASE ~StageValid(stage)
    <3>1. GivesUp(d)
      BY <1>3, <2>4 DEF SaveStage
    <3>2. QInv(disk', at', drawn, sent)
      BY <3>1, GivesUpKeeps
    <3> QED BY <1>1, <2>2, <3>2, DrawStep DEF Inv
  <2> QED BY <2>3, <2>4
<1> QED BY <1>2, <1>3 DEF Prepare

LEMMA RestartKeeps ==
  ASSUME Inv, NEW d \in Device, Again(d) \/ ResumeSetup(d)
  PROVE  Inv'
<1>1. PICK place \in {"config", "open"} :
        /\ at' = [at EXCEPT ![d] = place] /\ Begun(Dir(d))
        /\ UNCHANGED <<disk, sent, drawn>>
  BY DEF Again, ResumeSetup
<1>2. QInv(disk, [at EXCEPT ![d] = place], drawn, sent)
  BY <1>1, PlaceNow, PlaceStep DEF Inv
<1> QED BY <1>1, <1>2 DEF Inv

LEMMA SaveConfigKeeps ==
  ASSUME Inv, NEW d \in Device, SaveConfig(d)
  PROVE  Inv'
<1> DEFINE dir == [Dir(d) EXCEPT !.config = TRUE]
<1>1. DirOK(d, dir, drawn, sent) /\ PlanIds(dir) = PlanIds(Dir(d)) /\ Begun(dir)
  BY PlaceNow, OtherFile DEF SaveConfig
<1>2. PICK saved \in SaveResult : SaveDir(d, dir, saved, "open")
  BY DEF SaveConfig
<1>3. "open" \in Busy /\ UNCHANGED <<drawn, sent>>
  BY PlaceNow DEF SaveConfig
<1> HIDE DEF dir
<1> QED BY <1>1, <1>2, <1>3, SaveDirKeeps DEF Inv

LEMMA VerifyKeeps ==
  ASSUME Inv, NEW d \in Device, Verify(d)
  PROVE  Inv'
<1> DEFINE log == <<Dir(d)>>
<1>1. UNCHANGED <<drawn, sent>> /\ at[d] = "open"
  BY DEF Verify
<1>2. CASE disk' = [disk EXCEPT ![d] = Synced(@)]
           /\ \E place \in {"work", None} : at' = [at EXCEPT ![d] = place]
  <2>1. PICK place \in {"work", None} : at' = [at EXCEPT ![d] = place]
    BY <1>2
  <2>2. disk' = [disk EXCEPT ![d] = log] /\ place \in Places
    BY <1>2, PlaceNow DEF Synced, Dir
  <2>3. /\ IsLog(log) /\ Len(log) = 1 /\ Latest(log) = Dir(d)
        /\ \A x \in Entries(log) : x \in Entries(disk[d])
    BY OneLog, PlaceNow
  <2>4. Begun(Dir(d))
    BY <1>1, PlaceNow
  <2> HIDE DEF log
  <2>5. QInv([disk EXCEPT ![d] = log], [at EXCEPT ![d] = place], drawn, sent)
    BY <2>2, <2>3, <2>4, PlacesDiffer, LogStep DEF Inv
  <2> QED BY <1>1, <2>1, <2>2, <2>5 DEF Inv
<1>3. CASE at' = [at EXCEPT ![d] = None] /\ UNCHANGED disk
  <2>1. QInv(disk, [at EXCEPT ![d] = None], drawn, sent)
    BY PlaceNow, PlacesDiffer, PlaceStep DEF Inv
  <2> QED BY <1>1, <1>3, <2>1 DEF Inv
<1> QED BY <1>2, <1>3 DEF Verify

\* The stage is bound: nothing of it was sent before.
LEMMA DiscoverKeeps ==
  ASSUME Inv, NEW d \in Device, NEW now, Discover(d, now)
  PROVE  Inv'
<1> DEFINE old == Dir(d).stage
<1>1. /\ at[d] = "work" /\ old.confirmed = None /\ UNCHANGED <<drawn, sent>>
      /\ \/ GivesUp(d) \/ Loses(d)
         \/ \E response : SaveStage(d, Discovered(old, response), "work")
  BY DEF Discover
<1>2. CASE GivesUp(d) \/ Loses(d)
  BY <1>1, <1>2, GivesUpKeeps DEF Inv
<1>3. CASE \E response : SaveStage(d, Discovered(old, response), "work")
  <2>1. PICK response : SaveStage(d, Discovered(old, response), "work")
    BY <1>3
  <2> DEFINE stage == Discovered(old, response)
             dir == [Dir(d) EXCEPT !.stage = stage]
  <2>2. CASE StageValid(stage)
    <3>1. PICK saved \in SaveResult : SaveDir(d, dir, saved, "work")
      BY <2>1, <2>2 DEF SaveStage
    <3>2. /\ Begun(Dir(d)) /\ IsDir(d, Dir(d)) /\ Bound(Dir(d), sent)
          /\ PlanIds(Dir(d)) \subseteq drawn /\ "work" \in Busy
      BY <1>1, PlaceNow DEF DirOK
    <3>3. /\ DOMAIN stage = StageFields /\ stage.plans = old.plans /\ stage.next = old.next
          /\ stage.mode = old.mode
      BY <3>2 DEF Discovered, IsDir, IsStage, StageFields
    <3> HIDE DEF stage
    <3>4. /\ dir.stage = stage /\ dir.state = Dir(d).state
          /\ DOMAIN dir = {"tasks", "stage", "config", "state"}
      BY <3>2 DEF IsDir
    <3> HIDE DEF dir
    <3>5. Begun(dir) /\ PlanIds(dir) = PlanIds(Dir(d))
      BY <3>2, <3>3, <3>4 DEF Begun, PlanIds
    <3>6. IsDir(d, dir)
      BY <1>1, <2>2, <3>2, <3>3, <3>4 DEF IsDir, IsStage
    <3>7. Bound(dir, sent)
      BY <1>1, <3>2, <3>3, <3>4 DEF Bound
    <3>8. QInv(disk', at', drawn, sent)
      BY <3>1, <3>2, <3>5, <3>6, <3>7, SaveDirKeeps DEF DirOK
    <3> QED BY <1>1, <3>8 DEF Inv
  <2>3. CASE ~StageValid(stage)
    <3>1. GivesUp(d)
      BY <2>1, <2>3 DEF SaveStage
    <3> QED BY <1>1, <3>1, GivesUpKeeps DEF Inv
  <2> QED BY <2>2, <2>3
<1> QED BY <1>1, <1>2, <1>3

\* The answer does not change what the stage was bound to.
LEMMA SettledBinds ==
  ASSUME NEW d, NEW dir, NEW used, NEW out, DirOK(d, dir, used, out), Begun(dir),
         Unsent(dir.stage), NEW command, NEW response,
         Answered(dir.stage, command, response),
         StageValid(Settled(dir.stage, command, response))
  PROVE  LET new == [dir EXCEPT !.stage = Settled(dir.stage, command, response)]
         IN DirOK(d, new, used, out) /\ Begun(new) /\ PlanIds(new) = PlanIds(dir)
<1> DEFINE old == dir.stage
           stage == Settled(old, command, response)
           new == [dir EXCEPT !.stage = stage]
<1>1. IsDir(d, dir) /\ IsStage(old) /\ old.confirmed # None /\ dir.state = NoJournal
  BY DEF DirOK, IsDir, Unsent
<1>2. /\ DOMAIN stage = StageFields /\ stage.plans = old.plans /\ stage.next = old.next + 1
      /\ stage.mode = old.mode /\ stage.confirmed = response.snapshot
  BY <1>1 DEF Settled, IsStage, StageFields
<1>3. stage.confirmed.generation = old.confirmed.generation
  BY <1>2 DEF Answered
<1>4. StageValid(stage)
  OBVIOUS
<1>5. stage.confirmed # None
  <2>1. stage.next # 0
    BY <1>1, <1>2 DEF IsStage
  <2> HIDE DEF stage
  <2>2. stage.confirmed = None => stage.next = 0
    BY <1>4 DEF StageValid
  <2> QED BY <2>1, <2>2
<1> HIDE DEF stage
<1>6. /\ new.stage = stage /\ new.state = NoJournal
      /\ DOMAIN new = {"tasks", "stage", "config", "state"}
  BY <1>1 DEF IsDir
<1> HIDE DEF new
<1>7. Begun(new) /\ PlanIds(new) = PlanIds(dir)
  BY <1>2, <1>6 DEF Begun, PlanIds
<1>8. IsDir(d, new)
  BY <1>1, <1>2, <1>4, <1>5, <1>6 DEF IsDir, IsStage
<1>9. Bound(new, out)
  BY <1>2, <1>3, <1>5, <1>6 DEF Bound, Bind, DirOK
<1> QED BY <1>7, <1>8, <1>9 DEF DirOK, new, stage

LEMMA PushKeeps ==
  ASSUME Inv, NEW d \in Device, NEW now, Push(d, now)
  PROVE  Inv'
<1> DEFINE stage == Dir(d).stage
           request == Request(d, stage)
<1>1. /\ at[d] = "work" /\ Unsent(stage) /\ drawn' = drawn /\ sent' = sent \cup {request}
      /\ \/ GivesUp(d) \/ Loses(d)
         \/ /\ Answered(stage, request.command, Response(request))
            /\ SaveStage(d, Settled(stage, request.command, Response(request)), "work")
  BY DEF Push
<1>2. /\ Dir(d) = Latest(disk[d]) /\ Begun(Dir(d)) /\ "work" \in Busy
      /\ None \in Places /\ None \notin Busy
  BY <1>1, PlaceNow, PlacesDiffer
<1>3. request.command = NextCommand(stage)
  BY DEF Request
<1> HIDE DEF request
<1>4. QInv(disk, at, drawn, sent')
  BY <1>1, <1>2, <1>3, SendStep DEF Inv
<1>6. CASE GivesUp(d) \/ Loses(d)
  <2>1. at' = [at EXCEPT ![d] = None] /\ UNCHANGED disk
    BY <1>6 DEF GivesUp, Loses
  <2>2. QInv(disk, [at EXCEPT ![d] = None], drawn, sent')
    BY <1>2, <1>4, PlacesDiffer, PlaceStep
  <2> QED BY <1>1, <2>1, <2>2 DEF Inv
<1>7. CASE /\ Answered(stage, request.command, Response(request))
           /\ SaveStage(d, Settled(stage, request.command, Response(request)), "work")
  <2> DEFINE new == Settled(stage, request.command, Response(request))
             dir == [Dir(d) EXCEPT !.stage = new]
  <2>1. CASE StageValid(new)
    <3>1. PICK saved \in SaveResult : SaveDir(d, dir, saved, "work")
      BY <1>7, <2>1 DEF SaveStage
    <3>2. DirOK(d, Dir(d), drawn, sent')
      BY <1>2, <1>4, LatestOK
    <3>3. DirOK(d, dir, drawn, sent') /\ Begun(dir) /\ PlanIds(dir) = PlanIds(Dir(d))
      BY <1>1, <1>2, <1>7, <2>1, <3>2, SettledBinds
    <3> HIDE DEF dir
    <3>4. QInv([disk EXCEPT ![d] = Saved(@, dir, saved)],
               [at EXCEPT ![d] = IF saved = "ok" THEN "work" ELSE None], drawn, sent')
      BY <1>2, <1>4, <3>3, SaveStep
    <3> QED BY <1>1, <3>1, <3>4 DEF SaveDir, Inv
  <2>2. CASE ~StageValid(new)
    <3>1. GivesUp(d)
      BY <1>7, <2>2 DEF SaveStage
    <3> QED BY <1>6, <3>1
  <2> QED BY <2>1, <2>2
<1> QED BY <1>1, <1>6, <1>7

LEMMA ActivateKeeps ==
  ASSUME Inv, NEW d \in Device, Activate(d)
  PROVE  Inv'
<1> DEFINE stage == Dir(d).stage
           envelope == Activation(d, stage)
           dir == [Dir(d) EXCEPT !.state = envelope]
<1>1. /\ at[d] = "work" /\ stage.confirmed # None /\ ~Unsent(stage) /\ UNCHANGED <<drawn, sent>>
      /\ \/ GivesUp(d)
         \/ at' = [at EXCEPT ![d] = "seal"] /\ UNCHANGED disk
         \/ \E saved \in SaveResult : SaveDir(d, dir, saved, "seal")
  BY DEF Activate
<1>2. /\ Begun(Dir(d)) /\ DirOK(d, Dir(d), drawn, sent) /\ Dir(d) = Latest(disk[d])
      /\ "seal" \in Busy /\ Busy \subseteq Places /\ "seal" # "work"
  BY <1>1, PlaceNow
<1>3. CASE GivesUp(d)
  BY <1>1, <1>3, GivesUpKeeps DEF Inv
<1>4. CASE at' = [at EXCEPT ![d] = "seal"] /\ UNCHANGED disk
  <2>1. QInv(disk, [at EXCEPT ![d] = "seal"], drawn, sent)
    BY <1>2, PlaceStep DEF Inv
  <2> QED BY <1>1, <1>4, <2>1 DEF Inv
<1>5. CASE \E saved \in SaveResult : SaveDir(d, dir, saved, "seal")
  <2>1. PICK saved \in SaveResult : SaveDir(d, dir, saved, "seal")
    BY <1>5
  <2> HIDE DEF envelope
  <2>2. /\ dir.stage = stage /\ dir.state = envelope
        /\ DOMAIN dir = {"tasks", "stage", "config", "state"}
    BY <1>2 DEF DirOK, IsDir
  <2> HIDE DEF dir
  <2>3. IsDir(d, dir)
    BY <1>1, <1>2, <2>2 DEF DirOK, IsDir, envelope
  <2>4. Begun(dir) /\ PlanIds(dir) = PlanIds(Dir(d))
    BY <1>2, <2>2 DEF Begun, PlanIds
  <2>5. Bound(dir, sent)
    BY <1>2, <2>2, <2>4 DEF DirOK, Bound
  <2>6. DirOK(d, dir, drawn, sent)
    BY <1>2, <2>3, <2>4, <2>5 DEF DirOK
  <2>7. QInv(disk', at', drawn, sent)
    BY <1>2, <2>1, <2>4, <2>6, SaveDirKeeps
  <2> QED BY <1>1, <2>7 DEF Inv
<1> QED BY <1>1, <1>3, <1>4, <1>5

LEMMA SealKeeps ==
  ASSUME Inv, NEW d \in Device, Seal(d)
  PROVE  Inv'
<1> DEFINE dir == [Dir(d) EXCEPT !.tasks = Sentinel]
<1>1. DirOK(d, dir, drawn, sent) /\ PlanIds(dir) = PlanIds(Dir(d)) /\ Begun(dir)
  BY PlaceNow, OtherFile DEF Seal
<1>2. PICK saved \in SaveResult : SaveDir(d, dir, saved, "remove")
  BY DEF Seal
<1>3. "remove" \in Busy /\ UNCHANGED <<drawn, sent>>
  BY PlaceNow DEF Seal
<1> HIDE DEF dir
<1> QED BY <1>1, <1>2, <1>3, SaveDirKeeps DEF Inv

LEMMA RemoveKeeps ==
  ASSUME Inv, NEW d \in Device, Remove(d)
  PROVE  Inv'
<1> DEFINE dir == [Dir(d) EXCEPT !.stage = NoStage]
<1>1. ~Begun(dir) /\ DOMAIN dir = {"tasks", "stage", "config", "state"}
  BY PlaceNow DEF Begun, NoStage, DirOK, IsDir
<1>2. PICK saved \in SaveResult : SaveDir(d, dir, saved, None)
  BY DEF Remove
<1>3. UNCHANGED <<drawn, sent>>
  BY DEF Remove
<1> HIDE DEF dir
<1>4. DirOK(d, dir, drawn, sent) /\ PlanIds(dir) = {}
  BY <1>1 DEF DirOK, IsDir, PlanIds, Bound
<1>5. QInv(disk', at', drawn, sent)
  BY <1>2, <1>3, <1>4, SaveDirKeeps
<1> QED BY <1>3, <1>5 DEF Inv

\* A step that leaves one directory, made durable.
LEMMA OneDirKeeps ==
  ASSUME Inv, NEW d \in Device, NEW dir, NEW place \in Places,
         place \in Busy => Begun(dir), place = "prepare" => IsNew(dir),
         disk' = [disk EXCEPT ![d] = <<dir>>], at' = [at EXCEPT ![d] = place],
         drawn \subseteq drawn', sent' = sent,
         \/ dir \in Entries(disk[d])
         \/ DirOK(d, dir, drawn', sent) /\ PlanIds(dir) \subseteq PlanIds(Dir(d))
  PROVE  Inv'
<1> DEFINE log == <<dir>>
<1>1. IsLog(log) /\ Entries(log) = {dir} /\ Latest(log) = dir /\ Len(log) = 1
  BY OneLog
<1>2. Dir(d) = Latest(disk[d])
  BY PlaceNow
<1>3. disk' = [disk EXCEPT ![d] = log]
  OBVIOUS
<1> HIDE DEF log
<1>4. QInv([disk EXCEPT ![d] = log], [at EXCEPT ![d] = place], drawn', sent)
  BY <1>1, <1>2, LogStep DEF Inv
<1> QED BY <1>3, <1>4 DEF Inv

LEMMA AppKeeps ==
  ASSUME Inv, NEW d \in Device, NEW now, App(d, now)
  PROVE  Inv'
<1>1. PICK env : /\ disk' = [disk EXCEPT ![d] = <<[Dir(d) EXCEPT !.state = env]>>]
                 /\ at[d] = None /\ ~Begun(Dir(d)) /\ UNCHANGED <<at, sent>>
                 /\ drawn \subseteq drawn'
  <2>1. at[d] = None /\ ~Begun(Dir(d)) /\ UNCHANGED <<at, sent>> /\ drawn \subseteq drawn'
    BY DEF App, Unlocked, Starts
  <2>2. \E env : disk' = [disk EXCEPT ![d] = <<[Dir(d) EXCEPT !.state = env]>>]
    BY DEF App
  <2> QED BY <2>1, <2>2
<1> DEFINE dir == [Dir(d) EXCEPT !.state = env]
<1>2. DirOK(d, Dir(d), drawn', sent)
  BY <1>1, PlaceNow DEF DirOK
<1>3. DirOK(d, dir, drawn', sent) /\ PlanIds(dir) = {}
  <2>1. ~Begun(dir) /\ DOMAIN dir = {"tasks", "stage", "config", "state"}
    BY <1>1, <1>2 DEF Begun, DirOK, IsDir
  <2> HIDE DEF dir
  <2> QED BY <2>1 DEF DirOK, IsDir, PlanIds, Bound
<1>4. /\ at' = [at EXCEPT ![d] = None] /\ None \in Places
      /\ None \notin Busy /\ None # "prepare"
  BY <1>1, PlaceNow, PlacesDiffer
<1> HIDE DEF dir
<1> QED BY <1>1, <1>3, <1>4, OneDirKeeps DEF dir

LEMMA OldEditKeeps ==
  ASSUME Inv, NEW d \in Device, OldEdit(d)
  PROVE  Inv'
<1> DEFINE edited == Queue(newest[d].tasks.size + 1)
           dir == [Dir(d) EXCEPT !.tasks = edited]
<1>1. disk' = [disk EXCEPT ![d] = <<dir>>] /\ UNCHANGED <<at, drawn, sent>>
  BY DEF OldEdit
<1> HIDE DEF edited
<1>2. /\ DirOK(d, dir, drawn, sent) /\ PlanIds(dir) = PlanIds(Dir(d))
      /\ (Begun(dir) <=> Begun(Dir(d))) /\ (IsNew(dir) <=> IsNew(Dir(d)))
  BY PlaceNow, OtherFile
<1>3. /\ at' = [at EXCEPT ![d] = at[d]] /\ at[d] \in Places
      /\ at[d] \in Busy => Begun(Dir(d))
      /\ at[d] = "prepare" => IsNew(Dir(d))
  BY <1>1, PlaceNow DEF Busy
<1> HIDE DEF dir
<1> QED BY <1>1, <1>2, <1>3, OneDirKeeps

LEMMA DieKeeps ==
  ASSUME Inv, NEW d \in Device, Die(d)
  PROVE  Inv'
<1>1. at' = [at EXCEPT ![d] = None] /\ UNCHANGED <<drawn, sent>>
  BY DEF Die
<1>2. CASE UNCHANGED disk
  <2>1. QInv(disk, [at EXCEPT ![d] = None], drawn, sent)
    BY PlaceNow, PlacesDiffer, PlaceStep DEF Inv
  <2> QED BY <1>1, <1>2, <2>1 DEF Inv
<1>3. CASE \E dir \in Fn!Range(disk[d]) : disk' = [disk EXCEPT ![d] = <<dir>>]
  <2>1. PICK dir \in Entries(disk[d]) : disk' = [disk EXCEPT ![d] = <<dir>>]
    BY <1>3 DEF Entries, Fn!Range
  <2>2. None \in Places /\ None \notin Busy /\ None # "prepare"
    BY PlaceNow, PlacesDiffer
  <2> QED BY <1>1, <2>1, <2>2, OneDirKeeps
<1> QED BY <1>2, <1>3 DEF Die

(***************************************************************************)
(* The specification                                                       *)
(***************************************************************************)
LEMMA InitInv == Init => Inv
<1> SUFFICES ASSUME Init PROVE Inv
  OBVIOUS
<1>1. PICK dir : /\ disk = [d \in Device |-> <<dir[d]>>]
                 /\ \A d \in Device : /\ DOMAIN dir[d] = {"tasks", "stage", "config", "state"}
                                      /\ ~Begun(dir[d])
  <2> DEFINE first == [d \in Device |-> [tasks |-> newest[d].tasks, stage |-> NoStage,
                                         config |-> FALSE, state |-> NoJournal]]
  <2>1. \A d \in Device : /\ DOMAIN first[d] = {"tasks", "stage", "config", "state"}
                          /\ ~Begun(first[d])
    BY DEF Begun, NoStage
  <2>2. disk = [d \in Device |-> <<first[d]>>]
    BY DEF Init
  <2> HIDE DEF first
  <2> QED BY <2>1, <2>2
<1>2. at = [d \in Device |-> None] /\ sent = {} /\ drawn = {}
  BY DEF Init
<1>3. \A d \in Device : DirOK(d, dir[d], drawn, sent) /\ PlanIds(dir[d]) = {}
  BY <1>1 DEF DirOK, IsDir, PlanIds, Bound
<1>4. \A d \in Device : IsLog(disk[d]) /\ Entries(disk[d]) = {dir[d]}
  BY <1>1, OneLog
<1>5. at \in [Device -> Places] /\ None # "work" /\ None # "prepare" /\ None \notin Busy
  BY <1>2, PlacesDiffer DEF Places, Busy
<1>6. \A d \in Device : Len(disk[d]) = 1
  BY <1>1, OneLog
<1>7. /\ disk = [d \in Device |-> disk[d]]
      /\ \A d \in Device : \A x \in Entries(disk[d]) : DirOK(d, x, drawn, sent) /\ PlanIds(x) = {}
      /\ \A d \in Device : at[d] = None
  BY <1>1, <1>2, <1>3, <1>4
<1> QED BY <1>2, <1>4, <1>5, <1>6, <1>7 DEF Inv, QInv

LEMMA NextInv == Inv /\ Reading /\ [Next]_vars => Inv'
<1> SUFFICES ASSUME Inv, Reading, [Next]_vars PROVE Inv'
  OBVIOUS
<1>1. ASSUME NEW d \in Device, NEW mode \in Choices[d], Load(d, mode) PROVE Inv'
  BY <1>1, LoadKeeps
<1>2. ASSUME NEW d \in Device, Again(d) \/ ResumeSetup(d) PROVE Inv'
  BY <1>2, RestartKeeps
<1>3. ASSUME NEW d \in Device, Step(d) PROVE Inv'
  BY <1>3, PrepareKeeps, SaveConfigKeeps, VerifyKeeps, DiscoverKeeps, PushKeeps, ActivateKeeps,
     SealKeeps, RemoveKeeps DEF Step
<1>4. ASSUME NEW d \in Device, OldEdit(d) \/ Die(d) PROVE Inv'
  BY <1>4, OldEditKeeps, DieKeeps
<1>5. ASSUME NEW d \in Device, NEW now \in 0..MaxTime, App(d, now) PROVE Inv'
  BY <1>5, AppKeeps
<1>6. ASSUME UNCHANGED setup PROVE Inv'
  BY <1>6 DEF setup, Inv
<1>7. CASE (\E now \in 0..MaxTime : Arrive(now)) \/ Operate \/ UNCHANGED vars
  BY <1>6, <1>7 DEF Arrive, Operate, vars
<1> QED BY <1>1, <1>2, <1>3, <1>4, <1>5, <1>7 DEF Next

(***************************************************************************)
(* Where titles come from                                                  *)
(***************************************************************************)
OwnTitles(d) == {Local[d][n].title : n \in DOMAIN Local[d]}
LocalTitles == UNION {OwnTitles(d) : d \in Device}

\* A command, or a plan of one, that brings a title in.
Brings(c, title) ==
  \/ c.action.op = "Create" /\ c.action.title = title
  \/ c.action.op = "Initialize" /\ \E i \in DOMAIN c.action.seeds : c.action.seeds[i].title = title

Commands(out) == {r.command : r \in out}

\* What setup and the app ask for; whatever brings in a local title was sent.
Ordinary(c, out) ==
  /\ c \in Command /\ c.guard = None /\ c.action.op \in {"Create", "Initialize", "Delete"}
  /\ \A title \in LocalTitles : Brings(c, title) => c \in Commands(out)

\* Each local title is sent under one identity, by its own device.
Single(out) ==
  /\ \A r \in out : /\ r.device \in Device /\ Ordinary(r.command, out)
                    /\ \A title \in LocalTitles :
                         Brings(r.command, title) => title \in OwnTitles(r.device)
  /\ \A r, s \in out : \A title \in LocalTitles :
       Brings(r.command, title) /\ Brings(s.command, title) => r.command.id = s.command.id

\* A local title came into the history with the commands that bring it, and is in
\* the queue only if one did.
Told(st, rc, out) ==
  LET c == st.snapshot.history
  IN /\ c[Len(c)].result.task = st.snapshot.task
     /\ \A x \in DOMAIN rc : rc[x].command.id = x /\ Ordinary(rc[x].command, out)
     /\ \A title \in LocalTitles :
          /\ \A i \in DOMAIN c :
               title \in Brought(c, i) <=> c[i].by \in DOMAIN rc /\ Brings(rc[c[i].by].command, title)
          /\ title \in TitlesIn(st.snapshot) => \E x \in DOMAIN rc : Brings(rc[x].command, title)

LEMMA OrdinaryStays ==
  ASSUME NEW c, NEW out, Ordinary(c, out), NEW more, out \subseteq more
  PROVE  Ordinary(c, more)
BY DEF Ordinary, Commands

LEMMA ToldStays ==
  ASSUME NEW st, NEW rc, NEW out, Told(st, rc, out), NEW more, out \subseteq more
  PROVE  Told(st, rc, more)
BY OrdinaryStays DEF Told

\* The tasks after a creation, and after a removal.
Grown(tasks, a, id, now) ==
  [u \in DOMAIN tasks \cup {a.task} |->
     IF u = a.task THEN [title |-> a.title, tag |-> a.tag, bucket |-> a.bucket,
                         created |-> now, versions |-> Versions(id)]
     ELSE tasks[u]]
Shrunk(tasks, a) == [u \in DOMAIN tasks \ {a.task} |-> tasks[u]]

LEMMA MadeTask ==
  ASSUME NEW e, StateShape(e), Shape(e.snapshot), NEW a, NEW id, NEW now
  PROVE  LET m == CreateTask(e, id, a.task, a.title, a.tag, a.bucket, now)
         IN m.snapshot.task = Grown(e.snapshot.task, a, id, now)
BY DEF CreateTask, Grown, StateShape, Shape

LEMMA DroppedTask ==
  ASSUME NEW e, StateShape(e), Shape(e.snapshot), NEW a
  PROVE  LET m == [e EXCEPT !.snapshot = Drop(@, a.task)]
         IN m.snapshot.task = Shrunk(e.snapshot.task, a)
<1> DEFINE s == Drop(e.snapshot, a.task)
<1>1. s.task = Shrunk(e.snapshot.task, a)
  BY DEF Drop, Shrunk, Shape
<1> HIDE DEF s
<1>2. [e EXCEPT !.snapshot = s].snapshot = s
  BY DEF StateShape
<1> QED BY <1>1, <1>2 DEF s

LEMMA SeededTasks ==
  ASSUME NEW e, StateShape(e), Shape(e.snapshot), NEW id, NEW a, NEW now,
         \A i, j \in DOMAIN a.seeds : a.seeds[i].id = a.seeds[j].id => i = j
  PROVE  LET tasks == Initialize(e, id, a, now).snapshot.task
         IN /\ \A i \in DOMAIN a.seeds : /\ a.seeds[i].id \in DOMAIN tasks
                                         /\ tasks[a.seeds[i].id].title = a.seeds[i].title
            /\ \A t \in DOMAIN tasks : \E i \in DOMAIN a.seeds : t = a.seeds[i].id
<1> DEFINE ids == [i \in DOMAIN a.seeds |-> a.seeds[i].id]
           SeedOf(t) == a.seeds[CHOOSE i \in DOMAIN ids : ids[i] = t]
           task == [t \in {ids[i] : i \in DOMAIN ids} |->
                      [title |-> SeedOf(t).title, tag |-> SeedOf(t).tag,
                       bucket |-> SeedOf(t).bucket, created |-> SeedOf(t).created,
                       versions |-> Versions(id)]]
           session == IF a.timer = None THEN None
                      ELSE [id |-> id, task |-> ids[Least(SeedsIn(a.seeds, "now"))],
                            elapsed |-> a.timer.elapsed,
                            running |-> a.timer.running, anchor |-> now]
           taken == {ids[i] : i \in DOMAIN ids}
           m == [e EXCEPT !.used = @ \cup taken,
                          !.snapshot.initialized = TRUE,
                          !.snapshot.order = ids,
                          !.snapshot.task = task,
                          !.snapshot.focus = [version |-> id, session |-> session]]
<1>1. Initialize(e, id, a, now) = m
  BY DEF Initialize
<1>2. /\ DOMAIN task = taken
      /\ \A t \in DOMAIN task : task[t].title = SeedOf(t).title
  <2> HIDE DEF SeedOf, taken
  <2> QED BY DEF taken
<1>3. m.snapshot.task = task
  <2> HIDE DEF task, session, ids, taken
  <2> QED BY DEF StateShape, Shape
<1>4. \A i \in DOMAIN a.seeds : SeedOf(a.seeds[i].id) = a.seeds[i] /\ a.seeds[i].id \in taken
  OBVIOUS
<1>5. \A t \in taken : \E i \in DOMAIN a.seeds : t = a.seeds[i].id
  OBVIOUS
<1> HIDE DEF m, task, SeedOf, taken, ids
<1>6. \A i \in DOMAIN a.seeds : /\ a.seeds[i].id \in DOMAIN task
                               /\ task[a.seeds[i].id].title = a.seeds[i].title
  BY <1>2, <1>4
<1>7. \A t \in DOMAIN task : \E i \in DOMAIN a.seeds : t = a.seeds[i].id
  BY <1>2, <1>5
<1> QED BY <1>1, <1>3, <1>6, <1>7

\* The titles after an accepted command are those before it and those it brings.
LEMMA TitlesMade ==
  ASSUME NEW st, Sound(st), NEW c, NEW out, Ordinary(c, out), NEW now \in Nat,
         Refusal(st, c, now) = None, NEW title
  PROVE  LET r == Apply(st, c, now)
         IN /\ Brings(c, title) => title \in TitlesIn(r.snapshot)
            /\ title \in TitlesIn(r.snapshot) => title \in TitlesIn(st.snapshot) \/ Brings(c, title)
<1> DEFINE a == c.action
           e == [st EXCEPT !.undo = NoUndo, !.snapshot.undo = None]
           m == Reduce(st, c, now)
           r == Apply(st, c, now)
<1>1. /\ c \in Command /\ ~IsFocus(c) /\ ~IsUndo(c) /\ a.op \in {"Create", "Initialize", "Delete"}
  BY DEF Ordinary, IsFocus, IsUndo
<1>3. StateShape(e) /\ Shape(e.snapshot) /\ e.snapshot.task = st.snapshot.task
  <2>1. StateShape(st) /\ Shape(st.snapshot)
    BY SoundFacts DEF Listed, IsBody, Shape
  <2>2. StateShape(e) /\ Listed(e.snapshot)
    BY Cleared, Zenon
  <2>3. e.snapshot.task = st.snapshot.task
    <3> DEFINE s == [st.snapshot EXCEPT !.undo = None]
    <3>1. e.snapshot = s
      BY <2>1 DEF StateShape
    <3>2. s.task = st.snapshot.task
      BY <2>1 DEF Shape
    <3> HIDE DEF e, s
    <3> QED BY <3>1, <3>2
  <2> HIDE DEF e
  <2> QED BY <2>2, <2>3 DEF Listed, IsBody, Shape
<1>4. m = IF a.op = "Initialize" THEN Initialize(e, c.id, a, now)
          ELSE QueuedEffect(e, c.id, a, now)
  BY <1>1 DEF Reduce
<1> HIDE DEF e
<1>5. /\ a.op = "Create" => m.snapshot.task = Grown(st.snapshot.task, a, c.id, now)
      /\ a.op = "Delete" => m.snapshot.task = Shrunk(st.snapshot.task, a)
  <2>1. CASE a.op = "Create"
    <3>1. m = CreateTask(e, c.id, a.task, a.title, a.tag, a.bucket, now)
      BY <1>4, <2>1 DEF QueuedEffect
    <3> HIDE DEF m
    <3> QED BY <1>3, <2>1, <3>1, MadeTask
  <2>2. CASE a.op = "Delete"
    <3>1. m = [e EXCEPT !.snapshot = Drop(@, a.task)]
      BY <1>4, <2>2 DEF QueuedEffect
    <3> HIDE DEF m
    <3> QED BY <1>3, <2>2, <3>1, DroppedTask
  <2> QED BY <2>1, <2>2
<1>6. r.snapshot.task = m.snapshot.task
  <2>1. StateShape(m) /\ Shape(m.snapshot)
    BY <1>1, ReduceFacts DEF Base, Listed, IsBody, Shape
  <2> HIDE DEF m
  <2> QED BY <2>1 DEF Apply, m, StateShape, Shape
<1>7. CASE a.op = "Create"
  <2> HIDE DEF m, r
  <2>1. /\ DOMAIN r.snapshot.task = DOMAIN st.snapshot.task \cup {a.task}
        /\ r.snapshot.task[a.task].title = a.title
        /\ \A u \in DOMAIN st.snapshot.task \ {a.task} : r.snapshot.task[u] = st.snapshot.task[u]
    BY <1>5, <1>6, <1>7 DEF Grown
  <2> QED BY <1>7, <2>1 DEF TitlesIn, Live, Brings, r
<1>8. CASE a.op = "Delete"
  <2> HIDE DEF m, r
  <2>1. /\ DOMAIN r.snapshot.task = DOMAIN st.snapshot.task \ {a.task}
        /\ \A u \in DOMAIN st.snapshot.task \ {a.task} : r.snapshot.task[u] = st.snapshot.task[u]
    BY <1>5, <1>6, <1>8 DEF Shrunk
  <2> QED BY <1>8, <2>1 DEF TitlesIn, Live, Brings, r
<1>9. CASE a.op = "Initialize"
  <2>1. Refusal(st, c, now) = Require(c.generation = st.snapshot.generation, "WrongDataset")
                              ?? InitializeRefusal(st, a)
    BY <1>9 DEF Refusal
  <2>2. \A i, j \in DOMAIN a.seeds : a.seeds[i].id = a.seeds[j].id => i = j
    <3>1. \A x, y : (x ?? y) = None => x = None /\ y = None
      BY DEF ??
    <3>2. InitializeRefusal(st, a) = None
      BY <2>1, <3>1
    <3>3. "Conflict" # None
      BY DistinctValues DEF Reason
    <3> QED BY <3>1, <3>2, <3>3 DEF InitializeRefusal, Require
  <2>3. /\ \A i \in DOMAIN a.seeds : /\ a.seeds[i].id \in DOMAIN m.snapshot.task
                                    /\ m.snapshot.task[a.seeds[i].id].title = a.seeds[i].title
        /\ \A t \in DOMAIN m.snapshot.task : \E i \in DOMAIN a.seeds : t = a.seeds[i].id
    <3>1. m = Initialize(e, c.id, a, now)
      BY <1>4, <1>9
    <3> HIDE DEF m
    <3> QED BY <1>3, <2>2, <3>1, SeededTasks
  <2> HIDE DEF m, r
  <2>4. Brings(c, title) <=> \E i \in DOMAIN a.seeds : a.seeds[i].title = title
    BY <1>9 DEF Brings
  <2>5. title \in TitlesIn(r.snapshot) <=> \E t \in DOMAIN m.snapshot.task : m.snapshot.task[t].title = title
    BY <1>6 DEF TitlesIn, Live
  <2> HIDE DEF a
  <2> QED BY <2>3, <2>4, <2>5 DEF r
<1> QED BY <1>1, <1>7, <1>8, <1>9

(***************************************************************************)
(* What the server tells                                                   *)
(***************************************************************************)
\* One link more: it brought what its result has and the queue did not have.
Lengthened(h, by, s, g) ==
  /\ Len(h) \in Nat /\ Len(g) = Len(h) + 1
  /\ DOMAIN h = 1..Len(h) /\ DOMAIN g = 1..(Len(h) + 1)
  /\ \A i \in DOMAIN h : g[i] = h[i] /\ Brought(g, i) = Brought(h, i)
  /\ g[Len(h) + 1].by = by /\ g[Len(h) + 1].result.task = s.task
  /\ \A title : title \in Brought(g, Len(h) + 1) <=>
       title \in TitlesIn(s) /\ title \notin TitlesIn(h[Len(h)].result)

LEMMA BroughtMore ==
  ASSUME NEW h, IsChain(h), Len(h) # 0, NEW g, NEW by \in Token, NEW s, IsBody(s),
         g = Append(h, Link(by, s))
  PROVE  Lengthened(h, by, s, g)
<1> DEFINE l == Link(by, s)
<1>1. /\ Len(h) \in Nat /\ Len(g) = Len(h) + 1
      /\ DOMAIN h = 1..Len(h) /\ DOMAIN g = 1..(Len(h) + 1)
      /\ \A i \in DOMAIN h : g[i] = h[i]
      /\ g[Len(h) + 1] = l
  BY Linked
<1>2. l.by = by /\ l.result.task = s.task
  BY DEF Link, IsBody
<1> HIDE DEF l
<1>3. TitlesIn(l.result) = TitlesIn(s)
  BY <1>2 DEF TitlesIn, Live
<1>4. \A i \in DOMAIN h : Brought(g, i) = Brought(h, i)
  <2> SUFFICES ASSUME NEW i \in DOMAIN h, i # 1 PROVE Brought(g, i) = Brought(h, i)
    BY DEF Brought
  <2>1. i - 1 \in DOMAIN h
    BY <1>1
  <2> QED BY <1>1, <2>1 DEF Brought
<1>5. Len(h) + 1 # 1 /\ Len(h) + 1 - 1 = Len(h) /\ Len(h) \in DOMAIN h
  BY <1>1
<1>6. Brought(g, Len(h) + 1) = TitlesIn(s) \ TitlesIn(h[Len(h)].result)
  BY <1>1, <1>3, <1>5 DEF Brought
<1> QED BY <1>1, <1>2, <1>4, <1>6 DEF Lengthened

LEMMA ChainStarted ==
  ASSUME NEW st, NEW h, NEW rc, NEW known, Good(st, h, rc, known)
  PROVE  /\ IsChain(st.snapshot.history) /\ Len(st.snapshot.history) \in Nat \ {0}
         /\ DOMAIN st.snapshot.history = 1..Len(st.snapshot.history)
<1> DEFINE c == st.snapshot.history
<1>1. IsChain(c)
  BY SoundFacts DEF Good
<1>2. Len(c) \in Nat /\ DOMAIN c = 1..Len(c)
  BY <1>1, ChainLength
<1>3. Len(c) \in 1..Len(c)
  BY DEF Good, Ancestry
<1> QED BY <1>1, <1>2, <1>3

\* The receipts after a command was executed.
Recorded(rc, c, rc2) ==
  /\ DOMAIN rc2 = DOMAIN rc \cup {c.id} /\ rc2[c.id].command = c
  /\ \A x \in DOMAIN rc : rc2[x] = rc[x]

LEMMA ToldReceipts ==
  ASSUME NEW rc, NEW out, \A x \in DOMAIN rc : rc[x].command.id = x /\ Ordinary(rc[x].command, out),
         NEW c, Ordinary(c, out), c.id \notin DOMAIN rc, NEW rc2, Recorded(rc, c, rc2)
  PROVE  \A x \in DOMAIN rc2 : rc2[x].command.id = x /\ Ordinary(rc2[x].command, out)
BY DEF Recorded

LEMMA ToldReject ==
  ASSUME NEW st, NEW h, NEW rc, NEW known, Good(st, h, rc, known), NEW out, Told(st, rc, out),
         NEW c, Ordinary(c, out), c.id \notin DOMAIN rc, NEW rc2, Recorded(rc, c, rc2)
  PROVE  Told(st, rc2, out)
<1> DEFINE g == st.snapshot.history
<1>1. \A i \in DOMAIN g : g[i].by # c.id
  BY CommandKinds DEF Ordinary, Good, OneEffect
<1>2. \A x \in DOMAIN rc2 : rc2[x].command.id = x /\ Ordinary(rc2[x].command, out)
  BY ToldReceipts DEF Told
<1>3. ASSUME NEW title \in LocalTitles, NEW i \in DOMAIN g
      PROVE  title \in Brought(g, i) <=> g[i].by \in DOMAIN rc2 /\ Brings(rc2[g[i].by].command, title)
  BY <1>1 DEF Told, Recorded
<1>4. ASSUME NEW title \in LocalTitles, title \in TitlesIn(st.snapshot)
      PROVE  \E x \in DOMAIN rc2 : Brings(rc2[x].command, title)
  BY <1>4 DEF Told, Recorded
<1>5. g[Len(g)].result.task = st.snapshot.task
  BY DEF Told
<1> QED BY <1>2, <1>3, <1>4, <1>5 DEF Told

LEMMA ToldApply ==
  ASSUME NEW st, NEW h, NEW rc, NEW known, Good(st, h, rc, known), NEW out, Told(st, rc, out),
         Single(out), NEW c, Ordinary(c, out), c.id \notin DOMAIN rc,
         NEW now \in Nat, Refusal(st, c, now) = None, NEW rc2, Recorded(rc, c, rc2)
  PROVE  Told(Apply(st, c, now), rc2, out)
<1> DEFINE r == Apply(st, c, now)
           old == st.snapshot.history
           new == r.snapshot.history
<1>1. Sound(st) /\ c \in Command /\ c.id \in CommandId /\ c.id \in Token
  BY CommandKinds DEF Good, Ordinary
<1>2. Sound(r) /\ new = Append(old, Link(c.id, r.snapshot))
  BY <1>1, ApplySound
<1>3. IsBody(r.snapshot)
  BY <1>2 DEF Sound, IsState, IsSnapshot
<1>4. IsChain(old) /\ Len(old) # 0
  BY ChainStarted
<1>5. \A title : /\ Brings(c, title) => title \in TitlesIn(r.snapshot)
                 /\ title \in TitlesIn(r.snapshot) => title \in TitlesIn(st.snapshot) \/ Brings(c, title)
  BY <1>1, TitlesMade
<1> HIDE DEF r, old, new
<1>6. Lengthened(old, c.id, r.snapshot, new)
  BY <1>1, <1>2, <1>3, <1>4, BroughtMore
<1>7. TitlesIn(old[Len(old)].result) = TitlesIn(st.snapshot)
  BY DEF Told, TitlesIn, Live, old
<1>8. \A i \in DOMAIN old : old[i].by # c.id
  BY <1>1 DEF Good, OneEffect, old
<1>9. \A x \in DOMAIN rc2 : rc2[x].command.id = x /\ Ordinary(rc2[x].command, out)
  BY ToldReceipts DEF Told
<1>10. ASSUME NEW title \in LocalTitles, Brings(c, title), title \in TitlesIn(st.snapshot)
       PROVE  FALSE
  <2>1. PICK x \in DOMAIN rc : Brings(rc[x].command, title)
    BY <1>10 DEF Told
  <2>2. rc[x].command.id = x /\ rc[x].command \in Commands(out) /\ c \in Commands(out)
    BY <1>10, <2>1 DEF Told, Ordinary
  <2>3. x = c.id
    BY <1>10, <2>1, <2>2 DEF Single, Commands
  <2> QED BY <2>3
<1>11. ASSUME NEW title \in LocalTitles, NEW i \in DOMAIN new
       PROVE  title \in Brought(new, i) <=> new[i].by \in DOMAIN rc2 /\ Brings(rc2[new[i].by].command, title)
  <2>1. CASE i \in DOMAIN old
    <3>1. title \in Brought(old, i) <=> old[i].by \in DOMAIN rc /\ Brings(rc[old[i].by].command, title)
      BY <2>1 DEF Told, old
    <3> QED BY <1>6, <1>8, <2>1, <3>1 DEF Recorded, Lengthened
  <2>2. CASE i = Len(old) + 1
    <3>1. title \in Brought(new, i) <=> Brings(c, title)
      BY <1>5, <1>6, <1>7, <1>10, <2>2 DEF Lengthened
    <3> QED BY <1>6, <2>2, <3>1 DEF Recorded, Lengthened
  <2> QED BY <1>6, <2>1, <2>2 DEF Lengthened
<1>12. ASSUME NEW title \in LocalTitles, title \in TitlesIn(r.snapshot)
       PROVE  \E x \in DOMAIN rc2 : Brings(rc2[x].command, title)
  <2>1. CASE Brings(c, title)
    BY <2>1 DEF Recorded
  <2>2. CASE title \in TitlesIn(st.snapshot)
    BY <2>2 DEF Told, Recorded
  <2> QED BY <1>5, <1>12, <2>1, <2>2
<1>13. new[Len(new)].result.task = r.snapshot.task
  BY <1>6 DEF Lengthened
<1> QED BY <1>9, <1>11, <1>12, <1>13 DEF Told, new, r

LEMMA ToldReset ==
  ASSUME NEW st, NEW h, NEW rc, NEW known, Good(st, h, rc, known), NEW out, Told(st, rc, out),
         DOMAIN rc \subseteq CommandId, NEW g \in Generation
  PROVE  Told(ResetGeneration(st, g), rc, out)
<1> DEFINE r == ResetGeneration(st, g)
           old == st.snapshot.history
           new == r.snapshot.history
<1>1. Sound(st) /\ g \in Token /\ g \notin DOMAIN rc
  BY DistinctValues DEF Good, Token
<1>2. Sound(r) /\ new = Append(old, Link(g, r.snapshot))
  BY <1>1, ResetGenerationSound
<1>3. IsBody(r.snapshot)
  BY <1>2 DEF Sound, IsState, IsSnapshot
<1>4. IsChain(old) /\ Len(old) # 0
  BY ChainStarted
<1>5. TitlesIn(r.snapshot) = TitlesIn(st.snapshot)
  <2> DEFINE tasks == st.snapshot.task
             again == [t \in DOMAIN tasks |-> [tasks[t] EXCEPT !.versions = Versions(g)]]
  <2>1. StateShape(st) /\ Shape(st.snapshot) /\ Partial(tasks, TaskId, TaskRecord)
    BY <1>1, SoundFacts DEF Listed, IsBody, Shape
  <2>2. r.snapshot.task = again
    BY <2>1 DEF ResetGeneration, StateShape, Shape
  <2> HIDE DEF r
  <2>3. DOMAIN again = DOMAIN tasks /\ \A t \in DOMAIN tasks : again[t].title = tasks[t].title
    <3>1. \A t \in DOMAIN tasks : tasks[t] \in TaskRecord
      BY <2>1 DEF Partial
    <3> QED BY <3>1 DEF TaskRecord
  <2> QED BY <2>2, <2>3 DEF TitlesIn, Live
<1> HIDE DEF r, old, new
<1>6. Lengthened(old, g, r.snapshot, new)
  BY <1>1, <1>2, <1>3, <1>4, BroughtMore
<1>7. TitlesIn(old[Len(old)].result) = TitlesIn(st.snapshot)
  BY DEF Told, TitlesIn, Live, old
<1>8. ASSUME NEW title \in LocalTitles, NEW i \in DOMAIN new
      PROVE  title \in Brought(new, i) <=> new[i].by \in DOMAIN rc /\ Brings(rc[new[i].by].command, title)
  <2>1. CASE i \in DOMAIN old
    BY <1>6, <2>1 DEF Told, old, Lengthened
  <2>2. CASE i = Len(old) + 1
    BY <1>1, <1>5, <1>6, <1>7, <2>2 DEF Lengthened
  <2> QED BY <1>6, <2>1, <2>2 DEF Lengthened
<1>9. /\ \A x \in DOMAIN rc : rc[x].command.id = x /\ Ordinary(rc[x].command, out)
      /\ \A title \in LocalTitles : title \in TitlesIn(r.snapshot) =>
           \E x \in DOMAIN rc : Brings(rc[x].command, title)
  BY <1>5 DEF Told
<1>10. new[Len(new)].result.task = r.snapshot.task
  BY <1>6 DEF Lengthened
<1> QED BY <1>8, <1>9, <1>10 DEF Told, new, r

LEMMA ToldNew ==
  ASSUME NEW g \in Generation, NEW out
  PROVE  Told(NewState(g), <<>>, out)
<1> DEFINE r == NewState(g)
           c == r.snapshot.history
<1>1. Sound(r) /\ c = <<Link(g, r.snapshot)>>
  BY NewStateSound
<1>2. IsBody(r.snapshot) /\ r.snapshot.task = <<>>
  <2>1. IsBody(r.snapshot)
    BY <1>1 DEF Sound, IsState, IsSnapshot
  <2> QED BY <2>1 DEF NewState
<1> HIDE DEF r
<1>3. DOMAIN c = 1..1 /\ Len(c) = 1 /\ c[1].result.task = r.snapshot.task
  <2>1. Link(g, r.snapshot).result.task = r.snapshot.task
    BY <1>2 DEF Link, IsBody
  <2> QED BY <1>1, <2>1
<1>4. TitlesIn(r.snapshot) = {}
  BY <1>2 DEF TitlesIn, Live
<1>5. \A i \in DOMAIN c : Brought(c, i) = {}
  BY <1>3 DEF Brought
<1> QED BY <1>3, <1>4, <1>5 DEF Told, r

\* A local title came into the history.
Arrived(h, title) == \E i \in DOMAIN h : title \in Brought(h, i)

LEMMA ArrivedLater ==
  ASSUME NEW h, IsChain(h), NEW g, IsChain(g), Begins(h, g), NEW title, Arrived(h, title)
  PROVE  Arrived(g, title)
<1>1. PICK i \in DOMAIN h : title \in Brought(h, i)
  BY DEF Arrived
<1>2. i \in DOMAIN g /\ g[i] = h[i] /\ (i # 1 => i - 1 \in DOMAIN h /\ g[i - 1] = h[i - 1])
  BY ChainLength DEF Begins
<1>3. Brought(g, i) = Brought(h, i)
  BY <1>2 DEF Brought
<1> QED BY <1>1, <1>2, <1>3 DEF Arrived

\* What is asked of the server.
Ask(request, out) ==
  /\ request.device \in Device /\ request.command \in Command \cup {None}
  /\ request.command # None => Ordinary(request.command, out)

\* What the answer tells: the queue goes on from where the sender knew it, and what
\* was applied brought its titles.
Tells(request) ==
  LET h == state'.snapshot.history
      c == request.command
  IN /\ request.checkpoint # None /\ IsChain(request.checkpoint.history) =>
          Begins(request.checkpoint.history, h)
     /\ c # None =>
          /\ c.id \in DOMAIN receipts' /\ receipts'[c.id].command = c
          /\ receipts'[c.id].outcome.status = "applied" =>
               \A title \in LocalTitles : Brings(c, title) => Arrived(h, title)

LEMMA ExchangeTells ==
  ASSUME Stored, NEW out, Told(state, receipts, out), Single(out),
         NEW request, Ask(request, out), NEW sampled \in Nat, Exchange(request, sampled)
  PROVE  /\ Stored' /\ Final /\ Told(state', receipts', out) /\ Tells(request)
         /\ UNCHANGED <<minted, roots, artifact>>
<1> DEFINE c == request.command
           h == state.snapshot.history
           g == state'.snapshot.history
           now == ServerTime(sampled)
           cp == request.checkpoint
<1>1. Stored' /\ Final /\ UNCHANGED <<minted, roots, artifact>>
  BY ExchangeKeeps DEF Ask
<1>2. /\ Good(state, history, receipts, roots) /\ Sound(state)
      /\ Ancestry(state, history) /\ OneEffect(state', receipts', roots')
      /\ IsChain(h) /\ IsChain(g) /\ lastTime \in Nat
      /\ \A r \in DOMAIN history : IsChain(history[r])
  <2>1. Good(state, history, receipts, roots) /\ Good(state', history', receipts', roots')
    BY <1>1 DEF Stored
  <2>2. IsChain(h) /\ IsChain(g)
    BY <2>1, ChainStarted
  <2>3. lastTime \in Nat /\ \A r \in DOMAIN history : IsChain(history[r])
    BY DEF Stored, IsDatabase, database
  <2> QED BY <2>1, <2>2, <2>3 DEF Good
<1>3. now \in Nat
  BY <1>2 DEF ServerTime
<1>4. CheckpointRefusal(cp) = None /\ ReceiptRefusal(request.device, c) = None
  <2>1. \A x, y : (x ?? y) = None => x = None /\ y = None
    BY DEF ??
  <2> QED BY <2>1 DEF Exchange, ExchangeError
<1>5. cp # None => cp.revision \in DOMAIN history /\ history[cp.revision] = cp.history
  <2>1. "WrongDataset" # None /\ "HistoryMismatch" # None
    BY DistinctValues, ServerConstants DEF Reason
  <2> QED BY <1>4, <2>1 DEF CheckpointRefusal, ??, Require
<1>6. c # None /\ c.id \in DOMAIN receipts => receipts[c.id].command = c
  BY <1>4, ServerConstants DEF ReceiptRefusal, Require
<1> HIDE DEF now, c, cp
<1>7. c = None \/ c.id \in DOMAIN receipts => UNCHANGED <<state, receipts>>
  BY DEF Exchange, c
<1>8. ASSUME c # None, c.id \notin DOMAIN receipts
      PROVE  /\ Recorded(receipts, c, receipts')
             /\ \/ state' = state
                \/ Refusal(state, c, now) = None /\ state' = Apply(state, c, now)
  <2> DEFINE outcome == Outcome(c, now)
  <2>1. Execute(request.device, c, now)
    BY <1>8 DEF Exchange, c, now
  <2>2. receipts' = [x \in DOMAIN receipts \cup {c.id} |->
          IF x = c.id THEN [device |-> request.device, command |-> c, outcome |-> outcome]
          ELSE receipts[x]]
    BY <2>1 DEF Execute
  <2>3. Recorded(receipts, c, receipts')
    <3> HIDE DEF outcome
    <3> QED BY <1>8, <2>2 DEF Recorded
  <2>4. CASE outcome.status = "applied"
    <3>1. Refusal(state, c, now) = None
      BY <2>4 DEF Outcome, Rejected
    <3> QED BY <2>1, <2>3, <2>4, <3>1 DEF Execute
  <2>5. CASE outcome.status # "applied"
    BY <2>1, <2>3, <2>5 DEF Execute
  <2> QED BY <2>4, <2>5
<1>9. Told(state', receipts', out)
  <2>1. CASE c = None \/ c.id \in DOMAIN receipts
    BY <1>7, <2>1
  <2>2. CASE c # None /\ c.id \notin DOMAIN receipts /\ state' = state
    <3>1. Told(state, receipts', out)
      BY <1>2, <1>8, <2>2, ToldReject DEF Ask, c
    <3> QED BY <2>2, <3>1
  <2>3. CASE /\ c # None /\ c.id \notin DOMAIN receipts
             /\ Refusal(state, c, now) = None /\ state' = Apply(state, c, now)
    <3>1. Told(Apply(state, c, now), receipts', out)
      BY <1>2, <1>3, <1>8, <2>3, ToldApply DEF Ask, c
    <3> QED BY <2>3, <3>1
  <2> QED BY <1>8, <2>1, <2>2, <2>3
<1>10. Begins(h, g)
  <2>1. CASE state' = state
    BY <1>2, <2>1, BeginsItself
  <2>2. CASE /\ c # None /\ c.id \notin DOMAIN receipts
             /\ Refusal(state, c, now) = None /\ state' = Apply(state, c, now)
    <3>1. /\ c \in Command /\ c.id \in Token /\ Sound(state')
          /\ g = Append(h, Link(c.id, state'.snapshot))
      BY <1>2, <1>3, <2>2, CommandKinds, ApplySound DEF Ask, c
    <3>2. IsBody(state'.snapshot)
      BY <3>1 DEF Sound, IsState, IsSnapshot
    <3> HIDE DEF g
    <3>3. Len(g) = Len(h) + 1 /\ Len(h) \in Nat /\ DOMAIN h = 1..Len(h) /\ \A i \in DOMAIN h : g[i] = h[i]
      BY <1>2, <3>1, <3>2, Linked
    <3> QED BY <3>3 DEF Begins
  <2> QED BY <1>7, <1>8, <2>1, <2>2
<1>11. ASSUME cp # None, IsChain(cp.history) PROVE Begins(cp.history, g)
  <2>1. Begins(cp.history, h)
    BY <1>2, <1>5, <1>11, RowBegins
  <2> QED BY <1>2, <1>10, <1>11, <2>1, BeginsThrough
<1>12. ASSUME c # None PROVE c.id \in DOMAIN receipts' /\ receipts'[c.id].command = c
  BY <1>6, <1>7, <1>8, <1>12 DEF Recorded
<1>13. ASSUME c # None, receipts'[c.id].outcome.status = "applied",
              NEW title \in LocalTitles, Brings(c, title)
       PROVE  Arrived(g, title)
  <2>1. PICK i \in DOMAIN g : g[i].by = c.id
    BY <1>2, <1>12, <1>13 DEF OneEffect
  <2>2. title \in Brought(g, i) <=> g[i].by \in DOMAIN receipts' /\ Brings(receipts'[g[i].by].command, title)
    BY <1>9 DEF Told
  <2> QED BY <1>12, <1>13, <2>1, <2>2 DEF Arrived
<1>14. Tells(request)
  BY <1>11, <1>12, <1>13 DEF Tells, c, cp
<1> QED BY <1>1, <1>9, <1>14

\* Either way a backup comes back, what it tells comes back with it.
LEMMA RestoreTells ==
  ASSUME Stored, NEW out, artifact # None => Told(artifact.state, artifact.receipts, out),
         RawRestore \/ RestoreGeneration
  PROVE  Told(state', receipts', out)
<1>1. /\ artifact # None /\ receipts' = artifact.receipts
      /\ Good(artifact.state, artifact.history, artifact.receipts, roots)
      /\ DOMAIN artifact.receipts \subseteq CommandId
  BY DEF RawRestore, RestoreGeneration, Stored, IsDatabase, Partial
<1>2. CASE RawRestore
  BY <1>1, <1>2 DEF RawRestore
<1>3. CASE RestoreGeneration
  <2>1. FreshIn(Generation, roots) \in Generation
    BY <1>3, Drawing DEF RestoreGeneration
  <2>2. state' = ResetGeneration(artifact.state, FreshIn(Generation, roots))
    BY <1>3 DEF RestoreGeneration
  <2> QED BY <1>1, <2>1, <2>2, ToldReset
<1> QED BY <1>2, <1>3

\* The server when the first setup begins.
LEMMA TokenTyped ==
  ASSUME NEW d \in Device
  PROVE  TokenOf(d) \in Nat
<1> DEFINE size == Cardinality(Device)
           seq == Sq!SetToSeq(Device)
<1>1. size \in Nat /\ ExistsBijection(1..size, Device)
  BY SetupAssumption, FS_CardinalityType
<1>2. \E f \in [1..size -> Device] : Sq!IsInjective(f)
  BY <1>1 DEF ExistsBijection, Bijection, Injection, IsInjective, Sq!IsInjective
<1>3. seq \in [1..size -> Device] /\ Sq!IsInjective(seq)
  BY <1>2 DEF Sq!SetToSeq, Sq!Cardinality, Cardinality
<1>4. IsFiniteSet(1..size) /\ Cardinality(1..size) = size
  BY <1>1, FS_Interval
<1> HIDE DEF size, seq
<1>5. seq \in Injection(1..size, Device)
  BY <1>3 DEF Injection, IsInjective, Sq!IsInjective
<1>6. seq \in Surjection(1..size, Device)
  BY <1>4, <1>5, SetupAssumption, FS_Injection DEF size
<1>7. \E i \in DOMAIN seq : seq[i] = d
  BY <1>3, <1>6 DEF Surjection
<1>8. TokenOf(d) \in 1..size
  BY <1>3, <1>7 DEF TokenOf, seq
<1> QED BY <1>1, <1>8

LEMMA InitServes ==
  ASSUME Init
  PROVE  Stored /\ Told(state, receipts, sent) /\ artifact = None
<1> DEFINE g == FreshIn(Generation, {})
<1>1. g \in Generation
  BY Drawing, ServerConstants
<1> HIDE DEF g
<1>2. /\ state = NewState(g) /\ history = [r \in {0} |-> state.snapshot.history]
      /\ roots = {g} /\ receipts = <<>> /\ lastTime = 0 /\ minted = Cardinality(Device)
      /\ enrolled = [d \in Device |-> [token |-> TokenOf(d), revoked |-> FALSE]]
      /\ artifact = None
  BY DEF Init, g
<1>3. Good(state, history, receipts, roots)
  BY <1>1, <1>2, NewGood
<1>4. IsState(state) /\ IsChain(state.snapshot.history)
  BY <1>3 DEF Good, Sound, IsState, IsSnapshot
<1>5. IsDatabase(database)
  <2>1. DOMAIN history = {0} /\ IsChain(history[0])
    BY <1>2, <1>4
  <2>2. Partial(receipts, CommandId, Receipt)
    BY <1>2 DEF Partial
  <2>3. Partial(enrolled, Device, [token : Nat, revoked : BOOLEAN])
    BY <1>2, TokenTyped DEF Partial
  <2> QED BY <1>2, <1>4, <2>1, <2>2, <2>3 DEF IsDatabase, database
<1>6. minted \in Nat
  BY <1>2, SetupAssumption, FS_CardinalityType
<1>7. Told(state, receipts, sent)
  BY <1>1, <1>2, ToldNew
<1> QED BY <1>1, <1>2, <1>3, <1>5, <1>6, <1>7 DEF Stored

(***************************************************************************)
(* What a directory keeps of the local queue                               *)
(***************************************************************************)
\* What is known of a setup is its mode and the tasks.json it loaded.  The titles
\* of that queue, and those the k-th plan brings.
Planned(d, how) == {Local[d][n].title : n \in 1..how.tasks.size}
Lot(d, how, k) == IF how.mode = "import" THEN {Local[d][k].title} ELSE Planned(d, how)

PlansOK(d, how, plans) ==
  /\ how.mode \in Mode /\ how.tasks \in Files(d)
  /\ DOMAIN plans = IF how.mode = "import" THEN 1..how.tasks.size
                    ELSE IF how.mode = "initialize" THEN {1} ELSE {}
  /\ \A k \in DOMAIN plans :
       /\ plans[k].id \in CommandId
       /\ \/ plans[k].action \in Queued /\ plans[k].action.op = "Create"
          \/ plans[k].action \in Seeding /\ how.mode # "import"
       /\ \A title \in LocalTitles : Brings(plans[k], title) <=> title \in Lot(d, how, k)

\* Each plan that is settled was applied, or is kept as refused.
Progress(stage) ==
  \A k \in 1..stage.next :
    \/ \A title \in LocalTitles :
         Brings(stage.plans[k], title) => Arrived(stage.confirmed.history, title)
    \/ \E j \in DOMAIN stage.recovery : stage.recovery[j].command.action = stage.plans[k].action

\* What is kept as refused was sent, and refused if no backup came back.
Refusals(items, rc, out, count) ==
  /\ \E S : items \in Seq(S)
  /\ \A j \in DOMAIN items :
       /\ items[j].command \in Commands(out)
       /\ count = 0 => /\ items[j].command.id \in DOMAIN rc
                       /\ rc[items[j].command.id].outcome.status # "applied"

StageOK(d, how, stage, rc, out, count) ==
  /\ stage.mode = how.mode /\ PlansOK(d, how, stage.plans) /\ Progress(stage)
  /\ stage.confirmed # None => IsSnapshot(stage.confirmed)
  /\ Refusals(stage.recovery, rc, out, count)

JournalOK(d, how, env, rc, out, count) ==
  /\ {"confirmed", "time", "recovery", "handles", "nextHandle"} \subseteq DOMAIN env
  /\ IsSnapshot(env.confirmed) /\ Refusals(env.recovery, rc, out, count)
  /\ how.mode \in Mode /\ (how.mode # "shared" =>
       \A title \in Planned(d, how) :
         Arrived(env.confirmed.history, title) \/ KeptAsRefused(env.recovery, title))

\* What was sent from a directory is what its stage sends.
Asked(d, dir, out) ==
  \A r \in out : r.device = d => ~IsNew(dir) /\ (Begun(dir) => r.command.id \in PlanIds(dir))

\* A directory of a device, given what its setup was asked for and loaded, and how
\* tasks.json was last edited.  What is planned, kept for the export and compared
\* with are one queue, the newest, unless setup overlooked an edit.
DirSafe(d, how, new, dir, rc, out, count) ==
  /\ dir.tasks # Sentinel => dir.tasks = new.tasks
  /\ dir.tasks = Sentinel =>
       dir.state # NoJournal /\ (new.overlooked = None => how.tasks = new.tasks)
  /\ Begun(dir) =>
       /\ StageOK(d, how, dir.stage, rc, out, count)
       /\ new.overlooked = None => dir.stage.source = how.tasks /\ Exported(dir) = new.tasks
  /\ dir.state # NoJournal => JournalOK(d, how, dir.state, rc, out, count)
  /\ Asked(d, dir, out)

\* What the utility is about to do fits the directory.
PlaceSafe(place, dir) == place \in {"seal", "remove"} => dir.state # NoJournal

LogSafe(d, how, new, log, place, rc, out, count) ==
  /\ \A dir \in Entries(log) : DirSafe(d, how, new, dir, rc, out, count)
  /\ IsNew(Latest(log)) => \A dir \in Entries(log) : IsNew(dir)
  /\ PlaceSafe(place, Latest(log))

\* More may be overlooked of the same tasks.
LEMMA LogOverlooks ==
  ASSUME NEW d, NEW how, NEW new, NEW log, NEW place, NEW rc, NEW out, NEW count,
         LogSafe(d, how, new, log, place, rc, out, count),
         NEW new2, new2.tasks = new.tasks, new2.overlooked = None => new.overlooked = None
  PROVE  LogSafe(d, how, new2, log, place, rc, out, count)
<1>1. \A dir \in Entries(log) : DirSafe(d, how, new2, dir, rc, out, count)
  BY DEF LogSafe, DirSafe
<1> QED BY <1>1 DEF LogSafe

\* Directories in which no setup was begun say nothing of it.
LEMMA LogBegins ==
  ASSUME NEW d, NEW how, NEW new, NEW log, NEW place, NEW rc, NEW out, NEW count,
         LogSafe(d, how, new, log, place, rc, out, count), IsNew(Latest(log)),
         NEW how2, NEW new2, new2.tasks = new.tasks, NEW place2, PlaceSafe(place2, Latest(log))
  PROVE  LogSafe(d, how2, new2, log, place2, rc, out, count)
<1>1. \A dir \in Entries(log) : DirSafe(d, how2, new2, dir, rc, out, count)
  BY DEF LogSafe, DirSafe, IsNew
<1> QED BY <1>1 DEF LogSafe

\* The answers of one queue are those of a later one, if no backup came back.
AnswersLast(rc, count, rc2, count2) ==
  /\ count2 = 0 => count = 0
  /\ count2 = 0 => \A x \in DOMAIN rc : x \in DOMAIN rc2 /\ rc2[x] = rc[x]

LEMMA RefusalsStay ==
  ASSUME NEW items, NEW rc, NEW out, NEW count, Refusals(items, rc, out, count),
         NEW rc2, NEW out2, NEW count2, AnswersLast(rc, count, rc2, count2), out \subseteq out2
  PROVE  Refusals(items, rc2, out2, count2)
BY DEF Refusals, AnswersLast, Commands

LEMMA DirStays ==
  ASSUME NEW d, NEW how, NEW new, NEW dir, NEW rc, NEW out, NEW count,
         DirSafe(d, how, new, dir, rc, out, count),
         NEW rc2, NEW out2, NEW count2, AnswersLast(rc, count, rc2, count2), out \subseteq out2,
         Asked(d, dir, out2)
  PROVE  DirSafe(d, how, new, dir, rc2, out2, count2)
<1>1. \A stage : StageOK(d, how, stage, rc, out, count) => StageOK(d, how, stage, rc2, out2, count2)
  BY RefusalsStay DEF StageOK
<1>2. \A env : JournalOK(d, how, env, rc, out, count) => JournalOK(d, how, env, rc2, out2, count2)
  BY RefusalsStay DEF JournalOK
<1> QED BY <1>1, <1>2 DEF DirSafe

LEMMA LogStays ==
  ASSUME NEW d, NEW how, NEW new, NEW log, NEW place, NEW rc, NEW out, NEW count,
         LogSafe(d, how, new, log, place, rc, out, count),
         NEW rc2, NEW out2, NEW count2, AnswersLast(rc, count, rc2, count2), out \subseteq out2,
         \A dir \in Entries(log) : Asked(d, dir, out2)
  PROVE  LogSafe(d, how, new, log, place, rc2, out2, count2)
<1>1. \A dir \in Entries(log) : DirSafe(d, how, new, dir, rc2, out2, count2)
  BY DirStays DEF LogSafe
<1> QED BY <1>1 DEF LogSafe

\* Nothing more was sent by this device.
LEMMA LogWaits ==
  ASSUME NEW d, NEW how, NEW new, NEW log, NEW place, NEW rc, NEW out, NEW count,
         LogSafe(d, how, new, log, place, rc, out, count),
         NEW rc2, NEW out2, NEW count2, AnswersLast(rc, count, rc2, count2), out \subseteq out2,
         \A r \in out2 : r.device = d => r \in out
  PROVE  LogSafe(d, how, new, log, place, rc2, out2, count2)
<1>1. \A dir \in Entries(log) : Asked(d, dir, out2)
  BY DEF LogSafe, DirSafe, Asked
<1> QED BY <1>1, LogStays

\* A save of a directory that is safe, whichever way it ends.
LEMMA SaveSafe ==
  ASSUME NEW d, NEW how, NEW new, NEW log, NEW place, NEW rc, NEW out, NEW count,
         IsLog(log), LogSafe(d, how, new, log, place, rc, out, count),
         NEW dir, DirSafe(d, how, new, dir, rc, out, count), ~IsNew(dir),
         NEW saved \in SaveResult, NEW then, PlaceSafe(then, dir)
  PROVE  LogSafe(d, how, new, Saved(log, dir, saved), IF saved = "ok" THEN then ELSE None,
                 rc, out, count)
<1>1. PlaceSafe(None, Latest(log)) /\ PlaceSafe(None, dir)
  BY PlacesDiffer DEF PlaceSafe
<1>2. CASE saved = "ok"
  <2>1. Saved(log, dir, saved) = <<dir>>
    BY <1>2 DEF Saved
  <2>2. Entries(<<dir>>) = {dir} /\ Latest(<<dir>>) = dir
    BY OneLog
  <2> QED BY <1>2, <2>1, <2>2 DEF LogSafe
<1>3. CASE saved = "before"
  <2>1. Saved(log, dir, saved) = log
    BY <1>3 DEF Saved
  <2> QED BY <1>1, <1>3, <2>1 DEF LogSafe
<1>4. CASE saved = "after"
  <2> DEFINE more == Append(log, dir)
  <2>1. Saved(log, dir, saved) = more
    BY <1>4 DEF Saved
  <2>2. IsLog(more) /\ Entries(more) = Entries(log) \cup {dir}
    BY MoreLog
  <2>3. Latest(more) = dir
    <3>1. PICK S : log \in Seq(S)
      BY DEF IsLog
    <3>2. log \in Seq(S \cup {dir})
      BY <3>1, SeqMonotonic
    <3>3. Len(more) = Len(log) + 1 /\ more[Len(log) + 1] = dir
      BY <3>2, AppendProperties
    <3> QED BY <3>3 DEF Latest
  <2> HIDE DEF more
  <2> QED BY <1>1, <1>4, <2>1, <2>2, <2>3 DEF LogSafe
<1> QED BY <1>2, <1>3, <1>4 DEF SaveResult

(***************************************************************************)
(* The inductive invariant                                                 *)
(***************************************************************************)
\* The server, its backup and what was sent to it.
Serving ==
  /\ Stored /\ Single(sent) /\ Told(state, receipts, sent)
  /\ artifact # None => Told(artifact.state, artifact.receipts, sent)

\* The directories.
Safe ==
  \A d \in Device :
    LogSafe(d, loaded[d], newest[d], disk[d], at[d], receipts, sent, restores)

SetupInv ==
  /\ Inv /\ Serving /\ Safe /\ restores \in Nat
  /\ loaded = [d \in Device |-> loaded[d]] /\ newest = [d \in Device |-> newest[d]]

\* A step of one device, or of none.
LEMMA SafeStep ==
  ASSUME SetupInv, NEW d \in Device, NEW how, NEW new, NEW log, NEW place,
         disk' = [disk EXCEPT ![d] = log], at' = [at EXCEPT ![d] = place],
         loaded' = [loaded EXCEPT ![d] = how], newest' = [newest EXCEPT ![d] = new],
         restores' = restores, AnswersLast(receipts, restores, receipts', restores'),
         sent \subseteq sent', \A r \in sent' \ sent : r.device = d,
         LogSafe(d, how, new, log, place, receipts', sent', restores')
  PROVE  /\ Safe' /\ restores' \in Nat
         /\ loaded' = [e \in Device |-> loaded'[e]] /\ newest' = [e \in Device |-> newest'[e]]
<1>1. /\ disk = [e \in Device |-> disk[e]] /\ at \in [Device -> Places]
      /\ loaded = [e \in Device |-> loaded[e]] /\ newest = [e \in Device |-> newest[e]]
      /\ restores \in Nat
  BY DEF SetupInv, Inv, QInv
<1>2. disk'[d] = log /\ at'[d] = place /\ loaded'[d] = how /\ newest'[d] = new
  BY <1>1
<1>3. \A e \in Device \ {d} : /\ disk'[e] = disk[e] /\ at'[e] = at[e]
                              /\ loaded'[e] = loaded[e] /\ newest'[e] = newest[e]
  BY <1>1
<1>4. loaded' = [e \in Device |-> loaded'[e]] /\ newest' = [e \in Device |-> newest'[e]]
  BY <1>1
<1>5. ASSUME NEW e \in Device \ {d}
      PROVE  LogSafe(e, loaded'[e], newest'[e], disk'[e], at'[e], receipts', sent', restores')
  <2>1. LogSafe(e, loaded[e], newest[e], disk[e], at[e], receipts, sent, restores)
    BY DEF SetupInv, Safe
  <2>2. \A r \in sent' : r.device = e => r \in sent
    OBVIOUS
  <2>3. LogSafe(e, loaded[e], newest[e], disk[e], at[e], receipts', sent', restores')
    BY <2>1, <2>2, LogWaits
  <2> QED BY <1>3, <2>3
<1>6. Safe'
  BY <1>2, <1>5 DEF Safe
<1> QED BY <1>1, <1>4, <1>6

(***************************************************************************)
(* What a stage is made of                                                 *)
(***************************************************************************)
LEMMA PickedMembers ==
  ASSUME NEW S, IsFiniteSet(S), NEW n \in Nat
  PROVE  Picked(S, n) \in Seq(S \ drawn)
<1> DEFINE Left == S \ drawn
           seq == Sq!SetToSeq(Left)
           size == Cardinality(Left)
           m == IF n < Len(seq) THEN n ELSE Len(seq)
<1>1. IsFiniteSet(Left) /\ size \in Nat /\ ExistsBijection(1..size, Left)
  BY FS_Difference, FS_CardinalityType
<1>2. \E f \in [1..size -> Left] : Sq!IsInjective(f)
  BY <1>1 DEF ExistsBijection, Bijection, Injection, IsInjective, Sq!IsInjective
<1>3. seq \in [1..size -> Left]
  BY <1>2 DEF Sq!SetToSeq, Sq!Cardinality, Cardinality
<1> HIDE DEF Left, size
<1>4. seq \in Seq(Left)
  BY <1>1, <1>3, SeqDef
<1> HIDE DEF seq
<1>5. Len(seq) \in Nat /\ \A i \in 1..Len(seq) : seq[i] \in Left
  BY <1>4, LenProperties
<1>6. m \in 0..Len(seq)
  BY <1>5
<1> HIDE DEF m
<1>7. SubSeq(seq, 1, m) \in Seq(Left)
  BY <1>5, <1>6, SubSeqProperties
<1>8. Picked(S, n) = SubSeq(seq, 1, m)
  BY DEF Picked, seq, m, Left
<1> QED BY <1>7, <1>8 DEF Left

\* The plans bring the local queue, each of its tasks under one of them.
LEMMA PlansMade ==
  ASSUME NEW d \in Device, loaded[d].mode \in Mode, loaded[d].tasks \in Files(d), Enough(d)
  PROVE  PlansOK(d, loaded[d], Stage(d).plans)
<1> DEFINE stage == Stage(d)
           how == loaded[d]
           mode == how.mode
           tasks == Tasks(d)
           n == IF mode = "initialize" THEN 1 ELSE Len(tasks)
           ids == Picked(TaskId, Len(tasks))
           commands == Picked(CommandId, n)
           plans == Plans(tasks, mode, ids, commands)
<1>1. /\ tasks \in Seq(LocalTask) /\ Len(tasks) \in Nat /\ DOMAIN tasks = 1..Len(tasks)
      /\ DOMAIN tasks = 1..how.tasks.size
      /\ \A i \in DOMAIN tasks : tasks[i] \in LocalTask /\ tasks[i] = Local[d][i]
  BY TasksLoaded
<1>2. \A i \in 1..n : commands[i] \in CommandId
  <2>1. n \in Nat /\ n <= Cardinality(CommandId \ drawn)
    <3>1. Cardinality(CommandId \ drawn) \in Nat
      BY SetupAssumption, FS_Difference, FS_CardinalityType
    <3> QED BY <1>1, <3>1 DEF Enough, Plenty
  <2> QED BY <2>1, SetupAssumption, PickedFresh
<1>3. \A i \in DOMAIN tasks : ids[i] \in TaskId
  <2>1. Len(tasks) <= Cardinality(TaskId \ drawn)
    <3>1. Cardinality(TaskId \ drawn) \in Nat
      BY SetupAssumption, FS_Difference, FS_CardinalityType
    <3> QED BY <1>1, <3>1 DEF Enough
  <2> QED BY <1>1, <2>1, SetupAssumption, PickedFresh
<1>4. stage.plans = plans /\ mode \in Mode /\ how.tasks \in Files(d)
  BY DEF Stage, Plenty
<1>0. {tasks[i].title : i \in DOMAIN tasks} = Planned(d, how)
  BY <1>1 DEF Planned
<1> HIDE DEF ids, commands, stage, tasks, how
<1>5. CASE mode = "initialize"
  <2> DEFINE seed == [i \in DOMAIN tasks |->
                [id |-> ids[i], title |-> tasks[i].title, tag |-> tasks[i].tag,
                 bucket |-> tasks[i].bucket, created |-> 0]]
             action == [op |-> "Initialize", seeds |-> seed,
                        timer |-> IF \E i \in DOMAIN tasks : tasks[i].bucket = "now"
                                  THEN [elapsed |-> 0, running |-> TRUE] ELSE None]
  <2>1. plans = <<[id |-> commands[1], action |-> action]>>
    BY <1>5 DEF Plans
  <2>2. /\ \A i \in DOMAIN tasks : seed[i] \in SeedRecord /\ seed[i].title = tasks[i].title
        /\ DOMAIN seed = DOMAIN tasks
    BY <1>1, <1>3 DEF SeedRecord, LocalTask
  <2>3. seed \in Seq(SeedRecord)
    <3>1. seed = [i \in DOMAIN tasks |-> seed[i]]
      OBVIOUS
    <3> HIDE DEF seed
    <3>2. seed \in [1..Len(tasks) -> SeedRecord]
      BY <1>1, <2>2, <3>1
    <3> QED BY <1>1, <3>2, SeqDef
  <2> HIDE DEF seed
  <2>4. action \in Seeding /\ action.op = "Initialize" /\ action.seeds = seed
    BY <2>3 DEF Seeding, TimerRecord
  <2> HIDE DEF action
  <2>5. /\ DOMAIN plans = {1} /\ plans[1].id = commands[1] /\ plans[1].action = action
    BY <2>1
  <2> HIDE DEF plans
  <2>6. ASSUME NEW title PROVE Brings(plans[1], title) <=> title \in Planned(d, how)
    BY <1>0, <2>2, <2>4, <2>5 DEF Brings
  <2>7. commands[1] \in CommandId
    BY <1>2, <1>5
  <2>8. PlansOK(d, how, plans)
    BY <1>4, <1>5, <2>4, <2>5, <2>6, <2>7 DEF PlansOK, Lot
  <2> QED BY <1>4, <2>8 DEF stage, how
<1>6. CASE mode = "import"
  <2> DEFINE action(i) == [op |-> "Create", task |-> ids[i], title |-> tasks[i].title,
                           tag |-> tasks[i].tag, bucket |-> ImportBucket(tasks[i].bucket)]
  <2>1. plans = [i \in DOMAIN tasks |-> [id |-> commands[i], action |-> action(i)]]
    BY <1>6 DEF Plans
  <2>2. \A i \in DOMAIN tasks : /\ action(i) \in Queued /\ action(i).op = "Create"
                                /\ action(i).title = tasks[i].title
    <3>1. \A i \in DOMAIN tasks : ImportBucket(tasks[i].bucket) \in QueueBucket
      BY <1>1, ProtocolConstants DEF ImportBucket, LocalTask, Bucket
    <3> QED BY <1>1, <1>3, <3>1 DEF Queued, LocalTask
  <2> HIDE DEF action
  <2>3. /\ DOMAIN plans = DOMAIN tasks
        /\ \A i \in DOMAIN tasks : plans[i].id = commands[i] /\ plans[i].action = action(i)
    BY <2>1
  <2> HIDE DEF plans
  <2>4. ASSUME NEW i \in DOMAIN tasks, NEW title
        PROVE  Brings(plans[i], title) <=> title \in Lot(d, how, i)
    BY <1>1, <1>6, <2>2, <2>3 DEF Brings, Lot
  <2>5. \A i \in DOMAIN tasks : commands[i] \in CommandId
    BY <1>1, <1>2, <1>6
  <2>6. \A i \in DOMAIN plans :
          /\ plans[i].id \in CommandId
          /\ plans[i].action \in Queued /\ plans[i].action.op = "Create"
          /\ \A title \in LocalTitles : Brings(plans[i], title) <=> title \in Lot(d, how, i)
    BY <2>2, <2>3, <2>4, <2>5
  <2>7. DOMAIN plans = 1..how.tasks.size
    BY <1>1, <2>3
  <2>8. PlansOK(d, how, plans)
    BY <1>4, <1>6, <2>6, <2>7 DEF PlansOK
  <2> QED BY <1>4, <2>8 DEF stage, how
<1>7. CASE mode = "shared"
  <2>1. plans = <<>>
    BY <1>7 DEF Plans
  <2>2. DOMAIN plans = {}
    BY <2>1
  <2> HIDE DEF plans
  <2>3. PlansOK(d, how, plans)
    BY <1>4, <1>7, <2>2 DEF PlansOK
  <2> QED BY <1>4, <2>3 DEF stage, how
<1> QED BY <1>4, <1>5, <1>6, <1>7 DEF Mode

\* A command of a stage asks for what its plan says.
AsksPlan(d, plan, c) ==
  /\ c \in Command /\ c.guard = None /\ c.action.op \in {"Create", "Initialize"}
  /\ c.id = plan.id /\ c.action = plan.action
  /\ \A title : Brings(c, title) <=> Brings(plan, title)
  /\ \A title \in LocalTitles : Brings(c, title) => title \in OwnTitles(d)

LEMMA BindAsks ==
  ASSUME NEW d \in Device, NEW how, NEW stage, PlansOK(d, how, stage.plans),
         IsSnapshot(stage.confirmed), NEW k \in DOMAIN stage.plans,
         NEW c, c = Bind(stage, stage.plans[k])
  PROVE  AsksPlan(d, stage.plans[k], c)
<1> DEFINE p == stage.plans[k]
<1>1. /\ p.id \in CommandId
      /\ \/ p.action \in Queued /\ p.action.op = "Create"
         \/ p.action \in Seeding
      /\ \A title \in LocalTitles : Brings(p, title) => title \in Lot(d, how, k)
      /\ k \in DOMAIN stage.plans
      /\ stage.confirmed.generation \in Generation
  BY DEF PlansOK, IsSnapshot, IsBody
<1>2. /\ c.id = p.id /\ c.action = p.action /\ c.guard = None
      /\ c = [id |-> p.id, generation |-> stage.confirmed.generation, guard |-> None,
              action |-> p.action]
  BY DEF Bind
<1>3. Lot(d, how, k) \subseteq OwnTitles(d)
  <2>1. how.tasks \in Files(d)
    BY DEF PlansOK
  <2>2. 1..how.tasks.size \subseteq DOMAIN Local[d]
    BY <2>1, FilesSized
  <2> QED BY <2>2 DEF Lot, Planned, OwnTitles, PlansOK
<1> HIDE DEF p
<1>4. c \in Command
  BY <1>1, <1>2 DEF Command
<1>5. c.action.op \in {"Create", "Initialize"}
  BY <1>1, <1>2 DEF Seeding
<1>6. \A title : Brings(c, title) <=> Brings(p, title)
  BY <1>2 DEF Brings
<1> QED BY <1>1, <1>2, <1>3, <1>4, <1>5, <1>6 DEF AsksPlan, p

LEMMA RegisteredKeeps ==
  ASSUME NEW env, {"confirmed", "time", "recovery", "handles", "nextHandle"} \subseteq DOMAIN env
  PROVE  LET r == Registered(env)
         IN DOMAIN r = DOMAIN env /\ r.confirmed = env.confirmed /\ r.recovery = env.recovery
BY DEF Registered

LEMMA ActivationKeeps ==
  ASSUME NEW d, NEW stage
  PROVE  LET r == Activation(d, stage)
         IN /\ {"confirmed", "time", "recovery", "handles", "nextHandle"} \subseteq DOMAIN r
            /\ r.confirmed = stage.confirmed /\ r.recovery = stage.recovery
            /\ r # NoJournal
<1> DEFINE first == [device |-> d, confirmed |-> stage.confirmed, time |-> stage.time,
                     pending |-> <<>>, handles |-> <<>>, nextHandle |-> 1, recovery |-> <<>>,
                     suspension |-> None, settled |-> None]
           fields == {"confirmed", "time", "recovery", "handles", "nextHandle"}
           new == Registered(first)
           more == [new EXCEPT !.handles = stage.handles, !.nextHandle = stage.nextHandle,
                               !.recovery = stage.recovery]
           r == Registered(more)
<1>1. fields \subseteq DOMAIN first /\ first.confirmed = stage.confirmed
  OBVIOUS
<1> HIDE DEF first
<1>2. DOMAIN new = DOMAIN first /\ new.confirmed = first.confirmed
  BY <1>1, RegisteredKeeps
<1> HIDE DEF new
<1>3. /\ fields \subseteq DOMAIN more /\ more.confirmed = stage.confirmed
      /\ more.recovery = stage.recovery
  BY <1>1, <1>2
<1> HIDE DEF more
<1>4. DOMAIN r = DOMAIN more /\ r.confirmed = more.confirmed /\ r.recovery = more.recovery
  BY <1>3, RegisteredKeeps
<1> HIDE DEF r
<1>5. r # NoJournal
  <2>1. DOMAIN NoJournal = {"device"}
    BY DEF NoJournal
  <2> QED BY <1>3, <1>4, <2>1
<1>6. Activation(d, stage) = r
  BY DEF Activation, NewEnvelope, r, more, new, first
<1> QED BY <1>3, <1>4, <1>5, <1>6

(***************************************************************************)
(* The operations, once more                                               *)
(***************************************************************************)
LEMMA SafeNow ==
  ASSUME SetupInv, NEW d \in Device
  PROVE  /\ LogSafe(d, loaded[d], newest[d], disk[d], at[d], receipts, sent, restores)
         /\ DirSafe(d, loaded[d], newest[d], Dir(d), receipts, sent, restores)
         /\ PlaceSafe(at[d], Dir(d)) /\ Dir(d) = Latest(disk[d])
         /\ loaded = [loaded EXCEPT ![d] = loaded[d]] /\ newest = [newest EXCEPT ![d] = newest[d]]
         /\ AnswersLast(receipts, restores, receipts, restores)
<1>1. LogSafe(d, loaded[d], newest[d], disk[d], at[d], receipts, sent, restores)
  BY DEF SetupInv, Safe
<1>2. Dir(d) \in Entries(disk[d]) /\ Dir(d) = Latest(disk[d])
  BY PlaceNow DEF SetupInv
<1>3. loaded = [loaded EXCEPT ![d] = loaded[d]] /\ newest = [newest EXCEPT ![d] = newest[d]]
  BY DEF SetupInv
<1> QED BY <1>1, <1>2, <1>3 DEF LogSafe, AnswersLast

LEMMA ServingStays ==
  ASSUME Serving, UNCHANGED <<serverVars, sent>>
  PROVE  Serving'
BY DEF Serving, Stored, serverVars, server, database

\* What the history variables and the answers do in a step of a device.
Continues(d, how) ==
  /\ loaded' = [loaded EXCEPT ![d] = how] /\ restores' = restores
  /\ AnswersLast(receipts, restores, receipts', restores')
  /\ sent \subseteq sent' /\ \A r \in sent' \ sent : r.device = d

LEMMA SavesNewly ==
  ASSUME SetupInv, Inv', Serving', NEW d \in Device, NEW how, Continues(d, how), NEW new,
         newest' = [newest EXCEPT ![d] = new],
         LogSafe(d, how, new, disk[d], at[d], receipts', sent', restores'),
         NEW dir, DirSafe(d, how, new, dir, receipts', sent', restores'), ~IsNew(dir),
         NEW saved \in SaveResult, NEW then, PlaceSafe(then, dir), SaveDir(d, dir, saved, then)
  PROVE  SetupInv'
<1> DEFINE log == Saved(disk[d], dir, saved)
           place == IF saved = "ok" THEN then ELSE None
<1>1. disk' = [disk EXCEPT ![d] = log] /\ at' = [at EXCEPT ![d] = place]
  BY DEF SaveDir
<1>2. LogSafe(d, how, new, log, place, receipts', sent', restores')
  BY SaveSafe, PlaceNow DEF SetupInv
<1> HIDE DEF log, place
<1>3. /\ Safe' /\ restores' \in Nat
      /\ loaded' = [e \in Device |-> loaded'[e]] /\ newest' = [e \in Device |-> newest'[e]]
  BY <1>1, <1>2, SafeStep DEF Continues
<1> QED BY <1>3 DEF SetupInv

LEMMA SavesSafely ==
  ASSUME SetupInv, Inv', Serving', NEW d \in Device, NEW how, Continues(d, how),
         newest' = newest,
         LogSafe(d, how, newest[d], disk[d], at[d], receipts', sent', restores'),
         NEW dir, DirSafe(d, how, newest[d], dir, receipts', sent', restores'), ~IsNew(dir),
         NEW saved \in SaveResult, NEW then, PlaceSafe(then, dir), SaveDir(d, dir, saved, then)
  PROVE  SetupInv'
<1>1. newest' = [newest EXCEPT ![d] = newest[d]]
  BY SafeNow
<1> QED BY <1>1, SavesNewly

\* One directory is left, or the logs are as they were.
LEMMA KeepsSafely ==
  ASSUME SetupInv, Inv', Serving', NEW d \in Device, NEW how, Continues(d, how), NEW new,
         newest' = [newest EXCEPT ![d] = new], NEW place,
         at' = [at EXCEPT ![d] = place],
         \/ /\ disk' = disk /\ PlaceSafe(place, Dir(d))
            /\ \E p : LogSafe(d, how, new, disk[d], p, receipts', sent', restores')
         \/ \E dir : /\ disk' = [disk EXCEPT ![d] = <<dir>>] /\ PlaceSafe(place, dir)
                     /\ DirSafe(d, how, new, dir, receipts', sent', restores')
  PROVE  SetupInv'
<1>1. PICK log : /\ disk' = [disk EXCEPT ![d] = log]
                 /\ LogSafe(d, how, new, log, place, receipts', sent', restores')
  <2>1. CASE /\ disk' = disk /\ PlaceSafe(place, Dir(d))
             /\ \E p : LogSafe(d, how, new, disk[d], p, receipts', sent', restores')
    <3>1. disk' = [disk EXCEPT ![d] = disk[d]] /\ Dir(d) = Latest(disk[d])
      BY <2>1, PlaceNow DEF SetupInv
    <3>2. LogSafe(d, how, new, disk[d], place, receipts', sent', restores')
      BY <2>1, <3>1 DEF LogSafe
    <3> QED BY <3>1, <3>2
  <2>2. ASSUME NEW dir, disk' = [disk EXCEPT ![d] = <<dir>>], PlaceSafe(place, dir),
               DirSafe(d, how, new, dir, receipts', sent', restores')
        PROVE  \E log : /\ disk' = [disk EXCEPT ![d] = log]
                        /\ LogSafe(d, how, new, log, place, receipts', sent', restores')
    <3>1. Entries(<<dir>>) = {dir} /\ Latest(<<dir>>) = dir
      BY OneLog
    <3>2. LogSafe(d, how, new, <<dir>>, place, receipts', sent', restores')
      BY <2>2, <3>1 DEF LogSafe
    <3> QED BY <2>2, <3>2
  <2> QED BY <2>1, <2>2
<1>2. /\ Safe' /\ restores' \in Nat
      /\ loaded' = [e \in Device |-> loaded'[e]] /\ newest' = [e \in Device |-> newest'[e]]
  BY <1>1, SafeStep DEF Continues
<1> QED BY <1>2 DEF SetupInv

\* The utility gives up, whatever the server did meanwhile.
LEMMA StopsSafely ==
  ASSUME SetupInv, Inv', Serving', NEW d \in Device, NEW how, Continues(d, how),
         newest' = newest, disk' = disk, at' = [at EXCEPT ![d] = None],
         LogSafe(d, how, newest[d], disk[d], at[d], receipts', sent', restores')
  PROVE  SetupInv'
<1>1. PlaceSafe(None, Dir(d))
  BY PlacesDiffer DEF PlaceSafe
<1>2. newest' = [newest EXCEPT ![d] = newest[d]]
  BY SafeNow
<1> QED BY <1>1, <1>2, KeepsSafely

\* The steps that ask the server nothing.
LEMMA AloneContinues ==
  ASSUME SetupInv, NEW d \in Device, UNCHANGED <<serverVars, sent, loaded, restores>>
  PROVE  Serving' /\ Continues(d, loaded[d]) /\ UNCHANGED receipts
BY SafeNow, ServingStays DEF SetupInv, Continues, serverVars, server

LEMMA RestartSafe ==
  ASSUME SetupInv, Inv', NEW d \in Device, Again(d) \/ ResumeSetup(d)
  PROVE  SetupInv'
<1>1. PICK place \in {"config", "open"} :
        /\ at' = [at EXCEPT ![d] = place]
        /\ UNCHANGED <<serverVars, disk, sent, newest, loaded, restores>>
  BY DEF Again, ResumeSetup
<1>2. Serving' /\ Continues(d, loaded[d]) /\ UNCHANGED receipts
  BY <1>1, AloneContinues
<1>3. PlaceSafe(place, Dir(d)) /\ newest' = [newest EXCEPT ![d] = newest[d]]
  BY <1>1, SafeNow DEF PlaceSafe
<1>4. LogSafe(d, loaded[d], newest[d], disk[d], at[d], receipts', sent', restores')
  <2>1. LogSafe(d, loaded[d], newest[d], disk[d], at[d], receipts, sent, restores)
    BY SafeNow
  <2> QED BY <1>1, <1>2, <2>1
<1> QED BY <1>1, <1>2, <1>3, <1>4, KeepsSafely

LEMMA SaveConfigSafe ==
  ASSUME SetupInv, Inv', NEW d \in Device, SaveConfig(d)
  PROVE  SetupInv'
<1> DEFINE dir == [Dir(d) EXCEPT !.config = TRUE]
<1>1. PICK saved \in SaveResult : SaveDir(d, dir, saved, "open")
  BY DEF SaveConfig
<1>2. UNCHANGED <<serverVars, sent, newest, loaded, restores>> /\ Begun(Dir(d))
  BY PlaceNow DEF SaveConfig, SetupInv
<1>3. Serving' /\ Continues(d, loaded[d]) /\ UNCHANGED receipts
  BY <1>2, AloneContinues
<1>4. dir.tasks = Dir(d).tasks /\ dir.stage = Dir(d).stage /\ dir.state = Dir(d).state
  BY PlaceNow DEF DirOK, IsDir, SetupInv
<1> HIDE DEF dir
<1>5. DirSafe(d, loaded[d], newest[d], dir, receipts, sent, restores) /\ ~IsNew(dir)
  <2>1. Exported(dir) = Exported(Dir(d)) /\ (Begun(dir) <=> Begun(Dir(d)))
        /\ PlanIds(dir) = PlanIds(Dir(d))
    BY <1>4 DEF Exported, Begun, PlanIds
  <2>2. ~IsNew(dir) /\ ~IsNew(Dir(d))
    BY <1>2, <2>1 DEF IsNew
  <2>3. DirSafe(d, loaded[d], newest[d], Dir(d), receipts, sent, restores)
    BY SafeNow
  <2>4. Asked(d, dir, sent)
    BY <2>1, <2>2, <2>3 DEF DirSafe, Asked
  <2> QED BY <1>4, <2>1, <2>2, <2>3, <2>4 DEF DirSafe
<1>6. PlaceSafe("open", dir)
  BY DEF PlaceSafe
<1>7. LogSafe(d, loaded[d], newest[d], disk[d], at[d], receipts, sent, restores)
  BY SafeNow
<1> QED BY <1>1, <1>2, <1>3, <1>5, <1>6, <1>7, SavesSafely

LEMMA VerifySafe ==
  ASSUME SetupInv, Inv', NEW d \in Device, Verify(d)
  PROVE  SetupInv'
<1>1. UNCHANGED <<serverVars, sent, newest, loaded, restores>>
  BY DEF Verify
<1>2. Serving' /\ Continues(d, loaded[d]) /\ UNCHANGED receipts
  BY <1>1, AloneContinues
<1>3. /\ LogSafe(d, loaded[d], newest[d], disk[d], at[d], receipts, sent, restores)
      /\ DirSafe(d, loaded[d], newest[d], Dir(d), receipts, sent, restores)
      /\ newest' = [newest EXCEPT ![d] = newest[d]]
  BY <1>1, SafeNow
<1>4. \A place \in {"work", None} : PlaceSafe(place, Dir(d))
  BY PlacesDiffer DEF PlaceSafe
<1>5. CASE disk' = disk /\ at' = [at EXCEPT ![d] = None]
  BY <1>1, <1>2, <1>3, <1>5, StopsSafely
<1>6. CASE disk' = [disk EXCEPT ![d] = Synced(@)] /\ \E place \in {"work", None} : at' = [at EXCEPT ![d] = place]
  <2>1. PICK place \in {"work", None} : at' = [at EXCEPT ![d] = place]
    BY <1>6
  <2>2. disk' = [disk EXCEPT ![d] = <<Dir(d)>>]
    BY <1>6 DEF Synced, Dir
  <2> QED BY <1>1, <1>2, <1>3, <1>4, <2>1, <2>2, KeepsSafely
<1> QED BY <1>5, <1>6 DEF Verify

LEMMA DieSafe ==
  ASSUME SetupInv, Inv', NEW d \in Device, Die(d)
  PROVE  SetupInv'
<1>1. /\ UNCHANGED <<serverVars, sent, newest, loaded, restores>>
      /\ at' = [at EXCEPT ![d] = None]
  BY DEF Die
<1>2. Serving' /\ Continues(d, loaded[d]) /\ UNCHANGED receipts
  BY <1>1, AloneContinues
<1>3. /\ LogSafe(d, loaded[d], newest[d], disk[d], at[d], receipts, sent, restores)
      /\ newest' = [newest EXCEPT ![d] = newest[d]]
  BY <1>1, SafeNow
<1>4. CASE disk' = disk
  BY <1>1, <1>2, <1>3, <1>4, StopsSafely
<1>5. CASE \E dir \in Fn!Range(disk[d]) : disk' = [disk EXCEPT ![d] = <<dir>>]
  <2>1. PICK dir \in Entries(disk[d]) : disk' = [disk EXCEPT ![d] = <<dir>>]
    BY <1>5 DEF Entries, Fn!Range
  <2>2. DirSafe(d, loaded[d], newest[d], dir, receipts, sent, restores)
    BY <1>3 DEF LogSafe
  <2>3. PlaceSafe(None, dir)
    BY PlacesDiffer DEF PlaceSafe
  <2> QED BY <1>1, <1>2, <1>3, <2>1, <2>2, <2>3, KeepsSafely
<1> QED BY <1>4, <1>5 DEF Die

\* Whatever tasks.json was, it is what is newest.
LEMMA OldEditSafe ==
  ASSUME SetupInv, Reading, NEW d \in Device, Inv', OldEdit(d)
  PROVE  SetupInv'
<1> DEFINE edited == Queue(newest[d].tasks.size + 1)
           dir == [Dir(d) EXCEPT !.tasks = edited]
           new == [newest[d] EXCEPT !.tasks = edited]
<1>1. /\ UNCHANGED <<serverVars, at, sent, loaded, restores>>
      /\ disk' = [disk EXCEPT ![d] = <<dir>>] /\ newest' = [newest EXCEPT ![d] = new]
  BY DEF OldEdit
<1>2. Serving' /\ Continues(d, loaded[d]) /\ UNCHANGED receipts
  BY <1>1, AloneContinues
<1>3. edited # Sentinel /\ edited # Absent
  BY DEF Queue, Sentinel, Absent
<1> HIDE DEF edited
<1>4. /\ dir.tasks = edited /\ dir.stage = Dir(d).stage /\ dir.state = Dir(d).state
      /\ new.tasks = edited /\ new.overlooked = newest[d].overlooked
  BY PlaceNow DEF DirOK, IsDir, SetupInv, Reading
<1>5. DirSafe(d, loaded[d], newest[d], Dir(d), receipts, sent, restores) /\ PlaceSafe(at[d], Dir(d))
  BY SafeNow
<1> HIDE DEF dir, new
<1>6. Exported(dir) = edited
  BY <1>3, <1>4 DEF Exported
<1>7. (Begun(dir) <=> Begun(Dir(d))) /\ (IsNew(dir) <=> IsNew(Dir(d))) /\ PlanIds(dir) = PlanIds(Dir(d))
  BY <1>4 DEF Begun, IsNew, PlanIds
<1>8. DirSafe(d, loaded[d], new, dir, receipts, sent, restores)
  <2>1. Asked(d, dir, sent)
    BY <1>5, <1>7 DEF DirSafe, Asked
  <2> QED BY <1>3, <1>4, <1>5, <1>6, <1>7, <2>1 DEF DirSafe
<1>9. PlaceSafe(at[d], dir) /\ at' = [at EXCEPT ![d] = at[d]]
  BY <1>1, <1>4, <1>5, PlaceNow DEF PlaceSafe, SetupInv
<1>10. \E x : /\ disk' = [disk EXCEPT ![d] = <<x>>] /\ PlaceSafe(at[d], x)
              /\ DirSafe(d, loaded[d], new, x, receipts', sent', restores')
  BY <1>1, <1>2, <1>8, <1>9
<1> QED BY <1>1, <1>2, <1>9, <1>10, KeepsSafely

\* A directory in which no setup was begun has a standalone queue.
LEMMA NewFile ==
  ASSUME SetupInv, Reading, NEW d \in Device, IsNew(Dir(d))
  PROVE  /\ Dir(d).tasks = newest[d].tasks /\ Dir(d).tasks \in Files(d)
         /\ \A r \in sent : r.device # d
<1>1. DirSafe(d, loaded[d], newest[d], Dir(d), receipts, sent, restores)
  BY SafeNow
<1> QED BY <1>1 DEF DirSafe, IsNew, Asked, Reading

LEMMA LoadSafe ==
  ASSUME SetupInv, Reading, NEW d \in Device, Inv', NEW mode, Load(d, mode)
  PROVE  SetupInv'
<1> DEFINE how == [mode |-> mode, tasks |-> Dir(d).tasks]
           new == [newest[d] EXCEPT !.overlooked = None]
<1>1. /\ UNCHANGED <<serverVars, disk, sent, restores>> /\ IsNew(Dir(d))
      /\ loaded' = [loaded EXCEPT ![d] = how] /\ newest' = [newest EXCEPT ![d] = new]
      /\ at' = [at EXCEPT ![d] = "prepare"]
  BY DEF Load
<1>2. new.tasks = newest[d].tasks
  BY DEF Reading
<1> HIDE DEF how, new
<1>3. Serving' /\ Continues(d, how) /\ UNCHANGED receipts
  <2>1. Serving' /\ UNCHANGED receipts
    BY <1>1, ServingStays DEF SetupInv, serverVars, server
  <2> QED BY <1>1, <2>1, SafeNow DEF Continues
<1>4. /\ LogSafe(d, loaded[d], newest[d], disk[d], at[d], receipts, sent, restores)
      /\ Dir(d) = Latest(disk[d])
  BY SafeNow
<1>5. PlaceSafe("prepare", Dir(d))
  BY DEF PlaceSafe
<1>6. LogSafe(d, how, new, disk[d], "prepare", receipts', sent', restores')
  BY <1>1, <1>2, <1>3, <1>4, <1>5, LogBegins
<1> QED BY <1>1, <1>3, <1>5, <1>6, KeepsSafely

\* Nothing was sent by a device whose setup begins, and no directory of it holds
\* a journal or a stage.
LEMMA PrepareSafe ==
  ASSUME SetupInv, Reading, Inv', NEW d \in Device, Prepare(d)
  PROVE  SetupInv'
<1> DEFINE stage == Stage(d)
           dir == [Dir(d) EXCEPT !.stage = stage]
           how == loaded[d]
           missed == Dir(d).tasks # how.tasks
           new == [newest[d] EXCEPT !.overlooked = IF missed THEN Dir(d).tasks ELSE @]
<1>1. /\ how.mode \in Mode /\ how.tasks \in Files(d) /\ IsNew(Dir(d))
      /\ UNCHANGED <<serverVars, sent, loaded, restores>>
      /\ newest' = [newest EXCEPT ![d] = new]
  BY PlaceNow DEF Prepare, Overlooks, Reading, SetupInv
<1>2. Serving' /\ Continues(d, how) /\ UNCHANGED receipts
  BY <1>1, AloneContinues
<1>3. /\ Dir(d).tasks = newest[d].tasks /\ Dir(d).tasks # Sentinel /\ Dir(d).tasks # None
      /\ \A r \in sent : r.device # d
  BY <1>1, NewFile, FilesSized
<1>4. new.tasks = newest[d].tasks /\ (new.overlooked = None => Dir(d).tasks = how.tasks)
  BY <1>3 DEF Reading
<1> HIDE DEF new, how
<1>5. /\ LogSafe(d, how, newest[d], disk[d], at[d], receipts, sent, restores)
      /\ Dir(d) = Latest(disk[d])
  BY SafeNow DEF how
<1>6. LogSafe(d, how, new, disk[d], None, receipts, sent, restores) /\ PlaceSafe(None, Dir(d))
  <2>1. PlaceSafe(None, Dir(d))
    BY PlacesDiffer DEF PlaceSafe, Busy
  <2> QED BY <1>1, <1>4, <1>5, <2>1, LogBegins
<1>7. CASE at' = [at EXCEPT ![d] = None] /\ UNCHANGED disk
  <2>1. LogSafe(d, how, new, disk[d], None, receipts', sent', restores')
    BY <1>1, <1>2, <1>6
  <2> QED BY <1>1, <1>2, <1>6, <1>7, <2>1, KeepsSafely
<1>8. CASE Enough(d) /\ \E saved \in SaveResult : SaveDir(d, dir, saved, "config")
  <2>1. PICK saved \in SaveResult : SaveDir(d, dir, saved, "config")
    BY <1>8
  <2>2. /\ stage.mode = how.mode /\ how.mode # None /\ stage.source = Dir(d).tasks
        /\ stage.next = 0 /\ stage.confirmed = None /\ stage.recovery = <<>>
        /\ PlansOK(d, how, stage.plans)
    <3>1. PlansOK(d, how, stage.plans)
      BY <1>1, <1>8, PlansMade DEF how
    <3>2. how.mode # None
      BY <1>1, PlacesDiffer
    <3> QED BY <3>1, <3>2 DEF Stage, how
  <2> HIDE DEF stage
  <2>3. dir.tasks = Dir(d).tasks /\ dir.stage = stage /\ dir.state = NoJournal
    BY <1>1, PlaceNow DEF DirOK, IsDir, IsNew, SetupInv
  <2> HIDE DEF dir
  <2>4. Begun(dir) /\ ~IsNew(dir)
    BY <2>2, <2>3 DEF Begun, IsNew
  <2>5. StageOK(d, how, stage, receipts, sent, restores)
    <3>1. <<>> \in Seq({}) /\ DOMAIN <<>> = {}
      OBVIOUS
    <3>2. Refusals(stage.recovery, receipts, sent, restores)
      BY <2>2, <3>1 DEF Refusals
    <3>3. Progress(stage)
      BY <2>2 DEF Progress
    <3> QED BY <2>2, <3>2, <3>3 DEF StageOK
  <2>6. Exported(dir) = newest[d].tasks
    BY <1>3, <2>2, <2>3 DEF Exported
  <2>7. DirSafe(d, how, new, dir, receipts', sent', restores')
    BY <1>1, <1>2, <1>3, <1>4, <2>2, <2>3, <2>4, <2>5, <2>6 DEF DirSafe, Asked
  <2>8. LogSafe(d, how, new, disk[d], at[d], receipts', sent', restores')
    <3>1. PlaceSafe(at[d], Dir(d))
      BY SafeNow
    <3>2. LogSafe(d, how, new, disk[d], at[d], receipts, sent, restores)
      BY <1>1, <1>4, <1>5, <3>1, LogBegins
    <3> QED BY <1>1, <1>2, <3>2
  <2>9. PlaceSafe("config", dir)
    BY DEF PlaceSafe
  <2> QED BY <1>1, <1>2, <2>1, <2>4, <2>7, <2>8, <2>9, SavesNewly
<1>9. \/ at' = [at EXCEPT ![d] = None] /\ UNCHANGED disk
      \/ Enough(d) /\ \E saved \in SaveResult : SaveDir(d, dir, saved, "config")
  BY DEF Prepare, SaveStage, GivesUp
<1> QED BY <1>7, <1>8, <1>9

\* The sentinel replaces the queue that was loaded, or one that was overlooked.
LEMMA SealSafe ==
  ASSUME SetupInv, Reading, Inv', NEW d \in Device, Seal(d)
  PROVE  SetupInv'
<1> DEFINE dir == [Dir(d) EXCEPT !.tasks = Sentinel]
<1>1. PICK saved \in SaveResult :
        /\ SaveDir(d, dir, saved, "remove")
        /\ Overlooks(d, saved # "before" /\ ~SourceHolds(Dir(d)))
  BY DEF Seal
<1> DEFINE missed == saved # "before" /\ ~SourceHolds(Dir(d))
           new == [newest[d] EXCEPT !.overlooked = IF missed THEN Dir(d).tasks ELSE @]
<1>2. /\ UNCHANGED <<serverVars, sent, loaded, restores>> /\ Begun(Dir(d))
      /\ newest' = [newest EXCEPT ![d] = new]
  BY <1>1, PlaceNow DEF Seal, SetupInv, Overlooks
<1>3. Serving' /\ Continues(d, loaded[d]) /\ UNCHANGED receipts
  BY <1>2, AloneContinues
<1>4. dir.tasks = Sentinel /\ dir.stage = Dir(d).stage /\ dir.state = Dir(d).state
  BY PlaceNow DEF DirOK, IsDir, SetupInv
<1>5. /\ LogSafe(d, loaded[d], newest[d], disk[d], at[d], receipts, sent, restores)
      /\ DirSafe(d, loaded[d], newest[d], Dir(d), receipts, sent, restores)
      /\ Dir(d).state # NoJournal
  BY SafeNow DEF PlaceSafe, Seal
<1>6. ~SourceHolds(Dir(d)) => Dir(d).tasks # None
  <2>1. Dir(d).tasks # Sentinel => Dir(d).tasks \in Files(d)
    BY <1>5 DEF DirSafe, Reading
  <2>2. Dir(d).tasks # Sentinel => Dir(d).tasks # None
    BY <2>1, FilesSized
  <2> QED BY <1>5, <2>2 DEF SourceHolds
<1>7. /\ new.tasks = newest[d].tasks /\ (new.overlooked = None => newest[d].overlooked = None)
      /\ saved # "before" /\ new.overlooked = None => SourceHolds(Dir(d))
  BY <1>6 DEF Reading
<1> HIDE DEF dir, new
<1>8. LogSafe(d, loaded[d], new, disk[d], at[d], receipts', sent', restores')
  <2>1. LogSafe(d, loaded[d], new, disk[d], at[d], receipts, sent, restores)
    BY <1>5, <1>7, LogOverlooks
  <2> QED BY <1>2, <1>3, <2>1
<1>9. CASE saved = "before"
  <2>1. disk' = disk /\ at' = [at EXCEPT ![d] = None]
    BY <1>1, <1>9, PlaceNow DEF SaveDir, Saved, SetupInv
  <2>2. PlaceSafe(None, Dir(d))
    BY PlacesDiffer DEF PlaceSafe
  <2> QED BY <1>2, <1>3, <1>8, <2>1, <2>2, KeepsSafely
<1>10. CASE saved # "before"
  <2>1. /\ (Begun(dir) <=> Begun(Dir(d))) /\ PlanIds(dir) = PlanIds(Dir(d))
        /\ ~IsNew(dir) /\ ~IsNew(Dir(d))
    BY <1>2, <1>4 DEF Begun, PlanIds, IsNew
  <2>2. ASSUME new.overlooked = None
        PROVE  /\ Exported(dir) = new.tasks /\ loaded[d].tasks = new.tasks
               /\ dir.stage.source = loaded[d].tasks
    <3>1. /\ SourceHolds(Dir(d)) /\ Dir(d).stage.source = loaded[d].tasks
          /\ Exported(Dir(d)) = new.tasks
      BY <1>2, <1>5, <1>7, <1>10, <2>2 DEF DirSafe
    <3>2. Exported(Dir(d)) = Dir(d).stage.source
      BY <3>1 DEF SourceHolds, Exported
    <3>3. Exported(dir) = Dir(d).stage.source
      BY <1>4 DEF Exported
    <3> QED BY <1>4, <3>1, <3>2, <3>3
  <2>3. Asked(d, dir, sent)
    BY <1>5, <2>1 DEF DirSafe, Asked
  <2>4. DirSafe(d, loaded[d], new, dir, receipts, sent, restores)
    BY <1>4, <1>5, <2>1, <2>2, <2>3 DEF DirSafe
  <2>5. DirSafe(d, loaded[d], new, dir, receipts', sent', restores')
    BY <1>2, <1>3, <2>4
  <2>6. PlaceSafe("remove", dir)
    BY <1>4, <1>5 DEF PlaceSafe
  <2> QED BY <1>1, <1>2, <1>3, <1>8, <2>1, <2>5, <2>6, SavesNewly
<1> QED BY <1>9, <1>10

LEMMA RemoveSafe ==
  ASSUME SetupInv, Inv', NEW d \in Device, Remove(d)
  PROVE  SetupInv'
<1> DEFINE dir == [Dir(d) EXCEPT !.stage = NoStage]
<1>1. PICK saved \in SaveResult : SaveDir(d, dir, saved, None)
  BY DEF Remove
<1>2. UNCHANGED <<serverVars, sent, newest, loaded, restores>> /\ at[d] = "remove"
  BY DEF Remove
<1>3. Serving' /\ Continues(d, loaded[d]) /\ UNCHANGED receipts
  BY <1>2, AloneContinues
<1>4. dir.tasks = Dir(d).tasks /\ dir.stage = NoStage /\ dir.state = Dir(d).state
  BY PlaceNow DEF DirOK, IsDir, SetupInv
<1> HIDE DEF dir
<1>5. /\ LogSafe(d, loaded[d], newest[d], disk[d], at[d], receipts, sent, restores)
      /\ DirSafe(d, loaded[d], newest[d], Dir(d), receipts, sent, restores)
      /\ Dir(d).state # NoJournal
  BY <1>2, SafeNow DEF PlaceSafe
<1>6. ~Begun(dir) /\ ~IsNew(dir)
  BY <1>4, <1>5 DEF Begun, NoStage, IsNew
<1>7. DirSafe(d, loaded[d], newest[d], dir, receipts, sent, restores)
  BY <1>4, <1>5, <1>6 DEF DirSafe, Asked
<1>8. PlaceSafe(None, dir)
  BY PlacesDiffer DEF PlaceSafe
<1> QED BY <1>1, <1>2, <1>3, <1>5, <1>6, <1>7, <1>8, SavesSafely

\* The server answers a device, which sent no other command than it may.
LEMMA Exchanged ==
  ASSUME SetupInv, NEW request, NEW sampled \in Nat, Exchange(request, sampled),
         sent \subseteq sent', Single(sent'), Ask(request, sent'), restores' = restores
  PROVE  /\ Serving' /\ Tells(request) /\ AnswersLast(receipts, restores, receipts', restores')
         /\ IsSnapshot(Response(request).snapshot)
         /\ Response(request).snapshot.history = state'.snapshot.history
<1>1. /\ Told(state, receipts, sent') /\ Stored
      /\ artifact # None => Told(artifact.state, artifact.receipts, sent')
  BY ToldStays DEF SetupInv, Serving
<1>2. /\ Stored' /\ Final /\ Told(state', receipts', sent') /\ Tells(request)
      /\ UNCHANGED <<minted, roots, artifact>>
  BY <1>1, ExchangeTells
<1>3. AnswersLast(receipts, restores, receipts', restores')
  BY <1>2 DEF Final, AnswersLast
<1>4. IsSnapshot(state'.snapshot)
  BY <1>2 DEF Stored, Good, Sound, IsState
<1>5. Response(request).snapshot = state'.snapshot
  BY DEF Response
<1> QED BY <1>1, <1>2, <1>3, <1>4, <1>5 DEF Serving

\* A read sends nothing.
LEMMA ReadAsks ==
  ASSUME SetupInv, UNCHANGED sent, NEW request, request.device \in Device, request.command = None
  PROVE  sent \subseteq sent' /\ Single(sent') /\ Ask(request, sent')
BY DEF SetupInv, Serving, Ask

LEMMA DiscoverSafe ==
  ASSUME SetupInv, Inv', NEW d \in Device, NEW now \in Nat, Discover(d, now)
  PROVE  SetupInv'
<1> DEFINE old == Dir(d).stage
           request == [token |-> TokenOf(d), device |-> d, checkpoint |-> None, command |-> None]
           stage == Discovered(old, Response(request))
           dir == [Dir(d) EXCEPT !.stage = stage]
           snap == Response(request).snapshot
<1>1. /\ at[d] = "work" /\ old.confirmed = None /\ Exchange(request, now)
      /\ UNCHANGED <<sent, newest, loaded, restores>>
      /\ \/ Loses(d) \/ GivesUp(d) \/ SaveStage(d, stage, "work")
  BY DEF Discover
<1>2. /\ Serving' /\ AnswersLast(receipts, restores, receipts', restores') /\ IsSnapshot(snap)
  <2>1. request.device = d /\ request.command = None
    OBVIOUS
  <2> HIDE DEF request
  <2>2. sent \subseteq sent' /\ Single(sent') /\ Ask(request, sent')
    BY <1>1, <2>1, ReadAsks
  <2> QED BY <1>1, <2>2, Exchanged
<1> HIDE DEF request
<1>3. Continues(d, loaded[d])
  BY <1>1, <1>2, SafeNow DEF Continues
<1>4. /\ LogSafe(d, loaded[d], newest[d], disk[d], at[d], receipts, sent, restores)
      /\ DirSafe(d, loaded[d], newest[d], Dir(d), receipts, sent, restores)
  BY SafeNow
<1>5. LogSafe(d, loaded[d], newest[d], disk[d], at[d], receipts', sent', restores')
  BY <1>1, <1>2, <1>4, LogWaits
<1>6. CASE Loses(d) \/ GivesUp(d)
  <2>1. disk' = disk /\ at' = [at EXCEPT ![d] = None]
    BY <1>6 DEF Loses, GivesUp
  <2> QED BY <1>1, <1>2, <1>3, <1>5, <2>1, StopsSafely
<1>7. CASE SaveStage(d, stage, "work")
  <2>1. CASE ~StageValid(stage)
    <3>1. disk' = disk /\ at' = [at EXCEPT ![d] = None]
      BY <1>7, <2>1 DEF SaveStage, GivesUp
    <3> QED BY <1>1, <1>2, <1>3, <1>5, <3>1, StopsSafely
  <2>2. CASE StageValid(stage)
    <3>1. PICK saved \in SaveResult : SaveDir(d, dir, saved, "work")
      BY <1>7, <2>2 DEF SaveStage
    <3>2. IsDir(d, Dir(d)) /\ Begun(Dir(d)) /\ IsStage(old)
      BY <1>1, PlaceNow DEF SetupInv, DirOK, IsDir
    <3>3. /\ stage.mode = old.mode /\ stage.plans = old.plans /\ stage.next = old.next
          /\ stage.confirmed = snap /\ stage.recovery = old.recovery /\ stage.source = old.source
      <4> HIDE DEF snap
      <4> QED BY <3>2 DEF Discovered, IsStage, StageFields, snap
    <3> HIDE DEF stage, snap
    <3>4. dir.tasks = Dir(d).tasks /\ dir.stage = stage /\ dir.state = Dir(d).state
      BY <3>2 DEF IsDir
    <3> HIDE DEF dir
    <3>5. /\ Begun(dir) /\ PlanIds(dir) = PlanIds(Dir(d)) /\ ~IsNew(dir) /\ ~IsNew(Dir(d))
          /\ Exported(dir) = Exported(Dir(d))
      BY <3>2, <3>3, <3>4 DEF Begun, PlanIds, IsNew, Exported
    <3>6. StageOK(d, loaded[d], stage, receipts, sent, restores)
      <4>1. old.next = 0
        BY <1>1, <3>2 DEF IsStage, StageValid
      <4>2. Progress(stage)
        BY <3>3, <4>1 DEF Progress
      <4> QED BY <1>2, <1>4, <3>2, <3>3, <4>2 DEF DirSafe, StageOK
    <3>7. Asked(d, dir, sent)
      BY <1>4, <3>2, <3>5 DEF DirSafe, Asked
    <3>8. DirSafe(d, loaded[d], newest[d], dir, receipts, sent, restores)
      BY <1>4, <3>2, <3>3, <3>4, <3>5, <3>6, <3>7 DEF DirSafe
    <3>9. DirSafe(d, loaded[d], newest[d], dir, receipts', sent', restores')
      BY <1>1, <1>2, <3>7, <3>8, DirStays
    <3>10. PlaceSafe("work", dir)
      BY DEF PlaceSafe
    <3> QED BY <1>1, <1>2, <1>3, <1>5, <3>1, <3>5, <3>9, <3>10, SavesSafely
  <2> QED BY <2>1, <2>2
<1> QED BY <1>1, <1>6, <1>7

\* Once every plan is settled, each local task is in the queue or kept as refused.
LEMMA AllSettled ==
  ASSUME NEW d \in Device, NEW how, NEW stage, IsStage(stage), PlansOK(d, how, stage.plans),
         Progress(stage), stage.confirmed # None, ~Unsent(stage),
         how.mode = "initialize" => stage.recovery = <<>>, how.mode # "shared",
         NEW title \in Planned(d, how)
  PROVE  Arrived(stage.confirmed.history, title) \/ KeptAsRefused(stage.recovery, title)
<1> DEFINE plans == stage.plans
<1>1. title \in LocalTitles /\ how.mode \in {"initialize", "import"}
  <2>1. how.tasks \in Files(d) /\ how.mode \in Mode
    BY DEF PlansOK
  <2>2. 1..how.tasks.size \subseteq DOMAIN Local[d]
    BY <2>1, FilesSized
  <2> QED BY <2>1, <2>2 DEF LocalTitles, OwnTitles, Planned, Mode
<1>2. DOMAIN plans = 1..Len(plans) /\ DOMAIN plans = 1..stage.next
  BY DEF IsStage, StageValid, Unsent
<1>3. PICK k \in DOMAIN plans : title \in Lot(d, how, k)
  <2>1. CASE how.mode = "import"
    BY <2>1 DEF Planned, Lot, PlansOK
  <2>2. CASE how.mode = "initialize"
    BY <2>2 DEF Lot, PlansOK
  <2> QED BY <1>1, <2>1, <2>2
<1>4. Brings(plans[k], title) /\ (how.mode = "import" => plans[k].action.op = "Create")
  BY <1>1, <1>3 DEF PlansOK
<1>5. \/ Arrived(stage.confirmed.history, title)
      \/ \E j \in DOMAIN stage.recovery : stage.recovery[j].command.action = plans[k].action
  BY <1>1, <1>2, <1>4 DEF Progress
<1>6. ASSUME NEW j \in DOMAIN stage.recovery, stage.recovery[j].command.action = plans[k].action
      PROVE  KeptAsRefused(stage.recovery, title)
  <2>1. how.mode = "import"
    <3>1. DOMAIN <<>> = {}
      OBVIOUS
    <3> QED BY <1>1, <1>6, <3>1
  <2>2. plans[k].action.op = "Create" /\ plans[k].action.title = title
    BY <1>4, <2>1 DEF Brings
  <2> QED BY <1>6, <2>2 DEF KeptAsRefused
<1> QED BY <1>5, <1>6

LEMMA ActivateSafe ==
  ASSUME SetupInv, Inv', NEW d \in Device, Activate(d)
  PROVE  SetupInv'
<1> DEFINE stage == Dir(d).stage
           envelope == Activation(d, stage)
           dir == [Dir(d) EXCEPT !.state = envelope]
<1>1. /\ UNCHANGED <<serverVars, sent, newest, loaded, restores>> /\ at[d] = "work"
      /\ stage.confirmed # None /\ ~Unsent(stage)
      /\ \/ GivesUp(d)
         \/ /\ SourceHolds(Dir(d)) /\ (stage.mode = "initialize" => stage.recovery = <<>>)
            /\ \/ /\ Dir(d).state # NoJournal
                  /\ at' = [at EXCEPT ![d] = "seal"] /\ UNCHANGED disk
               \/ /\ Dir(d).state = NoJournal
                  /\ \E saved \in SaveResult : SaveDir(d, dir, saved, "seal")
  BY DEF Activate
<1>2. Serving' /\ Continues(d, loaded[d]) /\ UNCHANGED receipts
  BY <1>1, AloneContinues
<1>3. /\ LogSafe(d, loaded[d], newest[d], disk[d], at[d], receipts, sent, restores)
      /\ DirSafe(d, loaded[d], newest[d], Dir(d), receipts, sent, restores)
      /\ newest = [newest EXCEPT ![d] = newest[d]]
  BY SafeNow
<1>4. IsDir(d, Dir(d)) /\ Begun(Dir(d)) /\ IsStage(stage)
  BY <1>1, PlaceNow DEF SetupInv, DirOK, IsDir
<1>5. CASE GivesUp(d)
  BY <1>1, <1>2, <1>3, <1>5, StopsSafely DEF GivesUp
<1>6. CASE /\ SourceHolds(Dir(d)) /\ Dir(d).state # NoJournal
           /\ at' = [at EXCEPT ![d] = "seal"] /\ UNCHANGED disk
  <2>1. PlaceSafe("seal", Dir(d))
    BY <1>6 DEF PlaceSafe
  <2> QED BY <1>1, <1>2, <1>3, <1>6, <2>1, KeepsSafely
<1>7. CASE /\ SourceHolds(Dir(d)) /\ (stage.mode = "initialize" => stage.recovery = <<>>)
           /\ Dir(d).state = NoJournal
           /\ \E saved \in SaveResult : SaveDir(d, dir, saved, "seal")
  <2>1. PICK saved \in SaveResult : SaveDir(d, dir, saved, "seal")
    BY <1>7
  <2>2. /\ {"confirmed", "time", "recovery", "handles", "nextHandle"} \subseteq DOMAIN envelope
        /\ envelope.confirmed = stage.confirmed /\ envelope.recovery = stage.recovery
        /\ envelope # NoJournal
    BY ActivationKeeps
  <2> HIDE DEF envelope
  <2>3. dir.tasks = Dir(d).tasks /\ dir.stage = stage /\ dir.state = envelope
    BY <1>4 DEF IsDir
  <2> HIDE DEF dir
  <2>4. /\ Begun(dir) /\ PlanIds(dir) = PlanIds(Dir(d)) /\ ~IsNew(dir) /\ ~IsNew(Dir(d))
        /\ Exported(dir) = Exported(Dir(d))
    BY <1>4, <2>3 DEF Begun, PlanIds, IsNew, Exported
  <2>5. StageOK(d, loaded[d], stage, receipts, sent, restores)
    BY <1>3, <1>4 DEF DirSafe
  <2>6. JournalOK(d, loaded[d], envelope, receipts, sent, restores)
    <3>1. /\ loaded[d].mode \in Mode /\ stage.mode = loaded[d].mode /\ PlansOK(d, loaded[d], stage.plans)
          /\ Progress(stage) /\ IsSnapshot(stage.confirmed)
          /\ Refusals(stage.recovery, receipts, sent, restores)
      BY <1>1, <2>5 DEF StageOK, PlansOK
    <3>2. ASSUME loaded[d].mode # "shared", NEW title \in Planned(d, loaded[d])
          PROVE  Arrived(stage.confirmed.history, title) \/ KeptAsRefused(stage.recovery, title)
      <4> HIDE DEF stage
      <4> QED BY <1>1, <1>4, <1>7, <3>1, <3>2, AllSettled
    <3> QED BY <2>2, <3>1, <3>2 DEF JournalOK
  <2>7. Asked(d, dir, sent)
    BY <1>3, <1>4, <2>4 DEF DirSafe, Asked
  <2>8. DirSafe(d, loaded[d], newest[d], dir, receipts, sent, restores)
    BY <1>3, <1>4, <2>2, <2>3, <2>4, <2>5, <2>6, <2>7 DEF DirSafe
  <2>9. PlaceSafe("seal", dir)
    BY <1>7, <2>2, <2>3 DEF PlaceSafe, SourceHolds
  <2> QED BY <1>1, <1>2, <1>3, <2>1, <2>4, <2>8, <2>9, SavesSafely
<1> QED BY <1>1, <1>5, <1>6, <1>7

\* A journal whose queue went on keeps what it kept.
LEMMA JournalStays ==
  ASSUME NEW d, NEW how, NEW env, NEW rc, NEW out, NEW count, JournalOK(d, how, env, rc, out, count),
         NEW m, DOMAIN m = DOMAIN env, m.recovery = env.recovery,
         IsSnapshot(m.confirmed), Begins(env.confirmed.history, m.confirmed.history),
         NEW more, more = Registered(m)
  PROVE  JournalOK(d, how, more, rc, out, count) /\ more # NoJournal
<1> DEFINE fields == {"confirmed", "time", "recovery", "handles", "nextHandle"}
<1>1. fields \subseteq DOMAIN m /\ IsSnapshot(env.confirmed)
  BY DEF JournalOK
<1>2. /\ fields \subseteq DOMAIN more /\ more.confirmed = m.confirmed
      /\ more.recovery = env.recovery
  BY <1>1, RegisteredKeeps
<1>4. more # NoJournal
  <2>1. DOMAIN NoJournal = {"device"}
    BY DEF NoJournal
  <2> QED BY <1>2, <2>1
<1>5. \A title : Arrived(env.confirmed.history, title) => Arrived(m.confirmed.history, title)
  BY <1>1, ArrivedLater DEF IsSnapshot
<1> QED BY <1>2, <1>4, <1>5 DEF JournalOK

\* What the user of the app adds or removes is no local task.
LEMMA AppAsks ==
  ASSUME SetupInv, ~(CommandId \subseteq drawn), NEW env, IsSnapshot(env.confirmed),
         NEW a \in Edits(env.confirmed), NEW out,
         NEW c, c = [id |-> Picked(CommandId, 1)[1], generation |-> env.confirmed.generation,
                     guard |-> None, action |-> a]
  PROVE  Ordinary(c, out)
<1> DEFINE snap == env.confirmed
<1>1. c.id \in CommandId
  <2>1. IsFiniteSet(CommandId \ drawn) /\ CommandId \ drawn # {}
    BY SetupAssumption, FS_Difference
  <2>2. Cardinality(CommandId \ drawn) \in Nat /\ Cardinality(CommandId \ drawn) # 0
    BY <2>1, FS_CardinalityType, FS_EmptySet
  <2> QED BY <2>2, SetupAssumption, PickedFresh
<1>2. /\ snap.generation \in Generation /\ Live(snap) \subseteq TaskId
      /\ \A t \in Live(snap) : snap.task[t].versions.placement \in Token
  BY DEF IsSnapshot, IsBody, Partial, TaskRecord, Live
<1>3. \A title \in LocalTitles : title # Added
  BY SetupAssumption DEF LocalTitles, OwnTitles
<1>4. CASE \E t \in Live(snap) \ NowTasks(snap) :
             a = [op |-> "Delete", task |-> t, expected |-> snap.task[t].versions.placement]
  <2>1. a \in Queued /\ a.op = "Delete"
    BY <1>2, <1>4 DEF Queued
  <2>2. c \in Command
    BY <1>1, <1>2, <2>1 DEF Command
  <2> QED BY <2>1, <2>2 DEF Ordinary, Brings
<1>5. CASE \E t \in Fn!Range(Picked(TaskId, 1)) :
             a = [op |-> "Create", task |-> t, title |-> Added, tag |-> None, bucket |-> "next"]
  <2>1. Fn!Range(Picked(TaskId, 1)) \subseteq TaskId
    <3>1. Picked(TaskId, 1) \in Seq(TaskId \ drawn)
      BY SetupAssumption, PickedMembers
    <3> HIDE DEF Picked
    <3> QED BY <3>1, LenProperties DEF Fn!Range
  <2>2. a \in Queued /\ a.op = "Create" /\ a.title = Added
    BY <1>5, <2>1, SetupAssumption, ProtocolConstants DEF Queued
  <2>3. c \in Command
    BY <1>1, <1>2, <2>2 DEF Command
  <2> QED BY <1>3, <2>2, <2>3 DEF Ordinary, Brings
<1> QED BY <1>4, <1>5 DEF Edits

LEMMA AppSafe ==
  ASSUME SetupInv, Inv', NEW d \in Device, NEW now \in Nat, App(d, now)
  PROVE  SetupInv'
<1> DEFINE env == Dir(d).state
<1>1. /\ at[d] = None /\ ~Begun(Dir(d)) /\ env # NoJournal
      /\ UNCHANGED <<at, sent, newest, loaded, restores>>
  <2>1. Unlocked(d) /\ Starts(Dir(d)) /\ UNCHANGED <<at, newest, loaded, restores>>
    BY Zenon DEF App
  <2>2. sent' = sent
    BY Zenon DEF App
  <2> QED BY <2>1, <2>2 DEF Unlocked, Starts
<1>2. /\ LogSafe(d, loaded[d], newest[d], disk[d], at[d], receipts, sent, restores)
      /\ DirSafe(d, loaded[d], newest[d], Dir(d), receipts, sent, restores)
      /\ newest = [newest EXCEPT ![d] = newest[d]] /\ at = [at EXCEPT ![d] = None]
  BY <1>1, SafeNow, PlaceNow DEF SetupInv
<1>3. JournalOK(d, loaded[d], env, receipts, sent, restores) /\ IsSnapshot(env.confirmed)
  BY <1>1, <1>2 DEF DirSafe, JournalOK
<1> DEFINE Sends(c) == [token |-> TokenOf(d), device |-> d,
                        checkpoint |-> Checkpoint(env.confirmed), command |-> c]
           Adopted(c) ==
             /\ Exchange(Sends(c), now) /\ Sends(c).checkpoint # None
             /\ disk' = [disk EXCEPT ![d] =
                  <<[Dir(d) EXCEPT !.state = Registered([env EXCEPT
                       !.confirmed = Response(Sends(c)).snapshot, !.time = Response(Sends(c)).time])]>>]
           Composed(a) == [id |-> Picked(CommandId, 1)[1], generation |-> env.confirmed.generation,
                           guard |-> None, action |-> a]
<1>4. PICK command : (command = None \/ Ordinary(command, sent)) /\ Adopted(command)
  <2>1. \/ Adopted(None)
        \/ ~(CommandId \subseteq drawn) /\ \E a \in Edits(env.confirmed) : Adopted(Composed(a))
    BY Zenon DEF App
  <2>2. ASSUME ~(CommandId \subseteq drawn), NEW a \in Edits(env.confirmed)
        PROVE  Ordinary(Composed(a), sent)
    BY <1>3, <2>2, AppAsks
  <2> HIDE DEF Adopted, Composed
  <2> QED BY <2>1, <2>2
<1> DEFINE request == Sends(command)
           more == Registered([env EXCEPT !.confirmed = Response(request).snapshot,
                                          !.time = Response(request).time])
           dir == [Dir(d) EXCEPT !.state = more]
<1>5. /\ request.device = d /\ request.command = command
      /\ request.checkpoint = Checkpoint(env.confirmed)
      /\ Exchange(request, now) /\ request.checkpoint # None
      /\ disk' = [disk EXCEPT ![d] = <<dir>>]
  BY <1>4
<1> HIDE DEF request
<1>6. Ask(request, sent') /\ Single(sent')
  BY <1>1, <1>4, <1>5 DEF Ask, SetupInv, Serving, Ordinary
<1>7. /\ Serving' /\ Tells(request) /\ AnswersLast(receipts, restores, receipts', restores')
      /\ IsSnapshot(Response(request).snapshot)
      /\ Response(request).snapshot.history = state'.snapshot.history
  BY <1>1, <1>5, <1>6, Exchanged
<1>8. Begins(env.confirmed.history, Response(request).snapshot.history)
  <2>1. IsChain(env.confirmed.history) /\ request.checkpoint.history = env.confirmed.history
    BY <1>3, <1>5 DEF IsSnapshot, Checkpoint
  <2> QED BY <1>5, <1>7, <2>1 DEF Tells
<1>9. JournalOK(d, loaded[d], more, receipts, sent, restores) /\ more # NoJournal
  <2> DEFINE snap == Response(request).snapshot
             m == [env EXCEPT !.confirmed = snap, !.time = Response(request).time]
  <2>1. more = Registered(m)
    OBVIOUS
  <2>2. DOMAIN m = DOMAIN env /\ m.recovery = env.recovery /\ m.confirmed = snap
    <3> HIDE DEF env, snap
    <3> QED BY <1>3 DEF JournalOK
  <2> HIDE DEF m, more, env
  <2> QED BY <1>3, <1>7, <1>8, <2>1, <2>2, JournalStays
<1> HIDE DEF more
<1>10. dir.tasks = Dir(d).tasks /\ dir.stage = Dir(d).stage /\ dir.state = more
  BY PlaceNow DEF SetupInv, DirOK, IsDir
<1> HIDE DEF dir
<1>11. ~Begun(dir) /\ ~IsNew(dir) /\ Asked(d, dir, sent)
  <2>1. ~Begun(dir) /\ ~IsNew(dir) /\ ~IsNew(Dir(d))
    BY <1>1, <1>9, <1>10 DEF Begun, IsNew
  <2> QED BY <2>1 DEF Asked
<1>12. DirSafe(d, loaded[d], newest[d], dir, receipts, sent, restores)
  BY <1>1, <1>2, <1>9, <1>10, <1>11 DEF DirSafe
<1>13. DirSafe(d, loaded[d], newest[d], dir, receipts', sent', restores')
  BY <1>1, <1>7, <1>11, <1>12, DirStays
<1>14. Continues(d, loaded[d]) /\ PlaceSafe(None, dir)
  BY <1>1, <1>7, SafeNow, PlacesDiffer DEF Continues, PlaceSafe
<1>15. at' = [at EXCEPT ![d] = None] /\ newest' = [newest EXCEPT ![d] = newest[d]]
  BY <1>1, <1>2
<1> QED BY <1>5, <1>7, <1>13, <1>14, <1>15, KeepsSafely

\* A command of a bound stage: no other brings its titles under another identity.
LEMMA Sends ==
  ASSUME SetupInv, NEW d \in Device, at[d] = "work", Unsent(Dir(d).stage),
         NEW request, request.device = d, request.command = NextCommand(Dir(d).stage),
         sent' = sent \cup {request}
  PROVE  /\ Single(sent') /\ Ask(request, sent') /\ sent \subseteq sent'
         /\ \A x \in Entries(disk[d]) : Asked(d, x, sent')
         /\ Asked(d, Dir(d), sent')
<1> DEFINE dir == Dir(d)
           stage == dir.stage
           n == stage.next + 1
           how == loaded[d]
           plans == stage.plans
           c == request.command
<1>1. /\ Begun(dir) /\ IsDir(d, dir) /\ IsStage(stage) /\ Bound(dir, sent)
      /\ \A x \in Entries(disk[d]) : x = dir
  <2>1. IsLog(disk[d]) /\ Len(disk[d]) = 1 /\ dir = Latest(disk[d]) /\ DirOK(d, dir, drawn, sent) /\ Begun(dir)
    BY PlaceNow DEF SetupInv
  <2> QED BY <2>1, LogFacts DEF Entries, Latest, DirOK, IsDir
<1>2. DirSafe(d, how, newest[d], dir, receipts, sent, restores)
  BY SafeNow
<1>3. /\ PlansOK(d, how, plans) /\ IsSnapshot(stage.confirmed) /\ n \in DOMAIN plans
  BY <1>1, <1>2 DEF DirSafe, StageOK, Unsent, IsStage
<1> HIDE DEF how
<1>4. ASSUME NEW k \in DOMAIN plans, NEW b, b = Bind(stage, plans[k])
      PROVE  AsksPlan(d, plans[k], b)
  BY <1>3, <1>4, BindAsks
<1>5. c = Bind(stage, plans[n])
  BY DEF NextCommand
<1> HIDE DEF c, stage, plans, n
<1>6. AsksPlan(d, plans[n], c)
  BY <1>3, <1>4, <1>5
<1>7. c \in Commands(sent') /\ c \in Command /\ Ordinary(c, sent') /\ c.id = plans[n].id
  BY <1>6 DEF AsksPlan, Commands, Ordinary, c
<1>8. Asked(d, dir, sent')
  <2>1. c.id \in PlanIds(dir)
    BY <1>1, <1>3, <1>7 DEF PlanIds, plans, stage
  <2> HIDE DEF dir
  <2> QED BY <1>1, <1>2, <2>1 DEF DirSafe, Asked, IsNew, c
<1>9. ASSUME NEW title \in LocalTitles, NEW s \in sent, Brings(c, title), Brings(s.command, title)
      PROVE  s.command.id = c.id
  <2>1. title \in OwnTitles(d) /\ title \in OwnTitles(s.device) /\ s.device \in Device
    BY <1>9, <1>6 DEF AsksPlan, SetupInv, Serving, Single
  <2>2. s.device = d
    BY <2>1, SetupAssumption DEF OwnTitles
  <2>3. PICK k \in DOMAIN plans : plans[k].id = s.command.id
    BY <1>1, <1>2, <2>2 DEF DirSafe, Asked, PlanIds, plans, stage
  <2>4. Bind(stage, plans[k]) = s.command
    BY <1>1, <2>3 DEF Bound, plans, stage
  <2>5. Brings(plans[k], title) /\ Brings(plans[n], title)
    <3>1. AsksPlan(d, plans[k], s.command)
      BY <1>4, <2>4
    <3> QED BY <1>9, <1>6, <3>1 DEF AsksPlan
  <2>6. title \in Lot(d, how, k) /\ title \in Lot(d, how, n)
    BY <1>3, <2>5 DEF PlansOK
  <2>7. k = n
    <3>1. CASE how.mode = "import"
      <4>1. k \in DOMAIN Local[d] /\ n \in DOMAIN Local[d]
        <5>1. how.tasks \in Files(d) /\ k \in 1..how.tasks.size /\ n \in 1..how.tasks.size
          BY <1>3, <3>1 DEF PlansOK
        <5> QED BY <5>1, FilesSized
      <4>2. Local[d][k].title = Local[d][n].title
        BY <2>6, <3>1 DEF Lot
      <4> QED BY <4>1, <4>2, SetupAssumption
    <3>2. CASE how.mode # "import"
      BY <1>3, <3>2 DEF PlansOK
    <3> QED BY <3>1, <3>2
  <2> QED BY <1>7, <2>3, <2>7
<1>10. Single(sent')
  <2>1. Single(sent)
    BY DEF SetupInv, Serving
  <2>2. ASSUME NEW r \in sent'
        PROVE  /\ r.device \in Device /\ Ordinary(r.command, sent')
               /\ \A title \in LocalTitles : Brings(r.command, title) => title \in OwnTitles(r.device)
    <3>1. CASE r \in sent
      BY <2>1, <3>1, OrdinaryStays DEF Single
    <3>2. CASE r = request
      BY <1>7, <1>6, <3>2 DEF AsksPlan, c
    <3> QED BY <3>1, <3>2
  <2>3. ASSUME NEW r \in sent', NEW s \in sent', NEW title \in LocalTitles,
               Brings(r.command, title), Brings(s.command, title)
        PROVE  r.command.id = s.command.id
    <3>1. CASE r \in sent /\ s \in sent
      BY <2>1, <2>3, <3>1 DEF Single
    <3>2. CASE r = request /\ s \in sent
      BY <1>9, <2>3, <3>2 DEF c
    <3>3. CASE s = request /\ r \in sent
      BY <1>9, <2>3, <3>3 DEF c
    <3>4. CASE r = request /\ s = request
      BY <3>4
    <3> QED BY <3>1, <3>2, <3>3, <3>4
  <2> QED BY <2>2, <2>3 DEF Single
<1>11. Ask(request, sent') /\ sent \subseteq sent'
  BY <1>7 DEF Ask, c
<1> QED BY <1>1, <1>8, <1>10, <1>11

\* One plan more is settled: its titles came, or it is kept as refused.
LEMMA SettledOK ==
  ASSUME NEW d \in Device, NEW how, NEW old, NEW rc, NEW out, NEW count,
         StageOK(d, how, old, rc, out, count), IsSnapshot(old.confirmed),
         old.next \in Nat, old.next + 1 \in DOMAIN old.plans,
         NEW rc2, NEW out2, NEW count2, AnswersLast(rc, count, rc2, count2), out \subseteq out2,
         NEW c, c = Bind(old, old.plans[old.next + 1]), c \in Commands(out2), c.id \in DOMAIN rc2,
         NEW stage, stage.mode = old.mode, stage.plans = old.plans, stage.next = old.next + 1,
         IsSnapshot(stage.confirmed), Begins(old.confirmed.history, stage.confirmed.history),
         rc2[c.id].outcome.status = "applied" =>
           /\ stage.recovery = old.recovery
           /\ \A title \in LocalTitles : Brings(c, title) => Arrived(stage.confirmed.history, title),
         rc2[c.id].outcome.status # "applied" =>
           \E item : item.command = c /\ stage.recovery = Append(old.recovery, item)
  PROVE  StageOK(d, how, stage, rc2, out2, count2)
<1> DEFINE n == old.next + 1
           items == old.recovery
           more == stage.recovery
           applied == rc2[c.id].outcome.status = "applied"
<1>1. /\ PlansOK(d, how, old.plans) /\ Progress(old) /\ old.mode = how.mode
      /\ Refusals(items, rc2, out2, count2)
  BY RefusalsStay DEF StageOK
<1>2. /\ c.action = old.plans[n].action
      /\ \A title : Brings(c, title) <=> Brings(old.plans[n], title)
  <2>1. AsksPlan(d, old.plans[n], c)
    BY <1>1, BindAsks
  <2> QED BY <2>1 DEF AsksPlan
<1>3. \A title : Arrived(old.confirmed.history, title) => Arrived(stage.confirmed.history, title)
  BY ArrivedLater DEF IsSnapshot
<1>4. /\ Refusals(more, rc2, out2, count2)
      /\ \A j \in DOMAIN items : j \in DOMAIN more /\ more[j] = items[j]
      /\ ~applied => \E j \in DOMAIN more : more[j].command = c
  <2>1. CASE applied
    BY <1>1, <2>1
  <2>2. CASE ~applied
    <3>1. PICK item : item.command = c /\ more = Append(items, item)
      BY <2>2
    <3>2. PICK S : items \in Seq(S)
      BY <1>1 DEF Refusals
    <3>3. items \in Seq(S \cup {item})
      BY <3>2, SeqMonotonic
    <3>4. /\ more \in Seq(S \cup {item}) /\ Len(more) = Len(items) + 1
          /\ \A i \in 1..Len(items) : more[i] = items[i]
          /\ more[Len(items) + 1] = item
      BY <3>1, <3>3, AppendProperties
    <3>5. DOMAIN more = 1..(Len(items) + 1) /\ DOMAIN items = 1..Len(items) /\ Len(items) \in Nat
      BY <3>3, <3>4, LenProperties
    <3> HIDE DEF items, more, applied
    <3>6. \A j \in DOMAIN more : \/ j \in DOMAIN items /\ more[j] = items[j]
                              \/ more[j] = item
      BY <3>4, <3>5
    <3>7. Refusals(more, rc2, out2, count2)
      BY <1>1, <2>2, <3>1, <3>4, <3>6 DEF Refusals, applied
    <3> QED BY <3>1, <3>4, <3>5, <3>7
  <2> QED BY <2>1, <2>2
<1>5. Progress(stage)
  <2> SUFFICES ASSUME NEW k \in 1..n
               PROVE  \/ \A title \in LocalTitles :
                           Brings(old.plans[k], title) => Arrived(stage.confirmed.history, title)
                      \/ \E j \in DOMAIN more : more[j].command.action = old.plans[k].action
    BY DEF Progress
  <2>1. CASE k = n
    BY <1>2, <1>4, <2>1
  <2>2. CASE k \in 1..old.next
    <3>1. \/ \A title \in LocalTitles :
               Brings(old.plans[k], title) => Arrived(old.confirmed.history, title)
          \/ \E j \in DOMAIN items : items[j].command.action = old.plans[k].action
      BY <1>1, <2>2 DEF Progress
    <3> QED BY <1>3, <1>4, <3>1
  <2> QED BY <2>1, <2>2
<1> QED BY <1>1, <1>4, <1>5 DEF StageOK

\* What Push leaves to the server and to the stage, whichever way it ends.
LEMMA PushSafe ==
  ASSUME SetupInv, Inv', NEW d \in Device, NEW now \in Nat, Push(d, now)
  PROVE  SetupInv'
<1> DEFINE old == Dir(d).stage
           request == Request(d, old)
           response == Response(request)
           stage == Settled(old, request.command, response)
           c == request.command
           cp == request.checkpoint
           how == loaded[d]
           dir == [Dir(d) EXCEPT !.stage = stage]
<1>1. /\ at[d] = "work" /\ Unsent(old) /\ sent' = sent \cup {request}
      /\ UNCHANGED <<newest, loaded, restores>>
      /\ \/ /\ Exchange(request, now)
            /\ \/ Loses(d) \/ GivesUp(d)
               \/ Answered(old, c, response) /\ SaveStage(d, stage, "work")
         \/ (GivesUp(d) \/ Loses(d)) /\ UNCHANGED serverVars
  BY DEF Push
<1>2. /\ c = NextCommand(old) /\ request.device = d /\ cp = Checkpoint(old.confirmed)
  BY DEF Request
<1> HIDE DEF request
<1>3. /\ Single(sent') /\ Ask(request, sent') /\ sent \subseteq sent'
      /\ \A x \in Entries(disk[d]) : Asked(d, x, sent')
      /\ Asked(d, Dir(d), sent')
  BY <1>1, <1>2, Sends
<1>4. /\ LogSafe(d, how, newest[d], disk[d], at[d], receipts, sent, restores)
      /\ DirSafe(d, how, newest[d], Dir(d), receipts, sent, restores)
      /\ loaded = [loaded EXCEPT ![d] = loaded[d]]
  BY SafeNow
<1> HIDE DEF stage, response
<1>5. ASSUME Serving', AnswersLast(receipts, restores, receipts', restores')
      PROVE  /\ Continues(d, how)
             /\ LogSafe(d, how, newest[d], disk[d], at[d], receipts', sent', restores')
  <2>1. Continues(d, how)
    BY <1>1, <1>2, <1>4, <1>5 DEF Continues
  <2>2. LogSafe(d, how, newest[d], disk[d], at[d], receipts', sent', restores')
    BY <1>3, <1>4, <1>5, LogStays
  <2> QED BY <2>1, <2>2
<1>6. ASSUME Serving', AnswersLast(receipts, restores, receipts', restores'), Loses(d) \/ GivesUp(d)
      PROVE  SetupInv'
  <2>1. disk' = disk /\ at' = [at EXCEPT ![d] = None] /\ newest' = newest
    BY <1>1, <1>6 DEF Loses, GivesUp
  <2> QED BY <1>5, <1>6, <2>1, StopsSafely
<1>7. CASE (GivesUp(d) \/ Loses(d)) /\ UNCHANGED serverVars
  <2>1. Serving'
    <3>1. Stored' /\ UNCHANGED <<state, receipts, artifact>>
      BY <1>7 DEF SetupInv, Serving, Stored, serverVars, server, database
    <3>2. /\ Told(state, receipts, sent')
          /\ artifact # None => Told(artifact.state, artifact.receipts, sent')
      BY <1>3, ToldStays DEF SetupInv, Serving
    <3> QED BY <1>3, <3>1, <3>2 DEF Serving
  <2>2. AnswersLast(receipts, restores, receipts', restores')
    BY <1>1, <1>7 DEF AnswersLast, serverVars, server
  <2> QED BY <1>6, <1>7, <2>1, <2>2
<1>8. ASSUME Exchange(request, now)
      PROVE  /\ Serving' /\ Tells(request) /\ AnswersLast(receipts, restores, receipts', restores')
             /\ IsSnapshot(response.snapshot)
             /\ response.snapshot.history = state'.snapshot.history
  BY <1>1, <1>3, <1>8, Exchanged DEF response
<1>9. CASE Exchange(request, now) /\ (Loses(d) \/ GivesUp(d))
  BY <1>6, <1>8, <1>9
<1>10. CASE Exchange(request, now) /\ Answered(old, c, response) /\ SaveStage(d, stage, "work")
  <2>1. CASE ~StageValid(stage)
    BY <1>6, <1>8, <1>10, <2>1 DEF SaveStage
  <2>2. CASE StageValid(stage)
    <3>1. PICK saved \in SaveResult : SaveDir(d, dir, saved, "work")
      BY <1>10, <2>2 DEF SaveStage
    <3>2. /\ IsDir(d, Dir(d)) /\ Begun(Dir(d)) /\ IsStage(old)
          /\ StageOK(d, how, old, receipts, sent, restores) /\ IsSnapshot(old.confirmed)
          /\ old.next \in Nat /\ old.next + 1 \in DOMAIN old.plans
      <4>1. IsDir(d, Dir(d)) /\ Begun(Dir(d)) /\ IsStage(old)
        BY <1>1, PlaceNow DEF SetupInv, DirOK, IsDir
      <4>2. StageOK(d, how, old, receipts, sent, restores)
        BY <1>4, <4>1 DEF DirSafe
      <4> QED BY <1>1, <4>1, <4>2 DEF StageOK, Unsent, IsStage
    <3>3. c # None /\ cp # None /\ response.receipt.outcome = receipts'[c.id].outcome
      <4>1. response.receipt # None
        BY <1>10 DEF Answered
      <4>2. c # None /\ response.receipt.outcome = receipts'[c.id].outcome
        BY <4>1 DEF response, Response
      <4>3. \A x, y : (x ?? y) = None => x = None
        BY DEF ??
      <4>4. Require(c = None \/ cp # None, "Invalid") = None
        BY <1>10, <4>3 DEF Exchange, ExchangeError
      <4>5. "Invalid" # None
        BY DistinctValues DEF Reason
      <4> QED BY <4>2, <4>4, <4>5 DEF Require
    <3>4. /\ stage.mode = old.mode /\ stage.plans = old.plans /\ stage.next = old.next + 1
          /\ stage.source = old.source /\ stage.confirmed = response.snapshot
      BY <3>2 DEF Settled, IsStage, StageFields, stage
    <3>5. stage.recovery = IF receipts'[c.id].outcome.status = "applied" THEN old.recovery
                           ELSE Append(old.recovery,
                                  [command |-> c, reason |-> response.receipt.outcome.reason])
      BY <3>2, <3>3 DEF Settled, IsStage, StageFields, stage
    <3>6. StageOK(d, how, stage, receipts', sent', restores')
      <4>1. c = Bind(old, old.plans[old.next + 1]) /\ c \in Commands(sent')
        BY <1>1, <1>2 DEF NextCommand, Commands
      <4>2. c.id \in DOMAIN receipts'
        BY <1>8, <1>10, <3>3 DEF Tells
      <4>3. IsSnapshot(stage.confirmed) /\ Begins(old.confirmed.history, stage.confirmed.history)
        BY <1>2, <1>8, <1>10, <3>2, <3>3, <3>4 DEF Tells, Checkpoint, IsSnapshot
      <4>4. receipts'[c.id].outcome.status = "applied" =>
              /\ stage.recovery = old.recovery
              /\ \A title \in LocalTitles : Brings(c, title) => Arrived(stage.confirmed.history, title)
        BY <1>8, <1>10, <3>3, <3>4, <3>5 DEF Tells
      <4>5. receipts'[c.id].outcome.status # "applied" =>
              \E item : item.command = c /\ stage.recovery = Append(old.recovery, item)
        <5> DEFINE item == [command |-> c, reason |-> response.receipt.outcome.reason]
        <5>1. item.command = c
          OBVIOUS
        <5> HIDE DEF item, c
        <5> QED BY <3>5, <5>1 DEF item
      <4> HIDE DEF c, old, how
      <4> QED BY <1>3, <1>8, <1>10, <3>2, <3>4, <4>1, <4>2, <4>3, <4>4, <4>5, SettledOK
    <3>7. dir.tasks = Dir(d).tasks /\ dir.stage = stage /\ dir.state = Dir(d).state
      BY <3>2 DEF IsDir
    <3> HIDE DEF dir
    <3>8. /\ Begun(dir) /\ PlanIds(dir) = PlanIds(Dir(d)) /\ ~IsNew(dir) /\ ~IsNew(Dir(d))
          /\ Exported(dir) = Exported(Dir(d))
      BY <3>2, <3>4, <3>7 DEF Begun, PlanIds, IsNew, Exported
    <3>9. Asked(d, dir, sent')
      BY <1>3, <3>2, <3>8 DEF Asked
    <3>10. DirSafe(d, how, newest[d], Dir(d), receipts', sent', restores')
      BY <1>3, <1>4, <1>8, <1>10, DirStays
    <3>11. DirSafe(d, how, newest[d], dir, receipts', sent', restores')
      BY <3>2, <3>4, <3>6, <3>7, <3>8, <3>9, <3>10 DEF DirSafe
    <3>12. PlaceSafe("work", dir)
      BY DEF PlaceSafe
    <3>13. newest' = newest
      BY <1>1
    <3> HIDE DEF how
    <3> QED BY <1>5, <1>8, <1>10, <3>1, <3>8, <3>11, <3>12, <3>13, SavesSafely
  <2> QED BY <2>1, <2>2
<1> QED BY <1>1, <1>7, <1>9, <1>10

\* The directories stay as they were.
LEMMA WaitsSafe ==
  ASSUME SetupInv, Inv', Serving', UNCHANGED setup, restores' \in Nat,
         AnswersLast(receipts, restores, receipts', restores')
  PROVE  SetupInv'
<1>1. UNCHANGED <<disk, at, sent, newest, loaded>>
  BY DEF setup
<1>2. ASSUME NEW d \in Device
      PROVE  LogSafe(d, loaded[d], newest[d], disk[d], at[d], receipts', sent', restores')
  <2>1. LogSafe(d, loaded[d], newest[d], disk[d], at[d], receipts, sent, restores)
    BY SafeNow
  <2> QED BY <1>1, <2>1, LogWaits
<1>3. Safe'
  BY <1>1, <1>2 DEF Safe
<1> QED BY <1>1, <1>3 DEF SetupInv

LEMMA ArriveSafe ==
  ASSUME SetupInv, Inv', NEW now \in Nat, Arrive(now)
  PROVE  SetupInv'
<1>1. PICK request \in sent : Exchange(request, now)
  BY DEF Arrive
<1>2. UNCHANGED <<setup, restores>> /\ sent' = sent
  BY DEF Arrive, setup
<1>3. Single(sent') /\ Ask(request, sent')
  BY <1>2 DEF SetupInv, Serving, Single, Ask, Ordinary
<1>4. Serving' /\ AnswersLast(receipts, restores, receipts', restores')
  BY <1>1, <1>2, <1>3, Exchanged
<1> QED BY <1>2, <1>4, WaitsSafe DEF SetupInv

LEMMA OperateSafe ==
  ASSUME SetupInv, Inv', Operate
  PROVE  SetupInv'
<1>1. UNCHANGED <<setup, sent>> /\ restores \in Nat
  BY DEF Operate, setup, SetupInv
<1>2. Stored /\ Single(sent') /\ Told(state, receipts, sent')
      /\ (artifact # None => Told(artifact.state, artifact.receipts, sent'))
  BY <1>1 DEF SetupInv, Serving
<1>3. CASE Backup /\ UNCHANGED restores
  <2>1. Stored' /\ UNCHANGED <<state, receipts>>
    BY <1>2, <1>3, OperatorKeeps DEF server
  <2>2. artifact'.state = state /\ artifact'.receipts = receipts
    BY <1>3 DEF Backup, database
  <2>3. Serving'
    BY <1>2, <2>1, <2>2 DEF Serving
  <2>4. AnswersLast(receipts, restores, receipts', restores')
    BY <1>3, <2>1 DEF AnswersLast
  <2> QED BY <1>1, <1>3, <2>3, <2>4, WaitsSafe
<1>4. CASE (RawRestore \/ RestoreGeneration) /\ restores' = restores + 1
  <2>1. Stored' /\ UNCHANGED artifact
    BY <1>2, <1>4, RestoreKeeps
  <2>2. Told(state', receipts', sent')
    BY <1>2, <1>4, RestoreTells
  <2>3. Serving'
    BY <1>2, <2>1, <2>2 DEF Serving
  <2>4. restores' \in Nat /\ restores' # 0
    BY <1>1, <1>4
  <2>5. AnswersLast(receipts, restores, receipts', restores')
    BY <2>4 DEF AnswersLast
  <2> QED BY <1>1, <2>3, <2>4, <2>5, WaitsSafe
<1> QED BY <1>3, <1>4 DEF Operate

LEMMA InitSetup == Init => SetupInv /\ Reading
<1> SUFFICES ASSUME Init PROVE SetupInv /\ Reading
  OBVIOUS
<1>1. Inv /\ Stored /\ Told(state, receipts, sent) /\ artifact = None
  BY InitInv, InitServes
<1>2. /\ sent = {} /\ restores = 0 /\ at = [d \in Device |-> None]
      /\ loaded = [d \in Device |-> [mode |-> None, tasks |-> Absent]]
      /\ newest = [d \in Device |->
           [tasks |-> IF Found[d] = 0 THEN Absent ELSE Queue(Found[d]), overlooked |-> None]]
  BY DEF Init
<1>3. Serving
  BY <1>1, <1>2 DEF Serving, Single
<1>4. Reading
  <2> SUFFICES ASSUME NEW d \in Device
               PROVE  DOMAIN newest[d] = {"tasks", "overlooked"} /\ newest[d].tasks \in Files(d)
    BY <1>2, PlacesDiffer DEF Reading
  <2>1. Found[d] \in 0..Len(Local[d])
    BY SetupAssumption
  <2> QED BY <1>2, <2>1 DEF Files
<1>5. ASSUME NEW d \in Device
      PROVE  LogSafe(d, loaded[d], newest[d], disk[d], at[d], receipts, sent, restores)
  <2> DEFINE dir == [tasks |-> newest[d].tasks, stage |-> NoStage, config |-> FALSE, state |-> NoJournal]
  <2>1. disk[d] = <<dir>>
    BY DEF Init
  <2>2. newest[d].tasks # Sentinel
    BY <1>4, FilesSized DEF Reading
  <2>3. dir.tasks = newest[d].tasks /\ dir.stage = NoStage /\ dir.state = NoJournal
    OBVIOUS
  <2> HIDE DEF dir
  <2>4. Entries(disk[d]) = {dir} /\ Latest(disk[d]) = dir
    BY <2>1, OneLog
  <2>5. ~Begun(dir) /\ IsNew(dir)
    BY <2>3 DEF Begun, NoStage, IsNew
  <2>6. DirSafe(d, loaded[d], newest[d], dir, receipts, sent, restores)
    BY <1>2, <2>2, <2>3, <2>5 DEF DirSafe, Asked
  <2>7. PlaceSafe(at[d], dir)
    BY <1>2, PlacesDiffer DEF PlaceSafe
  <2> QED BY <2>4, <2>5, <2>6, <2>7 DEF LogSafe
<1>6. Safe
  BY <1>5 DEF Safe
<1> QED BY <1>1, <1>2, <1>3, <1>4, <1>6 DEF SetupInv

\* A step of one device, as far as it is about tasks.json.
LEMMA ReadingStep ==
  ASSUME SetupInv, Reading, NEW d \in Device, NEW new, newest' = [newest EXCEPT ![d] = new],
         DOMAIN new = {"tasks", "overlooked"}, new.tasks \in Files(d),
         NEW place, at' = [at EXCEPT ![d] = place],
         NEW how, loaded' = [loaded EXCEPT ![d] = how],
         place = "prepare" => how.mode \in Mode /\ how.tasks \in Files(d)
  PROVE  Reading'
<1>1. /\ at \in [Device -> Places] /\ newest = [e \in Device |-> newest[e]]
      /\ loaded = [e \in Device |-> loaded[e]]
  BY DEF SetupInv, Inv, QInv
<1>2. newest'[d] = new /\ at'[d] = place /\ loaded'[d] = how
  BY <1>1
<1>3. \A e \in Device \ {d} : newest'[e] = newest[e] /\ at'[e] = at[e] /\ loaded'[e] = loaded[e]
  BY <1>1
<1>4. ASSUME NEW e \in Device
      PROVE  /\ DOMAIN newest'[e] = {"tasks", "overlooked"} /\ newest'[e].tasks \in Files(e)
             /\ at'[e] = "prepare" => loaded'[e].mode \in Mode /\ loaded'[e].tasks \in Files(e)
  BY <1>2, <1>3 DEF Reading
<1> QED BY <1>4 DEF Reading, Files

LEMMA NextReading == SetupInv /\ Reading /\ [Next]_vars => Reading'
<1> SUFFICES ASSUME SetupInv, Reading, [Next]_vars PROVE Reading'
  OBVIOUS
<1>1. \A d \in Device :
        /\ newest = [newest EXCEPT ![d] = newest[d]] /\ loaded = [loaded EXCEPT ![d] = loaded[d]]
        /\ at = [at EXCEPT ![d] = at[d]]
        /\ DOMAIN newest[d] = {"tasks", "overlooked"} /\ newest[d].tasks \in Files(d)
        /\ at[d] = "prepare" => loaded[d].mode \in Mode /\ loaded[d].tasks \in Files(d)
  BY SafeNow, PlaceNow DEF SetupInv, Reading
<1>2. None # "prepare"
  BY PlacesDiffer
<1>3. ASSUME NEW d \in Device, NEW mode \in Choices[d], Load(d, mode) PROVE Reading'
  <2> DEFINE how == [mode |-> mode, tasks |-> Dir(d).tasks]
             new == [newest[d] EXCEPT !.overlooked = None]
  <2>1. /\ IsNew(Dir(d)) /\ at' = [at EXCEPT ![d] = "prepare"]
        /\ loaded' = [loaded EXCEPT ![d] = how] /\ newest' = [newest EXCEPT ![d] = new]
    BY <1>3 DEF Load
  <2>2. DOMAIN new = {"tasks", "overlooked"} /\ new.tasks = newest[d].tasks
    BY <1>1
  <2>3. how.mode \in Mode /\ how.tasks \in Files(d)
    BY <2>1, NewFile, SetupAssumption
  <2> HIDE DEF how, new
  <2> QED BY <1>1, <2>1, <2>2, <2>3, ReadingStep
<1>4. ASSUME NEW d \in Device, NEW place, at' = [at EXCEPT ![d] = place],
             place \in Busy \cup {None, at[d]}, loaded' = loaded, newest' = newest
      PROVE  Reading'
  <2>1. place = "prepare" => at[d] = "prepare"
    BY <1>2, <1>4 DEF Busy
  <2> QED BY <1>1, <1>4, <2>1, ReadingStep
<1>5. ASSUME NEW d \in Device, NEW place, at' = [at EXCEPT ![d] = place],
             place \in Busy \cup {None}, loaded' = loaded, NEW missed, Overlooks(d, missed)
      PROVE  Reading'
  <2> DEFINE new == [newest[d] EXCEPT !.overlooked = IF missed THEN Dir(d).tasks ELSE @]
  <2>1. newest' = [newest EXCEPT ![d] = new]
    BY <1>5 DEF Overlooks
  <2>2. DOMAIN new = {"tasks", "overlooked"} /\ new.tasks = newest[d].tasks
    BY <1>1
  <2>3. place # "prepare"
    BY <1>2, <1>5 DEF Busy
  <2> HIDE DEF new
  <2> QED BY <1>1, <1>5, <2>1, <2>2, <2>3, ReadingStep
<1>6. ASSUME NEW d \in Device, Prepare(d) \/ Seal(d) PROVE Reading'
  <2>1. loaded' = loaded /\ \E missed : Overlooks(d, missed)
    BY <1>6 DEF Prepare, Seal
  <2>2. \E place \in Busy \cup {None} : at' = [at EXCEPT ![d] = place]
    BY <1>6 DEF Prepare, Seal, SaveStage, SaveDir, GivesUp, Busy
  <2> QED BY <1>5, <2>1, <2>2
<1>7. ASSUME NEW d \in Device, OldEdit(d) PROVE Reading'
  <2> DEFINE edited == Queue(newest[d].tasks.size + 1)
             new == [newest[d] EXCEPT !.tasks = edited]
  <2>1. /\ newest[d].tasks.size < Len(Local[d]) /\ newest' = [newest EXCEPT ![d] = new]
        /\ at' = at /\ loaded' = loaded
    BY <1>7 DEF OldEdit
  <2>2. edited \in Files(d)
    <3>1. newest[d].tasks.size \in Nat /\ Len(Local[d]) \in Nat
      BY <1>1, FilesSized
    <3>2. newest[d].tasks.size + 1 \in 0..Len(Local[d])
      BY <2>1, <3>1
    <3> QED BY <3>2 DEF Files
  <2> HIDE DEF edited
  <2>3. DOMAIN new = {"tasks", "overlooked"} /\ new.tasks = edited
    BY <1>1
  <2> HIDE DEF new
  <2>4. at' = [at EXCEPT ![d] = at[d]] /\ loaded' = [loaded EXCEPT ![d] = loaded[d]]
    BY <1>1, <2>1
  <2>5. newest' = [newest EXCEPT ![d] = new] /\ new.tasks \in Files(d)
    BY <2>1, <2>2, <2>3
  <2>6. at[d] = "prepare" => loaded[d].mode \in Mode /\ loaded[d].tasks \in Files(d)
    BY <1>1
  <2>7. DOMAIN new = {"tasks", "overlooked"}
    BY <2>3
  <2> QED BY <2>4, <2>5, <2>6, <2>7, ReadingStep
<1>8. ASSUME NEW d \in Device, Again(d) \/ ResumeSetup(d) \/ Die(d) PROVE Reading'
  <2>1. newest' = newest /\ loaded' = loaded
    BY <1>8 DEF Again, ResumeSetup, Die
  <2>2. \E place \in Busy \cup {None} : at' = [at EXCEPT ![d] = place]
    BY <1>8 DEF Again, ResumeSetup, Die, Busy
  <2>3. PICK place \in Busy \cup {None} : at' = [at EXCEPT ![d] = place]
    BY <2>2
  <2> QED BY <1>4, <2>1, <2>3
<1>9. ASSUME NEW d \in Device, SaveConfig(d) \/ Verify(d) \/ Activate(d) \/ Remove(d) PROVE Reading'
  <2>1. newest' = newest /\ loaded' = loaded
    BY <1>9 DEF SaveConfig, Verify, Activate, Remove
  <2>2. \E place \in Busy \cup {None} : at' = [at EXCEPT ![d] = place]
    BY <1>9 DEF SaveConfig, Verify, Activate, Remove, SaveDir, GivesUp, Busy
  <2> QED BY <1>4, <2>1, <2>2
<1>10. ASSUME NEW d \in Device, NEW now, Discover(d, now) \/ Push(d, now) PROVE Reading'
  <2>1. newest' = newest /\ loaded' = loaded
    BY <1>10 DEF Discover, Push
  <2>2. \/ Loses(d) \/ GivesUp(d)
        \/ \E stage : SaveStage(d, stage, "work")
    BY <1>10 DEF Discover, Push
  <2>3. \E place \in Busy \cup {None} : at' = [at EXCEPT ![d] = place]
    BY <2>2 DEF SaveStage, Loses, SaveDir, GivesUp, Busy
  <2> QED BY <1>4, <2>1, <2>3
<1>11. ASSUME UNCHANGED <<at, newest, loaded>> PROVE Reading'
  BY <1>11 DEF Reading, Files
<1>12. ASSUME NEW d \in Device, NEW now, App(d, now) PROVE Reading'
  <2>1. UNCHANGED <<at, newest, loaded>>
    BY <1>12, Zenon DEF App
  <2> QED BY <1>11, <2>1
<1>13. CASE (\E now \in 0..MaxTime : Arrive(now)) \/ Operate \/ UNCHANGED vars
  BY <1>11, <1>13 DEF Arrive, Operate, vars, setup
<1>14. ASSUME NEW d \in Device, Step(d) PROVE Reading'
  BY <1>6, <1>9, <1>10, <1>14 DEF Step
<1> QED BY <1>3, <1>7, <1>8, <1>12, <1>13, <1>14 DEF Next

LEMMA NextSetup == SetupInv /\ Reading /\ [Next]_vars => SetupInv'
<1> SUFFICES ASSUME SetupInv, Reading, [Next]_vars PROVE SetupInv'
  OBVIOUS
<1>1. Inv'
  BY NextInv DEF SetupInv
<1>2. \A now \in 0..MaxTime : now \in Nat
  BY SetupAssumption
<1>3. ASSUME NEW d \in Device, NEW mode \in Choices[d], Load(d, mode) PROVE SetupInv'
  BY <1>1, <1>3, LoadSafe
<1>4. ASSUME NEW d \in Device, Again(d) \/ ResumeSetup(d) PROVE SetupInv'
  BY <1>1, <1>4, RestartSafe
<1>5. ASSUME NEW d \in Device, Step(d) PROVE SetupInv'
  BY <1>1, <1>2, <1>5, PrepareSafe, SaveConfigSafe, VerifySafe, DiscoverSafe, PushSafe, ActivateSafe, SealSafe,
     RemoveSafe DEF Step
<1>6. ASSUME NEW d \in Device, OldEdit(d) \/ Die(d) PROVE SetupInv'
  BY <1>1, <1>6, OldEditSafe, DieSafe
<1>7. ASSUME NEW d \in Device, NEW now \in 0..MaxTime, App(d, now) PROVE SetupInv'
  BY <1>1, <1>2, <1>7, AppSafe
<1>8. ASSUME NEW now \in 0..MaxTime, Arrive(now) PROVE SetupInv'
  BY <1>1, <1>2, <1>8, ArriveSafe
<1>9. CASE Operate
  BY <1>1, <1>9, OperateSafe
<1>10. CASE UNCHANGED vars
  <2>1. UNCHANGED <<serverVars, setup, sent, receipts, restores>>
    BY <1>10 DEF vars, setup, serverVars, server
  <2>2. Serving' /\ restores' \in Nat
    BY <2>1, ServingStays DEF SetupInv
  <2>3. AnswersLast(receipts, restores, receipts', restores')
    BY <2>1 DEF AnswersLast
  <2> QED BY <1>1, <2>1, <2>2, <2>3, WaitsSafe
<1> QED BY <1>3, <1>4, <1>5, <1>6, <1>7, <1>8, <1>9, <1>10 DEF Next

LEMMA SpecSetupInv == Spec => [](SetupInv /\ Reading)
BY InitSetup, NextSetup, NextReading, PTL DEF Spec

\* A setup that died after it made the journal makes the same one when it is
\* resumed, wherever it died and whatever a power failure brought back.
THEOREM SpecSameJournal == Spec => []SameJournal
<1>1. Inv => SameJournal
  BY DEF Inv, QInv, Entries, DirOK, IsDir, SameJournal
<1>2. SetupInv => Inv
  BY DEF SetupInv
<1> QED BY <1>1, <1>2, SpecSetupInv, PTL

\* A command is only ever sent with one content, by whichever device.
THEOREM SpecBoundOnce == Spec => []BoundOnce
<1>1. Inv => BoundOnce
  BY DEF Inv, QInv, BoundOnce
<1>2. SetupInv => Inv
  BY DEF SetupInv
<1> QED BY <1>1, <1>2, SpecSetupInv, PTL

\* No local task is lost, on any device, in any mode, whatever fails, dies or comes
\* back, and whenever an old build edits the queue: tasks.json is that queue as it
\* was last edited, or a journal is in its place.  The journal has each of its tasks
\* in its history or keeps it as refused, unless the user chose to leave them in
\* the backup; but if setup overlooked an edit, only each of those it loaded.
THEOREM SpecNothingLost == Spec => []NothingLost
<1>1. SetupInv => NothingLost
  <2> SUFFICES ASSUME SetupInv, NEW d \in Device, NEW i \in DOMAIN disk[d]
               PROVE  LET dir == disk[d][i]
                          last == newest[d]
                          kept == IF dir.tasks = Sentinel /\ last.overlooked = None
                                  THEN last ELSE loaded[d]
                      IN /\ \/ dir.tasks = last.tasks
                            \/ dir.tasks = Sentinel /\ dir.state # NoJournal
                         /\ dir.state # NoJournal /\ loaded[d].mode # "shared" =>
                              \A n \in 1..kept.tasks.size : Accounted(dir, Local[d][n].title)
                         /\ Begun(dir) /\ last.overlooked = None => Exported(dir) = last.tasks
    BY DEF NothingLost
  <2> DEFINE dir == disk[d][i]
             last == newest[d]
             kept == IF dir.tasks = Sentinel /\ last.overlooked = None THEN last ELSE loaded[d]
  <2>1. DirSafe(d, loaded[d], newest[d], dir, receipts, sent, restores)
    BY SafeNow DEF LogSafe, Entries
  <2> HIDE DEF dir
  <2>2. kept.tasks = loaded[d].tasks
    BY <2>1 DEF DirSafe
  <2> HIDE DEF kept
  <2>3. ASSUME dir.state # NoJournal, loaded[d].mode # "shared", NEW n \in 1..kept.tasks.size
        PROVE  Accounted(dir, Local[d][n].title)
    <3>1. Local[d][n].title \in Planned(d, loaded[d])
      BY <2>2, <2>3 DEF Planned
    <3> QED BY <2>1, <2>3, <3>1 DEF DirSafe, JournalOK, Arrived, Accounted
  <2>4. \/ dir.tasks = last.tasks
        \/ dir.tasks = Sentinel /\ dir.state # NoJournal
    BY <2>1 DEF DirSafe
  <2>5. Begun(dir) /\ last.overlooked = None => Exported(dir) = last.tasks
    BY <2>1 DEF DirSafe
  <2> QED BY <2>3, <2>4, <2>5 DEF dir, kept
<1> QED BY <1>1, SpecSetupInv, PTL

\* No local task comes to the shared queue twice, whatever was sent again, arrived
\* late or came back with a backup; and while none came back, a task that is kept
\* as refused is not there.
THEOREM SpecArrivesOnce == Spec => []ArrivesOnce
<1>1. SetupInv => ArrivesOnce
  <2> SUFFICES ASSUME SetupInv, NEW d \in Device, NEW n \in DOMAIN Local[d]
               PROVE  LET chain == state.snapshot.history
                          title == Local[d][n].title
                          arrivals == {i \in DOMAIN chain : title \in Brought(chain, i)}
                      IN /\ Cardinality(arrivals) <= 1
                         /\ restores = 0 /\ Refused(Dir(d), title) => arrivals = {}
    BY DEF ArrivesOnce
  <2> DEFINE chain == state.snapshot.history
             title == Local[d][n].title
             arrivals == {i \in DOMAIN chain : title \in Brought(chain, i)}
             Come(i) == /\ chain[i].by \in DOMAIN receipts
                        /\ Brings(receipts[chain[i].by].command, title)
  <2>1. title \in LocalTitles
    BY DEF LocalTitles, OwnTitles
  <2>2. \A i \in arrivals : i \in DOMAIN chain /\ Come(i)
    BY <2>1 DEF SetupInv, Serving, Told
  <2>3. OneEffect(state, receipts, roots)
    BY DEF SetupInv, Serving, Stored, Good
  <2>4. \A x \in DOMAIN receipts : /\ receipts[x].command.id = x /\ x \in CommandId
                                   /\ Ordinary(receipts[x].command, sent)
    BY CommandKinds DEF SetupInv, Serving, Told, Ordinary
  <2>5. \A a, b \in Commands(sent) : Brings(a, title) /\ Brings(b, title) => a.id = b.id
    BY <2>1 DEF SetupInv, Serving, Single, Commands
  <2> HIDE DEF title, chain
  <2>6. \A x \in DOMAIN receipts : Brings(receipts[x].command, title) => receipts[x].command \in Commands(sent)
    BY <2>1, <2>4 DEF Ordinary
  <2>7. \A i, j \in arrivals : i = j
    BY <2>2, <2>3, <2>4, <2>5, <2>6 DEF OneEffect, chain
  <2>8. Cardinality(arrivals) <= 1
    <3> HIDE DEF arrivals
    <3>1. CASE arrivals = {}
      BY <3>1, FS_EmptySet
    <3>2. CASE arrivals # {}
      <4>1. PICK i \in arrivals : TRUE
        BY <3>2
      <4>2. arrivals = {i}
        BY <2>7
      <4> QED BY <4>2, FS_Singleton
    <3> QED BY <3>1, <3>2
  <2>9. ASSUME restores = 0, Refused(Dir(d), title), NEW i \in arrivals PROVE FALSE
    <3>0. PICK items : Refusals(items, receipts, sent, restores) /\ KeptAsRefused(items, title)
      BY <2>9, SafeNow DEF DirSafe, StageOK, JournalOK, Refused
    <3>1. PICK j \in DOMAIN items :
            items[j].command.action.op = "Create" /\ items[j].command.action.title = title
      BY <3>0 DEF KeptAsRefused
    <3> DEFINE c == items[j].command
    <3>2. /\ c \in Commands(sent) /\ Brings(c, title)
          /\ c.id \in DOMAIN receipts /\ receipts[c.id].outcome.status # "applied"
      BY <2>9, <3>0, <3>1 DEF Refusals, Brings
    <3>3. chain[i].by = c.id
      BY <2>2, <2>4, <2>5, <2>6, <3>2
    <3>4. receipts[chain[i].by].outcome.status = "applied"
      <4>1. i \in DOMAIN chain /\ chain[i].by \in CommandId
        BY <2>2, <2>4
      <4>2. receipts[chain[i].by].outcome = Applied(chain[i].result.revision)
        BY <2>3, <4>1 DEF OneEffect, chain
      <4> QED BY <4>2 DEF Applied
    <3> QED BY <3>2, <3>3, <3>4
  <2> QED BY <2>8, <2>9 DEF title, chain
<1> QED BY <1>1, SpecSetupInv, PTL
=============================================================================
