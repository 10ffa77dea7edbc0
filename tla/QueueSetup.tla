----------------------------- MODULE QueueSetup -----------------------------
(***************************************************************************)
(* How a device joins a shared queue: crates/qf-sync/src/setup.rs, run by  *)
(* the qf-sync utility (main.rs) over the data directory, against the      *)
(* server of QueueServer.  The utility may fail or die between any two of  *)
(* its steps and is run again; other devices set up at the same time; an   *)
(* old build of the app, which knows no lock, may still edit tasks.json;   *)
(* backups of the server come back.                                        *)
(*                                                                         *)
(* A directory is [tasks, stage, config, state]:                           *)
(*   tasks    tasks.json: Absent, Queue(n), the first n tasks of Local, to *)
(*            which each edit adds the next, or Sentinel, which no         *)
(*            standalone build can load                                    *)
(*   stage    sync-setup.json, with the backup it names, or NoStage        *)
(*   config   whether the credentials are there                            *)
(*   state    the journal of QueueClient once sync is active, or NoJournal *)
(* Once there is a stage the process keeps nothing in memory that its      *)
(* directory does not hold; before, it has what it loaded of tasks.json.   *)
(***************************************************************************)
EXTENDS QueueServer, QueueClient

CONSTANTS
  Local,        \* per device, the tasks its standalone queue may come to have, in order
  Found,        \* per device, how many of them are there at first
  Choices,      \* per device, the modes its user may choose
  Added,        \* the title of a task added in the app
  Failure,      \* what goes wrong: "before", "after", "crash", "power", "lost", "late", "old"
  MaxTime,      \* bound on the server's sampled clock
  MaxMishaps,   \* bound on failed saves, lost answers and deaths
  MaxRestores   \* bound on restores of the one backup taken

Mode == {"initialize", "import", "shared"}
LocalTask == [title : Title, tag : Tag \cup {None}, bucket : Bucket]

\* What tasks.json may be.
File == [kind : {"absent", "queue", "sentinel"}, size : Nat]
Absent == [kind |-> "absent", size |-> 0]
Queue(n) == [kind |-> "queue", size |-> n]
Sentinel == [kind |-> "sentinel", size |-> 0]

ASSUME SetupAssumption ==
  /\ None \notin Mode \cup {"prepare", "config", "open", "work", "seal", "remove"}
  /\ None \notin File
  /\ IsFiniteSet(Device) /\ IsFiniteSet(CommandId) /\ IsFiniteSet(TaskId)
  /\ MaxTime \in Nat
  /\ \A d \in Device : Local[d] \in Seq(LocalTask) /\ Choices[d] \subseteq Mode
  /\ \A d \in Device : Found[d] \in 0..Len(Local[d])
  /\ Added \in Title /\ \A d \in Device : \A i \in DOMAIN Local[d] : Local[d][i].title # Added
  /\ \A d, e \in Device : \A i \in DOMAIN Local[d] : \A j \in DOMAIN Local[e] :
       Local[d][i].title = Local[e][j].title => d = e /\ i = j
  /\ \A d \in Device : Cardinality({i \in DOMAIN Local[d] : Local[d][i].bucket = "now"}) <= 1

VARIABLES
  disk,         \* per device, the directories a power failure could bring back,
                \* oldest first; the last is read, and is alone once durable
  at,           \* per device, what the utility does next; None when not running
  sent,         \* commands that were sent, which may still arrive
  drawn,        \* identities drawn so far, of commands and tasks
  loaded,       \* per device, the mode its setup was asked for and the tasks.json it
                \* loaded: what it has while it prepares, and history afterwards
  newest,       \* history: per device, tasks.json as last edited, and the one with an
                \* edit that its setup overlooked, or None
  mishaps, restores

setup == <<disk, at, sent, drawn, newest, loaded>>
vars == <<serverVars, setup, mishaps, restores>>

Dir(d) == disk[d][Len(disk[d])]

\* Whether there is a stage: a setup was begun and is not finished.
NoStage == [mode |-> None]
Begun(dir) == dir.stage.mode # None

\* In the place of a journal where there is none.
NoJournal == [device |-> None]

TokenOf(device) ==
  LET inOrder == Sq!SetToSeq(Device) IN CHOOSE i \in DOMAIN inOrder : inOrder[i] = device

Init ==
  /\ state = NewState(FreshIn(Generation, {}))
  /\ history = [r \in {0} |-> state.snapshot.history]
  /\ receipts = <<>> /\ lastTime = 0
  /\ enrolled = [d \in Device |-> [token |-> TokenOf(d), revoked |-> FALSE]]
  /\ minted = Cardinality(Device) /\ roots = {FreshIn(Generation, {})} /\ artifact = None
  /\ newest = [d \in Device |->
       [tasks |-> IF Found[d] = 0 THEN Absent ELSE Queue(Found[d]), overlooked |-> None]]
  /\ disk = [d \in Device |-> <<[tasks |-> newest[d].tasks, stage |-> NoStage,
                                 config |-> FALSE, state |-> NoJournal]>>]
  /\ at = [d \in Device |-> None]
  /\ loaded = [d \in Device |-> [mode |-> None, tasks |-> Absent]]
  /\ sent = {} /\ drawn = {} /\ mishaps = 0 /\ restores = 0

(***************************************************************************)
(* The stage                                                               *)
(***************************************************************************)
Picked(S, n) ==
  LET left == Sq!SetToSeq(S \ drawn) IN SubSeq(left, 1, IF n < Len(left) THEN n ELSE Len(left))

\* The queue that was loaded, and how many tasks and commands it takes.
Tasks(d) == SubSeq(Local[d], 1, loaded[d].tasks.size)
Plenty(d) == IF loaded[d].mode = "initialize" THEN 1 ELSE Len(Tasks(d))
Enough(d) ==
  /\ Cardinality(TaskId \ drawn) >= Len(Tasks(d))
  /\ Cardinality(CommandId \ drawn) >= Plenty(d)

\* Local Now is imported into Next.
ImportBucket(bucket) == IF bucket = "now" THEN "next" ELSE bucket

\* What a mode makes of the local queue, under the identities it was given.
Plans(tasks, mode, ids, commands) ==
  CASE mode = "initialize" ->
         <<[id |-> commands[1],
            action |-> [op |-> "Initialize",
              seeds |-> [i \in DOMAIN tasks |->
                [id |-> ids[i], title |-> tasks[i].title, tag |-> tasks[i].tag,
                 bucket |-> tasks[i].bucket, created |-> 0]],
              timer |-> IF \E i \in DOMAIN tasks : tasks[i].bucket = "now"
                        THEN [elapsed |-> 0, running |-> TRUE] ELSE None]]>>
    [] mode = "import" ->
         [i \in DOMAIN tasks |->
           [id |-> commands[i],
            action |-> [op |-> "Create", task |-> ids[i], title |-> tasks[i].title,
                        tag |-> tasks[i].tag, bucket |-> ImportBucket(tasks[i].bucket)]]]
    [] mode = "shared" -> <<>>

\* The plans are made of what was loaded; the backup, and with it what tasks.json
\* is compared with from now on, is what it is now.
Stage(d) ==
  LET mode == loaded[d].mode
      ids == Picked(TaskId, Len(Tasks(d)))
  IN [mode |-> mode, source |-> Dir(d).tasks,
      plans |-> Plans(Tasks(d), mode, ids, Picked(CommandId, Plenty(d))),
      next |-> 0, confirmed |-> None, time |-> 0, recovery |-> <<>>,
      handles |-> IF mode = "shared" THEN <<>>
                  ELSE [t \in Fn!Range(ids) |-> CHOOSE i \in DOMAIN ids : ids[i] = t],
      nextHandle |-> Len(Tasks(d)) + 1]

\* Stage::bind, once a queue was discovered.
Bind(stage, plan) ==
  [id |-> plan.id, generation |-> stage.confirmed.generation, guard |-> None,
   action |-> plan.action]

\* Stage::validate, checked before every save and by every read.
TasksOf(action) ==
  IF action.op = "Initialize" THEN [i \in DOMAIN action.seeds |-> action.seeds[i].id]
  ELSE <<action.task>>
StageValid(stage) ==
  LET plans == stage.plans
      ids == [i \in DOMAIN plans |-> plans[i].id]
      tasks == Sq!FlattenSeq([i \in DOMAIN plans |-> TasksOf(plans[i].action)])
  IN /\ Len(plans) <= MaxTasks /\ stage.next <= Len(plans)
     /\ IF stage.confirmed = None THEN stage.next = 0 ELSE SnapshotValid(stage.confirmed)
     /\ stage.mode = "initialize" => Len(plans) = 1
     /\ \A i \in DOMAIN plans :
          <<stage.mode, plans[i].action.op>> \in {<<"initialize", "Initialize">>, <<"import", "Create">>}
     /\ Fn!IsInjective(ids) /\ Fn!IsInjective(tasks)
     /\ DOMAIN stage.handles = Fn!Range(tasks) /\ Fn!IsInjective(stage.handles)
     /\ Fn!Range(stage.handles) \subseteq 1..(stage.nextHandle - 1)
     /\ \A k \in DOMAIN stage.recovery : \E i \in 1..stage.next :
          stage.recovery[k].command = Bind(stage, plans[i])

\* verify_source: tasks.json is what the backup has, or already the sentinel.
SourceHolds(dir) ==
  \/ dir.tasks = dir.stage.source
  \/ dir.state # NoJournal /\ dir.tasks = Sentinel

\* What the discovered queue must be for the mode that was chosen.
Suits(stage, snap) ==
  /\ snap.initialized <=> stage.mode # "initialize"
  /\ stage.mode = "import" => Cardinality(Live(snap)) + Len(stage.plans) <= MaxTasks

Discovered(stage, response) ==
  [stage EXCEPT !.confirmed = response.snapshot, !.time = response.time]

\* The answer is one to the command that was sent, and goes on from what is known.
Answered(stage, command, response) ==
  LET outcome == response.receipt.outcome
  IN /\ response.receipt # None /\ response.receipt.command = command.id
     /\ response.snapshot.generation = stage.confirmed.generation
     /\ response.snapshot.revision >= stage.confirmed.revision
     /\ response.time >= stage.time
     /\ response.snapshot.revision = stage.confirmed.revision
          => response.snapshot = stage.confirmed
     /\ outcome.status = "applied" =>
          outcome.revision \in (stage.confirmed.revision + 1)..response.snapshot.revision

\* Fault: a refused task is passed over.
FaultSettled(stage, command, response) ==
  [stage EXCEPT !.next = @ + 1, !.confirmed = response.snapshot, !.time = response.time]

Settled(stage, command, response) ==
  [stage EXCEPT !.next = @ + 1, !.confirmed = response.snapshot, !.time = response.time,
     !.recovery = IF response.receipt.outcome.status = "applied" THEN @
                  ELSE Append(@, [command |-> command,
                                  reason |-> response.receipt.outcome.reason])]

\* Fault: the journal takes the queue of the moment it is made.
FaultActivation(device, stage) ==
  Registered([NewEnvelope(device, state.snapshot, stage.time) EXCEPT
    !.handles = stage.handles, !.nextHandle = stage.nextHandle, !.recovery = stage.recovery])

\* Fault: the local names are given to the tasks of the shared queue again.
FaultRenumbered(device, stage) ==
  Registered([NewEnvelope(device, stage.confirmed, stage.time) EXCEPT
    !.handles = stage.handles, !.nextHandle = 1, !.recovery = stage.recovery])

\* The journal the app will start from.
Activation(device, stage) ==
  Registered([NewEnvelope(device, stage.confirmed, stage.time) EXCEPT
    !.handles = stage.handles, !.nextHandle = stage.nextHandle, !.recovery = stage.recovery])

\* What an export of an unfinished setup takes for the local queue.
Exported(dir) == IF dir.tasks \in {Sentinel, Absent} THEN dir.stage.source ELSE dir.tasks

(***************************************************************************)
(* Saves, of which each ends "ok", "before" its commit or "after" it; but  *)
(* for "ok" the utility gives up, and so it does when it finds an error.   *)
(***************************************************************************)
SaveResult == {"ok"} \cup (Failure \cap {"before", "after"})
Cost(ok) == IF ok THEN 0 ELSE 1
Mishaps(count) == mishaps' = mishaps + count /\ mishaps' <= MaxMishaps

Saved(dirs, dir, saved) ==
  CASE saved = "ok" -> <<dir>> [] saved = "after" -> Append(dirs, dir) [] saved = "before" -> dirs

SaveDir(d, dir, saved, then) ==
  /\ disk' = [disk EXCEPT ![d] = Saved(@, dir, saved)]
  /\ at' = [at EXCEPT ![d] = IF saved = "ok" THEN then ELSE None]
  /\ Mishaps(Cost(saved = "ok"))

\* DataLock::acquire, held by the utility for as long as it runs.
Unlocked(d) == at[d] = None

GivesUp(d) == at' = [at EXCEPT ![d] = None] /\ UNCHANGED <<disk, mishaps>>

\* Stage::save.
SaveStage(d, stage, then) ==
  IF StageValid(stage)
  THEN \E saved \in SaveResult : SaveDir(d, [Dir(d) EXCEPT !.stage = stage], saved, then)
  ELSE GivesUp(d)

(***************************************************************************)
(* The utility                                                             *)
(***************************************************************************)
IsNew(dir) == ~Begun(dir) /\ dir.state = NoJournal

\* `qf-sync setup` in a directory without one: the queue is loaded.
Load(d, mode) ==
  /\ Unlocked(d) /\ IsNew(Dir(d)) /\ Dir(d).tasks.size <= MaxTasks
  /\ loaded' = [loaded EXCEPT ![d] = [mode |-> mode, tasks |-> Dir(d).tasks]]
  /\ newest' = [newest EXCEPT ![d].overlooked = None]
  /\ at' = [at EXCEPT ![d] = "prepare"]
  /\ UNCHANGED <<serverVars, disk, sent, drawn, mishaps, restores>>

Overlooks(d, missed) ==
  newest' = [newest EXCEPT ![d].overlooked = IF missed THEN Dir(d).tasks ELSE @]

\* tasks.json is read once more, for the backup, and the stage is saved.  (An
\* identity can always be drawn, but for the bound on them.)
Prepare(d) ==
  /\ at[d] = "prepare"
  /\ Overlooks(d, Dir(d).tasks # loaded[d].tasks)
  /\ \/ ~Enough(d) /\ GivesUp(d) /\ UNCHANGED drawn
     \/ /\ Enough(d) /\ SaveStage(d, Stage(d), "config")
        /\ drawn' = drawn \cup Fn!Range(Picked(TaskId, Len(Tasks(d))))
                          \cup {p.id : p \in Fn!Range(Stage(d).plans)}
  /\ UNCHANGED <<serverVars, sent, loaded, restores>>

\* The same command again, with the choices that were made.
Again(d) ==
  /\ Unlocked(d) /\ Begun(Dir(d))
  /\ at' = [at EXCEPT ![d] = "config"]
  /\ UNCHANGED <<serverVars, disk, sent, drawn, newest, loaded, mishaps, restores>>

SaveConfig(d) ==
  /\ at[d] = "config"
  /\ \E saved \in SaveResult : SaveDir(d, [Dir(d) EXCEPT !.config = TRUE], saved, "open")
  /\ UNCHANGED <<serverVars, sent, drawn, newest, loaded, restores>>

\* `qf-sync resume`.
ResumeSetup(d) ==
  /\ Unlocked(d) /\ Begun(Dir(d))
  /\ at' = [at EXCEPT ![d] = "open"]
  /\ UNCHANGED <<serverVars, disk, sent, drawn, newest, loaded, mishaps, restores>>

\* Fault: what was read is not made durable before anything is sent.
FaultSynced(dirs) == dirs

Synced(dirs) == <<dirs[Len(dirs)]>>

\* resume_locked: make what is there durable, and look that nothing changed.
Verify(d) ==
  /\ at[d] = "open"
  /\ \/ /\ disk' = [disk EXCEPT ![d] = Synced(@)]
        /\ at' = [at EXCEPT ![d] = IF StageValid(Dir(d).stage) /\ SourceHolds(Dir(d)) /\ Dir(d).config
                                   THEN "work" ELSE None]
        /\ UNCHANGED mishaps
     \/ /\ "after" \in Failure /\ Mishaps(1)
        /\ at' = [at EXCEPT ![d] = None]
        /\ UNCHANGED disk
  /\ UNCHANGED <<serverVars, sent, drawn, newest, loaded, restores>>

\* The exchange that is lost, before or after the server executed it.
Loses(d) ==
  /\ "lost" \in Failure /\ Mishaps(1)
  /\ at' = [at EXCEPT ![d] = None]
  /\ UNCHANGED disk

\* The read without a checkpoint, and the stage bound to what it found.
Discover(d, now) ==
  LET stage == Dir(d).stage
      request == [token |-> TokenOf(d), device |-> d, checkpoint |-> None, command |-> None]
  IN /\ at[d] = "work" /\ stage.confirmed = None
     /\ Exchange(request, now)
     /\ \/ Loses(d)
        \/ ~Suits(stage, Response(request).snapshot) /\ GivesUp(d)
        \/ /\ Suits(stage, Response(request).snapshot)
           /\ SaveStage(d, Discovered(stage, Response(request)), "work")
     /\ UNCHANGED <<sent, drawn, newest, loaded, restores>>

\* The next plan.
Unsent(stage) == stage.confirmed # None /\ stage.next < Len(stage.plans)
NextCommand(stage) == Bind(stage, stage.plans[stage.next + 1])
Request(d, stage) ==
  [token |-> TokenOf(d), device |-> d, checkpoint |-> Checkpoint(stage.confirmed),
   command |-> NextCommand(stage)]

Push(d, now) ==
  LET stage == Dir(d).stage
      request == Request(d, stage)
      Good == Answered(stage, request.command, Response(request))
  IN /\ at[d] = "work" /\ Unsent(stage)
     /\ sent' = sent \cup {request}
     /\ \/ /\ Exchange(request, now)
           /\ \/ Loses(d)
              \/ ~Good /\ GivesUp(d)
              \/ /\ Good
                 /\ SaveStage(d, Settled(stage, request.command, Response(request)), "work")
        \/ ExchangeError(request) # None /\ GivesUp(d) /\ UNCHANGED serverVars
        \/ Loses(d) /\ UNCHANGED serverVars
     /\ UNCHANGED <<drawn, newest, loaded, restores>>

\* The journal, unless it is already there; never a different one over it.
Activate(d) ==
  LET dir == Dir(d)
      stage == dir.stage
      envelope == Activation(d, stage)
      Ready == /\ stage.mode = "initialize" => stage.recovery = <<>>
               /\ SourceHolds(dir) /\ EnvelopeValid(envelope)
               /\ dir.state \in {NoJournal, envelope}
  IN /\ at[d] = "work" /\ stage.confirmed # None /\ ~Unsent(stage)
     /\ \/ ~Ready /\ GivesUp(d)
        \/ Ready /\ dir.state # NoJournal /\ at' = [at EXCEPT ![d] = "seal"]
             /\ UNCHANGED <<disk, mishaps>>
        \/ Ready /\ dir.state = NoJournal
             /\ \E saved \in SaveResult : SaveDir(d, [dir EXCEPT !.state = envelope], saved, "seal")
     /\ UNCHANGED <<serverVars, sent, drawn, newest, loaded, restores>>

\* tasks.json becomes one that an old build refuses to load, whatever it is now.
Seal(d) ==
  /\ at[d] = "seal"
  /\ \E saved \in SaveResult :
       /\ SaveDir(d, [Dir(d) EXCEPT !.tasks = Sentinel], saved, "remove")
       /\ Overlooks(d, saved # "before" /\ ~SourceHolds(Dir(d)))
  /\ UNCHANGED <<serverVars, sent, drawn, loaded, restores>>

Remove(d) ==
  /\ at[d] = "remove"
  /\ \E saved \in SaveResult : SaveDir(d, [Dir(d) EXCEPT !.stage = NoStage], saved, None)
  /\ UNCHANGED <<serverVars, sent, drawn, newest, loaded, restores>>

(***************************************************************************)
(* What goes on around it                                                  *)
(***************************************************************************)
\* The app, which starts only on a directory whose setup is finished
\* (Host::open_engine): it asks for news, and its user adds or removes a task.
Starts(dir) == ~Begun(dir) /\ dir.state # NoJournal /\ dir.config
Edits(snap) ==
  {[op |-> "Delete", task |-> t, expected |-> snap.task[t].versions.placement] :
     t \in Live(snap) \ NowTasks(snap)}
  \cup {[op |-> "Create", task |-> t, title |-> Added, tag |-> None, bucket |-> "next"] :
          t \in Fn!Range(Picked(TaskId, 1))}
App(d, now) ==
  LET env == Dir(d).state
      Ask(command) == [token |-> TokenOf(d), device |-> d,
                       checkpoint |-> Checkpoint(env.confirmed), command |-> command]
      Adopts(request) ==
        /\ Exchange(request, now)
        /\ request.checkpoint # None /\ Extends(env, Response(request))
        /\ disk' = [disk EXCEPT ![d] =
             <<[Dir(d) EXCEPT !.state = Registered([env EXCEPT
                  !.confirmed = Response(request).snapshot, !.time = Response(request).time])]>>]
  IN /\ Unlocked(d) /\ Starts(Dir(d))
     /\ \/ env.confirmed # state.snapshot /\ Adopts(Ask(None)) /\ UNCHANGED <<sent, drawn>>
        \/ /\ ~(CommandId \subseteq drawn)
           /\ \E a \in Edits(env.confirmed) :
                LET command == [id |-> Picked(CommandId, 1)[1], generation |-> env.confirmed.generation,
                                guard |-> None, action |-> a]
                IN Adopts(Ask(command)) /\ drawn' = drawn \cup {command.id, a.task}
           /\ UNCHANGED sent
     /\ UNCHANGED <<at, newest, loaded, mishaps, restores>>

\* A build that knows no lock adds a task to the queue it has, and saves that
\* over whatever tasks.json is, the sentinel too.
OldEdit(d) ==
  /\ "old" \in Failure /\ newest[d].tasks.size < Len(Local[d])
  /\ LET edited == Queue(newest[d].tasks.size + 1)
     IN /\ disk' = [disk EXCEPT ![d] = <<[Dir(d) EXCEPT !.tasks = edited]>>]
        /\ newest' = [newest EXCEPT ![d].tasks = edited]
  /\ UNCHANGED <<serverVars, at, sent, drawn, loaded, mishaps, restores>>

\* A command whose sender has given up arrives.
Arrive(now) ==
  /\ "late" \in Failure
  /\ \E request \in sent : Exchange(request, now)
  /\ UNCHANGED <<setup, mishaps, restores>>

\* The utility is interrupted; or the power fails, and takes what is not durable.
Die(d) ==
  /\ \/ "crash" \in Failure /\ at[d] # None /\ Mishaps(1) /\ UNCHANGED disk
     \/ /\ "power" \in Failure /\ UNCHANGED mishaps
        /\ \E dir \in Fn!Range(disk[d]) : dir # Dir(d) /\ disk' = [disk EXCEPT ![d] = <<dir>>]
  /\ at' = [at EXCEPT ![d] = None]
  /\ UNCHANGED <<serverVars, sent, drawn, newest, loaded, restores>>

Operate ==
  /\ restores < MaxRestores
  /\ \/ artifact = None /\ Backup /\ UNCHANGED restores
     \/ (RawRestore \/ RestoreGeneration) /\ restores' = restores + 1
  /\ UNCHANGED <<setup, mishaps>>

Step(d) ==
  \/ Prepare(d) \/ SaveConfig(d) \/ Verify(d) \/ Activate(d) \/ Seal(d) \/ Remove(d)
  \/ \E now \in 0..MaxTime : Discover(d, now) \/ Push(d, now)

Next ==
  \/ \E d \in Device :
       \/ \E mode \in Choices[d] : Load(d, mode)
       \/ Again(d) \/ ResumeSetup(d) \/ Step(d) \/ OldEdit(d) \/ Die(d)
       \/ \E now \in 0..MaxTime : App(d, now)
  \/ \E now \in 0..MaxTime : Arrive(now)
  \/ Operate

Spec == Init /\ [][Next]_vars

\* The utility goes on by itself - it always can: a step that fails ends it - and
\* a user who was told that setup is incomplete runs it again.
Running(d) == at[d] # None
Fairness ==
  \A d \in Device : /\ <>[]Running(d) => []<><<Step(d)>>_vars
                    /\ SF_vars(Again(d))
LiveSpec == Spec /\ Fairness

(***************************************************************************)
(* Properties                                                              *)
(***************************************************************************)
\* A command is only ever sent with one content: however often the answer, the
\* process or the last save was lost, a resumed setup asks for what it asked
\* before, bound to the same generation (setup.rs "bind the discovered
\* dataset/generation durably before sending the first mutation").
BoundOnce == \A r, s \in sent : r.command.id = s.command.id => r.command = s.command

\* The titles a link of a chain brought in.
TitlesIn(snap) == {snap.task[t].title : t \in Live(snap)}
Brought(h, i) == IF i = 1 THEN {} ELSE TitlesIn(h[i].result) \ TitlesIn(h[i - 1].result)

\* Whether a title is kept as refused, by the stage or by the journal.
KeptAsRefused(items, title) ==
  \E i \in DOMAIN items :
    /\ items[i].command.action.op = "Create" /\ items[i].command.action.title = title
Refused(dir, title) ==
  \/ Begun(dir) /\ KeptAsRefused(dir.stage.recovery, title)
  \/ dir.state # NoJournal /\ KeptAsRefused(dir.state.recovery, title)

\* No local task comes to the shared queue twice; and while no backup came back,
\* one that its user is told was refused is not there after all.
ArrivesOnce ==
  LET chain == state.snapshot.history
  IN \A d \in Device : \A n \in DOMAIN Local[d] :
       LET title == Local[d][n].title
           arrivals == {i \in DOMAIN chain : title \in Brought(chain, i)}
       IN /\ Cardinality(arrivals) <= 1
          /\ restores = 0 /\ Refused(Dir(d), title) => arrivals = {}

Accounted(dir, title) ==
  \/ \E i \in DOMAIN dir.state.confirmed.history : title \in Brought(dir.state.confirmed.history, i)
  \/ KeptAsRefused(dir.state.recovery, title)

\* No local task is lost: in every directory a power failure could bring back,
\* tasks.json is the standalone queue as it was last edited, or there is a journal
\* in its place.  Each task of that queue is in the history of the journal or kept
\* there as refused - unless its user chose to leave them in the backup.  An edit
\* that setup overlooked, between its two reads or after its last look, may be
\* missing; what was there when setup began is not.  An unfinished setup exports
\* the queue.
NothingLost ==
  \A d \in Device : \A i \in DOMAIN disk[d] :
    LET dir == disk[d][i]
        last == newest[d]
        kept == IF dir.tasks = Sentinel /\ last.overlooked = None THEN last ELSE loaded[d]
    IN /\ \/ dir.tasks = last.tasks
          \/ dir.tasks = Sentinel /\ dir.state # NoJournal
       /\ dir.state # NoJournal /\ loaded[d].mode # "shared" =>
            \A n \in 1..kept.tasks.size : Accounted(dir, Local[d][n].title)
       /\ Begun(dir) /\ last.overlooked = None => Exported(dir) = last.tasks

\* What setup made a backup of and compares tasks.json with is what it activates:
\* a local queue that changed during setup is not taken for an unchanged one
\* (setup.rs:377 "local tasks changed during setup").
BackupActivated ==
  \A d \in Device :
    LET dir == Dir(d)
    IN Begun(dir) /\ dir.state # NoJournal /\ dir.stage.mode # "shared" =>
         \A n \in 1..dir.stage.source.size : Accounted(dir, Local[d][n].title)

\* A setup that died after it made the journal makes the same one when it is
\* resumed: "refusing to replace it" never leaves a half activated device.
SameJournal ==
  \A d \in Device : \A i \in DOMAIN disk[d] :
    LET dir == disk[d][i]
    IN Begun(dir) /\ dir.state # NoJournal => dir.state = Activation(d, dir.stage)

\* The choice of the user does not fit the queue that is there, or what is there
\* changed underneath the setup.
Stuck(d) ==
  LET stage == Dir(d).stage
  IN \/ restores > 0 \/ Dir(d).tasks \notin {stage.source, Sentinel}
     \/ stage.recovery # <<>> /\ stage.mode = "initialize"
     \/ stage.confirmed = None /\ ~Suits(stage, state.snapshot)

\* A setup that was begun is finished, whatever answers are lost and wherever it
\* dies, or waits for its user because of what it found.
SetupCompletes ==
  \A d \in Device : Begun(Dir(d)) ~> (~Begun(Dir(d)) \/ Stuck(d))
=============================================================================
