------------------------------ MODULE LocalTasks ------------------------------
(***************************************************************************)
(* A standalone app: the queue, its file and the one completion it can     *)
(* undo (crates/qf-core/src/tasks.rs, the task requests of engine.rs and   *)
(* the atomic save of store.rs).  A save fails before the rename, which    *)
(* rolls the change back, or after it, which makes it a warning: the file  *)
(* is new but a power failure may still bring an older one back.           *)
(***************************************************************************)
EXTENDS TaskStore

CONSTANTS
  DefaultBucket,           \* the setting: where an add goes by default
  FirstTime,               \* the clock at the first start
  OldFiles,                \* task files found then
  MaxId, MaxTime,          \* bounds: identities and the clock
  MaxRevision, MaxMishaps  \* bounds: changes before a last undo, failures

ASSUME DefaultBucketAssumption == DefaultBucket \in Bucket
ASSUME OldFilesAssumption ==
  \A f \in OldFiles : /\ f \in Store
                      /\ \A i, j \in DOMAIN f.tasks : f.tasks[i].id = f.tasks[j].id => i = j
                      /\ \A id \in TaskIds(f.tasks) : id < f.next
                      /\ \A i \in DOMAIN f.tasks :
                           LET t == f.tasks[i]
                           IN t.started # None /\ t.paused # None =>
                                t.paused <= FirstTime \/ t.paused <= t.started
\* A completion that can be undone, and the revision it made.
LastCompletion == [completed : Completed, revision : Nat]

ASSUME NoCompletionAssumption == None \notin LastCompletion
ASSUME BoundsAssumption == {FirstTime, MaxId, MaxTime, MaxRevision, MaxMishaps} \subseteq Nat

VARIABLES
  store,     \* the queue in memory
  disk,      \* the files a power failure could leave, the present one last
  revision,  \* changes saved since the app started
  undo,      \* the last completion, with the revision it made
  clock,     \* the wall clock
  mishaps,   \* failures so far
  before     \* history: the queue the last completion was made in

vars == <<store, disk, revision, undo, clock, mishaps, before>>

Ids == TaskIds(store.tasks)

Init ==
  /\ clock = FirstTime
  /\ \E f \in OldFiles : disk = <<f>> /\ store = [f EXCEPT !.tasks = Normalized(@, clock)]
  /\ revision = 0 /\ undo = None /\ mishaps = 0 /\ before = None

(***************************************************************************)
(* Saving                                                                  *)
(***************************************************************************)
\* The app starts again, with what is in the file.
Loaded(file) ==
  /\ store' = [file EXCEPT !.tasks = Normalized(@, clock)]
  /\ revision' = 0
  /\ undo' = None

Mishap == mishaps < MaxMishaps /\ mishaps' = mishaps + 1

\* What the last completion that can be undone started from.
Remembering == before' = IF undo' = None THEN None ELSE IF undo' = undo THEN before ELSE store

\* Apply a change and save it; `record` is what can be undone afterwards.
\* A change that changes nothing is not saved and does not count.
Update(new, record) ==
  /\ UNCHANGED clock
  /\ \/ /\ new = store
        /\ undo' = record
        /\ UNCHANGED <<store, disk, revision, mishaps>>
     \/ /\ new # store
        /\ store' = new
        /\ revision' = revision + 1
        /\ undo' = record
        /\ \/ disk' = <<new>> /\ UNCHANGED mishaps
           \/ disk' = Append(disk, new) /\ Mishap
     \/ /\ new # store
        /\ Mishap
        /\ UNCHANGED <<store, disk, revision, undo>>
     \/ /\ new # store   \* killed between the rename and the answer
        /\ Mishap
        /\ disk' = Append(disk, new)
        /\ Loaded(new)
  /\ Remembering

(***************************************************************************)
(* Requests                                                                *)
(***************************************************************************)
AddTask(title, tag, asked) ==
  LET bucket == IF asked # None THEN asked
                ELSE IF Current(store.tasks) = None THEN "now" ELSE DefaultBucket
  IN store.next <= MaxId /\ Update(Add(store, title, bucket, tag, clock), undo)

RemoveTask(id) == Update(Remove(store, id, clock), undo)
MoveTask(id, bucket, index) == Update(MoveTo(store, id, bucket, index, clock), undo)
DropTask(id, bucket, row) == Update(MoveBefore(store, id, bucket, row, clock), undo)
ShiftTask(id, delta) == Update(Shift(store, id, delta, clock), undo)
TagTask(id, tag) == Update(SetTag(store, id, tag), undo)
RenameTask(id, title) == Update(Rename(store, id, title), undo)
Pause == Update(TogglePause(store, clock), undo)

\* A completion is remembered once it is saved.
CompleteTask(id) ==
  Update(Complete(store, id, clock),
         [completed |-> Completion(store, id), revision |-> revision + 1])

\* Fault: the record is not compared with the revision.
FaultCanUndo(id) == undo # None /\ undo.completed.task.id = id
CanUndo(id) == undo # None /\ undo.revision = revision /\ undo.completed.task.id = id

\* The record serves once; a save that fails leaves it for another try.
UndoTask(id) == CanUndo(id) /\ Update(UndoComplete(store, undo.completed, clock), None)

(***************************************************************************)
(* The world around                                                        *)
(***************************************************************************)
\* The app ends, or is killed, and starts again.
Restart == /\ Mishap
           /\ Loaded(disk[Len(disk)])
           /\ before' = None
           /\ UNCHANGED <<disk, clock>>

\* A power failure while older files can come back; without them it is a restart.
PowerLoss == \E i \in DOMAIN disk :
  /\ Len(disk) > 1
  /\ disk' = <<disk[i]>>
  /\ Loaded(disk[i])
  /\ before' = None
  /\ UNCHANGED <<clock, mishaps>>

Pass == /\ clock < MaxTime
        /\ clock' = clock + 1
        /\ UNCHANGED <<store, disk, revision, undo, mishaps, before>>

Indices == 0..Len(store.tasks)

Request ==
  \/ \E title \in Title, tag \in Tag \cup {None}, asked \in Bucket \cup {None} :
       AddTask(title, tag, asked)
  \/ \E id \in Ids :
       \/ RemoveTask(id)
       \/ CompleteTask(id)
       \/ \E bucket \in Bucket, index \in Indices \cup {None} : MoveTask(id, bucket, index)
       \/ \E bucket \in Bucket, row \in Ids \cup {None} : DropTask(id, bucket, row)
       \/ \E delta \in {-1, 1} : ShiftTask(id, delta)
       \/ \E tag \in Tag \cup {None} : TagTask(id, tag)
       \/ \E title \in Title : RenameTask(id, title)
  \/ Pause

Next ==
  \/ revision < MaxRevision /\ Request
  \/ \E id \in 1..MaxId : UndoTask(id)
  \/ Restart \/ PowerLoss \/ Pass

Spec == Init /\ [][Next]_vars

(***************************************************************************)
(* Properties                                                              *)
(***************************************************************************)
ListsOf(tasks) == [b \in Bucket |-> IdsIn(tasks, b)]
B == INSTANCE BucketLists

\* Every request on the queue does to the four lists what it means there: the
\* vector, its indices, the slot Now and the settling after each change
\* (model.rs) are only how.
MeantOnLists ==
  LET lists == ListsOf(store.tasks)
      Gives(new, wanted) == ListsOf(new.tasks) = wanted
  IN /\ \A bucket \in Bucket :
          Gives(Add(store, CHOOSE t \in Title : TRUE, bucket, None, clock),
                B!Add(lists, store.next, bucket))
     /\ \A id \in Ids :
          /\ Gives(Remove(store, id, clock), B!Without(lists, id))
          /\ Gives(Complete(store, id, clock), B!Complete(lists, id))
          /\ \A delta \in {-1, 1} : Gives(Shift(store, id, delta, clock), B!Shift(lists, id, delta))
          /\ \A bucket \in Bucket :
               /\ \A index \in Indices \cup {None} :
                    Gives(MoveTo(store, id, bucket, index, clock), B!Move(lists, id, bucket, index))
               /\ \A row \in Ids \cup {None} :
                    Gives(MoveBefore(store, id, bucket, row, clock), B!Drop(lists, id, bucket, row))

\* So it is in every queue the app can start with.
RequestsMeanLists == undo = None /\ revision = 0 => MeantOnLists

Sound(s) ==
  /\ \A i, j \in DOMAIN s.tasks : s.tasks[i].id = s.tasks[j].id => i = j
  /\ \A i \in DOMAIN s.tasks :
       /\ s.tasks[i].id < s.next
       /\ (s.tasks[i].started # None) <=> (s.tasks[i].bucket = "now")
       /\ s.tasks[i].paused # None => s.tasks[i].started # None
  /\ \A i, j \in DOMAIN s.tasks : {s.tasks[i].bucket, s.tasks[j].bucket} = {"now"} => i = j

\* Only the task in Now carries a timer, and it always does, in the app and in
\* every file that can come back; identities are never in use twice.
OneTimerOneIdentity ==
  /\ Sound(store)
  /\ \A i \in DOMAIN disk : disk[i] \in OldFiles \/ Sound(disk[i])

\* Undo gives back exactly the lists the completion was made in, the clock of
\* the current task included, or does nothing.
UndoRestores == [][
  undo # None /\ undo' = None /\ revision' > revision =>
    \A b \in Bucket : In(store'.tasks, b) = In(before.tasks, b)]_vars

\* A task appears under an identity no file ever held that can still come back,
\* or because its completion is undone: a request that names a task cannot
\* meet another one, whatever was completed or removed since.
IdentitiesNotReused == [][
  \A id \in TaskIds(store'.tasks) \ Ids :
    \/ id >= disk[1].next
    \/ undo # None /\ undo.completed.task.id = id
    \/ \E i \in DOMAIN disk : Loaded(disk[i])]_vars

\* While a task stays in Now its time never goes back, and never moves while
\* it is paused or by any request that leaves it there.
TimeKept == [][
  LET id == Current(store.tasks)
      elapsed == Elapsed(Get(store.tasks, id), clock)
      shown == Elapsed(Get(store'.tasks, id), clock')
  IN /\ revision' > revision \/ clock' > clock
     /\ id # None /\ Current(store'.tasks) = id
     =>
       /\ shown >= elapsed
       /\ Get(store.tasks, id).paused # None => shown = elapsed
       /\ clock' = clock => shown = elapsed]_vars
=============================================================================
