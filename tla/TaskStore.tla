------------------------------ MODULE TaskStore ------------------------------
(***************************************************************************)
(* The queue of a standalone app: crates/qf-core/src/model.rs.  No         *)
(* variables: an operation takes a store and gives the next one.           *)
(*                                                                         *)
(*   store.next    next_id, the identity the next task gets                *)
(*   store.tasks   the task vector; the order of a bucket is the order of  *)
(*                 its tasks in it                                         *)
(*                                                                         *)
(* Now is a slot: it holds the current task, the one with a timer.  Titles *)
(* are values; their length limit and the quick-add syntax are left out,   *)
(* and so is the creation time, which nothing reads.  Later and Side are   *)
(* treated alike, so a model may have one of them.                         *)
(***************************************************************************)
EXTENDS Integers, Sequences, FiniteSets

CONSTANTS
  None,         \* the absent optional value
  Bucket,       \* the lists of the queue: "now", "next", and those behind them
  Title, Tag    \* what a task can be called and tagged

ASSUME BucketAssumption == {"now", "next"} \subseteq Bucket
ASSUME TitleAssumption == Title # {}
ASSUME AbsentAssumption == None \notin Nat /\ None \notin Title /\ None \notin Bucket

Sq == INSTANCE SequencesExt

Task == [id : Nat, title : Title, bucket : Bucket, tag : Tag \cup {None},
         started : Nat \cup {None}, paused : Nat \cup {None}]
Store == [next : Nat, tasks : Seq(Task)]

EmptyStore == [next |-> 1, tasks |-> <<>>]

TaskIds(tasks) == {tasks[i].id : i \in DOMAIN tasks}
PositionOf(tasks, id) == CHOOSE i \in DOMAIN tasks : tasks[i].id = id
Get(tasks, id) == tasks[PositionOf(tasks, id)]

\* The tasks of a bucket, in order.
In(tasks, bucket) ==
  LET part[n \in 0..Len(tasks)] ==
        IF n = 0 THEN <<>>
        ELSE IF tasks[n].bucket = bucket THEN Append(part[n - 1], tasks[n])
        ELSE part[n - 1]
  IN part[Len(tasks)]
IdsIn(tasks, bucket) ==
  LET there == In(tasks, bucket) IN [i \in DOMAIN there |-> there[i].id]

\* The first task of a bucket, None when it is empty.
HeadOf(tasks, bucket) ==
  IF In(tasks, bucket) = <<>> THEN None ELSE Head(In(tasks, bucket)).id
Current(tasks) == HeadOf(tasks, "now")

\* Time on the clock: frozen at `paused` while paused.
Elapsed(task, now) ==
  LET end == IF task.paused = None THEN now ELSE task.paused
  IN IF end > task.started THEN end - task.started ELSE 0

(***************************************************************************)
(* Placing and settling                                                    *)
(***************************************************************************)
\* Fault: the index counts the places of the whole vector.
FaultPlace(tasks, id, bucket, index) ==
  LET at == PositionOf(tasks, id)
      rest == Sq!RemoveAt(tasks, at)
      spot == IF index # None /\ index < Len(rest) THEN index + 1 ELSE Len(rest) + 1
  IN Sq!InsertAt(rest, spot, [tasks[at] EXCEPT !.bucket = bucket])

\* The place at an index of a bucket, or behind its last task.
Spot(tasks, bucket, index) ==
  LET ids == IdsIn(tasks, bucket)
      there == {i \in DOMAIN tasks : tasks[i].bucket = bucket}
  IN IF index # None /\ index < Len(ids) THEN PositionOf(tasks, ids[index + 1])
     ELSE IF there = {} THEN Len(tasks) + 1
     ELSE 1 + CHOOSE i \in there : \A j \in there : j <= i

\* Take a task out and put it there.
Place(tasks, id, bucket, index) ==
  LET at == PositionOf(tasks, id)
      rest == Sq!RemoveAt(tasks, at)
  IN Sq!InsertAt(rest, Spot(rest, bucket, index), [tasks[at] EXCEPT !.bucket = bucket])

\* Now keeps its first task, the others step back to the front of Next, the
\* last one first: `left[k]` is the queue when k of them have.
Settled(tasks) ==
  LET ids == IdsIn(tasks, "now")
      left[k \in 0..(Len(ids) - 1)] ==
        IF k = 0 THEN tasks ELSE Place(left[k - 1], ids[Len(ids) + 1 - k], "next", 0)
  IN IF ids = <<>> THEN tasks ELSE left[Len(ids) - 1]

\* Fault: a task that leaves Now takes its timer along.
FaultNormalized(tasks, now) ==
  LET settled == Settled(tasks)
      Timed(t) == IF t.id = Current(settled) /\ t.started = None
                  THEN [t EXCEPT !.started = now, !.paused = None] ELSE t
  IN [i \in DOMAIN settled |-> Timed(settled[i])]

\* A settled queue in which the current task has a timer, and only it.
Normalized(tasks, now) ==
  LET settled == Settled(tasks)
      Timed(t) == IF t.id # Current(settled)
                  THEN [t EXCEPT !.started = None, !.paused = None]
                  ELSE IF t.started = None
                  THEN [t EXCEPT !.started = now, !.paused = None] ELSE t
  IN [i \in DOMAIN settled |-> Timed(settled[i])]

(***************************************************************************)
(* Changes.  Each is asked of a task that is there.                        *)
(***************************************************************************)
\* Fault: a new task gets the first identity no task has.
FaultAdd(store, title, bucket, tag, now) ==
  LET id == CHOOSE i \in 1..(Len(store.tasks) + 1) :
              /\ i \notin TaskIds(store.tasks)
              /\ \A j \in 1..(i - 1) : j \in TaskIds(store.tasks)
      pushed == Append(store.tasks,
                  [id |-> id, title |-> title, bucket |-> bucket, tag |-> tag,
                   started |-> None, paused |-> None])
      placed == IF bucket = "now" THEN Place(pushed, id, "now", 0) ELSE pushed
  IN [next |-> store.next + 1, tasks |-> Normalized(placed, now)]

Add(store, title, bucket, tag, now) ==
  LET pushed == Append(store.tasks,
                  [id |-> store.next, title |-> title, bucket |-> bucket, tag |-> tag,
                   started |-> None, paused |-> None])
      placed == IF bucket = "now" THEN Place(pushed, store.next, "now", 0) ELSE pushed
  IN [next |-> store.next + 1, tasks |-> Normalized(placed, now)]

Remove(store, id, now) ==
  [store EXCEPT !.tasks = Normalized(Sq!RemoveAt(@, PositionOf(@, id)), now)]

\* What completing a task removes, from where, and the task it pulls into Now.
Completed == [task : Task, index : Nat \ {0}, pulled : Nat \cup {None}]
Completion(store, id) ==
  LET task == Get(store.tasks, id)
      rest == Sq!RemoveAt(store.tasks, PositionOf(store.tasks, id))
  IN [task |-> task, index |-> PositionOf(store.tasks, id),
      pulled |-> IF task.bucket = "now" THEN HeadOf(rest, "next") ELSE None]

Complete(store, id, now) ==
  LET pulled == Completion(store, id).pulled
      rest == Sq!RemoveAt(store.tasks, PositionOf(store.tasks, id))
      filled == IF pulled = None THEN rest ELSE Place(rest, pulled, "now", 0)
  IN [store EXCEPT !.tasks = Normalized(filled, now)]

UndoComplete(store, completed, now) ==
  LET pulled == completed.pulled
      inNow == pulled \in TaskIds(store.tasks) /\ Get(store.tasks, pulled).bucket = "now"
      freed == IF pulled # None /\ inNow
               THEN Place(store.tasks, pulled, "next", 0) ELSE store.tasks
      at == IF completed.index > Len(freed) THEN Len(freed) + 1 ELSE completed.index
  IN IF completed.task.id \in TaskIds(store.tasks) THEN store
     ELSE [store EXCEPT !.tasks = Normalized(Sq!InsertAt(freed, at, completed.task), now)]

MoveTo(store, id, bucket, index, now) ==
  IF bucket = "now" /\ Current(store.tasks) = id THEN store
  ELSE [store EXCEPT !.tasks =
          Normalized(Place(@, id, bucket, IF bucket = "now" THEN 0 ELSE index), now)]

\* A drop before a row; refused when the row is no longer in the bucket.
MoveBefore(store, id, bucket, before, now) ==
  LET rest == Sq!RemoveAt(store.tasks, PositionOf(store.tasks, id))
      there == IdsIn(rest, bucket)
  IN IF before = None THEN MoveTo(store, id, bucket, None, now)
     ELSE IF before \notin Sq!ToSet(IdsIn(store.tasks, bucket)) \/ before = id THEN store
     ELSE MoveTo(store, id, bucket, (CHOOSE i \in DOMAIN there : there[i] = before) - 1, now)

\* Up or down within the bucket, as far as its edge.
Shift(store, id, delta, now) ==
  LET bucket == Get(store.tasks, id).bucket
      there == IdsIn(store.tasks, bucket)
      i == CHOOSE i \in DOMAIN there : there[i] = id
      target == IF i + delta < 1 THEN 1
                ELSE IF i + delta > Len(there) THEN Len(there) ELSE i + delta
  IN IF target = i THEN store ELSE MoveTo(store, id, bucket, target - 1, now)

SetTag(store, id, tag) ==
  [store EXCEPT !.tasks = [@ EXCEPT ![PositionOf(@, id)].tag = tag]]

Rename(store, id, title) ==
  [store EXCEPT !.tasks = [@ EXCEPT ![PositionOf(@, id)].title = title]]

\* Fault: the pause is not added to the start when the timer goes on.
FaultTogglePause(store, now) ==
  LET at == PositionOf(store.tasks, Current(store.tasks))
      task == store.tasks[at]
      toggled == IF task.paused # None THEN [task EXCEPT !.paused = None]
                 ELSE [task EXCEPT !.paused = IF now > task.started THEN now ELSE task.started]
  IN IF Current(store.tasks) = None THEN store
     ELSE [store EXCEPT !.tasks = [@ EXCEPT ![at] = toggled]]

\* Resuming keeps the time on the clock: the start moves on by the pause.
TogglePause(store, now) ==
  LET at == PositionOf(store.tasks, Current(store.tasks))
      task == store.tasks[at]
      pause == IF now > task.paused THEN now - task.paused ELSE 0
      toggled == IF task.paused # None
                 THEN [task EXCEPT !.started = @ + pause, !.paused = None]
                 ELSE [task EXCEPT !.paused = IF now > task.started THEN now ELSE task.started]
  IN IF Current(store.tasks) = None THEN store
     ELSE [store EXCEPT !.tasks = [@ EXCEPT ![at] = toggled]]
=============================================================================
