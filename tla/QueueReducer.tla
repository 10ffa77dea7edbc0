---------------------------- MODULE QueueReducer ----------------------------
(***************************************************************************)
(* The deterministic state transitions shared by the server and by every   *)
(* client's local projection: crates/qf-core/src/sync/reducer.rs over the  *)
(* types of protocol.rs.  No variables: a transition is a pair of an       *)
(* operator that names the first refusal of a command (None when there is  *)
(* none) and an operator that gives the state after it.                    *)
(***************************************************************************)
EXTENDS QueueProtocol

Least(I) == CHOOSE i \in I : \A j \in I : i <= j
Greatest(I) == CHOOSE i \in I : \A j \in I : j <= i
Position(order, t) == Least({i \in DOMAIN order : order[i] = t})
RemoveAt(order, i) == [j \in 1..(Len(order) - 1) |-> order[IF j < i THEN j ELSE j + 1]]
InsertAt(order, i, t) ==
  [j \in 1..(Len(order) + 1) |->
     IF j < i THEN order[j] ELSE IF j = i THEN t ELSE order[j - 1]]

\* The places of `order` holding a task of `bucket` other than `skipped`.
PlacesIn(order, task, bucket, skipped) ==
  {i \in DOMAIN order : task[order[i]].bucket = bucket /\ order[i] # skipped}

\* The first task of a bucket in display order, passing over `skipped`.
Head1(snap, bucket, skipped) ==
  LET places == PlacesIn(snap.order, snap.task, bucket, skipped)
  IN IF places = {} THEN None ELSE snap.order[Least(places)]

Drop(snap, t) ==
  [snap EXCEPT !.order = RemoveAt(@, Position(@, t)),
               !.task = [u \in DOMAIN @ \ {t} |-> @[u]]]

\* Fault: a move that keeps the placement token it was aimed at.
FaultPlace(snap, t, bucket, before, command) ==
  LET rest == RemoveAt(snap.order, Position(snap.order, t))
  IN [snap EXCEPT !.order = Append(rest, t), !.task[t].bucket = bucket]

\* Move a live task to a bucket, before an anchor or behind that bucket's
\* last task (at the end of the vector when the bucket is empty).
Place(snap, t, bucket, before, command) ==
  LET rest == RemoveAt(snap.order, Position(snap.order, t))
      inBucket == PlacesIn(rest, snap.task, bucket, None)
      at == IF before # None THEN Position(rest, before)
            ELSE IF inBucket = {} THEN Len(rest) + 1
            ELSE Greatest(inBucket) + 1
  IN [snap EXCEPT !.order = InsertAt(rest, at, t),
                  !.task = [@ EXCEPT ![t].bucket = bucket,
                                     ![t].versions.placement = command]]

(***************************************************************************)
(* Server state: the public snapshot, the identities ever used and the     *)
(* last completion's undo record.                                          *)
(***************************************************************************)
NoUndo == [completion |-> None, until |-> 0, before |-> None]

NewState(generation) ==
  LET snap == [generation |-> generation, revision |-> 0, history |-> <<>>,
               initialized |-> FALSE, order |-> <<>>, task |-> <<>>,
               focus |-> [version |-> generation, session |-> None],
               undo |-> None]
  IN [snapshot |-> [snap EXCEPT !.history = <<Link(generation, snap)>>],
      used |-> {}, undo |-> NoUndo]

\* A new root after an operator restore: every concurrency token expires.
ResetGeneration(state, generation) ==
  LET old == state.snapshot
      snap == [old EXCEPT
        !.generation = generation,
        !.undo = None,
        !.focus.version = generation,
        !.focus.session = IF @ = None THEN None ELSE [@ EXCEPT !.id = generation],
        !.task = [t \in DOMAIN @ |-> [@[t] EXCEPT !.versions = Versions(generation)]]]
  IN [state EXCEPT
        !.snapshot = [snap EXCEPT !.history = Append(old.history, Link(generation, snap))],
        !.undo = NoUndo]

\* ServerState::validate, checked when a database opens and after every apply.
StateValid(state) ==
  LET snap == state.snapshot
      record == state.undo
      hint == snap.undo
  IN /\ SnapshotValid(snap)
     /\ Live(snap) \subseteq state.used
     /\ (record = NoUndo) <=> (hint = None)
     /\ record # NoUndo =>
          /\ SnapshotValid(record.before)
          /\ record.completion = hint.command
          /\ record.until = hint.until
          /\ record.before.generation = snap.generation
          /\ record.before.revision + 1 = snap.revision
          /\ Current(record.before) = hint.task
          /\ hint.task \in state.used

IsState(s) ==
  /\ s \in [snapshot : {s.snapshot}, used : SUBSET TaskId, undo : {s.undo}]
  /\ IsSnapshot(s.snapshot)
  /\ s.undo # NoUndo =>
       /\ s.undo \in [completion : Token, until : Nat, before : {s.undo.before}]
       /\ IsSnapshot(s.undo.before)

\* Fault: only live identities are taken, those of deleted tasks are free again.
FaultCreateRefusal(state, t) ==
  Require(t \notin Live(state.snapshot), "Conflict")
  ?? Require(Cardinality(Live(state.snapshot)) < MaxTasks, "Capacity")

CreateRefusal(state, t) ==
  Require(t \notin state.used, "Conflict")
  ?? Require(Cardinality(Live(state.snapshot)) < MaxTasks, "Capacity")

CreateTask(state, command, t, title, tag, bucket, createdAt) ==
  [state EXCEPT
     !.used = @ \cup {t},
     !.snapshot.order = Append(@, t),
     !.snapshot.task = [u \in DOMAIN @ \cup {t} |->
        IF u = t THEN [title |-> title, tag |-> tag, bucket |-> bucket,
                       created |-> createdAt, versions |-> Versions(command)]
        ELSE @[u]]]

AnchorRefusal(snap, t, bucket, before) ==
  IF before = None THEN None
  ELSE Require(before.task # t, "Invalid")
       ?? Require(before.task \in Live(snap), "MissingTask")
       ?? Require(snap.task[before.task].bucket = bucket, "Conflict")
       ?? Require(snap.task[before.task].versions.placement = before.placement, "Conflict")

AnchorTask(before) == IF before = None THEN None ELSE before.task

(***************************************************************************)
(* Queued actions                                                          *)
(***************************************************************************)
QueuedRefusal(state, a) ==
  LET snap == state.snapshot
      versions == snap.task[a.task].versions
      stillQueued == Require(snap.task[a.task].bucket # "now", "Conflict")
  IN IF a.op = "Create"
     THEN Require(a.bucket # "now", "Conflict") ?? CreateRefusal(state, a.task)
     ELSE Require(a.task \in Live(snap), "MissingTask") ??
          CASE a.op = "Rename" -> Require(versions.title = a.expected, "Conflict")
            [] a.op = "SetTag" -> Require(versions.tag = a.expected, "Conflict")
            [] a.op = "MoveBefore" ->
                 stillQueued
                 ?? Require(versions.placement = a.expected, "Conflict")
                 ?? Require(a.bucket # "now", "Conflict")
                 ?? AnchorRefusal(snap, a.task, a.bucket, a.before)
            [] a.op = "Delete" ->
                 stillQueued ?? Require(versions.title = a.expected, "Conflict")

QueuedEffect(state, command, a, now) ==
  CASE a.op = "Create" ->
         CreateTask(state, command, a.task, a.title, a.tag, a.bucket, now)
    [] a.op = "Rename" ->
         [state EXCEPT !.snapshot.task[a.task] =
            [@ EXCEPT !.title = a.title, !.versions.title = command]]
    [] a.op = "SetTag" ->
         [state EXCEPT !.snapshot.task[a.task] =
            [@ EXCEPT !.tag = a.tag, !.versions.tag = command]]
    [] a.op = "MoveBefore" ->
         [state EXCEPT !.snapshot =
            Place(@, a.task, a.bucket, AnchorTask(a.before), command)]
    [] a.op = "Delete" -> [state EXCEPT !.snapshot = Drop(@, a.task)]

(***************************************************************************)
(* Focus actions                                                           *)
(***************************************************************************)
\* Fault: a guard is only checked for its age.
FaultGuardRefusal(snap, guard, now) ==
  Require(now < guard.expires, "Expired")
  ?? Require(guard.expires <= now + FocusTtl, "Invalid")

GuardRefusal(snap, guard, now) ==
  Require(now < guard.expires, "Expired")
  ?? Require(guard.expires <= now + FocusTtl, "Invalid")
  ?? Require(/\ guard.revision = snap.revision
             /\ guard.version = snap.focus.version
             /\ guard.session = SessionId(snap)
             /\ guard.task = SessionTask(snap), "Conflict")

\* Fault: the displaced task keeps its place in Now.
FaultPromote(snap, t, command, now) ==
  IF SessionTask(snap) = t THEN snap
  ELSE [Place(snap, t, "now", None, command) EXCEPT
          !.focus.session = [id |-> command, task |-> t, elapsed |-> 0,
                             running |-> TRUE, anchor |-> now]]

\* The task becomes Now in a new session; the displaced one heads Next.
Promote(snap, t, command, now) ==
  LET freed == IF Current(snap) = None THEN snap
               ELSE Place(snap, Current(snap), "next", Head1(snap, "next", t), command)
  IN IF SessionTask(snap) = t THEN snap
     ELSE [Place(freed, t, "now", None, command) EXCEPT
             !.focus.session = [id |-> command, task |-> t, elapsed |-> 0,
                                running |-> TRUE, anchor |-> now]]

FocusRefusal(state, a, now) ==
  LET snap == state.snapshot
      hasCurrent == Require(snap.focus.session # None, "MissingTask")
  IN CASE a.op = "Promote" -> Require(a.task \in Live(snap), "MissingTask")
       [] a.op = "CreateNow" -> CreateRefusal(state, a.task)
       [] a.op \in {"Complete", "Remove", "SetPaused"} -> hasCurrent
       [] a.op = "MoveToQueue" ->
            Require(a.bucket # "now", "Conflict") ?? hasCurrent
            ?? AnchorRefusal(snap, SessionTask(snap), a.bucket, a.before)
       [] a.op = "Undo" ->
            Require(state.undo # NoUndo, "Conflict")
            ?? Require(state.undo.completion = a.completion, "Conflict")
            ?? Require(now < state.undo.until, "Expired")

\* Fault: the undo record is taken after the completed task was dropped.
FaultComplete(state, command, now) ==
  LET t == SessionTask(state.snapshot)
      dropped == [Drop(state.snapshot, t) EXCEPT !.focus.session = None]
      next == Head1(dropped, "next", None)
      snap == IF next = None THEN dropped ELSE Promote(dropped, next, command, now)
      until == now + UndoFor
  IN [state EXCEPT
        !.undo = [completion |-> command, until |-> until, before |-> dropped],
        !.snapshot = [snap EXCEPT
           !.undo = [command |-> command, task |-> t, until |-> until]]]

Complete(state, command, now) ==
  LET old == state.snapshot
      t == SessionTask(old)
      dropped == [Drop(old, t) EXCEPT !.focus.session = None]
      next == Head1(dropped, "next", None)
      snap == IF next = None THEN dropped ELSE Promote(dropped, next, command, now)
      until == now + UndoFor
  IN [state EXCEPT
        !.undo = [completion |-> command, until |-> until, before |-> old],
        !.snapshot = [snap EXCEPT
           !.undo = [command |-> command, task |-> t, until |-> until]]]

\* Fault: the snapshot before the completion comes back with its old tokens.
FaultRestored(live, before, command) == [before EXCEPT !.undo = None]

\* The snapshot before the completion, under fresh tokens and a new session.
Restored(live, before, command) ==
  LET Fresh(t) == IF t \notin Live(live) THEN Versions(command)
                  ELSE IF live.task[t].bucket # before.task[t].bucket
                  THEN [live.task[t].versions EXCEPT !.placement = command]
                  ELSE live.task[t].versions
  IN [before EXCEPT
        !.task = [t \in DOMAIN @ |-> [@[t] EXCEPT !.versions = Fresh(t)]],
        !.focus.session = IF @ = None THEN None ELSE [@ EXCEPT !.id = command],
        !.undo = None]

\* Fault: the time run so far is folded in and counted again from the old anchor.
FaultRepaused(session, paused, now) ==
  [session EXCEPT !.elapsed = ElapsedAt(session, now), !.running = ~paused]

Repaused(session, paused, now) ==
  [session EXCEPT !.elapsed = ElapsedAt(session, now),
                  !.anchor = now, !.running = ~paused]

FocusMove(state, command, a, now) ==
  LET t == SessionTask(state.snapshot)
  IN CASE a.op = "Promote" -> [state EXCEPT !.snapshot = Promote(@, a.task, command, now)]
       [] a.op = "CreateNow" ->
            LET made == CreateTask(state, command, a.task, a.title, a.tag, "next", now)
            IN [made EXCEPT !.snapshot = Promote(@, a.task, command, now)]
       [] a.op = "Complete" -> Complete(state, command, now)
       [] a.op = "Remove" ->
            [state EXCEPT !.snapshot = [Drop(@, t) EXCEPT !.focus.session = None]]
       [] a.op = "MoveToQueue" ->
            [state EXCEPT !.snapshot =
               [Place(@, t, a.bucket, AnchorTask(a.before), command)
                  EXCEPT !.focus.session = None]]
       [] a.op = "SetPaused" ->
            [state EXCEPT !.snapshot.focus.session = Repaused(@, a.paused, now)]
       [] a.op = "Undo" ->
            [state EXCEPT !.snapshot = Restored(@, state.undo.before, command),
                          !.undo = NoUndo]

FocusEffect(state, command, a, now) ==
  [FocusMove(state, command, a, now) EXCEPT !.snapshot.focus.version = command]

(***************************************************************************)
(* One-time initialization from a device's existing queue                  *)
(***************************************************************************)
SeedsIn(seeds, bucket) == {i \in DOMAIN seeds : seeds[i].bucket = bucket}

InitializeRefusal(state, a) ==
  Require(~state.snapshot.initialized, "AlreadyInitialized")
  ?? Require(Len(a.seeds) <= MaxTasks, "Capacity")
  ?? Require(\A i, j \in DOMAIN a.seeds :
               a.seeds[i].id = a.seeds[j].id => i = j, "Conflict")
  ?? Require(Cardinality(SeedsIn(a.seeds, "now")) = IF a.timer = None THEN 0 ELSE 1,
             "Invalid")

Initialize(state, command, a, now) ==
  LET ids == [i \in DOMAIN a.seeds |-> a.seeds[i].id]
      SeedOf(t) == a.seeds[CHOOSE i \in DOMAIN ids : ids[i] = t]
  IN [state EXCEPT
        !.used = @ \cup {ids[i] : i \in DOMAIN ids},
        !.snapshot.initialized = TRUE,
        !.snapshot.order = ids,
        !.snapshot.task = [t \in {ids[i] : i \in DOMAIN ids} |->
           [title |-> SeedOf(t).title, tag |-> SeedOf(t).tag,
            bucket |-> SeedOf(t).bucket, created |-> SeedOf(t).created,
            versions |-> Versions(command)]],
        !.snapshot.focus = [version |-> command,
           session |-> IF a.timer = None THEN None
                       ELSE [id |-> command,
                             task |-> ids[Least(SeedsIn(a.seeds, "now"))],
                             elapsed |-> a.timer.elapsed,
                             running |-> a.timer.running, anchor |-> now]]]

(***************************************************************************)
(* One accepted command is one revision                                    *)
(***************************************************************************)
Refusal(state, command, now) ==
  LET a == command.action
      snap == state.snapshot
  IN Require(command.generation = snap.generation, "WrongDataset") ??
     IF a.op = "Initialize" THEN InitializeRefusal(state, a)
     ELSE Require(snap.initialized, "NotInitialized") ??
          IF IsFocus(command)
          THEN GuardRefusal(snap, command.guard, now) ?? FocusRefusal(state, a, now)
          ELSE QueuedRefusal(state, a)

Reduce(state, command, now) ==
  LET a == command.action
      cleared == IF IsUndo(command) THEN state
                 ELSE [state EXCEPT !.undo = NoUndo, !.snapshot.undo = None]
  IN IF a.op = "Initialize" THEN Initialize(cleared, command.id, a, now)
     ELSE IF IsFocus(command) THEN FocusEffect(cleared, command.id, a, now)
     ELSE QueuedEffect(cleared, command.id, a, now)

Apply(state, command, now) ==
  LET next == [Reduce(state, command, now) EXCEPT
                 !.snapshot.revision = state.snapshot.revision + 1]
  IN [next EXCEPT !.snapshot.history =
        Append(state.snapshot.history, Link(command.id, next.snapshot))]
=============================================================================
