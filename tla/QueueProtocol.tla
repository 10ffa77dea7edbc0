---------------------------- MODULE QueueProtocol ----------------------------
(***************************************************************************)
(* The data the clients and the server share: the types of                 *)
(* crates/qf-core/src/sync/protocol.rs with their helpers and what a       *)
(* snapshot must satisfy to be served, stored or adopted.                  *)
(*                                                                         *)
(* The task vector of the code is split into `order`, the sequence of live *)
(* task identities, and `task`, their records.  UUIDs are elements of      *)
(* unspecified sets; titles and tags are values compared and nothing more, *)
(* so their syntax and the byte limits are left out.  A history            *)
(* fingerprint is the chain it digests, one link per accepted command, so  *)
(* two fingerprints are equal exactly when what was hashed is equal.       *)
(***************************************************************************)
EXTENDS Integers, Sequences, FiniteSets

CONSTANTS
  None,         \* the absent optional value
  CommandId,    \* command identities
  TaskId,       \* task identities
  Generation,   \* restore-generation identities
  Title, Tag,   \* what a task can be called and tagged
  QueueBucket,  \* the queued buckets, "next" among them
  FocusTtl,     \* FOCUS_TTL_SECS
  UndoFor,      \* UNDO_SECS
  MaxTasks      \* MAX_TASKS

Token == CommandId \cup Generation
Bucket == QueueBucket \cup {"now"}

ASSUME ProtocolConstants ==
  /\ FocusTtl \in Nat \ {0} /\ UndoFor \in Nat \ {0} /\ MaxTasks \in Nat \ {0}
  /\ "next" \in QueueBucket /\ "now" \notin QueueBucket

\* `a ?? b` is the refusal of two checks made in this order (Rust's `a?; b?`).
a ?? b == IF a # None THEN a ELSE b
Require(holds, refusal) == IF holds THEN None ELSE refusal

(***************************************************************************)
(* Snapshots                                                               *)
(***************************************************************************)
Versions(id) == [title |-> id, tag |-> id, placement |-> id]

Live(snap) == DOMAIN snap.task
NowTasks(snap) == {t \in Live(snap) : snap.task[t].bucket = "now"}
Current(snap) == IF NowTasks(snap) = {} THEN None
                 ELSE CHOOSE t \in NowTasks(snap) : TRUE
SessionTask(snap) == IF snap.focus.session = None THEN None
                     ELSE snap.focus.session.task
SessionId(snap) == IF snap.focus.session = None THEN None
                   ELSE snap.focus.session.id

ElapsedAt(session, now) ==
  session.elapsed + IF session.running /\ now > session.anchor
                    THEN now - session.anchor ELSE 0

Link(by, snap) == [by |-> by, result |-> [snap EXCEPT !.history = <<>>]]

Checkpoint(snap) == [generation |-> snap.generation, revision |-> snap.revision,
                     history |-> snap.history]

Applied(revision) == [status |-> "applied", revision |-> revision, reason |-> None]
Rejected(reason) == [status |-> "rejected", revision |-> 0, reason |-> reason]

\* Snapshot::validate: what a snapshot must satisfy to be served or adopted.
OrderedOnce(snap) ==
  /\ {snap.order[i] : i \in DOMAIN snap.order} = Live(snap)
  /\ \A i, j \in DOMAIN snap.order : snap.order[i] = snap.order[j] => i = j
FocusIsNow(snap) ==
  NowTasks(snap) = IF snap.focus.session = None THEN {} ELSE {SessionTask(snap)}
StartedOnce(snap) ==
  /\ snap.initialized <=> snap.revision # 0
  /\ ~snap.initialized => Live(snap) = {} /\ snap.undo = None
SnapshotValid(snap) ==
  /\ Cardinality(Live(snap)) <= MaxTasks
  /\ OrderedOnce(snap)
  /\ FocusIsNow(snap)
  /\ StartedOnce(snap)
  /\ snap.undo # None => snap.undo.task \notin Live(snap)

(***************************************************************************)
(* Commands.  `guard` is None for a queued action and for Initialize.      *)
(***************************************************************************)
IsFocus(command) == command.guard # None
IsUndo(command) == command.action.op = "Undo"
CreatedTask(command) ==
  IF command.action.op \in {"Create", "CreateNow"} THEN command.action.task ELSE None

ObservedGuard(snap, time) ==
  [revision |-> snap.revision, version |-> snap.focus.version,
   session |-> SessionId(snap), task |-> SessionTask(snap),
   expires |-> time + FocusTtl]

(***************************************************************************)
(* Types                                                                   *)
(***************************************************************************)
SeedRecord == [id : TaskId, title : Title, tag : Tag \cup {None}, bucket : Bucket, created : Nat]
TimerRecord == [elapsed : Nat, running : BOOLEAN]
TaskRecord == [title : Title, tag : Tag \cup {None}, bucket : Bucket, created : Nat,
               versions : [title : Token, tag : Token, placement : Token]]
Session == [id : Token, task : TaskId, elapsed : Nat, running : BOOLEAN, anchor : Nat]
Hint == [command : Token, task : TaskId, until : Nat]

\* f is a function from some of the elements of D to R.
Partial(f, D, R) == DOMAIN f \subseteq D /\ f \in [DOMAIN f -> R]

\* A snapshot, whatever its history.
IsBody(s) ==
  /\ s \in [generation : Generation, revision : Nat, history : {s.history},
           initialized : BOOLEAN, order : Seq(TaskId), task : {s.task},
           focus : [version : Token, session : Session \cup {None}],
           undo : Hint \cup {None}]
  /\ Partial(s.task, TaskId, TaskRecord)

IsLink(l) == l \in [by : Token, result : {l.result}] /\ IsBody(l.result)
IsChain(h) == h \in Seq({h[i] : i \in DOMAIN h}) /\ \A i \in DOMAIN h : IsLink(h[i])
IsSnapshot(s) == IsBody(s) /\ IsChain(s.history)

Anchor == [task : TaskId, placement : Token]
Guard == [revision : Nat, version : Token, session : Token \cup {None},
          task : TaskId \cup {None}, expires : Nat]
Queued ==
  [op : {"Create"}, task : TaskId, title : Title, tag : Tag \cup {None}, bucket : QueueBucket]
  \cup [op : {"Rename"}, task : TaskId, expected : Token, title : Title]
  \cup [op : {"SetTag"}, task : TaskId, expected : Token, tag : Tag \cup {None}]
  \cup [op : {"MoveBefore"}, task : TaskId, expected : Token, bucket : QueueBucket,
        before : Anchor \cup {None}]
  \cup [op : {"Delete"}, task : TaskId, expected : Token]
Focused ==
  [op : {"Promote"}, task : TaskId]
  \cup [op : {"CreateNow"}, task : TaskId, title : Title, tag : Tag \cup {None}]
  \cup [op : {"Complete", "Remove"}]
  \cup [op : {"MoveToQueue"}, bucket : QueueBucket, before : Anchor \cup {None}]
  \cup [op : {"SetPaused"}, paused : BOOLEAN]
  \cup [op : {"Undo"}, completion : Token]
Seeding == [op : {"Initialize"}, seeds : Seq(SeedRecord), timer : TimerRecord \cup {None}]
Command ==
  [id : CommandId, generation : Generation, guard : {None}, action : Queued \cup Seeding]
  \cup [id : CommandId, generation : Generation, guard : Guard, action : Focused]

\* Why a command is rejected: the variants of Rejection a reduction answers.
Reason == {"WrongDataset", "AlreadyInitialized", "NotInitialized", "MissingTask",
           "Conflict", "Expired", "Capacity", "Invalid"}
ReceiptOutcome ==
  [status : {"applied"}, revision : Nat, reason : {None}]
  \cup [status : {"rejected"}, revision : {0}, reason : Reason]

\* Identities are UUIDs of one space, drawn without collision; the absent
\* value is none of the values it stands beside.
ASSUME DistinctValues ==
  /\ CommandId \cap Generation = {}
  /\ None \notin Token \cup TaskId \cup Reason \cup Session \cup Hint \cup Guard
=============================================================================
