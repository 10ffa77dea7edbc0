---------------------------- MODULE DeviceIntents ----------------------------
(***************************************************************************)
(* The intents a device can aim at what a snapshot shows:                  *)
(* crates/qf-core/src/engine/shared.rs.  A queued edit carries the token   *)
(* of the field it was aimed at, a move also that of the task it is to     *)
(* stand before; an undo names the completion the snapshot's hint offers.  *)
(* The protocol takes all of them; `Offered` are those the engine composes *)
(* rather than answering at once that there is nothing to do.              *)
(***************************************************************************)
EXTENDS QueueProtocol

Anchors(snap) ==
  {None} \cup {[task |-> t, placement |-> snap.task[t].versions.placement] : t \in Live(snap)}

QueuedActions(snap) ==
  [op : {"Create"}, task : TaskId, title : Title, tag : Tag \cup {None}, bucket : QueueBucket]
  \cup UNION {
    {[op |-> "Rename", task |-> t, expected |-> snap.task[t].versions.title,
      title |-> x] : x \in Title}
    \cup {[op |-> "SetTag", task |-> t, expected |-> snap.task[t].versions.tag,
           tag |-> x] : x \in Tag \cup {None}}
    \cup {[op |-> "MoveBefore", task |-> t, expected |-> snap.task[t].versions.placement,
           bucket |-> b, before |-> x] : b \in QueueBucket, x \in Anchors(snap)}
    \cup {[op |-> "Delete", task |-> t, expected |-> snap.task[t].versions.title]}
    : t \in Live(snap)}

FocusActions(snap) ==
  {[op |-> "Promote", task |-> t] : t \in Live(snap)}
  \cup [op : {"CreateNow"}, task : TaskId, title : Title, tag : Tag \cup {None}]
  \cup [op : {"Complete", "Remove"}]
  \cup [op : {"MoveToQueue"}, bucket : QueueBucket, before : Anchors(snap)]
  \cup [op : {"SetPaused"}, paused : BOOLEAN]
  \cup (IF snap.undo = None THEN {} ELSE [op : {"Undo"}, completion : {snap.undo.command}])

BucketOf(snap, t) == snap.task[t].bucket

Offered(snap, a) ==
  CASE a.op = "Rename" -> a.title # snap.task[a.task].title
    [] a.op = "SetTag" -> a.tag # snap.task[a.task].tag
    [] a.op \in {"Delete", "Promote"} -> BucketOf(snap, a.task) # "now"
    [] a.op = "MoveBefore" ->
         /\ BucketOf(snap, a.task) # "now"
         /\ a.before # None => /\ a.before.task # a.task
                              /\ BucketOf(snap, a.before.task) = a.bucket
    [] a.op = "MoveToQueue" ->
         /\ Current(snap) # None
         /\ a.before # None => BucketOf(snap, a.before.task) = a.bucket
    [] a.op \in {"Complete", "Remove"} -> Current(snap) # None
    [] a.op = "SetPaused" ->
         snap.focus.session # None /\ a.paused = snap.focus.session.running
    [] OTHER -> TRUE
=============================================================================
