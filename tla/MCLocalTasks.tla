---------------------------- MODULE MCLocalTasks ----------------------------
(* Values of LocalTasks's constants for TLC. *)
EXTENDS LocalTasks

CONSTANT MaxOld   \* bound: tasks in a file found at the first start

\* Every file of that size: its order is that of the identities, the tasks are
\* in any lists, and like in older versions Now may hold several.  Each task
\* of Now carries a timer, or each a paused one, or none does.
MCOldFiles ==
  {[next |-> n + 1,
    tasks |-> [i \in 1..n |->
      [id |-> i, title |-> CHOOSE t \in Title : TRUE, bucket |-> bucket[i], tag |-> None,
       started |-> IF bucket[i] = "now" /\ timer # "none" THEN 0 ELSE None,
       paused |-> IF bucket[i] = "now" /\ timer = "paused" THEN FirstTime ELSE None]]] :
   n \in 0..MaxOld, bucket \in [1..MaxOld -> Bucket], timer \in {"none", "runs", "paused"}}
=============================================================================
