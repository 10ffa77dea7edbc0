----------------------------- MODULE BucketLists -----------------------------
(***************************************************************************)
(* What the operations of a queue mean to somebody who looks at its four   *)
(* lists: a Now that holds at most one task, and Next, Later and Side.     *)
(* TaskStore keeps one vector instead; LocalTasks compares the two.        *)
(***************************************************************************)
EXTENDS Integers, Sequences

CONSTANT None

Sq == INSTANCE SequencesExt

Less(list, id) ==
  IF id \in Sq!ToSet(list)
  THEN Sq!RemoveAt(list, CHOOSE i \in DOMAIN list : list[i] = id) ELSE list
Without(lists, id) == [b \in DOMAIN lists |-> Less(lists[b], id)]

\* The task takes Now, and the one it finds there steps back to the front of Next.
Enter(lists, id) ==
  LET rest == Without(lists, id)
  IN [rest EXCEPT !.now = <<id>>, !.next = rest.now \o @]

Add(lists, id, bucket) ==
  IF bucket = "now" THEN Enter(lists, id)
  ELSE [lists EXCEPT ![bucket] = Append(@, id)]

\* Completing the task in Now pulls the first of Next; any other just goes.
Complete(lists, id) ==
  LET rest == Without(lists, id)
  IN IF lists.now = <<id>> /\ rest.next # <<>> THEN Enter(rest, Head(rest.next)) ELSE rest

\* To a zero-based place of a list, or to its end.
Move(lists, id, bucket, index) ==
  LET rest == Without(lists, id)
      at == IF index = None \/ index > Len(rest[bucket]) THEN Len(rest[bucket]) ELSE index
  IN IF bucket = "now" THEN Enter(lists, id)
     ELSE [rest EXCEPT ![bucket] = Sq!InsertAt(@, at + 1, id)]

\* Directly before a row, unless that row has left the list.
Drop(lists, id, bucket, row) ==
  LET rest == Without(lists, id)
      at == CHOOSE i \in DOMAIN rest[bucket] : rest[bucket][i] = row
  IN IF row = None THEN Move(lists, id, bucket, None)
     ELSE IF row = id \/ row \notin Sq!ToSet(lists[bucket]) THEN lists
     ELSE IF bucket = "now" THEN Enter(lists, id)
     ELSE [rest EXCEPT ![bucket] = Sq!InsertAt(@, at, id)]

\* One place up or down: the neighbours change places.
Shift(lists, id, delta) ==
  [b \in DOMAIN lists |->
     LET i == CHOOSE i \in DOMAIN lists[b] : lists[b][i] = id
     IN IF id \in Sq!ToSet(lists[b]) /\ i + delta \in DOMAIN lists[b]
        THEN [lists[b] EXCEPT ![i] = lists[b][i + delta], ![i + delta] = id]
        ELSE lists[b]]
=============================================================================
