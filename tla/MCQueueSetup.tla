---------------------------- MODULE MCQueueSetup ----------------------------
(* Values of QueueSetup's constants for TLC. *)
EXTENDS QueueSetup, TLC

CONSTANTS d1, d2

Task(title, bucket) == [title |-> title, tag |-> None, bucket |-> bucket]

\* Each has one task at first; an old build of the second device adds the other.
MCLocal == d1 :> <<Task("a", "now")>> @@ d2 :> <<Task("b", "now"), Task("c", "next")>>
MCFound == d1 :> 1 @@ d2 :> 1
MCChoices == d1 :> {"initialize"} @@ d2 :> {"initialize", "import"}
MCShares == d1 :> {"initialize"} @@ d2 :> {"import", "shared"}
=============================================================================
