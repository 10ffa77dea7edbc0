---------------------------- MODULE MCQueueSync ----------------------------
(* Values of QueueSync's constants for TLC. *)
EXTENDS QueueSync

CONSTANTS t1, t2, t3

Seed(t, bucket) == [id |-> t, title |-> "x", tag |-> None, bucket |-> bucket, created |-> 0]

MCSeeds == <<Seed(t1, "now"), Seed(t2, "next")>>
MCOneSeed == <<Seed(t1, "now")>>
MCTimer == [elapsed |-> 0, running |-> TRUE]
=============================================================================
