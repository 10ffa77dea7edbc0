-------------------------- MODULE MCServerWorkload --------------------------
(* Values of ServerWorkload's constants for TLC. *)
EXTENDS ServerWorkload

CONSTANTS t1, t2, t3

Seed(t, bucket) == [id |-> t, title |-> "x", tag |-> None, bucket |-> bucket, created |-> 0]

\* One task in Now with a running timer, one waiting in Next.
MCSeeds == <<Seed(t1, "now"), Seed(t2, "next")>>
MCTimer == [elapsed |-> 0, running |-> TRUE]
=============================================================================
