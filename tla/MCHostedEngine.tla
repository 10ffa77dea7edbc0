--------------------------- MODULE MCHostedEngine ---------------------------
(* Instances of HostedEngine. *)
EXTENDS HostedEngine

MCDefaults == [interval |-> 2, vary |-> TRUE, quiet_paused |-> TRUE, quiet_hours |-> FALSE]
MCValues == [interval |-> {0, 2}, quiet_hours |-> BOOLEAN]
MCStyles == <<"wash", "edges">>
MCJump == {-1, 3}
=============================================================================
