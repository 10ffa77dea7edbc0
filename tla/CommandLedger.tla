---------------------------- MODULE CommandLedger ----------------------------
(***************************************************************************)
(* What sync promises, told without journals, checkpoints or receipts      *)
(* (docs/sync-design.md): devices hold the commands their users gave them, *)
(* each is decided once, the applied ones in one order for everybody, and  *)
(* a device lets go of a command only when it knows the decision and, if   *)
(* the command was applied, sees its effect.                               *)
(***************************************************************************)
EXTENDS Naturals, Sequences

CONSTANTS Device, Id

VARIABLES
  log,      \* the applied commands, in the order of their effects
  verdict,  \* command -> [device, status]: the commands decided
  holds,    \* per device, the commands it holds
  sees      \* per device, how much of the log it shows

vars == <<log, verdict, holds, sees>>

Held == UNION {holds[d] : d \in Device}
First(n) == {log[i] : i \in 1..n}

Init == /\ log = <<>>
        /\ verdict = <<>>
        /\ holds = [d \in Device |-> {}]
        /\ sees = [d \in Device |-> 0]

\* A held command is applied or refused, once and for all.
Decide(d, c, status) ==
  /\ c \in holds[d]
  /\ c \notin DOMAIN verdict
  /\ verdict' = [x \in DOMAIN verdict \cup {c} |->
       IF x = c THEN [device |-> d, status |-> status] ELSE verdict[x]]
  /\ log' = IF status = "applied" THEN Append(log, c) ELSE log
  /\ UNCHANGED <<holds, sees>>

\* A device takes on new commands, and lets go of those it saw decided.
Advance(d) ==
  \E new \in SUBSET (Id \ (DOMAIN verdict \cup Held)), settled \in SUBSET holds[d],
     n \in sees[d]..Len(log) :
    /\ settled \subseteq DOMAIN verdict
    /\ \A c \in holds[d] : c \in First(n) => c \in settled
    /\ \A c \in settled : verdict[c].status = "applied" => c \in First(n)
    /\ holds' = [holds EXCEPT ![d] = (@ \ settled) \cup new]
    /\ sees' = [sees EXCEPT ![d] = n]
    /\ UNCHANGED <<log, verdict>>

Next == \E d \in Device : \/ Advance(d)
                          \/ \E c \in Id, status \in {"applied", "rejected"} : Decide(d, c, status)

Spec == Init /\ [][Next]_vars

TypeOK ==
  /\ log \in Seq(Id)
  /\ DOMAIN verdict \subseteq Id
  /\ verdict \in [DOMAIN verdict -> [device : Device, status : {"applied", "rejected"}]]
  /\ holds \in [Device -> SUBSET Id]
  /\ sees \in [Device -> 0..Len(log)]

\* Every device reads its own writes: an applied command is still held by the
\* device it came from, or part of what that device shows, and never both.
ReadsOwnWrites ==
  \A c \in DOMAIN verdict :
    LET d == verdict[c].device
    IN verdict[c].status = "applied" => (c \in holds[d]) # (c \in First(sees[d]))

\* No command has two effects, and only decided ones have any.
EffectsOnce ==
  /\ \A i, j \in DOMAIN log : log[i] = log[j] => i = j
  /\ \A i \in DOMAIN log : /\ log[i] \in DOMAIN verdict
                          /\ verdict[log[i]].status = "applied"
=============================================================================
