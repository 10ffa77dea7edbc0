----------------------------- MODULE QueueServer -----------------------------
(***************************************************************************)
(* The authoritative server: crates/qf-sync-server/src/database.rs.  Every *)
(* operation is one IMMEDIATE SQLite transaction, so every operation is    *)
(* one action; an error drops the transaction and leaves all rows alone.   *)
(***************************************************************************)
EXTENDS QueueReducer

CONSTANTS
  Device,       \* installations an operator may enroll
  MaxTokens     \* bound on the bearer tokens ever issued

\* The absent value is no reason to refuse an exchange either.
ASSUME ServerConstants ==
  /\ Generation # {}
  /\ None \notin {"Unauthorized", "HistoryMismatch", "ReceiptMismatch"}

VARIABLES
  state,        \* dataset.state: snapshot, used identities, undo record
  history,      \* history rows: revision -> fingerprint
  receipts,     \* receipts rows: command id -> [device, command, outcome]
  lastTime,     \* dataset.last_time
  enrolled,     \* devices rows: device -> [token, revoked]
  minted,       \* bearer tokens drawn so far; randomness, not in the database
  roots,        \* generation identities drawn so far; likewise
  artifact      \* the last backup an operator took, None before the first

server == <<state, history, receipts, lastTime>>
serverVars == <<server, enrolled, minted, roots, artifact>>

\* The rows a backup copies.
database == [state |-> state, history |-> history, receipts |-> receipts,
             lastTime |-> lastTime, enrolled |-> enrolled]

Receipt == [device : Device, command : Command, outcome : ReceiptOutcome]

IsDatabase(db) ==
  /\ IsState(db.state)
  /\ DOMAIN db.history \subseteq Nat
  /\ \A r \in DOMAIN db.history : IsChain(db.history[r])
  /\ Partial(db.receipts, CommandId, Receipt)
  /\ db.lastTime \in Nat
  /\ Partial(db.enrolled, Device, [token : Nat, revoked : BOOLEAN])

\* A random identity never drawn before; which one is immaterial.
FreshIn(ids, drawn) == CHOOSE i \in ids : i \notin drawn

ServerInit ==
  /\ state = NewState(FreshIn(Generation, {}))
  /\ history = [r \in {0} |-> state.snapshot.history]
  /\ roots = {FreshIn(Generation, {})}
  /\ receipts = <<>>
  /\ lastTime = 0
  /\ enrolled = <<>>
  /\ minted = 0
  /\ artifact = None

(***************************************************************************)
(* Operator commands on the device table                                   *)
(***************************************************************************)
\* new_token is random: the n-th token drawn differs from every earlier one,
\* whatever backup came back in between.
Issue(device) ==
  /\ minted < MaxTokens
  /\ minted' = minted + 1
  /\ enrolled' = [d \in DOMAIN enrolled \cup {device} |->
       IF d = device THEN [token |-> minted + 1, revoked |-> FALSE] ELSE enrolled[d]]
  /\ UNCHANGED <<server, roots, artifact>>

Enroll(device) == device \notin DOMAIN enrolled /\ Issue(device)
Rotate(device) == device \in DOMAIN enrolled /\ Issue(device)

Revoke(device) ==
  /\ device \in DOMAIN enrolled
  /\ enrolled' = [enrolled EXCEPT ![device].revoked = TRUE]
  /\ UNCHANGED <<server, minted, roots, artifact>>

(***************************************************************************)
(* Exchange.  A request is [token, device, checkpoint, command]; `device`  *)
(* is the installation named in its header.                                *)
(***************************************************************************)
\* The devices an unrevoked token belongs to: none or one.
Holders(token) ==
  {d \in DOMAIN enrolled : enrolled[d].token = token /\ ~enrolled[d].revoked}

\* Fault: only the newest revision is compared, not the retained row.
FaultCheckpointRefusal(checkpoint) ==
  IF checkpoint = None THEN None
  ELSE Require(checkpoint.generation = state.snapshot.generation, "WrongDataset")
       ?? Require(checkpoint.history = state.snapshot.history, "HistoryMismatch")

\* Fault: the history behind the checkpoint is not compared.
FaultUncheckedHistory(checkpoint) ==
  IF checkpoint = None THEN None
  ELSE Require(checkpoint.generation = state.snapshot.generation, "WrongDataset")

CheckpointRefusal(checkpoint) ==
  IF checkpoint = None THEN None
  ELSE Require(checkpoint.generation = state.snapshot.generation, "WrongDataset")
       ?? Require(/\ checkpoint.revision <= state.snapshot.revision
                  /\ checkpoint.revision \in DOMAIN history
                  /\ history[checkpoint.revision] = checkpoint.history,
                  "HistoryMismatch")

ReceiptRefusal(device, command) ==
  IF command = None THEN None
  ELSE IF command.id \notin DOMAIN receipts THEN None
  ELSE Require(/\ receipts[command.id].device = device
               /\ receipts[command.id].command = command, "ReceiptMismatch")

\* Why an exchange answers an HTTP error; None when it commits.
ExchangeError(request) ==
  Require(request.command = None \/ request.checkpoint # None, "Invalid")
  ?? Require(request.device \in Holders(request.token), "Unauthorized")
  ?? CheckpointRefusal(request.checkpoint)
  ?? ReceiptRefusal(request.device, request.command)

\* Fault: the host's clock is taken at its word.
FaultServerTime(sampled) == sampled

ServerTime(sampled) == IF sampled > lastTime THEN sampled ELSE lastTime

\* The definitive outcome of executing a command now.
Outcome(command, now) ==
  LET refusal == Refusal(state, command, now)
  IN IF refusal = None THEN Applied(state.snapshot.revision + 1)
     ELSE Rejected(refusal)

Execute(device, command, now) ==
  LET outcome == Outcome(command, now)
  IN /\ receipts' = [c \in DOMAIN receipts \cup {command.id} |->
          IF c = command.id
          THEN [device |-> device, command |-> command, outcome |-> outcome]
          ELSE receipts[c]]
     /\ IF outcome.status = "applied"
        THEN /\ state' = Apply(state, command, now)
             /\ history' = [r \in DOMAIN history \cup {outcome.revision} |->
                  IF r = outcome.revision THEN Apply(state, command, now).snapshot.history
                  ELSE history[r]]
        ELSE UNCHANGED <<state, history>>

\* Fault: a command is executed without looking for its receipt first.
FaultExchange(request, sampled) ==
  /\ ExchangeError(request) = None
  /\ lastTime' = ServerTime(sampled)
  /\ IF request.command = None THEN UNCHANGED <<state, history, receipts>>
     ELSE Execute(request.device, request.command, ServerTime(sampled))
  /\ UNCHANGED <<enrolled, minted, roots, artifact>>

Exchange(request, sampled) ==
  /\ ExchangeError(request) = None
  /\ lastTime' = ServerTime(sampled)
  /\ IF request.command = None \/ request.command.id \in DOMAIN receipts
     THEN UNCHANGED <<state, history, receipts>>
     ELSE Execute(request.device, request.command, ServerTime(sampled))
  /\ UNCHANGED <<enrolled, minted, roots, artifact>>

\* The response of the exchange the current step performs.
Response(request) ==
  [device |-> request.device, time |-> lastTime', snapshot |-> state'.snapshot,
   receipt |-> IF request.command = None THEN None
               ELSE [command |-> request.command.id,
                     outcome |-> receipts'[request.command.id].outcome]]

(***************************************************************************)
(* Backup and the two ways a backup comes back                             *)
(***************************************************************************)
Backup ==
  /\ artifact' = database
  /\ UNCHANGED <<server, enrolled, minted, roots>>

\* A volume restored behind the operator's procedure.
RawRestore ==
  /\ artifact # None
  /\ state' = artifact.state
  /\ history' = artifact.history
  /\ receipts' = artifact.receipts
  /\ lastTime' = artifact.lastTime
  /\ enrolled' = artifact.enrolled
  /\ UNCHANGED <<minted, roots, artifact>>

\* Fault: the copy keeps the history rows of the generation it leaves.
FaultRestoreGeneration ==
  /\ artifact # None
  /\ Generation \ roots # {}
  /\ roots' = roots \cup {FreshIn(Generation, roots)}
  /\ state' = ResetGeneration(artifact.state, FreshIn(Generation, roots))
  /\ history' = [artifact.history EXCEPT
       ![state'.snapshot.revision] = state'.snapshot.history]
  /\ receipts' = artifact.receipts
  /\ lastTime' = artifact.lastTime
  /\ enrolled' = artifact.enrolled
  /\ UNCHANGED <<minted, artifact>>

\* The documented restore: a copy of the backup under a new generation.
RestoreGeneration ==
  /\ artifact # None
  /\ Generation \ roots # {}
  /\ roots' = roots \cup {FreshIn(Generation, roots)}
  /\ state' = ResetGeneration(artifact.state, FreshIn(Generation, roots))
  /\ history' = [r \in {state'.snapshot.revision} |-> state'.snapshot.history]
  /\ receipts' = artifact.receipts
  /\ lastTime' = artifact.lastTime
  /\ enrolled' = artifact.enrolled
  /\ UNCHANGED <<minted, artifact>>
=============================================================================
