----------------------------- MODULE QueueClient -----------------------------
(***************************************************************************)
(* The journal of one device: crates/qf-core/src/sync/client.rs.  No       *)
(* variables: an operation takes a client record and gives the next one.   *)
(*                                                                         *)
(*   client.disk    the envelopes a power failure could bring back, oldest *)
(*                  first; the last is the file that is read and the       *)
(*                  envelope in memory, and is alone once it is durable    *)
(*   client.warned  Client.durability: the last save was renamed into      *)
(*                  place, but its directory could not be synced           *)
(*   client.seen    the server time of the last observation while it is    *)
(*                  fresh (Client.online and Client.observation), or None  *)
(*                                                                         *)
(* An envelope's suspension is None, "attention" or "recovery".  Wall      *)
(* times, messages and the byte limit of the file are left out.            *)
(***************************************************************************)
EXTENDS QueueReducer

CONSTANTS
  MaxPending    \* MAX_PENDING

ASSUME ClientConstants == MaxPending \in Nat \ {0}

Sq == INSTANCE SequencesExt
Fn == INSTANCE Functions

(***************************************************************************)
(* Envelopes                                                               *)
(***************************************************************************)
\* Every intent the envelope holds: pending, then refused and kept.
Intents(env) == env.pending \o [i \in DOMAIN env.recovery |-> env.recovery[i].command]

Ids(commands) == {commands[i].id : i \in DOMAIN commands}

Created(commands) == {CreatedTask(commands[i]) : i \in DOMAIN commands} \ {None}

\* required_ids: the tasks a user may still point at.
Required(env) ==
  Live(env.confirmed)
  \cup (IF env.confirmed.undo = None THEN {} ELSE {env.confirmed.undo.task})
  \cup Created(Intents(env))

\* register_handles: the new ones in the order of their identities, which are
\* random, so in an arbitrary one.
Registered(env) ==
  LET missing == Sq!SetToSeq(Required(env) \ DOMAIN env.handles)
      HandleOf(t) == env.nextHandle + (CHOOSE i \in DOMAIN missing : missing[i] = t) - 1
  IN [env EXCEPT
        !.handles = [t \in DOMAIN @ \cup Required(env) |->
                       IF t \in DOMAIN env.handles THEN env.handles[t] ELSE HandleOf(t)],
        !.nextHandle = @ + Len(missing)]

NewEnvelope(device, snap, time) ==
  Registered([device |-> device, confirmed |-> snap, time |-> time, pending |-> <<>>,
              handles |-> <<>>, nextHandle |-> 1, recovery |-> <<>>,
              suspension |-> None, settled |-> None])

\* Envelope::validate, checked before every save and by every open.
EnvelopeValid(env) ==
  LET snap == env.confirmed
      commands == Intents(env)
  IN /\ snap.initialized /\ SnapshotValid(snap)
     /\ snap.focus.session # None => snap.focus.session.anchor <= env.time
     /\ env.settled # None =>
          /\ env.settled.command \notin Ids(env.pending)
          /\ env.settled.outcome.status = "applied" =>
               env.settled.outcome.revision \in 1..snap.revision
     /\ Len(env.pending) <= MaxPending
     /\ Cardinality(Ids(commands)) = Len(commands)
     /\ \A i \in DOMAIN commands : /\ commands[i].generation = snap.generation
                                  /\ commands[i].action.op # "Initialize"
     /\ Cardinality({i \in DOMAIN env.pending : IsFocus(env.pending[i])}) <= 1
     /\ Fn!IsInjective(env.handles)
     /\ Fn!Range(env.handles) \subseteq 1..(env.nextHandle - 1)
     /\ Required(env) \subseteq DOMAIN env.handles

\* The confirmed queue with some edits on top, each that would be refused noted
\* and passed over.  Focus waits for its receipt.
Forecasted(env, commands) ==
  LET start == [state |-> [snapshot |-> [env.confirmed EXCEPT !.undo = None],
                           used |-> (DOMAIN env.handles \ Created(env.pending))
                                    \cup Live(env.confirmed),
                           undo |-> NoUndo],
                conflicts |-> {}]
      Step(view, command) ==
        IF IsFocus(command) THEN view
        ELSE IF Refusal(view.state, command, env.time) = None
        THEN [view EXCEPT !.state = Apply(@, command, env.time)]
        ELSE [view EXCEPT !.conflicts = @ \cup {command.id}]
      after[n \in 0..Len(commands)] ==
        IF n = 0 THEN start ELSE Step(after[n - 1], commands[n])
  IN after[Len(commands)]

\* Fault: the edit that is being sent is left out.
FaultProjection(env) ==
  Forecasted(env, IF env.pending = <<>> THEN <<>> ELSE Tail(env.pending))

\* The queue to show.
Projection(env) == Forecasted(env, env.pending)

Quarantined(env) == env.suspension = "recovery"

(***************************************************************************)
(* Saving.  A save ends "ok", "after" the rename (the directory could not  *)
(* be synced: the new envelope is in use, but not yet durable) or "before" *)
(* it (nothing happened, the operation fails).                             *)
(***************************************************************************)
Envelope(client) == client.disk[Len(client.disk)]

Save(client, candidate, result) ==
  CASE result = "ok" -> [client EXCEPT !.disk = <<candidate>>, !.warned = FALSE]
    [] result = "after" -> [client EXCEPT !.disk = Append(@, candidate), !.warned = TRUE]
    [] result = "before" -> client

\* install: an envelope that changes nothing is not written.
Install(client, candidate, result) ==
  IF candidate = Envelope(client) THEN client ELSE Save(client, candidate, result)

\* Fault: the directory is not synced again when the file is next opened.
FaultOpen(client, synced) == [client EXCEPT !.warned = FALSE, !.seen = None]

\* Client::open on the file that is there; its directory is synced again.
Open(client, synced) ==
  [disk |-> IF synced THEN <<Envelope(client)>> ELSE client.disk,
   warned |-> ~synced, seen |-> None]

\* retry_durability
Resync(client, synced) ==
  IF client.warned /\ synced
  THEN [client EXCEPT !.disk = <<Envelope(client)>>, !.warned = FALSE] ELSE client

NetworkFailed(client) == [client EXCEPT !.seen = None]

(***************************************************************************)
(* Enqueueing                                                              *)
(***************************************************************************)
CanEdit(client) ==
  /\ ~client.warned
  /\ ~Quarantined(Envelope(client))
  /\ Len(Envelope(client).pending) < MaxPending

Fresh(client) ==
  client.seen # None /\ ~client.warned /\ Envelope(client).suspension = None

Enqueued(env, command) == Registered([env EXCEPT !.pending = Append(@, command)])

CanEnqueueQueued(client, command) ==
  LET env == Envelope(client)
      candidate == Enqueued(env, command)
  IN /\ CanEdit(client)
     /\ CreatedTask(command) \notin DOMAIN env.handles
     /\ command.id \notin Projection(candidate).conflicts
     /\ EnvelopeValid(candidate)

\* `now` is the device's estimate of the server's clock, server_now.  An undo
\* needs the server's private record, so the hint stands for it.
CanEnqueueFocus(client, command, now) ==
  LET env == Envelope(client)
      hint == env.confirmed.undo
      local == [snapshot |-> [env.confirmed EXCEPT !.undo = None],
                used |-> DOMAIN env.handles, undo |-> NoUndo]
  IN /\ CanEdit(client)
     /\ Fresh(client)
     /\ env.pending = <<>>
     /\ CreatedTask(command) \notin DOMAIN env.handles
     /\ IF IsUndo(command)
        THEN hint # None /\ hint.until > now /\ hint.command = command.action.completion
        ELSE Refusal(local, command, now) = None
     /\ EnvelopeValid(Enqueued(env, command))

(***************************************************************************)
(* Exchange                                                                *)
(***************************************************************************)
\* Fault: a device that is not online does not try.
FaultCanRequest(client) ==
  ~client.warned /\ Envelope(client).suspension = None /\ client.seen # None

\* Fault: a device with nothing to send does not ask what the others did.
FaultNoPolls(client) ==
  ~client.warned /\ Envelope(client).suspension = None /\ Envelope(client).pending # <<>>

CanRequest(client) == ~client.warned /\ Envelope(client).suspension = None

\* The checkpoint and the head of the journal, nothing else.
NextRequest(client, token) ==
  LET env == Envelope(client)
  IN [token |-> token, device |-> env.device, checkpoint |-> Checkpoint(env.confirmed),
      command |-> IF env.pending = <<>> THEN None ELSE Head(env.pending)]

\* The answer is the one to this request, from this journal.
Answers(env, request, response) ==
  /\ request.checkpoint # None /\ request.checkpoint = Checkpoint(env.confirmed)
  /\ response.device = env.device
  /\ IF request.command = None THEN response.receipt = None
     ELSE /\ env.pending # <<>> /\ Head(env.pending) = request.command
          /\ response.receipt # None /\ response.receipt.command = request.command.id
          /\ response.receipt.outcome.status = "applied" =>
               response.receipt.outcome.revision
                 \in (env.confirmed.revision + 1)..response.snapshot.revision

\* The snapshot is one the confirmed queue can become.
Extends(env, response) ==
  /\ SnapshotValid(response.snapshot)
  /\ response.snapshot.generation = env.confirmed.generation
  /\ response.snapshot.revision >= env.confirmed.revision
  /\ response.time >= env.time
  /\ response.snapshot.revision = env.confirmed.revision => response.snapshot = env.confirmed

\* Fault: the command is settled, the snapshot it led to not yet adopted.
FaultReconciled(env, request, response) ==
  IF response.receipt = None
  THEN Registered([env EXCEPT !.confirmed = response.snapshot, !.time = response.time])
  ELSE [env EXCEPT !.pending = Tail(@)]

\* The journal once the answer is reconciled: the head is settled, and kept
\* for the user when it was refused.
Reconciled(env, request, response) ==
  LET receipt == response.receipt
      command == Head(env.pending)
      adopted == [env EXCEPT !.confirmed = response.snapshot, !.time = response.time]
      settled == [adopted EXCEPT
        !.pending = Tail(@),
        !.settled = IF IsFocus(command) THEN receipt ELSE @,
        !.recovery = IF receipt.outcome.status = "applied" THEN @
                     ELSE Append(@, [command |-> command, reason |-> receipt.outcome.reason])]
  IN Registered(IF receipt = None THEN adopted ELSE settled)

CanAccept(client, request, response) ==
  LET env == Envelope(client)
  IN /\ ~Quarantined(env)
     /\ Answers(env, request, response)
     /\ Extends(env, response)
     /\ EnvelopeValid(Reconciled(env, request, response))

\* accept, whose envelope carries a new wall time and is always saved.
Accept(client, request, response, result) ==
  LET saved == Save(client, Reconciled(Envelope(client), request, response), result)
  IN [saved EXCEPT
        !.seen = IF result = "before" \/ saved.warned THEN None ELSE response.time]

(***************************************************************************)
(* Suspension and recovery                                                 *)
(***************************************************************************)
Suspend(client, quarantine, result) ==
  Install(NetworkFailed(client),
          [Envelope(client) EXCEPT
             !.suspension = IF quarantine \/ @ = "recovery" THEN "recovery" ELSE "attention"],
          result)

\* resume_after_repair
Resume(client, result) ==
  Install(client, [Envelope(client) EXCEPT !.suspension = None], result)

\* No identity is in an envelope twice, so one item goes.
DismissRecovery(client, command, result) ==
  LET items == Envelope(client).recovery
      i == CHOOSE i \in DOMAIN items : items[i].command.id = command
  IN Install(client, [Envelope(client) EXCEPT !.recovery = RemoveAt(@, i)], result)
=============================================================================
