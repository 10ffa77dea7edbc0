------------------------------ MODULE QueueSync ------------------------------
(***************************************************************************)
(* The whole of sync: devices with their journals (QueueClient), each      *)
(* driven by the worker of crates/qf-sync/src/worker.rs, over a network    *)
(* that loses, delays and repeats, around one server (QueueServer), with   *)
(* saves that fail, processes that die and backups that come back.         *)
(*                                                                         *)
(* A host serialises everything it does to its journal, so an operation of *)
(* the engine and a tick of the worker are one action each; only the HTTP  *)
(* exchange runs beside them.  The poll interval, the backoff and the wake *)
(* after an edit decide only when a tick sends: here the free choice `due`.*)
(***************************************************************************)
EXTENDS QueueServer, QueueClient, DeviceIntents

CONSTANTS
  Op,               \* the kinds of intent the users have
  Seeds, SeedTimer, \* the queue sync was set up with
  AdminOp,          \* what the operator does: "revoke", "copy", "raw"
  Failure,          \* what goes wrong: "before", "after", "crash", "power", "panic", "lost", "late"
  FreshFor,         \* FRESH_SECS
  MaxTime,          \* bound on the server's sampled clock
  MaxMishaps,       \* bound on failed saves, syncs and process deaths
  MaxRestores       \* bound on restores of the one backup taken

\* There are devices, finitely many, the queue they were set up with has a type, and the
\* absent value is neither a command, nor a receipt, nor a reason to stop.
ASSUME SyncConstants ==
  /\ IsFiniteSet(Device) /\ Device # {} /\ CommandId # {}
  /\ Seeds \in Seq(SeedRecord) /\ SeedTimer \in TimerRecord \cup {None}
  /\ FreshFor \in Nat /\ MaxTime \in Nat
  /\ None \notin Command \cup {"Network", "recovery"}
  /\ None \notin [command : CommandId, outcome : ReceiptOutcome]

VARIABLES
  client,       \* per device, the journal (see QueueClient)
  worker,       \* per device, [request, result, halted, discard]
  sent,         \* requests that may arrive late or again; never taken away
  composed,     \* command id -> [device, command, base]: all that users asked
  promised,     \* commands that were reported saved
  dismissed,    \* refused commands the user has dismissed
  mishaps, restores

devices == <<client, worker, composed, promised, dismissed, mishaps>>
vars == <<serverVars, devices, sent, restores>>

(***************************************************************************)
(* After setup: the server holds the founder's queue, and every device the *)
(* envelope made from it.                                                  *)
(***************************************************************************)
Founding ==
  [id |-> FreshIn(CommandId, {}), generation |-> FreshIn(Generation, {}), guard |-> None,
   action |-> [op |-> "Initialize", seeds |-> Seeds, timer |-> SeedTimer]]
Founder == CHOOSE d \in Device : TRUE
Empty == NewState(FreshIn(Generation, {}))

\* The server took the first device's queue.
ASSUME FoundingTaken == Refusal(Empty, Founding, 0) = None

\* The token a device was set up with; it is not changed while the app runs.
TokenOf(device) ==
  LET inOrder == Sq!SetToSeq(Device) IN CHOOSE i \in DOMAIN inOrder : inOrder[i] = device

NewWorker ==
  [request |-> None, result |-> None, halted |-> FALSE, discard |-> FALSE]

Init ==
  /\ state = Apply(Empty, Founding, 0)
  /\ history = [r \in {0, 1} |-> IF r = 0 THEN Empty.snapshot.history
                                 ELSE state.snapshot.history]
  /\ receipts = [c \in {Founding.id} |->
       [device |-> Founder, command |-> Founding, outcome |-> Applied(1)]]
  /\ lastTime = 0
  /\ enrolled = [d \in Device |-> [token |-> TokenOf(d), revoked |-> FALSE]]
  /\ minted = Cardinality(Device)
  /\ roots = {FreshIn(Generation, {})}
  /\ artifact = None
  /\ client = [d \in Device |->
       [disk |-> <<NewEnvelope(d, state.snapshot, 0)>>, warned |-> FALSE, seen |-> None]]
  /\ worker = [d \in Device |-> NewWorker]
  /\ sent = {}
  /\ composed = <<>>
  /\ promised = {}
  /\ dismissed = {}
  /\ mishaps = 0
  /\ restores = 0

(***************************************************************************)
(* Users                                                                   *)
(***************************************************************************)
env(d) == Envelope(client[d])

\* Random identities never drawn before.
NewCommand == FreshIn(CommandId, DOMAIN composed \cup {Founding.id})
CommandsLeft == CommandId # DOMAIN composed \cup {Founding.id}
TasksDrawn ==
  {Seeds[i].id : i \in DOMAIN Seeds} \cup {CreatedTask(composed[c].command) : c \in DOMAIN composed}
Drawable(a) ==
  a.op \in {"Create", "CreateNow"} =>
    ~(TaskId \subseteq TasksDrawn) /\ a.task = FreshIn(TaskId, TasksDrawn)

\* How a save can end: in full, or as one of the enabled failures.
SaveResult == {"ok"} \cup (Failure \cap {"before", "after"})
Mishaps(count) == mishaps' = mishaps + count /\ mishaps' <= MaxMishaps
Unless(holds) == IF holds THEN 0 ELSE 1

\* What a device holds without a warning has been reported saved.
Promises(d) ==
  promised' = promised \cup
    (IF client'[d].warned THEN {} ELSE Ids(Envelope(client'[d]).pending))

\* The intent is in the journal, durable or not.  (A save that fails before its
\* commit changes nothing and promises nothing.)
Enqueue(d, command, saved) ==
  /\ client' = [client EXCEPT ![d] = Install(@, Enqueued(Envelope(@), command), saved)]
  /\ composed' = [c \in DOMAIN composed \cup {command.id} |->
       IF c = command.id
       THEN [device |-> d, command |-> command, base |-> env(d).confirmed.history]
       ELSE composed[c]]
  /\ Promises(d)
  /\ Mishaps(Unless(saved = "ok"))
  /\ UNCHANGED <<serverVars, worker, sent, dismissed, restores>>

Edit(d) ==
  /\ CommandsLeft
  /\ LET shown == Projection(env(d)).state.snapshot
     IN \E a \in {a \in QueuedActions(shown) : a.op \in Op /\ Drawable(a) /\ Offered(shown, a)},
           saved \in SaveResult \ {"before"} :
          LET command == [id |-> NewCommand, generation |-> env(d).confirmed.generation,
                          guard |-> None, action |-> a]
          IN CanEnqueueQueued(client[d], command) /\ Enqueue(d, command, saved)

Focus(d) ==
  /\ CommandsLeft
  /\ client[d].seen # None
  /\ LET shown == env(d).confirmed
     IN \E a \in {a \in FocusActions(shown) : a.op \in Op /\ Drawable(a) /\ Offered(shown, a)},
           saved \in SaveResult \ {"before"}, now \in client[d].seen..(client[d].seen + FreshFor) :
          LET command == [id |-> NewCommand, generation |-> shown.generation,
                          guard |-> ObservedGuard(shown, client[d].seen), action |-> a]
          IN CanEnqueueFocus(client[d], command, now) /\ Enqueue(d, command, saved)

\* The user has read a refused change and lets go of it.
Dismiss(d) ==
  \E i \in DOMAIN env(d).recovery, saved \in SaveResult \ {"before"} :
    LET c == env(d).recovery[i].command.id
    IN /\ ~Quarantined(env(d))
       /\ client' = [client EXCEPT ![d] = DismissRecovery(@, c, saved)]
       /\ dismissed' = dismissed \cup {c}
       /\ Mishaps(Unless(saved = "ok"))
       /\ UNCHANGED <<serverVars, worker, sent, composed, promised, restores>>

\* Host::retry_sync: the journal first, and only then the worker.
Retry(d) ==
  \E saved \in SaveResult \ {"before"} :
    /\ ~Quarantined(env(d))
    /\ worker[d].halted \/ env(d).suspension # None
    /\ client' = [client EXCEPT ![d] = Resume(@, saved)]
    /\ worker' = [worker EXCEPT ![d].halted = FALSE]
    /\ Promises(d)
    /\ Mishaps(Unless(saved = "ok"))
    /\ UNCHANGED <<serverVars, sent, composed, dismissed, restores>>

(***************************************************************************)
(* A tick of the worker: take a result if there is one, try to make a      *)
(* doubtful save durable, and send the next request if it is time.         *)
(***************************************************************************)
Lost == [reason |-> "Network", response |-> None]
Idle(w) == [w EXCEPT !.request = None, !.result = None, !.discard = FALSE]

\* The journal and the worker after the result is taken; `return` says that the
\* tick ends here.
Taken(c, w, saved) ==
  LET result == w.result
      halted == [Idle(w) EXCEPT !.halted = TRUE]
      Then(journal, work) == [client |-> journal, worker |-> work, return |-> FALSE]
  IN IF w.request = None \/ result = None THEN Then(c, w)
     ELSE IF w.discard THEN [Then(NetworkFailed(c), Idle(w)) EXCEPT !.return = TRUE]
     ELSE IF result.reason = "Network" THEN Then(NetworkFailed(c), Idle(w))
     ELSE IF result.reason # None
     THEN Then(Suspend(c, result.reason \in {"WrongDataset", "HistoryMismatch"}, saved), halted)
     ELSE IF ~CanAccept(c, w.request, result.response) THEN Then(Suspend(c, FALSE, saved), halted)
     ELSE Then(Accept(c, w.request, result.response, saved), Idle(w))

TickWith(d, saved, synced, due) ==
  LET taken == Taken(client[d], worker[d], saved)
      ready == IF taken.return THEN taken.client ELSE Resync(taken.client, synced)
      request == NextRequest(ready, TokenOf(d))
      sends == /\ due /\ ~taken.return /\ ~taken.worker.halted
               /\ taken.worker.request = None /\ CanRequest(ready)
  IN /\ saved # "ok" => worker[d].result # None
     /\ ~synced => "after" \in Failure /\ taken.client.warned
     /\ client' = [client EXCEPT ![d] = ready]
     /\ worker' = [worker EXCEPT ![d] =
          IF sends THEN [taken.worker EXCEPT !.request = request] ELSE taken.worker]
     /\ sent' = IF sends /\ "late" \in Failure /\ request.command # None
                THEN sent \cup {request} ELSE sent
     /\ Promises(d)
     /\ Mishaps(Unless(saved = "ok") + Unless(synced))
     /\ UNCHANGED <<serverVars, composed, dismissed, restores>>

Tick(d) == \E saved \in SaveResult, synced, due \in BOOLEAN : TickWith(d, saved, synced, due)

(***************************************************************************)
(* The network and the server                                              *)
(***************************************************************************)
Waiting(d) == worker[d].request # None /\ worker[d].result = None

Answered(d, result) == worker' = [worker EXCEPT ![d].result = result]

Handled(d, now) == Waiting(d) /\ Exchange(worker[d].request, now)

Serve(d, now) ==
  /\ Handled(d, now)
  /\ Answered(d, [reason |-> None, response |-> Response(worker[d].request)])
  /\ UNCHANGED <<client, composed, promised, dismissed, mishaps, sent, restores>>

\* Executed, but the answer is lost.
ServeUnheard(d, now) ==
  /\ "lost" \in Failure
  /\ Handled(d, now)
  /\ Answered(d, Lost)
  /\ UNCHANGED <<client, composed, promised, dismissed, mishaps, sent, restores>>

Refuse(d) ==
  /\ Waiting(d)
  /\ ExchangeError(worker[d].request) # None
  /\ Answered(d, [reason |-> ExchangeError(worker[d].request), response |-> None])
  /\ UNCHANGED <<serverVars, client, composed, promised, dismissed, mishaps, sent, restores>>

\* Refused, busy, timed out or unreachable; what was sent may still arrive.
Lose(d) ==
  /\ "lost" \in Failure
  /\ Waiting(d)
  /\ Answered(d, Lost)
  /\ UNCHANGED <<serverVars, client, composed, promised, dismissed, mishaps, sent, restores>>

\* A request nobody waits for any longer arrives, for the first time or again.
Arrive(now) ==
  \E request \in sent :
    Exchange(request, now) /\ UNCHANGED <<devices, sent, restores>>

(***************************************************************************)
(* Processes that die                                                      *)
(***************************************************************************)
\* A power failure may take every save that is not yet durable.
Survivors(c) ==
  {c} \cup (IF "power" \in Failure
            THEN {[c EXCEPT !.disk = <<@[i]>>] : i \in DOMAIN c.disk} ELSE {})

Crash(d) ==
  \E left \in Survivors(client[d]), synced \in BOOLEAN :
    /\ Failure \cap {"crash", "power"} # {}
    /\ ~synced => "after" \in Failure
    /\ client' = [client EXCEPT ![d] = Open(left, synced)]
    /\ worker' = [worker EXCEPT ![d] = NewWorker]
    /\ Promises(d)
    /\ Mishaps(1)
    /\ UNCHANGED <<serverVars, sent, composed, dismissed, restores>>

\* The engine panicked and is reopened from its files; the worker lives on.
Reopen(d) ==
  \E synced \in BOOLEAN :
    /\ "panic" \in Failure
    /\ ~synced => "after" \in Failure
    /\ client' = [client EXCEPT ![d] = Open(@, synced)]
    /\ worker' = [worker EXCEPT ![d].discard = worker[d].request # None]
    /\ Promises(d)
    /\ Mishaps(1)
    /\ UNCHANGED <<serverVars, sent, composed, dismissed, restores>>

(***************************************************************************)
(* The operator                                                            *)
(***************************************************************************)
Operate ==
  /\ \/ "revoke" \in AdminOp /\ (\E d \in Device : Revoke(d)) /\ UNCHANGED restores
     \/ restores < MaxRestores /\ artifact = None /\ Backup /\ UNCHANGED restores
     \/ /\ restores < MaxRestores
        /\ \/ "raw" \in AdminOp /\ RawRestore
           \/ "copy" \in AdminOp /\ RestoreGeneration
        /\ restores' = restores + 1
  /\ UNCHANGED <<devices, sent>>

Next ==
  \/ \E d \in Device : \/ Edit(d) \/ Focus(d) \/ Dismiss(d) \/ Retry(d) \/ Tick(d)
                       \/ Refuse(d) \/ Lose(d) \/ Crash(d) \/ Reopen(d)
                       \/ \E now \in 0..MaxTime : Serve(d, now) \/ ServeUnheard(d, now)
  \/ \E now \in 0..MaxTime : Arrive(now)
  \/ Operate

Spec == Init /\ [][Next]_vars

\* The host ticks every second, a tick is sooner or later due and its save
\* succeeds; the transport gives up after 30 s at the latest, and of the
\* exchanges tried again and again one gets through.  (The conditions are those
\* under which the steps are enabled.)
HasWork(d) ==
  \/ worker[d].result # None
  \/ client[d].warned
  \/ worker[d].request = None /\ ~worker[d].halted /\ CanRequest(client[d])
Ticks(d) == <>[]HasWork(d) => []<><<TickWith(d, "ok", TRUE, TRUE)>>_vars
Hears(d) ==
  []<>Waiting(d) => []<><<Refuse(d) \/ \E now \in 0..MaxTime : Serve(d, now)>>_vars
Fairness == \A d \in Device : Ticks(d) /\ Hears(d)
LiveSpec == Spec /\ Fairness

(***************************************************************************)
(* What all of it promises: CommandLedger, seen through the durable part   *)
(* of each journal.  The two oldest links of a chain are the empty queue   *)
(* and the founding, before which there is nothing to promise.             *)
(***************************************************************************)
Durable(d) == client[d].disk[1]
Log ==
  [i \in 1..(Len(state.snapshot.history) - 2) |-> state.snapshot.history[i + 2].by]
Verdict ==
  [c \in DOMAIN receipts \ {Founding.id} |->
     [device |-> receipts[c].device, status |-> receipts[c].outcome.status]]
Holds == [d \in Device |-> Ids(Durable(d).pending)]
Sees == [d \in Device |-> Len(Durable(d).confirmed.history) - 2]

Ledger == INSTANCE CommandLedger WITH
  Id <- CommandId, log <- Log, verdict <- Verdict,
  holds <- Holds, sees <- Sees

\* While no backup comes back, the devices, the network, the failures and the
\* server together keep the promises of the ledger.
KeepsLedger == Ledger!Spec

(***************************************************************************)
(* Properties                                                              *)
(***************************************************************************)
Chain(snap) == [i \in DOMAIN snap.history |-> snap.history[i].by]
Applies(snap) == Fn!Range(Chain(snap))
Accounted(e, c) == c \in Ids(Intents(e)) \cup Applies(e.confirmed)

\* No silent loss (sync-design.md "every accepted offline command is durable"):
\* what was reported saved is, in every envelope a power failure could bring
\* back, still pending, kept as refused or part of the confirmed queue, until
\* the user dismisses it.
NoIntentLost ==
  \A c \in promised \ dismissed :
    \A i \in DOMAIN client[composed[c].device].disk :
      Accounted(client[composed[c].device].disk[i], c)

\* While no backup came back and the token holds, nothing that the network, the
\* disk or the other devices do makes the sync of a device stop for attention.
NeverHaltedWithoutCause ==
  \A d \in Device :
    restores = 0 /\ ~enrolled[d].revoked =>
      ~worker[d].halted /\ env(d).suspension = None

\* An executed command was composed on an ancestor of the state it is executed
\* on: no restore carries an intent over to a branch its user never saw.
IntentsStayOnTheirBranch ==
  \A i \in DOMAIN state.snapshot.history :
    LET c == state.snapshot.history[i].by
    IN c \in DOMAIN composed => Sq!IsPrefix(composed[c].base, state.snapshot.history)

\* A focus command takes effect directly on the queue its device had confirmed
\* when the user gave it: of two devices that press Complete on the same task
\* one completes it, and the other completes nothing.
FocusActsOnTheShownQueue ==
  \A i \in DOMAIN state.snapshot.history :
    LET c == state.snapshot.history[i].by
    IN c \in DOMAIN composed =>
         (IsFocus(composed[c].command) =>
            composed[c].base = SubSeq(state.snapshot.history, 1, i - 1))

\* When nobody else intervened, the server does what the device has shown: the
\* same edits refused, the others giving the same order, tokens and contents.
Forecast ==
  \A d \in Device :
    LET e == env(d)
        Run(view, command) ==
          IF Refusal(view.state, command, lastTime) = None
          THEN [view EXCEPT !.state = Apply(@, command, lastTime)]
          ELSE [view EXCEPT !.conflicts = @ \cup {command.id}]
        ran[n \in 0..Len(e.pending)] ==
          IF n = 0 THEN [state |-> state, conflicts |-> {}] ELSE Run(ran[n - 1], e.pending[n])
        real == ran[Len(e.pending)]
        shown == Projection(e)
    IN e.confirmed = state.snapshot /\ (\A i \in DOMAIN e.pending : ~IsFocus(e.pending[i])) =>
         /\ shown.conflicts = real.conflicts
         /\ shown.state.snapshot.order = real.state.snapshot.order
         /\ \A t \in Live(shown.state.snapshot) :
              [shown.state.snapshot.task[t] EXCEPT !.created = 0]
                = [real.state.snapshot.task[t] EXCEPT !.created = 0]

\* Whatever is lost on the way, an intent is settled in the end, or the device
\* stops with a message and keeps it.
IntentsSettle ==
  \A d \in Device, c \in CommandId :
    c \in Ids(env(d).pending) ~> c \notin Ids(env(d).pending) \/ env(d).suspension # None

\* In the end every change is shown on every device that has not stopped.
ChangesReachEveryDevice ==
  \A d \in Device, c \in CommandId :
    c \in Applies(state.snapshot) ~> c \in Applies(env(d).confirmed) \/ env(d).suspension # None
=============================================================================
